------------------------------- MODULE Heap -------------------------------
(***************************************************************************)
(* The storage manager's generational copying collector (rts/sm/GC.c,      *)
(* Evac.c, Scav.c, MarkWeak.c, GCAux.c), the write barriers the mutator    *)
(* owes it (rts/sm/Storage.c, rts/Updates.h, rts/PrimOps.cmm) and what is  *)
(* done after a collection with weak pointers and unreachable threads      *)
(* (rts/Weak.c, rts/Schedule.c).                                           *)
(*                                                                         *)
(* An object keeps its identity when it moves; its address does not.  A    *)
(* pointer is an object together with the address bit `at' it was taken    *)
(* at, and moving an object flips the bit: a pointer that evacuation did   *)
(* not update no longer agrees with its object.  Objects are small or      *)
(* large (large ones are relinked, not moved), one field stands for every  *)
(* pointer of an object, and the mutator is one that can do all that       *)
(* several Capabilities can, since a collection stops them all.            *)
(***************************************************************************)
EXTENDS Naturals, FiniteSets, Sequences, SequencesExt

CONSTANTS
  Obj,        \* heap objects
  Caf,        \* static objects: top-level thunks
  Root,       \* the registers and stack slots of the running threads
  Gens,       \* RtsFlags.GcFlags.generations
  Null,
  Start,      \* the heaps a behaviour may start with: records [obj, root, runq, weaks, can]
  MaxOps, MaxGCs

ASSUME HeapAssumption == /\ Gens \in Nat /\ Gens >= 2
                         /\ Caf \cap Obj = {}

VARIABLES
  obj,        \* object -> header, block descriptor and fields
  root, runq, \* what the running threads and the run queues point to
  pending,    \* finalizers handed to a new thread
  stable,     \* stable pointers
  mut,        \* generation -> its mutable list
  threads,    \* generation -> its list of threads
  weaks,      \* weak_ptr_list
  finished,   \* threads that are ThreadComplete or ThreadKilled
  gc,         \* the collection in progress
  can,        \* the operations the program performs
  ops, gcs    \* the bounds

vars == <<obj, root, runq, pending, stable, mut, threads, weaks, finished, gc, can, ops, gcs>>

Oldest == Gens - 1
Object == Obj \cup Caf
Ptr == [o : Object, at : {0, 1}]

\* The kinds of object that are copied; indirections are not.
Moves == {"con", "var", "arr", "thunk", "weak", "deadweak", "tso"}
Kind == Moves \cup {"ind", "caf", "free"}

At(o) == [o |-> o, at |-> obj[o].at]

\* generations[g].to: where the survivors of generation g go.
To(g) == IF g = Oldest THEN Oldest ELSE g + 1

NoGC == [on |-> FALSE, N |-> 0, saved |-> {}, todo |-> {}, static |-> {}, linked |-> {},
         stage |-> "Idle", oldWeaks |-> <<>>, oldThreads |-> {}, resurrected |-> {}]

Init ==
  /\ \E s \in Start : /\ obj = s.obj
                      /\ root = s.root
                      /\ runq = s.runq
                      /\ weaks = s.weaks
                      /\ can = s.can
                      /\ threads = [g \in 0..Oldest |->
                            {p \in Ptr : p.o \in Obj /\ s.obj[p.o].kind = "tso" /\ p.at = s.obj[p.o].at
                                           /\ s.obj[p.o].gen = g}]
  /\ pending = {}
  /\ stable = {}
  /\ finished = {}
  /\ mut = [g \in 1..Oldest |->
              {p \in Ptr : /\ p.o \in Obj /\ obj[p.o].gen = g /\ p.at = obj[p.o].at
                           /\ \/ obj[p.o].mark \in {"DIRTY", "FROZEN0"}
                              \/ obj[p.o].kind = "arr" /\ obj[p.o].mark = "CLEAN"}]
  /\ gc = NoGC
  /\ ops = 0
  /\ gcs = 0

-----------------------------------------------------------------------------
(***************************************************************************)
(* The write barriers.                                                     *)
(***************************************************************************)

\* recordMutableCap and recordClosureMutated: an object of generation 0 is
\* on no mutable list.
RecordMutable(o) ==
  IF obj[o].gen = 0 THEN mut ELSE [mut EXCEPT ![obj[o].gen] = @ \cup {At(o)}]

\* dirty_MUT_VAR, dirty_MVAR, dirty_TSO, dirty_STACK and setTSOLink: the
\* first write after a collection puts the object on the mutable list.
Dirty(o) == IF obj[o].mark = "CLEAN" THEN RecordMutable(o) ELSE mut

Quiet == ~gc.on

-----------------------------------------------------------------------------
(***************************************************************************)
(* The mutator.                                                            *)
(***************************************************************************)
Op(name) == Quiet /\ name \in can /\ ops < MaxOps /\ ops' = ops + 1

Free == {o \in Obj : obj[o].kind = "free"}
Holds(r, kinds) == root[r] # Null /\ obj[root[r].o].kind \in kinds
Values == {"con", "var", "arr"}

\* allocate(): the nursery is generation 0 and its survivors stay in it once;
\* a large object gets blocks of its own.
Fresh(o, k, f, big) ==
  [obj EXCEPT ![o] = [@ EXCEPT !.kind = k, !.fld = f, !.gen = 0, !.dest = 0, !.evac = FALSE,
                               !.large = big, !.mark = IF k \in {"var", "arr", "tso"} THEN "DIRTY" ELSE "NONE"]]

Alloc(r, k, s, big) ==
  /\ Op(k)
  /\ k \in {"con", "var", "arr", "thunk"}
  /\ big => k \in {"arr", "thunk"}
  /\ Free # {}
  /\ LET o == CHOOSE x \in Free : TRUE IN
       /\ obj' = Fresh(o, k, <<root[s]>>, big)
       /\ root' = [root EXCEPT ![r] = At(o)]
  /\ UNCHANGED <<runq, pending, stable, mut, threads, weaks, finished, gc, can, gcs>>

\* createThread: on g0->threads and on a run queue.
Fork(r) ==
  /\ Op("fork")
  /\ Free # {}
  /\ LET o == CHOOSE x \in Free : TRUE IN
       /\ obj' = Fresh(o, "tso", <<root[r]>>, FALSE)
       /\ runq' = runq \cup {At(o)}
       /\ threads' = [threads EXCEPT ![0] = @ \cup {At(o)}]
  /\ UNCHANGED <<root, pending, stable, mut, weaks, finished, gc, can, gcs>>

\* mkWeak#: the new weak pointer goes to the front of weak_ptr_list.
MkWeak(r, k, v) ==
  /\ Op("weak")
  /\ Holds(k, Values \cup {"thunk"})
  /\ Free # {}
  /\ LET o == CHOOSE x \in Free : TRUE IN
       /\ obj' = Fresh(o, "weak", <<root[k], root[v], root[v]>>, FALSE)
       /\ root' = [root EXCEPT ![r] = At(o)]
       /\ weaks' = <<At(o)>> \o weaks
  /\ UNCHANGED <<runq, pending, stable, mut, threads, finished, gc, can, gcs>>

\* finalizeWeak#: kills the weak pointer, which stays on weak_ptr_list, and
\* returns the finalizer.
FinalizeWeak(r) ==
  /\ Op("weak")
  /\ Holds(r, {"weak"})
  /\ LET w == root[r].o IN
       /\ obj' = [obj EXCEPT ![w].kind = "deadweak", ![w].fld = <<>>]
       /\ root' = [root EXCEPT ![r] = obj[w].fld[3]]
  /\ UNCHANGED <<runq, pending, stable, mut, threads, weaks, finished, gc, can, gcs>>

\* deRefWeak#.
DeRefWeak(r) ==
  /\ Op("weak")
  /\ Holds(r, {"weak"})
  /\ root' = [root EXCEPT ![r] = obj[root[r].o].fld[2]]
  /\ UNCHANGED <<obj, runq, pending, stable, mut, threads, weaks, finished, gc, can, gcs>>

\* Reading a field, or entering a thunk that has been updated.
Load(r) ==
  /\ Op("load")
  /\ Holds(r, {"con", "var", "arr", "ind", "caf"})
  /\ obj[root[r].o].fld # <<>>
  /\ root' = [root EXCEPT ![r] = obj[root[r].o].fld[1]]
  /\ UNCHANGED <<obj, runq, pending, stable, mut, threads, weaks, finished, gc, can, gcs>>

Drop(r) ==
  /\ Op("drop")
  /\ root[r] # Null
  /\ root' = [root EXCEPT ![r] = Null]
  /\ UNCHANGED <<obj, runq, pending, stable, mut, threads, weaks, finished, gc, can, gcs>>

\* writeMutVar#, putMVar# and writeArray#.  An array that is not frozen is
\* always on the mutable list, so a write only marks it.
Store(r, s) ==
  /\ Op("store")
  /\ \/ Holds(r, {"var"})
     \/ Holds(r, {"arr"}) /\ obj[root[r].o].mark \in {"CLEAN", "DIRTY"}
  /\ LET o == root[r].o IN
       /\ obj' = [obj EXCEPT ![o].fld = <<root[s]>>, ![o].mark = "DIRTY"]
       /\ mut' = IF obj[o].kind = "var" THEN Dirty(o) ELSE mut
  /\ UNCHANGED <<root, runq, pending, stable, threads, weaks, finished, gc, can, gcs>>

\* unsafeFreezeArray#: the array stays on the mutable list.
Freeze(r) ==
  /\ Op("freeze")
  /\ Holds(r, {"arr"}) /\ obj[root[r].o].mark \in {"CLEAN", "DIRTY"}
  /\ obj' = [obj EXCEPT ![root[r].o].mark = "FROZEN0"]
  /\ UNCHANGED <<root, runq, pending, stable, mut, threads, weaks, finished, gc, can, gcs>>

\* Mutant of Thaw: the array is taken to be on the mutable list already.
ThawUnrecorded(r) ==
  /\ Op("freeze")
  /\ Holds(r, {"arr"}) /\ obj[root[r].o].mark \in {"FROZEN", "FROZEN0"}
  /\ obj' = [obj EXCEPT ![root[r].o].mark = "DIRTY"]
  /\ UNCHANGED <<root, runq, pending, stable, mut, threads, weaks, finished, gc, can, gcs>>

\* unsafeThawArray#: FROZEN0 says that the array is on the mutable list.
Thaw(r) ==
  /\ Op("freeze")
  /\ Holds(r, {"arr"}) /\ obj[root[r].o].mark \in {"FROZEN", "FROZEN0"}
  /\ obj' = [obj EXCEPT ![root[r].o].mark = "DIRTY"]
  /\ mut' = IF obj[root[r].o].mark # "FROZEN0" THEN RecordMutable(root[r].o) ELSE mut
  /\ UNCHANGED <<root, runq, pending, stable, threads, weaks, finished, gc, can, gcs>>

\* updateWithIndirection: the thunk becomes a BLACKHOLE whose indirectee is
\* the value.
Update(r, s) ==
  /\ Op("update")
  /\ Holds(r, {"thunk"}) /\ Holds(s, Values)
  /\ obj' = [obj EXCEPT ![root[r].o].kind = "ind", ![root[r].o].fld = <<root[s]>>]
  /\ mut' = RecordMutable(root[r].o)
  /\ UNCHANGED <<root, runq, pending, stable, threads, weaks, finished, gc, can, gcs>>

\* newCAF: the static thunk gets a heap-allocated black hole to stand for its
\* value and goes to the mutable list of the oldest generation.
NewCAF(r) ==
  /\ Op("caf")
  /\ Holds(r, {"caf"}) /\ obj[root[r].o].fld = <<>>
  /\ Free # {}
  /\ LET o == CHOOSE x \in Free : TRUE IN
       /\ obj' = [Fresh(o, "thunk", <<>>, FALSE) EXCEPT ![root[r].o].fld = <<At(o)>>]
       /\ root' = [root EXCEPT ![r] = At(o)]
  /\ mut' = [mut EXCEPT ![Oldest] = @ \cup {root[r]}]
  /\ UNCHANGED <<runq, pending, stable, threads, weaks, finished, gc, can, gcs>>

\* A thread blocks on the MVar in r: it leaves the run queue and the MVar
\* points to it.
Block(p, r) ==
  /\ Op("block")
  /\ p \in runq /\ Holds(r, {"var"})
  /\ obj' = [obj EXCEPT ![root[r].o].fld = <<p>>, ![root[r].o].mark = "DIRTY"]
  /\ mut' = Dirty(root[r].o)
  /\ runq' = runq \ {p}
  /\ UNCHANGED <<root, pending, stable, threads, weaks, finished, gc, can, gcs>>

\* A running thread pushes a pointer on its stack; schedule() marked the TSO
\* and its stack dirty before running it.
Push(p, r) ==
  /\ Op("push")
  /\ p \in runq
  /\ obj' = [obj EXCEPT ![p.o].fld = <<root[r]>>, ![p.o].mark = "DIRTY"]
  /\ mut' = Dirty(p.o)
  /\ UNCHANGED <<root, runq, pending, stable, threads, weaks, finished, gc, can, gcs>>

Finish(p) ==
  /\ Op("finish")
  /\ p \in runq
  /\ runq' = runq \ {p}
  /\ finished' = finished \cup {p.o}
  /\ UNCHANGED <<obj, root, pending, stable, mut, threads, weaks, gc, can, gcs>>

\* getStablePtr and freeStablePtr.
StablePtr(r) ==
  /\ Op("stable")
  /\ root[r] # Null
  /\ stable' = stable \cup {root[r]}
  /\ UNCHANGED <<obj, root, runq, pending, mut, threads, weaks, finished, gc, can, gcs>>

FreeStablePtr(p) ==
  /\ Op("stable")
  /\ stable' = stable \ {p}
  /\ UNCHANGED <<obj, root, runq, pending, mut, threads, weaks, finished, gc, can, gcs>>

\* The thread that runs a batch of finalizers ends.
RunFinalizers ==
  /\ ~gc.on /\ pending # {}
  /\ pending' = {}
  /\ UNCHANGED <<obj, root, runq, stable, mut, threads, weaks, finished, gc, can, ops, gcs>>

Mutator ==
  \/ \E r, s \in Root, k \in {"con", "var", "arr", "thunk"}, big \in BOOLEAN : Alloc(r, k, s, big)
  \/ \E r, s \in Root : Store(r, s) \/ Update(r, s)
  \/ \E r, k, v \in Root : MkWeak(r, k, v)
  \/ \E r \in Root : \/ Fork(r) \/ FinalizeWeak(r) \/ DeRefWeak(r) \/ Load(r) \/ Drop(r)
                     \/ Freeze(r) \/ Thaw(r) \/ NewCAF(r) \/ StablePtr(r)
  \/ \E p \in runq : Finish(p) \/ \E r \in Root : Block(p, r) \/ Push(p, r)
  \/ \E p \in stable : FreeStablePtr(p)
  \/ RunFinalizers

-----------------------------------------------------------------------------
(***************************************************************************)
(* Evacuation.  A heap in the middle of a collection is a record h; the    *)
(* pointers evacuated are appended to h.out.                               *)
(***************************************************************************)
Heap0 == [obj |-> obj, todo |-> gc.todo, static |-> gc.static, linked |-> gc.linked,
          failed |-> FALSE, out |-> <<>>]

Answer(h, p, low) == [h EXCEPT !.out = Append(@, p), !.failed = @ \/ low]

\* alloc_for_copy: the destination generation, raised to the one asked for
\* where eager promotion is allowed.
Promote(dest, want, eager) == IF dest < want /\ eager THEN want ELSE dest

\* What evacuating o does: it is in generation g now, and has still to be
\* scavenged.
Evacuated(h, o, g, at, want) ==
  Answer([h EXCEPT !.obj[o] = [@ EXCEPT !.at = at, !.gen = g, !.dest = To(g), !.evac = TRUE],
                   !.todo = @ \cup {o}],
         [o |-> o, at |-> at], g < want)

\* copy, copy_tag and their variants: a small object moves.
Copy(h, o, want, eager) ==
  Evacuated(h, o, Promote(h.obj[o].dest, want, eager), 1 - h.obj[o].at, want)

\* evacuate_large: a large object is linked to another generation.
EvacuateLarge(h, o, want, eager) ==
  Evacuated(h, o, Promote(h.obj[o].dest, want, eager), h.obj[o].at, want)

\* The branch of evacuate() for objects outside the heap: linked into
\* static_objects by a major collection.
EvacStatic(h, p) ==
  Answer(IF gc.N = Oldest /\ p.o \notin h.linked
           THEN [h EXCEPT !.static = @ \cup {p.o}, !.linked = @ \cup {p.o}] ELSE h,
         p, FALSE)

\* evacuate(): want is gct->evac_gen_no.
RECURSIVE Evacuate(_, _, _, _)
Evacuate(h, p, want, eager) ==
  IF p = Null THEN Answer(h, p, FALSE)
  ELSE LET x == h.obj[p.o] IN
    CASE p.o \in Caf -> EvacStatic(h, p)
      [] x.evac -> Answer(h, [o |-> p.o, at |-> x.at], x.gen < want)  \* to-space, or forwarded
      [] ~x.evac /\ x.large -> EvacuateLarge(h, p.o, want, eager)
      [] ~x.evac /\ ~x.large /\ x.kind = "ind" -> Evacuate(h, x.fld[1], want, eager)
      [] ~x.evac /\ ~x.large /\ x.kind \in Moves -> Copy(h, p.o, want, eager)

RECURSIVE EvacuateRest(_, _, _, _)
EvacuateRest(h, ps, want, eager) ==
  IF ps = <<>> THEN h ELSE EvacuateRest(Evacuate(h, Head(ps), want, eager), Tail(ps), want, eager)

EvacuateAll(h, ps, want, eager) == EvacuateRest([h EXCEPT !.out = <<>>], ps, want, eager)

\* isAlive(): where p is now, or Null.  It follows an IND, but what an update
\* leaves behind is a BLACKHOLE.
IsAlive(h, p) ==
  IF p = Null \/ p.o \in Caf THEN p
  ELSE IF h.obj[p.o].evac THEN [o |-> p.o, at |-> h.obj[p.o].at]
  ELSE Null

-----------------------------------------------------------------------------
(***************************************************************************)
(* Scavenging.                                                             *)
(***************************************************************************)

\* scavengeTSO and scavenge_stack: the frames of the stack and what the thread
\* is blocked on.
StackPointers(x) == x.fld

\* The pointers scavenging follows: not those of a weak pointer.
Followed(x) ==
  CASE x.kind \in {"weak", "deadweak"} -> <<>>
    [] x.kind = "tso" -> StackPointers(x)
    [] OTHER -> x.fld

\* A mutable array is put back on the mutable list whatever it points to.
Permanent(x) == x.kind = "arr" /\ x.mark \in {"CLEAN", "DIRTY"}

\* Do not promote what a mutable object points to: it may soon point
\* elsewhere.
Eager(x) == x.kind \notin {"var", "tso"} /\ ~Permanent(x)

\* The new header: clean, or dirty when something it points to is younger.
NewMark(x, failed) ==
  CASE x.mark \in {"FROZEN", "FROZEN0"} -> IF failed THEN "FROZEN0" ELSE "FROZEN"
    [] x.mark \in {"CLEAN", "DIRTY"}    -> IF failed THEN "DIRTY" ELSE "CLEAN"
    [] OTHER                            -> x.mark

\* scavenge_block and scavenge_one, for one object o of generation want.
Scavenged(o, want) ==
  LET x == obj[o]
      h == EvacuateAll(Heap0, Followed(x), want, Eager(x))
  IN [h EXCEPT !.obj[o] = [@ EXCEPT !.fld = IF Followed(x) = <<>> THEN @ ELSE h.out,
                                    !.mark = NewMark(x, h.failed)]]

\* recordMutableGen_GC.
Record(o, g, h) == IF g > 0 THEN [mut EXCEPT ![g] = @ \cup {[o |-> o, at |-> h.obj[o].at]}] ELSE mut

\* Mutant of Scavenge: the object stays on the list of objects to scavenge.
ScavengeAgain(o, g) ==
  LET h == Scavenged(o, g) IN
    /\ obj' = h.obj
    /\ gc' = [gc EXCEPT !.todo = h.todo, !.static = h.static, !.linked = h.linked]
    /\ mut' = IF h.failed \/ Permanent(obj[o]) THEN Record(o, g, h) ELSE mut

\* What scavenging one object leaves, g being its generation.
Scavenge(o, g) ==
  LET h == Scavenged(o, g) IN
    /\ obj' = h.obj
    /\ gc' = [gc EXCEPT !.todo = h.todo \ {o}, !.static = h.static \ {o}, !.linked = h.linked]
    /\ mut' = IF h.failed \/ Permanent(obj[o]) THEN Record(o, g, h) ELSE mut

-----------------------------------------------------------------------------
(***************************************************************************)
(* A collection of the generations 0 .. N.                                 *)
(***************************************************************************)

\* prepare_collected_gen: the blocks become from-space; the mutable lists of
\* these generations are thrown away.
FromSpace(n) == [o \in Object |-> [obj[o] EXCEPT !.evac = IF obj[o].gen <= n THEN FALSE ELSE @]]

\* prepare_uncollected_gen and stash_mut_list: the mutable lists of the older
\* generations are set aside, as roots.
StashMutLists(n) == {<<g, p>> \in ((n + 1)..Oldest) \X Ptr : p \in mut[g]}

\* initialise_N: a full collection when forced; otherwise the oldest
\* generation that has reached its size limit decides.
InitialiseN == 0..Oldest

\* The first part of GarbageCollect.
BeginGC(n) ==
  /\ Quiet /\ gcs < MaxGCs
  /\ gcs' = gcs + 1
  /\ obj' = FromSpace(n)
  /\ gc' = [NoGC EXCEPT !.on = TRUE, !.N = n, !.stage = "MutLists", !.saved = StashMutLists(n),
                        !.oldThreads = UNION {threads[g] : g \in 0..n}]
  /\ mut' = [g \in 1..Oldest |-> {}]
  /\ threads' = [g \in 0..Oldest |-> IF g <= n THEN {} ELSE threads[g]]
  /\ UNCHANGED <<root, runq, pending, stable, weaks, finished, can, ops>>

\* scavenge_mutable_list, the oldest generation first.
ScavengeMutable(g, p) ==
  /\ gc.stage = "MutLists"
  /\ <<g, p>> \in gc.saved
  /\ \A e \in gc.saved : e[1] <= g
  /\ IF obj[p.o].kind = "arr" /\ obj[p.o].mark = "CLEAN"
       THEN /\ mut' = Record(p.o, g, Heap0)
            /\ gc' = [gc EXCEPT !.saved = @ \ {<<g, p>>}]
            /\ obj' = obj
       ELSE LET h == Scavenged(p.o, g) IN
            /\ obj' = h.obj
            /\ gc' = [gc EXCEPT !.saved = @ \ {<<g, p>>}, !.todo = h.todo,
                                !.static = h.static, !.linked = h.linked]
            /\ mut' = IF h.failed \/ Permanent(obj[p.o]) THEN Record(p.o, g, h) ELSE mut
  /\ UNCHANGED <<root, runq, pending, stable, threads, weaks, finished, can, ops, gcs>>

\* The roots: markCapability, markScheduler, markWeakPtrList (the weak
\* pointers themselves), markStablePtrTable; then initWeakForGC.
MarkRoots ==
  /\ gc.stage = "MutLists" /\ gc.saved = {}
  /\ LET rs == SetToSeq(Root)
         qs == SetToSeq(runq \cup pending \cup stable)
         h == EvacuateAll(Heap0, [i \in DOMAIN rs |-> root[rs[i]]] \o qs \o weaks, 0, TRUE)
         New(p) == h.out[Len(rs) + CHOOSE i \in DOMAIN qs : qs[i] = p]
     IN /\ obj' = h.obj
        /\ root' = [r \in Root |-> h.out[CHOOSE i \in DOMAIN rs : rs[i] = r]]
        /\ runq' = {New(p) : p \in runq}
        /\ pending' = {New(p) : p \in pending}
        /\ stable' = {New(p) : p \in stable}
        /\ weaks' = <<>>
        /\ gc' = [gc EXCEPT !.todo = h.todo, !.static = h.static, !.linked = h.linked,
                            !.stage = "WeakPtrs",
                            !.oldWeaks = SubSeq(h.out, Len(rs) + Len(qs) + 1, Len(h.out))]
  /\ UNCHANGED <<mut, threads, finished, can, ops, gcs>>

Scavenging == gc.stage \in {"WeakPtrs", "WeakThreads", "WeakDone"}

\* scavenge_loop: an object of a block or a large object, in the order the
\* work turns up.
ScavengeObject(o) ==
  /\ Scavenging
  /\ o \in gc.todo
  /\ Scavenge(o, obj[o].gen)
  /\ UNCHANGED <<root, runq, pending, stable, threads, weaks, finished, can, ops, gcs>>

\* scavenge_static: always straight to the oldest generation.
ScavengeStatic(o) ==
  /\ Scavenging
  /\ o \in gc.static
  /\ Scavenge(o, Oldest)
  /\ UNCHANGED <<root, runq, pending, stable, threads, weaks, finished, can, ops, gcs>>

\* Mutant of NothingToScavenge: weak pointers are traversed while objects are
\* still waiting to be scavenged.
MaybeSomethingToScavenge == Scavenging

\* scavenge_until_all_done has found no work.
NothingToScavenge == Scavenging /\ gc.todo = {} /\ gc.static = {}

\* One weak pointer of a traversal in stage WeakPtrs: acc.kept are those that
\* stay on old_weak_ptr_list, acc.alive the new weak_ptr_list.
VisitWeak(acc, p) ==
  LET x == acc.h.obj[p.o]
      key == IsAlive(acc.h, x.fld[1])
      h == EvacuateAll(acc.h, <<x.fld[2], x.fld[3]>>, 0, TRUE)
  IN IF x.kind = "deadweak" THEN acc
     ELSE IF key = Null THEN [acc EXCEPT !.kept = Append(@, p)]
     ELSE [acc EXCEPT !.h = [h EXCEPT !.obj[p.o].fld = <<key, h.out[1], h.out[2]>>],
                      !.alive = <<p>> \o @, !.flag = TRUE]

RECURSIVE VisitWeaks(_, _)
VisitWeaks(acc, ws) == IF ws = <<>> THEN acc ELSE VisitWeaks(VisitWeak(acc, Head(ws)), Tail(ws))

\* traverseWeakPtrList, stage WeakPtrs: when nothing changed the rest are
\* dead and only their finalizers are kept.
TraverseWeakPtrs ==
  /\ NothingToScavenge /\ gc.stage = "WeakPtrs"
  /\ LET acc == VisitWeaks([h |-> Heap0, kept |-> <<>>, alive |-> weaks, flag |-> FALSE], gc.oldWeaks)
         fins == [i \in DOMAIN acc.kept |-> acc.h.obj[acc.kept[i].o].fld[3]]
         f == EvacuateAll(acc.h, fins, 0, TRUE)
         h == IF acc.flag THEN acc.h ELSE f
         Keep(o) == CHOOSE i \in DOMAIN acc.kept : acc.kept[i].o = o
     IN /\ weaks' = acc.alive
        /\ obj' = IF acc.flag THEN h.obj
                  ELSE [o \in Object |-> IF \E i \in DOMAIN acc.kept : acc.kept[i].o = o
                                           THEN [h.obj[o] EXCEPT !.fld[3] = h.out[Keep(o)]]
                                           ELSE h.obj[o]]
        /\ gc' = [gc EXCEPT !.oldWeaks = acc.kept, !.todo = h.todo, !.static = h.static,
                            !.linked = h.linked,
                            !.stage = IF acc.flag THEN @ ELSE "WeakThreads"]
  /\ UNCHANGED <<root, runq, pending, stable, mut, threads, finished, can, ops, gcs>>

\* The list a live thread goes to: that of the generation it is in now.
NewList(p) == obj[p.o].gen

\* resurrectUnreachableThreads: the threads to keep.
Unreachable(p) == IsAlive(Heap0, p) = Null /\ p.o \notin finished

\* Stage WeakThreads: tidyThreadList moves the threads that are alive to the
\* list of the generation they are in now; resurrectUnreachableThreads keeps
\* the others, unless they have finished.
TraverseThreads ==
  /\ NothingToScavenge /\ gc.stage = "WeakThreads"
  /\ LET alive == {IsAlive(Heap0, p) : p \in gc.oldThreads} \ {Null}
         lost == {p \in gc.oldThreads : Unreachable(p)}
         h == EvacuateAll(Heap0, SetToSeq(lost), 0, TRUE)
     IN /\ threads' = [g \in 0..Oldest |-> threads[g] \cup {p \in alive : NewList(p) = g}]
        /\ obj' = h.obj
        /\ gc' = [gc EXCEPT !.todo = h.todo, !.static = h.static, !.linked = h.linked,
                            !.resurrected = ToSet(h.out), !.stage = "WeakDone"]
  /\ UNCHANGED <<root, runq, pending, stable, mut, weaks, finished, can, ops, gcs>>

\* Mutant of Died: large objects are freed although they were relinked.
DiedLarge(o) == obj[o].kind # "free" /\ obj[o].gen <= gc.N /\ o \in Obj /\ (~obj[o].evac \/ obj[o].large)

\* What is left in from-space and on the old lists of large objects.
Died(o) == obj[o].kind # "free" /\ obj[o].gen <= gc.N /\ o \in Obj /\ ~obj[o].evac

DeadWeaks == {gc.oldWeaks[i].o : i \in DOMAIN gc.oldWeaks}

\* A static object that a major collection did not come across is no longer
\* part of the program.
Unlinked(o) == o \in Caf /\ gc.N = Oldest /\ o \notin gc.linked

\* from-space is freed, and so are the large objects left on the old lists;
\* scheduleFinalizers kills the dead weak pointers.
Swept(o) ==
  CASE (o \in Obj /\ Died(o)) \/ Unlinked(o) -> [obj[o] EXCEPT !.kind = "free", !.fld = <<>>]
    [] o \in DeadWeaks -> [obj[o] EXCEPT !.kind = "deadweak", !.fld = <<>>]
    [] At(o) \in gc.resurrected -> [obj[o] EXCEPT !.mark = "DIRTY"]
    [] OTHER -> obj[o]

\* scheduleFinalizers: a thread is created for the finalizers of the weak
\* pointers left on old_weak_ptr_list.
ScheduleFinalizers == pending' = pending \cup ({obj[w].fld[3] : w \in DeadWeaks} \ {Null})

\* resurrectThreads: an exception is raised in the threads nobody could have
\* woken, which go back on their generation's list.
ResurrectThreads ==
  /\ runq' = runq \cup gc.resurrected
  /\ threads' = [g \in 0..Oldest |-> threads[g] \cup {p \in gc.resurrected : obj[p.o].gen = g}]
  /\ mut' = [g \in 1..Oldest |-> mut[g] \cup {p \in gc.resurrected : obj[p.o].gen = g}]

\* The end of GarbageCollect.
EndGC ==
  /\ NothingToScavenge /\ gc.stage = "WeakDone"
  /\ obj' = [o \in Object |-> Swept(o)]
  /\ ScheduleFinalizers
  /\ ResurrectThreads
  /\ gc' = NoGC
  /\ UNCHANGED <<root, stable, weaks, finished, can, ops, gcs>>

Collector ==
  \/ \E n \in InitialiseN : BeginGC(n)
  \/ \E e \in gc.saved : ScavengeMutable(e[1], e[2])
  \/ MarkRoots
  \/ \E o \in gc.todo : ScavengeObject(o)
  \/ \E o \in gc.static : ScavengeStatic(o)
  \/ TraverseWeakPtrs
  \/ TraverseThreads
  \/ EndGC

\* The end of a bounded run: never in the middle of a collection.
Stop == Quiet /\ UNCHANGED vars

Next == Mutator \/ Collector \/ Stop

Spec == Init /\ [][Next]_vars
-----------------------------------------------------------------------------
(***************************************************************************)
(* What the collector promises.                                            *)
(***************************************************************************)

\* The shape of the state: every generation has its lists, a collection has
\* work only while it is under way, and only a large object keeps its address
\* bit when it is evacuated.
TypeOK ==
  /\ \A o \in Object : /\ obj[o].kind \in Kind /\ obj[o].gen \in 0..Oldest
                        /\ obj[o].dest \in {obj[o].gen, To(obj[o].gen)}
                        /\ \A i \in DOMAIN obj[o].fld : obj[o].fld[i] \in Ptr \cup {Null}
  /\ root \in [Root -> Ptr \cup {Null}]
  /\ runq \cup pending \cup stable \cup ToSet(weaks) \subseteq Ptr
  /\ mut \in [1..Oldest -> SUBSET Ptr] /\ threads \in [0..Oldest -> SUBSET Ptr]
  /\ gc.todo \subseteq Obj /\ gc.static \subseteq Caf
  /\ ~gc.on => gc = NoGC

Current(p) == p = Null \/ (obj[p.o].kind # "free" /\ p.at = obj[p.o].at)

\* Between collections no pointer is out of date: neither a root nor a field
\* of any object that has not been freed, nor an entry of the lists the
\* collector itself will follow, points to freed memory or to where an object
\* used to be (evacuate, scavenge_block, scavenge_mutable_list).
NoDangling ==
  Quiet =>
    /\ \A r \in Root : Current(root[r])
    /\ \A p \in runq \cup pending \cup stable \cup ToSet(weaks) : Current(p)
    /\ \A o \in Object : \A i \in DOMAIN obj[o].fld : Current(obj[o].fld[i])
    /\ \A g \in 1..Oldest : \A p \in mut[g] : Current(p)
    /\ \A g \in 0..Oldest : \A p \in threads[g] : Current(p)

Younger(p, g) == p # Null /\ p.o \in Obj /\ obj[p.o].gen < g

\* Between collections every object of an older generation that points into a
\* younger one is on its generation's mutable list, and as dirty as scavenging
\* the list needs it to be (the barriers of Storage.c, Updates.h and
\* PrimOps.cmm, failed_to_evac in the collector).  A weak pointer is the
\* exception: weak_ptr_list is a root of every collection.
Remembered ==
  Quiet =>
    \A o \in Object :
      LET g == IF o \in Caf THEN Oldest ELSE obj[o].gen IN
        (\E i \in DOMAIN Followed(obj[o]) : Younger(obj[o].fld[i], g))
          => At(o) \in mut[g] /\ obj[o].mark \notin {"CLEAN", "FROZEN"}

\* What the program can see of the heap: objects with their indirections
\* removed.
RECURSIVE Value(_)
Value(p) == IF p = Null THEN Null
            ELSE IF obj[p.o].kind = "ind" \/ (p.o \in Caf /\ obj[p.o].fld # <<>>) THEN Value(obj[p.o].fld[1])
            ELSE p.o

Points(o) == {Value(Followed(obj[o])[i]) : i \in DOMAIN Followed(obj[o])} \ {Null}

WeakObjects == {o \in Obj : obj[o].kind = "weak"}

\* Everything reachable from the objects S: a weak pointer makes its value and
\* its finalizer reachable if its key is.
OneStep(S) ==
  S \cup UNION {Points(o) : o \in S}
    \cup (UNION {{Value(obj[w].fld[2]), Value(obj[w].fld[3])} :
                w \in {v \in WeakObjects : Value(obj[v].fld[1]) \in S}} \ {Null})

RECURSIVE Reach(_)
Reach(S) == UNION {IF T = S THEN S ELSE Reach(T) : T \in {OneStep(S)}}

Live == Reach(({Value(root[r]) : r \in Root} \cup {Value(p) : p \in runq \cup pending \cup stable}) \ {Null})

See(o, live) ==
  CASE obj[o].kind = "deadweak" -> <<"dead">>
    [] obj[o].kind = "weak" ->
         IF Value(obj[o].fld[1]) \in live THEN <<"weak", Value(obj[o].fld[1]), Value(obj[o].fld[2])>> ELSE <<"dead">>
    [] OTHER -> <<obj[o].kind>> \o [i \in DOMAIN obj[o].fld |-> Value(obj[o].fld[i])]

\* A collection is invisible to the program: no step of it changes which
\* objects are reachable, what they hold or where the program's pointers lead,
\* apart from what it adds at its end for finalizers and resurrected threads.
Invisible ==
  [][gc.on \/ gc'.on =>
       /\ \A r \in Root : Value(root[r])' = Value(root[r])
       /\ \A L \in {Live}, M \in {Live'} :
            \A o \in L : o \in M /\ See(o, M)' = See(o, L)]_vars

\* A weak pointer is finalized only when its key is unreachable, and a major
\* collection finalizes every weak pointer whose key is
\* (traverseWeakPtrList, scheduleFinalizers).
FinalizesTheDead ==
  [][gc.on /\ ~gc'.on =>
       \A L \in {Live} :
         /\ \A w \in DeadWeaks : Value(obj[w].fld[1]) \notin L
         /\ gc.N = Oldest => \A w \in WeakObjects \ DeadWeaks : Value(obj[w].fld[1]) \in L]_vars

LostThreads == {o \in Obj : obj[o].kind = "tso" /\ o \notin finished}

\* A major collection keeps exactly what is reachable from the roots, the
\* weak pointers, the finalizers to run and the threads that have not
\* finished: nothing else survives it, cyclic or not.
MajorIsExact ==
  [][gc.on /\ ~gc'.on /\ gc.N = Oldest =>
       {o \in Obj : obj'[o].kind \notin {"free", "ind", "deadweak"}} =
         {o \in Obj \ DeadWeaks : obj[o].kind \notin {"ind", "deadweak"}} \cap
           Reach(Live \cup {p.o : p \in ToSet(weaks)}
                      \cup ({Value(obj[w].fld[3]) : w \in DeadWeaks} \ {Null}) \cup LostThreads)]_vars

\* Between collections every thread that has not finished is on the list of
\* the generation it is in, where the next collection of that generation looks
\* for threads nobody can wake (tidyThreadList, resurrectThreads).
ThreadsListed ==
  Quiet => \A o \in Obj : obj[o].kind = "tso" /\ o \notin finished => At(o) \in threads[obj[o].gen]

\* Between collections the heap is one that the program and the next collection
\* can use.
HeapSound == TypeOK /\ NoDangling /\ Remembered /\ ThreadsListed

\* A collection keeps what it must and, if it is a major one, nothing else.
KeepsTheLiving == FinalizesTheDead /\ MajorIsExact

\* What is left to do in a collection.
Work ==
  2 * Cardinality({o \in Obj : obj[o].kind # "free" /\ ~obj[o].evac}) + Cardinality(gc.todo)
    + 2 * Cardinality(Caf \ gc.linked) + Cardinality(gc.static)
    + Cardinality(gc.saved) + Len(gc.oldWeaks)
    + (CASE gc.stage = "MutLists" -> 4 + Len(weaks)
         [] gc.stage = "WeakPtrs" -> 3
         [] gc.stage = "WeakThreads" -> 2
         [] OTHER -> 1)

\* Every collection ends: each step of the loop of scavenging and traversing
\* weak pointers and threads leaves less to do, although evacuating adds work
\* and a weak pointer found alive sends the loop round again (GarbageCollect);
\* that the loop never stops short is the absence of deadlock.
Progresses == [][gc.on /\ gc'.on => Work' < Work]_vars
=============================================================================
