------------------------------- MODULE ParGC -------------------------------
(***************************************************************************)
(* The threads of a parallel collection (rts/sm/GC.c, Scav.c, GCUtils.c):  *)
(* how the workers are started and stopped with two spin locks each, how   *)
(* blocks of unscavenged objects move between the threads, and how the     *)
(* threads find out together that nothing is left to scavenge.             *)
(*                                                                         *)
(* What an evacuation does to an object is module Heap; here an object has *)
(* children and is copied once (the compare-and-swap of copy_tag).  The    *)
(* todo queue of a thread is the deque of module WSDeque, whose operations *)
(* are atomic by the theorem there; the order in which blocks leave it     *)
(* plays no role, so it is a set of blocks.  One generation stands for     *)
(* all.                                                                    *)
(***************************************************************************)
EXTENDS Naturals, FiniteSets

CONSTANTS Thread,      \* the gc_threads that there can be
          Object,      \* the objects of the collected generations
          Child,       \* the objects that an object points to
          Root,        \* the objects that the Capability of a thread points to
          Weak,        \* what weak pointers and resurrected threads keep alive
          QueueSize,   \* the size of a todo queue (128 in the code)
          MaxGCs,      \* a bound on the number of collections
          NoThread, NoObject

ASSUME ThreadAssumption == IsFiniteSet(Thread) /\ NoThread \notin Thread
ASSUME ObjectAssumption == /\ NoObject \notin Object
                           /\ Child \in [Object -> SUBSET Object]
                           /\ Root \in [Thread -> SUBSET Object]
                           /\ Weak \subseteq Object
ASSUME BoundAssumption == MaxGCs \in Nat

VARIABLES caps,      \* the gc_threads that there are, one for each Capability
          main,      \* the thread that runs GarbageCollect, or NoThread
          team,      \* the threads of this collection: n_gc_threads
          pc,        \* where each thread is
          wakeup,    \* gct->wakeup
          gcSpin, mutSpin,   \* whether the spin lock is free
          running,   \* gc_running_threads
          toWake,    \* the threads main has not yet woken, or released
          copied,    \* the objects that have been evacuated
          todo,      \* the unscavenged objects of ws->todo_bd
          scan,      \* those of gct->scan_bd, if that is another block
          inPlace,   \* whether gct->scan_bd is ws->todo_bd
          cur,       \* the object that is being scavenged
          queue,     \* ws->todo_q
          overflow,  \* ws->todo_overflow
          seen,      \* the threads whose queue was found empty in this pass
          flag,      \* whether traverseWeakPtrList has evacuated something
          gcs,       \* the collections still to come
          stealing,  \* work_stealing
          overflowed \* whether heap_overflow has made the system shut down: sched_state

opts == <<stealing, overflowed>>
sync == <<opts, caps, main, team, wakeup, gcSpin, mutSpin, toWake, gcs>>
work == <<copied, todo, scan, inPlace, cur, queue, overflow>>
vars == <<sync, work, pc, running, seen, flag>>

Init ==
  /\ caps \in SUBSET Thread /\ gcs \in 0..MaxGCs
  /\ main = NoThread /\ team = {} /\ toWake = {}
  /\ pc = [t \in Thread |-> "mutator"]
  /\ wakeup = [t \in Thread |-> "INACTIVE"]
  /\ gcSpin = [t \in Thread |-> FALSE]
  /\ mutSpin = [t \in Thread |-> TRUE]
  /\ running = 0 /\ flag = FALSE
  /\ copied = {}
  /\ todo = [t \in Thread |-> {}] /\ scan = [t \in Thread |-> {}]
  /\ inPlace = [t \in Thread |-> FALSE]
  /\ cur = [t \in Thread |-> NoObject]
  /\ queue = [t \in Thread |-> {}] /\ overflow = [t \in Thread |-> {}]
  /\ seen = [t \in Thread |-> {}]
  /\ stealing = FALSE /\ overflowed = FALSE

Goto(t, l) == pc' = [pc EXCEPT ![t] = l]

-----------------------------------------------------------------------------
(* Starting and stopping. *)

\* scheduleDoGC: one thread asks for a collection; a parallel one waits for
\* the others, a sequential one has taken their Capabilities.  There is none when
\* the system shuts down.
RequestGC(t) ==
  /\ main = NoThread /\ gcs > 0 /\ t \in caps /\ ~overflowed
  /\ pc[t] = "mutator"
  /\ main' = t /\ gcs' = gcs - 1
  /\ \/ team' = caps
     \/ team' = {t} /\ (\A u \in caps : pc[u] = "mutator")
  /\ Goto(t, "wait")
  /\ UNCHANGED <<opts, caps, wakeup, gcSpin, mutSpin, toWake, work, running, seen, flag>>

\* gcWorkerThread: a Capability donates a GC thread.
StandBy(t) ==
  /\ main \notin {t, NoThread} /\ t \in team
  /\ pc[t] = "mutator" /\ pc[main] = "wait"
  /\ mutSpin' = [mutSpin EXCEPT ![t] = TRUE]
  /\ Goto(t, "standby")
  /\ UNCHANGED <<opts, caps, main, team, wakeup, gcSpin, toWake, gcs, work, running, seen, flag>>

StoodBy(t) ==
  /\ pc[t] = "standby"
  /\ wakeup' = [wakeup EXCEPT ![t] = "STANDING_BY"]
  /\ Goto(t, "wait_gc")
  /\ UNCHANGED <<opts, caps, main, team, gcSpin, mutSpin, toWake, gcs, work, running, seen, flag>>

\* GarbageCollect up to inc_running.
StartGC(t) ==
  /\ stealing' \in BOOLEAN
  /\ running' = 1
  /\ copied' = {}
  /\ toWake' = team \ {t}
  /\ flag' = FALSE
  /\ Goto(t, "wake")
  /\ UNCHANGED <<caps, main, team, wakeup, gcSpin, mutSpin, gcs, todo, scan, inPlace, cur, queue, overflow, seen>>

\* Mutant: only one thread has to stand by.
PrepareGCEarly(t) ==
  /\ main = t /\ pc[t] = "wait"
  /\ team = {t} \/ (\E u \in team : wakeup[u] = "STANDING_BY")
  /\ StartGC(t) /\ UNCHANGED overflowed

\* waitForGcThreads, then GarbageCollect.
PrepareGC(t) ==
  /\ main = t /\ pc[t] = "wait"
  /\ \A u \in team \ {t} : wakeup[u] = "STANDING_BY"
  /\ StartGC(t) /\ UNCHANGED overflowed

\* Mutant: the thread is woken, and left to count itself.
WakeUpUncounted(t, u) ==
  /\ main = t /\ pc[t] = "wake" /\ u \in toWake
  /\ wakeup[u] = "STANDING_BY"
  /\ wakeup' = [wakeup EXCEPT ![u] = "RUNNING"]
  /\ mutSpin[u] /\ mutSpin' = [mutSpin EXCEPT ![u] = FALSE]
  /\ gcSpin' = [gcSpin EXCEPT ![u] = TRUE]
  /\ toWake' = toWake \ {u}
  /\ UNCHANGED <<opts, caps, main, team, gcs, work, running, pc, seen, flag>>

\* One turn of the loop of wakeup_gc_threads.
WakeUp(t, u) ==
  /\ main = t /\ pc[t] = "wake" /\ u \in toWake
  /\ wakeup[u] = "STANDING_BY"
  /\ running' = running + 1
  /\ wakeup' = [wakeup EXCEPT ![u] = "RUNNING"]
  /\ mutSpin[u] /\ mutSpin' = [mutSpin EXCEPT ![u] = FALSE]
  /\ gcSpin' = [gcSpin EXCEPT ![u] = TRUE]
  /\ toWake' = toWake \ {u}
  /\ UNCHANGED <<opts, caps, main, team, gcs, work, pc, seen, flag>>

\* barf("wakeup_gc_threads"): the thread does not stand by, and the process ends.
Barf(t, u) ==
  /\ main = t /\ pc[t] = "wake" /\ u \in toWake
  /\ wakeup[u] # "STANDING_BY"
  /\ running' = running + 1
  /\ Goto(t, "barf")
  /\ UNCHANGED <<sync, work, seen, flag>>

WokenAll(t) ==
  /\ main = t /\ pc[t] = "wake" /\ toWake = {}
  /\ Goto(t, "roots")
  /\ UNCHANGED <<sync, work, running, seen, flag>>

\* gcWorkerThread acquires its gc_spin.
GoWorker(t) ==
  /\ pc[t] = "wait_gc" /\ gcSpin[t]
  /\ gcSpin' = [gcSpin EXCEPT ![t] = FALSE]
  /\ Goto(t, "roots")
  /\ UNCHANGED <<opts, caps, main, team, wakeup, mutSpin, toWake, gcs, work, running, seen, flag>>

\* The end of gcWorkerThread, one step for each thing another thread can see.
ReleaseSpin(t) ==
  /\ pc[t] = "done"
  /\ gcSpin' = [gcSpin EXCEPT ![t] = TRUE]
  /\ Goto(t, "released")
  /\ UNCHANGED <<opts, caps, main, team, wakeup, mutSpin, toWake, gcs, work, running, seen, flag>>

WaitToContinue(t) ==
  /\ pc[t] = "released"
  /\ wakeup' = [wakeup EXCEPT ![t] = "WAITING_TO_CONTINUE"]
  /\ Goto(t, "wait_mut")
  /\ UNCHANGED <<opts, caps, main, team, gcSpin, mutSpin, toWake, gcs, work, running, seen, flag>>

Continue(t) ==
  /\ pc[t] = "wait_mut" /\ mutSpin[t]
  /\ mutSpin' = [mutSpin EXCEPT ![t] = FALSE]
  /\ Goto(t, "mutator")
  /\ UNCHANGED <<opts, caps, main, team, wakeup, gcSpin, toWake, gcs, work, running, seen, flag>>

\* shutdown_gc_threads, and the rest of GarbageCollect.
Shutdown(t) ==
  /\ main = t /\ pc[t] = "shutdown"
  /\ \A u \in team \ {t} : wakeup[u] = "WAITING_TO_CONTINUE"
  /\ toWake' = team \ {t}
  /\ Goto(t, "release")
  /\ UNCHANGED <<opts, caps, main, team, wakeup, gcSpin, mutSpin, gcs, work, running, seen, flag>>

\* One turn of the loop of releaseGCThreads.
Release(t, u) ==
  /\ main = t /\ pc[t] = "release" /\ u \in toWake
  /\ wakeup[u] = "WAITING_TO_CONTINUE"
  /\ wakeup' = [wakeup EXCEPT ![u] = "INACTIVE"]
  /\ gcSpin[u] /\ gcSpin' = [gcSpin EXCEPT ![u] = FALSE]
  /\ mutSpin' = [mutSpin EXCEPT ![u] = TRUE]
  /\ toWake' = toWake \ {u}
  /\ UNCHANGED <<opts, caps, main, team, gcs, work, pc, running, seen, flag>>

\* The collection has set heap_overflow: scheduleDoGC sets sched_state, deletes all
\* threads and collects once more, by the gc_type of the first time, but for that
\* nobody waits any more: a sequential collection has still all Capabilities, the
\* threads of a parallel one have been released.
HeapOverflow(t) ==
  /\ main = t /\ pc[t] = "release" /\ toWake = {} /\ ~overflowed
  /\ overflowed' = TRUE
  /\ StartGC(t)

\* The end of scheduleDoGC.
EndGC(t) ==
  /\ main = t /\ pc[t] = "release" /\ toWake = {}
  /\ main' = NoThread /\ team' = {}
  /\ Goto(t, "mutator")
  /\ UNCHANGED <<opts, caps, wakeup, gcSpin, mutSpin, toWake, gcs, work, running, seen, flag>>

-----------------------------------------------------------------------------
(* Work. *)

\* pushWSDeque, or the overflow list when the queue is full.
PushBlock(t, b) ==
  IF Cardinality(queue[t]) < QueueSize
    THEN queue' = [queue EXCEPT ![t] = @ \union {b}] /\ UNCHANGED overflow
    ELSE overflow' = [overflow EXCEPT ![t] = @ \union {b}] /\ UNCHANGED queue

\* alloc_for_copy: there is room for the object in the todo block ...
CopyIntoBlock(t, o) ==
  /\ todo' = [todo EXCEPT ![t] = @ \union {o}]
  /\ UNCHANGED <<scan, inPlace, queue, overflow>>

\* ... or todo_block_full: the block stays the scan block, is fully scavenged,
\* or goes out to the other threads, and the object opens a new one.
TodoBlockFull(t, o) ==
  /\ todo' = [todo EXCEPT ![t] = {o}]
  /\ IF inPlace[t]
       THEN /\ scan' = [scan EXCEPT ![t] = todo[t]]
            /\ inPlace' = [inPlace EXCEPT ![t] = FALSE]
            /\ UNCHANGED <<queue, overflow>>
       ELSE /\ IF todo[t] = {} THEN UNCHANGED <<queue, overflow>> ELSE PushBlock(t, todo[t])
            /\ UNCHANGED <<scan, inPlace>>

Evacuate(t, o) ==
  /\ o \notin copied
  /\ copied' = copied \union {o}
  /\ CopyIntoBlock(t, o) \/ TodoBlockFull(t, o)
  /\ UNCHANGED cur

\* Every thread evacuates some roots; alone, it evacuates those of all.
MyRoots(t) == IF team = {t} THEN UNION {Root[u] : u \in caps} ELSE Root[t]

EvacuateRoot(t) ==
  /\ pc[t] = "roots"
  /\ \E o \in MyRoots(t) : Evacuate(t, o)
  /\ UNCHANGED <<sync, pc, running, seen, flag>>

RootsDone(t) ==
  /\ pc[t] = "roots"
  /\ MyRoots(t) \subseteq copied
  /\ Goto(t, "scavenge")
  /\ UNCHANGED <<sync, work, running, seen, flag>>

Resting(t) == pc[t] = "scavenge" /\ cur[t] = NoObject /\ scan[t] = {}

\* scavenge_block takes the next object of the scan block.
NextObject(t) ==
  /\ pc[t] = "scavenge" /\ cur[t] = NoObject
  /\ \/ /\ scan[t] # {} /\ UNCHANGED <<todo, inPlace>>
        /\ \E o \in scan[t] : /\ cur' = [cur EXCEPT ![t] = o]
                              /\ scan' = [scan EXCEPT ![t] = @ \ {o}]
     \/ /\ scan[t] = {} /\ todo[t] # {} /\ UNCHANGED scan
        /\ inPlace' = [inPlace EXCEPT ![t] = TRUE]
        /\ \E o \in todo[t] : /\ cur' = [cur EXCEPT ![t] = o]
                              /\ todo' = [todo EXCEPT ![t] = @ \ {o}]
  /\ UNCHANGED <<sync, copied, queue, overflow, pc, running, seen, flag>>

EvacuateChild(t) ==
  /\ pc[t] = "scavenge" /\ cur[t] # NoObject
  /\ \E o \in Child[cur[t]] : Evacuate(t, o)
  /\ UNCHANGED <<sync, pc, running, seen, flag>>

\* The object is scavenged; at the end of the block, scan_bd is reset.
ObjectDone(t) ==
  /\ pc[t] = "scavenge" /\ cur[t] # NoObject
  /\ Child[cur[t]] \subseteq copied
  /\ cur' = [cur EXCEPT ![t] = NoObject]
  /\ inPlace' = [inPlace EXCEPT ![t] = @ /\ todo[t] # {}]
  /\ UNCHANGED <<sync, copied, todo, scan, queue, overflow, pc, running, seen, flag>>

\* grab_local_todo_block.
GrabLocal(t) ==
  /\ Resting(t) /\ todo[t] = {}
  /\ \/ \E b \in overflow[t] : /\ scan' = [scan EXCEPT ![t] = b]
                               /\ overflow' = [overflow EXCEPT ![t] = @ \ {b}]
                               /\ UNCHANGED queue
     \/ /\ overflow[t] = {} /\ UNCHANGED overflow
        /\ \E b \in queue[t] : /\ scan' = [scan EXCEPT ![t] = b]
                               /\ queue' = [queue EXCEPT ![t] = @ \ {b}]
  /\ UNCHANGED <<sync, copied, todo, inPlace, cur, pc, running, seen, flag>>

\* The threads whose queues are passed over: without work_stealing those of all.
NotLookedAt(t) == IF stealing THEN {t} ELSE team \union {t}

\* Mutant: the overflow list is forgotten.
LookAroundEarly(t) ==
  /\ Resting(t) /\ todo[t] = {} /\ queue[t] = {}
  /\ seen' = [seen EXCEPT ![t] = NotLookedAt(t)]
  /\ Goto(t, "steal")
  /\ UNCHANGED <<sync, work, running, flag>>

\* No local work is left: scavenge_find_work turns to the other threads, if it may.
LookAround(t) ==
  /\ Resting(t) /\ todo[t] = {} /\ overflow[t] = {} /\ queue[t] = {}
  /\ seen' = [seen EXCEPT ![t] = NotLookedAt(t)]
  /\ Goto(t, "steal")
  /\ UNCHANGED <<sync, work, running, flag>>

\* steal_todo_block: one turn of its loop.
Steal(t, u) ==
  /\ pc[t] = "steal" /\ u \in team \ seen[t]
  /\ \/ \E b \in queue[u] : /\ queue' = [queue EXCEPT ![u] = @ \ {b}]
                            /\ scan' = [scan EXCEPT ![t] = b]
                            /\ Goto(t, "scavenge")
                            /\ UNCHANGED seen
     \/ /\ queue[u] = {}
        /\ seen' = [seen EXCEPT ![t] = @ \union {u}]
        /\ UNCHANGED <<queue, scan, pc>>
  /\ UNCHANGED <<sync, copied, todo, inPlace, cur, overflow, running, flag>>

\* Mutant: the count is not decremented.
OutOfWorkCounted(t) ==
  /\ pc[t] = "steal" /\ team \subseteq seen[t]
  /\ UNCHANGED running
  /\ Goto(t, "idle")
  /\ UNCHANGED <<sync, work, seen, flag>>

\* scavenge_loop returns: dec_running.
OutOfWork(t) ==
  /\ pc[t] = "steal" /\ team \subseteq seen[t]
  /\ running' = running - 1
  /\ Goto(t, "idle")
  /\ UNCHANGED <<sync, work, seen, flag>>

\* while (gc_running_threads != 0): once more any_work ...
StillRunning(t) ==
  /\ pc[t] = "idle" /\ running # 0
  /\ seen' = [seen EXCEPT ![t] = NotLookedAt(t)]
  /\ Goto(t, "any_work")
  /\ UNCHANGED <<sync, work, running, flag>>

\* ... which looks at the queues of the others, one by one ...
AnyWork(t, u) ==
  /\ pc[t] = "any_work" /\ u \in team \ seen[t]
  /\ IF queue[u] # {}
       THEN Goto(t, "back") /\ UNCHANGED seen
       ELSE seen' = [seen EXCEPT ![t] = @ \union {u}] /\ UNCHANGED pc
  /\ UNCHANGED <<sync, work, running, flag>>

NoWork(t) ==
  /\ pc[t] = "any_work" /\ team \subseteq seen[t]
  /\ Goto(t, "idle")
  /\ UNCHANGED <<sync, work, running, seen, flag>>

\* ... and takes nothing: inc_running comes after it.
BackToWork(t) ==
  /\ pc[t] = "back"
  /\ running' = running + 1
  /\ Goto(t, "scavenge")
  /\ UNCHANGED <<sync, work, seen, flag>>

\* scavenge_until_all_done returns.
AllDone(t) ==
  /\ pc[t] = "idle" /\ running = 0
  /\ Goto(t, IF t = main THEN "traverse" ELSE "done")
  /\ UNCHANGED <<sync, work, running, seen, flag>>

\* traverseWeakPtrList: main evacuates what it finds to be needed, and scavenges again.
EvacuateWeak(t) ==
  /\ pc[t] = "traverse"
  /\ \E o \in Weak : Evacuate(t, o)
  /\ flag' = TRUE
  /\ UNCHANGED <<sync, pc, running, seen>>

Traversed(t) ==
  /\ pc[t] = "traverse"
  /\ flag' = FALSE
  /\ IF flag THEN running' = running + 1 /\ Goto(t, "scavenge")
             ELSE UNCHANGED running /\ Goto(t, "shutdown")
  /\ UNCHANGED <<sync, work, seen>>

-----------------------------------------------------------------------------
Handshake(t) ==
  \/ StandBy(t) \/ StoodBy(t) \/ GoWorker(t) \/ ReleaseSpin(t)
  \/ WaitToContinue(t) \/ Continue(t)

Collect(t) ==
  \/ PrepareGC(t) \/ WokenAll(t) \/ Shutdown(t) \/ EndGC(t) \/ HeapOverflow(t)
  \/ \E u \in Thread : WakeUp(t, u) \/ Release(t, u) \/ Barf(t, u)

Scavenge(t) ==
  \/ EvacuateRoot(t) \/ RootsDone(t) \/ NextObject(t) \/ EvacuateChild(t)
  \/ ObjectDone(t) \/ GrabLocal(t) \/ LookAround(t) \/ OutOfWork(t)
  \/ StillRunning(t) \/ NoWork(t) \/ BackToWork(t) \/ AllDone(t)
  \/ EvacuateWeak(t) \/ Traversed(t)
  \/ \E u \in Thread : Steal(t, u) \/ AnyWork(t, u)

\* barf does not return.
Barfed == main # NoThread /\ pc[main] = "barf"

Step(t) == ~Barfed /\ (Handshake(t) \/ Collect(t) \/ Scavenge(t))

Next == \E t \in Thread : RequestGC(t) \/ Step(t)

Spec == Init /\ [][Next]_vars
FairSpec == Spec /\ \A t \in Thread : WF_vars(Step(t))

-----------------------------------------------------------------------------
(* Properties. *)

Counters == {"roots", "scavenge", "steal"}
TypeOK ==
  /\ caps \subseteq Thread /\ team \subseteq caps /\ main \in caps \union {NoThread}
  /\ toWake \subseteq Thread /\ gcs \in Nat /\ running \in Nat /\ flag \in BOOLEAN
  /\ stealing \in BOOLEAN /\ overflowed \in BOOLEAN
  /\ pc \in [Thread -> {"mutator", "wait", "standby", "wait_gc", "wake", "roots", "scavenge", "steal", "idle",
                        "any_work", "back", "traverse", "done", "released", "wait_mut", "shutdown", "release",
                        "barf"}]
  /\ wakeup \in [Thread -> {"INACTIVE", "STANDING_BY", "RUNNING", "WAITING_TO_CONTINUE"}]
  /\ gcSpin \in [Thread -> BOOLEAN] /\ mutSpin \in [Thread -> BOOLEAN]
  /\ copied \subseteq Object
  /\ todo \in [Thread -> SUBSET Object] /\ scan \in [Thread -> SUBSET Object]
  /\ inPlace \in [Thread -> BOOLEAN]
  /\ cur \in [Thread -> Object \union {NoObject}]
  /\ queue \in [Thread -> SUBSET SUBSET Object] /\ overflow \in [Thread -> SUBSET SUBSET Object]
  /\ seen \in [Thread -> SUBSET Thread]

\* The objects that thread t still has to scavenge, and the blocks they are in.
Blocks(t) == {todo[t], scan[t], {cur[t]} \ {NoObject}} \union queue[t] \union overflow[t]
Grey(t) == UNION Blocks(t)

\* The threads that gc_running_threads counts: those in scavenge_loop, and the
\* ones that have been woken and have not yet started.
Counted ==
  {t \in Thread : pc[t] \in {"wake"} \union Counters \/ (pc[t] = "wait_gc" /\ wakeup[t] = "RUNNING")}

\* When main leaves the loop of GarbageCollect, every root has been copied, and
\* everything that a copied object points to: nothing is left in a block that
\* some thread has still to scavenge, although threads look for work, take it
\* and count themselves in in separate steps.
Complete ==
  main # NoThread /\ pc[main] \in {"shutdown", "release"} =>
    /\ \A t \in caps : Root[t] \subseteq copied
    /\ \A t \in Thread : Grey(t) = {}
    /\ \A o \in copied : Child[o] \subseteq copied

\* gc_running_threads is the number of threads at work: the assertions of
\* inc_running and dec_running hold, and a thread that has any work is counted.
RunningIsCounted ==
  /\ main # NoThread /\ ~Barfed => running = Cardinality(Counted)
  /\ \A t \in Thread : Grey(t) # {} => t \in Counted \/ pc[t] = "traverse"

\* The second collection of scheduleDoGC, after a heap overflow in a parallel one.
SecondGC == overflowed /\ main # NoThread /\ team # {main}

\* Neither wakeup_gc_threads nor releaseGCThreads finds a thread in the wrong
\* state ("barf"), and neither waits for the other's spin lock.  Left out: the
\* SecondGC, for which the threads have been released and nobody waits for them.
NeverBarfs ==
  main # NoThread /\ ~SecondGC =>
    \A u \in toWake : /\ pc[main] = "wake" => wakeup[u] = "STANDING_BY" /\ mutSpin[u]
                      /\ pc[main] = "release" => wakeup[u] = "WAITING_TO_CONTINUE" /\ gcSpin[u]

\* The SecondGC never gets further: each thread it has to wake is found not to
\* stand by, none has been woken before that, and it changes nothing for them.
SecondBarfs ==
  SecondGC => /\ pc[main] \in {"wake", "barf"} /\ toWake = team \ {main}
              /\ \A u \in toWake : wakeup[u] = "INACTIVE"

\* Not so: the barf of wakeup_gc_threads is never reached.
BarfUnreached == ~Barfed

\* Outside a collection no thread is in the collector, "otherwise they may still
\* be executing inside any_work(), and may even remain awake until the next GC
\* starts": a worker has at most to acquire its mut_spin.
Quiet ==
  main = NoThread \/ pc[main] = "wait" \/ team = {main} \/ SecondGC =>
    \A t \in Thread : t # main => pc[t] \in {"mutator", "standby", "wait_gc", "wait_mut"} /\ ~gcSpin[t]

\* Starting and stopping the workers: the two spin locks and the wakeup word of
\* each thread are never found in a state the other side does not expect, but when
\* scheduleDoGC collects once more after a heap overflow in a parallel collection,
\* which always ends in the barf of wakeup_gc_threads.
HandshakeSound == TypeOK /\ NeverBarfs /\ SecondBarfs /\ Quiet

\* Every collection ends, or the second one barfs.
Ends == main # NoThread ~> main = NoThread \/ Barfed

\* A thread that was donated to a collection gets back to the mutator, or the
\* process ends.
WorkersReturn == \A t \in Thread : pc[t] = "wait_gc" ~> pc[t] = "mutator" \/ Barfed
=============================================================================
