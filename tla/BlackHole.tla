---------------------------- MODULE BlackHole ----------------------------
(***************************************************************************)
(* Thunks evaluated by several threads: black-holing when a thread is      *)
(* paused (ThreadPaused.c), eagerly on entry (CgClosure.lhs) and for CAFs  *)
(* (newCAF in sm/Storage.c), updates (Updates.cmm, updateThunk), the       *)
(* queues of threads blocked on a black hole (messageBlackHole,            *)
(* wakeBlockingQueue, checkBlockingQueues), duplicate work suspended, and  *)
(* asynchronous exceptions that freeze evaluations (raiseAsync).           *)
(*                                                                         *)
(* No lock protects a thunk.  Each read or write of a closure that another *)
(* Capability may touch is a step of its own; the two writes of an update  *)
(* happen in their order (write_barrier).                                  *)
(*                                                                         *)
(* A thunk evaluates at most one other thunk, need, before its own value   *)
(* is there.  A frame of the stack is the update frame of a thunk with the *)
(* continuation above it that waits for its need.                          *)
(***************************************************************************)
EXTENDS Integers, Sequences, FiniteSets, SequencesExt, FiniteSetsExt

CONSTANTS Cap, Thread, Home,
          Thunk, Caf,       \* closures of the program
          AP,               \* bound: addresses for AP_STACK closures and CAF_BLACKHOLEs
          BQ,               \* bound: addresses for BLOCKING_QUEUEs
          Scenario,         \* what each thread evaluates and each thunk needs, the mode, and the bounds
                            \* on how often threads are stopped and exceptions are thrown
          MaxTag,           \* bound: MSG_BLACKHOLEs of one thread in existence
          None

VARIABLES clo,      \* closures: info pointer, indirectee, and what evaluating one needs
          tso,      \* StgTSO
          bq,       \* StgBlockingQueue
          runq, inbox,
          cpu,      \* what each Capability is doing
          eager     \* the code was compiled with -feager-blackholing

vars == <<clo, tso, bq, runq, inbox, cpu, eager>>

Closure == Thunk \cup Caf \cup AP

(* What an indirectee may be *)
Nothing == <<"nothing">>
Val == <<"value">>            \* a tagged pointer
Tso(t) == <<"tso", t>>
Bq(b) == <<"bq", b>>
Clo(k) == <<"closure", k>>    \* an untagged pointer to a closure that is to be entered

IsBlackHole(i) == i \in {"BLACKHOLE", "CAF_BLACKHOLE", "EAGER_BLACKHOLE", "WHITEHOLE"}

(* What a thread does next: enter a closure, or return the value of the    *)
(* thunk of its topmost frame                                              *)
Enter(k) == <<"enter", k>>
Return == <<"return">>

Evaluate(need) == IF need = None THEN Return ELSE Enter(need)

Frame(kind, k) == [kind |-> kind, updatee |-> k]

-----------------------------------------------------------------------------
(* Run queues, messages and wake-ups, as functions of these three variables *)

Now == [tso |-> tso, runq |-> runq, inbox |-> inbox, bq |-> bq]
Become(w) == tso' = w.tso /\ runq' = w.runq /\ inbox' = w.inbox /\ bq' = w.bq

sendMessage(w, d, m) == [w EXCEPT !.inbox[d] = <<m>> \o @]

appendToRunQueue(w, c, t) == [w EXCEPT !.runq[c] = Append(@, t)]

tryWakeupThread(w, c, t) ==
  CASE w.tso[t].cap # c -> sendMessage(w, w.tso[t].cap, [to |-> "wakeup", tso |-> t])
    [] w.tso[t].cap = c /\ w.tso[t].why_blocked = "BlackHole" ->
         appendToRunQueue([w EXCEPT !.tso[t].why_blocked = "NotBlocked"], c, t)
    [] OTHER -> w

\* Messages are <<thread, tag>>; tag 0 says that the message was overwritten with an IND
wakeBlockingQueue(w, c, b) ==
  LET queue == SelectSeq(w.bq[b].queue, LAMBDA m : m[2] # 0)
      awake == FoldLeft(LAMBDA v, m : tryWakeupThread(v, c, m[1]), w, queue)
  IN [awake EXCEPT !.bq[b].info = "IND", !.bq[b].queue = <<>>]

\* Mutant: only queues are looked at whose black hole has a new info pointer
OrphansByInfo(w, t) == {b \in BQ : /\ w.bq[b].info = "BQ" /\ w.bq[b].owner = t
                                   /\ clo[w.bq[b].bh].info # "BLACKHOLE"}

\* The queues whose black hole has been taken away by somebody else
Orphans(w, t) == {b \in BQ : /\ w.bq[b].info = "BQ" /\ w.bq[b].owner = t
                             /\ \/ clo[w.bq[b].bh].info # "BLACKHOLE"
                                \/ clo[w.bq[b].bh].ind # Bq(b)}

checkBlockingQueues(w, c, t) ==
  FoldLeft(LAMBDA v, b : wakeBlockingQueue(v, c, b), w, SetToSeq(Orphans(w, t)))

\* A thread that others wait for goes first
Boost(w, c, owner, t) ==
  IF w.tso[owner].why_blocked = "NotBlocked" /\ owner # t
  THEN [w EXCEPT !.runq[c] = <<owner>> \o SelectSeq(@, LAMBDA u : u # owner)]
  ELSE w

-----------------------------------------------------------------------------
(* Steps of a Capability *)

At(c, pc) == cpu[c].pc = pc
Goto(c, pc) == cpu' = [cpu EXCEPT ![c].pc = pc]
Cur(c) == cpu[c].cur
Top(c) == Head(tso[Cur(c)].stack)
Running(c, what) == At(c, "run") /\ tso[Cur(c)].code[1] = what
Node(c) == tso[Cur(c)].code[2]
Owner(p) == IF p[1] = "tso" THEN p[2] ELSE bq[p[2]].owner

\* Addresses that some pointer reaches
ClosuresInUse ==
  {clo[k].ind[2] : k \in {j \in Closure : clo[j].ind[1] = "closure"}}
    \cup {clo[k].need : k \in Closure}
    \cup UNION {{tso[t].stack[i].updatee : i \in DOMAIN tso[t].stack} : t \in Thread}
    \cup {tso[t].code[2] : t \in {u \in Thread : tso[u].code[1] = "enter"}}
    \cup {cpu[c].val[2] : c \in {d \in Cap : cpu[d].val[1] = "closure"}}
    \cup {cpu[c].thunk : c \in Cap}
    \cup {bq[b].bh : b \in {a \in BQ : bq[a].info = "BQ"}}
    \cup UNION {{inbox[c][i].bh : i \in {j \in DOMAIN inbox[c] : inbox[c][j].to = "blackhole"}} : c \in Cap}

QueuesInUse ==
  {b \in BQ : bq[b].info = "BQ"}
    \cup {clo[k].ind[2] : k \in {j \in Closure : clo[j].ind[1] = "bq"}}
    \cup {cpu[c].v[2] : c \in {d \in Cap : cpu[d].v[1] = "bq"}}

TagsInUse(t) ==
  {m[2] : m \in {n \in UNION {ToSet(bq[b].queue) : b \in BQ}
                       \cup {inbox[c][i].msg : <<c, i>> \in
                              {<<d, j>> \in Cap \X (1 .. 8) : /\ j <= Len(inbox[d])
                                                             /\ inbox[d][j].to = "blackhole"}}
                       \cup {cpu[c].msg : c \in Cap} : n[1] = t}}

Fresh(S, used) == CHOOSE x \in S \ used : TRUE

\* Entering a thunk pushes an update frame.  With -feager-blackholing the thunk's first
\* payload is overwritten with the thread, and then the info pointer.
EnterThunk(c) ==
  LET k == Node(c) IN
  /\ Running(c, "enter") /\ clo[k].info = "THUNK"
  /\ IF eager /\ k \notin AP
     THEN Goto(c, "eager_ind") /\ UNCHANGED tso
     ELSE /\ tso' = [tso EXCEPT ![Cur(c)].stack = <<Frame("upd", k)>> \o @,
                                ![Cur(c)].code = Evaluate(clo[k].need)]
          /\ UNCHANGED cpu
  /\ UNCHANGED <<clo, bq, runq, inbox, eager>>

EagerInd(c) ==
  /\ At(c, "eager_ind")
  /\ clo' = [clo EXCEPT ![Node(c)].ind = Tso(Cur(c))]
  /\ Goto(c, "eager_info")
  /\ UNCHANGED <<tso, bq, runq, inbox, eager>>

EagerBlackHole(c) ==
  LET k == Node(c) IN
  /\ At(c, "eager_info")
  /\ clo' = [clo EXCEPT ![k].info = "EAGER_BLACKHOLE"]
  /\ tso' = [tso EXCEPT ![Cur(c)].stack = <<Frame("bh", k)>> \o @,
                        ![Cur(c)].code = Evaluate(clo[k].need)]
  /\ Goto(c, "run")
  /\ UNCHANGED <<bq, runq, inbox, eager>>

\* newCAF: the thread that turns the CAF into a WHITEHOLE lets it point to a new
\* CAF_BLACKHOLE; the others enter the CAF again
lockCAF(c) ==
  LET k == Node(c) IN
  /\ Running(c, "enter") /\ clo[k].info = "CAF"
  /\ clo' = [clo EXCEPT ![k].info = "WHITEHOLE"]
  /\ Goto(c, "caf_ind")
  /\ UNCHANGED <<tso, bq, runq, inbox, eager>>

CafPointsTo(c) ==
  LET k == Node(c)
      b == Fresh(AP, ClosuresInUse)
  IN /\ At(c, "caf_ind") /\ AP \ ClosuresInUse # {}
     /\ clo' = [clo EXCEPT ![k].ind = Clo(b),
                           ![b] = [info |-> "CAF_BLACKHOLE", ind |-> Tso(Cur(c)), need |-> None]]
     /\ Goto(c, "caf_info")
     /\ UNCHANGED <<tso, bq, runq, inbox, eager>>

CafStatic(c) ==
  LET k == Node(c) IN
  /\ At(c, "caf_info")
  /\ clo' = [clo EXCEPT ![k].info = "IND_STATIC"]
  /\ tso' = [tso EXCEPT ![Cur(c)].stack = <<Frame("bh", clo[k].ind[2])>> \o @,
                        ![Cur(c)].code = Evaluate(clo[k].need)]
  /\ Goto(c, "run")
  /\ UNCHANGED <<bq, runq, inbox, eager>>

EnterIndStatic(c) ==
  LET k == Node(c) IN
  /\ Running(c, "enter") /\ clo[k].info = "IND_STATIC"
  /\ tso' = [tso EXCEPT ![Cur(c)].code = Enter(clo[k].ind[2])]
  /\ UNCHANGED <<clo, bq, runq, inbox, cpu, eager>>

\* The entry code of a black hole; that of a WHITEHOLE spins.  A BLOCKING_QUEUE that is
\* an indirection by now is read again.
EnterBlackHole(c) ==
  LET k == Node(c)
      p == clo[k].ind
      t == Cur(c)
      tag == Min((1 .. MaxTag) \ TagsInUse(t))
  IN /\ Running(c, "enter")
     /\ clo[k].info \in {"BLACKHOLE", "EAGER_BLACKHOLE", "CAF_BLACKHOLE"}
     /\ CASE p = Val -> tso' = [tso EXCEPT ![t].code = Return] /\ UNCHANGED cpu
          [] p[1] = "closure" -> tso' = [tso EXCEPT ![t].code = Enter(p[2])] /\ UNCHANGED cpu
          [] p[1] \in {"tso", "bq"} ->
               /\ p[1] = "bq" => bq[p[2]].info # "IND"
               /\ (1 .. MaxTag) \ TagsInUse(t) # {}
               /\ cpu' = [cpu EXCEPT ![c].pc = "message", ![c].thunk = k,
                                     ![c].msg = <<t, tag>>, ![c].caller = "entry"]
               /\ UNCHANGED tso
     /\ UNCHANGED <<clo, bq, runq, inbox, eager>>

\* messageBlackHole reads the indirectee ...
MessageReads(c) ==
  /\ At(c, "message")
  /\ clo[cpu[c].thunk].ind[1] = "bq" => bq[clo[cpu[c].thunk].ind[2]].info # "IND"
  /\ cpu' = [cpu EXCEPT ![c].v = clo[cpu[c].thunk].ind, ![c].pc = "blackhole"]
  /\ UNCHANGED <<clo, tso, bq, runq, inbox, eager>>

\* ... and then decides: a message for a thread elsewhere is forwarded, the first thread to
\* block on a thread here makes a BLOCKING_QUEUE for it, the others join that
Blocked(c, w) ==
  LET t == cpu[c].msg[1]
      idle == [cpu EXCEPT ![c].msg = <<None, 0>>, ![c].v = Nothing, ![c].thunk = None]
  IN IF cpu[c].caller = "entry"
     THEN /\ Become([w EXCEPT !.tso[t].why_blocked = "BlackHole", !.tso[t].block_info = cpu[c].msg[2]])
          /\ cpu' = [idle EXCEPT ![c].pc = "pause", ![c].frame = 1]
     ELSE Become(w) /\ cpu' = [idle EXCEPT ![c].pc = "sched"]

Forward(c) ==
  LET v == cpu[c].v IN
  /\ At(c, "blackhole") /\ v[1] \in {"tso", "bq"}
  /\ v[1] = "bq" => bq[v[2]].info # "IND"
  /\ tso[Owner(v)].cap # c
  /\ Blocked(c, sendMessage(Now, tso[Owner(v)].cap,
                            [to |-> "blackhole", msg |-> cpu[c].msg, bh |-> cpu[c].thunk]))
  /\ UNCHANGED <<clo, eager>>

FirstToBlock(c) ==
  LET v == cpu[c].v
      b == Fresh(BQ, QueuesInUse)
      queue == [info |-> "BQ", bh |-> cpu[c].thunk, owner |-> v[2], queue |-> <<cpu[c].msg>>]
  IN /\ At(c, "blackhole") /\ v[1] = "tso" /\ tso[v[2]].cap = c /\ BQ \ QueuesInUse # {}
     /\ Blocked(c, Boost([Now EXCEPT !.bq[b] = queue], c, v[2], cpu[c].msg[1]))
     /\ clo' = [clo EXCEPT ![cpu[c].thunk].ind = Bq(b)]
     /\ UNCHANGED eager

JoinQueue(c) ==
  LET v == cpu[c].v IN
  /\ At(c, "blackhole") /\ v[1] = "bq" /\ bq[v[2]].info # "IND" /\ tso[Owner(v)].cap = c
  /\ Blocked(c, Boost([Now EXCEPT !.bq[v[2]].queue = <<cpu[c].msg>> \o @], c, Owner(v), cpu[c].msg[1]))
  /\ UNCHANGED <<clo, eager>>

NotBlocked(c) ==
  LET v == cpu[c].v IN
  /\ At(c, "blackhole")
  /\ \/ /\ v[1] \in {"value", "closure"}
        /\ Become(IF cpu[c].caller = "entry" THEN Now ELSE tryWakeupThread(Now, c, cpu[c].msg[1]))
        /\ cpu' = [cpu EXCEPT ![c].pc = IF cpu[c].caller = "entry" THEN "run" ELSE "sched",
                              ![c].msg = <<None, 0>>, ![c].v = Nothing, ![c].thunk = None]
     \/ /\ v[1] = "bq" /\ bq[v[2]].info = "IND"
        /\ cpu' = [cpu EXCEPT ![c].pc = "message", ![c].v = Nothing]
        /\ UNCHANGED <<tso, bq, runq, inbox>>
  /\ UNCHANGED <<clo, eager>>

-----------------------------------------------------------------------------
(* Updates.  updateThunk is shared by the update frames and raiseAsync; it  *)
(* returns to the step named in cpu.then.                                  *)

\* stg_upd_frame: nobody can have blocked on the thunk
PopFrame(c) ==
  /\ Running(c, "return") /\ tso[Cur(c)].stack # <<>> /\ Top(c).kind = "upd"
  /\ clo' = [clo EXCEPT ![Top(c).updatee].ind = Val]
  /\ cpu' = [cpu EXCEPT ![c].pc = "write_info", ![c].thunk = Top(c).updatee,
                        ![c].v = Tso(Cur(c)), ![c].then = "run"]
  /\ tso' = [tso EXCEPT ![Cur(c)].stack = Tail(@)]
  /\ UNCHANGED <<bq, runq, inbox, eager>>

\* stg_marked_upd_frame, stg_bh_upd_frame: somebody else may have updated the thunk
PopMarkedFrame(c) ==
  LET t == Cur(c)
      v == clo[Top(c).updatee].ind
  IN /\ Running(c, "return") /\ tso[t].stack # <<>> /\ Top(c).kind # "upd"
     /\ \/ /\ v = Val
           /\ Become(checkBlockingQueues([Now EXCEPT !.tso[t].stack = Tail(@)], c, t))
           /\ UNCHANGED cpu
        \/ /\ v # Val
           /\ cpu' = [cpu EXCEPT ![c].pc = IF v = Tso(t) THEN "write_ind" ELSE "updateThunk",
                                 ![c].thunk = Top(c).updatee, ![c].val = Val, ![c].v = Tso(t), ![c].then = "run"]
           /\ tso' = [tso EXCEPT ![t].stack = Tail(@)]
           /\ UNCHANGED <<bq, runq, inbox>>
     /\ UNCHANGED <<clo, eager>>

updateThunk(c) ==
  LET k == cpu[c].thunk IN
  /\ At(c, "updateThunk")
  /\ cpu' = [cpu EXCEPT ![c].pc = "write_ind",
                        ![c].v = IF IsBlackHole(clo[k].info) THEN clo[k].ind ELSE Tso(cpu[c].cur)]
  /\ UNCHANGED <<clo, tso, bq, runq, inbox, eager>>

UpdateWritesInd(c) ==
  /\ At(c, "write_ind")
  /\ clo' = [clo EXCEPT ![cpu[c].thunk].ind = cpu[c].val]
  /\ Goto(c, "write_info")
  /\ UNCHANGED <<tso, bq, runq, inbox, eager>>

UpdateDone(c) ==
  cpu' = [cpu EXCEPT ![c].pc = cpu[c].then, ![c].then = None, ![c].thunk = None,
                     ![c].val = Nothing, ![c].v = Nothing]

\* Nobody has blocked on the thunk if it still points to the thread
UpdateWritesInfo(c) ==
  /\ At(c, "write_info")
  /\ clo' = [clo EXCEPT ![cpu[c].thunk].info = "BLACKHOLE"]
  /\ IF cpu[c].v = Tso(Cur(c)) THEN UpdateDone(c) ELSE Goto(c, "updated")
  /\ UNCHANGED <<tso, bq, runq, inbox, eager>>

\* Wake those that wait, by the queue found in the thunk or by all queues of the thread
Updated(c) ==
  LET t == Cur(c)
      v == cpu[c].v
      mine == v[1] = "bq" /\ bq[v[2]].info = "BQ" /\ bq[v[2]].owner = t
  IN /\ At(c, "updated")
     /\ Become(IF mine THEN wakeBlockingQueue(Now, c, v[2]) ELSE checkBlockingQueues(Now, c, t))
     /\ UpdateDone(c)
     /\ UNCHANGED <<clo, eager>>
-----------------------------------------------------------------------------
(* threadPaused walks over the update frames down to the first that was     *)
(* marked before; cpu.frame is the frame it looks at.                      *)

WalkFrame(c) == tso[Cur(c)].stack[cpu[c].frame]

\* Lazy black-holing begins with marking the frame and reading the info pointer
MarkFrame(c) ==
  /\ At(c, "pause") /\ cpu[c].frame <= Len(tso[Cur(c)].stack) /\ WalkFrame(c).kind # "marked"
  /\ tso' = [tso EXCEPT ![Cur(c)].stack[cpu[c].frame].kind = "marked"]
  /\ cpu' = [cpu EXCEPT ![c].pc = "claim", ![c].info = clo[WalkFrame(c).updatee].info]
  /\ UNCHANGED <<clo, bq, runq, inbox, eager>>

\* Mutant: a WHITEHOLE is taken for a thunk that nobody has claimed
SomebodyElsesSettled(c) == /\ cpu[c].info = "BLACKHOLE"
                           /\ clo[WalkFrame(c).updatee].ind # Tso(Cur(c))

\* Mutant: the owner is not looked at
SomebodyElsesAny(c) == cpu[c].info \in {"WHITEHOLE", "BLACKHOLE"}

SomebodyElses(c) == /\ cpu[c].info \in {"WHITEHOLE", "BLACKHOLE"}
                    /\ clo[WalkFrame(c).updatee].ind # Tso(Cur(c))

\* suspendComputation takes the thread off the queue it blocks on
SuspendDuplicate(c) ==
  LET t == Cur(c) IN
  /\ At(c, "claim") /\ SomebodyElses(c)
  /\ IF tso[t].why_blocked = "NotBlocked" THEN UNCHANGED <<tso, bq, runq, inbox>>
     ELSE Become(appendToRunQueue([Now EXCEPT !.tso[t].why_blocked = "NotBlocked"], c, t))
  /\ Goto(c, "freeze")
  /\ UNCHANGED <<clo, eager>>

\* Otherwise the info pointer is swapped with a WHITEHOLE
ClaimBlackHole(c) ==
  LET k == WalkFrame(c).updatee IN
  /\ At(c, "claim") /\ ~SomebodyElses(c)
  /\ IF clo[k].info = cpu[c].info
     THEN /\ clo' = [clo EXCEPT ![k].info = "WHITEHOLE"]
          /\ cpu' = [cpu EXCEPT ![c].pc = "own"]
     ELSE cpu' = [cpu EXCEPT ![c].info = clo[k].info] /\ UNCHANGED clo
  /\ UNCHANGED <<tso, bq, runq, inbox, eager>>

OwnBlackHole(c) ==
  /\ At(c, "own")
  /\ clo' = [clo EXCEPT ![WalkFrame(c).updatee].ind = Tso(Cur(c))]
  /\ Goto(c, "owned")
  /\ UNCHANGED <<tso, bq, runq, inbox, eager>>

SetBlackHole(c) ==
  /\ At(c, "owned")
  /\ clo' = [clo EXCEPT ![WalkFrame(c).updatee].info = "BLACKHOLE"]
  /\ cpu' = [cpu EXCEPT ![c].pc = "pause", ![c].frame = @ + 1, ![c].info = None]
  /\ UNCHANGED <<tso, bq, runq, inbox, eager>>

\* Back in the scheduler; a thread that has only been stopped is run again
PauseDone(c) ==
  LET t == Cur(c) IN
  /\ At(c, "pause")
  /\ cpu[c].frame <= Len(tso[t].stack) => WalkFrame(c).kind = "marked"
  /\ runq' = IF cpu[c].why = "yield" THEN [runq EXCEPT ![c] = Append(@, t)] ELSE runq
  /\ cpu' = [cpu EXCEPT ![c].pc = "sched", ![c].cur = None, ![c].frame = 0, ![c].why = None]
  /\ UNCHANGED <<clo, tso, bq, inbox, eager>>
-----------------------------------------------------------------------------
(* raiseAsync freezes the evaluations of the frames above cpu.frame: each   *)
(* thunk is updated with an AP_STACK that goes on where the thread stopped. *)

FreezeFrame(c) ==
  LET t == Cur(c)
      ap == Fresh(AP, ClosuresInUse)
      current == IF tso[t].code[1] = "enter" THEN tso[t].code[2] ELSE None
  IN /\ At(c, "freeze") /\ cpu[c].frame > 1 /\ AP \ ClosuresInUse # {}
     /\ clo' = [clo EXCEPT ![ap] = [info |-> "THUNK", ind |-> Nothing, need |-> current]]
     /\ tso' = [tso EXCEPT ![t].stack = Tail(@), ![t].code = Enter(ap)]
     /\ cpu' = [cpu EXCEPT ![c].pc = "updateThunk", ![c].then = "freeze", ![c].frame = @ - 1,
                           ![c].thunk = Top(c).updatee, ![c].val = Clo(ap)]
     /\ UNCHANGED <<bq, runq, inbox, eager>>

\* Duplicate work: drop the update frame and wait for the other thread's value instead
DropFrame(c) ==
  LET t == Cur(c) IN
  /\ At(c, "freeze") /\ cpu[c].frame = 1 /\ cpu[c].why # "raise"
  /\ tso' = [tso EXCEPT ![t].stack = Tail(@), ![t].code = Enter(Top(c).updatee)]
  /\ cpu' = [cpu EXCEPT ![c].pc = "pause", ![c].info = None]
  /\ UNCHANGED <<clo, bq, runq, inbox, eager>>

\* An exception: the handler of the thread evaluates the same expression once more
RunHandler(c) ==
  LET t == Cur(c)
      w == [Now EXCEPT !.tso[t].code = Enter(tso[t].root), !.tso[t].why_blocked = "NotBlocked"]
  IN /\ At(c, "freeze") /\ cpu[c].frame = 1 /\ cpu[c].why = "raise"
     /\ Become(IF tso[t].why_blocked = "NotBlocked" THEN w ELSE appendToRunQueue(w, c, t))
     /\ cpu' = [cpu EXCEPT ![c].pc = "sched", ![c].cur = None, ![c].why = None, ![c].frame = 0]
     /\ UNCHANGED <<clo, eager>>

Revoke(m, t) == IF m = <<t, tso[t].block_info>> THEN <<t, 0>> ELSE m

\* throwToMsg for a thread of this Capability that does not run.  The message of a thread
\* blocked on a black hole is overwritten, wherever it is; a wake-up may still come.
throwTo(c, t) ==
  LET blocked == tso[t].why_blocked = "BlackHole"
      freeze(r) == [r EXCEPT ![c].pc = "freeze", ![c].cur = t, ![c].why = "raise",
                             ![c].frame = Len(tso[t].stack) + 1]
  IN /\ At(c, "sched") /\ tso[t].cap = c /\ ~tso[t].done /\ tso[t].throws > 0
     /\ tso' = [tso EXCEPT ![t].throws = @ - 1]
     /\ IF blocked
        THEN /\ bq' = [b \in BQ |-> [bq[b] EXCEPT !.queue = [i \in DOMAIN @ |-> Revoke(@[i], t)]]]
             /\ inbox' = [d \in Cap |-> [i \in DOMAIN inbox[d] |->
                            IF inbox[d][i].to = "blackhole"
                            THEN [inbox[d][i] EXCEPT !.msg = Revoke(@, t)] ELSE inbox[d][i]]]
             /\ cpu' = freeze([d \in Cap |-> [cpu[d] EXCEPT !.msg = Revoke(@, t)]])
        ELSE cpu' = freeze(cpu) /\ UNCHANGED <<bq, inbox>>
     /\ UNCHANGED <<clo, runq, eager>>

-----------------------------------------------------------------------------
(* The scheduler *)

\* A heap check or the timer stops the thread, before it enters a closure or returns
Preempt(c) ==
  /\ At(c, "run") /\ tso[Cur(c)].stops > 0
  /\ tso' = [tso EXCEPT ![Cur(c)].stops = @ - 1]
  /\ cpu' = [cpu EXCEPT ![c].pc = "pause", ![c].frame = 1, ![c].why = "yield"]
  /\ UNCHANGED <<clo, bq, runq, inbox, eager>>

ThreadFinished(c) ==
  /\ Running(c, "return") /\ tso[Cur(c)].stack = <<>>
  /\ tso' = [tso EXCEPT ![Cur(c)].done = TRUE]
  /\ cpu' = [cpu EXCEPT ![c].pc = "sched", ![c].cur = None]
  /\ UNCHANGED <<clo, bq, runq, inbox, eager>>

PickThread(c) ==
  /\ At(c, "sched") /\ runq[c] # <<>>
  /\ cpu' = [cpu EXCEPT ![c].pc = "run", ![c].cur = Head(runq[c])]
  /\ runq' = [runq EXCEPT ![c] = Tail(@)]
  /\ UNCHANGED <<clo, tso, bq, inbox, eager>>

\* scheduleProcessInbox and executeMessage; a revoked message is ignored
ProcessInbox(c) ==
  LET m == Head(inbox[c])
      w == [Now EXCEPT !.inbox[c] = Tail(@)]
  IN /\ At(c, "sched") /\ inbox[c] # <<>>
     /\ \/ m.to = "wakeup" /\ Become(tryWakeupThread(w, c, m.tso)) /\ UNCHANGED cpu
        \/ /\ m.to = "blackhole" /\ m.msg[2] # 0
           /\ Become(w)
           /\ cpu' = [cpu EXCEPT ![c].pc = "message", ![c].msg = m.msg, ![c].thunk = m.bh,
                                 ![c].caller = "inbox"]
        \/ m.to = "blackhole" /\ m.msg[2] = 0 /\ Become(w) /\ UNCHANGED cpu
     /\ UNCHANGED <<clo, eager>>

\* schedulePushWork gives threads to a Capability that is idle, all but the first
PushWork(c, d) ==
  /\ c # d /\ At(c, "sched") /\ Len(runq[c]) > 1
  /\ At(d, "sched") /\ runq[d] = <<>> /\ inbox[d] = <<>>
  /\ LET t == runq[c][2] IN
       /\ tso' = [tso EXCEPT ![t].cap = d]
       /\ runq' = [runq EXCEPT ![c] = RemoveAt(@, 2), ![d] = <<t>>]
  /\ UNCHANGED <<clo, bq, inbox, cpu, eager>>

-----------------------------------------------------------------------------
Init ==
  \E s \in Scenario :
    /\ clo = [k \in Closure |-> [info |-> IF k \in Caf THEN "CAF" ELSE "THUNK", ind |-> Nothing,
                                 need |-> IF k \in AP THEN None ELSE s.need[k]]]
    /\ tso = [t \in Thread |-> [cap |-> Home[t], why_blocked |-> "NotBlocked", block_info |-> 0,
                                stack |-> <<>>, root |-> s.root[t], code |-> Enter(s.root[t]),
                                stops |-> s.stops[t], throws |-> s.throws[t], done |-> s.root[t] = None]]
    /\ bq = [b \in BQ |-> [info |-> "IND", bh |-> None, owner |-> None, queue |-> <<>>]]
    /\ runq = [c \in Cap |-> SetToSeq({t \in Thread : Home[t] = c /\ s.root[t] # None})]
    /\ inbox = [c \in Cap |-> <<>>]
    /\ cpu = [c \in Cap |-> [pc |-> "sched", cur |-> None, thunk |-> None, val |-> Nothing, v |-> Nothing,
                             then |-> None, frame |-> 0, info |-> None, why |-> None,
                             msg |-> <<None, 0>>, caller |-> None]]
    /\ eager = s.eager

EnterStep(c) == \/ EnterThunk(c) \/ EagerInd(c) \/ EagerBlackHole(c) \/ lockCAF(c) \/ CafPointsTo(c) \/ CafStatic(c)
                \/ EnterIndStatic(c) \/ EnterBlackHole(c)

MessageStep(c) == MessageReads(c) \/ Forward(c) \/ FirstToBlock(c) \/ JoinQueue(c) \/ NotBlocked(c)

UpdateStep(c) == \/ PopFrame(c) \/ PopMarkedFrame(c) \/ updateThunk(c) \/ UpdateWritesInd(c)
                 \/ UpdateWritesInfo(c) \/ Updated(c)

PauseStep(c) == \/ MarkFrame(c) \/ SuspendDuplicate(c) \/ ClaimBlackHole(c) \/ OwnBlackHole(c)
                \/ SetBlackHole(c) \/ PauseDone(c)

RaiseStep(c) == FreezeFrame(c) \/ DropFrame(c) \/ RunHandler(c)

Step(c) == \/ EnterStep(c) \/ MessageStep(c) \/ UpdateStep(c) \/ PauseStep(c) \/ RaiseStep(c)
           \/ ThreadFinished(c) \/ PickThread(c) \/ ProcessInbox(c)

Next == \/ \E c \in Cap : Step(c) \/ Preempt(c) \/ (\E t \in Thread : throwTo(c, t))
        \/ \E c, d \in Cap : PushWork(c, d)

\* A Capability with something to do is run; its messages are looked at in the end
Fairness == \A c \in Cap : WF_vars(Step(c)) /\ SF_vars(ProcessInbox(c))

Spec == Init /\ [][Next]_vars
FairSpec == Spec /\ Fairness

-----------------------------------------------------------------------------
(* Properties *)

\* The types of the variables.
TypeOK ==
  /\ \A k \in Closure :
       /\ clo[k].info \in {"THUNK", "CAF", "IND_STATIC"} \/ IsBlackHole(clo[k].info)
       /\ clo[k].ind \in {Nothing, Val} \cup {Tso(t) : t \in Thread} \cup {Bq(x) : x \in BQ}
                           \cup {Clo(j) : j \in Closure}
       /\ clo[k].need \in Closure \cup {None}
  /\ \A t \in Thread : /\ tso[t].cap \in Cap
                       /\ tso[t].why_blocked \in {"NotBlocked", "BlackHole"}
                       /\ tso[t].block_info \in 0 .. MaxTag
  /\ \A x \in BQ : bq[x].info \in {"BQ", "IND"} /\ (bq[x].info = "BQ" => bq[x].owner \in Thread)

Evaluates(t, k) == \E i \in DOMAIN tso[t].stack : tso[t].stack[i].updatee = k
Pending(c, k) == cpu[c].pc \in {"updateThunk", "write_ind", "write_info", "updated"} /\ cpu[c].thunk = k

\* "we promise to send a MSG_TRY_WAKEUP at some point in the future" (messageBlackHole): a
\* blocked thread has a wake-up on its way, or its message is on its way, or the message
\* hangs on a queue whose owner still evaluates the thunk or is about to wake the queue.
Promise ==
  TypeOK /\ \A t \in Thread :
    tso[t].why_blocked = "BlackHole" =>
      \/ \E c \in Cap : cpu[c].why = "raise" /\ Cur(c) = t
      \/ \E c \in Cap : \E i \in DOMAIN inbox[c] : inbox[c][i].to = "wakeup" /\ inbox[c][i].tso = t
      \/ \E c \in Cap : cpu[c].msg = <<t, tso[t].block_info>>
      \/ \E c \in Cap : \E i \in DOMAIN inbox[c] :
           inbox[c][i].to = "blackhole" /\ inbox[c][i].msg = <<t, tso[t].block_info>>
      \/ \E x \in BQ :
           /\ bq[x].info = "BQ" /\ <<t, tso[t].block_info>> \in ToSet(bq[x].queue)
           /\ \/ Evaluates(bq[x].owner, bq[x].bh)
              \/ \E c \in Cap : Cur(c) = bq[x].owner /\ Pending(c, bq[x].bh)

\* Two threads that have been stopped never both go on with the same thunk: threadPaused
\* claims each thunk under evaluation, and the thread that comes second gives its own
\* evaluation up.  With -feager-blackholing the claim is made on entry by plain stores, of
\* which the second wins, and threadPaused cannot tell; so that is left out.
NoDuplicateWork ==
  \A t, u \in Thread : \A k \in Closure :
    /\ t # u /\ ~eager
    /\ \A c \in Cap : Cur(c) \notin {t, u}
    => ~(Evaluates(t, k) /\ Evaluates(u, k))

\* Every thread gets its value
Finishes == <>(\A t \in Thread : tso[t].done)
=============================================================================
