------------------------------ MODULE Capability ------------------------------
(***************************************************************************)
(* Who runs Haskell code: the hand-over of Capabilities between the OS     *)
(* threads (Tasks) of the threaded run-time system.  rts/Capability.c      *)
(* (release, return, yield, grab), the loop of rts/Schedule.c that drives  *)
(* it (inbox, work pushing, yielding, running a thread, safe foreign       *)
(* calls, the synchronisation of all Capabilities for a sequential GC or   *)
(* a fork), rts/Task.c (workers), and the wake-up messages of              *)
(* rts/Messages.c.                                                         *)
(*                                                                         *)
(* An action is one critical section of cap->lock or task->lock, or one    *)
(* step of the scheduler by the Task that owns the Capability.  A Task     *)
(* that sleeps on its condition variable may also wake up for no reason,   *)
(* as POSIX allows.  Haskell threads are reduced to what the scheduler     *)
(* sees of them: they yield, block, wake or create others, call C, ask for *)
(* a GC, or finish.  hs_exit deletes them all, drains the Capabilities one *)
(* by one and frees them.  Sparks and the parallel GC are left out.        *)
(***************************************************************************)
EXTENDS Integers, Sequences, FiniteSets, SequencesExt

CONSTANTS
    NCaps,       \* n_capabilities
    Worker,      \* names for the Tasks that startWorkerTask creates
    InCall,      \* OS threads that call in: each has a bound thread of its own name
    Syncer,      \* OS threads that stop the world (performGC, forkProcess)
    Exiter,      \* OS threads that call hs_exit
    Unbound,     \* Haskell threads that any worker may run
    MAX_SPARE_WORKERS,
    Scenarios,   \* bounds: a behaviour is one of these, see Scenario
    Null

Cap  == 0..NCaps - 1
Task == Worker \cup InCall \cup Syncer \cup Exiter
TSO  == Unbound \cup InCall

ASSUME NCapsAssumption == NCaps \in Nat \ {0}
ASSUME FiniteAssumption == IsFiniteSet(Task) /\ IsFiniteSet(TSO)
(* There are names enough for the workers that initScheduler starts. *)
ASSUME WorkerAssumption ==
    \E f \in [1..NCaps - 1 -> Worker] : \A c, d \in 1..NCaps - 1 : f[c] = f[d] => c = d
ASSUME SpareAssumption == MAX_SPARE_WORKERS \in Nat \ {0}

(* Who calls in, how many unbound threads there are, what Haskell threads  *)
(* may do besides yielding and finishing, and how often ("inboxGC": the    *)
(* nursery is full when an inbox is processed, "overflow": a GC may find   *)
(* that the heap overflows); whether hs_exit waits for foreign calls       *)
(* (wait_foreign); whether Tasks wake up for no reason; and which          *)
(* Capabilities the OS threads that call in may have had before.           *)
Scenario ==
    [callers : SUBSET (InCall \cup Syncer \cup Exiter), threads : Nat,
     ops : SUBSET {"block", "forkOn", "ccall", "gc", "inboxGC", "overflow"}, maxOps : Nat,
     wait : BOOLEAN, spurious : BOOLEAN, last : SUBSET Cap]
ASSUME ScenarioAssumption == \A s \in Scenarios : s \in Scenario
ASSUME DisjointAssumption ==
    /\ Null \notin Task \cup TSO \cup Cap /\ "start" \notin Task \cup {Null}
    /\ Worker \cap (InCall \cup Syncer \cup Exiter) = {} /\ InCall \cap (Syncer \cup Exiter) = {}
    /\ Syncer \cap Exiter = {}
    /\ Unbound \cap Task = {}

VARIABLES
    running_task,          \* [Cap -> Task \cup {Null}]
    returning_tasks,       \* [Cap -> Seq(Task)]
    spare_workers,         \* [Cap -> Seq(Task)]
    run_queue,             \* [Cap -> Seq(TSO)]
    inbox,                 \* [Cap -> Seq(TSO)]: a MSG_TRY_WAKEUP for each
    last_free_capability,
    pending_sync,          \* "none", or the type of the sync request under way
    sched_state,           \* "running", "interrupting", "shutting"
    scenario,
    task,                  \* [Task -> record]: the Task and its program counter
    tso                    \* [TSO -> record]

capVars == <<running_task, returning_tasks, spare_workers, run_queue, inbox>>
vars == <<capVars, last_free_capability, pending_sync, sched_state, scenario, task, tso>>

bound(t) == IF t \in InCall THEN t ELSE Null

(* incall->tso: an in-call has one from scheduleWaitThread to its end;     *)
(* workers, and the Tasks of performGC and forkProcess, have none.         *)
isBoundTask(k) == k \in InCall

pc(k) == task[k].pc
-----------------------------------------------------------------------------
(* giveCapabilityToTask: the sticky wake-up flag. *)
giveCapabilityToTask(tk, k) == [tk EXCEPT ![k].wakeup = TRUE]

newReturningTask(c, k) == [returning_tasks EXCEPT ![c] = Append(@, k)]
popReturningTask(c) == [returning_tasks EXCEPT ![c] = Tail(@)]

(* A Task in the state st, with the Capability c in task->cap; the other   *)
(* fields are the locals of the functions it will be in.                   *)
newTask(st, c) ==
    [pc |-> st, cap |-> c, wakeup |-> FALSE, at |-> c, on |-> Null, then |-> "none",
     i |-> 0, held |-> <<>>, cur |-> Null, sync |-> "none", prev |-> "none", old |-> Null]

(* A fresh worker owns c from the start: it has nowhere to sleep.  Names   *)
(* that are not in use are as good as each other.                          *)
startWorkerTask(c, tk) ==
    \E w \in {CHOOSE w \in Worker : tk[w].pc = "none"} :
        /\ \E v \in Worker : tk[v].pc = "none"
        /\ running_task' = [running_task EXCEPT ![c] = w]
        /\ task' = [tk EXCEPT ![w] = newTask("schedule", c)]

globalWorkToDo == sched_state # "running"

(* No new worker during the shutdown, unless threads have to be completed. *)
startsWorker(q) == IF sched_state # "shutting" \/ q # <<>> THEN "start" ELSE Null

(* mutant: threads on the run queue are all left to workers *)
NextOwnerUnbound(c, always_wakeup, q, ib, sp) ==
    IF returning_tasks[c] # <<>> THEN Head(returning_tasks[c])
    ELSE IF pending_sync # "none" THEN Null
    ELSE IF sp = <<>> THEN startsWorker(q)
    ELSE IF always_wakeup \/ q # <<>> \/ ib # <<>> \/ globalWorkToDo THEN Head(sp)
    ELSE Null

(* mutant: the inbox is forgotten *)
NextOwnerNoInbox(c, always_wakeup, q, ib, sp) ==
    IF returning_tasks[c] # <<>> THEN Head(returning_tasks[c])
    ELSE IF pending_sync # "none" THEN Null
    ELSE IF q # <<>> /\ bound(Head(q)) # Null THEN bound(Head(q))
    ELSE IF sp = <<>> THEN startsWorker(q)
    ELSE IF always_wakeup \/ q # <<>> \/ globalWorkToDo THEN Head(sp)
    ELSE Null

(* Whom releaseCapability_ passes c to: q, ib and sp are the run queue,    *)
(* inbox and spare workers of c at that point.  Null: c is left free;      *)
(* "start": startWorkerTask.                                               *)
NextOwner(c, always_wakeup, q, ib, sp) ==
    IF returning_tasks[c] # <<>> THEN Head(returning_tasks[c])
    ELSE IF pending_sync # "none" THEN Null
    ELSE IF q # <<>> /\ bound(Head(q)) # Null THEN bound(Head(q))
    ELSE IF sp = <<>> THEN startsWorker(q)
    ELSE IF always_wakeup \/ q # <<>> \/ ib # <<>> \/ globalWorkToDo THEN Head(sp)
    ELSE Null

(* releaseCapability_, under cap->lock, by the Task that owns c; tk are    *)
(* the Tasks at that point.                                                *)
releaseCapability_(c, always_wakeup, q, ib, sp, tk) ==
    LET next == NextOwner(c, always_wakeup, q, ib, sp)
    IN  \/ /\ next = "start"
           /\ startWorkerTask(c, tk)
           /\ UNCHANGED last_free_capability
        \/ /\ next = Null
           /\ running_task' = [running_task EXCEPT ![c] = Null]
           /\ task' = tk
           /\ last_free_capability' = c
        \/ /\ next \in Task
           /\ running_task' = [running_task EXCEPT ![c] = Null]
           /\ task' = giveCapabilityToTask(tk, next)
           /\ UNCHANGED last_free_capability

(* The rest of the Capability untouched. *)
Release(c, always_wakeup, tk) ==
    releaseCapability_(c, always_wakeup, run_queue[c], inbox[c], spare_workers[c], tk)

initCapability ==
    /\ returning_tasks = [c \in Cap |-> <<>>]
    /\ spare_workers = [c \in Cap |-> <<>>]
    /\ run_queue = [c \in Cap |-> <<>>]
    /\ inbox = [c \in Cap |-> <<>>]

Init ==
    /\ initCapability
    \* initScheduler: a worker for every Capability but 0, which is free
    /\ \E w \in {CHOOSE f \in [1..NCaps - 1 -> Worker] : \A c, d \in 1..NCaps - 1 : f[c] = f[d] => c = d} :
         /\ running_task = [c \in Cap |-> IF c = 0 THEN Null ELSE w[c]]
         /\ task = [k \in Task |->
                LET mine == {c \in 1..NCaps - 1 : w[c] = k}
                IN  IF mine = {} THEN newTask("none", Null)
                    ELSE newTask("schedule", CHOOSE c \in mine : TRUE)]
    /\ last_free_capability = 0
    /\ pending_sync = "none"
    /\ sched_state = "running"
    /\ scenario \in Scenarios
    /\ tso = [t \in TSO |-> [st |-> "new", cap |-> Null, locked |-> FALSE, ops |-> scenario.maxOps]]

Goto(k, p) == task' = [task EXCEPT ![k].pc = p]

-----------------------------------------------------------------------------
(* waitForReturnCapability *)

(* With no Capability in mind (rts_lock, forkProcess): the last one freed, *)
(* else the first free one, else the last one freed.                       *)
FreeCap ==
    LET free == {c \in Cap : running_task[c] = Null}
    IN  IF last_free_capability \in free \/ free = {} THEN last_free_capability
        ELSE CHOOSE c \in free : \A d \in free : c <= d

(* performGC and hs_exit ask for the Capability the OS thread had last     *)
(* (newBoundTask, task->cap), if any.                                      *)
LastCap == {FreeCap} \cup scenario.last

(* hs_exit has not been called yet. *)
NoExit == \A e \in Exiter : pc(e) = "none"

CallIn(k, type) ==
    /\ pc(k) = "none" /\ k \in scenario.callers /\ NoExit
    /\ \/ k \in InCall /\ type = "none" /\ tso[k].st = "new"
       \/ k \in Syncer /\ type \in {"gc", "other"} /\ task[k].sync = "none"
    /\ \E c \in IF type = "gc" THEN LastCap ELSE {FreeCap} :
         task' = [task EXCEPT ![k].pc = "return", ![k].cap = c, ![k].on = c, ![k].sync = type,
                              ![k].then = CASE type = "none" -> "bind"
                                            [] type = "gc" -> "doGC"
                                            [] type = "other" -> "requestSync"]
    /\ UNCHANGED <<capVars, last_free_capability, pending_sync, tso>>

(* k has the Capability c it waited for, and goes on. *)
Got(k, c) ==
    [task EXCEPT ![k].pc = task[k].then, ![k].on = Null,
                 ![k].at = IF task[k].then = "acquire" THEN @ ELSE c]

ReturnLock(k) ==
    /\ pc(k) = "return"
    /\ LET c == task[k].on
       IN  \/ /\ running_task[c] = Null
              /\ running_task' = [running_task EXCEPT ![c] = k]
              /\ task' = Got(k, c)
              /\ UNCHANGED returning_tasks
           \/ /\ running_task[c] # Null
              /\ returning_tasks' = newReturningTask(c, k)
              /\ Goto(k, "returnSleep")
              /\ UNCHANGED running_task
    /\ UNCHANGED <<spare_workers, run_queue, inbox, last_free_capability, pending_sync, tso>>

(* Under task->lock: the Capability may have changed while k was asleep. *)
WakeUp(k) ==
    task' = [task EXCEPT ![k].pc = IF pc(k) = "sleep" THEN "check" ELSE "returnCheck",
                         ![k].on = task[k].cap, ![k].wakeup = FALSE]
Awake(k) ==
    /\ pc(k) \in {"sleep", "returnSleep"}
    /\ task[k].wakeup
    /\ WakeUp(k)
    /\ UNCHANGED <<capVars, last_free_capability, pending_sync, tso>>
SpuriousWakeup(k) ==
    /\ pc(k) \in {"sleep", "returnSleep"}
    /\ scenario.spurious
    /\ ~task[k].wakeup
    /\ WakeUp(k)
    /\ UNCHANGED <<capVars, last_free_capability, pending_sync, tso>>

(* mutant: whoever wakes up first takes the Capability *)
ReturnCheckAny(k) ==
    /\ pc(k) = "returnCheck"
    /\ LET c == task[k].on
       IN  \/ /\ running_task[c] # Null
              /\ Goto(k, "returnSleep")
              /\ UNCHANGED <<running_task, returning_tasks>>
           \/ /\ running_task[c] = Null
              /\ running_task' = [running_task EXCEPT ![c] = k]
              /\ returning_tasks' = popReturningTask(c)
              /\ task' = Got(k, c)
    /\ UNCHANGED <<spare_workers, run_queue, inbox, last_free_capability, pending_sync, tso>>

ReturnCheck(k) ==
    /\ pc(k) = "returnCheck"
    /\ LET c == task[k].on
       IN  \/ /\ running_task[c] # Null
              /\ Goto(k, "returnSleep")
              /\ UNCHANGED <<running_task, returning_tasks>>
           \/ /\ running_task[c] = Null /\ Head(returning_tasks[c]) # k
              /\ task' = giveCapabilityToTask([task EXCEPT ![k].pc = "returnSleep"],
                                              Head(returning_tasks[c]))
              /\ UNCHANGED <<running_task, returning_tasks>>
           \/ /\ running_task[c] = Null /\ Head(returning_tasks[c]) = k
              /\ running_task' = [running_task EXCEPT ![c] = k]
              /\ returning_tasks' = popReturningTask(c)
              /\ task' = Got(k, c)
    /\ UNCHANGED <<spare_workers, run_queue, inbox, last_free_capability, pending_sync, tso>>

-----------------------------------------------------------------------------
(* yieldCapability *)

(* releaseCapabilityAndQueueWorker.  task->wakeup is cleared just before:  *)
(* nobody can set it while k owns the Capability.                          *)
YieldRelease(k) ==
    /\ pc(k) = "release"
    /\ LET c == task[k].at
           asleep == [task EXCEPT ![k].pc = "sleep", ![k].wakeup = FALSE]
           stopped == [task EXCEPT ![k].pc = "stopped", ![k].wakeup = FALSE, ![k].cap = Null]
           sp == IF isBoundTask(k) \/ Len(spare_workers[c]) >= MAX_SPARE_WORKERS
                   THEN spare_workers[c] ELSE <<k>> \o spare_workers[c]
           tk == IF isBoundTask(k) \/ Len(spare_workers[c]) < MAX_SPARE_WORKERS
                   THEN asleep ELSE stopped
       IN  /\ releaseCapability_(c, FALSE, run_queue[c], inbox[c], sp, tk)
           /\ spare_workers' = [spare_workers EXCEPT ![c] = sp]
    /\ UNCHANGED <<returning_tasks, run_queue, inbox, pending_sync, tso>>

(* mutant: the test for a migrated bound thread is left out *)
YieldCheckMigrated(k) ==
    /\ pc(k) = "check"
    /\ LET c == task[k].on
           first == IF isBoundTask(k) THEN TRUE ELSE Head(spare_workers[c]) = k
       IN  \/ /\ running_task[c] # Null
              /\ Goto(k, "sleep")
              /\ UNCHANGED <<running_task, spare_workers>>
           \/ /\ running_task[c] = Null /\ ~first
              /\ task' = giveCapabilityToTask([task EXCEPT ![k].pc = "sleep"],
                                              Head(spare_workers[c]))
              /\ UNCHANGED <<running_task, spare_workers>>
           \/ /\ running_task[c] = Null /\ first
              /\ running_task' = [running_task EXCEPT ![c] = k]
              /\ spare_workers' = IF isBoundTask(k) THEN spare_workers
                                  ELSE [spare_workers EXCEPT ![c] = Tail(@)]
              /\ task' = Got(k, c)
    /\ UNCHANGED <<returning_tasks, run_queue, inbox, last_free_capability, pending_sync, tso>>

YieldCheck(k) ==
    /\ pc(k) = "check"
    /\ LET c == task[k].on
           first == IF isBoundTask(k) THEN TRUE ELSE Head(spare_workers[c]) = k
       IN  \/ /\ running_task[c] # Null \/ task[k].cap # c   \* Note [migrated bound threads]
              /\ Goto(k, "sleep")
              /\ UNCHANGED <<running_task, spare_workers>>
           \/ /\ running_task[c] = Null /\ task[k].cap = c /\ ~first
              /\ task' = giveCapabilityToTask([task EXCEPT ![k].pc = "sleep"],
                                              Head(spare_workers[c]))
              /\ UNCHANGED <<running_task, spare_workers>>
           \/ /\ running_task[c] = Null /\ task[k].cap = c /\ first
              /\ running_task' = [running_task EXCEPT ![c] = k]
              /\ spare_workers' = IF isBoundTask(k) THEN spare_workers
                                  ELSE [spare_workers EXCEPT ![c] = Tail(@)]
              /\ task' = Got(k, c)
    /\ UNCHANGED <<returning_tasks, run_queue, inbox, last_free_capability, pending_sync, tso>>

(* A worker that has stopped is gone; startWorkerTask allocates afresh. *)
WorkerExit(k) ==
    /\ pc(k) = "stopped"
    /\ k \in Worker
    /\ task' = [task EXCEPT ![k] = newTask("none", Null)]
    /\ UNCHANGED <<capVars, last_free_capability, pending_sync, tso>>

-----------------------------------------------------------------------------
(* schedule(), by the Task k that owns the Capability task[k].at *)

Runnable(t, c) == [tso EXCEPT ![t].st = "runnable", ![t].cap = c]

(* scheduleWaitThread: the in-call's thread is bound to it. *)
Bind(k) ==
    /\ pc(k) = "bind"
    /\ tso' = Runnable(k, task[k].at)
    /\ run_queue' = [run_queue EXCEPT ![task[k].at] = Append(@, k)]
    /\ Goto(k, "schedule")
    /\ UNCHANGED <<running_task, returning_tasks, spare_workers, inbox,
                   last_free_capability, pending_sync>>

(* The threads of q that are in S, in their order. *)
Those(q, S) ==
    LET f[n \in 0..Len(q)] ==
            IF n = 0 THEN <<>> ELSE IF q[n] \in S THEN Append(f[n - 1], q[n]) ELSE f[n - 1]
    IN  f[Len(q)]

(* The scheduler has to do something about sched_state first. *)
Interrupted(k) ==
    \/ sched_state = "interrupting"
    \/ sched_state = "shutting" /\ ~isBoundTask(k) /\ run_queue[task[k].at] = <<>>

(* scheduleProcessInbox begins with a GC if the nursery is full.  The      *)
(* Capability that scheduleDoGC returns is not looked at: see AfterSync.   *)
InboxGC(k) ==
    /\ pc(k) = "schedule" /\ ~Interrupted(k)
    /\ "inboxGC" \in scenario.ops
    /\ inbox[task[k].at] # <<>>
    /\ task' = [task EXCEPT ![k].pc = "doGC", ![k].sync = "inbox", ![k].old = task[k].at]
    /\ UNCHANGED <<capVars, last_free_capability, pending_sync, tso>>

(* In scheduleProcessInbox, about to try to take cap->lock. *)
AtInbox(k) == pc(k) = "inbox" \/ (pc(k) = "schedule" /\ ~Interrupted(k))

(* The whole inbox is taken under cap->lock, and each message wakes its    *)
(* thread, if that still waits (tryWakeupThread).                          *)
ProcessInbox(k) ==
    /\ AtInbox(k)
    /\ LET c == task[k].at
           woken == Those(inbox[c], {t \in TSO : tso[t].st \in {"blocked", "migrating"}})
       IN  /\ run_queue' = [run_queue EXCEPT ![c] = @ \o woken]
           /\ tso' = [t \in TSO |-> IF Contains(woken, t) THEN [tso[t] EXCEPT !.st = "runnable"]
                                                          ELSE tso[t]]
           /\ inbox' = [inbox EXCEPT ![c] = <<>>]
    /\ Goto(k, "push")
    /\ UNCHANGED <<running_task, returning_tasks, spare_workers, last_free_capability, pending_sync>>

(* TRY_ACQUIRE_LOCK failed: somebody else is at the Capability. *)
SkipInbox(k) ==
    /\ AtInbox(k)
    /\ inbox[task[k].at] # <<>>
    /\ Goto(k, "push")
    /\ UNCHANGED <<capVars, last_free_capability, pending_sync, tso>>

(* schedulePushWork: with two threads or more, grab the free Capabilities  *)
(* one by one (tryGrabCapability), share the threads out and release them. *)
PushWork(k) ==
    /\ pc(k) = "push"
    /\ IF Len(run_queue[task[k].at]) < 2 THEN Goto(k, "yield")
       ELSE task' = [task EXCEPT ![k].pc = "grab", ![k].i = 0, ![k].held = <<>>]
    /\ UNCHANGED <<capVars, last_free_capability, pending_sync, tso>>

(* The unlocked look at running_task may only fail where the locked one    *)
(* would have, or would have a moment before.  PushGrab sets task->cap.    *)
tryGrabCapability(c, k) ==
    /\ running_task[c] = Null
    /\ running_task' = [running_task EXCEPT ![c] = k]

PushGrab(k) ==
    /\ pc(k) = "grab"
    /\ LET c == task[k].at
           i == task[k].i
       IN  \/ /\ i = NCaps
              /\ task' = IF task[k].held = <<>>
                           THEN [task EXCEPT ![k].cap = c, ![k].pc = "yield"]
                           ELSE [task EXCEPT ![k].pc = "share"]
              /\ UNCHANGED running_task
           \/ /\ i < NCaps
              /\ i = c \/ running_task[i] # Null
              /\ task' = [task EXCEPT ![k].i = i + 1]
              /\ UNCHANGED running_task
           \/ /\ i < NCaps
              /\ i # c
              /\ tryGrabCapability(i, k)
              \* the code looks at the run queue of i, but at its own other queues
              /\ IF run_queue[i] # <<>> \/ returning_tasks[c] # <<>> \/ inbox[c] # <<>>
                   THEN task' = [task EXCEPT ![k].cap = i, ![k].pc = "drop"]
                   ELSE task' = [task EXCEPT ![k].cap = i, ![k].held = Append(@, i), ![k].i = i + 1]
    /\ UNCHANGED <<returning_tasks, spare_workers, run_queue, inbox, last_free_capability,
                   pending_sync, tso>>

PushDrop(k) ==
    /\ pc(k) = "drop"
    /\ Release(task[k].i, FALSE, [task EXCEPT ![k].pc = "grab", ![k].i = @ + 1])
    /\ UNCHANGED <<returning_tasks, spare_workers, run_queue, inbox, pending_sync, tso>>

(* The first thread of q stays, and those that must; the others go round   *)
(* the grabbed Capabilities and this one.                                  *)
stays(k, q, n) == n = 1 \/ bound(q[n]) = k \/ tso[q[n]].locked
Turn(k, q, n) == Cardinality({m \in 1..n : ~stays(k, q, m)})

(* Where the threads go that are pushed away. *)
Share(k, held, q) ==
    LET slot(n) == 1 + ((Turn(k, q, n) - 1) % (Len(held) + 1))
        goes == {n \in DOMAIN q : ~stays(k, q, n) /\ slot(n) \in DOMAIN held}
    IN  [t \in {q[n] : n \in goes} |-> held[slot(CHOOSE n \in goes : q[n] = t)]]

Dealt(c, to) ==
    [d \in Cap |-> IF d = c THEN Those(run_queue[c], TSO \ DOMAIN to)
                   ELSE run_queue[d] \o Those(run_queue[c], {t \in DOMAIN to : to[t] = d})]
Moved(r, to) == [x \in DOMAIN r |-> IF x \in DOMAIN to THEN [r[x] EXCEPT !.cap = to[x]] ELSE r[x]]

(* mutant: a bound thread is moved without its Task *)
PushShareThreads(k) ==
    /\ pc(k) = "share"
    /\ LET to == Share(k, task[k].held, run_queue[task[k].at])
       IN  run_queue' = Dealt(task[k].at, to) /\ tso' = Moved(tso, to)
    /\ Goto(k, "relShared")
    /\ UNCHANGED <<running_task, returning_tasks, spare_workers, inbox, last_free_capability,
                   pending_sync>>

(* A bound thread takes its Task along. *)
PushShare(k) ==
    /\ pc(k) = "share"
    /\ LET to == Share(k, task[k].held, run_queue[task[k].at])
       IN  /\ run_queue' = Dealt(task[k].at, to)
           /\ tso' = Moved(tso, to)
           /\ task' = [Moved(task, to) EXCEPT ![k].pc = "relShared"]
    /\ UNCHANGED <<running_task, returning_tasks, spare_workers, inbox, last_free_capability,
                   pending_sync>>

PushRelease(k) ==
    /\ pc(k) = "relShared"
    /\ LET held == task[k].held
       IN  \/ /\ held = <<>>
              /\ task' = [task EXCEPT ![k].cap = task[k].at, ![k].pc = "yield"]
              /\ UNCHANGED <<running_task, last_free_capability>>
           \/ /\ held # <<>>
              /\ Release(Head(held), TRUE,
                         [task EXCEPT ![k].cap = Head(held), ![k].held = Tail(held)])
    /\ UNCHANGED <<returning_tasks, spare_workers, run_queue, inbox, pending_sync, tso>>

shouldYieldCapability(c, k) ==
    \/ pending_sync # "none"
    \/ returning_tasks[c] # <<>>
    \/ /\ run_queue[c] # <<>>
       /\ bound(Head(run_queue[c])) # (IF isBoundTask(k) THEN k ELSE Null)

(* scheduleYield: go on with work in hand, else sleep, and keep yielding.  *)
Yield(k) ==
    /\ pc(k) \in {"yield", "yielded"}
    /\ LET c == task[k].at
           goOn == IF pc(k) = "yield"
                     THEN /\ ~shouldYieldCapability(c, k)
                          /\ run_queue[c] # <<>> \/ inbox[c] # <<>> \/ sched_state # "running"
                     ELSE ~shouldYieldCapability(c, k)
       IN  task' = IF goOn THEN [task EXCEPT ![k].pc = "pick", ![k].then = "none"]
                   ELSE [task EXCEPT ![k].pc = "release", ![k].then = "yielded"]
    /\ UNCHANGED <<capVars, last_free_capability, pending_sync, tso>>

(* Take the first thread, if this Task may run it.  During the shutdown it *)
(* is killed, and only finishes.                                           *)
PickThread(k) ==
    /\ pc(k) = "pick"
    /\ LET c == task[k].at
           q == run_queue[c]
           mine == q # <<>> /\ bound(Head(q)) = (IF isBoundTask(k) THEN k ELSE Null)
       IN  IF mine
             THEN /\ run_queue' = [run_queue EXCEPT ![c] = Tail(q)]
                  /\ tso' = [tso EXCEPT ![Head(q)].st = "running",
                                        ![Head(q)].ops = IF sched_state = "running" THEN @ ELSE 0]
                  /\ task' = [task EXCEPT ![k].pc = "running", ![k].cur = Head(q)]
             ELSE /\ Goto(k, "schedule")
                  /\ UNCHANGED <<run_queue, tso>>
    /\ UNCHANGED <<running_task, returning_tasks, spare_workers, inbox, last_free_capability,
                   pending_sync>>

-----------------------------------------------------------------------------
(* What the running thread does *)

Running(k) == pc(k) = "running" /\ tso[task[k].cur].ops > 0
Stopped(k, p) == [task EXCEPT ![k].pc = p, ![k].cur = Null]
Leaves(t, st) == [tso EXCEPT ![t].st = st, ![t].ops = @ - 1]

(* Back on the queue: at the end after a time slice or if one is due,      *)
(* else at the front (scheduleHandleYield, stack overflow,                 *)
(* scheduleHandleHeapOverflow); the last asks for a GC.                    *)
RunPreempted(k) ==
    /\ Running(k)
    /\ LET c == task[k].at
           t == task[k].cur
       IN  /\ \/ run_queue' = [run_queue EXCEPT ![c] = Append(@, t)]
              \/ run_queue' = [run_queue EXCEPT ![c] = <<t>> \o @]
           /\ tso' = Leaves(t, "runnable")
    /\ task' = Stopped(k, "schedule")
    /\ UNCHANGED <<running_task, returning_tasks, spare_workers, inbox, last_free_capability,
                   pending_sync>>

RunHeapOverflow(k) ==
    /\ Running(k)
    /\ "gc" \in scenario.ops
    /\ LET c == task[k].at
           t == task[k].cur
       IN  /\ \/ run_queue' = [run_queue EXCEPT ![c] = Append(@, t)]
              \/ run_queue' = [run_queue EXCEPT ![c] = <<t>> \o @]
           /\ tso' = Leaves(t, "runnable")
    /\ task' = [Stopped(k, "doGC") EXCEPT ![k].sync = "gc"]
    /\ UNCHANGED <<running_task, returning_tasks, spare_workers, inbox, last_free_capability,
                   pending_sync>>

RunBlock(k) ==
    /\ Running(k)
    /\ "block" \in scenario.ops
    /\ tso' = Leaves(task[k].cur, "blocked")
    /\ task' = Stopped(k, "schedule")
    /\ UNCHANGED <<capVars, last_free_capability, pending_sync>>

(* mutant: the message is left there, and the Capability asleep *)
sendMessageOnly(t, d, ts) ==
    /\ inbox' = [inbox EXCEPT ![d] = <<t>> \o @]
    /\ tso' = ts
    /\ UNCHANGED <<run_queue, running_task, last_free_capability, task>>

(* tryWakeupThread from Capability c: here, or by a message to the         *)
(* Capability d of t, which the sender sets going if it is free            *)
(* (sendMessage).  ts are the threads with t's new state.                  *)
sendMessage(t, d, ts) ==
    LET ib == <<t>> \o inbox[d]
    IN  /\ inbox' = [inbox EXCEPT ![d] = ib]
        /\ tso' = ts
        /\ IF running_task[d] = Null
             THEN releaseCapability_(d, FALSE, run_queue[d], ib, spare_workers[d], task)
             ELSE UNCHANGED <<running_task, last_free_capability, task>>
        /\ UNCHANGED run_queue

Spend(k, ts) == [ts EXCEPT ![task[k].cur].ops = @ - 1]

(* Whoever unblocks t has taken it off the queue it waited in, so nobody   *)
(* does so twice.                                                          *)
RunWake(k, t) ==
    /\ Running(k)
    /\ tso[t].st = "blocked"
    /\ \A c \in Cap : ~Contains(inbox[c], t)
    /\ IF tso[t].cap = task[k].at
         THEN /\ run_queue' = [run_queue EXCEPT ![tso[t].cap] = Append(@, t)]
              /\ tso' = Spend(k, Runnable(t, tso[t].cap))
              /\ UNCHANGED <<running_task, inbox, last_free_capability, task>>
         ELSE sendMessage(t, tso[t].cap, Spend(k, tso))
    /\ UNCHANGED <<returning_tasks, spare_workers, pending_sync>>

NewThread(t) ==
    /\ t \in Unbound /\ tso[t].st = "new"
    /\ Cardinality({u \in Unbound : tso[u].st # "new"}) < scenario.threads

(* scheduleThread *)
RunFork(k, t) ==
    /\ Running(k)
    /\ NewThread(t)
    /\ tso' = Spend(k, Runnable(t, task[k].at))
    /\ run_queue' = [run_queue EXCEPT ![task[k].at] = Append(@, t)]
    /\ UNCHANGED <<running_task, returning_tasks, spare_workers, inbox, last_free_capability,
                   pending_sync, task>>

(* ThreadMigrating: not on any run queue until d has the message.          *)
migrateThread(t, d, ts) ==
    sendMessage(t, d, [ts EXCEPT ![t].st = "migrating", ![t].cap = d])

(* scheduleThreadOn: the thread stays on d for good. *)
RunForkOn(k, t, d) ==
    /\ Running(k)
    /\ "forkOn" \in scenario.ops
    /\ NewThread(t)
    /\ \/ /\ d = task[k].at
          /\ run_queue' = [run_queue EXCEPT ![d] = Append(@, t)]
          /\ tso' = Spend(k, [Runnable(t, d) EXCEPT ![t].locked = TRUE])
          /\ UNCHANGED <<running_task, inbox, last_free_capability, task>>
       \/ /\ d # task[k].at
          /\ migrateThread(t, d, Spend(k, [tso EXCEPT ![t].locked = TRUE]))
    /\ UNCHANGED <<returning_tasks, spare_workers, pending_sync>>

(* suspendThread: the Capability is released for the time of a C call. *)
RunCCall(k) ==
    /\ Running(k)
    /\ "ccall" \in scenario.ops
    /\ tso' = Leaves(task[k].cur, "ccall")
    /\ Release(task[k].at, FALSE, [task EXCEPT ![k].pc = "ccall"])
    /\ UNCHANGED <<returning_tasks, spare_workers, run_queue, inbox, pending_sync>>

(* resumeThread, before and after waitForReturnCapability. *)
ReturnFromC(k) ==
    /\ pc(k) = "ccall"
    /\ task' = [task EXCEPT ![k].pc = "return", ![k].cap = task[k].at, ![k].on = task[k].at,
                            ![k].then = "resume"]
    /\ UNCHANGED <<capVars, last_free_capability, pending_sync, tso>>

Resume(k) ==
    /\ pc(k) = "resume"
    /\ tso' = [tso EXCEPT ![task[k].cur].st = "running"]
    /\ Goto(k, "running")
    /\ UNCHANGED <<capVars, last_free_capability, pending_sync>>

(* scheduleHandleThreadFinished: the in-call returns with its result. *)
RunFinish(k) ==
    /\ pc(k) = "running"
    /\ tso' = [tso EXCEPT ![task[k].cur].st = "finished"]
    /\ task' = Stopped(k, IF isBoundTask(k) THEN "unlock" ELSE "schedule")
    /\ UNCHANGED <<capVars, last_free_capability, pending_sync>>

(* rts_unlock *)
Unlock(k) ==
    /\ pc(k) = "unlock"
    /\ Release(task[k].at, FALSE, [task EXCEPT ![k].pc = "done", ![k].at = Null])
    /\ UNCHANGED <<returning_tasks, spare_workers, run_queue, inbox, pending_sync, tso>>

-----------------------------------------------------------------------------
(* Stopping the world for a sequential GC ("gc") or a fork ("other"):      *)
(* requestSync, acquireAllCapabilities, releaseAllCapabilities.            *)

(* Where k goes on.  scheduleProcessInbox goes on with the Capability it   *)
(* had before: if k was moved with its bound thread meanwhile and has come *)
(* back with another one, it now works on a Capability that it does not    *)
(* own ("stray"), and nothing is said of what it does then.                *)
AfterSync(k) ==
    CASE k \in Exiter -> "exitRelease"
      [] k \in Syncer -> IF task[k].sync = "gc" THEN "unlock" ELSE "done"
      [] OTHER -> CASE task[k].sync = "final" -> "interrupted"
                    [] task[k].sync = "inbox" -> IF task[k].at = task[k].old THEN "inbox" ELSE "stray"
                    [] OTHER -> "schedule"

(* scheduleDoGC does nothing when the final GC has been done. *)
scheduleDoGC(k) ==
    /\ pc(k) = "doGC"
    /\ Goto(k, IF sched_state = "shutting" THEN AfterSync(k) ELSE "requestSync")
    /\ UNCHANGED <<capVars, last_free_capability, pending_sync, tso>>

RequestSync(k) ==
    /\ pc(k) = "requestSync"
    /\ \/ /\ pending_sync = "none"
          /\ pending_sync' = IF task[k].sync = "other" THEN "other" ELSE "gc"
          /\ task' = [task EXCEPT ![k].pc = "acquire", ![k].i = 0]
       \/ /\ pending_sync # "none"
          /\ task' = [task EXCEPT ![k].pc = "release", ![k].then = "syncWait",
                                  ![k].prev = pending_sync]
          /\ UNCHANGED pending_sync
    /\ UNCHANGED <<capVars, last_free_capability, tso>>

(* Somebody else's sync is over: a GC done by another will do, else ask    *)
(* again.                                                                  *)
SyncWait(k) ==
    /\ pc(k) = "syncWait"
    /\ IF pending_sync # "none" THEN Goto(k, "release")
       ELSE Goto(k, IF task[k].sync # "other" /\ task[k].prev = "gc" THEN AfterSync(k)
                    ELSE "requestSync")
    /\ UNCHANGED <<capVars, last_free_capability, pending_sync, tso>>

AcquireAll(k) ==
    /\ pc(k) = "acquire"
    /\ LET i == task[k].i
       IN  \/ /\ i = NCaps
              /\ task' = [task EXCEPT ![k].cap = task[k].at, ![k].pc = "synced"]
           \/ /\ i < NCaps /\ i = task[k].at
              /\ task' = [task EXCEPT ![k].i = i + 1]
           \/ /\ i < NCaps /\ i # task[k].at
              /\ task' = [task EXCEPT ![k].cap = i, ![k].on = i, ![k].pc = "return",
                                      ![k].then = "acquire", ![k].i = i + 1]
    /\ UNCHANGED <<capVars, last_free_capability, pending_sync, tso>>

(* deleteAllThreads: threads that wait are put on the run queue of their   *)
(* Capability to be finished there, all but those in foreign calls.        *)
deleteAllThreads ==
    LET dead == {t \in TSO : tso[t].st \in {"blocked", "migrating"}}
    IN  /\ tso' = [t \in TSO |->
               IF t \in dead THEN [tso[t] EXCEPT !.st = "runnable", !.ops = 0]
               ELSE IF tso[t].st = "runnable" THEN [tso[t] EXCEPT !.ops = 0] ELSE tso[t]]
        /\ run_queue' = [c \in Cap |-> run_queue[c] \o SetToSeq({t \in dead : tso[t].cap = c})]

(* mutant: pending_sync is not reset *)
SyncedPending(k) ==
    /\ pc(k) = "synced"
    /\ task' = [task EXCEPT ![k].pc = "releaseAll", ![k].i = 0]
    /\ UNCHANGED <<capVars, last_free_capability, pending_sync, sched_state, tso>>

(* Everything is stopped: the GC or the fork happens here.  Before a GC of *)
(* an interrupted system all threads are deleted; if a GC finds that the   *)
(* heap overflows they are deleted too, and the GC done again, with all    *)
(* Capabilities still in k's hands.                                        *)
Synced(k) ==
    /\ pc(k) = "synced"
    /\ pending_sync' = "none"
    /\ task' = [task EXCEPT ![k].pc = "releaseAll", ![k].i = 0]
    /\ \/ /\ task[k].sync # "other"
          /\ \/ sched_state = "interrupting"
             \/ sched_state = "running" /\ "overflow" \in scenario.ops
          /\ deleteAllThreads /\ sched_state' = "shutting"
       \/ /\ task[k].sync = "other" \/ sched_state # "interrupting"
          /\ UNCHANGED <<run_queue, tso, sched_state>>
    /\ UNCHANGED <<running_task, returning_tasks, spare_workers, inbox, last_free_capability>>

(* The parent in forkProcess releases every Capability, also its own.      *)
forked(k) == task[k].sync = "other"

(* mutant: one Capability too few is released *)
ReleaseAllButLast(k) ==
    /\ pc(k) = "releaseAll"
    /\ LET i == task[k].i
       IN  \/ /\ i = NCaps - 1
              /\ task' = [task EXCEPT ![k].cap = task[k].at, ![k].pc = AfterSync(k)]
              /\ UNCHANGED <<running_task, last_free_capability>>
           \/ /\ i < NCaps - 1 /\ i = task[k].at /\ ~forked(k)
              /\ task' = [task EXCEPT ![k].i = i + 1]
              /\ UNCHANGED <<running_task, last_free_capability>>
           \/ /\ i < NCaps - 1 /\ (i # task[k].at \/ forked(k))
              /\ Release(i, FALSE, [task EXCEPT ![k].cap = IF forked(k) THEN @ ELSE i, ![k].i = i + 1])
    /\ UNCHANGED <<returning_tasks, spare_workers, run_queue, inbox, pending_sync, tso>>

(* mutant: task->cap is not reset at the end *)
ReleaseAllKeepsCap(k) ==
    /\ pc(k) = "releaseAll"
    /\ LET i == task[k].i
       IN  \/ /\ i = NCaps
              /\ task' = [task EXCEPT ![k].pc = AfterSync(k)]
              /\ UNCHANGED <<running_task, last_free_capability>>
           \/ /\ i < NCaps /\ i = task[k].at /\ ~forked(k)
              /\ task' = [task EXCEPT ![k].i = i + 1]
              /\ UNCHANGED <<running_task, last_free_capability>>
           \/ /\ i < NCaps /\ (i # task[k].at \/ forked(k))
              /\ Release(i, FALSE, [task EXCEPT ![k].cap = IF forked(k) THEN @ ELSE i, ![k].i = i + 1])
    /\ UNCHANGED <<returning_tasks, spare_workers, run_queue, inbox, pending_sync, tso>>

(* releaseAllCapabilities keeps the Capability of k; after a fork, the     *)
(* parent gives them all back.                                             *)
ReleaseAll(k) ==
    /\ pc(k) = "releaseAll"
    /\ LET i == task[k].i
       IN  \/ /\ i = NCaps
              /\ task' = [task EXCEPT ![k].cap = task[k].at, ![k].pc = AfterSync(k)]
              /\ UNCHANGED <<running_task, last_free_capability>>
           \/ /\ i < NCaps /\ i = task[k].at /\ ~forked(k)
              /\ task' = [task EXCEPT ![k].i = i + 1]
              /\ UNCHANGED <<running_task, last_free_capability>>
           \/ /\ i < NCaps /\ (i # task[k].at \/ forked(k))
              /\ Release(i, FALSE, [task EXCEPT ![k].cap = IF forked(k) THEN @ ELSE i, ![k].i = i + 1])
    /\ UNCHANGED <<returning_tasks, spare_workers, run_queue, inbox, pending_sync, tso>>

-----------------------------------------------------------------------------
(* Shutting down: hs_exit, exitScheduler, shutdownCapability *)

(* schedule() in the state SCHED_INTERRUPTING: the final GC. *)
FinalGC(k) ==
    /\ pc(k) = "schedule" /\ sched_state = "interrupting"
    /\ task' = [task EXCEPT ![k].pc = "doGC", ![k].sync = "final"]
    /\ UNCHANGED <<capVars, last_free_capability, pending_sync, sched_state, tso>>

(* "either some other Capability did the final GC, or we did it above" *)
FallThrough(k) ==
    /\ pc(k) = "interrupted"
    /\ Goto(k, "schedule")
    /\ UNCHANGED <<capVars, last_free_capability, pending_sync, sched_state, tso>>

(* The end of scheduleWorker. *)
WorkerQuit(k) ==
    /\ pc(k) = "schedule" /\ sched_state = "shutting" /\ Interrupted(k)
    /\ Release(task[k].at, FALSE, [task EXCEPT ![k].pc = "stopped", ![k].cap = Null])
    /\ UNCHANGED <<returning_tasks, spare_workers, run_queue, inbox, pending_sync, sched_state, tso>>

(* hs_exit, which does its work once.  The threads have been killed before *)
(* if the heap overflowed.  (The unlocked test of sched_state and the      *)
(* assignment that follows are one step.)                                  *)
exitScheduler(e) ==
    /\ e \in Exiter /\ e \in scenario.callers /\ NoExit
    /\ \/ /\ sched_state # "shutting"
          /\ sched_state' = "interrupting"
          /\ \E c \in LastCap :
               task' = [task EXCEPT ![e].pc = "return", ![e].cap = c, ![e].on = c,
                                    ![e].then = "doGC", ![e].sync = "gc"]
       \/ /\ sched_state = "shutting"
          /\ Goto(e, "exitSet")
          /\ UNCHANGED sched_state
    /\ UNCHANGED <<capVars, last_free_capability, pending_sync, tso>>

ExitRelease(e) ==
    /\ pc(e) = "exitRelease"
    /\ Release(task[e].at, FALSE, [task EXCEPT ![e].pc = "exitSet", ![e].at = Null])
    /\ UNCHANGED <<returning_tasks, spare_workers, run_queue, inbox, pending_sync, sched_state, tso>>

ExitSet(e) ==
    /\ pc(e) = "exitSet"
    /\ sched_state' = "shutting"
    /\ task' = [task EXCEPT ![e].pc = "shut", ![e].i = 0]
    /\ UNCHANGED <<capVars, last_free_capability, pending_sync, tso>>

(* suspended_ccalls *)
InForeignCall(k, c) ==
    /\ task[k].at = c
    /\ pc(k) = "ccall" \/ (task[k].then = "resume" /\ pc(k) \in {"return", "returnSleep", "returnCheck"})

(* mutant: a Capability with calls in progress is taken *)
MayTakeAny(c) == TRUE

(* "If 'safe', then busy-wait for any threads currently doing foreign      *)
(* calls."                                                                 *)
MayTake(c) == scenario.wait => \A k \in Task : ~InForeignCall(k, c)

(* One turn of the loop of shutdownCapability, unless it changes nothing:  *)
(* somebody owns the Capability, or is in a foreign call.                  *)
shutdownCapability(e) ==
    /\ pc(e) = "shut" /\ task[e].i < NCaps
    /\ LET c == task[e].i
       IN  /\ running_task[c] = Null
           /\ \/ /\ run_queue[c] # <<>> \/ spare_workers[c] # <<>>
                 /\ Release(c, FALSE, [task EXCEPT ![e].cap = c])
              \/ /\ run_queue[c] = <<>> /\ spare_workers[c] = <<>> /\ MayTake(c)
                 /\ running_task' = [running_task EXCEPT ![c] = e]
                 /\ task' = [task EXCEPT ![e].cap = c, ![e].i = c + 1]
                 /\ UNCHANGED last_free_capability
    /\ UNCHANGED <<returning_tasks, spare_workers, run_queue, inbox, pending_sync, sched_state, tso>>

(* freeScheduler: the Capabilities are freed if no Task is left. *)
freeScheduler(e) ==
    /\ pc(e) = "shut" /\ task[e].i = NCaps
    /\ Goto(e, IF \A k \in Task \ {e} : pc(k) \in {"none", "stopped", "done"} THEN "freed" ELSE "exited")
    /\ UNCHANGED <<capVars, last_free_capability, pending_sync, sched_state, tso>>

-----------------------------------------------------------------------------
Run(k) ==
    \/ RunPreempted(k) \/ RunHeapOverflow(k) \/ RunBlock(k) \/ RunCCall(k) \/ RunFinish(k)
    \/ \E t \in TSO : RunWake(k, t) \/ RunFork(k, t) \/ \E d \in Cap : RunForkOn(k, t, d)

(* The steps a Task takes by itself. *)
RunStep(k) ==
    \/ ReturnLock(k) \/ Awake(k) \/ ReturnCheck(k)
    \/ YieldRelease(k) \/ YieldCheck(k) \/ WorkerExit(k)
    \/ Bind(k) \/ ProcessInbox(k) \/ scheduleDoGC(k) \/ PushWork(k) \/ PushGrab(k) \/ PushDrop(k)
    \/ PushShare(k) \/ PushRelease(k) \/ Yield(k) \/ PickThread(k)
    \/ Run(k) \/ Resume(k) \/ Unlock(k)
    \/ RequestSync(k) \/ SyncWait(k) \/ AcquireAll(k) \/ ReleaseAll(k)

StateStep(k) ==
    \/ Synced(k) \/ FinalGC(k) \/ FallThrough(k) \/ WorkerQuit(k)
    \/ ExitRelease(k) \/ ExitSet(k) \/ shutdownCapability(k) \/ freeScheduler(k)

Step(k) ==
    /\ \/ RunStep(k) /\ UNCHANGED sched_state
       \/ StateStep(k)
    /\ UNCHANGED scenario

(* What happens to a Task. *)
Event(k) ==
    /\ \/ ReturnFromC(k) /\ UNCHANGED sched_state
       \/ SkipInbox(k) /\ UNCHANGED sched_state
       \/ InboxGC(k) /\ UNCHANGED sched_state
       \/ (\E type \in {"none", "gc", "other"} : CallIn(k, type)) /\ UNCHANGED sched_state
       \/ exitScheduler(k)
    /\ UNCHANGED scenario

Next == \E k \in Task :
    Step(k) \/ Event(k) \/ (SpuriousWakeup(k) /\ UNCHANGED <<sched_state, scenario>>)

Spec == Init /\ [][Next]_vars

(* Every Task that can go on does so; cap->lock is held for short times    *)
(* only, so that TRY_ACQUIRE_LOCK succeeds in the end; C calls return,     *)
(* except where hs_exit is told not to wait for them.                      *)
(* Nobody has to call in, and no Task is woken up for nothing.             *)
FairNext == \E k \in Task : Step(k) \/ Event(k)
FairSpec ==
    /\ Init /\ [][FairNext]_vars
    /\ \A k \in Task : WF_vars(Step(k))
    /\ \A k \in Worker \cup InCall :
         /\ SF_vars(ProcessInbox(k) /\ UNCHANGED <<sched_state, scenario>>)
         /\ WF_vars(scenario.wait /\ ReturnFromC(k) /\ UNCHANGED <<sched_state, scenario>>)
-----------------------------------------------------------------------------
Place == {"none", "return", "returnSleep", "returnCheck", "bind", "schedule", "push", "grab",
          "drop", "share", "relShared", "yield", "yielded", "release", "sleep", "check", "pick",
          "running", "ccall", "resume", "unlock", "requestSync", "syncWait", "acquire",
          "synced", "releaseAll", "stopped", "done", "interrupted", "doGC", "inbox", "stray",
          "exitRelease", "exitSet", "shut", "freed", "exited"}

(* Every variable has values of its type. *)
TypeOK ==
    /\ running_task \in [Cap -> Task \cup {Null}]
    /\ returning_tasks \in [Cap -> Seq(Task)]
    /\ spare_workers \in [Cap -> Seq(Task)]
    /\ run_queue \in [Cap -> Seq(TSO)]
    /\ inbox \in [Cap -> Seq(TSO)]
    /\ last_free_capability \in Cap
    /\ pending_sync \in {"none", "gc", "other"}
    /\ task \in [Task -> [pc : Place, cap : Cap \cup {Null}, wakeup : BOOLEAN,
                          at : Cap \cup {Null}, on : Cap \cup {Null}, then : Place,
                          i : 0..NCaps, held : Seq(Cap), cur : TSO \cup {Null},
                          sync : {"none", "gc", "final", "inbox", "other"}, prev : {"none", "gc", "other"},
                          old : Cap \cup {Null}]]
    /\ sched_state \in {"running", "interrupting", "shutting"}
    /\ scenario \in Scenarios
    /\ tso \in [TSO -> [st : {"new", "migrating", "runnable", "running", "blocked", "ccall",
                             "finished"},
                       cap : Cap \cup {Null}, locked : BOOLEAN, ops : 0..scenario.maxOps]]

(* The Capabilities that k must own, from where it is in the code. *)
Owned(k) ==
    LET r == task[k]
        waiting == r.pc \in {"return", "returnSleep", "returnCheck"}
        idle == r.pc \in {"none", "sleep", "check", "ccall", "stopped", "done", "exitSet"}
    IN  IF idle \/ (waiting /\ r.then # "acquire") THEN {}
        ELSE IF r.pc \in {"shut", "freed", "exited"} THEN 0..r.i - 1
        ELSE IF r.pc = "stray" THEN {r.old}
        ELSE (IF r.pc = "releaseAll" /\ r.sync = "other" THEN {} ELSE {r.at})
             \cup (IF r.pc \in {"grab", "drop", "share", "relShared"} THEN ToSet(r.held) ELSE {})
             \cup (IF r.pc = "drop" THEN {r.i} ELSE {})
             \cup (IF r.pc = "acquire" THEN 0..r.i - 1 ELSE {})
             \cup (IF waiting THEN 0..r.i - 2 ELSE {})
             \cup (IF r.pc = "synced" THEN Cap ELSE {})
             \cup (IF r.pc = "releaseAll" THEN r.i..NCaps - 1 ELSE {})

(* k has lost the Capability it works on: scheduleProcessInbox dropped the *)
(* one that scheduleDoGC returned.                                         *)
Astray(k) == pc(k) = "stray"

(* A Capability belongs to the Task that thinks it owns it, and to no      *)
(* other: grabbing, passing on, waking and starting Tasks never give one   *)
(* Capability to two Tasks, nor leave one owned by a Task that is asleep.  *)
(* And a Task in the scheduler loop owns the Capability its thread would   *)
(* be moved to, even if it was moved while the Task woke up (Note          *)
(* [migrated bound threads]).  ASSERT_FULL_CAPABILITY_INVARIANTS, for      *)
(* every Task at every line, except one that went astray in                *)
(* scheduleProcessInbox: it owns another Capability than it thinks.  This  *)
(* can only happen to a bound Task: a worker keeps its Capability.         *)
Ownership ==
    /\ TypeOK
    /\ \A c \in Cap, k \in Task : ~Astray(k) => (running_task[c] = k <=> c \in Owned(k))
    /\ \A k \in Task :
         pc(k) \in {"bind", "schedule", "inbox", "push", "yield", "yielded", "release", "pick", "running",
                   "resume", "unlock", "doGC", "requestSync", "syncWait", "synced"}
           => task[k].cap = task[k].at
    /\ \A k \in Task : Astray(k) => isBoundTask(k)

(* Without the exception, which TLC refutes (scenario Strays).             *)
NeverAstray == \A k \in Task : ~Astray(k)

(* k is on its way to Capability c: it has been told, or is about to look. *)
Coming(k, c) ==
    /\ task[k].cap = c
    /\ \/ pc(k) \in {"sleep", "returnSleep"} /\ task[k].wakeup
       \/ pc(k) \in {"check", "returnCheck"} /\ (task[k].on = c \/ task[k].wakeup)

(* No lost wake-up: a Capability that is free while somebody waits to      *)
(* return to it, or while it has threads or messages, has been handed to   *)
(* a Task that is awake or will be: the first of the returning Tasks, else *)
(* the Task of the first thread if that is bound, else the first spare     *)
(* worker.  During a synchronisation only returning Tasks count, during    *)
(* the shutdown messages do not.                                           *)
HandedOver ==
    \A c \in Cap : running_task[c] = Null =>
        /\ returning_tasks[c] # <<>> => Coming(Head(returning_tasks[c]), c)
        /\ returning_tasks[c] = <<>> /\ pending_sync = "none"
              /\ (run_queue[c] # <<>> \/ (inbox[c] # <<>> /\ sched_state # "shutting"))
           => IF run_queue[c] # <<>> /\ bound(Head(run_queue[c])) # Null
                THEN Coming(bound(Head(run_queue[c])), c)
                ELSE spare_workers[c] # <<>> /\ Coming(Head(spare_workers[c]), c)

Count(q, e) == Cardinality({j \in DOMAIN q : q[j] = e})

(* Every Task asleep is where those who should wake it will look, once:    *)
(* in the queue of the Capability in its own task->cap, from where it      *)
(* removes itself only when it gets that Capability.                       *)
SleepersQueued ==
    \A k \in Task, c \in Cap :
        /\ Count(returning_tasks[c], k) =
             IF pc(k) \in {"returnSleep", "returnCheck"} /\ task[k].cap = c THEN 1 ELSE 0
        /\ Count(spare_workers[c], k) =
             IF pc(k) \in {"sleep", "check"} /\ ~isBoundTask(k) /\ task[k].cap = c THEN 1 ELSE 0

(* A Haskell thread is in one place: on the run queue of its Capability,   *)
(* run by one Task, or waiting with at most one message for it in the      *)
(* inbox of its Capability.  A bound thread is run by its own Task only,   *)
(* and its Task waits for the Capability the thread is queued on, however  *)
(* often the thread has been pushed to another one meanwhile.              *)
ThreadsPlaced ==
    \A t \in TSO :
        LET r == tso[t]
            runners == {k \in Task : task[k].cur = t}
        IN  /\ \A c \in Cap :
                 /\ Count(run_queue[c], t) = IF r.st = "runnable" /\ r.cap = c THEN 1 ELSE 0
                 /\ Count(inbox[c], t) > 0
                      => (r.st \in {"blocked", "migrating"} /\ r.cap = c) \/ sched_state = "shutting"
                 /\ Count(inbox[c], t) <= 1
            /\ r.st = "migrating" => Count(inbox[r.cap], t) = 1
            /\ Cardinality(runners) = IF r.st \in {"running", "ccall"} THEN 1 ELSE 0
            /\ \A k \in runners :
                 /\ isBoundTask(k) \/ bound(t) # Null => k = t
                 /\ task[k].at = r.cap
                 /\ r.st = "running" => running_task[r.cap] = k /\ task[k].cap = r.cap
            /\ t \in InCall /\ r.st = "runnable" /\ pc(t) \in {"sleep", "check"}
                 => task[t].cap = r.cap

(* Every Task and every thread is to be found where those who wake or run  *)
(* it look, and nowhere else.                                              *)
Placed == SleepersQueued /\ ThreadsPlaced

(* The assertion of schedule(): after scheduleDoGC in the state            *)
(* SCHED_INTERRUPTING somebody has done the final GC, whoever asked for a  *)
(* GC or a fork at the same time; and so has when exitScheduler goes on.   *)
FinalGCDone == \A k \in Task : pc(k) \in {"interrupted", "exitRelease"} => sched_state = "shutting"

(* "we now have the Capability, its run queue and spare workers list are   *)
(* both empty", and nobody puts anything there later; with wait_foreign no *)
(* thread will come back to it from C; and Capabilities that were freed    *)
(* are not used by anybody.                                                *)
Drained ==
    \A e \in Exiter : pc(e) \in {"shut", "freed", "exited"} =>
        /\ \A c \in 0..task[e].i - 1 :
             /\ running_task[c] = e /\ run_queue[c] = <<>> /\ spare_workers[c] = <<>>
             /\ scenario.wait => \A k \in Task : ~InForeignCall(k, c)
        /\ pc(e) = "freed" => \A k \in Task \ {e} : pc(k) \in {"none", "stopped", "done"}

(* hs_exit with any other Task in any state: the final GC is done once,    *)
(* and no Capability is freed that somebody may still use.                 *)
ShutDown == FinalGCDone /\ Drained

(* A thread that can run does, even when every Task that could run it is   *)
(* asleep, bound elsewhere or in C when it becomes runnable, and so does   *)
(* one for which a message was sent to the inbox of another Capability     *)
(* (sendMessage, scheduleProcessInbox).                                    *)
RunnableRuns ==
    \A t \in TSO : (tso[t].st = "runnable" \/ \E c \in Cap : Contains(inbox[c], t))
                   ~> tso[t].st \notin {"runnable", "blocked", "migrating"}

(* A Task that comes back from C, or calls in, gets a Capability           *)
(* (waitForReturnCapability), unless the run-time system is shut down.     *)
ReturnersEnter ==
    \A k \in InCall : pc(k) = "return" ~> pc(k) = task[k].then \/ sched_state = "shutting"

(* The Task of a performGC, forkProcess or hs_exit that yields to the      *)
(* request of another is taken for a worker (!isBoundTask): with           *)
(* MAX_SPARE_WORKERS others there its OS thread is ended, and else nobody  *)
(* need wake it up after that request, when the Capability is released     *)
(* with nothing to do.                                                     *)
TakenForWorker(k) ==
    pc(k) = "stopped" \/ (pc(k) = "sleep" /\ ~task[k].wakeup /\ pending_sync = "none")

(* performGC and forkProcess return: a Task that asks for a                *)
(* synchronisation (requestSync), or yields to another's, is served,       *)
(* unless it has been taken for a worker.                                  *)
SyncReturns == \A k \in Syncer : pc(k) = "requestSync" ~> pc(k) = "done" \/ TakenForWorker(k)

(* "eventually all Capabilities will shut down, and the RTS can exit": a   *)
(* call of hs_exit returns, also when foreign calls do not, if it is told  *)
(* not to wait for them.                                                   *)
ExitReturns == \A e \in Exiter : pc(e) = "doGC" ~> pc(e) \in {"freed", "exited"}

(* What ExitReturns leaves out: a thread that came back from C after the   *)
(* final GC and has blocked keeps its Task in schedule(), for ever.        *)
Lingers(k) == sched_state = "shutting" /\ tso[k].st = "blocked" /\ running_task[tso[k].cap] = k

(* A call of hs_exit returns, except with such a thread, or if its Task    *)
(* has been taken for a worker.                                            *)
ExitServed ==
    \A e \in Exiter : pc(e) = "doGC" ~>
        \/ pc(e) \in {"freed", "exited"}
        \/ TakenForWorker(e)
        \/ \E k \in InCall : Lingers(k)

(* Calls that take or synchronise Capabilities return, with the exceptions *)
(* named in SyncReturns and ExitServed.                                    *)
CallsReturn == ReturnersEnter /\ SyncReturns /\ ExitServed
=============================================================================
