------------------------------ MODULE AsyncIO ------------------------------
(***************************************************************************)
(* Asynchronous I/O of the non-threaded run-time system on Windows: the    *)
(* work queue (win32/WorkQueue.c), the pool of worker threads              *)
(* (win32/IOManager.c), the table of completed requests and the scheduler  *)
(* that waits for it (win32/AsyncIO.c, win32/AwaitEvent.c), and console    *)
(* events (win32/ConsoleHandler.c).                                        *)
(*                                                                         *)
(* One OS thread runs Haskell; a request is identified by its requestID.   *)
(* What happens under one critical section is one step.  Windows runs      *)
(* generic_handler in an OS thread of its own, unsynchronised with the     *)
(* scheduler; the model runs one at a time.                                *)
(***************************************************************************)
EXTENDS Integers, Sequences, FiniteSets

CONSTANTS
    HsThreads,         \* Haskell threads
    Workers,           \* the worker threads the OS can create; _beginthreadex fails when all exist
    WORKQUEUE_SIZE,    \* slots of the work queue
    MAX_REQUESTS,      \* slots of the table of completed requests
    N_PENDING_EVENTS,  \* slots of the buffer of console events
    Limits             \* bounds: <<requests, console events>> of a behaviour

VARIABLES
    mpc,         \* where the scheduler's OS thread is
    reqOf,       \* Haskell thread -> the request it is blocked on, 0 if none
    hsDone,      \* the Haskell threads that have finished
    depositing,  \* <<Haskell thread, request>> while depositWorkItem runs
    requestID,   \* the next request
    wq,          \* work queue: [items, head, tail, work, room]
    iom,         \* [queueSize, numWorkers, workersIdle, exit]
    wk,          \* worker -> [pc, req]
    active,      \* active_work_items
    abandonOp,   \* the active requests that were abandoned
    table,       \* completedTable up to completed_hw
    sema,        \* completed_table_sema
    reqEvent,    \* completed_req_event
    abEvent,     \* abandon_req_wait
    limit,       \* the bounds of this behaviour
    cons         \* console: [pending, ready, event, raised, handler: console_handler >= 0,
                 \* hooked: generic_handler is installed, deliver: deliver_event,
                 \* taken: what stg_pending_events-- has read, hpc and seen: generic_handler]

vars == <<mpc, reqOf, hsDone, depositing, requestID, wq, iom, wk, active, abandonOp, table, sema, reqEvent,
          abEvent, limit, cons>>
workerVars == <<wq, iom, wk, active, abandonOp>>
tableVars == <<table, sema, reqEvent, limit>>

NoItem == 0

NewWorkQueue ==
  [items |-> [i \in 0..(WORKQUEUE_SIZE - 1) |-> NoItem], head |-> 0, tail |-> 0, work |-> 0, room |-> WORKQUEUE_SIZE]

StartIOManager == [queueSize |-> 0, numWorkers |-> 0, workersIdle |-> 0, exit |-> FALSE]

initUserSignals ==
  [pending |-> 0, ready |-> 0, event |-> FALSE, raised |-> 0, handler |-> FALSE, hooked |-> FALSE,
   deliver |-> TRUE, taken |-> 0, hpc |-> "none", seen |-> 0]

startupAsyncIO ==
  /\ mpc = "sched" /\ reqOf = [t \in HsThreads |-> 0] /\ hsDone = {} /\ depositing = <<>> /\ requestID = 1
  /\ wq = NewWorkQueue /\ iom = StartIOManager
  /\ wk = [w \in Workers |-> [pc |-> "none", req |-> 0]]
  /\ active = {} /\ abandonOp = {} /\ table = <<>> /\ sema = MAX_REQUESTS
  /\ reqEvent = FALSE /\ abEvent = FALSE
  /\ limit \in Limits
  /\ cons = initUserSignals

Blocked == {t \in HsThreads : reqOf[t] # 0}
Ready == HsThreads \ (Blocked \cup hsDone)
RunQueueEmpty == Ready = {} /\ cons.ready = 0

-----------------------------------------------------------------------------
(* The scheduler's thread. *)

\* startSignalHandlers: nothing without a handler; else the loop, with deliver_event off, and then back.
startSignalHandlers(loop, back) ==
  IF cons.handler THEN cons' = [cons EXCEPT !.deliver = FALSE] /\ mpc' = loop
  ELSE UNCHANGED cons /\ mpc' = back

\* Where the loop goes on: the rest of the scheduler's loop, or the end of awaitEvent.
AfterLoop(loop) == IF loop = "handlers" THEN "check" ELSE "slice"

\* The loop: one thread for each pending event.  stg_pending_events-- is a read and a write.
startHandler ==
  /\ mpc \in {"handlers", "awaitHandlers"}
  /\ \/ /\ cons.taken = 0 /\ cons.pending > 0
        /\ cons' = [cons EXCEPT !.taken = cons.pending] /\ UNCHANGED mpc
     \/ /\ cons.taken > 0
        /\ cons' = [cons EXCEPT !.pending = cons.taken - 1, !.ready = @ + 1, !.taken = 0] /\ UNCHANGED mpc
     \/ /\ cons.taken = 0 /\ cons.pending = 0
        /\ cons' = [cons EXCEPT !.deliver = TRUE] /\ mpc' = AfterLoop(mpc)
  /\ UNCHANGED <<reqOf, hsDone, depositing, requestID, workerVars, tableVars, abEvent>>

\* The scheduler's loop: signal handlers first, ...
scheduleStartSignalHandlers ==
  /\ mpc = "sched"
  /\ IF cons.pending > 0 THEN startSignalHandlers("handlers", "check") ELSE UNCHANGED cons /\ mpc' = "check"
  /\ UNCHANGED <<reqOf, hsDone, depositing, requestID, workerVars, tableVars, abEvent>>

\* ... then blocked threads, then a thread that can run.
schedule ==
  /\ mpc = "check"
  /\ mpc' = CASE Blocked # {} -> "await"
              [] Blocked = {} /\ ~ RunQueueEmpty -> "slice"
              [] OTHER -> "exit"
  /\ UNCHANGED <<reqOf, hsDone, depositing, requestID, workerVars, tableVars, abEvent, cons>>

\* The threads that wait for a completed request run again; the other requests are of no interest.
Drained == [t \in HsThreads |-> IF \E i \in 1..Len(table) : table[i] = reqOf[t] THEN 0 ELSE reqOf[t]]

\* Back in awaitEvent: it serves signals, or goes on while it should wait and nothing can run.
AfterAwait(empty, back) ==
  IF cons.pending > 0 THEN startSignalHandlers("awaitHandlers", "slice")
  ELSE UNCHANGED cons /\ mpc' = IF empty THEN back ELSE "slice"

\* awaitRequests, called by awaitEvent(emptyRunQueue(cap))
awaitRequests ==
  /\ mpc = "await"
  /\ \/ /\ table = <<>> /\ RunQueueEmpty
        /\ mpc' = "waiting"
        /\ UNCHANGED <<reqOf, table, sema, reqEvent, cons>>
     \/ /\ table = <<>> /\ ~ RunQueueEmpty
        /\ AfterAwait(FALSE, "await")
        /\ UNCHANGED <<reqOf, table, sema, reqEvent>>
     \/ /\ table # <<>>
        /\ reqOf' = Drained
        /\ table' = <<>> /\ sema' = sema + Len(table) /\ reqEvent' = FALSE
        /\ AfterAwait(RunQueueEmpty /\ reqOf' = reqOf, "await")
  /\ UNCHANGED <<hsDone, depositing, requestID, workerVars, abEvent, limit>>

\* WaitForMultipleObjects on completed_req_event (manual reset) and abandon_req_wait (auto reset)
waitForRequests ==
  /\ mpc = "waiting"
  /\ \/ reqEvent /\ mpc' = "await" /\ UNCHANGED <<abEvent, cons>>
     \/ ~ reqEvent /\ abEvent /\ abEvent' = FALSE /\ AfterAwait(TRUE, "await")
  /\ UNCHANGED <<reqOf, hsDone, depositing, requestID, workerVars, tableVars>>

\* async{Read,Write,DoProc}# and delay#: addIORequest up to the first test of depositWorkItem.
Issue(t) ==
  /\ mpc = "slice" /\ t \in Ready /\ requestID <= limit[1]
  /\ depositing' = <<t, requestID>> /\ requestID' = requestID + 1
  /\ iom' = [iom EXCEPT !.queueSize = @ + 1]
  /\ mpc' = IF iom.workersIdle < iom.queueSize + 1 THEN "recheck" ELSE "submit"
  /\ UNCHANGED <<reqOf, hsDone, wq, wk, active, abandonOp, tableVars, abEvent, cons>>

NeedsWorker == iom.workersIdle < iom.queueSize

WorkersNow == iom.numWorkers

\* depositWorkItem after Sleep(0)
depositWorkItem ==
  /\ mpc = "recheck" /\ mpc' = "submit"
  /\ \/ /\ NeedsWorker
        /\ \E w \in Workers :
             /\ wk[w].pc = "none" /\ wk' = [wk EXCEPT ![w].pc = "start"]
             /\ iom' = [iom EXCEPT !.numWorkers = @ + 1]
     \/ /\ NeedsWorker /\ \A w \in Workers : wk[w].pc # "none"
        /\ UNCHANGED <<wk, iom>>
     \/ ~ NeedsWorker /\ UNCHANGED <<wk, iom>>
  /\ UNCHANGED <<reqOf, hsDone, depositing, requestID, wq, active, abandonOp, tableVars, abEvent, cons>>

HasRoom == wq.room > 0

\* The primitive operation ends: the thread is on blocked_queue, annotated with the request.
BlockOn(t, r) == reqOf' = [reqOf EXCEPT ![t] = r]

\* SubmitWork; the thread then blocks and the scheduler goes on.
SubmitWork ==
  /\ mpc = "submit" /\ HasRoom
  /\ wq' = [wq EXCEPT !.items[wq.tail] = depositing[2], !.tail = (@ + 1) % WORKQUEUE_SIZE, !.work = @ + 1,
                      !.room = @ - 1]
  /\ BlockOn(depositing[1], depositing[2])
  /\ depositing' = <<>> /\ mpc' = "sched"
  /\ UNCHANGED <<hsDone, requestID, iom, wk, active, abandonOp, tableVars, abEvent, cons>>

\* throwTo a thread that is blocked on a request: abandonWorkRequest.
Kill(t) ==
  /\ mpc = "slice" /\ ~ RunQueueEmpty /\ reqOf[t] # 0
  /\ abandonOp' = abandonOp \cup (active \cap {reqOf[t]})
  /\ reqOf' = [reqOf EXCEPT ![t] = 0]
  /\ UNCHANGED <<mpc, hsDone, depositing, requestID, wq, iom, wk, active, tableVars, abEvent, cons>>

\* A Haskell thread finishes, or gives up the rest of its time slice.
EndSlice(t) ==
  /\ mpc = "slice" /\ t \in Ready /\ mpc' = "sched"
  /\ hsDone' \in {hsDone, hsDone \cup {t}}
  /\ hsDone' = hsDone => Blocked # {}
  /\ UNCHANGED <<reqOf, depositing, requestID, workerVars, tableVars, abEvent, cons>>

\* A console handler runs to its end: rts_ConsoleHandlerDone sets the event, yields and resets it.
HandlerDone ==
  /\ mpc = "slice" /\ cons.ready > 0 /\ mpc' = "reset"
  /\ cons' = [cons EXCEPT !.ready = @ - 1, !.event = TRUE]
  /\ UNCHANGED <<reqOf, hsDone, depositing, requestID, workerVars, tableVars, abEvent>>

rts_ConsoleHandlerDone ==
  /\ mpc = "reset" /\ mpc' = "sched" /\ cons' = [cons EXCEPT !.event = FALSE]
  /\ UNCHANGED <<reqOf, hsDone, depositing, requestID, workerVars, tableVars, abEvent>>

\* rts_InstallConsoleEvent by a Haskell thread: a handler, or STG_SIG_IGN for both other actions.
\* generic_handler, once installed, stays.
rts_InstallConsoleEvent ==
  /\ mpc = "slice" /\ ~ RunQueueEmpty /\ limit[2] > 0
  /\ \/ cons' = [cons EXCEPT !.handler = TRUE, !.hooked = TRUE]
     \/ cons' = [cons EXCEPT !.handler = FALSE]
  /\ UNCHANGED <<mpc, reqOf, hsDone, depositing, requestID, workerVars, tableVars, abEvent>>

FreeWorkQueue == [wq EXCEPT !.items = [i \in DOMAIN wq.items |-> NoItem]]

\* ShutdownIOManager(rtsTrue): it waits until every worker has gone.
ShutdownIOManager ==
  \/ /\ mpc = "exit" /\ mpc' = "joining" /\ iom' = [iom EXCEPT !.exit = TRUE]
     /\ UNCHANGED <<reqOf, hsDone, depositing, requestID, wq, wk, active, abandonOp, tableVars, abEvent, cons>>
  \/ /\ mpc = "joining" /\ WorkersNow = 0 /\ mpc' = "freed"
     /\ wq' = FreeWorkQueue
     /\ UNCHANGED <<reqOf, hsDone, depositing, requestID, iom, wk, active, abandonOp, tableVars, abEvent, cons>>

-----------------------------------------------------------------------------
(* The worker threads: IOWorkerProc. *)

WorkerIs(w, pc) == wk[w].pc = pc
MainVars == <<mpc, reqOf, hsDone, depositing, requestID, abEvent>>

BecomeIdle(w) ==
  /\ WorkerIs(w, "start")
  /\ wk' = [wk EXCEPT ![w] = [pc |-> "idle", req |-> 0]]
  /\ iom' = [iom EXCEPT !.workersIdle = @ + 1]
  /\ UNCHANGED <<MainVars, wq, active, abandonOp, tableVars, cons>>

\* WaitForMultipleObjects: the exit event comes first.
Wake(w) ==
  /\ WorkerIs(w, "idle")
  /\ \/ /\ iom.exit /\ wk' = [wk EXCEPT ![w].pc = "leave"] /\ UNCHANGED wq
     \/ /\ ~ iom.exit /\ wq.work > 0
        /\ wk' = [wk EXCEPT ![w].pc = "woken"] /\ wq' = [wq EXCEPT !.work = @ - 1]
  /\ UNCHANGED <<MainVars, iom, active, abandonOp, tableVars, cons>>

Leave(w) ==
  /\ WorkerIs(w, "leave")
  /\ iom' = [iom EXCEPT !.numWorkers = @ - 1] /\ wk' = [wk EXCEPT ![w].pc = "gone"]
  /\ UNCHANGED <<MainVars, wq, active, abandonOp, tableVars, cons>>

Consume(w) ==
  /\ WorkerIs(w, "woken") /\ wk' = [wk EXCEPT ![w].pc = "fetch"]
  /\ iom' = [iom EXCEPT !.workersIdle = @ - 1, !.queueSize = @ - 1]
  /\ UNCHANGED <<MainVars, wq, active, abandonOp, tableVars, cons>>

RoomAfterFetch == wq.room + 1

FetchWork(w) ==
  /\ WorkerIs(w, "fetch")
  /\ wk' = [wk EXCEPT ![w] = [pc |-> "register", req |-> wq.items[wq.head]]]
  /\ wq' = [wq EXCEPT !.items[wq.head] = NoItem, !.head = (@ + 1) % WORKQUEUE_SIZE, !.room = RoomAfterFetch]
  /\ UNCHANGED <<MainVars, iom, active, abandonOp, tableVars, cons>>

RegisterWorkItem(w) ==
  /\ WorkerIs(w, "register") /\ wk' = [wk EXCEPT ![w].pc = "op"]
  /\ active' = active \cup {wk[w].req}
  /\ UNCHANGED <<MainVars, wq, iom, abandonOp, tableVars, cons>>

\* The system call returns.  The Ctrl+C that aborts a read is in ConsoleEvent.
Operation(w) ==
  /\ WorkerIs(w, "op")
  /\ wk' = [wk EXCEPT ![w].pc = IF wk[w].req \in abandonOp THEN "deregister" ELSE "complete"]
  /\ UNCHANGED <<MainVars, wq, iom, active, abandonOp, tableVars, cons>>

\* rts_waitConsoleHandlerCompletion: the read is retried unless it was abandoned.
Retry(w) ==
  /\ WorkerIs(w, "aborted") /\ cons.event
  /\ wk' = [wk EXCEPT ![w].pc = IF wk[w].req \in abandonOp THEN "deregister" ELSE "op"]
  /\ UNCHANGED <<MainVars, wq, iom, active, abandonOp, tableVars, cons>>

\* Mutant: the test for the first completion is made before completed_hw is incremented.
BadSignals == Len(table) = 1

Signals == Len(table) = 0

SlotFree == sema > 0

\* onIOComplete: a slot of the table, then the entry; two steps, the first may block.
TakeSlot(w) ==
  /\ WorkerIs(w, "complete") /\ SlotFree /\ sema' = sema - 1
  /\ wk' = [wk EXCEPT ![w].pc = "deposit"]
  /\ UNCHANGED <<MainVars, wq, iom, active, abandonOp, table, reqEvent, limit, cons>>

onIOComplete(w) ==
  /\ WorkerIs(w, "deposit") /\ wk' = [wk EXCEPT ![w].pc = "deregister"]
  /\ table' = IF Len(table) = MAX_REQUESTS THEN table ELSE Append(table, wk[w].req)
  /\ reqEvent' = (reqEvent \/ Signals)
  /\ UNCHANGED <<MainVars, wq, iom, active, abandonOp, sema, limit, cons>>

DeregisterWorkItem(w) ==
  /\ WorkerIs(w, "deregister")
  /\ active' = active \ {wk[w].req} /\ abandonOp' = abandonOp \ {wk[w].req}
  /\ wk' = [wk EXCEPT ![w] = [pc |-> "start", req |-> 0]]
  /\ UNCHANGED <<MainVars, wq, iom, tableVars, cons>>

\* A console event: generic_handler returns at once while deliver_event is off.  Ctrl+C aborts reads
\* of the console whatever the handler does.
ConsoleEvent ==
  /\ mpc \notin {"exit", "joining", "freed"} /\ cons.raised < limit[2] /\ cons.hooked /\ cons.hpc = "none"
  /\ cons' = [cons EXCEPT !.raised = @ + 1, !.hpc = IF cons.deliver THEN "record" ELSE "none"]
  /\ \E aborted \in SUBSET {w \in Workers : WorkerIs(w, "op")} :
       wk' = [w \in Workers |-> IF w \in aborted THEN [wk[w] EXCEPT !.pc = "aborted"] ELSE wk[w]]
  /\ UNCHANGED <<MainVars, wq, iom, active, abandonOp, tableVars>>

\* The rest of generic_handler: the event is recorded if there is room (stg_pending_events++ is a
\* read and a write), and the scheduler woken.
generic_handler ==
  /\ \/ /\ cons.hpc = "record"
        /\ cons' = IF cons.pending < N_PENDING_EVENTS
                     THEN [cons EXCEPT !.hpc = "store", !.seen = cons.pending]
                     ELSE [cons EXCEPT !.hpc = "wake"]
        /\ UNCHANGED abEvent
     \/ /\ cons.hpc = "store"
        /\ cons' = [cons EXCEPT !.hpc = "wake", !.pending = cons.seen + 1, !.seen = 0]
        /\ UNCHANGED abEvent
     \/ /\ cons.hpc = "wake"
        /\ cons' = [cons EXCEPT !.hpc = "none"] /\ abEvent' = TRUE
  /\ UNCHANGED <<mpc, reqOf, hsDone, depositing, requestID, workerVars, tableVars>>

-----------------------------------------------------------------------------
MainStep ==
  \/ scheduleStartSignalHandlers \/ startHandler \/ schedule \/ awaitRequests \/ waitForRequests \/ depositWorkItem \/ SubmitWork
  \/ HandlerDone \/ rts_ConsoleHandlerDone \/ ShutdownIOManager
  \/ \E t \in HsThreads : Issue(t) \/ EndSlice(t)

WorkerStep(w) ==
  \/ BecomeIdle(w) \/ Wake(w) \/ Leave(w) \/ Consume(w) \/ FetchWork(w) \/ RegisterWorkItem(w) \/ Operation(w)
  \/ Retry(w) \/ TakeSlot(w) \/ onIOComplete(w) \/ DeregisterWorkItem(w)

Next ==
  \/ MainStep \/ (\E t \in HsThreads : Kill(t)) \/ rts_InstallConsoleEvent
  \/ (\E w \in Workers : WorkerStep(w))
  \/ ConsoleEvent \/ generic_handler

-----------------------------------------------------------------------------
(* Properties. *)

\* The copies of a request: on its way into the queue, in the queue, with a worker, or completed.
Places(r) ==
  (IF depositing # <<>> /\ depositing[2] = r THEN 1 ELSE 0)
  + Cardinality({i \in DOMAIN wq.items : wq.items[i] = r})
  + Cardinality({w \in Workers : wk[w].req = r /\ wk[w].pc # "deregister"})
  + Cardinality({i \in 1..Len(table) : table[i] = r})

\* No request is lost or done twice on its way through the ring buffer, the workers and the
\* table, and the one that a thread waits for is there.
EachOnce ==
  /\ \A r \in 1..(requestID - 1) : Places(r) <= 1
  /\ \A t \in HsThreads : reqOf[t] # 0 => Places(reqOf[t]) = 1
  /\ \A w \in Workers : wk[w].pc \in {"register", "op", "complete", "deposit"} => wk[w].req # NoItem

\* The ring buffer hands the requests on in the order in which they were submitted.
RingInOrder ==
  LET At(i) == wq.items[(wq.head + i) % WORKQUEUE_SIZE]
  IN  \A i, j \in 0..(WORKQUEUE_SIZE - 1) : i < j /\ At(j) # NoItem => At(i) # NoItem /\ At(i) < At(j)

\* The semaphore of the completion table counts its free slots, so that the overflow that
\* onIOComplete says should not happen does not, and the event says whether there is something in it.
TableGuarded ==
  /\ sema + Len(table) + Cardinality({w \in Workers : WorkerIs(w, "deposit")}) = MAX_REQUESTS
  /\ reqEvent <=> table # <<>>

\* "This ensures that requests will be dealt with in a timely manner": as long as the OS creates
\* workers, no request waits in the queue behind a system call that blocks.
NoneLanguishes ==
  (~ iom.exit /\ \E w \in Workers : WorkerIs(w, "none")) =>
     (wq.work <= Cardinality({w \in Workers : wk[w].pc \in {"start", "idle"}}))

\* After the shutdown no worker uses the queue or the locks that were freed.
FreedLast == mpc = "freed" => \A w \in Workers : wk[w].pc \in {"none", "gone"}

\* popRunQueue with no thread in the queue.
PopsNothing == mpc = "slice" /\ RunQueueEmpty

\* The scheduler never pops an empty run queue, but for one case: generic_handler, which is never
\* taken away, recorded an event and the program has gone back to no handler, so that awaitEvent
\* returns for the event and startSignalHandlers does nothing with it.
PopsThread == PopsNothing => ~ cons.handler /\ cons.pending > 0

\* Threads are interchangeable: one speaks for all.
OneThread == CHOOSE u \in HsThreads : TRUE
Asking == reqOf[OneThread] # 0
OwnAborted == \E w \in Workers : WorkerIs(w, "aborted") /\ wk[w].req = reqOf[OneThread]
NoWorkerLeft == \A w \in Workers : WorkerIs(w, "aborted")
Replied == reqOf[OneThread] = 0 \/ OwnAborted \/ NoWorkerLeft \/ PopsNothing

\* A thread that waits for its request is resumed or thrown an exception, if system calls return:
\* nobody waits for a slot, for room or for an event for ever.  Left out are a thread whose own
\* system call Ctrl+C aborted (its worker waits for the end of a handler), the case that every worker
\* the OS can create waits like that, and a scheduler that has popped an empty run queue.
Answered == Asking ~> Replied

\* The scheduler never stays in SubmitWork: full queue, full table and busy workers give way.
SubmitReturns == (mpc = "submit") ~> (mpc # "submit")
=============================================================================
