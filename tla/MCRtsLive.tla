-------------------------------- MODULE MCRtsLive ---------------------------
(***************************************************************************)
(* Instances of the parts of the run-time system that do not share state   *)
(* in the model.  A behaviour is a behaviour of one of them, chosen at the *)
(* start; the variables of the others stay zero.                           *)
(***************************************************************************)
EXTENDS Integers, Sequences, FiniteSets

CONSTANT Parts     \* the parts that are checked

VARIABLES part,
          mpc, reqOf, hsDone, depositing, requestID, wq, iom, wk, active, abandonOp, table, sema, reqEvent, abEvent, limit, cons,
          xpc, ret, waiting, runq, blocked_q, sleeping_q, clock, deadline, fdReady, fdBad, buf, npend, masked, held, handler, osAction, n_handlers, timer, hthreads, sig, ops, early, slimit

-----------------------------------------------------------------------------
(* Asynchronous I/O on Windows. *)

IO == INSTANCE AsyncIO WITH HsThreads <- {"t1", "t2"}, Workers <- {"w1", "w2"}, WORKQUEUE_SIZE <- 2,
                            MAX_REQUESTS <- 2, N_PENDING_EVENTS <- 2, Limits <- {<<3, 0>>, <<1, 2>>}
asyncioVars == <<mpc, reqOf, hsDone, depositing, requestID, wq, iom, wk, active, abandonOp, table, sema, reqEvent, abEvent, limit, cons>>
asyncioIdle == mpc = 0 /\ reqOf = 0 /\ hsDone = 0 /\ depositing = 0 /\ requestID = 0 /\ wq = 0 /\ iom = 0
    /\ wk = 0 /\ active = 0 /\ abandonOp = 0 /\ table = 0 /\ sema = 0 /\ reqEvent = 0 /\ abEvent = 0
       /\ limit = 0 /\ cons = 0

\* No I/O request is lost or done twice.
RequestsOnce == part = "asyncio" => IO!EachOnce

\* The table of completed requests neither overflows nor goes unnoticed.
CompletionsGuarded == part = "asyncio" => IO!TableGuarded

\* No I/O request waits behind a blocked worker while workers can be created.
NoneLanguishes == part = "asyncio" => IO!NoneLanguishes

\* After the shutdown of the I/O manager no worker is left.
WorkersGone == part = "asyncio" => IO!FreedLast

\* I/O requests leave the work queue in the order in which they were submitted.
RequestsInOrder == part = "asyncio" => IO!RingInOrder

\* The scheduler pops an empty run queue only for a console event that has lost its handler.
PopsThread == part = "asyncio" => IO!PopsThread

\* A thread that waits for an I/O request does not wait for ever, but for the cases IO!Replied names.
RequestsAnswered == (part = "asyncio" /\ IO!Asking) ~> (part = "asyncio" /\ IO!Replied)

\* Submitting an I/O request does not block the scheduler for ever.
SubmitReturns == (part = "asyncio" /\ mpc = "submit") ~> (part = "asyncio" /\ mpc # "submit")

-----------------------------------------------------------------------------
(* Signals, delays and blocking I/O on POSIX systems, without -threaded. *)

PS == INSTANCE Select WITH HsThreads <- {"t1", "t2"}, Fds <- {"f1"}, Sigs <- {"s1", "s2"}, Delays <- {1, 3}, Res <- 2,
                           Word <- 8, Start <- 12, N_PENDING_HANDLERS <- 3,
                           Limits <- {<<5, 0, 2, {}>>, <<0, 2, 3, {}>>, <<3, 1, 2, {}>>, <<0, 1, 2, {"f1"}>>,
                                      <<3, 0, 2, {"f1"}>>}
selectVars == <<xpc, ret, waiting, runq, blocked_q, sleeping_q, clock, deadline, fdReady, fdBad, buf, npend, masked, held, handler, osAction, n_handlers, timer, hthreads, sig, ops, early, slimit>>
selectIdle == xpc = 0 /\ ret = 0 /\ waiting = 0 /\ runq = 0 /\ blocked_q = 0 /\ sleeping_q = 0 /\ clock = 0
    /\ deadline = 0 /\ fdReady = 0 /\ fdBad = 0 /\ buf = 0 /\ npend = 0 /\ masked = 0 /\ held = 0
       /\ handler = 0 /\ osAction = 0 /\ n_handlers = 0 /\ timer = 0 /\ hthreads = 0 /\ sig = 0 /\ ops = 0
       /\ early = 0 /\ slimit = 0

\* No signal that was caught is lost or served twice.
SignalsOnce == part = "select" => PS!SignalsOnce

\* n_haskell_handlers counts the signals with a Haskell handler.
HandlersCounted == part = "select" => PS!HandlersCounted

\* After awaitUserSignals there is a thread to run.
Undeadlocked == part = "select" => PS!Undeadlocked

\* No thread is woken before its delay is over.
NeverEarly == part = "select" => PS!NeverEarly

\* No sleeping thread waits behind one that is due later, if the clock does not wrap around in between.
SleepersSorted == part = "select" => PS!SleepersSorted

\* Haskell code runs with the timer on.
TimerOn == part = "select" => PS!TimerOn

\* A thread that sleeps wakes up.
SleepersWake == (part = "select" /\ sleeping_q # <<>>) ~> (part = "select" /\ (sleeping_q = <<>> \/ PS!Ended))

\* A thread that waits for a descriptor does not wait for ever once it is ready or closed.
ReadyServed == (part = "select" /\ PS!SomeReady) ~> (part = "select" /\ (~ PS!SomeReady \/ PS!Ended))

\* A signal that comes just before pause is served.
PausedServed == (part = "select" /\ npend > 0 /\ xpc \in {"pausing", "pause"}) ~> (part = "select" /\ (npend = 0 \/ PS!Ended))

\* A pending signal is served: refuted, see the module Select; no run checks it.
SignalsServed == (part = "select" /\ npend > 0) ~> (part = "select" /\ (npend = 0 \/ PS!Ended))

-----------------------------------------------------------------------------
(* What the runs check. *)

\* Requests, signals and delays (win32/AsyncIO.c, posix/Select.c,
\* posix/Signals.c): no request or caught signal is lost or served twice,
\* requests are done in their order, no delay ends early or out of order (but
\* where the clock wraps around between two of them), and the scheduler pops an
\* empty run queue only for a console event whose handler was removed.
IOSound ==
  /\ RequestsOnce /\ RequestsInOrder /\ CompletionsGuarded /\ NoneLanguishes
  /\ WorkersGone /\ PopsThread /\ SignalsOnce /\ HandlersCounted
  /\ Undeadlocked /\ NeverEarly /\ SleepersSorted /\ TimerOn

\* Whoever waits for a request, a delay or a descriptor is served in the end,
\* and so is a signal that comes just before pause.  Left out: a request whose
\* worker Ctrl+C aborted, or while all workers wait for the end of a handler,
\* or after an empty run queue was popped.  Not claimed: a signal that comes
\* just before select.
IOServed ==
  /\ RequestsAnswered /\ SubmitReturns /\ SleepersWake /\ ReadyServed
  /\ PausedServed

-----------------------------------------------------------------------------

Init ==
  /\ part \in Parts
  /\ IF part = "asyncio" THEN IO!startupAsyncIO ELSE asyncioIdle
  /\ IF part = "select" THEN PS!Init ELSE selectIdle

Next ==
  \/ part = "asyncio" /\ IO!Next /\ UNCHANGED <<part, selectVars>>
  \/ part = "select" /\ PS!Next /\ UNCHANGED <<part, asyncioVars>>

vars == <<part, asyncioVars, selectVars>>
Spec == Init /\ [][Next]_vars
        /\ WF_asyncioVars(part = "asyncio" /\ IO!MainStep)
        /\ \A w \in {"w1", "w2"} : WF_asyncioVars(part = "asyncio" /\ IO!WorkerStep(w))
        /\ WF_selectVars(part = "select" /\ PS!MainStep)
        /\ WF_selectVars(part = "select" /\ PS!Tick)
        /\ WF_selectVars(part = "select" /\ PS!TimerTick)
=============================================================================
