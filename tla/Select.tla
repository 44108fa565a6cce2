------------------------------- MODULE Select -------------------------------
(***************************************************************************)
(* Signals, delays and blocking I/O of the non-threaded run-time system on *)
(* POSIX systems: posix/Signals.c, posix/Select.c, the timer that is       *)
(* stopped while select waits, and the parts of the scheduler's loop that  *)
(* call them.                                                              *)
(*                                                                         *)
(* A signal handler runs between two steps of the only OS thread.  Time is *)
(* measured in clock units, of which Res make one LowResTime.              *)
(***************************************************************************)
EXTENDS Integers, Sequences, FiniteSets, SequencesExt

CONSTANTS
    HsThreads,           \* Haskell threads
    Fds,                 \* file descriptors
    Sigs,                \* signals
    Delays,              \* the delays threads ask for
    Res,                 \* clock units in one LowResTime (1 on 64-bit machines)
    Word,                \* LowResTime is taken modulo this
    Start,               \* the clock when a behaviour begins: the program may have run for a while
    N_PENDING_HANDLERS,  \* slots of pending_handler_buf
    Limits               \* bounds of a behaviour: <<clock units, signals, operations of Haskell threads,
                         \* the file descriptors that become ready or are closed>>

VARIABLES
    xpc,         \* where the OS thread is
    ret,         \* where startSignalHandlers returns to
    waiting,     \* awaitEvent's argument wait
    runq,        \* the Haskell threads that can run
    blocked_q,   \* blocked_queue: <<thread, fd>>
    sleeping_q,  \* sleeping_queue: [t, target, until], until is the time before which t must not run
    clock,
    deadline,    \* when select times out; 0: it does not
    fdReady,     \* the file descriptors that are ready
    fdBad,       \* the file descriptors that were closed
    buf, npend,  \* pending_handler_buf and next_pending_handler
    masked, held,\* whether user signals are blocked, and the signals the OS holds back
    handler,     \* signal_handlers
    osAction,    \* what the OS does with a signal
    n_handlers,  \* n_haskell_handlers
    timer,       \* timer_disabled
    hthreads,    \* signals whose handler thread has been made and not run
    sig,         \* [sent, caught, started, dropped]
    ops,         \* operations of Haskell threads so far
    early,       \* whether a thread was woken too early
    slimit       \* the bounds of this behaviour

vars == <<xpc, ret, waiting, runq, blocked_q, sleeping_q, clock, deadline, fdReady, fdBad, buf, npend, masked, held,
          handler, osAction, n_handlers, timer, hthreads, sig, ops, early, slimit>>
queueVars == <<runq, blocked_q, sleeping_q>>
osVars == <<clock, fdReady, fdBad, slimit>>
sigVars == <<buf, npend, masked, held, handler, osAction, n_handlers, hthreads, sig>>

User == {"HAN", "RST"}

Init ==
  /\ xpc = "sched" /\ ret = "sched" /\ waiting = FALSE
  /\ runq = HsThreads /\ blocked_q = <<>> /\ sleeping_q = <<>> /\ clock = Start /\ deadline = 0
  /\ fdReady = {} /\ fdBad = {} /\ buf = <<>> /\ npend = 0 /\ masked = FALSE /\ held = {}
  /\ handler = [s \in Sigs |-> "DFL"] /\ osAction = handler /\ n_handlers = 0 /\ timer = 0
  /\ hthreads = 0 /\ sig = [sent |-> 0, caught |-> 0, started |-> 0, dropped |-> 0] /\ ops = 0 /\ early = FALSE
  /\ slimit \in Limits

RunQueueEmpty == runq = {} /\ hthreads = 0

-----------------------------------------------------------------------------
(* The OS. *)

\* generic_handler: the signal goes on the stack of pending handlers.
Catch(s) ==
  /\ buf' = [i \in 1..(IF npend + 1 > Len(buf) THEN npend + 1 ELSE Len(buf)) |-> IF i = npend + 1 THEN s ELSE buf[i]]
  /\ npend' = npend + 1
  /\ osAction' = [osAction EXCEPT ![s] = IF @ = "RST" THEN "DFL" ELSE @]
  /\ xpc' = CASE npend + 1 = N_PENDING_HANDLERS -> "died"      \* too many pending signals
              [] npend + 1 # N_PENDING_HANDLERS /\ xpc = "inselect" -> "eintr"
              [] npend + 1 # N_PENDING_HANDLERS /\ xpc = "pause" -> "awaitsig"
              [] OTHER -> xpc

Signal(s) ==
  /\ xpc \notin {"died", "exit"} /\ sig.sent < slimit[2] /\ osAction[s] \in User
  /\ \/ /\ masked /\ s \notin held /\ held' = held \cup {s}
        /\ sig' = [sig EXCEPT !.sent = @ + 1, !.caught = @ + 1]
        /\ UNCHANGED <<buf, npend, osAction, xpc>>
     \/ /\ ~ masked /\ Catch(s) /\ UNCHANGED held
        /\ sig' = [sig EXCEPT !.sent = @ + 1, !.caught = @ + 1]
  /\ UNCHANGED <<ret, waiting, queueVars, osVars, deadline, masked, handler, n_handlers, timer, hthreads, ops, early>>

Tick ==
  /\ clock < Start + slimit[1] /\ clock' = clock + 1
  /\ UNCHANGED <<xpc, ret, waiting, queueVars, deadline, fdReady, fdBad, slimit, sigVars, timer, ops, early>>

FdChange(f) ==
  /\ f \in slimit[4]
  /\ \/ f \notin fdReady /\ fdReady' = fdReady \cup {f} /\ UNCHANGED fdBad
     \/ f \notin fdBad /\ fdBad' = fdBad \cup {f} /\ UNCHANGED fdReady
  /\ UNCHANGED <<xpc, ret, waiting, queueVars, clock, slimit, deadline, sigVars, timer, ops, early>>

-----------------------------------------------------------------------------
(* startSignalHandlers *)

\* Whether schedule() starts handlers.
signals_pending == npend > 0

schedule ==
  /\ xpc = "sched"
  /\ IF signals_pending THEN xpc' = "start" /\ ret' = "blocked" ELSE xpc' = "blocked" /\ UNCHANGED ret
  /\ UNCHANGED <<waiting, queueVars, osVars, deadline, sigVars, timer, ops, early>>

blockUserSignals ==
  /\ xpc = "start" /\ xpc' = "pop" /\ masked' = TRUE
  /\ UNCHANGED <<ret, waiting, queueVars, osVars, deadline, buf, npend, held, handler, osAction, n_handlers, timer,
                 hthreads, sig, ops, early>>

Pop ==
  /\ xpc = "pop" /\ npend > 0 /\ npend' = npend - 1 /\ xpc' = "read"
  /\ UNCHANGED <<ret, waiting, queueVars, osVars, deadline, buf, masked, held, handler, osAction, n_handlers, timer,
                 hthreads, sig, ops, early>>

\* The signal that was popped gets a thread, unless its handler was removed meanwhile.
startSignalHandlers ==
  /\ xpc = "read" /\ xpc' = "pop"
  /\ IF handler[buf[npend + 1]] = "DFL"
     THEN sig' = [sig EXCEPT !.dropped = @ + 1] /\ UNCHANGED hthreads
     ELSE sig' = [sig EXCEPT !.started = @ + 1] /\ hthreads' = hthreads + 1
  /\ UNCHANGED <<ret, waiting, queueVars, osVars, deadline, buf, npend, masked, held, handler, osAction, n_handlers,
                 timer, ops, early>>

\* Mutant: the stack is reset after the signals have been unblocked.
BadPendingAfter == 0

\* next_pending_handler after sigprocmask: the loop has emptied the stack, then the OS delivers.
PendingAfter == Cardinality(held)

\* The signals that the OS held back are delivered, one after the other.
unblockUserSignals ==
  /\ xpc = "pop" /\ npend = 0
  /\ masked' = FALSE /\ held' = {} /\ xpc' = ret
  /\ buf' = SetToSeq(held) /\ npend' = PendingAfter
  /\ osAction' = [s \in Sigs |-> IF s \in held /\ osAction[s] = "RST" THEN "DFL" ELSE osAction[s]]
  /\ UNCHANGED <<ret, waiting, queueVars, osVars, deadline, handler, n_handlers, timer, hthreads, sig, ops, early>>

-----------------------------------------------------------------------------
(* awaitEvent *)

Now == (clock \div Res) % Word
Negative(d) == d % Word >= Word \div 2

\* The threads at the head of the sleeping queue whose time has come.
Expired == {i \in 1..Len(sleeping_q) : \A j \in 1..i : ~ Negative(Now - sleeping_q[j].target)}

wakeUpSleepingThreads ==
  /\ sleeping_q' = SubSeq(sleeping_q, Cardinality(Expired) + 1, Len(sleeping_q))
  /\ runq' = runq \cup {sleeping_q[i].t : i \in Expired}
  /\ early' = (early \/ \E i \in Expired : sleeping_q[i].until > clock)

\* scheduleCheckBlockedThreads
scheduleCheckBlockedThreads ==
  /\ xpc = "blocked"
  /\ IF blocked_q # <<>> \/ sleeping_q # <<>> THEN xpc' = "await" /\ waiting' = RunQueueEmpty
     ELSE /\ xpc' = IF RunQueueEmpty THEN "deadlock" ELSE "slice"
          /\ UNCHANGED waiting
  /\ UNCHANGED <<ret, queueVars, osVars, deadline, sigVars, timer, ops, early>>

\* When select times out: at once, when the first sleeper is due, or never.
Timeout ==
  CASE ~ waiting -> clock
    [] waiting /\ sleeping_q # <<>> -> clock + ((sleeping_q[1].target - Now) % Word) * Res
    [] OTHER -> 0

\* The head of the loop: threads whose delay is over, or the descriptors and the time out of select.
awaitEvent ==
  /\ xpc = "await"
  /\ wakeUpSleepingThreads
  /\ IF Expired # {} THEN xpc' = "slice" /\ UNCHANGED <<deadline, timer>>
     ELSE /\ xpc' = "select" /\ timer' = IF waiting THEN timer + 1 ELSE timer
          /\ deadline' = Timeout
  /\ UNCHANGED <<ret, waiting, blocked_q, osVars, sigVars, ops>>

EnterSelect ==
  /\ xpc = "select" /\ xpc' = "inselect"
  /\ UNCHANGED <<ret, waiting, queueVars, osVars, deadline, sigVars, timer, ops, early>>

\* The threads that select unblocks: those whose descriptor is ready, all if one is bad.
Unblocked ==
  SelectSeq(blocked_q, LAMBDA e : e[2] \in fdReady \/ \E i \in 1..Len(blocked_q) : blocked_q[i][2] \in fdBad)

SelectReturns ==
  \/ \E i \in 1..Len(blocked_q) : blocked_q[i][2] \in fdReady \cup fdBad
  \/ deadline # 0 /\ clock >= deadline
  \/ ~ waiting

StartTimer == timer' = IF waiting THEN timer - 1 ELSE timer

\* Back in the scheduler, or round the loop once more while there is nothing to run.
select ==
  /\ xpc = "inselect" /\ SelectReturns /\ StartTimer
  /\ \E woken \in {Unblocked} :
       /\ blocked_q' = SelectSeq(blocked_q, LAMBDA e : ~ Contains(woken, e))
       /\ runq' = runq \cup {woken[i][1] : i \in 1..Len(woken)}
       /\ xpc' = IF waiting /\ RunQueueEmpty /\ woken = <<>> THEN "await" ELSE "slice"
  /\ UNCHANGED <<ret, waiting, sleeping_q, osVars, deadline, sigVars, ops, early>>

\* select was interrupted: start handlers straight away, or wake sleepers, or select again.
Interrupted ==
  /\ xpc = "eintr"
  /\ \/ /\ npend > 0 /\ xpc' = "start" /\ ret' = "slice" /\ StartTimer
        /\ UNCHANGED <<runq, sleeping_q, early>>
     \/ /\ npend = 0 /\ wakeUpSleepingThreads /\ UNCHANGED ret
        /\ IF Expired # {} \/ ~ RunQueueEmpty THEN xpc' = "slice" /\ StartTimer
           ELSE xpc' = "select" /\ UNCHANGED timer
  /\ UNCHANGED <<waiting, blocked_q, osVars, deadline, sigVars, ops>>

\* The timer's signal, when it is not stopped, interrupts select and pause.
TimerTick ==
  /\ timer = 0 /\ xpc \in {"inselect", "pause"}
  /\ xpc' = IF xpc = "inselect" THEN "eintr" ELSE "awaitsig"
  /\ UNCHANGED <<ret, waiting, queueVars, osVars, deadline, sigVars, timer, ops, early>>

\* The threads that wait for something that is not I/O, or have finished.
Stopped ==
  HsThreads \ (runq \cup {sleeping_q[i].t : i \in 1..Len(sleeping_q)} \cup {blocked_q[i][1] : i \in 1..Len(blocked_q)})

\* scheduleDetectDeadlock: the forced collection may release threads (resurrected ones, finalizers);
\* if not and handlers are installed, wait for a signal.
scheduleDetectDeadlock ==
  /\ xpc = "deadlock"
  /\ \E released \in SUBSET Stopped :
       /\ runq' = runq \cup released
       /\ xpc' = CASE released # {} -> "slice"
                   [] released = {} /\ n_handlers # 0 -> "awaitsig"
                   [] OTHER -> "exit"
  /\ UNCHANGED <<ret, waiting, blocked_q, sleeping_q, osVars, deadline, sigVars, timer, ops, early>>

\* awaitUserSignals: the test of signals_pending and pause are two steps.
awaitUserSignals ==
  /\ \/ xpc = "awaitsig" /\ npend = 0 /\ xpc' = "pausing" /\ UNCHANGED ret
     \/ xpc = "pausing" /\ xpc' = "pause" /\ UNCHANGED ret
     \/ xpc = "awaitsig" /\ npend > 0 /\ xpc' = "start" /\ ret' = "undeadlocked"
  /\ UNCHANGED <<waiting, queueVars, osVars, deadline, sigVars, timer, ops, early>>

\* The assertion after awaitUserSignals is Undeadlocked below.
Undeadlock ==
  /\ xpc = "undeadlocked" /\ xpc' = "sched"
  /\ UNCHANGED <<ret, waiting, queueVars, osVars, deadline, sigVars, timer, ops, early>>

-----------------------------------------------------------------------------
(* Haskell threads. *)

Slice(t) == xpc = "slice" /\ t \in runq /\ ops < slimit[3] /\ ops' = ops + 1 /\ xpc' = "sched"

\* stg_waitReadzh, stg_waitWritezh: the end of blocked_queue
waitRead(t, f) ==
  /\ Slice(t) /\ f \notin fdBad /\ runq' = runq \ {t}
  /\ blocked_q' = Append(blocked_q, <<t, f>>)
  /\ fdReady' = fdReady \ {f}
  /\ UNCHANGED <<ret, waiting, sleeping_q, clock, fdBad, slimit, deadline, sigVars, timer, early>>

\* getDelayTarget rounds up.
getDelayTarget(d) == ((clock + d + Res - 1) \div Res) % Word

\* The threads in front of which a thread with this target is inserted.
SleepAfter(target) ==
  Cardinality({i \in 1..Len(sleeping_q) : \A j \in 1..i : sleeping_q[j].target < target})

\* stg_delayzh
delay(t, d) ==
  /\ Slice(t) /\ clock + d + Res <= Start + slimit[1] /\ runq' = runq \ {t}
  /\ \E target \in {getDelayTarget(d)} :
       sleeping_q' = InsertAt(sleeping_q, SleepAfter(target) + 1, [t |-> t, target |-> target, until |-> clock + d])
  /\ UNCHANGED <<ret, waiting, blocked_q, osVars, deadline, sigVars, timer, early>>

Counted(s, spi) ==
  n_handlers + (IF spi \in User /\ handler[s] \notin User THEN 1
                ELSE IF spi \notin User /\ handler[s] \in User THEN -1 ELSE 0)

stg_sig_install(t, s, spi) ==
  /\ Slice(t)
  /\ handler' = [handler EXCEPT ![s] = spi] /\ osAction' = [osAction EXCEPT ![s] = spi]
  /\ n_handlers' = Counted(s, spi)
  /\ UNCHANGED <<ret, waiting, queueVars, osVars, deadline, buf, npend, masked, held, timer, hthreads, sig, early>>

\* The thread blocks on something that is not I/O, or finishes.
Stop(t) ==
  /\ xpc = "slice" /\ t \in runq /\ runq' = runq \ {t} /\ xpc' = "sched"
  /\ UNCHANGED <<ret, waiting, blocked_q, sleeping_q, osVars, deadline, sigVars, timer, ops, early>>

RunHandler ==
  /\ xpc = "slice" /\ hthreads > 0 /\ hthreads' = hthreads - 1 /\ xpc' = "sched"
  /\ UNCHANGED <<ret, waiting, queueVars, osVars, deadline, buf, npend, masked, held, handler, osAction, n_handlers,
                 timer, sig, ops, early>>

-----------------------------------------------------------------------------
MainStep ==
  \/ schedule \/ blockUserSignals \/ Pop \/ startSignalHandlers \/ unblockUserSignals
  \/ scheduleCheckBlockedThreads \/ awaitEvent \/ EnterSelect \/ select \/ Interrupted
  \/ scheduleDetectDeadlock \/ awaitUserSignals \/ Undeadlock \/ RunHandler
  \/ \E t \in HsThreads : Stop(t)

Next ==
  \/ MainStep \/ Tick \/ TimerTick
  \/ \E s \in Sigs : Signal(s)
  \/ \E f \in Fds : FdChange(f)
  \/ \E t \in HsThreads : \/ \E f \in Fds : waitRead(t, f)
                          \/ \E d \in Delays : delay(t, d)
                          \/ \E s \in Sigs, spi \in {"HAN", "RST", "DFL", "IGN"} : stg_sig_install(t, s, spi)

-----------------------------------------------------------------------------
(* Properties. *)

\* Every signal that was caught is pending, has got a handler thread, or had its handler removed:
\* none is lost or served twice between the handler and the scheduler, which share a stack.
SignalsOnce ==
  xpc # "died" =>
    sig.caught = npend + Cardinality(held) + sig.started + sig.dropped + (IF xpc = "read" THEN 1 ELSE 0)

\* n_haskell_handlers, which decides whether a deadlocked program waits for signals, counts the
\* signals that have a Haskell handler.
HandlersCounted == n_handlers = Cardinality({s \in Sigs : handler[s] \in User})

\* The assertion of scheduleDetectDeadlock: after awaitUserSignals there is a thread to run.
Undeadlocked == xpc = "undeadlocked" => ~ RunQueueEmpty

\* "We never want to sleep less than the desired amount."
NeverEarly == ~ early

\* How often LowResTime has wrapped around when a sleeper is due.
Lap(e) == ((e.until + Res - 1) \div Res) \div Word

\* The sleeping queue is in the order in which its threads are due, up to the rounding, so that none
\* waits behind a later one; but stg_delayzh compares targets without the trick of Select.c for the
\* wrap-around, so two threads whose targets lie on different sides of it are left out.
SleepersSorted ==
  \A i, j \in 1..Len(sleeping_q) :
    i < j /\ Lap(sleeping_q[i]) = Lap(sleeping_q[j]) => sleeping_q[i].until <= sleeping_q[j].until + Res - 1

\* Haskell runs with the timer on: every stopTimer has been matched by a startTimer.
TimerOn == xpc \in {"slice", "sched"} => timer = 0

Ended == xpc \in {"died", "exit"}
SomeReady == \E i \in 1..Len(blocked_q) : blocked_q[i][2] \in fdReady \cup fdBad

\* A thread that sleeps wakes up, whatever interrupts select.
SleepersWake == (sleeping_q # <<>>) ~> (sleeping_q = <<>> \/ Ended)

\* A thread that waits for a descriptor that is ready, or was closed, does not wait for ever.
ReadyServed == SomeReady ~> (~ SomeReady \/ Ended)

\* A signal that comes between awaitUserSignals' test and pause is served, because the tick of the
\* timer, which is on while the program is deadlocked, ends pause.
PausedServed == (npend > 0 /\ xpc \in {"pausing", "pause"}) ~> (npend = 0 \/ Ended)

\* A pending signal is served: "we need to start up the signal handler straight away, otherwise we
\* could block for a long time before the signal is serviced".  TLC refutes it: the signal may come
\* between scheduleStartSignalHandlers and select, which then waits with the timer stopped.
SignalsServed == (npend > 0) ~> (npend = 0 \/ Ended)
=============================================================================
