----------------------------- MODULE ThrowTo -----------------------------
(***************************************************************************)
(* Asynchronous exceptions, MVars and the messages between Capabilities:   *)
(* throwTo and throwToMsg (RaiseAsync.c), MSG_THROWTO and MSG_TRY_WAKEUP   *)
(* (Messages.c), tryWakeupThread (Threads.c), the masking states and       *)
(* killThread# (Exception.cmm) and the MVar operations (PrimOps.cmm).      *)
(*                                                                         *)
(* A Capability runs one thing at a time; what it does between two         *)
(* accesses another Capability can see is one step.  Locks are WHITEHOLEs, *)
(* taken by spinning: an action that would spin is disabled.               *)
(*                                                                         *)
(* A thread runs a program, a sequence of instructions; its stack is what  *)
(* is left of the sequence, with the frames of catch#, maskAsyncExceptions#*)
(* and so on in their places.                                              *)
(***************************************************************************)
EXTENDS Integers, Sequences, FiniteSets, SequencesExt, FiniteSetsExt

CONSTANTS Cap, Thread,
          Scenario,     \* what may be running: the program of each thread, the threads that
                        \* come from forkOn# and what the MVar holds
          Home,         \* the Capability a thread is created for
          Value,        \* what is put into the MVar
          MaxMsg,       \* bound: MessageThrowTo objects allocated
          None

VARIABLES tso,     \* StgTSO
          msg,     \* MessageThrowTo objects; the key is the address
          mvar,    \* one StgMVar
          node,    \* StgMVarTSOQueue objects
          runq,    \* run_queue_hd of each Capability
          inbox,   \* inbox of each Capability, last message first
          cpu      \* what each Capability is doing

vars == <<tso, msg, mvar, node, runq, inbox, cpu>>

(* Instructions and frames *)
Take == [op |-> "take"]
TryTake == [op |-> "tryTake"]
Put(v) == [op |-> "put", val |-> v]
TryPut(v) == [op |-> "tryPut", val |-> v]
Throw(t) == [op |-> "throwTo", target |-> t]
Yield == [op |-> "yield"]
RaiseIO == [op |-> "raise"]
Mask(b) == [op |-> "mask", body |-> b]
Uninterruptible(b) == [op |-> "maskUninterruptible", body |-> b]
Unmask(b) == [op |-> "unmask", body |-> b]
Catch(b, h) == [op |-> "catch", body |-> b, handler |-> h]

Ret(flags) == [op |-> "ret", flags |-> flags]
CatchFrame(flags, h) == [op |-> "catch_frame", flags |-> flags, handler |-> h]

Dead(s) == s.what_next \in {"Complete", "Killed"}

(***************************************************************************)
(* The operations are functions of the whole heap, so that one may call    *)
(* another as the code does.                                               *)
(***************************************************************************)
Now == [tso |-> tso, msg |-> msg, mvar |-> mvar, node |-> node, runq |-> runq, inbox |-> inbox]

Become(w) == /\ tso' = w.tso /\ msg' = w.msg /\ mvar' = w.mvar
             /\ node' = w.node /\ runq' = w.runq /\ inbox' = w.inbox

appendToRunQueue(w, c, t) == [w EXCEPT !.runq[c] = Append(@, t)]

sendMessage(w, d, m) == [w EXCEPT !.inbox[d] = <<m>> \o @]

\* Mutant: the thread goes to the run queue still blocked.
UnblockForgets(w, c, t) == appendToRunQueue(w, c, t)

Unblock(w, c, t) == appendToRunQueue([w EXCEPT !.tso[t].why_blocked = "NotBlocked"], c, t)

\* The current instruction has completed
Done(w, t) == [w EXCEPT !.tso[t].stack = Tail(@)]

tryWakeupThread(w, c, t) ==
  LET s == w.tso[t] IN
  CASE s.cap # c -> sendMessage(w, s.cap, [to |-> "wakeup", tso |-> t])
    [] s.cap = c /\ s.why_blocked = "MVar" /\ s.link = None ->
         Unblock([w EXCEPT !.tso[t].block_info = None], c, t)
    [] s.cap = c /\ s.why_blocked = "MsgThrowTo" /\ w.msg[s.block_info].info = "NULL" ->
         Unblock(Done([w EXCEPT !.msg[s.block_info].fate = "returned"], t), c, t)
    [] s.cap = c /\ s.why_blocked = "Migrating" -> Unblock(w, c, t)
    [] OTHER -> w

\* tryWakeupThread locks the message a local thread is blocked on
WakeupSpins(w, c, t) ==
  /\ w.tso[t].cap = c /\ w.tso[t].why_blocked = "MsgThrowTo"
  /\ w.msg[w.tso[t].block_info].info = "WHITEHOLE"

\* Mutant: the message is unlocked, and can be taken again.
doneWithMsgThrowToUnlocks(w, m) == [w EXCEPT !.msg[m].info = "THROWTO"]

doneWithMsgThrowTo(w, m) == [w EXCEPT !.msg[m].info = "NULL"]

\* Mutant: the last entry of the queue is overwritten by an indirection, too.
removeFromMVarBlockedQueueByInd(w, t) ==
  LET q == w.tso[t].link
      isHead == w.mvar.head = q
  IN IF q = None THEN w
     ELSE [w EXCEPT !.mvar.head = IF isHead THEN w.node[q].link ELSE @,
                    !.mvar.tail = IF isHead /\ @ = q THEN None ELSE @,
                    !.node[q].info = "IND",
                    !.tso[t].link = None]

removeFromMVarBlockedQueue(w, t) ==
  LET q == w.tso[t].link
      isHead == w.mvar.head = q
      isTail == w.mvar.tail = q
  IN IF q = None THEN w
     ELSE [w EXCEPT !.mvar.head = IF isHead THEN w.node[q].link ELSE @,
                    !.mvar.tail = IF isHead /\ isTail THEN None ELSE @,
                    !.node[q].info = IF isTail /\ ~isHead THEN "NULL" ELSE "IND",
                    !.tso[t].link = None]

removeFromQueues(w, c, t) ==
  CASE w.tso[t].why_blocked = "MVar" -> Unblock(removeFromMVarBlockedQueue(w, t), c, t)
    [] w.tso[t].why_blocked = "MsgThrowTo" ->
         Unblock(doneWithMsgThrowTo([w EXCEPT !.msg[w.tso[t].block_info].fate = "revoked"],
                                    w.tso[t].block_info), c, t)
    [] OTHER -> w

Catches(stack) == {i \in DOMAIN stack : stack[i].op = "catch_frame"}

\* Strip the stack to the innermost catch frame and leave raise# on top of it, or kill
\* the thread.  Until the handler starts the thread is masked.
raiseAsync(w, c, t) ==
  LET s == w.tso[t]
      i == Min(Catches(s.stack))
      raised == IF Catches(s.stack) = {}
                THEN [s EXCEPT !.what_next = "Killed", !.stack = <<>>]
                ELSE [s EXCEPT !.stack = <<RaiseIO>> \o SubSeq(s.stack, i, Len(s.stack)),
                               !.flags = IF s.stack[i].flags = "interruptible"
                                         THEN "interruptible" ELSE "uninterruptible"]
      r == [w EXCEPT !.tso[t] = raised,
                     !.msg = IF s.why_blocked # "MsgThrowTo" THEN @
                             ELSE [@ EXCEPT ![s.block_info].fate = "revoked"]]
  IN IF s.why_blocked = "NotBlocked" THEN r ELSE Unblock(r, c, t)

throwToSingleThreaded(w, c, t) ==
  IF Dead(w.tso[t]) THEN w ELSE raiseAsync(removeFromQueues(w, c, t), c, t)

\* Message m has raised its exception
Raise(w, m) == [w EXCEPT !.msg[m].raised = @ + 1]

blockedThrowTo(w, t, m) == [w EXCEPT !.tso[t].blocked_exceptions = <<m>> \o @]

awakenBlockedExceptionQueue(w, c, t) ==
  LET awaken(v, m) == IF v.msg[m].info = "NULL" THEN v
                      ELSE tryWakeupThread(doneWithMsgThrowTo(v, m), c, v.msg[m].source)
  IN [FoldLeft(awaken, w, w.tso[t].blocked_exceptions) EXCEPT !.tso[t].blocked_exceptions = <<>>]

interruptible(s) == s.why_blocked \in {"MVar", "MsgThrowTo"}

\* Raise the first blocked exception that has not been revoked
maybePerformBlockedException(w, c, t) ==
  LET s == w.tso[t]
      live == {i \in DOMAIN s.blocked_exceptions : w.msg[s.blocked_exceptions[i]].info # "NULL"}
      m == s.blocked_exceptions[Min(live)]
      rest == SubSeq(s.blocked_exceptions, Min(live) + 1, Len(s.blocked_exceptions))
      v == Raise(throwToSingleThreaded([w EXCEPT !.tso[t].blocked_exceptions = rest], c, t), m)
  IN CASE s.what_next = "Complete" -> awakenBlockedExceptionQueue(w, c, t)
       [] s.what_next # "Complete"
            /\ (s.flags = "unmasked" \/ (s.flags = "interruptible" /\ interruptible(s))) ->
          IF live = {} THEN [w EXCEPT !.tso[t].blocked_exceptions = <<>>]
          ELSE tryWakeupThread(doneWithMsgThrowTo(v, m), c, w.msg[m].source)
       [] OTHER -> w

\* A message at the head of blocked_exceptions is locked by another Capability
PerformSpins(t) == \E i \in DOMAIN tso[t].blocked_exceptions :
                      msg[tso[t].blocked_exceptions[i]].info = "WHITEHOLE"

-----------------------------------------------------------------------------
(* The scheduler of a Capability *)

At(c, pc) == cpu[c].pc = pc
Goto(c, pc) == cpu' = [cpu EXCEPT ![c].pc = pc]

\* scheduleProcessInbox takes all messages at once; it is left out of a round of the
\* scheduler when the inbox's lock is taken
ProcessInbox(c) ==
  /\ At(c, "sched") /\ inbox[c] # <<>>
  /\ cpu' = [cpu EXCEPT ![c].pc = "inbox", ![c].todo = inbox[c]]
  /\ inbox' = [inbox EXCEPT ![c] = <<>>]
  /\ UNCHANGED <<tso, msg, mvar, node, runq>>

InboxDone(c) ==
  /\ At(c, "inbox") /\ cpu[c].todo = <<>>
  /\ IF inbox[c] = <<>> THEN Goto(c, "sched") /\ UNCHANGED inbox
     ELSE /\ cpu' = [cpu EXCEPT ![c].todo = inbox[c]]
          /\ inbox' = [inbox EXCEPT ![c] = <<>>]
  /\ UNCHANGED <<tso, msg, mvar, node, runq>>

ExecuteWakeup(c) ==
  /\ At(c, "inbox") /\ cpu[c].todo # <<>>
  /\ LET m == Head(cpu[c].todo) IN
       /\ m.to = "wakeup" /\ ~WakeupSpins(Now, c, m.tso)
       /\ Become(tryWakeupThread(Now, c, m.tso))
  /\ cpu' = [cpu EXCEPT ![c].todo = Tail(@)]

\* A MSG_THROWTO is locked before it is looked at; a WHITEHOLE is waited for and a
\* MSG_NULL has been revoked.
ExecuteThrowTo(c) ==
  /\ At(c, "inbox") /\ cpu[c].todo # <<>>
  /\ LET m == Head(cpu[c].todo) IN
       /\ m.to = "throwto"
       /\ \/ /\ msg[m.msg].info = "THROWTO"
             /\ msg' = [msg EXCEPT ![m.msg].info = "WHITEHOLE"]
             /\ cpu' = [cpu EXCEPT ![c].pc = "throwto", ![c].todo = Tail(@),
                                   ![c].msg = m.msg, ![c].caller = "inbox"]
          \/ /\ msg[m.msg].info = "NULL"
             /\ cpu' = [cpu EXCEPT ![c].todo = Tail(@)]
             /\ UNCHANGED msg
  /\ UNCHANGED <<tso, mvar, node, runq, inbox>>

PickThread(c) ==
  /\ At(c, "sched") /\ runq[c] # <<>>
  /\ cpu' = [cpu EXCEPT ![c].pc = "run", ![c].cur = Head(runq[c])]
  /\ runq' = [runq EXCEPT ![c] = Tail(@)]
  /\ UNCHANGED <<tso, msg, mvar, node, inbox>>

\* schedulePushWork gives a thread to a Capability that is idle
PushWork(c, d) ==
  /\ c # d /\ At(c, "sched") /\ Len(runq[c]) > 1
  /\ At(d, "sched") /\ runq[d] = <<>> /\ inbox[d] = <<>>
  /\ LET t == runq[c][2] IN
       /\ runq' = [runq EXCEPT ![c] = RemoveAt(@, 2), ![d] = <<t>>]
       /\ tso' = [tso EXCEPT ![t].cap = d]
  /\ UNCHANGED <<msg, mvar, node, inbox, cpu>>

-----------------------------------------------------------------------------
(* throwToMsg, called by killThread# or for a message *)

\* THROWTO_SUCCESS and THROWTO_BLOCKED, and what the two callers make of them
Success(c, w) ==
  LET m == cpu[c].msg IN
  IF cpu[c].caller = "inbox"
  THEN /\ Become(tryWakeupThread(doneWithMsgThrowTo(w, m), c, msg[m].source))
       /\ Goto(c, "inbox")
  ELSE /\ Become(Done([w EXCEPT !.msg[m].fate = "returned"], cpu[c].cur))
       /\ Goto(c, "run")

Blocked(c, w) ==
  LET m == cpu[c].msg IN
  IF cpu[c].caller = "inbox"
  THEN Become([w EXCEPT !.msg[m].info = "THROWTO"]) /\ Goto(c, "inbox")
  ELSE /\ Become([w EXCEPT !.tso[cpu[c].cur].why_blocked = "MsgThrowTo",
                           !.tso[cpu[c].cur].block_info = m])
       /\ Goto(c, "pause")

\* Mutant: throwToMsg spins for the message it has met.
BacksOffNever(m2, m) == FALSE

\* Of two messages that wait for each other's lock one spins and one is sent again: the
\* addresses break the symmetry
BacksOff(m2, m) == m2 > m

Target(c) == msg[cpu[c].msg].target

\* throwToMsg finds its target alive on this Capability and blocked for this reason
Found(c, why) ==
  /\ At(c, "throwto") /\ ~Dead(tso[Target(c)])
  /\ tso[Target(c)].cap = c /\ tso[Target(c)].why_blocked = why

Deliver(c, w) == Success(c, Raise(raiseAsync(w, c, Target(c)), cpu[c].msg))

Defer(c) == Blocked(c, blockedThrowTo(Now, Target(c), cpu[c].msg))

throwToSendMsg(c, d) == Blocked(c, sendMessage(Now, d, [to |-> "throwto", msg |-> cpu[c].msg]))

\* The target is woken up ahead of its message, and looked at again
WakeTarget(c) == Become(tryWakeupThread(Now, c, Target(c))) /\ UNCHANGED cpu

ThrowToElsewhere(c) ==
  LET s == tso[Target(c)] IN
  /\ At(c, "throwto")
  /\ \/ Dead(s) /\ Success(c, Now)
     \/ ~Dead(s) /\ s.cap # c /\ throwToSendMsg(c, s.cap)

ThrowToRunnable(c) ==
  /\ Found(c, "NotBlocked")
  /\ IF tso[Target(c)].flags = "unmasked" THEN Deliver(c, Now) ELSE Defer(c)

\* The target waits for a throwTo of its own, which has to be revoked under its lock
ThrowToThrower(c) ==
  LET m2 == tso[Target(c)].block_info IN
  /\ Found(c, "MsgThrowTo")
  /\ CASE msg[m2].info = "WHITEHOLE" -> BacksOff(m2, cpu[c].msg) /\ throwToSendMsg(c, c)
       [] msg[m2].info = "NULL" -> WakeTarget(c)
       [] OTHER -> IF tso[Target(c)].flags = "uninterruptible" THEN Defer(c)
                   ELSE Deliver(c, doneWithMsgThrowTo(Now, m2))

ThrowToWaiter(c) ==
  LET s == tso[Target(c)] IN
  /\ Found(c, "MVar") /\ ~mvar.locked
  /\ CASE s.link = None -> WakeTarget(c)      \* the operation has already been performed
       [] s.link # None /\ s.flags = "uninterruptible" -> Defer(c)
       [] OTHER -> Deliver(c, removeFromMVarBlockedQueue(Now, Target(c)))

ThrowToMigrating(c) == Found(c, "Migrating") /\ WakeTarget(c)

throwToMsg(c) == \/ ThrowToElsewhere(c) \/ ThrowToRunnable(c) \/ ThrowToThrower(c)
                 \/ ThrowToWaiter(c) \/ ThrowToMigrating(c)

-----------------------------------------------------------------------------
(* A running thread *)

Running(c, op) ==
  /\ At(c, "run") /\ ~Dead(tso[cpu[c].cur])
  /\ tso[cpu[c].cur].stack # <<>> /\ Head(tso[cpu[c].cur].stack).op = op

Instr(c) == Head(tso[cpu[c].cur].stack)

\* The nodes of the MVar's queue in order, with indirections and revoked nodes
Queue ==
  LET at[n \in 0 .. Cardinality(DOMAIN node)] ==
        IF n = 0 THEN mvar.head ELSE IF at[n - 1] = None THEN None ELSE node[at[n - 1]].link
  IN SelectSeq([n \in 1 .. Cardinality(DOMAIN node) |-> at[n - 1]], LAMBDA q : q # None)

\* The nodes of waiters, past indirections and revoked nodes
Waiters == SelectSeq(Queue, LAMBDA q : node[q].info = "QUEUE")

\* Mutant: revoked nodes are not passed over.
FirstWaiterRevoked == IF Queue = <<>> THEN None ELSE Head(Queue)

FirstWaiter == IF Waiters = <<>> THEN None ELSE Head(Waiters)

\* Put the current thread on the queue; the MVar stays locked until it is off its stack
BlockOnMVar(c, val) ==
  LET t == cpu[c].cur
      q == <<t, Min({i \in 0 .. Cardinality(DOMAIN node) : <<t, i>> \notin DOMAIN node})>>
      new == [tso |-> t, val |-> val, link |-> None, info |-> "QUEUE"]
      linked == IF mvar.head = None THEN node ELSE [node EXCEPT ![mvar.tail].link = q]
  IN /\ node' = [p \in DOMAIN node \cup {q} |-> IF p = q THEN new ELSE linked[p]]
     /\ mvar' = [mvar EXCEPT !.head = IF @ = None THEN q ELSE @, !.tail = q, !.locked = TRUE]
     /\ tso' = [tso EXCEPT ![t].link = q, ![t].block_info = None, ![t].why_blocked = "MVar"]
     /\ Goto(c, "pause")
     /\ UNCHANGED <<msg, runq, inbox>>

\* The operation of the current thread completes with result r; that of the first
\* waiter, if there is one, is performed for it with result rw and the MVar then holds v
Perform(c, r, rw, v) ==
  LET q == FirstWaiter
      t == cpu[c].cur
      head == node[q].link
  IN IF q = None
     THEN /\ tso' = [tso EXCEPT ![t].stack = Tail(@), ![t].result = r]
          /\ mvar' = [mvar EXCEPT !.value = v]
          /\ UNCHANGED <<msg, node, runq, inbox, cpu>>
     ELSE LET w == node[q].tso IN
          /\ tso' = [tso EXCEPT ![t].stack = Tail(@), ![t].result = r,
                                ![w].stack = Tail(@), ![w].result = rw, ![w].link = None]
          /\ mvar' = [mvar EXCEPT !.value = v, !.head = head,
                                  !.tail = IF head = None THEN None ELSE @, !.locked = TRUE]
          /\ cpu' = [cpu EXCEPT ![c].pc = "wake", ![c].waiter = w]
          /\ UNCHANGED <<msg, node, runq, inbox>>

\* The operation fails without blocking
Fails(c) == Become(Done(Now, cpu[c].cur)) /\ UNCHANGED cpu

PerformTake(c) == Perform(c, mvar.value, None, IF FirstWaiter = None THEN None ELSE node[FirstWaiter].val)

PerformPut(c) == Perform(c, None, Instr(c).val, IF FirstWaiter = None THEN Instr(c).val ELSE None)

takeMVar(c) == /\ Running(c, "take") /\ ~mvar.locked
               /\ IF mvar.value = None THEN BlockOnMVar(c, None) ELSE PerformTake(c)

tryTakeMVar(c) == /\ Running(c, "tryTake") /\ ~mvar.locked
                  /\ IF mvar.value = None THEN Fails(c) ELSE PerformTake(c)

putMVar(c) == /\ Running(c, "put") /\ ~mvar.locked
              /\ IF mvar.value # None THEN BlockOnMVar(c, Instr(c).val) ELSE PerformPut(c)

tryPutMVar(c) == /\ Running(c, "tryPut") /\ ~mvar.locked
                 /\ IF mvar.value # None THEN Fails(c) ELSE PerformPut(c)

\* The rest of a take or put that found a waiter: wake it up and unlock the MVar
WakeWaiter(c) ==
  /\ At(c, "wake") /\ ~WakeupSpins(Now, c, cpu[c].waiter)
  /\ Become([tryWakeupThread(Now, c, cpu[c].waiter) EXCEPT !.mvar.locked = FALSE])
  /\ cpu' = [cpu EXCEPT ![c].pc = "run", ![c].waiter = None]

\* killThread#: at itself, or with a new message, which starts locked
killThread(c) ==
  LET t == cpu[c].cur
      target == Instr(c).target
  IN /\ Running(c, "throwTo")
     /\ \/ target = t /\ Become(throwToSingleThreaded(Done(Now, t), c, t)) /\ UNCHANGED cpu
        \/ /\ target # t
           /\ \E m \in (1 .. MaxMsg) \ DOMAIN msg :
                /\ msg' = [n \in DOMAIN msg \cup {m} |->
                             IF n # m THEN msg[n]
                             ELSE [info |-> "WHITEHOLE", source |-> t, target |-> target,
                                   raised |-> 0, fate |-> "open"]]
                /\ cpu' = [cpu EXCEPT ![c].pc = "throwto", ![c].msg = m, ![c].caller = "run"]
           /\ UNCHANGED <<tso, mvar, node, runq, inbox>>

\* raise#: run the handler, masked, and undo that when it returns.  Without a handler the
\* thread dies.
raise(c) ==
  LET t == cpu[c].cur
      stack == tso[t].stack
      i == Min(Catches(stack))
      cf == stack[i]
      restore == IF cf.flags = "unmasked" THEN <<Ret("unmasked")>> ELSE <<>>
  IN /\ Running(c, "raise")
     /\ tso' = [tso EXCEPT ![t] =
          IF Catches(stack) = {} THEN [@ EXCEPT !.what_next = "Killed", !.stack = <<>>]
          ELSE [@ EXCEPT !.stack = cf.handler \o restore \o SubSeq(stack, i + 1, Len(stack)),
                         !.flags = IF cf.flags = "uninterruptible" THEN cf.flags ELSE "interruptible"]]
     /\ UNCHANGED <<msg, mvar, node, runq, inbox, cpu>>

catch(c) ==
  LET t == cpu[c].cur IN
  /\ \/ /\ Running(c, "catch")
        /\ Become([Now EXCEPT !.tso[t].stack =
             Instr(c).body \o <<CatchFrame(tso[t].flags, Instr(c).handler)>> \o Tail(@)])
     \/ Running(c, "catch_frame") /\ Become(Done(Now, t))
  /\ UNCHANGED cpu

\* Run body in masking state flags and restore the old one after it.  An enclosing frame
\* that only restores flags is popped instead: the stack does not grow in a tail call.
WithFlags(s, flags) ==
  LET rest == Tail(s.stack)
      pops == IF s.flags = "unmasked" THEN Ret(flags) ELSE Ret("unmasked")
      tail == rest # <<>> /\ Head(rest) = pops /\ "unmasked" \in {s.flags, flags}
  IN [s EXCEPT !.flags = flags,
               !.stack = Head(s.stack).body \o
                         (CASE s.flags = flags -> rest
                            [] s.flags # flags /\ tail -> Tail(rest)
                            [] OTHER -> <<Ret(s.flags)>> \o rest)]

maskAsyncExceptions(c) ==
  LET t == cpu[c].cur IN
  /\ \/ Running(c, "mask") /\ Become([Now EXCEPT !.tso[t] = WithFlags(@, "interruptible")])
     \/ /\ Running(c, "maskUninterruptible")
        /\ Become([Now EXCEPT !.tso[t] = WithFlags(@, "uninterruptible")])
     \/ /\ Running(c, "ret") /\ Instr(c).flags # "unmasked"
        /\ Become([Done(Now, t) EXCEPT !.tso[t].flags = Instr(c).flags])
  /\ UNCHANGED cpu

\* Unmasking raises a blocked exception at once
unmaskAsyncExceptions(c) ==
  LET t == cpu[c].cur
      s == tso[t]
  IN /\ \/ Running(c, "unmask") /\ s.flags = "unmasked" /\ Become([Now EXCEPT !.tso[t] = WithFlags(@, "unmasked")])
        \/ /\ Running(c, "unmask") /\ s.flags # "unmasked" /\ ~PerformSpins(t)
           /\ Become(maybePerformBlockedException([Now EXCEPT !.tso[t] = WithFlags(@, "unmasked")], c, t))
        \/ /\ Running(c, "ret") /\ Instr(c).flags = "unmasked" /\ ~PerformSpins(t)
           /\ Become(maybePerformBlockedException([Done(Now, t) EXCEPT !.tso[t].flags = "unmasked"], c, t))
     /\ UNCHANGED cpu

\* A context switch
yield(c) == /\ Running(c, "yield")
            /\ Become(Done(Now, cpu[c].cur))
            /\ Goto(c, "pause")

\* threadPaused: a thread that is about to block interruptibly may receive an exception
threadPaused(c) ==
  /\ At(c, "pause") /\ ~PerformSpins(cpu[c].cur)
  /\ Become(maybePerformBlockedException(Now, c, cpu[c].cur))
  /\ Goto(c, IF tso[cpu[c].cur].why_blocked = "NotBlocked" THEN "yielded"
             ELSE IF tso[cpu[c].cur].why_blocked = "MVar" THEN "unlock_mvar" ELSE "unlock_msg")

\* What is done after the thread has been paused, before the scheduler goes on
blockFinally(c) ==
  LET t == cpu[c].cur
      m == tso[t].block_info
      unlock == At(c, "unlock_msg") /\ msg[m].info = "WHITEHOLE"
  IN /\ cpu[c].pc \in {"yielded", "unlock_mvar", "unlock_msg"}
     /\ mvar' = IF At(c, "unlock_mvar") THEN [mvar EXCEPT !.locked = FALSE] ELSE mvar
     /\ msg' = IF unlock THEN [msg EXCEPT ![m].info = "THROWTO"] ELSE msg
     /\ runq' = IF At(c, "yielded") THEN [runq EXCEPT ![c] = Append(@, t)] ELSE runq
     /\ cpu' = [cpu EXCEPT ![c].pc = "sched", ![c].cur = None]
     /\ UNCHANGED <<tso, node, inbox>>

\* scheduleHandleThreadFinished, for a thread that has returned or was killed
ThreadFinished(c) ==
  LET t == cpu[c].cur
      w == IF Dead(tso[t]) THEN Now ELSE [Now EXCEPT !.tso[t].what_next = "Complete"]
  IN /\ At(c, "run") /\ (Dead(tso[t]) \/ tso[t].stack = <<>>) /\ ~PerformSpins(t)
     /\ Become(awakenBlockedExceptionQueue(w, c, t))
     /\ cpu' = [cpu EXCEPT ![c].pc = "sched", ![c].cur = None]

\* A garbage collection shorts out the indirections in the MVar's queue; revoked nodes
\* at its tail stay
GarbageCollect ==
  LET follow(p) == LET f[n \in 0 .. Cardinality(DOMAIN node)] ==
                         IF n = 0 THEN p
                         ELSE IF f[n - 1] = None \/ node[f[n - 1]].info # "IND" THEN f[n - 1]
                         ELSE node[f[n - 1]].link
                   IN f[Cardinality(DOMAIN node)]
      roots == (ToSet(Queue) \cup {tso[t].link : t \in Thread} \cup {mvar.tail}) \ {None}
      kept == {q \in roots : node[q].info # "IND"}
  IN /\ \A c \in Cap : At(c, "sched")
     /\ DOMAIN node # kept
     /\ mvar' = [mvar EXCEPT !.head = follow(@), !.tail = follow(@)]
     /\ node' = [q \in kept |-> [node[q] EXCEPT !.link = follow(@)]]
     /\ UNCHANGED <<tso, msg, runq, inbox, cpu>>

-----------------------------------------------------------------------------
\* A thread starts on the run queue of its Capability or, created for another one by
\* forkOn#, as a message in its inbox.  One without a program has already finished.
Init ==
  \E s \in Scenario :
    LET absent == {t \in Thread : s.program[t] = <<>>} IN
    /\ tso = [t \in Thread |->
         [cap |-> Home[t], flags |-> "unmasked",
          what_next |-> IF t \in absent THEN "Complete" ELSE "RunGHC",
          why_blocked |-> IF t \in s.forked THEN "Migrating" ELSE "NotBlocked",
          block_info |-> None, link |-> None, stack |-> s.program[t],
          blocked_exceptions |-> <<>>, result |-> None]]
    /\ msg = <<>> /\ node = <<>>
    /\ mvar = [value |-> s.value, head |-> None, tail |-> None, locked |-> FALSE]
    /\ runq = [c \in Cap |-> SetToSeq({t \in Thread \ (s.forked \cup absent) : Home[t] = c})]
    /\ inbox = [c \in Cap |-> SetToSeq({[to |-> "wakeup", tso |-> t] : t \in {u \in s.forked : Home[u] = c}})]
    /\ cpu = [c \in Cap |-> [pc |-> "sched", cur |-> None, todo |-> <<>>, msg |-> None,
                             caller |-> "inbox", waiter |-> None]]

MVarStep(c) == \/ takeMVar(c) \/ tryTakeMVar(c) \/ putMVar(c) \/ tryPutMVar(c)
               \/ WakeWaiter(c)

ThreadStep(c) == \/ killThread(c) \/ raise(c) \/ catch(c) \/ maskAsyncExceptions(c)
                 \/ unmaskAsyncExceptions(c) \/ yield(c) \/ threadPaused(c) \/ blockFinally(c)
                 \/ ThreadFinished(c) \/ MVarStep(c)

SchedStep(c) == \/ ProcessInbox(c) \/ InboxDone(c) \/ ExecuteWakeup(c) \/ ExecuteThrowTo(c)
                \/ PickThread(c) \/ throwToMsg(c)

Next == \/ \E c \in Cap : ThreadStep(c) \/ SchedStep(c)
        \/ \E c, d \in Cap : PushWork(c, d)
        \/ GarbageCollect

\* A Capability with something to do is run by some Task, and a spin lock that is free
\* again and again is taken at last.  Messages are looked at although other threads run.
Fairness == \A c \in Cap : /\ SF_vars(ThreadStep(c) \/ SchedStep(c))
                           /\ SF_vars(ProcessInbox(c))

Spec == Init /\ [][Next]_vars
FairSpec == Spec /\ Fairness

-----------------------------------------------------------------------------
(* Properties *)

Current == {cpu[c].cur : c \in Cap} \ {None}

\* The types of the variables, with the fields of tso (StgTSO), of the messages and of the
\* MVar (Closures.h).
TypeOK ==
  /\ \A t \in Thread : /\ tso[t].cap \in Cap
                       /\ tso[t].what_next \in {"RunGHC", "Complete", "Killed"}
                       /\ tso[t].why_blocked \in {"NotBlocked", "MVar", "MsgThrowTo", "Migrating"}
                       /\ tso[t].flags \in {"unmasked", "interruptible", "uninterruptible"}
                       /\ tso[t].link \in DOMAIN node \cup {None}
                       /\ ToSet(tso[t].blocked_exceptions) \subseteq DOMAIN msg
                       /\ tso[t].result \in Value \cup {None}
  /\ DOMAIN msg \subseteq 1 .. MaxMsg
  /\ \A m \in DOMAIN msg : /\ msg[m].info \in {"WHITEHOLE", "THROWTO", "NULL"}
                           /\ msg[m].source \in Thread /\ msg[m].target \in Thread
                           /\ msg[m].fate \in {"open", "returned", "revoked"}
  /\ mvar.value \in Value \cup {None}
  /\ \A c \in Cap : runq[c] \in Seq(Thread) /\ cpu[c].cur \in Thread \cup {None}

\* throwTo raises its exception once.  When it returns, the exception has been raised or
\* the target is dead; when its thread is interrupted instead, it never is raised
\* (throwToMsg and executeMessage run on two Capabilities and lock the same message).
ThrowToOnce ==
  \A m \in DOMAIN msg :
    /\ msg[m].raised <= 1
    /\ msg[m].fate = "returned" => msg[m].raised = 1 \/ Dead(tso[msg[m].target])
    /\ msg[m].fate = "revoked" => msg[m].raised = 0

\* A thread is in one place: running, on one run queue once, blocked, migrating with a
\* wake-up on its way, or finished.  The wake-ups that are sent too often do no harm
\* (tryWakeupThread "is idempotent").
OnePlace ==
  TypeOK /\ \A t \in Thread :
    LET queued == {<<c, i>> \in Cap \X (1 .. Cardinality(Thread)) : i <= Len(runq[c]) /\ runq[c][i] = t}
        running == {c \in Cap : cpu[c].cur = t}
    IN /\ Cardinality(queued) <= 1
       /\ \A p \in queued : tso[t].cap = p[1] /\ tso[t].why_blocked = "NotBlocked"
       /\ \A c \in running : tso[t].cap = c
       /\ running # {} /\ queued # {} => cpu[tso[t].cap].pc \in {"unlock_mvar", "unlock_msg"}
       /\ running = {} /\ queued = {} => tso[t].why_blocked # "NotBlocked" \/ Dead(tso[t])

\* The assertion of executeMessage: the source of a message that may still raise waits for it
SourceWaits ==
  \A m \in DOMAIN msg :
    msg[m].info = "THROWTO" => /\ tso[msg[m].source].why_blocked = "MsgThrowTo"
                               /\ tso[msg[m].source].block_info = m

\* No exception waits for a thread that could receive it: a live message hangs on a thread
\* only while it is masked, and while that is blocked only if it is not interruptible.
NoneWaitsInVain ==
  \A t \in Thread \ Current :
    (\E i \in DOMAIN tso[t].blocked_exceptions : msg[tso[t].blocked_exceptions[i]].info # "NULL")
      => \/ tso[t].what_next = "Killed" /\ t \in ToSet(runq[tso[t].cap])
         \/ ~Dead(tso[t]) /\ tso[t].flags = "uninterruptible"
         \/ /\ ~Dead(tso[t]) /\ tso[t].flags = "interruptible"
            /\ interruptible(tso[t]) => tso[t].why_blocked = "MVar" /\ tso[t].link = None

\* Nothing is left to do
Quiescent == \A c \in Cap : At(c, "sched") /\ runq[c] = <<>> /\ inbox[c] = <<>>

\* When nothing is left to do, every thread has finished, or waits in the queue for an MVar
\* operation that nobody performs, or throws at a thread that is masked uninterruptibly and
\* knows of it.  No wake-up or exception got lost on the way (tryWakeupThread, throwToMsg).
NoLostWakeup ==
  Quiescent =>
    /\ ~mvar.locked
    /\ \A t \in Thread :
         \/ Dead(tso[t])
         \/ tso[t].why_blocked = "MVar" /\ \E q \in ToSet(Waiters) : node[q].tso = t
         \/ /\ tso[t].why_blocked = "MsgThrowTo"
            /\ LET m == msg[tso[t].block_info] IN
                 /\ m.info = "THROWTO"
                 /\ tso[m.target].flags = "uninterruptible"
                 /\ tso[t].block_info \in ToSet(tso[m.target].blocked_exceptions)

\* Nobody waits for nothing: the thrower of an exception, its target and the threads in the
\* queue of the MVar are each known to whoever must go on for them.
NobodyWaitsInVain == SourceWaits /\ NoneWaitsInVain /\ NoLostWakeup

\* The programs come to an end: no two Capabilities spin for each other's messages or for
\* the MVar for ever, and messages are not sent round in circles (throwToMsg).
Stops == <>[]Quiescent

\* The MVar is a cell with a fair queue: each step of the run-time system is an operation
\* of the abstract MVar or none
Spec_MVar == INSTANCE MVarSpec WITH
  Empty <- None, value <- mvar.value,
  waiting <- [i \in DOMAIN Waiters |-> [tso |-> node[Waiters[i]].tso, val |-> node[Waiters[i]].val]],
  result <- [t \in Thread |-> tso[t].result]

MVarRefinement == Spec_MVar!Spec
=============================================================================
