---------------------------- MODULE MVarSpec ----------------------------
(***************************************************************************)
(* What an MVar promises: one cell and a first-in first-out queue of       *)
(* blocked takes or blocked puts.  An operation on a cell that somebody    *)
(* waits for completes the first waiter's operation as well, in the same   *)
(* step, so that a waiter is never woken to try again.  A blocked          *)
(* operation may be cancelled by an asynchronous exception; one that has   *)
(* completed may not.                                                      *)
(***************************************************************************)
EXTENDS Sequences, Integers

CONSTANTS Thread, Value, Empty

VARIABLES value,     \* the contents, or Empty
          waiting,   \* [tso, val]: blocked puts, or blocked takes (val = Empty)
          result     \* what the last completed operation of a thread gave

vars == <<value, waiting, result>>

Init == /\ value \in Value \cup {Empty}
        /\ waiting = <<>>
        /\ result = [t \in Thread |-> Empty]

Idle(t) == \A i \in DOMAIN waiting : waiting[i].tso # t

Take(t) == /\ Idle(t) /\ value # Empty
           /\ IF waiting = <<>>
              THEN value' = Empty /\ waiting' = <<>> /\ result' = [result EXCEPT ![t] = value]
              ELSE /\ value' = Head(waiting).val
                   /\ waiting' = Tail(waiting)
                   /\ result' = [result EXCEPT ![t] = value, ![Head(waiting).tso] = Empty]

Put(t, v) == /\ Idle(t) /\ value = Empty
             /\ IF waiting = <<>>
                THEN value' = v /\ waiting' = <<>> /\ result' = [result EXCEPT ![t] = Empty]
                ELSE /\ value' = Empty
                     /\ waiting' = Tail(waiting)
                     /\ result' = [result EXCEPT ![t] = Empty, ![Head(waiting).tso] = v]

BlockTake(t) == /\ Idle(t) /\ value = Empty
                /\ waiting' = Append(waiting, [tso |-> t, val |-> Empty])
                /\ UNCHANGED <<value, result>>

BlockPut(t, v) == /\ Idle(t) /\ value # Empty
                  /\ waiting' = Append(waiting, [tso |-> t, val |-> v])
                  /\ UNCHANGED <<value, result>>

Cancel(t) == /\ ~Idle(t)
             /\ waiting' = SelectSeq(waiting, LAMBDA x : x.tso # t)
             /\ UNCHANGED <<value, result>>

Next == \E t \in Thread :
          \/ Take(t) \/ BlockTake(t) \/ Cancel(t)
          \/ \E v \in Value : Put(t, v) \/ BlockPut(t, v)

Spec == Init /\ [][Next]_vars
=============================================================================
