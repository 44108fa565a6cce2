-------------------------------- MODULE Deque --------------------------------
(***************************************************************************)
(* What a work-stealing deque promises: a bounded double-ended queue in    *)
(* which every operation takes effect at one instant.  An operation that   *)
(* returns nothing (push on a full deque, pop on an empty one, a lost race *)
(* to steal) changes nothing.                                              *)
(***************************************************************************)
EXTENDS Naturals, Sequences

CONSTANTS Elem, Capacity

VARIABLES deque,   \* oldest element first
          pushed,  \* the elements accepted so far
          taken    \* how often each element was handed out

Init ==
    /\ deque = <<>>
    /\ pushed = {}
    /\ taken = [e \in Elem |-> 0]

Push(e) ==
    /\ e \notin pushed
    /\ Len(deque) < Capacity
    /\ deque' = Append(deque, e)
    /\ pushed' = pushed \cup {e}
    /\ UNCHANGED taken

Pop ==
    /\ deque # <<>>
    /\ deque' = SubSeq(deque, 1, Len(deque) - 1)
    /\ taken' = [taken EXCEPT ![deque[Len(deque)]] = @ + 1]
    /\ UNCHANGED pushed

Steal ==
    /\ deque # <<>>
    /\ deque' = Tail(deque)
    /\ taken' = [taken EXCEPT ![Head(deque)] = @ + 1]
    /\ UNCHANGED pushed

Next == (\E e \in Elem : Push(e)) \/ Pop \/ Steal

Spec == Init /\ [][Next]_<<deque, pushed, taken>>
=============================================================================
