---------------------------- MODULE MCThrowTo ----------------------------
EXTENDS ThrowTo, TLC

CONSTANTS t1, t2, t3, t4, c1, c2, v1, v2

MCHome == t1 :> c1 @@ t2 :> c2 @@ t3 :> c1 @@ t4 :> c2

Programs(p1, p2, p3, p4) == t1 :> p1 @@ t2 :> p2 @@ t3 :> p3 @@ t4 :> p4

\* Threads that kill each other, in a pair and in a ring
Duel == [program |-> Programs(<<Throw(t2)>>, <<Throw(t1)>>, <<Throw(t1)>>, <<>>),
         forked |-> {t3}, value |-> None]
Ring == [program |-> Programs(<<Mask(<<Yield, Throw(t2)>>)>>, <<Throw(t3)>>, <<Throw(t1)>>, <<>>),
         forked |-> {}, value |-> None]

\* A masked taker is interrupted or served, its interrupter interrupted as well
Served == [program |-> Programs(<<Mask(<<Yield, Take>>)>>, <<Throw(t1), Put(v1)>>, <<Throw(t2), Throw(t1)>>, <<>>),
           forked |-> {t1}, value |-> None]

\* Three waiters; the second or the last is interrupted and waits again in its handler
Queue3 == [program |-> Programs(<<Take>>, <<Catch(<<Take>>, <<Take>>)>>, <<Take>>,
                                <<Yield, Throw(t2), TryPut(v1), Throw(t3), Put(v2), Put(v1)>>),
           forked |-> {}, value |-> None]

\* Blocked exceptions of an uninterruptible thread, and what unmasking does with them
Masked == [program |-> Programs(<<Catch(<<Uninterruptible(<<Put(v1), Mask(<<Unmask(<<TryPut(v1)>>)>>), TryPut(v2)>>)>>, <<Unmask(<<Yield>>)>>)>>,
                                <<Uninterruptible(<<Throw(t1)>>), Unmask(<<Mask(<<Unmask(<<Throw(t2)>>)>>)>>)>>,
                                <<Catch(<<Throw(t2)>>, <<>>), TryTake, RaiseIO>>, <<TryTake>>),
           forked |-> {}, value |-> v2]

MCScenario == {Duel, Ring, Served, Queue3, Masked}
=============================================================================
