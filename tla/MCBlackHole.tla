--------------------------- MODULE MCBlackHole ---------------------------
(* Three threads on two Capabilities that evaluate the same thunks: ta     *)
(* needs tb. Threads are stopped, or one of them receives an exception.    *)
EXTENDS BlackHole, TLC

CONSTANTS t1, t2, t3, c1, c2, ta, tb, caf

MCHome == t1 :> c1 @@ t2 :> c2 @@ t3 :> c1

Need == ta :> tb @@ tb :> None @@ caf :> tb
Each(x, y, z) == t1 :> x @@ t2 :> y @@ t3 :> z

Lazy == [need |-> Need, root |-> Each(ta, ta, tb), eager |-> FALSE, stops |-> Each(1, 1, 0), throws |-> Each(0, 0, 0)]
Eager == [Lazy EXCEPT !.eager = TRUE]
Static == [Lazy EXCEPT !.root = Each(caf, caf, tb), !.stops = Each(1, 1, 1)]
Thrown == [Lazy EXCEPT !.stops = Each(1, 0, 0), !.throws = Each(1, 0, 0)]
ThrownWaiter == [Lazy EXCEPT !.root = Each(ta, ta, None), !.stops = Each(1, 0, 0), !.throws = Each(0, 1, 0)]

MCScenario == {Lazy, Eager, Static, Thrown, ThrownWaiter}
=============================================================================
