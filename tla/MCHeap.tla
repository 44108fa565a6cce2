------------------------------- MODULE MCHeap -------------------------------
EXTENDS Heap, TLC

CONSTANTS a, b, c, d, k, r1, r2

NewObject == [kind |-> "free", fld |-> <<>>, gen |-> 0, dest |-> 0, evac |-> FALSE, large |-> FALSE, mark |-> "NONE", at |-> 0]
Static == [NewObject EXCEPT !.kind = "caf", !.gen = Oldest, !.dest = Oldest]
Empty == [o \in Object |-> IF o \in Caf THEN Static ELSE NewObject]
P(o) == [o |-> o, at |-> 0]
Old(kd, f, m) == [NewObject EXCEPT !.kind = kd, !.fld = f, !.gen = Oldest, !.dest = Oldest, !.evac = TRUE, !.mark = m]
Mid(kd, f, m) == [Old(kd, f, m) EXCEPT !.gen = 0, !.dest = 1]

State(o, x, y, q, w, able) ==
  [obj |-> o, root |-> (r1 :> x @@ r2 :> y), runq |-> q, weaks |-> w, can |-> able]

\* A variable and a thunk of the oldest generation.
Vars == State([Empty EXCEPT ![a] = Old("var", <<P(b)>>, "CLEAN"), ![b] = Old("thunk", <<Null>>, "NONE")],
              P(a), P(b), {}, <<>>, {"con", "store", "update", "load"})

\* A mutable array of the oldest generation and a survivor of one collection.
Arrays == State([Empty EXCEPT ![a] = Old("arr", <<Null>>, "CLEAN"), ![b] = Mid("con", <<Null>>, "NONE")],
                P(a), P(b), {}, <<>>, {"arr", "store", "freeze"})

\* A top-level thunk.
Cafs == State(Empty, Null, P(k), {}, <<>>, {"caf", "con", "update", "drop"})

\* A thread and an MVar of the oldest generation.
Threads == State([Empty EXCEPT ![a] = Old("tso", <<Null>>, "CLEAN"), ![b] = Old("var", <<Null>>, "CLEAN")],
                 P(b), Null, {P(a)}, <<>>, {"fork", "block", "push", "finish", "drop"})

\* Keys of both ages.
Weaks == State([Empty EXCEPT ![a] = Old("var", <<P(b)>>, "DIRTY"), ![b] = Mid("con", <<Null>>, "NONE")],
               P(a), P(b), {}, <<>>, {"weak", "drop"})

\* A fresh heap.
Young == State(Empty, Null, Null, {}, <<>>, {"var", "thunk", "stable"})

\* A weak pointer whose key is a thunk that has not been evaluated.
LazyKey == State([Empty EXCEPT ![a] = Old("thunk", <<Null>>, "NONE"), ![b] = Mid("con", <<Null>>, "NONE"),
                               ![c] = Old("weak", <<P(a), Null, Null>>, "NONE")],
                 P(a), P(b), {}, <<P(c)>>, {"update", "load", "drop"})

LazyStart == {LazyKey}
MCStart == {Vars, Arrays, Cafs, Threads, Weaks, Young}
=============================================================================
