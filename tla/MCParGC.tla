------------------------------ MODULE MCParGC ------------------------------
EXTENDS ParGC, TLC

CONSTANTS t1, t2, t3, a, b, c, d, e

\* One thread has three roots, of which one has a child; e hangs off a weak pointer.
MCChild == a :> {d} @@ b :> {} @@ c :> {} @@ d :> {a} @@ e :> {}
MCRoot == t1 :> {a, b, c} @@ t2 :> {} @@ t3 :> {}

\* One collection by three threads, and two by two, for which liveness is checked.
Few == {t1, t2}
MCInit == /\ Init
          /\ \/ caps = Thread /\ gcs = 1
             \/ caps = Few /\ gcs = 2

Finished == /\ Barfed \/ ((gcs = 0 \/ overflowed) /\ \A t \in Thread : pc[t] = "mutator")
            /\ UNCHANGED vars

MCSpec == /\ MCInit
          /\ [][Next \/ Finished]_vars
          /\ \A t \in Few : WF_vars(caps = Few /\ Step(t))

\* Every collection ends, and its workers return to the mutator, but for the
\* second one after a heap overflow, which barfs.
FewEnd == caps = Few => Ends /\ WorkersReturn
=============================================================================
