-------------------------------- MODULE MCSTM --------------------------------
(* Model-checking instances of STM: two or three threads, two TVars, and   *)
(* for each question what the threads' transactions may write and do.      *)
EXTENDS STM

CONSTANTS t1, t2, t3, tv1, tv2

(* The third thread does nothing, unless said otherwise. *)
NoWrites == t3 :> <<>>
NoOps == t3 :> {}
(* Every committed value is new. *)
OneEach == t1 :> <<{<<tv1, 1>>, <<tv2, 1>>}>> @@ t2 :> <<{<<tv1, 2>>, <<tv2, 2>>}>> @@ NoWrites
(* Each thread may write a TVar that the other only reads. *)
Cross == t1 :> <<{<<tv1, 1>>}>> @@ t2 :> <<{<<tv2, 2>>}>> @@ NoWrites
(* One thread reads while the other writes an old value again. *)
Back == t1 :> <<{}>> @@ t2 :> <<{<<tv1, 1>>}, {<<tv1, 0>>, <<tv2, 1>>}>> @@ NoWrites

(* One thread waits for what two others write. *)
Three == t1 :> <<{}>> @@ t2 :> <<{<<tv1, 1>>}>> @@ t3 :> <<{<<tv2, 2>>}>>

BothRead == t1 :> {"read"} @@ t2 :> {"read"} @@ NoOps
BothThrowTo == t1 :> {"read", "retry", "throwTo"} @@ t2 :> {"read", "retry", "throwTo"} @@ NoOps
OneReads == t1 :> {"read"} @@ t2 :> {} @@ NoOps
(* One thread nests transactions, with orElse or with catchSTM. *)
NestsOrElse == t1 :> {"read", "orElse", "retry", "yield", "throwTo"} @@ t2 :> {} @@ NoOps
NestsCatch == t1 :> {} @@ t2 :> {"read", "catch", "throw", "retry", "throwTo"} @@ NoOps
(* One thread uses both and raises exceptions. *)
OneRaises == t1 :> {"read", "orElse", "catch", "throw"} @@ t2 :> {"read"} @@ NoOps

(* It may be hit by an exception meanwhile. *)
OneWaits == t1 :> {"read", "retry", "throwTo"} @@ t2 :> {} @@ t3 :> {}

(* Commits; the nest of records; versions; waiting. *)
All == {Scenario(OneEach, BothRead, 1, {}),
        Scenario(Cross, NestsOrElse, 2, {}),
        Scenario(Cross, NestsCatch, 2, {t2}),
        Scenario(Back, OneReads, 1, {}),
        Scenario(Three, OneWaits, 1, {})}
(* The smallest scenario of write skew. *)
Skew == {Scenario(OneEach, BothRead, 1, {})}
(* Exceptions through a nest of records of orElse. *)
Raises == {Scenario(OneEach, OneRaises, 3, {})}
(* throwTo while a thread waits for TVars that the other commits. *)
LockCycles == {Scenario(OneEach, BothThrowTo, 1, {})}
=============================================================================
