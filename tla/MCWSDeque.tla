------------------------------ MODULE MCWSDeque ------------------------------
(* Model-checking instance of WSDeque: a few elements and two thieves on   *)
(* an array small enough to fill up and wrap around.                       *)
EXTENDS WSDeque, TLC

Symm == Permutations(Elem) \cup Permutations(Thieves)

(* States are the same that differ only in locals that are not read again. *)
LiveLocals(p) ==
    <<IF pc[p] \in {"idle", "stealReadTop", "retryReadTop"} THEN 0 ELSE t[p],
      IF p = Owner \/ pc[p] = "stealRead" THEN b[p] ELSE 0,
      IF p = Owner \/ pc[p] = "stealCas" THEN val[p] ELSE NULL>>
LiveState == <<dequeVars, pc, pushed, taken,
               [p \in Threads |-> IF pc[p] = "idle" THEN NULL ELSE LiveLocals(p)]>>
=============================================================================
