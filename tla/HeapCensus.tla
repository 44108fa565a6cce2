----------------------------- MODULE HeapCensus -----------------------------
(* The heap profiler (rts/ProfHeap.c, rts/LdvProfile.c).  A census counts   *)
(* the live closures after a major collection, by cost-centre stack, by     *)
(* type, by retainer set or by biography.  What a closure's biography is    *)
(* (lag, drag, void) is known when it dies, so the censuses are kept and    *)
(* corrected whenever a collection finds a dead closure.                    *)
(*                                                                          *)
(* A closure is a model value with the attributes that the census looks at; *)
(* its header holds what the LDV word does: the era of its creation, and    *)
(* that of its last use.  Sizes are without the profiling header.           *)
EXTENDS Integers, Sequences, FiniteSets, FiniteSetsExt, TLC

CONSTANTS Closures,        \* a function from closures to their attributes
          Profiles,        \* the RtsFlags.ProfFlags that are considered, each with the closures of
                           \* its program and a bound on the collections
          FirstCensuses,   \* what n_censuses is at first (32)
          max_era          \* 2^LDV_SHIFT

VARIABLES header,          \* where a closure is and its LDV word
          era, n_censuses,
          censuses,        \* the censuses of the eras so far
          hp_file,         \* the samples that have been written
          profiling,       \* "on", "ended" or "exited"
          collections,     \* the number of collections
          seen,            \* history: the closures that were live at each census
          uses,            \* history: when a closure was used, as the number of the next census
          twice,           \* history: messages that were overwritten
          prof             \* RtsFlags.ProfFlags

vars == <<header, era, n_censuses, censuses, hp_file, profiling, collections, seen, uses, twice, prof>>

Unborn == -1
Nursery == 0               \* 1 + g is generation g
Oldest == 2
Gone == 3
None == {}                 \* a selector that was not given
Alive(c) == header[c].at \in Nursery..Oldest
prim(c) == Closures[c].type \in {"ARR_WORDS", "TSO", "MSG_THROWTO", "MSG_NULL"}
Biography == {"prim", "not_used", "used", "void_total", "drag_total"}
initLDVCtr == [f \in Biography \cup {"resid"} |-> 0]
initEra == [ldv |-> initLDVCtr, ctrs |-> [i \in {} |-> initLDVCtr]]

-----------------------------------------------------------------------------
(* What is profiled, and by what. *)

doingLDVProfiling == prof.by = "LDV" \/ prof.bio # None
doingRetainerProfiling == prof.by = "retainers" \/ prof.select["retainers"] # None

closureIdentity(c) == Closures[c][prof.by]
\* closureIdentity is NULL for a closure that the retainer profiler has not reached.
identified(c) == prof.by = "retainers" => Closures[c].retainers # {}

\* A selector is a list of names, of which one must be the closure's.
closureSatisfiesConstraints(c) ==
  /\ Closures[c].selected
  /\ \A k \in {"descr", "type"} : prof.select[k] = None \/ Closures[c][k] \in prof.select[k]
  /\ prof.select["retainers"] = None \/ Closures[c].retainers \cap prof.select["retainers"] # {}

\* The counters of census t with n more in field f, for identity i if counters are kept for each.
count(cs, t, i, f, n) ==
  IF prof.by = "LDV" THEN [cs EXCEPT ![t].ldv[f] = @ + n]
  ELSE LET old == cs[t].ctrs
           ctr == IF i \in DOMAIN old THEN old[i] ELSE initLDVCtr
       IN [cs EXCEPT ![t].ctrs = (i :> [ctr EXCEPT ![f] = @ + n]) @@ old]

-----------------------------------------------------------------------------
(* The biography of a dead closure.  It is counted as void from the census  *)
(* of its creation, or as drag from the one after its last use, and no more *)
(* in the census of this era.                                               *)

\* Mutant: drag begins with the era of the last use
LDV_recordDeadEarly(cs, c) ==
  LET h == header[c]
      t == IF h.used THEN h.last ELSE h.create
      f == IF h.used THEN "drag_total" ELSE "void_total"
      n == Closures[c].size
  IN IF era > 0 /\ closureSatisfiesConstraints(c) /\ t < era
     THEN count(count(cs, t, closureIdentity(c), f, n), era, closureIdentity(c), f, -n) ELSE cs

LDV_recordDead(cs, c) ==
  LET h == header[c]
      t == IF h.used THEN h.last + 1 ELSE h.create
      f == IF h.used THEN "drag_total" ELSE "void_total"
      n == Closures[c].size
  IN IF era > 0 /\ closureSatisfiesConstraints(c) /\ t < era
     THEN count(count(cs, t, closureIdentity(c), f, n), era, closureIdentity(c), f, -n) ELSE cs

processHeapClosureForDead(cs, c) == IF prim(c) THEN cs ELSE LDV_recordDead(cs, c)

\* The dead closures of the nursery, of the generations up to N and among their large objects.
LdvCensusForDead(cs, dead) ==
  IF era = 0 THEN cs ELSE FoldSet(LAMBDA c, acc : processHeapClosureForDead(acc, c), cs, dead)

\* At the end the collector's old_blocks are empty: only the nursery and the large objects are met.
LdvCensusKillAll(cs) == LdvCensusForDead(cs, {c \in prof.program : Alive(c) /\ (header[c].at = Nursery \/ Closures[c].large)})

-----------------------------------------------------------------------------
(* A census. *)

heapProfObject(cs, c) ==
  LET f == IF prim(c) THEN "prim" ELSE IF header[c].used THEN "used" ELSE "not_used"
  IN IF ~closureSatisfiesConstraints(c) \/ ~identified(c) THEN cs
     ELSE count(cs, era, closureIdentity(c), IF doingLDVProfiling THEN f ELSE "resid", Closures[c].size)

\* The blocks and the large objects of all generations; threads only if they are to be included.
heapCensusChain(cs, live) ==
  FoldSet(LAMBDA c, acc : heapProfObject(acc, c), cs,
          {c \in live : Closures[c].type = "TSO" => prof.includeTSOs})

\* What is printed for a census: a line for each part of the biography, or for each identity.
dumpCensus(cen) ==
  IF prof.by = "LDV"
  THEN [void |-> cen.ldv["void_total"], lag |-> cen.ldv["not_used"] - cen.ldv["void_total"],
        use |-> cen.ldv["used"] - cen.ldv["drag_total"], inherent_use |-> cen.ldv["prim"],
        drag |-> cen.ldv["drag_total"]]
  ELSE LET ctr(i) == cen.ctrs[i]
           part(i, k) == CASE k = "lag" -> ctr(i)["not_used"] - ctr(i)["void_total"]
                           [] k = "drag" -> ctr(i)["drag_total"]
                           [] k = "void" -> ctr(i)["void_total"]
                           [] k = "use" -> ctr(i)["used"] - ctr(i)["drag_total"]
           total(i) == IF prof.bio = None THEN ctr(i)["resid"]
                       ELSE MapThenSumSet(LAMBDA k : part(i, k), prof.bio)
       IN [i \in {j \in DOMAIN cen.ctrs : total(j) # 0} |-> total(i)]

\* The next era, with twice the room when it is needed; without biographies the era is 0 for ever.
nextEra(cs) ==
  IF ~doingLDVProfiling
  THEN censuses' = [cs EXCEPT ![era] = initEra] /\ UNCHANGED <<era, n_censuses, profiling>>
  ELSE /\ era' = era + 1
       /\ profiling' = IF era' = max_era THEN "exited" ELSE profiling
       /\ n_censuses' = IF era' = n_censuses /\ era' # max_era THEN 2 * n_censuses ELSE n_censuses
       /\ censuses' = IF era' = max_era THEN cs ELSE (era' :> initEra) @@ cs

\* cs: the censuses after the dead have been recorded; live: what the collection has left.
heapCensus(cs, live) ==
  LET new == heapCensusChain(cs, live)
  IN /\ hp_file' = IF doingLDVProfiling THEN hp_file ELSE Append(hp_file, dumpCensus(new[era]))
     /\ nextEra(new)
     /\ seen' = Append(seen, live)

\* The running totals become totals of each census.  An identity without a counter in
\* a census is skipped.
aggregateCensusInfo(cs) ==
  LET sum(f, t) == MapThenSumSet(LAMBDA s : cs[s].ldv[f], 1..t)
      Ids == UNION {DOMAIN cs[t].ctrs : t \in 1..era}
      acc[t \in 0..era, i \in Ids, f \in {"void_total", "drag_total"}] ==
        IF t = 0 THEN 0
        ELSE acc[t - 1, i, f] + IF i \in DOMAIN cs[t].ctrs THEN cs[t].ctrs[i][f] ELSE 0
      totals(ctr, v, d) == [ctr EXCEPT !["void_total"] = v, !["drag_total"] = d]
  IN [t \in DOMAIN cs |->
        IF t = era THEN cs[t]
        ELSE [ldv |-> totals(cs[t].ldv, sum("void_total", t), sum("drag_total", t)),
              ctrs |-> [i \in DOMAIN cs[t].ctrs |->
                          totals(cs[t].ctrs[i], acc[t, i, "void_total"], acc[t, i, "drag_total"])]]]

-----------------------------------------------------------------------------
(* The actions. *)

initHeapProfiling ==
  /\ prof \in Profiles
  /\ profiling = IF doingLDVProfiling /\ doingRetainerProfiling THEN "exited" ELSE "on"
  /\ era = IF doingLDVProfiling THEN 1 ELSE 0
  /\ n_censuses = FirstCensuses
  /\ censuses = era :> initEra
  /\ header = [c \in prof.program |-> [at |-> Unborn, create |-> 0, used |-> FALSE, last |-> 0]]
  /\ hp_file = <<>> /\ collections = 0 /\ seen = <<>>
  /\ uses = [c \in prof.program |-> {}] /\ twice = {}

allocate(c) ==
  /\ profiling = "on" /\ header[c].at = Unborn /\ Closures[c].type \notin {"IND", "MSG_NULL"}
  /\ header' = [header EXCEPT ![c].at = IF Closures[c].large THEN Nursery + 1 ELSE Nursery, ![c].create = era]
  /\ UNCHANGED <<era, n_censuses, censuses, hp_file, profiling, collections, seen, uses, twice, prof>>

\* Entering a closure records the era, if biographies are profiled.
LDV_ENTER(c) ==
  /\ profiling = "on" /\ Alive(c) /\ ~prim(c) /\ Closures[c].type # "IND"
  /\ header' = IF era = 0 THEN header ELSE [header EXCEPT ![c].used = TRUE, ![c].last = era]
  /\ uses' = [uses EXCEPT ![c] = @ \cup {Len(seen) + 1}]
  /\ UNCHANGED <<era, n_censuses, censuses, hp_file, profiling, collections, seen, twice, prof>>

\* A thunk is overwritten by an indirection, or a message that has been dealt with by
\* MSG_NULL: d takes the place of c.
overwritingClosure(c, d) ==
  /\ profiling = "on" /\ Alive(c) /\ header[d].at = Unborn
  /\ <<Closures[c].type, Closures[d].type>> \in {<<"THUNK", "IND">>, <<"MSG_THROWTO", "MSG_NULL">>}
  /\ Closures[d].ccs = Closures[c].ccs
  /\ censuses' = LDV_recordDead(censuses, c)
  /\ header' = [header EXCEPT ![c].at = Gone, ![d] = [@ EXCEPT !.at = header[c].at, !.create = era]]
  /\ twice' = IF prim(c) THEN twice \cup {c} ELSE twice
  /\ UNCHANGED <<era, n_censuses, hp_file, profiling, collections, seen, uses, prof>>

\* The generations up to N are collected and some closures found dead; indirections are removed.
\* A census follows only a major collection.
GarbageCollect(N, dead, do_heap_census) ==
  LET collected == {c \in prof.program : Alive(c) /\ header[c].at <= N + 1}
      live == {c \in prof.program : Alive(c)} \ dead
      cs == IF doingLDVProfiling THEN LdvCensusForDead(censuses, dead) ELSE censuses
  IN /\ profiling = "on" /\ collections < prof.gcs
     /\ dead \subseteq collected /\ {c \in collected : Closures[c].type = "IND"} \subseteq dead
     /\ do_heap_census => N + 1 = Oldest
     /\ header' = [c \in prof.program |->
                     IF c \in dead THEN [header[c] EXCEPT !.at = Gone]
                     ELSE IF c \in collected THEN [header[c] EXCEPT !.at = IF @ < Oldest THEN @ + 1 ELSE @]
                     ELSE header[c]]
     /\ IF do_heap_census THEN heapCensus(cs, live)
        ELSE censuses' = cs /\ UNCHANGED <<hp_file, era, n_censuses, profiling, seen>>
     /\ collections' = collections + 1
     /\ UNCHANGED <<uses, twice, prof>>

endHeapProfiling ==
  LET cs == aggregateCensusInfo(LdvCensusKillAll(censuses))
  IN /\ profiling = "on"
     /\ profiling' = "ended"
     /\ IF doingLDVProfiling
        THEN /\ censuses' = cs
             /\ hp_file' = [t \in 1..era - 1 |-> dumpCensus(cs[t])]
             /\ header' = [c \in prof.program |->
                  IF Alive(c) /\ (header[c].at = Nursery \/ Closures[c].large)
                  THEN [header[c] EXCEPT !.at = Gone] ELSE header[c]]
        ELSE UNCHANGED <<censuses, hp_file, header>>
     /\ UNCHANGED <<era, n_censuses, collections, seen, uses, twice, prof>>

Next ==
  \/ \E c \in prof.program : allocate(c) \/ LDV_ENTER(c)
  \/ \E c, d \in prof.program : overwritingClosure(c, d)
  \/ \E N \in 0..Oldest - 1, dead \in SUBSET prof.program, census \in BOOLEAN :
       GarbageCollect(N, dead, census)
  \/ endHeapProfiling

Spec == initHeapProfiling /\ [][Next]_vars

-----------------------------------------------------------------------------
(* Properties. *)

Total(S) == MapThenSumSet(LAMBDA c : Closures[c].size, S)
\* The closures that census t is about.
Counted(t) ==
  {c \in seen[t] : /\ closureSatisfiesConstraints(c) /\ identified(c)
                   /\ Closures[c].type = "TSO" => prof.includeTSOs}
\* A closure has died if the collector found it dead, or if it was overwritten.
Died(c) == header[c].at = Gone
Void(t) == {c \in Counted(t) : ~prim(c) /\ uses[c] = {} /\ Died(c)}
Drag(t) == {c \in Counted(t) : ~prim(c) /\ uses[c] # {} /\ Max(uses[c]) < t /\ Died(c)}
Lag(t) == {c \in Counted(t) : ~prim(c) /\ uses[c] \cap 1..t = {}} \ Void(t)
Use(t) == {c \in Counted(t) : ~prim(c) /\ uses[c] \cap 1..t # {}} \ Drag(t)
Inherent(t) == {c \in Counted(t) : prim(c)}
\* The messages that were overwritten later: they count as void although they are inherently used.
Messages(t) == Counted(t) \cap twice

\* What a sample of a profile restricted by biography counts of the closures S.
Restricted(t, S) ==
  LET of(k) == CASE k = "lag" -> Total(S \cap Lag(t))
                 [] k = "drag" -> Total(S \cap Drag(t))
                 [] k = "void" -> Total(S \cap Void(t))
                 [] k = "use" -> Total(S \cap Use(t))
  IN MapThenSumSet(LAMBDA k : of(k), prof.bio)

\* Every sample of a profile (ProfHeap.c:dumpCensus) says what the closures that were
\* live at its census did before and after: those never used before they died are
\* VOID, those still to be used LAG, those used for the last time in an earlier era
\* DRAG.  A profile by identity gives each identity what its closures have.  Left out: the
\* samples of biographies with Messages.
SamplesTrue ==
  \A t \in {x \in DOMAIN hp_file : doingLDVProfiling => Messages(x) = {}} :
    IF prof.by = "LDV"
    THEN hp_file[t] = [void |-> Total(Void(t)), lag |-> Total(Lag(t)),
                       use |-> Total(Use(t)), drag |-> Total(Drag(t)), inherent_use |-> Total(Inherent(t))]
    ELSE LET Of(i) == {c \in Counted(t) : closureIdentity(c) = i}
             n(i) == IF prof.bio = None THEN Total(Of(i)) ELSE Restricted(t, Of(i))
             Ids == {closureIdentity(c) : c \in Counted(t)}
         IN /\ DOMAIN hp_file[t] = {i \in Ids : n(i) # 0}
            /\ \A i \in DOMAIN hp_file[t] : hp_file[t][i] = n(i)

\* "Make sure that LDV_recordDead() is not invoked on 'inherently used' closures such as TSO".
\* TLC refutes it: overwritingClosure invokes it on a message.
NotInherent == twice = {}

\* LDV_recordDead finds a counter for each identity in the census from which a
\* closure counts as void or drag, if it should die now (the ASSERTs of
\* ProfHeap.c:201 and 225), and the census of no era is outside of the array.
CountersThere ==
  profiling = "on" /\ doingLDVProfiling =>
    /\ era < n_censuses /\ DOMAIN censuses = 1..era
    /\ \A c \in prof.program :
         LET t == IF header[c].used THEN header[c].last + 1 ELSE header[c].create
         IN Alive(c) /\ closureSatisfiesConstraints(c) =>
              /\ header[c].create \in 1..era
              /\ prof.by # "LDV" /\ t < era /\ Closures[c].type # "TSO"
                   => closureIdentity(c) \in DOMAIN censuses[t].ctrs

\* When the profile is written no census has more void than unused words, nor more
\* drag than used ones (the ASSERTs of aggregateCensusInfo).  Left out: after a message was
\* overwritten (twice).
TotalsFit ==
  profiling = "ended" /\ doingLDVProfiling /\ twice = {} =>
    \A t \in 1..era - 1 :
      \A ctr \in {censuses[t].ldv} \cup {censuses[t].ctrs[i] : i \in DOMAIN censuses[t].ctrs} :
        /\ ctr["void_total"] \in 0..ctr["not_used"]
        /\ ctr["drag_total"] \in 0..ctr["used"]

\* The ASSERT of ProfHeap.c:197 says that there is always less void than was unused.  TLC refutes
\* it: all that was unused may die.
VoidIsLess ==
  profiling = "on" /\ prof.by = "LDV" =>
    \A t \in 1..era - 1 : censuses[t].ldv["void_total"] > 0 => censuses[t].ldv["void_total"] < censuses[t].ldv["not_used"]

\* A heap profile tells the truth about the heap, with the exceptions above.
CensusSound == SamplesTrue /\ CountersThere /\ TotalsFit
=============================================================================
