------------------------------- MODULE Sparks --------------------------------
(***************************************************************************)
(* The sparks of `par' (Sparks.c, findSpark of Capability.c): a pool on    *)
(* each Capability, filled by the threads that run there, emptied from the *)
(* other end by the spark threads of all Capabilities, and pruned by every *)
(* collection.                                                             *)
(*                                                                         *)
(* The accesses of one operation of a pool are interleaved in WSDeque;     *)
(* here an operation is one step, and one that collides with another may   *)
(* fail.  What is interleaved here are the searches for a spark, which are *)
(* not atomic, with each other, with new sparks and with evaluation.       *)
(***************************************************************************)
EXTENDS Integers, Sequences, FiniteSets, SequencesExt

CONSTANTS n_capabilities,
          Size,           \* the length of a pool's array, a power of 2
          Heap, Static,   \* closures: thunks in the heap, and CAFs with an SRT
          NULL,
          Programs        \* what is run: see Init

VARIABLES sparks,       \* the pool of each Capability
          spark_stats,  \* its SparkCounters
          search,       \* the findSpark that runs on it
          sparkThread,  \* its spark thread, and what that evaluates
          closure,      \* what a closure is
          gen,          \* the generation of one in the heap
          roots,        \* the closures the program refers to
          gone,         \* those whose memory was reclaimed
          pars, threads, gcs,   \* how many sparks, spark threads, collections may follow
          sched_state,
          queue,        \* history: what a pool should have, oldest first,
          lost          \* and whether pruning has taken a living thunk for a dead one

pvars == <<sparks, spark_stats, search, sparkThread, closure, gen, roots, gone,
           pars, threads, gcs, sched_state, queue, lost>>

Caps == 0 .. n_capabilities - 1
Closures == Heap \cup Static
Evaluated == {sparkThread[c].evals : c \in Caps} \ {NULL}
Idle == [at |-> "no", robbed |-> 0, retry |-> FALSE, beaten |-> FALSE, spark |-> NULL]

Init ==
  /\ sparks = [c \in Caps |-> [top |-> 0, bottom |-> 0, topBound |-> 0,
                               elements |-> [i \in 0 .. Size - 1 |-> NULL]]]
  /\ spark_stats = [c \in Caps |-> [created |-> 0, dud |-> 0, overflowed |-> 0,
                                    converted |-> 0, gcd |-> 0, fizzled |-> 0]]
  /\ search = [c \in Caps |-> Idle]
  /\ sparkThread = [c \in Caps |-> [alive |-> FALSE, evals |-> NULL]]
  /\ \E prog \in Programs : 
       roots = prog.roots /\ pars = prog.pars /\ threads = prog.threads /\ gcs = prog.gcs
  /\ closure = [p \in Closures |-> "THUNK"]
  /\ gen = [p \in Heap |-> 0]
  /\ gone = {}
  /\ sched_state = "RUNNING"
  /\ queue = [c \in Caps |-> <<>>] /\ lost = FALSE

-----------------------------------------------------------------------------
(* The pools *)

sparkPoolSize(pool) == pool.bottom - pool.top
looksEmpty(pool) == sparkPoolSize(pool) <= 0
discardSparks(pool) == [pool EXCEPT !.top = pool.bottom]
anySparks == \E c \in Caps : ~ looksEmpty(sparks[c])

\* Fullness is judged by topBound, and by top itself if that says full.
pushWSDeque(pool, p) ==
  LET full(bound) == pool.bottom - bound >= Size - 1
      fresh == IF full(pool.topBound) THEN [pool EXCEPT !.topBound = pool.top] ELSE pool
  IN  IF full(fresh.topBound) THEN [ok |-> FALSE, pool |-> fresh]
      ELSE [ok |-> TRUE, pool |-> [fresh EXCEPT !.elements[pool.bottom % Size] = p, !.bottom = @ + 1]]

closure_SHOULD_SPARK(p) == closure[p] = "THUNK"
fizzledSpark(p) == ~ closure_SHOULD_SPARK(p)

Count(c, field) == spark_stats' = [spark_stats EXCEPT ![c][field] = @ + 1]

-----------------------------------------------------------------------------
(* Threads make sparks and evaluate closures. *)

newSpark(c, p) ==
  LET pushed == pushWSDeque(sparks[c], p)
  IN  /\ pars[c] > 0 /\ sched_state = "RUNNING" /\ search[c] = Idle /\ p \in roots
      /\ IF fizzledSpark(p)
         THEN Count(c, "dud") /\ UNCHANGED <<sparks, queue>>
         ELSE /\ sparks' = [sparks EXCEPT ![c] = pushed.pool]
              /\ Count(c, IF pushed.ok THEN "created" ELSE "overflowed")
              /\ queue' = [queue EXCEPT ![c] = IF Len(@) < Size - 1 THEN Append(@, p) ELSE @]
      /\ pars' = [pars EXCEPT ![c] = @ - 1]
      /\ UNCHANGED <<search, sparkThread, closure, gen, roots, gone, threads, gcs, sched_state, lost>>

\* A thread of the program or a spark thread evaluates a closure.  A thunk in the
\* heap is a BLACKHOLE if the thread was paused meanwhile; a CAF becomes an
\* IND_STATIC when it is entered.
Evaluate(p) ==
  /\ p \in roots \cup Evaluated /\ closure[p] # "IND" /\ sched_state = "RUNNING"
  /\ closure' \in {[closure EXCEPT ![p] = s] : s \in {"IND"} \cup (IF p \in Heap THEN {"BLACKHOLE"} ELSE {})}
  /\ closure' # closure
  /\ UNCHANGED <<sparks, spark_stats, search, sparkThread, gen, roots, gone, pars, threads, gcs, sched_state, queue, lost>>

-----------------------------------------------------------------------------
(* Spark threads look for sparks. *)

scheduleActivateSpark(c) ==
  /\ ~ sparkThread[c].alive /\ anySparks /\ sched_state = "RUNNING"
  /\ threads[c] > 0 /\ threads' = [threads EXCEPT ![c] = @ - 1]
  /\ sparkThread' = [sparkThread EXCEPT ![c].alive = TRUE]
  /\ UNCHANGED <<sparks, spark_stats, search, closure, gen, roots, gone, pars, gcs, sched_state, queue, lost>>

\* runSparks stops when findSpark finds nothing.
NothingFound(c) ==
  /\ search' = [search EXCEPT ![c] = Idle]
  /\ sparkThread' = [sparkThread EXCEPT ![c].alive = FALSE]

\* The spark thread has evaluated its spark and asks for the next.  findSpark gives
\* up at once if another thread or Task waits for the Capability.
findSpark(c) ==
  /\ sparkThread[c].alive /\ search[c] = Idle
  /\ \A p \in Closures : sparkThread[c].evals = p => closure[p] = "IND"
  /\ \/ /\ search' = [search EXCEPT ![c] = [Idle EXCEPT !.at = "steal", !.robbed = c]]
        /\ sparkThread' = [sparkThread EXCEPT ![c].evals = NULL]
     \/ /\ search' = [search EXCEPT ![c] = Idle]
        /\ sparkThread' = [sparkThread EXCEPT ![c] = [alive |-> FALSE, evals |-> NULL]]
  /\ UNCHANGED <<sparks, spark_stats, closure, gen, roots, gone, pars, threads, gcs, sched_state, queue, lost>>

\* A spark is taken; whoever was about to take it too is beaten.
tryStealSpark(c) ==
  LET r == search[c].robbed
      rivals == {d \in Caps \ {c} : search[d].at = "steal" /\ search[d].robbed = r}
  IN  /\ search[c].at = "steal" /\ ~ looksEmpty(sparks[r])
      /\ search' = [d \in Caps |->
           IF d = c THEN [search[c] EXCEPT !.at = "check", !.spark = sparks[r].elements[sparks[r].top % Size]]
           ELSE IF d \in rivals THEN [search[d] EXCEPT !.beaten = TRUE] ELSE search[d]]
      /\ sparks' = [sparks EXCEPT ![r].top = @ + 1]
      /\ queue' = [queue EXCEPT ![r] = Tail(@)]
      /\ UNCHANGED <<spark_stats, sparkThread, closure, gen, roots, gone, pars, threads, gcs, sched_state, lost>>

CheckSpark(c) ==
  LET p == search[c].spark
  IN  /\ search[c].at = "check"
      /\ IF fizzledSpark(p)
         THEN /\ Count(c, "fizzled")
              /\ search' = [search EXCEPT ![c].at = "steal", ![c].spark = NULL, ![c].beaten = FALSE]
              /\ UNCHANGED sparkThread
         ELSE /\ Count(c, "converted")
              /\ search' = [search EXCEPT ![c] = Idle]
              /\ sparkThread' = [sparkThread EXCEPT ![c].evals = p]
      /\ UNCHANGED <<sparks, closure, gen, roots, gone, pars, threads, gcs, sched_state, queue, lost>>

\* The pool is empty or another thief was faster: if it is not empty now, the
\* search is repeated.
StealFails(c) ==
  LET r == search[c].robbed
  IN  /\ search[c].at = "steal" /\ (looksEmpty(sparks[r]) \/ search[c].beaten)
      /\ IF n_capabilities = 1 THEN NothingFound(c)
         ELSE /\ search' = [search EXCEPT ![c].at = "visit", ![c].robbed = IF r = c THEN 0 ELSE r + 1,
                                          ![c].retry = @ \/ ~ looksEmpty(sparks[r])]
              /\ UNCHANGED sparkThread
      /\ UNCHANGED <<sparks, spark_stats, closure, gen, roots, gone, pars, threads, gcs, sched_state, queue, lost>>

\* The loop over the other Capabilities.
Visit(c) ==
  LET r == search[c].robbed
  IN  /\ search[c].at = "visit"
      /\ IF r < n_capabilities
         THEN /\ search' = [search EXCEPT ![c] =
                    IF r = c \/ looksEmpty(sparks[r]) THEN [@ EXCEPT !.robbed = r + 1]
                    ELSE [@ EXCEPT !.at = "steal", !.beaten = FALSE]]
              /\ UNCHANGED sparkThread
         ELSE IF search[c].retry
              THEN search' = [search EXCEPT ![c] = [Idle EXCEPT !.at = "steal", !.robbed = c]] /\ UNCHANGED sparkThread
              ELSE NothingFound(c)
      /\ UNCHANGED <<sparks, spark_stats, closure, gen, roots, gone, pars, threads, gcs, sched_state, queue, lost>>

-----------------------------------------------------------------------------
(* The collector *)

\* Which generations are collected, whether the old one is marked instead of
\* copied, and what the program still refers to.
Collections == {gc \in [major : BOOLEAN, mark : BOOLEAN, refs : SUBSET roots] : gc.mark => gc.major}

Live(gc, p) == p \in gc.refs \cup Evaluated
Collected(gc, p) == p \in Heap /\ (gc.major \/ gen[p] = 0)
Marked(gc, p) == gc.mark /\ gen[p] = 1

\* Evacuation does not copy an indirection.
Forwarded(gc, p) == Live(gc, p) /\ Collected(gc, p) /\ ~ Marked(gc, p) /\ closure[p] # "IND"
BF_EVACUATED(gc, p) == ~ Collected(gc, p)
STATIC_LINK(gc, p) == gc.major /\ Live(gc, p)

\* What pruneSparkQueue does with a spark: the count it adds it to, or "keep".
Verdict(gc, p) ==
  CASE p \in Heap /\ (Forwarded(gc, p) \/ BF_EVACUATED(gc, p)) ->
         IF closure_SHOULD_SPARK(p) THEN "keep" ELSE "fizzled"
    [] p \in Static /\ closure[p] # "THUNK" -> "fizzled"
    [] p \in Static /\ STATIC_LINK(gc, p) -> "keep"
    [] OTHER -> "gcd"

\* The next index, "instantly" wrapped around.
Inc(i) == IF i + 1 = Size THEN 0 ELSE i + 1

PruneSpark(gc, s) ==
  LET p == s.elements[s.currInd]
      on == [s EXCEPT !.currInd = Inc(@)]
  IN  IF Verdict(gc, p) = "keep"
      THEN [on EXCEPT !.elements = [@ EXCEPT ![s.botInd] = p], !.botInd = Inc(@)]
      ELSE [on EXCEPT !.stats = [@ EXCEPT ![Verdict(gc, p)] = @ + 1]]

\* The sparks that are kept are moved, in place, to where the pool ended.  The loop
\* runs until currInd meets oldBotInd.
pruneSparkQueue(gc, pool, stats) ==
  LET top == IF pool.top > pool.bottom THEN pool.bottom ELSE pool.top
      currInd == top % Size
      oldBotInd == (pool.bottom - (top - currInd)) % Size
      rounds == IF currInd <= oldBotInd THEN oldBotInd - currInd ELSE oldBotInd + Size - currInd
      loop[k \in Nat] ==
        IF k = 0 THEN [currInd |-> currInd, botInd |-> oldBotInd, elements |-> pool.elements, stats |-> stats]
        ELSE PruneSpark(gc, loop[k - 1])
      end == loop[rounds]
  IN  [pool |-> [top |-> oldBotInd, topBound |-> oldBotInd, elements |-> end.elements,
                 bottom |-> IF oldBotInd <= end.botInd THEN end.botInd ELSE end.botInd + Size],
       stats |-> end.stats]

\* The specification of pruning: thunks that somebody may still need stay.  Whatever this
\* collection does not collect may be needed.
Worthwhile(gc, p) ==
  /\ closure[p] = "THUNK"
  /\ \/ Live(gc, p)
     \/ IF p \in Heap THEN ~ Collected(gc, p) ELSE ~ gc.major

\* Pruning takes two kinds of living thunks for dead ones: those of an old generation that is
\* marked, which are not forwarded, and CAFs in a minor collection, which does not link them.
Mistaken(gc, p) == IF p \in Heap THEN Collected(gc, p) /\ Marked(gc, p) ELSE ~ gc.major

GarbageCollect(gc) ==
  LET pruned == [c \in Caps |-> pruneSparkQueue(gc, sparks[c], spark_stats[c])]
  IN  /\ gcs > 0 /\ \A c \in Caps : search[c] = Idle
      /\ sparks' = [c \in Caps |-> pruned[c].pool]
      /\ spark_stats' = [c \in Caps |-> pruned[c].stats]
      /\ queue' = [c \in Caps |-> SelectSeq(queue[c], LAMBDA p : Worthwhile(gc, p) /\ ~ Mistaken(gc, p))]
      /\ lost' = (lost \/ \E c \in Caps : \E p \in ToSet(queue[c]) : Worthwhile(gc, p) /\ Mistaken(gc, p))
      /\ gone' = gone \cup {p \in Heap : Collected(gc, p) /\ (~ Live(gc, p) \/ closure[p] = "IND")}
      /\ gen' = [p \in Heap |-> 1]
      /\ roots' = gc.refs
      /\ gcs' = gcs - 1
      /\ UNCHANGED <<search, sparkThread, closure, pars, threads, sched_state>>

\* At the end of the program the sparks count as collected.
deleteAllThreads ==
  /\ sched_state = "RUNNING" /\ \A c \in Caps : search[c] = Idle
  /\ spark_stats' = [c \in Caps |-> [spark_stats[c] EXCEPT !.gcd = @ + sparkPoolSize(sparks[c])]]
  /\ sparks' = [c \in Caps |-> discardSparks(sparks[c])]
  /\ queue' = [c \in Caps |-> <<>>]
  /\ sparkThread' = [c \in Caps |-> [alive |-> FALSE, evals |-> NULL]]
  /\ sched_state' = "SHUTTING_DOWN"
  /\ UNCHANGED <<search, closure, gen, roots, gone, pars, threads, gcs, lost>>

Next ==
  \/ \E c \in Caps, p \in Closures : newSpark(c, p)
  \/ \E p \in Closures : Evaluate(p)
  \/ \E c \in Caps :
       \/ scheduleActivateSpark(c) \/ findSpark(c)
       \/ tryStealSpark(c) \/ CheckSpark(c) \/ StealFails(c) \/ Visit(c)
  \/ \E gc \in Collections : GarbageCollect(gc)
  \/ deleteAllThreads

-----------------------------------------------------------------------------
(* Properties *)

Contents(pool) == [i \in 1 .. sparkPoolSize(pool) |-> pool.elements[(pool.top + i - 1) % Size]]
InHand(c) == IF search[c].at = "check" THEN 1 ELSE 0

\* The sum of a count over the Capabilities.
Total(f) ==
  LET sum[n \in Nat] == IF n = 0 THEN 0 ELSE sum[n - 1] + f[n - 1]
  IN  sum[n_capabilities]
Stat(field) == Total([c \in Caps |-> spark_stats[c][field]])
Remaining == Total([c \in Caps |-> sparkPoolSize(sparks[c])])

\* A spark that was created is in a pool, converted, collected, fizzled, or in the
\* hands of a search: checkSparkCountInvariant, which the scheduler asserts around a
\* collection, when there is no search.
checkSparkCountInvariant ==
  Stat("created") = Stat("converted") + Remaining + Stat("gcd") + Stat("fizzled") + Total([c \in Caps |-> InHand(c)])

\* Pushing, stealing and pruning in place, with indices that wrap around and are
\* reset, treat a pool as a queue with room for Size - 1 sparks, from which pruning
\* takes exactly the sparks that are worth nothing, and those that are Mistaken.
PoolsAreQueues == \A c \in Caps :
  /\ Contents(sparks[c]) = queue[c]
  /\ sparks[c].topBound <= sparks[c].top

\* Pruning takes nothing else.  TLC refutes it, for both kinds of Mistaken sparks.
NoneLost == ~ lost

\* A spark is a weak reference that pruning breaks in time: no pool and no search has
\* a closure whose memory was reclaimed.
NothingDangles == \A c \in Caps :
  search[c].spark \notin gone /\ ToSet(Contents(sparks[c])) \cap gone = {}

SparksSound == checkSparkCountInvariant /\ PoolsAreQueues /\ NothingDangles
=============================================================================
