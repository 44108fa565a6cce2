----------------------------- MODULE MBlockMap ------------------------------
(***************************************************************************)
(* Which megablocks belong to the heap (rts/sm/MBlock.c on 64-bit          *)
(* machines): a map for each 4GB of the address space that has been used,  *)
(* and a direct-mapped cache in front of them.  A megablock is a pair of   *)
(* its 4GB and its line there.                                             *)
(***************************************************************************)
EXTENDS Integers, Sequences, FiniteSets

CONSTANTS High,         \* the 4GB regions, numbered
          Line,         \* the lines of a map, numbered from 0
          Static,       \* megablocks that hold static closures
          Thread,       \* the GC threads
          MBC_ENTRIES   \* the size of the cache

VARIABLES mblock_maps,    \* the maps: in which order, and their lines
          mblock_cache,   \* the megablock and value of every entry, or {}
          asked,          \* what a thread is asking about, if it has missed the cache
          answered        \* the last answer of a thread

vars == <<mblock_maps, mblock_cache, asked, answered>>

Megablock == High \X Line
Number(m) == m[1] * Cardinality(Line) + m[2]
Entry(m) == Number(m) % MBC_ENTRIES

initMBlocks ==
  /\ mblock_maps = <<>>
  /\ mblock_cache = [e \in 0..(MBC_ENTRIES - 1) |-> {}]
  /\ asked = [t \in Thread |-> {}] /\ answered = [t \in Thread |-> {}]

\* findMBlockMap: the map of a region, if it has one.
findMBlockMap(m) == {i \in DOMAIN mblock_maps : mblock_maps[i].high = m[1]}
Marked(m) == \E i \in findMBlockMap(m) : m[2] \in mblock_maps[i].lines
Heap == {m \in Megablock : Marked(m)}

\* setHeapAlloced: the map, which may be a new one, and the cache.
setHeapAlloced(m, b) ==
  /\ mblock_maps' = (IF findMBlockMap(m) = {} THEN Append(mblock_maps, [high |-> m[1], lines |-> {m[2]}])
                     ELSE [i \in DOMAIN mblock_maps |-> IF i \notin findMBlockMap(m) THEN mblock_maps[i]
                           ELSE [mblock_maps[i] EXCEPT !.lines = IF b THEN @ \union {m[2]} ELSE @ \ {m[2]}]])
  /\ mblock_cache' = [mblock_cache EXCEPT ![Entry(m)] = {<<m, b>>}]

getMBlock(m) ==
  /\ m \notin Heap \union Static
  /\ setHeapAlloced(m, TRUE)
  /\ UNCHANGED <<asked, answered>>

\* Memory that a thread still has a pointer to is not given back.
freeMBlock(m) ==
  /\ m \in Heap /\ \A t \in Thread : asked[t] # {m}
  /\ setHeapAlloced(m, FALSE)
  /\ answered' = [t \in Thread |-> {x \in answered[t] : x[1] # m}]
  /\ UNCHANGED asked

\* HEAP_ALLOCED_GC: the cache is read without a lock; a miss takes the lock.
HEAP_ALLOCED_GC(t, m) ==
  /\ asked[t] = {} /\ m \in Heap \union Static
  /\ LET hit == {x \in mblock_cache[Entry(m)] : x[1] = m}
     IN  IF hit # {} THEN answered' = [answered EXCEPT ![t] = hit] /\ UNCHANGED asked
         ELSE asked' = [asked EXCEPT ![t] = {m}] /\ UNCHANGED answered
  /\ UNCHANGED <<mblock_maps, mblock_cache>>

HEAP_ALLOCED_miss(t) ==
  /\ \E m \in asked[t] :
       /\ mblock_cache' = [mblock_cache EXCEPT ![Entry(m)] = {<<m, Marked(m)>>}]
       /\ answered' = [answered EXCEPT ![t] = {<<m, Marked(m)>>}]
  /\ asked' = [asked EXCEPT ![t] = {}]
  /\ UNCHANGED mblock_maps

\* getFirstMBlock: the first line of the first map only.
Least(S) == CHOOSE x \in S : \A y \in S : x <= y

getFirstMBlock ==
  IF mblock_maps # <<>> /\ mblock_maps[1].lines # {}
  THEN {<<mblock_maps[1].high, Least(mblock_maps[1].lines)>>} ELSE {}

\* getNextMBlock: the rest of the map, and the ones behind it from their first line.
getNextMBlock(m) ==
  LET j == CHOOSE i \in findMBlockMap(m) : TRUE
      here == {l \in mblock_maps[j].lines : l > m[2]}
      later == {i \in DOMAIN mblock_maps : i > j /\ mblock_maps[i].lines # {}}
  IN  IF here # {} THEN {<<m[1], Least(here)>>}
      ELSE IF later = {} THEN {}
      ELSE {<<mblock_maps[Least(later)].high, Least(mblock_maps[Least(later)].lines)>>}

Next ==
  \/ \E m \in Megablock : getMBlock(m) \/ freeMBlock(m)
  \/ \E t \in Thread : HEAP_ALLOCED_miss(t) \/ \E m \in Megablock : HEAP_ALLOCED_GC(t, m)

Spec == initMBlocks /\ [][Next]_vars

-----------------------------------------------------------------------------
(* Properties. *)

\* The cache never disagrees with the maps, whatever is allocated and freed between the
\* reads of the threads that share it, and so no thread has a wrong answer about memory
\* that is still what it was.
CacheAgrees ==
  /\ \A e \in DOMAIN mblock_cache : \A x \in mblock_cache[e] : x[2] = (x[1] \in Heap)
  /\ \A t \in Thread : \A x \in answered[t] : x[2] = (x[1] \in Heap)

\* osFreeAllMBlocks frees everything: the walk by getFirstMBlock and getNextMBlock meets
\* every megablock of the heap, provided that the first region that was used still has one.
RECURSIVE Walk(_, _)
Walk(at, seen) == IF at = {} THEN seen ELSE Walk(UNION {getNextMBlock(m) : m \in at}, seen \union at)

WalkMeetsAll == getFirstMBlock # {} => Walk(getFirstMBlock, {}) = Heap
=============================================================================
