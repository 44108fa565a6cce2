------------------------------- MODULE Storage -------------------------------
(***************************************************************************)
(* The storage manager's front end (sm/Storage.c): the nurseries and what  *)
(* is allocated in them, by Haskell code through Hp and HpLim and by       *)
(* allocate(); large and pinned objects; the accounting of it all; and the *)
(* sizes of nurseries and generations after a collection (sm/GC.c).        *)
(*                                                                         *)
(* A block descriptor stands for its block or group of blocks, and free is *)
(* the number of words from its start.  The block allocator is BlockAlloc; *)
(* here it hands out a descriptor that is not in use.                      *)
(***************************************************************************)
EXTENDS Integers, Sequences, FiniteSets, SequencesExt

CONSTANTS BLOCK_SIZE_W,     \* words in a block
          THRESHOLD,        \* words of the smallest large object
          Bdescrs,          \* the block descriptors, positive numbers
          NatRange,         \* 2^32, where a nat wraps around
          Setups            \* RtsFlags.GcFlags, with what the program asks for

VARIABLES flags,            \* the member of Setups the program runs with
          bd,               \* the block descriptors
          nurseries,        \* blocks and n_blocks of each Capability's nursery
          reg,              \* Hp, rCurrentNursery, rCurrentAlloc, pinned_object_block of each
          gens,             \* the generations; the large objects are a set
          exec,             \* exec_block, and the chunks in use
          heap_overflow,
          g0_pcnt_kept,     \* percentage of the nurseries that the last minor collection kept
          status,           \* "up", or how the program has ended
          left,             \* the requests and collections that may follow
          given, counted,   \* history: words handed out; words that collections have counted
          used, clash       \* history: how far each block is in use; a word was handed out twice

NULL == 0
Caps == 1 .. flags.caps
Gens == 0 .. flags.generations - 1
oldest == flags.generations - 1
NoThread == -1

Capacity(b) == b.blocks * BLOCK_SIZE_W
RoundUp(n) == (n + BLOCK_SIZE_W - 1) \div BLOCK_SIZE_W
Larger(a, b) == IF a > b THEN a ELSE b
RECURSIVE Total(_, _)
Total(S, f) == IF S = {} THEN 0 ELSE LET x == CHOOSE y \in S : TRUE IN f[x] + Total(S \ {x}, f)
SumOver(S, f(_)) == Total(S, [x \in S |-> f(x)])

-----------------------------------------------------------------------------
(* Block descriptors and lists of them *)

Unused == [blocks |-> 0, free |-> 0, link |-> NULL, back |-> NULL, use |-> "free", dest |-> 0, live |-> 0]
Spare(d) == {x \in Bdescrs : d[x].use = "free"}
fresh(d) == CHOOSE x \in Spare(d) : \A y \in Spare(d) : x <= y

allocGroup(d, n, use) == [d EXCEPT ![fresh(d)] = [Unused EXCEPT !.blocks = n, !.use = use]]

Freed(d, S) == [x \in S |-> Unused] @@ d

SetBack(d, x, b) == IF x = NULL THEN d ELSE [d EXCEPT ![x].back = b]
SetLink(d, x, l) == IF x = NULL THEN d ELSE [d EXCEPT ![x].link = l]

dbl_link_onto(d, x, list) ==
  SetBack([d EXCEPT ![x].link = list, ![x].back = NULL], list, x)

dbl_link_remove(d, x) == SetBack(SetLink(d, d[x].back, d[x].link), d[x].link, d[x].back)

RECURSIVE Along(_, _, _)
Along(d, x, fuel) == IF x = NULL \/ fuel = 0 THEN <<>> ELSE <<x>> \o Along(d, d[x].link, fuel - 1)
Chain(d, x) == Along(d, x, Cardinality(Bdescrs) + 1)

BlocksOf(d, S) == SumOver(S, LAMBDA x : d[x].blocks)
countBlocks(d, x) == BlocksOf(d, ToSet(Chain(d, x)))
countOccupied(d, x) == SumOver(ToSet(Chain(d, x)), LAMBDA y : d[y].free)

\* n blocks in front of tail; the caller sees to it that there are as many.
RECURSIVE allocNursery(_, _, _)
allocNursery(d, tail, n) ==
  IF n = 0 THEN [bd |-> d, blocks |-> tail]
  ELSE allocNursery(dbl_link_onto(allocGroup(d, 1, "nursery"), fresh(d), tail), fresh(d), n - 1)

-----------------------------------------------------------------------------
(* Start-up *)

initStorage(f) ==
  LET max == IF f.max # 0 /\ f.suggestion > f.max THEN f.suggestion ELSE f.max
  IN  [f EXCEPT !.max = max, !.min = IF max # 0 /\ f.min > max THEN max ELSE f.min]

initGeneration(f, g) ==
  LET mark == g > 0 /\ g = f.generations - 1
  IN  [n_blocks |-> 0, large |-> {}, n_large_blocks |-> 0, n_new_large_words |-> 0, max_blocks |-> 0,
       mark |-> mark /\ (f.compact \/ f.sweep), compact |-> mark /\ f.compact]

\* The nurseries of Capabilities 1 .. n of at least one block each, one after the other.
RECURSIVE allocNurseries(_, _, _)
allocNurseries(d, n, blocks) ==
  IF n = 0 THEN [bd |-> d, nurseries |-> <<>>]
  ELSE LET r == allocNurseries(d, n - 1, blocks)
           a == allocNursery(r.bd, NULL, blocks)
       IN  [bd |-> a.bd, nurseries |-> Append(r.nurseries, [blocks |-> a.blocks, n_blocks |-> blocks])]

Init == \E f \in Setups :
          LET a == allocNurseries([x \in Bdescrs |-> Unused], f.caps, initStorage(f).min)
          IN  /\ flags = initStorage(f)
              /\ bd = a.bd
              /\ nurseries = a.nurseries
              /\ reg = [c \in 1 .. f.caps |-> [hp |-> NoThread, nursery |-> a.nurseries[c].blocks,
                                               alloc |-> NULL, pinned |-> NULL]]
              /\ gens = [g \in 0 .. f.generations - 1 |-> initGeneration(f, g)]
              /\ exec = [block |-> NULL, chunks |-> {}]
              /\ heap_overflow = FALSE /\ g0_pcnt_kept = 30 /\ status = "up"
              /\ left = [requests |-> f.requests, gcs |-> f.gcs]
              /\ given = 0 /\ counted = 0 /\ clash = FALSE
              /\ used = [x \in Bdescrs |-> 0]

-----------------------------------------------------------------------------
(* Haskell code.  Hp is an offset in the block of rCurrentNursery, whose free is out of date meanwhile. *)

Running(c) == reg[c].hp # NoThread
Current(c) == bd[reg[c].nursery]

\* n words at offset from of block x, which has the given number of blocks.
Give(x, blocks, from, n) ==
  /\ left.requests > 0 /\ left' = [left EXCEPT !.requests = @ - 1]
  /\ given' = given + n
  /\ used' = [used EXCEPT ![x] = from + n]
  /\ clash' = (clash \/ from < used[x] \/ from + n > blocks * BLOCK_SIZE_W)

NothingGiven == UNCHANGED <<left, given, used, clash>>

LoadThreadState(c) ==
  /\ ~Running(c)
  /\ reg' = [reg EXCEPT ![c].hp = Current(c).free]
  /\ NothingGiven
  /\ UNCHANGED <<flags, bd, nurseries, gens, exec, heap_overflow, g0_pcnt_kept, status, counted>>

SaveThreadState(c) ==
  /\ Running(c)
  /\ bd' = [bd EXCEPT ![reg[c].nursery].free = reg[c].hp]
  /\ reg' = [reg EXCEPT ![c].hp = NoThread]
  /\ NothingGiven
  /\ UNCHANGED <<flags, nurseries, gens, exec, heap_overflow, g0_pcnt_kept, status, counted>>

HeapCheck(c, n) ==
  /\ Running(c) /\ reg[c].hp + n <= Capacity(Current(c))
  /\ Give(reg[c].nursery, Current(c).blocks, reg[c].hp, n)
  /\ reg' = [reg EXCEPT ![c].hp = @ + n]
  /\ UNCHANGED <<flags, bd, nurseries, gens, exec, heap_overflow, g0_pcnt_kept, status, counted>>

\* GC_GENERIC goes on to the next block of the nursery, and the check is repeated there.
NextBlock(c, n) ==
  /\ Running(c) /\ reg[c].hp + n > Capacity(Current(c))
  /\ n <= BLOCK_SIZE_W /\ Current(c).link # NULL
  /\ bd' = [bd EXCEPT ![reg[c].nursery].free = reg[c].hp]
  /\ reg' = [reg EXCEPT ![c].nursery = Current(c).link, ![c].hp = bd[Current(c).link].free]
  /\ NothingGiven
  /\ UNCHANGED <<flags, nurseries, gens, exec, heap_overflow, g0_pcnt_kept, status, counted>>

\* The thread returns to the scheduler, which gives it a group of blocks or collects.
scheduleHandleHeapOverflow(c, n) ==
  LET cur == reg[c].nursery
      closed == [bd EXCEPT ![cur].free = reg[c].hp]
      x == fresh(bd)
      linked == SetLink([allocGroup(closed, RoundUp(n), "nursery") EXCEPT
                           ![x].link = cur, ![x].back = bd[cur].back, ![cur].back = x], bd[cur].back, x)
      large == n > BLOCK_SIZE_W /\ (bd[cur].link # NULL \/ nurseries[c].n_blocks = 1)
  IN  /\ Running(c) /\ reg[c].hp + n > Capacity(Current(c))
      /\ n > BLOCK_SIZE_W \/ Current(c).link = NULL
      /\ bd' = IF large THEN linked ELSE closed
      /\ nurseries' = IF large
                      THEN [nurseries EXCEPT ![c].n_blocks = @ + RoundUp(n),
                                             ![c].blocks = IF bd[cur].back = NULL THEN x ELSE @]
                      ELSE nurseries
      /\ reg' = [reg EXCEPT ![c].hp = NoThread, ![c].nursery = IF large THEN x ELSE @]
      /\ NothingGiven
      /\ UNCHANGED <<flags, gens, exec, heap_overflow, g0_pcnt_kept, status, counted>>

-----------------------------------------------------------------------------
(* allocate() and allocatePinned(), also called while a thread is running *)

OnLargeObjects(d, S) == [gens EXCEPT ![0].large = @ \cup S,
                                     ![0].n_large_blocks = @ + BlocksOf(d, S),
                                     ![0].n_new_large_words = @ + SumOver(S, LAMBDA x : d[x].free)]

AllocateLarge(c, n) ==
  LET x == fresh(bd)
      d == [allocGroup(bd, RoundUp(n), "large") EXCEPT ![x].free = n]
  IN  /\ n >= THRESHOLD /\ (flags.max = 0 \/ RoundUp(n) < flags.max)
      /\ Give(x, RoundUp(n), 0, n)
      /\ bd' = d
      /\ gens' = OnLargeObjects(d, {x})
      /\ UNCHANGED <<flags, nurseries, reg, exec, heap_overflow, g0_pcnt_kept, status, counted>>

\* heapOverflow(); stg_exit(EXIT_HEAPOVERFLOW);
AllocateTooLarge(c, n) ==
  /\ n >= THRESHOLD /\ flags.max > 0 /\ RoundUp(n) >= flags.max
  /\ heap_overflow' = TRUE /\ status' = "heap overflow"
  /\ NothingGiven
  /\ UNCHANGED <<flags, bd, nurseries, reg, gens, exec, g0_pcnt_kept, counted>>

Room(x, n) == x # NULL /\ bd[x].free + n <= BLOCK_SIZE_W

AllocateSmall(c, n) ==
  LET cur == reg[c].nursery
      next == bd[cur].link
      old == Room(reg[c].alloc, n)
      take == ~old /\ Room(next, n)
      x == IF old THEN reg[c].alloc ELSE IF take THEN next ELSE fresh(bd)
      d == IF old THEN bd
           ELSE dbl_link_onto(IF take THEN SetBack(SetLink(bd, cur, bd[next].link), bd[next].link, cur)
                              ELSE allocGroup(bd, 1, "nursery"), x, nurseries[c].blocks)
  IN  /\ n < THRESHOLD
      /\ Give(x, 1, d[x].free, n)
      /\ bd' = [d EXCEPT ![x].free = @ + n]
      /\ nurseries' = IF old THEN nurseries
                      ELSE [nurseries EXCEPT ![c].blocks = x, ![c].n_blocks = IF take THEN @ ELSE @ + 1]
      /\ reg' = [reg EXCEPT ![c].alloc = x]
      /\ UNCHANGED <<flags, gens, exec, heap_overflow, g0_pcnt_kept, status, counted>>

allocate(c, n) == AllocateLarge(c, n) \/ AllocateTooLarge(c, n) \/ AllocateSmall(c, n)

\* A small object; a large one is pinned anyway, and allocate's.
allocatePinned(c, n) ==
  LET p == reg[c].pinned
      x == IF Room(p, n) THEN p ELSE fresh(bd)
      d == IF Room(p, n) THEN bd ELSE allocGroup(bd, 1, "pinned")
  IN  /\ n < THRESHOLD
      /\ Give(x, 1, d[x].free, n)
      /\ bd' = [d EXCEPT ![x].free = @ + n, ![IF p = x \/ p = NULL THEN x ELSE p].use =
                                                IF p = x \/ p = NULL THEN "pinned" ELSE "large"]
      /\ gens' = IF p \in {x, NULL} THEN gens ELSE OnLargeObjects(bd, {p})
      /\ reg' = [reg EXCEPT ![c].pinned = x]
      /\ UNCHANGED <<flags, nurseries, exec, heap_overflow, g0_pcnt_kept, status, counted>>

-----------------------------------------------------------------------------
(* Executable memory, where libffi does not provide it.  live is in the code's gen_no. *)

allocateExec(n) ==
  LET old == exec.block
      fits == old # NULL /\ bd[old].free + n + 1 <= BLOCK_SIZE_W
      x == IF fits THEN old ELSE fresh(bd)
      d == IF fits THEN bd ELSE dbl_link_onto(allocGroup(bd, flags.page, "exec"), x, old)
  IN  /\ n + 1 <= BLOCK_SIZE_W
      /\ left.requests > 0 /\ left' = [left EXCEPT !.requests = @ - 1]
      /\ bd' = [d EXCEPT ![x].live = @ + n, ![x].free = @ + n + 1]
      /\ exec' = [block |-> x, chunks |-> exec.chunks \cup {[bd |-> x, at |-> d[x].free + 1, n |-> n]}]
      /\ UNCHANGED <<flags, nurseries, reg, gens, heap_overflow, g0_pcnt_kept, status, counted, given, used, clash>>

freeExec(k) ==
  LET x == k.bd
      d == [bd EXCEPT ![x].live = @ - k.n]
  IN  /\ k \in exec.chunks
      /\ exec' = [exec EXCEPT !.chunks = @ \ {k}]
      /\ bd' = IF d[x].live # 0 THEN d
               ELSE IF x # exec.block THEN Freed(dbl_link_remove(d, x), {x})
               ELSE [d EXCEPT ![x].free = 0]
      /\ NothingGiven
      /\ UNCHANGED <<flags, nurseries, reg, gens, heap_overflow, g0_pcnt_kept, status, counted>>

-----------------------------------------------------------------------------
(* The end of a collection.  Sizes are in blocks; what survives of the small objects is arbitrary. *)

calcAllocated(include_nurseries) ==
  gens[0].n_new_large_words +
  (IF include_nurseries THEN SumOver(Caps, LAMBDA c : countOccupied(bd, nurseries[c].blocks)) ELSE 0)

\* The oldest generation that is collected.
initialise_N(force) ==
  LET full == {g \in Gens : gens[g].n_blocks + gens[g].n_large_blocks >= gens[g].max_blocks}
                \cup (IF force THEN {oldest} ELSE {0})
  IN  CHOOSE g \in full : \A h \in full : h <= g

\* kept are the large objects that live, at least as old as evac afterwards.
CollectedGens(N, kept, evac, copied) ==
  LET goes(g) == {x \in kept : Larger(bd[x].dest, evac) = g}
  IN  [g \in Gens |->
        [gens[g] EXCEPT
           !.n_blocks = copied[g] + (IF g <= N THEN 0 ELSE @),
           !.large = goes(g) \cup (IF g <= N THEN {} ELSE @),
           !.n_large_blocks = BlocksOf(bd, goes(g)) + (IF g <= N THEN 0 ELSE @),
           !.n_new_large_words = IF g <= N THEN 0 ELSE @]]

MinAlloc == Larger((flags.pcFreeHeap * flags.max) \div 200, flags.min)

\* size generations of it, and the smallest nursery, at the next collection.
Needs(size, compact) == (IF compact THEN size + (size - 1) * (flags.generations - 2) * 2
                                    ELSE size * (flags.generations - 1) * 2) + MinAlloc

resize_generations(gs) ==
  LET live == gs[oldest].n_blocks + gs[oldest].n_large_blocks
      wanted == Larger(live * flags.oldGenFactor, flags.minOldGenSize)
      compact == flags.compact \/ (flags.max > 0 /\
                                   gs[oldest].n_blocks > (flags.compactThreshold * flags.max) \div 100)
      parts == (flags.generations - 1) * 2 - (IF compact THEN 1 ELSE 0)
      size == IF flags.max # 0 /\ Needs(wanted, compact) > flags.max
              THEN ((flags.max - MinAlloc) % NatRange) \div parts
              ELSE wanted
  IN  [gens |-> [g \in Gens |-> [gs[g] EXCEPT !.max_blocks = size,
                                   !.mark = IF g = oldest THEN compact \/ flags.sweep ELSE @,
                                   !.compact = IF g = oldest THEN compact ELSE @]],
       suggestion |-> IF flags.auto THEN wanted ELSE flags.suggestion,
       overflow |-> flags.max # 0 /\ (flags.max < MinAlloc \/ size < live)]

calcNeeded(gs) ==
  SumOver(Gens, LAMBDA g :
    LET n == gs[g].n_blocks
        again == g = 0 \/ n + gs[g].n_large_blocks > gs[g].max_blocks
    IN  n + gs[g].n_large_blocks
          + (IF again /\ gs[g].mark THEN n \div 64 + n \div 100 ELSE 0)
          + (IF again /\ ~gs[g].compact THEN n ELSE 0))

\* What the bits of a nat are as an int.
AsInt(n) == ((n + NatRange \div 2) % NatRange) - NatRange \div 2

\* The blocks of a nursery from now on.
resize_nursery(gs, suggestion, kept) ==
  LET min_nursery == flags.min * flags.caps
      blocks == gs[0].n_blocks
      adjusted == (flags.max - 2 * blocks) % NatRange
      near == flags.max # 0 /\ blocks * flags.oldGenFactor * 2 > flags.max
      suggested == ((suggestion - calcNeeded(gs)) * 100) \div (100 + kept)
  IN  IF flags.generations = 1 /\ near
      THEN [blocks |-> adjusted \div flags.caps,
            overflow |-> AsInt((adjusted * 100) \div flags.max) < flags.pcFreeHeap]
      ELSE [blocks |-> IF flags.generations = 1
                       THEN Larger(blocks * flags.oldGenFactor, min_nursery) \div flags.caps
                       ELSE IF suggestion # 0 THEN Larger(suggested, min_nursery) \div flags.caps
                       ELSE flags.min,
            overflow |-> FALSE]

\* Shrinking frees blocks from the front and follows the link of the last one it frees.
resizeNursery(r, c, blocks) ==
  LET n == r.nurseries[c].n_blocks
      s == Chain(r.bd, r.nurseries[c].blocks)
      without(i) == n - BlocksOf(r.bd, ToSet(SubSeq(s, 1, i)))
      i == CHOOSE j \in 0 .. Len(s) : without(j) <= blocks /\ \A k \in 0 .. j - 1 : without(k) > blocks
      d == SetBack(Freed(r.bd, ToSet(SubSeq(s, 1, i))), s[i + 1], NULL)
  IN  IF i = Len(s) THEN [r EXCEPT !.status = "fault"]
      ELSE IF blocks - without(i) > Cardinality(Spare(d)) THEN [r EXCEPT !.status = "out of memory"]
      ELSE LET a == allocNursery(d, s[i + 1], blocks - without(i))
           IN  [r EXCEPT !.bd = a.bd, !.nurseries[c] = [blocks |-> a.blocks, n_blocks |-> blocks]]

\* The nurseries of Capabilities 1 .. c, until one goes wrong.
RECURSIVE resizeNurseriesFixed(_, _, _)
resizeNurseriesFixed(r, c, blocks) ==
  IF c = 0 THEN r
  ELSE LET q == resizeNurseriesFixed(r, c - 1, blocks)
       IN  IF q.status = "up" THEN resizeNursery(q, c, blocks) ELSE q

\* Freeing the dead large objects, clearing the nurseries and taking down the sizes of generations.
Cleared(N, kept, evac) ==
  LET older(g) == IF g = oldest THEN g ELSE g + 1
      nursery == UNION {ToSet(Chain(bd, nurseries[c].blocks)) : c \in Caps}
  IN  [x \in kept |-> [bd[x] EXCEPT !.dest = older(Larger(@, evac))]]
        @@ [x \in nursery |-> [bd[x] EXCEPT !.free = 0]]
        @@ Freed(bd, UNION {gens[g].large : g \in 0 .. N})

Sized(N, gs) == IF N = oldest /\ oldest > 0 THEN resize_generations(gs)
                ELSE [gens |-> gs, suggestion |-> flags.suggestion, overflow |-> FALSE]

GarbageCollect(N, kept, evac, copied) ==
  /\ SumOver(Gens, LAMBDA g : copied[g]) <= SumOver(0 .. N, LAMBDA g : gens[g].n_blocks)
                                              + SumOver(Caps, LAMBDA c : nurseries[c].n_blocks)
  /\ left.gcs > 0 /\ left' = [left EXCEPT !.gcs = @ - 1]
  /\ counted' = counted + calcAllocated(TRUE)
  /\ \E sized \in {Sized(N, CollectedGens(N, kept, evac, copied))} :
       /\ gens' = sized.gens
       /\ flags' = [flags EXCEPT !.suggestion = sized.suggestion]
       /\ g0_pcnt_kept' = IF N = 0 /\ oldest > 0 /\ sized.suggestion # 0
                          THEN (SumOver(Gens, LAMBDA g : copied[g]) * 100)
                                 \div SumOver(Caps, LAMBDA c : nurseries[c].n_blocks)
                          ELSE g0_pcnt_kept
       /\ \E target \in {resize_nursery(sized.gens, sized.suggestion, g0_pcnt_kept')} :
            /\ heap_overflow' = (heap_overflow \/ sized.overflow \/ target.overflow)
            /\ \E r \in {resizeNurseriesFixed([bd |-> Cleared(N, kept, evac), nurseries |-> nurseries,
                                               status |-> "up"], flags.caps, target.blocks)} :
                 /\ bd' = r.bd /\ nurseries' = r.nurseries /\ status' = r.status
                 /\ reg' = [c \in Caps |-> [reg[c] EXCEPT !.nursery = r.nurseries[c].blocks, !.alloc = NULL]]
                 /\ used' = [x \in Bdescrs |-> IF r.bd[x].use \in {"large", "pinned"} THEN used[x] ELSE 0]
  /\ UNCHANGED <<exec, given, clash>>

\* What is reported at the end leaves out the blocks of pinned objects that are being filled.
exitStorage ==
  /\ \A c \in Caps : ~Running(c)
  /\ status' = "exit"
  /\ counted' = counted + calcAllocated(TRUE)
  /\ NothingGiven
  /\ UNCHANGED <<flags, bd, nurseries, reg, gens, exec, heap_overflow, g0_pcnt_kept>>

Next ==
  /\ status = "up"
  /\ \/ \E c \in Caps :
          \/ LoadThreadState(c)
          \/ SaveThreadState(c)
          \/ \E n \in flags.checks : HeapCheck(c, n) \/ NextBlock(c, n) \/ scheduleHandleHeapOverflow(c, n)
          \/ \E n \in flags.allocs : allocate(c, n)
          \/ \E n \in flags.pins : allocatePinned(c, n)
     \/ \E n \in flags.execs : allocateExec(n)
     \/ \E k \in exec.chunks : freeExec(k)
     \/ /\ \A c \in Caps : ~Running(c)
        /\ \E N \in {initialise_N(force) : force \in BOOLEAN}, evac \in {0, oldest},
              copied \in [Gens -> flags.keeps] :
             \E kept \in SUBSET UNION {gens[g].large : g \in 0 .. N} : GarbageCollect(N, kept, evac, copied)
     \/ exitStorage

-----------------------------------------------------------------------------

NurseryBlocks(c) == Chain(bd, nurseries[c].blocks)

\* A nursery is a doubly linked list of n_blocks blocks.  Hp and allocate() work in different blocks
\* of it, and no block after the current one has been used yet.
NurseriesLinked ==
  \A c \in Caps :
    LET s == NurseryBlocks(c)
    IN  /\ IsInjective(s)
        /\ \A i \in DOMAIN s : bd[s[i]].back = (IF i = 1 THEN NULL ELSE s[i - 1])
        /\ countBlocks(bd, nurseries[c].blocks) = nurseries[c].n_blocks
        /\ reg[c].alloc \in ToSet(s) \cup {NULL} /\ reg[c].alloc # reg[c].nursery
        /\ \E i \in DOMAIN s : s[i] = reg[c].nursery /\ \A j \in i + 1 .. Len(s) :
                                 bd[s[j]].blocks = 1 => used[s[j]] = bd[s[j]].free

\* Every block is in one place: a nursery, the large objects of a generation, a Capability's pinned
\* objects, executable memory, or free; and the generations count the blocks of their large objects.
BlocksInOnePlace ==
  LET places == {<<"nursery", c>> : c \in Caps} \cup {<<"large", g>> : g \in Gens}
                  \cup {<<"pinned", c>> : c \in Caps} \cup {<<"exec", 0>>, <<"free", 0>>}
      at(p) == CASE p[1] = "nursery" -> ToSet(NurseryBlocks(p[2]))
                 [] p[1] = "large" -> gens[p[2]].large
                 [] p[1] = "pinned" -> {reg[p[2]].pinned} \ {NULL}
                 [] p[1] = "exec" -> ToSet(Chain(bd, exec.block))
                 [] p[1] = "free" -> Spare(bd)
  IN  /\ \A x \in Bdescrs : \E p \in places : x \in at(p) /\ \A q \in places \ {p} : x \notin at(q)
      /\ \A g \in Gens : gens[g].n_large_blocks = BlocksOf(bd, gens[g].large)

\* Words in use that no collection has counted: in nurseries, large objects, pinned objects.
Uncounted ==
  LET hp(c) == IF Running(c) THEN reg[c].hp - Current(c).free ELSE 0
  IN  calcAllocated(TRUE) + SumOver(Caps, hp)

\* No word is handed out twice, and every word is counted once; at the end all but the pinned objects
\* in blocks that are not full.
EveryWordCounted ==
  LET pinned == SumOver({c \in Caps : reg[c].pinned # NULL}, LAMBDA c : bd[reg[c].pinned].free)
  IN  /\ ~clash
      /\ status = "up" => given = counted + Uncounted + pinned
      /\ status = "exit" => given = counted + pinned

\* Chunks of executable memory do not overlap, a block knows how much of it is in use, and only the
\* block at the head is kept for nothing.
ExecSound ==
  /\ \A k, l \in exec.chunks : k # l /\ k.bd = l.bd => k.at + k.n < l.at \/ l.at + l.n < k.at
  /\ \A k \in exec.chunks : k.at + k.n <= bd[k.bd].free /\ bd[k.bd].free <= BLOCK_SIZE_W
  /\ \A x \in ToSet(Chain(bd, exec.block)) :
       /\ bd[x].live = SumOver({k \in exec.chunks : k.bd = x}, LAMBDA k : k.n)
       /\ x # exec.block => bd[x].live > 0

\* Unless a heap overflow is reported the sizes that were chosen fit in the maximum heap size, and with
\* more than one generation no nursery is smaller than -A.  Only a heap check of more than -A blocks,
\* and -G1 with -M, can make a collection lose its way.
SizesFit ==
  /\ flags.generations > 1 /\ flags.max # 0 /\ gens[oldest].max_blocks # 0 /\ ~heap_overflow
       => Needs(gens[oldest].max_blocks, gens[oldest].compact) <= flags.max
  /\ flags.generations > 1 => \A c \in Caps : nurseries[c].n_blocks >= flags.min
  /\ status = "fault" => (flags.generations = 1 /\ flags.max # 0) \/ \E n \in flags.checks : RoundUp(n) > flags.min
  /\ status = "out of memory" => flags.generations = 1 /\ 0 < flags.max /\ flags.max < 2 * gens[0].n_blocks

AllocationSound == NurseriesLinked /\ BlocksInOnePlace /\ EveryWordCounted /\ ExecSound /\ SizesFit

=============================================================================
