----------------------------- MODULE BlockAlloc -----------------------------
(***************************************************************************)
(* The block allocator (rts/sm/BlockAlloc.c).  Blocks are numbered through *)
(* the address space: block i of megablock m is m * Blocks + i, where only *)
(* the first PerMBlock have a descriptor.  A free list is a sequence.      *)
(***************************************************************************)
EXTENDS Integers, Sequences, FiniteSets, FiniteSetsExt, SequencesExt

CONSTANTS PerMBlock,      \* BLOCKS_PER_MBLOCK
          Blocks,         \* MBLOCK_SIZE / BLOCK_SIZE
          MBlock,         \* the megablocks there are, numbered from 0
          Sizes,          \* the sizes of groups that are asked for
          MAX_FREE_LIST   \* the number of buckets

VARIABLES bdesc,             \* the block descriptors
          free_list,         \* the buckets of free groups
          free_mblock_list,  \* the free megablock groups
          n_alloc_blocks,
          mblocks,           \* the megablocks the operating system has given
          held,              \* the groups that are allocated
          allocUp            \* running or barf

vars == <<bdesc, free_list, free_mblock_list, n_alloc_blocks, mblocks, held, allocUp>>

Buckets == 0..(MAX_FREE_LIST - 1)
Bdescr == {m * Blocks + i : m \in MBlock, i \in 0..(PerMBlock - 1)}
FREE == -1

FirstBdescr(p) == (p \div Blocks) * Blocks
LastBdescr(p) == FirstBdescr(p) + PerMBlock - 1

MBLOCK_GROUP_BLOCKS(n) == PerMBlock + (n - 1) * Blocks
BLOCKS_TO_MBLOCKS(n) == 1 + (n - PerMBlock + Blocks - 1) \div Blocks

\* Memory that holds no descriptor: whatever a large object left there.
Junk == [blocks |-> 0, free |-> FREE, link |-> 0]

initBlockAllocator ==
  /\ bdesc = [b \in Bdescr |-> Junk]
  /\ free_list = [ln \in Buckets |-> <<>>] /\ free_mblock_list = <<>>
  /\ n_alloc_blocks = 0 /\ mblocks = {} /\ held = {} /\ allocUp = "running"

State == [bd |-> bdesc, fl |-> free_list, ml |-> free_mblock_list, n |-> n_alloc_blocks, mb |-> mblocks,
          held |-> held, up |-> allocUp]

-----------------------------------------------------------------------------
(* Descriptors and buckets. *)

initGroup(S, h) ==
  [S EXCEPT !.bd = [b \in Bdescr |-> IF b = h THEN [@[b] EXCEPT !.free = 0, !.link = 0]
                                     ELSE IF b > h /\ b < h + S.bd[h].blocks /\ b <= LastBdescr(h)
                                     THEN [blocks |-> 0, free |-> 0, link |-> h]
                                     ELSE @[b]]]

log_2_ceil(n) == IF \E i \in Buckets : 2^i >= n THEN Min({i \in Buckets : 2^i >= n}) ELSE MAX_FREE_LIST
log_2(n) == CHOOSE i \in 0..MAX_FREE_LIST : 2^i <= n /\ n < 2^(i + 1)

free_list_insert(S, b) == [S EXCEPT !.fl[log_2(S.bd[b].blocks)] = <<b>> \o @]
dbl_link_remove(S, b, ln) == [S EXCEPT !.fl[ln] = Remove(@, b)]

tail_of(S, b) == b + S.bd[b].blocks - 1

setup_tail(S, b) ==
  IF tail_of(S, b) = b THEN S
  ELSE [S EXCEPT !.bd[tail_of(S, b)] = [blocks |-> 0, free |-> 0, link |-> b]]

SetBlocks(S, b, n) == [S EXCEPT !.bd[b].blocks = n]

\* split_free_block: the last n blocks of a free group.
split_free_block(S, b, n, ln) ==
  LET fg == b + S.bd[b].blocks - n
      T == SetBlocks(SetBlocks(dbl_link_remove(S, b, ln), fg, n), b, S.bd[b].blocks - n)
  IN  [S |-> free_list_insert(setup_tail(T, b), b), b |-> fg]

-----------------------------------------------------------------------------
(* Megablock groups. *)

\* getMBlocks: the megablocks from os on, which the operating system has chosen; initMBlock.
getMBlocks(S, k, os) == [S EXCEPT !.mb = @ \union os..(os + k - 1)]

\* alloc_mega_group: a free group of the right size, the end of the smallest that is
\* larger, or new megablocks.
alloc_mega_group(S, k, os) ==
  LET n == MBLOCK_GROUP_BLOCKS(k)
      exact == {i \in DOMAIN S.ml : S.bd[S.ml[i]].blocks = n}
      larger == {i \in DOMAIN S.ml : S.bd[S.ml[i]].blocks > n}
      best == S.ml[CHOOSE i \in larger : \A j \in larger : \/ S.bd[S.ml[i]].blocks < S.bd[S.ml[j]].blocks
                                                           \/ S.bd[S.ml[i]].blocks = S.bd[S.ml[j]].blocks /\ i <= j]
      size == BLOCKS_TO_MBLOCKS(S.bd[best].blocks)
      end == best + (size - k) * Blocks
  IN  IF exact # {} THEN [S |-> [S EXCEPT !.ml = RemoveAt(@, Min(exact))], b |-> S.ml[Min(exact)]]
      ELSE IF larger # {}
      THEN [S |-> SetBlocks(SetBlocks(S, best, MBLOCK_GROUP_BLOCKS(size - k)), end, n), b |-> end]
      ELSE [S |-> SetBlocks(getMBlocks(S, k, os), os * Blocks, n), b |-> os * Blocks]

\* Mutant: two megablock groups are merged whether or not they are neighbours.
coalesce_mblocksAlways(S, i) ==
  IF i < Len(S.ml) THEN
    [S EXCEPT !.bd[S.ml[i]].blocks =
                MBLOCK_GROUP_BLOCKS(BLOCKS_TO_MBLOCKS(@) + BLOCKS_TO_MBLOCKS(S.bd[S.ml[i + 1]].blocks)),
              !.ml = RemoveAt(@, i + 1)]
  ELSE S

\* coalesce_mblocks: with the next group of the list, if that is its neighbour.
coalesce_mblocks(S, i) ==
  IF i < Len(S.ml) /\ S.ml[i + 1] = S.ml[i] + BLOCKS_TO_MBLOCKS(S.bd[S.ml[i]].blocks) * Blocks THEN
    [S EXCEPT !.bd[S.ml[i]].blocks =
                MBLOCK_GROUP_BLOCKS(BLOCKS_TO_MBLOCKS(@) + BLOCKS_TO_MBLOCKS(S.bd[S.ml[i + 1]].blocks)),
              !.ml = RemoveAt(@, i + 1)]
  ELSE S

\* free_mega_group: into its place in the list, which is sorted by address.
free_mega_group(S, mg) ==
  LET i == Cardinality({j \in DOMAIN S.ml : S.ml[j] < mg}) + 1
      T == [S EXCEPT !.ml = InsertAt(@, i, mg)]
      U == IF i > 1 THEN coalesce_mblocks(T, i - 1) ELSE T
  IN  IF i > 1 /\ Len(U.ml) < Len(T.ml) THEN coalesce_mblocks(U, i - 1) ELSE coalesce_mblocks(U, i)

-----------------------------------------------------------------------------
(* Freeing. *)

Forwards(S, p) ==
  LET next == p + S.bd[p].blocks
  IN  IF next <= LastBdescr(p) /\ S.bd[next].free = FREE
      THEN SetBlocks(dbl_link_remove(S, next, log_2(S.bd[next].blocks)), p, S.bd[p].blocks + S.bd[next].blocks)
      ELSE S

HeadBefore(S, p) == IF S.bd[p - 1].blocks = 0 THEN S.bd[p - 1].link ELSE p - 1

Backwards(S, p) ==
  IF p # FirstBdescr(p) /\ S.bd[HeadBefore(S, p)].free = FREE
  THEN LET h == HeadBefore(S, p)
       IN  [S |-> SetBlocks(dbl_link_remove(S, h, log_2(S.bd[h].blocks)), h, S.bd[h].blocks + S.bd[p].blocks), b |-> h]
  ELSE [S |-> S, b |-> p]

Insert(S, p) == IF S.bd[p].blocks >= PerMBlock THEN free_mega_group(S, p) ELSE free_list_insert(setup_tail(S, p), p)

\* A group of less than a megablock: merged with the next, with the previous, and then
\* into its list.
FreeSmall(S, p) ==
  LET F == Forwards([S EXCEPT !.bd[p].free = FREE, !.n = @ - S.bd[p].blocks], p)
      G == IF F.bd[p].blocks # S.bd[p].blocks THEN setup_tail(F, p) ELSE F
  IN  IF F.bd[p].blocks = PerMBlock THEN free_mega_group(F, p)
      ELSE Insert(Backwards(G, p).S, Backwards(G, p).b)

freeGroupOf(S, p) ==
  IF S.bd[p].blocks >= PerMBlock
  THEN free_mega_group([S EXCEPT !.bd[p].free = FREE, !.n = @ - BLOCKS_TO_MBLOCKS(S.bd[p].blocks) * PerMBlock], p)
  ELSE FreeSmall(S, p)

-----------------------------------------------------------------------------
(* Allocating. *)

\* A whole number of megablocks; what is behind the first one's descriptors is overwritten.
AllocLarge(S, k, os) ==
  LET A == alloc_mega_group([S EXCEPT !.n = @ + k * PerMBlock], k, os)
      T == initGroup(A.S, A.b)
  IN  [S |-> [T EXCEPT !.bd = [b \in Bdescr |-> IF b > LastBdescr(A.b) /\ b < A.b + k * Blocks THEN Junk ELSE @[b]]],
       b |-> A.b]

\* From a new megablock: the rest of it is freed.
AllocFresh(S, n, os) ==
  LET A == alloc_mega_group(S, 1, os)
      rem == A.b + n
      T == initGroup(SetBlocks(A.S, A.b, n), A.b)
      U == initGroup(SetBlocks(T, rem, PerMBlock - n), rem)
  IN  [S |-> freeGroupOf([U EXCEPT !.n = @ + PerMBlock - n], rem), b |-> A.b]

AllocFrom(S, n, ln) ==
  LET b == Head(S.fl[ln])
      A == split_free_block(S, b, n, ln)
  IN  CASE S.bd[b].blocks = n -> [S |-> initGroup(dbl_link_remove(S, b, ln), b), b |-> b]
        [] S.bd[b].blocks > n -> [S |-> initGroup(A.S, A.b), b |-> A.b]
        [] OTHER -> [S |-> [S EXCEPT !.up = "barf"], b |-> b]

AllocSmall(S, n, os) ==
  LET found == {ln \in Buckets : ln >= log_2_ceil(n) /\ S.fl[ln] # <<>>}
  IN  IF found = {} THEN AllocFresh([S EXCEPT !.n = @ + n], n, os)
      ELSE AllocFrom([S EXCEPT !.n = @ + n], n, Min(found))

-----------------------------------------------------------------------------
(* The operations. *)

\* Between the head and the tail of a free group the descriptors are not maintained.
Unmaintained(S) ==
  LET small == UNION {Range(S.fl[ln]) : ln \in Buckets}
  IN  UNION {(b + 1)..(b + S.bd[b].blocks - 2) : b \in small}
        \union UNION {(b + 1)..(b + S.bd[b].blocks - 1) : b \in Range(S.ml)}

Become(S) ==
  /\ \E gap \in {Unmaintained(S)} :
       bdesc' = [b \in Bdescr |-> IF b \in gap THEN Junk
                                 ELSE IF S.bd[b].blocks > 0 THEN [S.bd[b] EXCEPT !.link = 0] ELSE S.bd[b]]
  /\ free_list' = S.fl /\ free_mblock_list' = S.ml /\ n_alloc_blocks' = S.n
  /\ mblocks' = S.mb /\ held' = S.held /\ allocUp' = S.up

\* Where the operating system can give k megablocks, if nothing that is free will do.
Room(k, n) ==
  IF \/ \E i \in DOMAIN free_mblock_list : bdesc[free_mblock_list[i]].blocks >= MBLOCK_GROUP_BLOCKS(k)
     \/ n < PerMBlock /\ \E ln \in Buckets : ln >= log_2_ceil(n) /\ free_list[ln] # <<>>
  THEN {0} ELSE {m \in MBlock : m..(m + k - 1) \subseteq MBlock \ mblocks}

allocGroup(n) ==
  /\ allocUp = "running"
  /\ \E k \in {IF n >= PerMBlock THEN BLOCKS_TO_MBLOCKS(n) ELSE 1} : \E os \in Room(k, n) :
       \E A \in {IF n >= PerMBlock THEN AllocLarge(State, k, os) ELSE AllocSmall(State, n, os)} :
         Become([A.S EXCEPT !.held = @ \union {A.b}])

freeGroup(p) ==
  /\ allocUp = "running"
  /\ Become(freeGroupOf([State EXCEPT !.held = @ \ {p}], p))

\* freeMBlocks: megablocks that the system takes back hold nothing any more.
freeMBlocks(S, m, k) ==
  [S EXCEPT !.mb = @ \ (m..(m + k - 1)),
            !.bd = [b \in Bdescr |-> IF b \div Blocks \in m..(m + k - 1) THEN Junk ELSE @[b]]]

\* returnMemoryToOS: free megablock groups from the front of the list, and the end of one.
RECURSIVE ReturnFrom(_, _)
ReturnFrom(S, n) ==
  LET b == Head(S.ml)
      size == BLOCKS_TO_MBLOCKS(S.bd[b].blocks)
  IN  IF n = 0 \/ S.ml = <<>> THEN S
      ELSE IF size > n
      THEN freeMBlocks(SetBlocks(S, b, MBLOCK_GROUP_BLOCKS(size - n)), b \div Blocks + size - n, n)
      ELSE ReturnFrom(freeMBlocks([S EXCEPT !.ml = Tail(@)], b \div Blocks, size), n - size)

returnMemoryToOS(n) ==
  /\ allocUp = "running" /\ free_mblock_list # <<>>
  /\ Become(ReturnFrom(State, n))

Next ==
  \/ \E n \in Sizes : allocGroup(n)
  \/ \E p \in held : freeGroup(p)
  \/ \E n \in 1..Cardinality(MBlock) : returnMemoryToOS(n)

Spec == initBlockAllocator /\ [][Next]_vars

-----------------------------------------------------------------------------
(* Properties. *)

\* The blocks of a group; those of a large group include the ones without a descriptor.
Span(b) == b..(b + bdesc[b].blocks - 1)

FreeSmallGroups == UNION {Range(free_list[ln]) : ln \in Buckets}
Heads == held \union FreeSmallGroups \union Range(free_mblock_list)

\* Every block the system has given belongs to exactly one group, allocated or free, after
\* any sequence of splits and merges: none is lost and none is handed out twice.
GroupsPartition ==
  /\ allocUp = "running"
  /\ \A b, c \in Heads : b # c => Span(b) \intersect Span(c) = {}
  /\ UNION {Span(b) : b \in Heads} \intersect Bdescr = {b \in Bdescr : b \div Blocks \in mblocks}
  /\ held \intersect (FreeSmallGroups \union Range(free_mblock_list)) = {}

\* checkFreeListSanity: every free group is in the bucket of its size with a tail that leads
\* to its head, and no two free groups are neighbours, whatever the order of the frees.
FreeListSanity ==
  /\ \A ln \in Buckets : \A b \in Range(free_list[ln]) :
       /\ bdesc[b].free = FREE /\ bdesc[b].blocks \in 2^ln..(2^(ln + 1) - 1) /\ bdesc[b].blocks < PerMBlock
       /\ tail_of(State, b) # b => bdesc[tail_of(State, b)] = [blocks |-> 0, free |-> 0, link |-> b]
       /\ b + bdesc[b].blocks <= LastBdescr(b) => bdesc[b + bdesc[b].blocks].free # FREE
  /\ \A i \in 1..(Len(free_mblock_list) - 1) :
       LET b == free_mblock_list[i]
       IN  b + BLOCKS_TO_MBLOCKS(bdesc[b].blocks) * Blocks < free_mblock_list[i + 1]
  /\ \A b \in Range(free_mblock_list) : bdesc[b].blocks = MBLOCK_GROUP_BLOCKS(BLOCKS_TO_MBLOCKS(bdesc[b].blocks))

\* memInventory's sum: the count of allocated blocks is that of the groups that are held,
\* where the blocks a large group has in place of descriptors do not count.
Inventory ==
  n_alloc_blocks = MapThenSumSet(LAMBDA b : IF bdesc[b].blocks >= PerMBlock
                                            THEN BLOCKS_TO_MBLOCKS(bdesc[b].blocks) * PerMBlock
                                            ELSE bdesc[b].blocks, held)
=============================================================================
