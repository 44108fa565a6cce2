-------------------------------- MODULE OSMem --------------------------------
(***************************************************************************)
(* Where megablocks come from: rts/posix/OSMem.c, which maps memory and    *)
(* unmaps what is misaligned, and rts/win32/OSMem.c, which reserves        *)
(* regions and keeps the free parts of them in a list.  Addresses count    *)
(* in fractions of a megablock.                                            *)
(***************************************************************************)
EXTENDS Integers, Sequences, SequencesExt, FiniteSets

CONSTANTS MBLOCK_SIZE,   \* the size of a megablock
          Space,         \* the addresses the system has, an interval without 0
          Counts,        \* how many megablocks are asked for at once
          MaxFree        \* a bound on the length of the list of free blocks

VARIABLES os,            \* "posix" or "win32"
          allocs,        \* win32: the reserved regions, in ascending order
          free_blocks,   \* win32: the free parts of them
          next_request,  \* posix: where the next megablock is wanted
          backed,        \* the addresses that are mapped, or committed
          given,         \* the megablocks that the block allocator has
          returning,     \* returnMemoryToOS is giving some back
          osUp           \* running or exit

vars == <<os, allocs, free_blocks, next_request, backed, given, returning, osUp>>

NULL == 0
Interval(base, size) == base..(base + size - 1)
Units(blocks) == UNION {Interval(blocks[i].base, blocks[i].size) : i \in DOMAIN blocks}
Aligned(a) == a % MBLOCK_SIZE = 0
Slop(a) == a % MBLOCK_SIZE
RoundUp(a) == (a \div MBLOCK_SIZE) * MBLOCK_SIZE + MBLOCK_SIZE
End(b) == b.base + b.size

osMemInit ==
  /\ os \in {"posix", "win32"}
  /\ allocs = <<>> /\ free_blocks = <<>> /\ next_request = NULL /\ backed = {} /\ given = {}
  /\ returning = FALSE /\ osUp = "running"

-----------------------------------------------------------------------------
(* win32. *)

\* allocNew: a region of one megablock more than wanted, anywhere; kept in order.
allocNew(base, n) ==
  LET rec == [base |-> base, size |-> (n + 1) * MBLOCK_SIZE]
      i == Cardinality({j \in DOMAIN allocs : allocs[j].base < base})
  IN  InsertAt(allocs, i + 1, rec)

\* insertFree: merged with the block behind it, the one before it, or both.
insertFree(fb, base, size) ==
  LET later == {j \in DOMAIN fb : fb[j].base >= base}
      i == IF later = {} THEN Len(fb) + 1 ELSE CHOOSE j \in later : \A k \in later : j <= k
      behind == i <= Len(fb) /\ base + size = fb[i].base
      before == i > 1 /\ End(fb[i - 1]) = base
  IN  CASE behind /\ before -> RemoveAt([fb EXCEPT ![i - 1].size = @ + size + fb[i].size], i)
        [] behind /\ ~before -> [fb EXCEPT ![i] = [base |-> base, size |-> @.size + size]]
        [] ~behind /\ before -> [fb EXCEPT ![i - 1].size = @ + size]
        [] OTHER -> InsertAt(fb, i, [base |-> base, size |-> size])

\* findFreeBlocks: the first block that is large enough; from one that is not aligned the
\* part before the first aligned address stays free, also if nothing is left behind.
findFreeBlocks(fb, n) ==
  LET size == n * MBLOCK_SIZE
      fits == {j \in DOMAIN fb : fb[j].size >= size}
      i == CHOOSE j \in fits : \A k \in fits : j <= k
      need == RoundUp(fb[i].base)
      skip == need - fb[i].base
  IN  IF fits = {} THEN [ret |-> NULL, fb |-> fb]
      ELSE IF ~Aligned(fb[i].base)
      THEN [ret |-> need,
            fb |-> InsertAt([fb EXCEPT ![i].size = skip], i + 1,
                            [base |-> need + size, size |-> fb[i].size - (skip + size)])]
      ELSE IF fb[i].size = size THEN [ret |-> fb[i].base, fb |-> RemoveAt(fb, i)]
      ELSE [ret |-> fb[i].base, fb |-> [fb EXCEPT ![i] = [base |-> @.base + size, size |-> @.size - size]]]

\* commitBlocks: the parts of the range that are in a region.
commitBlocks(as, base, size) == backed \union (Interval(base, size) \intersect Units(as))

\* Where the system can reserve a region.
Room(size) == {b \in Space : Interval(b, size) \subseteq Space \ Units(allocs)}

Give(found, as, n) ==
  /\ allocs' = as /\ free_blocks' = found.fb
  /\ backed' = commitBlocks(as, found.ret, n * MBLOCK_SIZE)
  /\ given' = given \union {found.ret + i * MBLOCK_SIZE : i \in 0..(n - 1)}

osGetMBlocks_win32(n) ==
  /\ os = "win32" /\ osUp = "running" /\ ~returning /\ Len(free_blocks) < MaxFree
  /\ \E found \in {findFreeBlocks(free_blocks, n)} :
       \/ found.ret # NULL /\ Give(found, allocs, n) /\ UNCHANGED osUp
       \/ /\ found.ret = NULL
          /\ \E base \in Room((n + 1) * MBLOCK_SIZE) :
               Give(findFreeBlocks(insertFree(free_blocks, base, (n + 1) * MBLOCK_SIZE), n), allocNew(base, n), n)
          /\ UNCHANGED osUp
       \/ /\ found.ret = NULL /\ Room((n + 1) * MBLOCK_SIZE) = {}
          /\ osUp' = "exit" /\ UNCHANGED <<allocs, free_blocks, backed, given>>
  /\ UNCHANGED <<os, next_request, returning>>

\* osFreeMBlocks: megablocks in a row, by returnMemoryToOS.
Run(a, n) == {a + i * MBLOCK_SIZE : i \in 0..(n - 1)}

osFreeMBlocks_win32(a, n) ==
  /\ os = "win32" /\ osUp = "running" /\ Run(a, n) \subseteq given
  /\ free_blocks' = insertFree(free_blocks, a, n * MBLOCK_SIZE)
  /\ backed' = backed \ Interval(a, n * MBLOCK_SIZE)
  /\ given' = given \ Run(a, n)
  /\ returning' = TRUE
  /\ UNCHANGED <<os, allocs, next_request, osUp>>

\* osReleaseFreeMemory: regions and free blocks in lockstep.  as, fs are the rest of the
\* lists, doneA, doneF what is before prev_a and prev_fb, and mid a block that has been put
\* between prev_fb and the head of fs.
RECURSIVE Release(_, _, _, _, _)
Release(doneA, as, doneF, mid, fs) ==
  LET a == Head(as)
      f == Head(fs)
      before == [base |-> f.base, size |-> a.base - f.base]
      behind == [base |-> End(a), size |-> End(f) - End(a)]
  IN  IF as = <<>> \/ fs = <<>> THEN [allocs |-> doneA \o as, fb |-> doneF \o mid \o fs]
      ELSE IF End(f) < End(a) THEN Release(doneA, as, doneF \o mid \o <<f>>, <<>>, Tail(fs))
      ELSE IF f.base > a.base THEN Release(Append(doneA, a), Tail(as), doneF, mid, fs)
      ELSE IF End(f) = End(a) /\ f.base = a.base THEN Release(doneA, Tail(as), doneF, <<>>, Tail(fs))
      ELSE IF End(f) = End(a) THEN Release(doneA, Tail(as), doneF, mid, <<before>> \o Tail(fs))
      ELSE IF f.base = a.base THEN Release(doneA, Tail(as), doneF, mid, <<behind>> \o Tail(fs))
      ELSE Release(doneA, Tail(as), doneF, <<before>>, <<behind>> \o Tail(fs))

osReleaseFreeMemory ==
  /\ returning /\ returning' = FALSE
  /\ \E R \in {Release(<<>>, allocs, <<>>, <<>>, free_blocks)} :
       IF os = "win32" THEN allocs' = R.allocs /\ free_blocks' = R.fb ELSE UNCHANGED <<allocs, free_blocks>>
  /\ UNCHANGED <<os, next_request, backed, given, osUp>>

osFreeAllMBlocks_win32 ==
  /\ os = "win32" /\ osUp = "running" /\ ~returning
  /\ backed' = backed \ Units(allocs) /\ allocs' = <<>> /\ free_blocks' = <<>> /\ given' = {} /\ osUp' = "exit"
  /\ UNCHANGED <<os, next_request, returning>>

-----------------------------------------------------------------------------
(* posix. *)

\* my_mmap: the system follows the hint if the memory is free, or maps it anywhere.
my_mmap(addr, size) ==
  LET ok == {b \in Space : Interval(b, size) \subseteq Space \ backed}
  IN  IF addr \in ok THEN {addr} ELSE ok

\* gen_map_mblocks: a megablock more than wanted, whose misaligned ends are unmapped.
gen_map_mblocks(size) ==
  {[keep |-> Interval(r, size + MBLOCK_SIZE)
               \ (Interval(r, MBLOCK_SIZE - Slop(r))
                    \union Interval(r + size + MBLOCK_SIZE - Slop(r), Slop(r))),
    ret |-> r + MBLOCK_SIZE - Slop(r)] : r \in my_mmap(NULL, size + MBLOCK_SIZE)}

osGetMBlocks_posix(n) ==
  LET size == n * MBLOCK_SIZE
      hinted == {[keep |-> Interval(r, size), ret |-> r] : r \in {x \in my_mmap(next_request, size) : Aligned(x)}}
      hard == IF next_request # NULL /\ \A x \in my_mmap(next_request, size) : Aligned(x) THEN {}
              ELSE gen_map_mblocks(size)
  IN  /\ os = "posix" /\ osUp = "running" /\ ~returning
      /\ \/ \E m \in (IF next_request = NULL THEN {} ELSE hinted) \union hard :
              /\ backed' = backed \union m.keep
              /\ given' = given \union Run(m.ret, n)
              /\ next_request' = m.ret + size
              /\ UNCHANGED osUp
         \/ /\ my_mmap(next_request, size) = {} \/ my_mmap(NULL, size + MBLOCK_SIZE) = {}
            /\ osUp' = "exit" /\ UNCHANGED <<backed, given, next_request>>
      /\ UNCHANGED <<os, allocs, free_blocks, returning>>

osFreeMBlocks_posix(a, n) ==
  /\ os = "posix" /\ osUp = "running" /\ Run(a, n) \subseteq given
  /\ backed' = backed \ Interval(a, n * MBLOCK_SIZE)
  /\ given' = given \ Run(a, n)
  /\ returning' = TRUE
  /\ UNCHANGED <<os, allocs, free_blocks, next_request, osUp>>

\* osFreeAllMBlocks, at the end.
osFreeAllMBlocks_posix ==
  /\ os = "posix" /\ osUp = "running" /\ ~returning
  /\ backed' = backed \ UNION {Interval(m, MBLOCK_SIZE) : m \in given} /\ given' = {} /\ osUp' = "exit"
  /\ UNCHANGED <<os, allocs, free_blocks, next_request, returning>>

Next ==
  \/ \E n \in Counts : osGetMBlocks_win32(n) \/ osGetMBlocks_posix(n)
  \/ \E a \in given, n \in Counts : osFreeMBlocks_win32(a, n) \/ osFreeMBlocks_posix(a, n)
  \/ osReleaseFreeMemory
  \/ osFreeAllMBlocks_win32 \/ osFreeAllMBlocks_posix

Spec == osMemInit /\ [][Next]_vars

-----------------------------------------------------------------------------
(* Properties. *)

GivenUnits == UNION {Interval(m, MBLOCK_SIZE) : m \in given}

\* Every megablock that has been given is aligned, and no two overlap; what is backed by
\* memory is exactly what has been given, so that nothing is used without memory, and no
\* misaligned end is left mapped, across all requests and returns.
BackedIsGiven ==
  /\ \A m \in given : Aligned(m)
  /\ Cardinality(GivenUnits) = MBLOCK_SIZE * Cardinality(given)
  /\ backed = GivenUnits

\* win32: a free block is in a region and holds nothing that has been given, and no two of
\* them overlap, also after regions have been released in the middle of the lists.
FreeIsSpare ==
  /\ Units(free_blocks) \subseteq Units(allocs) \ GivenUnits
  /\ os = "win32" => GivenUnits \subseteq Units(allocs)
  /\ \A i, j \in DOMAIN free_blocks : i # j =>
       Interval(free_blocks[i].base, free_blocks[i].size) \intersect Interval(free_blocks[j].base, free_blocks[j].size) = {}

\* The comment on free_blocks: they are kept in ascending order, and adjacent blocks are
\* merged.  Not so after findFreeBlocks has left an empty block behind.
FreeBlocksMerged ==
  \A i \in 1..(Len(free_blocks) - 1) : End(free_blocks[i]) < free_blocks[i + 1].base
=============================================================================
