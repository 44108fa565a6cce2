------------------------------ MODULE Compact ------------------------------
(***************************************************************************)
(* The mark-compact collector of the oldest generation, rts/sm/Compact.c:  *)
(* Jonker's algorithm.  Marking has set the bit of the first word of every *)
(* live object; compact() threads every field that points to an object     *)
(* into a chain that starts in the object's info-pointer word, computes    *)
(* where each object will go, and slides the objects towards the start of  *)
(* the chain of blocks in one more pass.                                   *)
(*                                                                         *)
(* Memory is a function from addresses to words.  A word is an info        *)
(* pointer, a pointer or a non-pointer; the first two carry tag bits.      *)
(***************************************************************************)
EXTENDS Integers, Sequences, FiniteSets

CONSTANTS BLOCK_SIZE_W,   \* words in a block
          RET_DYN_BITMAP_SIZE, RET_DYN_NONPTR_REGS_SIZE,   \* the registers that a RET_DYN frame saves
          Info,           \* info tables: number -> [type, ptrs, nptrs, bitmap, arity]
          Roots,          \* the addresses of the roots, in the order compact() visits them
          Others,         \* the objects that are not compacted, in the order of update_fwd
          Heaps           \* the heaps to compact: [mem, marks, free, chain]

VARIABLES mem,        \* address -> word
          marks,      \* the addresses whose bit is set in the bitmaps
          blocks,     \* gen->old_blocks, a sequence of blocks
          bfree,      \* block -> bd->free
          pass, scan, free, freeBd,   \* pass; scan position <<index of bd, p>>; destination
          before,     \* the heap that is compacted
          moved       \* object -> where update_bkwd_compact put it

vars == <<mem, marks, blocks, bfree, pass, scan, free, freeBd, before, moved>>

Start(b) == (b - 1) * BLOCK_SIZE_W + 1
Word(kind, val, tag) == [kind |-> kind, val |-> val, tag |-> tag]
Untag(w) == [w EXCEPT !.tag = 0]

Init ==
  \E h \in Heaps :
    /\ before = h /\ mem = h.mem /\ marks = h.marks /\ bfree = h.free /\ blocks = h.chain
    /\ pass = "roots" /\ scan = <<1, Start(h.chain[1])>> /\ free = Start(h.chain[1]) /\ freeBd = 1
    /\ moved = <<>>

-----------------------------------------------------------------------------
(* Threading. *)

\* HEAP_ALLOCED(q) and BF_MARKED: only a pointer into the compacted blocks is threaded.
Compacted(q) == \E i \in 1..Len(blocks) : q \in Start(blocks[i]) .. Start(blocks[i]) + BLOCK_SIZE_W - 1

Thread(m, p) ==
  LET q == m[p].val
      iptr == m[q] IN
  IF m[p].kind # "ptr" \/ ~Compacted(q) THEN m
  ELSE IF iptr.kind = "info"
       THEN [m EXCEPT ![p] = [iptr EXCEPT !.tag = m[p].tag], ![q] = Word("ptr", p, 1)]
       ELSE [m EXCEPT ![p] = iptr, ![q] = Word("ptr", p, 2)]

RECURSIVE ThreadAll(_, _)
ThreadAll(m, ps) == IF ps = <<>> THEN m ELSE ThreadAll(Thread(m, Head(ps)), Tail(ps))

\* The fields on the chain that starts at p, first to last, then the info pointer with the
\* tag of the field that opened the chain.
RECURSIVE Chain(_, _)
Chain(m, w) ==
  IF w.kind = "info" THEN <<>>
  ELSE IF w.tag = 1 THEN <<w.val>>
  ELSE <<w.val>> \o Chain(m, m[w.val])

get_threaded_info(m, p) ==
  LET c == Chain(m, m[p]) IN IF c = <<>> THEN m[p] ELSE m[c[Len(c)]]

\* unthread(p, dest + tag): the fields of the chain are made to point to dest, and the info
\* pointer goes back to its place.
unthread(m, p, dest) ==
  LET c == Chain(m, m[p])
      tag == get_threaded_info(m, p).tag IN
  [a \in DOMAIN m |-> IF \E i \in 1..Len(c) : c[i] = a THEN Word("ptr", dest, tag)
                      ELSE IF a = p THEN Untag(get_threaded_info(m, p)) ELSE m[a]]

-----------------------------------------------------------------------------
(* Objects. *)

Header(info) == CASE info.type = "thunk" -> 2 [] info.type = "pap" -> 2 [] info.type = "stack" -> 2 [] OTHER -> 1
Size(info) == Header(info) + info.ptrs + info.nptrs

Ascending(S) == CHOOSE s \in [1..Cardinality(S) -> S] : \A i, j \in 1..Cardinality(S) : i < j => s[i] < s[j]

\* Which arguments are pointers is written in the info table of the function, which may be
\* at the end of a chain by now: it is looked up before the function field is threaded.
thread_PAP(m, p, info) ==
  LET f == get_threaded_info(m, m[p + 1].val) IN
  Thread(ThreadAll(m, Ascending({p + 1 + i : i \in Info[f.val].bitmap \cap 1..info.ptrs})), p + 1)

\* The words at p, p + 1, ... whose bits are 0 in a bitmap that is itself a word of the heap.
Pointers(p, size, bitmap) == Ascending({p + i : i \in {k \in 0 .. size - 1 : (bitmap \div 2^k) % 2 = 0}})

RET_DYN_LIVENESS(l) == l % 16
RET_DYN_NONPTRS(l) == (l \div 16) % 16
RET_DYN_PTRS(l) == l \div 256

\* One frame of a stack: the heap and the address of the next frame.  A RET_DYN frame carries its
\* liveness; small and large bitmaps are in the info table of the frame, that of a RET_BCO frame
\* is in the BCO, and that of a RET_FUN frame in the info table of the function, which is looked
\* up before the function field is threaded.
thread_frame(m, p) ==
  LET info == Info[m[p].val] IN
  CASE info.type = "RET_DYN" ->
         LET dyn == m[p + 1].val
             ptrs == p + 3 + RET_DYN_BITMAP_SIZE + RET_DYN_NONPTRS(dyn) + RET_DYN_NONPTR_REGS_SIZE IN
         [mem |-> ThreadAll(m, Pointers(p + 3, RET_DYN_BITMAP_SIZE, RET_DYN_LIVENESS(dyn))
                                 \o Pointers(ptrs, RET_DYN_PTRS(dyn), 0)),
          next |-> ptrs + RET_DYN_PTRS(dyn)]
    [] info.type = "RET_SMALL" ->
         [mem |-> ThreadAll(m, Ascending({p + i : i \in info.bitmap})), next |-> p + 1 + info.ptrs]
    [] info.type = "RET_BCO" ->
         LET bco == m[p + 1].val
             size == Thread(m, p + 1)[bco + 1].val
             bitmap == Thread(m, p + 1)[bco + 2].val IN
         [mem |-> ThreadAll(Thread(m, p + 1), Pointers(p + 2, size, bitmap)), next |-> p + 2 + size]
    [] info.type = "RET_FUN" ->
         LET fun == Info[get_threaded_info(m, m[p + 2].val).val] IN
         [mem |-> ThreadAll(Thread(m, p + 2), Ascending({p + 2 + i : i \in fun.bitmap})),
          next |-> p + 3 + fun.arity]

\* Word 1 of a stack is sp; what lies below sp is not looked at.
RECURSIVE thread_stack(_, _, _)
thread_stack(m, p, end) ==
  IF p >= end THEN m ELSE LET f == thread_frame(m, p) IN thread_stack(f.mem, f.next, end)

thread_obj(m, p, info) ==
  CASE info.type = "pap" -> thread_PAP(m, p, info)
    [] info.type = "stack" -> thread_stack(m, m[p + 1].val, p + Size(info))
    [] OTHER -> ThreadAll(m, Ascending(p + Header(info) .. p + Header(info) + info.ptrs - 1))

-----------------------------------------------------------------------------
(* The passes. *)

\* The next marked object at or after the scan position, or 0: the scan runs along the chain.
NextMarked ==
  LET In(i) == {a \in marks : /\ a \in Start(blocks[i]) .. bfree[blocks[i]] - 1
                              /\ i = scan[1] => a >= scan[2]}
      S == {i \in scan[1]..Len(blocks) : In(i) # {}} IN
  IF S = {} THEN <<0, 0>>
  ELSE LET i == CHOOSE k \in S : \A j \in S : k <= j IN
       <<i, CHOOSE a \in In(i) : \A b \in In(i) : a <= b>>

Restart == scan' = <<1, Start(blocks[1])>> /\ free' = Start(blocks[1]) /\ freeBd' = 1

thread_roots ==
  /\ pass = "roots"
  /\ mem' = ThreadAll(mem, Roots)
  /\ pass' = "fwd" /\ scan' = <<1, scan[2]>>
  /\ UNCHANGED <<marks, blocks, bfree, free, freeBd, before, moved>>

\* Objects of the other generations, and large objects.
update_fwd ==
  /\ pass = "fwd" /\ scan[1] <= Len(Others)
  /\ LET p == Others[scan[1]] IN mem' = thread_obj(mem, p, Info[mem[p].val])
  /\ scan' = <<scan[1] + 1, scan[2]>>
  /\ UNCHANGED <<marks, blocks, bfree, pass, free, freeBd, before, moved>>

fwd_done ==
  /\ pass = "fwd" /\ scan[1] > Len(Others)
  /\ pass' = "compact" /\ Restart
  /\ UNCHANGED <<mem, marks, blocks, bfree, before, moved>>

\* One object of the forward pass: thread its fields, find its destination, and update the
\* fields that were threaded to it so far.  An object that has to go to the next block has
\* the bit of its second word set.
update_fwd_compact ==
  /\ pass = "compact" /\ NextMarked[1] # 0
  /\ \E i \in {NextMarked[1]}, q \in {NextMarked[2]} :
     \E size \in {Size(Info[get_threaded_info(mem, q).val])} :
       LET spill == free + size > Start(blocks[freeBd]) + BLOCK_SIZE_W
           dest == IF spill THEN Start(blocks[freeBd + 1]) ELSE free
           m == thread_obj(mem, q, Info[get_threaded_info(mem, q).val]) IN
       /\ marks' = IF spill THEN marks \cup {q + 1} ELSE marks
       /\ freeBd' = IF spill THEN freeBd + 1 ELSE freeBd
       /\ mem' = unthread(m, q, dest)
       /\ free' = dest + size
       /\ scan' = <<i, q + size>>
  /\ UNCHANGED <<blocks, bfree, pass, before, moved>>

compact_done ==
  /\ pass = "compact" /\ NextMarked[1] = 0
  /\ pass' = "bkwd" /\ Restart
  /\ UNCHANGED <<mem, marks, blocks, bfree, before, moved>>

\* Mutant: the stack pointer of a stack that moved still points into the old copy.
MUT_move(m, p, dest, info) ==
  [a \in DOMAIN m |-> IF a \in dest .. dest + Size(info) - 1 THEN m[a - dest + p] ELSE m[a]]

\* move(), word by word from the low end (the object may overlap its destination), and
\* move_STACK(): sp is an address inside the object.
move(m, p, dest, info) ==
  [a \in DOMAIN m |->
     IF a \notin dest .. dest + Size(info) - 1 THEN m[a]
     ELSE IF a = dest + 1 /\ info.type = "stack" THEN [m[p + 1] EXCEPT !.val = @ - p + dest]
     ELSE m[a - dest + p]]

\* One object of the backward pass: update the fields that were threaded to it since the
\* forward pass met it, and move it.
update_bkwd_compact ==
  /\ pass = "bkwd" /\ NextMarked[1] # 0
  /\ \E i \in {NextMarked[1]}, p \in {NextMarked[2]} :
     \E spill \in {p + 1 \in marks} :
     \E dest \in {IF spill THEN Start(blocks[freeBd + 1]) ELSE free} :
     \E m \in {unthread(mem, p, dest)} :
     \E info \in {Info[m[p].val]} :
       /\ bfree' = IF spill THEN [bfree EXCEPT ![blocks[freeBd]] = free] ELSE bfree
       /\ freeBd' = IF spill THEN freeBd + 1 ELSE freeBd
       /\ mem' = move(m, p, dest, info)
       /\ free' = dest + Size(info)
       /\ scan' = <<i, p + Size(info)>>
       /\ moved' = [o \in DOMAIN moved \cup {p} |-> IF o = p THEN dest ELSE moved[o]]
  /\ UNCHANGED <<marks, blocks, pass, before>>

\* The blocks after the last destination are freed.
bkwd_done ==
  /\ pass = "bkwd" /\ NextMarked[1] = 0
  /\ bfree' = [bfree EXCEPT ![blocks[freeBd]] = free]
  /\ blocks' = SubSeq(blocks, 1, freeBd)
  /\ pass' = "done"
  /\ UNCHANGED <<mem, marks, scan, free, freeBd, before, moved>>

compact ==
  \/ thread_roots \/ update_fwd \/ fwd_done \/ update_fwd_compact \/ compact_done
  \/ update_bkwd_compact \/ bkwd_done

-----------------------------------------------------------------------------
(* What compaction must achieve. *)

Live == before.marks
InfoOf(o) == Info[before.mem[o].val]

\* A field that held pointer w now holds w': it points to where the object went, with a tag
\* that some pointer to the object had.
Follows(w, now) ==
  IF w.kind = "ptr" /\ w.val \in Live
  THEN /\ now.kind = "ptr" /\ now.val = moved[w.val]
       /\ \E a \in DOMAIN before.mem : before.mem[a] = [w EXCEPT !.tag = now.tag]
  ELSE now = w

\* The words of o that mean something: not what lies below sp in a stack.
Significant(o) ==
  {i \in 0 .. Size(InfoOf(o)) - 1 : InfoOf(o).type = "stack" => i <= 1 \/ o + i >= before.mem[o + 1].val}

SameObject(o, d) ==
  \A i \in Significant(o) :
    IF InfoOf(o).type = "stack" /\ i = 1
    THEN mem[d + 1].val - d = before.mem[o + 1].val - o
    ELSE Follows(before.mem[o + i], mem[d + i])

\* The compacted heap is the live part of the old one: every live object has been moved as
\* it was, every root and every field outside follows, and stack pointers are relative to
\* the new place.  Needs the two passes to agree on every destination.
SameGraph ==
  pass = "done" =>
    /\ DOMAIN moved = Live
    /\ \A o \in Live : SameObject(o, moved[o])
    /\ \A i \in 1..Len(Roots) : Follows(before.mem[Roots[i]], mem[Roots[i]])
    /\ \A i \in 1..Len(Others) : SameObject(Others[i], Others[i])

\* The blocks that are left hold the live objects one after the other: a linear walk from the
\* start of a block by the sizes in the info tables meets each of them and ends at bd->free.
BlocksAreTight ==
  pass = "done" =>
    \A i \in 1..Len(blocks) :
      LET here == {o \in Live : moved[o] \in Start(blocks[i]) .. Start(blocks[i]) + BLOCK_SIZE_W - 1}
          next(o) == moved[o] + Size(InfoOf(o)) IN
      /\ bfree[blocks[i]] <= Start(blocks[i]) + BLOCK_SIZE_W
      /\ {moved[o] : o \in here} \cup {bfree[blocks[i]]} = {next(o) : o \in here} \cup {Start(blocks[i])}
=============================================================================
