------------------------------ MODULE Retainer ------------------------------
(***************************************************************************)
(* Retainer profiling, rts/RetainerProfile.c and rts/RetainerSet.c.  After *)
(* a major collection every live object is given the set of its retainers: *)
(* the objects of certain types from which it can be reached without       *)
(* meeting another one.  The traversal keeps its own stack, in blocks, and *)
(* recurses in C for stacks, threads and applications only.  An object's   *)
(* field is tagged with a flip bit, so that no pass has to clear the       *)
(* fields.                                                                 *)
(*                                                                         *)
(* A closure is [type, kids, entries, frames, srt, ccs, done]; the         *)
(* retainer of a closure is its cost-centre stack (RETAINER_SCHEME_CCS).   *)
(* The build is the one without DEBUG_RETAINER.                            *)
(***************************************************************************)
EXTENDS Integers, Sequences, FiniteSets, SequencesExt

CONSTANTS Programs,             \* sequences of heaps [graph, roots, mut], one for each profile
          maxRetainerSetSize,
          BlockElements,        \* elements that fit into one block of the traverse stack
          CCS_SYSTEM

VARIABLES program, census,      \* the program and the number of the profile
          rs,                   \* closure -> [set, bit], the field of the profiling header
          flip,
          rstack,               \* the traverse stack: a sequence of blocks of elements
          boundary,             \* currentStackBoundary
          todoRoots,
          current,              \* what retainClosure looks at: [mode, c, cp, r]
          cframes,              \* activations waiting for a call of retainClosure to return
          visited,              \* [objects, times]: numObjectVisited, timesAnyObjectVisited
          rphase

vars == <<program, census, rs, flip, rstack, boundary, todoRoots, current, cframes, visited, rphase>>

Heap == program[census]
Graph == Heap.graph
Static == {"thunk_static", "fun_static", "con_static", "ind_static", "nocaf"}

\* Closure types of one layout have one name: con is CONSTR, PRIM and BCO, one is CONSTR_1_0
\* and CONSTR_1_1, pair is CONSTR_2_0, nil a closure without pointers, mut_prim MUT_PRIM, arr
\* the four kinds of pointer array, fun and thunk those with any number of free variables, ind
\* IND_PERM and BLACKHOLE, sel THUNK_SELECTOR, var a MUT_VAR.

-----------------------------------------------------------------------------
(* RetainerSet.c: hash-consing makes equal sets equal pointers. *)

NULL == {}
rs_MANY == {-1}
Num(s) == IF s = rs_MANY THEN 0 ELSE Cardinality(s)
isMember(r, s) == s = rs_MANY \/ r \in s
singleton(r) == {r}
addElement(r, s) == IF s = rs_MANY \/ Num(s) = maxRetainerSetSize THEN rs_MANY ELSE s \cup {r}

-----------------------------------------------------------------------------
(* The field of the header. *)

isRetainerSetFieldValid(c) == rs[c].bit = flip
retainerSetOf(c) == IF isRetainerSetFieldValid(c) THEN rs[c].set ELSE NULL
associate(c, s) == rs' = [rs EXCEPT ![c] = [set |-> s, bit |-> flip]]

maybeInitRetainerSets(S) ==
  [c \in DOMAIN rs |-> IF c \in S /\ ~isRetainerSetFieldValid(c) THEN [set |-> NULL, bit |-> flip] ELSE rs[c]]

isRetainer(c) ==
  Graph[c].type \in {"tso", "stack", "mut_prim", "mvar", "var", "arr", "thunk", "sel", "ap", "ap_stack",
                     "thunk_static", "weak"}

getRetainerFrom(c) == Graph[c].ccs

-----------------------------------------------------------------------------
(* The traverse stack.  stackTop is the block in use and its height. *)

Top == <<Len(rstack), Len(rstack[Len(rstack)])>>
isEmptyRetainerStack == rstack = <<<<>>>>
isOnBoundary == Top = boundary
TopElement == Last(Last(rstack))

\* A full block is left as it is and the next one is used.
Pushed(se) ==
  IF Len(Last(rstack)) = BlockElements THEN Append(rstack, <<se>>)
  ELSE Front(rstack) \o <<Append(Last(rstack), se)>>

\* popOff and popOffReal: the stack goes back to the previous block at once when a block
\* other than the first becomes empty.
popOff ==
  IF Len(Last(rstack)) > 1 \/ Len(rstack) = 1 THEN Front(rstack) \o <<Front(Last(rstack))>>
  ELSE Front(rstack)

-----------------------------------------------------------------------------
(* The children of a closure, in the order the traversal meets them. *)

\* The entries of a TREC_CHUNK: of the four values of the two low bits of the step, 0 is tvar,
\* 1 expected_value, and 2 and 3 are both new_value.
TRecEntries(c) ==
  FlattenSeq([i \in 1..Len(Graph[c].entries) |->
                LET e == Graph[c].entries[i] IN <<e.tvar, e.expected_value, e.new_value, e.new_value>>])

\* find_ptrs, then find_srt; a TREC_CHUNK has its prev_chunk first.
Children(c) == Graph[c].kids \o TRecEntries(c) \o Graph[c].srt

\* A small bitmap advances p but follows *srt, the first entry, for every bit that is set; a
\* large one follows the entries of its bits.
retainSRT(frame) ==
  IF frame.large THEN LET set == SelectSeq([i \in 1..Len(frame.srt) |-> i], LAMBDA b : b \in frame.bits) IN
                      [i \in 1..Len(set) |-> frame.srt[set[i]]]
  ELSE [i \in 1..Cardinality(frame.bits) |-> frame.srt[1]]
retainStack(c) == FlattenSeq([i \in 1..Len(Graph[c].frames) |->
                                Graph[c].frames[i].ptrs \o retainSRT(Graph[c].frames[i])])

Visit(c, cp, r) == [mode |-> "visit", c |-> c, cp |-> cp, r |-> r]
Pop == [mode |-> "pop", c |-> 0, cp |-> 0, r |-> 0]
Return == [mode |-> "return", c |-> 0, cp |-> 0, r |-> 0]

\* push: what is looked at next, and the new stack.  Closures with one fixed child are
\* not pushed.
push(c, r) ==
  /\ current' = IF Children(c) = <<>> THEN Pop ELSE Visit(Children(c)[1], c, r)
  /\ rstack' = IF Children(c) = <<>> \/ Graph[c].type \in {"var", "sel", "ind", "one"} THEN rstack
               ELSE Pushed([c |-> c, r |-> r, pos |-> 2])

\* The types whose last child is found without looking for another one after it.
Fixed == {"pair", "mvar", "weak"}

\* One turn of the loop of pop.
pop ==
  /\ rphase = "traverse" /\ current.mode = "pop"
  /\ IF isOnBoundary THEN current' = Return /\ UNCHANGED rstack
     ELSE \E se \in {TopElement} :
          LET kids == Children(se.c)
              next == [se EXCEPT !.pos = @ + 1] IN
          IF se.pos > Len(kids)
          THEN /\ rstack' = popOff
               /\ current' = IF Graph[se.c].type = "trec" THEN Return ELSE Pop
          ELSE /\ current' = Visit(kids[se.pos], se.c, se.r)
               /\ rstack' = IF Graph[se.c].type \in Fixed /\ se.pos = Len(kids) THEN popOff
                            ELSE Front(rstack) \o <<Front(Last(rstack)) \o <<next>>>>
  /\ UNCHANGED <<program, census, rs, flip, boundary, todoRoots, cframes, visited, rphase>>

-----------------------------------------------------------------------------
(* retainClosure. *)

\* Closures whose retainer set is not computed.
Ignored(c) ==
  \/ Graph[c].type = "tso" /\ Graph[c].done
  \/ Graph[c].type = "nocaf"
  \/ Graph[c].type \in {"thunk_static", "fun_static"} /\ Graph[c].srt = <<>>

skip ==
  /\ rphase = "traverse" /\ current.mode = "visit"
  /\ \/ Graph[current.c].type = "ind_static" /\ current' = [current EXCEPT !.c = Graph[current.c].kids[1]]
     \/ Ignored(current.c) /\ current' = Pop
  /\ UNCHANGED <<program, census, rs, flip, rstack, boundary, todoRoots, cframes, visited, rphase>>

\* The children of c, with their most recent retainer: stacks, threads and applications are
\* processed in one go by recursive calls, first for the fields of c (the stack, the blocked
\* exceptions, the queue, the transaction and perhaps block_info of a thread; the function and
\* the arguments of an application), then for the stack chunk in a STACK or an AP_STACK.
ProcessChildren(c, r) ==
  IF Graph[c].type \in {"stack", "tso", "pap", "ap", "ap_stack"}
  THEN /\ cframes' = Append(cframes, [c |-> c, r |-> r, todo |-> Graph[c].kids, bound |-> boundary,
                                      chunk |-> Graph[c].type \in {"stack", "ap_stack"}])
       /\ current' = Return
       /\ UNCHANGED rstack
  ELSE push(c, r) /\ UNCHANGED cframes

\* c_child_r at the first visit to c.
childRetainer(c, r) == IF isRetainer(c) THEN getRetainerFrom(c) ELSE r

\* The new set of a closure that was visited before; s is NULL or the set of its parent, and
\* "if s has exactly one more element in its retainer set than c, s is also the new retainer
\* set for *c".
extended(s, setc, r) == IF s # NULL /\ Num(s) = Num(setc) + 1 THEN s ELSE addElement(r, setc)

\* One round of inner_loop: the set of c is made, taken over from its parent or extended.
retainClosure ==
  /\ rphase = "traverse" /\ current.mode = "visit"
  /\ Graph[current.c].type # "ind_static" /\ ~Ignored(current.c)
  /\ LET c == current.c
         r == current.r
         setc == retainerSetOf(c)
         s == IF isRetainer(current.cp) THEN NULL ELSE retainerSetOf(current.cp) IN
     /\ visited' = [objects |-> visited.objects + (IF setc = NULL THEN 1 ELSE 0), times |-> visited.times + 1]
     /\ IF setc = NULL
        THEN associate(c, IF s = NULL THEN singleton(r) ELSE s) /\ ProcessChildren(c, childRetainer(c, r))
        ELSE IF isMember(r, setc)
        THEN current' = Pop /\ UNCHANGED <<rs, rstack, cframes>>
        ELSE /\ associate(c, extended(s, setc, r))
             /\ IF isRetainer(c) THEN current' = Pop /\ UNCHANGED <<rstack, cframes>>
                ELSE ProcessChildren(c, r)
  /\ UNCHANGED <<program, census, flip, boundary, todoRoots, rphase>>

\* What retainStack restores.
oldStackBoundary(f) == f.bound

\* retainStack begins: "Each invocation of retainStack() creates a new virtual stack."
enterStack ==
  /\ rphase = "traverse" /\ current.mode = "return" /\ cframes # <<>>
  /\ LET f == Last(cframes) IN
     /\ f.todo = <<>> /\ f.chunk
     /\ cframes' = Front(cframes) \o <<[f EXCEPT !.todo = retainStack(f.c), !.chunk = FALSE, !.bound = boundary]>>
  /\ boundary' = Top
  /\ UNCHANGED <<program, census, rs, flip, rstack, todoRoots, current, visited, rphase>>

\* A call of retainClosure returns, or an activation begins: the next child, or the end of the
\* activation and "goto loop".
return ==
  /\ rphase = "traverse" /\ current.mode = "return" /\ cframes # <<>>
  /\ LET f == Last(cframes) IN
     IF f.todo # <<>>
     THEN /\ current' = Visit(Head(f.todo), f.c, f.r)
          /\ cframes' = Front(cframes) \o <<[f EXCEPT !.todo = Tail(@)]>>
          /\ UNCHANGED boundary
     ELSE /\ ~f.chunk
          /\ current' = Pop /\ cframes' = Front(cframes) /\ boundary' = oldStackBoundary(f)
  /\ UNCHANGED <<program, census, rs, flip, rstack, todoRoots, visited, rphase>>

-----------------------------------------------------------------------------
(* computeRetainerSet, retainerProfile, and the collections between profiles. *)

retainRoot ==
  /\ rphase = "traverse" /\ current.mode = "return" /\ cframes = <<>> /\ todoRoots # <<>>
  /\ LET c == Head(todoRoots) IN
     /\ boundary' = Top
     /\ rs' = maybeInitRetainerSets({c})
     /\ current' = Visit(c, c, IF isRetainer(c) THEN getRetainerFrom(c) ELSE CCS_SYSTEM)
  /\ todoRoots' = Tail(todoRoots)
  /\ UNCHANGED <<program, census, flip, rstack, cframes, visited, rphase>>

\* The end of computeRetainerSet: objects on the mutable lists that were not visited.
computed ==
  /\ rphase = "traverse" /\ current.mode = "return" /\ cframes = <<>> /\ todoRoots = <<>>
  /\ rs' = maybeInitRetainerSets(Heap.mut)
  /\ rphase' = "census"
  /\ UNCHANGED <<program, census, flip, rstack, boundary, todoRoots, current, cframes, visited>>

retainerProfile ==
  /\ rphase = "start"
  /\ flip' = 1 - flip
  /\ rstack' = <<<<>>>> /\ boundary' = <<1, 0>>
  /\ todoRoots' = Heap.roots /\ current' = Return /\ cframes' = <<>>
  /\ visited' = [objects |-> 0, times |-> 0]
  /\ rphase' = "traverse"
  /\ UNCHANGED <<program, census, rs>>

\* What the collector follows from a closure.
Pointers(cl) ==
  Range(cl.kids) \cup Range(cl.srt) \cup UNION {{e.tvar, e.expected_value, e.new_value} : e \in Range(cl.entries)}
  \cup UNION {Range(f.ptrs) \cup {f.srt[b] : b \in f.bits} : f \in Range(cl.frames)}

RECURSIVE Reach(_, _)
Reach(g, S) ==
  LET Kids(c) == Pointers(g[c])
      T == S \cup UNION {Kids(c) : c \in S} IN
  IF T = S THEN S ELSE Reach(g, T)

Reachable(h) == Reach(h.graph, Range(h.roots))

\* The program runs and a major collection happens: the scavenged static objects are reset,
\* with the flip bit of the last profile; the headers of objects allocated since hold NULL.
GarbageCollect ==
  /\ rphase = "census" /\ census < Len(program)
  /\ census' = census + 1
  /\ LET h == program[census + 1]
         scavenged == {c \in Reachable(h) : h.graph[c].type \in Static \ {"ind_static", "nocaf"}}
         new == {c \in DOMAIN rs : /\ h.graph[c].type \notin Static
                                   /\ c \notin Reachable(h) \cap Reachable(Heap)} IN
     rs' = [c \in DOMAIN rs |-> IF c \in new THEN [set |-> NULL, bit |-> flip]
                                ELSE maybeInitRetainerSets(scavenged)[c]]
  /\ rphase' = "start"
  /\ UNCHANGED <<program, flip, rstack, boundary, todoRoots, current, cframes, visited>>

Init ==
  /\ program \in Programs /\ census = 1
  /\ rs = [c \in DOMAIN program[1].graph |-> [set |-> NULL, bit |-> 0]]
  /\ flip = 0 /\ rstack = <<<<>>>> /\ boundary = <<1, 0>> /\ todoRoots = <<>>
  /\ current = Return /\ cframes = <<>> /\ visited = [objects |-> 0, times |-> 0] /\ rphase = "start"

Next ==
  \/ retainerProfile \/ retainRoot \/ skip \/ retainClosure \/ enterStack \/ return \/ pop \/ computed
  \/ GarbageCollect

-----------------------------------------------------------------------------
(* Correctness. *)

\* The closures that c points to, static indirections skipped: every entry of an SRT whose bit
\* is set is one.
RECURSIVE Skip(_)
Skip(c) == IF Graph[c].type = "ind_static" THEN Skip(Graph[c].kids[1]) ELSE c

Successors(c) == {Skip(d) : d \in Pointers(Graph[c])}

\* The same with what retainSRT makes of the small bitmap of a stack frame.
Followed(c) ==
  {Skip(d) : d \in Pointers([Graph[c] EXCEPT !.frames = <<>>])
                   \cup UNION {Range(f.ptrs) \cup Range(retainSRT(f)) : f \in Range(Graph[c].frames)}}

\* The closures that are reached from S, those not followed being ignored.
RECURSIVE Met(_, _)
Met(Succ(_), S) ==
  LET T == S \cup {d \in UNION {Succ(c) : c \in S} : ~Ignored(d)} IN
  IF T = S THEN S ELSE Met(Succ, T)

RootClosures == {c \in {Skip(r) : r \in Range(Heap.roots)} : ~Ignored(c)}
Alive == Met(Successors, RootClosures)

\* The closures reached from S without passing through a retainer.
RECURSIVE Retains(_)
Retains(S) ==
  LET T == S \cup {d \in UNION {Successors(c) : c \in {x \in S : ~isRetainer(x)}} : ~Ignored(d)} IN
  IF T = S THEN S ELSE Retains(T)

\* "An object B retains object A if (i) B is a retainer object and (ii) object A can be
\* reached by recursively following pointers starting from object B, but not meeting any
\* other retainer objects on the way."  A root is its own retainer; a root that is no retainer
\* is retained by the system.
RetainedBy(x) == Retains({d \in Successors(x) : ~Ignored(d)})
Retainers(c) ==
  {getRetainerFrom(x) : x \in {y \in Alive : isRetainer(y) /\ c \in RetainedBy(y)}}
  \cup {getRetainerFrom(x) : x \in {q \in Range(Heap.roots) : isRetainer(q) /\ q = c}}
  \cup (IF c \in Retains({Skip(r) : r \in {q \in Range(Heap.roots) : ~isRetainer(q)}} \cap RootClosures)
        THEN {CCS_SYSTEM} ELSE {})

\* A frame whose small SRT has a bit set that is not the first: retainSRT follows the first entry
\* in its place.
Misread(f) == ~f.large /\ ~(f.bits \subseteq {1})

\* The first entry is then followed even where its own bit is not set.
Unmentioned(f) == Misread(f) /\ 1 \notin f.bits

SomeFrame(P(_)) == \E c \in Alive : \E f \in Range(Graph[c].frames) : P(f)

\* At the census no closure has a retainer that does not retain it, not even one from an
\* earlier profile, and rs_MANY stands for a set that is too large.  Left out is a heap with an
\* Unmentioned frame, whose owner becomes the retainer of what it does not refer to.
SetsAreSound ==
  rphase = "census" /\ ~SomeFrame(Unmentioned) =>
    \A c \in Alive :
      IF retainerSetOf(c) = rs_MANY THEN Cardinality(Retainers(c)) > maxRetainerSetSize
      ELSE retainerSetOf(c) \subseteq Retainers(c)

\* At the census every closure that is reached has a retainer set, each was counted once, and
\* the traverse stack is empty, whatever the traversal left to its callers on the way.  Left out
\* are the closures that are reached through an entry which retainSRT does not follow, and not
\* otherwise.
AllReached ==
  rphase = "census" =>
    /\ isEmptyRetainerStack
    /\ visited.objects = Cardinality(Met(Followed, RootClosures)) /\ visited.times >= visited.objects
    /\ \A c \in Alive : retainerSetOf(c) = NULL => c \notin Met(Followed, RootClosures)
    /\ SomeFrame(Misread) \/ Alive = Met(Followed, RootClosures)

\* The same without the exception.  TLC refutes it: a small SRT with two entries is enough.
EveryReached == rphase = "census" => \A c \in Alive : retainerSetOf(c) # NULL

\* The set of every closure is what the definition says.
SetsAreComplete ==
  rphase = "census" => \A c \in Alive : retainerSetOf(c) \in {Retainers(c), rs_MANY}

\* The same for a heap without cycles and without a Misread frame: in a cycle a closure can be
\* visited again before its children have been, and they then take over a set with retainers
\* they were not visited with yet, which stops these retainers there.
CompleteWithoutCycles ==
  ((\A c \in Alive : c \notin Met(Successors, {d \in Successors(c) : ~Ignored(d)})) /\ ~SomeFrame(Misread))
    => SetsAreComplete

\* "Loop invariants": the parent's set is valid, and if the parent is not a retainer the most
\* recent retainer belongs to it (except for a root, which is its own parent).
LoopInvariant ==
  rphase = "traverse" /\ current.mode = "visit" /\ current.c # current.cp =>
    /\ isRetainerSetFieldValid(current.cp)
    /\ IF isRetainer(current.cp) THEN current.r = getRetainerFrom(current.cp)
       ELSE Graph[current.cp].type # "ind_static" => isMember(current.r, retainerSetOf(current.cp))
=============================================================================
