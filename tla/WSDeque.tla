------------------------------- MODULE WSDeque -------------------------------
(***************************************************************************)
(* The work-stealing deque of rts/WSDeque.c (Chase and Lev).  It holds the *)
(* sparks of a Capability and the todo blocks of a GC thread.              *)
(*                                                                         *)
(* One action is one access to a word that two threads share: top, bottom  *)
(* or a slot of elements.  The owner (the only thread that may push and    *)
(* pop) is the only writer of bottom, topBound and elements, so its own    *)
(* reads of them join the neighbouring action.  The barriers of the code   *)
(* order exactly these accesses, so they interleave sequentially           *)
(* consistently.  Indices are mathematical integers: the signed reading of *)
(* the code's 64-bit words, which prune (rts/Sparks.c) keeps small.        *)
(*                                                                         *)
(* An element of Elem stands for one act of pushing: each is pushed at     *)
(* most once, which is what lets the properties tell pushes apart.         *)
(***************************************************************************)
EXTENDS Integers

CONSTANTS Elem,      \* the elements that may be pushed
          Thieves,   \* the threads that may only steal
          Size,      \* q->size, the length of the array
          Owner,     \* the owner thread
          NULL       \* the null pointer

ASSUME SizeAssumption == Size \in Nat /\ Size >= 2
ASSUME NullAssumption == NULL \notin Elem
ASSUME OwnerAssumption == Owner \notin Thieves

VARIABLES
    top,        \* q->top: position of the oldest element, moved by CAS only
    bottom,     \* q->bottom: next free position, written by the owner only
    topBound,   \* q->topBound: the owner's lower bound on top
    elements,   \* q->elements, indexed modulo Size
    pc,         \* where each thread is in its operation
    t,          \* each thread's local t, the value of top it has read
    b,          \* each thread's local b, the value of bottom it works with
    val,        \* each thread's local removed / stolen / elem
    pushed,     \* history: the elements that push has accepted
    taken       \* history: how often each element was returned

dequeVars  == <<top, bottom, topBound, elements>>
threadVars == <<pc, t, b, val>>
vars == <<top, bottom, topBound, elements, pc, t, b, val, pushed, taken>>

Threads == Thieves \cup {Owner}

OwnerPC == {"idle", "pushReadTop", "pushWrite", "pushBottom",
            "popReadTop", "popEmpty", "popCas", "popBottom"}
ThiefPC == {"idle", "stealReadTop", "stealReadBottom", "stealRead", "stealCas",
            "retryReadTop", "retryReadBottom"}

(* q->moduloSize, and the slot a position falls in: i & moduloSize. *)
moduloSize == Size - 1
Slot(i) == i % Size

(* Every variable has values of its type: in particular bottom never falls *)
(* below -1 however often an empty deque is popped (popWSDeque).           *)
TypeOK ==
    /\ top \in Nat
    /\ bottom \in Nat \cup {-1}
    /\ topBound \in Nat
    /\ elements \in [0..moduloSize -> Elem \cup {NULL}]
    /\ pc \in [Threads -> OwnerPC \cup ThiefPC]
    /\ pc[Owner] \in OwnerPC
    /\ \A s \in Thieves : pc[s] \in ThiefPC
    /\ t \in [Threads -> Nat]
    /\ b \in [Threads -> Int]
    /\ val \in [Threads -> Elem \cup {NULL}]
    /\ pushed \subseteq Elem
    /\ taken \in [Elem -> Nat]

(* newWSDeque: an empty deque. *)
Init ==
    /\ top = 0
    /\ bottom = 0
    /\ topBound = 0
    /\ elements = [i \in 0..moduloSize |-> NULL]
    /\ pc = [p \in Threads |-> "idle"]
    /\ t = [p \in Threads |-> 0]
    /\ b = [p \in Threads |-> 0]
    /\ val = [p \in Threads |-> NULL]
    /\ pushed = {}
    /\ taken = [e \in Elem |-> 0]

Goto(p, label) == pc' = [pc EXCEPT ![p] = label]

(* The thread returns v to its caller; NULL is returned for "nothing". *)
Return(p, v) ==
    /\ Goto(p, "idle")
    /\ val' = [val EXCEPT ![p] = v]
    /\ taken' = IF v = NULL THEN taken ELSE [taken EXCEPT ![v] = @ + 1]

-----------------------------------------------------------------------------
(* pushWSDeque *)

(* Reads bottom and topBound; only when they say "could be full" is the    *)
(* shared top read.                                                        *)
PushStart(e) ==
    /\ pc[Owner] = "idle"
    /\ e \notin pushed
    /\ val' = [val EXCEPT ![Owner] = e]
    /\ b' = [b EXCEPT ![Owner] = bottom]
    /\ t' = [t EXCEPT ![Owner] = topBound]
    /\ Goto(Owner, IF bottom - topBound >= moduloSize
                     THEN "pushReadTop" ELSE "pushWrite")
    /\ UNCHANGED <<dequeVars, pushed, taken>>

(* Mutation: the fresh look at top is not acted upon. *)
PushReadTopNeverFull ==
    /\ pc[Owner] = "pushReadTop"
    /\ t' = [t EXCEPT ![Owner] = top]
    /\ topBound' = top
    /\ Goto(Owner, "pushWrite")
    /\ UNCHANGED <<top, bottom, elements, b, val, pushed, taken>>

(* Full after all: the new element is discarded (DISCARD_NEW). *)
PushReadTop ==
    /\ pc[Owner] = "pushReadTop"
    /\ t' = [t EXCEPT ![Owner] = top]
    /\ topBound' = top
    /\ IF b[Owner] - top >= moduloSize
         THEN Return(Owner, NULL)
         ELSE Goto(Owner, "pushWrite") /\ UNCHANGED <<val, taken>>
    /\ UNCHANGED <<top, bottom, elements, b, pushed>>

PushWrite ==
    /\ pc[Owner] = "pushWrite"
    /\ elements' = [elements EXCEPT ![Slot(b[Owner])] = val[Owner]]
    /\ Goto(Owner, "pushBottom")
    /\ UNCHANGED <<top, bottom, topBound, t, b, val, pushed, taken>>

PushBottom ==
    /\ pc[Owner] = "pushBottom"
    /\ bottom' = b[Owner] + 1
    /\ pushed' = pushed \cup {val[Owner]}
    /\ Return(Owner, NULL)
    /\ UNCHANGED <<top, topBound, elements, t, b>>

-----------------------------------------------------------------------------
(* popWSDeque *)

(* "decrement b as a test, see what happens" *)
PopStart ==
    /\ pc[Owner] = "idle"
    /\ b' = [b EXCEPT ![Owner] = bottom - 1]
    /\ bottom' = bottom - 1
    /\ Goto(Owner, "popReadTop")
    /\ UNCHANGED <<top, topBound, elements, t, val, pushed, taken>>

(* The read of top after the store_load_barrier decides between an empty   *)
(* deque, an element out of the thieves' reach, and the last element.      *)
PopReadTop ==
    /\ pc[Owner] = "popReadTop"
    /\ t' = [t EXCEPT ![Owner] = top]
    /\ topBound' = top
    /\ \/ /\ b[Owner] < top
          /\ Goto(Owner, "popEmpty")
          /\ UNCHANGED <<val, taken>>
       \/ /\ b[Owner] > top
          /\ Return(Owner, elements[Slot(b[Owner])])
       \/ /\ b[Owner] = top
          /\ val' = [val EXCEPT ![Owner] = elements[Slot(b[Owner])]]
          /\ Goto(Owner, "popCas")
          /\ UNCHANGED taken
    /\ UNCHANGED <<top, bottom, elements, b, pushed>>

PopEmpty ==
    /\ pc[Owner] = "popEmpty"
    /\ bottom' = t[Owner]
    /\ Return(Owner, NULL)
    /\ UNCHANGED <<top, topBound, elements, t, b, pushed>>

(* Mutation: the owner takes the last element without the CAS. *)
PopCasUnchecked ==
    /\ pc[Owner] = "popCas"
    /\ top' = t[Owner] + 1
    /\ Goto(Owner, "popBottom")
    /\ UNCHANGED <<bottom, topBound, elements, t, b, val, pushed, taken>>

(* The race with the thieves for the last element. *)
PopCas ==
    /\ pc[Owner] = "popCas"
    /\ IF top = t[Owner]
         THEN top' = top + 1 /\ UNCHANGED val
         ELSE val' = [val EXCEPT ![Owner] = NULL] /\ UNCHANGED top
    /\ Goto(Owner, "popBottom")
    /\ UNCHANGED <<bottom, topBound, elements, t, b, pushed, taken>>

(* Mutation: bottom is not put back above the element the pop was after. *)
PopBottomTooLow ==
    /\ pc[Owner] = "popBottom"
    /\ bottom' = t[Owner]
    /\ topBound' = t[Owner] + 1
    /\ Return(Owner, val[Owner])
    /\ UNCHANGED <<top, elements, t, b, pushed>>

PopBottom ==
    /\ pc[Owner] = "popBottom"
    /\ bottom' = t[Owner] + 1
    /\ topBound' = t[Owner] + 1
    /\ Return(Owner, val[Owner])
    /\ UNCHANGED <<top, elements, t, b, pushed>>

-----------------------------------------------------------------------------
(* stealWSDeque_ and the loop around it in stealWSDeque *)

StealReadTop(s) ==
    /\ pc[s] \in {"idle", "stealReadTop"}
    /\ t' = [t EXCEPT ![s] = top]
    /\ Goto(s, "stealReadBottom")
    /\ UNCHANGED <<dequeVars, b, val, pushed, taken>>

(* A failed stealWSDeque_ returns NULL (tryStealSpark), or stealWSDeque    *)
(* goes on to ask looksEmptyWSDeque.                                       *)
StealFailed(s) ==
    \/ Return(s, NULL)
    \/ Goto(s, "retryReadTop") /\ UNCHANGED <<val, taken>>

StealReadBottom(s) ==
    /\ pc[s] = "stealReadBottom"
    /\ b' = [b EXCEPT ![s] = bottom]
    /\ IF bottom - t[s] <= 0
         THEN StealFailed(s)
         ELSE Goto(s, "stealRead") /\ UNCHANGED <<val, taken>>
    /\ UNCHANGED <<dequeVars, t, pushed>>

(* Mutation: the thief takes the newest element it saw. *)
StealReadNewest(s) ==
    /\ pc[s] = "stealRead"
    /\ val' = [val EXCEPT ![s] = elements[Slot(b[s] - 1)]]
    /\ Goto(s, "stealCas")
    /\ UNCHANGED <<dequeVars, t, b, pushed, taken>>

StealRead(s) ==
    /\ pc[s] = "stealRead"
    /\ val' = [val EXCEPT ![s] = elements[Slot(t[s])]]
    /\ Goto(s, "stealCas")
    /\ UNCHANGED <<dequeVars, t, b, pushed, taken>>

StealCas(s) ==
    /\ pc[s] = "stealCas"
    /\ \/ /\ top = t[s]
          /\ top' = top + 1
          /\ Return(s, val[s])
       \/ /\ top # t[s]
          /\ StealFailed(s)
          /\ UNCHANGED top
    /\ UNCHANGED <<bottom, topBound, elements, t, b, pushed>>

(* looksEmptyWSDeque: top first, then bottom. *)
RetryReadTop(s) ==
    /\ pc[s] = "retryReadTop"
    /\ t' = [t EXCEPT ![s] = top]
    /\ Goto(s, "retryReadBottom")
    /\ UNCHANGED <<dequeVars, b, val, pushed, taken>>

RetryReadBottom(s) ==
    /\ pc[s] = "retryReadBottom"
    /\ IF bottom - t[s] <= 0
         THEN Return(s, NULL)
         ELSE Goto(s, "stealReadTop") /\ UNCHANGED <<val, taken>>
    /\ UNCHANGED <<dequeVars, t, b, pushed>>

-----------------------------------------------------------------------------
Push == (\E e \in Elem : PushStart(e)) \/ PushReadTop \/ PushWrite \/ PushBottom
Pop == PopStart \/ PopReadTop \/ PopEmpty \/ PopCas \/ PopBottom
Steal(s) == StealReadTop(s) \/ StealReadBottom(s) \/ StealRead(s) \/ StealCas(s)
            \/ RetryReadTop(s) \/ RetryReadBottom(s)

Next == Push \/ Pop \/ \E s \in Thieves : Steal(s)

Spec == Init /\ [][Next]_vars

-----------------------------------------------------------------------------
(* Properties *)

(* While a pop is undecided the code has already moved bottom below the    *)
(* element it is after; bottom is logically still one higher.              *)
LogicalBottom ==
    IF pc[Owner] \in {"popReadTop", "popEmpty", "popCas", "popBottom"}
      THEN bottom + 1 ELSE bottom

Live == top..(LogicalBottom - 1)

(* The owner has won the CAS on the last element and not yet returned it.  *)
PopWon(e) == pc[Owner] = "popBottom" /\ val[Owner] = e

(* popWSDeque, stealWSDeque_: whatever the interleaving of one owner and   *)
(* any number of thieves, no element is handed out twice (a spark run by   *)
(* two Capabilities, a block scavenged twice), and none that was not       *)
(* pushed.                                                                 *)
ExactlyOnce ==
    \A e \in Elem : taken[e] <= 1 /\ (taken[e] = 1 => e \in pushed)

(* No element that pushWSDeque accepted disappears: it was handed out, it  *)
(* sits between top and bottom, or the owner has won it and is about to    *)
(* return it.                                                              *)
NothingLost ==
    \A e \in pushed :
        \/ taken[e] >= 1
        \/ PopWon(e)
        \/ \E i \in Live : elements[Slot(i)] = e

(* What WSDeque.h and popWSDeque assert: topBound is a lower bound on top, *)
(* and outside pop the owner sees bottom >= top, with at most moduloSize   *)
(* elements, so a push never overwrites a live slot.                       *)
OwnerAsserts ==
    /\ topBound <= top
    /\ pc[Owner] = "idle" => bottom >= top
    /\ pc[Owner] = "pushWrite" => b[Owner] - top < moduloSize

(* The inductive invariant behind the three, in parts. *)
Bounds ==
    /\ topBound <= top
    /\ top <= LogicalBottom
    /\ LogicalBottom - top <= moduloSize

SlotsLive ==
    /\ \A i \in Live : /\ elements[Slot(i)] \in pushed
                      /\ taken[elements[Slot(i)]] = 0
    /\ \A i, j \in Live : elements[Slot(i)] = elements[Slot(j)] => i = j

OwnerInv ==
    /\ pc[Owner] \in {"pushReadTop", "pushWrite", "pushBottom"} =>
          b[Owner] = bottom /\ val[Owner] \in Elem \ pushed
    /\ pc[Owner] \in {"pushWrite", "pushBottom"} => bottom - top < moduloSize
    /\ pc[Owner] = "pushBottom" => elements[Slot(bottom)] = val[Owner]
    /\ pc[Owner] = "popReadTop" => b[Owner] = bottom
    /\ pc[Owner] = "popEmpty" => t[Owner] = bottom + 1 /\ top = bottom + 1
    /\ pc[Owner] = "popCas" =>
          /\ t[Owner] = bottom
          /\ top >= bottom
          /\ top = bottom => val[Owner] = elements[Slot(top)]
    /\ pc[Owner] = "popBottom" =>
          /\ t[Owner] = bottom
          /\ top = bottom + 1
          /\ val[Owner] # NULL => val[Owner] \in pushed /\ taken[val[Owner]] = 0

ThiefInv ==
    \A s \in Thieves :
        /\ t[s] <= top
        /\ pc[s] \in {"stealRead", "stealCas"} /\ t[s] = top => top < LogicalBottom
        /\ pc[s] = "stealCas" /\ t[s] = top => val[s] = elements[Slot(top)]

(* The last element can change hands only by moving top: a thief between   *)
(* its read of bottom and its CAS whose t is still top finds the element   *)
(* live and unchanged in its slot, whatever the owner did meanwhile, and   *)
(* the owner in the middle of pop or push owns what it has read.           *)
IndInv == /\ TypeOK /\ Bounds /\ SlotsLive /\ OwnerInv /\ ThiefInv
          /\ ExactlyOnce /\ NothingLost

(* The deque seen as a double-ended queue: pop takes the newest element,   *)
(* steal the oldest, push fails only at moduloSize elements.               *)
Abstract ==
    INSTANCE Deque WITH
        deque    <- [i \in 1..(LogicalBottom - top) |-> elements[Slot(top + i - 1)]],
        taken    <- [e \in Elem |-> taken[e] + IF PopWon(e) THEN 1 ELSE 0],
        Capacity <- moduloSize

(* Every step of pushWSDeque, popWSDeque and stealWSDeque is a step of the *)
(* double-ended queue, or none.                                            *)
Linearizable == Abstract!Spec
=============================================================================
