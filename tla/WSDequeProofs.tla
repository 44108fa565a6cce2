---------------------------- MODULE WSDequeProofs ----------------------------
(***************************************************************************)
(* Proofs about WSDeque for any number of elements and thieves and any     *)
(* array size: the inductive invariant IndInv, and from it that nothing is *)
(* handed out twice or lost; and that the deque implements the double-     *)
(* ended queue of module Deque.                                            *)
(***************************************************************************)
EXTENDS WSDeque, SequenceTheorems, TLAPS

-----------------------------------------------------------------------------
(* Arithmetic of the slots *)

(* Division with remainder, for a variable divisor. *)
LEMMA DivDef ==
  ASSUME NEW N \in Nat, N > 0, NEW i \in Int
  PROVE  /\ i % N \in 0..(N-1)
         /\ i = N * (i \div N) + (i % N)
  OBVIOUS

(* A product with a positive factor is no smaller than the other factor. *)
LEMMA MulMono ==
  ASSUME NEW N \in Nat, N > 0, NEW k \in Int, k >= 1
  PROVE  N * k >= N
  OBVIOUS

(* Fewer than N consecutive positions have different remainders. *)
LEMMA ModInj ==
  ASSUME NEW N \in Nat, N > 0, NEW i \in Int, NEW j \in Int,
         i <= j, j < i + N, i % N = j % N
  PROVE  i = j
<1> DEFINE c == i \div N  d == j \div N
<1>0. c \in Int /\ d \in Int OBVIOUS
<1>1. i = N * c + (i % N) /\ j = N * d + (j % N) BY DivDef
<1>2. j - i = N * d - N * c BY <1>0, <1>1
<1> HIDE DEF c, d
<1>3. N * d - N * c = N * (d - c) BY <1>0
<1>4. CASE d - c >= 1
  <2>1. N * (d - c) >= N BY <1>0, <1>4, MulMono
  <2> QED BY <2>1, <1>2, <1>3
<1>5. CASE c - d >= 1
  <2>1. N * (c - d) >= N BY <1>0, <1>5, MulMono
  <2>2. N * (c - d) = N * c - N * d BY <1>0
  <2> QED BY <2>1, <1>2, <2>2, <1>0
<1>6. CASE c = d BY <1>6, <1>2, <1>0
<1> QED BY <1>4, <1>5, <1>6, <1>0

(* Every position falls into a slot of the array. *)
LEMMA SlotType ==
  ASSUME NEW i \in Int
  PROVE  Slot(i) \in 0..moduloSize
BY DivDef, SizeAssumption DEF Slot, moduloSize

(* Two positions at most moduloSize apart fall into different slots: a     *)
(* push at bottom cannot overwrite a live element.                         *)
LEMMA SlotInj ==
  ASSUME NEW i \in Int, NEW j \in Int, i < j, j - i <= moduloSize
  PROVE  Slot(i) # Slot(j)
<1>1. Size \in Nat /\ Size > 0 /\ moduloSize = Size - 1
  BY SizeAssumption DEF moduloSize
<1>2. i <= j /\ j < i + Size BY <1>1
<1> QED BY <1>1, <1>2, ModInj DEF Slot

-----------------------------------------------------------------------------
(* newWSDeque establishes the invariant. *)
LEMMA IndInvInit == Init => IndInv
<1> SUFFICES ASSUME Init PROVE IndInv OBVIOUS
<1> USE SizeAssumption, NullAssumption, OwnerAssumption DEF Init
<1>1. TypeOK BY DEF TypeOK, Threads, OwnerPC, ThiefPC
<1>2. pc[Owner] = "idle" /\ LogicalBottom = 0 BY DEF LogicalBottom, Threads
<1>3. Live = {} BY <1>2 DEF Live
<1>4. Bounds BY <1>2 DEF Bounds, moduloSize
<1>5. SlotsLive BY <1>3 DEF SlotsLive
<1>6. OwnerInv BY <1>2 DEF OwnerInv
<1>7. ThiefInv BY DEF ThiefInv, Threads
<1>8. ExactlyOnce
  <2> SUFFICES ASSUME NEW e \in Elem
               PROVE  taken[e] <= 1 /\ (taken[e] = 1 => e \in pushed)
    BY DEF ExactlyOnce
  <2>1. taken[e] = 0 OBVIOUS
  <2> QED BY <2>1
<1>9. NothingLost BY DEF NothingLost
<1> QED BY <1>1, <1>4, <1>5, <1>6, <1>7, <1>8, <1>9 DEF IndInv

(* pushWSDeque up to the decision that there may be no room. *)
LEMMA PushStartInv ==
  ASSUME IndInv, NEW e \in Elem, PushStart(e)
  PROVE  IndInv'
<1> USE SizeAssumption, NullAssumption, OwnerAssumption DEF PushStart, Goto, dequeVars
<1>0. TypeOK /\ Bounds /\ SlotsLive /\ OwnerInv /\ ThiefInv /\ ExactlyOnce /\ NothingLost
  BY DEF IndInv
<1>1. TypeOK' BY <1>0 DEF TypeOK, Threads, OwnerPC, ThiefPC
<1>2. pc[Owner] = "idle" /\ pc'[Owner] \in {"pushReadTop", "pushWrite"}
  BY <1>0 DEF TypeOK, Threads
<1>3. LogicalBottom' = LogicalBottom /\ LogicalBottom = bottom
  BY <1>2 DEF LogicalBottom
<1>4. Live' = Live BY <1>3 DEF Live
<1>5. Bounds' BY <1>0, <1>3 DEF Bounds
<1>6. SlotsLive' BY <1>0, <1>4 DEF SlotsLive
<1>7. OwnerInv'
  <2>1. b'[Owner] = bottom /\ val'[Owner] = e BY <1>0 DEF TypeOK, Threads
  <2>2. pc'[Owner] = "pushWrite" => bottom - topBound < moduloSize
    BY <1>0 DEF TypeOK, Threads, moduloSize
  <2>3. pc'[Owner] = "pushWrite" => bottom - top < moduloSize
    BY <1>0, <1>3, <2>2 DEF TypeOK, Bounds, moduloSize
  <2> QED BY <1>2, <2>1, <2>3 DEF OwnerInv
<1>8. ThiefInv' BY <1>0, <1>3 DEF ThiefInv, TypeOK, Threads
<1>9. ExactlyOnce' BY <1>0 DEF ExactlyOnce
<1>10. NothingLost' BY <1>0, <1>2, <1>4 DEF NothingLost, PopWon
<1> QED BY <1>1, <1>5, <1>6, <1>7, <1>8, <1>9, <1>10 DEF IndInv

(* The second look at top: no room after all, or the push goes on. *)
LEMMA PushReadTopInv ==
  ASSUME IndInv, PushReadTop
  PROVE  IndInv'
<1> USE SizeAssumption, NullAssumption, OwnerAssumption DEF PushReadTop, Goto, Return
<1>0. TypeOK /\ Bounds /\ SlotsLive /\ OwnerInv /\ ThiefInv /\ ExactlyOnce /\ NothingLost
  BY DEF IndInv
<1>1. TypeOK' BY <1>0 DEF TypeOK, Threads, OwnerPC, ThiefPC
<1>2. pc[Owner] = "pushReadTop" /\ pc'[Owner] \in {"idle", "pushWrite"} /\ taken' = taken
  BY <1>0 DEF TypeOK, Threads
<1>3. LogicalBottom' = LogicalBottom /\ LogicalBottom = bottom
  BY <1>2 DEF LogicalBottom
<1>4. Live' = Live BY <1>3 DEF Live
<1>5. Bounds' BY <1>0, <1>3 DEF Bounds, TypeOK
<1>6. SlotsLive' BY <1>0, <1>2, <1>4 DEF SlotsLive
<1>7. OwnerInv'
  <2>1. pc'[Owner] = "pushWrite" => b[Owner] - top < moduloSize /\ val' = val
    BY <1>0 DEF TypeOK, Threads, moduloSize
  <2> QED BY <1>0, <1>2, <2>1 DEF OwnerInv
<1>8. ThiefInv'
  <2>1. \A s \in Thieves : pc'[s] = pc[s] /\ val'[s] = val[s] /\ t'[s] = t[s]
    BY <1>0 DEF TypeOK, Threads
  <2> QED BY <1>0, <1>3, <2>1 DEF ThiefInv
<1>9. ExactlyOnce' BY <1>0, <1>2 DEF ExactlyOnce
<1>10. NothingLost' BY <1>0, <1>2, <1>4 DEF NothingLost, PopWon
<1> QED BY <1>1, <1>5, <1>6, <1>7, <1>8, <1>9, <1>10 DEF IndInv

(* The new element is written to the free slot at bottom. *)
LEMMA PushWriteInv ==
  ASSUME IndInv, PushWrite
  PROVE  IndInv'
<1> USE SizeAssumption, NullAssumption, OwnerAssumption DEF PushWrite, Goto
<1>0. TypeOK /\ Bounds /\ SlotsLive /\ OwnerInv /\ ThiefInv /\ ExactlyOnce /\ NothingLost
  BY DEF IndInv
<1>1. TypeOK' BY <1>0, SlotType DEF TypeOK, Threads, OwnerPC, ThiefPC
<1>2. /\ pc[Owner] = "pushWrite" /\ pc'[Owner] = "pushBottom"
      /\ b[Owner] = bottom /\ val[Owner] \in Elem \ pushed /\ bottom - top < moduloSize
  BY <1>0 DEF TypeOK, Threads, OwnerInv
<1>3. LogicalBottom' = LogicalBottom /\ LogicalBottom = bottom
  BY <1>2 DEF LogicalBottom
<1>4. Live' = Live BY <1>3 DEF Live
<1>11. \A i \in Live : elements'[Slot(i)] = elements[Slot(i)]
  <2> SUFFICES ASSUME NEW i \in Live PROVE elements'[Slot(i)] = elements[Slot(i)]
    OBVIOUS
  <2>1. i \in Int /\ bottom \in Int /\ i < bottom /\ bottom - i <= moduloSize
    BY <1>0, <1>2, <1>3 DEF Live, TypeOK, moduloSize
  <2>2. Slot(i) # Slot(bottom) BY <2>1, SlotInj
  <2> QED BY <1>0, <1>2, <2>1, <2>2, SlotType DEF TypeOK
<1>5. Bounds' BY <1>0, <1>3 DEF Bounds
<1>6. SlotsLive' BY <1>0, <1>4, <1>11 DEF SlotsLive
<1>7. OwnerInv'
  <2>1. elements'[Slot(bottom)] = val[Owner]
    BY <1>0, <1>2, SlotType DEF TypeOK
  <2> QED BY <1>2, <2>1 DEF OwnerInv
<1>8. ThiefInv'
  <2> SUFFICES ASSUME NEW s \in Thieves
               PROVE  /\ t[s] <= top
                      /\ pc'[s] \in {"stealRead", "stealCas"} /\ t[s] = top
                           => top < LogicalBottom
                      /\ pc'[s] = "stealCas" /\ t[s] = top
                           => val[s] = elements'[Slot(top)]
    BY <1>3 DEF ThiefInv
  <2>1. pc'[s] = pc[s] BY <1>0 DEF TypeOK, Threads
  <2>2. top < LogicalBottom => top \in Live BY <1>0, <1>3 DEF Live, TypeOK
  <2> QED BY <1>0, <1>11, <2>1, <2>2 DEF ThiefInv
<1>9. ExactlyOnce' BY <1>0 DEF ExactlyOnce
<1>10. NothingLost' BY <1>0, <1>2, <1>4, <1>11 DEF NothingLost, PopWon
<1> QED BY <1>1, <1>5, <1>6, <1>7, <1>8, <1>9, <1>10 DEF IndInv

(* Raising bottom publishes the element. *)
LEMMA PushBottomInv ==
  ASSUME IndInv, PushBottom
  PROVE  IndInv'
<1> USE SizeAssumption, NullAssumption, OwnerAssumption DEF PushBottom, Goto, Return
<1>0. TypeOK /\ Bounds /\ SlotsLive /\ OwnerInv /\ ThiefInv /\ ExactlyOnce /\ NothingLost
  BY DEF IndInv
<1>1. TypeOK' BY <1>0 DEF TypeOK, Threads, OwnerPC, ThiefPC, OwnerInv
<1>2. /\ pc[Owner] = "pushBottom" /\ pc'[Owner] = "idle" /\ taken' = taken
      /\ b[Owner] = bottom /\ val[Owner] \in Elem \ pushed /\ bottom - top < moduloSize
      /\ elements[Slot(bottom)] = val[Owner]
  BY <1>0 DEF TypeOK, Threads, OwnerInv
<1>3. LogicalBottom' = bottom + 1 /\ LogicalBottom = bottom /\ bottom' = bottom + 1
  BY <1>2 DEF LogicalBottom
<1>4. Live' = Live \cup {bottom} /\ bottom \notin Live
  BY <1>0, <1>3 DEF Live, TypeOK, Bounds
<1>5. Bounds' BY <1>0, <1>2, <1>3 DEF Bounds, TypeOK, moduloSize
<1>6. SlotsLive'
  <2>1. taken[val[Owner]] = 0
    BY <1>0, <1>2 DEF ExactlyOnce, TypeOK
  <2> QED BY <1>0, <1>2, <1>4, <2>1 DEF SlotsLive
<1>7. OwnerInv' BY <1>2 DEF OwnerInv
<1>8. ThiefInv'
  <2>1. \A s \in Thieves : pc'[s] = pc[s] /\ val'[s] = val[s]
    BY <1>0 DEF TypeOK, Threads
  <2> QED BY <1>0, <1>3, <2>1 DEF ThiefInv, TypeOK
<1>9. ExactlyOnce' BY <1>0, <1>2 DEF ExactlyOnce
<1>10. NothingLost' BY <1>0, <1>2, <1>4 DEF NothingLost, PopWon
<1> QED BY <1>1, <1>5, <1>6, <1>7, <1>8, <1>9, <1>10 DEF IndInv

(* popWSDeque's test decrement of bottom changes no logical state. *)
LEMMA PopStartInv ==
  ASSUME IndInv, PopStart
  PROVE  IndInv'
<1> USE SizeAssumption, NullAssumption, OwnerAssumption DEF PopStart, Goto
<1>0. TypeOK /\ Bounds /\ SlotsLive /\ OwnerInv /\ ThiefInv /\ ExactlyOnce /\ NothingLost
  BY DEF IndInv
<1>2. pc[Owner] = "idle" /\ pc'[Owner] = "popReadTop" /\ b'[Owner] = bottom'
  BY <1>0 DEF TypeOK, Threads
<1>3. LogicalBottom' = bottom /\ LogicalBottom = bottom
  BY <1>0, <1>2 DEF LogicalBottom, TypeOK
<1>1. TypeOK'
  <2>1. bottom - 1 \in Nat \cup {-1} BY <1>0, <1>3 DEF TypeOK, Bounds
  <2> QED BY <1>0, <2>1 DEF TypeOK, Threads, OwnerPC, ThiefPC
<1>4. Live' = Live BY <1>3 DEF Live
<1>5. Bounds' BY <1>0, <1>3 DEF Bounds
<1>6. SlotsLive' BY <1>0, <1>4 DEF SlotsLive
<1>7. OwnerInv' BY <1>2 DEF OwnerInv
<1>8. ThiefInv'
  <2>1. \A s \in Thieves : pc'[s] = pc[s] BY <1>0 DEF TypeOK, Threads
  <2> QED BY <1>0, <1>3, <2>1 DEF ThiefInv
<1>9. ExactlyOnce' BY <1>0 DEF ExactlyOnce
<1>10. NothingLost' BY <1>0, <1>2, <1>4 DEF NothingLost, PopWon
<1> QED BY <1>1, <1>5, <1>6, <1>7, <1>8, <1>9, <1>10 DEF IndInv

(* The read of top decides the pop: empty, safely popped, or a race. *)
LEMMA PopReadTopInv ==
  ASSUME IndInv, PopReadTop
  PROVE  IndInv'
<1> USE SizeAssumption, NullAssumption, OwnerAssumption DEF PopReadTop, Goto, Return
<1>0. TypeOK /\ Bounds /\ SlotsLive /\ OwnerInv /\ ThiefInv /\ ExactlyOnce /\ NothingLost
  BY DEF IndInv
<1>2. /\ pc[Owner] = "popReadTop" /\ b[Owner] = bottom /\ LogicalBottom = bottom + 1
      /\ top \in Nat /\ bottom \in Int
  BY <1>0 DEF OwnerInv, LogicalBottom, TypeOK
<1>3. \A s \in Thieves : pc'[s] = pc[s] /\ val'[s] = val[s] /\ t'[s] = t[s]
  BY <1>0 DEF TypeOK, Threads
<1>4. /\ t'[Owner] = top /\ b'[Owner] = bottom
      /\ topBound' = top /\ top' = top /\ bottom' = bottom
      /\ elements' = elements /\ pushed' = pushed
  BY <1>0, <1>2 DEF TypeOK, Threads
<1>5. CASE bottom < top
  <2>1. pc'[Owner] = "popEmpty" /\ taken' = taken /\ val' = val
    BY <1>0, <1>2, <1>5 DEF TypeOK, Threads
  <2>2. top = bottom + 1 BY <1>0, <1>2, <1>5 DEF Bounds
  <2>3. LogicalBottom' = LogicalBottom /\ Live' = Live
    BY <1>2, <1>4, <2>1 DEF LogicalBottom, Live
  <2>4. TypeOK' BY <1>0, <2>1 DEF TypeOK, Threads, OwnerPC, ThiefPC
  <2>5. Bounds' BY <1>0, <1>2, <1>4, <2>3 DEF Bounds
  <2>6. SlotsLive' BY <1>0, <1>4, <2>1, <2>3 DEF SlotsLive
  <2>7. OwnerInv' BY <1>4, <2>1, <2>2 DEF OwnerInv
  <2>8. ThiefInv' BY <1>0, <1>3, <1>4, <2>3 DEF ThiefInv
  <2>9. ExactlyOnce' /\ NothingLost'
    BY <1>0, <1>2, <1>4, <2>1, <2>3 DEF ExactlyOnce, NothingLost, PopWon
  <2> QED BY <2>4, <2>5, <2>6, <2>7, <2>8, <2>9 DEF IndInv
<1>6. CASE bottom > top
  <2> DEFINE e == elements[Slot(bottom)]
  <2>1. bottom \in Live BY <1>2, <1>6 DEF Live
  <2>2. e \in Elem /\ e \in pushed /\ taken[e] = 0 /\ e # NULL
    BY <1>0, <2>1 DEF SlotsLive, TypeOK
  <2>3. pc'[Owner] = "idle" /\ taken' = [taken EXCEPT ![e] = @ + 1]
    BY <1>0, <1>2, <1>6, <2>2 DEF TypeOK, Threads
  <2>4. LogicalBottom' = bottom /\ Live' = Live \ {bottom}
    BY <1>2, <1>4, <2>3 DEF LogicalBottom, Live
  <2>5. taken'[e] = 1 /\ \A x \in Elem \ {e} : taken'[x] = taken[x]
    BY <1>0, <2>2, <2>3 DEF TypeOK
  <2>6. \A i \in Live' : elements[Slot(i)] # e BY <1>0, <2>1, <2>4 DEF SlotsLive
  <2>7. TypeOK'
    <3>1. val' = [val EXCEPT ![Owner] = e] /\ pc' = [pc EXCEPT ![Owner] = "idle"]
      BY <1>2, <1>6
    <3>2. val' \in [Threads -> Elem \cup {NULL}] BY <1>0, <2>2, <3>1 DEF TypeOK
    <3>3. taken' \in [Elem -> Nat] BY <1>0, <2>2, <2>3 DEF TypeOK
    <3> QED BY <1>0, <1>4, <3>1, <3>2, <3>3 DEF TypeOK, Threads, OwnerPC, ThiefPC
  <2>8. Bounds' BY <1>0, <1>2, <1>4, <1>6, <2>4 DEF Bounds, moduloSize
  <2>9. SlotsLive'
    <3>1. \A i \in Live' : elements[Slot(i)] \in Elem \ {e}
      BY <1>0, <2>4, <2>6 DEF SlotsLive, TypeOK
    <3> QED BY <1>0, <1>4, <2>4, <2>5, <3>1 DEF SlotsLive
  <2>10. OwnerInv' BY <2>3 DEF OwnerInv
  <2>11. ThiefInv' BY <1>0, <1>2, <1>3, <1>4, <1>6, <2>4 DEF ThiefInv, TypeOK
  <2>12. ExactlyOnce'
    <3> SUFFICES ASSUME NEW x \in Elem
                 PROVE  taken'[x] <= 1 /\ (taken'[x] = 1 => x \in pushed')
      BY DEF ExactlyOnce
    <3>1. CASE x = e BY <3>1, <1>4, <2>2, <2>5
    <3>2. CASE x # e BY <3>2, <1>0, <1>4, <2>5 DEF ExactlyOnce
    <3> QED BY <3>1, <3>2
  <2>13. NothingLost'
    <3> SUFFICES ASSUME NEW x \in pushed
                 PROVE  \/ taken'[x] >= 1
                        \/ \E i \in Live' : elements'[Slot(i)] = x
      BY <1>4 DEF NothingLost
    <3>1. CASE x = e BY <3>1, <2>5
    <3>2. CASE x # e
      <4>1. taken[x] >= 1 \/ \E i \in Live : elements[Slot(i)] = x
        BY <1>0, <1>2 DEF NothingLost, PopWon
      <4> QED BY <1>0, <3>2, <4>1, <1>4, <2>4, <2>5 DEF TypeOK
    <3> QED BY <3>1, <3>2
  <2> QED BY <2>7, <2>8, <2>9, <2>10, <2>11, <2>12, <2>13 DEF IndInv
<1>7. CASE bottom = top
  <2>1. /\ pc'[Owner] = "popCas" /\ taken' = taken
        /\ val'[Owner] = elements[Slot(bottom)]
    BY <1>0, <1>2, <1>7 DEF TypeOK, Threads
  <2>2. val' \in [Threads -> Elem \cup {NULL}]
    BY <1>0, <1>2, <1>7, SlotType DEF TypeOK
  <2>3. LogicalBottom' = LogicalBottom /\ Live' = Live
    BY <1>2, <1>4, <2>1 DEF LogicalBottom, Live
  <2>4. TypeOK' BY <1>0, <2>1, <2>2, <1>2, <1>7 DEF TypeOK, Threads, OwnerPC, ThiefPC
  <2>5. Bounds' BY <1>0, <1>2, <1>4, <2>3 DEF Bounds
  <2>6. SlotsLive' BY <1>0, <1>4, <2>1, <2>3 DEF SlotsLive
  <2>7. OwnerInv' BY <1>2, <1>4, <1>7, <2>1 DEF OwnerInv
  <2>8. ThiefInv' BY <1>0, <1>3, <1>4, <2>3 DEF ThiefInv
  <2>9. ExactlyOnce' /\ NothingLost'
    BY <1>0, <1>2, <1>4, <2>1, <2>3 DEF ExactlyOnce, NothingLost, PopWon
  <2> QED BY <2>4, <2>5, <2>6, <2>7, <2>8, <2>9 DEF IndInv
<1> QED BY <1>2, <1>5, <1>6, <1>7

(* An empty pop puts bottom back. *)
LEMMA PopEmptyInv ==
  ASSUME IndInv, PopEmpty
  PROVE  IndInv'
<1> USE SizeAssumption, NullAssumption, OwnerAssumption DEF PopEmpty, Goto, Return
<1>0. TypeOK /\ Bounds /\ SlotsLive /\ OwnerInv /\ ThiefInv /\ ExactlyOnce /\ NothingLost
  BY DEF IndInv
<1>2. /\ pc[Owner] = "popEmpty" /\ pc'[Owner] = "idle" /\ taken' = taken
      /\ t[Owner] = bottom + 1 /\ top = bottom + 1 /\ bottom' = bottom + 1
  BY <1>0 DEF TypeOK, Threads, OwnerInv
<1>1. TypeOK' BY <1>0, <1>2 DEF TypeOK, Threads, OwnerPC, ThiefPC
<1>3. LogicalBottom' = LogicalBottom BY <1>2 DEF LogicalBottom
<1>4. Live' = Live BY <1>3 DEF Live
<1>5. Bounds' BY <1>0, <1>3 DEF Bounds
<1>6. SlotsLive' BY <1>0, <1>2, <1>4 DEF SlotsLive
<1>7. OwnerInv' BY <1>2 DEF OwnerInv
<1>8. ThiefInv'
  <2>1. \A s \in Thieves : pc'[s] = pc[s] /\ val'[s] = val[s]
    BY <1>0 DEF TypeOK, Threads
  <2> QED BY <1>0, <1>3, <2>1 DEF ThiefInv
<1>9. ExactlyOnce' BY <1>0, <1>2 DEF ExactlyOnce
<1>10. NothingLost' BY <1>0, <1>2, <1>4 DEF NothingLost, PopWon
<1> QED BY <1>1, <1>5, <1>6, <1>7, <1>8, <1>9, <1>10 DEF IndInv

(* The owner's CAS on top for the last element. *)
LEMMA PopCasInv ==
  ASSUME IndInv, PopCas
  PROVE  IndInv'
<1> USE SizeAssumption, NullAssumption, OwnerAssumption DEF PopCas, Goto
<1>0. TypeOK /\ Bounds /\ SlotsLive /\ OwnerInv /\ ThiefInv /\ ExactlyOnce /\ NothingLost
  BY DEF IndInv
<1>2. /\ pc[Owner] = "popCas" /\ pc'[Owner] = "popBottom" /\ t[Owner] = bottom
      /\ top >= bottom /\ (top = bottom => val[Owner] = elements[Slot(top)])
      /\ top \in Nat /\ bottom \in Int
  BY <1>0 DEF TypeOK, Threads, OwnerInv
<1>1. TypeOK' BY <1>0 DEF TypeOK, Threads, OwnerPC, ThiefPC
<1>3. LogicalBottom' = bottom + 1 /\ LogicalBottom = bottom + 1
  BY <1>2 DEF LogicalBottom
<1>4. top' = bottom + 1 /\ Live' = {} BY <1>0, <1>2, <1>3 DEF Live, Bounds
<1>5. Bounds' BY <1>0, <1>2, <1>3, <1>4 DEF Bounds, TypeOK, moduloSize
<1>6. SlotsLive' BY <1>4 DEF SlotsLive
<1>11. ASSUME top = bottom PROVE OwnerInv' /\ NothingLost'
  <2> DEFINE e == elements[Slot(bottom)]
  <2>1. Live = {bottom} BY <1>2, <1>3, <1>11 DEF Live
  <2>2. val'[Owner] = e /\ e \in pushed /\ taken[e] = 0
    BY <1>0, <1>2, <1>11, <2>1 DEF SlotsLive
  <2>7. OwnerInv' BY <1>2, <1>4, <2>2 DEF OwnerInv
  <2>10. NothingLost'
    BY <1>0, <1>2, <2>1, <2>2 DEF NothingLost, PopWon
  <2> QED BY <2>7, <2>10
<1>12. ASSUME top # bottom PROVE OwnerInv' /\ NothingLost'
  <2>1. Live = {} BY <1>0, <1>2, <1>3, <1>12 DEF Live, Bounds
  <2>2. val'[Owner] = NULL BY <1>0, <1>2, <1>12 DEF TypeOK, Threads
  <2>7. OwnerInv' BY <1>2, <1>4, <2>2 DEF OwnerInv
  <2>10. NothingLost' BY <1>0, <1>2, <2>1 DEF NothingLost, PopWon
  <2> QED BY <2>7, <2>10
<1>7. OwnerInv' BY <1>11, <1>12
<1>8. ThiefInv'
  <2> SUFFICES ASSUME NEW s \in Thieves
               PROVE  /\ t[s] <= top'
                      /\ pc'[s] \in {"stealRead", "stealCas"} => t[s] # top'
    BY DEF ThiefInv
  <2>1. pc'[s] = pc[s] /\ t[s] <= top /\ t[s] \in Nat
    BY <1>0 DEF TypeOK, Threads, ThiefInv
  <2>2. pc[s] \in {"stealRead", "stealCas"} /\ t[s] = top => top < bottom + 1
    BY <1>0, <1>3 DEF ThiefInv
  <2> QED BY <1>0, <1>2, <1>3, <1>4, <2>1, <2>2 DEF Bounds
<1>9. ExactlyOnce' BY <1>0 DEF ExactlyOnce
<1>10. NothingLost' BY <1>11, <1>12
<1> QED BY <1>1, <1>5, <1>6, <1>7, <1>8, <1>9, <1>10 DEF IndInv

(* The pop that raced returns what it won, with bottom put back. *)
LEMMA PopBottomInv ==
  ASSUME IndInv, PopBottom
  PROVE  IndInv'
<1> USE SizeAssumption, NullAssumption, OwnerAssumption DEF PopBottom, Goto, Return
<1>0. TypeOK /\ Bounds /\ SlotsLive /\ OwnerInv /\ ThiefInv /\ ExactlyOnce /\ NothingLost
  BY DEF IndInv
<1>2. /\ pc[Owner] = "popBottom" /\ pc'[Owner] = "idle" /\ t[Owner] = bottom
      /\ top = bottom + 1 /\ bottom' = bottom + 1 /\ topBound' = bottom + 1
      /\ val[Owner] # NULL =>
            val[Owner] \in pushed /\ val[Owner] \in Elem /\ taken[val[Owner]] = 0
  BY <1>0 DEF TypeOK, Threads, OwnerInv
<1>1. TypeOK' BY <1>0, <1>2 DEF TypeOK, Threads, OwnerPC, ThiefPC
<1>3. LogicalBottom' = bottom + 1 /\ LogicalBottom = bottom + 1
  BY <1>2 DEF LogicalBottom
<1>4. Live' = {} /\ Live = {} BY <1>0, <1>2, <1>3 DEF Live, TypeOK
<1>5. Bounds' BY <1>0, <1>2, <1>3 DEF Bounds
<1>6. SlotsLive' BY <1>4 DEF SlotsLive
<1>7. OwnerInv' BY <1>2 DEF OwnerInv
<1>8. ThiefInv'
  <2>1. \A s \in Thieves : pc'[s] = pc[s] /\ val'[s] = val[s]
    BY <1>0 DEF TypeOK, Threads
  <2> QED BY <1>0, <1>3, <2>1 DEF ThiefInv
<1>11. \A x \in Elem : taken'[x] = IF x = val[Owner] THEN 1 ELSE taken[x]
  BY <1>0, <1>2 DEF TypeOK
<1>9. ExactlyOnce'
  <2> SUFFICES ASSUME NEW x \in Elem
               PROVE  taken'[x] <= 1 /\ (taken'[x] = 1 => x \in pushed)
    BY DEF ExactlyOnce
  <2>1. CASE x = val[Owner] BY <2>1, <1>2, <1>11
  <2>2. CASE x # val[Owner] BY <2>2, <1>0, <1>11 DEF ExactlyOnce
  <2> QED BY <2>1, <2>2
<1>10. NothingLost'
  <2> SUFFICES ASSUME NEW x \in pushed PROVE taken'[x] >= 1
    BY DEF NothingLost
  <2>1. x \in Elem /\ (taken[x] >= 1 \/ val[Owner] = x)
    BY <1>0, <1>4 DEF NothingLost, PopWon, TypeOK
  <2> QED BY <2>1, <1>0, <1>11 DEF TypeOK
<1> QED BY <1>1, <1>5, <1>6, <1>7, <1>8, <1>9, <1>10 DEF IndInv

-----------------------------------------------------------------------------
(* stealWSDeque_ *)

(* A step that only moves thieves' locals leaves the owner's parts alone. *)
LEMMA ThiefStep ==
  ASSUME IndInv, UNCHANGED <<dequeVars, pushed, taken>>,
         pc'[Owner] = pc[Owner], t'[Owner] = t[Owner],
         b'[Owner] = b[Owner], val'[Owner] = val[Owner]
  PROVE  /\ Bounds' /\ SlotsLive' /\ OwnerInv' /\ ExactlyOnce' /\ NothingLost'
         /\ LogicalBottom' = LogicalBottom
<1>1. LogicalBottom' = LogicalBottom /\ Live' = Live
  BY DEF LogicalBottom, Live, dequeVars
<1>2. Bounds' BY <1>1 DEF IndInv, Bounds, dequeVars
<1>3. SlotsLive' BY <1>1 DEF IndInv, SlotsLive, dequeVars
<1>4. OwnerInv' BY DEF IndInv, OwnerInv, dequeVars
<1>5. ExactlyOnce' BY DEF IndInv, ExactlyOnce
<1>6. NothingLost' BY <1>1 DEF IndInv, NothingLost, PopWon, dequeVars
<1> QED BY <1>1, <1>2, <1>3, <1>4, <1>5, <1>6

(* Every step of stealWSDeque_ before its CAS, and looksEmptyWSDeque. *)
LEMMA StealReadsInv ==
  ASSUME IndInv, NEW s \in Thieves,
         \/ StealReadTop(s) \/ StealReadBottom(s) \/ StealRead(s)
         \/ RetryReadTop(s) \/ RetryReadBottom(s)
  PROVE  IndInv'
<1> USE SizeAssumption, NullAssumption, OwnerAssumption
        DEF Goto, Return, StealFailed, dequeVars
<1>0. TypeOK /\ Bounds /\ ThiefInv BY DEF IndInv
<1>1. s \in Threads /\ Owner \in Threads /\ s # Owner BY DEF Threads
<1>2. bottom <= LogicalBottom BY <1>0 DEF TypeOK, LogicalBottom
<1>3. CASE StealReadTop(s)
  <2> USE <1>3 DEF StealReadTop
  <2>1. TypeOK' BY <1>0, <1>1 DEF TypeOK, Threads, OwnerPC, ThiefPC
  <2>2. LogicalBottom' = LogicalBottom BY <1>0, <1>1, ThiefStep DEF TypeOK
  <2>3. ThiefInv' BY <1>0, <1>1, <2>2 DEF ThiefInv, TypeOK, Threads
  <2> QED BY <1>0, <1>1, <2>1, <2>3, ThiefStep DEF IndInv, TypeOK
<1>4. CASE StealReadBottom(s)
  <2> USE <1>4 DEF StealReadBottom
  <2>1. TypeOK'
    <3>1. val' \in [Threads -> Elem \cup {NULL}] BY <1>0, <1>1 DEF TypeOK
    <3>2. PICK l \in {"idle", "retryReadTop", "stealRead"} : pc' = [pc EXCEPT ![s] = l]
      OBVIOUS
    <3>3. taken' = taken OBVIOUS
    <3>4. b' \in [Threads -> Int]
      <4>1. b' = [b EXCEPT ![s] = bottom] /\ bottom \in Int BY <1>0 DEF TypeOK
      <4> HIDE <1>4
      <4> QED BY <1>0, <1>1, <4>1 DEF TypeOK
    <3> QED BY <1>0, <1>1, <3>1, <3>2, <3>3, <3>4 DEF TypeOK, Threads, OwnerPC, ThiefPC
  <2>0. taken' = taken OBVIOUS
  <2>2. LogicalBottom' = LogicalBottom BY <1>0, <1>1, <2>0, ThiefStep DEF TypeOK
  <2>3. pc'[s] \in {"stealRead", "stealCas"} => pc'[s] = "stealRead" /\ t[s] < bottom
    BY <1>0, <1>1 DEF TypeOK
  <2>4. \A r \in Thieves \ {s} : pc'[r] = pc[r] /\ val'[r] = val[r]
    BY <1>0 DEF TypeOK, Threads
  <2>5. t[s] = top /\ pc'[s] \in {"stealRead", "stealCas"} => top < LogicalBottom
    BY <1>0, <1>1, <1>2, <2>3 DEF TypeOK, LogicalBottom
  <2>6. ThiefInv' BY <1>0, <1>1, <2>2, <2>3, <2>4, <2>5 DEF ThiefInv
  <2> QED BY <1>0, <1>1, <2>0, <2>1, <2>6, ThiefStep DEF IndInv, TypeOK
<1>5. CASE StealRead(s)
  <2> USE <1>5 DEF StealRead
  <2>0. t[s] \in Int BY <1>0, <1>1 DEF TypeOK
  <2>3. elements[Slot(t[s])] \in Elem \cup {NULL} BY <1>0, <2>0, SlotType DEF TypeOK
  <2>4. val' \in [Threads -> Elem \cup {NULL}] BY <1>0, <2>3 DEF TypeOK
  <2>1. TypeOK' BY <1>0, <1>1, <2>4 DEF TypeOK, Threads, OwnerPC, ThiefPC
  <2>2. LogicalBottom' = LogicalBottom BY <1>0, <1>1, ThiefStep DEF TypeOK
  <2>5. ThiefInv' BY <1>0, <1>1, <2>2 DEF ThiefInv, TypeOK, Threads
  <2> QED BY <1>0, <1>1, <2>1, <2>5, ThiefStep DEF IndInv, TypeOK
<1>6. CASE RetryReadTop(s)
  <2> USE <1>6 DEF RetryReadTop
  <2>1. TypeOK' BY <1>0, <1>1 DEF TypeOK, Threads, OwnerPC, ThiefPC
  <2>2. LogicalBottom' = LogicalBottom BY <1>0, <1>1, ThiefStep DEF TypeOK
  <2>3. ThiefInv' BY <1>0, <1>1, <2>2 DEF ThiefInv, TypeOK, Threads
  <2> QED BY <1>0, <1>1, <2>1, <2>3, ThiefStep DEF IndInv, TypeOK
<1>7. CASE RetryReadBottom(s)
  <2> USE <1>7 DEF RetryReadBottom
  <2>1. TypeOK' BY <1>0, <1>1 DEF TypeOK, Threads, OwnerPC, ThiefPC
  <2>0. taken' = taken OBVIOUS
  <2>2. LogicalBottom' = LogicalBottom BY <1>0, <1>1, <2>0, ThiefStep DEF TypeOK
  <2>3. pc'[s] \in {"idle", "stealReadTop"} BY <1>0, <1>1 DEF TypeOK
  <2>4. \A r \in Thieves \ {s} : pc'[r] = pc[r] /\ val'[r] = val[r]
    BY <1>0 DEF TypeOK, Threads
  <2>6. ThiefInv' BY <1>0, <1>1, <2>2, <2>3, <2>4 DEF ThiefInv
  <2> QED BY <1>0, <1>1, <2>0, <2>1, <2>6, ThiefStep DEF IndInv, TypeOK
<1> QED BY <1>3, <1>4, <1>5, <1>6, <1>7

(* The thief's CAS: when top is still its t, the oldest live element       *)
(* changes hands; otherwise nothing does.                                  *)
LEMMA StealCasInv ==
  ASSUME IndInv, NEW s \in Thieves, StealCas(s)
  PROVE  IndInv'
<1> USE SizeAssumption, NullAssumption, OwnerAssumption
        DEF StealCas, Goto, Return, StealFailed
<1>0. TypeOK /\ Bounds /\ SlotsLive /\ OwnerInv /\ ThiefInv /\ ExactlyOnce /\ NothingLost
  BY DEF IndInv
<1>1. s \in Threads /\ Owner \in Threads /\ s # Owner BY DEF Threads
<1>2. /\ pc'[Owner] = pc[Owner] /\ val'[Owner] = val[Owner]
      /\ pc[s] = "stealCas" /\ pc'[s] \in {"idle", "retryReadTop"}
      /\ \A r \in Thieves \ {s} : pc'[r] = pc[r] /\ val'[r] = val[r]
  BY <1>0, <1>1 DEF TypeOK, Threads
<1>3. CASE top # t[s]
  <2>1. top' = top /\ taken' = taken BY <1>3
  <2>2. TypeOK' BY <1>0, <1>1, <1>3 DEF TypeOK, Threads, OwnerPC, ThiefPC
  <2>3. LogicalBottom' = LogicalBottom BY <1>2, <2>1, ThiefStep DEF dequeVars
  <2>4. ThiefInv' BY <1>0, <1>2, <2>1, <2>3 DEF ThiefInv
  <2> QED BY <1>2, <2>1, <2>2, <2>4, ThiefStep DEF IndInv, dequeVars
<1>4. CASE top = t[s]
  <2> DEFINE e == elements[Slot(top)]
  <2>1. top < LogicalBottom /\ val[s] = e BY <1>0, <1>2, <1>4 DEF ThiefInv
  <2>2. /\ LogicalBottom \in Int /\ top \in Nat /\ top' = top + 1
        /\ LogicalBottom' = LogicalBottom
    BY <1>0, <1>2, <1>4 DEF LogicalBottom, TypeOK
  <2>3. top \in Live /\ Live' = Live \ {top} BY <2>1, <2>2 DEF Live
  <2>4. e \in pushed /\ e \in Elem /\ e # NULL /\ taken[e] = 0
    BY <1>0, <2>3 DEF SlotsLive, TypeOK
  <2>5. taken' = [taken EXCEPT ![e] = @ + 1] BY <1>4, <2>1, <2>4
  <2>6. taken'[e] = 1 /\ \A x \in Elem \ {e} : taken'[x] = taken[x]
    BY <1>0, <2>4, <2>5 DEF TypeOK
  <2>7. TypeOK'
    <3>1. taken' \in [Elem -> Nat] BY <1>0, <2>4, <2>5 DEF TypeOK
    <3>2. val' = [val EXCEPT ![s] = val[s]] /\ pc' = [pc EXCEPT ![s] = "idle"]
      BY <1>4
    <3> QED BY <1>0, <1>1, <2>2, <3>1, <3>2 DEF TypeOK, Threads, OwnerPC, ThiefPC
  <2>8. Bounds' BY <1>0, <2>1, <2>2 DEF Bounds, TypeOK, moduloSize
  <2>9. SlotsLive'
    <3>1. \A i \in Live' : elements[Slot(i)] \in Elem \ {e}
      BY <1>0, <2>3 DEF SlotsLive, TypeOK
    <3> QED BY <1>0, <2>3, <2>6, <3>1 DEF SlotsLive
  <2>10. OwnerInv'
    <3>1. pc[Owner] \notin {"popEmpty", "popBottom"}
      BY <1>0, <2>1, <2>2 DEF OwnerInv, LogicalBottom
    <3>2. pc[Owner] = "popCas" => top' = bottom + 1
      BY <1>0, <2>1, <2>2 DEF OwnerInv, LogicalBottom, TypeOK
    <3> QED BY <1>0, <1>2, <2>2, <3>1, <3>2 DEF OwnerInv, TypeOK, moduloSize
  <2>11. ThiefInv'
    <3> SUFFICES ASSUME NEW r \in Thieves
                 PROVE  t[r] <= top' /\ t[r] # top'
      BY DEF ThiefInv
    <3> QED BY <1>0, <2>2 DEF ThiefInv, TypeOK, Threads
  <2>12. ExactlyOnce'
    <3> SUFFICES ASSUME NEW x \in Elem
                 PROVE  taken'[x] <= 1 /\ (taken'[x] = 1 => x \in pushed)
      BY DEF ExactlyOnce
    <3>1. CASE x = e BY <3>1, <2>4, <2>6
    <3>2. CASE x # e BY <3>2, <1>0, <2>6 DEF ExactlyOnce
    <3> QED BY <3>1, <3>2
  <2>13. NothingLost'
    <3> SUFFICES ASSUME NEW x \in pushed
                 PROVE  \/ taken'[x] >= 1
                        \/ PopWon(x)
                        \/ \E i \in Live' : elements[Slot(i)] = x
      BY <1>2 DEF NothingLost, PopWon
    <3>1. CASE x = e BY <3>1, <2>6
    <3>2. CASE x # e
      <4>1. \/ taken[x] >= 1 \/ PopWon(x) \/ \E i \in Live : elements[Slot(i)] = x
        BY <1>0 DEF NothingLost
      <4> QED BY <1>0, <3>2, <4>1, <2>3, <2>6 DEF TypeOK
    <3> QED BY <3>1, <3>2
  <2> QED BY <2>7, <2>8, <2>9, <2>10, <2>11, <2>12, <2>13 DEF IndInv
<1> QED BY <1>3, <1>4

-----------------------------------------------------------------------------
(* IndInv is inductive: every access of push, pop and steal preserves it,  *)
(* whoever interleaves.                                                    *)
LEMMA IndInvNext == IndInv /\ [Next]_vars => IndInv'
<1> SUFFICES ASSUME IndInv, [Next]_vars PROVE IndInv' OBVIOUS
<1>1. CASE Push
  BY <1>1, PushStartInv, PushReadTopInv, PushWriteInv, PushBottomInv DEF Push
<1>2. CASE Pop
  BY <1>2, PopStartInv, PopReadTopInv, PopEmptyInv, PopCasInv, PopBottomInv DEF Pop
<1>3. ASSUME NEW s \in Thieves, Steal(s) PROVE IndInv'
  BY <1>3, StealReadsInv, StealCasInv DEF Steal
<1>4. CASE UNCHANGED vars
  BY <1>4 DEF vars, IndInv, TypeOK, Bounds, SlotsLive, OwnerInv, ThiefInv, ExactlyOnce,
              NothingLost, LogicalBottom, Live, PopWon
<1> QED BY <1>1, <1>2, <1>3, <1>4 DEF Next

(* The inductive invariant holds throughout every behaviour of the deque,  *)
(* for any Elem, Thieves and Size: pushWSDeque, popWSDeque and             *)
(* stealWSDeque_ keep what a thief has read valid until its CAS.           *)
THEOREM IndInvCorrect == Spec => []IndInv
BY IndInvInit, IndInvNext, PTL DEF Spec

(* The words of the deque and the locals of its operations keep their      *)
(* types: popWSDeque's test decrement never takes bottom below -1.         *)
THEOREM TypeCorrect == Spec => []TypeOK
<1>1. IndInv => TypeOK BY DEF IndInv
<1> QED BY <1>1, IndInvCorrect, PTL

(* popWSDeque and stealWSDeque_ never hand out an element twice, nor one   *)
(* that was never pushed.                                                  *)
THEOREM ExactlyOnceCorrect == Spec => []ExactlyOnce
<1>1. IndInv => ExactlyOnce BY DEF IndInv
<1> QED BY <1>1, IndInvCorrect, PTL

(* No element accepted by pushWSDeque is lost. *)
THEOREM NothingLostCorrect == Spec => []NothingLost
<1>1. IndInv => NothingLost BY DEF IndInv
<1> QED BY <1>1, IndInvCorrect, PTL

(* The owner's assertions hold: topBound bounds top from below, and push   *)
(* writes only to a slot that is not live.                                 *)
THEOREM OwnerAssertsCorrect == Spec => []OwnerAsserts
<1>1. IndInv => OwnerAsserts
  BY DEF IndInv, Bounds, OwnerInv, OwnerAsserts, LogicalBottom, TypeOK
<1> QED BY <1>1, IndInvCorrect, PTL

-----------------------------------------------------------------------------
(* Functions on an interval as sequences. *)

(* One more value at the end is Append. *)
LEMMA AppendFun ==
  ASSUME NEW n \in Nat, NEW S, NEW f \in [1..n -> S], NEW g \in [1..(n + 1) -> S],
         \A i \in 1..n : g[i] = f[i]
  PROVE  g = Append(f, g[n + 1])
<1>1. f \in Seq(S) /\ g \in Seq(S) /\ Len(f) = n /\ Len(g) = n + 1
  OBVIOUS
<1>2. g[n + 1] \in S
  OBVIOUS
<1>3. /\ Append(f, g[n + 1]) \in Seq(S) /\ Len(Append(f, g[n + 1])) = n + 1
      /\ \A i \in 1..n : Append(f, g[n + 1])[i] = f[i]
      /\ Append(f, g[n + 1])[n + 1] = g[n + 1]
  BY <1>1, <1>2, AppendProperties
<1> QED  BY <1>1, <1>3, SeqEqual

(* One value less at the end is SubSeq. *)
LEMMA FrontFun ==
  ASSUME NEW n \in Nat, n > 0, NEW S, NEW f \in [1..n -> S], NEW g \in [1..(n - 1) -> S],
         \A i \in 1..(n - 1) : g[i] = f[i]
  PROVE  g = SubSeq(f, 1, Len(f) - 1) /\ f # <<>> /\ f[Len(f)] = f[n]
<1>1. f \in Seq(S) /\ g \in Seq(S) /\ Len(f) = n /\ Len(g) = n - 1
  OBVIOUS
<1>2. /\ SubSeq(f, 1, n - 1) \in Seq(S) /\ Len(SubSeq(f, 1, n - 1)) = n - 1
      /\ \A i \in 1..(n - 1) : SubSeq(f, 1, n - 1)[i] = f[i]
  BY <1>1
<1> QED  BY <1>1, <1>2, SeqEqual

(* One value less at the front is Tail. *)
LEMMA TailFun ==
  ASSUME NEW n \in Nat, n > 0, NEW S, NEW f \in [1..n -> S], NEW g \in [1..(n - 1) -> S],
         \A i \in 1..(n - 1) : g[i] = f[i + 1]
  PROVE  g = Tail(f) /\ f # <<>> /\ Head(f) = f[1]
<1>1. f \in Seq(S) /\ g \in Seq(S) /\ Len(f) = n /\ Len(g) = n - 1 /\ f # <<>>
  OBVIOUS
<1>2. /\ Tail(f) \in Seq(S) /\ Len(Tail(f)) = n - 1 /\ Head(f) = f[1]
      /\ \A i \in 1..(n - 1) : Tail(f)[i] = f[i + 1]
  BY <1>1, HeadTailProperties
<1> QED  BY <1>1, <1>2, SeqEqual

-----------------------------------------------------------------------------
(* The refinement mapping. *)

Elements == [i \in 1..(LogicalBottom - top) |-> elements[Slot(top + i - 1)]]
Taken == [e \in Elem |-> taken[e] + IF PopWon(e) THEN 1 ELSE 0]

(* The live slots, in order, are a sequence of elements. *)
ElementsOK ==
  /\ LogicalBottom \in Int /\ LogicalBottom - top \in Nat
  /\ Elements \in [1..(LogicalBottom - top) -> Elem]
  /\ Elements \in Seq(Elem) /\ Len(Elements) = LogicalBottom - top

(* The invariant makes them one (SlotsLive). *)
LEMMA ElementsType == IndInv => ElementsOK
<1> SUFFICES ASSUME IndInv PROVE ElementsOK
  OBVIOUS
<1>1. LogicalBottom \in Int /\ top \in Nat /\ LogicalBottom - top \in Nat
  BY DEF IndInv, TypeOK, Bounds, LogicalBottom
<1>2. \A i \in 1..(LogicalBottom - top) : top + i - 1 \in Live
  BY <1>1 DEF Live
<1>3. \A i \in Live : elements[Slot(i)] \in Elem
  BY DEF IndInv, TypeOK, SlotsLive
<1>4. Elements \in [1..(LogicalBottom - top) -> Elem]
  BY <1>2, <1>3 DEF Elements
<1> QED  BY <1>1, <1>4 DEF ElementsOK

(* It does so before and after a step. *)
LEMMA ElementsTypeNext == IndInv /\ IndInv' => ElementsOK /\ ElementsOK'
BY ElementsType, PTL

(* One more is handed out of the element e, returned or won. *)
LEMMA TakenOnce ==
  ASSUME NEW e \in Elem, taken \in [Elem -> Nat], taken' \in [Elem -> Nat],
         \A x \in Elem : taken'[x] + (IF PopWon(x)' THEN 1 ELSE 0) =
                         taken[x] + (IF PopWon(x) THEN 1 ELSE 0) + (IF x = e THEN 1 ELSE 0)
  PROVE  Taken' = [Taken EXCEPT ![e] = @ + 1]
<1>1. Taken \in [Elem -> Nat] /\ Taken' \in [Elem -> Nat]
  BY DEF Taken
<1>2. \A x \in Elem : Taken'[x] = Taken[x] + (IF x = e THEN 1 ELSE 0)
  BY DEF Taken
<1> QED  BY <1>1, <1>2

(* A step that moves neither end of the deque nor what is in between, and hands out nothing. *)
LEMMA Stutters ==
  ASSUME UNCHANGED <<top, LogicalBottom, elements, pushed, taken>>, \A e \in Elem : PopWon(e)' = PopWon(e)
  PROVE  UNCHANGED <<Elements, pushed, Taken>>
<1>1. Elements' = Elements
  BY DEF Elements, Slot
<1>2. Taken' = Taken
  BY DEF Taken
<1> QED  BY <1>1, <1>2

(* pushWSDeque takes effect when it stores bottom. *)
LEMMA PushBottomRefines ==
  ASSUME IndInv, IndInv', PushBottom
  PROVE  \E e \in Elem : Abstract!Push(e)
<1> USE SizeAssumption, NullAssumption, OwnerAssumption DEF Goto, Return
<1> DEFINE e == val[Owner]
           n == LogicalBottom - top
<1>1. /\ pc[Owner] = "pushBottom" /\ pc'[Owner] = "idle" /\ taken' = taken
      /\ b[Owner] = bottom /\ e \in Elem \ pushed /\ bottom - top < moduloSize
      /\ elements[Slot(bottom)] = e /\ pushed' = pushed \cup {e}
      /\ UNCHANGED <<top, elements>>
  BY DEF PushBottom, IndInv, TypeOK, Threads, OwnerInv
<1>2. LogicalBottom' = bottom + 1 /\ LogicalBottom = bottom
  BY <1>1 DEF LogicalBottom, PushBottom
<1>3. /\ n \in Nat /\ top \in Nat /\ bottom \in Int
      /\ Elements \in [1..n -> Elem] /\ Elements' \in [1..(n + 1) -> Elem] /\ Len(Elements) = n
  <2>1. LogicalBottom' - top' = n + 1
    BY <1>1, <1>2 DEF IndInv, TypeOK
  <2>2. top \in Nat /\ bottom \in Int
    BY DEF IndInv, TypeOK
  <2>3. Elements' \in [1..(LogicalBottom' - top') -> Elem]
    BY ElementsTypeNext DEF ElementsOK
  <2> QED  BY <2>1, <2>2, <2>3, ElementsTypeNext DEF ElementsOK
<1>4. /\ \A i \in 1..n : Elements'[i] = Elements[i]
      /\ Elements'[n + 1] = e
  BY <1>1, <1>2, <1>3 DEF Elements, Slot
<1>5. Elements' = Append(Elements, e)
  BY <1>3, <1>4, AppendFun
<1>6. Taken' = Taken
  BY <1>1 DEF Taken, PopWon
<1>7. Len(Elements) < moduloSize
  BY <1>1, <1>2, <1>3
<1> QED  BY <1>1, <1>5, <1>6, <1>7 DEF Abstract!Push, Elements, Taken

(* popWSDeque takes effect when it reads top, if more than one element is left ... *)
LEMMA PopReadTopRefines ==
  ASSUME IndInv, IndInv', PopReadTop
  PROVE  Abstract!Pop \/ UNCHANGED <<Elements, pushed, Taken>>
<1> USE SizeAssumption, NullAssumption, OwnerAssumption DEF Goto, Return
<1> DEFINE e == elements[Slot(bottom)]
           n == LogicalBottom - top
<1>1. /\ pc[Owner] = "popReadTop" /\ b[Owner] = bottom /\ LogicalBottom = bottom + 1
      /\ top \in Nat /\ bottom \in Int /\ UNCHANGED <<top, bottom, elements, pushed>>
  BY DEF PopReadTop, IndInv, OwnerInv, LogicalBottom, TypeOK
<1>2. CASE bottom > top
  <2>1. bottom \in Live /\ e \in Elem /\ e # NULL
    BY <1>1, <1>2 DEF Live, IndInv, SlotsLive, TypeOK
  <2>2. pc'[Owner] = "idle" /\ taken' = [taken EXCEPT ![e] = @ + 1]
    BY <1>1, <1>2, <2>1 DEF PopReadTop, IndInv, TypeOK, Threads
  <2>3. LogicalBottom' = bottom
    BY <1>1, <2>2 DEF LogicalBottom
  <2>4. /\ n \in Nat /\ n > 0 /\ Elements \in [1..n -> Elem] /\ Elements' \in [1..(n - 1) -> Elem]
    <3>1. LogicalBottom' - top' = n - 1
      BY <1>1, <2>3
    <3>2. Elements' \in [1..(LogicalBottom' - top') -> Elem]
      BY ElementsTypeNext DEF ElementsOK
    <3> QED  BY <1>1, <1>2, <3>1, <3>2, ElementsTypeNext DEF ElementsOK
  <2>5. \A i \in 1..(n - 1) : Elements'[i] = Elements[i]
    BY <1>1, <2>3, <2>4 DEF Elements, Slot
  <2>6. Elements[n] = e
    BY <1>1, <2>4 DEF Elements
  <2>7. Elements' = SubSeq(Elements, 1, Len(Elements) - 1) /\ Elements # <<>> /\ Elements[Len(Elements)] = e
    BY <2>4, <2>5, <2>6, FrontFun
  <2>8. Taken' = [Taken EXCEPT ![e] = @ + 1]
    <3>1. taken \in [Elem -> Nat] /\ taken' \in [Elem -> Nat]
      BY DEF IndInv, TypeOK
    <3>2. \A x \in Elem : taken'[x] + (IF PopWon(x)' THEN 1 ELSE 0) =
                          taken[x] + (IF PopWon(x) THEN 1 ELSE 0) + (IF x = e THEN 1 ELSE 0)
      BY <1>1, <2>1, <2>2, <3>1 DEF PopWon
    <3> QED  BY <2>1, <3>1, <3>2, TakenOnce
  <2> QED  BY <1>1, <2>7, <2>8 DEF Abstract!Pop, Elements, Taken
<1>3. CASE ~(bottom > top)
  <2>1. pc'[Owner] \in {"popEmpty", "popCas"} /\ taken' = taken
    BY <1>1, <1>3 DEF PopReadTop, IndInv, TypeOK, Threads
  <2>2. LogicalBottom' = LogicalBottom
    BY <1>1, <2>1 DEF LogicalBottom
  <2> QED  BY <1>1, <2>1, <2>2, Stutters DEF PopWon
<1> QED  BY <1>2, <1>3

(* ... and otherwise when its CAS succeeds. *)
LEMMA PopCasRefines ==
  ASSUME IndInv, IndInv', PopCas
  PROVE  Abstract!Pop \/ UNCHANGED <<Elements, pushed, Taken>>
<1> USE SizeAssumption, NullAssumption, OwnerAssumption DEF Goto
<1> DEFINE e == elements[Slot(bottom)]
<1>1. /\ pc[Owner] = "popCas" /\ pc'[Owner] = "popBottom" /\ t[Owner] = bottom
      /\ top \in Nat /\ bottom \in Int /\ UNCHANGED <<bottom, elements, pushed, taken>>
      /\ LogicalBottom = bottom + 1 /\ LogicalBottom' = bottom + 1
      /\ top = bottom => val[Owner] = e
  BY DEF PopCas, IndInv, TypeOK, Threads, OwnerInv, LogicalBottom
<1>2. CASE top = bottom
  <2>1. bottom \in Live /\ e \in Elem
    BY <1>1, <1>2 DEF Live, IndInv, SlotsLive, TypeOK
  <2>2. top' = top + 1 /\ val'[Owner] = e
    BY <1>1, <1>2 DEF PopCas
  <2>3. LogicalBottom - top = 1 /\ LogicalBottom' - top' = 1 - 1
    BY <1>1, <1>2, <2>2
  <2>4. Elements \in [1..1 -> Elem] /\ Elements' \in [1..(1 - 1) -> Elem]
    <3>1. Elements' \in [1..(LogicalBottom' - top') -> Elem]
      BY ElementsTypeNext DEF ElementsOK
    <3> QED  BY <2>3, <3>1, ElementsTypeNext DEF ElementsOK
  <2>5. Elements[1] = e
    BY <1>1, <1>2, <2>3 DEF Elements
  <2>6. Elements' = SubSeq(Elements, 1, Len(Elements) - 1) /\ Elements # <<>> /\ Elements[Len(Elements)] = e
    <3> DEFINE n == 1
    <3>1. /\ n \in Nat /\ n > 0 /\ Elements \in [1..n -> Elem] /\ Elements' \in [1..(n - 1) -> Elem]
          /\ \A i \in 1..(n - 1) : Elements'[i] = Elements[i]
      BY <2>4
    <3>2. Elements[n] = e
      BY <2>5
    <3> HIDE DEF n
    <3> QED  BY <3>1, <3>2, FrontFun
  <2>7. Taken' = [Taken EXCEPT ![e] = @ + 1]
    <3>1. taken \in [Elem -> Nat] /\ taken' \in [Elem -> Nat]
      BY DEF IndInv, TypeOK
    <3>2. \A x \in Elem : taken'[x] + (IF PopWon(x)' THEN 1 ELSE 0) =
                          taken[x] + (IF PopWon(x) THEN 1 ELSE 0) + (IF x = e THEN 1 ELSE 0)
      BY <1>1, <2>1, <2>2, <3>1 DEF PopWon
    <3> QED  BY <2>1, <3>1, <3>2, TakenOnce
  <2> QED  BY <1>1, <2>6, <2>7 DEF Abstract!Pop, Elements, Taken
<1>3. CASE top # bottom
  <2>1. top' = top /\ val'[Owner] = NULL
    BY <1>1, <1>3 DEF PopCas, IndInv, TypeOK, Threads
  <2>2. \A x \in Elem : PopWon(x)' = PopWon(x)
    BY <1>1, <2>1 DEF PopWon
  <2> QED  BY <1>1, <2>1, <2>2, Stutters
<1> QED  BY <1>2, <1>3

(* The return of what a pop has won is counted already. *)
LEMMA PopBottomRefines ==
  ASSUME IndInv, IndInv', PopBottom
  PROVE  UNCHANGED <<Elements, pushed, Taken>>
<1> USE SizeAssumption, NullAssumption, OwnerAssumption DEF Goto, Return
<1>1. /\ pc[Owner] = "popBottom" /\ pc'[Owner] = "idle" /\ t[Owner] = bottom
      /\ bottom' = bottom + 1 /\ UNCHANGED <<top, elements, pushed>>
      /\ taken' = IF val[Owner] = NULL THEN taken ELSE [taken EXCEPT ![val[Owner]] = @ + 1]
  BY DEF PopBottom, IndInv, TypeOK, Threads, OwnerInv
<1>2. LogicalBottom' = LogicalBottom
  BY <1>1 DEF LogicalBottom
<1>3. Elements' = Elements
  BY <1>1, <1>2 DEF Elements, Slot
<1>4. \A e \in Elem : Taken'[e] = Taken[e]
  BY <1>1 DEF Taken, PopWon, IndInv, TypeOK
<1>5. Taken' = Taken
  BY <1>4 DEF Taken
<1> QED  BY <1>1, <1>3, <1>5

(* stealWSDeque_ takes effect when its CAS succeeds: it takes the oldest element. *)
LEMMA StealCasRefines ==
  ASSUME IndInv, IndInv', NEW s \in Thieves, StealCas(s)
  PROVE  Abstract!Steal \/ UNCHANGED <<Elements, pushed, Taken>>
<1> USE SizeAssumption, NullAssumption, OwnerAssumption DEF Goto, Return, StealFailed
<1> DEFINE e == elements[Slot(top)]
           n == LogicalBottom - top
<1>1. s \in Threads /\ Owner \in Threads /\ s # Owner
  BY DEF Threads
<1>2. /\ pc'[Owner] = pc[Owner] /\ val'[Owner] = val[Owner] /\ UNCHANGED <<bottom, elements, pushed>>
      /\ pc[s] = "stealCas"
  BY <1>1 DEF StealCas, IndInv, TypeOK, Threads
<1>3. LogicalBottom' = LogicalBottom /\ \A x \in Elem : PopWon(x)' = PopWon(x)
  BY <1>2 DEF LogicalBottom, PopWon
<1>4. CASE top # t[s]
  <2>1. top' = top /\ taken' = taken
    BY <1>4 DEF StealCas
  <2> QED  BY <1>2, <1>3, <2>1, Stutters
<1>5. CASE top = t[s]
  <2>1. top < LogicalBottom /\ val[s] = e /\ top' = top + 1
    BY <1>2, <1>5 DEF StealCas, IndInv, ThiefInv
  <2>2. LogicalBottom \in Int /\ top \in Nat
    BY ElementsTypeNext DEF ElementsOK, IndInv, TypeOK
  <2>3. e \in Elem /\ e # NULL
    BY <2>1, <2>2 DEF Live, IndInv, SlotsLive, TypeOK
  <2>4. taken' = [taken EXCEPT ![e] = @ + 1]
    BY <1>5, <2>1, <2>3 DEF StealCas
  <2>5. n \in Nat /\ n > 0 /\ Elements \in [1..n -> Elem] /\ Elements' \in [1..(n - 1) -> Elem]
    <3>1. LogicalBottom' - top' = n - 1
      BY <1>3, <2>1, <2>2
    <3>2. Elements' \in [1..(LogicalBottom' - top') -> Elem]
      BY ElementsTypeNext DEF ElementsOK
    <3> QED  BY <2>1, <2>2, <3>1, <3>2, ElementsTypeNext DEF ElementsOK
  <2>6. /\ \A i \in 1..(n - 1) : Elements'[i] = elements[Slot(top + 1 + i - 1)]
        /\ \A i \in 1..n : Elements[i] = elements[Slot(top + i - 1)]
    BY <1>2, <1>3, <2>1, <2>2 DEF Elements, Slot
  <2>7. \A i \in 1..(n - 1) : Elements'[i] = Elements[i + 1]
    <3> SUFFICES ASSUME NEW i \in 1..(n - 1) PROVE Elements'[i] = Elements[i + 1]
      OBVIOUS
    <3>1. i + 1 \in 1..n /\ top + 1 + i - 1 = top + (i + 1) - 1
      BY <2>2, <2>5
    <3> QED  BY <2>6, <3>1
  <2>8. Elements[1] = e
    <3>1. 1 \in 1..n /\ top + 1 - 1 = top
      BY <2>2, <2>5
    <3> QED  BY <2>6, <3>1
  <2>9. Elements' = Tail(Elements) /\ Elements # <<>> /\ Head(Elements) = e
    BY <2>5, <2>7, <2>8, TailFun
  <2>10. Taken' = [Taken EXCEPT ![e] = @ + 1]
    <3>1. taken \in [Elem -> Nat] /\ taken' \in [Elem -> Nat]
      BY DEF IndInv, TypeOK
    <3>2. \A x \in Elem : taken'[x] + (IF PopWon(x)' THEN 1 ELSE 0) =
                          taken[x] + (IF PopWon(x) THEN 1 ELSE 0) + (IF x = e THEN 1 ELSE 0)
      BY <1>3, <2>3, <2>4, <3>1
    <3> QED  BY <2>3, <3>1, <3>2, TakenOnce
  <2> QED  BY <1>2, <2>9, <2>10 DEF Abstract!Steal, Elements, Taken
<1> QED  BY <1>4, <1>5

(* No other access to the deque can be seen. *)
LEMMA OtherStepsStutter ==
  ASSUME IndInv, IndInv',
         \/ (\E e \in Elem : PushStart(e)) \/ PushReadTop \/ PushWrite \/ PopStart \/ PopEmpty
         \/ \E s \in Thieves : \/ StealReadTop(s) \/ StealReadBottom(s) \/ StealRead(s)
                               \/ RetryReadTop(s) \/ RetryReadBottom(s)
  PROVE  UNCHANGED <<Elements, pushed, Taken>>
<1> USE SizeAssumption, NullAssumption, OwnerAssumption DEF Goto, Return, StealFailed
<1>1. CASE (\E e \in Elem : PushStart(e)) \/ PushReadTop
  <2>1. /\ UNCHANGED <<top, bottom, elements, pushed, taken>>
        /\ pc[Owner] \in {"idle", "pushReadTop"} /\ pc'[Owner] \in {"idle", "pushReadTop", "pushWrite"}
    BY <1>1 DEF PushStart, PushReadTop, dequeVars, IndInv, TypeOK, Threads
  <2>2. LogicalBottom' = LogicalBottom /\ \A e \in Elem : PopWon(e)' = PopWon(e)
    BY <2>1 DEF LogicalBottom, PopWon
  <2> QED  BY <2>1, <2>2, Stutters
<1>2. CASE PushWrite
  <2>1. /\ pc[Owner] = "pushWrite" /\ pc'[Owner] = "pushBottom" /\ b[Owner] = bottom /\ bottom - top < moduloSize
        /\ elements' = [elements EXCEPT ![Slot(bottom)] = val[Owner]]
        /\ UNCHANGED <<top, bottom, pushed, taken>> /\ top \in Nat /\ bottom \in Int
    BY <1>2 DEF PushWrite, IndInv, TypeOK, Threads, OwnerInv
  <2>2. LogicalBottom' = bottom /\ LogicalBottom = bottom
    BY <2>1 DEF LogicalBottom
  <2>3. ASSUME NEW i \in 1..(LogicalBottom - top)
        PROVE  elements'[Slot(top + i - 1)] = elements[Slot(top + i - 1)]
    <3>1. /\ top + i - 1 \in Int /\ top + i - 1 < bottom /\ bottom - (top + i - 1) <= moduloSize
      BY <2>1, <2>2 DEF moduloSize
    <3>2. Slot(top + i - 1) # Slot(bottom)
      BY <2>1, <3>1, SlotInj
    <3> QED  BY <2>1, <3>1, <3>2, SlotType DEF IndInv, TypeOK
  <2>4. Elements' = Elements
    BY <2>1, <2>2, <2>3 DEF Elements, Slot
  <2>5. Taken' = Taken
    BY <2>1 DEF Taken, PopWon
  <2> QED  BY <2>1, <2>4, <2>5
<1>3. CASE PopStart \/ PopEmpty
  <2>1. /\ UNCHANGED <<top, elements, pushed, taken>>
        /\ \/ pc[Owner] = "idle" /\ pc'[Owner] = "popReadTop" /\ bottom' = bottom - 1
           \/ pc[Owner] = "popEmpty" /\ pc'[Owner] = "idle" /\ bottom' = bottom + 1
    BY <1>3 DEF PopStart, PopEmpty, IndInv, TypeOK, Threads, OwnerInv
  <2>2. bottom \in Int
    BY DEF IndInv, TypeOK
  <2>3. LogicalBottom' = LogicalBottom /\ \A e \in Elem : PopWon(e)' = PopWon(e)
    BY <2>1, <2>2 DEF LogicalBottom, PopWon
  <2> QED  BY <2>1, <2>3, Stutters
<1>4. ASSUME NEW s \in Thieves,
             \/ StealReadTop(s) \/ StealReadBottom(s) \/ StealRead(s) \/ RetryReadTop(s) \/ RetryReadBottom(s)
      PROVE  UNCHANGED <<Elements, pushed, Taken>>
  <2>1. s # Owner
    OBVIOUS
  <2>2. /\ UNCHANGED <<top, bottom, elements, pushed, taken>>
        /\ pc'[Owner] = pc[Owner] /\ val'[Owner] = val[Owner]
    BY <1>4, <2>1 DEF StealReadTop, StealReadBottom, StealRead, RetryReadTop, RetryReadBottom, dequeVars,
                      IndInv, TypeOK, Threads
  <2>3. LogicalBottom' = LogicalBottom /\ \A e \in Elem : PopWon(e)' = PopWon(e)
    BY <2>2 DEF LogicalBottom, PopWon
  <2> QED  BY <2>2, <2>3, Stutters
<1> QED  BY <1>1, <1>2, <1>3, <1>4

-----------------------------------------------------------------------------
(* pushWSDeque, popWSDeque and stealWSDeque are linearizable: every access to the deque is a     *)
(* step of a bounded double-ended queue, or changes nothing that the callers can see, for any    *)
(* elements, any number of thieves and any size of the array.                                    *)
THEOREM LinearizableCorrect == Spec => Linearizable
<1>1. Init => Abstract!Init
  <2> SUFFICES ASSUME Init PROVE Abstract!Init
    OBVIOUS
  <2>1. pc[Owner] = "idle" /\ LogicalBottom = 0 /\ top = 0
    BY DEF Init, LogicalBottom, Threads
  <2>2. Elements = <<>>
    BY <2>1 DEF Elements
  <2>3. Taken = [e \in Elem |-> 0]
    BY <2>1 DEF Taken, PopWon, Init
  <2> QED  BY <2>2, <2>3 DEF Abstract!Init, Elements, Taken, Init
<1>2. IndInv /\ IndInv' /\ [Next]_vars => Abstract!Next \/ UNCHANGED <<Elements, pushed, Taken>>
  <2> SUFFICES ASSUME IndInv, IndInv', [Next]_vars
               PROVE  Abstract!Next \/ UNCHANGED <<Elements, pushed, Taken>>
    OBVIOUS
  <2>1. CASE Push
    BY <2>1, PushBottomRefines, OtherStepsStutter DEF Push, Abstract!Next
  <2>2. CASE Pop
    BY <2>2, PopReadTopRefines, PopCasRefines, PopBottomRefines, OtherStepsStutter DEF Pop, Abstract!Next
  <2>3. ASSUME NEW s \in Thieves, Steal(s)
        PROVE  Abstract!Next \/ UNCHANGED <<Elements, pushed, Taken>>
    BY <2>3, StealCasRefines, OtherStepsStutter DEF Steal, Abstract!Next
  <2>4. CASE UNCHANGED vars
    <3>1. LogicalBottom' = LogicalBottom /\ \A e \in Elem : PopWon(e)' = PopWon(e)
      BY <2>4 DEF vars, LogicalBottom, PopWon
    <3> QED  BY <2>4, <3>1, Stutters DEF vars
  <2> QED  BY <2>1, <2>2, <2>3, <2>4 DEF Next
<1>3. IndInv /\ IndInv' /\ [Next]_vars =>
        [Abstract!Next]_<<[i \in 1..(LogicalBottom - top) |-> elements[Slot(top + i - 1)]], pushed,
                          [e \in Elem |-> taken[e] + IF PopWon(e) THEN 1 ELSE 0]>>
  BY <1>2 DEF Elements, Taken
<1> QED  BY <1>1, <1>3, IndInvCorrect, PTL DEF Spec, Linearizable, Abstract!Spec
=============================================================================
