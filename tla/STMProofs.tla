----------------------------- MODULE STMProofs ------------------------------
(***************************************************************************)
(* Locks are put back, read sets are kept and transactions see snapshots:  *)
(* the theorems about software transactional memory.                       *)
(***************************************************************************)
EXTENDS STMSteps

-----------------------------------------------------------------------------
(* What a step of th may do to the TVars: nothing, lock one that is free,  *)
(* or put back what committed transactions have left in it.                *)

Touches(th) ==
    \A x \in TVar :
        \/ current_value'[x] = current_value[x]
        \/ current_value[x] \notin Thread /\ current_value'[x] = th
        \/ /\ current_value[x] = th /\ current_value'[x] \notin Thread
           /\ current_value'[x] = Heap'[x]
HeapKept(th) ==
    \A x \in TVar : Heap'[x] = Heap[x] \/ (current_value[x] = th /\ current_value'[x] = th)
OwnLocks(th) ==
    HeldInv(th)' /\ EntryInv(th)' /\ \A x \in TVar : current_value'[x] = th => HolderInv(x)'

(* Both, and the invariant after the step. *)
LockSound(th) == LockInv' /\ Touches(th) /\ HeapKept(th)

LEMMA LockStep ==
    ASSUME TypeInv, PlaceInv, LockInv, NEW th \in Thread, Sound(th), Touches(th), HeapKept(th), OwnLocks(th)
    PROVE  LockSound(th)
<1>1. ASSUME NEW u \in Thread \ {th}
      PROVE  /\ loc'[u] = loc[u] /\ nest'[u] = nest[u] /\ Entries(u)' = Entries(u)
             /\ \A x \in TVar : current_value[x] = u <=> current_value'[x] = u
  <2>1. loc'[u] = loc[u] /\ nest'[u] = nest[u]
    BY <1>1 DEF Sound, Others
  <2>2. Entries(u)' = Entries(u)
    BY <2>1 DEF Entries, TRec
  <2> QED
    BY <1>1, <2>1, <2>2 DEF Touches
<1>2. ASSUME NEW u \in Thread \ {th}, NEW j
      PROVE  (MustHold(u, j)' <=> MustHold(u, j)) /\ (MayHold(u, j)' <=> MayHold(u, j))
             /\ PutsBack(u, j)' = PutsBack(u, j)
  <2>1. loc'[u] = loc[u] /\ Entries(u)' = Entries(u)
    BY <1>1
  <2>2. Locks(u, Entries(u)[j])' <=> Locks(u, Entries(u)[j])
    BY <2>1 DEF Locks, acquire_all, op
  <2>3. (pc(u)' = pc(u)) /\ (Committing(u)' <=> Committing(u))
    BY <2>1 DEF pc, Committing
  <2>4. MustHold(u, j)' <=> MustHold(u, j)
    BY <2>1, <2>2, <2>3 DEF MustHold
  <2> QED
    BY <2>1, <2>2, <2>3, <2>4 DEF MayHold, PutsBack
<1>3. ASSUME NEW u \in Thread
      PROVE  HeldInv(u)' /\ EntryInv(u)'
  <2>1. CASE u = th
    BY <2>1 DEF OwnLocks
  <2>2. CASE u # th
    <3>1. u \in Thread \ {th}
      BY <2>2
    <3>2. HeldInv(u) /\ EntryInv(u)
      BY DEF LockInv
    <3>3. EntryInv(u)'
      BY <1>1, <3>1, <3>2 DEF EntryInv, pc, Cur
    <3>4. HeldInv(u)'
      <4> SUFFICES ASSUME pc(u)' # "idle", NEW j \in DOMAIN Entries(u)', MustHold(u, j)'
                   PROVE  current_value'[Entries(u)'[j].tvar] = u
        BY DEF HeldInv
      <4>1. pc(u) # "idle" /\ j \in DOMAIN Entries(u) /\ MustHold(u, j) /\ Entries(u)' = Entries(u)
        BY <1>1, <1>2, <3>1 DEF pc
      <4>2. current_value[Entries(u)[j].tvar] = u
        BY <3>2, <4>1 DEF HeldInv
      <4>3. Entries(u)[j].tvar \in TVar
        BY <4>1, WorkFacts
      <4> QED
        BY <1>1, <3>1, <4>1, <4>2, <4>3
    <3> QED
      BY <3>3, <3>4
  <2> QED
    BY <2>1, <2>2
<1>4. ASSUME NEW x \in TVar
      PROVE  HolderInv(x)'
  <2>1. CASE current_value'[x] = th
    BY <2>1 DEF OwnLocks
  <2>2. CASE current_value'[x] \in Thread \ {th}
    <3>0. PICK u \in Thread \ {th} : current_value'[x] = u
      BY <2>2
    <3>1. u \in Thread \ {th} /\ current_value[x] = u /\ current_value'[x] = u
      BY <1>1, <3>0
    <3>2. Heap'[x] = Heap[x]
      BY <3>1 DEF HeapKept
    <3>3. /\ pc(u) # "idle"
          /\ \E j \in DOMAIN Entries(u) :
                Entries(u)[j].tvar = x /\ MayHold(u, j) /\ PutsBack(u, j) = Heap[x]
      <4>1. HolderInv(x) /\ current_value[x] = u /\ u \in Thread
        BY <3>1 DEF LockInv
      <4> QED
        BY <4>1 DEF HolderInv
    <3>4. pc(u)' = pc(u) /\ Entries(u)' = Entries(u)
      BY <1>1, <3>1 DEF pc
    <3>5. \E j \in DOMAIN Entries(u)' :
             Entries(u)'[j].tvar = x /\ MayHold(u, j)' /\ PutsBack(u, j)' = Heap'[x]
      <4>1. PICK j \in DOMAIN Entries(u) :
                Entries(u)[j].tvar = x /\ MayHold(u, j) /\ PutsBack(u, j) = Heap[x]
        BY <3>3
      <4>2. MayHold(u, j)' /\ PutsBack(u, j)' = PutsBack(u, j)
        BY <1>2, <3>1, <4>1
      <4> QED
        BY <3>2, <3>4, <4>1, <4>2
    <3> QED
      BY <3>1, <3>3, <3>4, <3>5 DEF HolderInv
  <2>3. CASE current_value'[x] \notin Thread
    <3>1. current_value'[x] = Heap'[x]
      <4>1. CASE current_value'[x] = current_value[x]
        <5>1. current_value[x] = Heap[x]
          BY <2>3, <4>1 DEF LockInv, HolderInv
        <5> QED
          BY <2>3, <4>1, <5>1 DEF HeapKept
      <4>2. CASE current_value'[x] # current_value[x]
        BY <2>3, <4>2 DEF Touches
      <4> QED
        BY <4>1, <4>2
    <3> QED
      BY <2>3, <3>1 DEF HolderInv
  <2> QED
    BY <2>1, <2>2, <2>3
<1> QED
  BY <1>3, <1>4 DEF LockInv, LockSound

Free(th) == \A x \in TVar : current_value[x] # th

LEMMA FreeFacts ==
    ASSUME LockInv, NEW th \in Thread, pc(th) = "idle" \/ \A j \in DOMAIN Entries(th) : ~MayHold(th, j) \/ current_value[Entries(th)[j].tvar] # th
    PROVE  Free(th)
<1> SUFFICES ASSUME NEW x \in TVar, current_value[x] = th PROVE FALSE
  BY DEF Free
<1>1. HolderInv(x)
  BY DEF LockInv
<1> QED
  BY <1>1 DEF HolderInv

LEMMA RestingFree ==
    ASSUME TypeInv, PlaceInv, LockInv, NEW th \in Thread, Resting(th)
    PROVE  Free(th)
<1>1. CASE pc(th) = "idle"
  BY <1>1, FreeFacts
<1>2. CASE pc(th) # "idle"
  <2>1. \A j \in DOMAIN Entries(th) : ~MayHold(th, j)
    <3> TAKE j \in DOMAIN Entries(th)
    <3>1. j \in Nat /\ j >= 1
      BY <1>2, WorkFacts
    <3>2. loc[th].i \in Nat
      BY LocFacts
    <3> QED
      BY <3>1, <3>2 DEF Resting, MayHold, MustHold, Committing
  <2> QED
    BY <2>1, FreeFacts
<1> QED
  BY <1>1, <1>2

LEMMA NextFacts ==
    ASSUME NEW th \in Thread
    PROVE  (TypeInv /\ PlaceInv /\ pc(th) # "idle" =>
              /\ loc[th].i \in Nat \ {0} /\ DOMAIN Entries(th) \subseteq Nat \ {0}
              /\ \A j \in DOMAIN Entries(th) : Entries(th)[j].tvar \in TVar)'
<1>1. TypeInv /\ PlaceInv /\ pc(th) # "idle" =>
              /\ loc[th].i \in Nat \ {0} /\ DOMAIN Entries(th) \subseteq Nat \ {0}
              /\ \A j \in DOMAIN Entries(th) : Entries(th)[j].tvar \in TVar
  BY WorkFacts, LocFacts
<1> QED
  BY <1>1, PTL

LEMMA QuietLock ==
    ASSUME TypeInv, PlaceInv, LockInv, NEW th \in Thread, Sound(th), QuietStep(th), Free(th)
    PROVE  LockSound(th)
<1>1. current_value' = current_value /\ heaps' = heaps /\ Resting(th)'
  BY DEF QuietStep
<1>2. Touches(th) /\ HeapKept(th)
  BY <1>1 DEF Touches, HeapKept, Heap
<1>3. \A x \in TVar : current_value'[x] # th
  BY <1>1 DEF Free
<1>4. EntryInv(th)'
  BY <1>1 DEF EntryInv, Resting
<1>5. HeldInv(th)'
  <2>1. TypeInv' /\ PlaceInv'
    BY DEF Sound
  <2> SUFFICES ASSUME pc(th)' # "idle", NEW j \in DOMAIN Entries(th)', MustHold(th, j)' PROVE FALSE
    BY DEF HeldInv
  <2>4. j \in Nat \ {0} /\ loc'[th].i \in Nat
    BY <2>1, NextFacts
  <2> QED
    BY <1>1, <2>4 DEF Resting, MustHold, Committing
<1> QED
  BY <1>2, <1>3, <1>4, <1>5, LockStep DEF OwnLocks

-----------------------------------------------------------------------------
(* A step that goes on with the same entries. *)

(* The claim of th to the TVar of its entry j does not grow, and is not    *)
(* given up.                                                               *)
Keeps(th, j) ==
    /\ MustHold(th, j)' => MustHold(th, j)
    /\ MayHold(th, j) /\ current_value[Entries(th)[j].tvar] = th =>
          MayHold(th, j)' /\ PutsBack(th, j)' = PutsBack(th, j)

GoesOn(th) ==
    /\ Sound(th) /\ pc(th) # "idle" /\ loc'[th].pc # "idle"
    /\ SameBut(Entries(th), Entries(th)') /\ heaps' = heaps /\ EntryInv(th)'

LEMMA HoldLock ==
    ASSUME TypeInv, PlaceInv, LockInv, NEW th \in Thread, GoesOn(th), current_value' = current_value,
           \A j \in DOMAIN Entries(th) : Keeps(th, j)
    PROVE  LockSound(th)
<1>1. Touches(th) /\ HeapKept(th)
  BY DEF Touches, HeapKept, Heap, GoesOn
<1>2. HeldInv(th)'
  BY DEF LockInv, HeldInv, GoesOn, SameBut, Keeps
<1>3. ASSUME NEW x \in TVar, current_value'[x] = th PROVE HolderInv(x)'
  <2>1. HolderInv(x) /\ current_value[x] = th
    BY <1>3 DEF LockInv
  <2>2. PICK j \in DOMAIN Entries(th) :
           Entries(th)[j].tvar = x /\ MayHold(th, j) /\ PutsBack(th, j) = Heap[x]
    BY <2>1 DEF HolderInv
  <2>3. MayHold(th, j)' /\ PutsBack(th, j)' = Heap'[x]
    BY <2>1, <2>2 DEF Keeps, GoesOn, Heap
  <2>4. j \in DOMAIN Entries(th)' /\ Entries(th)'[j].tvar = x /\ pc(th)' # "idle"
    BY <2>2 DEF GoesOn, SameBut, pc
  <2> QED
    BY <1>3, <2>3, <2>4 DEF HolderInv
<1> QED
  BY <1>1, <1>2, <1>3, LockStep DEF OwnLocks, GoesOn

(* th locks the TVar of its entry j, which was free. *)
LEMMA TakeLock ==
    ASSUME TypeInv, PlaceInv, LockInv, NEW th \in Thread, GoesOn(th), NEW j \in DOMAIN Entries(th),
           current_value[Entries(th)[j].tvar] \in Val,
           current_value' = [current_value EXCEPT ![Entries(th)[j].tvar] = th],
           MayHold(th, j)', PutsBack(th, j)' = current_value[Entries(th)[j].tvar],
           \A m \in DOMAIN Entries(th) : m # j => Keeps(th, m)
    PROVE  LockSound(th)
<1> DEFINE x == Entries(th)[j].tvar
<1>1. x \in TVar /\ current_value[x] \notin Thread /\ current_value'[x] = th
      /\ \A y \in TVar : y # x => current_value'[y] = current_value[y]
  <2>1. x \in TVar /\ current_value \in [TVar -> Val \cup Thread] /\ current_value[x] \notin Thread
    BY WorkFacts, ValFacts DEF TypeInv, GoesOn
  <2> QED
    BY <2>1
<1>2. Touches(th) /\ HeapKept(th)
  BY <1>1 DEF Touches, HeapKept, Heap, GoesOn
<1>3. current_value[x] = Heap[x]
  BY <1>1 DEF LockInv, HolderInv
<1>4. HeldInv(th)'
  <2> SUFFICES ASSUME NEW m \in DOMAIN Entries(th)', MustHold(th, m)'
               PROVE  current_value'[Entries(th)'[m].tvar] = th
    BY DEF HeldInv
  <2>1. m \in DOMAIN Entries(th) /\ Entries(th)'[m].tvar = Entries(th)[m].tvar /\ Entries(th)[m].tvar \in TVar
    BY WorkFacts DEF GoesOn, SameBut
  <2>2. CASE m = j
    BY <1>1, <2>1, <2>2
  <2>3. CASE m # j
    <3>1. current_value[Entries(th)[m].tvar] = th
      BY <2>1, <2>3 DEF Keeps, LockInv, HeldInv, GoesOn
    <3> QED
      BY <1>1, <2>1, <3>1
  <2> QED
    BY <2>2, <2>3
<1>5. ASSUME NEW y \in TVar, current_value'[y] = th PROVE HolderInv(y)'
  <2>1. pc(th)' # "idle" /\ Heap'[y] = Heap[y]
    BY DEF GoesOn, pc, Heap
  <2>2. CASE y = x
    <3>1. j \in DOMAIN Entries(th)' /\ Entries(th)'[j].tvar = y
      BY <2>2 DEF GoesOn, SameBut
    <3> QED
      BY <1>3, <1>5, <2>1, <2>2, <3>1 DEF HolderInv
  <2>3. CASE y # x
    <3>1. HolderInv(y) /\ current_value[y] = th
      BY <1>1, <1>5, <2>3 DEF LockInv
    <3>2. PICK m \in DOMAIN Entries(th) :
             Entries(th)[m].tvar = y /\ MayHold(th, m) /\ PutsBack(th, m) = Heap[y]
      BY <3>1 DEF HolderInv
    <3>3. MayHold(th, m)' /\ PutsBack(th, m)' = Heap'[y]
      BY <2>1, <2>3, <3>1, <3>2 DEF Keeps
    <3>4. m \in DOMAIN Entries(th)' /\ Entries(th)'[m].tvar = y
      BY <3>2 DEF GoesOn, SameBut
    <3> QED
      BY <1>5, <2>1, <3>3, <3>4 DEF HolderInv
  <2> QED
    BY <2>2, <2>3
<1> QED
  BY <1>2, <1>4, <1>5, LockStep DEF OwnLocks, GoesOn

(* th unlocks the TVar of its entry j. *)
LEMMA DropLock ==
    ASSUME TypeInv, PlaceInv, LockInv, NEW th \in Thread, GoesOn(th), NEW j \in DOMAIN Entries(th),
           current_value[Entries(th)[j].tvar] = th, PutsBack(th, j) \in Val,
           current_value' = [current_value EXCEPT ![Entries(th)[j].tvar] = PutsBack(th, j)],
           ~MustHold(th, j)',
           \A m \in DOMAIN Entries(th) : m # j => Keeps(th, m)
    PROVE  LockSound(th)
<1> DEFINE x == Entries(th)[j].tvar
<1>1. x \in TVar /\ current_value[x] = th /\ current_value'[x] = PutsBack(th, j)
      /\ \A y \in TVar : y # x => current_value'[y] = current_value[y]
  <2>1. x \in TVar /\ current_value \in [TVar -> Val \cup Thread]
    BY WorkFacts DEF TypeInv, GoesOn
  <2> QED
    BY <2>1
<1>2. PutsBack(th, j) = Heap[x] /\ Heap' = Heap /\ PutsBack(th, j) \notin Thread
  <2>1. HolderInv(x)
    BY <1>1 DEF LockInv
  <2>2. PICK m \in DOMAIN Entries(th) :
           Entries(th)[m].tvar = x /\ MayHold(th, m) /\ PutsBack(th, m) = Heap[x]
    BY <1>1, <2>1 DEF HolderInv
  <2>3. m = j
    BY <2>2, WorkFacts DEF Distinct, GoesOn
  <2> QED
    BY <2>2, <2>3, ValFacts DEF Heap, GoesOn
<1>3. Touches(th) /\ HeapKept(th)
  BY <1>1, <1>2 DEF Touches, HeapKept
<1>4. HeldInv(th)'
  <2> SUFFICES ASSUME NEW m \in DOMAIN Entries(th)', MustHold(th, m)'
               PROVE  current_value'[Entries(th)'[m].tvar] = th
    BY DEF HeldInv
  <2>1. m \in DOMAIN Entries(th) /\ Entries(th)'[m].tvar = Entries(th)[m].tvar /\ Entries(th)[m].tvar \in TVar
        /\ m # j
    BY WorkFacts DEF GoesOn, SameBut
  <2>2. current_value[Entries(th)[m].tvar] = th
    BY <2>1 DEF Keeps, LockInv, HeldInv, GoesOn
  <2>3. Entries(th)[m].tvar # x
    BY <2>1, WorkFacts DEF Distinct, GoesOn
  <2> QED
    BY <1>1, <2>1, <2>2, <2>3
<1>5. ASSUME NEW y \in TVar, current_value'[y] = th PROVE HolderInv(y)'
  <2>1. pc(th)' # "idle" /\ Heap'[y] = Heap[y] /\ y # x
    BY <1>1, <1>2, <1>5 DEF GoesOn, pc
  <2>2. HolderInv(y) /\ current_value[y] = th
    BY <1>1, <1>5, <2>1 DEF LockInv
  <2>3. PICK m \in DOMAIN Entries(th) :
           Entries(th)[m].tvar = y /\ MayHold(th, m) /\ PutsBack(th, m) = Heap[y]
    BY <2>2 DEF HolderInv
  <2>4. MayHold(th, m)' /\ PutsBack(th, m)' = Heap'[y]
    BY <2>1, <2>2, <2>3 DEF Keeps
  <2>5. m \in DOMAIN Entries(th)' /\ Entries(th)'[m].tvar = y
    BY <2>3 DEF GoesOn, SameBut
  <2> QED
    BY <1>5, <2>1, <2>4, <2>5 DEF HolderInv
<1> QED
  BY <1>3, <1>4, <1>5, LockStep DEF OwnLocks, GoesOn

-----------------------------------------------------------------------------
(* The locks after each action. *)

LEMMA SameButSelf == ASSUME NEW es PROVE SameBut(es, es)
  BY DEF SameBut

LEMMA GoesGoesOn ==
    ASSUME NEW th \in Thread, NEW p, NEW j, Goes(th, p, j), heaps' = heaps, EntryInv(th)'
    PROVE  GoesOn(th)
  BY SameButSelf DEF Goes, GoesOn, Works

(* What th locks does not change while it stays with an operation. *)
LEMMA LocksSame ==
    ASSUME NEW th \in Thread, Works(th), SameBut(Entries(th), Entries(th)'), NEW m \in DOMAIN Entries(th)
    PROVE  /\ Locks(th, Entries(th)[m])' <=> Locks(th, Entries(th)[m])
           /\ Entries(th)'[m].expected = Entries(th)[m].expected /\ Entries(th)'[m].new = Entries(th)[m].new
           /\ Entries(th)'[m].tvar = Entries(th)[m].tvar
<1>1. /\ Entries(th)'[m].expected = Entries(th)[m].expected /\ Entries(th)'[m].new = Entries(th)[m].new
      /\ Entries(th)'[m].tvar = Entries(th)[m].tvar
  BY DEF SameBut
<1>2. op(th)' = op(th)
  BY DEF Works, op
<1> QED
  BY <1>1, <1>2 DEF Locks, acquire_all, entry_is_update

(* A record whose validation goes on, or is given up. *)
LEMMA GivesUpLock ==
    ASSUME TypeInv, PlaceInv, LockInv, NEW th \in Thread, GivesUp(th),
           pc(th) \in {"validate", "recheck", "checkReads"}
    PROVE  LockSound(th)
<1>1. Goes(th, "revert", 1) /\ current_value' = current_value /\ heaps' = heaps /\ pc(th) # "idle"
  BY DEF GivesUp, Looks
<1>2. pc(th)' = "revert" /\ loc'[th].i = 1 /\ Works(th) /\ Entries(th)' = Entries(th)
  BY <1>1 DEF Goes, pc
<1>3. GoesOn(th)
  <2>1. EntryInv(th)'
    BY <1>2 DEF EntryInv
  <2> QED
    BY <1>1, <2>1, GoesGoesOn
<1>4. ASSUME NEW m \in DOMAIN Entries(th) PROVE Keeps(th, m)
  <2>1. Locks(th, Entries(th)[m])' <=> Locks(th, Entries(th)[m])
    BY <1>2, <1>4, LocksSame, SameButSelf
  <2>2. m \in Nat /\ m >= 1
    BY <1>1, WorkFacts
  <2> QED
    BY <1>2, <2>1, <2>2 DEF Keeps, MustHold, MayHold, PutsBack, Committing
<1> QED
  BY <1>1, <1>3, <1>4, HoldLock

LEMMA GetInvLockLock ==
    ASSUME TypeInv, PlaceInv, LockInv, scenario' = scenario, NEW th \in Thread, GetInvLock(th)
    PROVE  Sound(th) /\ LockSound(th)
<1>1. Sound(th) /\ pc(th) = "getInvariants" /\ (QuietStep(th) \/ \E j : GetsInv(th, j))
  BY GetInvLockStep
<1>2. CASE QuietStep(th)
  <2>1. Free(th)
    BY <1>1, RestingFree DEF Resting
  <2> QED
    BY <1>1, <1>2, <2>1, QuietLock
<1>3. CASE \E j : GetsInv(th, j)
  <2>1. PICK j : GetsInv(th, j)
    BY <1>3
  <2>2. /\ j \in DOMAIN Entries(th) /\ current_value[Entries(th)[j].tvar] \in Val
        /\ current_value' = [current_value EXCEPT ![Entries(th)[j].tvar] = th]
        /\ pc(th)' = "getInvUnlock" /\ loc'[th].i = j
        /\ loc'[th].saw = current_value[Entries(th)[j].tvar]
        /\ Entries(th)' = Entries(th) /\ heaps' = heaps
    BY <2>1 DEF GetsInv, pc
  <2>3. EntryInv(th)'
    <3>1. j <= Len(Entries(th))
      BY <1>1, <2>2, WorkFacts
    <3> QED
      BY <2>2, <3>1 DEF EntryInv
  <2>4. GoesOn(th)
    BY <1>1, <2>2, <2>3, SameButSelf DEF GoesOn, pc
  <2>5. MayHold(th, j)' /\ PutsBack(th, j)' = current_value[Entries(th)[j].tvar]
    BY <2>2 DEF MayHold, MustHold, PutsBack, Committing
  <2>6. \A m \in DOMAIN Entries(th) : m # j => Keeps(th, m)
    BY <1>1, <2>2 DEF Keeps, MustHold, MayHold, Committing
  <2>7. LockSound(th)
    BY <2>2, <2>4, <2>5, <2>6, TakeLock
  <2> QED
    BY <1>1, <2>7
<1> QED
  BY <1>1, <1>2, <1>3

LEMMA GetInvUnlockLock ==
    ASSUME TypeInv, PlaceInv, LockInv, scenario' = scenario, NEW th \in Thread, GetInvUnlock(th)
    PROVE  Sound(th) /\ LockSound(th)
<1> DEFINE i == loc[th].i
<1>0. EntryInv(th) /\ HeldInv(th)
  BY DEF LockInv
<1>1. /\ pc(th) = "getInvUnlock" /\ i \in DOMAIN Entries(th)
      /\ Goes(th, "getInvariants", i + 1)
      /\ current_value' = [current_value EXCEPT ![Entries(th)[i].tvar] = loc[th].saw]
      /\ heaps' = heaps
  BY <1>0, GetInvUnlockStep
<1>2. pc(th)' = "getInvariants" /\ Sound(th)
  BY <1>1 DEF Goes, pc
<1>3. GoesOn(th)
  <2>1. EntryInv(th)'
    BY <1>2 DEF EntryInv
  <2> QED
    BY <1>1, <2>1, GoesGoesOn
<1>4. PutsBack(th, i) = loc[th].saw /\ loc[th].saw \in Val
  BY <1>1, LocFacts DEF PutsBack, Committing
<1>5. current_value[Entries(th)[i].tvar] = th
  BY <1>0, <1>1 DEF HeldInv, MustHold
<1>6. \A m \in DOMAIN Entries(th) : ~MustHold(th, m)' /\ (m # i => Keeps(th, m))
  BY <1>1, <1>2 DEF Keeps, MustHold, MayHold, Committing
<1>7. LockSound(th)
  <2> HIDE DEF i
  <2> QED
    BY <1>1, <1>3, <1>4, <1>5, <1>6, DropLock
<1> QED
  BY <1>2, <1>7

LEMMA ValidateEntryLock ==
    ASSUME TypeInv, PlaceInv, LockInv, scenario' = scenario, NEW th \in Thread, ValidateEntry(th)
    PROVE  Sound(th) /\ LockSound(th)
<1>0. PICK i : i = loc[th].i
  OBVIOUS
<1> DEFINE e == Entries(th)[i]
<1>1. pc(th) = "validate" /\ pc(th) # "idle" /\ i \in DOMAIN Entries(th) /\ ValidatesEntry(th)
  BY <1>0, ValidateEntryStep
<1>2. i \in Nat /\ e.tvar \in TVar /\ e.expected \in Val /\ i <= Len(Entries(th))
      /\ \A m \in DOMAIN Entries(th) : m \in Nat
  BY <1>1, WorkFacts
<1>3. CASE GivesUp(th)
  <2>1. LockSound(th)
    BY <1>1, <1>3, GivesUpLock
  <2> QED
    BY <1>3, <2>1 DEF GivesUp, Goes
<1>4. CASE /\ Goes(th, "validate", i + 1) /\ Locks(th, e)
           /\ current_value[e.tvar] = e.expected
           /\ current_value' = [current_value EXCEPT ![e.tvar] = th]
           /\ heaps' = heaps
  <2>1. pc(th)' = "validate" /\ loc'[th].i = i + 1 /\ Sound(th) /\ Works(th) /\ Entries(th)' = Entries(th)
    BY <1>4 DEF Goes, pc
  <2>2. GoesOn(th)
    <3>1. EntryInv(th)'
      BY <2>1 DEF EntryInv
    <3> QED
      BY <1>4, <3>1, GoesGoesOn
  <2>3. \A m \in DOMAIN Entries(th) : Locks(th, Entries(th)[m])' <=> Locks(th, Entries(th)[m])
    BY <2>1, LocksSame, SameButSelf
  <2>4. MayHold(th, i)' /\ PutsBack(th, i)' = current_value[e.tvar]
    BY <1>1, <1>2, <1>4, <2>1, <2>3 DEF MayHold, MustHold, PutsBack, Committing
  <2>5. \A m \in DOMAIN Entries(th) : m # i => Keeps(th, m)
    <3> SUFFICES ASSUME NEW m \in DOMAIN Entries(th), m # i PROVE Keeps(th, m)
      OBVIOUS
    <3>1. m < loc'[th].i <=> m < loc[th].i
      BY <1>0, <1>2, <2>1
    <3>2. Locks(th, Entries(th)[m])' <=> Locks(th, Entries(th)[m])
      BY <2>3
    <3> QED
      BY <1>1, <2>1, <3>1, <3>2 DEF Keeps, MustHold, MayHold, PutsBack, Committing
  <2>6. current_value[Entries(th)[i].tvar] \in Val
        /\ current_value' = [current_value EXCEPT ![Entries(th)[i].tvar] = th]
        /\ PutsBack(th, i)' = current_value[Entries(th)[i].tvar]
    BY <1>2, <1>4, <2>4
  <2>7. LockSound(th)
    <3> HIDE DEF e
    <3> QED
      BY <1>1, <2>2, <2>4, <2>5, <2>6, TakeLock
  <2> QED
    BY <2>1, <2>7
<1>5. CASE Goes(th, "readVersion", i) /\ ~Locks(th, e) /\ Looks
  <2>1. pc(th)' = "readVersion" /\ loc'[th].i = i /\ Sound(th) /\ Works(th) /\ Entries(th)' = Entries(th)
        /\ current_value' = current_value /\ heaps' = heaps
    BY <1>5 DEF Goes, pc, Looks
  <2>2. GoesOn(th)
    <3>1. EntryInv(th)'
      BY <1>2, <1>5, <2>1 DEF EntryInv, Cur, Locks, entry_is_update, entry_is_read_only
    <3> QED
      BY <1>5, <2>1, <3>1, GoesGoesOn
  <2>3. \A m \in DOMAIN Entries(th) : Locks(th, Entries(th)[m])' <=> Locks(th, Entries(th)[m])
    BY <2>1, LocksSame, SameButSelf
  <2>5. \A m \in DOMAIN Entries(th) : Keeps(th, m)
    BY <1>0, <1>1, <1>2, <2>1, <2>3 DEF Keeps, MustHold, MayHold, PutsBack, Committing
  <2>7. LockSound(th)
    BY <2>1, <2>2, <2>5, HoldLock
  <2> QED
    BY <2>1, <2>7
<1> QED
  BY <1>0, <1>1, <1>3, <1>4, <1>5 DEF ValidatesEntry

LEMMA ReadVersionLock ==
    ASSUME TypeInv, PlaceInv, LockInv, scenario' = scenario, NEW th \in Thread, ReadVersion(th)
    PROVE  Sound(th) /\ LockSound(th)
<1>0. EntryInv(th)
  BY DEF LockInv
<1>1. /\ pc(th) = "readVersion" /\ pc(th) # "idle" /\ loc[th].i \in DOMAIN Entries(th)
      /\ NotesVersion(th, loc[th].i, num_updates[Cur(th).tvar]) /\ Looks
  BY <1>0, ReadVersionStep
<1>2. /\ pc(th)' = "recheck" /\ loc'[th].i = loc[th].i /\ Sound(th) /\ Works(th)
      /\ SameBut(Entries(th), Entries(th)') /\ current_value' = current_value /\ heaps' = heaps
  BY <1>1 DEF NotesVersion, pc, Looks
<1>3. \A m \in DOMAIN Entries(th) :
         /\ Locks(th, Entries(th)[m])' <=> Locks(th, Entries(th)[m])
         /\ Entries(th)'[m].expected = Entries(th)[m].expected /\ Entries(th)'[m].new = Entries(th)[m].new
  BY <1>2, LocksSame
<1>4. EntryInv(th)'
  <2>1. Len(Entries(th)') = Len(Entries(th)) /\ loc[th].i <= Len(Entries(th))
        /\ entry_is_read_only(Entries(th)[loc[th].i])
    BY <1>0, <1>1, <1>2 DEF EntryInv, SameBut, Cur
  <2>2. entry_is_read_only(Cur(th))'
    BY <1>1, <1>2, <1>3, <2>1 DEF Cur, entry_is_read_only
  <2> QED
    BY <1>2, <2>1, <2>2 DEF EntryInv
<1>5. GoesOn(th)
  BY <1>1, <1>2, <1>4 DEF GoesOn, Works
<1>6. \A m \in DOMAIN Entries(th) : Keeps(th, m)
  BY <1>1, <1>2, <1>3 DEF Keeps, MustHold, MayHold, PutsBack, Committing
<1>7. LockSound(th)
  BY <1>2, <1>5, <1>6, HoldLock
<1> QED
  BY <1>2, <1>7

LEMMA RecheckLock ==
    ASSUME TypeInv, PlaceInv, LockInv, scenario' = scenario, NEW th \in Thread, Recheck(th)
    PROVE  Sound(th) /\ LockSound(th)
<1>0. EntryInv(th)
  BY DEF LockInv
<1>1. /\ pc(th) = "recheck" /\ pc(th) # "idle"
      /\ GivesUp(th) \/ (Goes(th, "validate", loc[th].i + 1) /\ Looks)
  BY RecheckStep
<1>2. CASE GivesUp(th)
  <2>1. LockSound(th)
    BY <1>1, <1>2, GivesUpLock
  <2> QED
    BY <1>2, <2>1 DEF GivesUp, Goes
<1>3. CASE Goes(th, "validate", loc[th].i + 1) /\ Looks
  <2>1. /\ pc(th)' = "validate" /\ loc'[th].i = loc[th].i + 1 /\ Sound(th) /\ Works(th)
        /\ Entries(th)' = Entries(th) /\ current_value' = current_value /\ heaps' = heaps
    BY <1>3 DEF Goes, pc, Looks
  <2>2. GoesOn(th)
    <3>1. EntryInv(th)'
      BY <2>1 DEF EntryInv
    <3> QED
      BY <1>3, <2>1, <3>1, GoesGoesOn
  <2>3. ~Locks(th, Entries(th)[loc[th].i])
    <3>1. entry_is_read_only(Entries(th)[loc[th].i]) /\ op(th) \in {"commit", "commitNested"}
      BY <1>0, <1>1 DEF EntryInv, Cur, PlaceInv, OpInv
    <3> QED
      BY <3>1 DEF Locks, acquire_all, entry_is_read_only, entry_is_update
  <2>4. ASSUME NEW m \in DOMAIN Entries(th) PROVE Keeps(th, m)
    <3>1. Locks(th, Entries(th)[m])' <=> Locks(th, Entries(th)[m])
      BY <2>1, LocksSame, SameButSelf
    <3>2. m \in Nat /\ loc[th].i \in Nat
      BY <1>1, WorkFacts, LocFacts
    <3>3. (m < loc[th].i => m < loc'[th].i) /\ (m < loc'[th].i => m < loc[th].i \/ m = loc[th].i)
      BY <2>1, <3>2
    <3> QED
      BY <1>1, <2>1, <2>3, <3>1, <3>3 DEF Keeps, MustHold, MayHold, PutsBack, Committing
  <2>5. LockSound(th)
    BY <2>1, <2>2, <2>4, HoldLock
  <2> QED
    BY <2>1, <2>5
<1> QED
  BY <1>1, <1>2, <1>3

LEMMA ValidateCondemnedLock ==
    ASSUME TypeInv, PlaceInv, LockInv, scenario' = scenario, NEW th \in Thread, ValidateCondemned(th)
    PROVE  Sound(th) /\ LockSound(th)
<1>1. pc(th) = "validate" /\ GivesUp(th)
  BY ValidateCondemnedStep
<1>2. LockSound(th)
  BY <1>1, GivesUpLock
<1> QED
  BY <1>1, <1>2 DEF GivesUp, Goes

LEMMA ValidatedLock ==
    ASSUME TypeInv, PlaceInv, LockInv, scenario' = scenario, NEW th \in Thread, Validated(th)
    PROVE  Sound(th) /\ LockSound(th)
<1>1. /\ pc(th) = "validate" /\ pc(th) # "idle" /\ AtEnd(th) /\ Looks
      /\ Sound(th) /\ Works(th) /\ pc(th)' \in {"checkReads", "revert"} /\ loc'[th].i = 1
      /\ Entries(th)' = Entries(th)
  BY ValidatedStep DEF Goes, pc
<1>2. GoesOn(th)
  <2>1. EntryInv(th)'
    BY <1>1 DEF EntryInv
  <2> QED
    BY <1>1, <2>1, SameButSelf DEF GoesOn, Works, Looks
<1>3. ASSUME NEW m \in DOMAIN Entries(th) PROVE Keeps(th, m)
  <2>1. Locks(th, Entries(th)[m])' <=> Locks(th, Entries(th)[m])
    BY <1>1, LocksSame, SameButSelf
  <2>2. m < loc[th].i /\ m >= loc'[th].i
    BY <1>1, WorkFacts, LocFacts DEF AtEnd
  <2> QED
    BY <1>1, <2>1, <2>2 DEF Keeps, MustHold, MayHold, PutsBack, Committing
<1>4. LockSound(th)
  BY <1>1, <1>2, <1>3, HoldLock DEF Looks
<1> QED
  BY <1>1, <1>4

LEMMA RevertLock ==
    ASSUME TypeInv, PlaceInv, LockInv, scenario' = scenario, NEW th \in Thread, Revert(th)
    PROVE  Sound(th) /\ LockSound(th)
<1>1. pc(th) = "revert" /\ pc(th) # "idle" /\ heaps' = heaps
  BY RevertStep
<1>2. PICK j \in DOMAIN Entries(th) :
                /\ Goes(th, "revert", j + 1) /\ Owned(th, Entries(th)[j])
                /\ current_value' = [current_value EXCEPT ![Entries(th)[j].tvar] = Entries(th)[j].expected]
                /\ \A m \in DOMAIN Entries(th) : loc[th].i <= m /\ Owned(th, Entries(th)[m]) => j <= m
  BY RevertStep
<1>3. /\ pc(th)' = "revert" /\ loc'[th].i = j + 1 /\ Sound(th) /\ Works(th) /\ Entries(th)' = Entries(th)
  BY <1>2 DEF Goes, pc
<1>4. GoesOn(th)
  <2>1. EntryInv(th)'
    BY <1>3 DEF EntryInv
  <2> QED
    BY <1>1, <1>2, <2>1, GoesGoesOn
<1>5. PutsBack(th, j) = Entries(th)[j].expected /\ PutsBack(th, j) \in Val
  BY <1>1, WorkFacts DEF PutsBack, Committing
<1>6. current_value[Entries(th)[j].tvar] = th
  BY <1>2 DEF Owned
<1>7. \A m \in DOMAIN Entries(th) : ~MustHold(th, m)'
  BY <1>3 DEF MustHold, Committing
<1>8. ASSUME NEW m \in DOMAIN Entries(th), m # j PROVE Keeps(th, m)
  <2>1. Locks(th, Entries(th)[m])' <=> Locks(th, Entries(th)[m])
    BY <1>3, LocksSame, SameButSelf
  <2>2. m \in Nat /\ j \in Nat /\ loc[th].i \in Nat
    BY <1>1, WorkFacts, LocFacts
  <2>3. loc[th].i <= m /\ Locks(th, Entries(th)[m]) /\ current_value[Entries(th)[m].tvar] = th => m >= loc'[th].i
    <3>1. loc[th].i <= m /\ Locks(th, Entries(th)[m]) /\ current_value[Entries(th)[m].tvar] = th => j <= m
      BY <1>2 DEF Owned, Locks
    <3> QED
      BY <1>3, <1>8, <2>2, <3>1
  <2>4. m >= loc[th].i <=> loc[th].i <= m
    BY <2>2
  <2> QED
    BY <1>1, <1>3, <1>7, <2>1, <2>3, <2>4 DEF Keeps, MustHold, MayHold, PutsBack, Committing
<1>9. LockSound(th)
  BY <1>2, <1>4, <1>5, <1>6, <1>7, <1>8, DropLock
<1> QED
  BY <1>3, <1>9

LEMMA CheckReadOnlyLock ==
    ASSUME TypeInv, PlaceInv, LockInv, scenario' = scenario, NEW th \in Thread, CheckReadOnly(th)
    PROVE  Sound(th) /\ LockSound(th)
<1>1. /\ pc(th) = "checkReads" /\ pc(th) # "idle"
      /\ GivesUp(th) \/ \E j : Goes(th, "checkReads", j + 1) /\ Looks
  BY CheckReadOnlyStep
<1>2. CASE GivesUp(th)
  <2>1. LockSound(th)
    BY <1>1, <1>2, GivesUpLock
  <2> QED
    BY <1>2, <2>1 DEF GivesUp, Goes
<1>3. CASE \E j : Goes(th, "checkReads", j + 1) /\ Looks
  <2>0. PICK j : Goes(th, "checkReads", j + 1) /\ Looks
    BY <1>3
  <2>1. /\ pc(th)' = "checkReads" /\ Sound(th) /\ Works(th)
        /\ Entries(th)' = Entries(th) /\ current_value' = current_value /\ heaps' = heaps
    BY <2>0 DEF Goes, pc, Looks
  <2>2. GoesOn(th)
    <3>1. EntryInv(th)'
      BY <2>1 DEF EntryInv
    <3> QED
      BY <1>1, <2>1, <3>1, SameButSelf DEF GoesOn, pc
  <2>3. \A m \in DOMAIN Entries(th) : Locks(th, Entries(th)[m])' <=> Locks(th, Entries(th)[m])
    BY <2>1, LocksSame, SameButSelf
  <2>4. \A m \in DOMAIN Entries(th) : Keeps(th, m)
    BY <1>1, <2>1, <2>3 DEF Keeps, MustHold, MayHold, PutsBack, Committing
  <2>5. LockSound(th)
    BY <2>1, <2>2, <2>4, HoldLock
  <2> QED
    BY <2>1, <2>5
<1> QED
  BY <1>1, <1>2, <1>3

(* The decision to commit: the TVars that the transaction updates get a    *)
(* new value in the heap, and it holds the locks of all of them.           *)
LEMMA DecideLock ==
    ASSUME TypeInv, PlaceInv, LockInv, scenario' = scenario, NEW th \in Thread, Decide(th)
    PROVE  Sound(th) /\ LockSound(th)
<1>1. /\ pc(th) = "checkReads" /\ pc(th) # "idle" /\ current_value' = current_value
      /\ \/ op(th) = "commitNested" /\ Goes(th, "merge", 1) /\ Looks
         \/ /\ op(th) = "commit" /\ Goes(th, "update", 1)
            /\ \E h, c : Commits(th, h, c) /\ heaps' = Append(heaps, h)
  BY DecideStep
<1>2. /\ Sound(th) /\ Works(th) /\ Entries(th)' = Entries(th) /\ loc'[th].i = 1
      /\ pc(th)' \in {"merge", "update"}
  BY <1>1 DEF Goes, pc
<1>3. EntryInv(th)'
  BY <1>2 DEF EntryInv
<1>4. \A m \in DOMAIN Entries(th) : Locks(th, Entries(th)[m])' <=> Locks(th, Entries(th)[m])
  BY <1>2, LocksSame, SameButSelf
<1>5. \A m \in DOMAIN Entries(th) : m >= loc'[th].i
  BY <1>1, <1>2, WorkFacts
<1>6. CASE op(th) = "commitNested" /\ Goes(th, "merge", 1) /\ Looks
  <2>1. pc(th)' = "merge" /\ heaps' = heaps
    BY <1>6 DEF Goes, pc, Looks
  <2>2. GoesOn(th)
    BY <1>3, <1>6, <2>1, GoesGoesOn
  <2>3. \A m \in DOMAIN Entries(th) : Keeps(th, m)
    BY <1>1, <1>2, <1>4, <1>5, <2>1 DEF Keeps, MustHold, MayHold, PutsBack, Committing
  <2>4. LockSound(th)
    BY <1>1, <2>2, <2>3, HoldLock
  <2> QED
    BY <1>2, <2>4
<1>7. CASE /\ op(th) = "commit" /\ Goes(th, "update", 1)
           /\ \E h, c : Commits(th, h, c) /\ heaps' = Append(heaps, h)
  <2>0. PICK h, c : Commits(th, h, c) /\ heaps' = Append(heaps, h)
    BY <1>7
  <2>1. pc(th)' = "update" /\ Heap' = h
    <3>1. h \in [TVar -> Val] /\ heaps \in Seq([TVar -> Val])
      BY <2>0 DEF Commits, TypeInv
    <3>2. Last(heaps') = h
      <4> DEFINE S == [TVar -> Val]
      <4>1. heaps \in Seq(S) /\ h \in S /\ heaps' = Append(heaps, h)
        BY <2>0, <3>1
      <4> HIDE DEF S
      <4> QED
        BY <4>1 DEF Last
    <3> QED
      BY <1>7, <3>2 DEF Goes, pc, Heap
  <2>2. \A m \in DOMAIN Entries(th) :
           Locks(th, Entries(th)[m]) => /\ current_value[Entries(th)[m].tvar] = th
                                        /\ Heap'[Entries(th)[m].tvar] = Entries(th)[m].new
    <3> SUFFICES ASSUME NEW m \in DOMAIN Entries(th), Locks(th, Entries(th)[m])
                 PROVE  /\ current_value[Entries(th)[m].tvar] = th
                        /\ Heap'[Entries(th)[m].tvar] = Entries(th)[m].new
      OBVIOUS
    <3>1. current_value[Entries(th)[m].tvar] = th
      BY <1>1 DEF LockInv, HeldInv, MustHold
    <3>2. entry_is_update(Entries(th)[m])
      BY <1>7 DEF Locks, acquire_all
    <3> QED
      BY <2>0, <2>1, <3>1, <3>2 DEF Commits
  <2>3. Touches(th)
    BY <1>1 DEF Touches
  <2>4. HeapKept(th)
    <3> SUFFICES ASSUME NEW x \in TVar, Heap'[x] # Heap[x] PROVE current_value[x] = th
      BY <1>1 DEF HeapKept
    <3>1. PICK m \in DOMAIN Entries(th) : entry_is_update(Entries(th)[m]) /\ Entries(th)[m].tvar = x
      BY <2>0, <2>1 DEF Commits
    <3>2. Locks(th, Entries(th)[m])
      BY <3>1 DEF Locks
    <3> QED
      BY <2>2, <3>1, <3>2
  <2>5. HeldInv(th)'
    <3>1. \A m \in DOMAIN Entries(th)' : MustHold(th, m)' => Locks(th, Entries(th)[m])
      BY <1>2, <1>4, <2>1 DEF MustHold, Committing
    <3> QED
      BY <1>1, <1>2, <2>2, <3>1 DEF HeldInv
  <2>6. ASSUME NEW x \in TVar, current_value'[x] = th PROVE HolderInv(x)'
    <3>1. PICK m \in DOMAIN Entries(th) : Entries(th)[m].tvar = x /\ MayHold(th, m)
      <4>1. HolderInv(x) /\ current_value[x] = th
        BY <1>1, <2>6 DEF LockInv
      <4> QED
        BY <4>1 DEF HolderInv
    <3>2. Locks(th, Entries(th)[m])
      BY <1>1, <3>1 DEF MayHold, MustHold, Committing
    <3>3. MayHold(th, m)' /\ PutsBack(th, m)' = Entries(th)[m].new
      BY <1>2, <1>4, <1>5, <2>1, <3>2 DEF MayHold, MustHold, PutsBack, Committing
    <3>4. Heap'[x] = Entries(th)[m].new
      BY <2>2, <3>1, <3>2
    <3> QED
      BY <1>2, <2>1, <2>6, <3>1, <3>3, <3>4 DEF HolderInv
  <2>7. LockSound(th)
    BY <1>2, <1>3, <2>3, <2>4, <2>5, <2>6, LockStep DEF OwnLocks
  <2> QED
    BY <1>2, <2>7
<1> QED
  BY <1>1, <1>6, <1>7

(* The update loop: what th holds from its current entry on it goes on to  *)
(* hold.                                                                   *)
LEMMA CommittingLock ==
    ASSUME TypeInv, PlaceInv, LockInv, NEW th \in Thread, NEW p, NEW j \in DOMAIN Entries(th),
           Committing(th), Goes(th, p, j), p \in {"unpark", "unparkLock", "bump", "store"}, loc[th].i <= j,
           entry_is_update(Entries(th)[j]),
           \A m \in DOMAIN Entries(th) : loc[th].i <= m /\ entry_is_update(Entries(th)[m]) => j <= m,
           current_value' = current_value, heaps' = heaps
    PROVE  LockSound(th)
<1>1. /\ Sound(th) /\ Works(th) /\ Entries(th)' = Entries(th) /\ loc'[th].i = j /\ pc(th)' = p
      /\ pc(th) # "idle"
  BY DEF Goes, pc, Works
<1>2. \A m \in DOMAIN Entries(th) : m \in Nat /\ m <= Len(Entries(th))
  BY <1>1, WorkFacts
<1>3. EntryInv(th)'
  BY <1>1, <1>2 DEF EntryInv, Cur
<1>4. GoesOn(th)
  BY <1>3, GoesGoesOn
<1>5. op(th) = "commit" /\ Committing(th)'
  BY <1>1 DEF PlaceInv, OpInv, Committing
<1>6. ASSUME NEW m \in DOMAIN Entries(th) PROVE Keeps(th, m)
  <2>1. Locks(th, Entries(th)[m])' <=> Locks(th, Entries(th)[m])
    BY <1>1, LocksSame, SameButSelf
  <2>2. Locks(th, Entries(th)[m]) => (m >= loc[th].i <=> m >= loc'[th].i)
    <3>1. Locks(th, Entries(th)[m]) => entry_is_update(Entries(th)[m])
      BY <1>5 DEF Locks, acquire_all
    <3>2. loc[th].i \in Nat /\ j \in Nat /\ m \in Nat
      BY <1>2, LocFacts
    <3> QED
      BY <1>1, <3>1, <3>2
  <2>3. MustHold(th, m)' <=> MustHold(th, m)
    BY <1>1, <1>5, <2>1, <2>2 DEF MustHold, Committing
  <2>4. MayHold(th, m) => MustHold(th, m)
    BY DEF MayHold, Committing
  <2> QED
    BY <1>1, <1>5, <2>3, <2>4 DEF Keeps, MayHold, PutsBack
<1> QED
  BY <1>4, <1>6, HoldLock

LEMMA UpdateLock ==
    ASSUME TypeInv, PlaceInv, LockInv, scenario' = scenario, NEW th \in Thread, Update(th)
    PROVE  Sound(th) /\ LockSound(th)
<1>1. /\ pc(th) = "update" /\ pc(th) # "idle" /\ Committing(th) /\ op(th) = "commit"
  BY UpdateStep DEF Committing, PlaceInv, OpInv
<1>2. CASE /\ Sound(th) /\ QuietStep(th)
           /\ \A m \in DOMAIN Entries(th) : loc[th].i <= m => ~entry_is_update(Entries(th)[m])
  <2>1. \A m \in DOMAIN Entries(th) : ~MayHold(th, m)
    <3> TAKE m \in DOMAIN Entries(th)
    <3>1. m \in Nat /\ loc[th].i \in Nat
      BY <1>1, WorkFacts, LocFacts
    <3>2. m >= loc[th].i => ~Locks(th, Entries(th)[m])
      BY <1>1, <1>2, <3>1 DEF Locks, acquire_all
    <3> QED
      BY <1>1, <3>2 DEF MayHold, MustHold
  <2>2. Free(th)
    BY <2>1, FreeFacts
  <2> QED
    BY <1>2, <2>2, QuietLock
<1>3. CASE \E j \in DOMAIN Entries(th) :
                   /\ Goes(th, "unpark", j) /\ Looks /\ UNCHANGED torn
                   /\ entry_is_update(Entries(th)[j]) /\ loc[th].i <= j
                   /\ \A m \in DOMAIN Entries(th) :
                        loc[th].i <= m /\ entry_is_update(Entries(th)[m]) => j <= m
  <2>1. PICK j \in DOMAIN Entries(th) :
                   /\ Goes(th, "unpark", j) /\ Looks /\ UNCHANGED torn
                   /\ entry_is_update(Entries(th)[j]) /\ loc[th].i <= j
                   /\ \A m \in DOMAIN Entries(th) :
                        loc[th].i <= m /\ entry_is_update(Entries(th)[m]) => j <= m
    BY <1>3
  <2>2. current_value' = current_value /\ heaps' = heaps /\ Sound(th)
        /\ "unpark" \in {"unpark", "unparkLock", "bump", "store"}
    BY <2>1 DEF Looks, Goes
  <2>3. LockSound(th)
    BY <1>1, <2>1, <2>2, CommittingLock
  <2> QED
    BY <2>2, <2>3
<1> QED
  BY <1>2, <1>3, UpdateStep

LEMMA SameEntryLock ==
    ASSUME TypeInv, PlaceInv, LockInv, NEW th \in Thread, NEW p,
           pc(th) \in {"unpark", "unparkLock", "bump"}, Goes(th, p, loc[th].i),
           p \in {"unpark", "unparkLock", "bump", "store"},
           current_value' = current_value, heaps' = heaps
    PROVE  Sound(th) /\ LockSound(th)
<1>0. EntryInv(th)
  BY DEF LockInv
<1>1. loc[th].i \in DOMAIN Entries(th) /\ entry_is_update(Entries(th)[loc[th].i]) /\ Committing(th)
  BY <1>0, CurFacts DEF EntryInv, Committing
<1>2. PICK j \in DOMAIN Entries(th) : j = loc[th].i
  BY <1>1
<1>3. loc[th].i <= j
  BY <1>2, LocFacts
<1>4. /\ Goes(th, p, j) /\ entry_is_update(Entries(th)[j])
      /\ \A m \in DOMAIN Entries(th) : loc[th].i <= m /\ entry_is_update(Entries(th)[m]) => j <= m
  BY <1>1, <1>2
<1>5. LockSound(th)
  BY <1>1, <1>3, <1>4, CommittingLock
<1> QED
  BY <1>4, <1>5 DEF Goes

LEMMA UnparkLock ==
    ASSUME TypeInv, PlaceInv, LockInv, scenario' = scenario, NEW th \in Thread,
           UnparkWaiter(th) \/ UnparkTSO(th) \/ BumpVersion(th)
    PROVE  Sound(th) /\ LockSound(th)
<1>1. CASE UnparkWaiter(th)
  <2>1. pc(th) = "unpark" /\ Looks /\ \E p \in {"unpark", "unparkLock", "bump"} : Goes(th, p, loc[th].i)
    BY <1>1, UnparkWaiterStep
  <2>2. PICK p \in {"unpark", "unparkLock", "bump"} : Goes(th, p, loc[th].i)
    BY <2>1
  <2>3. current_value' = current_value /\ heaps' = heaps /\ p \in {"unpark", "unparkLock", "bump", "store"}
    BY <2>1 DEF Looks
  <2> QED
    BY <2>1, <2>2, <2>3, SameEntryLock
<1>2. CASE UnparkTSO(th)
  <2>1. pc(th) = "unparkLock" /\ Goes(th, "unpark", loc[th].i) /\ current_value' = current_value /\ heaps' = heaps
    BY <1>2, UnparkTSOStep DEF Looks
  <2> QED
    BY <2>1, SameEntryLock
<1>3. CASE BumpVersion(th)
  <2>0. EntryInv(th)
    BY DEF LockInv
  <2>1. pc(th) = "bump" /\ Goes(th, "store", loc[th].i) /\ current_value' = current_value /\ heaps' = heaps
    BY <1>3, <2>0, BumpVersionStep
  <2> QED
    BY <2>1, SameEntryLock
<1> QED
  BY <1>1, <1>2, <1>3

LEMMA StoreValueLock ==
    ASSUME TypeInv, PlaceInv, LockInv, scenario' = scenario, NEW th \in Thread, StoreValue(th)
    PROVE  Sound(th) /\ LockSound(th)
<1>0. EntryInv(th) /\ HeldInv(th)
  BY DEF LockInv
<1>1. PICK i : i = loc[th].i
  OBVIOUS
<1>2. /\ pc(th) = "store" /\ pc(th) # "idle" /\ Goes(th, "update", i + 1)
      /\ current_value' = [current_value EXCEPT ![Cur(th).tvar] = Cur(th).new]
      /\ heaps' = heaps
  BY <1>0, <1>1, StoreValueStep
<1>3. i \in DOMAIN Entries(th) /\ Cur(th) = Entries(th)[i] /\ Cur(th).new \in Val
      /\ entry_is_update(Entries(th)[i]) /\ Committing(th) /\ op(th) = "commit"
  BY <1>0, <1>1, <1>2, CurFacts DEF EntryInv, Committing, PlaceInv, OpInv
<1>4. /\ pc(th)' = "update" /\ Committing(th)' /\ loc'[th].i = i + 1
      /\ Sound(th) /\ Works(th) /\ Entries(th)' = Entries(th)
  BY <1>2 DEF Goes, pc, Committing
<1>5. GoesOn(th)
  <2>1. EntryInv(th)'
    BY <1>4 DEF EntryInv
  <2> QED
    BY <1>2, <2>1, GoesGoesOn
<1>6. \A m \in DOMAIN Entries(th) : m \in Nat
  BY <1>2, WorkFacts
<1>7. MustHold(th, i) /\ PutsBack(th, i) = Entries(th)[i].new
  BY <1>1, <1>3, <1>6 DEF MustHold, Locks, PutsBack
<1>8. current_value[Entries(th)[i].tvar] = th
  BY <1>0, <1>2, <1>3, <1>7 DEF HeldInv
<1>9. ASSUME NEW m \in DOMAIN Entries(th) PROVE (m = i => ~MustHold(th, m)') /\ (m # i => Keeps(th, m))
  <2>1. Locks(th, Entries(th)[m])' <=> Locks(th, Entries(th)[m])
    BY <1>4, LocksSame, SameButSelf
  <2>2. (m = i => ~(m >= loc'[th].i)) /\ (m # i => (m >= loc'[th].i <=> m >= loc[th].i))
    BY <1>1, <1>3, <1>4, <1>6
  <2>3. (MustHold(th, m)' <=> m >= loc'[th].i /\ Locks(th, Entries(th)[m]))
        /\ (MustHold(th, m) <=> m >= loc[th].i /\ Locks(th, Entries(th)[m]))
    BY <1>2, <1>3, <1>4, <2>1 DEF MustHold
  <2>4. MayHold(th, m) => MustHold(th, m)
    BY <1>2 DEF MayHold
  <2> QED
    BY <1>3, <1>4, <2>2, <2>3, <2>4 DEF Keeps, MayHold, PutsBack
<1>10. LockSound(th)
  <2>1. /\ current_value' = [current_value EXCEPT ![Entries(th)[i].tvar] = PutsBack(th, i)]
        /\ PutsBack(th, i) \in Val /\ ~MustHold(th, i)'
        /\ \A m \in DOMAIN Entries(th) : m # i => Keeps(th, m)
    BY <1>2, <1>3, <1>7, <1>9
  <2> QED
    BY <1>3, <1>5, <1>8, <2>1, DropLock
<1> QED
  BY <1>4, <1>10

(* A nested commit gives back each TVar that it updates as it comes to it. *)
LEMMA MergeEntryLock ==
    ASSUME TypeInv, PlaceInv, LockInv, scenario' = scenario, NEW th \in Thread, MergeEntry(th)
    PROVE  Sound(th) /\ LockSound(th)
<1>0. HeldInv(th)
  BY DEF LockInv
<1>1. PICK i : i = loc[th].i
  OBVIOUS
<1>2. /\ pc(th) = "merge" /\ pc(th) # "idle" /\ Works(th) /\ Sound(th) /\ pc(th)' = "merge"
      /\ loc'[th].i = i + 1 /\ Entries(th)' = Entries(th) /\ heaps' = heaps /\ i \in DOMAIN Entries(th)
      /\ \/ /\ entry_is_update(Entries(th)[i])
            /\ current_value' = [current_value EXCEPT ![Entries(th)[i].tvar] = Entries(th)[i].expected]
         \/ entry_is_read_only(Entries(th)[i]) /\ current_value' = current_value
  BY <1>1, MergeEntryStep DEF Merges, pc
<1>3. op(th) = "commitNested" /\ ~Committing(th) /\ ~Committing(th)'
  BY <1>2 DEF PlaceInv, OpInv, Committing
<1>4. GoesOn(th)
  <2>1. EntryInv(th)'
    BY <1>2 DEF EntryInv
  <2> QED
    BY <1>2, <2>1, SameButSelf DEF GoesOn, pc
<1>5. \A m \in DOMAIN Entries(th) : m \in Nat /\ Entries(th)[m].expected \in Val
  BY <1>2, WorkFacts
<1>6. ASSUME NEW m \in DOMAIN Entries(th)
      PROVE  (m = i => ~MustHold(th, m)') /\ (m # i \/ ~Locks(th, Entries(th)[m]) => Keeps(th, m))
  <2>1. Locks(th, Entries(th)[m])' <=> Locks(th, Entries(th)[m])
    BY <1>2, LocksSame, SameButSelf
  <2>2. (m = i => ~(m >= loc'[th].i)) /\ (m # i => (m >= loc'[th].i <=> m >= loc[th].i))
    BY <1>1, <1>2, <1>5
  <2>3. (MustHold(th, m)' <=> m >= loc'[th].i /\ Locks(th, Entries(th)[m]))
        /\ (MustHold(th, m) <=> m >= loc[th].i /\ Locks(th, Entries(th)[m]))
    BY <1>2, <1>3, <2>1 DEF MustHold
  <2>4. MayHold(th, m) => MustHold(th, m)
    BY <1>2 DEF MayHold
  <2>5. PutsBack(th, m)' = PutsBack(th, m)
    BY <1>2, <1>3 DEF PutsBack
  <2> QED
    BY <2>2, <2>3, <2>4, <2>5 DEF Keeps, MayHold
<1>7. CASE /\ entry_is_update(Entries(th)[i])
           /\ current_value' = [current_value EXCEPT ![Entries(th)[i].tvar] = Entries(th)[i].expected]
  <2>1. MustHold(th, i) /\ PutsBack(th, i) = Entries(th)[i].expected
    BY <1>1, <1>2, <1>3, <1>5, <1>7 DEF MustHold, Locks, PutsBack
  <2>2. current_value[Entries(th)[i].tvar] = th
    BY <1>0, <1>2, <2>1 DEF HeldInv
  <2>3. /\ current_value' = [current_value EXCEPT ![Entries(th)[i].tvar] = PutsBack(th, i)]
        /\ PutsBack(th, i) \in Val /\ ~MustHold(th, i)'
        /\ \A m \in DOMAIN Entries(th) : m # i => Keeps(th, m)
    BY <1>2, <1>5, <1>6, <1>7, <2>1
  <2>4. LockSound(th)
    BY <1>2, <1>4, <2>2, <2>3, DropLock
  <2> QED
    BY <1>2, <2>4
<1>8. CASE entry_is_read_only(Entries(th)[i]) /\ current_value' = current_value
  <2>1. ~Locks(th, Entries(th)[i])
    BY <1>3, <1>8 DEF Locks, acquire_all, entry_is_update, entry_is_read_only
  <2>2. \A m \in DOMAIN Entries(th) : Keeps(th, m)
    BY <1>6, <2>1
  <2>3. LockSound(th)
    BY <1>4, <1>8, <2>2, HoldLock
  <2> QED
    BY <1>2, <2>3
<1> QED
  BY <1>2, <1>7, <1>8

LEMMA UnwatchLockLock ==
    ASSUME TypeInv, PlaceInv, LockInv, scenario' = scenario, NEW th \in Thread, UnwatchLock(th)
    PROVE  Sound(th) /\ LockSound(th)
<1>1. PICK i : i = loc[th].i
  OBVIOUS
<1>2. /\ pc(th) = "unwatch" /\ pc(th) # "idle" /\ Goes(th, "unwatchUnlock", i)
      /\ i \in DOMAIN Entries(th) /\ current_value[Entries(th)[i].tvar] \in Val
      /\ loc'[th].saw = current_value[Entries(th)[i].tvar]
      /\ current_value' = [current_value EXCEPT ![Entries(th)[i].tvar] = th]
      /\ heaps' = heaps
  BY <1>1, UnwatchLockStep DEF Cur
<1>3. pc(th)' = "unwatchUnlock" /\ loc'[th].i = i /\ Sound(th) /\ Entries(th)' = Entries(th)
  BY <1>2 DEF Goes, pc
<1>4. GoesOn(th)
  <2>1. i <= Len(Entries(th))
    BY <1>2, WorkFacts
  <2>2. EntryInv(th)'
    BY <1>3, <2>1 DEF EntryInv
  <2> QED
    BY <1>2, <2>2, GoesGoesOn
<1>5. MayHold(th, i)' /\ PutsBack(th, i)' = current_value[Entries(th)[i].tvar]
  BY <1>2, <1>3 DEF MayHold, MustHold, PutsBack, Committing
<1>6. \A m \in DOMAIN Entries(th) : m # i => Keeps(th, m)
  BY <1>2, <1>3 DEF Keeps, MustHold, MayHold, Committing
<1>7. LockSound(th)
  BY <1>2, <1>4, <1>5, <1>6, TakeLock
<1> QED
  BY <1>3, <1>7

LEMMA UnwatchUnlockLock ==
    ASSUME TypeInv, PlaceInv, LockInv, scenario' = scenario, NEW th \in Thread, UnwatchUnlock(th)
    PROVE  Sound(th) /\ LockSound(th)
<1>0. EntryInv(th) /\ HeldInv(th)
  BY DEF LockInv
<1>1. PICK i : i = loc[th].i
  OBVIOUS
<1>2. /\ pc(th) = "unwatchUnlock" /\ pc(th) # "idle" /\ Goes(th, "unwatch", i + 1)
      /\ current_value' = [current_value EXCEPT ![Cur(th).tvar] = loc[th].saw] /\ heaps' = heaps
  BY <1>0, <1>1, UnwatchUnlockStep
<1>3. i \in DOMAIN Entries(th) /\ Cur(th) = Entries(th)[i] /\ loc[th].saw \in Val
  BY <1>0, <1>1, <1>2, CurFacts, LocFacts
<1>4. pc(th)' = "unwatch" /\ Sound(th)
  BY <1>2 DEF Goes, pc
<1>5. GoesOn(th)
  <2>1. EntryInv(th)'
    BY <1>4 DEF EntryInv
  <2> QED
    BY <1>2, <2>1, GoesGoesOn
<1>6. PutsBack(th, i) = loc[th].saw /\ MustHold(th, i)
  BY <1>1, <1>2 DEF PutsBack, Committing, MustHold
<1>7. current_value[Entries(th)[i].tvar] = th
  BY <1>0, <1>2, <1>3, <1>6 DEF HeldInv
<1>8. \A m \in DOMAIN Entries(th) : ~MustHold(th, m)' /\ (m # i => Keeps(th, m))
  BY <1>1, <1>2, <1>4 DEF Keeps, MustHold, MayHold, Committing
<1>9. LockSound(th)
  <2>1. current_value' = [current_value EXCEPT ![Entries(th)[i].tvar] = PutsBack(th, i)] /\ PutsBack(th, i) \in Val
    BY <1>2, <1>3, <1>6
  <2> QED
    BY <1>3, <1>5, <1>7, <1>8, <2>1, DropLock
<1> QED
  BY <1>4, <1>9

(* Nothing is left to revert, or to merge: no TVar is held. *)
LEMMA RevertedLock ==
    ASSUME TypeInv, PlaceInv, LockInv, scenario' = scenario, NEW th \in Thread, Reverted(th)
    PROVE  Sound(th) /\ LockSound(th)
<1>1. Sound(th) /\ QuietStep(th)
  BY RevertedStep
<1>2. /\ pc(th) = "revert" /\ pc(th) # "idle"
      /\ Seek(Entries(th), loc[th].i, LAMBDA e : Owned(th, e)) > Len(Entries(th))
  BY DEF Reverted
<1>3. Entries(th) \in Seq(EntryType) /\ loc[th].i \in Nat \ {0} /\ Len(Entries(th)) \in Nat
      /\ DOMAIN Entries(th) = 1..Len(Entries(th))
  BY <1>2, WorkFacts, LocFacts
<1>4. PICK s : s = Seek(Entries(th), loc[th].i, LAMBDA e : Owned(th, e))
  OBVIOUS
<1>5. Finds(Entries(th), loc[th].i, s, {m \in DOMAIN Entries(th) : Owned(th, Entries(th)[m])})
  BY <1>3, <1>4, SeekOwned
<1>6. ASSUME NEW m \in DOMAIN Entries(th) PROVE ~MayHold(th, m) \/ current_value[Entries(th)[m].tvar] # th
  <2>0. s > Len(Entries(th)) /\ s \in 1..(Len(Entries(th)) + 1)
        /\ (loc[th].i <= m /\ Owned(th, Entries(th)[m]) => s <= m)
    BY <1>2, <1>4, <1>5 DEF Finds
  <2>1. m >= loc[th].i => ~Owned(th, Entries(th)[m])
    BY <1>3, <2>0
  <2> QED
    BY <1>2, <2>1 DEF MayHold, MustHold, Committing, Owned, Locks
<1>7. Free(th)
  BY <1>6, FreeFacts
<1> QED
  BY <1>1, <1>7, QuietLock

LEMMA NestedCommittedLock ==
    ASSUME TypeInv, PlaceInv, LockInv, scenario' = scenario, NEW th \in Thread, NestedCommitted(th)
    PROVE  Sound(th) /\ LockSound(th)
<1>1. Sound(th) /\ QuietStep(th)
  BY NestedCommittedStep
<1>2. pc(th) = "merge" /\ pc(th) # "idle" /\ AtEnd(th)
  BY DEF NestedCommitted
<1>3. \A m \in DOMAIN Entries(th) : ~(m >= loc[th].i)
  BY <1>2, WorkFacts, LocFacts DEF AtEnd
<1>4. \A m \in DOMAIN Entries(th) : ~MayHold(th, m)
  BY <1>2, <1>3 DEF MayHold, MustHold, Committing
<1>5. Free(th)
  BY <1>4, FreeFacts
<1> QED
  BY <1>1, <1>5, QuietLock

(* The steps that neither take nor leave a lock. *)
Quiet(th) ==
    \/ Body(th) \/ Resume(th) \/ Unwatched(th) \/ ThrowToMasked(th)
    \/ Wakeup(th) \/ ThrowToBlocked(th) \/ ThrowToRunnable(th)

LEMMA WriteFacts ==
    ASSUME TypeInv, PlaceInv, NEW th \in Thread, pc(th) = "run", NEW w \in Writes[th][done[th] + 1]
    PROVE  w[1] \in TVar /\ w[2] \in Val
<1>1. done[th] \in Nat /\ done[th] < Len(Writes[th]) /\ DOMAIN Writes[th] = 1..Len(Writes[th])
      /\ Len(Writes[th]) \in Nat
  BY WritesFacts DEF PlaceInv, NestInv
<1>2. done[th] + 1 \in DOMAIN Writes[th]
  BY <1>1
<1>3. scenario \in Scenarios /\ Writes = scenario.writes
  BY DEF TypeInv, Writes
<1>4. w[1] \in TVar
  BY <1>2, <1>3, ScenarioAssumption
<1>5. w[2] \in Val
  BY <1>2, <1>3 DEF Val
<1> QED
  BY <1>4, <1>5

LEMMA QuietActions ==
    ASSUME TypeInv, PlaceInv, scenario' = scenario, NEW th \in Thread, Quiet(th)
    PROVE  Sound(th) /\ QuietStep(th) /\ Resting(th)
<1>1. Sound(th) /\ QuietStep(th)
  <2>1. CASE Body(th)
    <3>1. CASE \E x \in TVar : ReadTVar(th, x)
      BY <3>1, ReadTVarStep
    <3>2. CASE pc(th) = "run" /\ \E w \in Writes[th][done[th] + 1] : WriteTVar(th, w[1], w[2])
      <4>1. PICK w \in Writes[th][done[th] + 1] : WriteTVar(th, w[1], w[2])
        BY <3>2
      <4>2. w[1] \in TVar /\ w[2] \in Val
        BY <3>2, WriteFacts
      <4> QED
        BY <4>1, <4>2, WriteTVarStep
    <3>3. CASE \E f \in {"first", "catch"} : StartNested(th, f)
      BY <3>3, StartNestedStep
    <3> QED
      BY <2>1, <3>1, <3>2, <3>3, AtomicallyStep, ReturnStep, RetryStep, ThrowStep, YieldStep DEF Body
  <2> QED
    BY <2>1, ResumeStep, UnwatchedStep, ThrowToMaskedStep, WakeupStep, ThrowToBlockedStep,
       ThrowToRunnableStep DEF Quiet
<1>2. Resting(th)
  <2>1. pc(th) \in {"idle", "run", "blocked", "resume", "throwMasked", "unwatch"}
    BY DEF Quiet, Body, Atomically, ReadTVar, StartNested, Return, Retry, Throw, Yield, Resume, Unwatched,
           ThrowToMasked, Wakeup, ThrowToBlocked, ThrowToRunnable
  <2> QED
    BY <2>1 DEF Resting
<1> QED
  BY <1>1, <1>2

LEMMA QuietActionsLock ==
    ASSUME TypeInv, PlaceInv, LockInv, scenario' = scenario, NEW th \in Thread, Quiet(th)
    PROVE  Sound(th) /\ LockSound(th)
<1>1. Sound(th) /\ QuietStep(th) /\ Resting(th)
  BY QuietActions
<1>2. Free(th)
  BY <1>1, RestingFree
<1> QED
  BY <1>1, <1>2, QuietLock

LEMMA StepLock ==
    ASSUME TypeInv, PlaceInv, LockInv, scenario' = scenario, NEW th \in Thread, Step(th)
    PROVE  Sound(th) /\ LockSound(th)
  BY GetInvLockLock, GetInvUnlockLock, ValidateEntryLock, ReadVersionLock, RecheckLock,
     ValidateCondemnedLock, ValidatedLock, RevertLock, RevertedLock, CheckReadOnlyLock, DecideLock,
     UpdateLock, UnparkLock, StoreValueLock, MergeEntryLock, NestedCommittedLock, UnwatchLockLock,
     UnwatchUnlockLock, QuietActionsLock DEF Step, Quiet

-----------------------------------------------------------------------------
(* The theorems. *)

IndInv == TypeInv /\ PlaceInv /\ LockInv

LEMMA InitInv == Init => IndInv
<1> SUFFICES ASSUME Init PROVE IndInv
  OBVIOUS
<1>0. InitVal \in Val /\ At("idle") \in LocType /\ At("idle").pc = "idle" /\ At("idle").op = "none"
      /\ At("idle").lvl = 1
  BY ValFacts, AtFacts DEF PC
<1>1. TypeInv
  <2>1. <<[x \in TVar |-> InitVal]>> \in Seq([TVar -> Val]) /\ <<[x \in TVar |-> InitVal]>> # <<>>
    BY <1>0
  <2> QED
    BY <1>0, <2>1 DEF Init, TypeInv
<1>2. \A th \in Thread : pc(th) = "idle" /\ op(th) = "none" /\ loc[th].lvl = 1 /\ nest[th] = <<>>
         /\ why_blocked[th] = "NotBlocked" /\ done[th] = 0
  BY <1>0 DEF Init, pc, op
<1>3. PlaceInv
  <2> SUFFICES ASSUME NEW th \in Thread PROVE OpInv(th) /\ BlockedInv(th) /\ NestInv(th)
    BY DEF PlaceInv
  <2>1. Len(Writes[th]) \in Nat
    BY <1>1, WritesFacts
  <2>2. OpInv(th) /\ BlockedInv(th)
    BY <1>2 DEF OpInv, BlockedInv, Committing
  <2>3. NestInv(th)
    BY <1>2, <2>1 DEF NestInv
  <2> QED
    BY <2>2, <2>3
<1>4. LockInv
  <2>1. \A th \in Thread : HeldInv(th) /\ EntryInv(th)
    BY <1>2 DEF HeldInv, EntryInv
  <2>2. Heap = [x \in TVar |-> InitVal]
    BY DEF Init, Heap, Last
  <2>3. \A x \in TVar : current_value[x] = InitVal /\ InitVal \notin Thread
    BY <1>0, ValFacts DEF Init
  <2>4. \A x \in TVar : HolderInv(x)
    BY <2>2, <2>3 DEF HolderInv
  <2> QED
    BY <2>1, <2>4 DEF LockInv
<1> QED
  BY <1>1, <1>3, <1>4 DEF IndInv

LEMMA NextInv == IndInv /\ [Next]_vars => IndInv'
<1> SUFFICES ASSUME IndInv, [Next]_vars PROVE IndInv'
  OBVIOUS
<1>0. TypeInv /\ PlaceInv /\ LockInv
  BY DEF IndInv
<1>1. CASE Next
  <2>1. PICK th \in Thread : Body(th) \/ Step(th) \/ Wakeup(th) \/ ThrowToBlocked(th) \/ ThrowToRunnable(th)
    BY <1>1 DEF Next
  <2>2. scenario' = scenario
    BY <1>1 DEF Next
  <2>3. Sound(th) /\ LockInv'
    BY <1>0, <2>1, <2>2, StepLock, QuietActionsLock DEF Quiet, LockSound
  <2> QED
    BY <2>3 DEF IndInv, Sound
<1>2. CASE UNCHANGED vars
  <2>1. TypeInv'
    BY <1>0, <1>2 DEF TypeInv, vars
  <2>2. PlaceInv'
    BY <1>0, <1>2 DEF PlaceInv, OpInv, BlockedInv, NestInv, Committing, pc, op, Writes, vars
  <2>3. LockInv'
    <3>1. \A th \in Thread : Entries(th)' = Entries(th) /\ (pc(th)' = pc(th)) /\ op(th)' = op(th)
             /\ loc'[th] = loc[th] /\ current_value' = current_value /\ Heap' = Heap
      BY <1>2 DEF vars, Entries, TRec, pc, op, Heap
    <3>2. ASSUME NEW th \in Thread, NEW j
          PROVE  (MustHold(th, j)' <=> MustHold(th, j)) /\ (MayHold(th, j)' <=> MayHold(th, j))
                 /\ PutsBack(th, j)' = PutsBack(th, j)
      BY <3>1 DEF MustHold, MayHold, PutsBack, Locks, acquire_all, Committing
    <3>3. \A th \in Thread : HeldInv(th)' /\ EntryInv(th)'
      BY <1>0, <3>1, <3>2 DEF LockInv, HeldInv, EntryInv, Cur
    <3>4. \A x \in TVar : HolderInv(x)'
      <4> SUFFICES ASSUME NEW x \in TVar PROVE HolderInv(x)'
        OBVIOUS
      <4>1. HolderInv(x) /\ current_value' = current_value /\ Heap' = Heap
        BY <1>0, <1>2 DEF LockInv, vars, Heap
      <4> QED
        BY <3>1, <3>2, <4>1 DEF HolderInv
    <3> QED
      BY <3>3, <3>4 DEF LockInv
  <2> QED
    BY <2>1, <2>2, <2>3 DEF IndInv
<1> QED
  BY <1>1, <1>2

(* What the invariant says of TypeOK and LocksRestore. *)
LEMMA InvTypeOK == IndInv => TypeOK
<1> SUFFICES ASSUME IndInv PROVE TypeOK
  OBVIOUS
<1>0. TypeInv /\ PlaceInv
  BY DEF IndInv
<1>1. \A th \in Thread : \A d \in DOMAIN nest[th] :
          /\ nest[th][d].state \in TRecState
          /\ \A j \in DOMAIN nest[th][d].entries : IsEntry(nest[th][d].entries[j])
  <2> SUFFICES ASSUME NEW th \in Thread, NEW d \in DOMAIN nest[th]
               PROVE  /\ nest[th][d].state \in TRecState
                      /\ \A j \in DOMAIN nest[th][d].entries : IsEntry(nest[th][d].entries[j])
    OBVIOUS
  <2>1. nest[th] \in Seq(TRecType)
    BY <1>0 DEF TypeInv
  <2>2. nest[th][d] \in TRecType
    BY <2>1
  <2> QED
    BY <2>2, TRecFacts DEF IsEntry
<1>2. \A th \in Thread : done[th] \in 0..Len(Writes[th])
  <2> SUFFICES ASSUME NEW th \in Thread PROVE done[th] \in 0..Len(Writes[th])
    OBVIOUS
  <2>1. done[th] \in Nat /\ done[th] <= Len(Writes[th]) /\ Len(Writes[th]) \in Nat
    BY <1>0, WritesFacts DEF TypeInv, PlaceInv, NestInv
  <2> QED
    BY <2>1
<1>3. \A th \in Thread :
          /\ loc[th].pc \in PC /\ loc[th].op \in Op
          /\ loc[th].lvl \in Nat /\ loc[th].i \in Nat /\ loc[th].k \in Nat
          /\ loc[th].saw \in Val /\ loc[th].ok \in BOOLEAN
  BY <1>0, LocFacts
<1> QED
  BY <1>0, <1>1, <1>2, <1>3 DEF TypeOK, TypeInv

LEMMA InvLocksRestore == IndInv => LocksRestore
<1> SUFFICES ASSUME IndInv, NEW x \in TVar, current_value[x] # Heap[x]
             PROVE  \E th \in Thread :
             /\ current_value[x] = th
             /\ nest[th] # <<>>
             /\ Has(TRec(th), x)
             /\ LET e == TRec(th).entries[IndexOf(TRec(th), x)]
                IN  \/ Committing(th) /\ e.new = Heap[x]
                    \/ /\ pc(th) \in {"getInvUnlock", "unwatchUnlock"}
                       /\ loc[th].saw = Heap[x]
                    \/ /\ pc(th) \in {"validate", "readVersion", "recheck", "revert",
                                      "checkReads", "merge"}
                       /\ e.expected = Heap[x]
  BY DEF LocksRestore
<1>0. TypeInv /\ PlaceInv /\ LockInv
  BY DEF IndInv
<1>1. PICK th \in Thread : current_value[x] = th /\ pc(th) # "idle"
         /\ \E j \in DOMAIN Entries(th) : Entries(th)[j].tvar = x /\ MayHold(th, j) /\ PutsBack(th, j) = Heap[x]
  BY <1>0 DEF LockInv, HolderInv
<1>2. PICK j \in DOMAIN Entries(th) : Entries(th)[j].tvar = x /\ MayHold(th, j) /\ PutsBack(th, j) = Heap[x]
  BY <1>1
<1>3. nest[th] # <<>>
  <2>1. nest[th] \in Seq(TRecType) /\ frames[th] \in Seq({"first", "alt", "catch"})
        /\ Len(frames[th]) < Len(nest[th])
    BY <1>0, <1>1 DEF TypeInv, PlaceInv, NestInv
  <2> QED
    BY <2>1
<1>4. Distinct(Entries(th)) /\ Entries(th) = TRec(th).entries
  BY <1>0, <1>1, WorkFacts DEF Entries
<1>5. Has(TRec(th), x) /\ IndexOf(TRec(th), x) = j
  BY <1>2, <1>4 DEF Has, IndexOf, Distinct
<1>6. \/ Committing(th) /\ Entries(th)[j].new = Heap[x]
      \/ pc(th) \in {"getInvUnlock", "unwatchUnlock"} /\ loc[th].saw = Heap[x]
      \/ /\ pc(th) \in {"validate", "readVersion", "recheck", "revert", "checkReads", "merge"}
         /\ Entries(th)[j].expected = Heap[x]
  BY <1>2 DEF PutsBack, MayHold, MustHold
<1> QED
  BY <1>1, <1>3, <1>4, <1>5, <1>6

(* Every variable keeps its type; above all, a transaction record never    *)
(* takes the lock of a TVar for a value (read_current_value), whatever the *)
(* threads do and however deep they nest.                                  *)
THEOREM TypeCorrect == Spec => []TypeOK
<1>1. Init => IndInv
  BY InitInv
<1>2. IndInv /\ [Next]_vars => IndInv'
  BY NextInv
<1>3. IndInv => TypeOK
  BY InvTypeOK
<1> QED
  BY <1>1, <1>2, <1>3, PTL DEF Spec

(* Whoever holds a TVar puts back what committed transactions have left in *)
(* it, and a TVar nobody holds contains just that (unlock_tvar,            *)
(* revert_ownership, the update loop of stmCommitTransaction).             *)
THEOREM LocksRestoreCorrect == Spec => []LocksRestore
<1>1. Init => IndInv
  BY InitInv
<1>2. IndInv /\ [Next]_vars => IndInv'
  BY NextInv
<1>3. IndInv => LocksRestore
  BY InvLocksRestore
<1> QED
  BY <1>1, <1>2, <1>3, PTL DEF Spec

-----------------------------------------------------------------------------
(* What a nested transaction has read. *)

(* stmCommitNestedTransaction: the entries it has come past are in the     *)
(* enclosing record.                                                       *)
MergeInv(th) ==
    pc(th) = "merge" =>
      \A j \in DOMAIN Entries(th) :
          j < loc[th].i => Has(nest[th][loc[th].lvl - 1], Entries(th)[j].tvar)

LEMMA MergeEntryMerge ==
    ASSUME TypeInv, PlaceInv, scenario' = scenario, NEW th \in Thread, MergeInv(th), MergeEntry(th)
    PROVE  MergeInv(th)'
<1> SUFFICES ASSUME NEW j \in DOMAIN Entries(th)', j < loc'[th].i
             PROVE  Has(nest'[th][loc'[th].lvl - 1], Entries(th)'[j].tvar)
  BY DEF MergeInv
<1>1. pc(th) = "merge" /\ pc(th) # "idle" /\ Merges(th)
  BY MergeEntryStep
<1>2. PICK i, p : i = loc[th].i /\ p = loc[th].lvl - 1
  OBVIOUS
<1>3. /\ loc'[th].i = i + 1 /\ loc'[th].lvl = loc[th].lvl /\ Entries(th)' = Entries(th)
      /\ \A y : Has(nest'[th][p], y) <=> Has(nest[th][p], y) \/ y = Entries(th)[i].tvar
  BY <1>1, <1>2 DEF Merges, Works
<1>4. i \in Nat /\ j \in Nat /\ j \in DOMAIN Entries(th)
  BY <1>1, <1>2, <1>3, WorkFacts, LocFacts
<1>5. j < i => Has(nest[th][p], Entries(th)[j].tvar)
  BY <1>1, <1>2, <1>4 DEF MergeInv
<1>6. j < i \/ j = i
  BY <1>3, <1>4
<1> QED
  BY <1>2, <1>3, <1>5, <1>6

(* Only the decision of a nested transaction to commit, and its merging,   *)
(* lead to the merge.                                                      *)
LEMMA NotToMerge ==
    ASSUME TypeInv, PlaceInv, LockInv, scenario' = scenario, NEW th \in Thread,
           Quiet(th) \/ Step(th), ~Decide(th), ~MergeEntry(th)
    PROVE  pc(th)' # "merge"
<1>0. EntryInv(th)
  BY DEF LockInv
<1>1. QuietStep(th) => pc(th)' # "merge"
  BY DEF QuietStep, Resting
<1>2. GivesUp(th) => pc(th)' # "merge"
  BY DEF GivesUp, Goes, pc
<1>3. ASSUME NEW p, NEW j, Goes(th, p, j) PROVE pc(th)' = p
  BY <1>3 DEF Goes, pc
<1>4. CASE Quiet(th)
  BY <1>1, <1>4, QuietActions
<1>5. CASE GetInvLock(th)
  BY <1>1, <1>5, GetInvLockStep DEF GetsInv, pc
<1>6. CASE GetInvUnlock(th)
  BY <1>0, <1>3, <1>6, GetInvUnlockStep
<1>7. CASE ValidateEntry(th)
  BY <1>2, <1>3, <1>7, ValidateEntryStep DEF ValidatesEntry
<1>8. CASE ReadVersion(th)
  BY <1>0, <1>8, ReadVersionStep DEF NotesVersion, pc
<1>9. CASE Recheck(th) \/ ValidateCondemned(th)
  BY <1>2, <1>3, <1>9, RecheckStep, ValidateCondemnedStep
<1>10. CASE Validated(th)
  BY <1>3, <1>10, ValidatedStep DEF pc
<1>11. CASE Revert(th)
  BY <1>3, <1>11, RevertStep
<1>12. CASE Reverted(th) \/ NestedCommitted(th)
  BY <1>1, <1>12, RevertedStep, NestedCommittedStep
<1>13. CASE CheckReadOnly(th)
  BY <1>2, <1>3, <1>13, CheckReadOnlyStep
<1>14. CASE Update(th)
  BY <1>1, <1>3, <1>14, UpdateStep
<1>15. CASE UnparkWaiter(th)
  BY <1>3, <1>15, UnparkWaiterStep
<1>16. CASE UnparkTSO(th) \/ BumpVersion(th) \/ StoreValue(th)
  BY <1>0, <1>3, <1>16, UnparkTSOStep, BumpVersionStep, StoreValueStep
<1>17. CASE UnwatchLock(th) \/ UnwatchUnlock(th)
  BY <1>0, <1>3, <1>17, UnwatchLockStep, UnwatchUnlockStep
<1> QED
  BY <1>4, <1>5, <1>6, <1>7, <1>8, <1>9, <1>10, <1>11, <1>12, <1>13, <1>14, <1>15, <1>16, <1>17
  DEF Step, Quiet

LEMMA MergeStep ==
    ASSUME TypeInv, PlaceInv, LockInv, scenario' = scenario, NEW th \in Thread,
           Quiet(th) \/ Step(th), \A u \in Thread : MergeInv(u)
    PROVE  \A u \in Thread : MergeInv(u)'
<1> SUFFICES ASSUME NEW u \in Thread PROVE MergeInv(u)'
  OBVIOUS
<1>1. Sound(th)
  BY StepLock, QuietActions
<1>2. CASE u # th
  <2>1. loc'[u] = loc[u] /\ nest'[u] = nest[u]
    BY <1>1, <1>2 DEF Sound, Others
  <2> QED
    BY <2>1 DEF MergeInv, pc, Entries, TRec
<1>3. CASE u = th /\ MergeEntry(th)
  BY <1>3, MergeEntryMerge
<1>4. CASE u = th /\ Decide(th)
  <2>1. pc(th) = "checkReads" /\ pc(th) # "idle" /\ loc'[th].i = 1 /\ Entries(th)' = Entries(th)
    BY <1>4, DecideStep DEF Goes
  <2>2. \A j \in DOMAIN Entries(th) : ~(j < 1)
    BY <2>1, WorkFacts
  <2> QED
    BY <1>4, <2>1, <2>2 DEF MergeInv
<1>5. CASE u = th /\ ~Decide(th) /\ ~MergeEntry(th)
  BY <1>5, NotToMerge DEF MergeInv
<1> QED
  BY <1>2, <1>3, <1>4, <1>5

LEMMA NestedCommittedKeeps ==
    ASSUME TypeInv, PlaceInv, scenario' = scenario, NEW th \in Thread, MergeInv(th), NestedCommitted(th)
    PROVE  Touched(nest[th]) \subseteq Touched(nest'[th])
<1> DEFINE n == nest[th]
           m == SubSeq(n, 1, Len(n) - 1)
<1>1. Len(n) > 1 /\ nest'[th] = m
  BY NestedCommittedStep
<1>2. pc(th) = "merge" /\ pc(th) # "idle" /\ AtEnd(th)
  BY DEF NestedCommitted
<1>3. loc[th].lvl = Len(n)
  BY <1>2 DEF PlaceInv, OpInv, NestInv
<1>4. n \in Seq(TRecType) /\ Len(n) \in Nat /\ DOMAIN n = 1..Len(n)
  BY ThreadFacts
<1>5. DOMAIN m = 1..(Len(n) - 1) /\ \A d \in 1..(Len(n) - 1) : m[d] = n[d]
  BY <1>1, <1>4
<1> HIDE DEF m
<1>6. \A j \in DOMAIN Entries(th) : Has(n[Len(n) - 1], Entries(th)[j].tvar)
  <2>1. \A j \in DOMAIN Entries(th) : j < loc[th].i
    BY <1>2, WorkFacts, LocFacts DEF AtEnd
  <2> QED
    BY <1>2, <1>3, <2>1 DEF MergeInv
<1>7. ASSUME NEW x \in TVar, NEW d \in DOMAIN n, Has(n[d], x)
      PROVE  \E d2 \in DOMAIN m : Has(m[d2], x)
  <2>1. CASE d # Len(n)
    <3>1. d \in 1..(Len(n) - 1)
      BY <1>4, <2>1
    <3> QED
      BY <1>5, <1>7, <3>1
  <2>2. CASE d = Len(n)
    <3>1. PICK j \in DOMAIN Entries(th) : Entries(th)[j].tvar = x
      BY <1>3, <1>7, <2>2 DEF Has, Entries, TRec
    <3>2. Len(n) - 1 \in 1..(Len(n) - 1)
      BY <1>1, <1>4
    <3> QED
      BY <1>5, <1>6, <3>1, <3>2
  <2> QED
    BY <2>1, <2>2
<1> QED
  BY <1>1, <1>7 DEF Touched

LEMMA ReadSetStep ==
    ASSUME TypeInv, PlaceInv, LockInv, scenario' = scenario, NEW th \in Thread,
           Quiet(th) \/ Step(th), MergeInv(th), pc(th) \in {"run", "merge"}, nest'[th] # <<>>
    PROVE  Touched(nest[th]) \subseteq Touched(nest'[th])
<1>1. CASE pc(th) = "run"
  <2>1. CASE Body(th)
    <3>1. CASE \E x \in TVar : ReadTVar(th, x)
      BY <3>1, ReadTVarStep
    <3>2. CASE pc(th) = "run" /\ \E w \in Writes[th][done[th] + 1] : WriteTVar(th, w[1], w[2])
      <4>1. PICK w \in Writes[th][done[th] + 1] : WriteTVar(th, w[1], w[2])
        BY <3>2
      <4>2. w[1] \in TVar /\ w[2] \in Val
        BY <3>2, WriteFacts
      <4> QED
        BY <4>1, <4>2, WriteTVarStep
    <3>3. CASE \E f \in {"first", "catch"} : StartNested(th, f)
      BY <3>3, StartNestedStep
    <3>4. CASE Retry(th) \/ Throw(th)
      BY <3>4, RetryStep, ThrowStep
    <3>5. CASE Return(th) \/ Yield(th)
      BY <3>5, ReturnStep, YieldStep
    <3>6. ~Atomically(th)
      BY <1>1 DEF Atomically
    <3> QED
      BY <2>1, <3>1, <3>2, <3>3, <3>4, <3>5, <3>6 DEF Body
  <2>2. CASE Wakeup(th)
    BY <2>2, WakeupStep
  <2>3. CASE ThrowToRunnable(th)
    BY <1>1, <2>3, ThrowToRunnableStep
  <2>4. ~Step(th) /\ ~Resume(th) /\ ~Unwatched(th) /\ ~ThrowToMasked(th) /\ ~ThrowToBlocked(th)
    BY <1>1 DEF Step, GetInvLock, GetInvUnlock, ValidateEntry, ReadVersion, Recheck, ValidateCondemned,
       Validated, Revert, Reverted, CheckReadOnly, Decide, Update, UnparkWaiter, UnparkTSO, BumpVersion,
       StoreValue, MergeEntry, NestedCommitted, Resume, UnwatchLock, UnwatchUnlock, Unwatched,
       ThrowToMasked, ThrowToBlocked
  <2> QED
    BY <2>1, <2>2, <2>3, <2>4 DEF Quiet
<1>2. CASE pc(th) = "merge"
  <2>1. CASE MergeEntry(th)
    BY <2>1, MergeEntryStep DEF Merges
  <2>2. CASE NestedCommitted(th)
    BY <2>2, NestedCommittedKeeps
  <2>3. ~Quiet(th)
    BY <1>2 DEF Quiet, Body, Atomically, ReadTVar, StartNested, Return, Retry, Throw, Yield, Resume,
       Unwatched, ThrowToMasked, Wakeup, ThrowToBlocked, ThrowToRunnable
  <2>4. Step(th) => MergeEntry(th) \/ NestedCommitted(th)
    BY <1>2 DEF Step, GetInvLock, GetInvUnlock, ValidateEntry, ReadVersion, Recheck, ValidateCondemned,
       Validated, Revert, Reverted, CheckReadOnly, Decide, Update, UnparkWaiter, UnparkTSO, BumpVersion,
       StoreValue, Resume, UnwatchLock, UnwatchUnlock, Unwatched, ThrowToMasked
  <2> QED
    BY <2>1, <2>2, <2>3, <2>4
<1> QED
  BY <1>1, <1>2

AllMerge == \A th \in Thread : MergeInv(th)

LEMMA NextStep ==
    ASSUME Next
    PROVE  scenario' = scenario /\ \E th \in Thread : Quiet(th) \/ Step(th)
  BY DEF Next, Quiet

LEMMA NextMerge == IndInv /\ AllMerge /\ [Next]_vars => AllMerge'
<1> SUFFICES ASSUME IndInv, AllMerge, [Next]_vars PROVE AllMerge'
  OBVIOUS
<1>1. CASE Next
  BY <1>1, NextStep, MergeStep DEF IndInv, AllMerge
<1>2. CASE UNCHANGED vars
  BY <1>2 DEF vars, AllMerge, MergeInv, pc, Entries, TRec
<1> QED
  BY <1>1, <1>2

(* What a branch has read stays in the read set of the attempt when the    *)
(* branch is given up for another, for a handler or for waiting, and when  *)
(* it commits into its parent (stmAbortTransaction,                        *)
(* stmCommitNestedTransaction), at any depth of nesting.                   *)
THEOREM ReadSetKeptCorrect == Spec => ReadSetKept
<1>1. Init => IndInv /\ AllMerge
  <2>1. Init => AllMerge
    BY DEF Init, AllMerge, MergeInv, pc, At
  <2> QED
    BY <2>1, InitInv
<1>2. IndInv /\ [Next]_vars => IndInv'
  BY NextInv
<1>3. IndInv /\ AllMerge /\ [Next]_vars => AllMerge'
  BY NextMerge
<1>4. IndInv /\ AllMerge /\ [Next]_vars =>
        [\A th \in Thread : pc(th) \in {"run", "merge"} /\ nest'[th] # <<>>
            => Touched(nest[th]) \subseteq Touched(nest'[th])]_vars
  <2> SUFFICES ASSUME IndInv, AllMerge, Next, NEW u \in Thread, pc(u) \in {"run", "merge"}, nest'[u] # <<>>
               PROVE  Touched(nest[u]) \subseteq Touched(nest'[u])
    OBVIOUS
  <2>1. PICK th \in Thread : Quiet(th) \/ Step(th)
    BY NextStep
  <2>2. scenario' = scenario /\ TypeInv /\ PlaceInv /\ LockInv /\ MergeInv(u)
    BY NextStep DEF IndInv, AllMerge
  <2>3. CASE u = th
    BY <2>1, <2>2, <2>3, ReadSetStep
  <2>4. CASE u # th
    <3>1. Sound(th)
      BY <2>1, <2>2, StepLock, QuietActions
    <3>2. nest'[u] = nest[u]
      BY <2>4, <3>1 DEF Sound, Others
    <3> QED
      BY <3>2
  <2> QED
    BY <2>3, <2>4
<1> QED
  BY <1>1, <1>2, <1>3, <1>4, PTL DEF Spec, ReadSetKept

-----------------------------------------------------------------------------
(***************************************************************************)
(* Snapshot isolation: what a committed transaction has read.              *)
(*                                                                         *)
(* The argument has two halves.  A version that has not moved since it was *)
(* noted says that the TVar still contains what it did then, unless its    *)
(* new value is just being stored (VersionInv).  And whatever a record has *)
(* read was in the heap at some time since the attempt began (ReadInv); at *)
(* the start of the last validation all of it had been read, and each      *)
(* entry that the validation comes past is there again (ValidInv), so that *)
(* without ABA the start is the instant that shows everything.             *)
(***************************************************************************)

-----------------------------------------------------------------------------
(* The invariants. *)

CommitType == [entries : Seq(EntryType), since : Nat \ {0}, at : Nat \ {0}]

HistInv ==
    /\ committed \in Seq(CommitType)
    /\ \A th \in Thread : since[th] <= Len(heaps)
    /\ \A n \in DOMAIN committed : committed[n].at <= Len(heaps)

(* e was right at some time from the heap lo to the heap hi of hs. *)
SeenIn(hs, e, lo, hi) == \E r \in lo..hi : Holds(hs[r], e)

ReadInv(th) ==
    \A d \in DOMAIN nest[th] : \A j \in DOMAIN nest[th][d].entries :
        SeenIn(heaps, nest[th][d].entries[j], since[th], Len(heaps))

Validating(th) == pc(th) \in {"validate", "readVersion", "recheck", "checkReads"}
Passed(th, j) == j < loc[th].i \/ pc(th) = "checkReads"

(* v: when the last validation began. *)
ValidSince(th, v) ==
    \A j \in DOMAIN Entries(th) :
        /\ SeenIn(heaps, Entries(th)[j], since[th], v)
        /\ Passed(th, j) => SeenIn(heaps, Entries(th)[j], v, Len(heaps))
ValidInv(th) ==
    Validating(th) /\ op(th) = "commit" => \E v \in since[th]..Len(heaps) : ValidSince(th, v)

(* Somebody has counted an update of x and has yet to store it. *)
Storing(x) == /\ current_value[x] \in Thread
              /\ pc(current_value[x]) = "store"
              /\ Cur(current_value[x]).tvar = x

(* The version n, noted for the value ex of x, is not from the future, and *)
(* while it is that of x, x contains ex.                                   *)
Version(x, ex, n) ==
    /\ n <= num_updates[x]
    /\ n = num_updates[x] => Content(x) = ex /\ ~Storing(x)

VersionInv(th) ==
    /\ pc(th) \in {"validate", "readVersion", "recheck"} /\ op(th) \in {"commit", "commitNested"} =>
         \A j \in DOMAIN Entries(th) :
           j < loc[th].i /\ entry_is_read_only(Entries(th)[j]) =>
             Version(Entries(th)[j].tvar, Entries(th)[j].expected, Entries(th)[j].num)
    /\ pc(th) = "recheck" => Cur(th).num <= num_updates[Cur(th).tvar]
TornInv(th) ==
    pc(th) = "checkReads" =>
      \A x \in torn[th] : \E j \in DOMAIN Entries(th) :
          /\ j >= loc[th].i /\ Entries(th)[j].tvar = x /\ entry_is_read_only(Entries(th)[j])
          /\ Entries(th)[j].num < num_updates[x]

CommittedInv ==
    \A n \in DOMAIN committed :
        LET c == committed[n]
        IN  /\ \A m \in DOMAIN c.entries :
                  entry_is_update(c.entries[m]) => Holds(heaps[c.at], c.entries[m])
            /\ AlwaysNew => \E h \in c.since..c.at : Sees(c, heaps[h])

SnapInv ==
    /\ HistInv /\ CommittedInv
    /\ \A th \in Thread : ReadInv(th) /\ ValidInv(th) /\ VersionInv(th) /\ TornInv(th)

-----------------------------------------------------------------------------
(* What a TVar contains. *)

(* A transaction that has decided to commit holds x. *)
Updating(x) == current_value[x] \in Thread /\ Committing(current_value[x])

LEMMA ContentHeld ==
    ASSUME TypeInv, PlaceInv, NEW th \in Thread, pc(th) # "idle",
           pc(th) \notin {"getInvUnlock", "unwatchUnlock"}, NEW j \in DOMAIN Entries(th),
           current_value[Entries(th)[j].tvar] = th
    PROVE  Content(Entries(th)[j].tvar) = Entries(th)[j].expected
<1> DEFINE x == Entries(th)[j].tvar
<1>1. Distinct(Entries(th)) /\ Entries(th) = TRec(th).entries
  BY WorkFacts DEF Entries
<1>2. IndexOf(TRec(th), x) = j
  BY <1>1 DEF IndexOf, Distinct
<1> QED
  BY <1>1, <1>2 DEF Content

LEMMA ContentHeap ==
    ASSUME TypeInv, PlaceInv, LockInv, NEW x \in TVar, ~Updating(x)
    PROVE  Content(x) = Heap[x]
<1>0. HolderInv(x)
  BY DEF LockInv
<1>1. CASE current_value[x] \notin Thread
  BY <1>0, <1>1 DEF HolderInv, Content
<1>2. CASE current_value[x] \in Thread
  <2>1. PICK th \in Thread : current_value[x] = th
    BY <1>2
  <2>2. pc(th) # "idle" /\ ~Committing(th)
    BY <1>0, <2>1 DEF HolderInv, Updating
  <2>3. PICK j \in DOMAIN Entries(th) : Entries(th)[j].tvar = x /\ PutsBack(th, j) = Heap[x]
    BY <1>0, <2>1 DEF HolderInv
  <2>4. CASE pc(th) \in {"getInvUnlock", "unwatchUnlock"}
    BY <2>1, <2>2, <2>3, <2>4 DEF Content, PutsBack
  <2>5. CASE pc(th) \notin {"getInvUnlock", "unwatchUnlock"}
    <3>1. Content(x) = Entries(th)[j].expected
      BY <2>1, <2>2, <2>3, <2>5, ContentHeld
    <3> QED
      BY <2>2, <2>3, <2>5, <3>1 DEF PutsBack
  <2> QED
    BY <2>4, <2>5
<1> QED
  BY <1>1, <1>2

LEMMA ContentHeapNext ==
    ASSUME NEW x \in TVar
    PROVE  (TypeInv /\ PlaceInv /\ LockInv /\ ~Updating(x) => Content(x) = Heap[x])'
<1>1. TypeInv /\ PlaceInv /\ LockInv /\ ~Updating(x) => Content(x) = Heap[x]
  BY ContentHeap
<1> QED
  BY <1>1, PTL

LEMMA RestingFreeNext ==
    ASSUME NEW th \in Thread
    PROVE  (TypeInv /\ PlaceInv /\ LockInv /\ Resting(th) => Free(th))'
<1>1. TypeInv /\ PlaceInv /\ LockInv /\ Resting(th) => Free(th)
  BY RestingFree
<1> QED
  BY <1>1, PTL

LEMMA ContentHeldNext ==
    ASSUME NEW th \in Thread
    PROVE  (TypeInv /\ PlaceInv /\ pc(th) # "idle" /\ pc(th) \notin {"getInvUnlock", "unwatchUnlock"} =>
              \A j \in DOMAIN Entries(th) : current_value[Entries(th)[j].tvar] = th =>
                 Content(Entries(th)[j].tvar) = Entries(th)[j].expected)'
<1>1. TypeInv /\ PlaceInv /\ pc(th) # "idle" /\ pc(th) \notin {"getInvUnlock", "unwatchUnlock"} =>
              \A j \in DOMAIN Entries(th) : current_value[Entries(th)[j].tvar] = th =>
                 Content(Entries(th)[j].tvar) = Entries(th)[j].expected
  BY ContentHeld
<1> QED
  BY <1>1, PTL

-----------------------------------------------------------------------------
(* The steps, by what they do to versions and to the history. *)

(* The attempt of th goes on with what it has read, or begins. *)
Reading(th) ==
    \/ since'[th] = since[th] /\ Reads(th)
    \/ since'[th] = Len(heaps) /\ \A d \in DOMAIN nest'[th] : DOMAIN nest'[th][d].entries = {}

(* A step of a thread that has not decided to commit, and does not. *)
Calm(th) ==
    /\ ~Committing(th) /\ ~Committing(th)' /\ Reading(th)
    /\ UNCHANGED <<num_updates, heaps, committed>>

(* A step in the update loop. *)
Loops(th) ==
    /\ Committing(th) /\ Committing(th)' /\ Works(th) /\ Reading(th)
    /\ Entries(th)' = Entries(th) /\ UNCHANGED <<heaps, committed>>
    /\ \/ num_updates' = num_updates /\ current_value' = current_value /\ pc(th)' # "store"
       \/ /\ pc(th) = "bump" /\ current_value' = current_value /\ Cur(th)' = Cur(th)
          /\ num_updates' = [num_updates EXCEPT ![Cur(th).tvar] = num_updates[Cur(th).tvar] + 1]
       \/ /\ pc(th) = "store" /\ pc(th)' # "store" /\ num_updates' = num_updates
          /\ current_value' = [current_value EXCEPT ![Cur(th).tvar] = Cur(th).new]

LEMMA GoesReading ==
    ASSUME NEW th \in Thread, NEW p, NEW j, Goes(th, p, j)
    PROVE  /\ Reading(th) /\ Works(th) /\ Entries(th)' = Entries(th) /\ pc(th)' = p /\ loc'[th].i = j
           /\ op(th)' = op(th)
  BY DEF Goes, Reading, Works, pc, op

LEMMA GivesUpCalm ==
    ASSUME NEW th \in Thread, GivesUp(th), ~Committing(th)
    PROVE  Calm(th)
<1>1. Reading(th) /\ pc(th)' = "revert"
  BY GoesReading DEF GivesUp
<1> QED
  BY <1>1 DEF GivesUp, Looks, Calm, Committing

LEMMA GoesCalm ==
    ASSUME NEW th \in Thread, NEW p, NEW j, Goes(th, p, j), ~Committing(th),
           p \notin {"update", "unpark", "unparkLock", "bump", "store"},
           UNCHANGED <<num_updates, heaps, committed>>
    PROVE  Calm(th)
<1>1. Reading(th) /\ pc(th)' = p
  BY GoesReading
<1> QED
  BY <1>1 DEF Calm, Committing

LEMMA CalmSteps ==
    ASSUME TypeInv, PlaceInv, LockInv, scenario' = scenario, NEW th \in Thread,
           \/ GetInvLock(th) \/ GetInvUnlock(th) \/ ValidateEntry(th) \/ ReadVersion(th) \/ Recheck(th)
           \/ ValidateCondemned(th) \/ Validated(th) \/ Revert(th) \/ CheckReadOnly(th)
           \/ (Decide(th) /\ op(th) = "commitNested") \/ MergeEntry(th)
           \/ UnwatchLock(th) \/ UnwatchUnlock(th)
    PROVE  QuietStep(th) \/ Calm(th)
<1>0. EntryInv(th)
  BY DEF LockInv
<1>1. ~Committing(th)
  BY DEF Committing, GetInvLock, GetInvUnlock, ValidateEntry, ReadVersion, Recheck, ValidateCondemned,
     Validated, Revert, CheckReadOnly, Decide, MergeEntry, UnwatchLock, UnwatchUnlock
<1>2. CASE GetInvLock(th)
  <2>1. CASE \E j : GetsInv(th, j)
    BY <1>1, <2>1 DEF GetsInv, Calm, Reading, Committing, pc
  <2> QED
    BY <1>2, <2>1, GetInvLockStep
<1>3. CASE GetInvUnlock(th)
  <2>1. Goes(th, "getInvariants", loc[th].i + 1) /\ UNCHANGED <<num_updates, heaps, committed>>
    BY <1>0, <1>3, GetInvUnlockStep
  <2> QED
    BY <1>1, <2>1, GoesCalm
<1>4. CASE ValidateEntry(th)
  <2>1. \/ GivesUp(th)
        \/ \E p \in {"validate", "readVersion"} : \E j : Goes(th, p, j) /\ UNCHANGED <<num_updates, heaps, committed>>
    BY <1>4, ValidateEntryStep DEF ValidatesEntry, Looks
  <2> QED
    BY <1>1, <2>1, GivesUpCalm, GoesCalm
<1>5. CASE ReadVersion(th)
  <2>1. NotesVersion(th, loc[th].i, num_updates[Cur(th).tvar]) /\ Looks
    BY <1>0, <1>5, ReadVersionStep
  <2> QED
    BY <1>1, <2>1 DEF NotesVersion, Looks, Calm, Reading, Committing, pc
<1>6. CASE Recheck(th) \/ ValidateCondemned(th)
  <2>1. GivesUp(th) \/ \E j : Goes(th, "validate", j) /\ UNCHANGED <<num_updates, heaps, committed>>
    BY <1>6, RecheckStep, ValidateCondemnedStep DEF Looks
  <2> QED
    BY <1>1, <2>1, GivesUpCalm, GoesCalm
<1>7. CASE Validated(th)
  <2>1. Looks /\ (Goes(th, "checkReads", 1) \/
                  (loc'[th].pc = "revert" /\ Reads(th) /\ UNCHANGED <<since, torn>>))
    BY <1>7, ValidatedStep
  <2>2. CASE Goes(th, "checkReads", 1)
    BY <1>1, <2>1, <2>2, GoesCalm DEF Looks
  <2>3. CASE loc'[th].pc = "revert" /\ Reads(th) /\ UNCHANGED <<since, torn>>
    BY <1>1, <2>1, <2>3 DEF Looks, Calm, Reading, Committing, pc
  <2> QED
    BY <2>1, <2>2, <2>3
<1>8. CASE Revert(th)
  <2>1. \E j : Goes(th, "revert", j) /\ UNCHANGED <<num_updates, heaps, committed>>
    BY <1>8, RevertStep
  <2> QED
    BY <1>1, <2>1, GoesCalm
<1>9. CASE CheckReadOnly(th)
  <2>1. GivesUp(th) \/ \E j : Goes(th, "checkReads", j) /\ UNCHANGED <<num_updates, heaps, committed>>
    BY <1>9, CheckReadOnlyStep DEF Looks
  <2> QED
    BY <1>1, <2>1, GivesUpCalm, GoesCalm
<1>10. CASE Decide(th) /\ op(th) = "commitNested"
  <2>1. Goes(th, "merge", 1) /\ UNCHANGED <<num_updates, heaps, committed>>
    BY <1>10, DecideStep DEF Looks
  <2> QED
    BY <1>1, <2>1, GoesCalm
<1>11. CASE MergeEntry(th)
  BY <1>1, <1>11, MergeEntryStep DEF Merges, Calm, Reading, Committing, pc
<1>12. CASE UnwatchLock(th)
  <2>1. Goes(th, "unwatchUnlock", loc[th].i) /\ UNCHANGED <<num_updates, heaps, committed>>
    BY <1>12, UnwatchLockStep
  <2> QED
    BY <1>1, <2>1, GoesCalm
<1>13. CASE UnwatchUnlock(th)
  <2>1. Goes(th, "unwatch", loc[th].i + 1) /\ UNCHANGED <<num_updates, heaps, committed>>
    BY <1>0, <1>13, UnwatchUnlockStep
  <2> QED
    BY <1>1, <2>1, GoesCalm
<1> QED
  BY <1>2, <1>3, <1>4, <1>5, <1>6, <1>7, <1>8, <1>9, <1>10, <1>11, <1>12, <1>13

LEMMA LoopSteps ==
    ASSUME TypeInv, PlaceInv, LockInv, scenario' = scenario, NEW th \in Thread,
           \/ Update(th) \/ UnparkWaiter(th) \/ UnparkTSO(th) \/ BumpVersion(th) \/ StoreValue(th)
    PROVE  QuietStep(th) \/ Loops(th)
<1>0. EntryInv(th)
  BY DEF LockInv
<1>1. Committing(th)
  BY DEF Committing, Update, UnparkWaiter, UnparkTSO, BumpVersion, StoreValue
<1>2. ASSUME NEW p, NEW j, Goes(th, p, j), p \in {"update", "unpark", "unparkLock", "bump", "store"}
      PROVE  /\ Committing(th)' /\ Works(th) /\ Reading(th) /\ Entries(th)' = Entries(th) /\ pc(th)' = p
             /\ loc'[th].i = j
  BY <1>2, GoesReading DEF Committing
<1>3. CASE Update(th)
  <2>1. QuietStep(th) \/ \E j : Goes(th, "unpark", j) /\ Looks
    BY <1>3, UpdateStep
  <2>2. CASE \E j : Goes(th, "unpark", j) /\ Looks
    BY <1>1, <1>2, <2>2 DEF Loops, Looks
  <2> QED
    BY <2>1, <2>2
<1>4. CASE UnparkWaiter(th) \/ UnparkTSO(th)
  <2>1. Looks /\ \E p \in {"unpark", "unparkLock", "bump"} : Goes(th, p, loc[th].i)
    BY <1>4, UnparkWaiterStep, UnparkTSOStep
  <2> QED
    BY <1>1, <1>2, <2>1 DEF Loops, Looks
<1>5. CASE BumpVersion(th)
  <2>1. /\ pc(th) = "bump" /\ Goes(th, "store", loc[th].i)
        /\ num_updates' = [num_updates EXCEPT ![Cur(th).tvar] = num_updates[Cur(th).tvar] + 1]
        /\ UNCHANGED <<current_value, heaps, torn, committed>>
    BY <1>0, <1>5, BumpVersionStep
  <2>2. /\ Committing(th)' /\ Works(th) /\ Reading(th) /\ Entries(th)' = Entries(th) /\ loc'[th].i = loc[th].i
    BY <1>2, <2>1
  <2>3. Cur(th)' = Cur(th)
    BY <2>2 DEF Cur
  <2> QED
    BY <1>1, <2>1, <2>2, <2>3 DEF Loops
<1>6. CASE StoreValue(th)
  <2>1. /\ pc(th) = "store" /\ Goes(th, "update", loc[th].i + 1)
        /\ current_value' = [current_value EXCEPT ![Cur(th).tvar] = Cur(th).new]
        /\ UNCHANGED <<num_updates, heaps, torn, committed>>
    BY <1>0, <1>6, StoreValueStep
  <2>2. /\ Committing(th)' /\ Works(th) /\ Reading(th) /\ Entries(th)' = Entries(th) /\ pc(th)' = "update"
    BY <1>2, <2>1
  <2> QED
    BY <1>1, <2>1, <2>2 DEF Loops
<1> QED
  BY <1>3, <1>4, <1>5, <1>6

LEMMA Kinds ==
    ASSUME TypeInv, PlaceInv, LockInv, scenario' = scenario, NEW th \in Thread, Quiet(th) \/ Step(th)
    PROVE  /\ Sound(th) /\ LockSound(th)
           /\ QuietStep(th) \/ Calm(th) \/ Loops(th) \/ (Decide(th) /\ op(th) = "commit")
<1>1. Sound(th) /\ LockSound(th)
  BY StepLock, QuietActionsLock
<1>2. CASE Quiet(th) \/ Reverted(th) \/ NestedCommitted(th)
  BY <1>1, <1>2, QuietActions, RevertedStep, NestedCommittedStep
<1>3. Decide(th) => op(th) = "commit" \/ op(th) = "commitNested"
  BY DEF Decide
<1> QED
  BY <1>1, <1>2, <1>3, CalmSteps, LoopSteps DEF Step, Quiet

-----------------------------------------------------------------------------
(* A version that does not move. *)

(* Versions only grow, and a TVar whose version stays, and that is not     *)
(* just being stored, keeps its contents.                                  *)
VersionKept(x) ==
    /\ num_updates[x] <= num_updates'[x]
    /\ num_updates'[x] = num_updates[x] /\ ~Storing(x) => Content(x)' = Content(x) /\ ~Storing(x)'

(* The TVars that belong to other threads. *)
LEMMA KeptOther ==
    ASSUME NEW th \in Thread, NEW u \in Thread \ {th}, NEW x \in TVar,
           Sound(th), current_value[x] = u, current_value'[x] = u
    PROVE  Content(x)' = Content(x) /\ (Storing(x)' <=> Storing(x))
<1>1. loc'[u] = loc[u] /\ nest'[u] = nest[u]
  BY DEF Sound, Others
<1>2. pc(u)' = pc(u) /\ Cur(u)' = Cur(u) /\ TRec(u)' = TRec(u)
  BY <1>1 DEF pc, Cur, Entries, TRec
<1>3. Content(x)' = Content(x)
  BY <1>1, <1>2 DEF Content
<1>4. Storing(x)' <=> Storing(x)
  BY <1>2 DEF Storing
<1> QED
  BY <1>3, <1>4

(* Nobody updates x before or after the step. *)
LEMMA KeptHeap ==
    ASSUME TypeInv, PlaceInv, LockInv, TypeInv', PlaceInv', LockInv', NEW x \in TVar,
           ~Updating(x), ~Updating(x)', Heap'[x] = Heap[x]
    PROVE  Content(x)' = Content(x) /\ ~Storing(x)'
<1>1. Content(x) = Heap[x]
  BY ContentHeap
<1>2. Content(x)' = Heap'[x]
  BY ContentHeapNext
<1>3. ~Storing(x)'
  BY DEF Storing, Updating, Committing
<1> QED
  BY <1>1, <1>2, <1>3

(* th holds x before and after the step. *)
LEMMA KeptOwn ==
    ASSUME TypeInv, PlaceInv, LockInv, TypeInv', PlaceInv', NEW th \in Thread, NEW x \in TVar,
           current_value[x] = th, current_value'[x] = th, Entries(th)' = Entries(th),
           pc(th)' # "idle", pc(th) \notin {"getInvUnlock", "unwatchUnlock"},
           pc(th)' \notin {"getInvUnlock", "unwatchUnlock"}
    PROVE  Content(x)' = Content(x)
<1>1. HolderInv(x)
  BY DEF LockInv
<1>2. pc(th) # "idle"
  BY <1>1 DEF HolderInv
<1>3. PICK j \in DOMAIN Entries(th) : Entries(th)[j].tvar = x
  BY <1>1 DEF HolderInv
<1>4. Content(x) = Entries(th)[j].expected
  BY <1>2, <1>3, ContentHeld
<1>5. Content(x)' = Entries(th)[j].expected
  BY <1>3, ContentHeldNext
<1> QED
  BY <1>4, <1>5

LEMMA VersionsStep ==
    ASSUME TypeInv, PlaceInv, LockInv, scenario' = scenario, NEW th \in Thread, Quiet(th) \/ Step(th),
           NEW x \in TVar
    PROVE  VersionKept(x)
<1>1. /\ Sound(th) /\ LockSound(th)
      /\ QuietStep(th) \/ Calm(th) \/ Loops(th) \/ (Decide(th) /\ op(th) = "commit")
  BY Kinds
<1>2. TypeInv' /\ PlaceInv' /\ LockInv' /\ Touches(th) /\ HeapKept(th)
  BY <1>1 DEF Sound, LockSound
<1>3. num_updates[x] \in Nat
  BY DEF TypeInv
<1>4. \/ current_value'[x] = current_value[x]
      \/ current_value[x] \notin Thread /\ current_value'[x] = th
      \/ current_value[x] = th /\ current_value'[x] \notin Thread
  BY <1>2 DEF Touches
<1>5. ASSUME current_value[x] \in Thread \ {th} \/ current_value'[x] \in Thread \ {th}
      PROVE  Content(x)' = Content(x) /\ (Storing(x)' <=> Storing(x))
  <2>1. PICK u \in Thread \ {th} : current_value[x] = u /\ current_value'[x] = u
    BY <1>4, <1>5
  <2> QED
    BY <1>1, <2>1, KeptOther
<1>6. CASE QuietStep(th)
  <2>1. current_value' = current_value /\ num_updates' = num_updates /\ Heap' = Heap /\ Resting(th)'
    BY <1>6 DEF QuietStep, Heap
  <2>2. current_value[x] # th
    BY <1>2, <2>1, RestingFreeNext DEF Free
  <2>3. CASE current_value[x] \in Thread
    BY <1>3, <1>5, <2>1, <2>2, <2>3 DEF VersionKept
  <2>4. CASE current_value[x] \notin Thread
    <3>1. ~Updating(x) /\ ~Updating(x)'
      BY <2>1, <2>4 DEF Updating
    <3> QED
      BY <1>2, <1>3, <2>1, <3>1, KeptHeap DEF VersionKept
  <2> QED
    BY <2>3, <2>4
<1>7. CASE Calm(th)
  <2>1. num_updates' = num_updates /\ Heap' = Heap /\ ~Committing(th) /\ ~Committing(th)'
    BY <1>7 DEF Calm, Heap
  <2>2. CASE current_value[x] \in Thread \ {th} \/ current_value'[x] \in Thread \ {th}
    BY <1>3, <1>5, <2>1, <2>2 DEF VersionKept
  <2>3. CASE ~(current_value[x] \in Thread \ {th} \/ current_value'[x] \in Thread \ {th})
    <3>1. ~Updating(x) /\ ~Updating(x)'
      BY <2>1, <2>3 DEF Updating
    <3> QED
      BY <1>2, <1>3, <2>1, <3>1, KeptHeap DEF VersionKept
  <2> QED
    BY <2>2, <2>3
<1>8. CASE Loops(th)
  <2>1. /\ Committing(th) /\ Committing(th)' /\ Works(th) /\ Entries(th)' = Entries(th) /\ Heap' = Heap
    BY <1>8 DEF Loops, Heap
  <2>2. /\ pc(th)' # "idle" /\ pc(th) \notin {"getInvUnlock", "unwatchUnlock"}
        /\ pc(th)' \notin {"getInvUnlock", "unwatchUnlock"}
    BY <2>1 DEF Committing
  <2>3. num_updates'[x] = num_updates[x] \/ num_updates'[x] = num_updates[x] + 1
    BY <1>8 DEF Loops, TypeInv
  <2>4. num_updates[x] <= num_updates'[x]
    BY <1>3, <2>3
  <2>5. CASE current_value[x] \in Thread \ {th} \/ current_value'[x] \in Thread \ {th}
    BY <1>5, <2>4, <2>5 DEF VersionKept
  <2>6. CASE current_value[x] \notin Thread
    <3>1. current_value'[x] = current_value[x]
      <4>1. Cur(th).tvar = x /\ pc(th) = "store" => current_value[x] = th
        <5>1. EntryInv(th) /\ HeldInv(th)
          BY DEF LockInv
        <5> SUFFICES ASSUME Cur(th).tvar = x, pc(th) = "store" PROVE current_value[x] = th
          OBVIOUS
        <5>2. /\ loc[th].i \in DOMAIN Entries(th) /\ Cur(th) = Entries(th)[loc[th].i] /\ loc[th].i \in Nat
              /\ entry_is_update(Cur(th)) /\ pc(th) # "idle"
          BY <5>1, CurFacts DEF EntryInv
        <5>3. MustHold(th, loc[th].i)
          BY <2>1, <5>2 DEF MustHold, Locks
        <5> QED
          BY <5>1, <5>2, <5>3 DEF HeldInv
      <4>2. \A y \in TVar : y # Cur(th).tvar => current_value'[y] = current_value[y]
        BY <1>8 DEF Loops, TypeInv
      <4>3. pc(th) # "store" => current_value' = current_value
        BY <1>8 DEF Loops
      <4> QED
        BY <2>6, <4>1, <4>2, <4>3
    <3>2. ~Updating(x) /\ ~Updating(x)'
      BY <2>6, <3>1 DEF Updating
    <3> QED
      BY <1>2, <2>1, <2>4, <3>2, KeptHeap DEF VersionKept
  <2>7. CASE current_value[x] = th
    <3> SUFFICES ASSUME num_updates'[x] = num_updates[x], ~Storing(x)
                 PROVE  Content(x)' = Content(x) /\ ~Storing(x)'
      BY <2>4 DEF VersionKept
    <3>1. /\ ~(pc(th) = "store" /\ Cur(th).tvar = x)
          /\ ~(pc(th) = "bump" /\ Cur(th).tvar = x) \/ pc(th)' # "store"
      <4>1. ~(pc(th) = "store" /\ Cur(th).tvar = x)
        BY <2>7 DEF Storing
      <4>2. pc(th) = "bump" /\ Cur(th).tvar = x => num_updates'[x] = num_updates[x] + 1 \/ pc(th)' # "store"
        BY <1>8 DEF Loops, TypeInv
      <4>3. ~(pc(th) = "bump" /\ Cur(th).tvar = x) \/ pc(th)' # "store"
        BY <1>3, <4>2
      <4> QED
        BY <4>1, <4>3
    <3>2. current_value'[x] = th
      BY <1>8, <2>7, <3>1 DEF Loops, TypeInv
    <3>3. Content(x)' = Content(x)
      BY <1>2, <2>1, <2>2, <2>7, <3>2, KeptOwn
    <3>4. ~Storing(x)'
      BY <1>8, <3>1, <3>2 DEF Loops, Storing
    <3> QED
      BY <3>3, <3>4
  <2> QED
    BY <2>5, <2>6, <2>7
<1>9. CASE Decide(th) /\ op(th) = "commit"
  <2>1. /\ pc(th) = "checkReads" /\ current_value' = current_value /\ num_updates' = num_updates
        /\ Goes(th, "update", 1)
    BY <1>9, DecideStep
  <2>2. Entries(th)' = Entries(th) /\ pc(th)' = "update"
    BY <2>1, GoesReading
  <2>3. CASE current_value[x] \in Thread \ {th}
    BY <1>3, <1>5, <2>1, <2>3 DEF VersionKept
  <2>4. CASE current_value[x] = th
    <3>1. Content(x)' = Content(x)
      BY <1>2, <2>1, <2>2, <2>4, KeptOwn
    <3>2. ~Storing(x)'
      BY <2>1, <2>2, <2>4 DEF Storing
    <3> QED
      BY <1>3, <2>1, <3>1, <3>2 DEF VersionKept
  <2>5. CASE current_value[x] \notin Thread
    <3>1. ~Updating(x) /\ ~Updating(x)' /\ Heap'[x] = Heap[x]
      BY <1>2, <2>1, <2>5 DEF Updating, HeapKept
    <3> QED
      BY <1>2, <1>3, <2>1, <3>1, KeptHeap DEF VersionKept
  <2> QED
    BY <2>3, <2>4, <2>5
<1> QED
  BY <1>1, <1>6, <1>7, <1>8, <1>9

(* The noted version x, ex, n over a step. *)
LEMMA VersionOver ==
    ASSUME TypeInv, TypeInv', NEW x \in TVar, NEW ex, NEW n \in Nat, VersionKept(x)
    PROVE  /\ Version(x, ex, n) => Version(x, ex, n)'
           /\ n <= num_updates[x] => n <= num_updates'[x]
           /\ n < num_updates[x] => n < num_updates'[x]
<1>1. num_updates[x] \in Nat /\ num_updates'[x] \in Nat /\ num_updates[x] <= num_updates'[x]
  BY DEF TypeInv, VersionKept
<1>2. ASSUME Version(x, ex, n) PROVE Version(x, ex, n)'
  <2>1. n <= num_updates'[x]
    BY <1>1, <1>2 DEF Version
  <2>2. ASSUME n = num_updates'[x] PROVE Content(x)' = ex /\ ~Storing(x)'
    <3>1. num_updates'[x] = num_updates[x] /\ n = num_updates[x]
      BY <1>1, <1>2, <2>2 DEF Version
    <3> QED
      BY <1>2, <3>1 DEF Version, VersionKept
  <2> QED
    BY <2>1, <2>2 DEF Version
<1> QED
  BY <1>1, <1>2

(* The steps that lead into or along a validation. *)
LEMMA ToValidate ==
    ASSUME TypeInv, PlaceInv, LockInv, scenario' = scenario, NEW th \in Thread, Quiet(th) \/ Step(th)
    PROVE  \/ QuietStep(th) \/ ~Validating(th)'
           \/ ValidateEntry(th) \/ ReadVersion(th) \/ Recheck(th) \/ Validated(th) \/ CheckReadOnly(th)
<1>0. EntryInv(th)
  BY DEF LockInv
<1>1. Quiet(th) => QuietStep(th)
  BY QuietActions
<1>2. Reverted(th) \/ NestedCommitted(th) => QuietStep(th)
  BY RevertedStep, NestedCommittedStep
<1>3. Update(th) \/ UnparkWaiter(th) \/ UnparkTSO(th) \/ BumpVersion(th) \/ StoreValue(th) =>
        QuietStep(th) \/ ~Validating(th)'
  BY LoopSteps DEF Loops, Validating, Committing
<1>4. ASSUME NEW p, NEW j, Goes(th, p, j), p \notin {"validate", "readVersion", "recheck", "checkReads"}
      PROVE  ~Validating(th)'
  BY <1>4, GoesReading DEF Validating
<1>5. GetInvLock(th) => QuietStep(th) \/ ~Validating(th)'
  BY GetInvLockStep DEF GetsInv, Validating, pc
<1>6. GetInvUnlock(th) \/ UnwatchLock(th) \/ UnwatchUnlock(th) => ~Validating(th)'
  BY <1>0, <1>4, GetInvUnlockStep, UnwatchLockStep, UnwatchUnlockStep
<1>7. ValidateCondemned(th) => ~Validating(th)'
  BY <1>4, ValidateCondemnedStep DEF GivesUp
<1>8. Revert(th) => ~Validating(th)'
  BY <1>4, RevertStep
<1>9. Decide(th) => ~Validating(th)'
  BY <1>4, DecideStep
<1>10. MergeEntry(th) => ~Validating(th)'
  BY MergeEntryStep DEF Merges, Validating, pc
<1> QED
  BY <1>1, <1>2, <1>3, <1>5, <1>6, <1>7, <1>8, <1>9, <1>10 DEF Step, Quiet

LEMMA NextWork ==
    ASSUME NEW th \in Thread
    PROVE  (TypeInv /\ PlaceInv /\ pc(th) # "idle" =>
              \A j \in DOMAIN Entries(th) :
                 Entries(th)[j].tvar \in TVar /\ Entries(th)[j].expected \in Val /\ Entries(th)[j].num \in Nat)'
<1>1. TypeInv /\ PlaceInv /\ pc(th) # "idle" =>
              \A j \in DOMAIN Entries(th) :
                 Entries(th)[j].tvar \in TVar /\ Entries(th)[j].expected \in Val /\ Entries(th)[j].num \in Nat
  BY WorkFacts
<1> QED
  BY <1>1, PTL

(* The other threads, and a thread that stays where it is with its record. *)
LEMMA VersionStays ==
    ASSUME TypeInv, PlaceInv, LockInv, TypeInv', \A x \in TVar : VersionKept(x), NEW u \in Thread,
           loc'[u] = loc[u], nest'[u] = nest[u], torn'[u] = torn[u], VersionInv(u), TornInv(u)
    PROVE  VersionInv(u)' /\ TornInv(u)'
<1>1. pc(u)' = pc(u) /\ op(u)' = op(u) /\ Entries(u)' = Entries(u) /\ Cur(u)' = Cur(u)
  BY DEF pc, op, Entries, TRec, Cur
<1>2. CASE pc(u) \notin {"validate", "readVersion", "recheck", "checkReads"}
  BY <1>1, <1>2 DEF VersionInv, TornInv
<1>3. CASE pc(u) \in {"validate", "readVersion", "recheck", "checkReads"}
  <2>1. pc(u) # "idle"
    BY <1>3
  <2>2. \A j \in DOMAIN Entries(u) : /\ Entries(u)[j].tvar \in TVar /\ Entries(u)[j].num \in Nat
    BY <2>1, WorkFacts
  <2>3. ASSUME NEW j \in DOMAIN Entries(u), Version(Entries(u)[j].tvar, Entries(u)[j].expected, Entries(u)[j].num)
        PROVE  Version(Entries(u)[j].tvar, Entries(u)[j].expected, Entries(u)[j].num)'
    <3>1. PICK x, ex, n : x = Entries(u)[j].tvar /\ ex = Entries(u)[j].expected /\ n = Entries(u)[j].num
      OBVIOUS
    <3>2. x \in TVar /\ n \in Nat /\ Version(x, ex, n)
      BY <2>2, <2>3, <3>1
    <3>3. Version(x, ex, n)'
      BY <3>2, VersionOver
    <3>4. (x = Entries(u)[j].tvar /\ ex = Entries(u)[j].expected /\ n = Entries(u)[j].num)'
      BY <1>1, <3>1
    <3> QED
      BY <3>3, <3>4
  <2>4. CASE pc(u) \in {"validate", "readVersion", "recheck"}
    <3>1. VersionInv(u)'
      <4>1. ASSUME pc(u) = "recheck" PROVE (Cur(u).num <= num_updates[Cur(u).tvar])'
        <5>1. EntryInv(u)
          BY DEF LockInv
        <5>2. Cur(u).tvar \in TVar /\ Cur(u).num \in Nat
          BY <2>2, <4>1, <5>1, CurFacts
        <5>3. Cur(u).num <= num_updates[Cur(u).tvar]
          BY <4>1 DEF VersionInv
        <5>4. Cur(u).num <= num_updates'[Cur(u).tvar]
          BY <5>2, <5>3, VersionOver
        <5> QED
          BY <1>1, <5>4
      <4> QED
        BY <1>1, <2>3, <4>1 DEF VersionInv
    <3> QED
      BY <1>1, <2>4, <3>1 DEF TornInv
  <2>5. CASE pc(u) = "checkReads"
    BY <1>1, <2>2, <2>5, VersionOver DEF VersionInv, TornInv
  <2> QED
    BY <1>3, <2>4, <2>5
<1> QED
  BY <1>2, <1>3

(* The versions that th has noted, over its own step. *)
LEMMA VersionCarry ==
    ASSUME TypeInv, PlaceInv, TypeInv', \A x \in TVar : VersionKept(x), NEW th \in Thread,
           pc(th) \in {"validate", "readVersion", "recheck"}, op(th) \in {"commit", "commitNested"},
           VersionInv(th), SameBut(Entries(th), Entries(th)'), NEW j \in DOMAIN Entries(th),
           j < loc[th].i, Entries(th)'[j].num = Entries(th)[j].num, entry_is_read_only(Entries(th)[j])
    PROVE  Version(Entries(th)[j].tvar, Entries(th)[j].expected, Entries(th)[j].num)'
<1>0. pc(th) # "idle"
  OBVIOUS
<1>1. PICK x, ex, n : x = Entries(th)[j].tvar /\ ex = Entries(th)[j].expected /\ n = Entries(th)[j].num
  OBVIOUS
<1>2. x \in TVar /\ n \in Nat /\ Version(x, ex, n)
  BY <1>0, <1>1, WorkFacts DEF VersionInv
<1>3. Version(x, ex, n)'
  BY <1>2, VersionOver
<1>4. (x = Entries(th)[j].tvar /\ ex = Entries(th)[j].expected /\ n = Entries(th)[j].num)'
  BY <1>1 DEF SameBut
<1> QED
  BY <1>3, <1>4

LEMMA VersionValidateEntry ==
    ASSUME TypeInv, PlaceInv, LockInv, TypeInv', scenario' = scenario, \A x \in TVar : VersionKept(x),
           NEW th \in Thread, ValidateEntry(th), VersionInv(th)
    PROVE  VersionInv(th)' /\ TornInv(th)'
<1>0. PICK i : i = loc[th].i
  OBVIOUS
<1>1. pc(th) = "validate" /\ pc(th) # "idle" /\ i \in DOMAIN Entries(th) /\ ValidatesEntry(th)
  BY <1>0, ValidateEntryStep
<1>2. CASE GivesUp(th)
  <2>1. pc(th)' = "revert"
    BY <1>2, GoesReading DEF GivesUp
  <2> QED
    BY <2>1 DEF VersionInv, TornInv
<1>3. ASSUME NEW p \in {"validate", "readVersion"}, NEW k, Goes(th, p, k),
             k = i \/ (k = i + 1 /\ Locks(th, Entries(th)[i]))
      PROVE  VersionInv(th)' /\ TornInv(th)'
  <2>1. Entries(th)' = Entries(th) /\ pc(th)' = p /\ loc'[th].i = k /\ op(th)' = op(th)
    BY <1>3, GoesReading
  <2>2. i \in Nat /\ \A j \in DOMAIN Entries(th) : j \in Nat
    BY <1>1, WorkFacts
  <2>3. ASSUME op(th) \in {"commit", "commitNested"}, NEW j \in DOMAIN Entries(th), j < k,
               entry_is_read_only(Entries(th)[j])
        PROVE  Version(Entries(th)[j].tvar, Entries(th)[j].expected, Entries(th)[j].num)'
    <3>1. j # i \/ k = i
      BY <1>3, <2>3 DEF Locks, acquire_all, entry_is_read_only, entry_is_update
    <3>2. j < i
      BY <1>3, <2>2, <2>3, <3>1
    <3> QED
      BY <1>0, <1>1, <2>1, <2>3, <3>2, VersionCarry, SameButSelf
  <2>4. VersionInv(th)'
    BY <1>3, <2>1, <2>3 DEF VersionInv
  <2> QED
    BY <1>3, <2>1, <2>4 DEF TornInv
<1> QED
  BY <1>0, <1>1, <1>2, <1>3 DEF ValidatesEntry

LEMMA VersionReadVersion ==
    ASSUME TypeInv, PlaceInv, LockInv, TypeInv', scenario' = scenario, \A x \in TVar : VersionKept(x),
           NEW th \in Thread, ReadVersion(th), VersionInv(th)
    PROVE  VersionInv(th)' /\ TornInv(th)'
<1>0. EntryInv(th)
  BY DEF LockInv
<1>1. PICK i, v : i = loc[th].i /\ v = num_updates[Cur(th).tvar]
  OBVIOUS
<1>2. pc(th) = "readVersion" /\ pc(th) # "idle" /\ i \in DOMAIN Entries(th) /\ NotesVersion(th, i, v) /\ Looks
  BY <1>0, <1>1, ReadVersionStep
<1>3. /\ pc(th)' = "recheck" /\ loc'[th].i = i /\ SameBut(Entries(th), Entries(th)')
      /\ op(th)' = op(th) /\ num_updates' = num_updates /\ Entries(th)'[i].num = v
      /\ \A m \in DOMAIN Entries(th) : m # i => Entries(th)'[m].num = Entries(th)[m].num
  BY <1>2 DEF NotesVersion, pc, Looks, Works, op
<1>4. op(th) \in {"commit", "commitNested"} /\ Cur(th) = Entries(th)[i] /\ Cur(th).tvar \in TVar
  BY <1>0, <1>1, <1>2, CurFacts DEF PlaceInv, OpInv
<1>5. i \in Nat /\ v \in Nat /\ \A j \in DOMAIN Entries(th) : j \in Nat
  <2>1. DOMAIN Entries(th) = 1..Len(Entries(th)) /\ Len(Entries(th)) \in Nat
    BY <1>2, WorkFacts
  <2>2. num_updates[Cur(th).tvar] \in Nat
    BY <1>4 DEF TypeInv
  <2> QED
    BY <1>1, <1>2, <2>1, <2>2
<1>6. (Cur(th).num <= num_updates[Cur(th).tvar])'
  <2>1. Cur(th)' = Entries(th)'[i] /\ Entries(th)'[i].tvar = Entries(th)[i].tvar
    BY <1>2, <1>3 DEF Cur, SameBut
  <2> QED
    BY <1>1, <1>3, <1>4, <1>5, <2>1
<1>7. ASSUME NEW j \in DOMAIN Entries(th)', j < i, entry_is_read_only(Entries(th)'[j])
      PROVE  Version(Entries(th)[j].tvar, Entries(th)[j].expected, Entries(th)[j].num)'
  <2>1. j \in DOMAIN Entries(th) /\ j # i /\ entry_is_read_only(Entries(th)[j])
    BY <1>3, <1>5, <1>7 DEF SameBut, entry_is_read_only
  <2>2. Entries(th)'[j].num = Entries(th)[j].num
    BY <1>3, <2>1
  <2> QED
    BY <1>1, <1>2, <1>3, <1>4, <1>7, <2>1, <2>2, VersionCarry
<1> QED
  BY <1>3, <1>6, <1>7 DEF VersionInv, TornInv

LEMMA VersionRecheck ==
    ASSUME TypeInv, PlaceInv, LockInv, TypeInv', scenario' = scenario, \A x \in TVar : VersionKept(x),
           NEW th \in Thread, Recheck(th), VersionInv(th)
    PROVE  VersionInv(th)' /\ TornInv(th)'
<1>0. EntryInv(th)
  BY DEF LockInv
<1>1. PICK i : i = loc[th].i
  OBVIOUS
<1>2. /\ pc(th) = "recheck" /\ pc(th) # "idle"
      /\ \/ GivesUp(th)
         \/ Goes(th, "validate", i + 1) /\ Looks /\ current_value[Cur(th).tvar] = Cur(th).expected
  BY <1>1, RecheckStep
<1>3. CASE GivesUp(th)
  <2>1. pc(th)' = "revert"
    BY <1>3, GoesReading DEF GivesUp
  <2> QED
    BY <2>1 DEF VersionInv, TornInv
<1>4. CASE Goes(th, "validate", i + 1) /\ Looks /\ current_value[Cur(th).tvar] = Cur(th).expected
  <2>1. /\ Entries(th)' = Entries(th) /\ pc(th)' = "validate" /\ loc'[th].i = i + 1 /\ op(th)' = op(th)
        /\ num_updates' = num_updates /\ current_value' = current_value
    BY <1>4, GoesReading DEF Looks
  <2>2. /\ i \in DOMAIN Entries(th) /\ Cur(th) = Entries(th)[i] /\ op(th) \in {"commit", "commitNested"}
        /\ Cur(th).tvar \in TVar /\ Cur(th).expected \in Val
    BY <1>0, <1>1, <1>2, CurFacts DEF PlaceInv, OpInv
  <2>3. i \in Nat /\ \A j \in DOMAIN Entries(th) : j \in Nat
    BY <1>2, <2>2, WorkFacts
  <2>4. PICK x, ex, n : x = Cur(th).tvar /\ ex = Cur(th).expected /\ n = Cur(th).num
    OBVIOUS
  <2>5. Version(x, ex, n)'
    <3>1. n <= num_updates'[x] /\ current_value'[x] = ex /\ ex \notin Thread
      BY <1>2, <1>4, <2>1, <2>2, <2>4, ValFacts DEF VersionInv
    <3>2. Content(x)' = ex /\ ~Storing(x)'
      BY <3>1 DEF Content, Storing
    <3> QED
      BY <3>1, <3>2 DEF Version
  <2>6. ASSUME NEW j \in DOMAIN Entries(th), j < i + 1, entry_is_read_only(Entries(th)[j])
        PROVE  Version(Entries(th)[j].tvar, Entries(th)[j].expected, Entries(th)[j].num)'
    <3>1. CASE j = i
      <4>1. (x = Entries(th)[j].tvar /\ ex = Entries(th)[j].expected /\ n = Entries(th)[j].num)'
        BY <2>1, <2>2, <2>4, <3>1
      <4> QED
        BY <2>5, <4>1
    <3>2. CASE j # i
      <4>1. j < i /\ Entries(th)'[j].num = Entries(th)[j].num /\ SameBut(Entries(th), Entries(th)')
        BY <2>1, <2>3, <2>6, <3>2, SameButSelf
      <4> QED
        BY <1>1, <1>2, <2>2, <2>6, <4>1, VersionCarry
    <3> QED
      BY <3>1, <3>2
  <2> QED
    BY <2>1, <2>6 DEF VersionInv, TornInv
<1> QED
  BY <1>2, <1>3, <1>4

(* Validation succeeds: what is torn, has a version that has moved.        *)
LEMMA VersionValidated ==
    ASSUME TypeInv, PlaceInv, LockInv, TypeInv', scenario' = scenario, NEW th \in Thread,
           Validated(th), VersionInv(th)
    PROVE  VersionInv(th)' /\ TornInv(th)'
<1>1. /\ pc(th) = "validate" /\ pc(th) # "idle" /\ AtEnd(th) /\ Looks
      /\ \/ op(th) \in {"commit", "commitNested"} /\ Goes(th, "checkReads", 1) /\ torn'[th] = Torn(th)
         \/ loc'[th].pc = "revert"
  BY ValidatedStep
<1>2. CASE loc'[th].pc = "revert"
  BY <1>2 DEF VersionInv, TornInv, pc
<1>3. CASE op(th) \in {"commit", "commitNested"} /\ Goes(th, "checkReads", 1) /\ torn'[th] = Torn(th)
  <2>1. /\ Entries(th)' = Entries(th) /\ pc(th)' = "checkReads" /\ loc'[th].i = 1
        /\ num_updates' = num_updates
    BY <1>1, <1>3, GoesReading DEF Looks
  <2>2. ASSUME NEW x \in torn'[th]
        PROVE  \E j \in DOMAIN Entries(th)' :
                  /\ j >= loc'[th].i /\ Entries(th)'[j].tvar = x /\ entry_is_read_only(Entries(th)'[j])
                  /\ Entries(th)'[j].num < num_updates'[x]
    <3>1. PICK j \in DOMAIN Entries(th) : Entries(th)[j].tvar = x /\ Content(x) # Entries(th)[j].expected
      BY <1>3, <2>2 DEF Torn
    <3>2. j \in Nat /\ j >= 1 /\ j < loc[th].i /\ x \in TVar /\ Entries(th)[j].num \in Nat
      BY <1>1, <3>1, WorkFacts, LocFacts DEF AtEnd
    <3>3. entry_is_read_only(Entries(th)[j])
      <4> SUFFICES ASSUME entry_is_update(Entries(th)[j]) PROVE FALSE
        BY DEF entry_is_read_only, entry_is_update
      <4>1. MustHold(th, j)
        BY <1>1, <3>2 DEF MustHold, Locks
      <4>2. current_value[x] = th
        BY <1>1, <3>1, <4>1 DEF LockInv, HeldInv
      <4> QED
        BY <1>1, <3>1, <4>2, ContentHeld
    <3>4. Version(x, Entries(th)[j].expected, Entries(th)[j].num)
      BY <1>1, <1>3, <3>1, <3>2, <3>3 DEF VersionInv
    <3>5. Entries(th)[j].num < num_updates[x]
      <4>1. num_updates[x] \in Nat /\ Entries(th)[j].num <= num_updates[x] /\ Entries(th)[j].num # num_updates[x]
        BY <3>1, <3>2, <3>4 DEF Version, TypeInv
      <4> QED
        BY <3>2, <4>1
    <3> QED
      BY <2>1, <3>1, <3>2, <3>3, <3>5
  <2> QED
    BY <2>1, <2>2 DEF VersionInv, TornInv
<1> QED
  BY <1>1, <1>2, <1>3

(* check_read_only comes past no entry that is torn. *)
LEMMA VersionCheckReadOnly ==
    ASSUME TypeInv, PlaceInv, LockInv, TypeInv', scenario' = scenario, NEW th \in Thread,
           CheckReadOnly(th), TornInv(th)
    PROVE  VersionInv(th)' /\ TornInv(th)'
<1>1. /\ pc(th) = "checkReads" /\ pc(th) # "idle"
      /\ \/ GivesUp(th)
         \/ \E j \in DOMAIN Entries(th) :
                   /\ Goes(th, "checkReads", j + 1) /\ Looks /\ UNCHANGED torn
                   /\ \A m \in DOMAIN Entries(th) :
                        loc[th].i <= m /\ m <= j /\ entry_is_read_only(Entries(th)[m]) => m = j
                   /\ num_updates[Entries(th)[j].tvar] = Entries(th)[j].num
  BY CheckReadOnlyStep
<1>2. CASE GivesUp(th)
  <2>1. pc(th)' = "revert"
    BY <1>2, GoesReading DEF GivesUp
  <2> QED
    BY <2>1 DEF VersionInv, TornInv
<1>3. CASE ~GivesUp(th)
  <2>1. PICK j \in DOMAIN Entries(th) :
                   /\ Goes(th, "checkReads", j + 1) /\ Looks /\ UNCHANGED torn
                   /\ \A m \in DOMAIN Entries(th) :
                        loc[th].i <= m /\ m <= j /\ entry_is_read_only(Entries(th)[m]) => m = j
                   /\ num_updates[Entries(th)[j].tvar] = Entries(th)[j].num
    BY <1>1, <1>3
  <2>2. /\ Entries(th)' = Entries(th) /\ pc(th)' = "checkReads" /\ loc'[th].i = j + 1
        /\ num_updates' = num_updates /\ torn' = torn
    BY <2>1, GoesReading DEF Looks
  <2>3. ASSUME NEW x \in torn[th]
        PROVE  \E m \in DOMAIN Entries(th) :
                  /\ m >= j + 1 /\ Entries(th)[m].tvar = x /\ entry_is_read_only(Entries(th)[m])
                  /\ Entries(th)[m].num < num_updates[x]
    <3>1. PICK m \in DOMAIN Entries(th) :
                  /\ m >= loc[th].i /\ Entries(th)[m].tvar = x /\ entry_is_read_only(Entries(th)[m])
                  /\ Entries(th)[m].num < num_updates[x]
      BY <1>1, <2>3 DEF TornInv
    <3>2. m \in Nat /\ j \in Nat /\ loc[th].i \in Nat /\ Entries(th)[m].num \in Nat /\ x \in TVar
          /\ num_updates[x] \in Nat
      <4>1. DOMAIN Entries(th) = 1..Len(Entries(th)) /\ Len(Entries(th)) \in Nat
            /\ x \in TVar /\ Entries(th)[m].num \in Nat /\ loc[th].i \in Nat
        BY <1>1, <3>1, WorkFacts, LocFacts
      <4>2. num_updates[x] \in Nat
        BY <4>1 DEF TypeInv
      <4> QED
        BY <4>1, <4>2
    <3>3. m # j
      BY <2>1, <3>1, <3>2
    <3>4. loc[th].i <= m /\ m <= j => m = j
      BY <2>1, <3>1
    <3>5. m >= j + 1
      BY <3>1, <3>2, <3>3, <3>4
    <3> QED
      BY <3>1, <3>5
  <2> QED
    BY <2>2, <2>3 DEF VersionInv, TornInv
<1> QED
  BY <1>2, <1>3

LEMMA VersionStep ==
    ASSUME TypeInv, PlaceInv, LockInv, scenario' = scenario, NEW th \in Thread, Quiet(th) \/ Step(th),
           \A u \in Thread : VersionInv(u) /\ TornInv(u)
    PROVE  \A u \in Thread : VersionInv(u)' /\ TornInv(u)'
<1>1. Sound(th) /\ TypeInv' /\ PlaceInv' /\ \A x \in TVar : VersionKept(x)
  BY Kinds, VersionsStep DEF Sound
<1>2. ASSUME NEW u \in Thread, u # th PROVE VersionInv(u)' /\ TornInv(u)'
  <2>1. loc'[u] = loc[u] /\ nest'[u] = nest[u] /\ torn'[u] = torn[u]
    BY <1>1, <1>2 DEF Sound, Others
  <2> QED
    BY <1>1, <2>1, VersionStays
<1>3. VersionInv(th)' /\ TornInv(th)'
  <2>1. CASE QuietStep(th)
    <3>1. Resting(th)'
      BY <2>1 DEF QuietStep
    <3>2. pc(th)' \notin {"readVersion", "recheck", "checkReads"} /\ (pc(th)' = "validate" => loc'[th].i = 1)
      BY <3>1 DEF Resting
    <3>3. pc(th)' = "validate" => \A j \in DOMAIN Entries(th)' : ~(j < loc'[th].i)
      BY <1>1, <3>2, NextFacts
    <3> QED
      BY <3>2, <3>3 DEF VersionInv, TornInv
  <2>2. CASE ~Validating(th)'
    BY <2>2 DEF Validating, VersionInv, TornInv
  <2> QED
    BY <1>1, <2>1, <2>2, ToValidate, VersionValidateEntry, VersionReadVersion, VersionRecheck,
       VersionValidated, VersionCheckReadOnly
<1> QED
  BY <1>2, <1>3

-----------------------------------------------------------------------------
(* What has been read. *)

(* The history of the heap only grows. *)
Grows ==
    /\ Len(heaps) \in Nat \ {0} /\ Len(heaps') \in Nat \ {0} /\ Len(heaps) <= Len(heaps')
    /\ DOMAIN heaps = 1..Len(heaps) /\ DOMAIN heaps' = 1..Len(heaps')
    /\ \A r \in 1..Len(heaps) : heaps'[r] = heaps[r]

LEMMA HeapsFacts ==
    ASSUME TypeInv
    PROVE  Len(heaps) \in Nat \ {0} /\ DOMAIN heaps = 1..Len(heaps) /\ Heap = heaps[Len(heaps)]
<1>1. heaps \in Seq([TVar -> Val]) /\ heaps # <<>>
  BY DEF TypeInv
<1> QED
  BY <1>1 DEF Heap, Last

LEMMA HistoryStep ==
    ASSUME TypeInv, PlaceInv, LockInv, scenario' = scenario, NEW th \in Thread, Quiet(th) \/ Step(th)
    PROVE  /\ Sound(th) /\ LockSound(th) /\ Reading(th) /\ Grows
           /\ (heaps' = heaps /\ committed' = committed) \/ (Decide(th) /\ op(th) = "commit")
<1>1. /\ Sound(th) /\ LockSound(th)
      /\ QuietStep(th) \/ Calm(th) \/ Loops(th) \/ (Decide(th) /\ op(th) = "commit")
  BY Kinds
<1>2. Reading(th)
  <2>1. CASE Decide(th) /\ op(th) = "commit"
    <3>1. Goes(th, "update", 1)
      BY <2>1, DecideStep
    <3> QED
      BY <3>1, GoesReading
  <2> QED
    BY <1>1, <2>1 DEF QuietStep, Calm, Loops, Reading
<1>3. (heaps' = heaps /\ committed' = committed) \/ (Decide(th) /\ op(th) = "commit")
  BY <1>1 DEF QuietStep, Calm, Loops
<1>4. Grows
  <2>1. heaps \in Seq([TVar -> Val]) /\ heaps # <<>>
    BY DEF TypeInv
  <2>2. CASE heaps' = heaps
    BY <2>1, <2>2 DEF Grows
  <2>3. CASE Decide(th) /\ op(th) = "commit"
    <3>1. PICK h, c : Commits(th, h, c) /\ heaps' = Append(heaps, h)
      BY <2>3, DecideStep
    <3>2. h \in [TVar -> Val]
      BY <3>1 DEF Commits
    <3> QED
      BY <2>1, <3>1, <3>2 DEF Grows
  <2> QED
    BY <1>3, <2>2, <2>3
<1> QED
  BY <1>1, <1>2, <1>3, <1>4

LEMMA SeenGrows ==
    ASSUME Grows, NEW e, NEW f, f.tvar = e.tvar, f.expected = e.expected,
           NEW lo \in Nat \ {0}, NEW hi \in Nat, hi <= Len(heaps), NEW top \in Nat, hi <= top,
           SeenIn(heaps, e, lo, hi)
    PROVE  SeenIn(heaps', f, lo, top)
<1>1. PICK r \in lo..hi : Holds(heaps[r], e)
  BY DEF SeenIn
<1>2. r \in 1..Len(heaps) /\ r \in lo..top
  BY <1>1 DEF Grows
<1>3. heaps'[r] = heaps[r]
  BY <1>2 DEF Grows
<1>4. Holds(heaps'[r], f)
  BY <1>1, <1>3 DEF Holds
<1> QED
  BY <1>2, <1>4 DEF SeenIn

(* What is in a TVar that nobody has locked, is in the heap. *)
LEMMA SeenNow ==
    ASSUME TypeInv, LockInv, NEW e, e.tvar \in TVar, e.expected \in Val, current_value[e.tvar] = e.expected,
           NEW lo \in Nat, lo <= Len(heaps)
    PROVE  SeenIn(heaps, e, lo, Len(heaps))
<1>1. current_value[e.tvar] \notin Thread
  BY ValFacts
<1>2. current_value[e.tvar] = Heap[e.tvar]
  BY <1>1 DEF LockInv, HolderInv
<1>3. Len(heaps) \in Nat /\ Heap = heaps[Len(heaps)]
  BY HeapsFacts
<1>4. Holds(heaps[Len(heaps)], e)
  BY <1>2, <1>3 DEF Holds
<1>5. Len(heaps) \in lo..Len(heaps)
  BY <1>3
<1> QED
  BY <1>4, <1>5 DEF SeenIn

LEMMA HistStep ==
    ASSUME TypeInv, PlaceInv, LockInv, scenario' = scenario, NEW th \in Thread, Quiet(th) \/ Step(th),
           HistInv
    PROVE  HistInv'
<1>1. /\ Sound(th) /\ Reading(th) /\ Grows
      /\ (heaps' = heaps /\ committed' = committed) \/ (Decide(th) /\ op(th) = "commit")
  BY HistoryStep
<1>2. ASSUME NEW u \in Thread PROVE since'[u] <= Len(heaps')
  <2>1. since'[u] = since[u] \/ since'[u] = Len(heaps)
    BY <1>1 DEF Sound, Others, Reading
  <2>2. since[u] \in Nat /\ since[u] <= Len(heaps)
    BY DEF TypeInv, HistInv
  <2> QED
    BY <1>1, <2>1, <2>2 DEF Grows
<1>3. /\ committed' \in Seq(CommitType)
      /\ \A n \in DOMAIN committed' : committed'[n].at <= Len(heaps')
  <2>0. committed \in Seq(CommitType) /\ \A n \in DOMAIN committed : committed[n].at <= Len(heaps)
    BY DEF HistInv
  <2>1. CASE heaps' = heaps /\ committed' = committed
    BY <2>0, <2>1
  <2>2. CASE Decide(th) /\ op(th) = "commit"
    <3>1. PICK h, c : Commits(th, h, c) /\ committed' = Append(committed, c)
      BY <2>2, DecideStep
    <3>2. c \in CommitType /\ c.at = Len(heaps)
      BY <3>1 DEF Commits, CommitType
    <3>3. /\ committed' \in Seq(CommitType) /\ Len(committed) \in Nat
          /\ DOMAIN committed = 1..Len(committed) /\ DOMAIN committed' = 1..(Len(committed) + 1)
          /\ committed'[Len(committed) + 1] = c
          /\ \A n \in DOMAIN committed : committed'[n] = committed[n]
      BY <2>0, <3>1, <3>2
    <3>4. ASSUME NEW n \in DOMAIN committed' PROVE committed'[n].at <= Len(heaps')
      <4>1. CASE n = Len(committed) + 1
        BY <1>1, <3>2, <3>3, <4>1 DEF Grows
      <4>2. CASE n # Len(committed) + 1
        <5>1. n \in DOMAIN committed
          BY <3>3, <4>2
        <5>2. committed[n] \in CommitType
          BY <2>0, <5>1
        <5>3. committed[n].at \in Nat /\ committed[n].at <= Len(heaps)
          BY <2>0, <5>1, <5>2 DEF CommitType
        <5> QED
          BY <1>1, <3>3, <5>1, <5>3 DEF Grows
      <4> QED
        BY <4>1, <4>2
    <3> QED
      BY <3>3, <3>4
  <2> QED
    BY <1>1, <2>1, <2>2
<1> QED
  BY <1>2, <1>3 DEF HistInv

LEMMA NestTypes ==
    ASSUME NEW th \in Thread
    PROVE  (TypeInv =>
              /\ since[th] \in Nat \ {0}
              /\ \A d \in DOMAIN nest[th] : \A j \in DOMAIN nest[th][d].entries :
                   nest[th][d].entries[j].tvar \in TVar /\ nest[th][d].entries[j].expected \in Val)'
<1>1. ASSUME TypeInv
      PROVE  /\ since[th] \in Nat \ {0}
             /\ \A d \in DOMAIN nest[th] : \A j \in DOMAIN nest[th][d].entries :
                   nest[th][d].entries[j].tvar \in TVar /\ nest[th][d].entries[j].expected \in Val
  <2>1. since[th] \in Nat \ {0} /\ nest[th] \in Seq(TRecType)
    BY <1>1 DEF TypeInv
  <2>2. \A d \in DOMAIN nest[th] : nest[th][d] \in TRecType
    BY <2>1
  <2> QED
    BY <2>1, <2>2, TRecFacts
<1>2. TypeInv =>
              /\ since[th] \in Nat \ {0}
              /\ \A d \in DOMAIN nest[th] : \A j \in DOMAIN nest[th][d].entries :
                   nest[th][d].entries[j].tvar \in TVar /\ nest[th][d].entries[j].expected \in Val
  BY <1>1
<1> QED
  BY <1>2, PTL

LEMMA ReadStep ==
    ASSUME TypeInv, PlaceInv, LockInv, scenario' = scenario, NEW th \in Thread, Quiet(th) \/ Step(th),
           HistInv, NEW u \in Thread, ReadInv(u)
    PROVE  ReadInv(u)'
<1>1. Sound(th) /\ TypeInv' /\ Reading(th) /\ Grows
  BY HistoryStep DEF Sound
<1>2. since[u] \in Nat \ {0} /\ since[u] <= Len(heaps) /\ Len(heaps) \in Nat \ {0}
  BY HeapsFacts DEF TypeInv, HistInv
<1>3. Len(heaps) <= Len(heaps) /\ Len(heaps) <= Len(heaps') /\ Len(heaps') \in Nat
  BY <1>1, <1>2 DEF Grows
<1> SUFFICES ASSUME NEW d \in DOMAIN nest'[u], NEW j \in DOMAIN nest'[u][d].entries
             PROVE  SeenIn(heaps', nest'[u][d].entries[j], since'[u], Len(heaps'))
  BY DEF ReadInv
<1>4. PICK e : e = nest'[u][d].entries[j]
  OBVIOUS
<1>5. ASSUME NEW f, f.tvar = e.tvar, f.expected = e.expected, SeenIn(heaps, f, since[u], Len(heaps)),
             since'[u] = since[u]
      PROVE  SeenIn(heaps', nest'[u][d].entries[j], since'[u], Len(heaps'))
  BY <1>1, <1>2, <1>3, <1>4, <1>5, SeenGrows
<1>6. CASE u # th
  <2>1. nest'[u] = nest[u] /\ since'[u] = since[u]
    BY <1>1, <1>6 DEF Sound, Others
  <2>2. SeenIn(heaps, e, since[u], Len(heaps))
    BY <1>4, <2>1 DEF ReadInv
  <2> QED
    BY <1>5, <2>1, <2>2
<1>7. CASE u = th
  <2>1. since'[th] = since[th] /\ Reads(th)
    BY <1>1, <1>7 DEF Reading
  <2>2. \/ \E d2 \in DOMAIN nest[th] : From(e, nest[th][d2].entries)
        \/ current_value[e.tvar] = e.expected
    BY <1>4, <1>7, <2>1 DEF Reads
  <2>3. CASE \E d2 \in DOMAIN nest[th] : From(e, nest[th][d2].entries)
    <3>1. PICK d2 \in DOMAIN nest[th] : \E m \in DOMAIN nest[th][d2].entries :
             nest[th][d2].entries[m].tvar = e.tvar /\ nest[th][d2].entries[m].expected = e.expected
      BY <2>3 DEF From
    <3>2. PICK m \in DOMAIN nest[th][d2].entries :
             nest[th][d2].entries[m].tvar = e.tvar /\ nest[th][d2].entries[m].expected = e.expected
      BY <3>1
    <3>3. SeenIn(heaps, nest[th][d2].entries[m], since[u], Len(heaps))
      BY <1>7 DEF ReadInv
    <3> QED
      BY <1>5, <1>7, <2>1, <3>2, <3>3
  <2>4. CASE current_value[e.tvar] = e.expected
    <3>1. e.tvar \in TVar /\ e.expected \in Val
      BY <1>1, <1>4, <1>7, NestTypes
    <3>2. SeenIn(heaps, e, since[u], Len(heaps))
      BY <1>2, <2>4, <3>1, SeenNow
    <3> QED
      BY <1>5, <1>7, <2>1, <3>2
  <2> QED
    BY <2>2, <2>3, <2>4
<1> QED
  BY <1>6, <1>7

-----------------------------------------------------------------------------
(* The last validation. *)

(* A step of a thread that is validating. *)
LEMMA ValidGoesOn ==
    ASSUME TypeInv, PlaceInv, LockInv, HistInv, NEW th \in Thread, Validating(th), op(th) = "commit",
           heaps' = heaps, since'[th] = since[th], SameBut(Entries(th), Entries(th)'),
           \A j \in DOMAIN Entries(th) :
              Passed(th, j)' => \/ Passed(th, j)
                                \/ current_value[Entries(th)[j].tvar] = Entries(th)[j].expected,
           ValidInv(th)
    PROVE  ValidInv(th)'
<1>1. since[th] \in Nat \ {0} /\ since[th] <= Len(heaps) /\ Len(heaps) \in Nat \ {0}
      /\ DOMAIN heaps = 1..Len(heaps)
  BY HeapsFacts DEF TypeInv, HistInv
<1>2. Grows /\ pc(th) # "idle"
  BY <1>1 DEF Grows, Validating
<1>3. PICK v \in since[th]..Len(heaps) : ValidSince(th, v)
  BY DEF ValidInv
<1>4. v \in Nat /\ v <= Len(heaps) /\ v <= v /\ v \in Nat \ {0} /\ Len(heaps) <= Len(heaps)
  BY <1>1
<1>5. ASSUME NEW j \in DOMAIN Entries(th)
      PROVE  /\ SeenIn(heaps', Entries(th)'[j], since'[th], v)
             /\ Passed(th, j)' => SeenIn(heaps', Entries(th)'[j], v, Len(heaps'))
  <2>1. Entries(th)'[j].tvar = Entries(th)[j].tvar /\ Entries(th)'[j].expected = Entries(th)[j].expected
    BY DEF SameBut
  <2>2. SeenIn(heaps, Entries(th)[j], since[th], v)
    BY <1>3 DEF ValidSince
  <2>3. SeenIn(heaps', Entries(th)'[j], since[th], v)
    BY <1>1, <1>2, <1>4, <2>1, <2>2, SeenGrows
  <2>4. ASSUME Passed(th, j)' PROVE SeenIn(heaps, Entries(th)[j], v, Len(heaps))
    <3>1. CASE Passed(th, j)
      BY <1>3, <3>1 DEF ValidSince
    <3>2. CASE current_value[Entries(th)[j].tvar] = Entries(th)[j].expected
      <4>1. Entries(th)[j].tvar \in TVar /\ Entries(th)[j].expected \in Val
        BY <1>2, WorkFacts
      <4> QED
        BY <1>4, <3>2, <4>1, SeenNow
    <3> QED
      BY <2>4, <3>1, <3>2
  <2>5. ASSUME Passed(th, j)' PROVE SeenIn(heaps', Entries(th)'[j], v, Len(heaps'))
    <3>1. SeenIn(heaps, Entries(th)[j], v, Len(heaps))
      BY <2>4, <2>5
    <3> QED
      BY <1>1, <1>2, <1>4, <2>1, <3>1, SeenGrows
  <2> QED
    BY <2>3, <2>5
<1>6. ValidSince(th, v)'
  BY <1>5 DEF ValidSince, SameBut
<1> QED
  BY <1>3, <1>6 DEF ValidInv

(* The other threads. *)
LEMMA ValidStays ==
    ASSUME TypeInv, PlaceInv, HistInv, Grows, NEW u \in Thread,
           loc'[u] = loc[u], nest'[u] = nest[u], since'[u] = since[u], ValidInv(u)
    PROVE  ValidInv(u)'
<1>1. pc(u)' = pc(u) /\ op(u)' = op(u) /\ Entries(u)' = Entries(u)
  BY DEF pc, op, Entries, TRec
<1>2. since[u] \in Nat \ {0} /\ since[u] <= Len(heaps) /\ Len(heaps) \in Nat \ {0}
      /\ Len(heaps') \in Nat /\ Len(heaps) <= Len(heaps') /\ Len(heaps) <= Len(heaps)
  BY HeapsFacts DEF TypeInv, HistInv, Grows
<1> SUFFICES ASSUME Validating(u), op(u) = "commit" PROVE \E v \in since'[u]..Len(heaps') : ValidSince(u, v)'
  BY <1>1 DEF ValidInv, Validating
<1>3. PICK v \in since[u]..Len(heaps) : ValidSince(u, v)
  BY DEF ValidInv
<1>4. v \in Nat /\ v <= Len(heaps) /\ v <= v /\ v \in Nat \ {0} /\ v \in since'[u]..Len(heaps')
  BY <1>2
<1>5. ASSUME NEW j \in DOMAIN Entries(u)
      PROVE  /\ SeenIn(heaps', Entries(u)[j], since[u], v)
             /\ Passed(u, j)' => SeenIn(heaps', Entries(u)[j], v, Len(heaps'))
  <2>1. SeenIn(heaps, Entries(u)[j], since[u], v)
    BY <1>3 DEF ValidSince
  <2>2. SeenIn(heaps', Entries(u)[j], since[u], v)
    BY <1>2, <1>4, <2>1, SeenGrows
  <2>3. Passed(u, j)' => SeenIn(heaps, Entries(u)[j], v, Len(heaps))
    BY <1>1, <1>3 DEF ValidSince, Passed
  <2>4. SeenIn(heaps, Entries(u)[j], v, Len(heaps)) => SeenIn(heaps', Entries(u)[j], v, Len(heaps'))
    BY <1>2, <1>4, SeenGrows
  <2> QED
    BY <2>2, <2>3, <2>4
<1>6. ValidSince(u, v)'
  BY <1>1, <1>5 DEF ValidSince
<1> QED
  BY <1>4, <1>6

(* The validation begins: all of the record has been read. *)
LEMMA ValidBegins ==
    ASSUME NEW th \in Thread
    PROVE  (TypeInv /\ PlaceInv /\ HistInv /\ ReadInv(th) /\ Resting(th) => ValidInv(th))'
<1>1. ASSUME TypeInv, PlaceInv, HistInv, ReadInv(th), Resting(th) PROVE ValidInv(th)
  <2> SUFFICES ASSUME Validating(th) PROVE \E v \in since[th]..Len(heaps) : ValidSince(th, v)
    BY DEF ValidInv
  <2>1. pc(th) = "validate" /\ pc(th) # "idle" /\ loc[th].i = 1
    BY <1>1 DEF Resting, Validating
  <2>2. since[th] \in Nat \ {0} /\ since[th] <= Len(heaps) /\ Len(heaps) \in Nat \ {0}
    BY <1>1, HeapsFacts DEF TypeInv, HistInv
  <2>3. /\ loc[th].lvl \in DOMAIN nest[th] /\ Entries(th) = nest[th][loc[th].lvl].entries
        /\ DOMAIN Entries(th) = 1..Len(Entries(th)) /\ Len(Entries(th)) \in Nat
    BY <1>1, <2>1, ThreadFacts, WorkFacts DEF Entries, TRec
  <2>4. ASSUME NEW j \in DOMAIN Entries(th)
        PROVE  SeenIn(heaps, Entries(th)[j], since[th], Len(heaps)) /\ ~Passed(th, j)
    <3>1. SeenIn(heaps, Entries(th)[j], since[th], Len(heaps))
      BY <1>1, <2>3 DEF ReadInv
    <3>2. ~Passed(th, j)
      BY <2>1, <2>3 DEF Passed
    <3> QED
      BY <3>1, <3>2
  <2>5. ValidSince(th, Len(heaps))
    BY <2>4 DEF ValidSince
  <2>6. Len(heaps) \in since[th]..Len(heaps)
    BY <2>2
  <2> QED
    BY <2>5, <2>6
<1>2. TypeInv /\ PlaceInv /\ HistInv /\ ReadInv(th) /\ Resting(th) => ValidInv(th)
  BY <1>1
<1> QED
  BY <1>2, PTL

LEMMA ValidStep ==
    ASSUME TypeInv, PlaceInv, LockInv, scenario' = scenario, NEW th \in Thread, Quiet(th) \/ Step(th),
           HistInv, ReadInv(th), NEW u \in Thread, ValidInv(u)
    PROVE  ValidInv(u)'
<1>1. Sound(th) /\ TypeInv' /\ PlaceInv' /\ Grows /\ HistInv' /\ ReadInv(th)'
  BY HistoryStep, HistStep, ReadStep DEF Sound
<1>2. CASE u # th
  <2>1. loc'[u] = loc[u] /\ nest'[u] = nest[u] /\ since'[u] = since[u]
    BY <1>1, <1>2 DEF Sound, Others
  <2> QED
    BY <1>1, <2>1, ValidStays
<1>3. CASE u = th
  <2>0. EntryInv(th) /\ ValidInv(th)
    BY <1>3 DEF LockInv
  <2>1. CASE QuietStep(th)
    BY <1>1, <1>3, <2>1, ValidBegins DEF QuietStep
  <2>2. CASE ~Validating(th)' \/ op(th)' # "commit"
    BY <1>3, <2>2 DEF ValidInv
  <2>3. ASSUME NEW p, NEW k, Goes(th, p, k), heaps' = heaps, Validating(th),
               \A j \in DOMAIN Entries(th) :
                  j < k \/ p = "checkReads" =>
                     \/ Passed(th, j)
                     \/ current_value[Entries(th)[j].tvar] = Entries(th)[j].expected
        PROVE  ValidInv(th)'
    <3>1. /\ Entries(th)' = Entries(th) /\ pc(th)' = p /\ loc'[th].i = k /\ op(th)' = op(th)
          /\ since'[th] = since[th]
      BY <2>3, GoesReading DEF Goes
    <3>2. CASE op(th) # "commit"
      BY <3>1, <3>2 DEF ValidInv
    <3>3. CASE op(th) = "commit"
      <4>1. SameBut(Entries(th), Entries(th)')
        BY <3>1, SameButSelf
      <4>2. \A j \in DOMAIN Entries(th) :
               Passed(th, j)' => \/ Passed(th, j)
                                 \/ current_value[Entries(th)[j].tvar] = Entries(th)[j].expected
        BY <2>3, <3>1 DEF Passed
      <4> QED
        BY <2>0, <2>3, <3>1, <3>3, <4>1, <4>2, ValidGoesOn
    <3> QED
      BY <3>2, <3>3
  <2>4. ASSUME GivesUp(th) PROVE ValidInv(th)'
    <3>1. pc(th)' = "revert"
      BY <2>4, GoesReading DEF GivesUp
    <3> QED
      BY <3>1 DEF ValidInv, Validating
  <2>5. PICK i : i = loc[th].i
    OBVIOUS
  <2>6. i \in Nat /\ (pc(th) # "idle" => \A j \in DOMAIN Entries(th) : j \in Nat)
    BY <2>5, LocFacts, WorkFacts
  <2>7. ASSUME pc(th) \in {"validate", "readVersion", "recheck"}, NEW p \in {"validate", "readVersion"}, NEW k,
               Goes(th, p, k), heaps' = heaps,
               k = i \/ (k = i + 1 /\ current_value[Entries(th)[i].tvar] = Entries(th)[i].expected)
        PROVE  ValidInv(th)'
    <3>1. Validating(th) /\ pc(th) # "idle" /\ p # "checkReads"
      BY <2>7 DEF Validating
    <3>2. ASSUME NEW j \in DOMAIN Entries(th), j < k
          PROVE  Passed(th, j) \/ current_value[Entries(th)[j].tvar] = Entries(th)[j].expected
      <4>1. j < i \/ (j = i /\ k = i + 1 /\ k # i)
        BY <2>6, <2>7, <3>1, <3>2
      <4> QED
        BY <2>5, <2>7, <4>1 DEF Passed
    <3> QED
      BY <2>3, <2>7, <3>1, <3>2
  <2>8. CASE ValidateEntry(th)
    <3>1. pc(th) = "validate" /\ ValidatesEntry(th)
      BY <2>8, ValidateEntryStep
    <3>2. \/ GivesUp(th)
          \/ /\ Goes(th, "validate", i + 1) /\ heaps' = heaps
             /\ current_value[Entries(th)[i].tvar] = Entries(th)[i].expected
          \/ Goes(th, "readVersion", i) /\ heaps' = heaps
      BY <2>5, <3>1 DEF ValidatesEntry, Looks
    <3> QED
      BY <1>3, <2>4, <2>7, <3>1, <3>2
  <2>9. CASE ReadVersion(th)
    <3>1. pc(th) = "readVersion" /\ NotesVersion(th, i, num_updates[Cur(th).tvar]) /\ Looks
      BY <2>0, <2>5, <2>9, ReadVersionStep
    <3>2. /\ pc(th)' = "recheck" /\ loc'[th].i = i /\ SameBut(Entries(th), Entries(th)')
          /\ op(th)' = op(th) /\ heaps' = heaps /\ since'[th] = since[th]
      BY <3>1 DEF NotesVersion, pc, Looks, Works, op
    <3>3. CASE op(th) = "commit"
      <4>1. Validating(th) /\ \A j \in DOMAIN Entries(th) : Passed(th, j)' => Passed(th, j)
        BY <2>5, <3>1, <3>2 DEF Validating, Passed
      <4> QED
        BY <1>3, <2>0, <3>2, <3>3, <4>1, ValidGoesOn
    <3>4. CASE op(th) # "commit"
      BY <1>3, <3>2, <3>4 DEF ValidInv
    <3> QED
      BY <3>3, <3>4
  <2>10. CASE Recheck(th)
    <3>1. /\ pc(th) = "recheck"
          /\ \/ GivesUp(th)
             \/ /\ Goes(th, "validate", i + 1) /\ heaps' = heaps
                /\ current_value[Entries(th)[i].tvar] = Entries(th)[i].expected
      BY <2>5, <2>10, RecheckStep DEF Looks, Cur
    <3> QED
      BY <1>3, <2>4, <2>7, <3>1
  <2>11. CASE Validated(th)
    <3>1. /\ pc(th) = "validate" /\ AtEnd(th) /\ heaps' = heaps
          /\ Goes(th, "checkReads", 1) \/ loc'[th].pc = "revert"
      BY <2>11, ValidatedStep DEF Looks
    <3>2. CASE loc'[th].pc = "revert"
      BY <1>3, <3>2 DEF ValidInv, Validating, pc
    <3>3. CASE Goes(th, "checkReads", 1)
      <4>1. \A j \in DOMAIN Entries(th) : Passed(th, j)
        <5>1. DOMAIN Entries(th) = 1..Len(Entries(th)) /\ Len(Entries(th)) \in Nat /\ loc[th].i \in Nat
          BY <3>1, WorkFacts, LocFacts
        <5> QED
          BY <3>1, <5>1 DEF Passed, AtEnd
      <4>2. Validating(th)
        BY <3>1 DEF Validating
      <4> QED
        BY <1>3, <2>3, <3>1, <3>3, <4>1, <4>2
    <3> QED
      BY <3>1, <3>2, <3>3
  <2>12. CASE CheckReadOnly(th)
    <3>1. /\ pc(th) = "checkReads"
          /\ GivesUp(th) \/ \E j : Goes(th, "checkReads", j) /\ heaps' = heaps
      BY <2>12, CheckReadOnlyStep DEF Looks
    <3>2. Validating(th) /\ \A j \in DOMAIN Entries(th) : Passed(th, j)
      BY <3>1 DEF Validating, Passed
    <3> QED
      BY <1>3, <2>3, <2>4, <3>1, <3>2
  <2> QED
    BY <2>1, <2>2, <2>8, <2>9, <2>10, <2>11, <2>12, ToValidate
<1> QED
  BY <1>2, <1>3

-----------------------------------------------------------------------------
(* What has been committed. *)

(* Without ABA, what is right before and after v is right at v. *)
LEMMA NoABA ==
    ASSUME TypeInv, AlwaysNew, NEW e, e.tvar \in TVar, NEW lo \in Nat \ {0}, NEW v \in lo..Len(heaps),
           SeenIn(heaps, e, lo, v), SeenIn(heaps, e, v, Len(heaps))
    PROVE  Holds(heaps[v], e)
<1>1. PICK r \in lo..v : Holds(heaps[r], e)
  BY DEF SeenIn
<1>2. PICK q \in v..Len(heaps) : Holds(heaps[q], e)
  BY DEF SeenIn
<1>3. Len(heaps) \in Nat /\ DOMAIN heaps = 1..Len(heaps)
  BY HeapsFacts
<1>4. r \in DOMAIN heaps /\ q \in DOMAIN heaps /\ v \in r..q /\ (r < q \/ v = r)
  BY <1>3
<1>5. heaps[r][e.tvar] = e.expected /\ heaps[q][e.tvar] = e.expected
  BY <1>1, <1>2 DEF Holds
<1>6. heaps[v][e.tvar] = e.expected
  BY <1>4, <1>5 DEF AlwaysNew
<1> QED
  BY <1>6 DEF Holds

LEMMA AlwaysNewBefore ==
    ASSUME Grows, AlwaysNew' PROVE AlwaysNew
<1> SUFFICES ASSUME NEW x \in TVar, NEW h1 \in DOMAIN heaps, NEW h3 \in DOMAIN heaps, h1 < h3,
                    heaps[h1][x] = heaps[h3][x], NEW h2 \in h1..h3
             PROVE  heaps[h2][x] = heaps[h1][x]
  BY DEF AlwaysNew
<1>1. h2 \in DOMAIN heaps /\ h1 \in DOMAIN heaps' /\ h3 \in DOMAIN heaps'
  BY DEF Grows
<1>2. heaps'[h1] = heaps[h1] /\ heaps'[h2] = heaps[h2] /\ heaps'[h3] = heaps[h3]
  BY <1>1 DEF Grows
<1> QED
  BY <1>1, <1>2 DEF AlwaysNew

(* What CommittedInv says of the commit c. *)
Isolated(c) ==
    /\ \A m \in DOMAIN c.entries : entry_is_update(c.entries[m]) => Holds(heaps[c.at], c.entries[m])
    /\ AlwaysNew => \E h \in c.since..c.at : Sees(c, heaps[h])

LEMMA IsolatedStays ==
    ASSUME Grows, NEW c, c.since \in Nat \ {0}, c.at \in Nat \ {0}, c.at <= Len(heaps), Isolated(c)
    PROVE  Isolated(c)'
<1>1. \A h \in c.since..c.at : heaps'[h] = heaps[h]
  BY DEF Grows
<1>2. heaps'[c.at] = heaps[c.at]
  BY DEF Grows
<1>3. AlwaysNew' => \E h \in c.since..c.at : Sees(c, heaps'[h])
  BY <1>1, AlwaysNewBefore DEF Isolated
<1> QED
  BY <1>2, <1>3 DEF Isolated

(* The decision to commit. *)
LEMMA IsolatedDecide ==
    ASSUME TypeInv, PlaceInv, LockInv, HistInv, NEW th \in Thread, pc(th) = "checkReads", op(th) = "commit",
           ValidInv(th), NEW h, NEW c, Commits(th, h, c)
    PROVE  Isolated(c)
<1>0. pc(th) # "idle" /\ ~Committing(th) /\ Validating(th) /\ HeldInv(th)
  BY DEF Committing, Validating, LockInv
<1>1. /\ since[th] \in Nat \ {0} /\ since[th] <= Len(heaps) /\ Len(heaps) \in Nat \ {0}
      /\ Heap = heaps[Len(heaps)]
  BY HeapsFacts DEF TypeInv, HistInv
<1>2. c.since = since[th] /\ c.at = Len(heaps) /\ SameBut(Entries(th), c.entries)
  BY DEF Commits
<1>3. /\ DOMAIN c.entries = DOMAIN Entries(th)
      /\ \A m \in DOMAIN Entries(th) :
            /\ c.entries[m].tvar = Entries(th)[m].tvar /\ c.entries[m].expected = Entries(th)[m].expected
            /\ c.entries[m].new = Entries(th)[m].new
            /\ Entries(th)[m].tvar \in TVar
  BY <1>0, <1>2, WorkFacts DEF SameBut
<1>4. ASSUME NEW m \in DOMAIN c.entries, entry_is_update(c.entries[m])
      PROVE  Holds(heaps[c.at], c.entries[m])
  <2>1. m \in DOMAIN Entries(th) /\ entry_is_update(Entries(th)[m]) /\ Entries(th)[m].tvar \in TVar
    BY <1>3, <1>4 DEF entry_is_update, entry_is_read_only
  <2>2. MustHold(th, m)
    BY <2>1 DEF MustHold, Locks
  <2>3. current_value[Entries(th)[m].tvar] = th
    BY <1>0, <2>1, <2>2 DEF HeldInv
  <2>4. ~Updating(Entries(th)[m].tvar)
    BY <1>0, <2>3 DEF Updating
  <2>5. Content(Entries(th)[m].tvar) = Heap[Entries(th)[m].tvar]
    BY <2>1, <2>4, ContentHeap
  <2>6. Content(Entries(th)[m].tvar) = Entries(th)[m].expected
    BY <1>0, <2>1, <2>3, ContentHeld
  <2> QED
    BY <1>1, <1>2, <1>3, <2>1, <2>5, <2>6 DEF Holds
<1>5. ASSUME AlwaysNew PROVE \E g \in c.since..c.at : Sees(c, heaps[g])
  <2>1. PICK v \in since[th]..Len(heaps) : ValidSince(th, v)
    BY <1>0 DEF ValidInv
  <2>2. ASSUME NEW m \in DOMAIN Entries(th) PROVE Holds(heaps[v], Entries(th)[m])
    <3>1. SeenIn(heaps, Entries(th)[m], since[th], v) /\ SeenIn(heaps, Entries(th)[m], v, Len(heaps))
      BY <2>1 DEF ValidSince, Passed
    <3> QED
      BY <1>1, <1>3, <1>5, <3>1, NoABA
  <2>3. Sees(c, heaps[v])
    BY <1>3, <2>2 DEF Sees, Holds
  <2> QED
    BY <1>2, <2>3
<1> QED
  BY <1>4, <1>5 DEF Isolated

LEMMA CommittedStep ==
    ASSUME TypeInv, PlaceInv, LockInv, scenario' = scenario, NEW th \in Thread, Quiet(th) \/ Step(th),
           HistInv, ValidInv(th), CommittedInv
    PROVE  CommittedInv'
<1>1. /\ Grows
      /\ (heaps' = heaps /\ committed' = committed) \/ (Decide(th) /\ op(th) = "commit")
  BY HistoryStep
<1>2. committed \in Seq(CommitType)
  BY DEF HistInv
<1>3. ASSUME NEW n \in DOMAIN committed PROVE Isolated(committed[n])'
  <2>1. committed[n] \in CommitType
    BY <1>2
  <2>2. PICK c : c = committed[n]
    OBVIOUS
  <2>3. /\ c.since \in Nat \ {0} /\ c.at \in Nat \ {0} /\ c.at <= Len(heaps) /\ Isolated(c)
    BY <2>1, <2>2 DEF CommitType, HistInv, CommittedInv, Isolated
  <2>4. Isolated(c)'
    BY <1>1, <2>3, IsolatedStays
  <2>5. c = committed'[n]
    <3>1. CASE committed' = committed
      BY <2>2, <3>1
    <3>2. CASE Decide(th) /\ op(th) = "commit"
      <4>1. PICK h, b : Commits(th, h, b) /\ committed' = Append(committed, b)
        BY <3>2, DecideStep
      <4>2. b \in CommitType
        BY <4>1 DEF Commits, CommitType
      <4> QED
        BY <1>2, <2>2, <4>1, <4>2
    <3> QED
      BY <1>1, <3>1, <3>2
  <2> QED
    BY <2>4, <2>5
<1>4. ASSUME NEW n \in DOMAIN committed', n \notin DOMAIN committed PROVE Isolated(committed[n])'
  <2>1. Decide(th) /\ op(th) = "commit"
    BY <1>1, <1>4
  <2>2. PICK h, c : Commits(th, h, c) /\ committed' = Append(committed, c)
    BY <2>1, DecideStep
  <2>3. c \in CommitType /\ c.at = Len(heaps)
    BY <2>2 DEF Commits, CommitType
  <2>4. c.since \in Nat \ {0} /\ c.at \in Nat \ {0} /\ c.at <= Len(heaps)
    BY <2>3, HeapsFacts DEF CommitType
  <2>5. Isolated(c)
    <3>1. pc(th) = "checkReads"
      BY <2>1 DEF Decide
    <3> QED
      BY <2>1, <2>2, <3>1, IsolatedDecide
  <2>6. Isolated(c)'
    BY <1>1, <2>4, <2>5, IsolatedStays
  <2>7. c = committed'[n]
    BY <1>2, <1>4, <2>2, <2>3
  <2> QED
    BY <2>6, <2>7
<1> QED
  BY <1>3, <1>4 DEF CommittedInv, Isolated

-----------------------------------------------------------------------------
(* The theorem. *)

LEMMA InitSnap == Init => SnapInv
<1> SUFFICES ASSUME Init PROVE SnapInv
  OBVIOUS
<1>1. /\ committed = <<>> /\ heaps = <<[x \in TVar |-> InitVal]>> /\ since = [th \in Thread |-> 1]
      /\ nest = [th \in Thread |-> <<>>]
  BY DEF Init
<1>2. HistInv /\ CommittedInv
  BY <1>1 DEF HistInv, CommittedInv
<1>3. ASSUME NEW th \in Thread PROVE ReadInv(th) /\ ValidInv(th) /\ VersionInv(th) /\ TornInv(th)
  <2>1. pc(th) = "idle"
    BY DEF Init, pc, At
  <2> QED
    BY <1>1, <2>1 DEF ReadInv, ValidInv, Validating, VersionInv, TornInv
<1> QED
  BY <1>2, <1>3 DEF SnapInv

LEMMA NextSnap == IndInv /\ SnapInv /\ [Next]_vars => SnapInv'
<1> SUFFICES ASSUME IndInv, SnapInv, [Next]_vars PROVE SnapInv'
  OBVIOUS
<1>0. /\ TypeInv /\ PlaceInv /\ LockInv /\ HistInv /\ CommittedInv
      /\ \A th \in Thread : ReadInv(th) /\ ValidInv(th) /\ VersionInv(th) /\ TornInv(th)
  BY DEF IndInv, SnapInv
<1>1. CASE Next
  <2>1. scenario' = scenario
    BY <1>1, NextStep
  <2>2. PICK th \in Thread : Quiet(th) \/ Step(th)
    BY <1>1, NextStep
  <2>3. HistInv' /\ CommittedInv'
    BY <1>0, <2>1, <2>2, HistStep, CommittedStep
  <2>4. \A u \in Thread : ReadInv(u)' /\ ValidInv(u)'
    BY <1>0, <2>1, <2>2, ReadStep, ValidStep
  <2>5. \A u \in Thread : VersionInv(u)' /\ TornInv(u)'
    BY <1>0, <2>1, <2>2, VersionStep
  <2> QED
    BY <2>3, <2>4, <2>5 DEF SnapInv
<1>2. CASE UNCHANGED vars
  <2>1. /\ loc' = loc /\ nest' = nest /\ current_value' = current_value /\ num_updates' = num_updates
        /\ heaps' = heaps /\ since' = since /\ torn' = torn /\ committed' = committed
    BY <1>2 DEF vars
  <2>2. ASSUME NEW u \in Thread PROVE pc(u)' = pc(u) /\ op(u)' = op(u) /\ Entries(u)' = Entries(u)
                                      /\ Cur(u)' = Cur(u) /\ TRec(u)' = TRec(u)
    BY <2>1 DEF pc, op, Entries, TRec, Cur
  <2>3. HistInv' /\ CommittedInv'
    BY <1>0, <2>1 DEF HistInv, CommittedInv, AlwaysNew
  <2>4. ASSUME NEW u \in Thread PROVE ReadInv(u)' /\ ValidInv(u)'
    BY <1>0, <2>1, <2>2 DEF ReadInv, ValidInv, ValidSince, Validating, Passed
  <2>5. ASSUME NEW u \in Thread PROVE VersionInv(u)' /\ TornInv(u)'
    <3>1. \A x \in TVar : VersionKept(x)
      <4> TAKE x \in TVar
      <4>1. Content(x)' = Content(x) /\ (Storing(x)' <=> Storing(x))
        BY <2>1 DEF Content, Storing, pc, Cur, Entries, TRec
      <4>2. num_updates[x] \in Nat
        BY <1>0 DEF TypeInv
      <4> QED
        BY <2>1, <4>1, <4>2 DEF VersionKept
    <3>2. TypeInv'
      BY <1>0, <1>2, NextInv DEF IndInv
    <3>3. loc'[u] = loc[u] /\ nest'[u] = nest[u] /\ torn'[u] = torn[u]
      BY <2>1
    <3> QED
      BY <1>0, <3>1, <3>2, <3>3, VersionStays
  <2> QED
    BY <2>3, <2>4, <2>5 DEF SnapInv
<1> QED
  BY <1>1, <1>2

LEMMA SnapIsolation == IndInv /\ SnapInv => SnapshotIsolation
<1> SUFFICES ASSUME IndInv, SnapInv PROVE SnapshotIsolation
  OBVIOUS
<1>1. TypeInv /\ PlaceInv /\ CommittedInv /\ \A th \in Thread : TornInv(th)
  BY DEF IndInv, SnapInv
<1>2. AtomicSnapshot
  <2> SUFFICES ASSUME NEW th \in Thread, pc(th) = "checkReads",
                      Seek(Entries(th), loc[th].i, entry_is_read_only) > Len(Entries(th)),
                      NEW x \in torn[th]
               PROVE  FALSE
    BY DEF AtomicSnapshot
  <2>1. PICK s : s = Seek(Entries(th), loc[th].i, entry_is_read_only)
    OBVIOUS
  <2>2. /\ Entries(th) \in Seq(EntryType) /\ DOMAIN Entries(th) = 1..Len(Entries(th))
        /\ Len(Entries(th)) \in Nat /\ loc[th].i \in Nat \ {0}
    BY <1>1, WorkFacts, LocFacts
  <2>3. Finds(Entries(th), loc[th].i, s, {m \in DOMAIN Entries(th) : entry_is_read_only(Entries(th)[m])})
    BY <2>1, <2>2, SeekReadOnly
  <2>4. PICK j \in DOMAIN Entries(th) : j >= loc[th].i /\ entry_is_read_only(Entries(th)[j])
    BY <1>1 DEF TornInv
  <2>5. s <= j /\ s \in Nat
    BY <2>2, <2>3, <2>4 DEF Finds
  <2>6. s > Len(Entries(th))
    BY <2>1
  <2> QED
    BY <2>2, <2>4, <2>5, <2>6
<1> QED
  BY <1>1, <1>2 DEF SnapshotIsolation, CommittedInv

(* Whatever transactions run, how they nest and in which order their steps *)
(* come: a transaction that gets past check_read_only had, at the end of   *)
(* its validation, an instant at which every TVar of its record contained  *)
(* what it had read; no update is lost; and, when every committed value is *)
(* new, one committed state of its run shows all it has read.              *)
THEOREM SnapshotIsolationCorrect == Spec => []SnapshotIsolation
<1>1. Init => IndInv /\ SnapInv
  BY InitInv, InitSnap
<1>2. IndInv /\ [Next]_vars => IndInv'
  BY NextInv
<1>3. IndInv /\ SnapInv /\ [Next]_vars => SnapInv'
  BY NextSnap
<1>4. IndInv /\ SnapInv => SnapshotIsolation
  BY SnapIsolation
<1> QED
  BY <1>1, <1>2, <1>3, <1>4, PTL DEF Spec
=============================================================================
