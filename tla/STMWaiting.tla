----------------------------- MODULE STMWaiting -----------------------------
(***************************************************************************)
(* Waiting in software transactional memory: the watch queues hold exactly *)
(* the threads that wait for a TVar, the frames match the nested records,  *)
(* and no wake-up is lost.                                                 *)
(*                                                                         *)
(* WaitInv says where a thread is while its record waits, WatchInv what    *)
(* the watch queues hold, TSOInv who has locked a TSO, FrameInv which      *)
(* frames there are.  SleepInv is the core: whatever a sleeping thread     *)
(* expects is there, or the holder of the TVar has yet to come to it.      *)
(***************************************************************************)
EXTENDS STMProofs

-----------------------------------------------------------------------------
(* The record of a waiting thread. *)

(* The outermost record of the nest n waits. *)
Parked(n) == n # <<>> /\ n[1].state = "WAITING"

LEMMA MergeReadState ==
    ASSUME NEW tr \in TRecType, NEW x, NEW ex
    PROVE  merge_read_into(tr, x, ex).state \in {tr.state, "CONDEMNED"}
  BY DEF merge_read_into, TRecType

LEMMA MergeUpdateState ==
    ASSUME NEW tr \in TRecType, NEW x, NEW ex, NEW nw
    PROVE  merge_update_into(tr, x, ex, nw).state \in {tr.state, "CONDEMNED"}
  BY DEF merge_update_into, TRecType

LEMMA MergeReadsState ==
    ASSUME NEW tr \in TRecType, NEW inner \in TRecType
    PROVE  MergeReads(tr, inner).state \in {tr.state, "CONDEMNED"}
<1> DEFINE es == inner.entries
           n == Len(es)
           M == CHOOSE M : Merging(tr, es, M, n)
<1>1. es \in Seq(EntryType) /\ n \in Nat /\ DOMAIN es = 1..n
  BY DEF TRecType
<1>2. MergeReads(tr, inner) = M[n]
  BY DEF MergeReads, Merging
<1>3. Merging(tr, es, M, n)
  BY <1>1, MergingExists
<1> HIDE DEF M
<1>4. M[0] = tr /\ \A j \in 1..n : M[j] = merge_read_into(M[j - 1], es[j].tvar, es[j].expected)
  BY <1>1, <1>3 DEF Merging
<1> DEFINE S == {j \in Nat : j <= n => M[j] \in TRecType /\ M[j].state \in {tr.state, "CONDEMNED"}}
<1>5. 0 \in S
  BY <1>4
<1>6. ASSUME NEW j \in Nat, j \in S PROVE j + 1 \in S
  <2> SUFFICES ASSUME j + 1 <= n
               PROVE  M[j + 1] \in TRecType /\ M[j + 1].state \in {tr.state, "CONDEMNED"}
    OBVIOUS
  <2>1. j + 1 \in 1..n /\ M[j] \in TRecType /\ M[j].state \in {tr.state, "CONDEMNED"}
    BY <1>1, <1>6
  <2>2. es[j + 1] \in EntryType
    BY <1>1, <2>1
  <2>3. es[j + 1].tvar \in TVar /\ es[j + 1].expected \in Val
    BY <2>2 DEF EntryType
  <2>4. M[j + 1] = merge_read_into(M[j], es[j + 1].tvar, es[j + 1].expected)
    BY <1>1, <1>4, <2>1
  <2> QED
    BY <2>1, <2>3, <2>4, MergeRead, MergeReadState
<1>7. n \in S
  <2> HIDE DEF S
  <2> QED
    BY <1>1, <1>5, <1>6, Induction
<1> QED
  BY <1>1, <1>2, <1>7

LEMMA AbortToTopState ==
    ASSUME NEW n \in Seq(TRecType), n # <<>>
    PROVE  AbortToTop(n).state \in {n[1].state, "CONDEMNED"}
<1> DEFINE L == Len(n)
           A == CHOOSE A : Aborting(n, A, 1)
<1>1. L \in Nat /\ L > 0 /\ DOMAIN n = 1..L /\ n[1] \in TRecType
  OBVIOUS
<1>2. AbortToTop(n) = A[1]
  BY DEF AbortToTop, Aborting
<1>3. Aborting(n, A, 1)
  BY AbortingExists
<1> HIDE DEF A
<1>4. \A d \in 1..L : A[d] = IF d = L THEN n[d] ELSE MergeReads(n[d], A[d + 1])
  BY <1>3 DEF Aborting
<1>a. \A d \in 1..L : n[d] \in TRecType
  BY <1>1
<1> HIDE DEF L
<1> DEFINE S == {m \in Nat : m < L => A[L - m] \in TRecType}
<1>5. 0 \in S
  <2>0. L \in 1..L /\ L - 0 = L /\ n[L] \in TRecType
    BY <1>1, <1>a
  <2>1. A[L] = n[L]
    BY <1>4, <2>0
  <2> QED
    BY <2>0, <2>1
<1>6. ASSUME NEW m \in Nat, m \in S PROVE m + 1 \in S
  <2> SUFFICES ASSUME m + 1 < L PROVE A[L - (m + 1)] \in TRecType
    OBVIOUS
  <2> DEFINE d == L - (m + 1)
  <2>1. d \in 1..L /\ d # L /\ d + 1 = L - m /\ A[L - m] \in TRecType
    BY <1>1, <1>6
  <2>2. A[d] = MergeReads(n[d], A[d + 1]) /\ n[d] \in TRecType
    BY <1>4, <1>a, <2>1
  <2> QED
    BY <2>1, <2>2, MergeReadsFacts
<1>7. Nat \subseteq S
  <2> HIDE DEF S
  <2> QED
    BY <1>5, <1>6, Induction
<1>8. CASE L = 1
  BY <1>1, <1>2, <1>4, <1>8
<1>9. CASE L > 1
  <2>1. L - 2 \in Nat /\ L - 2 < L /\ L - (L - 2) = 2
    BY <1>1, <1>9
  <2>2. A[2] \in TRecType
    BY <1>7, <2>1
  <2>3. A[1] = MergeReads(n[1], A[2])
    BY <1>1, <1>4, <1>9
  <2> QED
    BY <1>1, <1>2, <2>2, <2>3, MergeReadsState
<1> QED
  BY <1>1, <1>8, <1>9

(* A nest keeps its outermost record, or gets one that does not wait. *)
LEMMA ParkedReplace ==
    ASSUME NEW n \in Seq(TRecType), ~Parked(n), NEW d \in DOMAIN n, NEW r, r.state # "WAITING" \/ r.state = n[d].state
    PROVE  ~Parked([n EXCEPT ![d] = r])
<1>1. 1 \in DOMAIN n /\ n # <<>> /\ n[1].state # "WAITING"
  BY DEF Parked
<1> DEFINE m == [n EXCEPT ![d] = r]
<1>2. m[1] = IF d = 1 THEN r ELSE n[1]
  BY <1>1
<1> QED
  BY <1>1, <1>2 DEF Parked

LEMMA ParkedAppend ==
    ASSUME NEW n \in Seq(TRecType), ~Parked(n), NEW r, n = <<>> => r.state # "WAITING"
    PROVE  ~Parked(Append(n, r))
<1>1. CASE n = <<>>
  <2>1. Append(n, r)[1] = r
    BY <1>1
  <2> QED
    BY <1>1, <2>1 DEF Parked
<1>2. CASE n # <<>>
  <2>1. Append(n, r)[1] = n[1]
    BY <1>2
  <2> QED
    BY <1>2, <2>1 DEF Parked
<1> QED
  BY <1>1, <1>2

LEMMA OneLess == \A m \in Nat : m > 1 => m - 1 \in Nat /\ m - 1 <= m /\ m - 1 # 0
  OBVIOUS

LEMMA FrontFacts ==
    ASSUME NEW S, NEW s \in Seq(S), Len(s) > 0
    PROVE  SubSeq(s, 1, Len(s) - 1) \in Seq(S) /\ Len(SubSeq(s, 1, Len(s) - 1)) = Len(s) - 1
<1>1. ASSUME NEW m \in Nat, m <= Len(s) PROVE SubSeq(s, 1, m) \in Seq(S) /\ Len(SubSeq(s, 1, m)) = m
  BY <1>1
<1>2. Len(s) \in Nat
  OBVIOUS
<1>3. Len(s) - 1 \in Nat /\ Len(s) - 1 <= Len(s)
  BY <1>2
<1> QED
  BY <1>1, <1>3

LEMMA ParkedFront ==
    ASSUME NEW n \in Seq(TRecType), ~Parked(n), NEW d \in Nat, d <= Len(n)
    PROVE  ~Parked(SubSeq(n, 1, d)) /\ SubSeq(n, 1, d) \in Seq(TRecType) /\ (SubSeq(n, 1, d) = <<>> <=> d = 0)
<1> DEFINE m == SubSeq(n, 1, d)
<1>1. m \in Seq(TRecType) /\ Len(m) = d /\ \A c \in 1..d : m[c] = n[c]
  OBVIOUS
<1>2. m = <<>> <=> d = 0
  BY <1>1
<1>3. d # 0 => m[1] = n[1] /\ n # <<>>
  BY <1>1
<1> QED
  BY <1>1, <1>2, <1>3 DEF Parked

LEMMA ParkedOne == ASSUME NEW r PROVE Parked(<<r>>) <=> r.state = "WAITING"
  BY DEF Parked

-----------------------------------------------------------------------------
(* Where a thread is while it waits. *)

(* From the moment it joins the watch queues until it is off them again. *)
Waits(th) ==
    \/ pc(th) \in {"blocked", "throwMasked", "resume", "unwatch", "unwatchUnlock"}
    \/ pc(th) = "validate" /\ op(th) = "rewait"
    \/ pc(th) = "revert" /\ op(th) = "rewait"
    \/ pc(th) = "revert" /\ op(th) = "wait" /\ loc[th].ok

Level(th) == op(th) \in {"wait", "rewait", "throwTo"} => loc[th].lvl = 1

WaitInv(th) == (Parked(nest[th]) <=> Waits(th)) /\ Level(th)

(* A step outside of waiting. *)
Awake(th) == watch' = watch /\ ~Waits(th) /\ ~Waits(th)' /\ ~Parked(nest'[th]) /\ Level(th)'

LEMMA MovedAwake ==
    ASSUME NEW th \in Thread, NEW p, NEW o, NEW l, NEW i, NEW s, NEW b, Moved(th, p, o, l, i, s, b),
           p \notin {"blocked", "throwMasked", "resume", "unwatch", "unwatchUnlock"},
           p = "validate" => o # "rewait",
           p = "revert" => o # "rewait" /\ ~(o = "wait" /\ b),
           o \in {"wait", "rewait", "throwTo"} => l = 1
    PROVE  ~Waits(th)' /\ Level(th)'
<1>1. loc'[th].pc = p /\ loc'[th].op = o /\ loc'[th].lvl = l /\ loc'[th].ok = b
  BY DEF Moved
<1> QED
  BY <1>1 DEF Waits, Level, pc, op

LEMMA SameAwake ==
    ASSUME NEW th \in Thread, ~Waits(th), Level(th), loc'[th] = loc[th]
    PROVE  ~Waits(th)' /\ Level(th)'
  BY DEF Waits, Level, pc, op

LEMMA StartAwake ==
    ASSUME TypeInv, NEW th \in Thread, StartTransaction(th)
    PROVE  ~Waits(th)' /\ Level(th)' /\ ~Parked(nest'[th])
<1>1. Moved(th, "run", "none", 1, 1, InitVal, TRUE) /\ Nested(th, <<NewTRec("ACTIVE")>>)
  BY StartFacts
<1>2. ~Waits(th)' /\ Level(th)'
  BY <1>1, MovedAwake
<1>3. NewTRec("ACTIVE").state = "ACTIVE" /\ nest'[th] = <<NewTRec("ACTIVE")>>
  BY <1>1 DEF NewTRec, Nested
<1> QED
  BY <1>2, <1>3, ParkedOne

LEMMA LeaveAwake ==
    ASSUME TypeInv, NEW th \in Thread, Leave(th)
    PROVE  ~Waits(th)' /\ Level(th)' /\ ~Parked(nest'[th])
<1>1. Moved(th, "idle", "none", 1, 1, InitVal, TRUE) /\ Nested(th, <<>>)
  BY LeaveFacts
<1>2. ~Waits(th)' /\ Level(th)'
  BY <1>1, MovedAwake
<1> QED
  BY <1>1, <1>2 DEF Parked, Nested

LEMMA RunAwake ==
    ASSUME NEW th \in Thread, WaitInv(th),
           pc(th) \notin {"blocked", "throwMasked", "resume", "unwatch", "unwatchUnlock", "validate", "revert"}
    PROVE  ~Waits(th) /\ ~Parked(nest[th]) /\ Level(th)
  BY DEF WaitInv, Waits

LEMMA WriteNest ==
    ASSUME TypeInv, PlaceInv, NEW th \in Thread, WaitInv(th), pc(th) = "run", NEW tr \in TRecType, NEW r,
           tr = nest[th][Len(nest[th])], r.state = tr.state,
           nest' = [nest EXCEPT ![th] = [nest[th] EXCEPT ![Len(nest[th])] = r]]
    PROVE  ~Parked(nest'[th])
<1>1. nest[th] \in Seq(TRecType) /\ Len(nest[th]) \in DOMAIN nest[th]
  BY ThreadFacts
<1>2. nest'[th] = [nest[th] EXCEPT ![Len(nest[th])] = r]
  BY DEF TypeInv
<1>3. ~Parked(nest[th])
  BY RunAwake
<1> QED
  BY <1>1, <1>2, <1>3, ParkedReplace

LEMMA AccessAwake ==
    ASSUME TypeInv, PlaceInv, NEW th \in Thread, WaitInv(th), NEW x \in TVar,
           ReadTVar(th, x) \/ \E v : WriteTVar(th, x, v)
    PROVE  Awake(th)
<1>1. pc(th) = "run" /\ loc' = loc /\ watch' = watch
  BY DEF ReadTVar, WriteTVar, tvarVars
<1>2. ~Waits(th) /\ Level(th)
  BY <1>1, RunAwake
<1>3. ~Waits(th)' /\ Level(th)'
  BY <1>1, <1>2, SameAwake
<1> DEFINE tr == nest[th][Len(nest[th])]
<1>4. tr \in TRecType /\ tr \in [state : TRecState, entries : Seq(EntryType)]
  <2>1. tr \in TRecType
    BY <1>1, ThreadFacts
  <2> QED
    BY <2>1 DEF TRecType
<1>5. ASSUME NEW e, AddEntry(th, e) PROVE ~Parked(nest'[th])
  <2> DEFINE r == [tr EXCEPT !.entries = Append(@, e)]
  <2>1. r.state = tr.state
    BY <1>4
  <2>2. nest' = [nest EXCEPT ![th] = [nest[th] EXCEPT ![Len(nest[th])] = r]]
    BY <1>5, AddEntryIs
  <2> HIDE DEF r
  <2> QED
    BY <1>1, <1>4, <2>1, <2>2, WriteNest
<1>6. ASSUME NEW v, Rewritten(th, x, v) PROVE ~Parked(nest'[th])
  <2> DEFINE j == IndexOf(Last(nest[th]), x)
             r == [tr EXCEPT !.entries[j].new = v]
  <2>1. r.state = tr.state
    BY <1>4
  <2>2. nest' = [nest EXCEPT ![th] = [nest[th] EXCEPT ![Len(nest[th])] = r]]
    BY <1>6 DEF Rewritten
  <2> HIDE DEF r
  <2> QED
    BY <1>1, <1>4, <2>1, <2>2, WriteNest
<1>7. ~Parked(nest'[th])
  BY <1>5, <1>6 DEF ReadTVar, WriteTVar, Rewritten
<1> QED
  BY <1>1, <1>2, <1>3, <1>7 DEF Awake

LEMMA StartNestedAwake ==
    ASSUME TypeInv, PlaceInv, NEW th \in Thread, WaitInv(th), NEW f, StartNested(th, f)
    PROVE  Awake(th)
<1>1. pc(th) = "run" /\ loc' = loc /\ watch' = watch
      /\ nest' = [nest EXCEPT ![th] = Append(nest[th], NewTRec(Last(nest[th]).state))]
  BY DEF StartNested, tvarVars
<1>2. ~Waits(th) /\ Level(th) /\ ~Parked(nest[th])
  BY <1>1, RunAwake
<1>3. ~Waits(th)' /\ Level(th)'
  BY <1>1, <1>2, SameAwake
<1>4. nest[th] \in Seq(TRecType) /\ nest[th] # <<>>
  BY <1>1, ThreadFacts
<1>5. nest'[th] = Append(nest[th], NewTRec(Last(nest[th]).state))
  BY <1>1 DEF TypeInv
<1>6. ~Parked(nest'[th])
  BY <1>2, <1>4, <1>5, ParkedAppend
<1> QED
  BY <1>1, <1>2, <1>3, <1>6 DEF Awake

LEMMA TurnAwake ==
    ASSUME TypeInv, PlaceInv, NEW th \in Thread, WaitInv(th), Return(th) \/ Yield(th)
    PROVE  Awake(th)
<1>1. pc(th) = "run" /\ nest' = nest /\ watch' = watch
      /\ (Goto(th, "getInvariants") \/ Validate(th, "commitNested", Len(nest[th]))
          \/ Validate(th, "validate", Len(nest[th])))
  BY DEF Return, Yield, tvarVars
<1>2. ~Waits(th) /\ Level(th) /\ ~Parked(nest[th]) /\ op(th) = "none"
  BY <1>1, RunAwake DEF PlaceInv, OpInv
<1>3. Len(nest[th]) \in Nat \ {0}
  BY <1>1, ThreadFacts
<1>4. "commitNested" \in Op /\ "validate" \in Op /\ "getInvariants" \in PC
  BY DEF Op, PC
<1>5. CASE Goto(th, "getInvariants")
  <2>1. Moved(th, "getInvariants", "none", loc[th].lvl, loc[th].i, loc[th].saw, loc[th].ok)
    BY <1>2, <1>4, <1>5, MoveGoto
  <2>2. ~Waits(th)' /\ Level(th)'
    BY <2>1, MovedAwake
  <2> QED
    BY <1>1, <1>2, <2>2 DEF Awake
<1>6. ASSUME NEW o \in {"commitNested", "validate"}, Validate(th, o, Len(nest[th])) PROVE Awake(th)
  <2>1. Moved(th, "validate", o, Len(nest[th]), 1, InitVal, TRUE)
    BY <1>3, <1>4, <1>6, MoveValidate
  <2>2. ~Waits(th)' /\ Level(th)'
    BY <1>6, <2>1, MovedAwake
  <2> QED
    BY <1>1, <1>2, <2>2 DEF Awake
<1> QED
  BY <1>1, <1>5, <1>6

LEMMA InnerFrames ==
    ASSUME NEW fr, Len(fr) \in Nat, DOMAIN fr = 1..Len(fr)
    PROVE  LET inner == {d \in DOMAIN fr : \A d2 \in d..Len(fr) : fr[d2] # "first"}
               stop == Len(fr) - Cardinality(inner)
           IN  /\ stop \in 0..Len(fr)
               /\ stop # 0 => \E d \in DOMAIN fr : fr[d] = "first"
<1> DEFINE inner == {d \in DOMAIN fr : \A d2 \in d..Len(fr) : fr[d2] # "first"}
           stop == Len(fr) - Cardinality(inner)
<1>1. IsFiniteSet(1..Len(fr)) /\ Cardinality(1..Len(fr)) = Len(fr)
  <2>1. 1 \in Int /\ Len(fr) \in Int
    OBVIOUS
  <2>2. IsFiniteSet(1..Len(fr)) /\ Cardinality(1..Len(fr)) = IF 1 > Len(fr) THEN 0 ELSE Len(fr) - 1 + 1
    BY <2>1, FS_Interval
  <2> QED
    BY <2>2
<1>2. inner \in SUBSET (1..Len(fr))
  OBVIOUS
<1>3. (\A d \in DOMAIN fr : fr[d] # "first") => inner = 1..Len(fr)
  OBVIOUS
<1> HIDE DEF inner
<1>4. IsFiniteSet(inner) /\ Cardinality(inner) <= Len(fr)
  <2>1. IsFiniteSet(inner) /\ Cardinality(inner) <= Cardinality(1..Len(fr))
    <3> DEFINE all == 1..Len(fr)
    <3>1. IsFiniteSet(all) /\ inner \in SUBSET all
      BY <1>1, <1>2
    <3> HIDE DEF all
    <3>2. IsFiniteSet(inner) /\ Cardinality(inner) <= Cardinality(all)
      BY <3>1, FS_Subset
    <3> QED
      BY <3>2 DEF all
  <2> QED
    BY <1>1, <2>1
<1>5. Cardinality(inner) \in Nat
  BY <1>4, FS_CardinalityType
<1>6. stop \in 0..Len(fr)
  BY <1>4, <1>5
<1>7. stop # 0 => \E d \in DOMAIN fr : fr[d] = "first"
  BY <1>1, <1>3
<1> QED
  BY <1>6, <1>7 DEF inner

LEMMA RetryAwake ==
    ASSUME TypeInv, PlaceInv, NEW th \in Thread, WaitInv(th), Retry(th)
    PROVE  Awake(th)
<1> DEFINE n == nest[th]
           fr == frames[th]
           inner == {d \in DOMAIN fr : \A d2 \in d..Len(fr) : fr[d2] # "first"}
           stop == Len(fr) - Cardinality(inner)
           t == SubSeq(n, stop + 1, Len(n))
           a == AbortToTop(t)
           outer == MergeReads(n[stop], a)
           m == SubSeq(n, 1, stop - 1) \o <<outer, NewTRec(outer.state)>>
<1>1. /\ pc(th) = "run" /\ watch' = watch
      /\ \/ /\ stop = 0 /\ nest' = [nest EXCEPT ![th] = <<a>>] /\ Validate(th, "wait", 1)
         \/ /\ stop # 0 /\ loc' = loc /\ nest' = [nest EXCEPT ![th] = m]
  BY DEF Retry, tvarVars
<1>2. ~Waits(th) /\ Level(th) /\ ~Parked(n)
  BY <1>1, RunAwake
<1>3. /\ n \in Seq(TRecType) /\ Len(n) \in Nat /\ n # <<>> /\ DOMAIN n = 1..Len(n) /\ Len(fr) < Len(n)
      /\ Len(fr) \in Nat /\ n[1].state # "WAITING"
  <2>1. Len(fr) < Len(n)
    BY <1>1 DEF PlaceInv, NestInv
  <2>a. n \in Seq(TRecType) /\ Len(n) \in Nat /\ Len(n) > 0 /\ DOMAIN n = 1..Len(n) /\ Len(fr) \in Nat
    BY <1>1, ThreadFacts
  <2>2. n \in Seq(TRecType) /\ Len(n) \in Nat /\ n # <<>> /\ DOMAIN n = 1..Len(n) /\ Len(fr) \in Nat
    BY <2>a
  <2> QED
    BY <1>2, <2>1, <2>2 DEF Parked
<1>4. stop \in 0..Len(fr)
  BY ThreadFacts, InnerFrames
<1> HIDE DEF stop
<1>5. CASE stop = 0
  <2>1. t = n /\ a.state \in {n[1].state, "CONDEMNED"}
    <3>1. t = n
      BY <1>3, <1>5
    <3> HIDE DEF n
    <3> QED
      BY <1>3, <3>1, AbortToTopState
  <2> HIDE DEF a
  <2>2. nest'[th] = <<a>>
    BY <1>1, <1>5 DEF TypeInv
  <2>3. ~Parked(nest'[th])
    BY <1>3, <2>1, <2>2, ParkedOne
  <2>4. Moved(th, "validate", "wait", 1, 1, InitVal, TRUE)
    <3>1. "wait" \in Op /\ 1 \in Nat \ {0}
      BY DEF Op
    <3> QED
      BY <1>1, <1>5, <3>1, MoveValidate
  <2>5. ~Waits(th)' /\ Level(th)'
    BY <2>4, MovedAwake
  <2> QED
    BY <1>1, <1>2, <2>3, <2>5 DEF Awake
<1>6. CASE stop # 0
  <2>1. stop \in Nat \ {0} /\ stop \in DOMAIN n /\ stop < Len(n) /\ n[stop] \in TRecType /\ stop \in Nat
    BY <1>3, <1>4, <1>6
  <2>2. a \in TRecType
    <3> HIDE DEF n
    <3> QED
      BY <1>3, <2>1, AbortTail
  <2> HIDE DEF a
  <2>3. outer \in TRecType /\ outer.state \in {n[stop].state, "CONDEMNED"} /\ NewTRec(outer.state) \in TRecType
    BY <2>1, <2>2, MergeReadsState, MergeReadsFacts, NewTRecFacts DEF TRecType
  <2> HIDE DEF outer
  <2>4. nest'[th] = m
    BY <1>1, <1>6 DEF TypeInv
  <2>5. m # <<>> /\ m[1] = IF stop = 1 THEN outer ELSE n[1]
    <3> DEFINE d == stop - 1
               b == NewTRec(outer.state)
               q == SubSeq(n, 1, d) \o <<outer, b>>
    <3>1. d \in Nat /\ d < Len(n) /\ d + 1 = stop /\ d + 2 = stop + 1 /\ b \in TRecType
      BY <2>1, <2>3, <1>3
    <3> HIDE DEF d, b, n
    <3>2. /\ q \in Seq(TRecType) /\ Len(q) = d + 2 /\ DOMAIN q = 1..(d + 2)
          /\ \A c \in 1..d : q[c] = n[c]
          /\ q[d + 1] = outer
      BY <1>3, <2>3, <3>1, NestConcat
    <3>3. q = m
      BY DEF d, b
    <3> HIDE DEF q, m
    <3>4. q # <<>> /\ q[1] = IF stop = 1 THEN outer ELSE n[1]
      BY <2>1, <3>1, <3>2
    <3> QED
      BY <3>3, <3>4
  <2> HIDE DEF m
  <2>6. ~Parked(nest'[th])
    BY <1>3, <2>3, <2>4, <2>5 DEF Parked
  <2>7. ~Waits(th)' /\ Level(th)'
    BY <1>1, <1>2, <1>6, SameAwake
  <2> QED
    BY <1>1, <1>2, <2>6, <2>7 DEF Awake
<1> QED
  BY <1>5, <1>6

LEMMA ThrowAwake ==
    ASSUME TypeInv, PlaceInv, NEW th \in Thread, WaitInv(th), Throw(th)
    PROVE  Awake(th)
<1> DEFINE n == nest[th]
<1>1. /\ pc(th) = "run" /\ watch' = watch
      /\ \/ Validate(th, "throw", Len(n)) /\ nest' = nest
         \/ /\ nest' = [nest EXCEPT ![th] = AbortNested(n)] /\ loc' = loc /\ frames[th] # <<>>
  <2>1. ASSUME NEW d \in DOMAIN frames[th] PROVE frames[th] # <<>>
    BY <2>1
  <2> QED
    BY <2>1 DEF Throw, tvarVars
<1>2. ~Waits(th) /\ Level(th) /\ ~Parked(n)
  BY <1>1, RunAwake
<1>3. n \in Seq(TRecType) /\ Len(n) \in Nat \ {0} /\ DOMAIN n = 1..Len(n) /\ n # <<>> /\ n[1].state # "WAITING"
  <2>1. n \in Seq(TRecType) /\ Len(n) \in Nat \ {0} /\ DOMAIN n = 1..Len(n) /\ n # <<>>
    BY <1>1, ThreadFacts
  <2> QED
    BY <1>2, <2>1 DEF Parked
<1>4. CASE Validate(th, "throw", Len(n)) /\ nest' = nest
  <2>1. "throw" \in Op
    BY DEF Op
  <2>2. Moved(th, "validate", "throw", Len(n), 1, InitVal, TRUE)
    BY <1>3, <1>4, <2>1, MoveValidate
  <2>3. ~Waits(th)' /\ Level(th)'
    BY <2>2, MovedAwake
  <2> QED
    BY <1>1, <1>2, <1>4, <2>3 DEF Awake
<1>5. CASE nest' = [nest EXCEPT ![th] = AbortNested(n)] /\ loc' = loc /\ frames[th] # <<>>
  <2>1. Len(n) > 1
    <3>1. Len(frames[th]) < Len(n) /\ frames[th] \in Seq({"first", "alt", "catch"})
      BY <1>1 DEF PlaceInv, NestInv, TypeInv
    <3>2. Len(frames[th]) \in Nat /\ Len(frames[th]) > 0
      BY <1>5, <3>1
    <3> QED
      BY <1>3, <3>1, <3>2
  <2> DEFINE d == Len(n) - 2
             o == MergeReads(n[Len(n) - 1], n[Len(n)])
             m == Append(SubSeq(n, 1, d), o)
  <2>2. d \in Nat /\ d <= Len(n) /\ Len(n) - 1 \in DOMAIN n /\ Len(n) \in DOMAIN n
        /\ n[Len(n) - 1] \in TRecType /\ n[Len(n)] \in TRecType /\ (d = 0 => Len(n) - 1 = 1)
    BY <1>3, <2>1
  <2>3. o.state \in {n[Len(n) - 1].state, "CONDEMNED"}
    BY <2>2, MergeReadsState
  <2>4. d = 0 => o.state # "WAITING"
    BY <1>3, <2>2, <2>3
  <2> HIDE DEF o, d
  <2>5. ~Parked(SubSeq(n, 1, d)) /\ SubSeq(n, 1, d) \in Seq(TRecType) /\ (SubSeq(n, 1, d) = <<>> <=> d = 0)
    <3> HIDE DEF n
    <3> QED
      BY <1>2, <1>3, <2>2, ParkedFront
  <2>6. ~Parked(m)
    <3> HIDE DEF n
    <3> QED
      BY <2>4, <2>5, ParkedAppend
  <2>7. nest'[th] = m
    BY <1>5 DEF TypeInv, AbortNested, d, o
  <2>8. ~Waits(th)' /\ Level(th)'
    BY <1>2, <1>5, SameAwake
  <2> QED
    BY <1>1, <1>2, <2>6, <2>7, <2>8 DEF Awake
<1> QED
  BY <1>1, <1>4, <1>5

LEMMA BodyAwake ==
    ASSUME TypeInv, PlaceInv, NEW th \in Thread, WaitInv(th), Body(th)
    PROVE  Awake(th)
<1>1. CASE Atomically(th)
  <2>1. pc(th) = "idle" /\ StartTransaction(th) /\ watch' = watch
    BY <1>1 DEF Atomically, tvarVars
  <2> QED
    BY <2>1, StartAwake, RunAwake DEF Awake
<1>2. CASE \E x \in TVar : ReadTVar(th, x)
  BY <1>2, AccessAwake
<1>3. CASE pc(th) = "run" /\ \E w \in Writes[th][done[th] + 1] : WriteTVar(th, w[1], w[2])
  <2>1. PICK w \in Writes[th][done[th] + 1] : WriteTVar(th, w[1], w[2])
    BY <1>3
  <2>2. w[1] \in TVar
    BY <1>3, WriteFacts
  <2> QED
    BY <2>1, <2>2, AccessAwake
<1>4. CASE \E f \in {"first", "catch"} : StartNested(th, f)
  BY <1>4, StartNestedAwake
<1> QED
  BY <1>1, <1>2, <1>3, <1>4, TurnAwake, RetryAwake, ThrowAwake DEF Body

-----------------------------------------------------------------------------
(* Steps that leave the records and the queues alone. *)

(* th is on its way off the watch queues. *)
Leaving(th) == pc(th) \in {"unwatch", "unwatchUnlock"}

Same(th) ==
    /\ watch' = watch /\ nest'[th] = nest[th]
    /\ (Waits(th)' <=> Waits(th)) /\ Level(th)'
    /\ Leaving(th)' => loc'[th].i = IF Leaving(th) THEN loc[th].i ELSE 1

WaitsAt(p, o, b) ==
    \/ p \in {"blocked", "throwMasked", "resume", "unwatch", "unwatchUnlock"}
    \/ p = "validate" /\ o = "rewait"
    \/ p = "revert" /\ o = "rewait"
    \/ p = "revert" /\ o = "wait" /\ b

LEMMA MovedSame ==
    ASSUME NEW th \in Thread, NEW p, NEW o, NEW l, NEW i, NEW s, NEW b, Moved(th, p, o, l, i, s, b),
           watch' = watch, nest' = nest, WaitsAt(p, o, b) <=> Waits(th),
           o \in {"wait", "rewait", "throwTo"} => l = 1,
           p \in {"unwatch", "unwatchUnlock"} => i = IF Leaving(th) THEN loc[th].i ELSE 1
    PROVE  Same(th)
<1>1. loc'[th].pc = p /\ loc'[th].op = o /\ loc'[th].lvl = l /\ loc'[th].ok = b /\ loc'[th].i = i
  BY DEF Moved
<1>2. Waits(th)' <=> WaitsAt(p, o, b)
  BY <1>1 DEF Waits, WaitsAt, pc, op
<1> QED
  BY <1>1, <1>2 DEF Same, Level, Leaving, pc, op

(* The same operation goes on. *)
LEMMA GoesOnSame ==
    ASSUME NEW th \in Thread, NEW p, NEW i, NEW s, NEW b,
           Moved(th, p, op(th), loc[th].lvl, i, s, b),
           watch' = watch, nest' = nest, WaitInv(th), WaitsAt(p, op(th), b) <=> Waits(th),
           p \in {"unwatch", "unwatchUnlock"} => i = IF Leaving(th) THEN loc[th].i ELSE 1
    PROVE  Same(th)
  BY MovedSame DEF WaitInv, Level

LEMMA GetInvSame ==
    ASSUME TypeInv, PlaceInv, NEW th \in Thread, WaitInv(th), GetInvLock(th) \/ GetInvUnlock(th), EntryInv(th)
    PROVE  Same(th)
<1>1. pc(th) \in {"getInvariants", "getInvUnlock"} /\ pc(th) # "idle" /\ watch' = watch /\ nest' = nest
  BY DEF GetInvLock, GetInvUnlock
<1>2. op(th) = "none" /\ ~Waits(th) /\ loc[th].i \in Nat \ {0} /\ loc[th].i + 1 \in Nat \ {0}
      /\ loc[th].lvl = 1
  BY <1>1, RunAwake, LocFacts DEF PlaceInv, OpInv
<1>3. "getInvUnlock" \in PC /\ "getInvariants" \in PC /\ InitVal \in Val /\ "commit" \in Op /\ 1 \in Nat \ {0}
  BY ValFacts DEF PC, Op
<1> DEFINE j == Seek(Entries(th), loc[th].i, entry_is_update)
<1>4. \/ Validate(th, "commit", 1)
      \/ j <= Len(Entries(th)) /\ current_value[Entries(th)[j].tvar] \in Val
         /\ GotoSaw(th, "getInvUnlock", j, current_value[Entries(th)[j].tvar])
      \/ GotoSaw(th, "getInvariants", loc[th].i + 1, InitVal)
  BY DEF GetInvLock, GetInvUnlock, GotoSaw
<1>5. CASE Validate(th, "commit", 1)
  <2>1. Moved(th, "validate", "commit", 1, 1, InitVal, TRUE)
    BY <1>3, <1>5, MoveValidate
  <2>2. WaitsAt("validate", "commit", TRUE) <=> Waits(th)
    BY <1>2 DEF WaitsAt
  <2> QED
    BY <1>1, <2>1, <2>2, MovedSame
<1>6. CASE j <= Len(Entries(th)) /\ current_value[Entries(th)[j].tvar] \in Val
           /\ GotoSaw(th, "getInvUnlock", j, current_value[Entries(th)[j].tvar])
  <2>1. j \in Nat \ {0}
    <3>1. Entries(th) \in Seq(EntryType) /\ Len(Entries(th)) \in Nat
      BY <1>1, WorkFacts
    <3>2. Finds(Entries(th), loc[th].i, j, {m \in DOMAIN Entries(th) : entry_is_update(Entries(th)[m])})
      BY <1>2, <3>1, SeekUpdate
    <3> QED
      BY <3>1, <3>2 DEF Finds
  <2>2. Moved(th, "getInvUnlock", op(th), loc[th].lvl, j, current_value[Entries(th)[j].tvar], loc[th].ok)
    BY <1>3, <1>6, <2>1, MoveSaw
  <2>3. WaitsAt("getInvUnlock", op(th), loc[th].ok) <=> Waits(th)
    BY <1>2 DEF WaitsAt
  <2> QED
    BY <1>1, <2>2, <2>3, GoesOnSame
<1>7. CASE GotoSaw(th, "getInvariants", loc[th].i + 1, InitVal)
  <2>1. Moved(th, "getInvariants", op(th), loc[th].lvl, loc[th].i + 1, InitVal, loc[th].ok)
    BY <1>2, <1>3, <1>7, MoveSaw
  <2>2. WaitsAt("getInvariants", op(th), loc[th].ok) <=> Waits(th)
    BY <1>2 DEF WaitsAt
  <2> QED
    BY <1>1, <2>1, <2>2, GoesOnSame
<1> QED
  BY <1>4, <1>5, <1>6, <1>7

LEMMA GoesSame ==
    ASSUME NEW th \in Thread, WaitInv(th), NEW p, NEW j, Goes(th, p, j), watch' = watch,
           WaitsAt(p, op(th), loc'[th].ok) <=> Waits(th),
           p \in {"unwatch", "unwatchUnlock"} => j = IF Leaving(th) THEN loc[th].i ELSE 1
    PROVE  Same(th)
<1>1. loc'[th].pc = p /\ loc'[th].op = op(th) /\ loc'[th].lvl = loc[th].lvl /\ loc'[th].i = j /\ nest' = nest
  BY DEF Goes, Works
<1>2. Waits(th)' <=> WaitsAt(p, op(th), loc'[th].ok)
  BY <1>1 DEF Waits, WaitsAt, pc, op
<1> QED
  BY <1>1, <1>2 DEF Same, WaitInv, Level, Leaving, pc, op

LEMMA GivesUpSame ==
    ASSUME TypeInv, PlaceInv, NEW th \in Thread, WaitInv(th), GivesUp(th), watch' = watch,
           pc(th) \in {"validate", "recheck", "checkReads"}
    PROVE  Same(th)
<1>1. pc(th) # "validate" => op(th) # "rewait"
  BY DEF PlaceInv, OpInv
<1>2. Goes(th, "revert", 1) /\ ~loc'[th].ok
  BY DEF GivesUp
<1>3. WaitsAt("revert", op(th), loc'[th].ok) <=> Waits(th)
  BY <1>1, <1>2 DEF WaitsAt, Waits
<1> QED
  BY <1>2, <1>3, GoesSame

LEMMA ValidateSame ==
    ASSUME TypeInv, PlaceInv, scenario' = scenario, NEW th \in Thread, WaitInv(th),
           ValidateEntry(th) \/ Recheck(th) \/ ValidateCondemned(th) \/ CheckReadOnly(th) \/ Decide(th)
    PROVE  Same(th)
<1>1. watch' = watch
  BY DEF ValidateEntry, Recheck, ValidateCondemned, CheckReadOnly, Decide, tvarVars
<1>2. CASE ValidateEntry(th)
  <2>1. pc(th) = "validate" /\ ValidatesEntry(th)
    BY <1>2, ValidateEntryStep
  <2>2. CASE Goes(th, "validate", loc[th].i + 1)
    <3>1. WaitsAt("validate", op(th), loc'[th].ok) <=> Waits(th)
      BY <2>1 DEF WaitsAt, Waits
    <3> QED
      BY <1>1, <2>2, <3>1, GoesSame
  <2>3. CASE Goes(th, "readVersion", loc[th].i) /\ ~Locks(th, Entries(th)[loc[th].i])
    <3>1. op(th) \in {"commit", "commitNested"}
      BY <2>3 DEF Locks, acquire_all
    <3>2. WaitsAt("readVersion", op(th), loc'[th].ok) <=> Waits(th)
      BY <2>1, <3>1 DEF WaitsAt, Waits
    <3> QED
      BY <1>1, <2>3, <3>2, GoesSame
  <2> QED
    BY <1>1, <2>1, <2>2, <2>3, GivesUpSame DEF ValidatesEntry
<1>3. CASE Recheck(th)
  <2>1. pc(th) = "recheck" /\ (GivesUp(th) \/ Goes(th, "validate", loc[th].i + 1))
    BY <1>3, RecheckStep
  <2>2. op(th) \in {"commit", "commitNested"}
    BY <2>1 DEF PlaceInv, OpInv
  <2>3. WaitsAt("validate", op(th), loc'[th].ok) <=> Waits(th)
    BY <2>1, <2>2 DEF WaitsAt, Waits
  <2> QED
    BY <1>1, <2>1, <2>3, GivesUpSame, GoesSame
<1>4. CASE ValidateCondemned(th)
  BY <1>1, <1>4, ValidateCondemnedStep, GivesUpSame
<1>5. CASE CheckReadOnly(th)
  <2>1. pc(th) = "checkReads" /\ (GivesUp(th) \/ \E j \in DOMAIN Entries(th) : Goes(th, "checkReads", j + 1))
    BY <1>5, CheckReadOnlyStep
  <2>2. WaitsAt("checkReads", op(th), loc'[th].ok) <=> Waits(th)
    BY <2>1 DEF WaitsAt, Waits
  <2> QED
    BY <1>1, <2>1, <2>2, GivesUpSame, GoesSame
<1>6. CASE Decide(th)
  <2>1. pc(th) = "checkReads" /\ (Goes(th, "merge", 1) \/ Goes(th, "update", 1))
    BY <1>6, DecideStep
  <2>2. \A p \in {"merge", "update"} : WaitsAt(p, op(th), loc'[th].ok) <=> Waits(th)
    BY <2>1 DEF WaitsAt, Waits
  <2> QED
    BY <1>1, <2>1, <2>2, GoesSame
<1> QED
  BY <1>2, <1>3, <1>4, <1>5, <1>6

LEMMA CommitSame ==
    ASSUME TypeInv, PlaceInv, scenario' = scenario, NEW th \in Thread, WaitInv(th), EntryInv(th),
           UnparkWaiter(th) \/ UnparkTSO(th) \/ BumpVersion(th) \/ StoreValue(th)
    PROVE  Same(th)
<1>1. watch' = watch
  BY DEF UnparkWaiter, UnparkTSO, BumpVersion, StoreValue, tvarVars
<1>2. /\ pc(th) \in {"unpark", "unparkLock", "bump", "store"}
      /\ \E p \in {"unpark", "unparkLock", "bump", "store", "update"} : \E j : Goes(th, p, j)
  BY UnparkWaiterStep, UnparkTSOStep, BumpVersionStep, StoreValueStep
<1>3. \A p \in {"unpark", "unparkLock", "bump", "store", "update"} : WaitsAt(p, op(th), loc'[th].ok) <=> Waits(th)
  BY <1>2 DEF WaitsAt, Waits
<1> QED
  BY <1>1, <1>2, <1>3, GoesSame

LEMMA RevertSame ==
    ASSUME TypeInv, PlaceInv, scenario' = scenario, NEW th \in Thread, WaitInv(th), Revert(th)
    PROVE  Same(th)
<1>1. watch' = watch /\ pc(th) = "revert"
  BY DEF Revert
<1>2. \E j : Goes(th, "revert", j)
  BY RevertStep
<1>3. loc'[th].ok = loc[th].ok
  <2>1. \E j : GotoEntry(th, "revert", j)
    BY DEF Revert
  <2>2. loc \in [Thread -> LocType]
    BY DEF TypeInv
  <2> QED
    BY <2>1, <2>2 DEF GotoEntry, LocType
<1>4. WaitsAt("revert", op(th), loc'[th].ok) <=> Waits(th)
  BY <1>1, <1>3 DEF WaitsAt, Waits
<1> QED
  BY <1>1, <1>2, <1>4, GoesSame

LEMMA UnwatchLockSame ==
    ASSUME TypeInv, PlaceInv, scenario' = scenario, NEW th \in Thread, WaitInv(th), UnwatchLock(th)
    PROVE  Same(th)
<1>1. watch' = watch /\ pc(th) = "unwatch" /\ Goes(th, "unwatchUnlock", loc[th].i)
  BY UnwatchLockStep DEF UnwatchLock
<1>2. WaitsAt("unwatchUnlock", op(th), loc'[th].ok) <=> Waits(th)
  BY <1>1 DEF WaitsAt, Waits
<1>3. Leaving(th)
  BY <1>1 DEF Leaving
<1> QED
  BY <1>1, <1>2, <1>3, GoesSame

LEMMA WaitingSame ==
    ASSUME TypeInv, PlaceInv, NEW th \in Thread, WaitInv(th),
           \/ Resume(th) \/ ThrowToMasked(th) \/ Wakeup(th) \/ ThrowToBlocked(th)
           \/ ThrowToRunnable(th) /\ pc(th) = "resume"
    PROVE  Same(th)
<1>1. watch' = watch /\ nest' = nest
  BY DEF Resume, ThrowToMasked, Wakeup, ThrowToBlocked, ThrowToRunnable, tvarVars
<1>2. CASE Resume(th)
  <2>1. pc(th) = "resume" /\ Validate(th, "rewait", 1)
    BY <1>2 DEF Resume
  <2>2. "rewait" \in Op /\ 1 \in Nat \ {0}
    BY DEF Op
  <2>3. Moved(th, "validate", "rewait", 1, 1, InitVal, TRUE)
    BY <2>1, <2>2, MoveValidate
  <2>4. WaitsAt("validate", "rewait", TRUE) <=> Waits(th)
    BY <2>1 DEF WaitsAt, Waits
  <2> QED
    BY <1>1, <2>3, <2>4, MovedSame
<1>3. ASSUME NEW p \in {"throwMasked", "blocked"}, pc(th) \in {"throwMasked", "blocked"},
             loc' = [loc EXCEPT ![th] = At(p)]
      PROVE  Same(th)
  <2>1. p \in PC
    BY <1>3 DEF PC
  <2>2. Moved(th, p, "none", 1, 1, InitVal, TRUE)
    BY <1>3, <2>1, MoveAt
  <2>3. WaitsAt(p, "none", TRUE) <=> Waits(th)
    BY <1>3 DEF WaitsAt, Waits
  <2> QED
    BY <1>1, <1>3, <2>2, <2>3, MovedSame
<1>4. ASSUME pc(th) \in {"resume", "blocked"},
             loc' = [loc EXCEPT ![th] = [At("unwatch") EXCEPT !.op = "throwTo"]]
      PROVE  Same(th)
  <2>1. Moved(th, "unwatch", "throwTo", 1, 1, InitVal, TRUE)
    BY <1>4, MoveThrowTo
  <2>2. (WaitsAt("unwatch", "throwTo", TRUE) <=> Waits(th)) /\ ~Leaving(th)
    BY <1>4 DEF WaitsAt, Waits, Leaving
  <2> QED
    BY <1>1, <2>1, <2>2, MovedSame
<1>5. CASE Wakeup(th)
  <2>1. CASE Goto(th, "resume") /\ why_blocked[th] = "BlockedOnSTM"
    <3>1. pc(th) = "blocked"
      BY <1>5, <2>1, NotBlocked DEF Wakeup
    <3>2. "resume" \in PC
      BY DEF PC
    <3>3. Moved(th, "resume", op(th), loc[th].lvl, loc[th].i, loc[th].saw, loc[th].ok)
      BY <2>1, <3>2, MoveGoto
    <3>4. WaitsAt("resume", op(th), loc[th].ok) <=> Waits(th)
      BY <3>1 DEF WaitsAt, Waits
    <3> QED
      BY <1>1, <3>3, <3>4, GoesOnSame
  <2>2. CASE loc' = loc
    <3>1. (Waits(th)' <=> Waits(th)) /\ (Level(th)' <=> Level(th)) /\ (Leaving(th)' <=> Leaving(th))
          /\ loc'[th].i = loc[th].i
      BY <2>2 DEF Waits, Level, Leaving, pc, op
    <3> QED
      BY <1>1, <3>1 DEF Same, WaitInv
  <2> QED
    BY <1>5, <2>1, <2>2 DEF Wakeup
<1>6. CASE ThrowToMasked(th)
  BY <1>3, <1>6 DEF ThrowToMasked
<1>7. CASE ThrowToBlocked(th)
  BY <1>3, <1>4, <1>7 DEF ThrowToBlocked
<1>8. CASE ThrowToRunnable(th) /\ pc(th) = "resume"
  BY <1>4, <1>8 DEF ThrowToRunnable
<1> QED
  BY <1>2, <1>5, <1>6, <1>7, <1>8

-----------------------------------------------------------------------------
(* Steps that change records outside of waiting. *)

LEMMA ReadVersionAwake ==
    ASSUME TypeInv, PlaceInv, scenario' = scenario, NEW th \in Thread, WaitInv(th), EntryInv(th),
           ReadVersion(th)
    PROVE  Awake(th)
<1> DEFINE n == nest[th]
           L == loc[th].lvl
           tr == n[L]
           r == [tr EXCEPT !.entries[loc[th].i].num = num_updates[Cur(th).tvar]]
<1>1. /\ pc(th) = "readVersion" /\ pc(th) # "idle" /\ watch' = watch
      /\ nest' = [nest EXCEPT ![th] = [n EXCEPT ![L] = r]]
  BY DEF ReadVersion, tvarVars
<1>2. ~Waits(th) /\ ~Parked(n) /\ Level(th)
  BY <1>1, RunAwake
<1>3. n \in Seq(TRecType) /\ L \in DOMAIN n /\ tr \in [state : TRecState, entries : Seq(EntryType)]
  <2>1. n \in Seq(TRecType) /\ L \in DOMAIN n /\ tr \in TRecType
    BY <1>1, ThreadFacts
  <2> QED
    BY <2>1 DEF TRecType
<1>4. r.state = tr.state
  BY <1>3
<1> HIDE DEF r
<1>5. nest'[th] = [n EXCEPT ![L] = r]
  BY <1>1 DEF TypeInv
<1>6. ~Parked(nest'[th])
  BY <1>2, <1>3, <1>4, <1>5, ParkedReplace
<1>7. Works(th) /\ loc'[th].pc = "recheck"
  BY ReadVersionStep DEF NotesVersion
<1>8. ~Waits(th)' /\ Level(th)'
  BY <1>2, <1>7 DEF Waits, Level, Works, pc, op
<1> QED
  BY <1>1, <1>2, <1>6, <1>8 DEF Awake

LEMMA MergeEntryAwake ==
    ASSUME TypeInv, PlaceInv, scenario' = scenario, NEW th \in Thread, WaitInv(th), MergeEntry(th)
    PROVE  Awake(th)
<1> DEFINE n == nest[th]
           p == loc[th].lvl - 1
           r == merge_update_into(n[p], Cur(th).tvar, Cur(th).expected, Cur(th).new)
<1>1. pc(th) = "merge" /\ watch' = watch /\ nest' = [nest EXCEPT ![th] = [n EXCEPT ![p] = r]]
  BY DEF MergeEntry
<1>2. ~Waits(th) /\ ~Parked(n) /\ Level(th)
  BY <1>1, RunAwake
<1>3. Works(th) /\ loc'[th].pc = "merge" /\ p \in DOMAIN n
  BY MergeEntryStep DEF Merges
<1>4. n \in Seq(TRecType) /\ n[p] \in TRecType
  BY <1>3, ThreadFacts
<1>5. r.state \in {n[p].state, "CONDEMNED"}
  BY <1>4, MergeUpdateState
<1> HIDE DEF r
<1>6. nest'[th] = [n EXCEPT ![p] = r]
  BY <1>1 DEF TypeInv
<1>7. ~Parked(nest'[th])
  <2> HIDE DEF n, p
  <2> QED
    BY <1>2, <1>3, <1>4, <1>5, <1>6, ParkedReplace
<1>8. ~Waits(th)' /\ Level(th)'
  BY <1>2, <1>3 DEF Waits, Level, Works, pc, op
<1> QED
  BY <1>1, <1>2, <1>7, <1>8 DEF Awake

LEMMA NestedCommittedAwake ==
    ASSUME TypeInv, PlaceInv, NEW th \in Thread, WaitInv(th), NestedCommitted(th)
    PROVE  Awake(th)
<1> DEFINE n == nest[th]
           d == Len(n) - 1
<1>1. pc(th) = "merge" /\ pc(th) # "idle" /\ watch' = watch /\ nest' = [nest EXCEPT ![th] = SubSeq(n, 1, d)]
      /\ loc' = [loc EXCEPT ![th] = At("run")]
  BY DEF NestedCommitted, tvarVars
<1>2. ~Waits(th) /\ ~Parked(n) /\ Level(th)
  BY <1>1, RunAwake
<1>3. n \in Seq(TRecType) /\ d \in Nat /\ d <= Len(n)
  BY <1>1, ThreadFacts
<1>4. nest'[th] = SubSeq(n, 1, d)
  BY <1>1 DEF TypeInv
<1>5. ~Parked(nest'[th])
  <2> HIDE DEF n, d
  <2> QED
    BY <1>2, <1>3, <1>4, ParkedFront
<1>6. Moved(th, "run", "none", 1, 1, InitVal, TRUE)
  BY <1>1, MoveAt DEF PC
<1>7. ~Waits(th)' /\ Level(th)'
  BY <1>6, MovedAwake
<1> QED
  BY <1>1, <1>2, <1>5, <1>7 DEF Awake

LEMMA UpdateWait ==
    ASSUME TypeInv, PlaceInv, scenario' = scenario, NEW th \in Thread, WaitInv(th), Update(th)
    PROVE  Awake(th) \/ Same(th)
<1>1. pc(th) = "update" /\ watch' = watch
  BY DEF Update, tvarVars
<1>2. ~Waits(th)
  BY <1>1, RunAwake
<1>3. CASE Leave(th)
  BY <1>1, <1>2, <1>3, LeaveAwake DEF Awake
<1>4. CASE ~Leave(th)
  <2>1. \E j \in DOMAIN Entries(th) : GotoWatcher(th, "unpark", j, Len(watch[Entries(th)[j].tvar])) /\ nest' = nest
    <3> DEFINE j == Seek(Entries(th), loc[th].i, entry_is_update)
    <3>1. Entries(th) \in Seq(EntryType) /\ loc[th].i \in Nat \ {0}
      BY <1>1, WorkFacts, LocFacts
    <3>2. Finds(Entries(th), loc[th].i, j, {m \in DOMAIN Entries(th) : entry_is_update(Entries(th)[m])})
      BY <3>1, SeekUpdate
    <3>3. j <= Len(Entries(th)) /\ GotoWatcher(th, "unpark", j, Len(watch[Entries(th)[j].tvar])) /\ nest' = nest
      BY <1>4 DEF Update, GotoWatcher
    <3> HIDE DEF j
    <3>4. j \in DOMAIN Entries(th)
      BY <3>2, <3>3 DEF Finds
    <3> QED
      BY <3>3, <3>4
  <2>2. PICK j \in DOMAIN Entries(th) : GotoWatcher(th, "unpark", j, Len(watch[Entries(th)[j].tvar])) /\ nest' = nest
    BY <2>1
  <2>3. j \in Nat \ {0} /\ Len(watch[Entries(th)[j].tvar]) \in Nat /\ "unpark" \in PC
    <3>1. j \in Nat \ {0} /\ Entries(th)[j].tvar \in TVar
      BY <1>1, WorkFacts
    <3>2. watch[Entries(th)[j].tvar] \in Seq(Thread)
      BY <3>1 DEF TypeInv
    <3> QED
      BY <3>1, <3>2 DEF PC
  <2>4. Moved(th, "unpark", op(th), loc[th].lvl, j, loc[th].saw, loc[th].ok)
    BY <2>2, <2>3, MoveQueue
  <2>5. WaitsAt("unpark", op(th), loc[th].ok) <=> Waits(th)
    BY <1>2 DEF WaitsAt
  <2> QED
    BY <1>1, <2>2, <2>4, <2>5, GoesOnSame
<1> QED
  BY <1>3, <1>4

LEMMA RevertedWait ==
    ASSUME TypeInv, PlaceInv, scenario' = scenario, NEW th \in Thread, WaitInv(th), Reverted(th)
    PROVE  Awake(th) \/ Same(th)
<1> DEFINE n == nest[th]
<1>1. pc(th) = "revert" /\ pc(th) # "idle" /\ watch' = watch
  BY DEF Reverted, tvarVars
<1>2. Waits(th) <=> op(th) = "rewait" \/ (op(th) = "wait" /\ loc[th].ok)
  BY <1>1 DEF Waits
<1>3. ~Waits(th) => ~Parked(n)
  BY DEF WaitInv
<1>4. n \in Seq(TRecType) /\ Len(n) \in Nat \ {0} /\ DOMAIN n = 1..Len(n) /\ n # <<>> /\ loc[th].lvl \in 1..Len(n)
  <2>1. n \in Seq(TRecType) /\ Len(n) \in Nat /\ Len(n) > 0 /\ DOMAIN n = 1..Len(n) /\ loc[th].lvl \in 1..Len(n)
    BY <1>1, ThreadFacts
  <2> QED
    BY <2>1
<1>5. CASE StartTransaction(th) /\ ~Waits(th)
  BY <1>1, <1>5, StartAwake DEF Awake
<1>6. CASE Leave(th) /\ ~Waits(th)
  BY <1>1, <1>6, LeaveAwake DEF Awake
<1>7. ASSUME NEW p \in {"run", "getInvariants"}, ~Waits(th), loc' = [loc EXCEPT ![th] = At(p)]
      PROVE  ~Waits(th)' /\ Level(th)'
  <2>1. p \in PC
    BY <1>7 DEF PC
  <2>2. Moved(th, p, "none", 1, 1, InitVal, TRUE)
    BY <1>7, <2>1, MoveAt
  <2> QED
    BY <1>7, <2>2, MovedAwake
<1>8. CASE /\ op(th) = "commitNested"
           /\ nest' = [nest EXCEPT ![th] = LET outer == SubSeq(@, 1, Len(@) - 1)
                                          IN  Append(outer, NewTRec(Last(outer).state))]
           /\ loc' = [loc EXCEPT ![th] = At("run")]
  <2>1. ~Waits(th)' /\ Level(th)' /\ ~Waits(th)
    BY <1>2, <1>7, <1>8
  <2> DEFINE d == Len(n) - 1
             o == SubSeq(n, 1, d)
  <2>2. d \in Nat /\ d <= Len(n) /\ d # 0
    <3>1. loc[th].lvl = Len(n) /\ loc[th].lvl > 1
      BY <1>8 DEF PlaceInv, NestInv
    <3>2. Len(n) \in Nat /\ Len(n) > 1
      BY <1>4, <3>1
    <3> HIDE DEF n
    <3> QED
      BY <3>2, OneLess
  <2>3. nest'[th] = Append(o, NewTRec(Last(o).state))
    BY <1>8 DEF TypeInv
  <2> HIDE DEF d
  <2>4. ~Parked(o) /\ o \in Seq(TRecType) /\ o # <<>>
    <3> HIDE DEF n
    <3> QED
      BY <1>3, <1>4, <2>1, <2>2, ParkedFront
  <2> HIDE DEF o
  <2>5. ~Parked(nest'[th])
    BY <2>3, <2>4, ParkedAppend
  <2> QED
    BY <1>1, <2>1, <2>5 DEF Awake
<1>9. CASE op(th) \in {"wait", "rewait"} /\ loc[th].ok /\ loc' = [loc EXCEPT ![th] = At("blocked")] /\ nest' = nest
  <2>1. Moved(th, "blocked", "none", 1, 1, InitVal, TRUE)
    BY <1>9, MoveAt DEF PC
  <2>2. WaitsAt("blocked", "none", TRUE) <=> Waits(th)
    BY <1>2, <1>9 DEF WaitsAt
  <2> QED
    BY <1>1, <1>9, <2>1, <2>2, MovedSame
<1>10. CASE op(th) = "rewait" /\ GotoEntry(th, "unwatch", 1) /\ nest' = nest
  <2>1. "unwatch" \in PC /\ 1 \in Nat \ {0}
    BY DEF PC
  <2>2. Moved(th, "unwatch", op(th), loc[th].lvl, 1, loc[th].saw, loc[th].ok)
    BY <1>10, <2>1, MoveEntry
  <2>3. (WaitsAt("unwatch", op(th), loc[th].ok) <=> Waits(th)) /\ ~Leaving(th)
    BY <1>1, <1>2, <1>10 DEF WaitsAt, Leaving
  <2> QED
    BY <1>1, <1>10, <2>2, <2>3, GoesOnSame
<1>11. CASE /\ op(th) \in {"validate", "throw"} /\ nest' = nest
            /\ loc' = [loc EXCEPT ![th].pc = "validate", ![th].i = 1, ![th].lvl = @ - 1]
  <2>1. loc \in [Thread -> LocType]
    BY DEF TypeInv
  <2>2. loc'[th].pc = "validate" /\ loc'[th].op = op(th)
    BY <1>11, <2>1 DEF LocType, op
  <2>3. ~Waits(th)' /\ ~Waits(th) /\ Level(th)' /\ ~Leaving(th)'
    BY <1>2, <1>11, <2>2 DEF Waits, Level, Leaving, pc, op
  <2> QED
    BY <1>1, <1>11, <2>3 DEF Same
<1>12. CASE op(th) = "validate" /\ loc' = [loc EXCEPT ![th] = At("run")] /\ nest' = nest
  <2>1. ~Waits(th)' /\ Level(th)' /\ ~Waits(th)
    BY <1>2, <1>7, <1>12
  <2> QED
    BY <1>1, <1>3, <1>12, <2>1 DEF Awake
<1>13. CASE /\ op(th) = "validate" /\ loc' = [loc EXCEPT ![th] = At("getInvariants")]
            /\ nest' = [nest EXCEPT ![th] = <<[AbortToTop(@) EXCEPT !.state = "CONDEMNED"]>>]
  <2>1. ~Waits(th)' /\ Level(th)' /\ ~Waits(th)
    BY <1>2, <1>7, <1>13
  <2> DEFINE a == AbortToTop(n)
             r == [a EXCEPT !.state = "CONDEMNED"]
  <2>2. a \in TRecType
    <3> HIDE DEF n
    <3> QED
      BY <1>4, AbortToTopFacts
  <2>3. r.state = "CONDEMNED"
    BY <2>2 DEF TRecType
  <2>4. nest'[th] = <<r>>
    BY <1>13 DEF TypeInv
  <2> HIDE DEF r
  <2>5. ~Parked(nest'[th])
    BY <2>3, <2>4, ParkedOne
  <2> QED
    BY <1>1, <2>1, <2>5 DEF Awake
<1> QED
  BY <1>2, <1>5, <1>6, <1>8, <1>9, <1>10, <1>11, <1>12, <1>13 DEF Reverted

-----------------------------------------------------------------------------
(* Joining the watch queues and leaving them. *)

Joins(th) ==
    /\ ~Waits(th) /\ Waits(th)' /\ ~Leaving(th)' /\ Level(th)'
    /\ nest[th] # <<>> /\ Parked(nest'[th]) /\ nest'[th][1].entries = nest[th][1].entries
    /\ watch' = [x \in TVar |-> IF Has(nest[th][1], x) THEN <<th>> \o watch[x] ELSE watch[x]]
    /\ \A x \in TVar : Has(nest[th][1], x) => current_value[x] = th

Quits(th) ==
    /\ Waits(th) /\ Leaving(th) /\ Waits(th)' /\ Leaving(th)' /\ Level(th)'
    /\ nest'[th] = nest[th] /\ loc'[th].i = loc[th].i + 1
    /\ loc[th].i \in DOMAIN nest[th][1].entries
    /\ LET x == nest[th][1].entries[loc[th].i].tvar
       IN  current_value[x] = th /\ watch' = [watch EXCEPT ![x] = RemoveFirst(watch[x], th)]

Ends(th) ==
    /\ Waits(th) /\ Leaving(th) /\ loc[th].i > Len(nest[th][1].entries)
    /\ watch' = watch /\ ~Waits(th)' /\ ~Parked(nest'[th]) /\ Level(th)'

Stays(th) == Same(th) /\ (Leaving(th) => Leaving(th)')

LEMMA LevelFacts ==
    ASSUME TypeInv, PlaceInv, NEW th \in Thread, WaitInv(th), pc(th) # "idle",
           op(th) \in {"wait", "rewait", "throwTo"}
    PROVE  /\ TRec(th) = nest[th][1] /\ Entries(th) = nest[th][1].entries /\ nest[th] # <<>>
           /\ nest[th][1] \in TRecType /\ 1 \in DOMAIN nest[th]
<1>1. loc[th].lvl = 1
  BY DEF WaitInv, Level
<1>2. TRec(th) \in TRecType /\ 1 \in DOMAIN nest[th] /\ nest[th] \in Seq(TRecType) /\ Len(nest[th]) > 0
  BY <1>1, ThreadFacts
<1>3. nest[th] # <<>>
  BY <1>2
<1> QED
  BY <1>1, <1>2, <1>3 DEF TRec, Entries

(* Who has validated all its entries holds them, and they contain what it  *)
(* expects.                                                                *)
LEMMA ValidatedHeld ==
    ASSUME TypeInv, PlaceInv, LockInv, NEW th \in Thread, pc(th) = "validate", AtEnd(th), acquire_all(th)
    PROVE  \A j \in DOMAIN Entries(th) :
              /\ current_value[Entries(th)[j].tvar] = th
              /\ Holds(Heap, Entries(th)[j])
<1> SUFFICES ASSUME NEW j \in DOMAIN Entries(th)
             PROVE  current_value[Entries(th)[j].tvar] = th /\ Holds(Heap, Entries(th)[j])
  OBVIOUS
<1> DEFINE x == Entries(th)[j].tvar
<1>1. j \in Nat /\ Len(Entries(th)) \in Nat /\ j <= Len(Entries(th)) /\ loc[th].i \in Nat
      /\ Distinct(Entries(th)) /\ x \in TVar
  BY WorkFacts, LocFacts
<1>2. MustHold(th, j)
  BY <1>1 DEF MustHold, Locks, AtEnd
<1>3. current_value[x] = th
  BY <1>2 DEF LockInv, HeldInv
<1>4. HolderInv(x)
  BY <1>1 DEF LockInv
<1>5. PICK m \in DOMAIN Entries(th) : Entries(th)[m].tvar = x /\ PutsBack(th, m) = Heap[x]
  BY <1>3, <1>4 DEF HolderInv
<1>6. m = j
  BY <1>1, <1>5 DEF Distinct
<1>7. Entries(th)[j].expected = Heap[x]
  BY <1>5, <1>6 DEF PutsBack, Committing
<1> QED
  BY <1>3, <1>7 DEF Holds

LEMMA ValidatedWait ==
    ASSUME TypeInv, PlaceInv, LockInv, NEW th \in Thread, WaitInv(th), Validated(th)
    PROVE  Same(th) \/ Joins(th)
<1>1. /\ pc(th) = "validate" /\ pc(th) # "idle" /\ AtEnd(th)
      /\ \E p \in {"checkReads", "revert"} :
            GotoEntry(th, p, 1) /\ (p = "checkReads" <=> op(th) \in {"commit", "commitNested"})
  BY DEF Validated
<1>2. PICK p \in {"checkReads", "revert"} :
            GotoEntry(th, p, 1) /\ (p = "checkReads" <=> op(th) \in {"commit", "commitNested"})
  BY <1>1
<1>3. p \in PC /\ 1 \in Nat \ {0}
  BY DEF PC
<1>4. Moved(th, p, op(th), loc[th].lvl, 1, loc[th].saw, loc[th].ok)
  BY <1>2, <1>3, MoveEntry
<1>5. CASE op(th) # "wait"
  <2>1. watch' = watch /\ nest' = nest
    BY <1>5 DEF Validated
  <2>2. WaitsAt(p, op(th), loc[th].ok) <=> Waits(th)
    BY <1>1, <1>2, <1>5 DEF WaitsAt, Waits
  <2> QED
    BY <1>1, <1>4, <2>1, <2>2, GoesOnSame
<1>6. CASE op(th) = "wait"
  <2>1. loc[th].ok /\ p = "revert"
    BY <1>1, <1>2, <1>6 DEF PlaceInv, OpInv
  <2>2. TRec(th) = nest[th][1] /\ Entries(th) = nest[th][1].entries /\ nest[th] # <<>>
        /\ nest[th][1] \in TRecType /\ 1 \in DOMAIN nest[th] /\ loc[th].lvl = 1
    BY <1>1, <1>6, LevelFacts DEF WaitInv, Level
  <2>3. ~Waits(th) /\ Waits(th)' /\ ~Leaving(th)' /\ Level(th)'
    BY <1>1, <1>4, <1>6, <2>1, <2>2 DEF Waits, Leaving, Level, Moved, pc, op
  <2>4. watch' = [x \in TVar |-> IF Has(nest[th][1], x) THEN <<th>> \o watch[x] ELSE watch[x]]
    BY <1>6, <2>2 DEF Validated, JoinQueues
  <2>5. nest' = [nest EXCEPT ![th][1].state = "WAITING"]
    BY <1>6 DEF Validated
  <2>6. nest[th][1] \in [state : TRecState, entries : Seq(EntryType)] /\ nest[th] \in Seq(TRecType)
        /\ nest \in [Thread -> Seq(TRecType)]
    BY <2>2 DEF TRecType, TypeInv
  <2> DEFINE r == [nest[th][1] EXCEPT !.state = "WAITING"]
             m == [nest[th] EXCEPT ![1] = r]
  <2>7. r.state = "WAITING" /\ r.entries = nest[th][1].entries
    BY <2>6
  <2>8. nest'[th] = m
    BY <2>5, <2>6
  <2> HIDE DEF r
  <2>9. m[1] = r /\ DOMAIN m = DOMAIN nest[th]
    BY <2>2
  <2>10. m # <<>>
    BY <2>2, <2>9
  <2> HIDE DEF m
  <2>11. Parked(nest'[th]) /\ nest'[th][1].entries = nest[th][1].entries
    BY <2>7, <2>8, <2>9, <2>10 DEF Parked
  <2>12. acquire_all(th)
    BY <1>6 DEF acquire_all
  <2>13. \A x \in TVar : Has(nest[th][1], x) => current_value[x] = th
    BY <1>1, <2>2, <2>12, ValidatedHeld DEF Has
  <2> QED
    BY <2>2, <2>3, <2>4, <2>11, <2>13 DEF Joins
<1> QED
  BY <1>5, <1>6

LEMMA UnwatchUnlockWait ==
    ASSUME TypeInv, PlaceInv, LockInv, scenario' = scenario, NEW th \in Thread, WaitInv(th), UnwatchUnlock(th)
    PROVE  Quits(th)
<1>1. EntryInv(th) /\ HeldInv(th)
  BY DEF LockInv
<1>2. pc(th) = "unwatchUnlock" /\ Goes(th, "unwatch", loc[th].i + 1) /\ pc(th) # "idle"
      /\ watch' = [watch EXCEPT ![Cur(th).tvar] = RemoveFirst(watch[Cur(th).tvar], th)]
  BY <1>1, UnwatchUnlockStep DEF UnwatchUnlock
<1>3. op(th) \in {"rewait", "throwTo"}
  BY <1>2 DEF PlaceInv, OpInv
<1>4. Entries(th) = nest[th][1].entries
  BY <1>2, <1>3, LevelFacts
<1>5. loc[th].i \in DOMAIN Entries(th) /\ Cur(th) = Entries(th)[loc[th].i] /\ loc[th].i \in Nat
  BY <1>1, <1>2, CurFacts
<1>6. current_value[Cur(th).tvar] = th
  BY <1>1, <1>2, <1>5 DEF HeldInv, MustHold
<1>7. Waits(th) /\ Leaving(th)
  BY <1>2 DEF Waits, Leaving
<1>8. loc'[th].pc = "unwatch" /\ loc'[th].op = op(th) /\ loc'[th].lvl = loc[th].lvl /\ nest' = nest
      /\ loc'[th].i = loc[th].i + 1
  BY <1>2 DEF Goes, Works
<1>9. Waits(th)' /\ Leaving(th)' /\ Level(th)'
  BY <1>8 DEF Waits, Leaving, Level, WaitInv, pc, op
<1> QED
  BY <1>2, <1>4, <1>5, <1>6, <1>7, <1>8, <1>9 DEF Quits

LEMMA UnwatchedWait ==
    ASSUME TypeInv, PlaceInv, NEW th \in Thread, WaitInv(th), Unwatched(th)
    PROVE  Ends(th)
<1>1. pc(th) = "unwatch" /\ pc(th) # "idle" /\ AtEnd(th) /\ watch' = watch /\ (StartTransaction(th) \/ Leave(th))
  BY DEF Unwatched, tvarVars
<1>2. op(th) \in {"rewait", "throwTo"}
  BY <1>1 DEF PlaceInv, OpInv
<1>3. loc[th].i > Len(nest[th][1].entries)
  BY <1>1, <1>2, LevelFacts DEF AtEnd
<1>4. Waits(th) /\ Leaving(th)
  BY <1>1 DEF Waits, Leaving
<1> QED
  BY <1>1, <1>3, <1>4, StartAwake, LeaveAwake DEF Ends

LEMMA LeavingSteps ==
    ASSUME NEW th \in Thread, Leaving(th), Quiet(th) \/ Step(th)
    PROVE  UnwatchLock(th) \/ UnwatchUnlock(th) \/ Unwatched(th)
<1>1. pc(th) \in {"unwatch", "unwatchUnlock"}
  BY DEF Leaving
<1>2. ~Body(th)
  BY <1>1 DEF Body, Atomically, ReadTVar, StartNested, Return, Retry, Throw, Yield
<1>3. ~Resume(th) /\ ~ThrowToMasked(th) /\ ~Wakeup(th) /\ ~ThrowToBlocked(th) /\ ~ThrowToRunnable(th)
  BY <1>1 DEF Resume, ThrowToMasked, Wakeup, ThrowToBlocked, ThrowToRunnable
<1>4. /\ ~GetInvLock(th) /\ ~GetInvUnlock(th) /\ ~ValidateEntry(th) /\ ~ReadVersion(th) /\ ~Recheck(th)
      /\ ~ValidateCondemned(th) /\ ~Validated(th) /\ ~Revert(th) /\ ~Reverted(th)
  BY <1>1 DEF GetInvLock, GetInvUnlock, ValidateEntry, ReadVersion, Recheck, ValidateCondemned, Validated,
              Revert, Reverted
<1>5. /\ ~CheckReadOnly(th) /\ ~Decide(th) /\ ~Update(th) /\ ~UnparkWaiter(th) /\ ~UnparkTSO(th)
      /\ ~BumpVersion(th) /\ ~StoreValue(th) /\ ~MergeEntry(th) /\ ~NestedCommitted(th)
  BY <1>1 DEF CheckReadOnly, Decide, Update, UnparkWaiter, UnparkTSO, BumpVersion, StoreValue, MergeEntry,
              NestedCommitted
<1> QED
  BY <1>2, <1>3, <1>4, <1>5 DEF Quiet, Step

(* Every step is of one of these kinds. *)
LEMMA WaitKinds ==
    ASSUME TypeInv, PlaceInv, LockInv, scenario' = scenario, NEW th \in Thread, WaitInv(th), Quiet(th) \/ Step(th)
    PROVE  Awake(th) \/ Stays(th) \/ Joins(th) \/ Quits(th) \/ Ends(th)
<1>0. EntryInv(th)
  BY DEF LockInv
<1>1. CASE Leaving(th)
  <2>1. CASE UnwatchLock(th)
    <3>1. Same(th) /\ Goes(th, "unwatchUnlock", loc[th].i)
      BY <2>1, UnwatchLockSame, UnwatchLockStep
    <3>2. Leaving(th)'
      BY <3>1 DEF Leaving, Goes, pc
    <3> QED
      BY <3>1, <3>2 DEF Stays
  <2> QED
    BY <1>1, <2>1, LeavingSteps, UnwatchUnlockWait, UnwatchedWait
<1>2. CASE ~Leaving(th)
  <2>1. ASSUME Same(th) PROVE Stays(th)
    BY <1>2, <2>1 DEF Stays
  <2>2. CASE Quiet(th)
    <3>1. CASE ThrowToRunnable(th)
      <4>1. CASE pc(th) = "run" /\ Leave(th)
        <5>1. watch' = watch
          BY <3>1 DEF ThrowToRunnable, tvarVars
        <5> QED
          BY <4>1, <5>1, LeaveAwake, RunAwake DEF Awake
      <4> QED
        BY <2>1, <3>1, <4>1, WaitingSame DEF ThrowToRunnable
    <3>2. CASE Unwatched(th)
      BY <3>2, UnwatchedWait
    <3>3. CASE Body(th)
      BY <3>3, BodyAwake
    <3> QED
      BY <2>1, <2>2, <3>1, <3>2, <3>3, WaitingSame DEF Quiet
  <2>3. CASE Step(th)
    <3>1. CASE GetInvLock(th) \/ GetInvUnlock(th)
      BY <1>0, <2>1, <3>1, GetInvSame
    <3>2. CASE ValidateEntry(th) \/ Recheck(th) \/ ValidateCondemned(th) \/ CheckReadOnly(th) \/ Decide(th)
      BY <2>1, <3>2, ValidateSame
    <3>3. CASE UnparkWaiter(th) \/ UnparkTSO(th) \/ BumpVersion(th) \/ StoreValue(th)
      BY <1>0, <2>1, <3>3, CommitSame
    <3>4. CASE Validated(th)
      BY <2>1, <3>4, ValidatedWait
    <3>5. CASE Revert(th)
      BY <2>1, <3>5, RevertSame
    <3>6. CASE Reverted(th)
      BY <2>1, <3>6, RevertedWait
    <3>7. CASE Update(th)
      BY <2>1, <3>7, UpdateWait
    <3>8. CASE ReadVersion(th) \/ MergeEntry(th) \/ NestedCommitted(th)
      BY <1>0, <3>8, ReadVersionAwake, MergeEntryAwake, NestedCommittedAwake
    <3>9. CASE Resume(th) \/ ThrowToMasked(th)
      BY <2>1, <3>9, WaitingSame
    <3>10. CASE UnwatchLock(th)
      BY <2>1, <3>10, UnwatchLockSame
    <3>11. CASE UnwatchUnlock(th) \/ Unwatched(th)
      BY <3>11, UnwatchUnlockWait, UnwatchedWait
    <3> QED
      BY <2>3, <3>1, <3>2, <3>3, <3>4, <3>5, <3>6, <3>7, <3>8, <3>9, <3>10, <3>11 DEF Step
  <2> QED
    BY <2>2, <2>3
<1> QED
  BY <1>1, <1>2

LEMMA WaitStep ==
    ASSUME TypeInv, PlaceInv, LockInv, scenario' = scenario, NEW th \in Thread, WaitInv(th), Quiet(th) \/ Step(th)
    PROVE  WaitInv(th)'
<1>1. CASE Awake(th)
  BY <1>1 DEF Awake, WaitInv, Parked
<1>2. CASE Stays(th)
  BY <1>2 DEF Stays, Same, WaitInv, Parked
<1>3. CASE Joins(th)
  BY <1>3 DEF Joins, WaitInv, Parked
<1>4. CASE Quits(th)
  BY <1>4 DEF Quits, WaitInv, Parked
<1>5. CASE Ends(th)
  BY <1>5 DEF Ends, WaitInv, Parked
<1> QED
  BY <1>1, <1>2, <1>3, <1>4, <1>5, WaitKinds

-----------------------------------------------------------------------------
(* The watch queues. *)

Listed(s, u) == \E q \in DOMAIN s : s[q] = u
Once(s) == \A q, r \in DOMAIN s : s[q] = s[r] => q = r

WatchInv ==
    \A x \in TVar : /\ Once(watch[x])
                    /\ \A th \in Thread : Listed(watch[x], th) <=> WaitsFor(th, x)

LEMMA PrependFacts ==
    ASSUME NEW S, NEW s \in Seq(S), NEW e \in S, Once(s), ~Listed(s, e)
    PROVE  Once(<<e>> \o s) /\ \A u : Listed(<<e>> \o s, u) <=> u = e \/ Listed(s, u)
<1> DEFINE t == <<e>> \o s
<1>1. t \in Seq(S) /\ Len(t) = Len(s) + 1 /\ t[1] = e /\ \A q \in 2..Len(t) : t[q] = s[q - 1]
  OBVIOUS
<1>2. DOMAIN t = 1..(Len(s) + 1) /\ DOMAIN s = 1..Len(s) /\ Len(s) \in Nat
  BY <1>1
<1>3. \A q \in DOMAIN s : q + 1 \in DOMAIN t /\ t[q + 1] = s[q]
  BY <1>1, <1>2
<1>4. \A q \in DOMAIN t : q = 1 \/ (q - 1 \in DOMAIN s /\ t[q] = s[q - 1])
  BY <1>1, <1>2
<1> HIDE DEF t
<1>5. ASSUME NEW u PROVE Listed(t, u) <=> u = e \/ Listed(s, u)
  <2>1. 1 \in DOMAIN t
    BY <1>2
  <2> QED
    BY <1>1, <1>3, <1>4, <2>1 DEF Listed
<1>6. Once(t)
  <2> SUFFICES ASSUME NEW q \in DOMAIN t, NEW r \in DOMAIN t, t[q] = t[r] PROVE q = r
    BY DEF Once
  <2>1. CASE q = 1 /\ r # 1
    BY <1>1, <1>4, <2>1 DEF Listed
  <2>2. CASE q # 1 /\ r = 1
    BY <1>1, <1>4, <2>2 DEF Listed
  <2>3. CASE q # 1 /\ r # 1
    <3>1. q - 1 \in DOMAIN s /\ r - 1 \in DOMAIN s /\ s[q - 1] = s[r - 1]
      BY <1>4, <2>3
    <3>2. q - 1 = r - 1
      BY <3>1 DEF Once
    <3> QED
      BY <1>2, <3>2
  <2> QED
    BY <2>1, <2>2, <2>3
<1> QED
  BY <1>5, <1>6 DEF t

LEMMA RemoveFirstFacts ==
    ASSUME NEW S, NEW s \in Seq(S), NEW e, Once(s), Listed(s, e)
    PROVE  /\ Once(RemoveFirst(s, e))
           /\ \A u : Listed(RemoveFirst(s, e), u) <=> u # e /\ Listed(s, u)
<1> DEFINE I == {i \in 1..Len(s) : s[i] = e}
           k == Min(I)
           t == RemoveFirst(s, e)
<1>0. DOMAIN s = 1..Len(s) /\ Len(s) \in Nat
  OBVIOUS
<1>1. \E i \in 1..Len(s) : s[i] = e
  BY <1>0 DEF Listed
<1>2. I # {} /\ I \subseteq Nat
  BY <1>1
<1>3. SelectInSeq(s, LAMBDA v : v = e) = k
  BY <1>2 DEF SelectInSeq
<1>4. k \in I
  <2> HIDE DEF I
  <2>1. \E m \in I : \A y \in I : m <= y
    BY <1>2, LeastMember
  <2> QED
    BY <2>1 DEF Min
<1>5. k \in 1..Len(s) /\ s[k] = e
  BY <1>4
<1> HIDE DEF I, k
<1> DEFINE a == SubSeq(s, 1, k - 1)
           b == SubSeq(s, k + 1, Len(s))
<1>6. /\ k - 1 \in Int /\ k + 1 \in Int /\ Len(s) \in Int /\ 1 \in Int
      /\ \A i \in 1..(k - 1) : s[i] \in S
      /\ \A i \in (k + 1)..Len(s) : s[i] \in S
  BY <1>5
<1>7. a \in Seq(S) /\ Len(a) = k - 1 /\ \A i \in 1..(k - 1) : a[i] = s[i]
  <2>1. a \in Seq(S) /\ Len(a) = (IF 1 <= k - 1 THEN k - 1 - 1 + 1 ELSE 0)
        /\ \A i \in 1..(k - 1 - 1 + 1) : a[i] = s[1 + i - 1]
    BY <1>6, SubSeqProperties
  <2> HIDE DEF a
  <2> QED
    BY <1>5, <2>1
<1>8. b \in Seq(S) /\ Len(b) = Len(s) - k /\ \A i \in 1..(Len(s) - k) : b[i] = s[k + i]
  <2>1. b \in Seq(S) /\ Len(b) = (IF k + 1 <= Len(s) THEN Len(s) - (k + 1) + 1 ELSE 0)
        /\ \A i \in 1..(Len(s) - (k + 1) + 1) : b[i] = s[k + 1 + i - 1]
    BY <1>6, SubSeqProperties
  <2> HIDE DEF b
  <2> QED
    BY <1>5, <2>1
<1>9. t = a \o b
  BY <1>1, <1>3 DEF RemoveFirst, RemoveAt
<1> HIDE DEF a, b, t
<1>10. t \in Seq(S) /\ Len(t) = Len(a) + Len(b)
       /\ \A i \in 1..(Len(a) + Len(b)) : t[i] = IF i <= Len(a) THEN a[i] ELSE b[i - Len(a)]
  BY <1>7, <1>8, <1>9, ConcatProperties
<1>11. Len(t) = Len(s) - 1 /\ DOMAIN t = 1..(Len(s) - 1)
  BY <1>5, <1>7, <1>8, <1>10
<1>12. \A i \in 1..(Len(s) - 1) : t[i] = IF i < k THEN s[i] ELSE s[i + 1]
  <2> SUFFICES ASSUME NEW i \in 1..(Len(s) - 1) PROVE t[i] = IF i < k THEN s[i] ELSE s[i + 1]
    OBVIOUS
  <2>1. t[i] = IF i <= k - 1 THEN a[i] ELSE b[i - (k - 1)]
    BY <1>5, <1>7, <1>8, <1>10
  <2>2. CASE i < k
    BY <1>5, <1>7, <2>1, <2>2
  <2>3. CASE ~(i < k)
    <3>1. i - (k - 1) \in 1..(Len(s) - k) /\ k + (i - (k - 1)) = i + 1
      BY <1>0, <1>5, <2>3
    <3>2. b[i - (k - 1)] = s[i + 1]
      BY <1>8, <3>1
    <3> QED
      BY <1>5, <2>1, <2>3, <3>2
  <2> QED
    BY <2>2, <2>3
<1>13. \A q \in DOMAIN t : \E r \in DOMAIN s : r # k /\ t[q] = s[r] /\ r = IF q < k THEN q ELSE q + 1
  BY <1>0, <1>5, <1>11, <1>12
<1>14. \A r \in DOMAIN s : r # k => \E q \in DOMAIN t : t[q] = s[r]
  <2> SUFFICES ASSUME NEW r \in DOMAIN s, r # k PROVE \E q \in DOMAIN t : t[q] = s[r]
    OBVIOUS
  <2>1. CASE r < k
    <3>1. r \in 1..(Len(s) - 1)
      BY <1>0, <1>5, <2>1
    <3> QED
      BY <1>11, <1>12, <2>1, <3>1
  <2>2. CASE r > k
    <3>1. r - 1 \in 1..(Len(s) - 1) /\ ~(r - 1 < k) /\ r - 1 + 1 = r
      BY <1>0, <1>5, <2>2
    <3>2. t[r - 1] = s[r]
      BY <1>12, <3>1
    <3> QED
      BY <1>11, <3>1, <3>2
  <2> QED
    BY <1>0, <1>5, <2>1, <2>2
<1>15. \A r \in DOMAIN s : s[r] = e <=> r = k
  BY <1>0, <1>5 DEF Once
<1>16. ASSUME NEW u PROVE Listed(t, u) <=> u # e /\ Listed(s, u)
  BY <1>13, <1>14, <1>15 DEF Listed
<1>17. Once(t)
  <2> SUFFICES ASSUME NEW q \in DOMAIN t, NEW r \in DOMAIN t, t[q] = t[r] PROVE q = r
    BY DEF Once
  <2>1. PICK m \in DOMAIN s : t[q] = s[m] /\ m = IF q < k THEN q ELSE q + 1
    BY <1>13
  <2>2. PICK n \in DOMAIN s : t[r] = s[n] /\ n = IF r < k THEN r ELSE r + 1
    BY <1>13
  <2>3. m = n
    BY <2>1, <2>2 DEF Once
  <2>4. q \in Nat /\ r \in Nat /\ k \in Nat
    BY <1>0, <1>5, <1>11
  <2> QED
    BY <2>1, <2>2, <2>3, <2>4
<1> QED
  BY <1>16, <1>17 DEF t

(* A queue changes for the holder of its TVar only. *)
WatchKept(th) == \A x \in TVar : watch'[x] = watch[x] \/ current_value[x] = th

(* What WaitsFor says in terms of the record. *)
LEMMA WaitsForFacts ==
    ASSUME NEW th \in Thread, NEW x
    PROVE  WaitsFor(th, x) <=> /\ Parked(nest[th]) /\ Has(nest[th][1], x)
                               /\ Leaving(th) => IndexOf(nest[th][1], x) >= loc[th].i
  BY DEF WaitsFor, Parked, Leaving

LEMMA WaitsForNext ==
    ASSUME NEW th \in Thread, NEW x
    PROVE  WaitsFor(th, x)' <=> /\ Parked(nest'[th]) /\ Has(nest'[th][1], x)
                                /\ Leaving(th)' => IndexOf(nest'[th][1], x) >= loc'[th].i
  BY DEF WaitsFor, Parked, Leaving, Has, IndexOf

LEMMA WatchOther ==
    ASSUME NEW th \in Thread, Others(th), NEW u \in Thread, u # th, NEW x
    PROVE  WaitsFor(u, x)' <=> WaitsFor(u, x)
<1>1. loc'[u] = loc[u] /\ nest'[u] = nest[u]
  BY DEF Others
<1> QED
  BY <1>1, WaitsForFacts, WaitsForNext DEF Leaving, pc

LEMMA WatchSame ==
    ASSUME WatchInv, NEW th \in Thread, Others(th), watch' = watch,
           \A x \in TVar : WaitsFor(th, x)' <=> WaitsFor(th, x)
    PROVE  WatchInv' /\ WatchKept(th)
<1>1. \A x \in TVar, u \in Thread : WaitsFor(u, x)' <=> WaitsFor(u, x)
  BY WatchOther
<1>2. WatchKept(th)
  BY DEF WatchKept
<1>3. ASSUME NEW x \in TVar PROVE Once(watch[x])' /\ \A u \in Thread : Listed(watch[x], u)' <=> WaitsFor(u, x)'
  BY <1>1 DEF WatchInv, Once, Listed
<1> QED
  BY <1>2, <1>3 DEF WatchInv

LEMMA WatchStep ==
    ASSUME TypeInv, PlaceInv, LockInv, WatchInv, scenario' = scenario, NEW th \in Thread, WaitInv(th),
           Quiet(th) \/ Step(th), Others(th)
    PROVE  WatchInv' /\ WatchKept(th)
<1>1. CASE Awake(th)
  <2>1. ~Parked(nest[th]) /\ ~Parked(nest'[th]) /\ watch' = watch
    BY <1>1 DEF Awake, WaitInv
  <2> QED
    BY <2>1, WatchSame, WaitsForFacts, WaitsForNext
<1>2. CASE Stays(th)
  <2>1. watch' = watch /\ nest'[th] = nest[th]
        /\ (Leaving(th)' => loc'[th].i = IF Leaving(th) THEN loc[th].i ELSE 1)
        /\ (Leaving(th) => Leaving(th)')
    BY <1>2 DEF Stays, Same
  <2>2. ASSUME NEW x \in TVar PROVE WaitsFor(th, x)' <=> WaitsFor(th, x)
    <3>1. Parked(nest[th]) /\ Has(nest[th][1], x) => IndexOf(nest[th][1], x) >= 1
      <4> SUFFICES ASSUME Parked(nest[th]), Has(nest[th][1], x) PROVE IndexOf(nest[th][1], x) >= 1
        OBVIOUS
      <4>1. nest[th] \in Seq(TRecType) /\ nest[th] # <<>>
        BY DEF Parked, TypeInv
      <4>2. nest[th][1] \in TRecType
        BY <4>1
      <4> QED
        BY <4>2, TRecFacts
    <3> QED
      BY <2>1, <3>1, WaitsForFacts, WaitsForNext
  <2> QED
    BY <2>1, <2>2, WatchSame
<1>3. CASE Joins(th)
  <2> DEFINE r == nest[th][1]
  <2>1. /\ ~Parked(nest[th]) /\ Parked(nest'[th]) /\ ~Leaving(th)'
        /\ nest'[th][1].entries = r.entries
        /\ watch' = [x \in TVar |-> IF Has(r, x) THEN <<th>> \o watch[x] ELSE watch[x]]
        /\ \A x \in TVar : Has(r, x) => current_value[x] = th
    BY <1>3 DEF Joins, WaitInv
  <2>2. \A x : Has(nest'[th][1], x) <=> Has(r, x)
    BY <2>1 DEF Has
  <2> HIDE DEF r
  <2>3. \A x \in TVar : ~WaitsFor(th, x) /\ (WaitsFor(th, x)' <=> Has(r, x))
    BY <2>1, <2>2, WaitsForFacts, WaitsForNext
  <2>4. WatchKept(th)
    BY <2>1 DEF WatchKept
  <2>5. ASSUME NEW x \in TVar PROVE Once(watch'[x]) /\ \A u \in Thread : Listed(watch'[x], u) <=> WaitsFor(u, x)'
    <3>1. watch[x] \in Seq(Thread) /\ Once(watch[x]) /\ ~Listed(watch[x], th)
      BY <2>3 DEF WatchInv, TypeInv
    <3>2. CASE ~Has(r, x)
      <4>1. watch'[x] = watch[x]
        BY <2>1, <3>2
      <4>2. ASSUME NEW u \in Thread PROVE Listed(watch[x], u) <=> WaitsFor(u, x)'
        <5>1. Listed(watch[x], u) <=> WaitsFor(u, x)
          BY DEF WatchInv
        <5> QED
          BY <2>3, <3>2, <5>1, WatchOther
      <4> QED
        BY <3>1, <4>1, <4>2
    <3>3. CASE Has(r, x)
      <4>1. watch'[x] = <<th>> \o watch[x]
        BY <2>1, <3>3
      <4>2. Once(<<th>> \o watch[x]) /\ \A u : Listed(<<th>> \o watch[x], u) <=> u = th \/ Listed(watch[x], u)
        BY <3>1, PrependFacts
      <4>3. ASSUME NEW u \in Thread PROVE u = th \/ Listed(watch[x], u) <=> WaitsFor(u, x)'
        <5>1. Listed(watch[x], u) <=> WaitsFor(u, x)
          BY DEF WatchInv
        <5> QED
          BY <2>3, <3>3, <5>1, WatchOther
      <4> QED
        BY <4>1, <4>2, <4>3
    <3> QED
      BY <3>2, <3>3
  <2>6. WatchInv'
    BY <2>5 DEF WatchInv, Once, Listed
  <2> QED
    BY <2>4, <2>6
<1>4. CASE Quits(th)
  <2> DEFINE r == nest[th][1]
  <2>0. PICK y, i : y = r.entries[loc[th].i].tvar /\ i = loc[th].i
    OBVIOUS
  <2>1. /\ Parked(nest[th]) /\ Leaving(th) /\ Leaving(th)' /\ nest'[th] = nest[th] /\ loc'[th].i = i + 1
        /\ i \in DOMAIN r.entries /\ current_value[y] = th /\ loc[th].i = i /\ y = r.entries[i].tvar
        /\ watch' = [watch EXCEPT ![y] = RemoveFirst(watch[y], th)]
    BY <1>4, <2>0 DEF Quits, WaitInv
  <2>2. r \in TRecType
    <3>1. nest[th] \in Seq(TRecType) /\ nest[th] # <<>>
      BY <2>1 DEF Parked, TypeInv
    <3> QED
      BY <3>1
  <2>3. Parked(nest'[th]) /\ nest'[th][1] = r
    BY <2>1
  <2> HIDE DEF r
  <2>4. y \in TVar /\ Has(r, y) /\ IndexOf(r, y) = i /\ i \in Nat
    BY <2>1, <2>2, TRecFacts
  <2>5. \A x \in TVar : x # y /\ Has(r, x) => IndexOf(r, x) # i /\ IndexOf(r, x) \in Nat
    BY <2>2, <2>4, TRecFacts
  <2>6. \A x \in TVar : (WaitsFor(th, x) <=> Has(r, x) /\ IndexOf(r, x) >= i)
                        /\ (WaitsFor(th, x)' <=> Has(r, x) /\ IndexOf(r, x) >= i + 1)
    BY <2>1, <2>3, WaitsForFacts, WaitsForNext DEF r
  <2>7. \A x \in TVar : x # y => (WaitsFor(th, x)' <=> WaitsFor(th, x))
    BY <2>4, <2>5, <2>6
  <2>8. WaitsFor(th, y) /\ ~WaitsFor(th, y)'
    BY <2>4, <2>6
  <2>9. watch \in [TVar -> Seq(Thread)]
    BY DEF TypeInv
  <2>10. WatchKept(th)
    BY <2>1, <2>9 DEF WatchKept
  <2>11. ASSUME NEW x \in TVar PROVE Once(watch'[x]) /\ \A u \in Thread : Listed(watch'[x], u) <=> WaitsFor(u, x)'
    <3>1. watch[x] \in Seq(Thread) /\ Once(watch[x])
      BY <2>9 DEF WatchInv
    <3>2. CASE x # y
      <4>1. watch'[x] = watch[x]
        BY <2>1, <2>9, <3>2
      <4>2. ASSUME NEW u \in Thread PROVE Listed(watch[x], u) <=> WaitsFor(u, x)'
        <5>1. Listed(watch[x], u) <=> WaitsFor(u, x)
          BY DEF WatchInv
        <5> QED
          BY <2>7, <3>2, <5>1, WatchOther
      <4> QED
        BY <3>1, <4>1, <4>2
    <3>3. CASE x = y
      <4>1. watch'[x] = RemoveFirst(watch[x], th)
        BY <2>1, <2>9, <3>3
      <4>2. Listed(watch[x], th)
        BY <2>8, <3>3 DEF WatchInv
      <4>3. Once(RemoveFirst(watch[x], th))
            /\ \A u : Listed(RemoveFirst(watch[x], th), u) <=> u # th /\ Listed(watch[x], u)
        BY <3>1, <4>2, RemoveFirstFacts
      <4>4. ASSUME NEW u \in Thread PROVE u # th /\ Listed(watch[x], u) <=> WaitsFor(u, x)'
        <5>1. Listed(watch[x], u) <=> WaitsFor(u, x)
          BY DEF WatchInv
        <5> QED
          BY <2>8, <3>3, <5>1, WatchOther
      <4> QED
        BY <4>1, <4>3, <4>4
    <3> QED
      BY <3>2, <3>3
  <2>12. WatchInv'
    BY <2>11 DEF WatchInv, Once, Listed
  <2> QED
    BY <2>10, <2>12
<1>5. CASE Ends(th)
  <2> DEFINE r == nest[th][1]
  <2>1. Parked(nest[th]) /\ Leaving(th) /\ loc[th].i > Len(r.entries) /\ ~Parked(nest'[th]) /\ watch' = watch
    BY <1>5 DEF Ends, WaitInv
  <2>2. r \in TRecType
    <3>1. nest[th] \in Seq(TRecType) /\ nest[th] # <<>>
      BY <2>1 DEF Parked, TypeInv
    <3> QED
      BY <3>1
  <2>3. loc[th].i \in Nat
    BY LocFacts
  <2> HIDE DEF r
  <2>4. \A x : Has(r, x) => ~(IndexOf(r, x) >= loc[th].i)
    BY <2>1, <2>2, <2>3, TRecFacts
  <2>5. \A x \in TVar : WaitsFor(th, x)' <=> WaitsFor(th, x)
    BY <2>1, <2>4, WaitsForFacts, WaitsForNext DEF r
  <2> QED
    BY <2>1, <2>5, WatchSame
<1> QED
  BY <1>1, <1>2, <1>3, <1>4, <1>5, WaitKinds

LEMMA InvWatchersWait == WatchInv => WatchersWait
<1> SUFFICES ASSUME WatchInv, NEW x \in TVar, NEW th \in Thread
             PROVE  Cardinality({q \in DOMAIN watch[x] : watch[x][q] = th}) = IF WaitsFor(th, x) THEN 1 ELSE 0
  BY DEF WatchersWait
<1> DEFINE S == {q \in DOMAIN watch[x] : watch[x][q] = th}
<1>1. Once(watch[x]) /\ (Listed(watch[x], th) <=> WaitsFor(th, x))
  BY DEF WatchInv
<1>2. CASE WaitsFor(th, x)
  <2>1. PICK q \in DOMAIN watch[x] : watch[x][q] = th
    BY <1>1, <1>2 DEF Listed
  <2>2. S = {q}
    BY <1>1, <2>1 DEF Once
  <2> QED
    BY <1>2, <2>2, FS_Singleton
<1>3. CASE ~WaitsFor(th, x)
  <2>1. S = {}
    BY <1>1, <1>3 DEF Listed
  <2> QED
    BY <1>3, <2>1, FS_EmptySet
<1> QED
  BY <1>2, <1>3

-----------------------------------------------------------------------------
(* Frames and records. *)

(* Nobody raises an exception in an orElse inside a catchSTM. *)
Plainly(th) == ~({"orElse", "catch", "throw"} \subseteq Ops[th])
Plain == \A th \in Thread : Plainly(th)

FrameOf(th, f) == IF f = "catch" THEN "catch" \in Ops[th] ELSE "orElse" \in Ops[th]

FrameInv(th) ==
    /\ \A d \in DOMAIN frames[th] : FrameOf(th, frames[th][d])
    /\ Plainly(th) /\ nest[th] # <<>> => Len(nest[th]) = Len(frames[th]) + 1

LEMMA FrameKeep ==
    ASSUME NEW th \in Thread, scenario' = scenario, FrameInv(th), frames'[th] = frames[th],
           nest[th] # <<>>, Len(nest'[th]) = Len(nest[th])
    PROVE  FrameInv(th)'
  BY DEF FrameInv, FrameOf, Plainly, Ops

LEMMA FrameNew ==
    ASSUME NEW th \in Thread, frames'[th] = <<>>, nest'[th] = <<>> \/ Len(nest'[th]) = 1
    PROVE  FrameInv(th)'
<1>1. DOMAIN frames'[th] = {} /\ Len(frames'[th]) = 0
  OBVIOUS
<1> QED
  BY <1>1 DEF FrameInv

(* A nest that keeps its length, or starts again. *)
LEMMA FrameStart ==
    ASSUME TypeInv, NEW th \in Thread, StartTransaction(th) \/ Leave(th)
    PROVE  FrameInv(th)'
<1>1. frames'[th] = <<>> /\ (nest'[th] = <<>> \/ nest'[th] = <<NewTRec("ACTIVE")>>)
  BY DEF StartTransaction, Leave, TypeInv
<1>2. Len(<<NewTRec("ACTIVE")>>) = 1
  OBVIOUS
<1> QED
  BY <1>1, <1>2, FrameNew

LEMMA FrameExcept ==
    ASSUME TypeInv, PlaceInv, NEW th \in Thread, scenario' = scenario, FrameInv(th), pc(th) # "idle",
           frames' = frames, NEW l, NEW r, nest' = [nest EXCEPT ![th] = [nest[th] EXCEPT ![l] = r]]
    PROVE  FrameInv(th)'
<1>1. nest[th] \in Seq(TRecType) /\ Len(nest[th]) > 0 /\ DOMAIN nest[th] = 1..Len(nest[th]) /\ Len(nest[th]) \in Nat
  BY ThreadFacts
<1> DEFINE m == [nest[th] EXCEPT ![l] = r]
<1>2. DOMAIN m = 1..Len(nest[th])
  BY <1>1
<1>3. Len(m) = Len(nest[th])
  BY <1>1, <1>2
<1>4. nest'[th] = m
  BY DEF TypeInv
<1>5. nest[th] # <<>>
  BY <1>1
<1> HIDE DEF m
<1> QED
  BY <1>3, <1>4, <1>5, FrameKeep

LEMMA FrameRetry ==
    ASSUME TypeInv, PlaceInv, NEW th \in Thread, scenario' = scenario, FrameInv(th), Retry(th)
    PROVE  FrameInv(th)'
<1> DEFINE n == nest[th]
           fr == frames[th]
           inner == {d \in DOMAIN fr : \A d2 \in d..Len(fr) : fr[d2] # "first"}
           stop == Len(fr) - Cardinality(inner)
           t == SubSeq(n, stop + 1, Len(n))
           a == AbortToTop(t)
           outer == MergeReads(n[stop], a)
           m == SubSeq(n, 1, stop - 1) \o <<outer, NewTRec(outer.state)>>
           g == Append(SubSeq(fr, 1, stop - 1), "alt")
<1>1. /\ pc(th) = "run" /\ pc(th) # "idle"
      /\ \/ /\ stop = 0 /\ nest' = [nest EXCEPT ![th] = <<a>>] /\ frames' = [frames EXCEPT ![th] = <<>>]
         \/ /\ stop # 0 /\ nest' = [nest EXCEPT ![th] = m] /\ frames' = [frames EXCEPT ![th] = g]
  BY DEF Retry
<1>2. n \in Seq(TRecType) /\ Len(n) \in Nat /\ Len(fr) < Len(n) /\ Len(fr) \in Nat /\ DOMAIN fr = 1..Len(fr)
      /\ fr \in Seq({"first", "alt", "catch"})
  BY <1>1, ThreadFacts DEF PlaceInv, NestInv
<1>3. stop \in 0..Len(fr) /\ (stop # 0 => \E d \in DOMAIN fr : fr[d] = "first")
  BY <1>2, InnerFrames
<1> HIDE DEF stop
<1>4. CASE stop = 0
  <2>1. nest'[th] = <<a>> /\ frames'[th] = <<>>
    BY <1>1, <1>4 DEF TypeInv
  <2> HIDE DEF a
  <2>2. Len(<<a>>) = 1
    OBVIOUS
  <2> QED
    BY <2>1, <2>2, FrameNew
<1>5. CASE stop # 0
  <2>1. nest'[th] = m /\ frames'[th] = g
    BY <1>1, <1>5 DEF TypeInv
  <2>2. stop \in Nat \ {0} /\ stop < Len(n) /\ stop <= Len(fr)
    BY <1>2, <1>3, <1>5
  <2>3. Len(m) = stop + 1
    <3> HIDE DEF n
    <3> QED
      BY <1>2, <2>2, RetryNest
  <2>4. Len(g) = stop /\ DOMAIN g = 1..stop /\ \A d \in 1..(stop - 1) : g[d] = fr[d]
    <3> DEFINE h == SubSeq(fr, 1, stop - 1)
    <3>1. h \in Seq({"first", "alt", "catch"}) /\ Len(h) = stop - 1 /\ \A d \in 1..(stop - 1) : h[d] = fr[d]
      BY <1>2, <2>2
    <3> HIDE DEF h
    <3>2. Len(Append(h, "alt")) = stop /\ DOMAIN Append(h, "alt") = 1..stop
          /\ \A d \in 1..(stop - 1) : Append(h, "alt")[d] = h[d]
      BY <2>2, <3>1
    <3> QED
      BY <3>1, <3>2 DEF h
  <2>5. g[stop] = "alt"
    <3> DEFINE h == SubSeq(fr, 1, stop - 1)
    <3>1. h \in Seq({"first", "alt", "catch"}) /\ Len(h) = stop - 1
      BY <1>2, <2>2
    <3> HIDE DEF h
    <3>2. Append(h, "alt")[stop] = "alt"
      BY <2>2, <3>1
    <3> QED
      BY <3>2 DEF h
  <2>6. "orElse" \in Ops[th]
    <3>1. PICK d \in DOMAIN fr : fr[d] = "first"
      BY <1>3, <1>5
    <3> QED
      BY <3>1 DEF FrameInv, FrameOf
  <2>7. \A d \in DOMAIN g : FrameOf(th, g[d])
    <3> SUFFICES ASSUME NEW d \in DOMAIN g PROVE FrameOf(th, g[d])
      OBVIOUS
    <3>1. CASE d = stop
      BY <2>5, <2>6, <3>1 DEF FrameOf
    <3>2. CASE d # stop
      <4>1. d \in 1..(stop - 1) /\ d \in DOMAIN fr
        BY <1>2, <2>2, <2>4, <3>2
      <4> QED
        BY <2>4, <4>1 DEF FrameInv
    <3> QED
      BY <3>1, <3>2
  <2> HIDE DEF m, g
  <2>8. \A d \in DOMAIN frames'[th] : FrameOf(th, frames'[th][d])
    BY <2>1, <2>7
  <2>9. Len(nest'[th]) = Len(frames'[th]) + 1
    BY <2>1, <2>3, <2>4
  <2> QED
    BY <2>8, <2>9 DEF FrameInv, FrameOf, Ops
<1> QED
  BY <1>4, <1>5

LEMMA FrameThrow ==
    ASSUME TypeInv, PlaceInv, NEW th \in Thread, scenario' = scenario, FrameInv(th), Throw(th)
    PROVE  FrameInv(th)'
<1> DEFINE n == nest[th]
           fr == frames[th]
<1>0. pc(th) = "run" /\ pc(th) # "idle" /\ "throw" \in Ops[th]
  BY DEF Throw
<1>1. n \in Seq(TRecType) /\ Len(n) \in Nat /\ Len(fr) < Len(n) /\ Len(fr) \in Nat /\ DOMAIN fr = 1..Len(fr)
      /\ fr \in Seq({"first", "alt", "catch"}) /\ n # <<>>
  <2>1. n \in Seq(TRecType) /\ Len(n) \in Nat /\ Len(fr) < Len(n) /\ Len(fr) \in Nat /\ DOMAIN fr = 1..Len(fr)
      /\ fr \in Seq({"first", "alt", "catch"}) /\ Len(n) > 0
    BY <1>0, ThreadFacts DEF PlaceInv, NestInv
  <2> QED
    BY <2>1
<1>2. CASE nest' = nest /\ frames' = frames
  BY <1>1, <1>2, FrameKeep
<1>3. CASE ~(nest' = nest /\ frames' = frames)
  <2>1. PICK d \in DOMAIN fr :
            /\ fr[d] = "catch" /\ \A d2 \in DOMAIN fr : fr[d2] = "catch" => d2 <= d
            /\ nest' = [nest EXCEPT ![th] = AbortNested(n)]
            /\ frames' = [frames EXCEPT ![th] = SubSeq(fr, 1, d - 1)]
    BY <1>3 DEF Throw
  <2>2. nest'[th] = AbortNested(n) /\ frames'[th] = SubSeq(fr, 1, d - 1)
    BY <2>1 DEF TypeInv
  <2>3. Len(n) > 1 /\ d \in 1..Len(fr)
    BY <1>1
  <2>4. Len(nest'[th]) = Len(n) - 1
    <3> HIDE DEF n
    <3> QED
      BY <1>1, <2>2, <2>3, ThrowNest
  <2>5. Len(frames'[th]) = d - 1 /\ DOMAIN frames'[th] = 1..(d - 1) /\ \A c \in 1..(d - 1) : frames'[th][c] = fr[c]
    BY <1>1, <2>2, <2>3
  <2>6. \A c \in DOMAIN frames'[th] : FrameOf(th, frames'[th][c])
    BY <1>1, <2>3, <2>5 DEF FrameInv
  <2>7. ASSUME Plainly(th) PROVE Len(nest'[th]) = Len(frames'[th]) + 1
    <3>1. "catch" \in Ops[th]
      BY <2>1 DEF FrameInv, FrameOf
    <3>2. "orElse" \notin Ops[th]
      BY <1>0, <2>7, <3>1 DEF Plainly
    <3>3. \A c \in DOMAIN fr : fr[c] = "catch"
      BY <3>2 DEF FrameInv, FrameOf
    <3>4. Len(fr) \in DOMAIN fr
      BY <1>1, <2>3
    <3>5. Len(fr) <= d
      BY <2>1, <3>3, <3>4
    <3>6. d = Len(fr)
      BY <1>1, <2>3, <3>5
    <3>7. Len(n) = Len(fr) + 1
      BY <1>1, <2>7 DEF FrameInv
    <3> QED
      BY <1>1, <2>4, <2>5, <3>6, <3>7
  <2> QED
    BY <2>6, <2>7 DEF FrameInv, FrameOf, Plainly, Ops
<1> QED
  BY <1>2, <1>3

LEMMA FrameNested ==
    ASSUME TypeInv, PlaceInv, NEW th \in Thread, scenario' = scenario, FrameInv(th), NEW f \in {"first", "catch"},
           StartNested(th, f)
    PROVE  FrameInv(th)'
<1> DEFINE n == nest[th]
           fr == frames[th]
           r == NewTRec(Last(n).state)
<1>1. /\ pc(th) = "run" /\ pc(th) # "idle"
      /\ nest' = [nest EXCEPT ![th] = Append(n, r)] /\ frames' = [frames EXCEPT ![th] = Append(fr, f)]
  BY DEF StartNested
<1>2. FrameOf(th, f)
  BY DEF StartNested, FrameOf
<1>3. n \in Seq(TRecType) /\ fr \in Seq({"first", "alt", "catch"}) /\ n # <<>> /\ Len(fr) \in Nat /\ DOMAIN fr = 1..Len(fr)
  <2>1. n \in Seq(TRecType) /\ fr \in Seq({"first", "alt", "catch"}) /\ Len(n) > 0 /\ Len(fr) \in Nat
        /\ DOMAIN fr = 1..Len(fr)
    BY <1>1, ThreadFacts
  <2> QED
    BY <2>1
<1>4. nest'[th] = Append(n, r) /\ frames'[th] = Append(fr, f)
  BY <1>1 DEF TypeInv
<1> HIDE DEF r
<1>5. Len(nest'[th]) = Len(n) + 1
  <2> HIDE DEF n
  <2> QED
    BY <1>3, <1>4
<1>6. Len(frames'[th]) = Len(fr) + 1 /\ DOMAIN frames'[th] = 1..(Len(fr) + 1) /\ frames'[th][Len(fr) + 1] = f
      /\ \A d \in 1..Len(fr) : frames'[th][d] = fr[d]
  BY <1>3, <1>4
<1>7. \A d \in DOMAIN frames'[th] : FrameOf(th, frames'[th][d])
  <2> SUFFICES ASSUME NEW d \in DOMAIN frames'[th] PROVE FrameOf(th, frames'[th][d])
    OBVIOUS
  <2>1. CASE d = Len(fr) + 1
    BY <1>2, <1>6, <2>1
  <2>2. CASE d # Len(fr) + 1
    <3>1. d \in 1..Len(fr)
      BY <1>3, <1>6, <2>2
    <3> QED
      BY <1>3, <1>6, <3>1 DEF FrameInv
  <2> QED
    BY <2>1, <2>2
<1>8. Plainly(th) => Len(nest'[th]) = Len(frames'[th]) + 1
  BY <1>3, <1>5, <1>6 DEF FrameInv
<1> QED
  BY <1>7, <1>8 DEF FrameInv, FrameOf, Plainly, Ops

LEMMA FrameCommitted ==
    ASSUME TypeInv, PlaceInv, NEW th \in Thread, scenario' = scenario, FrameInv(th), NestedCommitted(th)
    PROVE  FrameInv(th)'
<1> DEFINE n == nest[th]
           fr == frames[th]
<1>1. /\ pc(th) = "merge" /\ pc(th) # "idle"
      /\ nest' = [nest EXCEPT ![th] = SubSeq(n, 1, Len(n) - 1)]
      /\ frames' = [frames EXCEPT ![th] = SubSeq(fr, 1, Len(fr) - 1)]
  BY DEF NestedCommitted
<1>2. n \in Seq(TRecType) /\ fr \in Seq({"first", "alt", "catch"}) /\ n # <<>> /\ Len(fr) \in Nat /\ DOMAIN fr = 1..Len(fr)
      /\ Len(n) \in Nat \ {0} /\ Len(fr) \in Nat \ {0}
  <2>1. n \in Seq(TRecType) /\ fr \in Seq({"first", "alt", "catch"}) /\ Len(n) > 0 /\ Len(fr) \in Nat
        /\ DOMAIN fr = 1..Len(fr) /\ Len(n) \in Nat
    BY <1>1, ThreadFacts
  <2>2. fr # <<>>
    BY <1>1 DEF PlaceInv, OpInv, NestInv
  <2>3. Len(fr) # 0
    BY <2>1, <2>2
  <2> QED
    BY <2>1, <2>3
<1>3. nest'[th] = SubSeq(n, 1, Len(n) - 1) /\ frames'[th] = SubSeq(fr, 1, Len(fr) - 1)
  BY <1>1 DEF TypeInv
<1>4. Len(nest'[th]) = Len(n) - 1
  <2> HIDE DEF n
  <2> QED
    BY <1>2, <1>3, FrontFacts
<1>5. Len(frames'[th]) = Len(fr) - 1 /\ DOMAIN frames'[th] = 1..(Len(fr) - 1)
      /\ \A d \in 1..(Len(fr) - 1) : frames'[th][d] = fr[d]
  BY <1>2, <1>3
<1>6. \A d \in DOMAIN frames'[th] : FrameOf(th, frames'[th][d])
  BY <1>2, <1>5 DEF FrameInv
<1>7. Plainly(th) => Len(nest'[th]) = Len(frames'[th]) + 1
  BY <1>2, <1>4, <1>5 DEF FrameInv
<1> QED
  BY <1>6, <1>7 DEF FrameInv, FrameOf, Plainly, Ops

LEMMA FrameReverted ==
    ASSUME TypeInv, PlaceInv, NEW th \in Thread, scenario' = scenario, FrameInv(th), Reverted(th)
    PROVE  FrameInv(th)'
<1> DEFINE n == nest[th]
<1>1. pc(th) # "idle"
  BY DEF Reverted
<1>2. n \in Seq(TRecType) /\ Len(n) \in Nat /\ Len(n) > 0 /\ n # <<>>
  <2>1. n \in Seq(TRecType) /\ Len(n) \in Nat /\ Len(n) > 0
    BY <1>1, ThreadFacts
  <2> QED
    BY <2>1
<1>3. CASE StartTransaction(th) \/ Leave(th)
  BY <1>3, FrameStart
<1>4. CASE nest' = nest /\ frames' = frames
  BY <1>2, <1>4, FrameKeep
<1>5. CASE /\ nest' = [nest EXCEPT ![th] = LET outer == SubSeq(@, 1, Len(@) - 1)
                                          IN  Append(outer, NewTRec(Last(outer).state))]
           /\ frames' = frames
  <2> DEFINE o == SubSeq(n, 1, Len(n) - 1)
             r == NewTRec(Last(o).state)
  <2>1. nest'[th] = Append(o, r)
    BY <1>5 DEF TypeInv
  <2> HIDE DEF r
  <2>2. Len(nest'[th]) = Len(n)
    <3> HIDE DEF n
    <3>1. o \in Seq(TRecType) /\ Len(o) = Len(n) - 1
      BY <1>2, FrontFacts
    <3> HIDE DEF o
    <3> QED
      BY <1>2, <2>1, <3>1
  <2> QED
    BY <1>2, <1>5, <2>2, FrameKeep
<1>6. CASE /\ nest' = [nest EXCEPT ![th] = <<[AbortToTop(@) EXCEPT !.state = "CONDEMNED"]>>]
           /\ frames' = [frames EXCEPT ![th] = <<>>]
  <2> DEFINE r == [AbortToTop(n) EXCEPT !.state = "CONDEMNED"]
  <2>1. nest'[th] = <<r>> /\ frames'[th] = <<>>
    BY <1>6 DEF TypeInv
  <2> HIDE DEF r
  <2>2. Len(nest'[th]) = 1
    BY <2>1
  <2> QED
    BY <2>1, <2>2, FrameNew
<1> QED
  BY <1>3, <1>4, <1>5, <1>6 DEF Reverted

LEMMA FrameUnchanged ==
    ASSUME NEW th \in Thread, scenario' = scenario, FrameInv(th), nest'[th] = nest[th], frames'[th] = frames[th]
    PROVE  FrameInv(th)'
  BY DEF FrameInv, FrameOf, Plainly, Ops

LEMMA FrameAccess ==
    ASSUME TypeInv, PlaceInv, NEW th \in Thread, scenario' = scenario, FrameInv(th), NEW x \in TVar,
           ReadTVar(th, x) \/ \E v : WriteTVar(th, x, v)
    PROVE  FrameInv(th)'
<1>1. pc(th) = "run" /\ pc(th) # "idle" /\ frames' = frames
  BY DEF ReadTVar, WriteTVar
<1> DEFINE tr == nest[th][Len(nest[th])]
<1>2. ASSUME NEW e, AddEntry(th, e) PROVE FrameInv(th)'
  <2>1. nest' = [nest EXCEPT ![th] = [nest[th] EXCEPT ![Len(nest[th])] = [tr EXCEPT !.entries = Append(@, e)]]]
    BY <1>2, AddEntryIs
  <2> QED
    BY <1>1, <2>1, FrameExcept
<1>3. ASSUME NEW v, Rewritten(th, x, v) PROVE FrameInv(th)'
  <2> DEFINE j == IndexOf(Last(nest[th]), x)
  <2>1. nest' = [nest EXCEPT ![th] = [nest[th] EXCEPT ![Len(nest[th])] = [tr EXCEPT !.entries[j].new = v]]]
    BY <1>3 DEF Rewritten
  <2> QED
    BY <1>1, <2>1, FrameExcept
<1> QED
  BY <1>2, <1>3 DEF ReadTVar, WriteTVar, Rewritten

LEMMA FrameBody ==
    ASSUME TypeInv, PlaceInv, NEW th \in Thread, scenario' = scenario, FrameInv(th), Body(th)
    PROVE  FrameInv(th)'
<1>1. CASE Atomically(th)
  BY <1>1, FrameStart DEF Atomically
<1>2. CASE \E x \in TVar : ReadTVar(th, x)
  BY <1>2, FrameAccess
<1>3. CASE pc(th) = "run" /\ \E w \in Writes[th][done[th] + 1] : WriteTVar(th, w[1], w[2])
  <2>1. PICK w \in Writes[th][done[th] + 1] : WriteTVar(th, w[1], w[2])
    BY <1>3
  <2>2. w[1] \in TVar
    BY <1>3, WriteFacts
  <2> QED
    BY <2>1, <2>2, FrameAccess
<1>4. CASE \E f \in {"first", "catch"} : StartNested(th, f)
  BY <1>4, FrameNested
<1>5. CASE Return(th) \/ Yield(th)
  BY <1>5, FrameUnchanged DEF Return, Yield
<1> QED
  BY <1>1, <1>2, <1>3, <1>4, <1>5, FrameRetry, FrameThrow DEF Body

LEMMA FrameStep ==
    ASSUME TypeInv, PlaceInv, NEW th \in Thread, scenario' = scenario, FrameInv(th), Quiet(th) \/ Step(th)
    PROVE  FrameInv(th)'
<1>1. CASE nest' = nest /\ frames' = frames
  BY <1>1, FrameUnchanged
<1>2. CASE Update(th) \/ Unwatched(th) \/ ThrowToRunnable(th)
  BY <1>1, <1>2, FrameStart DEF Update, Unwatched, ThrowToRunnable
<1>3. CASE Resume(th) \/ ThrowToMasked(th) \/ Wakeup(th) \/ ThrowToBlocked(th)
  BY <1>1, <1>3 DEF Resume, ThrowToMasked, Wakeup, ThrowToBlocked
<1>4. CASE ReadVersion(th)
  <2>1. pc(th) # "idle" /\ frames' = frames
        /\ nest' = [nest EXCEPT ![th] = [nest[th] EXCEPT ![loc[th].lvl] =
               [nest[th][loc[th].lvl] EXCEPT !.entries[loc[th].i].num = num_updates[Cur(th).tvar]]]]
    BY <1>4 DEF ReadVersion
  <2> QED
    BY <2>1, FrameExcept
<1>5. CASE MergeEntry(th)
  <2>1. pc(th) # "idle" /\ frames' = frames
        /\ nest' = [nest EXCEPT ![th] = [nest[th] EXCEPT ![loc[th].lvl - 1] =
               merge_update_into(nest[th][loc[th].lvl - 1], Cur(th).tvar, Cur(th).expected, Cur(th).new)]]
    BY <1>5 DEF MergeEntry
  <2> QED
    BY <2>1, FrameExcept
<1>6. CASE Validated(th)
  <2>1. CASE op(th) = "wait"
    <3>1. pc(th) # "idle" /\ frames' = frames
          /\ nest' = [nest EXCEPT ![th] = [nest[th] EXCEPT ![1] = [nest[th][1] EXCEPT !.state = "WAITING"]]]
      BY <1>6, <2>1 DEF Validated
    <3> QED
      BY <3>1, FrameExcept
  <2>2. CASE op(th) # "wait"
    BY <1>1, <1>6, <2>2 DEF Validated
  <2> QED
    BY <2>1, <2>2
<1>7. CASE GetInvLock(th) \/ GetInvUnlock(th) \/ ValidateEntry(th) \/ Recheck(th) \/ ValidateCondemned(th)
  BY <1>1, <1>7 DEF GetInvLock, GetInvUnlock, ValidateEntry, Recheck, ValidateCondemned
<1>8. CASE Revert(th) \/ CheckReadOnly(th) \/ Decide(th) \/ UnparkWaiter(th) \/ UnparkTSO(th) \/ BumpVersion(th)
  BY <1>1, <1>8 DEF Revert, CheckReadOnly, Decide, UnparkWaiter, UnparkTSO, BumpVersion
<1>9. CASE StoreValue(th) \/ UnwatchLock(th) \/ UnwatchUnlock(th)
  BY <1>1, <1>9 DEF StoreValue, UnwatchLock, UnwatchUnlock
<1> QED
  BY <1>2, <1>3, <1>4, <1>5, <1>6, <1>7, <1>8, <1>9, FrameBody, FrameReverted, FrameCommitted DEF Quiet, Step

-----------------------------------------------------------------------------
(* Who changes what of a thread's own words. *)

LEMMA BodyKeeps ==
    ASSUME NEW th \in Thread, Body(th)
    PROVE  inbox' = inbox /\ tsoLock' = tsoLock /\ why_blocked' = why_blocked /\ heaps' = heaps
  BY DEF Body, Atomically, ReadTVar, WriteTVar, StartNested, Return, Retry, Throw, Yield, threadVars, histVars

LEMMA StepKeeps ==
    ASSUME NEW th \in Thread, Step(th)
    PROVE  /\ inbox' = inbox \/ UnparkTSO(th)
           /\ tsoLock' = tsoLock \/ ThrowToMasked(th) \/ Unwatched(th)
           /\ why_blocked' = why_blocked \/ Validated(th) \/ Unwatched(th)
           /\ heaps' = heaps \/ Decide(th)
<1>1. CASE GetInvLock(th) \/ GetInvUnlock(th) \/ ValidateEntry(th) \/ ReadVersion(th) \/ Recheck(th)
           \/ ValidateCondemned(th)
  BY <1>1 DEF GetInvLock, GetInvUnlock, ValidateEntry, ReadVersion, Recheck, ValidateCondemned, threadVars, histVars
<1>2. CASE Validated(th) \/ Revert(th) \/ Reverted(th) \/ CheckReadOnly(th) \/ Decide(th) \/ Update(th)
  BY <1>2 DEF Validated, Revert, Reverted, CheckReadOnly, Decide, Update, threadVars, histVars
<1>3. CASE UnparkWaiter(th) \/ UnparkTSO(th) \/ BumpVersion(th) \/ StoreValue(th) \/ MergeEntry(th)
           \/ NestedCommitted(th)
  BY <1>3 DEF UnparkWaiter, UnparkTSO, BumpVersion, StoreValue, MergeEntry, NestedCommitted, threadVars, histVars
<1>4. CASE Resume(th) \/ UnwatchLock(th) \/ UnwatchUnlock(th) \/ Unwatched(th) \/ ThrowToMasked(th)
  BY <1>4 DEF Resume, UnwatchLock, UnwatchUnlock, Unwatched, ThrowToMasked, threadVars, histVars
<1> QED
  BY <1>1, <1>2, <1>3, <1>4 DEF Step

LEMMA ThreadVarsKept ==
    ASSUME NEW th \in Thread, Quiet(th) \/ Step(th)
    PROVE  /\ inbox' = inbox \/ UnparkTSO(th) \/ Wakeup(th)
           /\ tsoLock' = tsoLock \/ ThrowToMasked(th) \/ Unwatched(th) \/ ThrowToBlocked(th)
           /\ why_blocked' = why_blocked \/ Validated(th) \/ Unwatched(th) \/ Wakeup(th)
           /\ heaps' = heaps \/ Decide(th)
<1>1. CASE Step(th)
  BY <1>1, StepKeeps
<1>2. CASE Body(th)
  BY <1>2, BodyKeeps
<1>3. CASE Wakeup(th) \/ ThrowToBlocked(th) \/ ThrowToRunnable(th)
  BY <1>3 DEF Wakeup, ThrowToBlocked, ThrowToRunnable, threadVars, histVars
<1>4. CASE Resume(th) \/ Unwatched(th) \/ ThrowToMasked(th)
  BY <1>1, <1>4 DEF Step
<1> QED
  BY <1>1, <1>2, <1>3, <1>4 DEF Quiet

-----------------------------------------------------------------------------
(* The lock of a TSO. *)

TSOInv(th) ==
    /\ tsoLock[th] => pc(th) = "throwMasked" \/ (Leaving(th) /\ op(th) = "throwTo")
    /\ pc(th) = "throwMasked" => th \in Masked

(* Only throwTo brings a thread to throwMasked. *)
LEMMA ToMasked ==
    ASSUME TypeInv, PlaceInv, LockInv, scenario' = scenario, NEW th \in Thread, WaitInv(th), TSOInv(th),
           Quiet(th) \/ Step(th)
    PROVE  pc(th)' = "throwMasked" => th \in Masked
<1> SUFFICES ASSUME pc(th)' = "throwMasked" PROVE th \in Masked
  OBVIOUS
<1>1. loc'[th].pc = "throwMasked"
  BY DEF pc
<1>2. Waits(th)' /\ ~Leaving(th)'
  BY <1>1 DEF Waits, Leaving, pc
<1>3. ~Awake(th) /\ ~Ends(th) /\ ~Quits(th)
  BY <1>2 DEF Awake, Ends, Quits
<1>4. ~Body(th)
  BY <1>3, BodyAwake
<1>5. ~Step(th)
  <2>1. ASSUME NEW p, NEW j, Goes(th, p, j) PROVE p = "throwMasked"
    BY <1>1, <2>1 DEF Goes
  <2>0. EntryInv(th)
    BY DEF LockInv
  <2>2. ~GetInvUnlock(th) /\ ~ValidateEntry(th) /\ ~Recheck(th) /\ ~ValidateCondemned(th)
    BY <2>0, <2>1, GetInvUnlockStep, ValidateEntryStep, RecheckStep, ValidateCondemnedStep DEF ValidatesEntry, GivesUp
  <2>3. ~CheckReadOnly(th) /\ ~Decide(th) /\ ~Revert(th) /\ ~UnwatchLock(th) /\ ~UnwatchUnlock(th)
    BY <2>0, <2>1, CheckReadOnlyStep, DecideStep, RevertStep, UnwatchLockStep, UnwatchUnlockStep DEF GivesUp
  <2>4. ~UnparkWaiter(th) /\ ~UnparkTSO(th) /\ ~BumpVersion(th) /\ ~StoreValue(th)
    BY <2>0, <2>1, UnparkWaiterStep, UnparkTSOStep, BumpVersionStep, StoreValueStep
  <2>5. ~ReadVersion(th) /\ ~MergeEntry(th) /\ ~NestedCommitted(th) /\ ~Unwatched(th)
    BY <1>3, <2>0, ReadVersionAwake, MergeEntryAwake, NestedCommittedAwake, UnwatchedWait
  <2>6. ~Validated(th)
    BY <1>1, ValidatedStep, <2>1
  <2>7. loc \in [Thread -> LocType]
    BY DEF TypeInv
  <2>8. ~Resume(th) /\ ~ThrowToMasked(th)
    <3>1. ASSUME Resume(th) PROVE FALSE
      <4>1. "rewait" \in Op /\ 1 \in Nat \ {0}
        BY DEF Op
      <4> QED
        BY <1>1, <3>1, <4>1, MoveValidate DEF Resume, Moved
    <3>2. ASSUME ThrowToMasked(th) PROVE FALSE
      BY <1>1, <2>7, <3>2 DEF ThrowToMasked, At
    <3> QED
      BY <3>1, <3>2
  <2>9. ~GetInvLock(th)
    <3>1. ASSUME GetInvLock(th) PROVE Validate(th, "commit", 1) \/ \E m, v : GotoSaw(th, "getInvUnlock", m, v)
      BY <3>1 DEF GetInvLock, GotoSaw
    <3>2. ~Validate(th, "commit", 1)
      <4>1. "commit" \in Op /\ 1 \in Nat \ {0}
        BY DEF Op
      <4> QED
        BY <1>1, <4>1, MoveValidate DEF Moved
    <3>3. ASSUME NEW m, NEW v PROVE ~GotoSaw(th, "getInvUnlock", m, v)
      BY <1>1, <2>7 DEF GotoSaw, LocType
    <3> QED
      BY <3>1, <3>2, <3>3
  <2>10. ~Update(th)
    BY <1>1, <2>7 DEF Update, Leave, At, LocType
  <2>11. ~Reverted(th)
    BY <1>1, <2>7 DEF Reverted, StartTransaction, Leave, GotoEntry, At, LocType
  <2> QED
    BY <2>2, <2>3, <2>4, <2>5, <2>6, <2>8, <2>9, <2>10, <2>11 DEF Step
<1>6. ~ThrowToRunnable(th)
  <2>1. loc \in [Thread -> LocType]
    BY DEF TypeInv
  <2> QED
    BY <1>1, <2>1 DEF ThrowToRunnable, Leave, At
<1>7. CASE Wakeup(th)
  <2>1. loc \in [Thread -> LocType]
    BY DEF TypeInv
  <2>2. loc'[th].pc \in {"resume", "idle", "run", "blocked"}
    BY <1>7, <2>1 DEF Wakeup, Goto, LocType, pc
  <2> QED
    BY <1>1, <2>2
<1>8. CASE ThrowToBlocked(th)
  <2>1. loc \in [Thread -> LocType]
    BY DEF TypeInv
  <2> QED
    BY <1>1, <1>8, <2>1 DEF ThrowToBlocked, At
<1> QED
  BY <1>4, <1>5, <1>6, <1>7, <1>8 DEF Quiet, Step

LEMMA TSOStep ==
    ASSUME TypeInv, PlaceInv, LockInv, scenario' = scenario, NEW th \in Thread, WaitInv(th), TSOInv(th),
           Quiet(th) \/ Step(th)
    PROVE  TSOInv(th)' /\ \A u \in Thread \ {th} : tsoLock'[u] = tsoLock[u]
<1>1. loc \in [Thread -> LocType] /\ tsoLock \in [Thread -> BOOLEAN]
  BY DEF TypeInv
<1>2. \A u \in Thread \ {th} : tsoLock'[u] = tsoLock[u]
  BY <1>1, ThreadVarsKept DEF ThrowToMasked, Unwatched, ThrowToBlocked
<1>3. pc(th)' = "throwMasked" => th \in Masked'
  BY ToMasked DEF Masked
<1>4. ASSUME tsoLock'[th] PROVE pc(th)' = "throwMasked" \/ (Leaving(th)' /\ op(th)' = "throwTo")
  <2>1. CASE ThrowToBlocked(th)
    <3>1. loc'[th] = At("throwMasked") \/ loc'[th] = [At("unwatch") EXCEPT !.op = "throwTo"]
      BY <1>1, <2>1 DEF ThrowToBlocked
    <3> QED
      BY <3>1 DEF Leaving, pc, op, At
  <2>2. CASE ~ThrowToBlocked(th)
    <3>1. ~ThrowToMasked(th)
      BY <1>1, <1>4 DEF ThrowToMasked
    <3>2. ASSUME Unwatched(th) PROVE tsoLock[th] /\ op(th) = "rewait"
      BY <1>1, <1>4, <3>2 DEF Unwatched
    <3>3. tsoLock[th]
      BY <1>4, <2>2, <3>1, <3>2, ThreadVarsKept
    <3>4. pc(th) = "throwMasked" \/ (Leaving(th) /\ op(th) = "throwTo")
      BY <3>3 DEF TSOInv
    <3>5. CASE pc(th) = "throwMasked"
      <4>1. CASE Body(th)
        BY <3>5, <4>1 DEF Body, Atomically, ReadTVar, StartNested, Return, Retry, Throw, Yield
      <4>2. CASE Resume(th) \/ Unwatched(th) \/ Wakeup(th) \/ ThrowToRunnable(th)
        BY <3>5, <4>2 DEF Resume, Unwatched, Wakeup, ThrowToRunnable
      <4>3. /\ ~GetInvLock(th) /\ ~GetInvUnlock(th) /\ ~ValidateEntry(th) /\ ~ReadVersion(th) /\ ~Recheck(th)
            /\ ~ValidateCondemned(th) /\ ~Validated(th) /\ ~Revert(th) /\ ~Reverted(th)
        BY <3>5 DEF GetInvLock, GetInvUnlock, ValidateEntry, ReadVersion, Recheck, ValidateCondemned, Validated,
                    Revert, Reverted
      <4>4. /\ ~CheckReadOnly(th) /\ ~Decide(th) /\ ~Update(th) /\ ~UnparkWaiter(th) /\ ~UnparkTSO(th)
            /\ ~BumpVersion(th) /\ ~StoreValue(th) /\ ~MergeEntry(th) /\ ~NestedCommitted(th)
            /\ ~UnwatchLock(th) /\ ~UnwatchUnlock(th)
        BY <3>5 DEF CheckReadOnly, Decide, Update, UnparkWaiter, UnparkTSO, BumpVersion, StoreValue, MergeEntry,
                    NestedCommitted, UnwatchLock, UnwatchUnlock
      <4> QED
        BY <2>2, <3>1, <4>1, <4>2, <4>3, <4>4 DEF Quiet, Step
    <3>6. CASE Leaving(th) /\ op(th) = "throwTo"
      <4>1. UnwatchLock(th) \/ UnwatchUnlock(th)
        BY <3>2, <3>6, LeavingSteps
      <4>2. EntryInv(th)
        BY DEF LockInv
      <4>3. \E p \in {"unwatch", "unwatchUnlock"} : \E j : Goes(th, p, j)
        BY <4>1, <4>2, UnwatchLockStep, UnwatchUnlockStep
      <4> QED
        BY <3>6, <4>3 DEF Goes, Works, Leaving, pc, op
    <3> QED
      BY <3>4, <3>5, <3>6
  <2> QED
    BY <2>1, <2>2
<1> QED
  BY <1>2, <1>3, <1>4 DEF TSOInv

-----------------------------------------------------------------------------
(* Wake-ups. *)

(* th sleeps, or is about to, and no wake-up is under way. *)
Sleeping(th) ==
    /\ why_blocked[th] = "BlockedOnSTM" /\ pc(th) \in {"revert", "blocked"}
    /\ th \notin Masked /\ inbox[th] = 0

(* What th expects is there, or its wake-up will be sent. *)
Due(th, e) ==
    \/ Holds(Heap, e)
    \/ current_value[e.tvar] \in Thread /\ WillUnpark(current_value[e.tvar], th, e.tvar)

SleepInv(th) ==
    Sleeping(th) => \A j \in DOMAIN nest[th][1].entries : Due(th, nest[th][1].entries[j])

LEMMA SleepingFacts ==
    ASSUME TypeInv, PlaceInv, NEW th \in Thread, WaitInv(th), Sleeping(th)
    PROVE  /\ Waits(th) /\ Parked(nest[th]) /\ ~Leaving(th) /\ nest[th][1] \in TRecType
           /\ \A j \in DOMAIN nest[th][1].entries :
                 nest[th][1].entries[j].tvar \in TVar /\ WaitsFor(th, nest[th][1].entries[j].tvar)
<1>1. Waits(th) /\ ~Leaving(th)
  BY DEF Sleeping, PlaceInv, BlockedInv, Waits, Leaving
<1>2. Parked(nest[th])
  BY <1>1 DEF WaitInv
<1>3. nest[th] \in Seq(TRecType) /\ nest[th] # <<>>
  BY <1>2 DEF Parked, TypeInv
<1>4. nest[th][1] \in TRecType
  BY <1>3
<1> QED
  BY <1>1, <1>2, <1>4, TRecFacts, WaitsForFacts

(* A TVar that a committing thread holds is one it has yet to update. *)
LEMMA CommitHolds ==
    ASSUME TypeInv, PlaceInv, LockInv, NEW x \in TVar, NEW c \in Thread, current_value[x] = c,
           Committing(c) \/ pc(c) = "checkReads"
    PROVE  LET j == IndexOf(TRec(c), x)
           IN  /\ j \in DOMAIN Entries(c) /\ Entries(c)[j].tvar = x /\ j \in Nat \ {0}
               /\ Committing(c) => j >= loc[c].i /\ entry_is_update(Entries(c)[j])
<1>1. HolderInv(x)
  BY DEF LockInv
<1>2. PICK j \in DOMAIN Entries(c) : Entries(c)[j].tvar = x /\ MayHold(c, j)
  BY <1>1 DEF HolderInv
<1>3. pc(c) # "idle" /\ pc(c) # "revert"
  BY DEF Committing
<1>4. TRec(c) \in TRecType /\ j \in Nat \ {0}
  BY <1>2, <1>3, WorkFacts
<1>5. IndexOf(TRec(c), x) = j
  BY <1>2, <1>4, TRecFacts DEF Entries
<1>6. ASSUME Committing(c) PROVE j >= loc[c].i /\ entry_is_update(Entries(c)[j])
  <2>1. op(c) = "commit"
    BY <1>6 DEF PlaceInv, OpInv
  <2>2. MustHold(c, j)
    BY <1>2, <1>3 DEF MayHold
  <2> QED
    BY <1>6, <2>1, <2>2 DEF MustHold, Locks, acquire_all, Committing
<1> QED
  BY <1>2, <1>4, <1>5, <1>6

(* Another thread's promise stays. *)
LEMMA WillOther ==
    ASSUME NEW c \in Thread, Others(c), Touches(c), WatchKept(c), NEW x \in TVar, NEW d \in Thread, d # c,
           current_value[x] = d, NEW th, WillUnpark(d, th, x)
    PROVE  current_value'[x] = d /\ WillUnpark(d, th, x)'
<1>1. current_value'[x] = d
  BY DEF Touches
<1>2. watch'[x] = watch[x]
  BY DEF WatchKept
<1>3. loc'[d] = loc[d] /\ nest'[d] = nest[d]
  BY DEF Others
<1>4. TRec(d)' = TRec(d) /\ (pc(d)' = pc(d)) /\ (Committing(d)' <=> Committing(d))
  BY <1>3 DEF TRec, pc, Committing
<1>5. IndexOf(TRec(d), x)' = IndexOf(TRec(d), x)
  BY <1>4 DEF IndexOf
<1> QED
  BY <1>1, <1>2, <1>3, <1>4, <1>5 DEF WillUnpark

LEMMA CommittingSteps ==
    ASSUME NEW th \in Thread, Committing(th), Quiet(th) \/ Step(th)
    PROVE  Update(th) \/ UnparkWaiter(th) \/ UnparkTSO(th) \/ BumpVersion(th) \/ StoreValue(th)
<1>1. pc(th) \in {"update", "unpark", "unparkLock", "bump", "store"}
  BY DEF Committing
<1>2. ~Body(th)
  BY <1>1 DEF Body, Atomically, ReadTVar, StartNested, Return, Retry, Throw, Yield
<1>3. ~Resume(th) /\ ~ThrowToMasked(th) /\ ~Wakeup(th) /\ ~ThrowToBlocked(th) /\ ~ThrowToRunnable(th)
  BY <1>1 DEF Resume, ThrowToMasked, Wakeup, ThrowToBlocked, ThrowToRunnable
<1>4. /\ ~GetInvLock(th) /\ ~GetInvUnlock(th) /\ ~ValidateEntry(th) /\ ~ReadVersion(th) /\ ~Recheck(th)
      /\ ~ValidateCondemned(th) /\ ~Validated(th) /\ ~Revert(th) /\ ~Reverted(th)
  BY <1>1 DEF GetInvLock, GetInvUnlock, ValidateEntry, ReadVersion, Recheck, ValidateCondemned, Validated,
              Revert, Reverted
<1>5. /\ ~CheckReadOnly(th) /\ ~Decide(th) /\ ~MergeEntry(th) /\ ~NestedCommitted(th)
      /\ ~UnwatchLock(th) /\ ~UnwatchUnlock(th) /\ ~Unwatched(th)
  BY <1>1 DEF CheckReadOnly, Decide, MergeEntry, NestedCommitted, UnwatchLock, UnwatchUnlock, Unwatched
<1> QED
  BY <1>2, <1>3, <1>4, <1>5 DEF Quiet, Step

(* The update loop comes to every watch queue of a TVar it updates, and to *)
(* every entry of the queue.                                               *)
LEMMA WillSelf ==
    ASSUME TypeInv, PlaceInv, LockInv, WatchInv, scenario' = scenario, NEW c \in Thread, Quiet(c) \/ Step(c),
           NEW th \in Thread, th # c, WaitInv(th), TSOInv(th), Sleeping(th), inbox'[th] = 0,
           NEW x \in TVar, WaitsFor(th, x), current_value[x] = c, WillUnpark(c, th, x)
    PROVE  current_value'[x] = c /\ WillUnpark(c, th, x)'
<1> DEFINE i == loc[c].i
           k == loc[c].k
           es == Entries(c)
           j == IndexOf(TRec(c), x)
<1>1. Committing(c) /\ pc(c) # "idle" /\ EntryInv(c)
  BY DEF WillUnpark, Committing, LockInv
<1>2. j \in DOMAIN es /\ es[j].tvar = x /\ j \in Nat \ {0} /\ j >= i /\ entry_is_update(es[j])
  BY <1>1, CommitHolds
<1>3. i \in Nat \ {0} /\ k \in Nat /\ es \in Seq(EntryType) /\ loc \in [Thread -> LocType]
      /\ DOMAIN es = 1..Len(es) /\ Len(es) \in Nat
  BY <1>1, LocFacts, WorkFacts DEF TypeInv
<1>4. \/ j > i
      \/ j = i /\ pc(c) = "update"
      \/ j = i /\ pc(c) \in {"unpark", "unparkLock"} /\ \E q \in 1..k : watch[x][q] = th
  BY DEF WillUnpark
<1>5. ~tsoLock[th] /\ why_blocked[th] = "BlockedOnSTM"
  BY DEF TSOInv, Sleeping, Leaving
<1>6. ASSUME NEW p \in {"update", "unpark", "unparkLock", "bump", "store"}, NEW m, Goes(c, p, m), watch' = watch,
             \/ j > m
             \/ j = m /\ p = "update"
             \/ j = m /\ p \in {"unpark", "unparkLock"} /\ \E q \in 1..loc'[c].k : watch[x][q] = th
      PROVE  WillUnpark(c, th, x)'
  <2>1. loc'[c].pc = p /\ loc'[c].i = m /\ loc'[c].lvl = loc[c].lvl /\ nest' = nest
    BY <1>6 DEF Goes, Works
  <2>2. TRec(c)' = TRec(c)
    BY <2>1 DEF TRec
  <2>3. IndexOf(TRec(c), x)' = j
    BY <2>2 DEF IndexOf
  <2>4. Committing(c)' /\ pc(c)' = p
    BY <1>6, <2>1 DEF Committing, pc
  <2> QED
    BY <1>6, <2>1, <2>3, <2>4 DEF WillUnpark
<1>7. CASE Update(c)
  <2> DEFINE s == Seek(es, i, entry_is_update)
  <2>1. Finds(es, i, s, {m \in DOMAIN es : entry_is_update(es[m])})
    BY <1>3, SeekUpdate
  <2>2. s \in 1..(Len(es) + 1) /\ s <= j
    BY <1>2, <2>1 DEF Finds
  <2>3. s <= Len(es)
    BY <1>2, <1>3, <2>2
  <2>4. pc(c) = "update" /\ GotoWatcher(c, "unpark", s, Len(watch[es[s].tvar]))
        /\ UNCHANGED <<current_value, watch, nest, frames, done>>
    <3>1. /\ pc(c) = "update" /\ UNCHANGED <<current_value, watch>>
          /\ \/ s > Len(es)
             \/ GotoWatcher(c, "unpark", s, Len(watch[es[s].tvar])) /\ UNCHANGED <<nest, frames, done>>
      BY <1>7 DEF Update, GotoWatcher, tvarVars
    <3> HIDE DEF s, es
    <3> QED
      BY <1>3, <2>2, <2>3, <3>1
  <2> HIDE DEF s
  <2>5. Goes(c, "unpark", s)
    <3>1. loc'[c].pc = "unpark" /\ loc'[c].i = s
      BY <1>3, <2>4 DEF GotoWatcher, LocType
    <3>2. ~QuietStep(c)
      BY <3>1 DEF QuietStep, Resting, pc
    <3>3. \E m \in DOMAIN es : Goes(c, "unpark", m)
      BY <1>7, <3>2, UpdateStep
    <3>4. PICK m \in DOMAIN es : Goes(c, "unpark", m)
      BY <3>3
    <3>5. m = s
      BY <3>1, <3>4 DEF Goes
    <3> QED
      BY <3>4, <3>5
  <2>6. loc'[c].k = Len(watch[es[s].tvar])
    BY <1>3, <2>4 DEF GotoWatcher, LocType
  <2>7. s = j => \E q \in 1..loc'[c].k : watch[x][q] = th
    <3> SUFFICES ASSUME s = j PROVE \E q \in 1..loc'[c].k : watch[x][q] = th
      OBVIOUS
    <3>1. loc'[c].k = Len(watch[x]) /\ watch[x] \in Seq(Thread)
      BY <1>2, <2>6 DEF TypeInv
    <3>2. Listed(watch[x], th)
      BY DEF WatchInv
    <3> QED
      BY <3>1, <3>2 DEF Listed
  <2>8. j > s \/ s = j
    BY <1>2, <2>2
  <2>9. WillUnpark(c, th, x)'
    BY <1>6, <2>4, <2>5, <2>7, <2>8
  <2> QED
    BY <2>4, <2>9
<1>8. CASE UnparkWaiter(c)
  <2>1. pc(c) = "unpark" /\ current_value' = current_value /\ watch' = watch
        /\ \/ k = 0 /\ Goto(c, "bump")
           \/ k > 0 /\ Goto(c, "unparkLock")
           \/ k > 0 /\ tsoLock[Waiter(c)] /\ loc' = [loc EXCEPT ![c].k = @ - 1]
    BY <1>8 DEF UnparkWaiter, tvarVars
  <2>2. PICK p \in {"unpark", "unparkLock", "bump"} : Goes(c, p, i)
    BY <1>8, UnparkWaiterStep
  <2>3. loc'[c].pc = p
    BY <2>2 DEF Goes
  <2>4. CASE j > i
    BY <1>6, <2>1, <2>2, <2>4
  <2>5. CASE j = i
    <3>0. ~(j > i)
      BY <1>3, <2>5
    <3>1. PICK q \in 1..k : watch[x][q] = th
      <4> HIDE DEF i, j, k
      <4> QED
        BY <1>4, <2>1, <3>0
    <3>2. k > 0
      BY <1>3, <3>1
    <3>3. Waiter(c) = watch[x][k]
      BY <1>2, <2>5 DEF Waiter, Cur
    <3>4. CASE Goto(c, "unparkLock")
      <4>1. loc'[c].pc = "unparkLock" /\ loc'[c].k = k
        BY <1>3, <3>4 DEF Goto, LocType
      <4> QED
        BY <1>6, <2>1, <2>2, <2>3, <2>5, <3>1, <4>1
    <3>5. CASE tsoLock[Waiter(c)] /\ loc' = [loc EXCEPT ![c].k = @ - 1]
      <4>1. q # k
        BY <1>5, <3>1, <3>3, <3>5
      <4>2. loc'[c].pc = "unpark" /\ loc'[c].k = k - 1
        BY <1>3, <2>1, <3>5 DEF LocType, pc
      <4>3. q \in 1..loc'[c].k
        BY <1>3, <3>1, <4>1, <4>2
      <4> QED
        BY <1>6, <2>1, <2>2, <2>3, <2>5, <3>1, <4>2, <4>3
    <3> QED
      BY <1>3, <2>1, <3>2, <3>4, <3>5
  <2> QED
    BY <1>2, <1>3, <2>4, <2>5
<1>9. CASE UnparkTSO(c)
  <2>1. /\ pc(c) = "unparkLock" /\ current_value' = current_value /\ watch' = watch
        /\ inbox' = IF why_blocked[Waiter(c)] = "BlockedOnSTM"
                      THEN [inbox EXCEPT ![Waiter(c)] = @ + 1] ELSE inbox
        /\ loc' = [loc EXCEPT ![c].pc = "unpark", ![c].k = @ - 1]
    BY <1>9 DEF UnparkTSO, tvarVars
  <2>2. Goes(c, "unpark", i)
    BY <1>9, UnparkTSOStep
  <2>3. CASE j > i
    BY <1>6, <2>1, <2>2, <2>3
  <2>4. CASE j = i
    <3>0. ~(j > i)
      BY <1>3, <2>4
    <3>1. PICK q \in 1..k : watch[x][q] = th
      <4> HIDE DEF i, j, k
      <4> QED
        BY <1>4, <2>1, <3>0
    <3>2. Waiter(c) = watch[x][k]
      BY <1>2, <2>4 DEF Waiter, Cur
    <3>3. q # k
      <4> SUFFICES ASSUME q = k PROVE FALSE
        OBVIOUS
      <4>1. Waiter(c) = th
        BY <3>1, <3>2
      <4>2. inbox'[th] = inbox[th] + 1 /\ inbox[th] \in Nat
        BY <1>5, <2>1, <4>1 DEF TypeInv
      <4> QED
        BY <4>2
    <3>4. loc'[c].k = k - 1
      BY <1>3, <2>1 DEF LocType
    <3>5. q \in 1..loc'[c].k
      BY <1>3, <3>1, <3>3, <3>4
    <3> QED
      BY <1>6, <2>1, <2>2, <2>4, <3>1, <3>5
  <2> QED
    BY <1>2, <1>3, <2>3, <2>4
<1>10. CASE BumpVersion(c)
  <2>1. pc(c) = "bump" /\ current_value' = current_value /\ watch' = watch /\ Goes(c, "store", i)
    BY <1>1, <1>10, BumpVersionStep DEF BumpVersion
  <2>2. j > i
    BY <1>4, <2>1
  <2> QED
    BY <1>6, <2>1, <2>2
<1>11. CASE StoreValue(c)
  <2>1. pc(c) = "store" /\ watch' = watch /\ Goes(c, "update", i + 1)
        /\ current_value' = [current_value EXCEPT ![Cur(c).tvar] = Cur(c).new]
    BY <1>1, <1>11, StoreValueStep DEF StoreValue
  <2>2. j > i
    BY <1>4, <2>1
  <2>3. j > i + 1 \/ j = i + 1
    BY <1>2, <1>3, <2>2
  <2>4. i \in DOMAIN es /\ Cur(c) = es[i] /\ Distinct(es)
    BY <1>1, <2>1, CurFacts, WorkFacts
  <2>5. Cur(c).tvar # x
    BY <1>2, <2>2, <2>4 DEF Distinct
  <2>6. current_value'[x] = c
    BY <2>1, <2>5 DEF TypeInv
  <2> QED
    BY <1>6, <2>1, <2>3, <2>6
<1> QED
  BY <1>1, <1>7, <1>8, <1>9, <1>10, <1>11, CommittingSteps

(* A step of another thread. *)
LEMMA SleepOther ==
    ASSUME TypeInv, PlaceInv, LockInv, WatchInv, scenario' = scenario, NEW c \in Thread, Quiet(c) \/ Step(c),
           Others(c), LockSound(c), WatchKept(c),
           NEW th \in Thread, th # c, WaitInv(th), TSOInv(th), SleepInv(th)
    PROVE  SleepInv(th)'
<1>1. loc'[th] = loc[th] /\ nest'[th] = nest[th] /\ why_blocked'[th] = why_blocked[th]
  BY DEF Others
<1>2. inbox'[th] = 0 => inbox[th] = 0
  <2>1. inbox \in [Thread -> Nat]
    BY DEF TypeInv
  <2>2. CASE UnparkTSO(c)
    <3>1. inbox' = inbox \/ inbox' = [inbox EXCEPT ![Waiter(c)] = @ + 1]
      BY <2>2 DEF UnparkTSO
    <3>2. inbox'[th] = inbox[th] \/ inbox'[th] = inbox[th] + 1
      BY <2>1, <3>1
    <3> QED
      BY <2>1, <3>2
  <2>3. CASE Wakeup(c)
    BY <2>1, <2>3 DEF Wakeup
  <2> QED
    BY <2>2, <2>3, ThreadVarsKept
<1> SUFFICES ASSUME Sleeping(th)', NEW j \in DOMAIN nest[th][1].entries
             PROVE  Due(th, nest[th][1].entries[j])'
  BY <1>1 DEF SleepInv
<1>3. Sleeping(th) /\ inbox'[th] = 0
  BY <1>1, <1>2 DEF Sleeping, Masked, pc
<1>0. PICK e, x : e = nest[th][1].entries[j] /\ x = e.tvar
  OBVIOUS
<1>4. x \in TVar /\ WaitsFor(th, x)
  BY <1>0, <1>3, SleepingFacts
<1>5. Due(th, e)
  BY <1>0, <1>3 DEF SleepInv
<1>6. Due(th, e)' => Due(th, nest[th][1].entries[j])'
  <2>1. (nest[th][1].entries[j])' = e
    BY <1>0, <1>1
  <2> QED
    BY <2>1 DEF Due, Holds
<1>7. Touches(c) /\ HeapKept(c)
  BY DEF LockSound
<1>8. CASE Holds(Heap, e)
  <2>1. CASE Heap'[x] = Heap[x]
    <3>1. Holds(Heap', e)
      BY <1>0, <1>8, <2>1 DEF Holds
    <3> QED
      BY <1>6, <3>1 DEF Due, Holds
  <2>2. CASE Heap'[x] # Heap[x]
    <3>1. current_value[x] = c /\ current_value'[x] = c
      BY <1>4, <1>7, <2>2 DEF HeapKept
    <3>2. Decide(c)
      BY <2>2, ThreadVarsKept DEF Heap
    <3>3. pc(c) = "checkReads" /\ Goes(c, "update", 1)
      <4>1. heaps' # heaps
        BY <2>2 DEF Heap
      <4> QED
        BY <3>2, <4>1, DecideStep DEF Looks
    <3> DEFINE m == IndexOf(TRec(c), x)
    <3>4. m \in Nat \ {0}
      BY <1>4, <3>1, <3>3, CommitHolds
    <3>5. loc'[c].pc = "update" /\ loc'[c].i = 1 /\ loc'[c].lvl = loc[c].lvl /\ nest' = nest
      BY <3>3 DEF Goes, Works
    <3>6. TRec(c)' = TRec(c)
      BY <3>5 DEF TRec
    <3>7. IndexOf(TRec(c), x)' = m
      BY <3>6 DEF IndexOf
    <3>8. Committing(c)' /\ pc(c)' = "update"
      BY <3>5 DEF Committing, pc
    <3>9. m > 1 \/ m = 1
      BY <3>4
    <3>10. WillUnpark(c, th, x)'
      BY <3>5, <3>7, <3>8, <3>9 DEF WillUnpark
    <3> QED
      BY <1>0, <1>6, <3>1, <3>10 DEF Due
  <2> QED
    BY <2>1, <2>2
<1>9. CASE current_value[x] \in Thread /\ WillUnpark(current_value[x], th, x)
  <2>1. CASE current_value[x] = c
    <3>1. current_value'[x] = c /\ WillUnpark(c, th, x)'
      BY <1>3, <1>4, <1>9, <2>1, WillSelf
    <3> QED
      BY <1>0, <1>6, <3>1 DEF Due
  <2>2. CASE current_value[x] # c
    <3>0. PICK d : d = current_value[x]
      OBVIOUS
    <3>1. d \in Thread /\ d # c /\ WillUnpark(d, th, x)
      BY <1>9, <2>2, <3>0
    <3>2. current_value'[x] = d /\ WillUnpark(d, th, x)'
      BY <1>4, <1>7, <3>0, <3>1, WillOther
    <3> QED
      BY <1>0, <1>6, <3>1, <3>2 DEF Due
  <2> QED
    BY <2>1, <2>2
<1> QED
  BY <1>0, <1>5, <1>8, <1>9 DEF Due

(* A thread that blocked itself. *)
LEMMA BlockedSteps ==
    ASSUME NEW th \in Thread, pc(th) \in {"blocked", "revert"}, Quiet(th) \/ Step(th)
    PROVE  Wakeup(th) \/ ThrowToBlocked(th) \/ (pc(th) = "revert" /\ (Revert(th) \/ Reverted(th)))
<1>1. ~Body(th)
  BY DEF Body, Atomically, ReadTVar, StartNested, Return, Retry, Throw, Yield
<1>2. ~Resume(th) /\ ~ThrowToMasked(th) /\ ~ThrowToRunnable(th)
  BY DEF Resume, ThrowToMasked, ThrowToRunnable
<1>3. /\ ~GetInvLock(th) /\ ~GetInvUnlock(th) /\ ~ValidateEntry(th) /\ ~ReadVersion(th) /\ ~Recheck(th)
      /\ ~ValidateCondemned(th) /\ ~Validated(th)
  BY DEF GetInvLock, GetInvUnlock, ValidateEntry, ReadVersion, Recheck, ValidateCondemned, Validated
<1>4. (Revert(th) \/ Reverted(th)) => pc(th) = "revert"
  BY DEF Revert, Reverted
<1>5. /\ ~CheckReadOnly(th) /\ ~Decide(th) /\ ~Update(th) /\ ~UnparkWaiter(th) /\ ~UnparkTSO(th)
      /\ ~BumpVersion(th) /\ ~StoreValue(th) /\ ~MergeEntry(th) /\ ~NestedCommitted(th)
      /\ ~UnwatchLock(th) /\ ~UnwatchUnlock(th) /\ ~Unwatched(th)
  BY DEF CheckReadOnly, Decide, Update, UnparkWaiter, UnparkTSO, BumpVersion, StoreValue, MergeEntry,
         NestedCommitted, UnwatchLock, UnwatchUnlock, Unwatched
<1> QED
  BY <1>1, <1>2, <1>3, <1>4, <1>5 DEF Quiet, Step

(* stmWait and stmReWait block a thread only while it holds every TVar it  *)
(* has read and each contains what it expects.                             *)
LEMMA SleepValidated ==
    ASSUME TypeInv, PlaceInv, LockInv, NEW th \in Thread, WaitInv(th), Validated(th), Sleeping(th)'
    PROVE  \A j \in DOMAIN nest'[th][1].entries : Due(th, nest[th][1].entries[j])'
<1>1. pc(th) = "validate" /\ pc(th) # "idle" /\ AtEnd(th) /\ heaps' = heaps
  BY DEF Validated
<1>2. why_blocked[th] # "BlockedOnSTM" /\ why_blocked'[th] = "BlockedOnSTM"
  BY <1>1 DEF PlaceInv, BlockedInv, Sleeping
<1>3. op(th) \in {"wait", "rewait"}
  BY <1>2 DEF Validated
<1>4. Entries(th) = nest[th][1].entries
  BY <1>1, <1>3, LevelFacts
<1>5. acquire_all(th)
  BY <1>3 DEF acquire_all
<1>6. \A j \in DOMAIN nest[th][1].entries : Holds(Heap, nest[th][1].entries[j])
  BY <1>1, <1>4, <1>5, ValidatedHeld
<1>7. nest'[th][1].entries = nest[th][1].entries
  <2>1. CASE op(th) = "rewait"
    BY <2>1 DEF Validated
  <2>2. CASE op(th) # "rewait"
    BY ValidatedWait DEF Same, Joins
  <2> QED
    BY <2>1, <2>2
<1>8. Heap' = Heap
  BY <1>1 DEF Heap
<1> QED
  BY <1>6, <1>7, <1>8 DEF Due, Holds

(* The thread's own steps. *)
LEMMA SleepSelf ==
    ASSUME TypeInv, PlaceInv, LockInv, scenario' = scenario, NEW th \in Thread, Quiet(th) \/ Step(th),
           Others(th), LockSound(th), WatchKept(th), PlaceInv', WaitInv(th), TSOInv(th), SleepInv(th)
    PROVE  SleepInv(th)'
<1> SUFFICES ASSUME Sleeping(th)'
             PROVE  \A j \in DOMAIN nest'[th][1].entries : Due(th, nest[th][1].entries[j])'
  BY DEF SleepInv
<1>1. loc \in [Thread -> LocType] /\ inbox \in [Thread -> Nat]
      /\ why_blocked \in [Thread -> {"NotBlocked", "BlockedOnSTM"}]
  BY DEF TypeInv
<1>2. /\ why_blocked'[th] = "BlockedOnSTM" /\ loc'[th].pc \in {"revert", "blocked"}
      /\ th \notin Masked /\ inbox'[th] = 0
  BY DEF Sleeping, pc, Masked
<1>3. Waits(th)'
  BY <1>2 DEF PlaceInv, BlockedInv, Waits, pc, op
<1>4. CASE Validated(th)
  BY <1>4, SleepValidated
<1>5. CASE ~Validated(th)
  <2>1. ~Unwatched(th)
    BY <1>3, UnwatchedWait DEF Ends
  <2>2. ~Wakeup(th)
    <3> SUFFICES ASSUME Wakeup(th) PROVE FALSE
      OBVIOUS
    <3>1. CASE why_blocked[th] = "BlockedOnSTM"
      BY <1>1, <1>2, <3>1 DEF Wakeup
    <3>2. CASE why_blocked[th] # "BlockedOnSTM"
      BY <1>1, <1>2, <3>2 DEF Wakeup
    <3> QED
      BY <3>1, <3>2
  <2>3. why_blocked[th] = "BlockedOnSTM"
    BY <1>2, <1>5, <2>1, <2>2, ThreadVarsKept
  <2>4. ~Leaving(th)
    <3> SUFFICES ASSUME Leaving(th) PROVE FALSE
      OBVIOUS
    <3>1. UnwatchLock(th) \/ UnwatchUnlock(th)
      BY <2>1, LeavingSteps
    <3>2. EntryInv(th)
      BY DEF LockInv
    <3>3. \E p \in {"unwatch", "unwatchUnlock"} : \E j : Goes(th, p, j)
      BY <3>1, <3>2, UnwatchLockStep, UnwatchUnlockStep
    <3> QED
      BY <1>2, <3>3 DEF Goes
  <2>5. pc(th) # "throwMasked"
    BY <1>2 DEF TSOInv
  <2>6. pc(th) \in {"revert", "blocked"}
        /\ (pc(th) = "revert" => loc[th].ok /\ op(th) \in {"wait", "rewait"})
    BY <2>3, <2>4, <2>5 DEF PlaceInv, BlockedInv, Leaving
  <2>7. ~ThrowToBlocked(th)
    <3> SUFFICES ASSUME ThrowToBlocked(th) PROVE FALSE
      OBVIOUS
    <3>1. loc'[th] = At("throwMasked") \/ loc'[th] = [At("unwatch") EXCEPT !.op = "throwTo"]
      BY <1>1 DEF ThrowToBlocked
    <3> QED
      BY <1>2, <3>1 DEF At
  <2>8. pc(th) = "revert" /\ (Revert(th) \/ Reverted(th))
    BY <2>2, <2>6, <2>7, BlockedSteps
  <2>9. nest' = nest /\ heaps' = heaps /\ inbox' = inbox
    <3>1. CASE Revert(th)
      BY <3>1 DEF Revert, histVars, threadVars
    <3>2. CASE Reverted(th)
      <4>1. loc[th].ok /\ op(th) \in {"wait", "rewait"}
        BY <2>6, <2>8
      <4> QED
        BY <3>2, <4>1 DEF Reverted, threadVars
    <3> QED
      BY <2>8, <3>1, <3>2
  <2>10. Sleeping(th)
    BY <1>2, <2>3, <2>8, <2>9 DEF Sleeping
  <2> SUFFICES ASSUME NEW j \in DOMAIN nest[th][1].entries PROVE Due(th, nest[th][1].entries[j])'
    BY <2>9
  <2>11. PICK e, x : e = nest[th][1].entries[j] /\ x = e.tvar
    OBVIOUS
  <2>12. x \in TVar /\ Due(th, e)
    BY <2>10, <2>11, SleepingFacts DEF SleepInv
  <2>13. Due(th, e)' => Due(th, nest[th][1].entries[j])'
    <3>1. (nest[th][1].entries[j])' = e
      BY <2>9, <2>11
    <3> QED
      BY <3>1 DEF Due, Holds
  <2>14. CASE Holds(Heap, e)
    <3>1. Heap' = Heap
      BY <2>9 DEF Heap
    <3> QED
      BY <2>13, <2>14, <3>1 DEF Due, Holds
  <2>15. CASE current_value[x] \in Thread /\ WillUnpark(current_value[x], th, x)
    <3>1. PICK d : d = current_value[x]
      OBVIOUS
    <3>2. d \in Thread /\ WillUnpark(d, th, x)
      BY <2>15, <3>1
    <3>3. d # th
      BY <2>8, <3>2 DEF WillUnpark, Committing
    <3>4. Touches(th)
      BY DEF LockSound
    <3>5. current_value'[x] = d /\ WillUnpark(d, th, x)'
      BY <2>12, <3>1, <3>2, <3>3, <3>4, WillOther
    <3> QED
      BY <2>11, <2>13, <3>2, <3>5 DEF Due
  <2> QED
    BY <2>11, <2>12, <2>14, <2>15 DEF Due
<1> QED
  BY <1>4, <1>5

-----------------------------------------------------------------------------
(* The invariant. *)

WaitsInv ==
    /\ WatchInv
    /\ \A th \in Thread : WaitInv(th) /\ FrameInv(th) /\ TSOInv(th) /\ SleepInv(th)

LEMMA InitWaits == Init => WaitsInv
<1> SUFFICES ASSUME Init PROVE WaitsInv
  OBVIOUS
<1>1. WatchInv
  <2> SUFFICES ASSUME NEW x \in TVar, NEW th \in Thread
               PROVE  Once(watch[x]) /\ ~Listed(watch[x], th) /\ ~WaitsFor(th, x)
    BY DEF WatchInv, Init, Once
  <2>1. watch[x] = <<>> /\ nest[th] = <<>>
    BY DEF Init
  <2> QED
    BY <2>1 DEF Once, Listed, WaitsFor
<1>2. ASSUME NEW th \in Thread PROVE WaitInv(th) /\ FrameInv(th) /\ TSOInv(th) /\ SleepInv(th)
  <2>1. nest[th] = <<>> /\ frames[th] = <<>> /\ pc(th) = "idle" /\ op(th) = "none"
        /\ why_blocked[th] = "NotBlocked" /\ tsoLock[th] = FALSE
    BY DEF Init, pc, op, At
  <2> QED
    BY <2>1 DEF WaitInv, FrameInv, TSOInv, SleepInv, Sleeping, Parked, Waits, Level
<1> QED
  BY <1>1, <1>2 DEF WaitsInv

LEMMA NextWaits == IndInv /\ WaitsInv /\ [Next]_vars => WaitsInv'
<1> SUFFICES ASSUME IndInv, WaitsInv, [Next]_vars PROVE WaitsInv'
  OBVIOUS
<1>0. /\ TypeInv /\ PlaceInv /\ LockInv /\ WatchInv
      /\ \A th \in Thread : WaitInv(th) /\ FrameInv(th) /\ TSOInv(th) /\ SleepInv(th)
  BY DEF IndInv, WaitsInv
<1>1. CASE Next
  <2>1. scenario' = scenario
    BY <1>1, NextStep
  <2>2. PICK th \in Thread : Quiet(th) \/ Step(th)
    BY <1>1, NextStep
  <2>3. Sound(th) /\ LockSound(th)
    BY <1>0, <2>1, <2>2, StepLock, QuietActionsLock
  <2>4. Others(th) /\ PlaceInv'
    BY <2>3 DEF Sound
  <2>5. WatchInv' /\ WatchKept(th)
    BY <1>0, <2>1, <2>2, <2>4, WatchStep
  <2>6. TSOInv(th)' /\ \A u \in Thread \ {th} : tsoLock'[u] = tsoLock[u]
    BY <1>0, <2>1, <2>2, TSOStep
  <2>7. WaitInv(th)' /\ FrameInv(th)'
    BY <1>0, <2>1, <2>2, WaitStep, FrameStep
  <2>8. SleepInv(th)'
    BY <1>0, <2>1, <2>2, <2>3, <2>4, <2>5, SleepSelf
  <2>9. ASSUME NEW u \in Thread, u # th PROVE WaitInv(u)' /\ FrameInv(u)' /\ TSOInv(u)' /\ SleepInv(u)'
    <3>1. loc'[u] = loc[u] /\ nest'[u] = nest[u] /\ frames'[u] = frames[u] /\ tsoLock'[u] = tsoLock[u]
      BY <2>4, <2>6, <2>9 DEF Others
    <3>2. WaitInv(u)' /\ TSOInv(u)'
      BY <1>0, <2>1, <2>9, <3>1 DEF WaitInv, TSOInv, Parked, Waits, Level, Leaving, pc, op, Masked
    <3>3. FrameInv(u)'
      BY <1>0, <2>1, <2>9, <3>1, FrameUnchanged
    <3>4. SleepInv(u)'
      BY <1>0, <2>1, <2>2, <2>3, <2>4, <2>5, <2>9, SleepOther
    <3> QED
      BY <3>2, <3>3, <3>4
  <2> QED
    BY <2>5, <2>6, <2>7, <2>8, <2>9 DEF WaitsInv
<1>2. CASE UNCHANGED vars
  <2>1. /\ scenario' = scenario /\ loc' = loc /\ nest' = nest /\ frames' = frames /\ watch' = watch
        /\ current_value' = current_value /\ why_blocked' = why_blocked /\ inbox' = inbox
        /\ tsoLock' = tsoLock /\ heaps' = heaps
    BY <1>2 DEF vars
  <2>2. WatchInv'
    BY <1>0, <2>1 DEF WatchInv, Once, Listed, WaitsFor, Has, IndexOf, pc
  <2>3. ASSUME NEW u \in Thread PROVE WaitInv(u)' /\ TSOInv(u)' /\ FrameInv(u)'
    <3>1. WaitInv(u)' /\ TSOInv(u)'
      BY <1>0, <2>1 DEF WaitInv, TSOInv, Parked, Waits, Level, Leaving, pc, op, Masked
    <3> QED
      BY <1>0, <2>1, <3>1, FrameUnchanged
  <2>4. ASSUME NEW u \in Thread PROVE SleepInv(u)'
    <3>1. Heap' = Heap /\ (Sleeping(u)' <=> Sleeping(u))
      BY <2>1 DEF Heap, Sleeping, pc, Masked
    <3>2. ASSUME NEW c, NEW x PROVE WillUnpark(c, u, x)' <=> WillUnpark(c, u, x)
      <4>1. TRec(c)' = TRec(c) /\ pc(c)' = pc(c)
        BY <2>1 DEF TRec, pc
      <4>2. IndexOf(TRec(c), x)' = IndexOf(TRec(c), x)
        BY <4>1 DEF IndexOf
      <4> QED
        BY <2>1, <4>1, <4>2 DEF WillUnpark, Committing
    <3>3. ASSUME NEW e PROVE Due(u, e)' <=> Due(u, e)
      BY <2>1, <3>1, <3>2 DEF Due, Holds
    <3> SUFFICES ASSUME Sleeping(u)', NEW j \in DOMAIN nest[u][1].entries PROVE Due(u, nest[u][1].entries[j])'
      BY <2>1 DEF SleepInv
    <3>4. PICK e : e = nest[u][1].entries[j]
      OBVIOUS
    <3>5. Due(u, e)'
      BY <1>0, <3>1, <3>3, <3>4 DEF SleepInv
    <3>6. (nest[u][1].entries[j])' = e
      BY <2>1, <3>4
    <3> QED
      BY <3>5, <3>6 DEF Due, Holds
  <2> QED
    BY <2>2, <2>3, <2>4 DEF WaitsInv
<1> QED
  BY <1>1, <1>2

LEMMA InvConsistent == IndInv /\ WaitsInv => (Plain => Consistent)
<1> SUFFICES ASSUME IndInv, WaitsInv, Plain PROVE Consistent
  OBVIOUS
<1>1. FramesMatchNest
  BY DEF WaitsInv, FrameInv, Plain, FramesMatchNest
<1> QED
  BY <1>1, InvTypeOK, InvWatchersWait DEF WaitsInv, Consistent

LEMMA InvNoLostWakeup == WaitsInv => NoLostWakeup
<1> SUFFICES ASSUME WaitsInv, NEW th \in Thread \ Masked, Asleep(th), inbox[th] = 0,
                    NEW j \in DOMAIN nest[th][1].entries
             PROVE  Due(th, nest[th][1].entries[j])
  BY DEF NoLostWakeup, Due
<1>1. Sleeping(th)
  BY DEF Sleeping, Asleep
<1> QED
  BY <1>1 DEF WaitsInv, SleepInv

(* build_watch_queue_entries_for_trec and                                  *)
(* remove_watch_queue_entries_for_trec: the queue of a TVar holds a thread *)
(* exactly once while the thread waits for the TVar and not at all         *)
(* otherwise, for any number of threads and TVars and whatever they do     *)
(* (retry, orElse, catchSTM, exceptions, commits that wake them).          *)
THEOREM WatchQueuesCorrect == Spec => []WatchersWait
<1>1. Init => IndInv /\ WaitsInv
  BY InitInv, InitWaits
<1>2. IndInv /\ [Next]_vars => IndInv'
  BY NextInv
<1>3. IndInv /\ WaitsInv /\ [Next]_vars => WaitsInv'
  BY NextWaits
<1>4. WaitsInv => WatchersWait
  BY InvWatchersWait DEF WaitsInv
<1> QED
  BY <1>1, <1>2, <1>3, <1>4, PTL DEF Spec

(* The variables are consistent with each other: types, watch queues, and  *)
(* the frames that stmStartTransaction, stmCommitNestedTransaction and     *)
(* stmAbortTransaction push and pop together with the records.  The last   *)
(* holds as long as no thread raises an exception in an orElse inside a    *)
(* catchSTM: raiseExceptionHelper takes one record off the nest for all    *)
(* the frames that it strips.                                              *)
THEOREM ConsistentCorrect == Spec => [](Plain => Consistent)
<1>1. Init => IndInv /\ WaitsInv
  BY InitInv, InitWaits
<1>2. IndInv /\ [Next]_vars => IndInv'
  BY NextInv
<1>3. IndInv /\ WaitsInv /\ [Next]_vars => WaitsInv'
  BY NextWaits
<1>4. IndInv /\ WaitsInv => (Plain => Consistent)
  BY InvConsistent
<1> QED
  BY <1>1, <1>2, <1>3, <1>4, PTL DEF Spec

(* stmWait, stmReWait, unpark_waiters_on, tryWakeupThread: whoever sleeps  *)
(* on a TVar that has changed under it has a wake-up in its inbox, or the  *)
(* transaction that changed the TVar holds it still and will come to the   *)
(* thread in its watch queue.                                              *)
THEOREM NoLostWakeupCorrect == Spec => []NoLostWakeup
<1>1. Init => IndInv /\ WaitsInv
  BY InitInv, InitWaits
<1>2. IndInv /\ [Next]_vars => IndInv'
  BY NextInv
<1>3. IndInv /\ WaitsInv /\ [Next]_vars => WaitsInv'
  BY NextWaits
<1>4. WaitsInv => NoLostWakeup
  BY InvNoLostWakeup
<1> QED
  BY <1>1, <1>2, <1>3, <1>4, PTL DEF Spec
=============================================================================
