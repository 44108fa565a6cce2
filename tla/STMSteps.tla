----------------------------- MODULE STMSteps ------------------------------
(***************************************************************************)
(* What the operators on transaction records do, for any record, and what  *)
(* each step of software transactional memory does, for any threads,       *)
(* TVars, scenarios and depth of nesting: the types and the places a step  *)
(* keeps (Sound), what it takes from the records (Reads), and what it does *)
(* to TVars, versions and the history.                                     *)
(***************************************************************************)
EXTENDS STM, SetInduction, FiniteSetTheorems, SequenceTheorems, TLAPS

-----------------------------------------------------------------------------
(* Transaction records: adding an entry, merging a nested record into its  *)
(* parent, aborting a nest of records, finding the next entry of a kind.   *)

EntryType == [tvar : TVar, expected : Val, new : Val, num : Nat]

(* A transaction record has one entry for a TVar. *)
Distinct(es) == \A j, m \in DOMAIN es : es[j].tvar = es[m].tvar => j = m
TRecType == {tr \in [state : TRecState, entries : Seq(EntryType)] : Distinct(tr.entries)}

(* An entry comes from es: the same TVar was read with the same value. *)
From(e, es) == \E m \in DOMAIN es : es[m].tvar = e.tvar /\ es[m].expected = e.expected

LEMMA ValFacts == InitVal \in Val /\ \A v \in Val : v \notin Thread
  BY ValAssumption DEF Val

LEMMA SeqDomain == ASSUME NEW S, NEW s \in Seq(S) PROVE DOMAIN s = 1..Len(s) /\ Len(s) \in Nat
  OBVIOUS

LEMMA EntryFacts ==
    ASSUME NEW x \in TVar, NEW ex \in Val, NEW nw \in Val
    PROVE  /\ Entry(x, ex, nw) \in EntryType
           /\ Entry(x, ex, nw).tvar = x
           /\ Entry(x, ex, nw).expected = ex
           /\ Entry(x, ex, nw).new = nw
  BY DEF Entry, EntryType

LEMMA AppendEntry ==
    ASSUME NEW tr \in TRecType, NEW e \in EntryType, ~Has(tr, e.tvar)
    PROVE  LET r == [tr EXCEPT !.entries = Append(@, e)]
           IN  /\ r \in TRecType /\ r.entries = Append(tr.entries, e)
               /\ \A y : Has(r, y) <=> Has(tr, y) \/ y = e.tvar
               /\ \A j \in DOMAIN r.entries : From(r.entries[j], tr.entries) \/ r.entries[j] = e
<1> DEFINE es == tr.entries
           fs == Append(es, e)
           r == [tr EXCEPT !.entries = Append(@, e)]
<1>1. tr \in [state : TRecState, entries : Seq(EntryType)] /\ Distinct(es)
  BY DEF TRecType
<1>2. es \in Seq(EntryType) /\ fs \in Seq(EntryType) /\ Len(fs) = Len(es) + 1 /\ Len(es) \in Nat
      /\ DOMAIN es = 1..Len(es) /\ DOMAIN fs = 1..(Len(es) + 1)
  BY <1>1
<1>3. (\A j \in 1..Len(es) : fs[j] = es[j]) /\ fs[Len(es) + 1] = e
  BY <1>2
<1>4. r.entries = fs /\ r \in [state : TRecState, entries : Seq(EntryType)]
  BY <1>1, <1>2
<1>5. \A j \in DOMAIN es : es[j].tvar # e.tvar
  BY DEF Has
<1>6. Distinct(fs)
  <2> SUFFICES ASSUME NEW j \in DOMAIN fs, NEW m \in DOMAIN fs, fs[j].tvar = fs[m].tvar
               PROVE  j = m
    BY DEF Distinct
  <2>1. CASE j \in DOMAIN es /\ m \in DOMAIN es
    BY <2>1, <1>1, <1>2, <1>3 DEF Distinct
  <2>2. CASE j \in DOMAIN es /\ m = Len(es) + 1
    BY <2>2, <1>2, <1>3, <1>5
  <2>3. CASE m \in DOMAIN es /\ j = Len(es) + 1
    BY <2>3, <1>2, <1>3, <1>5
  <2> QED
    BY <2>1, <2>2, <2>3, <1>2
<1>7. r \in TRecType
  BY <1>1, <1>2, <1>4, <1>6 DEF TRecType
<1>8. \A y : Has(r, y) <=> Has(tr, y) \/ y = e.tvar
  BY <1>2, <1>3, <1>4 DEF Has
<1>9. \A j \in DOMAIN r.entries : From(r.entries[j], es) \/ r.entries[j] = e
  BY <1>2, <1>3, <1>4 DEF From
<1> QED
  BY <1>4, <1>7, <1>8, <1>9

LEMMA MergeRead ==
    ASSUME NEW tr \in TRecType, NEW x \in TVar, NEW ex \in Val
    PROVE  LET r == merge_read_into(tr, x, ex)
           IN  /\ r \in TRecType
               /\ \A y : Has(r, y) <=> Has(tr, y) \/ y = x
               /\ \A j \in DOMAIN r.entries :
                     \/ From(r.entries[j], tr.entries)
                     \/ r.entries[j].tvar = x /\ r.entries[j].expected = ex
<1>1. CASE ~Has(tr, x)
  BY <1>1, EntryFacts, AppendEntry DEF merge_read_into
<1>2. CASE Has(tr, x)
  <2>1. tr \in [state : TRecState, entries : Seq(EntryType)] /\ Distinct(tr.entries)
    BY DEF TRecType
  <2> DEFINE c == [tr EXCEPT !.state = "CONDEMNED"]
  <2>2. c \in TRecType /\ c.entries = tr.entries
    BY <2>1 DEF TRecType, TRecState
  <2>3. merge_read_into(tr, x, ex) \in {c, tr}
    BY <1>2 DEF merge_read_into
  <2>4. \A j \in DOMAIN tr.entries : From(tr.entries[j], tr.entries)
    BY DEF From
  <2>5. \A y : Has(c, y) <=> Has(tr, y)
    BY <2>2 DEF Has
  <2> QED
    BY <1>2, <2>2, <2>3, <2>4, <2>5
<1> QED
  BY <1>1, <1>2

(* The recursive function of MergeReads. *)
Merging(tr, es, M, n) ==
    M = [j \in 0..n |-> IF j = 0 THEN tr ELSE merge_read_into(M[j - 1], es[j].tvar, es[j].expected)]

LEMMA MergingExists ==
    ASSUME NEW tr, NEW es, NEW n \in Nat
    PROVE  \E M : Merging(tr, es, M, n)
<1> DEFINE S == {m \in Nat : \E M : Merging(tr, es, M, m)}
<1>1. 0 \in S
  <2> DEFINE M == [j \in 0..0 |-> tr]
  <2>1. Merging(tr, es, M, 0)
    BY DEF Merging
  <2> QED
    BY <2>1
<1>2. ASSUME NEW m \in Nat, m \in S PROVE m + 1 \in S
  <2>1. PICK M : Merging(tr, es, M, m)
    BY <1>2
  <2> DEFINE N == [j \in 0..(m + 1) |-> IF j <= m THEN M[j]
                                       ELSE merge_read_into(M[m], es[m + 1].tvar, es[m + 1].expected)]
  <2>2. \A j \in 0..(m + 1) :
          N[j] = IF j = 0 THEN tr ELSE merge_read_into(N[j - 1], es[j].tvar, es[j].expected)
    <3> TAKE j \in 0..(m + 1)
    <3>1. CASE j = 0
      BY <3>1, <2>1 DEF Merging
    <3>2. CASE j \in 1..m
      BY <3>2, <2>1 DEF Merging
    <3>3. CASE j = m + 1
      BY <3>3
    <3> QED
      BY <3>1, <3>2, <3>3
  <2>3. Merging(tr, es, N, m + 1)
    BY <2>2 DEF Merging
  <2> QED
    BY <2>3
<1>3. Nat \subseteq S
  BY <1>1, <1>2, Induction
<1> QED
  BY <1>3

LEMMA MergeReadsFacts ==
    ASSUME NEW tr \in TRecType, NEW inner \in TRecType
    PROVE  LET r == MergeReads(tr, inner)
           IN  /\ r \in TRecType
               /\ \A y : Has(r, y) <=> Has(tr, y) \/ Has(inner, y)
               /\ \A j \in DOMAIN r.entries :
                     From(r.entries[j], tr.entries) \/ From(r.entries[j], inner.entries)
<1> DEFINE es == inner.entries
           n == Len(es)
           M == CHOOSE M : Merging(tr, es, M, n)
<1>1. es \in Seq(EntryType) /\ n \in Nat /\ DOMAIN es = 1..n
  BY DEF TRecType
<1>2. MergeReads(tr, inner) = M[n]
  BY DEF MergeReads, Merging
<1>3. Merging(tr, es, M, n)
  BY <1>1, MergingExists
<1> HIDE DEF M
<1>4. M[0] = tr /\ \A j \in 1..n : M[j] = merge_read_into(M[j - 1], es[j].tvar, es[j].expected)
  BY <1>1, <1>3 DEF Merging
<1> DEFINE Good(r, j) ==
             /\ r \in TRecType
             /\ \A y : Has(r, y) <=> Has(tr, y) \/ \E m \in 1..j : es[m].tvar = y
             /\ \A m \in DOMAIN r.entries : From(r.entries[m], tr.entries) \/ From(r.entries[m], es)
           S == {j \in Nat : j <= n => Good(M[j], j)}
<1>5. 0 \in S
  BY <1>4 DEF From
<1>6. ASSUME NEW j \in Nat, j \in S PROVE j + 1 \in S
  <2> SUFFICES ASSUME j + 1 <= n PROVE Good(M[j + 1], j + 1)
    OBVIOUS
  <2> DEFINE x == es[j + 1].tvar
             ex == es[j + 1].expected
             r == M[j]
             q == M[j + 1]
  <2>1. Good(r, j)
    BY <1>1, <1>6
  <2>a. j + 1 \in 1..n
    BY <1>1
  <2>b. es[j + 1] \in EntryType
    BY <1>1, <2>a
  <2>2. x \in TVar /\ ex \in Val /\ j + 1 \in 1..n
    BY <2>a, <2>b DEF EntryType
  <2>3. q = merge_read_into(r, x, ex)
    BY <1>1, <1>4, <2>2
  <2>4. /\ q \in TRecType
        /\ \A y : Has(q, y) <=> Has(r, y) \/ y = x
        /\ \A m \in DOMAIN q.entries :
              From(q.entries[m], r.entries) \/ (q.entries[m].tvar = x /\ q.entries[m].expected = ex)
    BY <2>1, <2>2, <2>3, MergeRead
  <2> HIDE DEF q, r
  <2>5. \A y : (\E m \in 1..(j + 1) : es[m].tvar = y) <=> (\E m \in 1..j : es[m].tvar = y) \/ y = x
    OBVIOUS
  <2>6. \A y : Has(q, y) <=> Has(tr, y) \/ \E m \in 1..(j + 1) : es[m].tvar = y
    BY <2>1, <2>4, <2>5
  <2>7. ASSUME NEW m \in DOMAIN q.entries
        PROVE  From(q.entries[m], tr.entries) \/ From(q.entries[m], es)
    <3>1. CASE From(q.entries[m], r.entries)
      <4>1. PICK p \in DOMAIN r.entries : r.entries[p].tvar = q.entries[m].tvar
                                          /\ r.entries[p].expected = q.entries[m].expected
        BY <3>1 DEF From
      <4> QED
        BY <4>1, <2>1 DEF From
    <3>2. CASE q.entries[m].tvar = x /\ q.entries[m].expected = ex
      BY <3>2, <1>1, <2>2 DEF From
    <3> QED
      BY <3>1, <3>2, <2>4
  <2> QED
    BY <2>4, <2>6, <2>7 DEF q
<1>7. Good(M[n], n)
  <2> HIDE DEF Good
  <2>1. Nat \subseteq S
    <3> HIDE DEF S
    <3> QED
      BY <1>5, <1>6, Induction
  <2>2. n \in S /\ n <= n
    BY <1>1, <2>1
  <2> QED
    BY <2>2
<1>8. \A y : Has(inner, y) <=> \E m \in 1..n : es[m].tvar = y
  BY <1>1 DEF Has
<1> QED
  BY <1>2, <1>7, <1>8

(* The recursive function of AbortToTop, down to the record lo. *)
Aborting(n, A, lo) ==
    A = [d \in lo..Len(n) |-> IF d = Len(n) THEN n[d] ELSE MergeReads(n[d], A[d + 1])]

LEMMA AbortingExists ==
    ASSUME NEW n \in Seq(TRecType), n # <<>>
    PROVE  \E A : Aborting(n, A, 1)
<1> DEFINE L == Len(n)
           S == {m \in Nat : m < L => \E A : Aborting(n, A, L - m)}
<1>0. L \in Nat /\ L > 0
  OBVIOUS
<1>1. 0 \in S
  <2> DEFINE A == [d \in L..L |-> n[d]]
  <2>1. Aborting(n, A, L - 0)
    BY <1>0 DEF Aborting
  <2> QED
    BY <2>1
<1>2. ASSUME NEW m \in Nat, m \in S PROVE m + 1 \in S
  <2> SUFFICES ASSUME m + 1 < L PROVE \E A : Aborting(n, A, L - (m + 1))
    OBVIOUS
  <2>1. PICK A : Aborting(n, A, L - m)
    BY <1>0, <1>2
  <2> DEFINE lo == L - (m + 1)
             B == [d \in lo..L |-> IF d = lo THEN MergeReads(n[lo], A[lo + 1]) ELSE A[d]]
  <2>a. lo \in Nat /\ L - m = lo + 1 /\ lo < L
    BY <1>0
  <2>2. \A d \in lo..L : B[d] = IF d = L THEN n[d] ELSE MergeReads(n[d], B[d + 1])
    <3> TAKE d \in lo..L
    <3> HIDE DEF lo
    <3>1. CASE d = lo
      BY <3>1, <2>a, <1>0
    <3>2. CASE d = L
      BY <3>2, <2>1, <2>a, <1>0 DEF Aborting
    <3>3. CASE d # lo /\ d # L
      BY <3>3, <2>1, <2>a, <1>0 DEF Aborting
    <3> QED
      BY <3>1, <3>2, <3>3
  <2>3. Aborting(n, B, lo)
    BY <2>2 DEF Aborting
  <2> QED
    BY <2>3
<1>3. Nat \subseteq S
  <2> HIDE DEF S
  <2> QED
    BY <1>1, <1>2, Induction
<1>4. L - 1 \in S /\ L - (L - 1) = 1
  BY <1>0, <1>3
<1> QED
  BY <1>0, <1>4

LEMMA AbortToTopFacts ==
    ASSUME NEW n \in Seq(TRecType), n # <<>>
    PROVE  LET r == AbortToTop(n)
           IN  /\ r \in TRecType
               /\ \A y : Has(r, y) <=> \E d \in DOMAIN n : Has(n[d], y)
               /\ \A j \in DOMAIN r.entries : \E d \in DOMAIN n : From(r.entries[j], n[d].entries)
<1> DEFINE L == Len(n)
           A == CHOOSE A : Aborting(n, A, 1)
<1>1. L \in Nat /\ L > 0 /\ DOMAIN n = 1..L
  OBVIOUS
<1>2. AbortToTop(n) = A[1]
  BY DEF AbortToTop, Aborting
<1>3. Aborting(n, A, 1)
  BY AbortingExists
<1> HIDE DEF A
<1>4. A[L] = n[L] /\ \A d \in 1..(L - 1) : A[d] = MergeReads(n[d], A[d + 1])
  <2>1. \A d \in 1..L : A[d] = IF d = L THEN n[d] ELSE MergeReads(n[d], A[d + 1])
    BY <1>3 DEF Aborting
  <2>2. L \in 1..L /\ \A d \in 1..(L - 1) : d \in 1..L /\ d # L
    <3> HIDE DEF L
    <3> QED
      BY <1>1
  <2> QED
    BY <2>1, <2>2
<1> DEFINE Good(r, lo) ==
             /\ r \in TRecType
             /\ \A y : Has(r, y) <=> \E d \in lo..L : Has(n[d], y)
             /\ \A j \in DOMAIN r.entries : \E d \in lo..L : From(r.entries[j], n[d].entries)
           S == {m \in Nat : m < L => Good(A[L - m], L - m)}
<1>5. 0 \in S
  <2>1. A[L] \in TRecType
    BY <1>1, <1>4
  <2>2. L - 0 = L /\ \A d \in L..L : d = L
    BY <1>1
  <2>3. Good(A[L], L)
    BY <1>1, <2>1, <2>2, <1>4 DEF From
  <2> QED
    BY <1>1, <2>3, <2>2
<1>6. ASSUME NEW m \in Nat, m \in S PROVE m + 1 \in S
  <2> SUFFICES ASSUME m + 1 < L PROVE Good(A[L - (m + 1)], L - (m + 1))
    OBVIOUS
  <2> DEFINE lo == L - (m + 1)
             r == A[lo + 1]
             q == A[lo]
  <2>1. lo \in 1..(L - 1) /\ L - m = lo + 1 /\ lo \in Nat
    BY <1>1
  <2>2. Good(r, lo + 1)
    BY <1>1, <1>6, <2>1
  <2>3. q = MergeReads(n[lo], r) /\ n[lo] \in TRecType
    BY <1>1, <1>4, <2>1
  <2>4. /\ q \in TRecType
        /\ \A y : Has(q, y) <=> Has(n[lo], y) \/ Has(r, y)
        /\ \A j \in DOMAIN q.entries :
              From(q.entries[j], n[lo].entries) \/ From(q.entries[j], r.entries)
    BY <2>2, <2>3, MergeReadsFacts
  <2> HIDE DEF q, r, lo
  <2>5. \A d : d \in lo..L <=> d = lo \/ d \in (lo + 1)..L
    BY <2>1, <1>1
  <2>6. \A y : Has(q, y) <=> \E d \in lo..L : Has(n[d], y)
    BY <2>2, <2>4, <2>5
  <2>7. ASSUME NEW j \in DOMAIN q.entries
        PROVE  \E d \in lo..L : From(q.entries[j], n[d].entries)
    <3>1. CASE From(q.entries[j], n[lo].entries)
      BY <3>1, <2>5
    <3>2. CASE From(q.entries[j], r.entries)
      <4>1. PICK p \in DOMAIN r.entries : r.entries[p].tvar = q.entries[j].tvar
                                          /\ r.entries[p].expected = q.entries[j].expected
        BY <3>2 DEF From
      <4>2. PICK d \in (lo + 1)..L : From(r.entries[p], n[d].entries)
        BY <2>2, <4>1
      <4>3. From(q.entries[j], n[d].entries)
        BY <4>1, <4>2 DEF From
      <4> QED
        BY <4>3, <2>5
    <3> QED
      BY <3>1, <3>2, <2>4
  <2> QED
    BY <2>4, <2>6, <2>7 DEF q, lo
<1>7. Good(A[1], 1)
  <2> HIDE DEF Good
  <2>1. Nat \subseteq S
    <3> HIDE DEF S
    <3> QED
      BY <1>5, <1>6, Induction
  <2>2. L - 1 \in S /\ L - 1 < L /\ L - (L - 1) = 1
    BY <1>1, <2>1
  <2> QED
    BY <2>2
<1> QED
  BY <1>1, <1>2, <1>7

LEMMA TRecFacts ==
    ASSUME NEW tr \in TRecType
    PROVE  /\ tr.state \in TRecState /\ tr.entries \in Seq(EntryType) /\ Distinct(tr.entries)
           /\ DOMAIN tr.entries = 1..Len(tr.entries) /\ Len(tr.entries) \in Nat
           /\ \A j \in DOMAIN tr.entries :
                 /\ tr.entries[j] \in EntryType
                 /\ tr.entries[j].tvar \in TVar /\ tr.entries[j].expected \in Val
                 /\ tr.entries[j].new \in Val /\ tr.entries[j].num \in Nat
                 /\ Has(tr, tr.entries[j].tvar)
                 /\ IndexOf(tr, tr.entries[j].tvar) = j
           /\ \A x : Has(tr, x) => /\ IndexOf(tr, x) \in DOMAIN tr.entries
                                   /\ tr.entries[IndexOf(tr, x)].tvar = x
<1>1. tr.state \in TRecState /\ tr.entries \in Seq(EntryType) /\ Distinct(tr.entries)
  BY DEF TRecType
<1>2. DOMAIN tr.entries = 1..Len(tr.entries) /\ Len(tr.entries) \in Nat
  BY <1>1
<1>3. \A j \in DOMAIN tr.entries :
                 /\ tr.entries[j] \in EntryType
                 /\ tr.entries[j].tvar \in TVar /\ tr.entries[j].expected \in Val
                 /\ tr.entries[j].new \in Val /\ tr.entries[j].num \in Nat
                 /\ Has(tr, tr.entries[j].tvar)
  <2> TAKE j \in DOMAIN tr.entries
  <2>1. tr.entries[j] \in EntryType
    BY <1>1, <1>2
  <2> QED
    BY <2>1 DEF EntryType, Has
<1>4. \A x : Has(tr, x) => IndexOf(tr, x) \in DOMAIN tr.entries /\ tr.entries[IndexOf(tr, x)].tvar = x
  BY DEF Has, IndexOf
<1>5. \A j \in DOMAIN tr.entries : IndexOf(tr, tr.entries[j].tvar) = j
  BY <1>1, <1>3, <1>4 DEF Distinct
<1> QED
  BY <1>1, <1>2, <1>3, <1>4, <1>5

(* Updating fields of one entry other than its TVar. *)
LEMMA UpdateEntry ==
    ASSUME NEW tr \in TRecType, NEW j \in DOMAIN tr.entries, NEW e \in EntryType,
           e.tvar = tr.entries[j].tvar, NEW r,
           r \in [state : TRecState, entries : Seq(EntryType)],
           r.entries = [tr.entries EXCEPT ![j] = e]
    PROVE  /\ r \in TRecType
           /\ \A y : Has(r, y) <=> Has(tr, y)
           /\ e.expected = tr.entries[j].expected =>
                \A m \in DOMAIN r.entries : From(r.entries[m], tr.entries)
<1>1. /\ DOMAIN r.entries = DOMAIN tr.entries
      /\ \A m \in DOMAIN tr.entries : r.entries[m].tvar = tr.entries[m].tvar
      /\ \A m \in DOMAIN tr.entries : m # j => r.entries[m] = tr.entries[m]
  BY TRecFacts
<1>2. Distinct(r.entries)
  BY <1>1, TRecFacts DEF Distinct
<1>3. r \in TRecType
  BY <1>2 DEF TRecType
<1>4. \A y : Has(r, y) <=> Has(tr, y)
  BY <1>1 DEF Has
<1>5. r.entries[j] = e
  BY TRecFacts
<1>6. e.expected = tr.entries[j].expected =>
        \A m \in DOMAIN r.entries : From(r.entries[m], tr.entries)
  BY <1>1, <1>5 DEF From
<1> QED
  BY <1>3, <1>4, <1>6

LEMMA MergeUpdate ==
    ASSUME NEW tr \in TRecType, NEW x \in TVar, NEW ex \in Val, NEW nw \in Val
    PROVE  LET r == merge_update_into(tr, x, ex, nw)
           IN  /\ r \in TRecType
               /\ \A y : Has(r, y) <=> Has(tr, y) \/ y = x
               /\ \A j \in DOMAIN r.entries :
                     \/ From(r.entries[j], tr.entries)
                     \/ r.entries[j].tvar = x /\ r.entries[j].expected = ex
<1>1. CASE ~Has(tr, x)
  <2> DEFINE e == Entry(x, ex, nw)
  <2>1. e \in EntryType /\ e.tvar = x /\ e.expected = ex
    BY EntryFacts
  <2> HIDE DEF e
  <2>2. merge_update_into(tr, x, ex, nw) = [tr EXCEPT !.entries = Append(@, e)]
    BY <1>1 DEF merge_update_into, e
  <2> DEFINE r == [tr EXCEPT !.entries = Append(@, e)]
  <2>3. /\ r \in TRecType
        /\ \A y : Has(r, y) <=> Has(tr, y) \/ y = e.tvar
        /\ \A j \in DOMAIN r.entries : From(r.entries[j], tr.entries) \/ r.entries[j] = e
    BY <1>1, <2>1, AppendEntry
  <2> HIDE DEF r
  <2>4. \A j \in DOMAIN r.entries :
           From(r.entries[j], tr.entries) \/ (r.entries[j].tvar = x /\ r.entries[j].expected = ex)
    BY <2>1, <2>3
  <2> QED
    BY <2>1, <2>2, <2>3, <2>4 DEF r
<1>2. CASE Has(tr, x)
  <2> DEFINE j == IndexOf(tr, x)
             r == merge_update_into(tr, x, ex, nw)
             e == [tr.entries[j] EXCEPT !.new = nw]
  <2>1. j \in DOMAIN tr.entries /\ tr.entries[j].tvar = x /\ tr.entries[j] \in EntryType
    BY <1>2, TRecFacts
  <2>2. e \in EntryType /\ e.tvar = tr.entries[j].tvar /\ e.expected = tr.entries[j].expected
    BY <2>1 DEF EntryType
  <2>3. tr \in [state : TRecState, entries : Seq(EntryType)]
    BY DEF TRecType
  <2>4. [tr.entries EXCEPT ![j] = e] \in Seq(EntryType)
    BY <2>1, <2>2, <2>3
  <2>5. r = [tr EXCEPT !.state = IF tr.entries[j].expected # ex THEN "CONDEMNED" ELSE @,
                       !.entries = [tr.entries EXCEPT ![j] = e]]
    BY <1>2 DEF merge_update_into
  <2>6. r \in [state : TRecState, entries : Seq(EntryType)] /\ r.entries = [tr.entries EXCEPT ![j] = e]
    BY <2>3, <2>4, <2>5 DEF TRecState
  <2>7. /\ r \in TRecType
        /\ \A y : Has(r, y) <=> Has(tr, y)
        /\ \A m \in DOMAIN r.entries : From(r.entries[m], tr.entries)
    <3> HIDE DEF j, r, e
    <3> QED
      BY <2>1, <2>2, <2>6, UpdateEntry
  <2> QED
    BY <1>2, <2>7
<1> QED
  BY <1>1, <1>2

(* Seek, by the set of the indices it looks for. *)
SeekIn(hits, n) == IF hits = {} THEN n + 1 ELSE CHOOSE j \in hits : \A j2 \in hits : j <= j2

LEMMA SeekInFacts ==
    ASSUME NEW n \in Nat, NEW hits \in SUBSET (1..n)
    PROVE  /\ SeekIn(hits, n) \in 1..(n + 1)
           /\ SeekIn(hits, n) <= n => SeekIn(hits, n) \in hits
           /\ \A m \in hits : SeekIn(hits, n) <= m
<1>1. CASE hits = {}
  BY <1>1 DEF SeekIn
<1>2. CASE hits # {}
  <2>1. hits \in SUBSET Nat
    OBVIOUS
  <2>2. \E j \in hits : \A j2 \in hits : j <= j2
    BY <1>2, <2>1, LeastMember
  <2>3. SeekIn(hits, n) \in hits /\ \A m \in hits : SeekIn(hits, n) <= m
    BY <1>2, <2>2 DEF SeekIn
  <2>4. ASSUME NEW h \in hits PROVE h \in 1..(n + 1)
    OBVIOUS
  <2> QED
    BY <2>3, <2>4
<1> QED
  BY <1>1, <1>2

(* What Seek finds among the entries from i on: the first that is wanted, or the end. *)
Finds(es, i, j, W) ==
    /\ j \in 1..(Len(es) + 1)
    /\ j <= Len(es) => j \in DOMAIN es /\ i <= j /\ j \in W
    /\ \A m \in DOMAIN es : i <= m /\ m \in W => j <= m

LEMMA SeekUpdate ==
    ASSUME NEW es \in Seq(EntryType), NEW i \in Nat \ {0}
    PROVE  Finds(es, i, Seek(es, i, entry_is_update), {m \in DOMAIN es : entry_is_update(es[m])})
<1> DEFINE hits == {j \in i..Len(es) : entry_is_update(es[j])}
<1>1. Seek(es, i, entry_is_update) = SeekIn(hits, Len(es))
  BY DEF Seek, SeekIn
<1>2. hits \in SUBSET (1..Len(es)) /\ Len(es) \in Nat /\ DOMAIN es = 1..Len(es)
  OBVIOUS
<1>3. hits = {m \in DOMAIN es : entry_is_update(es[m]) /\ i <= m}
  BY <1>2
<1> HIDE DEF hits
<1> QED
  BY <1>1, <1>2, <1>3, SeekInFacts DEF Finds

LEMMA SeekReadOnly ==
    ASSUME NEW es \in Seq(EntryType), NEW i \in Nat \ {0}
    PROVE  Finds(es, i, Seek(es, i, entry_is_read_only), {m \in DOMAIN es : entry_is_read_only(es[m])})
<1> DEFINE hits == {j \in i..Len(es) : entry_is_read_only(es[j])}
<1>1. Seek(es, i, entry_is_read_only) = SeekIn(hits, Len(es))
  BY DEF Seek, SeekIn
<1>2. hits \in SUBSET (1..Len(es)) /\ Len(es) \in Nat /\ DOMAIN es = 1..Len(es)
  OBVIOUS
<1>3. hits = {m \in DOMAIN es : entry_is_read_only(es[m]) /\ i <= m}
  BY <1>2
<1> HIDE DEF hits
<1> QED
  BY <1>1, <1>2, <1>3, SeekInFacts DEF Finds

LEMMA SeekOwned ==
    ASSUME NEW es \in Seq(EntryType), NEW i \in Nat \ {0}, NEW th
    PROVE  Finds(es, i, Seek(es, i, LAMBDA e : Owned(th, e)), {m \in DOMAIN es : Owned(th, es[m])})
<1> DEFINE hits == {j \in i..Len(es) : Owned(th, es[j])}
<1>1. Seek(es, i, LAMBDA e : Owned(th, e)) = SeekIn(hits, Len(es))
  BY DEF Seek, SeekIn
<1>2. hits \in SUBSET (1..Len(es)) /\ Len(es) \in Nat /\ DOMAIN es = 1..Len(es)
  OBVIOUS
<1>3. \A m : m \in hits <=> m \in DOMAIN es /\ Owned(th, es[m]) /\ i <= m
  BY <1>2
<1> HIDE DEF hits
<1>4. \A m : m \in {q \in DOMAIN es : Owned(th, es[q])} <=> m \in DOMAIN es /\ Owned(th, es[m])
  OBVIOUS
<1> DEFINE W == {q \in DOMAIN es : Owned(th, es[q])}
           f == SeekIn(hits, Len(es))
<1>5. /\ f \in 1..(Len(es) + 1)
      /\ f <= Len(es) => f \in hits
      /\ \A m \in hits : f <= m
  BY <1>2, SeekInFacts
<1> HIDE DEF W, f
<1>6. Finds(es, i, f, W)
  BY <1>2, <1>3, <1>4, <1>5 DEF Finds, W
<1> QED
  BY <1>1, <1>6 DEF W, f

-----------------------------------------------------------------------------
(* The inductive invariant. *)

LocType == [pc : PC, op : Op, lvl : Nat \ {0}, i : Nat \ {0}, k : Nat, saw : Val, ok : BOOLEAN]

TypeInv ==
    /\ scenario \in Scenarios
    /\ current_value \in [TVar -> Val \cup Thread]
    /\ num_updates \in [TVar -> Nat]
    /\ watch \in [TVar -> Seq(Thread)]
    /\ nest \in [Thread -> Seq(TRecType)]
    /\ frames \in [Thread -> Seq({"first", "alt", "catch"})]
    /\ loc \in [Thread -> LocType]
    /\ why_blocked \in [Thread -> {"NotBlocked", "BlockedOnSTM"}]
    /\ inbox \in [Thread -> Nat]
    /\ tsoLock \in [Thread -> BOOLEAN]
    /\ done \in [Thread -> Nat]
    /\ heaps \in Seq([TVar -> Val]) /\ heaps # <<>>
    /\ since \in [Thread -> Nat \ {0}]
    /\ torn \in [Thread -> SUBSET TVar]

(* Where a thread is, what it is there for and how deep its records nest   *)
(* belong together.  Each frame has a record; Exception.cmm can leave more *)
(* records than frames.                                                    *)
OpInv(th) ==
    /\ pc(th) \in {"idle", "run", "getInvariants", "getInvUnlock", "blocked", "resume",
                   "throwMasked"} => op(th) = "none"
    /\ pc(th) \in {"validate", "revert"} =>
          op(th) \in {"commit", "commitNested", "wait", "rewait", "validate", "throw"}
    /\ pc(th) \in {"readVersion", "recheck", "checkReads"} => op(th) \in {"commit", "commitNested"}
    /\ pc(th) = "merge" => op(th) = "commitNested"
    /\ Committing(th) => op(th) = "commit"
    /\ pc(th) = "unparkLock" => loc[th].k > 0
    /\ op(th) = "none" => loc[th].lvl = 1
    /\ pc(th) = "validate" /\ op(th) \in {"wait", "rewait"} => loc[th].ok
    /\ pc(th) \in {"unwatch", "unwatchUnlock"} => op(th) \in {"rewait", "throwTo"}

BlockedInv(th) ==
    why_blocked[th] = "BlockedOnSTM" =>
        \/ pc(th) = "revert" /\ loc[th].ok /\ op(th) \in {"wait", "rewait"}
        \/ pc(th) \in {"blocked", "throwMasked"}
        \/ pc(th) \in {"unwatch", "unwatchUnlock"} /\ op(th) = "throwTo"

NestInv(th) ==
    /\ pc(th) = "idle" => nest[th] = <<>>
    /\ done[th] <= Len(Writes[th])
    /\ pc(th) # "idle" =>
          /\ Len(frames[th]) < Len(nest[th])
          /\ loc[th].lvl <= Len(nest[th])
          /\ done[th] < Len(Writes[th])
    /\ op(th) = "commitNested" =>
          /\ loc[th].lvl = Len(nest[th]) /\ loc[th].lvl > 1
          /\ frames[th] # <<>>

PlaceInv == \A th \in Thread : OpInv(th) /\ BlockedInv(th) /\ NestInv(th)

(* The entries that the operation of th locks. *)
Locks(th, e) == acquire_all(th) \/ entry_is_update(e)

(* th holds the TVar of its entry j, and relies on it. *)
MustHold(th, j) ==
    \/ pc(th) \in {"validate", "readVersion", "recheck"} /\ j < loc[th].i /\ Locks(th, Entries(th)[j])
    \/ pc(th) = "checkReads" /\ Locks(th, Entries(th)[j])
    \/ (pc(th) = "merge" \/ Committing(th)) /\ j >= loc[th].i /\ Locks(th, Entries(th)[j])
    \/ pc(th) \in {"getInvUnlock", "unwatchUnlock"} /\ j = loc[th].i

(* th may hold it, and gives it back if it does. *)
MayHold(th, j) ==
    \/ MustHold(th, j)
    \/ pc(th) = "revert" /\ j >= loc[th].i /\ Locks(th, Entries(th)[j])

(* What th is going to put into it. *)
PutsBack(th, j) ==
    IF Committing(th) THEN Entries(th)[j].new
    ELSE IF pc(th) \in {"getInvUnlock", "unwatchUnlock"} THEN loc[th].saw
    ELSE Entries(th)[j].expected

HeldInv(th) ==
    pc(th) # "idle" =>
      \A j \in DOMAIN Entries(th) : MustHold(th, j) => current_value[Entries(th)[j].tvar] = th
EntryInv(th) ==
    /\ pc(th) \in {"getInvUnlock", "unwatchUnlock", "readVersion", "recheck",
                   "unpark", "unparkLock", "bump", "store"} => loc[th].i <= Len(Entries(th))
    /\ pc(th) \in {"readVersion", "recheck"} => entry_is_read_only(Cur(th))
    /\ pc(th) \in {"unpark", "unparkLock", "bump", "store"} => entry_is_update(Cur(th))

HolderInv(x) ==
    IF current_value[x] \in Thread
      THEN LET th == current_value[x]
           IN  /\ pc(th) # "idle"
               /\ \E j \in DOMAIN Entries(th) :
                    Entries(th)[j].tvar = x /\ MayHold(th, j) /\ PutsBack(th, j) = Heap[x]
      ELSE current_value[x] = Heap[x]

LockInv ==
    /\ \A th \in Thread : HeldInv(th) /\ EntryInv(th)
    /\ \A x \in TVar : HolderInv(x)

-----------------------------------------------------------------------------
(* Moves of a thread. *)

(* th goes to p, for operation o on record l and its entry i; s is what it *)
(* remembers of a TVar it has locked, b whether the record is valid.       *)
Moved(th, p, o, l, i, s, b) ==
    /\ loc' \in [Thread -> LocType]
    /\ \A u \in Thread \ {th} : loc'[u] = loc[u]
    /\ loc'[th].pc = p /\ loc'[th].op = o /\ loc'[th].lvl = l
    /\ loc'[th].i = i /\ loc'[th].saw = s /\ loc'[th].ok = b

LEMMA LocFacts ==
    ASSUME TypeInv, NEW th \in Thread
    PROVE  /\ loc[th] \in LocType
           /\ loc[th].pc \in PC /\ loc[th].op \in Op /\ loc[th].lvl \in Nat \ {0}
           /\ loc[th].i \in Nat \ {0} /\ loc[th].k \in Nat /\ loc[th].saw \in Val
           /\ loc[th].ok \in BOOLEAN
<1>1. loc[th] \in LocType
  BY DEF TypeInv
<1> QED
  BY <1>1 DEF LocType

LEMMA AtFacts ==
    ASSUME NEW p \in PC
    PROVE  /\ At(p) \in LocType
           /\ At(p).pc = p /\ At(p).op = "none" /\ At(p).lvl = 1 /\ At(p).i = 1
           /\ At(p).saw = InitVal /\ At(p).ok = TRUE /\ At(p).k = 0
  BY ValFacts DEF At, LocType, Op

LEMMA SetLoc ==
    ASSUME TypeInv, NEW th \in Thread, NEW l \in LocType, loc' = [loc EXCEPT ![th] = l]
    PROVE  Moved(th, l.pc, l.op, l.lvl, l.i, l.saw, l.ok) /\ loc'[th].k = l.k
<1>1. loc \in [Thread -> LocType]
  BY DEF TypeInv
<1>2. loc' \in [Thread -> LocType] /\ loc'[th] = l /\ \A u \in Thread \ {th} : loc'[u] = loc[u]
  BY <1>1
<1> QED
  BY <1>2 DEF Moved

LEMMA MoveAt ==
    ASSUME TypeInv, NEW th \in Thread, NEW p \in PC, loc' = [loc EXCEPT ![th] = At(p)]
    PROVE  Moved(th, p, "none", 1, 1, InitVal, TRUE)
  BY AtFacts, SetLoc

LEMMA MoveOp ==
    ASSUME TypeInv, NEW th \in Thread, NEW p \in PC, NEW o \in Op, NEW lvl \in Nat \ {0},
           loc' = [loc EXCEPT ![th] = [At(p) EXCEPT !.op = o, !.lvl = lvl]]
    PROVE  Moved(th, p, o, lvl, 1, InitVal, TRUE)
<1> DEFINE l == [At(p) EXCEPT !.op = o, !.lvl = lvl]
<1>1. l \in LocType /\ l.pc = p /\ l.op = o /\ l.lvl = lvl /\ l.i = 1 /\ l.saw = InitVal /\ l.ok = TRUE
  BY AtFacts DEF At, LocType
<1> HIDE DEF l
<1>2. loc' = [loc EXCEPT ![th] = l]
  BY DEF l
<1>3. Moved(th, l.pc, l.op, l.lvl, l.i, l.saw, l.ok)
  BY <1>1, <1>2, SetLoc
<1> QED
  BY <1>1, <1>3

LEMMA MoveThrowTo ==
    ASSUME TypeInv, NEW th \in Thread, loc' = [loc EXCEPT ![th] = [At("unwatch") EXCEPT !.op = "throwTo"]]
    PROVE  Moved(th, "unwatch", "throwTo", 1, 1, InitVal, TRUE)
<1> DEFINE l == [At("unwatch") EXCEPT !.op = "throwTo"]
<1>1. l \in LocType /\ l.pc = "unwatch" /\ l.op = "throwTo" /\ l.lvl = 1 /\ l.i = 1 /\ l.saw = InitVal
      /\ l.ok = TRUE
  <2>1. At("unwatch") \in LocType /\ "throwTo" \in Op /\ At("unwatch").lvl = 1 /\ At("unwatch").i = 1
        /\ At("unwatch").saw = InitVal /\ At("unwatch").ok = TRUE /\ At("unwatch").pc = "unwatch"
    BY AtFacts DEF Op, PC
  <2> QED
    BY <2>1 DEF LocType
<1> HIDE DEF l
<1>2. loc' = [loc EXCEPT ![th] = l]
  BY DEF l
<1> QED
  BY <1>1, <1>2, SetLoc

LEMMA MoveValidate ==
    ASSUME TypeInv, NEW th \in Thread, NEW o \in Op, NEW lvl \in Nat \ {0}, Validate(th, o, lvl)
    PROVE  Moved(th, "validate", o, lvl, 1, InitVal, TRUE)
  BY MoveOp DEF Validate, PC

LEMMA MoveGoto ==
    ASSUME TypeInv, NEW th \in Thread, NEW p \in PC, Goto(th, p)
    PROVE  /\ Moved(th, p, op(th), loc[th].lvl, loc[th].i, loc[th].saw, loc[th].ok)
           /\ loc'[th].k = loc[th].k
<1> DEFINE l == [loc[th] EXCEPT !.pc = p]
<1>1. l \in LocType /\ l.pc = p /\ l.op = op(th) /\ l.lvl = loc[th].lvl /\ l.i = loc[th].i
      /\ l.saw = loc[th].saw /\ l.ok = loc[th].ok /\ l.k = loc[th].k
  BY LocFacts DEF LocType, op
<1>2. loc' = [loc EXCEPT ![th] = l]
  BY DEF Goto
<1> HIDE DEF l
<1> QED
  BY <1>1, <1>2, SetLoc

LEMMA MoveEntry ==
    ASSUME TypeInv, NEW th \in Thread, NEW p \in PC, NEW j \in Nat \ {0}, GotoEntry(th, p, j)
    PROVE  Moved(th, p, op(th), loc[th].lvl, j, loc[th].saw, loc[th].ok)
<1> DEFINE l == [loc[th] EXCEPT !.pc = p, !.i = j]
<1>1. l \in LocType /\ l.pc = p /\ l.op = op(th) /\ l.lvl = loc[th].lvl /\ l.i = j
      /\ l.saw = loc[th].saw /\ l.ok = loc[th].ok
  BY LocFacts DEF LocType, op
<1>2. loc' = [loc EXCEPT ![th] = l]
  BY DEF GotoEntry
<1> HIDE DEF l
<1> QED
  BY <1>1, <1>2, SetLoc

LEMMA MoveInvalid ==
    ASSUME TypeInv, NEW th \in Thread, Invalid(th)
    PROVE  Moved(th, "revert", op(th), loc[th].lvl, 1, loc[th].saw, FALSE)
<1> DEFINE l == [loc[th] EXCEPT !.pc = "revert", !.i = 1, !.ok = FALSE]
<1>1. l \in LocType /\ l.pc = "revert" /\ l.op = op(th) /\ l.lvl = loc[th].lvl /\ l.i = 1
      /\ l.saw = loc[th].saw /\ l.ok = FALSE
  <2>1. loc[th] \in LocType /\ "revert" \in PC /\ 1 \in Nat \ {0}
    BY LocFacts DEF PC
  <2> QED
    BY <2>1 DEF LocType, op
<1>2. loc' = [loc EXCEPT ![th] = l]
  BY DEF Invalid
<1> HIDE DEF l
<1> QED
  BY <1>1, <1>2, SetLoc

(* The moves of the actions that lock or unlock a TVar for a look. *)
GotoSaw(th, p, j, v) == loc' = [loc EXCEPT ![th].pc = p, ![th].i = j, ![th].saw = v]

LEMMA MoveSaw ==
    ASSUME TypeInv, NEW th \in Thread, NEW p \in PC, NEW j \in Nat \ {0}, NEW v \in Val,
           GotoSaw(th, p, j, v)
    PROVE  Moved(th, p, op(th), loc[th].lvl, j, v, loc[th].ok)
<1> DEFINE l == [loc[th] EXCEPT !.pc = p, !.i = j, !.saw = v]
<1>1. l \in LocType /\ l.pc = p /\ l.op = op(th) /\ l.lvl = loc[th].lvl /\ l.i = j
      /\ l.saw = v /\ l.ok = loc[th].ok
  BY LocFacts DEF LocType, op
<1>2. loc' = [loc EXCEPT ![th] = l]
  BY DEF GotoSaw
<1> HIDE DEF l
<1> QED
  BY <1>1, <1>2, SetLoc

(* The moves of the loop over the watch queue. *)
GotoWatcher(th, p, j, q) == loc' = [loc EXCEPT ![th].pc = p, ![th].i = j, ![th].k = q]

LEMMA MoveQueue ==
    ASSUME TypeInv, NEW th \in Thread, NEW p \in PC, NEW j \in Nat \ {0}, NEW q \in Nat,
           GotoWatcher(th, p, j, q)
    PROVE  Moved(th, p, op(th), loc[th].lvl, j, loc[th].saw, loc[th].ok) /\ loc'[th].k = q
<1> DEFINE l == [loc[th] EXCEPT !.pc = p, !.i = j, !.k = q]
<1>1. l \in LocType /\ l.pc = p /\ l.op = op(th) /\ l.lvl = loc[th].lvl /\ l.i = j
      /\ l.saw = loc[th].saw /\ l.ok = loc[th].ok /\ l.k = q
  BY LocFacts DEF LocType, op
<1>2. loc' = [loc EXCEPT ![th] = l]
  BY DEF GotoWatcher
<1> HIDE DEF l
<1> QED
  BY <1>1, <1>2, SetLoc

-----------------------------------------------------------------------------
(* Nests of transaction records. *)

(* Every entry of the nest m has read what an entry of the nest n has.     *)
Kept(n, m) ==
    \A d \in DOMAIN m : \A j \in DOMAIN m[d].entries :
        \E d2 \in DOMAIN n : From(m[d].entries[j], n[d2].entries)

LEMMA FromSelf == ASSUME NEW es, NEW j \in DOMAIN es PROVE From(es[j], es)
  BY DEF From

LEMMA FromTrans ==
    ASSUME NEW e, NEW es, NEW fs, From(e, es), \A j \in DOMAIN es : From(es[j], fs)
    PROVE  From(e, fs)
  BY DEF From

LEMMA NewTRecFacts ==
    ASSUME NEW st \in TRecState
    PROVE  /\ NewTRec(st) \in TRecType /\ NewTRec(st).entries = <<>> /\ DOMAIN NewTRec(st).entries = {}
           /\ \A x : ~Has(NewTRec(st), x)
<1>1. NewTRec(st).entries = <<>> /\ NewTRec(st) \in [state : TRecState, entries : Seq(EntryType)]
  BY DEF NewTRec
<1>2. DOMAIN NewTRec(st).entries = {}
  BY <1>1
<1> QED
  BY <1>1, <1>2 DEF TRecType, Distinct, Has

LEMMA NestAppend ==
    ASSUME NEW n \in Seq(TRecType), NEW st \in TRecState
    PROVE  LET m == Append(n, NewTRec(st))
           IN  /\ m \in Seq(TRecType) /\ Len(m) = Len(n) + 1
               /\ Kept(n, m) /\ Touched(n) \subseteq Touched(m)
<1> DEFINE r == NewTRec(st)
           m == Append(n, r)
<1>1. r \in TRecType /\ DOMAIN r.entries = {}
  BY NewTRecFacts
<1> HIDE DEF r
<1>2. m \in Seq(TRecType) /\ Len(m) = Len(n) + 1 /\ DOMAIN m = 1..(Len(n) + 1) /\ DOMAIN n = 1..Len(n)
      /\ m[Len(n) + 1] = r /\ (\A d \in 1..Len(n) : m[d] = n[d]) /\ Len(n) \in Nat
  BY <1>1
<1> HIDE DEF m
<1>3. Kept(n, m)
  BY <1>1, <1>2, FromSelf DEF Kept
<1>4. \A d \in DOMAIN n : d \in DOMAIN m /\ m[d] = n[d]
  BY <1>2
<1>5. Touched(n) \subseteq Touched(m)
  BY <1>4 DEF Touched
<1> QED
  BY <1>2, <1>3, <1>5 DEF m, r

(* One record is replaced by one that has read what it has. *)
LEMMA NestReplace ==
    ASSUME NEW n \in Seq(TRecType), NEW d \in DOMAIN n, NEW r \in TRecType
    PROVE  LET m == [n EXCEPT ![d] = r]
           IN  /\ m \in Seq(TRecType) /\ Len(m) = Len(n) /\ DOMAIN m = DOMAIN n
               /\ m[d] = r /\ \A d2 \in DOMAIN n : d2 # d => m[d2] = n[d2]
               /\ (\A j \in DOMAIN r.entries :
                      \E d2 \in DOMAIN n : From(r.entries[j], n[d2].entries)) => Kept(n, m)
               /\ (\A x \in TVar : Has(n[d], x) => Has(r, x)) => Touched(n) \subseteq Touched(m)
<1> DEFINE m == [n EXCEPT ![d] = r]
<1>1. m \in Seq(TRecType) /\ Len(m) = Len(n) /\ DOMAIN m = DOMAIN n
      /\ m[d] = r /\ \A d2 \in DOMAIN n : d2 # d => m[d2] = n[d2]
  OBVIOUS
<1> HIDE DEF m
<1>2. ASSUME \A j \in DOMAIN r.entries : \E d2 \in DOMAIN n : From(r.entries[j], n[d2].entries)
      PROVE  Kept(n, m)
  BY <1>1, <1>2, FromSelf DEF Kept
<1>3. ASSUME \A x \in TVar : Has(n[d], x) => Has(r, x)
      PROVE  Touched(n) \subseteq Touched(m)
  BY <1>1, <1>3 DEF Touched
<1> QED
  BY <1>1, <1>2, <1>3 DEF m

LEMMA NestReplaceKept ==
    ASSUME NEW n \in Seq(TRecType), NEW d \in DOMAIN n, NEW r \in TRecType,
           \A j \in DOMAIN r.entries : From(r.entries[j], n[d].entries),
           \A x \in TVar : Has(n[d], x) => Has(r, x)
    PROVE  LET m == [n EXCEPT ![d] = r]
           IN  m \in Seq(TRecType) /\ Len(m) = Len(n) /\ Kept(n, m) /\ Touched(n) \subseteq Touched(m)
<1> DEFINE m == [n EXCEPT ![d] = r]
<1>1. m \in Seq(TRecType) /\ Len(m) = Len(n) /\ DOMAIN m = DOMAIN n
      /\ m[d] = r /\ \A d2 \in DOMAIN n : d2 # d => m[d2] = n[d2]
  OBVIOUS
<1> HIDE DEF m
<1>2. Kept(n, m)
  BY <1>1, FromSelf DEF Kept
<1>3. Touched(n) \subseteq Touched(m)
  BY <1>1 DEF Touched
<1> QED
  BY <1>1, <1>2, <1>3 DEF m

(* The records from d + 1 on are taken off. *)
LEMMA NestFront ==
    ASSUME NEW n \in Seq(TRecType), NEW d \in 0..Len(n)
    PROVE  LET m == SubSeq(n, 1, d)
           IN  /\ m \in Seq(TRecType) /\ Len(m) = d /\ DOMAIN m = 1..d
               /\ \A c \in 1..d : c \in DOMAIN n /\ m[c] = n[c]
               /\ Kept(n, m)
<1> DEFINE m == SubSeq(n, 1, d)
<1>1. m \in Seq(TRecType) /\ Len(m) = d /\ DOMAIN m = 1..d
      /\ \A c \in 1..d : c \in DOMAIN n /\ m[c] = n[c]
  OBVIOUS
<1> HIDE DEF m
<1>2. Kept(n, m)
  BY <1>1, FromSelf DEF Kept
<1> QED
  BY <1>1, <1>2 DEF m

(* The first d records, and one made of the others. *)
LEMMA NestFold ==
    ASSUME NEW n \in Seq(TRecType), NEW d \in Nat, d < Len(n), NEW r \in TRecType
    PROVE  LET m == Append(SubSeq(n, 1, d), r)
           IN  /\ m \in Seq(TRecType) /\ Len(m) = d + 1 /\ m # <<>>
               /\ (\A j \in DOMAIN r.entries :
                      \E d2 \in DOMAIN n : From(r.entries[j], n[d2].entries)) => Kept(n, m)
               /\ (\A d2 \in DOMAIN n, x \in TVar : d2 > d /\ Has(n[d2], x) => Has(r, x))
                     => Touched(n) \subseteq Touched(m)
<1> DEFINE f == SubSeq(n, 1, d)
           m == Append(f, r)
<1>1. f \in Seq(TRecType) /\ Len(f) = d /\ DOMAIN f = 1..d /\ DOMAIN n = 1..Len(n) /\ Len(n) \in Nat
      /\ \A c \in 1..d : c \in DOMAIN n /\ f[c] = n[c]
  BY NestFront
<1> HIDE DEF f
<1>2. m \in Seq(TRecType) /\ Len(m) = d + 1 /\ DOMAIN m = 1..(d + 1) /\ m[d + 1] = r
      /\ \A c \in 1..d : m[c] = f[c]
  BY <1>1
<1> HIDE DEF m
<1>3. ASSUME \A j \in DOMAIN r.entries : \E d2 \in DOMAIN n : From(r.entries[j], n[d2].entries)
      PROVE  Kept(n, m)
  BY <1>1, <1>2, <1>3, FromSelf DEF Kept
<1>4. ASSUME \A d2 \in DOMAIN n, x \in TVar : d2 > d /\ Has(n[d2], x) => Has(r, x)
      PROVE  Touched(n) \subseteq Touched(m)
  <2> SUFFICES ASSUME NEW x \in TVar, NEW c \in DOMAIN n, Has(n[c], x)
               PROVE  \E c2 \in DOMAIN m : Has(m[c2], x)
    BY DEF Touched
  <2>1. CASE c <= d
    BY <2>1, <1>1, <1>2
  <2>2. CASE c > d
    BY <2>2, <1>2, <1>4
  <2> QED
    BY <2>1, <2>2, <1>1
<1> QED
  BY <1>2, <1>3, <1>4 DEF m, f

-----------------------------------------------------------------------------
(* What each action does to the thread that takes it. *)

Nested(th, n) ==
    /\ nest' \in [Thread -> Seq(TRecType)] /\ nest'[th] = n
    /\ \A u \in Thread \ {th} : nest'[u] = nest[u]
Framed(th, f) ==
    /\ frames' \in [Thread -> Seq({"first", "alt", "catch"})] /\ frames'[th] = f
    /\ \A u \in Thread \ {th} : frames'[u] = frames[u]

LEMMA SetNest ==
    ASSUME TypeInv, NEW th \in Thread, NEW n \in Seq(TRecType), nest' = [nest EXCEPT ![th] = n]
    PROVE  Nested(th, n)
  BY DEF TypeInv, Nested

LEMMA SetFrames ==
    ASSUME TypeInv, NEW th \in Thread, NEW f \in Seq({"first", "alt", "catch"}),
           frames' = [frames EXCEPT ![th] = f]
    PROVE  Framed(th, f)
  BY DEF TypeInv, Framed

LEMMA SameNest == ASSUME TypeInv, NEW th \in Thread, nest' = nest PROVE Nested(th, nest[th])
  BY DEF TypeInv, Nested

LEMMA SameFrames == ASSUME TypeInv, NEW th \in Thread, frames' = frames PROVE Framed(th, frames[th])
  BY DEF TypeInv, Framed

LEMMA SameLoc ==
    ASSUME TypeInv, NEW th \in Thread, loc' = loc
    PROVE  Moved(th, pc(th), op(th), loc[th].lvl, loc[th].i, loc[th].saw, loc[th].ok)
  BY DEF TypeInv, Moved, pc, op

(* The records and frames of th: what TypeInv and PlaceInv say of them. *)
LEMMA ThreadFacts ==
    ASSUME TypeInv, PlaceInv, NEW th \in Thread
    PROVE  /\ nest[th] \in Seq(TRecType) /\ DOMAIN nest[th] = 1..Len(nest[th]) /\ Len(nest[th]) \in Nat
           /\ frames[th] \in Seq({"first", "alt", "catch"}) /\ Len(frames[th]) \in Nat
           /\ DOMAIN frames[th] = 1..Len(frames[th])
           /\ \A d \in DOMAIN nest[th] : nest[th][d] \in TRecType
           /\ pc(th) # "idle" =>
                 /\ Len(nest[th]) > 0 /\ Last(nest[th]) = nest[th][Len(nest[th])]
                 /\ Len(nest[th]) \in DOMAIN nest[th] /\ Last(nest[th]) \in TRecType
                 /\ loc[th].lvl \in DOMAIN nest[th] /\ TRec(th) \in TRecType
<1>1. /\ nest[th] \in Seq(TRecType) /\ DOMAIN nest[th] = 1..Len(nest[th]) /\ Len(nest[th]) \in Nat
      /\ frames[th] \in Seq({"first", "alt", "catch"}) /\ Len(frames[th]) \in Nat
      /\ DOMAIN frames[th] = 1..Len(frames[th])
  BY DEF TypeInv
<1>2. \A d \in DOMAIN nest[th] : nest[th][d] \in TRecType
  BY <1>1
<1>3. ASSUME pc(th) # "idle"
      PROVE  /\ Len(nest[th]) > 0 /\ Len(nest[th]) \in DOMAIN nest[th]
             /\ loc[th].lvl \in DOMAIN nest[th]
  BY <1>1, <1>3, LocFacts DEF PlaceInv, NestInv
<1>4. Last(nest[th]) = nest[th][Len(nest[th])]
  BY DEF Last
<1> QED
  BY <1>1, <1>2, <1>3, <1>4 DEF TRec

LEMMA WritesFacts ==
    ASSUME TypeInv, NEW th \in Thread
    PROVE  Len(Writes[th]) \in Nat /\ done[th] \in Nat /\ DOMAIN Writes[th] = 1..Len(Writes[th])
  BY ScenarioAssumption DEF TypeInv, Writes

(* NestInv after a step of th that is not the end of its transaction. *)
LEMMA NestStep ==
    ASSUME TypeInv, NEW th \in Thread, scenario' = scenario, done' = done,
           done[th] < Len(Writes[th]), loc'[th].pc # "idle",
           Len(frames'[th]) < Len(nest'[th]), loc'[th].lvl <= Len(nest'[th]),
           loc'[th].op = "commitNested" =>
             loc'[th].lvl = Len(nest'[th]) /\ loc'[th].lvl > 1 /\ frames'[th] # <<>>
    PROVE  NestInv(th)'
<1>1. done'[th] = done[th] /\ Writes' = Writes
  BY DEF Writes
<1>2. done[th] <= Len(Writes[th])
  BY WritesFacts
<1> QED
  BY <1>1, <1>2 DEF NestInv, pc, op

LEMMA StartFacts ==
    ASSUME TypeInv, NEW th \in Thread, StartTransaction(th)
    PROVE  /\ Moved(th, "run", "none", 1, 1, InitVal, TRUE)
           /\ Nested(th, <<NewTRec("ACTIVE")>>) /\ Framed(th, <<>>)
           /\ since' \in [Thread -> Nat \ {0}] /\ since'[th] = Len(heaps)
           /\ \A u \in Thread \ {th} : since'[u] = since[u]
<1>1. Moved(th, "run", "none", 1, 1, InitVal, TRUE)
  BY MoveAt DEF StartTransaction, PC
<1>2. Nested(th, <<NewTRec("ACTIVE")>>)
  <2>1. NewTRec("ACTIVE") \in TRecType
    BY NewTRecFacts DEF TRecState
  <2>2. <<NewTRec("ACTIVE")>> \in Seq(TRecType)
    BY <2>1
  <2>3. nest' = [nest EXCEPT ![th] = <<NewTRec("ACTIVE")>>]
    BY DEF StartTransaction
  <2> QED
    BY <2>2, <2>3, SetNest
<1>3. Framed(th, <<>>)
  <2>1. <<>> \in Seq({"first", "alt", "catch"}) /\ frames' = [frames EXCEPT ![th] = <<>>]
    BY DEF StartTransaction
  <2> QED
    BY <2>1, SetFrames
<1>4. Len(heaps) \in Nat \ {0} /\ since \in [Thread -> Nat \ {0}]
  BY DEF TypeInv
<1>5. since' = [since EXCEPT ![th] = Len(heaps)]
  BY DEF StartTransaction
<1> QED
  BY <1>1, <1>2, <1>3, <1>4, <1>5

LEMMA LeaveFacts ==
    ASSUME TypeInv, NEW th \in Thread, Leave(th)
    PROVE  /\ Moved(th, "idle", "none", 1, 1, InitVal, TRUE)
           /\ Nested(th, <<>>) /\ Framed(th, <<>>)
           /\ done' \in [Thread -> Nat] /\ done'[th] = done[th] + 1
           /\ \A u \in Thread \ {th} : done'[u] = done[u]
<1>1. Moved(th, "idle", "none", 1, 1, InitVal, TRUE)
  BY MoveAt DEF Leave, PC
<1>2. Nested(th, <<>>)
  <2>1. <<>> \in Seq(TRecType) /\ nest' = [nest EXCEPT ![th] = <<>>]
    BY DEF Leave
  <2> QED
    BY <2>1, SetNest
<1>3. Framed(th, <<>>)
  <2>1. <<>> \in Seq({"first", "alt", "catch"}) /\ frames' = [frames EXCEPT ![th] = <<>>]
    BY DEF Leave
  <2> QED
    BY <2>1, SetFrames
<1>4. done \in [Thread -> Nat] /\ done' = [done EXCEPT ![th] = @ + 1]
  BY DEF TypeInv, Leave
<1>5. done' \in [Thread -> Nat] /\ done'[th] = done[th] + 1 /\ \A u \in Thread \ {th} : done'[u] = done[u]
  BY <1>4
<1> QED
  BY <1>1, <1>2, <1>3, <1>5

(* Everything that belongs to another thread stays. *)
Others(th) ==
    \A u \in Thread \ {th} :
        /\ loc'[u] = loc[u] /\ nest'[u] = nest[u] /\ frames'[u] = frames[u]
        /\ why_blocked'[u] = why_blocked[u] /\ done'[u] = done[u]
        /\ since'[u] = since[u] /\ torn'[u] = torn[u]

LEMMA PlaceStep ==
    ASSUME PlaceInv, NEW th \in Thread, Others(th), scenario' = scenario,
           OpInv(th)', BlockedInv(th)', NestInv(th)'
    PROVE  PlaceInv'
<1> SUFFICES ASSUME NEW u \in Thread PROVE OpInv(u)' /\ BlockedInv(u)' /\ NestInv(u)'
  BY DEF PlaceInv
<1>1. CASE u = th
  BY <1>1
<1>2. CASE u # th
  <2>1. loc'[u] = loc[u] /\ nest'[u] = nest[u] /\ frames'[u] = frames[u]
        /\ why_blocked'[u] = why_blocked[u] /\ done'[u] = done[u]
    BY <1>2 DEF Others
  <2>2. OpInv(u)'
    BY <2>1 DEF PlaceInv, OpInv, Committing, pc, op
  <2>3. BlockedInv(u)'
    BY <2>1 DEF PlaceInv, BlockedInv, pc, op
  <2>4. NestInv(u)'
    BY <2>1 DEF PlaceInv, NestInv, pc, op, Writes
  <2> QED
    BY <2>2, <2>3, <2>4
<1> QED
  BY <1>1, <1>2

(* In these places a thread holds no TVar. *)
Resting(th) ==
    \/ pc(th) \in {"idle", "run", "getInvariants", "blocked", "resume", "throwMasked", "unwatch"}
    \/ pc(th) = "validate" /\ loc[th].i = 1

(* What the records of th have read stays, or is in a TVar now. *)
Reads(th) ==
    \A d \in DOMAIN nest'[th] : \A j \in DOMAIN nest'[th][d].entries :
        LET e == nest'[th][d].entries[j]
        IN  \/ \E d2 \in DOMAIN nest[th] : From(e, nest[th][d2].entries)
            \/ current_value[e.tvar] = e.expected

(* A step that takes and leaves no lock. *)
QuietStep(th) ==
    /\ UNCHANGED <<current_value, num_updates, heaps, torn, committed>>
    /\ Resting(th)'
    /\ \/ since'[th] = since[th] /\ Reads(th)
       \/ since'[th] = Len(heaps) /\ \A d \in DOMAIN nest'[th] : DOMAIN nest'[th][d].entries = {}

Sound(th) == TypeInv' /\ PlaceInv' /\ Others(th)

LEMMA KeptReads ==
    ASSUME NEW th \in Thread, NEW n, Nested(th, n), Kept(nest[th], n) PROVE Reads(th)
  BY DEF Nested, Kept, Reads

LEMMA KeptSelf ==
    ASSUME NEW n PROVE Kept(n, n)
  BY FromSelf DEF Kept

LEMMA AtomicallyStep ==
    ASSUME TypeInv, PlaceInv, scenario' = scenario, NEW th \in Thread, Atomically(th)
    PROVE  Sound(th) /\ QuietStep(th)
<1> DEFINE tr == NewTRec("ACTIVE")
<1>1. /\ Moved(th, "run", "none", 1, 1, InitVal, TRUE)
      /\ Nested(th, <<tr>>) /\ Framed(th, <<>>)
      /\ since' \in [Thread -> Nat \ {0}] /\ since'[th] = Len(heaps)
      /\ \A u \in Thread \ {th} : since'[u] = since[u]
  BY StartFacts DEF Atomically
<1>2. /\ UNCHANGED <<current_value, num_updates, watch, why_blocked, inbox, tsoLock>>
      /\ UNCHANGED <<done, heaps, torn, committed>>
      /\ pc(th) = "idle" /\ done[th] < Len(Writes[th])
  BY DEF Atomically, tvarVars, threadVars
<1>3. tr \in TRecType /\ DOMAIN tr.entries = {}
  BY NewTRecFacts DEF TRecState
<1> HIDE DEF tr
<1>4. TypeInv'
  BY <1>1, <1>2 DEF TypeInv, Moved, Nested, Framed, tvarVars, threadVars
<1>5. Others(th)
  BY <1>1, <1>2 DEF Others, Moved, Nested, Framed, tvarVars, threadVars
<1>6. OpInv(th)'
  BY <1>1 DEF OpInv, Moved, pc, op, Committing
<1>7. BlockedInv(th)'
  BY <1>1, <1>2 DEF PlaceInv, BlockedInv, pc, threadVars
<1>8. NestInv(th)'
  <2>1. Len(<<tr>>) = 1 /\ Len(<<>>) = 0
    BY <1>3
  <2>2. Len(frames'[th]) = 0 /\ Len(nest'[th]) = 1
    BY <1>1, <2>1 DEF Nested, Framed
  <2>3. loc'[th].pc = "run" /\ loc'[th].op = "none" /\ loc'[th].lvl = 1
    BY <1>1 DEF Moved
  <2>4. /\ loc'[th].pc # "idle" /\ Len(frames'[th]) < Len(nest'[th])
        /\ loc'[th].lvl <= Len(nest'[th]) /\ loc'[th].op # "commitNested"
    BY <2>2, <2>3
  <2> QED
    BY <1>2, <2>4, NestStep
<1>9. PlaceInv'
  BY <1>5, <1>6, <1>7, <1>8, PlaceStep
<1>10. Resting(th)'
  BY <1>1 DEF Resting, Moved, pc
<1>11. \A d \in DOMAIN nest'[th] : DOMAIN nest'[th][d].entries = {}
  BY <1>1, <1>3 DEF Nested
<1>12. QuietStep(th)
  BY <1>1, <1>2, <1>10, <1>11 DEF QuietStep, tvarVars
<1> QED
  BY <1>4, <1>5, <1>9, <1>12 DEF Sound

Steps(th) ==
    /\ loc' \in [Thread -> LocType] /\ nest' \in [Thread -> Seq(TRecType)]
    /\ frames' \in [Thread -> Seq({"first", "alt", "catch"})]
    /\ \A u \in Thread \ {th} : loc'[u] = loc[u] /\ nest'[u] = nest[u] /\ frames'[u] = frames[u]

LEMMA NotBlocked ==
    ASSUME PlaceInv, NEW th \in Thread,
           pc(th) \notin {"revert", "blocked", "throwMasked", "unwatch", "unwatchUnlock"}
    PROVE  why_blocked[th] # "BlockedOnSTM"
  BY DEF PlaceInv, BlockedInv

(* A step that changes the place, the records and the frames of th. *)
LEMMA MoveStep ==
    ASSUME TypeInv, PlaceInv, NEW th \in Thread, scenario' = scenario, Steps(th),
           UNCHANGED <<tvarVars, threadVars, histVars, done>>,
           pc(th) # "idle", why_blocked[th] # "BlockedOnSTM", OpInv(th)', loc'[th].pc # "idle",
           Len(frames'[th]) < Len(nest'[th]), loc'[th].lvl <= Len(nest'[th]),
           loc'[th].op = "commitNested" =>
             loc'[th].lvl = Len(nest'[th]) /\ loc'[th].lvl > 1 /\ frames'[th] # <<>>
    PROVE  Sound(th)
<1>1. TypeInv'
  BY DEF TypeInv, Steps, tvarVars, threadVars, histVars
<1>2. Others(th)
  BY DEF Others, Steps, tvarVars, threadVars, histVars
<1>3. BlockedInv(th)'
  BY DEF BlockedInv, threadVars
<1>4. done[th] < Len(Writes[th])
  BY DEF PlaceInv, NestInv
<1>5. NestInv(th)'
  BY <1>4, NestStep
<1>6. PlaceInv'
  BY <1>2, <1>3, <1>5, PlaceStep
<1> QED
  BY <1>1, <1>2, <1>6 DEF Sound

LEMMA QuietMove ==
    ASSUME NEW th \in Thread, UNCHANGED <<tvarVars, threadVars, histVars, done>>, Resting(th)', Reads(th)
    PROVE  QuietStep(th)
  BY DEF QuietStep, tvarVars, histVars

LEMMA GetEntry ==
    ASSUME NEW n \in Seq(TRecType), NEW x \in TVar, \E d \in DOMAIN n : Has(n[d], x)
    PROVE  \E d \in DOMAIN n : \E j \in DOMAIN n[d].entries :
              get_entry_for(n, x) = n[d].entries[j] /\ n[d].entries[j].tvar = x
<1> DEFINE S == {d \in DOMAIN n : Has(n[d], x)}
           Inner(d) == Has(n[d], x) /\ \A d2 \in (d+1)..Len(n) : ~Has(n[d2], x)
           d == CHOOSE d \in DOMAIN n : Inner(d)
<1>1. DOMAIN n = 1..Len(n) /\ Len(n) \in Nat
  OBVIOUS
<1>2. S \in SUBSET (1..Len(n)) /\ S # {}
  BY <1>1
<1>3. PICK m \in S : \A k \in S : k <= m
  BY <1>1, <1>2, GreatestMember
<1>4. m \in DOMAIN n /\ Has(n[m], x)
  BY <1>3
<1>5. ASSUME NEW d2 \in (m+1)..Len(n) PROVE ~Has(n[d2], x)
  <2>1. d2 \in DOMAIN n /\ ~(d2 <= m)
    BY <1>1, <1>4
  <2> QED
    BY <1>3, <2>1
<1>6. \E c \in DOMAIN n : Inner(c)
  BY <1>4, <1>5
<1>7. d \in DOMAIN n /\ Has(n[d], x)
  BY <1>6
<1>8. get_entry_for(n, x) = n[d].entries[IndexOf(n[d], x)]
  BY DEF get_entry_for
<1> HIDE DEF d
<1>9. n[d] \in TRecType
  BY <1>7
<1> QED
  BY <1>7, <1>8, <1>9, TRecFacts

(* v is in the TVar x, or a record of th has read it there. *)
Known(th, x, v) ==
    \/ current_value[x] = v
    \/ \E d \in DOMAIN nest[th] : \E j \in DOMAIN nest[th][d].entries :
          nest[th][d].entries[j].tvar = x /\ nest[th][d].entries[j].expected = v

(* The entry that a read or a write adds. *)
LEMMA LocatedFacts ==
    ASSUME TypeInv, PlaceInv, NEW th \in Thread, NEW x \in TVar, CanAccess(th, x)
    PROVE  LET e == Located(th, x)
           IN  /\ e.expected \in Val /\ e.new \in Val
               /\ Known(th, x, e.expected)
<1> DEFINE n == nest[th]
           e == Located(th, x)
<1>1. n \in Seq(TRecType) /\ \A d \in DOMAIN n : n[d] \in TRecType
  BY ThreadFacts
<1>2. CASE \E d \in DOMAIN n : Has(n[d], x)
  <2>a. PICK d \in DOMAIN n : \E j \in DOMAIN n[d].entries :
            get_entry_for(n, x) = n[d].entries[j] /\ n[d].entries[j].tvar = x
    <3> HIDE DEF n
    <3> QED
      BY <1>1, <1>2, GetEntry
  <2>1. PICK j \in DOMAIN n[d].entries :
            get_entry_for(n, x) = n[d].entries[j] /\ n[d].entries[j].tvar = x
    BY <2>a
  <2>2. e = n[d].entries[j]
    BY <1>2, <2>1 DEF Located
  <2>3. n[d].entries[j].expected \in Val /\ n[d].entries[j].new \in Val
    BY <1>1, TRecFacts
  <2> QED
    BY <2>1, <2>2, <2>3 DEF Known
<1>3. CASE ~ \E d \in DOMAIN n : Has(n[d], x)
  <2>1. current_value[x] \in Val
    BY <1>3 DEF CanAccess
  <2>2. e = Entry(x, current_value[x], current_value[x])
    BY <1>3 DEF Located
  <2> QED
    BY <2>1, <2>2, EntryFacts DEF Known
<1> QED
  BY <1>2, <1>3

LEMMA AddEntryIs ==
    ASSUME NEW th \in Thread, NEW e, AddEntry(th, e)
    PROVE  nest' = [nest EXCEPT ![th] = [nest[th] EXCEPT ![Len(nest[th])] =
                       [nest[th][Len(nest[th])] EXCEPT !.entries = Append(@, e)]]]
  BY DEF AddEntry

(* The innermost record gets an entry for x. *)
LEMMA AddFacts ==
    ASSUME TypeInv, PlaceInv, NEW th \in Thread, pc(th) = "run", NEW x \in TVar, NEW e \in EntryType,
           e.tvar = x, ~Has(Last(nest[th]), x), AddEntry(th, e),
           Known(th, x, e.expected)
    PROVE  /\ Nested(th, nest'[th]) /\ Len(nest'[th]) = Len(nest[th]) /\ Reads(th)
           /\ Touched(nest[th]) \subseteq Touched(nest'[th])
<1> DEFINE n == nest[th]
           L == Len(n)
           r == [n[L] EXCEPT !.entries = Append(@, e)]
           m == [n EXCEPT ![L] = r]
<1>1. n \in Seq(TRecType) /\ L \in DOMAIN n /\ n[L] \in TRecType /\ Last(n) = n[L]
  BY ThreadFacts
<1>2. nest' = [nest EXCEPT ![th] = m]
  BY AddEntryIs
<1>3. /\ r \in TRecType
      /\ \A y : Has(r, y) <=> Has(n[L], y) \/ y = e.tvar
      /\ \A j \in DOMAIN r.entries : From(r.entries[j], n[L].entries) \/ r.entries[j] = e
  <2>1. n[L] \in TRecType /\ ~Has(n[L], e.tvar)
    BY <1>1
  <2> HIDE DEF n, L
  <2> QED
    BY <2>1, AppendEntry
<1>4. /\ m \in Seq(TRecType) /\ Len(m) = Len(n) /\ DOMAIN m = DOMAIN n
      /\ m[L] = r /\ \A d2 \in DOMAIN n : d2 # L => m[d2] = n[d2]
      /\ (\A y \in TVar : Has(n[L], y) => Has(r, y)) => Touched(n) \subseteq Touched(m)
  <2> HIDE DEF r, n, L
  <2> QED
    BY <1>1, <1>3, NestReplace
<1>5. Nested(th, m)
  BY <1>2, <1>4, SetNest
<1>6. nest'[th] = m
  BY <1>5 DEF Nested
<1>7. Touched(n) \subseteq Touched(m)
  BY <1>3, <1>4
<1>8. ASSUME NEW d \in DOMAIN m, NEW j \in DOMAIN m[d].entries
      PROVE  \/ \E d2 \in DOMAIN n : From(m[d].entries[j], n[d2].entries)
             \/ current_value[m[d].entries[j].tvar] = m[d].entries[j].expected
  <2> HIDE DEF m, r
  <2>1. CASE d # L
    BY <2>1, <1>4, FromSelf
  <2>2. CASE d = L /\ From(r.entries[j], n[L].entries)
    BY <2>2, <1>1, <1>4
  <2>3. CASE d = L /\ r.entries[j] = e
    BY <2>3, <1>4 DEF From, Known
  <2> QED
    BY <2>1, <2>2, <2>3, <1>3, <1>4
<1>9. Reads(th)
  BY <1>6, <1>8 DEF Reads
<1> QED
  BY <1>4, <1>5, <1>6, <1>7, <1>9

LEMMA RunStep ==
    ASSUME TypeInv, PlaceInv, NEW th \in Thread, scenario' = scenario, pc(th) = "run", loc' = loc,
           Nested(th, nest'[th]), Framed(th, frames'[th]),
           UNCHANGED <<tvarVars, threadVars, histVars, done>>,
           Len(frames'[th]) < Len(nest'[th]), Reads(th)
    PROVE  Sound(th) /\ QuietStep(th)
<1>1. OpInv(th) /\ op(th) = "none" /\ loc[th].lvl = 1
  BY DEF PlaceInv, OpInv
<1>2. Steps(th)
  BY DEF Steps, TypeInv, Nested, Framed
<1>3. OpInv(th)'
  BY <1>1 DEF OpInv, pc, op, Committing
<1>4. why_blocked[th] # "BlockedOnSTM"
  BY NotBlocked
<1>5. loc'[th].pc # "idle" /\ loc'[th].op # "commitNested" /\ pc(th) # "idle"
  BY <1>1 DEF pc, op
<1>6. loc'[th].lvl <= Len(nest'[th])
  <2>1. Len(frames'[th]) \in Nat /\ Len(nest'[th]) \in Nat
    BY DEF Framed, Nested
  <2> QED
    BY <1>1, <2>1
<1>7. Sound(th)
  BY <1>2, <1>3, <1>4, <1>5, <1>6, MoveStep
<1>8. Resting(th)'
  BY DEF Resting, pc
<1> QED
  BY <1>7, <1>8, QuietMove

LEMMA ReadTVarStep ==
    ASSUME TypeInv, PlaceInv, scenario' = scenario, NEW th \in Thread, NEW x \in TVar, ReadTVar(th, x)
    PROVE  Sound(th) /\ QuietStep(th) /\ Touched(nest[th]) \subseteq Touched(nest'[th])
<1> DEFINE l == Located(th, x)
           e == Entry(x, l.expected, l.new)
<1>1. /\ pc(th) = "run" /\ ~Has(Last(nest[th]), x) /\ CanAccess(th, x) /\ AddEntry(th, e)
      /\ UNCHANGED <<tvarVars, threadVars, histVars, done>> /\ frames' = frames /\ loc' = loc
  BY DEF ReadTVar
<1>2. l.expected \in Val /\ l.new \in Val /\ Known(th, x, l.expected)
  BY <1>1, LocatedFacts
<1>3. e \in EntryType /\ e.tvar = x /\ Known(th, x, e.expected)
  BY <1>2, EntryFacts
<1> HIDE DEF e
<1>4. /\ Nested(th, nest'[th]) /\ Len(nest'[th]) = Len(nest[th]) /\ Reads(th)
      /\ Touched(nest[th]) \subseteq Touched(nest'[th])
  BY <1>1, <1>3, AddFacts
<1>5. Framed(th, frames'[th]) /\ Len(frames'[th]) < Len(nest'[th])
  <2>1. Len(frames[th]) < Len(nest[th])
    BY <1>1 DEF PlaceInv, NestInv
  <2> QED
    BY <1>1, <1>4, <2>1, SameFrames
<1> QED
  BY <1>1, <1>4, <1>5, RunStep

Rewritten(th, x, v) ==
    nest' = [nest EXCEPT ![th][Len(nest[th])].entries[IndexOf(Last(nest[th]), x)].new = v]

LEMMA WriteAgain ==
    ASSUME TypeInv, PlaceInv, NEW th \in Thread, pc(th) = "run", NEW x \in TVar, NEW v \in Val,
           Has(Last(nest[th]), x), Rewritten(th, x, v)
    PROVE  /\ Nested(th, nest'[th]) /\ Len(nest'[th]) = Len(nest[th]) /\ Kept(nest[th], nest'[th])
           /\ Touched(nest[th]) \subseteq Touched(nest'[th])
<1> DEFINE n == nest[th]
           L == Len(n)
           tr == n[L]
           j == IndexOf(Last(n), x)
           e == [tr.entries[j] EXCEPT !.new = v]
           es == [tr.entries EXCEPT ![j] = e]
           r == [tr EXCEPT !.entries = es]
           m == [n EXCEPT ![L] = r]
<1>1. n \in Seq(TRecType) /\ L \in DOMAIN n /\ tr \in TRecType /\ Last(n) = tr
  BY ThreadFacts
<1>2. nest' = [nest EXCEPT ![th] = m]
  BY DEF Rewritten
<1>3. j \in DOMAIN tr.entries /\ tr.entries[j] \in EntryType
  BY <1>1, TRecFacts
<1>4. e \in EntryType /\ e.tvar = tr.entries[j].tvar /\ e.expected = tr.entries[j].expected
  BY <1>3 DEF EntryType
<1>5. tr \in [state : TRecState, entries : Seq(EntryType)]
  BY <1>1 DEF TRecType
<1>6. es \in Seq(EntryType)
  BY <1>3, <1>4, <1>5
<1>7. r \in [state : TRecState, entries : Seq(EntryType)] /\ r.entries = es
  BY <1>5, <1>6
<1>8. /\ r \in TRecType /\ \A y : Has(r, y) <=> Has(tr, y)
      /\ \A k \in DOMAIN r.entries : From(r.entries[k], tr.entries)
  <2> HIDE DEF e, r, j, tr
  <2> QED
    BY <1>1, <1>3, <1>4, <1>7, UpdateEntry
<1>9. m \in Seq(TRecType) /\ Len(m) = Len(n) /\ Kept(n, m) /\ Touched(n) \subseteq Touched(m)
  <2>1. /\ n \in Seq(TRecType) /\ L \in DOMAIN n /\ r \in TRecType
        /\ \A k \in DOMAIN r.entries : From(r.entries[k], n[L].entries)
        /\ \A y \in TVar : Has(n[L], y) => Has(r, y)
    BY <1>1, <1>8
  <2> HIDE DEF n, L, r
  <2> QED
    BY <2>1, NestReplaceKept
<1>10. Nested(th, m)
  <2> HIDE DEF m
  <2> QED
    BY <1>2, <1>9, SetNest
<1>11. nest'[th] = m
  BY <1>10 DEF Nested
<1> QED
  BY <1>9, <1>10, <1>11

LEMMA WriteTVarStep ==
    ASSUME TypeInv, PlaceInv, scenario' = scenario, NEW th \in Thread, NEW x \in TVar, NEW v \in Val,
           WriteTVar(th, x, v)
    PROVE  Sound(th) /\ QuietStep(th) /\ Touched(nest[th]) \subseteq Touched(nest'[th])
<1>1. /\ pc(th) = "run"
      /\ UNCHANGED <<tvarVars, threadVars, histVars, done>> /\ frames' = frames /\ loc' = loc
  BY DEF WriteTVar
<1>2. Len(frames[th]) < Len(nest[th])
  BY <1>1 DEF PlaceInv, NestInv
<1>3. /\ Nested(th, nest'[th]) /\ Len(nest'[th]) = Len(nest[th]) /\ Reads(th)
      /\ Touched(nest[th]) \subseteq Touched(nest'[th])
  <2>1. CASE Has(Last(nest[th]), x)
    <3>1. Rewritten(th, x, v)
      BY <2>1 DEF WriteTVar, Rewritten
    <3>2. /\ Nested(th, nest'[th]) /\ Len(nest'[th]) = Len(nest[th]) /\ Kept(nest[th], nest'[th])
          /\ Touched(nest[th]) \subseteq Touched(nest'[th])
      BY <1>1, <2>1, <3>1, WriteAgain
    <3> QED
      BY <3>2, KeptReads
  <2>2. CASE ~Has(Last(nest[th]), x)
    <3> DEFINE e == Entry(x, Located(th, x).expected, v)
    <3>1. CanAccess(th, x) /\ AddEntry(th, e)
      BY <2>2 DEF WriteTVar
    <3>2. Located(th, x).expected \in Val /\ Known(th, x, Located(th, x).expected)
      BY <3>1, LocatedFacts
    <3>3. e \in EntryType /\ e.tvar = x /\ Known(th, x, e.expected)
      BY <3>2, EntryFacts
    <3> HIDE DEF e
    <3> QED
      BY <1>1, <2>2, <3>1, <3>3, AddFacts
  <2> QED
    BY <2>1, <2>2
<1>4. Framed(th, frames'[th]) /\ Len(frames'[th]) < Len(nest'[th])
  BY <1>1, <1>2, <1>3, SameFrames
<1> QED
  BY <1>1, <1>3, <1>4, RunStep

LEMMA StartNestedStep ==
    ASSUME TypeInv, PlaceInv, scenario' = scenario, NEW th \in Thread, NEW f, StartNested(th, f)
    PROVE  Sound(th) /\ QuietStep(th) /\ Touched(nest[th]) \subseteq Touched(nest'[th])
<1> DEFINE n == nest[th]
           st == Last(n).state
           m == Append(n, NewTRec(st))
           g == Append(frames[th], f)
<1>1. /\ pc(th) = "run" /\ f \in {"first", "catch"}
      /\ UNCHANGED <<tvarVars, threadVars, histVars, done>> /\ loc' = loc
      /\ frames' = [frames EXCEPT ![th] = g] /\ nest' = [nest EXCEPT ![th] = m]
  BY DEF StartNested
<1>2. /\ n \in Seq(TRecType) /\ Last(n) \in TRecType /\ frames[th] \in Seq({"first", "alt", "catch"})
  BY <1>1, ThreadFacts
<1>3. st \in TRecState
  BY <1>2, TRecFacts
<1>4. m \in Seq(TRecType) /\ Len(m) = Len(n) + 1 /\ Kept(n, m) /\ Touched(n) \subseteq Touched(m)
  <2> HIDE DEF n, st
  <2> QED
    BY <1>2, <1>3, NestAppend
<1>5. g \in Seq({"first", "alt", "catch"}) /\ Len(g) = Len(frames[th]) + 1
  BY <1>1, <1>2
<1>6. Nested(th, m) /\ Framed(th, g)
  <2> HIDE DEF m, g
  <2> QED
    BY <1>1, <1>4, <1>5, SetNest, SetFrames
<1>7. nest'[th] = m /\ frames'[th] = g
  BY <1>6 DEF Nested, Framed
<1>8. Len(frames'[th]) < Len(nest'[th])
  <2>1. Len(frames[th]) < Len(n) /\ Len(frames[th]) \in Nat /\ Len(n) \in Nat
    BY <1>1, <1>2 DEF PlaceInv, NestInv
  <2> QED
    BY <2>1, <1>4, <1>5, <1>7
<1>9. Reads(th)
  BY <1>4, <1>6, KeptReads
<1>10. Nested(th, nest'[th]) /\ Framed(th, frames'[th])
  BY <1>6, <1>7
<1>11. Sound(th) /\ QuietStep(th)
  <2> HIDE DEF m, g
  <2> QED
    BY <1>1, <1>8, <1>9, <1>10, RunStep
<1> QED
  BY <1>4, <1>7, <1>11

(* A step in which th starts a validation, or goes to a place where it     *)
(* holds nothing, and its records stay.                                    *)
LEMMA TurnStep ==
    ASSUME TypeInv, PlaceInv, NEW th \in Thread, scenario' = scenario,
           UNCHANGED <<tvarVars, threadVars, histVars, done>>, nest' = nest, frames' = frames,
           loc' \in [Thread -> LocType], \A u \in Thread \ {th} : loc'[u] = loc[u],
           pc(th) # "idle", why_blocked[th] # "BlockedOnSTM", loc'[th].pc # "idle",
           OpInv(th)', Resting(th)', loc'[th].lvl <= Len(nest[th]),
           loc'[th].op = "commitNested" =>
             loc'[th].lvl = Len(nest[th]) /\ loc'[th].lvl > 1 /\ frames[th] # <<>>
    PROVE  Sound(th) /\ QuietStep(th)
<1>1. Steps(th)
  BY DEF Steps, TypeInv
<1>2. Len(frames'[th]) < Len(nest'[th]) /\ loc'[th].lvl <= Len(nest'[th])
  BY DEF PlaceInv, NestInv
<1>3. Reads(th)
  BY FromSelf DEF Reads
<1>4. loc'[th].op = "commitNested" =>
             loc'[th].lvl = Len(nest'[th]) /\ loc'[th].lvl > 1 /\ frames'[th] # <<>>
  OBVIOUS
<1>5. Sound(th)
  BY <1>1, <1>2, <1>4, MoveStep
<1> QED
  BY <1>3, <1>5, QuietMove

LEMMA ValidateStep ==
    ASSUME TypeInv, PlaceInv, NEW th \in Thread, scenario' = scenario,
           NEW o \in {"commit", "commitNested", "wait", "rewait", "validate", "throw"},
           NEW lvl \in DOMAIN nest[th], Validate(th, o, lvl),
           UNCHANGED <<tvarVars, threadVars, histVars, done>>, nest' = nest, frames' = frames,
           pc(th) \in {"run", "getInvariants", "resume"},
           o = "commitNested" => lvl = Len(nest[th]) /\ frames[th] # <<>>
    PROVE  Sound(th) /\ QuietStep(th)
<1>1. lvl \in 1..Len(nest[th]) /\ lvl \in Nat \ {0}
  BY ThreadFacts
<1>2. o \in Op
  BY DEF Op
<1>3. Moved(th, "validate", o, lvl, 1, InitVal, TRUE)
  BY <1>1, <1>2, MoveValidate
<1>4. loc' \in [Thread -> LocType] /\ (\A u \in Thread \ {th} : loc'[u] = loc[u])
      /\ loc'[th].pc = "validate" /\ loc'[th].op = o /\ loc'[th].lvl = lvl /\ loc'[th].i = 1
      /\ loc'[th].ok = TRUE
  BY <1>3 DEF Moved
<1>5. OpInv(th)'
  BY <1>4 DEF OpInv, pc, op, Committing
<1>6. Resting(th)'
  BY <1>4 DEF Resting, pc
<1>7. why_blocked[th] # "BlockedOnSTM" /\ pc(th) # "idle"
  BY NotBlocked
<1>8. loc'[th].lvl <= Len(nest[th]) /\ loc'[th].pc # "idle"
  BY <1>1, <1>4
<1>9. ASSUME o = "commitNested" PROVE lvl > 1
  <2>1. Len(frames[th]) < Len(nest[th]) /\ frames[th] # <<>> /\ lvl = Len(nest[th])
    BY <1>7, <1>9 DEF PlaceInv, NestInv
  <2>2. Len(frames[th]) > 0 /\ Len(frames[th]) \in Nat
    BY <2>1, ThreadFacts
  <2> QED
    BY <1>1, <2>1, <2>2
<1>10. loc'[th].op = "commitNested" =>
             loc'[th].lvl = Len(nest[th]) /\ loc'[th].lvl > 1 /\ frames[th] # <<>>
  BY <1>4, <1>9
<1> QED
  BY <1>4, <1>5, <1>6, <1>7, <1>8, <1>10, TurnStep

LEMMA ReturnStep ==
    ASSUME TypeInv, PlaceInv, scenario' = scenario, NEW th \in Thread, Return(th)
    PROVE  Sound(th) /\ QuietStep(th) /\ nest' = nest
<1>1. pc(th) = "run" /\ nest' = nest /\ frames' = frames
      /\ UNCHANGED <<tvarVars, threadVars, histVars, done>>
  BY DEF Return
<1>2. CASE frames[th] # <<>> /\ Validate(th, "commitNested", Len(nest[th]))
  <2>1. Len(nest[th]) \in DOMAIN nest[th]
    BY <1>1, ThreadFacts
  <2> QED
    BY <1>1, <1>2, <2>1, ValidateStep
<1>3. CASE Goto(th, "getInvariants")
  <2>1. Moved(th, "getInvariants", op(th), loc[th].lvl, loc[th].i, loc[th].saw, loc[th].ok)
    BY <1>3, MoveGoto DEF PC
  <2>2. op(th) = "none" /\ loc[th].lvl = 1 /\ loc[th].lvl <= Len(nest[th])
    BY <1>1 DEF PlaceInv, OpInv, NestInv
  <2>3. loc' \in [Thread -> LocType] /\ (\A u \in Thread \ {th} : loc'[u] = loc[u])
        /\ loc'[th].pc = "getInvariants" /\ loc'[th].op = "none" /\ loc'[th].lvl = 1
    BY <2>1, <2>2 DEF Moved
  <2>4. OpInv(th)'
    BY <2>3 DEF OpInv, pc, op, Committing
  <2>5. Resting(th)'
    BY <2>3 DEF Resting, pc
  <2>6. why_blocked[th] # "BlockedOnSTM" /\ pc(th) # "idle"
    BY <1>1, NotBlocked
  <2>7. loc'[th].lvl <= Len(nest[th]) /\ loc'[th].pc # "idle" /\ loc'[th].op # "commitNested"
    BY <2>2, <2>3
  <2> QED
    BY <1>1, <2>3, <2>4, <2>5, <2>6, <2>7, TurnStep
<1> QED
  BY <1>1, <1>2, <1>3 DEF Return

LEMMA YieldStep ==
    ASSUME TypeInv, PlaceInv, scenario' = scenario, NEW th \in Thread, Yield(th)
    PROVE  Sound(th) /\ QuietStep(th) /\ nest' = nest
<1>1. /\ pc(th) = "run" /\ nest' = nest /\ frames' = frames
      /\ UNCHANGED <<tvarVars, threadVars, histVars, done>>
      /\ Validate(th, "validate", Len(nest[th]))
  BY DEF Yield
<1>2. Len(nest[th]) \in DOMAIN nest[th]
  BY <1>1, ThreadFacts
<1> QED
  BY <1>1, <1>2, ValidateStep

LEMMA ResumeStep ==
    ASSUME TypeInv, PlaceInv, scenario' = scenario, NEW th \in Thread, Resume(th)
    PROVE  Sound(th) /\ QuietStep(th)
<1>1. /\ pc(th) = "resume" /\ nest' = nest /\ frames' = frames
      /\ UNCHANGED <<tvarVars, threadVars, histVars, done>>
      /\ Validate(th, "rewait", 1)
  BY DEF Resume
<1>2. 1 \in DOMAIN nest[th]
  BY <1>1, ThreadFacts
<1> QED
  BY <1>1, <1>2, ValidateStep

LEMMA NestConcat ==
    ASSUME NEW n \in Seq(TRecType), NEW d \in Nat, d < Len(n), NEW a \in TRecType, NEW b \in TRecType
    PROVE  LET m == SubSeq(n, 1, d) \o <<a, b>>
           IN  /\ m \in Seq(TRecType) /\ Len(m) = d + 2 /\ DOMAIN m = 1..(d + 2)
               /\ \A c \in 1..d : m[c] = n[c]
               /\ m[d + 1] = a /\ m[d + 2] = b
<1> DEFINE f == SubSeq(n, 1, d)
           t == <<a, b>>
           m == f \o t
<1>1. f \in Seq(TRecType) /\ Len(f) = d /\ \A c \in 1..d : f[c] = n[c]
  BY NestFront
<1>2. t \in Seq(TRecType) /\ Len(t) = 2 /\ t[1] = a /\ t[2] = b
  OBVIOUS
<1> HIDE DEF f, t
<1>a. /\ m \in Seq(TRecType)
      /\ Len(m) = Len(f) + Len(t)
      /\ \A i \in 1..Len(f) + Len(t) : m[i] = IF i <= Len(f) THEN f[i] ELSE t[i - Len(f)]
  BY <1>1, <1>2, ConcatProperties
<1> HIDE DEF m
<1>3. m \in Seq(TRecType) /\ Len(m) = d + 2
  BY <1>1, <1>2, <1>a
<1>4. \A c \in 1..d : m[c] = f[c]
  BY <1>1, <1>2, <1>a
<1>5. m[d + 1] = t[1] /\ m[d + 2] = t[2]
  BY <1>1, <1>2, <1>a
<1>6. /\ m \in Seq(TRecType) /\ Len(m) = d + 2 /\ DOMAIN m = 1..(d + 2)
      /\ \A c \in 1..d : m[c] = n[c]
      /\ m[d + 1] = a /\ m[d + 2] = b
  <2>1. DOMAIN m = 1..Len(m)
    BY <1>3
  <2>2. \A c \in 1..d : m[c] = n[c]
    BY <1>1, <1>4
  <2>3. m[d + 1] = a /\ m[d + 2] = b
    BY <1>2, <1>5
  <2> QED
    BY <1>3, <2>1, <2>2, <2>3
<1> QED
  BY <1>6 DEF f, t, m

(* The records above the first d, aborted into one. *)
LEMMA AbortTail ==
    ASSUME NEW n \in Seq(TRecType), NEW d \in Nat, d < Len(n)
    PROVE  LET r == AbortToTop(SubSeq(n, d + 1, Len(n)))
           IN  /\ r \in TRecType
               /\ \A c \in DOMAIN n, x \in TVar : c > d /\ Has(n[c], x) => Has(r, x)
               /\ \A j \in DOMAIN r.entries : \E c \in DOMAIN n : From(r.entries[j], n[c].entries)
<1> DEFINE L == Len(n)
           s == SubSeq(n, d + 1, L)
           r == AbortToTop(s)
<1>1. L \in Nat /\ DOMAIN n = 1..L
  OBVIOUS
<1>2. s \in Seq(TRecType) /\ Len(s) = L - d /\ DOMAIN s = 1..(L - d)
      /\ \A c \in 1..(L - d) : s[c] = n[d + c]
  <2>1. \A i \in (d + 1)..L : n[i] \in TRecType
    BY <1>1
  <2>2. d + 1 \in Int /\ L \in Int /\ d + 1 <= L
    BY <1>1
  <2> HIDE DEF L
  <2>3. /\ s \in Seq(TRecType)
        /\ Len(s) = IF d + 1 <= L THEN L - (d + 1) + 1 ELSE 0
        /\ \A i \in 1..L - (d + 1) + 1 : s[i] = n[(d + 1) + i - 1]
    BY <2>1, <2>2, SubSeqProperties
  <2> HIDE DEF s
  <2>4. Len(s) = L - d /\ L - (d + 1) + 1 = L - d /\ \A i \in Int : (d + 1) + i - 1 = d + i
    BY <1>1, <2>2, <2>3
  <2> QED
    BY <1>1, <2>3, <2>4
<1> HIDE DEF s
<1>3. s # <<>>
  BY <1>1, <1>2
<1>4. /\ r \in TRecType
      /\ \A y : Has(r, y) <=> \E c \in DOMAIN s : Has(s[c], y)
      /\ \A j \in DOMAIN r.entries : \E c \in DOMAIN s : From(r.entries[j], s[c].entries)
  BY <1>2, <1>3, AbortToTopFacts
<1> HIDE DEF r
<1>5. ASSUME NEW c \in DOMAIN n, NEW x \in TVar, c > d, Has(n[c], x) PROVE Has(r, x)
  <2>1. c - d \in DOMAIN s /\ s[c - d] = n[c]
    BY <1>1, <1>2, <1>5
  <2> QED
    BY <1>4, <1>5, <2>1
<1>6. ASSUME NEW j \in DOMAIN r.entries PROVE \E c \in DOMAIN n : From(r.entries[j], n[c].entries)
  <2>1. PICK c \in DOMAIN s : From(r.entries[j], s[c].entries)
    BY <1>4
  <2>2. d + c \in DOMAIN n /\ s[c] = n[d + c]
    BY <1>1, <1>2
  <2> QED
    BY <2>1, <2>2
<1> QED
  BY <1>4, <1>5, <1>6 DEF r, s

(* retry up to the frame of orElse whose record is stop + 1. *)
LEMMA RetryNest ==
    ASSUME NEW n \in Seq(TRecType), NEW stop \in Nat \ {0}, stop < Len(n)
    PROVE  LET a == AbortToTop(SubSeq(n, stop + 1, Len(n)))
               outer == MergeReads(n[stop], a)
               m == SubSeq(n, 1, stop - 1) \o <<outer, NewTRec(outer.state)>>
           IN  /\ m \in Seq(TRecType) /\ Len(m) = stop + 1
               /\ Kept(n, m) /\ Touched(n) \subseteq Touched(m)
<1> DEFINE a == AbortToTop(SubSeq(n, stop + 1, Len(n)))
           outer == MergeReads(n[stop], a)
           new == NewTRec(outer.state)
           m == SubSeq(n, 1, stop - 1) \o <<outer, new>>
<1>1. Len(n) \in Nat /\ DOMAIN n = 1..Len(n) /\ stop \in DOMAIN n /\ n[stop] \in TRecType
  OBVIOUS
<1>2. /\ a \in TRecType
      /\ \A c \in DOMAIN n, x \in TVar : c > stop /\ Has(n[c], x) => Has(a, x)
      /\ \A j \in DOMAIN a.entries : \E c \in DOMAIN n : From(a.entries[j], n[c].entries)
  BY AbortTail
<1> HIDE DEF a
<1>3. /\ outer \in TRecType
      /\ \A y : Has(outer, y) <=> Has(n[stop], y) \/ Has(a, y)
      /\ \A j \in DOMAIN outer.entries :
            From(outer.entries[j], n[stop].entries) \/ From(outer.entries[j], a.entries)
  BY <1>1, <1>2, MergeReadsFacts
<1> HIDE DEF outer
<1>4. new \in TRecType /\ DOMAIN new.entries = {}
  BY <1>3, TRecFacts, NewTRecFacts
<1> HIDE DEF new
<1>5. stop - 1 \in Nat /\ stop - 1 < Len(n) /\ (stop - 1) + 1 = stop /\ (stop - 1) + 2 = stop + 1
  BY <1>1
<1>6. /\ m \in Seq(TRecType) /\ Len(m) = stop + 1 /\ DOMAIN m = 1..(stop + 1)
      /\ \A c \in 1..(stop - 1) : m[c] = n[c]
      /\ m[stop] = outer /\ m[stop + 1] = new
  <2> DEFINE d == stop - 1
             q == SubSeq(n, 1, d) \o <<outer, new>>
  <2>1. d \in Nat /\ d < Len(n) /\ d + 1 = stop /\ d + 2 = stop + 1
    BY <1>5
  <2> HIDE DEF d
  <2>2. /\ q \in Seq(TRecType) /\ Len(q) = d + 2 /\ DOMAIN q = 1..(d + 2)
        /\ \A c \in 1..d : q[c] = n[c]
        /\ q[d + 1] = outer /\ q[d + 2] = new
    BY <1>3, <1>4, <2>1, NestConcat
  <2> HIDE DEF q
  <2>3. /\ q \in Seq(TRecType) /\ Len(q) = stop + 1 /\ DOMAIN q = 1..(stop + 1)
        /\ \A c \in 1..d : q[c] = n[c]
        /\ q[stop] = outer /\ q[stop + 1] = new
    BY <2>1, <2>2
  <2> QED
    BY <2>3 DEF q, d
<1> HIDE DEF m
<1>7. ASSUME NEW c \in DOMAIN m, NEW j \in DOMAIN m[c].entries
      PROVE  \E c2 \in DOMAIN n : From(m[c].entries[j], n[c2].entries)
  <2>1. CASE c \in 1..(stop - 1)
    <3>1. c \in DOMAIN n /\ m[c] = n[c]
      BY <2>1, <1>1, <1>6
    <3> QED
      BY <3>1, FromSelf
  <2>2. CASE c = stop
    <3>1. CASE From(outer.entries[j], n[stop].entries)
      BY <3>1, <2>2, <1>1, <1>6
    <3>2. CASE From(outer.entries[j], a.entries)
      <4>1. PICK p \in DOMAIN a.entries : a.entries[p].tvar = outer.entries[j].tvar
                                          /\ a.entries[p].expected = outer.entries[j].expected
        BY <3>2 DEF From
      <4>2. PICK c2 \in DOMAIN n : From(a.entries[p], n[c2].entries)
        BY <1>2
      <4>3. From(outer.entries[j], n[c2].entries)
        BY <4>1, <4>2 DEF From
      <4> QED
        BY <4>3, <2>2, <1>6
    <3> QED
      BY <3>1, <3>2, <2>2, <1>3, <1>6
  <2>3. CASE c = stop + 1
    BY <2>3, <1>4, <1>6
  <2>4. c \in 1..(stop - 1) \/ c = stop \/ c = stop + 1
    BY <1>6
  <2> QED
    BY <2>1, <2>2, <2>3, <2>4
<1>8. ASSUME NEW x \in TVar, NEW c \in DOMAIN n, Has(n[c], x) PROVE \E c2 \in DOMAIN m : Has(m[c2], x)
  <2>1. CASE c \in 1..(stop - 1)
    <3>1. c \in DOMAIN m /\ m[c] = n[c]
      BY <2>1, <1>6
    <3> QED
      BY <3>1, <1>8
  <2>2. CASE c >= stop
    <3>1. Has(outer, x)
      BY <2>2, <1>1, <1>2, <1>3, <1>8
    <3>2. stop \in DOMAIN m
      BY <1>6
    <3> QED
      BY <3>1, <3>2, <1>6
  <2> QED
    BY <2>1, <2>2, <1>1
<1> QED
  BY <1>6, <1>7, <1>8 DEF Kept, Touched, m, new, outer, a

LEMMA ThrowNest ==
    ASSUME NEW n \in Seq(TRecType), Len(n) > 1
    PROVE  LET m == AbortNested(n)
           IN  /\ m \in Seq(TRecType) /\ Len(m) = Len(n) - 1
               /\ Kept(n, m) /\ Touched(n) \subseteq Touched(m)
<1> DEFINE L == Len(n)
           r == MergeReads(n[L - 1], n[L])
           d == L - 2
           m == Append(SubSeq(n, 1, d), r)
<1>1. L \in Nat /\ DOMAIN n = 1..L /\ d \in Nat /\ d < L /\ d + 1 = L - 1 /\ L - 1 \in DOMAIN n /\ L \in DOMAIN n
  OBVIOUS
<1>2. n[L - 1] \in TRecType /\ n[L] \in TRecType
  BY <1>1
<1>3. /\ r \in TRecType
      /\ \A y : Has(r, y) <=> Has(n[L - 1], y) \/ Has(n[L], y)
      /\ \A j \in DOMAIN r.entries : From(r.entries[j], n[L - 1].entries) \/ From(r.entries[j], n[L].entries)
  BY <1>2, MergeReadsFacts
<1> HIDE DEF r, L
<1>4. \A j \in DOMAIN r.entries : \E d2 \in DOMAIN n : From(r.entries[j], n[d2].entries)
  BY <1>1, <1>3
<1>5. \A d2 \in DOMAIN n, x \in TVar : d2 > d /\ Has(n[d2], x) => Has(r, x)
  <2> SUFFICES ASSUME NEW d2 \in DOMAIN n, NEW x \in TVar, d2 > d, Has(n[d2], x) PROVE Has(r, x)
    OBVIOUS
  <2>1. d2 = L - 1 \/ d2 = L
    BY <1>1
  <2> QED
    BY <2>1, <1>3
<1>6. m \in Seq(TRecType) /\ Len(m) = d + 1 /\ Kept(n, m) /\ Touched(n) \subseteq Touched(m)
  <2>1. d \in Nat /\ d < Len(n)
    BY <1>1 DEF L
  <2> HIDE DEF d
  <2> QED
    BY <2>1, <1>3, <1>4, <1>5, NestFold
<1>7. AbortNested(n) = m
  BY DEF AbortNested, L, r
<1> QED
  BY <1>1, <1>6, <1>7 DEF L

LEMMA RetryStep ==
    ASSUME TypeInv, PlaceInv, scenario' = scenario, NEW th \in Thread, Retry(th)
    PROVE  Sound(th) /\ QuietStep(th) /\ Touched(nest[th]) \subseteq Touched(nest'[th])
<1> DEFINE n == nest[th]
           fr == frames[th]
           inner == {d \in DOMAIN fr : \A d2 \in d..Len(fr) : fr[d2] # "first"}
           stop == Len(fr) - Cardinality(inner)
           a == AbortToTop(SubSeq(n, stop + 1, Len(n)))
           outer == MergeReads(n[stop], a)
           m == SubSeq(n, 1, stop - 1) \o <<outer, NewTRec(outer.state)>>
           g == Append(SubSeq(fr, 1, stop - 1), "alt")
<1>1. /\ pc(th) = "run" /\ UNCHANGED <<tvarVars, threadVars, histVars, done>>
      /\ \/ /\ stop = 0
            /\ nest' = [nest EXCEPT ![th] = <<a>>] /\ frames' = [frames EXCEPT ![th] = <<>>]
            /\ Validate(th, "wait", 1)
         \/ /\ stop # 0 /\ loc' = loc
            /\ nest' = [nest EXCEPT ![th] = m] /\ frames' = [frames EXCEPT ![th] = g]
  BY DEF Retry
<1>2. /\ n \in Seq(TRecType) /\ Len(n) \in Nat /\ fr \in Seq({"first", "alt", "catch"})
      /\ Len(fr) \in Nat /\ DOMAIN fr = 1..Len(fr) /\ Len(fr) < Len(n)
  <2>1. Len(fr) < Len(n)
    BY <1>1 DEF PlaceInv, NestInv
  <2> QED
    BY <2>1, ThreadFacts
<1>3. stop \in 0..Len(fr)
  <2>1. IsFiniteSet(1..Len(fr)) /\ Cardinality(1..Len(fr)) = Len(fr)
    <3>1. 1 \in Int /\ Len(fr) \in Int
      BY <1>2
    <3>2. IsFiniteSet(1..Len(fr)) /\ Cardinality(1..Len(fr)) = IF 1 > Len(fr) THEN 0 ELSE Len(fr) - 1 + 1
      BY <3>1, FS_Interval
    <3> QED
      BY <1>2, <3>2
  <2>2. inner \in SUBSET (1..Len(fr))
    BY <1>2
  <2> HIDE DEF inner
  <2>3. IsFiniteSet(inner) /\ Cardinality(inner) <= Len(fr)
    BY <2>1, <2>2, FS_Subset
  <2>4. Cardinality(inner) \in Nat
    BY <2>3, FS_CardinalityType
  <2> QED
    BY <1>2, <2>3, <2>4
<1> HIDE DEF stop
<1>4. /\ a \in TRecType
      /\ \A c \in DOMAIN n, x \in TVar : c > stop /\ Has(n[c], x) => Has(a, x)
      /\ \A j \in DOMAIN a.entries : \E c \in DOMAIN n : From(a.entries[j], n[c].entries)
  <2>1. stop \in Nat /\ stop < Len(n)
    BY <1>2, <1>3
  <2> HIDE DEF n
  <2> QED
    BY <1>2, <2>1, AbortTail
<1>5. CASE stop = 0
  <2> HIDE DEF a
  <2>1. nest' = [nest EXCEPT ![th] = <<a>>] /\ frames' = [frames EXCEPT ![th] = <<>>] /\ Validate(th, "wait", 1)
    BY <1>1, <1>5
  <2> DEFINE q == <<a>>
             e == <<>>
  <2>2. q \in Seq(TRecType) /\ Len(q) = 1 /\ DOMAIN q = {1} /\ q[1] = a
        /\ e \in Seq({"first", "alt", "catch"}) /\ Len(e) = 0
    BY <1>4
  <2>3. Nested(th, q) /\ Framed(th, e)
    <3> HIDE DEF q, e
    <3>1. nest' = [nest EXCEPT ![th] = q] /\ frames' = [frames EXCEPT ![th] = e]
      BY <2>1 DEF q, e
    <3> QED
      BY <3>1, <2>2, SetNest, SetFrames
  <2> HIDE DEF q, e
  <2>4. nest'[th] = q /\ frames'[th] = e
    BY <2>3 DEF Nested, Framed
  <2>5. Moved(th, "validate", "wait", 1, 1, InitVal, TRUE)
    <3>1. "wait" \in Op /\ 1 \in Nat \ {0}
      BY DEF Op
    <3> QED
      BY <2>1, <3>1, MoveValidate
  <2>6. Kept(n, q)
    BY <1>4, <2>2 DEF Kept
  <2>7. \A c \in DOMAIN n : c > stop
    BY <1>2, <1>5
  <2>8. Touched(n) \subseteq Touched(q)
    BY <1>4, <2>2, <2>7 DEF Touched
  <2>9. Steps(th)
    BY <2>3, <2>5 DEF Steps, Moved, Nested, Framed
  <2>10. loc'[th].pc = "validate" /\ loc'[th].op = "wait" /\ loc'[th].lvl = 1 /\ loc'[th].i = 1
         /\ loc'[th].ok = TRUE
    BY <2>5 DEF Moved
  <2>11. OpInv(th)'
    BY <2>10 DEF OpInv, pc, op, Committing
  <2>12. Resting(th)'
    BY <2>10 DEF Resting, pc
  <2>13. why_blocked[th] # "BlockedOnSTM" /\ pc(th) # "idle"
    BY <1>1, NotBlocked
  <2>14. /\ loc'[th].lvl <= Len(nest'[th]) /\ Len(frames'[th]) < Len(nest'[th])
         /\ loc'[th].pc # "idle" /\ loc'[th].op # "commitNested"
    <3>1. Len(nest'[th]) = 1 /\ Len(frames'[th]) = 0
      BY <2>2, <2>4
    <3>2. loc'[th].pc # "idle" /\ loc'[th].op # "commitNested"
      BY <2>10
    <3> QED
      BY <2>10, <3>1, <3>2
  <2>15. UNCHANGED <<tvarVars, threadVars, histVars, done>>
    BY <1>1
  <2>16. Sound(th)
    BY <2>9, <2>11, <2>13, <2>14, <2>15, MoveStep
  <2>17. QuietStep(th)
    BY <2>3, <2>6, <2>12, <2>15, KeptReads, QuietMove
  <2> QED
    BY <2>4, <2>8, <2>16, <2>17
<1>6. CASE stop # 0
  <2>1. stop \in Nat \ {0} /\ stop < Len(n) /\ stop <= Len(fr)
    BY <1>2, <1>3, <1>6
  <2>2. /\ m \in Seq(TRecType) /\ Len(m) = stop + 1
        /\ Kept(n, m) /\ Touched(n) \subseteq Touched(m)
    <3> HIDE DEF n
    <3> QED
      BY <1>2, <2>1, RetryNest
  <2>3. g \in Seq({"first", "alt", "catch"}) /\ Len(g) = stop
    <3> DEFINE h == SubSeq(fr, 1, stop - 1)
    <3>1. h \in Seq({"first", "alt", "catch"}) /\ Len(h) = stop - 1
      BY <1>2, <2>1
    <3> HIDE DEF h
    <3>2. Append(h, "alt") \in Seq({"first", "alt", "catch"}) /\ Len(Append(h, "alt")) = Len(h) + 1
      BY <3>1
    <3> QED
      BY <2>1, <3>1, <3>2 DEF h
  <2> HIDE DEF m, g
  <2>4. nest' = [nest EXCEPT ![th] = m] /\ frames' = [frames EXCEPT ![th] = g] /\ loc' = loc
    BY <1>1, <1>6
  <2>5. Nested(th, m) /\ Framed(th, g)
    BY <2>2, <2>3, <2>4, SetNest, SetFrames
  <2>6. nest'[th] = m /\ frames'[th] = g
    BY <2>5 DEF Nested, Framed
  <2>7. Nested(th, nest'[th]) /\ Framed(th, frames'[th]) /\ Len(frames'[th]) < Len(nest'[th])
    BY <2>1, <2>2, <2>3, <2>5, <2>6
  <2>8. UNCHANGED <<tvarVars, threadVars, histVars, done>> /\ pc(th) = "run"
    BY <1>1
  <2>9. Sound(th) /\ QuietStep(th)
    BY <2>2, <2>4, <2>5, <2>7, <2>8, KeptReads, RunStep
  <2> QED
    BY <2>2, <2>6, <2>9
<1> QED
  BY <1>5, <1>6

LEMMA ThrowStep ==
    ASSUME TypeInv, PlaceInv, scenario' = scenario, NEW th \in Thread, Throw(th)
    PROVE  Sound(th) /\ QuietStep(th) /\ Touched(nest[th]) \subseteq Touched(nest'[th])
<1> DEFINE fr == frames[th]
           n == nest[th]
           catches == {d \in DOMAIN fr : fr[d] = "catch"}
<1>1. pc(th) = "run" /\ UNCHANGED <<tvarVars, threadVars, histVars, done>>
  BY DEF Throw
<1>2. /\ n \in Seq(TRecType) /\ Len(n) \in Nat /\ fr \in Seq({"first", "alt", "catch"})
      /\ Len(fr) \in Nat /\ DOMAIN fr = 1..Len(fr) /\ Len(fr) < Len(n) /\ Len(n) \in DOMAIN n
  <2>1. Len(fr) < Len(n)
    BY <1>1 DEF PlaceInv, NestInv
  <2> QED
    BY <1>1, <2>1, ThreadFacts
<1>3. CASE Validate(th, "throw", Len(nest[th])) /\ nest' = nest /\ frames' = frames
  <2>1. Sound(th) /\ QuietStep(th)
    BY <1>1, <1>2, <1>3, ValidateStep
  <2> QED
    BY <1>3, <2>1
<1>4. ASSUME NEW d \in catches, nest' = [nest EXCEPT ![th] = AbortNested(nest[th])],
             frames' = [frames EXCEPT ![th] = SubSeq(frames[th], 1, d - 1)], loc' = loc
      PROVE  Sound(th) /\ QuietStep(th) /\ Touched(nest[th]) \subseteq Touched(nest'[th])
  <2> DEFINE m == AbortNested(n)
             g == SubSeq(fr, 1, d - 1)
  <2>1. d \in 1..Len(fr) /\ Len(n) > 1
    <3>1. d \in 1..Len(fr)
      BY <1>2
    <3> HIDE DEF fr, n
    <3> QED
      BY <1>2, <3>1
  <2>2. m \in Seq(TRecType) /\ Len(m) = Len(n) - 1 /\ Kept(n, m) /\ Touched(n) \subseteq Touched(m)
    <3> HIDE DEF n
    <3> QED
      BY <1>2, <2>1, ThrowNest
  <2>3. g \in Seq({"first", "alt", "catch"}) /\ Len(g) = d - 1
    BY <1>2, <2>1
  <2>4. nest' = [nest EXCEPT ![th] = m] /\ frames' = [frames EXCEPT ![th] = g]
    BY <1>4
  <2> HIDE DEF m, g
  <2>5. Nested(th, m) /\ Framed(th, g)
    BY <2>2, <2>3, <2>4, SetNest, SetFrames
  <2>6. nest'[th] = m /\ frames'[th] = g
    BY <2>5 DEF Nested, Framed
  <2>7. Len(frames'[th]) < Len(nest'[th])
    <3> HIDE DEF fr, n
    <3> QED
      BY <1>2, <2>1, <2>2, <2>3, <2>6
  <2>8. Nested(th, nest'[th]) /\ Framed(th, frames'[th]) /\ Reads(th)
    BY <2>2, <2>5, <2>6, KeptReads
  <2>9. Sound(th) /\ QuietStep(th)
    BY <1>1, <1>4, <2>7, <2>8, RunStep
  <2> QED
    BY <2>2, <2>6, <2>9
<1>5. \/ Validate(th, "throw", Len(nest[th])) /\ nest' = nest /\ frames' = frames
      \/ \E d \in catches : /\ nest' = [nest EXCEPT ![th] = AbortNested(nest[th])]
                            /\ frames' = [frames EXCEPT ![th] = SubSeq(frames[th], 1, d - 1)] /\ loc' = loc
  BY DEF Throw
<1> QED
  BY <1>3, <1>4, <1>5

(* What the steps of th change besides its place, records and frames. *)
SharedType ==
    /\ current_value' \in [TVar -> Val \cup Thread]
    /\ num_updates' \in [TVar -> Nat]
    /\ watch' \in [TVar -> Seq(Thread)]
    /\ inbox' \in [Thread -> Nat]
    /\ tsoLock' \in [Thread -> BOOLEAN]
    /\ heaps' \in Seq([TVar -> Val]) /\ heaps' # <<>>
OwnType(th) ==
    /\ why_blocked' \in [Thread -> {"NotBlocked", "BlockedOnSTM"}]
    /\ done' \in [Thread -> Nat] /\ since' \in [Thread -> Nat \ {0}] /\ torn' \in [Thread -> SUBSET TVar]
    /\ \A u \in Thread \ {th} : /\ why_blocked'[u] = why_blocked[u] /\ done'[u] = done[u]
                                /\ since'[u] = since[u] /\ torn'[u] = torn[u]

LEMMA SoundStep ==
    ASSUME TypeInv, PlaceInv, NEW th \in Thread, scenario' = scenario, Steps(th), SharedType, OwnType(th),
           OpInv(th)', BlockedInv(th)', NestInv(th)'
    PROVE  Sound(th)
<1>1. TypeInv'
  BY DEF TypeInv, Steps, SharedType, OwnType
<1>2. Others(th)
  BY DEF Others, Steps, OwnType
<1>3. PlaceInv'
  BY <1>2, PlaceStep
<1> QED
  BY <1>1, <1>2, <1>3 DEF Sound

LEMMA SharedSame ==
    ASSUME TypeInv, UNCHANGED <<current_value, num_updates, watch, inbox, tsoLock, heaps>>
    PROVE  SharedType
  BY DEF TypeInv, SharedType

LEMMA OwnSame ==
    ASSUME TypeInv, NEW th \in Thread, UNCHANGED <<why_blocked, done, since, torn>>
    PROVE  OwnType(th)
  BY DEF TypeInv, OwnType

(* A TVar is locked or unlocked. *)
LEMMA StoreType ==
    ASSUME TypeInv, NEW x \in TVar, NEW v \in Val \cup Thread,
           current_value' = [current_value EXCEPT ![x] = v],
           UNCHANGED <<num_updates, watch, inbox, tsoLock, heaps>>
    PROVE  SharedType
  BY DEF TypeInv, SharedType

(* The places after which a thread need not be awake. *)
LEMMA SameNestInv ==
    ASSUME TypeInv, PlaceInv, NEW th \in Thread, scenario' = scenario, done' = done,
           nest' = nest, frames' = frames, pc(th) # "idle", loc'[th].pc # "idle",
           loc'[th].lvl <= Len(nest[th]),
           loc'[th].op = "commitNested" => op(th) = "commitNested" /\ loc'[th].lvl = loc[th].lvl
    PROVE  NestInv(th)'
<1>1. done[th] < Len(Writes[th]) /\ Len(frames[th]) < Len(nest[th])
      /\ (op(th) = "commitNested" =>
            loc[th].lvl = Len(nest[th]) /\ loc[th].lvl > 1 /\ frames[th] # <<>>)
  BY DEF PlaceInv, NestInv
<1>2. Len(frames'[th]) < Len(nest'[th]) /\ loc'[th].lvl <= Len(nest'[th])
  BY <1>1
<1>3. loc'[th].op = "commitNested" =>
             loc'[th].lvl = Len(nest'[th]) /\ loc'[th].lvl > 1 /\ frames'[th] # <<>>
  BY <1>1
<1> QED
  BY <1>1, <1>2, <1>3, NestStep

LEMMA WakeupStep ==
    ASSUME TypeInv, PlaceInv, scenario' = scenario, NEW th \in Thread, Wakeup(th)
    PROVE  Sound(th) /\ QuietStep(th) /\ nest' = nest
<1>1. /\ pc(th) \in {"idle", "run", "blocked", "resume"} /\ inbox[th] > 0
      /\ inbox' = [inbox EXCEPT ![th] = @ - 1]
      /\ UNCHANGED <<current_value, num_updates, watch, tsoLock, nest, frames, done>>
      /\ UNCHANGED <<heaps, since, torn, committed>>
      /\ \/ /\ why_blocked[th] = "BlockedOnSTM"
            /\ why_blocked' = [why_blocked EXCEPT ![th] = "NotBlocked"] /\ Goto(th, "resume")
         \/ /\ why_blocked[th] # "BlockedOnSTM" /\ why_blocked' = why_blocked /\ loc' = loc
  BY DEF Wakeup, tvarVars, histVars
<1>2. SharedType
  BY <1>1 DEF TypeInv, SharedType
<1>3. why_blocked'[th] # "BlockedOnSTM" /\ OwnType(th)
  BY <1>1 DEF TypeInv, OwnType
<1>4. BlockedInv(th)'
  BY <1>3 DEF BlockedInv
<1>5. Reads(th)
  BY <1>1, FromSelf DEF Reads
<1>6. CASE why_blocked[th] = "BlockedOnSTM" /\ Goto(th, "resume")
  <2>1. pc(th) = "blocked"
    BY <1>1, <1>6 DEF PlaceInv, BlockedInv
  <2>2. op(th) = "none" /\ loc[th].lvl = 1 /\ loc[th].lvl <= Len(nest[th])
    BY <2>1 DEF PlaceInv, OpInv, NestInv
  <2>3. Moved(th, "resume", op(th), loc[th].lvl, loc[th].i, loc[th].saw, loc[th].ok)
    BY <1>6, MoveGoto DEF PC
  <2>4. /\ loc' \in [Thread -> LocType] /\ \A u \in Thread \ {th} : loc'[u] = loc[u]
        /\ loc'[th].pc = "resume" /\ loc'[th].op = "none" /\ loc'[th].lvl = 1
    BY <2>2, <2>3 DEF Moved
  <2>5. Steps(th)
    BY <1>1, <2>4 DEF Steps, TypeInv
  <2>6. OpInv(th)'
    BY <2>4 DEF OpInv, pc, op, Committing
  <2>7. /\ pc(th) # "idle" /\ loc'[th].pc # "idle" /\ loc'[th].lvl <= Len(nest[th])
        /\ loc'[th].op # "commitNested"
    BY <2>1, <2>2, <2>4
  <2>8. NestInv(th)'
    BY <1>1, <2>7, SameNestInv
  <2>9. Sound(th)
    BY <1>2, <1>3, <1>4, <2>5, <2>6, <2>8, SoundStep
  <2>10. Resting(th)'
    BY <2>4 DEF Resting, pc
  <2> QED
    BY <1>1, <1>5, <2>9, <2>10 DEF QuietStep
<1>7. CASE loc' = loc
  <2>1. OpInv(th) /\ NestInv(th)
    BY DEF PlaceInv
  <2>2. OpInv(th)'
    BY <1>7, <2>1 DEF OpInv, pc, op, Committing
  <2>3. NestInv(th)'
    BY <1>1, <1>7, <2>1 DEF NestInv, pc, op, Writes
  <2>4. Steps(th)
    BY <1>1, <1>7 DEF Steps, TypeInv
  <2>5. Sound(th)
    BY <1>2, <1>3, <1>4, <2>2, <2>3, <2>4, SoundStep
  <2>6. Resting(th)'
    BY <1>1, <1>7 DEF Resting, pc
  <2> QED
    BY <1>1, <1>5, <2>5, <2>6 DEF QuietStep
<1> QED
  BY <1>1, <1>6, <1>7

LEMMA ThrowToBlockedStep ==
    ASSUME TypeInv, PlaceInv, scenario' = scenario, NEW th \in Thread, ThrowToBlocked(th)
    PROVE  Sound(th) /\ QuietStep(th)
<1>1. /\ pc(th) = "blocked" /\ why_blocked[th] = "BlockedOnSTM"
      /\ tsoLock' = [tsoLock EXCEPT ![th] = TRUE]
      /\ UNCHANGED <<current_value, num_updates, watch, why_blocked, inbox, nest, frames, done>>
      /\ UNCHANGED <<heaps, since, torn, committed>>
      /\ \/ loc' = [loc EXCEPT ![th] = At("throwMasked")]
         \/ loc' = [loc EXCEPT ![th] = [At("unwatch") EXCEPT !.op = "throwTo"]]
  BY DEF ThrowToBlocked, tvarVars, histVars
<1>2. SharedType
  BY <1>1 DEF TypeInv, SharedType
<1>3. OwnType(th)
  BY <1>1, OwnSame
<1>4. Reads(th)
  BY <1>1, FromSelf DEF Reads
<1>5. Moved(th, "throwMasked", "none", 1, 1, InitVal, TRUE) \/ Moved(th, "unwatch", "throwTo", 1, 1, InitVal, TRUE)
  BY <1>1, MoveAt, MoveThrowTo DEF PC
<1>6. /\ loc' \in [Thread -> LocType] /\ \A u \in Thread \ {th} : loc'[u] = loc[u]
      /\ loc'[th].lvl = 1
      /\ \/ loc'[th].pc = "throwMasked" /\ loc'[th].op = "none"
         \/ loc'[th].pc = "unwatch" /\ loc'[th].op = "throwTo"
  BY <1>5 DEF Moved
<1>7. Steps(th)
  BY <1>1, <1>6 DEF Steps, TypeInv
<1>8. OpInv(th)'
  BY <1>6 DEF OpInv, pc, op, Committing
<1>9. BlockedInv(th)'
  BY <1>6 DEF BlockedInv, pc, op
<1>10. /\ pc(th) # "idle" /\ loc'[th].pc # "idle" /\ loc'[th].lvl <= Len(nest[th])
       /\ loc'[th].op # "commitNested"
  <2>1. Len(nest[th]) > 0 /\ Len(nest[th]) \in Nat
    BY <1>1, ThreadFacts
  <2> QED
    BY <1>1, <1>6, <2>1
<1>11. NestInv(th)'
  BY <1>1, <1>10, SameNestInv
<1>12. Sound(th)
  BY <1>2, <1>3, <1>7, <1>8, <1>9, <1>11, SoundStep
<1>13. Resting(th)'
  BY <1>6 DEF Resting, pc
<1> QED
  BY <1>1, <1>4, <1>12, <1>13 DEF QuietStep

LEMMA ThrowToMaskedStep ==
    ASSUME TypeInv, PlaceInv, scenario' = scenario, NEW th \in Thread, ThrowToMasked(th)
    PROVE  Sound(th) /\ QuietStep(th)
<1>1. /\ pc(th) = "throwMasked"
      /\ tsoLock' = [tsoLock EXCEPT ![th] = FALSE]
      /\ UNCHANGED <<current_value, num_updates, watch, why_blocked, inbox, nest, frames, done>>
      /\ UNCHANGED <<heaps, since, torn, committed>>
      /\ loc' = [loc EXCEPT ![th] = At("blocked")]
  BY DEF ThrowToMasked, tvarVars, histVars
<1>2. SharedType
  BY <1>1 DEF TypeInv, SharedType
<1>3. OwnType(th)
  BY <1>1, OwnSame
<1>4. Reads(th)
  BY <1>1, FromSelf DEF Reads
<1>5. Moved(th, "blocked", "none", 1, 1, InitVal, TRUE)
  BY <1>1, MoveAt DEF PC
<1>6. /\ loc' \in [Thread -> LocType] /\ \A u \in Thread \ {th} : loc'[u] = loc[u]
      /\ loc'[th].lvl = 1 /\ loc'[th].pc = "blocked" /\ loc'[th].op = "none"
  BY <1>5 DEF Moved
<1>7. Steps(th)
  BY <1>1, <1>6 DEF Steps, TypeInv
<1>8. OpInv(th)'
  BY <1>6 DEF OpInv, pc, op, Committing
<1>9. BlockedInv(th)'
  BY <1>6 DEF BlockedInv, pc, op
<1>10. /\ pc(th) # "idle" /\ loc'[th].pc # "idle" /\ loc'[th].lvl <= Len(nest[th])
       /\ loc'[th].op # "commitNested"
  <2>1. Len(nest[th]) > 0 /\ Len(nest[th]) \in Nat
    BY <1>1, ThreadFacts
  <2> QED
    BY <1>1, <1>6, <2>1
<1>11. NestInv(th)'
  BY <1>1, <1>10, SameNestInv
<1>12. Sound(th)
  BY <1>2, <1>3, <1>7, <1>8, <1>9, <1>11, SoundStep
<1>13. Resting(th)'
  BY <1>6 DEF Resting, pc
<1> QED
  BY <1>1, <1>4, <1>12, <1>13 DEF QuietStep

LEMMA LeaveStep ==
    ASSUME TypeInv, PlaceInv, scenario' = scenario, NEW th \in Thread, pc(th) # "idle", Leave(th),
           UNCHANGED <<current_value, num_updates, watch, inbox, heaps, since, torn, committed>>,
           tsoLock' \in [Thread -> BOOLEAN],
           why_blocked' \in [Thread -> {"NotBlocked", "BlockedOnSTM"}],
           \A u \in Thread \ {th} : why_blocked'[u] = why_blocked[u],
           why_blocked'[th] # "BlockedOnSTM"
    PROVE  Sound(th) /\ QuietStep(th) /\ nest'[th] = <<>>
<1>1. /\ Moved(th, "idle", "none", 1, 1, InitVal, TRUE)
      /\ Nested(th, <<>>) /\ Framed(th, <<>>)
      /\ done' \in [Thread -> Nat] /\ done'[th] = done[th] + 1
      /\ \A u \in Thread \ {th} : done'[u] = done[u]
  BY LeaveFacts
<1>2. /\ loc' \in [Thread -> LocType] /\ \A u \in Thread \ {th} : loc'[u] = loc[u]
      /\ loc'[th].lvl = 1 /\ loc'[th].pc = "idle" /\ loc'[th].op = "none" /\ nest'[th] = <<>>
  BY <1>1 DEF Moved, Nested
<1>3. Steps(th)
  BY <1>1, <1>2 DEF Steps, Nested, Framed
<1>4. SharedType
  BY DEF TypeInv, SharedType
<1>5. OwnType(th)
  BY <1>1 DEF TypeInv, OwnType
<1>6. OpInv(th)'
  BY <1>2 DEF OpInv, pc, op, Committing
<1>7. BlockedInv(th)'
  BY DEF BlockedInv
<1>8. NestInv(th)'
  <2>1. done[th] < Len(Writes[th]) /\ Len(Writes[th]) \in Nat /\ done[th] \in Nat
    BY WritesFacts DEF PlaceInv, NestInv
  <2>2. done'[th] <= Len(Writes[th])
    BY <1>1, <2>1
  <2>3. Writes' = Writes
    BY DEF Writes
  <2> QED
    BY <1>2, <2>2, <2>3 DEF NestInv, pc, op
<1>9. Sound(th)
  BY <1>3, <1>4, <1>5, <1>6, <1>7, <1>8, SoundStep
<1>10. Reads(th)
  BY <1>2 DEF Reads
<1>11. Resting(th)'
  BY <1>2 DEF Resting, pc
<1>12. QuietStep(th)
  BY <1>10, <1>11 DEF QuietStep
<1> QED
  BY <1>2, <1>9, <1>12

LEMMA StartStep ==
    ASSUME TypeInv, PlaceInv, scenario' = scenario, NEW th \in Thread, pc(th) # "idle",
           StartTransaction(th), why_blocked[th] # "BlockedOnSTM",
           UNCHANGED <<current_value, num_updates, watch, inbox, tsoLock, why_blocked>>,
           UNCHANGED <<heaps, torn, committed, done>>
    PROVE  Sound(th) /\ QuietStep(th)
<1> DEFINE tr == NewTRec("ACTIVE")
           q == <<tr>>
<1>1. /\ Moved(th, "run", "none", 1, 1, InitVal, TRUE)
      /\ Nested(th, q) /\ Framed(th, <<>>)
      /\ since' \in [Thread -> Nat \ {0}] /\ since'[th] = Len(heaps)
      /\ \A u \in Thread \ {th} : since'[u] = since[u]
  BY StartFacts
<1>2. tr \in TRecType /\ DOMAIN tr.entries = {}
  BY NewTRecFacts DEF TRecState
<1> HIDE DEF tr
<1>3. Len(q) = 1 /\ DOMAIN q = {1} /\ q[1] = tr /\ Len(<<>>) = 0
  OBVIOUS
<1> HIDE DEF q
<1>4. /\ loc' \in [Thread -> LocType] /\ \A u \in Thread \ {th} : loc'[u] = loc[u]
      /\ loc'[th].lvl = 1 /\ loc'[th].pc = "run" /\ loc'[th].op = "none"
      /\ nest'[th] = q /\ frames'[th] = <<>>
  BY <1>1 DEF Moved, Nested, Framed
<1>5. Steps(th)
  BY <1>1, <1>4 DEF Steps, Nested, Framed
<1>6. SharedType
  BY SharedSame
<1>7. OwnType(th)
  BY <1>1 DEF TypeInv, OwnType
<1>8. OpInv(th)'
  BY <1>4 DEF OpInv, pc, op, Committing
<1>9. BlockedInv(th)'
  BY DEF BlockedInv
<1>10. Len(nest'[th]) = 1 /\ Len(frames'[th]) = 0
  BY <1>3, <1>4
<1>11. done[th] < Len(Writes[th])
  BY DEF PlaceInv, NestInv
<1>12. /\ loc'[th].pc # "idle" /\ Len(frames'[th]) < Len(nest'[th])
       /\ loc'[th].lvl <= Len(nest'[th]) /\ loc'[th].op # "commitNested"
  BY <1>4, <1>10
<1>13. NestInv(th)'
  BY <1>11, <1>12, NestStep
<1>14. Sound(th)
  BY <1>5, <1>6, <1>7, <1>8, <1>9, <1>13, SoundStep
<1>15. Resting(th)'
  BY <1>4 DEF Resting, pc
<1>16. \A d \in DOMAIN nest'[th] : DOMAIN nest'[th][d].entries = {}
  BY <1>2, <1>3, <1>4
<1>17. QuietStep(th)
  BY <1>1, <1>15, <1>16 DEF QuietStep
<1> QED
  BY <1>14, <1>17

LEMMA UnwatchedStep ==
    ASSUME TypeInv, PlaceInv, scenario' = scenario, NEW th \in Thread, Unwatched(th)
    PROVE  Sound(th) /\ QuietStep(th)
<1>1. pc(th) = "unwatch" /\ pc(th) # "idle"
      /\ UNCHANGED <<current_value, num_updates, watch, inbox, heaps, torn, committed>>
  BY DEF Unwatched, tvarVars
<1>2. CASE op(th) = "rewait" /\ StartTransaction(th) /\ UNCHANGED <<why_blocked, tsoLock, done>>
  <2>1. why_blocked[th] # "BlockedOnSTM"
    BY <1>1, <1>2 DEF PlaceInv, BlockedInv
  <2> QED
    BY <1>1, <1>2, <2>1, StartStep
<1>3. CASE /\ Leave(th) /\ why_blocked' = [why_blocked EXCEPT ![th] = "NotBlocked"]
           /\ tsoLock' = [tsoLock EXCEPT ![th] = FALSE] /\ since' = since
  <2>1. /\ tsoLock' \in [Thread -> BOOLEAN]
        /\ why_blocked' \in [Thread -> {"NotBlocked", "BlockedOnSTM"}]
        /\ \A u \in Thread \ {th} : why_blocked'[u] = why_blocked[u]
        /\ why_blocked'[th] # "BlockedOnSTM"
    BY <1>3 DEF TypeInv
  <2> QED
    BY <1>1, <1>3, <2>1, LeaveStep
<1> QED
  BY <1>2, <1>3 DEF Unwatched

LEMMA ThrowToRunnableStep ==
    ASSUME TypeInv, PlaceInv, scenario' = scenario, NEW th \in Thread, ThrowToRunnable(th)
    PROVE  Sound(th) /\ QuietStep(th) /\ (pc(th) = "run" => nest'[th] = <<>>)
<1>1. UNCHANGED <<tvarVars, threadVars, histVars>>
  BY DEF ThrowToRunnable
<1>2. CASE pc(th) = "run" /\ Leave(th)
  <2>1. why_blocked[th] # "BlockedOnSTM" /\ pc(th) # "idle"
    BY <1>2, NotBlocked
  <2>2. /\ tsoLock' \in [Thread -> BOOLEAN]
        /\ why_blocked' \in [Thread -> {"NotBlocked", "BlockedOnSTM"}]
        /\ \A u \in Thread \ {th} : why_blocked'[u] = why_blocked[u]
        /\ why_blocked'[th] # "BlockedOnSTM"
    BY <1>1, <2>1 DEF TypeInv, threadVars
  <2>3. UNCHANGED <<current_value, num_updates, watch, inbox, heaps, since, torn, committed>>
    BY <1>1 DEF tvarVars, threadVars, histVars
  <2> QED
    BY <1>2, <2>1, <2>2, <2>3, LeaveStep
<1>3. CASE /\ pc(th) = "resume" /\ loc' = [loc EXCEPT ![th] = [At("unwatch") EXCEPT !.op = "throwTo"]]
           /\ UNCHANGED <<nest, frames, done>>
  <2>1. Moved(th, "unwatch", "throwTo", 1, 1, InitVal, TRUE)
    BY <1>3, MoveThrowTo
  <2>2. /\ loc' \in [Thread -> LocType] /\ \A u \in Thread \ {th} : loc'[u] = loc[u]
        /\ loc'[th].lvl = 1 /\ loc'[th].pc = "unwatch" /\ loc'[th].op = "throwTo"
    BY <2>1 DEF Moved
  <2>3. why_blocked[th] # "BlockedOnSTM" /\ pc(th) # "idle"
    BY <1>3, NotBlocked
  <2>4. OpInv(th)'
    BY <2>2 DEF OpInv, pc, op, Committing
  <2>5. Resting(th)'
    BY <2>2 DEF Resting, pc
  <2>6. loc'[th].lvl <= Len(nest[th]) /\ loc'[th].pc # "idle" /\ loc'[th].op # "commitNested"
    <3>1. Len(nest[th]) > 0 /\ Len(nest[th]) \in Nat
      BY <2>3, ThreadFacts
    <3> QED
      BY <2>2, <3>1
  <2>7. UNCHANGED <<tvarVars, threadVars, histVars, done>> /\ nest' = nest /\ frames' = frames
    BY <1>1, <1>3
  <2>8. Sound(th) /\ QuietStep(th)
    BY <2>2, <2>3, <2>4, <2>5, <2>6, <2>7, TurnStep
  <2> QED
    BY <1>3, <2>8
<1> QED
  BY <1>2, <1>3 DEF ThrowToRunnable

LEMMA RevertedStep ==
    ASSUME TypeInv, PlaceInv, scenario' = scenario, NEW th \in Thread, Reverted(th)
    PROVE  Sound(th) /\ QuietStep(th)
<1> DEFINE n == nest[th]
<1>1. /\ pc(th) = "revert" /\ pc(th) # "idle"
      /\ UNCHANGED <<current_value, num_updates, watch, why_blocked, inbox, tsoLock>>
      /\ UNCHANGED <<tvarVars, threadVars>> /\ UNCHANGED <<heaps, torn, committed>>
  BY DEF Reverted, tvarVars, threadVars
<1>2. ~(loc[th].ok /\ op(th) \in {"wait", "rewait"}) => why_blocked[th] # "BlockedOnSTM"
  BY <1>1 DEF PlaceInv, BlockedInv
<1>3. /\ n \in Seq(TRecType) /\ Len(n) \in Nat /\ DOMAIN n = 1..Len(n) /\ Len(n) > 0
      /\ Len(frames[th]) < Len(n) /\ Len(frames[th]) \in Nat /\ loc[th].lvl \in 1..Len(n)
      /\ done[th] < Len(Writes[th])
  <2>1. Len(frames[th]) < Len(n) /\ done[th] < Len(Writes[th])
    BY <1>1 DEF PlaceInv, NestInv
  <2> QED
    BY <1>1, <2>1, ThreadFacts
<1>4. SharedType
  BY <1>1, SharedSame
(* the transaction starts over *)
<1>5. CASE ~loc[th].ok /\ StartTransaction(th) /\ done' = done
  <2>1. why_blocked[th] # "BlockedOnSTM"
    BY <1>2, <1>5
  <2> QED
    BY <1>1, <1>5, <2>1, StartStep
(* the nested transaction starts over *)
<1>6. CASE /\ op(th) = "commitNested"
           /\ nest' = [nest EXCEPT ![th] =
                 LET outer == SubSeq(@, 1, Len(@) - 1)
                 IN  Append(outer, NewTRec(Last(outer).state))]
           /\ loc' = [loc EXCEPT ![th] = At("run")]
           /\ UNCHANGED <<frames, since, done>>
  <2> DEFINE d == Len(n) - 1
             outer == SubSeq(n, 1, d)
             r == NewTRec(Last(outer).state)
             m == Append(outer, r)
  <2>1. Len(n) > 1 /\ d \in Nat \ {0} /\ d < Len(n) /\ d \in 0..Len(n)
    <3>1. loc[th].lvl = Len(n) /\ loc[th].lvl > 1
      BY <1>6 DEF PlaceInv, NestInv
    <3> HIDE DEF n
    <3> QED
      BY <1>3, <3>1
  <2>2. outer \in Seq(TRecType) /\ Len(outer) = d /\ \A c \in 1..d : c \in DOMAIN n /\ outer[c] = n[c]
    <3> HIDE DEF n, d
    <3> QED
      BY <1>3, <2>1, NestFront
  <2>3. Last(outer) \in TRecType
    <3>1. d \in 1..d /\ d \in DOMAIN outer
      BY <2>1, <2>2
    <3> QED
      BY <2>2, <3>1 DEF Last
  <2>4. r \in TRecType /\ DOMAIN r.entries = {}
    <3> HIDE DEF outer
    <3> QED
      BY <2>3, TRecFacts, NewTRecFacts
  <2>5. m \in Seq(TRecType) /\ Len(m) = d + 1 /\ Kept(n, m)
    <3> HIDE DEF n, d, r
    <3>1. \A j \in DOMAIN r.entries : \E d2 \in DOMAIN n : From(r.entries[j], n[d2].entries)
      BY <2>4
    <3> QED
      BY <1>3, <2>1, <2>4, <3>1, NestFold
  <2>6. nest' = [nest EXCEPT ![th] = m]
    BY <1>6
  <2> HIDE DEF m
  <2>7. Nested(th, m)
    BY <2>5, <2>6, SetNest
  <2>8. nest'[th] = m /\ frames' = frames
    BY <1>6, <2>7 DEF Nested
  <2>9. Moved(th, "run", "none", 1, 1, InitVal, TRUE)
    BY <1>6, MoveAt DEF PC
  <2>10. /\ loc' \in [Thread -> LocType] /\ \A u \in Thread \ {th} : loc'[u] = loc[u]
         /\ loc'[th].lvl = 1 /\ loc'[th].pc = "run" /\ loc'[th].op = "none"
    BY <2>9 DEF Moved
  <2>11. Steps(th)
    BY <2>7, <2>8, <2>10 DEF Steps, Nested, TypeInv
  <2>12. OpInv(th)'
    BY <2>10 DEF OpInv, pc, op, Committing
  <2>13. why_blocked[th] # "BlockedOnSTM"
    BY <1>2, <1>6
  <2>14. /\ loc'[th].pc # "idle" /\ Len(frames'[th]) < Len(nest'[th])
         /\ loc'[th].lvl <= Len(nest'[th]) /\ loc'[th].op # "commitNested"
    <3>1. Len(nest'[th]) = Len(n)
      BY <1>3, <2>1, <2>5, <2>8
    <3> HIDE DEF n, d
    <3> QED
      BY <1>3, <2>1, <2>8, <2>10, <3>1
  <2>15. UNCHANGED <<tvarVars, threadVars, histVars, done>>
    BY <1>1, <1>6 DEF histVars
  <2>16. Sound(th)
    BY <1>1, <2>11, <2>12, <2>13, <2>14, <2>15, MoveStep
  <2>17. Resting(th)'
    BY <2>10 DEF Resting, pc
  <2>18. Reads(th)
    BY <2>5, <2>7, KeptReads
  <2> QED
    BY <2>15, <2>16, <2>17, <2>18, QuietMove
(* the thread is asleep *)
<1>7. CASE /\ loc' = [loc EXCEPT ![th] = At("blocked")]
           /\ UNCHANGED <<nest, frames, since, done>>
  <2>1. Moved(th, "blocked", "none", 1, 1, InitVal, TRUE)
    BY <1>7, MoveAt DEF PC
  <2>2. /\ loc' \in [Thread -> LocType] /\ \A u \in Thread \ {th} : loc'[u] = loc[u]
        /\ loc'[th].lvl = 1 /\ loc'[th].pc = "blocked" /\ loc'[th].op = "none"
    BY <2>1 DEF Moved
  <2>3. Steps(th)
    BY <1>7, <2>2 DEF Steps, TypeInv
  <2>4. OpInv(th)'
    BY <2>2 DEF OpInv, pc, op, Committing
  <2>5. BlockedInv(th)'
    BY <2>2 DEF BlockedInv, pc
  <2>6. loc'[th].lvl <= Len(nest[th]) /\ loc'[th].pc # "idle" /\ loc'[th].op # "commitNested"
    BY <1>3, <2>2
  <2>7. NestInv(th)'
    BY <1>1, <1>7, <2>6, SameNestInv
  <2>8. OwnType(th)
    BY <1>1, <1>7, OwnSame
  <2>9. Sound(th)
    BY <1>4, <2>3, <2>4, <2>5, <2>7, <2>8, SoundStep
  <2>10. Resting(th)'
    BY <2>2 DEF Resting, pc
  <2>11. Reads(th)
    BY <1>7, FromSelf DEF Reads
  <2> QED
    BY <1>1, <1>7, <2>9, <2>10, <2>11 DEF QuietStep
(* the thread leaves the watch queues *)
<1>8. CASE /\ op(th) = "rewait" /\ ~loc[th].ok /\ GotoEntry(th, "unwatch", 1)
           /\ UNCHANGED <<nest, frames, since, done>>
  <2>1. Moved(th, "unwatch", op(th), loc[th].lvl, 1, loc[th].saw, loc[th].ok)
    BY <1>8, MoveEntry DEF PC
  <2>2. /\ loc' \in [Thread -> LocType] /\ \A u \in Thread \ {th} : loc'[u] = loc[u]
        /\ loc'[th].lvl = loc[th].lvl /\ loc'[th].pc = "unwatch" /\ loc'[th].op = "rewait"
    BY <1>8, <2>1 DEF Moved
  <2>3. OpInv(th)'
    BY <2>2 DEF OpInv, pc, op, Committing
  <2>4. Resting(th)'
    BY <2>2 DEF Resting, pc
  <2>5. why_blocked[th] # "BlockedOnSTM"
    BY <1>2, <1>8
  <2>6. loc'[th].lvl <= Len(nest[th]) /\ loc'[th].pc # "idle" /\ loc'[th].op # "commitNested"
    BY <1>3, <2>2
  <2>7. UNCHANGED <<tvarVars, threadVars, histVars, done>> /\ nest' = nest /\ frames' = frames
    BY <1>1, <1>8 DEF histVars
  <2> QED
    BY <1>1, <2>2, <2>3, <2>4, <2>5, <2>6, <2>7, TurnStep
(* validation goes on with the enclosing record *)
<1>9. CASE /\ op(th) \in {"validate", "throw"} /\ loc[th].lvl > 1
           /\ loc' = [loc EXCEPT ![th].pc = "validate", ![th].i = 1, ![th].lvl = @ - 1]
           /\ UNCHANGED <<nest, frames, since, done>>
  <2> DEFINE l == [loc[th] EXCEPT !.pc = "validate", !.i = 1, !.lvl = @ - 1]
  <2>1. l \in LocType /\ l.pc = "validate" /\ l.op = op(th) /\ l.lvl = loc[th].lvl - 1 /\ l.i = 1
    <3>1. loc[th] \in LocType /\ "validate" \in PC /\ 1 \in Nat \ {0} /\ loc[th].lvl - 1 \in Nat \ {0}
      BY <1>9, LocFacts DEF PC
    <3> QED
      BY <3>1 DEF LocType, op
  <2> HIDE DEF l
  <2>2. loc' = [loc EXCEPT ![th] = l]
    BY <1>9 DEF l
  <2>3. Moved(th, l.pc, l.op, l.lvl, l.i, l.saw, l.ok)
    BY <2>1, <2>2, SetLoc
  <2>4. /\ loc' \in [Thread -> LocType] /\ \A u \in Thread \ {th} : loc'[u] = loc[u]
        /\ loc'[th].lvl = loc[th].lvl - 1 /\ loc'[th].pc = "validate" /\ loc'[th].op = op(th) /\ loc'[th].i = 1
    BY <2>1, <2>3 DEF Moved
  <2>5. OpInv(th)'
    BY <1>9, <2>4 DEF OpInv, pc, op, Committing
  <2>6. Resting(th)'
    BY <2>4 DEF Resting, pc
  <2>7. why_blocked[th] # "BlockedOnSTM"
    BY <1>2, <1>9
  <2>8. loc'[th].lvl <= Len(nest[th]) /\ loc'[th].pc # "idle" /\ loc'[th].op # "commitNested"
    BY <1>3, <1>9, <2>4
  <2>9. UNCHANGED <<tvarVars, threadVars, histVars, done>> /\ nest' = nest /\ frames' = frames
    BY <1>1, <1>9 DEF histVars
  <2> QED
    BY <1>1, <2>4, <2>5, <2>6, <2>7, <2>8, <2>9, TurnStep
(* the transaction is valid and runs on *)
<1>10. CASE /\ op(th) = "validate" /\ loc' = [loc EXCEPT ![th] = At("run")]
            /\ UNCHANGED <<nest, frames, since, done>>
  <2>1. Moved(th, "run", "none", 1, 1, InitVal, TRUE)
    BY <1>10, MoveAt DEF PC
  <2>2. /\ loc' \in [Thread -> LocType] /\ \A u \in Thread \ {th} : loc'[u] = loc[u]
        /\ loc'[th].lvl = 1 /\ loc'[th].pc = "run" /\ loc'[th].op = "none"
    BY <2>1 DEF Moved
  <2>3. OpInv(th)'
    BY <2>2 DEF OpInv, pc, op, Committing
  <2>4. Resting(th)'
    BY <2>2 DEF Resting, pc
  <2>5. why_blocked[th] # "BlockedOnSTM"
    BY <1>2, <1>10
  <2>6. loc'[th].lvl <= Len(nest[th]) /\ loc'[th].pc # "idle" /\ loc'[th].op # "commitNested"
    BY <1>3, <2>2
  <2>7. UNCHANGED <<tvarVars, threadVars, histVars, done>> /\ nest' = nest /\ frames' = frames
    BY <1>1, <1>10 DEF histVars
  <2> QED
    BY <1>1, <2>2, <2>3, <2>4, <2>5, <2>6, <2>7, TurnStep
(* the transaction is not valid: its records are aborted into one *)
<1>11. CASE /\ op(th) = "validate"
            /\ nest' = [nest EXCEPT ![th] = <<[AbortToTop(@) EXCEPT !.state = "CONDEMNED"]>>]
            /\ frames' = [frames EXCEPT ![th] = <<>>]
            /\ loc' = [loc EXCEPT ![th] = At("getInvariants")]
            /\ UNCHANGED <<since, done>>
  <2> DEFINE a == AbortToTop(n)
             r == [a EXCEPT !.state = "CONDEMNED"]
             m == <<r>>
             e == <<>>
  <2>1. a \in TRecType /\ \A j \in DOMAIN a.entries : \E d \in DOMAIN n : From(a.entries[j], n[d].entries)
    <3>1. n # <<>>
      BY <1>3
    <3> HIDE DEF n
    <3> QED
      BY <1>3, <3>1, AbortToTopFacts
  <2>2. r \in TRecType /\ r.entries = a.entries
    <3> HIDE DEF a
    <3>1. a \in [state : TRecState, entries : Seq(EntryType)] /\ Distinct(a.entries)
      BY <2>1 DEF TRecType
    <3> QED
      BY <3>1 DEF TRecType, TRecState
  <2>3. nest' = [nest EXCEPT ![th] = m] /\ frames' = [frames EXCEPT ![th] = e]
    BY <1>11
  <2> HIDE DEF r
  <2>4. m \in Seq(TRecType) /\ Len(m) = 1 /\ DOMAIN m = {1} /\ m[1] = r
        /\ e \in Seq({"first", "alt", "catch"}) /\ Len(e) = 0
    BY <2>2
  <2> HIDE DEF m, e
  <2>5. Nested(th, m) /\ Framed(th, e)
    BY <2>3, <2>4, SetNest, SetFrames
  <2>6. nest'[th] = m /\ frames'[th] = e
    BY <2>5 DEF Nested, Framed
  <2>7. Kept(n, m)
    BY <2>1, <2>2, <2>4 DEF Kept
  <2>8. Moved(th, "getInvariants", "none", 1, 1, InitVal, TRUE)
    BY <1>11, MoveAt DEF PC
  <2>9. /\ loc' \in [Thread -> LocType] /\ \A u \in Thread \ {th} : loc'[u] = loc[u]
        /\ loc'[th].lvl = 1 /\ loc'[th].pc = "getInvariants" /\ loc'[th].op = "none"
    BY <2>8 DEF Moved
  <2>10. Steps(th)
    BY <2>5, <2>9 DEF Steps, Nested, Framed
  <2>11. OpInv(th)'
    BY <2>9 DEF OpInv, pc, op, Committing
  <2>12. why_blocked[th] # "BlockedOnSTM"
    BY <1>2, <1>11
  <2>13. Len(nest'[th]) = 1 /\ Len(frames'[th]) = 0
    BY <2>4, <2>6
  <2>14. /\ loc'[th].pc # "idle" /\ Len(frames'[th]) < Len(nest'[th])
         /\ loc'[th].lvl <= Len(nest'[th]) /\ loc'[th].op # "commitNested"
    BY <2>9, <2>13
  <2>15. UNCHANGED <<tvarVars, threadVars, histVars, done>>
    BY <1>1, <1>11 DEF histVars
  <2>16. Sound(th)
    BY <1>1, <2>10, <2>11, <2>12, <2>14, <2>15, MoveStep
  <2>17. Resting(th)'
    BY <2>9 DEF Resting, pc
  <2>18. Reads(th)
    BY <2>5, <2>7, KeptReads
  <2> QED
    BY <2>15, <2>16, <2>17, <2>18, QuietMove
(* the exception leaves the atomic block *)
<1>12. CASE op(th) = "throw" /\ Leave(th) /\ since' = since
  <2>1. why_blocked[th] # "BlockedOnSTM"
    BY <1>2, <1>12
  <2>2. /\ tsoLock' \in [Thread -> BOOLEAN]
        /\ why_blocked' \in [Thread -> {"NotBlocked", "BlockedOnSTM"}]
        /\ \A u \in Thread \ {th} : why_blocked'[u] = why_blocked[u]
        /\ why_blocked'[th] # "BlockedOnSTM"
    BY <1>1, <2>1 DEF TypeInv
  <2> QED
    BY <1>1, <1>12, <2>2, LeaveStep
<1> QED
  BY <1>5, <1>6, <1>7, <1>8, <1>9, <1>10, <1>11, <1>12 DEF Reverted

LEMMA NestedCommittedStep ==
    ASSUME TypeInv, PlaceInv, scenario' = scenario, NEW th \in Thread, NestedCommitted(th)
    PROVE  /\ Sound(th) /\ QuietStep(th)
           /\ Len(nest[th]) > 1 /\ nest'[th] = SubSeq(nest[th], 1, Len(nest[th]) - 1)
<1> DEFINE n == nest[th]
           fr == frames[th]
           m == SubSeq(n, 1, Len(n) - 1)
           g == SubSeq(fr, 1, Len(fr) - 1)
<1>1. /\ pc(th) = "merge" /\ UNCHANGED <<tvarVars, threadVars, histVars, done>>
      /\ nest' = [nest EXCEPT ![th] = m] /\ frames' = [frames EXCEPT ![th] = g]
      /\ loc' = [loc EXCEPT ![th] = At("run")]
  BY DEF NestedCommitted
<1>2. op(th) = "commitNested" /\ loc[th].lvl = Len(n) /\ loc[th].lvl > 1 /\ fr # <<>> /\ Len(fr) < Len(n)
  BY <1>1 DEF PlaceInv, OpInv, NestInv
<1>3. n \in Seq(TRecType) /\ Len(n) \in Nat /\ fr \in Seq({"first", "alt", "catch"}) /\ Len(fr) \in Nat
  BY ThreadFacts
<1>4. Len(fr) > 0 /\ Len(n) > 1
  BY <1>2, <1>3
<1>5. m \in Seq(TRecType) /\ Len(m) = Len(n) - 1 /\ Kept(n, m)
  <2> HIDE DEF n
  <2>1. Len(n) - 1 \in 0..Len(n)
    BY <1>3, <1>4
  <2> QED
    BY <1>3, <2>1, NestFront
<1>6. g \in Seq({"first", "alt", "catch"}) /\ Len(g) = Len(fr) - 1
  <2> DEFINE d == Len(fr) - 1
  <2>1. d \in 0..Len(fr)
    BY <1>3, <1>4
  <2> HIDE DEF d
  <2>2. SubSeq(fr, 1, d) \in Seq({"first", "alt", "catch"}) /\ Len(SubSeq(fr, 1, d)) = d
    BY <1>3, <2>1
  <2> QED
    BY <2>2 DEF d
<1> HIDE DEF m, g
<1>7. Nested(th, m) /\ Framed(th, g)
  BY <1>1, <1>5, <1>6, SetNest, SetFrames
<1>8. nest'[th] = m /\ frames'[th] = g
  BY <1>7 DEF Nested, Framed
<1>9. Moved(th, "run", "none", 1, 1, InitVal, TRUE)
  BY <1>1, MoveAt DEF PC
<1>10. /\ loc' \in [Thread -> LocType] /\ \A u \in Thread \ {th} : loc'[u] = loc[u]
       /\ loc'[th].lvl = 1 /\ loc'[th].pc = "run" /\ loc'[th].op = "none"
  BY <1>9 DEF Moved
<1>11. Steps(th)
  BY <1>7, <1>10 DEF Steps, Nested, Framed
<1>12. OpInv(th)'
  BY <1>10 DEF OpInv, pc, op, Committing
<1>13. why_blocked[th] # "BlockedOnSTM" /\ pc(th) # "idle"
  BY <1>1, NotBlocked
<1>14. /\ loc'[th].pc # "idle" /\ Len(frames'[th]) < Len(nest'[th])
       /\ loc'[th].lvl <= Len(nest'[th]) /\ loc'[th].op # "commitNested"
  <2> HIDE DEF n, fr
  <2> QED
    BY <1>2, <1>3, <1>4, <1>5, <1>6, <1>8, <1>10
<1>15. Sound(th)
  BY <1>1, <1>11, <1>12, <1>13, <1>14, MoveStep
<1>16. Resting(th)'
  BY <1>10 DEF Resting, pc
<1>17. Reads(th)
  BY <1>5, <1>7, KeptReads
<1>18. QuietStep(th)
  BY <1>1, <1>16, <1>17, QuietMove
<1> QED
  BY <1>4, <1>8, <1>15, <1>18 DEF m

(* The rest of the actions: th works through the entries of one record. *)
Works(th) ==
    /\ loc' \in [Thread -> LocType] /\ \A u \in Thread \ {th} : loc'[u] = loc[u]
    /\ loc'[th].op = op(th) /\ loc'[th].lvl = loc[th].lvl
    /\ pc(th) # "idle" /\ loc'[th].pc # "idle"

LEMMA WorkStep ==
    ASSUME TypeInv, PlaceInv, scenario' = scenario, NEW th \in Thread, Works(th),
           nest' = nest, frames' = frames, done' = done, SharedType, OwnType(th),
           OpInv(th)', BlockedInv(th)'
    PROVE  Sound(th) /\ Entries(th)' = Entries(th) /\ TRec(th)' = TRec(th) /\ Reads(th)
<1>1. Steps(th)
  BY DEF Works, Steps, TypeInv
<1>2. loc[th].lvl <= Len(nest[th])
  BY DEF Works, PlaceInv, NestInv
<1>3. /\ loc'[th].pc # "idle" /\ pc(th) # "idle" /\ loc'[th].lvl <= Len(nest[th])
      /\ (loc'[th].op = "commitNested" => op(th) = "commitNested" /\ loc'[th].lvl = loc[th].lvl)
  BY <1>2 DEF Works
<1>4. NestInv(th)'
  BY <1>3, SameNestInv
<1>5. Sound(th)
  BY <1>1, <1>4, SoundStep
<1>6. Entries(th)' = Entries(th) /\ TRec(th)' = TRec(th)
  BY DEF Entries, TRec, Works
<1>7. Reads(th)
  BY FromSelf DEF Reads
<1> QED
  BY <1>5, <1>6, <1>7

LEMMA MovedWorks ==
    ASSUME NEW th \in Thread, NEW p, NEW i, NEW s, NEW b,
           Moved(th, p, op(th), loc[th].lvl, i, s, b), pc(th) # "idle", p # "idle"
    PROVE  Works(th) /\ loc'[th].pc = p /\ loc'[th].i = i /\ loc'[th].saw = s /\ loc'[th].ok = b
  BY DEF Moved, Works

(* The record th works on, and the entry it is at. *)
LEMMA WorkFacts ==
    ASSUME TypeInv, PlaceInv, NEW th \in Thread, pc(th) # "idle"
    PROVE  /\ TRec(th) \in TRecType /\ Entries(th) \in Seq(EntryType) /\ Distinct(Entries(th))
           /\ DOMAIN Entries(th) = 1..Len(Entries(th)) /\ Len(Entries(th)) \in Nat
           /\ \A j \in DOMAIN Entries(th) :
                 /\ Entries(th)[j] \in EntryType
                 /\ Entries(th)[j].tvar \in TVar /\ Entries(th)[j].expected \in Val
                 /\ Entries(th)[j].new \in Val /\ Entries(th)[j].num \in Nat
           /\ ~AtEnd(th) => loc[th].i \in DOMAIN Entries(th)
<1>1. TRec(th) \in TRecType
  BY ThreadFacts
<1>2. /\ Entries(th) \in Seq(EntryType) /\ Distinct(Entries(th))
      /\ DOMAIN Entries(th) = 1..Len(Entries(th)) /\ Len(Entries(th)) \in Nat
  BY <1>1, TRecFacts DEF Entries
<1>3. \A j \in DOMAIN Entries(th) :
                 /\ Entries(th)[j] \in EntryType
                 /\ Entries(th)[j].tvar \in TVar /\ Entries(th)[j].expected \in Val
                 /\ Entries(th)[j].new \in Val /\ Entries(th)[j].num \in Nat
  BY <1>1, TRecFacts DEF Entries
<1>4. ~AtEnd(th) => loc[th].i \in DOMAIN Entries(th)
  BY <1>2, LocFacts DEF AtEnd
<1> QED
  BY <1>1, <1>2, <1>3, <1>4

LEMMA AwakeWork ==
    ASSUME TypeInv, PlaceInv, scenario' = scenario, NEW th \in Thread, Works(th),
           pc(th) \notin {"revert", "blocked", "throwMasked", "unwatch", "unwatchUnlock"},
           UNCHANGED <<nest, frames, done, why_blocked, since, torn>>, SharedType, OpInv(th)'
    PROVE  Sound(th) /\ Entries(th)' = Entries(th) /\ TRec(th)' = TRec(th) /\ Reads(th)
<1>1. why_blocked'[th] # "BlockedOnSTM"
  BY NotBlocked
<1>2. BlockedInv(th)'
  BY <1>1 DEF BlockedInv
<1>3. OwnType(th) /\ nest' = nest /\ frames' = frames /\ done' = done
  BY OwnSame
<1> QED
  BY <1>2, <1>3, WorkStep

(* The end of stmGetInvariantsToCheck, and the lock of one TVar. *)
GetsInv(th, j) ==
    /\ j \in DOMAIN Entries(th) /\ entry_is_update(Entries(th)[j])
    /\ current_value[Entries(th)[j].tvar] \in Val
    /\ current_value' = [current_value EXCEPT ![Entries(th)[j].tvar] = th]
    /\ loc'[th].pc = "getInvUnlock" /\ loc'[th].i = j
    /\ loc'[th].saw = current_value[Entries(th)[j].tvar]
    /\ Works(th) /\ Entries(th)' = Entries(th) /\ Reads(th)
    /\ UNCHANGED <<num_updates, heaps, since, torn, committed>>

LEMMA GetInvLockStep ==
    ASSUME TypeInv, PlaceInv, scenario' = scenario, NEW th \in Thread, GetInvLock(th)
    PROVE  Sound(th) /\ pc(th) = "getInvariants" /\ (QuietStep(th) \/ \E j : GetsInv(th, j))
<1> DEFINE es == Entries(th)
           j == Seek(es, loc[th].i, entry_is_update)
<1>1. /\ pc(th) = "getInvariants" /\ pc(th) # "idle"
      /\ UNCHANGED <<num_updates, watch, threadVars, histVars, nest, frames, done>>
      /\ UNCHANGED <<inbox, tsoLock, why_blocked, heaps, since, torn, committed>>
      /\ \/ /\ j > Len(es) /\ Validate(th, "commit", 1) /\ current_value' = current_value
         \/ /\ j <= Len(es) /\ current_value[es[j].tvar] \in Val
            /\ current_value' = [current_value EXCEPT ![es[j].tvar] = th]
            /\ GotoSaw(th, "getInvUnlock", j, current_value[es[j].tvar])
  BY DEF GetInvLock, GotoSaw, threadVars, histVars
<1>2. /\ es \in Seq(EntryType) /\ loc[th].i \in Nat \ {0}
      /\ \A m \in DOMAIN es : es[m].tvar \in TVar
  BY <1>1, WorkFacts, LocFacts
<1>3. Finds(es, loc[th].i, j, {m \in DOMAIN es : entry_is_update(es[m])})
  <2> HIDE DEF es
  <2> QED
    BY <1>2, SeekUpdate
<1> HIDE DEF j
<1>4. CASE Validate(th, "commit", 1) /\ current_value' = current_value
  <2>1. 1 \in DOMAIN nest[th]
    BY <1>1, ThreadFacts
  <2>2. UNCHANGED <<tvarVars, threadVars, histVars, done>> /\ nest' = nest /\ frames' = frames
    BY <1>1, <1>4 DEF tvarVars
  <2>3. Sound(th) /\ QuietStep(th)
    BY <1>1, <1>4, <2>1, <2>2, ValidateStep
  <2> QED
    BY <1>1, <2>3
<1>5. CASE /\ j <= Len(es) /\ current_value[es[j].tvar] \in Val
           /\ current_value' = [current_value EXCEPT ![es[j].tvar] = th]
           /\ GotoSaw(th, "getInvUnlock", j, current_value[es[j].tvar])
  <2>1. j \in DOMAIN es /\ entry_is_update(es[j]) /\ j \in Nat \ {0} /\ es[j].tvar \in TVar
    <3>1. j \in DOMAIN es /\ j \in {m \in DOMAIN es : entry_is_update(es[m])} /\ j \in 1..(Len(es) + 1)
      BY <1>3, <1>5 DEF Finds
    <3> QED
      BY <1>2, <3>1
  <2>2. Moved(th, "getInvUnlock", op(th), loc[th].lvl, j, current_value[es[j].tvar], loc[th].ok)
    <3>1. "getInvUnlock" \in PC
      BY DEF PC
    <3> QED
      BY <1>5, <2>1, <3>1, MoveSaw
  <2>3. /\ Works(th) /\ loc'[th].pc = "getInvUnlock" /\ loc'[th].i = j
        /\ loc'[th].saw = current_value[es[j].tvar]
    BY <1>1, <2>2 DEF Moved, Works
  <2>4. op(th) = "none" /\ loc[th].lvl = 1
    BY <1>1 DEF PlaceInv, OpInv
  <2>5. OpInv(th)'
    BY <2>3, <2>4 DEF OpInv, pc, op, Committing, Works
  <2>6. SharedType
    BY <1>1, <1>5, <2>1, StoreType
  <2>7. Sound(th) /\ Entries(th)' = Entries(th) /\ Reads(th)
    <3>1. UNCHANGED <<nest, frames, done, why_blocked, since, torn>>
      BY <1>1
    <3>2. pc(th) \notin {"revert", "blocked", "throwMasked", "unwatch", "unwatchUnlock"}
      BY <1>1
    <3> QED
      BY <2>3, <2>5, <2>6, <3>1, <3>2, AwakeWork
  <2>8. GetsInv(th, j)
    BY <1>1, <1>5, <2>1, <2>3, <2>7 DEF GetsInv
  <2> QED
    BY <1>1, <2>7, <2>8
<1> QED
  BY <1>1, <1>4, <1>5

(* th goes to p and entry j, and to no other record. *)
Goes(th, p, j) ==
    /\ Works(th) /\ Sound(th) /\ loc'[th].pc = p /\ loc'[th].i = j
    /\ Entries(th)' = Entries(th) /\ nest' = nest /\ Reads(th) /\ since' = since

(* Nothing that threads share changes. *)
Looks == UNCHANGED <<current_value, num_updates, heaps, committed>>

LEMMA GoStep ==
    ASSUME TypeInv, PlaceInv, scenario' = scenario, NEW th \in Thread, NEW p, NEW j,
           Works(th), loc'[th].pc = p, loc'[th].i = j, OpInv(th)', BlockedInv(th)',
           nest' = nest, frames' = frames, done' = done, since' = since, SharedType, OwnType(th)
    PROVE  Goes(th, p, j)
  BY WorkStep DEF Goes

LEMMA AwakeGo ==
    ASSUME TypeInv, PlaceInv, scenario' = scenario, NEW th \in Thread, NEW p, NEW j,
           Works(th), loc'[th].pc = p, loc'[th].i = j, OpInv(th)',
           pc(th) \notin {"revert", "blocked", "throwMasked", "unwatch", "unwatchUnlock"},
           UNCHANGED <<nest, frames, done, why_blocked, since, torn>>, SharedType
    PROVE  Goes(th, p, j)
  BY AwakeWork DEF Goes

LEMMA GetInvUnlockStep ==
    ASSUME TypeInv, PlaceInv, scenario' = scenario, NEW th \in Thread, GetInvUnlock(th), EntryInv(th)
    PROVE  /\ pc(th) = "getInvUnlock" /\ loc[th].i \in DOMAIN Entries(th)
           /\ Goes(th, "getInvariants", loc[th].i + 1)
           /\ current_value' = [current_value EXCEPT ![Entries(th)[loc[th].i].tvar] = loc[th].saw]
           /\ UNCHANGED <<num_updates, heaps, torn, committed>>
<1>1. /\ pc(th) = "getInvUnlock" /\ pc(th) # "idle"
      /\ current_value' = [current_value EXCEPT ![Entries(th)[loc[th].i].tvar] = loc[th].saw]
      /\ GotoSaw(th, "getInvariants", loc[th].i + 1, InitVal)
      /\ UNCHANGED <<num_updates, watch, nest, frames, done>>
      /\ UNCHANGED <<inbox, tsoLock, why_blocked, heaps, since, torn, committed>>
  BY DEF GetInvUnlock, GotoSaw, threadVars, histVars, Cur
<1>2. loc[th].i \in DOMAIN Entries(th) /\ Entries(th)[loc[th].i].tvar \in TVar
      /\ loc[th].saw \in Val /\ loc[th].i + 1 \in Nat \ {0}
  BY <1>1, WorkFacts, LocFacts DEF EntryInv, AtEnd
<1>3. Moved(th, "getInvariants", op(th), loc[th].lvl, loc[th].i + 1, InitVal, loc[th].ok)
  <2>1. "getInvariants" \in PC /\ InitVal \in Val
    BY ValFacts DEF PC
  <2> QED
    BY <1>1, <1>2, <2>1, MoveSaw
<1>4. Works(th) /\ loc'[th].pc = "getInvariants" /\ loc'[th].i = loc[th].i + 1
  BY <1>1, <1>3 DEF Moved, Works
<1>5. op(th) = "none" /\ loc[th].lvl = 1
  BY <1>1 DEF PlaceInv, OpInv
<1>6. OpInv(th)'
  BY <1>4, <1>5 DEF OpInv, pc, op, Committing, Works
<1>7. SharedType
  BY <1>1, <1>2, StoreType
<1>8. Goes(th, "getInvariants", loc[th].i + 1)
  <2>1. UNCHANGED <<nest, frames, done, why_blocked, since, torn>>
    BY <1>1
  <2>2. pc(th) \notin {"revert", "blocked", "throwMasked", "unwatch", "unwatchUnlock"}
    BY <1>1
  <2> QED
    BY <1>4, <1>6, <1>7, <2>1, <2>2, AwakeGo
<1> QED
  BY <1>1, <1>2, <1>8

(* validate_and_acquire_ownership finds an entry out of date. *)
GivesUp(th) == Goes(th, "revert", 1) /\ Looks /\ ~loc'[th].ok

LEMMA InvalidStep ==
    ASSUME TypeInv, PlaceInv, scenario' = scenario, NEW th \in Thread, Invalid(th), Looks,
           pc(th) \in {"validate", "recheck", "checkReads"},
           UNCHANGED <<watch, inbox, tsoLock, nest, frames, done, why_blocked, since>>,
           torn' \in [Thread -> SUBSET TVar], \A u \in Thread \ {th} : torn'[u] = torn[u]
    PROVE  GivesUp(th)
<1>1. Moved(th, "revert", op(th), loc[th].lvl, 1, loc[th].saw, FALSE)
  BY MoveInvalid
<1>2. Works(th) /\ loc'[th].pc = "revert" /\ loc'[th].i = 1 /\ ~loc'[th].ok
  BY <1>1 DEF Moved, Works
<1>3. op(th) \in {"commit", "commitNested", "wait", "rewait", "validate", "throw"}
  BY DEF PlaceInv, OpInv
<1>4. OpInv(th)'
  BY <1>2, <1>3 DEF OpInv, pc, op, Committing, Works
<1>5. SharedType
  BY SharedSame DEF Looks
<1>6. why_blocked[th] # "BlockedOnSTM"
  BY NotBlocked
<1>7. BlockedInv(th)'
  BY <1>6 DEF BlockedInv
<1>8. OwnType(th)
  BY DEF OwnType, TypeInv
<1>9. Goes(th, "revert", 1)
  BY <1>2, <1>4, <1>5, <1>7, <1>8, GoStep
<1> QED
  BY <1>2, <1>9 DEF GivesUp

(* A move within validate_and_acquire_ownership. *)
LEMMA ValidatingStep ==
    ASSUME TypeInv, PlaceInv, scenario' = scenario, NEW th \in Thread,
           NEW p, NEW j, Works(th), loc'[th].pc = p, loc'[th].i = j, loc'[th].ok = loc[th].ok,
           pc(th) \in {"validate", "recheck"},
           p = "validate" \/ (p \in {"readVersion", "checkReads"} /\ ~acquire_all(th)), SharedType,
           UNCHANGED <<nest, frames, done, why_blocked, since>>,
           torn' \in [Thread -> SUBSET TVar], \A u \in Thread \ {th} : torn'[u] = torn[u]
    PROVE  Goes(th, p, j)
<1>1. /\ op(th) \in {"commit", "commitNested", "wait", "rewait", "validate", "throw"}
      /\ op(th) \in {"wait", "rewait"} => loc[th].ok
  BY DEF PlaceInv, OpInv
<1>2. p \in {"readVersion", "checkReads"} => op(th) \in {"commit", "commitNested"}
  BY DEF acquire_all
<1>3. OpInv(th)'
  BY <1>1, <1>2 DEF OpInv, pc, op, Committing, Works
<1>6. why_blocked[th] # "BlockedOnSTM"
  BY NotBlocked
<1>7. BlockedInv(th)'
  BY <1>6 DEF BlockedInv
<1>8. OwnType(th)
  BY DEF OwnType, TypeInv
<1> QED
  BY <1>3, <1>7, <1>8, GoStep

(* One entry of validate_and_acquire_ownership: it is out of date, gets    *)
(* locked, or is looked at once more.                                      *)
ValidatesEntry(th) ==
    LET i == loc[th].i
        e == Entries(th)[i]
    IN  \/ GivesUp(th)
        \/ /\ Goes(th, "validate", i + 1) /\ Locks(th, e)
           /\ current_value[e.tvar] = e.expected
           /\ current_value' = [current_value EXCEPT ![e.tvar] = th]
           /\ UNCHANGED <<num_updates, heaps, torn, committed>>
        \/ /\ Goes(th, "readVersion", i) /\ ~Locks(th, e)
           /\ current_value[e.tvar] = e.expected
           /\ Looks /\ UNCHANGED torn

LEMMA ValidateEntryStep ==
    ASSUME TypeInv, PlaceInv, scenario' = scenario, NEW th \in Thread, ValidateEntry(th)
    PROVE  /\ pc(th) = "validate" /\ loc[th].i \in DOMAIN Entries(th)
           /\ ValidatesEntry(th)
<1> DEFINE i == loc[th].i
           e == Entries(th)[i]
<1>1. /\ pc(th) = "validate" /\ pc(th) # "idle" /\ ~AtEnd(th)
      /\ \/ Invalid(th) /\ UNCHANGED current_value
         \/ /\ current_value[e.tvar] = e.expected /\ Locks(th, e)
            /\ current_value' = [current_value EXCEPT ![e.tvar] = th]
            /\ GotoEntry(th, "validate", i + 1)
         \/ /\ current_value[e.tvar] = e.expected /\ ~Locks(th, e) /\ ~acquire_all(th)
            /\ Goto(th, "readVersion") /\ UNCHANGED current_value
      /\ UNCHANGED <<num_updates, watch, nest, frames, done>>
      /\ UNCHANGED <<inbox, tsoLock, why_blocked, heaps, since, torn, committed>>
  BY DEF ValidateEntry, threadVars, histVars, Cur, Locks, entry_is_update, entry_is_read_only
<1>2. i \in DOMAIN Entries(th) /\ e.tvar \in TVar /\ i \in Nat \ {0} /\ i + 1 \in Nat \ {0}
  BY <1>1, WorkFacts, LocFacts
<1>3. torn' \in [Thread -> SUBSET TVar] /\ \A u \in Thread \ {th} : torn'[u] = torn[u]
  BY <1>1 DEF TypeInv
<1>4. CASE Invalid(th) /\ UNCHANGED current_value
  <2>1. Looks /\ UNCHANGED <<watch, inbox, tsoLock, nest, frames, done, why_blocked, since>>
    BY <1>1, <1>4 DEF Looks
  <2>2. GivesUp(th)
    BY <1>1, <1>3, <1>4, <2>1, InvalidStep
  <2> QED
    BY <1>1, <1>2, <2>2 DEF ValidatesEntry
<1>5. CASE /\ current_value[e.tvar] = e.expected /\ Locks(th, e)
           /\ current_value' = [current_value EXCEPT ![e.tvar] = th]
           /\ GotoEntry(th, "validate", i + 1)
  <2> HIDE DEF i, e
  <2>1. Moved(th, "validate", op(th), loc[th].lvl, i + 1, loc[th].saw, loc[th].ok)
    <3>1. "validate" \in PC
      BY DEF PC
    <3> QED
      BY <1>2, <1>5, <3>1, MoveEntry
  <2>2. Works(th) /\ loc'[th].pc = "validate" /\ loc'[th].i = i + 1 /\ loc'[th].ok = loc[th].ok
    BY <1>1, <2>1 DEF Moved, Works
  <2>3. SharedType
    BY <1>1, <1>2, <1>5, StoreType
  <2>4. UNCHANGED <<nest, frames, done, why_blocked, since>> /\ pc(th) \in {"validate", "recheck"}
    BY <1>1
  <2>5. Goes(th, "validate", i + 1)
    BY <1>3, <2>2, <2>3, <2>4, ValidatingStep
  <2> QED
    BY <1>1, <1>2, <1>5, <2>5 DEF ValidatesEntry, i, e
<1>6. CASE /\ current_value[e.tvar] = e.expected /\ ~Locks(th, e) /\ ~acquire_all(th)
           /\ Goto(th, "readVersion") /\ UNCHANGED current_value
  <2>0. pc(th) = "validate"
    BY <1>1
  <2>1. Moved(th, "readVersion", op(th), loc[th].lvl, i, loc[th].saw, loc[th].ok)
    <3>1. "readVersion" \in PC
      BY DEF PC
    <3> QED
      BY <1>6, <3>1, MoveGoto
  <2>2. Works(th) /\ loc'[th].pc = "readVersion" /\ loc'[th].i = i /\ loc'[th].ok = loc[th].ok
    BY <1>1, <2>1 DEF Moved, Works
  <2>3. SharedType /\ Looks
    BY <1>1, <1>6, SharedSame DEF Looks
  <2>4. UNCHANGED <<nest, frames, done, why_blocked, since>> /\ pc(th) \in {"validate", "recheck"}
        /\ "readVersion" \in {"readVersion", "checkReads"}
    BY <1>1
  <2>5. Goes(th, "readVersion", i)
    BY <1>3, <1>6, <2>2, <2>3, <2>4, ValidatingStep
  <2> QED
    BY <1>1, <1>2, <1>6, <2>3, <2>5 DEF ValidatesEntry
<1> QED
  BY <1>1, <1>4, <1>5, <1>6

LEMMA RecheckStep ==
    ASSUME TypeInv, PlaceInv, scenario' = scenario, NEW th \in Thread, Recheck(th)
    PROVE  /\ pc(th) = "recheck" /\ torn' = torn
           /\ \/ GivesUp(th)
              \/ /\ Goes(th, "validate", loc[th].i + 1) /\ Looks
                 /\ current_value[Cur(th).tvar] = Cur(th).expected
<1>1. /\ pc(th) = "recheck" /\ pc(th) # "idle"
      /\ \/ Invalid(th)
         \/ /\ current_value[Cur(th).tvar] = Cur(th).expected
            /\ GotoEntry(th, "validate", loc[th].i + 1)
      /\ UNCHANGED <<watch, nest, frames, done>> /\ Looks
      /\ UNCHANGED <<inbox, tsoLock, why_blocked, since, torn>>
  BY DEF Recheck, tvarVars, threadVars, histVars, Looks
<1>3. torn' \in [Thread -> SUBSET TVar] /\ \A u \in Thread \ {th} : torn'[u] = torn[u]
  BY <1>1 DEF TypeInv
<1>4. CASE Invalid(th)
  <2>2. GivesUp(th)
    BY <1>1, <1>3, <1>4, InvalidStep
  <2> QED
    BY <1>1, <2>2
<1>5. CASE /\ current_value[Cur(th).tvar] = Cur(th).expected
           /\ GotoEntry(th, "validate", loc[th].i + 1)
  <2>1. Moved(th, "validate", op(th), loc[th].lvl, loc[th].i + 1, loc[th].saw, loc[th].ok)
    <3>1. "validate" \in PC /\ loc[th].i + 1 \in Nat \ {0}
      BY LocFacts DEF PC
    <3> QED
      BY <1>5, <3>1, MoveEntry
  <2>2. Works(th) /\ loc'[th].pc = "validate" /\ loc'[th].i = loc[th].i + 1 /\ loc'[th].ok = loc[th].ok
    BY <1>1, <2>1 DEF Moved, Works
  <2>3. SharedType
    BY <1>1, SharedSame DEF Looks
  <2>4. UNCHANGED <<nest, frames, done, why_blocked, since>> /\ pc(th) \in {"validate", "recheck"}
    BY <1>1
  <2>5. Goes(th, "validate", loc[th].i + 1)
    BY <1>3, <2>2, <2>3, <2>4, ValidatingStep
  <2> QED
    BY <1>1, <1>5, <2>5
<1> QED
  BY <1>1, <1>4, <1>5

LEMMA ValidateCondemnedStep ==
    ASSUME TypeInv, PlaceInv, scenario' = scenario, NEW th \in Thread, ValidateCondemned(th)
    PROVE  pc(th) = "validate" /\ torn' = torn /\ GivesUp(th)
<1>1. /\ pc(th) = "validate" /\ Invalid(th)
      /\ UNCHANGED <<watch, nest, frames, done>> /\ Looks
      /\ UNCHANGED <<inbox, tsoLock, why_blocked, since, torn>>
  BY DEF ValidateCondemned, tvarVars, threadVars, histVars, Looks
<1>2. torn' \in [Thread -> SUBSET TVar] /\ \A u \in Thread \ {th} : torn'[u] = torn[u]
  BY <1>1 DEF TypeInv
<1> QED
  BY <1>1, <1>2, InvalidStep

LEMMA CheckReadOnlyStep ==
    ASSUME TypeInv, PlaceInv, scenario' = scenario, NEW th \in Thread, CheckReadOnly(th)
    PROVE  /\ pc(th) = "checkReads"
           /\ \/ GivesUp(th)
              \/ \E j \in DOMAIN Entries(th) :
                   /\ Goes(th, "checkReads", j + 1) /\ Looks /\ UNCHANGED torn
                   /\ \A m \in DOMAIN Entries(th) :
                        loc[th].i <= m /\ m <= j /\ entry_is_read_only(Entries(th)[m]) => m = j
                   /\ num_updates[Entries(th)[j].tvar] = Entries(th)[j].num
<1> DEFINE es == Entries(th)
           j == Seek(es, loc[th].i, entry_is_read_only)
<1>1. /\ pc(th) = "checkReads" /\ pc(th) # "idle" /\ j <= Len(es)
      /\ \/ num_updates[es[j].tvar] = es[j].num /\ GotoEntry(th, "checkReads", j + 1) /\ UNCHANGED torn
         \/ Invalid(th) /\ torn' = [torn EXCEPT ![th] = {}]
      /\ UNCHANGED <<watch, nest, frames, done>> /\ Looks
      /\ UNCHANGED <<inbox, tsoLock, why_blocked, since>>
  BY DEF CheckReadOnly, tvarVars, threadVars, Looks
<1>2. es \in Seq(EntryType) /\ loc[th].i \in Nat \ {0} /\ DOMAIN es = 1..Len(es) /\ Len(es) \in Nat
  BY <1>1, WorkFacts, LocFacts
<1>3. Finds(es, loc[th].i, j, {m \in DOMAIN es : entry_is_read_only(es[m])})
  <2> HIDE DEF es
  <2> QED
    BY <1>2, SeekReadOnly
<1> HIDE DEF j
<1>4. j \in DOMAIN es /\ j + 1 \in Nat \ {0} /\ \A m \in DOMAIN es : loc[th].i <= m /\ m <= j /\ entry_is_read_only(es[m]) => m = j
  <2> HIDE DEF es
  <2> QED
    BY <1>1, <1>2, <1>3 DEF Finds
<1>5. CASE Invalid(th) /\ torn' = [torn EXCEPT ![th] = {}]
  <2>1. torn' \in [Thread -> SUBSET TVar] /\ \A u \in Thread \ {th} : torn'[u] = torn[u]
    BY <1>5 DEF TypeInv
  <2>2. GivesUp(th)
    BY <1>1, <1>5, <2>1, InvalidStep
  <2> QED
    BY <1>1, <2>2
<1>6. CASE num_updates[es[j].tvar] = es[j].num /\ GotoEntry(th, "checkReads", j + 1) /\ UNCHANGED torn
  <2>1. Moved(th, "checkReads", op(th), loc[th].lvl, j + 1, loc[th].saw, loc[th].ok)
    <3>1. "checkReads" \in PC
      BY DEF PC
    <3> QED
      BY <1>4, <1>6, <3>1, MoveEntry
  <2>2. Works(th) /\ loc'[th].pc = "checkReads" /\ loc'[th].i = j + 1
    BY <1>1, <2>1 DEF Moved, Works
  <2>3. SharedType
    BY <1>1, SharedSame DEF Looks
  <2>4. op(th) \in {"commit", "commitNested"}
    BY <1>1 DEF PlaceInv, OpInv
  <2>5. OpInv(th)'
    BY <2>2, <2>4 DEF OpInv, pc, op, Committing, Works
  <2>6. UNCHANGED <<nest, frames, done, why_blocked, since, torn>>
        /\ pc(th) \notin {"revert", "blocked", "throwMasked", "unwatch", "unwatchUnlock"}
    BY <1>1, <1>6
  <2>7. Goes(th, "checkReads", j + 1)
    BY <2>2, <2>3, <2>5, <2>6, AwakeGo
  <2> QED
    BY <1>1, <1>4, <1>6, <2>7
<1> QED
  BY <1>1, <1>5, <1>6

(* Entries that differ in the versions at most. *)
SameBut(es, fs) ==
    /\ DOMAIN fs = DOMAIN es /\ Len(fs) = Len(es)
    /\ \A m \in DOMAIN es : /\ fs[m].tvar = es[m].tvar /\ fs[m].expected = es[m].expected
                            /\ fs[m].new = es[m].new

(* th notes the version v of its entry i. *)
NotesVersion(th, i, v) ==
    /\ Works(th) /\ Sound(th) /\ loc'[th].pc = "recheck" /\ loc'[th].i = i
    /\ SameBut(Entries(th), Entries(th)')
    /\ \A m \in DOMAIN Entries(th) : m # i => Entries(th)'[m].num = Entries(th)[m].num
    /\ Entries(th)'[i].num = v
    /\ Reads(th) /\ since' = since

LEMMA ReadVersionStep ==
    ASSUME TypeInv, PlaceInv, scenario' = scenario, NEW th \in Thread, ReadVersion(th), EntryInv(th)
    PROVE  /\ pc(th) = "readVersion" /\ loc[th].i \in DOMAIN Entries(th)
           /\ NotesVersion(th, loc[th].i, num_updates[Cur(th).tvar]) /\ Looks /\ UNCHANGED torn
<1> DEFINE n == nest[th]
           L == loc[th].lvl
           tr == n[L]
           j == loc[th].i
           v == num_updates[Cur(th).tvar]
           e == [tr.entries[j] EXCEPT !.num = v]
           es == [tr.entries EXCEPT ![j] = e]
           r == [tr EXCEPT !.entries = es]
           m == [n EXCEPT ![L] = r]
<1>1. /\ pc(th) = "readVersion" /\ pc(th) # "idle" /\ nest' = [nest EXCEPT ![th] = m]
      /\ Goto(th, "recheck") /\ Looks
      /\ UNCHANGED <<watch, inbox, tsoLock, why_blocked, since, torn, frames, done>>
  BY DEF ReadVersion, tvarVars, threadVars, histVars, Looks
<1>2. /\ n \in Seq(TRecType) /\ L \in DOMAIN n /\ tr \in TRecType /\ tr = TRec(th)
      /\ j \in DOMAIN tr.entries /\ tr.entries[j] \in EntryType /\ tr.entries[j] = Cur(th)
      /\ tr.entries[j].tvar \in TVar /\ Entries(th) = tr.entries
  <2>1. n \in Seq(TRecType) /\ L \in DOMAIN n /\ tr \in TRecType
    BY <1>1, ThreadFacts DEF TRec
  <2>2. j \in DOMAIN Entries(th) /\ Entries(th)[j] \in EntryType /\ Entries(th)[j].tvar \in TVar
    <3>1. loc[th].i \in DOMAIN Entries(th) /\ pc(th) # "idle"
      <4>1. loc[th].i <= Len(Entries(th))
        BY <1>1 DEF EntryInv
      <4>2. DOMAIN Entries(th) = 1..Len(Entries(th)) /\ Len(Entries(th)) \in Nat /\ loc[th].i \in Nat \ {0}
        BY <1>1, WorkFacts, LocFacts
      <4>3. loc[th].i \in DOMAIN Entries(th)
        BY <4>1, <4>2
      <4> QED
        BY <1>1, <4>3
    <3> QED
      BY <3>1, WorkFacts
  <2> QED
    BY <2>1, <2>2 DEF TRec, Entries, Cur
<1>3. v \in Nat
  BY <1>2 DEF TypeInv
<1> HIDE DEF v
<1>4. e \in EntryType /\ e.tvar = tr.entries[j].tvar /\ e.expected = tr.entries[j].expected
      /\ e.new = tr.entries[j].new /\ e.num = v
  BY <1>2, <1>3 DEF EntryType
<1>5. tr \in [state : TRecState, entries : Seq(EntryType)]
  BY <1>2 DEF TRecType
<1>6. es \in Seq(EntryType) /\ Len(es) = Len(tr.entries) /\ DOMAIN es = DOMAIN tr.entries /\ es[j] = e
      /\ \A k \in DOMAIN tr.entries : k # j => es[k] = tr.entries[k]
  BY <1>2, <1>4, <1>5
<1>7. r \in [state : TRecState, entries : Seq(EntryType)] /\ r.entries = es
  BY <1>5, <1>6
<1>8. /\ r \in TRecType /\ \A y : Has(r, y) <=> Has(tr, y)
      /\ \A k \in DOMAIN r.entries : From(r.entries[k], tr.entries)
  <2> HIDE DEF e, r, j, tr
  <2> QED
    BY <1>2, <1>4, <1>7, UpdateEntry
<1>9. m \in Seq(TRecType) /\ Len(m) = Len(n) /\ Kept(n, m) /\ m[L] = r
  <2>1. /\ n \in Seq(TRecType) /\ L \in DOMAIN n /\ r \in TRecType
        /\ \A k \in DOMAIN r.entries : From(r.entries[k], n[L].entries)
        /\ \A y \in TVar : Has(n[L], y) => Has(r, y)
    BY <1>2, <1>8
  <2> HIDE DEF n, L, r
  <2> QED
    BY <2>1, NestReplaceKept
<1>10. Nested(th, m)
  <2> HIDE DEF m
  <2> QED
    BY <1>1, <1>9, SetNest
<1>11. Moved(th, "recheck", op(th), loc[th].lvl, j, loc[th].saw, loc[th].ok)
  <2>1. "recheck" \in PC
    BY DEF PC
  <2> QED
    BY <1>1, <2>1, MoveGoto
<1>12. Works(th) /\ loc'[th].pc = "recheck" /\ loc'[th].i = j /\ loc'[th].lvl = L /\ loc'[th].op = op(th)
  BY <1>1, <1>11 DEF Moved, Works
<1>13. Entries(th)' = es
  <2>1. nest'[th] = m
    BY <1>10 DEF Nested
  <2> QED
    BY <1>7, <1>9, <1>12, <2>1 DEF Entries, TRec
<1>14. SameBut(Entries(th), Entries(th)')
  <2> HIDE DEF es, e, tr
  <2> QED
    BY <1>2, <1>4, <1>6, <1>13 DEF SameBut
<1>15. Sound(th)
  <2>1. Steps(th)
    <3> HIDE DEF m
    <3> QED
      BY <1>1, <1>10, <1>12 DEF Steps, Works, Nested, TypeInv
  <2>2. SharedType /\ OwnType(th)
    BY <1>1, SharedSame, OwnSame DEF Looks
  <2>3. op(th) \in {"commit", "commitNested"}
    BY <1>1 DEF PlaceInv, OpInv
  <2>4. OpInv(th)'
    BY <1>12, <2>3 DEF OpInv, pc, op, Committing
  <2>5. why_blocked[th] # "BlockedOnSTM"
    BY <1>1, NotBlocked
  <2>6. BlockedInv(th)'
    BY <1>1, <2>5 DEF BlockedInv
  <2>7. Len(nest'[th]) = Len(n) /\ frames'[th] = frames[th] /\ done' = done
    BY <1>1, <1>9, <1>10 DEF Nested
  <2>8. /\ Len(frames[th]) < Len(n) /\ loc[th].lvl <= Len(n) /\ done[th] < Len(Writes[th])
        /\ op(th) = "commitNested" => loc[th].lvl = Len(n) /\ loc[th].lvl > 1 /\ frames[th] # <<>>
    BY <1>1 DEF PlaceInv, NestInv
  <2>9. NestInv(th)'
    <3>1. /\ Len(frames'[th]) < Len(nest'[th]) /\ loc'[th].lvl <= Len(nest'[th]) /\ loc'[th].pc # "idle"
          /\ loc'[th].op = "commitNested" =>
               loc'[th].lvl = Len(nest'[th]) /\ loc'[th].lvl > 1 /\ frames'[th] # <<>>
      BY <1>12, <2>7, <2>8
    <3> QED
      BY <2>7, <2>8, <3>1, NestStep
  <2> QED
    BY <2>1, <2>2, <2>4, <2>6, <2>9, SoundStep
<1>16. Reads(th)
  <2> HIDE DEF m, n
  <2>1. Kept(nest[th], m)
    BY <1>9 DEF n
  <2> QED
    BY <1>10, <2>1, KeptReads
<1>17. /\ \A k \in DOMAIN Entries(th) : k # j => Entries(th)'[k].num = Entries(th)[k].num
       /\ Entries(th)'[j].num = v
  <2> HIDE DEF es, e, tr
  <2> QED
    BY <1>2, <1>4, <1>6, <1>13
<1>18. NotesVersion(th, j, v)
  <2> HIDE DEF j
  <2> QED
    BY <1>1, <1>12, <1>14, <1>15, <1>16, <1>17 DEF NotesVersion
<1> QED
  BY <1>1, <1>2, <1>18 DEF v

LEMMA CurFacts ==
    ASSUME TypeInv, PlaceInv, NEW th \in Thread, EntryInv(th),
           pc(th) \in {"getInvUnlock", "unwatchUnlock", "readVersion", "recheck",
                       "unpark", "unparkLock", "bump", "store"}
    PROVE  /\ loc[th].i \in DOMAIN Entries(th) /\ Cur(th) = Entries(th)[loc[th].i]
           /\ Cur(th).tvar \in TVar /\ Cur(th).expected \in Val /\ Cur(th).new \in Val
           /\ loc[th].i \in Nat \ {0} /\ loc[th].i + 1 \in Nat \ {0} /\ pc(th) # "idle"
<1>1. loc[th].i <= Len(Entries(th)) /\ pc(th) # "idle"
  BY DEF EntryInv
<1>2. loc[th].i \in DOMAIN Entries(th) /\ loc[th].i \in Nat \ {0}
  BY <1>1, WorkFacts, LocFacts DEF AtEnd
<1>3. Cur(th) = Entries(th)[loc[th].i]
  BY DEF Cur
<1> QED
  BY <1>1, <1>2, <1>3, WorkFacts

(* The end of the update loop, or the next TVar to update. *)
LEMMA UpdateStep ==
    ASSUME TypeInv, PlaceInv, scenario' = scenario, NEW th \in Thread, Update(th)
    PROVE  /\ pc(th) = "update"
           /\ \/ /\ Sound(th) /\ QuietStep(th)
                 /\ \A m \in DOMAIN Entries(th) : loc[th].i <= m => ~entry_is_update(Entries(th)[m])
              \/ \E j \in DOMAIN Entries(th) :
                   /\ Goes(th, "unpark", j) /\ Looks /\ UNCHANGED torn
                   /\ entry_is_update(Entries(th)[j]) /\ loc[th].i <= j
                   /\ \A m \in DOMAIN Entries(th) :
                        loc[th].i <= m /\ entry_is_update(Entries(th)[m]) => j <= m
<1> DEFINE es == Entries(th)
           j == Seek(es, loc[th].i, entry_is_update)
           q == Len(watch[es[j].tvar])
<1>1. /\ pc(th) = "update" /\ pc(th) # "idle"
      /\ UNCHANGED <<tvarVars, threadVars, histVars>>
      /\ UNCHANGED <<current_value, num_updates, watch, inbox, tsoLock, why_blocked>>
      /\ UNCHANGED <<heaps, since, torn, committed>>
      /\ \/ j > Len(es) /\ Leave(th)
         \/ /\ j <= Len(es) /\ GotoWatcher(th, "unpark", j, q)
            /\ UNCHANGED <<nest, frames, done>>
  BY DEF Update, GotoWatcher, tvarVars, threadVars, histVars
<1>2. es \in Seq(EntryType) /\ loc[th].i \in Nat \ {0} /\ DOMAIN es = 1..Len(es) /\ Len(es) \in Nat
      /\ \A m \in DOMAIN es : es[m].tvar \in TVar
  BY <1>1, WorkFacts, LocFacts
<1>3. Finds(es, loc[th].i, j, {m \in DOMAIN es : entry_is_update(es[m])})
  <2> HIDE DEF es
  <2> QED
    BY <1>2, SeekUpdate
<1> HIDE DEF j
<1>4. /\ j <= Len(es) => /\ j \in DOMAIN es /\ entry_is_update(es[j]) /\ j \in Nat \ {0} /\ loc[th].i <= j
      /\ \A m \in DOMAIN es : loc[th].i <= m /\ entry_is_update(es[m]) => j <= m
  <2> HIDE DEF es
  <2> QED
    BY <1>2, <1>3 DEF Finds
<1>5. CASE j > Len(es) /\ Leave(th)
  <2>1. /\ tsoLock' \in [Thread -> BOOLEAN] /\ why_blocked' \in [Thread -> {"NotBlocked", "BlockedOnSTM"}]
        /\ \A u \in Thread \ {th} : why_blocked'[u] = why_blocked[u]
        /\ why_blocked'[th] # "BlockedOnSTM"
    BY <1>1, NotBlocked DEF TypeInv
  <2>2. Sound(th) /\ QuietStep(th)
    BY <1>1, <1>5, <2>1, LeaveStep
  <2>3. \A m \in DOMAIN es : loc[th].i <= m => ~entry_is_update(es[m])
    <3> HIDE DEF es
    <3>1. j \in Nat
      BY <1>2, <1>3 DEF Finds
    <3> QED
      BY <1>2, <1>4, <1>5, <3>1
  <2> QED
    BY <1>1, <2>2, <2>3
<1>6. CASE /\ j <= Len(es) /\ GotoWatcher(th, "unpark", j, q)
           /\ UNCHANGED <<nest, frames, done>>
  <2>0. q \in Nat
    <3>1. watch[es[j].tvar] \in Seq(Thread)
      BY <1>2, <1>4, <1>6 DEF TypeInv
    <3> QED
      BY <3>1
  <2> HIDE DEF q
  <2>1. Moved(th, "unpark", op(th), loc[th].lvl, j, loc[th].saw, loc[th].ok)
    <3>1. "unpark" \in PC
      BY DEF PC
    <3> QED
      BY <1>4, <1>6, <2>0, <3>1, MoveQueue
  <2>2. Works(th) /\ loc'[th].pc = "unpark" /\ loc'[th].i = j
    BY <1>1, <2>1 DEF Moved, Works
  <2>3. SharedType /\ Looks
    BY <1>1, SharedSame DEF Looks
  <2>4. op(th) = "commit"
    BY <1>1 DEF PlaceInv, OpInv, Committing
  <2>5. OpInv(th)'
    BY <2>2, <2>4 DEF OpInv, pc, op, Committing, Works
  <2>6. UNCHANGED <<nest, frames, done, why_blocked, since, torn>>
        /\ pc(th) \notin {"revert", "blocked", "throwMasked", "unwatch", "unwatchUnlock"}
    BY <1>1, <1>6
  <2>7. Goes(th, "unpark", j)
    BY <2>2, <2>3, <2>5, <2>6, AwakeGo
  <2> QED
    BY <1>1, <1>4, <1>6, <2>3, <2>7
<1> QED
  BY <1>1, <1>5, <1>6

(* unpark_waiters_on touches no TVar. *)
LEMMA UnparkWaiterStep ==
    ASSUME TypeInv, PlaceInv, scenario' = scenario, NEW th \in Thread, UnparkWaiter(th)
    PROVE  /\ pc(th) = "unpark" /\ Looks /\ UNCHANGED torn
           /\ \E p \in {"unpark", "unparkLock", "bump"} : Goes(th, p, loc[th].i)
<1> DEFINE i == loc[th].i
           q == loc[th].k - 1
<1>1. /\ pc(th) = "unpark" /\ pc(th) # "idle" /\ Looks
      /\ UNCHANGED <<watch, inbox, tsoLock, why_blocked, nest, frames, done, since, torn>>
      /\ \/ Goto(th, "bump")
         \/ loc[th].k > 0 /\ Goto(th, "unparkLock")
         \/ loc[th].k > 0 /\ loc' = [loc EXCEPT ![th].k = q]
  BY DEF UnparkWaiter, tvarVars, threadVars, histVars, Looks
<1>2. i \in Nat \ {0} /\ loc[th].k \in Nat /\ op(th) = "commit"
  BY <1>1, LocFacts DEF PlaceInv, OpInv, Committing
<1>3. \E p \in {"unpark", "unparkLock", "bump"} :
        /\ Moved(th, p, op(th), loc[th].lvl, i, loc[th].saw, loc[th].ok)
        /\ p = "unparkLock" => loc'[th].k > 0
  <2>0. "bump" \in PC /\ "unparkLock" \in PC /\ "unpark" \in PC
    BY DEF PC
  <2>1. CASE Goto(th, "bump")
    BY <2>0, <2>1, MoveGoto
  <2>2. CASE loc[th].k > 0 /\ Goto(th, "unparkLock")
    <3>1. loc'[th].k = loc[th].k /\ Moved(th, "unparkLock", op(th), loc[th].lvl, i, loc[th].saw, loc[th].ok)
      BY <2>0, <2>2, MoveGoto
    <3> QED
      BY <2>2, <3>1
  <2>3. CASE loc[th].k > 0 /\ loc' = [loc EXCEPT ![th].k = q]
    <3>1. q \in Nat
      BY <1>2, <2>3
    <3> HIDE DEF q
    <3>2. GotoWatcher(th, "unpark", i, q)
      <4>1. loc[th] = [loc[th] EXCEPT !.pc = "unpark", !.i = i]
        BY <1>1, LocFacts DEF LocType, pc
      <4>2. [loc[th] EXCEPT !.k = q] = [loc[th] EXCEPT !.pc = "unpark", !.i = i, !.k = q]
        BY <1>1, LocFacts DEF LocType, pc
      <4> QED
        BY <2>3, <4>2 DEF GotoWatcher
    <3> QED
      BY <1>2, <2>0, <3>1, <3>2, MoveQueue
  <2> QED
    BY <1>1, <2>1, <2>2, <2>3
<1>4. PICK p \in {"unpark", "unparkLock", "bump"} :
        /\ Moved(th, p, op(th), loc[th].lvl, i, loc[th].saw, loc[th].ok)
        /\ p = "unparkLock" => loc'[th].k > 0
  BY <1>3
<1>5. Works(th) /\ loc'[th].pc = p /\ loc'[th].i = i
  BY <1>1, <1>4 DEF Moved, Works
<1>6. OpInv(th)'
  BY <1>2, <1>4, <1>5 DEF OpInv, pc, op, Committing, Works
<1>7. SharedType
  BY <1>1, SharedSame DEF Looks
<1>8. Goes(th, p, i)
  <2>1. UNCHANGED <<nest, frames, done, why_blocked, since, torn>>
        /\ pc(th) \notin {"revert", "blocked", "throwMasked", "unwatch", "unwatchUnlock"}
    BY <1>1
  <2> QED
    BY <1>5, <1>6, <1>7, <2>1, AwakeGo
<1> QED
  BY <1>1, <1>8

LEMMA UnparkTSOStep ==
    ASSUME TypeInv, PlaceInv, scenario' = scenario, NEW th \in Thread, UnparkTSO(th)
    PROVE  pc(th) = "unparkLock" /\ Looks /\ UNCHANGED torn /\ Goes(th, "unpark", loc[th].i)
<1> DEFINE i == loc[th].i
           q == loc[th].k - 1
<1>1. /\ pc(th) = "unparkLock" /\ pc(th) # "idle" /\ Looks
      /\ UNCHANGED <<watch, tsoLock, why_blocked, nest, frames, done, since, torn>>
      /\ loc' = [loc EXCEPT ![th].pc = "unpark", ![th].k = q]
      /\ inbox' = inbox \/ inbox' = [inbox EXCEPT ![Waiter(th)] = inbox[Waiter(th)] + 1]
  BY DEF UnparkTSO, tvarVars, histVars, Looks
<1>2. i \in Nat \ {0} /\ loc[th].k \in Nat /\ op(th) = "commit" /\ loc[th].k > 0
  BY <1>1, LocFacts DEF PlaceInv, OpInv, Committing
<1>3. q \in Nat
  BY <1>2
<1> HIDE DEF q
<1>4. Moved(th, "unpark", op(th), loc[th].lvl, i, loc[th].saw, loc[th].ok)
  <2>1. GotoWatcher(th, "unpark", i, q)
    <3>1. [loc[th] EXCEPT !.pc = "unpark", !.k = q] = [loc[th] EXCEPT !.pc = "unpark", !.i = i, !.k = q]
      BY LocFacts DEF LocType
    <3> QED
      BY <1>1, <3>1 DEF GotoWatcher
  <2>2. "unpark" \in PC
    BY DEF PC
  <2> QED
    BY <1>2, <1>3, <2>1, <2>2, MoveQueue
<1>5. Works(th) /\ loc'[th].pc = "unpark" /\ loc'[th].i = i
  BY <1>1, <1>4 DEF Moved, Works
<1>6. OpInv(th)'
  BY <1>2, <1>5 DEF OpInv, pc, op, Committing, Works
<1>7. SharedType
  <2>1. inbox' \in [Thread -> Nat]
    <3> DEFINE w == Waiter(th)
    <3>1. inbox \in [Thread -> Nat] /\ (inbox' = inbox \/ inbox' = [inbox EXCEPT ![w] = inbox[w] + 1])
      BY <1>1 DEF TypeInv
    <3> HIDE DEF w
    <3> QED
      BY <3>1
  <2> QED
    BY <1>1, <2>1 DEF SharedType, TypeInv, Looks
<1>8. Goes(th, "unpark", i)
  <2>1. UNCHANGED <<nest, frames, done, why_blocked, since, torn>>
        /\ pc(th) \notin {"revert", "blocked", "throwMasked", "unwatch", "unwatchUnlock"}
    BY <1>1
  <2> QED
    BY <1>5, <1>6, <1>7, <2>1, AwakeGo
<1> QED
  BY <1>1, <1>8

LEMMA BumpVersionStep ==
    ASSUME TypeInv, PlaceInv, scenario' = scenario, NEW th \in Thread, BumpVersion(th), EntryInv(th)
    PROVE  /\ pc(th) = "bump" /\ Goes(th, "store", loc[th].i)
           /\ num_updates' = [num_updates EXCEPT ![Cur(th).tvar] = num_updates[Cur(th).tvar] + 1]
           /\ UNCHANGED <<current_value, heaps, torn, committed>>
<1> DEFINE i == loc[th].i
           x == Cur(th).tvar
<1>1. /\ pc(th) = "bump" /\ Goto(th, "store")
      /\ num_updates' = [num_updates EXCEPT ![x] = num_updates[x] + 1]
      /\ UNCHANGED <<current_value, watch, nest, frames, done>>
      /\ UNCHANGED <<inbox, tsoLock, why_blocked, heaps, since, torn, committed>>
  BY DEF BumpVersion, threadVars, histVars
<1>2. x \in TVar /\ i \in Nat \ {0} /\ pc(th) # "idle"
  BY <1>1, CurFacts
<1>3. Moved(th, "store", op(th), loc[th].lvl, i, loc[th].saw, loc[th].ok)
  <2>1. "store" \in PC
    BY DEF PC
  <2> QED
    BY <1>1, <2>1, MoveGoto
<1>4. Works(th) /\ loc'[th].pc = "store" /\ loc'[th].i = i
  BY <1>1, <1>3 DEF Moved, Works
<1>5. op(th) = "commit"
  BY <1>1 DEF PlaceInv, OpInv, Committing
<1>6. OpInv(th)'
  BY <1>4, <1>5 DEF OpInv, pc, op, Committing, Works
<1>7. SharedType
  <2>1. num_updates' \in [TVar -> Nat]
    <3> HIDE DEF x
    <3> QED
      BY <1>1, <1>2 DEF TypeInv
  <2> QED
    BY <1>1, <2>1 DEF SharedType, TypeInv
<1>8. Goes(th, "store", i)
  <2>1. UNCHANGED <<nest, frames, done, why_blocked, since, torn>>
        /\ pc(th) \notin {"revert", "blocked", "throwMasked", "unwatch", "unwatchUnlock"}
    BY <1>1
  <2> QED
    BY <1>4, <1>6, <1>7, <2>1, AwakeGo
<1> QED
  BY <1>1, <1>8

LEMMA StoreValueStep ==
    ASSUME TypeInv, PlaceInv, scenario' = scenario, NEW th \in Thread, StoreValue(th), EntryInv(th)
    PROVE  /\ pc(th) = "store" /\ Goes(th, "update", loc[th].i + 1)
           /\ current_value' = [current_value EXCEPT ![Cur(th).tvar] = Cur(th).new]
           /\ UNCHANGED <<num_updates, heaps, torn, committed>>
<1> DEFINE i == loc[th].i
           x == Cur(th).tvar
<1>1. /\ pc(th) = "store" /\ GotoEntry(th, "update", i + 1)
      /\ current_value' = [current_value EXCEPT ![x] = Cur(th).new]
      /\ UNCHANGED <<num_updates, watch, nest, frames, done>>
      /\ UNCHANGED <<inbox, tsoLock, why_blocked, heaps, since, torn, committed>>
  BY DEF StoreValue, threadVars, histVars
<1>2. x \in TVar /\ Cur(th).new \in Val /\ i + 1 \in Nat \ {0} /\ pc(th) # "idle"
  BY <1>1, CurFacts
<1>3. Moved(th, "update", op(th), loc[th].lvl, i + 1, loc[th].saw, loc[th].ok)
  <2>1. "update" \in PC
    BY DEF PC
  <2> QED
    BY <1>1, <1>2, <2>1, MoveEntry
<1>4. Works(th) /\ loc'[th].pc = "update" /\ loc'[th].i = i + 1
  BY <1>1, <1>3 DEF Moved, Works
<1>5. op(th) = "commit"
  BY <1>1 DEF PlaceInv, OpInv, Committing
<1>6. OpInv(th)'
  BY <1>4, <1>5 DEF OpInv, pc, op, Committing, Works
<1>7. SharedType
  BY <1>1, <1>2, StoreType
<1>8. Goes(th, "update", i + 1)
  <2>1. UNCHANGED <<nest, frames, done, why_blocked, since, torn>>
        /\ pc(th) \notin {"revert", "blocked", "throwMasked", "unwatch", "unwatchUnlock"}
    BY <1>1
  <2> QED
    BY <1>4, <1>6, <1>7, <2>1, AwakeGo
<1> QED
  BY <1>1, <1>8

LEMMA UnwatchLockStep ==
    ASSUME TypeInv, PlaceInv, scenario' = scenario, NEW th \in Thread, UnwatchLock(th)
    PROVE  /\ pc(th) = "unwatch" /\ Goes(th, "unwatchUnlock", loc[th].i)
           /\ loc[th].i \in DOMAIN Entries(th) /\ current_value[Cur(th).tvar] \in Val
           /\ loc'[th].saw = current_value[Cur(th).tvar]
           /\ current_value' = [current_value EXCEPT ![Cur(th).tvar] = th]
           /\ UNCHANGED <<num_updates, heaps, torn, committed>>
<1> DEFINE i == loc[th].i
           x == Cur(th).tvar
           v == current_value[x]
<1>1. /\ pc(th) = "unwatch" /\ pc(th) # "idle" /\ ~AtEnd(th)
      /\ loc' = [loc EXCEPT ![th].pc = "unwatchUnlock", ![th].saw = v] /\ v \in Val
      /\ current_value' = [current_value EXCEPT ![x] = th]
      /\ UNCHANGED <<num_updates, watch, nest, frames, done>>
      /\ UNCHANGED <<inbox, tsoLock, why_blocked, heaps, since, torn, committed>>
  BY DEF UnwatchLock, threadVars, histVars
<1>2. i \in DOMAIN Entries(th) /\ x \in TVar /\ i \in Nat \ {0}
  BY <1>1, WorkFacts, LocFacts DEF Cur
<1> HIDE DEF v
<1>3. Moved(th, "unwatchUnlock", op(th), loc[th].lvl, i, v, loc[th].ok)
  <2>1. "unwatchUnlock" \in PC
    BY DEF PC
  <2>2. GotoSaw(th, "unwatchUnlock", i, v)
    <3>1. [loc[th] EXCEPT !.pc = "unwatchUnlock", !.saw = v]
            = [loc[th] EXCEPT !.pc = "unwatchUnlock", !.i = i, !.saw = v]
      BY LocFacts DEF LocType
    <3> QED
      BY <1>1, <3>1 DEF GotoSaw
  <2> QED
    BY <1>1, <1>2, <2>1, <2>2, MoveSaw
<1>4. Works(th) /\ loc'[th].pc = "unwatchUnlock" /\ loc'[th].i = i /\ loc'[th].saw = v
  BY <1>1, <1>3 DEF Moved, Works
<1>5. op(th) \in {"rewait", "throwTo"} /\ (why_blocked[th] = "BlockedOnSTM" => op(th) = "throwTo")
  BY <1>1 DEF PlaceInv, OpInv, BlockedInv
<1>6. OpInv(th)' /\ BlockedInv(th)'
  BY <1>1, <1>4, <1>5 DEF OpInv, BlockedInv, pc, op, Committing, Works
<1>7. SharedType /\ OwnType(th)
  BY <1>1, <1>2, StoreType, OwnSame
<1>8. Goes(th, "unwatchUnlock", i)
  BY <1>1, <1>4, <1>6, <1>7, GoStep
<1> QED
  BY <1>1, <1>2, <1>4, <1>8 DEF v

LEMMA RemoveFirstType ==
    ASSUME NEW S, NEW s \in Seq(S), NEW e
    PROVE  RemoveFirst(s, e) \in Seq(S)
<1> DEFINE I == {i \in 1..Len(s) : s[i] = e}
           k == Min(I)
<1>1. CASE ~ \E i \in 1..Len(s) : s[i] = e
  BY <1>1 DEF RemoveFirst
<1>2. CASE \E i \in 1..Len(s) : s[i] = e
  <2>1. I # {} /\ I \subseteq Nat
    BY <1>2
  <2>2. SelectInSeq(s, LAMBDA v : v = e) = k
    BY <2>1 DEF SelectInSeq
  <2>3. k \in I
    <3> HIDE DEF I
    <3>1. \E m \in I : \A y \in I : m <= y
      BY <2>1, LeastMember
    <3> QED
      BY <3>1 DEF Min
  <2>4. k \in 1..Len(s)
    BY <2>3
  <2> HIDE DEF I, k
  <2>5. /\ k - 1 \in Int /\ k + 1 \in Int /\ Len(s) \in Int /\ 1 \in Int
        /\ \A i \in 1..(k - 1) : s[i] \in S
        /\ \A i \in (k + 1)..Len(s) : s[i] \in S
    BY <2>4
  <2>6. SubSeq(s, 1, k - 1) \in Seq(S) /\ SubSeq(s, k + 1, Len(s)) \in Seq(S)
    BY <2>5, SubSeqProperties
  <2>7. RemoveFirst(s, e) = SubSeq(s, 1, k - 1) \o SubSeq(s, k + 1, Len(s))
    BY <1>2, <2>2 DEF RemoveFirst, RemoveAt
  <2> QED
    BY <2>6, <2>7, ConcatProperties
<1> QED
  BY <1>1, <1>2

LEMMA UnwatchUnlockStep ==
    ASSUME TypeInv, PlaceInv, scenario' = scenario, NEW th \in Thread, UnwatchUnlock(th), EntryInv(th)
    PROVE  /\ pc(th) = "unwatchUnlock" /\ Goes(th, "unwatch", loc[th].i + 1)
           /\ current_value' = [current_value EXCEPT ![Cur(th).tvar] = loc[th].saw]
           /\ UNCHANGED <<num_updates, heaps, torn, committed>>
<1> DEFINE i == loc[th].i
           x == Cur(th).tvar
<1>1. /\ pc(th) = "unwatchUnlock" /\ GotoSaw(th, "unwatch", i + 1, InitVal)
      /\ current_value' = [current_value EXCEPT ![x] = loc[th].saw]
      /\ watch' = [watch EXCEPT ![x] = RemoveFirst(watch[x], th)]
      /\ UNCHANGED <<num_updates, nest, frames, done>>
      /\ UNCHANGED <<inbox, tsoLock, why_blocked, heaps, since, torn, committed>>
  BY DEF UnwatchUnlock, threadVars, histVars, GotoSaw
<1>2. x \in TVar /\ loc[th].saw \in Val /\ i + 1 \in Nat \ {0} /\ pc(th) # "idle"
  BY <1>1, CurFacts, LocFacts
<1>3. Moved(th, "unwatch", op(th), loc[th].lvl, i + 1, InitVal, loc[th].ok)
  <2>1. "unwatch" \in PC /\ InitVal \in Val
    BY ValFacts DEF PC
  <2> QED
    BY <1>1, <1>2, <2>1, MoveSaw
<1>4. Works(th) /\ loc'[th].pc = "unwatch" /\ loc'[th].i = i + 1
  BY <1>1, <1>2, <1>3 DEF Moved, Works
<1>5. op(th) \in {"rewait", "throwTo"} /\ (why_blocked[th] = "BlockedOnSTM" => op(th) = "throwTo")
  BY <1>1 DEF PlaceInv, OpInv, BlockedInv
<1>6. OpInv(th)' /\ BlockedInv(th)'
  BY <1>1, <1>4, <1>5 DEF OpInv, BlockedInv, pc, op, Committing, Works
<1>7. SharedType
  <2>1. watch[x] \in Seq(Thread)
    BY <1>2 DEF TypeInv
  <2>2. RemoveFirst(watch[x], th) \in Seq(Thread)
    BY <2>1, RemoveFirstType
  <2> HIDE DEF x
  <2>3. watch' \in [TVar -> Seq(Thread)]
    BY <1>1, <1>2, <2>2 DEF TypeInv
  <2>4. current_value' \in [TVar -> Val \cup Thread]
    BY <1>1, <1>2 DEF TypeInv
  <2> QED
    BY <1>1, <2>3, <2>4 DEF SharedType, TypeInv
<1>8. Goes(th, "unwatch", i + 1)
  <2>1. OwnType(th)
    BY <1>1, OwnSame
  <2> QED
    BY <1>1, <1>4, <1>6, <1>7, <2>1, GoStep
<1> QED
  BY <1>1, <1>8

LEMMA RevertStep ==
    ASSUME TypeInv, PlaceInv, scenario' = scenario, NEW th \in Thread, Revert(th)
    PROVE  /\ pc(th) = "revert" /\ UNCHANGED <<num_updates, heaps, torn, committed>>
           /\ \E j \in DOMAIN Entries(th) :
                /\ Goes(th, "revert", j + 1) /\ Owned(th, Entries(th)[j])
                /\ current_value' = [current_value EXCEPT ![Entries(th)[j].tvar] = Entries(th)[j].expected]
                /\ \A m \in DOMAIN Entries(th) : loc[th].i <= m /\ Owned(th, Entries(th)[m]) => j <= m
<1> DEFINE es == Entries(th)
           j == Seek(es, loc[th].i, LAMBDA e : Owned(th, e))
<1>1. /\ pc(th) = "revert" /\ pc(th) # "idle" /\ j <= Len(es)
      /\ current_value' = [current_value EXCEPT ![es[j].tvar] = es[j].expected]
      /\ GotoEntry(th, "revert", j + 1)
      /\ UNCHANGED <<num_updates, watch, nest, frames, done>>
      /\ UNCHANGED <<inbox, tsoLock, why_blocked, heaps, since, torn, committed>>
  BY DEF Revert, threadVars, histVars
<1>2. es \in Seq(EntryType) /\ loc[th].i \in Nat \ {0} /\ DOMAIN es = 1..Len(es) /\ Len(es) \in Nat
      /\ \A m \in DOMAIN es : es[m].tvar \in TVar /\ es[m].expected \in Val
  BY <1>1, WorkFacts, LocFacts
<1>3. Finds(es, loc[th].i, j, {m \in DOMAIN es : Owned(th, es[m])})
  <2> HIDE DEF es
  <2> QED
    BY <1>2, SeekOwned
<1> HIDE DEF j
<1>4. /\ j \in DOMAIN es /\ Owned(th, es[j]) /\ j + 1 \in Nat \ {0}
      /\ \A m \in DOMAIN es : loc[th].i <= m /\ Owned(th, es[m]) => j <= m
  <2> HIDE DEF es
  <2> QED
    BY <1>1, <1>2, <1>3 DEF Finds
<1>5. es[j].tvar \in TVar /\ es[j].expected \in Val
  BY <1>2, <1>4
<1>6. Moved(th, "revert", op(th), loc[th].lvl, j + 1, loc[th].saw, loc[th].ok)
  <2>1. "revert" \in PC
    BY DEF PC
  <2> QED
    BY <1>1, <1>4, <2>1, MoveEntry
<1>7. Works(th) /\ loc'[th].pc = "revert" /\ loc'[th].i = j + 1 /\ loc'[th].ok = loc[th].ok
  BY <1>1, <1>6 DEF Moved, Works
<1>8. /\ op(th) \in {"commit", "commitNested", "wait", "rewait", "validate", "throw"}
      /\ why_blocked[th] = "BlockedOnSTM" => loc[th].ok /\ op(th) \in {"wait", "rewait"}
  BY <1>1 DEF PlaceInv, OpInv, BlockedInv
<1>9. OpInv(th)' /\ BlockedInv(th)'
  BY <1>1, <1>7, <1>8 DEF OpInv, BlockedInv, pc, op, Committing, Works
<1>10. SharedType /\ OwnType(th)
  BY <1>1, <1>5, StoreType, OwnSame
<1>11. Goes(th, "revert", j + 1)
  BY <1>1, <1>7, <1>9, <1>10, GoStep
<1> QED
  BY <1>1, <1>4, <1>11

(* The decision to commit: the new heap h, and the record c of it. *)
Commits(th, h, c) ==
    /\ h \in [TVar -> Val]
    /\ \A j \in DOMAIN Entries(th) :
          entry_is_update(Entries(th)[j]) => h[Entries(th)[j].tvar] = Entries(th)[j].new
    /\ \A x \in TVar :
          (\A j \in DOMAIN Entries(th) : entry_is_update(Entries(th)[j]) => Entries(th)[j].tvar # x)
          => h[x] = Heap[x]
    /\ c.since = since[th] /\ c.at = Len(heaps)
    /\ c.entries \in Seq(EntryType) /\ SameBut(Entries(th), c.entries)
    /\ c \in [entries : Seq(EntryType), since : Nat \ {0}, at : Nat \ {0}]

LEMMA DecideStep ==
    ASSUME TypeInv, PlaceInv, scenario' = scenario, NEW th \in Thread, Decide(th)
    PROVE  /\ pc(th) = "checkReads" /\ UNCHANGED <<current_value, num_updates, torn>>
           /\ \A m \in DOMAIN Entries(th) : loc[th].i <= m => ~entry_is_read_only(Entries(th)[m])
           /\ \/ /\ op(th) = "commitNested" /\ Goes(th, "merge", 1) /\ Looks
              \/ /\ op(th) = "commit" /\ Goes(th, "update", 1)
                 /\ \E h, c : /\ Commits(th, h, c) /\ heaps' = Append(heaps, h)
                              /\ committed' = Append(committed, c)
<1> DEFINE es == Entries(th)
           j == Seek(es, loc[th].i, entry_is_read_only)
           tr == TRec(th)
           up(x) == Has(tr, x) /\ entry_is_update(tr.entries[IndexOf(tr, x)])
           nw(x) == IF up(x) THEN tr.entries[IndexOf(tr, x)].new ELSE Last(heaps)[x]
           h == [x \in TVar |-> nw(x)]
           ce == [m \in DOMAIN tr.entries |-> [tr.entries[m] EXCEPT !.num = 0]]
           c == [entries |-> ce, since |-> since[th], at |-> Len(heaps)]
<1>1. /\ pc(th) = "checkReads" /\ pc(th) # "idle" /\ j > Len(es)
      /\ \/ /\ op(th) = "commit" /\ heaps' = Append(heaps, h) /\ committed' = Append(committed, c)
            /\ GotoEntry(th, "update", 1)
         \/ /\ op(th) = "commitNested" /\ GotoEntry(th, "merge", 1) /\ UNCHANGED <<heaps, committed>>
      /\ UNCHANGED <<current_value, num_updates, watch, nest, frames, done>>
      /\ UNCHANGED <<inbox, tsoLock, why_blocked, since, torn>>
  BY DEF Decide, tvarVars, threadVars
<1>2. es \in Seq(EntryType) /\ loc[th].i \in Nat \ {0} /\ DOMAIN es = 1..Len(es) /\ Len(es) \in Nat
  BY <1>1, WorkFacts, LocFacts
<1>3. Finds(es, loc[th].i, j, {m \in DOMAIN es : entry_is_read_only(es[m])})
  <2> HIDE DEF es
  <2> QED
    BY <1>2, SeekReadOnly
<1> HIDE DEF j
<1>4. \A m \in DOMAIN es : loc[th].i <= m => ~entry_is_read_only(es[m])
  <2> HIDE DEF es
  <2> QED
    BY <1>1, <1>2, <1>3 DEF Finds
<1>5. 1 \in Nat \ {0} /\ "update" \in PC /\ "merge" \in PC
  BY DEF PC
<1>6. UNCHANGED <<nest, frames, done, why_blocked, since, torn>>
      /\ pc(th) \notin {"revert", "blocked", "throwMasked", "unwatch", "unwatchUnlock"}
  BY <1>1
<1>7. CASE /\ op(th) = "commitNested" /\ GotoEntry(th, "merge", 1) /\ UNCHANGED <<heaps, committed>>
  <2>1. Moved(th, "merge", op(th), loc[th].lvl, 1, loc[th].saw, loc[th].ok)
    BY <1>5, <1>7, MoveEntry
  <2>2. Works(th) /\ loc'[th].pc = "merge" /\ loc'[th].i = 1
    BY <1>1, <2>1 DEF Moved, Works
  <2>3. OpInv(th)'
    BY <1>7, <2>2 DEF OpInv, pc, op, Committing, Works
  <2>4. SharedType /\ Looks
    BY <1>1, <1>7, SharedSame DEF Looks
  <2>5. Goes(th, "merge", 1)
    BY <1>6, <2>2, <2>3, <2>4, AwakeGo
  <2> QED
    BY <1>1, <1>4, <1>7, <2>4, <2>5
<1>8. CASE /\ op(th) = "commit" /\ heaps' = Append(heaps, h) /\ committed' = Append(committed, c)
           /\ GotoEntry(th, "update", 1)
  <2>1. Moved(th, "update", op(th), loc[th].lvl, 1, loc[th].saw, loc[th].ok)
    BY <1>5, <1>8, MoveEntry
  <2>2. Works(th) /\ loc'[th].pc = "update" /\ loc'[th].i = 1
    BY <1>1, <2>1 DEF Moved, Works
  <2>3. OpInv(th)'
    BY <1>8, <2>2 DEF OpInv, pc, op, Committing, Works
  <2>4. tr \in TRecType /\ es = tr.entries
    BY <1>1, WorkFacts DEF Entries
  <2>5. heaps \in Seq([TVar -> Val]) /\ Len(heaps) \in Nat \ {0} /\ Last(heaps) \in [TVar -> Val]
        /\ Last(heaps) = Heap /\ since[th] \in Nat \ {0}
    <3>1. heaps \in Seq([TVar -> Val]) /\ heaps # <<>> /\ since[th] \in Nat \ {0}
      BY DEF TypeInv
    <3>2. Last(heaps) = heaps[Len(heaps)] /\ Len(heaps) \in Nat \ {0}
      BY <3>1 DEF Last
    <3> QED
      BY <3>1, <3>2 DEF Heap
  <2> HIDE DEF tr
  <2>6. h \in [TVar -> Val]
    <3>1. \A x \in TVar : up(x) => tr.entries[IndexOf(tr, x)].new \in Val
      BY <2>4, TRecFacts
    <3>2. \A x \in TVar : nw(x) \in Val
      <4> HIDE DEF up
      <4> QED
        BY <2>5, <3>1
    <3> HIDE DEF nw
    <3> QED
      BY <3>2
  <2>7. \A m \in DOMAIN es : entry_is_update(es[m]) => h[es[m].tvar] = es[m].new
    <3> SUFFICES ASSUME NEW m \in DOMAIN es, entry_is_update(es[m]) PROVE h[es[m].tvar] = es[m].new
      OBVIOUS
    <3>1. es[m].tvar \in TVar /\ Has(tr, es[m].tvar) /\ IndexOf(tr, es[m].tvar) = m
      BY <2>4, TRecFacts
    <3>2. up(es[m].tvar)
      BY <2>4, <3>1
    <3>3. nw(es[m].tvar) = es[m].new
      BY <2>4, <3>1, <3>2
    <3> HIDE DEF nw
    <3> QED
      BY <3>1, <3>3
  <2>8. \A x \in TVar : (\A m \in DOMAIN es : entry_is_update(es[m]) => es[m].tvar # x) => h[x] = Heap[x]
    <3> SUFFICES ASSUME NEW x \in TVar, \A m \in DOMAIN es : entry_is_update(es[m]) => es[m].tvar # x
                 PROVE  h[x] = Heap[x]
      OBVIOUS
    <3>1. ~up(x)
      BY <2>4, TRecFacts
    <3>2. nw(x) = Heap[x]
      BY <2>5, <3>1
    <3> HIDE DEF nw
    <3> QED
      BY <3>2
  <2>9. ce \in Seq(EntryType) /\ SameBut(es, ce)
    <3>1. DOMAIN ce = DOMAIN es /\ \A m \in DOMAIN es : ce[m] = [es[m] EXCEPT !.num = 0]
      BY <2>4
    <3> HIDE DEF ce
    <3>2. \A m \in DOMAIN es : /\ ce[m] \in EntryType /\ ce[m].tvar = es[m].tvar
                               /\ ce[m].expected = es[m].expected /\ ce[m].new = es[m].new
      <4> TAKE m \in DOMAIN es
      <4>1. es[m] \in EntryType /\ ce[m] = [es[m] EXCEPT !.num = 0]
        BY <1>2, <3>1
      <4> QED
        BY <4>1 DEF EntryType
    <3>3. ce = [m \in 1..Len(es) |-> ce[m]]
      <4>1. ce = [m \in DOMAIN tr.entries |-> ce[m]]
        BY DEF ce
      <4> QED
        BY <1>2, <2>4, <4>1
    <3>4. ce \in Seq(EntryType) /\ Len(ce) = Len(es)
      <4> HIDE DEF es
      <4>1. ce \in [1..Len(es) -> EntryType]
        BY <1>2, <3>2, <3>3
      <4> QED
        BY <1>2, <4>1
    <3> QED
      BY <3>1, <3>2, <3>4 DEF SameBut
  <2> HIDE DEF h, ce
  <2>10. /\ c.since = since[th] /\ c.at = Len(heaps) /\ c.entries = ce
         /\ c \in [entries : Seq(EntryType), since : Nat \ {0}, at : Nat \ {0}]
    BY <2>5, <2>9
  <2> HIDE DEF c
  <2>11. Commits(th, h, c)
    BY <2>6, <2>7, <2>8, <2>9, <2>10 DEF Commits
  <2>12. SharedType
    <3>1. heaps' \in Seq([TVar -> Val]) /\ heaps' # <<>>
      <4> DEFINE S == [TVar -> Val]
      <4>1. heaps \in Seq(S) /\ h \in S /\ heaps' = Append(heaps, h)
        BY <1>8, <2>5, <2>6
      <4> HIDE DEF S
      <4>2. heaps' \in Seq(S) /\ Len(heaps') = Len(heaps) + 1 /\ Len(heaps) \in Nat
        BY <4>1
      <4>3. heaps' # <<>>
        BY <4>2
      <4> QED
        BY <4>2, <4>3 DEF S
    <3> QED
      BY <1>1, <3>1 DEF SharedType, TypeInv
  <2>13. Goes(th, "update", 1)
    BY <1>6, <2>2, <2>3, <2>12, AwakeGo
  <2> QED
    BY <1>1, <1>4, <1>8, <2>11, <2>13
<1> QED
  BY <1>1, <1>7, <1>8

(* The end of validate_and_acquire_ownership with every entry valid.       *)
LEMMA ValidatedStep ==
    ASSUME TypeInv, PlaceInv, scenario' = scenario, NEW th \in Thread, Validated(th)
    PROVE  /\ pc(th) = "validate" /\ AtEnd(th) /\ Looks
           /\ \/ /\ op(th) \in {"commit", "commitNested"} /\ Goes(th, "checkReads", 1)
                 /\ torn'[th] = Torn(th)
              \/ /\ op(th) \notin {"commit", "commitNested"} /\ Sound(th) /\ Works(th)
                 /\ loc'[th].pc = "revert" /\ loc'[th].i = 1 /\ Entries(th)' = Entries(th)
                 /\ Reads(th) /\ UNCHANGED <<since, torn>>
<1>0. /\ pc(th) = "validate" /\ pc(th) # "idle" /\ AtEnd(th) /\ Looks
      /\ UNCHANGED <<inbox, tsoLock, since, frames, done>>
  BY DEF Validated, Looks
<1>1. /\ 1 \in Nat \ {0} /\ "checkReads" \in PC /\ "revert" \in PC
      /\ why_blocked[th] # "BlockedOnSTM"
  BY <1>0, NotBlocked DEF PC
<1>2. op(th) \in {"wait", "rewait"} => loc[th].ok
  BY <1>0 DEF PlaceInv, OpInv
<1>3. CASE /\ op(th) \in {"commit", "commitNested"} /\ GotoEntry(th, "checkReads", 1)
           /\ torn' = [torn EXCEPT ![th] = Torn(th)] /\ UNCHANGED <<watch, nest, why_blocked>>
  <2>1. Moved(th, "checkReads", op(th), loc[th].lvl, 1, loc[th].saw, loc[th].ok)
    BY <1>1, <1>3, MoveEntry
  <2>2. Works(th) /\ loc'[th].pc = "checkReads" /\ loc'[th].i = 1 /\ loc'[th].ok = loc[th].ok
    BY <1>0, <2>1 DEF Moved, Works
  <2>3. Torn(th) \in SUBSET TVar
    BY <1>0, WorkFacts DEF Torn
  <2>4. torn' \in [Thread -> SUBSET TVar] /\ torn'[th] = Torn(th) /\ \A u \in Thread \ {th} : torn'[u] = torn[u]
    BY <1>3, <2>3 DEF TypeInv
  <2>5. SharedType /\ ~acquire_all(th)
    BY <1>0, <1>3, SharedSame DEF Looks, acquire_all
  <2>6. UNCHANGED <<nest, frames, done, why_blocked, since>> /\ pc(th) \in {"validate", "recheck"}
        /\ "checkReads" \in {"readVersion", "checkReads"}
    BY <1>0, <1>3
  <2>7. Goes(th, "checkReads", 1)
    BY <2>2, <2>4, <2>5, <2>6, ValidatingStep
  <2> QED
    BY <1>0, <1>3, <2>4, <2>7
<1>4. CASE /\ op(th) \in {"wait", "rewait", "validate", "throw"} /\ GotoEntry(th, "revert", 1)
           /\ torn' = torn
           /\ op(th) = "wait" => JoinQueues(th)
           /\ op(th) # "wait" => watch' = watch /\ nest' = nest
           /\ op(th) = "wait" => nest' = [nest EXCEPT ![th][1].state = "WAITING"]
           /\ \/ /\ op(th) \in {"wait", "rewait"} /\ why_blocked' = [why_blocked EXCEPT ![th] = "BlockedOnSTM"]
              \/ why_blocked' = why_blocked
  <2>1. Moved(th, "revert", op(th), loc[th].lvl, 1, loc[th].saw, loc[th].ok)
    BY <1>1, <1>4, MoveEntry
  <2>2. Works(th) /\ loc'[th].pc = "revert" /\ loc'[th].i = 1 /\ loc'[th].ok = loc[th].ok
    BY <1>0, <2>1 DEF Moved, Works
  <2>3. OpInv(th)'
    BY <1>4, <2>2 DEF OpInv, pc, op, Committing, Works
  <2>4. BlockedInv(th)'
    BY <1>1, <1>2, <1>4, <2>2 DEF BlockedInv, pc, op, Works
  <2>5. why_blocked' \in [Thread -> {"NotBlocked", "BlockedOnSTM"}]
        /\ \A u \in Thread \ {th} : why_blocked'[u] = why_blocked[u]
    BY <1>4 DEF TypeInv
  <2>6. OwnType(th)
    BY <1>0, <1>4, <2>5 DEF OwnType, TypeInv
  <2>7. watch' \in [TVar -> Seq(Thread)]
    <3>1. CASE op(th) # "wait"
      BY <1>4, <3>1 DEF TypeInv
    <3>2. CASE op(th) = "wait"
      <4>1. watch' = [x \in TVar |-> IF Has(TRec(th), x) THEN <<th>> \o watch[x] ELSE watch[x]]
        BY <1>4, <3>2 DEF JoinQueues
      <4>2. \A x \in TVar : watch[x] \in Seq(Thread) /\ <<th>> \in Seq(Thread)
        BY DEF TypeInv
      <4>3. \A x \in TVar : <<th>> \o watch[x] \in Seq(Thread)
        BY <4>2, ConcatProperties
      <4> QED
        BY <4>1, <4>2, <4>3
    <3> QED
      BY <3>1, <3>2
  <2>8. SharedType
    BY <1>0, <2>7 DEF SharedType, TypeInv, Looks
  <2> DEFINE m == nest'[th]
  <2>9. /\ nest' \in [Thread -> Seq(TRecType)] /\ \A u \in Thread \ {th} : nest'[u] = nest[u]
        /\ Len(m) = Len(nest[th]) /\ DOMAIN m = DOMAIN nest[th]
        /\ \A d \in DOMAIN nest[th] : m[d].entries = nest[th][d].entries
    <3>1. CASE op(th) # "wait"
      BY <1>4, <3>1 DEF TypeInv
    <3>2. CASE op(th) = "wait"
      <4> DEFINE n == nest[th]
                 r == [n[1] EXCEPT !.state = "WAITING"]
                 q == [n EXCEPT ![1] = r]
      <4>1. n \in Seq(TRecType) /\ 1 \in DOMAIN n /\ n[1] \in TRecType /\ nest' = [nest EXCEPT ![th] = q]
        BY <1>0, <1>4, <3>2, ThreadFacts
      <4>2. r \in TRecType /\ r.entries = n[1].entries
        BY <4>1 DEF TRecType, TRecState, Distinct
      <4> HIDE DEF n, r
      <4>3. q \in Seq(TRecType) /\ Len(q) = Len(n) /\ DOMAIN q = DOMAIN n
            /\ q[1] = r /\ \A d \in DOMAIN n : d # 1 => q[d] = n[d]
        BY <4>1, <4>2
      <4> HIDE DEF q
      <4>4. Nested(th, q)
        BY <4>1, <4>3, SetNest
      <4>5. m = q
        BY <4>4 DEF Nested
      <4>6. \A d \in DOMAIN n : q[d].entries = n[d].entries
        BY <4>2, <4>3
      <4> QED
        BY <4>3, <4>4, <4>5, <4>6 DEF Nested, n
    <3> QED
      BY <3>1, <3>2
  <2>10. Steps(th)
    BY <1>0, <2>2, <2>9 DEF Steps, Works, TypeInv
  <2>11. NestInv(th)'
    <3>1. /\ Len(frames[th]) < Len(nest[th]) /\ loc[th].lvl <= Len(nest[th]) /\ done[th] < Len(Writes[th])
      BY <1>0 DEF PlaceInv, NestInv
    <3>2. /\ Len(frames'[th]) < Len(nest'[th]) /\ loc'[th].lvl <= Len(nest'[th]) /\ loc'[th].pc # "idle"
          /\ loc'[th].op # "commitNested"
      BY <1>0, <1>4, <2>2, <2>9, <3>1 DEF Works
    <3> QED
      BY <1>0, <3>1, <3>2, NestStep
  <2>12. Sound(th)
    BY <2>3, <2>4, <2>6, <2>8, <2>10, <2>11, SoundStep
  <2>13. Entries(th)' = Entries(th)
    <3>1. loc[th].lvl \in DOMAIN nest[th]
      BY <1>0, ThreadFacts
    <3> QED
      BY <2>2, <2>9, <3>1 DEF Entries, TRec, Works
  <2>14. Reads(th)
    BY <2>9, FromSelf DEF Reads
  <2>15. op(th) \notin {"commit", "commitNested"}
    BY <1>4
  <2> QED
    BY <1>0, <1>4, <2>2, <2>12, <2>13, <2>14, <2>15
<1> QED
  BY <1>3, <1>4 DEF Validated

(* One entry of a nested commit: unlocked, and merged into the parent. *)
Merges(th) ==
    LET i == loc[th].i
        e == Entries(th)[i]
        p == loc[th].lvl - 1
    IN  /\ Works(th) /\ Sound(th) /\ loc'[th].pc = "merge" /\ loc'[th].i = i + 1
        /\ Entries(th)' = Entries(th) /\ Reads(th)
        /\ i \in DOMAIN Entries(th)
        /\ \/ entry_is_update(e) /\ current_value' = [current_value EXCEPT ![e.tvar] = e.expected]
           \/ entry_is_read_only(e) /\ UNCHANGED current_value
        /\ p \in DOMAIN nest[th] /\ p \in DOMAIN nest'[th]
        /\ \A y : Has(nest'[th][p], y) <=> Has(nest[th][p], y) \/ y = e.tvar
        /\ Touched(nest[th]) \subseteq Touched(nest'[th])
        /\ UNCHANGED <<num_updates, heaps, torn, committed, since>>

LEMMA MergeEntryStep ==
    ASSUME TypeInv, PlaceInv, scenario' = scenario, NEW th \in Thread, MergeEntry(th)
    PROVE  pc(th) = "merge" /\ Merges(th)
<1> DEFINE n == nest[th]
           L == loc[th].lvl
           p == L - 1
           tr == n[p]
           i == loc[th].i
           e == Entries(th)[i]
           r == merge_update_into(tr, e.tvar, e.expected, e.new)
           m == [n EXCEPT ![p] = r]
<1>1. /\ pc(th) = "merge" /\ pc(th) # "idle" /\ ~AtEnd(th)
      /\ \/ entry_is_update(e) /\ current_value' = [current_value EXCEPT ![e.tvar] = e.expected]
         \/ entry_is_read_only(e) /\ UNCHANGED current_value
      /\ nest' = [nest EXCEPT ![th] = m] /\ GotoEntry(th, "merge", i + 1)
      /\ UNCHANGED <<num_updates, watch, frames, done>>
      /\ UNCHANGED <<inbox, tsoLock, why_blocked, heaps, since, torn, committed>>
  BY DEF MergeEntry, threadVars, histVars, Cur, entry_is_update, entry_is_read_only
<1>2. op(th) = "commitNested" /\ why_blocked[th] # "BlockedOnSTM"
  BY <1>1, NotBlocked DEF PlaceInv, OpInv
<1>3. /\ Len(frames[th]) < Len(n) /\ L = Len(n) /\ L > 1 /\ frames[th] # <<>> /\ done[th] < Len(Writes[th])
  BY <1>1, <1>2 DEF PlaceInv, NestInv
<1>4. /\ n \in Seq(TRecType) /\ L \in DOMAIN n /\ p \in DOMAIN n /\ tr \in TRecType /\ p # L
      /\ n[L].entries = Entries(th)
  <2>1. n \in Seq(TRecType) /\ L \in DOMAIN n /\ DOMAIN n = 1..Len(n) /\ Len(n) \in Nat
    BY <1>1, ThreadFacts
  <2>2. p \in DOMAIN n /\ p # L
    BY <1>3, <2>1
  <2> QED
    BY <2>1, <2>2, ThreadFacts DEF Entries, TRec
<1>5. /\ i \in DOMAIN Entries(th) /\ i + 1 \in Nat \ {0}
      /\ e.tvar \in TVar /\ e.expected \in Val /\ e.new \in Val
  BY <1>1, WorkFacts, LocFacts
<1>6. /\ r \in TRecType /\ \A y : Has(r, y) <=> Has(tr, y) \/ y = e.tvar
      /\ \A j \in DOMAIN r.entries :
            From(r.entries[j], tr.entries) \/ (r.entries[j].tvar = e.tvar /\ r.entries[j].expected = e.expected)
  <2> HIDE DEF e, tr
  <2> QED
    BY <1>4, <1>5, MergeUpdate
<1>7. \A j \in DOMAIN r.entries : \E d2 \in DOMAIN n : From(r.entries[j], n[d2].entries)
  <2> TAKE j \in DOMAIN r.entries
  <2>1. CASE From(r.entries[j], tr.entries)
    BY <1>4, <2>1
  <2>2. CASE r.entries[j].tvar = e.tvar /\ r.entries[j].expected = e.expected
    <3> HIDE DEF r
    <3>1. From(r.entries[j], n[L].entries)
      BY <1>4, <1>5, <2>2 DEF From
    <3> QED
      BY <1>4, <3>1
  <2> QED
    BY <1>6, <2>1, <2>2
<1> HIDE DEF r
<1>8. /\ m \in Seq(TRecType) /\ Len(m) = Len(n) /\ DOMAIN m = DOMAIN n /\ m[p] = r /\ m[L] = n[L]
      /\ Kept(n, m) /\ Touched(n) \subseteq Touched(m)
  <2>1. \A x \in TVar : Has(n[p], x) => Has(r, x)
    BY <1>6
  <2>2. n \in Seq(TRecType) /\ p \in DOMAIN n /\ r \in TRecType /\ L \in DOMAIN n /\ L # p
    BY <1>4, <1>6
  <2> HIDE DEF n, p, L, tr
  <2>3. /\ m \in Seq(TRecType) /\ Len(m) = Len(n) /\ DOMAIN m = DOMAIN n
        /\ m[p] = r /\ \A d2 \in DOMAIN n : d2 # p => m[d2] = n[d2]
    BY <2>2
  <2> HIDE DEF m
  <2>4. Kept(n, m)
    BY <1>7, <2>2, <2>3, FromSelf DEF Kept
  <2>5. Touched(n) \subseteq Touched(m)
    BY <2>1, <2>2, <2>3 DEF Touched
  <2> QED
    BY <2>2, <2>3, <2>4, <2>5
<1>9. Nested(th, m)
  <2> HIDE DEF m
  <2> QED
    BY <1>1, <1>8, SetNest
<1>10. nest'[th] = m
  BY <1>9 DEF Nested
<1>11. Moved(th, "merge", op(th), loc[th].lvl, i + 1, loc[th].saw, loc[th].ok)
  <2>1. "merge" \in PC
    BY DEF PC
  <2> QED
    BY <1>1, <1>5, <2>1, MoveEntry
<1>12. Works(th) /\ loc'[th].pc = "merge" /\ loc'[th].i = i + 1
  BY <1>1, <1>11 DEF Moved, Works
<1> HIDE DEF m
<1>13. Entries(th)' = Entries(th)
  BY <1>4, <1>8, <1>10, <1>12 DEF Entries, TRec, Works
<1>14. Sound(th)
  <2>1. Steps(th)
    BY <1>1, <1>9, <1>12 DEF Steps, Works, Nested, TypeInv
  <2>2. OpInv(th)'
    BY <1>2, <1>12 DEF OpInv, pc, op, Committing, Works
  <2>3. BlockedInv(th)'
    BY <1>1, <1>2 DEF BlockedInv
  <2>4. SharedType
    <3>1. CASE current_value' = [current_value EXCEPT ![e.tvar] = e.expected]
      BY <1>1, <1>5, <3>1, StoreType
    <3>2. CASE UNCHANGED current_value
      BY <1>1, <3>2, SharedSame
    <3> QED
      BY <1>1, <3>1, <3>2
  <2>5. OwnType(th)
    BY <1>1, OwnSame
  <2>6. NestInv(th)'
    <3>1. /\ Len(frames'[th]) < Len(nest'[th]) /\ loc'[th].lvl <= Len(nest'[th]) /\ loc'[th].pc # "idle"
          /\ loc'[th].op = "commitNested" =>
               loc'[th].lvl = Len(nest'[th]) /\ loc'[th].lvl > 1 /\ frames'[th] # <<>>
      BY <1>1, <1>2, <1>3, <1>4, <1>8, <1>10, <1>12 DEF Works
    <3> QED
      BY <1>1, <1>3, <3>1, NestStep
  <2> QED
    BY <2>1, <2>2, <2>3, <2>4, <2>5, <2>6, SoundStep
<1>15. Reads(th)
  <2>1. Kept(nest[th], m)
    BY <1>8
  <2> QED
    BY <1>9, <2>1, KeptReads
<1>16. /\ p \in DOMAIN n /\ p \in DOMAIN nest'[th] /\ Touched(n) \subseteq Touched(nest'[th])
       /\ \A y : Has(nest'[th][p], y) <=> Has(n[p], y) \/ y = e.tvar
  BY <1>4, <1>6, <1>8, <1>10
<1> QED
  BY <1>1, <1>5, <1>12, <1>13, <1>14, <1>15, <1>16 DEF Merges
=============================================================================
