--------------------------------- MODULE STM ---------------------------------
(***************************************************************************)
(* Software transactional memory: rts/STM.c as the threaded run-time       *)
(* system builds it (STM_FG_LOCKS), with the frames that drive it          *)
(* (rts/PrimOps.cmm, rts/Exception.cmm), the scheduler's validation        *)
(* (rts/Schedule.c) and throwTo to a waiting thread (rts/RaiseAsync.c).    *)
(*                                                                         *)
(* A transaction runs against a transaction record of (TVar, expected,     *)
(* new) entries.  To commit, it locks the TVars it updates by storing      *)
(* itself in current_value, checks the ones it only read by value and by   *)
(* version (num_updates), and then stores the new values.  retry parks the *)
(* thread on the watch queues of every TVar it has read.                   *)
(*                                                                         *)
(* One action is one access to a word that threads share (current_value,   *)
(* num_updates, the lock of a TSO); what happens under a TVar's lock or is *)
(* local to a thread joins a neighbouring action.  Every thread runs on a  *)
(* Capability of its own, the most concurrent placement, so a wake-up is   *)
(* always a message to another Capability.  The invariants of              *)
(* stmAddInvariantToCheck are left out: the list stays empty.              *)
(***************************************************************************)
EXTENDS Integers, Sequences, FiniteSets, SequencesExt

CONSTANTS
    Thread,    \* the Haskell threads
    TVar,      \* the transactional variables
    InitVal,   \* what every TVar holds at first
    Scenarios  \* what the threads may do: see Scenario

(* writes[th][n]: the <<TVar, value>>s th's n-th transaction may write;    *)
(* ops[th]: what its transactions may do besides write and return;         *)
(* maxNest: a bound on the nesting of transaction records; masked: the     *)
(* threads that run in uninterruptibleMask.                                *)
Scenario(writes, ops, maxNest, masked) ==
    [writes |-> writes, ops |-> ops, maxNest |-> maxNest, masked |-> masked]

Val == {InitVal} \cup
       UNION {UNION {UNION {{w[2] : w \in sc.writes[th][n]} : n \in DOMAIN sc.writes[th]} :
                     th \in Thread} : sc \in Scenarios}

ASSUME ScenarioAssumption ==
    \A sc \in Scenarios :
        /\ sc.ops \in [Thread -> SUBSET {"read", "yield", "retry", "orElse", "catch", "throw", "throwTo"}]
        /\ \A th \in Thread : DOMAIN sc.writes[th] = 1..Len(sc.writes[th]) /\ Len(sc.writes[th]) \in Nat
        /\ \A th \in Thread : \A n \in DOMAIN sc.writes[th] :
              \A w \in sc.writes[th][n] : w[1] \in TVar
        /\ sc.masked \subseteq Thread
ASSUME ValAssumption == Val \cap Thread = {}

VARIABLES
    scenario,        \* the member of Scenarios that runs
    current_value,   \* [TVar -> Val \cup Thread]: a value, or the thread whose trec locks it
    num_updates,     \* [TVar -> Nat]: committed updates
    watch,           \* [TVar -> Seq(Thread)]: the watch queue, first entry first
    nest,            \* [Thread -> Seq(trec)]: tso->trec (last) and its enclosing trecs
    frames,          \* [Thread -> Seq]: CATCH_RETRY / CATCH_STM frames, innermost last
    loc,             \* [Thread -> record]: where the thread is in which operation
    why_blocked,     \* [Thread -> {"NotBlocked", "BlockedOnSTM"}]
    inbox,           \* [Thread -> Nat]: MSG_TRY_WAKEUPs under way to its Capability
    tsoLock,         \* [Thread -> BOOLEAN]: lockTSO held by throwTo
    done,            \* [Thread -> Nat]: transactions finished
    heaps,           \* history: the TVars' values after each commit decision
    since,           \* history: [Thread -> Nat]: Len(heaps) when its attempt began
    torn,            \* history: [Thread -> SUBSET TVar]: see Torn
    committed        \* history: what each committed transaction read and wrote

tvarVars   == <<current_value, num_updates, watch>>
threadVars == <<why_blocked, inbox, tsoLock>>
histVars   == <<heaps, since, torn, committed>>
vars == <<scenario, current_value, num_updates, watch, nest, frames, loc,
          why_blocked, inbox, tsoLock, done, heaps, since, torn, committed>>

Writes == scenario.writes
Ops == scenario.ops
MaxNest == scenario.maxNest
Masked == scenario.masked

-----------------------------------------------------------------------------
(* Transaction records *)

Entry(x, ex, nw) == [tvar |-> x, expected |-> ex, new |-> nw, num |-> 0]

(* new_stg_trec_header; a nested record inherits the state of its parent.  *)
NewTRec(st) == [state |-> st, entries |-> <<>>]

entry_is_update(e) == e.expected # e.new
entry_is_read_only(e) == e.expected = e.new

Has(tr, x) == \E j \in DOMAIN tr.entries : tr.entries[j].tvar = x
IndexOf(tr, x) == CHOOSE j \in DOMAIN tr.entries : tr.entries[j].tvar = x

(* The entry for x in the innermost record of the nest n that has one.     *)
get_entry_for(n, x) ==
    LET d == CHOOSE d \in DOMAIN n :
                 Has(n[d], x) /\ \A d2 \in (d+1)..Len(n) : ~Has(n[d2], x)
    IN  n[d].entries[IndexOf(n[d], x)]

merge_read_into(tr, x, ex) ==
    IF ~Has(tr, x)
      THEN [tr EXCEPT !.entries = Append(@, Entry(x, ex, ex))]
    ELSE IF tr.entries[IndexOf(tr, x)].expected # ex
      THEN [tr EXCEPT !.state = "CONDEMNED"]
      ELSE tr

merge_update_into(tr, x, ex, nw) ==
    IF ~Has(tr, x)
      THEN [tr EXCEPT !.entries = Append(@, Entry(x, ex, nw))]
      ELSE LET j == IndexOf(tr, x)
           IN  [tr EXCEPT !.state = IF tr.entries[j].expected # ex THEN "CONDEMNED" ELSE @,
                          !.entries[j].new = nw]

(* mutant: what the nested record has read is forgotten *)
MergeReadsNot(tr, inner) == tr

(* stmAbortTransaction of the innermost record of n: its parent must still *)
(* be woken by, and validated against, what it has read.                   *)
MergeReads(tr, inner) ==
    LET M[j \in 0..Len(inner.entries)] ==
            IF j = 0 THEN tr
            ELSE merge_read_into(M[j - 1], inner.entries[j].tvar, inner.entries[j].expected)
    IN  M[Len(inner.entries)]

AbortNested(n) ==
    Append(SubSeq(n, 1, Len(n) - 2), MergeReads(n[Len(n) - 1], n[Len(n)]))

(* The outermost record after every record inside it has been aborted.     *)
AbortToTop(n) ==
    LET A[d \in 1..Len(n)] == IF d = Len(n) THEN n[d] ELSE MergeReads(n[d], A[d + 1])
    IN  A[1]

(* The first index from i on whose entry satisfies P.                      *)
Seek(es, i, P(_)) ==
    LET hits == {j \in i..Len(es) : P(es[j])}
    IN  IF hits = {} THEN Len(es) + 1
        ELSE CHOOSE j \in hits : \A j2 \in hits : j <= j2

-----------------------------------------------------------------------------
(* Threads *)

PC == {"idle", "run", "getInvariants", "getInvUnlock", "validate", "readVersion",
       "recheck", "revert", "checkReads", "update", "unpark", "unparkLock", "bump",
       "store", "merge", "unwatch", "unwatchUnlock", "blocked", "resume", "throwMasked"}
Op == {"none", "commit", "commitNested", "wait", "rewait", "validate", "throw", "throwTo"}

At(p) == [pc |-> p, op |-> "none", lvl |-> 1, i |-> 1, k |-> 0, saw |-> InitVal, ok |-> TRUE]

pc(th) == loc[th].pc
op(th) == loc[th].op
Goto(th, p) == loc' = [loc EXCEPT ![th].pc = p]
GotoEntry(th, p, j) == loc' = [loc EXCEPT ![th].pc = p, ![th].i = j]

(* The record an operation works on, its entries, and the current entry.   *)
TRec(th) == nest[th][loc[th].lvl]
Entries(th) == TRec(th).entries
Cur(th) == Entries(th)[loc[th].i]
AtEnd(th) == loc[th].i > Len(Entries(th))

(* validate_and_acquire_ownership on record lvl, for operation o.          *)
Validate(th, o, lvl) == loc' = [loc EXCEPT ![th] = [At("validate") EXCEPT !.op = o, !.lvl = lvl]]
acquire_all(th) == op(th) \notin {"commit", "commitNested"}

Invalid(th) == loc' = [loc EXCEPT ![th].pc = "revert", ![th].i = 1, ![th].ok = FALSE]

(* stmStartTransaction for the code of an atomically frame: the first run  *)
(* or, after an attempt that was not valid, the next.                      *)
StartTransaction(th) ==
    /\ nest' = [nest EXCEPT ![th] = <<NewTRec("ACTIVE")>>]
    /\ frames' = [frames EXCEPT ![th] = <<>>]
    /\ loc' = [loc EXCEPT ![th] = At("run")]
    /\ since' = [since EXCEPT ![th] = Len(heaps)]

(* The thread leaves the atomic block, by commit or by exception.          *)
Leave(th) ==
    /\ nest' = [nest EXCEPT ![th] = <<>>]
    /\ frames' = [frames EXCEPT ![th] = <<>>]
    /\ loc' = [loc EXCEPT ![th] = At("idle")]
    /\ done' = [done EXCEPT ![th] = @ + 1]

Init ==
    /\ scenario \in Scenarios
    /\ current_value = [x \in TVar |-> InitVal]
    /\ num_updates = [x \in TVar |-> 0]
    /\ watch = [x \in TVar |-> <<>>]
    /\ nest = [th \in Thread |-> <<>>]
    /\ frames = [th \in Thread |-> <<>>]
    /\ loc = [th \in Thread |-> At("idle")]
    /\ why_blocked = [th \in Thread |-> "NotBlocked"]
    /\ inbox = [th \in Thread |-> 0]
    /\ tsoLock = [th \in Thread |-> FALSE]
    /\ done = [th \in Thread |-> 0]
    /\ heaps = <<[x \in TVar |-> InitVal]>>
    /\ since = [th \in Thread |-> 1]
    /\ torn = [th \in Thread |-> {}]
    /\ committed = <<>>

-----------------------------------------------------------------------------
(* The body of a transaction *)

Atomically(th) ==
    /\ pc(th) = "idle"
    /\ done[th] < Len(Writes[th])
    /\ StartTransaction(th)
    /\ UNCHANGED <<tvarVars, threadVars, done, heaps, torn, committed>>

(* read_current_value spins while the TVar is locked. *)
CanAccess(th, x) ==
    \/ \E d \in DOMAIN nest[th] : Has(nest[th][d], x)
    \/ current_value[x] \in Val
Located(th, x) ==
    IF \E d \in DOMAIN nest[th] : Has(nest[th][d], x)
      THEN get_entry_for(nest[th], x)
      ELSE Entry(x, current_value[x], current_value[x])
AddEntry(th, e) ==
    nest' = [nest EXCEPT ![th][Len(nest[th])].entries = Append(@, e)]

(* stmReadTVar; reading what the innermost record already has is no step. *)
ReadTVar(th, x) ==
    /\ pc(th) = "run"
    /\ "read" \in Ops[th]
    /\ ~Has(Last(nest[th]), x)
    /\ CanAccess(th, x)
    /\ LET e == Located(th, x) IN AddEntry(th, Entry(x, e.expected, e.new))
    /\ UNCHANGED <<tvarVars, threadVars, histVars, frames, loc, done>>

(* stmWriteTVar *)
WriteTVar(th, x, v) ==
    /\ pc(th) = "run"
    /\ LET inner == Last(nest[th])
       IN  IF Has(inner, x)
             THEN nest' = [nest EXCEPT
                      ![th][Len(nest[th])].entries[IndexOf(inner, x)].new = v]
             ELSE /\ CanAccess(th, x)
                  /\ AddEntry(th, Entry(x, Located(th, x).expected, v))
    /\ UNCHANGED <<tvarVars, threadVars, histVars, frames, loc, done>>

(* stg_catchRetryzh, stg_catchSTMzh: a nested transaction for the branch.  *)
StartNested(th, f) ==
    /\ pc(th) = "run"
    /\ \/ f = "first" /\ "orElse" \in Ops[th]
       \/ f = "catch" /\ "catch" \in Ops[th]
    /\ Len(nest[th]) < MaxNest
    /\ frames' = [frames EXCEPT ![th] = Append(@, f)]
    /\ nest' = [nest EXCEPT ![th] = Append(@, NewTRec(Last(nest[th]).state))]
    /\ UNCHANGED <<tvarVars, threadVars, histVars, loc, done>>

(* The code of the innermost frame returns: a nested transaction commits   *)
(* into its parent, the outermost goes on to stmGetInvariantsToCheck.      *)
Return(th) ==
    /\ pc(th) = "run"
    /\ \/ /\ frames[th] = <<>>
          /\ Len(nest[th]) = 1
          /\ Goto(th, "getInvariants")
       \/ /\ frames[th] # <<>>
          /\ Validate(th, "commitNested", Len(nest[th]))
    /\ UNCHANGED <<tvarVars, threadVars, histVars, nest, frames, done>>

(* stg_retryzh and findRetryFrameHelper, one frame at a time: the first    *)
(* branch of an orElse gives way to the alternative; an alternative and a  *)
(* catchSTM pass the retry on; at the atomically frame the thread waits.   *)
Retry(th) ==
    /\ pc(th) = "run"
    /\ "retry" \in Ops[th]
    /\ LET inner == {d \in DOMAIN frames[th] : \A d2 \in d..Len(frames[th]) : frames[th][d2] # "first"}
           stop == Len(frames[th]) - Cardinality(inner)  \* the innermost "first" frame, or 0
           n == AbortToTop(SubSeq(nest[th], stop + 1, Len(nest[th])))
       IN  IF stop = 0
             THEN /\ nest' = [nest EXCEPT ![th] = <<n>>]
                  /\ frames' = [frames EXCEPT ![th] = <<>>]
                  /\ Validate(th, "wait", 1)
             ELSE LET outer == MergeReads(nest[th][stop], n)
                  IN  /\ nest' = [nest EXCEPT ![th] =
                             SubSeq(@, 1, stop - 1) \o <<outer, NewTRec(outer.state)>>]
                      /\ frames' = [frames EXCEPT ![th] = Append(SubSeq(@, 1, stop - 1), "alt")]
                      /\ UNCHANGED loc
    /\ UNCHANGED <<tvarVars, threadVars, histVars, done>>

(* stg_raisezh: raiseExceptionHelper stops at a catchSTM or an atomically  *)
(* frame and steps over the frames of orElse.  The catchSTM aborts the     *)
(* innermost transaction and runs its handler in the enclosing one.        *)
Throw(th) ==
    /\ pc(th) = "run"
    /\ "throw" \in Ops[th]
    /\ LET catches == {d \in DOMAIN frames[th] : frames[th][d] = "catch"}
       IN  \/ /\ catches = {}
              /\ Validate(th, "throw", Len(nest[th]))
              /\ UNCHANGED <<nest, frames>>
           \/ \E d \in catches :
                /\ \A d2 \in catches : d2 <= d
                /\ nest' = [nest EXCEPT ![th] = AbortNested(@)]
                /\ frames' = [frames EXCEPT ![th] = SubSeq(@, 1, d - 1)]
                /\ UNCHANGED loc
    /\ UNCHANGED <<tvarVars, threadVars, histVars, done>>

(* schedulePostRunThread: the thread comes back to the scheduler inside    *)
(* the transaction.                                                        *)
Yield(th) ==
    /\ pc(th) = "run"
    /\ "yield" \in Ops[th]
    /\ Validate(th, "validate", Len(nest[th]))
    /\ UNCHANGED <<tvarVars, threadVars, histVars, nest, frames, done>>

-----------------------------------------------------------------------------
(* stmGetInvariantsToCheck: every updated TVar is locked for a look at its *)
(* watch queue.                                                            *)

GetInvLock(th) ==
    /\ pc(th) = "getInvariants"
    /\ LET j == Seek(Entries(th), loc[th].i, entry_is_update)
       IN  \/ /\ j > Len(Entries(th))
              /\ Validate(th, "commit", 1)
              /\ UNCHANGED current_value
           \/ /\ j <= Len(Entries(th))
              /\ LET x == Entries(th)[j].tvar
                 IN  /\ current_value[x] \in Val
                     /\ current_value' = [current_value EXCEPT ![x] = th]
                     /\ loc' = [loc EXCEPT ![th].pc = "getInvUnlock", ![th].i = j,
                                           ![th].saw = current_value[x]]
    /\ UNCHANGED <<num_updates, watch, threadVars, histVars, nest, frames, done>>

GetInvUnlock(th) ==
    /\ pc(th) = "getInvUnlock"
    /\ current_value' = [current_value EXCEPT ![Cur(th).tvar] = loc[th].saw]
    /\ loc' = [loc EXCEPT ![th].pc = "getInvariants", ![th].i = @ + 1, ![th].saw = InitVal]
    /\ UNCHANGED <<num_updates, watch, threadVars, histVars, nest, frames, done>>

-----------------------------------------------------------------------------
(* validate_and_acquire_ownership *)

(* mutant: the expected value is not compared *)
ValidateEntryBlind(th) ==
    /\ pc(th) = "validate"
    /\ TRec(th).state # "CONDEMNED"
    /\ ~AtEnd(th)
    /\ IF current_value[Cur(th).tvar] \in Thread
         THEN Invalid(th) /\ UNCHANGED current_value
         ELSE /\ current_value' = [current_value EXCEPT ![Cur(th).tvar] = th]
              /\ GotoEntry(th, "validate", loc[th].i + 1)
    /\ UNCHANGED <<num_updates, watch, threadVars, histVars, nest, frames, done>>

(* One entry: lock it if its value is the expected one, or, for a TVar     *)
(* only read by a committing transaction, look at value, version, value.   *)
ValidateEntry(th) ==
    /\ pc(th) = "validate"
    /\ TRec(th).state # "CONDEMNED"
    /\ ~AtEnd(th)
    /\ LET e == Cur(th)
       IN  \/ /\ current_value[e.tvar] # e.expected
              /\ Invalid(th)
              /\ UNCHANGED current_value
           \/ /\ current_value[e.tvar] = e.expected
              /\ acquire_all(th) \/ entry_is_update(e)
              /\ current_value' = [current_value EXCEPT ![e.tvar] = th]
              /\ GotoEntry(th, "validate", loc[th].i + 1)
           \/ /\ current_value[e.tvar] = e.expected
              /\ ~acquire_all(th) /\ entry_is_read_only(e)
              /\ Goto(th, "readVersion")
              /\ UNCHANGED current_value
    /\ UNCHANGED <<num_updates, watch, threadVars, histVars, nest, frames, done>>

ReadVersion(th) ==
    /\ pc(th) = "readVersion"
    /\ nest' = [nest EXCEPT ![th][loc[th].lvl].entries[loc[th].i].num =
                    num_updates[Cur(th).tvar]]
    /\ Goto(th, "recheck")
    /\ UNCHANGED <<tvarVars, threadVars, histVars, frames, done>>

Recheck(th) ==
    /\ pc(th) = "recheck"
    /\ IF current_value[Cur(th).tvar] = Cur(th).expected
         THEN GotoEntry(th, "validate", loc[th].i + 1)
         ELSE Invalid(th)
    /\ UNCHANGED <<tvarVars, threadVars, histVars, nest, frames, done>>

ValidateCondemned(th) ==
    /\ pc(th) = "validate"
    /\ TRec(th).state = "CONDEMNED"
    /\ Invalid(th)
    /\ UNCHANGED <<tvarVars, threadVars, histVars, nest, frames, done>>

(* build_watch_queue_entries_for_trec: first in the queue of every TVar    *)
(* the record has an entry for.                                            *)
JoinQueues(th) ==
    watch' = [x \in TVar |-> IF Has(TRec(th), x) THEN <<th>> \o watch[x] ELSE watch[x]]

(* What a TVar contains; while it is locked, what unlocking puts back.     *)
Content(x) ==
    IF current_value[x] \notin Thread THEN current_value[x]
    ELSE LET th == current_value[x]
         IN  IF pc(th) \in {"getInvUnlock", "unwatchUnlock"} THEN loc[th].saw
             ELSE TRec(th).entries[IndexOf(TRec(th), x)].expected

(* The TVars that do not contain what the record of th expects of them: no *)
(* instant has shown all the others together with these.                   *)
Torn(th) == {Entries(th)[j].tvar : j \in {j \in DOMAIN Entries(th) :
                 Content(Entries(th)[j].tvar) # Entries(th)[j].expected}}

(* Every entry held its expected value: what the caller does with it.  A   *)
(* waiting thread joins the watch queues and parks while it holds all the  *)
(* locks; without retain_ownership the locks go back at once.              *)
Validated(th) ==
    /\ pc(th) = "validate"
    /\ TRec(th).state # "CONDEMNED"
    /\ AtEnd(th)
    /\ \/ /\ op(th) \in {"commit", "commitNested"}
          /\ GotoEntry(th, "checkReads", 1)
          /\ torn' = [torn EXCEPT ![th] = Torn(th)]
          /\ UNCHANGED <<watch, nest, why_blocked>>
       \/ /\ op(th) = "wait"
          /\ JoinQueues(th)
          /\ why_blocked' = [why_blocked EXCEPT ![th] = "BlockedOnSTM"]
          /\ nest' = [nest EXCEPT ![th][1].state = "WAITING"]
          /\ GotoEntry(th, "revert", 1)
          /\ UNCHANGED torn
       \/ /\ op(th) = "rewait"
          /\ why_blocked' = [why_blocked EXCEPT ![th] = "BlockedOnSTM"]
          /\ GotoEntry(th, "revert", 1)
          /\ UNCHANGED <<watch, nest, torn>>
       \/ /\ op(th) \in {"validate", "throw"}
          /\ GotoEntry(th, "revert", 1)
          /\ UNCHANGED <<watch, nest, why_blocked, torn>>
    /\ UNCHANGED <<current_value, num_updates, inbox, tsoLock, heaps, since, committed, frames, done>>

(* mutant: every entry is reverted, locked by this record or not *)
OwnedUnchecked(th, e) == acquire_all(th) \/ entry_is_update(e)
Owned(th, e) == (acquire_all(th) \/ entry_is_update(e)) /\ current_value[e.tvar] = th

Revert(th) ==
    /\ pc(th) = "revert"
    /\ LET j == Seek(Entries(th), loc[th].i, LAMBDA e : Owned(th, e))
       IN  /\ j <= Len(Entries(th))
           /\ LET e == Entries(th)[j]
              IN  current_value' = [current_value EXCEPT ![e.tvar] = e.expected]
           /\ GotoEntry(th, "revert", j + 1)
    /\ UNCHANGED <<num_updates, watch, threadVars, histVars, nest, frames, done>>

(* Nothing is left to revert: the operation ends, or in a nest of          *)
(* transactions goes on with the enclosing record.                         *)
Reverted(th) ==
    /\ pc(th) = "revert"
    /\ Seek(Entries(th), loc[th].i, LAMBDA e : Owned(th, e)) > Len(Entries(th))
    /\ \/ /\ op(th) \in {"commit", "wait"} /\ ~loc[th].ok
          /\ StartTransaction(th)
          /\ UNCHANGED done
       \/ /\ op(th) = "commitNested"
          /\ nest' = [nest EXCEPT ![th] =
                 LET outer == SubSeq(@, 1, Len(@) - 1)
                 IN  Append(outer, NewTRec(Last(outer).state))]
          /\ loc' = [loc EXCEPT ![th] = At("run")]
          /\ UNCHANGED <<frames, since, done>>
       \/ /\ op(th) \in {"wait", "rewait"} /\ loc[th].ok
          /\ loc' = [loc EXCEPT ![th] = At("blocked")]
          /\ UNCHANGED <<nest, frames, since, done>>
       \/ /\ op(th) = "rewait" /\ ~loc[th].ok
          /\ GotoEntry(th, "unwatch", 1)
          /\ UNCHANGED <<nest, frames, since, done>>
       \/ /\ op(th) \in {"validate", "throw"} /\ loc[th].lvl > 1
          /\ loc' = [loc EXCEPT ![th].pc = "validate", ![th].i = 1, ![th].lvl = @ - 1]
          /\ UNCHANGED <<nest, frames, since, done>>
       \/ /\ op(th) = "validate" /\ loc[th].lvl = 1 /\ loc[th].ok
          /\ loc' = [loc EXCEPT ![th] = At("run")]
          /\ UNCHANGED <<nest, frames, since, done>>
       \/ /\ op(th) = "validate" /\ loc[th].lvl = 1 /\ ~loc[th].ok
          /\ nest' = [nest EXCEPT ![th] = <<[AbortToTop(@) EXCEPT !.state = "CONDEMNED"]>>]
          /\ frames' = [frames EXCEPT ![th] = <<>>]
          /\ loc' = [loc EXCEPT ![th] = At("getInvariants")]
          /\ UNCHANGED <<since, done>>
       \/ /\ op(th) = "throw" /\ loc[th].lvl = 1 /\ loc[th].ok
          /\ Leave(th)
          /\ UNCHANGED since
       \/ /\ op(th) = "throw" /\ loc[th].lvl = 1 /\ ~loc[th].ok
          /\ StartTransaction(th)
          /\ UNCHANGED done
    /\ UNCHANGED <<tvarVars, threadVars, heaps, torn, committed>>

-----------------------------------------------------------------------------
(* stmCommitTransaction, stmCommitNestedTransaction *)

(* check_read_only compares versions, not values. *)
CheckReadOnly(th) ==
    /\ pc(th) = "checkReads"
    /\ LET j == Seek(Entries(th), loc[th].i, entry_is_read_only)
       IN  /\ j <= Len(Entries(th))
           /\ LET e == Entries(th)[j]
              IN  IF num_updates[e.tvar] = e.num
                    THEN GotoEntry(th, "checkReads", j + 1) /\ UNCHANGED torn
                    ELSE Invalid(th) /\ torn' = [torn EXCEPT ![th] = {}]
    /\ UNCHANGED <<tvarVars, threadVars, heaps, since, committed, nest, frames, done>>

(* The read check succeeded: the transaction will commit. *)
Decide(th) ==
    /\ pc(th) = "checkReads"
    /\ Seek(Entries(th), loc[th].i, entry_is_read_only) > Len(Entries(th))
    /\ \/ /\ op(th) = "commit"
          /\ LET tr == TRec(th)
                 updates(x) == Has(tr, x) /\ entry_is_update(tr.entries[IndexOf(tr, x)])
                 new(x) == IF updates(x) THEN tr.entries[IndexOf(tr, x)].new ELSE Last(heaps)[x]
             IN  /\ heaps' = Append(heaps, [x \in TVar |-> new(x)])
                 /\ committed' = Append(committed,
                       [entries |-> [j \in DOMAIN tr.entries |-> [tr.entries[j] EXCEPT !.num = 0]],
                        since |-> since[th], at |-> Len(heaps)])
          /\ GotoEntry(th, "update", 1)
       \/ /\ op(th) = "commitNested"
          /\ GotoEntry(th, "merge", 1)
          /\ UNCHANGED <<heaps, committed>>
    /\ UNCHANGED <<tvarVars, threadVars, nest, frames, done, since, torn>>

(* The update loop: wake the waiters, count the update, store the value.   *)
Update(th) ==
    /\ pc(th) = "update"
    /\ LET j == Seek(Entries(th), loc[th].i, entry_is_update)
       IN  \/ /\ j > Len(Entries(th))
              /\ Leave(th)
           \/ /\ j <= Len(Entries(th))
              /\ loc' = [loc EXCEPT ![th].pc = "unpark", ![th].i = j,
                                    ![th].k = Len(watch[Entries(th)[j].tvar])]
              /\ UNCHANGED <<nest, frames, done>>
    /\ UNCHANGED <<tvarVars, threadVars, histVars>>

Waiter(th) == watch[Cur(th).tvar][loc[th].k]

(* unpark_waiters_on, from the last entry to the first: watcher_is_tso     *)
(* reads the info pointer, which is not a TSO's while the TSO is locked.   *)
UnparkWaiter(th) ==
    /\ pc(th) = "unpark"
    /\ \/ loc[th].k = 0 /\ Goto(th, "bump")
       \/ loc[th].k > 0 /\ ~tsoLock[Waiter(th)] /\ Goto(th, "unparkLock")
       \/ loc[th].k > 0 /\ tsoLock[Waiter(th)] /\ loc' = [loc EXCEPT ![th].k = @ - 1]
    /\ UNCHANGED <<tvarVars, threadVars, histVars, nest, frames, done>>

(* mutant: no message is sent *)
UnparkTSOSilent(th) ==
    /\ pc(th) = "unparkLock"
    /\ ~tsoLock[Waiter(th)]
    /\ loc' = [loc EXCEPT ![th].pc = "unpark", ![th].k = @ - 1]
    /\ UNCHANGED <<tvarVars, threadVars, histVars, nest, frames, done>>

(* unpark_tso under lockTSO: tryWakeupThread sends a MSG_TRY_WAKEUP.       *)
UnparkTSO(th) ==
    /\ pc(th) = "unparkLock"
    /\ ~tsoLock[Waiter(th)]
    /\ inbox' = IF why_blocked[Waiter(th)] = "BlockedOnSTM"
                  THEN [inbox EXCEPT ![Waiter(th)] = @ + 1] ELSE inbox
    /\ loc' = [loc EXCEPT ![th].pc = "unpark", ![th].k = @ - 1]
    /\ UNCHANGED <<tvarVars, why_blocked, tsoLock, histVars, nest, frames, done>>

BumpVersion(th) ==
    /\ pc(th) = "bump"
    /\ num_updates' = [num_updates EXCEPT ![Cur(th).tvar] = @ + 1]
    /\ Goto(th, "store")
    /\ UNCHANGED <<current_value, watch, threadVars, histVars, nest, frames, done>>

StoreValue(th) ==
    /\ pc(th) = "store"
    /\ current_value' = [current_value EXCEPT ![Cur(th).tvar] = Cur(th).new]
    /\ GotoEntry(th, "update", loc[th].i + 1)
    /\ UNCHANGED <<num_updates, watch, threadVars, histVars, nest, frames, done>>

(* mutant: the TVar is not unlocked *)
MergeEntryLocked(th) ==
    /\ pc(th) = "merge"
    /\ ~AtEnd(th)
    /\ nest' = [nest EXCEPT ![th][loc[th].lvl - 1] =
           merge_update_into(@, Cur(th).tvar, Cur(th).expected, Cur(th).new)]
    /\ GotoEntry(th, "merge", loc[th].i + 1)
    /\ UNCHANGED <<tvarVars, threadVars, histVars, frames, done>>

(* A nested commit: each entry is unlocked and merged into the parent.     *)
MergeEntry(th) ==
    /\ pc(th) = "merge"
    /\ ~AtEnd(th)
    /\ LET e == Cur(th)
       IN  /\ current_value' = IF entry_is_update(e)
                                 THEN [current_value EXCEPT ![e.tvar] = e.expected]
                                 ELSE current_value
           /\ nest' = [nest EXCEPT ![th][loc[th].lvl - 1] =
                  merge_update_into(@, e.tvar, e.expected, e.new)]
    /\ GotoEntry(th, "merge", loc[th].i + 1)
    /\ UNCHANGED <<num_updates, watch, threadVars, histVars, frames, done>>

NestedCommitted(th) ==
    /\ pc(th) = "merge"
    /\ AtEnd(th)
    /\ nest' = [nest EXCEPT ![th] = SubSeq(@, 1, Len(@) - 1)]
    /\ frames' = [frames EXCEPT ![th] = SubSeq(@, 1, Len(@) - 1)]
    /\ loc' = [loc EXCEPT ![th] = At("run")]
    /\ UNCHANGED <<tvarVars, threadVars, histVars, done>>

-----------------------------------------------------------------------------
(* Waiting *)

(* The Capability takes a MSG_TRY_WAKEUP from its inbox while the thread   *)
(* is not running: tryWakeupThread.                                        *)
Wakeup(th) ==
    /\ inbox[th] > 0
    /\ pc(th) \in {"idle", "run", "blocked", "resume"}
    /\ inbox' = [inbox EXCEPT ![th] = @ - 1]
    /\ IF why_blocked[th] = "BlockedOnSTM"
         THEN /\ why_blocked' = [why_blocked EXCEPT ![th] = "NotBlocked"]
              /\ Goto(th, "resume")
         ELSE UNCHANGED <<why_blocked, loc>>
    /\ UNCHANGED <<tvarVars, tsoLock, histVars, nest, frames, done>>

(* mutant: the woken thread sleeps again without looking *)
ResumeBlocks(th) ==
    /\ pc(th) = "resume"
    /\ why_blocked' = [why_blocked EXCEPT ![th] = "BlockedOnSTM"]
    /\ Goto(th, "blocked")
    /\ UNCHANGED <<tvarVars, inbox, tsoLock, histVars, nest, frames, done>>

(* stg_atomically_waiting_frame: stmReWait. *)
Resume(th) ==
    /\ pc(th) = "resume"
    /\ Validate(th, "rewait", 1)
    /\ UNCHANGED <<tvarVars, threadVars, histVars, nest, frames, done>>

(* remove_watch_queue_entries_for_trec: lock_tvar spins, the thread leaves *)
(* the queue, unlock_tvar.                                                 *)
UnwatchLock(th) ==
    /\ pc(th) = "unwatch"
    /\ ~AtEnd(th)
    /\ LET x == Cur(th).tvar
       IN  /\ current_value[x] \in Val
           /\ current_value' = [current_value EXCEPT ![x] = th]
           /\ loc' = [loc EXCEPT ![th].pc = "unwatchUnlock", ![th].saw = current_value[x]]
    /\ UNCHANGED <<num_updates, watch, threadVars, histVars, nest, frames, done>>

(* mutant: the thread stays in the watch queue *)
UnwatchUnlockKeeps(th) ==
    /\ pc(th) = "unwatchUnlock"
    /\ current_value' = [current_value EXCEPT ![Cur(th).tvar] = loc[th].saw]
    /\ loc' = [loc EXCEPT ![th].pc = "unwatch", ![th].i = @ + 1, ![th].saw = InitVal]
    /\ UNCHANGED <<num_updates, watch, threadVars, histVars, nest, frames, done>>
UnwatchUnlock(th) ==
    /\ pc(th) = "unwatchUnlock"
    /\ LET x == Cur(th).tvar
       IN  /\ watch' = [watch EXCEPT ![x] = RemoveFirst(@, th)]
           /\ current_value' = [current_value EXCEPT ![x] = loc[th].saw]
    /\ loc' = [loc EXCEPT ![th].pc = "unwatch", ![th].i = @ + 1, ![th].saw = InitVal]
    /\ UNCHANGED <<num_updates, threadVars, histVars, nest, frames, done>>

(* Off every queue: the transaction starts over, or the exception goes on. *)
Unwatched(th) ==
    /\ pc(th) = "unwatch"
    /\ AtEnd(th)
    /\ \/ /\ op(th) = "rewait"
          /\ StartTransaction(th)
          /\ UNCHANGED <<why_blocked, tsoLock, done>>
       \/ /\ op(th) = "throwTo"
          /\ Leave(th)
          /\ why_blocked' = [why_blocked EXCEPT ![th] = "NotBlocked"]
          /\ tsoLock' = [tsoLock EXCEPT ![th] = FALSE]
          /\ UNCHANGED since
    /\ UNCHANGED <<tvarVars, inbox, heaps, torn, committed>>

-----------------------------------------------------------------------------
(* throwToMsg on the target's own Capability, by the target's state.       *)

(* BlockedOnSTM: under lockTSO the exception is queued if the target is    *)
(* masked; else raiseAsync aborts the waiting transaction.                 *)
ThrowToBlocked(th) ==
    /\ "throwTo" \in Ops[th]
    /\ pc(th) = "blocked"
    /\ why_blocked[th] = "BlockedOnSTM"
    /\ tsoLock' = [tsoLock EXCEPT ![th] = TRUE]
    /\ loc' = [loc EXCEPT ![th] = IF th \in Masked THEN At("throwMasked")
                                  ELSE [At("unwatch") EXCEPT !.op = "throwTo"]]
    /\ UNCHANGED <<tvarVars, why_blocked, inbox, histVars, nest, frames, done>>

ThrowToMasked(th) ==
    /\ pc(th) = "throwMasked"
    /\ tsoLock' = [tsoLock EXCEPT ![th] = FALSE]
    /\ loc' = [loc EXCEPT ![th] = At("blocked")]
    /\ UNCHANGED <<tvarVars, why_blocked, inbox, histVars, nest, frames, done>>

(* mutant: a woken thread stays in the watch queues *)
ThrowToRunnableLeaves(th) ==
    /\ "throwTo" \in Ops[th]
    /\ th \notin Masked
    /\ pc(th) \in {"run", "resume"}
    /\ Leave(th)
    /\ UNCHANGED <<tvarVars, threadVars, histVars>>

(* NotBlocked: on the run queue, in the middle of its transaction or       *)
(* woken up and still on the watch queues.                                 *)
ThrowToRunnable(th) ==
    /\ "throwTo" \in Ops[th]
    /\ th \notin Masked
    /\ \/ pc(th) = "run" /\ Leave(th)
       \/ /\ pc(th) = "resume"
          /\ loc' = [loc EXCEPT ![th] = [At("unwatch") EXCEPT !.op = "throwTo"]]
          /\ UNCHANGED <<nest, frames, done>>
    /\ UNCHANGED <<tvarVars, threadVars, histVars>>

-----------------------------------------------------------------------------
Body(th) ==
    \/ Atomically(th)
    \/ \E x \in TVar : ReadTVar(th, x)
    \/ /\ pc(th) = "run"
       /\ \E w \in Writes[th][done[th] + 1] : WriteTVar(th, w[1], w[2])
    \/ \E f \in {"first", "catch"} : StartNested(th, f)
    \/ Return(th) \/ Retry(th) \/ Throw(th) \/ Yield(th)

(* What the run-time system does by itself once an operation has begun.    *)
Step(th) ==
    \/ GetInvLock(th) \/ GetInvUnlock(th)
    \/ ValidateEntry(th) \/ ReadVersion(th) \/ Recheck(th)
    \/ ValidateCondemned(th) \/ Validated(th) \/ Revert(th) \/ Reverted(th)
    \/ CheckReadOnly(th) \/ Decide(th) \/ Update(th)
    \/ UnparkWaiter(th) \/ UnparkTSO(th) \/ BumpVersion(th) \/ StoreValue(th)
    \/ MergeEntry(th) \/ NestedCommitted(th)
    \/ Resume(th) \/ UnwatchLock(th) \/ UnwatchUnlock(th) \/ Unwatched(th)
    \/ ThrowToMasked(th)

Next == /\ \E th \in Thread : Body(th) \/ Step(th) \/ Wakeup(th)
                              \/ ThrowToBlocked(th) \/ ThrowToRunnable(th)
        /\ UNCHANGED scenario

Spec == Init /\ [][Next]_vars

(* A Capability that has work keeps running, and reads its inbox.          *)
FairSpec == Spec /\ \A th \in Thread : /\ WF_vars(Step(th) /\ UNCHANGED scenario)
                                       /\ WF_vars(Wakeup(th) /\ UNCHANGED scenario)

-----------------------------------------------------------------------------
(* Properties *)

TRecState == {"ACTIVE", "CONDEMNED", "WAITING"}
IsEntry(e) == /\ e.tvar \in TVar /\ e.expected \in Val /\ e.new \in Val
              /\ e.num \in Nat

(* Every variable has values of its type; above all, a transaction record  *)
(* never takes the lock of a TVar for a value (read_current_value).        *)
TypeOK ==
    /\ scenario \in Scenarios
    /\ current_value \in [TVar -> Val \cup Thread]
    /\ num_updates \in [TVar -> Nat]
    /\ \A x \in TVar : watch[x] \in Seq(Thread)
    /\ \A th \in Thread : \A d \in DOMAIN nest[th] :
          /\ nest[th][d].state \in TRecState
          /\ \A j \in DOMAIN nest[th][d].entries : IsEntry(nest[th][d].entries[j])
    /\ \A th \in Thread : frames[th] \in Seq({"first", "alt", "catch"})
    /\ \A th \in Thread :
          /\ loc[th].pc \in PC /\ loc[th].op \in Op
          /\ loc[th].lvl \in Nat /\ loc[th].i \in Nat /\ loc[th].k \in Nat
          /\ loc[th].saw \in Val /\ loc[th].ok \in BOOLEAN
    /\ why_blocked \in [Thread -> {"NotBlocked", "BlockedOnSTM"}]
    /\ inbox \in [Thread -> Nat]
    /\ tsoLock \in [Thread -> BOOLEAN]
    /\ \A th \in Thread : done[th] \in 0..Len(Writes[th])

Heap == Last(heaps)
Committing(th) == pc(th) \in {"update", "unpark", "unparkLock", "bump", "store"}

(* unlock_tvar, revert_ownership, the update loop: whoever holds a TVar    *)
(* will put back exactly what committed transactions have left in it (its  *)
(* own update, if it has decided to commit), and a TVar that nobody holds  *)
(* contains just that.  So a lock is never leaked to a thread that is done *)
(* with it, and giving up never undoes somebody else's update.             *)
LocksRestore ==
    \A x \in TVar :
        \/ current_value[x] = Heap[x]
        \/ \E th \in Thread :
             /\ current_value[x] = th
             /\ nest[th] # <<>>
             /\ Has(TRec(th), x)
             /\ LET e == TRec(th).entries[IndexOf(TRec(th), x)]
                IN  \/ Committing(th) /\ e.new = Heap[x]
                    \/ /\ pc(th) \in {"getInvUnlock", "unwatchUnlock"}
                       /\ loc[th].saw = Heap[x]
                    \/ /\ pc(th) \in {"validate", "readVersion", "recheck", "revert",
                                      "checkReads", "merge"}
                       /\ e.expected = Heap[x]

Holds(h, e) == h[e.tvar] = e.expected
Sees(c, h) == \A j \in DOMAIN c.entries : Holds(h, c.entries[j])

(* No TVar goes back to a value it had before: no ABA.                     *)
AlwaysNew ==
    \A x \in TVar : \A h1, h3 \in DOMAIN heaps :
        h1 < h3 /\ heaps[h1][x] = heaps[h3][x]
        => \A h2 \in h1..h3 : heaps[h2][x] = heaps[h1][x]

(* "all of them contained their expected values at the start of the call   *)
(* to check_read_only" (STM.c, check_read_only): when no version has moved, *)
(* the end of the validation is an instant at which every TVar of the      *)
(* record contained what the transaction had read.                         *)
AtomicSnapshot ==
    \A th \in Thread :
        /\ pc(th) = "checkReads"
        /\ Seek(Entries(th), loc[th].i, entry_is_read_only) > Len(Entries(th))
        => torn[th] = {}

(* What validate_and_acquire_ownership with check_read_only guarantees the *)
(* transactions that commit: a snapshot of the contents of the TVars; what *)
(* they update had not changed since they read it, so no update is lost;   *)
(* and, when every committed value is new, one state between two commits   *)
(* of their run that shows all they have read.                             *)
SnapshotIsolation ==
    /\ AtomicSnapshot
    /\ \A n \in DOMAIN committed :
          LET c == committed[n]
          IN  /\ \A m \in DOMAIN c.entries :
                    entry_is_update(c.entries[m]) => Holds(heaps[c.at], c.entries[m])
              /\ AlwaysNew => \E h \in c.since..c.at : Sees(c, heaps[h])

(* The replay of the committed transactions in the order perm.             *)
Explains(perm) ==
    LET n == Len(committed)
        apply(h, c) == [x \in TVar |->
            LET hits == {j \in DOMAIN c.entries : c.entries[j].tvar = x}
            IN  IF hits = {} THEN h[x] ELSE c.entries[CHOOSE j \in hits : TRUE].new]
        H[m \in 0..n] == IF m = 0 THEN heaps[1] ELSE apply(H[m - 1], committed[perm[m]])
    IN  \A m \in 1..n : Sees(committed[perm[m]], H[m - 1])

(* "This forms the linearization point of the commit" (STM.c,              *)
(* stmCommitTransaction): some order of the committed transactions, each   *)
(* at one instant, explains everything they read.                          *)
Serializable == \E perm \in Permutations(DOMAIN committed) : Explains(perm)

(* c holds x, has decided to update it and has yet to look at th's entry   *)
(* in the watch queue.                                                     *)
WillUnpark(c, th, x) ==
    /\ Committing(c)
    /\ LET j == IndexOf(TRec(c), x)
       IN  \/ j > loc[c].i
           \/ j = loc[c].i /\ pc(c) = "update"
           \/ /\ j = loc[c].i /\ pc(c) \in {"unpark", "unparkLock"}
              /\ \E q \in 1..loc[c].k : watch[x][q] = th

Asleep(th) == pc(th) = "blocked" /\ why_blocked[th] = "BlockedOnSTM"
Outdated(th) == \E j \in DOMAIN nest[th][1].entries : ~Holds(Heap, nest[th][1].entries[j])

(* stmWait, stmReWait, unpark_waiters_on, tryWakeupThread: a thread asleep *)
(* on a TVar that has changed under it has a wake-up on the way, or the    *)
(* transaction that changed it is about to send one.  A thread that masks  *)
(* exceptions is excepted: while throwTo holds its TSO only to queue the   *)
(* exception, watcher_is_tso does not take it for a TSO and passes it by.  *)
NoLostWakeup ==
    \A th \in Thread \ Masked : Asleep(th) /\ inbox[th] = 0 =>
        \A j \in DOMAIN nest[th][1].entries :
            LET e == nest[th][1].entries[j]
            IN  \/ Holds(Heap, e)
                \/ /\ current_value[e.tvar] \in Thread
                   /\ WillUnpark(current_value[e.tvar], th, e.tvar)

(* th waits for x, and has not yet left its queue on the way out. *)
WaitsFor(th, x) ==
    /\ nest[th] # <<>>
    /\ nest[th][1].state = "WAITING"
    /\ Has(nest[th][1], x)
    /\ pc(th) \in {"unwatch", "unwatchUnlock"} => IndexOf(nest[th][1], x) >= loc[th].i

(* build_ and remove_watch_queue_entries_for_trec: a thread is in the      *)
(* watch queue of a TVar once while its record waits for it, and never     *)
(* otherwise: no queue points to a thread that went on.                    *)
WatchersWait ==
    \A x \in TVar, th \in Thread :
        Cardinality({q \in DOMAIN watch[x] : watch[x][q] = th}) =
            IF WaitsFor(th, x) THEN 1 ELSE 0

(* Exception.cmm, stg_raisezh, on the record an exception finds at the     *)
(* atomically frame: "trec" will either be a top-level transaction running *)
(* the atomic block, or a nested transaction running an invariant check.   *)
(* Each frame of orElse and catchSTM has its own nested record.            *)
FramesMatchNest ==
    \A th \in Thread : nest[th] # <<>> => Len(nest[th]) = Len(frames[th]) + 1

(* The transaction records, the stack frames and the watch queues fit      *)
(* together at every step of nesting, aborting, waiting and waking         *)
(* (stmStartTransaction to stmReWait, Exception.cmm, RaiseAsync.c).        *)
Consistent == TypeOK /\ FramesMatchNest /\ WatchersWait

Touched(n) == {x \in TVar : \E d \in DOMAIN n : Has(n[d], x)}

(* stmAbortTransaction, stmCommitNestedTransaction: what a branch has read *)
(* stays in the read set of the attempt when the branch is given up for    *)
(* another, for a handler or for waiting, and when it commits: the choice  *)
(* of the other branch depended on it.  Only code that runs again from its *)
(* start forgets what it read.                                             *)
ReadSetKept ==
    [][\A th \in Thread :
          pc(th) \in {"run", "merge"} /\ nest'[th] # <<>>
          => Touched(nest[th]) \subseteq Touched(nest'[th])]_vars

(* c commits, holds a TVar and wants the TSO lock of w; throwTo holds the  *)
(* TSO lock of w and wants that TVar.                                      *)
LockCycle(c, w) ==
    /\ pc(c) = "unparkLock" /\ Waiter(c) = w /\ tsoLock[w]
    /\ pc(w) = "unwatch" /\ ~AtEnd(w)
    /\ current_value[Cur(w).tvar] = c

(* "Unblocking a TSO from BlockedOnSTM is done under the TSO lock, ... to  *)
(* synchronise with throwTo()" (STM.c, unpark_tso): not so, the two can    *)
(* wait for each other for ever.                                           *)
NoLockCycle == ~ \E c, w \in Thread : LockCycle(c, w)

(* stmWait to stmReWait: a thread asleep on a TVar that has changed runs   *)
(* again, its transaction from the start or the handler of the exception   *)
(* that was thrown to it, or is asleep again with the values back that it  *)
(* read.  Left out are a LockCycle, in which everybody who needs one of    *)
(* the two locks spins for ever, and the exception of NoLostWakeup.        *)
SleepersWake ==
    \A th \in Thread :
        Asleep(th) /\ Outdated(th) /\ th \notin Masked
        ~> \/ pc(th) \in {"run", "idle"}
           \/ Asleep(th) /\ ~Outdated(th)
           \/ \E c, w \in Thread : LockCycle(c, w)
=============================================================================
