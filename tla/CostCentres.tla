----------------------------- MODULE CostCentres -----------------------------
(* Cost-centre stacks (rts/Profiling.c, rts/Proftimer.c).  The stacks form  *)
(* a tree.  Pushing a cost centre on a stack is memoized in the stack's     *)
(* indexTable, which is read without a lock and extended under ccs_mutex;   *)
(* an entry for a cost centre that is already on the stack is a back edge.  *)
(* At the end the costs are summed up along the tree.                       *)
(*                                                                          *)
(* Stacks are numbered as they are created, 0 is EMPTY_STACK.  What a       *)
(* Capability does to its rCCCS is a sequence of pushes, each of which      *)
(* looks into the table and, if it must, takes the lock.                    *)
EXTENDS Integers, Sequences, FiniteSets, SequencesExt, FiniteSetsExt

CONSTANTS Scenarios,       \* Capabilities, user's cost centres, doCostCentres and a bound on operations
          MaxTicks         \* bound on the ticks

VARIABLES ccs,             \* the stacks
          rCCCS,           \* the current one of each Capability
          pushing,         \* what a Capability is pushing: the stack so far, the cost centres
                           \* that follow, and the table it has looked into
          entered,         \* history: the stacks of the last enterFunCCS of a Capability
          ticked,          \* history: the ticks of stacks that are reported
          report,          \* what reportCCSProfiling has printed
          done,            \* the number of operations
          stale,           \* history: a stack was made that the table it was looked up in did not have yet
          scene

vars == <<ccs, rCCCS, pushing, entered, ticked, report, done, stale, scene>>

CCS_MAIN == 1
CCS_SYSTEM == 2
CCS_OVERHEAD == 3
CCS_IDLE == 4
CCS_CAF == 5             \* of a module with a CAF
Predefined == <<"MAIN", "SYSTEM", "OVERHEAD", "IDLE", "CAF">>
CC_LIST == Predefined \o scene.user
is_caf(cc) == cc = "CAF"
Cap == 1..scene.caps
All == 3                 \* COST_CENTRES_ALL
Idle == [on |-> 0, todo |-> <<>>, seen |-> <<>>, locking |-> FALSE]
Never == <<0, 0>>

-----------------------------------------------------------------------------
(* The tree. *)

Stack(cc, prev, root, depth) ==
  [cc |-> cc, prevStack |-> prev, root |-> root, depth |-> depth, indexTable |-> <<>>,
   scc_count |-> 0, time_ticks |-> 0, mem_alloc |-> 0]

addToIndexTable(t, new, cc, back) == <<[cc |-> cc, ccs |-> new, back_edge |-> back]>> \o t

isInIndexTable(t, cc) ==
  LET is == {i \in DOMAIN t : t[i].cc = cc} IN IF is = {} THEN 0 ELSE t[Min(is)].ccs

\* The tree with a new stack, whose parent knows it.
actualPush(tree, s, cc) ==
  Append([tree EXCEPT ![s].indexTable = addToIndexTable(@, Len(tree) + 1, cc, FALSE)],
         Stack(cc, s, tree[s].root, tree[s].depth + 1))

\* The stack itself and those below it, the root last.
Chain(s) == LET c[n \in 0..Len(ccs)] == IF n = 0 THEN <<>> ELSE <<n>> \o c[ccs[n].prevStack] IN c[s]

checkLoop(s, cc) ==
  LET is == {i \in DOMAIN Chain(s) : ccs[Chain(s)[i]].cc = cc} IN IF is = {} THEN 0 ELSE Chain(s)[Min(is)]

\* CCS_MAIN and its children, which are roots of their own.
initProfiling2 ==
  ccs = [s \in DOMAIN Predefined |->
           [Stack(Predefined[s], IF s = 1 THEN 0 ELSE CCS_MAIN, s, IF s = 1 THEN 0 ELSE 1) EXCEPT
              !.indexTable = IF s = 1 THEN [i \in 1..Len(Predefined) - 1 |->
                               [cc |-> Predefined[i + 1], ccs |-> i + 1, back_edge |-> FALSE]] ELSE <<>>]]

Init ==
  /\ scene \in Scenarios
  /\ initProfiling2
  /\ rCCCS = [c \in Cap |-> CCS_MAIN]
  /\ pushing = [c \in Cap |-> Idle] /\ entered = [c \in Cap |-> Never]
  /\ ticked = 0 /\ done = 0 /\ stale = FALSE /\ report = [out |-> FALSE]

-----------------------------------------------------------------------------
(* The program. *)

Running(c) == pushing[c] = Idle /\ ~report.out
Starts == done < scene.ops /\ done' = done + 1

\* emitSetCCC: an scc annotation.
Scc(c, cc) ==
  /\ Running(c) /\ Starts
  /\ pushing' = [pushing EXCEPT ![c] = [Idle EXCEPT !.on = rCCCS[c], !.todo = <<cc>>]]
  /\ entered' = [entered EXCEPT ![c] = Never]
  /\ UNCHANGED <<ccs, rCCCS, ticked, report, stale, scene>>

\* A thunk or a continuation brings its own stack.
Return(c, s) ==
  /\ Running(c) /\ Starts /\ rCCCS[c] # s
  /\ rCCCS' = [rCCCS EXCEPT ![c] = s]
  /\ entered' = [entered EXCEPT ![c] = Never]
  /\ UNCHANGED <<ccs, pushing, ticked, report, stale, scene>>

\* The stacks of fn above the first that app's stack of the same depth is: they
\* are pushed on app.
enterFunEqualStacks(app, fn) ==
  LET a == Reverse(Chain(app))
      f == Reverse(Chain(fn))
      n == CHOOSE k \in 0..Len(f) :
             /\ k > 0 => k <= Len(a) /\ a[k] = f[k]
             /\ \A m \in k + 1..Len(f) : m > Len(a) \/ a[m] # f[m]
  IN  [i \in 1..Len(f) - n |-> ccs[f[n + i]].cc]

\* The stacks of fn above app itself, CCS_MAIN or a CAF.
appendCCS(app, fn) ==
  LET f == Chain(fn)
      n == Min({i \in DOMAIN f : f[i] = app \/ f[i] = CCS_MAIN \/ is_caf(ccs[f[i]].cc)})
  IN  Reverse([i \in 1..n - 1 |-> ccs[f[i]].cc])

enterFunCCS(c, fn) ==
  LET app == rCCCS[c] IN
  /\ Running(c) /\ Starts
  /\ entered' = [entered EXCEPT ![c] = <<app, fn>>]
  /\ \/ /\ fn = app \/ ccs[fn].prevStack = CCS_MAIN
        /\ UNCHANGED <<rCCCS, pushing>>
     \/ /\ fn # app /\ ccs[fn].prevStack # CCS_MAIN
        /\ rCCCS' = [rCCCS EXCEPT ![c] = CCS_OVERHEAD]
        /\ pushing' = [pushing EXCEPT ![c] =
             [Idle EXCEPT !.on = app, !.todo = IF ccs[fn].root # ccs[app].root THEN appendCCS(app, fn)
                                               ELSE enterFunEqualStacks(app, fn)]]
  /\ UNCHANGED <<ccs, ticked, report, stale, scene>>

\* The last push has returned.
Entered(c) ==
  /\ pushing[c].on # 0 /\ pushing[c].todo = <<>>
  /\ rCCCS' = [rCCCS EXCEPT ![c] = pushing[c].on]
  /\ pushing' = [pushing EXCEPT ![c] = Idle]
  /\ ccs' = IF entered[c] = Never THEN [ccs EXCEPT ![pushing[c].on].scc_count = @ + 1] ELSE ccs
  /\ UNCHANGED <<entered, ticked, report, done, stale, scene>>

Pushed(c, s) == pushing' = [pushing EXCEPT ![c] = [Idle EXCEPT !.on = s, !.todo = Tail(pushing[c].todo)]]

\* Without the lock: the cost centre is on top, or the table knows the stack.
pushCostCentre(c) ==
  LET s == pushing[c].on
      cc == Head(pushing[c].todo)
      found == IF ccs[s].cc = cc THEN s ELSE isInIndexTable(ccs[s].indexTable, cc)
  IN  /\ s # 0 /\ pushing[c].todo # <<>> /\ ~pushing[c].locking
      /\ \/ found # 0 /\ Pushed(c, found)
         \/ /\ found = 0
            /\ pushing' = [pushing EXCEPT ![c].seen = ccs[s].indexTable, ![c].locking = TRUE]
      /\ UNCHANGED <<ccs, rCCCS, entered, ticked, report, done, stale, scene>>

\* With ccs_mutex.  If somebody else has extended the table, the table that was
\* read before is searched again.
PushLocked(c) ==
  LET s == pushing[c].on
      cc == Head(pushing[c].todo)
      again == IF ccs[s].indexTable # pushing[c].seen THEN isInIndexTable(pushing[c].seen, cc) ELSE 0
      loop == checkLoop(s, cc)
  IN  /\ pushing[c].locking
      /\ \/ again # 0 /\ Pushed(c, again) /\ UNCHANGED ccs
         \/ /\ again = 0 /\ loop # 0
            /\ ccs' = [ccs EXCEPT ![s].indexTable = addToIndexTable(@, loop, cc, TRUE)]
            /\ Pushed(c, loop)
         \/ again = 0 /\ loop = 0 /\ ccs' = actualPush(ccs, s, cc) /\ Pushed(c, Len(ccs) + 1)
      /\ stale' = (stale \/ (again = 0 /\ loop = 0 /\ isInIndexTable(ccs[s].indexTable, cc) # 0))
      /\ UNCHANGED <<rCCCS, entered, ticked, report, done, scene>>

\* CCS_ALLOC: not atomic, so an update may be lost when there is another Capability.
Alloc(c) ==
  /\ Running(c) /\ Starts
  /\ \E words \in IF scene.caps > 1 THEN {0, 1} ELSE {1} : ccs' = [ccs EXCEPT ![rCCCS[c]].mem_alloc = @ + words]
  /\ UNCHANGED <<rCCCS, pushing, entered, ticked, report, stale, scene>>

-----------------------------------------------------------------------------
(* Ticks and the report. *)

ignoreCCS(s) == scene.doCostCentres < All /\ s \in {CCS_OVERHEAD, CCS_SYSTEM}

\* The ticker goes through all Capabilities.
handleProfTick ==
  /\ ~report.out /\ SumFunction([s \in DOMAIN ccs |-> ccs[s].time_ticks]) < MaxTicks * scene.caps
  /\ ccs' = [s \in DOMAIN ccs |-> [ccs[s] EXCEPT !.time_ticks = @ + Cardinality({c \in Cap : rCCCS[c] = s})]]
  /\ ticked' = ticked + Cardinality({c \in Cap : ~ignoreCCS(rCCCS[c])})
  /\ UNCHANGED <<rCCCS, pushing, entered, report, done, stale, scene>>

Children(s) == LET t == SelectSeq(ccs[s].indexTable, LAMBDA e : ~e.back_edge) IN [i \in DOMAIN t |-> t[i].ccs]
Total(seq) == SumFunction(seq)

countTickss == LET sum[s \in DOMAIN ccs] == (IF ignoreCCS(s) THEN 0 ELSE ccs[s].time_ticks)
                                            + Total([i \in DOMAIN Children(s) |-> sum[Children(s)[i]]])
               IN  sum[CCS_MAIN]

inheritCosts ==
  LET sum[s \in DOMAIN ccs] ==
        IF ignoreCCS(s) THEN 0
        ELSE ccs[s].time_ticks + Total([i \in DOMAIN Children(s) |-> sum[Children(s)[i]]])
  IN  sum

\* The costs of a cost centre: those of all its stacks that the tree leads to.
Reached == LET all[s \in DOMAIN ccs] == <<s>> \o FlattenSeq([i \in DOMAIN Children(s) |-> all[Children(s)[i]]])
           IN  all[CCS_MAIN]
aggregateCCCosts ==
  LET reached == Reached
  IN  [cc \in Range(CC_LIST) |->
         FoldLeft(LAMBDA sum, s : sum + (IF ccs[s].cc = cc THEN ccs[s].time_ticks ELSE 0), 0, reached)]

insertCCInSortedList(list, cc, cost) ==
  LET later == {i \in DOMAIN list : cost[cc] > cost[list[i]]}
  IN  IF later = {} THEN Append(list, cc) ELSE InsertAt(list, Min(later), cc)

\* More than 1 % of the ticks.
reportPerCCCosts(total) ==
  LET cost == aggregateCCCosts
      worth == SelectSeq(CC_LIST, LAMBDA cc : cost[cc] > total \div 100 \/ scene.doCostCentres >= All)
  IN  FoldLeft(LAMBDA list, cc : insertCCInSortedList(list, cc, cost), <<>>, worth)

\* The stacks that are left, apart from those that are ignored.
pruneCCSTree ==
  LET keeps[s \in DOMAIN ccs] ==
        \/ scene.doCostCentres >= All
        \/ \E i \in DOMAIN Children(s) : keeps[Children(s)[i]]
        \/ \E i \in DOMAIN ccs[s].indexTable : ccs[s].indexTable[i].back_edge
        \/ ccs[s].scc_count + ccs[s].time_ticks + ccs[s].mem_alloc > 0
  IN  {s \in DOMAIN ccs : keeps[s]}
logCCS == {s \in pruneCCSTree : ~ignoreCCS(s)}

reportCCSProfiling ==
  /\ \A c \in Cap : Running(c)
  /\ report' = IF scene.doCostCentres = 0 THEN [out |-> TRUE, total |-> countTickss]
               ELSE [out |-> TRUE, total |-> countTickss, perCC |-> reportPerCCCosts(countTickss),
                     inherited |-> inheritCosts, printed |-> logCCS]
  /\ UNCHANGED <<ccs, rCCCS, pushing, entered, ticked, done, stale, scene>>

Next ==
  \/ \E c \in Cap : \/ \E cc \in Range(scene.user) : Scc(c, cc)
                    \/ \E s \in DOMAIN ccs \ {CCS_OVERHEAD, CCS_SYSTEM, CCS_IDLE} : Return(c, s) \/ enterFunCCS(c, s)
                    \/ Entered(c) \/ pushCostCentre(c) \/ PushLocked(c) \/ Alloc(c)
  \/ handleProfTick \/ reportCCSProfiling

-----------------------------------------------------------------------------

\* The tree and the tables agree: a child has its parent below it, a back edge
\* leads to the stack that ends with the cost centre, no cost centre is twice on
\* a stack, and each stack is the child of exactly one entry, so that walking
\* through the tree meets all of them once.
TreeSound ==
  /\ \A s \in DOMAIN ccs : \E below \in {Chain(s)} :
       /\ Len(below) = ccs[s].depth + 1 /\ Cardinality({ccs[x].cc : x \in Range(below)}) = Len(below)
       /\ ccs[s].root \in Range(below)
       /\ \A t \in Range(ccs[s].indexTable) :
            /\ ccs[t.ccs].cc = t.cc
            /\ IF t.back_edge THEN t.ccs \in Range(below) ELSE ccs[t.ccs].prevStack = s
  /\ LET met == FlattenSeq([s \in DOMAIN ccs |-> Children(s)])
     IN  Len(met) = Len(ccs) - 1 /\ Range(met) = DOMAIN ccs \ {CCS_MAIN}

\* There is one stack for each sequence of cost centres, unless two Capabilities have made the
\* same one at once (stale): under the lock the table is searched that was read before it.
Path(s) == LET c == Reverse(Chain(s)) IN [i \in 1..Len(c) - 1 |-> ccs[c[i + 1]].cc]
OneStackEach == ~stale => Cardinality({Path(s) : s \in DOMAIN ccs}) = Len(ccs)

\* "someone modified ccs->indexTable while we did not hold the lock, so we must check it again."
\* TLC refutes that this finds what the other has made.
CheckedAgain == ~stale

\* Entering a function: "ccs ++> ccsfn = ccs ++ dropCommonPrefix ccs ccsfn", cost
\* centre by cost centre, where one that is on the stack already truncates it; between a stack of
\* MAIN and one of a CAF nothing is common, and the CAF itself is not pushed.
Truncating(p, cc) == IF cc \in Range(p) THEN SubSeq(p, 1, CHOOSE i \in DOMAIN p : p[i] = cc) ELSE Append(p, cc)
FromCaf(p) == p # <<>> /\ is_caf(p[1])
dropCommonPrefix(p, q) ==
  LET same == Max({k \in 0..Len(q) : k <= Len(p) /\ SubSeq(p, 1, k) = SubSeq(q, 1, k)}) IN SubSeq(q, same + 1, Len(q))
Documented(p, q) ==
  FoldLeft(Truncating, p, IF FromCaf(p) = FromCaf(q) THEN dropCommonPrefix(p, q)
                          ELSE IF FromCaf(q) THEN Tail(q) ELSE q)

\* "common case 2: the function stack is empty, or just CAF" is taken for every stack of one cost
\* centre, which is then not pushed.
JustOne(q) == Len(q) = 1 /\ ~FromCaf(q)

AsDocumented(c) == Path(rCCCS[c]) = Documented(Path(entered[c][1]), Path(entered[c][2]))
Settled(c) == entered[c] # Never /\ pushing[c] = Idle

\* Left out: a function's stack of JustOne cost centre, and stacks that were made twice (stale).
EnteredAsDocumented ==
  \A c \in Cap : Settled(c) /\ ~stale => JustOne(Path(entered[c][2])) \/ AsDocumented(c)

\* The same without the first exception, "<a,b,c> ++> <d> = <a,b,c,d>".  TLC refutes it.
EnteredAlways == \A c \in Cap : Settled(c) /\ ~stale => AsDocumented(c)

\* The report accounts for every tick, once: the total, what CCS_MAIN inherits and
\* the cost centres together, and no stack with costs of its own, nor one that
\* leads to it, is left out.
Costs(s) == ccs[s].scc_count + ccs[s].time_ticks + ccs[s].mem_alloc
ReportComplete ==
  /\ report.out => report.total = ticked
  /\ report.out /\ scene.doCostCentres # 0 => \E cost \in {aggregateCCCosts} :
       /\ report.inherited[CCS_MAIN] = ticked
       /\ SumFunction(cost) = SumFunction([s \in DOMAIN ccs |-> ccs[s].time_ticks])
       /\ Range(report.perCC) = {cc \in DOMAIN cost : cost[cc] > ticked \div 100 \/ scene.doCostCentres >= All}
       /\ \A i, j \in DOMAIN report.perCC : i < j => cost[report.perCC[i]] >= cost[report.perCC[j]]
       /\ \A s \in DOMAIN ccs : Costs(s) > 0 /\ ~ignoreCCS(s) => Range(Chain(s)) \subseteq report.printed

CostsSound == TreeSound /\ OneStackEach /\ EnteredAsDocumented /\ ReportComplete
=============================================================================
