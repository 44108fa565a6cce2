------------------------------- MODULE GranSim -------------------------------
(***************************************************************************)
(* GranSim, the discrete-event simulator of a parallel machine             *)
(* (rts/parallel/GranSim.c with the GRAN halves of Pack.c and RBH.c).      *)
(*                                                                         *)
(* Every PE has a clock, a run queue, a spark queue and a status; all of   *)
(* them share one event queue.  A closure carries the set of PEs it is on. *)
(* The state of the simulator is one record, and a C function is an        *)
(* operator from records to records; where the code calls random() it is   *)
(* an operator to sets of records.                                         *)
(*                                                                         *)
(* The event loop (ReSchedule), the spark queue functions and the threaded *)
(* code that calls GranSimFetch and friends are not in the repository.     *)
(* They are modelled from how GranSim.c uses them and are the part of the  *)
(* module after the line "external".  GranSim Light is left out.           *)
(*                                                                         *)
(* A program is a DAG of thunks: entering one sparks some closures, then   *)
(* needs the values of others, in order.                                   *)
(***************************************************************************)
EXTENDS Integers, Sequences, FiniteSets, SequencesExt, FiniteSetsExt

CONSTANTS proc,        \* RtsFlags.GranFlags.proc, the number of PEs
          Costs,       \* RtsFlags.GranFlags.Costs and time_slice
          Setups,      \* the options and programs that are tried
          Horizon      \* bound: no event later than this is handled

VARIABLES gflags,      \* the other GranFlags and the program; never changes
          sim          \* the state of the simulator

gvars == <<gflags, sim>>

PEs == 0 .. proc - 1
MainProc == 0
NoTSO == 0
Closures == DOMAIN gflags.needs

rtsEvent(p, creator, time, type, tso, node, spark) ==
  [proc |-> p, creator |-> creator, time |-> time, evttype |-> type,
   tso |-> tso, node |-> node, spark |-> spark]

-----------------------------------------------------------------------------
(* Global addresses: the bit mask of the PEs a closure is on. *)

where_is(s, n) == Min(s.heap[n].procs)
IS_LOCAL_TO(s, n, p) == p \in s.heap[n].procs
is_unique(s, n) == Cardinality(s.heap[n].procs) = 1

IS_BLACK_HOLE(s, n) == s.heap[n].kind \in {"bh", "bq", "rbh"}
closure_HNF(s, n) == s.heap[n].kind = "hnf"
closure_SHOULD_SPARK(s, n) == s.heap[n].kind = "thunk"

idlers(s) == Cardinality({p \in PEs : s.stat[p] = "Idle"})

-----------------------------------------------------------------------------
(* The event queue. *)

\* Whether the loop of insert_event walks past the event x to insert e.
Passes(e, x) ==
  \/ x.time < e.time
  \/ /\ x.time = e.time
     /\ CASE e.evttype = "FindWork" -> x.evttype # "ContinueThread"
          [] e.evttype = "ContinueThread" -> TRUE
          [] OTHER -> x.evttype = e.evttype

insert_event(q, e) ==
  InsertAt(q, Min({i \in DOMAIN q : ~ Passes(e, q[i])} \cup {Len(q) + 1}), e)

new_event(s, p, creator, time, type, tso, node, spark) ==
  [s EXCEPT !.evq =
     insert_event(@, rtsEvent(p, creator, time, type, tso, node, spark))]

get_time_of_next_event(q) ==
  LET notable == SelectSeq(q, LAMBDA e : e.evttype # "ContinueThread")
  IN  IF notable = <<>> THEN 0 ELSE Head(notable).time

prune_eventq(s, t) ==
  [s EXCEPT !.evq =
     SelectSeq(@, LAMBDA e : ~ (e.evttype = "ContinueThread" /\ e.tso = t))]

Charge(s, p, cost) == [s EXCEPT !.clock[p] = @ + cost]
Later(s, p, q) == Max({s.clock[p], s.clock[q]})

-----------------------------------------------------------------------------
(* Run queues. *)

\* The queue is only searched for a place by priority, and never before the
\* first thread; count is the number of threads that were passed.
insertThread(s, t, p) ==
  LET q == s.runq[p]
      sorted == gflags.DoPriorityScheduling /\ s.tso[t].pri # 0
      found == {i \in 2 .. Len(q) : sorted /\ s.tso[t].pri >= s.tso[q[i]].pri}
      place == IF found = {} THEN Len(q) + 1 ELSE Min(found)
      count == IF q # <<>> /\ sorted THEN place - 2 ELSE 0
  IN  Charge([s EXCEPT !.runq[p] = InsertAt(q, place, t)], p,
             count * Costs.pri_sched_overhead + Costs.threadqueuetime)

endThread(s, p) ==
  IF s.runq[p] = <<>> THEN [s EXCEPT !.stat[p] = "Idle"] ELSE s

ActivateNextThread(s, p) ==
  IF s.runq[p] = <<>>
  THEN [s EXCEPT !.stat[p] = "Idle"]
  ELSE Charge(s, p, Costs.threadcontextswitchtime)

GranSimBlock(s, p) == ActivateNextThread(Charge(s, p, Costs.threadqueuetime), p)

-----------------------------------------------------------------------------
(* External: functions of Schedule.c and Sparks.c that GranSim.c calls.     *)

add_to_spark_queue(s, p, n) ==
  [s EXCEPT !.sparks[p] = Append(@, n), !.SparksAvail = @ + 1]

delete_from_sparkq(s, p, i) == [s EXCEPT !.sparks[p] = RemoveAt(@, i)]

createThread(s, n, p) ==
  LET t == s.threads + 1
  IN  insertThread([s EXCEPT !.threads = t,
                      !.tso = Append(@, [proc |-> p, pri |-> gflags.pri[n],
                                         stack |-> <<[node |-> n, pc |-> 0]>>])], t, p)

\* The threads that waited for n are told, on this PE or on theirs.
AwakenTSO(s, n, t) ==
  LET p == s.proc
      home == s.tso[t].proc
      here == IS_LOCAL_TO(s, n, home)
      paid == Charge(s, p, IF here THEN Costs.lunblocktime
                           ELSE Costs.mpacktime + Costs.gunblocktime + Costs.latency)
  IN  new_event(paid, home, IF here THEN home ELSE p, paid.clock[p],
                IF here THEN "ResumeThread" ELSE "UnblockThread", t, n, 0)

awakenBlockedQueue(s, n) ==
  [FoldLeft(LAMBDA x, t : AwakenTSO(x, n, t), s, s.heap[n].queue) EXCEPT !.heap[n].queue = <<>>]

-----------------------------------------------------------------------------
(* Revertible black holes. *)

convertToRBH(s, n) == [s EXCEPT !.heap[n].kind = "rbh", !.heap[n].queue = <<>>]

\* The queue is awakened before the closure is a thunk again.
convertFromRBH(s, n) == [awakenBlockedQueue(s, n) EXCEPT !.heap[n].kind = "thunk"]

-----------------------------------------------------------------------------
(* Packing and unpacking, for bulk fetching.  A packet is the sequence of   *)
(* the closures that travel; a thunk in it is a revertible black hole until *)
(* the packet arrives.  A closure points to those it needs.                 *)

\* What PackClosure leaves behind: what is elsewhere, packed already or a black
\* hole.
StaysBehind(s, root, packet, n) ==
  \/ where_is(s, n) # where_is(s, root)
  \/ n \in Range(packet)
  \/ IS_BLACK_HOLE(s, n)

will_be_rbh(s, n) == s.heap[n].kind = "thunk"
no_more_thunks_please(packed_thunks) ==
  gflags.ThunksToPack > 0 /\ packed_thunks >= gflags.ThunksToPack

\* PackClosure and the loop of PackNearbyGraph: todo is the closure queue.
RECURSIVE PackQueue(_, _, _, _, _)
PackQueue(s, root, todo, packet, packed_thunks) ==
  IF todo = <<>> THEN [s |-> s, packet |-> packet]
  ELSE
    LET n == Head(todo)
        thunk == will_be_rbh(s, n)
    IN  IF StaysBehind(s, root, packet, n) \/ (no_more_thunks_please(packed_thunks) /\ thunk)
        THEN PackQueue(s, root, Tail(todo), packet, packed_thunks)
        ELSE PackQueue(IF thunk THEN convertToRBH(s, n) ELSE s, root,
                       Tail(todo) \o gflags.needs[n], Append(packet, n),
                       packed_thunks + (IF thunk \/ n = root THEN 1 ELSE 0))

PackNearbyGraph(s, n) == PackQueue(s, n, <<n>>, <<>>, 0)
PackOneNode(n) == <<n>>

UnpackClosure(s, n) ==
  LET p == s.proc
  IN  CASE s.heap[n].kind = "rbh" -> convertFromRBH([s EXCEPT !.heap[n].procs = {p}], n)
        [] s.heap[n].kind \in {"bh", "bq"} \/ closure_HNF(s, n) ->
             [s EXCEPT !.heap[n].procs = @ \cup {p}]
        [] OTHER -> IF IS_LOCAL_TO(s, n, p) THEN s ELSE [s EXCEPT !.heap[n].procs = {p}]

UnpackGraph(s, packet) == FoldLeft(UnpackClosure, s, packet)

-----------------------------------------------------------------------------
(* Fetching. *)

\* Whether the fetch misses: the closure is neither where it was nor here.
fetchMisses(s, n, from, to) == ~ IS_LOCAL_TO(s, n, from) /\ ~ IS_LOCAL_TO(s, n, to)

fetchNode(s, n, to) ==
  IF closure_HNF(s, n)
  THEN [s EXCEPT !.heap[n].procs = @ \cup {to}]
  ELSE [s EXCEPT !.heap[n].procs = {to}]

\* A request that goes on to where the closure is now.
Chase(s, n, p, requester, tso) ==
  LET paid == Charge(s, p, Costs.mpacktime)
  IN  Charge(new_event(paid, where_is(s, n), requester,
                       Later(paid, p, where_is(s, n)) + Costs.latency,
                       "FetchNode", tso, n, 0),
             p, Costs.mtidytime)

handleFetchRequest(s, n, to, from, tso) ==
  CASE IS_LOCAL_TO(s, n, from) ->
         new_event(s, from, to, s.clock[to], "FetchReply", tso,
                   IF gflags.DoBulkFetching THEN PackOneNode(n) ELSE n, 0)
    [] ~ IS_LOCAL_TO(s, n, from) /\ IS_LOCAL_TO(s, n, to) ->
         IF gflags.DoBulkFetching /\ IS_BLACK_HOLE(s, n)
         THEN [new_event(s, from, to, s.clock[to], "GlobalBlock", tso, n, 0)
                 EXCEPT !.fetches[from] = @ - 1]
         ELSE
           LET graph == IF gflags.DoBulkFetching THEN PackNearbyGraph(s, n)
                        ELSE [s |-> s, packet |-> n]
               size == IF gflags.DoBulkFetching THEN Len(graph.packet) ELSE 1
               paid == Charge(graph.s, to, size * Costs.mpacktime)
           IN  Charge(new_event(paid, from, to, paid.clock[to] + Costs.latency,
                                "FetchReply", tso, graph.packet, 0),
                      to, Costs.mtidytime)
    [] OTHER -> Chase(s, n, to, from, tso)

\* A thread is put into the blocking queue of a black hole.  A revertible
\* black hole becomes an ordinary one, with this thread as its queue.
blockFetch(s, t, p, bh) ==
  IF ~ IS_BLACK_HOLE(s, bh)
  THEN new_event(s, p, p, s.clock[p], "UnblockThread", t, bh, 0)
  ELSE [GranSimBlock(s, p) EXCEPT !.heap[bh].kind = "bq",
          !.heap[bh].queue = IF s.heap[bh].kind = "bq" THEN <<t>> \o @ ELSE <<t>>]

-----------------------------------------------------------------------------
(* The handlers of the events; s.proc is CurrentProc, the PE of the event.  *)

do_the_globalblock(s, e) == blockFetch(s, e.tso, e.proc, e.node)

do_the_unblock(s, e) ==
  new_event(s, e.proc, e.proc, s.clock[e.proc] + Costs.threadqueuetime,
            "ResumeThread", e.tso, e.node, 0)

do_the_fetchnode(s, e) ==
  handleFetchRequest(Charge(s, e.proc, Costs.munpacktime), e.node, e.proc, e.creator, e.tso)

\* The closure has arrived.
FetchDone(s, e, n) ==
  [new_event(s, e.proc, e.proc, s.clock[e.proc], "ResumeThread", e.tso, n, 0)
     EXCEPT !.fetches[e.proc] = @ - 1]

do_the_fetchreply(s, e) ==
  LET paid == Charge(s, e.proc, Costs.munpacktime)
  IN  CASE gflags.DoBulkFetching ->
             FetchDone(Charge(UnpackGraph(paid, e.node), e.proc,
                              Len(e.node) * Costs.munpacktime),
                       e, Head(e.node))
        [] ~ gflags.DoBulkFetching /\ fetchMisses(s, e.node, e.creator, e.proc) ->
             Chase(paid, e.node, e.proc, e.proc, e.tso)
        [] OTHER -> FetchDone(fetchNode(paid, e.node, e.proc), e, e.node)

do_the_movespark(s, e) ==
  LET p == e.proc
      landed == add_to_spark_queue(Charge(s, p, Costs.munpacktime), p, e.spark)
  IN  [landed EXCEPT !.fishes[p] = @ - 1,
                     !.stat[p] = IF @ = "Fishing" THEN "Idle" ELSE @]

\* Both StartThread, which creates the thread, and ResumeThread.
do_the_startthread(s, e) ==
  LET p == e.proc
      new == e.evttype = "StartThread"
      t == IF new THEN s.threads + 1 ELSE e.tso
      begun == IF new THEN Charge(createThread(s, e.node, p), p, Costs.threadcreatetime)
               ELSE insertThread(s, t, p)
  IN  new_event([begun EXCEPT !.stat[p] = "Busy"], p, p, begun.clock[p],
                "ContinueThread", t, e.node, 0)

-----------------------------------------------------------------------------
(* Looking for work. *)

\* latency * (P/2 - (P/2 - 1) / (P - 1) * idlers), truncated.
sparkStealTime(s) ==
  (Costs.latency * (proc * (proc - 1) - (proc - 2) * idlers(s))) \div (2 * (proc - 1))

\* The PEs with sparks whose clocks have been reached, the earliest first.
sortPEsByTime(s, thief) ==
  SetToSortSeq({p \in PEs : /\ p # thief
                            /\ s.sparks[p] # <<>>
                            /\ s.clock[p] <= s.clock[s.proc]},
               LAMBDA p, q : s.clock[p] < s.clock[q] \/ (s.clock[p] = s.clock[q] /\ p < q))

\* stealSparkMagic at the victim p: sparks that are not worth it are pruned on
\* the way, and the last spark of a PE without work is left to it.
TryPE(s, thief, p) ==
  LET q == s.sparks[p]
      social == s.stat[p] \in {"Idle", "Sparking", "Fishing"}
      reach == IF social THEN Len(q) - 1 ELSE Len(q)
      worth == {i \in 1 .. reach : closure_SHOULD_SPARK(s, q[i])}
      pruned == IF worth = {} THEN Max({reach, 0}) ELSE Min(worth) - 1
      kept == [s EXCEPT !.sparks[p] = SubSeq(q, pruned + 1, Len(q)),
                        !.SparksAvail = @ - pruned]
      paid == Charge(kept, p, Costs.mpacktime)
  IN  IF worth = {} THEN [stolen |-> FALSE, s |-> kept]
      ELSE [stolen |-> TRUE, s |->
             Charge([delete_from_sparkq(
                       new_event(paid, thief, p,
                                 Later(paid, p, thief) + sparkStealTime(s),
                                 "MoveSpark", NoTSO, q[Min(worth)], q[Min(worth)]), p, 1)
                       EXCEPT !.fishes[thief] = @ + 1, !.SparksAvail = @ - 1,
                              !.stat[thief] = IF @ = "Idle" THEN "Fishing" ELSE @],
                    p, Costs.mtidytime)]

\* The loop of stealSparkMagic over the array pes_by_time, of which the first n
\* elements count and the first `first' are not later than the thief.
RECURSIVE TryPEs(_, _, _, _, _)
TryPEs(s, thief, pes, n, first) ==
  IF n = 0 THEN {s}
  ELSE UNION {
    LET try == TryPE(s, thief, pes[i])
        left == [j \in DOMAIN pes |-> IF i <= j /\ j < n THEN pes[j + 1] ELSE pes[j]]
        fit == {j \in 0 .. first : j = 0 \/ s.clock[left[j]] <= s.clock[thief]}
    IN  IF try.stolen THEN {try.s} ELSE TryPEs(try.s, thief, left, n - 1, Max(fit))
    : i \in 1 .. (IF first = 0 THEN n ELSE first)}

stealSparkMagic(s, thief) ==
  LET pes == sortPEsByTime(s, thief)
      first == Cardinality({i \in DOMAIN pes : s.clock[pes[i]] <= s.clock[thief]})
  IN  TryPEs(s, thief, pes, Len(pes), first)

\* The PE that gets the fish; the random one may be the fisher itself.
findRandomPE == IF gflags.RandomSteal THEN PEs ELSE {0}

SendFish(s, p, to) ==
  LET paid == Charge(s, p, Costs.mpacktime)
  IN  Charge([new_event(paid, to, p, paid.clock[p] + Costs.latency, "FindWork", NoTSO, 0, 1)
                EXCEPT !.fishes[p] = @ + 1,
                       !.stat[p] = IF @ = "Idle" THEN "Fishing" ELSE @],
             p, Costs.mtidytime)

stealSpark(s, p) ==
  IF gflags.Fishing THEN {SendFish(s, p, to) : to \in findRandomPE} ELSE stealSparkMagic(s, p)

handleIdlePE(s, p) ==
  CASE s.stat[p] # "Idle" -> {s}
    [] s.stat[p] = "Idle" /\ s.sparks[p] # <<>> ->
         {new_event([s EXCEPT !.stat[p] = "Sparking"], p, p, s.clock[p], "FindWork", NoTSO, 0, 0)}
    [] OTHER ->
         IF /\ gflags.maxFishes = 0 \/ s.fishes[p] < gflags.maxFishes
            /\ s.SparksAvail > 0
            /\ gflags.FetchStrategy >= 3 \/ s.fetches[p] = 0
         THEN stealSpark(s, p) ELSE {s}

handleIdlePEs(s) ==
  FoldLeft(LAMBDA S, i : UNION {handleIdlePE(x, i - 1) : x \in S}, {s}, [i \in 1 .. proc |-> i])

\* External: findLocalSpark discards the sparks before the first that is worth
\* a thread; activateSpark starts the thread, or sends the spark to who fished.
findLocalSpark(s, p) ==
  LET worth == {i \in DOMAIN s.sparks[p] : closure_SHOULD_SPARK(s, s.sparks[p][i])}
      pruned == IF worth = {} THEN Len(s.sparks[p]) ELSE Min(worth) - 1
  IN  [s EXCEPT !.sparks[p] = SubSeq(@, pruned + 1, Len(@)), !.SparksAvail = @ - pruned]

activateSpark(s, e, n) ==
  LET p == e.proc
      paid == Charge(s, p, Costs.mpacktime)
  IN  IF p = e.creator
      THEN new_event([s EXCEPT !.SparksAvail = @ - 1, !.stat[p] = "Starting"],
                     p, p, s.clock[p], "StartThread", NoTSO, n, n)
      ELSE Charge([new_event(paid, e.creator, p, paid.clock[p] + Costs.latency,
                             "MoveSpark", NoTSO, n, n)
                     EXCEPT !.SparksAvail = @ - 1], p, Costs.mtidytime)

do_the_findwork(s, e) ==
  LET p == e.proc
      willing == \/ gflags.DoAlwaysCreateThreads
                 \/ gflags.Fishing
                 \/ /\ s.stat[p] \in {"Idle", "Sparking"}
                    /\ gflags.FetchStrategy >= 2 \/ s.fetches[p] = 0
      searched == findLocalSpark(s, p)
  IN  CASE ~ willing -> {s}
        [] willing /\ searched.sparks[p] # <<>> ->
             {delete_from_sparkq(activateSpark(searched, e, Head(searched.sparks[p])), p, 1)}
        [] willing /\ searched.sparks[p] = <<>> /\ e.creator = p ->
             {[searched EXCEPT !.stat[p] = IF @ = "Busy" THEN "Idle" ELSE @]}
        [] OTHER ->
             stealSpark([searched EXCEPT !.fishes[e.creator] = @ - 1], e.creator)

-----------------------------------------------------------------------------
(* What a running thread calls; s.cur is CurrentTSO. *)

\* Whether the thread has to leave, because the closure is not here.
GranSimFetches(s, n) == ~ IS_LOCAL_TO(s, n, s.proc)

GranSimFetch(s, n) ==
  IF s.heap[n].procs = {}
  THEN new_event(s, s.proc, s.proc, s.clock[s.proc] + 10000, "ContinueThread", s.cur, n, 0)
  ELSE
    LET p == s.proc
        paid == Charge(s, p, Costs.mpacktime)
        fetchtime == Later(paid, p, where_is(s, n)) + Costs.latency
        sent == [new_event(paid, where_is(s, n), p, fetchtime, "FetchNode", s.cur, n, 0)
                   EXCEPT !.fetches[p] = @ + 1,
                          !.TimeOfNextEvent = Min({@, fetchtime})]
    IN  Charge(IF gflags.DoAsyncFetch THEN ActivateNextThread(sent, p)
               ELSE [sent EXCEPT !.stat[p] = "Fetching"],
               p, Costs.mtidytime)

GranSimSpark(s) ==
  LET p == s.proc
  IN  IF gflags.DoAlwaysCreateThreads
      THEN [new_event(s, p, p, s.clock[p], "FindWork", NoTSO, 0, 0)
              EXCEPT !.TimeOfNextEvent = Min({@, s.clock[p]})]
      ELSE s

GranSimSparkAtAbs(s, n, at) ==
  LET p == s.proc
      paid == IF at = p THEN s ELSE Charge(s, p, Costs.mpacktime)
      exporttime == IF at = p THEN s.clock[p] ELSE Later(paid, p, at) + Costs.latency
      sent == [new_event(paid, at, p, exporttime, "MoveSpark", NoTSO, n, n)
                 EXCEPT !.fishes[at] = @ + 1]
      noticed == IF gflags.DoAlwaysCreateThreads
                 THEN new_event(sent, p, p, exporttime + 1, "FindWork", NoTSO, 0, 0)
                 ELSE sent
  IN  Charge([noticed EXCEPT !.TimeOfNextEvent = Min({@, exporttime})],
             p, IF at = p THEN 0 ELSE Costs.mtidytime)

GranSimSparkAt(s, n, where) == GranSimSparkAtAbs(s, n, where_is(s, where))

-----------------------------------------------------------------------------
(* External: the event loop and the threaded code. *)

Init ==
  /\ gflags \in Setups
  /\ sim = [clock |-> [p \in PEs |-> 0],
            evq |-> <<rtsEvent(MainProc, MainProc, 0, "ContinueThread", 1, 0, 0)>>,
            stat |-> [p \in PEs |-> IF p = MainProc THEN "Busy" ELSE "Idle"],
            fetches |-> [p \in PEs |-> 0], fishes |-> [p \in PEs |-> 0],
            sparks |-> [p \in PEs |-> <<>>], SparksAvail |-> 0,
            runq |-> [p \in PEs |-> IF p = MainProc THEN <<1>> ELSE <<>>],
            heap |-> [n \in Closures |-> [kind |-> "thunk", procs |-> {gflags.home[n]}, queue |-> <<>>]],
            tso |-> <<[proc |-> MainProc, pri |-> 0, stack |-> <<[node |-> 1, pc |-> 0]>>]>>,
            threads |-> 1, cur |-> NoTSO, proc |-> MainProc,
            TimeOfNextEvent |-> 0, EndOfTimeSlice |-> 0,
            overwritten |-> {}, dropped |-> {}, strays |-> [p \in PEs |-> 0]]

Finished == sim.tso[1].stack = <<>>

\* The event at the head of the queue is taken, the clock of its PE is brought up
\* to it, and idle PEs are given work first.
Taken(type) ==
  IF /\ sim.cur = NoTSO /\ ~ Finished
     /\ sim.evq # <<>> /\ Head(sim.evq).time <= Horizon
     /\ Head(sim.evq).evttype \in type
  THEN LET e == Head(sim.evq)
       IN  handleIdlePEs([sim EXCEPT !.evq = Tail(@), !.proc = e.proc,
              !.clock[e.proc] = IF e.evttype = "ContinueThread" THEN @ ELSE Max({@, e.time})])
  ELSE {}

\* History: the revertible black holes that blockFetch overwrites, and the threads in their
\* queues, which it drops.
DoGlobalBlock ==
  \E s \in Taken({"GlobalBlock"}) :
    LET bh == s.heap[Head(sim.evq).node]
    IN  sim' = [do_the_globalblock(s, Head(sim.evq)) EXCEPT
                  !.overwritten = @ \cup (IF bh.kind = "rbh" THEN {Head(sim.evq).node} ELSE {}),
                  !.dropped = @ \cup (IF bh.kind = "rbh" THEN Range(bh.queue) ELSE {})]
DoUnblock == \E s \in Taken({"UnblockThread"}) : sim' = do_the_unblock(s, Head(sim.evq))
DoFetchNode == \E s \in Taken({"FetchNode"}) : sim' = do_the_fetchnode(s, Head(sim.evq))
DoFetchReply == \E s \in Taken({"FetchReply"}) : sim' = do_the_fetchreply(s, Head(sim.evq))
DoMoveSpark == \E s \in Taken({"MoveSpark"}) : sim' = do_the_movespark(s, Head(sim.evq))
DoStartThread ==
  \E s \in Taken({"StartThread", "ResumeThread"}) : sim' = do_the_startthread(s, Head(sim.evq))

\* History: the fish that a PE has sent to itself are never taken off OutstandingFishes.
DoFindWork ==
  \E s \in Taken({"FindWork"}) :
    LET e == Head(sim.evq)
        stray == IF e.creator = e.proc THEN e.spark ELSE 0
    IN  sim' \in {[x EXCEPT !.strays[e.proc] = @ + stray] : x \in do_the_findwork(s, e)}

\* The first thread of the run queue runs, unless there is none or the PE waits
\* for a closure.
DoContinueThread ==
  \E s \in Taken({"ContinueThread"}) :
    LET p == s.proc
    IN  sim' = IF s.runq[p] = <<>> \/ s.stat[p] = "Fetching" THEN s
               ELSE [s EXCEPT !.cur = Head(s.runq[p]), !.runq[p] = Tail(@),
                              !.TimeOfNextEvent = get_time_of_next_event(s.evq),
                              !.EndOfTimeSlice = s.clock[p] + Costs.time_slice]

\* The thread leaves; the next one, if any, will be run.
Leave(s) ==
  LET left == [s EXCEPT !.cur = NoTSO]
  IN  IF s.runq[s.proc] = <<>> THEN left
      ELSE new_event(left, s.proc, s.proc, s.clock[s.proc], "ContinueThread",
                     Head(s.runq[s.proc]), 0, 0)

Running == sim.cur # NoTSO
TimeIsUp ==
  \/ sim.TimeOfNextEvent # 0 /\ sim.clock[sim.proc] > sim.TimeOfNextEvent
  \/ sim.clock[sim.proc] > sim.EndOfTimeSlice
Frame == Head(sim.tso[sim.cur].stack)
Go(s) == Charge(s, s.proc, Costs.exec)
NextPC(s) == [s EXCEPT !.tso[s.cur].stack[1].pc = @ + 1]
Return(s) ==
  LET back == Tail(s.tso[s.cur].stack)
      popped == [s EXCEPT !.tso[s.cur].stack = back]
  IN  IF back = <<>> THEN Leave(endThread(popped, s.proc)) ELSE NextPC(popped)

Yield ==
  /\ Running /\ TimeIsUp
  /\ sim' = Leave([sim EXCEPT !.runq[sim.proc] = <<sim.cur>> \o @])

\* A thread enters a closure: it fetches it, blocks on it, returns its value or
\* starts to evaluate it.
Enter ==
  /\ Running /\ ~ TimeIsUp /\ Frame.pc = 0
  /\ LET n == Frame.node
     IN  sim' = CASE GranSimFetches(sim, n) -> Leave(GranSimFetch(sim, n))
                  [] ~ GranSimFetches(sim, n) /\ IS_BLACK_HOLE(sim, n) ->
                       Leave([prune_eventq(GranSimBlock(sim, sim.proc), sim.cur)
                                EXCEPT !.heap[n].kind = IF @ = "rbh" THEN @ ELSE "bq",
                                       !.heap[n].queue = <<sim.cur>> \o @])
                  [] ~ GranSimFetches(sim, n) /\ sim.heap[n].kind = "thunk" ->
                       Go(NextPC([sim EXCEPT !.heap[n].kind = "bh"]))
                  [] OTHER -> Go(Return(sim))

Sparks(n) == gflags.par[n]

DoSpark ==
  /\ Running /\ ~ TimeIsUp /\ Frame.pc \in 1 .. Len(Sparks(Frame.node))
  /\ LET sp == Sparks(Frame.node)[Frame.pc]
     IN  sim' = Go(NextPC(IF sp.where = 0
                          THEN GranSimSpark(add_to_spark_queue(sim, sim.proc, sp.node))
                          ELSE GranSimSparkAt(sim, sp.node, sp.where)))

Need(f) == f.pc - Len(Sparks(f.node))

Evaluate ==
  /\ Running /\ ~ TimeIsUp /\ Need(Frame) \in 1 .. Len(gflags.needs[Frame.node])
  /\ sim' = Go([sim EXCEPT !.tso[sim.cur].stack =
                  <<[node |-> gflags.needs[Frame.node][Need(Frame)], pc |-> 0]>> \o @])

Update ==
  /\ Running /\ ~ TimeIsUp /\ Need(Frame) > Len(gflags.needs[Frame.node])
  /\ sim' = Return(Go([awakenBlockedQueue(sim, Frame.node) EXCEPT !.heap[Frame.node].kind = "hnf"]))

Next ==
  /\ \/ DoGlobalBlock \/ DoUnblock \/ DoFetchNode \/ DoFetchReply
     \/ DoMoveSpark \/ DoStartThread \/ DoFindWork \/ DoContinueThread
     \/ Yield \/ Enter \/ DoSpark \/ Evaluate \/ Update
  /\ UNCHANGED gflags

Spec == Init /\ [][Next]_gvars

-----------------------------------------------------------------------------
(* Properties. *)

Pending(P(_)) == Cardinality({i \in DOMAIN sim.evq : P(sim.evq[i])})

\* The event queue is in the order of time; at the same time nothing comes after
\* a ContinueThread, and nothing but that after a FindWork (insert_event).
EventsInOrder ==
  LET rank(e) == CASE e.evttype = "ContinueThread" -> 2
                   [] e.evttype = "FindWork" -> 1
                   [] OTHER -> 0
  IN  \A i \in 1 .. Len(sim.evq) - 1 :
        LET e == sim.evq[i]
            f == sim.evq[i + 1]
        IN  e.time < f.time \/ (e.time = f.time /\ rank(e) <= rank(f))

\* A thunk is on one PE: fetching never copies work (the assertion in PackClosure).
ThunksUnique == \A n \in Closures : sim.heap[n].kind = "thunk" => is_unique(sim, n)

\* OutstandingFetches counts the requests and replies that are under way, however
\* often a request is passed on, answered by a block or misses.
FetchesCounted ==
  \A p \in PEs : sim.fetches[p] =
    Pending(LAMBDA e : \/ e.evttype = "FetchNode" /\ e.creator = p
                       \/ e.evttype = "FetchReply" /\ e.proc = p)

\* OutstandingFishes counts the sparks and fish that are under way to or from a PE, and
\* the fish that it ever sent to itself.
FishesCounted ==
  \A p \in PEs :
    LET flying == Pending(LAMBDA e : \/ e.evttype = "MoveSpark" /\ e.proc = p
                                     \/ e.evttype = "FindWork" /\ e.creator = p /\ e.spark = 1)
    IN  sim.fishes[p] = flying + sim.strays[p]

\* SparksAvail counts the sparks in the spark queues.
SparksCounted ==
  sim.SparksAvail = FoldSet(LAMBDA p, k : k + Len(sim.sparks[p]), 0, PEs)

\* The places where a thread can be.
Places(t) ==
  Cardinality({i \in DOMAIN sim.evq : sim.evq[i].tso = t /\ sim.evq[i].evttype # "ContinueThread"})
  + Cardinality({<<p, i>> \in PEs \X (1 .. Len(sim.tso)) : i \in DOMAIN sim.runq[p] /\ sim.runq[p][i] = t})
  + Cardinality({n \in Closures : t \in Range(sim.heap[n].queue)})
  + (IF sim.cur = t THEN 1 ELSE 0)

\* A thread that has not finished is in one place: running, in a run queue, in a
\* blocking queue or in an event; none is in two.  Only a thread that blockFetch dropped
\* is in none.
ThreadsKept ==
  \A t \in DOMAIN sim.tso :
    /\ Places(t) <= 1
    /\ (Places(t) = 0) = (sim.tso[t].stack = <<>> \/ t \in sim.dropped)

\* "After converting the RBH back to its original form and awakening all TSOs, the first TSO
\* will reenter the closure which is now local and carry on merrily reducing it."  TLC refutes
\* that this happens to every RBH: blockFetch makes one a black hole that nobody updates.
RBHsKept == sim.overwritten = {}

\* Unless an RBH was overwritten a simulation ends, and not in the error "No next event" of
\* get_next_event.
SimulationEnds ==
  sim.overwritten # {} \/ Finished \/ Running \/
    (sim.evq # <<>> /\ Head(sim.evq).time <= Horizon)

GranSimSound ==
  /\ EventsInOrder /\ ThunksUnique /\ FetchesCounted /\ FishesCounted
  /\ SparksCounted /\ ThreadsKept /\ SimulationEnds
=============================================================================
