-------------------------------- MODULE GUM --------------------------------
(***************************************************************************)
(* The parallel runtime system GUM (rts/parallel): processing elements     *)
(* (PEs) without shared memory evaluate one graph.  A closure that another *)
(* PE refers to has a global address (GA) with a weight; the references    *)
(* share the weight of 2^n between them, so that the owner can drop the GA *)
(* when it has all of the weight back.  An idle PE sends a FISH and gets a *)
(* thunk in a SCHEDULE; the thunk that was sent away becomes a revertible  *)
(* black hole (RBH) and, when the ACK brings its new GA, a FETCH_ME.       *)
(* Entering a FETCH_ME sends a FETCH, answered by a RESUME.  FREE returns  *)
(* the weight of what a garbage collection found to be dead.               *)
(*                                                                         *)
(* A closure has at most one pointer, to its child.  PVM delivers the      *)
(* messages between two PEs in order.                                      *)
(***************************************************************************)
EXTENDS Naturals, Sequences, FiniteSets, FiniteSetsExt, SequencesExt

CONSTANTS PE,          \* the processing elements
          Tso,         \* the threads
          Node,        \* the nodes of the graph
          MaxAddr,     \* a bound on the closures of a PE
          MaxSlot,     \* a bound on the GAs that a PE owns
          W,           \* 2^n, the full weight: BITS_IN(unsigned) = n
          FishLife,    \* FISH_LIFE_EXPECTANCY
          Start        \* the initial states: PEs in use, bounds, heaps, threads and sparks

VARIABLES heap,        \* the closures of each PE
          gala,        \* its GALA table: for a GA, the weight held, the local address and preferred
          chan,        \* the messages from one PE to another
          sparks,      \* the spark pool
          pending,     \* PendingFetches
          tso,         \* the threads: PE, closure demanded, and what they do
          fishes,      \* outstandingFishes
          sent, gcs,   \* the fish sent and the collections so far
          conf         \* the PEs in use, and bounds on the fish and collections

vars == <<heap, gala, chan, sparks, pending, tso, fishes, sent, gcs, conf>>

Addr == 1..MaxAddr
GA == PE \X (1..MaxSlot)
Nothing == [type |-> "free", node |-> 0, ptr |-> 0, ga |-> <<>>, bq |-> {}]
MAX_GA_WEIGHT == 0

Init == \E s \in Start :
  /\ heap = s.heap /\ tso = s.tso /\ sparks = s.sparks /\ conf = s.conf
  /\ gala = [p \in PE |-> <<>>]
  /\ chan = [p \in PE |-> [q \in PE |-> <<>>]]
  /\ pending = [p \in PE |-> {}] /\ fishes = [p \in PE |-> 0]
  /\ sent = 0 /\ gcs = 0

-----------------------------------------------------------------------------
(* The state S that a handler works on: the heap and the tables of its PE,
   the threads and blocked fetches it has awoken, and the messages to send. *)

State(p) == [p |-> p, h |-> heap[p], g |-> gala[p], wake |-> {}, pend |-> pending[p], out |-> <<>>]

Send(S, to, m) == [S EXCEPT !.out = Append(@, [to |-> to, m |-> m])]
Without(f, x) == [y \in DOMAIN f \ {x} |-> f[y]]
With(f, x, v) == [y \in DOMAIN f \union {x} |-> IF y = x THEN v ELSE f[y]]

\* UNWIND_IND; chains are no longer than the heap.
RECURSIVE Unwind(_, _)
Unwind(h, a) == IF h[a].type = "IND" THEN Unwind(h, h[a].ptr) ELSE a

FreeAddr(S) == Min({a \in Addr : S.h[a].type = "free"})
FreeSlot(S) == Min({s \in 1..MaxSlot : <<S.p, s>> \notin DOMAIN S.g})
IsBlackHole(c) == c.type \in {"BLACKHOLE", "RBH", "FETCH_ME", "FETCH_ME_BQ"}

\* GALAlookup: the closure that a GA stands for here, or 0.
GALAlookup(S, ga) == IF ga \in DOMAIN S.g THEN Unwind(S.h, S.g[ga].la) ELSE 0

\* LAGAlookup: the preferred GAs of a closure; there is at most one.
LAGAlookup(S, a) == {ga \in DOMAIN S.g : S.g[ga].la = a /\ S.g[ga].preferred}

Deprecate(S, a) == [S EXCEPT !.g = [ga \in DOMAIN @ |-> IF @[ga].la = a THEN [@[ga] EXCEPT !.preferred = FALSE] ELSE @[ga]]]

\* makeGlobal: a new GA of full weight.
makeGlobal(S, a, preferred) ==
  LET ga == <<S.p, FreeSlot(S)>>
      D == IF preferred THEN Deprecate(S, a) ELSE S
  IN  [S |-> [D EXCEPT !.g = With(@, ga, [w |-> MAX_GA_WEIGHT, la |-> a, preferred |-> preferred])], ga |-> ga]

\* setRemoteGA: a GA of another PE, with the weight that came with it.
setRemoteGA(S, a, ga, w) == [Deprecate(S, a) EXCEPT !.g = With(@, ga, [w |-> w, la |-> a, preferred |-> TRUE])]

\* addWeight; unsigned arithmetic turns the full weight into MAX_GA_WEIGHT.
addWeight(S, ga, w) == [S EXCEPT !.g[ga].w = (@ + w) % W]

\* splitWeight: half of the weight, or a new GA when too little is left.
Halve(N) ==
  LET w == N.S.g[N.ga].w
      half == IF w <= 1 THEN W \div 2 ELSE w \div 2
  IN  [S |-> [N.S EXCEPT !.g[N.ga].w = (@ + W - half) % W], ga |-> N.ga, w |-> half]

splitWeight(M) ==
  Halve(IF M.S.g[M.ga].w \div 2 <= 2 THEN makeGlobal(M.S, GALAlookup(M.S, M.ga), TRUE) ELSE M)

\* awakenBlockedQueue: threads become runnable, blocked fetches pending.
awakenBlockedQueue(S, a) ==
  [S EXCEPT !.wake = @ \union {e.t : e \in {b \in S.h[a].bq : b.k = "TSO"}},
            !.pend = @ \union {e \in S.h[a].bq : e.k = "BF"},
            !.h[a].bq = {}]

\* UPD_IND.
UpdInd(S, a, b) == [awakenBlockedQueue(S, a) EXCEPT !.h[a].type = "IND", !.h[a].ptr = b, !.h[a].ga = <<>>]

\* CommonUp: two closures have been found to be the same object.
CommonUp(S, src, dst) ==
  IF IsBlackHole(S.h[src]) \/ S.h[src].type = "CONSTR" THEN UpdInd(S, src, dst) ELSE S

-----------------------------------------------------------------------------
(* Packing and unpacking. *)

\* GlobaliseAndPackGA: a share of the closure's GA, or the mark that the GA is
\* the receiver's own.
Share(M, dest) == IF M.ga[1] = dest THEN [S |-> M.S, ga |-> M.ga, w |-> 0] ELSE splitWeight(M)

GlobaliseAndPackGA(S, a, dest) ==
  Share(IF LAGAlookup(S, a) = {} THEN makeGlobal(S, a, TRUE)
        ELSE [S |-> S, ga |-> CHOOSE ga \in LAGAlookup(S, a) : TRUE], dest)

convertToRBH(S, a) == [S EXCEPT !.h[a].type = "RBH"]

\* PackClosure: a thunk is shipped and turned into an RBH (convertToRBH), a
\* constructor is copied, anything else, or what no longer fits, is packed as
\* a FETCH_ME.
PackAs(P, a, kind) ==
  [S |-> IF kind = "THUNK" THEN convertToRBH(P.S, a) ELSE P.S,
   item |-> [kind |-> kind, node |-> P.S.h[a].node, ga |-> P.ga, w |-> P.w]]

PackKind(c, room) == IF c.type \in {"THUNK", "CONSTR"} /\ room THEN c.type ELSE "FETCH_ME"
PackClosure(S, a, dest, room) == PackAs(GlobaliseAndPackGA(S, a, dest), a, PackKind(S.h[a], room))

\* PackNearbyGraph: the closure, and its child if there is room for it.
Packed(P, items) == [S |-> P.S, pkt |-> Append(items, P.item)]

PackChild(P, a, dest, room) ==
  IF P.S.h[a].ptr = 0 THEN Packed(P, <<>>)
  ELSE Packed(PackClosure(P.S, Unwind(P.S.h, P.S.h[a].ptr), dest, room), <<P.item>>)

PackNearbyGraph(S, a, dest, room) == PackChild(PackClosure(S, a, dest, TRUE), a, dest, room)

\* Whether what arrives is worth more than what is there.
Redirect(old, kind) ==
  kind # "FETCH_ME" /\ (IsBlackHole(old) \/ old.type = "CONSTR")

\* Mutant: the weight that came with what is thrown away is lost.
CommonUpNoWeight(S, a, it, old) ==
  IF old = 0 THEN [S |-> setRemoteGA(S, a, it.ga, it.w), a |-> a]
  ELSE IF Redirect(S.h[old], it.kind) THEN [S |-> addWeight(CommonUp(S, old, a), it.ga, it.w), a |-> a]
  ELSE [S |-> [S EXCEPT !.h[a] = Nothing], a |-> old]

\* SetGAandCommonUp: the address of the closure that stands for the item.
CommonUpWith(S, a, it, old) ==
  IF old = 0 THEN [S |-> setRemoteGA(S, a, it.ga, it.w), a |-> a]
  ELSE IF Redirect(S.h[old], it.kind) THEN [S |-> addWeight(CommonUp(S, old, a), it.ga, it.w), a |-> a]
  ELSE [S |-> addWeight([S EXCEPT !.h[a] = Nothing], it.ga, it.w), a |-> old]

SetGAandCommonUp(S, a, it) == CommonUpWith(S, a, it, GALAlookup(S, it.ga))

\* UnpackClosure: a thunk gets a new GA here, which the ACK tells the sender.
Acked(N, a, it) == [S |-> N.S, a |-> a, gaga |-> {[old |-> it.ga, new |-> N.ga, w |-> N.w]}]

Settle(C, it) ==
  IF it.kind = "THUNK" THEN Acked(splitWeight(makeGlobal(C.S, C.a, TRUE)), C.a, it)
  ELSE [S |-> C.S, a |-> C.a, gaga |-> {}]

UnpackAt(S, a, it) ==
  Settle(SetGAandCommonUp(
           [S EXCEPT !.h[a] = [Nothing EXCEPT !.type = it.kind, !.node = it.node,
                                              !.ga = IF it.kind = "FETCH_ME" THEN it.ga ELSE <<>>]],
           a, it), it)

UnpackClosure(S, it) == UnpackAt(S, FreeAddr(S), it)

\* UnpackGraph: the child is unpacked after the root, which points to it if it
\* was kept.
Link(P, Q, top) ==
  [S |-> IF P.a = top THEN [Q.S EXCEPT !.h[top].ptr = Q.a] ELSE Q.S, a |-> P.a, gaga |-> P.gaga \union Q.gaga]

UnpackRest(P, pkt, top) == IF Len(pkt) = 1 THEN P ELSE Link(P, UnpackClosure(P.S, pkt[2]), top)
UnpackGraph(S, pkt) == UnpackRest(UnpackClosure(S, pkt[1]), pkt, FreeAddr(S))

sendAck(S, to, gaga) == IF gaga = {} THEN S ELSE Send(S, to, [op |-> "ACK", gaga |-> gaga])

-----------------------------------------------------------------------------
(* Making the changes of S. *)

\* The model's bounds: room for two more closures and four more slots.
Room(p) == /\ Cardinality({a \in Addr : heap[p][a].type = "free"}) >= 2
           /\ Cardinality({s \in 1..MaxSlot : <<p, s>> \notin DOMAIN gala[p]}) >= 4

RECURSIVE Post(_, _, _)
Post(ch, p, out) ==
  IF out = <<>> THEN ch
  ELSE Post([ch EXCEPT ![p][Head(out).to] = Append(@, Head(out).m)], p, Tail(out))

Become(S, ch) ==
  /\ heap' = [heap EXCEPT ![S.p] = S.h]
  /\ gala' = [gala EXCEPT ![S.p] = S.g]
  /\ pending' = [pending EXCEPT ![S.p] = S.pend]
  /\ chan' = Post(ch, S.p, S.out)

Woken(S, f) == [t \in Tso |-> IF t \in S.wake THEN [f[t] EXCEPT !.does = "ready"] ELSE f[t]]
Same == UNCHANGED <<sparks, fishes, sent, gcs, conf>>

-----------------------------------------------------------------------------
(* Threads. *)

\* A thread enters the closure that it demands.
EnterValue(t) ==
  LET p == tso[t].pe
      a == Unwind(heap[p], tso[t].at)
  IN  /\ tso[t].does = "ready" /\ heap[p][a].type = "CONSTR"
      /\ tso' = [tso EXCEPT ![t] = IF tso[t].deep /\ heap[p][a].ptr # 0 THEN [@ EXCEPT !.at = heap[p][a].ptr]
                                   ELSE [@ EXCEPT !.at = 0, !.does = "done"]]
      /\ UNCHANGED <<heap, gala, chan, pending>> /\ Same

EnterThunk(t) ==
  LET p == tso[t].pe
      a == Unwind(heap[p], tso[t].at)
  IN  /\ tso[t].does = "ready" /\ heap[p][a].type = "THUNK"
      /\ heap' = [heap EXCEPT ![p][a].type = "BLACKHOLE"]
      /\ tso' = [tso EXCEPT ![t].at = a, ![t].does = "eval"]
      /\ UNCHANGED <<gala, chan, pending>> /\ Same

\* The entry code of BLACKHOLE, RBH and FETCH_ME_BQ.
EnterBlackHole(t) ==
  LET p == tso[t].pe
      a == Unwind(heap[p], tso[t].at)
  IN  /\ tso[t].does = "ready" /\ IsBlackHole(heap[p][a]) /\ heap[p][a].type # "FETCH_ME"
      /\ heap' = [heap EXCEPT ![p][a].bq = @ \union {[k |-> "TSO", t |-> t]}]
      /\ tso' = [tso EXCEPT ![t].at = a, ![t].does = "blocked"]
      /\ UNCHANGED <<gala, chan, pending>> /\ Same

\* FETCH_ME_entry and blockThread: the closure becomes a FETCH_ME_BQ with a GA of
\* its own, to which the answer will be sent.
EnterFetchMe(t) ==
  LET p == tso[t].pe
      a == Unwind(heap[p], tso[t].at)
      B == [State(p) EXCEPT !.h[a].type = "FETCH_ME_BQ", !.h[a].bq = {[k |-> "TSO", t |-> t]}, !.h[a].ga = <<>>]
      from == heap[p][a].ga
  IN  /\ tso[t].does = "ready" /\ heap[p][a].type = "FETCH_ME" /\ Room(p)
      /\ \E N \in {splitWeight(makeGlobal(B, a, FALSE))} :
           Become(Send(N.S, from[1], [op |-> "FETCH", ga |-> from, rga |-> N.ga, w |-> N.w]), chan)
      /\ tso' = [tso EXCEPT ![t].at = a, ![t].does = "blocked"]
      /\ Same

\* The thunk is updated with its value.
Update(t) ==
  LET p == tso[t].pe
      S == awakenBlockedQueue([State(p) EXCEPT !.h[tso[t].at].type = "CONSTR"], tso[t].at)
  IN  /\ tso[t].does = "eval"
      /\ Become(S, chan)
      /\ tso' = Woken(S, [tso EXCEPT ![t].does = "ready"])
      /\ Same

\* A PE without work turns a spark into a thread ...
ActivateSpark(t) ==
  LET p == tso[t].pe
  IN  /\ tso[t].does = "done" /\ ~tso[t].deep
      /\ \E a \in sparks[p] :
           /\ sparks' = [sparks EXCEPT ![p] = @ \ {a}]
           /\ tso' = [tso EXCEPT ![t].at = a, ![t].does = IF heap[p][Unwind(heap[p], a)].type = "THUNK" THEN "ready" ELSE "done"]
      /\ UNCHANGED <<heap, gala, chan, pending, fishes, sent, gcs, conf>>

\* ... or sends a fish.
Idle(p) == sparks[p] = {} /\ \A t \in Tso : tso[t].pe = p => tso[t].does \in {"blocked", "done"}

GoFishing(p, q) ==
  /\ Idle(p) /\ fishes[p] = 0 /\ sent < conf.fish /\ q \in conf.pes \ {p}
  /\ \E t \in Tso : tso[t].pe = p /\ tso[t].does = "done" /\ ~tso[t].deep
  /\ chan' = [chan EXCEPT ![p][q] = Append(@, [op |-> "FISH", orig |-> p, age |-> 0])]
  /\ fishes' = [fishes EXCEPT ![p] = @ + 1] /\ sent' = sent + 1
  /\ UNCHANGED <<heap, gala, sparks, pending, tso, gcs, conf>>

-----------------------------------------------------------------------------
(* Messages: q has sent p the message m. *)

Arrived(p, q, op) == chan[q][p] # <<>> /\ Head(chan[q][p]).op = op
Taken(p, q) == [chan EXCEPT ![q][p] = Tail(@)]

\* processFish, when the fish comes home.
FishHome(p, q) ==
  /\ Arrived(p, q, "FISH") /\ Head(chan[q][p]).orig = p
  /\ fishes' = [fishes EXCEPT ![p] = @ - 1]
  /\ chan' = Taken(p, q)
  /\ UNCHANGED <<heap, gala, sparks, pending, tso, sent, gcs, conf>>

\* findSpark: only a closure that is still a thunk is exported.
Sparkable(p) == {a \in sparks[p] : heap[p][Unwind(heap[p], a)].type = "THUNK"}

FishFed(p, q) ==
  LET o == Head(chan[q][p]).orig
  IN  /\ Arrived(p, q, "FISH") /\ o # p /\ Room(p)
      /\ \E a \in Sparkable(p), room \in BOOLEAN :
           \E P \in {PackNearbyGraph(State(p), Unwind(heap[p], a), o, room)} :
             /\ Become(Send(P.S, o, [op |-> "SCHEDULE", pkt |-> P.pkt]), Taken(p, q))
             /\ sparks' = [sparks EXCEPT ![p] = @ \ {a}]
      /\ UNCHANGED <<tso, fishes, sent, gcs, conf>>

FishPassedOn(p, q) ==
  LET m == Head(chan[q][p])
  IN  /\ Arrived(p, q, "FISH") /\ m.orig # p /\ Sparkable(p) = {}
      /\ sparks' = [sparks EXCEPT ![p] = {}]
      /\ \E r \in conf.pes \ {p} :
           /\ m.age >= FishLife => r = m.orig
           /\ chan' = [Taken(p, q) EXCEPT ![p][r] = Append(@, [m EXCEPT !.age = @ + 1])]
      /\ UNCHANGED <<heap, gala, pending, tso, fishes, sent, gcs, conf>>

processSchedule(p, q) ==
  /\ Arrived(p, q, "SCHEDULE") /\ Room(p)
  /\ \E U \in {UnpackGraph(State(p), Head(chan[q][p]).pkt)} :
       /\ Become(sendAck(U.S, q, U.gaga), Taken(p, q))
       /\ sparks' = [sparks EXCEPT ![p] = IF U.S.h[U.a].type = "THUNK" THEN @ \union {U.a} ELSE @]
       /\ tso' = Woken(U.S, tso)
  /\ fishes' = [fishes EXCEPT ![p] = @ - 1]
  /\ UNCHANGED <<sent, gcs, conf>>

convertToFetchMe(S, a, ga) ==
  awakenBlockedQueue([S EXCEPT !.h[a].type = "FETCH_ME", !.h[a].ga = ga, !.h[a].ptr = 0], a)

\* processAck, for one pair of GAs: the RBH becomes a FETCH_ME, unless the new GA is
\* known here, which can only be because the closure has come back.
AckPairAt(S, x, old, new) ==
  IF new # 0 THEN addWeight(IF old = new THEN S ELSE CommonUp(S, old, new), x.new, x.w)
  ELSE IF S.h[old].type = "RBH" THEN convertToFetchMe(setRemoteGA(S, old, x.new, x.w), old, x.new)
  ELSE setRemoteGA(S, old, x.new, x.w)

AckPair(S, x) == AckPairAt(S, x, GALAlookup(S, x.old), GALAlookup(S, x.new))

RECURSIVE AckPairs(_, _)
AckPairs(S, gaga) ==
  IF gaga = {} THEN S ELSE LET x == CHOOSE y \in gaga : TRUE IN AckPairs(AckPair(S, x), gaga \ {x})

processAck(p, q) ==
  /\ Arrived(p, q, "ACK")
  /\ \E S \in {AckPairs(State(p), Head(chan[q][p]).gaga)} : Become(S, Taken(p, q)) /\ tso' = Woken(S, tso)
  /\ Same

\* An answer to the fetch of the GA rga, with its weight.
Resume(P, rga, w) == Send(P.S, rga[1], [op |-> "RESUME", ga |-> rga, w |-> w, pkt |-> P.pkt])
Answer(S, a, rga, w, room) == Resume(PackNearbyGraph(S, a, rga[1], room), rga, w)

Forward(S, a, rga, w) ==
  Send(S, S.h[a].ga[1], [op |-> "FETCH", ga |-> S.h[a].ga, rga |-> rga, w |-> w])

blockFetch(S, a, rga, w) == [S EXCEPT !.h[a].bq = @ \union {[k |-> "BF", node |-> a, ga |-> rga, w |-> w]}]

\* processFetch.
FetchForwarded(p, q) ==
  LET m == Head(chan[q][p])
      a == GALAlookup(State(p), m.ga)
  IN  /\ Arrived(p, q, "FETCH") /\ heap[p][a].type = "FETCH_ME"
      /\ Become(Forward(State(p), a, m.rga, m.w), Taken(p, q))
      /\ UNCHANGED tso /\ Same

FetchCameHome(p, q) ==
  LET m == Head(chan[q][p])
      a == GALAlookup(State(p), m.ga)
      b == GALAlookup(State(p), m.rga)
  IN  /\ Arrived(p, q, "FETCH") /\ heap[p][a].type # "FETCH_ME" /\ m.rga[1] = p
      /\ \E S \in {addWeight(IF a = b THEN State(p) ELSE CommonUp(State(p), b, a), m.rga, m.w)} :
           Become(S, Taken(p, q)) /\ tso' = Woken(S, tso)
      /\ Same

FetchBlocked(p, q) ==
  LET m == Head(chan[q][p])
      a == GALAlookup(State(p), m.ga)
  IN  /\ Arrived(p, q, "FETCH") /\ m.rga[1] # p
      /\ IsBlackHole(heap[p][a]) /\ heap[p][a].type # "FETCH_ME"
      /\ Become(blockFetch(State(p), a, m.rga, m.w), Taken(p, q))
      /\ UNCHANGED tso /\ Same

FetchAnswered(p, q) ==
  LET m == Head(chan[q][p])
      a == GALAlookup(State(p), m.ga)
  IN  /\ Arrived(p, q, "FETCH") /\ m.rga[1] # p /\ heap[p][a].type \in {"THUNK", "CONSTR"} /\ Room(p)
      /\ \E room \in BOOLEAN : Become(Answer(State(p), a, m.rga, m.w, room), Taken(p, q))
      /\ UNCHANGED tso /\ Same

\* processFetches, for one of the pending fetches.
processPendingFetch(p) ==
  \E bf \in pending[p] :
    LET a == Unwind(heap[p], bf.node)
        S == [State(p) EXCEPT !.pend = @ \ {bf}]
    IN  /\ Room(p)
        /\ CASE heap[p][a].type = "FETCH_ME" -> Become(Forward(S, a, bf.ga, bf.w), chan)
             [] IsBlackHole(heap[p][a]) -> Become(blockFetch(S, a, bf.ga, bf.w), chan)
             [] OTHER -> \E room \in BOOLEAN : Become(Answer(S, a, bf.ga, bf.w, room), chan)
        /\ UNCHANGED tso /\ Same

Resumed(U, old) == IF U.S.h[old].type = "FETCH_ME_BQ" /\ old # U.a THEN CommonUp(U.S, old, U.a) ELSE U.S

processResume(p, q) ==
  LET m == Head(chan[q][p])
      A == addWeight(State(p), m.ga, m.w)
  IN  /\ Arrived(p, q, "RESUME") /\ Room(p)
      /\ \E U \in {UnpackGraph(A, m.pkt)} : \E S \in {Resumed(U, GALAlookup(A, m.ga))} :
           Become(sendAck(S, q, U.gaga), Taken(p, q)) /\ tso' = Woken(S, tso)
      /\ Same

processFree(p, q) ==
  LET m == Head(chan[q][p])
  IN  /\ Arrived(p, q, "FREE")
      /\ Become(addWeight(State(p), m.ga, m.w), Taken(p, q))
      /\ UNCHANGED tso /\ Same

-----------------------------------------------------------------------------
(* Garbage collection. *)

\* markLocalGAs keeps the GAs that others hold weight of.
Kept(p) == {ga \in DOMAIN gala[p] : ga[1] = p /\ gala[p][ga].w # MAX_GA_WEIGHT}

RECURSIVE ReachFrom(_, _)
ReachFrom(h, A) ==
  LET B == A \union {h[a].ptr : a \in {x \in A : h[x].ptr # 0}}
  IN  IF B = A THEN A ELSE ReachFrom(h, B)

\* What survives: indirections do not.
Live(p) ==
  {Unwind(heap[p], a) : a \in ReachFrom(heap[p],
    {tso[t].at : t \in {u \in Tso : tso[u].pe = p /\ tso[u].at # 0}}
    \union sparks[p] \union {bf.node : bf \in pending[p]}
    \union {gala[p][ga].la : ga \in Kept(p)})}

\* rebuildGAtables: the remote GAs whose closure did not survive.
Dead(p) == {ga \in DOMAIN gala[p] : ga[1] # p /\ Unwind(heap[p], gala[p][ga].la) \notin Live(p)}

\* rebuildLAGAtable: of the preferred GAs that now have the same closure one stays,
\* a remote one if there is one.
Preferred(p, ga, keep) ==
  LET rivals == {x \in keep : gala[p][x].preferred /\ Unwind(heap[p], gala[p][x].la) = Unwind(heap[p], gala[p][ga].la)}
      remote == {x \in rivals : x[1] # p}
  IN  gala[p][ga].preferred /\ ga = CHOOSE x \in (IF remote = {} THEN rivals ELSE remote) : TRUE

\* freeRemoteGA, sendFreeMessages: the weight of the dead goes back to the owner.
FreeMessages(p, q, dead) ==
  SetToSeq({[op |-> "FREE", ga |-> ga, w |-> gala[p][ga].w] : ga \in {x \in dead : x[1] = q}})

\* The closures that survive, with indirections bypassed.
Survivors(p, live) ==
  [a \in Addr |-> IF a \notin live THEN Nothing
                  ELSE [heap[p][a] EXCEPT !.ptr = IF @ = 0 THEN 0 ELSE Unwind(heap[p], @)]]

GC(p) ==
  /\ gcs < conf.gcs /\ p \in conf.pes
  /\ \E live \in {Live(p)}, dead \in {Dead(p)} : \E keep \in {Kept(p) \union {ga \in DOMAIN gala[p] \ dead : ga[1] # p}} :
       /\ heap' = [heap EXCEPT ![p] = Survivors(p, live)]
       /\ gala' = [gala EXCEPT ![p] = [ga \in keep |->
                     [gala[p][ga] EXCEPT !.la = Unwind(heap[p], @), !.preferred = Preferred(p, ga, keep)]]]
       /\ chan' = [chan EXCEPT ![p] = [q \in PE |-> @[q] \o FreeMessages(p, q, dead)]]
  /\ tso' = [t \in Tso |-> IF tso[t].pe = p /\ tso[t].at # 0 THEN [tso[t] EXCEPT !.at = Unwind(heap[p], @)] ELSE tso[t]]
  /\ sparks' = [sparks EXCEPT ![p] = {Unwind(heap[p], a) : a \in @}]
  /\ pending' = [pending EXCEPT ![p] = {[bf EXCEPT !.node = Unwind(heap[p], @)] : bf \in @}]
  /\ gcs' = gcs + 1
  /\ UNCHANGED <<fishes, sent, conf>>

-----------------------------------------------------------------------------
Enter(t) == EnterValue(t) \/ EnterThunk(t) \/ EnterBlackHole(t) \/ EnterFetchMe(t)

Handle(p, q) ==
  \/ FishHome(p, q) \/ FishFed(p, q) \/ FishPassedOn(p, q)
  \/ processSchedule(p, q) \/ processAck(p, q)
  \/ FetchForwarded(p, q) \/ FetchCameHome(p, q) \/ FetchBlocked(p, q) \/ FetchAnswered(p, q)
  \/ processResume(p, q) \/ processFree(p, q)

Next ==
  \/ \E t \in Tso : Enter(t) \/ Update(t) \/ ActivateSpark(t)
  \/ \E p, q \in PE : GoFishing(p, q) \/ Handle(p, q)
  \/ \E p \in PE : processPendingFetch(p) \/ GC(p)

Spec == Init /\ [][Next]_vars

-----------------------------------------------------------------------------
(* What is in flight, and the shares of the GAs. *)

InFlight ==
  UNION {{[from |-> e[1], to |-> e[2], i |-> i, m |-> chan[e[1]][e[2]][i]] : i \in DOMAIN chan[e[1]][e[2]]} : e \in PE \X PE}

Packet(m) == IF m.op \in {"SCHEDULE", "RESUME"} THEN m.pkt ELSE <<>>

\* The blocked fetches of a PE, in the queues and pending.
BlockedFetches(p) ==
  pending[p] \union UNION {{e \in heap[p][a].bq : e.k = "BF"} : a \in Addr}

\* The shares of GAs that a message carries, each with a tag.
Carried(x) ==
  {[ga |-> Packet(x.m)[k].ga, w |-> Packet(x.m)[k].w, at |-> <<x.from, x.to, x.i, k>>] : k \in DOMAIN Packet(x.m)}
  \union (CASE x.m.op = "ACK" -> {[ga |-> y.new, w |-> y.w, at |-> <<x.from, x.to, x.i>>] : y \in x.m.gaga}
            [] x.m.op = "FETCH" -> {[ga |-> x.m.rga, w |-> x.m.w, at |-> <<x.from, x.to, x.i>>]}
            [] x.m.op \in {"RESUME", "FREE"} -> {[ga |-> x.m.ga, w |-> x.m.w, at |-> <<x.from, x.to, x.i>>]}
            [] OTHER -> {})

Shares ==
  UNION {Carried(x) : x \in InFlight}
  \union UNION {{[ga |-> ga, w |-> gala[p][ga].w, at |-> <<p>>] : ga \in DOMAIN gala[p]} : p \in PE}
  \union UNION {{[ga |-> bf.ga, w |-> bf.w, at |-> <<p>>] : bf \in BlockedFetches(p)} : p \in PE}

Weigh(sh) == sh.w
Unevaluated == {"THUNK", "BLACKHOLE"}

TypeOK ==
  /\ \A p \in PE : \A a \in Addr :
       /\ heap[p][a].type \in {"free", "THUNK", "BLACKHOLE", "CONSTR", "IND", "RBH", "FETCH_ME", "FETCH_ME_BQ"}
       /\ heap[p][a].ptr \in {0} \union Addr
  /\ \A p \in PE : DOMAIN gala[p] \subseteq GA /\ \A ga \in DOMAIN gala[p] : gala[p][ga].w \in 0..(W-1)
  /\ fishes \in [PE -> 0..conf.fish]

\* The weights of a GA, in the tables, in messages and in blocked fetches, always add
\* up to the full weight (0 in unsigned arithmetic), and a GA that its owner
\* has dropped is nowhere else: the owner never frees a GA that is in use,
\* and drops one as soon as its weight is back (splitWeight, addWeight,
\* markLocalGAs).
WeightConserved ==
  \A ga \in {sh.ga : sh \in Shares} :
    /\ ga \in DOMAIN gala[ga[1]]
    /\ MapThenSumSet(Weigh, {sh \in Shares : sh.ga = ga}) % W = 0

\* A node is unevaluated in at most one place: on a PE or in a packet.  Shipping a
\* thunk moves it, however the SCHEDULE, the ACK and the fetches of it overlap
\* (convertToRBH).
NoDuplicateWork ==
  \A n \in Node :
    LET here == UNION {{<<p, a>> : a \in {x \in Addr : heap[p][x].node = n /\ heap[p][x].type \in Unevaluated}} : p \in PE}
        away == UNION {{<<x.from, x.to, x.i, k>> : k \in {j \in DOMAIN Packet(x.m) : Packet(x.m)[j].kind = "THUNK" /\ Packet(x.m)[j].node = n}} : x \in InFlight}
    IN  Cardinality(here) + Cardinality(away) <= 1

\* The GAs of a closure of p that the rest of the world may know it by.
Names(p, a) == {ga \in DOMAIN gala[p] : Unwind(heap[p], gala[p][ga].la) = a}

Asked(p, a) ==
  LET mine == {ga \in Names(p, a) : ga[1] = p}
  IN  \/ \E x \in InFlight : (x.m.op = "FETCH" /\ x.m.rga \in mine) \/ (x.m.op = "RESUME" /\ x.m.ga \in mine)
      \/ \E q \in PE : \E bf \in BlockedFetches(q) : bf.ga \in mine

Shipped(p, a) ==
  \E x \in InFlight :
    \/ x.from = p /\ \E k \in DOMAIN Packet(x.m) : Packet(x.m)[k].ga \in Names(p, a) /\ Packet(x.m)[k].kind = "THUNK"
    \/ x.to = p /\ x.m.op = "ACK" /\ \E y \in x.m.gaga : y.old \in Names(p, a)

\* Whatever waits will be woken: a black hole has a thread that will update it,
\* an RBH a packet or an ACK under way, a FETCH_ME_BQ a FETCH, a blocked fetch or a
\* RESUME that bears a GA of it; and a thread is blocked exactly when it is in the
\* queue of one closure.
Awaited ==
  /\ \A p \in PE : \A a \in Addr :
       CASE heap[p][a].type = "BLACKHOLE" -> \E t \in Tso : tso[t].pe = p /\ tso[t].at = a /\ tso[t].does = "eval"
         [] heap[p][a].type = "RBH" -> Shipped(p, a)
         [] heap[p][a].type = "FETCH_ME_BQ" -> Asked(p, a)
         [] OTHER -> heap[p][a].bq = {}
  /\ \A t \in Tso :
       Cardinality({a \in Addr : [k |-> "TSO", t |-> t] \in heap[tso[t].pe][a].bq}) = (IF tso[t].does = "blocked" THEN 1 ELSE 0)

\* The ASSERT of processResume: a RESUME finds the closure that asked still waiting,
\* although the same node may have come in another packet or as a value.
ResumeeWaits ==
  \A p, q \in PE : Arrived(p, q, "RESUME") =>
    heap[p][GALAlookup(State(p), Head(chan[q][p]).ga)].type \in {"FETCH_ME_BQ", "RBH"}

\* outstandingFishes counts the fish of a PE and the SCHEDULEs that answer them.
FishCounted ==
  \A p \in PE : fishes[p] = Cardinality({x \in InFlight : (x.m.op = "FISH" /\ x.m.orig = p) \/ (x.m.op = "SCHEDULE" /\ x.to = p)})
=============================================================================
