---------------------------- MODULE MCCapability ----------------------------
(* Instances of Capability for TLC. *)
EXTENDS Capability

CONSTANTS w1, w2, w3, w4, i1, s1, s2, e1, u1, u2

Symmetric == Permutations(Unbound)

S(callers, threads, ops, maxOps, wait, spurious, last) ==
    [callers |-> callers, threads |-> threads, ops |-> ops, maxOps |-> maxOps, wait |-> wait,
     spurious |-> spurious, last |-> last]

(* A Task that wakes up from the GC of its inbox on another Capability:    *)
(* this takes 47 steps, so Unswerving leaves only the behaviours where i1  *)
(* sends one thread to Capability 1 and blocks, and that one wakes it up   *)
(* and sends another thread to Capability 0.                               *)
Strays == {S({i1, s1}, 2, {"forkOn", "block", "inboxGC"}, 2, TRUE, FALSE, {})}

On(c) == {t \in Unbound : tso[t].st # "new" /\ tso[t].cap = c}
Unswerving == scenario \in Strays =>
    /\ \A w \in Worker : task[w].sync = "none"
    /\ task[s1].sync # "other"
    /\ \A t \in Unbound : tso[t].st # "new" => tso[t].locked
    /\ \A c \in Cap : Cardinality(On(c)) <= 1
    /\ \A t \in On(1) : tso[t].ops = 1 => tso[t].st = "running" /\ \E c \in Cap : Contains(inbox[c], i1)
    /\ \A t \in On(0) : tso[t].ops = 2 /\ \E u \in On(1) : tso[u].ops = 0
    /\ tso[i1].ops = 1 => On(1) # {}
    /\ tso[i1].ops = 0 => tso[i1].st = "blocked" \/ On(0) # {}

(* Threads that are pushed and sent to other Capabilities; a GC or a fork  *)
(* while threads call C; an exit during each of these; a GC in the middle  *)
(* of an inbox; and a heap that overflows.                                 *)
Safe == Strays \cup
    {S({i1}, 2, {"forkOn"}, 1, TRUE, TRUE, {}),
     S({i1}, 1, {"forkOn", "inboxGC"}, 2, TRUE, TRUE, {}),
     S({i1, s1}, 1, {"forkOn", "inboxGC"}, 1, TRUE, FALSE, {}),
     S({i1, s1}, 0, {"ccall"}, 1, TRUE, TRUE, Cap),
     S({i1, s1}, 1, {"gc", "ccall", "overflow"}, 1, TRUE, FALSE, Cap),
     S({i1, e1}, 1, {"block", "ccall"}, 1, TRUE, FALSE, Cap),
     S({i1, e1}, 1, {"forkOn", "inboxGC"}, 1, FALSE, FALSE, {}),
     S({i1, e1}, 0, {"forkOn", "ccall"}, 1, FALSE, FALSE, {}),
     S({i1, e1}, 0, {"gc", "overflow"}, 1, TRUE, FALSE, Cap),
     S({s1, e1}, 0, {"overflow"}, 1, TRUE, FALSE, Cap)}

(* With one spare worker for each Capability, a performGC or an hs_exit    *)
(* that yields to a GC is taken for one too many.                          *)
Live ==
    {S({i1}, 1, {"forkOn", "block"}, 2, TRUE, FALSE, {}),
     S({i1, s1}, 0, {"ccall", "gc"}, 1, TRUE, FALSE, Cap),
     S({i1, e1}, 0, {"ccall"}, 1, TRUE, FALSE, {})}

(* A thread that comes back from C during the shutdown, and then blocks.   *)
Late == {S({i1, e1}, 0, {"ccall", "block"}, 2, TRUE, FALSE, {})}
=============================================================================
