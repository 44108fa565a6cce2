---------------------------- MODULE CapabilityProofs ----------------------------
(***************************************************************************)
(* The hand-over of Capabilities, for any number of Capabilities, Tasks    *)
(* and Haskell threads: nobody runs without owning, nothing is queued      *)
(* twice, no Capability is left free with work and nobody on the way.      *)
(***************************************************************************)
EXTENDS Capability, SetInduction, FiniteSetTheorems

-----------------------------------------------------------------------------
(* Sequences as sets *)

In(q, x) == \E j \in DOMAIN q : q[j] = x
Injective(q) == \A j, m \in DOMAIN q : q[j] = q[m] => j = m

LEMMA AppendFacts ==
    ASSUME NEW S, NEW q \in Seq(S), NEW x \in S
    PROVE  /\ Append(q, x) \in Seq(S) /\ Append(q, x) # <<>>
           /\ \A y : In(Append(q, x), y) <=> In(q, y) \/ y = x
           /\ Injective(q) /\ ~In(q, x) => Injective(Append(q, x))
           /\ q # <<>> => Head(Append(q, x)) = Head(q)
<1> DEFINE p == Append(q, x)
<1>1. /\ p \in Seq(S) /\ p # <<>> /\ Len(q) \in Nat /\ Len(p) = Len(q) + 1
      /\ DOMAIN p = 1..Len(q) + 1 /\ DOMAIN q = 1..Len(q)
      /\ \A j \in 1..Len(q) : p[j] = q[j]
      /\ p[Len(q) + 1] = x
  OBVIOUS
<1> HIDE DEF p
<1>2. \A y : In(p, y) <=> In(q, y) \/ y = x
  BY <1>1 DEF In
<1>3. Injective(q) /\ ~In(q, x) => Injective(p)
  BY <1>1 DEF In, Injective
<1>4. q # <<>> => Head(p) = Head(q)
  BY <1>1
<1> QED
  BY <1>1, <1>2, <1>3, <1>4 DEF p

LEMMA PrependFacts ==
    ASSUME NEW S, NEW q \in Seq(S), NEW x \in S
    PROVE  /\ <<x>> \o q \in Seq(S) /\ <<x>> \o q # <<>>
           /\ \A y : In(<<x>> \o q, y) <=> In(q, y) \/ y = x
           /\ Injective(q) /\ ~In(q, x) => Injective(<<x>> \o q)
           /\ Head(<<x>> \o q) = x
<1> DEFINE p == <<x>> \o q
<1>1. /\ p \in Seq(S) /\ p # <<>> /\ Len(q) \in Nat /\ Len(p) = Len(q) + 1
      /\ DOMAIN p = 1..Len(q) + 1 /\ DOMAIN q = 1..Len(q)
      /\ \A j \in 1..Len(q) : p[j + 1] = q[j]
      /\ p[1] = x
  OBVIOUS
<1>a. Head(p) = x
  BY <1>1
<1> HIDE DEF p
<1>b. \A j \in DOMAIN p : \/ j = 1 /\ p[j] = x
                          \/ j - 1 \in DOMAIN q /\ p[j] = q[j - 1]
  BY <1>1
<1>c. \A j \in DOMAIN q : j + 1 \in DOMAIN p /\ p[j + 1] = q[j]
  BY <1>1
<1>d. 1 \in DOMAIN p
  BY <1>1
<1>2. \A y : In(p, y) <=> In(q, y) \/ y = x
  <2>1. \A y : In(p, y) => In(q, y) \/ y = x
    BY <1>b DEF In
  <2>2. \A y : In(q, y) \/ y = x => In(p, y)
    BY <1>1, <1>c, <1>d DEF In
  <2> QED
    BY <2>1, <2>2
<1>3. ASSUME Injective(q), ~In(q, x), NEW j \in DOMAIN p, NEW m \in DOMAIN p, p[j] = p[m]
      PROVE  j = m
  <2>1. CASE j - 1 \in DOMAIN q /\ p[j] = q[j - 1] /\ m - 1 \in DOMAIN q /\ p[m] = q[m - 1]
    <3>1. j - 1 = m - 1
      BY <1>3, <2>1 DEF Injective
    <3> QED
      BY <3>1, <1>1
  <2> QED
    BY <1>b, <1>3, <2>1 DEF In
<1> QED
  BY <1>1, <1>2, <1>3, <1>a DEF p, Injective

LEMMA TailFacts ==
    ASSUME NEW S, NEW q \in Seq(S), q # <<>>
    PROVE  /\ Head(q) \in S /\ In(q, Head(q)) /\ Tail(q) \in Seq(S)
           /\ Injective(q) => /\ Injective(Tail(q))
                              /\ \A y : In(Tail(q), y) <=> In(q, y) /\ y # Head(q)
<1> DEFINE p == Tail(q)
<1>1. /\ p \in Seq(S) /\ Len(q) \in Nat \ {0} /\ Len(p) = Len(q) - 1
      /\ DOMAIN p = 1..Len(q) - 1 /\ DOMAIN q = 1..Len(q)
      /\ \A j \in 1..Len(q) - 1 : p[j] = q[j + 1]
      /\ Head(q) = q[1] /\ q[1] \in S
  OBVIOUS
<1> HIDE DEF p
<1>b. \A j \in 2..Len(q) : j - 1 \in 1..Len(q) - 1 /\ q[j] = p[j - 1]
  BY <1>1
<1>2. In(q, Head(q))
  BY <1>1 DEF In
<1>3. ASSUME Injective(q)
      PROVE  Injective(p) /\ \A y : In(p, y) <=> In(q, y) /\ y # Head(q)
  <2>1. Injective(p)
    <3> SUFFICES ASSUME NEW j \in DOMAIN p, NEW m \in DOMAIN p, p[j] = p[m] PROVE j = m
      BY DEF Injective
    <3>1. /\ j + 1 \in DOMAIN q /\ m + 1 \in DOMAIN q /\ j \in Int /\ m \in Int
          /\ p[j] = q[j + 1] /\ p[m] = q[m + 1]
      BY <1>1
    <3>2. j + 1 = m + 1
      BY <3>1, <1>3 DEF Injective
    <3> QED
      BY <3>1, <3>2
  <2>2. \A y : In(p, y) => In(q, y) /\ y # Head(q)
    <3> SUFFICES ASSUME NEW j \in DOMAIN p PROVE In(q, p[j]) /\ p[j] # Head(q)
      BY DEF In
    <3>1. j + 1 \in DOMAIN q /\ p[j] = q[j + 1] /\ 1 \in DOMAIN q /\ j + 1 # 1
      BY <1>1
    <3> QED
      BY <3>1, <1>1, <1>3 DEF In, Injective
  <2>3. \A y : In(q, y) /\ y # Head(q) => In(p, y)
    BY <1>1, <1>b DEF In
  <2> QED
    BY <2>1, <2>2, <2>3
<1> QED
  BY <1>1, <1>2, <1>3 DEF p

LEMMA ConcatFacts ==
    ASSUME NEW S, NEW q \in Seq(S), NEW p \in Seq(S)
    PROVE  /\ q \o p \in Seq(S)
           /\ \A y : In(q \o p, y) <=> In(q, y) \/ In(p, y)
           /\ Injective(q) /\ Injective(p) /\ (\A y : ~(In(q, y) /\ In(p, y))) => Injective(q \o p)
           /\ q # <<>> => Head(q \o p) = Head(q)
<1> DEFINE r == q \o p
<1>1. /\ r \in Seq(S) /\ Len(q) \in Nat /\ Len(p) \in Nat /\ Len(r) = Len(q) + Len(p)
      /\ DOMAIN r = 1..Len(q) + Len(p) /\ DOMAIN q = 1..Len(q) /\ DOMAIN p = 1..Len(p)
      /\ \A j \in 1..Len(q) : r[j] = q[j]
      /\ \A j \in 1..Len(p) : r[Len(q) + j] = p[j]
  OBVIOUS
<1> HIDE DEF r
<1>b. \A j \in DOMAIN r : \/ j \in DOMAIN q /\ r[j] = q[j]
                          \/ j - Len(q) \in DOMAIN p /\ r[j] = p[j - Len(q)]
  BY <1>1
<1>c. \A j \in DOMAIN p : Len(q) + j \in DOMAIN r /\ r[Len(q) + j] = p[j]
  BY <1>1
<1>d. \A j \in DOMAIN q : j \in DOMAIN r /\ r[j] = q[j]
  BY <1>1
<1>2. \A y : In(r, y) <=> In(q, y) \/ In(p, y)
  <2>1. \A y : In(r, y) => In(q, y) \/ In(p, y)
    BY <1>b DEF In
  <2>2. \A y : In(q, y) \/ In(p, y) => In(r, y)
    BY <1>c, <1>d DEF In
  <2> QED
    BY <2>1, <2>2
<1>3. ASSUME Injective(q), Injective(p), \A y : ~(In(q, y) /\ In(p, y)),
             NEW j \in DOMAIN r, NEW m \in DOMAIN r, r[j] = r[m]
      PROVE  j = m
  <2>1. CASE j \in DOMAIN q /\ r[j] = q[j] /\ m \in DOMAIN q /\ r[m] = q[m]
    BY <1>3, <2>1 DEF Injective
  <2>2. CASE j - Len(q) \in DOMAIN p /\ r[j] = p[j - Len(q)] /\ m - Len(q) \in DOMAIN p /\ r[m] = p[m - Len(q)]
    <3>1. j - Len(q) = m - Len(q)
      BY <1>3, <2>2 DEF Injective
    <3> QED
      BY <3>1, <1>1
  <2>3. CASE j \in DOMAIN q /\ r[j] = q[j] /\ m - Len(q) \in DOMAIN p /\ r[m] = p[m - Len(q)]
    BY <1>3, <2>3 DEF In
  <2>4. CASE m \in DOMAIN q /\ r[m] = q[m] /\ j - Len(q) \in DOMAIN p /\ r[j] = p[j - Len(q)]
    BY <1>3, <2>4 DEF In
  <2> QED
    BY <1>b, <2>1, <2>2, <2>3, <2>4
<1>4. q # <<>> => Head(r) = Head(q)
  BY <1>1
<1> QED
  BY <1>1, <1>2, <1>3, <1>4 DEF r, Injective

(* Those picks members without repeating any. *)
Picked(p, x, T) == IF x \in T THEN Append(p, x) ELSE p
Picking(q, T, f, n) ==
    f = [m \in 0..n |-> IF m = 0 THEN <<>> ELSE Picked(f[m - 1], q[m], T)]

LEMMA PickingExists ==
    ASSUME NEW q, NEW T, NEW n \in Nat
    PROVE  \E f : Picking(q, T, f, n)
<1> DEFINE S == {m \in Nat : \E f : Picking(q, T, f, m)}
<1>1. 0 \in S
  <2>1. Picking(q, T, [m \in 0..0 |-> <<>>], 0)
    BY DEF Picking
  <2> QED
    BY <2>1
<1>2. ASSUME NEW m \in Nat, m \in S PROVE m + 1 \in S
  <2>1. PICK f : Picking(q, T, f, m)
    BY <1>2
  <2> DEFINE g == [j \in 0..(m + 1) |-> IF j <= m THEN f[j] ELSE Picked(f[m], q[m + 1], T)]
  <2>2. \A j \in 0..(m + 1) :
          g[j] = IF j = 0 THEN <<>> ELSE Picked(g[j - 1], q[j], T)
    <3> TAKE j \in 0..(m + 1)
    <3>1. CASE j = 0
      BY <3>1, <2>1 DEF Picking
    <3>2. CASE j \in 1..m
      BY <3>2, <2>1 DEF Picking
    <3>3. CASE j = m + 1
      BY <3>3
    <3> QED
      BY <3>1, <3>2, <3>3
  <2>3. Picking(q, T, g, m + 1)
    BY <2>2 DEF Picking
  <2> QED
    BY <2>3
<1>3. Nat \subseteq S
  <2> HIDE DEF S
  <2> QED
    BY <1>1, <1>2, Induction
<1> QED
  BY <1>3

LEMMA ThoseFacts ==
    ASSUME NEW S, NEW q \in Seq(S), NEW T
    PROVE  /\ Those(q, T) \in Seq(S)
           /\ \A y : In(Those(q, T), y) <=> In(q, y) /\ y \in T
           /\ Injective(q) => Injective(Those(q, T))
<1> DEFINE n == Len(q)
           f == CHOOSE f : Picking(q, T, f, n)
<1>1. n \in Nat /\ DOMAIN q = 1..n /\ \A m \in 1..n : q[m] \in S
  OBVIOUS
<1>2. Those(q, T) = f[n]
  BY DEF Those, Picking, Picked
<1>3. Picking(q, T, f, n)
  <2> HIDE DEF n
  <2> QED
    BY <1>1, PickingExists
<1> HIDE DEF f, n
<1>4. f[0] = <<>> /\ \A m \in 1..n : f[m] = Picked(f[m - 1], q[m], T)
  BY <1>1, <1>3 DEF Picking
<1> DEFINE Good(m) ==
             /\ f[m] \in Seq(S)
             /\ \A y : In(f[m], y) <=> y \in T /\ \E j \in 1..m : q[j] = y
             /\ Injective(q) => Injective(f[m])
           G == {m \in Nat : m <= n => Good(m)}
<1>5. 0 \in G
  <2>1. f[0] \in Seq(S) /\ DOMAIN f[0] = {} /\ 1..0 = {}
    BY <1>4
  <2>2. Good(0)
    BY <2>1 DEF In, Injective
  <2> QED
    BY <2>2
<1>6. ASSUME NEW m \in Nat, m \in G PROVE m + 1 \in G
  <2> SUFFICES ASSUME m + 1 <= n PROVE Good(m + 1)
    OBVIOUS
  <2>1. Good(m)
    BY <1>1, <1>6
  <2>2. m + 1 \in 1..n /\ (m + 1) - 1 = m /\ q[m + 1] \in S /\ m <= n
    BY <1>1
  <2>3. f[m + 1] = IF q[m + 1] \in T THEN Append(f[m], q[m + 1]) ELSE f[m]
    BY <1>4, <2>2 DEF Picked
  <2>4. \A y : (\E j \in 1..m + 1 : q[j] = y) <=> (\E j \in 1..m : q[j] = y) \/ y = q[m + 1]
    BY <2>2
  <2>5. CASE q[m + 1] \in T
    <3>1. /\ f[m + 1] \in Seq(S)
          /\ \A y : In(f[m + 1], y) <=> In(f[m], y) \/ y = q[m + 1]
          /\ Injective(f[m]) /\ ~In(f[m], q[m + 1]) => Injective(f[m + 1])
      BY <2>1, <2>2, <2>3, <2>5, AppendFacts
    <3>2. \A y : In(f[m + 1], y) <=> y \in T /\ \E j \in 1..m + 1 : q[j] = y
      BY <2>1, <2>4, <2>5, <3>1
    <3>3. ASSUME Injective(q) PROVE ~In(f[m], q[m + 1])
      <4>1. \A j \in 1..m : j \in DOMAIN q /\ m + 1 \in DOMAIN q /\ j # m + 1
        BY <1>1, <2>2
      <4> QED
        BY <2>1, <3>3, <4>1 DEF Injective
    <3> QED
      BY <2>1, <3>1, <3>2, <3>3
  <2>6. CASE q[m + 1] \notin T
    BY <2>1, <2>3, <2>4, <2>6
  <2> QED
    BY <2>5, <2>6
<1>7. Nat \subseteq G
  <2> HIDE DEF G
  <2> QED
    BY <1>5, <1>6, Induction
<1>8. Good(n)
  <2> HIDE DEF Good
  <2>1. n \in G
    BY <1>1, <1>7
  <2> QED
    BY <1>1, <2>1
<1>9. \A y : In(q, y) <=> \E j \in 1..n : q[j] = y
  BY <1>1 DEF In
<1> QED
  BY <1>2, <1>8, <1>9

-----------------------------------------------------------------------------
(* The inductive invariant *)

(* Where a Task is: in waitForReturnCapability, in acquireAllCapabilities, *)
(* in schedulePushWork, in the loop of schedule() with task->cap back on   *)
(* its own Capability, anywhere in that loop, and in hs_exit.              *)
Waiting == {"return", "returnSleep", "returnCheck"}
Pushing == {"grab", "drop", "share", "relShared"}
AtHome == {"schedule", "push", "yield", "yielded", "release", "pick", "requestSync", "syncWait", "synced",
           "doGC", "inbox", "stray"}
Loop == AtHome \cup Pushing \cup {"acquire", "releaseAll", "interrupted"}
Inside == Loop \cup {"bind", "running", "resume", "unlock", "exitRelease"}
Exiting == {"exitRelease", "exitSet", "shut", "freed", "exited"}
Calling == Waiting \cup Exiting \cup
           {"none", "doGC", "requestSync", "release", "sleep", "check", "syncWait", "acquire", "synced",
            "releaseAll", "unlock", "done", "stopped"}
Gone == {"none", "stopped", "done"}

Stopping(r) == r.pc \in {"acquire", "synced"} \/ (r.pc \in Waiting /\ r.then = "acquire")
InC(r) == r.pc = "ccall" \/ (r.pc \in Waiting /\ r.then = "resume")
Yielding(r) == r.pc = "syncWait" \/ (r.pc \in {"release", "sleep", "check"} /\ r.then = "syncWait")

TaskRec == [pc : Place, cap : Cap \cup {Null}, wakeup : BOOLEAN,
            at : Cap \cup {Null}, on : Cap \cup {Null}, then : Place,
            i : 0..NCaps, held : Seq(Cap), cur : TSO \cup {Null},
            sync : {"none", "gc", "final", "inbox", "other"}, prev : {"none", "gc", "other"},
            old : Cap \cup {Null}]
TSORec == [st : {"new", "migrating", "runnable", "running", "blocked", "ccall", "finished"},
           cap : Cap \cup {Null}, locked : BOOLEAN, ops : 0..scenario.maxOps]

(* A worker has the same Capability all its life. *)
KeepsCap(r) ==
    /\ r.pc \in {"sleep", "check"} => r.cap = r.at
    /\ r.sync = "inbox" /\ r.pc \notin Gone => r.old = r.at
    /\ r.pc # "stray"

(* The locals of a Task agree with where it is. *)
TaskInv(k, r) ==
    /\ r.pc \in Waiting =>
         /\ r.on = r.cap /\ r.cap \in Cap
         /\ r.then \in {"bind", "doGC", "requestSync", "resume", "acquire"}
         /\ r.then = "bind" => k \in InCall
         /\ r.then \in {"doGC", "requestSync"} => k \in Syncer \cup Exiter
         /\ r.then = "doGC" => r.sync # "other"
         /\ r.then = "resume" => r.at = r.cap
         /\ r.then = "acquire" => r.at \in Cap /\ r.i > 0 /\ r.cap = r.i - 1 /\ r.at # r.cap
    /\ r.pc \in {"sleep", "check", "release"} => r.cap \in Cap /\ r.then \in {"yielded", "syncWait"}
    /\ r.pc = "check" => r.on \in Cap
    /\ r.pc \in Inside \/ InC(r) => r.at \in Cap
    /\ r.pc \in AtHome \cup {"bind", "running", "resume", "unlock", "interrupted"}
         => r.cap = r.at
    /\ r.pc = "syncWait" => r.then = "syncWait"
    /\ r.pc \in Pushing => r.cap \in Cap /\ Injective(r.held) /\ ~In(r.held, r.at)
    /\ r.pc \in {"grab", "drop"} => \A j \in DOMAIN r.held : r.held[j] < r.i
    /\ r.pc = "drop" => r.i < NCaps /\ r.i # r.at
    /\ r.pc = "doGC" => r.sync # "other"
    /\ r.pc = "bind" => k \in InCall
    /\ r.pc \in Exiting => k \in Exiter
    /\ r.sync = "other" => k \in Syncer
    /\ k \in Exiter => r.sync \in {"none", "gc"}
    /\ k \in Syncer => IF r.pc = "none" THEN r.sync = "none" ELSE r.sync \in {"gc", "other"}
    /\ k \in Syncer \cup Exiter =>
         /\ r.pc \in Calling
         /\ r.pc \in Waiting => r.then \in {"doGC", "requestSync", "acquire"}
         /\ r.pc \in {"release", "sleep", "check"} => r.then = "syncWait"
    /\ r.cur # Null <=> r.pc \in {"running", "resume"} \/ InC(r)
    /\ r.pc = "none" => r.sync = "none"
    /\ k \in Worker => KeepsCap(r)

TasksInv == \A k \in Task : TaskInv(k, task[k])

OwnedOf(r) ==
    LET waiting == r.pc \in {"return", "returnSleep", "returnCheck"}
        idle == r.pc \in {"none", "sleep", "check", "ccall", "stopped", "done", "exitSet"}
    IN  IF idle \/ (waiting /\ r.then # "acquire") THEN {}
        ELSE IF r.pc \in {"shut", "freed", "exited"} THEN 0..r.i - 1
        ELSE (IF r.pc = "releaseAll" /\ r.sync = "other" THEN {} ELSE {r.at})
             \cup (IF r.pc \in {"grab", "drop", "share", "relShared"} THEN ToSet(r.held) ELSE {})
             \cup (IF r.pc = "drop" THEN {r.i} ELSE {})
             \cup (IF r.pc = "acquire" THEN 0..r.i - 1 ELSE {})
             \cup (IF waiting THEN 0..r.i - 2 ELSE {})
             \cup (IF r.pc = "synced" THEN Cap ELSE {})
             \cup (IF r.pc = "releaseAll" THEN r.i..NCaps - 1 ELSE {})

(* running_task and the Tasks agree on who owns what. *)
OwnInv == \A c \in Cap, k \in Task : running_task[c] = k <=> c \in OwnedOf(task[k])

AtReturn(r, c) == r.pc \in {"returnSleep", "returnCheck"} /\ r.cap = c
AtYield(k, r, c) == r.pc \in {"sleep", "check"} /\ k \notin InCall /\ r.cap = c

(* The queues of Tasks hold the Tasks that wait there, once. *)
QueueInv ==
    \A c \in Cap :
      /\ Injective(returning_tasks[c]) /\ Injective(spare_workers[c])
      /\ \A k \in Task : /\ In(returning_tasks[c], k) <=> AtReturn(task[k], c)
                         /\ In(spare_workers[c], k) <=> AtYield(k, task[k], c)

(* A message may outlive its purpose when all threads are deleted. *)
Stale(r) == sched_state = "shutting" /\ r.ops = 0 /\ r.st \in {"runnable", "running", "finished"}

ThreadOf(t, r) ==
    /\ \A c \in Cap :
         /\ In(run_queue[c], t) <=> r.st = "runnable" /\ r.cap = c
         /\ In(inbox[c], t) => (r.st \in {"blocked", "migrating"} /\ r.cap = c) \/ Stale(r)
    /\ r.st = "migrating" => t \notin InCall /\ In(inbox[r.cap], t)
    /\ r.st \notin {"new", "finished"} => r.cap \in Cap
    /\ r.st \in {"running", "ccall"} => \E k \in Task : task[k].cur = t

ThreadInv == \A t \in TSO : ThreadOf(t, tso[t])
QueuesInv == \A c \in Cap : Injective(run_queue[c]) /\ Injective(inbox[c])

(* A Task and the thread it runs. *)
CurOf(k, r, s) ==
    /\ s.st = (IF r.pc = "running" THEN "running" ELSE "ccall")
    /\ s.cap = r.at
    /\ k \in InCall \/ r.cur \in InCall => k = r.cur
CurInv ==
    /\ \A k \in Task : task[k].cur # Null => CurOf(k, task[k], tso[task[k].cur])
    /\ \A k, m \in Task : task[k].cur # Null /\ task[k].cur = task[m].cur => k = m

(* An in-call and the thread bound to it. *)
BoundOf(t, r, s) ==
    /\ s.st = "new" => r.pc \in {"none", "bind"} \/ (r.pc \in Waiting /\ r.then = "bind")
    /\ s.st \in {"runnable", "blocked"} =>
         \/ r.pc \in {"sleep", "check"} /\ r.cap = s.cap
         \/ (r.pc \in Loop \/ (r.pc \in Waiting /\ r.then = "acquire")) /\ r.at = s.cap
    /\ s.st \in {"running", "ccall"} => r.cur = t
    /\ s.st = "finished" => r.pc \in {"unlock", "done"}
BoundInv == \A t \in InCall : BoundOf(t, task[t], tso[t])

(* One Task at a time stops the world. *)
SyncInv ==
    /\ \A k \in Task : Stopping(task[k]) =>
          pending_sync = IF task[k].sync = "other" THEN "other" ELSE "gc"
    /\ \A k, m \in Task : Stopping(task[k]) /\ Stopping(task[m]) => k = m

FinalOf(k, r) ==
    LET final == k \in Exiter \/ r.sync = "final" IN
    /\ final /\ r.pc # "none" => sched_state # "running"
    /\ final /\ r.pc = "releaseAll" => sched_state = "shutting"
    /\ final /\ Yielding(r) /\ r.prev = "gc" => sched_state = "shutting" \/ pending_sync = "gc"
    /\ r.pc \in {"interrupted", "exitRelease", "shut", "freed", "exited"} => sched_state = "shutting"
FinalInv == \A k \in Task : FinalOf(k, task[k])

InForeign(r, c) == r.at = c /\ InC(r)

DrainOf(e, r) ==
    r.pc \in {"shut", "freed", "exited"} =>
      /\ \A c \in Cap : c < r.i =>
           /\ run_queue[c] = <<>> /\ spare_workers[c] = <<>>
           /\ scenario.wait => \A k \in Task : ~InForeign(task[k], c)
      /\ r.pc = "freed" => r.i = NCaps /\ \A k \in Task \ {e} : task[k].pc \in Gone
DrainInv == \A e \in Exiter : DrainOf(e, task[e])

TaskSide == TasksInv /\ OwnInv /\ QueueInv /\ SyncInv /\ FinalInv /\ DrainInv
ThreadSide == ThreadInv /\ QueuesInv /\ CurInv /\ BoundInv
IInv == TypeOK /\ TaskSide /\ ThreadSide

-----------------------------------------------------------------------------
(* What a step leaves alone *)

LEMMA ConstantFacts ==
    /\ Null \notin Task /\ Null \notin TSO /\ Null \notin Cap
    /\ "start" \notin Task /\ "start" # Null
    /\ InCall \subseteq TSO /\ InCall \subseteq Task /\ Worker \subseteq Task
    /\ Syncer \subseteq Task /\ Exiter \subseteq Task
    /\ \A w \in Worker : w \notin InCall /\ w \notin Syncer /\ w \notin Exiter /\ w # Null
    /\ \A t \in InCall : t \notin Syncer /\ t \notin Exiter /\ t # Null
    /\ \A t \in Syncer : t \notin Exiter
    /\ \A t \in TSO : t \notin InCall => t \notin Task
    /\ NCaps \in Nat /\ NCaps > 0
    /\ Cap = 0..NCaps - 1 /\ \A c \in Cap : c \in Nat /\ c < NCaps
BY DisjointAssumption, NCapsAssumption DEF Task, TSO, Cap

(* The Task m, with record s before and r after a step of others: it may   *)
(* be woken up, and if it sleeps for its bound thread, moved with it.      *)
Like(m, r, s) ==
    /\ r.pc = s.pc /\ r.at = s.at /\ r.on = s.on /\ r.then = s.then /\ r.i = s.i
    /\ r.held = s.held /\ r.cur = s.cur /\ r.sync = s.sync /\ r.prev = s.prev
    /\ r.old = s.old
    /\ s.wakeup => r.wakeup
    /\ r.cap = s.cap \/ (m \in InCall /\ s.pc \in {"sleep", "check"} /\ r.cap \in Cap)

(* A step of k, which may start the worker w on the Capability c. *)
TaskStep(k, w, c) ==
    /\ task' \in [Task -> TaskRec]
    /\ running_task' \in [Cap -> Task \cup {Null}]
    /\ w \in Worker \cup {Null}
    /\ \A m \in Task : m # k /\ m # w => Like(m, task'[m], task[m])
    /\ w # Null => /\ w # k /\ task[w].pc = "none" /\ task'[w] = newTask("schedule", c)
                   /\ running_task'[c] = w
    /\ \A d \in Cap : \/ running_task'[d] = running_task[d]
                      \/ running_task[d] \in {k, Null} /\ running_task'[d] \in {k, Null}
                      \/ d = c /\ running_task[d] \in {k, Null} /\ running_task'[d] = w

LEMMA NewTaskFacts ==
    ASSUME NEW c \in Cap, NEW w \in Worker
    PROVE  /\ newTask("schedule", c) \in TaskRec /\ TaskInv(w, newTask("schedule", c))
           /\ OwnedOf(newTask("schedule", c)) = {c}
           /\ ~Stopping(newTask("schedule", c)) /\ ~InC(newTask("schedule", c))
           /\ ~Yielding(newTask("schedule", c))
<1> DEFINE r == newTask("schedule", c)
<1>1. /\ r.pc = "schedule" /\ r.cap = c /\ r.wakeup = FALSE /\ r.at = c /\ r.on = Null
      /\ r.then = "none" /\ r.i = 0 /\ r.held = <<>> /\ r.cur = Null /\ r.sync = "none"
      /\ r.prev = "none" /\ r.old = Null
  BY DEF newTask
<1>2. r \in TaskRec
  BY ConstantFacts DEF newTask, TaskRec, Place
<1> HIDE DEF r
<1>3. ~Stopping(r) /\ ~InC(r) /\ ~Yielding(r)
  BY <1>1 DEF Stopping, InC, Yielding, Waiting
<1>4. TaskInv(w, r)
  BY <1>1, <1>3, ConstantFacts DEF TaskInv, KeepsCap, Gone, Waiting, Inside, Loop, AtHome, Pushing, Exiting, Calling
<1>5. OwnedOf(r) = {c}
  BY <1>1 DEF OwnedOf
<1> QED
  BY <1>2, <1>3, <1>4, <1>5 DEF r

LEMMA LikeTask ==
    ASSUME NEW m \in Task, NEW r \in TaskRec, NEW s \in TaskRec, Like(m, r, s)
    PROVE  /\ TaskInv(m, s) => TaskInv(m, r)
           /\ OwnedOf(r) = OwnedOf(s)
           /\ Stopping(r) <=> Stopping(s)
           /\ InC(r) <=> InC(s)
           /\ Yielding(r) <=> Yielding(s)
           /\ \A c \in Cap : /\ AtReturn(r, c) <=> AtReturn(s, c)
                             /\ AtYield(m, r, c) <=> AtYield(m, s, c)
<1>1. (Stopping(r) <=> Stopping(s)) /\ (InC(r) <=> InC(s)) /\ (Yielding(r) <=> Yielding(s))
  BY DEF Like, Stopping, InC, Yielding
<1>2. OwnedOf(r) = OwnedOf(s)
  BY DEF Like, OwnedOf
<1>3. TaskInv(m, s) => TaskInv(m, r)
  BY <1>1, ConstantFacts DEF TaskInv, KeepsCap, Gone, Like, Waiting, Inside, Loop, AtHome, Pushing, Exiting, Calling
<1>4. \A c \in Cap : /\ AtReturn(r, c) <=> AtReturn(s, c)
                     /\ AtYield(m, r, c) <=> AtYield(m, s, c)
  BY DEF Like, AtReturn, AtYield
<1> QED
  BY <1>1, <1>2, <1>3, <1>4

LEMMA Types ==
    ASSUME TypeOK
    PROVE  /\ running_task \in [Cap -> Task \cup {Null}]
           /\ returning_tasks \in [Cap -> Seq(Task)] /\ spare_workers \in [Cap -> Seq(Task)]
           /\ run_queue \in [Cap -> Seq(TSO)] /\ inbox \in [Cap -> Seq(TSO)]
           /\ last_free_capability \in Cap
           /\ pending_sync \in {"none", "gc", "other"}
           /\ sched_state \in {"running", "interrupting", "shutting"}
           /\ task \in [Task -> TaskRec]
           /\ tso \in [TSO -> TSORec]
           /\ scenario \in Scenarios
BY DEF TypeOK, TaskRec, TSORec

LEMMA TasksKept ==
    ASSUME TypeOK, TasksInv, NEW k \in Task, NEW w, NEW c \in Cap, TaskStep(k, w, c),
           TaskInv(k, task'[k])
    PROVE  TasksInv'
<1> SUFFICES ASSUME NEW m \in Task PROVE TaskInv(m, task'[m])
  BY DEF TasksInv
<1>1. CASE m = k
  BY <1>1
<1>2. CASE m = w /\ m # k
  BY <1>2, NewTaskFacts, ConstantFacts DEF TaskStep
<1>3. CASE m # k /\ m # w
  <2>1. task[m] \in TaskRec /\ task'[m] \in TaskRec /\ Like(m, task'[m], task[m])
    BY <1>3, Types DEF TaskStep
  <2> QED
    BY <2>1, LikeTask DEF TasksInv
<1> QED
  BY <1>1, <1>2, <1>3

LEMMA OwnKept ==
    ASSUME TypeOK, OwnInv, NEW k \in Task, NEW w, NEW c \in Cap, TaskStep(k, w, c),
           \A d \in Cap : running_task'[d] = k <=> d \in OwnedOf(task'[k])
    PROVE  OwnInv'
<1> SUFFICES ASSUME NEW m \in Task, NEW d \in Cap
             PROVE  running_task'[d] = m <=> d \in OwnedOf(task'[m])
  BY DEF OwnInv
<1>0. m # Null /\ k # Null
  BY ConstantFacts
<1>1. CASE m = k
  BY <1>1
<1>2. CASE m = w /\ m # k
  <2>1. OwnedOf(task'[m]) = {c} /\ OwnedOf(task[m]) = {}
    BY <1>0, <1>2, NewTaskFacts DEF TaskStep, OwnedOf
  <2>2. running_task[d] # m
    BY <2>1 DEF OwnInv
  <2> QED
    BY <1>0, <1>2, <2>1, <2>2 DEF TaskStep
<1>3. CASE m # k /\ m # w
  <2>1. OwnedOf(task'[m]) = OwnedOf(task[m])
    BY <1>3, Types, LikeTask DEF TaskStep
  <2>2. running_task'[d] = m <=> running_task[d] = m
    BY <1>0, <1>3 DEF TaskStep
  <2> QED
    BY <2>1, <2>2 DEF OwnInv
<1> QED
  BY <1>1, <1>2, <1>3

(* The queues of Tasks change for k only. *)
QueueStep(k) ==
    /\ returning_tasks' \in [Cap -> Seq(Task)] /\ spare_workers' \in [Cap -> Seq(Task)]
    /\ \A d \in Cap :
         /\ Injective(returning_tasks'[d]) /\ Injective(spare_workers'[d])
         /\ \A m \in Task : m # k => /\ In(returning_tasks'[d], m) <=> In(returning_tasks[d], m)
                                     /\ In(spare_workers'[d], m) <=> In(spare_workers[d], m)
         /\ In(returning_tasks'[d], k) <=> AtReturn(task'[k], d)
         /\ In(spare_workers'[d], k) <=> AtYield(k, task'[k], d)

LEMMA QueueKept ==
    ASSUME TypeOK, QueueInv, NEW k \in Task, NEW w, NEW c \in Cap, TaskStep(k, w, c), QueueStep(k)
    PROVE  QueueInv'
<1> SUFFICES ASSUME NEW m \in Task, NEW d \in Cap
             PROVE  /\ In(returning_tasks'[d], m) <=> AtReturn(task'[m], d)
                    /\ In(spare_workers'[d], m) <=> AtYield(m, task'[m], d)
  BY DEF QueueInv, QueueStep
<1>1. CASE m = k
  BY <1>1 DEF QueueStep
<1>2. CASE m = w /\ m # k
  <2>1. task'[m].pc = "schedule" /\ task[m].pc = "none"
    BY <1>2, ConstantFacts DEF TaskStep, newTask
  <2> QED
    BY <1>2, <2>1 DEF QueueStep, QueueInv, AtReturn, AtYield
<1>3. CASE m # k /\ m # w
  <2>1. /\ AtReturn(task'[m], d) <=> AtReturn(task[m], d)
        /\ AtYield(m, task'[m], d) <=> AtYield(m, task[m], d)
    BY <1>3, Types, LikeTask DEF TaskStep
  <2> QED
    BY <1>3, <2>1 DEF QueueStep, QueueInv
<1> QED
  BY <1>1, <1>2, <1>3

(* A step that leaves the queues of Tasks alone. *)
LEMMA QueuesSame ==
    ASSUME TypeOK, QueueInv, NEW k \in Task, UNCHANGED <<returning_tasks, spare_workers>>,
           \A d \in Cap : /\ AtReturn(task'[k], d) <=> AtReturn(task[k], d)
                          /\ AtYield(k, task'[k], d) <=> AtYield(k, task[k], d)
    PROVE  QueueStep(k)
BY Types DEF QueueStep, QueueInv

LEMMA SyncKept ==
    ASSUME TypeOK, SyncInv, NEW k \in Task, NEW w, NEW c \in Cap, TaskStep(k, w, c),
           UNCHANGED pending_sync,
           Stopping(task'[k]) => Stopping(task[k]) /\ task'[k].sync = task[k].sync
    PROVE  SyncInv'
<1>1. ASSUME NEW m \in Task
      PROVE  Stopping(task'[m]) => Stopping(task[m]) /\ task'[m].sync = task[m].sync
  <2>1. CASE m = k
    BY <2>1
  <2>2. CASE m = w /\ m # k
    BY <2>2, NewTaskFacts, ConstantFacts DEF TaskStep
  <2>3. CASE m # k /\ m # w
    BY <2>3, Types, LikeTask DEF TaskStep, Like
  <2> QED
    BY <2>1, <2>2, <2>3
<1> QED
  BY <1>1 DEF SyncInv

(* sched_state only goes on. *)
Onward == sched_state' = sched_state \/ sched_state = "running" \/ sched_state' = "shutting"

LEMMA FinalKept ==
    ASSUME TypeOK, FinalInv, NEW k \in Task, NEW w, NEW c \in Cap, TaskStep(k, w, c),
           pending_sync = "gc" => pending_sync' = "gc" \/ sched_state' # "interrupting",
           UNCHANGED sched_state \/ sched_state' # "running", Onward, sched_state' \in {"running", "interrupting", "shutting"},
           FinalOf(k, task[k])'
    PROVE  FinalInv'
<1> SUFFICES ASSUME NEW m \in Task PROVE FinalOf(m, task[m])'
  BY DEF FinalInv
<1>1. CASE m = k
  BY <1>1
<1>2. CASE m = w /\ m # k
  <2>1. task'[m].pc = "schedule" /\ task'[m].sync = "none" /\ m \notin Exiter
    BY <1>2, ConstantFacts DEF TaskStep, newTask
  <2> QED
    BY <2>1 DEF FinalOf
<1>3. CASE m # k /\ m # w
  <2>1. Like(m, task'[m], task[m]) /\ FinalOf(m, task[m]) /\ (Yielding(task'[m]) <=> Yielding(task[m]))
    BY <1>3, Types, LikeTask DEF TaskStep, FinalInv
  <2> DEFINE r == task[m]
             u == task'[m]
  <2>2. /\ u.pc = r.pc /\ u.sync = r.sync /\ u.prev = r.prev /\ FinalOf(m, r)
        /\ Yielding(u) <=> Yielding(r)
    BY <2>1 DEF Like
  <2>3. sched_state # "running" => sched_state' # "running"
    BY DEF Onward
  <2>4. sched_state = "shutting" => sched_state' = "shutting"
    BY DEF Onward
  <2>5. Yielding(r) => r.pc # "none"
    BY DEF Yielding
  <2> HIDE DEF r
  <2>6. /\ (m \in Exiter \/ u.sync = "final") /\ u.pc # "none" => sched_state' # "running"
        /\ (m \in Exiter \/ u.sync = "final") /\ u.pc = "releaseAll" => sched_state' = "shutting"
        /\ u.pc \in {"interrupted", "exitRelease", "shut", "freed", "exited"} => sched_state' = "shutting"
    BY <2>2, <2>3, <2>4 DEF FinalOf
  <2>7. ASSUME m \in Exiter \/ u.sync = "final", Yielding(u), u.prev = "gc"
        PROVE  sched_state' = "shutting" \/ pending_sync' = "gc"
    <3>1. sched_state' # "running"
      BY <2>2, <2>5, <2>6, <2>7
    <3>2. sched_state = "shutting" \/ pending_sync = "gc"
      BY <2>2, <2>7 DEF FinalOf
    <3> QED
      BY <2>4, <3>1, <3>2
  <2> QED
    BY <2>6, <2>7 DEF FinalOf
<1> QED
  BY <1>1, <1>2, <1>3

LEMMA DrainKept ==
    ASSUME TypeOK, OwnInv, FinalInv, DrainInv, NEW k \in Task, NEW w, NEW c \in Cap,
           TaskStep(k, w, c), UNCHANGED scenario,
           \A d \in Cap : \/ running_task[d] = k
                          \/ /\ run_queue[d] = <<>> => run_queue'[d] = <<>>
                             /\ spare_workers[d] = <<>> => spare_workers'[d] = <<>>
                             /\ InForeign(task'[k], d) => InForeign(task[k], d),
           task[k].pc \in Gone /\ ~NoExit => w = Null /\ task'[k].pc \in Gone,
           k \in Exiter => DrainOf(k, task[k])'
    PROVE  DrainInv'
<1> SUFFICES ASSUME NEW e \in Exiter, e # k PROVE DrainOf(e, task[e])'
  BY DEF DrainInv
<1>0. e \in Task /\ e # w /\ e # Null
  BY ConstantFacts DEF TaskStep
<1>1. Like(e, task'[e], task[e]) /\ DrainOf(e, task[e]) /\ task[e] \in TaskRec
  BY <1>0, Types DEF TaskStep, DrainInv
<1> SUFFICES ASSUME task[e].pc \in {"shut", "freed", "exited"}
             PROVE  DrainOf(e, task[e])'
  BY <1>1 DEF DrainOf, Like
<1>2. \A d \in Cap : d < task[e].i => running_task[d] = e
  BY <1>0, <1>1, ConstantFacts DEF OwnInv, OwnedOf, TaskRec
<1>3. ASSUME NEW d \in Cap, d < task[e].i
      PROVE  /\ run_queue'[d] = <<>> /\ spare_workers'[d] = <<>>
             /\ scenario.wait => \A m \in Task : ~InForeign(task'[m], d)
  <2>1. running_task[d] # k
    BY <1>2, <1>3
  <2>2. run_queue'[d] = <<>> /\ spare_workers'[d] = <<>>
    BY <1>1, <1>3, <2>1 DEF DrainOf
  <2>3. ASSUME scenario.wait, NEW m \in Task PROVE ~InForeign(task'[m], d)
    <3>1. ~InForeign(task[m], d)
      BY <1>1, <1>3, <2>3 DEF DrainOf
    <3>2. CASE m = k
      BY <2>1, <3>1, <3>2
    <3>3. CASE m = w /\ m # k
      BY <3>3, NewTaskFacts, ConstantFacts DEF TaskStep, InForeign
    <3>4. CASE m # k /\ m # w
      <4>1. task'[m].at = task[m].at /\ (InC(task'[m]) <=> InC(task[m]))
        BY <3>4, Types, LikeTask DEF TaskStep, Like
      <4> QED
        BY <3>1, <4>1 DEF InForeign
    <3> QED
      BY <3>2, <3>3, <3>4
  <2> QED
    BY <2>2, <2>3
<1>4. ASSUME task[e].pc = "freed"
      PROVE  task[e].i = NCaps /\ \A m \in Task \ {e} : task'[m].pc \in Gone
  <2>1. ~NoExit
    BY <1>4 DEF NoExit, pc
  <2>2. task[e].i = NCaps /\ \A m \in Task \ {e} : task[m].pc \in Gone
    BY <1>1, <1>4 DEF DrainOf
  <2>3. w = Null /\ task'[k].pc \in Gone
    BY <2>1, <2>2
  <2>4. ASSUME NEW m \in Task \ {e} PROVE task'[m].pc \in Gone
    BY <2>2, <2>3, ConstantFacts DEF TaskStep, Like
  <2> QED
    BY <2>2, <2>4
<1> QED
  BY <1>1, <1>3, <1>4 DEF DrainOf, Like

(* Tasks other than k keep task->cap, too. *)
CapsKept(k, w) == \A m \in Task : m # k /\ m # w => task'[m].cap = task[m].cap

(* A step that leaves the threads alone. *)
LEMMA ThreadsKept ==
    ASSUME TypeOK, ThreadSide, TasksInv, NEW k \in Task, NEW w, NEW c \in Cap, TaskStep(k, w, c),
           CapsKept(k, w), UNCHANGED <<run_queue, inbox, tso>>, Onward,
           sched_state = "running" \/ UNCHANGED sched_state \/ sched_state' = "shutting",
           task'[k].cur = task[k].cur,
           task[k].cur # Null => /\ task'[k].pc = "running" <=> task[k].pc = "running"
                                 /\ task'[k].at = task[k].at,
           k \in InCall => BoundOf(k, task'[k], tso[k])
    PROVE  ThreadSide'
<1>0. \A m \in Task : w = m /\ m # k => task[m].cur = Null /\ task'[m].cur = Null
  <2> SUFFICES ASSUME w \in Task, w # k PROVE task[w].cur = Null /\ task'[w].cur = Null
    OBVIOUS
  <2>1. task[w].pc = "none" /\ task'[w].cur = Null
    BY ConstantFacts DEF TaskStep, newTask
  <2>2. ~InC(task[w]) /\ TaskInv(w, task[w])
    BY <2>1 DEF TasksInv, InC, Waiting
  <2> QED
    BY <2>1, <2>2 DEF TaskInv, KeepsCap
<1>1. \A m \in Task : task'[m].cur = task[m].cur
  BY <1>0 DEF TaskStep, Like
<1>2. \A t \in TSO : Stale(tso[t]) => Stale(tso[t])'
  BY DEF Stale, Onward
<1>3. ThreadInv'
  BY <1>1, <1>2 DEF ThreadInv, ThreadOf, ThreadSide
<1>4. QueuesInv'
  BY DEF QueuesInv, ThreadSide
<1>5. CurInv'
  <2>1. ASSUME NEW m \in Task, task'[m].cur # Null
        PROVE  CurOf(m, task'[m], tso[task'[m].cur])
    <3>1. CurOf(m, task[m], tso[task[m].cur]) /\ task[m].cur # Null
      BY <1>1, <2>1 DEF CurInv, ThreadSide
    <3>2. m = w => m = k
      BY <1>0, <2>1
    <3>3. /\ task'[m].pc = "running" <=> task[m].pc = "running"
          /\ task'[m].at = task[m].at
      BY <3>1, <3>2 DEF TaskStep, Like
    <3> QED
      BY <1>1, <3>1, <3>3 DEF CurOf
  <2> QED
    BY <1>1, <2>1 DEF CurInv, ThreadSide
<1>6. BoundInv'
  <2> SUFFICES ASSUME NEW t \in InCall PROVE BoundOf(t, task'[t], tso[t])
    BY DEF BoundInv
  <2>1. CASE t = k
    BY <2>1
  <2>2. CASE t # k
    <3>1. t \in Task /\ t # w
      BY ConstantFacts DEF TaskStep
    <3>2. BoundOf(t, task[t], tso[t]) /\ Like(t, task'[t], task[t]) /\ task'[t].cap = task[t].cap
      BY <2>2, <3>1 DEF ThreadSide, BoundInv, TaskStep, CapsKept
    <3> QED
      BY <3>2 DEF BoundOf, Like
  <2> QED
    BY <2>1, <2>2
<1> QED
  BY <1>3, <1>4, <1>5, <1>6 DEF ThreadSide

-----------------------------------------------------------------------------
(* releaseCapability_ *)

(* What the release of c says of the Task it wakes. *)
Handing(c, aw, q, ib, sp) ==
    LET n == NextOwner(c, aw, q, ib, sp) IN n = Null \/ (n \in Task /\ task'[n].wakeup)

LEMMA ReleaseEffect ==
    ASSUME TypeOK, NEW c \in Cap, NEW aw \in BOOLEAN, NEW q \in Seq(TSO), NEW ib \in Seq(TSO),
           NEW sp \in Seq(Task), NEW tk \in [Task -> TaskRec], NEW k \in Task,
           \A m \in Task : m # k => tk[m] = task[m], tk[k].pc # "none",
           running_task[c] \in {k, Null}, releaseCapability_(c, aw, q, ib, sp, tk)
    PROVE  \E w \in Worker \cup {Null} :
             /\ TaskStep(k, w, c) /\ CapsKept(k, w)
             /\ Like(k, task'[k], tk[k]) /\ task'[k].cap = tk[k].cap
             /\ running_task' = [running_task EXCEPT ![c] = w]
             /\ w = Null => Handing(c, aw, q, ib, sp)
             /\ last_free_capability' \in Cap
<1> DEFINE next == NextOwner(c, aw, q, ib, sp)
<1>0. /\ running_task \in [Cap -> Task \cup {Null}] /\ last_free_capability \in Cap
      /\ task \in [Task -> TaskRec]
  BY Types
<1>1. CASE next = "start" /\ startWorkerTask(c, tk) /\ UNCHANGED last_free_capability
  <2>1. PICK w : /\ w = (CHOOSE w1 \in Worker : tk[w1].pc = "none")
                 /\ \E v \in Worker : tk[v].pc = "none"
                 /\ running_task' = [running_task EXCEPT ![c] = w]
                 /\ task' = [tk EXCEPT ![w] = newTask("schedule", c)]
    BY <1>1 DEF startWorkerTask
  <2>2. w \in Worker /\ tk[w].pc = "none"
    BY <2>1
  <2>3. w \in Task /\ w # k /\ w # Null /\ task[w].pc = "none" /\ newTask("schedule", c) \in TaskRec
    BY <2>2, ConstantFacts, NewTaskFacts
  <2>4. /\ task' \in [Task -> TaskRec] /\ running_task' \in [Cap -> Task \cup {Null}]
        /\ \A m \in Task : m # k /\ m # w => task'[m] = task[m]
        /\ task'[w] = newTask("schedule", c) /\ task'[k] = tk[k]
        /\ running_task'[c] = w /\ \A d \in Cap : d # c => running_task'[d] = running_task[d]
    BY <1>0, <2>1, <2>3
  <2>5. TaskStep(k, w, c) /\ CapsKept(k, w)
    BY <2>2, <2>3, <2>4 DEF TaskStep, Like, CapsKept
  <2>6. Like(k, task'[k], tk[k]) /\ task'[k].cap = tk[k].cap
    BY <2>4 DEF Like
  <2> QED
    BY <1>0, <1>1, <2>1, <2>2, <2>3, <2>5, <2>6
<1>2. CASE next = Null /\ running_task' = [running_task EXCEPT ![c] = Null] /\ task' = tk
           /\ last_free_capability' = c
  <2>1. TaskStep(k, Null, c) /\ CapsKept(k, Null)
    BY <1>0, <1>2 DEF TaskStep, Like, CapsKept
  <2>2. Like(k, task'[k], tk[k]) /\ task'[k].cap = tk[k].cap
    BY <1>2 DEF Like
  <2> QED
    BY <1>0, <1>2, <2>1, <2>2 DEF Handing
<1>3. CASE /\ next \in Task /\ running_task' = [running_task EXCEPT ![c] = Null]
           /\ task' = giveCapabilityToTask(tk, next) /\ UNCHANGED last_free_capability
  <2> DEFINE nx == next
  <2> HIDE DEF nx
  <2>0. nx \in Task /\ task' = [tk EXCEPT ![nx].wakeup = TRUE]
    BY <1>3 DEF giveCapabilityToTask, nx
  <2>1. task' \in [Task -> TaskRec] /\ task'[nx].wakeup
    <3>1. tk[nx] \in TaskRec
      BY <2>0
    <3>2. [tk[nx] EXCEPT !.wakeup = TRUE] \in TaskRec /\ [tk[nx] EXCEPT !.wakeup = TRUE].wakeup
      BY <3>1 DEF TaskRec
    <3> QED
      BY <2>0, <3>2
  <2>2. \A m \in Task : Like(m, task'[m], tk[m]) /\ task'[m].cap = tk[m].cap
    <3> TAKE m \in Task
    <3>1. tk[m] \in TaskRec
      OBVIOUS
    <3> QED
      BY <2>0, <3>1 DEF Like, TaskRec
  <2>3. TaskStep(k, Null, c) /\ CapsKept(k, Null)
    BY <1>0, <1>3, <2>1, <2>2 DEF TaskStep, CapsKept
  <2>4. Handing(c, aw, q, ib, sp)
    BY <2>0, <2>1 DEF Handing, nx
  <2> QED
    BY <1>0, <1>3, <2>2, <2>3, <2>4
<1> QED
  BY <1>1, <1>2, <1>3 DEF releaseCapability_

-----------------------------------------------------------------------------
(* No lost wake-up *)

(* The Task that the free Capability c waits for. *)
ComingOf(r, c) ==
    /\ r.cap = c
    /\ \/ r.pc \in {"sleep", "returnSleep"} /\ r.wakeup
       \/ r.pc \in {"check", "returnCheck"} /\ (r.on = c \/ r.wakeup)
IsNext(m, c) ==
    \/ returning_tasks[c] # <<>> /\ m = Head(returning_tasks[c])
    \/ returning_tasks[c] = <<>> /\ run_queue[c] # <<>> /\ m = bound(Head(run_queue[c]))
    \/ returning_tasks[c] = <<>> /\ spare_workers[c] # <<>> /\ m = Head(spare_workers[c])

(* c has been free before, and stays so with k on the way as before. *)
StaysFree(k, c) ==
    /\ running_task[c] = Null
    /\ returning_tasks'[c] = returning_tasks[c] /\ spare_workers'[c] = spare_workers[c]
    /\ run_queue'[c] = run_queue[c] /\ inbox'[c] = inbox[c]
    /\ pending_sync' = pending_sync \/ pending_sync' # "none"
    /\ IsNext(k, c) /\ ComingOf(task[k], c) => ComingOf(task'[k], c)

ReleasedNow(c) ==
    /\ UNCHANGED <<returning_tasks, pending_sync, sched_state>>
    /\ \E aw \in BOOLEAN : Handing(c, aw, run_queue'[c], inbox'[c], spare_workers'[c])

LEMMA HandedKept ==
    ASSUME TypeOK, TypeOK', HandedOver, OwnInv', QueueInv', ThreadInv', BoundInv', TasksInv',
           NEW k \in Task, NEW w, NEW c0 \in Cap, TaskStep(k, w, c0), CapsKept(k, w), Onward,
           \A c \in Cap : running_task'[c] = Null => StaysFree(k, c) \/ ReleasedNow(c)
    PROVE  HandedOver'
<1> SUFFICES ASSUME NEW c \in Cap, running_task'[c] = Null
             PROVE  /\ returning_tasks'[c] # <<>> => ComingOf(task'[Head(returning_tasks'[c])], c)
                    /\ returning_tasks'[c] = <<>> /\ pending_sync' = "none"
                          /\ (run_queue'[c] # <<>> \/ (inbox'[c] # <<>> /\ sched_state' # "shutting"))
                       => IF run_queue'[c] # <<>> /\ bound(Head(run_queue'[c])) # Null
                            THEN ComingOf(task'[bound(Head(run_queue'[c]))], c)
                            ELSE spare_workers'[c] # <<>> /\ ComingOf(task'[Head(spare_workers'[c])], c)
  BY DEF HandedOver, bound, Coming, ComingOf, pc
<1>0. /\ returning_tasks'[c] \in Seq(Task) /\ spare_workers'[c] \in Seq(Task)
      /\ run_queue'[c] \in Seq(TSO) /\ inbox'[c] \in Seq(TSO)
  BY DEF TypeOK
<1>1. CASE StaysFree(k, c)
  <2>1. ASSUME NEW m \in Task, IsNext(m, c), ComingOf(task[m], c) PROVE ComingOf(task'[m], c)
    <3>1. CASE m = k
      BY <1>1, <2>1, <3>1 DEF StaysFree
    <3>2. CASE m = w /\ m # k
      <4>1. task[m].pc = "none"
        BY <3>2, ConstantFacts DEF TaskStep
      <4> QED
        BY <2>1, <4>1 DEF ComingOf
    <3>3. CASE m # k /\ m # w
      <4>1. Like(m, task'[m], task[m]) /\ task'[m].cap = task[m].cap
        BY <3>3 DEF TaskStep, CapsKept
      <4> QED
        BY <2>1, <4>1 DEF ComingOf, Like
    <3> QED
      BY <3>1, <3>2, <3>3
  <2>2. returning_tasks[c] # <<>> => Head(returning_tasks[c]) \in Task
    BY <1>0, <1>1, TailFacts DEF StaysFree
  <2>3. spare_workers[c] # <<>> => Head(spare_workers[c]) \in Task
    BY <1>0, <1>1, TailFacts DEF StaysFree
  <2>4. bound(Head(run_queue[c])) # Null => bound(Head(run_queue[c])) \in Task
    BY ConstantFacts DEF bound
  <2>5. returning_tasks'[c] # <<>> => ComingOf(task'[Head(returning_tasks'[c])], c)
    BY <1>1, <2>1, <2>2 DEF StaysFree, HandedOver, IsNext, Coming, ComingOf, pc
  <2>6. ASSUME returning_tasks'[c] = <<>>, pending_sync' = "none",
               run_queue'[c] # <<>> \/ (inbox'[c] # <<>> /\ sched_state' # "shutting")
        PROVE  IF run_queue'[c] # <<>> /\ bound(Head(run_queue'[c])) # Null
                            THEN ComingOf(task'[bound(Head(run_queue'[c]))], c)
                            ELSE spare_workers'[c] # <<>> /\ ComingOf(task'[Head(spare_workers'[c])], c)
    <3>1. returning_tasks[c] = <<>> /\ pending_sync = "none"
      BY <1>1, <2>6 DEF StaysFree
    <3>2. run_queue[c] # <<>> \/ (inbox[c] # <<>> /\ sched_state # "shutting")
      BY <1>1, <2>6, Types DEF StaysFree, Onward
    <3>3. IF run_queue[c] # <<>> /\ bound(Head(run_queue[c])) # Null
                THEN ComingOf(task[bound(Head(run_queue[c]))], c)
                ELSE spare_workers[c] # <<>> /\ ComingOf(task[Head(spare_workers[c])], c)
      BY <1>1, <3>1, <3>2 DEF StaysFree, HandedOver, Coming, ComingOf, pc
    <3>4. run_queue'[c] = run_queue[c] /\ spare_workers'[c] = spare_workers[c]
      BY <1>1 DEF StaysFree
    <3> QED
      BY <2>1, <2>3, <2>4, <3>1, <3>3, <3>4 DEF IsNext
  <2> QED
    BY <2>5, <2>6
<1>2. CASE ReleasedNow(c)
  <2>1. PICK aw \in BOOLEAN : Handing(c, aw, run_queue'[c], inbox'[c], spare_workers'[c])
    BY <1>2 DEF ReleasedNow
  <2> DEFINE n == NextOwner(c, aw, run_queue'[c], inbox'[c], spare_workers'[c])
             q == run_queue'[c]
             sp == spare_workers'[c]
  <2>2. n # Null => n \in Task /\ task'[n].wakeup
    BY <2>1 DEF Handing
  <2>3. /\ returning_tasks[c] = returning_tasks'[c] /\ pending_sync = pending_sync'
        /\ sched_state = sched_state'
    BY <1>2 DEF ReleasedNow
  <2>4. n = IF returning_tasks'[c] # <<>> THEN Head(returning_tasks'[c])
            ELSE IF pending_sync' # "none" THEN Null
            ELSE IF q # <<>> /\ bound(Head(q)) # Null THEN bound(Head(q))
            ELSE IF sp = <<>> THEN IF sched_state' # "shutting" \/ q # <<>> THEN "start" ELSE Null
            ELSE IF aw \/ q # <<>> \/ inbox'[c] # <<>> \/ sched_state' # "running" THEN Head(sp)
            ELSE Null
    BY <2>3 DEF NextOwner, startsWorker, globalWorkToDo
  <2> HIDE DEF n, q, sp
  <2>5. ASSUME returning_tasks'[c] # <<>> PROVE ComingOf(task'[Head(returning_tasks'[c])], c)
    <3>1. n = Head(returning_tasks'[c]) /\ n \in Task /\ In(returning_tasks'[c], n)
      BY <1>0, <2>4, <2>5, TailFacts
    <3>2. task'[n].wakeup /\ AtReturn(task'[n], c)
      BY <2>2, <3>1, ConstantFacts DEF QueueInv
    <3> QED
      BY <3>1, <3>2 DEF ComingOf, AtReturn
  <2>6. ASSUME returning_tasks'[c] = <<>>, pending_sync' = "none", q # <<>>, bound(Head(q)) # Null
        PROVE  ComingOf(task'[bound(Head(q))], c)
    <3> DEFINE t == Head(q)
    <3>1. n = t /\ t \in InCall /\ t \in TSO /\ t \in Task /\ In(q, t)
      BY <1>0, <2>4, <2>6, TailFacts, ConstantFacts DEF bound, q
    <3> HIDE DEF t
    <3>2. task'[t].wakeup
      BY <2>2, <3>1, ConstantFacts
    <3>3. tso'[t].st = "runnable" /\ tso'[t].cap = c
      BY <3>1 DEF ThreadInv, ThreadOf, q
    <3>4. BoundOf(t, task'[t], tso'[t]) /\ TaskInv(t, task'[t]) /\ t \notin Syncer
      BY <3>1, ConstantFacts DEF BoundInv, TasksInv
    <3>5. c \notin OwnedOf(task'[t])
      BY <3>1, ConstantFacts DEF OwnInv
    <3>6. task'[t].pc \in {"sleep", "check"} /\ task'[t].cap = c
      <4> DEFINE r == task'[t]
      <4> HIDE DEF r
      <4> SUFFICES ASSUME r.pc \in Loop \/ (r.pc \in Waiting /\ r.then = "acquire"), r.at = c
                   PROVE  c \in OwnedOf(r)
        BY <3>3, <3>4, <3>5 DEF BoundOf, r
      <4>1. r.sync # "other"
        BY <3>4 DEF TaskInv, KeepsCap, Gone, r
      <4> QED
        BY <4>1 DEF OwnedOf, Loop, AtHome, Pushing, Waiting
    <3>7. bound(t) = t
      BY <3>1 DEF bound
    <3> QED
      BY <3>2, <3>6, <3>7 DEF ComingOf, t
  <2>7. ASSUME returning_tasks'[c] = <<>>, pending_sync' = "none",
               q # <<>> \/ (inbox'[c] # <<>> /\ sched_state' # "shutting"), ~(q # <<>> /\ bound(Head(q)) # Null)
        PROVE  sp # <<>> /\ ComingOf(task'[Head(sp)], c)
    <3>1. sp # <<>> 
      <4> SUFFICES ASSUME sp = <<>> PROVE FALSE
        OBVIOUS
      <4>1. n = "start"
        BY <2>4, <2>7
      <4> QED
        BY <4>1, <2>2, ConstantFacts
    <3>2. n = Head(sp) /\ n \in Task /\ In(sp, n)
      BY <1>0, <2>4, <2>7, <3>1, TailFacts DEF sp
    <3>3. task'[n].wakeup /\ AtYield(n, task'[n], c)
      BY <2>2, <3>2, ConstantFacts DEF QueueInv, sp
    <3> QED
      BY <3>1, <3>2, <3>3 DEF ComingOf, AtYield
  <2> QED
    BY <2>5, <2>6, <2>7 DEF q, sp
<1> QED
  BY <1>1, <1>2

-----------------------------------------------------------------------------
(* Steps that leave the threads, pending_sync and sched_state alone *)

Quiet(k, w, c) ==
    /\ TaskStep(k, w, c) /\ CapsKept(k, w)
    /\ last_free_capability' \in Cap
    /\ UNCHANGED <<run_queue, inbox, tso, pending_sync, sched_state, scenario>>
    /\ TaskInv(k, task'[k])
    /\ \A d \in Cap : running_task'[d] = k <=> d \in OwnedOf(task'[k])
    /\ QueueStep(k)
    /\ Stopping(task'[k]) => Stopping(task[k]) /\ task'[k].sync = task[k].sync
    /\ FinalOf(k, task'[k])
    /\ \A d \in Cap : \/ running_task[d] = k
                      \/ /\ spare_workers[d] = <<>> => spare_workers'[d] = <<>>
                         /\ InForeign(task'[k], d) => InForeign(task[k], d)
    /\ task[k].pc \in Gone /\ ~NoExit => w = Null /\ task'[k].pc \in Gone
    /\ k \in Exiter => DrainOf(k, task[k])'
    /\ task'[k].cur = task[k].cur
    /\ task[k].cur # Null => /\ task'[k].pc = "running" <=> task[k].pc = "running"
                             /\ task'[k].at = task[k].at
    /\ k \in InCall => BoundOf(k, task'[k], tso[k])
    /\ \A d \in Cap : running_task'[d] = Null => StaysFree(k, d) \/ ReleasedNow(d)

LEMMA QuietStep ==
    ASSUME IInv, HandedOver, NEW k \in Task, NEW w, NEW c \in Cap, Quiet(k, w, c)
    PROVE  IInv' /\ HandedOver'
<1>1. TypeOK /\ TasksInv /\ OwnInv /\ QueueInv /\ SyncInv /\ FinalInv /\ DrainInv /\ ThreadSide
  BY DEF IInv, TaskSide
<1>2. TypeOK'
  BY <1>1 DEF TypeOK, Quiet, TaskStep, TaskRec, QueueStep
<1>3. TasksInv'
  BY <1>1, TasksKept DEF Quiet
<1>4. OwnInv'
  BY <1>1, OwnKept DEF Quiet
<1>5. QueueInv'
  BY <1>1, QueueKept DEF Quiet
<1>6. SyncInv'
  BY <1>1, SyncKept DEF Quiet
<1>7. FinalInv'
  <2>1. FinalOf(k, task[k])'
    BY DEF Quiet, FinalOf
  <2>2. Onward /\ sched_state' \in {"running", "interrupting", "shutting"}
    BY <1>1, Types DEF Quiet, Onward
  <2> QED
    BY <1>1, <2>1, <2>2, FinalKept DEF Quiet
<1>8. DrainInv'
  BY <1>1, DrainKept DEF Quiet
<1>9. ThreadSide'
  BY <1>1, ThreadsKept DEF Quiet, Onward
<1>10. HandedOver'
  BY <1>1, <1>2, <1>3, <1>4, <1>5, <1>9, HandedKept DEF Quiet, Onward, ThreadSide
<1> QED
  BY <1>2, <1>3, <1>4, <1>5, <1>6, <1>7, <1>8, <1>9, <1>10 DEF IInv, TaskSide

(* A step of k by itself, from the record r to s, in which it may release  *)
(* the Capability c.                                                       *)
LocalOK(k, r, s, c) ==
    /\ TaskInv(k, s)
    /\ \A d \in Cap : d \in OwnedOf(s) <=> d \in OwnedOf(r) /\ d # c
    /\ \A d \in Cap : (AtReturn(s, d) <=> AtReturn(r, d)) /\ (AtYield(k, s, d) <=> AtYield(k, r, d))
    /\ Stopping(s) => Stopping(r) /\ s.sync = r.sync
    /\ FinalOf(k, s)
    /\ \A d \in Cap : InForeign(s, d) => InForeign(r, d)
    /\ r.pc \in Gone /\ ~NoExit => s.pc \in Gone
    /\ s.pc \in {"shut", "freed", "exited"} => s.pc = "shut" /\ r.pc = "shut" /\ s.i = r.i
    /\ s.cur = r.cur
    /\ r.cur # Null => (s.pc = "running" <=> r.pc = "running") /\ s.at = r.at
    /\ k \in InCall => BoundOf(k, s, tso[k])
    /\ \A d \in Cap : d # c /\ running_task[d] = Null /\ IsNext(k, d) /\ ComingOf(r, d)
                         => ComingOf(s, d)

(* Only the record of k changes, perhaps somebody is woken up, and perhaps *)
(* the worker w started on c.                                              *)
LocalStep(k, s, w, c) ==
    /\ UNCHANGED <<returning_tasks, spare_workers, run_queue, inbox, tso, pending_sync, sched_state,
                   scenario>>
    /\ last_free_capability' \in Cap
    /\ \E c0 \in Cap : TaskStep(k, w, c0) /\ (c # Null => c = c0)
    /\ CapsKept(k, w)
    /\ Like(k, task'[k], s) /\ task'[k].cap = s.cap
    /\ \/ c = Null /\ w = Null /\ UNCHANGED running_task
       \/ /\ c \in Cap /\ running_task' = [running_task EXCEPT ![c] = w]
          /\ running_task[c] \in {k, Null} /\ task[k].pc \notin Gone
          /\ w = Null => \E aw \in BOOLEAN : Handing(c, aw, run_queue[c], inbox[c], spare_workers[c])

LEMMA LocalStepOK ==
    ASSUME IInv, HandedOver, NEW k \in Task, NEW s \in TaskRec, NEW w, NEW c \in Cap \cup {Null},
           LocalStep(k, s, w, c), LocalOK(k, task[k], s, c)
    PROVE  IInv' /\ HandedOver'
<1>1. PICK c0 \in Cap : TaskStep(k, w, c0) /\ (c # Null => c = c0)
  BY DEF LocalStep
<1>2. TypeOK /\ OwnInv /\ QueueInv /\ DrainInv
  BY DEF IInv, TaskSide
<1> DEFINE r == task[k]
           u == task'[k]
<1>3. /\ u \in TaskRec /\ Like(k, u, s) /\ u.cap = s.cap /\ u.i = s.i /\ u.cur = s.cur
      /\ u.sync = s.sync /\ u.at = s.at /\ u.pc = s.pc
  BY <1>1 DEF LocalStep, TaskStep, Like
<1>4. /\ TaskInv(k, u) /\ OwnedOf(u) = OwnedOf(s) /\ (Stopping(u) <=> Stopping(s))
      /\ (InC(u) <=> InC(s)) /\ (Yielding(u) <=> Yielding(s))
      /\ \A d \in Cap : (AtReturn(u, d) <=> AtReturn(s, d)) /\ (AtYield(k, u, d) <=> AtYield(k, s, d))
  BY <1>3, LikeTask DEF LocalOK
<1> HIDE DEF u
<1>5. QueueStep(k)
  <2>1. \A d \in Cap : (AtReturn(u, d) <=> AtReturn(r, d)) /\ (AtYield(k, u, d) <=> AtYield(k, r, d))
    BY <1>4 DEF LocalOK
  <2> QED
    BY <1>2, <2>1, QueuesSame DEF LocalStep, u
<1>6. \A d \in Cap : running_task'[d] = k <=> d \in OwnedOf(u)
  <2> TAKE d \in Cap
  <2>1. d \in OwnedOf(u) <=> running_task[d] = k /\ d # c
    BY <1>2, <1>4 DEF LocalOK, OwnInv
  <2>2. w # k /\ k # Null
    BY <1>1, ConstantFacts DEF TaskStep
  <2> QED
    BY <1>2, <2>1, <2>2, Types, ConstantFacts DEF LocalStep
<1>7. \A d \in Cap : running_task'[d] = Null => StaysFree(k, d) \/ ReleasedNow(d)
  <2> SUFFICES ASSUME NEW d \in Cap, running_task'[d] = Null PROVE StaysFree(k, d) \/ ReleasedNow(d)
    OBVIOUS
  <2>1. CASE d = c
    <3>1. w = Null /\ c # Null
      BY <1>2, <2>1, ConstantFacts, Types DEF LocalStep
    <3> QED
      BY <2>1, <3>1 DEF LocalStep, ReleasedNow
  <2>2. CASE d # c
    <3>1. running_task[d] = Null
      BY <1>2, <2>2, ConstantFacts, Types DEF LocalStep
    <3>2. IsNext(k, d) /\ ComingOf(r, d) => ComingOf(u, d)
      BY <1>3, <2>2, <3>1 DEF LocalOK, ComingOf, Like
    <3> QED
      BY <3>1, <3>2 DEF LocalStep, StaysFree, u
  <2> QED
    BY <2>1, <2>2
<1>8. ASSUME k \in Exiter PROVE DrainOf(k, task[k])'
  <2> SUFFICES ASSUME u.pc \in {"shut", "freed", "exited"} PROVE DrainOf(k, task[k])'
    BY DEF DrainOf, u
  <2>1. u.pc = "shut" /\ r.pc = "shut" /\ u.i = r.i
    BY <1>3 DEF LocalOK
  <2>2. \A m \in Task, d \in Cap : ~InForeign(task[m], d) => ~InForeign(task'[m], d)
    <3> SUFFICES ASSUME NEW m \in Task, NEW d \in Cap, InForeign(task'[m], d)
                 PROVE InForeign(task[m], d)
      OBVIOUS
    <3>1. CASE m = k
      BY <2>1, <3>1 DEF InForeign, InC, Waiting, u
    <3>2. CASE m = w /\ m # k
      BY <1>1, <3>2, NewTaskFacts, ConstantFacts DEF TaskStep, InForeign
    <3>3. CASE m # k /\ m # w
      BY <1>1, <1>2, <3>3, LikeTask, Types DEF TaskStep, InForeign, Like
    <3> QED
      BY <3>1, <3>2, <3>3
  <2>3. DrainOf(k, r)
    BY <1>2, <1>8 DEF DrainInv
  <2> QED
    BY <2>1, <2>2, <2>3 DEF DrainOf, LocalStep, u
<1>9. /\ FinalOf(k, u)
      /\ \A d \in Cap : InForeign(u, d) => InForeign(r, d)
      /\ r.cur # Null => (u.pc = "running" <=> r.pc = "running") /\ u.at = r.at
      /\ k \in InCall => BoundOf(k, u, tso[k])
      /\ Stopping(u) => Stopping(r) /\ u.sync = r.sync
      /\ u.cur = r.cur
  BY <1>3, <1>4 DEF LocalOK, FinalOf, InForeign, BoundOf, Like
<1>10. r.pc \in Gone /\ ~NoExit => w = Null /\ u.pc \in Gone
  BY <1>3 DEF LocalOK, LocalStep
<1>11. Quiet(k, w, c0)
  BY <1>1, <1>4, <1>5, <1>6, <1>7, <1>8, <1>9, <1>10 DEF Quiet, LocalStep, u
<1> QED
  BY <1>11, QuietStep

(* The step of a Task that does not touch a Capability, *)
LEMMA LocalGoto ==
    ASSUME TypeOK, NEW k \in Task, NEW s \in TaskRec, task' = [task EXCEPT ![k] = s],
           UNCHANGED <<capVars, last_free_capability, tso, pending_sync, sched_state, scenario>>
    PROVE  LocalStep(k, s, Null, Null)
<1>1. PICK c \in Cap : c = 0
  BY ConstantFacts
<1>2. TaskStep(k, Null, c) /\ CapsKept(k, Null) /\ Like(k, task'[k], s) /\ task'[k].cap = s.cap
  BY Types, ConstantFacts DEF TaskStep, CapsKept, Like, capVars
<1> QED
  BY <1>2, Types, ConstantFacts DEF LocalStep, capVars

(* of one that wakes up another, *)
LEMMA LocalGive ==
    ASSUME TypeOK, NEW k \in Task, NEW s \in TaskRec, NEW n \in Task, n # k,
           task' = giveCapabilityToTask([task EXCEPT ![k] = s], n),
           UNCHANGED <<capVars, last_free_capability, tso, pending_sync, sched_state, scenario>>
    PROVE  LocalStep(k, s, Null, Null)
<1>1. PICK c \in Cap : c = 0
  BY ConstantFacts
<1>2. task[n] \in TaskRec /\ task \in [Task -> TaskRec]
  BY Types
<1>3. /\ task'[k] = s /\ task'[n] = [task[n] EXCEPT !.wakeup = TRUE]
      /\ \A m \in Task : m # k /\ m # n => task'[m] = task[m]
      /\ task' \in [Task -> TaskRec]
  <2>1. [task[n] EXCEPT !.wakeup = TRUE] \in TaskRec
    BY <1>2 DEF TaskRec
  <2> QED
    BY <1>2, <2>1 DEF giveCapabilityToTask
<1>4. Like(n, task'[n], task[n]) /\ task'[n].cap = task[n].cap
  BY <1>2, <1>3 DEF Like, TaskRec
<1>5. TaskStep(k, Null, c) /\ CapsKept(k, Null) /\ Like(k, task'[k], s) /\ task'[k].cap = s.cap
  BY <1>3, <1>4, Types, ConstantFacts DEF TaskStep, CapsKept, Like, capVars
<1> QED
  BY <1>5, Types, ConstantFacts DEF LocalStep, capVars

(* and of one that releases c. *)
LEMMA LocalRelease ==
    ASSUME TypeOK, NEW k \in Task, NEW s \in TaskRec, NEW c \in Cap, NEW aw \in BOOLEAN,
           running_task[c] \in {k, Null}, task[k].pc \notin Gone, s.pc # "none",
           Release(c, aw, [task EXCEPT ![k] = s]),
           UNCHANGED <<returning_tasks, spare_workers, run_queue, inbox, tso, pending_sync,
                       sched_state, scenario>>
    PROVE  \E w : LocalStep(k, s, w, c)
<1> DEFINE tk == [task EXCEPT ![k] = s]
<1>1. tk \in [Task -> TaskRec] /\ tk[k] = s /\ \A m \in Task : m # k => tk[m] = task[m]
  BY Types
<1>2. releaseCapability_(c, aw, run_queue[c], inbox[c], spare_workers[c], tk)
  BY DEF Release
<1> HIDE DEF tk
<1>3. run_queue[c] \in Seq(TSO) /\ inbox[c] \in Seq(TSO) /\ spare_workers[c] \in Seq(Task)
  BY Types
<1>4. PICK w \in Worker \cup {Null} :
             /\ TaskStep(k, w, c) /\ CapsKept(k, w)
             /\ Like(k, task'[k], tk[k]) /\ task'[k].cap = tk[k].cap
             /\ running_task' = [running_task EXCEPT ![c] = w]
             /\ w = Null => Handing(c, aw, run_queue[c], inbox[c], spare_workers[c])
             /\ last_free_capability' \in Cap
  BY <1>1, <1>2, <1>3, ReleaseEffect
<1> QED
  BY <1>1, <1>4 DEF LocalStep

(* What is known of the Task that takes the step. *)
LEMMA OfTask ==
    ASSUME IInv, NEW k \in Task
    PROVE  /\ task[k] \in TaskRec /\ TaskInv(k, task[k]) /\ FinalOf(k, task[k])
           /\ k \in InCall => BoundOf(k, task[k], tso[k])
           /\ \A d \in Cap : running_task[d] = k <=> d \in OwnedOf(task[k])
           /\ \A d \in Cap : /\ In(returning_tasks[d], k) <=> AtReturn(task[k], d)
                             /\ In(spare_workers[d], k) <=> AtYield(k, task[k], d)
           /\ Stopping(task[k]) => pending_sync = IF task[k].sync = "other" THEN "other" ELSE "gc"
           /\ task[k].cur # Null => CurOf(k, task[k], tso[task[k].cur]) /\ task[k].cur \in TSO
           /\ task[k].cap \in Cap \cup {Null} /\ task[k].at \in Cap \cup {Null}
           /\ task[k].on \in Cap \cup {Null} /\ task[k].i \in 0..NCaps /\ task[k].held \in Seq(Cap)
           /\ task[k].pc \in Place /\ task[k].then \in Place
BY Types DEF IInv, TaskSide, ThreadSide, TasksInv, FinalInv, BoundInv, OwnInv, QueueInv, SyncInv,
             CurInv, TaskRec

LEMMA EmptyFacts == Injective(<<>>) /\ (\A x : ~In(<<>>, x)) /\ ToSet(<<>>) = {} /\ <<>> \in Seq(Cap)
BY DEF Injective, In, ToSet

LEMMA PlaceFacts ==
    /\ "none" \in Place /\ "return" \in Place /\ "returnSleep" \in Place /\ "returnCheck" \in Place
    /\ "bind" \in Place
    /\ "schedule" \in Place /\ "push" \in Place /\ "grab" \in Place /\ "drop" \in Place
    /\ "share" \in Place
    /\ "relShared" \in Place /\ "yield" \in Place /\ "yielded" \in Place /\ "release" \in Place
    /\ "sleep" \in Place
    /\ "check" \in Place /\ "pick" \in Place /\ "running" \in Place /\ "ccall" \in Place
    /\ "resume" \in Place
    /\ "unlock" \in Place /\ "requestSync" \in Place /\ "syncWait" \in Place /\ "acquire" \in Place
    /\ "synced" \in Place
    /\ "releaseAll" \in Place /\ "stopped" \in Place /\ "done" \in Place /\ "interrupted" \in Place
    /\ "doGC" \in Place /\ "inbox" \in Place /\ "stray" \in Place
    /\ "exitRelease" \in Place /\ "exitSet" \in Place /\ "shut" \in Place /\ "freed" \in Place
    /\ "exited" \in Place
BY DEF Place

LEMMA YieldOK ==
    ASSUME IInv, HandedOver, NEW k \in Task, Yield(k), UNCHANGED <<sched_state, scenario>>
    PROVE  IInv' /\ HandedOver'
<1>0. TypeOK
  BY DEF IInv
<1> DEFINE r == task[k]
<1>b. r \in TaskRec /\ task \in [Task -> TaskRec]
  BY <1>0, Types
<1>a. /\ r \in TaskRec /\ TaskInv(k, r) /\ FinalOf(k, r) /\ (k \in InCall => BoundOf(k, r, tso[k]))
      /\ \A d \in Cap : running_task[d] = k <=> d \in OwnedOf(r)
  BY OfTask
<1>1. ASSUME NEW s, s = [r EXCEPT !.pc = "pick", !.then = "none"], task' = [task EXCEPT ![k] = s]
      PROVE  IInv' /\ HandedOver'
  <2>0. r.pc \in {"yield", "yielded"}
    BY <1>1 DEF Yield, pc
  <2>1. s \in TaskRec
    BY <1>b, <1>1, PlaceFacts DEF TaskRec
  <2>2. /\ s.pc = "pick" /\ s.cap = r.cap /\ s.wakeup = r.wakeup /\ s.at = r.at /\ s.on = r.on
        /\ s.then = "none" /\ s.i = r.i /\ s.held = r.held /\ s.cur = r.cur /\ s.sync = r.sync
        /\ s.prev = r.prev /\ s.old = r.old
    BY <1>b, <1>1 DEF TaskRec
  <2> HIDE DEF r
  <2>3. TaskInv(k, s)
    BY <1>a, <2>0, <2>2, ConstantFacts DEF TaskInv, KeepsCap, Gone, InC, Waiting, Inside, Loop, AtHome, Pushing,
       Exiting, Calling, TaskRec
  <2>4. LocalOK(k, r, s, Null)
    BY <1>a, <2>0, <2>2, <2>3, ConstantFacts DEF LocalOK, TaskInv, KeepsCap, Gone, OwnedOf, AtReturn, AtYield,
       Stopping, InC, FinalOf, Yielding, InForeign, BoundOf, ComingOf, Waiting, Inside, Loop,
       AtHome, Pushing, Exiting, Calling, TaskRec
  <2>5. LocalStep(k, s, Null, Null)
    BY <1>0, <1>1, <2>1, LocalGoto DEF Yield, capVars
  <2> QED
    BY <2>1, <2>4, <2>5, LocalStepOK DEF r
<1>2. ASSUME NEW s, s = [r EXCEPT !.pc = "release", !.then = "yielded"],
             task' = [task EXCEPT ![k] = s]
      PROVE  IInv' /\ HandedOver'
  <2>0. r.pc \in {"yield", "yielded"}
    BY <1>2 DEF Yield, pc
  <2>1. s \in TaskRec
    BY <1>b, <1>2, PlaceFacts DEF TaskRec
  <2>2. /\ s.pc = "release" /\ s.cap = r.cap /\ s.wakeup = r.wakeup /\ s.at = r.at /\ s.on = r.on
        /\ s.then = "yielded" /\ s.i = r.i /\ s.held = r.held /\ s.cur = r.cur /\ s.sync = r.sync
        /\ s.prev = r.prev /\ s.old = r.old
    BY <1>b, <1>2 DEF TaskRec
  <2> HIDE DEF r
  <2>3. TaskInv(k, s)
    BY <1>a, <2>0, <2>2, ConstantFacts DEF TaskInv, KeepsCap, Gone, InC, Waiting, Inside, Loop, AtHome, Pushing,
       Exiting, Calling, TaskRec
  <2>4. LocalOK(k, r, s, Null)
    BY <1>a, <2>0, <2>2, <2>3, ConstantFacts DEF LocalOK, TaskInv, KeepsCap, Gone, OwnedOf, AtReturn, AtYield,
       Stopping, InC, FinalOf, Yielding, InForeign, BoundOf, ComingOf, Waiting, Inside, Loop,
       AtHome, Pushing, Exiting, Calling, TaskRec
  <2>5. LocalStep(k, s, Null, Null)
    BY <1>0, <1>2, <2>1, LocalGoto DEF Yield, capVars
  <2> QED
    BY <2>1, <2>4, <2>5, LocalStepOK DEF r
<1> QED
  BY <1>b, <1>1, <1>2 DEF Yield, pc, Goto

LEMMA SkipInboxOK ==
    ASSUME IInv, HandedOver, NEW k \in Task, SkipInbox(k), UNCHANGED <<sched_state, scenario>>
    PROVE  IInv' /\ HandedOver'
<1>0. TypeOK
  BY DEF IInv
<1> DEFINE r == task[k]
<1>b. r \in TaskRec /\ task \in [Task -> TaskRec]
  BY <1>0, Types
<1>a. /\ r \in TaskRec /\ TaskInv(k, r) /\ FinalOf(k, r) /\ (k \in InCall => BoundOf(k, r, tso[k]))
      /\ \A d \in Cap : running_task[d] = k <=> d \in OwnedOf(r)
  BY OfTask
<1>1. ASSUME NEW s, s = [r EXCEPT !.pc = "push"], task' = [task EXCEPT ![k] = s]
      PROVE  IInv' /\ HandedOver'
  <2>0. r.pc \in {"schedule", "inbox"}
    BY <1>1 DEF SkipInbox, AtInbox, pc
  <2>1. s \in TaskRec
    BY <1>b, <1>1, PlaceFacts DEF TaskRec
  <2>2. /\ s.pc = "push" /\ s.cap = r.cap /\ s.wakeup = r.wakeup /\ s.at = r.at /\ s.on = r.on
        /\ s.then = r.then /\ s.i = r.i /\ s.held = r.held /\ s.cur = r.cur /\ s.sync = r.sync
        /\ s.prev = r.prev /\ s.old = r.old
    BY <1>b, <1>1 DEF TaskRec
  <2> HIDE DEF r
  <2>3. TaskInv(k, s)
    BY <1>a, <2>0, <2>2, ConstantFacts DEF TaskInv, KeepsCap, Gone, InC, Waiting, Inside, Loop, AtHome, Pushing,
       Exiting, Calling, TaskRec
  <2>4. LocalOK(k, r, s, Null)
    BY <1>a, <2>0, <2>2, <2>3, ConstantFacts DEF LocalOK, TaskInv, KeepsCap, Gone, OwnedOf, AtReturn, AtYield,
       Stopping, InC, FinalOf, Yielding, InForeign, BoundOf, ComingOf, Waiting, Inside, Loop,
       AtHome, Pushing, Exiting, Calling, TaskRec
  <2>5. LocalStep(k, s, Null, Null)
    BY <1>0, <1>1, <2>1, LocalGoto DEF SkipInbox, capVars
  <2> QED
    BY <2>1, <2>4, <2>5, LocalStepOK DEF r
<1> QED
  BY <1>b, <1>1 DEF SkipInbox, pc, Goto

LEMMA WakeUpOK ==
    ASSUME IInv, HandedOver, NEW k \in Task, WakeUp(k), pc(k) \in {"sleep", "returnSleep"},
           UNCHANGED <<capVars, last_free_capability, pending_sync, tso, sched_state, scenario>>
    PROVE  IInv' /\ HandedOver'
<1>0. TypeOK
  BY DEF IInv
<1> DEFINE r == task[k]
<1>b. r \in TaskRec /\ task \in [Task -> TaskRec]
  BY <1>0, Types
<1>a. /\ r \in TaskRec /\ TaskInv(k, r) /\ FinalOf(k, r) /\ (k \in InCall => BoundOf(k, r, tso[k]))
      /\ \A d \in Cap : running_task[d] = k <=> d \in OwnedOf(r)
  BY OfTask
<1>1. ASSUME NEW s, s = [r EXCEPT !.pc = "check", !.on = r.cap, !.wakeup = FALSE],
             task' = [task EXCEPT ![k] = s], r.pc = "sleep"
      PROVE  IInv' /\ HandedOver'
  <2>0. r.pc = "sleep"
    BY <1>1 DEF WakeUp, pc
  <2>1. s \in TaskRec
    BY <1>b, <1>1, PlaceFacts DEF TaskRec
  <2>2. /\ s.pc = "check" /\ s.cap = r.cap /\ s.wakeup = FALSE /\ s.at = r.at /\ s.on = r.cap
        /\ s.then = r.then /\ s.i = r.i /\ s.held = r.held /\ s.cur = r.cur /\ s.sync = r.sync
        /\ s.prev = r.prev /\ s.old = r.old
    BY <1>b, <1>1 DEF TaskRec
  <2> HIDE DEF r
  <2>3. TaskInv(k, s)
    BY <1>a, <2>0, <2>2, ConstantFacts DEF TaskInv, KeepsCap, Gone, InC, Waiting, Inside, Loop, AtHome, Pushing,
       Exiting, Calling, TaskRec
  <2>4. LocalOK(k, r, s, Null)
    BY <1>a, <2>0, <2>2, <2>3, ConstantFacts DEF LocalOK, TaskInv, KeepsCap, Gone, OwnedOf, AtReturn, AtYield,
       Stopping, InC, FinalOf, Yielding, InForeign, BoundOf, ComingOf, Waiting, Inside, Loop,
       AtHome, Pushing, Exiting, Calling, TaskRec
  <2>5. LocalStep(k, s, Null, Null)
    BY <1>0, <1>1, <2>1, LocalGoto DEF WakeUp, capVars
  <2> QED
    BY <2>1, <2>4, <2>5, LocalStepOK DEF r
<1>2. ASSUME NEW s, s = [r EXCEPT !.pc = "returnCheck", !.on = r.cap, !.wakeup = FALSE],
             task' = [task EXCEPT ![k] = s], r.pc = "returnSleep"
      PROVE  IInv' /\ HandedOver'
  <2>0. r.pc = "returnSleep"
    BY <1>2 DEF WakeUp, pc
  <2>1. s \in TaskRec
    BY <1>b, <1>2, PlaceFacts DEF TaskRec
  <2>2. /\ s.pc = "returnCheck" /\ s.cap = r.cap /\ s.wakeup = FALSE /\ s.at = r.at /\ s.on = r.cap
        /\ s.then = r.then /\ s.i = r.i /\ s.held = r.held /\ s.cur = r.cur /\ s.sync = r.sync
        /\ s.prev = r.prev /\ s.old = r.old
    BY <1>b, <1>2 DEF TaskRec
  <2> HIDE DEF r
  <2>3. TaskInv(k, s)
    BY <1>a, <2>0, <2>2, ConstantFacts DEF TaskInv, KeepsCap, Gone, InC, Waiting, Inside, Loop, AtHome, Pushing,
       Exiting, Calling, TaskRec
  <2>4. LocalOK(k, r, s, Null)
    BY <1>a, <2>0, <2>2, <2>3, ConstantFacts DEF LocalOK, TaskInv, KeepsCap, Gone, OwnedOf, AtReturn, AtYield,
       Stopping, InC, FinalOf, Yielding, InForeign, BoundOf, ComingOf, Waiting, Inside, Loop,
       AtHome, Pushing, Exiting, Calling, TaskRec
  <2>5. LocalStep(k, s, Null, Null)
    BY <1>0, <1>2, <2>1, LocalGoto DEF WakeUp, capVars
  <2> QED
    BY <2>1, <2>4, <2>5, LocalStepOK DEF r
<1> QED
  BY <1>b, <1>1, <1>2 DEF WakeUp, pc, Goto

LEMMA PushWorkOK ==
    ASSUME IInv, HandedOver, NEW k \in Task, PushWork(k), UNCHANGED <<sched_state, scenario>>
    PROVE  IInv' /\ HandedOver'
<1>0. TypeOK
  BY DEF IInv
<1> DEFINE r == task[k]
<1>b. r \in TaskRec /\ task \in [Task -> TaskRec]
  BY <1>0, Types
<1>a. /\ r \in TaskRec /\ TaskInv(k, r) /\ FinalOf(k, r) /\ (k \in InCall => BoundOf(k, r, tso[k]))
      /\ \A d \in Cap : running_task[d] = k <=> d \in OwnedOf(r)
  BY OfTask
<1>1. ASSUME NEW s, s = [r EXCEPT !.pc = "yield"], task' = [task EXCEPT ![k] = s]
      PROVE  IInv' /\ HandedOver'
  <2>0. r.pc = "push"
    BY <1>1 DEF PushWork, pc
  <2>1. s \in TaskRec
    BY <1>b, <1>1, PlaceFacts DEF TaskRec
  <2>2. /\ s.pc = "yield" /\ s.cap = r.cap /\ s.wakeup = r.wakeup /\ s.at = r.at /\ s.on = r.on
        /\ s.then = r.then /\ s.i = r.i /\ s.held = r.held /\ s.cur = r.cur /\ s.sync = r.sync
        /\ s.prev = r.prev /\ s.old = r.old
    BY <1>b, <1>1 DEF TaskRec
  <2> HIDE DEF r
  <2>3. TaskInv(k, s)
    BY <1>a, <2>0, <2>2, ConstantFacts DEF TaskInv, KeepsCap, Gone, InC, Waiting, Inside, Loop, AtHome, Pushing,
       Exiting, Calling, TaskRec
  <2>4. LocalOK(k, r, s, Null)
    BY <1>a, <2>0, <2>2, <2>3, ConstantFacts DEF LocalOK, TaskInv, KeepsCap, Gone, OwnedOf, AtReturn, AtYield,
       Stopping, InC, FinalOf, Yielding, InForeign, BoundOf, ComingOf, Waiting, Inside, Loop,
       AtHome, Pushing, Exiting, Calling, TaskRec
  <2>5. LocalStep(k, s, Null, Null)
    BY <1>0, <1>1, <2>1, LocalGoto DEF PushWork, capVars
  <2> QED
    BY <2>1, <2>4, <2>5, LocalStepOK DEF r
<1>2. ASSUME NEW s, s = [r EXCEPT !.pc = "grab", !.i = 0, !.held = <<>>],
             task' = [task EXCEPT ![k] = s]
      PROVE  IInv' /\ HandedOver'
  <2>0. r.pc = "push"
    BY <1>2 DEF PushWork, pc
  <2>r. 0 \in 0..NCaps
    BY ConstantFacts
  <2>1. s \in TaskRec
    BY <1>b, <1>2, PlaceFacts, EmptyFacts, <2>r DEF TaskRec
  <2>2. /\ s.pc = "grab" /\ s.cap = r.cap /\ s.wakeup = r.wakeup /\ s.at = r.at /\ s.on = r.on
        /\ s.then = r.then /\ s.i = 0 /\ s.held = <<>> /\ s.cur = r.cur /\ s.sync = r.sync
        /\ s.prev = r.prev /\ s.old = r.old
    BY <1>b, <1>2 DEF TaskRec
  <2> HIDE DEF r
  <2>3. TaskInv(k, s)
    BY <1>a, <2>0, <2>2, ConstantFacts, EmptyFacts DEF TaskInv, KeepsCap, Gone, InC, Waiting, Inside, Loop, AtHome,
       Pushing,
       Exiting, Calling, TaskRec
  <2>4. LocalOK(k, r, s, Null)
    BY <1>a, <2>0, <2>2, <2>3, ConstantFacts, EmptyFacts DEF LocalOK, TaskInv, KeepsCap, Gone, OwnedOf, AtReturn,
       AtYield,
       Stopping, InC, FinalOf, Yielding, InForeign, BoundOf, ComingOf, Waiting, Inside, Loop,
       AtHome, Pushing, Exiting, Calling, TaskRec
  <2>5. LocalStep(k, s, Null, Null)
    BY <1>0, <1>2, <2>1, LocalGoto DEF PushWork, capVars
  <2> QED
    BY <2>1, <2>4, <2>5, LocalStepOK DEF r
<1> QED
  BY <1>b, <1>1, <1>2 DEF PushWork, pc, Goto

LEMMA FinalGCOK ==
    ASSUME IInv, HandedOver, NEW k \in Task, FinalGC(k), UNCHANGED <<scenario>>
    PROVE  IInv' /\ HandedOver'
<1>0. TypeOK
  BY DEF IInv
<1> DEFINE r == task[k]
<1>b. r \in TaskRec /\ task \in [Task -> TaskRec]
  BY <1>0, Types
<1>a. /\ r \in TaskRec /\ TaskInv(k, r) /\ FinalOf(k, r) /\ (k \in InCall => BoundOf(k, r, tso[k]))
      /\ \A d \in Cap : running_task[d] = k <=> d \in OwnedOf(r)
  BY OfTask
<1>1. ASSUME NEW s, s = [r EXCEPT !.pc = "doGC", !.sync = "final"],
             task' = [task EXCEPT ![k] = s]
      PROVE  IInv' /\ HandedOver'
  <2>0. r.pc = "schedule" /\ sched_state = "interrupting"
    BY <1>1 DEF FinalGC, pc
  <2>1. s \in TaskRec
    BY <1>b, <1>1, PlaceFacts DEF TaskRec
  <2>2. /\ s.pc = "doGC" /\ s.cap = r.cap /\ s.wakeup = r.wakeup /\ s.at = r.at
        /\ s.on = r.on
        /\ s.then = r.then /\ s.i = r.i /\ s.held = r.held /\ s.cur = r.cur /\ s.sync = "final"
        /\ s.prev = r.prev /\ s.old = r.old
    BY <1>b, <1>1 DEF TaskRec
  <2> HIDE DEF r
  <2>3. TaskInv(k, s)
    BY <1>a, <2>0, <2>2, ConstantFacts DEF TaskInv, KeepsCap, Gone, InC, Waiting, Inside, Loop, AtHome, Pushing,
       Exiting, Calling, TaskRec
  <2>4. LocalOK(k, r, s, Null)
    BY <1>a, <2>0, <2>2, <2>3, ConstantFacts DEF LocalOK, TaskInv, KeepsCap, Gone, OwnedOf, AtReturn, AtYield,
       Stopping, InC, FinalOf, Yielding, InForeign, BoundOf, ComingOf, Waiting, Inside, Loop,
       AtHome, Pushing, Exiting, Calling, TaskRec
  <2>5. LocalStep(k, s, Null, Null)
    BY <1>0, <1>1, <2>1, LocalGoto DEF FinalGC, capVars
  <2> QED
    BY <2>1, <2>4, <2>5, LocalStepOK DEF r
<1> QED
  BY <1>b, <1>1 DEF FinalGC, pc, Goto

LEMMA InboxGCOK ==
    ASSUME IInv, HandedOver, NEW k \in Task, InboxGC(k), UNCHANGED <<sched_state, scenario>>
    PROVE  IInv' /\ HandedOver'
<1>0. TypeOK
  BY DEF IInv
<1> DEFINE r == task[k]
<1>b. r \in TaskRec /\ task \in [Task -> TaskRec]
  BY <1>0, Types
<1>a. /\ r \in TaskRec /\ TaskInv(k, r) /\ FinalOf(k, r) /\ (k \in InCall => BoundOf(k, r, tso[k]))
      /\ \A d \in Cap : running_task[d] = k <=> d \in OwnedOf(r)
  BY OfTask
<1>1. ASSUME NEW s, s = [r EXCEPT !.pc = "doGC", !.sync = "inbox", !.old = r.at],
             task' = [task EXCEPT ![k] = s]
      PROVE  IInv' /\ HandedOver'
  <2>0. r.pc = "schedule"
    BY <1>1 DEF InboxGC, pc
  <2>1. s \in TaskRec
    BY <1>b, <1>1, PlaceFacts DEF TaskRec
  <2>2. /\ s.pc = "doGC" /\ s.cap = r.cap /\ s.wakeup = r.wakeup /\ s.at = r.at
        /\ s.on = r.on
        /\ s.then = r.then /\ s.i = r.i /\ s.held = r.held /\ s.cur = r.cur /\ s.sync = "inbox"
        /\ s.prev = r.prev /\ s.old = r.at
    BY <1>b, <1>1 DEF TaskRec
  <2> HIDE DEF r
  <2>3. TaskInv(k, s)
    BY <1>a, <2>0, <2>2, ConstantFacts DEF TaskInv, KeepsCap, Gone, InC, Waiting, Inside, Loop, AtHome, Pushing,
       Exiting, Calling, TaskRec
  <2>4. LocalOK(k, r, s, Null)
    BY <1>a, <2>0, <2>2, <2>3, ConstantFacts DEF LocalOK, TaskInv, KeepsCap, Gone, OwnedOf, AtReturn, AtYield,
       Stopping, InC, FinalOf, Yielding, InForeign, BoundOf, ComingOf, Waiting, Inside, Loop,
       AtHome, Pushing, Exiting, Calling, TaskRec
  <2>5. LocalStep(k, s, Null, Null)
    BY <1>0, <1>1, <2>1, LocalGoto DEF InboxGC, capVars
  <2> QED
    BY <2>1, <2>4, <2>5, LocalStepOK DEF r
<1> QED
  BY <1>b, <1>1 DEF InboxGC, pc, Goto

LEMMA FallThroughOK ==
    ASSUME IInv, HandedOver, NEW k \in Task, FallThrough(k), UNCHANGED <<scenario>>
    PROVE  IInv' /\ HandedOver'
<1>0. TypeOK
  BY DEF IInv
<1> DEFINE r == task[k]
<1>b. r \in TaskRec /\ task \in [Task -> TaskRec]
  BY <1>0, Types
<1>a. /\ r \in TaskRec /\ TaskInv(k, r) /\ FinalOf(k, r) /\ (k \in InCall => BoundOf(k, r, tso[k]))
      /\ \A d \in Cap : running_task[d] = k <=> d \in OwnedOf(r)
  BY OfTask
<1>1. ASSUME NEW s, s = [r EXCEPT !.pc = "schedule"], task' = [task EXCEPT ![k] = s]
      PROVE  IInv' /\ HandedOver'
  <2>0. r.pc = "interrupted"
    BY <1>1 DEF FallThrough, pc
  <2>1. s \in TaskRec
    BY <1>b, <1>1, PlaceFacts DEF TaskRec
  <2>2. /\ s.pc = "schedule" /\ s.cap = r.cap /\ s.wakeup = r.wakeup /\ s.at = r.at /\ s.on = r.on
        /\ s.then = r.then /\ s.i = r.i /\ s.held = r.held /\ s.cur = r.cur /\ s.sync = r.sync
        /\ s.prev = r.prev /\ s.old = r.old
    BY <1>b, <1>1 DEF TaskRec
  <2> HIDE DEF r
  <2>3. TaskInv(k, s)
    BY <1>a, <2>0, <2>2, ConstantFacts DEF TaskInv, KeepsCap, Gone, InC, Waiting, Inside, Loop, AtHome, Pushing,
       Exiting, Calling, TaskRec
  <2>4. LocalOK(k, r, s, Null)
    BY <1>a, <2>0, <2>2, <2>3, ConstantFacts DEF LocalOK, TaskInv, KeepsCap, Gone, OwnedOf, AtReturn, AtYield,
       Stopping, InC, FinalOf, Yielding, InForeign, BoundOf, ComingOf, Waiting, Inside, Loop,
       AtHome, Pushing, Exiting, Calling, TaskRec
  <2>5. LocalStep(k, s, Null, Null)
    BY <1>0, <1>1, <2>1, LocalGoto DEF FallThrough, capVars
  <2> QED
    BY <2>1, <2>4, <2>5, LocalStepOK DEF r
<1> QED
  BY <1>b, <1>1 DEF FallThrough, pc, Goto

(* Where a Task goes on after a GC. *)
AfterOf(k, r) ==
    IF k \in Exiter THEN "exitRelease"
    ELSE IF k \in Syncer THEN IF r.sync = "gc" THEN "unlock" ELSE "done"
    ELSE IF r.sync = "final" THEN "interrupted"
    ELSE IF r.sync = "inbox" THEN IF r.at = r.old THEN "inbox" ELSE "stray"
    ELSE "schedule"

LEMMA AfterFacts ==
    ASSUME NEW k \in Task
    PROVE  AfterSync(k) = AfterOf(k, task[k]) /\ AfterSync(k) \in Place
BY PlaceFacts, ConstantFacts DEF AfterSync, AfterOf

LEMMA DoGCOK ==
    ASSUME IInv, HandedOver, NEW k \in Task, scheduleDoGC(k), UNCHANGED <<sched_state, scenario>>
    PROVE  IInv' /\ HandedOver'
<1>0. TypeOK
  BY DEF IInv
<1> DEFINE r == task[k]
<1>b. r \in TaskRec /\ task \in [Task -> TaskRec]
  BY <1>0, Types
<1>a. /\ r \in TaskRec /\ TaskInv(k, r) /\ FinalOf(k, r) /\ (k \in InCall => BoundOf(k, r, tso[k]))
      /\ \A d \in Cap : running_task[d] = k <=> d \in OwnedOf(r)
  BY OfTask
<1>1. ASSUME NEW s, s = [r EXCEPT !.pc = AfterSync(k)], task' = [task EXCEPT ![k] = s],
             sched_state = "shutting"
      PROVE  IInv' /\ HandedOver'
  <2>0. r.pc = "doGC" /\ sched_state = "shutting"
    BY <1>1 DEF scheduleDoGC, pc
  <2>q. AfterSync(k) = AfterOf(k, r)
    BY AfterFacts
  <2>1. s \in TaskRec
    BY <1>b, <1>1, AfterFacts DEF TaskRec
  <2>2. /\ s.pc = AfterSync(k) /\ s.cap = r.cap /\ s.wakeup = r.wakeup /\ s.at = r.at
        /\ s.on = r.on
        /\ s.then = r.then /\ s.i = r.i /\ s.held = r.held /\ s.cur = r.cur /\ s.sync = r.sync
        /\ s.prev = r.prev /\ s.old = r.old
    BY <1>b, <1>1 DEF TaskRec
  <2> HIDE DEF r
  <2>3. TaskInv(k, s)
    BY <1>a, <2>0, <2>2, <2>q, ConstantFacts DEF AfterOf, TaskInv, KeepsCap, Gone, InC, Waiting, Inside, Loop, AtHome, Pushing,
       Exiting, Calling, TaskRec
  <2>4. LocalOK(k, r, s, Null)
    BY <1>a, <2>0, <2>2, <2>3, <2>q, ConstantFacts DEF AfterOf, LocalOK, TaskInv, KeepsCap, Gone, OwnedOf, AtReturn, AtYield,
       Stopping, InC, FinalOf, Yielding, InForeign, BoundOf, ComingOf, Waiting, Inside, Loop,
       AtHome, Pushing, Exiting, Calling, TaskRec
  <2>5. LocalStep(k, s, Null, Null)
    BY <1>0, <1>1, <2>1, LocalGoto DEF scheduleDoGC, capVars
  <2> QED
    BY <2>1, <2>4, <2>5, LocalStepOK DEF r
<1>2. ASSUME NEW s, s = [r EXCEPT !.pc = "requestSync"], task' = [task EXCEPT ![k] = s]
      PROVE  IInv' /\ HandedOver'
  <2>0. r.pc = "doGC"
    BY <1>2 DEF scheduleDoGC, pc
  <2>1. s \in TaskRec
    BY <1>b, <1>2, PlaceFacts DEF TaskRec
  <2>2. /\ s.pc = "requestSync" /\ s.cap = r.cap /\ s.wakeup = r.wakeup /\ s.at = r.at
        /\ s.on = r.on
        /\ s.then = r.then /\ s.i = r.i /\ s.held = r.held /\ s.cur = r.cur /\ s.sync = r.sync
        /\ s.prev = r.prev /\ s.old = r.old
    BY <1>b, <1>2 DEF TaskRec
  <2> HIDE DEF r
  <2>3. TaskInv(k, s)
    BY <1>a, <2>0, <2>2, ConstantFacts DEF TaskInv, KeepsCap, Gone, InC, Waiting, Inside, Loop, AtHome, Pushing,
       Exiting, Calling, TaskRec
  <2>4. LocalOK(k, r, s, Null)
    BY <1>a, <2>0, <2>2, <2>3, ConstantFacts DEF LocalOK, TaskInv, KeepsCap, Gone, OwnedOf, AtReturn, AtYield,
       Stopping, InC, FinalOf, Yielding, InForeign, BoundOf, ComingOf, Waiting, Inside, Loop,
       AtHome, Pushing, Exiting, Calling, TaskRec
  <2>5. LocalStep(k, s, Null, Null)
    BY <1>0, <1>2, <2>1, LocalGoto DEF scheduleDoGC, capVars
  <2> QED
    BY <2>1, <2>4, <2>5, LocalStepOK DEF r
<1> QED
  BY <1>b, <1>1, <1>2 DEF scheduleDoGC, pc, Goto

LEMMA ReturnFromCOK ==
    ASSUME IInv, HandedOver, NEW k \in Task, ReturnFromC(k), UNCHANGED <<sched_state, scenario>>
    PROVE  IInv' /\ HandedOver'
<1>0. TypeOK
  BY DEF IInv
<1> DEFINE r == task[k]
<1>b. r \in TaskRec /\ task \in [Task -> TaskRec]
  BY <1>0, Types
<1>a. /\ r \in TaskRec /\ TaskInv(k, r) /\ FinalOf(k, r) /\ (k \in InCall => BoundOf(k, r, tso[k]))
      /\ \A d \in Cap : running_task[d] = k <=> d \in OwnedOf(r)
  BY OfTask
<1>1. ASSUME NEW s, s = [r EXCEPT !.pc = "return", !.cap = r.at, !.on = r.at, !.then = "resume"],
             task' = [task EXCEPT ![k] = s]
      PROVE  IInv' /\ HandedOver'
  <2>0. r.pc = "ccall"
    BY <1>1 DEF ReturnFromC, pc
  <2>1. s \in TaskRec
    BY <1>b, <1>1, PlaceFacts DEF TaskRec
  <2>2. /\ s.pc = "return" /\ s.cap = r.at /\ s.wakeup = r.wakeup /\ s.at = r.at /\ s.on = r.at
        /\ s.then = "resume" /\ s.i = r.i /\ s.held = r.held /\ s.cur = r.cur /\ s.sync = r.sync
        /\ s.prev = r.prev /\ s.old = r.old
    BY <1>b, <1>1 DEF TaskRec
  <2> HIDE DEF r
  <2>3. TaskInv(k, s)
    BY <1>a, <2>0, <2>2, ConstantFacts DEF TaskInv, KeepsCap, Gone, InC, Waiting, Inside, Loop, AtHome, Pushing,
       Exiting, Calling, TaskRec
  <2>4. LocalOK(k, r, s, Null)
    BY <1>a, <2>0, <2>2, <2>3, ConstantFacts DEF LocalOK, TaskInv, KeepsCap, Gone, OwnedOf, AtReturn, AtYield,
       Stopping, InC, FinalOf, Yielding, InForeign, BoundOf, ComingOf, Waiting, Inside, Loop,
       AtHome, Pushing, Exiting, Calling, TaskRec
  <2>5. LocalStep(k, s, Null, Null)
    BY <1>0, <1>1, <2>1, LocalGoto DEF ReturnFromC, capVars
  <2> QED
    BY <2>1, <2>4, <2>5, LocalStepOK DEF r
<1> QED
  BY <1>b, <1>1 DEF ReturnFromC, pc, Goto

LEMMA AcquireAllOK ==
    ASSUME IInv, HandedOver, NEW k \in Task, AcquireAll(k), UNCHANGED <<sched_state, scenario>>
    PROVE  IInv' /\ HandedOver'
<1>0. TypeOK
  BY DEF IInv
<1> DEFINE r == task[k]
<1>b. r \in TaskRec /\ task \in [Task -> TaskRec]
  BY <1>0, Types
<1>a. /\ r \in TaskRec /\ TaskInv(k, r) /\ FinalOf(k, r) /\ (k \in InCall => BoundOf(k, r, tso[k]))
      /\ \A d \in Cap : running_task[d] = k <=> d \in OwnedOf(r)
  BY OfTask
<1>1. ASSUME NEW s, s = [r EXCEPT !.pc = "synced", !.cap = r.at], task' = [task EXCEPT ![k] = s],
             r.i = NCaps
      PROVE  IInv' /\ HandedOver'
  <2>0. r.pc = "acquire" /\ r.i = NCaps
    BY <1>1 DEF AcquireAll, pc
  <2>1. s \in TaskRec
    BY <1>b, <1>1, PlaceFacts DEF TaskRec
  <2>2. /\ s.pc = "synced" /\ s.cap = r.at /\ s.wakeup = r.wakeup /\ s.at = r.at /\ s.on = r.on
        /\ s.then = r.then /\ s.i = r.i /\ s.held = r.held /\ s.cur = r.cur /\ s.sync = r.sync
        /\ s.prev = r.prev /\ s.old = r.old
    BY <1>b, <1>1 DEF TaskRec
  <2> HIDE DEF r
  <2>3. TaskInv(k, s)
    BY <1>a, <2>0, <2>2, ConstantFacts DEF TaskInv, KeepsCap, Gone, InC, Waiting, Inside, Loop, AtHome, Pushing,
       Exiting, Calling, TaskRec
  <2>4. LocalOK(k, r, s, Null)
    BY <1>a, <2>0, <2>2, <2>3, ConstantFacts DEF LocalOK, TaskInv, KeepsCap, Gone, OwnedOf, AtReturn, AtYield,
       Stopping, InC, FinalOf, Yielding, InForeign, BoundOf, ComingOf, Waiting, Inside, Loop,
       AtHome, Pushing, Exiting, Calling, TaskRec
  <2>5. LocalStep(k, s, Null, Null)
    BY <1>0, <1>1, <2>1, LocalGoto DEF AcquireAll, capVars
  <2> QED
    BY <2>1, <2>4, <2>5, LocalStepOK DEF r
<1>2. ASSUME NEW s, s = [r EXCEPT !.i = r.i + 1], task' = [task EXCEPT ![k] = s], r.i < NCaps,
             r.i = r.at
      PROVE  IInv' /\ HandedOver'
  <2>0. r.pc = "acquire" /\ r.i < NCaps /\ r.i = r.at
    BY <1>2 DEF AcquireAll, pc
  <2>r. r.i + 1 \in 0..NCaps /\ r.i \in Cap
    BY <1>b, <2>0, ConstantFacts DEF TaskRec
  <2>1. s \in TaskRec
    BY <1>b, <1>2, PlaceFacts, <2>r DEF TaskRec
  <2>2. /\ s.pc = r.pc /\ s.cap = r.cap /\ s.wakeup = r.wakeup /\ s.at = r.at /\ s.on = r.on
        /\ s.then = r.then /\ s.i = r.i + 1 /\ s.held = r.held /\ s.cur = r.cur /\ s.sync = r.sync
        /\ s.prev = r.prev /\ s.old = r.old
    BY <1>b, <1>2 DEF TaskRec
  <2> HIDE DEF r
  <2>3. TaskInv(k, s)
    BY <1>a, <2>0, <2>2, ConstantFacts DEF TaskInv, KeepsCap, Gone, InC, Waiting, Inside, Loop, AtHome, Pushing,
       Exiting, Calling, TaskRec
  <2>4. LocalOK(k, r, s, Null)
    BY <1>a, <2>0, <2>2, <2>3, ConstantFacts DEF LocalOK, TaskInv, KeepsCap, Gone, OwnedOf, AtReturn, AtYield,
       Stopping, InC, FinalOf, Yielding, InForeign, BoundOf, ComingOf, Waiting, Inside, Loop,
       AtHome, Pushing, Exiting, Calling, TaskRec
  <2>5. LocalStep(k, s, Null, Null)
    BY <1>0, <1>2, <2>1, LocalGoto DEF AcquireAll, capVars
  <2> QED
    BY <2>1, <2>4, <2>5, LocalStepOK DEF r
<1>3. ASSUME NEW s,
             s = [r EXCEPT !.cap = r.i, !.on = r.i, !.pc = "return", !.then = "acquire", !.i = r.i + 1],
             task' = [task EXCEPT ![k] = s], r.i < NCaps, r.i # r.at
      PROVE  IInv' /\ HandedOver'
  <2>0. r.pc = "acquire" /\ r.i < NCaps /\ r.i # r.at
    BY <1>3 DEF AcquireAll, pc
  <2>r. r.i + 1 \in 0..NCaps /\ r.i \in Cap
    BY <1>b, <2>0, ConstantFacts DEF TaskRec
  <2>1. s \in TaskRec
    BY <1>b, <1>3, PlaceFacts, <2>r DEF TaskRec
  <2>2. /\ s.pc = "return" /\ s.cap = r.i /\ s.wakeup = r.wakeup /\ s.at = r.at /\ s.on = r.i
        /\ s.then = "acquire" /\ s.i = r.i + 1 /\ s.held = r.held /\ s.cur = r.cur
        /\ s.sync = r.sync /\ s.prev = r.prev /\ s.old = r.old
    BY <1>b, <1>3 DEF TaskRec
  <2> HIDE DEF r
  <2>3. TaskInv(k, s)
    BY <1>a, <2>0, <2>2, ConstantFacts DEF TaskInv, KeepsCap, Gone, InC, Waiting, Inside, Loop, AtHome, Pushing,
       Exiting, Calling, TaskRec
  <2>4. LocalOK(k, r, s, Null)
    BY <1>a, <2>0, <2>2, <2>3, ConstantFacts DEF LocalOK, TaskInv, KeepsCap, Gone, OwnedOf, AtReturn, AtYield,
       Stopping, InC, FinalOf, Yielding, InForeign, BoundOf, ComingOf, Waiting, Inside, Loop,
       AtHome, Pushing, Exiting, Calling, TaskRec
  <2>5. LocalStep(k, s, Null, Null)
    BY <1>0, <1>3, <2>1, LocalGoto DEF AcquireAll, capVars
  <2> QED
    BY <2>1, <2>4, <2>5, LocalStepOK DEF r
<1> QED
  <2>1. CASE r.i = NCaps /\ task' = [task EXCEPT ![k].pc = "synced", ![k].cap = r.at]
    <3>1. task' = [task EXCEPT ![k] = [r EXCEPT !.pc = "synced", !.cap = r.at]]
      BY <1>b, <2>1
    <3> QED
      BY <2>1, <3>1, <1>1
  <2>2. CASE r.i < NCaps /\ r.i = r.at /\ task' = [task EXCEPT ![k].i = r.i + 1]
    <3>1. task' = [task EXCEPT ![k] = [r EXCEPT !.i = r.i + 1]]
      BY <1>b, <2>2
    <3> QED
      BY <2>2, <3>1, <1>2
  <2>3. CASE r.i < NCaps /\ r.i # r.at /\ task' = [task EXCEPT ![k].cap = r.i, ![k].on = r.i, ![k].pc = "return", ![k].then = "acquire", ![k].i = r.i + 1]
    <3>1. task' = [task EXCEPT ![k] = [r EXCEPT !.cap = r.i, !.on = r.i, !.pc = "return", !.then = "acquire", !.i = r.i + 1]]
      BY <1>b, <2>3
    <3> QED
      BY <2>3, <3>1, <1>3
  <2> QED
    BY <1>b, <2>1, <2>2, <2>3 DEF AcquireAll, pc, Goto

LEMMA ToSetIn == \A q, x : x \in ToSet(q) <=> In(q, x)
BY DEF ToSet, In

LEMMA RequestSyncWaitOK ==
    ASSUME IInv, HandedOver, NEW k \in Task, pc(k) = "requestSync", pending_sync # "none",
           task' = [task EXCEPT ![k].pc = "release", ![k].then = "syncWait", ![k].prev = pending_sync],
           UNCHANGED <<capVars, last_free_capability, pending_sync, tso, sched_state, scenario>>
    PROVE  IInv' /\ HandedOver'
<1>0. TypeOK
  BY DEF IInv
<1> DEFINE r == task[k]
<1>b. r \in TaskRec /\ task \in [Task -> TaskRec]
  BY <1>0, Types
<1>a. /\ r \in TaskRec /\ TaskInv(k, r) /\ FinalOf(k, r) /\ (k \in InCall => BoundOf(k, r, tso[k]))
      /\ \A d \in Cap : running_task[d] = k <=> d \in OwnedOf(r)
  BY OfTask
<1>1. ASSUME NEW s, s = [r EXCEPT !.pc = "release", !.then = "syncWait", !.prev = pending_sync],
             task' = [task EXCEPT ![k] = s]
      PROVE  IInv' /\ HandedOver'
  <2>0. r.pc = "requestSync" /\ pending_sync \in {"gc", "other"}
    BY <1>0, <1>1, Types DEF pc
  <2>1. s \in TaskRec
    BY <1>b, <1>1, PlaceFacts, <2>0 DEF TaskRec
  <2>2. /\ s.pc = "release" /\ s.cap = r.cap /\ s.wakeup = r.wakeup /\ s.at = r.at /\ s.on = r.on
        /\ s.then = "syncWait" /\ s.i = r.i /\ s.held = r.held /\ s.cur = r.cur /\ s.sync = r.sync
        /\ s.prev = pending_sync /\ s.old = r.old
    BY <1>b, <1>1 DEF TaskRec
  <2> HIDE DEF r
  <2>3. TaskInv(k, s)
    BY <1>a, <2>0, <2>2, ConstantFacts DEF TaskInv, KeepsCap, Gone, InC, Waiting, Inside, Loop, AtHome, Pushing,
       Exiting, Calling, TaskRec
  <2>4. LocalOK(k, r, s, Null)
    BY <1>a, <2>0, <2>2, <2>3, ConstantFacts DEF LocalOK, TaskInv, KeepsCap, Gone, OwnedOf, AtReturn, AtYield,
       Stopping, InC, FinalOf, Yielding, InForeign, BoundOf, ComingOf, Waiting, Inside, Loop,
       AtHome, Pushing, Exiting, Calling, TaskRec
  <2>5. LocalStep(k, s, Null, Null)
    BY <1>0, <1>1, <2>1, LocalGoto DEF capVars
  <2> QED
    BY <2>1, <2>4, <2>5, LocalStepOK DEF r
<1> QED
  <2>1. CASE task' = [task EXCEPT ![k].pc = "release", ![k].then = "syncWait", ![k].prev = pending_sync]
    <3>1. task' = [task EXCEPT ![k] = [r EXCEPT !.pc = "release", !.then = "syncWait", !.prev = pending_sync]]
      BY <1>b, <2>1
    <3> QED
      BY <2>1, <3>1, <1>1
  <2> QED
    BY <1>b, <2>1 DEF pc

LEMMA SyncWaitOK ==
    ASSUME IInv, HandedOver, NEW k \in Task, SyncWait(k), UNCHANGED <<sched_state, scenario>>
    PROVE  IInv' /\ HandedOver'
<1>0. TypeOK
  BY DEF IInv
<1> DEFINE r == task[k]
<1>b. r \in TaskRec /\ task \in [Task -> TaskRec]
  BY <1>0, Types
<1>a. /\ r \in TaskRec /\ TaskInv(k, r) /\ FinalOf(k, r) /\ (k \in InCall => BoundOf(k, r, tso[k]))
      /\ \A d \in Cap : running_task[d] = k <=> d \in OwnedOf(r)
  BY OfTask
<1>1. ASSUME NEW s, s = [r EXCEPT !.pc = "release"], task' = [task EXCEPT ![k] = s]
      PROVE  IInv' /\ HandedOver'
  <2>0. r.pc = "syncWait"
    BY <1>1 DEF SyncWait, pc
  <2>1. s \in TaskRec
    BY <1>b, <1>1, PlaceFacts DEF TaskRec
  <2>2. /\ s.pc = "release" /\ s.cap = r.cap /\ s.wakeup = r.wakeup /\ s.at = r.at /\ s.on = r.on
        /\ s.then = r.then /\ s.i = r.i /\ s.held = r.held /\ s.cur = r.cur /\ s.sync = r.sync
        /\ s.prev = r.prev /\ s.old = r.old
    BY <1>b, <1>1 DEF TaskRec
  <2> HIDE DEF r
  <2>3. TaskInv(k, s)
    BY <1>a, <2>0, <2>2, ConstantFacts DEF TaskInv, KeepsCap, Gone, InC, Waiting, Inside, Loop, AtHome, Pushing,
       Exiting, Calling, TaskRec
  <2>4. LocalOK(k, r, s, Null)
    BY <1>a, <2>0, <2>2, <2>3, ConstantFacts DEF LocalOK, TaskInv, KeepsCap, Gone, OwnedOf, AtReturn, AtYield,
       Stopping, InC, FinalOf, Yielding, InForeign, BoundOf, ComingOf, Waiting, Inside, Loop,
       AtHome, Pushing, Exiting, Calling, TaskRec
  <2>5. LocalStep(k, s, Null, Null)
    BY <1>0, <1>1, <2>1, LocalGoto DEF SyncWait, capVars
  <2> QED
    BY <2>1, <2>4, <2>5, LocalStepOK DEF r
<1>2. ASSUME NEW s, s = [r EXCEPT !.pc = "requestSync"], task' = [task EXCEPT ![k] = s]
      PROVE  IInv' /\ HandedOver'
  <2>0. r.pc = "syncWait"
    BY <1>2 DEF SyncWait, pc
  <2>1. s \in TaskRec
    BY <1>b, <1>2, PlaceFacts DEF TaskRec
  <2>2. /\ s.pc = "requestSync" /\ s.cap = r.cap /\ s.wakeup = r.wakeup /\ s.at = r.at
        /\ s.on = r.on
        /\ s.then = r.then /\ s.i = r.i /\ s.held = r.held /\ s.cur = r.cur /\ s.sync = r.sync
        /\ s.prev = r.prev /\ s.old = r.old
    BY <1>b, <1>2 DEF TaskRec
  <2> HIDE DEF r
  <2>3. TaskInv(k, s)
    BY <1>a, <2>0, <2>2, ConstantFacts DEF TaskInv, KeepsCap, Gone, InC, Waiting, Inside, Loop, AtHome, Pushing,
       Exiting, Calling, TaskRec
  <2>4. LocalOK(k, r, s, Null)
    BY <1>a, <2>0, <2>2, <2>3, ConstantFacts DEF LocalOK, TaskInv, KeepsCap, Gone, OwnedOf, AtReturn, AtYield,
       Stopping, InC, FinalOf, Yielding, InForeign, BoundOf, ComingOf, Waiting, Inside, Loop,
       AtHome, Pushing, Exiting, Calling, TaskRec
  <2>5. LocalStep(k, s, Null, Null)
    BY <1>0, <1>2, <2>1, LocalGoto DEF SyncWait, capVars
  <2> QED
    BY <2>1, <2>4, <2>5, LocalStepOK DEF r
<1>3. ASSUME NEW s, s = [r EXCEPT !.pc = AfterSync(k)], task' = [task EXCEPT ![k] = s],
             pending_sync = "none", r.sync # "other", r.prev = "gc"
      PROVE  IInv' /\ HandedOver'
  <2>0. r.pc = "syncWait" /\ pending_sync = "none" /\ r.sync # "other" /\ r.prev = "gc"
    BY <1>3 DEF SyncWait, pc
  <2>p. AfterSync(k) \in Place
    BY AfterFacts
  <2>q. AfterSync(k) = AfterOf(k, r)
    BY AfterFacts
  <2>1. s \in TaskRec
    BY <1>b, <1>3, PlaceFacts, <2>p DEF TaskRec
  <2>2. /\ s.pc = AfterSync(k) /\ s.cap = r.cap /\ s.wakeup = r.wakeup /\ s.at = r.at /\ s.on = r.on
        /\ s.then = r.then /\ s.i = r.i /\ s.held = r.held /\ s.cur = r.cur /\ s.sync = r.sync
        /\ s.prev = r.prev /\ s.old = r.old
    BY <1>b, <1>3 DEF TaskRec
  <2> HIDE DEF r
  <2>3. TaskInv(k, s)
    BY <1>a, <2>0, <2>2, ConstantFacts, <2>q DEF AfterOf, TaskInv, KeepsCap, Gone, InC, Waiting, Inside, Loop, AtHome,
       Pushing,
       Exiting, Calling, TaskRec
  <2>4. LocalOK(k, r, s, Null)
    BY <1>a, <2>0, <2>2, <2>3, ConstantFacts, <2>q DEF AfterOf, LocalOK, TaskInv, KeepsCap, Gone, OwnedOf, AtReturn, AtYield,
       Stopping, InC, FinalOf, Yielding, InForeign, BoundOf, ComingOf, Waiting, Inside, Loop,
       AtHome, Pushing, Exiting, Calling, TaskRec, Calling
  <2>5. LocalStep(k, s, Null, Null)
    BY <1>0, <1>3, <2>1, LocalGoto DEF SyncWait, capVars
  <2> QED
    BY <2>1, <2>4, <2>5, LocalStepOK DEF r
<1> QED
  BY <1>b, <1>1, <1>2, <1>3 DEF SyncWait, pc, Goto

LEMMA PushGrabEndOK ==
    ASSUME IInv, HandedOver, NEW k \in Task, pc(k) = "grab", task[k].i = NCaps,
           task' = IF task[k].held = <<>> THEN [task EXCEPT ![k].cap = task[k].at, ![k].pc = "yield"] ELSE [task EXCEPT ![k].pc = "share"],
           UNCHANGED <<capVars, last_free_capability, pending_sync, tso, sched_state, scenario>>
    PROVE  IInv' /\ HandedOver'
<1>0. TypeOK
  BY DEF IInv
<1> DEFINE r == task[k]
<1>b. r \in TaskRec /\ task \in [Task -> TaskRec]
  BY <1>0, Types
<1>a. /\ r \in TaskRec /\ TaskInv(k, r) /\ FinalOf(k, r) /\ (k \in InCall => BoundOf(k, r, tso[k]))
      /\ \A d \in Cap : running_task[d] = k <=> d \in OwnedOf(r)
  BY OfTask
<1>1. ASSUME NEW s, s = [r EXCEPT !.cap = r.at, !.pc = "yield"], task' = [task EXCEPT ![k] = s],
             r.held = <<>>
      PROVE  IInv' /\ HandedOver'
  <2>0. r.pc = "grab" /\ r.held = <<>>
    BY <1>1 DEF pc
  <2>1. s \in TaskRec
    BY <1>b, <1>1, PlaceFacts DEF TaskRec
  <2>2. /\ s.pc = "yield" /\ s.cap = r.at /\ s.wakeup = r.wakeup /\ s.at = r.at /\ s.on = r.on
        /\ s.then = r.then /\ s.i = r.i /\ s.held = r.held /\ s.cur = r.cur /\ s.sync = r.sync
        /\ s.prev = r.prev /\ s.old = r.old
    BY <1>b, <1>1 DEF TaskRec
  <2> HIDE DEF r
  <2>3. TaskInv(k, s)
    BY <1>a, <2>0, <2>2, ConstantFacts, EmptyFacts DEF TaskInv, KeepsCap, Gone, InC, Waiting, Inside, Loop, AtHome,
       Pushing,
       Exiting, Calling, TaskRec
  <2>4. LocalOK(k, r, s, Null)
    BY <1>a, <2>0, <2>2, <2>3, ConstantFacts, EmptyFacts DEF LocalOK, TaskInv, KeepsCap, Gone, OwnedOf, AtReturn,
       AtYield,
       Stopping, InC, FinalOf, Yielding, InForeign, BoundOf, ComingOf, Waiting, Inside, Loop,
       AtHome, Pushing, Exiting, Calling, TaskRec
  <2>5. LocalStep(k, s, Null, Null)
    BY <1>0, <1>1, <2>1, LocalGoto DEF capVars
  <2> QED
    BY <2>1, <2>4, <2>5, LocalStepOK DEF r
<1>2. ASSUME NEW s, s = [r EXCEPT !.pc = "share"], task' = [task EXCEPT ![k] = s]
      PROVE  IInv' /\ HandedOver'
  <2>0. r.pc = "grab"
    BY <1>2 DEF pc
  <2>1. s \in TaskRec
    BY <1>b, <1>2, PlaceFacts DEF TaskRec
  <2>2. /\ s.pc = "share" /\ s.cap = r.cap /\ s.wakeup = r.wakeup /\ s.at = r.at /\ s.on = r.on
        /\ s.then = r.then /\ s.i = r.i /\ s.held = r.held /\ s.cur = r.cur /\ s.sync = r.sync
        /\ s.prev = r.prev /\ s.old = r.old
    BY <1>b, <1>2 DEF TaskRec
  <2> HIDE DEF r
  <2>3. TaskInv(k, s)
    BY <1>a, <2>0, <2>2, ConstantFacts DEF TaskInv, KeepsCap, Gone, InC, Waiting, Inside, Loop, AtHome, Pushing,
       Exiting, Calling, TaskRec
  <2>4. LocalOK(k, r, s, Null)
    BY <1>a, <2>0, <2>2, <2>3, ConstantFacts DEF LocalOK, TaskInv, KeepsCap, Gone, OwnedOf, AtReturn, AtYield,
       Stopping, InC, FinalOf, Yielding, InForeign, BoundOf, ComingOf, Waiting, Inside, Loop,
       AtHome, Pushing, Exiting, Calling, TaskRec
  <2>5. LocalStep(k, s, Null, Null)
    BY <1>0, <1>2, <2>1, LocalGoto DEF capVars
  <2> QED
    BY <2>1, <2>4, <2>5, LocalStepOK DEF r
<1> QED
  BY <1>b, <1>1, <1>2 DEF pc

LEMMA PushGrabSkipOK ==
    ASSUME IInv, HandedOver, NEW k \in Task, pc(k) = "grab", task[k].i < NCaps,
           task' = [task EXCEPT ![k].i = task[k].i + 1],
           UNCHANGED <<capVars, last_free_capability, pending_sync, tso, sched_state, scenario>>
    PROVE  IInv' /\ HandedOver'
<1>0. TypeOK
  BY DEF IInv
<1> DEFINE r == task[k]
<1>b. r \in TaskRec /\ task \in [Task -> TaskRec]
  BY <1>0, Types
<1>a. /\ r \in TaskRec /\ TaskInv(k, r) /\ FinalOf(k, r) /\ (k \in InCall => BoundOf(k, r, tso[k]))
      /\ \A d \in Cap : running_task[d] = k <=> d \in OwnedOf(r)
  BY OfTask
<1>1. ASSUME NEW s, s = [r EXCEPT !.i = r.i + 1], task' = [task EXCEPT ![k] = s]
      PROVE  IInv' /\ HandedOver'
  <2>0. r.pc = "grab" /\ r.i < NCaps
    BY <1>1 DEF pc
  <2>r. r.i + 1 \in 0..NCaps /\ r.i \in Cap
    BY <1>b, <2>0, ConstantFacts DEF TaskRec
  <2>1. s \in TaskRec
    BY <1>b, <1>1, PlaceFacts, <2>r DEF TaskRec
  <2>2. /\ s.pc = r.pc /\ s.cap = r.cap /\ s.wakeup = r.wakeup /\ s.at = r.at /\ s.on = r.on
        /\ s.then = r.then /\ s.i = r.i + 1 /\ s.held = r.held /\ s.cur = r.cur /\ s.sync = r.sync
        /\ s.prev = r.prev /\ s.old = r.old
    BY <1>b, <1>1 DEF TaskRec
  <2> HIDE DEF r
  <2>3. TaskInv(k, s)
    BY <1>a, <2>0, <2>2, ConstantFacts DEF TaskInv, KeepsCap, Gone, InC, Waiting, Inside, Loop, AtHome, Pushing,
       Exiting, Calling, TaskRec
  <2>4. LocalOK(k, r, s, Null)
    BY <1>a, <2>0, <2>2, <2>3, ConstantFacts DEF LocalOK, TaskInv, KeepsCap, Gone, OwnedOf, AtReturn, AtYield,
       Stopping, InC, FinalOf, Yielding, InForeign, BoundOf, ComingOf, Waiting, Inside, Loop,
       AtHome, Pushing, Exiting, Calling, TaskRec
  <2>5. LocalStep(k, s, Null, Null)
    BY <1>0, <1>1, <2>1, LocalGoto DEF capVars
  <2> QED
    BY <2>1, <2>4, <2>5, LocalStepOK DEF r
<1> QED
  BY <1>b, <1>1 DEF pc

LEMMA PushDropOK ==
    ASSUME IInv, HandedOver, NEW k \in Task, PushDrop(k), UNCHANGED <<sched_state, scenario>>
    PROVE  IInv' /\ HandedOver'
<1>0. TypeOK
  BY DEF IInv
<1> DEFINE r == task[k]
<1>b. r \in TaskRec /\ task \in [Task -> TaskRec]
  BY <1>0, Types
<1>a. /\ r \in TaskRec /\ TaskInv(k, r) /\ FinalOf(k, r) /\ (k \in InCall => BoundOf(k, r, tso[k]))
      /\ \A d \in Cap : running_task[d] = k <=> d \in OwnedOf(r)
  BY OfTask
<1>1. ASSUME NEW s, s = [r EXCEPT !.pc = "grab", !.i = r.i + 1],
             Release(r.i, FALSE, [task EXCEPT ![k] = s])
      PROVE  IInv' /\ HandedOver'
  <2>0. r.pc = "drop"
    BY <1>1 DEF PushDrop, pc
  <2>l. r.i < NCaps /\ r.i # r.at
    BY <1>a, <2>0 DEF TaskInv, KeepsCap
  <2>r. r.i + 1 \in 0..NCaps /\ r.i \in Cap
    BY <1>b, <2>l, ConstantFacts DEF TaskRec
  <2>c. r.i \in Cap /\ running_task[r.i] \in {k, Null}
    BY <1>a, <1>b, <2>0, ConstantFacts DEF TaskInv, KeepsCap, Gone, TaskRec, OwnedOf, Inside, Loop, AtHome, Pushing
  <2>h. r.i \notin ToSet(r.held)
    BY <1>a, <1>b, <2>0 DEF TaskInv, KeepsCap, Gone, ToSet, TaskRec
  <2>1. s \in TaskRec
    BY <1>b, <1>1, PlaceFacts, <2>r DEF TaskRec
  <2>2. /\ s.pc = "grab" /\ s.cap = r.cap /\ s.wakeup = r.wakeup /\ s.at = r.at /\ s.on = r.on
        /\ s.then = r.then /\ s.i = r.i + 1 /\ s.held = r.held /\ s.cur = r.cur /\ s.sync = r.sync
        /\ s.prev = r.prev /\ s.old = r.old
    BY <1>b, <1>1 DEF TaskRec
  <2> HIDE DEF r
  <2>3. TaskInv(k, s)
    BY <1>a, <2>0, <2>2, ConstantFacts, <2>h, <2>c DEF TaskInv, KeepsCap, Gone, InC, Waiting, Inside, Loop, AtHome,
       Pushing,
       Exiting, Calling, TaskRec
  <2>4. LocalOK(k, r, s, r.i)
    BY <1>a, <2>0, <2>2, <2>3, ConstantFacts, <2>h, <2>c DEF LocalOK, TaskInv, KeepsCap, Gone, OwnedOf, AtReturn,
       AtYield,
       Stopping, InC, FinalOf, Yielding, InForeign, BoundOf, ComingOf, Waiting, Inside, Loop,
       AtHome, Pushing, Exiting, Calling, TaskRec
  <2>5. \E w : LocalStep(k, s, w, r.i)
    BY <1>0, <1>a, <1>1, <2>0, <2>c, <2>1, <2>2, LocalRelease DEF PushDrop, Gone, capVars, r
  <2> QED
    BY <2>1, <2>4, <2>5, <2>0, <2>c, LocalStepOK DEF r
<1> QED
  <2>1. CASE Release(r.i, FALSE, [task EXCEPT ![k].pc = "grab", ![k].i = r.i + 1])
    <3>1. [task EXCEPT ![k].pc = "grab", ![k].i = r.i + 1] = [task EXCEPT ![k] = [r EXCEPT !.pc = "grab", !.i = r.i + 1]]
      BY <1>b
    <3> QED
      BY <2>1, <3>1, <1>1
  <2> QED
    BY <1>b, <2>1 DEF PushDrop, pc, Goto

LEMMA PushReleaseEndOK ==
    ASSUME IInv, HandedOver, NEW k \in Task, pc(k) = "relShared", task[k].held = <<>>,
           task' = [task EXCEPT ![k].cap = task[k].at, ![k].pc = "yield"],
           UNCHANGED <<capVars, last_free_capability, pending_sync, tso, sched_state, scenario>>
    PROVE  IInv' /\ HandedOver'
<1>0. TypeOK
  BY DEF IInv
<1> DEFINE r == task[k]
<1>b. r \in TaskRec /\ task \in [Task -> TaskRec]
  BY <1>0, Types
<1>a. /\ r \in TaskRec /\ TaskInv(k, r) /\ FinalOf(k, r) /\ (k \in InCall => BoundOf(k, r, tso[k]))
      /\ \A d \in Cap : running_task[d] = k <=> d \in OwnedOf(r)
  BY OfTask
<1>1. ASSUME NEW s, s = [r EXCEPT !.cap = r.at, !.pc = "yield"], task' = [task EXCEPT ![k] = s]
      PROVE  IInv' /\ HandedOver'
  <2>0. r.pc = "relShared" /\ r.held = <<>>
    BY <1>1 DEF pc
  <2>1. s \in TaskRec
    BY <1>b, <1>1, PlaceFacts DEF TaskRec
  <2>2. /\ s.pc = "yield" /\ s.cap = r.at /\ s.wakeup = r.wakeup /\ s.at = r.at /\ s.on = r.on
        /\ s.then = r.then /\ s.i = r.i /\ s.held = r.held /\ s.cur = r.cur /\ s.sync = r.sync
        /\ s.prev = r.prev /\ s.old = r.old
    BY <1>b, <1>1 DEF TaskRec
  <2> HIDE DEF r
  <2>3. TaskInv(k, s)
    BY <1>a, <2>0, <2>2, ConstantFacts, EmptyFacts DEF TaskInv, KeepsCap, Gone, InC, Waiting, Inside, Loop, AtHome,
       Pushing,
       Exiting, Calling, TaskRec
  <2>4. LocalOK(k, r, s, Null)
    BY <1>a, <2>0, <2>2, <2>3, ConstantFacts, EmptyFacts DEF LocalOK, TaskInv, KeepsCap, Gone, OwnedOf, AtReturn,
       AtYield,
       Stopping, InC, FinalOf, Yielding, InForeign, BoundOf, ComingOf, Waiting, Inside, Loop,
       AtHome, Pushing, Exiting, Calling, TaskRec
  <2>5. LocalStep(k, s, Null, Null)
    BY <1>0, <1>1, <2>1, LocalGoto DEF capVars
  <2> QED
    BY <2>1, <2>4, <2>5, LocalStepOK DEF r
<1> QED
  BY <1>b, <1>1 DEF pc

LEMMA PushReleaseNextOK ==
    ASSUME IInv, HandedOver, NEW k \in Task, pc(k) = "relShared", task[k].held # <<>>,
           Release(Head(task[k].held), TRUE, [task EXCEPT ![k].cap = Head(task[k].held), ![k].held = Tail(task[k].held)]),
           UNCHANGED <<returning_tasks, spare_workers, run_queue, inbox, pending_sync, tso,
                       sched_state, scenario>>
    PROVE  IInv' /\ HandedOver'
<1>0. TypeOK
  BY DEF IInv
<1> DEFINE r == task[k]
<1>b. r \in TaskRec /\ task \in [Task -> TaskRec]
  BY <1>0, Types
<1>a. /\ r \in TaskRec /\ TaskInv(k, r) /\ FinalOf(k, r) /\ (k \in InCall => BoundOf(k, r, tso[k]))
      /\ \A d \in Cap : running_task[d] = k <=> d \in OwnedOf(r)
  BY OfTask
<1>1. ASSUME NEW s, s = [r EXCEPT !.cap = Head(r.held), !.held = Tail(r.held)],
             Release(Head(r.held), TRUE, [task EXCEPT ![k] = s])
      PROVE  IInv' /\ HandedOver'
  <2>0. r.pc = "relShared" /\ r.held # <<>>
    BY <1>1 DEF pc
  <2>h. /\ Head(r.held) \in Cap /\ Tail(r.held) \in Seq(Cap) /\ In(r.held, Head(r.held))
        /\ Injective(Tail(r.held)) /\ \A y : In(Tail(r.held), y) <=> In(r.held, y) /\ y # Head(r.held)
    BY <1>a, <1>b, <2>0, TailFacts DEF TaskRec, TaskInv, KeepsCap, Gone, Pushing
  <2>t. /\ \A y : y \in ToSet(Tail(r.held)) <=> y \in ToSet(r.held) /\ y # Head(r.held)
        /\ r.at \notin ToSet(r.held) /\ Head(r.held) \in ToSet(r.held)
    BY <1>a, <2>0, <2>h, ToSetIn DEF TaskInv, KeepsCap, Gone, Pushing
  <2>c. Head(r.held) \in Cap /\ running_task[Head(r.held)] \in {k, Null}
    BY <1>a, <2>0, <2>h, <2>t DEF OwnedOf
  <2>1. s \in TaskRec
    BY <1>b, <1>1, PlaceFacts, <2>h DEF TaskRec
  <2>2. /\ s.pc = r.pc /\ s.cap = Head(r.held) /\ s.wakeup = r.wakeup /\ s.at = r.at /\ s.on = r.on
        /\ s.then = r.then /\ s.i = r.i /\ s.held = Tail(r.held) /\ s.cur = r.cur /\ s.sync = r.sync
        /\ s.prev = r.prev /\ s.old = r.old
    BY <1>b, <1>1 DEF TaskRec
  <2> HIDE DEF r
  <2>3. TaskInv(k, s)
    BY <1>a, <2>0, <2>2, ConstantFacts, <2>h, <2>c, <2>t DEF TaskInv, KeepsCap, Gone, InC, Waiting, Inside, Loop,
       AtHome, Pushing,
       Exiting, Calling, TaskRec
  <2>4. LocalOK(k, r, s, Head(r.held))
    BY <1>a, <2>0, <2>2, <2>3, ConstantFacts, <2>h, <2>c, <2>t DEF LocalOK, TaskInv, KeepsCap, Gone, OwnedOf,
       AtReturn, AtYield,
       Stopping, InC, FinalOf, Yielding, InForeign, BoundOf, ComingOf, Waiting, Inside, Loop,
       AtHome, Pushing, Exiting, Calling, TaskRec
  <2>5. \E w : LocalStep(k, s, w, Head(r.held))
    BY <1>0, <1>a, <1>1, <2>0, <2>c, <2>1, <2>2, LocalRelease DEF Gone, capVars, r
  <2> QED
    BY <2>1, <2>4, <2>5, <2>0, <2>c, LocalStepOK DEF r
<1> QED
  <2>1. CASE Release(Head(r.held), TRUE, [task EXCEPT ![k].cap = Head(r.held), ![k].held = Tail(r.held)])
    <3>1. [task EXCEPT ![k].cap = Head(r.held), ![k].held = Tail(r.held)] = [task EXCEPT ![k] = [r EXCEPT !.cap = Head(r.held), !.held = Tail(r.held)]]
      BY <1>b
    <3> QED
      BY <2>1, <3>1, <1>1
  <2> QED
    BY <1>b, <2>1 DEF pc

LEMMA UnlockOK ==
    ASSUME IInv, HandedOver, NEW k \in Task, Unlock(k), UNCHANGED <<sched_state, scenario>>
    PROVE  IInv' /\ HandedOver'
<1>0. TypeOK
  BY DEF IInv
<1> DEFINE r == task[k]
<1>b. r \in TaskRec /\ task \in [Task -> TaskRec]
  BY <1>0, Types
<1>a. /\ r \in TaskRec /\ TaskInv(k, r) /\ FinalOf(k, r) /\ (k \in InCall => BoundOf(k, r, tso[k]))
      /\ \A d \in Cap : running_task[d] = k <=> d \in OwnedOf(r)
  BY OfTask
<1>1. ASSUME NEW s, s = [r EXCEPT !.pc = "done", !.at = Null],
             Release(r.at, FALSE, [task EXCEPT ![k] = s])
      PROVE  IInv' /\ HandedOver'
  <2>0. r.pc = "unlock"
    BY <1>1 DEF Unlock, pc
  <2>c. r.at \in Cap /\ running_task[r.at] \in {k, Null}
    BY <1>a, <1>b, <2>0, ConstantFacts DEF TaskInv, KeepsCap, Gone, TaskRec, OwnedOf, Inside, Loop, AtHome, Pushing
  <2>1. s \in TaskRec
    BY <1>b, <1>1, PlaceFacts DEF TaskRec
  <2>2. /\ s.pc = "done" /\ s.cap = r.cap /\ s.wakeup = r.wakeup /\ s.at = Null /\ s.on = r.on
        /\ s.then = r.then /\ s.i = r.i /\ s.held = r.held /\ s.cur = r.cur /\ s.sync = r.sync
        /\ s.prev = r.prev /\ s.old = r.old
    BY <1>b, <1>1 DEF TaskRec
  <2> HIDE DEF r
  <2>3. TaskInv(k, s)
    BY <1>a, <2>0, <2>2, ConstantFacts, <2>c DEF TaskInv, KeepsCap, Gone, InC, Waiting, Inside, Loop, AtHome,
       Pushing,
       Exiting, Calling, TaskRec
  <2>4. LocalOK(k, r, s, r.at)
    BY <1>a, <2>0, <2>2, <2>3, ConstantFacts, <2>c DEF LocalOK, TaskInv, KeepsCap, Gone, OwnedOf, AtReturn, AtYield,
       Stopping, InC, FinalOf, Yielding, InForeign, BoundOf, ComingOf, Waiting, Inside, Loop,
       AtHome, Pushing, Exiting, Calling, TaskRec
  <2>5. \E w : LocalStep(k, s, w, r.at)
    BY <1>0, <1>a, <1>1, <2>0, <2>c, <2>1, <2>2, LocalRelease DEF Unlock, Gone, capVars, r
  <2> QED
    BY <2>1, <2>4, <2>5, <2>0, <2>c, LocalStepOK DEF r
<1> QED
  <2>1. CASE Release(r.at, FALSE, [task EXCEPT ![k].pc = "done", ![k].at = Null])
    <3>1. [task EXCEPT ![k].pc = "done", ![k].at = Null] = [task EXCEPT ![k] = [r EXCEPT !.pc = "done", !.at = Null]]
      BY <1>b
    <3> QED
      BY <2>1, <3>1, <1>1
  <2> QED
    BY <1>b, <2>1 DEF Unlock, pc, Goto

LEMMA WorkerQuitOK ==
    ASSUME IInv, HandedOver, NEW k \in Task, WorkerQuit(k), UNCHANGED <<scenario>>
    PROVE  IInv' /\ HandedOver'
<1>0. TypeOK
  BY DEF IInv
<1> DEFINE r == task[k]
<1>b. r \in TaskRec /\ task \in [Task -> TaskRec]
  BY <1>0, Types
<1>a. /\ r \in TaskRec /\ TaskInv(k, r) /\ FinalOf(k, r) /\ (k \in InCall => BoundOf(k, r, tso[k]))
      /\ \A d \in Cap : running_task[d] = k <=> d \in OwnedOf(r)
  BY OfTask
<1>1. ASSUME NEW s, s = [r EXCEPT !.pc = "stopped", !.cap = Null],
             Release(r.at, FALSE, [task EXCEPT ![k] = s])
      PROVE  IInv' /\ HandedOver'
  <2>0. r.pc = "schedule" /\ k \notin InCall
    BY <1>1 DEF WorkerQuit, pc, Interrupted, isBoundTask
  <2>c. r.at \in Cap /\ running_task[r.at] \in {k, Null}
    BY <1>a, <1>b, <2>0, ConstantFacts DEF TaskInv, KeepsCap, Gone, TaskRec, OwnedOf, Inside, Loop, AtHome, Pushing
  <2>1. s \in TaskRec
    BY <1>b, <1>1, PlaceFacts DEF TaskRec
  <2>2. /\ s.pc = "stopped" /\ s.cap = Null /\ s.wakeup = r.wakeup /\ s.at = r.at /\ s.on = r.on
        /\ s.then = r.then /\ s.i = r.i /\ s.held = r.held /\ s.cur = r.cur /\ s.sync = r.sync
        /\ s.prev = r.prev /\ s.old = r.old
    BY <1>b, <1>1 DEF TaskRec
  <2> HIDE DEF r
  <2>3. TaskInv(k, s)
    BY <1>a, <2>0, <2>2, ConstantFacts, <2>c DEF TaskInv, KeepsCap, Gone, InC, Waiting, Inside, Loop, AtHome,
       Pushing,
       Exiting, Calling, TaskRec
  <2>4. LocalOK(k, r, s, r.at)
    BY <1>a, <2>0, <2>2, <2>3, ConstantFacts, <2>c DEF LocalOK, TaskInv, KeepsCap, Gone, OwnedOf, AtReturn, AtYield,
       Stopping, InC, FinalOf, Yielding, InForeign, BoundOf, ComingOf, Waiting, Inside, Loop,
       AtHome, Pushing, Exiting, Calling, TaskRec
  <2>5. \E w : LocalStep(k, s, w, r.at)
    BY <1>0, <1>a, <1>1, <2>0, <2>c, <2>1, <2>2, LocalRelease DEF WorkerQuit, Gone, capVars, r
  <2> QED
    BY <2>1, <2>4, <2>5, <2>0, <2>c, LocalStepOK DEF r
<1> QED
  <2>1. CASE Release(r.at, FALSE, [task EXCEPT ![k].pc = "stopped", ![k].cap = Null])
    <3>1. [task EXCEPT ![k].pc = "stopped", ![k].cap = Null] = [task EXCEPT ![k] = [r EXCEPT !.pc = "stopped", !.cap = Null]]
      BY <1>b
    <3> QED
      BY <2>1, <3>1, <1>1
  <2> QED
    BY <1>b, <2>1 DEF WorkerQuit, pc, Goto

LEMMA ExitReleaseOK ==
    ASSUME IInv, HandedOver, NEW k \in Task, ExitRelease(k), UNCHANGED <<scenario>>
    PROVE  IInv' /\ HandedOver'
<1>0. TypeOK
  BY DEF IInv
<1> DEFINE r == task[k]
<1>b. r \in TaskRec /\ task \in [Task -> TaskRec]
  BY <1>0, Types
<1>a. /\ r \in TaskRec /\ TaskInv(k, r) /\ FinalOf(k, r) /\ (k \in InCall => BoundOf(k, r, tso[k]))
      /\ \A d \in Cap : running_task[d] = k <=> d \in OwnedOf(r)
  BY OfTask
<1>1. ASSUME NEW s, s = [r EXCEPT !.pc = "exitSet", !.at = Null],
             Release(r.at, FALSE, [task EXCEPT ![k] = s])
      PROVE  IInv' /\ HandedOver'
  <2>0. r.pc = "exitRelease"
    BY <1>1 DEF ExitRelease, pc
  <2>c. r.at \in Cap /\ running_task[r.at] \in {k, Null}
    BY <1>a, <1>b, <2>0, ConstantFacts DEF TaskInv, KeepsCap, Gone, TaskRec, OwnedOf, Inside, Loop, AtHome, Pushing
  <2>1. s \in TaskRec
    BY <1>b, <1>1, PlaceFacts DEF TaskRec
  <2>2. /\ s.pc = "exitSet" /\ s.cap = r.cap /\ s.wakeup = r.wakeup /\ s.at = Null /\ s.on = r.on
        /\ s.then = r.then /\ s.i = r.i /\ s.held = r.held /\ s.cur = r.cur /\ s.sync = r.sync
        /\ s.prev = r.prev /\ s.old = r.old
    BY <1>b, <1>1 DEF TaskRec
  <2> HIDE DEF r
  <2>3. TaskInv(k, s)
    BY <1>a, <2>0, <2>2, ConstantFacts, <2>c DEF TaskInv, KeepsCap, Gone, InC, Waiting, Inside, Loop, AtHome,
       Pushing,
       Exiting, Calling, TaskRec
  <2>4. LocalOK(k, r, s, r.at)
    BY <1>a, <2>0, <2>2, <2>3, ConstantFacts, <2>c DEF LocalOK, TaskInv, KeepsCap, Gone, OwnedOf, AtReturn, AtYield,
       Stopping, InC, FinalOf, Yielding, InForeign, BoundOf, ComingOf, Waiting, Inside, Loop,
       AtHome, Pushing, Exiting, Calling, TaskRec
  <2>5. \E w : LocalStep(k, s, w, r.at)
    BY <1>0, <1>a, <1>1, <2>0, <2>c, <2>1, <2>2, LocalRelease DEF ExitRelease, Gone, capVars, r
  <2> QED
    BY <2>1, <2>4, <2>5, <2>0, <2>c, LocalStepOK DEF r
<1> QED
  <2>1. CASE Release(r.at, FALSE, [task EXCEPT ![k].pc = "exitSet", ![k].at = Null])
    <3>1. [task EXCEPT ![k].pc = "exitSet", ![k].at = Null] = [task EXCEPT ![k] = [r EXCEPT !.pc = "exitSet", !.at = Null]]
      BY <1>b
    <3> QED
      BY <2>1, <3>1, <1>1
  <2> QED
    BY <1>b, <2>1 DEF ExitRelease, pc, Goto

LEMMA ReleaseAllOK ==
    ASSUME IInv, HandedOver, NEW k \in Task, ReleaseAll(k), UNCHANGED <<sched_state, scenario>>
    PROVE  IInv' /\ HandedOver'
<1>0. TypeOK
  BY DEF IInv
<1> DEFINE r == task[k]
<1>b. r \in TaskRec /\ task \in [Task -> TaskRec]
  BY <1>0, Types
<1>a. /\ r \in TaskRec /\ TaskInv(k, r) /\ FinalOf(k, r) /\ (k \in InCall => BoundOf(k, r, tso[k]))
      /\ \A d \in Cap : running_task[d] = k <=> d \in OwnedOf(r)
  BY OfTask
<1>1. ASSUME NEW s, s = [r EXCEPT !.cap = r.at, !.pc = AfterSync(k)],
             task' = [task EXCEPT ![k] = s], r.i = NCaps,
             UNCHANGED <<running_task, last_free_capability>>
      PROVE  IInv' /\ HandedOver'
  <2>0. r.pc = "releaseAll" /\ r.i = NCaps
    BY <1>1 DEF ReleaseAll, pc
  <2>p. AfterSync(k) \in Place
    BY AfterFacts
  <2>q. AfterSync(k) = AfterOf(k, r)
    BY AfterFacts
  <2>1. s \in TaskRec
    BY <1>b, <1>1, PlaceFacts, <2>p DEF TaskRec
  <2>2. /\ s.pc = AfterSync(k) /\ s.cap = r.at /\ s.wakeup = r.wakeup /\ s.at = r.at /\ s.on = r.on
        /\ s.then = r.then /\ s.i = r.i /\ s.held = r.held /\ s.cur = r.cur /\ s.sync = r.sync
        /\ s.prev = r.prev /\ s.old = r.old
    BY <1>b, <1>1 DEF TaskRec
  <2> HIDE DEF r
  <2>3. TaskInv(k, s)
    BY <1>a, <2>0, <2>2, ConstantFacts, <2>q DEF AfterOf, TaskInv, KeepsCap, Gone, InC, Waiting, Inside, Loop, AtHome,
       Pushing,
       Exiting, Calling, TaskRec
  <2>4. LocalOK(k, r, s, Null)
    BY <1>a, <2>0, <2>2, <2>3, ConstantFacts, <2>q DEF AfterOf, LocalOK, TaskInv, KeepsCap, Gone, OwnedOf, AtReturn, AtYield,
       Stopping, InC, FinalOf, Yielding, InForeign, BoundOf, ComingOf, Waiting, Inside, Loop,
       AtHome, Pushing, Exiting, Calling, TaskRec
  <2>5. LocalStep(k, s, Null, Null)
    BY <1>0, <1>1, <2>1, LocalGoto DEF ReleaseAll, capVars
  <2> QED
    BY <2>1, <2>4, <2>5, LocalStepOK DEF r
<1>2. ASSUME NEW s, s = [r EXCEPT !.i = r.i + 1], task' = [task EXCEPT ![k] = s], r.i < NCaps,
             r.i = r.at, ~forked(k), UNCHANGED <<running_task, last_free_capability>>
      PROVE  IInv' /\ HandedOver'
  <2>0. r.pc = "releaseAll" /\ r.i < NCaps /\ r.i = r.at /\ r.sync # "other"
    BY <1>2 DEF ReleaseAll, pc, forked
  <2>r. r.i + 1 \in 0..NCaps /\ r.i \in Cap
    BY <1>b, <2>0, ConstantFacts DEF TaskRec
  <2>1. s \in TaskRec
    BY <1>b, <1>2, PlaceFacts, <2>r DEF TaskRec
  <2>2. /\ s.pc = r.pc /\ s.cap = r.cap /\ s.wakeup = r.wakeup /\ s.at = r.at /\ s.on = r.on
        /\ s.then = r.then /\ s.i = r.i + 1 /\ s.held = r.held /\ s.cur = r.cur /\ s.sync = r.sync
        /\ s.prev = r.prev /\ s.old = r.old
    BY <1>b, <1>2 DEF TaskRec
  <2> HIDE DEF r
  <2>3. TaskInv(k, s)
    BY <1>a, <2>0, <2>2, ConstantFacts DEF TaskInv, KeepsCap, Gone, InC, Waiting, Inside, Loop, AtHome, Pushing,
       Exiting, Calling, TaskRec
  <2>4. LocalOK(k, r, s, Null)
    BY <1>a, <2>0, <2>2, <2>3, ConstantFacts DEF LocalOK, TaskInv, KeepsCap, Gone, OwnedOf, AtReturn, AtYield,
       Stopping, InC, FinalOf, Yielding, InForeign, BoundOf, ComingOf, Waiting, Inside, Loop,
       AtHome, Pushing, Exiting, Calling, TaskRec
  <2>5. LocalStep(k, s, Null, Null)
    BY <1>0, <1>2, <2>1, LocalGoto DEF ReleaseAll, capVars
  <2> QED
    BY <2>1, <2>4, <2>5, LocalStepOK DEF r
<1>3. ASSUME NEW s, s = [r EXCEPT !.cap = (IF forked(k) THEN r.cap ELSE r.i), !.i = r.i + 1],
             Release(r.i, FALSE, [task EXCEPT ![k] = s]), r.i < NCaps, r.i # r.at \/ forked(k)
      PROVE  IInv' /\ HandedOver'
  <2>0. r.pc = "releaseAll" /\ r.i < NCaps /\ (r.i # r.at \/ r.sync = "other")
    BY <1>3 DEF ReleaseAll, pc, forked
  <2>r. r.i + 1 \in 0..NCaps /\ r.i \in Cap
    BY <1>b, <2>0, ConstantFacts DEF TaskRec
  <2>c. r.i \in Cap /\ running_task[r.i] \in {k, Null}
    BY <1>a, <2>0, <2>r, ConstantFacts DEF OwnedOf
  <2>1. s \in TaskRec
    BY <1>b, <1>3, PlaceFacts, <2>r DEF TaskRec
  <2>2. /\ s.pc = r.pc /\ s.cap = (IF forked(k) THEN r.cap ELSE r.i) /\ s.wakeup = r.wakeup /\ s.at = r.at /\ s.on = r.on
        /\ s.then = r.then /\ s.i = r.i + 1 /\ s.held = r.held /\ s.cur = r.cur /\ s.sync = r.sync
        /\ s.prev = r.prev /\ s.old = r.old
    BY <1>b, <1>3 DEF TaskRec
  <2> HIDE DEF r
  <2>3. TaskInv(k, s)
    BY <1>a, <2>0, <2>2, ConstantFacts, <2>r, <2>c DEF TaskInv, KeepsCap, Gone, InC, Waiting, Inside, Loop, AtHome,
       Pushing,
       Exiting, Calling, TaskRec
  <2>4. LocalOK(k, r, s, r.i)
    BY <1>a, <2>0, <2>2, <2>3, ConstantFacts, <2>r, <2>c DEF LocalOK, TaskInv, KeepsCap, Gone, OwnedOf, AtReturn,
       AtYield,
       Stopping, InC, FinalOf, Yielding, InForeign, BoundOf, ComingOf, Waiting, Inside, Loop,
       AtHome, Pushing, Exiting, Calling, TaskRec
  <2>5. \E w : LocalStep(k, s, w, r.i)
    BY <1>0, <1>a, <1>3, <2>0, <2>c, <2>1, <2>2, LocalRelease DEF ReleaseAll, Gone, capVars, r
  <2> QED
    BY <2>1, <2>4, <2>5, <2>0, <2>c, LocalStepOK DEF r
<1> QED
  <2>1. CASE r.i = NCaps /\ UNCHANGED <<running_task, last_free_capability>> /\ task' = [task EXCEPT ![k].cap = r.at, ![k].pc = AfterSync(k)]
    <3>1. task' = [task EXCEPT ![k] = [r EXCEPT !.cap = r.at, !.pc = AfterSync(k)]]
      BY <1>b, <2>1
    <3> QED
      BY <2>1, <3>1, <1>1
  <2>2. CASE r.i < NCaps /\ r.i = r.at /\ ~forked(k) /\ UNCHANGED <<running_task,
                                                                    last_free_capability>> /\ task' = [task EXCEPT ![k].i = r.i + 1]
    <3>1. task' = [task EXCEPT ![k] = [r EXCEPT !.i = r.i + 1]]
      BY <1>b, <2>2
    <3> QED
      BY <2>2, <3>1, <1>2
  <2>3. CASE r.i < NCaps /\ (r.i # r.at \/ forked(k)) /\ Release(r.i, FALSE, [task EXCEPT ![k].cap = (IF forked(k) THEN r.cap ELSE r.i), ![k].i = r.i + 1])
    <3>1. [task EXCEPT ![k].cap = (IF forked(k) THEN r.cap ELSE r.i), ![k].i = r.i + 1] = [task EXCEPT ![k] = [r EXCEPT !.cap = (IF forked(k) THEN r.cap ELSE r.i), !.i = r.i + 1]]
      BY <1>b
    <3> QED
      BY <2>3, <3>1, <1>3
  <2> QED
    BY <1>b, <2>1, <2>2, <2>3 DEF ReleaseAll, pc, Goto

LEMMA FreeCapFacts ==
    ASSUME TypeOK
    PROVE  FreeCap \in Cap /\ LastCap \subseteq Cap
<1> DEFINE free == {c \in Cap : running_task[c] = Null}
<1>1. ASSUME last_free_capability \in free \/ free = {} PROVE FreeCap \in Cap
  BY <1>1, Types DEF FreeCap
<1>2. ASSUME ~(last_free_capability \in free \/ free = {}) PROVE FreeCap \in Cap
  <2>1. free \in SUBSET Nat /\ free # {}
    BY <1>2, ConstantFacts
  <2>2. \E c \in free : \A d \in free : c <= d
    BY <2>1, LeastMember
  <2>3. FreeCap = CHOOSE c \in free : \A d \in free : c <= d
    BY <1>2 DEF FreeCap
  <2> QED
    BY <2>2, <2>3
<1>3. scenario.last \subseteq Cap
  <2>1. scenario \in Scenario
    BY Types, ScenarioAssumption
  <2> QED
    BY <2>1 DEF Scenario
<1> QED
  BY <1>1, <1>2, <1>3 DEF LastCap

LEMMA CallInOK ==
    ASSUME IInv, HandedOver, NEW k \in Task, NEW type \in {"none", "gc", "other"}, CallIn(k, type),
           UNCHANGED <<sched_state, scenario>>
    PROVE  IInv' /\ HandedOver'
<1>0. TypeOK
  BY DEF IInv
<1> DEFINE r == task[k]
<1>b. r \in TaskRec /\ task \in [Task -> TaskRec]
  BY <1>0, Types
<1>a. /\ r \in TaskRec /\ TaskInv(k, r) /\ FinalOf(k, r) /\ (k \in InCall => BoundOf(k, r, tso[k]))
      /\ \A d \in Cap : running_task[d] = k <=> d \in OwnedOf(r)
  BY OfTask
<1>1. ASSUME NEW c \in Cap, NEW th, th \in {"bind", "doGC", "requestSync"},
             type = "none" => th = "bind", type = "gc" => th = "doGC", type = "other" => th = "requestSync",
             NEW s, s = [r EXCEPT !.pc = "return", !.cap = c, !.on = c, !.sync = type, !.then = th], task' = [task EXCEPT ![k] = s]
      PROVE  IInv' /\ HandedOver'
  <2>0. /\ r.pc = "none" /\ r.cur = Null /\ NoExit /\ r.i \in 0..NCaps
        /\ \/ k \in InCall /\ type = "none" /\ th = "bind" /\ tso[k].st = "new"
           \/ k \in Syncer /\ type \in {"gc", "other"} /\ th \in {"doGC", "requestSync"} /\ k \notin InCall
    BY <1>1, <1>a, <1>b, ConstantFacts DEF CallIn, pc, TaskInv, KeepsCap, Gone, InC, Waiting, TaskRec
  <2>1. s \in TaskRec
    BY <1>b, <1>1, PlaceFacts, <2>0 DEF TaskRec
  <2>2. /\ s.pc = "return" /\ s.cap = c /\ s.wakeup = r.wakeup /\ s.at = r.at /\ s.on = c
        /\ s.then = th /\ s.i = r.i /\ s.held = r.held /\ s.cur = r.cur /\ s.sync = type
        /\ s.prev = r.prev /\ s.old = r.old
    BY <1>b, <1>1 DEF TaskRec
  <2> HIDE DEF r
  <2>3. TaskInv(k, s)
    BY <1>a, <2>0, <2>2, ConstantFacts, <1>1 DEF TaskInv, KeepsCap, Gone, InC, Waiting, Inside, Loop, AtHome,
       Pushing,
       Exiting, Calling, TaskRec
  <2>4. LocalOK(k, r, s, Null)
    BY <1>a, <2>0, <2>2, <2>3, ConstantFacts, <1>1 DEF LocalOK, TaskInv, KeepsCap, Gone, OwnedOf, AtReturn, AtYield,
       Stopping, InC, FinalOf, Yielding, InForeign, BoundOf, ComingOf, Waiting, Inside, Loop,
       AtHome, Pushing, Exiting, Calling, TaskRec
  <2>5. LocalStep(k, s, Null, Null)
    BY <1>0, <1>1, <2>1, LocalGoto DEF CallIn, capVars
  <2> QED
    BY <2>1, <2>4, <2>5, LocalStepOK DEF r
<1> QED
  <2>1. PICK th \in {"bind", "doGC", "requestSync"} :
          /\ type = "none" => th = "bind"
          /\ type = "gc" => th = "doGC"
          /\ type = "other" => th = "requestSync"
    OBVIOUS
  <2>2. PICK c \in Cap :
          task' = [task EXCEPT ![k].pc = "return", ![k].cap = c, ![k].on = c, ![k].sync = type,
                               ![k].then = th]
    BY <1>0, <2>1, FreeCapFacts DEF CallIn
  <2>3. task' = [task EXCEPT ![k] = [r EXCEPT !.pc = "return", !.cap = c, !.on = c, !.sync = type,
                                     !.then = th]]
    BY <1>b, <2>2
  <2> QED
    BY <1>1, <2>1, <2>3

LEMMA WorkerExitOK ==
    ASSUME IInv, HandedOver, NEW k \in Task, WorkerExit(k), UNCHANGED <<sched_state, scenario>>
    PROVE  IInv' /\ HandedOver'
<1>0. TypeOK
  BY DEF IInv
<1> DEFINE r == task[k]
<1>b. r \in TaskRec /\ task \in [Task -> TaskRec]
  BY <1>0, Types
<1>a. /\ r \in TaskRec /\ TaskInv(k, r) /\ FinalOf(k, r) /\ (k \in InCall => BoundOf(k, r, tso[k]))
      /\ \A d \in Cap : running_task[d] = k <=> d \in OwnedOf(r)
  BY OfTask
<1>1. ASSUME NEW s, s = newTask("none", Null), task' = [task EXCEPT ![k] = s]
      PROVE  IInv' /\ HandedOver'
  <2>0. r.pc = "stopped" /\ k \in Worker
    BY <1>1 DEF WorkerExit, pc
  <2>1. s \in TaskRec
    BY <1>1, PlaceFacts, ConstantFacts DEF TaskRec, newTask
  <2>2. /\ s.pc = "none" /\ s.cap = Null /\ s.wakeup = FALSE /\ s.at = Null /\ s.on = Null
        /\ s.then = "none" /\ s.i = 0 /\ s.held = <<>> /\ s.cur = Null /\ s.sync = "none"
        /\ s.prev = "none"
    BY <1>1 DEF newTask
  <2> HIDE DEF r
  <2>3. TaskInv(k, s)
    BY <1>a, <2>0, <2>2, ConstantFacts DEF TaskInv, KeepsCap, Gone, InC, Waiting, Inside, Loop, AtHome, Pushing,
       Exiting, Calling, TaskRec
  <2>4. LocalOK(k, r, s, Null)
    BY <1>a, <2>0, <2>2, <2>3, ConstantFacts DEF LocalOK, TaskInv, KeepsCap, Gone, OwnedOf, AtReturn, AtYield,
       Stopping, InC, FinalOf, Yielding, InForeign, BoundOf, ComingOf, Waiting, Inside, Loop,
       AtHome, Pushing, Exiting, Calling, TaskRec
  <2>5. LocalStep(k, s, Null, Null)
    BY <1>0, <1>1, <2>1, LocalGoto DEF WorkerExit, capVars
  <2> QED
    BY <2>1, <2>4, <2>5, LocalStepOK DEF r
<1> QED
  BY <1>b, <1>1 DEF WorkerExit, pc, Goto

LEMMA ShutdownReleaseOK ==
    ASSUME IInv, HandedOver, NEW k \in Task, pc(k) = "shut", task[k].i < NCaps,
           running_task[task[k].i] = Null,
           Release(task[k].i, FALSE, [task EXCEPT ![k].cap = task[k].i]),
           UNCHANGED <<returning_tasks, spare_workers, run_queue, inbox, pending_sync, tso,
                       sched_state, scenario>>
    PROVE  IInv' /\ HandedOver'
<1>0. TypeOK
  BY DEF IInv
<1> DEFINE r == task[k]
<1>b. r \in TaskRec /\ task \in [Task -> TaskRec]
  BY <1>0, Types
<1>a. /\ r \in TaskRec /\ TaskInv(k, r) /\ FinalOf(k, r) /\ (k \in InCall => BoundOf(k, r, tso[k]))
      /\ \A d \in Cap : running_task[d] = k <=> d \in OwnedOf(r)
  BY OfTask
<1>1. ASSUME NEW s, s = [r EXCEPT !.cap = r.i], Release(r.i, FALSE, [task EXCEPT ![k] = s])
      PROVE  IInv' /\ HandedOver'
  <2>0. r.pc = "shut" /\ r.i < NCaps /\ running_task[r.i] = Null
    BY <1>1 DEF pc
  <2>r. r.i + 1 \in 0..NCaps /\ r.i \in Cap
    BY <1>b, <2>0, ConstantFacts DEF TaskRec
  <2>c. r.i \in Cap /\ running_task[r.i] \in {k, Null}
    BY <2>0, <2>r
  <2>1. s \in TaskRec
    BY <1>b, <1>1, PlaceFacts, <2>r DEF TaskRec
  <2>2. /\ s.pc = r.pc /\ s.cap = r.i /\ s.wakeup = r.wakeup /\ s.at = r.at /\ s.on = r.on
        /\ s.then = r.then /\ s.i = r.i /\ s.held = r.held /\ s.cur = r.cur /\ s.sync = r.sync
        /\ s.prev = r.prev /\ s.old = r.old
    BY <1>b, <1>1 DEF TaskRec
  <2> HIDE DEF r
  <2>3. TaskInv(k, s)
    BY <1>a, <2>0, <2>2, ConstantFacts, <2>c DEF TaskInv, KeepsCap, Gone, InC, Waiting, Inside, Loop, AtHome,
       Pushing,
       Exiting, Calling, TaskRec
  <2>4. LocalOK(k, r, s, r.i)
    BY <1>a, <2>0, <2>2, <2>3, ConstantFacts, <2>c DEF LocalOK, TaskInv, KeepsCap, Gone, OwnedOf, AtReturn, AtYield,
       Stopping, InC, FinalOf, Yielding, InForeign, BoundOf, ComingOf, Waiting, Inside, Loop,
       AtHome, Pushing, Exiting, Calling, TaskRec
  <2>5. \E w : LocalStep(k, s, w, r.i)
    BY <1>0, <1>a, <1>1, <2>0, <2>c, <2>1, <2>2, LocalRelease DEF Gone, capVars, r
  <2> QED
    BY <2>1, <2>4, <2>5, <2>0, <2>c, LocalStepOK DEF r
<1> QED
  BY <1>b, <1>1 DEF pc, Goto

LEMMA ReturnCheckBusyOK ==
    ASSUME IInv, HandedOver, NEW k \in Task, pc(k) = "returnCheck", running_task[task[k].on] # Null,
           Goto(k, "returnSleep"),
           UNCHANGED <<capVars, last_free_capability, pending_sync, tso, sched_state, scenario>>
    PROVE  IInv' /\ HandedOver'
<1>0. TypeOK
  BY DEF IInv
<1> DEFINE r == task[k]
<1>b. r \in TaskRec /\ task \in [Task -> TaskRec]
  BY <1>0, Types
<1>a. /\ r \in TaskRec /\ TaskInv(k, r) /\ FinalOf(k, r) /\ (k \in InCall => BoundOf(k, r, tso[k]))
      /\ \A d \in Cap : running_task[d] = k <=> d \in OwnedOf(r)
  BY OfTask
<1>1. ASSUME NEW s, s = [r EXCEPT !.pc = "returnSleep"], task' = [task EXCEPT ![k] = s]
      PROVE  IInv' /\ HandedOver'
  <2>0. r.pc = "returnCheck" /\ running_task[r.on] # Null
    BY <1>1 DEF pc
  <2>1. s \in TaskRec
    BY <1>b, <1>1, PlaceFacts DEF TaskRec
  <2>2. /\ s.pc = "returnSleep" /\ s.cap = r.cap /\ s.wakeup = r.wakeup /\ s.at = r.at
        /\ s.on = r.on
        /\ s.then = r.then /\ s.i = r.i /\ s.held = r.held /\ s.cur = r.cur /\ s.sync = r.sync
        /\ s.prev = r.prev /\ s.old = r.old
    BY <1>b, <1>1 DEF TaskRec
  <2> HIDE DEF r
  <2>3. TaskInv(k, s)
    BY <1>a, <2>0, <2>2, ConstantFacts DEF TaskInv, KeepsCap, Gone, InC, Waiting, Inside, Loop, AtHome, Pushing,
       Exiting, Calling, TaskRec
  <2>4. LocalOK(k, r, s, Null)
    BY <1>a, <2>0, <2>2, <2>3, ConstantFacts DEF LocalOK, TaskInv, KeepsCap, Gone, OwnedOf, AtReturn, AtYield,
       Stopping, InC, FinalOf, Yielding, InForeign, BoundOf, ComingOf, Waiting, Inside, Loop,
       AtHome, Pushing, Exiting, Calling, TaskRec
  <2>5. LocalStep(k, s, Null, Null)
    BY <1>0, <1>1, <2>1, LocalGoto DEF capVars
  <2> QED
    BY <2>1, <2>4, <2>5, LocalStepOK DEF r
<1> QED
  BY <1>b, <1>1 DEF pc, Goto

LEMMA YieldCheckBusyOK ==
    ASSUME IInv, HandedOver, NEW k \in Task, pc(k) = "check",
           running_task[task[k].on] # Null \/ task[k].cap # task[k].on, Goto(k, "sleep"),
           UNCHANGED <<capVars, last_free_capability, pending_sync, tso, sched_state, scenario>>
    PROVE  IInv' /\ HandedOver'
<1>0. TypeOK
  BY DEF IInv
<1> DEFINE r == task[k]
<1>b. r \in TaskRec /\ task \in [Task -> TaskRec]
  BY <1>0, Types
<1>a. /\ r \in TaskRec /\ TaskInv(k, r) /\ FinalOf(k, r) /\ (k \in InCall => BoundOf(k, r, tso[k]))
      /\ \A d \in Cap : running_task[d] = k <=> d \in OwnedOf(r)
  BY OfTask
<1>1. ASSUME NEW s, s = [r EXCEPT !.pc = "sleep"], task' = [task EXCEPT ![k] = s]
      PROVE  IInv' /\ HandedOver'
  <2>0. r.pc = "check" /\ (running_task[r.on] # Null \/ r.cap # r.on)
    BY <1>1 DEF pc
  <2>1. s \in TaskRec
    BY <1>b, <1>1, PlaceFacts DEF TaskRec
  <2>2. /\ s.pc = "sleep" /\ s.cap = r.cap /\ s.wakeup = r.wakeup /\ s.at = r.at /\ s.on = r.on
        /\ s.then = r.then /\ s.i = r.i /\ s.held = r.held /\ s.cur = r.cur /\ s.sync = r.sync
        /\ s.prev = r.prev /\ s.old = r.old
    BY <1>b, <1>1 DEF TaskRec
  <2> HIDE DEF r
  <2>3. TaskInv(k, s)
    BY <1>a, <2>0, <2>2, ConstantFacts DEF TaskInv, KeepsCap, Gone, InC, Waiting, Inside, Loop, AtHome, Pushing,
       Exiting, Calling, TaskRec
  <2>4. LocalOK(k, r, s, Null)
    BY <1>a, <2>0, <2>2, <2>3, ConstantFacts DEF LocalOK, TaskInv, KeepsCap, Gone, OwnedOf, AtReturn, AtYield,
       Stopping, InC, FinalOf, Yielding, InForeign, BoundOf, ComingOf, Waiting, Inside, Loop,
       AtHome, Pushing, Exiting, Calling, TaskRec
  <2>5. LocalStep(k, s, Null, Null)
    BY <1>0, <1>1, <2>1, LocalGoto DEF capVars
  <2> QED
    BY <2>1, <2>4, <2>5, LocalStepOK DEF r
<1> QED
  BY <1>b, <1>1 DEF pc, Goto

LEMMA ReturnCheckGiveOK ==
    ASSUME IInv, HandedOver, NEW k \in Task, NEW c \in Cap, pc(k) = "returnCheck", task[k].cap = c,
           Head(returning_tasks[c]) # k,
           task' = giveCapabilityToTask([task EXCEPT ![k].pc = "returnSleep"], Head(returning_tasks[c])), UNCHANGED <<capVars,
                                                                                                                      last_free_capability,
                                                                                                                      pending_sync,
                                                                                                                      tso,
                                                                                                                      sched_state,
                                                                                                                      scenario>>
    PROVE  IInv' /\ HandedOver'
<1>0. TypeOK
  BY DEF IInv
<1> DEFINE r == task[k]
<1>b. r \in TaskRec /\ task \in [Task -> TaskRec]
  BY <1>0, Types
<1>a. /\ r \in TaskRec /\ TaskInv(k, r) /\ FinalOf(k, r) /\ (k \in InCall => BoundOf(k, r, tso[k]))
      /\ \A d \in Cap : running_task[d] = k <=> d \in OwnedOf(r)
  BY OfTask
<1>1. ASSUME NEW s, s = [r EXCEPT !.pc = "returnSleep"],
             task' = giveCapabilityToTask([task EXCEPT ![k] = s], Head(returning_tasks[c]))
      PROVE  IInv' /\ HandedOver'
  <2>0. r.pc = "returnCheck" /\ r.cap = c
    BY <1>1 DEF pc
  <2>n. AtReturn(r, c) /\ In(returning_tasks[c], k) /\ returning_tasks[c] # <<>> /\ Head(returning_tasks[c]) \in Task
    <3>1. AtReturn(r, c)
      BY <2>0 DEF AtYield, AtReturn
    <3>2. In(returning_tasks[c], k) /\ returning_tasks[c] \in Seq(Task)
      BY <1>0, <3>1, OfTask, Types
    <3> QED
      BY <3>1, <3>2, EmptyFacts, TailFacts
  <2>h. \A d \in Cap : ~(IsNext(k, d) /\ ComingOf(r, d))
    <3> SUFFICES ASSUME NEW d \in Cap, IsNext(k, d), d = c PROVE FALSE
      BY <2>0 DEF ComingOf
    <3> QED
      BY <2>n DEF IsNext
  <2>1. s \in TaskRec
    BY <1>b, <1>1, PlaceFacts DEF TaskRec
  <2>2. /\ s.pc = "returnSleep" /\ s.cap = r.cap /\ s.wakeup = r.wakeup /\ s.at = r.at
        /\ s.on = r.on
        /\ s.then = r.then /\ s.i = r.i /\ s.held = r.held /\ s.cur = r.cur /\ s.sync = r.sync
        /\ s.prev = r.prev /\ s.old = r.old
    BY <1>b, <1>1 DEF TaskRec
  <2> HIDE DEF r
  <2>3. TaskInv(k, s)
    BY <1>a, <2>0, <2>2, ConstantFacts, <2>h DEF TaskInv, KeepsCap, Gone, InC, Waiting, Inside, Loop, AtHome,
       Pushing,
       Exiting, Calling, TaskRec
  <2>4. LocalOK(k, r, s, Null)
    BY <1>a, <2>0, <2>2, <2>3, ConstantFacts, <2>h DEF LocalOK, TaskInv, KeepsCap, Gone, OwnedOf, AtReturn, AtYield,
       Stopping, InC, FinalOf, Yielding, InForeign, BoundOf, ComingOf, Waiting, Inside, Loop,
       AtHome, Pushing, Exiting, Calling, TaskRec
  <2>5. LocalStep(k, s, Null, Null)
    BY <1>0, <1>1, <2>1, <2>n, LocalGive DEF capVars
  <2> QED
    BY <2>1, <2>4, <2>5, LocalStepOK DEF r
<1> QED
  BY <1>b, <1>1 DEF pc, Goto

LEMMA YieldCheckGiveOK ==
    ASSUME IInv, HandedOver, NEW k \in Task, NEW c \in Cap, pc(k) = "check", task[k].cap = c,
           Head(spare_workers[c]) # k, k \notin InCall,
           task' = giveCapabilityToTask([task EXCEPT ![k].pc = "sleep"], Head(spare_workers[c])), UNCHANGED <<capVars,
                                                                                                              last_free_capability,
                                                                                                              pending_sync,
                                                                                                              tso,
                                                                                                              sched_state,
                                                                                                              scenario>>
    PROVE  IInv' /\ HandedOver'
<1>0. TypeOK
  BY DEF IInv
<1> DEFINE r == task[k]
<1>b. r \in TaskRec /\ task \in [Task -> TaskRec]
  BY <1>0, Types
<1>a. /\ r \in TaskRec /\ TaskInv(k, r) /\ FinalOf(k, r) /\ (k \in InCall => BoundOf(k, r, tso[k]))
      /\ \A d \in Cap : running_task[d] = k <=> d \in OwnedOf(r)
  BY OfTask
<1>1. ASSUME NEW s, s = [r EXCEPT !.pc = "sleep"],
             task' = giveCapabilityToTask([task EXCEPT ![k] = s], Head(spare_workers[c]))
      PROVE  IInv' /\ HandedOver'
  <2>0. r.pc = "check" /\ r.cap = c
    BY <1>1 DEF pc
  <2>n. AtYield(k, r, c) /\ In(spare_workers[c], k) /\ spare_workers[c] # <<>> /\ Head(spare_workers[c]) \in Task
    <3>1. AtYield(k, r, c)
      BY <2>0 DEF AtYield, AtReturn
    <3>2. In(spare_workers[c], k) /\ spare_workers[c] \in Seq(Task)
      BY <1>0, <3>1, OfTask, Types
    <3> QED
      BY <3>1, <3>2, EmptyFacts, TailFacts
  <2>h. \A d \in Cap : ~(IsNext(k, d) /\ ComingOf(r, d))
    <3> SUFFICES ASSUME NEW d \in Cap, IsNext(k, d), d = c PROVE FALSE
      BY <2>0 DEF ComingOf
    <3>1. ~In(returning_tasks[c], k)
      BY <2>0, OfTask DEF AtReturn
    <3>2. returning_tasks[c] \in Seq(Task) /\ run_queue[c] \in Seq(TSO)
      BY <1>0, Types
    <3>3. returning_tasks[c] # <<>> => Head(returning_tasks[c]) # k
      BY <3>1, <3>2, TailFacts
    <3>4. bound(Head(run_queue[c])) # k
      BY ConstantFacts DEF bound
    <3> QED
      BY <3>3, <3>4 DEF IsNext
  <2>1. s \in TaskRec
    BY <1>b, <1>1, PlaceFacts DEF TaskRec
  <2>2. /\ s.pc = "sleep" /\ s.cap = r.cap /\ s.wakeup = r.wakeup /\ s.at = r.at /\ s.on = r.on
        /\ s.then = r.then /\ s.i = r.i /\ s.held = r.held /\ s.cur = r.cur /\ s.sync = r.sync
        /\ s.prev = r.prev /\ s.old = r.old
    BY <1>b, <1>1 DEF TaskRec
  <2> HIDE DEF r
  <2>3. TaskInv(k, s)
    BY <1>a, <2>0, <2>2, ConstantFacts, <2>h DEF TaskInv, KeepsCap, Gone, InC, Waiting, Inside, Loop, AtHome,
       Pushing,
       Exiting, Calling, TaskRec
  <2>4. LocalOK(k, r, s, Null)
    BY <1>a, <2>0, <2>2, <2>3, ConstantFacts, <2>h DEF LocalOK, TaskInv, KeepsCap, Gone, OwnedOf, AtReturn, AtYield,
       Stopping, InC, FinalOf, Yielding, InForeign, BoundOf, ComingOf, Waiting, Inside, Loop,
       AtHome, Pushing, Exiting, Calling, TaskRec
  <2>5. LocalStep(k, s, Null, Null)
    BY <1>0, <1>1, <2>1, <2>n, LocalGive DEF capVars
  <2> QED
    BY <2>1, <2>4, <2>5, LocalStepOK DEF r
<1> QED
  BY <1>b, <1>1 DEF pc, Goto

-----------------------------------------------------------------------------
(* Steps in which a Task takes a Capability *)

(* k goes from r to s, and owns c besides. *)
TakeOK(k, r, s, c) ==
    /\ TaskInv(k, s)
    /\ \A d \in Cap : d \in OwnedOf(s) <=> d \in OwnedOf(r) \/ d = c
    /\ Stopping(s) => Stopping(r) /\ s.sync = r.sync
    /\ FinalOf(k, s)
    /\ \A d \in Cap : InForeign(s, d) => InForeign(r, d)
    /\ r.pc \notin Gone
    /\ s.cur = r.cur
    /\ r.cur # Null => (s.pc = "running" <=> r.pc = "running") /\ s.at = r.at
    /\ k \in InCall => BoundOf(k, s, tso[k])
    /\ \A d \in Cap : d # c => ~ComingOf(r, d)

LEMMA TakeStepOK ==
    ASSUME IInv, HandedOver, NEW k \in Task, NEW c \in Cap, NEW s \in TaskRec,
           running_task[c] = Null, running_task' = [running_task EXCEPT ![c] = k],
           task' = [task EXCEPT ![k] = s], TakeOK(k, task[k], s, c),
           UNCHANGED <<run_queue, inbox, last_free_capability, pending_sync, tso, sched_state,
                       scenario>>,
           QueueStep(k),
           \A d \in Cap : /\ d # c => /\ returning_tasks'[d] = returning_tasks[d]
                                      /\ spare_workers'[d] = spare_workers[d]
                          /\ spare_workers[d] = <<>> => spare_workers'[d] = <<>>,
           k \in Exiter => DrainOf(k, task[k])'
    PROVE  IInv' /\ HandedOver'
<1>1. TypeOK /\ OwnInv
  BY DEF IInv, TaskSide
<1>2. /\ task'[k] = s /\ task' \in [Task -> TaskRec] /\ \A m \in Task : m # k => task'[m] = task[m]
      /\ running_task' \in [Cap -> Task \cup {Null}] /\ running_task'[c] = k
      /\ \A d \in Cap : d # c => running_task'[d] = running_task[d]
  BY <1>1, Types
<1>3. TaskStep(k, Null, c) /\ CapsKept(k, Null)
  BY <1>1, <1>2, ConstantFacts DEF TaskStep, CapsKept, Like
<1>4. \A d \in Cap : running_task'[d] = k <=> d \in OwnedOf(s)
  BY <1>1, <1>2 DEF TakeOK, OwnInv
<1>5. \A d \in Cap : running_task'[d] = Null => StaysFree(k, d)
  BY <1>2, ConstantFacts DEF TakeOK, StaysFree
<1>6. last_free_capability' \in Cap
  BY <1>1, Types
<1>7. Quiet(k, Null, c)
  BY <1>2, <1>3, <1>4, <1>5, <1>6 DEF Quiet, TakeOK
<1> QED
  BY <1>7, QuietStep

LEMMA GotOK ==
    ASSUME IInv, HandedOver, NEW k \in Task, NEW c \in Cap,
           pc(k) \in {"return", "returnCheck", "check"}, task[k].cap = c,
           running_task[c] = Null, running_task' = [running_task EXCEPT ![c] = k],
           task' = Got(k, c),
           UNCHANGED <<run_queue, inbox, last_free_capability, pending_sync, tso, sched_state,
                       scenario>>,
           QueueStep(k),
           \A d \in Cap : /\ d # c => /\ returning_tasks'[d] = returning_tasks[d]
                                      /\ spare_workers'[d] = spare_workers[d]
                          /\ spare_workers[d] = <<>> => spare_workers'[d] = <<>>
    PROVE  IInv' /\ HandedOver'
<1>0. TypeOK
  BY DEF IInv
<1> DEFINE r == task[k]
           s == [r EXCEPT !.pc = r.then, !.on = Null, !.at = IF r.then = "acquire" THEN r.at ELSE c]
<1>1. /\ r \in TaskRec /\ TaskInv(k, r) /\ FinalOf(k, r) /\ (k \in InCall => BoundOf(k, r, tso[k]))
      /\ r.pc \in {"return", "returnCheck", "check"} /\ r.cap = c
  BY OfTask DEF pc
<1>2. task \in [Task -> TaskRec]
  BY <1>0, Types
<1>3. task' = [task EXCEPT ![k] = s]
  BY <1>2 DEF Got
<1>4. s \in TaskRec
  BY <1>1 DEF TaskRec
<1>5. /\ s.pc = r.then /\ s.cap = r.cap /\ s.at = (IF r.then = "acquire" THEN r.at ELSE c)
      /\ s.then = r.then /\ s.i = r.i /\ s.held = r.held /\ s.cur = r.cur /\ s.sync = r.sync
      /\ s.prev = r.prev /\ s.old = r.old
  BY <1>1 DEF TaskRec
<1> HIDE DEF r, s
<1>6. /\ r.then \in {"bind", "doGC", "requestSync", "resume", "acquire", "yielded", "syncWait"}
      /\ r.pc = "check" <=> r.then \in {"yielded", "syncWait"}
      /\ r.i \in 0..NCaps
  BY <1>1 DEF TaskInv, KeepsCap, Gone, Waiting, TaskRec
<1>7. TaskInv(k, s)
  BY <1>1, <1>5, <1>6, ConstantFacts DEF TaskInv, KeepsCap, Gone, InC, Waiting, Inside, Loop, AtHome, Pushing,
     Exiting, Calling
<1>8. \A d \in Cap : d \in OwnedOf(s) <=> d \in OwnedOf(r) \/ d = c
  <2>1. CASE r.then = "acquire"
    <3>1. r.i > 0 /\ c = r.i - 1 /\ r.pc \in Waiting
      BY <1>1, <1>6, <2>1 DEF TaskInv, KeepsCap, Gone, Waiting
    <3>2. OwnedOf(s) = {r.at} \cup 0..r.i - 1 /\ OwnedOf(r) = {r.at} \cup 0..r.i - 2
      BY <1>5, <2>1, <3>1 DEF OwnedOf, Waiting
    <3> QED
      BY <1>6, <3>1, <3>2, ConstantFacts
  <2>2. CASE r.then # "acquire"
    BY <1>1, <1>5, <1>6, <2>2 DEF OwnedOf
  <2> QED
    BY <2>1, <2>2
<1>9. TakeOK(k, r, s, c)
  <2>1. Stopping(s) => Stopping(r) /\ s.sync = r.sync
    BY <1>1, <1>5, <1>6 DEF Stopping, Waiting
  <2>2. FinalOf(k, s)
    BY <1>1, <1>5, <1>6 DEF FinalOf, Yielding
  <2>3. \A d \in Cap : InForeign(s, d) => InForeign(r, d)
    BY <1>1, <1>5, <1>6 DEF InForeign, InC, Waiting
  <2>4. r.cur # Null => (s.pc = "running" <=> r.pc = "running") /\ s.at = r.at
    BY <1>1, <1>5, <1>6 DEF TaskInv, KeepsCap, Gone, InC, Waiting
  <2>5. k \in InCall => BoundOf(k, s, tso[k])
    BY <1>1, <1>5, <1>6 DEF BoundOf, Waiting, Loop, AtHome, Pushing
  <2>6. \A d \in Cap : d # c => ~ComingOf(r, d)
    BY <1>1 DEF ComingOf
  <2>7. r.pc \notin Gone
    BY <1>1 DEF Gone
  <2> QED
    BY <1>5, <1>7, <1>8, <2>1, <2>2, <2>3, <2>4, <2>5, <2>6, <2>7 DEF TakeOK
<1>10. k \in Exiter => DrainOf(k, task[k])'
  BY <1>2, <1>3, <1>5, <1>6 DEF DrainOf
<1> QED
  BY <1>3, <1>4, <1>9, <1>10, TakeStepOK DEF r

LEMMA ReturnLockOK ==
    ASSUME IInv, HandedOver, NEW k \in Task, ReturnLock(k), UNCHANGED <<sched_state, scenario>>
    PROVE  IInv' /\ HandedOver'
<1>0. TypeOK /\ QueueInv
  BY DEF IInv, TaskSide
<1> DEFINE r == task[k]
           c == r.on
<1>1. /\ r \in TaskRec /\ TaskInv(k, r) /\ FinalOf(k, r) /\ (k \in InCall => BoundOf(k, r, tso[k]))
      /\ r.pc = "return" /\ \A d \in Cap : running_task[d] = k <=> d \in OwnedOf(r)
  BY OfTask DEF ReturnLock, pc
<1>2. c \in Cap /\ r.cap = c
  BY <1>1 DEF TaskInv, KeepsCap, Gone, Waiting
<1>3. task \in [Task -> TaskRec] /\ returning_tasks \in [Cap -> Seq(Task)] /\ spare_workers \in [Cap -> Seq(Task)]
  BY <1>0, Types
<1>4. CASE running_task[c] = Null
  <2>1. /\ running_task' = [running_task EXCEPT ![c] = k] /\ task' = Got(k, c)
        /\ UNCHANGED <<returning_tasks, spare_workers>>
    BY <1>4 DEF ReturnLock
  <2>2. task'[k].pc = r.then /\ r.then \notin {"returnSleep", "returnCheck", "sleep", "check"}
    BY <1>1, <1>3, <2>1 DEF Got, TaskInv, KeepsCap, Gone, Waiting, TaskRec
  <2>3. QueueStep(k)
    BY <1>0, <1>1, <2>1, <2>2, QueuesSame DEF AtReturn, AtYield
  <2> QED
    BY <1>1, <1>2, <1>4, <2>1, <2>3, GotOK DEF ReturnLock, pc
<1>5. CASE running_task[c] # Null
  <2> DEFINE s == [r EXCEPT !.pc = "returnSleep"]
  <2>1. /\ returning_tasks' = [returning_tasks EXCEPT ![c] = Append(@, k)]
        /\ task' = [task EXCEPT ![k] = s]
        /\ UNCHANGED <<running_task, spare_workers, run_queue, inbox, last_free_capability, pending_sync,
                       tso, sched_state, scenario>>
    BY <1>3, <1>5 DEF ReturnLock, newReturningTask, Goto
  <2>2. s \in TaskRec
    BY <1>1, PlaceFacts DEF TaskRec
  <2>3. /\ s.pc = "returnSleep" /\ s.cap = r.cap /\ s.wakeup = r.wakeup /\ s.at = r.at
        /\ s.on = r.on
        /\ s.then = r.then /\ s.i = r.i /\ s.held = r.held /\ s.cur = r.cur /\ s.sync = r.sync
        /\ s.prev = r.prev /\ s.old = r.old
    BY <1>1 DEF TaskRec
  <2> HIDE DEF s
  <2>4. task'[k] = s /\ task' \in [Task -> TaskRec] /\ \A m \in Task : m # k => task'[m] = task[m]
    BY <1>3, <2>1, <2>2
  <2>5. TaskStep(k, Null, c) /\ CapsKept(k, Null)
    BY <1>0, <2>1, <2>4, Types, ConstantFacts DEF TaskStep, CapsKept, Like
  <2>6. TaskInv(k, s)
    BY <1>1, <2>3, ConstantFacts DEF TaskInv, KeepsCap, Gone, InC, Waiting, Inside, Loop, AtHome, Pushing, Exiting,
       Calling
  <2>7. \A d \in Cap : running_task'[d] = k <=> d \in OwnedOf(s)
    BY <1>1, <2>1, <2>3 DEF OwnedOf
  <2>8. QueueStep(k)
    <3> SUFFICES ASSUME NEW d \in Cap
                 PROVE  /\ returning_tasks'[d] \in Seq(Task) /\ Injective(returning_tasks'[d])
                        /\ \A m \in Task : m # k => (In(returning_tasks'[d], m) <=> In(returning_tasks[d], m))
                        /\ In(returning_tasks'[d], k) <=> AtReturn(s, d)
                        /\ In(spare_workers[d], k) <=> AtYield(k, s, d)
      BY <1>0, <1>3, <2>1, <2>4 DEF QueueStep, QueueInv
    <3>1. ~In(returning_tasks[d], k) /\ ~In(spare_workers[d], k)
      BY <1>0, <1>1 DEF QueueInv, AtReturn, AtYield
    <3>2. Injective(returning_tasks[d])
      BY <1>0 DEF QueueInv
    <3>3. CASE d = c
      <4>1. returning_tasks'[d] = Append(returning_tasks[d], k)
        BY <1>2, <1>3, <2>1, <3>3
      <4> QED
        BY <1>2, <1>3, <2>3, <3>1, <3>2, <3>3, <4>1, AppendFacts DEF AtReturn, AtYield
    <3>4. CASE d # c
      BY <1>2, <1>3, <2>1, <2>3, <3>1, <3>2, <3>4 DEF AtReturn, AtYield
    <3> QED
      BY <3>3, <3>4
  <2>9. \A d \in Cap : running_task'[d] = Null => StaysFree(k, d)
    BY <1>1, <1>2, <1>3, <1>5, <2>1 DEF StaysFree, ComingOf
  <2>10. last_free_capability' \in Cap
    BY <1>0, <2>1, Types
  <2>11. k \in Exiter => DrainOf(k, task[k])'
    BY <2>3, <2>4 DEF DrainOf
  <2>12. /\ Stopping(s) => Stopping(r) /\ s.sync = r.sync
         /\ FinalOf(k, s) /\ \A d \in Cap : InForeign(s, d) => InForeign(r, d)
         /\ k \in InCall => BoundOf(k, s, tso[k])
    BY <1>1, <2>3 DEF Stopping, FinalOf, Yielding, InForeign, InC, BoundOf, Waiting, Loop, AtHome,
       Pushing
  <2>13. Quiet(k, Null, c)
    BY <1>1, <2>1, <2>3, <2>4, <2>5, <2>6, <2>7, <2>8, <2>9, <2>10, <2>11, <2>12 DEF Quiet, Gone
  <2> QED
    BY <1>2, <2>13, QuietStep
<1> QED
  BY <1>4, <1>5

LEMMA ReturnCheckOK ==
    ASSUME IInv, HandedOver, NEW k \in Task, ReturnCheck(k), UNCHANGED <<sched_state, scenario>>
    PROVE  IInv' /\ HandedOver'
<1>0. TypeOK /\ QueueInv
  BY DEF IInv, TaskSide
<1> DEFINE r == task[k]
           c == r.on
<1>1. r \in TaskRec /\ TaskInv(k, r) /\ r.pc = "returnCheck"
  BY OfTask DEF ReturnCheck, pc
<1>2. c \in Cap /\ r.cap = c
  BY <1>1 DEF TaskInv, KeepsCap, Gone, Waiting
<1>3. task \in [Task -> TaskRec] /\ returning_tasks \in [Cap -> Seq(Task)] /\ spare_workers \in [Cap -> Seq(Task)]
  BY <1>0, Types
<1>4. CASE running_task[c] # Null
  BY <1>1, <1>4, ReturnCheckBusyOK DEF ReturnCheck, capVars
<1>5. CASE running_task[c] = Null /\ Head(returning_tasks[c]) # k
  BY <1>1, <1>2, <1>5, ReturnCheckGiveOK DEF ReturnCheck, capVars
<1>6. CASE running_task[c] = Null /\ Head(returning_tasks[c]) = k
  <2>1. /\ running_task' = [running_task EXCEPT ![c] = k] /\ task' = Got(k, c)
        /\ returning_tasks' = [returning_tasks EXCEPT ![c] = Tail(@)] /\ UNCHANGED spare_workers
    BY <1>6 DEF ReturnCheck, popReturningTask
  <2>2. task'[k].pc = r.then /\ r.then \notin {"returnSleep", "returnCheck", "sleep", "check"}
    BY <1>1, <1>3, <2>1 DEF Got, TaskInv, KeepsCap, Gone, Waiting, TaskRec
  <2>3. \A d \in Cap : ~AtReturn(task'[k], d) /\ ~AtYield(k, task'[k], d) /\ ~AtYield(k, r, d) /\ (AtReturn(r, d) <=> d = c)
    BY <1>1, <1>2, <2>2 DEF AtReturn, AtYield
  <2> HIDE DEF r
  <2>4. returning_tasks[c] # <<>>
    <3>1. In(returning_tasks[c], k)
      BY <1>0, <1>2, <2>3 DEF QueueInv, r
    <3> QED
      BY <3>1, EmptyFacts
  <2>5. QueueStep(k)
    <3> SUFFICES ASSUME NEW d \in Cap
                 PROVE  /\ returning_tasks'[d] \in Seq(Task) /\ Injective(returning_tasks'[d])
                        /\ \A m \in Task : m # k => (In(returning_tasks'[d], m) <=> In(returning_tasks[d], m))
                        /\ ~In(returning_tasks'[d], k) /\ ~In(spare_workers[d], k)
      BY <1>0, <1>3, <2>1, <2>3 DEF QueueStep, QueueInv
    <3>1. (In(returning_tasks[d], k) <=> d = c) /\ ~In(spare_workers[d], k) /\ Injective(returning_tasks[d])
      BY <1>0, <2>3 DEF QueueInv, r
    <3>2. CASE d = c
      <4>1. returning_tasks'[d] = Tail(returning_tasks[d]) /\ k = Head(returning_tasks[d])
        BY <1>2, <1>3, <1>6, <2>1, <3>2
      <4> QED
        BY <1>2, <1>3, <2>4, <3>1, <3>2, <4>1, TailFacts
    <3>3. CASE d # c
      BY <1>2, <1>3, <2>1, <3>1, <3>3
    <3> QED
      BY <3>2, <3>3
  <2>6. \A d \in Cap : d # c => returning_tasks'[d] = returning_tasks[d]
    BY <1>2, <1>3, <2>1
  <2> QED
    BY <1>1, <1>2, <1>6, <2>1, <2>5, <2>6, GotOK DEF ReturnCheck, pc, r
<1> QED
  BY <1>4, <1>5, <1>6

LEMMA YieldCheckOK ==
    ASSUME IInv, HandedOver, NEW k \in Task, YieldCheck(k), UNCHANGED <<sched_state, scenario>>
    PROVE  IInv' /\ HandedOver'
<1>0. TypeOK /\ QueueInv
  BY DEF IInv, TaskSide
<1> DEFINE r == task[k]
           c == r.on
           first == IF k \in InCall THEN TRUE ELSE Head(spare_workers[c]) = k
<1>1. r \in TaskRec /\ TaskInv(k, r) /\ r.pc = "check"
  BY OfTask DEF YieldCheck, pc
<1>2. c \in Cap
  BY <1>1 DEF TaskInv, KeepsCap
<1>3. task \in [Task -> TaskRec] /\ returning_tasks \in [Cap -> Seq(Task)] /\ spare_workers \in [Cap -> Seq(Task)]
  BY <1>0, Types
<1>4. CASE running_task[c] # Null \/ r.cap # c
  BY <1>1, <1>4, YieldCheckBusyOK DEF YieldCheck, capVars, isBoundTask
<1>5. CASE running_task[c] = Null /\ r.cap = c /\ ~first
  BY <1>1, <1>2, <1>5, YieldCheckGiveOK DEF YieldCheck, capVars, isBoundTask
<1>6. CASE running_task[c] = Null /\ r.cap = c /\ first
  <2>1. /\ running_task' = [running_task EXCEPT ![c] = k] /\ task' = Got(k, c)
        /\ spare_workers' = (IF k \in InCall THEN spare_workers ELSE [spare_workers EXCEPT ![c] = Tail(@)])
        /\ UNCHANGED returning_tasks
    BY <1>6 DEF YieldCheck, isBoundTask
  <2>2. task'[k].pc = r.then /\ r.then \notin {"returnSleep", "returnCheck", "sleep", "check"}
    BY <1>1, <1>3, <2>1 DEF Got, TaskInv, KeepsCap, Gone, Waiting, TaskRec
  <2>3. \A d \in Cap : /\ ~AtReturn(task'[k], d) /\ ~AtYield(k, task'[k], d) /\ ~AtReturn(r, d)
                       /\ AtYield(k, r, d) <=> d = c /\ k \notin InCall
    BY <1>1, <1>2, <1>6, <2>2 DEF AtReturn, AtYield
  <2> HIDE DEF r
  <2>4. k \notin InCall => spare_workers[c] # <<>>
    <3>1. k \notin InCall => In(spare_workers[c], k)
      BY <1>0, <1>2, <2>3 DEF QueueInv, r
    <3> QED
      BY <3>1, EmptyFacts
  <2>5. QueueStep(k)
    <3> SUFFICES ASSUME NEW d \in Cap
                 PROVE  /\ spare_workers'[d] \in Seq(Task) /\ Injective(spare_workers'[d])
                        /\ \A m \in Task : m # k => (In(spare_workers'[d], m) <=> In(spare_workers[d], m))
                        /\ ~In(returning_tasks[d], k) /\ ~In(spare_workers'[d], k)
      BY <1>0, <1>3, <2>1, <2>3 DEF QueueStep, QueueInv
    <3>1. /\ In(spare_workers[d], k) <=> d = c /\ k \notin InCall
          /\ ~In(returning_tasks[d], k) /\ Injective(spare_workers[d])
      BY <1>0, <2>3 DEF QueueInv, r
    <3>2. CASE d = c /\ k \notin InCall
      <4>1. spare_workers'[d] = Tail(spare_workers[d]) /\ k = Head(spare_workers[d])
        BY <1>2, <1>3, <1>6, <2>1, <3>2
      <4> QED
        BY <1>2, <1>3, <2>4, <3>1, <3>2, <4>1, TailFacts
    <3>3. CASE d # c \/ k \in InCall
      BY <1>2, <1>3, <2>1, <3>1, <3>3
    <3> QED
      BY <3>2, <3>3
  <2>6. \A d \in Cap : /\ d # c => spare_workers'[d] = spare_workers[d]
                       /\ spare_workers[d] = <<>> => spare_workers'[d] = <<>>
    BY <1>2, <1>3, <2>1, <2>4
  <2> QED
    BY <1>1, <1>2, <1>6, <2>1, <2>5, <2>6, GotOK DEF YieldCheck, pc, r
<1> QED
  BY <1>4, <1>5, <1>6

LEMMA PushGrabOK ==
    ASSUME IInv, HandedOver, NEW k \in Task, PushGrab(k), UNCHANGED <<sched_state, scenario>>
    PROVE  IInv' /\ HandedOver'
<1>0. TypeOK /\ QueueInv
  BY DEF IInv, TaskSide
<1> DEFINE r == task[k]
           c == r.i
<1>1. /\ r \in TaskRec /\ TaskInv(k, r) /\ FinalOf(k, r) /\ (k \in InCall => BoundOf(k, r, tso[k]))
      /\ r.pc = "grab" /\ r.i \in 0..NCaps /\ r.held \in Seq(Cap)
  BY OfTask DEF PushGrab, pc
<1>2. task \in [Task -> TaskRec]
  BY <1>0, Types
<1>3. CASE c = NCaps
  BY <1>1, <1>3, PushGrabEndOK DEF PushGrab, capVars, pc
<1>4. CASE c < NCaps /\ UNCHANGED running_task /\ task' = [task EXCEPT ![k].i = c + 1]
  BY <1>1, <1>4, PushGrabSkipOK DEF PushGrab, capVars, pc
<1>5. ASSUME c < NCaps, c # r.at, running_task[c] = Null,
             running_task' = [running_task EXCEPT ![c] = k],
             NEW s, s = [r EXCEPT !.cap = c, !.pc = "drop"] \/ s = [r EXCEPT !.cap = c, !.held = Append(r.held, c), !.i = c + 1],
             task' = [task EXCEPT ![k] = s]
      PROVE  IInv' /\ HandedOver'
  <2>1. c \in Cap /\ c + 1 \in 0..NCaps
    BY <1>1, <1>5, ConstantFacts
  <2>2. /\ Append(r.held, c) \in Seq(Cap)
        /\ \A y : In(Append(r.held, c), y) <=> In(r.held, y) \/ y = c
        /\ Injective(r.held) /\ ~In(r.held, c) => Injective(Append(r.held, c))
    BY <1>1, <2>1, AppendFacts
  <2>3. s \in TaskRec
    <3>1. CASE s = [r EXCEPT !.cap = c, !.pc = "drop"]
      BY <1>1, <2>1, <3>1, PlaceFacts DEF TaskRec
    <3>2. CASE s = [r EXCEPT !.cap = c, !.held = Append(r.held, c), !.i = c + 1]
      BY <1>1, <2>1, <2>2, <3>2 DEF TaskRec
    <3> QED
      BY <1>5, <3>1, <3>2
  <2>4. /\ s.cap = c /\ s.at = r.at /\ s.cur = r.cur /\ s.sync = r.sync /\ s.then = r.then
        /\ s.prev = r.prev /\ s.old = r.old
        /\ \/ s.pc = "drop" /\ s.held = r.held /\ s.i = c
           \/ s.pc = "grab" /\ s.held = Append(r.held, c) /\ s.i = c + 1
    <3>1. CASE s = [r EXCEPT !.cap = c, !.pc = "drop"]
      BY <1>1, <3>1 DEF TaskRec
    <3>2. CASE s = [r EXCEPT !.cap = c, !.held = Append(r.held, c), !.i = c + 1]
      BY <1>1, <3>2 DEF TaskRec
    <3> QED
      BY <1>5, <3>1, <3>2
  <2>5. /\ r.at \in Cap /\ Injective(r.held) /\ ~In(r.held, r.at) /\ \A j \in DOMAIN r.held : r.held[j] < c
        /\ r.cap \in Cap /\ r.cur = Null
    BY <1>1 DEF TaskInv, KeepsCap, Gone, Inside, Loop, Pushing, InC, Waiting
  <2> HIDE DEF r
  <2>6. ~In(r.held, c)
    BY <1>1, <2>5 DEF In
  <2>7. \A y : In(s.held, y) => In(r.held, y) \/ y = c
    BY <2>2, <2>4
  <2>8. s.pc = "grab" => \A j \in DOMAIN s.held : s.held[j] < s.i
    <3> SUFFICES ASSUME s.pc = "grab", NEW j \in DOMAIN s.held PROVE s.held[j] < c + 1
      BY <2>4
    <3>1. In(s.held, s.held[j])
      BY DEF In
    <3>2. \A j1 \in DOMAIN r.held : r.held[j1] \in Cap /\ r.held[j1] < c
      BY <1>1, <2>5
    <3>3. \A y \in Cap : y < c => y < c + 1
      BY <2>1, ConstantFacts
    <3>4. \A y : In(r.held, y) => y < c + 1
      BY <3>2, <3>3 DEF In
    <3>5. c < c + 1
      BY <2>1, ConstantFacts
    <3> QED
      BY <2>7, <3>1, <3>4, <3>5
  <2>9. TaskInv(k, s)
    <3>1. Injective(s.held) /\ ~In(s.held, s.at)
      BY <1>5, <2>2, <2>4, <2>5, <2>6
    <3> QED
      BY <1>1, <1>5, <2>1, <2>4, <2>5, <2>8, <3>1 DEF TaskInv, KeepsCap, Gone, InC, Waiting, Inside, Loop, AtHome,
         Pushing,
         Exiting, Calling
  <2>10. \A d \in Cap : d \in OwnedOf(s) <=> d \in OwnedOf(r) \/ d = c
    <3>1. \A d : (d \in ToSet(s.held) <=> In(s.held, d)) /\ (d \in ToSet(r.held) <=> In(r.held, d))
      BY ToSetIn
    <3>2. \A d \in Cap : d \in OwnedOf(r) <=> d = r.at \/ In(r.held, d)
      BY <1>1, <3>1 DEF OwnedOf
    <3>3. \A d \in Cap : d \in OwnedOf(s) <=> d = r.at \/ In(s.held, d) \/ (s.pc = "drop" /\ d = c)
      BY <2>4, <3>1 DEF OwnedOf
    <3> QED
      BY <2>2, <2>4, <3>2, <3>3
  <2>11. TakeOK(k, r, s, c)
    <3>1. ~Stopping(s) /\ FinalOf(k, s) /\ ~InC(s)
      BY <1>1, <2>4 DEF Stopping, FinalOf, Yielding, InC, Waiting
    <3>2. k \in InCall => BoundOf(k, s, tso[k])
      BY <1>1, <2>4 DEF BoundOf, Loop, Pushing, Waiting
    <3> QED
      BY <1>1, <2>4, <2>5, <2>9, <2>10, <3>1, <3>2 DEF TakeOK, InForeign, Gone, ComingOf
  <2>12. QueueStep(k)
    BY <1>0, <1>1, <1>2, <1>5, <2>3, <2>4, QueuesSame DEF AtReturn, AtYield, PushGrab, r
  <2>13. k \in Exiter => DrainOf(k, task[k])'
    BY <1>2, <1>5, <2>3, <2>4 DEF DrainOf
  <2> QED
    BY <1>5, <2>1, <2>3, <2>11, <2>12, <2>13, TakeStepOK DEF PushGrab, r
<1>6. CASE c < NCaps /\ c # r.at /\ running_task[c] = Null /\ running_task' = [running_task EXCEPT ![c] = k]
           /\ \/ task' = [task EXCEPT ![k].cap = c, ![k].pc = "drop"]
              \/ task' = [task EXCEPT ![k].cap = c, ![k].held = Append(@, c), ![k].i = c + 1]
  <2>1. \/ task' = [task EXCEPT ![k] = [r EXCEPT !.cap = c, !.pc = "drop"]]
        \/ task' = [task EXCEPT ![k] = [r EXCEPT !.cap = c, !.held = Append(r.held, c), !.i = c + 1]]
    BY <1>2, <1>6
  <2> QED
    BY <1>5, <1>6, <2>1
<1> QED
  BY <1>3, <1>4, <1>6 DEF PushGrab, tryGrabCapability

LEMMA PushReleaseOK ==
    ASSUME IInv, HandedOver, NEW k \in Task, PushRelease(k), UNCHANGED <<sched_state, scenario>>
    PROVE  IInv' /\ HandedOver'
<1>1. CASE task[k].held = <<>>
  BY <1>1, PushReleaseEndOK DEF PushRelease, capVars
<1>2. CASE task[k].held # <<>>
  BY <1>2, PushReleaseNextOK DEF PushRelease
<1> QED
  BY <1>1, <1>2

LEMMA ShutdownOK ==
    ASSUME IInv, HandedOver, NEW k \in Task, shutdownCapability(k), UNCHANGED scenario
    PROVE  IInv' /\ HandedOver'
<1>0. TypeOK /\ QueueInv /\ DrainInv /\ OwnInv
  BY DEF IInv, TaskSide
<1> DEFINE r == task[k]
           c == r.i
<1>1. /\ r \in TaskRec /\ TaskInv(k, r) /\ FinalOf(k, r) /\ (k \in InCall => BoundOf(k, r, tso[k]))
      /\ r.pc = "shut" /\ c < NCaps /\ running_task[c] = Null
  BY OfTask DEF shutdownCapability, pc
<1>2. task \in [Task -> TaskRec] /\ c \in Cap /\ c + 1 \in 0..NCaps /\ k \in Exiter
  <2>1. task \in [Task -> TaskRec]
    BY <1>0, Types
  <2>2. r.i \in 0..NCaps
    BY <1>1 DEF TaskRec
  <2>3. k \in Exiter
    BY <1>1 DEF TaskInv, KeepsCap, Gone, Exiting
  <2>4. NCaps \in Nat /\ Cap = 0..NCaps - 1
    BY ConstantFacts
  <2> QED
    BY <1>1, <2>1, <2>2, <2>3, <2>4
<1>3. CASE Release(c, FALSE, [task EXCEPT ![k].cap = c])
  BY <1>1, <1>3, ShutdownReleaseOK DEF shutdownCapability, pc
<1>4. CASE /\ run_queue[c] = <<>> /\ spare_workers[c] = <<>> /\ MayTake(c)
           /\ running_task' = [running_task EXCEPT ![c] = k]
           /\ task' = [task EXCEPT ![k].cap = c, ![k].i = c + 1]
           /\ UNCHANGED last_free_capability
  <2> DEFINE s == [r EXCEPT !.cap = c, !.i = c + 1]
  <2>1. task' = [task EXCEPT ![k] = s]
    BY <1>2, <1>4
  <2>2. s \in TaskRec
    BY <1>1, <1>2 DEF TaskRec
  <2>3. /\ s.pc = "shut" /\ s.cap = c /\ s.at = r.at /\ s.cur = r.cur /\ s.sync = r.sync
        /\ s.then = r.then
        /\ s.prev = r.prev /\ s.old = r.old /\ s.i = c + 1 /\ s.on = r.on /\ s.held = r.held
    BY <1>1 DEF TaskRec
  <2> HIDE DEF s, r
  <2>4. TaskInv(k, s)
    BY <1>1, <2>3 DEF TaskInv, KeepsCap, Gone, InC, Waiting, Inside, Loop, AtHome, Pushing, Exiting, Calling
  <2>5. \A d \in Cap : d \in OwnedOf(s) <=> d \in OwnedOf(r) \/ d = c
    BY <1>1, <1>2, <2>3, ConstantFacts DEF OwnedOf
  <2>6. TakeOK(k, r, s, c)
    <3>1. ~Stopping(s) /\ FinalOf(k, s) /\ ~InC(s) /\ ~InC(r)
      BY <1>1, <2>3 DEF Stopping, FinalOf, Yielding, InC, Waiting
    <3>2. k \notin InCall
      BY <1>2, ConstantFacts
    <3>3. r.cur = Null
      BY <1>1, <3>1 DEF TaskInv, KeepsCap
    <3> QED
      BY <1>1, <2>3, <2>4, <2>5, <3>1, <3>2, <3>3 DEF TakeOK, InForeign, Gone, ComingOf
  <2>7. QueueStep(k)
    BY <1>0, <1>1, <1>2, <2>1, <2>2, <2>3, QueuesSame DEF AtReturn, AtYield, shutdownCapability, r
  <2>8. DrainOf(k, task[k])'
    <3>1. task'[k] = s /\ \A m \in Task : m # k => task'[m] = task[m]
      BY <1>2, <2>1
    <3>2. DrainOf(k, r)
      BY <1>0, <1>2 DEF DrainInv, r
    <3>3. \A d \in Cap, m \in Task : InForeign(task'[m], d) => InForeign(task[m], d)
      BY <2>3, <3>1 DEF InForeign, InC, Waiting
    <3>4. ASSUME NEW d \in Cap, d < c + 1
          PROVE  /\ run_queue[d] = <<>> /\ spare_workers[d] = <<>>
                 /\ scenario.wait => \A m \in Task : ~InForeign(task[m], d)
      <4>1. CASE d = c
        BY <1>4, <4>1 DEF MayTake, InForeignCall, InForeign, InC, Waiting, pc
      <4>2. CASE d < c
        BY <1>1, <3>2, <4>2 DEF DrainOf
      <4> QED
        BY <1>2, <3>4, <4>1, <4>2, ConstantFacts
    <3> QED
      BY <2>3, <3>1, <3>3, <3>4 DEF DrainOf, shutdownCapability
  <2> QED
    BY <1>1, <1>2, <1>4, <2>1, <2>2, <2>6, <2>7, <2>8, TakeStepOK DEF shutdownCapability, r
<1> QED
  BY <1>3, <1>4 DEF shutdownCapability

-----------------------------------------------------------------------------
(* Steps by which pending_sync or sched_state changes *)

LEMMA StateStepOK ==
    ASSUME IInv, HandedOver, NEW k \in Task, NEW s \in TaskRec, task' = [task EXCEPT ![k] = s],
           UNCHANGED <<capVars, last_free_capability, tso, scenario>>, Onward,
           pending_sync' \in {"none", "gc", "other"}, pending_sync' = pending_sync \/ pending_sync' # "none",
           sched_state' \in {"running", "interrupting", "shutting"},
           UNCHANGED sched_state \/ sched_state' # "running",
           pending_sync = "gc" => pending_sync' = "gc" \/ sched_state' # "interrupting",
           FinalOf(k, task[k])', SyncInv', k \in Exiter => DrainOf(k, task[k])',
           TaskInv(k, s), \A d \in Cap : d \in OwnedOf(s) <=> d \in OwnedOf(task[k]),
           \A d \in Cap : ~AtReturn(s, d) /\ ~AtReturn(task[k], d) /\ ~AtYield(k, s, d) /\ ~AtYield(k, task[k], d),
           ~InC(s), ~InC(task[k]), task[k].pc \in Gone /\ ~NoExit => s.pc \in Gone,
           s.cur = Null, task[k].cur = Null, k \in InCall => BoundOf(k, s, tso[k]),
           \A d \in Cap : ~ComingOf(task[k], d)
    PROVE  IInv' /\ HandedOver'
<1>1. TypeOK /\ TasksInv /\ OwnInv /\ QueueInv /\ SyncInv /\ FinalInv /\ DrainInv /\ ThreadSide
  BY DEF IInv, TaskSide
<1>2. PICK c \in Cap : c = 0
  BY ConstantFacts
<1>3. /\ task'[k] = s /\ task' \in [Task -> TaskRec] /\ \A m \in Task : m # k => task'[m] = task[m]
      /\ UNCHANGED <<running_task, returning_tasks, spare_workers, run_queue, inbox>>
  BY <1>1, Types DEF capVars
<1>4. TaskStep(k, Null, c) /\ CapsKept(k, Null)
  BY <1>1, <1>3, Types DEF TaskStep, CapsKept, Like
<1>5. TypeOK'
  BY <1>1, <1>3 DEF TypeOK, TaskRec
<1>6. TasksInv'
  BY <1>1, <1>3, <1>4, TasksKept
<1>7. OwnInv'
  <2>1. \A d \in Cap : running_task'[d] = k <=> d \in OwnedOf(task'[k])
    BY <1>1, <1>3 DEF OwnInv
  <2> QED
    BY <1>1, <1>4, <2>1, OwnKept
<1>8. QueueInv'
  <2>1. QueueStep(k)
    BY <1>1, <1>3, QueuesSame
  <2> QED
    BY <1>1, <1>4, <2>1, QueueKept
<1>9. FinalInv'
  BY <1>1, <1>4, FinalKept
<1>10. DrainInv'
  <2>1. \A d \in Cap : ~InForeign(task'[k], d)
    BY <1>3 DEF InForeign
  <2> QED
    BY <1>1, <1>3, <1>4, <2>1, DrainKept
<1>11. ThreadSide'
  BY <1>1, <1>3, <1>4, ThreadsKept DEF Onward
<1>12. HandedOver'
  <2>1. \A d \in Cap : running_task'[d] = Null => StaysFree(k, d)
    BY <1>3 DEF StaysFree
  <2> QED
    BY <1>1, <1>4, <1>5, <1>6, <1>7, <1>8, <1>11, <2>1, HandedKept DEF ThreadSide
<1> QED
  BY <1>5, <1>6, <1>7, <1>8, <1>9, <1>10, <1>11, <1>12 DEF IInv, TaskSide

LEMMA RequestSyncOK ==
    ASSUME IInv, HandedOver, NEW k \in Task, RequestSync(k), UNCHANGED <<sched_state, scenario>>
    PROVE  IInv' /\ HandedOver'
<1>0. TypeOK /\ SyncInv
  BY DEF IInv, TaskSide
<1>1. CASE pending_sync # "none"
  BY <1>1, RequestSyncWaitOK DEF RequestSync, capVars
<1>2. CASE pending_sync = "none"
  <2> DEFINE r == task[k]
             s == [r EXCEPT !.pc = "acquire", !.i = 0]
  <2>1. /\ r \in TaskRec /\ TaskInv(k, r) /\ FinalOf(k, r) /\ (k \in InCall => BoundOf(k, r, tso[k]))
        /\ r.pc = "requestSync"
    BY OfTask DEF RequestSync, pc
  <2>2. task \in [Task -> TaskRec]
    BY <1>0, Types
  <2>3. /\ pending_sync' = (IF r.sync = "other" THEN "other" ELSE "gc")
        /\ task' = [task EXCEPT ![k] = s] /\ UNCHANGED <<capVars, last_free_capability, tso>>
    BY <1>2, <2>2 DEF RequestSync
  <2>4. s \in TaskRec
    <3>1. 0 \in 0..NCaps
      BY ConstantFacts
    <3> QED
      BY <2>1, <3>1, PlaceFacts DEF TaskRec
  <2>5. /\ s.pc = "acquire" /\ s.cap = r.cap /\ s.at = r.at /\ s.cur = r.cur /\ s.sync = r.sync
        /\ s.then = r.then
        /\ s.prev = r.prev /\ s.old = r.old /\ s.i = 0 /\ s.on = r.on /\ s.held = r.held
    BY <2>1 DEF TaskRec
  <2> HIDE DEF s
  <2>6. task'[k] = s /\ \A m \in Task : m # k => task'[m] = task[m]
    BY <2>2, <2>3
  <2> HIDE DEF r
  <2>7. TaskInv(k, s)
    BY <2>1, <2>5 DEF TaskInv, KeepsCap, Gone, InC, Waiting, Inside, Loop, AtHome, Pushing, Exiting, Calling
  <2>8. \A d \in Cap : d \in OwnedOf(s) <=> d \in OwnedOf(r)
    BY <2>1, <2>5, ConstantFacts DEF OwnedOf
  <2>9. SyncInv'
    <3>1. \A m \in Task : ~Stopping(task[m])
      BY <1>0, <1>2 DEF SyncInv
    <3> QED
      BY <2>3, <2>5, <2>6, <3>1 DEF SyncInv
  <2>10. FinalOf(k, task[k])' /\ (k \in Exiter => DrainOf(k, task[k])')
    BY <2>1, <2>5, <2>6 DEF FinalOf, Yielding, DrainOf
  <2>11. r.cur = Null /\ ~InC(r) /\ ~InC(s)
    BY <2>1, <2>5 DEF TaskInv, KeepsCap, Gone, InC, Waiting
  <2>12. /\ r.pc \notin Gone
         /\ \A d \in Cap : ~AtReturn(s, d) /\ ~AtReturn(r, d) /\ ~AtYield(k, s, d) /\ ~AtYield(k, r, d) /\ ~ComingOf(r, d)
    BY <2>1, <2>5 DEF AtReturn, AtYield, ComingOf, Gone
  <2>13. k \in InCall => BoundOf(k, s, tso[k])
    BY <2>1, <2>5 DEF BoundOf, Loop, AtHome, Waiting
  <2>14. sched_state' \in {"running", "interrupting", "shutting"} /\ Onward
    BY <1>0, Types DEF Onward
  <2> QED
    BY <1>2, <2>3, <2>4, <2>5, <2>7, <2>8, <2>9, <2>10, <2>11, <2>12, <2>13, <2>14, StateStepOK DEF
       r
<1> QED
  BY <1>1, <1>2

LEMMA ExitSchedulerOK ==
    ASSUME IInv, HandedOver, NEW k \in Task, exitScheduler(k), UNCHANGED scenario
    PROVE  IInv' /\ HandedOver'
<1>0. TypeOK /\ SyncInv
  BY DEF IInv, TaskSide
<1> DEFINE r == task[k]
<1>1. /\ r \in TaskRec /\ TaskInv(k, r) /\ FinalOf(k, r) /\ k \in Exiter /\ r.pc = "none" /\ NoExit
      /\ \A d \in Cap : running_task[d] = k <=> d \in OwnedOf(r)
  BY OfTask DEF exitScheduler, pc, NoExit
<1>2. task \in [Task -> TaskRec] /\ sched_state \in {"running", "interrupting", "shutting"}
  BY <1>0, Types
<1>3. ASSUME sched_state # "shutting", sched_state' = "interrupting", NEW c \in Cap,
             task' = [task EXCEPT ![k].pc = "return", ![k].cap = c, ![k].on = c, ![k].then = "doGC",
                                  ![k].sync = "gc"]
      PROVE  IInv' /\ HandedOver'
  <2> DEFINE s == [r EXCEPT !.pc = "return", !.cap = c, !.on = c, !.then = "doGC", !.sync = "gc"]
  <2>4. s \in TaskRec
    BY <1>1, <1>3, <1>2, PlaceFacts DEF TaskRec
  <2>5. /\ s.pc = "return" /\ s.cap = c /\ s.at = r.at /\ s.cur = r.cur /\ s.sync = "gc"
        /\ s.then = "doGC"
        /\ s.prev = r.prev /\ s.old = r.old /\ s.i = r.i /\ s.on = c /\ s.held = r.held
    BY <1>1 DEF TaskRec
  <2> HIDE DEF s
  <2>c. task' = [task EXCEPT ![k] = s] /\ UNCHANGED <<capVars, last_free_capability, pending_sync, tso>>
    BY <1>2, <1>3 DEF exitScheduler, s
  <2>6. task'[k] = s /\ \A m \in Task : m # k => task'[m] = task[m]
    BY <1>2, <2>c
  <2> HIDE DEF r
  <2>7. k \notin InCall /\ k \notin Syncer
    BY <1>1, <1>3, ConstantFacts
  <2>8. r.cur = Null /\ ~InC(r) /\ ~InC(s) /\ ~Stopping(s)
    BY <1>1, <1>3, <2>5 DEF TaskInv, KeepsCap, Gone, InC, Waiting, Stopping
  <2>9. TaskInv(k, s)
    BY <1>1, <1>3, <1>2, <2>5, <2>7, <2>8 DEF TaskInv, KeepsCap, Gone, Waiting, Inside, Loop, AtHome, Pushing, Exiting,
       Calling
  <2>10. \A d \in Cap : d \in OwnedOf(s) <=> d \in OwnedOf(r)
    BY <1>1, <1>3, <2>5 DEF OwnedOf
  <2>11. SyncInv'
    BY <1>0, <2>c, <2>6, <2>8 DEF SyncInv
  <2>12. FinalOf(k, task[k])' /\ (k \in Exiter => DrainOf(k, task[k])')
    BY <1>1, <1>3, <2>5, <2>6 DEF FinalOf, Yielding, DrainOf
  <2>13. \A d \in Cap : ~AtReturn(s, d) /\ ~AtReturn(r, d) /\ ~AtYield(k, s, d) /\ ~AtYield(k, r, d) /\ ~ComingOf(r, d)
    BY <1>1, <1>3, <2>5 DEF AtReturn, AtYield, ComingOf
  <2>14. pending_sync' \in {"none", "gc", "other"} /\ Onward
    BY <1>0, <1>1, <1>3, <2>c, Types DEF Onward
  <2> QED
    BY <1>1, <1>3, <2>c, <2>4, <2>5, <2>7, <2>8, <2>9, <2>10, <2>11, <2>12, <2>13, <2>14, StateStepOK DEF r
<1>4. CASE sched_state = "shutting" /\ UNCHANGED sched_state /\ Goto(k, "exitSet")
  <2> DEFINE s == [r EXCEPT !.pc = "exitSet"]
  <2>0. task' = [task EXCEPT ![k] = s]
    BY <1>2, <1>4 DEF Goto
  <2>1. s \in TaskRec
    BY <1>1, PlaceFacts DEF TaskRec
  <2>2. /\ s.pc = "exitSet" /\ s.cap = r.cap /\ s.wakeup = r.wakeup /\ s.at = r.at
        /\ s.on = r.on
        /\ s.then = r.then /\ s.i = r.i /\ s.held = r.held /\ s.cur = r.cur /\ s.sync = r.sync
        /\ s.prev = r.prev /\ s.old = r.old
    BY <1>1 DEF TaskRec
  <2> HIDE DEF s
  <2>5. LocalStep(k, s, Null, Null)
    BY <1>0, <1>4, <2>0, <2>1, LocalGoto DEF exitScheduler, capVars
  <2> HIDE DEF r
  <2>3. TaskInv(k, s)
    BY <1>1, <2>2, ConstantFacts DEF TaskInv, KeepsCap, Gone, InC, Waiting, Inside, Loop, AtHome, Pushing,
       Exiting, Calling, TaskRec
  <2>4. LocalOK(k, r, s, Null)
    BY <1>1, <1>4, <2>2, <2>3, ConstantFacts DEF LocalOK, TaskInv, KeepsCap, Gone, OwnedOf, AtReturn, AtYield,
       Stopping, InC, FinalOf, Yielding, InForeign, BoundOf, ComingOf, Waiting, Inside, Loop,
       AtHome, Pushing, Exiting, Calling, TaskRec
  <2> QED
    BY <1>4, <2>1, <2>4, <2>5, LocalStepOK DEF r
<1>5. CASE sched_state # "shutting"
  BY <1>0, <1>3, <1>5, FreeCapFacts DEF exitScheduler
<1> QED
  BY <1>4, <1>5 DEF exitScheduler

LEMMA ExitSetOK ==
    ASSUME IInv, HandedOver, NEW k \in Task, ExitSet(k), UNCHANGED scenario
    PROVE  IInv' /\ HandedOver'
<1>0. TypeOK /\ SyncInv
  BY DEF IInv, TaskSide
<1> DEFINE r == task[k]
           s == [r EXCEPT !.pc = "shut", !.i = 0]
<1>1. /\ r \in TaskRec /\ TaskInv(k, r) /\ FinalOf(k, r) /\ r.pc = "exitSet"
      /\ sched_state' = "shutting" /\ k \in Exiter
  BY OfTask DEF ExitSet, pc, TaskInv, KeepsCap, Gone, Exiting
<1>2. task \in [Task -> TaskRec]
  BY <1>0, Types
<1>3. task' = [task EXCEPT ![k] = s] /\ UNCHANGED <<capVars, last_free_capability, pending_sync,
                                                    tso>>
  BY <1>2 DEF ExitSet
<1>4. s \in TaskRec
  <2>1. 0 \in 0..NCaps
    BY ConstantFacts
  <2> QED
    BY <1>1, <2>1, PlaceFacts DEF TaskRec
<1>5. /\ s.pc = "shut" /\ s.cap = r.cap /\ s.at = r.at /\ s.cur = r.cur /\ s.sync = r.sync
      /\ s.then = r.then
      /\ s.prev = r.prev /\ s.old = r.old /\ s.i = 0 /\ s.on = r.on /\ s.held = r.held
  BY <1>1 DEF TaskRec
<1> HIDE DEF s
<1>6. task'[k] = s /\ \A m \in Task : m # k => task'[m] = task[m]
  BY <1>2, <1>3
<1> HIDE DEF r
<1>7. k \notin InCall /\ k \notin Syncer
  BY <1>1, ConstantFacts
<1>8. r.cur = Null /\ ~InC(r) /\ ~InC(s) /\ ~Stopping(s)
  BY <1>1, <1>5 DEF TaskInv, KeepsCap, Gone, InC, Waiting, Stopping
<1>9. TaskInv(k, s)
  BY <1>1, <1>5, <1>7, <1>8 DEF TaskInv, KeepsCap, Gone, Waiting, Inside, Loop, AtHome, Pushing, Exiting, Calling
<1>10. \A d \in Cap : d \in OwnedOf(s) <=> d \in OwnedOf(r)
  BY <1>1, <1>5, ConstantFacts DEF OwnedOf
<1>11. SyncInv'
  BY <1>0, <1>3, <1>6, <1>8 DEF SyncInv
<1>12. FinalOf(k, task[k])' /\ DrainOf(k, task[k])'
  BY <1>1, <1>5, <1>6, ConstantFacts DEF FinalOf, Yielding, DrainOf
<1>13. \A d \in Cap : ~AtReturn(s, d) /\ ~AtReturn(r, d) /\ ~AtYield(k, s, d) /\ ~AtYield(k, r, d) /\ ~ComingOf(r, d)
  BY <1>1, <1>5 DEF AtReturn, AtYield, ComingOf
<1>14. pending_sync' \in {"none", "gc", "other"} /\ Onward /\ r.pc \notin Gone
  BY <1>0, <1>1, <1>3, Types DEF Onward, Gone
<1> QED
  BY <1>1, <1>3, <1>4, <1>5, <1>7, <1>8, <1>9, <1>10, <1>11, <1>12, <1>13, <1>14, StateStepOK DEF r

LEMMA FreeSchedulerOK ==
    ASSUME IInv, HandedOver, NEW k \in Task, freeScheduler(k), UNCHANGED scenario
    PROVE  IInv' /\ HandedOver'
<1>0. TypeOK /\ SyncInv /\ DrainInv
  BY DEF IInv, TaskSide
<1> DEFINE r == task[k]
           p == IF \A m \in Task \ {k} : task[m].pc \in {"none", "stopped", "done"} THEN "freed" ELSE "exited"
           s == [r EXCEPT !.pc = p]
<1>1. /\ r \in TaskRec /\ TaskInv(k, r) /\ FinalOf(k, r) /\ r.pc = "shut" /\ r.i = NCaps
      /\ k \in Exiter
  BY OfTask DEF freeScheduler, pc, TaskInv, KeepsCap, Gone, Exiting
<1>2. task \in [Task -> TaskRec]
  BY <1>0, Types
<1>3. task' = [task EXCEPT ![k] = s] /\ UNCHANGED <<capVars, last_free_capability, pending_sync,
                                                    tso, sched_state>>
  BY <1>2 DEF freeScheduler, Goto, pc
<1>p. p \in {"freed", "exited"} /\ (p = "freed" => \A m \in Task \ {k} : task[m].pc \in Gone)
  BY DEF Gone
<1> HIDE DEF p
<1>4. s \in TaskRec
  BY <1>1, <1>2, <1>p, PlaceFacts DEF TaskRec
<1>5. /\ s.pc = p /\ s.cap = r.cap /\ s.at = r.at /\ s.cur = r.cur /\ s.sync = r.sync
      /\ s.then = r.then
      /\ s.prev = r.prev /\ s.old = r.old /\ s.i = r.i /\ s.on = r.on /\ s.held = r.held
  BY <1>1 DEF TaskRec
<1> HIDE DEF s
<1>6. task'[k] = s /\ \A m \in Task : m # k => task'[m] = task[m]
  BY <1>2, <1>3
<1> HIDE DEF r
<1>7. k \notin InCall /\ k \notin Syncer
  BY <1>1, ConstantFacts
<1>8. r.cur = Null /\ ~InC(r) /\ ~InC(s) /\ ~Stopping(s)
  BY <1>1, <1>5, <1>p DEF TaskInv, KeepsCap, Gone, InC, Waiting, Stopping
<1>9. TaskInv(k, s)
  BY <1>1, <1>5, <1>7, <1>8, <1>p DEF TaskInv, KeepsCap, Gone, Waiting, Inside, Loop, AtHome, Pushing, Exiting,
     Calling
<1>10. \A d \in Cap : d \in OwnedOf(s) <=> d \in OwnedOf(r)
  BY <1>1, <1>5, <1>p DEF OwnedOf
<1>11. SyncInv'
  BY <1>0, <1>3, <1>6, <1>8 DEF SyncInv
<1>12. FinalOf(k, task[k])' /\ DrainOf(k, task[k])'
  <2>1. FinalOf(k, task[k])'
    BY <1>1, <1>3, <1>5, <1>6, <1>p DEF FinalOf, Yielding
  <2>2. DrainOf(k, r)
    BY <1>0, <1>1 DEF DrainInv, r
  <2>3. \A d \in Cap, m \in Task : InForeign(task'[m], d) => InForeign(task[m], d)
    BY <1>6, <1>8 DEF InForeign
  <2>4. s.pc = "freed" => s.i = NCaps /\ \A m \in Task \ {k} : task'[m].pc \in Gone
    BY <1>1, <1>5, <1>6, <1>p
  <2> QED
    BY <1>1, <1>3, <1>5, <1>6, <2>1, <2>2, <2>3, <2>4 DEF DrainOf, capVars
<1>13. \A d \in Cap : ~AtReturn(s, d) /\ ~AtReturn(r, d) /\ ~AtYield(k, s, d) /\ ~AtYield(k, r, d) /\ ~ComingOf(r, d)
  BY <1>1, <1>5, <1>p DEF AtReturn, AtYield, ComingOf
<1>14. /\ pending_sync' \in {"none", "gc", "other"} /\ Onward /\ r.pc \notin Gone
       /\ sched_state' \in {"running", "interrupting", "shutting"}
  BY <1>0, <1>1, <1>3, Types DEF Onward, Gone
<1> QED
  BY <1>1, <1>3, <1>4, <1>5, <1>7, <1>8, <1>9, <1>10, <1>11, <1>12, <1>13, <1>14, StateStepOK DEF r

-----------------------------------------------------------------------------
(* releaseCapabilityAndQueueWorker *)

LEMMA YieldReleaseOK ==
    ASSUME IInv, HandedOver, NEW k \in Task, YieldRelease(k), UNCHANGED <<sched_state, scenario>>
    PROVE  IInv' /\ HandedOver'
<1>0. TypeOK /\ QueueInv
  BY DEF IInv, TaskSide
<1> DEFINE r == task[k]
           c == r.at
<1>1. /\ r \in TaskRec /\ TaskInv(k, r) /\ FinalOf(k, r) /\ (k \in InCall => BoundOf(k, r, tso[k]))
      /\ r.pc = "release"
      /\ \A d \in Cap : running_task[d] = k <=> d \in OwnedOf(r)
  BY OfTask DEF YieldRelease, pc
<1>2. task \in [Task -> TaskRec] /\ spare_workers \in [Cap -> Seq(Task)]
  BY <1>0, Types
<1>3. c \in Cap /\ r.cap = c /\ r.then \in {"yielded", "syncWait"} /\ r.cur = Null
  BY <1>1 DEF TaskInv, KeepsCap, Gone, Inside, Loop, AtHome, InC, Waiting
<1> DEFINE asleep == [r EXCEPT !.pc = "sleep", !.wakeup = FALSE]
           stopped == [r EXCEPT !.pc = "stopped", !.wakeup = FALSE, !.cap = Null]
<1>4. /\ asleep \in TaskRec /\ stopped \in TaskRec
      /\ asleep.pc = "sleep" /\ asleep.cap = c /\ stopped.pc = "stopped" /\ stopped.cap = Null
      /\ asleep.at = c /\ asleep.cur = Null /\ asleep.then = r.then /\ asleep.sync = r.sync
      /\ asleep.prev = r.prev /\ asleep.old = r.old
      /\ stopped.at = c /\ stopped.cur = Null /\ stopped.then = r.then /\ stopped.sync = r.sync
  BY <1>1, <1>3, PlaceFacts DEF TaskRec
<1>5. /\ <<k>> \o spare_workers[c] \in Seq(Task)
      /\ \A y : In(<<k>> \o spare_workers[c], y) <=> In(spare_workers[c], y) \/ y = k
      /\ Injective(spare_workers[c]) /\ ~In(spare_workers[c], k) => Injective(<<k>> \o spare_workers[c])
  <2>1. spare_workers[c] \in Seq(Task)
    BY <1>2, <1>3
  <2> HIDE DEF c
  <2> QED
    BY <2>1, PrependFacts
<1>6. \A d \in Cap : ~AtReturn(r, d) /\ ~AtYield(k, r, d) /\ ~ComingOf(r, d) /\ ~InForeign(r, d)
  BY <1>1 DEF AtReturn, AtYield, ComingOf, InForeign, InC, Waiting
<1>7. PICK s \in TaskRec, sp \in Seq(Task) :
         /\ \/ s = asleep /\ k \in InCall /\ sp = spare_workers[c]
            \/ s = asleep /\ k \notin InCall /\ sp = <<k>> \o spare_workers[c]
            \/ s = stopped /\ k \notin InCall /\ sp = spare_workers[c]
         /\ releaseCapability_(c, FALSE, run_queue[c], inbox[c], sp, [task EXCEPT ![k] = s])
         /\ spare_workers' = [spare_workers EXCEPT ![c] = sp]
  <2>1. /\ [task EXCEPT ![k].pc = "sleep", ![k].wakeup = FALSE] = [task EXCEPT ![k] = asleep]
        /\ [task EXCEPT ![k].pc = "stopped", ![k].wakeup = FALSE, ![k].cap = Null] = [task EXCEPT ![k] = stopped]
    BY <1>2
  <2>2. spare_workers[c] \in Seq(Task)
    BY <1>2, <1>3
  <2> HIDE DEF asleep, stopped
  <2>3. CASE k \in InCall
    BY <1>4, <2>1, <2>2, <2>3 DEF YieldRelease, isBoundTask
  <2>4. CASE k \notin InCall /\ Len(spare_workers[c]) < MAX_SPARE_WORKERS
    <3>1. ~(Len(spare_workers[c]) >= MAX_SPARE_WORKERS)
      BY <2>2, <2>4, SpareAssumption
    <3> QED
      BY <1>4, <1>5, <2>1, <2>2, <2>4, <3>1 DEF YieldRelease, isBoundTask
  <2>5. CASE k \notin InCall /\ ~(Len(spare_workers[c]) < MAX_SPARE_WORKERS)
    <3>1. Len(spare_workers[c]) >= MAX_SPARE_WORKERS
      BY <2>2, <2>5, SpareAssumption
    <3> QED
      BY <1>4, <2>1, <2>2, <2>5, <3>1 DEF YieldRelease, isBoundTask
  <2> QED
    BY <2>3, <2>4, <2>5
<1>8. /\ s.pc \in {"sleep", "stopped"} /\ s.at = c /\ s.cur = Null /\ s.then = r.then
      /\ s.sync = r.sync
      /\ s.pc = "sleep" => s.cap = c /\ s.prev = r.prev /\ s.old = r.old
      /\ s.pc = "stopped" => s.cap = Null /\ k \notin InCall
  BY <1>4, <1>7
<1>9. UNCHANGED <<returning_tasks, run_queue, inbox, pending_sync, tso>>
  BY DEF YieldRelease
<1> DEFINE tk == [task EXCEPT ![k] = s]
<1>10. tk \in [Task -> TaskRec] /\ tk[k] = s /\ \A m \in Task : m # k => tk[m] = task[m]
  BY <1>2
<1>11. releaseCapability_(c, FALSE, run_queue[c], inbox[c], sp, tk)
  BY <1>7
<1> HIDE DEF tk, asleep, stopped
<1>12. run_queue[c] \in Seq(TSO) /\ inbox[c] \in Seq(TSO) /\ running_task[c] = k
  <2>1. c \in OwnedOf(r)
    BY <1>1 DEF OwnedOf
  <2> QED
    BY <1>0, <1>1, <1>3, <2>1, Types
<1> HIDE DEF c, r
<1>13. PICK w \in Worker \cup {Null} :
             /\ TaskStep(k, w, c) /\ CapsKept(k, w)
             /\ Like(k, task'[k], tk[k]) /\ task'[k].cap = tk[k].cap
             /\ running_task' = [running_task EXCEPT ![c] = w]
             /\ w = Null => Handing(c, FALSE, run_queue[c], inbox[c], sp)
             /\ last_free_capability' \in Cap
  <2>1. c \in Cap /\ running_task[c] \in {k, Null} /\ tk[k].pc # "none"
    BY <1>3, <1>8, <1>10, <1>12
  <2>2. sp \in Seq(Task) /\ run_queue[c] \in Seq(TSO) /\ inbox[c] \in Seq(TSO)
    BY <1>7, <1>12
  <2>3. tk \in [Task -> TaskRec] /\ \A m \in Task : m # k => tk[m] = task[m]
    BY <1>10
  <2> QED
    BY <1>0, <1>11, <2>1, <2>2, <2>3, ReleaseEffect
<1> DEFINE u == task'[k]
<1>14. /\ u \in TaskRec /\ Like(k, u, s) /\ u.cap = s.cap /\ u.at = c /\ u.cur = Null /\ u.pc = s.pc
       /\ u.sync = s.sync /\ u.then = s.then /\ u.prev = s.prev /\ u.old = s.old
  BY <1>8, <1>10, <1>13 DEF TaskStep, Like
<1> HIDE DEF u
<1>15. ~InC(u) /\ ~Stopping(u)
  BY <1>8, <1>14 DEF InC, Stopping, Waiting
<1>16. TaskInv(k, u)
  BY <1>1, <1>3, <1>8, <1>14, <1>15, ConstantFacts DEF TaskInv, KeepsCap, Gone, Waiting, Inside, Loop, AtHome,
     Pushing, Exiting, Calling
<1>17. FinalOf(k, u)
  BY <1>1, <1>8, <1>14 DEF FinalOf, Yielding
<1>18. ASSUME k \in InCall PROVE BoundOf(k, u, tso[k])
  <2>1. u.pc = "sleep" /\ u.cap = c /\ r.at = c
    BY <1>8, <1>14, <1>18 DEF c
  <2> QED
    BY <1>1, <1>3, <1>14, <1>18, <2>1 DEF BoundOf, Waiting
<1>19. \A d \in Cap : running_task'[d] = k <=> d \in OwnedOf(u)
  <2>1. OwnedOf(u) = {}
    BY <1>8, <1>14 DEF OwnedOf
  <2>2. \A d \in Cap : running_task[d] = k => d = c
    BY <1>1 DEF OwnedOf, c
  <2>3. w # k /\ k # Null
    BY <1>13, ConstantFacts DEF TaskStep
  <2> QED
    BY <1>0, <1>3, <1>13, <2>1, <2>2, <2>3, Types
<1>20. QueueStep(k)
  <2>1. spare_workers' \in [Cap -> Seq(Task)] /\ spare_workers'[c] = sp
        /\ \A d \in Cap : d # c => spare_workers'[d] = spare_workers[d]
    BY <1>2, <1>3, <1>7
  <2>2. \A d \in Cap : /\ Injective(returning_tasks[d]) /\ Injective(spare_workers[d])
                       /\ ~In(returning_tasks[d], k) /\ ~In(spare_workers[d], k)
    BY <1>0, <1>6 DEF QueueInv, r
  <2>3. \A d \in Cap : ~AtReturn(u, d) /\ (AtYield(k, u, d) <=> s.pc = "sleep" /\ k \notin InCall /\ d = c)
    BY <1>8, <1>14 DEF AtReturn, AtYield
  <2>4. Injective(sp) /\ (In(sp, k) <=> s.pc = "sleep" /\ k \notin InCall)
        /\ \A m \in Task : m # k => (In(sp, m) <=> In(spare_workers[c], m))
    BY <1>3, <1>4, <1>5, <1>7, <2>2
  <2>5. returning_tasks' \in [Cap -> Seq(Task)] /\ returning_tasks' = returning_tasks
    BY <1>0, <1>9, Types
  <2> QED
    BY <2>1, <2>2, <2>3, <2>4, <2>5 DEF QueueStep, u
<1>21. \A d \in Cap : running_task'[d] = Null => StaysFree(k, d) \/ ReleasedNow(d)
  <2> SUFFICES ASSUME NEW d \in Cap, running_task'[d] = Null PROVE StaysFree(k, d) \/ ReleasedNow(d)
    OBVIOUS
  <2>1. CASE d = c
    <3>1. w = Null /\ spare_workers'[c] = sp
      BY <1>0, <1>2, <1>3, <1>7, <1>13, <2>1, Types
    <3> QED
      BY <1>9, <1>13, <2>1, <3>1 DEF ReleasedNow
  <2>2. CASE d # c
    <3>1. running_task[d] = Null /\ spare_workers'[d] = spare_workers[d]
      BY <1>0, <1>2, <1>3, <1>7, <1>13, <2>2, Types
    <3> QED
      BY <1>6, <1>9, <3>1 DEF StaysFree, r
  <2> QED
    BY <2>1, <2>2
<1>22. \A d \in Cap : \/ running_task[d] = k
                      \/ /\ spare_workers[d] = <<>> => spare_workers'[d] = <<>>
                         /\ InForeign(u, d) => InForeign(task[k], d)
  <2>1. \A d \in Cap : d # c => spare_workers'[d] = spare_workers[d]
    BY <1>2, <1>3, <1>7
  <2> QED
    BY <1>12, <1>15, <2>1 DEF InForeign
<1>23. k \in Exiter => DrainOf(k, task[k])'
  BY <1>8, <1>14 DEF DrainOf, u
<1>24. task[k].pc \notin Gone /\ task[k].cur = Null
  BY <1>1, <1>3 DEF Gone, r
<1> QED
  <2>1. Quiet(k, w, c)
    BY <1>9, <1>13, <1>14, <1>15, <1>16, <1>17, <1>18, <1>19, <1>20, <1>21, <1>22, <1>23, <1>24 DEF
       Quiet, u
  <2> QED
    BY <1>3, <2>1, QuietStep

-----------------------------------------------------------------------------
(* Steps of the Task k that change the threads, pending_sync and           *)
(* sched_state left alone                                                  *)

LEMMA ActiveStep ==
    ASSUME IInv, HandedOver, NEW k \in Task, NEW w, NEW c \in Cap, TaskStep(k, w, c),
           CapsKept(k, w),
           last_free_capability' \in Cap,
           UNCHANGED <<returning_tasks, spare_workers, pending_sync, sched_state, scenario>>,
           run_queue' \in [Cap -> Seq(TSO)], inbox' \in [Cap -> Seq(TSO)], tso' \in [TSO -> TSORec],
           TaskInv(k, task'[k]), \A d \in Cap : running_task'[d] = k <=> d \in OwnedOf(task'[k]),
           task[k].pc \in Inside, task'[k].pc \in Inside \cup {"ccall"},
           task'[k].pc \notin {"acquire", "synced"}, FinalOf(k, task'[k]),
           \A d \in Cap : running_task[d] = k \/ (run_queue'[d] = run_queue[d] /\ ~InForeign(task'[k], d)),
           \A d \in Cap : running_task'[d] = Null =>
             \/ running_task[d] = Null /\ run_queue'[d] = run_queue[d] /\ inbox'[d] = inbox[d]
             \/ \E aw \in BOOLEAN : Handing(d, aw, run_queue'[d], inbox'[d], spare_workers[d]),
           ThreadSide'
    PROVE  IInv' /\ HandedOver'
<1>1. TypeOK /\ TasksInv /\ OwnInv /\ QueueInv /\ SyncInv /\ FinalInv /\ DrainInv
  BY DEF IInv, TaskSide
<1>2. TypeOK'
  BY <1>1 DEF TypeOK, TaskStep, TaskRec, TSORec
<1>3. TasksInv'
  BY <1>1, TasksKept
<1>4. OwnInv'
  BY <1>1, OwnKept
<1> DEFINE r == task[k]
           u == task'[k]
<1>5. /\ \A d \in Cap : /\ ~AtReturn(r, d) /\ ~AtReturn(u, d) /\ ~AtYield(k, r, d) /\ ~AtYield(k, u, d)
                        /\ ~ComingOf(r, d)
      /\ ~Stopping(u) /\ r.pc \notin Gone /\ u.pc \notin {"shut", "freed", "exited"}
  BY DEF AtReturn, AtYield, ComingOf, Stopping, Inside, Loop, AtHome, Pushing, Waiting, Gone
<1>6. QueueInv'
  <2>1. QueueStep(k)
    BY <1>1, <1>5, QueuesSame
  <2> QED
    BY <1>1, <2>1, QueueKept
<1>7. SyncInv'
  BY <1>1, <1>5, SyncKept
<1>8. Onward /\ sched_state' \in {"running", "interrupting", "shutting"}
  BY <1>1, Types DEF Onward
<1>9. FinalInv'
  <2>1. FinalOf(k, task[k])'
    BY DEF FinalOf
  <2> QED
    BY <1>1, <1>8, <2>1, FinalKept
<1>10. DrainInv'
  <2>1. k \in Exiter => DrainOf(k, task[k])'
    BY <1>5 DEF DrainOf
  <2> QED
    BY <1>1, <1>5, <2>1, DrainKept
<1>11. HandedOver'
  <2>1. \A d \in Cap : running_task'[d] = Null => StaysFree(k, d) \/ ReleasedNow(d)
    BY <1>5 DEF StaysFree, ReleasedNow
  <2> QED
    BY <1>1, <1>2, <1>3, <1>4, <1>6, <1>8, <2>1, HandedKept DEF ThreadSide
<1> QED
  BY <1>2, <1>3, <1>4, <1>6, <1>7, <1>9, <1>10, <1>11 DEF IInv, TaskSide

(* The thread t goes to another place; the others stay where they are. *)
ThreadStep(k, t) ==
    /\ \A u \in TSO : u # t =>
         /\ tso'[u].st = tso[u].st /\ tso'[u].cap = tso[u].cap /\ (tso[u].ops = 0 => tso'[u].ops = 0)
         /\ \A d \in Cap : /\ In(run_queue'[d], u) <=> In(run_queue[d], u)
                           /\ In(inbox'[d], u) <=> In(inbox[d], u)
    /\ \A d \in Cap : Injective(run_queue'[d]) /\ Injective(inbox'[d])
    /\ ThreadOf(t, tso[t])'
    /\ \A m \in Task : m # k => task[m].cur # t
    /\ task'[k].cur # Null => /\ CurOf(k, task'[k], tso'[task'[k].cur])
                              /\ task'[k].cur \in {t, task[k].cur}
    /\ task[k].cur \in {t, Null, task'[k].cur}
    /\ k \in InCall => BoundOf(k, task'[k], tso'[k])
    /\ t \in InCall /\ t # k => BoundOf(t, task'[t], tso'[t])

LEMMA ThreadStepOK ==
    ASSUME IInv, NEW k \in Task, NEW w, NEW c \in Cap, TaskStep(k, w, c), CapsKept(k, w),
           UNCHANGED sched_state, NEW t \in TSO, ThreadStep(k, t)
    PROVE  ThreadSide'
<1>1. TypeOK /\ TasksInv /\ ThreadInv /\ QueuesInv /\ CurInv /\ BoundInv
  BY DEF IInv, TaskSide, ThreadSide
<1>2. \A m \in Task : m # k => task'[m].cur = task[m].cur
  <2> SUFFICES ASSUME NEW m \in Task, m # k PROVE task'[m].cur = task[m].cur
    OBVIOUS
  <2>1. CASE m = w
    <3>1. task[m].pc = "none" /\ task'[m].cur = Null
      BY <2>1, ConstantFacts DEF TaskStep, newTask
    <3>2. ~InC(task[m]) /\ TaskInv(m, task[m])
      BY <1>1, <3>1 DEF TasksInv, InC, Waiting
    <3> QED
      BY <3>1, <3>2 DEF TaskInv, KeepsCap
  <2>2. CASE m # w
    BY <2>2 DEF TaskStep, Like
  <2> QED
    BY <2>1, <2>2
<1>3. ThreadInv'
  <2> SUFFICES ASSUME NEW u \in TSO, u # t PROVE ThreadOf(u, tso[u])'
    BY DEF ThreadInv, ThreadStep
  <2>1. /\ tso'[u].st = tso[u].st /\ tso'[u].cap = tso[u].cap /\ (tso[u].ops = 0 => tso'[u].ops = 0)
        /\ \A d \in Cap : /\ In(run_queue'[d], u) <=> In(run_queue[d], u)
                          /\ In(inbox'[d], u) <=> In(inbox[d], u)
    BY DEF ThreadStep
  <2>2. ThreadOf(u, tso[u])
    BY <1>1 DEF ThreadInv
  <2>3. Stale(tso[u]) => Stale(tso'[u])
    BY <2>1 DEF Stale
  <2>3a. Stale(tso'[u]) <=> Stale(tso[u])'
    BY DEF Stale
  <2>4. ASSUME tso'[u].st \in {"running", "ccall"} PROVE \E m \in Task : task'[m].cur = u
    <3>1. PICK m \in Task : task[m].cur = u
      BY <2>1, <2>2, <2>4 DEF ThreadOf
    <3>2. CASE m = k
      <4>1. task'[k].cur = u
        BY <3>1, <3>2, ConstantFacts DEF ThreadStep
      <4> QED
        BY <4>1
    <3>3. CASE m # k
      BY <1>2, <3>1, <3>3
    <3> QED
      BY <3>2, <3>3
  <2>5. tso'[u].st \notin {"new", "finished"} => tso'[u].cap \in Cap
    BY <2>1, <2>2 DEF ThreadOf
  <2> QED
    BY <2>1, <2>2, <2>3, <2>3a, <2>4, <2>5 DEF ThreadOf
<1>4. QueuesInv'
  BY DEF QueuesInv, ThreadStep
<1>5. CurInv'
  <2>1. ASSUME NEW m \in Task, m # k, task[m].cur # Null
        PROVE CurOf(m, task'[m], tso'[task'[m].cur])
    <3>1. CurOf(m, task[m], tso[task[m].cur]) /\ task[m].cur \in TSO /\ task[m].cur # t
      BY <1>1, <2>1, Types DEF CurInv, ThreadStep, TaskRec
    <3>2. m # w
      <4> SUFFICES ASSUME m = w PROVE FALSE
        OBVIOUS
      <4>1. task'[m].cur = Null
        BY <2>1, ConstantFacts DEF TaskStep, newTask
      <4> QED
        BY <1>2, <2>1, <4>1
    <3>3. task'[m].pc = task[m].pc /\ task'[m].at = task[m].at /\ task'[m].cur = task[m].cur
      BY <2>1, <3>2 DEF TaskStep, Like
    <3>4. tso'[task[m].cur].st = tso[task[m].cur].st /\ tso'[task[m].cur].cap = tso[task[m].cur].cap
      BY <3>1 DEF ThreadStep
    <3> QED
      BY <3>1, <3>3, <3>4 DEF CurOf
  <2>2. ASSUME NEW m \in Task, m # k, task'[k].cur # Null PROVE task'[m].cur # task'[k].cur
    <3>1. task[m].cur # t /\ task'[k].cur \in {t, task[k].cur}
      BY <2>2 DEF ThreadStep
    <3>2. task[k].cur # Null => task[m].cur # task[k].cur
      BY <1>1, <2>2 DEF CurInv
    <3> QED
      BY <1>2, <2>2, <3>1, <3>2
  <2>3. task'[k].cur # Null => CurOf(k, task'[k], tso'[task'[k].cur])
    BY DEF ThreadStep
  <2>4. \A m \in Task : task'[m].cur # Null => CurOf(m, task'[m], tso'[task'[m].cur])
    BY <1>2, <2>1, <2>3
  <2>5. ASSUME NEW m \in Task, NEW n \in Task, task'[m].cur # Null, task'[m].cur = task'[n].cur
        PROVE m = n
    <3>1. CASE m = k \/ n = k
      BY <2>2, <2>5, <3>1
    <3>2. CASE m # k /\ n # k
      BY <1>1, <1>2, <2>5, <3>2 DEF CurInv
    <3> QED
      BY <3>1, <3>2
  <2> QED
    BY <2>4, <2>5 DEF CurInv
<1>6. BoundInv'
  <2> SUFFICES ASSUME NEW u \in InCall PROVE BoundOf(u, task'[u], tso'[u])
    BY DEF BoundInv
  <2>1. CASE u = k \/ u = t
    BY <2>1 DEF ThreadStep
  <2>2. CASE u # k /\ u # t
    <3>1. u \in Task /\ u \in TSO /\ u # w
      BY ConstantFacts DEF TaskStep
    <3>2. BoundOf(u, task[u], tso[u]) /\ Like(u, task'[u], task[u]) /\ task'[u].cap = task[u].cap
      BY <1>1, <2>2, <3>1 DEF BoundInv, TaskStep, CapsKept
    <3>3. tso'[u].st = tso[u].st /\ tso'[u].cap = tso[u].cap
      BY <2>2, <3>1 DEF ThreadStep
    <3> QED
      BY <3>2, <3>3 DEF BoundOf, Like
  <2> QED
    BY <2>1, <2>2
<1> QED
  BY <1>3, <1>4, <1>5, <1>6 DEF ThreadSide

(* k alone takes such a step, and keeps its Capabilities. *)
LEMMA AloneStep ==
    ASSUME IInv, HandedOver, NEW k \in Task, NEW s \in TaskRec, NEW t \in TSO,
           task' = [task EXCEPT ![k] = s],
           UNCHANGED <<running_task, returning_tasks, spare_workers, last_free_capability, pending_sync,
                       sched_state, scenario>>,
           run_queue' \in [Cap -> Seq(TSO)], inbox' \in [Cap -> Seq(TSO)], tso' \in [TSO -> TSORec],
           TaskInv(k, s), \A d \in Cap : d \in OwnedOf(s) <=> d \in OwnedOf(task[k]),
           task[k].pc \in Inside, s.pc \in Inside, s.pc \notin {"acquire", "synced"}, FinalOf(k, s),
           \A d \in Cap : \/ running_task[d] = k
                          \/ /\ run_queue'[d] = run_queue[d]
                             /\ inbox'[d] = inbox[d] \/ running_task[d] # Null,
           ThreadStep(k, t)
    PROVE  IInv' /\ HandedOver'
<1>1. TypeOK /\ OwnInv
  BY DEF IInv, TaskSide
<1>2. PICK c \in Cap : c = 0
  BY ConstantFacts
<1>3. task'[k] = s /\ task' \in [Task -> TaskRec] /\ \A m \in Task : m # k => task'[m] = task[m]
  BY <1>1, Types
<1>4. TaskStep(k, Null, c) /\ CapsKept(k, Null)
  BY <1>1, <1>3, Types DEF TaskStep, CapsKept, Like
<1>5. ThreadSide'
  BY <1>4, ThreadStepOK
<1>6. \A d \in Cap : running_task'[d] = k <=> d \in OwnedOf(s)
  BY <1>1 DEF OwnInv
<1>7. last_free_capability' \in Cap
  BY <1>1, Types
<1>8. \A d \in Cap : ~InForeign(s, d)
  BY DEF InForeign, InC, Waiting, Inside, Loop, AtHome, Pushing
<1>9. k # Null
  BY ConstantFacts
<1>10. \A d \in Cap : running_task[d] = k \/ (run_queue'[d] = run_queue[d] /\ ~InForeign(task'[k], d))
  BY <1>3, <1>8
<1>11. \A d \in Cap : running_task'[d] = Null =>
             running_task[d] = Null /\ run_queue'[d] = run_queue[d] /\ inbox'[d] = inbox[d]
  BY <1>9
<1> QED
  BY <1>3, <1>4, <1>5, <1>6, <1>7, <1>10, <1>11, ActiveStep

LEMMA OfThread ==
    ASSUME IInv, NEW t \in TSO
    PROVE  /\ tso[t] \in TSORec /\ ThreadOf(t, tso[t]) /\ tso \in [TSO -> TSORec]
           /\ run_queue \in [Cap -> Seq(TSO)] /\ inbox \in [Cap -> Seq(TSO)]
           /\ \A m \in Task : task[m].cur = t => tso[t].st \in {"running", "ccall"}
           /\ \A d \in Cap : Injective(run_queue[d]) /\ Injective(inbox[d])
           /\ tso[t].ops \in Nat /\ tso[t].ops \in 0..scenario.maxOps /\ scenario.maxOps \in Nat
<1>1. TypeOK /\ ThreadInv /\ QueuesInv /\ CurInv
  BY DEF IInv, ThreadSide
<1>2. /\ tso \in [TSO -> TSORec] /\ tso[t] \in TSORec /\ scenario \in Scenarios
      /\ run_queue \in [Cap -> Seq(TSO)] /\ inbox \in [Cap -> Seq(TSO)]
  BY <1>1, Types
<1>3. scenario.maxOps \in Nat
  BY <1>2, ScenarioAssumption DEF Scenario
<1>4. tso[t].ops \in 0..scenario.maxOps
  BY <1>2 DEF TSORec
<1>5. \A m \in Task : task[m].cur = t => tso[t].st \in {"running", "ccall"}
  BY <1>1, ConstantFacts DEF CurInv, CurOf
<1>6. tso[t].ops \in Nat
  BY <1>3, <1>4
<1> QED
  BY <1>1, <1>2, <1>3, <1>4, <1>5, <1>6 DEF ThreadInv, QueuesInv

LEMMA OfRunning ==
    ASSUME IInv, NEW k \in Task, task[k].pc \in {"running", "resume"}
    PROVE  LET r == task[k]
               t == task[k].cur
           IN  /\ r \in TaskRec /\ TaskInv(k, r) /\ FinalOf(k, r) /\ task \in [Task -> TaskRec]
               /\ r.at \in Cap /\ r.cap = r.at /\ t \in TSO
               /\ tso[t].st = (IF r.pc = "running" THEN "running" ELSE "ccall") /\ tso[t].cap = r.at
               /\ (k \in InCall \/ t \in InCall) => k = t
               /\ k \notin Syncer /\ k \notin Exiter /\ r.sync # "other"
               /\ \A m \in Task : m # k => task[m].cur # t
               /\ \A d \in Cap : d \in OwnedOf(r) <=> d = r.at
               /\ \A d \in Cap : running_task[d] = k <=> d = r.at
               /\ \A d \in Cap : ~In(run_queue[d], t)
               /\ \A d \in Cap : In(inbox[d], t) => Stale(tso[t])
               /\ tso[t].ops > 0 => \A d \in Cap : ~In(inbox[d], t)
<1> DEFINE r == task[k]
           t == task[k].cur
<1>1. /\ r \in TaskRec /\ TaskInv(k, r) /\ FinalOf(k, r)
      /\ \A d \in Cap : running_task[d] = k <=> d \in OwnedOf(r)
      /\ r.cur # Null => CurOf(k, r, tso[t]) /\ t \in TSO
  BY OfTask
<1>2. TypeOK /\ CurInv
  BY DEF IInv, ThreadSide
<1>3. task \in [Task -> TaskRec]
  BY <1>2, Types
<1>4. r.cur # Null /\ r.at \in Cap /\ r.cap = r.at /\ k \notin Syncer /\ k \notin Exiter /\ r.sync # "other"
  BY <1>1 DEF TaskInv, KeepsCap, Gone, Inside, Calling, Waiting, Exiting
<1>5. /\ tso[t].st = (IF r.pc = "running" THEN "running" ELSE "ccall") /\ tso[t].cap = r.at /\ t \in TSO
      /\ (k \in InCall \/ t \in InCall) => k = t
  BY <1>1, <1>4 DEF CurOf
<1>6. \A m \in Task : m # k => task[m].cur # t
  BY <1>2, <1>4 DEF CurInv
<1>7. \A d \in Cap : d \in OwnedOf(r) <=> d = r.at
  BY <1>1 DEF OwnedOf
<1>8. ThreadOf(t, tso[t])
  BY <1>5, OfThread
<1>9. \A d \in Cap : ~In(run_queue[d], t) /\ (In(inbox[d], t) => Stale(tso[t]))
  BY <1>5, <1>8 DEF ThreadOf
<1>10. tso[t].ops > 0 => \A d \in Cap : ~In(inbox[d], t)
  BY <1>9 DEF Stale
<1> QED
  BY <1>1, <1>3, <1>4, <1>5, <1>6, <1>7, <1>9, <1>10

(* The thread of k stops, and k goes on in the loop. *)
LEMMA StoppedFacts ==
    ASSUME IInv, NEW k \in Task, task[k].pc = "running",
           NEW s \in TaskRec, s.pc \in {"schedule", "doGC", "unlock"}, s.sync = task[k].sync \/ s.sync = "gc",
           s.at = task[k].at, s.cap = task[k].cap, s.cur = Null, s.then = task[k].then, s.prev = task[k].prev,
           s.old = task[k].old
    PROVE  /\ TaskInv(k, s) /\ FinalOf(k, s)
           /\ \A d \in Cap : d \in OwnedOf(s) <=> d \in OwnedOf(task[k])
           /\ s.pc \in Inside /\ task[k].pc \in Inside
<1> DEFINE r == task[k]
<1>1. /\ r \in TaskRec /\ TaskInv(k, r) /\ FinalOf(k, r) /\ r.at \in Cap /\ r.cap = r.at
      /\ k \notin Syncer /\ k \notin Exiter /\ r.sync # "other" /\ \A d \in Cap : d \in OwnedOf(r) <=> d = r.at
  BY OfRunning
<1>2. ~InC(s) /\ s.pc \in Inside /\ r.pc \in Inside
  BY DEF InC, Waiting, Inside, Loop, AtHome
<1>3. TaskInv(k, s)
  BY <1>1, <1>2 DEF TaskInv, KeepsCap, Gone, Waiting, AtHome, Pushing, Exiting, Calling
<1>4. FinalOf(k, s)
  BY <1>1 DEF FinalOf, Yielding
<1>5. \A d \in Cap : d \in OwnedOf(s) <=> d = r.at
  BY DEF OwnedOf
<1> QED
  BY <1>1, <1>2, <1>3, <1>4, <1>5


LEMMA Queued ==
    ASSUME NEW q \in Seq(TSO), Injective(q), NEW t \in TSO, ~In(q, t), NEW p,
           p = Append(q, t) \/ p = <<t>> \o q
    PROVE  p \in Seq(TSO) /\ Injective(p) /\ (\A y : In(p, y) <=> In(q, y) \/ y = t) /\ p # <<>>
<1>1. CASE p = Append(q, t)
  BY <1>1, AppendFacts
<1>2. CASE p = <<t>> \o q
  BY <1>2, PrependFacts
<1> QED
  BY <1>1, <1>2

LEMMA LeavesFacts ==
    ASSUME IInv, NEW t \in TSO, tso[t].ops > 0, NEW st \in {"runnable", "blocked", "ccall"}
    PROVE  LET ts == Leaves(t, st)
           IN  /\ ts \in [TSO -> TSORec] /\ ts[t].st = st /\ ts[t].cap = tso[t].cap
               /\ \A u \in TSO : u # t => ts[u] = tso[u]
<1>1. tso[t] \in TSORec /\ tso \in [TSO -> TSORec] /\ tso[t].ops \in 0..scenario.maxOps /\ scenario.maxOps \in Nat
  BY OfThread
<1> DEFINE x == [tso[t] EXCEPT !.st = st, !.ops = tso[t].ops - 1]
<1>2. tso[t].ops - 1 \in 0..scenario.maxOps
  BY <1>1
<1>3. x \in TSORec /\ x.st = st /\ x.cap = tso[t].cap
  BY <1>1, <1>2 DEF TSORec
<1>4. Leaves(t, st) = [tso EXCEPT ![t] = x]
  BY <1>1 DEF Leaves
<1> HIDE DEF x
<1> QED
  BY <1>1, <1>3, <1>4

(* The thread of k goes back to the run queue. *)
LEMMA RequeuedOK ==
    ASSUME IInv, HandedOver, NEW k \in Task, Running(k), NEW p \in {"schedule", "doGC"},
           NEW sy, sy = task[k].sync \/ sy = "gc",
           NEW q, q = Append(run_queue[task[k].at], task[k].cur) \/ q = <<task[k].cur>> \o run_queue[task[k].at],
           run_queue' = [run_queue EXCEPT ![task[k].at] = q],
           tso' = Leaves(task[k].cur, "runnable"),
           task' = [task EXCEPT ![k] = [task[k] EXCEPT !.pc = p, !.cur = Null, !.sync = sy]],
           UNCHANGED <<running_task, returning_tasks, spare_workers, inbox, last_free_capability, pending_sync,
                       sched_state, scenario>>
    PROVE  IInv' /\ HandedOver'
<1> DEFINE r == task[k]
<1>a. PICK t : t = task[k].cur
  OBVIOUS
<1>b. PICK c : c = task[k].at
  OBVIOUS
<1>c. PICK s : s = [task[k] EXCEPT !.pc = p, !.cur = Null, !.sync = sy]
  OBVIOUS
<1>1. r.pc = "running" /\ tso[t].ops > 0
  BY <1>a DEF Running, pc
<1>2. /\ c \in Cap /\ t \in TSO /\ r.cap = c /\ tso[t].cap = c /\ task \in [Task -> TaskRec]
      /\ (k \in InCall \/ t \in InCall) => k = t
      /\ \A m \in Task : m # k => task[m].cur # t
      /\ \A d \in Cap : running_task[d] = k <=> d = c
      /\ \A d \in Cap : ~In(run_queue[d], t) /\ ~In(inbox[d], t)
  BY <1>a, <1>b, <1>1, OfRunning
<1>3. /\ s \in TaskRec /\ TaskInv(k, s) /\ FinalOf(k, s)
      /\ \A d \in Cap : d \in OwnedOf(s) <=> d \in OwnedOf(r)
      /\ s.pc = p /\ s.at = c /\ s.cur = Null /\ s.pc \in Inside /\ r.pc \in Inside
  <2>1. r \in TaskRec
    BY <1>2
  <2>2. s \in TaskRec
    BY <1>c, <2>1, PlaceFacts DEF TaskRec
  <2>3. /\ s.pc = p /\ s.at = r.at /\ s.cap = r.cap /\ s.cur = Null /\ s.sync = sy
        /\ s.then = r.then
        /\ s.prev = r.prev /\ s.old = r.old
    BY <1>c, <2>1 DEF TaskRec
  <2> HIDE DEF r
  <2>4. /\ TaskInv(k, s) /\ FinalOf(k, s) /\ \A d \in Cap : d \in OwnedOf(s) <=> d \in OwnedOf(r)
        /\ s.pc \in Inside /\ r.pc \in Inside
    BY <1>1, <2>2, <2>3, StoppedFacts DEF r
  <2> QED
    BY <1>b, <2>2, <2>3, <2>4 DEF r
<1>4. /\ run_queue \in [Cap -> Seq(TSO)] /\ inbox \in [Cap -> Seq(TSO)] /\ tso \in [TSO -> TSORec]
      /\ \A d \in Cap : Injective(run_queue[d]) /\ Injective(inbox[d])
  BY <1>2, OfThread
<1>5. /\ tso' \in [TSO -> TSORec] /\ tso'[t].st = "runnable" /\ tso'[t].cap = c
      /\ \A u \in TSO : u # t => tso'[u] = tso[u]
  BY <1>a, <1>1, <1>2, LeavesFacts
<1>6. /\ q \in Seq(TSO) /\ Injective(q) /\ \A y : In(q, y) <=> In(run_queue[c], y) \/ y = t
  <2>1. run_queue[c] \in Seq(TSO) /\ Injective(run_queue[c]) /\ ~In(run_queue[c], t)
    BY <1>2, <1>4
  <2>2. q = Append(run_queue[c], t) \/ q = <<t>> \o run_queue[c]
    BY <1>a, <1>b
  <2> QED
    BY <1>2, <2>1, <2>2, Queued
<1>7. /\ run_queue' \in [Cap -> Seq(TSO)] /\ run_queue'[c] = q
      /\ \A d \in Cap : d # c => run_queue'[d] = run_queue[d]
  BY <1>b, <1>2, <1>4, <1>6
<1>8. task'[k] = s /\ \A m \in Task : m # k => task'[m] = task[m]
  BY <1>c, <1>2
<1>9. ThreadStep(k, t)
  <2>1. \A d \in Cap, u \in TSO : u # t => (In(run_queue'[d], u) <=> In(run_queue[d], u))
    BY <1>6, <1>7
  <2>2. \A d \in Cap : In(run_queue'[d], t) <=> d = c
    BY <1>2, <1>6, <1>7
  <2>3. \A d \in Cap : Injective(run_queue'[d])
    BY <1>4, <1>6, <1>7
  <2>4. ThreadOf(t, tso[t])'
    <3>1. \A d \in Cap : ~In(inbox'[d], t)
      BY <1>2
    <3> QED
      BY <1>2, <1>5, <2>2, <3>1 DEF ThreadOf
  <2>5. k \in InCall => BoundOf(k, s, tso'[k])
    BY <1>2, <1>3, <1>5 DEF BoundOf, Loop, AtHome
  <2>6. task'[k].cur = Null /\ task[k].cur = t
    BY <1>a, <1>3, <1>8
  <2> QED
    BY <1>2, <1>4, <1>5, <1>8, <2>1, <2>3, <2>4, <2>5, <2>6 DEF ThreadStep
<1>10. task' = [task EXCEPT ![k] = s]
  BY <1>c
<1>11. inbox' \in [Cap -> Seq(TSO)]
  BY <1>4
<1> QED
  BY <1>2, <1>3, <1>5, <1>7, <1>9, <1>10, <1>11, AloneStep

LEMMA RunPreemptedOK ==
    ASSUME IInv, HandedOver, NEW k \in Task, RunPreempted(k), UNCHANGED <<sched_state, scenario>>
    PROVE  IInv' /\ HandedOver'
<1>1. Running(k)
  BY DEF RunPreempted
<1>2. task \in [Task -> TaskRec] /\ task[k] \in TaskRec
  BY Types DEF IInv
<1>3. task' = [task EXCEPT ![k] = [task[k] EXCEPT !.pc = "schedule", !.cur = Null, !.sync = task[k].sync]]
  BY <1>2 DEF RunPreempted, Stopped, TaskRec
<1> QED
  BY <1>1, <1>3, RequeuedOK DEF RunPreempted

LEMMA RunHeapOverflowOK ==
    ASSUME IInv, HandedOver, NEW k \in Task, RunHeapOverflow(k), UNCHANGED <<sched_state, scenario>>
    PROVE  IInv' /\ HandedOver'
<1>1. Running(k)
  BY DEF RunHeapOverflow
<1>2. task \in [Task -> TaskRec] /\ task[k] \in TaskRec
  BY Types DEF IInv
<1>3. task' = [task EXCEPT ![k] = [task[k] EXCEPT !.pc = "doGC", !.cur = Null, !.sync = "gc"]]
  BY <1>2 DEF RunHeapOverflow, Stopped, TaskRec
<1> QED
  BY <1>1, <1>3, RequeuedOK DEF RunHeapOverflow

(* The thread of k blocks or finishes. *)
LEMMA ThreadStopsOK ==
    ASSUME IInv, HandedOver, NEW k \in Task, task[k].pc = "running", NEW p,
           p = (IF k \in InCall /\ tso'[task[k].cur].st = "finished" THEN "unlock" ELSE "schedule"),
           tso' \in [TSO -> TSORec], tso'[task[k].cur].cap = tso[task[k].cur].cap,
           tso'[task[k].cur].st \in {"blocked", "finished"},
           tso'[task[k].cur].st = "blocked" => tso[task[k].cur].ops > 0,
           tso'[task[k].cur].st = "finished" => tso'[task[k].cur].ops = tso[task[k].cur].ops,
           \A u \in TSO : u # task[k].cur => tso'[u] = tso[u],
           task' = [task EXCEPT ![k] = [task[k] EXCEPT !.pc = p, !.cur = Null]],
           UNCHANGED <<running_task, returning_tasks, spare_workers, run_queue, inbox, last_free_capability,
                       pending_sync, sched_state, scenario>>
    PROVE  IInv' /\ HandedOver'
<1> DEFINE r == task[k]
<1>a. PICK t : t = task[k].cur
  OBVIOUS
<1>b. PICK c : c = task[k].at
  OBVIOUS
<1>c. PICK s : s = [task[k] EXCEPT !.pc = p, !.cur = Null]
  OBVIOUS
<1>2. /\ c \in Cap /\ t \in TSO /\ r.cap = c /\ tso[t].cap = c /\ task \in [Task -> TaskRec]
      /\ (k \in InCall \/ t \in InCall) => k = t
      /\ \A m \in Task : m # k => task[m].cur # t
      /\ \A d \in Cap : ~In(run_queue[d], t) /\ (In(inbox[d], t) => Stale(tso[t]))
      /\ tso[t].ops > 0 => \A d \in Cap : ~In(inbox[d], t)
  BY <1>a, <1>b, OfRunning
<1>3. /\ s \in TaskRec /\ TaskInv(k, s) /\ FinalOf(k, s)
      /\ \A d \in Cap : d \in OwnedOf(s) <=> d \in OwnedOf(r)
      /\ s.pc = p /\ s.at = c /\ s.cur = Null /\ s.pc \in Inside /\ r.pc \in Inside
  <2>1. r \in TaskRec
    BY <1>2
  <2>2. s \in TaskRec
    BY <1>c, <2>1, PlaceFacts DEF TaskRec
  <2>3. /\ s.pc = p /\ s.at = r.at /\ s.cap = r.cap /\ s.cur = Null /\ s.sync = r.sync
        /\ s.then = r.then
        /\ s.prev = r.prev /\ s.old = r.old
    BY <1>c, <2>1 DEF TaskRec
  <2> HIDE DEF r
  <2>4. /\ TaskInv(k, s) /\ FinalOf(k, s) /\ \A d \in Cap : d \in OwnedOf(s) <=> d \in OwnedOf(r)
        /\ s.pc \in Inside /\ r.pc \in Inside
    BY <2>2, <2>3, StoppedFacts DEF r
  <2> QED
    BY <1>b, <2>2, <2>3, <2>4 DEF r
<1>4. /\ run_queue \in [Cap -> Seq(TSO)] /\ inbox \in [Cap -> Seq(TSO)] /\ tso \in [TSO -> TSORec]
      /\ \A d \in Cap : Injective(run_queue[d]) /\ Injective(inbox[d])
  BY <1>2, OfThread
<1>5. /\ tso'[t].cap = c /\ tso'[t].st \in {"blocked", "finished"} /\ (tso'[t].st = "blocked" => tso[t].ops > 0)
      /\ tso'[t].st = "finished" => tso'[t].ops = tso[t].ops
      /\ \A u \in TSO : u # t => tso'[u] = tso[u]
  BY <1>a, <1>2
<1>8. task'[k] = s /\ \A m \in Task : m # k => task'[m] = task[m]
  BY <1>c, <1>2
<1>9. ThreadStep(k, t)
  <2>4. ThreadOf(t, tso[t])'
    <3>1. \A d \in Cap : ~In(run_queue'[d], t) /\ (In(inbox'[d], t) => In(inbox[d], t))
      BY <1>2
    <3>2. ASSUME NEW d \in Cap, In(inbox'[d], t) PROVE Stale(tso[t])'
      <4>1. Stale(tso[t]) /\ ~(tso[t].ops > 0)
        BY <1>2, <3>1, <3>2
      <4> QED
        BY <1>5, <4>1 DEF Stale
    <3> QED
      BY <1>2, <1>5, <3>1, <3>2 DEF ThreadOf
  <2>5. k \in InCall => BoundOf(k, s, tso'[k])
    <3>1. k \in InCall => k = t /\ s.pc = IF tso'[t].st = "finished" THEN "unlock" ELSE "schedule"
      BY <1>a, <1>2, <1>3
    <3> QED
      BY <1>3, <1>5, <3>1 DEF BoundOf, Loop, AtHome
  <2>6. task'[k].cur = Null /\ task[k].cur = t
    BY <1>a, <1>3, <1>8
  <2> QED
    BY <1>2, <1>4, <1>5, <1>8, <2>4, <2>5, <2>6 DEF ThreadStep
<1>10. task' = [task EXCEPT ![k] = s]
  BY <1>c
<1>11. inbox' \in [Cap -> Seq(TSO)] /\ run_queue' \in [Cap -> Seq(TSO)] /\ s.pc \notin {"acquire", "synced"}
  BY <1>3, <1>4
<1> QED
  BY <1>2, <1>3, <1>5, <1>9, <1>10, <1>11, AloneStep

LEMMA RunBlockOK ==
    ASSUME IInv, HandedOver, NEW k \in Task, RunBlock(k), UNCHANGED <<sched_state, scenario>>
    PROVE  IInv' /\ HandedOver'
<1>a. PICK t : t = task[k].cur
  OBVIOUS
<1>1. task[k].pc = "running" /\ tso[t].ops > 0 /\ tso' = Leaves(t, "blocked")
  BY <1>a DEF RunBlock, Running, pc
<1>2. t \in TSO
  BY <1>a, <1>1, OfRunning
<1>3. /\ tso' \in [TSO -> TSORec] /\ tso'[t].st = "blocked" /\ tso'[t].cap = tso[t].cap
      /\ \A u \in TSO : u # t => tso'[u] = tso[u]
  BY <1>1, <1>2, LeavesFacts
<1>4. task' = [task EXCEPT ![k] = [task[k] EXCEPT !.pc = "schedule", !.cur = Null]]
  BY Types DEF RunBlock, Stopped, IInv
<1>5. UNCHANGED <<running_task, returning_tasks, spare_workers, run_queue, inbox,
                  last_free_capability, pending_sync>>
  BY DEF RunBlock, capVars
<1> QED
  BY <1>a, <1>1, <1>3, <1>4, <1>5, ThreadStopsOK

LEMMA RunFinishOK ==
    ASSUME IInv, HandedOver, NEW k \in Task, RunFinish(k), UNCHANGED <<sched_state, scenario>>
    PROVE  IInv' /\ HandedOver'
<1>a. PICK t : t = task[k].cur
  OBVIOUS
<1>1. task[k].pc = "running" /\ tso' = [tso EXCEPT ![t].st = "finished"]
  BY <1>a DEF RunFinish, pc
<1>2. t \in TSO
  BY <1>a, <1>1, OfRunning
<1>3. /\ tso' \in [TSO -> TSORec] /\ tso'[t].st = "finished" /\ tso'[t].cap = tso[t].cap
      /\ tso'[t].ops = tso[t].ops /\ \A u \in TSO : u # t => tso'[u] = tso[u]
  <2>1. tso[t] \in TSORec /\ tso \in [TSO -> TSORec]
    BY <1>2, OfThread
  <2> DEFINE x == [tso[t] EXCEPT !.st = "finished"]
  <2>2. x \in TSORec /\ x.st = "finished" /\ x.cap = tso[t].cap /\ x.ops = tso[t].ops
    BY <2>1 DEF TSORec
  <2>3. tso' = [tso EXCEPT ![t] = x]
    BY <1>1, <2>1
  <2> HIDE DEF x
  <2> QED
    BY <1>2, <2>1, <2>2, <2>3
<1>4. task' = [task EXCEPT ![k] = [task[k] EXCEPT !.pc = IF k \in InCall THEN "unlock" ELSE "schedule", !.cur = Null]]
  BY Types DEF RunFinish, Stopped, IInv, isBoundTask
<1>5. UNCHANGED <<running_task, returning_tasks, spare_workers, run_queue, inbox,
                  last_free_capability, pending_sync>>
  BY DEF RunFinish, capVars
<1>6. PICK p : p = IF k \in InCall THEN "unlock" ELSE "schedule"
  OBVIOUS
<1>7. task' = [task EXCEPT ![k] = [task[k] EXCEPT !.pc = p, !.cur = Null]]
  BY <1>4, <1>6
<1>8. p = (IF k \in InCall /\ tso'[task[k].cur].st = "finished" THEN "unlock" ELSE "schedule")
  BY <1>a, <1>3, <1>6
<1> QED
  BY <1>a, <1>1, <1>3, <1>5, <1>7, <1>8, ThreadStopsOK

LEMMA ResumeOK ==
    ASSUME IInv, HandedOver, NEW k \in Task, Resume(k), UNCHANGED <<sched_state, scenario>>
    PROVE  IInv' /\ HandedOver'
<1> DEFINE r == task[k]
<1>a. PICK t : t = task[k].cur
  OBVIOUS
<1>b. PICK c : c = task[k].at
  OBVIOUS
<1>c. PICK s : s = [task[k] EXCEPT !.pc = "running"]
  OBVIOUS
<1>1. r.pc = "resume" /\ tso' = [tso EXCEPT ![t].st = "running"] /\ UNCHANGED <<capVars,
                                                                                last_free_capability,
                                                                                pending_sync>>
  BY <1>a DEF Resume, pc
<1>2. /\ r \in TaskRec /\ TaskInv(k, r) /\ FinalOf(k, r)
      /\ c \in Cap /\ t \in TSO /\ r.cap = c /\ tso[t].cap = c /\ task \in [Task -> TaskRec]
      /\ (k \in InCall \/ t \in InCall) => k = t
      /\ k \notin Syncer /\ k \notin Exiter /\ r.sync # "other"
      /\ \A m \in Task : m # k => task[m].cur # t
      /\ \A d \in Cap : ~In(run_queue[d], t) /\ (In(inbox[d], t) => Stale(tso[t])) /\ tso[t].st = "ccall"
      /\ \A d \in Cap : d \in OwnedOf(r) <=> d = r.at
  BY <1>a, <1>b, <1>1, OfRunning
<1>3. s \in TaskRec
  BY <1>c, <1>2, PlaceFacts DEF TaskRec
<1>4. /\ s.pc = "running" /\ s.at = c /\ s.cap = c /\ s.cur = t /\ s.sync = r.sync
      /\ s.then = r.then
      /\ s.prev = r.prev /\ s.old = r.old
  BY <1>a, <1>b, <1>c, <1>2 DEF TaskRec
<1>5. task' = [task EXCEPT ![k] = s]
  BY <1>c, <1>2 DEF Resume, Goto
<1> HIDE DEF r
<1>6. ~InC(s) /\ s.pc \in Inside /\ r.pc \in Inside /\ t # Null /\ s.pc \notin {"acquire", "synced"}
  BY <1>1, <1>2, <1>4, ConstantFacts DEF InC, Waiting, Inside
<1>7. TaskInv(k, s)
  BY <1>1, <1>2, <1>4, <1>6 DEF TaskInv, KeepsCap, Gone, Waiting, AtHome, Pushing, Exiting, Calling
<1>8. FinalOf(k, s) /\ \A d \in Cap : d \in OwnedOf(s) <=> d \in OwnedOf(r)
  <2>1. FinalOf(k, s)
    BY <1>1, <1>2, <1>4 DEF FinalOf, Yielding
  <2>2. \A d \in Cap : d \in OwnedOf(s) <=> d = c
    BY <1>4 DEF OwnedOf
  <2> QED
    BY <1>b, <1>2, <2>1, <2>2 DEF r
<1>9. /\ run_queue \in [Cap -> Seq(TSO)] /\ inbox \in [Cap -> Seq(TSO)] /\ tso \in [TSO -> TSORec]
      /\ \A d \in Cap : Injective(run_queue[d]) /\ Injective(inbox[d])
  BY <1>2, OfThread
<1>10. /\ tso' \in [TSO -> TSORec] /\ tso'[t].st = "running" /\ tso'[t].cap = c
       /\ \A u \in TSO : u # t => tso'[u] = tso[u]
  <2>1. tso[t] \in TSORec
    BY <1>2, <1>9
  <2> DEFINE x == [tso[t] EXCEPT !.st = "running"]
  <2>2. x \in TSORec /\ x.st = "running" /\ x.cap = tso[t].cap
    BY <2>1 DEF TSORec
  <2>3. tso' = [tso EXCEPT ![t] = x]
    BY <1>1, <1>9
  <2> HIDE DEF x
  <2> QED
    BY <1>2, <1>9, <2>2, <2>3
<1>11. task'[k] = s /\ \A m \in Task : m # k => task'[m] = task[m]
  BY <1>2, <1>5
<1>12. UNCHANGED <<running_task, returning_tasks, spare_workers, run_queue, inbox,
                   last_free_capability, pending_sync>>
  BY <1>1 DEF capVars
<1>13. ThreadStep(k, t)
  <2>1. \A d \in Cap : ~In(run_queue'[d], t) /\ ~In(inbox'[d], t)
    BY <1>2, <1>12 DEF Stale
  <2>2. ThreadOf(t, tso[t])'
    BY <1>2, <1>4, <1>10, <1>11, <2>1 DEF ThreadOf
  <2>3. k \in InCall => BoundOf(k, s, tso'[k])
    BY <1>2, <1>4, <1>10 DEF BoundOf
  <2>4. CurOf(k, s, tso'[t])
    BY <1>2, <1>4, <1>10 DEF CurOf
  <2> QED
    BY <1>a, <1>2, <1>4, <1>9, <1>10, <1>11, <1>12, <2>2, <2>3, <2>4 DEF ThreadStep
<1>14. inbox' \in [Cap -> Seq(TSO)] /\ run_queue' \in [Cap -> Seq(TSO)]
  BY <1>9, <1>12
<1> QED
  BY <1>2, <1>3, <1>5, <1>6, <1>7, <1>8, <1>10, <1>12, <1>13, <1>14, AloneStep DEF r

LEMMA BindOK ==
    ASSUME IInv, HandedOver, NEW k \in Task, Bind(k), UNCHANGED <<sched_state, scenario>>
    PROVE  IInv' /\ HandedOver'
<1> DEFINE r == task[k]
<1>b. PICK c : c = task[k].at
  OBVIOUS
<1>c. PICK s : s = [task[k] EXCEPT !.pc = "schedule"]
  OBVIOUS
<1>1. /\ r.pc = "bind" /\ r \in TaskRec /\ TaskInv(k, r) /\ FinalOf(k, r) /\ (k \in InCall => BoundOf(k, r, tso[k]))
      /\ \A d \in Cap : running_task[d] = k <=> d \in OwnedOf(r)
  BY OfTask DEF Bind, pc
<1>2. /\ tso' = Runnable(k, c) /\ run_queue' = [run_queue EXCEPT ![c] = Append(run_queue[c], k)]
      /\ UNCHANGED <<running_task, returning_tasks, spare_workers, inbox, last_free_capability,
                     pending_sync>>
  BY <1>b DEF Bind
<1>3. c \in Cap /\ r.cap = c /\ r.cur = Null /\ k \in InCall
  BY <1>b, <1>1 DEF TaskInv, KeepsCap, Gone, Inside, InC, Waiting
<1>4. k \in TSO /\ k \notin Syncer /\ k \notin Exiter /\ k # Null
  BY <1>3, ConstantFacts
<1>5. task \in [Task -> TaskRec]
  BY Types DEF IInv
<1>6. s \in TaskRec
  BY <1>c, <1>1, PlaceFacts DEF TaskRec
<1>7. s.pc = "schedule" /\ s.at = c /\ s.cap = c /\ s.cur = Null /\ s.sync = r.sync /\ s.then = r.then /\ s.prev = r.prev /\ s.old = r.old
  BY <1>b, <1>c, <1>1, <1>3 DEF TaskRec
<1>8. task' = [task EXCEPT ![k] = s]
  BY <1>c, <1>5 DEF Bind, Goto
<1>9. task'[k] = s /\ \A m \in Task : m # k => task'[m] = task[m]
  BY <1>5, <1>8
<1>10. /\ run_queue \in [Cap -> Seq(TSO)] /\ inbox \in [Cap -> Seq(TSO)] /\ tso \in [TSO -> TSORec]
       /\ \A d \in Cap : Injective(run_queue[d]) /\ Injective(inbox[d])
       /\ ThreadOf(k, tso[k]) /\ \A m \in Task : task[m].cur = k => tso[k].st \in {"running", "ccall"}
  BY <1>4, OfThread
<1> HIDE DEF r
<1>11. tso[k].st = "new"
  <2>1. tso[k].st \in {"new", "migrating", "runnable", "running", "blocked", "ccall", "finished"}
    BY <1>4, <1>10 DEF TSORec
  <2> QED
    BY <1>1, <1>3, <1>4, <1>10, <2>1 DEF BoundOf, ThreadOf, Loop, AtHome, Pushing, Waiting
<1>12. /\ \A d \in Cap : ~In(run_queue[d], k) /\ ~In(inbox[d], k)
       /\ \A m \in Task : task[m].cur # k
  BY <1>10, <1>11 DEF ThreadOf, Stale
<1>13. /\ tso' \in [TSO -> TSORec] /\ tso'[k].st = "runnable" /\ tso'[k].cap = c
       /\ \A u \in TSO : u # k => tso'[u] = tso[u]
  <2>1. tso[k] \in TSORec
    BY <1>4, <1>10
  <2> DEFINE x == [tso[k] EXCEPT !.st = "runnable", !.cap = c]
  <2>2. x \in TSORec /\ x.st = "runnable" /\ x.cap = c
    BY <1>3, <2>1 DEF TSORec
  <2>3. tso' = [tso EXCEPT ![k] = x]
    BY <1>2, <1>10 DEF Runnable
  <2> HIDE DEF x
  <2> QED
    BY <1>4, <1>10, <2>2, <2>3
<1> DEFINE q == Append(run_queue[c], k)
<1>14. q \in Seq(TSO) /\ Injective(q) /\ (\A y : In(q, y) <=> In(run_queue[c], y) \/ y = k)
  <2>1. run_queue[c] \in Seq(TSO) /\ Injective(run_queue[c]) /\ ~In(run_queue[c], k)
    BY <1>3, <1>10, <1>12
  <2> QED
    BY <1>4, <2>1, Queued
<1>15. run_queue' = [run_queue EXCEPT ![c] = q]
  BY <1>2
<1> HIDE DEF q
<1>16. /\ run_queue' \in [Cap -> Seq(TSO)] /\ run_queue'[c] = q
       /\ \A d \in Cap : d # c => run_queue'[d] = run_queue[d]
  BY <1>3, <1>10, <1>14, <1>15
<1>17. ThreadStep(k, k)
  <2>1. \A d \in Cap, u \in TSO : u # k => (In(run_queue'[d], u) <=> In(run_queue[d], u))
    BY <1>14, <1>16
  <2>2. \A d \in Cap : (In(run_queue'[d], k) <=> d = c) /\ ~In(inbox'[d], k) /\ Injective(run_queue'[d])
    BY <1>2, <1>10, <1>12, <1>14, <1>16
  <2>3. ThreadOf(k, tso[k])'
    BY <1>3, <1>13, <2>2 DEF ThreadOf
  <2>4. BoundOf(k, s, tso'[k])
    BY <1>7, <1>13 DEF BoundOf, Loop, AtHome
  <2> QED
    BY <1>2, <1>3, <1>7, <1>9, <1>10, <1>12, <1>13, <2>1, <2>2, <2>3, <2>4 DEF ThreadStep, r
<1>18. TaskInv(k, s) /\ FinalOf(k, s)
  BY <1>1, <1>3, <1>4, <1>7 DEF TaskInv, KeepsCap, Gone, InC, Waiting, AtHome, Inside, Loop, Pushing, Exiting,
     Calling, FinalOf, Yielding
<1>19. \A d \in Cap : (d \in OwnedOf(s) <=> d \in OwnedOf(r)) /\ (d \in OwnedOf(r) <=> d = c)
  BY <1>b, <1>1, <1>7 DEF OwnedOf, r
<1>20. s.pc \in Inside /\ r.pc \in Inside /\ s.pc \notin {"acquire", "synced"} /\ inbox' \in [Cap -> Seq(TSO)]
  BY <1>1, <1>2, <1>7, <1>10 DEF Inside, Loop, AtHome
<1>21. \A d \in Cap : running_task[d] = k \/ (run_queue'[d] = run_queue[d] /\ inbox'[d] = inbox[d])
  BY <1>1, <1>2, <1>16, <1>19
<1> QED
  BY <1>2, <1>4, <1>6, <1>8, <1>13, <1>16, <1>17, <1>18, <1>19, <1>20, <1>21, AloneStep DEF r

LEMMA PickNothingOK ==
    ASSUME IInv, HandedOver, NEW k \in Task, task[k].pc = "pick", Goto(k, "schedule"),
           UNCHANGED <<capVars, last_free_capability, tso, pending_sync, sched_state, scenario>>
    PROVE  IInv' /\ HandedOver'
<1>0. TypeOK
  BY DEF IInv
<1> DEFINE r == task[k]
<1>1. /\ r \in TaskRec /\ TaskInv(k, r) /\ FinalOf(k, r) /\ (k \in InCall => BoundOf(k, r, tso[k]))
      /\ \A d \in Cap : running_task[d] = k <=> d \in OwnedOf(r)
  BY OfTask
<1>c. PICK s : s = [task[k] EXCEPT !.pc = "schedule"]
  OBVIOUS
<1>2. s \in TaskRec
  BY <1>c, <1>1, PlaceFacts DEF TaskRec
<1>3. /\ s.pc = "schedule" /\ s.cap = r.cap /\ s.wakeup = r.wakeup /\ s.at = r.at /\ s.on = r.on
      /\ s.then = r.then /\ s.i = r.i /\ s.held = r.held /\ s.cur = r.cur /\ s.sync = r.sync
      /\ s.prev = r.prev /\ s.old = r.old
  BY <1>c, <1>1 DEF TaskRec
<1>4. task' = [task EXCEPT ![k] = s]
  BY <1>0, <1>c, Types DEF Goto
<1>5. r.pc = "pick"
  OBVIOUS
<1> HIDE DEF r
<1>6. TaskInv(k, s)
  BY <1>1, <1>3, <1>5, ConstantFacts DEF TaskInv, KeepsCap, Gone, InC, Waiting, Inside, Loop, AtHome, Pushing,
     Exiting, Calling, TaskRec
<1>7. LocalOK(k, r, s, Null)
  BY <1>1, <1>3, <1>5, <1>6, ConstantFacts DEF LocalOK, TaskInv, KeepsCap, Gone, OwnedOf, AtReturn, AtYield,
     Stopping, InC, FinalOf, Yielding, InForeign, BoundOf, ComingOf, Waiting, Inside, Loop,
     AtHome, Pushing, Exiting, Calling, TaskRec
<1>8. LocalStep(k, s, Null, Null)
  BY <1>0, <1>2, <1>4, LocalGoto
<1> QED
  BY <1>2, <1>7, <1>8, LocalStepOK DEF r

LEMMA PickThreadOK ==
    ASSUME IInv, HandedOver, NEW k \in Task, PickThread(k), UNCHANGED <<sched_state, scenario>>
    PROVE  IInv' /\ HandedOver'
<1> DEFINE r == task[k]
<1>b. PICK c : c = task[k].at
  OBVIOUS
<1>d. PICK q : q = run_queue[c]
  OBVIOUS
<1>1. /\ r.pc = "pick" /\ r \in TaskRec /\ TaskInv(k, r) /\ FinalOf(k, r) /\ (k \in InCall => BoundOf(k, r, tso[k]))
      /\ \A d \in Cap : running_task[d] = k <=> d \in OwnedOf(r)
  BY OfTask DEF PickThread, pc
<1>2. UNCHANGED <<running_task, returning_tasks, spare_workers, inbox, last_free_capability,
                  pending_sync>>
  BY DEF PickThread
<1>3. CASE Goto(k, "schedule") /\ UNCHANGED <<run_queue, tso>>
  BY <1>1, <1>2, <1>3, PickNothingOK DEF capVars
<1>4. ASSUME q # <<>>, bound(Head(q)) = (IF isBoundTask(k) THEN k ELSE Null),
             run_queue' = [run_queue EXCEPT ![c] = Tail(q)],
             tso' = [tso EXCEPT ![Head(q)].st = "running",
                                ![Head(q)].ops = IF sched_state = "running" THEN @ ELSE 0],
             task' = [task EXCEPT ![k].pc = "running", ![k].cur = Head(q)]
      PROVE  IInv' /\ HandedOver'
  <2>1. c \in Cap /\ r.cap = c /\ r.cur = Null
    BY <1>b, <1>1 DEF TaskInv, KeepsCap, Gone, Inside, Loop, AtHome, InC, Waiting
  <2>a. PICK t : t = Head(q)
    OBVIOUS
  <2>c. PICK s : s = [task[k] EXCEPT !.pc = "running", !.cur = t]
    OBVIOUS
  <2>2. /\ run_queue \in [Cap -> Seq(TSO)] /\ inbox \in [Cap -> Seq(TSO)] /\ tso \in [TSO -> TSORec]
        /\ task \in [Task -> TaskRec] /\ QueuesInv /\ scenario \in Scenarios
    BY Types DEF IInv, ThreadSide
  <2>3. /\ t \in TSO /\ In(q, t) /\ Tail(q) \in Seq(TSO) /\ Injective(Tail(q))
        /\ \A y : In(Tail(q), y) <=> In(q, y) /\ y # t
    <3>1. q \in Seq(TSO) /\ Injective(q)
      BY <1>d, <2>1, <2>2 DEF QueuesInv
    <3> QED
      BY <1>4, <2>a, <3>1, TailFacts
  <2>4. /\ ThreadOf(t, tso[t]) /\ tso[t] \in TSORec /\ scenario.maxOps \in Nat
        /\ \A m \in Task : task[m].cur = t => tso[t].st \in {"running", "ccall"}
    BY <2>3, OfThread
  <2>5. /\ tso[t].st = "runnable" /\ tso[t].cap = c
        /\ \A d \in Cap : (In(inbox[d], t) => Stale(tso[t])) /\ (In(run_queue[d], t) <=> d = c)
        /\ \A m \in Task : task[m].cur # t
    BY <1>d, <2>1, <2>3, <2>4 DEF ThreadOf
  <2>6. t # Null /\ ((k \in InCall \/ t \in InCall) => k = t) /\ k # Null
    BY <1>4, <2>a, <2>3, ConstantFacts DEF bound, isBoundTask
  <2>7. /\ tso' \in [TSO -> TSORec] /\ tso'[t].st = "running" /\ tso'[t].cap = c
        /\ (tso[t].ops = 0 => tso'[t].ops = 0) /\ \A u \in TSO : u # t => tso'[u] = tso[u]
    <3> DEFINE n == IF sched_state = "running" THEN tso[t].ops ELSE 0
               x == [tso[t] EXCEPT !.st = "running", !.ops = n]
    <3>1. n \in 0..scenario.maxOps /\ (tso[t].ops = 0 => n = 0)
      BY <2>4 DEF TSORec
    <3>2. tso' = [tso EXCEPT ![t] = x]
      BY <1>4, <2>a, <2>2
    <3> HIDE DEF n
    <3>3. x \in TSORec /\ x.st = "running" /\ x.cap = tso[t].cap /\ x.ops = n
      BY <2>4, <3>1 DEF TSORec
    <3> HIDE DEF x
    <3> QED
      BY <2>2, <2>3, <2>5, <3>1, <3>2, <3>3
  <2>8. s \in TaskRec
    BY <2>c, <1>1, <2>3, PlaceFacts DEF TaskRec
  <2>9. /\ s.pc = "running" /\ s.at = c /\ s.cap = c /\ s.cur = t /\ s.sync = r.sync
        /\ s.then = r.then
        /\ s.prev = r.prev /\ s.old = r.old
    BY <2>c, <1>b, <1>1, <2>1 DEF TaskRec
  <2>10. task' = [task EXCEPT ![k] = s] /\ task'[k] = s /\ \A m \in Task : m # k => task'[m] = task[m]
    BY <1>4, <2>a, <2>c, <2>2
  <2>11. /\ run_queue' \in [Cap -> Seq(TSO)] /\ run_queue'[c] = Tail(q)
         /\ \A d \in Cap : d # c => run_queue'[d] = run_queue[d]
    BY <1>4, <2>1, <2>2, <2>3
  <2> HIDE DEF r
  <2>12. k \notin Syncer /\ k \notin Exiter
    BY <1>1 DEF TaskInv, KeepsCap, Gone, Calling, Waiting, Exiting
  <2>13. TaskInv(k, s)
    BY <1>1, <2>1, <2>6, <2>9, <2>12 DEF TaskInv, KeepsCap, Gone, InC, Waiting, AtHome, Inside, Loop, Pushing,
       Exiting
  <2>14. FinalOf(k, s)
    BY <1>1, <2>9 DEF FinalOf, Yielding
  <2>15. \A d \in Cap : (d \in OwnedOf(s) <=> d \in OwnedOf(r)) /\ (d \in OwnedOf(r) <=> d = c)
    BY <1>b, <1>1, <2>9 DEF OwnedOf, r
  <2>16. ThreadStep(k, t)
    <3>1. \A d \in Cap, u \in TSO : u # t => (In(run_queue'[d], u) <=> In(run_queue[d], u))
      BY <1>d, <2>3, <2>11
    <3>2. \A d \in Cap : ~In(run_queue'[d], t) /\ Injective(run_queue'[d]) /\ Injective(inbox'[d])
      BY <1>2, <2>2, <2>3, <2>5, <2>11 DEF QueuesInv
    <3>3. ThreadOf(t, tso[t])'
      <4>1. ASSUME NEW d \in Cap, In(inbox'[d], t) PROVE Stale(tso[t])'
        BY <1>2, <2>5, <2>7, <4>1 DEF Stale
      <4> QED
        BY <2>1, <2>7, <2>9, <2>10, <3>2, <4>1 DEF ThreadOf
    <3>4. k \in InCall => BoundOf(k, s, tso'[k])
      BY <2>6, <2>7, <2>9 DEF BoundOf
    <3>5. CurOf(k, s, tso'[t])
      BY <2>6, <2>7, <2>9 DEF CurOf
    <3> QED
      BY <1>2, <2>1, <2>5, <2>6, <2>7, <2>9, <2>10, <3>1, <3>2, <3>3, <3>4, <3>5 DEF ThreadStep, r
  <2>17. /\ s.pc \in Inside /\ r.pc \in Inside /\ s.pc \notin {"acquire", "synced"}
         /\ inbox' \in [Cap -> Seq(TSO)]
    BY <1>1, <1>2, <2>2, <2>9 DEF Inside, Loop, AtHome
  <2>18. \A d \in Cap : running_task[d] = k \/ (run_queue'[d] = run_queue[d] /\ inbox'[d] = inbox[d])
    BY <1>1, <1>2, <2>11, <2>15
  <2> QED
    BY <1>2, <2>3, <2>7, <2>8, <2>10, <2>11, <2>13, <2>14, <2>15, <2>16, <2>17, <2>18, AloneStep DEF
       r
<1> QED
  BY <1>b, <1>d, <1>3, <1>4 DEF PickThread

(* The running thread spends one of its operations on the thread t. *)
LEMMA SpendFacts ==
    ASSUME IInv, NEW k \in Task, Running(k), NEW t \in TSO, t # task[k].cur, NEW x \in TSORec,
           NEW ts \in [TSO -> TSORec], ts[t] = x, \A u \in TSO : u # t => ts[u] = tso[u], NEW n, n = Spend(k, ts)
    PROVE  /\ n \in [TSO -> TSORec] /\ n[t] = x
           /\ n[task[k].cur].st = "running" /\ n[task[k].cur].cap = tso[task[k].cur].cap
           /\ \A u \in TSO : u # t /\ u # task[k].cur => n[u] = tso[u]
<1>a. PICK v : v = task[k].cur
  OBVIOUS
<1>1. task[k].pc = "running" /\ tso[v].ops > 0
  BY <1>a DEF Running, pc
<1>2. v \in TSO /\ tso[v].st = "running" /\ v # t
  BY <1>a, <1>1, OfRunning
<1>3. /\ tso[v] \in TSORec /\ tso \in [TSO -> TSORec] /\ tso[v].ops \in 0..scenario.maxOps
      /\ scenario.maxOps \in Nat
  BY <1>2, OfThread
<1> DEFINE y == [tso[v] EXCEPT !.ops = tso[v].ops - 1]
<1>4. tso[v].ops - 1 \in 0..scenario.maxOps
  BY <1>1, <1>3
<1>5. y \in TSORec /\ y.st = "running" /\ y.cap = tso[v].cap
  BY <1>2, <1>3, <1>4 DEF TSORec
<1>6. ts[v] = tso[v]
  BY <1>2
<1>7. Spend(k, ts) = [ts EXCEPT ![v] = y]
  BY <1>a, <1>6 DEF Spend
<1> HIDE DEF y
<1> QED
  BY <1>a, <1>2, <1>5, <1>6, <1>7

(* A thread becomes runnable here. *)
LEMMA WokenHereOK ==
    ASSUME IInv, HandedOver, NEW k \in Task, Running(k), NEW t \in TSO, t # task[k].cur,
           tso[t].st \in {"new", "blocked"}, \A d \in Cap : ~In(inbox[d], t),
           t \in InCall => tso[t].st = "blocked" /\ tso[t].cap = task[k].at,
           NEW l \in BOOLEAN, tso' = Spend(k, [Runnable(t, task[k].at) EXCEPT ![t].locked = l]),
           run_queue' = [run_queue EXCEPT ![task[k].at] = Append(@, t)],
           UNCHANGED <<running_task, returning_tasks, spare_workers, inbox, last_free_capability, pending_sync,
                       sched_state, scenario, task>>
    PROVE  IInv' /\ HandedOver'
<1> DEFINE r == task[k]
<1>v. PICK v : v = task[k].cur
  OBVIOUS
<1>b. PICK c : c = task[k].at
  OBVIOUS
<1>1. r.pc = "running" /\ tso[v].ops > 0
  BY <1>v DEF Running, pc
<1>2. /\ c \in Cap /\ v \in TSO /\ tso[v].cap = c /\ task \in [Task -> TaskRec]
      /\ tso[v].st = "running"
      /\ r \in TaskRec /\ TaskInv(k, r) /\ FinalOf(k, r)
      /\ (k \in InCall \/ v \in InCall) => k = v
      /\ \A d \in Cap : running_task[d] = k <=> d = c
  BY <1>v, <1>b, <1>1, OfRunning
<1>3. /\ run_queue \in [Cap -> Seq(TSO)] /\ inbox \in [Cap -> Seq(TSO)] /\ tso \in [TSO -> TSORec]
      /\ \A d \in Cap : Injective(run_queue[d]) /\ Injective(inbox[d])
      /\ ThreadOf(t, tso[t]) /\ tso[t] \in TSORec
      /\ \A m \in Task : task[m].cur = t => tso[t].st \in {"running", "ccall"}
  BY OfThread
<1>4. \A d \in Cap : ~In(run_queue[d], t)
  BY <1>3 DEF ThreadOf
<1>5. \A m \in Task : task[m].cur # t
  BY <1>3
<1> DEFINE x == [tso[t] EXCEPT !.st = "runnable", !.cap = c, !.locked = l]
<1>6. x \in TSORec /\ x.st = "runnable" /\ x.cap = c
  BY <1>2, <1>3 DEF TSORec
<1>7. [Runnable(t, c) EXCEPT ![t].locked = l] = [tso EXCEPT ![t] = x]
  BY <1>3 DEF Runnable
<1> HIDE DEF x
<1>8. /\ tso' \in [TSO -> TSORec] /\ tso'[t] = x /\ tso'[v].st = "running" /\ tso'[v].cap = c
      /\ \A u \in TSO : u # t /\ u # v => tso'[u] = tso[u]
  <2>1. PICK ts : ts = [tso EXCEPT ![t] = x]
    OBVIOUS
  <2>2. PICK n : n = Spend(k, ts)
    OBVIOUS
  <2>3. tso' = n
    BY <1>b, <1>7, <2>1, <2>2
  <2>t. ts \in [TSO -> TSORec] /\ ts[t] = x /\ \A u \in TSO : u # t => ts[u] = tso[u]
    BY <1>3, <1>6, <2>1
  <2>4. /\ n \in [TSO -> TSORec] /\ n[t] = x
        /\ n[task[k].cur].st = "running" /\ n[task[k].cur].cap = tso[task[k].cur].cap
        /\ \A u \in TSO : u # t /\ u # task[k].cur => n[u] = tso[u]
    BY <1>6, <2>2, <2>t, SpendFacts
  <2> QED
    BY <1>v, <1>2, <2>3, <2>4
<1>q. PICK q : q = Append(run_queue[c], t)
  OBVIOUS
<1>9. q \in Seq(TSO) /\ Injective(q) /\ (\A y : In(q, y) <=> In(run_queue[c], y) \/ y = t)
  <2>1. run_queue[c] \in Seq(TSO) /\ Injective(run_queue[c]) /\ ~In(run_queue[c], t)
    BY <1>2, <1>3, <1>4
  <2> QED
    BY <1>q, <2>1, Queued
<1>10. run_queue' = [run_queue EXCEPT ![c] = q]
  BY <1>b, <1>q
<1>11. /\ run_queue' \in [Cap -> Seq(TSO)] /\ run_queue'[c] = q
       /\ \A d \in Cap : d # c => run_queue'[d] = run_queue[d]
  <2>1. c \in Cap /\ run_queue \in [Cap -> Seq(TSO)] /\ q \in Seq(TSO)
    BY <1>2, <1>3, <1>9
  <2> QED
    BY <1>10, <2>1
<1>12. ThreadStep(k, t)
  <2>1. \A d \in Cap, u \in TSO : u # t => (In(run_queue'[d], u) <=> In(run_queue[d], u))
    BY <1>9, <1>11
  <2>2. \A d \in Cap : (In(run_queue'[d], t) <=> d = c) /\ ~In(inbox'[d], t) /\ Injective(run_queue'[d])
    BY <1>3, <1>4, <1>9, <1>11
  <2>3. ThreadOf(t, tso[t])'
    BY <1>2, <1>6, <1>8, <2>2 DEF ThreadOf
  <2>4. \A u \in TSO : u # t => tso'[u].st = tso[u].st /\ tso'[u].cap = tso[u].cap /\ (tso[u].ops = 0 => tso'[u].ops = 0)
    BY <1>1, <1>2, <1>8
  <2>5. k \in InCall => BoundOf(k, task[k], tso'[k])
    BY <1>v, <1>2, <1>8 DEF BoundOf
  <2>6. ASSUME t \in InCall PROVE BoundOf(t, task[t], tso'[t])
    <3>1. BoundOf(t, task[t], tso[t])
      BY <2>6 DEF IInv, ThreadSide, BoundInv
    <3> QED
      BY <1>b, <1>6, <1>8, <2>6, <3>1 DEF BoundOf
  <2>7. CurOf(k, task[k], tso'[v])
    BY <1>v, <1>b, <1>1, <1>2, <1>8 DEF CurOf
  <2> QED
    BY <1>v, <1>3, <1>5, <2>1, <2>2, <2>3, <2>4, <2>5, <2>6, <2>7 DEF ThreadStep
<1>13. task' = [task EXCEPT ![k] = r]
  BY <1>2
<1>14. r.pc \in Inside /\ r.pc \notin {"acquire", "synced"} /\ inbox' \in [Cap -> Seq(TSO)]
  BY <1>1, <1>3 DEF Inside
<1> QED
  BY <1>2, <1>8, <1>11, <1>12, <1>13, <1>14, AloneStep

(* sendMessage sets a free Capability going. *)
LEMMA SetGoing ==
    ASSUME IInv, NEW k \in Task, NEW d \in Cap, running_task[d] # k, task[k].pc # "none",
           NEW ib \in Seq(TSO),
           IF running_task[d] = Null
             THEN releaseCapability_(d, FALSE, run_queue[d], ib, spare_workers[d], task)
             ELSE UNCHANGED <<running_task, last_free_capability, task>>
    PROVE  \E w : /\ TaskStep(k, w, d) /\ CapsKept(k, w)
                  /\ Like(k, task'[k], task[k]) /\ task'[k].cap = task[k].cap
                  /\ last_free_capability' \in Cap
                  /\ \A e \in Cap : e # d => running_task'[e] = running_task[e]
                  /\ running_task'[d] # k
                  /\ running_task'[d] = Null => Handing(d, FALSE, run_queue[d], ib, spare_workers[d])
<1>0. TypeOK
  BY DEF IInv
<1>1. task \in [Task -> TaskRec]
  BY <1>0, Types
<1>3. CASE running_task[d] = Null
  <2>1. releaseCapability_(d, FALSE, run_queue[d], ib, spare_workers[d], task)
    BY <1>3
  <2>2. run_queue[d] \in Seq(TSO) /\ spare_workers[d] \in Seq(Task) /\ running_task[d] \in {k, Null} /\ task[k].pc # "none"
    BY <1>0, <1>3, Types
  <2>3. PICK w \in Worker \cup {Null} :
           /\ TaskStep(k, w, d) /\ CapsKept(k, w)
           /\ Like(k, task'[k], task[k]) /\ task'[k].cap = task[k].cap
           /\ running_task' = [running_task EXCEPT ![d] = w]
           /\ w = Null => Handing(d, FALSE, run_queue[d], ib, spare_workers[d])
           /\ last_free_capability' \in Cap
    <3>1. PICK tk : tk = task
      OBVIOUS
    <3>2. tk \in [Task -> TaskRec] /\ tk[k].pc # "none" /\ \A m \in Task : m # k => tk[m] = task[m]
      BY <1>1, <2>2, <3>1
    <3>3. releaseCapability_(d, FALSE, run_queue[d], ib, spare_workers[d], tk) /\ ib \in Seq(TSO)
      BY <2>1, <3>1
    <3>4. \E w \in Worker \cup {Null} :
           /\ TaskStep(k, w, d) /\ CapsKept(k, w)
           /\ Like(k, task'[k], tk[k]) /\ task'[k].cap = tk[k].cap
           /\ running_task' = [running_task EXCEPT ![d] = w]
           /\ w = Null => Handing(d, FALSE, run_queue[d], ib, spare_workers[d])
           /\ last_free_capability' \in Cap
      BY <1>0, <2>2, <3>2, <3>3, ReleaseEffect
    <3> QED
      BY <3>1, <3>4
  <2>4. w # k
    BY <2>3, ConstantFacts DEF TaskStep
  <2>5. running_task'[d] = w /\ \A e \in Cap : e # d => running_task'[e] = running_task[e]
    BY <1>0, <2>3, Types
  <2> QED
    BY <2>3, <2>4, <2>5
<1>4. CASE running_task[d] # Null
  <2>1. UNCHANGED <<running_task, last_free_capability, task>>
    BY <1>4
  <2>2. TaskStep(k, Null, d) /\ CapsKept(k, Null) /\ Like(k, task'[k], task[k]) /\ task'[k].cap = task[k].cap
    BY <1>0, <2>1, Types DEF TaskStep, CapsKept, Like
  <2> QED
    BY <1>0, <1>4, <2>1, <2>2, Types
<1> QED
  BY <1>3, <1>4

(* A message for t is sent to the Capability d. *)
LEMMA SentOK ==
    ASSUME IInv, HandedOver, NEW k \in Task, Running(k), NEW t \in TSO, t # task[k].cur,
           NEW d \in Cap,
           d # task[k].at, \A e \in Cap : ~In(inbox[e], t), NEW x \in TSORec, x.cap = d,
           \/ tso[t].st = "blocked" /\ x = tso[t]
           \/ tso[t].st = "new" /\ x.st = "migrating" /\ t \notin InCall,
           NEW n \in [TSO -> TSORec], n[t] = x, n[task[k].cur].st = "running",
           n[task[k].cur].cap = tso[task[k].cur].cap,
           \A u \in TSO : u # t /\ u # task[k].cur => n[u] = tso[u], sendMessage(t, d, n),
           UNCHANGED <<returning_tasks, spare_workers, pending_sync, sched_state, scenario>>
    PROVE  IInv' /\ HandedOver'
<1>0. TypeOK
  BY DEF IInv
<1> DEFINE r == task[k]
<1>v. PICK v : v = task[k].cur
  OBVIOUS
<1>b. PICK c : c = task[k].at
  OBVIOUS
<1>1. r.pc = "running" /\ tso[v].ops > 0
  BY <1>v DEF Running, pc
<1>2. /\ c \in Cap /\ v \in TSO /\ tso[v].cap = c /\ task \in [Task -> TaskRec]
      /\ tso[v].st = "running"
      /\ r \in TaskRec /\ TaskInv(k, r) /\ FinalOf(k, r)
      /\ (k \in InCall \/ v \in InCall) => k = v
      /\ \A e \in Cap : (running_task[e] = k <=> e = c) /\ (e \in OwnedOf(r) <=> e = c)
  BY <1>v, <1>b, <1>1, OfRunning
<1>3. /\ run_queue \in [Cap -> Seq(TSO)] /\ inbox \in [Cap -> Seq(TSO)] /\ tso \in [TSO -> TSORec]
      /\ \A e \in Cap : Injective(run_queue[e]) /\ Injective(inbox[e])
      /\ ThreadOf(t, tso[t]) /\ tso[t] \in TSORec
      /\ \A m \in Task : task[m].cur = t => tso[t].st \in {"running", "ccall"}
  BY OfThread
<1>4. \A e \in Cap : ~In(run_queue[e], t)
  BY <1>3 DEF ThreadOf
<1>5. \A m \in Task : task[m].cur # t
  BY <1>3
<1>6. UNCHANGED run_queue /\ tso' = n
  BY DEF sendMessage
<1>7. /\ tso' \in [TSO -> TSORec] /\ tso'[t] = x /\ tso'[v].st = "running" /\ tso'[v].cap = c
      /\ \A u \in TSO : u # t /\ u # v => tso'[u] = tso[u]
  BY <1>v, <1>2, <1>6
<1>8. PICK ib : ib = <<t>> \o inbox[d]
  OBVIOUS
<1>9. ib \in Seq(TSO) /\ Injective(ib) /\ (\A y : In(ib, y) <=> In(inbox[d], y) \/ y = t)
  <2>1. inbox[d] \in Seq(TSO) /\ Injective(inbox[d]) /\ ~In(inbox[d], t)
    BY <1>3
  <2> QED
    BY <1>8, <2>1, PrependFacts
<1>10. /\ inbox' \in [Cap -> Seq(TSO)] /\ inbox'[d] = ib /\ \A e \in Cap : e # d => inbox'[e] = inbox[e]
  BY <1>3, <1>8, <1>9 DEF sendMessage
<1>11. \E w : /\ TaskStep(k, w, d) /\ CapsKept(k, w)
              /\ Like(k, task'[k], task[k]) /\ task'[k].cap = task[k].cap
              /\ last_free_capability' \in Cap
              /\ \A e \in Cap : e # d => running_task'[e] = running_task[e]
              /\ running_task'[d] # k
              /\ running_task'[d] = Null => Handing(d, FALSE, run_queue[d], ib, spare_workers[d])
  <2>1. /\ running_task[d] # k /\ task[k].pc # "none" /\ ib \in Seq(TSO)
        /\ IF running_task[d] = Null
             THEN releaseCapability_(d, FALSE, run_queue[d], ib, spare_workers[d], task)
             ELSE UNCHANGED <<running_task, last_free_capability, task>>
    BY <1>b, <1>1, <1>2, <1>8, <1>9 DEF sendMessage
  <2> QED
    BY <2>1, SetGoing
<1>12. PICK w : /\ TaskStep(k, w, d) /\ CapsKept(k, w)
                /\ Like(k, task'[k], task[k]) /\ task'[k].cap = task[k].cap
                /\ last_free_capability' \in Cap
                /\ \A e \in Cap : e # d => running_task'[e] = running_task[e]
                /\ running_task'[d] # k
                /\ running_task'[d] = Null => Handing(d, FALSE, run_queue[d], ib, spare_workers[d])
  BY <1>11
<1> DEFINE u == task'[k]
<1>13. u \in TaskRec /\ u.pc = "running" /\ u.at = c /\ u.cap = r.cap /\ u.cur = v /\ u.sync = r.sync
  BY <1>v, <1>b, <1>1, <1>12 DEF TaskStep, Like
<1>14. TaskInv(k, u) /\ OwnedOf(u) = OwnedOf(r)
  BY <1>2, <1>12, <1>13, LikeTask
<1> HIDE DEF u
<1>15. ThreadStep(k, t)
  <2>1. \A e \in Cap, y \in TSO : y # t => (In(inbox'[e], y) <=> In(inbox[e], y)) /\ (In(run_queue'[e], y) <=> In(run_queue[e], y))
    BY <1>6, <1>9, <1>10
  <2>2. \A e \in Cap : /\ (In(inbox'[e], t) <=> e = d) /\ ~In(run_queue'[e], t)
                       /\ Injective(run_queue'[e]) /\ Injective(inbox'[e])
    BY <1>3, <1>4, <1>6, <1>9, <1>10
  <2>3. ThreadOf(t, tso[t])'
    BY <1>7, <2>2 DEF ThreadOf
  <2>4. \A y \in TSO : y # t => tso'[y].st = tso[y].st /\ tso'[y].cap = tso[y].cap /\ (tso[y].ops = 0 => tso'[y].ops = 0)
    BY <1>1, <1>2, <1>7
  <2>5. k \in InCall => BoundOf(k, u, tso'[k])
    BY <1>2, <1>7, <1>13 DEF BoundOf
  <2>6. ASSUME t \in InCall, t # k PROVE BoundOf(t, task'[t], tso'[t])
    <3>1. BoundOf(t, task[t], tso[t]) /\ tso'[t] = tso[t]
      BY <1>7, <2>6 DEF IInv, ThreadSide, BoundInv
    <3>2. t \in Task /\ t # w
      BY <1>12, <2>6, ConstantFacts DEF TaskStep
    <3>3. Like(t, task'[t], task[t]) /\ task'[t].cap = task[t].cap
      BY <1>12, <2>6, <3>2 DEF TaskStep, CapsKept
    <3> QED
      BY <3>1, <3>3 DEF BoundOf, Like
  <2>7. CurOf(k, u, tso'[v])
    BY <1>2, <1>7, <1>13 DEF CurOf
  <2> QED
    BY <1>v, <1>5, <1>13, <2>1, <2>2, <2>3, <2>4, <2>5, <2>6, <2>7 DEF ThreadStep, u
<1>16. ThreadSide'
  BY <1>12, <1>15, ThreadStepOK
<1>17. FinalOf(k, u)
  BY <1>1, <1>2, <1>13 DEF FinalOf, Yielding
<1>18. \A e \in Cap : running_task'[e] = k <=> e \in OwnedOf(u)
  BY <1>b, <1>2, <1>12, <1>14
<1>19. \A e \in Cap : running_task[e] = k \/ (run_queue'[e] = run_queue[e] /\ ~InForeign(u, e))
  BY <1>6, <1>13 DEF InForeign, InC, Waiting
<1>20. \A e \in Cap : running_task'[e] = Null =>
             \/ running_task[e] = Null /\ run_queue'[e] = run_queue[e] /\ inbox'[e] = inbox[e]
             \/ \E aw \in BOOLEAN : Handing(e, aw, run_queue'[e], inbox'[e], spare_workers[e])
  BY <1>6, <1>10, <1>12
<1>21. r.pc \in Inside /\ u.pc \in Inside /\ u.pc \notin {"acquire", "synced"} /\ run_queue' \in [Cap -> Seq(TSO)]
  BY <1>1, <1>3, <1>6, <1>13 DEF Inside
<1> QED
  BY <1>7, <1>10, <1>12, <1>14, <1>16, <1>17, <1>18, <1>19, <1>20, <1>21, ActiveStep DEF u

LEMMA RunForkOK ==
    ASSUME IInv, HandedOver, NEW k \in Task, NEW t \in TSO, RunFork(k, t),
           UNCHANGED <<sched_state, scenario>>
    PROVE  IInv' /\ HandedOver'
<1>1. Running(k) /\ t \in Unbound /\ tso[t].st = "new" /\ task[k].pc = "running"
  BY DEF RunFork, NewThread, Running, pc
<1>2. tso[task[k].cur].st = "running"
  BY <1>1, OfRunning
<1>3. ThreadOf(t, tso[t])
  BY OfThread
<1>4. \A d \in Cap : ~In(inbox[d], t)
  BY <1>1, <1>3 DEF ThreadOf, Stale
<1>5. t \notin InCall
  BY <1>1, DisjointAssumption DEF Task
<1>l. Runnable(t, task[k].at) = [Runnable(t, task[k].at) EXCEPT ![t].locked = tso[t].locked]
  BY OfThread DEF Runnable, TSORec
<1>6. /\ tso' = Spend(k, [Runnable(t, task[k].at) EXCEPT ![t].locked = tso[t].locked])
      /\ run_queue' = [run_queue EXCEPT ![task[k].at] = Append(@, t)]
      /\ UNCHANGED <<running_task, returning_tasks, spare_workers, inbox, last_free_capability,
                     pending_sync, task>>
  BY <1>l DEF RunFork
<1>7. tso[t].locked \in BOOLEAN
  BY OfThread DEF TSORec
<1> QED
  BY <1>1, <1>2, <1>4, <1>5, <1>6, <1>7, WokenHereOK

LEMMA ContainsIn ==
    ASSUME NEW S, NEW q \in Seq(S), NEW x
    PROVE  Contains(q, x) <=> In(q, x)
BY DEF Contains, In

LEMMA RunWakeOK ==
    ASSUME IInv, HandedOver, NEW k \in Task, NEW t \in TSO, RunWake(k, t),
           UNCHANGED <<sched_state, scenario>>
    PROVE  IInv' /\ HandedOver'
<1>1. Running(k) /\ tso[t].st = "blocked" /\ task[k].pc = "running"
  BY DEF RunWake, Running, pc
<1>2. tso[task[k].cur].st = "running" /\ task[k].cur \in TSO
  BY <1>1, OfRunning
<1>3. ThreadOf(t, tso[t]) /\ inbox \in [Cap -> Seq(TSO)] /\ tso \in [TSO -> TSORec]
  BY OfThread
<1>4. \A d \in Cap : ~In(inbox[d], t)
  <2>1. \A d \in Cap : ~Contains(inbox[d], t)
    BY DEF RunWake
  <2> QED
    BY <1>3, <2>1, ContainsIn
<1>5. PICK d \in Cap : d = tso[t].cap
  BY <1>1, <1>3 DEF ThreadOf
<1>6. CASE d = task[k].at
  <2>l. Runnable(t, task[k].at) = [Runnable(t, task[k].at) EXCEPT ![t].locked = tso[t].locked]
    BY OfThread DEF Runnable, TSORec
  <2>b. tso[t].locked \in BOOLEAN
    BY OfThread DEF TSORec
  <2>1. /\ tso' = Spend(k, [Runnable(t, task[k].at) EXCEPT ![t].locked = tso[t].locked])
        /\ run_queue' = [run_queue EXCEPT ![task[k].at] = Append(@, t)]
        /\ UNCHANGED <<running_task, returning_tasks, spare_workers, inbox, last_free_capability,
                       pending_sync, task>>
    BY <1>5, <1>6, <2>l DEF RunWake
  <2>2. tso[t].cap = task[k].at
    BY <1>5, <1>6
  <2> QED
    BY <1>1, <1>2, <1>4, <2>b, <2>1, <2>2, WokenHereOK
<1>7. CASE d # task[k].at
  <2>1. PICK n : n = Spend(k, tso)
    OBVIOUS
  <2>2. sendMessage(t, d, n) /\ UNCHANGED <<returning_tasks, spare_workers, pending_sync>>
    BY <1>5, <1>7, <2>1 DEF RunWake
  <2>3. PICK x \in TSORec : x = tso[t]
    BY <1>3
  <2>4. /\ n \in [TSO -> TSORec] /\ n[t] = x
        /\ n[task[k].cur].st = "running" /\ n[task[k].cur].cap = tso[task[k].cur].cap
        /\ \A u \in TSO : u # t /\ u # task[k].cur => n[u] = tso[u]
    <3>1. PICK ts : ts = tso
      OBVIOUS
    <3>2. ts \in [TSO -> TSORec] /\ ts[t] = x /\ (\A u \in TSO : u # t => ts[u] = tso[u]) /\ n = Spend(k, ts)
      BY <1>3, <2>1, <2>3, <3>1
    <3>3. t # task[k].cur
      BY <1>1, <1>2
    <3> QED
      BY <1>1, <3>2, <3>3, SpendFacts
  <2>5. x.cap = d /\ t # task[k].cur
    BY <1>1, <1>2, <1>5, <2>3
  <2> QED
    BY <1>1, <1>4, <1>7, <2>2, <2>3, <2>4, <2>5, SentOK
<1> QED
  BY <1>6, <1>7

LEMMA RunForkOnOK ==
    ASSUME IInv, HandedOver, NEW k \in Task, NEW t \in TSO, NEW d \in Cap, RunForkOn(k, t, d),
           UNCHANGED <<sched_state, scenario>>
    PROVE  IInv' /\ HandedOver'
<1>1. Running(k) /\ t \in Unbound /\ tso[t].st = "new" /\ task[k].pc = "running"
  BY DEF RunForkOn, NewThread, Running, pc
<1>2. tso[task[k].cur].st = "running" /\ task[k].cur \in TSO
  BY <1>1, OfRunning
<1>3. ThreadOf(t, tso[t]) /\ tso[t] \in TSORec /\ tso \in [TSO -> TSORec]
  BY OfThread
<1>4. \A e \in Cap : ~In(inbox[e], t)
  BY <1>1, <1>3 DEF ThreadOf, Stale
<1>5. t \notin InCall /\ t # task[k].cur
  BY <1>1, <1>2, DisjointAssumption DEF Task
<1>6. CASE d = task[k].at
  <2>1. /\ tso' = Spend(k, [Runnable(t, task[k].at) EXCEPT ![t].locked = TRUE])
        /\ run_queue' = [run_queue EXCEPT ![task[k].at] = Append(@, t)]
        /\ UNCHANGED <<running_task, returning_tasks, spare_workers, inbox, last_free_capability,
                       pending_sync, task>>
    BY <1>6 DEF RunForkOn
  <2> QED
    BY <1>1, <1>4, <1>5, <2>1, WokenHereOK
<1>7. CASE d # task[k].at
  <2> DEFINE y == [tso[t] EXCEPT !.locked = TRUE]
             x == [y EXCEPT !.st = "migrating", !.cap = d]
  <2>6. y \in TSORec
    BY <1>3 DEF TSORec
  <2>7. x \in TSORec /\ x.st = "migrating" /\ x.cap = d
    BY <2>6 DEF TSORec
  <2>8. [tso EXCEPT ![t].locked = TRUE] = [tso EXCEPT ![t] = y]
    BY <1>3
  <2>9. PICK ts : ts = [tso EXCEPT ![t] = y]
    OBVIOUS
  <2>10. PICK m : m = Spend(k, ts)
    OBVIOUS
  <2>11. migrateThread(t, d, m) /\ UNCHANGED <<returning_tasks, spare_workers, pending_sync>>
    BY <1>7, <2>8, <2>9, <2>10 DEF RunForkOn
  <2>12. /\ m \in [TSO -> TSORec] /\ m[t] = y
         /\ m[task[k].cur].st = "running" /\ m[task[k].cur].cap = tso[task[k].cur].cap
         /\ \A u \in TSO : u # t /\ u # task[k].cur => m[u] = tso[u]
    <3> HIDE DEF y
    <3>1. ts \in [TSO -> TSORec] /\ ts[t] = y /\ \A u \in TSO : u # t => ts[u] = tso[u]
      BY <1>3, <2>6, <2>9
    <3> QED
      BY <1>1, <1>5, <2>6, <2>10, <3>1, SpendFacts
  <2>13. PICK n : n = [m EXCEPT ![t].st = "migrating", ![t].cap = d]
    OBVIOUS
  <2>14. n = [m EXCEPT ![t] = x]
    BY <2>12, <2>13
  <2>15. sendMessage(t, d, n)
    BY <2>11, <2>13 DEF migrateThread
  <2> HIDE DEF x, y
  <2>16. /\ n \in [TSO -> TSORec] /\ n[t] = x
         /\ n[task[k].cur].st = "running" /\ n[task[k].cur].cap = tso[task[k].cur].cap
         /\ \A u \in TSO : u # t /\ u # task[k].cur => n[u] = tso[u]
    BY <1>2, <1>5, <2>7, <2>12, <2>14
  <2> QED
    BY <1>1, <1>4, <1>5, <1>7, <2>7, <2>11, <2>15, <2>16, SentOK
<1> QED
  BY <1>6, <1>7

LEMMA RunCCallOK ==
    ASSUME IInv, HandedOver, NEW k \in Task, RunCCall(k), UNCHANGED <<sched_state, scenario>>
    PROVE  IInv' /\ HandedOver'
<1>0. TypeOK
  BY DEF IInv
<1> DEFINE r == task[k]
<1>t. PICK t : t = task[k].cur
  OBVIOUS
<1>b. PICK c : c = task[k].at
  OBVIOUS
<1>1. r.pc = "running" /\ tso[t].ops > 0 /\ tso' = Leaves(t, "ccall")
  BY <1>t DEF RunCCall, Running, pc
<1>2. /\ c \in Cap /\ t \in TSO /\ r.cap = c /\ tso[t].cap = c /\ task \in [Task -> TaskRec]
      /\ r \in TaskRec
      /\ TaskInv(k, r) /\ FinalOf(k, r) /\ k \notin Syncer /\ k \notin Exiter
      /\ (k \in InCall \/ t \in InCall) => k = t
      /\ \A m \in Task : m # k => task[m].cur # t
      /\ \A d \in Cap : ~In(run_queue[d], t) /\ ~In(inbox[d], t)
      /\ \A d \in Cap : running_task[d] = k <=> d = c
  BY <1>t, <1>b, <1>1, OfRunning
<1>3. /\ tso' \in [TSO -> TSORec] /\ tso'[t].st = "ccall" /\ tso'[t].cap = c
      /\ \A u \in TSO : u # t => tso'[u] = tso[u]
  BY <1>1, <1>2, LeavesFacts
<1>4. /\ run_queue \in [Cap -> Seq(TSO)] /\ inbox \in [Cap -> Seq(TSO)]
      /\ spare_workers \in [Cap -> Seq(Task)]
      /\ \A d \in Cap : Injective(run_queue[d]) /\ Injective(inbox[d])
  BY <1>0, <1>2, OfThread, Types
<1>5. UNCHANGED <<returning_tasks, spare_workers, run_queue, inbox, pending_sync>>
  BY DEF RunCCall
<1>s. PICK s : s = [r EXCEPT !.pc = "ccall"]
  OBVIOUS
<1>6. s \in TaskRec /\ s.pc = "ccall" /\ s.at = c /\ s.cap = c /\ s.cur = t /\ s.sync = r.sync /\ s.old = r.old
  BY <1>t, <1>b, <1>s, <1>2, PlaceFacts DEF TaskRec
<1>7. PICK tk : tk = [task EXCEPT ![k] = s]
  OBVIOUS
<1>8. tk \in [Task -> TaskRec] /\ tk[k] = s /\ \A m \in Task : m # k => tk[m] = task[m]
  BY <1>2, <1>6, <1>7
<1>9. releaseCapability_(c, FALSE, run_queue[c], inbox[c], spare_workers[c], tk)
  <2>1. [task EXCEPT ![k].pc = "ccall"] = tk
    BY <1>2, <1>s, <1>7
  <2> QED
    BY <1>b, <2>1 DEF RunCCall, Release
<1>10. PICK w \in Worker \cup {Null} :
             /\ TaskStep(k, w, c) /\ CapsKept(k, w)
             /\ Like(k, task'[k], s) /\ task'[k].cap = c
             /\ running_task' = [running_task EXCEPT ![c] = w]
             /\ w = Null => Handing(c, FALSE, run_queue[c], inbox[c], spare_workers[c])
             /\ last_free_capability' \in Cap
  <2>1. /\ run_queue[c] \in Seq(TSO) /\ inbox[c] \in Seq(TSO) /\ spare_workers[c] \in Seq(Task)
        /\ tk[k].pc # "none" /\ running_task[c] \in {k, Null} /\ FALSE \in BOOLEAN
    BY <1>2, <1>4, <1>6, <1>8
  <2>2. \E w \in Worker \cup {Null} :
             /\ TaskStep(k, w, c) /\ CapsKept(k, w)
             /\ Like(k, task'[k], tk[k]) /\ task'[k].cap = tk[k].cap
             /\ running_task' = [running_task EXCEPT ![c] = w]
             /\ w = Null => Handing(c, FALSE, run_queue[c], inbox[c], spare_workers[c])
             /\ last_free_capability' \in Cap
    BY <1>0, <1>2, <1>8, <1>9, <2>1, ReleaseEffect
  <2> QED
    BY <1>6, <1>8, <2>2
<1>11. w # k /\ running_task'[c] = w /\ \A e \in Cap : e # c => running_task'[e] = running_task[e]
  BY <1>0, <1>2, <1>10, ConstantFacts, Types DEF TaskStep
<1> DEFINE u == task'[k]
<1>12. u \in TaskRec /\ u.pc = "ccall" /\ u.at = c /\ u.cap = c /\ u.cur = t /\ u.sync = r.sync /\ u.old = r.old
  BY <1>6, <1>10 DEF TaskStep, Like
<1> HIDE DEF u
<1>13. TaskInv(k, u)
  BY <1>b, <1>1, <1>2, <1>12, ConstantFacts DEF TaskInv, KeepsCap, Gone, InC, Inside, Loop, AtHome, Waiting, Pushing, Exiting
<1>14. OwnedOf(u) = {} /\ FinalOf(k, u)
  BY <1>2, <1>1, <1>12 DEF OwnedOf, FinalOf, Yielding
<1>15. ThreadStep(k, t)
  <2>1. ThreadOf(t, tso[t])'
    BY <1>2, <1>3, <1>5, <1>12 DEF ThreadOf, u
  <2>2. k \in InCall => BoundOf(k, u, tso'[k])
    BY <1>2, <1>3, <1>12 DEF BoundOf
  <2>3. CurOf(k, u, tso'[t])
    BY <1>2, <1>3, <1>12 DEF CurOf
  <2> QED
    BY <1>t, <1>2, <1>3, <1>4, <1>5, <1>12, <2>1, <2>2, <2>3 DEF ThreadStep, u
<1>16. ThreadSide'
  BY <1>2, <1>10, <1>15, ThreadStepOK
<1>17. \A e \in Cap : running_task'[e] = k <=> e \in OwnedOf(u)
  BY <1>2, <1>11, <1>14
<1>18. \A e \in Cap : running_task[e] = k \/ (run_queue'[e] = run_queue[e] /\ ~InForeign(u, e))
  BY <1>2, <1>5, <1>12 DEF InForeign
<1>19. \A e \in Cap : running_task'[e] = Null =>
             \/ running_task[e] = Null /\ run_queue'[e] = run_queue[e] /\ inbox'[e] = inbox[e]
             \/ \E aw \in BOOLEAN : Handing(e, aw, run_queue'[e], inbox'[e], spare_workers[e])
  BY <1>5, <1>10, <1>11
<1>20. /\ r.pc \in Inside /\ u.pc = "ccall" /\ run_queue' \in [Cap -> Seq(TSO)]
       /\ inbox' \in [Cap -> Seq(TSO)]
  BY <1>1, <1>4, <1>5, <1>12 DEF Inside
<1> QED
  BY <1>2, <1>3, <1>5, <1>10, <1>13, <1>16, <1>14, <1>17, <1>18, <1>19, <1>20, ActiveStep DEF u

-----------------------------------------------------------------------------
(* Steps that move many threads: the inbox, the sharing out, the deletion  *)

Moves(u) ==
    /\ \A d \in Cap : /\ In(run_queue'[d], u) <=> tso'[u].st = "runnable" /\ tso'[u].cap = d
                      /\ In(inbox'[d], u) => (tso'[u].st \in {"blocked", "migrating"} /\ tso'[u].cap = d) \/ Stale(tso[u])'
    /\ tso'[u].st = "migrating" => u \notin InCall /\ In(inbox'[tso'[u].cap], u)
    /\ tso'[u].st \notin {"new", "finished"} => tso'[u].cap \in Cap
    /\ tso[u].st \in {"running", "ccall"} \/ tso'[u].st \in {"running", "ccall"} =>
         tso'[u].st = tso[u].st /\ tso'[u].cap = tso[u].cap

LEMMA ManyThreadsOK ==
    ASSUME IInv, NEW k \in Task, NEW w, NEW c \in Cap, TaskStep(k, w, c), task[k].cur = Null,
           task'[k].cur = Null,
           \A u \in TSO : Moves(u), \A d \in Cap : Injective(run_queue'[d]) /\ Injective(inbox'[d]),
           \A u \in InCall : BoundOf(u, task'[u], tso'[u])
    PROVE  ThreadSide'
<1>1. TypeOK /\ TasksInv /\ ThreadInv /\ CurInv
  BY DEF IInv, TaskSide, ThreadSide
<1>2. \A m \in Task : task'[m].cur = task[m].cur
  <2> SUFFICES ASSUME NEW m \in Task, m # k PROVE task'[m].cur = task[m].cur
    OBVIOUS
  <2>1. CASE m = w
    <3>1. task[m].pc = "none" /\ task'[m].cur = Null
      BY <2>1, ConstantFacts DEF TaskStep, newTask
    <3>2. ~InC(task[m]) /\ TaskInv(m, task[m])
      BY <1>1, <3>1 DEF TasksInv, InC, Waiting
    <3> QED
      BY <3>1, <3>2 DEF TaskInv, KeepsCap
  <2>2. CASE m # w
    BY <2>2 DEF TaskStep, Like
  <2> QED
    BY <2>1, <2>2
<1>3. ThreadInv'
  <2> SUFFICES ASSUME NEW u \in TSO PROVE ThreadOf(u, tso[u])'
    BY DEF ThreadInv
  <2>1. ThreadOf(u, tso[u]) /\ Moves(u)
    BY <1>1 DEF ThreadInv
  <2>2. ASSUME tso'[u].st \in {"running", "ccall"} PROVE \E m \in Task : task'[m].cur = u
    <3>1. \E m \in Task : task[m].cur = u
      BY <2>1, <2>2 DEF Moves, ThreadOf
    <3> QED
      BY <1>2, <3>1
  <2> QED
    BY <2>1, <2>2 DEF ThreadOf, Moves
<1>4. QueuesInv'
  BY DEF QueuesInv
<1>5. CurInv'
  <2>1. ASSUME NEW m \in Task, task[m].cur # Null PROVE CurOf(m, task'[m], tso'[task'[m].cur])
    <3>1. PICK v : v = task[m].cur
      OBVIOUS
    <3>2. CurOf(m, task[m], tso[v]) /\ v \in TSO
      BY <1>1, <2>1, <3>1, Types DEF CurInv, TaskRec
    <3>3. m # w
      <4> SUFFICES ASSUME m = w PROVE FALSE
        OBVIOUS
      <4>1. task'[m].cur = Null
        BY <2>1, ConstantFacts DEF TaskStep, newTask
      <4> QED
        BY <1>2, <2>1, <4>1
    <3>4. m # k
      BY <2>1
    <3>5. task'[m].pc = task[m].pc /\ task'[m].at = task[m].at /\ task'[m].cur = task[m].cur
      BY <3>3, <3>4 DEF TaskStep, Like
    <3>6. tso[v].st \in {"running", "ccall"}
      BY <3>2 DEF CurOf
    <3>7. tso'[v].st = tso[v].st /\ tso'[v].cap = tso[v].cap
      BY <3>2, <3>6 DEF Moves
    <3> QED
      BY <3>1, <3>2, <3>5, <3>7 DEF CurOf
  <2>2. \A m, n \in Task : task'[m].cur # Null /\ task'[m].cur = task'[n].cur => m = n
    BY <1>1, <1>2 DEF CurInv
  <2> QED
    BY <1>2, <2>1, <2>2 DEF CurInv
<1>6. BoundInv'
  BY DEF BoundInv
<1> QED
  BY <1>3, <1>4, <1>5, <1>6 DEF ThreadSide

(* scheduleProcessInbox moves the threads of the inbox to the run queue. *)
LEMMA InboxMoves ==
    ASSUME IInv, NEW k \in Task, ProcessInbox(k), UNCHANGED <<sched_state, scenario>>,
           NEW c \in Cap, c = task[k].at
    PROVE  /\ run_queue' \in [Cap -> Seq(TSO)] /\ inbox' \in [Cap -> Seq(TSO)] /\ tso' \in [TSO -> TSORec]
           /\ \A d \in Cap : d # c => run_queue'[d] = run_queue[d] /\ inbox'[d] = inbox[d]
           /\ \A d \in Cap : Injective(run_queue'[d]) /\ Injective(inbox'[d])
           /\ \A u \in TSO : Moves(u)
           /\ \A u \in TSO : tso'[u] = tso[u] \/ /\ tso'[u].cap = tso[u].cap /\ tso'[u].st = "runnable"
                                                 /\ tso[u].st \in {"blocked", "migrating"}
<1>0. TypeOK /\ QueuesInv /\ ThreadInv
  BY DEF IInv, ThreadSide
<1>1. run_queue \in [Cap -> Seq(TSO)] /\ inbox \in [Cap -> Seq(TSO)] /\ tso \in [TSO -> TSORec]
  BY <1>0, Types
<1>2. PICK S : S = {t \in TSO : tso[t].st \in {"blocked", "migrating"}}
  OBVIOUS
<1>3. PICK woken : woken = Those(inbox[c], S)
  OBVIOUS
<1>4. /\ run_queue' = [run_queue EXCEPT ![c] = run_queue[c] \o woken]
      /\ tso' = [t \in TSO |-> IF Contains(woken, t) THEN [tso[t] EXCEPT !.st = "runnable"] ELSE tso[t]]
      /\ inbox' = [inbox EXCEPT ![c] = <<>>]
  BY <1>2, <1>3 DEF ProcessInbox
<1>5. /\ woken \in Seq(TSO) /\ Injective(woken)
      /\ \A y : In(woken, y) <=> In(inbox[c], y) /\ y \in S
  <2>1. inbox[c] \in Seq(TSO) /\ Injective(inbox[c])
    BY <1>0, <1>1 DEF QueuesInv
  <2> QED
    BY <1>3, <2>1, ThoseFacts
<1>6. \A u \in TSO : Contains(woken, u) <=> In(woken, u)
  BY <1>5, ContainsIn
<1>7. \A u \in TSO : /\ In(woken, u) <=> In(inbox[c], u) /\ tso[u].st \in {"blocked", "migrating"}
                     /\ In(woken, u) => tso[u].cap = c
  <2> TAKE u \in TSO
  <2>1. ThreadOf(u, tso[u])
    BY <1>0 DEF ThreadInv
  <2>2. In(woken, u) <=> In(inbox[c], u) /\ tso[u].st \in {"blocked", "migrating"}
    BY <1>2, <1>5
  <2> QED
    BY <2>1, <2>2 DEF ThreadOf, Stale
<1>8. \A u \in TSO : /\ In(woken, u) => tso'[u].st = "runnable" /\ tso'[u].cap = c /\ tso'[u] \in TSORec
                     /\ ~In(woken, u) => tso'[u] = tso[u]
  <2> TAKE u \in TSO
  <2>1. tso[u] \in TSORec
    BY <1>1
  <2>2. [tso[u] EXCEPT !.st = "runnable"] \in TSORec /\ [tso[u] EXCEPT !.st = "runnable"].st = "runnable"
        /\ [tso[u] EXCEPT !.st = "runnable"].cap = tso[u].cap
    BY <2>1 DEF TSORec
  <2> QED
    BY <1>4, <1>6, <1>7, <2>2
<1>9. tso' \in [TSO -> TSORec]
  <2>1. \A u \in TSO : tso'[u] \in TSORec
    BY <1>1, <1>8
  <2> QED
    BY <1>4, <2>1
<1>10. PICK q : q = run_queue[c] \o woken
  OBVIOUS
<1>11. /\ q \in Seq(TSO) /\ Injective(q) /\ \A y : In(q, y) <=> In(run_queue[c], y) \/ In(woken, y)
  <2>1. run_queue[c] \in Seq(TSO) /\ Injective(run_queue[c])
    BY <1>0, <1>1 DEF QueuesInv
  <2>2. ASSUME NEW y, In(run_queue[c], y), In(woken, y) PROVE FALSE
    <3>1. y \in TSO
      BY <2>1, <2>2 DEF In
    <3>2. tso[y].st = "runnable"
      BY <1>0, <2>2, <3>1 DEF ThreadInv, ThreadOf
    <3> QED
      BY <1>7, <2>2, <3>1, <3>2
  <2> QED
    BY <1>5, <1>10, <2>1, <2>2, ConcatFacts
<1>12. /\ run_queue' \in [Cap -> Seq(TSO)] /\ run_queue'[c] = q
       /\ \A d \in Cap : d # c => run_queue'[d] = run_queue[d]
  BY <1>1, <1>4, <1>10, <1>11
<1>13. /\ inbox' \in [Cap -> Seq(TSO)] /\ inbox'[c] = <<>>
       /\ \A d \in Cap : d # c => inbox'[d] = inbox[d]
  <2>1. <<>> \in Seq(TSO)
    OBVIOUS
  <2> QED
    BY <1>1, <1>4, <2>1
<1>14. \A d \in Cap : Injective(run_queue'[d]) /\ Injective(inbox'[d])
  BY <1>0, <1>11, <1>12, <1>13, EmptyFacts DEF QueuesInv
<1>15. \A d \in Cap : \A y : In(inbox'[d], y) <=> d # c /\ In(inbox[d], y)
  BY <1>13, EmptyFacts
<1>16. ASSUME NEW u \in TSO PROVE Moves(u)
  <2>1. ThreadOf(u, tso[u])
    BY <1>0 DEF ThreadInv
  <2>2. CASE In(woken, u)
    <3>1. tso[u].st \in {"blocked", "migrating"} /\ tso[u].cap = c /\ tso'[u].st = "runnable" /\ tso'[u].cap = c
      BY <1>7, <1>8, <2>2
    <3>2. \A d \in Cap : d # c => ~In(inbox[d], u) /\ ~In(run_queue[d], u)
      BY <2>1, <3>1 DEF ThreadOf, Stale
    <3>3. \A d \in Cap : ~In(inbox'[d], u) /\ (In(run_queue'[d], u) <=> d = c)
      BY <1>11, <1>12, <1>15, <2>2, <3>2
    <3> QED
      BY <3>1, <3>3 DEF Moves
  <2>3. CASE ~In(woken, u)
    <3>1. tso'[u] = tso[u]
      BY <1>8, <2>3
    <3>2. \A d \in Cap : (In(run_queue'[d], u) <=> In(run_queue[d], u)) /\ (In(inbox'[d], u) => In(inbox[d], u))
      BY <1>11, <1>12, <1>15, <2>3
    <3>3. tso[u].st = "migrating" => u \notin InCall /\ tso[u].cap \in Cap /\ tso[u].cap # c /\ In(inbox[tso[u].cap], u)
      BY <1>7, <2>1, <2>3 DEF ThreadOf
    <3>4. tso[u].st = "migrating" => In(inbox'[tso[u].cap], u)
      BY <1>15, <3>3
    <3>5. Stale(tso[u]) => Stale(tso[u])'
      BY <3>1 DEF Stale
    <3> QED
      BY <2>1, <3>1, <3>2, <3>3, <3>4, <3>5 DEF ThreadOf, Moves
  <2> QED
    BY <2>2, <2>3
<1>17. \A u \in TSO : tso'[u] = tso[u] \/ /\ tso'[u].cap = tso[u].cap /\ tso'[u].st = "runnable"
                                          /\ tso[u].st \in {"blocked", "migrating"}
  <2> TAKE u \in TSO
  <2>1. CASE In(woken, u)
    <3>1. tso[u].st \in {"blocked", "migrating"} /\ tso[u].cap = c
      BY <1>7, <2>1
    <3>2. tso'[u].st = "runnable" /\ tso'[u].cap = c
      BY <1>8, <2>1
    <3> QED
      BY <3>1, <3>2
  <2>2. CASE ~In(woken, u)
    <3>1. tso'[u] = tso[u]
      BY <1>8, <2>2
    <3> QED
      BY <3>1
  <2> QED
    BY <2>1, <2>2
<1> QED
  BY <1>9, <1>12, <1>13, <1>14, <1>16, <1>17

LEMMA ProcessInboxOK ==
    ASSUME IInv, HandedOver, NEW k \in Task, ProcessInbox(k), UNCHANGED <<sched_state, scenario>>
    PROVE  IInv' /\ HandedOver'
<1>0. TypeOK
  BY DEF IInv
<1>p. PICK r : r = task[k]
  OBVIOUS
<1>a. /\ r \in TaskRec /\ TaskInv(k, r) /\ FinalOf(k, r) /\ (k \in InCall => BoundOf(k, r, tso[k]))
      /\ \A d \in Cap : running_task[d] = k <=> d \in OwnedOf(r)
  BY <1>p, OfTask
<1>1. r.pc \in {"schedule", "inbox"} /\ task' = [task EXCEPT ![k] = [r EXCEPT !.pc = "push"]]
  BY <1>0, <1>p, Types DEF ProcessInbox, AtInbox, Goto, pc
<1>s. PICK s : s = [r EXCEPT !.pc = "push"]
  OBVIOUS
<1>2. s \in TaskRec
  BY <1>a, <1>s, PlaceFacts DEF TaskRec
<1>3. /\ s.pc = "push" /\ s.cap = r.cap /\ s.wakeup = r.wakeup /\ s.at = r.at /\ s.on = r.on
      /\ s.then = r.then /\ s.i = r.i /\ s.held = r.held /\ s.cur = r.cur /\ s.sync = r.sync
      /\ s.prev = r.prev /\ s.old = r.old
  BY <1>a, <1>s DEF TaskRec
<1>4. TaskInv(k, s) /\ FinalOf(k, s)
  BY <1>a, <1>1, <1>3, ConstantFacts DEF TaskInv, KeepsCap, Gone, InC, Waiting, Inside, Loop, AtHome, Pushing,
     Exiting, Calling, TaskRec, FinalOf, Yielding
<1>5. r.at \in Cap /\ r.cur = Null /\ s.cur = Null
  BY <1>a, <1>1, <1>3 DEF TaskInv, KeepsCap, Gone, Inside, Loop, AtHome, InC, Waiting
<1>c. PICK c \in Cap : c = task[k].at
  BY <1>p, <1>5
<1>6. \A d \in Cap : (d \in OwnedOf(s) <=> d = c) /\ (running_task[d] = k <=> d = c)
  BY <1>p, <1>a, <1>c, <1>1, <1>3 DEF OwnedOf
<1>7. /\ task' \in [Task -> TaskRec] /\ task'[k] = s /\ \A m \in Task : m # k => task'[m] = task[m]
  BY <1>0, <1>1, <1>2, <1>s, Types
<1>8. UNCHANGED <<running_task, returning_tasks, spare_workers, last_free_capability, pending_sync>>
  BY DEF ProcessInbox
<1>9. TaskStep(k, Null, c) /\ CapsKept(k, Null)
  BY <1>0, <1>7, <1>8, Types DEF TaskStep, CapsKept, Like
<1>10. /\ run_queue' \in [Cap -> Seq(TSO)] /\ inbox' \in [Cap -> Seq(TSO)]
       /\ tso' \in [TSO -> TSORec]
       /\ \A d \in Cap : d # c => run_queue'[d] = run_queue[d] /\ inbox'[d] = inbox[d]
       /\ \A d \in Cap : Injective(run_queue'[d]) /\ Injective(inbox'[d])
       /\ \A u \in TSO : Moves(u)
       /\ \A u \in TSO : tso'[u] = tso[u] \/ /\ tso'[u].cap = tso[u].cap /\ tso'[u].st = "runnable"
                                             /\ tso[u].st \in {"blocked", "migrating"}
  BY <1>c, InboxMoves
<1>11. ASSUME NEW u \in InCall PROVE BoundOf(u, task'[u], tso'[u])
  <2>1. u \in TSO /\ u \in Task
    BY ConstantFacts
  <2>2. BoundOf(u, task[u], tso[u]) /\ ThreadOf(u, tso[u])
    BY <2>1 DEF IInv, ThreadSide, BoundInv, ThreadInv
  <2>3. tso[u].st # "migrating"
    BY <2>2, <1>11 DEF ThreadOf
  <2>4. /\ task'[u].pc = task[u].pc \/ (task[u].pc \in {"schedule", "inbox"} /\ task'[u].pc = "push")
        /\ task'[u].cap = task[u].cap /\ task'[u].at = task[u].at /\ task'[u].then = task[u].then
        /\ task'[u].cur = task[u].cur
    BY <1>p, <1>1, <1>3, <1>7, <2>1
  <2>5. BoundOf(u, task'[u], tso[u])
    BY <2>2, <2>4 DEF BoundOf, Loop, AtHome, Waiting
  <2>6. tso'[u] = tso[u] \/ (tso'[u].cap = tso[u].cap /\ tso'[u].st = "runnable" /\ tso[u].st = "blocked")
    BY <1>10, <2>1, <2>3
  <2> QED
    BY <2>5, <2>6 DEF BoundOf
<1>12. ThreadSide'
  BY <1>p, <1>5, <1>7, <1>9, <1>10, <1>11, ManyThreadsOK
<1>13. \A d \in Cap : running_task'[d] = k <=> d \in OwnedOf(s)
  BY <1>6, <1>8
<1>14. /\ r.pc \in Inside /\ s.pc \in Inside /\ s.pc \notin {"acquire", "synced"}
       /\ last_free_capability' \in Cap
       /\ \A d \in Cap : ~InForeign(s, d)
  BY <1>0, <1>1, <1>3, <1>8, Types DEF Inside, Loop, AtHome, InForeign, InC, Waiting
<1>15. \A d \in Cap : running_task[d] = k \/ (run_queue'[d] = run_queue[d] /\ ~InForeign(s, d))
  BY <1>6, <1>10, <1>14
<1>16. \A d \in Cap : running_task'[d] = Null =>
             running_task[d] = Null /\ run_queue'[d] = run_queue[d] /\ inbox'[d] = inbox[d]
  BY <1>6, <1>8, <1>10, ConstantFacts
<1> QED
  BY <1>p, <1>4, <1>7, <1>8, <1>9, <1>10, <1>12, <1>13, <1>14, <1>15, <1>16, ActiveStep

LEMMA SetToSeqFacts ==
    ASSUME NEW S, IsFiniteSet(S)
    PROVE  /\ SetToSeq(S) \in Seq(S) /\ Injective(SetToSeq(S))
           /\ \A y : In(SetToSeq(S), y) <=> y \in S
<1> DEFINE n == Cardinality(S)
           f == SetToSeq(S)
<1>1. n \in Nat /\ ExistsBijection(1..n, S)
  BY FS_CardinalityType
<1>2. \E g \in [1..n -> S] : IsInjective(g)
  BY <1>1 DEF ExistsBijection, Bijection, Injection
<1>3. f \in [1..n -> S] /\ IsInjective(f)
  BY <1>2 DEF SetToSeq
<1> HIDE DEF f
<1>4. f \in Injection(1..n, S)
  BY <1>3 DEF Injection
<1>5. IsFiniteSet(1..n) /\ Cardinality(1..n) = n
  <2>1. Cardinality(1..n) = IF 1 > n THEN 0 ELSE n - 1 + 1
    BY <1>1, FS_Interval
  <2> HIDE DEF n
  <2> QED
    BY <1>1, <2>1, FS_Interval
<1>6. f \in Surjection(1..n, S)
  BY <1>4, <1>5, FS_Injection
<1>7. \A y \in S : \E j \in 1..n : f[j] = y
  BY <1>6 DEF Surjection
<1> HIDE DEF n
<1>8. f \in Seq(S) /\ DOMAIN f = 1..n
  BY <1>1, <1>3
<1>9. Injective(f)
  BY <1>3 DEF Injective, IsInjective
<1>10. \A y : In(f, y) <=> y \in S
  BY <1>3, <1>7, <1>8 DEF In
<1> QED
  BY <1>8, <1>9, <1>10 DEF f

(* deleteAllThreads moves the threads that wait to their run queues. *)
LEMMA DeleteMoves ==
    ASSUME IInv, deleteAllThreads, sched_state # "shutting", sched_state' = "shutting",
           UNCHANGED <<inbox, scenario>>
    PROVE  /\ run_queue' \in [Cap -> Seq(TSO)] /\ tso' \in [TSO -> TSORec]
           /\ \A d \in Cap : Injective(run_queue'[d]) /\ Injective(inbox'[d])
           /\ \A u \in TSO : Moves(u)
           /\ \A u \in TSO : /\ tso'[u].cap = tso[u].cap
                             /\ \/ tso'[u].st = tso[u].st
                                \/ tso'[u].st = "runnable" /\ tso[u].st \in {"blocked", "migrating"}
<1>0. TypeOK /\ QueuesInv /\ ThreadInv
  BY DEF IInv, ThreadSide
<1>1. /\ run_queue \in [Cap -> Seq(TSO)] /\ inbox \in [Cap -> Seq(TSO)] /\ tso \in [TSO -> TSORec]
      /\ scenario \in Scenarios
  BY <1>0, Types
<1>2. PICK dead : dead = {t \in TSO : tso[t].st \in {"blocked", "migrating"}}
  OBVIOUS
<1>3. /\ tso' = [t \in TSO |->
               IF t \in dead THEN [tso[t] EXCEPT !.st = "runnable", !.ops = 0]
               ELSE IF tso[t].st = "runnable" THEN [tso[t] EXCEPT !.ops = 0] ELSE tso[t]]
      /\ run_queue' = [c \in Cap |-> run_queue[c] \o SetToSeq({t \in dead : tso[t].cap = c})]
  BY <1>2 DEF deleteAllThreads
<1>4. ASSUME NEW u \in TSO
      PROVE  /\ tso'[u] \in TSORec /\ tso'[u].cap = tso[u].cap
             /\ u \in dead => tso'[u].st = "runnable" /\ tso'[u].ops = 0
             /\ u \notin dead => tso'[u].st = tso[u].st
  <2>1. tso[u] \in TSORec
    BY <1>1
  <2>2. 0 \in 0..scenario.maxOps
    <3>1. scenario.maxOps \in Nat
      BY <1>1, ScenarioAssumption DEF Scenario
    <3> QED
      BY <3>1
  <2> DEFINE x == [tso[u] EXCEPT !.st = "runnable", !.ops = 0]
             y == [tso[u] EXCEPT !.ops = 0]
  <2>3. x \in TSORec /\ x.st = "runnable" /\ x.ops = 0 /\ x.cap = tso[u].cap
    BY <2>1, <2>2 DEF TSORec
  <2>4. y \in TSORec /\ y.st = tso[u].st /\ y.cap = tso[u].cap
    BY <2>1, <2>2 DEF TSORec
  <2>5. tso'[u] = IF u \in dead THEN x ELSE IF tso[u].st = "runnable" THEN y ELSE tso[u]
    BY <1>3
  <2> HIDE DEF x, y
  <2> QED
    BY <2>1, <2>3, <2>4, <2>5
<1>5. tso' \in [TSO -> TSORec]
  <2>1. DOMAIN tso' = TSO /\ tso' = [t \in TSO |-> tso'[t]]
    BY <1>3
  <2> QED
    BY <1>4, <2>1
<1>6. ASSUME NEW c \in Cap
      PROVE  /\ run_queue'[c] \in Seq(TSO) /\ Injective(run_queue'[c])
             /\ \A y : In(run_queue'[c], y) <=> In(run_queue[c], y) \/ (y \in dead /\ tso[y].cap = c)
  <2>1. PICK D : D = {t \in dead : tso[t].cap = c}
    OBVIOUS
  <2>2. PICK q : q = SetToSeq(D)
    OBVIOUS
  <2>3. D \subseteq TSO /\ IsFiniteSet(D)
    BY <1>2, <2>1, FiniteAssumption, FS_Subset
  <2>4. q \in Seq(D) /\ Injective(q) /\ \A y : In(q, y) <=> y \in D
    BY <2>2, <2>3, SetToSeqFacts
  <2>5. q \in Seq(TSO)
    BY <2>3, <2>4
  <2>6. run_queue'[c] = run_queue[c] \o q
    BY <1>3, <2>1, <2>2
  <2>7. run_queue[c] \in Seq(TSO) /\ Injective(run_queue[c])
    BY <1>0, <1>1 DEF QueuesInv
  <2>8. ASSUME NEW y, In(run_queue[c], y), In(q, y) PROVE FALSE
    <3>1. y \in TSO /\ y \in dead
      BY <2>1, <2>3, <2>4, <2>8
    <3>2. tso[y].st = "runnable"
      BY <1>0, <2>8, <3>1 DEF ThreadInv, ThreadOf
    <3> QED
      BY <1>2, <3>1, <3>2
  <2>9. /\ run_queue[c] \o q \in Seq(TSO) /\ Injective(run_queue[c] \o q)
        /\ \A y : In(run_queue[c] \o q, y) <=> In(run_queue[c], y) \/ In(q, y)
    BY <2>4, <2>5, <2>7, <2>8, ConcatFacts
  <2> QED
    BY <2>1, <2>4, <2>6, <2>9
<1>7. run_queue' \in [Cap -> Seq(TSO)]
  <2>1. run_queue' = [c \in Cap |-> run_queue'[c]]
    BY <1>3
  <2> QED
    BY <1>6, <2>1
<1>8. \A d \in Cap : Injective(inbox'[d])
  BY <1>0 DEF QueuesInv
<1>9. ASSUME NEW u \in TSO PROVE Moves(u)
  <2>1. ThreadOf(u, tso[u])
    BY <1>0 DEF ThreadInv
  <2>2. u \in dead <=> tso[u].st \in {"blocked", "migrating"}
    BY <1>2
  <2>3. \A d \in Cap : In(run_queue'[d], u) <=> tso'[u].st = "runnable" /\ tso'[u].cap = d
    <3> TAKE d \in Cap
    <3>1. In(run_queue'[d], u) <=> In(run_queue[d], u) \/ (u \in dead /\ tso[u].cap = d)
      BY <1>6
    <3>2. In(run_queue[d], u) <=> tso[u].st = "runnable" /\ tso[u].cap = d
      BY <2>1 DEF ThreadOf
    <3> QED
      BY <1>4, <2>2, <3>1, <3>2
  <2>4. ASSUME NEW d \in Cap, In(inbox'[d], u) PROVE Stale(tso[u])'
    <3>1. In(inbox[d], u)
      BY <2>4
    <3>2. u \in dead
      BY <2>1, <2>2, <3>1 DEF ThreadOf, Stale
    <3> QED
      BY <1>4, <3>2 DEF Stale
  <2>5. tso'[u].st \notin {"migrating", "blocked"}
    BY <1>4, <2>2
  <2>6. tso'[u].st \notin {"new", "finished"} => tso'[u].cap \in Cap
    BY <1>4, <2>1, <2>2 DEF ThreadOf
  <2>7. tso[u].st \in {"running", "ccall"} \/ tso'[u].st \in {"running", "ccall"} =>
         tso'[u].st = tso[u].st /\ tso'[u].cap = tso[u].cap
    BY <1>4, <2>2
  <2> QED
    BY <2>3, <2>4, <2>5, <2>6, <2>7 DEF Moves
<1>10. ASSUME NEW u \in TSO
       PROVE  /\ tso'[u].cap = tso[u].cap
              /\ \/ tso'[u].st = tso[u].st
                 \/ tso'[u].st = "runnable" /\ tso[u].st \in {"blocked", "migrating"}
  BY <1>2, <1>4
<1> QED
  BY <1>5, <1>6, <1>7, <1>8, <1>9, <1>10

LEMMA SyncedOK ==
    ASSUME IInv, HandedOver, NEW k \in Task, Synced(k), UNCHANGED scenario
    PROVE  IInv' /\ HandedOver'
<1>0. TypeOK /\ TasksInv /\ OwnInv /\ QueueInv /\ SyncInv /\ FinalInv /\ DrainInv /\ ThreadSide
  BY DEF IInv, TaskSide
<1>p. PICK r : r = task[k]
  OBVIOUS
<1>a. /\ r \in TaskRec /\ TaskInv(k, r) /\ FinalOf(k, r) /\ (k \in InCall => BoundOf(k, r, tso[k]))
      /\ \A d \in Cap : running_task[d] = k <=> d \in OwnedOf(r)
      /\ Stopping(r) => pending_sync = IF r.sync = "other" THEN "other" ELSE "gc"
  BY <1>p, OfTask
<1>1. r.pc = "synced" /\ task' = [task EXCEPT ![k] = [r EXCEPT !.pc = "releaseAll", !.i = 0]]
  BY <1>0, <1>p, Types DEF Synced, pc
<1>s. PICK s : s = [r EXCEPT !.pc = "releaseAll", !.i = 0]
  OBVIOUS
<1>2. s \in TaskRec
  <2>1. 0 \in 0..NCaps
    BY ConstantFacts
  <2> QED
    BY <1>a, <1>s, <2>1, PlaceFacts DEF TaskRec
<1>3. /\ s.pc = "releaseAll" /\ s.cap = r.cap /\ s.wakeup = r.wakeup /\ s.at = r.at /\ s.on = r.on
      /\ s.then = r.then /\ s.i = 0 /\ s.held = r.held /\ s.cur = r.cur /\ s.sync = r.sync
      /\ s.prev = r.prev /\ s.old = r.old
  BY <1>a, <1>s DEF TaskRec
<1>4. TaskInv(k, s)
  BY <1>a, <1>1, <1>3 DEF TaskInv, KeepsCap, Gone, InC, Waiting, Inside, Loop, AtHome, Pushing, Exiting, Calling
<1>5. r.at \in Cap /\ r.cur = Null /\ s.cur = Null
  BY <1>a, <1>1, <1>3 DEF TaskInv, KeepsCap, Gone, Inside, Loop, AtHome, InC, Waiting
<1>6. \A d \in Cap : d \in OwnedOf(s) /\ running_task[d] = k
  BY <1>a, <1>1, <1>3, ConstantFacts DEF OwnedOf
<1>7. /\ task' \in [Task -> TaskRec] /\ task'[k] = s /\ \A m \in Task : m # k => task'[m] = task[m]
  BY <1>0, <1>1, <1>2, <1>s, Types
<1>8. UNCHANGED <<running_task, returning_tasks, spare_workers, inbox, last_free_capability>> /\ pending_sync' = "none"
  BY DEF Synced
<1>c. PICK c \in Cap : c = 0
  BY ConstantFacts
<1>9. TaskStep(k, Null, c) /\ CapsKept(k, Null)
  BY <1>0, <1>7, <1>8, Types DEF TaskStep, CapsKept, Like
<1>10. /\ Stopping(r) /\ ~Stopping(s) /\ ~Yielding(s) /\ ~InC(s)
       /\ \A d \in Cap : ~AtReturn(s, d) /\ ~AtReturn(r, d) /\ ~AtYield(k, s, d) /\ ~AtYield(k, r, d)
  BY <1>1, <1>3 DEF Stopping, Yielding, InC, Waiting, AtReturn, AtYield
<1>11. /\ sched_state' \in {"running", "interrupting", "shutting"} /\ Onward
       /\ UNCHANGED sched_state \/ sched_state' = "shutting"
       /\ sched_state = "interrupting" /\ r.sync # "other" => sched_state' = "shutting"
  BY <1>0, <1>p, Types DEF Synced, Onward
<1>12. pending_sync = "gc" => sched_state' # "interrupting"
  BY <1>a, <1>10, <1>11
<1>13. TasksInv'
  BY <1>0, <1>4, <1>7, <1>9, TasksKept
<1>14. OwnInv'
  <2>1. \A d \in Cap : running_task'[d] = k <=> d \in OwnedOf(task'[k])
    BY <1>6, <1>7, <1>8
  <2> QED
    BY <1>0, <1>9, <2>1, OwnKept
<1>15. QueueInv'
  <2>1. QueueStep(k)
    BY <1>0, <1>p, <1>7, <1>8, <1>10, QueuesSame
  <2> QED
    BY <1>0, <1>9, <2>1, QueueKept
<1>16. SyncInv'
  <2>1. \A m \in Task : m # k => ~Stopping(task[m])
    BY <1>0, <1>p, <1>10 DEF SyncInv
  <2>2. \A m \in Task : ~Stopping(task'[m])
    BY <1>7, <1>10, <2>1
  <2> QED
    BY <2>2 DEF SyncInv
<1>17. FinalInv'
  <2>1. k \in Exiter \/ r.sync = "final" => r.sync # "other" /\ sched_state # "running"
    BY <1>a, <1>1 DEF TaskInv, KeepsCap, Gone, FinalOf
  <2>2. k \in Exiter \/ s.sync = "final" => sched_state' = "shutting"
    BY <1>0, <1>3, <1>11, <2>1, Types
  <2>3. FinalOf(k, task[k])'
    BY <1>3, <1>7, <1>10, <2>2 DEF FinalOf
  <2> QED
    BY <1>0, <1>9, <1>11, <1>12, <2>3, FinalKept
<1>18. DrainInv'
  <2>1. (k \in Exiter => DrainOf(k, task[k])') /\ r.pc \notin Gone
    BY <1>1, <1>3, <1>7 DEF DrainOf, Gone
  <2> QED
    BY <1>0, <1>p, <1>6, <1>9, <2>1, DrainKept
<1>19. HandedOver'
  BY <1>6, <1>8, ConstantFacts DEF HandedOver
<1>20. /\ run_queue' \in [Cap -> Seq(TSO)] /\ tso' \in [TSO -> TSORec] /\ ThreadSide'
  <2>1. CASE deleteAllThreads /\ sched_state # "shutting" /\ sched_state' = "shutting"
    <3>1. deleteAllThreads /\ sched_state' = "shutting"
      BY <2>1
    <3>2. /\ run_queue' \in [Cap -> Seq(TSO)] /\ tso' \in [TSO -> TSORec]
          /\ \A d \in Cap : Injective(run_queue'[d]) /\ Injective(inbox'[d])
          /\ \A u \in TSO : Moves(u)
          /\ \A u \in TSO : /\ tso'[u].cap = tso[u].cap
                            /\ \/ tso'[u].st = tso[u].st
                               \/ tso'[u].st = "runnable" /\ tso[u].st \in {"blocked", "migrating"}
      BY <1>8, <2>1, <3>1, DeleteMoves
    <3>3. ASSUME NEW u \in InCall PROVE BoundOf(u, task'[u], tso'[u])
      <4>1. u \in TSO /\ u \in Task
        BY ConstantFacts
      <4>2. BoundOf(u, task[u], tso[u]) /\ ThreadOf(u, tso[u])
        BY <1>0, <4>1 DEF ThreadSide, BoundInv, ThreadInv
      <4>3. tso[u].st # "migrating"
        BY <4>2, <3>3 DEF ThreadOf
      <4>4. /\ task'[u].pc = task[u].pc \/ (task[u].pc = "synced" /\ task'[u].pc = "releaseAll")
            /\ task'[u].cap = task[u].cap /\ task'[u].at = task[u].at
            /\ task'[u].then = task[u].then
            /\ task'[u].cur = task[u].cur
        BY <1>p, <1>1, <1>3, <1>7, <4>1
      <4>5. BoundOf(u, task'[u], tso[u])
        BY <4>2, <4>4 DEF BoundOf, Loop, AtHome, Waiting
      <4>6. tso'[u].cap = tso[u].cap /\ (tso'[u].st = tso[u].st \/ (tso'[u].st = "runnable" /\ tso[u].st = "blocked"))
        BY <3>2, <4>1, <4>3
      <4> QED
        BY <4>5, <4>6 DEF BoundOf
    <3>4. ThreadSide'
      BY <1>p, <1>5, <1>7, <1>9, <3>2, <3>3, ManyThreadsOK
    <3> QED
      BY <3>2, <3>4
  <2>2. CASE UNCHANGED <<run_queue, tso, sched_state>>
    <3>1. UNCHANGED <<run_queue, tso, sched_state>>
      BY <2>2
    <3>2. k \in InCall => BoundOf(k, s, tso[k])
      BY <1>a, <1>1, <1>3 DEF BoundOf, Loop, AtHome, Waiting
    <3>3. ThreadSide'
      BY <1>0, <1>p, <1>5, <1>7, <1>8, <1>9, <1>11, <3>1, <3>2, ThreadsKept
    <3>4. TSORec' = TSORec
      BY DEF TSORec
    <3> QED
      BY <1>0, <3>1, <3>3, Types
  <2> QED
    BY <2>1, <2>2 DEF Synced
<1>21. TypeOK'
  BY <1>0, <1>7, <1>8, <1>11, <1>20 DEF TypeOK, TaskRec, TSORec
<1> QED
  BY <1>13, <1>14, <1>15, <1>16, <1>17, <1>18, <1>19, <1>20, <1>21 DEF IInv, TaskSide

(* schedulePushWork gives threads of its own run queue, and never the one  *)
(* bound to this Task, to Capabilities it has grabbed.                     *)
LEMMA ShareFacts ==
    ASSUME NEW k \in Task, NEW held \in Seq(Cap), NEW q \in Seq(TSO), NEW to, to = Share(k, held, q)
    PROVE  \A t \in DOMAIN to : t \in TSO /\ In(q, t) /\ to[t] \in Cap /\ In(held, to[t]) /\ t # k
<1> DEFINE slot(n) == 1 + ((Turn(k, q, n) - 1) % (Len(held) + 1))
           goes == {n \in DOMAIN q : ~stays(k, q, n) /\ slot(n) \in DOMAIN held}
           T == {q[n] : n \in goes}
           at(t) == CHOOSE n \in goes : q[n] = t
<1>1. to = [t \in T |-> held[slot(at(t))]]
  BY DEF Share
<1> HIDE DEF slot
<1>2. \A n \in goes : n \in DOMAIN q /\ ~stays(k, q, n) /\ slot(n) \in DOMAIN held
  OBVIOUS
<1>3. \A t \in T : at(t) \in goes /\ q[at(t)] = t
  <2> HIDE DEF goes
  <2> QED
    OBVIOUS
<1> HIDE DEF goes, at, T
<1> SUFFICES ASSUME NEW t \in T
             PROVE  t \in TSO /\ In(q, t) /\ to[t] \in Cap /\ In(held, to[t]) /\ t # k
  BY <1>1
<1>4. to[t] = held[slot(at(t))] /\ slot(at(t)) \in DOMAIN held /\ at(t) \in DOMAIN q /\ ~stays(k, q, at(t)) /\ q[at(t)] = t
  BY <1>1, <1>2, <1>3
<1>5. In(q, t) /\ In(held, to[t]) /\ t \in TSO /\ to[t] \in Cap
  BY <1>4 DEF In
<1>6. bound(t) # k
  BY <1>4 DEF stays
<1>7. t # k
  BY <1>5, <1>6, ConstantFacts DEF bound
<1> QED
  BY <1>5, <1>7

LEMMA ThoseNone ==
    ASSUME NEW q \in Seq(TSO), NEW S, \A y : In(q, y) => y \notin S
    PROVE  Those(q, S) = <<>>
<1>1. Those(q, S) \in Seq(TSO) /\ \A y : ~In(Those(q, S), y)
  BY ThoseFacts
<1>2. PICK p : p = Those(q, S)
  OBVIOUS
<1>3. p \in Seq(TSO) /\ \A y : ~In(p, y)
  BY <1>1, <1>2
<1>4. Len(p) = 0
  <2> SUFFICES ASSUME Len(p) # 0 PROVE FALSE
    OBVIOUS
  <2>1. 1 \in DOMAIN p
    BY <1>3
  <2> QED
    BY <1>3, <2>1 DEF In
<1> QED
  BY <1>2, <1>3, <1>4

(* What is known of the one that shares out. *)
LEMMA OfSharer ==
    ASSUME IInv, NEW k \in Task, task[k].pc = "share"
    PROVE  LET r == task[k] IN
           /\ r \in TaskRec /\ TaskInv(k, r) /\ FinalOf(k, r) /\ (k \in InCall => BoundOf(k, r, tso[k]))
           /\ r.at \in Cap /\ r.held \in Seq(Cap) /\ ~In(r.held, r.at) /\ r.cur = Null
           /\ \A d \in Cap : d \in OwnedOf(r) <=> d = r.at \/ In(r.held, d)
           /\ \A d \in Cap : running_task[d] = k <=> d = r.at \/ In(r.held, d)
<1>p. PICK r : r = task[k]
  OBVIOUS
<1>a. /\ r \in TaskRec /\ TaskInv(k, r) /\ FinalOf(k, r) /\ (k \in InCall => BoundOf(k, r, tso[k]))
      /\ \A d \in Cap : running_task[d] = k <=> d \in OwnedOf(r)
      /\ r.held \in Seq(Cap) /\ r.pc = "share"
  BY <1>p, OfTask
<1>1. r.at \in Cap /\ ~In(r.held, r.at) /\ r.cur = Null
  BY <1>a DEF TaskInv, KeepsCap, Gone, Inside, Loop, Pushing, InC, Waiting
<1>2. \A d \in Cap : d \in OwnedOf(r) <=> d = r.at \/ d \in ToSet(r.held)
  BY <1>a DEF OwnedOf
<1>3. \A d \in Cap : d \in OwnedOf(r) <=> d = r.at \/ In(r.held, d)
  BY <1>2, ToSetIn
<1> QED
  BY <1>p, <1>a, <1>1, <1>3

LEMMA ShareMoves ==
    ASSUME IInv, NEW k \in Task, task[k].pc = "share", NEW c \in Cap, c = task[k].at,
           NEW to, to = Share(k, task[k].held, run_queue[c]),
           run_queue' = Dealt(c, to), tso' = Moved(tso, to), UNCHANGED <<inbox, sched_state,
                                                                         scenario>>
    PROVE  /\ run_queue' \in [Cap -> Seq(TSO)] /\ tso' \in [TSO -> TSORec]
           /\ \A d \in Cap : Injective(run_queue'[d]) /\ Injective(inbox'[d])
           /\ \A d \in Cap : running_task[d] # k => run_queue'[d] = run_queue[d]
           /\ \A u \in TSO : Moves(u)
           /\ \A u \in DOMAIN to : /\ u \in TSO /\ to[u] \in Cap /\ u # k /\ tso[u].st = "runnable" /\ tso[u].cap = c
                                   /\ tso'[u].st = "runnable" /\ tso'[u].cap = to[u]
           /\ \A u \in TSO : u \notin DOMAIN to => tso'[u] = tso[u]
<1>0. TypeOK /\ QueuesInv /\ ThreadInv
  BY DEF IInv, ThreadSide
<1>1. /\ run_queue \in [Cap -> Seq(TSO)] /\ inbox \in [Cap -> Seq(TSO)] /\ tso \in [TSO -> TSORec]
      /\ run_queue[c] \in Seq(TSO) /\ Injective(run_queue[c])
  BY <1>0, Types DEF QueuesInv
<1>2. PICK held : held = task[k].held
  OBVIOUS
<1>3. /\ held \in Seq(Cap) /\ ~In(held, c) /\ \A d \in Cap : running_task[d] = k <=> d = c \/ In(held, d)
  BY <1>2, OfSharer
<1>4. \A t \in DOMAIN to : t \in TSO /\ In(run_queue[c], t) /\ to[t] \in Cap /\ In(held, to[t]) /\ t # k /\ to[t] # c
  <2>1. to = Share(k, held, run_queue[c])
    BY <1>2
  <2> QED
    BY <1>1, <1>3, <2>1, ShareFacts
<1>5. \A u \in TSO, d \in Cap : In(run_queue[d], u) <=> tso[u].st = "runnable" /\ tso[u].cap = d
  BY <1>0 DEF ThreadInv, ThreadOf
<1>6. \A u \in DOMAIN to : u \in TSO /\ tso[u].st = "runnable" /\ tso[u].cap = c
  BY <1>4, <1>5
<1>7. \A u \in TSO : /\ tso'[u] \in TSORec /\ tso'[u].st = tso[u].st /\ tso'[u].ops = tso[u].ops
                     /\ u \in DOMAIN to => tso'[u].cap = to[u]
                     /\ u \notin DOMAIN to => tso'[u] = tso[u]
  <2> TAKE u \in TSO
  <2>1. tso[u] \in TSORec /\ DOMAIN tso = TSO
    BY <1>1
  <2>2. tso'[u] = IF u \in DOMAIN to THEN [tso[u] EXCEPT !.cap = to[u]] ELSE tso[u]
    BY <2>1 DEF Moved
  <2>3. CASE u \in DOMAIN to
    <3>1. to[u] \in Cap
      BY <1>4, <2>3
    <3> QED
      BY <2>1, <2>2, <2>3, <3>1 DEF TSORec
  <2>4. CASE u \notin DOMAIN to
    BY <2>1, <2>2, <2>4
  <2> QED
    BY <2>3, <2>4
<1>8. tso' \in [TSO -> TSORec]
  <2>1. DOMAIN tso = TSO
    BY <1>1
  <2>2. tso' = [x \in TSO |-> tso'[x]]
    BY <2>1 DEF Moved
  <2> QED
    BY <1>7, <2>2
<1>9. /\ run_queue'[c] \in Seq(TSO) /\ Injective(run_queue'[c])
      /\ \A y : In(run_queue'[c], y) <=> In(run_queue[c], y) /\ y \in TSO \ DOMAIN to
  <2>1. run_queue'[c] = Those(run_queue[c], TSO \ DOMAIN to)
    BY DEF Dealt
  <2> QED
    BY <1>1, <2>1, ThoseFacts
<1>10. ASSUME NEW d \in Cap, d # c
       PROVE  /\ run_queue'[d] \in Seq(TSO) /\ Injective(run_queue'[d])
              /\ \A y : In(run_queue'[d], y) <=> In(run_queue[d], y) \/ (In(run_queue[c], y) /\ y \in DOMAIN to /\ to[y] = d)
              /\ running_task[d] # k => run_queue'[d] = run_queue[d]
  <2>1. PICK S : S = {t \in DOMAIN to : to[t] = d}
    OBVIOUS
  <2>2. PICK p : p = Those(run_queue[c], S)
    OBVIOUS
  <2>3. run_queue'[d] = run_queue[d] \o p
    BY <1>10, <2>1, <2>2 DEF Dealt
  <2>4. p \in Seq(TSO) /\ Injective(p) /\ \A y : In(p, y) <=> In(run_queue[c], y) /\ y \in S
    BY <1>1, <2>2, ThoseFacts
  <2>5. run_queue[d] \in Seq(TSO) /\ Injective(run_queue[d])
    BY <1>0, <1>1 DEF QueuesInv
  <2>6. ASSUME NEW y, In(run_queue[d], y), In(p, y) PROVE FALSE
    <3>1. y \in TSO /\ tso[y].cap = c
      BY <1>6, <2>1, <2>4, <2>6
    <3> QED
      BY <1>5, <1>10, <2>6, <3>1
  <2>7. /\ run_queue'[d] \in Seq(TSO) /\ Injective(run_queue'[d])
        /\ \A y : In(run_queue'[d], y) <=> In(run_queue[d], y) \/ In(p, y)
    BY <2>3, <2>4, <2>5, <2>6, ConcatFacts
  <2>8. ASSUME running_task[d] # k PROVE run_queue'[d] = run_queue[d]
    <3>1. \A y : In(run_queue[c], y) => y \notin S
      BY <1>3, <1>4, <2>1, <2>8
    <3>2. p = <<>>
      BY <1>1, <2>2, <3>1, ThoseNone
    <3> QED
      BY <2>3, <2>5, <3>2
  <2> QED
    BY <2>1, <2>4, <2>7, <2>8
<1>11. run_queue' \in [Cap -> Seq(TSO)]
  <2>1. run_queue' = [d \in Cap |-> run_queue'[d]]
    BY DEF Dealt
  <2> QED
    BY <1>9, <1>10, <2>1
<1>12. \A d \in Cap : Injective(run_queue'[d]) /\ Injective(inbox'[d])
  BY <1>0, <1>9, <1>10 DEF QueuesInv
<1>13. \A d \in Cap : running_task[d] # k => run_queue'[d] = run_queue[d]
  BY <1>3, <1>10
<1>14. ASSUME NEW u \in TSO PROVE Moves(u)
  <2>1. ThreadOf(u, tso[u])
    BY <1>0 DEF ThreadInv
  <2>2. Stale(tso[u]) => Stale(tso[u])'
    BY <1>7 DEF Stale
  <2>3. CASE u \in DOMAIN to
    <3>1. tso[u].st = "runnable" /\ tso[u].cap = c /\ tso'[u].st = "runnable" /\ tso'[u].cap = to[u] /\ to[u] \in Cap /\ to[u] # c
      BY <1>4, <1>6, <1>7, <2>3
    <3>2. \A d \in Cap : In(run_queue[d], u) <=> d = c
      BY <1>5, <3>1
    <3>3. \A d \in Cap : In(run_queue'[d], u) <=> d = to[u]
      BY <1>9, <1>10, <2>3, <3>1, <3>2
    <3>4. \A d \in Cap : In(inbox'[d], u) => Stale(tso[u])'
      BY <2>1, <2>2, <3>1 DEF ThreadOf
    <3> QED
      BY <3>1, <3>3, <3>4 DEF Moves
  <2>4. CASE u \notin DOMAIN to
    <3>1. tso'[u] = tso[u]
      BY <1>7, <2>4
    <3>2. \A d \in Cap : In(run_queue'[d], u) <=> In(run_queue[d], u)
      BY <1>9, <1>10, <2>4
    <3> QED
      BY <2>1, <2>2, <3>1, <3>2 DEF ThreadOf, Moves
  <2> QED
    BY <2>3, <2>4
<1>15. \A u \in DOMAIN to : /\ u \in TSO /\ to[u] \in Cap /\ u # k /\ tso[u].st = "runnable" /\ tso[u].cap = c
                            /\ tso'[u].st = "runnable" /\ tso'[u].cap = to[u]
  <2> TAKE u \in DOMAIN to
  <2>1. u \in TSO /\ to[u] \in Cap /\ u # k
    BY <1>4
  <2>2. tso[u].st = "runnable" /\ tso[u].cap = c
    BY <1>6
  <2>3. tso'[u].st = tso[u].st /\ tso'[u].cap = to[u]
    BY <1>7, <2>1
  <2> QED
    BY <2>1, <2>2, <2>3
<1> QED
  BY <1>7, <1>8, <1>11, <1>12, <1>13, <1>14, <1>15

(* The Task of a bound thread on somebody else's run queue is asleep. *)
LEMMA SleepsElsewhere ==
    ASSUME IInv, NEW k \in Task, NEW c \in Cap, running_task[c] = k, NEW t \in InCall, t # k,
           tso[t].st = "runnable", tso[t].cap = c
    PROVE  task[t].pc \in {"sleep", "check"} /\ task[t].cap = c
<1> DEFINE r == task[t]
<1>1. t \in Task /\ t \notin Syncer
  BY ConstantFacts
<1>2. BoundOf(t, r, tso[t]) /\ TaskInv(t, r) /\ (running_task[c] = t <=> c \in OwnedOf(r))
  BY <1>1, OfTask
<1> HIDE DEF r
<1>3. ASSUME r.pc \in Loop \/ (r.pc \in Waiting /\ r.then = "acquire"), r.at = c
      PROVE c \in OwnedOf(r)
  <2>1. r.sync # "other"
    BY <1>1, <1>2 DEF TaskInv, KeepsCap
  <2> QED
    BY <1>3, <2>1 DEF OwnedOf, Loop, AtHome, Pushing, Waiting
<1> QED
  BY <1>2, <1>3 DEF BoundOf, r

LEMMA PushShareOK ==
    ASSUME IInv, HandedOver, NEW k \in Task, PushShare(k), UNCHANGED <<sched_state, scenario>>
    PROVE  IInv' /\ HandedOver'
<1>0. TypeOK /\ TasksInv /\ OwnInv /\ QueueInv /\ SyncInv /\ FinalInv /\ DrainInv /\ ThreadSide
  BY DEF IInv, TaskSide
<1>p. PICK r : r = task[k]
  OBVIOUS
<1>1. r.pc = "share"
  BY <1>p DEF PushShare, pc
<1>a. /\ r \in TaskRec /\ TaskInv(k, r) /\ FinalOf(k, r) /\ (k \in InCall => BoundOf(k, r, tso[k]))
      /\ r.at \in Cap /\ r.held \in Seq(Cap) /\ ~In(r.held, r.at) /\ r.cur = Null
      /\ \A d \in Cap : d \in OwnedOf(r) <=> d = r.at \/ In(r.held, d)
      /\ \A d \in Cap : running_task[d] = k <=> d = r.at \/ In(r.held, d)
  BY <1>p, <1>1, OfSharer
<1>c. PICK c \in Cap : c = task[k].at
  BY <1>p, <1>a
<1>t. PICK to : to = Share(k, task[k].held, run_queue[c])
  OBVIOUS
<1>2. /\ run_queue' = Dealt(c, to) /\ tso' = Moved(tso, to)
      /\ task' = [Moved(task, to) EXCEPT ![k].pc = "relShared"]
      /\ UNCHANGED <<running_task, returning_tasks, spare_workers, inbox, last_free_capability,
                     pending_sync>>
  BY <1>c, <1>t DEF PushShare
<1>3. /\ run_queue' \in [Cap -> Seq(TSO)] /\ tso' \in [TSO -> TSORec]
      /\ \A d \in Cap : Injective(run_queue'[d]) /\ Injective(inbox'[d])
      /\ \A d \in Cap : running_task[d] # k => run_queue'[d] = run_queue[d]
      /\ \A u \in TSO : Moves(u)
      /\ \A u \in DOMAIN to : /\ u \in TSO /\ to[u] \in Cap /\ u # k /\ tso[u].st = "runnable" /\ tso[u].cap = c
                              /\ tso'[u].st = "runnable" /\ tso'[u].cap = to[u]
      /\ \A u \in TSO : u \notin DOMAIN to => tso'[u] = tso[u]
  BY <1>p, <1>c, <1>t, <1>1, <1>2, ShareMoves
<1>s. PICK s : s = [r EXCEPT !.pc = "relShared"]
  OBVIOUS
<1>4. s \in TaskRec
  BY <1>a, <1>s, PlaceFacts DEF TaskRec
<1>5. /\ s.pc = "relShared" /\ s.cap = r.cap /\ s.wakeup = r.wakeup /\ s.at = r.at /\ s.on = r.on
      /\ s.then = r.then /\ s.i = r.i /\ s.held = r.held /\ s.cur = r.cur /\ s.sync = r.sync
      /\ s.prev = r.prev /\ s.old = r.old
  BY <1>a, <1>s DEF TaskRec
<1>6. task \in [Task -> TaskRec]
  BY <1>0, Types
<1>7. /\ task'[k] = s /\ DOMAIN task' = Task /\ task' = [m \in Task |-> task'[m]]
      /\ \A m \in Task : m # k /\ m \notin DOMAIN to => task'[m] = task[m]
      /\ \A m \in Task : m # k /\ m \in DOMAIN to => task'[m] = [task[m] EXCEPT !.cap = to[m]]
  <2>1. k \notin DOMAIN to
    BY <1>3
  <2>2. PICK mt : mt = Moved(task, to)
    OBVIOUS
  <2>3. mt = [x \in Task |-> IF x \in DOMAIN to THEN [task[x] EXCEPT !.cap = to[x]] ELSE task[x]]
    BY <1>6, <2>2 DEF Moved
  <2>4. task' = [mt EXCEPT ![k].pc = "relShared"]
    BY <1>2, <2>2
  <2>5. mt[k] = r
    BY <1>p, <2>1, <2>3
  <2>6. DOMAIN mt = Task
    BY <2>3
  <2>7. task' = [mt EXCEPT ![k] = s]
    BY <1>s, <2>4, <2>5
  <2> QED
    BY <2>3, <2>6, <2>7
<1>8. running_task[c] = k
  BY <1>p, <1>a, <1>c
<1>9. ASSUME NEW m \in Task, m # k, m \in DOMAIN to
      PROVE  /\ m \in InCall /\ task[m].pc \in {"sleep", "check"} /\ task[m].cap = c
             /\ task'[m] \in TaskRec /\ Like(m, task'[m], task[m]) /\ task'[m].cap = to[m]
  <2>1. m \in TSO /\ to[m] \in Cap /\ tso[m].st = "runnable" /\ tso[m].cap = c
    BY <1>3, <1>9
  <2>2. m \in InCall
    BY <2>1, ConstantFacts
  <2>3. task[m].pc \in {"sleep", "check"} /\ task[m].cap = c
    BY <1>8, <1>9, <2>1, <2>2, SleepsElsewhere
  <2>4. task[m] \in TaskRec /\ task'[m] = [task[m] EXCEPT !.cap = to[m]]
    BY <1>6, <1>7, <1>9
  <2>5. /\ task'[m] \in TaskRec /\ task'[m].cap = to[m] /\ task'[m].pc = task[m].pc
        /\ task'[m].at = task[m].at
        /\ task'[m].on = task[m].on /\ task'[m].then = task[m].then /\ task'[m].i = task[m].i
        /\ task'[m].held = task[m].held /\ task'[m].cur = task[m].cur
        /\ task'[m].sync = task[m].sync
        /\ task'[m].prev = task[m].prev /\ task'[m].old = task[m].old /\ task'[m].wakeup = task[m].wakeup
    BY <2>1, <2>4 DEF TaskRec
  <2> QED
    BY <2>1, <2>2, <2>3, <2>5 DEF Like
<1>10. /\ task' \in [Task -> TaskRec] /\ \A m \in Task : m # k => Like(m, task'[m], task[m])
  <2>1. \A m \in Task : m # k /\ m \notin DOMAIN to => task'[m] \in TaskRec /\ Like(m, task'[m], task[m])
    BY <1>6, <1>7 DEF Like
  <2>2. \A m \in Task : task'[m] \in TaskRec
    BY <1>4, <1>7, <1>9, <2>1
  <2> QED
    BY <1>7, <1>9, <2>1, <2>2
<1>11. TaskStep(k, Null, c)
  BY <1>0, <1>2, <1>10, Types DEF TaskStep
<1>12. TaskInv(k, s) /\ FinalOf(k, s) /\ \A d \in Cap : d \in OwnedOf(s) <=> d \in OwnedOf(r)
  <2>1. TaskInv(k, s)
    BY <1>a, <1>1, <1>5 DEF TaskInv, KeepsCap, Gone, InC, Waiting, Inside, Loop, AtHome, Pushing, Exiting, Calling
  <2>2. FinalOf(k, s)
    BY <1>a, <1>1, <1>5 DEF FinalOf, Yielding
  <2>3. \A d \in Cap : d \in OwnedOf(s) <=> d \in OwnedOf(r)
    BY <1>1, <1>5 DEF OwnedOf
  <2> QED
    BY <2>1, <2>2, <2>3
<1>13. /\ ~Stopping(s) /\ ~InC(s) /\ r.pc \notin Gone
       /\ \A d \in Cap : ~AtReturn(s, d) /\ ~AtReturn(r, d) /\ ~AtYield(k, s, d) /\ ~AtYield(k, r, d) /\ ~ComingOf(r, d)
  BY <1>1, <1>5 DEF Stopping, InC, Waiting, AtReturn, AtYield, Gone, ComingOf
<1>14. TypeOK'
  BY <1>0, <1>2, <1>3, <1>10 DEF TypeOK, TaskRec, TSORec
<1>15. TasksInv'
  BY <1>0, <1>7, <1>11, <1>12, TasksKept
<1>16. OwnInv'
  <2>1. \A d \in Cap : running_task'[d] = k <=> d \in OwnedOf(task'[k])
    BY <1>a, <1>2, <1>7, <1>12
  <2> QED
    BY <1>0, <1>11, <2>1, OwnKept
<1>17. QueueInv'
  <2>1. QueueStep(k)
    BY <1>0, <1>p, <1>2, <1>7, <1>13, QueuesSame
  <2> QED
    BY <1>0, <1>11, <2>1, QueueKept
<1>18. SyncInv'
  BY <1>0, <1>2, <1>7, <1>11, <1>13, SyncKept
<1>19. FinalInv'
  <2>1. FinalOf(k, task[k])'
    BY <1>2, <1>7, <1>12 DEF FinalOf
  <2>2. Onward /\ sched_state' \in {"running", "interrupting", "shutting"}
    BY <1>0, Types DEF Onward
  <2> QED
    BY <1>0, <1>2, <1>11, <2>1, <2>2, FinalKept
<1>20. DrainInv'
  <2>1. k \in Exiter => DrainOf(k, task[k])'
    BY <1>5, <1>7 DEF DrainOf
  <2>2. \A d \in Cap : \/ running_task[d] = k
                       \/ /\ run_queue[d] = <<>> => run_queue'[d] = <<>>
                          /\ spare_workers[d] = <<>> => spare_workers'[d] = <<>>
                          /\ InForeign(task'[k], d) => InForeign(task[k], d)
    BY <1>2, <1>3, <1>7, <1>13 DEF InForeign
  <2> QED
    BY <1>0, <1>p, <1>11, <1>13, <2>1, <2>2, DrainKept
<1>21. ThreadSide'
  <2>1. ASSUME NEW u \in InCall PROVE BoundOf(u, task'[u], tso'[u])
    <3>1. u \in TSO /\ u \in Task
      BY ConstantFacts
    <3>2. BoundOf(u, task[u], tso[u])
      BY <1>0, <3>1 DEF ThreadSide, BoundInv
    <3>3. CASE u = k
      <4>1. tso'[u] = tso[u]
        BY <1>3, <3>1, <3>3
      <4> QED
        BY <1>p, <1>1, <1>5, <1>7, <3>2, <3>3, <4>1 DEF BoundOf, Loop, AtHome, Pushing, Waiting
    <3>4. CASE u # k /\ u \notin DOMAIN to
      BY <1>3, <1>7, <3>1, <3>2, <3>4
    <3>5. CASE u # k /\ u \in DOMAIN to
      <4>1. task[u].pc \in {"sleep", "check"} /\ Like(u, task'[u], task[u]) /\ task'[u].cap = to[u]
        BY <1>9, <3>1, <3>5
      <4>2. tso'[u].st = "runnable" /\ tso'[u].cap = to[u]
        BY <1>3, <3>5
      <4> QED
        BY <4>1, <4>2 DEF BoundOf, Like
    <3> QED
      BY <3>3, <3>4, <3>5
  <2> QED
    BY <1>p, <1>a, <1>3, <1>5, <1>7, <1>11, <2>1, ManyThreadsOK
<1>22. HandedOver'
  <2>1. ASSUME NEW m \in Task, NEW d \in Cap, running_task[d] = Null, ComingOf(task[m], d)
        PROVE  ComingOf(task'[m], d)
    <3>1. d # c
      BY <1>8, <2>1, ConstantFacts
    <3>2. task[m].cap = d
      BY <2>1 DEF ComingOf
    <3>3. m # k
      BY <1>p, <1>13, <2>1
    <3>4. m \notin DOMAIN to
      BY <1>9, <3>1, <3>2, <3>3
    <3>5. task'[m] = task[m]
      BY <1>7, <3>3, <3>4
    <3> QED
      BY <2>1, <3>5
  <2> SUFFICES ASSUME NEW d \in Cap, running_task'[d] = Null
               PROVE  /\ returning_tasks[d] # <<>> => ComingOf(task'[Head(returning_tasks[d])], d)
                      /\ returning_tasks[d] = <<>> /\ pending_sync = "none"
                          /\ (run_queue[d] # <<>> \/ (inbox[d] # <<>> /\ sched_state # "shutting"))
                        => IF run_queue[d] # <<>> /\ bound(Head(run_queue[d])) # Null
                             THEN ComingOf(task'[bound(Head(run_queue[d]))], d)
                             ELSE spare_workers[d] # <<>> /\ ComingOf(task'[Head(spare_workers[d])], d)
    <3>1. \A d \in Cap : running_task'[d] = Null => run_queue'[d] = run_queue[d]
      BY <1>2, <1>3, ConstantFacts
    <3> QED
      BY <1>2, <3>1 DEF HandedOver, bound, Coming, ComingOf, pc
  <2>2. running_task[d] = Null
    BY <1>2
  <2>3. /\ returning_tasks[d] # <<>> => Head(returning_tasks[d]) \in Task
        /\ spare_workers[d] # <<>> => Head(spare_workers[d]) \in Task
    BY <1>0, Types, TailFacts
  <2>4. bound(Head(run_queue[d])) # Null => bound(Head(run_queue[d])) \in Task
    BY ConstantFacts DEF bound
  <2>5. /\ returning_tasks[d] # <<>> => ComingOf(task[Head(returning_tasks[d])], d)
        /\ returning_tasks[d] = <<>> /\ pending_sync = "none"
              /\ (run_queue[d] # <<>> \/ (inbox[d] # <<>> /\ sched_state # "shutting"))
           => IF run_queue[d] # <<>> /\ bound(Head(run_queue[d])) # Null
                THEN ComingOf(task[bound(Head(run_queue[d]))], d)
                ELSE spare_workers[d] # <<>> /\ ComingOf(task[Head(spare_workers[d])], d)
    BY <2>2 DEF HandedOver, Coming, ComingOf, pc
  <2> QED
    BY <2>1, <2>2, <2>3, <2>4, <2>5
<1> QED
  BY <1>14, <1>15, <1>16, <1>17, <1>18, <1>19, <1>20, <1>21, <1>22 DEF IInv, TaskSide

-----------------------------------------------------------------------------
(* Every step *)

LEMMA InitOK == Init => IInv /\ HandedOver
<1> SUFFICES ASSUME Init PROVE IInv /\ HandedOver
  OBVIOUS
<1>1. PICK w \in {CHOOSE f \in [1..NCaps - 1 -> Worker] : \A c, d \in 1..NCaps - 1 : f[c] = f[d] => c = d} :
               /\ running_task = [c \in Cap |-> IF c = 0 THEN Null ELSE w[c]]
               /\ task = [k \in Task |->
                      LET mine == {c \in 1..NCaps - 1 : w[c] = k}
                      IN  IF mine = {} THEN newTask("none", Null)
                          ELSE newTask("schedule", CHOOSE c \in mine : TRUE)]
  BY DEF Init
<1> DEFINE Inj(f) == \A c, d \in 1..NCaps - 1 : f[c] = f[d] => c = d
<1>2. \E f \in [1..NCaps - 1 -> Worker] : Inj(f)
  BY WorkerAssumption
<1>3. w \in [1..NCaps - 1 -> Worker] /\ Inj(w)
  BY <1>1, <1>2
<1>4. \A c \in Cap : c = 0 \/ c \in 1..NCaps - 1
  BY ConstantFacts
<1>5. \A c \in 1..NCaps - 1 : c \in Cap /\ c # 0 /\ w[c] \in Worker
  BY <1>3, ConstantFacts
<1>6. /\ \A c \in Cap : running_task[c] = IF c = 0 THEN Null ELSE w[c]
      /\ running_task \in [Cap -> Task \cup {Null}]
  BY <1>1, <1>4, <1>5, ConstantFacts
<1>7. ASSUME NEW k \in Task
      PROVE  \/ task[k] = newTask("none", Null) /\ \A c \in 1..NCaps - 1 : w[c] # k
             \/ k \in Worker /\ \E c \in 1..NCaps - 1 : w[c] = k /\ task[k] = newTask("schedule", c)
  <2> DEFINE mine == {c \in 1..NCaps - 1 : w[c] = k}
  <2>1. task[k] = IF mine = {} THEN newTask("none", Null) ELSE newTask("schedule", CHOOSE c \in mine : TRUE)
    BY <1>1
  <2>2. CASE mine = {}
    BY <2>1, <2>2
  <2>3. CASE mine # {}
    <3>1. PICK c : c = CHOOSE e \in mine : TRUE
      OBVIOUS
    <3>2. c \in mine
      BY <2>3, <3>1
    <3>3. task[k] = newTask("schedule", c)
      BY <2>1, <2>3, <3>1
    <3> QED
      BY <1>5, <3>2, <3>3
  <2> QED
    BY <2>2, <2>3
<1> HIDE DEF Inj
<1>8. PICK z : z = newTask("none", Null)
  OBVIOUS
<1>9. /\ z \in TaskRec /\ z.pc = "none" /\ z.cur = Null /\ z.sync = "none" /\ OwnedOf(z) = {}
      /\ ~Stopping(z) /\ ~InC(z) /\ ~Yielding(z)
  <2>1. z \in TaskRec
    BY <1>8, PlaceFacts, EmptyFacts, ConstantFacts DEF newTask, TaskRec
  <2>2. z.pc = "none" /\ z.cur = Null /\ z.sync = "none"
    BY <1>8 DEF newTask
  <2> QED
    BY <2>1, <2>2 DEF OwnedOf, Stopping, InC, Yielding, Waiting
<1>10. ASSUME NEW k \in Task PROVE TaskInv(k, z)
  BY <1>9 DEF TaskInv, KeepsCap, Gone, Waiting, Inside, Loop, AtHome, Pushing, Exiting, Calling
<1>11. ASSUME NEW k \in Task
       PROVE  /\ task[k] \in TaskRec /\ TaskInv(k, task[k]) /\ task[k].pc \in {"none", "schedule"}
              /\ task[k].cur = Null /\ task[k].sync = "none" /\ ~Stopping(task[k])
              /\ \A d \in Cap : running_task[d] = k <=> d \in OwnedOf(task[k])
              /\ task[k].pc = "schedule" => k \in Worker
  <2>1. CASE task[k] = newTask("none", Null) /\ \A c \in 1..NCaps - 1 : w[c] # k
    <3>1. task[k] = z
      BY <1>8, <2>1
    <3>2. \A d \in Cap : running_task[d] # k
      BY <1>4, <1>6, <2>1, ConstantFacts
    <3> QED
      BY <1>9, <1>10, <3>1, <3>2
  <2>2. CASE k \in Worker /\ \E c \in 1..NCaps - 1 : w[c] = k /\ task[k] = newTask("schedule", c)
    <3>1. PICK c \in 1..NCaps - 1 : w[c] = k /\ task[k] = newTask("schedule", c)
      BY <2>2
    <3>2. c \in Cap
      BY <1>5
    <3>3. /\ task[k] \in TaskRec /\ TaskInv(k, task[k]) /\ OwnedOf(task[k]) = {c}
          /\ ~Stopping(task[k])
      BY <2>2, <3>1, <3>2, NewTaskFacts
    <3>4. task[k].pc = "schedule" /\ task[k].cur = Null /\ task[k].sync = "none"
      BY <3>1 DEF newTask
    <3>5. \A d \in Cap : running_task[d] = k <=> d = c
      <4>1. \A d \in 1..NCaps - 1 : w[d] = k => d = c
        BY <1>3, <3>1 DEF Inj
      <4>2. running_task[c] = k
        BY <1>5, <1>6, <3>1, <3>2
      <4>3. \A d \in Cap : running_task[d] = k => d = c
        BY <1>4, <1>6, <4>1, ConstantFacts
      <4> QED
        BY <4>2, <4>3
    <3> QED
      BY <2>2, <3>3, <3>4, <3>5
  <2> QED
    BY <1>7, <2>1, <2>2
<1>12. task \in [Task -> TaskRec]
  <2>1. DOMAIN task = Task /\ task = [k \in Task |-> task[k]]
    BY <1>1
  <2> QED
    BY <1>11, <2>1
<1>13. /\ \A c \in Cap : /\ returning_tasks[c] = <<>> /\ spare_workers[c] = <<>>
                         /\ run_queue[c] = <<>> /\ inbox[c] = <<>>
       /\ returning_tasks \in [Cap -> Seq(Task)] /\ spare_workers \in [Cap -> Seq(Task)]
       /\ run_queue \in [Cap -> Seq(TSO)] /\ inbox \in [Cap -> Seq(TSO)]
  BY DEF Init, initCapability
<1>14. /\ last_free_capability \in Cap /\ pending_sync = "none" /\ sched_state = "running"
       /\ scenario \in Scenarios
  BY ConstantFacts DEF Init
<1>15. /\ \A t \in TSO : tso[t].st = "new" /\ tso[t] \in TSORec
       /\ tso \in [TSO -> TSORec]
  <2>1. scenario.maxOps \in Nat
    BY <1>14, ScenarioAssumption DEF Scenario
  <2>2. PICK n : n = [st |-> "new", cap |-> Null, locked |-> FALSE, ops |-> scenario.maxOps]
    OBVIOUS
  <2>3. n \in TSORec /\ n.st = "new"
    BY <2>1, <2>2 DEF TSORec
  <2>4. tso = [t \in TSO |-> n]
    BY <2>2 DEF Init
  <2> QED
    BY <2>3, <2>4
<1>16. TypeOK
  BY <1>6, <1>12, <1>13, <1>14, <1>15 DEF TypeOK, TaskRec, TSORec
<1>17. TasksInv /\ OwnInv
  BY <1>11 DEF TasksInv, OwnInv
<1>18. QueueInv
  BY <1>11, <1>13, EmptyFacts DEF QueueInv, AtReturn, AtYield
<1>19. SyncInv
  BY <1>11 DEF SyncInv
<1>20. FinalInv
  <2> SUFFICES ASSUME NEW k \in Task PROVE FinalOf(k, task[k])
    BY DEF FinalInv
  <2>1. /\ task[k].pc \in {"none", "schedule"} /\ task[k].sync = "none" /\ (task[k].pc = "schedule" => k \in Worker)
    BY <1>11
  <2>2. k \in Exiter => task[k].pc = "none"
    BY <2>1, ConstantFacts
  <2>3. ~Yielding(task[k])
    BY <2>1 DEF Yielding
  <2> QED
    BY <2>1, <2>2, <2>3 DEF FinalOf
<1>21. DrainInv
  BY <1>11, ConstantFacts DEF DrainInv, DrainOf
<1>22. ThreadInv
  BY <1>13, <1>15, EmptyFacts DEF ThreadInv, ThreadOf
<1>23. QueuesInv
  BY <1>13, EmptyFacts DEF QueuesInv
<1>24. CurInv
  BY <1>11 DEF CurInv
<1>25. BoundInv
  <2> SUFFICES ASSUME NEW t \in InCall PROVE BoundOf(t, task[t], tso[t])
    BY DEF BoundInv
  <2>1. tso[t].st = "new" /\ task[t].pc = "none"
    BY <1>11, <1>15, ConstantFacts
  <2> QED
    BY <2>1 DEF BoundOf
<1>26. HandedOver
  BY <1>13 DEF HandedOver
<1> QED
  BY <1>16, <1>17, <1>18, <1>19, <1>20, <1>21, <1>22, <1>23, <1>24, <1>25, <1>26 DEF IInv, TaskSide,
     ThreadSide

LEMMA RunOK ==
    ASSUME IInv, HandedOver, NEW k \in Task, Run(k), UNCHANGED <<sched_state, scenario>>
    PROVE  IInv' /\ HandedOver'
<1>1. CASE RunPreempted(k)
  BY <1>1, RunPreemptedOK
<1>2. CASE RunHeapOverflow(k)
  BY <1>2, RunHeapOverflowOK
<1>3. CASE RunBlock(k)
  BY <1>3, RunBlockOK
<1>4. CASE RunCCall(k)
  BY <1>4, RunCCallOK
<1>5. CASE RunFinish(k)
  BY <1>5, RunFinishOK
<1>6. ASSUME NEW t \in TSO, RunWake(k, t) PROVE IInv' /\ HandedOver'
  BY <1>6, RunWakeOK
<1>7. ASSUME NEW t \in TSO, RunFork(k, t) PROVE IInv' /\ HandedOver'
  BY <1>7, RunForkOK
<1>8. ASSUME NEW t \in TSO, NEW d \in Cap, RunForkOn(k, t, d) PROVE IInv' /\ HandedOver'
  BY <1>8, RunForkOnOK
<1> QED
  BY <1>1, <1>2, <1>3, <1>4, <1>5, <1>6, <1>7, <1>8 DEF Run

LEMMA RunStepOK ==
    ASSUME IInv, HandedOver, NEW k \in Task, RunStep(k), UNCHANGED <<sched_state, scenario>>
    PROVE  IInv' /\ HandedOver'
<1>1. CASE ReturnLock(k)
  BY <1>1, ReturnLockOK
<1>2. CASE Awake(k)
  BY <1>2, WakeUpOK DEF Awake
<1>3. CASE ReturnCheck(k)
  BY <1>3, ReturnCheckOK
<1>4. CASE YieldRelease(k)
  BY <1>4, YieldReleaseOK
<1>5. CASE YieldCheck(k)
  BY <1>5, YieldCheckOK
<1>6. CASE WorkerExit(k)
  BY <1>6, WorkerExitOK
<1>7. CASE Bind(k)
  BY <1>7, BindOK
<1>8. CASE ProcessInbox(k)
  BY <1>8, ProcessInboxOK
<1>9. CASE PushWork(k)
  BY <1>9, PushWorkOK
<1>10. CASE PushGrab(k)
  BY <1>10, PushGrabOK
<1>11. CASE PushDrop(k)
  BY <1>11, PushDropOK
<1>12. CASE PushShare(k)
  BY <1>12, PushShareOK
<1>13. CASE PushRelease(k)
  BY <1>13, PushReleaseOK
<1>14. CASE Yield(k)
  BY <1>14, YieldOK
<1>15. CASE PickThread(k)
  BY <1>15, PickThreadOK
<1>16. CASE Run(k)
  BY <1>16, RunOK
<1>17. CASE Resume(k)
  BY <1>17, ResumeOK
<1>18. CASE Unlock(k)
  BY <1>18, UnlockOK
<1>19. CASE RequestSync(k)
  BY <1>19, RequestSyncOK
<1>20. CASE SyncWait(k)
  BY <1>20, SyncWaitOK
<1>21. CASE AcquireAll(k)
  BY <1>21, AcquireAllOK
<1>22. CASE ReleaseAll(k)
  BY <1>22, ReleaseAllOK
<1>23. CASE scheduleDoGC(k)
  BY <1>23, DoGCOK
<1> QED
  BY <1>1, <1>2, <1>3, <1>4, <1>5, <1>6, <1>7, <1>8, <1>9, <1>10, <1>11, <1>12, <1>13, <1>14, <1>15,
     <1>16,
     <1>17, <1>18, <1>19, <1>20, <1>21, <1>22, <1>23 DEF RunStep

LEMMA NextOK ==
    ASSUME IInv, HandedOver, Next
    PROVE  IInv' /\ HandedOver'
<1>1. PICK k \in Task : Step(k) \/ Event(k) \/ (SpuriousWakeup(k) /\ UNCHANGED <<sched_state,
                                                                                 scenario>>)
  BY DEF Next
<1>2. CASE RunStep(k) /\ UNCHANGED <<sched_state, scenario>>
  BY <1>2, RunStepOK
<1>3. CASE StateStep(k) /\ UNCHANGED scenario
  <2>1. CASE Synced(k)
    BY <1>3, <2>1, SyncedOK
  <2>2. CASE FinalGC(k)
    BY <1>3, <2>2, FinalGCOK
  <2>3. CASE FallThrough(k)
    BY <1>3, <2>3, FallThroughOK
  <2>4. CASE WorkerQuit(k)
    BY <1>3, <2>4, WorkerQuitOK
  <2>6. CASE ExitRelease(k)
    BY <1>3, <2>6, ExitReleaseOK
  <2>7. CASE ExitSet(k)
    BY <1>3, <2>7, ExitSetOK
  <2>8. CASE shutdownCapability(k)
    BY <1>3, <2>8, ShutdownOK
  <2>9. CASE freeScheduler(k)
    BY <1>3, <2>9, FreeSchedulerOK
  <2> QED
    BY <1>3, <2>1, <2>2, <2>3, <2>4, <2>6, <2>7, <2>8, <2>9 DEF StateStep
<1>4. CASE Event(k)
  <2>1. CASE ReturnFromC(k) /\ UNCHANGED <<sched_state, scenario>>
    BY <2>1, ReturnFromCOK
  <2>2. CASE SkipInbox(k) /\ UNCHANGED <<sched_state, scenario>>
    BY <2>2, SkipInboxOK
  <2>3. ASSUME NEW type \in {"none", "gc", "other"}, CallIn(k, type),
               UNCHANGED <<sched_state, scenario>>
        PROVE  IInv' /\ HandedOver'
    BY <2>3, CallInOK
  <2>4. CASE exitScheduler(k) /\ UNCHANGED scenario
    BY <2>4, ExitSchedulerOK
  <2>5. CASE InboxGC(k) /\ UNCHANGED <<sched_state, scenario>>
    BY <2>5, InboxGCOK
  <2> QED
    BY <1>4, <2>1, <2>2, <2>3, <2>4, <2>5 DEF Event
<1>5. CASE SpuriousWakeup(k) /\ UNCHANGED <<sched_state, scenario>>
  BY <1>5, WakeUpOK DEF SpuriousWakeup
<1> QED
  BY <1>1, <1>2, <1>3, <1>4, <1>5 DEF Step

(* Nothing happens in a stuttering step. *)
LEMMA StutterOK ==
    ASSUME IInv, HandedOver, UNCHANGED vars
    PROVE  IInv' /\ HandedOver'
<1>1. /\ UNCHANGED <<running_task, returning_tasks, spare_workers, run_queue, inbox,
                     last_free_capability>>
      /\ UNCHANGED <<pending_sync, sched_state, scenario, task, tso>>
  BY DEF vars, capVars
<1>2. TypeOK'
  BY <1>1 DEF IInv, TypeOK
<1>3. TasksInv' /\ OwnInv' /\ QueueInv' /\ SyncInv'
  BY <1>1 DEF IInv, TaskSide, TasksInv, OwnInv, QueueInv, SyncInv
<1>4. FinalInv' /\ DrainInv'
  BY <1>1 DEF IInv, TaskSide, FinalInv, FinalOf, DrainInv, DrainOf
<1>5. ThreadInv'
  BY <1>1 DEF IInv, ThreadSide, ThreadInv, ThreadOf, Stale
<1>6. QueuesInv' /\ CurInv' /\ BoundInv'
  BY <1>1 DEF IInv, ThreadSide, QueuesInv, CurInv, BoundInv
<1>7. HandedOver'
  BY <1>1 DEF HandedOver, Coming, pc
<1> QED
  BY <1>2, <1>3, <1>4, <1>5, <1>6, <1>7 DEF IInv, TaskSide, ThreadSide

(* The inductive invariant holds in every reachable state: where a Task is *)
(* in the code of Capability.c and Schedule.c, running_task, the queues of *)
(* Tasks and threads, and the states of the threads all agree, and no      *)
(* wake-up is lost.  A bound Task whose scheduleProcessInbox drops the     *)
(* Capability that scheduleDoGC returned ("stray") stops in the model:     *)
(* what it would do to the Capability it goes on with is not covered.      *)
THEOREM CapabilitiesAgree == Spec => [](IInv /\ HandedOver)
<1>1. Init => IInv /\ HandedOver
  BY InitOK
<1>2. (IInv /\ HandedOver) /\ [Next]_vars => (IInv /\ HandedOver)'
  BY NextOK, StutterOK
<1> QED
  BY <1>1, <1>2, PTL DEF Spec

-----------------------------------------------------------------------------
(* What follows for a reader of the code *)

LEMMA OwnershipOK == IInv => Ownership
<1> SUFFICES ASSUME IInv PROVE Ownership
  OBVIOUS
<1>1. TypeOK /\ OwnInv /\ TasksInv
  BY DEF IInv, TaskSide
<1>2. \A k \in Task : ~Astray(k) => Owned(k) = OwnedOf(task[k])
  BY DEF Owned, OwnedOf, Astray, pc
<1>3. \A c \in Cap, k \in Task : ~Astray(k) => (running_task[c] = k <=> c \in Owned(k))
  BY <1>1, <1>2 DEF OwnInv
<1>4. \A k \in Task :
         pc(k) \in {"bind", "schedule", "inbox", "push", "yield", "yielded", "release", "pick", "running",
                   "resume", "unlock", "doGC", "requestSync", "syncWait", "synced"}
           => task[k].cap = task[k].at
  BY <1>1 DEF TasksInv, TaskInv, AtHome, pc
<1>5. \A k \in Task : Astray(k) => isBoundTask(k)
  <2> SUFFICES ASSUME NEW k \in Task, task[k].pc = "stray", k \notin InCall PROVE FALSE
    BY DEF Astray, pc, isBoundTask
  <2>1. TaskInv(k, task[k])
    BY <1>1 DEF TasksInv
  <2>2. k \in Worker \/ k \in Syncer \/ k \in Exiter
    BY DEF Task
  <2> QED
    BY <2>1, <2>2 DEF TaskInv, KeepsCap, Gone, Calling, Waiting, Exiting
<1> QED
  BY <1>1, <1>3, <1>4, <1>5 DEF Ownership

LEMMA CountFacts ==
    ASSUME NEW S, NEW q \in Seq(S), Injective(q), NEW e
    PROVE  Count(q, e) = IF In(q, e) THEN 1 ELSE 0
<1>1. CASE In(q, e)
  <2>1. PICK j \in DOMAIN q : q[j] = e
    BY <1>1 DEF In
  <2>2. {m \in DOMAIN q : q[m] = e} = {j}
    BY <2>1 DEF Injective
  <2> QED
    BY <1>1, <2>2, FS_Singleton DEF Count
<1>2. CASE ~In(q, e)
  <2>1. {m \in DOMAIN q : q[m] = e} = {}
    BY <1>2 DEF In
  <2> QED
    BY <1>2, <2>1, FS_EmptySet DEF Count
<1> QED
  BY <1>1, <1>2

LEMMA SleepersOK == IInv => SleepersQueued
<1> SUFFICES ASSUME IInv, NEW k \in Task, NEW c \in Cap
             PROVE  /\ Count(returning_tasks[c], k) =
                         IF pc(k) \in {"returnSleep", "returnCheck"} /\ task[k].cap = c THEN 1 ELSE 0
                    /\ Count(spare_workers[c], k) =
                         IF pc(k) \in {"sleep", "check"} /\ ~isBoundTask(k) /\ task[k].cap = c THEN 1 ELSE 0
  BY DEF SleepersQueued
<1>1. TypeOK /\ QueueInv
  BY DEF IInv, TaskSide
<1>2. /\ returning_tasks[c] \in Seq(Task) /\ spare_workers[c] \in Seq(Task)
      /\ Injective(returning_tasks[c]) /\ Injective(spare_workers[c])
      /\ In(returning_tasks[c], k) <=> AtReturn(task[k], c)
      /\ In(spare_workers[c], k) <=> AtYield(k, task[k], c)
  BY <1>1, Types DEF QueueInv
<1>3. /\ Count(returning_tasks[c], k) = IF In(returning_tasks[c], k) THEN 1 ELSE 0
      /\ Count(spare_workers[c], k) = IF In(spare_workers[c], k) THEN 1 ELSE 0
  BY <1>2, CountFacts
<1> QED
  BY <1>2, <1>3 DEF AtReturn, AtYield, pc, isBoundTask

LEMMA ThreadsPlacedOK == IInv => ThreadsPlaced
<1> SUFFICES ASSUME IInv, NEW t \in TSO
             PROVE  LET r == tso[t]
                        runners == {k \in Task : task[k].cur = t}
                    IN  /\ \A c \in Cap :
                             /\ Count(run_queue[c], t) = IF r.st = "runnable" /\ r.cap = c THEN 1 ELSE 0
                             /\ Count(inbox[c], t) > 0
                                  => (r.st \in {"blocked", "migrating"} /\ r.cap = c) \/ sched_state = "shutting"
                             /\ Count(inbox[c], t) <= 1
                        /\ r.st = "migrating" => Count(inbox[r.cap], t) = 1
                        /\ Cardinality(runners) = IF r.st \in {"running", "ccall"} THEN 1 ELSE 0
                        /\ \A k \in runners :
                             /\ isBoundTask(k) \/ bound(t) # Null => k = t
                             /\ task[k].at = r.cap
                             /\ r.st = "running" => running_task[r.cap] = k /\ task[k].cap = r.cap
                        /\ t \in InCall /\ r.st = "runnable" /\ pc(t) \in {"sleep", "check"}
                             => task[t].cap = r.cap
  BY DEF ThreadsPlaced
<1>p. PICK r : r = tso[t]
  OBVIOUS
<1>1. /\ run_queue \in [Cap -> Seq(TSO)] /\ inbox \in [Cap -> Seq(TSO)] /\ ThreadOf(t, r)
      /\ \A d \in Cap : Injective(run_queue[d]) /\ Injective(inbox[d])
      /\ \A m \in Task : task[m].cur = t => r.st \in {"running", "ccall"}
  BY <1>p, OfThread
<1>2. \A c \in Cap : /\ Count(run_queue[c], t) = IF In(run_queue[c], t) THEN 1 ELSE 0
                     /\ Count(inbox[c], t) = IF In(inbox[c], t) THEN 1 ELSE 0
  BY <1>1, CountFacts
<1>3. \A c \in Cap :
        /\ Count(run_queue[c], t) = IF r.st = "runnable" /\ r.cap = c THEN 1 ELSE 0
        /\ Count(inbox[c], t) > 0
             => (r.st \in {"blocked", "migrating"} /\ r.cap = c) \/ sched_state = "shutting"
        /\ Count(inbox[c], t) <= 1
  <2> TAKE c \in Cap
  <2>1. In(run_queue[c], t) <=> r.st = "runnable" /\ r.cap = c
    BY <1>1 DEF ThreadOf
  <2>2. In(inbox[c], t) => (r.st \in {"blocked", "migrating"} /\ r.cap = c) \/ sched_state = "shutting"
    BY <1>1 DEF ThreadOf, Stale
  <2> QED
    BY <1>2, <2>1, <2>2
<1>4. r.st = "migrating" => Count(inbox[r.cap], t) = 1
  BY <1>1, <1>2 DEF ThreadOf
<1>5. PICK runners : runners = {k \in Task : task[k].cur = t}
  OBVIOUS
<1>6. Cardinality(runners) = IF r.st \in {"running", "ccall"} THEN 1 ELSE 0
  <2>1. CASE r.st \in {"running", "ccall"}
    <3>1. PICK k \in Task : task[k].cur = t
      BY <1>1, <2>1 DEF ThreadOf
    <3>2. \A m \in Task : task[m].cur = t => m = k
      BY <3>1, ConstantFacts DEF IInv, ThreadSide, CurInv
    <3>3. runners = {k}
      BY <1>5, <3>1, <3>2
    <3> QED
      BY <2>1, <3>3, FS_Singleton
  <2>2. CASE r.st \notin {"running", "ccall"}
    <3>1. runners = {}
      BY <1>1, <1>5, <2>2
    <3> QED
      BY <2>2, <3>1, FS_EmptySet
  <2> QED
    BY <2>1, <2>2
<1>7. ASSUME NEW k \in runners
      PROVE  /\ isBoundTask(k) \/ bound(t) # Null => k = t
             /\ task[k].at = r.cap
             /\ r.st = "running" => running_task[r.cap] = k /\ task[k].cap = r.cap
  <2>1. k \in Task /\ task[k].cur = t
    BY <1>5, <1>7
  <2>2. CurOf(k, task[k], r)
    BY <1>p, <2>1, ConstantFacts DEF IInv, ThreadSide, CurInv
  <2>3. isBoundTask(k) \/ bound(t) # Null => k = t
    BY <2>1, <2>2 DEF CurOf, isBoundTask, bound
  <2>4. task[k].at = r.cap
    BY <2>2 DEF CurOf
  <2>5. ASSUME r.st = "running" PROVE running_task[r.cap] = k /\ task[k].cap = r.cap
    <3>1. task[k].pc = "running"
      BY <2>2, <2>5 DEF CurOf
    <3>2. task[k].at \in Cap /\ task[k].cap = task[k].at /\ running_task[task[k].at] = k
      BY <2>1, <3>1, OfRunning
    <3> QED
      BY <2>4, <3>2
  <2> QED
    BY <2>3, <2>4, <2>5
<1>8. ASSUME t \in InCall, r.st = "runnable", pc(t) \in {"sleep", "check"} PROVE task[t].cap = r.cap
  <2>1. BoundOf(t, task[t], r)
    BY <1>p, <1>8 DEF IInv, ThreadSide, BoundInv
  <2> QED
    BY <1>8, <2>1 DEF BoundOf, pc, Loop, AtHome, Pushing, Waiting
<1> QED
  BY <1>p, <1>3, <1>4, <1>5, <1>6, <1>7, <1>8

LEMMA ShutDownOK == IInv => ShutDown
<1> SUFFICES ASSUME IInv PROVE ShutDown
  OBVIOUS
<1>1. TypeOK /\ OwnInv /\ FinalInv /\ DrainInv
  BY DEF IInv, TaskSide
<1>2. FinalGCDone
  BY <1>1 DEF FinalGCDone, FinalInv, FinalOf, pc
<1>3. Drained
  <2> SUFFICES ASSUME NEW e \in Exiter, pc(e) \in {"shut", "freed", "exited"}
               PROVE  /\ \A c \in 0..task[e].i - 1 :
                           /\ running_task[c] = e /\ run_queue[c] = <<>> /\ spare_workers[c] = <<>>
                           /\ scenario.wait => \A k \in Task : ~InForeignCall(k, c)
                      /\ pc(e) = "freed" => \A k \in Task \ {e} : pc(k) \in {"none", "stopped", "done"}
    BY DEF Drained
  <2>1. e \in Task /\ task[e] \in TaskRec /\ DrainOf(e, task[e])
    BY <1>1, ConstantFacts, Types DEF DrainInv
  <2>2. task[e].i \in 0..NCaps
    BY <2>1 DEF TaskRec
  <2>3. \A c \in 0..task[e].i - 1 : c \in Cap /\ c < task[e].i
    BY <2>2, ConstantFacts
  <2>4. ASSUME NEW c \in 0..task[e].i - 1
        PROVE  /\ running_task[c] = e /\ run_queue[c] = <<>> /\ spare_workers[c] = <<>>
               /\ scenario.wait => \A k \in Task : ~InForeignCall(k, c)
    <3>1. run_queue[c] = <<>> /\ spare_workers[c] = <<>> /\ (scenario.wait => \A k \in Task : ~InForeign(task[k], c))
      BY <2>1, <2>3 DEF DrainOf, pc
    <3>2. c \in OwnedOf(task[e])
      BY DEF OwnedOf, pc
    <3>3. running_task[c] = e
      BY <1>1, <2>1, <2>3, <3>2 DEF OwnInv
    <3> QED
      BY <3>1, <3>3 DEF InForeign, InForeignCall, InC, Waiting, pc
  <2>5. pc(e) = "freed" => \A k \in Task \ {e} : pc(k) \in {"none", "stopped", "done"}
    BY <2>1 DEF DrainOf, Gone, pc
  <2> QED
    BY <2>4, <2>5
<1> QED
  BY <1>2, <1>3 DEF ShutDown

(* Whatever Tasks call in, sleep, wake up for no reason, stop the world or *)
(* shut down, a Capability has one owner at most, and that one knows:      *)
(* running_task and the place of every Task in releaseCapability_,         *)
(* waitForReturnCapability, yieldCapability, schedulePushWork,             *)
(* acquireAllCapabilities and shutdownCapability agree at every step.      *)
(* Only a bound Task can be an exception: one that came back from the GC   *)
(* of scheduleProcessInbox with another Capability, and goes on with the   *)
(* old one.                                                                *)
THEOREM OwnershipHolds == Spec => []Ownership
<1>1. IInv /\ HandedOver => Ownership
  BY OwnershipOK
<1> QED
  BY <1>1, CapabilitiesAgree, PTL

(* No wake-up is lost: a Capability that releaseCapability_ left free with *)
(* somebody or something to run is on the way to a Task that is awake or   *)
(* has its wakeup flag set.                                                *)
THEOREM HandedOverHolds == Spec => []HandedOver
<1>1. IInv /\ HandedOver => HandedOver
  OBVIOUS
<1> QED
  BY <1>1, CapabilitiesAgree, PTL

(* Every sleeping Task is queued once where it will be looked for, every   *)
(* Haskell thread is in one place, also while schedulePushWork moves bound *)
(* threads together with their Tasks, and a bound thread is run by its own *)
(* Task only.                                                              *)
THEOREM PlacedHolds == Spec => []Placed
<1>1. IInv /\ HandedOver => Placed
  BY SleepersOK, ThreadsPlacedOK DEF Placed
<1> QED
  BY <1>1, CapabilitiesAgree, PTL

(* hs_exit: the final GC has been done when the scheduler relies on it     *)
(* (the assertion of schedule()), a Capability that shutdownCapability     *)
(* took stays drained, and freeScheduler frees none that a Task may use.   *)
THEOREM ShutDownHolds == Spec => []ShutDown
<1>1. IInv /\ HandedOver => ShutDown
  BY ShutDownOK
<1> QED
  BY <1>1, CapabilitiesAgree, PTL
=============================================================================
