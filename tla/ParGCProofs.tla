---------------------------- MODULE ParGCProofs ----------------------------
(***************************************************************************)
(* Proofs about the threads of a parallel collection, for any threads,     *)
(* objects, roots and sizes of the queues.                                 *)
(***************************************************************************)
EXTENDS ParGC, FiniteSetTheorems, TLAPS

-----------------------------------------------------------------------------
(* The inductive invariant. *)

MainWork == {"roots", "scavenge", "steal", "idle", "any_work", "back", "traverse", "shutdown"}
Working == {"roots", "scavenge", "steal", "idle", "any_work", "back"}

\* The thread that runs GarbageCollect.
MainInv ==
  /\ main = NoThread => team = {} /\ toWake = {}
  /\ main # NoThread =>
       /\ main \in team /\ (team = {main} \/ team = caps)
       /\ wakeup[main] = "INACTIVE" /\ ~gcSpin[main]
       /\ pc[main] \in MainWork \union {"wait", "wake", "release", "barf"}
       /\ pc[main] \notin {"wake", "release", "barf"} => toWake = {}
       /\ toWake \subseteq team \ {main}
       /\ pc[main] = "barf" => SecondGC
  /\ SecondGC => pc[main] \in {"wake", "barf"} /\ toWake = team \ {main}
  /\ flag => main # NoThread /\ pc[main] = "traverse"

\* A worker that has nothing to do with the collection under way.
Rest(t) ==
  /\ wakeup[t] = "INACTIVE" /\ ~gcSpin[t]
  /\ t \notin toWake \/ SecondGC
  /\ t \in team => pc[main] \in {"wait", "release"} \/ SecondGC

\* A worker that takes part in it.
Joined(t) ==
  /\ t \in team /\ t \notin toWake /\ ~mutSpin[t] /\ wakeup[t] = "RUNNING" /\ ~SecondGC
  /\ pc[main] \in MainWork \union {"wake"}

\* Where a worker is, what its spin locks and its wakeup word say and how far main has
\* got belong together.
WorkerInv(t) ==
  /\ pc[t] \in Working \union {"mutator", "standby", "wait_gc", "done", "released", "wait_mut"}
  /\ pc[t] = "mutator" => Rest(t)
  /\ pc[t] = "standby" => Rest(t) /\ mutSpin[t] /\ t \in team /\ pc[main] = "wait"
  /\ pc[t] = "wait_gc" =>
       \/ /\ t \in team /\ wakeup[t] = "STANDING_BY" /\ ~gcSpin[t] /\ mutSpin[t] /\ ~SecondGC
          /\ pc[main] = "wait" \/ (pc[main] = "wake" /\ t \in toWake)
       \/ Joined(t) /\ gcSpin[t]
  /\ pc[t] \in Working => Joined(t) /\ ~gcSpin[t]
  /\ pc[t] = "done" => Joined(t) /\ ~gcSpin[t] /\ pc[main] # "wake"
  /\ pc[t] = "released" => Joined(t) /\ gcSpin[t] /\ pc[main] # "wake"
  /\ pc[t] = "wait_mut" =>
       \/ Rest(t) /\ mutSpin[t]
       \/ /\ t \in team /\ wakeup[t] = "WAITING_TO_CONTINUE" /\ gcSpin[t] /\ ~mutSpin[t] /\ ~SecondGC
          /\ pc[main] \in MainWork \/ (pc[main] = "release" /\ t \in toWake)

SyncInv == TypeOK /\ MainInv /\ \A t \in Thread \ {main} : WorkerInv(t)

\* gc_running_threads at every moment, also outside a collection, until the process ends.
CountInv == ~Barfed => running = Cardinality(Counted)

\* Only a thread that is at its roots or in scavenge_loop has something to scavenge, or main
\* when it has found something behind a weak pointer; and a thread that scavenges its todo
\* block has no other.
GreyOK(t) ==
  /\ Grey(t) # {} => pc[t] \in {"roots", "scavenge"} \/ (pc[t] = "traverse" /\ flag)
  /\ inPlace[t] => scan[t] = {} /\ (cur[t] # NoObject \/ todo[t] # {})

GreyInv == \A t \in Thread : GreyOK(t)

\* What a copied object points to has been copied, or some thread will see to it.
BlackInv == \A o \in copied : Child[o] \subseteq copied \/ \E t \in Thread : o \in Grey(t)

\* A thread past its roots has copied them, and alone those of all Capabilities.
RootInv ==
  main # NoThread /\ pc[main] # "wait" /\ ~SecondGC =>
    \A t \in team : pc[t] \in {"wait_gc", "wake", "roots"} \/ MyRoots(t) \subseteq copied

\* Main has found everything scavenged and all threads past their roots.  A worker that has
\* seen a block that is gone may still count itself in, but finds nothing.
Converged == main # NoThread /\ pc[main] \in {"traverse", "shutdown", "release"}
DoneInv ==
  Converged =>
    /\ \A t \in team : pc[t] \notin {"wait_gc", "wake", "roots"}
    /\ ~flag => \A t \in Thread : Grey(t) = {}

IndInv == SyncInv /\ CountInv /\ GreyInv /\ BlackInv /\ RootInv /\ DoneInv

-----------------------------------------------------------------------------
\* A collection is the second one of scheduleDoGC from its beginning to its end.
LEMMA SecondSame ==
  ASSUME UNCHANGED <<overflowed, main, team>>
  PROVE  SecondGC' <=> SecondGC
BY DEF SecondGC

-----------------------------------------------------------------------------
(* gc_running_threads. *)

\* Counted is a finite set of threads: there are finitely many.
LEMMA CountedFinite ==
  /\ IsFiniteSet(Counted)
  /\ Cardinality(Counted) \in Nat
  /\ Cardinality(Counted) = 0 <=> Counted = {}
<1>1. Counted \subseteq Thread
  BY DEF Counted
<1>2. IsFiniteSet(Counted)
  BY <1>1, FS_Subset, ThreadAssumption
<1> QED
  BY <1>2, FS_CardinalityType, FS_EmptySet

\* A thread leaves or joins the count when inc_running or dec_running is called for it,
\* and only then (inc_running, dec_running, wakeup_gc_threads).
LEMMA CountNext ==
  ASSUME SyncInv, CountInv, [Next]_vars
  PROVE  CountInv'
<1> USE DEF SyncInv, TypeOK, opts
<1>1. CASE UNCHANGED vars
  BY <1>1 DEF CountInv, Counted, Barfed, vars, sync
<1>2. ASSUME NEW t \in Thread, RequestGC(t) \/ Step(t)
      PROVE  CountInv'
  <2>0. ~Barfed /\ running = Cardinality(Counted)
    BY <1>2 DEF RequestGC, Step, Barfed, CountInv
  <2>1. ASSUME Counted' = Counted, running' = running
        PROVE  CountInv'
    BY <2>0, <2>1 DEF CountInv
  <2>2. ASSUME NEW u, u \notin Counted, Counted' = Counted \union {u}, running' = running + 1
        PROVE  CountInv'
    BY <2>0, <2>2, CountedFinite, FS_AddElement DEF CountInv
  <2>3. ASSUME NEW u \in Counted, Counted' = Counted \ {u}, running' = running - 1
        PROVE  CountInv'
    BY <2>0, <2>3, CountedFinite, FS_RemoveElement DEF CountInv
  <2>4. CASE RequestGC(t)
    <3>1. Counted' = Counted
      BY <2>4 DEF RequestGC, Goto, Counted, Counters, work, sync
    <3> QED  BY <3>1, <2>1, <2>4 DEF RequestGC
  <2>5. CASE Handshake(t)
    <3>1. Counted' = Counted
      <4>1. CASE StandBy(t)
        BY <2>5, <4>1 DEF StandBy, Goto, Counted, Counters
      <4>2. CASE StoodBy(t)
        BY <2>5, <4>2 DEF StoodBy, Goto, Counted, Counters
      <4>3. CASE GoWorker(t)
        <5>1. t # main
          BY <4>3, ThreadAssumption DEF GoWorker, MainInv, MainWork
        <5>2. wakeup[t] = "RUNNING"
          BY <4>3, <5>1 DEF GoWorker, WorkerInv, Joined
        <5> QED  BY <5>2, <4>3 DEF GoWorker, Goto, Counted, Counters
      <4>4. CASE ReleaseSpin(t)
        BY <2>5, <4>4 DEF ReleaseSpin, Goto, Counted, Counters
      <4>5. CASE WaitToContinue(t)
        BY <2>5, <4>5 DEF WaitToContinue, Goto, Counted, Counters
      <4>6. CASE Continue(t)
        BY <2>5, <4>6 DEF Continue, Goto, Counted, Counters
      <4> QED  BY <2>5, <4>1, <4>2, <4>3, <4>4, <4>5, <4>6 DEF Handshake
    <3>2. running' = running
      BY <2>5 DEF Handshake, StandBy, StoodBy, GoWorker, ReleaseSpin, WaitToContinue, Continue
    <3> QED  BY <3>1, <3>2, <2>1
  <2>6. CASE Collect(t)
    <3>1. CASE PrepareGC(t) \/ HeapOverflow(t)
      <4>1. \A u \in Thread \ {t} : u \notin Counted'
        BY <3>1 DEF PrepareGC, HeapOverflow, StartGC, Goto, Counted, Counters, WorkerInv, Joined, MainWork, Working
      <4>2. t \in Counted' /\ Counted' \subseteq Thread
        BY <3>1 DEF PrepareGC, HeapOverflow, StartGC, Goto, Counted
      <4>3. Counted' = {t}
        BY <4>1, <4>2
      <4> QED  BY <4>3, <3>1, FS_Singleton DEF PrepareGC, HeapOverflow, StartGC, CountInv
    <3>2. CASE WokenAll(t)
      <4>1. Counted' = Counted
        BY <3>2 DEF WokenAll, Goto, Counted, Counters, sync
      <4> QED  BY <4>1, <2>1, <3>2 DEF WokenAll
    <3>3. CASE Shutdown(t)
      <4>1. Counted' = Counted
        BY <3>3 DEF Shutdown, Goto, Counted, Counters, sync
      <4> QED  BY <4>1, <2>1, <3>3 DEF Shutdown
    <3>4. CASE EndGC(t)
      <4>1. Counted' = Counted
        BY <3>4 DEF EndGC, Goto, Counted, Counters, sync
      <4> QED  BY <4>1, <2>1, <3>4 DEF EndGC
    <3>5. ASSUME NEW u \in Thread, WakeUp(t, u)
          PROVE  CountInv'
      <4>1. u # main /\ pc[u] = "wait_gc"
        BY <3>5 DEF WakeUp, MainInv, WorkerInv, Rest, Joined, Working
      <4>2. u \notin Counted /\ Counted' = Counted \union {u}
        BY <3>5, <4>1 DEF WakeUp, Counted, Counters
      <4> QED  BY <4>2, <2>2, <3>5 DEF WakeUp
    <3>6. ASSUME NEW u \in Thread, Release(t, u)
          PROVE  CountInv'
      <4>1. Counted' = Counted
        BY <3>6 DEF Release, Counted, Counters
      <4> QED  BY <4>1, <2>1, <3>6 DEF Release
    <3>7. ASSUME NEW u \in Thread, Barf(t, u)
          PROVE  CountInv'
      BY <3>7, ThreadAssumption DEF Barf, Goto, sync, CountInv, Barfed
    <3> QED  BY <2>6, <3>1, <3>2, <3>3, <3>4, <3>5, <3>6, <3>7 DEF Collect
  <2>7. CASE Scavenge(t)
    <3>1. CASE running' = running /\ pc' = pc
      <4>1. wakeup' = wakeup
        BY <2>7 DEF Scavenge, EvacuateRoot, RootsDone, NextObject, EvacuateChild, ObjectDone,
                    GrabLocal, LookAround, OutOfWork, StillRunning, NoWork, BackToWork, AllDone,
                    EvacuateWeak, Traversed, Steal, AnyWork, sync
      <4> QED  BY <4>1, <3>1, <2>1 DEF Counted
    <3>2. CASE OutOfWork(t)
      <4>1. t \in Counted /\ Counted' = Counted \ {t}
        BY <3>2 DEF OutOfWork, Goto, Counted, Counters, sync
      <4> QED  BY <4>1, <2>3, <3>2 DEF OutOfWork
    <3>3. CASE BackToWork(t)
      <4>1. t \notin Counted /\ Counted' = Counted \union {t}
        BY <3>3 DEF BackToWork, Goto, Counted, Counters, sync
      <4> QED  BY <4>1, <2>2, <3>3 DEF BackToWork
    <3>4. CASE Traversed(t) /\ flag
      <4>1. t \notin Counted /\ Counted' = Counted \union {t}
        BY <3>4 DEF Traversed, Goto, Counted, Counters, sync
      <4> QED  BY <4>1, <2>2, <3>4 DEF Traversed
    <3>5. CASE Traversed(t) /\ ~flag
      <4>1. Counted' = Counted
        BY <3>5 DEF Traversed, Goto, Counted, Counters, sync
      <4> QED  BY <4>1, <2>1, <3>5 DEF Traversed
    <3>6. CASE RootsDone(t) \/ LookAround(t) \/ StillRunning(t) \/ NoWork(t) \/ AllDone(t)
      <4>1. Counted' = Counted
        BY <3>6 DEF RootsDone, LookAround, StillRunning, NoWork, AllDone, Resting, Goto, Counted, Counters, sync
      <4> QED  BY <4>1, <2>1, <3>6 DEF RootsDone, LookAround, StillRunning, NoWork, AllDone
    <3>7. ASSUME NEW u \in Thread, Steal(t, u) \/ AnyWork(t, u)
          PROVE  CountInv'
      <4>1. Counted' = Counted
        BY <3>7 DEF Steal, AnyWork, Goto, Counted, Counters, sync
      <4> QED  BY <4>1, <2>1, <3>7 DEF Steal, AnyWork
    <3>8. CASE EvacuateRoot(t) \/ NextObject(t) \/ EvacuateChild(t) \/ ObjectDone(t) \/ GrabLocal(t) \/ EvacuateWeak(t)
      BY <3>8, <3>1 DEF EvacuateRoot, NextObject, EvacuateChild, ObjectDone, GrabLocal, EvacuateWeak
    <3> QED  BY <2>7, <3>2, <3>3, <3>4, <3>5, <3>6, <3>7, <3>8 DEF Scavenge
  <2> QED  BY <1>2, <2>4, <2>5, <2>6, <2>7 DEF Step
<1> QED  BY <1>1, <1>2 DEF Next

-----------------------------------------------------------------------------
(* Types. *)

\* Evacuating an object into the todo block keeps the types of the blocks.
LEMMA EvacuateType ==
  ASSUME TypeOK, NEW t \in Thread, NEW o \in Object, Evacuate(t, o)
  PROVE  /\ copied' \subseteq Object
         /\ todo' \in [Thread -> SUBSET Object] /\ scan' \in [Thread -> SUBSET Object]
         /\ inPlace' \in [Thread -> BOOLEAN]
         /\ cur' \in [Thread -> Object \union {NoObject}]
         /\ queue' \in [Thread -> SUBSET SUBSET Object] /\ overflow' \in [Thread -> SUBSET SUBSET Object]
<1> USE DEF TypeOK, Evacuate
<1>1. CASE CopyIntoBlock(t, o)
  BY <1>1 DEF CopyIntoBlock
<1>2. CASE TodoBlockFull(t, o)
  <2>1. CASE inPlace[t]
    <3>1. /\ todo' = [todo EXCEPT ![t] = {o}] /\ scan' = [scan EXCEPT ![t] = todo[t]]
          /\ inPlace' = [inPlace EXCEPT ![t] = FALSE] /\ UNCHANGED <<queue, overflow>>
      BY <1>2, <2>1 DEF TodoBlockFull
    <3> QED  BY <3>1
  <2>2. CASE ~inPlace[t]
    <3>1. CASE todo[t] = {}
      BY <1>2, <2>2, <3>1 DEF TodoBlockFull
    <3>2. CASE todo[t] # {}
      <4>1. /\ queue' \in [Thread -> SUBSET SUBSET Object] /\ overflow' \in [Thread -> SUBSET SUBSET Object]
        BY <1>2, <2>2, <3>2 DEF TodoBlockFull, PushBlock
      <4> QED  BY <4>1, <1>2, <2>2, <3>2 DEF TodoBlockFull
    <3> QED  BY <3>1, <3>2
  <2> QED  BY <2>1, <2>2
<1> QED  BY <1>1, <1>2

\* The roots a thread evacuates are objects.
LEMMA RootType ==
  ASSUME TypeOK, NEW t \in Thread
  PROVE  MyRoots(t) \subseteq Object
BY ObjectAssumption DEF TypeOK, MyRoots

\* Every variable keeps its type; that gc_running_threads does not fall below 0 is CountNext.
LEMMA TypeNext ==
  ASSUME SyncInv, CountInv, [Next]_vars
  PROVE  TypeOK'
<1> USE DEF SyncInv, TypeOK, opts
<1>0. running' \in Nat
  <2>1. IsFiniteSet(Counted') /\ Cardinality(Counted') \in Nat
    <3>1. Counted' \subseteq Thread
      BY DEF Counted
    <3> QED  BY <3>1, FS_Subset, ThreadAssumption, FS_CardinalityType
  <2>2. ~Barfed' => running' \in Nat
    BY <2>1, CountNext DEF CountInv
  <2>3. CASE UNCHANGED vars
    BY <2>3 DEF vars
  <2>4. ASSUME NEW t \in Thread, RequestGC(t) \/ Step(t), Barfed'
        PROVE  running' \in Nat
    <3>0. ~Barfed
      BY <2>4 DEF RequestGC, Step, Barfed
    <3>1. CASE \E u \in Thread : Barf(t, u)
      BY <3>1 DEF Barf
    <3>2. CASE RequestGC(t)
      BY <3>2 DEF RequestGC
    <3>3. CASE Scavenge(t)
      <4>1. main' = main /\ \E l : l # "barf" /\ pc' = [pc EXCEPT ![t] = l]
        BY <3>3 DEF Scavenge, EvacuateRoot, RootsDone, NextObject, EvacuateChild, ObjectDone,
                    GrabLocal, LookAround, OutOfWork, StillRunning, NoWork, BackToWork, AllDone,
                    EvacuateWeak, Traversed, Steal, AnyWork, Resting, Goto, sync
      <4> QED  BY <4>1, <2>4, <3>0 DEF Barfed
    <3>4. CASE Handshake(t)
      BY <3>4 DEF Handshake, StandBy, StoodBy, GoWorker, ReleaseSpin, WaitToContinue, Continue
    <3>5. CASE PrepareGC(t) \/ HeapOverflow(t)
      BY <3>5 DEF PrepareGC, HeapOverflow, StartGC
    <3>6. CASE WokenAll(t) \/ Shutdown(t) \/ EndGC(t) \/ \E u \in Thread : WakeUp(t, u) \/ Release(t, u)
      BY <3>6 DEF WokenAll, Shutdown, EndGC, WakeUp, Release
    <3> QED  BY <2>4, <3>1, <3>2, <3>3, <3>4, <3>5, <3>6 DEF Step, Collect
  <2> QED  BY <2>2, <2>3, <2>4 DEF Next
<1>1. CASE UNCHANGED vars
  BY <1>1 DEF vars, sync, work
<1>2. ASSUME NEW t \in Thread, RequestGC(t) \/ Step(t)
      PROVE  TypeOK'
  <2>1. CASE RequestGC(t)
    BY <1>0, <2>1 DEF RequestGC, Goto, work
  <2>2. CASE StandBy(t)
    BY <1>0, <2>2 DEF StandBy, Goto, work
  <2>3. CASE StoodBy(t)
    BY <1>0, <2>3 DEF StoodBy, Goto, work
  <2>4. CASE GoWorker(t)
    BY <1>0, <2>4 DEF GoWorker, Goto, work
  <2>5. CASE ReleaseSpin(t)
    BY <1>0, <2>5 DEF ReleaseSpin, Goto, work
  <2>6. CASE WaitToContinue(t)
    BY <1>0, <2>6 DEF WaitToContinue, Goto, work
  <2>7. CASE Continue(t)
    BY <1>0, <2>7 DEF Continue, Goto, work
  <2>8. CASE PrepareGC(t)
    BY <1>0, <2>8 DEF PrepareGC, StartGC, Goto, work, sync
  <2>9. CASE WokenAll(t)
    BY <1>0, <2>9 DEF WokenAll, Goto, work, sync
  <2>10. CASE Shutdown(t)
    BY <1>0, <2>10 DEF Shutdown, Goto, work, sync
  <2>11. CASE EndGC(t)
    BY <1>0, <2>11 DEF EndGC, Goto, work, sync
  <2>12. ASSUME NEW u \in Thread, WakeUp(t, u)
        PROVE  TypeOK'
    BY <1>0, <2>12 DEF WakeUp, work
  <2>13. ASSUME NEW u \in Thread, Release(t, u)
        PROVE  TypeOK'
    BY <1>0, <2>13 DEF Release, work
  <2>14. CASE RootsDone(t)
    BY <1>0, <2>14 DEF RootsDone, Goto, work, sync
  <2>15. CASE LookAround(t)
    BY <1>0, <2>15 DEF LookAround, NotLookedAt, Goto, work, sync
  <2>16. CASE OutOfWork(t)
    BY <1>0, <2>16 DEF OutOfWork, Goto, work, sync
  <2>17. CASE StillRunning(t)
    BY <1>0, <2>17 DEF StillRunning, NotLookedAt, Goto, work, sync
  <2>18. CASE NoWork(t)
    BY <1>0, <2>18 DEF NoWork, Goto, work, sync
  <2>19. CASE BackToWork(t)
    BY <1>0, <2>19 DEF BackToWork, Goto, work, sync
  <2>20. CASE AllDone(t)
    BY <1>0, <2>20 DEF AllDone, Goto, work, sync
  <2>21. CASE Traversed(t)
    BY <1>0, <2>21 DEF Traversed, Goto, work, sync
  <2>22. CASE EvacuateRoot(t)
    BY <1>0, <2>22, EvacuateType, RootType DEF EvacuateRoot, sync
  <2>23. CASE EvacuateChild(t)
    <3>1. cur[t] \in Object /\ Child[cur[t]] \subseteq Object
      BY <2>23, ObjectAssumption DEF EvacuateChild
    <3> QED  BY <1>0, <2>23, <3>1, EvacuateType DEF EvacuateChild, sync
  <2>24. CASE EvacuateWeak(t)
    BY <1>0, <2>24, EvacuateType, ObjectAssumption DEF EvacuateWeak, sync
  <2>25. CASE NextObject(t)
    <3>1. CASE scan[t] # {}
      <4>1. PICK o \in scan[t] : cur' = [cur EXCEPT ![t] = o] /\ scan' = [scan EXCEPT ![t] = @ \ {o}]
        BY <2>25, <3>1 DEF NextObject
      <4> QED  BY <1>0, <2>25, <3>1, <4>1 DEF NextObject, sync
    <3>2. CASE scan[t] = {}
      <4>1. PICK o \in todo[t] : cur' = [cur EXCEPT ![t] = o] /\ todo' = [todo EXCEPT ![t] = @ \ {o}]
        BY <2>25, <3>2 DEF NextObject
      <4>2. UNCHANGED scan /\ inPlace' = [inPlace EXCEPT ![t] = TRUE]
        BY <2>25, <3>2 DEF NextObject
      <4> QED  BY <1>0, <2>25, <4>1, <4>2 DEF NextObject, sync
    <3> QED  BY <3>1, <3>2
  <2>26. CASE ObjectDone(t)
    <3>1. inPlace' \in [Thread -> BOOLEAN]
      <4>1. inPlace' = [inPlace EXCEPT ![t] = inPlace[t] /\ todo[t] # {}]
        BY <2>26 DEF ObjectDone
      <4>2. (inPlace[t] /\ todo[t] # {}) \in BOOLEAN
        OBVIOUS
      <4> QED  BY <4>1, <4>2, Zenon
    <3> QED  BY <1>0, <2>26, <3>1 DEF ObjectDone, sync
  <2>27. CASE GrabLocal(t)
    BY <1>0, <2>27 DEF GrabLocal, Resting, sync
  <2>28. ASSUME NEW u \in Thread, Steal(t, u)
        PROVE  TypeOK'
    BY <1>0, <2>28 DEF Steal, Goto, work, sync
  <2>29. ASSUME NEW u \in Thread, AnyWork(t, u)
        PROVE  TypeOK'
    BY <1>0, <2>29 DEF AnyWork, Goto, work, sync
  <2>30. CASE HeapOverflow(t)
    BY <1>0, <2>30 DEF HeapOverflow, StartGC, Goto, work, sync
  <2>31. ASSUME NEW u \in Thread, Barf(t, u)
        PROVE  TypeOK'
    BY <1>0, <2>31 DEF Barf, Goto, work, sync
  <2> QED
    BY <1>2, <2>30, <2>31, <2>1, <2>2, <2>3, <2>4, <2>5, <2>6, <2>7, <2>8, <2>9, <2>10, <2>11, <2>12, <2>13, <2>14, <2>15, <2>16, <2>17, <2>18, <2>19, <2>20, <2>21, <2>22, <2>23, <2>24, <2>25, <2>26, <2>27, <2>28, <2>29
    DEF Step, Handshake, Collect, Scavenge
<1> QED  BY <1>1, <1>2 DEF Next

-----------------------------------------------------------------------------
(* The handshake. *)

\* What a step of scavenging changes outside the blocks: one thread goes on, a worker to
\* its end only when nobody is counted, main to traverseWeakPtrList and out of the loop.
ScavengeMove(t, l) ==
  /\ pc[t] \in Working \union {"traverse"}
  /\ pc' = [pc EXCEPT ![t] = l]
  /\ \/ l \in Working
     \/ t = main /\ l \in {"traverse", "shutdown"}
     \/ t # main /\ l = "done" /\ Counted = {}
  /\ flag' => IF t = main THEN l = "traverse" ELSE flag

\* The steps of scavenge_until_all_done and traverseWeakPtrList are such moves.
LEMMA ScavengeMoves ==
  ASSUME SyncInv, CountInv, ~Barfed, NEW t \in Thread, Scavenge(t)
  PROVE  UNCHANGED sync /\ \E l : ScavengeMove(t, l)
<1> USE DEF SyncInv, TypeOK, opts, Working
<1>1. pc[t] = "traverse" => t = main
  BY DEF WorkerInv
<1>2. flag /\ t = main => pc[t] = "traverse"
  BY DEF MainInv
<1>3. CASE \/ EvacuateRoot(t) \/ NextObject(t) \/ EvacuateChild(t) \/ ObjectDone(t)
           \/ GrabLocal(t)
  <2>1. UNCHANGED <<sync, pc, flag>> /\ pc[t] \in {"roots", "scavenge"}
    BY <1>3 DEF EvacuateRoot, NextObject, EvacuateChild, ObjectDone, GrabLocal, Resting
  <2>2. ScavengeMove(t, pc[t])
    BY <2>1, <1>2 DEF ScavengeMove
  <2> QED  BY <2>1, <2>2
<1>4. CASE RootsDone(t)
  <2>1. ScavengeMove(t, "scavenge")
    BY <1>4, <1>2 DEF ScavengeMove, RootsDone, Goto
  <2> QED  BY <2>1, <1>4 DEF RootsDone
<1>5. CASE LookAround(t)
  <2>1. ScavengeMove(t, "steal")
    BY <1>5, <1>2 DEF ScavengeMove, LookAround, Resting, Goto
  <2> QED  BY <2>1, <1>5 DEF LookAround
<1>6. CASE OutOfWork(t) \/ NoWork(t)
  <2>1. ScavengeMove(t, "idle")
    BY <1>6, <1>2 DEF ScavengeMove, OutOfWork, NoWork, Goto
  <2> QED  BY <2>1, <1>6 DEF OutOfWork, NoWork
<1>7. CASE StillRunning(t)
  <2>1. ScavengeMove(t, "any_work")
    BY <1>7, <1>2 DEF ScavengeMove, StillRunning, Goto
  <2> QED  BY <2>1, <1>7 DEF StillRunning
<1>8. CASE BackToWork(t)
  <2>1. ScavengeMove(t, "scavenge")
    BY <1>8, <1>2 DEF ScavengeMove, BackToWork, Goto
  <2> QED  BY <2>1, <1>8 DEF BackToWork
<1>9. CASE AllDone(t)
  <2>1. Counted = {}
    BY <1>9, CountedFinite DEF AllDone, CountInv
  <2>2. ScavengeMove(t, IF t = main THEN "traverse" ELSE "done")
    BY <1>9, <1>2, <2>1 DEF ScavengeMove, AllDone, Goto
  <2> QED  BY <2>2, <1>9 DEF AllDone
<1>10. CASE EvacuateWeak(t)
  <2>1. ScavengeMove(t, "traverse")
    BY <1>10, <1>1 DEF ScavengeMove, EvacuateWeak
  <2> QED  BY <2>1, <1>10 DEF EvacuateWeak
<1>11. CASE Traversed(t)
  <2>1. ScavengeMove(t, IF flag THEN "scavenge" ELSE "shutdown")
    BY <1>11, <1>1 DEF ScavengeMove, Traversed, Goto
  <2> QED  BY <2>1, <1>11 DEF Traversed
<1>12. ASSUME NEW u \in Thread, Steal(t, u)
       PROVE  UNCHANGED sync /\ \E l : ScavengeMove(t, l)
  <2>1. ScavengeMove(t, "scavenge") \/ ScavengeMove(t, "steal")
    BY <1>12, <1>2 DEF ScavengeMove, Steal, Goto
  <2> QED  BY <2>1, <1>12 DEF Steal
<1>13. ASSUME NEW u \in Thread, AnyWork(t, u)
       PROVE  UNCHANGED sync /\ \E l : ScavengeMove(t, l)
  <2>1. ScavengeMove(t, "back") \/ ScavengeMove(t, "any_work")
    BY <1>13, <1>2 DEF ScavengeMove, AnyWork, Goto
  <2> QED  BY <2>1, <1>13 DEF AnyWork
<1> QED
  BY <1>3, <1>4, <1>5, <1>6, <1>7, <1>8, <1>9, <1>10, <1>11, <1>12, <1>13 DEF Scavenge

\* The words and locks of the handshake and the places of the threads stay in step
\* (wakeup_gc_threads, gcWorkerThread, shutdown_gc_threads, releaseGCThreads).
LEMMA SyncNext ==
  ASSUME SyncInv, CountInv, [Next]_vars
  PROVE  SyncInv'
<1>0. TypeOK'
  BY TypeNext
<1> USE DEF SyncInv, TypeOK, opts, Working, MainWork
<1>1. CASE UNCHANGED vars
  BY <1>0, <1>1, SecondSame DEF vars, sync, work, MainInv, WorkerInv, Rest, Joined
<1>2. ASSUME NEW t \in Thread, Scavenge(t), ~Barfed
      PROVE  SyncInv'
  <2>1. UNCHANGED sync
    BY <1>2, ScavengeMoves
  <2>2. PICK l : ScavengeMove(t, l)
    BY <1>2, ScavengeMoves
  <2>9. SecondGC' <=> SecondGC
    BY <2>1, SecondSame DEF sync
  <2>3. MainInv'
    <3>1. main # NoThread => pc'[main] \in MainWork \union {"wait", "wake", "release"}
                             /\ (pc'[main] \notin {"wake", "release"} => toWake = {})
      BY <1>2, <2>1, <2>2, ThreadAssumption DEF MainInv, ScavengeMove, Barfed
    <3>2. flag' => main # NoThread /\ pc'[main] = "traverse"
      BY <2>1, <2>2, ThreadAssumption DEF MainInv, ScavengeMove
    <3>3. SecondGC => pc'[main] = pc[main]
      BY <2>2, ThreadAssumption DEF MainInv, WorkerInv, Joined, SecondGC, ScavengeMove
    <3> QED  BY <2>1, <2>9, <3>1, <3>2, <3>3 DEF MainInv, sync
  <2>4. ASSUME NEW w \in Thread \ {main}
        PROVE  WorkerInv(w)'
    <3>1. WorkerInv(w) /\ pc'[w] = IF w = t THEN l ELSE pc[w]
      BY <2>2 DEF ScavengeMove
    <3>2. team # {} => main \in Thread /\ main # NoThread
      BY DEF MainInv
    <3>3. CASE t = main
      <4>1. w # t /\ pc'[w] = pc[w] /\ pc'[main] = l /\ pc[main] \in Working \union {"traverse"}
        BY <3>1, <3>3, <2>2 DEF ScavengeMove
      <4>2. l \in MainWork
        BY <2>2, <3>3 DEF ScavengeMove
      <4> QED  BY <4>1, <4>2, <2>1, <2>9, <3>1, <3>2 DEF WorkerInv, Rest, Joined, sync
    <3>4. CASE t # main /\ w # t
      BY <3>4, <2>1, <2>2, <2>9, <3>1, <3>2 DEF WorkerInv, Rest, Joined, sync, ScavengeMove
    <3>5. CASE w = t
      <4>1. pc'[main] = pc[main]
        BY <2>2, <3>5 DEF ScavengeMove
      <4>2. pc[t] \in Working
        BY <2>2, <3>5, <3>1 DEF ScavengeMove, WorkerInv
      <4>3. Joined(t) /\ ~gcSpin[t]
        BY <4>2, <3>5, <3>1 DEF WorkerInv
      <4>4. l = "done" => pc[main] # "wake"
        BY <2>2, <3>2, <4>3, <3>5 DEF ScavengeMove, Counted, Joined
      <4> QED  BY <4>1, <4>3, <4>4, <3>5, <2>1, <2>2, <2>9 DEF WorkerInv, Joined, sync, ScavengeMove
    <3> QED  BY <3>3, <3>4, <3>5
  <2> QED  BY <1>0, <2>1, <2>3, <2>4 DEF sync
<1>3. ASSUME NEW t \in Thread, Handshake(t)
      PROVE  SyncInv'
  <2>1. t # main
    BY <1>3, ThreadAssumption
    DEF Handshake, StandBy, StoodBy, GoWorker, ReleaseSpin, WaitToContinue, Continue, MainInv
  <2>9. SecondGC' <=> SecondGC
    BY <1>3, SecondSame DEF Handshake, StandBy, StoodBy, GoWorker, ReleaseSpin, WaitToContinue, Continue
  <2>2. UNCHANGED <<caps, main, team, toWake, flag>> /\ \E l : pc' = [pc EXCEPT ![t] = l]
    BY <1>3 DEF Handshake, StandBy, StoodBy, GoWorker, ReleaseSpin, WaitToContinue, Continue, Goto
  <2>3. \A w \in Thread \ {t} : /\ pc'[w] = pc[w] /\ wakeup'[w] = wakeup[w]
                                /\ gcSpin'[w] = gcSpin[w] /\ mutSpin'[w] = mutSpin[w]
    BY <1>3 DEF Handshake, StandBy, StoodBy, GoWorker, ReleaseSpin, WaitToContinue, Continue, Goto
  <2>4. main # NoThread => main \in Thread
    OBVIOUS
  <2>5. MainInv'
    BY <2>1, <2>2, <2>3, <2>4, <2>9, ThreadAssumption DEF MainInv, SecondGC
  <2>6. team # {} => main \in Thread \ {t}
    BY <2>1, <2>4 DEF MainInv
  <2>7. WorkerInv(t)'
    <3>1. WorkerInv(t) /\ (team # {} => pc'[main] = pc[main])
      BY <2>1, <2>3, <2>6
    <3>2. CASE StandBy(t)
      BY <2>2, <2>9, <3>1, <3>2 DEF StandBy, Goto, WorkerInv, Rest
    <3>3. CASE StoodBy(t)
      BY <2>2, <2>9, <3>1, <3>3 DEF StoodBy, Goto, WorkerInv, Rest, MainInv
    <3>4. CASE GoWorker(t)
      BY <2>2, <2>9, <3>1, <3>4 DEF GoWorker, Goto, WorkerInv, Joined
    <3>5. CASE ReleaseSpin(t)
      BY <2>2, <2>9, <3>1, <3>5 DEF ReleaseSpin, Goto, WorkerInv, Joined
    <3>6. CASE WaitToContinue(t)
      BY <2>2, <2>9, <3>1, <3>6 DEF WaitToContinue, Goto, WorkerInv, Joined
    <3>7. CASE Continue(t)
      BY <2>2, <2>9, <3>1, <3>7 DEF Continue, Goto, WorkerInv, Rest
    <3> QED  BY <1>3, <3>2, <3>3, <3>4, <3>5, <3>6, <3>7 DEF Handshake
  <2>8. ASSUME NEW w \in Thread \ {main, t}
        PROVE  WorkerInv(w)'
    BY <2>2, <2>3, <2>6, <2>9 DEF WorkerInv, Rest, Joined
  <2> QED  BY <1>0, <2>2, <2>5, <2>7, <2>8
<1>4. ASSUME NEW t \in Thread, RequestGC(t)
      PROVE  SyncInv'
  <2>1. main = NoThread /\ main' = t /\ team = {} /\ toWake = {} /\ pc[t] = "mutator"
    BY <1>4 DEF RequestGC, MainInv
  <2>2. \A w \in Thread : WorkerInv(w)
    BY <2>1, ThreadAssumption
  <2>3. pc' = [pc EXCEPT ![t] = "wait"] /\ UNCHANGED <<wakeup, gcSpin, mutSpin, toWake, flag, caps>>
    BY <1>4 DEF RequestGC, Goto
  <2>4. t \in team' /\ (team' = {t} \/ team' = caps')
    BY <1>4 DEF RequestGC
  <2>7. ~SecondGC /\ ~SecondGC'
    BY <1>4 DEF RequestGC, SecondGC
  <2>5. MainInv'
    <3>1. wakeup[t] = "INACTIVE" /\ ~gcSpin[t] /\ ~flag
      BY <2>1, <2>2 DEF MainInv, WorkerInv, Rest
    <3>2. t # NoThread /\ pc'[t] = "wait" /\ wakeup'[t] = "INACTIVE" /\ ~gcSpin'[t] /\ ~flag' /\ toWake' = {}
      BY <2>1, <2>3, <3>1, ThreadAssumption
    <3> QED  BY <2>1, <2>4, <2>7, <3>2 DEF MainInv
  <2>6. ASSUME NEW w \in Thread \ {t}
        PROVE  WorkerInv(w)'
    BY <2>1, <2>2, <2>3, <2>7 DEF WorkerInv, Rest, Joined
  <2> QED  BY <1>0, <2>1, <2>5, <2>6
<1>5. ASSUME NEW t \in Thread, Collect(t)
      PROVE  SyncInv'
  <2>1. main = t /\ t # NoThread
    BY <1>5, ThreadAssumption DEF Collect, PrepareGC, HeapOverflow, StartGC, WokenAll, Shutdown, EndGC, WakeUp, Release, Barf
  <2>2. CASE PrepareGC(t)
    <3>1. /\ main' = main /\ team' = team /\ caps' = caps /\ toWake' = team \ {t} /\ ~flag'
          /\ pc' = [pc EXCEPT ![t] = "wake"] /\ UNCHANGED <<wakeup, gcSpin, mutSpin>>
      BY <2>2 DEF PrepareGC, StartGC, Goto
    <3>4. ~SecondGC /\ ~SecondGC'
      BY <2>1, <2>2, SecondSame DEF PrepareGC, StartGC, MainInv
    <3>2. MainInv'
      BY <2>1, <3>1, <3>4 DEF MainInv
    <3>3. ASSUME NEW w \in Thread \ {t}
          PROVE  WorkerInv(w)'
      <4>1. w \in team => wakeup[w] = "STANDING_BY"
        BY <2>2 DEF PrepareGC
      <4>2. pc[t] = "wait" /\ WorkerInv(w)
        BY <2>1, <2>2 DEF PrepareGC
      <4> QED  BY <2>1, <3>1, <3>4, <4>1, <4>2 DEF WorkerInv, Rest, Joined
    <3> QED  BY <1>0, <2>1, <3>1, <3>2, <3>3
  <2>3. CASE WokenAll(t)
    <3>1. UNCHANGED <<sync, flag>> /\ pc[t] = "wake" /\ toWake = {} /\ pc' = [pc EXCEPT ![t] = "roots"]
      BY <2>3 DEF WokenAll, Goto
    <3>4. ~SecondGC /\ ~SecondGC'
      BY <2>1, <3>1, SecondSame DEF MainInv, SecondGC, sync
    <3>2. MainInv'
      BY <2>1, <3>1, <3>4 DEF MainInv, sync
    <3>3. ASSUME NEW w \in Thread \ {t}
          PROVE  WorkerInv(w)'
      BY <2>1, <3>1, <3>4 DEF WorkerInv, Rest, Joined, sync
    <3> QED  BY <1>0, <2>1, <3>1, <3>2, <3>3 DEF sync
  <2>4. CASE Shutdown(t)
    <3>1. /\ main' = main /\ team' = team /\ caps' = caps /\ toWake' = team \ {t} /\ flag' = flag
          /\ pc[t] = "shutdown" /\ pc' = [pc EXCEPT ![t] = "release"] /\ UNCHANGED <<wakeup, gcSpin, mutSpin>>
      BY <2>4 DEF Shutdown, Goto
    <3>4. ~SecondGC /\ ~SecondGC'
      BY <2>1, <2>4, SecondSame DEF Shutdown, MainInv
    <3>2. MainInv'
      BY <2>1, <3>1, <3>4 DEF MainInv
    <3>3. ASSUME NEW w \in Thread \ {t}
          PROVE  WorkerInv(w)'
      <4>1. w \in team => wakeup[w] = "WAITING_TO_CONTINUE"
        BY <2>4 DEF Shutdown
      <4> QED  BY <2>1, <3>1, <3>4, <4>1 DEF WorkerInv, Rest, Joined
    <3> QED  BY <1>0, <2>1, <3>1, <3>2, <3>3
  <2>5. CASE EndGC(t)
    <3>1. /\ main' = NoThread /\ team' = {} /\ toWake = {} /\ toWake' = toWake /\ flag' = flag
          /\ pc[t] = "release" /\ pc' = [pc EXCEPT ![t] = "mutator"] /\ UNCHANGED <<wakeup, gcSpin, mutSpin>>
      BY <2>5 DEF EndGC, Goto
    <3>5. ~SecondGC /\ ~SecondGC'
      BY <2>1, <3>1 DEF MainInv, SecondGC
    <3>2. MainInv'
      BY <2>1, <3>1, <3>5 DEF MainInv
    <3>3. WorkerInv(t)'
      BY <2>1, <3>1, <3>5 DEF WorkerInv, Rest, MainInv
    <3>4. ASSUME NEW w \in Thread \ {t}
          PROVE  WorkerInv(w)'
      BY <2>1, <3>1, <3>5 DEF WorkerInv, Rest, Joined
    <3> QED  BY <1>0, <3>2, <3>3, <3>4
  <2>6. ASSUME NEW u \in Thread, WakeUp(t, u)
        PROVE  SyncInv'
    <3>1. /\ UNCHANGED <<caps, main, team, flag, pc>> /\ toWake' = toWake \ {u} /\ u \in toWake
          /\ pc[t] = "wake" /\ wakeup' = [wakeup EXCEPT ![u] = "RUNNING"]
          /\ mutSpin' = [mutSpin EXCEPT ![u] = FALSE] /\ gcSpin' = [gcSpin EXCEPT ![u] = TRUE]
      BY <2>6 DEF WakeUp
    <3>2. u # t
      BY <2>1, <3>1 DEF MainInv
    <3>6. ~SecondGC /\ ~SecondGC'
      <4>1. WorkerInv(u) /\ wakeup[u] = "STANDING_BY"
        BY <2>1, <2>6, <3>2 DEF WakeUp
      <4>2. ~SecondGC
        BY <4>1 DEF WorkerInv, Rest, Joined
      <4> QED  BY <2>6, <4>2, SecondSame DEF WakeUp
    <3>3. MainInv'
      BY <2>1, <3>1, <3>2, <3>6 DEF MainInv
    <3>4. WorkerInv(u)'
      <4>1. WorkerInv(u) /\ wakeup[u] = "STANDING_BY"
        BY <2>1, <2>6, <3>2 DEF WakeUp
      <4> QED  BY <2>1, <3>1, <3>2, <3>6, <4>1 DEF WorkerInv, Rest, Joined
    <3>5. ASSUME NEW w \in Thread \ {t, u}
          PROVE  WorkerInv(w)'
      BY <2>1, <3>1, <3>6 DEF WorkerInv, Rest, Joined
    <3> QED  BY <1>0, <2>1, <3>1, <3>3, <3>4, <3>5
  <2>7. ASSUME NEW u \in Thread, Release(t, u)
        PROVE  SyncInv'
    <3>1. /\ UNCHANGED <<caps, main, team, flag, pc>> /\ toWake' = toWake \ {u} /\ u \in toWake
          /\ pc[t] = "release" /\ wakeup' = [wakeup EXCEPT ![u] = "INACTIVE"]
          /\ mutSpin' = [mutSpin EXCEPT ![u] = TRUE] /\ gcSpin' = [gcSpin EXCEPT ![u] = FALSE]
      BY <2>7 DEF Release
    <3>2. u # t
      BY <2>1, <3>1 DEF MainInv
    <3>6. ~SecondGC /\ ~SecondGC'
      BY <2>1, <2>7, SecondSame DEF Release, MainInv
    <3>3. MainInv'
      BY <2>1, <3>1, <3>2, <3>6 DEF MainInv
    <3>4. WorkerInv(u)'
      <4>1. WorkerInv(u) /\ wakeup[u] = "WAITING_TO_CONTINUE"
        BY <2>1, <2>7, <3>2 DEF Release
      <4> QED  BY <2>1, <3>1, <3>2, <3>6, <4>1 DEF WorkerInv, Rest, Joined
    <3>5. ASSUME NEW w \in Thread \ {t, u}
          PROVE  WorkerInv(w)'
      BY <2>1, <3>1, <3>6 DEF WorkerInv, Rest, Joined
    <3> QED  BY <1>0, <2>1, <3>1, <3>3, <3>4, <3>5
  <2>8. CASE HeapOverflow(t)
    <3>1. /\ main' = main /\ team' = team /\ caps' = caps /\ toWake' = team \ {t} /\ ~flag'
          /\ pc' = [pc EXCEPT ![t] = "wake"] /\ UNCHANGED <<wakeup, gcSpin, mutSpin>>
      BY <2>8 DEF HeapOverflow, StartGC, Goto
    <3>2. ~SecondGC /\ toWake = {} /\ pc[t] = "release"
      BY <2>8 DEF HeapOverflow, SecondGC
    <3>3. SecondGC' <=> team # {t}
      BY <2>1, <2>8, <3>1 DEF HeapOverflow, SecondGC
    <3>4. MainInv'
      BY <2>1, <3>1, <3>3 DEF MainInv
    <3>5. ASSUME NEW w \in Thread \ {t}
          PROVE  WorkerInv(w)'
      <4>1. WorkerInv(w) /\ (w \in team => SecondGC')
        BY <2>1, <3>3
      <4> QED  BY <2>1, <3>1, <3>2, <4>1 DEF WorkerInv, Rest, Joined
    <3> QED  BY <1>0, <2>1, <3>1, <3>4, <3>5
  <2>9. ASSUME NEW u \in Thread, Barf(t, u)
        PROVE  SyncInv'
    <3>1. UNCHANGED <<sync, flag>> /\ pc[t] = "wake" /\ u \in toWake /\ pc' = [pc EXCEPT ![t] = "barf"]
      BY <2>9 DEF Barf, Goto
    <3>2. SecondGC' <=> SecondGC
      BY <3>1, SecondSame DEF sync
    <3>3. SecondGC
      <4>1. u \in Thread \ {main}
        BY <2>1, <3>1 DEF MainInv
      <4> QED  BY <2>1, <2>9, <3>1, <4>1 DEF Barf, WorkerInv, Rest, Joined
    <3>4. MainInv'
      BY <2>1, <3>1, <3>2, <3>3 DEF MainInv, sync
    <3>5. ASSUME NEW w \in Thread \ {t}
          PROVE  WorkerInv(w)'
      BY <2>1, <3>1, <3>2, <3>3 DEF WorkerInv, Rest, Joined, sync
    <3> QED  BY <1>0, <2>1, <3>1, <3>4, <3>5 DEF sync
  <2> QED  BY <1>5, <2>2, <2>3, <2>4, <2>5, <2>6, <2>7, <2>8, <2>9 DEF Collect
<1> QED  BY <1>1, <1>2, <1>3, <1>4, <1>5 DEF Next, Step

-----------------------------------------------------------------------------
(* What is left to scavenge. *)

\* Evacuating an object makes it the business of the thread, which keeps what it had.
LEMMA EvacuateGrey ==
  ASSUME TypeOK, NEW t \in Thread, NEW o \in Object, Evacuate(t, o),
         inPlace[t] => scan[t] = {}
  PROVE  /\ copied' = copied \union {o}
         /\ Grey(t) \union {o} \subseteq Grey(t)'
         /\ \A u \in Thread \ {t} : Grey(u)' = Grey(u)
<1> USE DEF TypeOK, Evacuate, Grey, Blocks
<1>1. CASE CopyIntoBlock(t, o)
  BY <1>1 DEF CopyIntoBlock
<1>2. CASE TodoBlockFull(t, o)
  <2>0. todo' = [todo EXCEPT ![t] = {o}]
    BY <1>2 DEF TodoBlockFull
  <2>1. CASE inPlace[t]
    <3>1. scan[t] = {} /\ scan' = [scan EXCEPT ![t] = todo[t]] /\ UNCHANGED <<queue, overflow>>
      BY <1>2, <2>1 DEF TodoBlockFull
    <3> QED  BY <2>0, <3>1
  <2>2. CASE ~inPlace[t]
    <3>1. CASE todo[t] = {}
      BY <1>2, <2>0, <2>2, <3>1 DEF TodoBlockFull
    <3>2. CASE todo[t] # {}
      BY <1>2, <2>0, <2>2, <3>2 DEF TodoBlockFull, PushBlock
    <3> QED  BY <3>1, <3>2
  <2> QED  BY <2>1, <2>2
<1> QED  BY <1>1, <1>2

\* A thread without objects to scavenge has none in any block.
LEMMA GreyNone ==
  ASSUME NEW t, Grey(t) = {}
  PROVE  /\ scan[t] = {} /\ todo[t] = {} /\ cur[t] = NoObject
         /\ \A b \in queue[t] : b = {}
<1>1. /\ scan[t] \subseteq Grey(t) /\ todo[t] \subseteq Grey(t) /\ {cur[t]} \ {NoObject} \subseteq Grey(t)
      /\ \A b \in queue[t] : b \subseteq Grey(t)
  BY DEF Grey, Blocks
<1> QED  BY <1>1

\* The steps that leave the blocks alone.
LEMMA GreySame ==
  ASSUME NEW t, UNCHANGED <<todo, scan, inPlace, cur, queue, overflow>>
  PROVE  Grey(t)' = Grey(t)
BY DEF Grey, Blocks

\* Where a thread has work, it is counted, or it is main that has come upon it behind a
\* weak pointer (scavenge_loop, alloc_for_copy, todo_block_full).
LEMMA GreyNext ==
  ASSUME SyncInv, CountInv, GreyInv, [Next]_vars
  PROVE  GreyInv'
<1> USE DEF SyncInv, TypeOK, opts, GreyInv
<1>1. CASE UNCHANGED vars
  BY <1>1 DEF vars, sync, work, GreyOK, Grey, Blocks
<1>2. ASSUME NEW t \in Thread, RequestGC(t) \/ Handshake(t)
      PROVE  GreyInv'
  <2>1. UNCHANGED work /\ flag' = flag /\ \A w \in Thread \ {t} : pc'[w] = pc[w]
    BY <1>2 DEF RequestGC, Handshake, StandBy, StoodBy, GoWorker, ReleaseSpin, WaitToContinue, Continue, Goto
  <2>2. pc[t] \notin {"roots", "scavenge", "traverse"}
    BY <1>2 DEF RequestGC, Handshake, StandBy, StoodBy, GoWorker, ReleaseSpin, WaitToContinue, Continue
  <2> QED  BY <2>1, <2>2, GreySame DEF work, GreyOK
<1>3. ASSUME NEW t \in Thread, Collect(t)
      PROVE  GreyInv'
  <2>1. UNCHANGED <<todo, scan, inPlace, cur, queue, overflow>>
    BY <1>3 DEF Collect, PrepareGC, HeapOverflow, StartGC, Barf, WokenAll, Shutdown, EndGC, WakeUp, Release, work
  <2>2. \A w \in Thread \ {t} : pc'[w] = pc[w]
    BY <1>3 DEF Collect, PrepareGC, HeapOverflow, StartGC, Barf, WokenAll, Shutdown, EndGC, WakeUp, Release, Goto
  <2>3. t = main /\ pc[t] \notin {"roots", "scavenge", "traverse"}
    BY <1>3 DEF Collect, PrepareGC, HeapOverflow, StartGC, Barf, WokenAll, Shutdown, EndGC, WakeUp, Release
  <2>4. \A w \in Thread : pc[w] # "traverse"
    BY <2>3 DEF WorkerInv, Working
  <2> QED  BY <2>1, <2>2, <2>3, <2>4, GreySame DEF GreyOK
<1>4. ASSUME NEW t \in Thread,
             \/ RootsDone(t) \/ LookAround(t) \/ OutOfWork(t) \/ StillRunning(t) \/ NoWork(t)
             \/ BackToWork(t) \/ AllDone(t) \/ Traversed(t) \/ \E u \in Thread : AnyWork(t, u)
      PROVE  GreyInv'
  <2>1. UNCHANGED work /\ \A w \in Thread \ {t} : pc'[w] = pc[w]
    BY <1>4 DEF RootsDone, LookAround, OutOfWork, StillRunning, NoWork, BackToWork, AllDone, Traversed, AnyWork, Goto
  <2>2. CASE LookAround(t)
    <3>1. Grey(t) = {}
      BY <2>2 DEF LookAround, Resting, Grey, Blocks
    <3>2. flag' = flag
      BY <2>2 DEF LookAround
    <3> QED  BY <2>1, <3>1, <3>2, GreySame DEF work, GreyOK
  <2>3. CASE RootsDone(t)
    BY <2>1, <2>3, GreySame DEF work, GreyOK, RootsDone, Goto
  <2>4. CASE Traversed(t)
    <3>1. t = main /\ \A w \in Thread \ {t} : pc[w] # "traverse"
      BY <2>4 DEF Traversed, WorkerInv, Working
    <3> QED  BY <2>1, <2>4, <3>1, GreySame DEF work, GreyOK, Traversed, Goto
  <2>5. CASE OutOfWork(t) \/ StillRunning(t) \/ NoWork(t) \/ BackToWork(t) \/ AllDone(t) \/ \E u \in Thread : AnyWork(t, u)
    <3>1. flag' = flag /\ pc[t] \notin {"roots", "scavenge", "traverse"}
      BY <2>5 DEF OutOfWork, StillRunning, NoWork, BackToWork, AllDone, AnyWork
    <3> QED  BY <2>1, <3>1, GreySame DEF work, GreyOK
  <2> QED  BY <1>4, <2>2, <2>3, <2>4, <2>5
<1>5. ASSUME NEW t \in Thread, NEW o \in Object, Evacuate(t, o), UNCHANGED pc,
             \/ pc[t] \in {"roots", "scavenge"} /\ flag' = flag
             \/ pc[t] = "traverse" /\ flag'
      PROVE  GreyInv'
  <2>1. \A u \in Thread \ {t} : Grey(u)' = Grey(u)
    BY <1>5, EvacuateGrey DEF GreyOK
  <2>2. \A u \in Thread \ {t} : UNCHANGED <<inPlace[u], scan[u], cur[u], todo[u]>>
    BY <1>5 DEF Evacuate, CopyIntoBlock, TodoBlockFull
  <2>3. inPlace'[t] => inPlace[t] /\ UNCHANGED <<scan, cur>> /\ todo'[t] # {}
    BY <1>5 DEF Evacuate, CopyIntoBlock, TodoBlockFull
  <2>4. flag => flag'
    BY <1>5
  <2> QED  BY <1>5, <2>1, <2>2, <2>3, <2>4 DEF GreyOK
<1>6. ASSUME NEW t \in Thread, EvacuateRoot(t) \/ EvacuateChild(t) \/ EvacuateWeak(t)
      PROVE  GreyInv'
  <2>1. CASE EvacuateRoot(t)
    <3>1. PICK o \in MyRoots(t) : Evacuate(t, o)
      BY <2>1 DEF EvacuateRoot
    <3>2. o \in Object
      BY <3>1, RootType
    <3>3. pc[t] = "roots" /\ UNCHANGED pc /\ flag' = flag
      BY <2>1 DEF EvacuateRoot
    <3> QED  BY <1>5, <3>1, <3>2, <3>3
  <2>2. CASE EvacuateChild(t)
    <3>1. cur[t] \in Object /\ Child[cur[t]] \subseteq Object
      BY <2>2, ObjectAssumption DEF EvacuateChild
    <3>2. PICK o \in Child[cur[t]] : Evacuate(t, o)
      BY <2>2 DEF EvacuateChild
    <3>3. pc[t] = "scavenge" /\ UNCHANGED pc /\ flag' = flag /\ o \in Object
      BY <2>2, <3>1, <3>2 DEF EvacuateChild
    <3> QED  BY <1>5, <3>2, <3>3
  <2>3. CASE EvacuateWeak(t)
    BY <1>5, <2>3, ObjectAssumption DEF EvacuateWeak
  <2> QED  BY <1>6, <2>1, <2>2, <2>3
<1>7. ASSUME NEW t \in Thread, NextObject(t) \/ ObjectDone(t) \/ GrabLocal(t)
      PROVE  GreyInv'
  <2>1. UNCHANGED <<pc, flag>> /\ pc[t] = "scavenge"
    BY <1>7 DEF NextObject, ObjectDone, GrabLocal, Resting
  <2>2. \A u \in Thread \ {t} : UNCHANGED <<todo[u], scan[u], inPlace[u], cur[u], queue[u], overflow[u]>>
    BY <1>7 DEF NextObject, ObjectDone, GrabLocal, Resting
  <2>3. \A u \in Thread \ {t} : GreyOK(u)'
    BY <2>1, <2>2 DEF GreyOK, Grey, Blocks
  <2>4. inPlace'[t] => scan'[t] = {} /\ (cur'[t] # NoObject \/ todo'[t] # {})
    <3>1. CASE NextObject(t)
      BY <3>1, ObjectAssumption DEF NextObject, GreyOK
    <3>2. CASE ObjectDone(t)
      BY <3>2 DEF ObjectDone, GreyOK
    <3>3. CASE GrabLocal(t)
      BY <3>3 DEF GrabLocal, Resting, GreyOK
    <3> QED  BY <1>7, <3>1, <3>2, <3>3
  <2> QED  BY <2>1, <2>3, <2>4 DEF GreyOK
<1>8. ASSUME NEW t \in Thread, NEW u \in Thread, Steal(t, u)
      PROVE  GreyInv'
  <2>1. ~inPlace[t] /\ scan[t] = {}
    <3>1. Grey(t) = {}
      BY <1>8 DEF Steal, GreyOK
    <3> QED  BY <3>1, GreyNone DEF GreyOK
  <2>2. UNCHANGED <<todo, inPlace, cur, overflow, flag>>
    BY <1>8 DEF Steal
  <2>3. ASSUME NEW w \in Thread \ {t}
        PROVE  GreyOK(w)'
    <3>1. pc'[w] = pc[w] /\ scan'[w] = scan[w] /\ queue'[w] \subseteq queue[w]
      BY <1>8 DEF Steal, Goto
    <3>2. Grey(w)' \subseteq Grey(w)
      BY <2>2, <3>1 DEF Grey, Blocks
    <3> QED  BY <2>2, <3>1, <3>2 DEF GreyOK
  <2>4. GreyOK(t)'
    <3>1. CASE UNCHANGED <<queue, scan, pc>>
      BY <3>1, <2>2 DEF GreyOK, Grey, Blocks
    <3>2. CASE pc'[t] = "scavenge"
      BY <3>2, <2>1, <2>2 DEF GreyOK
    <3> QED  BY <1>8, <3>1, <3>2 DEF Steal, Goto
  <2> QED  BY <2>3, <2>4
<1> QED
  BY <1>1, <1>2, <1>3, <1>4, <1>6, <1>7, <1>8 DEF Next, Step, Scavenge

\* Every evacuated object is scavenged, by the thread that holds its block, before it is
\* forgotten (scavenge_block, grab_local_todo_block, steal_todo_block).
LEMMA BlackNext ==
  ASSUME SyncInv, CountInv, GreyInv, BlackInv, [Next]_vars
  PROVE  BlackInv'
<1> USE DEF SyncInv, TypeOK, opts, BlackInv
<1>1. CASE UNCHANGED work
  BY <1>1 DEF work, Grey, Blocks
<1>2. ASSUME UNCHANGED copied, \A w \in Thread : Grey(w) \subseteq Grey(w)'
      PROVE  BlackInv'
  BY <1>2
<1>3. ASSUME NEW t \in Thread, NEW o \in Object, Evacuate(t, o)
      PROVE  BlackInv'
  <2>1. /\ copied' = copied \union {o} /\ Grey(t) \union {o} \subseteq Grey(t)'
        /\ \A u \in Thread \ {t} : Grey(u)' = Grey(u)
    BY <1>3, EvacuateGrey DEF GreyInv, GreyOK
  <2> QED  BY <2>1
<1>4. ASSUME NEW t \in Thread, RequestGC(t) \/ Step(t)
      PROVE  BlackInv'
  <2>1. CASE PrepareGC(t) \/ HeapOverflow(t)
    BY <2>1 DEF PrepareGC, HeapOverflow, StartGC
  <2>2. CASE \/ RequestGC(t) \/ Handshake(t) \/ WokenAll(t) \/ Shutdown(t) \/ EndGC(t)
             \/ (\E u \in Thread : WakeUp(t, u) \/ Release(t, u) \/ Barf(t, u) \/ AnyWork(t, u))
             \/ RootsDone(t) \/ LookAround(t) \/ OutOfWork(t) \/ StillRunning(t) \/ NoWork(t)
             \/ BackToWork(t) \/ AllDone(t) \/ Traversed(t)
    <3>1. UNCHANGED work
      BY <2>2 DEF RequestGC, Handshake, StandBy, StoodBy, GoWorker, ReleaseSpin, WaitToContinue, Continue,
                  WokenAll, Shutdown, EndGC, WakeUp, Release, Barf, AnyWork, RootsDone, LookAround, OutOfWork,
                  StillRunning, NoWork, BackToWork, AllDone, Traversed
    <3> QED  BY <3>1, <1>1
  <2>3. CASE EvacuateRoot(t)
    <3>1. PICK o \in MyRoots(t) : Evacuate(t, o)
      BY <2>3 DEF EvacuateRoot
    <3>2. o \in Object
      BY <3>1, RootType
    <3> QED  BY <3>1, <3>2, <1>3
  <2>4. CASE EvacuateChild(t)
    <3>1. PICK o \in Child[cur[t]] : Evacuate(t, o)
      BY <2>4 DEF EvacuateChild
    <3>2. o \in Object
      BY <2>4, <3>1, ObjectAssumption DEF EvacuateChild
    <3> QED  BY <3>1, <3>2, <1>3
  <2>5. CASE EvacuateWeak(t)
    <3>1. PICK o \in Weak : Evacuate(t, o)
      BY <2>5 DEF EvacuateWeak
    <3>2. o \in Object
      BY <3>1, ObjectAssumption
    <3> QED  BY <3>1, <3>2, <1>3
  <2>6. CASE NextObject(t)
    <3>1. \A u \in Thread \ {t} : Grey(u)' = Grey(u)
      BY <2>6 DEF NextObject, Grey, Blocks
    <3>2. /\ UNCHANGED <<copied, queue, overflow>> /\ cur[t] = NoObject
          /\ scan[t] \subseteq scan'[t] \union ({cur'[t]} \ {NoObject})
          /\ todo[t] \subseteq todo'[t] \union ({cur'[t]} \ {NoObject})
      <4>1. CASE scan[t] # {}
        <5>1. PICK o \in scan[t] : cur' = [cur EXCEPT ![t] = o] /\ scan' = [scan EXCEPT ![t] = @ \ {o}]
          BY <2>6, <4>1 DEF NextObject
        <5> QED  BY <2>6, <4>1, <5>1, ObjectAssumption DEF NextObject
      <4>2. CASE scan[t] = {}
        <5>1. PICK o \in todo[t] : cur' = [cur EXCEPT ![t] = o] /\ todo' = [todo EXCEPT ![t] = @ \ {o}]
          BY <2>6, <4>2 DEF NextObject
        <5> QED  BY <2>6, <4>2, <5>1, ObjectAssumption DEF NextObject
      <4> QED  BY <4>1, <4>2
    <3>3. /\ scan'[t] \subseteq Grey(t)' /\ todo'[t] \subseteq Grey(t)' /\ {cur'[t]} \ {NoObject} \subseteq Grey(t)'
          /\ \A b \in queue[t] \union overflow[t] : b \subseteq Grey(t)'
      <4>1. \A b \in Blocks(t)' : b \subseteq Grey(t)'
        BY DEF Grey
      <4>2. /\ scan'[t] \in Blocks(t)' /\ todo'[t] \in Blocks(t)' /\ {cur'[t]} \ {NoObject} \in Blocks(t)'
            /\ \A b \in queue[t] \union overflow[t] : b \in Blocks(t)'
        BY <3>2 DEF Blocks
      <4> QED  BY <4>1, <4>2
    <3>4. \A b \in Blocks(t) : b \subseteq Grey(t)'
      BY <3>2, <3>3 DEF Blocks
    <3>5. Grey(t) \subseteq Grey(t)'
      BY <3>4 DEF Grey
    <3> QED  BY <1>2, <3>1, <3>2, <3>5
  <2>7. CASE GrabLocal(t)
    <3>1. \A u \in Thread \ {t} : Grey(u)' = Grey(u)
      BY <2>7 DEF GrabLocal, Resting, Grey, Blocks
    <3>2. Blocks(t) \subseteq Blocks(t)' \union {{}} /\ UNCHANGED copied
      BY <2>7 DEF GrabLocal, Resting, Blocks
    <3>3. Grey(t) \subseteq Grey(t)'
      BY <3>2 DEF Grey
    <3> QED  BY <1>2, <3>1, <3>2, <3>3
  <2>8. CASE ObjectDone(t)
    <3>1. \A u \in Thread \ {t} : Grey(u)' = Grey(u)
      BY <2>8 DEF ObjectDone, Grey, Blocks
    <3>2. Grey(t) \subseteq Grey(t)' \union {cur[t]} /\ Child[cur[t]] \subseteq copied /\ UNCHANGED copied
      BY <2>8 DEF ObjectDone, Grey, Blocks
    <3> QED  BY <3>1, <3>2
  <2>9. ASSUME NEW u \in Thread, Steal(t, u)
        PROVE  BlackInv'
    <3>1. Grey(t) = {}
      BY <2>9 DEF Steal, GreyInv, GreyOK
    <3>2. CASE UNCHANGED <<queue, scan>>
      BY <2>9, <3>2, <1>1 DEF Steal, work
    <3>3. CASE \E b \in queue[u] : queue' = [queue EXCEPT ![u] = @ \ {b}] /\ scan' = [scan EXCEPT ![t] = b]
      <4>1. PICK b \in queue[u] : queue' = [queue EXCEPT ![u] = @ \ {b}] /\ scan' = [scan EXCEPT ![t] = b]
        BY <3>3
      <4>2. UNCHANGED <<copied, todo, cur, overflow>>
        BY <2>9 DEF Steal
      <4>3. b \subseteq Grey(t)'
        BY <4>1 DEF Grey, Blocks
      <4>4. \A w \in Thread \ {t} : Grey(w) \subseteq Grey(w)' \union b
        <5>1. \A w \in Thread \ {t} : Blocks(w) \subseteq Blocks(w)' \union {b}
          BY <4>1, <4>2 DEF Blocks
        <5> QED  BY <5>1 DEF Grey
      <4> QED  BY <3>1, <4>2, <4>3, <4>4
    <3> QED  BY <2>9, <3>2, <3>3 DEF Steal
  <2> QED
    BY <1>4, <2>1, <2>2, <2>3, <2>4, <2>5, <2>6, <2>7, <2>8, <2>9 DEF Step, Collect, Scavenge
<1> QED  BY <1>1, <1>4 DEF Next, vars

\* No thread leaves its roots before they are all copied, and a collection starts with every
\* thread before them (gcWorkerThread, GarbageCollect).
LEMMA RootNext ==
  ASSUME SyncInv, CountInv, RootInv, [Next]_vars
  PROVE  RootInv'
<1> DEFINE Early == {"wait_gc", "wake", "roots"}
<1> USE DEF SyncInv, TypeOK, opts
<1>0. SyncInv'
  BY SyncNext
<1>1. CASE UNCHANGED vars
  BY <1>1, SecondSame DEF RootInv, MyRoots, vars, sync, work
<1>2. ASSUME UNCHANGED <<overflowed, main, team, caps>>, copied \subseteq copied',
             main # NoThread /\ pc[main] = "wait" => pc'[main] = "wait",
             \A w \in team : pc[w] \in Early => pc'[w] \in Early \/ MyRoots(w) \subseteq copied'
      PROVE  RootInv'
  <2>1. \A w \in team : MyRoots(w)' = MyRoots(w)
    BY <1>2 DEF MyRoots
  <2> QED  BY <1>2, <2>1, SecondSame DEF RootInv
<1>3. ASSUME NEW t \in Thread, RequestGC(t) \/ Step(t)
      PROVE  RootInv'
  <2>1. CASE RequestGC(t)
    BY <2>1 DEF RequestGC, Goto, RootInv
  <2>2. CASE EndGC(t)
    BY <2>2 DEF EndGC, RootInv
  <2>3. CASE PrepareGC(t)
    <3>1. \A w \in team : pc'[w] \in Early
      BY <2>3 DEF PrepareGC, StartGC, Goto, WorkerInv, Rest, Joined, Working
    <3> QED  BY <2>3, <3>1 DEF PrepareGC, StartGC, RootInv
  <2>10. CASE HeapOverflow(t)
    <3>1. SecondGC' \/ team' = {t}
      BY <2>10, ThreadAssumption DEF HeapOverflow, StartGC, SecondGC
    <3>2. main' = t /\ pc'[t] = "wake"
      BY <2>10 DEF HeapOverflow, StartGC, Goto
    <3> QED  BY <3>1, <3>2 DEF RootInv
  <2>11. ASSUME NEW u \in Thread, Barf(t, u)
         PROVE  RootInv'
    <3>1. main = t /\ pc'[t] = "barf" /\ UNCHANGED sync
      BY <2>11 DEF Barf, Goto
    <3>2. SyncInv'
      BY <1>0
    <3> QED  BY <3>1, <3>2, ThreadAssumption DEF MainInv, RootInv, sync
  <2>4. CASE Handshake(t)
    <3>1. t # main \/ main = NoThread
      BY <2>4 DEF Handshake, StandBy, StoodBy, GoWorker, ReleaseSpin, WaitToContinue, Continue, MainInv, MainWork
    <3>2. /\ UNCHANGED <<overflowed, main, team, caps, copied>>
          /\ \A w \in Thread \ {t} : pc'[w] = pc[w]
          /\ pc[t] \in Early => pc'[t] \in Early
      BY <2>4 DEF Handshake, StandBy, StoodBy, GoWorker, ReleaseSpin, WaitToContinue, Continue, Goto, work
    <3> QED  BY <1>2, <3>1, <3>2
  <2>5. CASE WokenAll(t) \/ Shutdown(t) \/ (\E u \in Thread : WakeUp(t, u) \/ Release(t, u))
    <3>1. /\ UNCHANGED <<overflowed, main, team, caps, copied>>
          /\ \A w \in Thread \ {t} : pc'[w] = pc[w]
          /\ pc[t] \in Early => pc'[t] \in Early
          /\ pc[t] # "wait"
      BY <2>5 DEF WokenAll, Shutdown, WakeUp, Release, Goto, work, sync
    <3> QED  BY <1>2, <3>1
  <2>6. CASE EvacuateRoot(t) \/ EvacuateChild(t) \/ EvacuateWeak(t)
    <3>1. UNCHANGED <<overflowed, main, team, caps, pc>> /\ copied \subseteq copied'
      BY <2>6 DEF EvacuateRoot, EvacuateChild, EvacuateWeak, Evacuate, sync
    <3> QED  BY <1>2, <3>1
  <2>7. CASE NextObject(t) \/ ObjectDone(t) \/ GrabLocal(t)
    <3>1. UNCHANGED <<overflowed, main, team, caps, pc, copied>>
      BY <2>7 DEF NextObject, ObjectDone, GrabLocal, sync
    <3> QED  BY <1>2, <3>1
  <2>8. CASE RootsDone(t)
    <3>1. /\ UNCHANGED <<overflowed, main, team, caps, copied>>
          /\ \A w \in Thread \ {t} : pc'[w] = pc[w]
          /\ MyRoots(t) \subseteq copied
          /\ pc[t] # "wait"
      BY <2>8 DEF RootsDone, Goto, work, sync
    <3> QED  BY <1>2, <3>1
  <2>9. CASE \/ LookAround(t) \/ OutOfWork(t) \/ StillRunning(t) \/ NoWork(t) \/ BackToWork(t)
             \/ AllDone(t) \/ Traversed(t) \/ (\E u \in Thread : Steal(t, u) \/ AnyWork(t, u))
    <3>1. /\ UNCHANGED <<overflowed, main, team, caps, copied>>
          /\ \A w \in Thread \ {t} : pc'[w] = pc[w]
          /\ pc[t] \notin Early
          /\ pc[t] # "wait"
      BY <2>9 DEF LookAround, OutOfWork, StillRunning, NoWork, BackToWork, AllDone, Traversed, Steal, AnyWork,
                  Resting, Goto, work, sync
    <3> QED  BY <1>2, <3>1
  <2> QED
    BY <1>3, <2>1, <2>2, <2>3, <2>4, <2>5, <2>6, <2>7, <2>8, <2>9, <2>10, <2>11 DEF Step, Collect, Scavenge
<1> QED  BY <1>1, <1>3 DEF Next

\* When main has seen gc_running_threads at 0, nothing is left to scavenge, and nobody finds
\* anything until main itself follows a weak pointer (scavenge_until_all_done, the loop of
\* GarbageCollect).
LEMMA DoneNext ==
  ASSUME SyncInv, CountInv, GreyInv, DoneInv, [Next]_vars
  PROVE  DoneInv'
<1> DEFINE Early == {"wait_gc", "wake", "roots"}
<1> USE DEF SyncInv, TypeOK, opts
<1>1. CASE UNCHANGED vars
  BY <1>1 DEF DoneInv, Converged, Grey, Blocks, vars, sync, work
<1>2. ASSUME UNCHANGED <<main, team>>, Converged' => Converged,
             Converged => \A w \in team : pc[w] \notin Early => pc'[w] \notin Early,
             Converged /\ ~flag' => ~flag /\ \A w \in Thread : Grey(w) = {} => Grey(w)' = {}
      PROVE  DoneInv'
  BY <1>2 DEF DoneInv
<1>3. ASSUME UNCHANGED <<main, team, flag, work>>, Converged' => Converged,
             Converged => \A w \in team : pc[w] \notin Early => pc'[w] \notin Early
      PROVE  DoneInv'
  <2>1. \A w \in Thread : Grey(w)' = Grey(w)
    BY <1>3 DEF Grey, Blocks, work
  <2> QED  BY <1>2, <1>3, <2>1
<1>4. ASSUME ~Converged'
      PROVE  DoneInv'
  BY <1>4 DEF DoneInv
<1>5. ASSUME NEW t \in Thread, RequestGC(t) \/ Step(t)
      PROVE  DoneInv'
  <2>1. CASE \/ RequestGC(t) \/ EndGC(t) \/ PrepareGC(t) \/ HeapOverflow(t) \/ WokenAll(t)
             \/ \E u \in Thread : Barf(t, u)
    <3>1. ~Converged'
      BY <2>1 DEF RequestGC, EndGC, PrepareGC, HeapOverflow, StartGC, Barf, WokenAll, Goto, Converged, sync
    <3> QED  BY <3>1, <1>4
  <2>2. CASE Shutdown(t) \/ (\E u \in Thread : WakeUp(t, u) \/ Release(t, u))
    <3>1. /\ UNCHANGED <<main, team, flag, work>>
          /\ Converged' => Converged
          /\ \A w \in team : pc[w] \notin Early => pc'[w] \notin Early
      BY <2>2 DEF Shutdown, WakeUp, Release, Goto, Converged
    <3> QED  BY <3>1, <1>3
  <2>3. CASE Handshake(t)
    <3>1. t # main
      BY <2>3, ThreadAssumption
      DEF Handshake, StandBy, StoodBy, GoWorker, ReleaseSpin, WaitToContinue, Continue, MainInv, MainWork
    <3>2. /\ UNCHANGED <<main, team, flag, work>>
          /\ \A w \in Thread \ {t} : pc'[w] = pc[w]
      BY <2>3 DEF Handshake, StandBy, StoodBy, GoWorker, ReleaseSpin, WaitToContinue, Continue, Goto
    <3>3. Converged' = Converged
      BY <3>1, <3>2 DEF Converged
    <3>4. Converged /\ t \in team => pc'[t] \notin Early
      <4>1. CASE ReleaseSpin(t) \/ WaitToContinue(t) \/ Continue(t)
        BY <4>1 DEF ReleaseSpin, WaitToContinue, Continue, Goto
      <4>2. CASE StandBy(t) \/ StoodBy(t)
        BY <3>1, <4>2 DEF StandBy, StoodBy, WorkerInv, Converged
      <4>3. CASE GoWorker(t)
        BY <4>3 DEF GoWorker, DoneInv
      <4> QED  BY <2>3, <4>1, <4>2, <4>3 DEF Handshake
    <3> QED  BY <1>3, <3>2, <3>3, <3>4
  <2>4. CASE EvacuateRoot(t) \/ RootsDone(t)
    <3>1. ~Converged
      BY <2>4, ThreadAssumption DEF EvacuateRoot, RootsDone, DoneInv, Converged, WorkerInv, Working, Joined
    <3>2. ~Converged'
      BY <2>4, <3>1 DEF EvacuateRoot, RootsDone, Converged, Goto, sync
    <3> QED  BY <3>2, <1>4
  <2>5. CASE NextObject(t) \/ EvacuateChild(t) \/ ObjectDone(t)
    <3>1. UNCHANGED <<main, team, pc, flag>>
      BY <2>5 DEF NextObject, EvacuateChild, ObjectDone, sync
    <3>2. \E b \in Blocks(t) : b # {}
      <4>1. scan[t] # {} \/ todo[t] # {} \/ cur[t] # NoObject
        BY <2>5 DEF NextObject, EvacuateChild, ObjectDone
      <4>2. cur[t] # NoObject => {cur[t]} \ {NoObject} # {}
        OBVIOUS
      <4>3. {scan[t], todo[t], {cur[t]} \ {NoObject}} \subseteq Blocks(t)
        BY DEF Blocks
      <4> QED  BY <4>1, <4>2, <4>3
    <3>3. Grey(t) # {}
      BY <3>2 DEF Grey
    <3>4. Converged => flag
      BY <3>3 DEF DoneInv
    <3> QED  BY <1>2, <3>1, <3>4 DEF Converged
  <2>6. CASE GrabLocal(t)
    <3>1. UNCHANGED <<main, team, pc, flag>>
      BY <2>6 DEF GrabLocal, sync
    <3>2. \A w \in Thread : Blocks(w)' \subseteq Blocks(w)
      BY <2>6 DEF GrabLocal, Resting, Blocks
    <3>3. \A w \in Thread : Grey(w)' \subseteq Grey(w)
      BY <3>2 DEF Grey
    <3> QED  BY <1>2, <3>1, <3>3 DEF Converged
  <2>7. CASE LookAround(t) \/ OutOfWork(t) \/ StillRunning(t) \/ NoWork(t) \/ BackToWork(t)
             \/ (\E u \in Thread : AnyWork(t, u))
    <3>1. /\ UNCHANGED <<main, team, flag, work>>
          /\ \A w \in Thread \ {t} : pc'[w] = pc[w]
          /\ pc'[t] \in {"steal", "idle", "any_work", "back", "scavenge"}
      BY <2>7 DEF LookAround, OutOfWork, StillRunning, NoWork, BackToWork, AnyWork, Goto, sync
    <3>2. Converged' => Converged
      BY <3>1 DEF Converged
    <3> QED  BY <1>3, <3>1, <3>2
  <2>8. ASSUME NEW u \in Thread, Steal(t, u)
        PROVE  DoneInv'
    <3>1. CASE queue[u] = {}
      <4>1. UNCHANGED <<main, team, flag, work, pc>>
        BY <2>8, <3>1 DEF Steal, sync, work
      <4> QED  BY <4>1, <1>3 DEF Converged
    <3>2. CASE queue[u] # {}
      <4>1. PICK b \in queue[u] : /\ queue' = [queue EXCEPT ![u] = @ \ {b}]
                                  /\ scan' = [scan EXCEPT ![t] = b]
                                  /\ Goto(t, "scavenge")
        BY <2>8, <3>2 DEF Steal
      <4>2. UNCHANGED <<main, team, flag, todo, cur, overflow>>
        BY <2>8 DEF Steal, sync
      <4>3. /\ Converged' => Converged
            /\ \A w \in team : pc[w] \notin Early => pc'[w] \notin Early
        BY <4>1, <4>2 DEF Goto, Converged
      <4>4. \A w \in Thread : Blocks(w)' \subseteq Blocks(w) \union {b}
        BY <4>1, <4>2 DEF Blocks
      <4>5. b \subseteq Grey(u)
        BY DEF Grey, Blocks
      <4>6. \A w \in Thread : Grey(w)' \subseteq Grey(w) \union b
        BY <4>4 DEF Grey
      <4>7. Converged /\ ~flag => \A w \in Thread : Grey(w)' = {}
        BY <4>5, <4>6 DEF DoneInv
      <4> QED  BY <1>2, <4>2, <4>3, <4>7
    <3> QED  BY <3>1, <3>2
  <2>9. CASE AllDone(t)
    <3>1. /\ UNCHANGED <<main, team, flag, work>> /\ pc[t] = "idle"
          /\ pc' = [pc EXCEPT ![t] = IF t = main THEN "traverse" ELSE "done"]
      BY <2>9 DEF AllDone, Goto, sync
    <3>2. CASE t # main
      <4>1. Converged' = Converged
        BY <3>1, <3>2 DEF Converged
      <4> QED  BY <1>3, <3>1, <3>2, <4>1
    <3>3. CASE t = main
      <4>1. Counted = {}
        BY <2>9, <3>1, <3>3, CountedFinite DEF AllDone, CountInv, Barfed
      <4>2. \A w \in team : pc[w] \notin Early
        BY <3>1, <3>3, <4>1 DEF Counted, Counters, WorkerInv, Joined
      <4>3. \A w \in Thread : Grey(w) = {}
        BY <3>1, <3>3, <4>1 DEF Counted, Counters, GreyInv, GreyOK, MainInv
      <4>4. \A w \in Thread : Grey(w)' = {}
        BY <3>1, <4>3 DEF Grey, Blocks, work
      <4> QED  BY <3>1, <3>3, <4>2, <4>4 DEF DoneInv
    <3> QED  BY <3>2, <3>3
  <2>10. CASE EvacuateWeak(t)
    <3>1. UNCHANGED <<main, team, pc>> /\ flag'
      BY <2>10 DEF EvacuateWeak, sync
    <3> QED  BY <1>2, <3>1 DEF Converged
  <2>11. CASE Traversed(t)
    <3>1. t = main
      BY <2>11 DEF Traversed, WorkerInv, Working
    <3>2. CASE flag
      BY <2>11, <3>1, <3>2, <1>4 DEF Traversed, Goto, Converged, sync
    <3>3. CASE ~flag
      BY <2>11, <3>1, <3>3, <1>3, ThreadAssumption DEF Traversed, Goto, Converged, sync
    <3> QED  BY <3>2, <3>3
  <2> QED
    BY <1>5, <2>1, <2>2, <2>3, <2>4, <2>5, <2>6, <2>7, <2>8, <2>9, <2>10, <2>11 DEF Step, Collect, Scavenge
<1> QED  BY <1>1, <1>5 DEF Next
-----------------------------------------------------------------------------
(* The theorems. *)

\* No thread collects when the program starts.
LEMMA InitInv == Init => IndInv
<1> SUFFICES ASSUME Init PROVE IndInv
  OBVIOUS
<1> USE DEF Init
<1>1. TypeOK
  <2>1. caps \subseteq Thread /\ gcs \in Nat
    BY BoundAssumption
  <2>2. /\ pc \in [Thread -> {"mutator"}] /\ wakeup \in [Thread -> {"INACTIVE"}]
        /\ gcSpin \in [Thread -> BOOLEAN] /\ mutSpin \in [Thread -> BOOLEAN] /\ inPlace \in [Thread -> BOOLEAN]
    OBVIOUS
  <2>3. /\ todo \in [Thread -> SUBSET Object] /\ scan \in [Thread -> SUBSET Object]
        /\ cur \in [Thread -> Object \union {NoObject}]
    OBVIOUS
  <2>4. /\ queue \in [Thread -> SUBSET SUBSET Object] /\ overflow \in [Thread -> SUBSET SUBSET Object]
        /\ seen \in [Thread -> SUBSET Thread]
    OBVIOUS
  <2> QED  BY <2>1, <2>2, <2>3, <2>4 DEF TypeOK
<1>2. SyncInv
  BY <1>1, ThreadAssumption DEF SyncInv, MainInv, WorkerInv, Rest, Working, SecondGC
<1>3. CountInv
  <2>1. Counted = {}
    BY DEF Counted, Counters
  <2> QED  BY <2>1, FS_EmptySet DEF CountInv
<1>4. \A t \in Thread : Grey(t) = {}
  <2>1. \A t \in Thread : \A b \in Blocks(t) : b = {}
    BY DEF Blocks
  <2> QED  BY <2>1 DEF Grey
<1>5. GreyInv /\ BlackInv
  BY <1>4 DEF GreyInv, GreyOK, BlackInv
<1>6. RootInv /\ DoneInv
  BY DEF RootInv, DoneInv, Converged
<1> QED  BY <1>2, <1>3, <1>5, <1>6 DEF IndInv

\* The invariant holds in every state of every collection, of any number of threads and objects.
THEOREM IndInvCorrect == Spec => []IndInv
<1>1. IndInv /\ [Next]_vars => IndInv'
  BY SyncNext, CountNext, GreyNext, BlackNext, RootNext, DoneNext DEF IndInv
<1> QED  BY <1>1, InitInv, PTL DEF Spec

\* When GarbageCollect stops its workers, every root of every Capability and everything that a
\* copied object points to has been copied, and no thread has anything left to scavenge
\* (scavenge_until_all_done, the loop of GarbageCollect).
THEOREM CompleteCorrect == Spec => []Complete
<1>1. IndInv => Complete
  <2> SUFFICES ASSUME IndInv, main # NoThread, pc[main] \in {"shutdown", "release"}
               PROVE  /\ \A t \in caps : Root[t] \subseteq copied
                      /\ \A t \in Thread : Grey(t) = {}
                      /\ \A o \in copied : Child[o] \subseteq copied
    BY DEF Complete
  <2>1. ~flag
    BY DEF IndInv, SyncInv, MainInv
  <2>2. \A t \in Thread : Grey(t) = {}
    BY <2>1 DEF IndInv, DoneInv, Converged
  <2>3. \A o \in copied : Child[o] \subseteq copied
    BY <2>2 DEF IndInv, BlackInv
  <2>4. \A t \in team : MyRoots(t) \subseteq copied
    BY DEF IndInv, RootInv, DoneInv, Converged, SyncInv, MainInv
  <2>5. main \in team /\ (team = {main} \/ team = caps)
    BY DEF IndInv, SyncInv, MainInv
  <2>6. ASSUME NEW t \in caps
        PROVE  Root[t] \subseteq copied
    <3>1. CASE team = {main}
      <4>1. Root[t] \subseteq MyRoots(main)
        BY <3>1 DEF MyRoots
      <4> QED  BY <2>4, <2>5, <4>1
    <3>2. CASE team = caps
      <4>1. Root[t] \subseteq MyRoots(t)
        BY <3>2 DEF MyRoots
      <4> QED  BY <2>4, <3>2, <4>1
    <3> QED  BY <2>5, <3>1, <3>2
  <2> QED  BY <2>2, <2>3, <2>6
<1> QED  BY <1>1, IndInvCorrect, PTL

\* gc_running_threads counts the threads that are at work, and a thread that has work is counted
\* (inc_running, dec_running).
THEOREM RunningIsCountedCorrect == Spec => []RunningIsCounted
<1>1. IndInv => RunningIsCounted
  <2> SUFFICES ASSUME IndInv PROVE RunningIsCounted
    OBVIOUS
  <2>1. ~Barfed => running = Cardinality(Counted)
    BY DEF IndInv, CountInv
  <2>2. \A t \in Thread : Grey(t) # {} => t \in Counted \/ pc[t] = "traverse"
    BY DEF IndInv, GreyInv, GreyOK, Counted, Counters
  <2> QED  BY <2>1, <2>2 DEF RunningIsCounted
<1> QED  BY <1>1, IndInvCorrect, PTL

\* Main never finds a worker in a state it does not expect, nor waits for a spin lock, when it
\* wakes or releases it, but when it collects once more after a heap overflow in a parallel
\* collection: then each worker it has to wake is found not to stand by.  Outside a collection,
\* and in such a second one, no worker is in the collector (wakeup_gc_threads,
\* shutdown_gc_threads, releaseGCThreads, scheduleDoGC).
THEOREM HandshakeCorrect == Spec => []HandshakeSound
<1>1. IndInv => HandshakeSound
  <2> SUFFICES ASSUME SyncInv PROVE HandshakeSound
    BY DEF IndInv
  <2>1. TypeOK
    BY DEF SyncInv
  <2>2. ASSUME main # NoThread, NEW u \in toWake
        PROVE  u \in Thread \ {main}
    BY <2>2 DEF SyncInv, TypeOK, MainInv
  <2>3. NeverBarfs
    <3> SUFFICES ASSUME main # NoThread, ~SecondGC, NEW u \in toWake
                 PROVE  /\ pc[main] = "wake" => wakeup[u] = "STANDING_BY" /\ mutSpin[u]
                        /\ pc[main] = "release" => wakeup[u] = "WAITING_TO_CONTINUE" /\ gcSpin[u]
      BY DEF NeverBarfs
    <3> QED  BY <2>2 DEF SyncInv, WorkerInv, Working, Rest, Joined, MainWork
  <2>4. SecondBarfs
    <3> SUFFICES ASSUME SecondGC
                 PROVE  /\ pc[main] \in {"wake", "barf"} /\ toWake = team \ {main}
                        /\ \A u \in toWake : wakeup[u] = "INACTIVE"
      BY DEF SecondBarfs
    <3>1. main # NoThread
      BY DEF SecondGC
    <3> QED  BY <2>2, <3>1 DEF SyncInv, MainInv, WorkerInv, Working, Rest, Joined
  <2>5. Quiet
    <3> SUFFICES ASSUME main = NoThread \/ pc[main] = "wait" \/ team = {main} \/ SecondGC,
                        NEW t \in Thread, t # main
                 PROVE  pc[t] \in {"mutator", "standby", "wait_gc", "wait_mut"} /\ ~gcSpin[t]
      BY DEF Quiet
    <3>1. ~Joined(t)
      BY DEF SyncInv, MainInv, Joined, MainWork
    <3> QED  BY <3>1 DEF SyncInv, MainInv, WorkerInv, Working, Rest, MainWork
  <2> QED  BY <2>1, <2>3, <2>4, <2>5 DEF HandshakeSound
<1> QED  BY <1>1, IndInvCorrect, PTL
=============================================================================
