# The GHC run-time system: a verification project

This directory specifies, model-checks and proves parts of the GHC run-time system
(`rts/`): the C and Cmm code that runs Haskell threads on several OS threads at once,
manages their memory, and loads, interprets and distributes their code. The compiler and
the libraries are outside it: they are functional transformations, while a mistake
in the scheduler, in STM, in the collector or in a message protocol needs a particular
interleaving, or a particular history of calls, to show.

Contents: [inventory](#inventory), [modules](#modules-and-how-they-correspond-to-the-code),
[runs](#runs), [fairness](#fairness), [findings](#findings), [proofs](#proofs),
[what is not modelled](#what-is-not-modelled), [plan](#plan).

## Inventory

| part | source | state | operations | what makes it correct |
|---|---|---|---|---|
| work-stealing deque | `WSDeque.c` | `top`, `bottom`, `topBound`, `elements` | push, pop by the owner; steal by anyone | each accepted element handed out once, never lost; linearizable |
| STM | `STM.c`, parts of `PrimOps.cmm`, `Exception.cmm` | TVars (`current_value`, `num_updates`, watch queue), transaction records | start, read, write, nested start/commit, validate, commit, wait, re-wait, abort, condemn | atomic snapshots, no lost update, no leaked lock, no lost wake-up |
| Capabilities, Tasks | `Capability.c`, `Task.c`, `RtsAPI.c` | `running_task`, `returning_tasks`, `spare_workers`, `run_queue`, `inbox`; `task->cap`, `wakeup` | release, return, yield, grab, shut down; worker start/stop, in-call lock/unlock | one owner; a free Capability with work is on its way to somebody; a Task sleeps only where its waker looks |
| scheduler | `Schedule.c` | `pending_sync`, `sched_state`, the loop's position | process inbox, push work, yield, run, handle each return code, suspend/resume, requestSync, GC, fork, exit | runnable threads run; a stop of the world ends; exit ends |
| asynchronous exceptions | `RaiseAsync.c`, `Exception.cmm` | messages, `blocked_exceptions`, `flags` | throwTo, MSG_THROWTO, mask, unmask, maybePerform, raiseAsync | each exception raised once or revoked; nobody waits in vain; no cycle of locks |
| MVars | `PrimOps.cmm` | value, queue | take, put, try variants | a cell with one FIFO queue, no lost wake-up |
| black holes | `ThreadPaused.c`, `Messages.c`, `Updates.cmm`, `Threads.c` | thunks, blocking queues, update frames | enter, block, pause, update, wake, freeze | every waiter woken, work not duplicated |
| collector | `sm/GC.c`, `Evac.c`, `Scav.c`, `MarkWeak.c`, `Storage.c` | generations, `mut_list`, weak list, threads, CAFs | write barriers, evacuate, scavenge, traverse weak pointers and threads, finalize | invisible to the program; keeps the living, finalizes the dead |
| parallel GC | `sm/GC.c`, `sm/GCUtils.c` | `gc_running_threads`, `wakeup`, spin locks, todo blocks | wake, scavenge, steal, idle, stop | no thread stops while work is left |
| compaction | `sm/Compact.c` | threaded pointers, mark bits | thread, unthread, update, move | the same graph, without holes |
| memory | `sm/BlockAlloc.c`, `MBlock.c`, `posix/OSMem.c`, `win32/OSMem.c` | free lists, megablock map and cache | allocate, free, coalesce, release | nothing handed out twice, lost or miscounted |
| storage manager | `sm/Storage.c` | nurseries, large and pinned blocks, exec pages, limits | allocate, heap check, count, resize nurseries and generations | each word allocated once and counted; sizes within the limits |
| sparks | `Sparks.c`, parts of `Schedule.c` | a pool per Capability, counters | par, find, run, prune, discard | every spark created is accounted for once, and kept while it is worth it |
| tables | `Hash.c`, `Stable.c` | buckets; stable pointer table | insert, remove, split; get, free, update after GC | maps; stable names identify objects |
| linker | `Linker.c` | symbol table, object list | load, resolve, unload, look up | table, list and answers agree whatever fails |
| interpreter | `Interpreter.c` | stack, BCO, position | instructions, apply, return, break | interruption does not change the answer |
| retainer profiler | `RetainerProfile.c`, `RetainerSet.c` | traversal stack, retainer sets, flip bit | push, pop, traverse | what the traversal follows is visited, no retainer recorded that is none |
| cost centres | `Profiling.c`, `Proftimer.c` | tree of cost-centre stacks, `indexTable`, ticks | push, enter a function, tick, report | one stack per sequence, entering as documented (both with exceptions, see findings), no tick lost |
| heap census | `ProfHeap.c`, `LdvProfile.c` | censuses, counters, the LDV word of each closure | create, use, die, census, report | each sample says what was live and what it did |
| event log | `eventlog/EventLog.c`, `Trace.c` | a buffer per Capability, the file | post, flush, fork, finish | a readable file with each event once |
| options | `RtsFlags.c` | flags, argument vectors | set up, process, check | the last option wins, none that is not allowed |
| GUM | `parallel/HLComms.c`, `Pack.c`, `Global.c`, `RBH.c` | heaps of processing elements, global addresses with weights, messages | FISH, SCHEDULE, ACK, FETCH, RESUME, FREE | weights conserved, no thunk duplicated, nobody forgotten |
| system manager | `parallel/SysMan.c`, `LLComms.c`, `ParInit.c` | table of processing elements, counts of arrived and finished ones | spawn, ready, finish, new hosts | all start with the same table and end |
| GranSim | `parallel/GranSim.c`, `Pack.c` | event queue, simulated processors and clocks, fetches and fishes outstanding | one handler per event, enter, block, update | time goes forwards, each thread is in one place, nobody is forgotten |
| event loops | `posix/Select.c`, `Signals.c`, `win32/AsyncIO.c`, `IOManager.c`, `WorkQueue.c` | blocked and sleeping queues, pending handlers; request and completion tables | await, wake, handle, submit, complete, abandon, shut down | no request or signal lost or served twice, no delay ended too early; requests, delays and descriptors served in the end |

How they interact. Haskell threads run on a Task (an OS thread) that owns a
Capability. A Task gives up its Capability when its thread calls C, when the
thread at the head of the run queue is bound to another Task, when others wait to
return, or when somebody stops the world. Capabilities talk through inboxes: a
wake-up from STM, an MVar or a black hole, a migration and an exception for a
thread elsewhere are messages (`MSG_TRY_WAKEUP`, `MSG_BLACKHOLE`, `MSG_THROWTO`). STM locks
TVars by storing the transaction record in them, and locks TSOs when it wakes them;
`throwTo` locks messages, and for a thread in STM the TSO and then the TVars. Each
Capability has a spark pool, a work-stealing deque; the parallel GC uses the same deque
for blocks. The collector runs with the world stopped, and takes its memory from the block allocator,
which takes it from the megablock layer.

What is hard here. (1) Lock-free accesses: the deque, STM's reads and version
checks, black-holing. (2) Sleeping and waking: condition variables with a sticky flag,
spurious wake-ups, queues a sleeper removes itself from, wake-ups sent as messages that
arrive late. (3) Fields of one Task changed by another while it wakes up
(`task->cap` when its bound thread is pushed away). (4) Stopping the world, when
several ask for it at once, and shutting down. (5) Unwinding nested transactions and
evaluations by retry, by exceptions from inside and from outside. (6) Deciding that no
work is left: GC threads that come and go. (7) Pointers from old to young objects, weak
pointers and threads that come back to life. (8) Tables that must agree after an operation
failed half-way. (9) Messages that arrive in any order. `PROJECT.json` lists these one by
one under `hazards`, with the line where each bites.

## Modules and how they correspond to the code

| module | models | one action is |
|---|---|---|
| `WSDeque` | `rts/WSDeque.c` | one access to a word shared by owner and thieves |
| `Deque` | what the deque promises: a bounded double-ended queue | one operation |
| `STM` | `STM.c` with fine-grained locks, the STM frames of `PrimOps.cmm` and `Exception.cmm`, the validation in `Schedule.c`, `throwTo` to an STM thread in `RaiseAsync.c` | one access to a shared word (`current_value`, `num_updates`, a TSO lock) |
| `Capability` | `Capability.c`, the loop of `Schedule.c`, `Task.c`, `sendMessage`, `exitScheduler` | one critical section of `cap->lock` or `task->lock`, or one step of the Task that owns the Capability |
| `ThrowTo` | `throwTo`, `throwToMsg` and the messages of `RaiseAsync.c`, masking in `Exception.cmm`, the MVar operations of `PrimOps.cmm`, `executeMessage` | one critical section of a message or of the MVar, or one step of the scheduler |
| `MVarSpec` | what an MVar promises: a cell with one queue of takers or putters | one operation |
| `BlackHole` | entering thunks (`CgClosure.lhs`, `StgMiscClosures.cmm`), `threadPaused`, `messageBlackHole`, `updateThunk`, blocking queues, frozen evaluations, CAFs | one access to the info pointer or the indirectee of a closure, one message |
| `Heap` | the mutator's write barriers and a collection: `GarbageCollect`, `evacuate`, `scavenge_*`, `traverseWeakPtrList`, CAFs | one operation of the program; evacuation and scavenging of one object; one stage |
| `ParGC` | the GC threads: `gcWorkerThread`, `scavenge_until_all_done`, `steal_todo_block`, wake-up and shut-down | one access to a shared word, spin lock or deque |
| `Compact`, `RtsInputs` | `sm/Compact.c`; small heaps to run it on | one object of one pass |
| `BlockAlloc`, `MBlockMap`, `OSMem` | `sm/BlockAlloc.c`, `sm/MBlock.c`, the two `OSMem.c` | one call |
| `Storage` | `sm/Storage.c`, the sizing of generations in `sm/GC.c` | one allocation, a collection, the end |
| `Sparks` | `Sparks.c`, the finding of sparks in `Schedule.c` | one operation on a pool, one round of a search, a collection |
| `Hash`, `Stable` | `Hash.c`, `Stable.c` | one call; a collection |
| `Linker` | `Linker.c` | one call, with the place where it fails |
| `Interp`, `RtsInputs` | `Interpreter.c`, `Apply.cmm`; small programs | one instruction, return or application |
| `Retainer`, `RtsInputs` | `RetainerProfile.c`, `RetainerSet.c`; small heaps | one round of the traversal loop |
| `CostCentres` | `Profiling.c`, the profiling tick of `Proftimer.c` | one look into a table, one critical section of `ccs_mutex`, one tick, the report |
| `HeapCensus` | `ProfHeap.c`, `LdvProfile.c` | the creation, use or death of a closure, a collection with or without census, the end |
| `EventLog` | `eventlog/EventLog.c`, the calls of `Trace.c` and `Schedule.c` | one event, flush, fork or end of one process |
| `RtsOptions`, `RtsInputs` | `RtsFlags.c`; command lines | the processing of one option, one stage of `setupRtsFlags` |
| `GUM` | `parallel/HLComms.c`, `Pack.c`, `Global.c`, `RBH.c`, `FetchMe.hc` | the handling or sending of one message, one step of a thread, a local collection |
| `SysMan` | `parallel/SysMan.c`, and what `LLComms.c` and `ParInit.c` say to it | the handling of one message by the manager or by a processing element |
| `GranSim`, `RtsInputs` | `parallel/GranSim.c`, bulk fetching in `Pack.c`, `RBH.c`; small programs | the handling of one event, one step of the thread that runs |
| `AsyncIO` | `win32/AsyncIO.c`, `IOManager.c`, `WorkQueue.c`, `ConsoleHandler.c`, `AwaitEvent.c` | one critical section, semaphore operation or event |
| `Select` | `posix/Select.c`, `Signals.c`, the deadlock detection of the unthreaded scheduler | one system call, signal or thread step |
| `MCWSDeque`, `MCSTM`, `MCCapability`, `MCThrowTo`, `MCBlackHole`, `MCHeap`, `MCParGC` | instances of one module for TLC | |
| `MCRts`, `MCRtsLive` | instances of the modules that stand alone, one of them (`part`) in each behaviour, and the conjunctions of their properties | |
| `WSDequeProofs`, `ParGCProofs`, `SetInduction`, `STMSteps`, `STMProofs`, `STMWaiting`, `CapabilityProofs` | [proofs](#proofs) | |

Variables carry the names of the fields and actions the names of the functions
or of their steps; the exact lines are in the `map` of `PROJECT.json`. Operators whose
name says what is wrong with them (marked *Mutant* in their comment) are the
plausible bugs that `mutants` puts in the place of a definition, to see that the property notices.

**WSDeque.** The owner alone writes `bottom`, `topBound` and `elements`, so its
reads of them are joined with the next shared access; everything else is a step
of its own, including the two reads of `looksEmptyWSDeque` in the retry loop of
`stealWSDeque`. `t`, `b` and `val` are the locals. `pushed` and `taken` are history
variables. Indices are integers: the signed reading of the 64-bit words, which the
pruning of spark pools keeps small. Memory is sequentially consistent, as the
barriers in the code ask for; a missing barrier could not be seen here.

**STM.** A thread has a nest of transaction records, a list of `orElse`/`catchSTM`
frames and a program counter inside the operation it is in. `current_value` holds
a value or the thread whose record has locked the TVar. What happens while a TVar
is locked, or on one thread's own records, joins a neighbouring action.
`StartTransaction`, `ReadTVar`, `WriteTVar`, `StartNested`, `Return`, `Retry`, `Throw`
and `Yield` are the body; `ValidateEntry`, `ReadVersion`, `Recheck`, `Revert` are
`validate_and_acquire_ownership`; `CheckReadOnly`, `Decide`, `Update`, `UnparkWaiter`,
`UnparkTSO`, `BumpVersion`, `StoreValue` the commit; `MergeEntry` the nested commit;
`Wakeup`, `Resume`, `UnwatchLock`, `UnwatchUnlock` waiting and its end; `ThrowTo*` an
asynchronous exception on the target's Capability. Each thread has a Capability of
its own, the placement with the most concurrency, so every wake-up is a message.
`heaps`, `since` and `committed` are history: the heap after each commit decision, when
an attempt began, and what each committed transaction read and wrote. A scenario
says what each thread's transactions may write and do, how deep they nest and who is
uninterruptible; it is chosen in the first state and never changes.

**Capability.** `task[k]` has the fields of `Task` (`cap`, `wakeup`) and the locals of
the C functions it is in: `at` (the `cap` of `schedule`), `on` (the `cap` of
`waitForReturnCapability` and `yieldCapability`), `i` and `held` (the loops over all
Capabilities), `then` (where it returns to). `releaseCapability_` and `NextOwner` give the
decision whom to pass a Capability to, used by every release. A Haskell thread is what
the scheduler sees of it: it yields, blocks, wakes, forks, calls C, asks for a GC or
finishes. `Worker` is a set of names for the workers that `startWorkerTask` may create; a
stopped worker's name is used again. A `Syncer` is a Task of `performGC` or `forkProcess`, an
`Exiter` one of `hs_exit`. `SkipInbox` is the failed `TRY_ACQUIRE_LOCK`, `SpuriousWakeup` what
POSIX allows a condition variable to do. A collection is asked for by a thread (`gc`), by one that
overflows the heap (`overflow`, after which `Synced` collects once more, interrupts the scheduler and deletes the
threads), or by `scheduleProcessInbox` itself (`InboxGC`: the nursery is full). `LastCap` is what `task->cap` may be
when a Task that had one before calls in. A Task that wakes up from the GC of its inbox on another
Capability is `stray`: the loop of the code goes on with the old one, and the model stops the
Task there (findings). The test and the setting of `sched_state` in `exitScheduler` are one step.

**ThrowTo.** Threads run small programs of MVar operations, `throwTo`, `mask`, `catch`. A
message is a record with its info pointer (locked, live or revoked), which is what
`throwToMsg` and `executeMessage` fight for. `fate` and `raised` are history. The MVar is the
closure with its queue of nodes; the mapping to `MVarSpec` takes the nodes that are neither
indirections nor revoked (`Waiters`). `GarbageCollect` shorts out the indirections.

**BlackHole.** A closure has `info` and `ind`; a thread a stack of update frames and the
closure it enters. Entering, pausing (`MarkFrame` to `SetBlackHole`), updating
(`updateThunk`, `write_ind`, `write_info`, `updated`) and blocking (`messageBlackHole`) interleave at
each access. `FreezeFrame` is `raiseAsync`, also when `threadPaused` suspends duplicate work.

**Heap.** An object has a kind, fields, the generation it is in, the one it goes to, and the
mark of its header (CLEAN, DIRTY). A pointer is an object and the place it was at when
the pointer was written (`at`), so a pointer that a collection failed to
update shows. The actions of `Mutator` allocate, write through the write barriers, update
thunks, freeze and thaw arrays, make weak pointers, fork and block threads; `BeginGC` starts a
collection of some generations, then `ScavengeMutable`, `MarkRoots`, `ScavengeObject`,
`ScavengeStatic`, `TraverseWeakPtrs` and `TraverseThreads` go on until nothing is left to do, and
`EndGC` frees the dead and schedules finalizers and resurrected threads.

**ParGC.** `pc`, `wakeup`, `gcSpin` and `mutSpin` are the hand-shake, `todo`, `scan`, `queue`,
`overflow` where a thread's unscavenged objects are, `running` is `gc_running_threads`,
`copied` what has been evacuated. `any_work` looks at one queue at a time. `HeapOverflow` is the second call of
`GarbageCollect` in `scheduleDoGC`, for which nobody waits for the threads that were released; it ends in `Barf`, and the process
with it. A released thread may ask for a collection of its own meanwhile, which does not come about.

**The parts of `MCRts` and `MCRtsLive`.** `Linker` has the hash table, the list of objects and
archives, and a failure at every place that returns 0; the encoding of relocations is
reduced to whether they apply. `BlockAlloc` has block descriptors with head, tail and
free-list links, in units of blocks and megablocks. `OSMem` has what the operating system
has given. `Compact` threads the pointers to an object through its header. `Interp` has words
on the stack, as the C code does. `Retainer` has the explicit stack of the traversal and the
flip bit. `Stable` has entries, the hash from address to entry, and objects that move.
`CostCentres` numbers stacks as they are created; a Capability that pushes looks into the table,
takes the lock and adds to it in separate steps. `HeapCensus` has closures with the era
of creation and last use, and the counters of each census; the history of a closure says
what the counters should be. `EventLog` has buffers of 90 bytes, events with sizes, and the file
as a sequence of blocks. `RtsOptions` has options as records (letters and a number) instead
of strings, the flags, and the three sources in the order of the code.
`GUM` has closures, FetchMes and revertible black holes on each processing element, the table of
global addresses, and one channel per pair of PEs in which messages do not overtake.
`SysMan` has the manager's table and counts, the position of each processing element, and channels between them;
a processing element may join late on a host that is added. `GranSim` has the queue of events
in the order of their times, with simulated processors that have a clock, a run queue, sparks and counts of what is
outstanding; the costs of the parameters are small numbers. `Storage` has nurseries as chains of block
groups, and words that are allocated, counted and limited; `nat` arithmetic is modulo `NatRange`. `Sparks` has
the pools as bounded sequences (`WSDeque` says what they promise) and the counters, with closures that are
evaluated, collected or static when a collection prunes the pools.
`AsyncIO` and `Select` have the main thread's position, the tables, and the environment
(requests complete, descriptors become ready or bad, signals and ticks arrive) at any time.

## Runs

All passing runs explore the whole state space. Deadlock is checked where an operation can
always start (`wsdeque`, `heap`, `pargc`); in the others threads finish, so a final state
is not an error (`CHECK_DEADLOCK FALSE`), and what must not get stuck is stated as liveness, as
`HandedOver`, `NoLostWakeup`, `NobodyWaitsInVain`, `Promise` or `Awaited`. Where the code does not keep what
a property says, the property excepts exactly that case, by a named definition, and the finding is
listed below; next to it stands the property without the exception, which TLC refutes.

| run | instance | checks |
|---|---|---|
| `wsdeque` | 4 slots, 5 elements, 2 thieves | `ExactlyOnce`, `NothingLost`, `IndInv`, `Linearizable` |
| `stm` | 2 or 3 threads, 2 TVars, five scenarios: commits; nesting of depth 2 by `orElse`, then by `catchSTM` in an uninterruptible thread, with exceptions from inside and outside; a reader against commits that bring an old value back; a thread that waits for two others and is thrown at | `Consistent`, `LocksRestore`, `SnapshotIsolation`, `NoLostWakeup`, `ReadSetKept`, `SleepersWake` |
| `cap` | 2 Capabilities, up to 4 workers, at most one spare, eleven scenarios of an in-call, up to 2 unbound threads, `performGC`, `hs_exit`, with `forkOn`, C calls, GC requests, a GC in the middle of an inbox, a heap overflow, blocking, spurious wake-ups | `Ownership`, `HandedOver`, `Placed`, `ShutDown` |
| `cap_live` | 2 Capabilities, 2 workers, at most one spare, three scenarios: `forkOn` and blocking; `performGC` against GC requests and C calls; `hs_exit` against a C call | `RunnableRuns`, `CallsReturn` |
| `throwto` | 2 Capabilities, up to 4 threads, five programs: a duel, a ring, a masked taker, three waiters, nested masking | `ThrowToOnce`, `OnePlace`, `NobodyWaitsInVain`, `Stops`, `MVarRefinement` |
| `blackhole` | 2 Capabilities, 3 threads, two thunks of which one needs the other, or a CAF; lazy, eager, thrown at | `Promise`, `NoDuplicateWork`, `Finishes` |
| `heap` | 4 objects and a CAF, 3 generations, 3 operations, 2 collections, six initial heaps | `HeapSound`, `Invisible`, `KeepsTheLiving`, `Progresses` |
| `pargc` | 3 threads and 1 collection, or 2 threads and 2 collections, each with a heap overflow or without; 5 objects, queues of one block | `Complete`, `RunningIsCounted`, `HandshakeSound`, `FewEnd` |
| `rts` | linker, block allocator, megablocks on both systems, megablock map, compaction, retainers, interpreter, hash table, stable names, options, event log, cost centres, heap census, storage manager, sparks, GUM, system manager, GranSim | `CodeSound`, `StorageSound`, `TraversalsSound`, `GumSound`, `StartupSound`, `ReportsSound` |
| `rts_live` | asynchronous I/O on Windows with 2 workers, a queue and a table of 2, and console events; signals, delays and descriptors on POSIX with 2 threads, a clock that wraps around | `IOSound`, `IOServed` |
| `stm_write_skew`, `cap_exit` | see [findings](#findings) | expected violations |

What the properties say:

* `ExactlyOnce`, `NothingLost`: no element is returned twice, or without having been
  pushed; every accepted one is returned, in the deque, or won by a pop about to
  return it. `Linearizable`: every step is a step of `Deque` or none. A pop counts when its
  CAS succeeds, or when it reads `top` if more than one element is left; a steal at its
  CAS; a push when it stores `bottom`. Until then the deque is taken to reach up to
  `LogicalBottom`, one above the `bottom` that the pop has decremented as a test.
* `LocksRestore`: whoever holds a TVar will put back what the committed transactions
  have left there, and a TVar nobody holds contains just that. It is about every way out of
  validation, commit, waiting and exceptions at once.
* `SnapshotIsolation`: what a committed transaction read was all there at one instant of
  its run, and what it updated had not changed since. This is what fine-grained
  commits give; serialisability they do not (below). That one committed state shows
  everything a transaction read is stated for scenarios where every committed value is new.
* `NoLostWakeup`, `Consistent`, `SleepersWake`: a thread asleep on a TVar that changed has a
  wake-up on its way or the committing thread has yet to send it; it is in the
  watch queues of what it waits for, once, and in no other; it runs again, its transaction or the
  handler of an exception, unless a `LockCycle` (findings) comes about; each frame of
  a nested transaction has its record. `ReadSetKept`: what a branch read stays in the read
  set when the branch is given up.
* `Ownership`: a Capability belongs to the Task whose position in the code says it owns
  it and to no other, and a Task in the scheduler has its `task->cap` right, even
  if its bound thread was pushed to another Capability while it woke up. The exception is a Task
  that went astray in its inbox (`Astray`), and the property says that only a bound one can.
  `HandedOver`: a free Capability with returning Tasks, threads or messages has been
  given to a Task that is awake or will be. `Placed`: a sleeping Task is in the one queue
  its waker reads, a Haskell thread is in one place, and a bound thread's Task waits where
  the thread is. `ShutDown`: after the final GC nothing is left on a Capability that is
  freed, and nobody uses it. `RunnableRuns`, `CallsReturn`: threads run, Tasks that return
  from C get in, `performGC` and `hs_exit` return; the exceptions are a Task of either that is
  `TakenForWorker`, and for `hs_exit` a thread that `Lingers`, which `cap_exit` is about.
* `ThrowToOnce`, `OnePlace`, `NobodyWaitsInVain`, `Stops`: each exception is raised once, or
  never if its `throwTo` was interrupted; a thread is in one place however many wake-ups are
  sent; the thrower, the target and the queue of the MVar are known to whoever must go on for
  them; no two Capabilities retry for ever. `MVarRefinement`: every step is one of `MVarSpec`.
* `Promise`: "we promise to send a MSG_TRY_WAKEUP at some point in the future". `NoDuplicateWork`:
  of two stopped threads only one goes on with a thunk. `Finishes`: each gets its value.
* `HeapSound`: no dangling pointer, every pointer from an old generation to a younger one
  remembered, every thread listed. `Invisible`: no step of a collection changes what the
  program can see. `KeepsTheLiving`: exactly the dead are finalized, and a major collection
  keeps nothing else. `Progresses`: each step of a collection leaves less to do.
* `Complete`: when the main GC thread stops, everything reachable has been copied and
  scavenged. `RunningIsCounted`: the count of running threads is right at each instant.
  `HandshakeSound`: no thread is found in the wrong state, none is left in the collector, except by the second
  collection after a heap overflow, which always fails (`SecondBarfs`). `FewEnd`: a collection ends or barfs.
* The properties of `MCRts` and `MCRtsLive` are conjunctions of named parts, each with
  its comment there and, where the code falls short, its exceptions; all of these are under findings.
  `CodeSound`: linker and interpreter, except for local names of unloaded ELF objects and archives
  of which two objects are listed. `StorageSound`: memory and the tables that name objects, the
  storage manager with its sizes and counts, except where shrinking a nursery fails and after an object has got two
  stable entries. `TraversalsSound`: compaction keeps the graph; retainer sets have no wrong retainer, and the right ones in a
  heap without cycles, except for what `retainSRT` misreads. `GumSound`: GUM, GranSim (except RBHs that were overwritten and fish
  to oneself), and the sparks with their counters (except living ones that pruning is `Mistaken` about). `StartupSound`: the
  flags a program runs with are what its options say, and it runs only if they
  are allowed and sound; the processing elements that were asked for get one table, and none ends before its time. That each of
  them ends is said only with the exceptions of `EndsForAll`, and nothing of the table of one that joins later. `ReportsSound`:
  an event log can be read block by block and has each event once; the stacks of cost centres form a
  tree and the report has every tick; a sample of the heap profile agrees with what the closures counted in it did before and
  after. Excepted are stacks made by two Capabilities at once, function stacks of one cost centre, and samples with messages.
* `IOSound`, `IOServed`: requests and caught signals are neither lost nor served twice, requests are done in
  order, no delay ends early; requests, delays and descriptors are served in the end, and a signal that comes just before `pause`.
  That every signal is served in the end is not claimed: it is false (findings).

Why these bounds. Four slots hold three elements, and five pushes go once around the
array and use the first slot a second time: the case of the delayed thief whose
slot was overwritten. Two thieves allow thief against thief against owner. Two threads and
two TVars are the least at which reads can be torn, locks taken partially and waits be on
several queues; the third thread, where there is one, gives a waiter that two others
wake while an exception is thrown at it. In the nested scenarios
each thread writes one TVar and reads the other's, so each invalidates the other's
branches. Two Capabilities are the least at which threads migrate; `Worker` bounds the
workers alive at once (a release that needs one more cannot happen; in the liveness run
that would show as a failure); one spare worker makes the limit `MAX_SPARE_WORKERS` (6 in the
code) bite, in `cap_live` for a `performGC` and an `hs_exit` too. That a Task goes astray takes 47 steps, too many for a
scenario without restriction: the constraint `Unswerving` cuts the one scenario `Strays` to the behaviours that
lead there, and touches no other. Four threads on an MVar give a queue with a middle. Three threads on two
Capabilities give a duplicate evaluation, its owner elsewhere, and a waiter. Three
generations tell "older" from "oldest"; two collections show what the first has left to the
second. Queues of one block overflow at the second. A hash table that splits has segments
of two buckets. GUM with full weight 16 runs out of weight within the bound, so that
new global addresses are made. Command lines have up to four arguments, with every option from each of
the three sources in three builds, and the pairs that undo one another. Buffers of
the event log fill up after a few events; cost centres are pushed up to four times, so that a
stack comes back to one of its own; three collections and four eras let a closure be created, used and
die in different censuses, and make the list of censuses grow. In GranSim three
processors evaluate graphs of up to five closures, with each of the fetching strategies; `SysMan` has up to
three processing elements, one that fails and one on a host that is added. The queue and the table of `AsyncIO` hold two requests,
so that they are filled and go around; the clock of `Select` has 8 values of 2 ticks each and wraps around after two of them. Nurseries of a few blocks make a heap check and a large object meet the end of the nursery; a
`nat` has 16 bits, which is far above every size of the instance. The liveness runs have no symmetry reduction; `wsdeque`
also identifies states that differ only in locals no longer read (its view `LiveState`).

## Fairness

`STM!FairSpec`: weak fairness of the steps of each thread inside an STM operation (its Task is running), a
`throwTo` to it that has begun included, and of the reading of each Capability's inbox. Nothing is assumed about the bodies of transactions: a
thread may sit in its transaction for ever.

`Capability!FairSpec`: a Task that can take a step takes it (weak fairness of `Step` for each); C calls return, where the
exiter waits for them; `ProcessInbox` of workers and in-calls, who alone run the loop, has strong fairness, because `cap->lock` is held for a
few instructions only, so that a scheduler that tries again and again
(`TRY_ACQUIRE_LOCK`) gets it in the end. `CallIn` has no fairness: nobody has to call in.
Spurious wake-ups are left out of the fair specification, since liveness must not depend on
them, and are part of `Spec`, under which safety is checked. The number of operations of
each thread is bounded, so that fairness between Haskell threads, which the round-robin run
queue gives, is not assumed.

`ThrowTo!FairSpec`: a Capability with something to do is run, and a spin lock (of a message or the
MVar) that is free again and again is taken at last: strong fairness of its steps, and
of reading the inbox. `BlackHole!FairSpec`: weak fairness of each Capability's steps, strong
fairness of reading the inbox, for the same reason as above. Neither preemption nor
exceptions are fair: nobody has to send one.

`MCParGC`: each GC thread goes on; for two threads, where the state graph is small enough.
`MCRtsLive`: the main thread and the workers go on, and the clock ticks. That a request is
completed by its worker is a step of the worker; that a descriptor becomes ready is not assumed.

## Findings

Two runs are expected to fail; each shows the code doing something other than what a
comment in it says.

1. `stm_write_skew`: `check_read_only` (STM.c:866) compares only versions. A TVar that
   another transaction has locked for an update it has yet to count passes. Of two
   transactions that read each other's targets both commit, so commits are not
   linearization points. The comparison with `current_value` that would refuse this
   is there, commented out. By the same line a read-only transaction can see the first of two
   TVars that another commit updates in its new state and the second in its old
   one, if the old values come back later: a reader against five commits
   `tv1:=1; tv2:=1; tv2:=0; tv1:=0; {tv2:=1, tv1:=1}`.
2. `cap_exit`: a thread that comes back from C after the final GC and then blocks keeps its
   Task, which is bound to it, in the loop of `schedule()`: `scheduleYield` does not yield, the run queue is empty,
   and `shutdownCapability` waits for the Capability. "eventually all Capabilities will
   shut down, and the RTS can exit" (Schedule.c:266) fails.

Met while modelling, without a run of their own. Names in brackets are definitions of the modules: an
exception that a property makes, or a property without it that TLC refutes on the instance (or the scenario) named.

* STM: an exception out of an `orElse` inside a `catchSTM` aborts one record, though two are left
  (`raiseExceptionHelper` steps over the `orElse` frame), and the handler then runs in the
  record of the `orElse` (scenario `Raises` of `MCSTM`, `FramesMatchNest`). For this reason no
  thread of `stm` both uses `orElse` and raises exceptions.
* STM: a commit holds a TVar and wants a waiter's TSO lock; `throwTo` to that waiter holds the TSO
  lock and wants the TVar: both spin (`LockCycle`, which `SleepersWake` excepts; `NoLockCycle` is refuted in the
  scenario `LockCycles`, and in `Three` of `stm`). A relative: `watcher_is_tso`
  (STM.c:350) reads the header of a waiter without its lock. While `throwTo` holds it the
  header is not a TSO's and the commit passes the waiter over; if the waiter is
  uninterruptible the exception is only queued, and the wake-up is lost.
* Capability: a Task of `performGC` or `forkProcess` that yields to another request counts as a
  worker (`!isBoundTask`), sleeps among the spare workers of its Capability, and nothing
  wakes it when that Capability is released with nothing to do; with `MAX_SPARE_WORKERS` others there
  its OS thread is even ended (Capability.c:544). One such Task, or `hs_exit`, and a GC that a Haskell thread asks for
  are enough (`TakenForWorker`, which `SyncReturns` and `ExitServed` except). The
  comment at Capability.c:482 says that no new worker is created during the shutdown; one is if
  the run queue is not empty.
* Capability: `scheduleProcessInbox` calls `scheduleDoGC` when the nursery is full (Schedule.c:979-982) and puts the
  Capability it returns into its own variable only. A bound Task whose thread was moved while it yielded to
  another's collection comes back with another Capability; `schedule()` goes on with the old one, which it no longer owns (`Astray`;
  `NeverAstray` is refuted in `Strays`). That a worker always gets its Capability back is part of `Ownership` and proved.
* ParGC: after a heap overflow `scheduleDoGC` deletes all threads and calls `GarbageCollect` again (Schedule.c:1571-1586)
  with the `gc_type` of the first time. If that was a parallel collection, its threads have been released and nobody waits for
  them to stand by: `wakeup_gc_threads` barfs (GC.c:1160), so a parallel program that exceeds `-M` dies of an internal error
  (`BarfUnreached` is refuted, `SecondBarfs` says that it is always so).
* Heap: `isAlive` (GCAux.c:32) follows an indirection but not an updated black hole. A weak pointer
  whose key is a thunk that was evaluated meanwhile is finalized though the value is
  reachable, which Weak.c:66 rules out (`LazyStart` of `MCHeap`). `heap` has no such key.
* ParGC: GC.c says "The other threads are now stopped" where a worker that saw a block may still
  count itself in; `Complete` shows that this is harmless.
* BlackHole: with eager black-holing two stopped threads can both evaluate a thunk (the
  interleaving described in ThreadPaused.c for ticket 5226).
* Linker: when two members of an archive are listed, `unloadObj` (Linker.c:2389) reads the `next` of an object it has freed and
  leaves the freed one on the list: after that nothing is claimed (`NothingFreedIsListed`). It also removes names that an ELF object kept to
  itself and that another object may define (`LostNames`). An object stays on the list when its
  verification fails (2132); REL relocations are applied a second time if `resolveObjs` is called again after a failure.
* Memory: `win32/OSMem.c` says that neighbouring free blocks are merged, which
  `findFreeBlocks` does not do (`FreeMerged` of `MCRts`); `osReleaseFreeMemory` there drops a record.
  `getFirstMBlock` looks at the first map only on 64-bit machines.
* Retainers: `retainSRT` (RetainerProfile.c:1223-1252) follows `*srt` for every bit of a small SRT, that is its first entry
  each time: what hangs off another entry is not reached, and what hangs off the first gets a retainer even if its bit is not
  set (`Misread`, `Unmentioned`; `EveryReached` is refuted). Besides, the users guide (profiling.xml:894) describes sets that the
  traversal does not always compute, because an object whose set does not change is not followed again (`RetainersExact`).
* Stable: an object can get two entries, by a stale `old` field or when an object with an entry is updated with
  another that has one. `removeHashTable` then removes the one inserted last, and `lookupStableName_` may hand out an entry that is on the free list
  (`spoilt`, "shared"). An entry that is freed when the free list is empty looks to `updateStablePtrTable` like one
  whose object died, and it removes what the hash table has for that address by then ("freed last"). Stable.c:85-87 promises the
  same name for every call; the properties hold until one of the two happens. Entries of
  unreachable names that were resized are kept (`EntriesReclaimed` is refuted).
* Options: the header of the ticky report is written to the file of the statistics
  (RtsFlags.c:554); sizes of `-A` and numbers of generations are truncated to 32 bits; a negative `-e` passes.
* Event log: a write that fails leaves the buffer full, and the next event goes past its end; the
  child of a fork has buffers for as many Capabilities as it was started with; a block in the
  buffer of a new Capability has no marker until its first flush.
* Cost centres: `pushCostCentre` checks the table "again" under `ccs_mutex` (Profiling.c:532), but
  the table it read before: two Capabilities make two stacks of one sequence (`stale`; `CheckedAgain` is refuted). The comment's
  `<a,b,c> ++> <d> = <a,b,c,d>` (Profiling.c:316) is not what "common case 2" (365) below it does: a function stack of one cost centre is
  not pushed (`JustOne`; `EnteredAlways` is refuted). `mem_alloc` is updated without a lock.
* Heap census: `doneWithMsgThrowTo` records the death of a message, which is inherently used, against
  ProfHeap.c:172, so that it is counted as void too (`Messages`; `NotInherent` is refuted). `ASSERT(void_total < not_used)`
  (ProfHeap.c:197) is strict and does not hold when all unused closures of a census die unused (`VoidIsLess` is refuted). `LdvCensusKillAll`
  meets only the nurseries and large objects, although its comment says every closure.
* GUM: two PEs can fetch a thunk from each other in turn for ever. `splitWeight` outside DIST
  makes a second global address for a closure that has one.
* GranSim: `blockFetch` turns a revertible black hole into a BLACKHOLE_BQ and overwrites its queue, whose threads are
  dropped. With bulk fetching, a thunk that is travelling and is fetched by a second processor is never
  evaluated, which the comment on RBHs (RBH.c:155) rules out (`overwritten`; `RBHsKept` is refuted). "Find any PE other than proc" (`findRandomPE`) may return
  `proc`, and a fish to oneself never leaves `OutstandingFishes` (`strays`). Where `do_the_findwork` finds nothing its comment says that the
  processor becomes idle; only `Busy` is reset. The ASSERT on `event->spark` in `Fishing` fails for a local FindWork.
* System manager: `finishPE` clears the slot of the sender before it broadcasts, once, so the
  main processing element, and each that ends before it is told to, waits in `stopPEComms` for a PP_FINISH that nobody sends (`Forgotten`;
  `AllLeave` is refuted). A PP_READY of a processing element that fails has no flag, and `readyPE` reads one (`mistaken`: it may be taken for the main
  one). `nPEs = MAX_PES` passes `main` and is refused by `readyPE`. With words of eight bytes `getExitCode` takes no end for an orderly one. A processing
  element on an added host gets a table without itself, although SysMan.c:90-93 has it join (`InOwnTable` is refuted).
* Sparks: with a marked oldest generation `pruneSparkQueue` (Sparks.c:206-220) throws away every spark of a living old
  thunk as collected; in a minor collection it does so with living CAFs (`Mistaken`; `NoneLost` is refuted). A young closure that was
  evaluated is counted as collected, not as fizzled.
* Storage: `resizeNursery` writes through a null `next_bd` if a group of several blocks that is larger than the
  new size has become the last of its nursery (a heap check of two blocks under `-A4k`, then an
  `allocate` that takes what is after it, then a collection), and under `-G1 -M` if a Capability's
  share is 0 blocks. Under `-G1` the `long adjusted_blocks`, "signed on purpose", takes its value from
  unsigned 32-bit arithmetic and never is negative on 64-bit machines: a heap near its limit asks for a
  huge nursery. `AllocationSound` excepts these by name. The final report omits the words of the block of pinned objects.
* AsyncIO: `startSignalHandlers` returns at once if there is no handler (ConsoleHandler.c:176). `generic_handler` stays
  installed, so an event that it recorded before or after the handler was removed stays pending: `awaitEvent` returns for it with an empty
  run queue, which `schedule()` pops (`PopsThread` names this as the only case). A worker that Ctrl+C aborted waits for the end
  of a handler that may not come (`OwnAborted`, `NoWorkerLeft`). Requests of killed threads leave `issued_reqs` too
  high; `ShutdownIOManager` that waits can hang.
* Select: the sleeping queue is sorted by an unsigned comparison that ignores the
  wrap-around which Select.c:80-90 takes care of (`Lap`: `SleepersSorted` compares only sleepers on the same side of it). A signal that comes between the
  test and `select` waits for whatever ends `select`, since the timer is stopped (`SignalsServed` is refuted); one between the test and `pause()`
  (Signals.c:318) is served at the next tick of the timer (`PausedServed`).

## Proofs

Everything below is checked by TLAPS to the last leaf, for every value of the constants. The
assumptions are those of the component modules: `SizeAssumption` (an array has at least
two slots), `NullAssumption`, `OwnerAssumption`; `ThreadAssumption`, `ObjectAssumption`,
`BoundAssumption` (finite sets of threads and objects, the null values are none of them);
`ScenarioAssumption` and `ValAssumption` (a scenario has the right shape; a thread is
not a value of a TVar); and those of `Capability`: there is a Capability (`NCapsAssumption`), Tasks and threads are
finite sets, kinds of Tasks are disjoint and the null values are none of them (`FiniteAssumption`, `DisjointAssumption`),
there is a name for a worker (`WorkerAssumption`), and `MAX_SPARE_WORKERS` is not 0.

### The deque

`WSDequeProofs` proves, for every set of elements, every set of thieves and every size:
`IndInvCorrect`: `Spec => []IndInv`, and from it `TypeCorrect`, `ExactlyOnceCorrect`,
`NothingLostCorrect`, `OwnerAssertsCorrect`. `ExactlyOnce` is not inductive: it does not say why a
thief that has read a slot long ago may return what it read. `IndInv` adds

* `Bounds`: `topBound <= top <= LogicalBottom`, at most `Size - 1` elements between;
* `SlotsLive`: the slots in that range hold different elements, pushed and not taken;
* `OwnerInv`: what the owner's locals mean at each point of push and pop. In particular,
  between a pop's decrement and its CAS, `top` can pass the contested position only
  because a thief took that element;
* `ThiefInv`: a thief's `t` never exceeds `top`; if it still equals `top` at the CAS, the
  element it read is the live oldest one. If the slot was overwritten meanwhile, `top` has
  moved on and the CAS fails.

One lemma per action shows that `IndInv` is preserved (`PushStartInv` ... `StealCasInv`),
`IndInvNext` puts them together. That different live positions have different
slots (`SlotInj`) rests on an arithmetic lemma, `ModInj`, that two numbers less than
`Size` apart and equal modulo `Size` are the same.

The last part proves `LinearizableCorrect`: `WSDeque!Spec` implements `Deque!Spec` under the
mapping of `Linearizable`. `IndInv` gives what a CAS that succeeds has read; each action is
then a push, a pop, a steal or a stutter of the abstract sequence, which is shown to change at
one end only.

### The parallel collector

`ParGCProofs` proves `CompleteCorrect`, `RunningIsCountedCorrect` and `HandshakeCorrect` for any number
of GC threads, objects, children and roots and any size of the queues. The difficulty of
`Complete` is that `any_work` looks at one queue after the other and that a thread counts itself
in after it has seen work. The inductive invariant has these parts: the hand-shake
(`SyncInv`: what `wakeup` and the two spin locks are, given where main and the worker are),
counting (`CountInv`: `running` is the cardinality of the set of threads at certain positions;
`GreyInv`: only threads at their roots or in `scavenge_loop` have grey objects, or main behind a
weak pointer), the colours (`BlackInv`: what a copied object points to is copied or the object is
grey in some thread's blocks; `RootInv`: a thread past its roots has copied them), and
`DoneInv`: once main has converged, every thread is past its roots and nothing is grey, although a worker
may still count itself in for a block that is gone. `HandshakeCorrect` includes the second collection after a heap overflow: that
it fails at its first thread, whatever the others do meanwhile, follows from `SyncInv`, by which the `wakeup` of a released thread is
INACTIVE until somebody waits for it.

### STM

For any threads, TVars, transactions and depth of nesting.

* `SetInduction`: induction over the naturals stated with sets, which the provers can use where the
  library's theorems with an operator parameter cannot.
* `STMSteps`: what the operators on transaction records return, in particular the recursive functions
  that merge read sets; and for each action what it changes and what it needs.
* `STMProofs`: `IndInv` is `TypeInv` (types), `PlaceInv` (a thread's position, operation,
  records and frames fit together) and `LockInv`: an operation holds exactly the locks its
  progress says (`HeldInv`), each of them with an entry in its record (`EntryInv`), and whoever holds
  a TVar puts back what the committed transactions have left there (`HolderInv`). From it
  `TypeCorrect`, `LocksRestoreCorrect`, and `ReadSetKeptCorrect`, an action property.
  `LocksRestore` alone is not inductive: it does not say why a validation that fails
  half-way knows which TVars it has locked.
  Its second part proves `SnapshotIsolationCorrect`, from `SnapInv`: the history grows by the commits
  (`HistInv`, `CommittedInv`); whatever a record has read was in some heap since the attempt
  began (`ReadInv`); the heap at the start of the last validation shows all entries the
  validation has passed, since each was seen before and again after it (`ValidInv`); a version that was
  noted is not from the future, and while the TVar still has that version it contains
  the value, unless the new value is just being stored (`VersionInv`); and what a reader can have seen of
  a half-done commit (`TornInv`).
* `STMWaiting`: `NoLostWakeupCorrect`, `WatchQueuesCorrect` (a thread is in the watch queues of the TVars it
  waits for, once, and in no other) and `ConsistentCorrect`. `NoLostWakeup` speaks of sleeping threads only; the
  invariant has to say what holds at every step on the way there and back. `WaitInv`: the record of a thread is
  WAITING exactly at the positions between the decision of `stmWait` and the removal from the last queue. `WatchInv`:
  what the queues hold then, and while a thread removes itself from one after the other. `TSOInv`: a TSO is locked only by a `throwTo` that
  queues its exception or takes the thread out of its queues, so that a commit that passes over a locked TSO
  forgets nobody but a thread that masks exceptions or one that leaves. `SleepInv`, the core: what a thread asleep, or
  about to sleep, expects of a TVar is there, or the transaction that holds the TVar has yet to come to this
  thread in the queue, or a wake-up is in its inbox. A step of another thread can only take the first case to the
  second (the commit), and the second to the third (`UnparkTSO`); the thread's own steps keep it
  since it holds all its TVars when it enters the queues. `FrameInv` gives `Consistent`, for threads that do not raise
  exceptions in an `orElse` inside a `catchSTM` (`Plain`): for others it is false (findings).

### Capabilities

`CapabilityProofs`: `CapabilitiesAgree` (`Spec => []IInv`), and from it `OwnershipHolds`, `HandedOverHolds`, `PlacedHolds` and
`ShutDownHolds`, for any number of Capabilities, Tasks and threads and any of the scenarios' mixtures of
in-calls, collections and exit. `Ownership` says what `running_task` is for a Task whose position shows that it owns something.
It is not inductive: the loops of `acquireAllCapabilities`, `releaseAllCapabilities`, `schedulePushWork` and `hs_exit_` own
a set that grows or shrinks with their index, and a Task that wakes up finds its Capability in a field that
others have changed. `IInv` is `TypeOK` and

* `TasksInv`: the locals of a Task fit its position; `OwnInv`: `running_task[c] = k` exactly if `c` is in the set
  computed from `k`'s position and index (`OwnedOf`); `QueueInv`: `returning_tasks` and `spare_workers` hold exactly the
  Tasks asleep there, once;
* `SyncInv`: one Task at a time stops the world, and `pending_sync` says so; `FinalInv`, `DrainInv`: how far the exit is, and
  that the Capabilities before its index have no threads, spare workers or (if it waits for them) foreign calls;
* `ThreadInv`, `QueuesInv`: a thread is in the run queue or inbox its state says and nowhere else; `CurInv`: the thread of a Task
  and the Task of a thread agree; `BoundInv`: the Task of a bound thread waits where the thread is, through migration.

Each action is shown to keep the two halves apart: `TaskSide` from what it does to a Task, `ThreadSide` from what it does to a
thread. For a Task that goes astray `TasksInv` says what it owns instead; that it is a bound one rests on its part
`KeepsCap`: a worker that yields and is woken has the Capability it gave up, or ends. `HandedOver` then follows from the decisions of `releaseCapability_`, since every release goes through it.

`TypeInv`, `PlaceInv`, `LockInv`, `SnapInv`, the parts of `WaitsInv` and `IInv` were checked by TLC on the instances of
`stm` and `cap` before they were proved.

### Only model-checked

* Liveness (`SleepersWake`, `RunnableRuns`, `CallsReturn`, `Stops`, `Finishes`, `FewEnd`, `IOServed`): fairness and
  ENABLED are outside what the prover handles.
* `ThrowTo` (with `MVarRefinement`), `BlackHole`, `Heap`: no theorem yet. They use folds and filters over
  sequences, which the provers treat as opaque; what these compute needs an induction of its own each.
* The parts of `MCRts` and `MCRtsLive`: most use RECURSIVE operators, which rules out the SMT
  backend, or compute over data (a graph, a table, a program) by induction.

## What is not modelled

* STM: invariants (`stmAddInvariantToCheck`), the token batches that keep `num_updates` from
  wrapping during a commit, the coarse-lock and unthreaded builds, the re-use of records.
* Scheduler and Capabilities: `setNumCapabilities`, the idle GC and
  `prodCapability`, heap profiling, the child of a fork.
* Black holes: stack squeezing, thunks that depend on themselves (ticket 2783), the removal of
  indirections by the collector.
* Heap: sweeping, selector thunks, retained CAFs. Storage: `freeStorage`, the leak checks of the debugging
  system, and the estimate of live words.
* GUM: the distributed extension, partial applications and arrays. GranSim: GranSim Light, the moving of
  threads (`stealThread`, unreachable), what a collection does to the event queue. The scheduler loop it needs is not in
  the repository and is modelled from its use.
* Profiling: timing statistics (`Stats.c`), tracing as text, dtrace, the reports' layout.
* Start-up: one-shot initialisation, the usage text, the parsing of numbers.
* I/O: the threaded I/O managers, SIGINT and SIGTSTP.
* Weak memory: every module is sequentially consistent.
* Left out for good: the compiler (functional transformations), adjustors (machine code),
  the front panel, printers.

## Plan

Done: every module of the table above; the deque, the parallel collector, STM with its waiting, and the Capabilities proved.

Next: `ThrowToOnce` of `ThrowTo`, whose core is that a message is locked whenever its info
pointer changes; `Promise` of `BlackHole`; STM's invariants (`stmAddInvariantToCheck`).
