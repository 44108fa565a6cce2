-------------------------------- MODULE MCRts -------------------------------
(***************************************************************************)
(* Instances of the parts of the run-time system that do not share state   *)
(* in the model.  A behaviour is a behaviour of one of them, chosen at the *)
(* start; the variables of the others stay zero.                           *)
(***************************************************************************)
EXTENDS Integers, Sequences, FiniteSets, RtsInputs

CONSTANT Parts     \* the parts that are checked

VARIABLES part,
          platform, ocs, objects, symhash, dlls, linkRet, linkCalls, linkUp,
          bdesc, free_list, free_mblock_list, n_alloc_blocks, mblocks, held, allocUp,
          os, allocs, free_blocks, next_request, backed, given, returning, osUp,
          mblock_maps, mblock_cache, asked, answered,
          mem, marks, blocks, bfree, pass, scan, free, freeBd, before, moved,
          program, census, rs, flip, rstack, boundary, todoRoots, current, cframes, visited, rphase,
          prog, iheap, istack, isize, imode, iobj, ipc, iwhat, ibrk, iinterrupts, ianswers,
          dir, segs, hsplit, hmax, kcount, bcount, hfree, chunks, abstract, hserial, hret, freed,
          spt, sfree, shash, place, value, aged, sroots, sptrs, snames, sids, sgcs, spoilt,
          heap, gala, chan, sparks, pending, tso, fishes, sent, gcs, conf,
          gflags, sim,
          launch, sm, pe, toSys, toPE, exits, afloat, erred, mistaken,
          spools, spark_stats, search, sparkThread, closure, pgen, proots, gone, pars, pthreads, pgcs, sched_state, pqueue, lost,
          gcFlags, bd, nurseries, regs, gens, execs, heap_overflow, g0_pcnt_kept, how, quota, handed, counted, inUse, clash,
          rtsFlags, rts_argv, rts_argv_size, rts_argc0, rarg, rerror, prog_argv, opened, stage, started,
          ebuf, ncaps, stdio, disk, leaked, told, logging, failed, posted, serial, setup,
          ccs, rCCCS, pushing, entered, ticked, report, done, stale, scene,
          header, era, n_censuses, censuses, hp_file, profiling, collections, seen, uses, twice, prof

-----------------------------------------------------------------------------
(* The linker. *)

Body == [magic |-> TRUE, sections |-> TRUE, symtab |-> TRUE, odd |-> FALSE, defs |-> {}, weak |-> {},
         locals |-> {}, refs |-> <<>>, far |-> {}, imports |-> {}, unhandled |-> {}, wild |-> {}]

Object(body) == [name |-> "o", isObject |-> TRUE, body |-> body]
Text(name) == [name |-> name, isObject |-> FALSE, body |-> Body]

Path == {"a", "b", "c", "bad", "lib", "noindex", "fat", "wild"}

\* a and b refer to each other, c has a weak definition of what a defines and keeps a name to
\* itself that b defines; lib has an index, a member that is no object and two objects.
File ==
  [a |-> <<Object([Body EXCEPT !.defs = {"x"}, !.locals = {"l"}, !.refs = <<"l", "y", "r">>, !.far = {"r"}])>>,
   b |-> <<Object([Body EXCEPT !.defs = {"y"}, !.locals = {"l"}, !.refs = <<"x", "d", "y">>, !.imports = {"x"}])>>,
   c |-> <<Object([Body EXCEPT !.weak = {"x"}, !.locals = {"y"}, !.refs = <<"r">>, !.unhandled = {"r"}])>>,
   bad |-> <<Object([Body EXCEPT !.sections = FALSE, !.symtab = FALSE, !.odd = TRUE])>>,
   lib |-> <<Text("//"), Text("t"), [Object([Body EXCEPT !.defs = {"x", "z"}]) EXCEPT !.name = "/n"],
             Object([Body EXCEPT !.defs = {"w"}])>>,
   noindex |-> <<[Object(Body) EXCEPT !.name = "/n"]>>,
   fat |-> <<>>, wild |-> <<Object([Body EXCEPT !.refs = <<"r">>, !.wild = {"r"}])>>]

IsArchive == {"lib", "noindex", "fat"}
NotArchive == {"fat"}
RtsSym == {"r"}
LibD == [opens |-> TRUE, symbols |-> {"d"}, script |-> {}]
Dll == {LibD, [opens |-> FALSE, symbols |-> {}, script |-> {}], [opens |-> FALSE, symbols |-> {}, script |-> {LibD}]}
MaxObjects == 3
MaxLinkCalls == 5

L == INSTANCE Linker WITH MaxCalls <- MaxLinkCalls
linkerVars == <<platform, ocs, objects, symhash, dlls, linkRet, linkCalls, linkUp>>
linkerIdle == platform = 0 /\ ocs = 0 /\ objects = 0 /\ symhash = 0 /\ dlls = 0 /\ linkRet = 0
    /\ linkCalls = 0 /\ linkUp = 0

\* The linker's symbol table holds exactly the symbols of the objects that are loaded.
LinkerTable == part = "linker" => L!TableMatchesObjects

\* A resolveObjs that answers 1 leaves every object resolved.
LinkerSuccess == part = "linker" => L!SuccessMeansResolved

\* No object that was freed is left on the list of objects.
LinkerUnload == part = "linker" => L!NothingFreedIsListed

-----------------------------------------------------------------------------
(* The block allocator. *)

A == INSTANCE BlockAlloc WITH PerMBlock <- 3, Blocks <- 4, MBlock <- 0..2, Sizes <- {1, 2, 3, 7}, MAX_FREE_LIST <- 3
allocVars == <<bdesc, free_list, free_mblock_list, n_alloc_blocks, mblocks, held, allocUp>>
allocIdle == bdesc = 0 /\ free_list = 0 /\ free_mblock_list = 0 /\ n_alloc_blocks = 0 /\ mblocks = 0
    /\ held = 0 /\ allocUp = 0

\* Every block belongs to one group, held by a client or free.
BlocksPartitioned == part = "alloc" => A!GroupsPartition

\* The free lists hold groups of the right sizes, coalesced.
FreeListSanity == part = "alloc" => A!FreeListSanity

\* n_alloc_blocks counts the blocks the clients hold.
BlocksCounted == part = "alloc" => A!Inventory

-----------------------------------------------------------------------------
(* Megablocks. *)

O == INSTANCE OSMem WITH MBLOCK_SIZE <- 2, Space <- 2..15, Counts <- {1, 2}, MaxFree <- 6
osmemVars == <<os, allocs, free_blocks, next_request, backed, given, returning, osUp>>
osmemIdle == os = 0 /\ allocs = 0 /\ free_blocks = 0 /\ next_request = 0 /\ backed = 0 /\ given = 0
    /\ returning = 0 /\ osUp = 0

\* Every megablock given to the storage manager is backed by memory, and none twice.
BackedIsGiven == part = "osmem" => O!BackedIsGiven

\* What the free list holds is reserved and not in use.
FreeIsSpare == part = "osmem" => O!FreeIsSpare

\* The free blocks are in ascending order and adjacent ones are merged.
FreeMerged == part = "osmem" => O!FreeBlocksMerged

-----------------------------------------------------------------------------
(* The map of megablocks. *)

Map == INSTANCE MBlockMap WITH High <- 0..1, Line <- 0..1, Static <- {<<0, 1>>}, Thread <- {1, 2}, MBC_ENTRIES <- 2
mapVars == <<mblock_maps, mblock_cache, asked, answered>>
mapIdle == mblock_maps = 0 /\ mblock_cache = 0 /\ asked = 0 /\ answered = 0

\* HEAP_ALLOCED answers from the cache what the map says.
CacheAgrees == part = "map" => Map!CacheAgrees

\* getFirstMBlock and getNextMBlock meet every megablock.
WalkMeetsAll == part = "map" => Map!WalkMeetsAll

-----------------------------------------------------------------------------
(* Mark-compact. *)

C == INSTANCE Compact WITH BLOCK_SIZE_W <- 6, Info <- CompactInfo, Roots <- <<21, 22>>, Others <- <<31, 34>>,
                          RET_DYN_BITMAP_SIZE <- 2, RET_DYN_NONPTR_REGS_SIZE <- 1
compactVars == <<mem, marks, blocks, bfree, pass, scan, free, freeBd, before, moved>>
compactIdle == mem = 0 /\ marks = 0 /\ blocks = 0 /\ bfree = 0 /\ pass = 0 /\ scan = 0 /\ free = 0
    /\ freeBd = 0 /\ before = 0 /\ moved = 0

\* Mark-compact leaves the live part of the heap as it was, moved.
SameGraph == part = "compact" => C!SameGraph

\* Mark-compact leaves blocks that can be walked object by object.
BlocksAreTight == part = "compact" => C!BlocksAreTight

-----------------------------------------------------------------------------
(* Retainer profiling. *)

R == INSTANCE Retainer WITH maxRetainerSetSize <- 2, BlockElements <- 2, CCS_SYSTEM <- 9
retainerVars == <<program, census, rs, flip, rstack, boundary, todoRoots, current, cframes, visited, rphase>>
retainerIdle == program = 0 /\ census = 0 /\ rs = 0 /\ flip = 0 /\ rstack = 0 /\ boundary = 0
    /\ todoRoots = 0 /\ current = 0 /\ cframes = 0 /\ visited = 0 /\ rphase = 0

\* No closure has a retainer that does not retain it, but for an SRT without its first entry.
RetainersSound == part = "retainer" => R!SetsAreSound

\* Every closure that is reached has a retainer set at the census, but for retainSRT.
RetainersReached == part = "retainer" => R!AllReached

\* In a heap without cycles and misread SRTs a retainer set is what the definition says.
RetainersComplete == part = "retainer" => R!CompleteWithoutCycles

\* The loop invariant of retainClosure.
RetainerLoop == part = "retainer" => R!LoopInvariant

\* Every closure that is reached has a retainer set.
RetainersEvery == part = "retainer" => R!EveryReached

\* In every heap a retainer set is what the definition says.
RetainersExact == part = "retainer" => R!SetsAreComplete

-----------------------------------------------------------------------------
(* The byte-code interpreter. *)

BC == INSTANCE Interp WITH Programs <- InterpPrograms, INTERP_STACK_CHECK_THRESH <- 50,
                            AP_STACK_SPLIM <- 60, RESERVED_STACK_WORDS <- 21, RetDynSize <- 21,
                            DSize <- 2, WordSize <- 256, Chunk <- 40, MaxInterrupts <- 2
interpVars == <<prog, iheap, istack, isize, imode, iobj, ipc, iwhat, ibrk, iinterrupts, ianswers>>
interpIdle == prog = 0 /\ iheap = 0 /\ istack = 0 /\ isize = 0 /\ imode = 0 /\ iobj = 0 /\ ipc = 0
    /\ iwhat = 0 /\ ibrk = 0 /\ iinterrupts = 0 /\ ianswers = 0

\* A byte-code program has the same value whatever interrupts it.
InterpAnswers == part = "interp" => BC!Answers

\* The interpreter does not write below the reserved words of the stack.
InterpStackBounds == part = "interp" => BC!StackInBounds

\* Outside the interpreter the stack is a sequence of frames as the collector expects them.
InterpStackSane == part = "interp" => BC!StackIsSane

\* A breakpoint is reported once each time it is reached.
InterpBreaksOnce == part = "interp" => BC!BreaksOnce

-----------------------------------------------------------------------------
(* Hash tables. *)

H == INSTANCE Hash WITH Keys <- {0, 1, 2, 5}, Data <- 2, HSEGSIZE <- 2, HDIRSIZE <- 2,
                        HLOAD <- 1, HCHUNK <- 3, MaxInserts <- 4
hashVars == <<dir, segs, hsplit, hmax, kcount, bcount, hfree, chunks, abstract, hserial, hret, freed>>
hashIdle == dir = 0 /\ segs = 0 /\ hsplit = 0 /\ hmax = 0 /\ kcount = 0 /\ bcount = 0 /\ hfree = 0
    /\ chunks = 0 /\ abstract = 0 /\ hserial = 0 /\ hret = 0 /\ freed = 0

\* A hash table holds what was inserted and not removed, and finds it.
HashIsMap == part = "hash" => H!TableIsMap

\* No cell of a hash table is in use and free, and none is lost.
HashCellsKept == part = "hash" => H!CellsKept

\* Freeing a hash table frees every datum and every segment.
HashFreesAll == part = "hash" => H!FreesAll

-----------------------------------------------------------------------------
(* Stable pointers and stable names. *)

SN == INSTANCE Stable WITH Objects <- 1..2, Addresses <- 1..5, INIT_SPT_SIZE <- 2, MaxSize <- 4,
                           MaxPtrs <- 2, MaxGCs <- 2
stableVars == <<spt, sfree, shash, place, value, aged, sroots, sptrs, snames, sids, sgcs, spoilt>>
stableIdle == spt = 0 /\ sfree = 0 /\ shash = 0 /\ place = 0 /\ value = 0 /\ aged = 0 /\ sroots = 0
    /\ sptrs = 0 /\ snames = 0 /\ sids = 0 /\ sgcs = 0 /\ spoilt = 0

\* A stable pointer refers to its object until it is freed.
StablePtrsHold == part = "stable" => SN!PtrsHold

\* StableNames are equal exactly if they were made for the same object.
StableNamesIdentify == part = "stable" => SN!NamesIdentify

\* The hash table of stable names agrees with the table.
StableHashFinds == part = "stable" => SN!HashFinds

\* No entry of the stable pointer table is free and in use.
StableFreeSound == part = "stable" => SN!FreeSound

\* An entry that is not free is in use.
StableReclaimed == part = "stable" => SN!EntriesReclaimed

-----------------------------------------------------------------------------
(* GUM: a graph of two nodes on p1, and two PEs with two fish, or three PEs. *)

PEs == {"p1", "p2", "p3"}
FreeClosure == [type |-> "free", node |-> 0, ptr |-> 0, ga |-> <<>>, bq |-> {}]
TwoThunks == [a \in 1..7 |->
  CASE a = 1 -> [FreeClosure EXCEPT !.type = "THUNK", !.node = 1, !.ptr = 2]
    [] a = 2 -> [FreeClosure EXCEPT !.type = "THUNK", !.node = 2]
    [] OTHER -> FreeClosure]
HomeOf == [t \in {"main", "idle1", "idle2", "idle3"} |->
             IF t = "idle2" THEN "p2" ELSE IF t = "idle3" THEN "p3" ELSE "p1"]

Begin(pes, fish, n, s) ==
  [heap |-> [p \in PEs |-> IF p = "p1" THEN TwoThunks ELSE [a \in 1..7 |-> FreeClosure]],
   tso |-> [t \in DOMAIN HomeOf |->
              [pe |-> HomeOf[t], at |-> IF t = "main" THEN 1 ELSE 0,
               does |-> IF t = "main" THEN "ready" ELSE "done", deep |-> t = "main"]],
   sparks |-> [p \in PEs |-> IF p = "p1" THEN s ELSE {}],
   conf |-> [pes |-> pes, fish |-> fish, gcs |-> n]]

G == INSTANCE GUM WITH PE <- PEs, Tso <- DOMAIN HomeOf, Node <- {1, 2}, MaxAddr <- 7, MaxSlot <- 8,
  W <- 16, FishLife <- 1,
  Start <- {Begin({"p1", "p2"}, 2, 1, {1}), Begin({"p1", "p2"}, 1, 1, {1, 2}),
            Begin(PEs, 2, 0, {1})}
gumVars == <<heap, gala, chan, sparks, pending, tso, fishes, sent, gcs, conf>>
gumIdle == heap = 0 /\ gala = 0 /\ chan = 0 /\ sparks = 0 /\ pending = 0 /\ tso = 0 /\ fishes = 0
    /\ sent = 0 /\ gcs = 0 /\ conf = 0

\* The closures, weights and messages of GUM are well-formed: no reference has the weight 0 by a wrap-around.
GumTypes == part = "gum" => G!TypeOK

\* The weights of all references to a global address are its full weight.
WeightConserved == part = "gum" => G!WeightConserved

\* No thunk is evaluated on two PEs.
SparkedOnce == part = "gum" => G!NoDuplicateWork

\* Whatever a thread or a PE waits for is on its way.
Awaited == part = "gum" => G!Awaited

\* outstandingFishes counts the fish of a PE.
FishCounted == part = "gum" => G!FishCounted

\* A RESUME finds the closure that was fetched.
ResumeeWaits == part = "gum" => G!ResumeeWaits

-----------------------------------------------------------------------------
(* GranSim: three PEs; a program is a graph of up to five closures. *)

GranCosts == [latency |-> 4, mpacktime |-> 1, munpacktime |-> 1, mtidytime |-> 1, threadqueuetime |-> 1,
  threadcreatetime |-> 1, threadcontextswitchtime |-> 1, pri_sched_overhead |-> 1, lunblocktime |-> 1,
  gunblocktime |-> 1, exec |-> 1, time_slice |-> 6]

Gran == INSTANCE GranSim WITH proc <- 3, Costs <- GranCosts, Setups <- GranSetups, Horizon <- 400
gransimVars == <<gflags, sim>>
gransimIdle == gflags = 0 /\ sim = 0

\* The simulator counts fetches, fish (but for those to oneself) and sparks, keeps threads in one place and thunks on one PE, and ends, unless blockFetch overwrote an RBH.
SimulationSound == part = "gransim" => Gran!GranSimSound

-----------------------------------------------------------------------------
(* SysMan: up to three PEs, one that fails and a host that is added later. *)

Launch(n, max, long, hosts, fails, fishers) ==
  [nPEs |-> n, MAX_PES |-> max, long |-> long, hosts |-> hosts, fails |-> fails, fishers |-> fishers]
Launches == {Launch(3, 7, 4, 0, 0, {1, 3}), Launch(3, 7, 4, 0, 1, {}), Launch(2, 7, 4, 1, 1, {3}), Launch(2, 7, 8, 1, 0, {2, 3}),
             Launch(2, 2, 4, 0, 0, {}), Launch(1, 7, 4, 1, 1, {2})}

SM == INSTANCE SysMan
sysmanVars == <<launch, sm, pe, toSys, toPE, exits, afloat, erred, mistaken>>
sysmanIdle == launch = 0 /\ sm = 0 /\ pe = 0 /\ toSys = 0 /\ toPE = 0 /\ exits = 0 /\ afloat = 0
    /\ erred = 0 /\ mistaken = 0

\* The PEs of a parallel program start together with the same table, and the system manager ends after all of them, with the exceptions named in SysMan.
SystemStartsAndEnds == part = "sysman" => SM!SysManSound

-----------------------------------------------------------------------------
(* Sparks: two Capabilities; a pool that fills up and wraps around, three sparks of
   two closures and one thief, two searches at a time, and CAFs. *)

ParProgram(known, ns, ts, n) ==
  [roots |-> known, pars |-> [c \in {0, 1} |-> ns[c + 1]], threads |-> [c \in {0, 1} |-> ts[c + 1]], gcs |-> n]
SP == INSTANCE Sparks WITH n_capabilities <- 2, Size <- 4, Heap <- {"h1", "h2"}, Static <- {"s1"},
                           NULL <- "NULL", Programs <-
                             {ParProgram({"h1"}, <<6, 0>>, <<0, 2>>, 1), ParProgram({"h1", "h2"}, <<2, 0>>, <<0, 1>>, 1),
                              ParProgram({"h1"}, <<2, 0>>, <<1, 1>>, 1), ParProgram({"h1", "s1"}, <<2, 0>>, <<0, 1>>, 1)},
                           sparks <- spools, gen <- pgen, roots <- proots, queue <- pqueue, gcs <- pgcs, threads <- pthreads
sparksVars == <<spools, spark_stats, search, sparkThread, closure, pgen, proots, gone, pars, pthreads, pgcs, sched_state, pqueue, lost>>
sparksIdle == spools = 0 /\ spark_stats = 0 /\ search = 0 /\ sparkThread = 0 /\ closure = 0 /\ pgen = 0
    /\ proots = 0 /\ gone = 0 /\ pars = 0 /\ pthreads = 0 /\ pgcs = 0 /\ sched_state = 0 /\ pqueue = 0 /\ lost = 0

\* Every spark is counted, the pools keep those that are worth something, but for the Mistaken ones, and none dangles.
SparksKept == part = "sparks" => SP!SparksSound

-----------------------------------------------------------------------------
(* Storage: blocks of 4 words; a nursery of one block that is given groups, a nursery whose blocks
   run out, -M with one and with three generations, -H, and executable memory. *)

GcFlags == [generations |-> 2, min |-> 2, max |-> 0, suggestion |-> 0, auto |-> FALSE, oldGenFactor |-> 2,
            minOldGenSize |-> 2, pcFreeHeap |-> 10, compact |-> FALSE, sweep |-> FALSE, compactThreshold |-> 30,
            caps |-> 1, page |-> 1, checks |-> {}, allocs |-> {}, pins |-> {}, execs |-> {}, keeps |-> {0},
            requests |-> 5, gcs |-> 2]
ST == INSTANCE Storage WITH BLOCK_SIZE_W <- 4, THRESHOLD <- 3, Bdescrs <- 1 .. 16, NatRange <- 65536, Setups <-
        {[GcFlags EXCEPT !.checks = {2, 6}, !.allocs = {2}, !.requests = 4],
         [GcFlags EXCEPT !.min = 1, !.checks = {6}, !.allocs = {2}, !.requests = 4],
         [GcFlags EXCEPT !.caps = 2, !.min = 1, !.checks = {3}, !.allocs = {2}, !.requests = 4, !.gcs = 1],
         [GcFlags EXCEPT !.allocs = {6}, !.pins = {2}, !.requests = 4],
         [GcFlags EXCEPT !.generations = 1, !.max = 6, !.keeps = {0, 1, 2, 4}, !.allocs = {3, 24}, !.requests = 2],
         [GcFlags EXCEPT !.generations = 3, !.max = 12, !.keeps = {0, 1, 2}, !.allocs = {6}, !.requests = 2],
         [GcFlags EXCEPT !.suggestion = 9, !.max = 8, !.keeps = {0, 1, 2}, !.checks = {2}, !.requests = 3],
         [GcFlags EXCEPT !.auto = TRUE, !.compact = TRUE, !.caps = 2, !.keeps = {0, 1, 2}, !.requests = 0],
         [GcFlags EXCEPT !.min = 6, !.max = 4, !.sweep = TRUE, !.keeps = {0, 1}, !.requests = 0],
         [GcFlags EXCEPT !.execs = {1, 2}, !.page = 2, !.requests = 5, !.gcs = 0]},
      flags <- gcFlags, reg <- regs, exec <- execs, left <- quota, given <- handed, used <- inUse, status <- how
storageVars == <<gcFlags, bd, nurseries, regs, gens, execs, heap_overflow, g0_pcnt_kept, how, quota, handed, counted, inUse, clash>>
storageIdle == gcFlags = 0 /\ bd = 0 /\ nurseries = 0 /\ regs = 0 /\ gens = 0 /\ execs = 0
    /\ heap_overflow = 0 /\ g0_pcnt_kept = 0 /\ how = 0 /\ quota = 0 /\ handed = 0 /\ counted = 0
       /\ inUse = 0 /\ clash = 0

\* Nurseries stay well linked, no word is handed out twice and every word is counted once, and the sizes fit.
AllocationSound == part = "storage" => ST!AllocationSound

-----------------------------------------------------------------------------
(* The options of the run-time system. *)

OP == INSTANCE RtsOptions WITH BLOCK_SIZE <- 4, WordBytes <- 2, HS_INT_MAX <- 127, HS_WORD_MAX <- 255, NatSize <- 16,
        Processors <- 3, DEFAULT_TICK_INTERVAL <- 4, Invocations <- OptionInvocations
optionsVars == <<rtsFlags, rts_argv, rts_argv_size, rts_argc0, rarg, rerror, prog_argv, opened, stage, started>>
optionsIdle == rtsFlags = 0 /\ rts_argv = 0 /\ rts_argv_size = 0 /\ rts_argc0 = 0 /\ rarg = 0 /\ rerror = 0
    /\ prog_argv = 0 /\ opened = 0 /\ stage = 0 /\ started = 0

\* The flags a program runs with are those its options say, from whatever source, and it runs only if they are allowed and sound.
OptionsMeanWhatTheySay == part = "options" => OP!OptionsSound

-----------------------------------------------------------------------------
(* The event log. *)

Setup(nodes, more, forks, fails, posts, traces) ==
  [nNodes |-> nodes, more |-> more, forks |-> forks, fails |-> fails, posts |-> posts, traces |-> traces]
LogSetups ==
  {Setup(2, 2, FALSE, FALSE, 4, {"sched", "gc"}), Setup(2, 2, TRUE, FALSE, 3, {"spark"}),
   Setup(1, 2, FALSE, FALSE, 3, {"spark", "capset"}), Setup(1, 1, TRUE, FALSE, 5, {"process"}),
   Setup(1, 1, FALSE, TRUE, 3, {"user"})}
EL == INSTANCE EventLog WITH EVENT_LOG_SIZE <- 90, BUF <- 40, Word16 <- 256, Texts <- {0, 60}, Setups <- LogSetups
eventlogVars == <<ebuf, ncaps, stdio, disk, leaked, told, logging, failed, posted, serial, setup>>
eventlogIdle == ebuf = 0 /\ ncaps = 0 /\ stdio = 0 /\ disk = 0 /\ leaked = 0 /\ told = 0 /\ logging = 0
    /\ failed = 0 /\ posted = 0 /\ serial = 0 /\ setup = 0

\* The file of an event log can be read block by block and has every event that was posted, once, in the order of its buffer, also in the child of a fork.
LogIsReadable == part = "eventlog" => EL!LogSound

-----------------------------------------------------------------------------
(* Cost-centre stacks. *)

Scene(caps, user, do, ops) == [caps |-> caps, user |-> user, doCostCentres |-> do, ops |-> ops]
CostScenes == {Scene(1, <<"a", "b", "c">>, 1, 4), Scene(1, <<"a", "b">>, 3, 4), Scene(1, <<"a">>, 0, 2), Scene(2, <<"a", "b">>, 1, 3)}
CS == INSTANCE CostCentres WITH Scenarios <- CostScenes, MaxTicks <- 1
costsVars == <<ccs, rCCCS, pushing, entered, ticked, report, done, stale, scene>>
costsIdle == ccs = 0 /\ rCCCS = 0 /\ pushing = 0 /\ entered = 0 /\ ticked = 0 /\ report = 0 /\ done = 0
    /\ stale = 0 /\ scene = 0

\* Cost-centre stacks form a tree in which pushing stays within a stack that has the cost centre, and the report has every tick.
CostsAttributed == part = "costs" => CS!CostsSound

-----------------------------------------------------------------------------
(* The heap profiler. *)

Attributes(ty, stack, size, large, by) ==
  [type |-> ty, ccs |-> stack, descr |-> ty, LDV |-> stack, size |-> size, large |-> large,
   selected |-> stack # "z", retainers |-> by]
ProfiledClosures ==
  [a |-> Attributes("THUNK", "x", 1, FALSE, {"x"}), b |-> Attributes("CONSTR", "x", 2, FALSE, {"x", "y"}),
   m |-> Attributes("MSG_THROWTO", "y", 4, FALSE, {}), i |-> Attributes("IND", "x", 8, FALSE, {}),
   n |-> Attributes("MSG_NULL", "y", 16, FALSE, {}), s |-> Attributes("TSO", "x", 32, FALSE, {}),
   l |-> Attributes("AP_STACK", "x", 64, TRUE, {}), z |-> Attributes("FUN", "z", 128, FALSE, {})]
NoSelector == [k \in {"descr", "type", "retainers"} |-> {}]
Profile(by, bio, select, tsos, run, n) ==
  [by |-> by, bio |-> bio, select |-> select, includeTSOs |-> tsos, program |-> run, gcs |-> n]
HeapProfiles ==
  {Profile("LDV", {}, NoSelector, FALSE, {"a", "i"}, 3), Profile("LDV", {}, NoSelector, FALSE, {"b", "l"}, 2),
   Profile("LDV", {}, NoSelector, FALSE, {"m", "n"}, 2), Profile("ccs", {}, NoSelector, FALSE, {"b", "s", "z"}, 2),
   Profile("ccs", {"drag", "void"}, NoSelector, TRUE, {"a", "i", "s"}, 3),
   Profile("retainers", {}, NoSelector, TRUE, {"b", "m", "n"}, 2),
   Profile("ccs", {"lag"}, [NoSelector EXCEPT !["retainers"] = {"x"}], FALSE, {"a"}, 1),
   Profile("type", {"use", "lag"}, [NoSelector EXCEPT !["descr"] = {"THUNK", "MSG_THROWTO"}], FALSE, {"a", "b", "m", "n"}, 2)}
HC == INSTANCE HeapCensus WITH Closures <- ProfiledClosures, Profiles <- HeapProfiles, FirstCensuses <- 2, max_era <- 4
censusVars == <<header, era, n_censuses, censuses, hp_file, profiling, collections, seen, uses, twice, prof>>
censusIdle == header = 0 /\ era = 0 /\ n_censuses = 0 /\ censuses = 0 /\ hp_file = 0 /\ profiling = 0
    /\ collections = 0 /\ seen = 0 /\ uses = 0 /\ twice = 0 /\ prof = 0

\* Every sample of a heap profile says what the closures that were live at its census did before and after.
CensusTells == part = "census" => HC!CensusSound

-----------------------------------------------------------------------------
(* What the runs check. *)

\* Loading and interpreting code (Linker.c, Interpreter.c): the linker's table,
\* answers and list of objects agree through failing loads and unloading, but
\* for names that an unloaded ELF object kept to itself, and until an archive
\* is unloaded of which two objects are listed; neither interruption, nor a
\* full stack or a breakpoint changes what a byte-code program does.
CodeSound ==
  /\ LinkerTable /\ LinkerSuccess /\ LinkerUnload /\ InterpAnswers
  /\ InterpStackBounds /\ InterpStackSane /\ InterpBreaksOnce

\* Memory and the tables that name objects (OSMem.c, MBlock.c, BlockAlloc.c,
\* Storage.c, Hash.c, Stable.c): nothing is handed out twice, lost or
\* miscounted, nurseries are well linked and their sizes fit, and what was put
\* into a table is found until it is removed, through splitting, rehashing and
\* moving collections.  Left out, each by name: sizes after a heap check of
\* more than -A blocks and with -G1 and -M, where shrinking a nursery runs off
\* its end, and stable names after an object has got two entries.
StorageSound ==
  /\ BlocksPartitioned /\ FreeListSanity /\ BlocksCounted /\ AllocationSound
  /\ BackedIsGiven /\ FreeIsSpare /\ CacheAgrees /\ WalkMeetsAll /\ HashIsMap
  /\ HashCellsKept /\ HashFreesAll /\ StablePtrsHold /\ StableNamesIdentify
  /\ StableHashFinds /\ StableFreeSound

\* The two traversals of the heap that reverse or annotate pointers (Compact.c,
\* RetainerProfile.c): compaction preserves the graph, and retainer sets hold
\* what retains a closure, all of it in a heap without cycles.  Left out, by
\* name: closures that are reached only through an SRT entry which retainSRT
\* does not follow, and what it follows instead.
TraversalsSound ==
  /\ SameGraph /\ BlocksAreTight /\ RetainersSound /\ RetainersReached
  /\ RetainersComplete /\ RetainerLoop

\* Parallel evaluation (Sparks.c, parallel/): whatever order messages arrive in
\* and whoever steals, references keep their weight, thunks are not duplicated,
\* no thread, fetch or fish is forgotten or miscounted, and pruning keeps every
\* spark that is worth it.  Left out, each by name: an RBH that blockFetch
\* overwrote and the threads in its queue, the fish that a simulated PE sent to
\* itself, and the sparks of living thunks that pruning is Mistaken about.
GumSound ==
  /\ GumTypes /\ WeightConserved /\ SparkedOnce /\ Awaited /\ FishCounted
  /\ ResumeeWaits /\ SimulationSound /\ SparksKept

\* Starting and stopping (RtsFlags.c, parallel/SysMan.c): the run-time system
\* gets the options it was given and allowed, the PEs that were asked for get
\* the same table, and none ends before its time.  Left out of the ending, by
\* name: a failing PE that is taken for the main one, words of eight bytes, as
\* many PEs as there is room for, and PEs that SysMan has struck off and that
\* wait for it.  Not claimed: that a PE which joins later is in a table.
StartupSound ==
  /\ OptionsMeanWhatTheySay /\ SystemStartsAndEnds

\* What the system reports of itself (EventLog.c, Profiling.c, ProfHeap.c,
\* LdvProfile.c): a log has every event once, every tick is in the report and
\* on the stack that was pushed, and a sample says what its closures did.  Left
\* out, each by name: stacks that two Capabilities made at once, function
\* stacks of one cost centre, and samples with messages that were overwritten
\* later.
ReportsSound ==
  /\ LogIsReadable /\ CostsAttributed /\ CensusTells

-----------------------------------------------------------------------------

Init ==
  /\ part \in Parts
  /\ IF part = "linker" THEN L!Init ELSE linkerIdle
  /\ IF part = "alloc" THEN A!initBlockAllocator ELSE allocIdle
  /\ IF part = "osmem" THEN O!osMemInit ELSE osmemIdle
  /\ IF part = "map" THEN Map!initMBlocks ELSE mapIdle
  /\ IF part = "compact" THEN C!Init ELSE compactIdle
  /\ IF part = "retainer" THEN R!Init ELSE retainerIdle
  /\ IF part = "interp" THEN BC!Init ELSE interpIdle
  /\ IF part = "hash" THEN H!allocHashTable ELSE hashIdle
  /\ IF part = "stable" THEN SN!Init ELSE stableIdle
  /\ IF part = "gum" THEN G!Init ELSE gumIdle
  /\ IF part = "gransim" THEN Gran!Init ELSE gransimIdle
  /\ IF part = "sysman" THEN SM!Init ELSE sysmanIdle
  /\ IF part = "sparks" THEN SP!Init ELSE sparksIdle
  /\ IF part = "storage" THEN ST!Init ELSE storageIdle
  /\ IF part = "options" THEN OP!setupRtsFlags ELSE optionsIdle
  /\ IF part = "eventlog" THEN EL!initTracing ELSE eventlogIdle
  /\ IF part = "costs" THEN CS!Init ELSE costsIdle
  /\ IF part = "census" THEN HC!initHeapProfiling ELSE censusIdle

Next ==
  \/ part = "linker" /\ L!Next /\ UNCHANGED <<part, allocVars, osmemVars, mapVars, compactVars, retainerVars,
       interpVars, hashVars, stableVars, gumVars, gransimVars, sysmanVars, sparksVars, storageVars,
       optionsVars, eventlogVars, costsVars, censusVars>>
  \/ part = "alloc" /\ A!Next /\ UNCHANGED <<part, linkerVars, osmemVars, mapVars, compactVars, retainerVars,
       interpVars, hashVars, stableVars, gumVars, gransimVars, sysmanVars, sparksVars, storageVars,
       optionsVars, eventlogVars, costsVars, censusVars>>
  \/ part = "osmem" /\ O!Next /\ UNCHANGED <<part, linkerVars, allocVars, mapVars, compactVars, retainerVars,
       interpVars, hashVars, stableVars, gumVars, gransimVars, sysmanVars, sparksVars, storageVars,
       optionsVars, eventlogVars, costsVars, censusVars>>
  \/ part = "map" /\ Map!Next /\ UNCHANGED <<part, linkerVars, allocVars, osmemVars, compactVars, retainerVars,
       interpVars, hashVars, stableVars, gumVars, gransimVars, sysmanVars, sparksVars, storageVars,
       optionsVars, eventlogVars, costsVars, censusVars>>
  \/ part = "compact" /\ C!compact /\ UNCHANGED <<part, linkerVars, allocVars, osmemVars, mapVars,
       retainerVars, interpVars, hashVars, stableVars, gumVars, gransimVars, sysmanVars, sparksVars,
       storageVars, optionsVars, eventlogVars, costsVars, censusVars>>
  \/ part = "retainer" /\ R!Next /\ UNCHANGED <<part, linkerVars, allocVars, osmemVars, mapVars, compactVars,
       interpVars, hashVars, stableVars, gumVars, gransimVars, sysmanVars, sparksVars, storageVars,
       optionsVars, eventlogVars, costsVars, censusVars>>
  \/ part = "interp" /\ BC!Next /\ UNCHANGED <<part, linkerVars, allocVars, osmemVars, mapVars, compactVars,
       retainerVars, hashVars, stableVars, gumVars, gransimVars, sysmanVars, sparksVars, storageVars,
       optionsVars, eventlogVars, costsVars, censusVars>>
  \/ part = "hash" /\ H!Next /\ UNCHANGED <<part, linkerVars, allocVars, osmemVars, mapVars, compactVars,
       retainerVars, interpVars, stableVars, gumVars, gransimVars, sysmanVars, sparksVars, storageVars,
       optionsVars, eventlogVars, costsVars, censusVars>>
  \/ part = "stable" /\ SN!Next /\ UNCHANGED <<part, linkerVars, allocVars, osmemVars, mapVars, compactVars,
       retainerVars, interpVars, hashVars, gumVars, gransimVars, sysmanVars, sparksVars, storageVars,
       optionsVars, eventlogVars, costsVars, censusVars>>
  \/ part = "gum" /\ G!Next /\ UNCHANGED <<part, linkerVars, allocVars, osmemVars, mapVars, compactVars,
       retainerVars, interpVars, hashVars, stableVars, gransimVars, sysmanVars, sparksVars, storageVars,
       optionsVars, eventlogVars, costsVars, censusVars>>
  \/ part = "gransim" /\ Gran!Next /\ UNCHANGED <<part, linkerVars, allocVars, osmemVars, mapVars, compactVars,
       retainerVars, interpVars, hashVars, stableVars, gumVars, sysmanVars, sparksVars, storageVars,
       optionsVars, eventlogVars, costsVars, censusVars>>
  \/ part = "sysman" /\ SM!Next /\ UNCHANGED <<part, linkerVars, allocVars, osmemVars, mapVars, compactVars,
       retainerVars, interpVars, hashVars, stableVars, gumVars, gransimVars, sparksVars, storageVars,
       optionsVars, eventlogVars, costsVars, censusVars>>
  \/ part = "sparks" /\ SP!Next /\ UNCHANGED <<part, linkerVars, allocVars, osmemVars, mapVars, compactVars,
       retainerVars, interpVars, hashVars, stableVars, gumVars, gransimVars, sysmanVars, storageVars,
       optionsVars, eventlogVars, costsVars, censusVars>>
  \/ part = "storage" /\ ST!Next /\ UNCHANGED <<part, linkerVars, allocVars, osmemVars, mapVars, compactVars,
       retainerVars, interpVars, hashVars, stableVars, gumVars, gransimVars, sysmanVars, sparksVars,
       optionsVars, eventlogVars, costsVars, censusVars>>
  \/ part = "options" /\ OP!Next /\ UNCHANGED <<part, linkerVars, allocVars, osmemVars, mapVars, compactVars,
       retainerVars, interpVars, hashVars, stableVars, gumVars, gransimVars, sysmanVars, sparksVars,
       storageVars, eventlogVars, costsVars, censusVars>>
  \/ part = "eventlog" /\ EL!Next /\ UNCHANGED <<part, linkerVars, allocVars, osmemVars, mapVars, compactVars,
       retainerVars, interpVars, hashVars, stableVars, gumVars, gransimVars, sysmanVars, sparksVars,
       storageVars, optionsVars, costsVars, censusVars>>
  \/ part = "costs" /\ CS!Next /\ UNCHANGED <<part, linkerVars, allocVars, osmemVars, mapVars, compactVars,
       retainerVars, interpVars, hashVars, stableVars, gumVars, gransimVars, sysmanVars, sparksVars,
       storageVars, optionsVars, eventlogVars, censusVars>>
  \/ part = "census" /\ HC!Next /\ UNCHANGED <<part, linkerVars, allocVars, osmemVars, mapVars, compactVars,
       retainerVars, interpVars, hashVars, stableVars, gumVars, gransimVars, sysmanVars, sparksVars,
       storageVars, optionsVars, eventlogVars, costsVars>>

vars == <<part, linkerVars, allocVars, osmemVars, mapVars, compactVars, retainerVars, interpVars, hashVars,
       stableVars, gumVars, gransimVars, sysmanVars, sparksVars, storageVars, optionsVars, eventlogVars,
       costsVars, censusVars>>
Spec == Init /\ [][Next]_vars
=============================================================================
