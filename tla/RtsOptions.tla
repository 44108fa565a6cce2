----------------------------- MODULE RtsOptions -----------------------------
(* Options of the run-time system (rts/RtsFlags.c): they come from the     *)
(* program itself (-with-rtsopts), from GHCRTS and from the command line,  *)
(* where they are told from the arguments of the program.  Which of them   *)
(* are allowed depends on how the program was linked.  An option either    *)
(* sets flags, or is remembered as an error, which stops the program once  *)
(* all options of its source have been processed, or stops it at once.     *)
(*                                                                         *)
(* An option is [o |-> its letters, v |-> its number] or, when classes are *)
(* given letter by letter, [o |-> ..., cs |-> ...]; Empty is the number of *)
(* an option without one.  Numbers are integers in small units; a file is  *)
(* named by a number, and the files < 0 cannot be opened.                  *)
EXTENDS Integers, Sequences, FiniteSets, SequencesExt, FiniteSetsExt

CONSTANTS BLOCK_SIZE, WordBytes,    \* BLOCK_SIZE and sizeof(W_)
          HS_INT_MAX, HS_WORD_MAX,
          NatSize,                  \* a nat is kept modulo this
          Processors,               \* getNumberOfProcessors
          DEFAULT_TICK_INTERVAL,
          Invocations               \* how programs are linked and started

VARIABLES rtsFlags,
          rts_argv,        \* the options so far
          rts_argv_size,   \* the room in it
          rts_argc0,       \* where the options of the current source start
          rarg,            \* the option that is processed next
          rerror,
          prog_argv,
          opened,          \* the files that were opened, as indexes of rts_argv
          stage,           \* how far setupRtsFlags is
          started          \* the invocation

vars == <<rtsFlags, rts_argv, rts_argv_size, rts_argc0, rarg, rerror, prog_argv, opened, stage, started>>

Empty == -1000
Has(b) == b \in started.build
rtsOptsEnabled == IF stage = "with" THEN "all" ELSE started.enabled

-----------------------------------------------------------------------------
(* What options mean. *)

\* The defaults, in the units of the model.
initRtsFlagsDefaults ==
  [giveStats |-> 0, statsFile |-> 0, maxStkSize |-> 12, initialStkSize |-> 2, stkChunkSize |-> 8,
   stkChunkBufferSize |-> 2, minAllocAreaSize |-> 2, maxHeapSize |-> 0, heapSizeSuggestion |-> 0,
   heapSizeSuggestionAuto |-> 0, pcFreeHeap |-> 3, oldGenFactor |-> 2, generations |-> 2, ringBell |-> 0,
   squeezeUpdFrames |-> 1, compact |-> 0, compactThreshold |-> 30, sweep |-> 0, idleGCDelayTime |-> 30,
   heapBase |-> 0, debug |-> {}, doCostCentres |-> 0, doHeapProfile |-> 0, selectors |-> {}, heapProfileInterval |-> 10,
   heapProfileIntervalTicks |-> 0, includeTSOs |-> 0, showCCSOnException |-> 0, maxRetainerSetSize |-> 8,
   ccsLength |-> 10, tracing |-> 0, timestamp |-> 0, scheduler |-> 0, gc |-> 0, sparks_sampled |-> 0,
   sparks_full |-> 0, user |-> 0, tickInterval |-> IF Has("prof") THEN 1 ELSE DEFAULT_TICK_INTERVAL,
   ctxtSwitchTime |-> 2, ctxtSwitchTicks |-> 0, install_signal_handlers |-> 1, machineReadable |-> 0,
   linkerMemBase |-> 0, nNodes |-> 1, migrate |-> 1, parGcEnabled |-> 1, parGcGen |-> 0,
   parGcLoadBalancingEnabled |-> 1, parGcLoadBalancingGen |-> 1, setAffinity |-> 0, maxLocalSparks |-> 9,
   showTickyStats |-> 0, tickyFile |-> 0]

\* What processing an option leads to.
Sets(f) == [does |-> "sets", f |-> f]
Errs(f) == [does |-> "error", f |-> f]          \* error = rtsTrue, after setting f
Stops(code) == [does |-> code, f |-> <<>>]      \* stg_exit
One(flag, value) == [x \in {flag} |-> value]
Nothing == <<>>

\* Options that set one flag, and the value they set.
Switches == [signals |-> <<"install_signal_handlers", 1>>, nosignals |-> <<"install_signal_handlers", 0>>,
             machine |-> <<"machineReadable", 1>>, B |-> <<"ringBell", 1>>, w |-> <<"sweep", 1>>,
             Z |-> <<"squeezeUpdFrames", 0>>, T |-> <<"giveStats", 1>>, g1 |-> <<"parGcEnabled", 0>>,
             qa |-> <<"setAffinity", 1>>, qm |-> <<"migrate", 0>>, pa |-> <<"doCostCentres", 3>>,
             P |-> <<"doCostCentres", 2>>, p |-> <<"doCostCentres", 1>>, xc |-> <<"showCCSOnException", 1>>,
             xt |-> <<"includeTSOs", 1>>]

\* Options with a size: the flag, the least and the largest size, and the unit.
Sizes == [A |-> <<"minAllocAreaSize", BLOCK_SIZE, HS_INT_MAX, BLOCK_SIZE>>,
          K |-> <<"maxStkSize", WordBytes, HS_WORD_MAX, WordBytes>>,
          kc |-> <<"stkChunkSize", WordBytes, HS_WORD_MAX, WordBytes>>,
          kb |-> <<"stkChunkBufferSize", WordBytes, HS_WORD_MAX, WordBytes>>,
          ki |-> <<"initialStkSize", WordBytes, HS_WORD_MAX, WordBytes>>,
          M |-> <<"maxHeapSize", BLOCK_SIZE, HS_WORD_MAX, BLOCK_SIZE>>,
          G |-> <<"generations", 1, HS_INT_MAX, 1>>,
          H |-> <<"heapSizeSuggestion", BLOCK_SIZE, HS_WORD_MAX, BLOCK_SIZE>>]

\* Options with a time.
Times == [I |-> "idleGCDelayTime", i |-> "heapProfileInterval", C |-> "ctxtSwitchTime", V |-> "tickInterval"]
\* -g and -b of -q, with a generation.
Gens == [qg |-> <<"parGcEnabled", "parGcGen">>, qb |-> <<"parGcLoadBalancingEnabled", "parGcLoadBalancingGen">>]
Stats == [S |-> 4, s |-> 3, t |-> 2]
Hex == [xb |-> "heapBase", xm |-> "linkerMemBase"]
heapProfiles == [h |-> 1, hM |-> 2, hD |-> 4, hY |-> 5, hR |-> 6, hB |-> 7, hT |-> 8]

OPTION_SAFE == {"?", "info", "unknown", "D", "T", "S", "s", "t", "P", "p", "pa", "R", "L", "N", "r", "l", "v", "x", "xc", "xt"}
\* -h is safe in a program built for profiling, where it writes no other file.
IsSafe(opt) == opt.o \in OPTION_SAFE \/ (opt.o \in DOMAIN heapProfiles /\ Has("prof"))
\* -S, -s, -t and -r are not when they name a file.
NamesFile(opt) == opt.o \in {"S", "s", "t", "r"} /\ opt.v # Empty /\ (opt.o = "r" => Has("ticky"))
OPTION_UNSAFE(opt) == opt.o # "arg" /\ (NamesFile(opt) \/ ~IsSafe(opt))

\* PROFILING_BUILD_ONLY and so on: the build an option needs.
Needs(opt) ==
  CASE opt.o \in {"P", "p", "pa", "R", "L", "xc", "xt"} -> {"prof"}
    [] opt.o \in {"N", "g", "g1", "q", "qg", "qb", "qa", "qm", "e"} -> {"threaded"}
    [] opt.o = "r" -> {"ticky"}
    [] opt.o = "l" -> {"tracing"}
    [] opt.o \in {"D", "v"} -> {"debug"}
    [] OTHER -> {}

Or0(v) == IF v = Empty THEN 0 ELSE v

decodeSize(opt, s) ==
  IF Or0(opt.v) < s[2] \/ Or0(opt.v) > s[3] THEN Stops("exit1")
  ELSE Sets(One(s[1], (Or0(opt.v) \div s[4]) % NatSize))

\* -l and -v: the default classes first, then each letter; '-' is for the next one.
TraceClass == [a |-> {"scheduler", "gc", "sparks_sampled", "sparks_full", "user"}, s |-> {"scheduler"},
               p |-> {"sparks_sampled"}, f |-> {"sparks_full"}, t |-> {"timestamp"}, g |-> {"gc"}, u |-> {"user"}]
read_trace_flags(cs) ==
  FoldLeft(LAMBDA a, c :
             IF c = "-" THEN [a EXCEPT !.enabled = 0]
             ELSE IF c \notin DOMAIN TraceClass THEN a
             ELSE [f |-> [x \in TraceClass[c] |-> a.enabled] @@ a.f, enabled |-> 1],
           [f |-> [x \in {"scheduler", "gc", "sparks_sampled", "user"} |-> 1], enabled |-> 1], cs).f

\* The file is 0 for stderr.  -r has a file of its own, 1, when it names none.
FileOf(opt) == IF opt.v # Empty THEN opt.v ELSE IF opt.o = "r" THEN 1 ELSE 0
openStatsFile(opt, flag, f) == IF FileOf(opt) >= 0 THEN Sets(One(flag, FileOf(opt)) @@ f) ELSE Errs(f)

\* Options of every build.
GeneralOption(opt, flags) ==
  LET o == opt.o IN
  CASE o = "info" -> Stops("exit0")
    [] o = "H" /\ opt.v = Empty -> Sets(One("heapSizeSuggestionAuto", 1))
    [] o \in DOMAIN Sizes /\ ~(o = "H" /\ opt.v = Empty) -> decodeSize(opt, Sizes[o])
    [] o = "I" -> Sets(IF opt.v = Empty THEN Nothing ELSE One(Times[o], opt.v))
    [] o \in DOMAIN Stats -> openStatsFile(opt, "statsFile", One("giveStats", Stats[o]))
    [] o = "c" -> Sets(IF opt.v = Empty THEN One("compact", 1) ELSE One("compactThreshold", opt.v))
    [] o = "F" -> IF Or0(opt.v) < 0 THEN Stops("exit1") ELSE Sets(One("oldGenFactor", Or0(opt.v)))
    [] o = "m" -> IF Or0(opt.v) \notin 0..100 THEN Stops("exit1") ELSE Sets(One("pcFreeHeap", Or0(opt.v)))
    [] o = "D" -> IF "bad" \in Range(opt.cs) THEN Stops("exit1")
                  ELSE Sets(One("debug", flags.debug \cup Range(opt.cs)) @@ One("tracing", 2))

\* Options of the profiler.  Only one kind of heap profile can be asked for.
ProfilingOption(opt, flags) ==
  LET o == opt.o IN
  CASE o = "R" -> Sets(One("maxRetainerSetSize", Or0(opt.v) % NatSize))
    [] o = "L" -> IF Or0(opt.v) % NatSize = 0 THEN Stops("exit1") ELSE Sets(One("ccsLength", Or0(opt.v) % NatSize))
    [] o \in DOMAIN heapProfiles ->
         IF Has("prof")
         THEN IF o = "hT" THEN Errs(Nothing)
              ELSE IF opt.v # Empty THEN Sets(One("selectors", flags.selectors \cup {o}))
              ELSE IF flags.doHeapProfile # 0 THEN Errs(Nothing)
              ELSE Sets(One("doHeapProfile", heapProfiles[o]))
         ELSE IF o \in {"h", "hT"} THEN Sets(One("doHeapProfile", heapProfiles["hT"])) ELSE Errs(Nothing)

\* Timers, Capabilities and the parallel collector.
ConcurrentOption(opt, enabled) ==
  LET o == opt.o IN
  CASE o \in {"C", "V"} -> Sets(One(Times[o], Or0(opt.v)))
    [] o = "i" -> Sets(IF opt.v = Empty THEN Nothing ELSE One(Times[o], opt.v))
    [] o \in DOMAIN Gens -> Sets(IF opt.v = Empty THEN One(Gens[o][1], 0)
                                 ELSE One(Gens[o][1], 1) @@ One(Gens[o][2], opt.v % NatSize))
    [] o = "N" -> IF opt.v = Empty THEN Sets(One("nNodes", IF Has("prof") THEN 1 ELSE Processors))
                  ELSE IF enabled = "some" /\ opt.v > Processors THEN Stops("exit1")
                  ELSE IF opt.v <= 0 THEN Errs(One("nNodes", opt.v % NatSize))
                  ELSE Sets(One("nNodes", opt.v))
    [] o = "e" -> IF opt.v = Empty THEN Sets(Nothing)
                  ELSE IF opt.v % NatSize = 0 THEN Errs(One("maxLocalSparks", 0))
                  ELSE Sets(One("maxLocalSparks", opt.v % NatSize))

\* Ticky-ticky, tracing and -x.
MiscOption(opt) ==
  LET o == opt.o IN
  CASE o = "r" -> openStatsFile(opt, "tickyFile", One("showTickyStats", 1))
    [] o \in {"l", "v"} -> Sets(One("tracing", IF o = "l" THEN 1 ELSE 2) @@ read_trace_flags(opt.cs))
    [] o \in DOMAIN Hex -> IF o = "xb" /\ opt.v = Empty THEN Errs(Nothing)
                           ELSE IF o = "xm" /\ Or0(opt.v) > HS_INT_MAX THEN Errs(One(Hex[o], opt.v))
                           ELSE Sets(One(Hex[o], Or0(opt.v)))

Effect(opt, flags, enabled) ==
  CASE ~(Needs(opt) \subseteq started.build) -> Errs(Nothing)
    [] opt.o \in {"?", "unknown", "arg", "q", "g", "x"} -> Errs(Nothing)
    [] opt.o \in DOMAIN Switches -> Sets(One(Switches[opt.o][1], Switches[opt.o][2]))
    [] opt.o \in {"R", "L"} \cup DOMAIN heapProfiles -> ProfilingOption(opt, flags)
    [] opt.o \in {"C", "V", "i", "N", "e"} \cup DOMAIN Gens -> ConcurrentOption(opt, enabled)
    [] opt.o \in {"r", "l", "v"} \cup DOMAIN Hex -> MiscOption(opt)
    [] OTHER -> GeneralOption(opt, flags)

-----------------------------------------------------------------------------
(* setupRtsFlags. *)

\* The size of rts_argv with room for option n + 1.
appendRtsArg(size, n) == IF n = size THEN size * 2 ELSE size

Collect(opts) ==
  /\ rts_argv' = rts_argv \o opts
  /\ rts_argv_size' = FoldLeft(LAMBDA size, i : appendRtsArg(size, Len(rts_argv) + i - 1), rts_argv_size,
                               [i \in DOMAIN opts |-> i])

setupRtsFlags ==
  /\ started \in Invocations
  /\ rtsFlags = initRtsFlagsDefaults
  /\ rts_argv = <<>> /\ rts_argv_size = Len(started.argv) + 2 /\ rts_argc0 = 1 /\ rarg = 1
  /\ rerror = FALSE /\ prog_argv = <<>> /\ opened = {}
  /\ stage = "with?"

\* Collecting the options of a source.  Those of the program are always enabled.
WithOpts ==
  /\ stage = "with?" /\ stage' = "with"
  /\ Collect(started.ghc_rts_opts)
  /\ UNCHANGED <<rtsFlags, rts_argc0, rarg, rerror, prog_argv, opened, started>>

EnvOpts ==
  /\ stage = "env?" /\ stage' = "env"
  /\ IF started.enabled = "none" THEN UNCHANGED <<rts_argv, rts_argv_size>> ELSE Collect(started.GHCRTS)
  /\ UNCHANGED <<rtsFlags, rts_argc0, rarg, rerror, prog_argv, opened, started>>

\* One argument of the command line.  After "--" or "--RTS" all are the program's.
SplitArg(a, x) ==
  IF a.mode = "over" THEN [a EXCEPT !.pgm = Append(@, x)]
  ELSE IF x = "--RTS" THEN [a EXCEPT !.mode = "over"]
  ELSE IF x = "--" THEN [a EXCEPT !.mode = "over", !.pgm = Append(@, x)]
  ELSE IF x = "+RTS" THEN [a EXCEPT !.mode = "RTS"]
  ELSE IF x = "-RTS" THEN [a EXCEPT !.mode = "PGM"]
  ELSE IF a.mode = "RTS" THEN [a EXCEPT !.rts = Append(@, x)]
  ELSE [a EXCEPT !.pgm = Append(@, x)]

CommandLine ==
  LET a == FoldLeft(SplitArg, [pgm |-> <<>>, rts |-> <<>>, mode |-> "PGM"], started.argv) IN
  /\ stage = "cmd?" /\ stage' = "cmd"
  /\ prog_argv' = a.pgm
  /\ Collect([i \in DOMAIN a.rts |-> started.means[a.rts[i]]])
  /\ UNCHANGED <<rtsFlags, rts_argc0, rarg, rerror, opened, started>>

Exit(code) ==
  /\ stage' = code
  /\ UNCHANGED <<rtsFlags, rts_argv, rts_argv_size, rts_argc0, rarg, rerror, prog_argv, opened, started>>

Processing == stage \in {"with", "env", "cmd"}
Todo == Processing /\ rarg <= Len(rts_argv)
First == rarg = rts_argc0

\* The checks before the first option of a source.
checkSuid == rtsOptsEnabled = "some" /\ started.suid
Disabled == Todo /\ First /\ (rtsOptsEnabled = "none" \/ checkSuid) /\ Exit("exit1")

checkUnsafe(opt) == rtsOptsEnabled = "some" /\ OPTION_UNSAFE(opt)

Enabled == Todo /\ ~(First /\ (rtsOptsEnabled = "none" \/ checkSuid))
Option == rts_argv[rarg]
Unsafe == Enabled /\ checkUnsafe(Option) /\ Exit("exit1")

\* procRtsOpts: one option that may be used.
procRtsOpts ==
  LET e == Effect(Option, rtsFlags, rtsOptsEnabled) IN
  /\ Enabled /\ ~checkUnsafe(Option)
  /\ \/ /\ e.does \in {"sets", "error"}
        /\ rtsFlags' = e.f @@ rtsFlags
        /\ rerror' = (rerror \/ e.does = "error")
        /\ opened' = IF Option.o \in {"S", "s", "t", "r"} /\ e.does = "sets" /\ FileOf(Option) > 0
                     THEN opened \cup {rarg} ELSE opened
        /\ rarg' = rarg + 1
        /\ UNCHANGED <<rts_argv, rts_argv_size, rts_argc0, prog_argv, stage, started>>
     \/ e.does \notin {"sets", "error"} /\ Exit(e.does)

\* Mutant: the options of a source are processed again with those of the next one
ProcessedAgain ==
  /\ Processing /\ rarg > Len(rts_argv) /\ ~rerror
  /\ stage' = CASE stage = "with" -> "env?" [] stage = "env" -> "cmd?" [] OTHER -> "normalise"
  /\ rarg' = rts_argc0
  /\ UNCHANGED <<rtsFlags, rts_argv, rts_argv_size, rts_argc0, rerror, prog_argv, opened, started>>

\* The options of a source have been processed.
Processed ==
  /\ Processing /\ rarg > Len(rts_argv) /\ ~rerror
  /\ stage' = CASE stage = "with" -> "env?" [] stage = "env" -> "cmd?" [] OTHER -> "normalise"
  /\ rts_argc0' = rarg
  /\ UNCHANGED <<rtsFlags, rts_argv, rts_argv_size, rarg, rerror, prog_argv, opened, started>>

errorUsage == Processing /\ rarg > Len(rts_argv) /\ rerror /\ Exit("exit1")

-----------------------------------------------------------------------------
(* normaliseRtsOpts. *)

Timers == {"ctxtSwitchTime", "idleGCDelayTime", "heapProfileInterval"}

Shortest(f) == Min({f.tickInterval} \cup {f[t] : t \in {u \in Timers : f[u] > 0}})

Ticks(time, tick) == IF time > 0 THEN time \div tick ELSE 0

\* A negative interval stands for the default, and 0 turns all timers off.
Normal(f) ==
  LET f1 == IF f.tickInterval < 0 THEN [f EXCEPT !.tickInterval = DEFAULT_TICK_INTERVAL] ELSE f
      f2 == IF f1.tickInterval = 0 THEN [x \in Timers |-> 0] @@ f1 ELSE f1
      f3 == [f2 EXCEPT !.tickInterval = Shortest(f2)]
  IN  [f3 EXCEPT !.ctxtSwitchTicks = Ticks(f3.ctxtSwitchTime, f3.tickInterval),
                 !.heapProfileIntervalTicks = Ticks(f3.heapProfileInterval, f3.tickInterval)]

normaliseRtsOpts ==
  /\ stage = "normalise"
  /\ rtsFlags' = Normal(rtsFlags)
  /\ rts_argv_size' = appendRtsArg(rts_argv_size, Len(rts_argv))     \* for the NULL at the end
  /\ stage' = IF rtsFlags.stkChunkBufferSize > rtsFlags.stkChunkSize \div 2 THEN "exit1" ELSE "run"
  /\ UNCHANGED <<rts_argv, rts_argc0, rarg, rerror, prog_argv, opened, started>>

Next == WithOpts \/ EnvOpts \/ CommandLine \/ Disabled \/ Unsafe \/ procRtsOpts \/ Processed \/ errorUsage
        \/ normaliseRtsOpts

-----------------------------------------------------------------------------
(* Where an argument belongs, and what the options say, without reference  *)
(* to the order in which they are processed.                               *)

Argv == started.argv
Markers == {"+RTS", "-RTS"}
EndAt == Min({i \in DOMAIN Argv : Argv[i] \in {"--", "--RTS"}} \cup {Len(Argv) + 1})
IsRtsArg(i) ==
  /\ i < EndAt /\ Argv[i] \notin Markers
  /\ \E m \in 1..i - 1 : Argv[m] = "+RTS" /\ \A k \in m..i - 1 : Argv[k] # "-RTS"
IsProgArg(i) == ~IsRtsArg(i) /\ ~(i <= EndAt /\ Argv[i] \in Markers \cup {"--RTS"})
Those(P(_)) == LET is == SetToSortSeq({i \in DOMAIN Argv : P(i)}, <) IN [k \in DOMAIN is |-> Argv[is[k]]]

\* The options that count: -with-rtsopts, then GHCRTS, then the command line.
FromOutside == (IF started.enabled = "none" THEN <<>> ELSE started.GHCRTS)
                 \o [i \in DOMAIN Those(IsRtsArg) |-> started.means[Those(IsRtsArg)[i]]]
Given == started.ghc_rts_opts \o FromOutside
Own(i) == i <= Len(started.ghc_rts_opts)

Says(i) == Effect(Given[i], initRtsFlagsDefaults, IF Own(i) THEN "all" ELSE started.enabled)

\* The program gets its own arguments, all of them and in their order.
ProgArgsKept == stage = "run" => prog_argv = Those(IsProgArg)

\* Every flag has the value that the last option that sets it gives it, or its
\* default, and then only what the timers have in common is adjusted.
Cumulative == {"debug", "selectors"}
LastWins ==
  stage = "run" =>
    \A f \in DOMAIN rtsFlags \ (Timers \cup Cumulative \cup {"tickInterval", "ctxtSwitchTicks", "heapProfileIntervalTicks"}) :
      LET is == {i \in DOMAIN Given : f \in DOMAIN Says(i).f}
      IN  rtsFlags[f] = IF is = {} THEN initRtsFlagsDefaults[f] ELSE Says(Max(is)).f[f]

\* Only options that are allowed have had any effect: the program does not run
\* with others, and has not even opened a file for them.
NothingUnsafe ==
  /\ stage = "run" =>
       /\ started.enabled = "none" => FromOutside = <<>>
       /\ started.enabled = "some" => \A i \in DOMAIN FromOutside : ~OPTION_UNSAFE(FromOutside[i]) /\ ~started.suid
  /\ \A i \in opened : ~Own(i) => /\ started.enabled # "none"
                                  /\ started.enabled = "some" => ~OPTION_UNSAFE(rts_argv[i])

\* The program runs exactly if there is nothing wrong with its options.
Refused ==
  \/ started.enabled = "none" /\ FromOutside # <<>>
  \/ started.enabled = "some" /\ \E i \in DOMAIN FromOutside : started.suid \/ OPTION_UNSAFE(FromOutside[i])
Profiles == {i \in DOMAIN Given : "doHeapProfile" \in DOMAIN Says(i).f}
Contradictory ==
  \/ Has("prof") /\ Cardinality(Profiles) > 1
  \/ rtsFlags.stkChunkBufferSize > rtsFlags.stkChunkSize \div 2
ErrorsStop ==
  /\ stage = "run" => ~Contradictory /\ \A i \in DOMAIN Given : Says(i).does = "sets"
  /\ stage \in {"exit0", "exit1"} => Refused \/ Contradictory \/ \E i \in DOMAIN Given : Says(i).does # "sets"

\* The timer ticks often enough for every interval that is measured with it, so
\* none of them is rounded to 0 ticks, which would turn it off.
TimersTick ==
  stage = "run" =>
    /\ rtsFlags.tickInterval >= 0
    /\ \A t \in Timers : rtsFlags[t] > 0 => rtsFlags.tickInterval > 0 /\ rtsFlags[t] \div rtsFlags.tickInterval >= 1
    /\ rtsFlags.ctxtSwitchTime > 0 => rtsFlags.ctxtSwitchTicks >= 1
    /\ rtsFlags.heapProfileInterval > 0 => rtsFlags.heapProfileIntervalTicks >= 1

\* "make sure things are within sensible ranges": unless a size does not fit in
\* a nat, the heap and the stack have one that they can work with.
Wraps(opt) == opt.o \in DOMAIN Sizes /\ Or0(opt.v) \div Sizes[opt.o][4] >= NatSize
InRange ==
  stage = "run" /\ (\A i \in DOMAIN Given : ~Wraps(Given[i])) =>
    /\ rtsFlags.minAllocAreaSize >= 1 /\ rtsFlags.generations >= 1 /\ rtsFlags.initialStkSize >= 1
    /\ rtsFlags.nNodes >= 1 /\ rtsFlags.maxLocalSparks >= 1 /\ rtsFlags.ccsLength >= 1
    /\ rtsFlags.stkChunkBufferSize * 2 <= rtsFlags.stkChunkSize
    /\ rtsFlags.pcFreeHeap \in 0..100

\* No option is written behind the end of rts_argv.
ArgvFits == Len(rts_argv) + (IF stage = "run" THEN 1 ELSE 0) <= rts_argv_size

OptionsSound == ProgArgsKept /\ LastWins /\ NothingUnsafe /\ ErrorsStop /\ TimersTick /\ InRange /\ ArgvFits

=============================================================================
