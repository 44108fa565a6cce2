----------------------------- MODULE RtsInputs ------------------------------
(***************************************************************************)
(* What the instances in MCRts start from: heaps for Compact and Retainer, *)
(* ways to link and start programs for RtsOptions, graphs of thunks for    *)
(* GranSim and byte code for Interp.                                       *)
(***************************************************************************)
EXTENDS Integers, Sequences

-----------------------------------------------------------------------------
(* Compact: two layouts of three blocks of six words, with every choice of  *)
(* some of their pointers.                                                  *)

InfoTable(type, ptrs, nptrs, bitmap) ==
  [type |-> type, ptrs |-> ptrs, nptrs |-> nptrs, bitmap |-> bitmap, arity |-> 2]
CompactInfo ==
  <<InfoTable("con", 1, 1, {}), InfoTable("con", 2, 0, {}), InfoTable("thunk", 1, 0, {}),
    InfoTable("fun", 0, 1, {2}), InfoTable("pap", 2, 0, {}), InfoTable("stack", 0, 3, {}),
    InfoTable("con", 1, 0, {}), InfoTable("bco", 0, 2, {}), InfoTable("stack", 0, 17, {}),
    InfoTable("RET_SMALL", 1, 0, {1}), InfoTable("RET_SMALL", 0, 0, {}), InfoTable("RET_FUN", 0, 0, {}),
    InfoTable("RET_BCO", 0, 0, {}), InfoTable("RET_DYN", 0, 0, {})>>

Ptr(a, tag) == [kind |-> "ptr", val |-> a, tag |-> tag]
NonPtr == [kind |-> "word", val |-> 0, tag |-> 0]
InfoPtr(i) == [kind |-> "info", val |-> i, tag |-> 0]

Raw(n) == [kind |-> "word", val |-> n, tag |-> 0]
Address == (1..18) \cup {21, 22} \cup (31..52) \cup {61}
Memory(words) ==
  [a \in Address |-> IF \E w \in words : w[1] = a THEN (CHOOSE w \in words : w[1] = a)[2] ELSE NonPtr]

\* Outside: a pair, and a stack with a frame of a function, one of a BCO and one with saved
\* registers (the second is a pointer, and so is the last word); a static closure.
Outside(d) ==
  {<<31, InfoPtr(2)>>, <<32, Ptr(15, 0)>>, <<33, Ptr(1, 1)>>, <<61, InfoPtr(1)>>,
   <<34, InfoPtr(9)>>, <<35, Raw(36)>>,
   <<36, InfoPtr(12)>>, <<38, Ptr(13, 1)>>, <<40, d>>,
   <<41, InfoPtr(13)>>, <<42, Ptr(4, 0)>>, <<43, Ptr(1, 1)>>,
   <<45, InfoPtr(14)>>, <<46, Raw(1 + 16 + 256)>>, <<49, Ptr(4, 0)>>, <<52, Ptr(15, 0)>>}

\* A BCO, whose bitmap says that of two words the first is a pointer.
Bco(a) == {<<a, InfoPtr(8)>>, <<a + 1, Raw(2)>>, <<a + 2, Raw(2)>>}

\* A constructor, a BCO, a partial application of the function after it, and a thunk; the
\* application does not fit into the first block.
Heap1(f, g, h, r) ==
  [mem |-> Memory({<<1, InfoPtr(1)>>, <<2, f>>, <<7, InfoPtr(5)>>, <<8, Ptr(13, 1)>>, <<10, g>>, <<13, InfoPtr(4)>>,
                   <<15, InfoPtr(3)>>, <<17, h>>, <<21, r>>, <<22, Ptr(7, 0)>>}
                  \cup Bco(4) \cup Outside(g)),
   marks |-> {1, 4, 7, 13, 15}, free |-> <<7, 11, 18>>, chain |-> <<1, 2, 3>>]
Target1 == {Ptr(1, 0), Ptr(1, 1), Ptr(7, 0), Ptr(13, 1), Ptr(15, 0), Ptr(61, 1)}

\* A stack of two frames in the first block of the chain, a constructor and a BCO in the second,
\* with words that are free between them.
Heap2(f, g, h, sp) ==
  [mem |-> Memory({<<8, InfoPtr(6)>>, <<9, Raw(sp)>>, <<10, InfoPtr(10)>>, <<11, f>>, <<12, InfoPtr(11)>>,
                   <<1, InfoPtr(7)>>, <<2, g>>, <<13, InfoPtr(4)>>, <<15, InfoPtr(3)>>, <<17, h>>, <<21, Ptr(13, 1)>>,
                   <<22, Ptr(8, 0)>>}
                  \cup Bco(4) \cup Outside(f)),
   marks |-> {8, 1, 4, 13, 15}, free |-> <<7, 13, 18>>, chain |-> <<2, 1, 3>>]
Target2 == {Ptr(1, 0), Ptr(1, 1), Ptr(8, 0), Ptr(13, 1), Ptr(15, 0), Ptr(61, 1)}

Heaps ==
  {Heap1(f, g, h, r) : f, g, h \in Target1, r \in {Ptr(1, 1), Ptr(13, 1), Ptr(15, 0)}}
  \cup {Heap2(f, g, h, sp) : f, g, h \in Target2, sp \in {10, 12, 13}}

-----------------------------------------------------------------------------
(* Retainer. *)

Closure(type, kids, ccs) ==
  [type |-> type, kids |-> kids, entries |-> <<>>, frames |-> <<>>, srt |-> <<>>, ccs |-> ccs, done |-> FALSE]
Frame(ptrs, srt, bits, large) == [ptrs |-> ptrs, srt |-> srt, bits |-> bits, large |-> large]

\* Every small graph of a thread, three constructors and a thunk, with and without cycles.
SmallPair == {<<a, b>> : a, b \in 2..5}
SmallOne == {<<a>> : a \in 2..5}
SmallHeaps ==
  {<<[graph |-> <<Closure("tso", k1, 1), Closure("con", k2, 2), Closure("thunk", k3, 3),
                  Closure("con", k4, 4), Closure("con", k5, 5)>>,
      roots |-> <<1>>, mut |-> {}]>> :
   k1 \in {<<5, 2>>}, k2 \in SmallPair, k3 \in SmallOne,
   k4 \in {<<>>, <<2>>, <<5>>}, k5 \in {<<>>, <<2>>, <<3>>}}

\* One closure of every kind: a thread with a stack and a transaction (a header and a chunk), an
\* MVar, a weak pointer, an array, applications, a suspended computation, a selector, a black
\* hole, static closures, a finished thread.  The last one is referred to by an SRT only.
Zoo(pair, tvar, srt, bits, large) ==
  <<Closure("tso", <<2, 8, 6, 4>>, 1),
    [Closure("stack", <<>>, 1) EXCEPT !.frames =
       <<Frame(<<3>>, <<>>, {}, FALSE), Frame(<<4, 5>>, srt, bits, large)>>],
    Closure("pair", pair, 3), Closure("mvar", <<3, 12, 13>>, 4), Closure("pap", <<7, 3>>, 5),
    Closure("mut_prim", <<15, 8>>, 6), [Closure("fun_static", <<>>, 7) EXCEPT !.srt = <<9>>],
    Closure("nocaf", <<>>, 0), Closure("con_static", <<3, 14>>, 0), Closure("weak", <<3, 5, 13>>, 2),
    Closure("ind_static", <<13>>, 0), [Closure("tso", <<13>>, 1) EXCEPT !.done = TRUE],
    Closure("ap", <<7, 5>>, 3), [Closure("thunk_static", <<>>, 8) EXCEPT !.srt = <<11>>],
    [Closure("trec", <<8>>, 6) EXCEPT !.entries = <<[tvar |-> tvar, expected_value |-> 3, new_value |-> 16]>>],
    [Closure("ap_stack", <<5>>, 7) EXCEPT !.frames = <<Frame(<<17, 18>>, <<9>>, {1}, FALSE)>>],
    Closure("sel", <<18>>, 4), Closure("ind", <<3>>, 0), Closure("arr", <<16, 3>>, 5),
    Closure("con_static", <<18>>, 0)>>

ZooHeaps ==
  {<<[graph |-> Zoo(<<a, b>>, t, <<s, 20>>, srt[1], srt[2]), roots |-> roots, mut |-> {4}]>> :
   a \in {1, 4, 6}, b \in {4, 13, 16}, t \in {3, 19}, s \in {9, 14},
   srt \in {<<{1, 2}, TRUE>>, <<{1, 2}, FALSE>>, <<{1}, FALSE>>, <<{2}, FALSE>>},
   roots \in {<<1>>, <<10, 8, 11, 1>>}}

\* A static constructor that is reachable at the first and the third profile only, from
\* different retainers.
Passing(kids, ccs) ==
  [graph |-> <<Closure("tso", kids, ccs), Closure("con_static", <<3>>, 0), Closure("con", <<>>, 0),
               Closure("con_static", <<3>>, 0), Closure("var", <<3>>, 4)>>,
   roots |-> <<1>>, mut |-> {5}]
Appearing ==
  {<<Passing(<<2, 4>>, 1), Passing(<<4>>, 2), Passing(<<2, 5>>, 3)>>,
   <<Passing(<<2>>, 1), Passing(<<5, 3>>, 2), Passing(<<3, 4>>, 1), Passing(<<4, 2>>, 2)>>}

Programs == SmallHeaps \cup ZooHeaps \cup Appearing

-----------------------------------------------------------------------------
(* RtsOptions: every option from each of the three sources and with several *)
(* builds, some options from all sources at once, and all short command     *)
(* lines.                                                                   *)

Num(o, v) == [o |-> o, v |-> v]
Bare(o) == Num(o, -1000)
Letters(o, cs) == [o |-> o, cs |-> cs]

AllOptions ==
  {Bare(o) : o \in {"?", "info", "unknown", "arg", "signals", "nosignals", "machine", "A", "B", "c", "w", "F",
                    "H", "I", "T", "S", "s", "t", "Z", "P", "p", "pa", "R", "h", "hM", "hT", "i", "C", "V", "N",
                    "g", "g1", "q", "qg", "qb", "qa", "qm", "e", "r", "x", "xb", "xm", "xc", "xt", "G", "L"}}
  \cup {Num("A", 3), Num("A", 8), Num("A", 64), Num("A", 200), Num("G", 3), Num("K", 20), Num("kc", 3),
        Num("kb", 12), Num("kb", 1), Num("ki", 6), Num("M", 40), Num("H", 9), Num("m", 5), Num("m", 101),
        Num("F", 3), Num("F", -1), Num("c", 40), Num("I", 5), Num("i", 1), Num("i", -2), Num("C", 3),
        Num("V", 7), Num("V", -1), Num("V", 0), Num("N", 0), Num("N", 2), Num("N", 5), Num("N", -3),
        Num("e", 0), Num("e", 5), Num("qg", 1), Num("qb", 0), Num("xb", 5), Num("xm", 5), Num("xm", 250),
        Num("S", 0), Num("S", 1), Num("s", -1), Num("t", 2), Num("r", 2), Num("r", -1), Num("L", 3),
        Num("R", 3), Num("hM", 1), Num("hB", 1), Num("hY", 1)}
  \cup {Letters("D", <<"s">>), Letters("D", <<"g", "bad">>), Letters("l", <<>>), Letters("l", <<"-", "a", "p">>),
        Letters("l", <<"a", "-", "f", "?">>), Letters("v", <<"t">>)}

FullBuild == {"prof", "threaded", "tracing", "debug", "ticky"}
Started(enabled, suid, build, own, env, argv, means) ==
  [enabled |-> enabled, suid |-> suid, build |-> build, ghc_rts_opts |-> own, GHCRTS |-> env, argv |-> argv,
   means |-> means]

\* One option, from each source.
SingleOptions ==
  {Started(enabled, FALSE, build, s.own, s.env, s.argv, [T |-> s.option]) :
     enabled \in {"none", "some", "all"}, build \in {{}, FullBuild, {"threaded", "tracing"}},
     s \in UNION {{[own |-> <<o>>, env |-> <<>>, argv |-> <<>>, option |-> o],
                   [own |-> <<>>, env |-> <<o>>, argv |-> <<"p">>, option |-> o],
                   [own |-> <<>>, env |-> <<>>, argv |-> <<"+RTS", "T">>, option |-> o]} : o \in AllOptions}}

\* An option from each source, the last one twice.
SomeOptions == {Bare("T"), Num("S", 1), Num("N", 2), Num("V", 7), Num("kc", 20), Num("kb", 8)}
ThreeSources ==
  {Started(k[1], k[2], k[3], <<x>>, <<y>>, <<"+RTS", "T", "-RTS", "p", "+RTS", "T">>, [T |-> z]) :
     k \in {<<"none", FALSE, {}>>, <<"some", FALSE, FullBuild>>, <<"some", TRUE, {}>>, <<"all", FALSE, FullBuild>>},
     x \in SomeOptions, y \in SomeOptions, z \in SomeOptions}

\* All command lines of at most four arguments.
CommandLines == UNION {[1..n -> {"+RTS", "-RTS", "--RTS", "--", "T", "p"}] : n \in 0..4}
SplitLines ==
  {Started("all", FALSE, FullBuild, <<>>, <<>>, argv, [T |-> Num("N", 2), p |-> Bare("arg")]) : argv \in CommandLines}

OptionInvocations == SingleOptions \cup ThreeSources \cup SplitLines

-----------------------------------------------------------------------------
(* GranSim: two graphs of thunks, in one place or spread, with every kind of *)
(* fetching, thread creation and stealing.                                   *)

Local(n) == [node |-> n, where |-> 0]
Placed(n, by) == [node |-> n, where |-> by]

\* The main thread sparks 2 and 3, which share 4; it sparks 2 more often than
\* there are PEs to take it.
Diamond == [needs |-> <<<<2, 3>>, <<4>>, <<4>>, <<>>>>,
            par |-> <<<<Local(3), Local(2), Local(2), Local(2)>>, <<>>, <<Local(4)>>, <<>>>>, pri |-> <<0, 1, 2, 0>>]
\* Sparks are sent to where other closures are, and one is sparked twice.
Sent == [needs |-> <<<<2, 4>>, <<5, 3>>, <<5>>, <<3>>, <<>>>>,
         par |-> <<<<Placed(3, 4), Placed(4, 5), Local(2), Local(4)>>, <<>>, <<>>, <<>>, <<>>>>,
         pri |-> <<0, 2, 1, 1, 0>>]

GranPrograms ==
  {<<Diamond, <<0, 0, 0, 0>>>>, <<Diamond, <<0, 1, 2, 1>>>>, <<Sent, <<0, 0, 0, 0, 0>>>>, <<Sent, <<0, 1, 2, 2, 1>>>>}

GranSetup(p, f, t, s) ==
  [needs |-> p[1].needs, par |-> p[1].par, pri |-> p[1].pri, home |-> p[2],
   DoBulkFetching |-> f[1], DoAsyncFetch |-> f[2], ThunksToPack |-> f[3], FetchStrategy |-> f[4],
   DoAlwaysCreateThreads |-> t[1], DoPriorityScheduling |-> t[2],
   Fishing |-> s[1], RandomSteal |-> s[2], maxFishes |-> s[3]]

GranSetups ==
  {GranSetup(p, f, t, s) :
     p \in GranPrograms,
     f \in {<<FALSE, FALSE, 0, 1>>, <<FALSE, TRUE, 0, 2>>, <<FALSE, TRUE, 0, 3>>,
            <<TRUE, FALSE, 0, 2>>, <<TRUE, TRUE, 1, 3>>},
     t \in {<<FALSE, FALSE>>, <<TRUE, TRUE>>},
     s \in {<<FALSE, FALSE, 0>>, <<FALSE, FALSE, 1>>, <<TRUE, FALSE, 1>>}}
  \cup {GranSetup(<<Diamond, <<0, 0, 0, 0>>>>, f, <<FALSE, FALSE>>, <<TRUE, TRUE, 1>>) :
          f \in {<<FALSE, FALSE, 0, 1>>, <<TRUE, FALSE, 0, 2>>}}
-----------------------------------------------------------------------------
(***************************************************************************)
(* Byte code of the kind the byte-code generator emits, for Interp.        *)
(***************************************************************************)

LOCAL Con(tag, args) == [t |-> "con", tag |-> tag, args |-> args]
LOCAL BCO(arity, bits, code) == [t |-> "bco", arity |-> arity, bits |-> bits, code |-> code]
LOCAL Zeros(n) == [k \in 1..n |-> 0]
LOCAL T == TRUE
LOCAL F == FALSE

\* Addresses.
LOCAL unit == 1
LOCAL a == 2
LOCAL b == 3
LOCAL c == 4

\* What every program may use: 10 is a compiled thunk, 11 makes a pair, 12 ignores its argument
\* and is 11, 13 and 14 are partial applications, 15 makes a D1 of a void argument.
LOCAL Library ==
  << Con(0, <<>>), Con(1, <<>>), Con(2, <<>>), Con(3, <<>>),
     [t |-> "fun", arity |-> 4, does |-> "break"],
     [t |-> "fun", arity |-> 2, does |-> "first"],
     [t |-> "fun", arity |-> 2, does |-> "apply"],
     [t |-> "fun", arity |-> 1, does |-> "unbox"],
     Con(0, << <<"n", -1>> >>),
     [t |-> "thunk", body |-> a],
     BCO(2, <<T, T>>, << <<"BRK_FUN", 1>>, <<"PACK", 5, 2>>, <<"ENTER">> >>),
     BCO(1, <<T>>, << <<"PUSH_G", 11>>, <<"SLIDE", 1, 1>>, <<"ENTER">> >>),
     [t |-> "pap", arity |-> 1, fun |-> 11, args |-> << <<"p", a>> >>],
     [t |-> "pap", arity |-> 1, fun |-> 6, args |-> << <<"p", 11>> >>],
     BCO(1, <<>>, << <<"PUSH_UBX", <<7, 7>> >>, <<"RETURN_U", "d1">> >>) >>

\* A program: the closures it adds to the library, the first of which is evaluated.
LOCAL Program(more, answer) ==
  [heap |-> Library \o more, main |-> Len(Library) + 1, action |-> 5, unit |-> unit,
   sizes |-> {3, 53, 56, 80}, step |-> FALSE, breaks |-> {}, hits |-> <<>>, killable |-> FALSE,
   answers |-> <<answer>>]

LOCAL Thunk(code) == << [t |-> "ap", fun |-> 17, args |-> <<>>], BCO(0, <<>>, code) >>

LOCAL A == <<1, <<>>>>
LOCAL B == <<2, <<>>>>
LOCAL C == <<3, <<>>>>

\* Applications with as many, more and fewer arguments than the function takes.
LOCAL Apply(f, frame, args, answer) ==
  Program(Thunk([k \in 1..Len(args) |-> <<"PUSH_G", args[Len(args) + 1 - k]>>]
                \o << <<"PUSH_APPLY", frame>>, <<"PUSH_G", f>>, <<"ENTER">> >>), answer)
LOCAL Applications ==
  { Apply(11, "ap_pp", <<b, c>>, <<5, <<B, C>>>>),
    Apply(12, "ap_ppp", <<a, b, c>>, <<5, <<B, C>>>>),
    Apply(13, "ap_p", <<c>>, <<5, <<A, C>>>>),
    Apply(14, "ap_ppp", <<a, b, c>>, <<5, <<B, C>>>>),
    Apply(6, "ap_pppp", <<12, a, c, 10>>, <<"pap">>),
    Apply(6, "ap_ppppp", <<12, a, c, 10, b>>, <<5, <<A, B>>>>),
    Apply(7, "ap_pp", <<13, c>>, <<5, <<A, C>>>>) }

\* A function applied to one argument, then to another: f is applied, and so is what it returns.
LOCAL Twice(f, answer) ==
  Program(Thunk(<< <<"PUSH_G", c>>, <<"PUSH_APPLY", "ap_p">>, <<"PUSH_G", b>>, <<"PUSH_APPLY", "ap_p">>,
                   <<"PUSH_G", f>>, <<"ENTER">> >>), answer)

\* A case on a thunk that is used twice, with a free variable, and a field that is forced in turn.
LOCAL Case(scrutinee, tag, answer) ==
  Program(Thunk(<< <<"PUSH_G", c>>, <<"PUSH_ALTS", "ctoi_R1p", 18>>, <<"PUSH_G", scrutinee>>, <<"ENTER">> >>)
    \o << BCO(0, <<T>>, << <<"TESTLT_P", 2, 7>>, <<"TESTEQ_P", tag, 7>>, <<"PUSH_LL", 3, 0>>,
                         <<"PACK", 6, 2>>, <<"SLIDE", 1, 4>>, <<"ENTER">>,
                         <<"PUSH_L", 3>>, <<"SLIDE", 1, 4>>, <<"RETURN">> >>) >>, answer)

\* A pair with a thunk of its own, unpacked; its fields are the same thunk, which is evaluated once.
LOCAL Shared ==
  Program(Thunk(<< <<"ALLOC_AP", 1>>, <<"ALLOC_PAP", 1, 1>>,
                   <<"PUSH_L", 1>>, <<"PUSH_G", 11>>, <<"MKPAP", 2, 1>>,
                   <<"PUSH_G", c>>, <<"PUSH_G", 18>>, <<"MKAP", 3, 1>>, <<"JMP", 10>>, <<"PUSH_ALTS", "ctoi_R1p", 19>>,
                   <<"PUSH_L", 3>>, <<"PUSH_APPLY", "ap_p">>, <<"PUSH_L", 4>>, <<"ENTER">> >>)
    \o << BCO(0, <<T>>, << <<"ENTER">> >>),
          BCO(0, <<T, T>>, << <<"UNPACK", 2>>, <<"SLIDE", 2, 5>>, <<"PUSH_ALTS", "ctoi_R1p", 20>>,
                            <<"PUSH_L", 2>>, <<"ENTER">> >>),
          BCO(0, <<T, T>>, << <<"PUSH_L", 4>>, <<"SLIDE", 1, 5>>, <<"ENTER">> >>) >>, C)

\* The number that a compiled function returns unboxed is tested, as an integer and as a word.
LOCAL Number(test, limit, answer) ==
  Program(Thunk(<< <<"PUSH_ALTS", "ctoi_R1n", 18>>, <<"PUSH_G", 9>>, <<"PUSH_APPLY", "ap_p">>,
                   <<"PUSH_G", 8>>, <<"ENTER">> >>)
    \o << BCO(0, <<>>, << <<test, limit, 5>>, <<"PUSH_G", a>>, <<"SLIDE", 1, 4>>, <<"RETURN">>,
                        <<"PUSH_G", b>>, <<"SLIDE", 1, 4>>, <<"RETURN">> >>) >>, answer)

\* A Double that byte code returns, of two words.
LOCAL Double(test, limit, answer) ==
  Program(Thunk(<< <<"PUSH_ALTS", "ctoi_D1", 18>>, <<"PUSH_APPLY", "ap_v">>, <<"PUSH_G", 15>>, <<"ENTER">> >>)
    \o << BCO(0, <<>>, << <<test, limit, 5>>, <<"PUSH_G", a>>, <<"SLIDE", 1, 5>>, <<"RETURN">>,
                        <<"PUSH_G", b>>, <<"SLIDE", 1, 5>>, <<"RETURN">> >>) >>, answer)

\* A function with an unboxed argument that calls a foreign function with many arguments.
LOCAL Call(n, killable) ==
  [Program(Thunk(<< <<"PUSH_ALTS", "ctoi_R1n", 18>>, <<"PUSH_UBX", <<3>> >>, <<"PUSH_APPLY", "ap_n">>,
                    <<"PUSH_G", 19>>, <<"ENTER">> >>)
    \o << BCO(0, <<>>, << <<"TESTEQ_I", 7, 5>>, <<"PUSH_G", a>>, <<"SLIDE", 1, 4>>, <<"RETURN">>,
                        <<"PUSH_G", b>>, <<"SLIDE", 1, 4>>, <<"RETURN">> >>),
          BCO(1, <<F>>, << <<"PUSH_UBX", Zeros(n)>>, <<"PUSH_L", n>>, <<"PUSH_UBX", <<0, 99>> >>,
                         <<"CCALL", n + 4, 1>>, <<"SWIZZLE", 0, 1>>, <<"SLIDE", 1, n + 3>>,
                         <<"RETURN_U", "unbx_r1">> >>) >>, A)
   EXCEPT !.killable = killable]

\* A function that needs more stack than is checked for by itself.
LOCAL Deep ==
  Program(Thunk(<< <<"PUSH_G", c>>, <<"PUSH_APPLY", "ap_p">>, <<"PUSH_G", 18>>, <<"ENTER">> >>)
    \o << BCO(1, <<T>>, << <<"STKCHECK", 75>>, <<"PUSH_UBX", Zeros(75)>>, <<"SLIDE", 0, 75>>, <<"ENTER">> >>) >>, C)

\* A partial application, or a thunk, is unpacked when the stack is all but full, by compiled code or not.
LOCAL Full(call, answer) ==
  Program(Thunk(<< <<"PUSH_UBX", Zeros(43)>>, <<"PUSH_ALTS", "ctoi_R1p", 18>> >> \o call)
    \o << BCO(0, [k \in 1..43 |-> F], << <<"SLIDE", 1, 45>>, <<"ENTER">> >>),
          [t |-> "pap", arity |-> 1, fun |-> 20, args |-> [k \in 1..6 |-> <<"p", a>>]],
          BCO(7, [k \in 1..7 |-> T], << <<"PACK", 8, 7>>, <<"ENTER">> >>),
          [t |-> "ap", fun |-> 22, args |-> [k \in 1..6 |-> <<"p", a>>]],
          BCO(0, [k \in 1..6 |-> T], << <<"SLIDE", 1, 5>>, <<"ENTER">> >>) >>, answer)

LOCAL Long == <<8, <<A, A, A, A, A, A, C>>>>
LOCAL ByCompiled == << <<"PUSH_G", c>>, <<"PUSH_G", 19>>, <<"PUSH_APPLY", "ap_pp">>, <<"PUSH_G", 7>>, <<"ENTER">> >>
LOCAL ByByteCode == << <<"PUSH_G", c>>, <<"PUSH_APPLY", "ap_p">>, <<"PUSH_G", 19>>, <<"ENTER">> >>

\* Compiled code returns to byte code, a value or that of a thunk which is byte code.
LOCAL Back(return, arg, slide) ==
  Program(Thunk(<< <<"PUSH_ALTS", return, 18>>, <<"PUSH_G", c>>, <<"PUSH_G", arg>>, <<"PUSH_APPLY", "ap_pp">>,
                   <<"PUSH_G", 6>>, <<"ENTER">> >>)
    \o << BCO(0, <<>>, << <<"PUSH_G", a>>, <<"SLIDE", 1, slide>>, <<"ENTER">> >>),
          [t |-> "ap", fun |-> 20, args |-> << <<"p", b>> >>],
          BCO(0, <<T>>, << <<"ENTER">> >>) >>, A)

\* Byte code returns an unboxed value to compiled code.
LOCAL Boxed ==
  Program(Thunk(<< <<"PUSH_G", 18>>, <<"PUSH_APPLY", "ap_p">>, <<"PUSH_G", 19>>, <<"ENTER">> >>)
    \o << BCO(1, <<>>, << <<"PUSH_UBX", <<4>> >>, <<"RETURN_U", "unbx_r1">> >>),
          [t |-> "fun", arity |-> 1, does |-> "box"] >>, <<0, << <<"n", 4>> >> >>)

\* A thunk is evaluated, then compiled code enters it again.
LOCAL Again ==
  Program(Thunk(<< <<"PUSH_ALTS", "ctoi_R1p", 18>>, <<"PUSH_G", 10>>, <<"ENTER">> >>)
    \o << BCO(0, <<>>, << <<"SLIDE", 0, 3>>, <<"PUSH_G", c>>, <<"PUSH_G", 10>>, <<"PUSH_APPLY", "ap_pp">>,
                         <<"PUSH_G", 6>>, <<"ENTER">> >>) >>, A)

\* Void and unlifted results.
LOCAL Void ==
  Program(Thunk(<< <<"PUSH_ALTS", "ctoi_V", 18>>, <<"PUSH_APPLY", "ap_v">>, <<"PUSH_G", 19>>, <<"ENTER">> >>)
    \o << BCO(0, <<>>, << <<"PUSH_ALTS", "ctoi_R1unpt", 20>>, <<"PUSH_G", b>>, <<"RETURN_U", "unpt_r1">> >>),
          BCO(1, <<>>, << <<"RETURN_U", "void">> >>),
          BCO(0, <<>>, << <<"PUSH_L", 1>>, <<"SLIDE", 1, 7>>, <<"ENTER">> >>) >>, B)

\* Breakpoints: set in the function, or met by single stepping.  What was saved is evaluated
\* afterwards; a breakpoint that is set is then met again.
LOCAL Broken(p, breaks, hits, twice) ==
  [p EXCEPT !.breaks = breaks, !.step = (breaks = {}), !.hits = hits, !.answers = @ \o <<twice>>]

InterpPrograms ==
  Applications
  \cup {Twice(11, <<5, <<B, C>>>>), Case(10, 1, <<6, <<A, C>>>>), Case(10, 0, C), Case(b, 1, C),
        Number("TESTLT_I", 0, A), Number("TESTLT_W", 3, B), Number("TESTEQ_W", -1, A),
        Double("TESTEQ_D", 7, A), Double("TESTLT_D", 7, B), Call(0, FALSE), Call(44, FALSE), Call(1, TRUE),
        Deep, Void, Shared, Full(ByCompiled, Long), Full(ByByteCode, Long),
        Full(<< <<"PUSH_G", 21>>, <<"ENTER">> >>, A),
        Full(<< <<"PUSH_G", c>>, <<"PUSH_G", 21>>, <<"PUSH_APPLY", "ap_pp">>, <<"PUSH_G", 6>>, <<"ENTER">> >>, A), Boxed, Again,
        Back("ctoi_R1p", 19, 3), Back("ctoi_R1unpt", b, 4), Back("ctoi_V", unit, 3), Twice(6, B),
        Broken(Apply(12, "ap_ppp", <<a, b, c>>, <<5, <<B, C>>>>), {1}, <<1, 1>>, <<5, <<B, C>>>>),
        Broken(Twice(11, <<5, <<B, C>>>>), {}, <<1>>, <<5, <<B, C>>>>)}
=============================================================================
