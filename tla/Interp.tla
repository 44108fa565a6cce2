------------------------------- MODULE Interp -------------------------------
(***************************************************************************)
(* The byte-code interpreter (rts/Interpreter.c), the entry code of the    *)
(* closures it shares with compiled code (rts/Apply.cmm) and the return    *)
(* addresses through which compiled code comes back to it                  *)
(* (rts/StgMiscClosures.cmm).                                              *)
(*                                                                         *)
(* One thread evaluates one closure.  Its stack is a sequence of words,    *)
(* the top first: <<"i", info>>, <<"p", address>> or <<"n", number>>.  The *)
(* interpreter may be sent back to the scheduler wherever it polls for it, *)
(* by the allocator, by the timer or because the stack is full.            *)
(***************************************************************************)
EXTENDS Integers, Sequences, SequencesExt

CONSTANTS
    Programs,                  \* what may be run: see RtsInputs
    INTERP_STACK_CHECK_THRESH,
    AP_STACK_SPLIM,
    RESERVED_STACK_WORDS,      \* words below SpLim
    RetDynSize,                \* words of a RET_DYN frame
    DSize,                     \* words of a Double or an Int64
    WordSize,                  \* a word is a number modulo this
    Chunk,                     \* words a stack overflow adds
    MaxInterrupts              \* bound: heap checks that fail and ticks of the timer

VARIABLES
    prog,        \* the program that is run
    iheap,       \* the heap: address -> closure
    istack,      \* the thread's stack, Sp[0] first
    isize,       \* the number of words above SpLim
    imode,       \* the label that the interpreter is at, or "sched", "ghc", "ccall", "done"
    iobj,        \* obj: the closure at hand (the running BCO when imode = "insn")
    ipc,         \* bciPtr
    iwhat,       \* what_next and the return code, when in the scheduler
    ibrk,        \* [stopped, next, hits, saved]: TSO_STOPPED_ON_BREAKPOINT, rts_stop_next_breakpoint,
                 \* the breakpoints that were reported, the last AP_STACK made for one
    iinterrupts, \* heap checks that failed and ticks so far
    ianswers     \* the values that were computed

vars == <<prog, iheap, istack, isize, imode, iobj, ipc, iwhat, ibrk, iinterrupts, ianswers>>

P(a) == <<"p", a>>
N(x) == <<"n", x>>
I(info) == <<"i", info>>

\* Sp += k and the k words that this pops.
Up(s, k) == SubSeq(s, k + 1, Len(s))
Top(s, k) == SubSeq(s, 1, k)

\* Sp - words < SpLim
Overflows(s, words) == Len(s) + words > isize

\* Whether the top of the stack is one of these info pointers.
Frame(s, infos) == s[1][1] = "i" /\ s[1][2] \in infos

\* The frames that take arguments: how many, and in how many words.
ApFrame ==
  [ap_v |-> <<1, 0>>, ap_f |-> <<1, 1>>, ap_d |-> <<1, DSize>>, ap_l |-> <<1, DSize>>, ap_n |-> <<1, 1>>,
   ap_p |-> <<1, 1>>, ap_pp |-> <<2, 2>>, ap_ppp |-> <<3, 3>>, ap_pppp |-> <<4, 4>>,
   ap_ppppp |-> <<5, 5>>, ap_pppppp |-> <<6, 6>>]
app_ptrs_itbl == <<"ap_p", "ap_pp", "ap_ppp", "ap_pppp", "ap_ppppp", "ap_pppppp">>

\* The return addresses that an interpreted continuation leaves (RET_BCO) and the
\* frames that hold an unboxed value, with the number of its words.
CtoI == {"ctoi_R1p", "ctoi_R1unpt", "ctoi_R1n", "ctoi_F1", "ctoi_D1", "ctoi_L1", "ctoi_V"}
RetBCO == CtoI \cup {"apply_interp"}
Unboxed == [unpt_r1 |-> 1, unbx_r1 |-> 1, f1 |-> 1, d1 |-> DSize, l1 |-> DSize, void |-> 0]

Type(o) == iheap[o].t
WHNF == {"con", "fun", "pap", "bco"}

\* Continue at a label with this stack and this closure.
Goto(label, s, o) == imode' = label /\ istack' = s /\ iobj' = o

\* threadPaused: the thunks that the stack will update become black holes.
Paused(s) ==
  [a \in DOMAIN iheap |->
     IF /\ iheap[a].t \in {"ap", "aps", "thunk"}
        /\ \E k \in 1..(Len(s) - 1) : s[k] = I("upd") /\ s[k + 1] = P(a)
     THEN [t |-> "bh"] ELSE iheap[a]]

\* RETURN_TO_SCHEDULER and RETURN_TO_SCHEDULER_NO_PAUSE.
ReturnToScheduler(todo, retcode, s) ==
  /\ Goto("sched", s, iobj) /\ iwhat' = <<todo, retcode>> /\ iheap' = Paused(s)
ReturnNoPause(s) ==
  /\ Goto("sched", s, iobj) /\ iwhat' = <<"ThreadRunGHC", "ThreadYielding">> /\ iheap' = iheap

Enter(o) == <<I("enter"), P(o)>>
ApplyInterp(o) == <<I("apply_interp"), P(o)>>
UpdFrame(o) == <<I("upd"), P(o)>>

Init ==
  /\ prog \in Programs
  /\ iheap = prog.heap /\ istack = Enter(prog.main) \o <<I("stop")>> /\ isize \in prog.sizes
  /\ imode = "sched" /\ iwhat = <<"ThreadInterpret", "start">> /\ iobj = 0 /\ ipc = 0
  /\ ibrk = [stopped |-> FALSE, next |-> prog.step, hits |-> <<>>, saved |-> 0]
  /\ iinterrupts = 0 /\ ianswers = <<>>

\* doYouWantToGC(cap), or the timer has zeroed HpLim.
Interrupt == iinterrupts < MaxInterrupts /\ iinterrupts' = iinterrupts + 1
NoInterrupt == UNCHANGED iinterrupts

-----------------------------------------------------------------------------
(* The scheduler, as far as the interpreter sees it. *)

\* A stack overflow gets the thread more stack; then it runs as what_next says.
Schedule ==
  /\ imode = "sched"
  /\ isize' = IF iwhat[2] = "StackOverflow" THEN isize + Chunk ELSE isize
  /\ imode' = IF iwhat[1] = "ThreadInterpret" THEN "start" ELSE "ghc"
  /\ UNCHANGED <<prog, iheap, istack, iobj, ipc, iwhat, ibrk, iinterrupts, ianswers>>

\* interpretBCO is entered with a closure to evaluate, a BCO to apply or an unboxed value to return.
interpretBCO ==
  /\ imode = "start"
  /\ \/ Frame(istack, {"enter"}) /\ Goto("eval", Up(istack, 2), istack[2][2])
     \/ Frame(istack, {"apply_interp"}) /\ Goto("fun", Up(istack, 2), istack[2][2])
     \/ ~ Frame(istack, {"enter", "apply_interp"}) /\ Goto("unboxed", istack, iobj)
  /\ UNCHANGED <<prog, iheap, isize, ipc, iwhat, ibrk, iinterrupts, ianswers>>

-----------------------------------------------------------------------------
(* eval: evaluate obj. *)

evalInd ==
  /\ imode = "eval" /\ Type(iobj) = "ind"
  /\ Goto("eval", istack, iheap[iobj].to)
  /\ UNCHANGED <<prog, iheap, isize, ipc, iwhat, ibrk, iinterrupts, ianswers>>

evalWHNF ==
  /\ imode = "eval" /\ Type(iobj) \in WHNF
  /\ Goto("return", istack, iobj)
  /\ UNCHANGED <<prog, iheap, isize, ipc, iwhat, ibrk, iinterrupts, ianswers>>

\* The stack that evaluates an AP: an update frame below the free variables of its code.
Unpacked(ap, s) == iheap[ap].args \o UpdFrame(ap) \o s

\* What is left on the stack when there is no room to unpack an AP.
OverflowedAP == Enter(iobj)

evalAP ==
  /\ imode = "eval" /\ Type(iobj) = "ap"
  /\ IF Overflows(istack, Len(iheap[iobj].args) + 2)
     THEN ReturnToScheduler("ThreadInterpret", "StackOverflow", OverflowedAP \o istack)
     ELSE /\ Goto("fun", Unpacked(iobj, istack), iheap[iobj].fun)
          /\ UNCHANGED <<iheap, iwhat>>
  /\ UNCHANGED <<prog, isize, ipc, ibrk, iinterrupts, ianswers>>

\* Anything else is left to compiled code.
evalOther ==
  /\ imode = "eval" /\ Type(iobj) \in {"thunk", "aps", "bh"}
  /\ ReturnNoPause(Enter(iobj) \o istack)
  /\ UNCHANGED <<prog, isize, ipc, ibrk, iinterrupts, ianswers>>

-----------------------------------------------------------------------------
(* do_return: return obj to the frame on top of the stack. *)

\* An update frame: the update of the thunk, also when it has become a black hole.
returnUpdate ==
  /\ imode = "return" /\ Frame(istack, {"upd"})
  /\ iheap' = [iheap EXCEPT ![istack[2][2]] = [t |-> "ind", to |-> iobj]]
  /\ Goto("return", Up(istack, 2), iobj)
  /\ UNCHANGED <<prog, isize, ipc, iwhat, ibrk, iinterrupts, ianswers>>

returnBCO ==
  /\ imode = "return" /\ Frame(istack, RetBCO)
  /\ Goto("cont", <<P(iobj)>> \o istack, istack[2][2])
  /\ UNCHANGED <<prog, iheap, isize, ipc, iwhat, ibrk, iinterrupts, ianswers>>

\* A frame the interpreter does not know.
returnOther ==
  /\ imode = "return" /\ ~ Frame(istack, {"upd"} \cup RetBCO \cup DOMAIN ApFrame)
  /\ ReturnNoPause(Enter(iobj) \o istack)
  /\ UNCHANGED <<prog, isize, ipc, ibrk, iinterrupts, ianswers>>

\* do_return_unboxed: the value has been pushed under an info pointer.
returnUnboxed ==
  /\ imode = "unboxed"
  /\ \E size \in {1 + Unboxed[istack[1][2]]} :
        IF Frame(Up(istack, size), RetBCO)
        THEN /\ Goto("contU", istack, istack[size + 2][2])
             /\ UNCHANGED <<iheap, iwhat>>
        ELSE ReturnNoPause(istack)
  /\ UNCHANGED <<prog, isize, ipc, ibrk, iinterrupts, ianswers>>

-----------------------------------------------------------------------------
(* do_apply: apply obj, which is in WHNF, to the arguments in the frame on *)
(* top of the stack.                                                       *)

\* More arguments than the function takes: its own are moved over the info pointer and a
\* new one is put below them, for the rest.
Shuffled(s, arity, n) == Top(s, arity) \o <<I(app_ptrs_itbl[n - arity])>> \o Up(s, arity)

\* Too few: a PAP holds the arguments there are.
NewPAP(arity, fun, args) == Append(iheap, [t |-> "pap", arity |-> arity, fun |-> fun, args |-> args])

\* A function that is byte code, or a PAP of one, with the arguments the PAP already has.
applyBCO ==
  /\ imode = "return" /\ Frame(istack, DOMAIN ApFrame)
  /\ \/ Type(iobj) = "bco"
     \/ Type(iobj) = "pap" /\ Type(iheap[iobj].fun) = "bco"
  /\ \E n \in {ApFrame[istack[1][2]][1]}, m \in {ApFrame[istack[1][2]][2]}, arity \in {iheap[iobj].arity},
        had \in {IF Type(iobj) = "pap" THEN iheap[iobj].args ELSE <<>>},
        fun \in {IF Type(iobj) = "pap" THEN iheap[iobj].fun ELSE iobj},
        args \in {Up(istack, 1)} :
       \/ /\ Type(iobj) = "pap" /\ Overflows(istack, Len(had) + 1)
          /\ ReturnToScheduler("ThreadInterpret", "StackOverflow", Enter(iobj) \o istack)
       \/ /\ ~ (Type(iobj) = "pap" /\ Overflows(istack, Len(had) + 1))
          /\ iwhat' = iwhat
          /\ \/ arity < n /\ Goto("fun", had \o Shuffled(args, arity, n), fun) /\ iheap' = iheap
             \/ arity = n /\ Goto("fun", had \o args, fun) /\ iheap' = iheap
             \/ /\ arity > n /\ iheap' = NewPAP(arity - n, fun, had \o Top(args, m))
                /\ Goto("return", Up(args, m), Len(iheap) + 1)
  /\ UNCHANGED <<prog, isize, ipc, ibrk, iinterrupts, ianswers>>

\* Machine code is left to compiled code.
deferApply ==
  /\ imode = "return" /\ Frame(istack, DOMAIN ApFrame)
  /\ \/ Type(iobj) \in {"fun", "con"}
     \/ Type(iobj) = "pap" /\ Type(iheap[iobj].fun) # "bco"
  /\ ReturnNoPause(Enter(iobj) \o istack)
  /\ UNCHANGED <<prog, isize, ipc, ibrk, iinterrupts, ianswers>>

-----------------------------------------------------------------------------
(* run_BCO: the checks before a BCO runs. *)

run_BCO == Goto("insn", istack, iobj) /\ ipc' = 1 /\ UNCHANGED <<iheap, iwhat>>

\* What is pushed when the heap check of a BCO fails: the value that was returned to it is
\* to be entered again, an unboxed one is under its own info pointer, a function is to be
\* applied again to the arguments that are on the stack.
Interrupted(label) ==
  CASE label = "cont" -> <<I("enter")>>
    [] label = "contU" -> <<>>
    [] label = "fun" -> ApplyInterp(iobj)

runReturn ==
  /\ imode \in {"cont", "contU"}
  /\ \/ /\ Interrupt
        /\ ReturnToScheduler("ThreadInterpret", "HeapOverflow", Interrupted(imode) \o istack)
        /\ ipc' = ipc
     \/ NoInterrupt /\ run_BCO
  /\ UNCHANGED <<prog, isize, ibrk, ianswers>>

runFun ==
  /\ imode = "fun"
  /\ \/ /\ Interrupt
        /\ ReturnToScheduler("ThreadInterpret", "HeapOverflow", Interrupted(imode) \o istack)
        /\ ipc' = ipc
     \/ /\ NoInterrupt /\ Overflows(istack, INTERP_STACK_CHECK_THRESH)
        /\ ReturnToScheduler("ThreadInterpret", "StackOverflow", Interrupted(imode) \o istack)
        /\ ipc' = ipc
     \/ NoInterrupt /\ ~ Overflows(istack, INTERP_STACK_CHECK_THRESH) /\ run_BCO
  /\ UNCHANGED <<prog, isize, ibrk, ianswers>>

-----------------------------------------------------------------------------
(* The instructions.  insn is the one at bciPtr: its opcode, then its      *)
(* operands.                                                               *)

code == iheap[iobj].code
insn == code[ipc]
op == insn[1]
At(ops) == imode = "insn" /\ op \in ops
Next1 == ipc' = ipc + 1

\* BRK_FUN: unless the thread has just come back from this breakpoint, and if it is set or
\* single stepping is on, the arguments and the BCO are saved in an AP_STACK and the
\* breakpoint action is called; the BCO is applied again when it returns.
Stops(index) == ~ ibrk.stopped /\ (ibrk.next \/ index \in prog.breaks)

\* The thread does not stop at the same breakpoint when it comes back, nor at the next one.
AfterBreak(index, aps) ==
  [stopped |-> TRUE, next |-> FALSE, hits |-> Append(ibrk.hits, index), saved |-> aps]

BRK_FUN ==
  /\ At({"BRK_FUN"})
  /\ IF Stops(insn[2])
     THEN \E aps \in {Len(iheap) + 1} :
          /\ iheap' = Append(iheap, [t |-> "aps", args |-> ApplyInterp(iobj) \o Top(istack, Len(iheap[iobj].bits))])
          /\ Goto("sched", Enter(prog.action) \o <<I("ap_pppv"), P(prog.unit), P(prog.unit), P(aps)>>
                           \o ApplyInterp(iobj) \o istack, iobj)
          /\ ibrk' = AfterBreak(insn[2], aps)
          /\ iwhat' = <<"ThreadRunGHC", "ThreadYielding">> /\ ipc' = ipc
     ELSE /\ ibrk' = [ibrk EXCEPT !.stopped = FALSE] /\ Next1
          /\ UNCHANGED <<iheap, istack, imode, iobj, iwhat>>
  /\ UNCHANGED <<prog, isize, iinterrupts, ianswers>>

STKCHECK ==
  /\ At({"STKCHECK"})
  /\ IF Overflows(istack, insn[2] + 1)
     THEN /\ ReturnToScheduler("ThreadInterpret", "StackOverflow", ApplyInterp(iobj) \o istack)
          /\ ipc' = ipc
     ELSE Next1 /\ UNCHANGED <<iheap, istack, imode, iobj, iwhat>>
  /\ UNCHANGED <<prog, isize, ibrk, iinterrupts, ianswers>>

\* The words that the instructions of the PUSH family push.  The offsets are from the
\* stack pointer before the instruction.
PushL(s, offsets) == [k \in 1..Len(offsets) |-> s[offsets[Len(offsets) + 1 - k] + 1]]
Pushed ==
  CASE op \in {"PUSH_L", "PUSH_LL", "PUSH_LLL"} -> PushL(istack, Tail(insn))
    [] op = "PUSH_G" -> <<P(insn[2])>>
    [] op = "PUSH_ALTS" -> <<I(insn[2]), P(insn[3])>>
    [] op = "PUSH_APPLY" -> <<I(insn[2])>>
    [] op = "PUSH_UBX" -> [k \in 1..Len(insn[2]) |-> N(insn[2][k])]
    [] op = "UNPACK" -> iheap[istack[1][2]].args

PUSH ==
  /\ At({"PUSH_L", "PUSH_LL", "PUSH_LLL", "PUSH_G", "PUSH_ALTS", "PUSH_APPLY", "PUSH_UBX", "UNPACK"})
  /\ istack' = Pushed \o istack /\ Next1
  /\ UNCHANGED <<prog, iheap, isize, imode, iobj, iwhat, ibrk, iinterrupts, ianswers>>

\* a_1 .. a_n, b_1 .. b_by, s => a_1 .. a_n, s
SLIDE ==
  /\ At({"SLIDE"})
  /\ istack' = Top(istack, insn[2]) \o Up(istack, insn[2] + insn[3]) /\ Next1
  /\ UNCHANGED <<prog, iheap, isize, imode, iobj, iwhat, ibrk, iinterrupts, ianswers>>

\* An AP or a PAP is allocated first, so that closures may refer to each other, and filled later.
ALLOC ==
  /\ At({"ALLOC_AP", "ALLOC_AP_NOUPD", "ALLOC_PAP"})
  /\ iheap' = Append(iheap, IF op = "ALLOC_PAP"
                            THEN [t |-> "pap", arity |-> insn[3], fun |-> 0, args |-> <<>>]
                            ELSE [t |-> "ap", fun |-> 0, args |-> <<>>])
  /\ istack' = <<P(Len(iheap) + 1)>> \o istack /\ Next1
  /\ UNCHANGED <<prog, isize, imode, iobj, iwhat, ibrk, iinterrupts, ianswers>>

MK ==
  /\ At({"MKAP", "MKPAP"})
  /\ iheap' = [iheap EXCEPT ![istack[insn[2] + 1][2]].fun = istack[1][2],
                            ![istack[insn[2] + 1][2]].args = SubSeq(istack, 2, insn[3] + 1)]
  /\ istack' = Up(istack, insn[3] + 1) /\ Next1
  /\ UNCHANGED <<prog, isize, imode, iobj, iwhat, ibrk, iinterrupts, ianswers>>

PACK ==
  /\ At({"PACK"})
  /\ iheap' = Append(iheap, [t |-> "con", tag |-> insn[2], args |-> Top(istack, insn[3])])
  /\ istack' = <<P(Len(iheap) + 1)>> \o Up(istack, insn[3]) /\ Next1
  /\ UNCHANGED <<prog, isize, imode, iobj, iwhat, ibrk, iinterrupts, ianswers>>

\* A word is compared without its sign.
AsWord(x) == x % WordSize

\* The tests of a case expression.  The tag of a constructor is that of Sp[0], a number is
\* under its info pointer.
Holds ==
  CASE op = "TESTLT_P" -> iheap[istack[1][2]].tag < insn[2]
    [] op = "TESTEQ_P" -> iheap[istack[1][2]].tag = insn[2]
    [] op = "TESTLT_W" -> AsWord(istack[2][2]) < AsWord(insn[2])
    [] op = "TESTEQ_W" -> AsWord(istack[2][2]) = AsWord(insn[2])
    [] op \in {"TESTLT_I", "TESTLT_D", "TESTLT_F"} -> istack[2][2] < insn[2]
    [] op \in {"TESTEQ_I", "TESTEQ_D", "TESTEQ_F"} -> istack[2][2] = insn[2]

TEST ==
  /\ At({"TESTLT_P", "TESTEQ_P", "TESTLT_I", "TESTEQ_I", "TESTLT_W", "TESTEQ_W",
         "TESTLT_D", "TESTEQ_D", "TESTLT_F", "TESTEQ_F"})
  /\ ipc' = IF Holds THEN ipc + 1 ELSE insn[3]
  /\ UNCHANGED <<prog, iheap, istack, isize, imode, iobj, iwhat, ibrk, iinterrupts, ianswers>>

\* ENTER polls for a context switch.
ENTER ==
  /\ At({"ENTER"})
  /\ \/ /\ Interrupt
        /\ ReturnToScheduler("ThreadInterpret", "ThreadYielding", <<I("enter")>> \o istack)
     \/ NoInterrupt /\ Goto("eval", Up(istack, 1), istack[1][2]) /\ UNCHANGED <<iheap, iwhat>>
  /\ UNCHANGED <<prog, isize, ipc, ibrk, ianswers>>

RETURN ==
  /\ At({"RETURN"})
  /\ Goto("return", Up(istack, 1), istack[1][2])
  /\ UNCHANGED <<prog, iheap, isize, ipc, iwhat, ibrk, iinterrupts, ianswers>>

RETURN_UNBOXED ==
  /\ At({"RETURN_U"})
  /\ Goto("unboxed", <<I(insn[2])>> \o istack, iobj)
  /\ UNCHANGED <<prog, iheap, isize, ipc, iwhat, ibrk, iinterrupts, ianswers>>

SWIZZLE ==
  /\ At({"SWIZZLE"})
  /\ istack' = [istack EXCEPT ![insn[2] + 1] = N(@[2] + insn[3])] /\ Next1
  /\ UNCHANGED <<prog, iheap, isize, imode, iobj, iwhat, ibrk, iinterrupts, ianswers>>

JMP ==
  /\ At({"JMP"}) /\ ipc' = insn[2]
  /\ UNCHANGED <<prog, iheap, istack, isize, imode, iobj, iwhat, ibrk, iinterrupts, ianswers>>

\* CCALL stk_offset ret_size: the arguments are copied out, a RET_DYN frame covers the
\* words that are not pointers and keeps the BCO, and the Capability is given up.
RetDyn(offset) == <<I("gen"), N(offset), P(iobj)>> \o [k \in 1..(RetDynSize - 3) |-> N(0)]
CCALL ==
  /\ At({"CCALL"})
  /\ Goto("ccall", RetDyn(insn[2]) \o istack, iobj)
  /\ UNCHANGED <<prog, iheap, isize, ipc, iwhat, ibrk, iinterrupts, ianswers>>

\* The foreign function, which adds its arguments.
Foreign(args) == IF args = <<>> THEN 0 ELSE FoldLeft(LAMBDA a, w : a + w[2], 0, args)
Arguments(s, offset, ret) == SubSeq(s, ret + 2, offset)

\* It returns: the frame is popped and the result is stored in the place kept for it.
foreignReturn ==
  /\ imode = "ccall" /\ Frame(istack, {"gen"})
  /\ \E s \in {Up(istack, RetDynSize)}, ret \in {insn[3]} :
        istack' = [k \in 1..ret |-> N(Foreign(Arguments(s, insn[2], ret)))] \o Up(s, ret)
  /\ imode' = "insn" /\ iobj' = istack[3][2] /\ Next1
  /\ UNCHANGED <<prog, iheap, isize, iwhat, ibrk, iinterrupts, ianswers>>

\* An exception that is raised as the call returns leaves another stack, which is run as it is.
foreignRaised ==
  /\ imode = "ccall" /\ prog.killable
  /\ ReturnNoPause(Enter(prog.unit) \o <<I("stop")>>)
  /\ UNCHANGED <<prog, isize, ipc, ibrk, iinterrupts, ianswers>>

-----------------------------------------------------------------------------
(* Compiled code, started on the frame on top of the stack. *)

ToInterpreter(s) == Goto("sched", s, iobj) /\ iwhat' = <<"ThreadInterpret", "ThreadYielding">> /\ iheap' = iheap
StkChkNP == Goto("sched", istack, iobj) /\ iwhat' = <<"ThreadRunGHC", "StackOverflow">> /\ iheap' = Paused(istack)

\* stg_AP_entry.
enterAP ==
  /\ imode = "ghc" /\ Frame(istack, {"enter"}) /\ Type(istack[2][2]) = "ap"
  /\ \E ap \in {istack[2][2]}, below \in {Up(istack, 2)} :
        IF Overflows(below, Len(iheap[ap].args) + 2)
        THEN StkChkNP
        ELSE ToInterpreter(ApplyInterp(iheap[ap].fun) \o Unpacked(ap, below))
  /\ UNCHANGED <<prog, isize, ipc, ibrk, iinterrupts, ianswers>>

\* stg_AP_STACK_entry asks for AP_STACK_SPLIM words more and goes on with the frame it has
\* put on top.
enterAP_STACK ==
  /\ imode = "ghc" /\ Frame(istack, {"enter"}) /\ Type(istack[2][2]) = "aps"
  /\ \E ap \in {istack[2][2]}, below \in {Up(istack, 2)} :
        IF Overflows(below, Len(iheap[ap].args) + 2 + AP_STACK_SPLIM)
        THEN StkChkNP
        ELSE Goto("ghc", Unpacked(ap, below), iobj) /\ UNCHANGED <<iheap, iwhat>>
  /\ UNCHANGED <<prog, isize, ipc, ibrk, iinterrupts, ianswers>>

\* stg_PAP_apply: the arguments of the PAP go on top of those on the stack; a byte-code
\* function is left to the interpreter, machine code runs.  When the stack is full, the
\* frame of the arguments is put back.
PAP_apply(pap, info, args) ==
  IF Overflows(args, Len(iheap[pap].args))
  THEN /\ Goto("sched", <<I("unpt_r1"), P(pap), I(info)>> \o args, iobj)
       /\ iwhat' = <<"ThreadRunGHC", "StackOverflow">> /\ iheap' = Paused(args)
  ELSE IF Type(iheap[pap].fun) = "bco"
       THEN ToInterpreter(ApplyInterp(iheap[pap].fun) \o iheap[pap].args \o args)
       ELSE Goto("call", iheap[pap].args \o args, iheap[pap].fun) /\ UNCHANGED <<iheap, iwhat>>

\* The generic application functions, stg_ap_pp and so on (external: generated code).
genericApply(o, info, args, n, m) ==
  \E arity \in {iheap[o].arity} :
     \/ /\ arity > n
        /\ iheap' = NewPAP(arity - n, IF Type(o) = "pap" THEN iheap[o].fun ELSE o,
                           (IF Type(o) = "pap" THEN iheap[o].args ELSE <<>>) \o Top(args, m))
        /\ Goto("ghc", Enter(Len(iheap) + 1) \o Up(args, m), iobj) /\ iwhat' = iwhat
     \/ /\ arity <= n
        /\ \E s \in {IF arity < n THEN Shuffled(args, arity, n) ELSE args} :
             IF Type(o) = "pap" THEN PAP_apply(o, info, s)
             ELSE IF Type(o) = "bco" THEN ToInterpreter(ApplyInterp(o) \o s)  \* stg_BCO_entry
             ELSE Goto("call", s, o) /\ UNCHANGED <<iheap, iwhat>>

\* The return addresses stg_ctoi_*: the value is pushed under an info pointer for the interpreter.
ctoi(o, below) ==
  IF Frame(below, {"ctoi_R1unpt"}) THEN ToInterpreter(<<I("unpt_r1"), P(o)>> \o below)
  ELSE IF Frame(below, {"ctoi_V"}) THEN ToInterpreter(<<I("void")>> \o below)
  ELSE ToInterpreter(Enter(o) \o below)

\* A closure in WHNF is returned to the frame below.
ghcReturn ==
  /\ imode = "ghc" /\ Frame(istack, {"enter", "unpt_r1"}) /\ Type(istack[2][2]) \in WHNF
  /\ ~ Frame(Up(istack, 2), {"stop"})
  /\ \E o \in {istack[2][2]}, below \in {Up(istack, 2)} :
       \/ /\ Frame(below, {"upd"})
          /\ iheap' = [iheap EXCEPT ![below[2][2]] = [t |-> "ind", to |-> o]]
          /\ Goto("ghc", Enter(o) \o Up(below, 2), iobj) /\ iwhat' = iwhat
       \/ /\ Frame(below, DOMAIN ApFrame)
          /\ genericApply(o, below[1][2], Up(below, 1), ApFrame[below[1][2]][1], ApFrame[below[1][2]][2])
       \/ /\ Frame(below, {"ap_pppv"}) /\ Goto("call", Up(below, 1), o) /\ UNCHANGED <<iheap, iwhat>>
       \/ Frame(below, CtoI) /\ ctoi(o, below)
       \/ Frame(below, {"apply_interp"}) /\ ToInterpreter(below)    \* stg_apply_interp
  /\ UNCHANGED <<prog, isize, ipc, ibrk, iinterrupts, ianswers>>

\* An indirection or a compiled thunk is entered (external code); a frame unpacked from an
\* AP_STACK, or one that holds an unboxed value, goes on.
ghcEnter ==
  /\ imode = "ghc"
  /\ \/ /\ Frame(istack, {"enter"}) /\ Type(istack[2][2]) = "ind"
        /\ Goto("ghc", Enter(iheap[istack[2][2]].to) \o Up(istack, 2), iobj) /\ UNCHANGED <<iheap, iwhat>>
     \/ /\ Frame(istack, {"enter"}) /\ Type(istack[2][2]) = "thunk"
        /\ Goto("ghc", Enter(iheap[istack[2][2]].body) \o UpdFrame(istack[2][2]) \o Up(istack, 2), iobj)
        /\ UNCHANGED <<iheap, iwhat>>
     \/ Frame(istack, {"apply_interp"}) /\ ToInterpreter(istack)
     \/ /\ Frame(istack, DOMAIN Unboxed \ {"unpt_r1"})
        /\ Frame(Up(istack, 1 + Unboxed[istack[1][2]]), CtoI) /\ ToInterpreter(istack)
     \/ /\ Frame(istack, {"unbx_r1"}) /\ Frame(Up(istack, 2), {"box"})
        /\ iheap' = Append(iheap, [t |-> "con", tag |-> 0, args |-> <<istack[2]>>])
        /\ Goto("ghc", Enter(Len(iheap) + 1) \o Up(istack, 3), iobj) /\ iwhat' = iwhat
  /\ UNCHANGED <<prog, isize, ipc, ibrk, iinterrupts, ianswers>>

\* Compiled functions (external): one enters its first argument, one applies its first to its
\* second, one returns the number in a box unboxed, one boxes what its argument returns, one is the breakpoint action.
call ==
  /\ imode = "call"
  /\ \E rest \in {Up(istack, IF iheap[iobj].does = "break" THEN 3 ELSE iheap[iobj].arity)} :
     istack' = CASE iheap[iobj].does = "first" -> <<I("enter"), istack[1]>> \o rest
                 [] iheap[iobj].does = "apply" -> <<I("enter"), istack[1], I("ap_p"), istack[2]>> \o rest
                 [] iheap[iobj].does = "unbox" -> <<I("unbx_r1"), iheap[istack[1][2]].args[1]>> \o rest
                 [] iheap[iobj].does = "box" -> <<I("enter"), istack[1], I("ap_v"), I("box")>> \o rest
                 [] iheap[iobj].does = "break" -> Enter(prog.unit) \o rest
  /\ imode' = "ghc"
  /\ UNCHANGED <<prog, iheap, isize, iobj, ipc, iwhat, ibrk, iinterrupts, ianswers>>

-----------------------------------------------------------------------------
\* What a word denotes: indirections are of no account, nor is it whether a field has been evaluated.
RECURSIVE Value(_)
Value(w) ==
  IF w[1] # "p" THEN w
  ELSE LET o == iheap[w[2]]
       IN CASE o.t = "ind" -> Value(P(o.to))
            [] o.t = "con" -> <<o.tag, [k \in DOMAIN o.args |-> Value(o.args[k])]>>
            [] o.t = "thunk" -> Value(P(o.body))
            [] OTHER -> <<o.t>>

\* The value reaches the bottom of the stack.  If a breakpoint was hit, what it saved is
\* evaluated next: the debugger may do that at any later time.
finish ==
  /\ imode = "ghc" /\ Frame(istack, {"enter"}) /\ Type(istack[2][2]) \in WHNF
  /\ Frame(Up(istack, 2), {"stop"})
  /\ ianswers' = Append(ianswers, Value(istack[2]))
  /\ \/ /\ ibrk.saved # 0 /\ Len(ianswers) = 0
        /\ Goto("ghc", Enter(ibrk.saved) \o <<I("stop")>>, iobj)
     \/ /\ ~ (ibrk.saved # 0 /\ Len(ianswers) = 0)
        /\ Goto("done", istack, iobj)
  /\ UNCHANGED <<prog, iheap, isize, ipc, iwhat, ibrk, iinterrupts>>

Next ==
  \/ Schedule \/ interpretBCO \/ evalInd \/ evalWHNF \/ evalAP \/ evalOther
  \/ returnUpdate \/ returnBCO \/ returnOther \/ returnUnboxed \/ applyBCO \/ deferApply
  \/ runReturn \/ runFun
  \/ BRK_FUN \/ STKCHECK \/ PUSH \/ SLIDE \/ ALLOC \/ MK \/ PACK \/ TEST \/ ENTER \/ RETURN
  \/ RETURN_UNBOXED \/ SWIZZLE \/ JMP \/ CCALL \/ foreignReturn \/ foreignRaised
  \/ enterAP \/ enterAP_STACK \/ ghcReturn \/ ghcEnter \/ call \/ finish

-----------------------------------------------------------------------------
(* Properties. *)

\* Whatever interrupts it and wherever the stack has to grow, the thread never waits for a
\* thunk of its own and computes the value of the program, unless it is killed; and what a breakpoint saved has the value that the
\* function had.
Answers ==
  /\ imode = "ghc" /\ Frame(istack, {"enter"}) => Type(istack[2][2]) # "bh"
  /\ \A k \in DOMAIN ianswers : ianswers[k] \in {prog.answers[k]} \cup (IF prog.killable THEN {<<0, <<>>>>} ELSE {})

\* The stack never grows into what lies below the words that are reserved under SpLim.
StackInBounds == Len(istack) <= isize + RESERVED_STACK_WORDS

\* The words that a bitmap says are pointers are, and the others are not.
Matches(words, bits) ==
  Len(words) >= Len(bits) /\ \A k \in 1..Len(bits) : words[k][1] = (IF bits[k] THEN "p" ELSE "n")
Bits(o) == iheap[o].bits
NonPtr(k) == [j \in 1..k |-> FALSE]
Ptrs(k) == [j \in 1..k |-> TRUE]

\* The layout that the garbage collector takes a frame to have, its first word apart.
Layout(s) ==
  CASE Frame(s, {"enter", "upd", "unpt_r1"}) -> <<TRUE>>
    [] Frame(s, {"unbx_r1", "f1", "d1", "l1", "void"}) -> NonPtr(Unboxed[s[1][2]])
    [] Frame(s, {"ap_v", "ap_n", "ap_f", "ap_d", "ap_l"}) -> NonPtr(ApFrame[s[1][2]][2])
    [] Frame(s, {"box"}) -> <<>>
    [] Frame(s, {"ap_pppv"}) -> Ptrs(3)
    [] Frame(s, {app_ptrs_itbl[k] : k \in 1..6}) -> Ptrs(ApFrame[s[1][2]][2])
    [] Frame(s, RetBCO) -> <<TRUE>> \o Bits(s[2][2])
    [] Frame(s, {"gen"}) -> <<FALSE, TRUE>> \o NonPtr(RetDynSize - 3 + s[2][2])

RECURSIVE Walks(_)
Walks(s) ==
  /\ s # <<>> /\ s[1][1] = "i"
  /\ \/ s = <<I("stop")>>
     \/ s[1][2] # "stop" /\ Matches(Tail(s), Layout(s)) /\ Walks(Up(s, 1 + Len(Layout(s))))

\* Whenever the thread is out of the interpreter, so that there may be a collection, its
\* stack is a sequence of frames, each with pointers exactly where the collector expects them.
StackIsSane == imode \in {"sched", "ccall"} => Walks(istack)

\* A breakpoint is reported once each time it is reached, however often the code it is in is
\* started again: because the action returns, and because the stack or the heap was full.
BreaksOnce == imode = "done" /\ ~ prog.killable => ibrk.hits = prog.hits
=============================================================================
