------------------------------- MODULE SysMan --------------------------------
(***************************************************************************)
(* Start-up and shutdown of GUM: the system manager (parallel/SysMan.c)    *)
(* and what a PE does before and after it takes part in the computation    *)
(* (ParInit.c, LLComms.c, processMessages of HLComms.c).                   *)
(*                                                                         *)
(* SysMan spawns the PEs and forks the main one; each tells it that it is  *)
(* ready and waits for the table of all PEs; the main PE ends the          *)
(* computation.  PVM is external: messages between two tasks stay in order, *)
(* those of different tasks and the notifications of PVM overtake one      *)
(* another, and what is sent to a task that has left is lost.              *)
(***************************************************************************)
EXTENDS Integers, Sequences, FiniteSets, SequencesExt

CONSTANT Launches      \* how programs are started; see Init

VARIABLES launch,      \* one of Launches; never changes
          sm,          \* the variables of SysMan
          pe,          \* those of each PE
          toSys, toPE, \* the messages of a PE to SysMan, and of SysMan to a PE
          exits,       \* the PEs whose end PVM is telling SysMan of
          afloat,      \* the fish that are under way between PEs
          erred,       \* history: the PEs that have stopped with an error
          mistaken     \* history: one of them was taken for the main PE

svars == <<launch, sm, pe, toSys, toPE, exits, afloat, erred, mistaken>>

Main == 1
PEtasks == DOMAIN pe
Asked == 1 .. launch.nPEs
InGroup(t) == pe[t].pc \in {"waiting", "running", "told", "stopping"}

-----------------------------------------------------------------------------
(* SysMan *)

broadcastPEtids(s) ==
  [t \in PEtasks |-> IF InGroup(t)
     THEN Append(toPE[t], [op |-> "PP_PETIDS", ids |-> [i \in Asked |-> s.PEbuffer[i - 1]]])
     ELSE toPE[t]]

\* Added to what is on its way already.
broadcastFinish(s, out) ==
  [t \in PEtasks |-> IF InGroup(t) /\ \E i \in Asked : s.PEbuffer[i - 1] = t
     THEN Append(out[t], [op |-> "PP_FINISH", ids |-> <<>>]) ELSE out[t]]

\* A PE that is not the main one is entered twice, at nextPE and at PEsArrived.
Entered(s, t, isMain) ==
  LET known == \E i \in 1 .. launch.nPEs - 1 : s.PEbuffer[i] = t
      listed == IF known THEN s ELSE [s EXCEPT !.PEbuffer[s.nextPE] = t, !.nextPE = @ + 1]
  IN  IF isMain THEN [s EXCEPT !.PEbuffer[0] = t]
      ELSE [listed EXCEPT !.PEbuffer[s.PEsArrived] = t, !.PEsArrived = @ + 1]

Admit(t, isMain) ==
  LET s == Entered(sm, t, isMain)
      here == s.PEbuffer[0] # 0
  IN  /\ launch.nPEs < launch.MAX_PES
      /\ sm' = [s EXCEPT !.watched = @ \cup {t},
                         !.hostwatch = @ \/ (s.PEsArrived = launch.nPEs /\ here)]
      /\ toPE' = IF s.PEsArrived >= launch.nPEs /\ here THEN broadcastPEtids(s) ELSE toPE
      /\ exits' = IF pe[t].pc = "gone" THEN exits \cup {t} ELSE exits
      /\ UNCHANGED pe

\* SysMan does not need the PE and kills it.
Refuse(t) ==
  /\ launch.nPEs >= launch.MAX_PES
  /\ pe' = [pe EXCEPT ![t].pc = "killed"]
  /\ UNCHANGED <<sm, toPE, exits>>

\* Without an argument in the message isMain is not initialised.
readyPE(t) ==
  /\ sm.pc = "loop" /\ toSys[t] # <<>> /\ Head(toSys[t]).op = "PP_READY"
  /\ toSys' = [toSys EXCEPT ![t] = Tail(@)]
  /\ \E isMain \in (IF Head(toSys[t]).args = <<>> THEN BOOLEAN ELSE {Head(toSys[t]).args[1] = 1}) :
       /\ Admit(t, isMain) \/ Refuse(t)
       /\ mistaken' = (mistaken \/ (isMain /\ t # Main))
  /\ UNCHANGED <<launch, afloat, erred>>

\* The size of the message tells an orderly end, two long words, from the
\* notification of PVM, an int.
getExitCode(nbytes, code) ==
  CASE nbytes = 4 -> -1
    [] nbytes = 8 -> code
    [] OTHER -> -2

\* One turn of the loop of finishPE, for slot i; w is [s, out], SysMan's variables and the
\* messages to the PEs.  The end of the main PE starts the shutdown, and the last one exits.
FinishSlot(w, i, t, exitCode) ==
  LET cleared == [w.s EXCEPT !.PEsTerminated = @ + 1, !.PEbuffer[i] = 0]
      start == exitCode = 0 /\ ~ w.s.Finishing /\ i = 0
      over == cleared.PEsTerminated >= launch.nPEs
  IN  IF w.s.pc = "exited" \/ w.s.PEbuffer[i] # t THEN w
      ELSE [s |-> [cleared EXCEPT !.Finishing = @ \/ start, !.pc = IF over THEN "exited" ELSE @],
            out |-> IF start THEN broadcastFinish(cleared, w.out) ELSE w.out]

\* Every slot the PE is in counts.
finishPE(t, exitCode) ==
  LET w == FoldLeft(LAMBDA x, i : FinishSlot(x, i - 1, t, exitCode), [s |-> sm, out |-> toPE],
                    [i \in Asked |-> i])
  IN  /\ sm' = w.s /\ toPE' = w.out
      /\ UNCHANGED <<launch, pe, afloat, erred, mistaken>>

FinishReceived(t) ==
  /\ sm.pc = "loop" /\ toSys[t] # <<>> /\ Head(toSys[t]).op = "PP_FINISH"
  /\ toSys' = [toSys EXCEPT ![t] = Tail(@)]
  /\ finishPE(t, getExitCode(launch.long * Len(Head(toSys[t]).args), Last(Head(toSys[t]).args)))
  /\ UNCHANGED exits

ExitNoticed(t) ==
  /\ sm.pc = "loop" /\ t \in exits
  /\ exits' = exits \ {t}
  /\ finishPE(t, getExitCode(4, 0))
  /\ UNCHANGED toSys

\* External: a host is added to the virtual machine; PVM tells SysMan, which
\* spawns one more PE there.
newPE(t) ==
  /\ sm.pc = "loop" /\ sm.hostwatch /\ pe[t].pc = "absent"
  /\ sm.nSpawn < launch.MAX_PES
  /\ sm' = [sm EXCEPT !.nSpawn = @ + 1]
  /\ pe' = [pe EXCEPT ![t].pc = "spawned"]
  /\ UNCHANGED <<launch, toSys, toPE, exits, afloat, erred, mistaken>>

-----------------------------------------------------------------------------
(* The PEs *)

Send(t, msgs) == toSys' = [toSys EXCEPT ![t] = @ \o msgs]
Message(op, args) == [op |-> op, args |-> args]

\* A PE leaves PVM.
Exit(t) ==
  /\ pe' = [pe EXCEPT ![t].pc = "gone"]
  /\ exits' = IF t \in sm.watched THEN exits \cup {t} ELSE exits

startPEComms(t) ==
  /\ pe[t].pc = "spawned"
  /\ pe' = [pe EXCEPT ![t].pc = "waiting"]
  /\ Send(t, <<Message("PP_READY", <<IF t = Main THEN 1 ELSE 0>>)>>)
  /\ UNCHANGED <<launch, sm, toPE, exits, afloat, erred, mistaken>>

\* PE numbers go on from where they were when a table comes again.
registerTask(p, t, id) ==
  [p EXCEPT !.nextPE = @ + 1,
            !.thisPE = IF id = t THEN p.nextPE + 1 ELSE @,
            !.numbers = IF id = 0 THEN @ ELSE [@ EXCEPT ![id] = p.nextPE + 1]]

processPEtids(p, t, ids) ==
  FoldLeft(LAMBDA q, id : registerTask(q, t, id), [p EXCEPT !.allPEs = ids], ids)

\* A message of SysMan arrives, whatever the PE is doing: while it waits for the
\* table (waitForPEOp, processUnexpectedMessageDuringStartup), takes part
\* (processMessages) or waits for the end (stopPEComms).
SysManMessage(t) ==
  /\ toPE[t] # <<>> /\ InGroup(t)
  /\ toPE' = [toPE EXCEPT ![t] = Tail(@)]
  /\ LET m == Head(toPE[t])
     IN  \/ /\ m.op = "PP_PETIDS" /\ pe[t].pc # "stopping"
            /\ pe' = [pe EXCEPT ![t] = [processPEtids(@, t, m.ids) EXCEPT
                        !.pc = IF @ = "waiting" THEN "running" ELSE @]]
            /\ UNCHANGED exits
         \/ /\ m.op = "PP_FINISH" /\ pe[t].pc \in {"running", "told"}
            /\ pe' = [pe EXCEPT ![t].pc = "told"]
            /\ UNCHANGED exits
         \/ /\ m.op = "PP_FINISH" /\ pe[t].pc \in {"waiting", "stopping"}
            /\ Exit(t)
         \/ /\ m.op = "PP_PETIDS" /\ pe[t].pc = "stopping"
            /\ UNCHANGED <<pe, exits>>
  /\ UNCHANGED <<launch, sm, toSys, afloat, erred, mistaken>>

\* External: the main PE ends the computation, a PE that was told to finish does
\* so, and a PE may meet an error.
stopPEComms(t, n) ==
  /\ pe[t].pc \in {"running", "told"}
  /\ IF n = 0 THEN t = Main \/ pe[t].pc = "told" ELSE Cardinality(erred) < launch.fails
  /\ pe' = [pe EXCEPT ![t].pc = "stopping"]
  /\ Send(t, (IF n = 0 THEN <<>> ELSE <<Message("PP_READY", <<>>)>>) \o <<Message("PP_FINISH", <<n, n>>)>>)
  /\ erred' = IF n = 0 THEN erred ELSE erred \cup {t}
  /\ UNCHANGED <<launch, sm, toPE, exits, afloat, mistaken>>

\* sendFish, called from the scheduler: a PE without work sends a fish to one it knows; one at a time, and
\* once in its life here.
sendFish(t, u) ==
  /\ pe[t].pc = "running" /\ t \in launch.fishers /\ ~ pe[t].fished
  /\ u \in ToSet(pe[t].allPEs) \ {0, t}
  /\ pe' = [pe EXCEPT ![t].fished = TRUE, ![t].outstandingFishes = @ + 1]
  /\ afloat' = afloat \cup {[orig |-> t, to |-> u]}
  /\ UNCHANGED <<launch, sm, toSys, toPE, exits, erred, mistaken>>

\* Whether the PE waits for its table, knows the sender or not, a fish that finds
\* nothing goes home (bounceFish; processFish is in GUM).  A PE that waits for the
\* end ignores it.
FishArrives(f) ==
  /\ InGroup(f.to)
  /\ afloat' = (afloat \ {f}) \cup
       (IF pe[f.to].pc = "stopping" \/ f.to = f.orig THEN {} ELSE {[f EXCEPT !.to = f.orig]})
  /\ pe' = IF f.to = f.orig /\ pe[f.to].pc # "stopping"
           THEN [pe EXCEPT ![f.to].outstandingFishes = @ - 1] ELSE pe
  /\ UNCHANGED <<launch, sm, toSys, toPE, exits, erred, mistaken>>

FishLost(f) ==
  /\ pe[f.to].pc \in {"gone", "killed"}
  /\ afloat' = afloat \ {f}
  /\ UNCHANGED <<launch, sm, pe, toSys, toPE, exits, erred, mistaken>>

-----------------------------------------------------------------------------
\* All PEs that were asked for have been spawned or forked (createPEs, main).
Init ==
  /\ launch \in Launches
  /\ sm = [pc |-> "loop", PEbuffer |-> [i \in 0 .. launch.MAX_PES - 1 |-> 0], PEsArrived |-> 1,
           nextPE |-> 1, PEsTerminated |-> 0, Finishing |-> FALSE, nSpawn |-> 0,
           watched |-> {}, hostwatch |-> FALSE]
  /\ pe = LET all == 1 .. launch.nPEs + launch.hosts
          IN  [t \in all |-> [pc |-> IF t \in Asked THEN "spawned" ELSE "absent", allPEs |-> <<>>,
                 numbers |-> [u \in all |-> 0], nextPE |-> 0, thisPE |-> 0,
                 outstandingFishes |-> 0, fished |-> FALSE]]
  /\ toSys = [t \in PEtasks |-> <<>>] /\ toPE = [t \in PEtasks |-> <<>>]
  /\ exits = {} /\ afloat = {} /\ erred = {} /\ mistaken = FALSE

Next ==
  \/ \E t \in PEtasks :
       \/ readyPE(t) \/ FinishReceived(t) \/ ExitNoticed(t) \/ newPE(t)
       \/ startPEComms(t) \/ SysManMessage(t)
       \/ \E n \in {0, 1} : stopPEComms(t, n)
       \/ \E u \in PEtasks : sendFish(t, u)
  \/ \E f \in afloat : FishArrives(f) \/ FishLost(f)

Spec == Init /\ [][Next]_svars

-----------------------------------------------------------------------------
(* Properties *)

Started(t) == pe[t].pc \in {"running", "told", "stopping"}

\* No PE takes part before all that were asked for are in the group (readyPE).
StartTogether == (\E t \in PEtasks : Started(t)) => \A t \in Asked : pe[t].pc # "spawned"

\* All PEs have the same table: the main PE first, and each PE that was asked for once; one that
\* has failed may be missing from a table that was sent later.  Left out: after a PE that failed
\* was taken for the main one (mistaken).
TablesAgree ==
  ~ mistaken => \A t \in PEtasks : pe[t].allPEs # <<>> =>
    /\ pe[t].allPEs[1] = Main
    /\ \A i, j \in DOMAIN pe[t].allPEs : pe[t].allPEs[i] = pe[t].allPEs[j] => i = j \/ pe[t].allPEs[i] = 0
    /\ \A u \in Asked \ ToSet(pe[t].allPEs) : u \in erred
    /\ \A u \in PEtasks : pe[u].allPEs # <<>> => \A i \in Asked :
         pe[t].allPEs[i] = pe[u].allPEs[i] \/ 0 \in {pe[t].allPEs[i], pe[u].allPEs[i]}

\* "If the number of task-ids sent was larger than expected then it must have been a task
\* generated after the rest of the program had started" (SysMan.c).  TLC refutes that a PE is in
\* the table it is sent: a PE that joins later is not, since nPEs ids are sent as before.
InOwnTable == \A t \in PEtasks : erred = {} /\ pe[t].allPEs # <<>> => t \in ToSet(pe[t].allPEs)

\* Without a failure or a PE that came later, every PE numbers all the PEs, and
\* itself, by their places in the table (registerTask).
NumbersAgree ==
  erred = {} /\ (\A t \in PEtasks \ Asked : pe[t].pc \in {"absent", "spawned"}) =>
    \A t \in PEtasks : pe[t].allPEs # <<>> =>
      /\ pe[t].allPEs[pe[t].thisPE] = t
      /\ \A i \in Asked : pe[t].numbers[pe[t].allPEs[i]] = i

\* SysMan ends after all PEs that were asked for have ended their computations.  Left out: after a
\* PE that failed was taken for the main one (mistaken).
SysManLast ==
  sm.pc = "exited" /\ ~ mistaken => \A t \in Asked : pe[t].pc \in {"stopping", "gone"}

\* No PE leaves before the main PE has ended the computation: "the PE should not
\* halt until outstanding error messages have been processed" (ParInit.c).  A PE that failed and
\* was taken for the main one (mistaken) may have done that.
NobodyLeavesFirst ==
  (\E t \in PEtasks : pe[t].pc = "gone") => sm.Finishing /\ (mistaken \/ pe[Main].pc = "stopping")

\* Nothing is under way any more and the main PE has ended.
Quiet ==
  /\ \A t \in PEtasks : /\ toSys[t] = <<>> \/ sm.pc = "exited"
                        /\ toPE[t] = <<>> \/ ~ InGroup(t)
                        /\ pe[t].pc \notin {"spawned", "told"}
  /\ pe[Main].pc # "running" /\ (exits = {} \/ sm.pc = "exited")

\* A PE that waits for PP_FINISH in stopPEComms after SysMan has struck it off: none is sent to it
\* any more.
Forgotten(t) == pe[t].pc = "stopping" /\ \A i \in Asked : sm.PEbuffer[i - 1] # t

\* In the end SysMan has ended and no PE that was asked for is left running: each is gone, or
\* Forgotten.  Left out: a failure of the main PE or of one that was taken for it (mistaken);
\* words of eight bytes, for which getExitCode takes no end for an orderly one; and as many PEs
\* as SysMan has room for, which readyPE kills.
EndsForAll ==
  Quiet /\ ~ mistaken /\ launch.long = 4 /\ launch.nPEs < launch.MAX_PES /\ Main \notin erred =>
    sm.pc = "exited" /\ \A t \in Asked : pe[t].pc = "gone" \/ Forgotten(t)

\* The same without exceptions.  TLC refutes it: the main PE is always Forgotten.
AllLeave == Quiet => sm.pc = "exited" /\ \A t \in Asked : pe[t].pc = "gone"

\* A fish is under way or has come home, unless a PE that ends has eaten it.
FishComeHome ==
  \A t \in PEtasks : pe[t].pc = "running" /\ erred = {} /\ ~ sm.Finishing /\ pe[Main].pc # "stopping" =>
    pe[t].outstandingFishes = Cardinality({f \in afloat : f.orig = t})

SysManSound ==
  /\ StartTogether /\ TablesAgree /\ NumbersAgree /\ SysManLast
  /\ NobodyLeavesFirst /\ EndsForAll /\ FishComeHome
=============================================================================
