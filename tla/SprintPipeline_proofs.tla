----------------------- MODULE SprintPipeline_proofs -----------------------
(***************************************************************************)
(* Beta before every phase: for any number of tickets, runs, halts,        *)
(* crashes and torn boundary files.  The board plays no part in it: no     *)
(* command of it touches what a run knows of Beta's answers.               *)
(***************************************************************************)
EXTENDS SprintPipeline, TLAPS

(* The types of what a run knows. *)
RunTyped ==
    /\ phase \in Phase /\ args \in Args
    /\ known \subseteq Phase /\ cleared \subseteq Phase /\ answered \subseteq Phase
    /\ asked \in {0} \cup Phase

(* What lets a run pass a boundary is Beta's answer to it: the boundaries  *)
(* in the file, in the list of the run, and all before the one that the    *)
(* last halt asks for.                                                     *)
Answered ==
    /\ known \subseteq answered /\ cleared \subseteq answered
    /\ 1..(asked - 1) \subseteq answered
    /\ 1..(args.pending - 1) \subseteq answered
    /\ args.pass => args.pending \in answered
    /\ args.mode = "adhoc" /\ pc # "idle" => 1..(phase - 1) \subseteq answered
    /\ pc \in {"record", "recording"} => args.mode = "adhoc"

BetaInv == RunTyped /\ Answered /\ BetaBeforePhase

LEMMA PhasesAre == Len(Phases) = 5 /\ Phase = 1..5
  BY DEF Phase, Phases

LEMMA BetaInit == Init => BetaInv
<1> SUFFICES ASSUME Init PROVE BetaInv
  OBVIOUS
<1>1. args \in Args /\ args.pending = 0 /\ ~args.pass /\ args.mode = "solo"
  BY PhasesAre DEF Init, Args, NoArgs
<1>2. RunTyped
  BY <1>1, PhasesAre DEF Init, RunTyped
<1>3. Answered /\ BetaBeforePhase
  BY <1>1 DEF Init, Answered, BetaBeforePhase
<1> QED BY <1>2, <1>3 DEF BetaInv

(* Going on within a phase changes nothing that Beta has to do with. *)
LEMMA BetaGo ==
  ASSUME BetaInv, NEW place \in {"phase", "wait", "after", "handoff"}, Go(place),
         pc \notin {"idle", "consult"}
  PROVE  BetaInv'
<1>1. RunTyped'
  BY DEF BetaInv, RunTyped, Go
<1>2. Answered' /\ BetaBeforePhase'
  BY DEF BetaInv, Answered, BetaBeforePhase, Go
<1> QED BY <1>1, <1>2 DEF BetaInv

(* A run that ends keeps the file, and asks for a boundary whose           *)
(* predecessors have been answered.                                        *)
LEMMA BetaEnd ==
  ASSUME BetaInv, End, asked' \in {0} \cup Phase, 1..(asked' - 1) \subseteq answered
  PROVE  BetaInv'
<1>1. /\ args' = NoArgs /\ args' \in Args
      /\ args'.pending = 0 /\ ~args'.pass /\ args'.mode = "solo"
  BY PhasesAre DEF End, Args, NoArgs
<1>2. RunTyped'
  BY <1>1, PhasesAre DEF BetaInv, RunTyped, End
<1>3. 1..(args'.pending - 1) = {}
  BY <1>1
<1>4. Answered' /\ BetaBeforePhase'
  BY <1>1, <1>3 DEF BetaInv, Answered, BetaBeforePhase, End
<1> QED BY <1>2, <1>4 DEF BetaInv

LEMMA BetaHalt ==
  ASSUME BetaInv, Halt
  PROVE  BetaInv'
<1>1. 1..(0 - 1) = {}
  OBVIOUS
<1> QED BY <1>1, BetaEnd DEF Halt, HaltFor

LEMMA BetaStep == BetaInv /\ [Next]_vars => BetaInv'
<1> SUFFICES ASSUME BetaInv, [Next]_vars PROVE BetaInv'
  OBVIOUS
<1> USE DEF BetaInv
<1>1. ASSUME UNCHANGED run PROVE BetaInv'
  BY <1>1 DEF run, RunTyped, Answered, BetaBeforePhase
<1>2. CASE Start
  <2>1. PICK a \in Args :
            /\ a.pending \in {0, asked}
            /\ a.pass => a.pending # 0
            /\ args' = a
            /\ known' = IF a.resume THEN cleared ELSE {}
            /\ answered' = answered \cup {b \in {asked} : a.pass}
    BY <1>2 DEF Start
  <2>2. /\ pc' = "consult" /\ phase' = 1
        /\ cleared' = cleared /\ asked' = asked
    BY <1>2 DEF Start
  <2>3. a.pass => asked \in Phase /\ a.pending = asked
    BY <2>1 DEF RunTyped
  <2>4. answered \subseteq answered' /\ answered' \subseteq Phase
    BY <2>1, <2>3 DEF RunTyped
  <2>5. RunTyped'
    BY <2>1, <2>2, <2>4, PhasesAre DEF RunTyped
  <2>6. 1..(a.pending - 1) \subseteq answered'
    <3>1. CASE a.pending = 0
      BY <3>1
    <3>2. CASE a.pending = asked
      BY <3>2, <2>4 DEF Answered
    <3> QED BY <2>1, <3>1, <3>2
  <2>7. a.pass => a.pending \in answered'
    BY <2>1, <2>3
  <2>8. 1..(asked - 1) \subseteq answered'
    BY <2>4 DEF Answered
  <2>9. known' \subseteq answered' /\ cleared' \subseteq answered'
    BY <2>1, <2>2, <2>4 DEF Answered
  <2>10. 1..(1 - 1) = {}
    OBVIOUS
  <2> QED
    BY <2>1, <2>2, <2>5, <2>6, <2>7, <2>8, <2>9, <2>10 DEF Answered, BetaBeforePhase
<1>3. CASE Consult
  <2>1. CASE (Passed \/ args.mode = "solo") /\ Go("phase")
    <3>1. RunTyped'
      BY <2>1 DEF RunTyped, Go
    <3>2. Answered'
      BY <2>1, <1>3 DEF Answered, Go, Consult
    <3>3. ASSUME args.mode = "adhoc" PROVE 1..phase \subseteq answered
      <4>1. Passed
        BY <2>1, <3>3
      <4>2. phase \in answered
        BY <4>1 DEF Passed, Answered, RunTyped, Args, Phase
      <4>3. 1..(phase - 1) \subseteq answered
        BY <1>3, <3>3 DEF Consult, Answered
      <4>4. 1..phase = 1..(phase - 1) \cup {phase}
        BY PhasesAre DEF RunTyped
      <4> QED BY <4>2, <4>3, <4>4
    <3>4. BetaBeforePhase'
      BY <2>1, <3>3 DEF BetaBeforePhase, Go
    <3> QED BY <3>1, <3>2, <3>4
  <2>2. CASE args.mode = "adhoc" /\ HaltFor(phase)
    BY <1>3, <2>2, BetaEnd DEF HaltFor, Consult, Answered, RunTyped
  <2> QED BY <1>3, <2>1, <2>2 DEF Consult
<1>4. CASE Consume
  <2>1. args.pass /\ args.pending \in {0, phase} /\ args.mode = "adhoc" /\ pc = "consult"
    BY <1>4 DEF Consume, Applies
  <2>2. phase \in answered
    BY <2>1, PhasesAre DEF Answered, RunTyped
  <2>3. 1..phase = 1..(phase - 1) \cup {phase}
    BY PhasesAre DEF RunTyped
  <2>4. 1..phase \subseteq answered
    BY <2>1, <2>2, <2>3 DEF Answered
  <2>5. /\ args' \in Args /\ args'.mode = "adhoc" /\ ~args'.pass
        /\ args'.pending = 0
    <3> DEFINE pending == IF args.pending = phase THEN 0 ELSE args.pending
    <3>1. pending = 0 /\ 0 \in 0..Len(Phases)
      BY <2>1, PhasesAre
    <3>2. args' = [args EXCEPT !.pass = FALSE, !.pending = pending]
      BY <1>4 DEF Consume
    <3> HIDE DEF pending
    <3> QED BY <2>1, <3>1, <3>2 DEF RunTyped, Args
  <2>6. 1..(args'.pending - 1) = {}
    BY <2>5
  <2>7. UNCHANGED <<phase, known, cleared, asked, answered>> /\ pc' = "record"
    BY <1>4 DEF Consume
  <2>8. RunTyped'
    BY <2>5, <2>7 DEF RunTyped
  <2> QED BY <2>1, <2>4, <2>5, <2>6, <2>7, <2>8 DEF Answered, BetaBeforePhase
<1>5. CASE RecordOpen
  <2>1. pc = "record" /\ 1..phase \subseteq answered /\ phase \in 1..phase
    BY <1>5, PhasesAre DEF RecordOpen, Answered, BetaBeforePhase, RunTyped
  <2>2. /\ known' = known \cup {phase} /\ cleared' \in {{}, cleared}
        /\ pc' \in {"recording", "phase"}
        /\ UNCHANGED <<phase, args, asked, answered>>
    BY <1>5 DEF RecordOpen
  <2>3. RunTyped'
    BY <2>2 DEF RunTyped
  <2> QED BY <2>1, <2>2, <2>3 DEF Answered, BetaBeforePhase
<1>6. CASE RecordWrite
  <2>1. /\ pc = "recording" /\ pc' = "phase" /\ cleared' = known
        /\ UNCHANGED <<phase, args, known, asked, answered>>
    BY <1>6 DEF RecordWrite
  <2> QED BY <2>1 DEF RunTyped, Answered, BetaBeforePhase
<1>7. CASE Plan \/ Design \/ ReleasePrep \/ Retro
  BY <1>7, BetaGo, BetaHalt DEF Plan, Design, ReleasePrep, Retro, Spawn, In
<1>8. CASE PlanReturns \/ DesignReturns \/ HandOffReturns \/ ReleaseReturns \/ RetroReturns
  BY <1>8, BetaGo, BetaHalt
  DEF PlanReturns, DesignReturns, HandOffReturns, ReleaseReturns, RetroReturns, Back
<1>9. CASE Execute
  <2>1. CASE Halt \/ Go("after")
    BY <1>9, <2>1, BetaGo, BetaHalt DEF Execute, In
  <2>2. CASE pc' = "handoff" /\ UNCHANGED <<phase, args, known, cleared, asked, answered>>
    BY <1>9, <2>2 DEF Execute, In, RunTyped, Answered, BetaBeforePhase
  <2> QED BY <1>9, <2>1, <2>2 DEF Execute
<1>10. CASE HandOff
  BY <1>10 DEF HandOff, RunTyped, Answered, BetaBeforePhase
<1>11. CASE After
  <2>1. CASE Halt
    BY <2>1, BetaHalt
  <2>2. CASE /\ phase < Len(Phases)
             /\ phase' = phase + 1 /\ pc' = "consult"
             /\ UNCHANGED <<args, known, todo, cleared, asked, answered>>
    <3>1. RunTyped'
      BY <2>2, PhasesAre DEF RunTyped
    <3>2. phase' - 1 = phase
      BY <2>2, PhasesAre DEF RunTyped
    <3> QED BY <1>11, <2>2, <3>1, <3>2 DEF After, Answered, BetaBeforePhase
  <2> QED BY <1>11, <2>1, <2>2 DEF After
<1>12. CASE Crash
  BY <1>12, BetaEnd DEF Crash, Answered, RunTyped
<1> QED
  BY <1>1, <1>2, <1>3, <1>4, <1>5, <1>6, <1>7, <1>8, <1>9, <1>10, <1>11, <1>12
  DEF Next, Full, vars

(* A run of sprint:full in ad hoc mode enters a phase only after Beta has  *)
(* let pass its boundary and all before it: full.js recognizes an answered *)
(* boundary by its file or by --pending-phase, both of which a halted or   *)
(* killed run leaves behind.                                               *)
THEOREM BetaFirst == Spec => []BetaBeforePhase
<1>1. BetaInv => BetaBeforePhase
  BY DEF BetaInv
<1> QED BY <1>1, BetaInit, BetaStep, PTL DEF Spec
=============================================================================
