--------------------------- MODULE SprintPipeline ---------------------------
(***************************************************************************)
(* /sprint:full (src/scripts/sprint/full.js): the five phases of a sprint, *)
(* with a consultation of Beta before each, halts, resumes and crashes.    *)
(*                                                                         *)
(* A run walks through all phases from the first; what has been done       *)
(* already is recognized by the files that it left.  A run keeps nothing   *)
(* but those files and the list of boundaries that Beta has cleared.       *)
(* The operator starts runs one at a time, and resumes with the command    *)
(* that the halt report prints; Beta's answers, the costs, the gauntlet    *)
(* and the workers are free.                                               *)
(***************************************************************************)
EXTENDS SprintBoard

CONSTANTS Mode           \* "adhoc": Beta is consulted; "solo": it is not

Phases == <<"plan", "design", "execute", "release-prep", "retro">>
Phase == 1..Len(Phases)

ASSUME ModeAssumption == Mode \subseteq {"adhoc", "solo"}

VARIABLES pc,            \* where the run is; "idle" when there is none
          phase,         \* the index of its phase
          args,          \* its command line: resume, mode, pass, pending
          known,         \* the boundaries it takes for cleared
          todo,          \* the tickets it still has to hand off
          cleared,       \* beta-boundaries.json; {} also when it is torn
          asked,         \* the boundary that the last halt names, or 0
          answered       \* history: boundaries that Beta has let pass

run == <<pc, phase, args, known, todo, cleared, asked, answered>>
vars == <<board, run>>

Args == [resume : BOOLEAN, mode : {"adhoc", "solo"}, pass : BOOLEAN,
         pending : 0..Len(Phases)]

NoArgs == [resume |-> FALSE, mode |-> "solo", pass |-> FALSE, pending |-> 0]

Init ==
    /\ BoardInit
    /\ pc = "idle" /\ phase = 1 /\ known = {} /\ todo = {} /\ args = NoArgs
    /\ cleared = {} /\ asked = 0 /\ answered = {}

(***************************************************************************)
(* Starting and ending a run.                                              *)
(***************************************************************************)

(* Verdicts and --pending-phase are for resumes only, and a run in solo    *)
(* mode does not look at them.  The operator gives a verdict as the halt   *)
(* report says, together with the boundary; a run with a verdict that lets *)
(* nothing pass halts as one without.                                      *)
Start ==
    /\ pc = "idle"
    /\ pc' = "consult" /\ phase' = 1
    /\ \E a \in Args :
          /\ a.mode \in Mode
          /\ ~a.resume \/ a.mode = "solo" => ~a.pass /\ a.pending = 0
          /\ a.pending \in {0, asked}
          /\ a.pass => a.pending # 0
          /\ args' = a
          /\ known' = IF a.resume THEN cleared ELSE {}
          /\ answered' = answered \cup {b \in {asked} : a.pass}
    /\ UNCHANGED <<board, todo, cleared, asked>>

(* The process ends, and with it all that it knew. *)
End == /\ pc' = "idle" /\ phase' = 1 /\ args' = NoArgs /\ known' = {} /\ todo' = {}
       /\ UNCHANGED <<cleared, answered>>

(* A halt for another reason than Beta asks for a plain resume. *)
HaltFor(boundary) == End /\ asked' = boundary

Halt == HaltFor(0)

Go(place) == pc' = place /\ UNCHANGED <<phase, args, known, todo, cleared, asked, answered>>

(***************************************************************************)
(* Beta.                                                                   *)
(***************************************************************************)

(* mutant of Passed: the pending boundary itself is passed over *)
PassedPending == args.resume /\ (phase \in known \/ phase <= args.pending)

Passed == args.resume /\ (phase \in known \/ phase < args.pending)

Applies == args.pass /\ args.pending \in {0, phase}

Consult ==
    /\ pc = "consult"
    /\ \/ (Passed \/ args.mode = "solo") /\ Go("phase")
       \/ /\ ~Passed /\ args.mode = "adhoc"
          /\ ~Applies
          /\ HaltFor(phase)
    /\ UNCHANGED board

(* A verdict is good for one boundary. *)
Consume ==
    /\ pc = "consult" /\ ~Passed /\ args.mode = "adhoc"
    /\ Applies
    /\ args' = [args EXCEPT !.pass = FALSE,
                            !.pending = IF @ = phase THEN 0 ELSE @]
    /\ pc' = "record"
    /\ UNCHANGED <<board, phase, known, todo, cleared, asked, answered>>

(* recordClearedBetaBoundary adds the boundary to the list in the file:    *)
(* truncated, then written, unless that fails.  A run clears at most one,  *)
(* so the list is what it knows.                                           *)
RecordOpen ==
    /\ pc = "record"
    /\ known' = known \cup {phase}
    /\ \/ cleared' = {} /\ pc' = "recording" /\ UNCHANGED mishaps
       \/ cleared' = cleared /\ pc' = "phase" /\ Mishap(TRUE)     \* errors are ignored
    /\ UNCHANGED <<files, job, exit, history, phase, args, todo, asked, answered>>

RecordWrite ==
    /\ pc = "recording"
    /\ cleared' = known /\ pc' = "phase"
    /\ UNCHANGED <<board, phase, args, known, todo, asked, answered>>

(***************************************************************************)
(* The phases.                                                             *)
(***************************************************************************)

In(name) == pc = "phase" /\ Phases[phase] = name
Back(name) ==
    /\ pc = "wait" /\ Phases[phase] = name /\ ~Running(Child)
    /\ exit' = "ok"
    /\ UNCHANGED <<files, job, history, mishaps>>

(* runHelper *)
Spawn(command) ==
    /\ Launch(Child, command) /\ Go("wait")
    /\ UNCHANGED <<files, exit, history>>

Lane(s) == {t \in Ticket : <<t, s>> \in current.buckets}

Plan ==
    /\ In("plan")
    /\ IF args.resume /\ current.planned
         THEN Go("after") /\ UNCHANGED board
         ELSE \/ Spawn(Command("plan", 0, "none"))
              \/ Halt /\ UNCHANGED board            \* no payload, or another sprint's

(* plan.js failed, a blocking quality verdict, the cost *)
PlanReturns ==
    /\ Back("plan")
    /\ Halt \/ (exit = "ok" /\ Go("after"))

Minted == \E s \in Status \ {"blocked"} : Lane(s) # {}

Design ==
    /\ In("design")
    /\ IF args.resume /\ Minted
         THEN Go("after") /\ UNCHANGED board
         ELSE Spawn(Command("design", 0, "none"))

(* The design phase always halts: for the tickets, the cost or a failure. *)
DesignReturns == Back("design") /\ Halt

AllTicketsAccountedFor ==
    Lane("in_progress") = {} /\ Lane("done") \cup Lane("deferred") # {}

Execute ==
    /\ In("execute")
    /\ \/ Halt                                      \* an external service is missing
       \/ /\ Lane("ready_for_execution") = {}
          /\ IF AllTicketsAccountedFor THEN Go("after") ELSE Halt
       \/ /\ Lane("ready_for_execution") # {}
          /\ todo' = Lane("ready_for_execution") /\ pc' = "handoff"
          /\ UNCHANGED <<phase, args, known, cleared, asked, answered>>
    /\ UNCHANGED board

HandOff ==
    /\ pc = "handoff"
    /\ \E t \in todo :
          /\ Launch(Child, Command("update", t, "in_progress"))
          /\ todo' = todo \ {t}
    /\ pc' = "wait"
    /\ UNCHANGED <<files, exit, history, phase, args, known, cleared, asked, answered>>

HandOffReturns ==
    /\ Back("execute")
    /\ Halt \/ Go(IF todo = {} THEN "after" ELSE "handoff")

(* mutant of FindExistingStagingRelease: the sprint was closed, not released *)
FindClosedSprint == registry # "open"

FindExistingStagingRelease == \E r \in Release : records[r].target = "staging"

ReleasePrep ==
    /\ In("release-prep")
    /\ \/ Halt /\ UNCHANGED board                   \* not done, or beyond the preset
       \/ /\ Lane("done") \cup Lane("deferred") # {}
          /\ IF FindExistingStagingRelease
               THEN Go("after") /\ UNCHANGED board
               ELSE Spawn(Command("prepare", 0, "staging"))

ReleaseReturns ==
    /\ Back("release-prep")
    /\ IF exit = "ok" THEN Go("after") ELSE Halt

(* flipActiveSprintsStatusForRetro, then retrospective.js *)
Retro ==
    /\ In("retro")
    /\ registry' = IF registry = "open" THEN "closed" ELSE registry
    /\ Launch(Child, Command("retrospective", 0, "none")) /\ Go("wait")
    /\ UNCHANGED <<current, ticket, contract, records, retro, exit, history>>

RetroReturns == Back("retro") /\ Go("after")

(* mutant of After: one phase too many *)
AfterOneMore ==
    /\ pc = "after"
    /\ \/ Halt
       \/ /\ phase <= Len(Phases)
          /\ phase' = phase + 1 /\ pc' = "consult"
          /\ UNCHANGED <<args, known, todo, cleared, asked, answered>>
    /\ UNCHANGED board

(* emitPhaseConsults: the epsilon runtime may refuse *)
After ==
    /\ pc = "after"
    /\ \/ Halt
       \/ /\ phase < Len(Phases)
          /\ phase' = phase + 1 /\ pc' = "consult"
          /\ UNCHANGED <<args, known, todo, cleared, asked, answered>>
       \/ phase = Len(Phases) /\ Halt               \* done
    /\ UNCHANGED board

(* The run dies.  A signal that reaches the whole process group takes the  *)
(* command that it waits for along; one that is meant for it, or the       *)
(* kernel's choice when memory runs out, leaves the command running, with  *)
(* nobody to wait for it any more.                                         *)
Crash ==
    /\ pc # "idle"
    /\ End
    /\ exit' = "ok"
    /\ \/ /\ job' = [job EXCEPT ![Child] = Idle]
          /\ Mishap(Running(Child) \/ pc = "recording")
          /\ UNCHANGED strayed
       \/ \E w \in Worker :
             /\ Running(Child) /\ ~Running(w)
             /\ job' = [job EXCEPT ![w] = job[Child], ![Child] = Idle]
             /\ strayed' = (strayed \/ job[Child].kind = "prepare")
             /\ UNCHANGED mishaps
    /\ UNCHANGED <<files, approved, asked>>

Full ==
    \/ Start \/ Consult \/ Consume \/ RecordOpen \/ RecordWrite
    \/ Plan \/ PlanReturns \/ Design \/ DesignReturns
    \/ Execute \/ HandOff \/ HandOffReturns
    \/ ReleasePrep \/ ReleaseReturns \/ Retro \/ RetroReturns
    \/ After \/ Crash

Next == Full \/ (BoardStep /\ UNCHANGED run)

Spec == Init /\ [][Next]_vars

(***************************************************************************)
(* Properties.                                                             *)
(***************************************************************************)
TypeOK ==
    /\ current \in Current
    /\ ticket \in [Ticket -> Status \cup {"none"}]
    /\ contract \in BOOLEAN /\ retro \in BOOLEAN
    /\ records \in [Release -> Record] /\ approved \subseteq Release
    /\ strayed \in BOOLEAN /\ mishaps \in 0..MaxMishaps
    /\ registry \in {"open", "closed", "retrospected"}
    /\ exit \in {"ok", "failed"}
    /\ todo \subseteq Ticket
    /\ phase \in Phase /\ args \in Args
    /\ known \subseteq Phase /\ cleared \subseteq Phase /\ answered \subseteq Phase
    /\ asked \in {0} \cup Phase
    /\ \A p \in Process : job[p].id \in {0} \cup Ticket \cup Release

(* A run in ad hoc mode enters a phase only after Beta has let pass its    *)
(* boundary and those of all phases before, whatever halts, crashes, torn  *)
(* boundary files and repeated resumes lie in between.                     *)
BetaBeforePhase ==
    args.mode = "adhoc" /\ pc \notin {"idle", "consult"} => 1..phase \subseteq answered

OneStagingRelease == Cardinality({r \in Release : records[r].target = "staging"}) <= 1

(* A sprint gets at most one staging release record although the run or    *)
(* its command may die between the record and the board, and every resume  *)
(* enters phase 4 again: unless a release was prepared by hand, a record   *)
(* was deployed to another target, or a command that prepares one outlived *)
(* its run.                                                                *)
OneReleaseUnlessStrayed == ~strayed => OneStagingRelease

(* What current.yaml names is there: the plan contract, and the file of    *)
(* every ticket in its buckets -- although every command may overwrite it  *)
(* with what it read long before, and may die between its accesses.        *)
BoardHasItsFiles ==
    /\ current.planned => contract
    /\ \A e \in current.buckets : ticket[e[1]] # "none"

(* A release record says "deployed" only if approve has been run on it,    *)
(* although check, report, approve, deploy and rollback overwrite it with  *)
(* what they read before, two at a time, and may die on the way.           *)
DeployedWasApproved == \A r \in Release : records[r].status = "deployed" => r \in approved

(* As long as no two commands overlap, none dies and no id of a ticket is  *)
(* minted twice, the buckets say what the ticket files say, whatever       *)
(* sequence of commands is run.                                            *)
QuietBoardAgrees ==
    mishaps = 0 /\ Quiet => \A s \in Status : Lane(s) = {t \in Ticket : ticket[t] = s}
=============================================================================
