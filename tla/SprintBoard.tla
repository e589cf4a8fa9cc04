---------------------------- MODULE SprintBoard ----------------------------
(***************************************************************************)
(* The files of one sprint and the commands that change them               *)
(* (src/scripts/sprint/ticket.js, execute.js, plan.js, design.js,          *)
(* release.js, retrospective.js).                                          *)
(*                                                                         *)
(* Every command is a process of its own.  Most of them read current.yaml, *)
(* change something and write the whole file back: the buckets of the      *)
(* tickets and the reference to the plan contract live in that file, the   *)
(* status of a ticket in a file of its own.  No command takes a lock.      *)
(*                                                                         *)
(* A command is a list of file accesses; a process is at one of them.      *)
(***************************************************************************)
EXTENDS Naturals, Sequences, FiniteSets

CONSTANTS Worker,        \* those who work on tickets beside the orchestrator
          Child,         \* the command that full.js runs with spawnSync
          MaxTickets,    \* bound: tickets of the sprint
          MaxReleases,   \* bound: release records of the sprint
          Suffixes,      \* how many ids have a suffix of three digits
          NewStatus,     \* the statuses that tickets are created with
          Reported,      \* the statuses that workers report
          Shipping,      \* the commands that workers give on a release record
          ByHand,        \* the commands of full.js that workers give by hand
          MaxMishaps     \* bound on mishaps

(* "proposed" stands for proposed, planned and designed; "blocked" for the *)
(* statuses that no phase of full.js looks at.                             *)
Status == {"proposed", "ready_for_execution", "in_progress", "blocked",
           "done", "deferred"}
Ticket == 1..MaxTickets
Release == 1..MaxReleases
Process == Worker \cup {Child}

(* The deployment targets: that of full.js, and any other or none at all.  *)
Target == {"staging", "other"}

ASSUME BoardAssumption ==
    /\ MaxTickets \in Nat /\ MaxReleases \in Nat /\ Suffixes \in Nat /\ MaxMishaps \in Nat
    /\ Child \notin Worker
    /\ NewStatus \subseteq Status
    /\ Reported \subseteq Status
    /\ Shipping \subseteq {"check", "approve", "deploy", "rollback", "report"}
    /\ ByHand \subseteq {"touch", "plan", "design", "prepare", "retrospective"}

VARIABLES current,       \* current.yaml: the contract, the buckets
          ticket,        \* tickets/<id>.yaml: the status, or "none"
          contract,      \* is there a plan contract?
          records,       \* releases/<id>.yaml: the target and the status
          registry,      \* the sprint's status in active-sprints.yaml
          retro,         \* history/<sprint>/retro.yaml
          job,           \* the command that each process runs
          exit,          \* how the last command of full.js ended
          approved,      \* history: the records that approve has written
          strayed,       \* history: a release was prepared by hand or by a
                         \* command that outlived its run, or retargeted
          mishaps        \* history: commands that met another one or died,
                         \* ids minted twice, boundary files that were lost

files == <<current, ticket, contract, records, registry, retro>>
history == <<approved, strayed>>
board == <<files, job, exit, history, mishaps>>

Current == [planned : BOOLEAN, buckets : SUBSET (Ticket \X Status)]
Record == [target : Target \cup {"none"},
           status : {"none", "preparing", "ready_to_deploy", "deployed", "rolled_back"}]
NoRecord == [target |-> "none", status |-> "none"]

(* What a process knows of its command: the ticket or the release, the old *)
(* status of a ticket, the new status or the flag that was given, what it  *)
(* has read of the record and of current.yaml, and its next access.        *)
Idle == [kind |-> "none", id |-> 0, from |-> "none", to |-> "none", rec |-> NoRecord,
         seen |-> [planned |-> FALSE, buckets |-> {}], at |-> 0]

(* mutant of Accesses: plan refers to its contract before it is written *)
AccessesBoardFirst ==
    [create        |-> <<"read", "ticket", "write">>,
     update        |-> <<"ticket", "read", "write">>,
     reopen        |-> <<"ticket", "read", "write">>,
     touch         |-> <<"read", "write">>,
     plan          |-> <<"read", "write", "contract">>,
     design        |-> <<"read", "write">>,
     prepare       |-> <<"read", "mint", "release", "write">>,
     check         |-> <<"load", "store">>,
     report        |-> <<"load", "store">>,
     approve       |-> <<"load", "store">>,
     rollback      |-> <<"load", "store">>,
     deploy        |-> <<"load", "store", "close">>,
     retrospective |-> <<"retro", "registry">>]

(* The accesses of each command, in the order of the code. *)
Accesses == [create        |-> <<"read", "ticket", "write">>,
             update        |-> <<"ticket", "read", "write">>,
             reopen        |-> <<"ticket", "read", "write">>,
             touch         |-> <<"read", "write">>,
             plan          |-> <<"read", "contract", "write">>,
             design        |-> <<"read", "write">>,
             prepare       |-> <<"read", "mint", "release", "write">>,
             check         |-> <<"load", "store">>,
             report        |-> <<"load", "store">>,
             approve       |-> <<"load", "store">>,
             rollback      |-> <<"load", "store">>,
             deploy        |-> <<"load", "store", "close">>,
             retrospective |-> <<"retro", "registry">>]

Command(kind, id, to) == [Idle EXCEPT !.kind = kind, !.id = id, !.to = to,
                                      !.at = 1]

BoardInit ==
    /\ current = [planned |-> FALSE, buckets |-> {}]
    /\ ticket = [t \in Ticket |-> "none"]
    /\ contract = FALSE
    /\ records = [r \in Release |-> NoRecord]
    /\ registry = "open"
    /\ retro = FALSE
    /\ job = [p \in Process |-> Idle]
    /\ exit = "ok"
    /\ approved = {} /\ strayed = FALSE
    /\ mishaps = 0

Running(p) == job[p].kind # "none"
Quiet == \A p \in Process : ~Running(p)

(* Nothing keeps a command from meeting another one, or from dying.        *)
Mishap(happens) ==
    /\ happens => mishaps < MaxMishaps                 \* bound
    /\ mishaps' = IF happens THEN mishaps + 1 ELSE mishaps

(* Starting a command. *)
Launch(p, command) ==
    /\ ~Running(p)
    /\ job' = [job EXCEPT ![p] = command]
    /\ Mishap(~Quiet)

(* ids.js: one more than the largest suffix in the directory, of which     *)
(* only three digits are looked at: the suffix that follows the largest of *)
(* three digits is handed out for ever, and makes one id a day.  Ids are   *)
(* numbered in the order in which they are minted, so that the last one is *)
(* the one that the same day would give again.                             *)
NextIds(ids) == LET n == Cardinality(ids) IN {n + 1} \cup {i \in {n} : i > Suffixes}

Tickets == {t \in Ticket : ticket[t] # "none"}
Releases == {r \in Release : records[r].status # "none"}

Create(w) ==
    /\ NextIds(Tickets) \cap Ticket # {}                \* bound
    /\ \E s \in NewStatus : Launch(w, Command("create", 0, s))
    /\ UNCHANGED <<files, exit, history>>

Update(w) ==
    /\ \E s \in Reported, t \in Tickets : Launch(w, Command("update", t, s))
    /\ UNCHANGED <<files, exit, history>>

Reopen(w) ==
    /\ \E t \in Tickets : Launch(w, Command("reopen", t, "blocked"))
    /\ UNCHANGED <<files, exit, history>>

(* What an operator gives by hand meets none of the conditions that        *)
(* full.js puts before it.  "touch" stands for execute.js start, phase and *)
(* stop, which rewrite current.yaml as they read it, as far as the tickets *)
(* and the contract are concerned; "forced" for --force together with      *)
(* --no-plan-contract.                                                     *)
Hand(w) ==
    /\ \E kind \in ByHand, flag \in Target \cup {"none", "forced"} :
          /\ kind = "prepare" <=> flag \in Target
          /\ flag = "forced" => kind = "retrospective"
          /\ Launch(w, Command(kind, 0, flag))
          /\ strayed' = (strayed \/ kind = "prepare")
    /\ UNCHANGED <<files, exit, approved>>

(* deploy may name another target than the record has. *)
Ship(w) ==
    /\ \E kind \in Shipping, r \in Releases, flag \in Target \cup {"none"} :
          /\ flag # "none" => kind = "deploy"
          /\ Launch(w, Command(kind, r, flag))
          /\ strayed' = (strayed \/ flag = "other")
    /\ UNCHANGED <<files, exit, approved>>

(***************************************************************************)
(* The accesses.                                                           *)
(***************************************************************************)
At(p, step) == Running(p) /\ Accesses[job[p].kind][job[p].at] = step

(* The job after its next access; nothing left ends it. *)
Rest(j) == IF j.at = Len(Accesses[j.kind]) THEN Idle ELSE [j EXCEPT !.at = @ + 1]

(* A creation mints its id right after it. *)
ReadCurrent(p) ==
    LET ReadAs(id) == job' = [job EXCEPT ![p] = Rest([job[p] EXCEPT !.seen = current, !.id = id])]
    IN /\ At(p, "read")
       /\ \/ job[p].kind # "create" /\ ReadAs(job[p].id) /\ UNCHANGED mishaps
          \/ /\ job[p].kind = "create"
             /\ \E id \in NextIds(Tickets) \cap Ticket :            \* bound
                   ReadAs(id) /\ Mishap(id \in Tickets)
       /\ UNCHANGED <<files, exit, history>>

(* prepare mints the id of the release after the regression-seed gate,     *)
(* which runs the test suite.                                              *)
Mint(p) ==
    /\ At(p, "mint")
    /\ \E r \in NextIds(Releases) \cap Release :                    \* bound
          job' = [job EXCEPT ![p] = Rest([job[p] EXCEPT !.id = r])]
    /\ UNCHANGED <<files, exit, history, mishaps>>

(* ticket.js writes the ticket; an update to the status that the file has  *)
(* already leaves current.yaml alone.                                      *)
WriteTicket(p) ==
    LET j == job[p]
        same == j.kind = "update" /\ ticket[j.id] = j.to
    IN /\ At(p, "ticket")
       /\ ticket' = [ticket EXCEPT ![j.id] = j.to]
       /\ job' = [job EXCEPT ![p] =
                     IF same THEN Idle
                     ELSE Rest([j EXCEPT !.from = IF j.kind = "reopen" THEN ticket[j.id]
                                                  ELSE @])]
       /\ UNCHANGED <<current, contract, records, registry, retro, exit, history, mishaps>>

(* mutant of ResyncBuckets: the old bucket is not cleared *)
ResyncBucketsAdds(buckets, id, to) == buckets \cup {<<id, to>>}

(* What a command makes of the buckets that it has read. *)
ResyncBuckets(buckets, id, to) ==
    {e \in buckets : e[1] # id} \cup {<<id, to>>}

MoveStatus(buckets, id, from, to) == (buckets \ {<<id, from>>}) \cup {<<id, to>>}

Changed(j) ==
    CASE j.kind = "plan"   -> [j.seen EXCEPT !.planned = TRUE]
      [] j.kind = "update" ->
            [j.seen EXCEPT !.buckets = ResyncBuckets(j.seen.buckets, j.id, j.to)]
      [] j.kind \in {"create", "reopen"} ->
            [j.seen EXCEPT !.buckets = MoveStatus(j.seen.buckets, j.id, j.from, j.to)]
      [] OTHER -> j.seen

WriteCurrent(p) ==
    /\ At(p, "write")
    /\ current' = Changed(job[p])
    /\ job' = [job EXCEPT ![p] = Rest(job[p])]
    /\ exit' = IF p = Child THEN "ok" ELSE exit
    /\ UNCHANGED <<ticket, contract, records, registry, retro, history, mishaps>>

WriteContract(p) ==
    /\ At(p, "contract")
    /\ contract' = TRUE
    /\ job' = [job EXCEPT ![p] = Rest(job[p])]
    /\ UNCHANGED <<current, ticket, records, registry, retro, exit, history, mishaps>>

WriteRelease(p) ==
    /\ At(p, "release")
    /\ records' = [records EXCEPT ![job[p].id] = [target |-> job[p].to, status |-> "preparing"]]
    /\ job' = [job EXCEPT ![p] = Rest(job[p])]
    /\ UNCHANGED <<current, ticket, contract, registry, retro, exit, history, mishaps>>

(* mutant of LoadRelease: deploy does not look at the status *)
LoadReleaseAny(p) ==
    /\ At(p, "load")
    /\ job' = [job EXCEPT ![p] = Rest([job[p] EXCEPT !.rec = records[job[p].id]])]
    /\ UNCHANGED <<files, exit, history, mishaps>>

(* Only an approved release is deployed. *)
LoadRelease(p) ==
    LET rec == records[job[p].id]
    IN /\ At(p, "load")
       /\ job' = [job EXCEPT ![p] =
                     IF job[p].kind = "deploy" /\ rec.status # "ready_to_deploy" THEN Idle
                     ELSE Rest([job[p] EXCEPT !.rec = rec])]
       /\ UNCHANGED <<files, exit, history, mishaps>>

(* The record that a command writes is the one that it has read, but for   *)
(* the status and the target that deploy may be given.  (check would move  *)
(* the status on when every box is ticked; approval_recorded is ticked by  *)
(* approve, which moves it further.)                                       *)
Stored(j) ==
    [target |-> IF j.kind = "deploy" /\ j.to # "none" THEN j.to ELSE j.rec.target,
     status |-> CASE j.kind = "approve"  -> "ready_to_deploy"
                  [] j.kind = "deploy"   -> "deployed"
                  [] j.kind = "rollback" -> "rolled_back"
                  [] OTHER -> j.rec.status]

(* Whatever the record says by now, it is overwritten. *)
StoreRelease(p) ==
    /\ At(p, "store")
    /\ records' = [records EXCEPT ![job[p].id] = Stored(job[p])]
    /\ approved' = approved \cup {r \in {job[p].id} : job[p].kind = "approve"}
    /\ job' = [job EXCEPT ![p] = Rest(job[p])]
    /\ UNCHANGED <<current, ticket, contract, registry, retro, exit, strayed, mishaps>>

(* A deployed release closes its sprint, a retrospected one too. *)
CloseSprint(p) ==
    /\ At(p, "close")
    /\ registry' = "closed"
    /\ job' = [job EXCEPT ![p] = Rest(job[p])]
    /\ UNCHANGED <<current, ticket, contract, records, retro, exit, history, mishaps>>

(* retrospective.js refuses when there is a retro, when the sprint is not  *)
(* closed, or when the board names no contract (full.js ignores that).  By *)
(* hand, all but the status can be overridden.                             *)
WriteRetro(p) ==
    /\ At(p, "retro")
    /\ registry # "open"
    /\ job[p].to = "forced" \/ (~retro /\ current.planned)
    /\ retro' = TRUE
    /\ job' = [job EXCEPT ![p] = Rest(job[p])]
    /\ UNCHANGED <<current, ticket, contract, records, registry, exit, history, mishaps>>

FlipStatusToRetrospected(p) ==
    /\ At(p, "registry")
    /\ registry' = "retrospected"
    /\ job' = [job EXCEPT ![p] = Rest(job[p])]
    /\ UNCHANGED <<current, ticket, contract, records, retro, exit, history, mishaps>>

(* A command that refuses: its payload, its templates, the gate, a retro   *)
(* that is there.  design.js runs its checks after the write.              *)
Fail(p) ==
    /\ \/ Running(p) /\ job[p].kind # "update" /\ job[p].at = 1
       \/ At(p, "mint")
       \/ At(p, "write") /\ job[p].kind = "design"
    /\ current' = IF At(p, "write") THEN Changed(job[p]) ELSE current
    /\ exit' = IF p = Child THEN "failed" ELSE exit
    /\ job' = [job EXCEPT ![p] = Idle]
    /\ UNCHANGED <<ticket, contract, records, registry, retro, history, mishaps>>

(* A command that dies leaves what it has written; full.js goes on with    *)
(* its exit code.                                                          *)
Die(p) ==
    /\ Running(p)
    /\ job' = [job EXCEPT ![p] = Idle]
    /\ exit' = IF p = Child THEN "failed" ELSE exit
    /\ Mishap(TRUE)
    /\ UNCHANGED <<files, history>>

BoardStep ==
    \/ \E w \in Worker : \/ Create(w) \/ Update(w) \/ Reopen(w) \/ Hand(w) \/ Ship(w)
    \/ \E p \in Process :
          \/ ReadCurrent(p) \/ WriteTicket(p) \/ WriteCurrent(p) \/ WriteContract(p)
          \/ Mint(p) \/ WriteRelease(p) \/ LoadRelease(p) \/ StoreRelease(p)
          \/ CloseSprint(p) \/ WriteRetro(p) \/ FlipStatusToRetrospected(p)
          \/ Fail(p) \/ Die(p)
=============================================================================
