------------------------ MODULE SprintStages_proofs ------------------------
(***************************************************************************)
(* The files of a sprint, for any number of tickets, releases, runs, halts,*)
(* mishaps and commands beside the run.  What a command has read it may    *)
(* write over newer contents, so the invariant speaks of what every        *)
(* command carries with it, and says of it only what no command undoes: a  *)
(* contract that was minted, a ticket that exists, an approval.  The first *)
(* half holds with any overlap of commands; the second, on the buckets of  *)
(* current.yaml, while no two overlap, none dies and no id of a ticket is  *)
(* minted twice.                                                           *)
(***************************************************************************)
EXTENDS SprintPipeline_proofs, FiniteSetTheorems, TLAPS

(***************************************************************************)
(* The commands and the places of their accesses.                          *)
(***************************************************************************)
Kinds == DOMAIN Accesses

Releasing == {"check", "report", "approve", "rollback", "deploy"}

Id == {0} \cup Ticket \cup Release
Flag == Status \cup Target \cup {"none", "forced"}

Job == [kind : Kinds \cup {"none"}, id : Id, from : Status \cup {"none"}, to : Flag,
        rec : Record, seen : Current, at : Nat]

\* What a command writes is a ticket or a release, once a creation or a
\* preparation has minted it.
JobOK(j) ==
    /\ j \in Job
    /\ j.kind # "none" => j.at \in 1..Len(Accesses[j.kind])
    /\ j.kind \in {"create", "update", "reopen"} =>
          /\ j.to \in Status
          /\ j.kind # "create" \/ j.at > 1 => j.id \in Ticket
    /\ j.kind = "prepare" => j.to \in Target /\ (j.at > 2 => j.id \in Release)
    /\ j.kind \in Releasing => j.id \in Release
    /\ j.kind = "deploy" => j.to \in Target \cup {"none"}

JobsOK == job \in [Process -> Job] /\ \A p \in Process : JobOK(job[p])

LEMMA KindsAre ==
    Kinds = {"create", "update", "reopen", "touch", "plan", "design", "prepare",
             "check", "report", "approve", "rollback", "deploy", "retrospective"}
  BY DEF Kinds, Accesses

LEMMA Rows ==
    /\ Accesses["create"] = <<"read", "ticket", "write">>
    /\ Accesses["update"] = <<"ticket", "read", "write">>
    /\ Accesses["reopen"] = <<"ticket", "read", "write">>
    /\ Accesses["touch"] = <<"read", "write">>
    /\ Accesses["plan"] = <<"read", "contract", "write">>
    /\ Accesses["design"] = <<"read", "write">>
    /\ Accesses["prepare"] = <<"read", "mint", "release", "write">>
    /\ Accesses["check"] = <<"load", "store">>
    /\ Accesses["report"] = <<"load", "store">>
    /\ Accesses["approve"] = <<"load", "store">>
    /\ Accesses["rollback"] = <<"load", "store">>
    /\ Accesses["deploy"] = <<"load", "store", "close">>
    /\ Accesses["retrospective"] = <<"retro", "registry">>
  BY DEF Accesses

\* Where in its list a command is, when it is at an access of some kind.
Place(k, n, step) ==
    /\ step = "read" => \/ k \in {"create", "touch", "plan", "design", "prepare"} /\ n = 1
                        \/ k \in {"update", "reopen"} /\ n = 2
    /\ step = "ticket" => \/ k = "create" /\ n = 2
                          \/ k \in {"update", "reopen"} /\ n = 1
    /\ step = "write" => \/ k \in {"create", "update", "reopen", "plan"} /\ n = 3
                         \/ k \in {"touch", "design"} /\ n = 2
                         \/ k = "prepare" /\ n = 4
    /\ step = "contract" => k = "plan" /\ n = 2
    /\ step = "mint" => k = "prepare" /\ n = 2
    /\ step = "release" => k = "prepare" /\ n = 3
    /\ step = "load" => k \in Releasing /\ n = 1
    /\ step = "store" => k \in Releasing /\ n = 2
    /\ step = "close" => k = "deploy" /\ n = 3
    /\ step = "retro" => k = "retrospective" /\ n = 1
    /\ step = "registry" => k = "retrospective" /\ n = 2

LEMMA Pairs == ASSUME NEW a, NEW b, NEW n \in 1..Len(<<a, b>>)
               PROVE  /\ Len(<<a, b>>) = 2
                      /\ \/ n = 1 /\ <<a, b>>[n] = a
                         \/ n = 2 /\ <<a, b>>[n] = b
<1>1. Len(<<a, b>>) = 2
  OBVIOUS
<1>2. n \in {1, 2}
  BY <1>1
<1> QED BY <1>1, <1>2

LEMMA Triples == ASSUME NEW a, NEW b, NEW c, NEW n \in 1..Len(<<a, b, c>>)
                 PROVE  /\ Len(<<a, b, c>>) = 3
                        /\ \/ n = 1 /\ <<a, b, c>>[n] = a
                           \/ n = 2 /\ <<a, b, c>>[n] = b
                           \/ n = 3 /\ <<a, b, c>>[n] = c
<1>1. Len(<<a, b, c>>) = 3
  OBVIOUS
<1>2. n \in {1, 2, 3}
  BY <1>1
<1> QED BY <1>1, <1>2

LEMMA Quads == ASSUME NEW a, NEW b, NEW c, NEW d, NEW n \in 1..Len(<<a, b, c, d>>)
               PROVE  /\ Len(<<a, b, c, d>>) = 4
                      /\ \/ n = 1 /\ <<a, b, c, d>>[n] = a
                         \/ n = 2 /\ <<a, b, c, d>>[n] = b
                         \/ n = 3 /\ <<a, b, c, d>>[n] = c
                         \/ n = 4 /\ <<a, b, c, d>>[n] = d
<1>1. Len(<<a, b, c, d>>) = 4
  OBVIOUS
<1>2. n \in {1, 2, 3, 4}
  BY <1>1
<1> QED BY <1>1, <1>2

LEMMA Places ==
  ASSUME NEW k \in Kinds, NEW n \in 1..Len(Accesses[k])
  PROVE  /\ Place(k, n, Accesses[k][n])
         /\ Len(Accesses[k]) =
              IF k \in {"touch", "design", "check", "report", "approve", "rollback",
                        "retrospective"}
              THEN 2 ELSE IF k = "prepare" THEN 4 ELSE 3
<1> USE DEF Releasing
<1>1. CASE k = "create"
  BY <1>1, Rows, Triples DEF Place
<1>2. CASE k = "update"
  BY <1>2, Rows, Triples DEF Place
<1>3. CASE k = "reopen"
  BY <1>3, Rows, Triples DEF Place
<1>4. CASE k = "touch"
  BY <1>4, Rows, Pairs DEF Place
<1>5. CASE k = "plan"
  BY <1>5, Rows, Triples DEF Place
<1>6. CASE k = "design"
  BY <1>6, Rows, Pairs DEF Place
<1>7. CASE k = "prepare"
  BY <1>7, Rows, Quads DEF Place
<1>8. CASE k = "check"
  BY <1>8, Rows, Pairs DEF Place
<1>9. CASE k = "approve"
  BY <1>9, Rows, Pairs DEF Place
<1>10. CASE k = "rollback"
  BY <1>10, Rows, Pairs DEF Place
<1>11. CASE k = "deploy"
  BY <1>11, Rows, Triples DEF Place
<1>12. CASE k = "retrospective"
  BY <1>12, Rows, Pairs DEF Place
<1>13. CASE k = "report"
  BY <1>13, Rows, Pairs DEF Place
<1> QED BY <1>1, <1>2, <1>3, <1>4, <1>5, <1>6, <1>7, <1>8, <1>9, <1>10, <1>11, <1>12, <1>13,
           KindsAre

LEMMA AtIs ==
  ASSUME JobsOK, NEW p \in Process, NEW step, At(p, step)
  PROVE  /\ job[p].kind \in Kinds /\ job[p].at \in 1..Len(Accesses[job[p].kind])
         /\ Place(job[p].kind, job[p].at, step)
<1>1. job[p].kind \in Kinds /\ job[p].at \in 1..Len(Accesses[job[p].kind])
  BY DEF JobsOK, JobOK, Job, At, Running
<1> QED BY <1>1, Places DEF At

\* What a command goes on with.
LEMMA RestIs ==
  ASSUME NEW j \in Job, j.kind \in Kinds, j.at \in 1..Len(Accesses[j.kind])
  PROVE  /\ j.at = Len(Accesses[j.kind]) => Rest(j) = Idle
         /\ j.at # Len(Accesses[j.kind]) =>
              /\ Rest(j) \in Job /\ Rest(j).kind = j.kind /\ Rest(j).id = j.id
              /\ Rest(j).from = j.from /\ Rest(j).to = j.to /\ Rest(j).seen = j.seen
              /\ Rest(j).rec = j.rec /\ Rest(j).at = j.at + 1
  BY DEF Rest, Job

LEMMA IdleOK == JobOK(Idle) /\ Idle.kind = "none" /\ Idle.at = 0
<1>1. NoRecord \in Record /\ [planned |-> FALSE, buckets |-> {}] \in Current
  BY DEF NoRecord, Record, Current
<1>2. Idle \in Job
  BY <1>1 DEF Idle, Job, Id, Flag
<1> QED BY <1>2 DEF Idle, JobOK, Releasing

(***************************************************************************)
(* What each access makes of the job of its process.                       *)
(***************************************************************************)
Ended(p) == job' = [job EXCEPT ![p] = Idle]

Onward(p) ==
    /\ job' = [job EXCEPT ![p] = job'[p]] /\ job'[p] \in Job
    /\ job'[p].kind = job[p].kind /\ job'[p].to = job[p].to
    /\ job'[p].at = job[p].at + 1 /\ job'[p].at \in 1..Len(Accesses[job[p].kind])

LEMMA JobsStay ==
  ASSUME JobsOK, NEW p \in Process,
         Ended(p) \/ (Onward(p) /\ JobOK(job'[p]))
  PROVE  JobsOK'
  BY IdleOK DEF JobsOK, JobOK, Ended, Onward

LEMMA Goes ==
  ASSUME JobsOK, NEW p \in Process, NEW j \in Job,
         job[p].kind \in Kinds, job[p].at \in 1..Len(Accesses[job[p].kind]),
         job[p].at # Len(Accesses[job[p].kind]),
         j.kind = job[p].kind, j.at = job[p].at, j.to = job[p].to,
         job' = [job EXCEPT ![p] = Rest(j)]
  PROVE  /\ Onward(p)
         /\ job'[p].id = j.id /\ job'[p].from = j.from /\ job'[p].seen = j.seen
         /\ job'[p].rec = j.rec
<1>1. /\ Rest(j) \in Job /\ Rest(j).kind = j.kind /\ Rest(j).id = j.id
      /\ Rest(j).from = j.from /\ Rest(j).to = j.to /\ Rest(j).seen = j.seen
      /\ Rest(j).rec = j.rec /\ Rest(j).at = j.at + 1
  BY RestIs
<1>2. job'[p] = Rest(j)
  BY DEF JobsOK
<1>3. j.at + 1 \in 1..Len(Accesses[j.kind])
  <2>1. Len(Accesses[j.kind]) \in {2, 3, 4}
    BY Places
  <2> QED BY <2>1
<1> QED BY <1>1, <1>2, <1>3 DEF Onward

LEMMA Ends ==
  ASSUME JobsOK, NEW p \in Process, NEW j \in Job,
         job[p].kind \in Kinds, job[p].at \in 1..Len(Accesses[job[p].kind]),
         job[p].at = Len(Accesses[job[p].kind]),
         j.kind = job[p].kind, j.at = job[p].at,
         job' = [job EXCEPT ![p] = Rest(j)]
  PROVE  Ended(p)
  BY RestIs DEF Ended

LEMMA JobIs == ASSUME JobsOK, NEW p \in Process PROVE job[p] \in Job /\ JobOK(job[p])
  BY DEF JobsOK, JobOK

LEMMA Reads ==
  ASSUME JobsOK, current \in Current, NEW p \in Process, ReadCurrent(p)
  PROVE  /\ \/ job[p].kind \in {"create", "touch", "plan", "design", "prepare"} /\ job[p].at = 1
            \/ job[p].kind \in {"update", "reopen"} /\ job[p].at = 2
         /\ Onward(p) /\ JobOK(job'[p])
         /\ job'[p].seen = current /\ job'[p].from = job[p].from /\ job'[p].rec = job[p].rec
         /\ job[p].kind = "create" => /\ job'[p].id \in NextIds(Tickets) \cap Ticket
                                      /\ Mishap(job'[p].id \in Tickets)
         /\ job[p].kind # "create" => job'[p].id = job[p].id /\ mishaps' = mishaps
<1>1. At(p, "read")
  BY DEF ReadCurrent
<1>2. /\ job[p].kind \in Kinds /\ job[p].at \in 1..Len(Accesses[job[p].kind])
      /\ Place(job[p].kind, job[p].at, "read")
  BY <1>1, AtIs
<1>3. job[p].at # Len(Accesses[job[p].kind])
  BY <1>2, Places DEF Place
<1>4. PICK id \in Id :
         /\ job' = [job EXCEPT ![p] = Rest([job[p] EXCEPT !.seen = current, !.id = id])]
         /\ job[p].kind = "create" => /\ id \in NextIds(Tickets) \cap Ticket
                                      /\ Mishap(id \in Tickets)
         /\ job[p].kind # "create" => id = job[p].id /\ mishaps' = mishaps
  <2>1. CASE job[p].kind = "create"
    BY <2>1 DEF ReadCurrent, Id
  <2>2. CASE job[p].kind # "create"
    BY <2>2, JobIs DEF ReadCurrent, Job
  <2> QED BY <2>1, <2>2
<1> DEFINE j == [job[p] EXCEPT !.seen = current, !.id = id]
<1>5. /\ j \in Job /\ j.kind = job[p].kind /\ j.at = job[p].at /\ j.to = job[p].to
      /\ j.id = id /\ j.from = job[p].from /\ j.seen = current /\ j.rec = job[p].rec
  BY <1>4, JobIs DEF Job
<1>6. job' = [job EXCEPT ![p] = Rest(j)]
  BY <1>4
<1> HIDE DEF j
<1>7. /\ Onward(p) /\ job'[p].rec = job[p].rec
      /\ job'[p].id = id /\ job'[p].from = job[p].from /\ job'[p].seen = current
  BY <1>2, <1>3, <1>5, <1>6, Goes
<1>8. /\ job[p].kind \in {"create", "update", "reopen"} => job[p].to \in Status
      /\ job[p].kind \in {"update", "reopen"} => id \in Ticket
      /\ job[p].kind = "prepare" => job[p].to \in Target /\ job[p].at = 1
      /\ job[p].kind \notin Releasing
  BY <1>2, <1>4, JobIs DEF JobOK, Place, Releasing
<1>9. JobOK(job'[p])
  BY <1>4, <1>7, <1>8 DEF JobOK, Onward, Releasing
<1> QED BY <1>2, <1>4, <1>7, <1>9 DEF Place

LEMMA Mints ==
  ASSUME JobsOK, NEW p \in Process, Mint(p)
  PROVE  /\ job[p].kind = "prepare" /\ job[p].at = 2
         /\ Onward(p) /\ JobOK(job'[p]) /\ job'[p].id \in Release
         /\ job'[p].seen = job[p].seen /\ job'[p].from = job[p].from
         /\ job'[p].rec = job[p].rec
<1>1. At(p, "mint")
  BY DEF Mint
<1>2. /\ job[p].kind \in Kinds /\ job[p].at \in 1..Len(Accesses[job[p].kind])
      /\ Place(job[p].kind, job[p].at, "mint")
  BY <1>1, AtIs
<1>3. job[p].at # Len(Accesses[job[p].kind])
  BY <1>2, Places DEF Place
<1>4. PICK r \in Release : job' = [job EXCEPT ![p] = Rest([job[p] EXCEPT !.id = r])]
  BY DEF Mint
<1> DEFINE j == [job[p] EXCEPT !.id = r]
<1>5. /\ j \in Job /\ j.kind = job[p].kind /\ j.at = job[p].at /\ j.to = job[p].to
      /\ j.id = r /\ j.from = job[p].from /\ j.seen = job[p].seen /\ j.rec = job[p].rec
  BY <1>4, JobIs DEF Job, Id
<1>6. job' = [job EXCEPT ![p] = Rest(j)]
  BY <1>4
<1> HIDE DEF j
<1>7. /\ Onward(p) /\ job'[p].rec = job[p].rec
      /\ job'[p].id = r /\ job'[p].from = job[p].from /\ job'[p].seen = job[p].seen
  BY <1>2, <1>3, <1>5, <1>6, Goes
<1>8. JobOK(job'[p])
  BY <1>2, <1>4, <1>7, JobIs DEF JobOK, Onward, Releasing, Place
<1> QED BY <1>2, <1>4, <1>7, <1>8 DEF Place

LEMMA WritesTicket ==
  ASSUME JobsOK, ticket \in [Ticket -> Status \cup {"none"}], NEW p \in Process, WriteTicket(p)
  PROVE  /\ \/ job[p].kind = "create" /\ job[p].at = 2
            \/ job[p].kind \in {"update", "reopen"} /\ job[p].at = 1
         /\ job[p].id \in Ticket /\ job[p].to \in Status
         /\ \/ /\ Ended(p) /\ job[p].kind = "update" /\ ticket[job[p].id] = job[p].to
            \/ /\ Onward(p) /\ JobOK(job'[p]) /\ job'[p].rec = job[p].rec
               /\ job'[p].id = job[p].id /\ job'[p].seen = job[p].seen
               /\ job'[p].from = IF job[p].kind = "reopen" THEN ticket[job[p].id]
                                 ELSE job[p].from
<1> DEFINE from == IF job[p].kind = "reopen" THEN ticket[job[p].id] ELSE job[p].from
           j == [job[p] EXCEPT !.from = from]
<1>1. /\ At(p, "ticket")
      /\ job' = [job EXCEPT ![p] =
                   IF job[p].kind = "update" /\ ticket[job[p].id] = job[p].to
                   THEN Idle ELSE Rest(j)]
  BY DEF WriteTicket
<1>2. /\ job[p].kind \in Kinds /\ job[p].at \in 1..Len(Accesses[job[p].kind])
      /\ Place(job[p].kind, job[p].at, "ticket")
  BY <1>1, AtIs
<1>3. job[p].at # Len(Accesses[job[p].kind])
  BY <1>2, Places DEF Place
<1>4. job[p].id \in Ticket /\ job[p].to \in Status
  BY <1>2, JobIs DEF JobOK, Place
<1>5. from \in Status \cup {"none"}
  BY <1>4, JobIs DEF Job
<1> HIDE DEF from
<1>6. /\ j \in Job /\ j.kind = job[p].kind /\ j.at = job[p].at /\ j.to = job[p].to
      /\ j.id = job[p].id /\ j.from = from /\ j.seen = job[p].seen /\ j.rec = job[p].rec
  BY <1>5, JobIs DEF Job
<1> HIDE DEF j
<1>7. CASE job[p].kind = "update" /\ ticket[job[p].id] = job[p].to
  BY <1>1, <1>2, <1>4, <1>7 DEF Ended, Place
<1>8. CASE ~(job[p].kind = "update" /\ ticket[job[p].id] = job[p].to)
  <2>1. /\ Onward(p) /\ job'[p].rec = job[p].rec
        /\ job'[p].id = job[p].id /\ job'[p].from = from /\ job'[p].seen = job[p].seen
    BY <1>1, <1>2, <1>3, <1>6, <1>8, Goes
  <2>2. JobOK(job'[p])
    BY <1>2, <1>4, <2>1, JobIs DEF JobOK, Onward, Place, Releasing
  <2> QED BY <1>2, <1>4, <2>1, <2>2 DEF Place, from
<1> QED BY <1>7, <1>8

\* The accesses that leave the rest of the job alone.
LEMMA Plain ==
  ASSUME JobsOK, NEW p \in Process, NEW step, At(p, step),
         step \in {"write", "contract", "release", "store", "close", "retro", "registry"},
         job' = [job EXCEPT ![p] = Rest(job[p])]
  PROVE  /\ Place(job[p].kind, job[p].at, step)
         /\ job[p].kind \in Kinds
         /\ \/ Ended(p) /\ job[p].at = Len(Accesses[job[p].kind])
            \/ /\ Onward(p) /\ JobOK(job'[p])
               /\ job[p].at # Len(Accesses[job[p].kind])
               /\ job'[p].id = job[p].id /\ job'[p].from = job[p].from
               /\ job'[p].seen = job[p].seen /\ job'[p].rec = job[p].rec
<1>1. /\ job[p].kind \in Kinds /\ job[p].at \in 1..Len(Accesses[job[p].kind])
      /\ Place(job[p].kind, job[p].at, step)
  BY AtIs
<1>2. CASE job[p].at = Len(Accesses[job[p].kind])
  BY <1>1, <1>2, JobIs, Ends
<1>3. CASE job[p].at # Len(Accesses[job[p].kind])
  <2>1. /\ Onward(p) /\ job'[p].rec = job[p].rec
        /\ job'[p].id = job[p].id /\ job'[p].from = job[p].from /\ job'[p].seen = job[p].seen
    BY <1>1, <1>3, JobIs, Goes
  <2>2. job[p].kind = "prepare" => job[p].at > 2
    BY <1>1 DEF Place, Releasing
  <2>3. job[p].kind = "create" => job[p].at > 1
    BY <1>1 DEF Place, Releasing
  <2>4. JobOK(job'[p])
    BY <1>1, <2>1, <2>2, <2>3, JobIs DEF JobOK, Onward
  <2> QED BY <1>1, <1>3, <2>1, <2>4
<1> QED BY <1>2, <1>3

LEMMA Loads ==
  ASSUME JobsOK, records \in [Release -> Record], NEW p \in Process, LoadRelease(p)
  PROVE  /\ job[p].kind \in Releasing /\ job[p].at = 1 /\ job[p].id \in Release
         /\ \/ Ended(p)
            \/ /\ Onward(p) /\ JobOK(job'[p])
               /\ job'[p].rec = records[job[p].id]
               /\ job[p].kind = "deploy" => records[job[p].id].status = "ready_to_deploy"
               /\ job'[p].id = job[p].id /\ job'[p].seen = job[p].seen
<1> DEFINE rec == records[job[p].id]
           j == [job[p] EXCEPT !.rec = rec]
<1>1. /\ At(p, "load")
      /\ job' = [job EXCEPT ![p] =
                   IF job[p].kind = "deploy" /\ rec.status # "ready_to_deploy"
                   THEN Idle ELSE Rest(j)]
  BY DEF LoadRelease
<1>2. /\ job[p].kind \in Kinds /\ job[p].at \in 1..Len(Accesses[job[p].kind])
      /\ Place(job[p].kind, job[p].at, "load")
  BY <1>1, AtIs
<1>3. job[p].at # Len(Accesses[job[p].kind])
  BY <1>2, Places DEF Place, Releasing
<1>4. job[p].id \in Release /\ rec \in Record
  BY <1>2, JobIs DEF Place, JobOK
<1>5. /\ j \in Job /\ j.kind = job[p].kind /\ j.at = job[p].at /\ j.to = job[p].to
      /\ j.id = job[p].id /\ j.from = job[p].from /\ j.seen = job[p].seen /\ j.rec = rec
  BY <1>4, JobIs DEF Job
<1> HIDE DEF j
<1>6. CASE job[p].kind = "deploy" /\ rec.status # "ready_to_deploy"
  BY <1>1, <1>2, <1>4, <1>6 DEF Ended, Place
<1>7. CASE ~(job[p].kind = "deploy" /\ rec.status # "ready_to_deploy")
  <2>1. /\ Onward(p) /\ job'[p].rec = rec
        /\ job'[p].id = job[p].id /\ job'[p].seen = job[p].seen
    BY <1>1, <1>2, <1>3, <1>5, <1>7, Goes
  <2>2. JobOK(job'[p])
    BY <1>2, <2>1, JobIs DEF JobOK, Onward, Place, Releasing
  <2> QED BY <1>2, <1>4, <1>7, <2>1, <2>2 DEF Place
<1> QED BY <1>6, <1>7

LEMMA CommandIs ==
  ASSUME NEW kind \in Kinds, NEW id \in Id, NEW to \in Flag,
         kind \in {"create", "update", "reopen"} => to \in Status,
         kind \in {"update", "reopen"} => id \in Ticket,
         kind = "prepare" => to \in Target,
         kind \in Releasing => id \in Release,
         kind = "deploy" => to \in Target \cup {"none"}
  PROVE  LET c == Command(kind, id, to)
         IN /\ JobOK(c) /\ c.kind = kind /\ c.id = id /\ c.to = to /\ c.at = 1
            /\ c.from = "none" /\ c.rec = NoRecord
            /\ c.seen = [planned |-> FALSE, buckets |-> {}]
<1> DEFINE c == Command(kind, id, to)
<1>1. NoRecord \in Record /\ [planned |-> FALSE, buckets |-> {}] \in Current
  BY DEF NoRecord, Record, Current
<1>2. /\ c \in Job /\ c.kind = kind /\ c.id = id /\ c.to = to /\ c.at = 1
      /\ c.from = "none" /\ c.rec = NoRecord /\ c.seen = [planned |-> FALSE, buckets |-> {}]
  BY <1>1 DEF Command, Idle, Job
<1>3. 1 \in 1..Len(Accesses[kind])
  BY Rows, KindsAre, Triples, Pairs, Quads
<1> HIDE DEF c
<1> QED BY <1>2, <1>3 DEF JobOK, c

(***************************************************************************)
(* Types, and what a step is.                                              *)
(***************************************************************************)
FilesOK ==
    /\ current \in Current
    /\ ticket \in [Ticket -> Status \cup {"none"}]
    /\ contract \in BOOLEAN /\ retro \in BOOLEAN
    /\ records \in [Release -> Record] /\ approved \subseteq Release
    /\ strayed \in BOOLEAN /\ mishaps \in 0..MaxMishaps
    /\ registry \in {"open", "closed", "retrospected"}
    /\ exit \in {"ok", "failed"}

Typed == FilesOK /\ JobsOK /\ todo \subseteq Ticket

Exists(t) == ticket[t] # "none"

\* Mishaps only add up; without one, some condition holds.
Counted(calm) ==
    /\ mishaps' \in 0..MaxMishaps
    /\ mishaps' = 0 => mishaps = 0 /\ calm

\* A process starts a command.
Launches(p, c) ==
    /\ job[p].kind = "none" /\ job' = [job EXCEPT ![p] = c]
    /\ JobOK(c) /\ c.kind # "none" /\ c.at = 1 /\ c.from = "none" /\ c.rec = NoRecord
    /\ c.seen = [planned |-> FALSE, buckets |-> {}]
    /\ c.kind \in {"update", "reopen"} => Exists(c.id) \/ c.id \in todo
    /\ c.kind \in Releasing => records[c.id].status # "none"
    /\ p = Child /\ c.kind = "prepare" => c.to = "staging" /\ ~FindExistingStagingRelease
    /\ ~strayed' => /\ c.kind = "prepare" => p = Child
                    /\ c.kind \in Releasing => c.to # "other"
    /\ UNCHANGED <<current, ticket, contract, records, retro, exit, approved>>
    /\ registry' \in {registry, "closed"}
    /\ strayed' \in BOOLEAN /\ (strayed => strayed')
    /\ Counted(Quiet)

\* A process gives its command up, or is killed.
Stops(p) ==
    /\ Ended(p) /\ UNCHANGED <<files, history>> /\ exit' \in {"ok", "failed"}
    /\ Counted(~Running(p))

\* A command outlives the run that waits for it.
Survives(w) ==
    /\ job[Child].kind # "none" /\ job[w].kind = "none"
    /\ job' = [job EXCEPT ![w] = job[Child], ![Child] = Idle]
    /\ strayed' = (strayed \/ job[Child].kind = "prepare")
    /\ UNCHANGED <<files, approved>> /\ exit' = "ok"
    /\ Counted(TRUE)

\* A command makes its next access.
Accessed(p) ==
    \/ ReadCurrent(p) \/ WriteTicket(p) \/ WriteCurrent(p) \/ WriteContract(p)
    \/ Mint(p) \/ WriteRelease(p) \/ LoadRelease(p) \/ StoreRelease(p)
    \/ CloseSprint(p) \/ WriteRetro(p) \/ FlipStatusToRetrospected(p) \/ Fail(p)

\* Nothing happens to the board.
Rests == UNCHANGED <<files, job, history>> /\ exit' \in {"ok", "failed"} /\ Counted(TRUE)

Moves == \/ Rests
         \/ \E p \in Process : \E c : Launches(p, c)
         \/ \E p \in Process : Stops(p)
         \/ \E w \in Worker : Survives(w)
         \/ \E p \in Process : Accessed(p)

LEMMA MishapCounts ==
  ASSUME mishaps \in 0..MaxMishaps, NEW happens \in BOOLEAN, Mishap(happens)
  PROVE  Counted(~happens)
  BY BoardAssumption DEF Mishap, Counted

LEMMA LaunchIs ==
  ASSUME JobsOK, FilesOK, NEW p \in Process, NEW kind \in Kinds, NEW id \in Id, NEW to \in Flag,
         kind \in {"create", "update", "reopen"} => to \in Status,
         kind \in {"update", "reopen"} => id \in Ticket /\ (Exists(id) \/ id \in todo),
         kind = "prepare" => to \in Target,
         kind \in Releasing => id \in Release /\ records[id].status # "none",
         kind = "deploy" => to \in Target \cup {"none"},
         p = Child /\ kind = "prepare" => to = "staging" /\ ~FindExistingStagingRelease,
         ~strayed' => /\ kind = "prepare" => p = Child
                      /\ kind \in Releasing => to # "other",
         UNCHANGED <<current, ticket, contract, records, retro, exit, approved>>,
         registry' \in {registry, "closed"},
         strayed' \in BOOLEAN, strayed => strayed',
         Launch(p, Command(kind, id, to))
  PROVE  \E c : Launches(p, c)
<1> DEFINE c == Command(kind, id, to)
<1>1. /\ JobOK(c) /\ c.kind = kind /\ c.id = id /\ c.to = to /\ c.at = 1
      /\ c.from = "none" /\ c.rec = NoRecord
      /\ c.seen = [planned |-> FALSE, buckets |-> {}]
  BY CommandIs
<1>2. job[p].kind = "none" /\ job' = [job EXCEPT ![p] = c] /\ Mishap(~Quiet)
  BY DEF Launch, Running
<1>3. Counted(Quiet)
  <2>1. (~Quiet) \in BOOLEAN /\ mishaps \in 0..MaxMishaps
    BY DEF Quiet, FilesOK
  <2>2. Counted(~(~Quiet))
    BY <1>2, <2>1, MishapCounts
  <2> QED BY <2>2 DEF Counted
<1> HIDE DEF c
<1>4. c.kind # "none"
  BY <1>1, KindsAre
<1>5. Launches(p, c)
  BY <1>1, <1>2, <1>3, <1>4 DEF Launches
<1> QED BY <1>5

LEMMA WorkerMoves ==
  ASSUME Typed, NEW w \in Worker, Create(w) \/ Update(w) \/ Reopen(w) \/ Hand(w) \/ Ship(w)
  PROVE  \E c : Launches(w, c)
<1> USE KindsAre, BoardAssumption DEF Typed, FilesOK, Process, files, history, Releasing
<1>0. w # Child
  OBVIOUS
<1>1. CASE Create(w)
  <2>1. PICK s \in NewStatus : Launch(w, Command("create", 0, s))
    BY <1>1 DEF Create
  <2>2. "create" \in Kinds /\ s \in Status /\ 0 \in Id /\ s \in Flag
    BY DEF Id, Flag
  <2> QED BY <1>0, <1>1, <2>1, <2>2, LaunchIs DEF Create
<1>2. CASE Update(w)
  <2>1. PICK s \in Reported, t \in Tickets : Launch(w, Command("update", t, s))
    BY <1>2 DEF Update
  <2>2. "update" \in Kinds /\ s \in Status /\ t \in Id /\ s \in Flag /\ t \in Ticket /\ Exists(t)
    BY DEF Id, Flag, Tickets, Exists
  <2> QED BY <1>0, <1>2, <2>1, <2>2, LaunchIs DEF Update
<1>3. CASE Reopen(w)
  <2>1. PICK t \in Tickets : Launch(w, Command("reopen", t, "blocked"))
    BY <1>3 DEF Reopen
  <2>2. /\ "reopen" \in Kinds /\ "blocked" \in Status /\ t \in Id /\ "blocked" \in Flag
        /\ t \in Ticket /\ Exists(t)
    BY DEF Id, Flag, Tickets, Exists, Status
  <2> QED BY <1>0, <1>3, <2>1, <2>2, LaunchIs DEF Reopen
<1>4. CASE Hand(w)
  <2>1. PICK kind \in ByHand, flag \in Target \cup {"none", "forced"} :
           /\ kind = "prepare" <=> flag \in Target
           /\ Launch(w, Command(kind, 0, flag))
           /\ strayed' = (strayed \/ kind = "prepare")
    BY <1>4 DEF Hand
  <2>2. /\ kind \in {"touch", "plan", "design", "prepare", "retrospective"}
        /\ kind \in Kinds /\ 0 \in Id /\ flag \in Flag
    BY DEF Id, Flag
  <2>3. UNCHANGED <<files, exit, approved>>
    BY <1>4 DEF Hand
  <2>4. /\ strayed' \in BOOLEAN /\ (strayed => strayed')
        /\ ~strayed' => kind # "prepare"
    BY <2>1
  <2> QED BY <1>0, <2>1, <2>2, <2>3, <2>4, LaunchIs
<1>5. CASE Ship(w)
  <2>1. PICK kind \in Shipping, r \in Releases, flag \in Target \cup {"none"} :
           /\ Launch(w, Command(kind, r, flag))
           /\ strayed' = (strayed \/ flag = "other")
    BY <1>5 DEF Ship
  <2>2. /\ kind \in Releasing /\ kind \in Kinds /\ r \in Id /\ flag \in Flag
        /\ r \in Release /\ records[r].status # "none"
    BY DEF Id, Flag, Releases
  <2>3. UNCHANGED <<files, exit, approved>>
    BY <1>5 DEF Ship
  <2>4. /\ strayed' \in BOOLEAN /\ (strayed => strayed')
        /\ ~strayed' => flag # "other"
    BY <2>1
  <2> QED BY <1>0, <2>1, <2>2, <2>3, <2>4, LaunchIs
<1> QED BY <1>1, <1>2, <1>3, <1>4, <1>5

LEMMA RunMoves == ASSUME Typed, Full PROVE Moves
<1> USE KindsAre DEF Typed, board, files, history
<1>0. /\ Child \in Process /\ 0 \in Id /\ "none" \in Flag /\ "staging" \in Flag
      /\ "in_progress" \in Flag /\ "in_progress" \in Status /\ "staging" \in Target
  BY DEF Process, Id, Flag, Target, Status
<1>r. ASSUME UNCHANGED <<files, job, history, mishaps>>, exit' \in {exit, "ok"} PROVE Moves
  BY <1>r DEF Moves, Rests, Counted, FilesOK
<1>l. ASSUME NEW kind \in {"plan", "design", "retrospective"},
             Launch(Child, Command(kind, 0, "none")),
             UNCHANGED <<current, ticket, contract, records, retro, exit, history>>,
             registry' \in {registry, "closed"}
      PROVE  Moves
  <2>1. strayed' \in BOOLEAN /\ strayed' = strayed /\ approved' = approved
    BY <1>l DEF FilesOK
  <2>2. \E c : Launches(Child, c)
    BY <1>0, <1>l, <2>1, LaunchIs DEF Releasing
  <2> QED BY <1>0, <2>2 DEF Moves
<1>1. CASE Start \/ Consult \/ Consume \/ RecordWrite \/ Execute \/ After
  BY <1>1, <1>r DEF Start, Consult, Consume, RecordWrite, Execute, After
<1>2. CASE RecordOpen
  <2>1. CASE mishaps' = mishaps
    BY <1>2, <1>r, <2>1 DEF RecordOpen
  <2>2. CASE Mishap(TRUE)
    <3>1. Counted(~TRUE)
      BY <2>2, MishapCounts DEF FilesOK
    <3>2. Counted(TRUE)
      BY <3>1 DEF Counted
    <3> QED BY <1>2, <3>2 DEF RecordOpen, Moves, Rests, FilesOK
  <2> QED BY <1>2, <2>1, <2>2 DEF RecordOpen
<1>3. CASE PlanReturns \/ DesignReturns \/ HandOffReturns \/ ReleaseReturns \/ RetroReturns
  BY <1>3, <1>r DEF PlanReturns, DesignReturns, HandOffReturns, ReleaseReturns, RetroReturns, Back
<1>4. CASE Plan
  <2>1. CASE Spawn(Command("plan", 0, "none"))
    BY <1>l, <2>1 DEF Spawn
  <2> QED BY <1>4, <1>r, <2>1 DEF Plan
<1>5. CASE Design
  <2>1. CASE Spawn(Command("design", 0, "none"))
    BY <1>l, <2>1 DEF Spawn
  <2> QED BY <1>5, <1>r, <2>1 DEF Design
<1>6. CASE ReleasePrep
  <2>1. CASE Spawn(Command("prepare", 0, "staging")) /\ ~FindExistingStagingRelease
    <3>1. Launch(Child, Command("prepare", 0, "staging")) /\ UNCHANGED <<files, exit, history>>
      BY <2>1 DEF Spawn
    <3>2. strayed' \in BOOLEAN
      BY <3>1 DEF FilesOK
    <3>3. \E c : Launches(Child, c)
      BY <1>0, <2>1, <3>1, <3>2, LaunchIs DEF Releasing
    <3> QED BY <1>0, <3>3 DEF Moves
  <2> QED BY <1>6, <1>r, <2>1 DEF ReleasePrep
<1>7. CASE HandOff
  <2>1. PICK t \in todo : Launch(Child, Command("update", t, "in_progress"))
    BY <1>7 DEF HandOff
  <2>2. UNCHANGED <<files, exit, history>>
    BY <1>7 DEF HandOff
  <2>3. strayed' \in BOOLEAN /\ t \in Id /\ t \in Ticket
    BY <2>2 DEF FilesOK, Id
  <2>4. \E c : Launches(Child, c)
    BY <1>0, <2>1, <2>2, <2>3, LaunchIs DEF Releasing
  <2> QED BY <1>0, <2>4 DEF Moves
<1>8. CASE Retro
  BY <1>8, <1>l DEF Retro
<1>9. CASE Crash
  <2>1. CASE /\ job' = [job EXCEPT ![Child] = Idle] /\ UNCHANGED strayed
             /\ Mishap(Running(Child) \/ pc = "recording")
    <3>1. (Running(Child) \/ pc = "recording") \in BOOLEAN
      BY DEF Running
    <3>2. Counted(~(Running(Child) \/ pc = "recording"))
      BY <2>1, <3>1, MishapCounts DEF FilesOK
    <3>3. Counted(~Running(Child))
      BY <3>2 DEF Counted
    <3>4. Stops(Child)
      BY <1>9, <2>1, <3>3 DEF Crash, Stops, Ended
    <3> QED BY <1>0, <3>4 DEF Moves
  <2>2. ASSUME NEW w \in Worker, Running(Child), ~Running(w),
               job' = [job EXCEPT ![w] = job[Child], ![Child] = Idle],
               strayed' = (strayed \/ job[Child].kind = "prepare"), mishaps' = mishaps
        PROVE  Moves
    <3>1. Survives(w)
      BY <1>9, <2>2 DEF Crash, Survives, Running, Counted, FilesOK
    <3> QED BY <3>1 DEF Moves
  <2> QED BY <1>9, <2>1, <2>2 DEF Crash
<1> QED BY <1>1, <1>2, <1>3, <1>4, <1>5, <1>6, <1>7, <1>8, <1>9 DEF Full

LEMMA StepMoves == ASSUME Typed, [Next]_vars PROVE Moves
<1>1. CASE UNCHANGED vars
  BY <1>1 DEF vars, board, Moves, Rests, Counted, Typed, FilesOK
<1>2. CASE Full
  BY <1>2, RunMoves
<1>3. CASE BoardStep
  <2>1. ASSUME NEW p \in Process, Die(p) PROVE Moves
    <3>1. Counted(~TRUE)
      BY <2>1, MishapCounts DEF Die, Typed, FilesOK
    <3>2. Stops(p)
      BY <2>1, <3>1 DEF Die, Stops, Ended, Counted, Typed, FilesOK
    <3> QED BY <3>2 DEF Moves
  <2> QED BY <1>3, <2>1, WorkerMoves DEF BoardStep, Moves, Accessed, Process
<1> QED BY <1>1, <1>2, <1>3 DEF Next

\* The tickets that a run has to hand off are those it had, or are on the board.
LEMMA TodoIs ==
  ASSUME [Next]_vars, NEW t \in todo'
  PROVE  t \in todo \/ t \in Lane("ready_for_execution")
<1>1. CASE UNCHANGED run
  BY <1>1 DEF run
<1>2. CASE Start \/ Consult \/ Consume \/ RecordOpen \/ RecordWrite
  BY <1>2 DEF Start, Consult, Consume, RecordOpen, RecordWrite, Go, HaltFor, End
<1>3. CASE Plan \/ PlanReturns \/ Design \/ DesignReturns
  BY <1>3 DEF Plan, PlanReturns, Design, DesignReturns, Spawn, Go, Halt, HaltFor, End
<1>4. CASE Execute \/ HandOff \/ HandOffReturns
  BY <1>4 DEF Execute, HandOff, HandOffReturns, Go, Halt, HaltFor, End
<1>5. CASE ReleasePrep \/ ReleaseReturns \/ Retro \/ RetroReturns \/ After \/ Crash
  BY <1>5 DEF ReleasePrep, ReleaseReturns, Retro, RetroReturns, After, Crash,
              Spawn, Go, Halt, HaltFor, End
<1> QED BY <1>1, <1>2, <1>3, <1>4, <1>5 DEF Next, Full, vars

LEMMA ChangedTyped ==
  ASSUME NEW j, JobOK(j), j.kind \in {"create", "update", "reopen"} => j.id \in Ticket
  PROVE  /\ Changed(j) \in Current
         /\ j.kind = "plan" => /\ Changed(j).planned /\ Changed(j).buckets = j.seen.buckets
         /\ j.kind # "plan" => Changed(j).planned = j.seen.planned
         /\ j.kind = "update" => Changed(j).buckets = ResyncBuckets(j.seen.buckets, j.id, j.to)
         /\ j.kind \in {"create", "reopen"} =>
              Changed(j).buckets = MoveStatus(j.seen.buckets, j.id, j.from, j.to)
         /\ j.kind \notin {"plan", "update", "create", "reopen"} => Changed(j) = j.seen
<1>1. j.seen \in Current
  BY DEF JobOK, Job
<1>2. CASE j.kind = "plan"
  BY <1>1, <1>2 DEF Changed, Current
<1>3. CASE j.kind = "update"
  <2>1. ResyncBuckets(j.seen.buckets, j.id, j.to) \subseteq Ticket \X Status
    BY <1>1, <1>3 DEF ResyncBuckets, JobOK, Current
  <2>2. Changed(j) = [j.seen EXCEPT !.buckets = ResyncBuckets(j.seen.buckets, j.id, j.to)]
    BY <1>3 DEF Changed
  <2> QED BY <1>1, <1>3, <2>1, <2>2 DEF Current
<1>4. CASE j.kind \in {"create", "reopen"}
  <2>1. MoveStatus(j.seen.buckets, j.id, j.from, j.to) \subseteq Ticket \X Status
    BY <1>1, <1>4 DEF MoveStatus, JobOK, Current
  <2>2. Changed(j) = [j.seen EXCEPT !.buckets = MoveStatus(j.seen.buckets, j.id, j.from, j.to)]
    BY <1>4 DEF Changed
  <2> QED BY <1>1, <1>4, <2>1, <2>2 DEF Current
<1>5. CASE j.kind \notin {"plan", "update", "create", "reopen"}
  BY <1>1, <1>5 DEF Changed
<1> QED BY <1>2, <1>3, <1>4, <1>5

LEMMA WritesCurrent ==
  ASSUME Typed, NEW p \in Process, WriteCurrent(p)
  PROVE  /\ \/ job[p].kind \in {"create", "update", "reopen", "plan"} /\ job[p].at = 3
            \/ job[p].kind \in {"touch", "design"} /\ job[p].at = 2
            \/ job[p].kind = "prepare" /\ job[p].at = 4
         /\ Ended(p) /\ current' = Changed(job[p]) /\ current' \in Current
         /\ job[p].kind \in {"create", "update", "reopen"} => job[p].id \in Ticket
         /\ exit' = IF p = Child THEN "ok" ELSE exit
         /\ UNCHANGED <<ticket, contract, records, registry, retro, history, mishaps>>
<1>1. JobsOK /\ At(p, "write") /\ job' = [job EXCEPT ![p] = Rest(job[p])]
  BY DEF WriteCurrent, Typed
<1>2. /\ Place(job[p].kind, job[p].at, "write") /\ job[p].kind \in Kinds
      /\ Ended(p) \/ job[p].at # Len(Accesses[job[p].kind])
  BY <1>1, Plain
<1>3. Ended(p)
  BY <1>1, <1>2, AtIs, Places DEF Place
<1>4. job[p].kind \in {"create", "update", "reopen"} => job[p].id \in Ticket
  BY <1>1, <1>2, JobIs DEF JobOK, Place
<1>5. Changed(job[p]) \in Current
  BY <1>1, <1>4, ChangedTyped, JobIs
<1> QED BY <1>2, <1>3, <1>4, <1>5 DEF Place, WriteCurrent

LEMMA FailsIs ==
  ASSUME Typed, NEW p \in Process, Fail(p)
  PROVE  /\ Ended(p) /\ exit' \in {"ok", "failed"} /\ current' \in Current /\ Running(p)
         /\ \/ current' = current
            \/ job[p].kind = "design" /\ job[p].at > 1 /\ current' = job[p].seen
         /\ \/ job[p].at = 1 /\ job[p].kind # "update"
            \/ job[p].kind \in {"design", "prepare"}
         /\ UNCHANGED <<ticket, contract, records, registry, retro, history, mishaps>>
<1>0. exit' \in {"ok", "failed"} /\ Ended(p) /\ Running(p)
  BY DEF Fail, Typed, FilesOK, Ended, At
<1>1. CASE At(p, "write")
  <2>1. /\ job[p].kind \in Kinds /\ job[p].at \in 1..Len(Accesses[job[p].kind])
        /\ Place(job[p].kind, job[p].at, "write")
    BY <1>1, AtIs DEF Typed
  <2>2. job[p].at > 1
    BY <2>1 DEF Place
  <2>3. ~At(p, "mint")
    BY <1>1 DEF At
  <2>4. job[p].kind = "design"
    BY <2>2, <2>3, <2>1 DEF Fail
  <2>5. Changed(job[p]) = job[p].seen /\ Changed(job[p]) \in Current
    BY <2>4, ChangedTyped, JobIs DEF Typed
  <2> QED BY <1>0, <1>1, <2>2, <2>4, <2>5 DEF Fail
<1>2. CASE At(p, "mint")
  <2>1. Place(job[p].kind, job[p].at, "mint")
    BY <1>2, AtIs DEF Typed
  <2> QED BY <1>0, <1>1, <1>2, <2>1 DEF Fail, Place, Typed, FilesOK
<1>3. CASE ~At(p, "write") /\ ~At(p, "mint")
  BY <1>0, <1>3 DEF Fail, Typed, FilesOK
<1> QED BY <1>1, <1>2, <1>3

\* The accesses that change neither the board nor the tickets.
LEMMA StoresIs ==
  ASSUME Typed, NEW p \in Process, StoreRelease(p)
  PROVE  /\ job[p].kind \in Releasing /\ job[p].at = 2 /\ job[p].id \in Release
         /\ Stored(job[p]) \in Record
         /\ Stored(job[p]).target =
              IF job[p].kind = "deploy" /\ job[p].to # "none" THEN job[p].to
              ELSE job[p].rec.target
         /\ records' = [records EXCEPT ![job[p].id] = Stored(job[p])]
         /\ approved' = approved \cup {r \in {job[p].id} : job[p].kind = "approve"}
         /\ UNCHANGED <<current, ticket, contract, registry, retro, exit, strayed, mishaps>>
         /\ Ended(p) \/ (Onward(p) /\ JobOK(job'[p]) /\ job'[p].id = job[p].id
                         /\ job'[p].rec = job[p].rec /\ job'[p].seen = job[p].seen)
<1>1. At(p, "store") /\ job' = [job EXCEPT ![p] = Rest(job[p])]
  BY DEF StoreRelease
<1>2. /\ job[p].kind \in Releasing /\ job[p].at = 2
      /\ Ended(p) \/ (Onward(p) /\ JobOK(job'[p]) /\ job'[p].id = job[p].id
                      /\ job'[p].rec = job[p].rec /\ job'[p].seen = job[p].seen)
  BY <1>1, Plain DEF Place, Typed
<1>3. /\ job[p].id \in Release /\ job[p].rec \in Record
      /\ job[p].kind = "deploy" => job[p].to \in Target \cup {"none"}
  BY <1>2, JobIs DEF Typed, JobOK, Job
<1>4. /\ Stored(job[p]).target =
           IF job[p].kind = "deploy" /\ job[p].to # "none" THEN job[p].to ELSE job[p].rec.target
      /\ Stored(job[p]) \in Record
  BY <1>2, <1>3 DEF Stored, Record
<1> QED BY <1>2, <1>3, <1>4 DEF StoreRelease

\* A record that prepare writes.
LEMMA PreparesIs ==
  ASSUME Typed, NEW p \in Process, WriteRelease(p)
  PROVE  /\ job[p].kind = "prepare" /\ job[p].at = 3
         /\ job[p].id \in Release /\ job[p].to \in Target
         /\ records' = [records EXCEPT ![job[p].id] =
                          [target |-> job[p].to, status |-> "preparing"]]
         /\ UNCHANGED <<current, ticket, contract, registry, retro, exit, history, mishaps>>
         /\ Onward(p) /\ JobOK(job'[p]) /\ job'[p].id = job[p].id
         /\ job'[p].rec = job[p].rec /\ job'[p].seen = job[p].seen
<1>1. At(p, "release") /\ job' = [job EXCEPT ![p] = Rest(job[p])]
  BY DEF WriteRelease
<1>2. /\ job[p].kind = "prepare" /\ job[p].at = 3 /\ job[p].kind \in Kinds
      /\ \/ job[p].at = Len(Accesses[job[p].kind])
         \/ (Onward(p) /\ JobOK(job'[p]) /\ job'[p].id = job[p].id
                      /\ job'[p].rec = job[p].rec /\ job'[p].seen = job[p].seen)
  BY <1>1, Plain DEF Place, Typed
<1>3. job[p].at # Len(Accesses[job[p].kind])
  BY <1>2, Rows, Quads
<1>4. job[p].id \in Release /\ job[p].to \in Target
  BY <1>2, JobIs DEF Typed, JobOK
<1> QED BY <1>2, <1>3, <1>4 DEF WriteRelease

\* The accesses that leave tickets, board and records alone.
Others(p) == WriteContract(p) \/ CloseSprint(p) \/ WriteRetro(p) \/ FlipStatusToRetrospected(p)

LEMMA OthersIs ==
  ASSUME Typed, NEW p \in Process, Others(p)
  PROVE  /\ UNCHANGED <<current, ticket, records, exit, history, mishaps>>
         /\ contract' \in BOOLEAN /\ (contract => contract') /\ retro' \in BOOLEAN
         /\ registry' \in {"open", "closed", "retrospected"}
         /\ \/ job[p].kind = "plan" /\ job[p].at = 2 /\ contract'
            \/ job[p].kind = "deploy" /\ job[p].at = 3
            \/ job[p].kind = "retrospective"
         /\ \/ Ended(p)
            \/ (Onward(p) /\ JobOK(job'[p]) /\ job'[p].id = job[p].id
                /\ job'[p].rec = job[p].rec /\ job'[p].seen = job[p].seen
                /\ job[p].kind # "deploy")
<1>1. \E step \in {"contract", "close", "retro", "registry"} :
         /\ At(p, step) /\ job' = [job EXCEPT ![p] = Rest(job[p])]
         /\ step = "contract" => contract'
  BY DEF Others, WriteContract, CloseSprint, WriteRetro, FlipStatusToRetrospected
<1>2. PICK step \in {"contract", "close", "retro", "registry"} :
         /\ At(p, step) /\ job' = [job EXCEPT ![p] = Rest(job[p])]
         /\ step = "contract" => contract'
  BY <1>1
<1>3. /\ Place(job[p].kind, job[p].at, step) /\ job[p].kind \in Kinds
      /\ \/ Ended(p)
         \/ (Onward(p) /\ JobOK(job'[p]) /\ job'[p].id = job[p].id
             /\ job'[p].rec = job[p].rec /\ job'[p].seen = job[p].seen
             /\ job[p].at # Len(Accesses[job[p].kind]))
  BY <1>2, Plain DEF Typed
<1>4. job[p].kind = "deploy" => job[p].at = Len(Accesses[job[p].kind])
  <2>1. job[p].at \in 1..Len(Accesses[job[p].kind])
    BY <1>2, AtIs DEF Typed
  <2> QED BY <1>3, <2>1, Places DEF Place, Releasing
<1>5. /\ UNCHANGED <<current, ticket, records, exit, history, mishaps>>
      /\ contract' \in BOOLEAN /\ (contract => contract') /\ retro' \in BOOLEAN
      /\ registry' \in {"open", "closed", "retrospected"}
  BY DEF Others, WriteContract, CloseSprint, WriteRetro, FlipStatusToRetrospected,
         Typed, FilesOK
<1> QED BY <1>2, <1>3, <1>4, <1>5 DEF Place

LEMMA SurvivesIs ==
  ASSUME JobsOK, NEW w \in Worker, Survives(w)
  PROVE  /\ w \in Process /\ Child \in Process /\ w # Child
         /\ job'[w] = job[Child] /\ job'[Child] = Idle
         /\ \A q \in Process \ {w, Child} : job'[q] = job[q]
         /\ JobsOK'
<1>1. w \in Process /\ Child \in Process /\ w # Child
  BY BoardAssumption DEF Process
<1>2. /\ job'[w] = job[Child] /\ job'[Child] = Idle
      /\ \A q \in Process \ {w, Child} : job'[q] = job[q]
      /\ job' \in [Process -> Job]
  BY <1>1, IdleOK DEF JobsOK, Survives, JobOK
<1>3. \A q \in Process : JobOK(job'[q])
  BY <1>1, <1>2, IdleOK DEF JobsOK
<1>4. JobsOK'
  BY <1>2, <1>3 DEF JobsOK, JobOK
<1> QED BY <1>1, <1>2, <1>4

LEMMA TypedStep == ASSUME Typed, [Next]_vars PROVE Typed'
<1>1. FilesOK /\ JobsOK /\ todo \subseteq Ticket
  BY DEF Typed
<1>2. todo' \subseteq Ticket
  BY <1>1, TodoIs DEF Lane
<1> USE DEF files, history
<1>3. CASE Rests
  BY <1>1, <1>2, <1>3 DEF Rests, Counted, Typed, FilesOK, JobsOK, JobOK
<1>4. ASSUME NEW p \in Process, NEW c, Launches(p, c) PROVE Typed'
  <2>1. JobsOK'
    BY <1>1, <1>4 DEF Launches, JobsOK, JobOK
  <2> QED BY <1>1, <1>2, <1>4, <2>1 DEF Launches, Counted, Typed, FilesOK
<1>5. ASSUME NEW p \in Process, Stops(p) PROVE Typed'
  <2>1. JobsOK'
    BY <1>1, <1>5, JobsStay DEF Stops
  <2> QED BY <1>1, <1>2, <1>5, <2>1 DEF Stops, Counted, Typed, FilesOK
<1>6. ASSUME NEW w \in Worker, Survives(w) PROVE Typed'
  <2>1. JobsOK'
    BY <1>1, <1>6, SurvivesIs
  <2>2. strayed' \in BOOLEAN
    BY <1>1, <1>6 DEF Survives, FilesOK
  <2> QED BY <1>1, <1>2, <1>6, <2>1, <2>2 DEF Survives, Counted, Typed, FilesOK
<1>7. ASSUME NEW p \in Process, Accessed(p) PROVE Typed'
  <2>1. CASE ReadCurrent(p)
    <3>1. JobsOK'
      BY <1>1, <2>1, Reads, JobsStay DEF FilesOK
    <3>2. mishaps' \in 0..MaxMishaps
      <4>1. CASE job[p].kind = "create"
        <5>1. (job'[p].id \in Tickets) \in BOOLEAN /\ Mishap(job'[p].id \in Tickets)
          BY <1>1, <2>1, <4>1, Reads DEF FilesOK
        <5>2. Counted(~(job'[p].id \in Tickets))
          BY <1>1, <5>1, MishapCounts DEF FilesOK
        <5> QED BY <5>2 DEF Counted
      <4>2. CASE job[p].kind # "create"
        BY <1>1, <2>1, <4>2, Reads DEF FilesOK
      <4> QED BY <4>1, <4>2
    <3> QED BY <1>1, <1>2, <2>1, <3>1, <3>2 DEF Typed, FilesOK, ReadCurrent
  <2>2. CASE WriteTicket(p)
    <3>1. JobsOK' /\ job[p].id \in Ticket /\ job[p].to \in Status
      BY <1>1, <2>2, WritesTicket, JobsStay DEF FilesOK
    <3>2. ticket' \in [Ticket -> Status \cup {"none"}]
      BY <1>1, <2>2, <3>1 DEF WriteTicket, FilesOK
    <3> QED BY <1>1, <1>2, <2>2, <3>1, <3>2 DEF Typed, FilesOK, WriteTicket
  <2>3. CASE WriteCurrent(p)
    <3>1. JobsOK'
      BY <1>1, <2>3, WritesCurrent, JobsStay DEF Typed
    <3> QED BY <1>1, <1>2, <2>3, <3>1, WritesCurrent DEF Typed, FilesOK
  <2>4. CASE Mint(p)
    <3>1. JobsOK'
      BY <1>1, <2>4, Mints, JobsStay
    <3> QED BY <1>1, <1>2, <2>4, <3>1 DEF Typed, FilesOK, Mint
  <2>5. CASE LoadRelease(p)
    <3>1. JobsOK'
      BY <1>1, <2>5, Loads, JobsStay DEF FilesOK
    <3> QED BY <1>1, <1>2, <2>5, <3>1 DEF Typed, FilesOK, LoadRelease
  <2>6. CASE WriteRelease(p)
    <3>1. JobsOK'
      BY <1>1, <2>6, PreparesIs, JobsStay DEF Typed
    <3>2. [target |-> job[p].to, status |-> "preparing"] \in Record
      BY <2>6, PreparesIs DEF Record
    <3>3. records' \in [Release -> Record]
      BY <1>1, <2>6, <3>2, PreparesIs DEF FilesOK
    <3> QED BY <1>1, <1>2, <2>6, <3>1, <3>3, PreparesIs DEF Typed, FilesOK
  <2>7. CASE StoreRelease(p)
    <3>1. JobsOK'
      BY <1>1, <2>7, StoresIs, JobsStay DEF Typed
    <3>2. records' \in [Release -> Record] /\ approved' \subseteq Release
      BY <1>1, <2>7, StoresIs DEF FilesOK
    <3> QED BY <1>1, <1>2, <2>7, <3>1, <3>2, StoresIs DEF Typed, FilesOK
  <2>8. CASE Others(p)
    <3>1. JobsOK'
      BY <1>1, <2>8, OthersIs, JobsStay DEF Typed
    <3> QED BY <1>1, <1>2, <2>8, <3>1, OthersIs DEF Typed, FilesOK
  <2>9. CASE Fail(p)
    <3>1. JobsOK'
      BY <1>1, <2>9, FailsIs, JobsStay DEF Typed
    <3> QED BY <1>1, <1>2, <2>9, <3>1, FailsIs DEF Typed, FilesOK
  <2> QED BY <1>7, <2>1, <2>2, <2>3, <2>4, <2>5, <2>6, <2>7, <2>8, <2>9 DEF Accessed, Others
<1> QED BY <1>3, <1>4, <1>5, <1>6, <1>7, StepMoves DEF Moves

(***************************************************************************)
(* What rests on files that nobody takes back.                             *)
(***************************************************************************)
Shipped == {"ready_to_deploy", "deployed"}

Listed(buckets) == \A e \in buckets : Exists(e[1])

\* What a command carries with it, and may write over newer contents.
Founded(j) ==
    /\ j.seen.planned => contract
    /\ Listed(j.seen.buckets)
    /\ j.kind \in {"update", "reopen"} => Exists(j.id)
    /\ j.kind = "create" /\ j.at > 2 => Exists(j.id)
    /\ j.kind = "plan" /\ j.at > 2 => contract
    /\ j.kind \in Releasing /\ j.at > 1 =>
          /\ j.rec.status \in Shipped => j.id \in approved
          /\ j.kind = "deploy" => j.rec.status = "ready_to_deploy"

\* So is what the files say, and the run.
FilesFounded ==
    /\ current.planned => contract
    /\ Listed(current.buckets)
    /\ \A r \in Release : records[r].status \in Shipped => r \in approved
    /\ \A t \in todo : Exists(t)

Foundation == FilesFounded /\ \A p \in Process : Founded(job[p])

\* Nothing that they rest on is undone.
Grows ==
    /\ contract => contract'
    /\ \A t \in Ticket : Exists(t) => Exists(t)'
    /\ approved \subseteq approved'

LEMMA ListedGrow ==
  ASSUME Grows, NEW buckets \in SUBSET (Ticket \X Status), Listed(buckets)
  PROVE  Listed(buckets)'
<1> SUFFICES ASSUME NEW e \in buckets PROVE Exists(e[1])'
  BY DEF Listed
<1>1. e[1] \in Ticket /\ Exists(e[1])
  BY DEF Listed
<1> QED BY <1>1 DEF Grows

LEMMA FoundedGrow ==
  ASSUME Grows, NEW j, JobOK(j), Founded(j)
  PROVE  Founded(j)'
<1>1. Listed(j.seen.buckets)'
  BY ListedGrow DEF Founded, JobOK, Job, Current
<1>2. j.kind \in {"update", "reopen"} => j.id \in Ticket
  BY DEF JobOK
<1>3. j.kind = "create" /\ j.at > 2 => j.id \in Ticket
  <2>1. j.kind = "create" /\ j.at > 2 => j.at > 1
    BY DEF JobOK, Job
  <2> QED BY <2>1 DEF JobOK
<1> QED BY <1>1, <1>2, <1>3 DEF Founded, Grows

\* One process moves.
LEMMA FoundationStays ==
  ASSUME Typed, Foundation, Grows, NEW p \in Process,
         job' = [job EXCEPT ![p] = job'[p]], Founded(job[p])', FilesFounded'
  PROVE  Foundation'
<1> SUFFICES ASSUME NEW q \in Process PROVE Founded(job[q])'
  BY DEF Foundation
<1>1. CASE q = p
  BY <1>1
<1>2. CASE q # p
  <2>1. job'[q] = job[q]
    BY <1>2 DEF Typed, JobsOK
  <2>2. JobOK(job[q]) /\ Founded(job[q])
    BY JobIs DEF Typed, Foundation
  <2>3. \A j : JobOK(j) /\ Founded(j) => Founded(j)'
    BY FoundedGrow
  <2> QED BY <2>1, <2>2 , <2>3 DEF Founded, Listed, Exists
<1> QED BY <1>1, <1>2

\* The files stay as they are, or as far as all this is concerned.
LEMMA FilesStay ==
  ASSUME Typed, Foundation, [Next]_vars, UNCHANGED <<current, ticket, contract, records, approved>>
  PROVE  FilesFounded' /\ Grows
<1>1. Grows
  BY DEF Grows, Exists
<1>2. \A t \in todo' : Exists(t)
  <2>1. \A t \in Lane("ready_for_execution") : Exists(t)
    BY DEF Lane, Foundation, FilesFounded, Listed
  <2> QED BY <2>1, TodoIs DEF Foundation, FilesFounded
<1> QED BY <1>1, <1>2 DEF Foundation, FilesFounded, Listed, Exists

\* The run goes on to hand off what it had, while a command makes an access.
LEMMA AccessedTodo ==
  ASSUME NEW p \in Process, Typed, Foundation, [Next]_vars, Grows
  PROVE  \A t \in todo' : Exists(t)'
<1>1. \A t \in Lane("ready_for_execution") : Exists(t)
  BY DEF Lane, Foundation, FilesFounded, Listed
<1>2. \A t \in todo' : Exists(t) /\ t \in Ticket
  BY <1>1, TodoIs DEF Foundation, FilesFounded, Typed, Lane
<1> QED BY <1>2 DEF Grows

LEMMA IdleFounded == Founded(Idle) /\ Founded(Idle)'
  BY DEF Founded, Idle, Listed, Releasing

LEMMA EndedFounded ==
  ASSUME Typed, Foundation, Grows, NEW p \in Process, Ended(p), FilesFounded'
  PROVE  Foundation'
<1>1. job' = [job EXCEPT ![p] = job'[p]] /\ job'[p] = Idle
  BY DEF Ended, Typed, JobsOK
<1>2. Founded(job[p])'
  BY <1>1 DEF Founded, Idle, Listed, Releasing
<1> QED BY <1>1, <1>2, FoundationStays

\* A command goes on; what it has learnt or done is founded.
LEMMA OnwardFounded ==
  ASSUME Typed, Foundation, Grows, NEW p \in Process, Onward(p), FilesFounded',
         JobOK(job'[p]),
         job'[p].seen \in {job[p].seen, current},
         job[p].kind # "create" \/ job[p].at # 1 => job'[p].id = job[p].id \/ job[p].kind = "prepare",
         job[p].kind = "create" /\ job[p].at = 2 => ticket'[job[p].id] # "none",
         job[p].kind = "plan" /\ job[p].at = 2 => contract',
         job[p].kind \in Releasing /\ job[p].at = 1 =>
            /\ job'[p].rec = records[job[p].id] /\ job[p].id \in Release
            /\ job[p].kind = "deploy" => records[job[p].id].status = "ready_to_deploy",
         job[p].kind \in Releasing /\ job[p].at # 1 => job'[p].rec = job[p].rec
  PROVE  Foundation'
<1> DEFINE j == job[p]
           k == job'[p]
<1>1. /\ k.kind = j.kind /\ k.at = j.at + 1 /\ j.at \in Nat /\ JobOK(j) /\ Founded(j)
      /\ job' = [job EXCEPT ![p] = job'[p]]
  BY JobIs DEF Onward, Typed, Foundation, Job
<1>2. k.seen.planned => contract'
  BY DEF Foundation, FilesFounded, Founded, Grows
<1>3. \A e \in k.seen.buckets : ticket'[e[1]] # "none"
  <2>1. Listed(k.seen.buckets) /\ k.seen.buckets \in SUBSET (Ticket \X Status)
    BY <1>1, JobIs DEF Foundation, FilesFounded, Founded, Typed, FilesOK, Current, JobOK, Job
  <2>2. ASSUME NEW e \in k.seen.buckets PROVE ticket'[e[1]] # "none"
    <3>1. e[1] \in Ticket /\ Exists(e[1])
      BY <2>1 DEF Listed
    <3> QED BY <3>1 DEF Grows, Exists
  <2> QED BY <2>2
<1>4. j.kind \in {"update", "reopen"} => ticket'[k.id] # "none"
  <2>1. j.kind \in {"update", "reopen"} => j.id \in Ticket /\ Exists(j.id) /\ k.id = j.id
    BY <1>1 DEF Founded, JobOK
  <2> QED BY <2>1 DEF Grows, Exists
<1>5. j.kind = "create" /\ k.at > 2 => ticket'[k.id] # "none"
  <2>1. j.kind = "create" /\ k.at > 2 => j.at # 1 /\ k.id = j.id
    BY <1>1
  <2>2. ASSUME j.kind = "create", j.at > 2 PROVE ticket'[k.id] # "none"
    <3>1. j.at > 1 /\ k.at > 2
      BY <1>1, <2>2
    <3>2. Exists(j.id) /\ j.id \in Ticket
      BY <1>1, <2>2, <3>1 DEF Founded, JobOK
    <3> QED BY <2>1, <2>2, <3>1, <3>2 DEF Grows, Exists
  <2>3. j.kind = "create" /\ k.at > 2 /\ ~(j.at > 2) => j.at = 2
    BY <1>1
  <2> QED BY <2>1, <2>2, <2>3
<1>6. j.kind = "plan" /\ k.at > 2 => contract'
  BY <1>1 DEF Founded, Grows
<1>7. j.kind \in Releasing =>
         /\ k.rec.status \in Shipped => k.id \in approved'
         /\ j.kind = "deploy" => k.rec.status = "ready_to_deploy"
  <2>1. j.kind \in Releasing => k.id = j.id
    BY <1>1 DEF Releasing
  <2>2. CASE j.kind \in Releasing /\ j.at = 1
    BY <2>1, <2>2 DEF Foundation, FilesFounded, Grows
  <2>3. CASE j.kind \in Releasing /\ j.at # 1
    <3>1. j.kind \in Kinds /\ j.at > 1
      BY <1>1, <2>3, KindsAre DEF JobOK, Releasing
    <3> QED BY <1>1, <2>1, <2>3, <3>1 DEF Founded, Grows
  <2> QED BY <2>2, <2>3
<1> HIDE DEF j, k
<1>8. /\ k = job'[p]
      /\ k.kind = "create" /\ k.at > 2 => ticket'[k.id] # "none"
      /\ k.kind = "plan" /\ k.at > 2 => contract'
      /\ k.kind \in {"update", "reopen"} => ticket'[k.id] # "none"
      /\ k.kind \in Releasing =>
            /\ k.rec.status \in Shipped => k.id \in approved'
            /\ k.kind = "deploy" => k.rec.status = "ready_to_deploy"
  BY <1>1, <1>4, <1>5, <1>6, <1>7 DEF k
<1>9. Founded(job[p])'
  BY <1>2, <1>3, <1>8 DEF Founded, Listed, Exists
<1> QED BY <1>1, <1>9, FoundationStays

\* The board that a command writes lists no more than the one it has read and
\* the ticket that it has written itself.
LEMMA ChangedFounded ==
  ASSUME Typed, NEW p \in Process, WriteCurrent(p), Founded(job[p])
  PROVE  /\ Changed(job[p]).planned => contract
         /\ Listed(Changed(job[p]).buckets)
<1> DEFINE j == job[p]
<1>1. /\ JobOK(j)
      /\ j.kind \in {"create", "update", "reopen"} => j.id \in Ticket
      /\ j.kind \in {"create", "plan"} => j.at = 3
  BY JobIs, WritesCurrent DEF Typed
<1>2. Changed(j).planned => contract
  <2>1. CASE j.kind = "plan"
    BY <1>1, <2>1 DEF Founded
  <2>2. CASE j.kind # "plan"
    BY <1>1, <2>2, ChangedTyped DEF Founded
  <2> QED BY <2>1, <2>2
<1>3. ASSUME NEW e \in Changed(j).buckets PROVE Exists(e[1])
  <2>1. CASE e \in j.seen.buckets
    BY <2>1 DEF Founded, Listed
  <2>2. CASE e \notin j.seen.buckets
    <3>1. j.kind \in {"create", "update", "reopen"} /\ e = <<j.id, j.to>>
      BY <1>1, <1>3, <2>2, ChangedTyped DEF ResyncBuckets, MoveStatus
    <3> QED BY <1>1, <3>1 DEF Founded
  <2> QED BY <2>1, <2>2
<1> QED BY <1>2, <1>3 DEF Listed

LEMMA FoundationStep == ASSUME Typed, Foundation, [Next]_vars PROVE Foundation'
<1> USE DEF files, history
<1>0. JobsOK /\ FilesOK
  BY DEF Typed
<1>1. CASE Rests
  <2>1. FilesFounded' /\ Grows /\ job' = job
    BY <1>1, FilesStay DEF Rests
  <2> QED BY <2>1, <1>1 DEF Foundation, Founded, Listed, Exists, Rests
<1>2. ASSUME NEW p \in Process, NEW c, Launches(p, c) PROVE Foundation'
  <2>1. FilesFounded' /\ Grows
    BY <1>2, FilesStay DEF Launches
  <2>2. job' = [job EXCEPT ![p] = job'[p]] /\ job'[p] = c
    BY <1>0, <1>2 DEF Launches, JobsOK
  <2>3. c.kind \in {"update", "reopen"} => Exists(c.id)
    BY <1>2 DEF Launches, Foundation, FilesFounded
  <2>4. Founded(job[p])'
    BY <1>2, <2>2, <2>3 DEF Launches, Founded, Listed, Exists
  <2> QED BY <2>1, <2>2, <2>4, FoundationStays
<1>3. ASSUME NEW p \in Process, Stops(p) PROVE Foundation'
  BY <1>3, FilesStay, EndedFounded DEF Stops
<1>4. ASSUME NEW w \in Worker, Survives(w) PROVE Foundation'
  <2>1. FilesFounded' /\ UNCHANGED <<ticket, contract, approved>>
    BY <1>4, FilesStay DEF Survives
  <2>2. ASSUME NEW q \in Process PROVE Founded(job[q])'
    <3>1. job'[q] \in {job[q], job[Child], Idle}
      BY <1>0, <1>4, SurvivesIs
    <3>2. Founded(job'[q])
      BY <1>0, <1>4, <3>1, SurvivesIs, IdleFounded DEF Foundation
    <3> QED BY <2>1, <3>2 DEF Founded, Listed, Exists
  <2> QED BY <2>1, <2>2 DEF Foundation
<1>5. ASSUME NEW p \in Process, ReadCurrent(p) PROVE Foundation'
  <2>1. FilesFounded' /\ Grows
    BY <1>5, FilesStay DEF ReadCurrent
  <2>2. /\ Onward(p) /\ JobOK(job'[p]) /\ job'[p].seen = current
        /\ job[p].kind # "create" => job'[p].id = job[p].id
        /\ job[p].kind = "create" => job[p].at = 1
        /\ job[p].kind = "plan" => job[p].at = 1
        /\ job[p].kind \notin Releasing
    BY <1>0, <1>5, Reads DEF FilesOK, Releasing
  <2> QED BY <2>1, <2>2, OnwardFounded
<1>6. ASSUME NEW p \in Process, Mint(p) PROVE Foundation'
  <2>1. FilesFounded' /\ Grows
    BY <1>6, FilesStay DEF Mint
  <2>2. /\ Onward(p) /\ JobOK(job'[p]) /\ job'[p].seen = job[p].seen
        /\ job[p].kind = "prepare" /\ job[p].kind \notin Releasing
    BY <1>0, <1>6, Mints DEF Releasing
  <2> QED BY <2>1, <2>2, OnwardFounded
<1>7. ASSUME NEW p \in Process, LoadRelease(p) PROVE Foundation'
  <2>1. FilesFounded' /\ Grows
    BY <1>7, FilesStay DEF LoadRelease
  <2>2. job[p].kind \in Releasing /\ job[p].at = 1 /\ job[p].id \in Release
    BY <1>0, <1>7, Loads DEF FilesOK
  <2>3. CASE Ended(p)
    BY <2>1, <2>3, EndedFounded
  <2>4. CASE /\ Onward(p) /\ JobOK(job'[p])
             /\ job'[p].rec = records[job[p].id]
             /\ job[p].kind = "deploy" => records[job[p].id].status = "ready_to_deploy"
             /\ job'[p].id = job[p].id /\ job'[p].seen = job[p].seen
    BY <2>1, <2>2, <2>4, OnwardFounded DEF Releasing
  <2> QED BY <1>0, <1>7, <2>3, <2>4, Loads DEF FilesOK
<1>8. ASSUME NEW p \in Process, WriteTicket(p) PROVE Foundation'
  <2>1. /\ UNCHANGED <<current, contract, records, approved>>
        /\ ticket' = [ticket EXCEPT ![job[p].id] = job[p].to]
    BY <1>8 DEF WriteTicket
  <2>2. job[p].id \in Ticket /\ job[p].to # "none"
    BY <1>0, <1>8, WritesTicket DEF FilesOK, Status
  <2>3. Grows /\ ticket'[job[p].id] # "none"
    BY <1>0, <2>1, <2>2 DEF Grows, Exists, FilesOK
  <2>4. FilesFounded'
    <3>1. \A t \in todo' : Exists(t)'
      BY <2>3, AccessedTodo
    <3>2. current.buckets \in SUBSET (Ticket \X Status) /\ Listed(current.buckets)
      BY <1>0 DEF FilesOK, Current, Foundation, FilesFounded
    <3>3. Listed(current.buckets)'
      <4>1. \A e \in current.buckets : e[1] \in Ticket /\ Exists(e[1])
        BY <3>2 DEF Listed
      <4>2. \A e \in current.buckets : Exists(e[1])'
        BY <2>3, <4>1 DEF Grows
      <4> QED BY <2>1, <4>2 DEF Listed, Exists
    <3> QED BY <2>1, <3>1, <3>3 DEF Foundation, FilesFounded
  <2>5. CASE Ended(p)
    BY <2>3, <2>4, <2>5, EndedFounded
  <2>6. CASE /\ Onward(p) /\ JobOK(job'[p])
             /\ job'[p].id = job[p].id /\ job'[p].seen = job[p].seen
             /\ job[p].kind \in {"create", "update", "reopen"}
    BY <2>3, <2>4, <2>6, OnwardFounded DEF Releasing
  <2> QED BY <1>0, <1>8, <2>5, <2>6, WritesTicket DEF FilesOK
<1>9. ASSUME NEW p \in Process, WriteCurrent(p) \/ Fail(p) PROVE Foundation'
  <2>1. Ended(p) /\ UNCHANGED <<ticket, contract, records, approved>>
    BY <1>9, WritesCurrent, FailsIs
  <2>2. Grows
    BY <2>1 DEF Grows, Exists
  <2>3. (current'.planned => contract) /\ Listed(current'.buckets)
    <3>1. CASE WriteCurrent(p)
      BY <3>1, ChangedFounded, WritesCurrent DEF Foundation
    <3>2. CASE Fail(p)
      BY <3>2, FailsIs DEF Foundation, FilesFounded, Founded
    <3> QED BY <1>9, <3>1, <3>2
  <2>4. FilesFounded'
    <3>1. \A t \in todo' : Exists(t)'
      BY <2>2, AccessedTodo
    <3> QED BY <2>1, <2>3, <3>1 DEF Foundation, FilesFounded, Listed, Exists
  <2> QED BY <2>1, <2>2, <2>4, EndedFounded
<1>10. ASSUME NEW p \in Process, Others(p) PROVE Foundation'
  <2>1. UNCHANGED <<current, ticket, records, approved>> /\ (contract => contract')
    BY <1>10, OthersIs
  <2>2. Grows
    BY <2>1 DEF Grows, Exists
  <2>3. FilesFounded'
    <3>1. \A t \in todo' : Exists(t)'
      BY <2>2, AccessedTodo
    <3> QED BY <2>1, <3>1 DEF Foundation, FilesFounded, Listed, Exists
  <2>4. CASE Ended(p)
    BY <2>2, <2>3, <2>4, EndedFounded
  <2>5. CASE /\ Onward(p) /\ JobOK(job'[p]) /\ job'[p].id = job[p].id
             /\ job'[p].rec = job[p].rec /\ job'[p].seen = job[p].seen
             /\ \/ job[p].kind = "plan" /\ contract'
                \/ job[p].kind = "retrospective"
    BY <2>2, <2>3, <2>5, OnwardFounded DEF Releasing
  <2> QED BY <1>10, <2>4, <2>5, OthersIs
<1>11. ASSUME NEW p \in Process, WriteRelease(p) PROVE Foundation'
  <2>1. /\ UNCHANGED <<current, ticket, contract, approved>>
        /\ records' = [records EXCEPT ![job[p].id] =
                         [target |-> job[p].to, status |-> "preparing"]]
        /\ job[p].kind = "prepare"
        /\ Onward(p) /\ JobOK(job'[p]) /\ job'[p].id = job[p].id /\ job'[p].seen = job[p].seen
    BY <1>11, PreparesIs
  <2>2. Grows
    BY <2>1 DEF Grows, Exists
  <2>3. FilesFounded'
    <3>1. \A t \in todo' : Exists(t)'
      BY <2>2, AccessedTodo
    <3>2. \A r \in Release : records'[r].status \in Shipped => r \in approved'
      BY <1>0, <2>1 DEF Foundation, FilesFounded, FilesOK, Shipped
    <3> QED BY <2>1, <3>1, <3>2 DEF Foundation, FilesFounded, Listed, Exists
  <2> QED BY <2>1, <2>2, <2>3, OnwardFounded DEF Releasing
<1>12. ASSUME NEW p \in Process, StoreRelease(p) PROVE Foundation'
  <2> DEFINE j == job[p]
  <2>1. /\ UNCHANGED <<current, ticket, contract>>
        /\ records' = [records EXCEPT ![j.id] = Stored(j)]
        /\ approved' = approved \cup {r \in {j.id} : j.kind = "approve"}
        /\ j.kind \in Releasing /\ j.at = 2 /\ j.id \in Release
    BY <1>12, StoresIs
  <2>2. Grows
    BY <2>1 DEF Grows, Exists
  <2>3. Stored(j).status \in Shipped => j.id \in approved'
    <3>0. Founded(j)
      BY DEF Foundation
    <3>1. CASE j.kind = "approve"
      BY <2>1, <3>1
    <3>2. CASE j.kind = "deploy"
      BY <2>1, <2>2, <3>0, <3>2 DEF Founded, Shipped, Grows
    <3>3. CASE j.kind = "rollback"
      BY <3>3 DEF Stored, Shipped
    <3>4. CASE j.kind \in {"check", "report"}
      <4>1. Stored(j).status = j.rec.status
        BY <3>4 DEF Stored
      <4> QED BY <2>1, <2>2, <3>0, <4>1 DEF Founded, Grows
    <3> QED BY <2>1, <3>1, <3>2, <3>3, <3>4 DEF Releasing
  <2>4. FilesFounded'
    <3>1. \A t \in todo' : Exists(t)'
      BY <2>2, AccessedTodo
    <3>2. \A r \in Release : records'[r] = IF r = j.id THEN Stored(j) ELSE records[r]
      BY <1>0, <2>1 DEF FilesOK
    <3>3. \A r \in Release : records'[r].status \in Shipped => r \in approved'
      BY <2>2, <2>3, <3>2 DEF Foundation, FilesFounded, Grows
    <3> QED BY <2>1, <3>1, <3>3 DEF Foundation, FilesFounded, Listed, Exists
  <2>5. CASE Ended(p)
    BY <2>2, <2>4, <2>5, EndedFounded
  <2>6. CASE /\ Onward(p) /\ JobOK(job'[p]) /\ job'[p].id = job[p].id
             /\ job'[p].rec = job[p].rec /\ job'[p].seen = job[p].seen
    BY <2>1, <2>2, <2>4, <2>6, OnwardFounded DEF Releasing
  <2> QED BY <1>12, <2>5, <2>6, StoresIs
<1> QED BY <1>1, <1>2, <1>3, <1>4, <1>5, <1>6, <1>7, <1>8, <1>9, <1>10, <1>11, <1>12, StepMoves
        DEF Moves, Accessed, Others

(***************************************************************************)
(* The releases, until one strays.                                         *)
(***************************************************************************)
Staged(r) == records[r].target = "staging"

\* A command on a release record is on the one of the run.
OnTarget(j) ==
    j.kind \in Releasing => /\ Staged(j.id) /\ j.to # "other"
                            /\ j.at > 1 => j.rec.target = "staging"

\* The run prepares a release only while there is none, and nobody else does.
Steady ==
    /\ \A r \in Release : records[r].status # "none" => Staged(r)
    /\ \A r, s \in Release : Staged(r) /\ Staged(s) => r = s
    /\ \A p \in Process :
          /\ OnTarget(job[p])
          /\ job[p].kind = "prepare" =>
                /\ p = Child /\ job[p].to = "staging"
                /\ job[p].at <= 3 => \A r \in Release : ~Staged(r)

StrayInv == ~strayed => Steady

LEMMA SteadyMoves ==
  ASSUME Typed, Steady, NEW p \in Process, records' = records,
         job' = [job EXCEPT ![p] = job'[p]],
         job'[p].kind \in Releasing =>
            /\ Staged(job'[p].id) /\ job'[p].to # "other"
            /\ job'[p].at > 1 => job'[p].rec.target = "staging",
         job'[p].kind = "prepare" =>
            /\ p = Child /\ job'[p].to = "staging"
            /\ job'[p].at <= 3 => \A r \in Release : ~Staged(r)
  PROVE  Steady'
<1>1. \A q \in Process : job'[q] = IF q = p THEN job'[p] ELSE job[q]
  BY DEF Typed, JobsOK
<1> QED BY <1>1 DEF Steady, OnTarget, Staged

LEMMA SteadyEnds ==
  ASSUME Typed, Steady, NEW p \in Process, records' = records, Ended(p)
  PROVE  Steady'
<1>1. job' = [job EXCEPT ![p] = job'[p]] /\ job'[p].kind = "none"
  BY IdleOK DEF Ended, Typed, JobsOK
<1> QED BY <1>1, SteadyMoves DEF Releasing

\* The command goes on with what it knew.
LEMMA SteadyGoes ==
  ASSUME Typed, Steady, NEW p \in Process, records' = records, Onward(p),
         job[p].kind \in Releasing => /\ job'[p].id = job[p].id
                                      /\ job'[p].rec.target = "staging"
  PROVE  Steady'
<1>1. /\ job' = [job EXCEPT ![p] = job'[p]] /\ job'[p].kind = job[p].kind
      /\ job'[p].to = job[p].to /\ job'[p].at = job[p].at + 1 /\ job[p].at \in Nat
  BY JobIs DEF Onward, Typed, Job
<1>2. job'[p].kind \in Releasing => /\ Staged(job'[p].id) /\ job'[p].to # "other"
                                    /\ job'[p].rec.target = "staging"
  BY <1>1 DEF Steady, OnTarget
<1>3. job'[p].kind = "prepare" =>
        /\ p = Child /\ job'[p].to = "staging"
        /\ job'[p].at <= 3 => \A r \in Release : ~Staged(r)
  <2>1. job'[p].at <= 3 => job[p].at <= 3
    BY <1>1
  <2> QED BY <1>1, <2>1 DEF Steady
<1> QED BY <1>1, <1>2, <1>3, SteadyMoves

LEMMA SteadyStep == ASSUME Typed, Steady, [Next]_vars, ~strayed' PROVE Steady'
<1> USE DEF files, history
<1>0. JobsOK /\ FilesOK
  BY DEF Typed
<1>1. CASE Rests
  BY <1>1 DEF Rests, Steady, OnTarget, Staged
<1>2. ASSUME NEW p \in Process, NEW c, Launches(p, c) PROVE Steady'
  <2>1. /\ job' = [job EXCEPT ![p] = job'[p]] /\ job'[p] = c /\ records' = records /\ c.at = 1
    BY <1>0, <1>2 DEF Launches, JobsOK
  <2>2. c.kind \in Releasing => Staged(c.id) /\ c.to # "other"
    <3>1. c.kind \in Releasing => c.id \in Release /\ records[c.id].status # "none"
      BY <1>2 DEF Launches, JobOK
    <3> QED BY <1>2, <3>1 DEF Launches, Steady
  <2>3. c.kind = "prepare" => p = Child /\ c.to = "staging" /\ \A r \in Release : ~Staged(r)
    BY <1>2 DEF Launches, FindExistingStagingRelease, Staged
  <2> QED BY <2>1, <2>2, <2>3, SteadyMoves
<1>3. ASSUME NEW p \in Process, Stops(p) PROVE Steady'
  BY <1>3, SteadyEnds DEF Stops
<1>4. ASSUME NEW w \in Worker, Survives(w) PROVE Steady'
  <2>1. job[Child].kind # "prepare" /\ records' = records
    BY <1>4 DEF Survives
  <2>2. \A q \in Process : job'[q] \in {job[q], job[Child], Idle} /\ Child \in Process
    BY <1>0, <1>4, SurvivesIs
  <2>3. \A q \in Process : job'[q].kind = "prepare" => q # Child /\ job'[q] = job[q]
    BY <1>0, <1>4, <2>1, <2>2, SurvivesIs, IdleOK
  <2>4. \A q \in Process : OnTarget(job'[q])
    BY <2>2, IdleOK DEF Steady, OnTarget, Releasing
  <2> QED BY <2>1, <2>3, <2>4 DEF Steady, OnTarget, Staged
<1>5. ASSUME NEW p \in Process, ReadCurrent(p) PROVE Steady'
  <2>1. records' = records
    BY <1>5 DEF ReadCurrent
  <2>2. Onward(p) /\ job[p].kind \notin Releasing
    BY <1>0, <1>5, Reads DEF FilesOK, Releasing
  <2> QED BY <2>1, <2>2, SteadyGoes
<1>6. ASSUME NEW p \in Process, Mint(p) PROVE Steady'
  <2>1. records' = records
    BY <1>6 DEF Mint
  <2>2. Onward(p) /\ job[p].kind \notin Releasing
    BY <1>0, <1>6, Mints DEF Releasing
  <2> QED BY <2>1, <2>2, SteadyGoes
<1>7. ASSUME NEW p \in Process, LoadRelease(p) PROVE Steady'
  <2>1. records' = records
    BY <1>7 DEF LoadRelease
  <2>2. CASE Ended(p)
    BY <2>1, <2>2, SteadyEnds
  <2>3. CASE Onward(p) /\ job'[p].rec = records[job[p].id] /\ job'[p].id = job[p].id
    <3>1. job[p].kind \in Releasing => job'[p].rec.target = "staging"
      BY <2>3 DEF Steady, OnTarget, Staged
    <3> QED BY <2>1, <2>3, <3>1, SteadyGoes
  <2> QED BY <1>0, <1>7, <2>2, <2>3, Loads DEF FilesOK
<1>8. ASSUME NEW p \in Process, WriteTicket(p) PROVE Steady'
  <2>1. records' = records
    BY <1>8 DEF WriteTicket
  <2>2. Ended(p) \/ Onward(p)
    BY <1>0, <1>8, WritesTicket DEF FilesOK
  <2>3. job[p].kind \notin Releasing
    BY <1>0, <1>8, WritesTicket DEF FilesOK, Releasing
  <2> QED BY <2>1, <2>2, <2>3, SteadyGoes, SteadyEnds
<1>9. ASSUME NEW p \in Process, WriteCurrent(p) \/ Fail(p) PROVE Steady'
  BY <1>9, WritesCurrent, FailsIs, SteadyEnds
<1>10. ASSUME NEW p \in Process, Others(p) PROVE Steady'
  <2>1. records' = records
    BY <1>10, OthersIs
  <2>2. Ended(p) \/ (Onward(p) /\ job[p].kind \notin Releasing)
    BY <1>10, OthersIs DEF Releasing
  <2> QED BY <2>1, <2>2, SteadyGoes, SteadyEnds
<1>11. ASSUME NEW p \in Process, WriteRelease(p) PROVE Steady'
  <2> DEFINE id == job[p].id
             new == [target |-> job[p].to, status |-> "preparing"]
  <2>1. /\ job[p].kind = "prepare" /\ job[p].at = 3 /\ id \in Release
        /\ records' = [records EXCEPT ![id] = new]
        /\ Onward(p)
    BY <1>11, PreparesIs
  <2>2. p = Child /\ job[p].to = "staging" /\ \A r \in Release : ~Staged(r)
    BY <2>1 DEF Steady
  <2>3. \A r \in Release : records'[r] = IF r = id THEN new ELSE records[r]
    BY <1>0, <2>1 DEF FilesOK
  <2>4. \A r \in Release : records'[r].target = "staging" <=> r = id
    BY <2>2, <2>3 DEF Staged
  <2>5. \A q \in Process : job'[q] = IF q = p THEN job'[p] ELSE job[q]
    BY <1>0, <2>1 DEF Onward, JobsOK
  <2>6. job'[p].kind = "prepare" /\ job'[p].to = "staging" /\ job'[p].at = 4
    BY <2>1, <2>2 DEF Onward
  <2>7. \A q \in Process : job[q].kind \notin Releasing
    BY <1>0, <2>2, JobIs DEF Steady, OnTarget, JobOK
  <2>8. \A q \in Process \ {p} : job[q].kind # "prepare"
    BY <2>2 DEF Steady
  <2>9. \A r \in Release : records'[r].status # "none" => records'[r].target = "staging"
    BY <2>3, <2>4 DEF Steady, Staged
  <2> QED BY <2>2, <2>4, <2>5, <2>6, <2>7, <2>8, <2>9 DEF Steady, OnTarget, Staged, Releasing
<1>12. ASSUME NEW p \in Process, StoreRelease(p) PROVE Steady'
  <2> DEFINE id == job[p].id
  <2>1. /\ job[p].kind \in Releasing /\ job[p].at = 2 /\ id \in Release
        /\ records' = [records EXCEPT ![id] = Stored(job[p])]
        /\ Stored(job[p]) \in Record
        /\ Stored(job[p]).target =
             IF job[p].kind = "deploy" /\ job[p].to # "none" THEN job[p].to
             ELSE job[p].rec.target
    BY <1>12, StoresIs
  <2>2. Staged(id) /\ job[p].to # "other" /\ job[p].rec.target = "staging"
    BY <2>1 DEF Steady, OnTarget
  <2>3. Stored(job[p]).target = "staging"
    <3>1. job[p].kind = "deploy" => job[p].to \in Target \cup {"none"}
      BY <1>0, JobIs DEF JobOK
    <3> QED BY <2>1, <2>2, <3>1 DEF Target
  <2>4. \A r \in Release : records'[r] = IF r = id THEN Stored(job[p]) ELSE records[r]
    BY <1>0, <2>1 DEF FilesOK
  <2>5. \A r \in Release : records'[r].target = "staging" <=> Staged(r)
    BY <2>2, <2>3, <2>4 DEF Staged
  <2>6. \A r \in Release : records'[r].status # "none" => records'[r].target = "staging"
    BY <2>3, <2>4 DEF Steady, Staged
  <2>7. \A q \in Process : job'[q] = IF q = p THEN job'[p] ELSE job[q]
    BY <1>0, <1>12, IdleOK, StoresIs DEF Ended, Onward, JobsOK
  <2>8. /\ \/ job'[p].kind = "none"
           \/ /\ job'[p].kind = job[p].kind /\ job'[p].to = job[p].to
              /\ job'[p].id = id /\ job'[p].rec = job[p].rec
    BY <1>0, <1>12, IdleOK, StoresIs DEF Ended, Onward, JobsOK
  <2>9. \A q \in Process : job[q].kind \in Releasing => job[q].id \in Release
    BY <1>0, JobIs DEF JobOK
  <2>10. job'[p].kind \in Releasing => /\ job'[p].id = id /\ job'[p].to # "other"
                                       /\ job'[p].rec.target = "staging"
    BY <2>2, <2>8 DEF Releasing
  <2>11. job'[p].kind # "prepare"
    BY <2>1, <2>8 DEF Releasing
  <2>12. \A q \in Process : OnTarget(job[q])'
    BY <2>1, <2>2, <2>5, <2>7, <2>9, <2>10 DEF Steady, OnTarget, Staged
  <2> QED BY <2>5, <2>6, <2>7, <2>11, <2>12 DEF Steady, Staged
<1> QED BY <1>1, <1>2, <1>3, <1>4, <1>5, <1>6, <1>7, <1>8, <1>9, <1>10, <1>11, <1>12, StepMoves
        DEF Moves, Accessed, Others

\* Nothing takes a release that has strayed back.
LEMMA StrayedStays == ASSUME Typed, [Next]_vars, strayed PROVE strayed'
<1> USE DEF files, history
<1>1. ASSUME NEW p \in Process, Accessed(p) PROVE strayed' = strayed
  BY <1>1 DEF Accessed, ReadCurrent, WriteTicket, WriteCurrent, WriteContract, Mint,
              WriteRelease, LoadRelease, StoreRelease, CloseSprint, WriteRetro,
              FlipStatusToRetrospected, Fail
<1> QED BY <1>1, StepMoves DEF Moves, Rests, Launches, Stops, Survives

(***************************************************************************)
(* The theorems.                                                           *)
(***************************************************************************)
StageInv == Typed /\ BetaInv /\ Foundation /\ StrayInv

LEMMA StageInit == Init => StageInv
<1> SUFFICES ASSUME Init PROVE StageInv
  OBVIOUS
<1>1. BetaInv
  BY BetaInit
<1>2. /\ current = [planned |-> FALSE, buckets |-> {}] /\ ticket = [t \in Ticket |-> "none"]
      /\ contract = FALSE /\ records = [r \in Release |-> NoRecord] /\ registry = "open"
      /\ retro = FALSE /\ job = [p \in Process |-> Idle] /\ exit = "ok"
      /\ approved = {} /\ strayed = FALSE /\ mishaps = 0
      /\ todo = {}
  BY DEF Init, BoardInit
<1>3. FilesOK
  <2>1. current \in Current /\ NoRecord \in Record
    BY <1>2 DEF Current, NoRecord, Record
  <2>2. ticket \in [Ticket -> Status \cup {"none"}] /\ records \in [Release -> Record]
    BY <1>2, <2>1
  <2>3. mishaps \in 0..MaxMishaps
    BY <1>2, BoardAssumption
  <2> QED BY <1>2, <2>1, <2>2, <2>3 DEF FilesOK
<1>4. JobsOK
  BY <1>2, IdleOK DEF JobsOK, JobOK
<1>5. Foundation
  BY <1>2, IdleFounded DEF Foundation, FilesFounded, Listed, Shipped, NoRecord
<1>6. StrayInv
  BY <1>2, IdleOK DEF StrayInv, Steady, Staged, OnTarget, NoRecord, Releasing
<1> QED BY <1>1, <1>2, <1>3, <1>4, <1>5, <1>6 DEF StageInv, Typed

LEMMA StageNext == StageInv /\ [Next]_vars => StageInv'
<1> SUFFICES ASSUME StageInv, [Next]_vars PROVE StageInv'
  OBVIOUS
<1>1. Typed' /\ BetaInv' /\ Foundation'
  BY TypedStep, BetaStep, FoundationStep DEF StageInv
<1>2. StrayInv'
  BY SteadyStep, StrayedStays DEF StageInv, StrayInv
<1> QED BY <1>1, <1>2 DEF StageInv

LEMMA StageAlways == Spec => []StageInv
  BY StageInit, StageNext, PTL DEF Spec

(* The types of the files, the commands under way and the run.             *)
THEOREM TypeCorrect == Spec => []TypeOK
<1>1. StageInv => TypeOK
  <2> SUFFICES ASSUME StageInv PROVE TypeOK
    OBVIOUS
  <2>1. \A p \in Process : job[p].id \in {0} \cup Ticket \cup Release
    BY DEF StageInv, Typed, JobsOK, Job, Id
  <2> QED BY <2>1 DEF StageInv, Typed, FilesOK, BetaInv, RunTyped, TypeOK
<1> QED BY <1>1, StageAlways, PTL

(* A sprint gets at most one staging record, however often its runs and    *)
(* commands die and are resumed: full.js looks for one before it runs      *)
(* release.js prepare, and waits for that command.  The exceptions are     *)
(* those that defeat this: a release prepared by hand, a record deployed   *)
(* to another target, a preparation that outlived its run.                 *)
THEOREM OneRelease == Spec => []OneReleaseUnlessStrayed
<1>1. StageInv => OneReleaseUnlessStrayed
  <2> SUFFICES ASSUME StageInv, ~strayed PROVE OneStagingRelease
    BY DEF OneReleaseUnlessStrayed
  <2> DEFINE S == {r \in Release : records[r].target = "staging"}
  <2>1. \A r, s \in S : r = s
    BY DEF StageInv, StrayInv, Steady, Staged
  <2>2. CASE S = {}
    BY <2>2, FS_EmptySet DEF OneStagingRelease
  <2>3. CASE S # {}
    <3>1. PICK r \in S : TRUE
      BY <2>3
    <3>2. S = {r}
      BY <2>1, <3>1
    <3>3. Cardinality({r}) = 1
      BY FS_Singleton
    <3> QED BY <3>2, <3>3 DEF OneStagingRelease
  <2> QED BY <2>2, <2>3
<1> QED BY <1>1, StageAlways, PTL

(* What the board names is there, after any interleaving and any deaths:   *)
(* the contract of the plan and the files of the tickets are written       *)
(* before the board refers to them, by every command, and nobody deletes   *)
(* them; so a command that overwrites the board with what it read long     *)
(* before brings back no name of a file that is not there.                 *)
THEOREM FilesThere == Spec => []BoardHasItsFiles
<1>1. StageInv => BoardHasItsFiles
  BY DEF StageInv, Foundation, FilesFounded, Listed, Exists, BoardHasItsFiles
<1> QED BY <1>1, StageAlways, PTL

(* No release is deployed that nobody approved: deploy has seen the record *)
(* ready, and whatever is written over the record later was read from a    *)
(* record whose approval is in the past.                                   *)
THEOREM Approved == Spec => []DeployedWasApproved
<1>1. StageInv => DeployedWasApproved
  BY DEF StageInv, Foundation, FilesFounded, Shipped, DeployedWasApproved
<1> QED BY <1>1, StageAlways, PTL

(***************************************************************************)
(* A quiet sprint.                                                         *)
(***************************************************************************)
Agree == \A t \in Ticket, s \in Status : <<t, s>> \in current.buckets <=> ticket[t] = s

AgreeBut(id) ==
    \A t \in Ticket \ {id}, s \in Status : <<t, s>> \in current.buckets <=> ticket[t] = s

\* Has the command written its ticket, and not yet current.yaml?
HalfWay(j) == \/ j.kind = "create" /\ j.at > 2
              \/ j.kind \in {"update", "reopen"} /\ j.at > 1

\* A command that runs alone: before its first write the board agrees, and
\* between its two writes it knows by how much it does not.
Calm(j) ==
    /\ \/ j.kind \in {"create", "touch", "plan", "design", "prepare"} /\ j.at > 1
       \/ j.kind \in {"update", "reopen"} /\ j.at > 2
       => j.seen = current
    /\ ~HalfWay(j) => Agree
    /\ HalfWay(j) => AgreeBut(j.id) /\ ticket[j.id] = j.to
    /\ j.kind = "create" => j.from = "none"
    /\ j.kind = "create" /\ j.at = 2 => ~Exists(j.id)
    /\ HalfWay(j) /\ j.kind = "create" =>
          \A s \in Status : <<j.id, s>> \notin current.buckets
    /\ HalfWay(j) /\ j.kind = "reopen" =>
          \A s \in Status : <<j.id, s>> \in current.buckets <=> j.from = s

Peaceful ==
    /\ \A p, q \in Process : Running(p) /\ Running(q) => p = q
    /\ Quiet => Agree
    /\ \A p \in Process : Running(p) => Calm(job[p])

QuietInv == mishaps = 0 => Peaceful

\* Steps that leave the board and the tickets alone, or the command that ran
\* alone goes on, ends, or begins.
LEMMA PeacefulStep ==
  ASSUME JobsOK, NEW p \in Process,
         \A q \in Process : Running(q) => q = p,
         job' = [job EXCEPT ![p] = job'[p]],
         Running(p)' => Calm(job[p])', ~Running(p)' => Agree'
  PROVE  Peaceful'
<1>1. \A q \in Process : q # p => ~Running(q)'
  BY DEF JobsOK, Running
<1>2. Quiet' => Agree'
  BY DEF Quiet
<1> QED BY <1>1, <1>2 DEF Peaceful

\* What holds as long as the tickets and the board stay as they are.
LEMMA Stays ==
  ASSUME UNCHANGED <<current, ticket>>
  PROVE  /\ Agree' <=> Agree
         /\ \A id : AgreeBut(id)' <=> AgreeBut(id)
         /\ \A t : Exists(t)' <=> Exists(t)
         /\ \A j : Calm(j)' <=> Calm(j)
<1>1. /\ Agree' <=> Agree
      /\ \A id : AgreeBut(id)' <=> AgreeBut(id)
      /\ \A t : Exists(t)' <=> Exists(t)
  BY DEF Agree, AgreeBut, Exists
<1>2. \A j : Calm(j)' <=> Calm(j)
  BY <1>1 DEF Calm, HalfWay
<1> QED BY <1>1, <1>2

\* Who is at an access is alone and calm.
LEMMA AloneCalm ==
  ASSUME Peaceful, JobsOK, NEW p \in Process, Running(p)
  PROVE  /\ Calm(job[p])
         /\ \A q \in Process : Running(q) => q = p
  BY DEF Peaceful

\* A creation whose id was handed out before is a mishap.
LEMMA MintsNew ==
  ASSUME FilesOK, mishaps' = 0, NEW t \in Ticket, Mishap(t \in Tickets)
  PROVE  ~Exists(t)
<1>1. (t \in Tickets) \in BOOLEAN
  OBVIOUS
<1>2. Counted(~(t \in Tickets))
  BY <1>1, MishapCounts DEF FilesOK
<1> QED BY <1>2 DEF Counted, Tickets, Exists

LEMMA ReadQuiet ==
  ASSUME Typed, Peaceful, NEW p \in Process, ReadCurrent(p), mishaps' = 0
  PROVE  Peaceful'
<1>0. JobsOK /\ FilesOK
  BY DEF Typed
<1>1. /\ UNCHANGED <<current, ticket>> /\ Running(p) /\ Calm(job[p])
      /\ \A q \in Process : Running(q) => q = p
  BY <1>0, AloneCalm DEF ReadCurrent, files, At
<1> DEFINE j == job'[p]
<1>2. /\ \/ job[p].kind \in {"create", "touch", "plan", "design", "prepare"} /\ job[p].at = 1
         \/ job[p].kind \in {"update", "reopen"} /\ job[p].at = 2
      /\ Onward(p)
      /\ j.seen = current /\ j.from = job[p].from
      /\ job[p].kind = "create" => ~Exists(j.id)
      /\ job[p].kind # "create" => j.id = job[p].id
  BY <1>0, Reads, MintsNew DEF FilesOK
<1>3. /\ j.kind = job[p].kind /\ j.to = job[p].to /\ j.at = job[p].at + 1
      /\ job' = [job EXCEPT ![p] = j]
  BY <1>2 DEF Onward
<1>4. HalfWay(j) <=> HalfWay(job[p])
  BY <1>2, <1>3 DEF HalfWay
<1>5. Calm(j)
  <2>1. CASE job[p].kind = "create"
    BY <1>1, <1>2, <1>3, <1>4, <2>1 DEF Calm, HalfWay
  <2>2. CASE job[p].kind \in {"touch", "plan", "design", "prepare"}
    BY <1>1, <1>2, <1>3, <1>4, <2>2 DEF Calm, HalfWay
  <2>3. CASE job[p].kind \in {"update", "reopen"}
    BY <1>1, <1>2, <1>3, <1>4, <2>3 DEF Calm
  <2> QED BY <1>2, <2>1, <2>2, <2>3
<1>6. Calm(job[p])'
  BY <1>1, <1>5 DEF Calm, HalfWay, Agree, AgreeBut, Exists
<1>7. Running(p)'
  BY <1>1, <1>3 DEF Running
<1> QED BY <1>0, <1>1, <1>3, <1>6, <1>7, PeacefulStep

\* The accesses that touch neither the tickets nor the board.
LEMMA PlainQuiet ==
  ASSUME Typed, Peaceful, NEW p \in Process, UNCHANGED <<current, ticket>>,
         Running(p), job[p].kind \notin {"create", "update", "reopen"},
         \/ Ended(p)
         \/ Onward(p) /\ (job[p].at = 1 => job[p].kind \in Releasing \cup {"retrospective"})
                      /\ job'[p].seen = job[p].seen
  PROVE  Peaceful'
<1>1. Calm(job[p]) /\ \A q \in Process : Running(q) => q = p
  BY DEF Peaceful
<1>2. Agree'
  BY <1>1, Stays DEF Calm, HalfWay
<1>3. job[p].kind \in Kinds /\ job[p].at \in 1..Len(Accesses[job[p].kind])
  BY JobIs DEF Typed, JobOK, Job, Running
<1>4. CASE Ended(p)
  <2>1. job' = [job EXCEPT ![p] = job'[p]] /\ job'[p] = Idle
    BY <1>4 DEF Ended, Typed, JobsOK
  <2>2. ~Running(p)'
    BY <2>1, IdleOK DEF Running
  <2> QED BY <1>1, <1>2, <2>1, <2>2, PeacefulStep DEF Typed
<1>5. CASE Onward(p) /\ (job[p].at = 1 => job[p].kind \in Releasing \cup {"retrospective"})
                     /\ job'[p].seen = job[p].seen
  <2>1. /\ job'[p].kind = job[p].kind /\ job'[p].at = job[p].at + 1
        /\ job' = [job EXCEPT ![p] = job'[p]]
    BY <1>5 DEF Onward
  <2>2. job[p].at \in Nat /\ job[p].at >= 1
    BY <1>3, JobIs DEF Typed, Job
  <2>3. job'[p].kind \in {"touch", "plan", "design", "prepare"} => job'[p].seen = current'
    BY <1>1, <1>5, <2>1, <2>2 DEF Calm, Releasing
  <2>4. Calm(job[p])'
    BY <1>2, <2>1, <2>3 DEF Calm, HalfWay
  <2> QED BY <1>1, <1>2, <2>1, <2>4, PeacefulStep DEF Typed
<1> QED BY <1>4, <1>5

LEMMA WriteTicketQuiet ==
  ASSUME Typed, Peaceful, NEW p \in Process, WriteTicket(p)
  PROVE  Peaceful'
<1> DEFINE id == job[p].id
           to == job[p].to
<1>1. /\ Running(p) /\ Calm(job[p]) /\ \A q \in Process : Running(q) => q = p
      /\ ticket' = [ticket EXCEPT ![id] = to] /\ current' = current
  BY AloneCalm DEF WriteTicket, Typed, At
<1>2. /\ \/ job[p].kind = "create" /\ job[p].at = 2
         \/ job[p].kind \in {"update", "reopen"} /\ job[p].at = 1
      /\ id \in Ticket /\ to \in Status
      /\ \/ Ended(p) /\ job[p].kind = "update" /\ ticket[id] = to
         \/ /\ Onward(p) /\ job'[p].id = id /\ job'[p].seen = job[p].seen
            /\ job'[p].from = IF job[p].kind = "reopen" THEN ticket[id] ELSE job[p].from
  BY WritesTicket DEF Typed, FilesOK
<1>3. ticket \in [Ticket -> Status \cup {"none"}] /\ to # "none"
  BY <1>2 DEF Typed, FilesOK, Status
<1>4. Agree /\ ~HalfWay(job[p])
  BY <1>1, <1>2 DEF Calm, HalfWay
<1>5. \A t \in Ticket : ticket'[t] = IF t = id THEN to ELSE ticket[t]
  BY <1>1, <1>2, <1>3
<1>6. CASE Ended(p) /\ ticket[id] = to
  <2>1. \A t \in Ticket : ticket'[t] = ticket[t]
    BY <1>5, <1>6
  <2>2. Agree'
    BY <1>1, <1>4, <2>1 DEF Agree
  <2>3. ~Running(p)' /\ job' = [job EXCEPT ![p] = job'[p]]
    BY <1>6, IdleOK DEF Ended, Running, Typed, JobsOK
  <2> QED BY <1>1, <2>2, <2>3, PeacefulStep DEF Typed
<1>7. CASE /\ Onward(p) /\ job'[p].id = id
           /\ job'[p].from = IF job[p].kind = "reopen" THEN ticket[id] ELSE job[p].from
           /\ job'[p].seen = job[p].seen
  <2>1. /\ job' = [job EXCEPT ![p] = job'[p]]
        /\ job'[p].kind = job[p].kind /\ job'[p].to = to /\ job'[p].at = job[p].at + 1
    BY <1>7 DEF Onward
  <2>2. AgreeBut(id)'
    <3>1. \A t \in Ticket \ {id} : ticket'[t] = ticket[t]
      BY <1>5
    <3> QED BY <1>1, <1>4, <1>7, <3>1 DEF Agree, AgreeBut
  <2>3. ticket'[id] = to
    BY <1>2, <1>5
  <2>4. \A s \in Status : <<id, s>> \in current'.buckets <=> ticket[id] = s
    BY <1>1, <1>2, <1>4 DEF Agree
  <2>5. Calm(job[p])'
    <3>1. CASE job[p].kind = "create"
      <4>1. /\ job'[p].kind = "create" /\ job'[p].at = 3 /\ job'[p].id = id
            /\ job'[p].seen = current' /\ job'[p].from = "none"
        BY <1>1, <1>2, <1>7, <2>1, <3>1 DEF Calm
      <4>2. ticket[id] \notin Status
        BY <1>1, <1>2, <3>1 DEF Calm, Exists, Status
      <4>3. \A s \in Status : <<id, s>> \notin current'.buckets
        BY <2>4, <4>2
      <4> QED BY <2>1, <2>2, <2>3, <4>1, <4>3 DEF Calm, HalfWay
    <3>2. CASE job[p].kind = "update"
      <4>1. /\ job'[p].kind = "update" /\ job'[p].at = 2 /\ job'[p].id = id
        BY <1>2, <1>7, <2>1, <3>2
      <4> QED BY <2>1, <2>2, <2>3, <4>1 DEF Calm, HalfWay
    <3>3. CASE job[p].kind = "reopen"
      <4>1. /\ job'[p].kind = "reopen" /\ job'[p].at = 2 /\ job'[p].id = id
            /\ job'[p].from = ticket[id]
        BY <1>2, <1>7, <2>1, <3>3
      <4> QED BY <2>1, <2>2, <2>3, <2>4, <4>1 DEF Calm, HalfWay
    <3> QED BY <1>2, <3>1, <3>2, <3>3
  <2> QED BY <1>1, <1>2, <2>1, <2>5, PeacefulStep DEF Typed, Running
<1> QED BY <1>2, <1>6, <1>7

LEMMA WriteCurrentQuiet ==
  ASSUME Typed, Peaceful, NEW p \in Process, WriteCurrent(p)
  PROVE  Peaceful'
<1> DEFINE id == job[p].id
           to == job[p].to
           from == job[p].from
<1>1. Running(p) /\ Calm(job[p]) /\ \A q \in Process : Running(q) => q = p
  BY AloneCalm DEF WriteCurrent, Typed, At
<1>2. /\ \/ job[p].kind \in {"create", "update", "reopen", "plan"} /\ job[p].at = 3
         \/ job[p].kind \in {"touch", "design"} /\ job[p].at = 2
         \/ job[p].kind = "prepare" /\ job[p].at = 4
      /\ Ended(p) /\ current' = Changed(job[p]) /\ ticket' = ticket
      /\ job[p].kind \in {"create", "update", "reopen"} => id \in Ticket
  BY WritesCurrent
<1>3. JobOK(job[p]) /\ job[p].seen = current
  BY <1>1, <1>2, JobIs DEF Calm, Typed
<1>4. Agree'
  <2>1. CASE job[p].kind \in {"plan", "prepare", "touch", "design"}
    <3>1. current'.buckets = current.buckets
      BY <1>2, <1>3, <2>1, ChangedTyped
    <3>2. Agree
      BY <1>1, <2>1 DEF Calm, HalfWay
    <3> QED BY <1>2, <3>1, <3>2 DEF Agree
  <2>2. CASE job[p].kind \in {"create", "update", "reopen"}
    <3>1. AgreeBut(id) /\ ticket[id] = to /\ id \in Ticket /\ HalfWay(job[p])
      BY <1>1, <1>2, <2>2 DEF Calm, HalfWay
    <3>2. \A t \in Ticket \ {id}, s \in Status :
             <<t, s>> \in current'.buckets <=> <<t, s>> \in current.buckets
      BY <1>2, <1>3, <2>2, ChangedTyped DEF ResyncBuckets, MoveStatus
    <3>3. \A s \in Status : <<id, s>> \in current'.buckets <=> s = to
      <4>1. CASE job[p].kind = "update"
        BY <1>2, <1>3, <4>1, ChangedTyped DEF ResyncBuckets
      <4>2. CASE job[p].kind = "create"
        <5>1. \A s \in Status : <<id, s>> \notin current.buckets
          BY <1>1, <3>1, <4>2 DEF Calm
        <5> QED BY <1>2, <1>3, <4>2, <5>1, ChangedTyped DEF MoveStatus
      <4>3. CASE job[p].kind = "reopen"
        <5>1. \A s \in Status : <<id, s>> \in current.buckets <=> from = s
          BY <1>1, <3>1, <4>3 DEF Calm
        <5> QED BY <1>2, <1>3, <4>3, <5>1, ChangedTyped DEF MoveStatus
      <4> QED BY <2>2, <4>1, <4>2, <4>3
    <3> QED BY <1>2, <3>1, <3>2, <3>3 DEF Agree, AgreeBut
  <2> QED BY <1>2, <2>1, <2>2
<1>5. ~Running(p)' /\ job' = [job EXCEPT ![p] = job'[p]]
  BY <1>2, IdleOK DEF Ended, Running, Typed, JobsOK
<1> QED BY <1>1, <1>4, <1>5, PeacefulStep DEF Typed

\* Nothing runs before a command begins.
LEMMA LaunchQuiet ==
  ASSUME Typed, Peaceful, NEW p \in Process, NEW c, Launches(p, c), Quiet
  PROVE  Peaceful'
<1>1. /\ job'[p] = c /\ c.at = 1 /\ c.from = "none" /\ UNCHANGED <<current, ticket>>
      /\ job' = [job EXCEPT ![p] = job'[p]]
  BY DEF Typed, JobsOK, Launches
<1>2. Agree'
  BY <1>1, Stays DEF Peaceful
<1>3. Calm(job[p])'
  BY <1>1, <1>2 DEF Calm, HalfWay
<1> QED BY <1>1, <1>2, <1>3, PeacefulStep DEF Typed, Quiet

\* The command that ran goes on with another process, or nothing happens.
LEMMA SameQuiet ==
  ASSUME Peaceful, UNCHANGED <<current, ticket>>, job' = job
  PROVE  Peaceful'
<1>1. Agree' <=> Agree
  BY Stays
<1>2. Quiet' <=> Quiet
  BY DEF Quiet, Running
<1>3. ASSUME NEW p \in Process, Running(p)' PROVE Calm(job[p])'
  <2>1. Running(p) /\ Calm(job[p])
    BY <1>3 DEF Peaceful, Running
  <2> QED BY <2>1 DEF Calm, HalfWay, Agree, AgreeBut, Exists
<1> QED BY <1>1, <1>2, <1>3 DEF Peaceful, Running

LEMMA SurvivesQuiet ==
  ASSUME Typed, Peaceful, NEW w \in Worker, Survives(w)
  PROVE  Peaceful'
<1>1. UNCHANGED <<current, ticket>> /\ Running(Child)
  BY DEF Survives, files, Running
<1>2. /\ w \in Process /\ Child \in Process /\ job'[w] = job[Child] /\ job'[Child] = Idle
      /\ \A q \in Process \ {w, Child} : job'[q] = job[q]
  BY SurvivesIs DEF Typed
<1>3. Calm(job[Child]) /\ \A q \in Process : Running(q) => q = Child
  BY <1>1, <1>2, AloneCalm DEF Typed
<1>4. \A q \in Process : Running(q)' <=> q = w
  BY <1>1, <1>2, <1>3, IdleOK DEF Running
<1>5. Calm(job[w])'
  BY <1>1, <1>2, <1>3 DEF Calm, HalfWay, Agree, AgreeBut, Exists
<1>6. ~Quiet'
  BY <1>2, <1>4 DEF Quiet
<1> QED BY <1>4, <1>5, <1>6 DEF Peaceful

LEMMA FailQuiet ==
  ASSUME Typed, Peaceful, NEW p \in Process, Fail(p)
  PROVE  Peaceful'
<1>1. /\ Ended(p) /\ ticket' = ticket /\ Running(p)
      /\ \/ current' = current
         \/ job[p].kind = "design" /\ job[p].at > 1 /\ current' = job[p].seen
      /\ \/ job[p].at = 1 /\ job[p].kind # "update"
         \/ job[p].kind \in {"design", "prepare"}
  BY FailsIs
<1>2. Calm(job[p]) /\ \A q \in Process : Running(q) => q = p
  BY <1>1, AloneCalm DEF Typed
<1>3. current' = current /\ Agree
  BY <1>1, <1>2 DEF Calm, HalfWay
<1>4. Agree'
  BY <1>1, <1>3, Stays
<1>5. ~Running(p)' /\ job' = [job EXCEPT ![p] = job'[p]]
  BY <1>1, IdleOK DEF Ended, Running, Typed, JobsOK
<1> QED BY <1>2, <1>4, <1>5, PeacefulStep DEF Typed

LEMMA QuietStep == ASSUME Typed, QuietInv, [Next]_vars PROVE QuietInv'
<1> SUFFICES ASSUME mishaps' = 0 PROVE Peaceful'
  BY DEF QuietInv
<1> USE DEF files, history
<1>0. JobsOK /\ FilesOK
  BY DEF Typed
<1>1. ASSUME mishaps = 0 PROVE Peaceful
  BY <1>1 DEF QuietInv
<1>2. CASE Rests
  BY <1>1, <1>2, SameQuiet DEF Rests, Counted
<1>3. ASSUME NEW p \in Process, NEW c, Launches(p, c) PROVE Peaceful'
  BY <1>1, <1>3, LaunchQuiet DEF Launches, Counted
<1>4. ASSUME NEW p \in Process, Stops(p) PROVE Peaceful'
  <2>1. mishaps = 0 /\ ~Running(p) /\ Ended(p) /\ UNCHANGED <<current, ticket>>
    BY <1>4 DEF Stops, Counted
  <2>2. \A q \in Process : q # p => job'[q] = job[q]
    BY <1>0, <2>1 DEF Ended, JobsOK
  <2>3. ~Running(p)'
    BY <1>0, <2>1, IdleOK DEF Ended, Running, JobsOK
  <2>4. \A q \in Process : Running(q)' <=> Running(q)
    BY <2>1, <2>2, <2>3 DEF Running
  <2>5. Peaceful /\ (Agree' <=> Agree) /\ (Quiet' <=> Quiet)
    BY <1>1, <2>1, <2>4, Stays DEF Quiet
  <2>6. ASSUME NEW q \in Process, Running(q)' PROVE Calm(job[q])'
    <3>1. Calm(job[q]) /\ job'[q] = job[q]
      BY <2>2, <2>3, <2>4, <2>5, <2>6 DEF Peaceful
    <3> QED BY <2>1, <3>1 DEF Calm, HalfWay, Agree, AgreeBut, Exists
  <2> QED BY <2>4, <2>5, <2>6 DEF Peaceful
<1>5. ASSUME NEW w \in Worker, Survives(w) PROVE Peaceful'
  BY <1>1, <1>5, SurvivesQuiet DEF Survives, Counted
<1>6. ASSUME NEW p \in Process, ReadCurrent(p) PROVE Peaceful'
  <2>1. mishaps = 0
    <3>1. CASE job[p].kind = "create"
      <4>1. Mishap(job'[p].id \in Tickets) /\ (job'[p].id \in Tickets) \in BOOLEAN
        BY <1>0, <1>6, <3>1, Reads DEF FilesOK
      <4>2. Counted(~(job'[p].id \in Tickets))
        BY <1>0, <4>1, MishapCounts DEF FilesOK
      <4> QED BY <4>2 DEF Counted
    <3>2. CASE job[p].kind # "create"
      BY <1>0, <1>6, <3>2, Reads DEF FilesOK
    <3> QED BY <3>1, <3>2
  <2> QED BY <1>1, <1>6, <2>1, ReadQuiet
<1>7. ASSUME NEW p \in Process, WriteTicket(p) \/ WriteCurrent(p) PROVE Peaceful'
  BY <1>1, <1>7, WriteTicketQuiet, WriteCurrentQuiet DEF WriteTicket, WriteCurrent
<1>8. ASSUME NEW p \in Process, Fail(p) PROVE Peaceful'
  BY <1>1, <1>8, FailQuiet DEF Fail
<1>9. ASSUME NEW p \in Process, LoadRelease(p) PROVE Peaceful'
  <2>1. mishaps = 0 /\ UNCHANGED <<current, ticket>> /\ Running(p)
    BY <1>9 DEF LoadRelease, At
  <2>2. /\ job[p].kind \in Releasing
        /\ Ended(p) \/ (Onward(p) /\ job'[p].seen = job[p].seen)
    BY <1>0, <1>9, Loads DEF FilesOK
  <2> QED BY <1>1, <2>1, <2>2, PlainQuiet DEF Releasing
<1>10. ASSUME NEW p \in Process, StoreRelease(p) PROVE Peaceful'
  <2>1. mishaps = 0 /\ UNCHANGED <<current, ticket>> /\ Running(p)
    BY <1>10 DEF StoreRelease, At
  <2>2. /\ job[p].kind \in Releasing
        /\ Ended(p) \/ (Onward(p) /\ job'[p].seen = job[p].seen)
    BY <1>10, StoresIs
  <2> QED BY <1>1, <2>1, <2>2, PlainQuiet DEF Releasing
<1>11. ASSUME NEW p \in Process, Mint(p) \/ WriteRelease(p) PROVE Peaceful'
  <2>1. mishaps = 0 /\ UNCHANGED <<current, ticket>> /\ Running(p)
    BY <1>11 DEF Mint, WriteRelease, At
  <2>2. /\ job[p].kind = "prepare" /\ job[p].at \in {2, 3}
        /\ Onward(p) /\ job'[p].seen = job[p].seen
    BY <1>0, <1>11, Mints, PreparesIs
  <2> QED BY <1>1, <2>1, <2>2, PlainQuiet
<1>12. ASSUME NEW p \in Process, Others(p) PROVE Peaceful'
  <2>1. mishaps = 0 /\ UNCHANGED <<current, ticket>> /\ Running(p)
    BY <1>12 DEF Others, WriteContract, CloseSprint, WriteRetro, FlipStatusToRetrospected, At
  <2>2. /\ \/ job[p].kind = "plan" /\ job[p].at = 2
           \/ job[p].kind = "deploy" /\ job[p].at = 3
           \/ job[p].kind = "retrospective"
        /\ Ended(p) \/ (Onward(p) /\ job'[p].seen = job[p].seen)
    BY <1>12, OthersIs
  <2> QED BY <1>1, <2>1, <2>2, PlainQuiet
<1> QED BY <1>2, <1>3, <1>4, <1>5, <1>6, <1>7, <1>8, <1>9, <1>10, <1>11, <1>12, StepMoves
        DEF Moves, Accessed, Others

LEMMA QuietInit == Init => QuietInv
<1> SUFFICES ASSUME Init PROVE Peaceful
  BY DEF QuietInv
<1>1. /\ current.buckets = {}
      /\ \A t \in Ticket : ticket[t] = "none"
      /\ \A p \in Process : ~Running(p)
  BY IdleOK DEF Init, BoardInit, Running
<1>2. Agree
  BY <1>1 DEF Agree, Status
<1> QED BY <1>1, <1>2 DEF Peaceful

(* As long as no two commands overlap, none dies and no ticket gets the id *)
(* of another one, the buckets of current.yaml are the statuses of the     *)
(* ticket files, after any sequence of create, update, reopen and the      *)
(* commands of full.js, and also after a command that outlived its run:    *)
(* what a command has changed in the one it makes up for in the other.     *)
THEOREM BoardAgrees == Spec => []QuietBoardAgrees
<1>1. StageInv /\ QuietInv /\ [Next]_vars => StageInv' /\ QuietInv'
  BY StageNext, QuietStep DEF StageInv
<1>2. StageInv /\ QuietInv => QuietBoardAgrees
  BY DEF QuietInv, Peaceful, QuietBoardAgrees, Agree, Lane
<1> QED BY <1>1, <1>2, StageInit, QuietInit, PTL DEF Spec
=============================================================================
