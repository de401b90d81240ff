----------------------------- MODULE JobStore -----------------------------
(***************************************************************************)
(* The job registry and its table: what memory says of a job, what its row *)
(* says, and the coroutines that write both (control/job_registry.py,      *)
(* db/job_dao.py), driven by the image and character jobs that the Master  *)
(* runs itself (services/image_character_service.py), read by the tools    *)
(* and refilled from the table when the Master restarts.                   *)
(*                                                                         *)
(* `update_status` changes the shared status object at once and then opens *)
(* a connection of its own.  The parameters of the UPDATE are read off the *)
(* object when that connection is open, and the write is done when SQLite  *)
(* grants its lock.  So a write has three points: the change of memory,    *)
(* the capture of the row (Open) and the commit.  Progress is reported     *)
(* with run_coroutine_threadsafe and nobody awaits it: its writes go on    *)
(* beside those of the coroutine that owns the job.                        *)
(***************************************************************************)
EXTENDS Integers, SequencesExt

CONSTANTS
  Job,          \* the job ids
  NoStatus,     \* no object in `_jobs`, no row in `jobs`
  MaxProgress,  \* bound: progress reports of all jobs
  MaxOvertakes, \* bound: writes that SQLite serves before an earlier one of the job
  MaxDbErrors,  \* bound: inserts and updates that raise
  MaxRestarts   \* bound: restarts of the Master

Bound == [progress |-> MaxProgress, overtakes |-> MaxOvertakes,
          dbErrors |-> MaxDbErrors, restarts |-> MaxRestarts]

ASSUME BoundAssumption == {MaxProgress, MaxOvertakes, MaxDbErrors, MaxRestarts} \subseteq Nat

VARIABLES
  mem,          \* JobRegistry._jobs: the status of each job in memory
  rows,         \* the table `jobs`
  owner,        \* the coroutine that runs the job: its stage and where its write is
  progressing,  \* progress updates of the job whose connection is not open yet
  line,         \* writes captured for the job's row and not committed, oldest first
  acked,        \* jobs whose id a tool has returned
  told,         \* what the last status query answered about the job
  cancelled,    \* jobs for which task_cancel ended while they were unfinished
  spoiled,      \* jobs of which a write was overtaken or raised since the start
  spent         \* how much of each bound is used up

vars == <<mem, rows, owner, progressing, line, acked, told, cancelled, spoiled, spent>>

Final == {"COMPLETED", "FAILED", "CANCELLED"}
Phase == {"PENDING", "MASTER_RUNNING", "BROADCASTING"} \cup Final
Status == [phase : Phase, finished : BOOLEAN, pct : Nat]
Stage == {"none", "insert", "start", "broadcast", "complete", "fail", "ended"}
Writes == [by : {"owner", "progress"}, row : Status]

ASSUME StatusAssumption == NoStatus \notin Status

Fresh == [phase |-> "PENDING", finished |-> FALSE, pct |-> 0]

TypeOK ==
  /\ mem \in [Job -> Status \cup {NoStatus}]
  /\ rows \in [Job -> Status \cup {NoStatus}]
  /\ owner \in [Job -> [stage : Stage, io : {"open", "exec", "done"}]]
  /\ progressing \in [Job -> Nat]
  /\ line \in [Job -> Seq(Writes)]
  /\ acked \subseteq Job
  /\ told \in [Job -> {"nothing", "active", "finished"}]
  /\ cancelled \subseteq Job
  /\ spoiled \subseteq Job
  /\ spent \in [DOMAIN Bound -> Nat]

Init ==
  /\ mem = [j \in Job |-> NoStatus]
  /\ rows = [j \in Job |-> NoStatus]
  /\ owner = [j \in Job |-> [stage |-> "none", io |-> "done"]]
  /\ progressing = [j \in Job |-> 0]
  /\ line = [j \in Job |-> <<>>]
  /\ acked = {} /\ cancelled = {} /\ spoiled = {}
  /\ told = [j \in Job |-> "nothing"]
  /\ spent = [b \in DOMAIN Bound |-> 0]

Spend(b) == spent[b] < Bound[b] /\ spent' = [spent EXCEPT ![b] = @ + 1]

Known(j) == mem[j] # NoStatus
Active(j) == Known(j) /\ ~mem[j].finished
Settled(j) == rows[j] # NoStatus /\ rows[j].finished
At(j, stage, io) == owner[j] = [stage |-> stage, io |-> io]
GoTo(j, stage, io) == owner' = [owner EXCEPT ![j] = [stage |-> stage, io |-> io]]

\* The status after update_status(phase=...): is_finished follows a final phase and
\* nothing takes it back.
Moved(status, phase) ==
  [status EXCEPT !.phase = phase, !.finished = @ \/ phase \in Final]

\* Broken: is_finished is left to its default.
FromRowByDefault(row) == [Fresh EXCEPT !.phase = row.phase, !.pct = row.pct]

\* _row_to_job: the job that a row stands for.
FromRow(row) == [phase |-> row.phase, finished |-> row.finished, pct |-> row.pct]

\* Broken: a phase of the queue that JobPhase does not have.
PhaseOfQueue(stage) == IF stage = "start" THEN "SCHEDULED" ELSE "FAILED"

\* The stages of a job's coroutine, and the phase each of them writes when it begins.
PhaseOf(stage) ==
  CASE stage = "start" -> "MASTER_RUNNING"
    [] stage = "broadcast" -> "BROADCASTING"
    [] stage = "complete" -> "COMPLETED"
    [] stage = "fail" -> "FAILED"

\* await update_status(...): memory now, the row when the connection is open.
Update(j, stage) ==
  /\ mem' = [mem EXCEPT ![j] = Moved(@, PhaseOf(stage))]
  /\ GoTo(j, stage, "open")

----------------------------------------------------------------------------
(* The coroutine of a job.  Its steps end where it awaits the database, the *)
(* browser's thread or the broadcast.                                       *)

\* Broken: the service answers and starts the job, the INSERT is left to a task.
CreateAhead(j) ==
  /\ At(j, "none", "done")
  /\ mem' = [mem EXCEPT ![j] = Fresh]
  /\ GoTo(j, "insert", "open")
  /\ acked' = acked \cup {j}
  /\ UNCHANGED <<rows, progressing, line, told, cancelled, spoiled, spent>>

\* create_image and its three siblings, as far as register_job's INSERT.
Create(j) ==
  /\ At(j, "none", "done")
  /\ mem' = [mem EXCEPT ![j] = Fresh]
  /\ GoTo(j, "insert", "open")
  /\ UNCHANGED <<rows, progressing, line, acked, told, cancelled, spoiled, spent>>

\* register_job returns, the job's task begins, and the tool answers with the id.
Begin(j) ==
  /\ At(j, "insert", "done")
  /\ Update(j, "start")
  /\ acked' = acked \cup {j}
  /\ UNCHANGED <<rows, progressing, line, told, cancelled, spoiled, spent>>

\* The page object calls back from its thread; the update runs in the loop, unawaited.
Progress(j) ==
  /\ At(j, "start", "done")
  /\ Spend("progress")
  /\ mem' = [mem EXCEPT ![j].pct = @ + 1]
  /\ progressing' = [progressing EXCEPT ![j] = @ + 1]
  /\ UNCHANGED <<rows, owner, line, acked, told, cancelled, spoiled>>

\* The browser is done and the result stored, or the broadcast is done.
GoOn(j) ==
  /\ \/ At(j, "start", "done") /\ Update(j, "broadcast")
     \/ At(j, "broadcast", "done") /\ Update(j, "complete")
  /\ UNCHANGED <<rows, progressing, line, acked, told, cancelled, spoiled, spent>>

\* Broken: the exception is logged and the job left as it is.
RaiseQuietly(j) ==
  /\ At(j, "start", "done") \/ At(j, "broadcast", "done")
  /\ GoTo(j, "ended", "done")
  /\ UNCHANGED <<mem, rows, progressing, line, acked, told, cancelled, spoiled, spent>>

\* The browser, the asset hub or the broadcast raises: the handler fails the job.
Raise(j) ==
  /\ At(j, "start", "done") \/ At(j, "broadcast", "done")
  /\ Update(j, "fail")
  /\ UNCHANGED <<rows, progressing, line, acked, told, cancelled, spoiled, spent>>

\* The last write is committed and the coroutine returns.
End(j) ==
  /\ At(j, "complete", "done") \/ At(j, "fail", "done")
  /\ GoTo(j, "ended", "done")
  /\ UNCHANGED <<mem, rows, progressing, line, acked, told, cancelled, spoiled, spent>>

----------------------------------------------------------------------------
(* Connections to SQLite. *)

\* The owner's connection is open: the parameters are read off the object in memory.
Open(j) ==
  /\ owner[j].io = "open"
  /\ line' = [line EXCEPT ![j] = Append(@, [by |-> "owner", row |-> mem[j]])]
  /\ GoTo(j, owner[j].stage, "exec")
  /\ UNCHANGED <<mem, rows, progressing, acked, told, cancelled, spoiled, spent>>

\* Broken: the progress update writes the status as it was when progress was made.
OpenProgressLate(j) ==
  /\ progressing[j] > 0
  /\ line' = [line EXCEPT ![j] =
       Append(@, [by |-> "progress", row |-> [mem[j] EXCEPT !.phase = "MASTER_RUNNING",
                                                            !.finished = FALSE]])]
  /\ progressing' = [progressing EXCEPT ![j] = @ - 1]
  /\ UNCHANGED <<mem, rows, owner, acked, told, cancelled, spoiled, spent>>

\* So is the connection of a progress update.
OpenProgress(j) ==
  /\ progressing[j] > 0
  /\ line' = [line EXCEPT ![j] = Append(@, [by |-> "progress", row |-> mem[j]])]
  /\ progressing' = [progressing EXCEPT ![j] = @ - 1]
  /\ UNCHANGED <<mem, rows, owner, acked, told, cancelled, spoiled, spent>>

\* The i-th write of the job leaves the line; its owner, if it has one, may go on.
Leave(j, i) ==
  /\ line' = [line EXCEPT ![j] = RemoveAt(@, i)]
  /\ IF line[j][i].by = "owner" THEN GoTo(j, owner[j].stage, "done") ELSE UNCHANGED owner

\* An UPDATE of a job that has no row changes nothing; only the INSERT makes the row.
Write(j, w) ==
  IF rows[j] # NoStatus \/ (w.by = "owner" /\ owner[j].stage = "insert")
    THEN rows' = [rows EXCEPT ![j] = w.row]
    ELSE UNCHANGED rows

\* The oldest write of the job gets SQLite's lock and commits.
Commit(j) ==
  /\ line[j] # <<>>
  /\ Leave(j, 1)
  /\ Write(j, line[j][1])
  /\ UNCHANGED <<mem, progressing, acked, told, cancelled, spoiled, spent>>

\* While writes wait for a lock, SQLite lets a later one try first.
Overtake(j) ==
  /\ Spend("overtakes")
  /\ \E i \in 2 .. Len(line[j]) : Leave(j, i) /\ Write(j, line[j][i])
  /\ spoiled' = spoiled \cup {j}
  /\ UNCHANGED <<mem, progressing, acked, told, cancelled>>

\* A write of the owner raises.  A failed INSERT fails the tool call; a failed update is
\* caught like every exception of the job, except the one that reports the exception.
OwnerFails(j) ==
  /\ Spend("dbErrors")
  /\ \/ owner[j].io = "open" /\ UNCHANGED line
     \/ \E i \in DOMAIN line[j] :
          line[j][i].by = "owner" /\ line' = [line EXCEPT ![j] = RemoveAt(@, i)]
  /\ IF owner[j].stage \in {"insert", "fail"}
       THEN GoTo(j, "ended", "done") /\ UNCHANGED mem
       ELSE Update(j, "fail")
  /\ spoiled' = spoiled \cup {j}
  /\ UNCHANGED <<rows, progressing, acked, told, cancelled>>

\* A progress update raises; its future is dropped and the exception with it.
ProgressFails(j) ==
  /\ Spend("dbErrors")
  /\ \/ /\ progressing[j] > 0
        /\ progressing' = [progressing EXCEPT ![j] = @ - 1]
        /\ UNCHANGED line
     \/ /\ \E i \in DOMAIN line[j] :
             line[j][i].by = "progress" /\ line' = [line EXCEPT ![j] = RemoveAt(@, i)]
        /\ UNCHANGED progressing
  /\ spoiled' = spoiled \cup {j}
  /\ UNCHANGED <<mem, rows, owner, acked, told, cancelled>>

----------------------------------------------------------------------------
(* The tools and the Master's process. *)

\* get_status: memory first, else the row, which then stays in memory.  A job that is only
\* in the table has no writer, so the read and the insertion into `_jobs` are one step.
GetStatus(j) ==
  /\ Known(j) \/ rows[j] # NoStatus
  /\ LET status == IF Known(j) THEN mem[j] ELSE FromRow(rows[j])
     IN  /\ mem' = [mem EXCEPT ![j] = status]
         /\ told' = [told EXCEPT ![j] = IF status.finished THEN "finished" ELSE "active"]
  /\ UNCHANGED <<rows, owner, progressing, line, acked, cancelled, spoiled, spent>>

\* task_cancel of an unfinished job.  The list it compares the phase with names members
\* that JobPhase does not have, so the call ends there with an AttributeError.
TaskCancel(j) ==
  /\ Active(j)
  /\ cancelled' = cancelled \cup {j}
  /\ UNCHANGED <<mem, rows, owner, progressing, line, acked, told, spoiled, spent>>

\* list_active_jobs, loaded by initialize.
ActiveRow(j) == IF rows[j] # NoStatus /\ ~rows[j].finished THEN FromRow(rows[j]) ELSE NoStatus

\* The process ends wherever its coroutines are; the next one loads the unfinished jobs
\* before it serves tools or workers, and starts nothing for them.
Restart ==
  /\ Spend("restarts")
  /\ mem' = [j \in Job |-> ActiveRow(j)]
  /\ owner' = [j \in Job |-> IF owner[j].stage = "none" THEN owner[j]
                             ELSE [stage |-> "ended", io |-> "done"]]
  /\ progressing' = [j \in Job |-> 0]
  /\ line' = [j \in Job |-> <<>>]
  /\ spoiled' = {}
  /\ UNCHANGED <<rows, acked, told, cancelled>>

Works(j) == Begin(j) \/ GoOn(j) \/ Raise(j) \/ End(j)
Stores(j) == Open(j) \/ OpenProgress(j) \/ Commit(j)

Next ==
  \/ \E j \in Job :
       \/ Create(j) \/ Works(j) \/ Progress(j) \/ Stores(j)
       \/ Overtake(j) \/ OwnerFails(j) \/ ProgressFails(j)
       \/ GetStatus(j) \/ TaskCancel(j)
  \/ Restart

Spec == Init /\ [][Next]_vars

\* asyncio runs what can run, SQLite answers, and browser and broadcast have timeouts.
FairSpec ==
  Spec /\ \A j \in Job : WF_vars(Works(j)) /\ WF_vars(Open(j))
                         /\ WF_vars(OpenProgress(j)) /\ WF_vars(Commit(j))

----------------------------------------------------------------------------
(* Properties. *)

\* A job whose id a client holds, and a job that is being updated, has a row: no restart
\* makes it unknown and no UPDATE misses it (register_job awaits the INSERT before its
\* caller submits or starts anything).
Durable ==
  \A j \in Job :
    (j \in acked \/ owner[j].stage \in {"start", "broadcast", "complete", "fail"})
      => rows[j] # NoStatus

\* When no write of a job is under way its row says what memory says, however the writes of
\* its coroutine and of its progress were interleaved: each reads its parameters off the
\* shared object after its connection is open, so the last one to read has the latest.
RowKeepsUp ==
  \A j \in Job \ spoiled :
    Known(j) /\ owner[j].io # "open" /\ progressing[j] = 0 /\ line[j] = <<>>
      => rows[j] = mem[j]

\* Once its row says that a job has finished, the row goes on saying so and memory does not
\* say otherwise, restarts included: nobody resumes or reports a finished job as active
\* (update_status, initialize, get_job's fallback).
FinishedSurvives ==
  [][\A j \in Job \ spoiled' : Settled(j) => Settled(j)' /\ ~Active(j)']_vars

\* Every image or character job that was asked for finishes, and its row with it, unless
\* the Master restarts or a write is refused or overtaken.
EveryImageEnds ==
  \A j \in Job : owner[j].stage = "insert"
                   ~> \/ Known(j) /\ mem[j].finished /\ rows[j] = mem[j]
                      \/ spent.restarts > 0
                      \/ j \in spoiled

\* What task_queue_status calls active is queued or in progress: some coroutine of this
\* process owns it.
ListedIsRunning ==
  \A j \in Job : Active(j) => owner[j].stage \notin {"none", "ended"}

\* task_cancel of an unfinished job marks it cancelled.
CancelTakesEffect == \A j \in cancelled : Known(j) => mem[j].phase = "CANCELLED"
=============================================================================
