--------------------------- MODULE FlowScheduler ---------------------------
(***************************************************************************)
(* The control plane of flow-mcp: the scheduler loop and its FIFO queue    *)
(* (control/scheduler.py), the worker pool (control/worker_pool.py), the   *)
(* in-memory job registry (control/job_registry.py), the readers of the    *)
(* gRPC streams (control/server.py) and the workers at the other end of    *)
(* the streams (worker/client.py).                                         *)
(*                                                                         *)
(* Everything on the Master runs in one asyncio event loop, so a handler   *)
(* is atomic between two suspension points.  The locks of the pool and of  *)
(* the registry are never held over a suspension; `_queue_lock` is: a      *)
(* scheduling pass keeps it while it awaits the database.  A step of this  *)
(* module is a stretch of one coroutine from one such await to the next.   *)
(*                                                                         *)
(* Credits are abstracted here to "the reservation was granted" or "it was *)
(* refused" (module Credits has the money), routing to "some idle          *)
(* candidate".                                                             *)
(***************************************************************************)
EXTENDS Integers, Sequences, FiniteSets

CONSTANTS
  Worker,        \* the worker ids
  LocalWorker,   \* the ids dispatched in process: {"master_local_worker"} or {}
  Job,           \* the job ids
  Target,        \* [Job -> SUBSET Worker]: the workers spec.target_worker_id admits
  Slot,          \* identities of the tasks made by asyncio.create_task(_dispatch_task)
  Loop,          \* identity of the scheduler's own coroutine
  NoJob, NoWorker,
  MaxRetries,    \* spec.max_retries
  MaxRefusals,   \* bound: reservations refused for lack of credits
  MaxLapses,     \* bound: heartbeats that age out although the stream is up
  MaxBreaks,     \* bound: streams broken and workers crashed
  MaxDbErrors,   \* bound: database calls that raise
  MaxProgress    \* bound: progress reports a worker sends about one execution

ASSUME JobAssumption == NoJob \notin Job
ASSUME WorkerAssumption == LocalWorker \subseteq Worker /\ NoWorker \notin Worker
ASSUME TargetAssumption == Target \in [Job -> SUBSET Worker]
ASSUME BoundAssumption ==
  {MaxRetries, MaxRefusals, MaxLapses, MaxBreaks, MaxDbErrors, MaxProgress} \subseteq Nat
ASSUME ActorAssumption ==
  /\ Job \cap Worker = {} /\ Job \cap Slot = {} /\ Slot \cap Worker = {}
  /\ Loop \notin Job \cup Worker \cup Slot

VARIABLES
  queue,      \* Scheduler._queue
  lockq,      \* coroutines waiting for _queue_lock, oldest first
  pc,         \* where the scheduler coroutine is suspended
  gone,       \* workers check_health returned, not handled yet
  todo,       \* what the pass has still to look at
  kept,       \* remaining_queue of the pass
  pick,       \* the worker selected for Head(todo)
  coro,       \* the other coroutines: readers, dispatch tasks, failure handlers
  phase,      \* JobStatus.phase
  finished,   \* JobStatus.is_finished
  retries,    \* JobSpec.retry_count
  wphase,     \* WorkerInfo.phase
  wjob,       \* WorkerInfo.current_job_id
  stale,      \* last_heartbeat is older than heartbeat_timeout
  up,         \* the gRPC stream of the worker is open
  reachable,  \* the worker has an entry in _worker_queues
  wq,         \* ExecuteTask messages on their way to the worker
  running,    \* executions the worker has started
  out,        \* WorkerClient._out_queue and what is in transit to the reader
  dispatches, \* history: dispatch tasks created for the job
  spent       \* how much of each bound is used up

registryVars == <<phase, finished, retries>>
poolVars == <<wphase, wjob, stale>>
loopVars == <<pc, gone, todo, kept, pick>>
netVars == <<up, reachable, wq, running, out>>
vars == <<queue, lockq, loopVars, coro, registryVars, poolVars, netVars, dispatches, spent>>

Remote == Worker \ LocalWorker
Actor == {Loop} \cup Worker \cup Slot \cup Job
Idle == [at |-> "idle", job |-> NoJob, worker |-> NoWorker]
Final == {"COMPLETED", "FAILED"}        \* FINISHED_PHASES; nothing sets CANCELLED
Bound == [refusals |-> MaxRefusals, lapses |-> MaxLapses, breaks |-> MaxBreaks,
          dbErrors |-> MaxDbErrors]
Executions == [job : Job, told : Nat]
Messages == [type : {"register", "progress", "completed", "failed"}, job : Job \cup {NoJob}]

\* What the structures of the Master, the streams and the workers may hold.
QueueType == queue \in Seq(Job) /\ lockq \in Seq(Actor)

LoopType ==
  /\ pc \in {"sleep", "failover", "select", "reserve", "confirm"}
  /\ gone \subseteq Remote
  /\ todo \in Seq(Job) /\ kept \in Seq(Job)
  /\ pick \in Worker \cup {NoWorker}

CoroutineType ==
  coro \in [Actor -> [at : {"idle", "register", "dispatch", "release", "lock", "dead"},
                      job : Job \cup {NoJob}, worker : Worker \cup {NoWorker}]]

RegistryType ==
  /\ phase \in [Job -> {"none", "PENDING", "ASSIGNED", "GENERATING", "COMPLETED", "FAILED"}]
  /\ finished \in [Job -> BOOLEAN]
  /\ retries \in [Job -> Nat]

PoolType ==
  /\ wphase \in [Worker -> {"none", "IDLE", "BUSY", "DISCONNECTED"}]
  /\ wjob \in [Worker -> Job \cup {NoJob}]
  /\ stale \in [Worker -> BOOLEAN]

NetType ==
  /\ up \in [Worker -> BOOLEAN] /\ reachable \in [Worker -> BOOLEAN]
  /\ wq \in [Worker -> Seq(Job)]
  /\ running \in [Worker -> Seq(Executions)]
  /\ out \in [Worker -> Seq(Messages)]

CountType ==
  /\ dispatches \in [Job -> Nat]
  /\ spent \in [DOMAIN Bound -> Nat]

\* Every variable stays in its domain; the proofs start from here.
TypeOK ==
  /\ QueueType /\ LoopType /\ CoroutineType /\ RegistryType
  /\ PoolType /\ NetType /\ CountType

Init ==
  /\ queue = <<>> /\ lockq = <<>> /\ todo = <<>> /\ kept = <<>>
  /\ pc = "sleep" /\ gone = {} /\ pick = NoWorker
  /\ coro = [c \in Actor |-> Idle]
  /\ phase = [j \in Job |-> "none"]
  /\ finished = [j \in Job |-> FALSE]
  /\ retries = [j \in Job |-> 0]
  /\ wphase = [w \in Worker |-> IF w \in LocalWorker THEN "IDLE" ELSE "none"]
  /\ wjob = [w \in Worker |-> NoJob]
  /\ stale = [w \in Worker |-> FALSE]
  /\ up = [w \in Worker |-> FALSE] /\ reachable = [w \in Worker |-> FALSE]
  /\ wq = [w \in Worker |-> <<>>]
  /\ running = [w \in Worker |-> <<>>]
  /\ out = [w \in Worker |-> <<>>]
  /\ dispatches = [j \in Job |-> 0]
  /\ spent = [b \in DOMAIN Bound |-> 0]

Spend(b) == spent[b] < Bound[b] /\ spent' = [spent EXCEPT ![b] = @ + 1]

----------------------------------------------------------------------------
(* The queue and its lock *)

\* A pass holds _queue_lock across its awaits; a submit only for an instant.
LockHeld == pc \in {"select", "reserve", "confirm"}

\* Retries go to the front of the queue, new submissions to the back.
Enqueued(c, j) == IF c \in Job THEN Append(queue, j) ELSE <<j>> \o queue

\* Broken: _queue_lock is not taken.
SubmitUnlocked(c, j) ==
  /\ queue' = Enqueued(c, j)
  /\ coro' = [coro EXCEPT ![c] = Idle]
  /\ UNCHANGED lockq

\* Scheduler.submit up to its first suspension: insert at once when the lock is
\* free and nobody waits for it, otherwise wait in line.
Submit(c, j) ==
  IF LockHeld \/ lockq # <<>>
  THEN /\ lockq' = Append(lockq, c)
       /\ coro' = [coro EXCEPT ![c] = [at |-> "lock", job |-> j, worker |-> NoWorker]]
       /\ UNCHANGED queue
  ELSE /\ queue' = Enqueued(c, j)
       /\ coro' = [coro EXCEPT ![c] = Idle]
       /\ UNCHANGED lockq

\* VideoService.create_video and the broadcast of a child: register_job, submit.
CreateJob(j) ==
  /\ phase[j] = "none" /\ coro[j].at = "idle"
  /\ phase' = [phase EXCEPT ![j] = "PENDING"]
  /\ Submit(j, j)
  /\ UNCHANGED <<finished, retries, loopVars, poolVars, netVars, dispatches, spent>>

\* The oldest waiter gets the lock, inserts its job and marks it PENDING.
LockGranted ==
  /\ lockq # <<>> /\ ~LockHeld
  /\ LET c == Head(lockq)
         j == coro[c].job
     IN /\ queue' = Enqueued(c, j)
        /\ phase' = [phase EXCEPT ![j] = "PENDING"]
        /\ coro' = [coro EXCEPT ![c] = Idle]
  /\ lockq' = Tail(lockq)
  /\ UNCHANGED <<finished, retries, loopVars, poolVars, netVars, dispatches, spent>>

----------------------------------------------------------------------------
(* Scheduler._run_loop: health check, failover, one pass over the queue *)

\* asyncio runs a task just created before it resumes a coroutine that awaits the
\* database or a timer: the loop never wakes up before a remote dispatch was made.
Dispatched == \A s \in Slot : coro[s].at = "dispatch" => coro[s].worker \in LocalWorker

CheckHealth ==
  /\ pc = "sleep" /\ Dispatched
  /\ gone' = {w \in Remote : wphase[w] \notin {"none", "DISCONNECTED"} /\ stale[w]}
  /\ wphase' = [w \in Worker |-> IF w \in gone' THEN "DISCONNECTED" ELSE wphase[w]]
  /\ pc' = "failover"
  /\ UNCHANGED <<queue, lockq, todo, kept, pick, coro, registryVars, wjob, stale, netVars,
                 dispatches, spent>>

\* _handle_worker_disconnected; the loop awaits the failure handler it starts.
FailoverWorker(w) ==
  /\ pc = "failover" /\ w \in gone /\ coro[Loop].at = "idle"
  /\ gone' = gone \ {w}
  /\ coro' = IF wjob[w] = NoJob THEN coro
             ELSE [coro EXCEPT ![Loop] = [at |-> "release", job |-> wjob[w], worker |-> w]]
  /\ UNCHANGED <<queue, lockq, pc, todo, kept, pick, registryVars, poolVars, netVars,
                 dispatches, spent>>

BeginPass ==
  /\ pc = "failover" /\ gone = {} /\ coro[Loop].at = "idle" /\ lockq = <<>>
  /\ pc' = IF queue = <<>> THEN "sleep" ELSE "select"
  /\ todo' = queue /\ kept' = <<>>
  /\ UNCHANGED <<queue, lockq, gone, pick, coro, registryVars, poolVars, netVars,
                 dispatches, spent>>

\* Broken: only disconnected workers are left out.
CandidatesConnected(j) == {w \in Target[j] : wphase[w] \notin {"none", "DISCONNECTED"}}

\* select_best looks at the IDLE workers only.
Candidates(j) == {w \in Target[j] : wphase[w] = "IDLE"}

\* select_best, then the reservation suspends the pass in the database.
SelectWorker(w) ==
  /\ pc = "select" /\ todo # <<>> /\ w \in Candidates(Head(todo))
  /\ pick' = w
  /\ pc' = "reserve"
  /\ UNCHANGED <<queue, lockq, gone, todo, kept, coro, registryVars, poolVars, netVars,
                 dispatches, spent>>

\* Broken: the spec is put in front of remaining_queue.
KeepHeadFirst ==
  /\ kept' = <<Head(todo)>> \o kept
  /\ todo' = Tail(todo)
  /\ pc' = "select"
  /\ pick' = NoWorker
  /\ UNCHANGED <<queue, lockq, gone, coro, registryVars, poolVars, netVars, dispatches>>

\* Broken: the worker is put into remaining_queue.
KeepHeadWorker ==
  /\ kept' = Append(kept, pick)
  /\ todo' = Tail(todo)
  /\ pc' = "select"
  /\ pick' = NoWorker
  /\ UNCHANGED <<queue, lockq, gone, coro, registryVars, poolVars, netVars, dispatches>>

\* remaining_queue.append(spec) and on to the next spec.
KeepHead ==
  /\ kept' = Append(kept, Head(todo))
  /\ todo' = Tail(todo)
  /\ pc' = "select"
  /\ pick' = NoWorker
  /\ UNCHANGED <<queue, lockq, gone, coro, registryVars, poolVars, netVars, dispatches>>

NoCandidate ==
  /\ pc = "select" /\ todo # <<>> /\ Candidates(Head(todo)) = {}
  /\ KeepHead
  /\ UNCHANGED spent

\* InsufficientCreditsError or any other exception of the reservation; also a
\* spec that no candidate can afford, which ends the same way.
ReserveRefused ==
  /\ pc = "reserve" /\ Dispatched
  /\ Spend("refusals")
  /\ KeepHead

\* Reservation granted: mark_busy and update_status run without a suspension.
ReserveGranted ==
  /\ pc = "reserve" /\ Dispatched
  /\ LET j == Head(todo)
     IN /\ wphase' = [wphase EXCEPT ![pick] = "BUSY"]
        /\ wjob' = [wjob EXCEPT ![pick] = j]
        /\ phase' = [phase EXCEPT ![j] = "ASSIGNED"]
  /\ pc' = "confirm"
  /\ UNCHANGED <<queue, lockq, gone, todo, kept, pick, coro, finished, retries, stale, netVars,
                 dispatches, spent>>

\* Slot holds more identities than a run can use at once; which one is no matter.
FreeSlots == {s \in Slot : coro[s].at = "idle"}

\* confirm returned: create the dispatch task and go on with the next spec.
Confirmed ==
  /\ pc = "confirm" /\ FreeSlots # {}
  /\ coro' = [coro EXCEPT ![CHOOSE s \in FreeSlots : TRUE] =
                [at |-> "dispatch", job |-> Head(todo), worker |-> pick]]
  /\ dispatches' = [dispatches EXCEPT ![Head(todo)] = @ + 1]
  /\ todo' = Tail(todo)
  /\ pc' = "select"
  /\ pick' = NoWorker
  /\ UNCHANGED <<queue, lockq, gone, kept, registryVars, poolVars, netVars, spent>>

\* The status write or confirm raised: _run_loop logs the exception and sleeps;
\* the assignment of remaining_queue to _queue is skipped.
PassFails ==
  /\ pc = "confirm"
  /\ Spend("dbErrors")
  /\ pc' = "sleep"
  /\ todo' = <<>> /\ kept' = <<>> /\ pick' = NoWorker
  /\ UNCHANGED <<queue, lockq, gone, coro, registryVars, poolVars, netVars, dispatches>>

\* Broken: remaining_queue is added to _queue instead of replacing it.
EndPassExtends ==
  /\ pc = "select" /\ todo = <<>>
  /\ queue' = queue \o kept
  /\ kept' = <<>>
  /\ pc' = "sleep"
  /\ UNCHANGED <<lockq, gone, todo, pick, coro, registryVars, poolVars, netVars,
                 dispatches, spent>>

\* _queue = remaining_queue; the lock is free again and the loop sleeps.
EndPass ==
  /\ pc = "select" /\ todo = <<>>
  /\ queue' = kept
  /\ kept' = <<>>
  /\ pc' = "sleep"
  /\ UNCHANGED <<lockq, gone, todo, pick, coro, registryVars, poolVars, netVars,
                 dispatches, spent>>

----------------------------------------------------------------------------
(* _dispatch_task and the two report handlers *)

\* handle_task_completed: mark_idle, then mark_completed whatever the job's state.
TaskCompleted(j, w) ==
  /\ wphase' = [wphase EXCEPT ![w] = "IDLE"]
  /\ wjob' = [wjob EXCEPT ![w] = NoJob]
  /\ phase' = [phase EXCEPT ![j] = "COMPLETED"]
  /\ finished' = [finished EXCEPT ![j] = TRUE]
  /\ UNCHANGED <<retries, stale>>

\* Entry of handle_task_failed in coroutine c: it suspends in credit_manager.release.
StartFailing(c, j, w) == coro' = [coro EXCEPT ![c] = [at |-> "release", job |-> j, worker |-> w]]

\* send_to_worker finds the worker's queue, or the dispatch fails.
DispatchRemote(s) ==
  /\ coro[s].at = "dispatch" /\ coro[s].worker \in Remote
  /\ LET w == coro[s].worker
     IN IF reachable[w]
        THEN /\ wq' = [wq EXCEPT ![w] = Append(@, coro[s].job)]
             /\ coro' = [coro EXCEPT ![s] = Idle]
        ELSE /\ StartFailing(s, coro[s].job, w)
             /\ UNCHANGED wq
  /\ UNCHANGED <<queue, lockq, loopVars, registryVars, poolVars, up, reachable, running, out,
                 dispatches, spent>>

\* Worker 0: local_dispatch runs the video to its end inside the dispatch task.
LocalCompletes(s) ==
  /\ coro[s].at = "dispatch" /\ coro[s].worker \in LocalWorker
  /\ TaskCompleted(coro[s].job, coro[s].worker)
  /\ coro' = [coro EXCEPT ![s] = Idle]
  /\ UNCHANGED <<queue, lockq, loopVars, netVars, dispatches, spent>>

LocalFails(s) ==
  /\ coro[s].at = "dispatch" /\ coro[s].worker \in LocalWorker
  /\ StartFailing(s, coro[s].job, coro[s].worker)
  /\ UNCHANGED <<queue, lockq, loopVars, registryVars, poolVars, netVars, dispatches, spent>>

\* Broken: one retry too many.
CanRetryOnceMore(j) == retries[j] <= MaxRetries

CanRetry(j) == retries[j] < MaxRetries

\* handle_task_failed after the release: mark_failed, then a retry while the
\* budget lasts, else the job is FAILED.
HandleFailure(c) ==
  /\ coro[c].at = "release"
  /\ LET j == coro[c].job
         w == coro[c].worker
     IN /\ wphase' = [wphase EXCEPT ![w] = "IDLE"]
        /\ wjob' = [wjob EXCEPT ![w] = NoJob]
        /\ IF CanRetry(j)
           THEN /\ retries' = [retries EXCEPT ![j] = @ + 1]
                /\ Submit(c, j)
                /\ phase' = IF LockHeld \/ lockq # <<>> THEN phase
                            ELSE [phase EXCEPT ![j] = "PENDING"]
                /\ UNCHANGED finished
           ELSE /\ phase' = [phase EXCEPT ![j] = "FAILED"]
                /\ finished' = [finished EXCEPT ![j] = TRUE]
                /\ coro' = [coro EXCEPT ![c] = Idle]
                /\ UNCHANGED <<queue, lockq, retries>>
  /\ UNCHANGED <<loopVars, stale, netVars, dispatches, spent>>

\* release raises.  A reader leaves through its finally clause while its stream
\* stays open; the loop logs the error and forgets the workers still in `gone`;
\* a dispatch task just ends.
ReleaseFails(c) ==
  /\ coro[c].at = "release"
  /\ Spend("dbErrors")
  /\ coro' = [coro EXCEPT ![c] = IF c \in Worker THEN [Idle EXCEPT !.at = "dead"] ELSE Idle]
  /\ reachable' = IF c \in Worker THEN [reachable EXCEPT ![c] = FALSE] ELSE reachable
  /\ IF c = Loop THEN pc' = "sleep" /\ gone' = {} ELSE UNCHANGED <<pc, gone>>
  /\ UNCHANGED <<queue, lockq, todo, kept, pick, registryVars, poolVars, up, wq, running, out,
                 dispatches>>

----------------------------------------------------------------------------
(* The reader of a worker's stream (FlowClusterServicer.StreamTasks) *)

\* Database calls of the reader outside the release: registration, account_update,
\* project_mapping, the write of a status that memory already holds.  One that
\* raises ends the reader, not the stream.
ReaderFails(w) ==
  /\ up[w] /\ coro[w].at \in {"idle", "register"}
  /\ Spend("dbErrors")
  /\ coro' = [coro EXCEPT ![w] = [Idle EXCEPT !.at = "dead"]]
  /\ reachable' = [reachable EXCEPT ![w] = FALSE]
  /\ UNCHANGED <<queue, lockq, loopVars, registryVars, poolVars, up, wq, running, out, dispatches>>

\* The reader takes the next message off the stream.
NextMessage(w, type) ==
  /\ up[w] /\ coro[w].at = "idle"
  /\ out[w] # <<>> /\ Head(out[w]).type = type
  /\ out' = [out EXCEPT ![w] = Tail(@)]

\* The outgoing queue is published first, then the reader awaits the account.
ReadRegister(w) ==
  /\ NextMessage(w, "register")
  /\ reachable' = [reachable EXCEPT ![w] = TRUE]
  /\ coro' = [coro EXCEPT ![w] = [Idle EXCEPT !.at = "register"]]
  /\ UNCHANGED <<queue, lockq, loopVars, registryVars, poolVars, up, wq, running, dispatches, spent>>

\* Broken: a known worker keeps its phase.
RegisterWorkerKeepsPhase(w) ==
  /\ coro[w].at = "register"
  /\ wphase' = IF wphase[w] = "none" THEN [wphase EXCEPT ![w] = "IDLE"] ELSE wphase
  /\ stale' = [stale EXCEPT ![w] = FALSE]
  /\ coro' = [coro EXCEPT ![w] = Idle]
  /\ UNCHANGED <<queue, lockq, loopVars, registryVars, wjob, netVars, dispatches, spent>>

\* WorkerPool.register_worker: IDLE again, but current_job_id is left as it was.
RegisterWorker(w) ==
  /\ coro[w].at = "register"
  /\ wphase' = [wphase EXCEPT ![w] = "IDLE"]
  /\ stale' = [stale EXCEPT ![w] = FALSE]
  /\ coro' = [coro EXCEPT ![w] = Idle]
  /\ UNCHANGED <<queue, lockq, loopVars, registryVars, wjob, netVars, dispatches, spent>>

\* A heartbeat brings a DISCONNECTED worker back.  The message is not kept in
\* `out`: it may arrive whenever the reader knows the worker.
ReadHeartbeat(w) ==
  /\ up[w] /\ reachable[w] /\ coro[w].at = "idle"
  /\ stale[w] \/ wphase[w] = "DISCONNECTED"
  /\ stale' = [stale EXCEPT ![w] = FALSE]
  /\ wphase' = IF wphase[w] = "DISCONNECTED" THEN [wphase EXCEPT ![w] = "IDLE"] ELSE wphase
  /\ UNCHANGED <<queue, lockq, loopVars, coro, registryVars, wjob, netVars, dispatches, spent>>

\* update_status with the phase the report names, whatever the job's phase is.
ReadProgress(w) ==
  /\ NextMessage(w, "progress")
  /\ phase' = [phase EXCEPT ![Head(out[w]).job] = "GENERATING"]
  /\ UNCHANGED <<queue, lockq, loopVars, coro, finished, retries, poolVars, up, reachable, wq,
                 running, dispatches, spent>>

ReadCompleted(w) ==
  /\ NextMessage(w, "completed")
  /\ TaskCompleted(Head(out[w]).job, w)
  /\ UNCHANGED <<queue, lockq, loopVars, coro, up, reachable, wq, running, dispatches, spent>>

ReadFailed(w) ==
  /\ NextMessage(w, "failed")
  /\ StartFailing(w, Head(out[w]).job, w)
  /\ UNCHANGED <<queue, lockq, loopVars, registryVars, poolVars, up, reachable, wq, running,
                 dispatches, spent>>

----------------------------------------------------------------------------
(* The worker (WorkerClient) and its connection *)

\* s without its i-th element.
Without(s, i) == [k \in 1..Len(s) - 1 |-> IF k < i THEN s[k] ELSE s[k + 1]]

Send(w, type, j) == out' = [out EXCEPT ![w] = Append(@, [type |-> type, job |-> j])]

\* _run_stream: the register message goes behind whatever _out_queue still holds.
Connect(w) ==
  /\ w \in Remote /\ ~up[w]
  /\ up' = [up EXCEPT ![w] = TRUE]
  /\ Send(w, "register", NoJob)
  /\ UNCHANGED <<queue, lockq, loopVars, coro, registryVars, poolVars, reachable, wq, running,
                 dispatches, spent>>

\* Every ExecuteTask starts a task of its own, also while another one runs.
ReceiveTask(w) ==
  /\ up[w] /\ wq[w] # <<>>
  /\ running' = [running EXCEPT ![w] = Append(@, [job |-> Head(wq[w]), told |-> 0])]
  /\ wq' = [wq EXCEPT ![w] = Tail(@)]
  /\ UNCHANGED <<queue, lockq, loopVars, coro, registryVars, poolVars, up, reachable, out,
                 dispatches, spent>>

\* _handle_execute's report_progress.
ReportProgress(w, i) ==
  /\ i \in DOMAIN running[w] /\ running[w][i].told < MaxProgress
  /\ running' = [running EXCEPT ![w][i].told = @ + 1]
  /\ Send(w, "progress", running[w][i].job)
  /\ UNCHANGED <<queue, lockq, loopVars, coro, registryVars, poolVars, up, reachable, wq,
                 dispatches, spent>>

\* The execution ends; its report waits in _out_queue, connected or not.
ReportResult(w, i, type) ==
  /\ i \in DOMAIN running[w]
  /\ running' = [running EXCEPT ![w] = Without(@, i)]
  /\ Send(w, type, running[w][i].job)
  /\ UNCHANGED <<queue, lockq, loopVars, coro, registryVars, poolVars, up, reachable, wq,
                 dispatches, spent>>

\* Broken: the cancelled reader keeps its place in the line for the lock.
CloseStreamKeepsLine(w) ==
  /\ w \in Remote /\ up[w]
  /\ Spend("breaks")
  /\ up' = [up EXCEPT ![w] = FALSE]
  /\ reachable' = [reachable EXCEPT ![w] = FALSE]
  /\ wq' = [wq EXCEPT ![w] = <<>>]
  /\ coro' = [coro EXCEPT ![w] = Idle]
  /\ UNCHANGED <<lockq, queue, loopVars, registryVars, poolVars, dispatches>>

\* The stream ends: the servicer cancels the reader wherever it is suspended, the
\* reader's finally clause removes the worker's queue and what is in it.
CloseStream(w) ==
  /\ w \in Remote /\ up[w]
  /\ Spend("breaks")
  /\ up' = [up EXCEPT ![w] = FALSE]
  /\ reachable' = [reachable EXCEPT ![w] = FALSE]
  /\ wq' = [wq EXCEPT ![w] = <<>>]
  /\ coro' = [coro EXCEPT ![w] = Idle]
  /\ IF \E i \in DOMAIN lockq : lockq[i] = w
     THEN \E i \in DOMAIN lockq : lockq[i] = w /\ lockq' = Without(lockq, i)
     ELSE UNCHANGED lockq
  /\ UNCHANGED <<queue, loopVars, registryVars, poolVars, dispatches>>

\* The worker process survives; the first `lost` messages were already handed to gRPC.
StreamBreaks(w, lost) ==
  /\ CloseStream(w)
  /\ out' = [out EXCEPT ![w] = SubSeq(@, lost + 1, Len(@))]
  /\ UNCHANGED running

\* The worker process dies with what it executes and what it had to report.
WorkerCrashes(w) ==
  /\ CloseStream(w)
  /\ out' = [out EXCEPT ![w] = <<>>]
  /\ running' = [running EXCEPT ![w] = <<>>]

\* heartbeat_timeout passes without a heartbeat: at any time once nobody reads the
\* stream, otherwise because the network or the worker is late.
HeartbeatAges(w) ==
  /\ w \in Remote /\ wphase[w] # "none" /\ ~stale[w]
  /\ IF up[w] /\ coro[w].at # "dead" THEN Spend("lapses") ELSE UNCHANGED spent
  /\ stale' = [stale EXCEPT ![w] = TRUE]
  /\ UNCHANGED <<queue, lockq, loopVars, coro, registryVars, wphase, wjob, netVars, dispatches>>

----------------------------------------------------------------------------

LoopStep ==
  \/ CheckHealth \/ BeginPass \/ NoCandidate \/ ReserveRefused \/ ReserveGranted
  \/ Confirmed \/ PassFails \/ EndPass
  \/ \E w \in Worker : FailoverWorker(w) \/ SelectWorker(w)

ReaderStep(w) ==
  \/ ReadRegister(w) \/ RegisterWorker(w) \/ ReadHeartbeat(w)
  \/ ReadProgress(w) \/ ReadCompleted(w) \/ ReadFailed(w)

DispatchStep(s) == DispatchRemote(s) \/ LocalCompletes(s) \/ LocalFails(s)

WorkerStep(w) ==
  \/ ReceiveTask(w)
  \/ \E i \in DOMAIN running[w] :
       ReportProgress(w, i) \/ ReportResult(w, i, "completed") \/ ReportResult(w, i, "failed")

NetStep(w) ==
  \/ Connect(w) \/ WorkerCrashes(w) \/ HeartbeatAges(w) \/ ReaderFails(w)
  \/ \E lost \in 0..Len(out[w]) : StreamBreaks(w, lost)

Next ==
  \/ LoopStep \/ LockGranted
  \/ \E j \in Job : CreateJob(j)
  \/ \E c \in Actor : HandleFailure(c) \/ ReleaseFails(c)
  \/ \E s \in Slot : DispatchStep(s)
  \/ \E w \in Worker : ReaderStep(w) \/ WorkerStep(w) \/ NetStep(w)

Spec == Init /\ [][Next]_vars

(***************************************************************************)
(* Fairness.  A coroutine that can run is run (asyncio), a worker finishes *)
(* what it executes (every wait of the page objects has a timeout) and its *)
(* reconnect loop retries for ever.  Nothing is assumed about the clients, *)
(* the failures and the heartbeats that come late.                         *)
(***************************************************************************)
Fairness ==
  /\ WF_vars(LoopStep) /\ WF_vars(LockGranted)
  /\ \A c \in Actor : WF_vars(HandleFailure(c))
  /\ \A s \in Slot : WF_vars(DispatchStep(s))
  /\ \A w \in Worker : WF_vars(ReaderStep(w)) /\ WF_vars(WorkerStep(w)) /\ WF_vars(Connect(w))

FairSpec == Spec /\ Fairness

----------------------------------------------------------------------------
(* What the coroutines hold between their steps.  These facts, with TypeOK and *)
(* RetryBound, make the inductive invariant of FlowScheduler_proofs.           *)

\* A pass that awaits the database has a spec and a worker in hand.
PassHolds == pc \in {"reserve", "confirm"} => todo # <<>> /\ pick \in Worker

\* A dispatch task or a failure handler knows its job and its worker.
CoroutineHolds ==
  \A c \in Actor : /\ coro[c].at \in {"dispatch", "release", "lock"} => coro[c].job \in Job
                   /\ coro[c].at \in {"dispatch", "release"} => coro[c].worker \in Worker

\* Everybody in line for the lock is suspended there, and stands in line once.
LineHolds ==
  /\ \A i \in DOMAIN lockq : coro[lockq[i]].at = "lock"
  /\ \A i, k \in DOMAIN lockq : lockq[i] = lockq[k] => i = k

\* Every report names a job.
ReportsHold ==
  \A w \in Worker : \A i \in DOMAIN out[w] : out[w][i].type # "register" => out[w][i].job \in Job

\* The part of the inductive invariant that says what each suspended coroutine of the
\* scheduler, the dispatch tasks and the readers may rely on when it resumes.
Holds == PassHolds /\ CoroutineHolds /\ LineHolds /\ ReportsHold

----------------------------------------------------------------------------
(* Properties *)

Occurrences(s, j) == Cardinality({i \in DOMAIN s : s[i] = j})

\* What the scheduler still has to dispatch: a pass owns it until it ends.
Pending == IF LockHeld THEN kept \o todo ELSE queue

\* The number of times j was or will be dispatched.
Tickets(j) ==
  dispatches[j] + Occurrences(Pending, j)
    + Cardinality({c \in Actor : coro[c].at = "lock" /\ coro[c].job = j})

\* The failure handlers run in several coroutines at once, yet the test of
\* retry_count and its increment (scheduler.py:230-231) never exceed max_retries.
RetryBound == \A j \in Job : retries[j] <= MaxRetries

\* However reports, timeouts and broken streams interleave with a pass, a job is
\* queued or dispatched at most once more than it was retried; only a pass that a
\* database error aborts (scheduler.py:141) dispatches a job again without a retry, as
\* often at most as the job stood in the queue.
DispatchBudget ==
  \A j \in Job : Tickets(j) <= (1 + retries[j]) * (1 + spent["dbErrors"])

\* While streams stay up and the database answers, no insertion into the queue is lost
\* to the assignment `self._queue = remaining_queue` (scheduler.py:152) and none is
\* doubled: each one is dispatched or still pending.
NoTicketLost ==
  spent["breaks"] = 0 /\ spent["dbErrors"] = 0 =>
    \A j \in Job : phase[j] # "none" => Tickets(j) = 1 + retries[j]

InFlight(w, j) ==
  \/ \E i \in DOMAIN wq[w] : wq[w][i] = j
  \/ \E i \in DOMAIN running[w] : running[w][i].job = j
  \/ \E i \in DOMAIN out[w] : out[w][i].job = j /\ out[w][i].type \in {"completed", "failed"}

\* While streams stay up and the database answers, somebody is always about to move an
\* unfinished job on: the queue, a coroutine of the Master, a worker or a report on its way.
NoJobForgotten ==
  spent["breaks"] = 0 /\ spent["dbErrors"] = 0 =>
    \A j \in Job : phase[j] # "none" /\ ~finished[j] =>
      \/ Occurrences(Pending, j) > 0
      \/ \E c \in Actor : coro[c].job = j
      \/ \E w \in Worker : InFlight(w, j)

\* No heartbeat came late, no stream broke and no database call raised so far.
Undisturbed == \A b \in {"lapses", "breaks", "dbErrors"} : spent[b] = 0

\* The jobs on their way to, at or back from worker w.
Load(w) ==
  Len(wq[w]) + Len(running[w])
    + Cardinality({i \in DOMAIN out[w] : out[w][i].type \in {"completed", "failed"}})
    + Cardinality({c \in Actor : coro[c].worker = w /\ coro[c].at \in {"dispatch", "release"}})
    + (IF pc = "confirm" /\ pick = w THEN 1 ELSE 0)

\* With timely heartbeats, unbroken streams and a database that answers a worker drives its
\* one browser for one job at a time, and the pool calls it BUSY exactly as long.
OneJobPerWorker ==
  Undisturbed =>
    \A w \in Worker : /\ Load(w) <= 1
                       /\ (Load(w) = 1) <=> (wphase[w] = "BUSY")

\* With timely heartbeats, unbroken streams and a database that answers a job that reached
\* one of FINISHED_PHASES (job.py:46) is never queued, assigned or finished again.
FinishedIsFinal ==
  [][Undisturbed => \A j \in Job : phase[j] \in Final => phase'[j] = phase[j]]_vars

Precedes(a, b, s) == \E i, k \in DOMAIN s : i < k /\ s[i] = a /\ s[k] = b

\* The queue is first in, first out: of two waiting jobs the later one does not get
\* before the earlier one, unless it failed and was put back in front, or a database error
\* aborts a pass that had already dispatched one of them, which stands there once more.
NoOvertaking ==
  [][\A a, b \in Job :
       a # b /\ Precedes(a, b, Pending) /\ ~Precedes(b, a, Pending) /\ Precedes(b, a, Pending')
         => \/ queue' = <<b>> \o queue
            \/ /\ spent'["dbErrors"] > spent["dbErrors"]
               /\ Occurrences(queue, a) > 1 \/ Occurrences(queue, b) > 1]_vars

\* Every job that is submitted ends in a finished state.
EveryJobFinishes == \A j \in Job : phase[j] # "none" ~> finished[j]

\* A job in flight on a worker that drops its connection is failed over, as the
\* docstring of _handle_worker_disconnected has it (scheduler.py:238).
DroppedJobFailsOver ==
  \A j \in Job, w \in Worker :
    wjob[w] = j /\ wphase[w] = "BUSY" /\ ~up[w] ~> phase[j] = "PENDING" \/ finished[j]

\* A worker executes one task after the other in its single browser.
SerialExecution == \A w \in Worker : Len(running[w]) <= 1

\* A worker that is BUSY becomes available again, unless a database call raised: then a
\* worker that was never sent its task, or whose reader ended, stays BUSY.
BusyWorkerReturns ==
  [](spent["dbErrors"] = 0) => \A w \in Worker : wphase[w] = "BUSY" ~> wphase[w] = "IDLE"
=============================================================================
