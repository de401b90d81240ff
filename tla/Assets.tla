------------------------------ MODULE Assets ------------------------------
(***************************************************************************)
(* The asset hub, the broadcasts that push an asset to every worker and    *)
(* the syncer of the workers that pulls it (control/asset_hub.py,          *)
(* services/image_character_service.py, control/server.py's HTTP API,      *)
(* worker/asset_syncer.py, worker/executor.py).                            *)
(*                                                                         *)
(* A store copies the file under its name and the second of the clock and  *)
(* then awaits the INSERT.  A sync awaits the record, then the content,    *)
(* then the browser's upload.  The content of a version is the job that    *)
(* made it; all jobs name one project.  The scheduler is reduced to what   *)
(* it does with the children: a queue, one task at a time per worker,      *)
(* retries, and heartbeats that lapse (FlowScheduler has the rest).  What  *)
(* can go wrong inside the browser is FlowTab's.                           *)
(***************************************************************************)
EXTENDS Integers, SequencesExt

CONSTANTS
  Job,         \* image, character and video jobs
  Worker,      \* the remote workers
  None,        \* no file, no record, no job
  Mix,         \* the kinds of the jobs that are considered together
  MaxRetries,  \* max_retries of a child
  MaxSeconds,  \* bound: seconds the clock advances
  MaxFaults    \* bound: lapsed heartbeats, worker restarts and database errors together

ASSUME NoneAssumption ==
  /\ None \notin Job \cup Worker
  /\ None \notin [file : Nat, version : Job]
ASSUME MixAssumption == Mix \subseteq [Job -> {"image", "character", "video"}]

Fault == {"lapses", "restarts", "dbErrors"}

ASSUME BoundAssumption == {MaxRetries, MaxSeconds, MaxFaults} \subseteq Nat

VARIABLES
  kind,      \* what each job makes; one of Mix
  now,       \* int(time.time()) of the Master
  disk,      \* the hub's directory: the version in file <name>_<second>
  table,     \* the table `assets`
  inserting, \* stores that wait for their INSERT
  parent,    \* the coroutine of an image or character job
  has,       \* the files that the job's browser session left behind
  task,      \* the job of a worker: the children of a broadcast, or the video job
  link,      \* what the pool knows of the worker's connection
  busy,      \* the job the pool has assigned to the worker
  runs,      \* executions on the workers
  synced,    \* AssetSyncer.synced_project_files
  project,   \* the worker's Flow project: uploaded versions of each name, oldest first
  result,    \* broadcast_results of the parent
  log,       \* history: the jobs that registered the name, in the order of the INSERTs
  spoiled,   \* history: names stored twice within a second, or whose record was unreadable
  spent      \* the faults so far, by kind

hubVars == <<now, disk, table, inserting, log>>
parentVars == <<parent, has, result>>
poolVars == <<task, link, busy>>
workerVars == <<runs, synced, project>>
vars == <<kind, hubVars, parentVars, poolVars, workerVars, spoiled, spent>>

Name == {"picture", "portrait", "fullbody", "clip"}
Second == 0..MaxSeconds

\* The names under which a job stores its files, in the order it stores them.
Makes(j) ==
  CASE kind[j] = "image" -> <<"picture">>
    [] kind[j] = "character" -> <<"portrait", "fullbody">>
    [] kind[j] = "video" -> <<"clip">>

IfHas(j, n) == IF n \in has[j] THEN <<n>> ELSE <<>>

\* The names an execution asks the hub for: required_assets of a video; a broadcast
\* of an image names it whether it was stored or not; a character only what it has.
Asks(j) ==
  CASE kind[j] = "image" -> <<"picture">>
    [] kind[j] = "character" -> IfHas(j, "portrait") \o IfHas(j, "fullbody")
    [] kind[j] = "video" -> <<"picture">>

Records == [file : Second, version : Job]
Stores == [job : Job, by : Worker \cup {None}, name : Name, file : Second]
Runs == [job : Job, worker : Worker, try : Nat, at : {"sync", "receive", "upload", "make", "insert"},
         left : Seq(Name), file : Second, version : Job \cup {None},
         batch : SUBSET (Name \X Job), since : Nat]
Tasks == [phase : {"none", "open", "COMPLETED", "FAILED"}, finished : BOOLEAN,
          tickets : Nat, tries : Nat]

HubType ==
  /\ now \in Second
  /\ disk \in [Name -> [Second -> Job \cup {None}]]
  /\ table \in [Name -> Records \cup {None}]
  /\ inserting \subseteq Stores
  /\ log \in [Name -> Seq(Job)]

ParentType ==
  /\ parent \in [Job -> [at : {"none", "store", "insert", "submit", "poll", "COMPLETED", "FAILED"},
                         left : SUBSET (Name \cup Worker)]]
  /\ has \in [Job -> SUBSET Name]
  /\ result \in [Job -> [Worker -> {"none", "success", "failed"}]]

PoolType ==
  /\ task \in [Job -> [Worker -> Tasks]]
  /\ link \in [Worker -> {"unknown", "up", "down"}]
  /\ busy \in [Worker -> Job \cup {None}]

WorkerType ==
  /\ runs \subseteq Runs
  /\ synced \in [Worker -> SUBSET (Name \X Second)]
  /\ project \in [Worker -> [Name -> Seq(Job)]]

CountType == spoiled \subseteq Name /\ spent \in [Fault -> Nat]

TypeOK == kind \in Mix /\ HubType /\ ParentType /\ PoolType /\ WorkerType /\ CountType

NoTask == [phase |-> "none", finished |-> FALSE, tickets |-> 0, tries |-> 0]

Init ==
  /\ kind \in Mix
  /\ now = 0
  /\ disk = [n \in Name |-> [s \in Second |-> None]]
  /\ table = [n \in Name |-> None]
  /\ inserting = {} /\ runs = {} /\ spoiled = {}
  /\ parent = [j \in Job |-> [at |-> "none", left |-> {}]]
  /\ has = [j \in Job |-> {}]
  /\ task = [j \in Job |-> [w \in Worker |-> NoTask]]
  /\ link = [w \in Worker |-> "unknown"]
  /\ busy = [w \in Worker |-> None]
  /\ synced = [w \in Worker |-> {}]
  /\ project = [w \in Worker |-> [n \in Name |-> <<>>]]
  /\ result = [j \in Job |-> [w \in Worker |-> "none"]]
  /\ log = [n \in Name |-> <<>>]
  /\ spent = [f \in Fault |-> 0]

Spend(f) ==
  /\ spent["lapses"] + spent["restarts"] + spent["dbErrors"] < MaxFaults
  /\ spent' = [spent EXCEPT ![f] = @ + 1]

Tick ==
  /\ now < MaxSeconds
  /\ now' = now + 1
  /\ UNCHANGED <<kind, disk, table, inserting, log, parentVars, poolVars, workerVars, spoiled, spent>>

----------------------------------------------------------------------------
(* AssetHub.store_asset *)

\* Hash, copy and build the record: one step of the event loop.  A file of the same
\* name and second is overwritten.
CopyFile(j, by, n) ==
  /\ disk' = [disk EXCEPT ![n][now] = j]
  /\ inserting' = inserting \cup {[job |-> j, by |-> by, name |-> n, file |-> now]}
  /\ spoiled' = IF disk[n][now] = None THEN spoiled ELSE spoiled \cup {n}
  /\ UNCHANGED <<kind, now, table, log>>

\* INSERT ... ON CONFLICT(name) DO UPDATE.
Upsert(s) ==
  /\ table' = [table EXCEPT ![s.name] = [file |-> s.file, version |-> s.job]]
  /\ inserting' = inserting \ {s}
  /\ log' = [log EXCEPT ![s.name] = Append(@, s.job)]
  /\ UNCHANGED <<kind, now, disk, spoiled>>

----------------------------------------------------------------------------
(* The image and character jobs of the Master *)

At(j, at) == parent[j].at = at
GoTo(j, at, left) == parent' = [parent EXCEPT ![j] = [at |-> at, left |-> left]]

\* The browser is done: every file was downloaded, or some or none; or the page
\* object raised.
Made(j, files) ==
  /\ kind[j] # "video" /\ At(j, "none")
  /\ has' = [has EXCEPT ![j] = files]
  /\ GoTo(j, "store", files)
  /\ UNCHANGED <<kind, hubVars, result, poolVars, workerVars, spoiled, spent>>

NotMade(j) ==
  /\ kind[j] # "video" /\ At(j, "none")
  /\ GoTo(j, "FAILED", {})
  /\ UNCHANGED <<kind, hubVars, has, result, poolVars, workerVars, spoiled, spent>>

\* Broken: the record is inserted first and the file copied afterwards.
StoreRecordFirst(j, n) ==
  /\ At(j, "store") /\ n \in parent[j].left
  /\ table' = [table EXCEPT ![n] = [file |-> now, version |-> j]]
  /\ log' = [log EXCEPT ![n] = Append(@, j)]
  /\ inserting' = inserting \cup {[job |-> j, by |-> None, name |-> n, file |-> now]}
  /\ GoTo(j, "insert", parent[j].left \ {n})
  /\ UNCHANGED <<kind, now, disk, has, result, poolVars, workerVars, spoiled, spent>>

\* store_asset of the next file, as far as its await.
Store(j, n) ==
  /\ At(j, "store") /\ n \in parent[j].left
  /\ CopyFile(j, None, n)
  /\ GoTo(j, "insert", parent[j].left \ {n})
  /\ UNCHANGED <<has, result, poolVars, workerVars, spent>>

Stored(s) ==
  /\ s \in inserting /\ s.by = None
  /\ Upsert(s)
  /\ GoTo(s.job, "store", parent[s.job].left)
  /\ UNCHANGED <<has, result, poolVars, workerVars, spent>>

StoreFails(s) ==
  /\ s \in inserting /\ s.by = None
  /\ Spend("dbErrors")
  /\ inserting' = inserting \ {s}
  /\ GoTo(s.job, "FAILED", {})
  /\ UNCHANGED <<kind, now, disk, table, log, has, result, poolVars, workerVars, spoiled>>

\* list_workers without Worker 0: everyone who ever registered, DISCONNECTED or not.
ListWorkers(j) ==
  /\ At(j, "store") /\ parent[j].left = {}
  /\ LET known == {w \in Worker : link[w] # "unknown"}
     IN IF known = {} THEN GoTo(j, "COMPLETED", {}) ELSE GoTo(j, "submit", known)
  /\ UNCHANGED <<kind, hubVars, has, result, poolVars, workerVars, spoiled, spent>>

\* One child: register_job and submit.
SubmitChild(j, w) ==
  /\ At(j, "submit") /\ w \in parent[j].left
  /\ task' = [task EXCEPT ![j][w] = [NoTask EXCEPT !.phase = "open", !.tickets = 1]]
  /\ LET left == parent[j].left \ {w}
     IN GoTo(j, IF left = {} THEN "poll" ELSE "submit", left)
  /\ UNCHANGED <<kind, hubVars, has, result, link, busy, workerVars, spoiled, spent>>

\* register_job raises: the parent fails, the children submitted so far run on.
SubmitFails(j) ==
  /\ At(j, "submit")
  /\ Spend("dbErrors")
  /\ GoTo(j, "FAILED", {})
  /\ UNCHANGED <<kind, hubVars, has, result, poolVars, workerVars, spoiled>>

Children(j) == {w \in Worker : task[j][w].phase # "none"}

\* Broken: the phases are reported as they are.
CollectPhases(j) ==
  /\ result' = [result EXCEPT ![j] = [w \in Worker |-> task[j][w].phase]]
  /\ GoTo(j, "COMPLETED", {})
  /\ UNCHANGED <<kind, hubVars, has, poolVars, workerVars, spoiled, spent>>

\* The results go by the phase, and the parent completes whatever they are.
Collect(j) ==
  /\ result' = [result EXCEPT ![j] = [w \in Worker |->
                  IF w \notin Children(j) THEN "none"
                  ELSE IF task[j][w].phase = "COMPLETED" THEN "success" ELSE "failed"]]
  /\ GoTo(j, "COMPLETED", {})
  /\ UNCHANGED <<kind, hubVars, has, poolVars, workerVars, spoiled, spent>>

AllDone(j) ==
  /\ At(j, "poll") /\ \A w \in Children(j) : task[j][w].finished
  /\ Collect(j)

\* Broken: the poll has no timeout.
PollOn(j) == At(j, "poll") /\ FALSE /\ UNCHANGED vars

\* 120 seconds are over.
PollTimeout(j) ==
  /\ At(j, "poll") /\ \E w \in Children(j) : ~task[j][w].finished
  /\ Collect(j)

----------------------------------------------------------------------------
(* The scheduler, as far as these jobs need it *)

\* create_video: select_best may take any worker; the model draws it at once.
SubmitVideo(j, w) ==
  /\ kind[j] = "video" /\ \A v \in Worker : task[j][v].phase = "none"
  /\ task' = [task EXCEPT ![j][w] = [NoTask EXCEPT !.phase = "open", !.tickets = 1]]
  /\ UNCHANGED <<kind, hubVars, parentVars, link, busy, workerVars, spoiled, spent>>

NewRun(j, w) ==
  [job |-> j, worker |-> w, try |-> task[j][w].tries, at |-> "sync", left |-> Asks(j),
   file |-> 0, version |-> None, batch |-> {}, since |-> Len(log["picture"])]

\* Broken: a BUSY worker gets the task as well.
DispatchToBusy(j, w) ==
  /\ task[j][w].tickets > 0 /\ link[w] = "up"
  /\ busy' = [busy EXCEPT ![w] = j]
  /\ task' = [task EXCEPT ![j][w].tickets = @ - 1, ![j][w].phase = "open"]
  /\ runs' = runs \cup {NewRun(j, w)}
  /\ UNCHANGED <<kind, hubVars, parentVars, link, synced, project, spoiled, spent>>

\* The worker is IDLE: it gets the task and starts it at once.
Dispatch(j, w) ==
  /\ task[j][w].tickets > 0 /\ link[w] = "up" /\ busy[w] = None
  /\ busy' = [busy EXCEPT ![w] = j]
  /\ task' = [task EXCEPT ![j][w].tickets = @ - 1, ![j][w].phase = "open"]
  /\ runs' = runs \cup {NewRun(j, w)}
  /\ UNCHANGED <<kind, hubVars, parentVars, link, synced, project, spoiled, spent>>

\* handle_task_completed, whatever the state of the job and its worker.
Completed(j, w) ==
  /\ task' = [task EXCEPT ![j][w].phase = "COMPLETED", ![j][w].finished = TRUE]
  /\ busy' = [busy EXCEPT ![w] = None]

\* handle_task_failed: a retry while the budget lasts, else FAILED.
Failed(j, w) ==
  /\ task' = IF task[j][w].tries < MaxRetries
             THEN [task EXCEPT ![j][w].tries = @ + 1, ![j][w].tickets = @ + 1]
             ELSE [task EXCEPT ![j][w].phase = "FAILED", ![j][w].finished = TRUE]
  /\ busy' = [busy EXCEPT ![w] = None]

\* A worker registers for the first time, or comes back: it is IDLE.
Join(w) ==
  /\ link[w] # "up"
  /\ link' = [link EXCEPT ![w] = "up"]
  /\ UNCHANGED <<kind, hubVars, parentVars, task, busy, workerVars, spoiled, spent>>

\* Heartbeats come late: the worker's task is failed over while it goes on there.
Lapse(w) ==
  /\ link[w] = "up"
  /\ Spend("lapses")
  /\ link' = [link EXCEPT ![w] = "down"]
  /\ IF busy[w] = None THEN UNCHANGED <<task, busy>> ELSE Failed(busy[w], w)
  /\ UNCHANGED <<kind, hubVars, parentVars, workerVars, spoiled>>

\* The worker process restarts and registers again before its heartbeat is missed:
\* its executions and the syncer's memory are gone, the Flow project is not, and the
\* pool calls it IDLE without failing its task over.
Restart(w) ==
  /\ link[w] = "up"
  /\ Spend("restarts")
  /\ runs' = {r \in runs : r.worker # w}
  /\ synced' = [synced EXCEPT ![w] = {}]
  /\ busy' = [busy EXCEPT ![w] = None]
  /\ UNCHANGED <<kind, hubVars, parentVars, task, link, project, spoiled>>

----------------------------------------------------------------------------
(* An execution on a worker: WorkerExecutor.execute_task with the AssetSyncer *)

Step(r, s) == runs' = (runs \ {r}) \cup {s}

\* GET /assets/{name}, the record.
Ask(r) ==
  /\ r \in runs /\ r.at = "sync" /\ r.left # <<>> /\ table[Head(r.left)] # None
  /\ Step(r, [r EXCEPT !.at = "receive", !.file = table[Head(r.left)].file])
  /\ UNCHANGED <<kind, hubVars, parentVars, poolVars, synced, project, spoiled, spent>>

\* 404 is taken for "likely a character": the name is passed over.
PassOver(r) ==
  /\ r \in runs /\ r.at = "sync" /\ r.left # <<>> /\ table[Head(r.left)] = None
  /\ Step(r, [r EXCEPT !.left = Tail(@)])
  /\ UNCHANGED <<kind, hubVars, parentVars, poolVars, synced, project, spoiled, spent>>

\* The handler answers 404 to any exception, also to a database that is locked.
ReadFails(r) ==
  /\ r \in runs /\ r.at = "sync" /\ r.left # <<>> /\ table[Head(r.left)] # None
  /\ Spend("dbErrors")
  /\ spoiled' = spoiled \cup {Head(r.left)}
  /\ Step(r, [r EXCEPT !.left = Tail(@)])
  /\ UNCHANGED <<kind, hubVars, parentVars, poolVars, synced, project>>

\* Broken: what is in the project already is told by the name alone.
KnownByName(r) == \E s \in Second : <<Head(r.left), s>> \in synced[r.worker]

\* The very file is in the project already.
Known(r) == <<Head(r.left), r.file>> \in synced[r.worker]

\* Broken: the file is noted as synced before the upload.
ReceiveNotes(r) ==
  /\ r \in runs /\ r.at = "receive"
  /\ LET version == disk[Head(r.left)][r.file]
         next == [r EXCEPT !.at = "sync", !.left = Tail(@)]
     IN Step(r, IF kind[r.job] = "character"
                THEN [next EXCEPT !.batch = @ \cup {<<Head(r.left), version>>}]
                ELSE IF Known(r) THEN next
                ELSE [r EXCEPT !.at = "upload", !.version = version])
  /\ synced' = [synced EXCEPT ![r.worker] = @ \cup {<<Head(r.left), r.file>>}]
  /\ UNCHANGED <<kind, hubVars, parentVars, poolVars, project, spoiled, spent>>

\* The content arrives: a character collects it, otherwise it is uploaded unless known.
Receive(r) ==
  /\ r \in runs /\ r.at = "receive"
  /\ LET version == disk[Head(r.left)][r.file]
         next == [r EXCEPT !.at = "sync", !.left = Tail(@)]
     IN Step(r, IF kind[r.job] = "character"
                THEN [next EXCEPT !.batch = @ \cup {<<Head(r.left), version>>}]
                ELSE IF Known(r) THEN next
                ELSE [r EXCEPT !.at = "upload", !.version = version])
  /\ UNCHANGED <<kind, hubVars, parentVars, poolVars, synced, project, spoiled, spent>>

\* The upload thread ends; only then is the file noted as synced.
Upload(r) ==
  /\ r \in runs /\ r.at = "upload"
  /\ project' = [project EXCEPT ![r.worker][Head(r.left)] = Append(@, r.version)]
  /\ synced' = [synced EXCEPT ![r.worker] = @ \cup {<<Head(r.left), r.file>>}]
  /\ Step(r, [r EXCEPT !.at = "sync", !.left = Tail(@), !.version = None])
  /\ UNCHANGED <<kind, hubVars, parentVars, poolVars, spoiled, spent>>

\* broadcast_success of an image.
ImageSynced(r) ==
  /\ r \in runs /\ kind[r.job] = "image" /\ r.at = "sync" /\ r.left = <<>>
  /\ runs' = runs \ {r}
  /\ Completed(r.job, r.worker)
  /\ UNCHANGED <<kind, hubVars, parentVars, link, synced, project, spoiled, spent>>

\* A character is made anew from the files at hand, every time.
CharacterSynced(r) ==
  /\ r \in runs /\ kind[r.job] = "character" /\ r.at = "sync" /\ r.left = <<>>
  /\ project' = [project EXCEPT ![r.worker] = [n \in Name |->
                   IF \E v \in Job : <<n, v>> \in r.batch
                   THEN Append(@[n], CHOOSE v \in Job : <<n, v>> \in r.batch) ELSE @[n]]]
  /\ runs' = runs \ {r}
  /\ Completed(r.job, r.worker)
  /\ UNCHANGED <<kind, hubVars, parentVars, link, synced, spoiled, spent>>

\* The required assets are there: the video is generated and downloaded.
Generate(r) ==
  /\ r \in runs /\ kind[r.job] = "video" /\ r.at = "sync" /\ r.left = <<>>
  /\ Step(r, [r EXCEPT !.at = "make"])
  /\ UNCHANGED <<kind, hubVars, parentVars, poolVars, synced, project, spoiled, spent>>

\* POST /assets/upload: the handler stores the video under the job's name.
UploadResult(r) ==
  /\ r \in runs /\ r.at = "make"
  /\ CopyFile(r.job, r.worker, "clip")
  /\ Step(r, [r EXCEPT !.at = "insert"])
  /\ UNCHANGED <<parentVars, poolVars, synced, project, spent>>

\* The handler goes on whether the worker that posted is still there or not.
ResultStored(s) ==
  /\ s \in inserting /\ s.by # None
  /\ Upsert(s)
  /\ LET mine == {r \in runs : r.job = s.job /\ r.worker = s.by /\ r.at = "insert"}
     IN IF mine = {} THEN UNCHANGED <<runs, task, busy>>
        ELSE \E r \in mine : runs' = runs \ {r} /\ Completed(r.job, r.worker)
  /\ UNCHANGED <<parentVars, link, synced, project, spent>>

\* An exception of the page object, of httpx or, as HTTP 500, of the INSERT.
RunFails(r) ==
  /\ r \in runs /\ r.at \in {"receive", "upload", "make", "insert"}
  /\ runs' = runs \ {r}
  /\ Failed(r.job, r.worker)
  /\ UNCHANGED <<kind, hubVars, parentVars, link, synced, project, spoiled, spent>>

----------------------------------------------------------------------------

ParentStep(j) ==
  \/ \E files \in SUBSET Range(Makes(j)) : Made(j, files)
  \/ NotMade(j) \/ ListWorkers(j) \/ AllDone(j) \/ PollTimeout(j)
  \/ \E n \in Name : Store(j, n)
  \/ \E w \in Worker : SubmitChild(j, w)
  \/ \E s \in inserting : s.job = j /\ Stored(s)

RunStep(r) ==
  \/ Ask(r) \/ PassOver(r) \/ ReadFails(r) \/ Receive(r) \/ Upload(r)
  \/ ImageSynced(r) \/ CharacterSynced(r) \/ Generate(r) \/ UploadResult(r) \/ RunFails(r)

Next ==
  \/ Tick
  \/ \E j \in Job : ParentStep(j) \/ SubmitFails(j)
  \/ \E j \in Job, w \in Worker : SubmitVideo(j, w) \/ Dispatch(j, w)
  \/ \E w \in Worker : Join(w) \/ Lapse(w) \/ Restart(w)
  \/ \E s \in inserting : StoreFails(s) \/ ResultStored(s)
  \/ \E r \in runs : RunStep(r)

Spec == Init /\ [][Next]_vars

\* A coroutine of the Master that can run is run, its browser session ends and the 120
\* seconds of the poll pass.  Nothing is assumed about the workers.
Fairness == \A j \in Job : WF_vars(kind[j] # "video" /\ ParentStep(j))

FairSpec == Spec /\ Fairness

----------------------------------------------------------------------------
(* Properties *)

\* The record of a name leads to a file with the content the record was made for,
\* while no two stores of the name fall into one second (asset_hub.py:75): the file is
\* complete before the record can be seen, and no later store touches it.
RecordIsWhole ==
  \A n \in Name \ spoiled :
    table[n] # None => disk[n][table[n].file] = table[n].version

\* The project of w holds the k-th registered version of n or a later one.
UpToDate(w, n, k) ==
  \E i \in DOMAIN project[w][n], m \in k..Len(log[n]) : project[w][n][i] = log[n][m]

\* A worker whose broadcast "success" the parent reports has what the parent stored, or
\* a newer version, however downloads, retries, restarts and other broadcasts of the
\* name interleave.
SuccessIsSynced ==
  \A j \in Job, w \in Worker : result[j][w] = "success" =>
    \A n \in has[j] \ spoiled :
      \E k \in DOMAIN log[n] : log[n][k] = j /\ UpToDate(w, n, k)

\* When a video is generated its required asset is in the project, at least as new as
\* the hub had it when the task began (the JIT alignment of README.md:20), also if a
\* broadcast of the asset never reached the worker or was forgotten by a restart.
JitAligned ==
  \A r \in runs : r.at = "make" /\ "picture" \notin spoiled /\ r.since > 0 =>
    UpToDate(r.worker, "picture", r.since)

Rank(n, v) == CHOOSE k \in DOMAIN log[n] : log[n][k] = v

\* The newest upload of a name is never an older version than the one before it, while
\* no worker is declared dead that still executes: one task at a time downloads and
\* uploads, and the hub's record only moves to versions registered later.
SyncMovesForward ==
  [][\A w \in Worker, n \in Name \ spoiled' :
       LET old == project[w][n]
           new == project'[w][n]
       IN new # old /\ old # <<>> /\ spent["lapses"] = 0 =>
            Rank(n, Last(old)) <= Rank(n, Last(new))]_vars

\* An image or character job ends, although children may wait for ever for a worker
\* that is DISCONNECTED.
BroadcastEnds == \A j \in Job : At(j, "store") ~> At(j, "COMPLETED") \/ At(j, "FAILED")
=============================================================================
