---------------------------- MODULE Assets_sync ----------------------------
(***************************************************************************)
(* The proof that a broadcast which is reported as a success has reached   *)
(* the worker's project, that a video finds its required asset there, and  *)
(* that the uploads of a name follow the order of its registrations, for   *)
(* every set of jobs and workers, every mix of kinds and every bound.      *)
(***************************************************************************)
EXTENDS Assets_proofs

\* The registrations of n that the project must not stay behind: for a video the last one
\* when its execution began, for the others those of its own job.
Floor(r, n) ==
  {k \in DOMAIN log[n] : IF kind[r.job] = "video" THEN k = r.since ELSE log[n][k] = r.job}

\* Version v of n is new enough for the execution.
Serves(r, n, v) == \E k \in Floor(r, n), m \in DOMAIN log[n] : k <= m /\ log[n][m] = v

\* The names the execution has to bring into the project.
Owes(r) ==
  (IF kind[r.job] = "video" THEN IF r.since > 0 THEN {"picture"} ELSE {} ELSE has[r.job]) \ spoiled

\* It has brought n: a character has it at hand, the others have uploaded it or found
\* it in the project.
Brought(r, n) ==
  IF kind[r.job] = "character" THEN \E v \in Job : <<n, v>> \in r.batch
  ELSE \E i \in DOMAIN project[r.worker][n] : Serves(r, n, project[r.worker][n][i])

\* What is being fetched for n is new enough, and so is what is at hand.
FetchFits(r, n) ==
  /\ Floor(r, n) # {}
  /\ r.at = "receive" /\ n = Head(r.left) => Serves(r, n, disk[n][r.file])
  /\ r.at = "upload" /\ n = Head(r.left) => Serves(r, n, r.version)
  /\ \A v \in Job : <<n, v>> \in r.batch => Serves(r, n, v)

RunSound(r) ==
  /\ r.at \in {"make", "insert"} => kind[r.job] = "video" /\ r.left = <<>>
  /\ r.at = "upload" => kind[r.job] # "character"
  /\ r.at = "upload" /\ Head(r.left) \notin spoiled => r.version = disk[Head(r.left)][r.file]
  /\ \A n \in Owes(r) : FetchFits(r, n) /\ (n \in Range(r.left) \/ Brought(r, n))

\* What the syncer remembers of w is in the project.
SyncSound(w) ==
  \A n \in Name \ spoiled, s \in Second : <<n, s>> \in synced[w] =>
    \E i \in DOMAIN project[w][n] : project[w][n][i] = disk[n][s]

\* The record of a name is the last that was registered.
RecordIsLast ==
  \A n \in Name : IF table[n] = None THEN log[n] = <<>>
                  ELSE log[n] # <<>> /\ log[n][Len(log[n])] = table[n].version

Registered(n, j) == \E k \in DOMAIN log[n] : log[n][k] = j
AllRegistered(j) == \A n \in has[j] : Registered(n, j)

\* The stores of the Master's coroutine that wait for their INSERT.
Waiting(j) == {s \in inserting : s.by = None /\ s.job = j}

\* A coroutine stores one file at a time, and submits only when all are registered.
JobSound(j) ==
  /\ kind[j] = "video" => has[j] = {} /\ At(j, "none")
  /\ has[j] \subseteq Range(Makes(j))
  /\ ~At(j, "insert") => Waiting(j) = {}
  /\ \A s, t \in Waiting(j) : s = t
  /\ At(j, "store") => \A n \in has[j] \ parent[j].left : Registered(n, j)
  /\ At(j, "insert") => \A n \in has[j] \ parent[j].left :
                          Registered(n, j) \/ \E s \in Waiting(j) : s.name = n
  /\ At(j, "submit") \/ At(j, "poll") => AllRegistered(j)

\* The project of w has what j stored, or later versions.
Delivered(j, w) ==
  \A n \in has[j] \ spoiled : \E k \in DOMAIN log[n] : log[n][k] = j /\ UpToDate(w, n, k)

TaskSound(j, w) ==
  /\ task[j][w].phase = "none" => task[j][w].tickets = 0
  /\ task[j][w].phase # "none" =>
       AllRegistered(j) /\ (kind[j] = "video" \/ parent[j].at \notin {"none", "store", "insert"})
  /\ busy[w] = j => task[j][w].phase # "none"
  /\ task[j][w].phase = "COMPLETED" => Delivered(j, w)
  /\ result[j][w] = "success" => Delivered(j, w) /\ parent[j].at = "COMPLETED"

JobsSound == \A j \in Job : JobSound(j)
TasksSound == \A j \in Job, w \in Worker : TaskSound(j, w)
SyncsSound == \A w \in Worker : SyncSound(w)
RunsSound == \A r \in runs : RunSound(r) /\ task[r.job][r.worker].phase # "none"

Sound == RecordIsLast /\ JobsSound /\ TasksSound /\ SyncsSound /\ RunsSound

\* Inductive: a success is the end of an execution, the execution knows since when it
\* asks, and it was started only after the job had registered everything.
SInv == IInv /\ Sound

----------------------------------------------------------------------------
(* The hub's history and the projects only grow *)

Prolongs(s, t) == \A k \in DOMAIN s : k \in DOMAIN t /\ t[k] = s[k]

\* What every step does: kinds stay, names and projects are prolonged, and a file that
\* exists stays as it is unless its name is spoiled.
Grows ==
  /\ kind' = kind /\ spoiled \subseteq spoiled'
  /\ \A n \in Name : Prolongs(log[n], log'[n])
  /\ \A w \in Worker, n \in Name : Prolongs(project[w][n], project'[w][n])
  /\ \A n \in Name \ spoiled', s \in Second : disk[n][s] \in Job => disk'[n][s] = disk[n][s]

\* The types that the proofs below use.
LEMMA HubTypes ==
  ASSUME IInv
  PROVE  /\ \A n \in Name : log[n] \in Seq(Job) /\ DOMAIN log[n] = 1..Len(log[n])
         /\ \A w \in Worker, n \in Name : project[w][n] \in Seq(Job)
         /\ \A n \in Name, s \in Second : disk[n][s] \in Job \cup {None}
         /\ \A n \in Name : table[n] # None => table[n].file \in Second /\ table[n].version \in Job
         /\ spoiled \subseteq Name
  BY LenProperties DEF IInv, TypeOK, HubType, WorkerType, CountType, Records

\* A sequence prolongs itself, and so does what is appended to it.
LEMMA AppendProlongs ==
  ASSUME NEW S, NEW s \in Seq(S), NEW x \in S
  PROVE  /\ Prolongs(s, s) /\ Prolongs(s, Append(s, x))
         /\ Len(s) + 1 \in DOMAIN Append(s, x) /\ Append(s, x)[Len(s) + 1] = x
         /\ Len(Append(s, x)) = Len(s) + 1
  BY AppendProperties, LenProperties DEF Prolongs

\* A registration stays.
LEMMA RegisteredStays ==
  ASSUME IInv, Grows, NEW n \in Name, NEW j \in Job, Registered(n, j)
  PROVE  Registered(n, j)'
  BY DEF Grows, Registered, Prolongs

\* All of them do.
LEMMA AllRegisteredStays ==
  ASSUME IInv, Grows, NEW j \in Job, has'[j] = has[j], AllRegistered(j)
  PROVE  AllRegistered(j)'
<1>1. has[j] \subseteq Name
  BY DEF IInv, TypeOK, ParentType
<1>. QED
  BY <1>1, RegisteredStays DEF AllRegistered

\* What is new enough for an execution stays so.
LEMMA ServesStays ==
  ASSUME IInv, Grows, NEW r \in Runs, NEW n \in Name
  PROVE  /\ Floor(r, n) # {} => Floor(r, n)' # {}
         /\ \A v \in Job : Serves(r, n, v) => Serves(r, n, v)'
<1>1. \A k \in Floor(r, n) : k \in Floor(r, n)' /\ k \in DOMAIN log[n]
  BY DEF Grows, Floor, Prolongs
<1>. QED
  BY <1>1 DEF Serves, Grows, Prolongs

\* A project stays up to date.
LEMMA UpToDateStays ==
  ASSUME IInv, IInv', Grows, NEW w \in Worker, NEW n \in Name, NEW k \in DOMAIN log[n],
         UpToDate(w, n, k)
  PROVE  k \in DOMAIN log'[n] /\ log'[n][k] = log[n][k] /\ UpToDate(w, n, k)'
<1>1. PICK i \in DOMAIN project[w][n], m \in k..Len(log[n]) : project[w][n][i] = log[n][m]
  BY DEF UpToDate
<1>2. DOMAIN log[n] = 1..Len(log[n]) /\ DOMAIN log'[n] = 1..Len(log'[n])
  BY HubTypes, LenProperties DEF IInv, TypeOK, HubType
<1>3. m \in DOMAIN log[n] /\ k <= m
  BY <1>1, <1>2
<1>4. m \in DOMAIN log'[n] /\ log'[n][m] = log[n][m]
  BY <1>3 DEF Grows, Prolongs
<1>5. m \in k..Len(log'[n])
  BY <1>2, <1>3, <1>4
<1>6. i \in DOMAIN project'[w][n] /\ project'[w][n][i] = project[w][n][i]
  BY <1>1 DEF Grows, Prolongs
<1>7. UpToDate(w, n, k)'
  BY <1>1, <1>4, <1>5, <1>6 DEF UpToDate
<1>. QED
  BY <1>7 DEF Grows, Prolongs

\* What was delivered stays delivered.
LEMMA DeliveredStays ==
  ASSUME IInv, IInv', Grows, NEW j \in Job, NEW w \in Worker, has'[j] = has[j], Delivered(j, w)
  PROVE  Delivered(j, w)'
<1>1. has[j] \subseteq Name /\ spoiled \subseteq spoiled'
  BY DEF IInv, TypeOK, ParentType, Grows
<1>. QED
  BY <1>1, UpToDateStays DEF Delivered

\* What is known of an execution stays true, whatever the others do.
LEMMA RunSoundStays ==
  ASSUME IInv, Grows, NEW r \in Runs, RunHolds(r), RunSound(r), has'[r.job] = has[r.job]
  PROVE  RunSound(r)'
<1>1. r.job \in Job /\ r.worker \in Worker /\ r.left \in Seq(Name) /\ r.file \in Second
  BY DEF Runs
<1>2. kind' = kind /\ spoiled \subseteq spoiled' /\ Owes(r)' \subseteq Owes(r) /\ Owes(r) \subseteq Name
  BY <1>1 DEF Grows, Owes, IInv, TypeOK, ParentType, Name
<1>3. r.at \in {"receive", "upload"} => r.left # <<>> /\ Head(r.left) \in Name
  BY <1>1, HeadTailProperties DEF RunHolds
<1>4. r.at = "receive" /\ Head(r.left) \notin spoiled' =>
        disk[Head(r.left)][r.file] \in Job /\ disk'[Head(r.left)][r.file] = disk[Head(r.left)][r.file]
  BY <1>1, <1>3 DEF Grows, RunHolds
<1>5. r.at = "upload" /\ Head(r.left) \notin spoiled' =>
        r.version \in Job /\ r.version = disk'[Head(r.left)][r.file]
  BY <1>1, <1>2, <1>3 DEF Grows, RunHolds, RunSound
<1>6. ASSUME NEW n \in Owes(r)' PROVE FetchFits(r, n)' /\ (n \in Range(r.left) \/ Brought(r, n)')
  <2>1. n \in Owes(r) /\ n \in Name /\ n \notin spoiled'
    BY <1>2, <1>6 DEF Owes
  <2>2. FetchFits(r, n) /\ (n \in Range(r.left) \/ Brought(r, n))
    BY <2>1 DEF RunSound
  <2>3. FetchFits(r, n)'
    BY <1>4, <1>5, <2>1, <2>2, ServesStays, RunHolds(r) DEF FetchFits, RunHolds
  <2>4. Brought(r, n) => Brought(r, n)'
    <3>1. \A i \in DOMAIN project[r.worker][n] :
            /\ i \in DOMAIN project'[r.worker][n] /\ project'[r.worker][n][i] = project[r.worker][n][i]
            /\ project[r.worker][n][i] \in Job
      BY <1>1, <2>1, HubTypes, ElementOfSeq DEF Grows, Prolongs
    <3>2. \A v \in Job : Serves(r, n, v) => Serves(r, n, v)'
      BY <2>1, ServesStays
    <3>. QED
      BY <1>2, <3>1, <3>2 DEF Brought
  <2>. QED
    BY <2>2, <2>3, <2>4
<1>. QED
  BY <1>2, <1>5, <1>6 DEF RunSound

\* What the syncer remembers stays true.
LEMMA SyncSoundStays ==
  ASSUME IInv, Grows, NEW w \in Worker, SyncSound(w), synced'[w] \subseteq synced[w]
  PROVE  SyncSound(w)'
<1>. SUFFICES ASSUME NEW n \in Name \ spoiled', NEW s \in Second, <<n, s>> \in synced'[w]
              PROVE  \E i \in DOMAIN project'[w][n] : project'[w][n][i] = disk'[n][s]
  BY DEF SyncSound
<1>1. n \in Name \ spoiled /\ <<n, s>> \in synced[w]
  BY DEF Grows
<1>2. PICK i \in DOMAIN project[w][n] : project[w][n][i] = disk[n][s]
  BY <1>1 DEF SyncSound
<1>3. project[w][n][i] \in Job
  BY <1>2, HubTypes, ElementOfSeq
<1>. QED
  BY <1>2, <1>3 DEF Grows, Prolongs

----------------------------------------------------------------------------
(* What a step leaves alone *)

\* A job whose own state stays is as sound as before.
LEMMA JobSoundStays ==
  ASSUME IInv, IInv', Grows, NEW j \in Job, JobSound(j),
         parent'[j] = parent[j], has'[j] = has[j], Waiting(j)' = Waiting(j)
  PROVE  JobSound(j)'
<1>1. kind' = kind /\ Makes(j)' = Makes(j) /\ has[j] \subseteq Name
  BY DEF Grows, IInv, TypeOK, ParentType, Makes
<1>2. AllRegistered(j) => AllRegistered(j)'
  BY AllRegisteredStays
<1>3. \A n \in has[j] : Registered(n, j) => Registered(n, j)'
  BY <1>1, RegisteredStays
<1>4. kind'[j] = "video" => has'[j] = {} /\ At(j, "none")'
  BY <1>1 DEF JobSound, At
<1>5. has'[j] \subseteq Range(Makes(j)')
  BY <1>1 DEF JobSound
<1>6. (~At(j, "insert"))' => Waiting(j)' = {}
  BY DEF JobSound, At
<1>7. \A s, t \in Waiting(j)' : s = t
  BY DEF JobSound
<1>8. At(j, "store")' => \A n \in has'[j] \ parent'[j].left : Registered(n, j)'
  BY <1>3 DEF JobSound, At
<1>9. At(j, "insert")' => \A n \in has'[j] \ parent'[j].left :
        Registered(n, j)' \/ \E s \in Waiting(j)' : s.name = n
  <2>. HIDE DEF Waiting
  <2>. QED
    BY <1>3 DEF JobSound, At
<1>10. At(j, "submit")' \/ At(j, "poll")' => AllRegistered(j)'
  BY <1>2 DEF JobSound, At
<1>. QED
  BY <1>4, <1>5, <1>6, <1>7, <1>8, <1>9, <1>10 DEF JobSound

\* What a step does not touch stays sound.
LEMMA Untouched ==
  ASSUME IInv, IInv', Sound, Grows
  PROVE  /\ UNCHANGED <<table, log>> => RecordIsLast'
         /\ UNCHANGED <<inserting, parentVars>> => JobsSound'
         /\ UNCHANGED <<parentVars, poolVars>> => TasksSound'
         /\ UNCHANGED synced => SyncsSound'
<1>1. UNCHANGED <<table, log>> => RecordIsLast'
  BY DEF Sound, RecordIsLast
<1>2. UNCHANGED <<inserting, parentVars>> => JobsSound'
  <2>. SUFFICES ASSUME UNCHANGED <<inserting, parentVars>>, NEW j \in Job PROVE JobSound(j)'
    BY DEF JobsSound
  <2>1. UNCHANGED <<parent, has>> /\ Waiting(j)' = Waiting(j) /\ JobSound(j)
    BY DEF parentVars, Waiting, Sound, JobsSound
  <2>. QED
    BY <2>1, JobSoundStays
<1>3. UNCHANGED <<parentVars, poolVars>> => TasksSound'
  <2>. SUFFICES ASSUME UNCHANGED <<parentVars, poolVars>>, NEW j \in Job, NEW w \in Worker
                PROVE  TaskSound(j, w)'
    BY DEF TasksSound
  <2>1. kind' = kind /\ UNCHANGED <<parent, has, result, task, busy>>
    BY DEF Grows, parentVars, poolVars
  <2>2. AllRegistered(j) => AllRegistered(j)'
    BY <2>1, AllRegisteredStays
  <2>3. Delivered(j, w) => Delivered(j, w)'
    BY <2>1, DeliveredStays
  <2>. QED
    BY <2>1, <2>2, <2>3 DEF Sound, TasksSound, TaskSound
<1>4. UNCHANGED synced => SyncsSound'
  BY SyncSoundStays DEF Sound, SyncsSound
<1>. QED
  BY <1>1, <1>2, <1>3, <1>4

\* Executions that go on are as sound as before.
LEMMA RunsUntouched ==
  ASSUME IInv, Sound, Grows, runs' \subseteq runs,
         \A i \in Job, v \in Worker : task[i][v].phase # "none" =>
           task'[i][v].phase # "none" /\ has'[i] = has[i]
  PROVE  RunsSound'
<1>1. \A r \in runs : r \in Runs /\ RunHolds(r) /\ r.job \in Job /\ r.worker \in Worker
  BY RunType, Zenon DEF IInv, RunsHold
<1>. SUFFICES ASSUME NEW r \in runs'
              PROVE  RunSound(r)' /\ task'[r.job][r.worker].phase # "none"
  BY DEF RunsSound
<1>2. r \in runs /\ RunSound(r) /\ task[r.job][r.worker].phase # "none"
  BY DEF Sound, RunsSound
<1>3. has'[r.job] = has[r.job] /\ task'[r.job][r.worker].phase # "none"
  BY <1>1, <1>2
<1>. QED
  BY <1>1, <1>2, <1>3, RunSoundStays

\* One execution goes on as q, the others as before.
LEMMA RunMoves ==
  ASSUME IInv, Sound, Grows, NEW r \in runs, NEW q, UNCHANGED <<has, task>>, Step(r, q),
         q.job = r.job, q.worker = r.worker, RunSound(q)'
  PROVE  RunsSound'
<1>1. \A p \in runs : p \in Runs /\ RunHolds(p) /\ RunSound(p) /\ task[p.job][p.worker].phase # "none"
  BY RunType, Zenon DEF IInv, RunsHold, Sound, RunsSound
<1>2. \A p \in runs : RunSound(p)'
  BY <1>1, RunSoundStays
<1>3. \A p \in runs' : p = q \/ p \in runs
  BY DEF Step
<1>. QED
  BY <1>1, <1>2, <1>3 DEF RunsSound

\* The jobs other than j stay as they are.
LEMMA JobMoves ==
  ASSUME IInv, IInv', Sound, Grows, NEW j \in Job, JobSound(j)',
         \A i \in Job \ {j} : parent'[i] = parent[i] /\ has'[i] = has[i] /\ Waiting(i)' = Waiting(i)
  PROVE  JobsSound'
<1>. SUFFICES ASSUME NEW i \in Job \ {j} PROVE JobSound(i)'
  BY DEF JobsSound
<1>1. JobSound(i)
  BY DEF Sound, JobsSound
<1>. QED
  BY <1>1, JobSoundStays

\* A job that has not submitted yet has no tasks and no results to be wrong about.
LEMMA Unsubmitted ==
  ASSUME IInv, IInv', Sound, Grows, NEW j \in Job, kind[j] # "video",
         parent[j].at \in {"none", "store", "insert"}, UNCHANGED <<result, poolVars, runs>>,
         \A i \in Job \ {j} : parent'[i] = parent[i] /\ has'[i] = has[i]
  PROVE  TasksSound' /\ RunsSound'
<1>1. kind' = kind /\ UNCHANGED <<result, task, busy>>
  BY DEF Grows, poolVars
<1>2. \A i \in Job, v \in Worker : TaskSound(i, v)
  BY DEF Sound, TasksSound
<1>3. \A v \in Worker : task[j][v].phase = "none" /\ result[j][v] # "success"
  BY <1>2 DEF TaskSound
<1>4. \A v \in Worker : TaskSound(j, v)'
  BY <1>1, <1>2, <1>3 DEF TaskSound
<1>5. ASSUME NEW i \in Job \ {j}, NEW v \in Worker PROVE TaskSound(i, v)'
  <2>1. AllRegistered(i) => AllRegistered(i)'
    BY AllRegisteredStays
  <2>2. Delivered(i, v) => Delivered(i, v)'
    BY DeliveredStays
  <2>. QED
    BY <1>1, <1>2, <2>1, <2>2 DEF TaskSound
<1>6. RunsSound'
  BY <1>1, <1>3, RunsUntouched
<1>. QED
  BY <1>4, <1>5, <1>6 DEF TasksSound

\* The pool changes the task of j on w, and whom workers are busy with.
LEMMA TaskMoves ==
  ASSUME IInv, IInv', Sound, Grows, UNCHANGED parentVars, NEW j \in Job, NEW w \in Worker,
         task[j][w].phase # "none" \/ kind[j] = "video",
         task'[j][w].phase # "none",
         task'[j][w].phase = "COMPLETED" => Delivered(j, w)',
         \A i \in Job, v \in Worker : i # j \/ v # w => task'[i][v] = task[i][v],
         \A v \in Worker : busy'[v] \in {busy[v], None} \/ (v = w /\ busy'[v] = j)
  PROVE  TasksSound'
<1>. SUFFICES ASSUME NEW i \in Job, NEW v \in Worker PROVE TaskSound(i, v)'
  BY DEF TasksSound
<1>1. kind' = kind /\ UNCHANGED <<parent, has, result>> /\ i # None
  BY NoneAssumption DEF Grows, parentVars
<1>2. AllRegistered(i) => AllRegistered(i)'
  BY <1>1, AllRegisteredStays
<1>3. Delivered(i, v) => Delivered(i, v)'
  BY <1>1, DeliveredStays
<1>4. TaskSound(i, v)
  BY DEF Sound, TasksSound
<1>5. kind[i] = "video" => AllRegistered(i)'
  BY <1>1 DEF AllRegistered, Sound, JobsSound, JobSound
<1>6. CASE i = j /\ v = w
  BY <1>1, <1>2, <1>3, <1>4, <1>5, <1>6 DEF TaskSound
<1>7. CASE i # j \/ v # w
  BY <1>1, <1>2, <1>3, <1>4, <1>7 DEF TaskSound
<1>. QED
  BY <1>6, <1>7

----------------------------------------------------------------------------
(* The pool *)

\* A step that registers, copies and uploads nothing.
LEMMA Still ==
  ASSUME IInv, UNCHANGED <<kind, disk, log, project>>, spoiled \subseteq spoiled'
  PROVE  Grows
  BY AppendProlongs, HubTypes DEF Grows, Prolongs

\* The tasks are records, one for each job and worker.
LEMMA TaskIs ==
  ASSUME IInv, NEW j \in Job, NEW w \in Worker
  PROVE  /\ task \in [Job -> [Worker -> Tasks]] /\ busy \in [Worker -> Job \cup {None}]
         /\ task[j][w] \in Tasks
  BY DEF IInv, TypeOK, PoolType

\* handle_task_completed and handle_task_failed touch one task.
LEMMA EndedTask ==
  ASSUME IInv, NEW j \in Job, NEW w \in Worker, Completed(j, w) \/ Failed(j, w)
  PROVE  /\ \A i \in Job, v \in Worker : i # j \/ v # w => task'[i][v] = task[i][v]
         /\ \A v \in Worker : busy'[v] \in {busy[v], None}
         /\ task'[j][w].phase \in {task[j][w].phase, "FAILED", "COMPLETED"}
         /\ Failed(j, w) => task'[j][w].phase \in {task[j][w].phase, "FAILED"}
<1>1. task \in [Job -> [Worker -> Tasks]] /\ busy \in [Worker -> Job \cup {None}]
  BY TaskIs
<1>2. busy' = [busy EXCEPT ![w] = None]
  BY DEF Completed, Failed
<1>3. \A v \in Worker : busy'[v] \in {busy[v], None}
  BY <1>1, <1>2
<1>4. CASE Completed(j, w) /\ ~Failed(j, w)
  BY <1>1, <1>3, <1>4 DEF Completed, Tasks
<1>5. CASE Failed(j, w)
  <2>1. CASE task[j][w].tries < MaxRetries
    BY <1>1, <1>3, <1>5, <2>1 DEF Failed, Tasks
  <2>2. CASE ~(task[j][w].tries < MaxRetries)
    BY <1>1, <1>3, <1>5, <2>2 DEF Failed, Tasks
  <2>. QED
    BY <2>1, <2>2
<1>. QED
  BY <1>4, <1>5

\* A task that ends well was delivered, and one that fails claims nothing.
LEMMA Ends ==
  ASSUME IInv, IInv', Sound, Grows, UNCHANGED parentVars, NEW j \in Job, NEW w \in Worker,
         task[j][w].phase # "none",
         (Completed(j, w) /\ Delivered(j, w)') \/ Failed(j, w), runs' \subseteq runs
  PROVE  TasksSound' /\ RunsSound'
<1>1. /\ \A i \in Job, v \in Worker : i # j \/ v # w => task'[i][v] = task[i][v]
      /\ \A v \in Worker : busy'[v] \in {busy[v], None}
      /\ task'[j][w].phase \in {task[j][w].phase, "FAILED", "COMPLETED"}
      /\ Failed(j, w) => task'[j][w].phase \in {task[j][w].phase, "FAILED"}
  BY EndedTask
<1>2. task'[j][w].phase # "none"
  BY <1>1
<1>3. task'[j][w].phase = "COMPLETED" => Delivered(j, w)'
  <2>1. task[j][w].phase = "COMPLETED" => Delivered(j, w)
    BY DEF Sound, TasksSound, TaskSound
  <2>2. Delivered(j, w) => Delivered(j, w)'
    BY DeliveredStays DEF parentVars
  <2>. QED
    BY <1>1, <2>1, <2>2
<1>4. TasksSound'
  BY <1>1, <1>2, <1>3, TaskMoves
<1>5. RunsSound'
  BY <1>1, <1>2, RunsUntouched DEF parentVars
<1>. QED
  BY <1>4, <1>5

\* A video job has nothing to broadcast, so it owes no worker anything.
LEMMA VideoOwesNothing ==
  ASSUME Sound, NEW j \in Job, kind[j] = "video"
  PROVE  has[j] = {} /\ AllRegistered(j) /\ \A w \in Worker : Delivered(j, w)
  BY DEF Sound, JobsSound, JobSound, AllRegistered, Delivered

\* SubmitVideo keeps it all.
LEMMA SubmitVideoSound ==
  ASSUME IInv, IInv', Sound, NEW j \in Job, NEW w \in Worker, SubmitVideo(j, w)
  PROVE  Sound'
<1>. DEFINE open == [NoTask EXCEPT !.phase = "open", !.tickets = 1]
<1>1. task \in [Job -> [Worker -> Tasks]] /\ task' = [task EXCEPT ![j][w] = open]
  BY TaskIs DEF SubmitVideo
<1>2. open.phase = "open"
  BY DEF NoTask
<1>3. task'[j][w].phase = "open" /\ \A i \in Job, v \in Worker : i # j \/ v # w => task'[i][v] = task[i][v]
  <2>. HIDE DEF open
  <2>. QED
    BY <1>1, <1>2
<1>4. /\ UNCHANGED parentVars /\ UNCHANGED <<inserting, table, log, synced, runs, busy>>
      /\ Grows /\ kind[j] = "video" /\ UNCHANGED has
  BY Still DEF SubmitVideo, hubVars, workerVars, parentVars
<1>5. TasksSound'
  BY <1>3, <1>4, TaskMoves
<1>6. \A i \in Job, v \in Worker : task[i][v].phase # "none" => task'[i][v].phase # "none" /\ has'[i] = has[i]
  BY <1>3, <1>4
<1>7. RunsSound'
  BY <1>4, <1>6, RunsUntouched
<1>. QED
  BY <1>4, <1>5, <1>7, Untouched DEF Sound

\* Join keeps it all.
LEMMA JoinSound ==
  ASSUME IInv, IInv', Sound, NEW w \in Worker, Join(w)
  PROVE  Sound'
<1>1. /\ UNCHANGED parentVars /\ UNCHANGED <<inserting, table, log, synced, runs, task, busy, has, result, parent>>
      /\ Grows
  BY Still DEF Join, hubVars, workerVars, parentVars
<1>2. RunsSound'
  BY <1>1, RunsUntouched
<1>3. TasksSound'
  <2>1. kind' = kind
    BY DEF Join
  <2>2. \A i \in Job : AllRegistered(i) => AllRegistered(i)'
    BY <1>1, AllRegisteredStays
  <2>3. \A i \in Job, v \in Worker : Delivered(i, v) => Delivered(i, v)'
    BY <1>1, DeliveredStays
  <2>. QED
    BY <1>1, <2>1, <2>2, <2>3 DEF Sound, TasksSound, TaskSound
<1>. QED
  BY <1>1, <1>2, <1>3, Untouched DEF Sound

\* Lapse keeps it all: a task that is failed over was submitted.
LEMMA LapseSound ==
  ASSUME IInv, IInv', Sound, NEW w \in Worker, Lapse(w)
  PROVE  Sound'
<1>1. /\ UNCHANGED parentVars /\ UNCHANGED <<inserting, table, log, synced, runs, has, result, parent>>
      /\ Grows /\ kind' = kind
  BY Still DEF Lapse, hubVars, workerVars, parentVars
<1>2. TasksSound' /\ RunsSound'
  <2>1. CASE busy[w] = None
    <3>1. UNCHANGED <<task, busy>>
      BY <2>1 DEF Lapse
    <3>2. \A i \in Job : AllRegistered(i) => AllRegistered(i)'
      BY <1>1, AllRegisteredStays
    <3>3. \A i \in Job, v \in Worker : Delivered(i, v) => Delivered(i, v)'
      BY <1>1, DeliveredStays
    <3>4. TasksSound'
      BY <1>1, <3>1, <3>2, <3>3 DEF Sound, TasksSound, TaskSound
    <3>. QED
      BY <1>1, <3>1, <3>4, RunsUntouched
  <2>2. CASE busy[w] # None
    <3>1. busy[w] \in Job /\ Failed(busy[w], w)
      BY <2>2, TaskIs DEF Lapse, IInv, TypeOK, PoolType
    <3>2. task[busy[w]][w].phase # "none"
      BY <3>1 DEF Sound, TasksSound, TaskSound
    <3>. QED
      BY <1>1, <3>1, <3>2, Ends
  <2>. QED
    BY <2>1, <2>2
<1>. QED
  BY <1>1, <1>2, Untouched DEF Sound

\* Restart keeps it all: what the syncer forgets it will look up again.
LEMMA RestartSound ==
  ASSUME IInv, IInv', Sound, NEW w \in Worker, Restart(w)
  PROVE  Sound'
<1>1. /\ UNCHANGED parentVars /\ UNCHANGED <<inserting, table, log, task, has, result, parent>>
      /\ Grows /\ kind' = kind /\ runs' \subseteq runs
  BY Still DEF Restart, hubVars, workerVars, parentVars
<1>2. busy \in [Worker -> Job \cup {None}] /\ synced \in [Worker -> SUBSET (Name \X Second)]
  BY DEF IInv, TypeOK, PoolType, WorkerType
<1>3. \A v \in Worker : synced'[v] \subseteq synced[v] /\ busy'[v] \in {busy[v], None}
  BY <1>2 DEF Restart
<1>4. SyncsSound'
  BY <1>1, <1>3, SyncSoundStays DEF Sound, SyncsSound
<1>5. TasksSound'
  <2>1. \A i \in Job : AllRegistered(i) => AllRegistered(i)'
    BY <1>1, AllRegisteredStays
  <2>2. \A i \in Job, v \in Worker : Delivered(i, v) => Delivered(i, v)'
    BY <1>1, DeliveredStays
  <2>3. \A i \in Job, v \in Worker : busy'[v] = i => busy[v] = i
    BY <1>3, NoneAssumption
  <2>. QED
    BY <1>1, <2>1, <2>2, <2>3 DEF Sound, TasksSound, TaskSound
<1>6. RunsSound'
  BY <1>1, RunsUntouched
<1>. QED
  BY <1>1, <1>4, <1>5, <1>6, Untouched DEF Sound

----------------------------------------------------------------------------
(* Executions *)

\* What an execution asks for contains what it owes.
LEMMA AsksEnough ==
  ASSUME IInv, Sound, NEW j \in Job
  PROVE  /\ kind[j] # "video" => has[j] \subseteq Range(Asks(j))
         /\ kind[j] = "video" => "picture" \in Range(Asks(j))
<1>1. kind[j] \in {"image", "character", "video"}
  BY MixAssumption DEF IInv, TypeOK
<1>2. has[j] \subseteq Range(Makes(j))
  BY DEF Sound, JobsSound, JobSound
<1>3. CASE kind[j] \in {"image", "video"}
  BY <1>2, <1>3 DEF Asks, Makes, Range
<1>4. CASE kind[j] = "character"
  <2>1. has[j] \subseteq {"portrait", "fullbody"}
    BY <1>2, <1>4 DEF Makes, Range
  <2>2. Asks(j) = IfHas(j, "portrait") \o IfHas(j, "fullbody")
    BY <1>4 DEF Asks
  <2>3. \A n \in Name : IfHas(j, n) \in Seq(Name) /\ Range(IfHas(j, n)) = {n} \cap has[j]
    <3>. SUFFICES ASSUME NEW n \in Name
                  PROVE  IfHas(j, n) \in Seq(Name) /\ Range(IfHas(j, n)) = {n} \cap has[j]
      OBVIOUS
    <3>1. CASE n \in has[j]
      BY <3>1 DEF IfHas, Range
    <3>2. CASE n \notin has[j]
      BY <3>2 DEF IfHas, Range
    <3>. QED
      BY <3>1, <3>2
  <2>4. Range(Asks(j)) = Range(IfHas(j, "portrait")) \cup Range(IfHas(j, "fullbody"))
    BY <2>2, <2>3, RangeConcatenation DEF Name
  <2>5. "portrait" \in Name /\ "fullbody" \in Name
    BY DEF Name
  <2>. QED
    BY <1>4, <2>1, <2>3, <2>4, <2>5
<1>. QED
  BY <1>1, <1>3, <1>4

\* A new execution of a submitted job finds everything registered.
LEMMA NewRunSound ==
  ASSUME IInv, Sound, NEW j \in Job, NEW w \in Worker, AllRegistered(j)
  PROVE  RunSound(NewRun(j, w))
<1>. DEFINE q == NewRun(j, w)
<1>1. /\ q.job = j /\ q.at = "sync" /\ q.left = Asks(j) /\ q.batch = {}
      /\ q.since = Len(log["picture"])
  BY DEF NewRun
<1>2. "picture" \in Name /\ Len(log["picture"]) \in Nat
  BY HubTypes, LenProperties DEF Name
<1>. HIDE DEF q
<1>3. ASSUME NEW n \in Owes(q) PROVE Floor(q, n) # {} /\ n \in Range(q.left)
  <2>1. CASE kind[j] = "video"
    <3>1. n = "picture" /\ q.since > 0
      BY <1>1, <1>3, <2>1 DEF Owes
    <3>2. q.since \in DOMAIN log["picture"]
      BY <1>1, <1>2, <3>1, HubTypes
    <3>. QED
      BY <1>1, <2>1, <3>1, <3>2, AsksEnough DEF Floor
  <2>2. CASE kind[j] # "video"
    <3>1. n \in has[j]
      BY <1>1, <1>3, <2>2 DEF Owes
    <3>. QED
      BY <1>1, <2>2, <3>1, AsksEnough DEF Floor, AllRegistered, Registered
  <2>. QED
    BY <2>1, <2>2
<1>4. RunSound(q)
  BY <1>1, <1>3 DEF RunSound, FetchFits
<1>. QED
  BY <1>4 DEF q

\* Dispatch keeps it all.
LEMMA DispatchSound ==
  ASSUME IInv, IInv', Sound, NEW j \in Job, NEW w \in Worker, Dispatch(j, w)
  PROVE  Sound'
<1>1. /\ UNCHANGED parentVars /\ UNCHANGED <<inserting, table, log, synced, has, result, parent>>
      /\ Grows /\ UNCHANGED <<kind, disk, log, project, has, spoiled>>
      /\ runs' = runs \cup {NewRun(j, w)}
  BY Still DEF Dispatch, hubVars, parentVars
<1>2. task[j][w].tickets > 0 /\ task[j][w].phase # "none"
  BY DEF Dispatch, Sound, TasksSound, TaskSound
<1>3. task \in [Job -> [Worker -> Tasks]] /\ busy \in [Worker -> Job \cup {None}]
  BY TaskIs
<1>4. /\ task'[j][w].phase = "open"
      /\ \A i \in Job, v \in Worker : i # j \/ v # w => task'[i][v] = task[i][v]
      /\ \A v \in Worker : busy'[v] \in {busy[v], None} \/ (v = w /\ busy'[v] = j)
  BY <1>3 DEF Dispatch, Tasks
<1>5. TasksSound'
  BY <1>1, <1>2, <1>4, TaskMoves
<1>6. \A i \in Job, v \in Worker : task[i][v].phase # "none" => task'[i][v].phase # "none"
  BY <1>4
<1>7. \A p \in runs : /\ p \in Runs /\ RunHolds(p) /\ RunSound(p)
                      /\ task[p.job][p.worker].phase # "none" /\ p.job \in Job /\ p.worker \in Worker
  BY RunType, Zenon DEF IInv, RunsHold, Sound, RunsSound
<1>8. ASSUME NEW q, q = NewRun(j, w) PROVE RunSound(q)' /\ task'[q.job][q.worker].phase # "none"
  <2>1. AllRegistered(j)
    BY <1>2 DEF Sound, TasksSound, TaskSound
  <2>2. RunSound(q) /\ q \in Runs /\ RunHolds(q) /\ q.job = j /\ q.worker = w
    BY <1>8, <2>1, NewRunSound, NewRunType DEF NewRun
  <2>. QED
    BY <1>1, <1>4, <2>2, RunSoundStays
<1>9. RunsSound'
  <2>. SUFFICES ASSUME NEW p \in runs' PROVE RunSound(p)' /\ task'[p.job][p.worker].phase # "none"
    BY DEF RunsSound
  <2>1. CASE p \in runs
    BY <1>1, <1>6, <1>7, <2>1, RunSoundStays
  <2>2. CASE p = NewRun(j, w)
    BY <1>8, <2>2
  <2>. QED
    BY <1>1, <2>1, <2>2
<1>. QED
  BY <1>1, <1>5, <1>9, Untouched DEF Sound

\* The first of a sequence, or one of the others.
LEMMA HeadOrTail ==
  ASSUME NEW S, NEW s \in Seq(S), s # <<>>, NEW x \in Range(s)
  PROVE  x = Head(s) \/ x \in Range(Tail(s))
<1>1. PICK i \in DOMAIN s : s[i] = x
  BY DEF Range
<1>2. i \in 1..Len(s) /\ Head(s) = s[1] /\ DOMAIN s = 1..Len(s)
  BY <1>1, LenProperties
<1>3. i # 1 => i - 1 \in DOMAIN Tail(s) /\ Tail(s)[i - 1] = s[i]
  BY <1>2
<1>. QED
  BY <1>1, <1>2, <1>3 DEF Range

\* An execution goes on to its next name, which it has brought or need not bring.
LEMMA NextNameSound ==
  ASSUME IInv, IInv', Sound, Grows, UNCHANGED has, NEW r \in runs, NEW q,
         q.job = r.job, q.worker = r.worker, q.since = r.since, q.at = "sync",
         r.left # <<>>, q.left = Tail(r.left), r.at \notin {"make", "insert"},
         \A n, v : <<n, v>> \in q.batch => <<n, v>> \in r.batch \/ (n = Head(r.left) /\ (n \in Owes(r)' => Serves(r, n, v)')),
         r.batch \subseteq q.batch,
         Head(r.left) \in Owes(r)' => Brought(q, Head(r.left))'
  PROVE  RunSound(q)'
<1>1. r \in Runs /\ RunHolds(r) /\ RunSound(r)'
  BY RunType, RunSoundStays, Zenon DEF IInv, RunsHold, Sound, RunsSound
<1>2. r.left \in Seq(Name)
  BY <1>1 DEF Runs
<1>3. Owes(q)' = Owes(r)'
  BY DEF Owes
<1>4. \A n : Floor(q, n)' = Floor(r, n)'
  BY DEF Floor
<1>5. \A n, v : Serves(q, n, v)' <=> Serves(r, n, v)'
  BY <1>4 DEF Serves
<1>6. ASSUME NEW n \in Owes(r)' PROVE FetchFits(q, n)' /\ (n \in Range(q.left) \/ Brought(q, n)')
  <2>1. FetchFits(r, n)' /\ (n \in Range(r.left) \/ Brought(r, n)')
    BY <1>1, <1>6 DEF RunSound
  <2>2. FetchFits(q, n)'
    BY <1>4, <1>5, <2>1 DEF FetchFits
  <2>3. Brought(r, n)' => Brought(q, n)'
    BY <1>5 DEF Brought
  <2>4. n \in Range(r.left) => n = Head(r.left) \/ n \in Range(q.left)
    BY <1>2, HeadOrTail
  <2>. QED
    BY <1>6, <2>1, <2>2, <2>3, <2>4
<1>. QED
  BY <1>3, <1>6 DEF RunSound

\* What an execution is known to have asked and brought.
LEMMA RunIs ==
  ASSUME IInv, Sound, NEW r \in runs
  PROVE  /\ r \in Runs /\ RunHolds(r) /\ RunSound(r) /\ r.job \in Job /\ r.worker \in Worker
         /\ r.left \in Seq(Name) /\ r.file \in Second
         /\ task[r.job][r.worker].phase # "none"
         /\ r.left # <<>> => Head(r.left) \in Name
  BY RunType, HeadTailProperties DEF IInv, RunsHold, Sound, RunsSound, Runs

\* Ask keeps it all: the record is the last registration, and so new enough.
LEMMA AskSound ==
  ASSUME IInv, IInv', Sound, NEW r \in runs, Ask(r)
  PROVE  Sound'
<1>1. /\ UNCHANGED <<parentVars, poolVars, inserting, table, log, synced, has, task, kind, disk, project, spoiled>>
      /\ Grows
  BY Still DEF Ask, hubVars, parentVars, poolVars
<1>2. /\ r \in Runs /\ RunHolds(r) /\ RunSound(r) /\ r.left \in Seq(Name) /\ Head(r.left) \in Name
      /\ r.at = "sync" /\ r.left # <<>> /\ table[Head(r.left)] # None
  BY RunIs DEF Ask
<1>3. ASSUME NEW q, q = [r EXCEPT !.at = "receive", !.file = table[Head(r.left)].file]
      PROVE  RunSound(q)' /\ q.job = r.job /\ q.worker = r.worker
  <2>1. /\ q.job = r.job /\ q.worker = r.worker /\ q.since = r.since /\ q.left = r.left
        /\ q.at = "receive" /\ q.file = table[Head(r.left)].file /\ q.batch = r.batch
    BY <1>2, <1>3 DEF Runs
  <2>2. Owes(q) = Owes(r) /\ \A n : Floor(q, n) = Floor(r, n) /\ \A v : Serves(q, n, v) <=> Serves(r, n, v)
    BY <2>1 DEF Owes, Floor, Serves
  <2>3. ASSUME NEW n \in Owes(r), n = Head(r.left) PROVE Serves(r, n, disk[n][table[n].file])
    <3>1. n \notin spoiled /\ disk[n][table[n].file] = table[n].version
      BY <1>2, <2>3 DEF Owes, IInv, HubHolds, RecordIsWhole
    <3>2. log[n] # <<>> /\ log[n][Len(log[n])] = table[n].version
      BY <1>2, <2>3 DEF Sound, RecordIsLast
    <3>3. PICK k \in Floor(r, n) : TRUE
      BY <1>2, <2>3 DEF RunSound, FetchFits
    <3>4. k \in 1..Len(log[n]) /\ DOMAIN log[n] = 1..Len(log[n]) /\ Len(log[n]) \in Nat
      BY <1>2, <2>3, <3>3, HubTypes, LenProperties DEF Floor
    <3>5. Len(log[n]) \in DOMAIN log[n] /\ k <= Len(log[n])
      BY <3>4
    <3>. QED
      BY <3>1, <3>2, <3>3, <3>5 DEF Serves
  <2>4. ASSUME NEW n \in Owes(r) PROVE FetchFits(q, n) /\ (n \in Range(q.left) \/ Brought(q, n))
    <3>1. FetchFits(r, n) /\ (n \in Range(r.left) \/ Brought(r, n))
      BY <1>2, <2>4 DEF RunSound
    <3>2. FetchFits(q, n)
      BY <2>1, <2>2, <2>3, <2>4, <3>1 DEF FetchFits
    <3>3. Brought(r, n) => Brought(q, n)
      BY <2>1, <2>2 DEF Brought
    <3>. QED
      BY <2>1, <3>1, <3>2, <3>3
  <2>5. RunSound(q)
    BY <2>1, <2>2, <2>4 DEF RunSound
  <2>6. q \in Runs /\ RunHolds(q)
    <3>1. q.file \in Second /\ disk[Head(q.left)][q.file] \in Job
      BY <1>2, <2>1, HubTypes DEF IInv, HubHolds, FilesExist
    <3>. QED
      BY <1>2, <1>3, <2>1, <3>1 DEF Runs, RunHolds
  <2>. QED
    BY <1>1, <2>1, <2>5, <2>6, RunSoundStays
<1>4. RunsSound'
  BY <1>1, <1>3, RunMoves DEF Ask
<1>. QED
  BY <1>1, <1>4, Untouched DEF Sound

\* PassOver keeps it all: a name without a record is not owed.
LEMMA PassOverSound ==
  ASSUME IInv, IInv', Sound, NEW r \in runs, PassOver(r)
  PROVE  Sound'
<1>1. /\ UNCHANGED <<parentVars, poolVars, inserting, table, log, synced, has, task, kind, disk, project, spoiled>>
      /\ Grows
  BY Still DEF PassOver, hubVars, parentVars, poolVars
<1>2. /\ r \in Runs /\ RunSound(r) /\ Head(r.left) \in Name
      /\ r.at = "sync" /\ r.left # <<>> /\ table[Head(r.left)] = None
  BY RunIs DEF PassOver
<1>3. Head(r.left) \notin Owes(r)'
  <2>1. Owes(r)' = Owes(r)
    BY <1>1 DEF Owes
  <2>2. DOMAIN log[Head(r.left)] = {}
    BY <1>2 DEF Sound, RecordIsLast
  <2>3. Floor(r, Head(r.left)) = {}
    BY <2>2 DEF Floor
  <2>. QED
    BY <1>2, <2>1, <2>3 DEF RunSound, FetchFits
<1>4. ASSUME NEW q, q = [r EXCEPT !.left = Tail(@)]
      PROVE  RunSound(q)' /\ q.job = r.job /\ q.worker = r.worker
  <2>1. /\ q.job = r.job /\ q.worker = r.worker /\ q.since = r.since /\ q.left = Tail(r.left)
        /\ q.at = "sync" /\ q.batch = r.batch
    BY <1>2, <1>4 DEF Runs
  <2>. QED
    BY <1>1, <1>2, <1>3, <2>1, NextNameSound
<1>5. RunsSound'
  BY <1>1, <1>4, RunMoves DEF PassOver
<1>. QED
  BY <1>1, <1>5, Untouched DEF Sound

\* ReadFails keeps it all: what could not be read is spoiled.
LEMMA ReadFailsSound ==
  ASSUME IInv, IInv', Sound, NEW r \in runs, ReadFails(r)
  PROVE  Sound'
<1>1. /\ UNCHANGED <<parentVars, poolVars, inserting, table, log, synced, has, task>> /\ Grows
  BY Still DEF ReadFails, hubVars, parentVars, poolVars
<1>2. /\ r \in Runs /\ r.at = "sync" /\ r.left # <<>> /\ Head(r.left) \notin Owes(r)'
  BY RunIs DEF ReadFails, Owes
<1>3. ASSUME NEW q, q = [r EXCEPT !.left = Tail(@)]
      PROVE  RunSound(q)' /\ q.job = r.job /\ q.worker = r.worker
  <2>1. /\ q.job = r.job /\ q.worker = r.worker /\ q.since = r.since /\ q.left = Tail(r.left)
        /\ q.at = "sync" /\ q.batch = r.batch
    BY <1>2, <1>3 DEF Runs
  <2>. QED
    BY <1>1, <1>2, <2>1, NextNameSound
<1>4. RunsSound'
  BY <1>1, <1>3, RunMoves DEF ReadFails
<1>. QED
  BY <1>1, <1>4, Untouched DEF Sound

\* Receive keeps it all: what the syncer knows is in the project.
LEMMA ReceiveSound ==
  ASSUME IInv, IInv', Sound, NEW r \in runs, Receive(r)
  PROVE  Sound'
<1>. SUFFICES ASSUME NEW version, version = disk[Head(r.left)][r.file] PROVE Sound'
  OBVIOUS
<1>. DEFINE n0 == Head(r.left)
            next == [r EXCEPT !.at = "sync", !.left = Tail(@)]
<1>1. /\ UNCHANGED <<parentVars, poolVars, inserting, table, log, synced, has, task, kind, disk, project, spoiled>>
      /\ Grows
  BY Still DEF Receive, hubVars, parentVars, poolVars
<1>2. /\ r \in Runs /\ RunHolds(r) /\ RunSound(r) /\ r.left \in Seq(Name) /\ n0 \in Name
      /\ r.at = "receive" /\ r.left # <<>> /\ version \in Job /\ r.file \in Second /\ r.worker \in Worker
  BY RunIs DEF Receive, RunHolds
<1>3. n0 \in Owes(r) => Serves(r, n0, version) /\ n0 \notin spoiled
  BY <1>2 DEF RunSound, FetchFits, Owes
<1>4. Owes(r)' = Owes(r) /\ (Serves(r, n0, version) => Serves(r, n0, version)')
  BY <1>1 DEF Owes, Serves, Floor
<1>5. ASSUME kind[r.job] = "character", NEW q,
             q = [next EXCEPT !.batch = @ \cup {<<n0, version>>}]
      PROVE  RunSound(q)' /\ q.job = r.job /\ q.worker = r.worker
  <2>1. /\ q.job = r.job /\ q.worker = r.worker /\ q.since = r.since /\ q.left = Tail(r.left)
        /\ q.at = "sync" /\ q.batch = r.batch \cup {<<n0, version>>}
    BY <1>2, <1>5 DEF Runs
  <2>2. Brought(q, n0)'
    <3>1. kind'[q.job] = "character" /\ <<n0, version>> \in q.batch
      BY <1>1, <1>5, <2>1
    <3>. QED
      BY <1>2, <3>1 DEF Brought
  <2>3. \A n, v : <<n, v>> \in q.batch => <<n, v>> \in r.batch \/ (n = n0 /\ v = version)
    BY <2>1
  <2>4. n0 \in Owes(r)' => Serves(r, n0, version)'
    BY <1>3, <1>4
  <2>. QED
    BY <1>1, <1>2, <2>1, <2>2, <2>3, <2>4, NextNameSound
<1>6. ASSUME kind[r.job] # "character", Known(r), NEW q, q = next
      PROVE  RunSound(q)' /\ q.job = r.job /\ q.worker = r.worker
  <2>1. /\ q.job = r.job /\ q.worker = r.worker /\ q.since = r.since /\ q.left = Tail(r.left)
        /\ q.at = "sync" /\ q.batch = r.batch
    BY <1>2, <1>6 DEF Runs
  <2>2. ASSUME n0 \in Owes(r) PROVE Brought(q, n0)'
    <3>1. PICK i \in DOMAIN project[r.worker][n0] : project[r.worker][n0][i] = version
      BY <1>2, <1>3, <1>6, <2>2 DEF Known, Sound, SyncsSound, SyncSound
    <3>2. Serves(q, n0, version)'
      BY <1>3, <1>4, <2>1, <2>2 DEF Serves, Floor
    <3>3. project' = project /\ kind' = kind
      BY <1>1
    <3>. HIDE DEF n0
    <3>. QED
      BY <1>6, <2>1, <3>1, <3>2, <3>3 DEF Brought
  <2>. QED
    BY <1>1, <1>2, <1>4, <2>1, <2>2, NextNameSound
<1>7. ASSUME kind[r.job] # "character", NEW q, q = [r EXCEPT !.at = "upload", !.version = version]
      PROVE  RunSound(q)' /\ q.job = r.job /\ q.worker = r.worker
  <2>1. /\ q.job = r.job /\ q.worker = r.worker /\ q.since = r.since /\ q.left = r.left
        /\ q.at = "upload" /\ q.batch = r.batch /\ q.version = version /\ q.file = r.file
    BY <1>2, <1>7 DEF Runs
  <2>2. /\ Owes(q)' = Owes(r) /\ \A n : Floor(q, n)' = Floor(r, n)
        /\ \A n, v : Serves(q, n, v)' <=> Serves(r, n, v)
    BY <1>1, <2>1 DEF Owes, Floor, Serves
  <2>3. ASSUME NEW n \in Owes(r) PROVE FetchFits(q, n)' /\ (n \in Range(q.left) \/ Brought(q, n)')
    <3>1. FetchFits(r, n) /\ (n \in Range(r.left) \/ Brought(r, n))
      BY <1>2, <2>3 DEF RunSound
    <3>2. FetchFits(q, n)'
      BY <1>3, <2>1, <2>2, <2>3, <3>1 DEF FetchFits
    <3>3. Brought(r, n) => Brought(q, n)'
      BY <1>1, <2>1, <2>2 DEF Brought
    <3>. QED
      BY <2>1, <3>1, <3>2, <3>3
  <2>. QED
    BY <1>1, <1>7, <2>1, <2>2, <2>3 DEF RunSound
<1>8. \E q : RunSound(q)' /\ q.job = r.job /\ q.worker = r.worker /\ Step(r, q)
  <2>1. CASE kind[r.job] = "character"
    BY <1>5, <2>1 DEF Receive
  <2>2. CASE kind[r.job] # "character" /\ Known(r)
    BY <1>6, <2>2 DEF Receive
  <2>3. CASE kind[r.job] # "character" /\ ~Known(r)
    BY <1>7, <2>3 DEF Receive
  <2>. QED
    BY <2>1, <2>2, <2>3
<1>9. RunsSound'
  BY <1>1, <1>8, RunMoves
<1>. QED
  BY <1>1, <1>9, Untouched DEF Sound

\* Upload keeps it all: only what is in the project is noted as synced.
LEMMA UploadSound ==
  ASSUME IInv, IInv', Sound, NEW r \in runs, Upload(r)
  PROVE  Sound'
<1>. SUFFICES ASSUME NEW w, w = r.worker, NEW n0, n0 = Head(r.left) PROVE Sound'
  OBVIOUS
<1>1. /\ UNCHANGED <<parentVars, poolVars, inserting, table, log, has, task, kind, disk, spoiled>>
      /\ project' = [project EXCEPT ![w][n0] = Append(@, r.version)]
      /\ synced' = [synced EXCEPT ![w] = @ \cup {<<n0, r.file>>}]
      /\ Step(r, [r EXCEPT !.at = "sync", !.left = Tail(@), !.version = None])
  BY DEF Upload, hubVars, parentVars, poolVars
<1>2. /\ r \in Runs /\ RunHolds(r) /\ RunSound(r) /\ r.left \in Seq(Name) /\ n0 \in Name /\ w \in Worker
      /\ r.at = "upload" /\ r.left # <<>> /\ r.version \in Job /\ r.file \in Second
  BY RunIs DEF Upload, RunHolds
<1>3. /\ project \in [Worker -> [Name -> Seq(Job)]]
      /\ synced \in [Worker -> SUBSET (Name \X Second)]
  BY DEF IInv, TypeOK, WorkerType
<1>4. /\ project'[w][n0] = Append(project[w][n0], r.version)
      /\ \A v \in Worker, n \in Name : v # w \/ n # n0 => project'[v][n] = project[v][n]
      /\ \A v \in Worker : v # w => synced'[v] = synced[v]
      /\ synced'[w] = synced[w] \cup {<<n0, r.file>>}
  BY <1>1, <1>2, <1>3
<1>5. /\ Prolongs(project[w][n0], project'[w][n0])
      /\ \E i \in DOMAIN project'[w][n0] : project'[w][n0][i] = r.version
  <2>1. project[w][n0] \in Seq(Job) /\ r.version \in Job
    BY <1>2, <1>3
  <2>2. /\ Prolongs(project[w][n0], Append(project[w][n0], r.version))
        /\ \E i \in DOMAIN Append(project[w][n0], r.version) : Append(project[w][n0], r.version)[i] = r.version
    BY <2>1, AppendProlongs
  <2>. QED
    BY <1>4, <2>2
<1>6. Grows
  <2>1. \A v \in Worker, n \in Name : Prolongs(project[v][n], project'[v][n])
    BY <1>4, <1>5 DEF Prolongs
  <2>. QED
    BY <1>1, <2>1 DEF Grows, Prolongs
<1>7. SyncsSound'
  <2>1. ASSUME NEW v \in Worker, v # w PROVE SyncSound(v)'
    BY <1>4, <1>6, <2>1, SyncSoundStays DEF Sound, SyncsSound
  <2>2. ASSUME NEW n \in Name \ spoiled', NEW s \in Second, <<n, s>> \in synced'[w]
        PROVE  \E i \in DOMAIN project'[w][n] : project'[w][n][i] = disk'[n][s]
    <3>1. CASE <<n, s>> \in synced[w]
      <4>1. PICK i \in DOMAIN project[w][n] : project[w][n][i] = disk[n][s]
        BY <1>1, <1>2, <2>2, <3>1 DEF Sound, SyncsSound, SyncSound
      <4>. QED
        BY <1>1, <1>2, <1>6, <4>1 DEF Grows, Prolongs
    <3>2. CASE n = n0 /\ s = r.file
      BY <1>1, <1>2, <1>5, <2>2, <3>2 DEF RunSound
    <3>. QED
      BY <1>4, <2>2, <3>1, <3>2
  <2>3. SyncSound(w)'
    BY <2>2 DEF SyncSound
  <2>. QED
    BY <2>1, <2>3 DEF SyncsSound
<1>8. ASSUME NEW q, q = [r EXCEPT !.at = "sync", !.left = Tail(@), !.version = None]
      PROVE  RunSound(q)' /\ q.job = r.job /\ q.worker = r.worker
  <2>1. /\ q.job = r.job /\ q.worker = r.worker /\ q.since = r.since /\ q.left = Tail(r.left)
        /\ q.at = "sync" /\ q.batch = r.batch
    BY <1>2, <1>8 DEF Runs
  <2>2. ASSUME n0 \in Owes(r)' PROVE Brought(q, n0)'
    <3>1. Serves(r, n0, r.version) /\ kind[r.job] # "character"
      BY <1>1, <1>2, <2>2 DEF Owes, RunSound, FetchFits
    <3>2. Serves(q, n0, r.version)' /\ kind' = kind
      BY <1>1, <2>1, <3>1 DEF Serves, Floor
    <3>. QED
      BY <1>5, <2>1, <3>1, <3>2 DEF Brought
  <2>. QED
    BY <1>1, <1>2, <1>6, <2>1, <2>2, NextNameSound
<1>9. RunsSound'
  BY <1>1, <1>6, <1>8, RunMoves
<1>. QED
  BY <1>1, <1>6, <1>7, <1>9, Untouched DEF Sound

\* ImageSynced keeps it all: with nothing left, everything owed is in the project.
LEMMA ImageSyncedSound ==
  ASSUME IInv, IInv', Sound, NEW r \in runs, ImageSynced(r)
  PROVE  Sound'
<1>1. /\ UNCHANGED <<parentVars, inserting, table, log, synced, has, kind, disk, project, spoiled>>
      /\ Grows /\ runs' \subseteq runs /\ Completed(r.job, r.worker)
  BY Still DEF ImageSynced, hubVars, parentVars
<1>2. /\ r \in Runs /\ RunSound(r) /\ r.job \in Job /\ r.worker \in Worker
      /\ task[r.job][r.worker].phase # "none" /\ r.left = <<>> /\ kind[r.job] = "image"
  BY RunIs DEF ImageSynced
<1>3. Delivered(r.job, r.worker)
  <2>. SUFFICES ASSUME NEW n \in has[r.job] \ spoiled
                PROVE  \E k \in DOMAIN log[n] : log[n][k] = r.job /\ UpToDate(r.worker, n, k)
    BY DEF Delivered
  <2>1. n \in Owes(r) /\ n \in Name
    BY <1>2 DEF Owes, IInv, TypeOK, ParentType
  <2>2. Range(r.left) = {}
    BY <1>2 DEF Range
  <2>3. PICK i \in DOMAIN project[r.worker][n] : Serves(r, n, project[r.worker][n][i])
    BY <1>2, <2>1, <2>2 DEF RunSound, Brought
  <2>4. PICK k \in Floor(r, n), m \in DOMAIN log[n] : k <= m /\ log[n][m] = project[r.worker][n][i]
    BY <2>3 DEF Serves
  <2>5. k \in DOMAIN log[n] /\ log[n][k] = r.job /\ DOMAIN log[n] = 1..Len(log[n]) /\ Len(log[n]) \in Nat
    BY <1>2, <2>1, <2>4, HubTypes, LenProperties DEF Floor
  <2>6. m \in k..Len(log[n])
    BY <2>4, <2>5
  <2>. QED
    BY <2>3, <2>4, <2>5, <2>6 DEF UpToDate
<1>4. TasksSound' /\ RunsSound'
  <2>1. Delivered(r.job, r.worker)'
    BY <1>1, <1>2, <1>3, DeliveredStays
  <2>. QED
    BY <1>1, <1>2, <2>1, Ends
<1>. QED
  BY <1>1, <1>4, Untouched DEF Sound

\* CharacterSynced keeps it all: the character is made of everything owed.
LEMMA CharacterSyncedSound ==
  ASSUME IInv, IInv', Sound, NEW r \in runs, CharacterSynced(r)
  PROVE  Sound'
<1>. SUFFICES ASSUME NEW w, w = r.worker, NEW j, j = r.job PROVE Sound'
  OBVIOUS
<1>. DEFINE Of(n) == CHOOSE v \in Job : <<n, v>> \in r.batch
            Made1(n) == IF \E v \in Job : <<n, v>> \in r.batch
                        THEN Append(project[w][n], Of(n)) ELSE project[w][n]
<1>1. /\ UNCHANGED <<parentVars, inserting, table, log, synced, has, kind, disk, spoiled>>
      /\ runs' \subseteq runs /\ Completed(j, w)
      /\ project' = [project EXCEPT ![w] = [n \in Name |-> Made1(n)]]
  BY DEF CharacterSynced, hubVars, parentVars
<1>2. /\ r \in Runs /\ RunSound(r) /\ j \in Job /\ w \in Worker
      /\ task[j][w].phase # "none" /\ r.left = <<>> /\ kind[j] = "character"
  BY RunIs DEF CharacterSynced
<1>3. project \in [Worker -> [Name -> Seq(Job)]]
  BY DEF IInv, TypeOK, WorkerType
<1>4. /\ \A n \in Name : project'[w][n] = Made1(n)
      /\ \A v \in Worker, n \in Name : v # w => project'[v][n] = project[v][n]
  <2>. HIDE DEF Made1
  <2>. QED
    BY <1>1, <1>2, <1>3
<1>5. \A n \in Name : /\ Prolongs(project[w][n], Made1(n))
                      /\ \A u \in Job : <<n, u>> \in r.batch =>
                           <<n, Of(n)>> \in r.batch /\ Of(n) \in Job
                           /\ \E i \in DOMAIN Made1(n) : Made1(n)[i] = Of(n)
  <2>. SUFFICES ASSUME NEW n \in Name
                PROVE  /\ Prolongs(project[w][n], Made1(n))
                       /\ \A u \in Job : <<n, u>> \in r.batch =>
                           <<n, Of(n)>> \in r.batch /\ Of(n) \in Job
                           /\ \E i \in DOMAIN Made1(n) : Made1(n)[i] = Of(n)
    OBVIOUS
  <2>1. project[w][n] \in Seq(Job)
    BY <1>2, <1>3
  <2>2. CASE \E v \in Job : <<n, v>> \in r.batch
    <3>1. Of(n) \in Job /\ <<n, Of(n)>> \in r.batch
      BY <2>2
    <3>. HIDE DEF Of
    <3>. QED
      BY <2>1, <2>2, <3>1, AppendProlongs
  <2>3. CASE ~\E v \in Job : <<n, v>> \in r.batch
    BY <2>1, <2>3 DEF Prolongs
  <2>. QED
    BY <2>2, <2>3
<1>. HIDE DEF Of, Made1
<1>6. Grows
  <2>1. \A v \in Worker, n \in Name : Prolongs(project[v][n], project'[v][n])
    <3>1. \A n \in Name : Prolongs(project[w][n], project'[w][n])
      BY <1>4, <1>5
    <3>2. \A v \in Worker, n \in Name : v # w => Prolongs(project[v][n], project'[v][n])
      BY <1>4 DEF Prolongs
    <3>. QED
      BY <3>1, <3>2
  <2>. QED
    BY <1>1, <2>1 DEF Grows, Prolongs
<1>7. Delivered(j, w)'
  <2>. SUFFICES ASSUME NEW n \in has'[j] \ spoiled'
                PROVE  \E k \in DOMAIN log'[n] : log'[n][k] = j /\ UpToDate(w, n, k)'
    BY DEF Delivered
  <2>1. n \in Owes(r) /\ n \in Name
    BY <1>1, <1>2 DEF Owes, IInv, TypeOK, ParentType
  <2>2. Range(r.left) = {}
    BY <1>2 DEF Range
  <2>3. PICK u \in Job : <<n, u>> \in r.batch
    BY <1>2, <2>1, <2>2 DEF RunSound, Brought
  <2>4. Serves(r, n, Of(n))
    BY <1>2, <1>5, <2>1, <2>3 DEF RunSound, FetchFits
  <2>5. PICK k \in Floor(r, n), m \in DOMAIN log[n] : k <= m /\ log[n][m] = Of(n)
    BY <2>4 DEF Serves
  <2>6. k \in DOMAIN log[n] /\ log[n][k] = j /\ DOMAIN log[n] = 1..Len(log[n]) /\ Len(log[n]) \in Nat
    BY <1>2, <2>1, <2>5, HubTypes, LenProperties DEF Floor
  <2>7. m \in k..Len(log[n])
    BY <2>5, <2>6
  <2>8. \E i \in DOMAIN project'[w][n] : project'[w][n][i] = Of(n)
    BY <1>4, <1>5, <2>1, <2>3
  <2>9. UpToDate(w, n, k)'
    BY <1>1, <2>5, <2>7, <2>8 DEF UpToDate
  <2>. QED
    BY <1>1, <2>6, <2>9
<1>8. TasksSound' /\ RunsSound'
  BY <1>1, <1>2, <1>6, <1>7, Ends
<1>. QED
  BY <1>1, <1>6, <1>8, Untouched DEF Sound

\* An execution that changes its place only.
LEMMA PlaceSound ==
  ASSUME IInv, Sound, Grows, UNCHANGED has, NEW r \in runs, r.at \in {"sync", "make"},
         kind[r.job] = "video", r.left = <<>>, NEW at \in {"make", "insert"},
         NEW q, q = [r EXCEPT !.at = at]
  PROVE  RunSound(q)' /\ q.job = r.job /\ q.worker = r.worker
<1>1. /\ r \in Runs /\ RunSound(r)' /\ kind' = kind
  BY RunIs, RunSoundStays DEF Grows
<1>2. /\ q.job = r.job /\ q.worker = r.worker /\ q.since = r.since /\ q.left = r.left
      /\ q.at = at /\ q.batch = r.batch
  BY <1>1 DEF Runs
<1>3. /\ Owes(q)' = Owes(r)' /\ \A n : Floor(q, n)' = Floor(r, n)'
      /\ \A n, v : Serves(q, n, v)' <=> Serves(r, n, v)'
  BY <1>2 DEF Owes, Floor, Serves
<1>4. ASSUME NEW n \in Owes(r)' PROVE FetchFits(q, n)' /\ (n \in Range(q.left) \/ Brought(q, n)')
  <2>1. FetchFits(r, n)' /\ (n \in Range(r.left) \/ Brought(r, n)')
    BY <1>1, <1>4 DEF RunSound
  <2>2. FetchFits(q, n)'
    BY <1>2, <1>3, <2>1 DEF FetchFits
  <2>3. Brought(r, n)' => Brought(q, n)'
    BY <1>2, <1>3 DEF Brought
  <2>. QED
    BY <1>2, <2>1, <2>2, <2>3
<1>. QED
  BY <1>1, <1>2, <1>3, <1>4 DEF RunSound

\* Generate keeps it all.
LEMMA GenerateSound ==
  ASSUME IInv, IInv', Sound, NEW r \in runs, Generate(r)
  PROVE  Sound'
<1>1. /\ UNCHANGED <<parentVars, poolVars, inserting, table, log, synced, has, task>> /\ Grows
      /\ Step(r, [r EXCEPT !.at = "make"])
      /\ r.at = "sync" /\ kind[r.job] = "video" /\ r.left = <<>>
  BY Still DEF Generate, hubVars, parentVars, poolVars
<1>2. ASSUME NEW q, q = [r EXCEPT !.at = "make"]
      PROVE  RunSound(q)' /\ q.job = r.job /\ q.worker = r.worker
  BY <1>1, <1>2, PlaceSound
<1>3. RunsSound'
  BY <1>1, <1>2, RunMoves
<1>. QED
  BY <1>1, <1>3, Untouched DEF Sound

\* A copy overwrites only files whose name is spoiled by that.
LEMMA CopyGrows ==
  ASSUME IInv, NEW j \in Job, NEW by, NEW n \in Name, CopyFile(j, by, n), UNCHANGED project
  PROVE  Grows /\ UNCHANGED <<kind, table, log>>
<1>1. /\ now \in Second /\ disk \in [Name -> [Second -> Job \cup {None}]] /\ UNCHANGED <<kind, table, log>>
      /\ disk' = [disk EXCEPT ![n][now] = j]
      /\ spoiled' = IF disk[n][now] = None THEN spoiled ELSE spoiled \cup {n}
  BY DEF CopyFile, IInv, TypeOK, HubType
<1>2. \A m \in Name, s \in Second : m # n \/ s # now => disk'[m][s] = disk[m][s]
  BY <1>1
<1>3. n \notin spoiled' => disk[n][now] \notin Job
  BY <1>1, NoneAssumption
<1>4. \A m \in Name \ spoiled', s \in Second : disk[m][s] \in Job => disk'[m][s] = disk[m][s]
  BY <1>2, <1>3
<1>5. spoiled \subseteq spoiled'
  BY <1>1
<1>. QED
  BY <1>1, <1>4, <1>5 DEF Grows, Prolongs

\* UploadResult keeps it all: the handler's store is none of the Master's own.
LEMMA UploadResultSound ==
  ASSUME IInv, IInv', Sound, NEW r \in runs, UploadResult(r)
  PROVE  Sound'
<1>1. /\ r \in Runs /\ RunSound(r) /\ r.job \in Job /\ r.worker \in Worker /\ r.at = "make"
      /\ kind[r.job] = "video" /\ r.left = <<>> /\ r.worker # None
  BY RunIs, NoneAssumption DEF UploadResult, RunSound
<1>2. /\ UNCHANGED <<parentVars, poolVars, synced, has, task, parent, project>>
      /\ CopyFile(r.job, r.worker, "clip") /\ Step(r, [r EXCEPT !.at = "insert"])
  BY DEF UploadResult, parentVars, poolVars
<1>3. Grows /\ UNCHANGED <<table, log>>
  BY <1>1, <1>2, CopyGrows DEF Name
<1>4. ASSUME NEW q, q = [r EXCEPT !.at = "insert"]
      PROVE  RunSound(q)' /\ q.job = r.job /\ q.worker = r.worker
  BY <1>1, <1>2, <1>3, <1>4, PlaceSound
<1>5. RunsSound'
  BY <1>2, <1>3, <1>4, RunMoves
<1>6. \A i \in Job : Waiting(i)' = Waiting(i)
  BY <1>1, <1>2 DEF Waiting, CopyFile
<1>7. JobsSound'
  BY <1>2, <1>3, <1>6, JobSoundStays DEF Sound, JobsSound
<1>. QED
  BY <1>2, <1>3, <1>5, <1>7, Untouched DEF Sound

\* RunFails keeps it all.
LEMMA RunFailsSound ==
  ASSUME IInv, IInv', Sound, NEW r \in runs, RunFails(r)
  PROVE  Sound'
<1>1. /\ UNCHANGED <<parentVars, inserting, table, log, synced>>
      /\ Grows /\ runs' \subseteq runs /\ Failed(r.job, r.worker)
  BY Still DEF RunFails, hubVars, parentVars
<1>2. r.job \in Job /\ r.worker \in Worker /\ task[r.job][r.worker].phase # "none"
  BY RunIs
<1>3. TasksSound' /\ RunsSound'
  BY <1>1, <1>2, Ends
<1>. QED
  BY <1>1, <1>3, Untouched DEF Sound

----------------------------------------------------------------------------
(* Stores *)

\* An INSERT prolongs the name's registrations by the one its record is of.
LEMMA UpsertSound ==
  ASSUME IInv, IInv', Sound, NEW s \in inserting, Upsert(s), UNCHANGED project
  PROVE  Grows /\ RecordIsLast' /\ Registered(s.name, s.job)'
<1>1. /\ s.name \in Name /\ s.job \in Job /\ s.file \in Second /\ log \in [Name -> Seq(Job)]
      /\ table \in [Name -> Records \cup {None}]
  BY DEF IInv, TypeOK, HubType, Stores
<1>2. /\ table' = [table EXCEPT ![s.name] = [file |-> s.file, version |-> s.job]]
      /\ log' = [log EXCEPT ![s.name] = Append(@, s.job)] /\ UNCHANGED <<kind, disk, spoiled>>
  BY DEF Upsert
<1>3. log[s.name] \in Seq(Job)
  BY <1>1
<1>4. /\ Prolongs(log[s.name], Append(log[s.name], s.job))
      /\ Len(log[s.name]) + 1 \in DOMAIN Append(log[s.name], s.job)
      /\ Append(log[s.name], s.job)[Len(log[s.name]) + 1] = s.job
      /\ Len(Append(log[s.name], s.job)) = Len(log[s.name]) + 1
      /\ Append(log[s.name], s.job) # <<>>
  BY <1>1, <1>3, AppendProlongs, AppendProperties
<1>5. /\ log'[s.name] = Append(log[s.name], s.job)
      /\ \A n \in Name \ {s.name} : log'[n] = log[n] /\ table'[n] = table[n]
      /\ table'[s.name] = [file |-> s.file, version |-> s.job]
  BY <1>1, <1>2
<1>6. Grows
  <2>1. \A n \in Name : Prolongs(log[n], log'[n])
    BY <1>4, <1>5 DEF Prolongs
  <2>. QED
    BY <1>2, <2>1 DEF Grows, Prolongs
<1>7. Registered(s.name, s.job)'
  BY <1>4, <1>5 DEF Registered
<1>8. table'[s.name] # None /\ table'[s.name].version = s.job
  <2>1. table'[s.name] \in [file : Nat, version : Job]
    BY <1>1, <1>5, BoundAssumption DEF Second
  <2>. QED
    BY <1>5, <2>1, NoneAssumption
<1>9. RecordIsLast'
  BY <1>4, <1>5, <1>8 DEF RecordIsLast, Sound
<1>. QED
  BY <1>6, <1>7, <1>9

\* An INSERT that is not the Master's own leaves the coroutines' stores alone.
LEMMA ResultStoredSound ==
  ASSUME IInv, IInv', Sound, NEW s \in inserting, ResultStored(s)
  PROVE  Sound'
<1>1. /\ Upsert(s) /\ UNCHANGED <<parentVars, synced, project, parent, has, result, link>> /\ s.by # None
  BY DEF ResultStored, parentVars
<1>2. Grows /\ RecordIsLast' /\ inserting' = inserting \ {s}
  BY <1>1, UpsertSound DEF Upsert
<1>3. \A i \in Job : Waiting(i)' = Waiting(i)
  BY <1>1, <1>2 DEF Waiting
<1>4. JobsSound'
  BY <1>1, <1>2, <1>3, JobSoundStays DEF Sound, JobsSound
<1>5. TasksSound' /\ RunsSound'
  <2>1. CASE UNCHANGED <<runs, task, busy>>
    <3>1. TasksSound'
      BY <1>1, <1>2, <2>1, Untouched DEF poolVars
    <3>2. RunsSound'
      BY <1>1, <1>2, <2>1, RunsUntouched
    <3>. QED
      BY <3>1, <3>2
  <2>2. ASSUME NEW r \in runs, r.at = "insert", runs' = runs \ {r}, Completed(r.job, r.worker)
        PROVE  TasksSound' /\ RunsSound'
    <3>1. /\ r.job \in Job /\ r.worker \in Worker /\ task[r.job][r.worker].phase # "none"
          /\ kind[r.job] = "video"
      BY <2>2, RunIs DEF RunSound
    <3>2. Delivered(r.job, r.worker)'
      BY <1>1, <1>2, <3>1, VideoOwesNothing, DeliveredStays
    <3>. QED
      BY <1>1, <1>2, <2>2, <3>1, <3>2, Ends
  <2>. QED
    BY <2>1, <2>2 DEF ResultStored
<1>6. SyncsSound'
  BY <1>1, <1>2, Untouched
<1>. QED
  BY <1>2, <1>4, <1>5, <1>6 DEF Sound

\* The steps of a coroutine of the Master up to its first child: the rest is untouched.
LEMMA StoreMoves ==
  ASSUME IInv, IInv', Sound, Grows, NEW j \in Job, kind[j] # "video",
         parent[j].at \in {"none", "store", "insert"}, UNCHANGED <<result, poolVars, workerVars>>,
         RecordIsLast', JobSound(j)',
         \A i \in Job \ {j} : parent'[i] = parent[i] /\ has'[i] = has[i] /\ Waiting(i)' = Waiting(i)
  PROVE  Sound'
<1>1. JobsSound'
  BY JobMoves
<1>2. TasksSound' /\ RunsSound'
  BY Unsubmitted DEF workerVars
<1>3. SyncsSound'
  BY Untouched DEF workerVars
<1>. QED
  BY <1>1, <1>2, <1>3 DEF Sound

\* Where a coroutine goes, and that the others stay where they are.
LEMMA GoesTo ==
  ASSUME IInv, NEW j \in Job, NEW at, NEW left, GoTo(j, at, left)
  PROVE  /\ parent'[j].at = at /\ parent'[j].left = left
         /\ \A i \in Job \ {j} : parent'[i] = parent[i]
<1>1. parent \in [Job -> [at : {"none", "store", "insert", "submit", "poll", "COMPLETED", "FAILED"},
                           left : SUBSET (Name \cup Worker)]]
  BY DEF IInv, TypeOK, ParentType
<1>. QED
  BY <1>1 DEF GoTo

\* Only image and character jobs have a coroutine.
LEMMA NoVideo ==
  ASSUME Sound, NEW j \in Job, ~At(j, "none")
  PROVE  kind[j] # "video"
  BY DEF Sound, JobsSound, JobSound

\* A job that stores, waits or has not begun.
LEMMA JobIs ==
  ASSUME IInv, Sound, NEW j \in Job
  PROVE  /\ JobSound(j) /\ has[j] \subseteq Name
         /\ has \in [Job -> SUBSET Name]
         /\ UNCHANGED kind => Makes(j)' = Makes(j)
  BY DEF Sound, JobsSound, IInv, TypeOK, ParentType, Makes

\* Made keeps it all.
LEMMA MadeSound ==
  ASSUME IInv, IInv', Sound, NEW j \in Job, NEW files \in SUBSET Range(Makes(j)), Made(j, files)
  PROVE  Sound'
<1>1. /\ UNCHANGED <<result, poolVars, workerVars, inserting, table, log, kind>> /\ Grows
      /\ kind[j] # "video" /\ At(j, "none") /\ has' = [has EXCEPT ![j] = files]
      /\ GoTo(j, "store", files)
  BY Still DEF Made, hubVars, workerVars
<1>2. /\ has'[j] = files /\ parent'[j].at = "store" /\ parent'[j].left = files
      /\ \A i \in Job \ {j} : parent'[i] = parent[i] /\ has'[i] = has[i]
  BY <1>1, GoesTo, JobIs
<1>3. \A i \in Job : Waiting(i)' = Waiting(i)
  BY <1>1 DEF Waiting
<1>4. JobSound(j) /\ Makes(j)' = Makes(j)
  BY <1>1, JobIs
<1>5. Waiting(j)' = {}
  BY <1>1, <1>3, <1>4 DEF JobSound, At
<1>6. JobSound(j)'
  BY <1>1, <1>2, <1>4, <1>5 DEF JobSound, At
<1>7. RecordIsLast'
  BY <1>1, Untouched
<1>. QED
  BY <1>1, <1>2, <1>3, <1>6, <1>7, StoreMoves DEF At

\* A coroutine that stored nothing, or all, or failed before its first child.
LEMMA LeavesStore ==
  ASSUME IInv, IInv', Sound, NEW j \in Job, NEW at \in {"submit", "COMPLETED", "FAILED"}, NEW left,
         kind[j] # "video", At(j, "none") \/ At(j, "store") \/ At(j, "insert"), GoTo(j, at, left),
         UNCHANGED <<kind, disk, table, log, has, result, poolVars, workerVars, spoiled>>,
         Waiting(j)' = {}, \A i \in Job \ {j} : Waiting(i)' = Waiting(i),
         at = "submit" => AllRegistered(j)
  PROVE  Sound'
<1>1. Grows /\ UNCHANGED has
  BY Still DEF workerVars
<1>2. /\ parent'[j].at = at /\ \A i \in Job \ {j} : parent'[i] = parent[i]
  BY GoesTo
<1>3. JobSound(j) /\ Makes(j)' = Makes(j)
  BY JobIs
<1>4. at = "submit" => AllRegistered(j)'
  BY <1>1, AllRegisteredStays
<1>5. JobSound(j)'
  BY <1>1, <1>2, <1>3, <1>4 DEF JobSound, At
<1>6. RecordIsLast'
  BY <1>1, Untouched
<1>. QED
  BY <1>1, <1>2, <1>5, <1>6, StoreMoves DEF At

\* NotMade keeps it all.
LEMMA NotMadeSound ==
  ASSUME IInv, IInv', Sound, NEW j \in Job, NotMade(j)
  PROVE  Sound'
<1>1. \A i \in Job : Waiting(i)' = Waiting(i)
  BY DEF NotMade, hubVars, Waiting
<1>2. Waiting(j)' = {}
  BY <1>1, JobIs DEF NotMade, JobSound, At
<1>. QED
  BY <1>1, <1>2, LeavesStore DEF NotMade, hubVars

\* Store keeps it all: the file waits for its INSERT.
LEMMA StoreSound ==
  ASSUME IInv, IInv', Sound, NEW j \in Job, NEW n \in Name, Store(j, n)
  PROVE  Sound'
<1>. SUFFICES ASSUME NEW new, new = [job |-> j, by |-> None, name |-> n, file |-> now] PROVE Sound'
  OBVIOUS
<1>1. /\ UNCHANGED <<has, result, poolVars, workerVars, table, log, kind>> /\ CopyFile(j, None, n)
      /\ inserting' = inserting \cup {new}
      /\ At(j, "store") /\ n \in parent[j].left /\ GoTo(j, "insert", parent[j].left \ {n})
  BY DEF Store, CopyFile
<1>2. Grows
  BY <1>1, CopyGrows DEF workerVars
<1>3. /\ parent'[j].at = "insert" /\ parent'[j].left = parent[j].left \ {n}
      /\ \A i \in Job \ {j} : parent'[i] = parent[i]
  BY <1>1, GoesTo
<1>4. kind[j] # "video" /\ JobSound(j) /\ Makes(j)' = Makes(j)
  BY <1>1, JobIs, NoVideo DEF At
<1>5. Waiting(j) = {}
  BY <1>1, <1>4 DEF JobSound, At
<1>6. Waiting(j)' = {new} /\ \A i \in Job \ {j} : Waiting(i)' = Waiting(i)
  <2>1. new.by = None /\ new.job = j
    OBVIOUS
  <2>. QED
    BY <1>1, <1>5, <2>1 DEF Waiting
<1>7. \A m \in has'[j] \ parent'[j].left : Registered(m, j)' \/ \E s \in Waiting(j)' : s.name = m
  <2>. SUFFICES ASSUME NEW m \in has[j] \ parent'[j].left, m # n PROVE Registered(m, j)'
    BY <1>1, <1>6
  <2>1. m \in has[j] \ parent[j].left /\ m \in Name
    BY <1>3, JobIs
  <2>2. Registered(m, j)
    BY <1>1, <1>4, <2>1 DEF JobSound
  <2>. QED
    BY <1>2, <2>1, <2>2, RegisteredStays
<1>8. JobSound(j)'
  BY <1>1, <1>3, <1>4, <1>6, <1>7 DEF JobSound, At
<1>9. RecordIsLast'
  BY <1>1, <1>2, Untouched
<1>. QED
  BY <1>1, <1>2, <1>3, <1>4, <1>6, <1>8, <1>9, StoreMoves DEF At

\* Stored keeps it all: the one store that waits is registered.
LEMMA StoredSound ==
  ASSUME IInv, IInv', Sound, NEW s \in inserting, Stored(s)
  PROVE  Sound'
<1>. SUFFICES ASSUME NEW j, j = s.job PROVE Sound'
  OBVIOUS
<1>1. /\ UNCHANGED <<has, result, poolVars, workerVars>> /\ Upsert(s) /\ s.by = None
      /\ inserting' = inserting \ {s} /\ GoTo(j, "store", parent[j].left) /\ j \in Job
  BY DEF Stored, Upsert, IInv, TypeOK, HubType, Stores
<1>2. Grows /\ RecordIsLast' /\ Registered(s.name, j)' /\ kind' = kind
  BY <1>1, UpsertSound DEF workerVars, Upsert
<1>3. /\ parent'[j].at = "store" /\ parent'[j].left = parent[j].left
      /\ \A i \in Job \ {j} : parent'[i] = parent[i]
  BY <1>1, GoesTo
<1>4. JobSound(j) /\ Makes(j)' = Makes(j) /\ s \in Waiting(j)
  BY <1>1, <1>2, JobIs DEF Waiting
<1>5. Waiting(j) = {s} /\ At(j, "insert") /\ kind[j] # "video"
  BY <1>1, <1>4, NoVideo DEF JobSound, At
<1>6. Waiting(j)' = {} /\ \A i \in Job \ {j} : Waiting(i)' = Waiting(i)
  BY <1>1, <1>5 DEF Waiting
<1>7. \A m \in has'[j] \ parent'[j].left : Registered(m, j)'
  <2>. SUFFICES ASSUME NEW m \in has[j] \ parent[j].left PROVE Registered(m, j)'
    BY <1>1, <1>3
  <2>1. Registered(m, j) \/ m = s.name
    BY <1>4, <1>5 DEF JobSound
  <2>. QED
    BY <1>1, <1>2, <2>1, RegisteredStays, JobIs
<1>8. JobSound(j)'
  BY <1>1, <1>2, <1>3, <1>4, <1>5, <1>6, <1>7 DEF JobSound, At
<1>. QED
  BY <1>1, <1>2, <1>3, <1>5, <1>6, <1>8, StoreMoves DEF At

\* StoreFails keeps it all: the job ends without a child.
LEMMA StoreFailsSound ==
  ASSUME IInv, IInv', Sound, NEW s \in inserting, StoreFails(s)
  PROVE  Sound'
<1>. SUFFICES ASSUME NEW j, j = s.job PROVE Sound'
  OBVIOUS
<1>1. /\ UNCHANGED <<kind, disk, table, log, has, result, poolVars, workerVars, spoiled>> /\ s.by = None
      /\ inserting' = inserting \ {s} /\ GoTo(j, "FAILED", {}) /\ j \in Job
  BY DEF StoreFails, IInv, TypeOK, HubType, Stores
<1>2. JobSound(j) /\ s \in Waiting(j)
  BY <1>1, JobIs DEF Waiting
<1>3. Waiting(j) = {s} /\ At(j, "insert") /\ kind[j] # "video"
  BY <1>1, <1>2, NoVideo DEF JobSound, At
<1>4. Waiting(j)' = {} /\ \A i \in Job \ {j} : Waiting(i)' = Waiting(i)
  BY <1>1, <1>3 DEF Waiting
<1>. QED
  BY <1>1, <1>3, <1>4, LeavesStore

\* ListWorkers keeps it all: nothing is left to be stored.
LEMMA ListWorkersSound ==
  ASSUME IInv, IInv', Sound, NEW j \in Job, ListWorkers(j)
  PROVE  Sound'
<1>1. /\ UNCHANGED <<kind, disk, table, log, has, result, poolVars, workerVars, spoiled, inserting>>
      /\ At(j, "store") /\ parent[j].left = {}
      /\ \E at \in {"submit", "COMPLETED"} : \E left : GoTo(j, at, left)
  BY DEF ListWorkers, hubVars
<1>2. JobSound(j) /\ kind[j] # "video"
  BY <1>1, JobIs, NoVideo DEF At
<1>3. \A i \in Job : Waiting(i)' = Waiting(i)
  BY <1>1 DEF Waiting
<1>4. Waiting(j)' = {} /\ AllRegistered(j)
  BY <1>1, <1>2, <1>3 DEF JobSound, At, AllRegistered
<1>. QED
  BY <1>1, <1>2, <1>3, <1>4, LeavesStore

\* The steps after the stores: the coroutine of j goes to `at`, nothing is stored.
LEMMA Proceeds ==
  ASSUME IInv, IInv', Sound, NEW j \in Job, NEW at \in {"submit", "poll", "COMPLETED", "FAILED"}, NEW left,
         At(j, "submit") \/ At(j, "poll"), GoTo(j, at, left), UNCHANGED <<kind, hubVars, has, workerVars>>,
         spoiled' = spoiled,
         \A i \in Job, v \in Worker : task[i][v].phase # "none" => task'[i][v].phase # "none",
         \A v \in Worker : TaskSound(j, v)',
         \A i \in Job \ {j}, v \in Worker :
            task'[i][v] = task[i][v] /\ result'[i][v] = result[i][v], UNCHANGED busy
  PROVE  Sound'
<1>1. Grows /\ UNCHANGED <<inserting, table, log, runs, synced, has>>
  BY Still DEF hubVars, workerVars
<1>2. /\ parent'[j].at = at /\ \A i \in Job \ {j} : parent'[i] = parent[i]
  BY GoesTo
<1>3. JobSound(j) /\ Makes(j)' = Makes(j) /\ \A i \in Job : Waiting(i)' = Waiting(i)
  BY <1>1, JobIs DEF Waiting
<1>4. AllRegistered(j)'
  BY <1>1, <1>3, AllRegisteredStays DEF JobSound
<1>5. Waiting(j)' = {}
  BY <1>3 DEF JobSound, At
<1>6. kind'[j] # "video"
  BY NoVideo DEF At
<1>7. JobSound(j)'
  BY <1>1, <1>2, <1>3, <1>4, <1>5, <1>6 DEF JobSound, At
<1>8. JobsSound'
  BY <1>1, <1>2, <1>3, <1>7, JobMoves
<1>9. ASSUME NEW i \in Job \ {j}, NEW v \in Worker PROVE TaskSound(i, v)'
  <2>1. AllRegistered(i) => AllRegistered(i)'
    BY <1>1, AllRegisteredStays
  <2>2. Delivered(i, v) => Delivered(i, v)'
    BY <1>1, DeliveredStays
  <2>3. TaskSound(i, v)
    BY DEF Sound, TasksSound
  <2>. QED
    BY <1>1, <1>2, <2>1, <2>2, <2>3 DEF TaskSound
<1>10. TasksSound'
  BY <1>9 DEF TasksSound
<1>11. RunsSound'
  BY <1>1, RunsUntouched
<1>. QED
  BY <1>1, <1>8, <1>10, <1>11, Untouched DEF Sound

\* SubmitChild keeps it all: everything is registered by then.
LEMMA SubmitChildSound ==
  ASSUME IInv, IInv', Sound, NEW j \in Job, NEW w \in Worker, SubmitChild(j, w)
  PROVE  Sound'
<1>. DEFINE open == [NoTask EXCEPT !.phase = "open", !.tickets = 1]
<1>1. task \in [Job -> [Worker -> Tasks]] /\ task' = [task EXCEPT ![j][w] = open]
  BY TaskIs DEF SubmitChild
<1>2. open.phase = "open"
  BY DEF NoTask
<1>3. task'[j][w].phase = "open" /\ \A i \in Job, v \in Worker : i # j \/ v # w => task'[i][v] = task[i][v]
  <2>. HIDE DEF open
  <2>. QED
    BY <1>1, <1>2
<1>4. /\ At(j, "submit") /\ UNCHANGED <<kind, hubVars, has, workerVars, result, busy, spoiled>>
      /\ \E at \in {"submit", "poll"} : \E left : GoTo(j, at, left)
  BY DEF SubmitChild
<1>5. Grows
  BY <1>4, Still DEF hubVars, workerVars
<1>6. AllRegistered(j)'
  BY <1>4, <1>5, AllRegisteredStays, JobIs DEF JobSound
<1>7. parent'[j].at \in {"submit", "poll"}
  BY <1>4, GoesTo
<1>8. ASSUME NEW v \in Worker PROVE TaskSound(j, v)'
  <2>1. TaskSound(j, v) /\ result[j][v] # "success"
    BY <1>4 DEF Sound, TasksSound, TaskSound, At
  <2>2. Delivered(j, v) => Delivered(j, v)'
    BY <1>4, <1>5, DeliveredStays
  <2>. QED
    BY <1>3, <1>4, <1>6, <1>7, <2>1, <2>2 DEF TaskSound
<1>9. \A i \in Job, v \in Worker : task[i][v].phase # "none" => task'[i][v].phase # "none"
  BY <1>3
<1>. QED
  BY <1>3, <1>4, <1>8, <1>9, Proceeds

\* SubmitFails keeps it all.
LEMMA SubmitFailsSound ==
  ASSUME IInv, IInv', Sound, NEW j \in Job, SubmitFails(j)
  PROVE  Sound'
<1>1. /\ At(j, "submit") /\ UNCHANGED <<kind, hubVars, has, workerVars, result, task, busy, spoiled>>
      /\ GoTo(j, "FAILED", {})
  BY DEF SubmitFails, poolVars
<1>2. Grows /\ parent'[j].at = "FAILED"
  BY <1>1, Still, GoesTo DEF hubVars, workerVars
<1>3. AllRegistered(j)'
  BY <1>1, <1>2, AllRegisteredStays, JobIs DEF JobSound
<1>4. ASSUME NEW v \in Worker PROVE TaskSound(j, v)'
  <2>1. TaskSound(j, v) /\ result[j][v] # "success"
    BY <1>1 DEF Sound, TasksSound, TaskSound, At
  <2>2. Delivered(j, v) => Delivered(j, v)'
    BY <1>1, <1>2, DeliveredStays
  <2>. QED
    BY <1>1, <1>2, <1>3, <2>1, <2>2 DEF TaskSound
<1>. QED
  BY <1>1, <1>4, Proceeds

\* Collect keeps it all: a success is a child that completed.
LEMMA CollectSound ==
  ASSUME IInv, IInv', Sound, NEW j \in Job, At(j, "poll"), Collect(j)
  PROVE  Sound'
<1>1. /\ UNCHANGED <<kind, hubVars, has, workerVars, task, busy, spoiled>>
      /\ GoTo(j, "COMPLETED", {})
  BY DEF Collect, poolVars
<1>2. Grows /\ parent'[j].at = "COMPLETED"
  BY <1>1, Still, GoesTo DEF hubVars, workerVars
<1>3. AllRegistered(j)'
  BY <1>1, <1>2, AllRegisteredStays, JobIs DEF JobSound
<1>4. result \in [Job -> [Worker -> {"none", "success", "failed"}]]
  BY DEF IInv, TypeOK, ParentType
<1>5. /\ \A v \in Worker : result'[j][v] = "success" => task[j][v].phase = "COMPLETED"
      /\ \A i \in Job \ {j} : result'[i] = result[i]
  BY <1>4 DEF Collect
<1>6. ASSUME NEW v \in Worker PROVE TaskSound(j, v)'
  <2>1. TaskSound(j, v)
    BY DEF Sound, TasksSound
  <2>2. Delivered(j, v) => Delivered(j, v)'
    BY <1>1, <1>2, DeliveredStays
  <2>. QED
    BY <1>1, <1>2, <1>3, <1>5, <2>1, <2>2 DEF TaskSound
<1>. QED
  BY <1>1, <1>5, <1>6, Proceeds

----------------------------------------------------------------------------
(* The theorems *)

\* Tick keeps it all.
LEMMA TickSound ==
  ASSUME IInv, IInv', Sound, Tick
  PROVE  Sound'
<1>1. UNCHANGED <<kind, disk, table, inserting, log, parentVars, poolVars, synced, project, runs, spoiled, has, task>>
  BY DEF Tick, parentVars, poolVars, workerVars
<1>2. Grows
  BY <1>1, Still
<1>3. RunsSound'
  BY <1>1, <1>2, RunsUntouched
<1>. QED
  BY <1>1, <1>2, <1>3, Untouched DEF Sound

\* Initially nothing is claimed.
LEMMA InitSound == Init => Sound
<1>. SUFFICES ASSUME Init PROVE Sound
  OBVIOUS
<1>1. RecordIsLast /\ SyncsSound /\ RunsSound
  BY DEF Init, RecordIsLast, SyncsSound, SyncSound, RunsSound
<1>2. JobsSound
  BY DEF Init, JobsSound, JobSound, Waiting, At
<1>3. TasksSound
  BY NoneAssumption DEF Init, TasksSound, TaskSound, NoTask
<1>. QED
  BY <1>1, <1>2, <1>3 DEF Sound

\* A step of an image or character job keeps it all.
LEMMA ParentStepSound ==
  ASSUME IInv, IInv', Sound, NEW j \in Job, ParentStep(j)
  PROVE  Sound'
  BY MadeSound, NotMadeSound, ListWorkersSound, CollectSound, StoreSound, SubmitChildSound,
     StoredSound DEF ParentStep, AllDone, PollTimeout

\* A step of an execution keeps it all.
LEMMA RunStepSound ==
  ASSUME IInv, IInv', Sound, NEW r \in runs, RunStep(r)
  PROVE  Sound'
  BY AskSound, PassOverSound, ReadFailsSound, ReceiveSound, UploadSound, ImageSyncedSound,
     CharacterSyncedSound, GenerateSound, UploadResultSound, RunFailsSound DEF RunStep

\* Every step keeps it all.
LEMMA NextSound == SInv /\ [Next]_vars => SInv'
<1>. SUFFICES ASSUME IInv, Sound, [Next]_vars PROVE IInv' /\ Sound'
  BY DEF SInv
<1>1. IInv'
  BY NextInvariant
<1>2. CASE UNCHANGED vars
  <2>1. Grows /\ RunsSound'
    BY <1>1, <1>2, Still, RunsUntouched DEF vars, hubVars, parentVars, poolVars, workerVars
  <2>. QED
    BY <1>1, <1>2, <2>1, Untouched DEF vars, hubVars, workerVars, Sound
<1>3. ASSUME NEW j \in Job, ParentStep(j) \/ SubmitFails(j) PROVE Sound'
  BY <1>1, <1>3, ParentStepSound, SubmitFailsSound
<1>4. ASSUME NEW j \in Job, NEW w \in Worker, SubmitVideo(j, w) \/ Dispatch(j, w) PROVE Sound'
  BY <1>1, <1>4, SubmitVideoSound, DispatchSound
<1>5. ASSUME NEW w \in Worker, Join(w) \/ Lapse(w) \/ Restart(w) PROVE Sound'
  BY <1>1, <1>5, JoinSound, LapseSound, RestartSound
<1>6. ASSUME NEW s \in inserting, StoreFails(s) \/ ResultStored(s) PROVE Sound'
  BY <1>1, <1>6, StoreFailsSound, ResultStoredSound
<1>7. ASSUME NEW r \in runs, RunStep(r) PROVE Sound'
  BY <1>1, <1>7, RunStepSound
<1>. QED
  BY <1>1, <1>2, <1>3, <1>4, <1>5, <1>6, <1>7, TickSound DEF Next

\* The inductive invariant of broadcasts and syncers holds in every reachable state.
THEOREM SyncInvariance == Spec => []SInv
<1>1. Init => SInv
  BY InitInvariant, InitSound DEF SInv
<1>. QED
  BY <1>1, NextSound, PTL DEF Spec

\* A worker whose broadcast "success" the parent reports (image_character_service.py)
\* has in its project what the parent stored, or a newer version of it, however stores,
\* downloads, retries, lapsed heartbeats, restarts and other broadcasts interleave.
THEOREM SuccessMeansSynced == Spec => []SuccessIsSynced
<1>1. SInv => SuccessIsSynced
  BY DEF SInv, Sound, TasksSound, TaskSound, Delivered, SuccessIsSynced
<1>. QED
  BY <1>1, SyncInvariance, PTL

\* A video is generated only when its required asset is in the project, at least as new
\* as the hub had it when the task began (asset_syncer.py, executor.py).
THEOREM AssetsAreAligned == Spec => []JitAligned
<1>1. SInv => JitAligned
  <2>. SUFFICES ASSUME SInv, NEW r \in runs, r.at = "make", "picture" \notin spoiled, r.since > 0
                PROVE  UpToDate(r.worker, "picture", r.since)
    BY DEF JitAligned
  <2>1. kind[r.job] = "video" /\ r.left = <<>> /\ RunSound(r) /\ "picture" \in Name
    BY RunIs DEF SInv, RunSound, Name
  <2>2. "picture" \in Owes(r) /\ Range(r.left) = {}
    BY <2>1 DEF Owes, Range
  <2>3. PICK i \in DOMAIN project[r.worker]["picture"] :
          Serves(r, "picture", project[r.worker]["picture"][i])
    BY <2>1, <2>2 DEF RunSound, Brought
  <2>4. PICK m \in DOMAIN log["picture"] :
          r.since \in DOMAIN log["picture"] /\ r.since <= m
          /\ log["picture"][m] = project[r.worker]["picture"][i]
    BY <2>1, <2>3 DEF Serves, Floor
  <2>5. m \in r.since..Len(log["picture"])
    BY <2>1, <2>4, HubTypes, LenProperties DEF SInv
  <2>. QED
    BY <2>3, <2>4, <2>5 DEF UpToDate
<1>. QED
  BY <1>1, SyncInvariance, PTL

----------------------------------------------------------------------------
(* The order of the uploads *)

\* The names an execution may ask the hub for.
Asset == Name \ {"clip"}

\* The store of a file that waits for its INSERT is the only one of its job and name.
StoresOnce(j) ==
  /\ At(j, "none") => \A n \in Asset : ~Registered(n, j)
  /\ At(j, "store") \/ At(j, "insert") =>
       \A n \in Asset \cap parent[j].left : ~Registered(n, j) /\ \A s \in Waiting(j) : s.name # n
  /\ \A s \in Waiting(j) : s.name \in Asset => ~Registered(s.name, j)

\* No job registers an asset twice: the version tells the registration.
RegisteredOnce ==
  \A n \in Asset : \A i, k \in DOMAIN log[n] : log[n][i] = log[n][k] => i = k

OnceSound ==
  /\ \A j \in Job : StoresOnce(j)
  /\ \A s \in inserting : s.by # None => s.name = "clip"
  /\ RegisteredOnce

\* An execution asks for assets only, and only that of a character collects them.
RunNames(r) ==
  /\ Range(r.left) \subseteq Asset /\ r.batch \subseteq Asset \X Job
  /\ r.batch # {} => kind[r.job] = "character"

NamesSound ==
  (\A r \in runs : RunNames(r)) /\ (\A w \in Worker : project[w]["clip"] = <<>>)

\* Version u of n is registered, and v is u or was registered later.
NotNewer(n, u, v) == \E i, k \in DOMAIN log[n] : i <= k /\ log[n][i] = u /\ log[n][k] = v

\* The execution has been told to bring version v of n.
Fetches(r, n, v) ==
  \/ r.at = "receive" /\ n = Head(r.left) /\ v = disk[n][r.file]
  \/ r.at = "upload" /\ n = Head(r.left) /\ v = r.version
  \/ <<n, v>> \in r.batch

\* A worker executes the task the pool has given it, and nothing else.
OneRunPerWorker ==
  /\ \A r \in runs : busy[r.worker] = r.job
  /\ \A r, q \in runs : r.worker = q.worker => r = q

\* What is in a project was registered.
ProjectRegistered(w) ==
  \A n \in Name \ spoiled : \A i \in DOMAIN project[w][n] : Registered(n, project[w][n][i])

\* What an execution brings was registered, and nothing in the project is newer.
BringsForward(r) ==
  \A n \in Name \ spoiled, v \in Job : Fetches(r, n, v) =>
    /\ Registered(n, v)
    /\ \A i \in DOMAIN project[r.worker][n] : NotNewer(n, project[r.worker][n][i], v)

Forward ==
  /\ OneRunPerWorker
  /\ \A w \in Worker : ProjectRegistered(w)
  /\ \A r \in runs : BringsForward(r)

\* Inductive: as long as no heartbeat lapses, nobody else uploads to the worker between
\* the look at the record and the upload, and the record names the last registration.
OInv == SInv /\ OnceSound /\ NamesSound /\ (spent["lapses"] = 0 => Forward)

\* An upload appends the version to the name's uploads, and nothing else.
LEMMA UploadProject ==
  ASSUME IInv, Sound, NEW r \in runs, Upload(r)
  PROVE  \E w \in Worker, n0 \in Name :
           /\ w = r.worker /\ n0 = Head(r.left) /\ r.version \in Job
           /\ project[w][n0] \in Seq(Job)
           /\ project'[w][n0] = Append(project[w][n0], r.version)
           /\ \A v \in Worker, n \in Name : v # w \/ n # n0 => project'[v][n] = project[v][n]
<1>1. PICK w, n0 : w = r.worker /\ n0 = Head(r.left)
  OBVIOUS
<1>2. w \in Worker /\ n0 \in Name /\ r.version \in Job
  BY <1>1, RunIs DEF Upload, RunHolds
<1>3. project \in [Worker -> [Name -> Seq(Job)]]
  BY DEF IInv, TypeOK, WorkerType
<1>4. project' = [project EXCEPT ![w][n0] = Append(@, r.version)]
  BY <1>1 DEF Upload
<1>5. /\ project[w][n0] \in Seq(Job) /\ project'[w][n0] = Append(project[w][n0], r.version)
      /\ \A v \in Worker, n \in Name : v # w \/ n # n0 => project'[v][n] = project[v][n]
  BY <1>2, <1>3, <1>4
<1>. QED
  BY <1>1, <1>2, <1>5

\* What a character that is made adds to the project: one version of each name at hand.
LEMMA CharacterProject ==
  ASSUME IInv, Sound, NEW r \in runs, CharacterSynced(r)
  PROVE  /\ r.worker \in Worker
         /\ \A v \in Worker, n \in Name : v # r.worker => project'[v][n] = project[v][n]
         /\ \A n \in Name : project[r.worker][n] \in Seq(Job) /\
              \/ project'[r.worker][n] = project[r.worker][n]
              \/ \E v \in Job : <<n, v>> \in r.batch /\ project'[r.worker][n] = Append(project[r.worker][n], v)
<1>. SUFFICES ASSUME NEW w, w = r.worker
              PROVE  /\ w \in Worker
                     /\ \A v \in Worker, n \in Name : v # w => project'[v][n] = project[v][n]
                     /\ \A n \in Name : project[w][n] \in Seq(Job) /\
                          \/ project'[w][n] = project[w][n]
                          \/ \E v \in Job : <<n, v>> \in r.batch /\ project'[w][n] = Append(project[w][n], v)
  OBVIOUS
<1>. DEFINE Of(n) == CHOOSE v \in Job : <<n, v>> \in r.batch
            New(n) == IF \E v \in Job : <<n, v>> \in r.batch
                      THEN Append(project[w][n], Of(n)) ELSE project[w][n]
<1>1. w \in Worker /\ project \in [Worker -> [Name -> Seq(Job)]]
  BY RunIs DEF IInv, TypeOK, WorkerType
<1>2. project' = [project EXCEPT ![w] = [n \in Name |-> New(n)]]
  BY DEF CharacterSynced
<1>3. \A n \in Name : New(n) = project[w][n] \/ \E v \in Job : <<n, v>> \in r.batch /\ New(n) = Append(project[w][n], v)
  <2>. SUFFICES ASSUME NEW n \in Name, \E v \in Job : <<n, v>> \in r.batch
                PROVE  \E v \in Job : <<n, v>> \in r.batch /\ New(n) = Append(project[w][n], v)
    OBVIOUS
  <2>1. Of(n) \in Job /\ <<n, Of(n)>> \in r.batch
    OBVIOUS
  <2>. HIDE DEF Of
  <2>. QED
    BY <2>1
<1>4. /\ \A n \in Name : project'[w][n] = New(n)
      /\ \A v \in Worker, n \in Name : v # w => project'[v][n] = project[v][n]
  <2>. HIDE DEF New
  <2>. QED
    BY <1>1, <1>2
<1>. HIDE DEF New
<1>. QED
  BY <1>1, <1>3, <1>4

\* A step of an execution makes history and projects grow.
LEMMA RunGrows ==
  ASSUME IInv, Sound, NEW r \in runs, RunStep(r)
  PROVE  Grows /\ UNCHANGED <<kind, log>>
<1>1. CASE Upload(r)
  <2>1. UNCHANGED <<kind, disk, log, spoiled>>
    BY <1>1 DEF Upload, hubVars
  <2>3. PICK w \in Worker, n0 \in Name :
          /\ project[w][n0] \in Seq(Job) /\ r.version \in Job
          /\ project'[w][n0] = Append(project[w][n0], r.version)
          /\ \A v \in Worker, n \in Name : v # w \/ n # n0 => project'[v][n] = project[v][n]
    BY <1>1, UploadProject
  <2>4. Prolongs(project[w][n0], project'[w][n0])
    BY <2>3, AppendProlongs
  <2>5. \A v \in Worker, n \in Name : Prolongs(project[v][n], project'[v][n])
    BY <2>3, <2>4 DEF Prolongs
  <2>. QED
    BY <2>1, <2>5 DEF Grows, Prolongs
<1>2. CASE CharacterSynced(r)
  <2>1. UNCHANGED <<kind, disk, log, spoiled>>
    BY <1>2 DEF CharacterSynced, hubVars
  <2>2. ASSUME NEW v \in Worker, NEW n \in Name PROVE Prolongs(project[v][n], project'[v][n])
    <3>1. CASE project'[v][n] = project[v][n]
      BY <3>1 DEF Prolongs
    <3>2. CASE v = r.worker /\ project'[v][n] # project[v][n]
      <4>1. PICK u \in Job : project'[v][n] = Append(project[v][n], u)
        BY <1>2, <3>2, CharacterProject
      <4>2. project[v][n] \in Seq(Job)
        BY <1>2, <3>2, CharacterProject
      <4>. QED
        BY <4>1, <4>2, AppendProlongs
    <3>. QED
      BY <1>2, <3>1, <3>2, CharacterProject
  <2>. QED
    BY <2>1, <2>2 DEF Grows, Prolongs
<1>3. CASE UploadResult(r)
  <2>1. r.job \in Job /\ r.worker \in Worker /\ UNCHANGED project /\ CopyFile(r.job, r.worker, "clip")
    BY <1>3, RunIs DEF UploadResult
  <2>. QED
    BY <2>1, CopyGrows DEF Name
<1>4. CASE Ask(r) \/ PassOver(r) \/ ReadFails(r) \/ Receive(r) \/ ImageSynced(r) \/ Generate(r) \/ RunFails(r)
  <2>1. UNCHANGED <<kind, disk, log, project>> /\ spoiled \subseteq spoiled'
    BY <1>4 DEF Ask, PassOver, ReadFails, Receive, ImageSynced, Generate, RunFails, hubVars
  <2>. QED
    BY <2>1, Still
<1>. QED
  BY <1>1, <1>2, <1>3, <1>4 DEF RunStep

\* So does every other step.
LEMMA NextGrows ==
  ASSUME IInv, IInv', Sound, [Next]_vars
  PROVE  Grows
<1>1. CASE UNCHANGED vars
  BY <1>1, Still DEF vars, hubVars, workerVars
<1>2. ASSUME NEW r \in runs, RunStep(r) PROVE Grows
  BY <1>2, RunGrows
<1>3. ASSUME NEW j \in Job, NEW n \in Name, Store(j, n) PROVE Grows
  BY <1>3, CopyGrows DEF Store, workerVars
<1>4. ASSUME NEW s \in inserting, Stored(s) \/ ResultStored(s) PROVE Grows
  BY <1>4, UpsertSound DEF Stored, ResultStored, workerVars
<1>5. ASSUME NEW j \in Job, ParentStep(j) PROVE Grows
  <2>1. CASE NotMade(j) \/ ListWorkers(j) \/ AllDone(j) \/ PollTimeout(j)
    BY <2>1, Still DEF NotMade, ListWorkers, AllDone, PollTimeout, Collect, hubVars, workerVars
  <2>2. ASSUME NEW w \in Worker, SubmitChild(j, w) PROVE Grows
    BY <2>2, Still DEF SubmitChild, hubVars, workerVars
  <2>3. ASSUME NEW files, Made(j, files) PROVE Grows
    BY <2>3, Still DEF Made, hubVars, workerVars
  <2>. QED
    BY <1>3, <1>4, <1>5, <2>1, <2>2, <2>3 DEF ParentStep
<1>6. ASSUME NEW j \in Job, SubmitFails(j) PROVE Grows
  BY <1>6, Still DEF SubmitFails, hubVars, workerVars
<1>7. ASSUME NEW j \in Job, NEW w \in Worker, SubmitVideo(j, w) \/ Dispatch(j, w) PROVE Grows
  BY <1>7, Still DEF SubmitVideo, Dispatch, hubVars, workerVars
<1>8. ASSUME NEW w \in Worker, Join(w) \/ Lapse(w) \/ Restart(w) PROVE Grows
  BY <1>8, Still DEF Join, Lapse, Restart, hubVars, workerVars
<1>9. ASSUME NEW s \in inserting, StoreFails(s) PROVE Grows
  BY <1>9, Still DEF StoreFails, workerVars
<1>10. CASE Tick
  BY <1>10, Still DEF Tick, workerVars
<1>. QED
  BY <1>1, <1>2, <1>4, <1>5, <1>6, <1>7, <1>8, <1>9, <1>10 DEF Next

\* A store stays the only one where nothing is registered and nothing waits that did not.
LEMMA StoresOnceStays ==
  ASSUME NEW j \in Job, StoresOnce(j), Waiting(j)' \subseteq Waiting(j),
         \A n \in Asset : Registered(n, j)' => Registered(n, j),
         parent'[j] = parent[j] \/ parent'[j].at \in {"submit", "poll", "COMPLETED", "FAILED"}
  PROVE  StoresOnce(j)'
<1>1. \A s \in Waiting(j)' : s \in Waiting(j)
  OBVIOUS
<1>2. Asset' = Asset
  BY DEF Asset, Name
<1>. QED
  BY <1>1, <1>2 DEF StoresOnce, At

\* Nobody registers or stores anything.
LEMMA OnceUntouched ==
  ASSUME OnceSound, UNCHANGED log, inserting' \subseteq inserting,
         \A j \in Job : parent'[j] = parent[j] \/ parent'[j].at \in {"submit", "poll", "COMPLETED", "FAILED"}
  PROVE  OnceSound'
<1>1. \A j \in Job : Waiting(j)' \subseteq Waiting(j)
  BY DEF Waiting
<1>2. \A n, j : Registered(n, j)' => Registered(n, j)
  BY DEF Registered
<1>3. \A j \in Job : StoresOnce(j)'
  BY <1>1, <1>2, StoresOnceStays DEF OnceSound
<1>4. RegisteredOnce'
  BY DEF OnceSound, RegisteredOnce
<1>. QED
  BY <1>3, <1>4 DEF OnceSound

\* Made: nothing was registered, and nothing waits.
LEMMA MadeOnce ==
  ASSUME IInv, Sound, OnceSound, NEW j \in Job, NEW files \in SUBSET Range(Makes(j)), Made(j, files)
  PROVE  OnceSound'
<1>1. At(j, "none") /\ UNCHANGED <<inserting, log>> /\ GoTo(j, "store", files)
  BY DEF Made, hubVars
<1>2. parent'[j].at = "store" /\ \A i \in Job \ {j} : parent'[i] = parent[i]
  BY <1>1, GoesTo
<1>3. \A i : Waiting(i)' = Waiting(i) /\ \A n : Registered(n, i)' <=> Registered(n, i)
  BY <1>1 DEF Waiting, Registered
<1>4. Waiting(j) = {} /\ \A n \in Asset : ~Registered(n, j)
  BY <1>1, JobIs DEF JobSound, At, OnceSound, StoresOnce
<1>5. StoresOnce(j)'
  BY <1>2, <1>3, <1>4 DEF StoresOnce, At, Asset, Name
<1>6. \A i \in Job \ {j} : StoresOnce(i)'
  BY <1>2, <1>3, StoresOnceStays DEF OnceSound
<1>7. RegisteredOnce'
  BY <1>1 DEF OnceSound, RegisteredOnce
<1>. QED
  BY <1>1, <1>5, <1>6, <1>7 DEF OnceSound

\* Store: the file waits for its INSERT and is no longer to be stored.
LEMMA StoreOnce ==
  ASSUME IInv, Sound, OnceSound, NEW j \in Job, NEW n \in Name, Store(j, n)
  PROVE  OnceSound'
<1>. SUFFICES ASSUME NEW new, new = [job |-> j, by |-> None, name |-> n, file |-> now] PROVE OnceSound'
  OBVIOUS
<1>1. /\ At(j, "store") /\ n \in parent[j].left /\ inserting' = inserting \cup {new} /\ UNCHANGED log
      /\ GoTo(j, "insert", parent[j].left \ {n})
  BY DEF Store, CopyFile
<1>2. new.job = j /\ new.by = None /\ new.name = n
  OBVIOUS
<1>3. /\ parent'[j].at = "insert" /\ parent'[j].left = parent[j].left \ {n}
      /\ \A i \in Job \ {j} : parent'[i] = parent[i]
  BY <1>1, GoesTo
<1>4. Waiting(j) = {}
  BY <1>1, JobIs DEF JobSound, At
<1>5. Waiting(j)' = {new} /\ \A i \in Job \ {j} : Waiting(i)' = Waiting(i)
  BY <1>1, <1>2, <1>4 DEF Waiting
<1>6. \A m, i : Registered(m, i)' <=> Registered(m, i)
  BY <1>1 DEF Registered
<1>7. \A m \in Asset \cap parent[j].left : ~Registered(m, j)
  BY <1>1 DEF OnceSound, StoresOnce
<1>8. StoresOnce(j)'
  <2>1. Asset' = Asset /\ \A s \in Waiting(j)' : s.name = n
    BY <1>2, <1>5 DEF Asset, Name
  <2>. QED
    BY <1>1, <1>3, <1>6, <1>7, <2>1 DEF StoresOnce, At
<1>9. \A i \in Job \ {j} : StoresOnce(i)'
  BY <1>3, <1>5, <1>6, StoresOnceStays DEF OnceSound
<1>10. RegisteredOnce'
  BY <1>1 DEF OnceSound, RegisteredOnce
<1>11. \A s \in inserting' : s.by # None => s.name = "clip"
  BY <1>1, <1>2 DEF OnceSound
<1>. QED
  BY <1>8, <1>9, <1>10, <1>11 DEF OnceSound

\* An INSERT registers the store's job under its name.
LEMMA UpsertRegisters ==
  ASSUME IInv, NEW s \in inserting, Upsert(s)
  PROVE  /\ s.name \in Name /\ s.job \in Job /\ log[s.name] \in Seq(Job)
         /\ log'[s.name] = Append(log[s.name], s.job)
         /\ \A n \in Name \ {s.name} : log'[n] = log[n]
         /\ \A n \in Name, j \in Job :
              Registered(n, j)' => Registered(n, j) \/ (n = s.name /\ j = s.job)
<1>1. s.name \in Name /\ s.job \in Job /\ log \in [Name -> Seq(Job)]
  BY DEF IInv, TypeOK, HubType, Stores
<1>2. /\ log'[s.name] = Append(log[s.name], s.job) /\ log[s.name] \in Seq(Job)
      /\ \A n \in Name \ {s.name} : log'[n] = log[n]
  BY <1>1 DEF Upsert
<1>3. \A k \in DOMAIN log'[s.name] : (k \in DOMAIN log[s.name] /\ log'[s.name][k] = log[s.name][k])
                                      \/ (k = Len(log[s.name]) + 1 /\ log'[s.name][k] = s.job)
  BY <1>1, <1>2, AppendProperties, LenProperties
<1>. QED
  BY <1>1, <1>2, <1>3 DEF Registered

\* Stored: the registration is the first of its job under this name.
LEMMA StoredOnce ==
  ASSUME IInv, Sound, OnceSound, NEW s \in inserting, Stored(s)
  PROVE  OnceSound'
<1>. SUFFICES ASSUME NEW j, j = s.job, NEW n, n = s.name PROVE OnceSound'
  OBVIOUS
<1>1. /\ Upsert(s) /\ s.by = None /\ inserting' = inserting \ {s} /\ GoTo(j, "store", parent[j].left)
      /\ n \in Name /\ j \in Job /\ log[n] \in Seq(Job)
      /\ log'[n] = Append(log[n], j) /\ \A m \in Name \ {n} : log'[m] = log[m]
  BY UpsertRegisters DEF Stored, Upsert
<1>2. \A m \in Name, i \in Job : Registered(m, i)' => Registered(m, i) \/ (m = n /\ i = j)
  BY <1>1, UpsertRegisters
<1>3. /\ parent'[j].at = "store" /\ parent'[j].left = parent[j].left
      /\ \A i \in Job \ {j} : parent'[i] = parent[i]
  BY <1>1, GoesTo
<1>4. s \in Waiting(j) /\ JobSound(j) /\ StoresOnce(j) /\ Asset \subseteq Name
  BY <1>1, JobIs DEF Waiting, OnceSound, Asset
<1>5. Waiting(j) = {s} /\ At(j, "insert")
  BY <1>4 DEF JobSound
<1>6. Waiting(j)' = {} /\ \A i \in Job \ {j} : Waiting(i)' = Waiting(i)
  BY <1>1, <1>5 DEF Waiting
<1>7. StoresOnce(j)'
  <2>1. \A m \in Asset \cap parent[j].left : ~Registered(m, j) /\ m # n
    BY <1>4, <1>5 DEF StoresOnce
  <2>2. \A m \in Asset \cap parent[j].left : ~Registered(m, j)'
    BY <1>1, <1>2, <1>4, <2>1
  <2>. QED
    BY <1>3, <1>6, <2>2 DEF StoresOnce, At, Asset, Name
<1>8. \A i \in Job \ {j} : StoresOnce(i)'
  BY <1>2, <1>3, <1>4, <1>6, StoresOnceStays DEF OnceSound
<1>9. ASSUME NEW m \in Asset, NEW a \in DOMAIN log'[m], NEW b \in DOMAIN log'[m], log'[m][a] = log'[m][b]
      PROVE  a = b
  <2>1. CASE m # n
    BY <1>1, <1>4, <1>9, <2>1 DEF OnceSound, RegisteredOnce
  <2>2. CASE m = n
    <3>1. ~Registered(n, j)
      BY <1>4, <1>9, <2>2 DEF StoresOnce
    <3>2. \A k \in DOMAIN log[n] : log[n][k] # j
      BY <3>1 DEF Registered
    <3>3. \A k \in DOMAIN log'[n] : (k \in DOMAIN log[n] /\ log'[n][k] = log[n][k])
                                     \/ (k = Len(log[n]) + 1 /\ log'[n][k] = j)
      BY <1>1, AppendProperties, LenProperties
    <3>. QED
      BY <1>9, <2>2, <3>2, <3>3 DEF OnceSound, RegisteredOnce
  <2>. QED
    BY <2>1, <2>2
<1>10. RegisteredOnce'
  BY <1>9 DEF RegisteredOnce, Asset, Name
<1>. QED
  BY <1>1, <1>7, <1>8, <1>10 DEF OnceSound

\* UploadResult and ResultStored: the handler stores clips only.
LEMMA ResultOnce ==
  ASSUME IInv, Sound, OnceSound,
         \/ \E r \in runs : UploadResult(r)
         \/ \E s \in inserting : ResultStored(s)
  PROVE  OnceSound'
<1>1. ASSUME NEW r \in runs, UploadResult(r) PROVE OnceSound'
  <2>. SUFFICES ASSUME NEW new, new = [job |-> r.job, by |-> r.worker, name |-> "clip", file |-> now]
                PROVE  OnceSound'
    OBVIOUS
  <2>1. /\ inserting' = inserting \cup {new} /\ UNCHANGED <<log, parent>>
        /\ new.by = r.worker /\ new.name = "clip" /\ r.worker # None
    BY <1>1, RunIs, NoneAssumption DEF UploadResult, CopyFile, parentVars
  <2>2. \A i : Waiting(i)' = Waiting(i) /\ \A n : Registered(n, i)' <=> Registered(n, i)
    BY <2>1 DEF Waiting, Registered
  <2>3. \A i \in Job : StoresOnce(i)'
    BY <2>1, <2>2, StoresOnceStays DEF OnceSound
  <2>. QED
    BY <2>1, <2>3 DEF OnceSound, RegisteredOnce
<1>2. ASSUME NEW s \in inserting, ResultStored(s) PROVE OnceSound'
  <2>1. /\ Upsert(s) /\ s.by # None /\ s.name = "clip" /\ inserting' = inserting \ {s} /\ UNCHANGED parent
    BY <1>2 DEF ResultStored, Upsert, parentVars, OnceSound
  <2>2. \A n \in Asset : n \in Name /\ n # s.name /\ log'[n] = log[n]
    BY <2>1, UpsertRegisters DEF Asset
  <2>3. \A i : Waiting(i)' = Waiting(i) /\ \A n \in Asset : Registered(n, i)' <=> Registered(n, i)
    BY <2>1, <2>2 DEF Waiting, Registered
  <2>4. \A i \in Job : StoresOnce(i)'
    BY <2>1, <2>3, StoresOnceStays DEF OnceSound
  <2>5. RegisteredOnce'
    BY <2>2 DEF OnceSound, RegisteredOnce, Asset, Name
  <2>. QED
    BY <2>1, <2>4, <2>5 DEF OnceSound
<1>. QED
  BY <1>1, <1>2

\* Every step keeps it so.
LEMMA NextOnce ==
  ASSUME IInv, Sound, OnceSound, [Next]_vars
  PROVE  OnceSound'
<1>1. CASE UNCHANGED <<log, inserting, parent>>
  BY <1>1, OnceUntouched
<1>2. ASSUME NEW j \in Job, ParentStep(j) \/ SubmitFails(j) PROVE OnceSound'
  <2>1. ASSUME UNCHANGED <<log, inserting>>, NEW at \in {"submit", "poll", "COMPLETED", "FAILED"},
               NEW left, GoTo(j, at, left)
        PROVE  OnceSound'
    BY <2>1, GoesTo, OnceUntouched
  <2>2. CASE NotMade(j) \/ ListWorkers(j) \/ AllDone(j) \/ PollTimeout(j) \/ SubmitFails(j)
    BY <2>1, <2>2 DEF NotMade, ListWorkers, AllDone, PollTimeout, Collect, SubmitFails, hubVars
  <2>3. ASSUME NEW w \in Worker, SubmitChild(j, w) PROVE OnceSound'
    BY <2>1, <2>3 DEF SubmitChild, hubVars
  <2>. QED
    BY <1>2, <2>2, <2>3, MadeOnce, StoreOnce, StoredOnce DEF ParentStep
<1>3. ASSUME NEW s \in inserting, StoreFails(s) PROVE OnceSound'
  <2>1. s.job \in Job /\ GoTo(s.job, "FAILED", {}) /\ UNCHANGED log /\ inserting' \subseteq inserting
    BY <1>3 DEF StoreFails, IInv, TypeOK, HubType, Stores
  <2>. QED
    BY <2>1, GoesTo, OnceUntouched
<1>4. ASSUME NEW r \in runs, RunStep(r), ~UploadResult(r) PROVE UNCHANGED <<log, inserting, parent>>
  BY <1>4 DEF RunStep, Ask, PassOver, ReadFails, Receive, Upload, ImageSynced, CharacterSynced,
              Generate, RunFails, hubVars, parentVars
<1>5. ASSUME NEW j \in Job, NEW w \in Worker, SubmitVideo(j, w) \/ Dispatch(j, w)
      PROVE  UNCHANGED <<log, inserting, parent>>
  BY <1>5 DEF SubmitVideo, Dispatch, hubVars, parentVars
<1>6. ASSUME NEW w \in Worker, Join(w) \/ Lapse(w) \/ Restart(w)
      PROVE  UNCHANGED <<log, inserting, parent>>
  BY <1>6 DEF Join, Lapse, Restart, hubVars, parentVars
<1>7. Tick => UNCHANGED <<log, inserting, parent>>
  BY DEF Tick, parentVars
<1>8. UNCHANGED vars => UNCHANGED <<log, inserting, parent>>
  BY DEF vars, hubVars, parentVars
<1>. QED
  BY <1>1, <1>2, <1>3, <1>4, <1>5, <1>6, <1>7, <1>8, ResultOnce DEF Next

\* What the execution q that r becomes asks for, has at hand and fetches.
Becomes(r, q) ==
  /\ Step(r, q) /\ busy' = busy /\ q.job = r.job /\ q.worker = r.worker
  /\ q.at = "receive" => disk' = disk
  /\ q.left = r.left \/ (r.left # <<>> /\ q.left = Tail(r.left))
  /\ \A x \in q.batch : \/ x \in r.batch
                        \/ /\ kind[r.job] = "character" /\ r.at = "receive"
                           /\ x = <<Head(r.left), disk[Head(r.left)][r.file]>>
  /\ \A n, v : Fetches(q, n, v) =>
       Fetches(r, n, v) \/ (table[n] # None /\ n = Head(r.left) /\ v = disk[n][table[n].file])

\* An execution ends, and the worker is IDLE, or it goes on.
LEMMA RunMovesOn ==
  ASSUME IInv, Sound, NEW r \in runs, RunStep(r)
  PROVE  \/ runs' = runs \ {r} /\ busy' = [busy EXCEPT ![r.worker] = None]
         \/ \E q : Becomes(r, q)
<1>1. r \in Runs /\ UNCHANGED kind
  BY RunIs, RunGrows
<1>2. CASE ImageSynced(r) \/ CharacterSynced(r) \/ RunFails(r)
  BY <1>2 DEF ImageSynced, CharacterSynced, RunFails, Completed, Failed
<1>3. CASE Ask(r)
  <2>1. PICK q : q = [r EXCEPT !.at = "receive", !.file = table[Head(r.left)].file]
    OBVIOUS
  <2>2. /\ q.job = r.job /\ q.worker = r.worker /\ q.left = r.left /\ q.batch = r.batch
        /\ q.at = "receive" /\ q.file = table[Head(r.left)].file
    BY <1>1, <2>1 DEF Runs
  <2>3. Step(r, q) /\ busy' = busy /\ table[Head(r.left)] # None /\ disk' = disk
    BY <1>3, <2>1 DEF Ask, poolVars, hubVars
  <2>. QED
    BY <2>2, <2>3 DEF Becomes, Fetches
<1>4. CASE PassOver(r) \/ ReadFails(r)
  <2>1. PICK q : q = [r EXCEPT !.left = Tail(@)]
    OBVIOUS
  <2>2. /\ q.job = r.job /\ q.worker = r.worker /\ q.left = Tail(r.left) /\ q.batch = r.batch
        /\ q.at = r.at
    BY <1>1, <2>1 DEF Runs
  <2>3. Step(r, q) /\ busy' = busy /\ r.left # <<>> /\ r.at = "sync"
    BY <1>4, <2>1 DEF PassOver, ReadFails, poolVars
  <2>. QED
    BY <2>2, <2>3 DEF Becomes, Fetches
<1>5. CASE Receive(r)
  <2>. DEFINE version == disk[Head(r.left)][r.file]
              next == [r EXCEPT !.at = "sync", !.left = Tail(@)]
  <2>1. r.at = "receive" /\ busy' = busy /\ r.left # <<>>
    BY <1>5, RunIs DEF Receive, poolVars, RunHolds
  <2>2. CASE kind[r.job] = "character"
    <3>1. PICK q : q = [next EXCEPT !.batch = @ \cup {<<Head(r.left), version>>}]
      OBVIOUS
    <3>2. /\ q.job = r.job /\ q.worker = r.worker /\ q.left = Tail(r.left) /\ q.at = "sync"
          /\ q.batch = r.batch \cup {<<Head(r.left), version>>}
      BY <1>1, <3>1 DEF Runs
    <3>3. Step(r, q)
      BY <1>5, <2>2, <3>1 DEF Receive
    <3>. QED
      BY <2>1, <2>2, <3>2, <3>3 DEF Becomes, Fetches
  <2>3. CASE kind[r.job] # "character" /\ Known(r)
    <3>1. PICK q : q = next
      OBVIOUS
    <3>2. /\ q.job = r.job /\ q.worker = r.worker /\ q.left = Tail(r.left) /\ q.at = "sync"
          /\ q.batch = r.batch
      BY <1>1, <3>1 DEF Runs
    <3>3. Step(r, q)
      BY <1>5, <2>3, <3>1 DEF Receive
    <3>. QED
      BY <2>1, <3>2, <3>3 DEF Becomes, Fetches
  <2>4. CASE kind[r.job] # "character" /\ ~Known(r)
    <3>1. PICK q : q = [r EXCEPT !.at = "upload", !.version = version]
      OBVIOUS
    <3>2. /\ q.job = r.job /\ q.worker = r.worker /\ q.left = r.left /\ q.at = "upload"
          /\ q.batch = r.batch /\ q.version = version
      BY <1>1, <3>1 DEF Runs
    <3>3. Step(r, q)
      BY <1>5, <2>4, <3>1 DEF Receive
    <3>. QED
      BY <2>1, <3>2, <3>3 DEF Becomes, Fetches
  <2>. QED
    BY <2>2, <2>3, <2>4
<1>6. CASE Upload(r)
  <2>1. PICK q : q = [r EXCEPT !.at = "sync", !.left = Tail(@), !.version = None]
    OBVIOUS
  <2>2. /\ q.job = r.job /\ q.worker = r.worker /\ q.left = Tail(r.left) /\ q.batch = r.batch
        /\ q.at = "sync"
    BY <1>1, <2>1 DEF Runs
  <2>3. Step(r, q) /\ busy' = busy /\ r.left # <<>>
    BY <1>6, <2>1, RunIs DEF Upload, poolVars, RunHolds
  <2>. QED
    BY <2>2, <2>3 DEF Becomes, Fetches
<1>7. ASSUME NEW at \in {"make", "insert"}, Step(r, [r EXCEPT !.at = at]), busy' = busy
      PROVE  \E q : Becomes(r, q)
  <2>1. PICK q : q = [r EXCEPT !.at = at]
    OBVIOUS
  <2>2. /\ q.job = r.job /\ q.worker = r.worker /\ q.left = r.left /\ q.batch = r.batch
        /\ q.at = at
    BY <1>1, <2>1 DEF Runs
  <2>. QED
    BY <1>7, <2>1, <2>2 DEF Becomes, Fetches
<1>8. CASE Generate(r) \/ UploadResult(r)
  BY <1>7, <1>8 DEF Generate, UploadResult, poolVars
<1>. QED
  BY <1>2, <1>3, <1>4, <1>5, <1>6, <1>8 DEF RunStep

\* A job asks for assets.
LEMMA AsksForAssets ==
  ASSUME IInv, NEW j \in Job
  PROVE  Range(Asks(j)) \subseteq Asset
<1>1. kind[j] \in {"image", "character", "video"}
  BY MixAssumption DEF IInv, TypeOK
<1>2. CASE kind[j] \in {"image", "video"}
  BY <1>2 DEF Asks, Asset, Name, Range
<1>3. CASE kind[j] = "character"
  <2>1. Asks(j) = IfHas(j, "portrait") \o IfHas(j, "fullbody")
    BY <1>3 DEF Asks
  <2>2. \A n \in Name : IfHas(j, n) \in Seq(Name) /\ Range(IfHas(j, n)) \subseteq {n}
    <3>. SUFFICES ASSUME NEW n \in Name
                  PROVE  IfHas(j, n) \in Seq(Name) /\ Range(IfHas(j, n)) \subseteq {n}
      OBVIOUS
    <3>1. CASE n \in has[j]
      BY <3>1 DEF IfHas, Range
    <3>2. CASE n \notin has[j]
      BY <3>2 DEF IfHas, Range
    <3>. QED
      BY <3>1, <3>2
  <2>3. "portrait" \in Name /\ "fullbody" \in Name
    BY DEF Name
  <2>4. Range(Asks(j)) = Range(IfHas(j, "portrait")) \cup Range(IfHas(j, "fullbody"))
    BY <2>1, <2>2, <2>3, RangeConcatenation
  <2>5. Range(Asks(j)) \subseteq {"portrait", "fullbody"}
    BY <2>2, <2>3, <2>4
  <2>. QED
    BY <2>5 DEF Asset, Name
<1>. QED
  BY <1>1, <1>2, <1>3

\* What a new execution is made of.
LEMMA NewRunIs ==
  ASSUME IInv, NEW j \in Job, NEW w \in Worker
  PROVE  /\ NewRun(j, w).job = j /\ NewRun(j, w).worker = w /\ NewRun(j, w).at = "sync"
         /\ NewRun(j, w).left = Asks(j) /\ NewRun(j, w).batch = {}
  BY DEF NewRun

\* The names of an execution stay assets.
LEMMA NamesMove ==
  ASSUME IInv, Sound, NEW r \in runs, RunNames(r), NEW q, Becomes(r, q), kind' = kind
  PROVE  RunNames(q)'
<1>1. r.left \in Seq(Name) /\ (r.at = "receive" => r.left # <<>> /\ disk[Head(r.left)][r.file] \in Job)
  BY RunIs DEF RunHolds
<1>2. r.left # <<>> => Range(Tail(r.left)) \subseteq Range(r.left) /\ Head(r.left) \in Range(r.left)
  BY <1>1, HeadTailProperties DEF Range
<1>3. Range(q.left) \subseteq Asset
  BY <1>2 DEF RunNames, Becomes
<1>4. q.batch \subseteq Asset \X Job /\ (q.batch # {} => kind[q.job] = "character")
  BY <1>1, <1>2 DEF RunNames, Becomes
<1>. QED
  BY <1>3, <1>4 DEF RunNames, Asset, Name

\* Every step of an execution keeps the names.
LEMMA RunStepNames ==
  ASSUME IInv, Sound, NamesSound, NEW r \in runs, RunStep(r)
  PROVE  NamesSound'
<1>1. UNCHANGED kind /\ Asset' = Asset /\ RunNames(r)
  BY RunGrows DEF Asset, Name, NamesSound
<1>2. \A p \in runs : RunNames(p)'
  BY <1>1 DEF NamesSound, RunNames
<1>3. \A q \in runs' : RunNames(q)'
  BY <1>1, <1>2, RunMovesOn, NamesMove DEF Becomes, Step
<1>4. ASSUME NEW w \in Worker PROVE project'[w]["clip"] = <<>>
  <2>1. "clip" \in Name /\ "clip" \notin Asset /\ project[w]["clip"] = <<>>
    BY DEF Name, Asset, NamesSound
  <2>2. CASE Upload(r)
    <3>1. r.left \in Seq(Name) /\ r.left # <<>>
      BY <2>2, RunIs DEF Upload, RunHolds
    <3>2. Head(r.left) \in Range(r.left)
      BY <3>1 DEF Range
    <3>3. Head(r.left) # "clip"
      BY <1>1, <2>1, <3>2 DEF RunNames
    <3>. QED
      BY <2>1, <2>2, <3>3, UploadProject
  <2>3. CASE CharacterSynced(r)
    <3>1. \A v : <<"clip", v>> \notin r.batch
      BY <1>1, <2>1 DEF RunNames
    <3>. QED
      BY <2>1, <2>3, <3>1, CharacterProject
  <2>4. CASE ~Upload(r) /\ ~CharacterSynced(r)
    <3>1. UNCHANGED project
      BY <2>4 DEF RunStep, Ask, PassOver, ReadFails, Receive, ImageSynced, Generate, UploadResult, RunFails
    <3>. QED
      BY <2>1, <3>1
  <2>. QED
    BY <2>2, <2>3, <2>4
<1>. QED
  BY <1>3, <1>4 DEF NamesSound

\* Every step keeps the names.
LEMMA NextNames ==
  ASSUME IInv, Sound, NamesSound, [Next]_vars
  PROVE  NamesSound'
<1>1. ASSUME UNCHANGED <<kind, project>>, runs' \subseteq runs PROVE NamesSound'
  BY <1>1 DEF NamesSound, RunNames, Asset, Name
<1>2. ASSUME NEW r \in runs, RunStep(r) PROVE NamesSound'
  BY <1>2, RunStepNames
<1>3. ASSUME NEW j \in Job, NEW w \in Worker, SubmitVideo(j, w) \/ Dispatch(j, w) PROVE NamesSound'
  <2>1. CASE SubmitVideo(j, w)
    BY <1>1, <2>1 DEF SubmitVideo, workerVars
  <2>2. CASE Dispatch(j, w)
    <3>1. UNCHANGED <<kind, project>> /\ runs' = runs \cup {NewRun(j, w)}
      BY <2>2 DEF Dispatch
    <3>2. RunNames(NewRun(j, w))
      BY NewRunIs, AsksForAssets DEF RunNames
    <3>3. \A r \in runs' : RunNames(r)
      BY <3>1, <3>2 DEF NamesSound
    <3>4. \A r \in runs' : RunNames(r)'
      BY <3>1, <3>3 DEF RunNames, Asset, Name
    <3>. QED
      BY <3>1, <3>4 DEF NamesSound
  <2>. QED
    BY <1>3, <2>1, <2>2
<1>4. ASSUME NEW j \in Job, ParentStep(j) \/ SubmitFails(j) PROVE UNCHANGED <<kind, project, runs>>
  BY <1>4 DEF ParentStep, Made, NotMade, ListWorkers, AllDone, PollTimeout, Collect, Store, CopyFile,
              SubmitChild, Stored, Upsert, SubmitFails, workerVars
<1>5. ASSUME NEW w \in Worker, Join(w) \/ Lapse(w) \/ Restart(w)
      PROVE  UNCHANGED <<kind, project>> /\ runs' \subseteq runs
  BY <1>5 DEF Join, Lapse, Restart, workerVars
<1>6. ASSUME NEW s \in inserting, StoreFails(s) \/ ResultStored(s)
      PROVE  UNCHANGED <<kind, project>> /\ runs' \subseteq runs
  BY <1>6 DEF StoreFails, ResultStored, Upsert, workerVars
<1>7. Tick \/ UNCHANGED vars => UNCHANGED <<kind, project, runs>>
  BY DEF Tick, vars, workerVars
<1>. QED
  BY <1>1, <1>2, <1>3, <1>4, <1>5, <1>6, <1>7 DEF Next

\* The order of two registrations stays.
LEMMA NotNewerStays ==
  ASSUME Grows, NEW n \in Name, NEW u, NEW v, NotNewer(n, u, v)
  PROVE  NotNewer(n, u, v)'
<1>1. PICK i \in DOMAIN log[n], k \in DOMAIN log[n] : i <= k /\ log[n][i] = u /\ log[n][k] = v
  BY DEF NotNewer
<1>2. /\ i \in DOMAIN log'[n] /\ log'[n][i] = u
      /\ k \in DOMAIN log'[n] /\ log'[n][k] = v
  BY <1>1 DEF Grows, Prolongs
<1>. QED
  BY <1>1, <1>2 DEF NotNewer

\* A worker's project stays registered while nobody uploads to it.
LEMMA ProjectStays ==
  ASSUME IInv, Grows, NEW w \in Worker, ProjectRegistered(w), project'[w] = project[w]
  PROVE  ProjectRegistered(w)'
<1>. SUFFICES ASSUME NEW n \in Name \ spoiled', NEW i \in DOMAIN project[w][n]
              PROVE  Registered(n, project[w][n][i])'
  BY DEF ProjectRegistered, Name
<1>1. Registered(n, project[w][n][i]) /\ spoiled \subseteq spoiled'
  BY DEF ProjectRegistered, Grows
<1>2. project[w][n][i] \in Job
  BY HubTypes, ElementOfSeq, LenProperties
<1>. QED
  BY <1>1, <1>2, RegisteredStays

\* So does what an execution brings.
LEMMA BringsStays ==
  ASSUME IInv, Grows, NEW r, r.worker \in Worker, r.file \in Second,
         r.at = "receive" => Head(r.left) \in Name /\ disk[Head(r.left)][r.file] \in Job,
         BringsForward(r), project'[r.worker] = project[r.worker]
  PROVE  BringsForward(r)'
<1>. SUFFICES ASSUME NEW n \in Name \ spoiled', NEW v \in Job, Fetches(r, n, v)'
              PROVE  /\ Registered(n, v)'
                     /\ \A i \in DOMAIN project[r.worker][n] : NotNewer(n, project[r.worker][n][i], v)'
  BY DEF BringsForward, Name
<1>1. n \in Name \ spoiled /\ (disk[n][r.file] \in Job => disk'[n][r.file] = disk[n][r.file])
  BY DEF Grows
<1>2. Fetches(r, n, v)
  BY <1>1 DEF Fetches
<1>3. Registered(n, v) /\ \A i \in DOMAIN project[r.worker][n] : NotNewer(n, project[r.worker][n][i], v)
  BY <1>1, <1>2 DEF BringsForward
<1>. QED
  BY <1>1, <1>3, RegisteredStays, NotNewerStays

\* An execution that goes on brings what it brought, or what the record names.
LEMMA BringsMoves ==
  ASSUME IInv, Sound, NEW r \in runs, NEW q, Becomes(r, q), BringsForward(r),
         ProjectRegistered(r.worker)
  PROVE  BringsForward(q)
<1>. SUFFICES ASSUME NEW n \in Name \ spoiled, NEW v \in Job, Fetches(q, n, v)
              PROVE  /\ Registered(n, v)
                     /\ \A i \in DOMAIN project[r.worker][n] : NotNewer(n, project[r.worker][n][i], v)
  BY DEF BringsForward, Becomes
<1>1. CASE Fetches(r, n, v)
  BY <1>1 DEF BringsForward
<1>2. CASE table[n] # None /\ v = disk[n][table[n].file]
  <2>1. v = table[n].version /\ log[n] # <<>> /\ log[n][Len(log[n])] = v
    BY <1>2 DEF IInv, HubHolds, RecordIsWhole, Sound, RecordIsLast
  <2>2. log[n] \in Seq(Job) /\ DOMAIN log[n] = 1..Len(log[n]) /\ Len(log[n]) \in Nat /\ Len(log[n]) # 0
    BY <2>1, HubTypes, LenProperties, EmptySeq
  <2>3. Len(log[n]) \in DOMAIN log[n] /\ \A i \in DOMAIN log[n] : i <= Len(log[n])
    BY <2>2
  <2>4. Registered(n, v)
    BY <2>1, <2>3 DEF Registered
  <2>5. ASSUME NEW i \in DOMAIN project[r.worker][n] PROVE NotNewer(n, project[r.worker][n][i], v)
    <3>1. PICK k \in DOMAIN log[n] : log[n][k] = project[r.worker][n][i]
      BY <2>5 DEF ProjectRegistered, Registered
    <3>. QED
      BY <2>1, <2>3, <3>1 DEF NotNewer
  <2>. QED
    BY <2>4, <2>5
<1>. QED
  BY <1>1, <1>2 DEF Becomes

\* Every step that uploads nothing and starts nothing keeps the order: executions end
\* together with the pool's entry.
LEMMA ForwardUntouched ==
  ASSUME IInv, Sound, Grows, Forward, UNCHANGED project, runs' \subseteq runs,
         \A r \in runs' : busy'[r.worker] = busy[r.worker]
  PROVE  Forward'
<1>1. OneRunPerWorker'
  BY DEF Forward, OneRunPerWorker
<1>2. \A w \in Worker : ProjectRegistered(w)'
  BY ProjectStays DEF Forward
<1>3. \A r \in runs' : BringsForward(r)'
  BY RunIs, BringsStays DEF Forward, RunHolds
<1>. QED
  BY <1>1, <1>2, <1>3 DEF Forward

\* An execution that goes on without an upload keeps the order.
LEMMA ForwardMoves ==
  ASSUME IInv, IInv', Sound, Grows, Forward, UNCHANGED project, NEW r \in runs, NEW q, Becomes(r, q)
  PROVE  Forward'
<1>1. runs' = (runs \ {r}) \cup {q} /\ q.worker = r.worker /\ q.job = r.job /\ busy' = busy
  BY DEF Becomes, Step
<1>2. OneRunPerWorker'
  BY <1>1 DEF Forward, OneRunPerWorker
<1>3. \A w \in Worker : ProjectRegistered(w)'
  BY ProjectStays DEF Forward
<1>4. \A p \in runs \ {r} : BringsForward(p)'
  BY RunIs, BringsStays DEF Forward, RunHolds
<1>5. BringsForward(q)'
  <2>1. r.worker \in Worker /\ BringsForward(q)
    BY RunIs, BringsMoves DEF Forward
  <2>2. q \in runs' /\ q \in Runs /\ RunHolds(q)'
    BY <1>1 DEF IInv, TypeOK, WorkerType, RunsHold
  <2>3. q.file \in Second /\ q.left \in Seq(Name)
        /\ (q.at = "receive" => q.left # <<>> /\ disk[Head(q.left)][q.file] \in Job)
    BY <2>2 DEF Runs, RunHolds, Becomes
  <2>4. q.at = "receive" => Head(q.left) \in Name
    BY <2>3, HeadTailProperties
  <2>. QED
    BY <1>1, <2>1, <2>3, <2>4, BringsStays
<1>. QED
  BY <1>1, <1>2, <1>3, <1>4, <1>5 DEF Forward

\* Upload keeps the order: the version goes behind what it is not older than, and the
\* worker has no other execution.
LEMMA UploadForward ==
  ASSUME IInv, IInv', Sound, NamesSound, Grows, Forward, NEW r \in runs, Upload(r)
  PROVE  Forward'
<1>1. PICK w \in Worker, n0 \in Name :
        /\ w = r.worker /\ n0 = Head(r.left) /\ r.version \in Job
        /\ project[w][n0] \in Seq(Job)
        /\ project'[w][n0] = Append(project[w][n0], r.version)
        /\ \A v \in Worker, n \in Name : v # w \/ n # n0 => project'[v][n] = project[v][n]
  BY UploadProject
<1>2. PICK q : q = [r EXCEPT !.at = "sync", !.left = Tail(@), !.version = None]
  OBVIOUS
<1>3. /\ r.at = "upload" /\ runs' = (runs \ {r}) \cup {q} /\ UNCHANGED <<busy, log, spoiled>>
      /\ r \in Runs /\ RunSound(r) /\ RunNames(r)
  BY <1>2, RunIs DEF Upload, Step, poolVars, hubVars, NamesSound
<1>4. q.job = r.job /\ q.worker = r.worker /\ q.at = "sync" /\ q.batch = {}
  <2>1. q.job = r.job /\ q.worker = r.worker /\ q.at = "sync" /\ q.batch = r.batch
    BY <1>2, <1>3 DEF Runs
  <2>. QED
    BY <1>3, <2>1 DEF RunSound, RunNames
<1>5. OneRunPerWorker' /\ \A p \in runs \ {r} : p.worker # w
  BY <1>1, <1>3, <1>4 DEF Forward, OneRunPerWorker
<1>6. n0 \notin spoiled => Registered(n0, r.version)
  BY <1>1, <1>3 DEF Forward, BringsForward, Fetches
<1>7. ASSUME NEW v \in Worker PROVE ProjectRegistered(v)'
  <2>1. CASE v # w
    <3>1. \A n \in Name : project'[v][n] = project[v][n]
      BY <1>1, <2>1
    <3>. QED
      BY <1>3, <3>1 DEF Forward, ProjectRegistered, Registered, Name
  <2>2. CASE v = w
    <3>. SUFFICES ASSUME NEW n \in Name \ spoiled', NEW i \in DOMAIN project'[w][n]
                  PROVE  Registered(n, project'[w][n][i])
      BY <1>3, <2>2 DEF ProjectRegistered, Registered, Name
    <3>1. CASE n # n0
      BY <1>1, <1>3, <3>1 DEF Forward, ProjectRegistered
    <3>2. CASE n = n0
      <4>1. \A s \in Seq(Job), u \in Job : \A k \in DOMAIN Append(s, u) :
              (k \in DOMAIN s /\ Append(s, u)[k] = s[k]) \/ Append(s, u)[k] = u
        BY AppendProperties, LenProperties
      <4>2. \/ i \in DOMAIN project[w][n0] /\ project'[w][n0][i] = project[w][n0][i]
            \/ project'[w][n0][i] = r.version
        <5>1. project'[w][n0] = Append(project[w][n0], r.version) /\ project[w][n0] \in Seq(Job) /\ r.version \in Job
          BY <1>1
        <5>2. i \in DOMAIN project'[w][n0]
          BY <3>2
        <5>3. i \in DOMAIN Append(project[w][n0], r.version)
          BY <5>1, <5>2
        <5>4. (i \in DOMAIN project[w][n0] /\ Append(project[w][n0], r.version)[i] = project[w][n0][i])
              \/ Append(project[w][n0], r.version)[i] = r.version
          BY <4>1, <5>1, <5>3
        <5>. QED
          BY <5>1, <5>4
      <4>. QED
        BY <1>3, <1>6, <3>2, <4>2 DEF Forward, ProjectRegistered
    <3>. QED
      BY <3>1, <3>2
  <2>. QED
    BY <2>1, <2>2
<1>8. ASSUME NEW p \in runs \ {r} PROVE BringsForward(p)'
  <2>1. p.worker \in Worker /\ p.worker # w
    BY <1>5, RunIs
  <2>. SUFFICES ASSUME NEW n \in Name \ spoiled', NEW v \in Job, Fetches(p, n, v)'
                PROVE  /\ Registered(n, v)
                       /\ \A i \in DOMAIN project'[p.worker][n] : NotNewer(n, project'[p.worker][n][i], v)
    BY <1>3 DEF BringsForward, Registered, NotNewer, Name
  <2>2. project'[p.worker][n] = project[p.worker][n] /\ UNCHANGED disk
    BY <1>1, <2>1 DEF Upload, hubVars
  <2>3. Registered(n, v) /\ \A i \in DOMAIN project[p.worker][n] : NotNewer(n, project[p.worker][n][i], v)
    BY <1>3, <2>2 DEF Forward, BringsForward, Fetches
  <2>. QED
    BY <2>2, <2>3
<1>9. BringsForward(q)'
  BY <1>4 DEF BringsForward, Fetches
<1>. QED
  BY <1>3, <1>5, <1>7, <1>8, <1>9 DEF Forward

\* CharacterSynced keeps the order: it brings what it has at hand and ends.
LEMMA CharacterForward ==
  ASSUME IInv, IInv', Sound, Grows, Forward, NEW r \in runs, CharacterSynced(r)
  PROVE  Forward'
<1>1. /\ runs' = runs \ {r} /\ busy' = [busy EXCEPT ![r.worker] = None] /\ UNCHANGED <<disk, log, spoiled>>
      /\ r.worker \in Worker
  BY RunIs DEF CharacterSynced, Completed, hubVars
<1>2. OneRunPerWorker' /\ \A p \in runs \ {r} : p.worker # r.worker
  BY <1>1 DEF Forward, OneRunPerWorker
<1>3. ASSUME NEW v \in Worker, NEW n \in Name \ spoiled', NEW i \in DOMAIN project'[v][n]
      PROVE  Registered(n, project'[v][n][i])
  <2>1. CASE project'[v][n] = project[v][n]
    BY <1>1, <2>1 DEF Forward, ProjectRegistered
  <2>2. CASE v = r.worker /\ project'[v][n] # project[v][n]
    <3>1. PICK u \in Job : <<n, u>> \in r.batch /\ project'[v][n] = Append(project[v][n], u)
      BY <2>2, CharacterProject
    <3>2. project[v][n] \in Seq(Job)
      BY <2>2, CharacterProject
    <3>3. \/ i \in DOMAIN project[v][n] /\ project'[v][n][i] = project[v][n][i]
          \/ project'[v][n][i] = u
      BY <3>1, <3>2, AppendProperties, LenProperties
    <3>4. Registered(n, u)
      BY <1>1, <3>1 DEF Forward, BringsForward, Fetches
    <3>. QED
      BY <1>1, <3>3, <3>4 DEF Forward, ProjectRegistered
  <2>. QED
    BY <2>1, <2>2, CharacterProject
<1>4. \A v \in Worker : ProjectRegistered(v)'
  BY <1>1, <1>3 DEF ProjectRegistered, Registered, Name
<1>5. ASSUME NEW p \in runs \ {r} PROVE BringsForward(p)'
  <2>1. p.worker \in Worker /\ p.worker # r.worker
    BY <1>2, RunIs
  <2>. SUFFICES ASSUME NEW n \in Name \ spoiled', NEW v \in Job, Fetches(p, n, v)'
                PROVE  /\ Registered(n, v)
                       /\ \A i \in DOMAIN project'[p.worker][n] : NotNewer(n, project'[p.worker][n][i], v)
    BY <1>1 DEF BringsForward, Registered, NotNewer, Name
  <2>2. project'[p.worker][n] = project[p.worker][n]
    BY <2>1, CharacterProject
  <2>3. Registered(n, v) /\ \A i \in DOMAIN project[p.worker][n] : NotNewer(n, project[p.worker][n][i], v)
    BY <1>1 DEF Forward, BringsForward, Fetches
  <2>. QED
    BY <2>2, <2>3
<1>. QED
  BY <1>1, <1>2, <1>4, <1>5 DEF Forward

\* Dispatch keeps the order: the worker was IDLE, so nothing is executed there.
LEMMA DispatchForward ==
  ASSUME IInv, IInv', Sound, Grows, Forward, NEW j \in Job, NEW w \in Worker, Dispatch(j, w)
  PROVE  Forward'
<1>. PICK q : q = NewRun(j, w)
  OBVIOUS
<1>1. /\ runs' = runs \cup {q} /\ busy' = [busy EXCEPT ![w] = j] /\ busy[w] = None
      /\ busy \in [Worker -> Job \cup {None}] /\ UNCHANGED project
  BY TaskIs DEF Dispatch
<1>2. q.job = j /\ q.worker = w /\ q.at = "sync" /\ q.batch = {}
  BY NewRunIs
<1>3. \A p \in runs : p.worker \in Worker /\ p.worker # w
  BY <1>1, RunIs, NoneAssumption DEF Forward, OneRunPerWorker
<1>4. OneRunPerWorker'
  BY <1>1, <1>2, <1>3 DEF Forward, OneRunPerWorker
<1>5. \A v \in Worker : ProjectRegistered(v)'
  BY <1>1, ProjectStays DEF Forward
<1>6. \A p \in runs : BringsForward(p)'
  BY <1>1, RunIs, BringsStays DEF Forward, RunHolds
<1>7. BringsForward(q)'
  BY <1>2 DEF BringsForward, Fetches
<1>. QED
  BY <1>1, <1>4, <1>5, <1>6, <1>7 DEF Forward

\* A step of an execution keeps the order.
LEMMA RunStepForward ==
  ASSUME IInv, IInv', Sound, NamesSound, Forward, NEW r \in runs, RunStep(r)
  PROVE  Forward'
<1>1. Grows
  BY RunGrows
<1>2. CASE ~Upload(r) /\ ~CharacterSynced(r)
  <2>1. UNCHANGED project
    BY <1>2 DEF RunStep, Ask, PassOver, ReadFails, Receive, ImageSynced, Generate, UploadResult, RunFails
  <2>2. ASSUME NEW q, Becomes(r, q) PROVE Forward'
    BY <1>1, <2>1, <2>2, ForwardMoves
  <2>3. ASSUME runs' = runs \ {r}, busy' = [busy EXCEPT ![r.worker] = None] PROVE Forward'
    <3>1. \A p \in runs' : busy'[p.worker] = busy[p.worker]
      BY <2>3, RunIs, TaskIs DEF Forward, OneRunPerWorker
    <3>. QED
      BY <1>1, <2>1, <2>3, <3>1, ForwardUntouched
  <2>. QED
    BY <2>2, <2>3, RunMovesOn
<1>. QED
  BY <1>1, <1>2, UploadForward, CharacterForward

\* Every step keeps the order while no heartbeat lapses.
LEMMA NextForward ==
  ASSUME IInv, IInv', Sound, NamesSound, spent["lapses"] = 0 => Forward, [Next]_vars
  PROVE  spent'["lapses"] = 0 => Forward'
<1>1. Grows
  BY NextGrows
<1>2. spent \in [Fault -> Nat]
  BY DEF IInv, TypeOK, CountType
<1>3. spent' = spent \/ (\E f \in Fault : Spend(f)) => (spent'["lapses"] = 0 => Forward)
  BY <1>2 DEF Spend, Fault
<1>4. ASSUME NEW w \in Worker, Lapse(w) PROVE spent'["lapses"] # 0
  BY <1>2, <1>4 DEF Lapse, Spend, Fault
<1>5. ASSUME UNCHANGED <<runs, busy, project>>, Forward PROVE Forward'
  BY <1>1, <1>5, ForwardUntouched
<1>6. ASSUME NEW r \in runs, RunStep(r) PROVE spent'["lapses"] = 0 => Forward'
  <2>1. spent' = spent \/ \E f \in Fault : Spend(f)
    BY <1>6 DEF RunStep, Ask, PassOver, ReadFails, Receive, Upload, ImageSynced, CharacterSynced,
                Generate, UploadResult, RunFails, Fault
  <2>. QED
    BY <1>3, <1>6, <2>1, RunStepForward
<1>7. ASSUME NEW j \in Job, ParentStep(j) \/ SubmitFails(j) PROVE spent'["lapses"] = 0 => Forward'
  <2>1. UNCHANGED <<runs, busy, project>> /\ (spent' = spent \/ \E f \in Fault : Spend(f))
    BY <1>7 DEF ParentStep, Made, NotMade, ListWorkers, AllDone, PollTimeout, Collect, Store, CopyFile,
                SubmitChild, Stored, Upsert, SubmitFails, workerVars, poolVars, Fault
  <2>. QED
    BY <1>3, <1>5, <2>1
<1>8. ASSUME NEW j \in Job, NEW w \in Worker, SubmitVideo(j, w) \/ Dispatch(j, w)
      PROVE  spent'["lapses"] = 0 => Forward'
  <2>1. spent' = spent
    BY <1>8 DEF SubmitVideo, Dispatch
  <2>2. SubmitVideo(j, w) => UNCHANGED <<runs, busy, project>>
    BY DEF SubmitVideo, workerVars
  <2>. QED
    BY <1>1, <1>3, <1>5, <1>8, <2>1, <2>2, DispatchForward
<1>9. ASSUME NEW w \in Worker, Join(w) \/ Restart(w) PROVE spent'["lapses"] = 0 => Forward'
  <2>1. /\ UNCHANGED project /\ runs' \subseteq runs /\ \A r \in runs' : busy'[r.worker] = busy[r.worker]
        /\ spent' = spent \/ \E f \in Fault : Spend(f)
    <3>1. CASE Join(w)
      BY <3>1 DEF Join, workerVars
    <3>2. CASE Restart(w)
      <4>1. \A r \in runs' : r \in runs /\ r.worker # w /\ r.worker \in Worker
        BY <3>2, RunIs DEF Restart
      <4>. QED
        BY <3>2, <4>1, TaskIs DEF Restart, Fault
    <3>. QED
      BY <1>9, <3>1, <3>2
  <2>. QED
    BY <1>1, <1>3, <2>1, ForwardUntouched
<1>10. ASSUME NEW s \in inserting, StoreFails(s) \/ ResultStored(s) PROVE spent'["lapses"] = 0 => Forward'
  <2>1. spent' = spent \/ \E f \in Fault : Spend(f)
    BY <1>10 DEF StoreFails, ResultStored, Fault
  <2>2. CASE UNCHANGED <<runs, busy, project>>
    BY <1>3, <1>5, <2>1, <2>2
  <2>3. ASSUME NEW r \in runs, runs' = runs \ {r}, Completed(r.job, r.worker), UNCHANGED project, Forward
        PROVE  Forward'
    <3>1. \A p \in runs' : busy'[p.worker] = busy[p.worker]
      BY <2>3, RunIs, TaskIs DEF Forward, OneRunPerWorker, Completed
    <3>. QED
      BY <1>1, <2>3, <3>1, ForwardUntouched
  <2>. QED
    BY <1>3, <1>10, <2>1, <2>2, <2>3 DEF StoreFails, ResultStored, workerVars, poolVars
<1>11. CASE Tick \/ UNCHANGED vars
  <2>1. UNCHANGED <<runs, busy, project, spent>>
    BY <1>11 DEF Tick, vars, workerVars, poolVars
  <2>. QED
    BY <1>3, <1>5, <2>1
<1>. QED
  BY <1>4, <1>6, <1>7, <1>8, <1>9, <1>10, <1>11 DEF Next

\* Initially nothing is registered, asked for or uploaded.
LEMMA InitOnce == Init => OnceSound /\ NamesSound /\ Forward
<1>. SUFFICES ASSUME Init PROVE OnceSound /\ NamesSound /\ Forward
  OBVIOUS
<1>1. \A n \in Name : DOMAIN log[n] = {}
  BY DEF Init
<1>2. OnceSound
  BY <1>1 DEF Init, OnceSound, StoresOnce, RegisteredOnce, Registered, Waiting, At, Asset
<1>3. NamesSound
  BY DEF Init, NamesSound, Name
<1>4. \A w \in Worker, n \in Name : DOMAIN project[w][n] = {}
  BY DEF Init
<1>5. Forward
  BY <1>4 DEF Init, Forward, OneRunPerWorker, ProjectRegistered
<1>. QED
  BY <1>2, <1>3, <1>5

\* The order of the uploads holds in every reachable state.
LEMMA OrderInvariance == Spec => []OInv
<1>1. Init => OInv
  BY InitInvariant, InitSound, InitOnce DEF OInv, SInv
<1>2. OInv /\ [Next]_vars => OInv'
  <2>. SUFFICES ASSUME OInv, [Next]_vars PROVE OInv'
    OBVIOUS
  <2>1. SInv' /\ IInv /\ Sound /\ IInv'
    BY NextSound DEF OInv, SInv
  <2>2. OnceSound' /\ NamesSound'
    BY <2>1, NextOnce, NextNames DEF OInv
  <2>3. spent'["lapses"] = 0 => Forward'
    BY <2>1, NextForward DEF OInv
  <2>. QED
    BY <2>1, <2>2, <2>3 DEF OInv
<1>. QED
  BY <1>1, <1>2, PTL DEF Spec

\* Where a version is registered once, its rank is where it is registered.
LEMMA RankIs ==
  ASSUME IInv, RegisteredOnce, NEW n \in Asset, NEW k \in DOMAIN log[n]
  PROVE  Rank(n, log[n][k]) = k
<1>1. \A i \in DOMAIN log[n] : log[n][i] = log[n][k] => i = k
  BY DEF RegisteredOnce
<1>2. \E i \in DOMAIN log[n] : log[n][i] = log[n][k]
  OBVIOUS
<1>. QED
  BY <1>1, <1>2 DEF Rank

\* What is not newer has no higher rank.
LEMMA RankOrder ==
  ASSUME IInv, RegisteredOnce, NEW n \in Asset, NEW u, NEW v, NotNewer(n, u, v)
  PROVE  Rank(n, u) <= Rank(n, v)
  BY RankIs DEF NotNewer

\* The newest upload of a name (asset_syncer.py:67-110) is never an older version than the one
\* before it, as long as no heartbeat lapses: one task at a time downloads and uploads, and a
\* record moves only to versions registered later.
THEOREM UploadsMoveForward == Spec => SyncMovesForward
<1>1. OInv /\ [Next]_vars =>
        \A w \in Worker, n \in Name \ spoiled' :
          LET old == project[w][n]
              new == project'[w][n]
          IN new # old /\ old # <<>> /\ spent["lapses"] = 0 =>
               Rank(n, Last(old)) <= Rank(n, Last(new))
  <2>. SUFFICES ASSUME OInv, [Next]_vars, NEW w \in Worker, NEW n \in Name \ spoiled',
                       project'[w][n] # project[w][n], project[w][n] # <<>>, spent["lapses"] = 0
                PROVE  Rank(n, Last(project[w][n])) <= Rank(n, Last(project'[w][n]))
    OBVIOUS
  <2>1. IInv /\ IInv' /\ Sound /\ Forward /\ RegisteredOnce /\ NamesSound
    BY NextInvariant DEF OInv, SInv, OnceSound
  <2>2. n \in Name \ spoiled
    BY <2>1, NextGrows DEF Grows
  <2>3. n \in Asset
    BY <2>1 DEF NamesSound, Asset
  <2>4. PICK r \in runs, v \in Job :
          r.worker = w /\ Fetches(r, n, v) /\ project'[w][n] = Append(project[w][n], v)
    <3>1. ASSUME NEW r \in runs, Upload(r)
          PROVE  \E v \in Job : r.worker = w /\ Fetches(r, n, v) /\ project'[w][n] = Append(project[w][n], v)
      <4>1. r.at = "upload" /\ r.worker = w /\ n = Head(r.left) /\ r.version \in Job
            /\ project'[w][n] = Append(project[w][n], r.version)
        BY <2>1, <3>1, UploadProject DEF Upload
      <4>. QED
        BY <4>1 DEF Fetches
    <3>2. ASSUME NEW r \in runs, CharacterSynced(r)
          PROVE  \E v \in Job : r.worker = w /\ Fetches(r, n, v) /\ project'[w][n] = Append(project[w][n], v)
      BY <2>1, <3>2, CharacterProject DEF Fetches
    <3>3. ASSUME NEW r \in runs, RunStep(r), ~Upload(r), ~CharacterSynced(r) PROVE UNCHANGED project
      BY <3>3 DEF RunStep, Ask, PassOver, ReadFails, Receive, ImageSynced, Generate, UploadResult, RunFails
    <3>4. ASSUME NEW j \in Job, ParentStep(j) \/ SubmitFails(j) PROVE UNCHANGED project
      BY <3>4 DEF ParentStep, Made, NotMade, ListWorkers, AllDone, PollTimeout, Collect, Store, CopyFile,
                  SubmitChild, Stored, Upsert, SubmitFails, workerVars
    <3>5. ASSUME NEW j \in Job, NEW u \in Worker, SubmitVideo(j, u) \/ Dispatch(j, u) PROVE UNCHANGED project
      BY <3>5 DEF SubmitVideo, Dispatch, workerVars
    <3>6. ASSUME NEW u \in Worker, Join(u) \/ Lapse(u) \/ Restart(u) PROVE UNCHANGED project
      BY <3>6 DEF Join, Lapse, Restart, workerVars
    <3>7. ASSUME NEW s \in inserting, StoreFails(s) \/ ResultStored(s) PROVE UNCHANGED project
      BY <3>7 DEF StoreFails, ResultStored, workerVars
    <3>8. Tick \/ UNCHANGED vars => UNCHANGED project
      BY DEF Tick, vars, workerVars
    <3>. QED
      BY <3>1, <3>2, <3>3, <3>4, <3>5, <3>6, <3>7, <3>8 DEF Next
  <2>5. project[w][n] \in Seq(Job) /\ Len(project[w][n]) \in DOMAIN project[w][n]
    <3>1. project[w][n] \in Seq(Job)
      BY <2>1, HubTypes
    <3>. QED
      BY <3>1, LenProperties, EmptySeq
  <2>6. Last(project[w][n]) = project[w][n][Len(project[w][n])] /\ Last(project'[w][n]) = v
    BY <2>4, <2>5, AppendProperties DEF Last
  <2>7. NotNewer(n, Last(project[w][n]), v)
    BY <2>1, <2>2, <2>4, <2>5, <2>6 DEF Forward, BringsForward
  <2>. QED
    BY <2>1, <2>3, <2>6, <2>7, RankOrder
<1>. QED
  BY <1>1, OrderInvariance, PTL DEF Spec, SyncMovesForward
=============================================================================
