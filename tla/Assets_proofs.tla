--------------------------- MODULE Assets_proofs ---------------------------
(***************************************************************************)
(* Proofs about Assets for every set of jobs and workers, every mix of     *)
(* kinds and every value of the bounds.                                    *)
(***************************************************************************)
EXTENDS Assets, SequenceTheorems, TLAPS

\* A store that waits for its INSERT has written its file, and nobody overwrote it.
Written == \A s \in inserting : s.name \notin spoiled => disk[s.name][s.file] = s.job

\* The files that stores and records name exist.
FilesExist ==
  /\ \A s \in inserting : disk[s.name][s.file] \in Job
  /\ \A n \in Name : table[n] # None => disk[n][table[n].file] \in Job

HubHolds == RecordIsWhole /\ Written /\ FilesExist

\* A download was told of a file that exists, an upload has its content.
RunHolds(r) ==
  /\ r.at = "receive" => r.left # <<>> /\ disk[Head(r.left)][r.file] \in Job
  /\ r.at = "upload" => r.left # <<>> /\ r.version \in Job

RunsHold == \A r \in runs : RunHolds(r)

\* Inductive: RecordIsWhole needs what a store knows before its INSERT; that no later
\* store overwrites a record's file unnoticed needs that the file exists; the types
\* need what the executions were told.
IInv == TypeOK /\ HubHolds /\ RunsHold

\* Initially there is no record, no store and no execution.
LEMMA InitInvariant == Init => IInv
<1>. SUFFICES ASSUME Init PROVE IInv
  OBVIOUS
<1>1. HubType
  BY BoundAssumption DEF Init, HubType, Second
<1>2. ParentType /\ WorkerType /\ CountType
  BY DEF Init, ParentType, WorkerType, CountType
<1>3. PoolType
  BY DEF Init, PoolType, NoTask, Tasks
<1>4. HubHolds /\ RunsHold
  BY DEF Init, HubHolds, RecordIsWhole, Written, FilesExist, RunsHold
<1>. QED
  BY <1>1, <1>2, <1>3, <1>4 DEF Init, IInv, TypeOK

\* What a step leaves unchanged keeps its type and what was known of it.
LEMMA Frame ==
  ASSUME IInv
  PROVE  /\ UNCHANGED kind => kind' \in Mix
         /\ UNCHANGED hubVars => HubType'
         /\ UNCHANGED hubVars /\ spoiled \subseteq spoiled' => HubHolds'
         /\ UNCHANGED parentVars => ParentType'
         /\ UNCHANGED poolVars => PoolType'
         /\ UNCHANGED workerVars => WorkerType'
         /\ UNCHANGED <<disk, runs>> => RunsHold'
         /\ UNCHANGED <<spoiled, spent>> => CountType'
<1>1. UNCHANGED kind => kind' \in Mix
  BY DEF IInv, TypeOK
<1>2. UNCHANGED hubVars => HubType'
  BY DEF IInv, TypeOK, HubType, hubVars
<1>3. UNCHANGED hubVars /\ spoiled \subseteq spoiled' => HubHolds'
  BY DEF IInv, HubHolds, RecordIsWhole, Written, FilesExist, hubVars
<1>4. UNCHANGED parentVars => ParentType'
  BY DEF IInv, TypeOK, ParentType, parentVars
<1>5. UNCHANGED poolVars => PoolType'
  BY DEF IInv, TypeOK, PoolType, poolVars
<1>6. UNCHANGED workerVars => WorkerType'
  BY DEF IInv, TypeOK, WorkerType, workerVars
<1>7. UNCHANGED <<disk, runs>> => RunsHold'
  BY DEF IInv, RunsHold, RunHolds
<1>8. UNCHANGED <<spoiled, spent>> => CountType'
  BY DEF IInv, TypeOK, CountType
<1>. QED
  BY <1>1, <1>2, <1>3, <1>4, <1>5, <1>6, <1>7, <1>8

\* A fault is counted by a natural number.
LEMMA SpendType ==
  ASSUME IInv, NEW f \in Fault, Spend(f), spoiled' \subseteq Name
  PROVE  CountType'
  BY DEF IInv, TypeOK, CountType, Spend

\* A copy keeps what is known of the hub; files come and change, but none goes.
LEMMA CopyFileHolds ==
  ASSUME IInv, NEW j \in Job, NEW by \in Worker \cup {None}, NEW n \in Name,
         CopyFile(j, by, n)
  PROVE  /\ kind' \in Mix /\ HubType' /\ HubHolds'
         /\ spoiled' \subseteq Name
         /\ \A m \in Name, s \in Second : disk[m][s] \in Job => disk'[m][s] \in Job
<1>. DEFINE new == [job |-> j, by |-> by, name |-> n, file |-> now]
<1>1. HubType /\ now \in Second /\ spoiled \subseteq Name /\ kind \in Mix
  BY DEF IInv, TypeOK, HubType, CountType
<1>2. /\ disk' = [disk EXCEPT ![n][now] = j] /\ inserting' = inserting \cup {new}
      /\ UNCHANGED <<kind, now, table, log>>
      /\ spoiled' = IF disk[n][now] = None THEN spoiled ELSE spoiled \cup {n}
  BY DEF CopyFile
<1>3. new \in Stores
  BY <1>1 DEF Stores
<1>4. HubType' /\ kind' \in Mix /\ spoiled' \subseteq Name
  BY <1>1, <1>2, <1>3 DEF HubType
<1>5. \A m \in Name, s \in Second :
        disk'[m][s] = IF m = n /\ s = now THEN j ELSE disk[m][s]
  BY <1>1, <1>2 DEF HubType
<1>6. \A m \in Name, s \in Second : disk[m][s] \in Job => disk'[m][s] \in Job
  BY <1>5
<1>7. \A m \in Name : table[m] # None => table[m].file \in Second
  BY <1>1 DEF HubType, Records
<1>8. \A s \in inserting : s.name \in Name /\ s.file \in Second
  BY <1>1 DEF HubType, Stores
<1>9. spoiled \subseteq spoiled' /\ (n \notin spoiled' => disk[n][now] \notin Job)
  BY <1>2, NoneAssumption
<1>10. RecordIsWhole'
  BY <1>2, <1>5, <1>7, <1>9 DEF RecordIsWhole, IInv, HubHolds, FilesExist
<1>11. Written'
  BY <1>1, <1>2, <1>5, <1>8, <1>9 DEF Written, IInv, HubHolds, FilesExist
<1>12. FilesExist'
  BY <1>1, <1>2, <1>5, <1>6, <1>7, <1>8 DEF IInv, HubHolds, FilesExist
<1>. QED
  BY <1>4, <1>6, <1>10, <1>11, <1>12 DEF HubHolds

\* An INSERT records a file with the content of the store that wrote it.
LEMMA UpsertHolds ==
  ASSUME IInv, NEW s \in inserting, Upsert(s)
  PROVE  kind' \in Mix /\ HubType' /\ HubHolds' /\ UNCHANGED <<disk, spoiled>>
<1>1. HubType /\ s \in Stores /\ s.name \in Name /\ s.file \in Second /\ s.job \in Job
  BY DEF IInv, TypeOK, HubType, Stores
<1>. DEFINE record == [file |-> s.file, version |-> s.job]
<1>2. /\ table' = [table EXCEPT ![s.name] = record] /\ inserting' = inserting \ {s}
      /\ log' = [log EXCEPT ![s.name] = Append(log[s.name], s.job)]
      /\ UNCHANGED <<kind, now, disk, spoiled>>
  BY DEF Upsert
<1>3. record \in Records
  BY <1>1 DEF Records
<1>4. Append(log[s.name], s.job) \in Seq(Job)
  BY <1>1, AppendProperties DEF HubType
<1>5. HubType' /\ kind' \in Mix
  BY <1>1, <1>2, <1>3, <1>4 DEF HubType, IInv, TypeOK
<1>6. \A n \in Name : table'[n] = IF n = s.name THEN record ELSE table[n]
  BY <1>1, <1>2 DEF HubType
<1>7. RecordIsWhole' /\ FilesExist'
  BY <1>1, <1>2, <1>6 DEF RecordIsWhole, FilesExist, Written, IInv, HubHolds
<1>8. Written'
  BY <1>2 DEF Written, IInv, HubHolds
<1>. QED
  BY <1>2, <1>5, <1>7, <1>8 DEF HubHolds

\* A job of the Master moves on within its states.
LEMMA GoToType ==
  ASSUME IInv, NEW j \in Job, NEW left \in SUBSET (Name \cup Worker),
         NEW at \in {"store", "insert", "submit", "poll", "COMPLETED", "FAILED"},
         GoTo(j, at, left)
  PROVE  parent' \in [Job -> [at : {"none", "store", "insert", "submit", "poll", "COMPLETED", "FAILED"},
                              left : SUBSET (Name \cup Worker)]]
  BY DEF GoTo, IInv, TypeOK, ParentType

\* What is left to do of a job is a set of names and workers.
LEMMA LeftType ==
  ASSUME IInv, NEW j \in Job, NEW x
  PROVE  parent[j].left \in SUBSET (Name \cup Worker) /\ parent[j].left \ {x} \in SUBSET (Name \cup Worker)
  BY DEF IInv, TypeOK, ParentType

\* A task that ends or is tried again, and one that is dispatched, has its type.
LEMMA DoneType ==
  ASSUME NEW t \in Tasks
  PROVE  /\ [t EXCEPT !.phase = "COMPLETED", !.finished = TRUE] \in Tasks
         /\ [t EXCEPT !.phase = "FAILED", !.finished = TRUE] \in Tasks
         /\ [t EXCEPT !.tries = @ + 1, !.tickets = @ + 1] \in Tasks
         /\ t.tickets > 0 => [t EXCEPT !.tickets = @ - 1, !.phase = "open"] \in Tasks
<1>1. /\ t.phase \in {"none", "open", "COMPLETED", "FAILED"} /\ t.finished \in BOOLEAN
      /\ t.tickets \in Nat /\ t.tries \in Nat
  BY DEF Tasks
<1>2. [t EXCEPT !.phase = "COMPLETED", !.finished = TRUE] \in Tasks
  BY DEF Tasks
<1>3. [t EXCEPT !.phase = "FAILED", !.finished = TRUE] \in Tasks
  BY DEF Tasks
<1>4. \A m, n \in Nat : [t EXCEPT !.tries = m, !.tickets = n] \in Tasks
  BY DEF Tasks
<1>5. [t EXCEPT !.tries = @ + 1, !.tickets = @ + 1] \in Tasks
  <2>1. t.tries + 1 \in Nat /\ t.tickets + 1 \in Nat
    BY <1>1
  <2>. QED
    BY <1>4, <2>1, Zenon
<1>6. \A n \in Nat : [t EXCEPT !.tickets = n, !.phase = "open"] \in Tasks
  BY DEF Tasks
<1>7. t.tickets > 0 => [t EXCEPT !.tickets = @ - 1, !.phase = "open"] \in Tasks
  <2>1. t.tickets > 0 => t.tickets - 1 \in Nat
    BY <1>1
  <2>. QED
    BY <1>6, <2>1, Zenon
<1>. QED
  BY <1>2, <1>3, <1>5, <1>7

\* handle_task_completed keeps the types of the pool.
LEMMA CompletedType ==
  ASSUME IInv, NEW j \in Job, NEW w \in Worker, Completed(j, w), UNCHANGED link
  PROVE  PoolType'
<1>1. task \in [Job -> [Worker -> Tasks]] /\ busy \in [Worker -> Job \cup {None}]
  BY DEF IInv, TypeOK, PoolType
<1>. DEFINE done == [task[j][w] EXCEPT !.phase = "COMPLETED", !.finished = TRUE]
<1>2. done \in Tasks
  <2>1. task[j][w] \in Tasks
    BY <1>1
  <2>. QED
    BY <2>1, DoneType, Zenon
<1>3. task' = [task EXCEPT ![j] = [task[j] EXCEPT ![w] = done]]
  BY <1>1 DEF Completed
<1>4. task' \in [Job -> [Worker -> Tasks]]
  BY <1>1, <1>2, <1>3
<1>. QED
  BY <1>1, <1>4 DEF Completed, IInv, TypeOK, PoolType

\* handle_task_failed keeps the types of the pool.
LEMMA FailedType ==
  ASSUME IInv, NEW j \in Job, NEW w \in Worker, Failed(j, w)
  PROVE  task' \in [Job -> [Worker -> Tasks]] /\ busy' \in [Worker -> Job \cup {None}]
<1>1. task \in [Job -> [Worker -> Tasks]] /\ busy \in [Worker -> Job \cup {None}]
  BY DEF IInv, TypeOK, PoolType
<1>. DEFINE again == [task[j][w] EXCEPT !.tries = @ + 1, !.tickets = @ + 1]
            done == [task[j][w] EXCEPT !.phase = "FAILED", !.finished = TRUE]
<1>2. again \in Tasks /\ done \in Tasks
  <2>1. task[j][w] \in Tasks
    BY <1>1
  <2>. QED
    BY <2>1, DoneType, Zenon
<1>3. \/ task' = [task EXCEPT ![j] = [task[j] EXCEPT ![w] = again]]
      \/ task' = [task EXCEPT ![j] = [task[j] EXCEPT ![w] = done]]
  BY <1>1 DEF Failed
<1>4. task' \in [Job -> [Worker -> Tasks]]
  BY <1>1, <1>2, <1>3
<1>. QED
  BY <1>1, <1>4 DEF Failed

\* A task that is submitted has its type, whatever became of an earlier one.
LEMMA OpenType ==
  ASSUME IInv, NEW j \in Job, NEW w \in Worker,
         task' = [task EXCEPT ![j][w] = [NoTask EXCEPT !.phase = "open", !.tickets = 1]]
  PROVE  task' \in [Job -> [Worker -> Tasks]]
<1>. DEFINE open == [NoTask EXCEPT !.phase = "open", !.tickets = 1]
<1>1. open \in Tasks
  BY DEF NoTask, Tasks
<1>2. task' = [task EXCEPT ![j] = [task[j] EXCEPT ![w] = open]] /\ task \in [Job -> [Worker -> Tasks]]
  BY DEF IInv, TypeOK, PoolType
<1>. HIDE DEF open
<1>. QED
  BY <1>1, <1>2

\* An execution asks for names, and it begins with nothing at hand.
LEMMA NewRunType ==
  ASSUME IInv, NEW j \in Job, NEW w \in Worker
  PROVE  NewRun(j, w) \in Runs /\ RunHolds(NewRun(j, w))
<1>1. kind[j] \in {"image", "character", "video"}
  BY MixAssumption DEF IInv, TypeOK
<1>2. Asks(j) \in Seq(Name)
  <2>1. "picture" \in Name /\ "portrait" \in Name /\ "fullbody" \in Name
    BY DEF Name
  <2>2. <<"picture">> \in Seq(Name) /\ <<"portrait">> \in Seq(Name) /\ <<"fullbody">> \in Seq(Name)
    BY <2>1
  <2>3. IfHas(j, "portrait") \in Seq(Name) /\ IfHas(j, "fullbody") \in Seq(Name)
    BY <2>2, EmptySeq DEF IfHas
  <2>4. IfHas(j, "portrait") \o IfHas(j, "fullbody") \in Seq(Name)
    BY <2>3, ConcatProperties
  <2>. QED
    BY <1>1, <2>2, <2>4 DEF Asks
<1>3. task[j][w].tries \in Nat /\ Len(log["picture"]) \in Nat /\ 0 \in Second
  <2>1. task[j][w] \in Tasks /\ log["picture"] \in Seq(Job)
    BY DEF IInv, TypeOK, PoolType, HubType, Name
  <2>. QED
    BY <2>1, LenProperties, BoundAssumption DEF Tasks, Second
<1>4. NewRun(j, w) \in Runs
  BY <1>2, <1>3 DEF NewRun, Runs
<1>5. NewRun(j, w).at = "sync"
  BY DEF NewRun
<1>. QED
  BY <1>4, <1>5 DEF RunHolds

\* Executions that end, and files that come, disturb no other execution.
LEMMA FewerRuns ==
  ASSUME IInv, runs' \subseteq runs,
         \A m \in Name, s \in Second : disk[m][s] \in Job => disk'[m][s] \in Job
  PROVE  runs' \subseteq Runs /\ RunsHold'
<1>1. \A r \in runs : r \in Runs /\ RunHolds(r)
  BY DEF IInv, TypeOK, WorkerType, RunsHold
<1>2. \A r \in runs : r.at = "receive" => Head(r.left) \in Name /\ r.file \in Second
  BY <1>1, HeadTailProperties DEF Runs, RunHolds
<1>. QED
  BY <1>1, <1>2 DEF RunsHold, RunHolds

\* One execution moves on and the others stay.
LEMMA OneRun ==
  ASSUME IInv, NEW r \in runs, NEW q \in Runs, Step(r, q), RunHolds(q), UNCHANGED disk
  PROVE  runs' \subseteq Runs /\ RunsHold'
  BY DEF Step, IInv, TypeOK, WorkerType, RunsHold, RunHolds

\* The type of an execution; one that has names left has a first one and the rest.
LEMMA RunType ==
  ASSUME IInv, NEW r \in runs
  PROVE  /\ r \in Runs /\ r.job \in Job /\ r.worker \in Worker /\ RunHolds(r)
         /\ r.left # <<>> => Head(r.left) \in Name /\ Tail(r.left) \in Seq(Name)
<1>1. r \in Runs /\ RunHolds(r)
  BY DEF IInv, TypeOK, WorkerType, RunsHold
<1>2. r.job \in Job /\ r.worker \in Worker /\ r.left \in Seq(Name)
  BY <1>1 DEF Runs
<1>. QED
  BY <1>1, <1>2, HeadTailProperties

\* Tick keeps the inductive invariant.
LEMMA TickStep == IInv /\ Tick => IInv'
<1>. SUFFICES ASSUME IInv, Tick PROVE IInv'
  OBVIOUS
<1>1. HubType'
  BY BoundAssumption DEF Tick, IInv, TypeOK, HubType, Second
<1>2. HubHolds'
  BY DEF Tick, IInv, HubHolds, RecordIsWhole, Written, FilesExist
<1>. QED
  BY <1>1, <1>2, Frame DEF Tick, IInv, TypeOK, hubVars, workerVars

\* Made keeps the inductive invariant.
LEMMA MadeStep ==
  ASSUME IInv, NEW j \in Job, NEW files \in SUBSET Name, Made(j, files)
  PROVE  IInv'
<1>1. ParentType'
  BY GoToType DEF Made, IInv, TypeOK, ParentType
<1>. QED
  BY <1>1, Frame DEF Made, IInv, TypeOK, hubVars, workerVars

\* NotMade keeps the inductive invariant.
LEMMA NotMadeStep ==
  ASSUME IInv, NEW j \in Job, NotMade(j)
  PROVE  IInv'
<1>1. ParentType'
  BY GoToType DEF NotMade, IInv, TypeOK, ParentType
<1>. QED
  BY <1>1, Frame DEF NotMade, IInv, TypeOK, hubVars, workerVars

\* Store keeps the inductive invariant.
LEMMA StoreStep ==
  ASSUME IInv, NEW j \in Job, NEW n \in Name, Store(j, n)
  PROVE  IInv'
<1>1. ParentType'
  BY GoToType, LeftType DEF Store, IInv, TypeOK, ParentType
<1>2. kind' \in Mix /\ HubType' /\ HubHolds' /\ CountType'
  BY CopyFileHolds DEF Store, IInv, TypeOK, CountType
<1>3. RunsHold'
  BY CopyFileHolds, FewerRuns DEF Store, workerVars
<1>. QED
  BY <1>1, <1>2, <1>3, Frame DEF Store, IInv, TypeOK

\* Stored keeps the inductive invariant.
LEMMA StoredStep ==
  ASSUME IInv, NEW s \in inserting, Stored(s)
  PROVE  IInv'
<1>1. s.job \in Job
  BY DEF IInv, TypeOK, HubType, Stores
<1>2. ParentType'
  BY <1>1, GoToType, LeftType DEF Stored, IInv, TypeOK, ParentType
<1>3. kind' \in Mix /\ HubType' /\ HubHolds' /\ UNCHANGED <<disk, spoiled>>
  BY UpsertHolds DEF Stored
<1>. QED
  BY <1>2, <1>3, Frame DEF Stored, IInv, TypeOK, workerVars

\* StoreFails keeps the inductive invariant.
LEMMA StoreFailsStep ==
  ASSUME IInv, NEW s \in inserting, StoreFails(s)
  PROVE  IInv'
<1>1. s.job \in Job
  BY DEF IInv, TypeOK, HubType, Stores
<1>2. ParentType'
  BY <1>1, GoToType DEF StoreFails, IInv, TypeOK, ParentType
<1>3. HubType' /\ HubHolds'
  BY DEF StoreFails, IInv, TypeOK, HubType, HubHolds, RecordIsWhole, Written, FilesExist
<1>4. CountType'
  BY SpendType DEF StoreFails, Fault, IInv, TypeOK, CountType
<1>. QED
  BY <1>2, <1>3, <1>4, Frame DEF StoreFails, IInv, TypeOK, workerVars

\* ListWorkers keeps the inductive invariant.
LEMMA ListWorkersStep ==
  ASSUME IInv, NEW j \in Job, ListWorkers(j)
  PROVE  IInv'
<1>1. {w \in Worker : link[w] # "unknown"} \in SUBSET (Name \cup Worker)
  OBVIOUS
<1>2. ParentType'
  BY <1>1, GoToType DEF ListWorkers, IInv, TypeOK, ParentType
<1>. QED
  BY <1>2, Frame DEF ListWorkers, IInv, TypeOK, hubVars, workerVars

\* SubmitChild keeps the inductive invariant.
LEMMA SubmitChildStep ==
  ASSUME IInv, NEW j \in Job, NEW w \in Worker, SubmitChild(j, w)
  PROVE  IInv'
<1>1. ParentType'
  BY GoToType, LeftType DEF SubmitChild, IInv, TypeOK, ParentType
<1>2. PoolType'
  BY OpenType DEF SubmitChild, IInv, TypeOK, PoolType
<1>. QED
  BY <1>1, <1>2, Frame DEF SubmitChild, IInv, TypeOK, hubVars, workerVars

\* SubmitFails keeps the inductive invariant.
LEMMA SubmitFailsStep ==
  ASSUME IInv, NEW j \in Job, SubmitFails(j)
  PROVE  IInv'
<1>1. ParentType'
  BY GoToType DEF SubmitFails, IInv, TypeOK, ParentType
<1>2. CountType'
  BY SpendType DEF SubmitFails, Fault, IInv, TypeOK, CountType
<1>. QED
  BY <1>1, <1>2, Frame DEF SubmitFails, IInv, TypeOK, hubVars, workerVars

\* Collect keeps the inductive invariant.
LEMMA CollectStep ==
  ASSUME IInv, NEW j \in Job, Collect(j)
  PROVE  IInv'
<1>. DEFINE shown == [w \in Worker |->
                        IF w \notin Children(j) THEN "none"
                        ELSE IF task[j][w].phase = "COMPLETED" THEN "success" ELSE "failed"]
<1>1. shown \in [Worker -> {"none", "success", "failed"}]
  OBVIOUS
<1>2. result' = [result EXCEPT ![j] = shown] /\ GoTo(j, "COMPLETED", {}) /\ has' = has
  BY DEF Collect
<1>3. ParentType'
  <2>. HIDE DEF shown
  <2>. QED
    BY <1>1, <1>2, GoToType DEF IInv, TypeOK, ParentType
<1>. QED
  BY <1>3, Frame DEF Collect, IInv, TypeOK, hubVars, workerVars

\* SubmitVideo keeps the inductive invariant.
LEMMA SubmitVideoStep ==
  ASSUME IInv, NEW j \in Job, NEW w \in Worker, SubmitVideo(j, w)
  PROVE  IInv'
<1>1. PoolType'
  BY OpenType DEF SubmitVideo, IInv, TypeOK, PoolType
<1>. QED
  BY <1>1, Frame DEF SubmitVideo, IInv, TypeOK, hubVars, workerVars

\* Dispatch keeps the inductive invariant.
LEMMA DispatchStep ==
  ASSUME IInv, NEW j \in Job, NEW w \in Worker, Dispatch(j, w)
  PROVE  IInv'
<1>1. task \in [Job -> [Worker -> Tasks]] /\ task[j][w] \in Tasks /\ task[j][w].tickets > 0
  BY DEF Dispatch, IInv, TypeOK, PoolType
<1>. DEFINE sent == [task[j][w] EXCEPT !.tickets = @ - 1, !.phase = "open"]
<1>2. sent \in Tasks
  BY <1>1, DoneType, Zenon
<1>3. task' = [task EXCEPT ![j] = [task[j] EXCEPT ![w] = sent]]
  BY <1>1 DEF Dispatch
<1>4. task' \in [Job -> [Worker -> Tasks]]
  BY <1>1, <1>2, <1>3
<1>5. PoolType'
  BY <1>4 DEF Dispatch, IInv, TypeOK, PoolType
<1>6. NewRun(j, w) \in Runs /\ RunHolds(NewRun(j, w))
  BY <1>1, NewRunType
<1>7. runs' = runs \cup {NewRun(j, w)} /\ UNCHANGED <<disk, synced, project>>
  BY DEF Dispatch, hubVars
<1>8. WorkerType' /\ RunsHold'
  BY <1>6, <1>7 DEF IInv, TypeOK, WorkerType, RunsHold, RunHolds
<1>. QED
  BY <1>5, <1>8, Frame DEF Dispatch, IInv, TypeOK

\* Join keeps the inductive invariant.
LEMMA JoinStep ==
  ASSUME IInv, NEW w \in Worker, Join(w)
  PROVE  IInv'
<1>1. PoolType'
  BY DEF Join, IInv, TypeOK, PoolType
<1>. QED
  BY <1>1, Frame DEF Join, IInv, TypeOK, hubVars, workerVars

\* Lapse keeps the inductive invariant.
LEMMA LapseStep ==
  ASSUME IInv, NEW w \in Worker, Lapse(w)
  PROVE  IInv'
<1>1. task' \in [Job -> [Worker -> Tasks]] /\ busy' \in [Worker -> Job \cup {None}]
  BY FailedType DEF Lapse, IInv, TypeOK, PoolType
<1>2. PoolType'
  BY <1>1 DEF Lapse, IInv, TypeOK, PoolType
<1>3. CountType'
  BY SpendType DEF Lapse, Fault, IInv, TypeOK, CountType
<1>. QED
  BY <1>2, <1>3, Frame DEF Lapse, IInv, TypeOK, hubVars, workerVars

\* Restart keeps the inductive invariant.
LEMMA RestartStep ==
  ASSUME IInv, NEW w \in Worker, Restart(w)
  PROVE  IInv'
<1>1. PoolType'
  BY DEF Restart, IInv, TypeOK, PoolType
<1>2. CountType'
  BY SpendType DEF Restart, Fault, IInv, TypeOK, CountType
<1>3. runs' \subseteq Runs /\ RunsHold'
  BY FewerRuns DEF Restart, hubVars
<1>4. WorkerType'
  BY <1>3 DEF Restart, IInv, TypeOK, WorkerType
<1>. QED
  BY <1>1, <1>2, <1>3, <1>4, Frame DEF Restart, IInv, TypeOK

\* Ask keeps the inductive invariant: the record that is read leads to a file.
LEMMA AskStep ==
  ASSUME IInv, NEW r \in runs, Ask(r)
  PROVE  IInv'
<1>. DEFINE q == [r EXCEPT !.at = "receive", !.file = table[Head(r.left)].file]
<1>1. Head(r.left) \in Name /\ r \in Runs /\ r.left # <<>> /\ table[Head(r.left)] # None
  BY RunType DEF Ask
<1>2. table[Head(r.left)].file \in Second /\ disk[Head(r.left)][table[Head(r.left)].file] \in Job
  BY <1>1 DEF IInv, TypeOK, HubType, Records, HubHolds, FilesExist
<1>3. q \in Runs /\ RunHolds(q)
  BY <1>1, <1>2 DEF Runs, RunHolds
<1>4. Step(r, q) /\ UNCHANGED disk
  BY DEF Ask, hubVars
<1>5. runs' \subseteq Runs /\ RunsHold'
  BY <1>3, <1>4, OneRun, Zenon
<1>6. WorkerType'
  BY <1>5 DEF Ask, IInv, TypeOK, WorkerType
<1>. QED
  BY <1>5, <1>6, Frame DEF Ask, IInv, TypeOK

\* An execution that goes on to its next name.
LEMMA NextNameType ==
  ASSUME IInv, NEW r \in runs, r.left # <<>>
  PROVE  /\ [r EXCEPT !.left = Tail(@)] \in Runs
         /\ r.at = "sync" => RunHolds([r EXCEPT !.left = Tail(@)])
         /\ [r EXCEPT !.at = "sync", !.left = Tail(@)] \in Runs
         /\ RunHolds([r EXCEPT !.at = "sync", !.left = Tail(@)])
  BY RunType DEF Runs, RunHolds

\* PassOver keeps the inductive invariant.
LEMMA PassOverStep ==
  ASSUME IInv, NEW r \in runs, PassOver(r)
  PROVE  IInv'
<1>1. /\ Step(r, [r EXCEPT !.left = Tail(@)]) /\ UNCHANGED disk
      /\ r.left # <<>> /\ r.at = "sync"
  BY DEF PassOver, hubVars
<1>2. runs' \subseteq Runs /\ RunsHold'
  BY <1>1, NextNameType, OneRun, Zenon
<1>3. WorkerType'
  BY <1>2 DEF PassOver, IInv, TypeOK, WorkerType
<1>. QED
  BY <1>2, <1>3, Frame DEF PassOver, IInv, TypeOK

\* ReadFails keeps the inductive invariant.
LEMMA ReadFailsStep ==
  ASSUME IInv, NEW r \in runs, ReadFails(r)
  PROVE  IInv'
<1>1. /\ Step(r, [r EXCEPT !.left = Tail(@)]) /\ UNCHANGED disk
      /\ r.left # <<>> /\ r.at = "sync"
  BY DEF ReadFails, hubVars
<1>2. runs' \subseteq Runs /\ RunsHold'
  BY <1>1, NextNameType, OneRun, Zenon
<1>3. WorkerType'
  BY <1>2 DEF ReadFails, IInv, TypeOK, WorkerType
<1>4. spoiled \subseteq spoiled' /\ spoiled' \subseteq Name
  BY RunType DEF ReadFails, IInv, TypeOK, CountType
<1>5. CountType'
  BY <1>4, SpendType DEF ReadFails, Fault
<1>. QED
  BY <1>2, <1>3, <1>4, <1>5, Frame DEF ReadFails, IInv, TypeOK

\* Receive keeps the inductive invariant: the content that arrives is a version.
LEMMA ReceiveStep ==
  ASSUME IInv, NEW r \in runs, Receive(r)
  PROVE  IInv'
<1>. DEFINE version == disk[Head(r.left)][r.file]
            next == [r EXCEPT !.at = "sync", !.left = Tail(@)]
            more == [next EXCEPT !.batch = @ \cup {<<Head(r.left), version>>}]
            full == [r EXCEPT !.at = "upload", !.version = version]
<1>1. r \in Runs /\ r.left # <<>> /\ Head(r.left) \in Name /\ version \in Job
  BY RunType DEF Receive, RunHolds
<1>2. next \in Runs /\ RunHolds(next)
  BY <1>1, NextNameType, Zenon
<1>3. more \in Runs /\ RunHolds(more)
  <2>1. r.batch \cup {<<Head(r.left), version>>} \in SUBSET (Name \X Job)
    BY <1>1 DEF Runs
  <2>2. next.batch = r.batch /\ next.at = "sync"
    BY <1>1 DEF Runs
  <2>. HIDE DEF next, version
  <2>. QED
    BY <1>2, <2>1, <2>2 DEF Runs, RunHolds
<1>4. full \in Runs /\ RunHolds(full)
  <2>. HIDE DEF version
  <2>. QED
    BY <1>1 DEF Runs, RunHolds
<1>5. \E q \in {next, more, full} : Step(r, q)
  BY DEF Receive
<1>6. UNCHANGED <<disk, synced, project>>
  BY DEF Receive, hubVars
<1>7. runs' \subseteq Runs /\ RunsHold'
  <2>. HIDE DEF next, more, full
  <2>. QED
    BY <1>2, <1>3, <1>4, <1>5, <1>6, OneRun
<1>8. WorkerType'
  BY <1>6, <1>7 DEF IInv, TypeOK, WorkerType
<1>. QED
  BY <1>7, <1>8, Frame DEF Receive, IInv, TypeOK

\* Upload keeps the inductive invariant.
LEMMA UploadStep ==
  ASSUME IInv, NEW r \in runs, Upload(r)
  PROVE  IInv'
<1>. DEFINE q == [r EXCEPT !.at = "sync", !.left = Tail(@), !.version = None]
            more == Append(project[r.worker][Head(r.left)], r.version)
<1>1. /\ r \in Runs /\ r.worker \in Worker /\ r.left # <<>> /\ r.version \in Job
      /\ Head(r.left) \in Name /\ Tail(r.left) \in Seq(Name) /\ r.file \in Second
  BY RunType DEF Upload, RunHolds, Runs
<1>2. q \in Runs /\ RunHolds(q)
  BY <1>1 DEF Runs, RunHolds
<1>3. Step(r, q) /\ UNCHANGED disk
  BY DEF Upload, hubVars
<1>4. runs' \subseteq Runs /\ RunsHold'
  BY <1>2, <1>3, OneRun, Zenon
<1>5. /\ project \in [Worker -> [Name -> Seq(Job)]]
      /\ synced \in [Worker -> SUBSET (Name \X Second)]
  BY DEF IInv, TypeOK, WorkerType
<1>6. more \in Seq(Job)
  BY <1>1, <1>5, AppendProperties
<1>7. project' \in [Worker -> [Name -> Seq(Job)]]
  BY <1>1, <1>5, <1>6 DEF Upload
<1>8. synced' \in [Worker -> SUBSET (Name \X Second)]
  BY <1>1, <1>5 DEF Upload
<1>9. WorkerType'
  BY <1>4, <1>7, <1>8 DEF WorkerType
<1>. QED
  BY <1>4, <1>9, Frame DEF Upload, IInv, TypeOK

\* ImageSynced keeps the inductive invariant.
LEMMA ImageSyncedStep ==
  ASSUME IInv, NEW r \in runs, ImageSynced(r)
  PROVE  IInv'
<1>1. PoolType'
  BY RunType, CompletedType DEF ImageSynced
<1>2. runs' \subseteq Runs /\ RunsHold'
  BY FewerRuns DEF ImageSynced, hubVars
<1>3. WorkerType'
  BY <1>2 DEF ImageSynced, IInv, TypeOK, WorkerType
<1>. QED
  BY <1>1, <1>2, <1>3, Frame DEF ImageSynced, IInv, TypeOK

\* CharacterSynced keeps the inductive invariant.
LEMMA CharacterSyncedStep ==
  ASSUME IInv, NEW r \in runs, CharacterSynced(r)
  PROVE  IInv'
<1>1. PoolType'
  BY RunType, CompletedType DEF CharacterSynced
<1>2. runs' \subseteq Runs /\ RunsHold'
  BY FewerRuns DEF CharacterSynced, hubVars
<1>3. project \in [Worker -> [Name -> Seq(Job)]] /\ r.worker \in Worker
  BY RunType DEF IInv, TypeOK, WorkerType
<1>. DEFINE Of(n) == CHOOSE v \in Job : <<n, v>> \in r.batch
            Next1(n) == IF \E v \in Job : <<n, v>> \in r.batch
                        THEN Append(project[r.worker][n], Of(n)) ELSE project[r.worker][n]
<1>4. \A n \in Name : Next1(n) \in Seq(Job)
  <2>. SUFFICES ASSUME NEW n \in Name PROVE Next1(n) \in Seq(Job)
    OBVIOUS
  <2>1. project[r.worker][n] \in Seq(Job)
    BY <1>3
  <2>2. CASE \E v \in Job : <<n, v>> \in r.batch
    <3>1. Of(n) \in Job
      BY <2>2
    <3>. QED
      BY <2>1, <2>2, <3>1, AppendProperties
  <2>. QED
    BY <2>1, <2>2
<1>5. project' = [project EXCEPT ![r.worker] = [n \in Name |-> Next1(n)]]
  BY DEF CharacterSynced
<1>6. project' \in [Worker -> [Name -> Seq(Job)]]
  <2>. HIDE DEF Next1
  <2>. QED
    BY <1>3, <1>4, <1>5
<1>7. WorkerType'
  BY <1>2, <1>6 DEF CharacterSynced, IInv, TypeOK, WorkerType
<1>. QED
  BY <1>1, <1>2, <1>7, Frame DEF CharacterSynced, IInv, TypeOK

\* Generate keeps the inductive invariant.
LEMMA GenerateStep ==
  ASSUME IInv, NEW r \in runs, Generate(r)
  PROVE  IInv'
<1>1. [r EXCEPT !.at = "make"] \in Runs /\ RunHolds([r EXCEPT !.at = "make"])
  BY RunType DEF Runs, RunHolds
<1>2. runs' \subseteq Runs /\ RunsHold'
  BY <1>1, OneRun DEF Generate, hubVars
<1>3. WorkerType'
  BY <1>2 DEF Generate, IInv, TypeOK, WorkerType
<1>. QED
  BY <1>2, <1>3, Frame DEF Generate, IInv, TypeOK

\* UploadResult keeps the inductive invariant.
LEMMA UploadResultStep ==
  ASSUME IInv, NEW r \in runs, UploadResult(r)
  PROVE  IInv'
<1>. DEFINE q == [r EXCEPT !.at = "insert"]
<1>1. r \in Runs /\ r.job \in Job /\ r.worker \in Worker /\ "clip" \in Name
  BY RunType DEF Name
<1>2. q \in Runs /\ q.at = "insert"
  BY <1>1 DEF Runs
<1>3. /\ CopyFile(r.job, r.worker, "clip") /\ runs' = (runs \ {r}) \cup {q}
      /\ UNCHANGED <<parentVars, poolVars, synced, project, spent>>
  BY DEF UploadResult, Step
<1>4. /\ kind' \in Mix /\ HubType' /\ HubHolds' /\ spoiled' \subseteq Name
      /\ \A m \in Name, s \in Second : disk[m][s] \in Job => disk'[m][s] \in Job
  BY <1>1, <1>3, CopyFileHolds
<1>5. runs' \subseteq Runs
  BY <1>2, <1>3 DEF IInv, TypeOK, WorkerType
<1>6. RunsHold'
  <2>1. \A p \in runs : RunHolds(p) /\ (p.at = "receive" => Head(p.left) \in Name /\ p.file \in Second)
    BY RunType DEF Runs, RunHolds
  <2>. HIDE DEF q
  <2>. QED
    BY <1>2, <1>3, <1>4, <2>1 DEF RunsHold, RunHolds
<1>7. WorkerType' /\ CountType'
  BY <1>3, <1>4, <1>5 DEF IInv, TypeOK, WorkerType, CountType
<1>. QED
  BY <1>3, <1>4, <1>6, <1>7, Frame DEF IInv, TypeOK

\* ResultStored keeps the inductive invariant.
LEMMA ResultStoredStep ==
  ASSUME IInv, NEW s \in inserting, ResultStored(s)
  PROVE  IInv'
<1>1. kind' \in Mix /\ HubType' /\ HubHolds' /\ UNCHANGED <<disk, spoiled>>
  BY UpsertHolds DEF ResultStored
<1>2. PoolType' /\ runs' \subseteq runs
  <2>1. CASE UNCHANGED <<runs, task, busy>>
    BY <2>1 DEF ResultStored, IInv, TypeOK, PoolType
  <2>2. ASSUME NEW r \in runs, runs' = runs \ {r}, Completed(r.job, r.worker)
        PROVE  PoolType' /\ runs' \subseteq runs
    BY <2>2, RunType, CompletedType DEF ResultStored
  <2>. QED
    BY <2>1, <2>2 DEF ResultStored
<1>3. runs' \subseteq Runs /\ RunsHold'
  BY <1>1, <1>2, FewerRuns
<1>4. WorkerType'
  BY <1>3 DEF ResultStored, IInv, TypeOK, WorkerType
<1>5. CountType' /\ ParentType'
  BY <1>1, Frame DEF ResultStored
<1>. QED
  BY <1>1, <1>2, <1>3, <1>4, <1>5 DEF IInv, TypeOK

\* RunFails keeps the inductive invariant.
LEMMA RunFailsStep ==
  ASSUME IInv, NEW r \in runs, RunFails(r)
  PROVE  IInv'
<1>1. task' \in [Job -> [Worker -> Tasks]] /\ busy' \in [Worker -> Job \cup {None}]
  BY RunType, FailedType DEF RunFails
<1>2. PoolType'
  BY <1>1 DEF RunFails, IInv, TypeOK, PoolType
<1>3. runs' \subseteq Runs /\ RunsHold'
  BY FewerRuns DEF RunFails, hubVars
<1>4. WorkerType'
  BY <1>3 DEF RunFails, IInv, TypeOK, WorkerType
<1>. QED
  BY <1>2, <1>3, <1>4, Frame DEF RunFails, IInv, TypeOK

\* A step of an image or character job keeps the inductive invariant.
LEMMA ParentStepHolds ==
  ASSUME IInv, NEW j \in Job, ParentStep(j)
  PROVE  IInv'
<1>1. ASSUME NEW files \in SUBSET Range(Makes(j)), Made(j, files) PROVE IInv'
  <2>1. kind[j] \in {"image", "character", "video"}
    BY MixAssumption DEF IInv, TypeOK
  <2>2. Makes(j) \in {<<"picture">>, <<"portrait", "fullbody">>, <<"clip">>}
    BY <2>1 DEF Makes
  <2>3. Range(Makes(j)) \subseteq Name
    BY <2>2 DEF Range, Name
  <2>. QED
    BY <1>1, <2>3, MadeStep
<1>. QED
  BY <1>1, NotMadeStep, ListWorkersStep, CollectStep, StoreStep, SubmitChildStep, StoredStep
     DEF ParentStep, AllDone, PollTimeout

\* A step of an execution keeps the inductive invariant.
LEMMA RunStepHolds ==
  ASSUME IInv, NEW r \in runs, RunStep(r)
  PROVE  IInv'
  BY AskStep, PassOverStep, ReadFailsStep, ReceiveStep, UploadStep, ImageSyncedStep,
     CharacterSyncedStep, GenerateStep, UploadResultStep, RunFailsStep DEF RunStep

\* Every step keeps the inductive invariant.
LEMMA NextInvariant == IInv /\ [Next]_vars => IInv'
<1>. SUFFICES ASSUME IInv, [Next]_vars PROVE IInv'
  OBVIOUS
<1>1. CASE UNCHANGED vars
  BY <1>1, Frame DEF vars, hubVars, workerVars, IInv, TypeOK
<1>2. ASSUME NEW j \in Job, ParentStep(j) \/ SubmitFails(j) PROVE IInv'
  BY <1>2, ParentStepHolds, SubmitFailsStep
<1>3. ASSUME NEW j \in Job, NEW w \in Worker, SubmitVideo(j, w) \/ Dispatch(j, w) PROVE IInv'
  BY <1>3, SubmitVideoStep, DispatchStep
<1>4. ASSUME NEW w \in Worker, Join(w) \/ Lapse(w) \/ Restart(w) PROVE IInv'
  BY <1>4, JoinStep, LapseStep, RestartStep
<1>5. ASSUME NEW s \in inserting, StoreFails(s) \/ ResultStored(s) PROVE IInv'
  BY <1>5, StoreFailsStep, ResultStoredStep
<1>6. ASSUME NEW r \in runs, RunStep(r) PROVE IInv'
  BY <1>6, RunStepHolds
<1>. QED
  BY <1>1, <1>2, <1>3, <1>4, <1>5, <1>6, TickStep DEF Next

\* The inductive invariant holds in every reachable state of Assets.
THEOREM Invariance == Spec => []IInv
  BY InitInvariant, NextInvariant, PTL DEF Spec

\* Every variable keeps its type, for any number of jobs and workers and any mix of
\* kinds, whatever is interleaved, restarted or fails.
THEOREM TypeCorrect == Spec => []TypeOK
<1>1. IInv => TypeOK
  BY DEF IInv
<1>. QED
  BY <1>1, Invariance, PTL

\* The record of a name leads to a file with the content it was made for
\* (asset_hub.py:75-95), however stores, restarts and failing INSERTs interleave, as
\* long as no two stores of the name fall into one second.
THEOREM RecordsWhole == Spec => []RecordIsWhole
<1>1. IInv => RecordIsWhole
  BY DEF IInv, HubHolds
<1>. QED
  BY <1>1, Invariance, PTL

=============================================================================
