------------------------ MODULE FlowScheduler_proofs ------------------------
(***************************************************************************)
(* Proofs about FlowScheduler for every set of jobs and workers and every  *)
(* value of the bounds.                                                    *)
(***************************************************************************)
EXTENDS FlowScheduler, SequenceTheorems, TLAPS

\* Inductive: RetryBound needs the type of retries, the types need what Holds says of
\* the job and the worker a suspended coroutine names.
IInv == TypeOK /\ RetryBound /\ Holds

\* Removing an element keeps the type of a sequence and shortens it by one.
LEMMA WithoutType ==
  ASSUME NEW S, NEW s \in Seq(S), NEW i \in DOMAIN s
  PROVE  /\ Without(s, i) \in Seq(S)
         /\ Len(Without(s, i)) = Len(s) - 1
         /\ DOMAIN Without(s, i) = 1..Len(s) - 1
         /\ \A k \in 1..Len(s) - 1 : Without(s, i)[k] = IF k < i THEN s[k] ELSE s[k + 1]
<1>1. Len(s) - 1 \in Nat /\ i \in 1..Len(s)
  BY LenProperties
<1>2. \A k \in 1..Len(s) - 1 : (IF k < i THEN s[k] ELSE s[k + 1]) \in S
  BY <1>1, ElementOfSeq
<1>3. Without(s, i) \in [1..Len(s) - 1 -> S]
  BY <1>2 DEF Without
<1>. QED
  BY <1>1, <1>3, IsASeq DEF Without

\* Initially no coroutine is under way and every structure is empty.
LEMMA InitInvariant == Init => IInv
<1>. SUFFICES ASSUME Init PROVE IInv
  OBVIOUS
<1>1. QueueType /\ LoopType /\ CountType
  BY DEF Init, QueueType, LoopType, CountType
<1>2. CoroutineType /\ CoroutineHolds
  BY DEF Init, CoroutineType, CoroutineHolds, Idle
<1>3. RegistryType /\ RetryBound
  BY BoundAssumption DEF Init, RegistryType, RetryBound
<1>4. PoolType /\ NetType
  BY DEF Init, PoolType, NetType
<1>5. PassHolds /\ LineHolds /\ ReportsHold
  BY DEF Init, PassHolds, LineHolds, ReportsHold
<1>. QED
  BY <1>1, <1>2, <1>3, <1>4, <1>5 DEF IInv, TypeOK, Holds

\* What a step leaves unchanged keeps its type and what was known of it.
LEMMA Frame ==
  ASSUME IInv
  PROVE  /\ UNCHANGED <<queue, lockq>> => QueueType'
         /\ UNCHANGED loopVars => LoopType' /\ PassHolds'
         /\ UNCHANGED coro => CoroutineType' /\ CoroutineHolds'
         /\ UNCHANGED <<lockq, coro>> => LineHolds'
         /\ UNCHANGED registryVars => RegistryType' /\ RetryBound'
         /\ UNCHANGED poolVars => PoolType'
         /\ UNCHANGED netVars => NetType' /\ ReportsHold'
         /\ UNCHANGED <<dispatches, spent>> => CountType'
<1>1. UNCHANGED <<queue, lockq>> => QueueType'
  BY DEF IInv, TypeOK, QueueType
<1>2. UNCHANGED loopVars => LoopType' /\ PassHolds'
  BY DEF IInv, TypeOK, Holds, LoopType, PassHolds, loopVars
<1>3. UNCHANGED coro => CoroutineType' /\ CoroutineHolds'
  BY DEF IInv, TypeOK, Holds, CoroutineType, CoroutineHolds
<1>4. UNCHANGED <<lockq, coro>> => LineHolds'
  BY DEF IInv, Holds, LineHolds
<1>5. UNCHANGED registryVars => RegistryType' /\ RetryBound'
  BY DEF IInv, TypeOK, RegistryType, RetryBound, registryVars
<1>6. UNCHANGED poolVars => PoolType'
  BY DEF IInv, TypeOK, PoolType, poolVars
<1>7. UNCHANGED netVars => NetType' /\ ReportsHold'
  BY DEF IInv, TypeOK, Holds, NetType, ReportsHold, netVars
<1>8. UNCHANGED <<dispatches, spent>> => CountType'
  BY DEF IInv, TypeOK, CountType
<1>. QED
  BY <1>1, <1>2, <1>3, <1>4, <1>5, <1>6, <1>7, <1>8

\* A coroutine that is not in line may move on without disturbing the line.
LEMMA LineKept ==
  ASSUME IInv, NEW c \in Actor, coro[c].at # "lock", NEW r,
         coro' = [coro EXCEPT ![c] = r], UNCHANGED lockq
  PROVE  LineHolds'
<1>1. \A i \in DOMAIN lockq : lockq[i] \in Actor /\ lockq[i] # c
  BY ElementOfSeq, LenProperties DEF IInv, TypeOK, QueueType, Holds, LineHolds
<1>2. \A a \in Actor : a # c => coro'[a] = coro[a]
  BY DEF IInv, TypeOK, CoroutineType
<1>. QED
  BY <1>1, <1>2 DEF IInv, Holds, LineHolds

\* Using up a bound keeps the counters natural numbers.
LEMMA SpendType ==
  ASSUME IInv, NEW b \in DOMAIN Bound, Spend(b), UNCHANGED dispatches
  PROVE  CountType'
<1>1. spent \in [DOMAIN Bound -> Nat] /\ spent' = [spent EXCEPT ![b] = spent[b] + 1]
  BY DEF Spend, IInv, TypeOK, CountType
<1>. QED
  BY <1>1 DEF IInv, TypeOK, CountType

\* CheckHealth keeps the inductive invariant.
LEMMA CheckHealthStep == IInv /\ CheckHealth => IInv'
<1>. SUFFICES ASSUME IInv, CheckHealth PROVE IInv'
  OBVIOUS
<1>1. LoopType' /\ PassHolds' /\ PoolType'
  BY DEF CheckHealth, IInv, TypeOK, LoopType, PassHolds, PoolType, Remote
<1>. QED
  BY <1>1, Frame DEF CheckHealth, IInv, TypeOK, Holds

\* FailoverWorker keeps the inductive invariant.
LEMMA FailoverWorkerStep ==
  ASSUME IInv, NEW w \in Worker, FailoverWorker(w)
  PROVE  IInv'
<1>1. LoopType' /\ PassHolds'
  BY DEF FailoverWorker, IInv, TypeOK, LoopType, PassHolds
<1>2. CoroutineType' /\ CoroutineHolds'
  BY DEF FailoverWorker, IInv, TypeOK, Holds, CoroutineType, CoroutineHolds, PoolType, Actor
<1>3. LineHolds'
  BY LineKept, Frame DEF FailoverWorker, Actor
<1>. QED
  BY <1>1, <1>2, <1>3, Frame DEF FailoverWorker, IInv, TypeOK, Holds

\* BeginPass keeps the inductive invariant.
LEMMA BeginPassStep ==
  ASSUME IInv, BeginPass
  PROVE  IInv'
<1>1. LoopType' /\ PassHolds'
  BY DEF BeginPass, IInv, TypeOK, LoopType, PassHolds, QueueType
<1>. QED
  BY <1>1, Frame DEF BeginPass, IInv, TypeOK, Holds

\* SelectWorker keeps the inductive invariant.
LEMMA SelectWorkerStep ==
  ASSUME IInv, NEW w \in Worker, SelectWorker(w)
  PROVE  IInv'
<1>1. LoopType' /\ PassHolds'
  BY DEF SelectWorker, IInv, TypeOK, LoopType, PassHolds
<1>. QED
  BY <1>1, Frame DEF SelectWorker, IInv, TypeOK, Holds

\* Skipping the head of `todo` keeps the pass well typed.
LEMMA KeepHeadType ==
  ASSUME IInv, todo # <<>>, KeepHead
  PROVE  LoopType' /\ PassHolds'
<1>1. Head(todo) \in Job /\ Tail(todo) \in Seq(Job) /\ todo \in Seq(Job) /\ kept \in Seq(Job)
  BY HeadTailProperties DEF IInv, TypeOK, LoopType
<1>2. Append(kept, Head(todo)) \in Seq(Job)
  BY <1>1, AppendProperties
<1>. QED
  BY <1>1, <1>2 DEF KeepHead, IInv, TypeOK, LoopType, PassHolds

\* NoCandidate keeps the inductive invariant.
LEMMA NoCandidateStep ==
  ASSUME IInv, NoCandidate
  PROVE  IInv'
<1>1. LoopType' /\ PassHolds'
  BY KeepHeadType DEF NoCandidate
<1>. QED
  BY <1>1, Frame DEF NoCandidate, IInv, TypeOK, Holds, KeepHead

\* ReserveRefused keeps the inductive invariant.
LEMMA ReserveRefusedStep ==
  ASSUME IInv, ReserveRefused
  PROVE  IInv'
<1>1. LoopType' /\ PassHolds'
  BY KeepHeadType DEF ReserveRefused, IInv, Holds, PassHolds
<1>2. CountType'
  BY SpendType DEF ReserveRefused, KeepHead, Bound
<1>. QED
  BY <1>1, <1>2, Frame DEF ReserveRefused, IInv, TypeOK, Holds, KeepHead

\* ReserveGranted keeps the inductive invariant.
LEMMA ReserveGrantedStep ==
  ASSUME IInv, ReserveGranted
  PROVE  IInv'
<1>1. todo # <<>> /\ todo \in Seq(Job) /\ Head(todo) \in Job
  BY HeadTailProperties DEF ReserveGranted, IInv, TypeOK, Holds, PassHolds, LoopType
<1>2. LoopType' /\ PassHolds'
  BY <1>1 DEF ReserveGranted, IInv, TypeOK, Holds, LoopType, PassHolds
<1>3. PoolType'
  BY <1>1 DEF ReserveGranted, IInv, TypeOK, PoolType
<1>4. RegistryType' /\ RetryBound'
  BY <1>1 DEF ReserveGranted, IInv, TypeOK, RegistryType, RetryBound
<1>. QED
  BY <1>1, <1>2, <1>3, <1>4, Frame DEF ReserveGranted, IInv, TypeOK, Holds

\* Confirmed keeps the inductive invariant.
LEMMA ConfirmedStep ==
  ASSUME IInv, Confirmed
  PROVE  IInv'
<1>1. todo # <<>> /\ todo \in Seq(Job) /\ Head(todo) \in Job /\ Tail(todo) \in Seq(Job) /\ pick \in Worker
  BY HeadTailProperties DEF Confirmed, IInv, TypeOK, Holds, PassHolds, LoopType
<1>2. PICK s \in Slot : /\ coro[s].at = "idle"
                       /\ coro' = [coro EXCEPT ![s] = [at |-> "dispatch", job |-> Head(todo), worker |-> pick]]
  BY DEF Confirmed, FreeSlots
<1>3. LoopType' /\ PassHolds'
  BY <1>1 DEF Confirmed, IInv, TypeOK, LoopType, PassHolds
<1>4. CoroutineType' /\ CoroutineHolds'
  BY <1>1, <1>2 DEF IInv, TypeOK, Holds, CoroutineType, CoroutineHolds, Actor
<1>5. LineHolds'
  BY <1>2, LineKept DEF Confirmed, Actor
<1>6. CountType'
  BY <1>1 DEF Confirmed, IInv, TypeOK, CountType
<1>. QED
  BY <1>1, <1>2, <1>3, <1>4, <1>5, <1>6, Frame DEF Confirmed, IInv, TypeOK, Holds

\* PassFails keeps the inductive invariant.
LEMMA PassFailsStep ==
  ASSUME IInv, PassFails
  PROVE  IInv'
<1>1. LoopType' /\ PassHolds'
  BY DEF PassFails, IInv, TypeOK, LoopType, PassHolds
<1>2. CountType'
  BY SpendType DEF PassFails, Bound
<1>. QED
  BY <1>1, <1>2, Frame DEF PassFails, IInv, TypeOK, Holds

\* EndPass keeps the inductive invariant.
LEMMA EndPassStep ==
  ASSUME IInv, EndPass
  PROVE  IInv'
<1>1. LoopType' /\ PassHolds'
  BY DEF EndPass, IInv, TypeOK, LoopType, PassHolds
<1>2. QueueType'
  BY DEF EndPass, IInv, TypeOK, LoopType, QueueType
<1>. QED
  BY <1>1, <1>2, Frame DEF EndPass, IInv, TypeOK, Holds

\* The queue with one more job is a queue.
LEMMA EnqueuedType ==
  ASSUME IInv, NEW c \in Actor, NEW j \in Job
  PROVE  Enqueued(c, j) \in Seq(Job)
<1>1. queue \in Seq(Job) /\ <<j>> \in Seq(Job)
  BY DEF IInv, TypeOK, QueueType
<1>2. Append(queue, j) \in Seq(Job) /\ <<j>> \o queue \in Seq(Job)
  BY <1>1, AppendProperties, ConcatProperties
<1>. QED
  BY <1>2 DEF Enqueued

\* Submit either inserts the job or puts the coroutine at the end of the line.
LEMMA SubmitType ==
  ASSUME IInv, NEW c \in Actor, NEW j \in Job, coro[c].at # "lock", Submit(c, j)
  PROVE  QueueType' /\ CoroutineType' /\ CoroutineHolds' /\ LineHolds'
<1>1. CASE LockHeld \/ lockq # <<>>
  <2>1. /\ lockq' = Append(lockq, c) /\ queue' = queue
        /\ coro' = [coro EXCEPT ![c] = [at |-> "lock", job |-> j, worker |-> NoWorker]]
    BY <1>1 DEF Submit
  <2>2. /\ lockq \in Seq(Actor) /\ lockq' \in Seq(Actor) /\ Len(lockq') = Len(lockq) + 1
        /\ DOMAIN lockq' = 1..Len(lockq) + 1 /\ DOMAIN lockq = 1..Len(lockq)
        /\ \A i \in 1..Len(lockq) : lockq'[i] = lockq[i]
        /\ lockq'[Len(lockq) + 1] = c
        /\ Len(lockq) \in Nat
    BY <2>1, AppendProperties, LenProperties DEF IInv, TypeOK, QueueType
  <2>3. CoroutineType' /\ CoroutineHolds'
    BY <2>1 DEF IInv, TypeOK, Holds, CoroutineType, CoroutineHolds
  <2>4. \A i \in 1..Len(lockq) : lockq[i] \in Actor /\ lockq[i] # c
    BY <2>2, ElementOfSeq DEF IInv, Holds, LineHolds
  <2>5. \A a \in Actor : coro'[a].at = IF a = c THEN "lock" ELSE coro[a].at
    BY <2>1 DEF IInv, TypeOK, CoroutineType
  <2>6. \A i \in DOMAIN lockq' : coro'[lockq'[i]].at = "lock"
    BY <2>2, <2>4, <2>5 DEF IInv, Holds, LineHolds
  <2>7. \A i, k \in DOMAIN lockq' : lockq'[i] = lockq'[k] => i = k
    BY <2>2, <2>4 DEF IInv, Holds, LineHolds
  <2>. QED
    BY <2>1, <2>2, <2>3, <2>6, <2>7 DEF IInv, TypeOK, QueueType, LineHolds
<1>2. CASE ~(LockHeld \/ lockq # <<>>)
  <2>1. queue' = Enqueued(c, j) /\ lockq' = lockq /\ coro' = [coro EXCEPT ![c] = Idle]
    BY <1>2 DEF Submit
  <2>2. QueueType' /\ LineHolds'
    BY <2>1, EnqueuedType, LineKept DEF IInv, TypeOK, QueueType
  <2>3. CoroutineType' /\ CoroutineHolds'
    BY <2>1 DEF IInv, TypeOK, Holds, CoroutineType, CoroutineHolds, Idle
  <2>. QED
    BY <2>2, <2>3
<1>. QED
  BY <1>1, <1>2

\* CreateJob keeps the inductive invariant.
LEMMA CreateJobStep ==
  ASSUME IInv, NEW j \in Job, CreateJob(j)
  PROVE  IInv'
<1>1. QueueType' /\ CoroutineType' /\ CoroutineHolds' /\ LineHolds'
  BY SubmitType DEF CreateJob, Actor
<1>2. RegistryType' /\ RetryBound'
  BY DEF CreateJob, IInv, TypeOK, RegistryType, RetryBound
<1>. QED
  BY <1>1, <1>2, Frame DEF CreateJob, IInv, TypeOK, Holds

\* LockGranted keeps the inductive invariant.
LEMMA LockGrantedStep ==
  ASSUME IInv, LockGranted
  PROVE  IInv'
<1>. DEFINE c == Head(lockq)
            j == coro[c].job
<1>1. /\ lockq \in Seq(Actor) /\ lockq # <<>> /\ c \in Actor /\ c = lockq[1]
      /\ lockq' = Tail(lockq) /\ lockq' \in Seq(Actor) /\ Len(lockq') = Len(lockq) - 1
      /\ Len(lockq) \in Nat /\ Len(lockq) > 0
      /\ DOMAIN lockq = 1..Len(lockq) /\ DOMAIN lockq' = 1..Len(lockq) - 1
      /\ \A i \in 1..Len(lockq) - 1 : lockq'[i] = lockq[i + 1]
  BY HeadTailProperties, LenProperties, EmptySeq DEF LockGranted, IInv, TypeOK, QueueType
<1>2. coro[c].at = "lock" /\ j \in Job
  BY <1>1 DEF IInv, Holds, LineHolds, CoroutineHolds
<1>3. /\ queue' = Enqueued(c, j)
      /\ phase' = [phase EXCEPT ![j] = "PENDING"]
      /\ coro' = [coro EXCEPT ![c] = Idle]
  BY DEF LockGranted
<1>4. QueueType'
  BY <1>1, <1>2, <1>3, EnqueuedType DEF QueueType
<1>5. CoroutineType' /\ CoroutineHolds'
  BY <1>1, <1>3 DEF IInv, TypeOK, Holds, CoroutineType, CoroutineHolds, Idle
<1>6. RegistryType' /\ RetryBound'
  BY <1>2, <1>3 DEF LockGranted, IInv, TypeOK, RegistryType, RetryBound
<1>7. \A i \in 1..Len(lockq) - 1 : lockq[i + 1] \in Actor /\ lockq[i + 1] # c
  BY <1>1, ElementOfSeq DEF IInv, Holds, LineHolds
<1>8. \A a \in Actor : a # c => coro'[a] = coro[a]
  BY <1>3 DEF IInv, TypeOK, CoroutineType
<1>9. LineHolds'
  BY <1>1, <1>7, <1>8 DEF IInv, Holds, LineHolds
<1>. QED
  BY <1>4, <1>5, <1>6, <1>9, Frame DEF LockGranted, IInv, TypeOK, Holds

\* A completion report keeps the registry and the pool well typed.
LEMMA TaskCompletedType ==
  ASSUME IInv, NEW j \in Job, NEW w \in Worker, TaskCompleted(j, w)
  PROVE  RegistryType' /\ RetryBound' /\ PoolType'
<1>1. RegistryType' /\ RetryBound'
  BY DEF TaskCompleted, IInv, TypeOK, RegistryType, RetryBound
<1>2. PoolType'
  BY DEF TaskCompleted, IInv, TypeOK, PoolType
<1>. QED
  BY <1>1, <1>2

\* A coroutine that is not in line may start a failure handler.
LEMMA StartFailingType ==
  ASSUME IInv, NEW c \in Actor, coro[c].at # "lock", NEW j \in Job, NEW w \in Worker,
         StartFailing(c, j, w), UNCHANGED lockq
  PROVE  CoroutineType' /\ CoroutineHolds' /\ LineHolds'
<1>1. coro' = [coro EXCEPT ![c] = [at |-> "release", job |-> j, worker |-> w]]
  BY DEF StartFailing
<1>2. CoroutineType' /\ CoroutineHolds'
  BY <1>1 DEF IInv, TypeOK, Holds, CoroutineType, CoroutineHolds
<1>. QED
  BY <1>1, <1>2, LineKept

\* A coroutine that is not in line may come to rest, or wait for the account.
LEMMA RestingType ==
  ASSUME IInv, NEW c \in Actor, coro[c].at # "lock", UNCHANGED lockq,
         NEW at \in {"idle", "register", "dead"}, coro' = [coro EXCEPT ![c] = [Idle EXCEPT !.at = at]]
  PROVE  CoroutineType' /\ CoroutineHolds' /\ LineHolds'
<1>1. [Idle EXCEPT !.at = at] = [at |-> at, job |-> NoJob, worker |-> NoWorker]
  BY DEF Idle
<1>2. CoroutineType' /\ CoroutineHolds'
  BY <1>1 DEF IInv, TypeOK, Holds, CoroutineType, CoroutineHolds
<1>. QED
  BY <1>2, LineKept

\* Idle is one of the ways to rest.
LEMMA IdleIsResting == Idle = [Idle EXCEPT !.at = "idle"]
  BY DEF Idle

\* HandleFailure keeps the inductive invariant.
LEMMA HandleFailureStep ==
  ASSUME IInv, NEW c \in Actor, HandleFailure(c)
  PROVE  IInv'
<1>. DEFINE j == coro[c].job
            w == coro[c].worker
<1>1. j \in Job /\ w \in Worker /\ coro[c].at = "release"
  BY DEF HandleFailure, IInv, Holds, CoroutineHolds
<1>2. PoolType'
  BY <1>1 DEF HandleFailure, IInv, TypeOK, PoolType
<1>3. CASE retries[j] < MaxRetries
  <2>1. /\ retries' = [retries EXCEPT ![j] = retries[j] + 1]
        /\ Submit(c, j)
        /\ phase' \in {phase, [phase EXCEPT ![j] = "PENDING"]}
        /\ finished' = finished
    BY <1>3 DEF HandleFailure, CanRetry
  <2>2. QueueType' /\ CoroutineType' /\ CoroutineHolds' /\ LineHolds'
    BY <1>1, <2>1, SubmitType
  <2>3. RegistryType' /\ RetryBound'
    BY <1>1, <1>3, <2>1, BoundAssumption DEF IInv, TypeOK, RegistryType, RetryBound
  <2>. QED
    BY <1>2, <2>2, <2>3, Frame DEF HandleFailure, IInv, TypeOK, Holds
<1>4. CASE ~(retries[j] < MaxRetries)
  <2>1. /\ phase' = [phase EXCEPT ![j] = "FAILED"]
        /\ finished' = [finished EXCEPT ![j] = TRUE]
        /\ coro' = [coro EXCEPT ![c] = Idle]
        /\ UNCHANGED <<queue, lockq, retries>>
    BY <1>4 DEF HandleFailure, CanRetry
  <2>2. CoroutineType' /\ CoroutineHolds' /\ LineHolds'
    BY <1>1, <2>1, RestingType, IdleIsResting
  <2>3. RegistryType' /\ RetryBound'
    BY <1>1, <2>1 DEF IInv, TypeOK, RegistryType, RetryBound
  <2>. QED
    BY <1>2, <2>1, <2>2, <2>3, Frame DEF HandleFailure, IInv, TypeOK, Holds
<1>. QED
  BY <1>3, <1>4

\* ReleaseFails keeps the inductive invariant.
LEMMA ReleaseFailsStep ==
  ASSUME IInv, NEW c \in Actor, ReleaseFails(c)
  PROVE  IInv'
<1>1. CoroutineType' /\ CoroutineHolds' /\ LineHolds'
  BY RestingType, IdleIsResting DEF ReleaseFails
<1>2. LoopType' /\ PassHolds'
  BY DEF ReleaseFails, IInv, TypeOK, Holds, LoopType, PassHolds
<1>3. NetType' /\ ReportsHold'
  BY DEF ReleaseFails, IInv, TypeOK, Holds, NetType, ReportsHold
<1>4. CountType'
  BY SpendType DEF ReleaseFails, Bound
<1>. QED
  BY <1>1, <1>2, <1>3, <1>4, Frame DEF ReleaseFails, IInv, TypeOK, Holds

\* DispatchRemote keeps the inductive invariant.
LEMMA DispatchRemoteStep ==
  ASSUME IInv, NEW s \in Slot, DispatchRemote(s)
  PROVE  IInv'
<1>. DEFINE w == coro[s].worker
<1>1. s \in Actor /\ coro[s].at = "dispatch" /\ coro[s].job \in Job /\ w \in Worker
  BY DEF DispatchRemote, IInv, Holds, CoroutineHolds, Actor
<1>2. CASE reachable[w]
  <2>1. /\ wq' = [wq EXCEPT ![w] = Append(wq[w], coro[s].job)]
        /\ coro' = [coro EXCEPT ![s] = Idle]
    BY <1>2 DEF DispatchRemote
  <2>2. Append(wq[w], coro[s].job) \in Seq(Job)
    BY <1>1, AppendProperties DEF IInv, TypeOK, NetType
  <2>3. NetType' /\ ReportsHold'
    BY <1>1, <2>1, <2>2 DEF DispatchRemote, IInv, TypeOK, Holds, NetType, ReportsHold
  <2>4. CoroutineType' /\ CoroutineHolds' /\ LineHolds'
    BY <1>1, <2>1, RestingType, IdleIsResting DEF DispatchRemote
  <2>. QED
    BY <2>3, <2>4, Frame DEF DispatchRemote, IInv, TypeOK, Holds
<1>3. CASE ~reachable[w]
  <2>1. StartFailing(s, coro[s].job, w) /\ UNCHANGED wq
    BY <1>3 DEF DispatchRemote
  <2>2. CoroutineType' /\ CoroutineHolds' /\ LineHolds'
    BY <1>1, <2>1, StartFailingType DEF DispatchRemote
  <2>. QED
    BY <2>1, <2>2, Frame DEF DispatchRemote, IInv, TypeOK, Holds, netVars
<1>. QED
  BY <1>2, <1>3

\* LocalCompletes keeps the inductive invariant.
LEMMA LocalCompletesStep ==
  ASSUME IInv, NEW s \in Slot, LocalCompletes(s)
  PROVE  IInv'
<1>1. s \in Actor /\ coro[s].at = "dispatch" /\ coro[s].job \in Job /\ coro[s].worker \in Worker
  BY DEF LocalCompletes, IInv, Holds, CoroutineHolds, Actor
<1>2. RegistryType' /\ RetryBound' /\ PoolType'
  BY <1>1, TaskCompletedType DEF LocalCompletes
<1>3. CoroutineType' /\ CoroutineHolds' /\ LineHolds'
  BY <1>1, RestingType, IdleIsResting DEF LocalCompletes
<1>. QED
  BY <1>2, <1>3, Frame DEF LocalCompletes, IInv, TypeOK, Holds

\* LocalFails keeps the inductive invariant.
LEMMA LocalFailsStep ==
  ASSUME IInv, NEW s \in Slot, LocalFails(s)
  PROVE  IInv'
<1>1. s \in Actor /\ coro[s].at = "dispatch" /\ coro[s].job \in Job /\ coro[s].worker \in Worker
  BY DEF LocalFails, IInv, Holds, CoroutineHolds, Actor
<1>2. CoroutineType' /\ CoroutineHolds' /\ LineHolds'
  BY <1>1, StartFailingType DEF LocalFails
<1>. QED
  BY <1>2, Frame DEF LocalFails, IInv, TypeOK, Holds

\* A reader whose database call raises comes to rest as dead.
LEMMA ReaderFailsStep ==
  ASSUME IInv, NEW w \in Worker, ReaderFails(w)
  PROVE  IInv'
<1>1. CoroutineType' /\ CoroutineHolds' /\ LineHolds'
  BY RestingType DEF ReaderFails, Actor
<1>2. NetType' /\ ReportsHold'
  BY DEF ReaderFails, IInv, TypeOK, Holds, NetType, ReportsHold
<1>3. CountType'
  BY SpendType DEF ReaderFails, Bound
<1>. QED
  BY <1>1, <1>2, <1>3, Frame DEF ReaderFails, IInv, TypeOK, Holds

\* The message a reader takes off the stream, and the stream without it.
LEMMA NextMessageType ==
  ASSUME IInv, NEW w \in Worker, NEW type, NextMessage(w, type)
  PROVE  /\ w \in Actor /\ coro[w].at = "idle"
         /\ Head(out[w]).type = type
         /\ type # "register" => Head(out[w]).job \in Job
         /\ out' \in [Worker -> Seq(Messages)]
         /\ ReportsHold'
<1>1. w \in Actor /\ coro[w].at = "idle" /\ out[w] # <<>> /\ Head(out[w]).type = type
      /\ out' = [out EXCEPT ![w] = Tail(out[w])] /\ out \in [Worker -> Seq(Messages)]
  BY DEF NextMessage, Actor, IInv, TypeOK, NetType
<1>2. /\ out[w] \in Seq(Messages) /\ Len(out[w]) \in Nat /\ Len(out[w]) > 0
      /\ DOMAIN out[w] = 1..Len(out[w]) /\ Head(out[w]) = out[w][1]
      /\ Tail(out[w]) \in Seq(Messages) /\ Len(Tail(out[w])) = Len(out[w]) - 1
      /\ DOMAIN Tail(out[w]) = 1..Len(out[w]) - 1
      /\ \A i \in 1..Len(out[w]) - 1 : Tail(out[w])[i] = out[w][i + 1]
  BY <1>1, HeadTailProperties, LenProperties, EmptySeq
<1>3. type # "register" => Head(out[w]).job \in Job
  BY <1>1, <1>2 DEF IInv, Holds, ReportsHold
<1>4. \A i \in DOMAIN Tail(out[w]) :
         Tail(out[w])[i].type # "register" => Tail(out[w])[i].job \in Job
  BY <1>2 DEF IInv, Holds, ReportsHold
<1>5. ReportsHold'
  BY <1>1, <1>4 DEF IInv, Holds, ReportsHold
<1>. QED
  BY <1>1, <1>2, <1>3, <1>5

\* ReadRegister keeps the inductive invariant.
LEMMA ReadRegisterStep ==
  ASSUME IInv, NEW w \in Worker, ReadRegister(w)
  PROVE  IInv'
<1>1. /\ w \in Actor /\ coro[w].at = "idle" /\ out' \in [Worker -> Seq(Messages)] /\ ReportsHold'
  BY NextMessageType DEF ReadRegister
<1>2. NetType'
  BY <1>1 DEF ReadRegister, IInv, TypeOK, NetType
<1>3. CoroutineType' /\ CoroutineHolds' /\ LineHolds'
  BY <1>1, RestingType DEF ReadRegister
<1>. QED
  BY <1>1, <1>2, <1>3, Frame DEF ReadRegister, IInv, TypeOK, Holds

\* RegisterWorker keeps the inductive invariant.
LEMMA RegisterWorkerStep ==
  ASSUME IInv, NEW w \in Worker, RegisterWorker(w)
  PROVE  IInv'
<1>1. CoroutineType' /\ CoroutineHolds' /\ LineHolds'
  BY RestingType, IdleIsResting DEF RegisterWorker, Actor
<1>2. PoolType'
  BY DEF RegisterWorker, IInv, TypeOK, PoolType
<1>. QED
  BY <1>1, <1>2, Frame DEF RegisterWorker, IInv, TypeOK, Holds

\* ReadHeartbeat keeps the inductive invariant.
LEMMA ReadHeartbeatStep ==
  ASSUME IInv, NEW w \in Worker, ReadHeartbeat(w)
  PROVE  IInv'
<1>1. PoolType'
  BY DEF ReadHeartbeat, IInv, TypeOK, PoolType
<1>. QED
  BY <1>1, Frame DEF ReadHeartbeat, IInv, TypeOK, Holds

\* ReadProgress keeps the inductive invariant.
LEMMA ReadProgressStep ==
  ASSUME IInv, NEW w \in Worker, ReadProgress(w)
  PROVE  IInv'
<1>1. /\ w \in Actor /\ coro[w].at = "idle" /\ out' \in [Worker -> Seq(Messages)] /\ ReportsHold'
      /\ Head(out[w]).job \in Job
  BY NextMessageType DEF ReadProgress
<1>2. NetType'
  BY <1>1 DEF ReadProgress, IInv, TypeOK, NetType
<1>3. RegistryType' /\ RetryBound'
  BY <1>1 DEF ReadProgress, IInv, TypeOK, RegistryType, RetryBound
<1>. QED
  BY <1>1, <1>2, <1>3, Frame DEF ReadProgress, IInv, TypeOK, Holds

\* ReadCompleted keeps the inductive invariant.
LEMMA ReadCompletedStep ==
  ASSUME IInv, NEW w \in Worker, ReadCompleted(w)
  PROVE  IInv'
<1>1. /\ w \in Actor /\ coro[w].at = "idle" /\ out' \in [Worker -> Seq(Messages)] /\ ReportsHold'
      /\ Head(out[w]).job \in Job
  BY NextMessageType DEF ReadCompleted
<1>2. NetType'
  BY <1>1 DEF ReadCompleted, IInv, TypeOK, NetType
<1>3. RegistryType' /\ RetryBound' /\ PoolType'
  BY <1>1, TaskCompletedType DEF ReadCompleted
<1>. QED
  BY <1>1, <1>2, <1>3, Frame DEF ReadCompleted, IInv, TypeOK, Holds

\* ReadFailed keeps the inductive invariant.
LEMMA ReadFailedStep ==
  ASSUME IInv, NEW w \in Worker, ReadFailed(w)
  PROVE  IInv'
<1>1. /\ w \in Actor /\ coro[w].at = "idle" /\ out' \in [Worker -> Seq(Messages)] /\ ReportsHold'
      /\ Head(out[w]).job \in Job
  BY NextMessageType DEF ReadFailed
<1>2. NetType'
  BY <1>1 DEF ReadFailed, IInv, TypeOK, NetType
<1>3. CoroutineType' /\ CoroutineHolds' /\ LineHolds'
  BY <1>1, StartFailingType DEF ReadFailed
<1>. QED
  BY <1>1, <1>2, <1>3, Frame DEF ReadFailed, IInv, TypeOK, Holds

\* A message a worker puts behind the others.
LEMMA SendType ==
  ASSUME IInv, NEW w \in Worker, NEW type \in {"register", "progress", "completed", "failed"},
         NEW j \in Job \cup {NoJob}, type # "register" => j \in Job, Send(w, type, j)
  PROVE  out' \in [Worker -> Seq(Messages)] /\ ReportsHold'
<1>. DEFINE m == [type |-> type, job |-> j]
<1>1. m \in Messages /\ out \in [Worker -> Seq(Messages)] /\ out' = [out EXCEPT ![w] = Append(out[w], m)]
  BY DEF Send, Messages, IInv, TypeOK, NetType
<1>2. /\ Append(out[w], m) \in Seq(Messages) /\ Len(out[w]) \in Nat
      /\ DOMAIN Append(out[w], m) = 1..Len(out[w]) + 1 /\ DOMAIN out[w] = 1..Len(out[w])
      /\ \A i \in 1..Len(out[w]) : Append(out[w], m)[i] = out[w][i]
      /\ Append(out[w], m)[Len(out[w]) + 1] = m
  BY <1>1, AppendProperties, LenProperties
<1>3. \A i \in DOMAIN Append(out[w], m) :
         Append(out[w], m)[i].type # "register" => Append(out[w], m)[i].job \in Job
  BY <1>2 DEF IInv, Holds, ReportsHold
<1>4. ReportsHold'
  BY <1>1, <1>3 DEF IInv, Holds, ReportsHold
<1>. QED
  BY <1>1, <1>2, <1>4

\* Connect keeps the inductive invariant.
LEMMA ConnectStep ==
  ASSUME IInv, NEW w \in Worker, Connect(w)
  PROVE  IInv'
<1>1. out' \in [Worker -> Seq(Messages)] /\ ReportsHold'
  BY SendType DEF Connect
<1>2. NetType'
  BY <1>1 DEF Connect, IInv, TypeOK, NetType
<1>. QED
  BY <1>1, <1>2, Frame DEF Connect, IInv, TypeOK, Holds

\* ReceiveTask keeps the inductive invariant.
LEMMA ReceiveTaskStep ==
  ASSUME IInv, NEW w \in Worker, ReceiveTask(w)
  PROVE  IInv'
<1>. DEFINE e == [job |-> Head(wq[w]), told |-> 0]
<1>1. wq[w] \in Seq(Job) /\ wq[w] # <<>> /\ running[w] \in Seq(Executions)
  BY DEF ReceiveTask, IInv, TypeOK, NetType
<1>2. Head(wq[w]) \in Job /\ Tail(wq[w]) \in Seq(Job)
  BY <1>1, HeadTailProperties
<1>3. Append(running[w], e) \in Seq(Executions)
  BY <1>1, <1>2, AppendProperties DEF Executions
<1>4. NetType' /\ ReportsHold'
  BY <1>2, <1>3 DEF ReceiveTask, IInv, TypeOK, Holds, NetType, ReportsHold
<1>. QED
  BY <1>4, Frame DEF ReceiveTask, IInv, TypeOK, Holds

\* ReportProgress keeps the inductive invariant.
LEMMA ReportProgressStep ==
  ASSUME IInv, NEW w \in Worker, NEW i \in DOMAIN running[w], ReportProgress(w, i)
  PROVE  IInv'
<1>1. running[w] \in Seq(Executions) /\ running[w][i] \in Executions
  BY LenProperties, ElementOfSeq DEF IInv, TypeOK, NetType
<1>2. running[w][i].job \in Job /\ [running[w][i] EXCEPT !.told = @ + 1] \in Executions
  BY <1>1 DEF Executions
<1>3. [running[w] EXCEPT ![i] = [running[w][i] EXCEPT !.told = @ + 1]] \in Seq(Executions)
  BY <1>1, <1>2, ExceptSeq, LenProperties
<1>4. running' = [running EXCEPT ![w] = [running[w] EXCEPT ![i] = [running[w][i] EXCEPT !.told = @ + 1]]]
  BY DEF ReportProgress
<1>5. running' \in [Worker -> Seq(Executions)]
  BY <1>3, <1>4 DEF IInv, TypeOK, NetType
<1>6. out' \in [Worker -> Seq(Messages)] /\ ReportsHold'
  BY <1>2, SendType DEF ReportProgress
<1>7. NetType'
  BY <1>5, <1>6 DEF ReportProgress, IInv, TypeOK, NetType
<1>. QED
  BY <1>6, <1>7, Frame DEF ReportProgress, IInv, TypeOK, Holds

\* ReportResult keeps the inductive invariant.
LEMMA ReportResultStep ==
  ASSUME IInv, NEW w \in Worker, NEW i \in DOMAIN running[w],
         NEW type \in {"completed", "failed"}, ReportResult(w, i, type)
  PROVE  IInv'
<1>1. running[w] \in Seq(Executions) /\ running[w][i] \in Executions
  BY LenProperties, ElementOfSeq DEF IInv, TypeOK, NetType
<1>2. running[w][i].job \in Job
  BY <1>1 DEF Executions
<1>3. Without(running[w], i) \in Seq(Executions)
  BY <1>1, WithoutType
<1>4. running' \in [Worker -> Seq(Executions)]
  BY <1>3 DEF ReportResult, IInv, TypeOK, NetType
<1>5. out' \in [Worker -> Seq(Messages)] /\ ReportsHold'
  BY <1>2, SendType DEF ReportResult
<1>6. NetType'
  BY <1>4, <1>5 DEF ReportResult, IInv, TypeOK, NetType
<1>. QED
  BY <1>5, <1>6, Frame DEF ReportResult, IInv, TypeOK, Holds

\* The end of a stream takes its reader out of the line, if it stands there.
LEMMA CloseStreamType ==
  ASSUME IInv, NEW w \in Worker, CloseStream(w)
  PROVE  QueueType' /\ CoroutineType' /\ CoroutineHolds' /\ LineHolds' /\ CountType'
<1>1. /\ w \in Actor /\ coro' = [coro EXCEPT ![w] = Idle] /\ queue' = queue
      /\ lockq \in Seq(Actor) /\ Len(lockq) \in Nat /\ DOMAIN lockq = 1..Len(lockq)
  BY LenProperties DEF CloseStream, Actor, IInv, TypeOK, QueueType
<1>2. CoroutineType' /\ CoroutineHolds'
  BY <1>1 DEF IInv, TypeOK, Holds, CoroutineType, CoroutineHolds, Idle
<1>3. CountType'
  BY SpendType DEF CloseStream, Bound
<1>4. \A i \in 1..Len(lockq) : lockq[i] \in Actor
  BY <1>1, ElementOfSeq
<1>5. \A a \in Actor : a # w => coro'[a] = coro[a]
  BY <1>1 DEF IInv, TypeOK, CoroutineType
<1>6. CASE \E i \in DOMAIN lockq : lockq[i] = w
  <2>1. PICK i \in DOMAIN lockq : lockq[i] = w /\ lockq' = Without(lockq, i)
    BY <1>6 DEF CloseStream
  <2>2. /\ lockq' \in Seq(Actor) /\ DOMAIN lockq' = 1..Len(lockq) - 1
        /\ \A k \in 1..Len(lockq) - 1 : lockq'[k] = IF k < i THEN lockq[k] ELSE lockq[k + 1]
    BY <1>1, <2>1, WithoutType
  <2>. DEFINE At(k) == IF k < i THEN k ELSE k + 1
  <2>3. \A k \in DOMAIN lockq' : At(k) \in DOMAIN lockq /\ At(k) # i /\ lockq'[k] = lockq[At(k)]
    BY <1>1, <2>1, <2>2
  <2>4. \A k, m \in DOMAIN lockq' : At(k) = At(m) => k = m
    BY <1>1, <2>1, <2>2
  <2>5. \A k \in DOMAIN lockq : k # i => lockq[k] # w
    BY <2>1 DEF IInv, Holds, LineHolds
  <2>6. \A k \in DOMAIN lockq' : coro'[lockq'[k]].at = "lock"
    BY <1>1, <1>4, <1>5, <2>3, <2>5 DEF IInv, Holds, LineHolds
  <2>7. \A k, m \in DOMAIN lockq' : lockq'[k] = lockq'[m] => k = m
    BY <2>3, <2>4 DEF IInv, Holds, LineHolds
  <2>. QED
    BY <1>1, <1>2, <1>3, <2>2, <2>6, <2>7 DEF QueueType, LineHolds, IInv, TypeOK
<1>7. CASE ~\E i \in DOMAIN lockq : lockq[i] = w
  <2>1. lockq' = lockq
    BY <1>7 DEF CloseStream
  <2>. QED
    BY <1>1, <1>2, <1>3, <1>4, <1>5, <1>7, <2>1 DEF QueueType, LineHolds, IInv, TypeOK, Holds
<1>. QED
  BY <1>6, <1>7

\* StreamBreaks keeps the inductive invariant.
LEMMA StreamBreaksStep ==
  ASSUME IInv, NEW w \in Worker, NEW lost \in 0..Len(out[w]), StreamBreaks(w, lost)
  PROVE  IInv'
<1>. DEFINE rest == SubSeq(out[w], lost + 1, Len(out[w]))
<1>1. /\ out[w] \in Seq(Messages) /\ Len(out[w]) \in Nat /\ DOMAIN out[w] = 1..Len(out[w])
      /\ out' = [out EXCEPT ![w] = rest] /\ lost \in Nat
  BY LenProperties DEF StreamBreaks, IInv, TypeOK, NetType
<1>2. /\ rest \in Seq(Messages) /\ DOMAIN rest = 1..Len(out[w]) - lost
      /\ \A i \in 1..Len(out[w]) - lost : rest[i] = out[w][lost + i]
  <2>1. CASE lost = Len(out[w])
    BY <1>1, <2>1, SubSeqEmpty, LenProperties
  <2>2. CASE lost < Len(out[w])
    BY <1>1, <2>2, SubSeqProperties, LenProperties
  <2>. QED
    BY <1>1, <2>1, <2>2
<1>3. \A i \in DOMAIN rest : rest[i].type # "register" => rest[i].job \in Job
  BY <1>1, <1>2 DEF IInv, Holds, ReportsHold
<1>4. ReportsHold'
  BY <1>1, <1>3 DEF IInv, TypeOK, Holds, NetType, ReportsHold
<1>5. NetType'
  BY <1>1, <1>2 DEF StreamBreaks, CloseStream, IInv, TypeOK, NetType
<1>6. CloseStream(w) /\ UNCHANGED <<loopVars, registryVars, poolVars>>
  BY DEF StreamBreaks, CloseStream
<1>. QED
  BY <1>4, <1>5, <1>6, CloseStreamType, Frame DEF IInv, TypeOK, Holds

\* WorkerCrashes keeps the inductive invariant.
LEMMA WorkerCrashesStep ==
  ASSUME IInv, NEW w \in Worker, WorkerCrashes(w)
  PROVE  IInv'
<1>1. NetType' /\ ReportsHold'
  BY DEF WorkerCrashes, CloseStream, IInv, TypeOK, Holds, NetType, ReportsHold
<1>2. CloseStream(w) /\ UNCHANGED <<loopVars, registryVars, poolVars>>
  BY DEF WorkerCrashes, CloseStream
<1>. QED
  BY <1>1, <1>2, CloseStreamType, Frame DEF IInv, TypeOK, Holds

\* HeartbeatAges keeps the inductive invariant.
LEMMA HeartbeatAgesStep ==
  ASSUME IInv, NEW w \in Worker, HeartbeatAges(w)
  PROVE  IInv'
<1>1. PoolType'
  BY DEF HeartbeatAges, IInv, TypeOK, PoolType
<1>2. CountType'
  BY SpendType, Frame DEF HeartbeatAges, Bound
<1>. QED
  BY <1>1, <1>2, Frame DEF HeartbeatAges, IInv, TypeOK, Holds

\* Every step keeps the inductive invariant.
LEMMA NextInvariant == IInv /\ [Next]_vars => IInv'
<1>. SUFFICES ASSUME IInv, [Next]_vars PROVE IInv'
  OBVIOUS
<1>1. CASE LoopStep
  BY <1>1, CheckHealthStep, BeginPassStep, NoCandidateStep, ReserveRefusedStep,
     ReserveGrantedStep, ConfirmedStep, PassFailsStep, EndPassStep, FailoverWorkerStep,
     SelectWorkerStep DEF LoopStep
<1>2. CASE LockGranted
  BY <1>2, LockGrantedStep
<1>3. CASE \E j \in Job : CreateJob(j)
  BY <1>3, CreateJobStep
<1>4. CASE \E c \in Actor : HandleFailure(c) \/ ReleaseFails(c)
  BY <1>4, HandleFailureStep, ReleaseFailsStep
<1>5. CASE \E s \in Slot : DispatchStep(s)
  BY <1>5, DispatchRemoteStep, LocalCompletesStep, LocalFailsStep DEF DispatchStep
<1>6. ASSUME NEW w \in Worker, ReaderStep(w) PROVE IInv'
  BY <1>6, ReadRegisterStep, RegisterWorkerStep, ReadHeartbeatStep, ReadProgressStep,
     ReadCompletedStep, ReadFailedStep DEF ReaderStep
<1>7. ASSUME NEW w \in Worker, WorkerStep(w) PROVE IInv'
  BY <1>7, ReceiveTaskStep, ReportProgressStep, ReportResultStep DEF WorkerStep
<1>8. ASSUME NEW w \in Worker, NetStep(w) PROVE IInv'
  BY <1>8, ConnectStep, WorkerCrashesStep, HeartbeatAgesStep, ReaderFailsStep, StreamBreaksStep
     DEF NetStep
<1>9. CASE UNCHANGED vars
  BY <1>9, Frame DEF vars, IInv, TypeOK, Holds
<1>. QED
  BY <1>1, <1>2, <1>3, <1>4, <1>5, <1>6, <1>7, <1>8, <1>9 DEF Next

\* The inductive invariant holds in every reachable state of FlowScheduler.
THEOREM Invariance == Spec => []IInv
  BY InitInvariant, NextInvariant, PTL DEF Spec

\* Every variable keeps its type, whatever is interleaved, lost or fails.
THEOREM TypeCorrect == Spec => []TypeOK
<1>1. IInv => TypeOK
  BY DEF IInv
<1>. QED
  BY <1>1, Invariance, PTL

\* retry_count never exceeds max_retries (scheduler.py:230-231), for any number of
\* jobs, workers and failure handlers running at once, with any failures.
THEOREM RetriesBounded == Spec => []RetryBound
<1>1. IInv => RetryBound
  BY DEF IInv
<1>. QED
  BY <1>1, Invariance, PTL

\* Whoever resumes finds what it was suspended with: its job and worker are known, the
\* queue's waiters stand in line once, every report names a job.
THEOREM SuspendedRelyOn == Spec => []Holds
<1>1. IInv => Holds
  BY DEF IInv
<1>. QED
  BY <1>1, Invariance, PTL

=============================================================================
