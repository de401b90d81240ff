----------------------- MODULE FlowScheduler_custody -----------------------
(***************************************************************************)
(* Proofs that follow the jobs of FlowScheduler: somebody is always about  *)
(* to move an unfinished job on, and while nothing disturbs the system a   *)
(* job is in one place and a worker has one job.                           *)
(***************************************************************************)
EXTENDS FlowScheduler_tickets

----------------------------------------------------------------------------
(* Elements of sequences *)

Has(s, x) == \E i \in DOMAIN s : s[i] = x

\* The elements of a sequence are those of its parts.
LEMMA ConcatHas ==
  ASSUME NEW S, NEW s \in Seq(S), NEW t \in Seq(S), NEW x
  PROVE  Has(s \o t, x) <=> Has(s, x) \/ Has(t, x)
<1>1. /\ Len(s) \in Nat /\ Len(t) \in Nat /\ DOMAIN s = 1..Len(s) /\ DOMAIN t = 1..Len(t)
      /\ DOMAIN (s \o t) = 1..Len(s) + Len(t)
      /\ \A i \in 1..Len(s) + Len(t) : (s \o t)[i] = IF i <= Len(s) THEN s[i] ELSE t[i - Len(s)]
  BY LenProperties, ConcatProperties
<1>2. \A i \in 1..Len(s) + Len(t) : i <= Len(s) \/ i - Len(s) \in 1..Len(t)
  BY <1>1
<1>3. ASSUME NEW i \in 1..Len(t), t[i] = x PROVE Has(s \o t, x)
  <2>1. i + Len(s) \in 1..Len(s) + Len(t) /\ (i + Len(s)) - Len(s) = i /\ ~(i + Len(s) <= Len(s))
    BY <1>1
  <2>. QED
    BY <1>1, <1>3, <2>1 DEF Has
<1>4. ASSUME NEW i \in 1..Len(s), s[i] = x PROVE Has(s \o t, x)
  BY <1>1, <1>4 DEF Has
<1>5. ASSUME Has(s \o t, x) PROVE Has(s, x) \/ Has(t, x)
  BY <1>1, <1>2, <1>5 DEF Has
<1>. QED
  BY <1>1, <1>3, <1>4, <1>5 DEF Has

\* Appending adds one element.
LEMMA AppendHas ==
  ASSUME NEW S, NEW s \in Seq(S), NEW y \in S, NEW x
  PROVE  Has(Append(s, y), x) <=> Has(s, x) \/ x = y
<1>1. /\ Len(s) \in Nat /\ DOMAIN s = 1..Len(s)
      /\ DOMAIN Append(s, y) = 1..Len(s) + 1
      /\ \A i \in 1..Len(s) : Append(s, y)[i] = s[i]
      /\ Append(s, y)[Len(s) + 1] = y
  BY LenProperties, AppendProperties
<1>. QED
  BY <1>1 DEF Has

\* A sequence that is not empty holds its head and its tail.
LEMMA TailHas ==
  ASSUME NEW S, NEW s \in Seq(S), s # <<>>, NEW x
  PROVE  Has(s, x) <=> x = Head(s) \/ Has(Tail(s), x)
<1>1. /\ Len(s) \in Nat /\ Len(s) > 0 /\ DOMAIN s = 1..Len(s) /\ Head(s) = s[1]
      /\ DOMAIN Tail(s) = 1..Len(s) - 1 /\ \A i \in 1..Len(s) - 1 : Tail(s)[i] = s[i + 1]
  BY LenProperties, HeadTailProperties, EmptySeq
<1>2. ASSUME NEW i \in 1..Len(s), s[i] = x, i # 1 PROVE Has(Tail(s), x)
  <2>1. i - 1 \in 1..Len(s) - 1 /\ (i - 1) + 1 = i
    BY <1>1, <1>2
  <2>. QED
    BY <1>1, <1>2, <2>1 DEF Has
<1>. QED
  BY <1>1, <1>2 DEF Has

\* A sequence holds an element of its and the others.
LEMMA WithoutHas ==
  ASSUME NEW S, NEW s \in Seq(S), NEW i \in DOMAIN s, NEW x
  PROVE  /\ Has(s, x) => x = s[i] \/ Has(Without(s, i), x)
         /\ Has(Without(s, i), x) => Has(s, x)
<1>1. /\ Len(s) \in Nat /\ DOMAIN s = 1..Len(s) /\ DOMAIN Without(s, i) = 1..Len(s) - 1
      /\ \A k \in 1..Len(s) - 1 : Without(s, i)[k] = IF k < i THEN s[k] ELSE s[k + 1]
  BY LenProperties, WithoutType
<1>2. ASSUME NEW k \in 1..Len(s), s[k] = x, k # i PROVE Has(Without(s, i), x)
  <2>1. CASE k < i
    BY <1>1, <1>2, <2>1 DEF Has
  <2>2. CASE k > i
    <3>1. k - 1 \in 1..Len(s) - 1 /\ ~(k - 1 < i) /\ (k - 1) + 1 = k
      BY <1>1, <2>2
    <3>. QED
      BY <1>1, <1>2, <3>1 DEF Has
  <2>. QED
    BY <1>1, <1>2, <2>1, <2>2
<1>3. \A k \in 1..Len(s) - 1 : k \in DOMAIN s /\ k + 1 \in DOMAIN s
  BY <1>1
<1>. QED
  BY <1>1, <1>2, <1>3 DEF Has

\* Only the empty sequence has no element.
LEMMA NoElement ==
  ASSUME NEW S, NEW s \in Seq(S)
  PROVE  (Len(s) = 0) <=> (s = <<>>)
BY EmptySeq

\* What Append does, whatever is appended.
LEMMA Appended ==
  ASSUME NEW S, NEW s \in Seq(S), NEW y
  PROVE  /\ Len(s) \in Nat /\ DOMAIN s = 1..Len(s)
         /\ Append(s, y) # <<>> /\ Len(Append(s, y)) = Len(s) + 1
         /\ DOMAIN Append(s, y) = 1..Len(s) + 1
         /\ \A k \in 1..Len(s) : Append(s, y)[k] = s[k]
         /\ Append(s, y)[Len(s) + 1] = y
<1>1. s \in Seq(S \cup {y}) /\ y \in S \cup {y}
  BY SeqMonotonic
<1>2. /\ Append(s, y) \in Seq(S \cup {y}) /\ Append(s, y) # <<>>
      /\ Len(Append(s, y)) = Len(s) + 1 /\ Append(s, y)[Len(s) + 1] = y
      /\ \A k \in 1..Len(s) : Append(s, y)[k] = s[k]
  BY <1>1, AppendProperties
<1>3. DOMAIN Append(s, y) = 1..Len(Append(s, y))
  BY <1>2, LenProperties
<1>. QED
  BY <1>2, <1>3, LenProperties

\* A job occurs in a sequence that holds it.
LEMMA OccursIfHas ==
  ASSUME NEW s \in Seq(Job), NEW j
  PROVE  (Occurrences(s, j) > 0) <=> Has(s, j)
<1>1. IsFiniteSet(Places(s, j)) /\ Occurrences(s, j) = Cardinality(Places(s, j)) /\ Occurrences(s, j) \in Nat
  BY OccurrencesType
<1>2. (Cardinality(Places(s, j)) = 0) <=> (Places(s, j) = {})
  BY <1>1, FS_EmptySet
<1>3. (Places(s, j) = {}) <=> ~Has(s, j)
  BY DEF Places, Has
<1>. QED
  BY <1>1, <1>2, <1>3

----------------------------------------------------------------------------
(* Somebody is always about to move an unfinished job on *)

Queued(j) == Has(Pending, j)
InCoroutine(j) == \E c \in Actor : coro[c].job = j
AtWorker(w, j) ==
  \/ Has(wq[w], j)
  \/ \E e \in Executions : e.job = j /\ Has(running[w], e)
  \/ \E m \in Messages : m.job = j /\ m.type \in {"completed", "failed"} /\ Has(out[w], m)
Held(j) == Queued(j) \/ InCoroutine(j) \/ \E w \in Worker : AtWorker(w, j)

\* A coroutine that waits for nothing has no job in hand.
IdleHolds == \A c \in Actor : coro[c].at \in {"idle", "register", "dead"} => coro[c].job = NoJob

Unbroken == spent["breaks"] = 0 /\ spent["dbErrors"] = 0

\* Inductive: every step that takes an unfinished job out of one hand puts it into another.
Remembered ==
  /\ IdleHolds
  /\ Unbroken => \A j \in Job : phase[j] # "none" /\ ~finished[j] => Held(j)

\* A pass owns what the queue holds until it ends.
LEMMA PendingType ==
  ASSUME IInv
  PROVE  Pending \in Seq(Job)
<1>1. queue \in Seq(Job) /\ kept \in Seq(Job) /\ todo \in Seq(Job)
  BY DEF IInv, TypeOK, QueueType, LoopType
<1>2. kept \o todo \in Seq(Job)
  BY <1>1, ConcatProperties
<1>. QED
  BY <1>1, <1>2 DEF Pending

\* The bounds are only ever used up.
LEMMA SpentGrows ==
  ASSUME IInv, Next
  PROVE  \A b \in DOMAIN Bound : spent'[b] >= spent[b]
<1>1. spent \in [DOMAIN Bound -> Nat]
  BY DEF IInv, TypeOK, CountType
<1>2. ASSUME NEW x \in DOMAIN Bound, Spend(x) PROVE \A b \in DOMAIN Bound : spent'[b] >= spent[b]
  BY <1>1, <1>2 DEF Spend
<1>3. /\ "refusals" \in DOMAIN Bound /\ "lapses" \in DOMAIN Bound
      /\ "breaks" \in DOMAIN Bound /\ "dbErrors" \in DOMAIN Bound
  BY DEF Bound
<1>4. UNCHANGED spent => \A b \in DOMAIN Bound : spent'[b] >= spent[b]
  BY <1>1
<1>5. (\E x \in DOMAIN Bound : Spend(x)) \/ UNCHANGED spent
  <2>1. CASE LoopStep
    BY <1>3, <2>1 DEF LoopStep, CheckHealth, BeginPass, NoCandidate, ReserveRefused,
       ReserveGranted, Confirmed, PassFails, EndPass, FailoverWorker, SelectWorker
  <2>2. CASE LockGranted \/ \E j \in Job : CreateJob(j)
    BY <2>2 DEF LockGranted, CreateJob
  <2>3. CASE \E c \in Actor : HandleFailure(c) \/ ReleaseFails(c)
    BY <1>3, <2>3 DEF HandleFailure, ReleaseFails
  <2>4. CASE \E s \in Slot : DispatchStep(s)
    BY <2>4 DEF DispatchStep, DispatchRemote, LocalCompletes, LocalFails
  <2>5. CASE \E w \in Worker : ReaderStep(w) \/ WorkerStep(w)
    BY <2>5 DEF ReaderStep, ReadRegister, RegisterWorker, ReadHeartbeat, ReadProgress,
       ReadCompleted, ReadFailed, WorkerStep, ReceiveTask, ReportProgress, ReportResult
  <2>6. CASE \E w \in Worker : NetStep(w)
    BY <1>3, <2>6 DEF NetStep, Connect, WorkerCrashes, HeartbeatAges, ReaderFails, StreamBreaks,
       CloseStream
  <2>. QED
    BY <2>1, <2>2, <2>3, <2>4, <2>5, <2>6 DEF Next
<1>. QED
  BY <1>2, <1>4, <1>5

\* The cases in which nobody lets go of a job.
LEMMA HeldFrame ==
  ASSUME NEW j
  PROVE  /\ UNCHANGED <<queue, kept, todo>> /\ LockHeld' = LockHeld => Queued(j)' = Queued(j)
         /\ UNCHANGED coro => InCoroutine(j)' = InCoroutine(j)
         /\ UNCHANGED netVars => \A w : AtWorker(w, j)' = AtWorker(w, j)
BY DEF Queued, Pending, InCoroutine, AtWorker, netVars

\* Whoever holds a job goes on holding it when a coroutine changes its place with it.
LEMMA CoroutineKeeps ==
  ASSUME IInv, NEW c \in Actor, NEW at, NEW i, NEW w,
         coro' = [coro EXCEPT ![c] = [at |-> at, job |-> i, worker |-> w]],
         NEW j \in Job, coro[c].job # j \/ i = j
  PROVE  InCoroutine(j) => InCoroutine(j)'
<1>1. \A a \in Actor : coro'[a] = IF a = c THEN [at |-> at, job |-> i, worker |-> w] ELSE coro[a]
  BY DEF IInv, TypeOK, CoroutineType
<1>. QED
  BY <1>1 DEF InCoroutine

\* A break or a database error ends the time in which nothing is forgotten.
LEMMA SpendBreaks ==
  ASSUME IInv, Spend("breaks") \/ Spend("dbErrors")
  PROVE  ~Unbroken'
<1>1. spent \in [DOMAIN Bound -> Nat] /\ "breaks" \in DOMAIN Bound /\ "dbErrors" \in DOMAIN Bound
  BY DEF IInv, TypeOK, CountType, Bound
<1>2. spent["breaks"] \in Nat /\ spent["dbErrors"] \in Nat
  BY <1>1
<1>3. spent'["breaks"] = spent["breaks"] + 1 \/ spent'["dbErrors"] = spent["dbErrors"] + 1
  BY <1>1 DEF Spend
<1>. QED
  BY <1>2, <1>3 DEF Unbroken

\* What a step may do to job j.
Keeps(j) == Held(j) => Held(j)' \/ finished'[j]

\* The steps of the scheduler's loop hold on to every job.
LEMMA LoopKeeps ==
  ASSUME IInv, LoopWaits, IdleHolds, LoopStep, Unbroken'
  PROVE  \A j \in Job : Keeps(j)
<1>. SUFFICES ASSUME NEW j \in Job, Held(j) PROVE Held(j)'
  BY DEF Keeps
<1>1. ASSUME Pending' = Pending, UNCHANGED <<coro, netVars>> PROVE Held(j)'
  BY <1>1, HeldFrame DEF Held, Queued
<1>2. queue \in Seq(Job) /\ kept \in Seq(Job) /\ todo \in Seq(Job)
  BY DEF IInv, TypeOK, QueueType, LoopType
<1>3. CASE CheckHealth \/ \E w \in Worker : SelectWorker(w)
  <2>1. Pending' = Pending
    BY <1>3 DEF CheckHealth, SelectWorker, Pending, LockHeld
  <2>. QED
    BY <1>1, <1>3, <2>1 DEF CheckHealth, SelectWorker
<1>4. CASE BeginPass
  <2>1. <<>> \o queue = queue
    BY <1>2, ConcatEmptySeq
  <2>2. Pending' = Pending
    BY <1>4, <2>1 DEF BeginPass, Pending, LockHeld
  <2>. QED
    BY <1>1, <1>4, <2>2 DEF BeginPass
<1>5. CASE NoCandidate \/ ReserveRefused
  <2>1. LockHeld /\ LockHeld' /\ todo # <<>> /\ KeepHead
    BY <1>5 DEF NoCandidate, ReserveRefused, KeepHead, LockHeld, IInv, Holds, PassHolds
  <2>2. Head(todo) \in Job /\ Tail(todo) \in Seq(Job) /\ Append(kept, Head(todo)) \in Seq(Job)
    BY <1>2, <2>1, HeadTailProperties, AppendProperties
  <2>3. /\ Has(kept \o todo, j) <=> Has(kept, j) \/ j = Head(todo) \/ Has(Tail(todo), j)
        /\ Has(Append(kept, Head(todo)) \o Tail(todo), j)
             <=> Has(kept, j) \/ j = Head(todo) \/ Has(Tail(todo), j)
    <3>1. Has(kept \o todo, j) <=> Has(kept, j) \/ Has(todo, j)
      BY <1>2, ConcatHas
    <3>2. Has(todo, j) <=> j = Head(todo) \/ Has(Tail(todo), j)
      BY <1>2, <2>1, TailHas
    <3>3. Has(Append(kept, Head(todo)), j) <=> Has(kept, j) \/ j = Head(todo)
      BY <1>2, <2>2, AppendHas
    <3>4. Has(Append(kept, Head(todo)) \o Tail(todo), j)
            <=> Has(Append(kept, Head(todo)), j) \/ Has(Tail(todo), j)
      BY <2>2, ConcatHas
    <3>. QED
      BY <3>1, <3>2, <3>3, <3>4
  <2>4. Queued(j) => Queued(j)'
    BY <2>1, <2>3 DEF Queued, Pending, KeepHead
  <2>. QED
    BY <2>1, <2>4, HeldFrame DEF Held, KeepHead
<1>6. CASE ReserveGranted
  <2>1. Pending' = Pending
    BY <1>6 DEF ReserveGranted, Pending, LockHeld
  <2>. QED
    BY <1>1, <1>6, <2>1 DEF ReserveGranted
<1>7. CASE Confirmed
  <2>1. LockHeld /\ LockHeld' /\ todo # <<>> /\ kept' = kept /\ todo' = Tail(todo) /\ UNCHANGED netVars
    BY <1>7 DEF Confirmed, LockHeld, IInv, Holds, PassHolds
  <2>2. PICK s \in Slot : /\ coro[s].at = "idle"
                         /\ coro' = [coro EXCEPT ![s] = [at |-> "dispatch", job |-> Head(todo), worker |-> pick]]
    BY <1>7 DEF Confirmed, FreeSlots
  <2>3. s \in Actor /\ coro[s].job = NoJob /\ j # NoJob
    BY <2>2, JobAssumption DEF Actor, IdleHolds
  <2>4. Tail(todo) \in Seq(Job)
    BY <1>2, <2>1, HeadTailProperties
  <2>5. Queued(j) => Queued(j)' \/ j = Head(todo)
    BY <1>2, <2>1, <2>4, ConcatHas, TailHas DEF Queued, Pending
  <2>6. j = Head(todo) => InCoroutine(j)'
    BY <2>2, <2>3 DEF InCoroutine, IInv, TypeOK, CoroutineType
  <2>7. InCoroutine(j) => InCoroutine(j)'
    BY <2>2, <2>3, CoroutineKeeps
  <2>. QED
    BY <2>1, <2>5, <2>6, <2>7, HeldFrame DEF Held
<1>8. CASE PassFails
  BY <1>8, SpendBreaks DEF PassFails
<1>9. CASE EndPass
  <2>1. kept \o <<>> = kept
    BY <1>2, ConcatEmptySeq
  <2>2. Pending' = Pending
    BY <1>9, <2>1 DEF EndPass, Pending, LockHeld
  <2>. QED
    BY <1>1, <1>9, <2>2 DEF EndPass
<1>10. ASSUME NEW w \in Worker, FailoverWorker(w) PROVE Held(j)'
  <2>1. Queued(j)' = Queued(j) /\ UNCHANGED netVars
    BY <1>10, HeldFrame DEF FailoverWorker, LockHeld
  <2>2. Loop \in Actor /\ coro[Loop].job = NoJob /\ j # NoJob
    BY <1>10, JobAssumption DEF FailoverWorker, IdleHolds, Actor
  <2>3. InCoroutine(j) => InCoroutine(j)'
    <3>1. CASE coro' = coro
      BY <3>1 DEF InCoroutine
    <3>2. CASE coro' = [coro EXCEPT ![Loop] = [at |-> "release", job |-> wjob[w], worker |-> w]]
      BY <2>2, <3>2, CoroutineKeeps
    <3>. QED
      BY <1>10, <3>1, <3>2 DEF FailoverWorker
  <2>. QED
    BY <2>1, <2>3, HeldFrame DEF Held
<1>. QED
  BY <1>3, <1>4, <1>5, <1>6, <1>7, <1>8, <1>9, <1>10 DEF LoopStep

\* Who is inserted into the queue or waits for the lock is held, and nobody is lost.
LEMMA SubmitKeeps ==
  ASSUME IInv, NEW c \in Actor, NEW i \in Job, Submit(c, i), coro[c].job \in {NoJob, i},
         UNCHANGED <<loopVars, netVars>>, NEW j \in Job
  PROVE  (Held(j) \/ j = i) => Held(j)'
<1>1. j # NoJob /\ queue \in Seq(Job) /\ <<i>> \in Seq(Job)
  BY JobAssumption DEF IInv, TypeOK, QueueType
<1>2. CASE LockHeld \/ lockq # <<>>
  <2>1. /\ UNCHANGED <<queue, kept, todo>> /\ LockHeld' = LockHeld
        /\ coro' = [coro EXCEPT ![c] = [at |-> "lock", job |-> i, worker |-> NoWorker]]
    BY <1>2 DEF Submit, loopVars, LockHeld
  <2>2. InCoroutine(j) => InCoroutine(j)'
    BY <1>1, <2>1, CoroutineKeeps
  <2>3. j = i => InCoroutine(j)'
    BY <2>1 DEF InCoroutine, IInv, TypeOK, CoroutineType
  <2>. QED
    BY <2>1, <2>2, <2>3, HeldFrame DEF Held
<1>3. CASE ~(LockHeld \/ lockq # <<>>)
  <2>1. /\ queue' = Enqueued(c, i) /\ ~LockHeld /\ ~LockHeld'
        /\ coro' = [coro EXCEPT ![c] = Idle]
    BY <1>3 DEF Submit, loopVars, LockHeld
  <2>2. Has(queue', j) <=> Has(queue, j) \/ j = i
    <3>1. Has(<<i>>, j) <=> j = i
      BY DEF Has
    <3>. QED
      BY <1>1, <2>1, <3>1, ConcatHas, AppendHas DEF Enqueued
  <2>3. InCoroutine(j) => InCoroutine(j)' \/ j = i
    <3>1. CASE j = i
      BY <3>1
    <3>2. CASE j # i
      BY <1>1, <2>1, <3>2, CoroutineKeeps DEF Idle
    <3>. QED
      BY <3>1, <3>2
  <2>. QED
    BY <2>1, <2>2, <2>3, HeldFrame DEF Held, Queued, Pending
<1>. QED
  BY <1>2, <1>3

\* The lock is granted to a coroutine that has its job in hand.
LEMMA LockGrantedKeeps ==
  ASSUME IInv, LockGranted
  PROVE  \A j \in Job : Keeps(j) /\ (phase'[j] # "none" => phase[j] # "none" \/ Held(j)')
<1>. DEFINE c == Head(lockq)
            i == coro[c].job
<1>1. c \in Actor /\ i \in Job
  <2>1. lockq \in Seq(Actor) /\ lockq # <<>> /\ c = lockq[1] /\ 1 \in DOMAIN lockq
    BY LenProperties, EmptySeq, HeadTailProperties DEF LockGranted, IInv, TypeOK, QueueType
  <2>. QED
    BY <2>1, ElementOfSeq DEF IInv, Holds, LineHolds, CoroutineHolds
<1>2. /\ ~LockHeld /\ ~LockHeld' /\ queue' = Enqueued(c, i) /\ UNCHANGED netVars
      /\ phase' = [phase EXCEPT ![i] = "PENDING"]
      /\ coro' = [coro EXCEPT ![c] = Idle]
  BY DEF LockGranted, LockHeld, loopVars
<1>. HIDE DEF c, i
<1>. SUFFICES ASSUME NEW j \in Job
              PROVE  (Held(j) \/ j = i => Held(j)') /\ (phase'[j] # "none" => phase[j] # "none" \/ j = i)
  BY DEF Keeps
<1>3. j # NoJob /\ queue \in Seq(Job) /\ <<i>> \in Seq(Job)
  BY <1>1, JobAssumption DEF IInv, TypeOK, QueueType
<1>4. Has(queue', j) <=> Has(queue, j) \/ j = i
  <2>1. Has(<<i>>, j) <=> j = i
    BY DEF Has
  <2>2. Has(<<i>> \o queue, j) <=> Has(<<i>>, j) \/ Has(queue, j)
    BY <1>3, ConcatHas
  <2>3. Has(Append(queue, i), j) <=> Has(queue, j) \/ j = i
    BY <1>1, <1>3, AppendHas
  <2>. QED
    BY <1>2, <2>1, <2>2, <2>3 DEF Enqueued
<1>5. InCoroutine(j) => InCoroutine(j)' \/ j = i
  <2>1. CASE j = i
    BY <2>1
  <2>2. CASE j # i
    BY <1>1, <1>2, <2>2, CoroutineKeeps DEF Idle, i
  <2>. QED
    BY <2>1, <2>2
<1>6. phase'[j] # "none" => phase[j] # "none" \/ j = i
  BY <1>2 DEF IInv, TypeOK, RegistryType
<1>. QED
  BY <1>2, <1>4, <1>5, <1>6, HeldFrame DEF Held, Queued, Pending

\* A new job goes to the queue or waits in line.
LEMMA CreateJobKeeps ==
  ASSUME IInv, IdleHolds, NEW i \in Job, CreateJob(i)
  PROVE  \A j \in Job : Keeps(j) /\ (phase'[j] # "none" => phase[j] # "none" \/ Held(j)')
<1>. SUFFICES ASSUME NEW j \in Job
              PROVE  Keeps(j) /\ (phase'[j] # "none" => phase[j] # "none" \/ Held(j)')
  OBVIOUS
<1>1. i \in Actor /\ coro[i].job = NoJob /\ Submit(i, i) /\ UNCHANGED <<loopVars, netVars>>
  BY DEF CreateJob, IdleHolds, Actor
<1>2. (Held(j) \/ j = i) => Held(j)'
  BY <1>1, SubmitKeeps
<1>3. phase'[j] # "none" => phase[j] # "none" \/ j = i
  BY DEF CreateJob, IInv, TypeOK, RegistryType
<1>. QED
  BY <1>2, <1>3 DEF Keeps

\* A failed job is submitted again or is finished.
LEMMA HandleFailureKeeps ==
  ASSUME IInv, NEW c \in Actor, HandleFailure(c)
  PROVE  \A j \in Job : Keeps(j)
<1>. DEFINE i == coro[c].job
<1>. SUFFICES ASSUME NEW j \in Job PROVE Keeps(j)
  OBVIOUS
<1>1. i \in Job /\ UNCHANGED <<loopVars, netVars>>
  BY DEF HandleFailure, IInv, Holds, CoroutineHolds
<1>2. CASE CanRetry(i)
  <2>1. Submit(c, i)
    BY <1>2 DEF HandleFailure
  <2>. QED
    BY <1>1, <2>1, SubmitKeeps DEF Keeps
<1>3. CASE ~CanRetry(i)
  <2>1. /\ UNCHANGED queue /\ finished' = [finished EXCEPT ![i] = TRUE]
        /\ coro' = [coro EXCEPT ![c] = Idle]
    BY <1>3 DEF HandleFailure
  <2>2. j = i => finished'[j]
    BY <1>1, <2>1 DEF IInv, TypeOK, RegistryType
  <2>3. j # i => (InCoroutine(j) => InCoroutine(j)')
    BY <2>1, CoroutineKeeps DEF Idle
  <2>4. LockHeld' = LockHeld /\ UNCHANGED <<kept, todo>>
    BY <1>1 DEF loopVars, LockHeld
  <2>. QED
    BY <1>1, <2>1, <2>2, <2>3, <2>4, HeldFrame DEF Held, Keeps
<1>. QED
  BY <1>2, <1>3

\* A dispatch task hands its job to the worker, to a failure handler, or finishes it.
LEMMA DispatchKeeps ==
  ASSUME IInv, NEW s \in Slot, DispatchStep(s)
  PROVE  \A j \in Job : Keeps(j)
<1>. DEFINE i == coro[s].job
            w == coro[s].worker
<1>. SUFFICES ASSUME NEW j \in Job PROVE Keeps(j)
  OBVIOUS
<1>1. s \in Actor /\ i \in Job /\ w \in Worker
  BY DEF DispatchStep, DispatchRemote, LocalCompletes, LocalFails, IInv, Holds, CoroutineHolds, Actor
<1>2. UNCHANGED <<queue, kept, todo>> /\ LockHeld' = LockHeld
  BY DEF DispatchStep, DispatchRemote, LocalCompletes, LocalFails, loopVars, LockHeld
<1>3. ASSUME StartFailing(s, i, w), UNCHANGED netVars PROVE Keeps(j)
  <2>1. InCoroutine(j) => InCoroutine(j)'
    BY <1>1, <1>3, CoroutineKeeps DEF StartFailing
  <2>. QED
    BY <1>2, <1>3, <2>1, HeldFrame DEF Held, Keeps
<1>4. CASE LocalFails(s)
  BY <1>3, <1>4 DEF LocalFails
<1>5. CASE LocalCompletes(s)
  <2>1. finished' = [finished EXCEPT ![i] = TRUE] /\ coro' = [coro EXCEPT ![s] = Idle] /\ UNCHANGED netVars
    BY <1>5 DEF LocalCompletes, TaskCompleted
  <2>2. j = i => finished'[j]
    BY <1>1, <2>1 DEF IInv, TypeOK, RegistryType
  <2>3. j # i => (InCoroutine(j) => InCoroutine(j)')
    BY <1>1, <2>1, CoroutineKeeps DEF Idle
  <2>. QED
    BY <1>2, <2>1, <2>2, <2>3, HeldFrame DEF Held, Keeps
<1>6. CASE DispatchRemote(s)
  <2>1. CASE reachable[w]
    <3>1. /\ wq' = [wq EXCEPT ![w] = Append(wq[w], i)] /\ UNCHANGED <<running, out>>
          /\ coro' = [coro EXCEPT ![s] = Idle]
      BY <1>6, <2>1 DEF DispatchRemote
    <3>2. \A v \in Worker : wq[v] \in Seq(Job)
      BY DEF IInv, TypeOK, NetType
    <3>3. \A v \in Worker : wq'[v] = IF v = w THEN Append(wq[w], i) ELSE wq[v]
      BY <1>1, <3>1 DEF IInv, TypeOK, NetType
    <3>4. \A v \in Worker : Has(wq[v], j) \/ (v = w /\ j = i) => Has(wq'[v], j)
      BY <1>1, <3>2, <3>3, AppendHas
    <3>5. \A v \in Worker : AtWorker(v, j) \/ (v = w /\ j = i) => AtWorker(v, j)'
      BY <3>1, <3>4 DEF AtWorker
    <3>6. j # i => (InCoroutine(j) => InCoroutine(j)')
      BY <1>1, <3>1, CoroutineKeeps DEF Idle
    <3>. QED
      BY <1>1, <1>2, <3>5, <3>6, HeldFrame DEF Held, Keeps
  <2>2. CASE ~reachable[w]
    BY <1>3, <1>6, <2>2 DEF DispatchRemote, netVars
  <2>. QED
    BY <2>1, <2>2
<1>. QED
  BY <1>4, <1>5, <1>6 DEF DispatchStep

\* A report a reader takes off the stream is in its hand now or was none about a result.
LEMMA NextMessageKeeps ==
  ASSUME IInv, NEW w \in Worker, NEW type, NextMessage(w, type), UNCHANGED <<wq, running>>, NEW j
  PROVE  /\ Head(out[w]) \in Messages /\ Head(out[w]).type = type
         /\ type \in {"register", "progress"} \/ Head(out[w]).job # j =>
              \A v \in Worker : AtWorker(v, j) => AtWorker(v, j)'
<1>1. /\ out[w] \in Seq(Messages) /\ out[w] # <<>> /\ out \in [Worker -> Seq(Messages)]
      /\ out' = [out EXCEPT ![w] = Tail(out[w])] /\ Head(out[w]).type = type
  BY DEF NextMessage, IInv, TypeOK, NetType
<1>2. Head(out[w]) \in Messages
  BY <1>1, HeadTailProperties
<1>3. \A m : Has(out[w], m) => m = Head(out[w]) \/ Has(out'[w], m)
  BY <1>1, TailHas
<1>4. \A v \in Worker : v # w => out'[v] = out[v]
  BY <1>1
<1>. QED
  BY <1>1, <1>2, <1>3, <1>4 DEF AtWorker

\* A reader passes on what it takes off the stream, or finishes the job.
LEMMA ReaderKeeps ==
  ASSUME IInv, KnownHolds, IdleHolds, NEW w \in Worker, ReaderStep(w)
  PROVE  \A j \in Job : Keeps(j) /\ (phase'[j] # "none" => phase[j] # "none")
<1>. SUFFICES ASSUME NEW j \in Job
              PROVE  Keeps(j) /\ (phase'[j] # "none" => phase[j] # "none")
  OBVIOUS
<1>1. w \in Actor /\ j # NoJob
  BY JobAssumption DEF Actor
<1>2. UNCHANGED <<queue, kept, todo>> /\ LockHeld' = LockHeld
  BY DEF ReaderStep, ReadRegister, RegisterWorker, ReadHeartbeat, ReadProgress, ReadCompleted,
     ReadFailed, loopVars, LockHeld
<1>3. CASE ReadRegister(w)
  <2>1. \A v \in Worker : AtWorker(v, j) => AtWorker(v, j)'
    BY <1>3, NextMessageKeeps DEF ReadRegister
  <2>2. [Idle EXCEPT !.at = "register"] = [at |-> "register", job |-> NoJob, worker |-> NoWorker]
    BY DEF Idle
  <2>3. InCoroutine(j) => InCoroutine(j)'
    <3>1. /\ coro[w].job = NoJob
          /\ coro' = [coro EXCEPT ![w] = [at |-> "register", job |-> NoJob, worker |-> NoWorker]]
      BY <1>1, <1>3, <2>2 DEF ReadRegister, NextMessage, IdleHolds
    <3>. QED
      BY <1>1, <3>1, CoroutineKeeps
  <2>. QED
    BY <1>2, <1>3, <2>1, <2>3, HeldFrame DEF Held, Keeps, ReadRegister, registryVars
<1>4. CASE RegisterWorker(w)
  <2>1. coro[w].job = NoJob /\ coro' = [coro EXCEPT ![w] = Idle]
    BY <1>1, <1>4 DEF RegisterWorker, IdleHolds
  <2>2. InCoroutine(j) => InCoroutine(j)'
    BY <1>1, <2>1, CoroutineKeeps DEF Idle
  <2>. QED
    BY <1>2, <1>4, <2>2, HeldFrame DEF Held, Keeps, RegisterWorker, registryVars
<1>5. CASE ReadHeartbeat(w)
  BY <1>2, <1>5, HeldFrame DEF Held, Keeps, ReadHeartbeat, registryVars
<1>6. CASE ReadProgress(w)
  <2>1. \A v \in Worker : AtWorker(v, j) => AtWorker(v, j)'
    BY <1>6, NextMessageKeeps DEF ReadProgress
  <2>2. Head(out[w]).job \in Known
    BY <1>6, ReportedKnown DEF ReadProgress
  <2>3. phase'[j] # "none" => phase[j] # "none"
    BY <1>6, <2>2 DEF ReadProgress, Known, IInv, TypeOK, RegistryType
  <2>. QED
    BY <1>2, <1>6, <2>1, <2>3, HeldFrame DEF Held, Keeps, ReadProgress
<1>7. CASE ReadCompleted(w)
  <2>. DEFINE i == Head(out[w]).job
  <2>1. j # i => \A v \in Worker : AtWorker(v, j) => AtWorker(v, j)'
    BY <1>7, NextMessageKeeps DEF ReadCompleted
  <2>2. i \in Known
    BY <1>7, ReportedKnown DEF ReadCompleted
  <2>3. /\ phase'[j] # "none" => phase[j] # "none"
        /\ j = i => finished'[j]
    BY <1>7, <2>2 DEF ReadCompleted, TaskCompleted, Known, IInv, TypeOK, RegistryType
  <2>. QED
    BY <1>2, <1>7, <2>1, <2>3, HeldFrame DEF Held, Keeps, ReadCompleted
<1>8. CASE ReadFailed(w)
  <2>. DEFINE i == Head(out[w]).job
  <2>1. j # i => \A v \in Worker : AtWorker(v, j) => AtWorker(v, j)'
    BY <1>8, NextMessageKeeps DEF ReadFailed
  <2>2. /\ coro[w].job = NoJob
        /\ coro' = [coro EXCEPT ![w] = [at |-> "release", job |-> i, worker |-> w]]
    BY <1>1, <1>8 DEF ReadFailed, NextMessage, IdleHolds, StartFailing
  <2>3. j = i => InCoroutine(j)'
    BY <1>1, <2>2 DEF InCoroutine, IInv, TypeOK, CoroutineType
  <2>4. InCoroutine(j) => InCoroutine(j)'
    BY <1>1, <2>2, CoroutineKeeps
  <2>. QED
    BY <1>2, <1>8, <2>1, <2>3, <2>4, HeldFrame DEF Held, Keeps, ReadFailed, registryVars
<1>. QED
  BY <1>3, <1>4, <1>5, <1>6, <1>7, <1>8 DEF ReaderStep

\* What a worker receives, executes and reports stays with it.
LEMMA WorkerKeeps ==
  ASSUME IInv, NEW w \in Worker, WorkerStep(w)
  PROVE  \A j \in Job : Keeps(j)
<1>. SUFFICES ASSUME NEW j \in Job PROVE Keeps(j)
  OBVIOUS
<1>1. UNCHANGED <<queue, kept, todo, coro>> /\ LockHeld' = LockHeld
  BY DEF WorkerStep, ReceiveTask, ReportProgress, ReportResult, loopVars, LockHeld
<1>2. /\ wq \in [Worker -> Seq(Job)] /\ running \in [Worker -> Seq(Executions)]
      /\ out \in [Worker -> Seq(Messages)]
      /\ wq[w] \in Seq(Job) /\ running[w] \in Seq(Executions) /\ out[w] \in Seq(Messages)
  BY DEF IInv, TypeOK, NetType
<1>3. SUFFICES \A v \in Worker : AtWorker(v, j) => AtWorker(v, j)'
  BY <1>1, HeldFrame DEF Held, Keeps
<1>4. \A v \in Worker : v # w => (AtWorker(v, j) => AtWorker(v, j)')
  BY <1>2 DEF WorkerStep, ReceiveTask, ReportProgress, ReportResult, Send, AtWorker
<1>5. CASE ReceiveTask(w)
  <2>. DEFINE e == [job |-> Head(wq[w]), told |-> 0]
  <2>1. /\ wq[w] # <<>> /\ wq'[w] = Tail(wq[w]) /\ running'[w] = Append(running[w], e)
        /\ out' = out
    BY <1>2, <1>5 DEF ReceiveTask
  <2>2. Head(wq[w]) \in Job /\ e \in Executions
    BY <1>2, <2>1, HeadTailProperties DEF Executions
  <2>3. Has(wq[w], j) => j = Head(wq[w]) \/ Has(wq'[w], j)
    BY <1>2, <2>1, TailHas
  <2>4. \A x : Has(running'[w], x) <=> Has(running[w], x) \/ x = e
    BY <1>2, <2>1, <2>2, AppendHas
  <2>5. AtWorker(w, j) => AtWorker(w, j)'
    BY <2>1, <2>2, <2>3, <2>4 DEF AtWorker
  <2>. QED
    BY <1>4, <2>5
<1>6. ASSUME NEW i \in DOMAIN running[w], ReportProgress(w, i) PROVE AtWorker(w, j) => AtWorker(w, j)'
  <2>. DEFINE m == [type |-> "progress", job |-> running[w][i].job]
  <2>1. running[w][i] \in Executions /\ i \in 1..Len(running[w])
    BY <1>2, ElementOfSeq, LenProperties
  <2>2. /\ wq' = wq /\ out'[w] = Append(out[w], m)
        /\ running'[w] = [running[w] EXCEPT ![i].told = running[w][i].told + 1]
    BY <1>2, <1>6 DEF ReportProgress, Send
  <2>3. m \in Messages
    BY <2>1 DEF Messages, Executions
  <2>4. \A x : Has(out[w], x) => Has(out'[w], x)
    BY <1>2, <2>2, <2>3, AppendHas
  <2>5. /\ running'[w] = [k \in DOMAIN running[w] |->
              IF k = i THEN [job |-> running[w][k].job, told |-> running[w][k].told + 1] ELSE running[w][k]]
        /\ \A k \in DOMAIN running[w] : running[w][k] \in Executions
    <3>1. \A k \in DOMAIN running[w] : running[w][k] \in Executions
      BY <1>2, ElementOfSeq, LenProperties
    <3>2. running[w] = [k \in DOMAIN running[w] |-> running[w][k]]
      BY <1>2
    <3>. QED
      BY <2>1, <2>2, <3>1, <3>2 DEF Executions
  <2>6. ASSUME NEW e \in Executions, e.job = j, Has(running[w], e)
        PROVE  \E f \in Executions : f.job = j /\ Has(running'[w], f)
    <3>1. PICK k \in DOMAIN running[w] : running[w][k] = e
      BY <2>6 DEF Has
    <3>2. CASE k # i
      BY <2>5, <2>6, <3>1, <3>2 DEF Has
    <3>3. CASE k = i
      <4>1. [job |-> e.job, told |-> e.told + 1] \in Executions
        BY <2>6 DEF Executions
      <4>2. Has(running'[w], [job |-> e.job, told |-> e.told + 1])
        BY <2>5, <3>1, <3>3 DEF Has
      <4>. QED
        BY <2>6, <4>1, <4>2
    <3>. QED
      BY <3>2, <3>3
  <2>. QED
    BY <2>2, <2>4, <2>6 DEF AtWorker
<1>7. ASSUME NEW i \in DOMAIN running[w], NEW type \in {"completed", "failed"}, ReportResult(w, i, type)
      PROVE  AtWorker(w, j) => AtWorker(w, j)'
  <2>. DEFINE m == [type |-> type, job |-> running[w][i].job]
  <2>1. running[w][i] \in Executions
    BY <1>2, ElementOfSeq, LenProperties
  <2>2. wq' = wq /\ out'[w] = Append(out[w], m) /\ running'[w] = Without(running[w], i)
    BY <1>2, <1>7 DEF ReportResult, Send
  <2>3. m \in Messages
    BY <2>1 DEF Messages, Executions
  <2>4. \A x : Has(out'[w], x) <=> Has(out[w], x) \/ x = m
    BY <1>2, <2>2, <2>3, AppendHas
  <2>5. \A x : Has(running[w], x) => x = running[w][i] \/ Has(running'[w], x)
    BY <1>2, <2>2, WithoutHas
  <2>. QED
    BY <2>1, <2>2, <2>3, <2>4, <2>5 DEF AtWorker
<1>. QED
  BY <1>4, <1>5, <1>6, <1>7 DEF WorkerStep

\* As long as no stream breaks the network holds on to what it carries.
LEMMA NetKeeps ==
  ASSUME IInv, NEW w \in Worker, NetStep(w), Unbroken'
  PROVE  \A j \in Job : Keeps(j)
<1>. SUFFICES ASSUME NEW j \in Job PROVE Keeps(j)
  OBVIOUS
<1>1. CASE Connect(w)
  <2>. DEFINE m == [type |-> "register", job |-> NoJob]
  <2>1. /\ out \in [Worker -> Seq(Messages)] /\ out' = [out EXCEPT ![w] = Append(out[w], m)]
        /\ m \in Messages
    BY <1>1 DEF Connect, Send, IInv, TypeOK, NetType, Messages
  <2>2. out[w] \in Seq(Messages)
    BY <2>1
  <2>3. \A x : Has(out[w], x) => Has(Append(out[w], m), x)
    BY <2>1, <2>2, AppendHas
  <2>4. \A v \in Worker : AtWorker(v, j) => AtWorker(v, j)'
    BY <1>1, <2>1, <2>3 DEF AtWorker, Connect
  <2>5. UNCHANGED <<queue, kept, todo, coro>> /\ LockHeld' = LockHeld
    BY <1>1 DEF Connect, loopVars, LockHeld
  <2>. QED
    BY <2>4, <2>5, HeldFrame DEF Held, Keeps
<1>2. CASE HeartbeatAges(w)
  BY <1>2, HeldFrame DEF HeartbeatAges, Held, Keeps, LockHeld, loopVars
<1>3. CASE WorkerCrashes(w) \/ ReaderFails(w) \/ \E lost \in 0..Len(out[w]) : StreamBreaks(w, lost)
  BY <1>3, SpendBreaks DEF WorkerCrashes, ReaderFails, StreamBreaks, CloseStream
<1>. QED
  BY <1>1, <1>2, <1>3 DEF NetStep

\* A coroutine that is put in another place has a job there exactly if it needs one.
LEMMA NextIdle ==
  ASSUME IInv, IdleHolds, [Next]_vars
  PROVE  IdleHolds'
<1>1. ASSUME NEW c \in Actor, NEW at, NEW i, NEW v,
             at \in {"idle", "register", "dead"} => i = NoJob,
             coro' = [coro EXCEPT ![c] = [at |-> at, job |-> i, worker |-> v]]
      PROVE  IdleHolds'
  BY <1>1 DEF IdleHolds, IInv, TypeOK, CoroutineType
<1>2. ASSUME NEW c \in Actor, NEW at, coro' = [coro EXCEPT ![c] = [Idle EXCEPT !.at = at]]
      PROVE  IdleHolds'
  <2>1. [Idle EXCEPT !.at = at] = [at |-> at, job |-> NoJob, worker |-> NoWorker]
    BY DEF Idle
  <2>. QED
    BY <1>1, <1>2, <2>1
<1>3. ASSUME NEW c \in Actor, coro' = [coro EXCEPT ![c] = Idle] PROVE IdleHolds'
  BY <1>1, <1>3 DEF Idle
<1>4. CASE UNCHANGED coro
  BY <1>4 DEF IdleHolds
<1>5. ASSUME NEW c \in Actor, NEW i, Submit(c, i) PROVE IdleHolds'
  <2>1. CASE coro' = [coro EXCEPT ![c] = [at |-> "lock", job |-> i, worker |-> NoWorker]]
    BY <1>1, <2>1
  <2>. QED
    BY <1>3, <1>5, <2>1 DEF Submit
<1>6. ASSUME NEW c \in Actor, NEW i, NEW v, StartFailing(c, i, v) PROVE IdleHolds'
  BY <1>1, <1>6 DEF StartFailing
<1>7. CASE LoopStep
  <2>1. CASE Confirmed
    <3>1. PICK s \in Slot : coro' = [coro EXCEPT ![s] = [at |-> "dispatch", job |-> Head(todo), worker |-> pick]]
      BY <2>1 DEF Confirmed, FreeSlots
    <3>. QED
      BY <1>1, <3>1 DEF Actor
  <2>2. ASSUME NEW w \in Worker, FailoverWorker(w) PROVE IdleHolds'
    <3>1. CASE coro' = [coro EXCEPT ![Loop] = [at |-> "release", job |-> wjob[w], worker |-> w]]
      BY <1>1, <3>1 DEF Actor
    <3>. QED
      BY <1>4, <2>2, <3>1 DEF FailoverWorker
  <2>3. CASE ~Confirmed /\ ~\E w \in Worker : FailoverWorker(w)
    BY <1>4, <1>7, <2>3 DEF LoopStep, CheckHealth, BeginPass, NoCandidate, ReserveRefused,
       ReserveGranted, PassFails, EndPass, SelectWorker, KeepHead
  <2>. QED
    BY <2>1, <2>2, <2>3
<1>8. CASE LockGranted
  <2>1. Head(lockq) \in Actor
    BY <1>8, HeadTailProperties DEF LockGranted, IInv, TypeOK, QueueType
  <2>. QED
    BY <1>3, <1>8, <2>1 DEF LockGranted
<1>9. ASSUME NEW i \in Job, CreateJob(i) PROVE IdleHolds'
  BY <1>5, <1>9 DEF CreateJob, Actor
<1>10. ASSUME NEW c \in Actor, HandleFailure(c) PROVE IdleHolds'
  BY <1>3, <1>5, <1>10 DEF HandleFailure
<1>11. ASSUME NEW c \in Actor, ReleaseFails(c) PROVE IdleHolds'
  BY <1>2, <1>3, <1>11 DEF ReleaseFails
<1>12. ASSUME NEW s \in Slot, DispatchStep(s) PROVE IdleHolds'
  <2>1. s \in Actor
    BY DEF Actor
  <2>. QED
    BY <1>3, <1>6, <1>12, <2>1 DEF DispatchStep, DispatchRemote, LocalCompletes, LocalFails
<1>13. ASSUME NEW w \in Worker, ReaderStep(w) \/ WorkerStep(w) \/ NetStep(w) PROVE IdleHolds'
  <2>1. w \in Actor
    BY DEF Actor
  <2>2. CASE ReaderStep(w)
    BY <1>2, <1>3, <1>4, <1>6, <2>1, <2>2 DEF ReaderStep, ReadRegister, RegisterWorker,
       ReadHeartbeat, ReadProgress, ReadCompleted, ReadFailed
  <2>3. CASE WorkerStep(w)
    BY <1>4, <2>3 DEF WorkerStep, ReceiveTask, ReportProgress, ReportResult
  <2>4. CASE NetStep(w)
    BY <1>2, <1>3, <1>4, <2>1, <2>4 DEF NetStep, Connect, WorkerCrashes, HeartbeatAges,
       ReaderFails, StreamBreaks, CloseStream
  <2>. QED
    BY <1>13, <2>2, <2>3, <2>4
<1>14. CASE UNCHANGED vars
  BY <1>4, <1>14 DEF vars
<1>. QED
  BY <1>7, <1>8, <1>9, <1>10, <1>11, <1>12, <1>13, <1>14 DEF Next

\* Every step keeps Remembered.
LEMMA NextRemembered ==
  ASSUME TInv, Remembered, [Next]_vars
  PROVE  Remembered'
<1>. USE DEF TInv
<1>1. IdleHolds'
  BY NextIdle DEF Remembered
<1>2. CASE UNCHANGED vars
  <2>1. UNCHANGED <<queue, kept, todo, coro, netVars, phase, finished, spent>> /\ LockHeld' = LockHeld
    BY <1>2 DEF vars, loopVars, registryVars, LockHeld
  <2>2. \A j \in Job : Held(j) => Held(j)'
    BY <2>1, HeldFrame DEF Held
  <2>. QED
    BY <1>1, <2>1, <2>2 DEF Remembered, Unbroken
<1>3. ASSUME Next, Unbroken' PROVE Unbroken
  <2>1. /\ spent \in [DOMAIN Bound -> Nat] /\ "breaks" \in DOMAIN Bound /\ "dbErrors" \in DOMAIN Bound
    BY DEF IInv, TypeOK, CountType, Bound
  <2>2. /\ spent["breaks"] \in Nat /\ spent["dbErrors"] \in Nat
        /\ spent'["breaks"] >= spent["breaks"] /\ spent'["dbErrors"] >= spent["dbErrors"]
    BY <1>3, <2>1, SpentGrows
  <2>. QED
    BY <1>3, <2>2 DEF Unbroken
<1>4. ASSUME Next PROVE \A j \in Job : finished[j] => finished'[j]
  <2>1. finished \in [Job -> BOOLEAN]
    BY DEF IInv, TypeOK, RegistryType
  <2>2. finished' = finished \/ \E i : finished' = [finished EXCEPT ![i] = TRUE]
    BY <1>4 DEF Next, LoopStep, CheckHealth, BeginPass, NoCandidate, ReserveRefused,
       ReserveGranted, Confirmed, PassFails, EndPass, FailoverWorker, SelectWorker, KeepHead,
       LockGranted, CreateJob, HandleFailure, ReleaseFails, DispatchStep, DispatchRemote,
       LocalCompletes, LocalFails, TaskCompleted, ReaderStep, ReadRegister, RegisterWorker,
       ReadHeartbeat, ReadProgress, ReadCompleted, ReadFailed, WorkerStep, ReceiveTask,
       ReportProgress, ReportResult, NetStep, Connect, WorkerCrashes, HeartbeatAges, ReaderFails,
       StreamBreaks, CloseStream, registryVars
  <2>. QED
    BY <2>1, <2>2
<1>5. ASSUME Next, Unbroken', NEW j \in Job
      PROVE  Keeps(j) /\ (phase'[j] # "none" => phase[j] # "none" \/ Held(j)')
  <2>. USE DEF Remembered
  <2>1. CASE LockGranted \/ \E i \in Job : CreateJob(i)
    BY <2>1, LockGrantedKeeps, CreateJobKeeps
  <2>2. CASE \E w \in Worker : ReaderStep(w)
    BY <2>2, ReaderKeeps
  <2>3. CASE LoopStep
    <3>1. Keeps(j)
      BY <1>5, <2>3, LoopKeeps
    <3>2. CASE ReserveGranted
      <4>1. todo # <<>> /\ todo \in Seq(Known)
        BY <3>2 DEF ReserveGranted, IInv, Holds, PassHolds, KnownHolds, Within, QueueWithin
      <4>2. Head(todo) \in Known
        BY <4>1, HeadTailProperties
      <4>. QED
        BY <3>1, <3>2, <4>2 DEF ReserveGranted, Known, IInv, TypeOK, RegistryType
    <3>3. CASE ~ReserveGranted
      <4>1. phase' = phase
        BY <2>3, <3>3 DEF LoopStep, CheckHealth, BeginPass, NoCandidate, ReserveRefused, Confirmed,
           PassFails, EndPass, FailoverWorker, SelectWorker, KeepHead, registryVars
      <4>. QED
        BY <3>1, <4>1
    <3>. QED
      BY <3>2, <3>3
  <2>4. ASSUME NEW c \in Actor, HandleFailure(c) \/ ReleaseFails(c)
        PROVE  Keeps(j) /\ (phase'[j] # "none" => phase[j] # "none")
    <3>1. CASE ReleaseFails(c)
      BY <1>5, <3>1, SpendBreaks DEF ReleaseFails
    <3>2. CASE HandleFailure(c)
      <4>1. coro[c].job \in Known
        BY <3>2, CoroutineKnown, JobAssumption DEF HandleFailure, IInv, Holds, CoroutineHolds
      <4>. QED
        BY <3>2, <4>1, HandleFailureKeeps DEF HandleFailure, Known, IInv, TypeOK, RegistryType
    <3>. QED
      BY <2>4, <3>1, <3>2
  <2>5. ASSUME NEW s \in Slot, DispatchStep(s)
        PROVE  Keeps(j) /\ (phase'[j] # "none" => phase[j] # "none")
    <3>1. coro[s].job \in Known
      BY <2>5, CoroutineKnown, JobAssumption DEF DispatchStep, DispatchRemote, LocalCompletes, LocalFails,
         Actor, IInv, Holds, CoroutineHolds
    <3>2. phase'[j] # "none" => phase[j] # "none"
      BY <2>5, <3>1 DEF DispatchStep, DispatchRemote, LocalCompletes, LocalFails, TaskCompleted,
         registryVars, Known, IInv, TypeOK, RegistryType
    <3>. QED
      BY <2>5, <3>2, DispatchKeeps
  <2>6. ASSUME NEW w \in Worker, WorkerStep(w) \/ NetStep(w)
        PROVE  Keeps(j) /\ (phase'[j] # "none" => phase[j] # "none")
    <3>1. phase' = phase
      BY <2>6 DEF WorkerStep, ReceiveTask, ReportProgress, ReportResult, NetStep, Connect,
         WorkerCrashes, HeartbeatAges, ReaderFails, StreamBreaks, CloseStream, registryVars
    <3>. QED
      BY <1>5, <2>6, <3>1, WorkerKeeps, NetKeeps
  <2>. QED
    BY <1>5, <2>1, <2>2, <2>3, <2>4, <2>5, <2>6 DEF Next
<1>6. ASSUME Next PROVE Remembered'
  <2>. SUFFICES ASSUME Unbroken', NEW j \in Job, phase'[j] # "none", ~finished'[j] PROVE Held(j)'
    BY <1>1 DEF Remembered
  <2>. QED
    BY <1>3, <1>4, <1>5, <1>6 DEF Remembered, Keeps
<1>. QED
  BY <1>2, <1>6

\* Initially there is no job.
LEMMA InitRemembered == Init => Remembered
BY DEF Init, Remembered, IdleHolds, Idle

\* While no stream broke and no database call raised, an unfinished job is in the queue, in
\* a coroutine's hand, at a worker, or in a report that a reader has not read yet, however
\* retries, late heartbeats and reports interleave (scheduler.py:110-243, server.py:56-146).
THEOREM NoJobIsForgotten == Spec => []NoJobForgotten
<1>1. TInv /\ [Next]_vars /\ Remembered => Remembered'
  BY NextRemembered
<1>2. TInv /\ Remembered => NoJobForgotten
  <2>. SUFFICES ASSUME TInv, Remembered, Unbroken, NEW j \in Job, phase[j] # "none", ~finished[j]
                PROVE  \/ Occurrences(Pending, j) > 0 \/ \E c \in Actor : coro[c].job = j
                       \/ \E w \in Worker : InFlight(w, j)
    BY DEF NoJobForgotten, Unbroken
  <2>1. Held(j)
    BY DEF Remembered
  <2>2. Queued(j) => Occurrences(Pending, j) > 0
    BY PendingType, OccursIfHas DEF TInv, Queued
  <2>3. \A w \in Worker : AtWorker(w, j) => InFlight(w, j)
    BY DEF AtWorker, InFlight, Has
  <2>. QED
    BY <2>1, <2>2, <2>3 DEF Held, InCoroutine
<1>. QED
  BY <1>1, <1>2, InitRemembered, TicketsInvariance, PTL DEF Spec

----------------------------------------------------------------------------
(* One place for every job, one job for every worker *)

Results == {"completed", "failed"}
Hands(w) == {c \in Actor : coro[c].worker = w /\ coro[c].at \in {"dispatch", "release"}}
Passing(w) == pc = "confirm" /\ pick = w

\* Where the job of a worker is: in a pass that awaits confirm, in the hand of a dispatch
\* task or a failure handler, on its way, executed, reported.
Stages == {"idle", "pass", "hand", "sent", "running", "report"}

PoolFits(w, st) ==
  /\ (st = "idle") <=> (wphase[w] # "BUSY")
  /\ (st = "idle") <=> (wjob[w] = NoJob)
PassFits(w, st) == (st = "pass") <=> Passing(w)
HandFits(w, st) ==
  /\ st = "hand" => \E c \in Actor : Hands(w) = {c} /\ coro[c].job = wjob[w]
  /\ st # "hand" => Hands(w) = {}
SentFits(w, st) ==
  /\ st = "sent" => Len(wq[w]) = 1 /\ wq[w][1] = wjob[w]
  /\ st # "sent" => wq[w] = <<>>
RunFits(w, st) ==
  /\ st = "running" => Len(running[w]) = 1 /\ running[w][1].job = wjob[w]
  /\ st # "running" => running[w] = <<>>

\* Progress comes before the result, and nothing comes after it.
OutFits(w, st) ==
  /\ \A i \in DOMAIN out[w] :
       \/ out[w][i].type = "register" /\ wphase[w] = "none"
       \/ out[w][i].type = "progress" /\ st \in {"running", "report"} /\ out[w][i].job = wjob[w]
       \/ out[w][i].type \in Results /\ st = "report" /\ i = Len(out[w]) /\ out[w][i].job = wjob[w]
  /\ st = "report" => out[w] # <<>> /\ out[w][Len(out[w])].type \in Results

Stage(w, st) ==
  /\ PoolFits(w, st) /\ PassFits(w, st) /\ HandFits(w, st)
  /\ SentFits(w, st) /\ RunFits(w, st) /\ OutFits(w, st)

StagesHold == \A w \in Worker : \E st \in Stages : Stage(w, st)

\* What a pass found out about the worker it picked is still so when it resumes.
PickHolds ==
  /\ pc = "reserve" => wphase[pick] = "IDLE"
  /\ pc = "confirm" => wjob[pick] = Head(todo)

\* A worker connects, registers and stays; nothing is ever sent to the local one.
Registered(w) ==
  /\ wphase[w] # "DISCONNECTED" /\ ~stale[w] /\ coro[w].at # "dead"
  /\ wphase[w] = "none" => w \in Remote
  /\ w \in LocalWorker => wq[w] = <<>> /\ running[w] = <<>>
  /\ ~up[w] => out[w] = <<>> /\ coro[w].at = "idle" /\ (w \in Remote => wphase[w] = "none")
  /\ coro[w].at = "register" => wphase[w] = "none"
  /\ up[w] /\ wphase[w] = "none" =>
       \/ Len(out[w]) = 1 /\ coro[w].at = "idle"
       \/ out[w] = <<>> /\ coro[w].at = "register"

LoopQuiet == gone = {} /\ coro[Loop].at = "idle"

OneWorkerPerJob == \A v, w \in Worker : wjob[v] = wjob[w] /\ wjob[v] # NoJob => v = w

\* A job was dispatched once more than it was retried exactly if it is at a worker or finished.
Out(j) == phase[j] \in Final \/ \E w \in Worker : wjob[w] = j /\ ~Passing(w)
Balance(j) ==
  /\ dispatches[j] = retries[j] + (IF Out(j) THEN 1 ELSE 0)
  /\ \A w \in Worker : wjob[w] = j => phase[j] \notin Final

InCustody ==
  /\ StagesHold /\ PickHolds /\ LoopQuiet /\ OneWorkerPerJob
  /\ \A w \in Worker : Registered(w)
  /\ \A j \in Job : Balance(j)

\* Inductive, together with the tickets.
Custody == Undisturbed => InCustody

\* What a step does not touch stays in its stage.
LEMMA StageFrame ==
  ASSUME NEW w, NEW st, Stage(w, st),
         wphase'[w] = wphase[w], wjob'[w] = wjob[w], wq'[w] = wq[w],
         running'[w] = running[w], out'[w] = out[w],
         Hands(w)' = Hands(w), \A c \in Hands(w) : coro'[c] = coro[c], Passing(w)' = Passing(w)
  PROVE  Stage(w, st)'
<1>1. PoolFits(w, st)' /\ PassFits(w, st)' /\ SentFits(w, st)' /\ RunFits(w, st)' /\ OutFits(w, st)'
  BY DEF Stage, PoolFits, PassFits, SentFits, RunFits, OutFits
<1>2. HandFits(w, st)'
  BY DEF Stage, HandFits
<1>. QED
  BY <1>1, <1>2 DEF Stage

\* Whose hands a job is in after one coroutine moved on.
LEMMA HandsMove ==
  ASSUME IInv, NEW c \in Actor, NEW at, NEW i, NEW x,
         coro' = [coro EXCEPT ![c] = [at |-> at, job |-> i, worker |-> x]], NEW w
  PROVE  /\ Hands(w)' = (Hands(w) \ {c}) \cup (IF at \in {"dispatch", "release"} /\ x = w THEN {c} ELSE {})
         /\ \A a \in Actor : a # c => coro'[a] = coro[a]
         /\ coro'[c] = [at |-> at, job |-> i, worker |-> x]
<1>1. \A a \in Actor : coro'[a] = IF a = c THEN [at |-> at, job |-> i, worker |-> x] ELSE coro[a]
  BY DEF IInv, TypeOK, CoroutineType
<1>. QED
  BY <1>1 DEF Hands

\* Outside of dispatch and release a coroutine may move on without anybody's job.
LEMMA HandsStay ==
  ASSUME IInv, NEW c \in Actor, NEW at, NEW i, NEW x,
         coro' = [coro EXCEPT ![c] = [at |-> at, job |-> i, worker |-> x]], NEW w,
         c \notin Hands(w), at \notin {"dispatch", "release"} \/ x # w
  PROVE  Hands(w)' = Hands(w) /\ \A a \in Hands(w) : coro'[a] = coro[a]
<1>1. \A a \in Actor : coro'[a] = IF a = c THEN [at |-> at, job |-> i, worker |-> x] ELSE coro[a]
  BY DEF IInv, TypeOK, CoroutineType
<1>2. \A a \in Hands(w) : a \in Actor /\ a # c
  BY DEF Hands
<1>. QED
  BY <1>1, <1>2 DEF Hands

\* Nothing disturbed the system before if nothing did afterwards.
LEMMA UndisturbedBefore ==
  ASSUME IInv, [Next]_vars, Undisturbed'
  PROVE  Undisturbed
<1>1. \A b \in {"lapses", "breaks", "dbErrors"} : b \in DOMAIN Bound /\ spent[b] \in Nat
  BY DEF IInv, TypeOK, CountType, Bound
<1>2. CASE UNCHANGED vars
  BY <1>2 DEF vars, Undisturbed
<1>3. CASE Next
  BY <1>1, <1>3, SpentGrows DEF Undisturbed
<1>. QED
  BY <1>2, <1>3

\* A disturbance shows.
LEMMA SpendDisturbs ==
  ASSUME IInv, NEW b \in {"lapses", "breaks", "dbErrors"}, Spend(b)
  PROVE  ~Undisturbed'
<1>1. spent \in [DOMAIN Bound -> Nat] /\ b \in DOMAIN Bound
  BY DEF IInv, TypeOK, CountType, Bound
<1>2. spent[b] \in Nat /\ spent'[b] = spent[b] + 1
  BY <1>1 DEF Spend
<1>. QED
  BY <1>2 DEF Undisturbed

\* A job that waits for a worker is at none and is not finished.
LEMMA WaitingIsNotOut ==
  ASSUME TInv, InCustody, Undisturbed, NEW j \in Job, InHand(j) > 0 \/ Waiting(j) # {}
  PROVE  ~Out(j) /\ phase[j] \notin Final
<1>1. /\ IsFiniteSet(Waiting(j)) /\ JobAccount(j)
      /\ InHand(j) \in Nat /\ dispatches[j] \in Nat /\ Waiters(j) \in Nat
  BY EntriesType DEF TInv, TicketsHold
<1>2. Waiting(j) # {} => Waiters(j) # 0
  BY <1>1, FS_EmptySet DEF Waiters
<1>3. dispatches[j] + InHand(j) + Waiters(j) = Allowed(j)
  BY <1>1 DEF JobAccount, Account, Undisturbed
<1>4. retries[j] \in Nat /\ Allowed(j) <= retries[j] + 1
  BY DEF TInv, IInv, TypeOK, RegistryType, Allowed
<1>5. dispatches[j] <= retries[j]
  BY <1>1, <1>2, <1>3, <1>4 DEF Allowed
<1>. QED
  BY <1>1, <1>4, <1>5 DEF InCustody, Balance, Out

\* A dispatch task or a failure handler has the job of its worker in hand, and nobody else has.
LEMMA InHandStage ==
  ASSUME IInv, InCustody, NEW c \in Actor, coro[c].at \in {"dispatch", "release"}
  PROVE  /\ coro[c].worker \in Worker /\ coro[c].job \in Job
         /\ Stage(coro[c].worker, "hand") /\ Hands(coro[c].worker) = {c}
         /\ wjob[coro[c].worker] = coro[c].job
<1>. DEFINE w == coro[c].worker
<1>1. w \in Worker /\ coro[c].job \in Job
  BY DEF IInv, Holds, CoroutineHolds
<1>2. c \in Hands(w)
  BY DEF Hands
<1>3. PICK st \in Stages : Stage(w, st)
  BY <1>1 DEF InCustody, StagesHold
<1>4. st = "hand"
  BY <1>2, <1>3 DEF Stage, HandFits
<1>5. PICK d \in Actor : Hands(w) = {d} /\ coro[d].job = wjob[w]
  BY <1>3, <1>4 DEF Stage, HandFits
<1>6. d = c
  BY <1>2, <1>5
<1>. QED
  BY <1>1, <1>3, <1>4, <1>5, <1>6

\* A result that is reported is the only one at its worker.
LEMMA ReportedStage ==
  ASSUME IInv, InCustody, NEW w \in Worker, NEW type, NextMessage(w, type)
  PROVE  /\ out[w] \in Seq(Messages) /\ out[w] # <<>> /\ out[w][1] = Head(out[w])
         /\ out[w][1].type = type
         /\ type = "progress" => Head(out[w]).job = wjob[w] /\ wjob[w] # NoJob
         /\ type \in Results => /\ Stage(w, "report") /\ Len(out[w]) = 1
                                /\ Head(out[w]).job = wjob[w] /\ wjob[w] # NoJob
<1>1. /\ out[w] \in Seq(Messages) /\ out[w] # <<>> /\ Head(out[w]).type = type
      /\ Len(out[w]) \in Nat /\ 1 \in DOMAIN out[w] /\ out[w][1] = Head(out[w])
  BY LenProperties, EmptySeq, HeadTailProperties DEF NextMessage, IInv, TypeOK, NetType
<1>2. PICK st \in Stages : Stage(w, st)
  BY DEF InCustody, StagesHold
<1>3. \/ out[w][1].type = "register" /\ wphase[w] = "none"
      \/ out[w][1].type = "progress" /\ st \in {"running", "report"} /\ out[w][1].job = wjob[w]
      \/ out[w][1].type \in Results /\ st = "report" /\ 1 = Len(out[w]) /\ out[w][1].job = wjob[w]
  BY <1>1, <1>2 DEF Stage, OutFits
<1>4. st # "idle" => wjob[w] # NoJob
  BY <1>2 DEF Stage, PoolFits
<1>. QED
  BY <1>1, <1>2, <1>3, <1>4 DEF Results

\* Nothing about the balance of a job changes when its worker keeps it.
LEMMA BalanceFrame ==
  ASSUME InCustody, UNCHANGED <<wjob, dispatches, retries>>,
         \A w \in Worker : wjob[w] # NoJob => Passing(w)' = Passing(w), NEW j \in Job,
         (phase'[j] \in Final) = (phase[j] \in Final)
  PROVE  Balance(j)'
<1>1. \A w \in Worker : wjob[w] = j => Passing(w)' = Passing(w)
  BY JobAssumption
<1>2. Out(j)' = Out(j)
  BY <1>1 DEF Out
<1>. QED
  BY <1>2 DEF InCustody, Balance

\* The steps that neither touch a job nor a worker.
LEMMA QuietCustody ==
  ASSUME InCustody, UNCHANGED <<coro, phase, retries, poolVars, netVars, dispatches>>,
         \A w \in Worker : Passing(w)' = Passing(w), PickHolds', gone' = {}
  PROVE  InCustody'
<1>1. StagesHold'
  <2>. SUFFICES ASSUME NEW w \in Worker, NEW st \in Stages, Stage(w, st) PROVE Stage(w, st)'
    BY DEF InCustody, StagesHold
  <2>1. Hands(w)' = Hands(w)
    BY DEF Hands
  <2>. QED
    BY <2>1, StageFrame DEF poolVars, netVars
<1>2. LoopQuiet' /\ OneWorkerPerJob' /\ \A w \in Worker : Registered(w)'
  BY DEF InCustody, LoopQuiet, OneWorkerPerJob, Registered, poolVars, netVars
<1>3. \A j \in Job : Balance(j)'
  BY BalanceFrame DEF poolVars
<1>. QED
  BY <1>1, <1>2, <1>3 DEF InCustody

\* The reservation was granted: the job is in the hands of the pass.
LEMMA ReserveGrantedCustody ==
  ASSUME TInv, InCustody, Undisturbed, ReserveGranted
  PROVE  InCustody'
<1>. DEFINE i == Head(todo)
<1>1. /\ todo # <<>> /\ todo \in Seq(Job) /\ i \in Job /\ pick \in Worker /\ i # NoJob
      /\ Has(todo, i)
  <2>1. todo # <<>> /\ todo \in Seq(Job) /\ i \in Job /\ pick \in Worker
    BY HeadTailProperties DEF ReserveGranted, TInv, IInv, TypeOK, Holds, PassHolds, LoopType
  <2>. QED
    BY <2>1, TailHas, JobAssumption
<1>2. /\ wphase[pick] = "IDLE" /\ pc = "reserve" /\ pc' = "confirm" /\ pick' = pick /\ todo' = todo
      /\ wphase' = [wphase EXCEPT ![pick] = "BUSY"] /\ wjob' = [wjob EXCEPT ![pick] = i]
      /\ phase' = [phase EXCEPT ![i] = "ASSIGNED"]
      /\ UNCHANGED <<coro, gone, retries, stale, netVars, dispatches>>
      /\ wphase \in [Worker -> {"none", "IDLE", "BUSY", "DISCONNECTED"}]
      /\ wjob \in [Worker -> Job \cup {NoJob}]
  BY DEF ReserveGranted, InCustody, PickHolds, TInv, IInv, TypeOK, PoolType
<1>3. InHand(i) > 0
  <2>1. Occurrences(todo, i) > 0 /\ Occurrences(kept, i) \in Nat /\ Occurrences(todo, i) \in Nat
    BY <1>1, OccursIfHas, OccurrencesType DEF TInv, IInv, TypeOK, LoopType
  <2>. QED
    BY <1>2, <2>1 DEF InHand, LockHeld
<1>4. ~Out(i) /\ phase[i] \notin Final
  BY <1>1, <1>3, WaitingIsNotOut
<1>. HIDE DEF i
<1>11. PICK p \in Worker : p = pick
  BY <1>1
<1>5. \A w \in Worker : ~Passing(w) /\ wjob[w] # i /\ (Passing(w)' <=> w = p)
  BY <1>2, <1>4, <1>11 DEF Out, Passing
<1>6. wjob[p] = NoJob /\ Stage(p, "idle")
  <2>1. PICK st \in Stages : Stage(p, st)
    BY DEF InCustody, StagesHold
  <2>. QED
    BY <1>2, <1>11, <2>1 DEF Stage, PoolFits
<1>7. StagesHold'
  <2>1. \A w \in Worker : Hands(w)' = Hands(w)
    BY <1>2 DEF Hands
  <2>2. ASSUME NEW w \in Worker, w # p PROVE \E st \in Stages : Stage(w, st)'
    <3>1. PICK st \in Stages : Stage(w, st)
      BY DEF InCustody, StagesHold
    <3>2. /\ wphase'[w] = wphase[w] /\ wjob'[w] = wjob[w] /\ UNCHANGED <<coro, wq, running, out>>
          /\ Passing(w)' = Passing(w)
      BY <1>2, <1>5, <1>11, <2>2 DEF netVars, Passing
    <3>. QED
      BY <2>1, <3>1, <3>2, StageFrame
  <2>3. Stage(p, "pass")'
    <3>1. PoolFits(p, "pass")' /\ PassFits(p, "pass")'
      BY <1>1, <1>2, <1>5, <1>11 DEF PoolFits, PassFits
    <3>2. HandFits(p, "pass")' /\ SentFits(p, "pass")' /\ RunFits(p, "pass")'
      BY <1>2, <1>6, <2>1 DEF Stage, HandFits, SentFits, RunFits, netVars
    <3>3. OutFits(p, "pass")'
      BY <1>2, <1>6, <1>11 DEF Stage, OutFits, netVars
    <3>. QED
      BY <3>1, <3>2, <3>3 DEF Stage
  <2>. QED
    BY <2>2, <2>3 DEF StagesHold, Stages
<1>8. PickHolds' /\ LoopQuiet' /\ OneWorkerPerJob'
  BY <1>1, <1>2, <1>5, <1>11 DEF InCustody, PickHolds, LoopQuiet, OneWorkerPerJob, i
<1>9. \A w \in Worker : Registered(w)'
  BY <1>2 DEF InCustody, Registered, netVars
<1>10. ASSUME NEW j \in Job PROVE Balance(j)'
  <2>1. Out(j)' = Out(j) /\ (phase'[j] \in Final <=> phase[j] \in Final)
    BY <1>1, <1>2, <1>4, <1>5, <1>6, <1>11, JobAssumption DEF Out, TInv, IInv, TypeOK, RegistryType, Final
  <2>2. \A w \in Worker : wjob'[w] = j => phase'[j] \notin Final
    BY <1>1, <1>2, <1>4, <2>1 DEF InCustody, Balance
  <2>. QED
    BY <1>2, <2>1, <2>2 DEF InCustody, Balance
<1>. QED
  BY <1>7, <1>8, <1>9, <1>10 DEF InCustody

\* A worker the step has nothing to do with.
Bystander(v) ==
  /\ wphase'[v] = wphase[v] /\ wjob'[v] = wjob[v] /\ wq'[v] = wq[v]
  /\ running'[v] = running[v] /\ out'[v] = out[v]
  /\ Hands(v)' = Hands(v) /\ (\A c \in Hands(v) : coro'[c] = coro[c])
  /\ Passing(v)' = Passing(v)

\* One worker goes to another stage, the others stay where they are.
LEMMA StagesMove ==
  ASSUME InCustody, NEW w \in Worker, NEW st \in Stages, Stage(w, st)',
         \A v \in Worker : v # w => Bystander(v)
  PROVE  StagesHold'
<1>1. ASSUME NEW v \in Worker, v # w PROVE \E s \in Stages : Stage(v, s)'
  <2>1. PICK s \in Stages : Stage(v, s)
    BY DEF InCustody, StagesHold
  <2>2. Stage(v, s)'
    BY <1>1, <2>1, StageFrame DEF Bystander
  <2>. QED
    BY <2>2
<1>. QED
  BY <1>1 DEF StagesHold

\* confirm returned: the job goes from the pass to a dispatch task.
LEMMA ConfirmedCustody ==
  ASSUME TInv, InCustody, Confirmed
  PROVE  InCustody'
<1>. DEFINE i == Head(todo)
<1>1. /\ i \in Job /\ pick \in Worker /\ i # NoJob /\ wjob[pick] = i /\ pc = "confirm"
  BY HeadTailProperties, JobAssumption DEF Confirmed, TInv, IInv, TypeOK, Holds, PassHolds, LoopType,
     InCustody, PickHolds
<1>2. PICK p \in Worker : p = pick
  BY <1>1
<1>3. PICK c \in Slot : /\ coro[c].at = "idle"
                       /\ coro' = [coro EXCEPT ![c] = [at |-> "dispatch", job |-> i, worker |-> p]]
  BY <1>2 DEF Confirmed, FreeSlots
<1>4. c \in Actor /\ c \notin Worker /\ c # Loop
  BY ActorAssumption DEF Actor
<1>5. /\ pc' = "select" /\ dispatches' = [dispatches EXCEPT ![i] = dispatches[i] + 1]
      /\ UNCHANGED <<gone, registryVars, poolVars, netVars>>
      /\ dispatches \in [Job -> Nat] /\ retries \in [Job -> Nat]
  BY DEF Confirmed, TInv, IInv, TypeOK, CountType, RegistryType
<1>. HIDE DEF i
<1>6. /\ \A v \in Worker : (Passing(v) <=> v = p) /\ ~Passing(v)'
      /\ \A v \in Worker : c \notin Hands(v)
  BY <1>1, <1>2, <1>3, <1>5 DEF Passing, Hands
<1>7. /\ \A a \in Actor : coro'[a] = IF a = c THEN [at |-> "dispatch", job |-> i, worker |-> p] ELSE coro[a]
      /\ \A v \in Worker : Hands(v)' = IF v = p THEN Hands(v) \cup {c} ELSE Hands(v)
  <2>1. \A a \in Actor : coro'[a] = IF a = c THEN [at |-> "dispatch", job |-> i, worker |-> p] ELSE coro[a]
    BY <1>3, <1>4 DEF TInv, IInv, TypeOK, CoroutineType
  <2>. QED
    BY <1>4, <1>6, <2>1 DEF Hands
<1>8. Stage(p, "pass") /\ Hands(p) = {}
  BY <1>6 DEF InCustody, StagesHold, Stage, PassFits, HandFits
<1>9. StagesHold'
  <2>1. \A v \in Worker : v # p => Bystander(v)
    BY <1>5, <1>6, <1>7 DEF Bystander, poolVars, netVars, Hands, Passing
  <2>2. HandFits(p, "hand")'
    BY <1>1, <1>2, <1>4, <1>5, <1>7, <1>8 DEF HandFits, poolVars
  <2>3. Stage(p, "hand")'
    BY <1>5, <1>6, <1>8, <2>2 DEF Stage, PoolFits, PassFits, SentFits, RunFits, OutFits, poolVars, netVars
  <2>. QED
    BY <2>1, <2>3, StagesMove DEF Stages
<1>10. PickHolds' /\ LoopQuiet' /\ OneWorkerPerJob' /\ \A w \in Worker : Registered(w)'
  <2>1. Loop \in Actor /\ Worker \subseteq Actor
    BY DEF Actor
  <2>. QED
    BY <1>4, <1>5, <1>7, <2>1 DEF InCustody, PickHolds, LoopQuiet, OneWorkerPerJob, Registered,
       poolVars, netVars
<1>11. ASSUME NEW j \in Job PROVE Balance(j)'
  <2>1. phase' = phase /\ wjob' = wjob /\ retries' = retries
    BY <1>5 DEF registryVars, poolVars
  <2>2. CASE j = i
    <3>1. ~Out(j) /\ Out(j)'
      BY <1>1, <1>2, <1>6, <2>1, <2>2 DEF InCustody, OneWorkerPerJob, Balance, Out
    <3>. QED
      BY <1>5, <2>1, <2>2, <3>1 DEF InCustody, Balance
  <2>3. CASE j # i
    <3>1. Out(j)' <=> Out(j)
      BY <1>1, <1>2, <1>6, <2>1, <2>3 DEF Out
    <3>. QED
      BY <1>5, <2>1, <2>3, <3>1 DEF InCustody, Balance
  <2>. QED
    BY <2>2, <2>3
<1>. QED
  BY <1>9, <1>10, <1>11 DEF InCustody

\* A coroutine gets in line for the lock, or out of it, with a job that no worker has.
LEMMA LineCustody ==
  ASSUME TInv, InCustody, NEW c \in Actor, NEW at \in {"idle", "lock"}, NEW i,
         coro' = [coro EXCEPT ![c] = [at |-> at, job |-> i, worker |-> NoWorker]],
         coro[c].at = "lock" \/ c \in Job, coro[c].at \in {"idle", "lock"},
         UNCHANGED <<loopVars, retries, poolVars, netVars, dispatches>>,
         \A j \in Job : (phase'[j] \in Final) = (phase[j] \in Final)
  PROVE  InCustody'
<1>1. \A a \in Actor : coro'[a] = IF a = c THEN [at |-> at, job |-> i, worker |-> NoWorker] ELSE coro[a]
  BY DEF TInv, IInv, TypeOK, CoroutineType
<1>2. c # Loop /\ (c \in Worker => coro[c].at = "lock") /\ Loop \in Actor /\ Worker \subseteq Actor
  BY ActorAssumption DEF InCustody, LoopQuiet, Actor
<1>3. \A w \in Worker : Hands(w)' = Hands(w) /\ Passing(w)' = Passing(w)
  BY <1>1, WorkerAssumption DEF Hands, Passing, loopVars
<1>4. StagesHold'
  <2>1. \A v \in Worker : Bystander(v)
    BY <1>1, <1>3 DEF Bystander, poolVars, netVars, Hands
  <2>. SUFFICES ASSUME NEW w \in Worker PROVE \E st \in Stages : Stage(w, st)'
    BY DEF StagesHold
  <2>2. PICK st \in Stages : Stage(w, st)
    BY DEF InCustody, StagesHold
  <2>3. Stage(w, st)'
    BY <2>1, <2>2, StageFrame DEF Bystander
  <2>. QED
    BY <2>3
<1>5. PickHolds' /\ LoopQuiet' /\ OneWorkerPerJob'
  BY <1>1, <1>2 DEF InCustody, PickHolds, LoopQuiet, OneWorkerPerJob, loopVars, poolVars
<1>6. \A w \in Worker : Registered(w)'
  BY <1>1, <1>2 DEF InCustody, Registered, poolVars, netVars
<1>7. \A j \in Job : Balance(j)'
  BY <1>3, BalanceFrame DEF poolVars
<1>. QED
  BY <1>4, <1>5, <1>6, <1>7 DEF InCustody

\* A new job is nowhere but in the queue or in line.
LEMMA CreateJobCustody ==
  ASSUME TInv, InCustody, NEW j \in Job, CreateJob(j)
  PROVE  InCustody'
<1>1. /\ j \in Actor /\ coro[j].at = "idle" /\ UNCHANGED <<loopVars, retries, poolVars, netVars, dispatches>>
      /\ Submit(j, j)
  BY DEF CreateJob, Actor
<1>2. \A k \in Job : (phase'[k] \in Final) = (phase[k] \in Final)
  BY DEF CreateJob, TInv, IInv, TypeOK, RegistryType, Final
<1>3. \E at \in {"idle", "lock"} : \E i : coro' = [coro EXCEPT ![j] = [at |-> at, job |-> i, worker |-> NoWorker]]
  BY <1>1 DEF Submit, Idle
<1>. QED
  BY <1>1, <1>2, <1>3, LineCustody

\* A retry that was in line gets into the queue; its job is not finished.
LEMMA LockGrantedCustody ==
  ASSUME TInv, InCustody, Undisturbed, LockGranted
  PROVE  InCustody'
<1>. DEFINE c == Head(lockq)
            i == coro[c].job
<1>1. c \in Actor /\ coro[c].at = "lock" /\ i \in Job
  <2>1. lockq \in Seq(Actor) /\ lockq # <<>> /\ c = lockq[1] /\ 1 \in DOMAIN lockq
    BY LenProperties, EmptySeq, HeadTailProperties DEF LockGranted, TInv, IInv, TypeOK, QueueType
  <2>. QED
    BY <2>1, ElementOfSeq DEF TInv, IInv, Holds, LineHolds, CoroutineHolds
<1>2. phase[i] \notin Final
  BY <1>1, WaitingIsNotOut DEF Waiting
<1>3. /\ phase' = [phase EXCEPT ![i] = "PENDING"] /\ coro' = [coro EXCEPT ![c] = Idle]
      /\ UNCHANGED <<loopVars, retries, poolVars, netVars, dispatches>>
  BY DEF LockGranted
<1>. HIDE DEF c, i
<1>4. \A k \in Job : (phase'[k] \in Final) = (phase[k] \in Final)
  BY <1>1, <1>2, <1>3 DEF TInv, IInv, TypeOK, RegistryType, Final
<1>. QED
  BY <1>1, <1>3, <1>4, LineCustody DEF Idle

\* The other steps of the scheduler's loop move nothing; no worker is lost, and a pass
\* that has assigned a job does not fail.
LEMMA LoopCustody ==
  ASSUME TInv, InCustody, Undisturbed, Undisturbed', LoopStep
  PROVE  InCustody'
<1>1. ASSUME UNCHANGED <<coro, phase, retries, poolVars, netVars, dispatches>>,
             pc # "confirm", pc' # "confirm", pc' = "reserve" => wphase'[pick'] = "IDLE", gone' = {}
      PROVE  InCustody'
  BY <1>1, QuietCustody DEF Passing, PickHolds
<1>2. gone = {} /\ \A w \in Worker : ~stale[w]
  BY DEF InCustody, LoopQuiet, Registered
<1>3. CASE CheckHealth
  <2>1. gone' = {}
    BY <1>2, <1>3 DEF CheckHealth, Remote
  <2>2. wphase' = wphase
    BY <1>3, <2>1 DEF CheckHealth, TInv, IInv, TypeOK, PoolType
  <2>. QED
    BY <1>1, <1>3, <2>1, <2>2 DEF CheckHealth, poolVars, registryVars
<1>4. CASE BeginPass
  BY <1>1, <1>2, <1>4 DEF BeginPass, registryVars
<1>5. CASE NoCandidate \/ ReserveRefused
  BY <1>1, <1>2, <1>5 DEF NoCandidate, ReserveRefused, KeepHead, registryVars
<1>6. CASE EndPass
  BY <1>1, <1>2, <1>6 DEF EndPass, registryVars
<1>7. CASE PassFails
  <2>1. Spend("dbErrors")
    BY <1>7 DEF PassFails
  <2>. QED
    BY <2>1, SpendDisturbs DEF TInv
<1>8. ASSUME NEW w \in Worker, FailoverWorker(w) PROVE InCustody'
  BY <1>2, <1>8 DEF FailoverWorker
<1>9. ASSUME NEW w \in Worker, SelectWorker(w) PROVE InCustody'
  BY <1>1, <1>2, <1>9 DEF SelectWorker, Candidates, registryVars, poolVars
<1>. QED
  BY <1>3, <1>4, <1>5, <1>6, <1>7, <1>8, <1>9, ReserveGrantedCustody, ConfirmedCustody DEF LoopStep

\* The parts of the custody that no worker's step outside the loop can disturb.
LEMMA LoopPartsCustody ==
  ASSUME InCustody, UNCHANGED loopVars, coro'[Loop] = coro[Loop],
         pc = "reserve" => wphase'[pick] = "IDLE",
         pc = "confirm" => wjob'[pick] = wjob[pick]
  PROVE  PickHolds' /\ LoopQuiet' /\ \A w \in Worker : Passing(w)' = Passing(w)
BY DEF InCustody, PickHolds, LoopQuiet, Passing, loopVars

\* A worker gives its job up: the job is finished or has one more retry.
LEMMA FreedCustody ==
  ASSUME TInv, InCustody, NEW w \in Worker, ~Passing(w), NEW j \in Job, wjob[w] = j,
         wphase' = [wphase EXCEPT ![w] = "IDLE"], wjob' = [wjob EXCEPT ![w] = NoJob],
         UNCHANGED <<loopVars, dispatches>>, coro'[Loop] = coro[Loop],
         \/ phase'[j] \in Final /\ retries'[j] = retries[j]
         \/ phase'[j] \notin Final /\ retries'[j] = retries[j] + 1,
         \A k \in Job : k # j => phase'[k] = phase[k] /\ retries'[k] = retries[k]
  PROVE  /\ PickHolds' /\ LoopQuiet' /\ OneWorkerPerJob'
         /\ \A v \in Worker : Passing(v)' = Passing(v)
         /\ \A k \in Job : Balance(k)'
<1>1. /\ \A v \in Worker : wjob'[v] = IF v = w THEN NoJob ELSE wjob[v]
      /\ \A v \in Worker : wphase'[v] = IF v = w THEN "IDLE" ELSE wphase[v]
      /\ retries \in [Job -> Nat] /\ dispatches \in [Job -> Nat] /\ j # NoJob
  BY JobAssumption DEF TInv, IInv, TypeOK, PoolType, RegistryType, CountType
<1>2. PickHolds' /\ LoopQuiet' /\ \A v \in Worker : Passing(v)' = Passing(v)
  <2>1. pc \in {"reserve", "confirm"} => pick \in Worker
    BY DEF TInv, IInv, Holds, PassHolds
  <2>2. pc = "reserve" => wphase'[pick] = "IDLE"
    BY <1>1, <2>1 DEF InCustody, PickHolds
  <2>3. pc = "confirm" => wjob'[pick] = wjob[pick]
    BY <1>1, <2>1 DEF Passing
  <2>. QED
    BY <2>2, <2>3, LoopPartsCustody
<1>3. OneWorkerPerJob'
  BY <1>1 DEF InCustody, OneWorkerPerJob
<1>4. ASSUME NEW k \in Job PROVE Balance(k)'
  <2>1. k # NoJob
    BY JobAssumption
  <2>2. CASE k # j
    <3>1. \A v \in Worker : wjob'[v] = k <=> wjob[v] = k
      BY <1>1, <2>1, <2>2
    <3>2. Out(k)' = Out(k) /\ phase'[k] = phase[k] /\ retries'[k] = retries[k]
      BY <1>2, <2>2, <3>1 DEF Out
    <3>. QED
      BY <3>1, <3>2 DEF InCustody, Balance
  <2>3. CASE k = j
    <3>1. \A v \in Worker : wjob'[v] # j
      BY <1>1 DEF InCustody, OneWorkerPerJob
    <3>2. Out(j) /\ dispatches[j] = retries[j] + 1 /\ dispatches'[j] = dispatches[j]
      BY DEF InCustody, Balance, Out
    <3>3. Out(j)' <=> phase'[j] \in Final
      BY <3>1 DEF Out
    <3>. QED
      BY <1>1, <2>3, <3>1, <3>2, <3>3 DEF Balance
  <2>. QED
    BY <2>2, <2>3
<1>. QED
  BY <1>2, <1>3, <1>4

\* A failed job leaves its worker, which is idle again.
LEMMA HandleFailureCustody ==
  ASSUME TInv, InCustody, NEW c \in Actor, HandleFailure(c)
  PROVE  InCustody'
<1>1. PICK w \in Worker : w = coro[c].worker
  BY InHandStage DEF HandleFailure, TInv
<1>2. PICK j \in Job : j = coro[c].job
  BY InHandStage DEF HandleFailure, TInv
<1>3. Stage(w, "hand") /\ Hands(w) = {c} /\ wjob[w] = j /\ coro[c].at = "release"
  BY <1>1, <1>2, InHandStage DEF HandleFailure, TInv
<1>4. /\ wphase' = [wphase EXCEPT ![w] = "IDLE"] /\ wjob' = [wjob EXCEPT ![w] = NoJob]
      /\ UNCHANGED <<loopVars, stale, netVars, dispatches>>
  BY <1>1 DEF HandleFailure
<1>5. PICK at \in {"idle", "lock"} : \E i :
         coro' = [coro EXCEPT ![c] = [at |-> at, job |-> i, worker |-> NoWorker]]
  BY DEF HandleFailure, Submit, Idle
<1>6. /\ \A a \in Actor : a # c => coro'[a] = coro[a]
      /\ coro'[c].at = at /\ coro'[c].worker = NoWorker
  BY <1>5 DEF TInv, IInv, TypeOK, CoroutineType
<1>7. /\ \/ phase'[j] \in Final /\ retries'[j] = retries[j]
         \/ phase'[j] \notin Final /\ retries'[j] = retries[j] + 1
      /\ \A k \in Job : k # j => phase'[k] = phase[k] /\ retries'[k] = retries[k]
  <2>1. phase[j] \notin Final /\ phase \in [Job -> {"none", "PENDING", "ASSIGNED", "GENERATING", "COMPLETED", "FAILED"}]
        /\ retries \in [Job -> Nat]
    BY <1>3 DEF InCustody, Balance, TInv, IInv, TypeOK, RegistryType
  <2>2. CASE CanRetry(j)
    <3>1. /\ retries' = [retries EXCEPT ![j] = @ + 1]
          /\ phase' = phase \/ phase' = [phase EXCEPT ![j] = "PENDING"]
      BY <1>2, <2>2 DEF HandleFailure
    <3>. QED
      BY <2>1, <3>1 DEF Final
  <2>3. CASE ~CanRetry(j)
    <3>1. retries' = retries /\ phase' = [phase EXCEPT ![j] = "FAILED"]
      BY <1>2, <2>3 DEF HandleFailure
    <3>. QED
      BY <2>1, <3>1 DEF Final
  <2>. QED
    BY <2>2, <2>3
<1>8. c # Loop /\ Loop \in Actor /\ Worker \subseteq Actor
  BY <1>3 DEF InCustody, LoopQuiet, Actor
<1>9. ~Passing(w)
  BY <1>3 DEF Stage, PassFits
<1>10. /\ PickHolds' /\ LoopQuiet' /\ OneWorkerPerJob' /\ \A k \in Job : Balance(k)'
       /\ \A v \in Worker : Passing(v)' = Passing(v)
  BY <1>3, <1>4, <1>6, <1>7, <1>8, <1>9, FreedCustody
<1>11. /\ \A v \in Worker : wjob'[v] = IF v = w THEN NoJob ELSE wjob[v]
       /\ \A v \in Worker : wphase'[v] = IF v = w THEN "IDLE" ELSE wphase[v]
  BY <1>4 DEF TInv, IInv, TypeOK, PoolType
<1>12. \A v \in Worker : Hands(v)' = Hands(v) \ {c}
  BY <1>5, <1>6, WorkerAssumption DEF Hands
<1>13. StagesHold'
  <2>1. ASSUME NEW v \in Worker, v # w PROVE Bystander(v)
    <3>1. c \notin Hands(v)
      BY <1>1, <2>1 DEF Hands
    <3>2. \A a \in Hands(v) : a \in Actor /\ a # c
      BY <3>1 DEF Hands
    <3>. QED
      BY <1>4, <1>6, <1>10, <1>11, <1>12, <2>1, <3>1, <3>2 DEF Bystander, netVars
  <2>2. PoolFits(w, "idle")' /\ PassFits(w, "idle")' /\ HandFits(w, "idle")'
    BY <1>3, <1>9, <1>10, <1>11, <1>12 DEF PoolFits, PassFits, HandFits
  <2>3. SentFits(w, "idle")' /\ RunFits(w, "idle")' /\ OutFits(w, "idle")'
    BY <1>3, <1>4 DEF Stage, PoolFits, SentFits, RunFits, OutFits, netVars
  <2>4. Stage(w, "idle")'
    BY <2>2, <2>3 DEF Stage
  <2>. QED
    BY <2>1, <2>4, StagesMove DEF Stages
<1>14. ASSUME NEW v \in Worker PROVE Registered(v)'
  <2>1. wphase[w] = "BUSY"
    BY <1>3 DEF Stage, PoolFits
  <2>. QED
    BY <1>3, <1>4, <1>6, <1>8, <1>11, <2>1 DEF InCustody, Registered, netVars
<1>. QED
  BY <1>10, <1>13, <1>14 DEF InCustody

\* A job goes to the next stage at its worker: the pool and the registry do not notice.
LEMMA MovedCustody ==
  ASSUME InCustody, UNCHANGED <<loopVars, retries, poolVars, dispatches>>, coro'[Loop] = coro[Loop],
         \A j \in Job : (phase'[j] \in Final) = (phase[j] \in Final),
         StagesHold', \A w \in Worker : Registered(w)'
  PROVE  InCustody'
<1>1. PickHolds' /\ LoopQuiet' /\ \A w \in Worker : Passing(w)' = Passing(w)
  BY LoopPartsCustody DEF InCustody, PickHolds, poolVars
<1>2. OneWorkerPerJob'
  BY DEF InCustody, OneWorkerPerJob, poolVars
<1>3. \A j \in Job : Balance(j)'
  BY <1>1, BalanceFrame DEF poolVars
<1>. QED
  BY <1>1, <1>2, <1>3 DEF InCustody

\* A dispatch task sends its job, runs it to its end, or hands it to the failure handler.
LEMMA DispatchCustody ==
  ASSUME TInv, InCustody, NEW s \in Slot, DispatchStep(s)
  PROVE  InCustody'
<1>1. /\ s \in Actor /\ s \notin Worker /\ coro[s].at = "dispatch" /\ Loop \in Actor
      /\ Worker \subseteq Actor
  BY ActorAssumption DEF Actor, DispatchStep, DispatchRemote, LocalCompletes, LocalFails
<1>2. PICK w \in Worker : w = coro[s].worker
  BY <1>1, InHandStage DEF TInv
<1>3. PICK j \in Job : j = coro[s].job
  BY <1>1, InHandStage DEF TInv
<1>4. Stage(w, "hand") /\ Hands(w) = {s} /\ wjob[w] = j /\ j # NoJob /\ s # Loop
  BY <1>1, <1>2, <1>3, InHandStage, JobAssumption DEF TInv, InCustody, LoopQuiet
<1>5. wphase[w] = "BUSY" /\ ~Passing(w) /\ DOMAIN out[w] = {} /\ wq[w] = <<>> /\ running[w] = <<>>
  BY <1>4 DEF Stage, PoolFits, PassFits, SentFits, RunFits, OutFits
<1>6. PICK at \in {"idle", "release"} : \E i, x :
        /\ coro' = [coro EXCEPT ![s] = [at |-> at, job |-> i, worker |-> x]]
        /\ at = "release" => i = j /\ x = w
        /\ at = "idle" => x = NoWorker
  BY <1>2, <1>3 DEF DispatchStep, DispatchRemote, LocalCompletes, LocalFails, StartFailing, Idle
<1>7. /\ \A a \in Actor : a # s => coro'[a] = coro[a]
      /\ coro'[s].at = at /\ (at = "release" => coro'[s].job = j /\ coro'[s].worker = w)
      /\ at = "idle" => coro'[s].worker = NoWorker
  BY <1>1, <1>6 DEF TInv, IInv, TypeOK, CoroutineType
<1>8. /\ \A v \in Worker : v # w => Hands(v)' = Hands(v)
      /\ Hands(w)' = IF at = "release" THEN {s} ELSE {}
  <2>1. \A v \in Worker : v # w => s \notin Hands(v)
    BY <1>2 DEF Hands
  <2>2. \A v \in Worker : NoWorker # v
    BY WorkerAssumption
  <2>. QED
    BY <1>1, <1>4, <1>7, <2>1, <2>2 DEF Hands
<1>9. ASSUME UNCHANGED loopVars, NEW v \in Worker, v # w, wphase'[v] = wphase[v], wjob'[v] = wjob[v],
             wq'[v] = wq[v], UNCHANGED <<running, out>>
      PROVE  Bystander(v)
  <2>1. \A a \in Hands(v) : a \in Actor /\ a # s
    BY <1>2, <1>9 DEF Hands
  <2>. QED
    BY <1>7, <1>8, <1>9, <2>1 DEF Bystander, Passing, loopVars
<1>10. ASSUME NEW v \in Worker, UNCHANGED <<wjob, stale, up, running, out>>, wphase'[v] = wphase[v],
              v \in LocalWorker => wq'[v] = wq[v]
       PROVE  Registered(v)'
  BY <1>1, <1>7, <1>10 DEF InCustody, Registered
<1>11. CASE DispatchRemote(s) /\ reachable[w]
  <2>1. /\ wq' = [wq EXCEPT ![w] = Append(wq[w], j)] /\ at = "idle"
        /\ UNCHANGED <<loopVars, registryVars, poolVars, up, running, out, dispatches>>
    <3>1. coro' = [coro EXCEPT ![s] = Idle] /\ wq' = [wq EXCEPT ![w] = Append(wq[w], j)]
      BY <1>2, <1>3, <1>11 DEF DispatchRemote
    <3>2. coro'[s].at = "idle"
      BY <1>1, <3>1 DEF Idle, TInv, IInv, TypeOK, CoroutineType
    <3>. QED
      BY <1>7, <1>11, <3>1, <3>2 DEF DispatchRemote
  <2>2. wq'[w] = Append(<<>>, j) /\ \A v \in Worker : v # w => wq'[v] = wq[v]
    BY <1>5, <2>1 DEF TInv, IInv, TypeOK, NetType
  <2>3. Len(wq'[w]) = 1 /\ wq'[w][1] = j
    BY <2>2
  <2>4. Stage(w, "sent")'
    <3>1. PoolFits(w, "sent")' /\ PassFits(w, "sent")' /\ HandFits(w, "sent")'
      BY <1>4, <1>5, <1>8, <2>1 DEF PoolFits, PassFits, HandFits, Passing, loopVars, poolVars
    <3>2. SentFits(w, "sent")' /\ RunFits(w, "sent")' /\ OutFits(w, "sent")'
      BY <1>4, <1>5, <2>1, <2>3 DEF SentFits, RunFits, OutFits, poolVars
    <3>. QED
      BY <3>1, <3>2 DEF Stage
  <2>5. StagesHold'
    BY <1>9, <2>1, <2>2, <2>4, StagesMove DEF Stages, poolVars
  <2>6. \A v \in Worker : Registered(v)'
    <3>1. w \notin LocalWorker
      BY <1>2, <1>11 DEF DispatchRemote, Remote
    <3>. QED
      BY <1>10, <2>1, <2>2, <3>1 DEF poolVars
  <2>. QED
    BY <1>1, <1>4, <1>7, <2>1, <2>5, <2>6, MovedCustody DEF registryVars
<1>12. CASE LocalFails(s) \/ (DispatchRemote(s) /\ ~reachable[w])
  <2>1. /\ UNCHANGED <<loopVars, registryVars, poolVars, up, wq, running, out, dispatches>>
        /\ at = "release"
    <3>1. coro' = [coro EXCEPT ![s] = [at |-> "release", job |-> j, worker |-> w]]
      BY <1>2, <1>3, <1>12 DEF DispatchRemote, LocalFails, StartFailing
    <3>2. coro'[s].at = "release"
      BY <1>1, <3>1 DEF TInv, IInv, TypeOK, CoroutineType
    <3>. QED
      BY <1>2, <1>7, <1>12, <3>2 DEF DispatchRemote, LocalFails, netVars
  <2>2. Stage(w, "hand")'
    <3>1. HandFits(w, "hand")'
      BY <1>1, <1>4, <1>7, <1>8, <2>1 DEF HandFits, poolVars
    <3>2. PoolFits(w, "hand")' /\ PassFits(w, "hand")'
      BY <1>4, <2>1 DEF Stage, PoolFits, PassFits, Passing, loopVars, poolVars
    <3>3. SentFits(w, "hand")' /\ RunFits(w, "hand")' /\ OutFits(w, "hand")'
      BY <1>4, <2>1 DEF Stage, SentFits, RunFits, OutFits, poolVars
    <3>. QED
      BY <3>1, <3>2, <3>3 DEF Stage
  <2>3. StagesHold'
    BY <1>9, <2>1, <2>2, StagesMove DEF Stages, poolVars
  <2>4. \A v \in Worker : Registered(v)'
    BY <1>10, <2>1 DEF poolVars
  <2>. QED
    BY <1>1, <1>4, <1>7, <2>1, <2>3, <2>4, MovedCustody DEF registryVars
<1>13. CASE LocalCompletes(s)
  <2>1. /\ wphase' = [wphase EXCEPT ![w] = "IDLE"] /\ wjob' = [wjob EXCEPT ![w] = NoJob]
        /\ phase' = [phase EXCEPT ![j] = "COMPLETED"] /\ retries' = retries /\ stale' = stale
        /\ UNCHANGED <<loopVars, netVars, dispatches>>
    BY <1>2, <1>3, <1>13 DEF LocalCompletes, TaskCompleted
  <2>2. at = "idle"
    <3>1. coro'[s].at = "idle"
      BY <1>1, <1>13 DEF LocalCompletes, Idle, TInv, IInv, TypeOK, CoroutineType
    <3>. QED
      BY <1>7, <3>1
  <2>3. /\ \A v \in Worker : wjob'[v] = IF v = w THEN NoJob ELSE wjob[v]
        /\ \A v \in Worker : wphase'[v] = IF v = w THEN "IDLE" ELSE wphase[v]
    BY <2>1 DEF TInv, IInv, TypeOK, PoolType
  <2>4. phase'[j] \in Final /\ \A k \in Job : k # j => phase'[k] = phase[k]
    BY <2>1 DEF TInv, IInv, TypeOK, RegistryType, Final
  <2>5. /\ PickHolds' /\ LoopQuiet' /\ OneWorkerPerJob' /\ \A k \in Job : Balance(k)'
        /\ \A v \in Worker : Passing(v)' = Passing(v)
    BY <1>1, <1>4, <1>5, <1>7, <2>1, <2>4, FreedCustody
  <2>6. Stage(w, "idle")'
    <3>1. PoolFits(w, "idle")' /\ PassFits(w, "idle")' /\ HandFits(w, "idle")'
      BY <1>5, <1>8, <2>2, <2>3, <2>5 DEF PoolFits, PassFits, HandFits
    <3>2. SentFits(w, "idle")' /\ RunFits(w, "idle")' /\ OutFits(w, "idle")'
      BY <1>5, <2>1 DEF SentFits, RunFits, OutFits, netVars
    <3>. QED
      BY <3>1, <3>2 DEF Stage
  <2>7. StagesHold'
    BY <1>9, <2>1, <2>3, <2>6, StagesMove DEF Stages, netVars
  <2>8. ASSUME NEW v \in Worker PROVE Registered(v)'
    BY <1>1, <1>5, <1>7, <2>1, <2>3 DEF InCustody, Registered, netVars
  <2>. QED
    BY <2>5, <2>7, <2>8 DEF InCustody
<1>. QED
  BY <1>2, <1>11, <1>12, <1>13 DEF DispatchStep, DispatchRemote

\* Nobody holds a message the reader has taken, and the other workers' stay.
LEMMA ReadOut ==
  ASSUME TInv, NEW w \in Worker, NEW type, NextMessage(w, type)
  PROVE  /\ \A v \in Worker : out'[v] = IF v = w THEN Tail(out[w]) ELSE out[v]
         /\ Len(out[w]) = 1 => Tail(out[w]) = <<>>
         /\ Len(out[w]) \in Nat /\ Len(out[w]) > 0 /\ DOMAIN out[w] = 1..Len(out[w])
         /\ Len(Tail(out[w])) = Len(out[w]) - 1
         /\ DOMAIN Tail(out[w]) = 1..Len(out[w]) - 1
         /\ \A i \in 1..Len(out[w]) - 1 : Tail(out[w])[i] = out[w][i + 1]
<1>1. out[w] \in Seq(Messages) /\ out \in [Worker -> Seq(Messages)] /\ out[w] # <<>>
  BY DEF TInv, IInv, TypeOK, NetType, NextMessage
<1>2. /\ Len(out[w]) \in Nat /\ DOMAIN out[w] = 1..Len(out[w]) /\ Len(out[w]) > 0
      /\ Tail(out[w]) \in Seq(Messages) /\ Len(Tail(out[w])) = Len(out[w]) - 1
      /\ DOMAIN Tail(out[w]) = 1..Len(out[w]) - 1
      /\ \A i \in 1..Len(out[w]) - 1 : Tail(out[w])[i] = out[w][i + 1]
  BY <1>1, LenProperties, EmptySeq, HeadTailProperties
<1>3. Len(out[w]) = 1 => Tail(out[w]) = <<>>
  BY <1>2, EmptySeq
<1>. QED
  BY <1>1, <1>2, <1>3 DEF NextMessage

\* The coroutine of a reader moves on without anybody else noticing.
LEMMA ReaderMoves ==
  ASSUME TInv, InCustody, NEW w \in Worker, coro[w].at \in {"idle", "register"},
         coro' = [coro EXCEPT ![w] = coro'[w]],
         coro'[w].at = "release" => coro'[w].worker = w, coro'[w].at # "dispatch"
  PROVE  /\ \A v \in Worker : Hands(v)' = IF v = w /\ coro'[w].at = "release" THEN Hands(w) \cup {w} ELSE Hands(v)
         /\ \A v \in Worker : \A a \in Hands(v) : coro'[a] = coro[a]
         /\ \A v \in Worker : v # w => coro'[v] = coro[v]
         /\ coro'[Loop] = coro[Loop]
<1>1. w \in Actor /\ w # Loop /\ Loop \in Actor /\ Worker \subseteq Actor
  BY ActorAssumption DEF Actor
<1>2. \A a \in Actor : a # w => coro'[a] = coro[a]
  BY <1>1 DEF TInv, IInv, TypeOK, CoroutineType
<1>3. \A v \in Worker : \A a \in Hands(v) : a \in Actor /\ a # w
  BY DEF Hands
<1>4. ASSUME NEW v \in Worker
      PROVE  Hands(v)' = IF v = w /\ coro'[w].at = "release" THEN Hands(w) \cup {w} ELSE Hands(v)
  <2>1. w \in Hands(v)' <=> coro'[w].at = "release" /\ v = w
    BY <1>1 DEF Hands
  <2>2. \A a \in Actor : a # w => (a \in Hands(v)' <=> a \in Hands(v))
    BY <1>2 DEF Hands
  <2>3. w \notin Hands(v) /\ Hands(v) \subseteq Actor /\ Hands(v)' \subseteq Actor
    BY DEF Hands
  <2>. QED
    BY <2>1, <2>2, <2>3
<1>. QED
  BY <1>1, <1>2, <1>3, <1>4

\* What a step of a reader leaves at its place.
LEMMA ReaderAt ==
  ASSUME TInv, NEW w \in Worker, NEW c, coro' = [coro EXCEPT ![w] = c]
  PROVE  coro'[w] = c /\ coro' = [coro EXCEPT ![w] = coro'[w]]
<1>1. w \in Actor
  BY DEF Actor
<1>. QED
  BY <1>1 DEF TInv, IInv, TypeOK, CoroutineType

\* A worker that connects for the first time registers; its reader awaits the account.
LEMMA ReadRegisterCustody ==
  ASSUME TInv, InCustody, NEW w \in Worker, ReadRegister(w)
  PROVE  InCustody'
<1>1. /\ NextMessage(w, "register") /\ up[w] /\ coro[w].at = "idle"
      /\ coro' = [coro EXCEPT ![w] = [at |-> "register", job |-> NoJob, worker |-> NoWorker]]
      /\ UNCHANGED <<loopVars, registryVars, poolVars, up, wq, running, dispatches>>
  <2>1. [Idle EXCEPT !.at = "register"] = [at |-> "register", job |-> NoJob, worker |-> NoWorker]
    BY DEF Idle
  <2>. QED
    BY <2>1 DEF ReadRegister, NextMessage
<1>2. wphase[w] = "none" /\ Len(out[w]) = 1
  <2>1. out[w][1].type = "register" /\ 1 \in DOMAIN out[w]
    BY <1>1, ReportedStage, ReadOut DEF TInv
  <2>2. PICK st \in Stages : Stage(w, st)
    BY DEF InCustody, StagesHold
  <2>3. wphase[w] = "none"
    BY <2>1, <2>2 DEF Stage, OutFits, Results
  <2>. QED
    BY <1>1, <2>3 DEF InCustody, Registered
<1>3. /\ \A v \in Worker : Hands(v)' = Hands(v) /\ \A a \in Hands(v) : coro'[a] = coro[a]
      /\ \A v \in Worker : v # w => coro'[v] = coro[v]
      /\ coro'[w].at = "register" /\ coro'[Loop] = coro[Loop]
  <2>1. coro'[w] = [at |-> "register", job |-> NoJob, worker |-> NoWorker]
        /\ coro' = [coro EXCEPT ![w] = coro'[w]]
    BY <1>1, ReaderAt
  <2>2. coro'[w].at = "register"
    BY <2>1
  <2>. QED
    BY <1>1, <2>1, <2>2, ReaderMoves
<1>4. out'[w] = <<>> /\ \A v \in Worker : v # w => out'[v] = out[v]
  BY <1>1, <1>2, ReadOut
<1>5. StagesHold'
  <2>1. \A v \in Worker : v # w => Bystander(v)
    BY <1>1, <1>3, <1>4 DEF Bystander, Passing, loopVars, poolVars
  <2>2. Stage(w, "idle")
    BY <1>2 DEF InCustody, StagesHold, Stage, PoolFits
  <2>3. Stage(w, "idle")'
    BY <1>1, <1>3, <1>4, <2>2 DEF Stage, PoolFits, PassFits, HandFits, SentFits, RunFits, OutFits,
       Passing, loopVars, poolVars
  <2>. QED
    BY <2>1, <2>3, StagesMove DEF Stages
<1>6. ASSUME NEW v \in Worker PROVE Registered(v)'
  BY <1>1, <1>2, <1>3, <1>4 DEF InCustody, Registered, poolVars
<1>. QED
  BY <1>1, <1>3, <1>5, <1>6, MovedCustody DEF registryVars

\* The pool gets to know the worker, which has no job yet.
LEMMA RegisterWorkerCustody ==
  ASSUME TInv, InCustody, NEW w \in Worker, RegisterWorker(w)
  PROVE  InCustody'
<1>1. /\ coro[w].at = "register" /\ wphase' = [wphase EXCEPT ![w] = "IDLE"]
      /\ stale' = [stale EXCEPT ![w] = FALSE]
      /\ coro' = [coro EXCEPT ![w] = [at |-> "idle", job |-> NoJob, worker |-> NoWorker]]
      /\ UNCHANGED <<loopVars, registryVars, wjob, netVars, dispatches>>
  BY DEF RegisterWorker, Idle
<1>2. /\ \A v \in Worker : wphase'[v] = IF v = w THEN "IDLE" ELSE wphase[v]
      /\ \A v \in Worker : stale'[v] = IF v = w THEN FALSE ELSE stale[v]
  BY <1>1 DEF TInv, IInv, TypeOK, PoolType
<1>3. wphase[w] = "none" /\ up[w] /\ out[w] = <<>>
  BY <1>1 DEF InCustody, Registered
<1>4. /\ \A v \in Worker : Hands(v)' = Hands(v) /\ \A a \in Hands(v) : coro'[a] = coro[a]
      /\ \A v \in Worker : v # w => coro'[v] = coro[v]
      /\ coro'[w].at = "idle" /\ coro'[Loop] = coro[Loop]
  <2>1. coro'[w] = [at |-> "idle", job |-> NoJob, worker |-> NoWorker]
        /\ coro' = [coro EXCEPT ![w] = coro'[w]]
    BY <1>1, ReaderAt
  <2>2. coro'[w].at = "idle"
    BY <2>1
  <2>. QED
    BY <1>1, <2>1, <2>2, ReaderMoves
<1>5. PickHolds' /\ LoopQuiet' /\ \A v \in Worker : Passing(v)' = Passing(v)
  <2>1. pc = "reserve" => wphase'[pick] = "IDLE"
    BY <1>2 DEF InCustody, PickHolds, TInv, IInv, Holds, PassHolds
  <2>. QED
    BY <1>1, <1>4, <2>1, LoopPartsCustody
<1>6. StagesHold'
  <2>1. \A v \in Worker : v # w => Bystander(v)
    BY <1>1, <1>2, <1>4, <1>5 DEF Bystander, netVars
  <2>2. Stage(w, "idle")
    BY <1>3 DEF InCustody, StagesHold, Stage, PoolFits
  <2>3. Stage(w, "idle")'
    BY <1>1, <1>2, <1>3, <1>4, <1>5, <2>2 DEF Stage, PoolFits, PassFits, HandFits, SentFits, RunFits,
       OutFits, netVars
  <2>. QED
    BY <2>1, <2>3, StagesMove DEF Stages
<1>7. ASSUME NEW v \in Worker PROVE Registered(v)'
  BY <1>1, <1>2, <1>3, <1>4 DEF InCustody, Registered, netVars
<1>8. OneWorkerPerJob' /\ \A j \in Job : Balance(j)'
  BY <1>1, <1>5, BalanceFrame DEF InCustody, OneWorkerPerJob, registryVars
<1>. QED
  BY <1>5, <1>6, <1>7, <1>8 DEF InCustody

\* A progress report is taken; the result, if it is there already, stays behind.
LEMMA ReadProgressCustody ==
  ASSUME TInv, InCustody, NEW w \in Worker, ReadProgress(w)
  PROVE  InCustody'
<1>1. /\ NextMessage(w, "progress") /\ up[w]
      /\ phase' = [phase EXCEPT ![Head(out[w]).job] = "GENERATING"]
      /\ UNCHANGED <<loopVars, coro, retries, poolVars, up, wq, running, dispatches>>
  BY DEF ReadProgress, NextMessage
<1>2. /\ Head(out[w]).job = wjob[w] /\ wjob[w] # NoJob /\ wjob[w] \in Job
      /\ out[w][1].type = "progress"
  BY <1>1, ReportedStage DEF TInv, IInv, TypeOK, PoolType
<1>3. \A j \in Job : (phase'[j] \in Final) = (phase[j] \in Final)
  BY <1>1, <1>2 DEF InCustody, Balance, TInv, IInv, TypeOK, RegistryType, Final
<1>4. \A v \in Worker : Hands(v)' = Hands(v) /\ Passing(v)' = Passing(v)
  BY <1>1 DEF Hands, Passing, loopVars
<1>5. PICK st \in Stages : Stage(w, st)
  BY DEF InCustody, StagesHold
<1>. DEFINE n == Len(out[w])
<1>6. /\ \A v \in Worker : v # w => out'[v] = out[v]
      /\ n \in Nat /\ n > 0 /\ DOMAIN out[w] = 1..n /\ Len(out'[w]) = n - 1 /\ DOMAIN out'[w] = 1..n - 1
      /\ \A i \in 1..n - 1 : out'[w][i] = out[w][i + 1]
  <2>1. out'[w] = Tail(out[w]) /\ \A v \in Worker : v # w => out'[v] = out[v]
    BY <1>1, ReadOut
  <2>. QED
    BY <1>1, <2>1, ReadOut
<1>7. OutFits(w, st)'
  <2>1. OutFits(w, st)
    BY <1>5 DEF Stage
  <2>2. wphase'[w] = wphase[w] /\ wjob'[w] = wjob[w]
    BY <1>1 DEF poolVars
  <2>3. ASSUME NEW i \in 1..n - 1
        PROVE  \/ out'[w][i].type = "register" /\ wphase'[w] = "none"
               \/ out'[w][i].type = "progress" /\ st \in {"running", "report"} /\ out'[w][i].job = wjob'[w]
               \/ out'[w][i].type \in Results /\ st = "report" /\ i = n - 1 /\ out'[w][i].job = wjob'[w]
    <3>1. i + 1 \in 1..n /\ (i + 1 = n <=> i = n - 1)
      BY <1>6
    <3>2. \/ out[w][i + 1].type = "register" /\ wphase[w] = "none"
          \/ out[w][i + 1].type = "progress" /\ st \in {"running", "report"} /\ out[w][i + 1].job = wjob[w]
          \/ out[w][i + 1].type \in Results /\ st = "report" /\ i + 1 = n /\ out[w][i + 1].job = wjob[w]
      BY <1>6, <2>1, <3>1 DEF OutFits
    <3>. QED
      BY <1>6, <2>2, <3>1, <3>2
  <2>4. ASSUME st = "report" PROVE out'[w] # <<>> /\ out'[w][n - 1].type \in Results
    <3>1. out[w][n].type \in Results
      BY <2>1, <2>4 DEF OutFits
    <3>2. n # 1
      BY <1>2, <3>1 DEF Results
    <3>3. n - 1 \in 1..n - 1 /\ (n - 1) + 1 = n
      <4>1. n \in Nat /\ n > 0
        BY <1>6
      <4>. HIDE DEF n
      <4>. QED
        BY <3>2, <4>1
    <3>4. DOMAIN out'[w] # {}
      BY <1>6, <3>3
    <3>. QED
      BY <1>6, <3>1, <3>3, <3>4
  <2>. QED
    BY <1>6, <2>3, <2>4 DEF OutFits
<1>. HIDE DEF n
<1>8. StagesHold'
  <2>1. \A v \in Worker : v # w => Bystander(v)
    BY <1>1, <1>4, <1>6 DEF Bystander, poolVars
  <2>2. Stage(w, st)'
    <3>1. PoolFits(w, st)' /\ PassFits(w, st)' /\ SentFits(w, st)' /\ RunFits(w, st)'
      BY <1>1, <1>4, <1>5 DEF Stage, PoolFits, PassFits, SentFits, RunFits, poolVars
    <3>2. HandFits(w, st)'
      BY <1>1, <1>4, <1>5 DEF Stage, HandFits, poolVars
    <3>. QED
      BY <1>7, <3>1, <3>2 DEF Stage
  <2>. QED
    BY <2>1, <2>2, StagesMove
<1>9. ASSUME NEW v \in Worker PROVE Registered(v)'
  <2>1. wphase[w] # "none"
    <3>1. st # "idle"
      BY <1>2, <1>5 DEF Stage, PoolFits
    <3>. QED
      BY <1>5, <3>1 DEF Stage, PoolFits
  <2>. QED
    BY <1>1, <1>6, <2>1 DEF InCustody, Registered, poolVars
<1>. QED
  BY <1>1, <1>3, <1>8, <1>9, MovedCustody

\* The completed job leaves its worker.
LEMMA ReadCompletedCustody ==
  ASSUME TInv, InCustody, NEW w \in Worker, ReadCompleted(w)
  PROVE  InCustody'
<1>1. NextMessage(w, "completed") /\ up[w] /\ coro[w].at = "idle"
  BY DEF ReadCompleted, NextMessage
<1>2. PICK j \in Job : j = wjob[w]
  BY <1>1, ReportedStage DEF TInv, IInv, TypeOK, PoolType, Results
<1>3. /\ Stage(w, "report") /\ Len(out[w]) = 1 /\ Head(out[w]).job = j
      /\ ~Passing(w) /\ wphase[w] = "BUSY"
  BY <1>1, <1>2, ReportedStage DEF TInv, Results, Stage, PassFits, PoolFits
<1>4. /\ wphase' = [wphase EXCEPT ![w] = "IDLE"] /\ wjob' = [wjob EXCEPT ![w] = NoJob]
      /\ phase' = [phase EXCEPT ![j] = "COMPLETED"]
      /\ UNCHANGED <<retries, stale, loopVars, coro, up, wq, running, dispatches>>
  BY <1>3 DEF ReadCompleted, TaskCompleted
<1>5. /\ \A v \in Worker : wjob'[v] = IF v = w THEN NoJob ELSE wjob[v]
      /\ \A v \in Worker : wphase'[v] = IF v = w THEN "IDLE" ELSE wphase[v]
  BY <1>4 DEF TInv, IInv, TypeOK, PoolType
<1>6. phase'[j] \in Final /\ \A k \in Job : k # j => phase'[k] = phase[k]
  BY <1>4 DEF TInv, IInv, TypeOK, RegistryType, Final
<1>7. /\ PickHolds' /\ LoopQuiet' /\ OneWorkerPerJob' /\ \A k \in Job : Balance(k)'
      /\ \A v \in Worker : Passing(v)' = Passing(v)
  BY <1>2, <1>3, <1>4, <1>6, FreedCustody
<1>8. out'[w] = <<>> /\ \A v \in Worker : v # w => out'[v] = out[v]
  BY <1>1, <1>3, ReadOut
<1>9. \A v \in Worker : Hands(v)' = Hands(v)
  BY <1>4 DEF Hands
<1>10. StagesHold'
  <2>1. \A v \in Worker : v # w => Bystander(v)
    BY <1>4, <1>5, <1>7, <1>8, <1>9 DEF Bystander
  <2>2. Stage(w, "idle")'
    <3>1. PoolFits(w, "idle")' /\ PassFits(w, "idle")' /\ HandFits(w, "idle")'
      BY <1>3, <1>5, <1>7, <1>9 DEF Stage, PoolFits, PassFits, HandFits
    <3>2. SentFits(w, "idle")' /\ RunFits(w, "idle")' /\ OutFits(w, "idle")'
      BY <1>3, <1>4, <1>8 DEF Stage, SentFits, RunFits, OutFits
    <3>. QED
      BY <3>1, <3>2 DEF Stage
  <2>. QED
    BY <2>1, <2>2, StagesMove DEF Stages
<1>11. ASSUME NEW v \in Worker PROVE Registered(v)'
  BY <1>1, <1>3, <1>4, <1>5, <1>8 DEF InCustody, Registered
<1>. QED
  BY <1>7, <1>10, <1>11 DEF InCustody

\* The failed job goes from the report to the failure handler in the reader.
LEMMA ReadFailedCustody ==
  ASSUME TInv, InCustody, NEW w \in Worker, ReadFailed(w)
  PROVE  InCustody'
<1>1. NextMessage(w, "failed") /\ up[w] /\ coro[w].at = "idle"
  BY DEF ReadFailed, NextMessage
<1>2. /\ Stage(w, "report") /\ Len(out[w]) = 1 /\ Head(out[w]).job = wjob[w]
      /\ wphase[w] = "BUSY"
  BY <1>1, ReportedStage DEF TInv, Results, Stage, PoolFits
<1>3. /\ coro' = [coro EXCEPT ![w] = [at |-> "release", job |-> wjob[w], worker |-> w]]
      /\ UNCHANGED <<loopVars, registryVars, poolVars, up, wq, running, dispatches>>
  BY <1>2 DEF ReadFailed, StartFailing
<1>4. /\ \A v \in Worker : Hands(v)' = IF v = w THEN Hands(w) \cup {w} ELSE Hands(v)
      /\ \A v \in Worker : \A a \in Hands(v) : coro'[a] = coro[a]
      /\ \A v \in Worker : v # w => coro'[v] = coro[v]
      /\ coro'[w] = [at |-> "release", job |-> wjob[w], worker |-> w]
      /\ coro'[Loop] = coro[Loop] /\ w \in Actor
  <2>1. coro'[w] = [at |-> "release", job |-> wjob[w], worker |-> w]
        /\ coro' = [coro EXCEPT ![w] = coro'[w]]
    BY <1>3, ReaderAt
  <2>2. coro'[w].at = "release" /\ coro'[w].worker = w /\ w \in Actor
    BY <2>1 DEF Actor
  <2>. QED
    BY <1>1, <2>1, <2>2, ReaderMoves
<1>5. out'[w] = <<>> /\ \A v \in Worker : v # w => out'[v] = out[v]
  BY <1>1, <1>2, ReadOut
<1>6. StagesHold'
  <2>1. \A v \in Worker : v # w => Bystander(v)
    BY <1>3, <1>4, <1>5 DEF Bystander, Passing, loopVars, poolVars
  <2>2. HandFits(w, "hand")'
    <3>1. Hands(w)' = {w}
      BY <1>2, <1>4 DEF Stage, HandFits
    <3>2. coro'[w].job = wjob'[w]
      BY <1>3, <1>4 DEF poolVars
    <3>. QED
      BY <1>4, <3>1, <3>2 DEF HandFits
  <2>3. Stage(w, "hand")'
    BY <1>2, <1>3, <1>5, <2>2 DEF Stage, PoolFits, PassFits, SentFits, RunFits, OutFits, Passing,
       loopVars, poolVars
  <2>. QED
    BY <2>1, <2>3, StagesMove DEF Stages
<1>7. ASSUME NEW v \in Worker PROVE Registered(v)'
  BY <1>1, <1>2, <1>3, <1>4, <1>5 DEF InCustody, Registered, poolVars
<1>. QED
  BY <1>3, <1>4, <1>6, <1>7, MovedCustody DEF registryVars

\* No heartbeat brings a worker back, as none was lost.
LEMMA ReaderCustody ==
  ASSUME TInv, InCustody, NEW w \in Worker, ReaderStep(w)
  PROVE  InCustody'
<1>1. ~ReadHeartbeat(w)
  BY DEF ReadHeartbeat, InCustody, Registered
<1>. QED
  BY <1>1, ReadRegisterCustody, RegisterWorkerCustody, ReadProgressCustody, ReadCompletedCustody,
     ReadFailedCustody DEF ReaderStep

\* A worker starts its job, reports about it, and ends it.
LEMMA WorkerCustody ==
  ASSUME TInv, InCustody, NEW w \in Worker, WorkerStep(w)
  PROVE  InCustody'
<1>1. /\ wq[w] \in Seq(Job) /\ running[w] \in Seq(Executions) /\ out[w] \in Seq(Messages)
      /\ wq \in [Worker -> Seq(Job)] /\ running \in [Worker -> Seq(Executions)]
      /\ out \in [Worker -> Seq(Messages)]
  BY DEF TInv, IInv, TypeOK, NetType
<1>2. PICK st \in Stages : Stage(w, st)
  BY DEF InCustody, StagesHold
<1>3. ASSUME UNCHANGED <<loopVars, coro, registryVars, poolVars, up, dispatches>>,
             \A v \in Worker : v # w => wq'[v] = wq[v] /\ running'[v] = running[v] /\ out'[v] = out[v],
             st \in {"sent", "running"}, NEW s \in Stages, s # "idle", s # "pass", s # "hand",
             SentFits(w, s)', RunFits(w, s)', OutFits(w, s)'
      PROVE  InCustody'
  <2>1. \A v \in Worker : Hands(v)' = Hands(v) /\ Passing(v)' = Passing(v)
    BY <1>3 DEF Hands, Passing, loopVars
  <2>2. \A v \in Worker : v # w => Bystander(v)
    BY <1>3, <2>1 DEF Bystander, poolVars
  <2>3. PoolFits(w, s)' /\ PassFits(w, s)' /\ HandFits(w, s)'
    BY <1>2, <1>3, <2>1 DEF Stage, PoolFits, PassFits, HandFits, poolVars
  <2>4. StagesHold'
    BY <1>3, <2>2, <2>3, StagesMove DEF Stage
  <2>5. w \notin LocalWorker /\ wphase[w] = "BUSY"
    <3>1. Len(wq[w]) = 1 \/ Len(running[w]) = 1
      BY <1>2, <1>3 DEF Stage, SentFits, RunFits
    <3>2. wq[w] # <<>> \/ running[w] # <<>>
      BY <3>1
    <3>. QED
      BY <1>2, <1>3, <3>2 DEF Stage, PoolFits, InCustody, Registered
  <2>6. up[w]
    BY <2>5 DEF InCustody, Registered, Remote
  <2>7. ASSUME NEW v \in Worker PROVE Registered(v)'
    BY <1>3, <2>5, <2>6, <2>7 DEF InCustody, Registered, poolVars
  <2>. QED
    BY <1>3, <2>4, <2>7, MovedCustody DEF registryVars
<1>4. CASE ReceiveTask(w)
  <2>1. /\ running' = [running EXCEPT ![w] = Append(running[w], [job |-> Head(wq[w]), told |-> 0])]
        /\ wq' = [wq EXCEPT ![w] = Tail(wq[w])] /\ wq[w] # <<>>
        /\ UNCHANGED <<loopVars, coro, registryVars, poolVars, up, out, dispatches>>
    BY <1>4 DEF ReceiveTask
  <2>2. st = "sent" /\ Len(wq[w]) = 1 /\ wq[w][1] = wjob[w] /\ running[w] = <<>>
    BY <1>2, <2>1 DEF Stage, SentFits, RunFits
  <2>3. Head(wq[w]) = wjob[w] /\ Tail(wq[w]) = <<>>
    <3>1. Head(wq[w]) = wq[w][1] /\ Len(Tail(wq[w])) = Len(wq[w]) - 1 /\ Tail(wq[w]) \in Seq(Job)
      BY <1>1, <2>1, HeadTailProperties
    <3>2. Len(Tail(wq[w])) = 0
      BY <2>2, <3>1
    <3>. QED
      BY <2>2, <3>1, <3>2, NoElement
  <2>4. SentFits(w, "running")'
    BY <1>1, <2>1, <2>3 DEF SentFits
  <2>5. RunFits(w, "running")'
    <3>1. running'[w] = Append(<<>>, [job |-> wjob[w], told |-> 0])
      BY <1>1, <2>1, <2>2, <2>3
    <3>2. Len(running'[w]) = 1 /\ running'[w][1] = [job |-> wjob[w], told |-> 0]
      BY <3>1
    <3>. QED
      BY <2>1, <3>2 DEF RunFits, poolVars
  <2>6. OutFits(w, "running")'
    BY <1>2, <2>1, <2>2 DEF Stage, OutFits, poolVars
  <2>7. \A v \in Worker : v # w => wq'[v] = wq[v] /\ running'[v] = running[v] /\ out'[v] = out[v]
    BY <1>1, <2>1
  <2>. QED
    BY <1>3, <2>1, <2>2, <2>4, <2>5, <2>6, <2>7 DEF Stages
<1>5. ASSUME NEW i \in DOMAIN running[w]
      PROVE  /\ st = "running" /\ i = 1 /\ Len(running[w]) = 1 /\ running[w][1].job = wjob[w]
             /\ wphase[w] = "BUSY" /\ wq[w] = <<>>
             /\ \A k \in DOMAIN out[w] : out[w][k].type = "progress" /\ out[w][k].job = wjob[w]
  <2>1. Len(running[w]) \in Nat /\ DOMAIN running[w] = 1..Len(running[w])
    BY <1>1, LenProperties
  <2>2. st = "running"
    BY <1>2, <1>5 DEF Stage, RunFits
  <2>3. Len(running[w]) = 1 /\ running[w][1].job = wjob[w] /\ wphase[w] = "BUSY" /\ wq[w] = <<>>
    BY <1>2, <2>2 DEF Stage, RunFits, PoolFits, SentFits
  <2>4. \A k \in DOMAIN out[w] : out[w][k].type = "progress" /\ out[w][k].job = wjob[w]
    BY <1>2, <2>2, <2>3 DEF Stage, OutFits
  <2>. QED
    BY <2>1, <2>2, <2>3, <2>4
<1>6. ASSUME NEW type, Send(w, type, wjob[w])
      PROVE  /\ \A v \in Worker : v # w => out'[v] = out[v]
             /\ out'[w] # <<>> /\ Len(out'[w]) = Len(out[w]) + 1 /\ Len(out[w]) \in Nat
             /\ DOMAIN out[w] = 1..Len(out[w]) /\ DOMAIN out'[w] = 1..Len(out[w]) + 1
             /\ \A k \in 1..Len(out[w]) : out'[w][k] = out[w][k]
             /\ out'[w][Len(out[w]) + 1] = [type |-> type, job |-> wjob[w]]
  <2>. DEFINE m == [type |-> type, job |-> wjob[w]]
  <2>1. out'[w] = Append(out[w], m) /\ \A v \in Worker : v # w => out'[v] = out[v]
    BY <1>1, <1>6 DEF Send
  <2>. HIDE DEF m
  <2>2. /\ Len(out[w]) \in Nat /\ DOMAIN out[w] = 1..Len(out[w])
        /\ Len(Append(out[w], m)) = Len(out[w]) + 1 /\ Append(out[w], m) # <<>>
        /\ DOMAIN Append(out[w], m) = 1..Len(out[w]) + 1
        /\ \A k \in 1..Len(out[w]) : Append(out[w], m)[k] = out[w][k]
        /\ Append(out[w], m)[Len(out[w]) + 1] = m
    BY <1>1, Appended
  <2>. QED
    BY <2>1, <2>2 DEF m
<1>7. ASSUME NEW i \in DOMAIN running[w], ReportProgress(w, i) PROVE InCustody'
  <2>1. /\ running' = [running EXCEPT ![w][i].told = @ + 1]
        /\ Send(w, "progress", wjob[w])
        /\ UNCHANGED <<loopVars, coro, registryVars, poolVars, up, wq, dispatches>>
    BY <1>5, <1>7 DEF ReportProgress
  <2>2. running'[w] = [running[w] EXCEPT ![i].told = @ + 1] /\ \A v \in Worker : v # w => running'[v] = running[v]
    BY <1>1, <2>1
  <2>3. Len(running'[w]) = 1 /\ running'[w][1].job = wjob[w]
    <3>1. running[w][1] \in Executions /\ 1 \in DOMAIN running[w]
      BY <1>1, <1>5, <1>7, ElementOfSeq
    <3>2. running'[w][1] = [running[w][1] EXCEPT !.told = @ + 1]
      BY <1>5, <1>7, <2>2, <3>1
    <3>3. [running[w][1] EXCEPT !.told = @ + 1].job = running[w][1].job
      BY <3>1 DEF Executions
    <3>4. running'[w] \in Seq(Executions) /\ DOMAIN running'[w] = DOMAIN running[w]
      <4>1. running' \in [Worker -> Seq(Executions)]
        BY <1>7, ReportProgressStep DEF TInv, IInv, TypeOK, NetType
      <4>. QED
        BY <2>2, <4>1
    <3>5. Len(running'[w]) = Len(running[w])
      BY <1>1, <3>4, LenProperties
    <3>. QED
      BY <1>5, <1>7, <3>2, <3>3, <3>5
  <2>4. RunFits(w, "running")' /\ SentFits(w, "running")'
    BY <1>5, <1>7, <2>1, <2>3 DEF RunFits, SentFits, poolVars
  <2>6. /\ out'[w] # <<>> /\ Len(out'[w]) = Len(out[w]) + 1 /\ Len(out[w]) \in Nat
        /\ DOMAIN out[w] = 1..Len(out[w]) /\ DOMAIN out'[w] = 1..Len(out[w]) + 1
        /\ \A k \in 1..Len(out[w]) : out'[w][k] = out[w][k]
        /\ out'[w][Len(out[w]) + 1] = [type |-> "progress", job |-> wjob[w]]
        /\ \A v \in Worker : v # w => out'[v] = out[v]
    BY <1>6, <2>1
  <2>5. OutFits(w, "running")'
    <3>1. ASSUME NEW k \in DOMAIN out'[w] PROVE out'[w][k].type = "progress" /\ out'[w][k].job = wjob[w]
      <4>1. k \in 1..Len(out[w]) \/ k = Len(out[w]) + 1
        BY <2>6, <3>1
      <4>2. \A x \in DOMAIN out[w] : out[w][x].type = "progress" /\ out[w][x].job = wjob[w]
        BY <1>5, <1>7
      <4>. QED
        BY <2>6, <4>1, <4>2
    <3>. QED
      BY <2>1, <3>1 DEF OutFits, poolVars
  <2>. QED
    BY <1>3, <1>5, <1>7, <2>1, <2>2, <2>4, <2>5, <2>6 DEF Stages
<1>8. ASSUME NEW i \in DOMAIN running[w], NEW type \in Results, ReportResult(w, i, type) PROVE InCustody'
  <2>1. /\ running' = [running EXCEPT ![w] = Without(running[w], i)]
        /\ Send(w, type, wjob[w])
        /\ UNCHANGED <<loopVars, coro, registryVars, poolVars, up, wq, dispatches>>
    BY <1>5, <1>8 DEF ReportResult
  <2>2. running'[w] = <<>>
    <3>1. Without(running[w], i) \in Seq(Executions) /\ Len(Without(running[w], i)) = Len(running[w]) - 1
      BY <1>1, <1>8, WithoutType, LenProperties
    <3>2. Len(Without(running[w], i)) = 0
      BY <1>5, <1>8, <3>1
    <3>. QED
      BY <1>1, <2>1, <3>1, <3>2, NoElement
  <2>3. RunFits(w, "report")' /\ SentFits(w, "report")'
    BY <1>5, <1>8, <2>1, <2>2 DEF RunFits, SentFits
  <2>6. /\ out'[w] # <<>> /\ Len(out'[w]) = Len(out[w]) + 1 /\ Len(out[w]) \in Nat
        /\ DOMAIN out[w] = 1..Len(out[w]) /\ DOMAIN out'[w] = 1..Len(out[w]) + 1
        /\ \A k \in 1..Len(out[w]) : out'[w][k] = out[w][k]
        /\ out'[w][Len(out[w]) + 1] = [type |-> type, job |-> wjob[w]]
        /\ \A v \in Worker : v # w => out'[v] = out[v]
    BY <1>6, <2>1
  <2>4. OutFits(w, "report")'
    <3>1. out'[w] # <<>> /\ out'[w][Len(out'[w])].type \in Results
      BY <1>8, <2>6
    <3>2. ASSUME NEW k \in DOMAIN out'[w]
          PROVE  \/ out'[w][k].type = "progress" /\ out'[w][k].job = wjob[w]
                 \/ out'[w][k].type \in Results /\ k = Len(out'[w]) /\ out'[w][k].job = wjob[w]
      <4>1. k \in 1..Len(out[w]) \/ k = Len(out[w]) + 1
        BY <2>6, <3>2
      <4>2. \A x \in DOMAIN out[w] : out[w][x].type = "progress" /\ out[w][x].job = wjob[w]
        BY <1>5, <1>8
      <4>. QED
        BY <1>8, <2>6, <4>1, <4>2
    <3>. QED
      BY <2>1, <3>1, <3>2 DEF OutFits, poolVars
  <2>5. \A v \in Worker : v # w => running'[v] = running[v]
    BY <1>1, <2>1
  <2>. QED
    BY <1>3, <1>5, <1>8, <2>1, <2>3, <2>4, <2>5, <2>6 DEF Stages
<1>. QED
  BY <1>4, <1>7, <1>8 DEF WorkerStep, Results

\* A worker connects once; nothing goes wrong on its stream.
LEMMA NetCustody ==
  ASSUME TInv, InCustody, Undisturbed', NEW w \in Worker, NetStep(w)
  PROVE  InCustody'
<1>1. ~(Spend("breaks") \/ Spend("dbErrors") \/ Spend("lapses"))
  BY SpendDisturbs DEF TInv
<1>2. ~WorkerCrashes(w) /\ ~ReaderFails(w) /\ \A lost : ~StreamBreaks(w, lost)
  BY <1>1 DEF WorkerCrashes, ReaderFails, StreamBreaks, CloseStream
<1>3. ~HeartbeatAges(w)
  BY <1>1 DEF HeartbeatAges, InCustody, Registered
<1>4. CASE Connect(w)
  <2>1. /\ w \in Remote /\ ~up[w] /\ up' = [up EXCEPT ![w] = TRUE]
        /\ out' = [out EXCEPT ![w] = Append(out[w], [type |-> "register", job |-> NoJob])]
        /\ UNCHANGED <<loopVars, coro, registryVars, poolVars, wq, running, dispatches>>
    BY <1>4 DEF Connect, Send
  <2>2. out[w] = <<>> /\ coro[w].at = "idle" /\ wphase[w] = "none"
    BY <2>1 DEF InCustody, Registered
  <2>3. /\ \A v \in Worker : v # w => out'[v] = out[v] /\ up'[v] = up[v]
        /\ up'[w] /\ out'[w] = Append(<<>>, [type |-> "register", job |-> NoJob])
    BY <2>1, <2>2 DEF TInv, IInv, TypeOK, NetType
  <2>4. Len(out'[w]) = 1 /\ DOMAIN out'[w] = 1..1 /\ out'[w][1].type = "register"
    BY <2>3
  <2>5. \A v \in Worker : Hands(v)' = Hands(v) /\ Passing(v)' = Passing(v)
    BY <2>1 DEF Hands, Passing, loopVars
  <2>6. \A v \in Worker : v # w => Bystander(v)
    BY <2>1, <2>3, <2>5 DEF Bystander, poolVars
  <2>7. Stage(w, "idle")
    BY <2>2 DEF InCustody, StagesHold, Stage, PoolFits
  <2>8. OutFits(w, "idle")'
    BY <2>1, <2>2, <2>4 DEF OutFits, poolVars
  <2>9. Stage(w, "idle")'
    BY <2>1, <2>5, <2>7, <2>8 DEF Stage, PoolFits, PassFits, HandFits, SentFits, RunFits, poolVars
  <2>10. StagesHold'
    BY <2>6, <2>9, StagesMove DEF Stages
  <2>11. ASSUME NEW v \in Worker PROVE Registered(v)'
    BY <2>1, <2>2, <2>3, <2>4 DEF InCustody, Registered, poolVars
  <2>. QED
    BY <2>1, <2>10, <2>11, MovedCustody DEF registryVars
<1>. QED
  BY <1>2, <1>3, <1>4 DEF NetStep

\* As long as nothing disturbs the system every job stays in custody.
LEMMA NextCustody ==
  ASSUME TInv, Custody, [Next]_vars
  PROVE  Custody'
<1>. SUFFICES ASSUME Undisturbed' PROVE InCustody'
  BY DEF Custody
<1>1. Undisturbed /\ InCustody
  BY UndisturbedBefore DEF Custody, TInv
<1>2. CASE UNCHANGED vars
  <2>1. \A w \in Worker : Passing(w)' = Passing(w)
    BY <1>2 DEF vars, loopVars, Passing
  <2>2. PickHolds' /\ gone' = {}
    BY <1>1, <1>2 DEF InCustody, PickHolds, LoopQuiet, vars, loopVars, poolVars
  <2>. QED
    BY <1>1, <1>2, <2>1, <2>2, QuietCustody DEF vars, registryVars
<1>3. CASE LoopStep
  BY <1>1, <1>3, LoopCustody
<1>4. CASE LockGranted
  BY <1>1, <1>4, LockGrantedCustody
<1>5. ASSUME NEW j \in Job, CreateJob(j) PROVE InCustody'
  BY <1>1, <1>5, CreateJobCustody
<1>6. ASSUME NEW c \in Actor, HandleFailure(c) \/ ReleaseFails(c) PROVE InCustody'
  <2>1. ~ReleaseFails(c)
    <3>1. ~Spend("dbErrors")
      BY SpendDisturbs DEF TInv
    <3>. QED
      BY <3>1 DEF ReleaseFails
  <2>. QED
    BY <1>1, <1>6, <2>1, HandleFailureCustody
<1>7. ASSUME NEW s \in Slot, DispatchStep(s) PROVE InCustody'
  BY <1>1, <1>7, DispatchCustody
<1>8. ASSUME NEW w \in Worker, ReaderStep(w) \/ WorkerStep(w) \/ NetStep(w) PROVE InCustody'
  BY <1>1, <1>8, ReaderCustody, WorkerCustody, NetCustody
<1>. QED
  BY <1>2, <1>3, <1>4, <1>5, <1>6, <1>7, <1>8 DEF Next

\* Initially every worker is idle and no job exists.
LEMMA InitCustody == Init => Custody
<1>. SUFFICES ASSUME Init PROVE InCustody
  BY DEF Custody
<1>1. /\ coro = [c \in Actor |-> Idle] /\ pc = "sleep" /\ gone = {}
      /\ \A w \in Worker : /\ wphase[w] = IF w \in LocalWorker THEN "IDLE" ELSE "none"
                           /\ wjob[w] = NoJob /\ stale[w] = FALSE /\ up[w] = FALSE
                           /\ wq[w] = <<>> /\ running[w] = <<>> /\ out[w] = <<>>
      /\ \A j \in Job : phase[j] = "none" /\ retries[j] = 0 /\ dispatches[j] = 0
  BY DEF Init
<1>2. \A c \in Actor : coro[c].at = "idle"
  BY <1>1 DEF Idle
<1>3. Loop \in Actor /\ Worker \subseteq Actor
  BY DEF Actor
<1>4. ASSUME NEW w \in Worker PROVE Stage(w, "idle")
  <2>1. Hands(w) = {} /\ ~Passing(w)
    BY <1>1, <1>2 DEF Hands, Passing
  <2>2. DOMAIN out[w] = {}
    BY <1>1
  <2>. QED
    BY <1>1, <2>1, <2>2 DEF Stage, PoolFits, PassFits, HandFits, SentFits, RunFits, OutFits
<1>5. \A w \in Worker : Registered(w)
  BY <1>1, <1>2, <1>3 DEF Registered, Remote
<1>6. PickHolds /\ LoopQuiet /\ OneWorkerPerJob
  BY <1>1, <1>2, <1>3 DEF PickHolds, LoopQuiet, OneWorkerPerJob
<1>7. \A j \in Job : Balance(j)
  BY <1>1, JobAssumption DEF Balance, Out, Final
<1>. QED
  BY <1>4, <1>5, <1>6, <1>7 DEF InCustody, StagesHold, Stages

CInv == TInv /\ Custody

\* While nothing disturbs the system a job is in exactly one place, in every state of
\* every execution.
THEOREM CustodyInvariance == Spec => []CInv
<1>1. Init => Custody
  BY InitCustody
<1>2. TInv /\ Custody /\ [Next]_vars => Custody'
  BY NextCustody
<1>. QED
  BY <1>1, <1>2, TicketsInvariance, PTL DEF Spec, CInv

\* A worker has at most one job, and is BUSY exactly as long as it has one: OneJobPerWorker.
THEOREM WorkersServeOneJob == Spec => []OneJobPerWorker
<1>1. CInv => OneJobPerWorker
  <2>. SUFFICES ASSUME CInv, Undisturbed, NEW w \in Worker
                PROVE  Load(w) <= 1 /\ ((Load(w) = 1) <=> (wphase[w] = "BUSY"))
    BY DEF OneJobPerWorker
  <2>1. InCustody
    BY DEF CInv, Custody
  <2>2. PICK st \in Stages : Stage(w, st)
    BY <2>1 DEF InCustody, StagesHold
  <2>. DEFINE Bit(b) == IF b THEN 1 ELSE 0
              Reports == {i \in DOMAIN out[w] : out[w][i].type \in {"completed", "failed"}}
  <2>3. Len(wq[w]) = Bit(st = "sent")
    BY <2>2 DEF Stage, SentFits
  <2>4. Len(running[w]) = Bit(st = "running")
    BY <2>2 DEF Stage, RunFits
  <2>5. Cardinality(Reports) = Bit(st = "report")
    <3>1. OutFits(w, st) /\ DOMAIN out[w] = 1..Len(out[w]) /\ Len(out[w]) \in Nat
      BY <2>2, LenProperties DEF Stage, CInv, TInv, IInv, TypeOK, NetType
    <3>2. CASE st = "report"
      <4>1. out[w] # <<>> /\ out[w][Len(out[w])].type \in Results
        BY <3>1, <3>2 DEF OutFits
      <4>2. Len(out[w]) # 0
        BY <4>1, NoElement DEF CInv, TInv, IInv, TypeOK, NetType
      <4>3. Len(out[w]) \in DOMAIN out[w]
        BY <3>1, <4>2
      <4>4. \A i \in DOMAIN out[w] : out[w][i].type \in Results => i = Len(out[w])
        BY <3>1 DEF OutFits, Results
      <4>5. Reports = {Len(out[w])}
        BY <4>1, <4>3, <4>4 DEF Results
      <4>. QED
        BY <3>2, <4>5, FS_Singleton
    <3>3. CASE st # "report"
      <4>1. Reports = {}
        BY <3>1, <3>3 DEF OutFits, Results
      <4>. QED
        BY <3>3, <4>1, FS_EmptySet
    <3>. QED
      BY <3>2, <3>3
  <2>6. Cardinality(Hands(w)) = Bit(st = "hand")
    <3>1. CASE st = "hand"
      <4>1. PICK c \in Actor : Hands(w) = {c}
        BY <2>2, <3>1 DEF Stage, HandFits
      <4>. QED
        BY <3>1, <4>1, FS_Singleton
    <3>2. CASE st # "hand"
      BY <2>2, <3>2, FS_EmptySet DEF Stage, HandFits
    <3>. QED
      BY <3>1, <3>2
  <2>7. (IF pc = "confirm" /\ pick = w THEN 1 ELSE 0) = Bit(st = "pass")
    BY <2>2 DEF Stage, PassFits, Passing
  <2>8. Load(w) = Bit(st = "sent") + Bit(st = "running") + Bit(st = "report") + Bit(st = "hand")
                    + Bit(st = "pass")
    BY <2>3, <2>4, <2>5, <2>6, <2>7 DEF Load, Hands
  <2>9. (st = "idle") <=> (wphase[w] # "BUSY")
    BY <2>2 DEF Stage, PoolFits
  <2>. QED
    BY <2>8, <2>9 DEF Stages
<1>. QED
  BY <1>1, CustodyInvariance, PTL

\* A finished job is left alone: a step that would change its phase would have to find it
\* in the queue, in a coroutine's hand or in a report, where only unfinished jobs are.
THEOREM FinishedStaysFinal == Spec => FinishedIsFinal
<1>1. CInv /\ [Next]_vars => (Undisturbed => \A j \in Job : phase[j] \in Final => phase'[j] = phase[j])
  <2>. SUFFICES ASSUME CInv, [Next]_vars, Undisturbed, NEW j \in Job, phase[j] \in Final
                PROVE  phase'[j] = phase[j]
    OBVIOUS
  <2>1. TInv /\ IInv /\ InCustody /\ phase \in [Job -> {"none", "PENDING", "ASSIGNED", "GENERATING", "COMPLETED", "FAILED"}]
    BY DEF CInv, Custody, TInv, IInv, TypeOK, RegistryType
  <2>2. \A w \in Worker : wjob[w] # j
    BY <2>1 DEF InCustody, Balance
  <2>3. ASSUME NEW i \in Job, i # j, NEW p, phase' = [phase EXCEPT ![i] = p] PROVE phase'[j] = phase[j]
    BY <2>1, <2>3
  <2>4. CASE UNCHANGED vars
    BY <2>4 DEF vars, registryVars
  <2>5. CASE LoopStep
    <3>1. CASE ReserveGranted
      <4>1. /\ Head(todo) \in Job /\ phase' = [phase EXCEPT ![Head(todo)] = "ASSIGNED"]
            /\ todo # <<>> /\ todo \in Seq(Job) /\ pc = "reserve"
        BY <2>1, <3>1, HeadTailProperties DEF ReserveGranted, IInv, TypeOK, Holds, PassHolds, LoopType
      <4>2. Has(todo, Head(todo))
        BY <4>1, TailHas
      <4>3. Occurrences(todo, Head(todo)) > 0
        BY <4>1, <4>2, OccursIfHas
      <4>4. Occurrences(kept, Head(todo)) \in Nat /\ Occurrences(todo, Head(todo)) \in Nat
        BY <2>1, <4>1, OccurrencesType DEF IInv, TypeOK, LoopType
      <4>5. InHand(Head(todo)) > 0
        BY <4>1, <4>3, <4>4 DEF InHand, LockHeld
      <4>6. phase[Head(todo)] \notin Final
        BY <2>1, <4>1, <4>5, WaitingIsNotOut
      <4>. QED
        BY <2>3, <4>1, <4>6
    <3>2. CASE ~ReserveGranted
      BY <2>5, <3>2 DEF LoopStep, CheckHealth, BeginPass, NoCandidate, ReserveRefused, KeepHead,
         Confirmed, PassFails, EndPass, FailoverWorker, SelectWorker, registryVars
    <3>. QED
      BY <3>1, <3>2
  <2>6. CASE LockGranted
    <3>. DEFINE c == Head(lockq)
                i == coro[c].job
    <3>1. c \in Actor /\ coro[c].at = "lock" /\ i \in Job
      <4>1. lockq \in Seq(Actor) /\ lockq # <<>> /\ c = lockq[1] /\ 1 \in DOMAIN lockq
        BY <2>1, <2>6, LenProperties, EmptySeq, HeadTailProperties DEF LockGranted, IInv, TypeOK, QueueType
      <4>. QED
        BY <2>1, <4>1, ElementOfSeq DEF IInv, Holds, LineHolds, CoroutineHolds
    <3>2. phase[i] \notin Final
      BY <2>1, <3>1, WaitingIsNotOut DEF Waiting
    <3>3. phase' = [phase EXCEPT ![i] = "PENDING"]
      BY <2>6 DEF LockGranted
    <3>. QED
      BY <2>3, <3>1, <3>2, <3>3
  <2>7. ASSUME NEW i \in Job, CreateJob(i) PROVE phase'[j] = phase[j]
    BY <2>3, <2>7 DEF CreateJob, Final
  <2>8. ASSUME NEW c \in Actor, HandleFailure(c) \/ ReleaseFails(c) PROVE phase'[j] = phase[j]
    <3>1. CASE HandleFailure(c)
      <4>1. coro[c].job # j /\ coro[c].job \in Job
        BY <2>1, <2>2, <3>1, InHandStage DEF HandleFailure
      <4>2. phase' = phase \/ \E p : phase' = [phase EXCEPT ![coro[c].job] = p]
        BY <3>1 DEF HandleFailure
      <4>. QED
        BY <2>3, <4>1, <4>2
    <3>. QED
      BY <2>8, <3>1 DEF ReleaseFails, registryVars
  <2>9. ASSUME NEW s \in Slot, DispatchStep(s) PROVE phase'[j] = phase[j]
    <3>1. CASE LocalCompletes(s)
      <4>1. s \in Actor /\ phase' = [phase EXCEPT ![coro[s].job] = "COMPLETED"] /\ coro[s].at = "dispatch"
        BY <3>1 DEF LocalCompletes, TaskCompleted, Actor
      <4>2. coro[s].job # j /\ coro[s].job \in Job
        BY <2>1, <2>2, <4>1, InHandStage
      <4>. QED
        BY <2>3, <4>1, <4>2
    <3>. QED
      BY <2>9, <3>1 DEF DispatchStep, DispatchRemote, LocalFails, registryVars
  <2>10. ASSUME NEW w \in Worker, ReaderStep(w) PROVE phase'[j] = phase[j]
    <3>1. CASE ReadProgress(w) \/ ReadCompleted(w)
      <4>1. PICK type \in {"progress", "completed"}, p \in {"GENERATING", "COMPLETED"} :
              NextMessage(w, type) /\ phase' = [phase EXCEPT ![Head(out[w]).job] = p]
        BY <3>1 DEF ReadProgress, ReadCompleted, TaskCompleted
      <4>2. Head(out[w]).job = wjob[w] /\ wjob[w] \in Job
        BY <2>1, <4>1, ReportedStage DEF Results, IInv, TypeOK, PoolType
      <4>. QED
        BY <2>2, <2>3, <4>1, <4>2
    <3>. QED
      BY <2>10, <3>1 DEF ReaderStep, ReadRegister, RegisterWorker, ReadHeartbeat, ReadFailed, registryVars
  <2>11. ASSUME NEW w \in Worker, WorkerStep(w) \/ NetStep(w) PROVE phase'[j] = phase[j]
    BY <2>11 DEF WorkerStep, ReceiveTask, ReportProgress, ReportResult, NetStep, Connect, WorkerCrashes,
       HeartbeatAges, ReaderFails, StreamBreaks, CloseStream, registryVars
  <2>. QED
    BY <2>4, <2>5, <2>6, <2>7, <2>8, <2>9, <2>10, <2>11 DEF Next
<1>. QED
  BY <1>1, CustodyInvariance, PTL DEF Spec, FinishedIsFinal

====
