----------------------- MODULE FlowScheduler_tickets -----------------------
(***************************************************************************)
(* Proofs about the queue of FlowScheduler: what is inserted into it is    *)
(* dispatched or still pending, neither lost nor doubled, and it is first  *)
(* in, first out.                                                          *)
(***************************************************************************)
EXTENDS FlowScheduler_proofs, FiniteSetTheorems

----------------------------------------------------------------------------
(* Occurrences in sequences *)

Places(s, j) == {i \in DOMAIN s : s[i] = j}

\* A sequence holds a job a finite number of times.
LEMMA OccurrencesType ==
  ASSUME NEW s \in Seq(Job), NEW j
  PROVE  /\ IsFiniteSet(Places(s, j)) /\ Places(s, j) \subseteq 1..Len(s)
         /\ Occurrences(s, j) = Cardinality(Places(s, j))
         /\ Occurrences(s, j) \in Nat
<1>1. Len(s) \in Nat /\ DOMAIN s = 1..Len(s)
  BY LenProperties
<1>2. Places(s, j) \subseteq 1..Len(s)
  BY <1>1 DEF Places
<1>3. IsFiniteSet(1..Len(s))
  BY <1>1, FS_Interval
<1>4. IsFiniteSet(Places(s, j))
  BY <1>2, <1>3, FS_Subset
<1>5. Occurrences(s, j) = Cardinality(Places(s, j))
  BY DEF Occurrences, Places
<1>. QED
  BY <1>2, <1>4, <1>5, FS_CardinalityType

\* Shifting a set of places changes neither its finiteness nor its size.
LEMMA ShiftedPlaces ==
  ASSUME NEW S, S \subseteq Nat, IsFiniteSet(S), NEW n \in Nat
  PROVE  /\ IsFiniteSet({i + n : i \in S})
         /\ Cardinality({i + n : i \in S}) = Cardinality(S)
<1>. DEFINE T == {i + n : i \in S}
            f == [i \in S |-> i + n]
<1>1. f \in [S -> T]
  OBVIOUS
<1>2. \A a, b \in S : f[a] = f[b] => a = b
  OBVIOUS
<1>3. \A t \in T : \E s \in S : f[s] = t
  OBVIOUS
<1>4. f \in Bijection(S, T)
  BY <1>1, <1>2, <1>3 DEF Bijection, Injection, Surjection, IsInjective
<1>5. ExistsBijection(S, T)
  BY <1>4 DEF ExistsBijection
<1>. QED
  BY <1>5, FS_Bijection

\* The occurrences in a concatenation are those in its parts.
LEMMA OccurrencesConcat ==
  ASSUME NEW s \in Seq(Job), NEW t \in Seq(Job), NEW j
  PROVE  Occurrences(s \o t, j) = Occurrences(s, j) + Occurrences(t, j)
<1>. DEFINE A == Places(s, j)
            B == {i + Len(s) : i \in Places(t, j)}
<1>1. /\ Len(s) \in Nat /\ Len(t) \in Nat /\ s \o t \in Seq(Job)
      /\ DOMAIN s = 1..Len(s) /\ DOMAIN t = 1..Len(t)
      /\ DOMAIN (s \o t) = 1..Len(s) + Len(t)
      /\ \A i \in 1..Len(s) + Len(t) : (s \o t)[i] = IF i <= Len(s) THEN s[i] ELSE t[i - Len(s)]
  BY LenProperties, ConcatProperties
<1>2. /\ IsFiniteSet(A) /\ A \subseteq 1..Len(s)
      /\ IsFiniteSet(Places(t, j)) /\ Places(t, j) \subseteq 1..Len(t)
  BY OccurrencesType
<1>3. IsFiniteSet(B) /\ Cardinality(B) = Cardinality(Places(t, j))
  <2>1. Places(t, j) \subseteq Nat
    BY <1>1, <1>2
  <2>. QED
    BY <1>1, <1>2, <2>1, ShiftedPlaces, Zenon
<1>4. Places(s \o t, j) = A \cup B
  <2>1. ASSUME NEW i \in Places(s \o t, j) PROVE i \in A \cup B
    <3>1. i \in 1..Len(s) + Len(t) /\ (s \o t)[i] = j
      BY <1>1, <2>1 DEF Places
    <3>2. CASE i <= Len(s)
      BY <1>1, <3>1, <3>2 DEF Places
    <3>3. CASE i > Len(s)
      <4>1. i - Len(s) \in 1..Len(t) /\ t[i - Len(s)] = j
        BY <1>1, <3>1, <3>3
      <4>2. i - Len(s) \in Places(t, j) /\ i = (i - Len(s)) + Len(s)
        BY <1>1, <3>1, <4>1 DEF Places
      <4>. QED
        BY <4>2
    <3>. QED
      BY <1>1, <3>1, <3>2, <3>3
  <2>2. ASSUME NEW i \in A PROVE i \in Places(s \o t, j)
    BY <1>1, <2>2 DEF Places
  <2>3. ASSUME NEW i \in Places(t, j) PROVE i + Len(s) \in Places(s \o t, j)
    <3>1. i \in 1..Len(t) /\ t[i] = j
      BY <1>1, <2>3 DEF Places
    <3>2. i + Len(s) \in 1..Len(s) + Len(t) /\ ~(i + Len(s) <= Len(s)) /\ (i + Len(s)) - Len(s) = i
      BY <1>1, <3>1
    <3>3. (s \o t)[i + Len(s)] = t[(i + Len(s)) - Len(s)]
      BY <1>1, <3>2
    <3>. QED
      BY <1>1, <3>1, <3>2, <3>3 DEF Places
  <2>. QED
    BY <2>1, <2>2, <2>3
<1>5. A \cap B = {}
  BY <1>1, <1>2
<1>6. Cardinality(A \cup B) = Cardinality(A) + Cardinality(B)
  <2>. HIDE DEF A, B
  <2>1. Cardinality(A \cup B) = Cardinality(A) + Cardinality(B) - Cardinality(A \cap B)
    BY <1>2, <1>3, FS_Union, Zenon
  <2>2. Cardinality(A \cap B) = 0 /\ Cardinality(A) \in Nat /\ Cardinality(B) \in Nat
    BY <1>2, <1>3, <1>5, FS_EmptySet, FS_CardinalityType
  <2>. QED
    BY <2>1, <2>2
<1>7. /\ Occurrences(s \o t, j) = Cardinality(Places(s \o t, j))
      /\ Occurrences(s, j) = Cardinality(A) /\ Occurrences(t, j) = Cardinality(Places(t, j))
  BY <1>1, OccurrencesType, Zenon
<1>. HIDE DEF A, B
<1>. QED
  BY <1>3, <1>4, <1>6, <1>7

Once(x, j) == IF x = j THEN 1 ELSE 0

\* The occurrences in the empty sequence and in one of one element.
LEMMA OccurrencesSingle ==
  ASSUME NEW x \in Job, NEW j
  PROVE  Occurrences(<<>>, j) = 0 /\ Occurrences(<<x>>, j) = Once(x, j)
<1>1. Places(<<>>, j) = {} /\ Places(<<x>>, j) = IF x = j THEN {1} ELSE {}
  BY DEF Places
<1>2. /\ Occurrences(<<>>, j) = Cardinality(Places(<<>>, j))
      /\ Occurrences(<<x>>, j) = Cardinality(Places(<<x>>, j))
  BY DEF Occurrences, Places
<1>3. Cardinality({}) = 0 /\ Cardinality({1}) = 1
  BY FS_EmptySet, FS_Singleton
<1>. QED
  BY <1>1, <1>2, <1>3 DEF Once

\* Enqueuing adds one occurrence, at whichever end.
LEMMA OccurrencesEnqueued ==
  ASSUME IInv, NEW c \in Actor, NEW x \in Job, NEW j
  PROVE  Occurrences(Enqueued(c, x), j) = Occurrences(queue, j) + Once(x, j)
<1>1. queue \in Seq(Job) /\ <<x>> \in Seq(Job)
  BY DEF IInv, TypeOK, QueueType
<1>2. Append(queue, x) = queue \o <<x>>
  BY <1>1, AppendIsConcat
<1>3. Occurrences(queue, j) \in Nat /\ Once(x, j) \in Nat
  BY <1>1, OccurrencesType DEF Once
<1>4. Occurrences(queue \o <<x>>, j) = Occurrences(queue, j) + Occurrences(<<x>>, j)
  BY <1>1, OccurrencesConcat, Zenon
<1>5. Occurrences(<<x>> \o queue, j) = Occurrences(<<x>>, j) + Occurrences(queue, j)
  BY <1>1, OccurrencesConcat, Zenon
<1>6. Occurrences(<<x>>, j) = Once(x, j)
  BY OccurrencesSingle
<1>. QED
  BY <1>2, <1>3, <1>4, <1>5, <1>6 DEF Enqueued

\* The first element of a sequence is counted once.
LEMMA OccurrencesTail ==
  ASSUME NEW s \in Seq(Job), s # <<>>, NEW j
  PROVE  Occurrences(s, j) = Once(Head(s), j) + Occurrences(Tail(s), j)
<1>1. Head(s) \in Job /\ Tail(s) \in Seq(Job) /\ <<Head(s)>> \in Seq(Job)
  BY HeadTailProperties
<1>2. s = <<Head(s)>> \o Tail(s)
  <2>1. Len(s) \in Nat /\ Len(s) > 0 /\ Len(Tail(s)) = Len(s) - 1 /\ Head(s) = s[1]
    BY HeadTailProperties, LenProperties, EmptySeq
  <2>2. \A i \in 1..Len(Tail(s)) : Tail(s)[i] = s[i + 1]
    BY HeadTailProperties
  <2>3. /\ <<Head(s)>> \o Tail(s) \in Seq(Job) /\ Len(<<Head(s)>> \o Tail(s)) = Len(s)
        /\ \A i \in 1..Len(s) : (<<Head(s)>> \o Tail(s))[i] = IF i <= 1 THEN s[1] ELSE Tail(s)[i - 1]
    BY <1>1, <2>1, ConcatProperties
  <2>4. \A i \in 1..Len(s) : (<<Head(s)>> \o Tail(s))[i] = s[i]
    <3>. SUFFICES ASSUME NEW i \in 1..Len(s) PROVE (<<Head(s)>> \o Tail(s))[i] = s[i]
      OBVIOUS
    <3>1. CASE i = 1
      BY <2>1, <2>3, <3>1
    <3>2. CASE i # 1
      <4>1. i - 1 \in 1..Len(Tail(s)) /\ (i - 1) + 1 = i /\ ~(i <= 1)
        BY <2>1, <3>2
      <4>2. Tail(s)[i - 1] = s[(i - 1) + 1]
        BY <2>2, <4>1
      <4>. QED
        BY <2>3, <4>1, <4>2
    <3>. QED
      BY <3>1, <3>2
  <2>. QED
    BY <2>3, <2>4, SeqEqual
<1>3. Occurrences(<<Head(s)>> \o Tail(s), j) = Occurrences(<<Head(s)>>, j) + Occurrences(Tail(s), j)
  BY <1>1, OccurrencesConcat, Zenon
<1>4. Occurrences(<<Head(s)>>, j) = Once(Head(s), j)
  BY <1>1, OccurrencesSingle
<1>. QED
  BY <1>2, <1>3, <1>4

----------------------------------------------------------------------------
(* Jobs that are under way: the queue, the coroutines, the pool, the streams and the *)
(* workers hold jobs of a set K only.                                                *)

QueueWithin(K) == queue \in Seq(K) /\ todo \in Seq(K) /\ kept \in Seq(K)
CoroutinesWithin(K) == \A c \in Actor \ Job : coro[c].job \in K \cup {NoJob}
PoolWithin(K) == \A w \in Worker : wjob[w] \in K \cup {NoJob}
ExecutionsOf(K) == [job : K, told : Nat]
MessagesOf(K) == [type : {"register", "progress", "completed", "failed"}, job : K \cup {NoJob}]
NetWithin(K) ==
  \A w \in Worker : /\ wq[w] \in Seq(K)
                    /\ running[w] \in Seq(ExecutionsOf(K))
                    /\ out[w] \in Seq(MessagesOf(K))

Within(K) == QueueWithin(K) /\ CoroutinesWithin(K) /\ PoolWithin(K) /\ NetWithin(K)

\* The coroutine of a client only ever submits its own job.
ClientsHold ==
  \A j \in Job : coro[j].at \in {"idle", "lock"} /\ coro[j].job \in {j, NoJob}

Known == {j \in Job : phase[j] # "none"}

\* Inductive: whatever the Master or a worker works on was submitted before.
KnownHolds ==
  /\ ClientsHold /\ Within(Known)
  /\ \A j \in Job : coro[j].job = j => j \in Known

\* A larger set holds as well.
LEMMA WithinGrows ==
  ASSUME NEW K, NEW L, K \subseteq L, Within(K)
  PROVE  Within(L)
<1>1. QueueWithin(L) /\ CoroutinesWithin(L) /\ PoolWithin(L)
  BY SeqMonotonic DEF Within, QueueWithin, CoroutinesWithin, PoolWithin
<1>2. ExecutionsOf(K) \subseteq ExecutionsOf(L) /\ MessagesOf(K) \subseteq MessagesOf(L)
  BY DEF ExecutionsOf, MessagesOf
<1>3. NetWithin(L)
  <2>. SUFFICES ASSUME NEW w \in Worker
                PROVE  wq[w] \in Seq(L) /\ running[w] \in Seq(ExecutionsOf(L)) /\ out[w] \in Seq(MessagesOf(L))
    BY DEF NetWithin
  <2>1. wq[w] \in Seq(K) /\ running[w] \in Seq(ExecutionsOf(K)) /\ out[w] \in Seq(MessagesOf(K))
    BY DEF Within, NetWithin
  <2>. QED
    BY <1>2, <2>1, SeqMonotonic
<1>. QED
  BY <1>1, <1>3 DEF Within

\* A job that was submitted stays submitted.
LEMMA PhaseKnown ==
  ASSUME IInv
  PROVE  /\ phase' = phase => Known' = Known
         /\ \A j \in Job, p \in {"PENDING", "ASSIGNED", "GENERATING", "COMPLETED", "FAILED"} :
              phase' = [phase EXCEPT ![j] = p] => Known' = Known \cup {j}
<1>1. phase' = phase => Known' = Known
  BY DEF Known
<1>2. ASSUME NEW j \in Job, NEW p \in {"PENDING", "ASSIGNED", "GENERATING", "COMPLETED", "FAILED"},
             phase' = [phase EXCEPT ![j] = p]
      PROVE  Known' = Known \cup {j}
  <2>1. \A k \in Job : phase'[k] = IF k = j THEN p ELSE phase[k]
    BY <1>2 DEF IInv, TypeOK, RegistryType
  <2>. QED
    BY <2>1 DEF Known
<1>. QED
  BY <1>1, <1>2

\* Whoever has a job in hand has a submitted one.
LEMMA CoroutineKnown ==
  ASSUME KnownHolds, NEW c \in Actor
  PROVE  coro[c].job \in Known \cup {NoJob}
BY DEF KnownHolds, ClientsHold, Within, CoroutinesWithin

\* A report names a job that was submitted.
LEMMA ReportedKnown ==
  ASSUME IInv, KnownHolds, NEW w \in Worker, NEW type, type # "register", NextMessage(w, type)
  PROVE  Head(out[w]).job \in Job /\ Head(out[w]).job \in Known
<1>1. out[w] \in Seq(MessagesOf(Known)) /\ out[w] # <<>> /\ Head(out[w]).type = type
  BY DEF NextMessage, KnownHolds, Within, NetWithin
<1>2. 1 \in DOMAIN out[w] /\ out[w][1] = Head(out[w])
  BY <1>1, HeadTailProperties, LenProperties, EmptySeq
<1>3. Head(out[w]).job \in Job /\ Head(out[w]) \in MessagesOf(Known)
  BY <1>1, <1>2, ElementOfSeq DEF IInv, Holds, ReportsHold
<1>. QED
  BY <1>3, JobAssumption DEF MessagesOf

\* A report of a result submits nothing.
LEMMA TaskCompletedKnown ==
  ASSUME IInv, NEW j \in Known, NEW w \in Worker, TaskCompleted(j, w)
  PROVE  Known' = Known
BY PhaseKnown DEF TaskCompleted, Known

\* What a step leaves unchanged still names jobs of the set only.
LEMMA WithinFrame ==
  ASSUME NEW K, Within(K)
  PROVE  /\ UNCHANGED <<queue, todo, kept>> => QueueWithin(K)'
         /\ UNCHANGED coro => CoroutinesWithin(K)'
         /\ UNCHANGED wjob => PoolWithin(K)'
         /\ UNCHANGED <<wq, running, out>> => NetWithin(K)'
BY DEF Within, QueueWithin, CoroutinesWithin, PoolWithin, NetWithin

\* Nothing is under way initially.
LEMMA InitKnown == Init => KnownHolds
<1>. SUFFICES ASSUME Init PROVE KnownHolds
  OBVIOUS
<1>1. QueueWithin(Known) /\ NetWithin(Known)
  BY EmptySeq DEF Init, QueueWithin, NetWithin
<1>2. \A c \in Actor : coro[c].at = "idle" /\ coro[c].job = NoJob
  BY DEF Init, Idle
<1>3. CoroutinesWithin(Known) /\ PoolWithin(Known)
  BY <1>2 DEF Init, CoroutinesWithin, PoolWithin
<1>4. ClientsHold /\ \A j \in Job : coro[j].job = j => j \in Known
  BY <1>2, JobAssumption DEF ClientsHold, Actor
<1>. QED
  BY <1>1, <1>3, <1>4 DEF KnownHolds, Within

\* A coroutine moves on with no job or one of the set.
LEMMA CoroutineWithin ==
  ASSUME IInv, NEW K, Within(K), NEW c \in Actor, NEW r, c \in Job \/ r.job \in K \cup {NoJob},
         coro' = [coro EXCEPT ![c] = r]
  PROVE  CoroutinesWithin(K)'
<1>1. \A a \in Actor : coro'[a] = IF a = c THEN r ELSE coro[a]
  BY DEF IInv, TypeOK, CoroutineType
<1>. QED
  BY <1>1 DEF Within, CoroutinesWithin

\* A submission queues a job of the set.
LEMMA SubmitWithin ==
  ASSUME IInv, NEW K, Within(K), NEW c \in Actor, NEW j \in K, Submit(c, j),
         UNCHANGED <<todo, kept>>
  PROVE  QueueWithin(K)' /\ CoroutinesWithin(K)'
<1>1. queue \in Seq(K) /\ <<j>> \in Seq(K)
  BY DEF Within, QueueWithin
<1>2. Append(queue, j) \in Seq(K) /\ <<j>> \o queue \in Seq(K)
  BY <1>1, AppendProperties, ConcatProperties
<1>3. QueueWithin(K)'
  BY <1>1, <1>2 DEF Submit, Enqueued, Within, QueueWithin
<1>4. \E r : r.job \in {j, NoJob} /\ coro' = [coro EXCEPT ![c] = r]
  <2>1. [at |-> "lock", job |-> j, worker |-> NoWorker].job = j /\ Idle.job = NoJob
    BY DEF Idle
  <2>. QED
    BY <2>1 DEF Submit
<1>5. CoroutinesWithin(K)'
  BY <1>4, CoroutineWithin
<1>. QED
  BY <1>3, <1>5

\* The loop's steps pass on jobs of the queue and of the pool.
LEMMA LoopWithin ==
  ASSUME IInv, NEW K, Within(K), LoopStep
  PROVE  Within(K)'
<1>1. todo # <<>> => Head(todo) \in K /\ Tail(todo) \in Seq(K)
  BY HeadTailProperties DEF Within, QueueWithin
<1>2. todo # <<>> => Append(kept, Head(todo)) \in Seq(K)
  BY <1>1, AppendProperties DEF Within, QueueWithin
<1>3. CASE CheckHealth \/ \E w \in Worker : SelectWorker(w)
  BY <1>3, WithinFrame DEF CheckHealth, SelectWorker, poolVars, netVars, Within
<1>4. CASE BeginPass \/ PassFails \/ EndPass
  <2>1. QueueWithin(K)'
    BY <1>4, EmptySeq DEF BeginPass, PassFails, EndPass, Within, QueueWithin
  <2>. QED
    BY <1>4, <2>1, WithinFrame DEF BeginPass, PassFails, EndPass, poolVars, netVars, Within
<1>5. CASE NoCandidate \/ ReserveRefused
  <2>1. KeepHead /\ todo # <<>>
    BY <1>5 DEF NoCandidate, ReserveRefused, IInv, Holds, PassHolds
  <2>2. QueueWithin(K)'
    BY <1>1, <1>2, <2>1 DEF KeepHead, Within, QueueWithin
  <2>. QED
    BY <2>1, <2>2, WithinFrame DEF KeepHead, poolVars, netVars, Within
<1>6. CASE ReserveGranted
  <2>1. todo # <<>> /\ Head(todo) \in K /\ pick \in Worker
    BY <1>1, <1>6 DEF ReserveGranted, IInv, Holds, PassHolds
  <2>2. wjob' = [wjob EXCEPT ![pick] = Head(todo)]
    BY <1>6 DEF ReserveGranted
  <2>3. PoolWithin(K)'
    BY <2>1, <2>2 DEF IInv, TypeOK, PoolType, Within, PoolWithin
  <2>. QED
    BY <1>6, <2>3, WithinFrame DEF ReserveGranted, netVars, Within
<1>7. CASE Confirmed
  <2>1. todo # <<>> /\ Head(todo) \in K
    BY <1>1, <1>7 DEF Confirmed, IInv, Holds, PassHolds
  <2>2. QueueWithin(K)'
    BY <1>1, <1>7, <2>1 DEF Confirmed, Within, QueueWithin
  <2>3. PICK s \in Slot : coro' = [coro EXCEPT ![s] = [at |-> "dispatch", job |-> Head(todo), worker |-> pick]]
    BY <1>7 DEF Confirmed, FreeSlots
  <2>4. CoroutinesWithin(K)'
    BY <2>1, <2>3, CoroutineWithin DEF Actor
  <2>. QED
    BY <1>7, <2>2, <2>4, WithinFrame DEF Confirmed, poolVars, netVars, Within
<1>8. ASSUME NEW w \in Worker, FailoverWorker(w) PROVE Within(K)'
  <2>1. wjob[w] \in K \cup {NoJob} /\ Loop \in Actor
    BY DEF Within, PoolWithin, Actor
  <2>2. CoroutinesWithin(K)'
    BY <1>8, <2>1, CoroutineWithin, WithinFrame DEF FailoverWorker
  <2>. QED
    BY <1>8, <2>2, WithinFrame DEF FailoverWorker, poolVars, netVars, Within
<1>. QED
  BY <1>3, <1>4, <1>5, <1>6, <1>7, <1>8 DEF LoopStep

\* The oldest waiter, and who it is.
LEMMA OldestWaiter ==
  ASSUME IInv, LockGranted
  PROVE  Head(lockq) \in Actor /\ coro[Head(lockq)].at = "lock" /\ coro[Head(lockq)].job \in Job
<1>1. lockq # <<>> /\ lockq \in Seq(Actor) /\ Len(lockq) \in Nat /\ Len(lockq) > 0
      /\ Head(lockq) = lockq[1] /\ DOMAIN lockq = 1..Len(lockq)
  BY LenProperties, EmptySeq DEF LockGranted, IInv, TypeOK, QueueType
<1>. QED
  BY <1>1, HeadTailProperties DEF IInv, Holds, LineHolds, CoroutineHolds

\* The oldest waiter inserts a job of the set.
LEMMA LockGrantedWithin ==
  ASSUME IInv, NEW K, Within(K), LockGranted, coro[Head(lockq)].job \in K
  PROVE  Within(K)'
<1>. DEFINE c == Head(lockq)
            j == coro[c].job
<1>1. c \in Actor /\ queue \in Seq(K) /\ <<j>> \in Seq(K)
  BY OldestWaiter DEF Within, QueueWithin
<1>2. Append(queue, j) \in Seq(K) /\ <<j>> \o queue \in Seq(K)
  BY <1>1, AppendProperties, ConcatProperties
<1>3. QueueWithin(K)'
  BY <1>2 DEF LockGranted, Enqueued, loopVars, Within, QueueWithin
<1>4. CoroutinesWithin(K)'
  BY <1>1, CoroutineWithin DEF LockGranted, Idle
<1>. QED
  BY <1>3, <1>4, WithinFrame DEF LockGranted, poolVars, netVars, Within

\* A job of the set is created.
LEMMA CreateJobWithin ==
  ASSUME IInv, NEW K, Within(K), NEW j \in Job, CreateJob(j), j \in K
  PROVE  Within(K)'
<1>1. QueueWithin(K)' /\ CoroutinesWithin(K)'
  BY SubmitWithin DEF CreateJob, loopVars, Actor
<1>. QED
  BY <1>1, WithinFrame DEF CreateJob, poolVars, netVars, Within

\* A failure handler retries or gives up the job it has.
LEMMA HandleFailureWithin ==
  ASSUME IInv, ClientsHold, NEW K, Within(K), NEW c \in Actor, HandleFailure(c)
  PROVE  Within(K)'
<1>. DEFINE j == coro[c].job
            w == coro[c].worker
<1>1. j \in Job /\ c \notin Job /\ w \in Worker
  BY DEF HandleFailure, IInv, Holds, CoroutineHolds, ClientsHold
<1>2. j \in K
  BY <1>1, JobAssumption DEF Within, CoroutinesWithin
<1>3. UNCHANGED <<todo, kept, wq, running, out>> /\ wjob' = [wjob EXCEPT ![w] = NoJob]
  BY DEF HandleFailure, loopVars, netVars
<1>4. QueueWithin(K)' /\ CoroutinesWithin(K)'
  <2>1. CASE CanRetry(j)
    BY <1>2, <1>3, <2>1, SubmitWithin DEF HandleFailure
  <2>2. CASE ~CanRetry(j)
    BY <1>3, <2>2, CoroutineWithin, WithinFrame DEF HandleFailure, Idle
  <2>. QED
    BY <2>1, <2>2
<1>5. PoolWithin(K)'
  BY <1>3 DEF IInv, TypeOK, PoolType, Within, PoolWithin
<1>. QED
  BY <1>3, <1>4, <1>5, WithinFrame DEF Within

\* A release that raises leaves the coroutine without a job.
LEMMA ReleaseFailsWithin ==
  ASSUME IInv, NEW K, Within(K), NEW c \in Actor, ReleaseFails(c)
  PROVE  Within(K)'
<1>. DEFINE r == IF c \in Worker THEN [Idle EXCEPT !.at = "dead"] ELSE Idle
<1>1. r.job = NoJob /\ coro' = [coro EXCEPT ![c] = r]
  BY DEF ReleaseFails, Idle
<1>. HIDE DEF r
<1>2. CoroutinesWithin(K)'
  BY <1>1, CoroutineWithin
<1>. QED
  BY <1>2, WithinFrame DEF ReleaseFails, poolVars, Within

\* A dispatch sends or executes the job it has.
LEMMA DispatchWithin ==
  ASSUME IInv, NEW K, Within(K), NEW s \in Slot, DispatchStep(s)
  PROVE  Within(K)'
<1>. DEFINE j == coro[s].job
            w == coro[s].worker
<1>1. j \in Job /\ w \in Worker /\ s \in Actor /\ s \notin Job
  BY ActorAssumption DEF DispatchStep, DispatchRemote, LocalCompletes, LocalFails, IInv, Holds,
     CoroutineHolds, Actor
<1>2. j \in K
  BY <1>1, JobAssumption DEF Within, CoroutinesWithin
<1>3. CoroutinesWithin(K)'
  BY <1>1, <1>2, CoroutineWithin DEF DispatchStep, DispatchRemote, LocalCompletes, LocalFails, StartFailing, Idle
<1>4. CASE DispatchRemote(s)
  <2>1. \A v \in Worker : wq[v] \in Seq(K) /\ Append(wq[v], j) \in Seq(K)
    BY <1>2, AppendProperties DEF Within, NetWithin
  <2>2. wq' = wq \/ wq' = [wq EXCEPT ![w] = Append(wq[w], j)]
    BY <1>4 DEF DispatchRemote
  <2>3. \A v \in Worker : wq'[v] \in Seq(K)
    BY <1>1, <2>1, <2>2 DEF IInv, TypeOK, NetType
  <2>4. NetWithin(K)'
    BY <1>4, <2>3 DEF DispatchRemote, Within, NetWithin
  <2>. QED
    BY <1>3, <1>4, <2>4, WithinFrame DEF DispatchRemote, loopVars, poolVars, Within
<1>5. CASE LocalCompletes(s)
  <2>1. PoolWithin(K)'
    BY <1>5 DEF LocalCompletes, TaskCompleted, IInv, TypeOK, PoolType, Within, PoolWithin
  <2>. QED
    BY <1>3, <1>5, <2>1, WithinFrame DEF LocalCompletes, loopVars, netVars, Within
<1>6. CASE LocalFails(s)
  BY <1>3, <1>6, WithinFrame DEF LocalFails, loopVars, poolVars, netVars, Within
<1>. QED
  BY <1>4, <1>5, <1>6 DEF DispatchStep

\* The reader takes a message about a job of the set and leaves the others.
LEMMA NextMessageWithin ==
  ASSUME IInv, NEW K, Within(K), NEW w \in Worker, NEW type, NextMessage(w, type),
         UNCHANGED <<wq, running>>
  PROVE  NetWithin(K)' /\ (type # "register" => Head(out[w]).job \in Job \cap K)
<1>1. out[w] \in Seq(MessagesOf(K)) /\ out[w] # <<>> /\ Head(out[w]).type = type
  BY DEF Within, NetWithin, NextMessage
<1>2. Head(out[w]) \in MessagesOf(K) /\ Tail(out[w]) \in Seq(MessagesOf(K))
  BY <1>1, HeadTailProperties
<1>3. 1 \in DOMAIN out[w] /\ Head(out[w]) = out[w][1]
  <2>1. Len(out[w]) \in Nat /\ Len(out[w]) > 0 /\ DOMAIN out[w] = 1..Len(out[w])
    BY <1>1, LenProperties, EmptySeq
  <2>. QED
    BY <1>1, <2>1
<1>4. type # "register" => Head(out[w]).job \in Job
  BY <1>1, <1>3 DEF IInv, Holds, ReportsHold
<1>5. type # "register" => Head(out[w]).job \in K
  BY <1>2, <1>4, JobAssumption DEF MessagesOf
<1>6. out' = [out EXCEPT ![w] = Tail(out[w])]
  BY DEF NextMessage
<1>7. \A v \in Worker : out'[v] \in Seq(MessagesOf(K))
  BY <1>2, <1>6 DEF IInv, TypeOK, NetType, Within, NetWithin
<1>. QED
  BY <1>4, <1>5, <1>7 DEF Within, NetWithin

\* A reader's step concerns jobs of the set.
LEMMA ReaderWithin ==
  ASSUME IInv, NEW K, Within(K), NEW w \in Worker, ReaderStep(w)
  PROVE  Within(K)'
<1>1. w \in Actor /\ Idle.job = NoJob /\ [Idle EXCEPT !.at = "register"].job = NoJob
  BY DEF Actor, Idle
<1>2. CASE ReadRegister(w)
  <2>1. NetWithin(K)'
    BY <1>2, NextMessageWithin DEF ReadRegister
  <2>2. CoroutinesWithin(K)'
    BY <1>1, <1>2, CoroutineWithin DEF ReadRegister
  <2>. QED
    BY <1>2, <2>1, <2>2, WithinFrame DEF ReadRegister, loopVars, poolVars, Within
<1>3. CASE RegisterWorker(w)
  <2>1. CoroutinesWithin(K)'
    BY <1>1, <1>3, CoroutineWithin DEF RegisterWorker
  <2>. QED
    BY <1>3, <2>1, WithinFrame DEF RegisterWorker, loopVars, netVars, Within
<1>4. CASE ReadHeartbeat(w)
  BY <1>4, WithinFrame DEF ReadHeartbeat, loopVars, netVars, Within
<1>5. CASE ReadProgress(w)
  <2>1. NetWithin(K)'
    BY <1>5, NextMessageWithin DEF ReadProgress
  <2>. QED
    BY <1>5, <2>1, WithinFrame DEF ReadProgress, loopVars, poolVars, Within
<1>6. CASE ReadCompleted(w)
  <2>1. NetWithin(K)'
    BY <1>6, NextMessageWithin DEF ReadCompleted
  <2>2. PoolWithin(K)'
    BY <1>6 DEF ReadCompleted, TaskCompleted, IInv, TypeOK, PoolType, Within, PoolWithin
  <2>. QED
    BY <1>6, <2>1, <2>2, WithinFrame DEF ReadCompleted, loopVars, Within
<1>7. CASE ReadFailed(w)
  <2>1. NetWithin(K)' /\ Head(out[w]).job \in K
    BY <1>7, NextMessageWithin DEF ReadFailed
  <2>2. CoroutinesWithin(K)'
    BY <1>1, <1>7, <2>1, CoroutineWithin DEF ReadFailed, StartFailing
  <2>. QED
    BY <1>7, <2>1, <2>2, WithinFrame DEF ReadFailed, loopVars, poolVars, Within
<1>. QED
  BY <1>2, <1>3, <1>4, <1>5, <1>6, <1>7 DEF ReaderStep

\* A worker executes and reports jobs of the set.
LEMMA WorkerWithin ==
  ASSUME IInv, NEW K, Within(K), NEW w \in Worker, WorkerStep(w)
  PROVE  Within(K)'
<1>1. UNCHANGED <<queue, todo, kept, coro, wjob>>
  BY DEF WorkerStep, ReceiveTask, ReportProgress, ReportResult, loopVars, poolVars
<1>2. /\ wq[w] \in Seq(K) /\ running[w] \in Seq(ExecutionsOf(K)) /\ out[w] \in Seq(MessagesOf(K))
      /\ DOMAIN running[w] = 1..Len(running[w])
  BY LenProperties DEF Within, NetWithin
<1>3. NetWithin(K)'
  <2>1. CASE ReceiveTask(w)
    <3>1. Head(wq[w]) \in K /\ Tail(wq[w]) \in Seq(K)
      BY <1>2, <2>1, HeadTailProperties DEF ReceiveTask
    <3>2. [job |-> Head(wq[w]), told |-> 0] \in ExecutionsOf(K)
      BY <3>1 DEF ExecutionsOf
    <3>3. Append(running[w], [job |-> Head(wq[w]), told |-> 0]) \in Seq(ExecutionsOf(K))
      BY <1>2, <3>2, AppendProperties
    <3>4. \A v \in Worker : wq'[v] \in Seq(K) /\ running'[v] \in Seq(ExecutionsOf(K))
      BY <2>1, <3>1, <3>3 DEF ReceiveTask, IInv, TypeOK, NetType, Within, NetWithin
    <3>. QED
      BY <2>1, <3>4 DEF ReceiveTask, Within, NetWithin
  <2>2. ASSUME NEW i \in DOMAIN running[w],
               \/ ReportProgress(w, i)
               \/ ReportResult(w, i, "completed") \/ ReportResult(w, i, "failed")
        PROVE  NetWithin(K)'
    <3>1. running[w][i] \in ExecutionsOf(K)
      BY <1>2, ElementOfSeq
    <3>2. PICK type \in {"progress", "completed", "failed"} : Send(w, type, running[w][i].job)
      BY <2>2 DEF ReportProgress, ReportResult
    <3>3. [type |-> type, job |-> running[w][i].job] \in MessagesOf(K)
      BY <3>1 DEF ExecutionsOf, MessagesOf
    <3>4. Append(out[w], [type |-> type, job |-> running[w][i].job]) \in Seq(MessagesOf(K))
      BY <1>2, <3>3, AppendProperties
    <3>5. \A v \in Worker : out'[v] \in Seq(MessagesOf(K))
      BY <3>2, <3>4 DEF Send, IInv, TypeOK, NetType, Within, NetWithin
    <3>6. \E rest \in Seq(ExecutionsOf(K)) : running' = [running EXCEPT ![w] = rest]
      <4>1. CASE ReportProgress(w, i)
        <5>. DEFINE more == [running[w][i] EXCEPT !.told = @ + 1]
        <5>1. more \in ExecutionsOf(K)
          BY <3>1 DEF ExecutionsOf
        <5>2. [running[w] EXCEPT ![i] = more] \in Seq(ExecutionsOf(K))
          BY <1>2, <5>1, ExceptSeq
        <5>3. running' = [running EXCEPT ![w] = [running[w] EXCEPT ![i] = more]]
          BY <4>1 DEF ReportProgress
        <5>. QED
          BY <5>2, <5>3
      <4>2. CASE ReportResult(w, i, "completed") \/ ReportResult(w, i, "failed")
        <5>1. Without(running[w], i) \in Seq(ExecutionsOf(K))
          BY <1>2, WithoutType
        <5>. QED
          BY <4>2, <5>1 DEF ReportResult
      <4>. QED
        BY <2>2, <4>1, <4>2
    <3>7. \A v \in Worker : running'[v] \in Seq(ExecutionsOf(K))
      BY <3>6 DEF IInv, TypeOK, NetType, Within, NetWithin
    <3>8. wq' = wq
      BY <2>2 DEF ReportProgress, ReportResult
    <3>. QED
      BY <3>5, <3>7, <3>8 DEF Within, NetWithin
  <2>. QED
    BY <2>1, <2>2 DEF WorkerStep
<1>. QED
  BY <1>1, <1>3, WithinFrame DEF Within

\* What breaks or connects brings no other job.
LEMMA NetStepWithin ==
  ASSUME IInv, NEW K, Within(K), NEW w \in Worker, NetStep(w)
  PROVE  Within(K)'
<1>1. out[w] \in Seq(MessagesOf(K))
  BY DEF Within, NetWithin
<1>2. UNCHANGED <<queue, todo, kept, wjob>>
  BY DEF NetStep, Connect, WorkerCrashes, HeartbeatAges, ReaderFails, StreamBreaks, CloseStream,
     loopVars, poolVars
<1>3. CoroutinesWithin(K)'
  <2>1. UNCHANGED coro \/ \E r : r.job = NoJob /\ coro' = [coro EXCEPT ![w] = r]
    <3>1. Idle.job = NoJob /\ [Idle EXCEPT !.at = "dead"].job = NoJob
      BY DEF Idle
    <3>. QED
      BY <3>1 DEF NetStep, Connect, WorkerCrashes, HeartbeatAges, ReaderFails, StreamBreaks, CloseStream
  <2>. QED
    BY <2>1, CoroutineWithin, WithinFrame DEF Actor
<1>4. ASSUME CloseStream(w) PROVE \A v \in Worker : wq'[v] \in Seq(K)
  BY <1>4, EmptySeq DEF CloseStream, IInv, TypeOK, NetType, Within, NetWithin
<1>5. NetWithin(K)'
  <2>1. CASE Connect(w)
    <3>1. Append(out[w], [type |-> "register", job |-> NoJob]) \in Seq(MessagesOf(K))
      BY <1>1, AppendProperties DEF MessagesOf
    <3>2. \A v \in Worker : out'[v] \in Seq(MessagesOf(K))
      BY <2>1, <3>1 DEF Connect, Send, IInv, TypeOK, NetType, Within, NetWithin
    <3>. QED
      BY <2>1, <3>2 DEF Connect, Within, NetWithin
  <2>2. CASE WorkerCrashes(w)
    <3>1. \A v \in Worker : running'[v] \in Seq(ExecutionsOf(K)) /\ out'[v] \in Seq(MessagesOf(K))
      BY <2>2, EmptySeq DEF WorkerCrashes, IInv, TypeOK, NetType, Within, NetWithin
    <3>. QED
      BY <1>4, <2>2, <3>1 DEF WorkerCrashes, NetWithin
  <2>3. ASSUME NEW lost \in 0..Len(out[w]), StreamBreaks(w, lost) PROVE NetWithin(K)'
    <3>1. Len(out[w]) \in Nat /\ \A i \in 1..Len(out[w]) : out[w][i] \in MessagesOf(K)
      BY <1>1, LenProperties, ElementOfSeq
    <3>2. SubSeq(out[w], lost + 1, Len(out[w])) \in Seq(MessagesOf(K))
      BY <3>1, SubSeqProperties
    <3>3. \A v \in Worker : out'[v] \in Seq(MessagesOf(K))
      BY <2>3, <3>2 DEF StreamBreaks, IInv, TypeOK, NetType, Within, NetWithin
    <3>. QED
      BY <1>4, <2>3, <3>3 DEF StreamBreaks, Within, NetWithin
  <2>4. CASE HeartbeatAges(w) \/ ReaderFails(w)
    BY <2>4, WithinFrame DEF HeartbeatAges, ReaderFails, netVars
  <2>. QED
    BY <2>1, <2>2, <2>3, <2>4 DEF NetStep
<1>. QED
  BY <1>2, <1>3, <1>5, WithinFrame DEF Within

\* Only a client brings in a job that was not under way.
LEMMA NextWithin ==
  ASSUME IInv, ClientsHold, NEW K, Within(K), [Next]_vars,
         \A j \in Job : CreateJob(j) => j \in K, LockGranted => coro[Head(lockq)].job \in K
  PROVE  Within(K)'
<1>1. CASE UNCHANGED vars
  BY <1>1, WithinFrame DEF vars, loopVars, poolVars, netVars, Within
<1>. QED
  BY <1>1, LoopWithin, LockGrantedWithin, CreateJobWithin, HandleFailureWithin, ReleaseFailsWithin,
     DispatchWithin, ReaderWithin, WorkerWithin, NetStepWithin DEF Next

\* The coroutine of a client is the business of that client.
LEMMA NextClients ==
  ASSUME IInv, ClientsHold, [Next]_vars
  PROVE  /\ ClientsHold'
         /\ \A j \in Job : coro'[j] = coro[j] \/ coro'[j] = Idle \/ CreateJob(j)
<1>1. \A j \in Job : j \in Actor /\ j \notin Worker \cup Slot \cup {Loop}
  BY ActorAssumption DEF Actor
<1>2. \A j \in Job : coro'[j] = coro[j] \/ coro'[j] = Idle \/ CreateJob(j)
  <2>. SUFFICES ASSUME NEW j \in Job PROVE coro'[j] = coro[j] \/ coro'[j] = Idle \/ CreateJob(j)
    OBVIOUS
  <2>1. ASSUME NEW c \in Actor, c # j, NEW r, coro' = [coro EXCEPT ![c] = r] PROVE coro'[j] = coro[j]
    BY <1>1, <2>1 DEF IInv, TypeOK, CoroutineType
  <2>2. CASE UNCHANGED coro
    BY <2>2
  <2>3. CASE Confirmed
    <3>1. PICK s \in Slot : \E r : coro' = [coro EXCEPT ![s] = r]
      BY <2>3 DEF Confirmed, FreeSlots
    <3>. QED
      BY <1>1, <2>1, <3>1 DEF Actor
  <2>4. ASSUME NEW w \in Worker, FailoverWorker(w) \/ ReaderStep(w) \/ NetStep(w) PROVE coro'[j] = coro[j]
    <3>1. \E c \in Worker \cup {Loop} : coro' = coro \/ \E r : coro' = [coro EXCEPT ![c] = r]
      BY <2>4 DEF FailoverWorker, ReaderStep, ReadRegister, RegisterWorker, ReadHeartbeat, ReadProgress,
         ReadCompleted, ReadFailed, StartFailing, NetStep, Connect, WorkerCrashes, HeartbeatAges,
         ReaderFails, StreamBreaks, CloseStream
    <3>. QED
      BY <1>1, <2>1, <3>1 DEF Actor
  <2>5. ASSUME NEW s \in Slot, DispatchStep(s) PROVE coro'[j] = coro[j]
    <3>1. \E r : coro' = [coro EXCEPT ![s] = r]
      BY <2>5 DEF DispatchStep, DispatchRemote, LocalCompletes, LocalFails, StartFailing
    <3>. QED
      BY <1>1, <2>1, <2>5, <3>1 DEF Actor
  <2>6. ASSUME NEW c \in Actor, HandleFailure(c) \/ ReleaseFails(c) PROVE coro'[j] = coro[j]
    <3>1. c # j
      BY <2>6 DEF HandleFailure, ReleaseFails, ClientsHold
    <3>2. \E r : coro' = [coro EXCEPT ![c] = r]
      BY <2>6 DEF HandleFailure, ReleaseFails, Submit
    <3>. QED
      BY <2>1, <2>6, <3>1, <3>2
  <2>7. CASE LockGranted
    <3>1. Head(lockq) \in Actor /\ coro' = [coro EXCEPT ![Head(lockq)] = Idle]
      BY <2>7, OldestWaiter DEF LockGranted
    <3>. QED
      BY <1>1, <3>1 DEF IInv, TypeOK, CoroutineType
  <2>8. ASSUME NEW i \in Job, CreateJob(i) PROVE coro'[j] = coro[j] \/ CreateJob(j)
    <3>1. \E r : coro' = [coro EXCEPT ![i] = r]
      BY <2>8 DEF CreateJob, Submit
    <3>. QED
      BY <1>1, <2>1, <2>8, <3>1
  <2>9. CASE LoopStep /\ ~Confirmed /\ ~\E w \in Worker : FailoverWorker(w)
    BY <2>9 DEF LoopStep, CheckHealth, BeginPass, NoCandidate, ReserveRefused, KeepHead, ReserveGranted,
       PassFails, EndPass, SelectWorker
  <2>10. ASSUME NEW w \in Worker, WorkerStep(w) PROVE UNCHANGED coro
    BY <2>10 DEF WorkerStep, ReceiveTask, ReportProgress, ReportResult
  <2>. QED
    BY <2>2, <2>3, <2>4, <2>5, <2>6, <2>7, <2>8, <2>9, <2>10 DEF Next, vars
<1>3. ASSUME NEW j \in Job, CreateJob(j) PROVE coro'[j].at \in {"idle", "lock"} /\ coro'[j].job \in {j, NoJob}
  BY <1>1, <1>3 DEF CreateJob, Submit, Idle, IInv, TypeOK, CoroutineType
<1>. QED
  BY <1>2, <1>3 DEF ClientsHold, Idle

\* No step forgets that a job was submitted.
LEMMA KnownGrows ==
  ASSUME IInv, [Next]_vars
  PROVE  Known \subseteq Known'
<1>1. \A j, w : TaskCompleted(j, w) => phase' = [phase EXCEPT ![j] = "COMPLETED"]
  BY DEF TaskCompleted
<1>2. CASE UNCHANGED phase
  BY <1>2 DEF Known
<1>3. CASE LoopStep
  <2>1. UNCHANGED phase \/ ReserveGranted
    BY <1>3 DEF LoopStep, CheckHealth, BeginPass, NoCandidate, ReserveRefused, KeepHead, Confirmed,
       PassFails, EndPass, FailoverWorker, SelectWorker, registryVars
  <2>2. CASE ReserveGranted
    <3>1. phase' = [phase EXCEPT ![Head(todo)] = "ASSIGNED"]
      BY <2>2 DEF ReserveGranted
    <3>2. \A k \in Job : phase'[k] = phase[k] \/ phase'[k] = "ASSIGNED"
      BY <3>1 DEF IInv, TypeOK, RegistryType
    <3>. QED
      BY <3>2 DEF Known
  <2>. QED
    BY <1>2, <2>1, <2>2
<1>4. CASE LockGranted \/ \E j \in Job : CreateJob(j)
  <2>1. \E j : phase' = [phase EXCEPT ![j] = "PENDING"]
    BY <1>4 DEF LockGranted, CreateJob
  <2>2. \A k \in Job : phase'[k] = phase[k] \/ phase'[k] = "PENDING"
    BY <2>1 DEF IInv, TypeOK, RegistryType
  <2>. QED
    BY <2>2 DEF Known
<1>5. ASSUME NEW c \in Actor, HandleFailure(c) \/ ReleaseFails(c) PROVE Known \subseteq Known'
  <2>1. \/ UNCHANGED phase
        \/ \E j : phase' = [phase EXCEPT ![j] = "PENDING"] \/ phase' = [phase EXCEPT ![j] = "FAILED"]
    BY <1>5 DEF HandleFailure, ReleaseFails, registryVars
  <2>2. \A k \in Job : phase'[k] \in {phase[k], "PENDING", "FAILED"}
    BY <2>1 DEF IInv, TypeOK, RegistryType
  <2>. QED
    BY <2>2 DEF Known
<1>6. ASSUME NEW s \in Slot, DispatchStep(s) PROVE Known \subseteq Known'
  <2>1. UNCHANGED phase \/ \E j, w : TaskCompleted(j, w)
    BY <1>6 DEF DispatchStep, DispatchRemote, LocalCompletes, LocalFails, registryVars
  <2>2. \A k \in Job : phase'[k] \in {phase[k], "COMPLETED"}
    BY <1>1, <2>1 DEF IInv, TypeOK, RegistryType
  <2>. QED
    BY <2>2 DEF Known
<1>7. ASSUME NEW w \in Worker, ReaderStep(w) PROVE Known \subseteq Known'
  <2>1. \/ UNCHANGED phase \/ \E j, v : TaskCompleted(j, v)
        \/ \E j : phase' = [phase EXCEPT ![j] = "GENERATING"]
    BY <1>7 DEF ReaderStep, ReadRegister, RegisterWorker, ReadHeartbeat, ReadProgress, ReadCompleted,
       ReadFailed, registryVars
  <2>2. \A k \in Job : phase'[k] \in {phase[k], "COMPLETED", "GENERATING"}
    BY <1>1, <2>1 DEF IInv, TypeOK, RegistryType
  <2>. QED
    BY <2>2 DEF Known
<1>8. ASSUME NEW w \in Worker, WorkerStep(w) \/ NetStep(w) PROVE UNCHANGED phase
  BY <1>8 DEF WorkerStep, ReceiveTask, ReportProgress, ReportResult, NetStep, Connect, WorkerCrashes,
     HeartbeatAges, ReaderFails, StreamBreaks, CloseStream, registryVars
<1>. QED
  BY <1>2, <1>3, <1>4, <1>5, <1>6, <1>7, <1>8 DEF Next, vars, registryVars

\* Every step keeps it so.
LEMMA NextKnown == IInv /\ KnownHolds /\ [Next]_vars => KnownHolds'
<1>. SUFFICES ASSUME IInv, KnownHolds, [Next]_vars PROVE KnownHolds'
  OBVIOUS
<1>1. Known \subseteq Known' /\ ClientsHold /\ ClientsHold'
  BY KnownGrows, NextClients DEF KnownHolds
<1>2. \A j \in Job : CreateJob(j) => j \in Known'
  BY PhaseKnown DEF CreateJob
<1>3. LockGranted => coro[Head(lockq)].job \in Known
  BY OldestWaiter, CoroutineKnown, JobAssumption
<1>4. PICK K : K = Known'
  OBVIOUS
<1>5. Within(K)'
  <2>1. Within(K)
    BY <1>1, <1>4, WithinGrows DEF KnownHolds
  <2>. QED
    BY <1>1, <1>2, <1>3, <1>4, <2>1, NextWithin
<1>6. Within(Known)'
  BY <1>4, <1>5
<1>7. ASSUME NEW j \in Job, coro'[j].job = j PROVE j \in Known'
  BY <1>1, <1>2, <1>7, NextClients, JobAssumption DEF KnownHolds, Idle
<1>. QED
  BY <1>1, <1>6, <1>7 DEF KnownHolds

----------------------------------------------------------------------------
(* The account of one job: q times in _queue, of which h are still in the hands of a *)
(* pass or all of them when there is none; n times waiting for the lock; d times     *)
(* dispatched; allowed a times; e errors and b breaks so far.                        *)

Account(q, h, d, n, a, e, b) ==
  /\ q + n <= a /\ h <= q
  /\ d + h + n <= a * (1 + e)
  /\ b = 0 /\ e = 0 => d + h + n = a

\* How the budget grows.
LEMMA BudgetGrows ==
  ASSUME NEW a \in Nat, NEW e \in Nat
  PROVE  /\ a * (1 + e) \in Nat
         /\ (a + 1) * (1 + e) >= a * (1 + e) + 1
         /\ a * (1 + (e + 1)) = a * (1 + e) + a
         /\ a * (1 + 0) = a
  OBVIOUS

\* What the operations on the queue and the faults make of an account; o tells whether
\* the operation is about this job.
Moves(q, h, d, n, a, e, b, o) ==
  /\ h = q => Account(q + o, h + o, d, n, a + o, e, b)
  /\ Account(q, h, d, n + o, a + o, e, b)
  /\ h = q /\ n >= o => Account(q + o, h + o, d, n - o, a, e, b)
  /\ h >= o => Account(q, h - o, d + o, n, a, e, b)
  /\ Account(q, h, d, n, a, e + o, b)
  /\ Account(q, q, d, n, a, e + 1, b)
  /\ n >= o => Account(q, h, d, n - o, a, e, b + 1)
  /\ Account(h, h, d, n, a, e, b)

----------------------------------------------------------------------------
(* The accounts of all jobs *)

Waiting(j) == {c \in Actor : coro[c].at = "lock" /\ coro[c].job = j}
Waiters(j) == Cardinality(Waiting(j))
Allowed(j) == retries[j] + (IF j \in Known THEN 1 ELSE 0)
InHand(j) == IF LockHeld THEN Occurrences(kept, j) + Occurrences(todo, j) ELSE Occurrences(queue, j)

JobAccount(j) ==
  Account(Occurrences(queue, j), InHand(j), dispatches[j], Waiters(j), Allowed(j),
          spent["dbErrors"], spent["breaks"])

\* Inductive: a pass holds no more than the queue does, so that giving it up restores
\* what it took and ending it takes what it gave away.
TicketsHold == \A j \in Job : IsFiniteSet(Waiting(j)) /\ JobAccount(j)

\* All entries of an account are natural numbers.
LEMMA EntriesType ==
  ASSUME IInv, NEW j \in Job, IsFiniteSet(Waiting(j))
  PROVE  /\ Occurrences(queue, j) \in Nat /\ Occurrences(kept, j) \in Nat /\ Occurrences(todo, j) \in Nat
         /\ InHand(j) \in Nat /\ dispatches[j] \in Nat /\ Waiters(j) \in Nat /\ Allowed(j) \in Nat
         /\ spent["dbErrors"] \in Nat /\ spent["breaks"] \in Nat
<1>1. queue \in Seq(Job) /\ kept \in Seq(Job) /\ todo \in Seq(Job)
  BY DEF IInv, TypeOK, QueueType, LoopType
<1>2. Occurrences(queue, j) \in Nat /\ Occurrences(kept, j) \in Nat /\ Occurrences(todo, j) \in Nat
  BY <1>1, OccurrencesType
<1>3. InHand(j) \in Nat
  BY <1>2 DEF InHand
<1>4. Waiters(j) \in Nat
  BY FS_CardinalityType DEF Waiters
<1>5. dispatches[j] \in Nat /\ Allowed(j) \in Nat /\ spent["dbErrors"] \in Nat /\ spent["breaks"] \in Nat
  BY DEF IInv, TypeOK, CountType, RegistryType, Allowed, Bound
<1>. QED
  BY <1>2, <1>3, <1>4, <1>5

\* Each of them leaves the account of job j an account.
LEMMA JobAccountSteps ==
  ASSUME IInv, TicketsHold, NEW j \in Job, NEW o \in {0, 1}
  PROVE  Moves(Occurrences(queue, j), InHand(j), dispatches[j], Waiters(j), Allowed(j),
               spent["dbErrors"], spent["breaks"], o)
<1>. DEFINE q == Occurrences(queue, j)
            h == InHand(j)
            d == dispatches[j]
            n == Waiters(j)
            a == Allowed(j)
            e == spent["dbErrors"]
            b == spent["breaks"]
<1>1. IsFiniteSet(Waiting(j)) /\ JobAccount(j)
  BY DEF TicketsHold
<1>2. /\ q \in Nat /\ h \in Nat /\ d \in Nat /\ n \in Nat /\ a \in Nat
      /\ e \in Nat /\ b \in Nat
  BY <1>1, EntriesType
<1>3. Account(q, h, d, n, a, e, b)
  BY <1>1 DEF JobAccount
<1>. HIDE DEF q, h, d, n, a, e, b
<1>. USE <1>2
<1>. DEFINE x == a * (1 + e)
            y == (a + o) * (1 + e)
            z == a * (1 + (e + 1))
            u == a * (1 + (e + o))
<1>4. x \in Nat /\ y \in Nat /\ z \in Nat /\ u \in Nat /\ y >= x + o /\ z = x + a /\ u >= x
  <2>1. x \in Nat /\ a * (1 + (e + 1)) = x + a /\ (a + 1) * (1 + e) >= x + 1 /\ (a + 1) * (1 + e) \in Nat
    BY BudgetGrows
  <2>2. a + 0 = a /\ e + 0 = e
    OBVIOUS
  <2>. QED
    BY <2>1, <2>2
<1>5. q + n <= a /\ h <= q /\ d + h + n <= x /\ (b = 0 /\ e = 0 => d + h + n = a)
  BY <1>3 DEF Account
<1>6. /\ d + (h + o) + n <= y /\ d + h + (n + o) <= y
      /\ d + q + n <= z /\ d + h + n <= u
  <2>. HIDE DEF x, y, z, u
  <2>. QED
    BY <1>4, <1>5
<1>7. h = q => Account(q + o, h + o, d, n, a + o, e, b)
  BY <1>5, <1>6 DEF Account
<1>8. Account(q, h, d, n + o, a + o, e, b)
  BY <1>5, <1>6 DEF Account
<1>9. Account(q, q, d, n, a, e + 1, b)
  BY <1>5, <1>6 DEF Account
<1>10. h = q /\ n >= o => Account(q + o, h + o, d, n - o, a, e, b)
  <2>1. n >= o => d + (h + o) + (n - o) = d + h + n
    OBVIOUS
  <2>. QED
    BY <1>5, <2>1 DEF Account
<1>11. h >= o => Account(q, h - o, d + o, n, a, e, b)
  <2>1. h >= o => (d + o) + (h - o) + n = d + h + n
    OBVIOUS
  <2>. QED
    BY <1>5, <2>1 DEF Account
<1>12. Account(h, h, d, n, a, e, b)
  BY <1>5 DEF Account
<1>13. Account(q, h, d, n, a, e + o, b)
  BY <1>5, <1>6 DEF Account
<1>14. n >= o => Account(q, h, d, n - o, a, e, b + 1)
  <2>1. n >= o => d + h + (n - o) <= x
    <3>. HIDE DEF x
    <3>. QED
      BY <1>4, <1>5
  <2>. QED
    BY <1>5, <2>1 DEF Account
<1>. QED
  BY <1>7, <1>8, <1>9, <1>10, <1>11, <1>12, <1>13, <1>14 DEF Moves, q, h, d, n, a, e, b

\* Initially every account is empty.
LEMMA InitTickets == Init => TicketsHold
<1>. SUFFICES ASSUME Init, NEW j \in Job PROVE IsFiniteSet(Waiting(j)) /\ JobAccount(j)
  BY DEF TicketsHold
<1>1. Waiting(j) = {}
  BY DEF Init, Waiting, Idle
<1>2. Occurrences(<<>>, j) = 0 /\ Cardinality({}) = 0 /\ IsFiniteSet({})
  BY OccurrencesSingle, FS_EmptySet
<1>3. Allowed(j) = 0 /\ dispatches[j] = 0 /\ spent["dbErrors"] = 0 /\ spent["breaks"] = 0
  BY DEF Init, Allowed, Known, Bound
<1>4. Account(0, 0, 0, 0, 0, 0, 0)
  BY DEF Account
<1>5. Occurrences(queue, j) = 0 /\ InHand(j) = 0
  BY <1>2 DEF Init, InHand, LockHeld
<1>. QED
  BY <1>1, <1>2, <1>3, <1>4, <1>5 DEF JobAccount, Waiters

\* Who waits for the lock after one coroutine moved on.
LEMMA WaitingMoves ==
  ASSUME IInv, NEW c \in Actor, NEW r, coro' = [coro EXCEPT ![c] = r], NEW j \in Job
  PROVE  Waiting(j)' = (Waiting(j) \ {c}) \cup (IF r.at = "lock" /\ r.job = j THEN {c} ELSE {})
<1>1. \A a \in Actor : coro'[a] = IF a = c THEN r ELSE coro[a]
  BY DEF IInv, TypeOK, CoroutineType
<1>. QED
  BY <1>1 DEF Waiting

\* A coroutine that neither was nor is in line for the lock changes nothing there.
LEMMA WaitingStays ==
  ASSUME IInv, NEW c \in Actor, NEW r, coro' = [coro EXCEPT ![c] = r],
         coro[c].at # "lock", r.at # "lock"
  PROVE  \A j \in Job : Waiting(j)' = Waiting(j)
<1>. SUFFICES ASSUME NEW j \in Job PROVE Waiting(j)' = Waiting(j)
  OBVIOUS
<1>1. c \notin Waiting(j)
  BY DEF Waiting
<1>2. Waiting(j)' = (Waiting(j) \ {c}) \cup (IF r.at = "lock" /\ r.job = j THEN {c} ELSE {})
  BY WaitingMoves
<1>. QED
  BY <1>1, <1>2

\* Spending another bound leaves errors and breaks as they are.
LEMMA SpendCounts ==
  ASSUME IInv, NEW x \in DOMAIN Bound, Spend(x)
  PROVE  /\ spent'["dbErrors"] = spent["dbErrors"] + Once(x, "dbErrors")
         /\ spent'["breaks"] = spent["breaks"] + Once(x, "breaks")
<1>1. spent \in [DOMAIN Bound -> Nat] /\ spent' = [spent EXCEPT ![x] = spent[x] + 1]
  BY DEF Spend, IInv, TypeOK, CountType
<1>2. "dbErrors" \in DOMAIN Bound /\ "breaks" \in DOMAIN Bound
  BY DEF Bound
<1>. QED
  BY <1>1, <1>2 DEF Once

\* Every clause of the account but the one for errors is left alone.
TicketsStay ==
  /\ UNCHANGED <<queue, dispatches, retries>> /\ Known' = Known
  /\ \A j \in Job : Waiting(j)' = Waiting(j) /\ InHand(j)' = InHand(j)

\* The coroutines that wait for the lock keep waiting, no other one joins them.
LineStays ==
  \/ UNCHANGED coro
  \/ \E c \in Actor : \E r : /\ coro' = [coro EXCEPT ![c] = r]
                           /\ coro[c].at # "lock" /\ r.at # "lock"

\* The bound on broken streams is not touched.
NoBreak == UNCHANGED spent \/ \E x \in DOMAIN Bound \ {"breaks"} : Spend(x)

\* Steps that leave the queue and the line alone keep the accounts, errors or not.
LEMMA QuietTickets ==
  ASSUME IInv, TicketsHold, TicketsStay, NoBreak
  PROVE  TicketsHold'
<1>. SUFFICES ASSUME NEW j \in Job PROVE (IsFiniteSet(Waiting(j)) /\ JobAccount(j))'
  BY DEF TicketsHold
<1>1. IsFiniteSet(Waiting(j))
  BY DEF TicketsHold
<1>2. /\ Waiters(j)' = Waiters(j) /\ Allowed(j)' = Allowed(j) /\ InHand(j)' = InHand(j)
      /\ Waiting(j)' = Waiting(j)
      /\ Occurrences(queue, j)' = Occurrences(queue, j) /\ dispatches'[j] = dispatches[j]
  BY DEF TicketsStay, Waiters, Allowed, Occurrences
<1>3. /\ spent["dbErrors"] \in Nat /\ spent["breaks"] \in Nat
      /\ Account(Occurrences(queue, j), InHand(j), dispatches[j], Waiters(j), Allowed(j),
                 spent["dbErrors"], spent["breaks"])
  BY <1>1, EntriesType DEF TicketsHold, JobAccount
<1>4. /\ spent'["breaks"] = spent["breaks"]
      /\ spent'["dbErrors"] \in {spent["dbErrors"], spent["dbErrors"] + 1}
  BY <1>3, SpendCounts DEF NoBreak, Once
<1>5. Account(Occurrences(queue, j), InHand(j), dispatches[j], Waiters(j), Allowed(j),
              spent["dbErrors"] + 1, spent["breaks"])
  BY JobAccountSteps DEF Moves
<1>6. Account(Occurrences(queue, j), InHand(j), dispatches[j], Waiters(j), Allowed(j),
              spent'["dbErrors"], spent'["breaks"])
  BY <1>3, <1>4, <1>5
<1>. QED
  BY <1>1, <1>2, <1>6 DEF JobAccount

\* A step that touches neither the queue nor the pass nor the line is quiet.
LEMMA FrameTickets ==
  ASSUME IInv, UNCHANGED <<queue, todo, kept, dispatches, retries>>,
         LockHeld' = LockHeld, Known' = Known, LineStays
  PROVE  TicketsStay
<1>1. \A j \in Job : Waiting(j)' = Waiting(j)
  <2>1. CASE UNCHANGED coro
    BY <2>1 DEF Waiting
  <2>2. CASE ~UNCHANGED coro
    BY <2>2, WaitingStays DEF LineStays
  <2>. QED
    BY <2>1, <2>2
<1>2. \A j \in Job : InHand(j)' = InHand(j)
  BY DEF InHand, Occurrences
<1>. QED
  BY <1>1, <1>2 DEF TicketsStay

\* A submission enters the account of its job: in the queue or in line.
LEMMA SubmitTickets ==
  ASSUME IInv, TicketsHold, NEW c \in Actor, coro[c].at # "lock", NEW j \in Job, Submit(c, j),
         UNCHANGED <<todo, kept, pc, dispatches, spent>>,
         \A k \in Job : Allowed(k)' = Allowed(k) + Once(j, k)
  PROVE  TicketsHold'
<1>. SUFFICES ASSUME NEW k \in Job PROVE (IsFiniteSet(Waiting(k)) /\ JobAccount(k))'
  BY DEF TicketsHold
<1>. DEFINE o == Once(j, k)
<1>1. IsFiniteSet(Waiting(k)) /\ o \in {0, 1}
  BY DEF TicketsHold, Once
<1>2. c \notin Waiting(k)
  BY DEF Waiting
<1>3. LockHeld' = LockHeld /\ (LockHeld => InHand(k)' = InHand(k)) /\ Allowed(k)' = Allowed(k) + o
  BY DEF LockHeld, InHand, Occurrences
<1>4. CASE LockHeld \/ lockq # <<>>
  <2>1. PICK r : r = [at |-> "lock", job |-> j, worker |-> NoWorker]
    OBVIOUS
  <2>2. queue' = queue /\ coro' = [coro EXCEPT ![c] = r] /\ r.at = "lock" /\ r.job = j
    BY <1>4, <2>1 DEF Submit
  <2>3. Waiting(k)' = (Waiting(k) \ {c}) \cup (IF r.at = "lock" /\ r.job = k THEN {c} ELSE {})
    BY <2>2, WaitingMoves
  <2>4. IsFiniteSet(Waiting(k)') /\ Cardinality(Waiting(k)') = Cardinality(Waiting(k)) + o
    <3>1. CASE j = k
      <4>1. Waiting(k)' = Waiting(k) \cup {c} /\ o = 1
        BY <1>2, <2>2, <2>3, <3>1 DEF Once
      <4>. QED
        BY <1>1, <1>2, <4>1, FS_AddElement
    <3>2. CASE j # k
      <4>1. Waiting(k)' = Waiting(k) /\ o = 0
        BY <1>2, <2>2, <2>3, <3>2 DEF Once
      <4>. QED
        BY <1>1, <4>1, FS_CardinalityType
    <3>. QED
      BY <3>1, <3>2
  <2>5. Waiters(k)' = Waiters(k) + o
    BY <2>4 DEF Waiters
  <2>6. Occurrences(queue, k)' = Occurrences(queue, k) /\ InHand(k)' = InHand(k)
    BY <1>3, <2>2 DEF InHand, Occurrences
  <2>7. Account(Occurrences(queue, k), InHand(k), dispatches[k], Waiters(k) + o,
                Allowed(k) + o, spent["dbErrors"], spent["breaks"])
    BY <1>1, JobAccountSteps DEF Moves
  <2>. QED
    BY <1>3, <2>4, <2>5, <2>6, <2>7 DEF JobAccount
<1>5. CASE ~(LockHeld \/ lockq # <<>>)
  <2>1. queue' = Enqueued(c, j) /\ coro' = [coro EXCEPT ![c] = Idle] /\ ~LockHeld /\ Idle.at # "lock"
    BY <1>5 DEF Submit, Idle
  <2>2. Waiting(k)' = Waiting(k)
    <3>1. \A i \in Job : Waiting(i)' = Waiting(i)
      BY <2>1, WaitingStays
    <3>. QED
      BY <3>1
  <2>3. IsFiniteSet(Waiting(k)') /\ Waiters(k)' = Waiters(k)
    BY <1>1, <2>2 DEF Waiters
  <2>4. Occurrences(queue, k)' = Occurrences(queue, k) + o
    <3>1. Occurrences(queue, k)' = Occurrences(queue', k)
      BY DEF Occurrences
    <3>. QED
      BY <2>1, <3>1, OccurrencesEnqueued
  <2>5. InHand(k)' = Occurrences(queue, k)' /\ InHand(k) = Occurrences(queue, k)
    BY <1>3, <2>1 DEF InHand
  <2>6. Account(Occurrences(queue, k) + o, InHand(k) + o, dispatches[k], Waiters(k),
                Allowed(k) + o, spent["dbErrors"], spent["breaks"])
    BY <1>1, <2>5, JobAccountSteps DEF Moves
  <2>7. InHand(k)' = InHand(k) + o
    BY <2>4, <2>5
  <2>. QED
    BY <1>3, <2>3, <2>4, <2>6, <2>7 DEF JobAccount
<1>. QED
  BY <1>4, <1>5

----------------------------------------------------------------------------
(* The steps of the scheduler *)

\* The first spec of a pass and what is left of it.
LEMMA HeadOfPass ==
  ASSUME IInv, todo # <<>>, NEW k \in Job
  PROVE  /\ Head(todo) \in Job /\ Tail(todo) \in Seq(Job) /\ Once(Head(todo), k) \in {0, 1}
         /\ Occurrences(todo, k) = Once(Head(todo), k) + Occurrences(Tail(todo), k)
         /\ Occurrences(Append(kept, Head(todo)), k) = Occurrences(kept, k) + Once(Head(todo), k)
         /\ Occurrences(kept, k) \in Nat /\ Occurrences(Tail(todo), k) \in Nat
<1>1. /\ todo \in Seq(Job) /\ kept \in Seq(Job) /\ Head(todo) \in Job /\ Tail(todo) \in Seq(Job)
      /\ <<Head(todo)>> \in Seq(Job)
  BY HeadTailProperties DEF IInv, TypeOK, LoopType
<1>2. Append(kept, Head(todo)) = kept \o <<Head(todo)>>
  BY <1>1, AppendIsConcat
<1>3. Occurrences(kept \o <<Head(todo)>>, k) = Occurrences(kept, k) + Occurrences(<<Head(todo)>>, k)
  BY <1>1, OccurrencesConcat, Zenon
<1>4. Occurrences(<<Head(todo)>>, k) = Once(Head(todo), k)
  BY <1>1, OccurrencesSingle
<1>5. Occurrences(todo, k) = Once(Head(todo), k) + Occurrences(Tail(todo), k)
  BY <1>1, OccurrencesTail
<1>6. Occurrences(kept, k) \in Nat /\ Occurrences(Tail(todo), k) \in Nat
  BY <1>1, OccurrencesType
<1>. QED
  BY <1>1, <1>2, <1>3, <1>4, <1>5, <1>6 DEF Once

\* The pass keeps a spec for the next pass.
LEMMA KeepHeadTickets ==
  ASSUME IInv, TicketsHold, NoCandidate \/ ReserveRefused
  PROVE  TicketsHold'
<1>1. KeepHead /\ todo # <<>> /\ LockHeld /\ NoBreak
  BY DEF NoCandidate, ReserveRefused, IInv, Holds, PassHolds, LockHeld, NoBreak, Bound
<1>2. LockHeld' /\ Known' = Known
  BY <1>1, PhaseKnown DEF KeepHead, LockHeld, registryVars
<1>3. ASSUME NEW j \in Job PROVE Waiting(j)' = Waiting(j) /\ InHand(j)' = InHand(j)
  <2>1. InHand(j)' = Occurrences(Append(kept, Head(todo)), j) + Occurrences(Tail(todo), j)
    BY <1>1, <1>2 DEF InHand, KeepHead, Occurrences
  <2>2. InHand(j) = Occurrences(kept, j) + Occurrences(todo, j)
    BY <1>1 DEF InHand
  <2>3. InHand(j)' = InHand(j)
    BY <1>1, <2>1, <2>2, HeadOfPass DEF Once
  <2>. QED
    BY <1>1, <2>3 DEF KeepHead, Waiting
<1>4. TicketsStay
  BY <1>1, <1>2, <1>3 DEF KeepHead, registryVars, TicketsStay
<1>. QED
  BY <1>1, <1>4, QuietTickets

\* A pass starts with the whole queue in its hands.
LEMMA BeginPassTickets ==
  ASSUME IInv, TicketsHold, BeginPass
  PROVE  TicketsHold'
<1>1. ~LockHeld /\ Known' = Known /\ NoBreak
  BY PhaseKnown DEF BeginPass, LockHeld, registryVars, NoBreak
<1>2. ASSUME NEW j \in Job PROVE Waiting(j)' = Waiting(j) /\ InHand(j)' = InHand(j)
  <2>1. InHand(j) = Occurrences(queue, j) /\ Occurrences(queue, j) \in Nat
    BY <1>1, OccurrencesType DEF InHand, IInv, TypeOK, QueueType
  <2>2. Occurrences(<<>>, j) = 0
    BY OccurrencesSingle
  <2>3. InHand(j)' = IF LockHeld' THEN Occurrences(<<>>, j) + Occurrences(queue, j)
                     ELSE Occurrences(queue, j)
    BY DEF InHand, BeginPass, Occurrences
  <2>4. InHand(j)' = InHand(j)
    BY <2>1, <2>2, <2>3
  <2>. QED
    BY <2>4 DEF BeginPass, Waiting
<1>3. TicketsStay
  BY <1>1, <1>2 DEF BeginPass, registryVars, TicketsStay
<1>. QED
  BY <1>1, <1>3, QuietTickets

\* A confirmed spec leaves the hands of the pass for a dispatch task.
LEMMA ConfirmedTickets ==
  ASSUME IInv, TicketsHold, Confirmed
  PROVE  TicketsHold'
<1>. SUFFICES ASSUME NEW k \in Job PROVE (IsFiniteSet(Waiting(k)) /\ JobAccount(k))'
  BY DEF TicketsHold
<1>. DEFINE o == Once(Head(todo), k)
<1>1. todo # <<>> /\ LockHeld /\ LockHeld' /\ Known' = Known
  BY PhaseKnown DEF Confirmed, IInv, Holds, PassHolds, LockHeld, registryVars
<1>2. LineStays
  <2>1. PICK s \in Slot : /\ coro[s].at = "idle"
                          /\ coro' = [coro EXCEPT ![s] = [at |-> "dispatch", job |-> Head(todo), worker |-> pick]]
    BY DEF Confirmed, FreeSlots
  <2>2. [at |-> "dispatch", job |-> Head(todo), worker |-> pick].at # "lock" /\ s \in Actor
    BY DEF Actor
  <2>. QED
    BY <2>1, <2>2 DEF LineStays
<1>3. Waiting(k)' = Waiting(k)
  BY <1>2, WaitingStays DEF LineStays, Waiting
<1>4. /\ InHand(k) = Occurrences(kept, k) + Occurrences(todo, k)
      /\ InHand(k)' = Occurrences(kept, k) + Occurrences(Tail(todo), k)
  BY <1>1 DEF InHand, Confirmed, Occurrences
<1>5. InHand(k) >= o /\ InHand(k)' = InHand(k) - o /\ o \in {0, 1}
  BY <1>1, <1>4, HeadOfPass DEF Once
<1>6. dispatches'[k] = dispatches[k] + o
  <2>1. Head(todo) \in Job
    BY <1>1, HeadOfPass
  <2>. QED
    BY <2>1 DEF Confirmed, IInv, TypeOK, CountType, Once
<1>7. Account(Occurrences(queue, k), InHand(k) - o, dispatches[k] + o, Waiters(k), Allowed(k),
              spent["dbErrors"], spent["breaks"])
  BY <1>5, JobAccountSteps DEF Moves
<1>8. /\ Waiters(k)' = Waiters(k) /\ Allowed(k)' = Allowed(k) /\ spent' = spent
      /\ Occurrences(queue, k)' = Occurrences(queue, k) /\ IsFiniteSet(Waiting(k)')
  BY <1>1, <1>3 DEF Confirmed, registryVars, Waiters, Allowed, Occurrences, TicketsHold
<1>. QED
  BY <1>5, <1>6, <1>7, <1>8 DEF JobAccount

\* A pass that ends leaves in the queue what it did not give away; one that a database
\* error aborts leaves the queue as it found it.
LEMMA PassEndsTickets ==
  ASSUME IInv, TicketsHold, EndPass \/ PassFails
  PROVE  TicketsHold'
<1>. SUFFICES ASSUME NEW k \in Job PROVE (IsFiniteSet(Waiting(k)) /\ JobAccount(k))'
  BY DEF TicketsHold
<1>1. LockHeld /\ ~LockHeld' /\ Known' = Known /\ UNCHANGED <<coro, dispatches, retries>>
  BY PhaseKnown DEF EndPass, PassFails, LockHeld, registryVars
<1>2. /\ Waiting(k)' = Waiting(k) /\ Waiters(k)' = Waiters(k) /\ Allowed(k)' = Allowed(k)
      /\ IsFiniteSet(Waiting(k)')
  BY <1>1 DEF Waiting, Waiters, Allowed, TicketsHold
<1>3. InHand(k) = Occurrences(kept, k) + Occurrences(todo, k) /\ InHand(k)' = Occurrences(queue, k)'
  BY <1>1 DEF InHand
<1>4. CASE EndPass
  <2>1. Occurrences(queue, k)' = InHand(k)
    <3>1. Occurrences(queue, k)' = Occurrences(kept, k) /\ todo = <<>>
      BY <1>4 DEF EndPass, Occurrences
    <3>2. Occurrences(<<>>, k) = 0 /\ Occurrences(kept, k) \in Nat
      BY OccurrencesSingle, OccurrencesType DEF IInv, TypeOK, LoopType
    <3>. QED
      BY <1>3, <3>1, <3>2
  <2>2. Account(InHand(k), InHand(k), dispatches[k], Waiters(k), Allowed(k),
                spent["dbErrors"], spent["breaks"])
    BY JobAccountSteps DEF Moves
  <2>. QED
    BY <1>1, <1>2, <1>3, <1>4, <2>1, <2>2 DEF EndPass, JobAccount
<1>5. CASE PassFails
  <2>1. spent'["dbErrors"] = spent["dbErrors"] + 1 /\ spent'["breaks"] = spent["breaks"]
    <3>1. /\ spent'["dbErrors"] = spent["dbErrors"] + Once("dbErrors", "dbErrors")
          /\ spent'["breaks"] = spent["breaks"] + Once("dbErrors", "breaks")
      BY <1>5, SpendCounts DEF PassFails, Bound
    <3>. QED
      BY <3>1, EntriesType DEF Once, TicketsHold
  <2>2. Occurrences(queue, k)' = Occurrences(queue, k)
    BY <1>5 DEF PassFails, Occurrences
  <2>3. Account(Occurrences(queue, k), Occurrences(queue, k), dispatches[k], Waiters(k), Allowed(k),
                spent["dbErrors"] + 1, spent["breaks"])
    BY JobAccountSteps DEF Moves
  <2>. QED
    BY <1>1, <1>2, <1>3, <2>1, <2>2, <2>3 DEF JobAccount
<1>. QED
  BY <1>4, <1>5

\* Every step of the scheduler's coroutine keeps the accounts.
LEMMA LoopTickets ==
  ASSUME IInv, KnownHolds, TicketsHold, LoopStep
  PROVE  TicketsHold'
<1>1. CASE CheckHealth
  <2>1. /\ UNCHANGED <<queue, todo, kept, dispatches, retries>> /\ LockHeld' = LockHeld
        /\ Known' = Known /\ LineStays /\ NoBreak
    BY <1>1, PhaseKnown DEF CheckHealth, LockHeld, registryVars, LineStays, NoBreak
  <2>. QED
    BY <2>1, FrameTickets, QuietTickets
<1>2. CASE ReserveGranted
  <2>1. todo # <<>> /\ Head(todo) \in Known
    BY <1>2, HeadTailProperties DEF ReserveGranted, IInv, Holds, PassHolds, KnownHolds, Within, QueueWithin
  <2>2. /\ UNCHANGED <<queue, todo, kept, dispatches, retries>> /\ LockHeld' = LockHeld
        /\ Known' = Known /\ LineStays /\ NoBreak
    BY <1>2, <2>1, PhaseKnown DEF ReserveGranted, Known, LockHeld, LineStays, NoBreak
  <2>. QED
    BY <2>2, FrameTickets, QuietTickets
<1>3. ASSUME NEW w \in Worker, FailoverWorker(w) PROVE TicketsHold'
  <2>1. LineStays
    <3>1. [at |-> "release", job |-> wjob[w], worker |-> w].at # "lock" /\ Loop \in Actor
      BY DEF Actor
    <3>2. coro[Loop].at # "lock"
      BY <1>3 DEF FailoverWorker
    <3>. QED
      BY <1>3, <3>1, <3>2 DEF FailoverWorker, LineStays
  <2>2. /\ UNCHANGED <<queue, todo, kept, dispatches, retries>> /\ LockHeld' = LockHeld
        /\ Known' = Known /\ NoBreak
    BY <1>3, PhaseKnown DEF FailoverWorker, LockHeld, registryVars, NoBreak
  <2>. QED
    BY <2>1, <2>2, FrameTickets, QuietTickets
<1>4. ASSUME NEW w \in Worker, SelectWorker(w) PROVE TicketsHold'
  <2>1. /\ UNCHANGED <<queue, todo, kept, dispatches, retries>> /\ LockHeld' = LockHeld
        /\ Known' = Known /\ LineStays /\ NoBreak
    BY <1>4, PhaseKnown DEF SelectWorker, LockHeld, registryVars, LineStays, NoBreak
  <2>. QED
    BY <2>1, FrameTickets, QuietTickets
<1>. QED
  BY <1>1, <1>2, <1>3, <1>4, BeginPassTickets, KeepHeadTickets, ConfirmedTickets, PassEndsTickets
     DEF LoopStep

----------------------------------------------------------------------------
(* The steps of the other coroutines *)

\* Inductive: the failure handler of the loop itself ended before a pass began.
LoopWaits == LockHeld => coro[Loop].at = "idle"

\* The steps of the scheduler begin a pass only then.
LEMMA LoopLoopWaits ==
  ASSUME IInv, LoopWaits, LoopStep
  PROVE  LoopWaits'
<1>1. CASE UNCHANGED coro /\ (LockHeld' => LockHeld)
  BY <1>1 DEF LoopWaits
<1>2. CASE BeginPass
  BY <1>2 DEF BeginPass, LoopWaits
<1>3. CASE Confirmed
  <2>1. PICK s \in Slot : coro' = [coro EXCEPT ![s] = [at |-> "dispatch", job |-> Head(todo), worker |-> pick]]
    BY <1>3 DEF Confirmed, FreeSlots
  <2>2. s # Loop
    BY ActorAssumption
  <2>3. coro'[Loop] = coro[Loop]
    BY <2>1, <2>2 DEF IInv, TypeOK, CoroutineType, Actor
  <2>. QED
    BY <1>3, <2>3 DEF Confirmed, LockHeld, LoopWaits
<1>4. CASE \E w \in Worker : FailoverWorker(w)
  BY <1>4 DEF FailoverWorker, LockHeld, LoopWaits
<1>. QED
  BY <1>1, <1>2, <1>3, <1>4 DEF LoopStep, CheckHealth, NoCandidate, ReserveRefused, KeepHead,
     ReserveGranted, PassFails, EndPass, SelectWorker, LockHeld

\* No other coroutine moves that of the loop.
LEMMA NextLoopWaits == IInv /\ LoopWaits /\ [Next]_vars => LoopWaits'
<1>. SUFFICES ASSUME IInv, LoopWaits, [Next]_vars PROVE LoopWaits'
  OBVIOUS
<1>1. CASE UNCHANGED <<coro, pc>>
  BY <1>1 DEF LoopWaits, LockHeld
<1>2. ASSUME UNCHANGED pc, NEW c \in Actor, c = Loop => coro[c].at # "idle",
             NEW r, coro' = [coro EXCEPT ![c] = r]
      PROVE  LoopWaits'
  <2>1. Loop # c => coro'[Loop] = coro[Loop]
    BY <1>2 DEF IInv, TypeOK, CoroutineType, Actor
  <2>. QED
    BY <1>2, <2>1 DEF LoopWaits, LockHeld
<1>3. CASE LockGranted
  <2>1. \A c \in Actor : coro'[c] = coro[c] \/ coro'[c] = Idle
    BY <1>3 DEF LockGranted, IInv, TypeOK, CoroutineType
  <2>. QED
    BY <1>3, <2>1 DEF LockGranted, loopVars, LoopWaits, LockHeld, Idle, Actor
<1>4. ASSUME NEW j \in Job, CreateJob(j) PROVE LoopWaits'
  <2>1. j \in Actor /\ j # Loop /\ UNCHANGED pc /\ \E r : coro' = [coro EXCEPT ![j] = r]
    BY <1>4, ActorAssumption DEF CreateJob, Submit, Actor, loopVars
  <2>. QED
    BY <1>2, <2>1
<1>5. ASSUME NEW c \in Actor, HandleFailure(c) PROVE LoopWaits'
  <2>1. coro[c].at # "idle" /\ UNCHANGED pc /\ \E r : coro' = [coro EXCEPT ![c] = r]
    BY <1>5 DEF HandleFailure, Submit, loopVars
  <2>. QED
    BY <1>2, <2>1
<1>6. ASSUME NEW c \in Actor, ReleaseFails(c) PROVE LoopWaits'
  <2>1. coro[c].at # "idle" /\ \E r : coro' = [coro EXCEPT ![c] = r]
    BY <1>6 DEF ReleaseFails
  <2>2. CASE c # Loop
    BY <1>2, <1>6, <2>1, <2>2 DEF ReleaseFails
  <2>3. CASE c = Loop
    BY <1>6, <2>3 DEF ReleaseFails, LoopWaits, LockHeld
  <2>. QED
    BY <2>2, <2>3
<1>7. ASSUME NEW s \in Slot, DispatchStep(s) PROVE LoopWaits'
  <2>1. s \in Actor /\ s # Loop /\ UNCHANGED pc /\ \E r : coro' = [coro EXCEPT ![s] = r]
    BY <1>7, ActorAssumption DEF DispatchStep, DispatchRemote, LocalCompletes, LocalFails,
       StartFailing, Actor, loopVars
  <2>. QED
    BY <1>2, <2>1
<1>8. ASSUME NEW w \in Worker, ReaderStep(w) \/ WorkerStep(w) \/ NetStep(w) PROVE LoopWaits'
  <2>1. w \in Actor /\ w # Loop
    BY ActorAssumption DEF Actor
  <2>2. UNCHANGED pc /\ (UNCHANGED coro \/ \E r : coro' = [coro EXCEPT ![w] = r])
    BY <1>8 DEF ReaderStep, ReadRegister, RegisterWorker, ReadHeartbeat, ReadProgress, ReadCompleted,
       ReadFailed, StartFailing, WorkerStep, ReceiveTask, ReportProgress, ReportResult, NetStep,
       Connect, WorkerCrashes, StreamBreaks, CloseStream, HeartbeatAges, ReaderFails, loopVars
  <2>. QED
    BY <1>1, <1>2, <2>1, <2>2
<1>. QED
  BY <1>1, <1>3, <1>4, <1>5, <1>6, <1>7, <1>8, LoopLoopWaits DEF Next, vars, loopVars

\* The oldest waiter moves its job from the line into the queue.
LEMMA LockGrantedTickets ==
  ASSUME IInv, KnownHolds, TicketsHold, LockGranted
  PROVE  TicketsHold'
<1>. SUFFICES ASSUME NEW k \in Job PROVE (IsFiniteSet(Waiting(k)) /\ JobAccount(k))'
  BY DEF TicketsHold
<1>. DEFINE c == Head(lockq)
            j == coro[c].job
            o == Once(j, k)
<1>1. c \in Actor /\ coro[c].at = "lock"
  <2>1. lockq # <<>> /\ lockq \in Seq(Actor) /\ Len(lockq) \in Nat /\ Len(lockq) > 0 /\ c = lockq[1]
        /\ DOMAIN lockq = 1..Len(lockq)
    BY LenProperties, EmptySeq DEF LockGranted, IInv, TypeOK, QueueType
  <2>. QED
    BY <2>1, HeadTailProperties DEF IInv, Holds, LineHolds
<1>2. j \in Job /\ j \in Known /\ o \in {0, 1}
  BY <1>1, CoroutineKnown, JobAssumption DEF IInv, Holds, CoroutineHolds, Once
<1>3. Known' = Known /\ ~LockHeld /\ ~LockHeld' /\ UNCHANGED <<dispatches, retries, spent>>
  BY <1>2, PhaseKnown DEF LockGranted, Known, LockHeld, loopVars
<1>4. /\ queue' = Enqueued(c, j) /\ coro' = [coro EXCEPT ![c] = Idle] /\ Idle.at # "lock"
  BY DEF LockGranted, Idle
<1>5. IsFiniteSet(Waiting(k)) /\ Cardinality(Waiting(k)) \in Nat
  BY FS_CardinalityType DEF TicketsHold
<1>6. Waiting(k)' = Waiting(k) \ {c}
  <2>1. Waiting(k)' = (Waiting(k) \ {c}) \cup (IF Idle.at = "lock" /\ Idle.job = k THEN {c} ELSE {})
    BY <1>1, <1>4, WaitingMoves
  <2>. QED
    BY <1>4, <2>1
<1>7. /\ IsFiniteSet(Waiting(k)') /\ Cardinality(Waiting(k)') = Cardinality(Waiting(k)) - o
      /\ Cardinality(Waiting(k)) >= o
  <2>1. CASE j = k
    <3>1. c \in Waiting(k) /\ o = 1
      BY <1>1, <2>1 DEF Waiting, Once
    <3>2. Cardinality(Waiting(k) \ {c}) \in Nat /\ IsFiniteSet(Waiting(k) \ {c})
      BY <1>5, FS_RemoveElement, FS_CardinalityType
    <3>. QED
      BY <1>5, <1>6, <3>1, <3>2, FS_RemoveElement
  <2>2. CASE j # k
    <3>1. c \notin Waiting(k) /\ o = 0
      BY <2>2 DEF Waiting, Once
    <3>2. Waiting(k)' = Waiting(k)
      BY <1>6, <3>1
    <3>. QED
      BY <1>5, <3>1, <3>2
  <2>. QED
    BY <2>1, <2>2
<1>8. Waiters(k)' = Waiters(k) - o /\ Waiters(k) >= o /\ Allowed(k)' = Allowed(k)
  BY <1>3, <1>7 DEF Waiters, Allowed
<1>9. Occurrences(queue, k)' = Occurrences(queue, k) + o
  <2>1. Occurrences(queue, k)' = Occurrences(queue', k)
    BY DEF Occurrences
  <2>. QED
    BY <1>1, <1>2, <1>4, <2>1, OccurrencesEnqueued
<1>10. InHand(k) = Occurrences(queue, k) /\ InHand(k)' = InHand(k) + o
  BY <1>3, <1>9 DEF InHand
<1>11. Account(Occurrences(queue, k) + o, InHand(k) + o, dispatches[k], Waiters(k) - o, Allowed(k),
               spent["dbErrors"], spent["breaks"])
  BY <1>2, <1>8, <1>10, JobAccountSteps DEF Moves
<1>. QED
  BY <1>3, <1>7, <1>8, <1>9, <1>10, <1>11 DEF JobAccount

\* A new job may be dispatched once.
LEMMA CreateJobTickets ==
  ASSUME IInv, TicketsHold, NEW j \in Job, CreateJob(j)
  PROVE  TicketsHold'
<1>1. Known' = Known \cup {j} /\ j \notin Known /\ j \in Actor /\ coro[j].at # "lock"
  BY PhaseKnown DEF CreateJob, Known, Actor
<1>2. Submit(j, j) /\ UNCHANGED <<todo, kept, pc, dispatches, spent, retries>>
  BY DEF CreateJob, loopVars
<1>3. \A k \in Job : Allowed(k)' = Allowed(k) + Once(j, k)
  <2>. SUFFICES ASSUME NEW k \in Job PROVE Allowed(k)' = Allowed(k) + Once(j, k)
    OBVIOUS
  <2>1. retries[k] \in Nat
    BY DEF IInv, TypeOK, RegistryType
  <2>. QED
    BY <1>1, <1>2, <2>1 DEF Allowed, Once
<1>. QED
  BY <1>1, <1>2, <1>3, SubmitTickets

\* A retry may be dispatched once more; giving up changes nothing.
LEMMA HandleFailureTickets ==
  ASSUME IInv, KnownHolds, TicketsHold, NEW c \in Actor, HandleFailure(c)
  PROVE  TicketsHold'
<1>. DEFINE j == coro[c].job
<1>1. j \in Job /\ j \in Known /\ coro[c].at = "release"
  BY CoroutineKnown, JobAssumption DEF HandleFailure, IInv, Holds, CoroutineHolds
<1>2. \/ phase' = phase \/ phase' = [phase EXCEPT ![j] = "PENDING"]
      \/ phase' = [phase EXCEPT ![j] = "FAILED"]
  BY DEF HandleFailure
<1>3. Known' = Known
  BY <1>1, <1>2, PhaseKnown
<1>4. UNCHANGED <<todo, kept, pc, dispatches, spent>>
  BY DEF HandleFailure, loopVars
<1>5. CASE CanRetry(j)
  <2>1. Submit(c, j) /\ retries' = [retries EXCEPT ![j] = retries[j] + 1]
    BY <1>5 DEF HandleFailure
  <2>2. \A k \in Job : Allowed(k)' = Allowed(k) + Once(j, k)
    BY <1>1, <1>3, <2>1 DEF Allowed, Once, IInv, TypeOK, RegistryType
  <2>. QED
    BY <1>1, <1>4, <2>1, <2>2, SubmitTickets
<1>6. CASE ~CanRetry(j)
  <2>1. coro' = [coro EXCEPT ![c] = Idle] /\ UNCHANGED <<queue, retries>>
    BY <1>6 DEF HandleFailure
  <2>2. LineStays /\ NoBreak
    <3>1. coro[c].at # "lock" /\ Idle.at # "lock"
      BY <1>1 DEF Idle
    <3>2. LineStays
      BY <2>1, <3>1 DEF LineStays
    <3>. QED
      BY <1>4, <3>2 DEF NoBreak
  <2>3. LockHeld' = LockHeld
    BY <1>4 DEF LockHeld
  <2>. QED
    BY <1>3, <1>4, <2>1, <2>2, <2>3, FrameTickets, QuietTickets
<1>. QED
  BY <1>5, <1>6

\* A release that raises queues nothing.
LEMMA ReleaseFailsTickets ==
  ASSUME IInv, LoopWaits, TicketsHold, NEW c \in Actor, ReleaseFails(c)
  PROVE  TicketsHold'
<1>1. LineStays
  <2>. DEFINE r == IF c \in Worker THEN [Idle EXCEPT !.at = "dead"] ELSE Idle
  <2>1. r.at # "lock" /\ coro' = [coro EXCEPT ![c] = r] /\ coro[c].at # "lock"
    BY DEF ReleaseFails, Idle
  <2>. HIDE DEF r
  <2>. QED
    BY <2>1 DEF LineStays
<1>2. UNCHANGED <<queue, todo, kept, dispatches, retries>> /\ Known' = Known /\ NoBreak
  BY PhaseKnown DEF ReleaseFails, registryVars, NoBreak, Bound
<1>3. LockHeld' = LockHeld
  <2>1. c = Loop => ~LockHeld
    BY DEF ReleaseFails, LoopWaits
  <2>. QED
    BY <2>1 DEF ReleaseFails, LockHeld
<1>. QED
  BY <1>1, <1>2, <1>3, FrameTickets, QuietTickets

\* A dispatch and a report queue nothing themselves.
LEMMA DispatchTickets ==
  ASSUME IInv, KnownHolds, TicketsHold, NEW s \in Slot, DispatchStep(s)
  PROVE  TicketsHold'
<1>1. coro[s].at = "dispatch" /\ s \in Actor /\ coro[s].job \in Known /\ coro[s].worker \in Worker
  BY CoroutineKnown, JobAssumption DEF DispatchStep, DispatchRemote, LocalCompletes, LocalFails, IInv,
     Holds, CoroutineHolds, Actor
<1>2. LineStays
  <2>1. /\ Idle.at # "lock"
        /\ [at |-> "release", job |-> coro[s].job, worker |-> coro[s].worker].at # "lock"
    BY DEF Idle
  <2>. QED
    BY <1>1, <2>1 DEF DispatchStep, DispatchRemote, LocalCompletes, LocalFails, StartFailing, LineStays
<1>3. /\ UNCHANGED <<queue, todo, kept, pc, dispatches, retries, spent>>
      /\ UNCHANGED phase \/ TaskCompleted(coro[s].job, coro[s].worker)
  BY DEF DispatchStep, DispatchRemote, LocalCompletes, LocalFails, TaskCompleted, loopVars, registryVars
<1>4. Known' = Known
  BY <1>1, <1>3, PhaseKnown, TaskCompletedKnown
<1>5. NoBreak /\ LockHeld' = LockHeld
  BY <1>3 DEF NoBreak, LockHeld
<1>. QED
  BY <1>2, <1>3, <1>4, <1>5, FrameTickets, QuietTickets

LEMMA ReaderTickets ==
  ASSUME IInv, KnownHolds, TicketsHold, NEW w \in Worker, ReaderStep(w)
  PROVE  TicketsHold'
<1>1. UNCHANGED <<queue, todo, kept, pc, dispatches, retries, spent>>
  BY DEF ReaderStep, ReadRegister, RegisterWorker, ReadHeartbeat, ReadProgress, ReadCompleted,
     ReadFailed, TaskCompleted, loopVars, registryVars
<1>2. LineStays
  <2>1. /\ Idle.at # "lock" /\ [Idle EXCEPT !.at = "register"].at # "lock" /\ w \in Actor
        /\ \A j : [at |-> "release", job |-> j, worker |-> w].at # "lock"
    BY DEF Idle, Actor
  <2>2. CASE ReadRegister(w)
    BY <2>1, <2>2 DEF ReadRegister, NextMessage, LineStays
  <2>3. CASE RegisterWorker(w)
    BY <2>1, <2>3 DEF RegisterWorker, LineStays
  <2>4. CASE ReadFailed(w)
    BY <2>1, <2>4 DEF ReadFailed, NextMessage, StartFailing, LineStays
  <2>5. CASE ReadHeartbeat(w) \/ ReadProgress(w) \/ ReadCompleted(w)
    BY <2>5 DEF ReadHeartbeat, ReadProgress, ReadCompleted, LineStays
  <2>. QED
    BY <2>2, <2>3, <2>4, <2>5 DEF ReaderStep
<1>3. Known' = Known
  <2>1. CASE ReadProgress(w)
    <3>1. Head(out[w]).job \in Known
      BY <2>1, ReportedKnown DEF ReadProgress
    <3>. QED
      BY <2>1, <3>1, PhaseKnown DEF ReadProgress, Known
  <2>2. CASE ReadCompleted(w)
    <3>1. Head(out[w]).job \in Known
      BY <2>2, ReportedKnown DEF ReadCompleted
    <3>. QED
      BY <2>2, <3>1, TaskCompletedKnown DEF ReadCompleted
  <2>3. CASE ReadRegister(w) \/ RegisterWorker(w) \/ ReadHeartbeat(w) \/ ReadFailed(w)
    BY <2>3, PhaseKnown DEF ReadRegister, RegisterWorker, ReadHeartbeat, ReadFailed, registryVars
  <2>. QED
    BY <2>1, <2>2, <2>3 DEF ReaderStep
<1>4. NoBreak /\ LockHeld' = LockHeld
  BY <1>1 DEF NoBreak, LockHeld
<1>. QED
  BY <1>1, <1>2, <1>3, <1>4, FrameTickets, QuietTickets

\* A stream that closes takes its reader out of the line, the ticket with it.
LEMMA CloseStreamTickets ==
  ASSUME IInv, TicketsHold, NEW w \in Worker, CloseStream(w)
  PROVE  TicketsHold'
<1>. SUFFICES ASSUME NEW k \in Job PROVE (IsFiniteSet(Waiting(k)) /\ JobAccount(k))'
  BY DEF TicketsHold
<1>. DEFINE o == IF w \in Waiting(k) THEN 1 ELSE 0
<1>1. IsFiniteSet(Waiting(k)) /\ Cardinality(Waiting(k)) \in Nat /\ o \in {0, 1} /\ w \in Actor
  BY FS_CardinalityType DEF TicketsHold, Actor
<1>2. /\ UNCHANGED <<queue, todo, kept, pc, dispatches, retries>> /\ Known' = Known
      /\ coro' = [coro EXCEPT ![w] = Idle] /\ Idle.at # "lock"
  BY PhaseKnown DEF CloseStream, loopVars, registryVars, Idle
<1>3. Waiting(k)' = Waiting(k) \ {w}
  <2>1. Waiting(k)' = (Waiting(k) \ {w}) \cup (IF Idle.at = "lock" /\ Idle.job = k THEN {w} ELSE {})
    BY <1>1, <1>2, WaitingMoves
  <2>. QED
    BY <1>2, <2>1
<1>4. /\ IsFiniteSet(Waiting(k)') /\ Cardinality(Waiting(k)') = Cardinality(Waiting(k)) - o
      /\ Cardinality(Waiting(k)) >= o
  <2>1. CASE w \in Waiting(k)
    <3>1. Cardinality(Waiting(k) \ {w}) \in Nat /\ IsFiniteSet(Waiting(k) \ {w})
      BY <1>1, FS_RemoveElement, FS_CardinalityType
    <3>. QED
      BY <1>1, <1>3, <2>1, <3>1, FS_RemoveElement
  <2>2. CASE w \notin Waiting(k)
    <3>1. Waiting(k)' = Waiting(k)
      BY <1>3, <2>2
    <3>. QED
      BY <1>1, <2>2, <3>1
  <2>. QED
    BY <2>1, <2>2
<1>5. spent'["dbErrors"] = spent["dbErrors"] /\ spent'["breaks"] = spent["breaks"] + 1
  <2>1. /\ spent'["dbErrors"] = spent["dbErrors"] + Once("breaks", "dbErrors")
        /\ spent'["breaks"] = spent["breaks"] + Once("breaks", "breaks")
    BY SpendCounts DEF CloseStream, Bound
  <2>. QED
    BY <1>1, <2>1, EntriesType DEF Once
<1>6. /\ Waiters(k)' = Waiters(k) - o /\ Waiters(k) >= o /\ Allowed(k)' = Allowed(k)
      /\ Occurrences(queue, k)' = Occurrences(queue, k) /\ InHand(k)' = InHand(k)
  BY <1>2, <1>4 DEF Waiters, Allowed, Occurrences, InHand, LockHeld
<1>. HIDE DEF o
<1>7. Account(Occurrences(queue, k), InHand(k), dispatches[k], Waiters(k) - o, Allowed(k),
              spent["dbErrors"], spent["breaks"] + 1)
  BY <1>1, <1>6, JobAccountSteps DEF Moves
<1>. QED
  BY <1>2, <1>4, <1>5, <1>6, <1>7 DEF JobAccount

\* Neither the workers nor the connections queue anything.
LEMMA NetTickets ==
  ASSUME IInv, TicketsHold, NEW w \in Worker, WorkerStep(w) \/ NetStep(w)
  PROVE  TicketsHold'
<1>1. CASE \E lost \in 0..Len(out[w]) : WorkerCrashes(w) \/ StreamBreaks(w, lost)
  BY <1>1, CloseStreamTickets DEF WorkerCrashes, StreamBreaks
<1>2. CASE ReaderFails(w)
  <2>1. LineStays
    <3>. DEFINE r == [Idle EXCEPT !.at = "dead"]
    <3>1. r.at # "lock" /\ coro' = [coro EXCEPT ![w] = r] /\ coro[w].at # "lock" /\ w \in Actor
      BY <1>2 DEF ReaderFails, Idle, Actor
    <3>. HIDE DEF r
    <3>. QED
      BY <3>1 DEF LineStays
  <2>2. /\ UNCHANGED <<queue, todo, kept, dispatches, retries>> /\ LockHeld' = LockHeld
        /\ Known' = Known /\ NoBreak
    BY <1>2, PhaseKnown DEF ReaderFails, loopVars, registryVars, LockHeld, NoBreak, Bound
  <2>. QED
    BY <2>1, <2>2, FrameTickets, QuietTickets
<1>3. CASE HeartbeatAges(w) \/ Connect(w) \/ WorkerStep(w)
  <2>1. /\ UNCHANGED <<queue, todo, kept, pc, coro, dispatches, retries, phase>>
        /\ UNCHANGED spent \/ Spend("lapses")
    BY <1>3 DEF HeartbeatAges, Connect, WorkerStep, ReceiveTask, ReportProgress, ReportResult,
       loopVars, registryVars
  <2>2. LockHeld' = LockHeld /\ Known' = Known /\ LineStays /\ NoBreak
    BY <2>1, PhaseKnown DEF LockHeld, LineStays, NoBreak, Bound
  <2>. QED
    BY <2>1, <2>2, FrameTickets, QuietTickets
<1>4. \/ \E lost \in 0..Len(out[w]) : WorkerCrashes(w) \/ StreamBreaks(w, lost)
      \/ ReaderFails(w) \/ HeartbeatAges(w) \/ Connect(w) \/ WorkerStep(w)
  <2>1. 0 \in 0..Len(out[w])
    BY LenProperties DEF IInv, TypeOK, NetType
  <2>. QED
    BY <2>1 DEF NetStep
<1>. QED
  BY <1>1, <1>2, <1>3, <1>4

\* Every step keeps the accounts.
LEMMA NextTickets == IInv /\ KnownHolds /\ LoopWaits /\ TicketsHold /\ [Next]_vars => TicketsHold'
<1>. SUFFICES ASSUME IInv, KnownHolds, LoopWaits, TicketsHold, [Next]_vars PROVE TicketsHold'
  OBVIOUS
<1>1. CASE UNCHANGED vars
  <2>1. /\ UNCHANGED <<queue, todo, kept, dispatches, retries>> /\ LockHeld' = LockHeld
        /\ Known' = Known /\ LineStays /\ NoBreak
    BY <1>1, PhaseKnown DEF vars, loopVars, registryVars, LockHeld, LineStays, NoBreak
  <2>. QED
    BY <2>1, FrameTickets, QuietTickets
<1>. QED
  BY <1>1, LoopTickets, LockGrantedTickets, CreateJobTickets, HandleFailureTickets,
     ReleaseFailsTickets, DispatchTickets, ReaderTickets, NetTickets DEF Next

----------------------------------------------------------------------------
(* The theorems *)

TInv == IInv /\ KnownHolds /\ LoopWaits /\ TicketsHold

\* The strengthened invariant holds in every state of every execution.
THEOREM TicketsInvariance == Spec => []TInv
<1>1. Init => TInv
  <2>1. Init => LoopWaits
    BY DEF Init, LoopWaits, LockHeld
  <2>. QED
    BY <2>1, InitInvariant, InitKnown, InitTickets DEF TInv
<1>2. TInv /\ [Next]_vars => TInv'
  BY NextInvariant, NextKnown, NextLoopWaits, NextTickets DEF TInv
<1>. QED
  BY <1>1, <1>2, PTL DEF Spec

\* The tickets of a job are what its account sums up.
LEMMA TicketsOfAccount ==
  ASSUME TInv, NEW j \in Job
  PROVE  Tickets(j) = dispatches[j] + InHand(j) + Waiters(j)
<1>1. kept \in Seq(Job) /\ todo \in Seq(Job)
  BY DEF TInv, IInv, TypeOK, LoopType
<1>2. Occurrences(kept \o todo, j) = Occurrences(kept, j) + Occurrences(todo, j)
  BY <1>1, OccurrencesConcat, Zenon
<1>3. Occurrences(Pending, j) = InHand(j)
  BY <1>2 DEF Pending, InHand
<1>. QED
  BY <1>3 DEF Tickets, Waiters, Waiting

\* However reports, timeouts, broken streams and database errors interleave with the
\* passes (scheduler.py:110-152), a job is queued and dispatched at most once more than
\* it was retried, and as often again only for passes that an error aborted.
THEOREM DispatchesBounded == Spec => []DispatchBudget
<1>1. TInv => DispatchBudget
  <2>. SUFFICES ASSUME TInv, NEW j \in Job
                PROVE  Tickets(j) <= (1 + retries[j]) * (1 + spent["dbErrors"])
    BY DEF DispatchBudget
  <2>1. /\ IsFiniteSet(Waiting(j)) /\ retries[j] \in Nat /\ Allowed(j) \in Nat
        /\ spent["dbErrors"] \in Nat
    BY EntriesType DEF TInv, TicketsHold, IInv, TypeOK, RegistryType
  <2>2. Tickets(j) <= Allowed(j) * (1 + spent["dbErrors"])
    BY TicketsOfAccount DEF TInv, TicketsHold, JobAccount, Account
  <2>3. Allowed(j) * (1 + spent["dbErrors"]) <= (1 + retries[j]) * (1 + spent["dbErrors"])
    <3>1. Allowed(j) = retries[j] \/ Allowed(j) = 1 + retries[j]
      BY <2>1 DEF Allowed
    <3>. QED
      BY <2>1, <3>1
  <2>4. Tickets(j) \in Nat
    BY <2>1, TicketsOfAccount, EntriesType DEF TInv
  <2>. QED
    BY <2>1, <2>2, <2>3, <2>4
<1>. QED
  BY <1>1, TicketsInvariance, PTL

\* While no stream broke and no database call raised, no submission is lost to the
\* assignment of remaining_queue (scheduler.py:152) and none is doubled: the first one
\* and every retry of a job is dispatched, pending or in line for the lock.
THEOREM NoTicketIsLost == Spec => []NoTicketLost
<1>1. TInv => NoTicketLost
  <2>. SUFFICES ASSUME TInv, spent["breaks"] = 0, spent["dbErrors"] = 0, NEW j \in Job, phase[j] # "none"
                PROVE  Tickets(j) = 1 + retries[j]
    BY DEF NoTicketLost
  <2>1. Tickets(j) = Allowed(j)
    BY TicketsOfAccount DEF TInv, TicketsHold, JobAccount, Account
  <2>2. retries[j] \in Nat /\ j \in Known
    BY DEF TInv, IInv, TypeOK, RegistryType, Known
  <2>. QED
    BY <2>1, <2>2 DEF Allowed
<1>. QED
  BY <1>1, TicketsInvariance, PTL

----------------------------------------------------------------------------
(* The order of the queue *)

\* A job that a client waits to insert is nowhere else under way.
Fresh == \A j \in Job : coro[j].at = "lock" => Within(Job \ {j})

\* The elements of s stand in q, in the same order.
Embedded(s, q) ==
  \E f \in [DOMAIN s -> DOMAIN q] : /\ \A i \in DOMAIN s : q[f[i]] = s[i]
                                    /\ \A i, k \in DOMAIN s : i < k => f[i] < f[k]

\* What a pass still owns are specs of the queue it started from, in its order.
PassInOrder == LockHeld => Embedded(kept \o todo, queue)

OrderHolds == Fresh /\ PassInOrder

\* A submitted job that comes back into the line is held up by its client only.
LEMMA NextFresh ==
  ASSUME IInv, KnownHolds, Fresh, [Next]_vars
  PROVE  Fresh'
<1>. SUFFICES ASSUME NEW j \in Job, coro'[j].at = "lock" PROVE Within(Job \ {j})'
  BY DEF Fresh
<1>. DEFINE K == Job \ {j}
<1>1. ClientsHold /\ (coro'[j] = coro[j] \/ CreateJob(j))
  BY NextClients DEF KnownHolds, Idle
<1>2. CASE CreateJob(j)
  <2>1. j \notin Known /\ Known \subseteq Job
    BY <1>2 DEF CreateJob, Known
  <2>2. Within(K)
    BY <2>1, WithinGrows DEF KnownHolds
  <2>3. /\ lockq # <<>> \/ LockHeld
        /\ UNCHANGED <<queue, todo, kept, wjob, wq, running, out>>
    BY <1>2 DEF CreateJob, Submit, Idle, loopVars, poolVars, netVars, IInv, TypeOK, CoroutineType, Actor
  <2>4. \E r : coro' = [coro EXCEPT ![j] = r]
    BY <1>2 DEF CreateJob, Submit
  <2>5. CoroutinesWithin(K)'
    <3>. HIDE DEF K
    <3>1. j \in Actor
      BY DEF Actor
    <3>. QED
      BY <2>2, <2>4, <3>1, CoroutineWithin
  <2>. QED
    BY <2>2, <2>3, <2>5, WithinFrame DEF Within
<1>3. CASE ~CreateJob(j)
  <2>1. coro[j].at = "lock" /\ Within(K)
    BY <1>1, <1>3 DEF Fresh
  <2>2. \A i \in Job : CreateJob(i) => i \in K
    BY <1>3
  <2>3. ASSUME LockGranted PROVE coro[Head(lockq)].job \in K
    <3>1. Head(lockq) \in Actor /\ coro[Head(lockq)].job \in Job
      BY <2>3, OldestWaiter
    <3>2. CASE Head(lockq) \in Job
      <4>1. coro[Head(lockq)].job = Head(lockq)
        BY <1>1, <3>1, <3>2, JobAssumption DEF ClientsHold
      <4>2. coro' = [coro EXCEPT ![Head(lockq)] = Idle]
        BY <2>3 DEF LockGranted
      <4>3. Head(lockq) # j
        BY <3>1, <4>2 DEF Idle, IInv, TypeOK, CoroutineType
      <4>. QED
        BY <3>1, <4>1, <4>3
    <3>3. CASE Head(lockq) \notin Job
      BY <2>1, <3>1, <3>3, JobAssumption DEF Within, CoroutinesWithin
    <3>. QED
      BY <3>2, <3>3
  <2>. HIDE DEF K
  <2>4. Within(K)'
    BY <1>1, <2>1, <2>2, <2>3, NextWithin
  <2>. QED
    BY <2>4 DEF K
<1>. QED
  BY <1>2, <1>3

\* The pass takes the head of what it has still to look at: the rest keeps its order.
LEMMA WithoutHead ==
  ASSUME NEW s \in Seq(Job), NEW t \in Seq(Job), t # <<>>
  PROVE  /\ s \o Tail(t) \in Seq(Job) /\ DOMAIN (s \o Tail(t)) = 1..Len(s) + Len(t) - 1
         /\ s \o t \in Seq(Job) /\ DOMAIN (s \o t) = 1..Len(s) + Len(t)
         /\ \A i \in 1..Len(s) + Len(t) - 1 :
              (s \o Tail(t))[i] = IF i <= Len(s) THEN (s \o t)[i] ELSE (s \o t)[i + 1]
<1>1. /\ Len(s) \in Nat /\ Len(t) \in Nat /\ Len(t) > 0
      /\ Tail(t) \in Seq(Job) /\ Len(Tail(t)) = Len(t) - 1
      /\ \A i \in 1..Len(Tail(t)) : Tail(t)[i] = t[i + 1]
  BY LenProperties, HeadTailProperties, EmptySeq
<1>2. /\ s \o t \in Seq(Job) /\ Len(s \o t) = Len(s) + Len(t)
      /\ \A i \in 1..Len(s) + Len(t) : (s \o t)[i] = IF i <= Len(s) THEN s[i] ELSE t[i - Len(s)]
  BY <1>1, ConcatProperties
<1>3. /\ s \o Tail(t) \in Seq(Job) /\ Len(s \o Tail(t)) = Len(s) + (Len(t) - 1)
      /\ \A i \in 1..Len(s) + (Len(t) - 1) :
           (s \o Tail(t))[i] = IF i <= Len(s) THEN s[i] ELSE Tail(t)[i - Len(s)]
  BY <1>1, ConcatProperties
<1>4. ASSUME NEW i \in 1..Len(s) + Len(t) - 1
      PROVE  (s \o Tail(t))[i] = IF i <= Len(s) THEN (s \o t)[i] ELSE (s \o t)[i + 1]
  <2>1. CASE i <= Len(s)
    BY <1>1, <1>2, <1>3, <2>1
  <2>2. CASE ~(i <= Len(s))
    <3>1. i - Len(s) \in 1..Len(Tail(t)) /\ (i - Len(s)) + 1 = (i + 1) - Len(s)
      BY <1>1, <2>2
    <3>2. (s \o Tail(t))[i] = Tail(t)[i - Len(s)]
      BY <1>1, <1>3, <2>2
    <3>3. Tail(t)[i - Len(s)] = t[(i + 1) - Len(s)]
      BY <1>1, <3>1
    <3>4. (s \o t)[i + 1] = t[(i + 1) - Len(s)]
      BY <1>1, <1>2, <2>2
    <3>. QED
      BY <2>2, <3>2, <3>3, <3>4
  <2>. QED
    BY <2>1, <2>2
<1>5. DOMAIN (s \o t) = 1..Len(s) + Len(t) /\ DOMAIN (s \o Tail(t)) = 1..Len(s) + Len(t) - 1
  BY <1>1, <1>2, <1>3, LenProperties
<1>. QED
  BY <1>2, <1>3, <1>4, <1>5

\* A sequence stands in itself.
LEMMA EmbeddedSelf ==
  ASSUME NEW s \in Seq(Job)
  PROVE  Embedded(s, s)
<1>. DEFINE f == [i \in DOMAIN s |-> i]
<1>1. f \in [DOMAIN s -> DOMAIN s] /\ (\A i \in DOMAIN s : s[f[i]] = s[i])
      /\ \A i, k \in DOMAIN s : i < k => f[i] < f[k]
  OBVIOUS
<1>. QED
  BY <1>1 DEF Embedded

\* Dropping one element keeps the order.
LEMMA EmbeddedWithoutHead ==
  ASSUME NEW s \in Seq(Job), NEW t \in Seq(Job), t # <<>>, NEW q, Embedded(s \o t, q)
  PROVE  Embedded(s \o Tail(t), q)
<1>. DEFINE n == Len(s) + Len(t)
            g == [i \in 1..n - 1 |-> IF i <= Len(s) THEN i ELSE i + 1]
<1>1. Len(s) \in Nat /\ Len(t) \in Nat
  BY LenProperties
<1>2. /\ DOMAIN (s \o t) = 1..n /\ DOMAIN (s \o Tail(t)) = 1..n - 1
      /\ \A i \in 1..n - 1 : (s \o Tail(t))[i] = (s \o t)[g[i]]
  BY WithoutHead
<1>3. /\ \A i \in 1..n - 1 : g[i] \in 1..n
      /\ \A i, k \in 1..n - 1 : i < k => g[i] < g[k]
  BY <1>1
<1>. HIDE DEF g, n
<1>4. PICK f \in [1..n -> DOMAIN q] : /\ \A i \in 1..n : q[f[i]] = (s \o t)[i]
                                      /\ \A i, k \in 1..n : i < k => f[i] < f[k]
  BY <1>2 DEF Embedded
<1>. DEFINE h == [i \in 1..n - 1 |-> f[g[i]]]
<1>5. h \in [1..n - 1 -> DOMAIN q]
  BY <1>3, <1>4
<1>6. \A i \in 1..n - 1 : q[h[i]] = (s \o Tail(t))[i]
  BY <1>2, <1>3, <1>4
<1>7. \A i, k \in 1..n - 1 : i < k => h[i] < h[k]
  BY <1>3, <1>4
<1>. HIDE DEF h
<1>. QED
  BY <1>2, <1>5, <1>6, <1>7 DEF Embedded

\* Dropping one element brings no job before another one.
LEMMA PrecedesWithoutHead ==
  ASSUME NEW s \in Seq(Job), NEW t \in Seq(Job), t # <<>>, NEW a, NEW b,
         Precedes(a, b, s \o Tail(t))
  PROVE  Precedes(a, b, s \o t)
<1>. DEFINE n == Len(s) + Len(t)
            g == [i \in 1..n - 1 |-> IF i <= Len(s) THEN i ELSE i + 1]
<1>1. Len(s) \in Nat /\ Len(t) \in Nat
  BY LenProperties
<1>2. /\ DOMAIN (s \o t) = 1..n /\ DOMAIN (s \o Tail(t)) = 1..n - 1
      /\ \A i \in 1..n - 1 : (s \o Tail(t))[i] = (s \o t)[g[i]]
  BY WithoutHead
<1>3. /\ \A i \in 1..n - 1 : g[i] \in 1..n
      /\ \A i, k \in 1..n - 1 : i < k => g[i] < g[k]
  BY <1>1
<1>. HIDE DEF g, n
<1>4. PICK i, k \in 1..n - 1 : i < k /\ (s \o Tail(t))[i] = a /\ (s \o Tail(t))[k] = b
  BY <1>2 DEF Precedes
<1>5. g[i] \in DOMAIN (s \o t) /\ g[k] \in DOMAIN (s \o t) /\ g[i] < g[k]
      /\ (s \o t)[g[i]] = a /\ (s \o t)[g[k]] = b
  BY <1>2, <1>3, <1>4
<1>. QED
  BY <1>5 DEF Precedes

\* A job that stands at two places occurs more than once.
LEMMA TwoPlaces ==
  ASSUME NEW s \in Seq(Job), NEW j, NEW i \in DOMAIN s, NEW k \in DOMAIN s, i # k, s[i] = j, s[k] = j
  PROVE  Occurrences(s, j) > 1
<1>1. IsFiniteSet(Places(s, j)) /\ Occurrences(s, j) = Cardinality(Places(s, j))
  BY OccurrencesType
<1>2. {i, k} \subseteq Places(s, j)
  BY DEF Places
<1>3. Cardinality({i, k}) = 2
  <2>1. IsFiniteSet({i}) /\ Cardinality({i}) = 1
    BY FS_Singleton
  <2>2. Cardinality({i} \cup {k}) = Cardinality({i}) + 1
    BY <2>1, FS_AddElement, Zenon
  <2>3. {i} \cup {k} = {i, k}
    OBVIOUS
  <2>. QED
    BY <2>1, <2>2, <2>3
<1>4. Cardinality({i, k}) <= Cardinality(Places(s, j))
  BY <1>1, <1>2, FS_Subset, Zenon
<1>5. Cardinality(Places(s, j)) \in Nat
  BY <1>1, FS_CardinalityType
<1>. QED
  BY <1>1, <1>3, <1>4, <1>5

\* Two orders of two jobs, in a sequence and in a part of it: one of them stands there twice.
LEMMA EmbeddedTwice ==
  ASSUME NEW q \in Seq(Job), NEW s, Embedded(s, q), NEW a, NEW b, a # b,
         Precedes(a, b, s), Precedes(b, a, q)
  PROVE  Occurrences(q, a) > 1 \/ Occurrences(q, b) > 1
<1>1. DOMAIN q = 1..Len(q) /\ Len(q) \in Nat
  BY LenProperties
<1>2. PICK i, k \in DOMAIN s : i < k /\ s[i] = a /\ s[k] = b
  BY DEF Precedes
<1>3. PICK f \in [DOMAIN s -> DOMAIN q] : /\ \A x \in DOMAIN s : q[f[x]] = s[x]
                                          /\ \A x, y \in DOMAIN s : x < y => f[x] < f[y]
  BY DEF Embedded
<1>4. f[i] \in DOMAIN q /\ f[k] \in DOMAIN q /\ f[i] < f[k] /\ q[f[i]] = a /\ q[f[k]] = b
  BY <1>2, <1>3
<1>5. PICK m, n \in DOMAIN q : m < n /\ q[m] = b /\ q[n] = a
  BY DEF Precedes
<1>6. CASE f[i] # n
  BY <1>4, <1>5, <1>6, TwoPlaces
<1>7. CASE f[i] = n
  <2>1. m # f[k]
    BY <1>1, <1>4, <1>5, <1>7
  <2>. QED
    BY <1>4, <1>5, <2>1, TwoPlaces
<1>. QED
  BY <1>6, <1>7

\* One insertion: a client's job, which stands nowhere in the queue, or a retry.
Inserts(c, j) == queue' = Enqueued(c, j) /\ (c \in Job => queue \in Seq(Job \ {j}))

\* What a step does with the specs that wait.
LEMMA QueueSteps ==
  ASSUME IInv, KnownHolds, LoopWaits, Fresh, [Next]_vars
  PROVE  \/ UNCHANGED <<queue, todo, kept>> /\ LockHeld' = LockHeld
         \/ ~LockHeld /\ ~LockHeld' /\ \E c \in Actor, j \in Job : Inserts(c, j)
         \/ BeginPass \/ NoCandidate \/ ReserveRefused \/ Confirmed \/ PassFails \/ EndPass
<1>. DEFINE Stays == UNCHANGED <<queue, todo, kept>> /\ LockHeld' = LockHeld
            Grows == ~LockHeld /\ ~LockHeld' /\ \E c \in Actor, j \in Job : Inserts(c, j)
<1>1. ASSUME UNCHANGED <<queue, todo, kept, pc>> PROVE Stays
  BY <1>1 DEF LockHeld
<1>2. ASSUME NEW c \in Actor, NEW j \in Job, Submit(c, j), c \in Job => queue \in Seq(Job \ {j}),
             UNCHANGED <<todo, kept, pc>>
      PROVE  Stays \/ Grows
  BY <1>2 DEF Submit, Inserts, LockHeld
<1>3. CASE UNCHANGED vars
  BY <1>1, <1>3 DEF vars, loopVars
<1>4. CASE CheckHealth \/ ReserveGranted \/ \E w \in Worker : FailoverWorker(w) \/ SelectWorker(w)
  BY <1>4 DEF CheckHealth, ReserveGranted, FailoverWorker, SelectWorker, LockHeld
<1>5. CASE LockGranted
  <2>. DEFINE c == Head(lockq)
              j == coro[c].job
  <2>1. c \in Actor /\ j \in Job /\ coro[c].at = "lock"
    BY <1>5, OldestWaiter
  <2>2. c \in Job => j = c /\ queue \in Seq(Job \ {c})
    BY <2>1, JobAssumption DEF KnownHolds, ClientsHold, Fresh, Within, QueueWithin
  <2>3. ~LockHeld /\ ~LockHeld' /\ queue' = Enqueued(c, j)
    BY <1>5 DEF LockGranted, loopVars, LockHeld
  <2>. QED
    BY <2>1, <2>2, <2>3 DEF Inserts
<1>6. ASSUME NEW j \in Job, CreateJob(j) PROVE Stays \/ Grows
  <2>1. Known \subseteq Job \ {j} /\ queue \in Seq(Known)
    BY <1>6 DEF CreateJob, Known, KnownHolds, Within, QueueWithin
  <2>2. queue \in Seq(Job \ {j}) /\ j \in Actor
    BY <2>1, SeqMonotonic DEF Actor
  <2>. QED
    BY <1>2, <1>6, <2>2 DEF CreateJob, loopVars
<1>7. ASSUME NEW c \in Actor, HandleFailure(c) PROVE Stays \/ Grows
  <2>1. c \notin Job /\ coro[c].job \in Job
    BY <1>7 DEF HandleFailure, KnownHolds, ClientsHold, IInv, Holds, CoroutineHolds
  <2>2. UNCHANGED <<todo, kept, pc>> /\ (Submit(c, coro[c].job) \/ UNCHANGED queue)
    BY <1>7 DEF HandleFailure, loopVars
  <2>. QED
    BY <1>1, <1>2, <2>1, <2>2
<1>8. ASSUME NEW c \in Actor, ReleaseFails(c) PROVE Stays
  <2>1. c = Loop => ~LockHeld
    BY <1>8 DEF ReleaseFails, LoopWaits
  <2>. QED
    BY <1>8, <2>1 DEF ReleaseFails, LockHeld
<1>9. ASSUME NEW s \in Slot, DispatchStep(s) PROVE Stays
  BY <1>1, <1>9 DEF DispatchStep, DispatchRemote, LocalCompletes, LocalFails, loopVars
<1>10. ASSUME NEW w \in Worker, ReaderStep(w) \/ WorkerStep(w) \/ NetStep(w) PROVE Stays
  <2>1. UNCHANGED <<queue, loopVars>>
    BY <1>10 DEF ReaderStep, ReadRegister, RegisterWorker, ReadHeartbeat, ReadProgress, ReadCompleted,
       ReadFailed, WorkerStep, ReceiveTask, ReportProgress, ReportResult, NetStep, Connect, WorkerCrashes,
       StreamBreaks, CloseStream, HeartbeatAges, ReaderFails
  <2>. QED
    BY <1>1, <2>1 DEF loopVars
<1>. QED
  BY <1>3, <1>4, <1>5, <1>6, <1>7, <1>8, <1>9, <1>10 DEF Next, LoopStep

\* Keeping a spec for the next pass changes nothing of what the pass owns.
LEMMA KeepHeadOwns ==
  ASSUME IInv, todo # <<>>, KeepHead
  PROVE  kept' \o todo' = kept \o todo
<1>1. kept \in Seq(Job) /\ todo \in Seq(Job) /\ Head(todo) \in Job /\ Tail(todo) \in Seq(Job)
      /\ kept' = Append(kept, Head(todo)) /\ todo' = Tail(todo)
  BY HeadTailProperties DEF KeepHead, IInv, TypeOK, LoopType
<1>2. /\ Len(kept) \in Nat /\ Len(todo) \in Nat /\ Len(todo) > 0
      /\ Len(Tail(todo)) = Len(todo) - 1 /\ Head(todo) = todo[1]
      /\ \A i \in 1..Len(Tail(todo)) : Tail(todo)[i] = todo[i + 1]
  BY <1>1, LenProperties, HeadTailProperties, EmptySeq
<1>3. /\ kept' \in Seq(Job) /\ Len(kept') = Len(kept) + 1 /\ kept'[Len(kept) + 1] = todo[1]
      /\ \A i \in 1..Len(kept) : kept'[i] = kept[i]
  BY <1>1, <1>2, AppendProperties
<1>4. /\ kept \o todo \in Seq(Job) /\ Len(kept \o todo) = Len(kept) + Len(todo)
      /\ \A i \in 1..Len(kept) + Len(todo) :
           (kept \o todo)[i] = IF i <= Len(kept) THEN kept[i] ELSE todo[i - Len(kept)]
  BY <1>1, ConcatProperties
<1>5. /\ kept' \o todo' \in Seq(Job) /\ Len(kept' \o todo') = (Len(kept) + 1) + (Len(todo) - 1)
      /\ \A i \in 1..(Len(kept) + 1) + (Len(todo) - 1) :
           (kept' \o todo')[i] = IF i <= Len(kept) + 1 THEN kept'[i] ELSE Tail(todo)[i - (Len(kept) + 1)]
  BY <1>1, <1>2, <1>3, ConcatProperties
<1>6. ASSUME NEW i \in 1..Len(kept) + Len(todo) PROVE (kept' \o todo')[i] = (kept \o todo)[i]
  <2>1. CASE i <= Len(kept)
    BY <1>2, <1>3, <1>4, <1>5, <2>1
  <2>2. CASE i = Len(kept) + 1
    BY <1>2, <1>3, <1>4, <1>5, <2>2
  <2>3. CASE i > Len(kept) + 1
    <3>1. i - (Len(kept) + 1) \in 1..Len(Tail(todo)) /\ (i - (Len(kept) + 1)) + 1 = i - Len(kept)
      BY <1>2, <2>3
    <3>2. Tail(todo)[i - (Len(kept) + 1)] = todo[i - Len(kept)]
      BY <1>2, <3>1
    <3>3. (kept' \o todo')[i] = Tail(todo)[i - (Len(kept) + 1)]
      BY <1>2, <1>5, <2>3
    <3>. QED
      BY <1>2, <1>4, <2>3, <3>2, <3>3
  <2>4. i \in Nat /\ Len(kept) \in Nat
    BY <1>2
  <2>5. i <= Len(kept) \/ i = Len(kept) + 1 \/ i > Len(kept) + 1
    BY <2>4
  <2>. QED
    BY <2>1, <2>2, <2>3, <2>5
<1>7. Len(kept' \o todo') = Len(kept \o todo) /\ Len(kept \o todo) = Len(kept) + Len(todo)
  BY <1>2, <1>4, <1>5
<1>. QED
  BY <1>4, <1>5, <1>6, <1>7, SeqEqual

\* A pass that begins owns the whole queue.
LEMMA BeginPassOwns ==
  ASSUME IInv, BeginPass
  PROVE  queue' = queue /\ kept' \o todo' = queue
<1>1. queue' = queue /\ todo' = queue /\ kept' = <<>> /\ queue \in Seq(Job)
  BY DEF BeginPass, IInv, TypeOK, QueueType
<1>. QED
  BY <1>1, ConcatEmptySeq

\* Every step keeps what a pass owns in the order of the queue.
LEMMA NextPassInOrder ==
  ASSUME IInv, KnownHolds, LoopWaits, OrderHolds, [Next]_vars
  PROVE  PassInOrder'
<1>1. kept \in Seq(Job) /\ todo \in Seq(Job) /\ queue \in Seq(Job)
  BY DEF IInv, TypeOK, LoopType, QueueType
<1>2. CASE UNCHANGED <<queue, todo, kept>> /\ LockHeld' = LockHeld
  BY <1>2 DEF OrderHolds, PassInOrder
<1>3. CASE ~LockHeld'
  BY <1>3 DEF PassInOrder
<1>4. CASE BeginPass
  <2>1. queue' = queue /\ kept' \o todo' = queue
    BY <1>4, BeginPassOwns
  <2>. QED
    BY <1>1, <2>1, EmbeddedSelf DEF PassInOrder
<1>5. CASE NoCandidate \/ ReserveRefused
  <2>1. LockHeld /\ KeepHead /\ todo # <<>> /\ queue' = queue
    BY <1>5 DEF NoCandidate, ReserveRefused, KeepHead, LockHeld, IInv, Holds, PassHolds
  <2>2. kept' \o todo' = kept \o todo
    BY <2>1, KeepHeadOwns
  <2>. QED
    BY <2>1, <2>2 DEF OrderHolds, PassInOrder
<1>6. CASE Confirmed
  <2>1. LockHeld /\ todo # <<>> /\ kept' = kept /\ todo' = Tail(todo) /\ queue' = queue
    BY <1>6 DEF Confirmed, LockHeld, IInv, Holds, PassHolds
  <2>2. Embedded(kept \o Tail(todo), queue)
    BY <1>1, <2>1, EmbeddedWithoutHead DEF OrderHolds, PassInOrder
  <2>. QED
    BY <2>1, <2>2 DEF PassInOrder
<1>7. CASE PassFails \/ EndPass
  BY <1>3, <1>7 DEF PassFails, EndPass, LockHeld
<1>. QED
  BY <1>2, <1>3, <1>4, <1>5, <1>6, <1>7, QueueSteps DEF OrderHolds

\* An insertion puts no job before an earlier one, unless it is a retry.
LEMMA InsertKeepsOrder ==
  ASSUME IInv, NEW c \in Actor, NEW j \in Job, Inserts(c, j), NEW a, NEW b,
         Precedes(a, b, queue), ~Precedes(b, a, queue), Precedes(b, a, queue')
  PROVE  queue' = <<b>> \o queue
<1>1. queue \in Seq(Job) /\ <<j>> \in Seq(Job) /\ Len(queue) \in Nat /\ DOMAIN queue = 1..Len(queue)
  BY LenProperties DEF IInv, TypeOK, QueueType
<1>2. CASE c \in Job
  <2>1. queue' = Append(queue, j) /\ queue \in Seq(Job \ {j})
    BY <1>2 DEF Inserts, Enqueued
  <2>2. \A i \in 1..Len(queue) : queue[i] # j
    BY <2>1, ElementOfSeq
  <2>3. /\ DOMAIN queue' = 1..Len(queue) + 1 /\ queue'[Len(queue) + 1] = j
        /\ \A i \in 1..Len(queue) : queue'[i] = queue[i]
    BY <1>1, <2>1, AppendProperties, LenProperties
  <2>4. PICK m, n \in 1..Len(queue) + 1 : m < n /\ queue'[m] = b /\ queue'[n] = a
    BY <2>3 DEF Precedes
  <2>5. CASE n = Len(queue) + 1
    BY <1>1, <2>2, <2>3, <2>4, <2>5 DEF Precedes
  <2>6. CASE n # Len(queue) + 1
    <3>1. m \in 1..Len(queue) /\ n \in 1..Len(queue)
      BY <1>1, <2>4, <2>6
    <3>. QED
      BY <1>1, <2>3, <2>4, <3>1 DEF Precedes
  <2>. QED
    BY <2>5, <2>6
<1>3. CASE c \notin Job
  <2>1. queue' = <<j>> \o queue
    BY <1>3 DEF Inserts, Enqueued
  <2>2. /\ DOMAIN queue' = 1..1 + Len(queue) /\ queue'[1] = j
        /\ \A i \in 1..1 + Len(queue) : i > 1 => queue'[i] = queue[i - 1]
    <3>1. Len(<<j>>) = 1 /\ <<j>>[1] = j
      OBVIOUS
    <3>2. /\ queue' \in Seq(Job) /\ Len(queue') = 1 + Len(queue)
          /\ \A i \in 1..1 + Len(queue) : queue'[i] = IF i <= 1 THEN <<j>>[i] ELSE queue[i - 1]
      BY <1>1, <2>1, <3>1, ConcatProperties
    <3>. QED
      BY <1>1, <3>1, <3>2, LenProperties
  <2>3. PICK m, n \in 1..1 + Len(queue) : m < n /\ queue'[m] = b /\ queue'[n] = a
    BY <2>2 DEF Precedes
  <2>4. CASE m = 1
    BY <2>1, <2>2, <2>3, <2>4
  <2>5. CASE m # 1
    <3>1. m - 1 \in 1..Len(queue) /\ n - 1 \in 1..Len(queue) /\ m - 1 < n - 1 /\ m > 1 /\ n > 1
      BY <1>1, <2>3, <2>5
    <3>2. queue[m - 1] = b /\ queue[n - 1] = a
      BY <2>2, <2>3, <3>1
    <3>. QED
      BY <1>1, <3>1, <3>2 DEF Precedes
  <2>. QED
    BY <2>4, <2>5
<1>. QED
  BY <1>2, <1>3

\* One step of NoOvertaking.
LEMMA NextKeepsOrder ==
  ASSUME IInv, KnownHolds, LoopWaits, OrderHolds, [Next]_vars, NEW a \in Job, NEW b \in Job, a # b,
         Precedes(a, b, Pending), ~Precedes(b, a, Pending), Precedes(b, a, Pending')
  PROVE  \/ queue' = <<b>> \o queue
         \/ /\ spent'["dbErrors"] > spent["dbErrors"]
            /\ Occurrences(queue, a) > 1 \/ Occurrences(queue, b) > 1
<1>1. kept \in Seq(Job) /\ todo \in Seq(Job) /\ queue \in Seq(Job)
  BY DEF IInv, TypeOK, LoopType, QueueType
<1>2. Pending' # Pending
  OBVIOUS
<1>3. ~(UNCHANGED <<queue, todo, kept>> /\ LockHeld' = LockHeld)
  BY <1>2 DEF Pending
<1>4. CASE ~LockHeld /\ ~LockHeld' /\ \E c \in Actor, j \in Job : Inserts(c, j)
  <2>1. Pending = queue /\ Pending' = queue'
    BY <1>4 DEF Pending
  <2>. QED
    BY <1>4, <2>1, InsertKeepsOrder
<1>5. ~BeginPass
  <2>1. ASSUME BeginPass PROVE Pending' = Pending
    <3>1. queue' = queue /\ kept' \o todo' = queue /\ ~LockHeld
      BY <2>1, BeginPassOwns DEF BeginPass, LockHeld
    <3>. QED
      BY <3>1 DEF Pending
  <2>. QED
    BY <1>2, <2>1
<1>6. ~NoCandidate /\ ~ReserveRefused
  <2>1. ASSUME NoCandidate \/ ReserveRefused PROVE Pending' = Pending
    <3>1. LockHeld /\ LockHeld' /\ KeepHead /\ todo # <<>>
      BY <2>1 DEF NoCandidate, ReserveRefused, KeepHead, LockHeld, IInv, Holds, PassHolds
    <3>. QED
      BY <3>1, KeepHeadOwns DEF Pending
  <2>. QED
    BY <1>2, <2>1
<1>7. ~Confirmed
  <2>1. ASSUME Confirmed PROVE FALSE
    <3>1. LockHeld /\ LockHeld' /\ todo # <<>> /\ kept' = kept /\ todo' = Tail(todo)
      BY <2>1 DEF Confirmed, LockHeld, IInv, Holds, PassHolds
    <3>2. Pending = kept \o todo /\ Pending' = kept \o Tail(todo)
      BY <3>1 DEF Pending
    <3>. QED
      BY <1>1, <3>1, <3>2, PrecedesWithoutHead
  <2>. QED
    BY <2>1
<1>8. ~EndPass
  <2>1. ASSUME EndPass PROVE Pending' = Pending
    <3>1. LockHeld /\ ~LockHeld' /\ todo = <<>> /\ queue' = kept
      BY <2>1 DEF EndPass, LockHeld
    <3>2. kept \o <<>> = kept
      BY <1>1, ConcatEmptySeq
    <3>. QED
      BY <3>1, <3>2 DEF Pending
  <2>. QED
    BY <1>2, <2>1
<1>9. CASE PassFails
  <2>1. LockHeld /\ ~LockHeld' /\ queue' = queue /\ spent' = [spent EXCEPT !["dbErrors"] = @ + 1]
    BY <1>9 DEF PassFails, LockHeld, Spend
  <2>2. Embedded(kept \o todo, queue) /\ Pending = kept \o todo /\ Pending' = queue
    BY <2>1 DEF OrderHolds, PassInOrder, Pending
  <2>3. Occurrences(queue, a) > 1 \/ Occurrences(queue, b) > 1
    BY <1>1, <2>2, EmbeddedTwice
  <2>4. spent["dbErrors"] \in Nat /\ spent'["dbErrors"] = spent["dbErrors"] + 1
    BY <2>1 DEF IInv, TypeOK, CountType, Bound
  <2>. QED
    BY <2>3, <2>4
<1>. QED
  BY <1>3, <1>4, <1>5, <1>6, <1>7, <1>8, <1>9, QueueSteps DEF OrderHolds

\* Fresh insertions and passes that keep their order hold in every state.
LEMMA OrderInvariance == Spec => [](TInv /\ OrderHolds)
<1>1. Init => OrderHolds
  BY DEF Init, OrderHolds, Fresh, PassInOrder, LockHeld, Idle, Actor
<1>2. TInv /\ OrderHolds /\ [Next]_vars => OrderHolds'
  BY NextFresh, NextPassInOrder DEF TInv, OrderHolds
<1>. QED
  BY <1>1, <1>2, TicketsInvariance, PTL DEF Spec

\* The queue is first in, first out: the order of the submissions (scheduler.py:57-59) survives
\* every pass, and only a retry or a pass that a database error aborts puts a job before an
\* earlier one.
THEOREM NobodyOvertakes == Spec => NoOvertaking
<1>1. TInv /\ OrderHolds /\ [Next]_vars =>
        \A a, b \in Job :
          a # b /\ Precedes(a, b, Pending) /\ ~Precedes(b, a, Pending) /\ Precedes(b, a, Pending')
            => \/ queue' = <<b>> \o queue
               \/ /\ spent'["dbErrors"] > spent["dbErrors"]
                  /\ Occurrences(queue, a) > 1 \/ Occurrences(queue, b) > 1
  BY NextKeepsOrder DEF TInv
<1>. QED
  BY <1>1, OrderInvariance, PTL DEF Spec, NoOvertaking
=============================================================================
