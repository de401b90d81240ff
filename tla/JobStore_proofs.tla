-------------------------- MODULE JobStore_proofs --------------------------
(***************************************************************************)
(* Proofs about JobStore for every set of jobs and every value of the      *)
(* bounds.                                                                 *)
(***************************************************************************)
EXTENDS JobStore, SequenceTheorems, TLAPS

\* The stages in which the job's task runs.
Later == {"start", "broadcast", "complete", "fail"}

\* A job nobody asked for has left no trace; one that is asked for is in memory.
OwnerSound(j) ==
  /\ owner[j].stage \in {"none", "ended"} => owner[j].io = "done"
  /\ owner[j].stage = "none" => /\ mem[j] = NoStatus /\ rows[j] = NoStatus
                                /\ line[j] = <<>> /\ progressing[j] = 0
  /\ owner[j].stage \notin {"none", "ended"} => Known(j)
  /\ progressing[j] > 0 \/ line[j] # <<>> => Known(j)

\* Whoever may commit an UPDATE, or has an id to ask for, has a row.
RowSound(j) ==
  /\ \/ owner[j].stage \in Later
     \/ owner[j] = [stage |-> "insert", io |-> "done"]
     \/ j \in acked
     \/ progressing[j] > 0
     => rows[j] # NoStatus
  /\ \A i \in DOMAIN line[j] :
       rows[j] # NoStatus \/ (line[j][i].by = "owner" /\ owner[j].stage = "insert")

\* The owner has one write at a time.
LineSound(j) ==
  /\ \A i \in DOMAIN line[j] : line[j][i].by = "owner" => owner[j].io = "exec"
  /\ \A i, k \in DOMAIN line[j] :
       line[j][i].by = "owner" /\ line[j][k].by = "owner" => i = k

\* Later captures know of the end what earlier ones knew, and memory knows it too.
EndSound(j) ==
  /\ \A i, k \in DOMAIN line[j] :
       i < k /\ line[j][i].row.finished => line[j][k].row.finished
  /\ \A i \in DOMAIN line[j] : line[j][i].row.finished => mem[j].finished
  /\ j \notin spoiled /\ Settled(j) =>
       /\ Known(j) => mem[j].finished
       /\ \A i \in DOMAIN line[j] : line[j][i].row.finished

\* What memory says is in the row, is the last thing in line for it, or will be read off.
RowComes(j) ==
  j \notin spoiled /\ Known(j) =>
    \/ owner[j].io = "open"
    \/ progressing[j] > 0
    \/ line[j] # <<>> /\ line[j][Len(line[j])].row = mem[j]
    \/ line[j] = <<>> /\ rows[j] = mem[j]

JobSound(j) == OwnerSound(j) /\ RowSound(j) /\ LineSound(j) /\ EndSound(j) /\ RowComes(j)

\* Inductive: RowKeepsUp alone is not, it says nothing of the writes under way.
IInv == TypeOK /\ \A j \in Job : JobSound(j)

\* Taking one write out of a line keeps the others and their order.
LEMMA RemoveAtProperties ==
  ASSUME NEW S, NEW s \in Seq(S), NEW i \in 1 .. Len(s)
  PROVE  /\ RemoveAt(s, i) \in Seq(S)
         /\ Len(RemoveAt(s, i)) = Len(s) - 1
         /\ \A k \in 1 .. Len(s) - 1 :
              RemoveAt(s, i)[k] = IF k < i THEN s[k] ELSE s[k + 1]
<1>. DEFINE front == SubSeq(s, 1, i - 1)
            back == SubSeq(s, i + 1, Len(s))
<1>1. /\ front \in Seq(S) /\ Len(front) = i - 1
      /\ \A k \in 1 .. i - 1 : front[k] = s[k]
  OBVIOUS
<1>2. /\ back \in Seq(S) /\ Len(back) = Len(s) - i
      /\ \A k \in 1 .. Len(s) - i : back[k] = s[i + k]
  OBVIOUS
<1>3. RemoveAt(s, i) = front \o back
  BY DEF RemoveAt
<1>. HIDE DEF front, back
<1>4. front \o back \in Seq(S) /\ Len(front \o back) = Len(s) - 1
  BY <1>1, <1>2
<1>5. ASSUME NEW k \in 1 .. Len(s) - 1
      PROVE  (front \o back)[k] = IF k < i THEN s[k] ELSE s[k + 1]
  <2>1. CASE k < i
    BY <1>1, <1>2, <2>1
  <2>2. CASE ~(k < i)
    <3>1. (front \o back)[k] = back[k - (i - 1)]
      BY <1>1, <1>2, <2>2
    <3>2. k - (i - 1) \in 1 .. Len(s) - i /\ i + (k - (i - 1)) = k + 1
      BY <2>2
    <3>. QED
      BY <1>2, <2>2, <3>1, <3>2
  <2>. QED
    BY <2>1, <2>2
<1>. QED
  BY <1>3, <1>4, <1>5

\* Jobs do not touch each other's state.
LEMMA OthersSound ==
  ASSUME NEW k \in Job, JobSound(k),
         mem'[k] = mem[k], rows'[k] = rows[k], owner'[k] = owner[k],
         progressing'[k] = progressing[k], line'[k] = line[k],
         k \in acked' <=> k \in acked, k \in spoiled' <=> k \in spoiled
  PROVE  JobSound(k)'
  BY DEF JobSound, OwnerSound, RowSound, LineSound, EndSound, RowComes, Known, Settled

\* Nothing is known of any job at first.
LEMMA InitSound == Init => IInv
<1>. SUFFICES ASSUME Init PROVE IInv
  OBVIOUS
<1>1. TypeOK
  BY EmptySeq DEF Init, TypeOK, Stage, Bound
<1>2. \A j \in Job : JobSound(j)
  BY EmptySeq DEF Init, JobSound, OwnerSound, RowSound, LineSound, EndSound, RowComes, Known,
     Settled, Later
<1>. QED
  BY <1>1, <1>2 DEF IInv

\* What an update leaves in memory: a status, finished if it was.
LEMMA MovedSound ==
  ASSUME NEW status \in Status, NEW phase \in Phase
  PROVE  /\ Moved(status, phase) \in Status
         /\ status.finished => Moved(status, phase).finished
  BY DEF Moved, Status

\* Every stage that updates has a phase.
LEMMA PhaseOfSound == \A stage \in Later : PhaseOf(stage) \in Phase
  BY DEF Later, PhaseOf, Phase, Final

\* An update of a job whose row exists, begun while none of the owner's writes is in line.
LEMMA UpdateSound ==
  ASSUME IInv, NEW j \in Job, NEW stage \in Later, Update(j, stage),
         Known(j), rows[j] # NoStatus, \A i \in DOMAIN line'[j] : line'[j][i].by # "owner",
         \A i \in DOMAIN line'[j] : line'[j][i].row.finished => mem[j].finished,
         \A i, k \in DOMAIN line'[j] :
           i < k /\ line'[j][i].row.finished => line'[j][k].row.finished,
         j \notin spoiled' =>
           j \notin spoiled /\ \A i \in DOMAIN line'[j] : line'[j][i].row = line[j][i].row
                             /\ i \in DOMAIN line[j],
         rows' = rows, progressing' = progressing
  PROVE  /\ mem' \in [Job -> Status \cup {NoStatus}]
         /\ owner' \in [Job -> [stage : Stage, io : {"open", "exec", "done"}]]
         /\ JobSound(j)'
         /\ \A k \in Job \ {j} : mem'[k] = mem[k] /\ owner'[k] = owner[k]
<1>1. mem[j] \in Status /\ mem \in [Job -> Status \cup {NoStatus}]
  BY DEF IInv, TypeOK, Known
<1>2. /\ Moved(mem[j], PhaseOf(stage)) \in Status
      /\ mem[j].finished => Moved(mem[j], PhaseOf(stage)).finished
  BY <1>1, MovedSound, PhaseOfSound
<1>3. /\ mem' = [mem EXCEPT ![j] = Moved(mem[j], PhaseOf(stage))]
      /\ owner' = [owner EXCEPT ![j] = [stage |-> stage, io |-> "open"]]
  BY DEF Update, GoTo
<1>4. mem' \in [Job -> Status \cup {NoStatus}] /\ mem'[j] \in Status
  BY <1>1, <1>2, <1>3
<1>5. /\ owner' \in [Job -> [stage : Stage, io : {"open", "exec", "done"}]]
      /\ owner'[j] = [stage |-> stage, io |-> "open"]
  BY <1>3 DEF IInv, TypeOK, Later, Stage
<1>6. Known(j)' /\ (mem[j].finished => mem'[j].finished)
  BY <1>1, <1>2, <1>3, <1>4, StatusAssumption DEF Known
<1>7. OwnerSound(j)' /\ LineSound(j)' /\ RowComes(j)'
  BY <1>5, <1>6 DEF OwnerSound, LineSound, RowComes, Later
<1>8. RowSound(j)'
  BY <1>5 DEF RowSound
<1>9. EndSound(j)'
  BY <1>6 DEF EndSound, IInv, JobSound, Settled
<1>. QED
  BY <1>3, <1>4, <1>5, <1>7, <1>8, <1>9 DEF JobSound

\* Create: the job is new, its object is in memory, the INSERT waits for its connection.
LEMMA CreateSound == ASSUME IInv, NEW j \in Job, Create(j) PROVE IInv'
<1>1. /\ owner[j].stage = "none" /\ owner[j].io = "done"
      /\ mem' = [mem EXCEPT ![j] = Fresh]
      /\ owner' = [owner EXCEPT ![j] = [stage |-> "insert", io |-> "open"]]
  BY DEF Create, At, GoTo
<1>2. rows[j] = NoStatus /\ line[j] = <<>> /\ progressing[j] = 0 /\ j \notin acked
  BY <1>1 DEF IInv, JobSound, OwnerSound, RowSound
<1>3. TypeOK'
  BY <1>1 DEF IInv, TypeOK, Create, Fresh, Status, Phase, Stage
<1>4. mem'[j] = Fresh /\ owner'[j] = [stage |-> "insert", io |-> "open"]
  BY <1>1 DEF IInv, TypeOK
<1>5. Fresh # NoStatus
  <2>1. Fresh \in Status
    BY DEF Fresh, Status, Phase
  <2>. QED
    BY <2>1, StatusAssumption
<1>6. JobSound(j)'
  BY <1>2, <1>4, <1>5, EmptySeq DEF Create, JobSound, OwnerSound, RowSound, LineSound, EndSound,
     RowComes, Known, Settled, Later
<1>7. ASSUME NEW k \in Job \ {j} PROVE JobSound(k)'
  <2>1. mem'[k] = mem[k] /\ owner'[k] = owner[k]
    BY <1>1 DEF IInv, TypeOK
  <2>. QED
    BY <2>1, OthersSound DEF IInv, Create
<1>. QED
  BY <1>3, <1>6, <1>7 DEF IInv

\* Begin, GoOn and Raise are an update of a job whose last write is committed.
LEMMA UpdateKeeps ==
  ASSUME IInv, NEW j \in Job, NEW stage \in Later, Update(j, stage), owner[j].io = "done",
         owner[j].stage \notin {"none", "ended"},
         acked' = acked \cup {j} \/ acked' = acked,
         UNCHANGED <<rows, progressing, line, told, cancelled, spoiled, spent>>
  PROVE  IInv'
<1>1. JobSound(j) /\ owner[j] \in [stage : Stage, io : {"open", "exec", "done"}]
  BY DEF IInv, TypeOK
<1>2. owner[j].stage \in Later \/ owner[j] = [stage |-> "insert", io |-> "done"]
  BY <1>1 DEF Stage, Later
<1>3. Known(j) /\ rows[j] # NoStatus
  BY <1>1, <1>2 DEF JobSound, OwnerSound, RowSound
<1>4. \A i \in DOMAIN line[j] : line[j][i].by # "owner"
  BY <1>1 DEF JobSound, LineSound
<1>5. /\ mem' \in [Job -> Status \cup {NoStatus}]
      /\ owner' \in [Job -> [stage : Stage, io : {"open", "exec", "done"}]]
      /\ JobSound(j)'
      /\ \A k \in Job \ {j} : mem'[k] = mem[k] /\ owner'[k] = owner[k]
  BY <1>1, <1>3, <1>4, UpdateSound DEF JobSound, EndSound
<1>6. TypeOK'
  BY <1>5 DEF IInv, TypeOK
<1>7. \A k \in Job \ {j} : JobSound(k)'
  BY <1>5, OthersSound DEF IInv
<1>. QED
  BY <1>5, <1>6, <1>7 DEF IInv

LEMMA BeginSound == ASSUME IInv, NEW j \in Job, Begin(j) PROVE IInv'
  BY UpdateKeeps DEF Begin, At, Later

LEMMA GoOnSound == ASSUME IInv, NEW j \in Job, GoOn(j) PROVE IInv'
  BY UpdateKeeps DEF GoOn, At, Later

LEMMA RaiseSound == ASSUME IInv, NEW j \in Job, Raise(j) PROVE IInv'
  BY UpdateKeeps DEF Raise, At, Later

\* Progress changes memory and adds a write that nobody awaits.
LEMMA ProgressSound == ASSUME IInv, NEW j \in Job, Progress(j) PROVE IInv'
<1>1. /\ owner[j].stage = "start" /\ owner[j].io = "done"
      /\ mem' = [mem EXCEPT ![j] = [mem[j] EXCEPT !.pct = @ + 1]]
      /\ progressing' = [progressing EXCEPT ![j] = progressing[j] + 1]
      /\ spent' \in [DOMAIN Bound -> Nat]
  BY DEF Progress, At, Spend, IInv, TypeOK, Bound
<1>2. JobSound(j) /\ mem[j] \in Status /\ rows[j] # NoStatus /\ progressing[j] \in Nat
  BY <1>1 DEF IInv, TypeOK, JobSound, OwnerSound, RowSound, Known, Later
<1>3. [mem[j] EXCEPT !.pct = @ + 1] \in Status
  BY <1>2 DEF Status
<1>4. TypeOK'
  BY <1>1, <1>2, <1>3 DEF IInv, TypeOK, Progress
<1>5. /\ mem'[j] \in Status /\ mem'[j].finished = mem[j].finished
      /\ progressing'[j] > 0
  BY <1>1, <1>2, <1>3 DEF IInv, TypeOK, Status
<1>6. JobSound(j)'
  BY <1>1, <1>2, <1>5, StatusAssumption DEF Progress, JobSound, OwnerSound, RowSound, LineSound,
     EndSound, RowComes, Known, Settled
<1>7. \A k \in Job \ {j} : JobSound(k)'
  BY <1>1, OthersSound DEF IInv, TypeOK, Progress
<1>. QED
  BY <1>4, <1>6, <1>7 DEF IInv

\* End: nothing of the owner is left in line.
LEMMA EndSoundStep == ASSUME IInv, NEW j \in Job, End(j) PROVE IInv'
<1>1. /\ owner[j].stage \in {"complete", "fail"} /\ owner[j].io = "done"
      /\ owner' = [owner EXCEPT ![j] = [stage |-> "ended", io |-> "done"]]
  BY DEF End, At, GoTo
<1>2. owner'[j] = [stage |-> "ended", io |-> "done"] /\ JobSound(j)
  BY <1>1 DEF IInv, TypeOK
<1>3. TypeOK'
  BY <1>1 DEF IInv, TypeOK, End, Stage
<1>4. rows[j] # NoStatus
  BY <1>1, <1>2 DEF JobSound, RowSound, Later
<1>5. JobSound(j)'
  BY <1>1, <1>2, <1>4 DEF End, JobSound, OwnerSound, RowSound, LineSound, EndSound, RowComes,
     Known, Settled
<1>6. \A k \in Job \ {j} : JobSound(k)'
  BY <1>1, OthersSound DEF IInv, TypeOK, End
<1>. QED
  BY <1>3, <1>5, <1>6 DEF IInv

\* A captured write: the line of the job grows by what memory says.
LEMMA AppendSound ==
  ASSUME IInv, NEW j \in Job, Known(j), NEW by \in {"owner", "progress"},
         line' = [line EXCEPT ![j] = Append(@, [by |-> by, row |-> mem[j]])],
         mem' = mem
  PROVE  /\ line' \in [Job -> Seq(Writes)]
         /\ line'[j] # <<>> /\ line'[j][Len(line'[j])] = [by |-> by, row |-> mem'[j]]
         /\ DOMAIN line'[j] = 1 .. Len(line[j]) + 1 /\ DOMAIN line[j] = 1 .. Len(line[j])
         /\ \A i \in DOMAIN line[j] : line'[j][i] = line[j][i]
         /\ EndSound(j) => \A i \in DOMAIN line'[j] : line'[j][i].row.finished => mem[j].finished
         /\ EndSound(j) =>
              \A i, k \in DOMAIN line'[j] :
                i < k /\ line'[j][i].row.finished => line'[j][k].row.finished
<1>1. line[j] \in Seq(Writes) /\ mem[j] \in Status
  BY DEF IInv, TypeOK, Known
<1>. DEFINE w == [by |-> by, row |-> mem[j]]
<1>2. w \in Writes
  BY <1>1 DEF Writes
<1>3. line'[j] = Append(line[j], w) /\ line' \in [Job -> Seq(Writes)]
  BY <1>1, <1>2 DEF IInv, TypeOK
<1>4. /\ DOMAIN line'[j] = 1 .. Len(line[j]) + 1 /\ DOMAIN line[j] = 1 .. Len(line[j])
      /\ Len(line'[j]) = Len(line[j]) + 1 /\ Len(line[j]) \in Nat
      /\ \A i \in 1 .. Len(line[j]) : line'[j][i] = line[j][i]
      /\ line'[j][Len(line[j]) + 1] = w
  BY <1>1, <1>2, <1>3, AppendProperties, LenProperties
<1>5. line'[j] # <<>>
  BY <1>4, EmptySeq
<1>6. w.row = mem[j]
  OBVIOUS
<1>. HIDE DEF w
<1>7. ASSUME EndSound(j)
      PROVE  \A i \in DOMAIN line'[j] : line'[j][i].row.finished => mem[j].finished
  BY <1>4, <1>6, <1>7 DEF EndSound
<1>8. ASSUME EndSound(j), NEW i \in DOMAIN line'[j], NEW k \in DOMAIN line'[j],
             i < k, line'[j][i].row.finished
      PROVE  line'[j][k].row.finished
  <2>1. CASE k = Len(line[j]) + 1
    BY <1>4, <1>6, <1>7, <1>8, <2>1
  <2>2. CASE k # Len(line[j]) + 1
    BY <1>4, <1>8, <2>2 DEF EndSound
  <2>. QED
    BY <2>1, <2>2
<1>. QED
  BY <1>3, <1>4, <1>5, <1>7, <1>8 DEF w

\* Open: the owner had no write in line.
LEMMA OpenSound == ASSUME IInv, NEW j \in Job, Open(j) PROVE IInv'
<1>1. /\ owner[j].io = "open" /\ mem' = mem
      /\ line' = [line EXCEPT ![j] = Append(@, [by |-> "owner", row |-> mem[j]])]
      /\ owner' = [owner EXCEPT ![j] = [stage |-> owner[j].stage, io |-> "exec"]]
  BY DEF Open, GoTo
<1>2. JobSound(j) /\ owner[j] \in [stage : Stage, io : {"open", "exec", "done"}]
  BY DEF IInv, TypeOK
<1>3. /\ owner[j].stage \notin {"none", "ended"} /\ Known(j)
      /\ rows[j] # NoStatus \/ owner[j].stage = "insert"
      /\ \A i \in DOMAIN line[j] : line[j][i].by # "owner"
  BY <1>1, <1>2 DEF JobSound, OwnerSound, LineSound, RowSound, Stage, Later
<1>4. /\ owner'[j] = [stage |-> owner[j].stage, io |-> "exec"]
      /\ owner' \in [Job -> [stage : Stage, io : {"open", "exec", "done"}]]
  BY <1>1, <1>2 DEF IInv, TypeOK
<1>5. /\ line' \in [Job -> Seq(Writes)]
      /\ line'[j] # <<>> /\ line'[j][Len(line'[j])] = [by |-> "owner", row |-> mem'[j]]
      /\ DOMAIN line'[j] = 1 .. Len(line[j]) + 1 /\ DOMAIN line[j] = 1 .. Len(line[j])
      /\ \A i \in DOMAIN line[j] : line'[j][i] = line[j][i]
      /\ \A i \in DOMAIN line'[j] : line'[j][i].row.finished => mem[j].finished
      /\ \A i, k \in DOMAIN line'[j] :
           i < k /\ line'[j][i].row.finished => line'[j][k].row.finished
      /\ line'[j][Len(line[j]) + 1] = [by |-> "owner", row |-> mem[j]]
  <2>1. Len(line'[j]) = Len(line[j]) + 1
    BY <1>1, <1>3 DEF IInv, TypeOK, Known, Writes
  <2>. QED
    BY <1>1, <1>2, <1>3, <2>1, AppendSound DEF JobSound
<1>6. TypeOK'
  BY <1>4, <1>5 DEF IInv, TypeOK, Open
<1>7. OwnerSound(j)' /\ RowComes(j)' /\ LineSound(j)'
  BY <1>1, <1>2, <1>3, <1>4, <1>5 DEF Open, JobSound, OwnerSound, RowComes, LineSound, Known
<1>8. RowSound(j)'
  BY <1>1, <1>2, <1>3, <1>4, <1>5 DEF Open, JobSound, RowSound, Later
<1>9. EndSound(j)'
  BY <1>1, <1>2, <1>3, <1>5 DEF Open, JobSound, EndSound, Settled, Known
<1>10. \A k \in Job \ {j} : JobSound(k)'
  BY <1>1, OthersSound DEF IInv, TypeOK, Open
<1>. QED
  BY <1>6, <1>7, <1>8, <1>9, <1>10 DEF IInv, JobSound

\* OpenProgress: the row exists since before progress was made.
LEMMA OpenProgressSound == ASSUME IInv, NEW j \in Job, OpenProgress(j) PROVE IInv'
<1>1. /\ progressing[j] > 0 /\ mem' = mem
      /\ line' = [line EXCEPT ![j] = Append(@, [by |-> "progress", row |-> mem[j]])]
      /\ progressing' = [progressing EXCEPT ![j] = @ - 1]
  BY DEF OpenProgress
<1>2. JobSound(j) /\ progressing[j] \in Nat
  BY DEF IInv, TypeOK
<1>3. Known(j) /\ rows[j] # NoStatus /\ owner[j].stage # "none"
  BY <1>1, <1>2 DEF JobSound, OwnerSound, RowSound
<1>4. progressing'[j] = progressing[j] - 1 /\ progressing' \in [Job -> Nat]
  BY <1>1, <1>2 DEF IInv, TypeOK
<1>5. /\ line' \in [Job -> Seq(Writes)]
      /\ line'[j] # <<>> /\ line'[j][Len(line'[j])] = [by |-> "progress", row |-> mem'[j]]
      /\ DOMAIN line'[j] = 1 .. Len(line[j]) + 1 /\ DOMAIN line[j] = 1 .. Len(line[j])
      /\ \A i \in DOMAIN line[j] : line'[j][i] = line[j][i]
      /\ \A i \in DOMAIN line'[j] : line'[j][i].row.finished => mem[j].finished
      /\ \A i, k \in DOMAIN line'[j] :
           i < k /\ line'[j][i].row.finished => line'[j][k].row.finished
      /\ line'[j][Len(line[j]) + 1] = [by |-> "progress", row |-> mem[j]]
  <2>1. Len(line'[j]) = Len(line[j]) + 1
    BY <1>1, <1>3 DEF IInv, TypeOK, Known, Writes
  <2>. QED
    BY <1>1, <1>2, <1>3, <2>1, AppendSound DEF JobSound
<1>6. TypeOK'
  BY <1>4, <1>5 DEF IInv, TypeOK, OpenProgress
<1>7. OwnerSound(j)' /\ RowComes(j)' /\ LineSound(j)'
  BY <1>1, <1>2, <1>3, <1>4, <1>5 DEF OpenProgress, JobSound, OwnerSound, RowComes, LineSound,
     Known
<1>8. RowSound(j)'
  BY <1>1, <1>2, <1>3, <1>4, <1>5 DEF OpenProgress, JobSound, RowSound
<1>9. EndSound(j)'
  BY <1>1, <1>2, <1>3, <1>5 DEF OpenProgress, JobSound, EndSound, Settled, Known
<1>10. \A k \in Job \ {j} : JobSound(k)'
  BY <1>1, OthersSound DEF IInv, TypeOK, OpenProgress
<1>. QED
  BY <1>6, <1>7, <1>8, <1>9, <1>10 DEF IInv, JobSound

\* What stays in line when the i-th write leaves it.
LEMMA RemovedSound ==
  ASSUME IInv, NEW j \in Job, NEW i \in DOMAIN line[j],
         line' = [line EXCEPT ![j] = RemoveAt(@, i)]
  PROVE  /\ line' \in [Job -> Seq(Writes)]
         /\ \A k \in Job \ {j} : line'[k] = line[k]
         /\ Len(line[j]) \in Nat /\ DOMAIN line[j] = 1 .. Len(line[j])
         /\ DOMAIN line'[j] = 1 .. Len(line[j]) - 1 /\ Len(line'[j]) = Len(line[j]) - 1
         /\ line'[j] = <<>> <=> Len(line[j]) = 1
         /\ \A k \in 1 .. Len(line[j]) - 1 :
              line'[j][k] = IF k < i THEN line[j][k] ELSE line[j][k + 1]
<1>1. line[j] \in Seq(Writes) /\ line \in [Job -> Seq(Writes)]
  BY DEF IInv, TypeOK
<1>2. DOMAIN line[j] = 1 .. Len(line[j]) /\ Len(line[j]) \in Nat
  BY <1>1, LenProperties
<1>3. line'[j] = RemoveAt(line[j], i)
  BY <1>1
<1>4. /\ line'[j] \in Seq(Writes) /\ Len(line'[j]) = Len(line[j]) - 1
      /\ \A k \in 1 .. Len(line[j]) - 1 :
           line'[j][k] = IF k < i THEN line[j][k] ELSE line[j][k + 1]
  BY <1>1, <1>2, <1>3, RemoveAtProperties
<1>5. DOMAIN line'[j] = 1 .. Len(line[j]) - 1
  BY <1>4, LenProperties
<1>6. line'[j] = <<>> <=> Len(line[j]) = 1
  <2>1. line'[j] = <<>> <=> Len(line'[j]) = 0
    BY <1>4, EmptySeq
  <2>2. Len(line'[j]) = 0 <=> Len(line[j]) = 1
    <3>1. \A x, y \in Int : x = y - 1 => (x = 0 <=> y = 1)
      OBVIOUS
    <3>2. Len(line'[j]) \in Int /\ Len(line[j]) \in Int
      BY <1>2, <1>4
    <3>. QED
      BY <1>4, <3>1, <3>2, Zenon
  <2>. QED
    BY <2>1, <2>2
<1>7. line' \in [Job -> Seq(Writes)] /\ \A k \in Job \ {j} : line'[k] = line[k]
  BY <1>1, <1>4
<1>. QED
  BY <1>2, <1>4, <1>5, <1>6, <1>7

\* Whichever write leaves, those that stay are ordered and at most one is the owner's.
LEMMA RemovedOrdered ==
  ASSUME IInv, NEW j \in Job, NEW i \in DOMAIN line[j],
         line' = [line EXCEPT ![j] = RemoveAt(@, i)]
  PROVE  /\ \A k \in DOMAIN line'[j] : \E m \in DOMAIN line[j] : m # i /\ line'[j][k] = line[j][m]
         /\ \A k, m \in DOMAIN line'[j] :
              line'[j][k].by = "owner" /\ line'[j][m].by = "owner" => k = m
         /\ \A k, m \in DOMAIN line'[j] :
              k < m /\ line'[j][k].row.finished => line'[j][m].row.finished
         /\ line[j][i].by = "owner" => \A k \in DOMAIN line'[j] : line'[j][k].by # "owner"
<1>. DEFINE n == Len(line[j])
            old(k) == IF k < i THEN k ELSE k + 1
<1>1. /\ n \in Nat /\ DOMAIN line[j] = 1 .. n /\ DOMAIN line'[j] = 1 .. n - 1
      /\ \A k \in 1 .. n - 1 : line'[j][k] = IF k < i THEN line[j][k] ELSE line[j][k + 1]
  BY RemovedSound
<1>2. i \in 1 .. n
  BY <1>1
<1>3. \A k \in 1 .. n - 1 :
        old(k) \in 1 .. n /\ old(k) # i /\ line'[j][k] = line[j][old(k)]
  BY <1>1, <1>2
<1>4. \A k, m \in 1 .. n - 1 : (old(k) = old(m) => k = m) /\ (k < m => old(k) < old(m))
  BY <1>2
<1>. HIDE DEF n, old
<1>5. LineSound(j) /\ EndSound(j)
  BY DEF IInv, JobSound
<1>6. \A k \in DOMAIN line'[j] : \E m \in DOMAIN line[j] : m # i /\ line'[j][k] = line[j][m]
  BY <1>1, <1>3
<1>7. \A k, m \in DOMAIN line'[j] :
        line'[j][k].by = "owner" /\ line'[j][m].by = "owner" => k = m
  BY <1>1, <1>3, <1>4, <1>5 DEF LineSound
<1>8. ASSUME NEW k \in DOMAIN line'[j], NEW m \in DOMAIN line'[j],
             k < m, line'[j][k].row.finished
      PROVE  line'[j][m].row.finished
  <2>1. /\ old(k) \in DOMAIN line[j] /\ old(m) \in DOMAIN line[j] /\ old(k) < old(m)
        /\ line'[j][k] = line[j][old(k)] /\ line'[j][m] = line[j][old(m)]
    BY <1>1, <1>3, <1>4, <1>8
  <2>. QED
    BY <1>5, <1>8, <2>1 DEF EndSound
<1>9. line[j][i].by = "owner" => \A k \in DOMAIN line'[j] : line'[j][k].by # "owner"
  BY <1>5, <1>6 DEF LineSound
<1>. QED
  BY <1>6, <1>7, <1>8, <1>9

\* Commit and Overtake change the row or find none to change.
LEMMA WriteSound ==
  ASSUME IInv, NEW j \in Job, NEW i \in DOMAIN line[j], Leave(j, i), Write(j, line[j][i]),
         UNCHANGED <<mem, progressing, acked, told, cancelled>>,
         spent' \in [DOMAIN Bound -> Nat],
         (i = 1 /\ spoiled' = spoiled) \/ spoiled' = spoiled \cup {j}
  PROVE  IInv'
<1>. DEFINE w == line[j][i]
<1>1. /\ JobSound(j) /\ line[j] \in Seq(Writes)
      /\ owner[j] \in [stage : Stage, io : {"open", "exec", "done"}]
  BY DEF IInv, TypeOK
<1>2. w \in Writes /\ w.row \in Status /\ w.row # NoStatus
  <2>1. i \in 1 .. Len(line[j])
    BY <1>1, LenProperties
  <2>2. w \in Writes
    BY <1>1, <2>1, ElementOfSeq
  <2>. QED
    BY <2>2, StatusAssumption DEF Writes
<1>3. rows[j] # NoStatus \/ (w.by = "owner" /\ owner[j].stage = "insert")
  BY <1>1 DEF JobSound, RowSound
<1>4. rows' = [rows EXCEPT ![j] = w.row] /\ rows'[j] = w.row /\ rows'[j] # NoStatus
  BY <1>2, <1>3, Zenon DEF Write, IInv, TypeOK
<1>5. line' = [line EXCEPT ![j] = RemoveAt(@, i)]
  BY DEF Leave
<1>6. /\ owner' \in [Job -> [stage : Stage, io : {"open", "exec", "done"}]]
      /\ owner'[j].stage = owner[j].stage
      /\ \A k \in Job \ {j} : owner'[k] = owner[k]
      /\ w.by = "owner" => owner'[j].io = "done"
      /\ w.by # "owner" => owner'[j] = owner[j]
  <2>1. CASE w.by = "owner"
    <3>1. owner' = [owner EXCEPT ![j] = [stage |-> owner[j].stage, io |-> "done"]]
      BY <2>1 DEF Leave, GoTo
    <3>. QED
      BY <1>1, <2>1, <3>1 DEF IInv, TypeOK
  <2>2. CASE w.by # "owner"
    <3>1. owner' = owner
      BY <2>2 DEF Leave
    <3>. QED
      BY <1>1, <2>2, <3>1 DEF IInv, TypeOK
  <2>. QED
    BY <2>1, <2>2
<1>. HIDE DEF w
<1>7. /\ Known(j) /\ owner[j].stage # "none"
      /\ w.by = "owner" => owner[j].io = "exec" /\ owner[j].stage # "ended"
  BY <1>1 DEF JobSound, OwnerSound, LineSound, w
<1>8. /\ line' \in [Job -> Seq(Writes)]
      /\ \A k \in Job \ {j} : line'[k] = line[k]
      /\ Len(line[j]) \in Nat /\ DOMAIN line[j] = 1 .. Len(line[j])
      /\ DOMAIN line'[j] = 1 .. Len(line[j]) - 1 /\ Len(line'[j]) = Len(line[j]) - 1
      /\ line'[j] = <<>> <=> Len(line[j]) = 1
      /\ \A k \in 1 .. Len(line[j]) - 1 :
           line'[j][k] = IF k < i THEN line[j][k] ELSE line[j][k + 1]
  BY <1>5, RemovedSound
<1>9. /\ \A k \in DOMAIN line'[j] : \E m \in DOMAIN line[j] : m # i /\ line'[j][k] = line[j][m]
      /\ \A k, m \in DOMAIN line'[j] :
           line'[j][k].by = "owner" /\ line'[j][m].by = "owner" => k = m
      /\ \A k, m \in DOMAIN line'[j] :
           k < m /\ line'[j][k].row.finished => line'[j][m].row.finished
      /\ w.by = "owner" => \A k \in DOMAIN line'[j] : line'[j][k].by # "owner"
  BY <1>5, RemovedOrdered DEF w
<1>10. TypeOK'
  <2>1. rows' \in [Job -> Status \cup {NoStatus}]
    BY <1>2, <1>4 DEF IInv, TypeOK
  <2>2. spoiled' \subseteq Job
    BY DEF IInv, TypeOK
  <2>. QED
    BY <1>6, <1>8, <2>1, <2>2 DEF IInv, TypeOK
<1>11. OwnerSound(j)'
  BY <1>1, <1>6, <1>7 DEF JobSound, OwnerSound, Known
<1>12. RowSound(j)'
  BY <1>4 DEF RowSound
<1>13. LineSound(j)'
  BY <1>1, <1>6, <1>9 DEF JobSound, LineSound
<1>14. EndSound(j)'
  <2>1. \A k \in DOMAIN line'[j] : line'[j][k].row.finished => mem'[j].finished
    BY <1>1, <1>9 DEF JobSound, EndSound
  <2>2. ASSUME j \notin spoiled', Settled(j)'
        PROVE  (Known(j)' => mem'[j].finished) /\ \A k \in DOMAIN line'[j] : line'[j][k].row.finished
    <3>1. i = 1 /\ w.row.finished
      BY <1>4, <2>2 DEF Settled
    <3>2. mem[j].finished
      BY <1>1, <3>1 DEF JobSound, EndSound, w
    <3>3. ASSUME NEW k \in 2 .. Len(line[j]) PROVE line[j][k].row.finished
      <4>1. 1 \in DOMAIN line[j] /\ k \in DOMAIN line[j] /\ 1 < k /\ line[j][1].row.finished
        BY <1>8, <3>1 DEF w
      <4>. QED
        BY <1>1, <4>1 DEF JobSound, EndSound
    <3>4. \A k \in DOMAIN line'[j] :
            k + 1 \in 2 .. Len(line[j]) /\ line'[j][k] = line[j][k + 1]
      BY <1>8, <3>1
    <3>. QED
      BY <3>2, <3>3, <3>4
  <2>. QED
    BY <1>9, <2>1, <2>2 DEF EndSound
<1>15. RowComes(j)'
  <2>. SUFFICES ASSUME j \notin spoiled' PROVE RowComes(j)'
    BY DEF RowComes
  <2>1. i = 1 /\ j \notin spoiled
    OBVIOUS
  <2>2. CASE owner[j].io = "open" \/ progressing[j] > 0
    BY <1>6, <1>7, <2>2 DEF RowComes
  <2>3. CASE ~(owner[j].io = "open" \/ progressing[j] > 0)
    <3>1. line[j][Len(line[j])].row = mem[j]
      BY <1>1, <1>7, <1>8, <2>1, <2>3, EmptySeq DEF JobSound, RowComes
    <3>2. CASE Len(line[j]) = 1
      BY <1>4, <1>8, <2>1, <3>1, <3>2 DEF RowComes, w
    <3>3. CASE Len(line[j]) # 1
      <4>1. Len(line[j]) - 1 \in 1 .. Len(line[j]) - 1 /\ ~(Len(line[j]) - 1 < i)
        BY <1>8, <2>1, <3>3
      <4>2. line'[j][Len(line[j]) - 1] = line[j][Len(line[j]) - 1 + 1]
        BY <1>8, <4>1
      <4>3. Len(line[j]) - 1 + 1 = Len(line[j])
        BY <1>8
      <4>. QED
        BY <1>8, <3>1, <3>3, <4>2, <4>3 DEF RowComes
    <3>. QED
      BY <3>2, <3>3
  <2>. QED
    BY <2>2, <2>3
<1>16. ASSUME NEW k \in Job \ {j} PROVE JobSound(k)'
  <2>1. rows'[k] = rows[k] /\ (k \in spoiled' <=> k \in spoiled)
    BY <1>4 DEF IInv, TypeOK
  <2>. QED
    BY <1>6, <1>8, <2>1, OthersSound DEF IInv
<1>. QED
  BY <1>10, <1>11, <1>12, <1>13, <1>14, <1>15, <1>16 DEF IInv, JobSound

LEMMA CommitSound == ASSUME IInv, NEW j \in Job, Commit(j) PROVE IInv'
<1>1. 1 \in DOMAIN line[j]
  <2>1. line[j] \in Seq(Writes) /\ line[j] # <<>>
    BY DEF IInv, TypeOK, Commit
  <2>. QED
    BY <2>1, EmptySeq, LenProperties
<1>2. spent' \in [DOMAIN Bound -> Nat]
  BY DEF IInv, TypeOK, Commit
<1>. QED
  BY <1>1, <1>2, WriteSound DEF Commit

LEMMA OvertakeSound == ASSUME IInv, NEW j \in Job, Overtake(j) PROVE IInv'
<1>1. PICK i \in 2 .. Len(line[j]) : Leave(j, i) /\ Write(j, line[j][i])
  BY DEF Overtake
<1>2. i \in DOMAIN line[j]
  BY LenProperties DEF IInv, TypeOK
<1>3. spent' \in [DOMAIN Bound -> Nat]
  BY DEF IInv, TypeOK, Overtake, Spend, Bound
<1>. QED
  BY <1>1, <1>2, <1>3, WriteSound DEF Overtake

\* OwnerFails: whatever it was doing, none of the owner's writes is left in line.
LEMMA OwnerFailsSound == ASSUME IInv, NEW j \in Job, OwnerFails(j) PROVE IInv'
<1>1. JobSound(j) /\ owner[j] \in [stage : Stage, io : {"open", "exec", "done"}]
  BY DEF IInv, TypeOK
<1>2. /\ owner[j].stage \notin {"none", "ended"} /\ Known(j)
      /\ line' \in [Job -> Seq(Writes)]
      /\ \A k \in Job \ {j} : line'[k] = line[k]
      /\ \A k \in DOMAIN line'[j] :
           line'[j][k].by # "owner" /\ \E m \in DOMAIN line[j] : line'[j][k] = line[j][m]
      /\ \A k, m \in DOMAIN line'[j] :
           k < m /\ line'[j][k].row.finished => line'[j][m].row.finished
      /\ progressing[j] > 0 \/ line'[j] # <<>> => Known(j)
  <2>1. CASE owner[j].io = "open" /\ UNCHANGED line
    BY <1>1, <2>1 DEF IInv, TypeOK, JobSound, OwnerSound, LineSound, EndSound
  <2>2. CASE \E i \in DOMAIN line[j] :
               line[j][i].by = "owner" /\ line' = [line EXCEPT ![j] = RemoveAt(@, i)]
    <3>1. PICK i \in DOMAIN line[j] :
            line[j][i].by = "owner" /\ line' = [line EXCEPT ![j] = RemoveAt(@, i)]
      BY <2>2
    <3>2. owner[j].io = "exec" /\ line[j] # <<>>
      BY <1>1, <3>1, EmptySeq DEF JobSound, LineSound
    <3>3. owner[j].stage \notin {"none", "ended"} /\ Known(j)
      BY <1>1, <3>2 DEF JobSound, OwnerSound
    <3>4. line' \in [Job -> Seq(Writes)] /\ \A k \in Job \ {j} : line'[k] = line[k]
      BY <3>1, RemovedSound
    <3>5. /\ \A k \in DOMAIN line'[j] : line'[j][k].by # "owner"
          /\ \A k \in DOMAIN line'[j] : \E m \in DOMAIN line[j] : line'[j][k] = line[j][m]
          /\ \A k, m \in DOMAIN line'[j] :
               k < m /\ line'[j][k].row.finished => line'[j][m].row.finished
      <4>1. /\ \A k \in DOMAIN line'[j] :
                 \E m \in DOMAIN line[j] : m # i /\ line'[j][k] = line[j][m]
            /\ \A k, m \in DOMAIN line'[j] :
                 line'[j][k].by = "owner" /\ line'[j][m].by = "owner" => k = m
            /\ \A k, m \in DOMAIN line'[j] :
                 k < m /\ line'[j][k].row.finished => line'[j][m].row.finished
            /\ line[j][i].by = "owner" => \A k \in DOMAIN line'[j] : line'[j][k].by # "owner"
        BY <3>1, RemovedOrdered
      <4>. QED
        BY <3>1, <4>1
    <3>. QED
      BY <3>3, <3>4, <3>5
  <2>. QED
    BY <2>1, <2>2 DEF OwnerFails
<1>3. \A k \in DOMAIN line'[j] : line'[j][k].row.finished => mem[j].finished
  BY <1>1, <1>2 DEF JobSound, EndSound
<1>4. /\ spent' \in [DOMAIN Bound -> Nat] /\ spoiled' = spoiled \cup {j} /\ spoiled' \subseteq Job
      /\ UNCHANGED <<rows, progressing, acked, told, cancelled>>
  BY DEF IInv, TypeOK, OwnerFails, Spend, Bound
<1>5. CASE owner[j].stage \in {"insert", "fail"}
  <2>1. /\ mem' = mem
        /\ owner' = [owner EXCEPT ![j] = [stage |-> "ended", io |-> "done"]]
    BY <1>5 DEF OwnerFails, GoTo
  <2>2. /\ owner' \in [Job -> [stage : Stage, io : {"open", "exec", "done"}]]
        /\ owner'[j] = [stage |-> "ended", io |-> "done"]
    BY <2>1 DEF IInv, TypeOK, Stage
  <2>3. TypeOK'
    BY <1>2, <1>4, <2>1, <2>2 DEF IInv, TypeOK
  <2>4. OwnerSound(j)' /\ LineSound(j)' /\ RowComes(j)'
    BY <1>2, <1>4, <2>1, <2>2 DEF OwnerSound, LineSound, RowComes, Known
  <2>5. RowSound(j)'
    <3>1. \A i \in DOMAIN line'[j] : rows[j] # NoStatus
      BY <1>1, <1>2 DEF JobSound, RowSound
    <3>. QED
      BY <1>1, <1>4, <2>2, <3>1 DEF JobSound, RowSound, Later
  <2>6. EndSound(j)'
    BY <1>2, <1>3, <1>4, <2>1 DEF EndSound
  <2>7. \A k \in Job \ {j} : JobSound(k)'
    BY <1>2, <1>4, <2>1, OthersSound DEF IInv, TypeOK
  <2>. QED
    BY <2>3, <2>4, <2>5, <2>6, <2>7 DEF IInv, JobSound
<1>6. CASE owner[j].stage \notin {"insert", "fail"}
  <2>1. Update(j, "fail") /\ "fail" \in Later
    BY <1>6 DEF OwnerFails, Later
  <2>2. rows[j] # NoStatus
    BY <1>1, <1>2, <1>6 DEF JobSound, RowSound, Stage, Later
  <2>3. /\ mem' \in [Job -> Status \cup {NoStatus}]
        /\ owner' \in [Job -> [stage : Stage, io : {"open", "exec", "done"}]]
        /\ JobSound(j)'
        /\ \A k \in Job \ {j} : mem'[k] = mem[k] /\ owner'[k] = owner[k]
    BY <1>2, <1>3, <1>4, <2>1, <2>2, UpdateSound
  <2>4. TypeOK'
    BY <1>2, <1>4, <2>3 DEF IInv, TypeOK
  <2>5. \A k \in Job \ {j} : JobSound(k)'
    BY <1>2, <1>4, <2>3, OthersSound DEF IInv
  <2>. QED
    BY <2>3, <2>4, <2>5 DEF IInv
<1>. QED
  BY <1>5, <1>6

\* ProgressFails: a write that nobody awaits is gone.
LEMMA ProgressFailsSound == ASSUME IInv, NEW j \in Job, ProgressFails(j) PROVE IInv'
<1>1. JobSound(j) /\ progressing[j] \in Nat
  BY DEF IInv, TypeOK
<1>2. /\ spent' \in [DOMAIN Bound -> Nat] /\ spoiled' = spoiled \cup {j} /\ spoiled' \subseteq Job
      /\ UNCHANGED <<mem, rows, owner, acked, told, cancelled>>
  BY DEF IInv, TypeOK, ProgressFails, Spend, Bound
<1>3. /\ progressing' \in [Job -> Nat] /\ line' \in [Job -> Seq(Writes)]
      /\ \A k \in Job \ {j} : line'[k] = line[k] /\ progressing'[k] = progressing[k]
      /\ \A k \in DOMAIN line'[j] : \E m \in DOMAIN line[j] : line'[j][k] = line[j][m]
      /\ \A k, m \in DOMAIN line'[j] :
           line'[j][k].by = "owner" /\ line'[j][m].by = "owner" => k = m
      /\ \A k, m \in DOMAIN line'[j] :
           k < m /\ line'[j][k].row.finished => line'[j][m].row.finished
      /\ (progressing[j] > 0 \/ line[j] # <<>>)
      /\ (progressing'[j] > 0 => progressing[j] > 0)
  <2>1. CASE /\ progressing[j] > 0
             /\ progressing' = [progressing EXCEPT ![j] = @ - 1]
             /\ UNCHANGED line
    <3>1. progressing' \in [Job -> Nat] /\ progressing'[j] = progressing[j] - 1
      BY <1>1, <2>1 DEF IInv, TypeOK
    <3>. QED
      BY <1>1, <2>1, <3>1 DEF IInv, TypeOK, JobSound, LineSound, EndSound
  <2>2. CASE /\ \E i \in DOMAIN line[j] :
                  line[j][i].by = "progress" /\ line' = [line EXCEPT ![j] = RemoveAt(@, i)]
             /\ UNCHANGED progressing
    <3>1. PICK i \in DOMAIN line[j] : line' = [line EXCEPT ![j] = RemoveAt(@, i)]
      BY <2>2
    <3>2. line[j] # <<>>
      BY <3>1, EmptySeq
    <3>3. line' \in [Job -> Seq(Writes)] /\ \A k \in Job \ {j} : line'[k] = line[k]
      BY <3>1, RemovedSound
    <3>4. /\ \A k \in DOMAIN line'[j] : \E m \in DOMAIN line[j] : line'[j][k] = line[j][m]
          /\ \A k, m \in DOMAIN line'[j] :
               line'[j][k].by = "owner" /\ line'[j][m].by = "owner" => k = m
          /\ \A k, m \in DOMAIN line'[j] :
               k < m /\ line'[j][k].row.finished => line'[j][m].row.finished
      <4>1. /\ \A k \in DOMAIN line'[j] :
                 \E m \in DOMAIN line[j] : m # i /\ line'[j][k] = line[j][m]
            /\ \A k, m \in DOMAIN line'[j] :
                 line'[j][k].by = "owner" /\ line'[j][m].by = "owner" => k = m
            /\ \A k, m \in DOMAIN line'[j] :
                 k < m /\ line'[j][k].row.finished => line'[j][m].row.finished
            /\ line[j][i].by = "owner" => \A k \in DOMAIN line'[j] : line'[j][k].by # "owner"
        BY <3>1, RemovedOrdered
      <4>. QED
        BY <3>1, <4>1
    <3>5. progressing' = progressing /\ progressing \in [Job -> Nat]
      BY <2>2 DEF IInv, TypeOK
    <3>. QED
      BY <3>2, <3>3, <3>4, <3>5
  <2>. QED
    BY <2>1, <2>2 DEF ProgressFails
<1>4. Known(j) /\ owner[j].stage # "none"
  BY <1>1, <1>3 DEF JobSound, OwnerSound
<1>5. TypeOK'
  BY <1>2, <1>3 DEF IInv, TypeOK
<1>6. OwnerSound(j)' /\ RowSound(j)' /\ LineSound(j)' /\ RowComes(j)'
  BY <1>1, <1>2, <1>3, <1>4 DEF JobSound, OwnerSound, RowSound, LineSound, RowComes, Known
<1>7. EndSound(j)'
  BY <1>1, <1>2, <1>3 DEF JobSound, EndSound
<1>8. \A k \in Job \ {j} : JobSound(k)'
  BY <1>2, <1>3, OthersSound DEF IInv
<1>. QED
  BY <1>5, <1>6, <1>7, <1>8 DEF IInv, JobSound

\* A job loaded from its row is that row again.
LEMMA FromRowSame == ASSUME NEW row \in Status PROVE FromRow(row) = row
  BY DEF FromRow, Status

LEMMA GetStatusSound == ASSUME IInv, NEW j \in Job, GetStatus(j) PROVE IInv'
<1>1. JobSound(j) /\ mem[j] \in Status \cup {NoStatus} /\ rows[j] \in Status \cup {NoStatus}
  BY DEF IInv, TypeOK
<1>. DEFINE status == IF Known(j) THEN mem[j] ELSE FromRow(rows[j])
<1>2. status = IF Known(j) THEN mem[j] ELSE rows[j]
  BY <1>1, FromRowSame DEF GetStatus
<1>3. status \in Status
  BY <1>1, <1>2 DEF GetStatus, Known
<1>4. /\ mem' = [mem EXCEPT ![j] = status]
      /\ told' = [told EXCEPT ![j] = IF status.finished THEN "finished" ELSE "active"]
      /\ UNCHANGED <<rows, owner, progressing, line, acked, cancelled, spoiled, spent>>
  BY DEF GetStatus
<1>. HIDE DEF status
<1>5. mem' \in [Job -> Status \cup {NoStatus}] /\ mem'[j] = status
  BY <1>3, <1>4 DEF IInv, TypeOK
<1>6. told' \in [Job -> {"nothing", "active", "finished"}]
  BY <1>4 DEF IInv, TypeOK
<1>7. TypeOK'
  BY <1>4, <1>5, <1>6 DEF IInv, TypeOK
<1>8. JobSound(j)'
  <2>1. CASE Known(j)
    BY <1>1, <1>2, <1>4, <1>5, <2>1 DEF JobSound, OwnerSound, RowSound, LineSound, EndSound,
       RowComes, Known, Settled
  <2>2. CASE ~Known(j)
    <3>1. /\ line[j] = <<>> /\ ~(progressing[j] > 0) /\ rows[j] # NoStatus
          /\ status = rows[j] /\ owner[j].stage # "none"
      BY <1>1, <1>2, <2>2 DEF JobSound, OwnerSound, GetStatus
    <3>. QED
      BY <1>1, <1>3, <1>4, <1>5, <3>1, StatusAssumption, EmptySeq DEF JobSound, OwnerSound,
         RowSound, LineSound, EndSound, RowComes, Known, Settled
  <2>. QED
    BY <2>1, <2>2
<1>9. \A k \in Job \ {j} : JobSound(k)'
  BY <1>4, OthersSound DEF IInv, TypeOK
<1>. QED
  BY <1>7, <1>8, <1>9 DEF IInv

LEMMA TaskCancelSound == ASSUME IInv, NEW j \in Job, TaskCancel(j) PROVE IInv'
<1>1. TypeOK'
  BY DEF IInv, TypeOK, TaskCancel
<1>2. \A k \in Job : JobSound(k)'
  BY OthersSound DEF IInv, TaskCancel
<1>. QED
  BY <1>1, <1>2 DEF IInv

\* Restart: what is in memory is what the rows say, and nothing is under way.
LEMMA RestartSound == ASSUME IInv, Restart PROVE IInv'
<1>1. \A j \in Job : ActiveRow(j) \in {NoStatus, rows[j]} /\ ActiveRow(j) \in Status \cup {NoStatus}
  BY FromRowSame DEF IInv, TypeOK, ActiveRow
<1>2. spent' \in [DOMAIN Bound -> Nat]
  BY DEF IInv, TypeOK, Restart, Spend, Bound
<1>3. TypeOK'
  BY <1>1, <1>2, EmptySeq DEF IInv, TypeOK, Restart, Stage
<1>4. ASSUME NEW j \in Job PROVE JobSound(j)'
  <2>1. /\ mem'[j] = ActiveRow(j) /\ progressing'[j] = 0 /\ line'[j] = <<>> /\ rows' = rows
        /\ owner'[j] = IF owner[j].stage = "none" THEN owner[j]
                       ELSE [stage |-> "ended", io |-> "done"]
        /\ acked' = acked /\ DOMAIN line'[j] = {}
    BY EmptySeq DEF Restart
  <2>2. JobSound(j) /\ owner'[j].stage \in {"none", "ended"} /\ owner'[j].io = "done"
    BY <2>1 DEF IInv, JobSound, OwnerSound
  <2>3. Settled(j) => ActiveRow(j) = NoStatus
    BY DEF Settled, ActiveRow
  <2>4. OwnerSound(j)' /\ LineSound(j)' /\ RowSound(j)'
    BY <1>1, <2>1, <2>2 DEF JobSound, OwnerSound, LineSound, RowSound, Later
  <2>5. EndSound(j)' /\ RowComes(j)'
    BY <1>1, <2>1, <2>3 DEF EndSound, RowComes, Known, Settled
  <2>. QED
    BY <2>4, <2>5 DEF JobSound
<1>. QED
  BY <1>3, <1>4 DEF IInv

\* Every step keeps the invariant.
LEMMA NextSound == IInv /\ [Next]_vars => IInv'
<1>. SUFFICES ASSUME IInv, [Next]_vars PROVE IInv'
  OBVIOUS
<1>1. ASSUME NEW j \in Job, Works(j) PROVE IInv'
  BY <1>1, BeginSound, GoOnSound, RaiseSound, EndSoundStep DEF Works
<1>2. ASSUME NEW j \in Job, Stores(j) PROVE IInv'
  BY <1>2, OpenSound, OpenProgressSound, CommitSound DEF Stores
<1>3. ASSUME NEW j \in Job, Overtake(j) \/ OwnerFails(j) \/ ProgressFails(j) PROVE IInv'
  BY <1>3, OvertakeSound, OwnerFailsSound, ProgressFailsSound
<1>4. ASSUME NEW j \in Job, Create(j) \/ Progress(j) \/ GetStatus(j) \/ TaskCancel(j) PROVE IInv'
  BY <1>4, CreateSound, ProgressSound, GetStatusSound, TaskCancelSound
<1>5. CASE UNCHANGED vars
  <2>1. TypeOK'
    BY <1>5 DEF IInv, TypeOK, vars
  <2>2. \A k \in Job : JobSound(k)'
    BY <1>5, OthersSound DEF IInv, vars
  <2>. QED
    BY <2>1, <2>2 DEF IInv
<1>. QED
  BY <1>1, <1>2, <1>3, <1>4, <1>5, RestartSound DEF Next

\* The invariant of the registry and its table.
THEOREM Invariance == Spec => []IInv
<1>1. Init => IInv
  BY InitSound
<1>2. IInv /\ [Next]_vars => IInv'
  BY NextSound
<1>. QED
  BY <1>1, <1>2, PTL DEF Spec

\* Memory, table, lines and bounds hold what they are made for.
THEOREM TypeCorrect == Spec => []TypeOK
<1>1. IInv => TypeOK
  BY DEF IInv
<1>. QED
  BY <1>1, Invariance, PTL

\* A job that a client may ask for or a coroutine may update has a row
\* (register_job awaits its INSERT).
THEOREM RowsExist == Spec => []Durable
<1>1. IInv => Durable
  BY DEF IInv, JobSound, RowSound, Durable, Later
<1>. QED
  BY <1>1, Invariance, PTL

\* With no write of a job under way, none overtaken and none refused, its row says what
\* memory says (update_status captures the shared object after its connection opens).
THEOREM RowsKeepUp == Spec => []RowKeepsUp
<1>1. IInv => RowKeepsUp
  BY DEF IInv, JobSound, RowComes, TypeOK, RowKeepsUp
<1>. QED
  BY <1>1, Invariance, PTL

\* A row that says "finished" goes on saying so and memory agrees, restarts included
\* (update_status, initialize, get_job).
THEOREM FinishedStays == Spec => FinishedSurvives
<1>1. ASSUME IInv, [Next]_vars, NEW j \in Job \ spoiled', Settled(j)
      PROVE  Settled(j)' /\ ~Active(j)'
  <2>1. IInv'
    BY <1>1, NextSound
  <2>2. ASSUME Settled(j)' PROVE ~Active(j)'
    BY <2>1, <2>2 DEF IInv, JobSound, EndSound, Active
  <2>3. CASE rows'[j] = rows[j]
    BY <1>1, <2>2, <2>3 DEF Settled
  <2>4. CASE rows'[j] # rows[j]
    <3>1. PICK k \in Job : Commit(k) \/ Overtake(k)
      BY <1>1, <2>4 DEF Next, vars, Works, Stores, Create, Begin, Progress, GoOn, Raise, End, Open,
         OpenProgress, OwnerFails, ProgressFails, GetStatus, TaskCancel, Restart
    <3>2. k = j
      BY <1>1, <2>4, <3>1 DEF Commit, Overtake, Write, IInv, TypeOK
    <3>3. Commit(j) /\ j \notin spoiled
      BY <1>1, <3>1, <3>2 DEF Overtake, Commit
    <3>4. 1 \in DOMAIN line[j] /\ line[j][1] \in Writes
      <4>1. line[j] \in Seq(Writes) /\ line[j] # <<>>
        BY <1>1, <3>3 DEF IInv, TypeOK, Commit
      <4>2. 1 \in 1 .. Len(line[j]) /\ DOMAIN line[j] = 1 .. Len(line[j])
        BY <4>1, EmptySeq, LenProperties
      <4>. QED
        BY <4>1, <4>2, ElementOfSeq
    <3>5. rows'[j] = line[j][1].row
      BY <1>1, <2>4, <3>3 DEF Commit, Write, IInv, TypeOK
    <3>6. line[j][1].row.finished /\ line[j][1].row # NoStatus
      BY <1>1, <3>3, <3>4, StatusAssumption DEF IInv, JobSound, EndSound, Writes
    <3>. QED
      BY <2>2, <3>5, <3>6 DEF Settled
  <2>. QED
    BY <2>3, <2>4
<1>2. IInv /\ [Next]_vars =>
        [\A j \in Job \ spoiled' : Settled(j) => Settled(j)' /\ ~Active(j)']_vars
  BY <1>1
<1>. QED
  BY <1>2, Invariance, PTL DEF Spec, FinishedSurvives
=============================================================================
