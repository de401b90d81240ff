--------------------------- MODULE Credits_proofs ---------------------------
(***************************************************************************)
(* Proofs about Credits for every set of accounts, jobs and coroutines and *)
(* every value of the costs and the bounds: sound amounts first, then that *)
(* the reservations implement TwoPhase as long as no database call raises  *)
(* and no failure is reported twice.                                       *)
(***************************************************************************)
EXTENDS Credits, SequenceTheorems, TLAPS

\* Amounts are never negative, neither in the tables nor in what a coroutine read and
\* may write later.
SoundAmounts == Nat \cup {Null}
SoundRows == [known : BOOLEAN, balance : SoundAmounts, free : Nat, date : Nat]
SoundReservations ==
  [job : Job, account : Account, free : Nat, balance : Nat,
   state : {"pending", "confirmed", "released"}]
SoundPositions ==
  [at : Places, then : Places, job : Job \cup {Null}, account : Account \cup {Null},
   row : SoundRows, news : [balance : SoundAmounts, free : SoundAmounts], index : Nat]

\* Where a coroutine works for a job.
ForJob == {"reserve", "lookup", "confirm", "confirming", "refund", "relookup", "retry"}

\* What a coroutine under way may rely on.
Known(pos) ==
  /\ pos.at # "idle" => pos.account \in Account
  /\ pos.at \in ForJob \/ (pos.at = "upsert" /\ pos.then \in ForJob) => pos.job \in Job

TablesSound == db \in [Account -> SoundRows] /\ res \in Seq(SoundReservations) /\ today \in Nat

CoroutinesSound ==
  /\ co \in [Coroutine -> SoundPositions]
  /\ \A c \in Coroutine : Known(co[c]) /\ co[c].index <= Len(res)

CountsSound ==
  /\ queued \in [Job -> Nat] /\ live \in [Job -> Nat] /\ retries \in [Job -> Nat]
  /\ spent \in [DOMAIN Bound -> Nat]

\* The job of the pass is still in the queue.
InPass(pos) ==
  LET Pass == {"reserve", "lookup", "confirm", "confirming"}
  IN pos.at \in Pass \/ (pos.at = "upsert" /\ pos.then \in Pass)

PassSound == InPass(co[Scheduler]) => queued[co[Scheduler].job] > 0

\* Inductive: Solvent alone is not, a coroutine may write back any row it has read.
IInv == TablesSound /\ CoroutinesSound /\ CountsSound /\ PassSound

\* Idle is a sound position.
LEMMA IdleSound == Idle \in SoundPositions /\ Known(Idle) /\ Idle.index = 0
  BY DEF Idle, SoundPositions, Known, Places, ForJob, Absent, NoNews, SoundRows, SoundAmounts

\* Initially accounts have what they are granted and coroutines have read nothing.
LEMMA InitSound == Init => IInv
<1>. SUFFICES ASSUME Init PROVE IInv
  OBVIOUS
<1>1. ASSUME NEW a \in Account PROVE db[a] \in SoundRows
  <2>1. db[a] \in {Absent} \cup {[known |-> TRUE, balance |-> b, free |-> Grant, date |-> 0] :
                                  b \in Balances \cup {Null}}
    BY DEF Init
  <2>2. CASE db[a] = Absent
    BY <2>2 DEF Absent, SoundRows, SoundAmounts
  <2>3. CASE db[a] # Absent
    <3>1. PICK b \in Balances \cup {Null} :
             db[a] = [known |-> TRUE, balance |-> b, free |-> Grant, date |-> 0]
      BY <2>1, <2>3
    <3>. QED
      BY <3>1, AmountAssumption DEF SoundRows, SoundAmounts
  <2>. QED
    BY <2>2, <2>3
<1>2. db = [a \in Account |-> db[a]]
  BY DEF Init
<1>3. TablesSound
  BY <1>1, <1>2, EmptySeq DEF Init, TablesSound
<1>4. CoroutinesSound /\ PassSound
  BY IdleSound, EmptySeq DEF Init, CoroutinesSound, PassSound, InPass, Coroutine, Idle
<1>5. CountsSound
  BY DEF Init, CountsSound
<1>. QED
  BY <1>3, <1>4, <1>5 DEF IInv

\* get_account returns a sound row.
LEMMA FetchedSound ==
  ASSUME IInv, NEW a \in Account
  PROVE  Fetched(a) \in SoundRows
<1>1. db[a] \in SoundRows /\ today \in Nat
  BY DEF IInv, TablesSound
<1>2. [db[a] EXCEPT !.free = Grant] \in SoundRows
  BY <1>1, AmountAssumption DEF SoundRows
<1>3. [[db[a] EXCEPT !.free = Grant] EXCEPT !.date = today] \in SoundRows
  BY <1>1, <1>2 DEF SoundRows
<1>. QED
  BY <1>1, <1>3, Zenon DEF Fetched

\* upsert_account of a sound row leaves a sound table.
LEMMA UpsertedSound ==
  ASSUME IInv, NEW a \in Account, NEW row \in SoundRows
  PROVE  Upserted(a, row) \in [Account -> SoundRows]
<1>. DEFINE b == IF row.balance = Null THEN db[a].balance ELSE row.balance
<1>1. b \in SoundAmounts
  BY DEF IInv, TablesSound, SoundRows
<1>2. [row EXCEPT !.known = TRUE] \in SoundRows
  BY DEF SoundRows
<1>3. [[row EXCEPT !.known = TRUE] EXCEPT !.balance = b] \in SoundRows
  BY <1>1, <1>2 DEF SoundRows
<1>4. db \in [Account -> SoundRows]
  BY DEF IInv, TablesSound
<1>5. Upserted(a, row) = [db EXCEPT ![a] = [[row EXCEPT !.known = TRUE] EXCEPT !.balance = b]]
  BY Zenon DEF Upserted
<1>. QED
  BY <1>3, <1>4, <1>5

\* A coroutine that moves to a sound position leaves the coroutines sound, as long as
\* no reservation disappears.
LEMMA MoveSound ==
  ASSUME IInv, NEW c \in Coroutine, NEW pos \in SoundPositions, Known(pos),
         pos.index <= Len(res), Len(res') \in Nat, Len(res) <= Len(res'),
         co' = [co EXCEPT ![c] = pos]
  PROVE  CoroutinesSound'
<1>1. co' \in [Coroutine -> SoundPositions]
  BY DEF IInv, CoroutinesSound
<1>2. ASSUME NEW b \in Coroutine PROVE Known(co'[b]) /\ co'[b].index <= Len(res')
  <2>1. Len(res) \in Nat /\ co[b].index \in Nat /\ pos.index \in Nat
    BY LenProperties DEF IInv, CoroutinesSound, TablesSound, SoundPositions
  <2>2. Known(co[b]) /\ co[b].index <= Len(res)
    BY DEF IInv, CoroutinesSound
  <2>3. co'[b] = IF b = c THEN pos ELSE co[b]
    BY DEF IInv, CoroutinesSound
  <2>. QED
    BY <2>1, <2>2, <2>3
<1>. QED
  BY <1>1, <1>2 DEF CoroutinesSound

\* A step moves one coroutine to a sound position and leaves sound tables and counts.  The
\* job of the pass stays in the queue: only the pass itself takes jobs out of it.
LEMMA StepSound ==
  ASSUME IInv, NEW c \in Coroutine, NEW pos \in SoundPositions, Known(pos),
         pos.index <= Len(res), co' = [co EXCEPT ![c] = pos],
         TablesSound', CountsSound', Len(res) <= Len(res'),
         c = Scheduler /\ InPass(pos) => queued'[pos.job] > 0,
         c # Scheduler => \A j \in Job : queued[j] <= queued'[j]
  PROVE  IInv'
<1>1. CoroutinesSound'
  BY MoveSound, LenProperties DEF TablesSound
<1>2. Scheduler \in Coroutine /\ co \in [Coroutine -> SoundPositions]
  BY DEF Coroutine, IInv, CoroutinesSound
<1>3. CASE c = Scheduler
  <2>1. co'[Scheduler] = pos
    BY <1>2, <1>3
  <2>. QED
    BY <1>1, <1>3, <2>1 DEF IInv, PassSound
<1>4. CASE c # Scheduler
  <2>1. co'[Scheduler] = co[Scheduler]
    BY <1>2, <1>4
  <2>2. InPass(co[Scheduler]) => co[Scheduler].job \in Job /\ queued[co[Scheduler].job] > 0
    BY <1>2 DEF IInv, PassSound, CoroutinesSound, Known, InPass, ForJob
  <2>3. InPass(co[Scheduler]) => queued'[co[Scheduler].job] > 0
    BY <1>4, <2>2 DEF IInv, CountsSound
  <2>. QED
    BY <1>1, <2>1, <2>3 DEF IInv, PassSound
<1>. QED
  BY <1>3, <1>4

\* GoOn to a sound position, possibly by way of "upsert", is such a step.
LEMMA GoOnSound ==
  ASSUME IInv, NEW c \in Coroutine, NEW pos \in SoundPositions, Known(pos), pos.at # "upsert",
         pos.account \in Account, pos.index <= Len(res), NEW write \in BOOLEAN,
         GoOn(c, pos, write), UNCHANGED <<db, res, today, jobVars>>,
         spent' \in [DOMAIN Bound -> Nat],
         c = Scheduler /\ InPass(pos) => queued[pos.job] > 0
  PROVE  IInv'
<1>. DEFINE via == [[pos EXCEPT !.at = "upsert"] EXCEPT !.then = pos.at]
<1>1. via \in SoundPositions /\ via.at = "upsert" /\ via.then = pos.at
      /\ via.index = pos.index /\ via.job = pos.job /\ via.account = pos.account
  BY DEF SoundPositions, Places
<1>2. Known(via) /\ (InPass(via) => InPass(pos))
  BY <1>1 DEF Known, InPass, ForJob
<1>3. TablesSound' /\ CountsSound' /\ queued' = queued /\ res' = res
  BY DEF IInv, TablesSound, CountsSound, jobVars, Bound
<1>4. Len(res) <= Len(res') /\ \A j \in Job : queued[j] <= queued'[j]
  BY <1>3, LenProperties DEF IInv, TablesSound, CountsSound
<1>5. co' = [co EXCEPT ![c] = IF write THEN via ELSE pos]
  BY Zenon DEF GoOn
<1>6. CASE write
  <2>1. co' = [co EXCEPT ![c] = via]
    BY <1>5, <1>6
  <2>. HIDE DEF via
  <2>. QED
    BY <1>1, <1>2, <1>3, <1>4, <2>1, StepSound
<1>7. CASE ~write
  <2>1. co' = [co EXCEPT ![c] = pos]
    BY <1>5, <1>7
  <2>. QED
    BY <1>3, <1>4, <2>1, StepSound
<1>. QED
  BY <1>6, <1>7

\* Where a coroutine stands is sound, and the pass has its job in the queue.
LEMMA AtSound ==
  ASSUME IInv, NEW c \in Coroutine
  PROVE  /\ co \in [Coroutine -> SoundPositions] /\ co[c] \in SoundPositions
         /\ Known(co[c]) /\ co[c].index <= Len(res) /\ Len(res) \in Nat
         /\ c = Scheduler /\ InPass(co[c]) => co[c].job \in Job /\ queued[co[c].job] > 0
<1>1. co \in [Coroutine -> SoundPositions] /\ Known(co[c]) /\ co[c].index <= Len(res)
  BY DEF IInv, CoroutinesSound
<1>2. Len(res) \in Nat
  BY LenProperties DEF IInv, TablesSound
<1>3. InPass(co[c]) => co[c].job \in Job
  BY <1>1 DEF Known, InPass, ForJob
<1>. QED
  BY <1>1, <1>2, <1>3 DEF IInv, PassSound

\* A step that leaves the tables and the counts of the jobs alone.
LEMMA SameTables ==
  ASSUME IInv, UNCHANGED <<db, res, today>>
  PROVE  TablesSound' /\ Len(res) <= Len(res')
BY LenProperties DEF IInv, TablesSound

LEMMA SameCounts ==
  ASSUME IInv, UNCHANGED jobVars, spent' \in [DOMAIN Bound -> Nat]
  PROVE  CountsSound' /\ \A j \in Job : queued[j] <= queued'[j]
BY DEF IInv, CountsSound, jobVars, Bound

\* A budget that is spent remains a number.
LEMMA SpendSound ==
  ASSUME IInv, NEW b \in DOMAIN Bound, Spend(b) \/ UNCHANGED spent
  PROVE  spent' \in [DOMAIN Bound -> Nat]
BY DEF IInv, CountsSound, Spend

\* A coroutine that is done, or fails, forgets what it read.
LEMMA ToIdle ==
  ASSUME IInv, NEW c \in Coroutine, co' = [co EXCEPT ![c] = Idle], TablesSound', CountsSound',
         Len(res) <= Len(res'), c # Scheduler => \A j \in Job : queued[j] <= queued'[j]
  PROVE  IInv'
<1>1. ~InPass(Idle)
  BY DEF InPass, Idle
<1>2. Idle.index <= Len(res)
  BY IdleSound, AtSound
<1>. QED
  BY <1>1, <1>2, IdleSound, StepSound

\* A coroutine that moves to another place of its handler, holding what it held.
LEMMA MoveOn ==
  ASSUME IInv, NEW c \in Coroutine, NEW at \in Places, co[c].at \notin {"idle", "upsert"},
         at # "upsert", at \in ForJob => co[c].at \in ForJob,
         InPass([co[c] EXCEPT !.at = at]) => InPass(co[c]),
         co' = [co EXCEPT ![c].at = at], TablesSound', CountsSound',
         Len(res) <= Len(res'), \A j \in Job : queued[j] <= queued'[j]
  PROVE  IInv'
<1>. DEFINE pos == [co[c] EXCEPT !.at = at]
<1>1. pos \in SoundPositions /\ pos.at = at /\ pos.job = co[c].job /\ pos.account = co[c].account
      /\ pos.index <= Len(res)
  BY AtSound DEF SoundPositions
<1>2. Known(pos)
  BY <1>1, AtSound DEF Known
<1>3. c = Scheduler /\ InPass(pos) => queued'[pos.job] > 0
  BY <1>1, AtSound DEF IInv, CountsSound
<1>4. co' = [co EXCEPT ![c] = pos]
  BY Zenon
<1>. HIDE DEF pos
<1>. QED
  BY <1>1, <1>2, <1>3, <1>4, StepSound

\* get_account on the way to `at`.
LEMMA GetAccountSound ==
  ASSUME IInv, NEW c \in Coroutine, NEW a \in Account, NEW at \in Places,
         co[c].at \notin {"idle", "upsert"}, at \notin {"idle", "upsert"},
         at \in ForJob => co[c].at \in ForJob,
         InPass([co[c] EXCEPT !.at = at]) => InPass(co[c]),
         GetAccount(c, a, at), UNCHANGED <<db, res, today, jobVars, spent>>
  PROVE  IInv'
<1>. DEFINE pos1 == [co[c] EXCEPT !.at = at]
            pos2 == [pos1 EXCEPT !.account = a]
            pos  == [pos2 EXCEPT !.row = Fetched(a)]
<1>1. pos1 \in SoundPositions /\ pos1.at = at /\ pos1.job = co[c].job /\ pos1.index = co[c].index
      /\ pos1.then = co[c].then
  BY AtSound DEF SoundPositions
<1>2. pos2 \in SoundPositions /\ pos2.at = at /\ pos2.job = co[c].job /\ pos2.index = co[c].index
      /\ pos2.then = co[c].then /\ pos2.account = a
  BY <1>1 DEF SoundPositions
<1>3. pos \in SoundPositions /\ pos.at = at /\ pos.job = co[c].job /\ pos.index = co[c].index
      /\ pos.then = co[c].then /\ pos.account = a
  BY <1>2, FetchedSound DEF SoundPositions
<1>4. Known(pos)
  BY <1>3, AtSound DEF Known
<1>5. c = Scheduler /\ InPass(pos) => queued[pos.job] > 0
  BY <1>1, <1>3, AtSound DEF InPass
<1>6. GoOn(c, pos, Stale(a))
  BY Zenon DEF GetAccount
<1>7. spent' \in [DOMAIN Bound -> Nat] /\ pos.index <= Len(res) /\ Stale(a) \in BOOLEAN
  BY <1>3, AtSound DEF IInv, CountsSound, Stale, TablesSound, SoundRows
<1>. HIDE DEF pos
<1>. QED
  BY <1>3, <1>4, <1>5, <1>6, <1>7, GoOnSound DEF jobVars

----------------------------------------------------------------------------
(* One lemma for each action that writes a table or a count *)

LEMMA WriteAccountSound ==
  ASSUME IInv, NEW c \in Coroutine, WriteAccount(c)
  PROVE  IInv'
<1>. DEFINE pos == [co[c] EXCEPT !.at = co[c].then]
<1>1. co[c].at = "upsert" /\ co[c].account \in Account /\ co[c].row \in SoundRows
  BY AtSound DEF WriteAccount, Known, SoundPositions
<1>2. pos \in SoundPositions /\ pos.at = co[c].then /\ pos.then = co[c].then
      /\ pos.job = co[c].job /\ pos.account = co[c].account /\ pos.index <= Len(res)
  BY AtSound DEF SoundPositions
<1>3. Known(pos) /\ (InPass(pos) => InPass(co[c]))
  BY <1>1, <1>2, AtSound DEF Known, InPass
<1>4. db' \in [Account -> SoundRows] /\ UNCHANGED <<res, today, jobVars, spent>>
  BY <1>1, UpsertedSound DEF WriteAccount
<1>5. TablesSound' /\ Len(res) <= Len(res')
  BY <1>4, AtSound DEF TablesSound, IInv
<1>6. CountsSound' /\ \A j \in Job : queued[j] <= queued'[j]
  BY <1>4, SameCounts DEF IInv, CountsSound
<1>7. c = Scheduler /\ InPass(pos) => queued'[pos.job] > 0
  BY <1>2, <1>3, <1>4, AtSound DEF jobVars
<1>8. co' = [co EXCEPT ![c] = pos]
  BY Zenon DEF WriteAccount
<1>. HIDE DEF pos
<1>. QED
  BY <1>2, <1>3, <1>5, <1>6, <1>7, <1>8, StepSound

LEMMA BeginReserveSound ==
  ASSUME IInv, NEW j \in Job, NEW a \in Account, BeginReserve(j, a)
  PROVE  IInv'
<1>. DEFINE row  == IF db[a].known THEN Fetched(a) ELSE Fresh
            pos1 == [[[Idle EXCEPT !.at = "reserve"] EXCEPT !.job = j] EXCEPT !.account = a]
            pos  == [pos1 EXCEPT !.row = row]
            free == [[pos EXCEPT !.at = "lookup"] EXCEPT !.row = Absent]
<1>0. Scheduler \in Coroutine
  BY DEF Coroutine
<1>1. row \in SoundRows /\ Absent \in SoundRows
  <2>1. Fresh \in SoundRows /\ Absent \in SoundRows
    BY AmountAssumption DEF Fresh, Absent, SoundRows, SoundAmounts, IInv, TablesSound
  <2>. QED
    BY <2>1, FetchedSound
<1>2. pos1 \in SoundPositions /\ pos1.at = "reserve" /\ pos1.job = j /\ pos1.account = a
      /\ pos1.index = 0 /\ pos1.then = "idle"
  BY IdleSound DEF SoundPositions, Places, Idle
<1>3. pos \in SoundPositions /\ pos.at = "reserve" /\ pos.job = j /\ pos.account = a
      /\ pos.index = 0 /\ pos.then = "idle"
  <2>. HIDE DEF row, pos1
  <2>. QED
    BY <1>1, <1>2 DEF SoundPositions
<1>4. free \in SoundPositions /\ free.at = "lookup" /\ free.job = j /\ free.account = a
      /\ free.index = 0 /\ free.then = "idle"
  <2>. HIDE DEF pos
  <2>. QED
    BY <1>1, <1>3 DEF SoundPositions, Places
<1>5. queued[j] > 0 /\ UNCHANGED <<db, res, today, jobVars>>
  BY DEF BeginReserve
<1>6. spent' \in [DOMAIN Bound -> Nat]
  BY DEF BeginReserve, IInv, CountsSound
<1>7. Known(pos) /\ Known(free) /\ pos.index <= Len(res) /\ free.index <= Len(res)
  <2>. HIDE DEF pos, free
  <2>. QED
    BY <1>0, <1>3, <1>4, AtSound DEF Known
<1>8. IF Cost[j] = 0
      THEN GoOn(Scheduler,
                [[Idle EXCEPT !.at = "reserve", !.job = j, !.account = a, !.row = row]
                   EXCEPT !.at = "lookup", !.row = Absent], FALSE)
      ELSE GoOn(Scheduler,
                [Idle EXCEPT !.at = "reserve", !.job = j, !.account = a, !.row = row],
                Stale(a) \/ ~db[a].known)
  BY DEF BeginReserve
<1>9. pos = [Idle EXCEPT !.at = "reserve", !.job = j, !.account = a, !.row = row]
  BY Zenon
<1>10. free = [pos EXCEPT !.at = "lookup", !.row = Absent]
  BY Zenon
<1>. HIDE DEF pos, free, row
<1>11. CASE Cost[j] = 0
  <2>1. GoOn(Scheduler, free, FALSE)
    BY <1>8, <1>9, <1>10, <1>11
  <2>. QED
    BY <1>0, <1>4, <1>5, <1>6, <1>7, <2>1, GoOnSound DEF jobVars
<1>12. CASE Cost[j] # 0
  <2>. DEFINE write == Stale(a) \/ ~db[a].known
  <2>1. GoOn(Scheduler, pos, write)
    BY <1>8, <1>9, <1>12
  <2>2. write \in BOOLEAN
    OBVIOUS
  <2>. HIDE DEF write
  <2>. QED
    BY <1>0, <1>3, <1>5, <1>6, <1>7, <2>1, <2>2, GoOnSound DEF jobVars
<1>. QED
  BY <1>11, <1>12

LEMMA DeductSound ==
  ASSUME IInv, Deduct
  PROVE  IInv'
<1>. DEFINE pos  == co[Scheduler]
            cost == Cost[pos.job]
            free == IF pos.row.free < cost THEN pos.row.free ELSE cost
            left == IF pos.row.balance = Null THEN Null ELSE pos.row.balance - (cost - free)
            new  == [job |-> pos.job, account |-> pos.account, free |-> free,
                     balance |-> cost - free, state |-> "pending"]
<1>1. Scheduler \in Coroutine /\ pos.at = "reserve" /\ pos.job \in Job /\ pos.account \in Account
      /\ pos.row \in SoundRows
  BY AtSound DEF Coroutine, Deduct, Known, ForJob, SoundPositions
<1>2. cost \in Nat /\ CanPay(pos.row, cost)
  BY <1>1, CostAssumption DEF Deduct
<1>3. free \in Nat /\ cost - free \in Nat /\ pos.row.free - free \in Nat /\ left \in SoundAmounts
  <2>1. pos.row.free \in Nat /\ pos.row.balance \in SoundAmounts
    BY <1>1 DEF SoundRows
  <2>. QED
    BY <1>2, <2>1, AmountAssumption DEF CanPay, Available, SoundAmounts
<1>4. new \in SoundReservations /\ res \in Seq(SoundReservations) /\ db \in [Account -> SoundRows]
  BY <1>1, <1>3 DEF SoundReservations, IInv, TablesSound
<1>5. db' = [db EXCEPT ![pos.account] =
               [[db[pos.account] EXCEPT !.free = pos.row.free - free] EXCEPT !.balance = left]]
      /\ res' = Append(res, new)
  BY Zenon DEF Deduct
<1>. HIDE DEF free, left, new
<1>6. db' \in [Account -> SoundRows]
  BY <1>1, <1>3, <1>4, <1>5 DEF SoundRows
<1>7. res' \in Seq(SoundReservations) /\ Len(res') = Len(res) + 1
  BY <1>4, <1>5, AppendProperties
<1>8. TablesSound' /\ Len(res) <= Len(res')
  BY <1>1, <1>6, <1>7, AtSound DEF Deduct, TablesSound, IInv
<1>9. CountsSound' /\ \A j \in Job : queued[j] <= queued'[j]
  BY SameCounts DEF Deduct, IInv, CountsSound
<1>10. InPass([co[Scheduler] EXCEPT !.at = "lookup"]) => InPass(co[Scheduler])
  BY <1>1 DEF InPass
<1>11. co' = [co EXCEPT ![Scheduler].at = "lookup"]
  BY DEF Deduct
<1>. QED
  BY <1>1, <1>8, <1>9, <1>10, <1>11, MoveOn DEF Places, ForJob

\* LatestIndex is a position of the table, or 0.
LEMMA LatestSound ==
  ASSUME IInv, NEW j \in Job
  PROVE  LatestIndex(j) \in Nat /\ LatestIndex(j) <= Len(res)
<1>1. DOMAIN res = 1 .. Len(res) /\ Len(res) \in Nat
  BY LenProperties DEF IInv, TablesSound
<1>2. Latest(j) # {} => LatestIndex(j) \in Latest(j)
  BY DEF LatestIndex
<1>3. Latest(j) = {} => LatestIndex(j) = 0
  BY DEF LatestIndex
<1>. QED
  BY <1>1, <1>2, <1>3 DEF Latest

\* Changing the state of a reservation keeps the table sound.
LEMMA StateSound ==
  ASSUME IInv, NEW i \in DOMAIN res, NEW s \in {"pending", "confirmed", "released"},
         res' = [res EXCEPT ![i].state = s]
  PROVE  res' \in Seq(SoundReservations) /\ Len(res') = Len(res)
<1>. DEFINE r == [res[i] EXCEPT !.state = s]
<1>1. res \in Seq(SoundReservations) /\ i \in 1 .. Len(res)
  BY LenProperties DEF IInv, TablesSound
<1>2. r \in SoundReservations
  <2>1. res[i] \in SoundReservations
    BY <1>1, ElementOfSeq
  <2>. QED
    BY <2>1 DEF SoundReservations
<1>3. res' = [res EXCEPT ![i] = r]
  BY Zenon
<1>. HIDE DEF r
<1>. QED
  BY <1>1, <1>2, <1>3, ExceptSeq

LEMMA FindPendingSound ==
  ASSUME IInv, FindPending
  PROVE  IInv'
<1>. DEFINE i    == LatestIndex(co[Scheduler].job)
            n    == IF i # 0 /\ res[i].state = "pending" THEN i ELSE 0
            pos1 == [co[Scheduler] EXCEPT !.at = "confirming"]
            pos  == [pos1 EXCEPT !.index = n]
<1>1. Scheduler \in Coroutine /\ co[Scheduler].at = "confirm" /\ co[Scheduler].job \in Job
      /\ co[Scheduler].account \in Account
  BY AtSound DEF Coroutine, FindPending, Known, ForJob
<1>2. n \in Nat /\ n <= Len(res)
  BY <1>1, LatestSound, AtSound
<1>3. co' = [co EXCEPT ![Scheduler] = pos]
  BY Zenon DEF FindPending
<1>. HIDE DEF n
<1>4. pos1 \in SoundPositions /\ pos1.at = "confirming" /\ pos1.job = co[Scheduler].job
      /\ pos1.account = co[Scheduler].account
  BY <1>1, AtSound DEF SoundPositions, Places
<1>5. pos \in SoundPositions /\ pos.at = "confirming" /\ pos.job = co[Scheduler].job
      /\ pos.account = co[Scheduler].account /\ pos.index = n
  <2>. HIDE DEF pos1
  <2>. QED
    BY <1>2, <1>4 DEF SoundPositions
<1>. HIDE DEF pos
<1>6. Known(pos)
  BY <1>1, <1>5 DEF Known
<1>7. TablesSound' /\ Len(res) <= Len(res') /\ CountsSound'
  BY SameTables, SameCounts DEF FindPending, IInv, CountsSound
<1>8. queued'[pos.job] > 0
  BY <1>1, <1>5, AtSound DEF FindPending, jobVars, InPass
<1>. QED
  BY <1>1, <1>2, <1>3, <1>5, <1>6, <1>7, <1>8, StepSound

LEMMA ConfirmSound ==
  ASSUME IInv, Confirm
  PROVE  IInv'
<1>. DEFINE i == co[Scheduler].index
            j == co[Scheduler].job
<1>1. Scheduler \in Coroutine /\ i \in Nat /\ i <= Len(res) /\ j \in Job /\ queued[j] > 0
  BY AtSound DEF Coroutine, Confirm, SoundPositions, InPass
<1>2. TablesSound' /\ Len(res) <= Len(res')
  <2>1. CASE i = 0
    BY <2>1, SameTables DEF Confirm
  <2>2. CASE i # 0
    <3>1. i \in DOMAIN res /\ Len(res) \in Nat
      BY <1>1, <2>2, LenProperties DEF IInv, TablesSound
    <3>2. res' = [res EXCEPT ![i].state = "confirmed"] /\ UNCHANGED <<db, today>>
      BY <2>2 DEF Confirm
    <3>3. res' \in Seq(SoundReservations) /\ Len(res') = Len(res)
      BY <3>1, <3>2, StateSound
    <3>. QED
      BY <3>1, <3>2, <3>3 DEF IInv, TablesSound
  <2>. QED
    BY <2>1, <2>2
<1>3. CountsSound'
  BY <1>1 DEF Confirm, IInv, CountsSound, Bound
<1>4. co' = [co EXCEPT ![Scheduler] = Idle]
  BY DEF Confirm
<1>. QED
  BY <1>1, <1>2, <1>3, <1>4, ToIdle

LEMMA BeginReleaseSound ==
  ASSUME IInv, NEW c \in Coroutine, NEW j \in Job, NEW a \in Account, BeginRelease(c, j, a)
  PROVE  IInv'
<1>. DEFINE i    == LatestIndex(j)
            n    == IF i # 0 /\ res[i].state # "released" THEN i ELSE 0
            pos1 == [[[Idle EXCEPT !.at = "refund"] EXCEPT !.job = j] EXCEPT !.account = a]
            pos  == [pos1 EXCEPT !.index = n]
<1>1. n \in Nat /\ n <= Len(res)
  BY LatestSound, AtSound
<1>2. co' = [co EXCEPT ![c] = pos]
  BY Zenon DEF BeginRelease
<1>. HIDE DEF n
<1>3. pos1 \in SoundPositions /\ pos1.at = "refund" /\ pos1.job = j /\ pos1.account = a
  BY IdleSound DEF SoundPositions, Places
<1>4. pos \in SoundPositions /\ pos.at = "refund" /\ pos.job = j /\ pos.account = a
      /\ pos.index = n
  <2>. HIDE DEF pos1
  <2>. QED
    BY <1>1, <1>3 DEF SoundPositions
<1>. HIDE DEF pos
<1>5. Known(pos) /\ ~InPass(pos)
  BY <1>4 DEF Known, InPass
<1>6. TablesSound' /\ Len(res) <= Len(res')
  BY SameTables DEF BeginRelease
<1>7. spent' \in [DOMAIN Bound -> Nat]
  BY SpendSound DEF BeginRelease, Bound
<1>8. queued' = queued /\ CountsSound'
  BY <1>7 DEF BeginRelease, IInv, CountsSound, Bound
<1>9. \A k \in Job : queued[k] <= queued'[k]
  BY <1>8 DEF IInv, CountsSound
<1>. QED
  BY <1>1, <1>2, <1>4, <1>5, <1>6, <1>8, <1>9, StepSound

LEMMA RefundSound ==
  ASSUME IInv, NEW c \in Coroutine, Refund(c)
  PROVE  IInv'
<1>. DEFINE i == co[c].index
            r == res[i]
<1>1. co[c].at = "refund" /\ i \in Nat /\ i <= Len(res)
  BY AtSound DEF Refund, SoundPositions
<1>2. TablesSound' /\ Len(res) <= Len(res')
  <2>1. CASE i = 0
    BY <2>1, SameTables DEF Refund
  <2>2. CASE i # 0
    <3>1. i \in DOMAIN res /\ Len(res) \in Nat /\ res \in Seq(SoundReservations)
      BY <1>1, <2>2, LenProperties DEF IInv, TablesSound
    <3>2. r \in SoundReservations /\ db \in [Account -> SoundRows]
      BY <3>1, ElementOfSeq, LenProperties DEF IInv, TablesSound
    <3>. DEFINE row == db[r.account]
                balance == IF row.balance = Null THEN Null ELSE row.balance + r.balance
                paid == [[row EXCEPT !.free = row.free + r.free] EXCEPT !.balance = balance]
    <3>3. row \in SoundRows /\ balance \in SoundAmounts /\ row.free + r.free \in Nat
      BY <3>2, AmountAssumption DEF SoundReservations, SoundRows, SoundAmounts
    <3>4. db' = [db EXCEPT ![r.account] = paid]
      BY <2>2, Zenon DEF Refund
    <3>5. res' = [res EXCEPT ![i].state = "released"] /\ UNCHANGED today
      BY <2>2 DEF Refund
    <3>6. paid \in SoundRows
      <4>. HIDE DEF row, balance
      <4>. QED
        BY <3>3 DEF SoundRows
    <3>. HIDE DEF paid
    <3>7. db' \in [Account -> SoundRows]
      BY <3>2, <3>4, <3>6
    <3>8. res' \in Seq(SoundReservations) /\ Len(res') = Len(res)
      BY <3>1, <3>5, StateSound
    <3>. QED
      BY <3>1, <3>5, <3>7, <3>8 DEF IInv, TablesSound
  <2>. QED
    BY <2>1, <2>2
<1>3. CountsSound' /\ \A j \in Job : queued[j] <= queued'[j]
  BY SameCounts DEF Refund, IInv, CountsSound
<1>4. ~InPass([co[c] EXCEPT !.at = "relookup"])
  BY AtSound DEF InPass, SoundPositions
<1>5. co' = [co EXCEPT ![c].at = "relookup"]
  BY DEF Refund
<1>. QED
  BY <1>1, <1>2, <1>3, <1>4, <1>5, MoveOn DEF Places, ForJob

LEMMA RetrySound ==
  ASSUME IInv, NEW c \in Coroutine, Retry(c)
  PROVE  IInv'
<1>1. co[c].job \in Job
  BY AtSound DEF Retry, Known, ForJob
<1>2. CountsSound' /\ \A j \in Job : queued[j] <= queued'[j]
  BY <1>1 DEF Retry, IInv, CountsSound, Bound
<1>3. TablesSound' /\ Len(res) <= Len(res') /\ co' = [co EXCEPT ![c] = Idle]
  BY SameTables DEF Retry
<1>. QED
  BY <1>2, <1>3, ToIdle

LEMMA ReadForRegisterSound ==
  ASSUME IInv, NEW c \in Coroutine, NEW a \in Account, ReadForRegister(c, a)
  PROVE  IInv'
<1>. DEFINE news == [balance |-> Null, free |-> IF db[a].known THEN Fetched(a).free ELSE Grant]
            pos1 == [[Idle EXCEPT !.at = "update"] EXCEPT !.account = a]
            pos2 == [pos1 EXCEPT !.row = Fetched(a)]
            pos  == [pos2 EXCEPT !.news = news]
<1>1. news \in [balance : SoundAmounts, free : SoundAmounts]
  BY FetchedSound, AmountAssumption DEF SoundAmounts, SoundRows
<1>2. pos1 \in SoundPositions /\ pos1.at = "update" /\ pos1.account = a /\ pos1.index = 0
  BY IdleSound DEF SoundPositions, Places
<1>3. GoOn(c, pos, Stale(a)) /\ UNCHANGED <<db, res, today, jobVars>>
  BY Zenon DEF ReadForRegister
<1>. HIDE DEF news
<1>4. pos2 \in SoundPositions /\ pos2.at = "update" /\ pos2.account = a /\ pos2.index = 0
  <2>. HIDE DEF pos1
  <2>. QED
    BY <1>2, FetchedSound DEF SoundPositions
<1>5. pos \in SoundPositions /\ pos.at = "update" /\ pos.account = a /\ pos.index = 0
  <2>. HIDE DEF pos2
  <2>. QED
    BY <1>1, <1>4 DEF SoundPositions
<1>. HIDE DEF pos
<1>6. Known(pos) /\ ~InPass(pos)
  BY <1>5 DEF Known, InPass, ForJob
<1>7. spent' \in [DOMAIN Bound -> Nat]
  BY SpendSound DEF ReadForRegister, Bound
<1>8. pos.index <= Len(res) /\ Stale(a) \in BOOLEAN
  BY <1>5, AtSound DEF IInv, TablesSound, SoundRows, Stale
<1>. QED
  BY <1>3, <1>5, <1>6, <1>7, <1>8, GoOnSound DEF jobVars

LEMMA ReadAccountUpdateSound ==
  ASSUME IInv, NEW c \in Coroutine, NEW a \in Account, NEW b \in Balances,
         ReadAccountUpdate(c, a, b)
  PROVE  IInv'
<1>. DEFINE news == [balance |-> b, free |-> Null]
            pos1 == [[Idle EXCEPT !.at = "update"] EXCEPT !.account = a]
            pos  == [pos1 EXCEPT !.news = news]
<1>1. news \in [balance : SoundAmounts, free : SoundAmounts]
  BY AmountAssumption DEF SoundAmounts
<1>2. pos1 \in SoundPositions /\ pos1.at = "update" /\ pos1.account = a /\ pos1.index = 0
  BY IdleSound DEF SoundPositions, Places
<1>3. co' = [co EXCEPT ![c] = pos]
  BY Zenon DEF ReadAccountUpdate
<1>. HIDE DEF news
<1>4. pos \in SoundPositions /\ pos.at = "update" /\ pos.account = a /\ pos.index = 0
  <2>. HIDE DEF pos1
  <2>. QED
    BY <1>1, <1>2 DEF SoundPositions
<1>. HIDE DEF pos
<1>5. Known(pos) /\ ~InPass(pos) /\ pos.index <= Len(res)
  BY <1>4, AtSound DEF Known, InPass, ForJob
<1>6. CountsSound' /\ \A j \in Job : queued[j] <= queued'[j]
  BY SpendSound, SameCounts DEF ReadAccountUpdate, Bound
<1>7. TablesSound' /\ Len(res) <= Len(res')
  BY SameTables DEF ReadAccountUpdate
<1>. QED
  BY <1>3, <1>4, <1>5, <1>6, <1>7, StepSound

LEMMA WriteReportSound ==
  ASSUME IInv, NEW c \in Coroutine, WriteReport(c)
  PROVE  IInv'
<1>. DEFINE row  == IF co[c].row.known THEN co[c].row ELSE Fresh
            news == co[c].news
            b    == IF news.balance = Null THEN row.balance ELSE news.balance
            f    == IF news.free = Null THEN row.free ELSE news.free
<1>1. co[c].account \in Account /\ co[c].row \in SoundRows
      /\ news \in [balance : SoundAmounts, free : SoundAmounts]
  BY AtSound DEF WriteReport, Known, SoundPositions
<1>2. row \in SoundRows
  BY <1>1, AmountAssumption DEF Fresh, SoundRows, SoundAmounts, IInv, TablesSound
<1>3. b \in SoundAmounts /\ f \in Nat
  BY <1>1, <1>2 DEF SoundRows, SoundAmounts
<1>4. WithNews(row, news) = [[row EXCEPT !.balance = b] EXCEPT !.free = f]
  BY Zenon DEF WithNews
<1>5. db' = Upserted(co[c].account, WithNews(row, news)) /\ UNCHANGED <<res, today, jobVars, spent>>
      /\ co' = [co EXCEPT ![c] = Idle]
  BY DEF WriteReport
<1>. HIDE DEF row, b, f
<1>6. WithNews(row, news) \in SoundRows
  BY <1>2, <1>3, <1>4 DEF SoundRows
<1>7. TablesSound' /\ Len(res) <= Len(res')
  BY <1>1, <1>5, <1>6, UpsertedSound, AtSound DEF IInv, TablesSound
<1>8. CountsSound' /\ \A j \in Job : queued[j] <= queued'[j]
  BY <1>5, SameCounts DEF IInv, CountsSound
<1>. QED
  BY <1>5, <1>7, <1>8, ToIdle

LEMMA RolloverSound ==
  ASSUME IInv, Rollover
  PROVE  IInv'
<1>1. TablesSound'
  BY DEF Rollover, IInv, TablesSound
<1>2. CoroutinesSound' /\ PassSound'
  BY DEF Rollover, IInv, CoroutinesSound, PassSound, jobVars
<1>3. CountsSound'
  BY DEF Rollover, IInv, CountsSound, jobVars, Bound
<1>. QED
  BY <1>1, <1>2, <1>3 DEF IInv

LEMMA DbFailsSound ==
  ASSUME IInv, NEW c \in Coroutine, DbFails(c)
  PROVE  IInv'
<1>1. TablesSound' /\ Len(res) <= Len(res') /\ co' = [co EXCEPT ![c] = Idle]
  BY SameTables DEF DbFails
<1>2. CountsSound' /\ \A j \in Job : queued[j] <= queued'[j]
  BY SpendSound, SameCounts DEF DbFails, Bound
<1>. QED
  BY <1>1, <1>2, ToIdle

----------------------------------------------------------------------------
(* The theorems *)

\* Every step keeps the invariant.
LEMMA NextSound == IInv /\ [Next]_vars => IInv'
<1>. SUFFICES ASSUME IInv, [Next]_vars PROVE IInv'
  OBVIOUS
<1>. Scheduler \in Coroutine
  BY DEF Coroutine
<1>1. CASE UNCHANGED vars
  BY <1>1 DEF vars, jobVars, IInv, TablesSound, CoroutinesSound, CountsSound, PassSound, Bound
<1>2. ASSUME NEW j \in Job, NEW a \in Account, BeginReserve(j, a) PROVE IInv'
  BY <1>2, BeginReserveSound
<1>3. CASE Insufficient
  <2>1. TablesSound' /\ Len(res) <= Len(res') /\ co' = [co EXCEPT ![Scheduler] = Idle]
    BY <1>3, SameTables DEF Insufficient
  <2>2. CountsSound'
    BY <1>3, SameCounts DEF Insufficient, IInv, CountsSound
  <2>. QED
    BY <2>1, <2>2, ToIdle
<1>4. CASE LookUp
  <2>1. co[Scheduler].at = "lookup" /\ co[Scheduler].account \in Account
    BY <1>4, AtSound DEF LookUp, Known
  <2>2. InPass([co[Scheduler] EXCEPT !.at = "confirm"]) => InPass(co[Scheduler])
    BY <2>1 DEF InPass
  <2>. QED
    BY <1>4, <2>1, <2>2, GetAccountSound DEF LookUp, Places, ForJob
<1>5. ASSUME NEW c \in Coroutine, LookUpAgain(c) PROVE IInv'
  <2>1. co[c].at = "relookup" /\ co[c].account \in Account
    BY <1>5, AtSound DEF LookUpAgain, Known
  <2>2. ~InPass([co[c] EXCEPT !.at = "retry"])
    BY <2>1, AtSound DEF InPass, SoundPositions
  <2>. QED
    BY <1>5, <2>1, <2>2, GetAccountSound DEF LookUpAgain, Places, ForJob
<1>6. ASSUME NEW c \in Coroutine, UpdateFromWorker(c) PROVE IInv'
  <2>1. co[c].at = "update" /\ co[c].account \in Account
    BY <1>6, AtSound DEF UpdateFromWorker, Known
  <2>2. ~InPass([co[c] EXCEPT !.at = "report"])
    BY <2>1, AtSound DEF InPass, SoundPositions
  <2>. QED
    BY <1>6, <2>1, <2>2, GetAccountSound DEF UpdateFromWorker, Places, ForJob
<1>. QED
  BY <1>1, <1>2, <1>3, <1>4, <1>5, <1>6, DeductSound, FindPendingSound, ConfirmSound,
     RolloverSound, WriteAccountSound, RefundSound, RetrySound, WriteReportSound, DbFailsSound,
     ReadForRegisterSound, BeginReleaseSound, ReadAccountUpdateSound
  DEF Next

\* Whatever a coroutine has read and will write back, from whatever cycle, is an account
\* without debt (account_dao.py:50-293).
THEOREM Invariance == Spec => []IInv
<1>1. Init => IInv
  BY InitSound
<1>2. IInv /\ [Next]_vars => IInv'
  BY NextSound
<1>. QED
  BY <1>1, <1>2, PTL DEF Spec

\* No account is ever overdrawn, with any number of handlers, reports, resets, late
\* failures and database errors (account_dao.py:192-223 and 266-288).
THEOREM NeverOverdrawn == Spec => []Solvent
<1>1. IInv => Solvent
  BY DEF IInv, TablesSound, SoundRows, SoundAmounts, Solvent, NonNegative
<1>. QED
  BY <1>1, Invariance, PTL

\* Tables, coroutines and counters always hold what they are made for.
THEOREM TypeCorrect == Spec => []TypeOK
<1>1. ASSUME IInv PROVE TypeOK
  <2>1. db \in [Account -> Rows]
    BY <1>1 DEF IInv, TablesSound, SoundRows, Rows, SoundAmounts, Amounts
  <2>2. res \in Seq(Reservations)
    <3>1. SoundReservations \subseteq Reservations
      BY DEF SoundReservations, Reservations
    <3>2. /\ DOMAIN res = 1 .. Len(res) /\ Len(res) \in Nat
          /\ res = [i \in 1 .. Len(res) |-> res[i]]
      BY <1>1, LenProperties DEF IInv, TablesSound
    <3>3. \A i \in 1 .. Len(res) : res[i] \in Reservations
      BY <1>1, <3>1, ElementOfSeq DEF IInv, TablesSound
    <3>. QED
      BY <3>2, <3>3, IsASeq
  <2>3. co \in [Coroutine -> Positions]
    <3>1. SoundPositions \subseteq Positions
      <4>1. SoundRows \subseteq Rows
        BY DEF SoundRows, Rows, SoundAmounts, Amounts
      <4>2. [balance : SoundAmounts, free : SoundAmounts] \subseteq [balance : Amounts, free : Amounts]
        BY DEF SoundAmounts, Amounts
      <4>. QED
        BY <4>1, <4>2 DEF SoundPositions, Positions
    <3>. QED
      BY <1>1, <3>1 DEF IInv, CoroutinesSound
  <2>. QED
    BY <1>1, <2>1, <2>2, <2>3 DEF IInv, TablesSound, CountsSound, TypeOK
<1>. QED
  BY <1>1, Invariance, PTL

----------------------------------------------------------------------------
(* Reservations in two phases *)

\* How far a coroutine is with the reservation of its job.  A coroutine that writes a row
\* of the accounts back is where it will go on.
Stage(pos) ==
  LET at == IF pos.at = "upsert" THEN pos.then ELSE pos.at
  IN CASE at \in {"lookup", "confirm"} -> "reserved"
       [] at = "confirming" -> "confirming"
       [] at = "refund" -> "refund"
       [] at \in {"relookup", "retry"} -> "refunded"
       [] OTHER -> "free"

\* What a coroutine has to do with a reservation: nothing, or its stage with the job and
\* the reservation it found.
NoPart == [stage |-> "free", job |-> Null, index |-> 0]
Part(pos) ==
  IF Stage(pos) = "free" THEN NoPart ELSE [stage |-> Stage(pos), job |-> pos.job, index |-> pos.index]

Sees(c) == Part(co[c])
Concerns(part, j) == part.stage # "free" /\ part.job = j
Fails(c, j) == Sees(c).stage \in {"refund", "refunded"} /\ Sees(c).job = j
Reserving(j) == Sees(Scheduler).stage \in {"reserved", "confirming"} /\ Sees(Scheduler).job = j

\* A job is in one place only: in the queue, dispatched, or with the one coroutine that
\* handles its failure.
InOnePlace(j) ==
  /\ queued[j] + live[j] <= 1
  /\ \A c \in Coroutine : Fails(c, j) =>
       queued[j] = 0 /\ live[j] = 0 /\ \A d \in Coroutine : Fails(d, j) => d = c

NoHold(j) == Hold(j) \in {"none", "released"}

\* What the latest reservation is while the job is there, and what the coroutine found.
QueuedFits(j) == queued[j] > 0 /\ ~Reserving(j) => NoHold(j)

ConfirmingFits(j) ==
  LET own == Sees(Scheduler)
  IN own.stage = "confirming" /\ own.job = j /\ own.index # 0 =>
       own.index = LatestIndex(j) /\ Hold(j) = "pending"

FailureFits(c, j) ==
  LET own == Sees(c)
  IN /\ own.stage = "refund" /\ own.job = j =>
          IF own.index = 0 THEN NoHold(j)
          ELSE own.index = LatestIndex(j) /\ Hold(j) \in {"pending", "confirmed"}
     /\ own.stage = "refunded" /\ own.job = j => NoHold(j)

Fits(j) ==
  /\ InOnePlace(j) /\ QueuedFits(j) /\ ConfirmingFits(j)
  /\ \A c \in Coroutine : FailureFits(c, j)

Clean == spent["late"] = 0 /\ spent["dbErrors"] = 0
GoesOn == \A c \in Coroutine : co[c].then # "upsert"

\* Inductive: the protocol is kept because only one coroutine at a time has the job, and
\* the reservation it found is still the latest when it writes.
PInv == IInv /\ (Clean => GoesOn /\ \A j \in Job : Fits(j))

----------------------------------------------------------------------------
(* Coroutines *)

\* The stage by the place.
LEMMA StageAt ==
  ASSUME NEW pos, NEW at, at = IF pos.at = "upsert" THEN pos.then ELSE pos.at
  PROVE  /\ at \in {"lookup", "confirm"} => Stage(pos) = "reserved"
         /\ at = "confirming" => Stage(pos) = "confirming"
         /\ at = "refund" => Stage(pos) = "refund"
         /\ at \in {"relookup", "retry"} => Stage(pos) = "refunded"
         /\ at \notin {"lookup", "confirm", "confirming", "refund", "relookup", "retry"} =>
              Stage(pos) = "free"
BY DEF Stage

\* What has no part in a reservation is free, and what has one says for which job.
LEMMA PartOf ==
  ASSUME NEW pos
  PROVE  /\ Part(pos).stage = Stage(pos)
         /\ Stage(pos) # "free" => Part(pos).job = pos.job /\ Part(pos).index = pos.index
         /\ Stage(pos) = "free" => Part(pos) = NoPart
BY DEF Part, NoPart

\* A step of c changes what is seen of c alone.
LEMMA SeesMove ==
  ASSUME IInv, NEW c \in Coroutine, NEW pos, co' = [co EXCEPT ![c] = pos]
  PROVE  Sees(c)' = Part(pos) /\ \A d \in Coroutine : d # c => Sees(d)' = Sees(d)
<1>1. co'[c] = pos /\ \A d \in Coroutine : d # c => co'[d] = co[d]
  BY DEF IInv, CoroutinesSound
<1>. QED
  BY <1>1, Zenon DEF Sees

\* Nobody comes back to "upsert" from there.
LEMMA GoesOnMove ==
  ASSUME IInv, GoesOn, NEW c \in Coroutine, NEW pos, co' = [co EXCEPT ![c] = pos],
         pos.then # "upsert"
  PROVE  GoesOn'
<1>1. co'[c] = pos /\ \A d \in Coroutine : d # c => co'[d] = co[d]
  BY DEF IInv, CoroutinesSound
<1>. QED
  BY <1>1 DEF GoesOn

\* GoOn by way of "upsert" is seen as going on.
LEMMA SeesGoOn ==
  ASSUME IInv, GoesOn, NEW c \in Coroutine, NEW pos, NEW write, GoOn(c, pos, write),
         pos \in SoundPositions, pos.at # "upsert", pos.then # "upsert"
  PROVE  GoesOn' /\ \E to : co' = [co EXCEPT ![c] = to] /\ Part(to) = Part(pos)
<1>. DEFINE via == [[pos EXCEPT !.at = "upsert"] EXCEPT !.then = pos.at]
            to  == IF write THEN via ELSE pos
<1>1. via.at = "upsert" /\ via.then = pos.at /\ via.job = pos.job /\ via.index = pos.index
  BY DEF SoundPositions
<1>2. co' = [co EXCEPT ![c] = to]
  BY Zenon DEF GoOn
<1>. HIDE DEF via
<1>3. Stage(via) = Stage(pos)
  BY <1>1, SMT DEF Stage
<1>4. Part(via) = Part(pos)
  BY <1>1, <1>3 DEF Part
<1>5. to.then # "upsert" /\ Part(to) = Part(pos)
  BY <1>1, <1>4
<1>. HIDE DEF to
<1>. QED
  BY <1>2, <1>5, GoesOnMove

\* A step that nobody sees and that changes neither reservations nor jobs.
LEMMA Unseen ==
  ASSUME PInv, IInv', GoesOn', \A d \in Coroutine : Sees(d)' = Sees(d),
         UNCHANGED <<res, queued, live>>, Clean, Clean'
  PROVE  PInv'
<1>1. \A j \in Job : LatestIndex(j)' = LatestIndex(j) /\ Hold(j)' = Hold(j)
  BY DEF LatestIndex, Latest, Hold
<1>2. Scheduler \in Coroutine
  BY DEF Coroutine
<1>3. ASSUME NEW j \in Job, Fits(j) PROVE Fits(j)'
  <2>1. \A d \in Coroutine : Fails(d, j)' <=> Fails(d, j)
    BY DEF Fails
  <2>2. Reserving(j)' <=> Reserving(j)
    BY <1>2 DEF Reserving
  <2>3. NoHold(j)' <=> NoHold(j)
    BY <1>1 DEF NoHold
  <2>4. InOnePlace(j)' /\ QueuedFits(j)'
    BY <1>3, <2>1, <2>2, <2>3 DEF Fits, InOnePlace, QueuedFits
  <2>5. ConfirmingFits(j)'
    BY <1>1, <1>2, <1>3 DEF Fits, ConfirmingFits
  <2>6. \A d \in Coroutine : FailureFits(d, j)'
    BY <1>1, <1>3, <2>3 DEF Fits, FailureFits
  <2>. QED
    BY <2>4, <2>5, <2>6 DEF Fits
<1>. QED
  BY <1>3 DEF PInv

\* A job that the step of c does not concern.
LEMMA Unconcerned ==
  ASSUME NEW c \in Coroutine, NEW j \in Job, Fits(j),
         \A d \in Coroutine : d # c => Sees(d)' = Sees(d),
         ~Concerns(Sees(c), j), ~Concerns(Sees(c)', j),
         queued'[j] = queued[j], live'[j] = live[j],
         LatestIndex(j)' = LatestIndex(j), Hold(j)' = Hold(j)
  PROVE  Fits(j)'
<1>1. Scheduler \in Coroutine
  BY DEF Coroutine
<1>2. \A d \in Coroutine : Fails(d, j)' <=> Fails(d, j)
  BY DEF Fails, Concerns
<1>3. Reserving(j)' <=> Reserving(j)
  BY <1>1 DEF Reserving, Concerns
<1>4. NoHold(j)' <=> NoHold(j)
  BY DEF NoHold
<1>5. InOnePlace(j)' /\ QueuedFits(j)'
  BY <1>2, <1>3, <1>4 DEF Fits, InOnePlace, QueuedFits
<1>6. ConfirmingFits(j)'
  BY <1>1 DEF Fits, ConfirmingFits, Concerns
<1>7. \A d \in Coroutine : FailureFits(d, j)'
  BY <1>4 DEF Fits, FailureFits, Concerns
<1>. QED
  BY <1>5, <1>6, <1>7 DEF Fits

\* A job of a pass is queued, and nobody handles a failure of it.
LEMMA PassAlone ==
  ASSUME IInv, InPass(co[Scheduler]), Fits(co[Scheduler].job)
  PROVE  /\ Scheduler \in Coroutine /\ co[Scheduler].job \in Job
         /\ queued[co[Scheduler].job] = 1 /\ live[co[Scheduler].job] = 0
         /\ \A d \in Coroutine : ~Fails(d, co[Scheduler].job)
<1>1. Scheduler \in Coroutine /\ co[Scheduler].job \in Job /\ queued[co[Scheduler].job] > 0
  BY AtSound DEF Coroutine
<1>2. queued[co[Scheduler].job] \in Nat /\ live[co[Scheduler].job] \in Nat
  BY <1>1 DEF IInv, CountsSound
<1>. QED
  BY <1>1, <1>2 DEF Fits, InOnePlace

----------------------------------------------------------------------------
(* The latest reservation of a job *)

\* It is one of the job's, and none of the job's comes after it.
LEMMA LatestIs ==
  ASSUME IInv, NEW j \in Job
  PROVE  /\ LatestIndex(j) # 0 => LatestIndex(j) \in DOMAIN res /\ res[LatestIndex(j)].job = j
         /\ \A i \in Latest(j) : LatestIndex(j) = i
         /\ Latest(j) = {} => LatestIndex(j) = 0
<1>1. DOMAIN res = 1 .. Len(res) /\ Len(res) \in Nat
  BY LenProperties DEF IInv, TablesSound
<1>2. ASSUME NEW i \in Latest(j), NEW k \in Latest(j) PROVE i = k
  BY <1>1, <1>2 DEF Latest
<1>3. \A i \in Latest(j) : LatestIndex(j) = i
  BY <1>2 DEF LatestIndex
<1>4. Latest(j) = {} => LatestIndex(j) = 0
  BY DEF LatestIndex
<1>. QED
  BY <1>3, <1>4 DEF Latest

\* A new reservation of a job is its latest.
LEMMA LatestAppended ==
  ASSUME IInv, NEW r \in SoundReservations, res' = Append(res, r), NEW j \in Job
  PROVE  /\ r.job = j => LatestIndex(j)' # 0 /\ Hold(j)' = r.state
         /\ r.job # j => LatestIndex(j)' = LatestIndex(j) /\ Hold(j)' = Hold(j)
<1>. DEFINE n == Len(res) + 1
<1>1. /\ DOMAIN res = 1 .. Len(res) /\ Len(res) \in Nat /\ DOMAIN res' = 1 .. n
      /\ res'[n] = r /\ \A i \in DOMAIN res : res'[i] = res[i]
  BY LenProperties, AppendProperties DEF IInv, TablesSound
<1>2. CASE r.job = j
  <2>1. Latest(j)' = {n}
    BY <1>1, <1>2 DEF Latest
  <2>2. LatestIndex(j)' = n
    BY <2>1 DEF LatestIndex
  <2>. QED
    BY <1>1, <1>2, <2>2 DEF Hold
<1>3. CASE r.job # j
  <2>1. Latest(j)' = Latest(j)
    BY <1>1, <1>3 DEF Latest
  <2>2. LatestIndex(j)' = LatestIndex(j)
    BY <2>1 DEF LatestIndex
  <2>3. LatestIndex(j) # 0 => res'[LatestIndex(j)] = res[LatestIndex(j)]
    BY <1>1, LatestIs
  <2>. QED
    BY <1>3, <2>2, <2>3 DEF Hold
<1>. QED
  BY <1>2, <1>3

\* The hold is read off the latest reservation.
LEMMA HoldSame ==
  ASSUME NEW k \in Job, LatestIndex(k)' = LatestIndex(k),
         LatestIndex(k) # 0 => res'[LatestIndex(k)] = res[LatestIndex(k)]
  PROVE  Hold(k)' = Hold(k)
BY DEF Hold

\* An UPDATE of the state of the latest reservation of a job is one of its hold alone.
LEMMA LatestUpdated ==
  ASSUME IInv, NEW j \in Job, LatestIndex(j) # 0, NEW s,
         res' = [res EXCEPT ![LatestIndex(j)].state = s], NEW k \in Job
  PROVE  LatestIndex(k)' = LatestIndex(k) /\ Hold(k)' = IF k = j THEN s ELSE Hold(k)
<1>. DEFINE i == LatestIndex(j)
<1>1. /\ DOMAIN res = 1 .. Len(res) /\ Len(res) \in Nat /\ i \in DOMAIN res /\ res[i].job = j
      /\ \A m \in DOMAIN res : res[m] \in SoundReservations
  BY LatestIs, LenProperties, ElementOfSeq DEF IInv, TablesSound
<1>2. /\ DOMAIN res' = DOMAIN res /\ res'[i] = [res[i] EXCEPT !.state = s]
      /\ \A m \in DOMAIN res : m # i => res'[m] = res[m]
  <2>. HIDE DEF i
  <2>1. res = [m \in DOMAIN res |-> res[m]] /\ res' = [res EXCEPT ![i].state = s]
    BY LenProperties DEF IInv, TablesSound, i
  <2>. QED
    BY <1>1, <2>1
<1>3. res'[i].state = s /\ \A m \in DOMAIN res : res'[m].job = res[m].job
  <2>. HIDE DEF i
  <2>. QED
    BY <1>1, <1>2 DEF SoundReservations
<1>4. Latest(k)' = Latest(k)
  BY <1>2, <1>3 DEF Latest
<1>5. LatestIndex(k)' = LatestIndex(k)
  BY <1>4 DEF LatestIndex
<1>6. CASE k = j
  BY <1>3, <1>5, <1>6 DEF Hold
<1>7. CASE k # j
  <2>1. LatestIndex(k) # 0 => LatestIndex(k) \in DOMAIN res /\ LatestIndex(k) # i
    BY <1>1, <1>7, LatestIs
  <2>2. LatestIndex(k) # 0 => res'[LatestIndex(k)] = res[LatestIndex(k)]
    BY <1>2, <2>1
  <2>3. Hold(k)' = Hold(k)
    BY <1>5, <2>2, HoldSame
  <2>. QED
    BY <1>5, <1>7, <2>3, Zenon
<1>. QED
  BY <1>6, <1>7

----------------------------------------------------------------------------
(* The steps that concern a reservation *)

\* A coroutine that moves on holds what it held.
LEMMA MoveSeen ==
  ASSUME IInv, GoesOn, NEW c \in Coroutine, NEW at, co' = [co EXCEPT ![c].at = at]
  PROVE  /\ GoesOn' /\ \A d \in Coroutine : d # c => Sees(d)' = Sees(d)
         /\ Sees(c)' = Part(co'[c]) /\ co'[c].at = at
         /\ co'[c].job = co[c].job /\ co'[c].index = co[c].index
<1>. DEFINE pos == [co[c] EXCEPT !.at = at]
<1>1. pos.at = at /\ pos.then = co[c].then /\ pos.job = co[c].job /\ pos.index = co[c].index
  BY AtSound DEF SoundPositions
<1>2. co' = [co EXCEPT ![c] = pos]
  BY Zenon
<1>3. pos.then # "upsert"
  BY <1>1 DEF GoesOn
<1>4. co'[c] = pos
  BY <1>2 DEF IInv, CoroutinesSound
<1>. HIDE DEF pos
<1>. QED
  BY <1>1, <1>2, <1>3, <1>4, SeesMove, GoesOnMove

\* A coroutine that is done has no part in anything.
LEMMA IdleSeen ==
  ASSUME IInv, GoesOn, NEW c \in Coroutine, co' = [co EXCEPT ![c] = Idle]
  PROVE  GoesOn' /\ Sees(c)' = NoPart /\ \A d \in Coroutine : d # c => Sees(d)' = Sees(d)
<1>1. Idle.at = "idle" /\ Idle.then = "idle"
  BY DEF Idle
<1>2. Stage(Idle) = "free"
  BY <1>1, StageAt
<1>. QED
  BY <1>1, <1>2, PartOf, SeesMove, GoesOnMove

\* The part of a coroutine, by the place it is at.
LEMMA PartAt ==
  ASSUME NEW pos
  PROVE  /\ pos.at \in {"idle", "reserve", "update", "report"} => Part(pos) = NoPart
         /\ pos.at \in {"lookup", "confirm"} => Part(pos).stage = "reserved"
         /\ pos.at = "confirming" => Part(pos).stage = "confirming"
         /\ pos.at = "refund" => Part(pos).stage = "refund"
         /\ pos.at \in {"relookup", "retry"} => Part(pos).stage = "refunded"
         /\ Part(pos).stage # "free" => Part(pos).job = pos.job /\ Part(pos).index = pos.index
<1>. DEFINE at == IF pos.at = "upsert" THEN pos.then ELSE pos.at
<1>1. pos.at # "upsert" => at = pos.at
  OBVIOUS
<1>2. /\ at \in {"lookup", "confirm"} => Stage(pos) = "reserved"
      /\ at = "confirming" => Stage(pos) = "confirming"
      /\ at = "refund" => Stage(pos) = "refund"
      /\ at \in {"relookup", "retry"} => Stage(pos) = "refunded"
      /\ at \notin {"lookup", "confirm", "confirming", "refund", "relookup", "retry"} =>
           Stage(pos) = "free"
  BY StageAt
<1>. HIDE DEF at
<1>. QED
  BY <1>1, <1>2, PartOf

\* The reservation of a pass is PENDING.
LEMMA DeductAppends ==
  ASSUME IInv, Deduct
  PROVE  \E r \in SoundReservations :
           r.job = co[Scheduler].job /\ r.state = "pending" /\ res' = Append(res, r)
<1>. DEFINE pos  == co[Scheduler]
            cost == Cost[pos.job]
            free == IF pos.row.free < cost THEN pos.row.free ELSE cost
            new  == [job |-> pos.job, account |-> pos.account, free |-> free,
                     balance |-> cost - free, state |-> "pending"]
<1>1. Scheduler \in Coroutine /\ pos.at = "reserve" /\ pos.job \in Job /\ pos.account \in Account
      /\ pos.row \in SoundRows
  BY AtSound DEF Coroutine, Deduct, Known, ForJob, SoundPositions
<1>2. cost \in Nat /\ pos.row.free \in Nat
  BY <1>1, CostAssumption DEF SoundRows
<1>3. free \in Nat /\ cost - free \in Nat
  BY <1>2
<1>4. res' = Append(res, new)
  BY Zenon DEF Deduct
<1>. HIDE DEF cost, free
<1>5. new \in SoundReservations /\ new.job = pos.job /\ new.state = "pending"
  BY <1>1, <1>3 DEF SoundReservations
<1>. QED
  BY <1>4, <1>5

\* Reserve: the job had no hold, for nobody else has the job.
LEMMA DeductFits ==
  ASSUME PInv, Deduct, Clean, NEW j \in Job, co[Scheduler].job = j
  PROVE  /\ GoesOn' /\ \A k \in Job : Fits(k)'
         /\ NoHold(j) /\ Hold(j)' = "pending"
         /\ \A k \in Job : k # j => Hold(k)' = Hold(k)
<1>1. /\ IInv /\ GoesOn /\ Scheduler \in Coroutine /\ co[Scheduler].at = "reserve"
      /\ co[Scheduler].job = j /\ InPass(co[Scheduler]) /\ \A k \in Job : Fits(k)
  BY AtSound DEF PInv, Coroutine, Deduct, InPass
<1>2. Sees(Scheduler).stage = "free"
  BY <1>1, PartAt DEF Sees, NoPart
<1>3. co' = [co EXCEPT ![Scheduler].at = "lookup"] /\ UNCHANGED <<queued, live>>
  BY DEF Deduct, jobVars
<1>4. /\ Sees(Scheduler)' = Part(co'[Scheduler]) /\ co'[Scheduler].at = "lookup"
      /\ co'[Scheduler].job = j
  BY <1>1, <1>3, MoveSeen
<1>6. Sees(Scheduler)'.stage = "reserved" /\ Sees(Scheduler)'.job = j
  BY <1>4, PartAt
<1>7. GoesOn' /\ \A d \in Coroutine : d # Scheduler => Sees(d)' = Sees(d)
  BY <1>1, <1>3, MoveSeen
<1>8. queued[j] = 1 /\ live[j] = 0 /\ \A d \in Coroutine : ~Fails(d, j)
  BY <1>1, PassAlone
<1>9. PICK r \in SoundReservations : r.job = j /\ r.state = "pending" /\ res' = Append(res, r)
  BY <1>1, DeductAppends
<1>10. /\ Hold(j)' = "pending"
       /\ \A k \in Job : k # j => LatestIndex(k)' = LatestIndex(k) /\ Hold(k)' = Hold(k)
  BY <1>1, <1>9, LatestAppended
<1>11. NoHold(j)
  BY <1>1, <1>2, <1>8 DEF Fits, QueuedFits, Reserving
<1>12. ASSUME NEW k \in Job, k # j PROVE Fits(k)'
  BY <1>1, <1>2, <1>3, <1>6, <1>7, <1>10, <1>12, Unconcerned DEF Concerns
<1>13. Fits(j)'
  <2>1. \A d \in Coroutine : ~Fails(d, j)'
    BY <1>6, <1>7, <1>8 DEF Fails
  <2>2. InOnePlace(j)'
    BY <1>3, <1>8, <2>1 DEF InOnePlace
  <2>3. QueuedFits(j)' /\ ConfirmingFits(j)'
    BY <1>6 DEF QueuedFits, ConfirmingFits, Reserving
  <2>4. \A d \in Coroutine : FailureFits(d, j)'
    BY <2>1 DEF FailureFits, Fails
  <2>. QED
    BY <2>2, <2>3, <2>4 DEF Fits
<1>. QED
  BY <1>7, <1>10, <1>11, <1>12, <1>13

\* What a step that writes no reservation leaves as it is.
LEMMA SameHolds ==
  ASSUME UNCHANGED res
  PROVE  \A j \in Job : LatestIndex(j)' = LatestIndex(j) /\ Hold(j)' = Hold(j)
BY DEF LatestIndex, Latest, Hold

\* The pass finds the reservation it made, or none.
LEMMA FindPendingFits ==
  ASSUME PInv, FindPending, Clean
  PROVE  GoesOn' /\ \A k \in Job : Fits(k)'
<1>. DEFINE j    == co[Scheduler].job
            i    == LatestIndex(j)
            n    == IF i # 0 /\ res[i].state = "pending" THEN i ELSE 0
            pos1 == [co[Scheduler] EXCEPT !.at = "confirming"]
            pos  == [pos1 EXCEPT !.index = n]
<1>1. /\ IInv /\ GoesOn /\ Scheduler \in Coroutine /\ co[Scheduler].at = "confirm" /\ j \in Job
      /\ InPass(co[Scheduler]) /\ \A k \in Job : Fits(k)
  BY AtSound DEF PInv, Coroutine, FindPending, InPass
<1>2. co' = [co EXCEPT ![Scheduler] = pos] /\ UNCHANGED <<res, queued, live>>
  BY Zenon DEF FindPending, jobVars
<1>3. n # 0 => n = LatestIndex(j) /\ Hold(j) = "pending"
  BY DEF Hold
<1>. HIDE DEF n
<1>4. pos.at = "confirming" /\ pos.then # "upsert" /\ pos.job = j /\ pos.index = n
  BY <1>1, AtSound DEF SoundPositions, GoesOn
<1>. HIDE DEF pos
<1>5. /\ Sees(Scheduler).stage = "reserved" /\ Sees(Scheduler).job = j
  BY <1>1, PartAt DEF Sees
<1>6. /\ GoesOn' /\ Sees(Scheduler)' = Part(pos)
      /\ \A d \in Coroutine : d # Scheduler => Sees(d)' = Sees(d)
  BY <1>1, <1>2, <1>4, SeesMove, GoesOnMove
<1>7. Sees(Scheduler)'.stage = "confirming" /\ Sees(Scheduler)'.job = j /\ Sees(Scheduler)'.index = n
  BY <1>4, <1>6, PartAt
<1>8. \A k \in Job : LatestIndex(k)' = LatestIndex(k) /\ Hold(k)' = Hold(k)
  BY <1>2, SameHolds
<1>9. queued[j] = 1 /\ live[j] = 0 /\ \A d \in Coroutine : ~Fails(d, j)
  BY <1>1, PassAlone
<1>10. ASSUME NEW k \in Job, k # j PROVE Fits(k)'
  BY <1>1, <1>2, <1>5, <1>6, <1>7, <1>8, <1>10, Unconcerned DEF Concerns
<1>11. ASSUME NEW k \in Job, k = j PROVE Fits(k)'
  <2>1. \A d \in Coroutine : ~Fails(d, k)'
    BY <1>6, <1>7, <1>9, <1>11 DEF Fails
  <2>2. InOnePlace(k)'
    BY <1>2, <1>9, <1>11, <2>1 DEF InOnePlace
  <2>3. QueuedFits(k)' /\ ConfirmingFits(k)'
    BY <1>3, <1>7, <1>8, <1>11 DEF QueuedFits, ConfirmingFits, Reserving
  <2>4. \A d \in Coroutine : FailureFits(d, k)'
    BY <2>1 DEF FailureFits, Fails
  <2>. QED
    BY <2>2, <2>3, <2>4 DEF Fits
<1>. QED
  BY <1>6, <1>10, <1>11

\* Confirm: a reservation that was found is still the latest, and still PENDING.
LEMMA ConfirmFits ==
  ASSUME PInv, Confirm, Clean, NEW j \in Job, co[Scheduler].job = j
  PROVE  /\ GoesOn' /\ \A k \in Job : Fits(k)'
         /\ \/ res' = res
            \/ /\ Hold(j) = "pending" /\ Hold(j)' = "confirmed"
               /\ \A k \in Job : k # j => Hold(k)' = Hold(k)
<1>. DEFINE i == co[Scheduler].index
<1>1. /\ IInv /\ GoesOn /\ Scheduler \in Coroutine /\ co[Scheduler].at = "confirming"
      /\ co[Scheduler].job = j /\ InPass(co[Scheduler]) /\ \A k \in Job : Fits(k)
  BY AtSound DEF PInv, Coroutine, Confirm, InPass
<1>2. /\ co' = [co EXCEPT ![Scheduler] = Idle]
      /\ queued' = [queued EXCEPT ![j] = @ - 1] /\ live' = [live EXCEPT ![j] = @ + 1]
      /\ res' = IF i = 0 THEN res ELSE [res EXCEPT ![i].state = "confirmed"]
  BY DEF Confirm
<1>3. Sees(Scheduler).stage = "confirming" /\ Sees(Scheduler).job = j /\ Sees(Scheduler).index = i
  BY <1>1, PartAt DEF Sees
<1>4. i # 0 => i = LatestIndex(j) /\ Hold(j) = "pending"
  BY <1>1, <1>3 DEF Fits, ConfirmingFits
<1>5. /\ \A k \in Job : LatestIndex(k)' = LatestIndex(k)
      /\ \A k \in Job : k # j => Hold(k)' = Hold(k)
      /\ i # 0 => Hold(j)' = "confirmed"
  <2>1. CASE i = 0
    BY <1>2, <2>1, SameHolds
  <2>2. CASE i # 0
    <3>1. LatestIndex(j) # 0 /\ res' = [res EXCEPT ![LatestIndex(j)].state = "confirmed"]
      BY <1>2, <1>4, <2>2
    <3>. QED
      BY <1>1, <3>1, LatestUpdated
  <2>. QED
    BY <2>1, <2>2
<1>6. queued[j] = 1 /\ live[j] = 0 /\ \A d \in Coroutine : ~Fails(d, j)
  BY <1>1, PassAlone
<1>7. /\ GoesOn' /\ Sees(Scheduler)' = NoPart
      /\ \A d \in Coroutine : d # Scheduler => Sees(d)' = Sees(d)
  BY <1>1, <1>2, IdleSeen
<1>8. queued'[j] = 0 /\ live'[j] = 1 /\ \A k \in Job : k # j => queued'[k] = queued[k] /\ live'[k] = live[k]
  BY <1>1, <1>2, <1>6 DEF IInv, CountsSound
<1>9. ASSUME NEW k \in Job, k # j PROVE Fits(k)'
  BY <1>1, <1>3, <1>5, <1>7, <1>8, <1>9, Unconcerned DEF Concerns, NoPart
<1>10. Fits(j)'
  <2>1. \A d \in Coroutine : ~Fails(d, j)'
    BY <1>6, <1>7 DEF Fails, NoPart
  <2>2. InOnePlace(j)'
    BY <1>8, <2>1 DEF InOnePlace
  <2>3. QueuedFits(j)' /\ ConfirmingFits(j)'
    BY <1>7, <1>8 DEF QueuedFits, ConfirmingFits, NoPart
  <2>4. \A d \in Coroutine : FailureFits(d, j)'
    BY <2>1 DEF FailureFits, Fails
  <2>. QED
    BY <2>2, <2>3, <2>4 DEF Fits
<1>. QED
  BY <1>2, <1>4, <1>5, <1>7, <1>9, <1>10

\* A failure takes the job's only dispatch, and finds its latest reservation.
LEMMA BeginReleaseFits ==
  ASSUME PInv, NEW c \in Coroutine, NEW j \in Job, NEW a \in Account, BeginRelease(c, j, a),
         Clean, Clean'
  PROVE  GoesOn' /\ \A k \in Job : Fits(k)'
<1>. DEFINE i    == LatestIndex(j)
            n    == IF i # 0 /\ res[i].state # "released" THEN i ELSE 0
            pos1 == [[[Idle EXCEPT !.at = "refund"] EXCEPT !.job = j] EXCEPT !.account = a]
            pos  == [pos1 EXCEPT !.index = n]
<1>1. IInv /\ GoesOn /\ co[c].at = "idle" /\ \A k \in Job : Fits(k)
  BY DEF PInv, BeginRelease
<1>2. co' = [co EXCEPT ![c] = pos] /\ UNCHANGED <<res, queued>>
  BY Zenon DEF BeginRelease
<1>3. /\ n # 0 => n = LatestIndex(j) /\ Hold(j) \in {"pending", "confirmed"}
      /\ n = 0 => NoHold(j)
  <2>1. i # 0 => res[i].state \in {"pending", "confirmed", "released"}
    <3>1. i # 0 => i \in 1 .. Len(res) /\ res \in Seq(SoundReservations)
      BY <1>1, LatestIs, LenProperties DEF IInv, TablesSound
    <3>2. i # 0 => res[i] \in SoundReservations
      BY <3>1, ElementOfSeq
    <3>. QED
      BY <3>2 DEF SoundReservations
  <2>. QED
    BY <2>1 DEF Hold, NoHold
<1>4. live[j] > 0 /\ live' = [live EXCEPT ![j] = @ - 1]
  <2>1. spent["late"] \in Nat
    BY <1>1 DEF IInv, CountsSound, Bound
  <2>2. ~Spend("late")
    BY <1>1, <2>1 DEF Spend, Clean, IInv, CountsSound, Bound
  <2>. QED
    BY <2>2 DEF BeginRelease
<1>. HIDE DEF n
<1>5. pos.at = "refund" /\ pos.then = "idle" /\ pos.job = j /\ pos.index = n
  BY DEF Idle
<1>. HIDE DEF pos
<1>6. Sees(c) = NoPart
  BY <1>1, PartAt DEF Sees
<1>7. /\ GoesOn' /\ Sees(c)' = Part(pos)
      /\ \A d \in Coroutine : d # c => Sees(d)' = Sees(d)
  BY <1>1, <1>2, <1>5, SeesMove, GoesOnMove
<1>8. Sees(c)'.stage = "refund" /\ Sees(c)'.job = j /\ Sees(c)'.index = n
  BY <1>5, <1>7, PartAt
<1>9. \A k \in Job : LatestIndex(k)' = LatestIndex(k) /\ Hold(k)' = Hold(k)
  BY <1>2, SameHolds
<1>10. /\ queued[j] = 0 /\ live[j] = 1 /\ live'[j] = 0
       /\ \A d \in Coroutine : ~Fails(d, j)
       /\ \A k \in Job : k # j => live'[k] = live[k]
  <2>1. queued[j] \in Nat /\ live \in [Job -> Nat]
    BY <1>1 DEF IInv, CountsSound
  <2>2. queued[j] = 0 /\ live[j] = 1
    BY <1>1, <1>4, <2>1 DEF Fits, InOnePlace
  <2>3. \A d \in Coroutine : ~Fails(d, j)
    BY <1>1, <1>4, <2>1, <2>2 DEF Fits, InOnePlace
  <2>. QED
    BY <1>4, <2>1, <2>2, <2>3
<1>11. ASSUME NEW k \in Job, k # j PROVE Fits(k)'
  BY <1>1, <1>2, <1>6, <1>7, <1>8, <1>9, <1>10, <1>11, Unconcerned DEF Concerns, NoPart
<1>12. Fits(j)'
  <2>1. \A d \in Coroutine : d # c => ~Fails(d, j)'
    BY <1>7, <1>10 DEF Fails
  <2>2. InOnePlace(j)' /\ QueuedFits(j)'
    BY <1>2, <1>10, <2>1 DEF InOnePlace, QueuedFits
  <2>3. ConfirmingFits(j)'
    <3>1. CASE c = Scheduler
      BY <1>8, <3>1 DEF ConfirmingFits
    <3>2. CASE c # Scheduler
      <4>1. Sees(Scheduler)' = Sees(Scheduler)
        BY <1>7, <3>2 DEF Coroutine
      <4>. QED
        BY <1>1, <1>9, <4>1 DEF Fits, ConfirmingFits
    <3>. QED
      BY <3>1, <3>2
  <2>4. FailureFits(c, j)'
    BY <1>3, <1>8, <1>9 DEF FailureFits, NoHold
  <2>5. \A d \in Coroutine : d # c => FailureFits(d, j)'
    BY <2>1 DEF FailureFits, Fails
  <2>. QED
    BY <2>2, <2>3, <2>4, <2>5 DEF Fits
<1>. QED
  BY <1>7, <1>11, <1>12

\* Release: what the handler found is still the latest, and still a hold.
LEMMA RefundFits ==
  ASSUME PInv, NEW c \in Coroutine, Refund(c), Clean, NEW j \in Job, co[c].job = j
  PROVE  /\ GoesOn' /\ \A k \in Job : Fits(k)'
         /\ \/ res' = res
            \/ /\ Hold(j) \in {"pending", "confirmed"} /\ Hold(j)' = "released"
               /\ \A k \in Job : k # j => Hold(k)' = Hold(k)
<1>. DEFINE i == co[c].index
<1>1. /\ IInv /\ GoesOn /\ co[c].at = "refund" /\ co[c].job = j /\ \A k \in Job : Fits(k)
  BY DEF PInv, Refund
<1>2. /\ co' = [co EXCEPT ![c].at = "relookup"] /\ UNCHANGED <<queued, live>>
      /\ i = 0 => res' = res
      /\ i # 0 => res' = [res EXCEPT ![i].state = "released"]
  BY DEF Refund, jobVars
<1>3. Sees(c).stage = "refund" /\ Sees(c).job = j /\ Sees(c).index = i
  BY <1>1, PartAt DEF Sees
<1>4. /\ i = 0 => NoHold(j)
      /\ i # 0 => i = LatestIndex(j) /\ Hold(j) \in {"pending", "confirmed"}
  BY <1>1, <1>3 DEF Fits, FailureFits
<1>5. /\ \A k \in Job : LatestIndex(k)' = LatestIndex(k)
      /\ \A k \in Job : k # j => Hold(k)' = Hold(k)
      /\ i # 0 => Hold(j)' = "released"
      /\ i = 0 => Hold(j)' = Hold(j)
  <2>1. CASE i = 0
    BY <1>2, <2>1, SameHolds
  <2>2. CASE i # 0
    <3>1. LatestIndex(j) # 0 /\ res' = [res EXCEPT ![LatestIndex(j)].state = "released"]
      BY <1>2, <1>4, <2>2
    <3>. QED
      BY <1>1, <2>2, <3>1, LatestUpdated
  <2>. QED
    BY <2>1, <2>2
<1>6. /\ GoesOn' /\ Sees(c)' = Part(co'[c]) /\ co'[c].at = "relookup" /\ co'[c].job = j
      /\ \A d \in Coroutine : d # c => Sees(d)' = Sees(d)
  BY <1>1, <1>2, MoveSeen
<1>7. Sees(c)'.stage = "refunded" /\ Sees(c)'.job = j
  BY <1>6, PartAt
<1>8. /\ queued[j] = 0 /\ live[j] = 0
      /\ \A d \in Coroutine : Fails(d, j) => d = c
  BY <1>1, <1>3 DEF Fits, InOnePlace, Fails
<1>9. ASSUME NEW k \in Job, k # j PROVE Fits(k)'
  BY <1>1, <1>2, <1>3, <1>5, <1>6, <1>7, <1>9, Unconcerned DEF Concerns
<1>10. Fits(j)'
  <2>1. \A d \in Coroutine : d # c => ~Fails(d, j)'
    BY <1>6, <1>8 DEF Fails
  <2>2. InOnePlace(j)' /\ QueuedFits(j)'
    BY <1>2, <1>8, <2>1 DEF InOnePlace, QueuedFits
  <2>3. ConfirmingFits(j)'
    <3>1. CASE c = Scheduler
      BY <1>7, <3>1 DEF ConfirmingFits
    <3>2. CASE c # Scheduler
      <4>1. Sees(Scheduler)' = Sees(Scheduler) /\ Scheduler \in Coroutine
        BY <1>6, <3>2 DEF Coroutine
      <4>2. Sees(Scheduler).stage = "confirming" /\ Sees(Scheduler).job = j => queued[j] > 0
        <5>1. Sees(Scheduler).stage = "confirming" => InPass(co[Scheduler]) /\ co[Scheduler].job = Sees(Scheduler).job
          BY DEF Sees, Part, NoPart, Stage, InPass
        <5>. QED
          BY <1>1, <5>1 DEF IInv, PassSound
      <4>. QED
        BY <1>8, <4>1, <4>2 DEF ConfirmingFits
    <3>. QED
      BY <3>1, <3>2
  <2>4. FailureFits(c, j)'
    BY <1>4, <1>5, <1>7 DEF FailureFits, NoHold
  <2>5. \A d \in Coroutine : d # c => FailureFits(d, j)'
    BY <2>1 DEF FailureFits, Fails
  <2>. QED
    BY <2>2, <2>3, <2>4, <2>5 DEF Fits
<1>. QED
  BY <1>2, <1>4, <1>5, <1>6, <1>9, <1>10

\* A retry queues the job again when its hold is gone, and nobody else has the job.
LEMMA RetryFits ==
  ASSUME PInv, NEW c \in Coroutine, Retry(c), Clean
  PROVE  GoesOn' /\ \A k \in Job : Fits(k)'
<1>. DEFINE j == co[c].job
<1>1. /\ IInv /\ GoesOn /\ co[c].at = "retry" /\ j \in Job /\ \A k \in Job : Fits(k)
  BY AtSound DEF PInv, Retry, Known, ForJob
<1>2. co' = [co EXCEPT ![c] = Idle] /\ UNCHANGED <<res, live>>
      /\ (queued' = [queued EXCEPT ![j] = @ + 1] \/ queued' = queued)
  BY DEF Retry
<1>3. Sees(c).stage = "refunded" /\ Sees(c).job = j
  BY <1>1, PartAt DEF Sees
<1>4. /\ queued[j] = 0 /\ live[j] = 0
      /\ \A d \in Coroutine : Fails(d, j) => d = c
  BY <1>1, <1>3 DEF Fits, InOnePlace, Fails
<1>5. NoHold(j)
  BY <1>1, <1>3 DEF Fits, FailureFits
<1>6. /\ GoesOn' /\ Sees(c)' = NoPart
      /\ \A d \in Coroutine : d # c => Sees(d)' = Sees(d)
  BY <1>1, <1>2, IdleSeen
<1>7. \A k \in Job : LatestIndex(k)' = LatestIndex(k) /\ Hold(k)' = Hold(k)
  BY <1>2, SameHolds
<1>8. queued'[j] \in {0, 1} /\ \A k \in Job : k # j => queued'[k] = queued[k]
  BY <1>1, <1>2, <1>4 DEF IInv, CountsSound
<1>. HIDE DEF j
<1>9. ASSUME NEW k \in Job, k # j PROVE Fits(k)'
  BY <1>1, <1>2, <1>3, <1>6, <1>7, <1>8, <1>9, Unconcerned DEF Concerns, NoPart
<1>10. ASSUME NEW k \in Job, k = j PROVE Fits(k)'
  <2>1. \A d \in Coroutine : ~Fails(d, k)'
    BY <1>4, <1>6, <1>10 DEF Fails, NoPart
  <2>2. InOnePlace(k)'
    BY <1>2, <1>4, <1>8, <1>10, <2>1 DEF InOnePlace
  <2>3. QueuedFits(k)'
    BY <1>5, <1>7, <1>10 DEF QueuedFits, NoHold
  <2>4. ConfirmingFits(k)'
    <3>1. CASE c = Scheduler
      BY <1>6, <3>1 DEF ConfirmingFits, NoPart
    <3>2. CASE c # Scheduler
      <4>1. Sees(Scheduler)' = Sees(Scheduler)
        BY <1>6, <3>2 DEF Coroutine
      <4>. QED
        BY <1>1, <1>7, <4>1 DEF Fits, ConfirmingFits
    <3>. QED
      BY <3>1, <3>2
  <2>5. \A d \in Coroutine : FailureFits(d, k)'
    BY <2>1 DEF FailureFits, Fails
  <2>. QED
    BY <2>2, <2>3, <2>4, <2>5 DEF Fits
<1>. QED
  BY <1>6, <1>9, <1>10

\* A pass takes up a queued job; one that costs nothing goes without a reservation.
LEMMA BeginReserveFits ==
  ASSUME PInv, NEW j \in Job, NEW a \in Account, BeginReserve(j, a), Clean
  PROVE  GoesOn' /\ \A k \in Job : Fits(k)'
<1>. DEFINE row  == IF db[a].known THEN Fetched(a) ELSE Fresh
            pos  == [[[[Idle EXCEPT !.at = "reserve"] EXCEPT !.job = j] EXCEPT !.account = a]
                       EXCEPT !.row = row]
            free == [[pos EXCEPT !.at = "lookup"] EXCEPT !.row = Absent]
            w    == Stale(a) \/ ~db[a].known
            via  == [[pos EXCEPT !.at = "upsert"] EXCEPT !.then = pos.at]
            to   == IF Cost[j] = 0 THEN free ELSE IF w THEN via ELSE pos
<1>1. /\ IInv /\ GoesOn /\ Scheduler \in Coroutine /\ co[Scheduler].at = "idle" /\ queued[j] > 0
      /\ \A k \in Job : Fits(k)
  BY DEF PInv, Coroutine, BeginReserve
<1>2. UNCHANGED <<res, queued, live>>
  BY DEF BeginReserve, jobVars
<1>3. co' = [co EXCEPT ![Scheduler] = to]
  <2>1. CASE Cost[j] = 0
    <3>1. GoOn(Scheduler, free, FALSE)
      BY <2>1, Zenon DEF BeginReserve
    <3>. HIDE DEF free
    <3>. QED
      BY <2>1, <3>1 DEF GoOn
  <2>2. CASE Cost[j] # 0
    <3>1. GoOn(Scheduler, pos, w)
      BY <2>2, Zenon DEF BeginReserve
    <3>. HIDE DEF w
    <3>2. co' = [co EXCEPT ![Scheduler] = IF w THEN via ELSE pos]
      BY <3>1, Zenon DEF GoOn
    <3>. QED
      BY <2>2, <3>2
  <2>. QED
    BY <2>1, <2>2
<1>. HIDE DEF row, w
<1>4. /\ free.at = "lookup" /\ free.then = "idle" /\ free.job = j
      /\ pos.at = "reserve" /\ pos.then = "idle" /\ pos.job = j
      /\ via.at = "upsert" /\ via.then = "reserve"
  BY DEF Idle
<1>. HIDE DEF free, pos, via
<1>5. /\ to.then # "upsert"
      /\ Part(to) = NoPart \/ (Part(to).stage = "reserved" /\ Part(to).job = j)
  <2>1. Part(free).stage = "reserved" /\ Part(free).job = j
    BY <1>4, PartAt
  <2>2. Part(pos) = NoPart
    BY <1>4, PartAt
  <2>3. Part(via) = NoPart
    BY <1>4, StageAt, PartOf
  <2>. QED
    BY <1>4, <2>1, <2>2, <2>3
<1>. HIDE DEF to
<1>6. Sees(Scheduler) = NoPart
  BY <1>1, PartAt DEF Sees
<1>7. /\ GoesOn' /\ Sees(Scheduler)' = Part(to)
      /\ \A d \in Coroutine : d # Scheduler => Sees(d)' = Sees(d)
  BY <1>1, <1>3, <1>5, SeesMove, GoesOnMove
<1>8. \A k \in Job : LatestIndex(k)' = LatestIndex(k) /\ Hold(k)' = Hold(k)
  BY <1>2, SameHolds
<1>9. ASSUME NEW k \in Job, k # j PROVE Fits(k)'
  BY <1>1, <1>2, <1>5, <1>6, <1>7, <1>8, <1>9, Unconcerned DEF Concerns, NoPart
<1>10. Fits(j)'
  <2>1. \A d \in Coroutine : Fails(d, j)' => Fails(d, j)
    BY <1>5, <1>7 DEF Fails, NoPart
  <2>2. InOnePlace(j)'
    BY <1>1, <1>2, <2>1 DEF Fits, InOnePlace
  <2>3. NoHold(j)
    BY <1>1, <1>6 DEF Fits, QueuedFits, Reserving, NoPart
  <2>4. QueuedFits(j)' /\ ConfirmingFits(j)'
    BY <1>5, <1>7, <1>8, <2>3 DEF QueuedFits, ConfirmingFits, NoHold, NoPart
  <2>5. \A d \in Coroutine : FailureFits(d, j)'
    BY <1>1, <1>5, <1>7, <1>8 DEF Fits, FailureFits, NoHold, NoPart
  <2>. QED
    BY <2>2, <2>4, <2>5 DEF Fits
<1>. QED
  BY <1>7, <1>9, <1>10

----------------------------------------------------------------------------
(* The steps nobody sees *)

\* get_account on the way to a place of the same stage.
LEMMA GetAccountUnseen ==
  ASSUME IInv, GoesOn, NEW c \in Coroutine, NEW a \in Account, NEW at \in Places,
         NEW S \in {{"lookup", "confirm"}, {"relookup", "retry"}, {"update", "report"}},
         co[c].at \in S, at \in S, GetAccount(c, a, at)
  PROVE  GoesOn' /\ \A d \in Coroutine : Sees(d)' = Sees(d)
<1>. DEFINE pos1 == [co[c] EXCEPT !.at = at]
            pos2 == [pos1 EXCEPT !.account = a]
            pos  == [pos2 EXCEPT !.row = Fetched(a)]
<1>1. pos1 \in SoundPositions /\ pos1.at = at /\ pos1.job = co[c].job /\ pos1.index = co[c].index
      /\ pos1.then = co[c].then
  BY AtSound DEF SoundPositions
<1>2. pos2 \in SoundPositions /\ pos2.at = at /\ pos2.job = co[c].job /\ pos2.index = co[c].index
      /\ pos2.then = co[c].then
  BY <1>1 DEF SoundPositions
<1>3. pos \in SoundPositions /\ pos.at = at /\ pos.job = co[c].job /\ pos.index = co[c].index
      /\ pos.then = co[c].then
  BY <1>2, FetchedSound DEF SoundPositions
<1>4. GoOn(c, pos, Stale(a))
  BY Zenon DEF GetAccount
<1>. HIDE DEF pos
<1>5. pos.at # "upsert" /\ pos.then # "upsert"
  BY <1>3 DEF GoesOn
<1>6. Part(pos) = Part(co[c])
  <2>1. Stage(pos) = Stage(co[c])
    BY <1>3, StageAt
  <2>. QED
    BY <1>3, <2>1 DEF Part
<1>7. GoesOn' /\ \E to : co' = [co EXCEPT ![c] = to] /\ Part(to) = Part(pos)
  BY <1>3, <1>4, <1>5, SeesGoOn
<1>8. PICK to : co' = [co EXCEPT ![c] = to] /\ Part(to) = Part(pos)
  BY <1>7
<1>9. Sees(c)' = Part(to) /\ \A d \in Coroutine : d # c => Sees(d)' = Sees(d)
  BY <1>8, SeesMove
<1>. QED
  BY <1>6, <1>7, <1>8, <1>9 DEF Sees

\* A write of an account on the way.
LEMMA WriteAccountUnseen ==
  ASSUME IInv, GoesOn, NEW c \in Coroutine, WriteAccount(c)
  PROVE  GoesOn' /\ \A d \in Coroutine : Sees(d)' = Sees(d)
<1>1. co[c].at = "upsert" /\ co' = [co EXCEPT ![c].at = co[c].then] /\ co[c].then # "upsert"
  BY DEF WriteAccount, GoesOn
<1>2. /\ GoesOn' /\ \A d \in Coroutine : d # c => Sees(d)' = Sees(d)
      /\ Sees(c)' = Part(co'[c]) /\ co'[c].at = co[c].then
      /\ co'[c].job = co[c].job /\ co'[c].index = co[c].index
  BY <1>1, MoveSeen
<1>3. Stage(co'[c]) = Stage(co[c])
  BY <1>1, <1>2, StageAt
<1>. QED
  BY <1>2, <1>3 DEF Part, Sees

\* A coroutine that had no part in a reservation and gets none.
LEMMA FreeUnseen ==
  ASSUME IInv, GoesOn, NEW c \in Coroutine, NEW pos, co' = [co EXCEPT ![c] = pos],
         Sees(c) = NoPart, Part(pos) = NoPart, pos.then # "upsert"
  PROVE  GoesOn' /\ \A d \in Coroutine : Sees(d)' = Sees(d)
BY SeesMove, GoesOnMove

\* A worker's report has nothing to do with reservations.
LEMMA ReportUnseen ==
  ASSUME IInv, GoesOn, NEW c \in Coroutine,
         \/ \E a \in Account : ReadForRegister(c, a)
         \/ \E a \in Account, b \in Balances : ReadAccountUpdate(c, a, b)
         \/ WriteReport(c)
  PROVE  GoesOn' /\ \A d \in Coroutine : Sees(d)' = Sees(d)
<1>1. Sees(c) = NoPart
  BY PartAt DEF Sees, ReadForRegister, ReadAccountUpdate, WriteReport
<1>2. ASSUME NEW a \in Account, ReadForRegister(c, a)
      PROVE  \E pos : co' = [co EXCEPT ![c] = pos] /\ Part(pos) = NoPart /\ pos.then # "upsert"
  <2>. DEFINE news == [balance |-> Null, free |-> IF db[a].known THEN Fetched(a).free ELSE Grant]
              pos  == [[[[Idle EXCEPT !.at = "update"] EXCEPT !.account = a]
                         EXCEPT !.row = Fetched(a)] EXCEPT !.news = news]
              via  == [[pos EXCEPT !.at = "upsert"] EXCEPT !.then = pos.at]
              to   == IF Stale(a) THEN via ELSE pos
  <2>1. co' = [co EXCEPT ![c] = to]
    <3>1. GoOn(c, pos, Stale(a))
      BY <1>2, Zenon DEF ReadForRegister
    <3>. QED
      BY <3>1, Zenon DEF GoOn
  <2>. HIDE DEF news
  <2>2. /\ pos.at = "update" /\ pos.then = "idle"
        /\ via.at = "upsert" /\ via.then = "update"
    BY DEF Idle
  <2>. HIDE DEF pos, via
  <2>3. Part(pos) = NoPart /\ Part(via) = NoPart
    BY <2>2, StageAt, PartOf
  <2>4. Part(to) = NoPart /\ to.then # "upsert"
    BY <2>2, <2>3
  <2>. HIDE DEF to
  <2>. QED
    BY <2>1, <2>4
<1>3. ASSUME NEW a \in Account, NEW b \in Balances, ReadAccountUpdate(c, a, b)
      PROVE  \E pos : co' = [co EXCEPT ![c] = pos] /\ Part(pos) = NoPart /\ pos.then # "upsert"
  <2>. DEFINE pos == [[[Idle EXCEPT !.at = "update"] EXCEPT !.account = a]
                        EXCEPT !.news = [balance |-> b, free |-> Null]]
  <2>1. co' = [co EXCEPT ![c] = pos]
    BY <1>3, Zenon DEF ReadAccountUpdate
  <2>2. pos.at = "update" /\ pos.then = "idle"
    BY DEF Idle
  <2>. HIDE DEF pos
  <2>3. Part(pos) = NoPart
    BY <2>2, StageAt, PartOf
  <2>. QED
    BY <2>1, <2>2, <2>3
<1>4. ASSUME WriteReport(c)
      PROVE  \E pos : co' = [co EXCEPT ![c] = pos] /\ Part(pos) = NoPart /\ pos.then # "upsert"
  <2>1. co' = [co EXCEPT ![c] = Idle] /\ Idle.at = "idle" /\ Idle.then = "idle"
    BY <1>4 DEF WriteReport, Idle
  <2>. QED
    BY <2>1, PartAt
<1>5. PICK pos : co' = [co EXCEPT ![c] = pos] /\ Part(pos) = NoPart /\ pos.then # "upsert"
  BY <1>2, <1>3, <1>4
<1>. QED
  BY <1>1, <1>5, FreeUnseen

----------------------------------------------------------------------------
(* The theorems *)

\* Nobody is under way at first, every job is queued once, and nothing is reserved.
LEMMA InitFits == Init => PInv
<1>. SUFFICES ASSUME Init PROVE PInv
  OBVIOUS
<1>1. \A c \in Coroutine : co[c].at = "idle" /\ co[c].then = "idle"
  BY DEF Init, Idle
<1>2. \A c \in Coroutine : Sees(c) = NoPart
  BY <1>1, PartAt DEF Sees
<1>3. Scheduler \in Coroutine
  BY DEF Coroutine
<1>4. ASSUME NEW j \in Job PROVE Fits(j)
  <2>1. Latest(j) = {}
    BY EmptySeq DEF Init, Latest
  <2>2. NoHold(j)
    BY <2>1 DEF LatestIndex, Hold, NoHold
  <2>. QED
    BY <1>2, <1>3, <2>2 DEF Init, Fits, InOnePlace, QueuedFits, ConfirmingFits, FailureFits, Fails,
       NoPart
<1>. QED
  BY <1>1, <1>4, InitSound DEF PInv, GoesOn

\* What was spent is not given back.
LEMMA StaysSpent == IInv /\ [Next]_vars /\ Clean' => Clean
<1>. SUFFICES ASSUME IInv, [Next]_vars, Clean' PROVE Clean
  OBVIOUS
<1>1. spent \in [DOMAIN Bound -> Nat]
  BY DEF IInv, CountsSound
<1>2. CASE spent' = spent
  BY <1>2 DEF Clean
<1>3. ASSUME NEW b \in DOMAIN Bound, Spend(b) PROVE Clean
  <2>1. spent["late"] <= spent'["late"] /\ spent["dbErrors"] <= spent'["dbErrors"]
    BY <1>1, <1>3 DEF Spend, Bound
  <2>2. spent["late"] \in Nat /\ spent["dbErrors"] \in Nat
    BY <1>1 DEF Bound
  <2>. QED
    BY <2>1, <2>2 DEF Clean
<1>4. CASE UNCHANGED vars
  BY <1>2, <1>4 DEF vars
<1>5. ASSUME Next PROVE spent' = spent \/ \E b \in DOMAIN Bound : Spend(b)
  BY <1>5 DEF Next, BeginReserve, Insufficient, Deduct, LookUp, FindPending, Confirm, Rollover,
     WriteAccount, Refund, LookUpAgain, Retry, UpdateFromWorker, WriteReport, DbFails,
     ReadForRegister, BeginRelease, ReadAccountUpdate, Bound
<1>. QED
  BY <1>2, <1>3, <1>4, <1>5

\* Every step keeps the invariant.
LEMMA NextFits == PInv /\ [Next]_vars => PInv'
<1>. SUFFICES ASSUME PInv, [Next]_vars PROVE PInv'
  OBVIOUS
<1>1. IInv /\ IInv' /\ (Clean' => Clean)
  BY NextSound, StaysSpent DEF PInv
<1>2. CASE ~Clean'
  BY <1>1, <1>2 DEF PInv
<1>3. CASE Clean'
  <2>. USE <1>3
  <2>. Scheduler \in Coroutine
    BY DEF Coroutine
  <2>1. Clean /\ GoesOn
    BY <1>1 DEF PInv
  <2>2. ASSUME GoesOn', \A j \in Job : Fits(j)' PROVE PInv'
    BY <1>1, <2>2 DEF PInv
  <2>3. ASSUME UNCHANGED <<res, queued, live>>, GoesOn', \A d \in Coroutine : Sees(d)' = Sees(d)
        PROVE  PInv'
    BY <1>1, <2>1, <2>3, Unseen
  <2>4. CASE UNCHANGED vars \/ Rollover
    <3>1. UNCHANGED <<res, queued, live, co>>
      BY <2>4 DEF vars, jobVars, Rollover
    <3>2. GoesOn' /\ \A d \in Coroutine : Sees(d)' = Sees(d)
      BY <2>1, <3>1 DEF GoesOn, Sees
    <3>. QED
      BY <2>3, <3>1, <3>2
  <2>5. CASE Insufficient
    <3>1. /\ co[Scheduler].at = "reserve" /\ co' = [co EXCEPT ![Scheduler] = Idle]
          /\ UNCHANGED <<res, queued, live>> /\ Idle.at = "idle" /\ Idle.then = "idle"
      BY <2>5 DEF Insufficient, jobVars, Idle
    <3>2. Sees(Scheduler) = NoPart /\ Part(Idle) = NoPart
      BY <3>1, PartAt DEF Sees
    <3>. QED
      BY <1>1, <2>1, <2>3, <3>1, <3>2, FreeUnseen
  <2>6. CASE LookUp
    <3>1. /\ co[Scheduler].at = "lookup" /\ co[Scheduler].account \in Account
          /\ UNCHANGED <<res, queued, live>>
          /\ GetAccount(Scheduler, co[Scheduler].account, "confirm")
      BY <1>1, <2>6, AtSound DEF LookUp, Known, jobVars
    <3>. QED
      BY <1>1, <2>1, <2>3, <3>1, GetAccountUnseen DEF Places
  <2>7. ASSUME NEW c \in Coroutine, LookUpAgain(c) PROVE PInv'
    <3>1. /\ co[c].at = "relookup" /\ co[c].account \in Account
          /\ UNCHANGED <<res, queued, live>> /\ GetAccount(c, co[c].account, "retry")
      BY <1>1, <2>7, AtSound DEF LookUpAgain, Known, jobVars
    <3>. QED
      BY <1>1, <2>1, <2>3, <3>1, GetAccountUnseen DEF Places
  <2>8. ASSUME NEW c \in Coroutine, UpdateFromWorker(c) PROVE PInv'
    <3>1. /\ co[c].at = "update" /\ co[c].account \in Account
          /\ UNCHANGED <<res, queued, live>> /\ GetAccount(c, co[c].account, "report")
      BY <1>1, <2>8, AtSound DEF UpdateFromWorker, Known, jobVars
    <3>. QED
      BY <1>1, <2>1, <2>3, <3>1, GetAccountUnseen DEF Places
  <2>9. ASSUME NEW c \in Coroutine, WriteAccount(c) PROVE PInv'
    <3>1. UNCHANGED <<res, queued, live>>
      BY <2>9 DEF WriteAccount, jobVars
    <3>. QED
      BY <1>1, <2>1, <2>3, <2>9, <3>1, WriteAccountUnseen
  <2>10. ASSUME NEW c \in Coroutine,
                \/ \E a \in Account : ReadForRegister(c, a)
                \/ \E a \in Account, b \in Balances : ReadAccountUpdate(c, a, b)
                \/ WriteReport(c)
         PROVE  PInv'
    <3>1. UNCHANGED <<res, queued, live>>
      BY <2>10 DEF ReadForRegister, ReadAccountUpdate, WriteReport, jobVars
    <3>. QED
      BY <1>1, <2>1, <2>3, <2>10, <3>1, ReportUnseen
  <2>11. ASSUME NEW c \in Coroutine, DbFails(c) PROVE FALSE
    BY <1>1, <2>1, <2>11 DEF DbFails, Spend, Clean, IInv, CountsSound, Bound
  <2>12. ASSUME Deduct PROVE PInv'
    <3>1. co[Scheduler].job \in Job
      BY <1>1, <2>12, AtSound DEF Deduct, Known, ForJob
    <3>. QED
      BY <2>1, <2>2, <2>12, <3>1, DeductFits
  <2>13. ASSUME Confirm PROVE PInv'
    <3>1. co[Scheduler].job \in Job
      BY <1>1, <2>13, AtSound DEF Confirm, Known, ForJob
    <3>. QED
      BY <2>1, <2>2, <2>13, <3>1, ConfirmFits
  <2>14. ASSUME NEW c \in Coroutine, Refund(c) PROVE PInv'
    <3>1. co[c].job \in Job
      BY <1>1, <2>14, AtSound DEF Refund, Known, ForJob
    <3>. QED
      BY <2>1, <2>2, <2>14, <3>1, RefundFits
  <2>15. ASSUME NEW j \in Job, NEW a \in Account, BeginReserve(j, a) PROVE PInv'
    BY <2>1, <2>2, <2>15, BeginReserveFits
  <2>16. ASSUME NEW c \in Coroutine, NEW j \in Job, NEW a \in Account, BeginRelease(c, j, a)
         PROVE  PInv'
    BY <2>1, <2>2, <2>16, BeginReleaseFits
  <2>17. ASSUME FindPending PROVE PInv'
    BY <2>1, <2>2, <2>17, FindPendingFits
  <2>18. ASSUME NEW c \in Coroutine, Retry(c) PROVE PInv'
    BY <2>1, <2>2, <2>18, RetryFits
  <2>. QED
    BY <2>4, <2>5, <2>6, <2>7, <2>8, <2>9, <2>10, <2>11, <2>12, <2>13, <2>14, <2>15, <2>16, <2>17,
       <2>18 DEF Next
<1>. QED
  BY <1>2, <1>3

\* Only three steps write reservations.
LEMMA Writers ==
  ASSUME [Next]_vars, res' # res
  PROVE  Deduct \/ Confirm \/ \E c \in Coroutine : Refund(c)
BY DEF Next, BeginReserve, Insufficient, LookUp, FindPending, Rollover, WriteAccount, LookUpAgain,
   Retry, UpdateFromWorker, WriteReport, DbFails, ReadForRegister, BeginRelease,
   ReadAccountUpdate, vars

\* A change of one job's hold.
LEMMA OneHold ==
  ASSUME NEW j \in Job, NEW s, Hold(j)' = s, \A k \in Job : k # j => Hold(k)' = Hold(k)
  PROVE  Reserved' = [Reserved EXCEPT ![j] = s]
BY DEF Reserved

\* What is written is a step of the protocol.
LEMMA WritesFit ==
  ASSUME PInv, [Next]_vars, res' # res, Clean'
  PROVE  Abstract!Next
<1>1. IInv /\ Clean /\ \A j \in Job : Reserved[j] = Hold(j)
  BY StaysSpent DEF PInv, Reserved
<1>2. ASSUME Deduct PROVE Abstract!Next
  <2>1. co[Scheduler].job \in Job
    BY <1>1, <1>2, AtSound DEF Coroutine, Deduct, Known, ForJob
  <2>2. PICK j \in Job : co[Scheduler].job = j
    BY <2>1
  <2>3. /\ NoHold(j) /\ Hold(j)' = "pending"
        /\ \A k \in Job : k # j => Hold(k)' = Hold(k)
    BY <1>1, <1>2, <2>2, DeductFits
  <2>4. Reserved' = [Reserved EXCEPT ![j] = "pending"]
    BY <2>3, OneHold
  <2>5. Abstract!Reserve(j)
    BY <1>1, <2>3, <2>4 DEF Abstract!Reserve, NoHold
  <2>. QED
    BY <2>5 DEF Abstract!Next
<1>3. ASSUME Confirm PROVE Abstract!Next
  <2>1. co[Scheduler].job \in Job
    BY <1>1, <1>3, AtSound DEF Coroutine, Confirm, Known, ForJob
  <2>2. PICK j \in Job : co[Scheduler].job = j
    BY <2>1
  <2>3. /\ Hold(j) = "pending" /\ Hold(j)' = "confirmed"
        /\ \A k \in Job : k # j => Hold(k)' = Hold(k)
    BY <1>1, <1>3, <2>2, ConfirmFits
  <2>4. Reserved' = [Reserved EXCEPT ![j] = "confirmed"]
    BY <2>3, OneHold
  <2>5. Abstract!Confirm(j)
    BY <1>1, <2>3, <2>4 DEF Abstract!Confirm
  <2>. QED
    BY <2>5 DEF Abstract!Next
<1>4. ASSUME NEW c \in Coroutine, Refund(c) PROVE Abstract!Next
  <2>1. co[c].job \in Job
    BY <1>1, <1>4, AtSound DEF Refund, Known, ForJob
  <2>2. PICK j \in Job : co[c].job = j
    BY <2>1
  <2>3. /\ Hold(j) \in {"pending", "confirmed"} /\ Hold(j)' = "released"
        /\ \A k \in Job : k # j => Hold(k)' = Hold(k)
    BY <1>1, <1>4, <2>2, RefundFits
  <2>4. Reserved' = [Reserved EXCEPT ![j] = "released"]
    BY <2>3, OneHold
  <2>5. Abstract!Release(j)
    BY <1>1, <2>3, <2>4 DEF Abstract!Release
  <2>. QED
    BY <2>5 DEF Abstract!Next
<1>. QED
  BY <1>2, <1>3, <1>4, Writers

\* As long as no database call raises and no failure is reported twice, a job is in one
\* place only, and whoever works on its reservation has found the latest one
\* (scheduler.py:109-156 and 208-234, account_dao.py:169-293).
THEOREM PhasesInvariance == Spec => []PInv
<1>. QED
  BY InitFits, NextFits, PTL DEF Spec

\* The reservations of Credits implement TwoPhase: each job's hold is opened, confirmed
\* and refunded in that order, whatever handlers, reports and resets interleave.
THEOREM ReservationsAreTwoPhase == Spec => TwoPhaseProtocol
<1>1. Init => Abstract!Init
  <2>. SUFFICES ASSUME Init PROVE Reserved = [j \in Job |-> "none"]
    BY DEF Abstract!Init
  <2>1. \A j \in Job : Latest(j) = {}
    BY EmptySeq DEF Init, Latest
  <2>. QED
    BY <2>1 DEF LatestIndex, Hold, Reserved
<1>2. PInv /\ [Next]_vars =>
        [res' # res /\ spent'.late = 0 /\ spent'.dbErrors = 0
           => UNCHANGED Reserved \/ Abstract!Next]_vars
  BY WritesFit DEF Clean
<1>. QED
  BY <1>1, <1>2, PhasesInvariance, PTL DEF Spec, TwoPhaseProtocol
=============================================================================
