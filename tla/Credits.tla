------------------------------ MODULE Credits ------------------------------
(***************************************************************************)
(* The money of flow-mcp: accounts and credit reservations in SQLite       *)
(* (db/account_dao.py), as the coroutines of the Master use them           *)
(* (control/credit_manager.py, control/scheduler.py, control/server.py).   *)
(*                                                                         *)
(* Every AccountDAO method opens connections of its own and awaits them:   *)
(* one SELECT or one committed transaction is atomic, a method is not.     *)
(* What a method read is kept in the coroutine (`co`) and may be old when  *)
(* it writes.  Refunds are relative UPDATEs, everything else writes the    *)
(* absolute values computed from the row that was read.                    *)
(*                                                                         *)
(* Which jobs wait and how often they fail is the scheduler's business     *)
(* (module FlowScheduler): `queued`, `live` and `retries` keep what this   *)
(* module needs of it.  Scheduling is one coroutine, the failure handlers  *)
(* and the readers of the workers' streams are others.                     *)
(***************************************************************************)
EXTENDS Integers, Sequences, FiniteSetsExt

CONSTANTS
  Account,       \* the accounts (emails)
  Job,           \* the job ids
  Cost,          \* [Job -> Nat]: spec.cost_credits
  Scheduler,     \* the coroutine of Scheduler._run_loop
  Handler,       \* the coroutines of readers and dispatch tasks
  Null,          \* SQL NULL, Python None
  Grant,         \* DAILY_FREE_GRANT
  Balances,      \* paid balances a worker may read in its browser
  MaxRetries,    \* spec.max_retries
  MaxDays,       \* bound: how often get_current_cycle_date rolls over
  MaxReports,    \* bound: registrations and account updates
  MaxLate,       \* bound: failures reported of a dispatch that failed already
  MaxDbErrors,   \* bound: database calls that raise
  MaxFaults      \* bound: reports, late failures and database errors together

ASSUME CostAssumption == Cost \in [Job -> Nat]
ASSUME AmountAssumption == Grant \in Nat /\ Balances \subseteq Nat /\ Null \notin Nat
ASSUME BoundAssumption == {MaxRetries, MaxDays, MaxReports, MaxLate, MaxDbErrors, MaxFaults}
                          \subseteq Nat
ASSUME CoroutineAssumption == Scheduler \notin Handler

VARIABLES
  db,        \* table accounts: one row per email
  res,       \* table credit_reservations, in the order of created_at
  today,     \* get_current_cycle_date(), as a day number
  co,        \* where each coroutine is suspended and what it holds
  queued,    \* how often the job stands in the scheduler's queue
  live,      \* dispatches of the job that have not failed yet
  retries,   \* JobSpec.retry_count
  spent      \* how much of each bound is used up

jobVars == <<queued, live, retries>>
vars == <<db, res, today, co, jobVars, spent>>

Coroutine == {Scheduler} \cup Handler
Bound == [reports |-> MaxReports, late |-> MaxLate, dbErrors |-> MaxDbErrors]

\* A row that a SELECT does not find is Absent; Fresh is the row of a new account.
Absent == [known |-> FALSE, balance |-> Null, free |-> 0, date |-> 0]
Fresh == [known |-> TRUE, balance |-> Null, free |-> Grant, date |-> today]

\* What a worker tells about its account; Null is a field it does not report.
NoNews == [balance |-> Null, free |-> Null]

Idle == [at |-> "idle", then |-> "idle", job |-> Null, account |-> Null, row |-> Absent,
         news |-> NoNews, index |-> 0]

Amounts == Int \cup {Null}
Places == {"idle", "upsert", "reserve", "lookup", "confirm", "confirming", "refund",
           "relookup", "retry", "update", "report"}
Rows == [known : BOOLEAN, balance : Amounts, free : Int, date : Nat]
Reservations ==
  [job : Job, account : Account, free : Int, balance : Int,
   state : {"pending", "confirmed", "released"}]
Positions ==
  [at : Places, then : Places, job : Job \cup {Null}, account : Account \cup {Null}, row : Rows,
   news : [balance : Amounts, free : Amounts], index : Nat]

\* Tables, coroutines and counters hold what they are made for.
TypeOK ==
  /\ db \in [Account -> Rows]
  /\ res \in Seq(Reservations)
  /\ today \in Nat
  /\ co \in [Coroutine -> Positions]
  /\ queued \in [Job -> Nat] /\ live \in [Job -> Nat] /\ retries \in [Job -> Nat]
  /\ spent \in [DOMAIN Bound -> Nat]

Init ==
  /\ db \in [Account -> {Absent} \cup
                        {[known |-> TRUE, balance |-> b, free |-> Grant, date |-> 0] :
                           b \in Balances \cup {Null}}]
  /\ res = <<>>
  /\ today = 0
  /\ co = [c \in Coroutine |-> Idle]
  /\ queued = [j \in Job |-> 1]
  /\ live = [j \in Job |-> 0]
  /\ retries = [j \in Job |-> 0]
  /\ spent = [b \in DOMAIN Bound |-> 0]

Spend(b) ==
  /\ spent[b] < Bound[b] /\ spent["reports"] + spent["late"] + spent["dbErrors"] < MaxFaults
  /\ spent' = [spent EXCEPT ![b] = @ + 1]

----------------------------------------------------------------------------
(* AccountDAO.get_account and upsert_account *)

\* The row is from an earlier cycle.
Stale(a) == db[a].known /\ db[a].date # today

\* The row get_account returns, with the daily reset applied.
Fetched(a) == IF Stale(a) THEN [db[a] EXCEPT !.free = Grant, !.date = today] ELSE db[a]

\* The coroutine goes on at `pos`; if the row has to be written back first, in a
\* transaction of its own, it is suspended there.
GoOn(c, pos, write) ==
  co' = [co EXCEPT ![c] = IF write THEN [pos EXCEPT !.at = "upsert", !.then = pos.at] ELSE pos]

\* get_account(a) on the way to the place `at`.
GetAccount(c, a, at) ==
  GoOn(c, [co[c] EXCEPT !.at = at, !.account = a, !.row = Fetched(a)], Stale(a))

\* The transaction of upsert_account: absolute values; NULL leaves the stored balance.
Upserted(a, row) ==
  [db EXCEPT ![a] = [row EXCEPT !.known = TRUE,
                       !.balance = IF row.balance = Null THEN db[a].balance ELSE row.balance]]

\* upsert_account commits, the coroutine goes on.
WriteAccount(c) ==
  /\ co[c].at = "upsert"
  /\ db' = Upserted(co[c].account, co[c].row)
  /\ co' = [co EXCEPT ![c].at = co[c].then]
  /\ UNCHANGED <<res, today, jobVars, spent>>

\* get_reservation_by_job: the position of the latest one, 0 if there is none.
Latest(j) ==
  {i \in DOMAIN res : res[i].job = j /\ \A k \in DOMAIN res : res[k].job = j => k <= i}

LatestIndex(j) == IF Latest(j) = {} THEN 0 ELSE CHOOSE i \in Latest(j) : TRUE

----------------------------------------------------------------------------
(* Scheduler._schedule_next: reserve, get_account, confirm *)

\* reserve for a queued job: reads the account, or provisions it.  Nothing is reserved
\* for a job that costs nothing.
BeginReserve(j, a) ==
  /\ co[Scheduler].at = "idle" /\ queued[j] > 0
  /\ LET pos == [Idle EXCEPT !.at = "reserve", !.job = j, !.account = a,
                   !.row = IF db[a].known THEN Fetched(a) ELSE Fresh]
     IN IF Cost[j] = 0 THEN GoOn(Scheduler, [pos EXCEPT !.at = "lookup", !.row = Absent], FALSE)
        ELSE GoOn(Scheduler, pos, Stale(a) \/ ~db[a].known)
  /\ UNCHANGED <<db, res, today, jobVars, spent>>

\* total_avail; a NULL balance counts as nothing.
Available(row) == row.free + (IF row.balance = Null THEN 0 ELSE row.balance)

\* Broken: the account has something left.
HasCredits(row, cost) == Available(row) > 0

\* total_avail covers the cost.
CanPay(row, cost) == Available(row) >= cost

\* InsufficientCreditsError: the job stays in the queue.
Insufficient ==
  /\ co[Scheduler].at = "reserve"
  /\ ~CanPay(co[Scheduler].row, Cost[co[Scheduler].job])
  /\ co' = [co EXCEPT ![Scheduler] = Idle]
  /\ UNCHANGED <<db, res, today, jobVars, spent>>

\* The transaction of reserve_credits: free credits first, then the balance, as absolute
\* values computed from the row read before; the reservation is PENDING.
Deduct ==
  /\ co[Scheduler].at = "reserve"
  /\ LET pos == co[Scheduler]
         cost == Cost[pos.job]
         free == IF pos.row.free < cost THEN pos.row.free ELSE cost
     IN /\ CanPay(pos.row, cost)
        /\ db' = [db EXCEPT ![pos.account].free = pos.row.free - free,
                    ![pos.account].balance =
                      IF pos.row.balance = Null THEN Null ELSE pos.row.balance - (cost - free)]
        /\ res' = Append(res, [job |-> pos.job, account |-> pos.account, free |-> free,
                               balance |-> cost - free, state |-> "pending"])
  /\ co' = [co EXCEPT ![Scheduler].at = "lookup"]
  /\ UNCHANGED <<today, jobVars, spent>>

\* get_account again, for the cache of the pool.
LookUp ==
  /\ co[Scheduler].at = "lookup"
  /\ GetAccount(Scheduler, co[Scheduler].account, "confirm")
  /\ UNCHANGED <<db, res, today, jobVars, spent>>

\* confirm_reservation reads the latest reservation and looks for PENDING.
FindPending ==
  /\ co[Scheduler].at = "confirm"
  /\ LET i == LatestIndex(co[Scheduler].job)
     IN co' = [co EXCEPT ![Scheduler].at = "confirming",
                 ![Scheduler].index = IF i # 0 /\ res[i].state = "pending" THEN i ELSE 0]
  /\ UNCHANGED <<db, res, today, jobVars, spent>>

\* Its UPDATE, whatever the state is by now; then the job is dispatched.
Confirm ==
  /\ co[Scheduler].at = "confirming"
  /\ LET i == co[Scheduler].index
     IN res' = IF i = 0 THEN res ELSE [res EXCEPT ![i].state = "confirmed"]
  /\ queued' = [queued EXCEPT ![co[Scheduler].job] = @ - 1]
  /\ live' = [live EXCEPT ![co[Scheduler].job] = @ + 1]
  /\ co' = [co EXCEPT ![Scheduler] = Idle]
  /\ UNCHANGED <<db, today, retries, spent>>

----------------------------------------------------------------------------
(* Scheduler.handle_task_failed: release, get_account, retry *)

\* Somebody reported a failure of the job before.
AlreadyFailed(j) ==
  \/ retries[j] > 0
  \/ \E c \in Coroutine : co[c].job = j /\ co[c].at \in {"refund", "relookup", "retry"}

\* A failure of a dispatch, or of one that failed already (its worker was thought to
\* be gone and answers late).  release_reservation reads the latest reservation.
BeginRelease(c, j, a) ==
  /\ co[c].at = "idle"
  /\ \/ live[j] > 0 /\ live' = [live EXCEPT ![j] = @ - 1] /\ UNCHANGED spent
     \/ AlreadyFailed(j) /\ Spend("late") /\ UNCHANGED live
  /\ LET i == LatestIndex(j)
     IN co' = [co EXCEPT ![c] =
                 [Idle EXCEPT !.at = "refund", !.job = j, !.account = a,
                    !.index = IF i # 0 /\ res[i].state # "released" THEN i ELSE 0]]
  /\ UNCHANGED <<db, res, today, queued, retries>>

\* Broken: the reservation is not marked RELEASED.
RefundUnmarked(c) ==
  /\ co[c].at = "refund"
  /\ LET r == res[co[c].index]
     IN IF co[c].index = 0 THEN UNCHANGED <<db, res>>
        ELSE /\ db' = [db EXCEPT ![r.account].free = @ + r.free,
                         ![r.account].balance = IF @ = Null THEN Null ELSE @ + r.balance]
             /\ UNCHANGED res
  /\ co' = [co EXCEPT ![c].at = "relookup"]
  /\ UNCHANGED <<today, jobVars, spent>>

\* The transaction of release_reservation: relative values, and RELEASED.
Refund(c) ==
  /\ co[c].at = "refund"
  /\ LET r == res[co[c].index]
     IN IF co[c].index = 0 THEN UNCHANGED <<db, res>>
        ELSE /\ db' = [db EXCEPT ![r.account].free = @ + r.free,
                         ![r.account].balance = IF @ = Null THEN Null ELSE @ + r.balance]
             /\ res' = [res EXCEPT ![co[c].index].state = "released"]
  /\ co' = [co EXCEPT ![c].at = "relookup"]
  /\ UNCHANGED <<today, jobVars, spent>>

\* get_account after the release, again for the cache of the pool.
LookUpAgain(c) ==
  /\ co[c].at = "relookup"
  /\ GetAccount(c, co[c].account, "retry")
  /\ UNCHANGED <<db, res, today, jobVars, spent>>

\* Retry while the budget lasts; both outcomes are a step of the handler's own.
Retry(c) ==
  /\ co[c].at = "retry"
  /\ IF retries[co[c].job] < MaxRetries
     THEN /\ retries' = [retries EXCEPT ![co[c].job] = @ + 1]
          /\ queued' = [queued EXCEPT ![co[c].job] = @ + 1]
     ELSE UNCHANGED <<retries, queued>>
  /\ co' = [co EXCEPT ![c] = Idle]
  /\ UNCHANGED <<db, res, today, live, spent>>

----------------------------------------------------------------------------
(* Reports about an account: CreditManager.update_from_worker *)

\* StreamTasks, register: get_account, and what it read is reported back below.
ReadForRegister(c, a) ==
  /\ co[c].at = "idle" /\ c \in Handler
  /\ Spend("reports")
  /\ LET free == IF db[a].known THEN Fetched(a).free ELSE Grant
     IN GoOn(c, [Idle EXCEPT !.at = "update", !.account = a, !.row = Fetched(a),
                   !.news = [balance |-> Null, free |-> free]], Stale(a))
  /\ UNCHANGED <<db, res, today, jobVars>>

\* StreamTasks, account_update: the balance the worker read in its browser.
ReadAccountUpdate(c, a, b) ==
  /\ co[c].at = "idle" /\ c \in Handler
  /\ Spend("reports")
  /\ co' = [co EXCEPT ![c] = [Idle EXCEPT !.at = "update", !.account = a,
                                !.news = [balance |-> b, free |-> Null]]]
  /\ UNCHANGED <<db, res, today, jobVars>>

\* update_from_worker reads the account once more ...
UpdateFromWorker(c) ==
  /\ co[c].at = "update"
  /\ GetAccount(c, co[c].account, "report")
  /\ UNCHANGED <<db, res, today, jobVars, spent>>

\* Broken: fields the worker did not report are taken over as well.
WithAllNews(row, news) == [row EXCEPT !.balance = news.balance, !.free = news.free]

\* Only the fields the worker reported replace those of the row.
WithNews(row, news) ==
  [row EXCEPT !.balance = IF news.balance = Null THEN row.balance ELSE news.balance,
              !.free = IF news.free = Null THEN row.free ELSE news.free]

\* ... and writes the whole row back, a new one if there was none.
WriteReport(c) ==
  /\ co[c].at = "report"
  /\ db' = Upserted(co[c].account,
                    WithNews(IF co[c].row.known THEN co[c].row ELSE Fresh, co[c].news))
  /\ co' = [co EXCEPT ![c] = Idle]
  /\ UNCHANGED <<res, today, jobVars, spent>>

----------------------------------------------------------------------------
(* The world around *)

\* The cycle date changes at UTC_RESET_HOUR.
Rollover ==
  /\ today < MaxDays
  /\ today' = today + 1
  /\ UNCHANGED <<db, res, co, jobVars, spent>>

\* A database call raises: the coroutine drops what it was doing.  A job of the pass
\* stays in the queue, a job that failed is not retried.
DbFails(c) ==
  /\ co[c].at \notin {"idle", "retry"}
  /\ Spend("dbErrors")
  /\ co' = [co EXCEPT ![c] = Idle]
  /\ UNCHANGED <<db, res, today, jobVars>>

Next ==
  \/ \E j \in Job, a \in Account : BeginReserve(j, a)
  \/ Insufficient \/ Deduct \/ LookUp \/ FindPending \/ Confirm \/ Rollover
  \/ \E c \in Coroutine :
       \/ WriteAccount(c) \/ Refund(c) \/ LookUpAgain(c) \/ Retry(c)
       \/ UpdateFromWorker(c) \/ WriteReport(c) \/ DbFails(c)
       \/ \E a \in Account :
            \/ ReadForRegister(c, a)
            \/ \E j \in Job : BeginRelease(c, j, a)
            \/ \E b \in Balances : ReadAccountUpdate(c, a, b)

Spec == Init /\ [][Next]_vars

----------------------------------------------------------------------------
(* Properties *)

\* Neither part of an account is below zero.
NonNegative(row) == row.free >= 0 /\ (row.balance # Null => row.balance >= 0)

\* No account is ever overdrawn, although `UPDATE accounts` writes values computed
\* from a row that may be old (account_dao.py:178-223): whatever refunds, resets and
\* reports come between the read and the write.
Solvent == \A a \in Account : NonNegative(db[a])

\* The reservations that hold credits of the account.
Open(a) == {i \in DOMAIN res : res[i].account = a /\ res[i].state # "released"}

\* What an account is worth: what it has, what it would be granted, and what its
\* reservations hold.
Worth(a) ==
  (IF db[a].known THEN Available(db[a]) ELSE Grant)
    + MapThenSumSet(LAMBDA i : res[i].free + res[i].balance, Open(a))

\* As long as each dispatch fails once, nobody reports and no cycle ends, reservations
\* and refunds never create credits, in whatever order they interleave.
NoCreditCreated ==
  [][today' = 0 /\ spent'.reports = 0 /\ spent'.late = 0
       => \A a \in Account : Worth(a)' <= Worth(a)]_vars

\* ... and they lose none: the reservation is atomic (account_dao.py:173), a failure
\* gives its credits back (README.md:19).
Conservation ==
  [][today' = 0 /\ spent'.reports = 0 /\ spent'.late = 0
       => \A a \in Account : Worth(a)' = Worth(a)]_vars

\* The state of the job's latest reservation.
Hold(j) == IF LatestIndex(j) = 0 THEN "none" ELSE res[LatestIndex(j)].state

Reserved == [j \in Job |-> Hold(j)]
Abstract == INSTANCE TwoPhase WITH hold <- Reserved

\* The reservations of each job go through the two phases, one after the other, as long
\* as no database call raises and no failure is reported twice: the steps are steps of
\* module TwoPhase, whatever resets and reports interleave.
TwoPhaseProtocol ==
  /\ Abstract!Init
  /\ [][res' # res /\ spent'.late = 0 /\ spent'.dbErrors = 0
          => UNCHANGED Reserved \/ Abstract!Next]_vars
=============================================================================
