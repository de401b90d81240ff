------------------------------ MODULE TwoPhase ------------------------------
(***************************************************************************)
(* What the two-phase credit reservation promises about one job, without   *)
(* the money: reserve -> confirm / release (README.md:19 of the            *)
(* repository).  A hold is opened once, confirmed at most once, refunded   *)
(* once, and a refunded hold never comes back; a job gets a new hold only  *)
(* after the previous one was refunded.                                    *)
(***************************************************************************)
CONSTANT Job

VARIABLE hold       \* the state of the job's latest reservation

Init == hold = [j \in Job |-> "none"]

Reserve(j) == hold[j] \in {"none", "released"} /\ hold' = [hold EXCEPT ![j] = "pending"]
Confirm(j) == hold[j] = "pending" /\ hold' = [hold EXCEPT ![j] = "confirmed"]
Release(j) == hold[j] \in {"pending", "confirmed"} /\ hold' = [hold EXCEPT ![j] = "released"]

Next == \E j \in Job : Reserve(j) \/ Confirm(j) \/ Release(j)

Spec == Init /\ [][Next]_hold
=============================================================================
