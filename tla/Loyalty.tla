-------------------------------- MODULE Loyalty --------------------------------
(***************************************************************************)
(* The service as a whole (cmd/gophermart/main.go): the upload and withdraw *)
(* handlers, one goroutine per request, and the actualize task, all on the  *)
(* same tables, and the process that runs them, which may die at any moment *)
(* and is started again on the same database.                               *)
(***************************************************************************)
EXTENDS WithdrawService, ActualizeTask

vars == <<storeVars, upload, withdraw, accrualVars>>
requestVars == <<upload, withdraw>>

Init == PointsInit /\ TaskInit

(* The process dies: its requests get no answer, the database aborts its      *)
(* transactions.  A new process serves new requests and starts the task at    *)
(* the first call of its cycle.                                              *)
Crash ==
    /\ upload' = [r \in Uploads |-> [upload[r] EXCEPT !.pc = "done"]]
    /\ withdraw' = [w \in Withdraws |-> [withdraw[w] EXCEPT !.pc = "done"]]
    /\ RollbackAll
    /\ NextTick
    /\ UNCHANGED <<orders, withdrawals, service, credits>>

UploadRuns(r) == UploadStep(r) /\ UNCHANGED <<withdraw, accrualVars>>
WithdrawRuns(w) == WithdrawStep(w) /\ UNCHANGED <<upload, accrualVars>>
TaskRuns == TaskStep /\ UNCHANGED requestVars
ServiceRuns == (\E o \in Orders : ServiceDecides(o))
                   /\ UNCHANGED <<storeVars, requestVars, taskVars, credits>>

UploadBreaks == (\E r \in Uploads : UploadFault(r)) /\ UNCHANGED <<withdraw, accrualVars>>
WithdrawBreaks == (\E w \in Withdraws : WithdrawFault(w)) /\ UNCHANGED <<upload, accrualVars>>
TaskBreaks == TaskFault /\ UNCHANGED requestVars

\* Everything is answered and decided: the task finds no open order.
Quiet ==
    /\ RequestsDone
    /\ taskPc = "OrdersByStatus"
    /\ \A o \in Orders : ~IsOpen(o)
    /\ UNCHANGED vars

Next ==
    \/ \E r \in Uploads : UploadRuns(r)
    \/ \E w \in Withdraws : WithdrawRuns(w)
    \/ TaskRuns
    \/ ServiceRuns
    \/ UploadBreaks
    \/ WithdrawBreaks
    \/ TaskBreaks
    \/ Crash
    \/ Quiet

Spec == Init /\ [][Next]_vars

(* Every goroutine runs on: a request's calls and the task's calls return, by *)
(* their timeouts at the latest, and the ticker ticks.  Nothing is assumed of *)
(* the clients, of the accrual service or of the faults.                     *)
Fairness ==
    /\ \A r \in Uploads : WF_vars(UploadRuns(r))
    /\ \A w \in Withdraws : WF_vars(WithdrawRuns(w))
    /\ WF_vars(TaskRuns)

FairSpec == Spec /\ Fairness

-----------------------------------------------------------------------------
\* Type correctness of the whole state.
TypeOK == PointsTypeOK /\ TaskTypeOK

Earned(u) == {o \in Orders : /\ Exists(o)
                             /\ orders[o].user = u
                             /\ orders[o].status = "PROCESSED"
                             /\ orders[o].accrual # Null}

PointsEarnedBy(u) == SumFunction([o \in Earned(u) |-> orders[o].accrual])

(* No point is lost or made up: in every committed state what a user has and  *)
(* has spent is what the user's PROCESSED orders earned.                     *)
PointsConserved ==
    \A u \in Users :
        balance[u].current + balance[u].withdrawn = Opening[u] + PointsEarnedBy(u)

(* The balance rows that are locked are those of the running transactions:    *)
(* the task holds the rows of the users it has credited, until its cycle ends. *)
(* No failure and no crash leaves a row locked or half updated.              *)
LocksAreLive ==
    /\ NoLeakedLock
    /\ \A u \in Users :
           lock[u] = Task <=> \E o \in credited : batch[o].user = u

(* How the service keeps the ledger: the owner of a stored order, the amount of *)
(* a PROCESSED row, the rows of withdrawals.                                 *)
OwnerOf(o) == IF Exists(o) THEN orders[o].user ELSE Null

CreditOf(o) ==
    IF Exists(o) /\ orders[o].status = "PROCESSED" THEN orders[o].accrual ELSE Null

L == INSTANCE Ledger WITH
         Payments <- Withdraws,
         owner <- [o \in Orders |-> OwnerOf(o)],
         credit <- [o \in Orders |-> CreditOf(o)],
         payments <- withdrawals

(* The service implements the ledger: through every interleaving, failed,     *)
(* retried or unconfirmed statement and crash, a number goes to one user for *)
(* good, an amount is granted once and never changed, and a payment, by the  *)
(* owner of its order, is made at most once and never lost.                  *)
ImplementsLedger == L!LedgerSpec

Decided(o) ==
    /\ Exists(o)
    /\ service[o].status = "PROCESSED"
    /\ service[o].accrual # Null

\* From some moment on every step is one a healthy task and process allow; the
\* requests may still fail.
Healthy ==
    \/ \E r \in Uploads : UploadRuns(r)
    \/ \E w \in Withdraws : WithdrawRuns(w)
    \/ UploadBreaks \/ WithdrawBreaks \/ TaskRuns \/ ServiceRuns

FaultsCease == <>[][Healthy]_vars

(* Once the task stops failing, every stored order the accrual service has     *)
(* decided in the user's favour is credited in the end.                       *)
DecidedIsCredited ==
    FaultsCease => \A o \in Orders : Decided(o) ~> credits[o] > 0

(* No request waits for good: what it waits for, a balance row another         *)
(* request or the task has locked, is released or its wait times out.        *)
EveryRequestEnds == <>RequestsDone
=============================================================================
