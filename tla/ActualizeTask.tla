----------------------------- MODULE ActualizeTask -----------------------------
(***************************************************************************)
(* Crediting points: the background task of                                 *)
(* internal/service/order/task/actualize.go.  At every tick it reads the    *)
(* orders that are still open, asks the accrual service about each of them  *)
(* (StatusGetterService.ReceiveStatus, WorkerPoolClient.GetOrders), hydrates *)
(* the answers into the rows it read, keeps those whose status changed, and *)
(* in one transaction rewrites their rows and credits their users.          *)
(*                                                                          *)
(* The pool's workers ask concurrently, so each order is answered at a      *)
(* moment of its own.  The accrual service is external: service[o] is what  *)
(* it would answer about o now.                                             *)
(***************************************************************************)
EXTENDS LoyaltyStore

CONSTANTS
    Replies,  \* bodies the accrual service may answer 200 with
    Poison    \* orders about which it always answers with an error

AccrualStatus == {"REGISTERED", "PROCESSING", "INVALID", "PROCESSED"}

Reply == [status: AccrualStatus, accrual: (Decimals \cap Nat) \cup {Null}]

NoContent == [status |-> "204", accrual |-> Null]   \* order not registered
Failed == [status |-> "error", accrual |-> Null]    \* other code, timeout, network

ASSUME ReplyAssumption ==
    /\ Replies \subseteq Reply
    /\ Poison \subseteq Orders
    /\ Null \notin Reply \cup {NoContent, Failed}

VARIABLES
    taskPc,    \* the next call of actualize; "IncreaseCurrent" is the loop and the commit
    batch,     \* the slice it works on: order -> its copy of the row, or Null
    answer,    \* order -> the pool's result for it, or Null while not answered
    credited,  \* orders credited by the open transaction
    service,   \* order -> what the accrual service would answer
    credits    \* history: how often the order's accrual was credited for good

taskVars == <<taskPc, batch, answer, credited>>
accrualVars == <<taskVars, service, credits>>

TaskPc == {"OrdersByStatus", "GetOrders", "UpdateAll", "IncreaseCurrent"}

TaskTypeOK ==
    /\ taskPc \in TaskPc
    /\ batch \in [Orders -> OrderRow \cup {Null}]
    /\ answer \in [Orders -> Replies \cup {NoContent, Failed, Null}]
    /\ credited \subseteq Orders
    /\ service \in [Orders -> Replies \cup {NoContent}]
    /\ credits \in [Orders -> Nat]

Nothing == [o \in Orders |-> Null]

TaskInit ==
    /\ taskPc = "OrdersByStatus"
    /\ batch = Nothing
    /\ answer = Nothing
    /\ credited = {}
    /\ service = [o \in Orders |-> NoContent]
    /\ credits = [o \in Orders |-> 0]

\* actualize returns: the loop waits for the next tick.
NextTick ==
    /\ taskPc' = "OrdersByStatus"
    /\ batch' = Nothing
    /\ answer' = Nothing
    /\ credited' = {}

InBatch(o) == batch[o] # Null

-----------------------------------------------------------------------------
(* The accrual service registers an order, calculates and decides; it never  *)
(* takes a step back, and INVALID and PROCESSED are final.                   *)
Rank(reply) == CASE reply.status = "REGISTERED" -> 1
                 [] reply.status = "PROCESSING" -> 2
                 [] reply.status \in {"INVALID", "PROCESSED"} -> 3
                 [] OTHER -> 0

ServiceDecides(o) ==
    \E reply \in Replies :
        /\ Rank(reply) > Rank(service[o])
        /\ service' = [service EXCEPT ![o] = reply]

-----------------------------------------------------------------------------
IsOpen(o) == Exists(o) /\ orders[o].status \in {"NEW", "PROCESSING"}

\* Mutant: the rows are read whatever their status.
SelectAll == orders

SelectByStatus == [o \in Orders |-> IF IsOpen(o) THEN orders[o] ELSE Null]

\* OrdersByStatus(NEW, PROCESSING); without a row it is an error and the cycle ends.
OrdersByStatus ==
    /\ taskPc = "OrdersByStatus"
    /\ \E o \in Orders : IsOpen(o)
    /\ batch' = SelectByStatus
    /\ taskPc' = "GetOrders"
    /\ UNCHANGED <<storeVars, answer, credited, service, credits>>

\* A worker asks about one order.
GetOrder(o) ==
    /\ taskPc = "GetOrders"
    /\ InBatch(o)
    /\ answer[o] = Null
    /\ answer' = [answer EXCEPT ![o] = IF o \in Poison THEN Failed ELSE service[o]]
    /\ UNCHANGED <<storeVars, taskPc, batch, credited, service, credits>>

GetOrderFails(o) ==
    /\ taskPc = "GetOrders"
    /\ InBatch(o)
    /\ answer[o] = Null
    /\ answer' = [answer EXCEPT ![o] = Failed]
    /\ UNCHANGED <<storeVars, taskPc, batch, credited, service, credits>>

\* Mutants: the service's word is stored as it is; PROCESSING is taken for PROCESSED.
MapStatusVerbatim(status) == status
MapStatusEager(status) == IF status = "INVALID" THEN status ELSE "PROCESSED"

\* mapStatus: REGISTERED, and whatever the service invents, is NEW.
MapStatus(status) ==
    IF status \in {"INVALID", "PROCESSING", "PROCESSED"} THEN status ELSE "NEW"

HasEntity(a) == a \in Reply

\* Mutant: the amount is a plain number, 0 when there is none.
HydrateZero(row, a) ==
    IF HasEntity(a)
    THEN [order |-> [row EXCEPT !.status = MapStatus(a.status),
                                !.accrual = IF a.accrual = Null THEN 0
                                            ELSE ToCents(a.accrual)],
          statusPrev |-> row.status]
    ELSE [order |-> row, statusPrev |-> ""]

\* Hydrate: an answered order gets the mapped status and, if there is one, the
\* accrual, and remembers the status it had; StatusPrev of the others stays "".
Hydrate(row, a) ==
    IF HasEntity(a)
    THEN [order |-> [row EXCEPT !.status = MapStatus(a.status),
                                !.accrual = IF a.accrual = Null THEN @
                                            ELSE ToCents(a.accrual)],
          statusPrev |-> row.status]
    ELSE [order |-> row, statusPrev |-> ""]

\* A row's status is never empty.
StatusChanged(h) == h.order.status # h.statusPrev

\* The rows the cycle will write: those of the received orders that changed.
Changed ==
    [o \in Orders |->
        IF InBatch(o) /\ StatusChanged(Hydrate(batch[o], answer[o]))
        THEN Hydrate(batch[o], answer[o]).order
        ELSE Null]

AllAnswered == \A o \in Orders : InBatch(o) => answer[o] # Null

\* Mutant: an order the service does not know yet counts as an error too.
UsableAll == \A o \in Orders : InBatch(o) => HasEntity(answer[o])

\* GetOrders: one error, or no entity at all, and every answer is dropped.
Usable ==
    /\ \A o \in Orders : InBatch(o) => answer[o] # Failed
    /\ \E o \in Orders : InBatch(o) /\ HasEntity(answer[o])

ReceiveStatus ==
    /\ taskPc = "GetOrders"
    /\ AllAnswered
    /\ \/ /\ Usable
          /\ batch' = Changed
          /\ answer' = Nothing
          /\ taskPc' = "UpdateAll"
          /\ UNCHANGED credited
       \/ ~Usable /\ NextTick
    /\ UNCHANGED <<storeVars, service, credits>>

\* The transaction begins and rewrites the rows of the batch.
UpdateAll ==
    /\ taskPc = "UpdateAll"
    /\ taskPc' = "IncreaseCurrent"
    /\ UNCHANGED <<storeVars, batch, answer, credited, service, credits>>

\* Mutant: UpdateAll does not use the transaction, and its rows stay.
UpdateAllFailsOutsideTx ==
    /\ taskPc = "UpdateAll"
    /\ taskPc' = "IncreaseCurrent"
    /\ batch' = Nothing
    /\ orders' = [o \in Orders |-> IF InBatch(o) THEN batch[o] ELSE orders[o]]
    /\ UNCHANGED <<balanceVars, withdrawals, answer, credited, service, credits>>

\* UpdateAll returns an error and no rows; actualize logs the error and goes on,
\* with nothing to credit, to the commit.  The batch is not stored: the server
\* has aborted the transaction, or the connection is closed, or nothing was sent.
UpdateAllFails ==
    /\ taskPc = "UpdateAll"
    /\ taskPc' = "IncreaseCurrent"
    /\ batch' = Nothing
    /\ UNCHANGED <<storeVars, answer, credited, service, credits>>

ToCredit == {o \in Orders : InBatch(o) /\ batch[o].accrual # Null}

\* One iteration of the crediting loop.  The code takes the orders as they were
\* uploaded; any order is allowed here.
CreditOrder(o) ==
    /\ taskPc = "IncreaseCurrent"
    /\ o \in ToCredit \ credited
    /\ IncreaseCurrent(Task, batch[o].user, batch[o].accrual)
    /\ credited' = credited \cup {o}
    /\ UNCHANGED <<orders, withdrawals, taskPc, batch, answer, service, credits>>

Written == [o \in Orders |-> IF InBatch(o) THEN batch[o] ELSE orders[o]]

\* The commit makes the new rows and balances visible.  An error of the commit
\* is only logged, so a commit whose result is lost is this step as well.
CommitTask ==
    /\ taskPc = "IncreaseCurrent"
    /\ ToCredit \subseteq credited
    /\ orders' = Written
    /\ CommitBalances(Task)
    /\ credits' = [o \in Orders |-> IF o \in credited THEN credits[o] + 1 ELSE credits[o]]
    /\ NextTick
    /\ UNCHANGED <<withdrawals, service>>

\* Any other call fails (a poll, BeginTx, a credit, the commit), or a credit waits
\* longer than db.RequestTimeout for a balance row: the cycle ends and its
\* transaction, if any, is rolled back.
TaskFails ==
    /\ taskPc # "OrdersByStatus"
    /\ RollbackBalances(Task)
    /\ NextTick
    /\ UNCHANGED <<orders, withdrawals, service, credits>>

TaskStep ==
    \/ OrdersByStatus
    \/ \E o \in Orders : GetOrder(o)
    \/ ReceiveStatus
    \/ UpdateAll
    \/ \E o \in Orders : CreditOrder(o)
    \/ CommitTask

TaskFault == TaskFails \/ UpdateAllFails \/ \E o \in Orders : GetOrderFails(o)

-----------------------------------------------------------------------------
(* Properties of the task.  ConformingReplies is what SPECIFICATION.md says   *)
(* of the accrual service: an amount comes with the final status PROCESSED.  *)
ConformingReplies ==
    \A reply \in Replies : reply.accrual # Null => reply.status = "PROCESSED"

(* Each order with an amount is credited exactly once, in the same            *)
(* transaction that makes its row PROCESSED, and no other order ever is, in  *)
(* spite of failed cycles, retries, restarts and late answers.               *)
CreditedExactlyOnce ==
    \A o \in Orders :
        credits[o] = IF Exists(o) /\ orders[o].status = "PROCESSED"
                                  /\ orders[o].accrual # Null
                     THEN 1 ELSE 0

(* Only the task changes rows.  So while a cycle runs the orders of its batch  *)
(* are still open in the table, with the same user, and what it read is what  *)
(* the table has until it hydrates its copies.                               *)
BatchInv ==
    /\ \A o \in Orders :
           InBatch(o) => IsOpen(o) /\ batch[o].user = orders[o].user
    /\ taskPc = "GetOrders" => \A o \in Orders : InBatch(o) => batch[o] = orders[o]

(* Hence an order of the batch is not credited yet; and an amount is only ever *)
(* found on a PROCESSED row or copy, and only orders of the batch are credited. *)
CreditInv ==
    /\ CreditedExactlyOnce
    /\ \A o \in Orders :
           Exists(o) /\ orders[o].accrual # Null => orders[o].status = "PROCESSED"
    /\ \A o \in ToCredit : batch[o].status = "PROCESSED"
    /\ credited \subseteq ToCredit
    /\ taskPc # "IncreaseCurrent" => credited = {}
    /\ taskPc = "OrdersByStatus" => batch = Nothing

\* INVALID and PROCESSED are final: the row never changes again.
FinalRowsNeverChange ==
    [][\A o \in Orders : Exists(o) /\ ~IsOpen(o) => orders'[o] = orders[o]]_orders

(* What the table says is what the accrual service said at some time: a stored *)
(* status is never ahead of the service's, and a final row carries the amount *)
(* the service decided, in hundredths, whenever the answers arrived.         *)
RowsFollowService ==
    \A o \in Orders :
        Exists(o) /\ orders[o].status # "NEW" =>
            /\ Rank(orders[o]) <= Rank(service[o])
            /\ ~IsOpen(o) =>
                   orders[o] = [user |-> orders[o].user,
                                status |-> service[o].status,
                                accrual |-> IF service[o].accrual = Null THEN Null
                                            ELSE ToCents(service[o].accrual)]
=============================================================================
