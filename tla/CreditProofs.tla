------------------------------ MODULE CreditProofs ------------------------------
(***************************************************************************)
(* The composed service: the variables keep their types.                    *)
(* Final rows never change and orders never change hands; and, for an       *)
(* accrual service that conforms to SPECIFICATION.md, every order is         *)
(* credited exactly once and the rows say what the service decided: proved  *)
(* for every number of users, orders and requests, with faults and crashes. *)
(***************************************************************************)
EXTENDS Loyalty, TLAPS

-----------------------------------------------------------------------------
(* Lemmas about the operators of the store.                                  *)

\* An amount of thousandths becomes a whole number of hundredths, and an amount
\* that is not negative a natural number of them.
LEMMA ToCentsType ==
    ASSUME NEW m \in Int
    PROVE  ToCents(m) \in Int /\ (m \in Nat => ToCents(m) \in Nat)
BY DEF ToCents

\* A new order is a row.
LEMMA NewOrderType == ASSUME NEW u \in Users PROVE NewOrder(u) \in OrderRow
BY DEF NewOrder, OrderRow, OrderStatus

\* Inserting an order keeps the type of the table.
LEMMA InsertOrderType ==
    ASSUME StoreTypeOK, NEW u \in Users, NEW o \in Orders, InsertOrder(u, o)
    PROVE  orders' \in [Orders -> OrderRow \cup {Null}]
BY NewOrderType DEF InsertOrder, StoreTypeOK

\* Updating a balance row with a row keeps the type of both versions.
LEMMA UpdateBalanceType ==
    ASSUME StoreTypeOK, NEW u \in Users, NEW row \in BalanceRow,
           NEW tx \in Withdraws \cup {Task}, UpdateBalance(tx, u, row)
    PROVE  /\ balance' \in [Users -> BalanceRow]
           /\ newest' \in [Users -> BalanceRow]
           /\ lock' \in [Users -> Withdraws \cup {Task, Null}]
BY DEF UpdateBalance, StoreTypeOK

LEMMA IncreaseCurrentType ==
    ASSUME StoreTypeOK, NEW u \in Users, NEW delta \in Nat,
           NEW tx \in Withdraws \cup {Task}, IncreaseCurrent(tx, u, delta)
    PROVE  /\ balance' \in [Users -> BalanceRow]
           /\ newest' \in [Users -> BalanceRow]
           /\ lock' \in [Users -> Withdraws \cup {Task, Null}]
<1>1. [newest[u] EXCEPT !.current = @ + delta] \in BalanceRow
  BY DEF StoreTypeOK, BalanceRow
<1> QED BY <1>1, UpdateBalanceType DEF IncreaseCurrent

LEMMA IncreaseWithdrawType ==
    ASSUME StoreTypeOK, NEW u \in Users, NEW delta \in Int,
           NEW tx \in Withdraws \cup {Task}, IncreaseWithdraw(tx, u, delta)
    PROVE  /\ balance' \in [Users -> BalanceRow]
           /\ newest' \in [Users -> BalanceRow]
           /\ lock' \in [Users -> Withdraws \cup {Task, Null}]
<1>1. [current |-> newest[u].current - delta,
       withdrawn |-> newest[u].withdrawn + delta] \in BalanceRow
  BY DEF StoreTypeOK, BalanceRow
<1> QED BY <1>1, UpdateBalanceType DEF IncreaseWithdraw

\* Ending a transaction, either way, keeps the type of the balance rows.
LEMMA EndTxType ==
    ASSUME StoreTypeOK, NEW tx, CommitBalances(tx) \/ RollbackBalances(tx) \/ RollbackAll
    PROVE  /\ balance' \in [Users -> BalanceRow]
           /\ newest' \in [Users -> BalanceRow]
           /\ lock' \in [Users -> Withdraws \cup {Task, Null}]
BY DEF CommitBalances, RollbackBalances, RollbackAll, Release, StoreTypeOK

-----------------------------------------------------------------------------
(* Type correctness, one lemma per component.                                *)

LEMMA UploadType ==
    ASSUME OrderTypeOK, NEW r \in Uploads, UploadStep(r) \/ UploadFault(r)
    PROVE  OrderTypeOK'
<1> USE DEF OrderTypeOK, UploadTypeOK, UploadCodes, NoAnswer
<1>1. CASE UploadLookup(r)
  <2>1. LookupOutcome(upload[r].user, upload[r].order) # "insert"
            => UploadCode[LookupOutcome(upload[r].user, upload[r].order)] \in UploadCodes
    BY DEF LookupOutcome, UploadCode
  <2> QED BY <1>1, <2>1 DEF UploadLookup, UploadAnswer, StoreTypeOK, storeVars
<1>2. CASE UploadInsert(r) \/ UploadInsertUnconfirmed(r)
  <2>1. upload' \in [Uploads -> [pc: {"Order", "Create", "done"}, user: Users,
                            order: Orders, resp: UploadCodes \cup {NoAnswer}]]
    BY <1>2 DEF UploadInsert, UploadInsertUnconfirmed, UploadAnswer
  <2>2. orders' \in [Orders -> OrderRow \cup {Null}]
    BY <1>2, InsertOrderType DEF UploadInsert, UploadInsertUnconfirmed
  <2> QED BY <1>2, <2>1, <2>2
      DEF UploadInsert, UploadInsertUnconfirmed, StoreTypeOK, balanceVars
<1>3. CASE UploadInsertDuplicate(r) \/ UploadFails(r)
  BY <1>3 DEF UploadInsertDuplicate, UploadFails, UploadAnswer, StoreTypeOK, storeVars
<1> QED BY <1>1, <1>2, <1>3 DEF UploadStep, UploadFault

\* The amount of a request is a whole number of hundredths.
LEMMA DeltaType ==
    ASSUME WithdrawTypeOK, NEW w \in Withdraws
    PROVE  Delta(w) \in Int
<1>1. withdraw[w].sum \in Int
  BY SumsAssumption DEF WithdrawTypeOK, Decimals
<1> QED BY <1>1, ToCentsType DEF Delta

LEMMA ContinueType ==
    ASSUME WithdrawTypeOK, NEW w \in Withdraws,
           NEW pc \in WithdrawPc, Continue(w, pc)
    PROVE  WithdrawTypeOK'
BY DEF WithdrawTypeOK, Continue

LEMMA AnswerType ==
    ASSUME WithdrawTypeOK, NEW w \in Withdraws, NEW code \in WithdrawCodes, Answer(w, code)
    PROVE  WithdrawTypeOK'
BY DEF WithdrawTypeOK, WithdrawPc, Answer

LEMMA WithdrawType ==
    ASSUME PointsTypeOK, NEW w \in Withdraws, WithdrawStep(w) \/ WithdrawFault(w),
           UNCHANGED upload
    PROVE  PointsTypeOK'
<1> USE DEF PointsTypeOK, OrderTypeOK
<1>0. UploadTypeOK'
  BY DEF UploadTypeOK
<1>1. CASE WLookup(w)
  <2>1. WithdrawTypeOK'
    BY <1>1, ContinueType, AnswerType DEF WLookup, WithdrawPc, WithdrawCodes
  <2> QED BY <1>0, <1>1, <2>1 DEF WLookup, storeVars, StoreTypeOK
<1>2. CASE WInsert(w) \/ WInsertUnconfirmed(w)
  <2>1. WithdrawTypeOK'
    BY <1>2, ContinueType, AnswerType
    DEF WInsert, WInsertUnconfirmed, WithdrawPc, WithdrawCodes
  <2>2. orders' \in [Orders -> OrderRow \cup {Null}]
    BY <1>2, InsertOrderType DEF WInsert, WInsertUnconfirmed, WithdrawTypeOK
  <2> QED BY <1>0, <1>2, <2>1, <2>2
      DEF WInsert, WInsertUnconfirmed, balanceVars, StoreTypeOK
<1>3. CASE WInsertDuplicate(w)
  <2>1. WithdrawTypeOK'
    BY <1>3, AnswerType DEF WInsertDuplicate, WithdrawCodes
  <2> QED BY <1>0, <1>3, <2>1 DEF WInsertDuplicate, storeVars, StoreTypeOK
<1>4. CASE WOrderByUser(w)
  <2>1. WithdrawTypeOK'
    BY <1>4, ContinueType, AnswerType DEF WOrderByUser, WithdrawPc, WithdrawCodes, InTx
  <2> QED BY <1>0, <1>4, <2>1 DEF WOrderByUser, storeVars, StoreTypeOK
<1>5. CASE WBalance(w)
  <2>1. balance[withdraw[w].user].current \in Int
    BY DEF StoreTypeOK, WithdrawTypeOK, BalanceRow
  <2>2. CASE Answer(w, 402)
    BY <1>0, <1>5, <2>2, AnswerType DEF WBalance, WithdrawCodes, storeVars, StoreTypeOK
  <2>3. CASE withdraw' = [withdraw EXCEPT ![w].pc = "IncreaseWithdraw",
                             ![w].seen = balance[withdraw[w].user].current]
    <3>1. WithdrawTypeOK'
      BY ZenonT(60), <2>1, <2>3 DEF WithdrawTypeOK, WithdrawPc, InTx
    <3> QED BY <1>0, <1>5, <3>1 DEF WBalance, storeVars, StoreTypeOK
  <2> QED BY <1>5, <2>2, <2>3 DEF WBalance
<1>6. CASE WIncreaseWithdraw(w)
  <2>1. WithdrawTypeOK'
    BY <1>6, ContinueType DEF WIncreaseWithdraw, WithdrawPc, InTx
  <2>2. /\ balance' \in [Users -> BalanceRow]
        /\ newest' \in [Users -> BalanceRow]
        /\ lock' \in [Users -> Withdraws \cup {Task, Null}]
    BY <1>6, DeltaType, IncreaseWithdrawType DEF WIncreaseWithdraw, WithdrawTypeOK
  <2> QED BY <1>0, <1>6, <2>1, <2>2 DEF WIncreaseWithdraw, StoreTypeOK
<1>7. CASE WCreateWithdrawal(w)
  <2>1. WithdrawTypeOK'
    BY <1>7, ContinueType DEF WCreateWithdrawal, WithdrawPc, InTx
  <2> QED BY <1>0, <1>7, <2>1 DEF WCreateWithdrawal, storeVars, StoreTypeOK
<1>8. CASE WCommit(w) \/ WCommitUnconfirmed(w)
  <2>1. WithdrawTypeOK'
    BY <1>8, AnswerType DEF WCommit, WCommitUnconfirmed, WithdrawCodes
  <2>2. WithdrawalOf(w) \in WithdrawalRow
    BY DeltaType DEF WithdrawalOf, WithdrawalRow, WithdrawTypeOK
  <2>3. Apply(w)
    BY <1>8 DEF WCommit, WCommitUnconfirmed
  <2> QED BY <1>0, <2>1, <2>2, <2>3, EndTxType DEF Apply, StoreTypeOK
<1>9. CASE WLockTimeout(w) \/ WFails(w)
  <2>1. WithdrawTypeOK'
    BY <1>9, AnswerType DEF WLockTimeout, WFails, WithdrawCodes
  <2> QED BY <1>0, <1>9, <2>1, EndTxType DEF WLockTimeout, WFails, StoreTypeOK
<1> QED BY <1>1, <1>2, <1>3, <1>4, <1>5, <1>6, <1>7, <1>8, <1>9
    DEF WithdrawStep, WithdrawFault

\* Waiting for the next tick empties the task's variables.
LEMMA NextTickType ==
    ASSUME NextTick, service' \in [Orders -> Replies \cup {NoContent}],
           credits' \in [Orders -> Nat]
    PROVE  TaskTypeOK'
BY DEF NextTick, Nothing, TaskTypeOK, TaskPc

\* Hydrating a row with an answer gives a row.
LEMMA HydrateType ==
    ASSUME NEW row \in OrderRow, NEW a
    PROVE  /\ Hydrate(row, a).order \in OrderRow
           /\ Hydrate(row, a).order.user = row.user
<1>1. CASE HasEntity(a)
  <2>1. MapStatus(a.status) \in OrderStatus
    BY <1>1 DEF HasEntity, Reply, MapStatus, AccrualStatus, OrderStatus
  <2>2. a.accrual # Null => ToCents(a.accrual) \in Nat
    BY <1>1, ToCentsType DEF HasEntity, Reply, Decimals
  <2> QED BY <1>1, <2>1, <2>2 DEF Hydrate, OrderRow
<1>2. CASE ~HasEntity(a)
  BY <1>2 DEF Hydrate
<1> QED BY <1>1, <1>2

LEMMA TaskStepType ==
    ASSUME StoreTypeOK, TaskTypeOK, TaskStep \/ TaskFault
    PROVE  StoreTypeOK' /\ TaskTypeOK'
<1>1. CASE OrdersByStatus
  BY <1>1 DEF OrdersByStatus, SelectByStatus, storeVars, StoreTypeOK, TaskTypeOK, TaskPc, IsOpen, Exists
<1>2. ASSUME NEW o \in Orders, GetOrder(o) \/ GetOrderFails(o)
      PROVE  StoreTypeOK' /\ TaskTypeOK'
  BY <1>2 DEF GetOrder, GetOrderFails, storeVars, StoreTypeOK, TaskTypeOK
<1>3. CASE ReceiveStatus
  <2>1. StoreTypeOK'
    BY <1>3 DEF ReceiveStatus, storeVars, StoreTypeOK
  <2>2. CASE NextTick
    BY <1>3, <2>1, <2>2, NextTickType DEF ReceiveStatus, TaskTypeOK
  <2>3. CASE batch' = Changed /\ answer' = Nothing /\ taskPc' = "UpdateAll"
                 /\ UNCHANGED credited
    <3>1. Changed \in [Orders -> OrderRow \cup {Null}]
      BY HydrateType DEF Changed, InBatch, TaskTypeOK
    <3> QED BY <1>3, <2>1, <2>3, <3>1 DEF ReceiveStatus, TaskTypeOK, Nothing, TaskPc
  <2> QED BY <1>3, <2>2, <2>3 DEF ReceiveStatus
<1>4. CASE UpdateAll \/ UpdateAllFails
  BY <1>4 DEF UpdateAll, UpdateAllFails, Nothing, storeVars, StoreTypeOK, TaskTypeOK, TaskPc
<1>5. ASSUME NEW o \in Orders, CreditOrder(o)
      PROVE  StoreTypeOK' /\ TaskTypeOK'
  <2>1. batch[o].user \in Users /\ batch[o].accrual \in Nat
    BY <1>5 DEF CreditOrder, ToCredit, InBatch, TaskTypeOK, OrderRow
  <2>2. IncreaseCurrent(Task, batch[o].user, batch[o].accrual)
    BY <1>5 DEF CreditOrder
  <2> QED BY <1>5, <2>1, <2>2, IncreaseCurrentType DEF CreditOrder, StoreTypeOK, TaskTypeOK
<1>6. CASE CommitTask
  <2>1. orders' \in [Orders -> OrderRow \cup {Null}] /\ credits' \in [Orders -> Nat]
    BY <1>6 DEF CommitTask, Written, StoreTypeOK, TaskTypeOK
  <2>2. CommitBalances(Task) /\ NextTick /\ UNCHANGED <<withdrawals, service>>
    BY <1>6 DEF CommitTask
  <2> QED BY <2>1, <2>2, EndTxType, NextTickType DEF StoreTypeOK, TaskTypeOK
<1>7. CASE TaskFails
  <2>1. RollbackBalances(Task) /\ NextTick
            /\ UNCHANGED <<orders, withdrawals, service, credits>>
    BY <1>7 DEF TaskFails
  <2> QED BY <2>1, EndTxType, NextTickType DEF StoreTypeOK, TaskTypeOK
<1> QED BY <1>1, <1>2, <1>3, <1>4, <1>5, <1>6, <1>7 DEF TaskStep, TaskFault

\* The initial states are well typed.
LEMMA PointsInitType == PointsInit => PointsTypeOK
<1> SUFFICES ASSUME PointsInit PROVE PointsTypeOK
  OBVIOUS
<1> USE DEF PointsInit
<1>1. StoreTypeOK
  BY StoreAssumption DEF StoreInit, StoreTypeOK, BalanceRow
<1>2. UploadTypeOK
  BY DEF UploadInit, UploadTypeOK
<1>3. WithdrawTypeOK
  BY DEF WithdrawInit, WithdrawTypeOK, WithdrawPc
<1> QED BY <1>1, <1>2, <1>3 DEF PointsTypeOK, OrderTypeOK

LEMMA InitPoints == Init => PointsInit
BY DEF Init

LEMMA InitType == Init => TypeOK
<1>1. TaskInit => TaskTypeOK
  BY DEF TaskInit, TaskTypeOK, TaskPc, Nothing
<1> QED BY <1>1, PointsInitType DEF Init, TypeOK

\* Every step, faults and crashes included, keeps the types.
LEMMA StepType == TypeOK /\ [Next]_vars => TypeOK'
<1> SUFFICES ASSUME TypeOK, [Next]_vars PROVE TypeOK'
  OBVIOUS
<1> USE DEF TypeOK, PointsTypeOK
<1>1. ASSUME NEW r \in Uploads, UploadStep(r) \/ UploadFault(r),
             UNCHANGED <<withdraw, accrualVars>>
      PROVE  TypeOK'
  BY <1>1, UploadType DEF WithdrawTypeOK, TaskTypeOK, accrualVars, taskVars
<1>2. ASSUME NEW w \in Withdraws, WithdrawStep(w) \/ WithdrawFault(w),
             UNCHANGED <<upload, accrualVars>>
      PROVE  TypeOK'
  BY <1>2, WithdrawType DEF TaskTypeOK, accrualVars, taskVars
<1>3. CASE TaskRuns \/ TaskBreaks
  BY <1>3, TaskStepType
  DEF TaskRuns, TaskBreaks, requestVars, OrderTypeOK, UploadTypeOK, WithdrawTypeOK
<1>4. CASE ServiceRuns
  BY <1>4 DEF ServiceRuns, ServiceDecides, storeVars, requestVars, taskVars,
              OrderTypeOK, StoreTypeOK, UploadTypeOK, WithdrawTypeOK, TaskTypeOK
<1>5. CASE Crash
  <2>1. StoreTypeOK'
    BY <1>5, EndTxType DEF Crash, OrderTypeOK, StoreTypeOK
  <2>2. TaskTypeOK'
    BY <1>5, NextTickType DEF Crash, TaskTypeOK
  <2>3. UploadTypeOK'
    BY <1>5 DEF Crash, OrderTypeOK, UploadTypeOK
  <2>4. WithdrawTypeOK'
    BY <1>5 DEF Crash, WithdrawTypeOK, WithdrawPc
  <2> QED BY <2>1, <2>2, <2>3, <2>4 DEF OrderTypeOK
<1>6. CASE UNCHANGED vars
  BY <1>6 DEF vars, storeVars, accrualVars, taskVars,
              OrderTypeOK, StoreTypeOK, UploadTypeOK, WithdrawTypeOK, TaskTypeOK
<1> QED BY <1>1, <1>2, <1>3, <1>4, <1>5, <1>6
    DEF Next, UploadRuns, UploadBreaks, WithdrawRuns, WithdrawBreaks, Quiet

\* The whole state is well typed in every reachable state.
THEOREM TypeCorrect == Spec => []TypeOK
BY InitType, StepType, PTL DEF Spec

-----------------------------------------------------------------------------
(* What the steps do to the table orders and to the task.                    *)

\* The handlers change the table orders by inserting new rows only.
LEMMA RequestsOnlyInsert ==
    ASSUME PointsTypeOK,
           \/ \E r \in Uploads : UploadStep(r) \/ UploadFault(r)
           \/ \E w \in Withdraws : WithdrawStep(w) \/ WithdrawFault(w)
    PROVE  \/ UNCHANGED orders
           \/ \E u \in Users, o \in Orders : InsertOrder(u, o)
<1>1. ASSUME NEW r \in Uploads, UploadStep(r) \/ UploadFault(r)
      PROVE  UNCHANGED orders \/ \E u \in Users, o \in Orders : InsertOrder(u, o)
  <2>1. upload[r].user \in Users /\ upload[r].order \in Orders
    BY DEF PointsTypeOK, OrderTypeOK, UploadTypeOK
  <2> QED BY <1>1, <2>1
      DEF UploadStep, UploadFault, UploadLookup, UploadInsert, UploadInsertDuplicate,
          UploadFails, UploadInsertUnconfirmed, storeVars
<1>2. ASSUME NEW w \in Withdraws, WithdrawStep(w) \/ WithdrawFault(w)
      PROVE  UNCHANGED orders \/ \E u \in Users, o \in Orders : InsertOrder(u, o)
  <2>1. withdraw[w].user \in Users /\ withdraw[w].order \in Orders
    BY DEF PointsTypeOK, WithdrawTypeOK
  <2> QED BY <1>2, <2>1
      DEF WithdrawStep, WithdrawFault, WLookup, WInsert, WInsertDuplicate, WOrderByUser,
          WBalance, WIncreaseWithdraw, WCreateWithdrawal, WCommit, WLockTimeout, WFails,
          WInsertUnconfirmed, WCommitUnconfirmed, Apply, storeVars
<1> QED BY <1>1, <1>2

\* What an insert changes: one row, which did not exist and is in no batch.
LEMMA InsertEffect ==
    ASSUME TypeOK, BatchInv, NEW u \in Users, NEW p \in Orders, InsertOrder(u, p)
    PROVE  /\ orders[p] = Null /\ orders'[p] = NewOrder(u)
           /\ NewOrder(u) # Null /\ NewOrder(u).accrual = Null
           /\ \A o \in Orders : o # p => orders'[o] = orders[o]
           /\ ~InBatch(p)
<1>1. /\ orders \in [Orders -> OrderRow \cup {Null}]
      /\ ~Exists(p)
      /\ orders' = [orders EXCEPT ![p] = NewOrder(u)]
  BY DEF TypeOK, PointsTypeOK, OrderTypeOK, StoreTypeOK, InsertOrder
<1>2. NewOrder(u) # Null
  BY StoreAssumption, NewOrderType
<1>3. NewOrder(u).accrual = Null
  BY DEF NewOrder
<1> QED BY <1>1, <1>2, <1>3 DEF Exists, BatchInv, IsOpen

-----------------------------------------------------------------------------
(* The rows of the batch.                                                    *)

LEMMA BatchInvInit == Init => BatchInv
BY DEF Init, TaskInit, BatchInv, Nothing, InBatch

\* The same rows, or fewer, of the same table at the same or a later call.
LEMMA BatchInvKept ==
    ASSUME BatchInv, UNCHANGED orders,
           \/ UNCHANGED batch /\ (taskPc' = "GetOrders" => taskPc = "GetOrders")
           \/ batch' = Nothing
           \/ NextTick
    PROVE  BatchInv'
BY DEF BatchInv, NextTick, Nothing, InBatch, IsOpen, Exists

LEMMA BatchInvStep ==
    ASSUME TypeOK, BatchInv, [Next]_vars
    PROVE  BatchInv'
<1>1. ASSUME \/ \E r \in Uploads : UploadStep(r) \/ UploadFault(r)
             \/ \E w \in Withdraws : WithdrawStep(w) \/ WithdrawFault(w),
             UNCHANGED accrualVars
      PROVE  BatchInv'
  <2>1. CASE UNCHANGED orders
    BY <1>1, <2>1, BatchInvKept DEF accrualVars, taskVars
  <2>2. ASSUME NEW u \in Users, NEW p \in Orders, InsertOrder(u, p)
        PROVE  BatchInv'
    BY <1>1, <2>2, InsertEffect
    DEF accrualVars, taskVars, BatchInv, InBatch, IsOpen, Exists
  <2> QED BY <1>1, <2>1, <2>2, RequestsOnlyInsert DEF TypeOK
<1>2. CASE OrdersByStatus
  BY <1>2 DEF OrdersByStatus, SelectByStatus, storeVars, BatchInv, InBatch, IsOpen, Exists
<1>3. CASE ReceiveStatus
  <2>1. UNCHANGED orders /\ taskPc = "GetOrders"
    BY <1>3 DEF ReceiveStatus, storeVars
  <2>2. CASE batch' = Changed /\ taskPc' = "UpdateAll"
    <3>1. ASSUME NEW o \in Orders, batch'[o] # Null
          PROVE  InBatch(o) /\ batch'[o].user = batch[o].user
      <4>1. InBatch(o) /\ batch'[o] = Hydrate(batch[o], answer[o]).order
        BY <2>2, <3>1 DEF Changed
      <4>2. batch[o] \in OrderRow
        BY <4>1 DEF InBatch, TypeOK, TaskTypeOK
      <4> QED BY <4>1, <4>2, HydrateType
    <3> QED BY <2>1, <2>2, <3>1 DEF BatchInv, InBatch, IsOpen, Exists
  <2> QED BY <1>3, <2>1, <2>2, BatchInvKept DEF ReceiveStatus
<1>4. CASE CommitTask
  BY <1>4 DEF CommitTask, Written, NextTick, Nothing, BatchInv, InBatch
<1>5. ASSUME NEW o \in Orders, GetOrder(o) \/ GetOrderFails(o) \/ CreditOrder(o)
      PROVE  BatchInv'
  BY <1>5, BatchInvKept DEF GetOrder, GetOrderFails, CreditOrder, storeVars
<1>6. CASE UpdateAll \/ UpdateAllFails \/ TaskFails
  BY <1>6, BatchInvKept DEF UpdateAll, UpdateAllFails, TaskFails, storeVars
<1>7. CASE ServiceRuns \/ Crash
  BY <1>7, BatchInvKept DEF ServiceRuns, Crash, storeVars, taskVars
<1>8. CASE UNCHANGED vars
  BY <1>8, BatchInvKept DEF vars, storeVars, accrualVars, taskVars
<1> QED BY <1>1, <1>2, <1>3, <1>4, <1>5, <1>6, <1>7, <1>8
    DEF Next, UploadRuns, UploadBreaks, WithdrawRuns, WithdrawBreaks, Quiet,
        TaskRuns, TaskBreaks, TaskStep, TaskFault

\* What the task works on agrees with the table in every reachable state.
THEOREM BatchAgrees == Spec => [](TypeOK /\ BatchInv)
<1>1. TypeOK /\ BatchInv /\ [Next]_vars => (TypeOK /\ BatchInv)'
  BY StepType, BatchInvStep
<1> QED BY <1>1, InitType, BatchInvInit, PTL DEF Spec

\* The table orders changes in two ways: an insert, and the commit of the task.
LEMMA TableSteps ==
    ASSUME TypeOK, [Next]_vars
    PROVE  \/ UNCHANGED orders
           \/ \E u \in Users, o \in Orders : InsertOrder(u, o)
           \/ CommitTask
BY RequestsOnlyInsert
DEF TypeOK, Next, UploadRuns, UploadBreaks, WithdrawRuns, WithdrawBreaks, TaskRuns, TaskBreaks,
    TaskStep, TaskFault, ServiceRuns, Crash, Quiet, OrdersByStatus, GetOrder, GetOrderFails,
    ReceiveStatus, UpdateAll, UpdateAllFails, CreditOrder, TaskFails, vars, storeVars

\* The row of an order that is INVALID or PROCESSED never changes again.
THEOREM FinalIsFinal == Spec => FinalRowsNeverChange
<1>1. ASSUME TypeOK, BatchInv, [Next]_vars
      PROVE  [\A o \in Orders : Exists(o) /\ ~IsOpen(o) => orders'[o] = orders[o]]_orders
  <2>1. ASSUME NEW u \in Users, NEW p \in Orders, InsertOrder(u, p),
               NEW o \in Orders, Exists(o)
        PROVE  orders'[o] = orders[o]
    BY <1>1, <2>1, InsertEffect DEF Exists
  <2>2. ASSUME CommitTask, NEW o \in Orders, ~IsOpen(o)
        PROVE  orders'[o] = orders[o]
    BY <1>1, <2>2 DEF CommitTask, Written, BatchInv
  <2> QED BY <1>1, <2>1, <2>2, TableSteps
<1> QED BY <1>1, BatchAgrees, PTL DEF Spec, FinalRowsNeverChange

\* A stored order stays stored and stays its user's, whatever runs or fails.
THEOREM OwnerIsFixed == Spec => OwnerNeverChanges
<1>1. ASSUME TypeOK, BatchInv, [Next]_vars
      PROVE  [\A o \in Orders : Exists(o) =>
                  Exists(o)' /\ orders'[o].user = orders[o].user]_orders
  <2>1. ASSUME NEW u \in Users, NEW p \in Orders, InsertOrder(u, p),
               NEW o \in Orders, Exists(o)
        PROVE  Exists(o)' /\ orders'[o].user = orders[o].user
    BY <1>1, <2>1, InsertEffect DEF Exists
  <2>2. ASSUME CommitTask, NEW o \in Orders, Exists(o)
        PROVE  Exists(o)' /\ orders'[o].user = orders[o].user
    BY <1>1, <2>2 DEF CommitTask, Written, BatchInv, InBatch, Exists
  <2> QED BY <1>1, <2>1, <2>2, TableSteps
<1> QED BY <1>1, BatchAgrees, PTL DEF Spec, OwnerNeverChanges

-----------------------------------------------------------------------------
(* Crediting.                                                                *)

\* A new row has no accrual and is in no batch.
LEMMA InsertKeepsCreditInv ==
    ASSUME TypeOK, BatchInv, CreditInv, UNCHANGED accrualVars,
           NEW u \in Users, NEW p \in Orders, InsertOrder(u, p)
    PROVE  CreditInv'
<1>1. UNCHANGED <<taskPc, batch, answer, credited, service, credits>>
  BY DEF accrualVars, taskVars
<1>2. /\ orders[p] = Null /\ orders'[p] # Null /\ orders'[p].accrual = Null
      /\ \A o \in Orders : o # p => orders'[o] = orders[o]
  BY InsertEffect
<1>3. ToCredit' = ToCredit /\ Nothing' = Nothing
  BY <1>1 DEF ToCredit, InBatch, Nothing
<1> QED BY <1>1, <1>2, <1>3 DEF CreditInv, CreditedExactlyOnce, Exists

\* Steps that leave the table, the batch and the history alone.
LEMMA CreditInvUnchanged ==
    ASSUME CreditInv, UNCHANGED <<orders, taskPc, batch, credited, credits>>
    PROVE  CreditInv'
<1>1. /\ (\A o \in Orders : Exists(o)' = Exists(o))
      /\ (\A o \in Orders : IsOpen(o)' = IsOpen(o))
      /\ (\A o \in Orders : InBatch(o)' = InBatch(o))
      /\ ToCredit' = ToCredit
      /\ Nothing' = Nothing
  BY DEF Exists, IsOpen, InBatch, ToCredit, Nothing
<1> QED BY <1>1 DEF CreditInv, CreditedExactlyOnce

\* A cycle that ends without a commit leaves nothing behind.
LEMMA NextTickKeepsCreditInv ==
    ASSUME CreditInv, UNCHANGED <<orders, credits>>, NextTick
    PROVE  CreditInv'
<1>1. (\A o \in Orders : ~InBatch(o))' /\ ToCredit' = {}
  BY DEF NextTick, Nothing, InBatch, ToCredit
<1>2. (\A o \in Orders : Exists(o)' = Exists(o)) /\ Nothing' = Nothing
  BY DEF Exists, Nothing
<1> QED BY <1>1, <1>2 DEF CreditInv, CreditedExactlyOnce, NextTick

\* A hydrated copy with an amount is PROCESSED when the service conforms.
LEMMA HydratedIsProcessed ==
    ASSUME ConformingReplies, NEW row \in OrderRow, row.accrual = Null,
           NEW a \in Replies \cup {NoContent, Failed, Null},
           Hydrate(row, a).order.accrual # Null
    PROVE  Hydrate(row, a).order.status = "PROCESSED"
<1>1. CASE HasEntity(a)
  <2>1. a \in Replies
    BY <1>1, ReplyAssumption DEF HasEntity, NoContent, Failed, Reply, AccrualStatus
  <2>2. a.accrual # Null
    BY <1>1 DEF Hydrate, OrderRow
  <2>3. a.status = "PROCESSED"
    BY <2>1, <2>2 DEF ConformingReplies
  <2> QED BY <1>1, <2>3 DEF Hydrate, OrderRow, MapStatus
<1>2. CASE ~HasEntity(a)
  BY <1>2 DEF Hydrate
<1> QED BY <1>1, <1>2

\* The task's own steps.
LEMMA TaskKeepsCreditInv ==
    ASSUME ConformingReplies, TypeOK, BatchInv, CreditInv, TaskStep \/ TaskFault
    PROVE  CreditInv'
<1> USE DEF TypeOK, PointsTypeOK, OrderTypeOK
<1>1. CASE OrdersByStatus
  <2>1. /\ UNCHANGED <<orders, credited, credits>>
        /\ taskPc = "OrdersByStatus" /\ taskPc' = "GetOrders"
        /\ batch' = [o \in Orders |-> IF IsOpen(o) THEN orders[o] ELSE Null]
    BY <1>1 DEF OrdersByStatus, SelectByStatus, storeVars
  <2>2. \A o \in Orders : /\ InBatch(o)' => IsOpen(o) /\ batch'[o] = orders[o]
                          /\ IsOpen(o) => orders[o].accrual = Null
    BY <2>1 DEF InBatch, CreditInv, IsOpen
  <2>3. /\ \A o \in Orders : Exists(o)' = Exists(o) /\ IsOpen(o)' = IsOpen(o)
        /\ credited = {}
    BY <2>1 DEF Exists, IsOpen, CreditInv
  <2>4. ToCredit' = {}
    BY <2>2 DEF ToCredit
  <2> QED BY <2>1, <2>2, <2>3, <2>4 DEF CreditInv, CreditedExactlyOnce
<1>2. ASSUME NEW o \in Orders, GetOrder(o) \/ GetOrderFails(o)
      PROVE  CreditInv'
  BY <1>2, CreditInvUnchanged DEF GetOrder, GetOrderFails, storeVars
<1>3. CASE ReceiveStatus
  <2>1. UNCHANGED <<orders, credits>> /\ taskPc = "GetOrders"
    BY <1>3 DEF ReceiveStatus, storeVars
  <2>2. CASE NextTick
    BY <2>1, <2>2, NextTickKeepsCreditInv
  <2>3. CASE batch' = Changed /\ taskPc' = "UpdateAll" /\ UNCHANGED credited
    <3>1. ASSUME NEW o \in Orders, batch'[o] # Null
          PROVE  /\ IsOpen(o) /\ batch'[o].user = orders[o].user
                 /\ batch'[o].accrual # Null => batch'[o].status = "PROCESSED"
      <4>1. InBatch(o) /\ batch'[o] = Hydrate(batch[o], answer[o]).order
        BY <2>3, <3>1 DEF Changed
      <4>2. /\ batch[o] = orders[o] /\ batch[o] \in OrderRow
            /\ IsOpen(o) /\ batch[o].accrual = Null
        BY <2>1, <4>1 DEF CreditInv, BatchInv, InBatch, IsOpen, TaskTypeOK
      <4>3. batch'[o].user = orders[o].user
        BY <4>1, <4>2, HydrateType
      <4>4. answer[o] \in Replies \cup {NoContent, Failed, Null}
        BY DEF TaskTypeOK
      <4> QED BY <4>1, <4>2, <4>3, <4>4, HydratedIsProcessed
    <3>2. /\ \A o \in Orders : Exists(o)' = Exists(o) /\ IsOpen(o)' = IsOpen(o)
          /\ credited' = {}
      BY <2>1, <2>3 DEF Exists, IsOpen, CreditInv
    <3> QED BY <2>1, <2>3, <3>1, <3>2
        DEF CreditInv, CreditedExactlyOnce, InBatch, ToCredit
  <2> QED BY <1>3, <2>2, <2>3 DEF ReceiveStatus
<1>4. CASE UpdateAll
  <2>1. /\ UNCHANGED <<orders, batch, credited, credits>>
        /\ taskPc = "UpdateAll" /\ taskPc' = "IncreaseCurrent"
    BY <1>4 DEF UpdateAll, storeVars
  <2>2. \A o \in Orders : Exists(o)' = Exists(o) /\ IsOpen(o)' = IsOpen(o)
                            /\ InBatch(o)' = InBatch(o)
    BY <2>1 DEF Exists, IsOpen, InBatch
  <2> QED BY <2>1, <2>2 DEF CreditInv, CreditedExactlyOnce, ToCredit
<1>5. ASSUME NEW o \in Orders, CreditOrder(o)
      PROVE  CreditInv'
  <2>1. /\ UNCHANGED <<orders, batch, taskPc, credits>>
        /\ taskPc = "IncreaseCurrent" /\ o \in ToCredit
        /\ credited' = credited \cup {o}
    BY <1>5 DEF CreditOrder
  <2>2. /\ \A p \in Orders : Exists(p)' = Exists(p) /\ IsOpen(p)' = IsOpen(p)
                             /\ InBatch(p)' = InBatch(p)
        /\ ToCredit' = ToCredit
    BY <2>1 DEF Exists, IsOpen, InBatch, ToCredit
  <2> QED BY <2>1, <2>2 DEF CreditInv, CreditedExactlyOnce
<1>6. CASE CommitTask
  <2>1. /\ orders' = [o \in Orders |-> IF InBatch(o) THEN batch[o] ELSE orders[o]]
        /\ credits' = [o \in Orders |-> IF o \in credited THEN credits[o] + 1
                                                        ELSE credits[o]]
        /\ credited = ToCredit
        /\ NextTick
    BY <1>6 DEF CommitTask, Written, CreditInv
  <2>2. ASSUME NEW o \in Orders
        PROVE  /\ credits'[o] = IF /\ Exists(o)' /\ orders'[o].status = "PROCESSED"
                                   /\ orders'[o].accrual # Null THEN 1 ELSE 0
               /\ Exists(o)' /\ orders'[o].accrual # Null
                      => orders'[o].status = "PROCESSED"
    <3>1. CASE InBatch(o)
      <4>1. IsOpen(o) /\ credits[o] = 0 /\ orders'[o] = batch[o] /\ Exists(o)'
        BY <2>1, <3>1
        DEF CreditInv, BatchInv, CreditedExactlyOnce, IsOpen, Exists, InBatch
      <4>2. o \in credited <=> batch[o].accrual # Null
        BY <2>1, <3>1 DEF ToCredit
      <4>3. o \in credited => batch[o].status = "PROCESSED"
        BY <2>1 DEF CreditInv
      <4> QED BY <2>1, <4>1, <4>2, <4>3
    <3>2. CASE ~InBatch(o)
      <4>1. o \notin credited /\ orders'[o] = orders[o] /\ credits'[o] = credits[o]
        BY <2>1, <3>2 DEF ToCredit
      <4> QED BY <4>1 DEF CreditInv, CreditedExactlyOnce, Exists
    <3> QED BY <3>1, <3>2
  <2>3. (\A o \in Orders : ~InBatch(o))' /\ ToCredit' = {}
    BY <2>1 DEF NextTick, Nothing, InBatch, ToCredit
  <2>4. batch' = Nothing' /\ credited' = {} /\ taskPc' = "OrdersByStatus"
    BY <2>1 DEF NextTick, Nothing
  <2> QED BY <2>2, <2>3, <2>4 DEF CreditInv, CreditedExactlyOnce
<1>7. CASE TaskFails
  BY <1>7, NextTickKeepsCreditInv DEF TaskFails
<1>8. CASE UpdateAllFails
  <2>1. /\ UNCHANGED <<orders, credited, credits>> /\ credited = {}
        /\ taskPc' = "IncreaseCurrent" /\ batch' = Nothing
    BY <1>8 DEF UpdateAllFails, storeVars, CreditInv
  <2>2. (\A o \in Orders : Exists(o)' = Exists(o)) /\ ToCredit' = {}
    BY <2>1 DEF Exists, Nothing, InBatch, ToCredit
  <2> QED BY <2>1, <2>2 DEF CreditInv, CreditedExactlyOnce
<1> QED BY <1>1, <1>2, <1>3, <1>4, <1>5, <1>6, <1>7, <1>8 DEF TaskStep, TaskFault

-----------------------------------------------------------------------------
(* The invariant.                                                            *)

\* It holds initially.
LEMMA CreditInvInit == Init => CreditInv
BY DEF Init, PointsInit, StoreInit, TaskInit, CreditInv, CreditedExactlyOnce,
       Exists, InBatch, ToCredit, Nothing

\* Every step keeps it.
LEMMA CreditInvStep ==
    ASSUME ConformingReplies, TypeOK, BatchInv, CreditInv, [Next]_vars
    PROVE  CreditInv'
<1>1. ASSUME \/ \E r \in Uploads : UploadStep(r) \/ UploadFault(r)
             \/ \E w \in Withdraws : WithdrawStep(w) \/ WithdrawFault(w),
             UNCHANGED accrualVars
      PROVE  CreditInv'
  <2>1. CASE UNCHANGED orders
    BY <1>1, <2>1, CreditInvUnchanged DEF accrualVars, taskVars
  <2>2. ASSUME NEW u \in Users, NEW o \in Orders, InsertOrder(u, o)
        PROVE  CreditInv'
    BY <1>1, <2>2, InsertKeepsCreditInv
  <2> QED BY <1>1, <2>1, <2>2, RequestsOnlyInsert DEF TypeOK
<1>2. CASE TaskRuns \/ TaskBreaks
  BY <1>2, TaskKeepsCreditInv DEF TaskRuns, TaskBreaks
<1>3. CASE ServiceRuns
  BY <1>3, CreditInvUnchanged DEF ServiceRuns, storeVars, taskVars
<1>4. CASE Crash
  BY <1>4, NextTickKeepsCreditInv DEF Crash
<1>5. CASE UNCHANGED vars
  BY <1>5, CreditInvUnchanged DEF vars, storeVars, accrualVars, taskVars
<1> QED BY <1>1, <1>2, <1>3, <1>4, <1>5
    DEF Next, UploadRuns, UploadBreaks, WithdrawRuns, WithdrawBreaks, Quiet

\* What actualize relies on from one call to the next: amounts are found on
\* PROCESSED rows and copies only, an order of the batch has not been credited
\* yet, and only orders of the batch are credited by the open transaction.
THEOREM TaskInvariant == ASSUME ConformingReplies PROVE Spec => []CreditInv
<1>1. TypeOK /\ BatchInv /\ CreditInv /\ [Next]_vars => CreditInv'
  BY CreditInvStep
<1> QED BY <1>1, BatchAgrees, CreditInvInit, PTL DEF Spec

\* Each order with an amount is credited exactly once, together with its PROCESSED
\* status, and no other order ever is: through failed polls, rolled back
\* transactions, lost commits and crashes.  The hypothesis is about the external
\* accrual service: it sends an amount with the status PROCESSED only.
THEOREM CreditedOnce == ASSUME ConformingReplies PROVE Spec => []CreditedExactlyOnce
<1>1. CreditInv => CreditedExactlyOnce
  BY DEF CreditInv
<1> QED BY <1>1, TaskInvariant, PTL

-----------------------------------------------------------------------------
(* The rows and the accrual service.                                         *)

Final == {"INVALID", "PROCESSED"}

\* The amount of an answer as a row holds it.
Amount(reply) == IF reply.accrual = Null THEN Null ELSE ToCents(reply.accrual)

\* An answer that is no later than what the service would answer now, a row that is
\* no later.
Follows(reply, now) ==
    /\ Rank(reply) <= Rank(now)
    /\ reply.status \in Final => reply = now

RowFollows(row, now) ==
    row.status # "NEW" =>
        /\ Rank(row) <= Rank(now)
        /\ row.status \in Final => row.status = now.status /\ row.accrual = Amount(now)

(* Not only the table follows the service: so do the answers of a cycle, which *)
(* are already old when they are hydrated, and the copies it writes later.   *)
FollowInv ==
    /\ \A o \in Orders : Exists(o) => RowFollows(orders[o], service[o])
    /\ \A o \in Orders : HasEntity(answer[o]) => Follows(answer[o], service[o])
    /\ \A o \in Orders : InBatch(o) => RowFollows(batch[o], service[o])

LEMMA RankValues ==
    ASSUME NEW reply
    PROVE  /\ Rank(reply) \in 0..3
           /\ Rank(reply) = 3 <=> reply.status \in Final
           /\ reply.status = "PROCESSING" => Rank(reply) = 2
BY DEF Rank, Final

\* The service takes no step back, and a final answer is its last.
LEMMA ServiceMoves ==
    ASSUME TypeOK, NEW o \in Orders, ServiceDecides(o), NEW p \in Orders
    PROVE  Follows(service[p], service'[p])
<1>1. PICK reply \in Replies : /\ Rank(reply) > Rank(service[o])
                               /\ service' = [service EXCEPT ![o] = reply]
  BY DEF ServiceDecides
<1>2. service'[p] = IF p = o THEN reply ELSE service[p]
  BY <1>1 DEF TypeOK, TaskTypeOK
<1>3. /\ Rank(service[p]) \in 0..3 /\ Rank(reply) \in 0..3
      /\ service[p].status \in Final => Rank(service[p]) = 3
  BY RankValues
<1> QED BY <1>1, <1>2, <1>3 DEF Follows

\* What follows the service still does when the service has moved on.
LEMMA FollowsLater ==
    ASSUME NEW old, NEW now, Follows(old, now)
    PROVE  /\ \A reply : Follows(reply, old) => Follows(reply, now)
           /\ \A row : RowFollows(row, old) => RowFollows(row, now)
<1>1. Rank(old) \in 0..3 /\ Rank(now) \in 0..3
  BY RankValues
<1>2. ASSUME NEW reply, Follows(reply, old) PROVE Follows(reply, now)
  <2>1. Rank(reply) \in 0..3
    BY RankValues
  <2> QED BY <1>1, <1>2, <2>1 DEF Follows
<1>3. ASSUME NEW row, RowFollows(row, old) PROVE RowFollows(row, now)
  <2>1. Rank(row) \in 0..3
    BY RankValues
  <2> QED BY <1>1, <1>3, <2>1 DEF Follows, RowFollows
<1> QED BY <1>2, <1>3

\* A hydrated copy follows the service if the row and the answer do.
LEMMA HydrateFollows ==
    ASSUME NEW row \in OrderRow, row.accrual = Null, NEW a, NEW now,
           RowFollows(row, now), HasEntity(a) => Follows(a, now)
    PROVE  RowFollows(Hydrate(row, a).order, now)
<1>1. CASE ~HasEntity(a)
  BY <1>1 DEF Hydrate
<1>2. CASE HasEntity(a)
  <2> DEFINE copy == Hydrate(row, a).order
  <2>1. /\ copy.status = MapStatus(a.status)
        /\ copy.accrual = Amount(a)
    BY <1>2 DEF Hydrate, OrderRow, Amount
  <2>2. CASE a.status \in Final
    <3>1. a = now
      BY <1>2, <2>2 DEF Follows
    <3>2. copy.status = a.status
      BY <2>1, <2>2 DEF MapStatus, Final
    <3>3. Rank(copy) = 3 /\ Rank(now) = 3
      BY <2>2, <3>1, <3>2, RankValues
    <3> QED BY <2>1, <3>1, <3>2, <3>3 DEF RowFollows
  <2>3. CASE a.status = "PROCESSING"
    <3>1. copy.status = "PROCESSING"
      BY <2>1, <2>3 DEF MapStatus
    <3>2. Rank(copy) = 2 /\ Rank(a) = 2
      BY <2>3, <3>1, RankValues
    <3> QED BY <1>2, <3>1, <3>2 DEF RowFollows, Follows, Final
  <2>4. CASE a.status \notin Final \cup {"PROCESSING"}
    <3>1. copy.status = "NEW"
      BY <2>1, <2>4 DEF MapStatus, Final
    <3> QED BY <3>1 DEF RowFollows
  <2> QED BY <2>2, <2>3, <2>4
<1> QED BY <1>1, <1>2

LEMMA FollowInit == Init => FollowInv
<1> SUFFICES ASSUME Init PROVE FollowInv
  OBVIOUS
<1>1. \A o \in Orders : orders[o] = Null /\ answer[o] = Null /\ batch[o] = Null
  BY DEF Init, PointsInit, StoreInit, TaskInit, Nothing
<1> QED BY <1>1, ReplyAssumption DEF FollowInv, Exists, InBatch, HasEntity

\* A cycle that ends drops its answers and copies.
LEMMA NextTickFollows ==
    ASSUME FollowInv, NextTick, UNCHANGED <<orders, service>>
    PROVE  FollowInv'
<1>1. \A o \in Orders : batch'[o] = Null /\ answer'[o] = Null
  BY DEF NextTick, Nothing
<1> QED BY <1>1, ReplyAssumption DEF FollowInv, Exists, InBatch, HasEntity

LEMMA TaskFollows ==
    ASSUME TypeOK, BatchInv, CreditInv, FollowInv, TaskStep \/ TaskFault
    PROVE  FollowInv'
<1>1. CASE OrdersByStatus
  <2>1. /\ UNCHANGED <<orders, answer, service>>
        /\ \A o \in Orders : batch'[o] = IF IsOpen(o) THEN orders[o] ELSE Null
    BY <1>1 DEF OrdersByStatus, SelectByStatus, storeVars
  <2> QED BY <2>1 DEF FollowInv, InBatch, IsOpen, Exists
<1>2. ASSUME NEW o \in Orders, GetOrder(o) \/ GetOrderFails(o)
      PROVE  FollowInv'
  <2>1. /\ UNCHANGED <<orders, batch, service>>
        /\ answer'[o] \in {Failed, service[o]}
        /\ \A p \in Orders : p # o => answer'[p] = answer[p]
    BY <1>2 DEF GetOrder, GetOrderFails, storeVars, TypeOK, TaskTypeOK
  <2>2. ~HasEntity(Failed)
    BY DEF HasEntity, Failed, Reply, AccrualStatus
  <2>3. Follows(service[o], service[o])
    BY RankValues DEF Follows
  <2> QED BY <2>1, <2>2, <2>3 DEF FollowInv, Exists, InBatch
<1>3. CASE ReceiveStatus
  <2>1. UNCHANGED <<orders, service>> /\ taskPc = "GetOrders"
    BY <1>3 DEF ReceiveStatus, storeVars
  <2>2. CASE NextTick
    BY <2>1, <2>2, NextTickFollows
  <2>3. CASE batch' = Changed /\ answer' = Nothing
    <3>1. ASSUME NEW o \in Orders, batch'[o] # Null
          PROVE  RowFollows(batch'[o], service[o])
      <4>1. InBatch(o) /\ batch'[o] = Hydrate(batch[o], answer[o]).order
        BY <2>3, <3>1 DEF Changed
      <4>2. /\ batch[o] = orders[o] /\ batch[o] \in OrderRow /\ batch[o].accrual = Null
        BY <2>1, <4>1 DEF CreditInv, BatchInv, InBatch, IsOpen, TypeOK, TaskTypeOK
      <4> QED BY <4>1, <4>2, HydrateFollows DEF FollowInv
    <3>2. \A o \in Orders : ~HasEntity(answer'[o])
      BY <2>3, ReplyAssumption DEF Nothing, HasEntity
    <3> QED BY <2>1, <3>1, <3>2 DEF FollowInv, Exists, InBatch
  <2> QED BY <1>3, <2>2, <2>3 DEF ReceiveStatus
<1>4. ASSUME NEW o \in Orders, CreditOrder(o)
      PROVE  FollowInv'
  BY <1>4 DEF CreditOrder, FollowInv, Exists, InBatch
<1>5. CASE CommitTask
  <2>1. /\ \A o \in Orders : orders'[o] = IF InBatch(o) THEN batch[o] ELSE orders[o]
        /\ UNCHANGED service
        /\ \A o \in Orders : batch'[o] = Null /\ answer'[o] = Null
    BY <1>5 DEF CommitTask, Written, NextTick, Nothing
  <2> QED BY <2>1, ReplyAssumption DEF FollowInv, Exists, InBatch, HasEntity
<1>6. CASE TaskFails
  BY <1>6, NextTickFollows DEF TaskFails
<1>7. CASE UpdateAll \/ UpdateAllFails
  BY <1>7 DEF UpdateAll, UpdateAllFails, Nothing, storeVars, FollowInv, Exists, InBatch
<1> QED BY <1>1, <1>2, <1>3, <1>4, <1>5, <1>6, <1>7 DEF TaskStep, TaskFault

LEMMA FollowStep ==
    ASSUME TypeOK, BatchInv, CreditInv, FollowInv, [Next]_vars
    PROVE  FollowInv'
<1>1. ASSUME \/ \E r \in Uploads : UploadStep(r) \/ UploadFault(r)
             \/ \E w \in Withdraws : WithdrawStep(w) \/ WithdrawFault(w),
             UNCHANGED accrualVars
      PROVE  FollowInv'
  <2>1. UNCHANGED <<batch, answer, service>>
    BY <1>1 DEF accrualVars, taskVars
  <2>2. CASE UNCHANGED orders
    BY <2>1, <2>2 DEF FollowInv, Exists, InBatch
  <2>3. ASSUME NEW u \in Users, NEW p \in Orders, InsertOrder(u, p)
        PROVE  FollowInv'
    <3>1. /\ orders'[p] = NewOrder(u) /\ NewOrder(u).status = "NEW"
          /\ \A o \in Orders : o # p => orders'[o] = orders[o]
      BY <2>3, InsertEffect DEF NewOrder
    <3> QED BY <2>1, <3>1 DEF FollowInv, RowFollows, Exists, InBatch
  <2> QED BY <1>1, <2>2, <2>3, RequestsOnlyInsert DEF TypeOK
<1>2. CASE TaskRuns \/ TaskBreaks
  BY <1>2, TaskFollows DEF TaskRuns, TaskBreaks
<1>3. CASE ServiceRuns
  <2>1. /\ UNCHANGED <<orders, batch, answer>>
        /\ \E o \in Orders : ServiceDecides(o)
    BY <1>3 DEF ServiceRuns, storeVars, taskVars
  <2>2. \A p \in Orders : Follows(service[p], service'[p])
    BY <2>1, ServiceMoves
  <2> QED BY <2>1, <2>2, FollowsLater DEF FollowInv, Exists, InBatch
<1>4. CASE Crash
  BY <1>4, NextTickFollows DEF Crash
<1>5. CASE UNCHANGED vars
  BY <1>5 DEF vars, storeVars, accrualVars, taskVars, FollowInv, Exists, InBatch
<1> QED BY <1>1, <1>2, <1>3, <1>4, <1>5
    DEF Next, UploadRuns, UploadBreaks, WithdrawRuns, WithdrawBreaks, Quiet

LEMMA FollowInvIsEnough ==
    ASSUME TypeOK, FollowInv
    PROVE  RowsFollowService
<1> SUFFICES ASSUME NEW o \in Orders, Exists(o), orders[o].status # "NEW"
             PROVE  /\ Rank(orders[o]) <= Rank(service[o])
                    /\ ~IsOpen(o) =>
                           orders[o] = [user |-> orders[o].user,
                                        status |-> service[o].status,
                                        accrual |-> Amount(service[o])]
  BY DEF RowsFollowService, Amount
<1>1. orders[o] \in OrderRow
  BY DEF TypeOK, PointsTypeOK, OrderTypeOK, StoreTypeOK, Exists
<1>2. RowFollows(orders[o], service[o])
  BY DEF FollowInv
<1>3. ~IsOpen(o) => orders[o].status \in Final
  BY <1>1 DEF IsOpen, Final, OrderRow, OrderStatus
<1>4. orders[o] = [user |-> orders[o].user, status |-> orders[o].status,
                   accrual |-> orders[o].accrual]
  BY <1>1 DEF OrderRow
<1> QED BY <1>2, <1>3, <1>4 DEF RowFollows

\* A stored status is never ahead of the accrual service's, and a final row carries
\* the status and the amount the service decided, in hundredths, however old the
\* answers were when they were written.
THEOREM RowsAreTheServices == ASSUME ConformingReplies PROVE Spec => []RowsFollowService
<1>1. TypeOK /\ BatchInv /\ CreditInv /\ FollowInv /\ [Next]_vars => FollowInv'
  BY FollowStep
<1>2. TypeOK /\ FollowInv => RowsFollowService
  BY FollowInvIsEnough
<1> QED BY <1>1, <1>2, BatchAgrees, TaskInvariant, FollowInit, PTL DEF Spec
=============================================================================
