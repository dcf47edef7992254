------------------------------ MODULE RequestProofs ------------------------------
(***************************************************************************)
(* What requests may rely on, for every number of users, orders and         *)
(* requests, beside the task and across faults and crashes: rows are locked *)
(* by running transactions only, an answer stays true, an answer tells      *)
(* whether points were spent, and one request alone never overdraws.        *)
(*                                                                          *)
(* Each part of the invariant is shown for a step of an upload and of a     *)
(* withdrawal first, whatever else the specification has; the task and the  *)
(* crash come on top of that.                                               *)
(***************************************************************************)
EXTENDS CreditProofs

-----------------------------------------------------------------------------
(* The invariant.                                                            *)

(* A stored number passed the check; who goes on to the insert has made the   *)
(* check, and who was refused for it has failed it; a withdrawal that is in  *)
(* its transaction, or was answered from there, is for an order of its user.  *)
OrdersInv ==
    /\ \A o \in Orders : Exists(o) => o \in ValidOrders
    /\ \A r \in Uploads : upload[r].pc = "Create" => upload[r].order \in ValidOrders
    /\ \A r \in Uploads : upload[r].resp = 422 => upload[r].order \notin ValidOrders
    /\ \A w \in Withdraws : withdraw[w].pc = "Create" => withdraw[w].order \in ValidOrders
    /\ \A w \in Withdraws :
           withdraw[w].pc \in InTx \/ withdraw[w].resp \in {200, 402} =>
               OwnOrder(withdraw[w].user, withdraw[w].order)
    /\ AnswersStayTrue
    /\ AcceptedOnce

\* What an answer says of the rows of withdrawals.
RowsTold ==
    \A w \in Withdraws :
        /\ withdraw[w].resp = 200 => RowsOf(w) = {WithdrawalOf(w)}
        /\ withdraw[w].resp \in {402, 422} => RowsOf(w) = {}

(* A row of withdrawals is that of a request that has ended, and only requests *)
(* that have ended have an answer.                                           *)
RowsInv ==
    /\ \A x \in withdrawals :
           \E w \in Withdraws : x = WithdrawalOf(w) /\ withdraw[w].pc = "done"
    /\ \A w \in Withdraws : withdraw[w].resp # NoAnswer => withdraw[w].pc = "done"
    /\ RowsTold

\* A committed withdrawal that took points; no such withdrawal of the user; two.
Paid(w) == Delta(w) > 0 /\ RowsOf(w) # {}

NothingPaid(u) == \A w \in Withdraws : withdraw[w].user = u => ~Paid(w)

PaidTwice(u) ==
    \E w1, w2 \in Withdraws :
        /\ w1 # w2
        /\ Paid(w1) /\ withdraw[w1].user = u
        /\ Paid(w2) /\ withdraw[w2].user = u

\* A request that takes points holds the balance row.
Taking(u) == \E w \in Withdraws : lock[u] = w /\ Delta(w) > 0

(* A request updates the balance only after it has seen enough for its amount, *)
(* and as long as no withdrawal took points from the user the committed        *)
(* balance is at least what it saw.  A committed balance is negative only if  *)
(* two committed withdrawals took points.  What the task, or a withdrawal of  *)
(* a sum that is not positive, has not committed yet only adds to a balance.  *)
SpendInv ==
    /\ \A w \in Withdraws :
           withdraw[w].pc = "IncreaseWithdraw" =>
               /\ Delta(w) <= withdraw[w].seen
               /\ NothingPaid(withdraw[w].user) =>
                      withdraw[w].seen <= balance[withdraw[w].user].current
    /\ \A u \in Users : balance[u].current < 0 => PaidTwice(u)
    /\ \A u \in Users : ~Taking(u) => balance[u].current <= newest[u].current
    /\ OverdraftTakesTwo

\* The rows the task has locked; it has credited nobody before the crediting loop.
TaskLocks ==
    /\ \A u \in Users : lock[u] = Task <=> \E o \in credited : batch[o].user = u
    /\ taskPc # "IncreaseCurrent" => credited = {}
-----------------------------------------------------------------------------
(* What the steps of a withdrawal do, by what they do to the balance rows.    *)

\* What it asks for never changes, and nothing of the other requests does.
LEMMA WithdrawFrame ==
    ASSUME PointsTypeOK, NEW w \in Withdraws, WithdrawStep(w) \/ WithdrawFault(w)
    PROVE  /\ \A v \in Withdraws : /\ withdraw'[v].user = withdraw[v].user
                                   /\ withdraw'[v].order = withdraw[v].order
                                   /\ Delta(v)' = Delta(v)
                                   /\ WithdrawalOf(v)' = WithdrawalOf(v)
                                   /\ v # w => withdraw'[v] = withdraw[v]
<1>1. \A v \in Withdraws : /\ withdraw'[v].user = withdraw[v].user
                           /\ withdraw'[v].order = withdraw[v].order
                           /\ withdraw'[v].sum = withdraw[v].sum
                           /\ v # w => withdraw'[v] = withdraw[v]
  <2> USE DEF PointsTypeOK, WithdrawTypeOK
  <2>1. ASSUME NEW pc, Continue(w, pc) PROVE <1>1!:
    BY <2>1 DEF Continue
  <2>2. ASSUME NEW code, Answer(w, code) PROVE <1>1!:
    BY <2>2 DEF Answer
  <2>3. CASE WBalance(w)
    BY <2>2, <2>3 DEF WBalance
  <2> QED BY <2>1, <2>2, <2>3
      DEF WithdrawStep, WithdrawFault, WLookup, WInsert, WInsertDuplicate, WOrderByUser,
          WIncreaseWithdraw, WCreateWithdrawal, WCommit, WLockTimeout, WFails,
          WInsertUnconfirmed, WCommitUnconfirmed
<1> QED BY <1>1 DEF Delta, WithdrawalOf

\* Outside of its update and of the end of its transaction.
QuietStep(w) ==
    /\ UNCHANGED <<balanceVars, withdrawals>>
    /\ withdraw[w].pc \notin {"done", "IncreaseWithdraw", "Commit"}
    /\ Spending(w)' <=> Spending(w)
    /\ \/ withdraw'[w].resp = withdraw[w].resp
       \/ withdraw'[w].pc = "done" /\ withdraw'[w].resp \in {402, 422, 500}
    /\ withdraw'[w].pc = "IncreaseWithdraw" =>
           /\ withdraw'[w].seen = balance[withdraw[w].user].current
           /\ Delta(w) <= withdraw'[w].seen

UpdateStep(w) ==
    /\ withdraw[w].pc = "IncreaseWithdraw"
    /\ IncreaseWithdraw(w, withdraw[w].user, Delta(w))
    /\ withdraw'[w].pc = "CreateWithdrawal" /\ withdraw'[w].resp = withdraw[w].resp
    /\ UNCHANGED <<orders, withdrawals>>

CommitStep(w) ==
    /\ withdraw[w].pc = "Commit"
    /\ Apply(w)
    /\ withdraw'[w].pc = "done" /\ withdraw'[w].resp \in {200, 500}

RollbackStep(w) ==
    /\ withdraw[w].pc # "done"
    /\ RollbackBalances(w)
    /\ withdraw'[w].pc = "done" /\ withdraw'[w].resp = 500
    /\ UNCHANGED <<orders, withdrawals>>

LEMMA WithdrawKinds ==
    ASSUME PointsTypeOK, NEW w \in Withdraws, WithdrawStep(w) \/ WithdrawFault(w)
    PROVE  QuietStep(w) \/ UpdateStep(w) \/ CommitStep(w) \/ RollbackStep(w)
<1> USE DEF PointsTypeOK, WithdrawTypeOK
<1>1. CASE WIncreaseWithdraw(w)
  BY <1>1 DEF WIncreaseWithdraw, Continue, UpdateStep
<1>2. CASE WCommit(w) \/ WCommitUnconfirmed(w)
  BY <1>2 DEF WCommit, WCommitUnconfirmed, Answer, CommitStep
<1>3. CASE WLockTimeout(w) \/ WFails(w)
  BY <1>3 DEF WLockTimeout, WFails, Answer, RollbackStep
<1>4. CASE WLookup(w) \/ WInsertDuplicate(w) \/ WOrderByUser(w)
  BY <1>4 DEF WLookup, WInsertDuplicate, WOrderByUser, Continue, Answer, storeVars,
      balanceVars, QuietStep, Spending
<1>5. CASE WInsert(w) \/ WInsertUnconfirmed(w)
  BY <1>5 DEF WInsert, WInsertUnconfirmed, Continue, Answer, balanceVars, QuietStep, Spending
<1>6. CASE WCreateWithdrawal(w)
  BY <1>6 DEF WCreateWithdrawal, Continue, storeVars, balanceVars, QuietStep, Spending
<1>7. CASE WBalance(w)
  <2>1. Delta(w) \in Int /\ balance[withdraw[w].user].current \in Int
    BY DeltaType DEF OrderTypeOK, StoreTypeOK, BalanceRow
  <2> QED BY <1>7, <2>1
      DEF WBalance, EnoughPoints, Answer, storeVars, balanceVars, QuietStep, Spending
<1> QED BY <1>1, <1>2, <1>3, <1>4, <1>5, <1>6, <1>7 DEF WithdrawStep, WithdrawFault

-----------------------------------------------------------------------------
(* Locks.                                                                    *)

\* A withdrawal locks its user's row with its update and releases it at the end.
LEMMA WithdrawKeepsLocks ==
    ASSUME PointsTypeOK, NoLeakedLock, NEW w \in Withdraws,
           WithdrawStep(w) \/ WithdrawFault(w)
    PROVE  /\ NoLeakedLock'
           /\ \A u \in Users : lock'[u] = Task <=> lock[u] = Task
<1> DEFINE me == withdraw[w].user
<1>1. /\ me \in Users
      /\ \A v \in Withdraws : /\ withdraw'[v].user = withdraw[v].user
                              /\ v # w => (Spending(v)' <=> Spending(v))
  BY WithdrawFrame DEF PointsTypeOK, WithdrawTypeOK, Spending
<1>2. /\ \A u \in Users, v \in Withdraws :
             lock[u] = v <=> Spending(v) /\ withdraw[v].user = u
      /\ \A u \in Users : lock[u] = Null => newest[u] = balance[u]
  BY DEF NoLeakedLock
<1>3. /\ Task # Null /\ Task \notin Withdraws /\ Null \notin Withdraws
      /\ lock \in [Users -> Withdraws \cup {Task, Null}]
      /\ newest \in [Users -> BalanceRow]
  BY StoreAssumption DEF PointsTypeOK, OrderTypeOK, StoreTypeOK
<1>4. CASE QuietStep(w)
  BY <1>1, <1>2, <1>4 DEF QuietStep, balanceVars, NoLeakedLock
<1>5. CASE UpdateStep(w)
  <2>1. /\ lock[me] \in {Null, w}
        /\ lock' = [lock EXCEPT ![me] = w]
        /\ \A u \in Users : u # me => newest'[u] = newest[u]
        /\ UNCHANGED balance
        /\ Spending(w)'
    BY <1>1, <1>3, <1>5 DEF UpdateStep, IncreaseWithdraw, UpdateBalance, MayLock, Spending
  <2>2. \A u \in Users : lock'[u] = IF u = me THEN w ELSE lock[u]
    BY <1>3, <2>1
  <2>3. ASSUME NEW u \in Users, NEW v \in Withdraws
        PROVE  lock'[u] = v <=> Spending(v)' /\ withdraw'[v].user = u
    BY <1>1, <1>2, <1>3, <2>1, <2>2
  <2> QED BY <1>2, <1>3, <2>1, <2>2, <2>3 DEF NoLeakedLock
<1>6. CASE CommitStep(w)
  <2>1. /\ \A u \in Users : /\ lock'[u] = IF lock[u] = w THEN Null ELSE lock[u]
                            /\ balance'[u] = IF lock[u] = w THEN newest[u] ELSE balance[u]
        /\ UNCHANGED newest
        /\ ~Spending(w)'
    BY <1>6 DEF CommitStep, Apply, CommitBalances, Release, Spending
  <2> QED BY <1>1, <1>2, <1>3, <2>1 DEF NoLeakedLock
<1>7. CASE RollbackStep(w)
  <2>1. /\ \A u \in Users : /\ lock'[u] = IF lock[u] = w THEN Null ELSE lock[u]
                            /\ newest'[u] = IF lock[u] = w THEN balance[u] ELSE newest[u]
        /\ UNCHANGED balance
        /\ ~Spending(w)'
    BY <1>7 DEF RollbackStep, RollbackBalances, Release, Spending
  <2> QED BY <1>1, <1>2, <1>3, <2>1 DEF NoLeakedLock
<1> QED BY <1>4, <1>5, <1>6, <1>7, WithdrawKinds

\* An upload touches neither the balance rows nor the rows of withdrawals.
LEMMA UploadFrame ==
    ASSUME NEW r \in Uploads, UploadStep(r) \/ UploadFault(r)
    PROVE  UNCHANGED <<balance, newest, lock, withdrawals>>
BY DEF UploadStep, UploadFault, UploadLookup, UploadInsert, UploadInsertDuplicate, UploadFails,
       UploadInsertUnconfirmed, storeVars, balanceVars

\* A withdrawal whose row is not touched keeps its part of the locks.
LEMMA LocksUnchanged ==
    ASSUME NoLeakedLock, UNCHANGED <<balance, newest, lock, withdraw>>
    PROVE  NoLeakedLock'
BY DEF NoLeakedLock, Spending

\* What the steps of the task do, by what they do to the balance rows.
TaskQuiet ==
    /\ UNCHANGED <<orders, balance, newest, lock, withdrawals>>
    /\ credited = {}
    /\ credited' = {}

TaskEnds ==
    /\ CommitBalances(Task) \/ RollbackBalances(Task)
    /\ UNCHANGED withdrawals
    /\ NextTick

LEMMA TaskKinds ==
    ASSUME TaskLocks, TaskStep \/ TaskFault
    PROVE  \/ TaskQuiet
           \/ \E o \in Orders : CreditOrder(o)
           \/ TaskEnds /\ (CommitTask \/ TaskFails)
<1>1. CASE OrdersByStatus \/ UpdateAll \/ UpdateAllFails
  BY <1>1 DEF TaskLocks, OrdersByStatus, UpdateAll, UpdateAllFails, storeVars, TaskQuiet
<1>2. ASSUME NEW o \in Orders, GetOrder(o) \/ GetOrderFails(o)
      PROVE  TaskQuiet
  BY <1>2 DEF TaskLocks, GetOrder, GetOrderFails, storeVars, TaskQuiet
<1>3. CASE ReceiveStatus
  BY <1>3 DEF TaskLocks, ReceiveStatus, NextTick, storeVars, TaskQuiet
<1>4. CASE CommitTask \/ TaskFails
  BY <1>4 DEF CommitTask, TaskFails, TaskEnds
<1> QED BY <1>1, <1>2, <1>3, <1>4 DEF TaskStep, TaskFault

\* A credit locks the row of the order's user, and it was free or the task's.
LEMMA CreditEffect ==
    ASSUME TypeOK, NEW o \in Orders, CreditOrder(o)
    PROVE  LET u == batch[o].user
           IN  /\ u \in Users
               /\ batch[o].accrual \in Nat
               /\ lock[u] \in {Null, Task}
               /\ \A v \in Users : lock'[v] = IF v = u THEN Task ELSE lock[v]
               /\ \A v \in Users : v # u => newest'[v] = newest[v]
               /\ newest'[u].current = newest[u].current + batch[o].accrual
               /\ newest'[u].withdrawn = newest[u].withdrawn
               /\ UNCHANGED balance
<1>1. batch[o].user \in Users /\ batch[o].accrual \in Nat
  BY DEF CreditOrder, ToCredit, InBatch, TypeOK, TaskTypeOK, OrderRow
<1>2. /\ lock \in [Users -> Withdraws \cup {Task, Null}]
      /\ newest \in [Users -> BalanceRow]
  BY DEF TypeOK, PointsTypeOK, OrderTypeOK, StoreTypeOK
<1> QED BY <1>1, <1>2
    DEF CreditOrder, IncreaseCurrent, UpdateBalance, MayLock, BalanceRow

\* The end of the task's transaction releases its rows, and only those.
LEMMA TaskEndEffect ==
    ASSUME TypeOK, TaskEnds
    PROVE  /\ \A u \in Users : lock'[u] = IF lock[u] = Task THEN Null ELSE lock[u]
           /\ \A u \in Users : lock[u] = Task => balance'[u] = newest'[u]
           /\ \A u \in Users : lock[u] # Task => /\ balance'[u] = balance[u]
                                                 /\ newest'[u] = newest[u]
           /\ credited' = {}
BY DEF TypeOK, PointsTypeOK, OrderTypeOK, StoreTypeOK, TaskEnds, CommitBalances,
       RollbackBalances, Release, NextTick

LEMMA TaskKeepsLocks ==
    ASSUME TypeOK, NoLeakedLock, TaskLocks, TaskStep \/ TaskFault, UNCHANGED withdraw
    PROVE  NoLeakedLock' /\ TaskLocks'
<1>0. /\ Task # Null /\ Task \notin Withdraws /\ Null \notin Withdraws
      /\ lock \in [Users -> Withdraws \cup {Task, Null}]
  BY StoreAssumption DEF TypeOK, PointsTypeOK, OrderTypeOK, StoreTypeOK
<1>1. CASE TaskQuiet
  <2>1. NoLeakedLock'
    BY <1>1, LocksUnchanged DEF TaskQuiet
  <2> QED BY <1>1, <2>1 DEF TaskQuiet, TaskLocks
<1>2. ASSUME NEW o \in Orders, CreditOrder(o)
      PROVE  NoLeakedLock' /\ TaskLocks'
  <2>1. /\ credited' = credited \cup {o} /\ UNCHANGED <<batch, taskPc>>
        /\ taskPc = "IncreaseCurrent"
    BY <1>2 DEF CreditOrder
  <2>2. TaskLocks'
    BY <1>2, <2>1, CreditEffect DEF TaskLocks
  <2>3. ASSUME NEW u \in Users, NEW w \in Withdraws
        PROVE  lock'[u] = w <=> lock[u] = w
    BY <1>0, <1>2, CreditEffect
  <2>4. ASSUME NEW u \in Users, lock'[u] = Null
        PROVE  newest'[u] = balance'[u]
    BY <1>0, <1>2, <2>4, CreditEffect DEF NoLeakedLock
  <2> QED BY <2>2, <2>3, <2>4 DEF NoLeakedLock, Spending
<1>3. CASE TaskEnds
  <2>1. TaskLocks'
    BY <1>0, <1>3, TaskEndEffect DEF TaskLocks
  <2>2. ASSUME NEW u \in Users, NEW w \in Withdraws
        PROVE  lock'[u] = w <=> lock[u] = w
    BY <1>0, <1>3, TaskEndEffect
  <2>3. ASSUME NEW u \in Users, lock'[u] = Null
        PROVE  newest'[u] = balance'[u]
    BY <1>0, <1>3, <2>3, TaskEndEffect DEF NoLeakedLock
  <2> QED BY <2>1, <2>2, <2>3 DEF NoLeakedLock, Spending
<1> QED BY <1>1, <1>2, <1>3, TaskKinds

\* A crash ends every transaction.
LEMMA CrashKeepsLocks ==
    ASSUME TypeOK, Crash
    PROVE  NoLeakedLock' /\ TaskLocks'
<1>1. /\ Task # Null /\ Null \notin Withdraws
      /\ newest' = balance'
      /\ \A u \in Users : lock'[u] = Null
      /\ credited' = {}
  BY StoreAssumption DEF Crash, RollbackAll, NextTick
<1>2. \A w \in Withdraws : ~Spending(w)'
  BY DEF Crash, Spending, TypeOK, PointsTypeOK, WithdrawTypeOK
<1> QED BY <1>1, <1>2 DEF NoLeakedLock, TaskLocks

LEMMA PointsLocksInit == PointsInit => NoLeakedLock
BY StoreAssumption DEF PointsInit, StoreInit, WithdrawInit, NoLeakedLock, Spending

LEMMA LocksInit == Init => NoLeakedLock /\ TaskLocks
BY StoreAssumption, PointsLocksInit DEF Init, PointsInit, StoreInit, TaskInit, TaskLocks

LEMMA LocksStep ==
    ASSUME TypeOK, NoLeakedLock, TaskLocks, [Next]_vars
    PROVE  NoLeakedLock' /\ TaskLocks'
<1>1. ASSUME NEW r \in Uploads, UploadStep(r) \/ UploadFault(r),
             UNCHANGED <<withdraw, accrualVars>>
      PROVE  NoLeakedLock' /\ TaskLocks'
  BY <1>1, UploadFrame, LocksUnchanged DEF accrualVars, taskVars, TaskLocks
<1>2. ASSUME NEW w \in Withdraws, WithdrawStep(w) \/ WithdrawFault(w),
             UNCHANGED accrualVars
      PROVE  NoLeakedLock' /\ TaskLocks'
  BY <1>2, WithdrawKeepsLocks DEF TypeOK, accrualVars, taskVars, TaskLocks
<1>3. CASE TaskRuns \/ TaskBreaks
  BY <1>3, TaskKeepsLocks DEF TaskRuns, TaskBreaks, requestVars
<1>4. CASE ServiceRuns \/ UNCHANGED vars
  BY <1>4, LocksUnchanged
  DEF ServiceRuns, vars, storeVars, requestVars, accrualVars, taskVars, TaskLocks
<1> QED BY <1>1, <1>2, <1>3, <1>4, CrashKeepsLocks
    DEF Next, UploadRuns, UploadBreaks, WithdrawRuns, WithdrawBreaks, Quiet

\* Requests and the task hold the rows they have updated, and no others.
THEOREM LocksOwned == Spec => [](TypeOK /\ NoLeakedLock /\ TaskLocks)
<1>1. TypeOK /\ NoLeakedLock /\ TaskLocks /\ [Next]_vars
          => (TypeOK /\ NoLeakedLock /\ TaskLocks)'
  BY StepType, LocksStep
<1> QED BY <1>1, InitType, LocksInit, PTL DEF Spec

\* A balance row is locked by the request that spends from it, by the task if it
\* has credited its user, and by nobody else: no fault and no crash leaks a lock,
\* and a row nobody has locked has no uncommitted version.
THEOREM NoLockLeaks == Spec => []LocksAreLive
<1>1. NoLeakedLock /\ TaskLocks => LocksAreLive
  BY DEF TaskLocks, LocksAreLive
<1> QED BY <1>1, LocksOwned, PTL

-----------------------------------------------------------------------------
(* The rows of withdrawals.                                                  *)

\* Steps that add no row; a request that ends so gets no answer.
LEMMA RowsUnchanged ==
    ASSUME RowsInv, UNCHANGED withdrawals,
           \A w \in Withdraws : /\ WithdrawalOf(w)' = WithdrawalOf(w)
                                /\ withdraw'[w].resp = withdraw[w].resp
                                /\ withdraw'[w].pc \in {withdraw[w].pc, "done"}
    PROVE  RowsInv'
BY DEF RowsInv, RowsTold, RowsOf

\* A request that is still running has no row.
LEMMA NoRowYet ==
    ASSUME RowsInv, NEW w \in Withdraws, withdraw[w].pc # "done"
    PROVE  RowsOf(w) = {} /\ withdraw[w].resp = NoAnswer
BY DEF RowsInv, RowsOf, WithdrawalOf

\* What a commit does to the rows of each request.
LEMMA CommitRows ==
    ASSUME RowsInv, NEW w \in Withdraws, CommitStep(w)
    PROVE  /\ RowsOf(w)' = {WithdrawalOf(w)}
           /\ \A v \in Withdraws : v # w => RowsOf(v)' = RowsOf(v)
<1>1. RowsOf(w) = {} /\ withdrawals' = withdrawals \cup {WithdrawalOf(w)}
  BY NoRowYet DEF CommitStep, Apply
<1>2. WithdrawalOf(w).id = w
  BY DEF WithdrawalOf
<1> QED BY <1>1, <1>2 DEF RowsOf

LEMMA WithdrawKeepsRows ==
    ASSUME PointsTypeOK, RowsInv, NEW w \in Withdraws, WithdrawStep(w) \/ WithdrawFault(w)
    PROVE  RowsInv'
<1>1. \A v \in Withdraws : /\ WithdrawalOf(v)' = WithdrawalOf(v)
                           /\ v # w => withdraw'[v] = withdraw[v]
  BY WithdrawFrame
<1>2. CASE UpdateStep(w)
  <2>1. withdraw[w].resp = NoAnswer /\ RowsOf(w) = {}
    BY <1>2, NoRowYet DEF UpdateStep
  <2>2. \A v \in Withdraws : RowsOf(v)' = RowsOf(v)
    BY <1>2 DEF UpdateStep, RowsOf
  <2> QED BY <1>1, <1>2, <2>1, <2>2 DEF UpdateStep, RowsInv, RowsTold, NoAnswer
<1>3. CASE QuietStep(w)
  <2>1. withdraw[w].resp = NoAnswer /\ RowsOf(w) = {}
    BY <1>3, NoRowYet DEF QuietStep
  <2>2. \A v \in Withdraws : RowsOf(v)' = RowsOf(v)
    BY <1>3 DEF QuietStep, RowsOf
  <2> QED BY <1>1, <1>3, <2>1, <2>2 DEF QuietStep, RowsInv, RowsTold, NoAnswer
<1>4. CASE RollbackStep(w)
  <2>1. \A v \in Withdraws : RowsOf(v)' = RowsOf(v)
    BY <1>4 DEF RollbackStep, RowsOf
  <2> QED BY <1>1, <1>4, <2>1 DEF RollbackStep, RowsInv, RowsTold, NoAnswer
<1>5. CASE CommitStep(w)
  <2>1. /\ withdrawals' = withdrawals \cup {WithdrawalOf(w)}
        /\ withdraw'[w].pc = "done" /\ withdraw'[w].resp \in {200, 500}
    BY <1>5 DEF CommitStep, Apply
  <2> QED BY <1>1, <1>5, <2>1, CommitRows DEF RowsInv, RowsTold, NoAnswer
<1> QED BY <1>2, <1>3, <1>4, <1>5, WithdrawKinds

LEMMA RowsInit == PointsInit => RowsInv
BY DEF PointsInit, StoreInit, WithdrawInit, RowsInv, RowsTold, NoAnswer

\* A crash ends every request and changes nothing else of them.
LEMMA CrashFrame ==
    ASSUME TypeOK, Crash
    PROVE  /\ \A r \in Uploads : /\ upload'[r].pc = "done"
                                 /\ upload'[r].user = upload[r].user
                                 /\ upload'[r].order = upload[r].order
                                 /\ upload'[r].resp = upload[r].resp
           /\ \A w \in Withdraws : /\ withdraw'[w].pc = "done"
                                   /\ withdraw'[w].user = withdraw[w].user
                                   /\ withdraw'[w].order = withdraw[w].order
                                   /\ withdraw'[w].resp = withdraw[w].resp
                                   /\ Delta(w)' = Delta(w)
                                   /\ WithdrawalOf(w)' = WithdrawalOf(w)
<1>1. /\ upload' = [r \in Uploads |-> [upload[r] EXCEPT !.pc = "done"]]
      /\ withdraw' = [w \in Withdraws |-> [withdraw[w] EXCEPT !.pc = "done"]]
  BY DEF Crash
<1>2. \A w \in Withdraws : withdraw'[w].user = withdraw[w].user
                           /\ withdraw'[w].order = withdraw[w].order
                           /\ withdraw'[w].sum = withdraw[w].sum
                           /\ withdraw'[w].resp = withdraw[w].resp
                           /\ withdraw'[w].pc = "done"
  BY <1>1 DEF TypeOK, PointsTypeOK, WithdrawTypeOK
<1>3. \A r \in Uploads : /\ upload'[r].pc = "done"
                         /\ upload'[r].user = upload[r].user
                         /\ upload'[r].order = upload[r].order
                         /\ upload'[r].resp = upload[r].resp
  BY <1>1 DEF TypeOK, PointsTypeOK, OrderTypeOK, UploadTypeOK
<1> QED BY <1>2, <1>3 DEF Delta, WithdrawalOf

\* Only the withdraw requests write the table withdrawals.
LEMMA RowsStep ==
    ASSUME TypeOK, RowsInv, [Next]_vars
    PROVE  RowsInv'
<1>1. CASE UNCHANGED <<withdraw, withdrawals>>
  BY <1>1, RowsUnchanged DEF RowsInv, WithdrawalOf, Delta
<1>2. ASSUME NEW r \in Uploads, UploadStep(r) \/ UploadFault(r), UNCHANGED withdraw
      PROVE  RowsInv'
  BY <1>1, <1>2, UploadFrame
<1>3. CASE TaskRuns \/ TaskBreaks \/ ServiceRuns \/ UNCHANGED vars
  BY <1>1, <1>3
  DEF TaskRuns, TaskBreaks, ServiceRuns, vars, storeVars, requestVars, TaskStep, TaskFault,
      OrdersByStatus, GetOrder, GetOrderFails, ReceiveStatus, UpdateAll, UpdateAllFails,
      CreditOrder, CommitTask, TaskFails
<1>4. CASE Crash
  BY <1>4, CrashFrame, RowsUnchanged DEF Crash
<1> QED BY <1>2, <1>3, <1>4, WithdrawKeepsRows
    DEF Next, UploadRuns, UploadBreaks, WithdrawRuns, WithdrawBreaks, Quiet, TypeOK

-----------------------------------------------------------------------------
(* The stored orders.                                                        *)

\* A number that was stored stays stored as its user's; what is stored is valid.
TableGrows ==
    \A o \in Orders : /\ Exists(o) => Exists(o)' /\ orders'[o].user = orders[o].user
                      /\ Exists(o)' => o \in ValidOrders

LEMMA SameTable ==
    ASSUME OrdersInv, UNCHANGED orders
    PROVE  TableGrows
BY DEF OrdersInv, TableGrows, Exists

\* The row that is inserted did not exist, and is the user's from then on.
LEMMA InsertGrows ==
    ASSUME PointsTypeOK, OrdersInv, NEW u \in Users, NEW p \in ValidOrders, InsertOrder(u, p)
    PROVE  /\ TableGrows
           /\ ~Exists(p) /\ orders'[p] # Null /\ orders'[p].user = u
<1>1. /\ NewOrder(u) # Null /\ NewOrder(u).user = u
      /\ p \in Orders
  BY StoreAssumption, NewOrderType DEF NewOrder
<1>2. /\ orders \in [Orders -> OrderRow \cup {Null}]
      /\ ~Exists(p)
      /\ orders' = [orders EXCEPT ![p] = NewOrder(u)]
  BY DEF PointsTypeOK, OrderTypeOK, StoreTypeOK, InsertOrder
<1> QED BY <1>1, <1>2 DEF OrdersInv, TableGrows, Exists

\* Requests that go on as they were, or end without an answer.
UploadsKept ==
    \A r \in Uploads : /\ upload'[r].user = upload[r].user
                       /\ upload'[r].order = upload[r].order
                       /\ upload'[r].resp = upload[r].resp
                       /\ upload'[r].pc \in {upload[r].pc, "done"}

WithdrawsKept ==
    \A w \in Withdraws : /\ withdraw'[w].user = withdraw[w].user
                         /\ withdraw'[w].order = withdraw[w].order
                         /\ withdraw'[w].resp = withdraw[w].resp
                         /\ withdraw'[w].pc \in {withdraw[w].pc, "done"}

LEMMA AnswersKept ==
    ASSUME PointsTypeOK, OrdersInv, TableGrows, UploadsKept
    PROVE  AnswersStayTrue' /\ AcceptedOnce'
<1>1. \A r \in Uploads : upload[r].order \in Orders
  BY DEF PointsTypeOK, OrderTypeOK, UploadTypeOK
<1>2. AnswersStayTrue'
  BY <1>1 DEF OrdersInv, TableGrows, UploadsKept, AnswersStayTrue
<1> QED BY <1>2 DEF OrdersInv, UploadsKept, AcceptedOnce

LEMMA OrdersKept ==
    ASSUME PointsTypeOK, OrdersInv, TableGrows, UploadsKept, WithdrawsKept
    PROVE  OrdersInv'
<1>1. /\ \A w \in Withdraws : withdraw[w].order \in Orders
      /\ "done" \notin InTx
  BY DEF PointsTypeOK, WithdrawTypeOK, InTx
<1>2. \A w \in Withdraws :
          withdraw'[w].pc \in InTx \/ withdraw'[w].resp \in {200, 402} =>
              OwnOrder(withdraw[w].user, withdraw[w].order)'
  BY <1>1 DEF OrdersInv, TableGrows, WithdrawsKept, OwnOrder
<1> QED BY <1>1, <1>2, AnswersKept DEF OrdersInv, TableGrows, UploadsKept, WithdrawsKept

\* An upload: the answer says what the table says, now and later.
LEMMA UploadKeepsOrders ==
    ASSUME PointsTypeOK, OrdersInv, NEW r \in Uploads, UploadStep(r) \/ UploadFault(r),
           UNCHANGED withdraw
    PROVE  OrdersInv'
<1> DEFINE me == upload[r].user
           mine == upload[r].order
<1>1. /\ me \in Users /\ mine \in Orders
      /\ \A s \in Uploads : upload[s].order \in Orders
      /\ \A w \in Withdraws : withdraw[w].order \in Orders
  BY DEF PointsTypeOK, OrderTypeOK, UploadTypeOK, WithdrawTypeOK
<1>2. \A s \in Uploads : /\ upload'[s].user = upload[s].user
                         /\ upload'[s].order = upload[s].order
                         /\ s # r => upload'[s] = upload[s]
  BY DEF PointsTypeOK, OrderTypeOK, UploadTypeOK, UploadStep, UploadFault, UploadLookup,
         UploadInsert, UploadInsertDuplicate, UploadFails, UploadInsertUnconfirmed, UploadAnswer
<1>3. ASSUME UNCHANGED orders,
             \/ upload'[r].pc = "Create" /\ upload'[r].resp = upload[r].resp
                    /\ mine \in ValidOrders
             \/ upload'[r].pc = "done" /\ upload'[r].resp = 500
             \/ upload'[r].pc = "done" /\ upload'[r].resp = 422 /\ mine \notin ValidOrders
             \/ upload'[r].pc = "done" /\ upload'[r].resp = 409
                    /\ Exists(mine) /\ orders[mine].user # me
             \/ upload'[r].pc = "done" /\ upload'[r].resp = 200
                    /\ Exists(mine) /\ orders[mine].user = me
      PROVE  OrdersInv'
  <2>1. AnswersStayTrue'
    BY <1>1, <1>2, <1>3 DEF OrdersInv, AnswersStayTrue, Exists
  <2>2. AcceptedOnce'
    BY <1>1, <1>2, <1>3 DEF OrdersInv, AcceptedOnce
  <2> QED BY <1>1, <1>2, <1>3, <2>1, <2>2 DEF OrdersInv, OwnOrder, Exists
<1>4. CASE UploadLookup(r)
  <2>1. UNCHANGED orders /\ upload \in [Uploads -> [pc: {"Order", "Create", "done"}, user: Users,
                                order: Orders, resp: UploadCodes \cup {NoAnswer}]]
    BY <1>4 DEF UploadLookup, storeVars, PointsTypeOK, OrderTypeOK, UploadTypeOK
  <2>2. CASE LookupOutcome(me, mine) = "insert"
    BY <1>3, <1>4, <2>1, <2>2 DEF UploadLookup, LookupOutcome
  <2>3. CASE LookupOutcome(me, mine) # "insert"
    BY <1>3, <1>4, <2>1, <2>3 DEF UploadLookup, UploadAnswer, LookupOutcome, UploadCode
  <2> QED BY <2>2, <2>3
<1>5. CASE UploadInsertDuplicate(r) \/ UploadFails(r)
  BY <1>3, <1>5 DEF UploadInsertDuplicate, UploadFails, UploadAnswer, storeVars,
                    PointsTypeOK, OrderTypeOK, UploadTypeOK
<1>6. CASE UploadInsert(r) \/ UploadInsertUnconfirmed(r)
  <2>1. /\ upload'[r].pc = "done" /\ upload'[r].resp \in {202, 500}
        /\ mine \in ValidOrders
        /\ InsertOrder(me, mine)
    BY <1>6 DEF UploadInsert, UploadInsertUnconfirmed, UploadAnswer, OrdersInv, PointsTypeOK,
                OrderTypeOK, UploadTypeOK
  <2>2. /\ TableGrows
        /\ ~Exists(mine) /\ orders'[mine] # Null /\ orders'[mine].user = me
    BY <1>1, <2>1, InsertGrows
  <2>3. ASSUME NEW s \in Uploads, upload[s].resp = 202 PROVE upload[s].order # mine
    BY <2>2, <2>3 DEF OrdersInv, AnswersStayTrue
  <2>4. AcceptedOnce'
    BY <1>2, <2>1, <2>3 DEF OrdersInv, AcceptedOnce
  <2>5. AnswersStayTrue'
    BY <1>1, <1>2, <2>1, <2>2 DEF OrdersInv, AnswersStayTrue, TableGrows, Exists
  <2>6. \A w \in Withdraws :
            withdraw'[w].pc \in InTx \/ withdraw'[w].resp \in {200, 402} =>
                OwnOrder(withdraw[w].user, withdraw[w].order)'
    BY <1>1, <2>2 DEF OrdersInv, TableGrows, OwnOrder
  <2> QED BY <1>1, <1>2, <2>1, <2>2, <2>4, <2>5, <2>6 DEF OrdersInv, TableGrows
<1> QED BY <1>4, <1>5, <1>6 DEF UploadStep, UploadFault

\* A withdrawal: it inserts a number it has checked, and enters its transaction
\* only after it has read the order as its user's.
LEMMA WithdrawKeepsOrders ==
    ASSUME PointsTypeOK, OrdersInv, NEW w \in Withdraws, WithdrawStep(w) \/ WithdrawFault(w),
           UNCHANGED upload
    PROVE  OrdersInv'
<1> DEFINE me == withdraw[w].user
           mine == withdraw[w].order
<1>1. /\ me \in Users /\ mine \in Orders
      /\ \A v \in Withdraws : withdraw[v].order \in Orders
  BY DEF PointsTypeOK, WithdrawTypeOK
<1>2. \A v \in Withdraws : /\ withdraw'[v].user = withdraw[v].user
                           /\ withdraw'[v].order = withdraw[v].order
                           /\ v # w => withdraw'[v] = withdraw[v]
  BY WithdrawFrame
<1>3. ASSUME TableGrows,
             withdraw'[w].pc = "Create" => mine \in ValidOrders,
             withdraw'[w].pc \in InTx \/ withdraw'[w].resp \in {200, 402} =>
                 OwnOrder(me, mine)
      PROVE  OrdersInv'
  <2>1. \A v \in Withdraws :
            withdraw'[v].pc \in InTx \/ withdraw'[v].resp \in {200, 402} =>
                OwnOrder(withdraw[v].user, withdraw[v].order)
    BY <1>2, <1>3 DEF OrdersInv
  <2>2. \A v \in Withdraws :
            withdraw'[v].pc \in InTx \/ withdraw'[v].resp \in {200, 402} =>
                OwnOrder(withdraw[v].user, withdraw[v].order)'
    BY <1>1, <1>2, <1>3, <2>1 DEF TableGrows, OwnOrder
  <2> QED BY <1>2, <1>3, <2>2, AnswersKept DEF OrdersInv, TableGrows, UploadsKept
<1>4. ASSUME withdraw[w].pc \in InTx \/ withdraw[w].resp \in {200, 402}
      PROVE  OwnOrder(me, mine)
  BY <1>4 DEF OrdersInv
<1>5. CASE WInsert(w) \/ WInsertUnconfirmed(w)
  <2>1. /\ mine \in ValidOrders
        /\ InsertOrder(me, mine)
        /\ withdraw'[w].pc \in {"OrderByUser", "done"}
        /\ withdraw'[w].resp \in {withdraw[w].resp, 500}
    BY <1>5 DEF WInsert, WInsertUnconfirmed, Continue, Answer, OrdersInv, PointsTypeOK,
                WithdrawTypeOK
  <2> QED BY <1>1, <1>3, <1>4, <2>1, InsertGrows DEF InTx
<1>6. CASE WLookup(w) \/ WInsertDuplicate(w) \/ WOrderByUser(w)
  <2>1. TableGrows
    BY <1>6, SameTable DEF WLookup, WInsertDuplicate, WOrderByUser, storeVars
  <2>2. withdraw'[w].resp \in {withdraw[w].resp, 422, 500}
    BY <1>6 DEF WLookup, WInsertDuplicate, WOrderByUser, Continue, Answer, PointsTypeOK,
                WithdrawTypeOK
  <2> QED BY <1>3, <1>4, <1>6, <2>1, <2>2
      DEF WLookup, WInsertDuplicate, WOrderByUser, LookupOutcome, Continue, Answer, InTx,
          PointsTypeOK, WithdrawTypeOK
<1>7. CASE WBalance(w) \/ WIncreaseWithdraw(w) \/ WCreateWithdrawal(w)
  <2>1. TableGrows
    BY <1>7, SameTable DEF WBalance, WIncreaseWithdraw, WCreateWithdrawal, storeVars
  <2>2. withdraw[w].pc \in InTx /\ withdraw'[w].pc # "Create"
    BY <1>7 DEF WBalance, WIncreaseWithdraw, WCreateWithdrawal, Continue, Answer, InTx,
                PointsTypeOK, WithdrawTypeOK
  <2> QED BY <1>3, <1>4, <2>1, <2>2
<1>8. CASE WCommit(w) \/ WLockTimeout(w) \/ WFails(w) \/ WCommitUnconfirmed(w)
  <2>1. TableGrows
    BY <1>8, SameTable DEF WCommit, WLockTimeout, WFails, WCommitUnconfirmed, Apply
  <2>2. /\ withdraw'[w].pc = "done"
        /\ withdraw'[w].resp = 500 \/ withdraw[w].pc \in InTx
    BY <1>8 DEF WCommit, WLockTimeout, WFails, WCommitUnconfirmed, Answer, InTx, PointsTypeOK,
                WithdrawTypeOK
  <2> QED BY <1>3, <1>4, <2>1, <2>2 DEF InTx
<1> QED BY <1>5, <1>6, <1>7, <1>8 DEF WithdrawStep, WithdrawFault

\* The task's commit keeps the owners: its copies are of the rows' users.
LEMMA CommitGrows ==
    ASSUME BatchInv, OrdersInv, CommitTask
    PROVE  TableGrows
BY DEF CommitTask, Written, BatchInv, InBatch, IsOpen, Exists, OrdersInv, TableGrows

LEMMA OrdersInit == PointsInit => OrdersInv
BY StoreAssumption
DEF PointsInit, StoreInit, UploadInit, WithdrawInit, OrdersInv, AnswersStayTrue, AcceptedOnce,
    Exists, NoAnswer, InTx

LEMMA OrdersStep ==
    ASSUME TypeOK, BatchInv, OrdersInv, [Next]_vars
    PROVE  OrdersInv'
<1>1. PointsTypeOK
  BY DEF TypeOK
<1>2. CASE UNCHANGED <<orders, upload, withdraw>>
  BY <1>1, <1>2, SameTable, OrdersKept DEF UploadsKept, WithdrawsKept
<1>3. CASE TaskRuns \/ TaskBreaks \/ ServiceRuns \/ UNCHANGED vars
  <2>1. UNCHANGED <<upload, withdraw>>
    BY <1>3 DEF TaskRuns, TaskBreaks, ServiceRuns, vars, requestVars
  <2>2. CASE CommitTask
    BY <1>1, <2>1, <2>2, CommitGrows, OrdersKept DEF UploadsKept, WithdrawsKept
  <2>3. CASE ~CommitTask
    BY <1>2, <1>3, <2>1, <2>3
    DEF TaskRuns, TaskBreaks, ServiceRuns, vars, TaskStep, TaskFault, OrdersByStatus, GetOrder,
        GetOrderFails, ReceiveStatus, UpdateAll, UpdateAllFails, CreditOrder, TaskFails,
        storeVars
  <2> QED BY <2>2, <2>3
<1>4. CASE Crash
  <2>1. UploadsKept /\ WithdrawsKept
    BY <1>4, CrashFrame DEF UploadsKept, WithdrawsKept
  <2>2. TableGrows
    BY <1>4, SameTable DEF Crash
  <2> QED BY <1>1, <2>1, <2>2, OrdersKept
<1> QED BY <1>1, <1>3, <1>4, UploadKeepsOrders, WithdrawKeepsOrders
    DEF Next, UploadRuns, UploadBreaks, WithdrawRuns, WithdrawBreaks, Quiet

\* What was stored is valid and stays its user's, and who asked has been told so.
THEOREM OrdersOwned == Spec => [](TypeOK /\ BatchInv /\ OrdersInv)
<1>1. TypeOK /\ BatchInv /\ OrdersInv /\ [Next]_vars => (TypeOK /\ BatchInv /\ OrdersInv)'
  BY StepType, BatchInvStep, OrdersStep
<1> QED BY <1>1, InitType, BatchInvInit, InitPoints, OrdersInit, PTL DEF Spec

\* 200 is answered with exactly one row of withdrawals, that of the request, and 402
\* and 422 with none; and with 402 as with 200 the number is stored for good as an
\* order of the requester: faults, lost commits and crashes included.
THEOREM AnswersMatchRows == Spec => []AnswerMatchesRows
<1>1. TypeOK /\ RowsInv /\ [Next]_vars => (TypeOK /\ RowsInv)'
  BY StepType, RowsStep
<1>2. RowsInv /\ OrdersInv => AnswerMatchesRows
  BY DEF RowsInv, RowsTold, OrdersInv, AnswerMatchesRows
<1> QED BY <1>1, <1>2, OrdersOwned, InitType, InitPoints, RowsInit, PTL DEF Spec

\* An answer to an upload stays true for good: 202 and 200 say that the number is the
\* caller's, 409 that it is somebody else's, 422 that it is not stored.
THEOREM AnswersAreTrue == Spec => []AnswersStayTrue
<1>1. OrdersInv => AnswersStayTrue
  BY DEF OrdersInv
<1> QED BY <1>1, OrdersOwned, PTL

\* However the lookups and inserts of concurrent requests interleave, a number is
\* accepted for one request at most.
THEOREM OneIsAccepted == Spec => []AcceptedOnce
<1>1. OrdersInv => AcceptedOnce
  BY DEF OrdersInv
<1> QED BY <1>1, OrdersOwned, PTL

-----------------------------------------------------------------------------
(* Overdrafts.                                                               *)

\* The same rows of the same users.
SamePayments ==
    \A w \in Withdraws : /\ RowsOf(w)' = RowsOf(w)
                          /\ withdraw'[w].user = withdraw[w].user
                          /\ Delta(w)' = Delta(w)

LEMMA SamePaid ==
    ASSUME SamePayments, NEW u \in Users
    PROVE  /\ NothingPaid(u)' <=> NothingPaid(u)
           /\ PaidTwice(u)' <=> PaidTwice(u)
BY DEF SamePayments, NothingPaid, PaidTwice, Paid

LEMMA PaidTwiceIsSpent ==
    ASSUME NEW u \in Users, PaidTwice(u)
    PROVE  \E w1, w2 \in Withdraws : /\ w1 # w2
                                     /\ Spent(w1) /\ withdraw[w1].user = u
                                     /\ Spent(w2) /\ withdraw[w2].user = u
BY DEF PaidTwice, Paid, Spent

\* What a step may do to the balances without a new withdrawal: the committed one
\* does not fall, the newest one falls only by falling back to the committed one.
LEMMA SpendKept ==
    ASSUME PointsTypeOK, PointsTypeOK', SpendInv, SamePayments,
           \A w \in Withdraws :
               withdraw'[w].pc = "IncreaseWithdraw" =>
                   \/ withdraw'[w] = withdraw[w]
                   \/ /\ withdraw'[w].seen = balance[withdraw[w].user].current
                      /\ Delta(w) <= withdraw'[w].seen,
           \A u \in Users :
               /\ balance[u].current <= balance'[u].current
               /\ \/ newest'[u] = balance'[u]
                  \/ /\ newest[u].current <= newest'[u].current
                     /\ \A w \in Withdraws :
                            Spending(w) /\ withdraw[w].user = u => Spending(w)'
               /\ ~Taking(u)' => balance'[u].current <= newest'[u].current
    PROVE  SpendInv'
<1>1. /\ \A u \in Users : /\ balance[u].current \in Int /\ balance'[u].current \in Int
                          /\ newest[u].current \in Int /\ newest'[u].current \in Int
      /\ \A w \in Withdraws : /\ withdraw[w].user \in Users
                              /\ withdraw[w].seen \in Int /\ withdraw'[w].seen \in Int
                              /\ Delta(w)' = Delta(w)
  BY DEF SamePayments, PointsTypeOK, OrderTypeOK, StoreTypeOK, BalanceRow, WithdrawTypeOK
<1>2. ASSUME NEW w \in Withdraws, withdraw'[w].pc = "IncreaseWithdraw"
      PROVE  /\ Delta(w)' <= withdraw'[w].seen
             /\ NothingPaid(withdraw[w].user)' =>
                    withdraw'[w].seen <= balance'[withdraw[w].user].current
  <2>1. CASE withdraw'[w] = withdraw[w]
    BY <1>1, <1>2, <2>1, SamePaid DEF SpendInv
  <2>2. CASE /\ withdraw'[w].seen = balance[withdraw[w].user].current
             /\ Delta(w) <= withdraw'[w].seen
    BY <1>1, <2>2
  <2> QED BY <1>2, <2>1, <2>2
<1>3. ASSUME NEW u \in Users, balance'[u].current < 0
      PROVE  PaidTwice(u)'
  BY <1>1, <1>3, SamePaid DEF SpendInv
<1>4. ASSUME NEW u \in Users, newest'[u].current < 0
      PROVE  \E w1, w2 \in Withdraws : /\ w1 # w2
                                       /\ Spent(w1)' /\ withdraw'[w1].user = u
                                       /\ Spent(w2)' /\ withdraw'[w2].user = u
  <2>1. CASE newest'[u] = balance'[u]
    BY <1>3, <1>4, <2>1 DEF PaidTwice, Paid, Spent
  <2>2. CASE /\ newest[u].current <= newest'[u].current
             /\ \A w \in Withdraws : Spending(w) /\ withdraw[w].user = u => Spending(w)'
    <3>1. PICK w1, w2 \in Withdraws : /\ w1 # w2
                                      /\ Spent(w1) /\ withdraw[w1].user = u
                                      /\ Spent(w2) /\ withdraw[w2].user = u
      BY <1>1, <1>4, <2>2 DEF SpendInv, OverdraftTakesTwo
    <3> QED BY <2>2, <3>1 DEF Spent, SamePayments
  <2> QED BY <2>1, <2>2
<1>5. OverdraftTakesTwo'
  BY <1>4 DEF OverdraftTakesTwo
<1>6. \A w \in Withdraws :
          withdraw'[w].pc = "IncreaseWithdraw" =>
              /\ Delta(w)' <= withdraw'[w].seen
              /\ NothingPaid(withdraw[w].user)' =>
                     withdraw'[w].seen <= balance'[withdraw'[w].user].current
  BY <1>2 DEF SamePayments
<1> QED BY <1>3, <1>5, <1>6 DEF SpendInv

\* The update: one request alone, with no payment of its user before it, has seen
\* a balance that suffices, and the balance is still at least that.
LEMMA UpdateKeepsSpend ==
    ASSUME PointsTypeOK, PointsTypeOK', NoLeakedLock, RowsInv, SpendInv,
           NEW w \in Withdraws, WithdrawStep(w) \/ WithdrawFault(w), UpdateStep(w)
    PROVE  SpendInv'
<1> DEFINE me == withdraw[w].user
<1>1. /\ me \in Users
      /\ Delta(w) \in Int /\ withdraw[w].seen \in Int
      /\ \A u \in Users : balance[u].current \in Int /\ newest[u].current \in Int
      /\ lock \in [Users -> Withdraws \cup {Task, Null}]
      /\ newest \in [Users -> BalanceRow]
      /\ Task \notin Withdraws
  BY DeltaType, StoreAssumption
  DEF PointsTypeOK, OrderTypeOK, StoreTypeOK, BalanceRow, WithdrawTypeOK
<1>2. \A v \in Withdraws : /\ withdraw'[v].user = withdraw[v].user
                           /\ Delta(v)' = Delta(v)
                           /\ v # w => withdraw'[v] = withdraw[v]
  BY WithdrawFrame
<1>3. /\ withdraw[w].pc = "IncreaseWithdraw"
      /\ withdraw'[w].pc = "CreateWithdrawal"
      /\ MayLock(w, me)
      /\ lock' = [lock EXCEPT ![me] = w]
      /\ newest' = [newest EXCEPT ![me] = [current |-> newest[me].current - Delta(w),
                                           withdrawn |-> newest[me].withdrawn + Delta(w)]]
      /\ UNCHANGED <<balance, withdrawals>>
  BY DEF UpdateStep, IncreaseWithdraw, UpdateBalance
<1>4. newest[me] = balance[me]
  <2>1. lock[me] # w
    BY <1>1, <1>3 DEF NoLeakedLock, Spending
  <2> QED BY <1>1, <1>3, <2>1 DEF NoLeakedLock, MayLock
<1>5. SamePayments
  BY <1>2, <1>3 DEF SamePayments, RowsOf
<1>6. \A v \in Withdraws : Spent(v) => Spent(v)'
  BY <1>2, <1>3, <1>5 DEF Spent, Spending, SamePayments
<1>7. (Delta(w) > 0 => Spent(w)') /\ RowsOf(w) = {}
  BY <1>2, <1>3, NoRowYet DEF Spent, Spending
<1>8. ASSUME NEW u \in Users, newest'[u].current < 0
      PROVE  \E w1, w2 \in Withdraws : /\ w1 # w2
                                       /\ Spent(w1)' /\ withdraw'[w1].user = u
                                       /\ Spent(w2)' /\ withdraw'[w2].user = u
  <2>1. CASE u = me
    <3>1. newest'[u].current = balance[u].current - Delta(w)
      BY <1>1, <1>3, <1>4, <2>1
    <3>2. CASE Delta(w) > 0
      <4>1. ~NothingPaid(me)
        BY <1>1, <1>3, <1>8, <2>1, <3>1 DEF SpendInv
      <4>2. PICK v \in Withdraws : withdraw[v].user = me /\ Paid(v)
        BY <4>1 DEF NothingPaid
      <4>3. v # w /\ Spent(v)'
        BY <1>6, <1>7, <4>2 DEF Spent, Paid
      <4> QED BY <1>2, <1>7, <2>1, <3>2, <4>2, <4>3
    <3>3. CASE ~(Delta(w) > 0)
      <4>1. PaidTwice(me)
        BY <1>1, <1>8, <2>1, <3>1, <3>3 DEF SpendInv
      <4>2. PICK w1, w2 \in Withdraws : /\ w1 # w2
                                        /\ Spent(w1) /\ withdraw[w1].user = me
                                        /\ Spent(w2) /\ withdraw[w2].user = me
        BY <1>1, <4>1, PaidTwiceIsSpent
      <4> QED BY <1>2, <1>6, <2>1, <4>2
    <3> QED BY <3>2, <3>3
  <2>2. CASE u # me
    <3>1. newest[u].current < 0
      BY <1>1, <1>3, <1>8, <2>2
    <3>2. PICK w1, w2 \in Withdraws : /\ w1 # w2
                                      /\ Spent(w1) /\ withdraw[w1].user = u
                                      /\ Spent(w2) /\ withdraw[w2].user = u
      BY <3>1 DEF SpendInv, OverdraftTakesTwo
    <3> QED BY <1>2, <1>6, <3>2
  <2> QED BY <2>1, <2>2
<1>9. OverdraftTakesTwo'
  BY <1>8 DEF OverdraftTakesTwo
<1>10. ASSUME NEW u \in Users, ~Taking(u)'
       PROVE  balance'[u].current <= newest'[u].current
  <2>1. CASE u = me
    <3>1. lock'[u] = w /\ newest'[u].current = balance[u].current - Delta(w)
      BY <1>1, <1>3, <1>4, <2>1
    <3>2. ~(Delta(w) > 0)
      BY <1>2, <1>10, <3>1 DEF Taking
    <3> QED BY <1>1, <1>3, <3>1, <3>2
  <2>2. CASE u # me
    <3>1. lock'[u] = lock[u] /\ newest'[u] = newest[u]
      BY <1>1, <1>3, <2>2
    <3> QED BY <1>2, <1>3, <1>10, <3>1 DEF SpendInv, Taking
  <2> QED BY <2>1, <2>2
<1>11. \A u \in Users : balance'[u].current < 0 => PaidTwice(u)'
  BY <1>3, <1>5, SamePaid DEF SpendInv
<1>12. \A v \in Withdraws :
          withdraw'[v].pc = "IncreaseWithdraw" =>
              /\ Delta(v)' <= withdraw'[v].seen
              /\ NothingPaid(withdraw[v].user)' =>
                     withdraw'[v].seen <= balance'[withdraw'[v].user].current
  <2> SUFFICES ASSUME NEW v \in Withdraws, withdraw'[v].pc = "IncreaseWithdraw"
               PROVE  /\ Delta(v)' <= withdraw'[v].seen
                      /\ NothingPaid(withdraw[v].user)' =>
                             withdraw'[v].seen <= balance'[withdraw'[v].user].current
    OBVIOUS
  <2>1. withdraw'[v] = withdraw[v] /\ withdraw[v].user \in Users
    BY <1>2, <1>3 DEF PointsTypeOK, WithdrawTypeOK
  <2>2. NothingPaid(withdraw[v].user)' => NothingPaid(withdraw[v].user)
    BY <1>5, <2>1 DEF NothingPaid, Paid, SamePayments
  <2> QED BY <1>2, <1>3, <2>1, <2>2 DEF SpendInv
<1> QED BY <1>9, <1>10, <1>11, <1>12 DEF SpendInv

\* The commit: the new balance is negative only if another payment was committed
\* before, since the row was locked by this request alone.
LEMMA CommitKeepsSpend ==
    ASSUME PointsTypeOK, PointsTypeOK', NoLeakedLock, RowsInv, SpendInv,
           NEW w \in Withdraws, WithdrawStep(w) \/ WithdrawFault(w), CommitStep(w)
    PROVE  SpendInv'
<1> DEFINE me == withdraw[w].user
<1>1. /\ me \in Users
      /\ Task \notin Withdraws /\ Null \notin Withdraws /\ Task # Null
  BY StoreAssumption DEF PointsTypeOK, WithdrawTypeOK
<1>2. \A v \in Withdraws : /\ withdraw'[v].user = withdraw[v].user
                           /\ Delta(v)' = Delta(v)
                           /\ v # w => withdraw'[v] = withdraw[v]
  BY WithdrawFrame
<1>3. /\ Spending(w) /\ withdraw'[w].pc = "done"
      /\ \A u \in Users : lock[u] = w <=> u = me
      /\ \A u \in Users : /\ lock'[u] = IF u = me THEN Null ELSE lock[u]
                          /\ balance'[u] = IF u = me THEN newest[u] ELSE balance[u]
      /\ UNCHANGED newest
  BY <1>1 DEF CommitStep, Apply, CommitBalances, Release, NoLeakedLock, Spending
<1>4. /\ RowsOf(w)' # {}
      /\ \A v \in Withdraws : v # w => RowsOf(v)' = RowsOf(v)
  BY CommitRows
<1>5. \A v \in Withdraws : Spent(v) => Spent(v)'
  BY <1>2, <1>4 DEF Spent, Spending
<1>6. OverdraftTakesTwo'
  BY <1>2, <1>3, <1>5 DEF SpendInv, OverdraftTakesTwo
<1>7. ASSUME NEW u \in Users, balance'[u].current < 0
      PROVE  PaidTwice(u)'
  <2>1. CASE u = me
    <3>1. PICK w1, w2 \in Withdraws : /\ w1 # w2
                                      /\ Spent(w1) /\ withdraw[w1].user = me
                                      /\ Spent(w2) /\ withdraw[w2].user = me
      BY <1>3, <1>7, <2>1 DEF SpendInv, OverdraftTakesTwo
    <3>2. ASSUME NEW v \in Withdraws, Spent(v), withdraw[v].user = me
          PROVE  Paid(v)'
      BY <1>1, <1>2, <1>3, <1>4, <3>2 DEF Spent, Paid, NoLeakedLock
    <3> QED BY <1>2, <2>1, <3>1, <3>2 DEF PaidTwice
  <2>2. CASE u # me
    <3>1. PICK w1, w2 \in Withdraws : /\ w1 # w2
                                      /\ Paid(w1) /\ withdraw[w1].user = u
                                      /\ Paid(w2) /\ withdraw[w2].user = u
      BY <1>3, <1>7, <2>2 DEF SpendInv, PaidTwice
    <3>2. \A v \in Withdraws : Paid(v) => Paid(v)'
      BY <1>2, <1>4 DEF Paid
    <3> QED BY <1>2, <3>1, <3>2 DEF PaidTwice
  <2> QED BY <2>1, <2>2
<1>8. ASSUME NEW u \in Users, ~Taking(u)'
      PROVE  balance'[u].current <= newest'[u].current
  <2>0. newest[u].current \in Int
    BY DEF PointsTypeOK, OrderTypeOK, StoreTypeOK, BalanceRow
  <2>1. CASE u = me
    BY <1>3, <2>0, <2>1
  <2>2. CASE u # me
    BY <1>2, <1>3, <1>8, <2>2 DEF SpendInv, Taking
  <2> QED BY <2>1, <2>2
<1>9. \A v \in Withdraws :
          withdraw'[v].pc = "IncreaseWithdraw" =>
              /\ Delta(v)' <= withdraw'[v].seen
              /\ NothingPaid(withdraw[v].user)' =>
                     withdraw'[v].seen <= balance'[withdraw'[v].user].current
  <2> SUFFICES ASSUME NEW v \in Withdraws, withdraw'[v].pc = "IncreaseWithdraw"
               PROVE  /\ Delta(v)' <= withdraw'[v].seen
                      /\ NothingPaid(withdraw[v].user)' =>
                             withdraw'[v].seen <= balance'[withdraw'[v].user].current
    OBVIOUS
  <2>1. v # w /\ withdraw'[v] = withdraw[v] /\ withdraw[v].user \in Users
    BY <1>2, <1>3 DEF PointsTypeOK, WithdrawTypeOK
  <2>2. ASSUME NothingPaid(withdraw[v].user)'
        PROVE  /\ NothingPaid(withdraw[v].user)
               /\ withdraw[v].user = me => ~Taking(me)
    <3>1. \A x \in Withdraws : Paid(x) => Paid(x)'
      BY <1>2, <1>4 DEF Paid
    <3>2. Delta(w) > 0 => Paid(w)'
      BY <1>2, <1>4 DEF Paid
    <3>3. Taking(me) => Delta(w) > 0
      BY <1>1, <1>3 DEF Taking
    <3> QED BY <1>2, <2>1, <2>2, <3>1, <3>2, <3>3 DEF NothingPaid
  <2>3. NothingPaid(withdraw[v].user)' =>
            balance[withdraw[v].user].current <= balance'[withdraw[v].user].current
    <3>1. \A u \in Users : balance[u].current \in Int
      BY DEF PointsTypeOK, OrderTypeOK, StoreTypeOK, BalanceRow
    <3> QED BY <1>1, <1>3, <2>1, <2>2, <3>1 DEF SpendInv
  <2>4. /\ balance[withdraw[v].user].current \in Int
        /\ balance'[withdraw[v].user].current \in Int
        /\ withdraw[v].seen \in Int
    BY <2>1 DEF PointsTypeOK, OrderTypeOK, StoreTypeOK, BalanceRow, WithdrawTypeOK
  <2> QED BY <1>2, <2>1, <2>2, <2>3, <2>4 DEF SpendInv
<1> QED BY <1>6, <1>7, <1>8, <1>9 DEF SpendInv

LEMMA WithdrawKeepsSpend ==
    ASSUME PointsTypeOK, NoLeakedLock, RowsInv, SpendInv, NEW w \in Withdraws,
           WithdrawStep(w) \/ WithdrawFault(w), UNCHANGED upload
    PROVE  SpendInv'
<1>0. PointsTypeOK'
  BY WithdrawType
<1>1. \A v \in Withdraws : /\ withdraw'[v].user = withdraw[v].user
                           /\ Delta(v)' = Delta(v)
                           /\ v # w => withdraw'[v] = withdraw[v]
  BY WithdrawFrame
<1>2. /\ \A u \in Users : balance[u].current \in Int /\ newest[u].current \in Int
      /\ Task \notin Withdraws /\ Task # Null
  BY StoreAssumption DEF PointsTypeOK, OrderTypeOK, StoreTypeOK, BalanceRow
<1>3. CASE QuietStep(w)
  <2>1. SamePayments
    BY <1>1, <1>3 DEF SamePayments, RowsOf, QuietStep
  <2>2. \A u \in Users :
            /\ balance[u].current <= balance'[u].current
            /\ newest[u].current <= newest'[u].current
            /\ \A v \in Withdraws :
                   Spending(v) /\ withdraw[v].user = u => Spending(v)'
            /\ ~Taking(u)' => balance'[u].current <= newest'[u].current
    BY <1>1, <1>2, <1>3 DEF QuietStep, balanceVars, SpendInv, Spending, Taking
  <2> QED BY <1>0, <1>1, <1>3, <2>1, <2>2, SpendKept DEF QuietStep
<1>4. CASE RollbackStep(w)
  <2>1. SamePayments
    BY <1>1, <1>4 DEF SamePayments, RowsOf, RollbackStep
  <2>2. /\ \A u \in Users : /\ lock'[u] = IF lock[u] = w THEN Null ELSE lock[u]
                            /\ newest'[u] = IF lock[u] = w THEN balance[u] ELSE newest[u]
        /\ UNCHANGED balance
        /\ withdraw'[w].pc = "done"
    BY <1>4 DEF RollbackStep, RollbackBalances, Release
  <2>3. ASSUME NEW u \in Users, lock[u] # w, NEW v \in Withdraws,
               Spending(v), withdraw[v].user = u
        PROVE  Spending(v)'
    BY <1>1, <2>3 DEF NoLeakedLock, Spending
  <2>4. \A u \in Users :
            /\ balance[u].current <= balance'[u].current
            /\ \/ newest'[u] = balance'[u]
               \/ /\ newest[u].current <= newest'[u].current
                  /\ \A v \in Withdraws :
                         Spending(v) /\ withdraw[v].user = u => Spending(v)'
            /\ ~Taking(u)' => balance'[u].current <= newest'[u].current
    BY <1>1, <1>2, <2>2, <2>3 DEF SpendInv, Taking
  <2> QED BY <1>0, <1>1, <2>1, <2>2, <2>4, SpendKept
<1> QED BY <1>0, <1>3, <1>4, UpdateKeepsSpend, CommitKeepsSpend, WithdrawKinds

\* The task only adds to balances.
LEMMA TaskKeepsSpend ==
    ASSUME TypeOK, TypeOK', NoLeakedLock, TaskLocks, SpendInv, TaskStep \/ TaskFault,
           UNCHANGED withdraw
    PROVE  SpendInv'
<1>1. SamePayments
  BY DEF SamePayments, RowsOf, Delta, TaskStep, TaskFault, OrdersByStatus, GetOrder,
         GetOrderFails, ReceiveStatus, UpdateAll, UpdateAllFails, CreditOrder, CommitTask,
         TaskFails, storeVars
<1>2. /\ \A u \in Users : balance[u].current \in Int /\ newest[u].current \in Int
      /\ \A w \in Withdraws : Delta(w)' = Delta(w) /\ withdraw'[w] = withdraw[w]
      /\ \A w \in Withdraws : Spending(w) => Spending(w)'
      /\ lock \in [Users -> Withdraws \cup {Task, Null}]
      /\ Task \notin Withdraws /\ Task # Null
  BY StoreAssumption
  DEF TypeOK, PointsTypeOK, OrderTypeOK, StoreTypeOK, BalanceRow, Delta, Spending
<1>3. \A u \in Users :
          /\ balance[u].current <= balance'[u].current
          /\ newest'[u] = balance'[u] \/ newest[u].current <= newest'[u].current
          /\ ~Taking(u)' => balance'[u].current <= newest'[u].current
  <2>1. CASE TaskQuiet
    BY <1>2, <2>1 DEF TaskQuiet, SpendInv, Taking
  <2>2. ASSUME NEW o \in Orders, CreditOrder(o), NEW u \in Users
        PROVE  /\ balance[u].current <= balance'[u].current
               /\ newest[u].current <= newest'[u].current
               /\ ~Taking(u)' => balance'[u].current <= newest'[u].current
    <3>1. balance[u].current <= balance'[u].current
      BY <1>2, <2>2, CreditEffect
    <3>2. CASE u # batch[o].user
      BY <1>2, <2>2, <3>2, CreditEffect DEF SpendInv, Taking
    <3>3. CASE u = batch[o].user
      <4>1. balance[u].current <= newest[u].current
        <5>1. ~Taking(u)
          BY <1>2, <2>2, <3>3, CreditEffect, StoreAssumption DEF Taking
        <5> QED BY <5>1 DEF SpendInv
      <4>2. /\ batch[o].accrual \in Nat
            /\ newest'[u].current = newest[u].current + batch[o].accrual
            /\ UNCHANGED balance
        BY <2>2, <3>3, CreditEffect
      <4> QED BY <1>2, <4>1, <4>2
    <3> QED BY <3>1, <3>2, <3>3
  <2>3. CASE TaskEnds
    <3>1. \A u \in Users : /\ balance'[u] \in {balance[u], newest[u]}
                           /\ lock[u] # Task => /\ balance'[u] = balance[u]
                                                /\ newest'[u] = newest[u]
                           /\ lock[u] = Task => newest'[u] = balance'[u]
                           /\ lock[u] # Task => lock'[u] = lock[u]
      BY <1>2, <2>3, TaskEndEffect
      DEF TaskEnds, CommitBalances, RollbackBalances
    <3>2. \A u \in Users : lock[u] = Task => balance[u].current <= newest[u].current
      BY <1>2 DEF SpendInv, Taking
    <3>3. \A u \in Users : lock[u] # Task => (Taking(u)' <=> Taking(u))
      BY <1>2, <3>1 DEF Taking
    <3> QED BY <1>2, <3>1, <3>2, <3>3 DEF SpendInv
  <2> QED BY <2>1, <2>2, <2>3, TaskKinds
<1> QED BY <1>1, <1>2, <1>3, SpendKept DEF TypeOK

LEMMA SpendInit == PointsInit => SpendInv
<1> SUFFICES ASSUME PointsInit PROVE SpendInv
  OBVIOUS
<1>1. \A u \in Users : balance[u].current \in Nat /\ newest[u] = balance[u]
  BY StoreAssumption DEF PointsInit, StoreInit
<1>2. \A w \in Withdraws : withdraw[w].pc = "Order"
  BY DEF PointsInit, WithdrawInit
<1> QED BY <1>1, <1>2 DEF SpendInv, OverdraftTakesTwo

LEMMA SpendUnchanged ==
    ASSUME PointsTypeOK, PointsTypeOK', SpendInv,
           UNCHANGED <<balance, newest, lock, withdrawals, withdraw>>
    PROVE  SpendInv'
<1>1. SamePayments /\ \A w \in Withdraws : Delta(w)' = Delta(w) /\ withdraw'[w] = withdraw[w]
  BY DEF SamePayments, RowsOf, Delta
<1>2. \A u \in Users : balance[u].current \in Int /\ newest[u].current \in Int
  BY DEF PointsTypeOK, OrderTypeOK, StoreTypeOK, BalanceRow
<1>3. \A u \in Users :
          /\ balance[u].current <= balance'[u].current
          /\ newest[u].current <= newest'[u].current
          /\ \A w \in Withdraws : Spending(w) /\ withdraw[w].user = u => Spending(w)'
          /\ ~Taking(u)' => balance'[u].current <= newest'[u].current
  BY <1>1, <1>2 DEF SpendInv, Spending, Taking
<1> QED BY <1>1, <1>3, SpendKept

\* What requests have in common about points.
RequestInv ==
    /\ TypeOK
    /\ NoLeakedLock
    /\ TaskLocks
    /\ RowsInv
    /\ SpendInv

LEMMA SpendStep ==
    ASSUME RequestInv, [Next]_vars
    PROVE  SpendInv'
<1>0. /\ TypeOK /\ TypeOK' /\ PointsTypeOK /\ PointsTypeOK'
      /\ NoLeakedLock /\ TaskLocks /\ RowsInv /\ SpendInv
  BY StepType DEF RequestInv, TypeOK
<1>1. ASSUME NEW r \in Uploads, UploadStep(r) \/ UploadFault(r), UNCHANGED withdraw
      PROVE  SpendInv'
  BY <1>0, <1>1, UploadFrame, SpendUnchanged
<1>2. ASSUME NEW w \in Withdraws, WithdrawStep(w) \/ WithdrawFault(w), UNCHANGED upload
      PROVE  SpendInv'
  BY <1>0, <1>2, WithdrawKeepsSpend DEF TypeOK
<1>3. CASE TaskRuns \/ TaskBreaks
  BY <1>0, <1>3, TaskKeepsSpend DEF TaskRuns, TaskBreaks, requestVars
<1>4. CASE ServiceRuns \/ UNCHANGED vars
  BY <1>0, <1>4, SpendUnchanged DEF ServiceRuns, vars, storeVars, requestVars
<1>5. CASE Crash
  <2>1. SamePayments
    BY <1>0, <1>5, CrashFrame DEF SamePayments, RowsOf, Crash
  <2>2. UNCHANGED balance /\ newest' = balance'
    BY <1>5 DEF Crash, RollbackAll
  <2>3. \A u \in Users : balance[u].current \in Int
    BY <1>0 DEF TypeOK, PointsTypeOK, OrderTypeOK, StoreTypeOK, BalanceRow
  <2>4. \A w \in Withdraws : Delta(w)' = Delta(w) /\ withdraw'[w].pc = "done"
    BY <1>0, <1>5, CrashFrame
  <2> QED BY <1>0, <2>1, <2>2, <2>3, <2>4, SpendKept DEF TypeOK
<1> QED BY <1>1, <1>2, <1>3, <1>4, <1>5
    DEF Next, UploadRuns, UploadBreaks, WithdrawRuns, WithdrawBreaks, Quiet

\* Locks, rows and balances fit together in every reachable state.
THEOREM RequestInvariant == Spec => []RequestInv
<1>1. Init => RequestInv
  BY InitType, InitPoints, LocksInit, RowsInit, SpendInit DEF RequestInv
<1>2. RequestInv /\ [Next]_vars => RequestInv'
  BY StepType, LocksStep, RowsStep, SpendStep DEF RequestInv
<1> QED BY <1>1, <1>2, PTL DEF Spec

\* A balance, even an uncommitted one, is negative only if two requests of its user
\* have taken points from it: one withdrawal alone never overdraws, whatever commits
\* or fails between its check and its update, and whatever the sign of the sums.
THEOREM OneNeverOverdraws == Spec => []OverdraftTakesTwo
<1>1. RequestInv => OverdraftTakesTwo
  BY DEF RequestInv, SpendInv
<1> QED BY <1>1, RequestInvariant, PTL
=============================================================================
