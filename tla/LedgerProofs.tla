------------------------------- MODULE LedgerProofs -------------------------------
(***************************************************************************)
(* The books, for every number of users, orders and requests, faults and    *)
(* crashes included.  The service implements the ledger: its initial states *)
(* are those of the ledger, and every step is a claim, a grant, a payment,  *)
(* or nothing to the ledger.  Then the sums of the books: what users have   *)
(* spent is what the rows of withdrawals add up to, and no point is lost or *)
(* made up.                                                                 *)
(***************************************************************************)
EXTENDS RequestProofs, NumberProofs

\* What a step may rely on.
LedgerInv == TypeOK /\ BatchInv /\ OrdersInv /\ RowsInv

\* What leaves the tables alone leaves the ledger alone.
LEMMA LedgerVars ==
    ASSUME UNCHANGED <<orders, withdrawals>>
    PROVE  UNCHANGED L!ledgerVars
BY DEF L!ledgerVars, OwnerOf, CreditOf, Exists

LEMMA InitIsLedgerInit == Init => L!LedgerInit
BY DEF Init, PointsInit, StoreInit, L!LedgerInit, OwnerOf, CreditOf, Exists

\* An insert is a claim.
LEMMA InsertIsClaim ==
    ASSUME TypeOK, BatchInv, UNCHANGED withdrawals,
           NEW u \in Users, NEW p \in Orders, InsertOrder(u, p)
    PROVE  L!Claim(u, p)
<1>1. /\ orders[p] = Null /\ orders'[p] = NewOrder(u) /\ NewOrder(u) # Null
      /\ \A o \in Orders : o # p => orders'[o] = orders[o]
  BY InsertEffect
<1>2. NewOrder(u).user = u /\ NewOrder(u).status = "NEW"
  BY DEF NewOrder
<1>3. \A o \in Orders : OwnerOf(o)' = IF o = p THEN u ELSE OwnerOf(o)
  BY <1>1, <1>2 DEF OwnerOf, Exists
<1>4. \A o \in Orders : CreditOf(o)' = CreditOf(o)
  BY <1>1, <1>2 DEF CreditOf, Exists
<1>5. OwnerOf(p) = Null
  BY <1>1 DEF OwnerOf, Exists
<1> QED BY <1>3, <1>4, <1>5 DEF L!Claim

\* The commit of the task is a grant: what it writes was open, so it had no credit,
\* and has a user.
LEMMA CommitIsGrant ==
    ASSUME TypeOK, TypeOK', BatchInv, CommitTask
    PROVE  L!Grant
<1>1. UNCHANGED withdrawals /\ orders' = Written
  BY DEF CommitTask
<1>2. ASSUME NEW o \in Orders
      PROVE  /\ OwnerOf(o)' = OwnerOf(o)
             /\ CreditOf(o)' \in Nat \cup {Null}
             /\ CreditOf(o)' # CreditOf(o) => CreditOf(o) = Null /\ OwnerOf(o) # Null
  <2>1. CreditOf(o)' \in Nat \cup {Null}
    BY DEF TypeOK, PointsTypeOK, OrderTypeOK, StoreTypeOK, OrderRow, CreditOf, Exists
  <2>2. CASE InBatch(o)
    <3>1. /\ IsOpen(o) /\ orders'[o] = batch[o] /\ batch[o] # Null
          /\ batch[o].user = orders[o].user /\ orders[o].user \in Users
      BY <1>1, <2>2 DEF Written, BatchInv, InBatch, IsOpen, Exists, TypeOK, PointsTypeOK,
                        OrderTypeOK, StoreTypeOK, OrderRow
    <3> QED BY <2>1, <3>1, StoreAssumption DEF OwnerOf, CreditOf, IsOpen, Exists
  <2>3. CASE ~InBatch(o)
    <3>1. orders'[o] = orders[o]
      BY <1>1, <2>3 DEF Written
    <3> QED BY <2>1, <3>1 DEF OwnerOf, CreditOf, Exists
  <2> QED BY <2>2, <2>3
<1> QED BY <1>1, <1>2 DEF L!Grant

\* The commit of a withdrawal is a payment: the request has no row yet, and the
\* order is its user's.
LEMMA CommitIsPay ==
    ASSUME LedgerInv, NEW w \in Withdraws, CommitStep(w)
    PROVE  L!Pay(WithdrawalOf(w)) /\ WithdrawalOf(w) \in withdrawals'
<1> DEFINE p == WithdrawalOf(w)
<1>1. UNCHANGED orders /\ withdrawals' = withdrawals \cup {p}
  BY DEF CommitStep, Apply
<1>2. p \in WithdrawalRow
  BY DeltaType DEF LedgerInv, TypeOK, PointsTypeOK, WithdrawTypeOK, WithdrawalOf, WithdrawalRow
<1>3. \A q \in withdrawals : q.id # p.id
  BY NoRowYet DEF LedgerInv, CommitStep, RowsOf, WithdrawalOf
<1>4. OwnerOf(p.order) = p.user /\ p.order \in Orders
  BY <1>2 DEF LedgerInv, OrdersInv, CommitStep, InTx, OwnOrder, OwnerOf, WithdrawalOf, WithdrawalRow
<1>5. \A o \in Orders : OwnerOf(o)' = OwnerOf(o) /\ CreditOf(o)' = CreditOf(o)
  BY <1>1 DEF OwnerOf, CreditOf, Exists
<1>6. p \in L!Payment
  BY <1>2 DEF L!Payment, WithdrawalRow
<1> QED BY <1>1, <1>3, <1>4, <1>5, <1>6 DEF L!Pay

\* Every step of the service is one of the ledger, or none.
LEMMA StepIsLedgerStep ==
    ASSUME LedgerInv, [Next]_vars
    PROVE  [L!LedgerNext]_(L!ledgerVars)
<1>0. TypeOK /\ TypeOK' /\ PointsTypeOK /\ BatchInv
  BY StepType DEF LedgerInv, TypeOK
<1>1. CASE UNCHANGED withdrawals /\ ~CommitTask
  <2>1. ASSUME NEW u \in Users, NEW p \in Orders, InsertOrder(u, p)
        PROVE  L!LedgerNext
    BY <1>0, <1>1, <2>1, InsertIsClaim DEF L!LedgerNext
  <2> QED BY <1>0, <1>1, <2>1, TableSteps, LedgerVars
<1>2. CASE CommitTask
  BY <1>0, <1>2, CommitIsGrant DEF L!LedgerNext
<1>3. ASSUME NEW w \in Withdraws, WithdrawStep(w) \/ WithdrawFault(w)
      PROVE  UNCHANGED withdrawals \/ L!LedgerNext
  <2>1. CASE CommitStep(w)
    BY <2>1, CommitIsPay DEF L!LedgerNext
  <2> QED BY <1>0, <1>3, <2>1, WithdrawKinds DEF QuietStep, UpdateStep, RollbackStep
<1>4. UNCHANGED withdrawals \/ L!LedgerNext
  BY <1>3, UploadFrame
  DEF Next, UploadRuns, UploadBreaks, WithdrawRuns, WithdrawBreaks, TaskRuns, TaskBreaks,
      TaskStep, TaskFault, ServiceRuns, Crash, Quiet, OrdersByStatus, GetOrder, GetOrderFails,
      ReceiveStatus, UpdateAll, UpdateAllFails, CreditOrder, CommitTask, TaskFails, vars,
      storeVars
<1> QED BY <1>1, <1>2, <1>4

\* The service keeps its promises: a number belongs to one user for good, an order
\* earns its points once and they never change, a payment is made at most once, by
\* the owner of its order, and is never lost.
THEOREM ServiceImplementsLedger == Spec => ImplementsLedger
<1>1. LedgerInv /\ [Next]_vars => LedgerInv'
  BY StepType, BatchInvStep, OrdersStep, RowsStep DEF LedgerInv
<1>2. Init => LedgerInv
  BY InitType, BatchInvInit, InitPoints, OrdersInit, RowsInit DEF LedgerInv
<1> QED BY <1>1, <1>2, InitIsLedgerInit, StepIsLedgerStep, PTL
        DEF Spec, ImplementsLedger, L!LedgerSpec

-----------------------------------------------------------------------------
(* What users have spent.                                                    *)

RowsOfUser(u) == {x \in withdrawals : x.user = u}

Amounts(u) == [x \in RowsOfUser(u) |-> x.sum]

(* The columns of a balance row match the committed rows of withdrawals, and a *)
(* version a request wrote differs from the committed one by its amount.     *)
SpentInv ==
    /\ IsFiniteSet(withdrawals)
    /\ WithdrawnMatchesRows
    /\ \A u \in Users, w \in Withdraws :
           lock[u] = w => /\ newest[u].current = balance[u].current - Delta(w)
                          /\ newest[u].withdrawn = balance[u].withdrawn + Delta(w)
    /\ \A u \in Users : lock[u] = Task => newest[u].withdrawn = balance[u].withdrawn

\* A new row adds its amount to what its user has spent.
LEMMA SpentAdd ==
    ASSUME PointsTypeOK, IsFiniteSet(withdrawals), NEW p \in WithdrawalRow, p \notin withdrawals,
           withdrawals' = withdrawals \cup {p}, NEW u \in Users
    PROVE  SpentBy(u)' = IF p.user = u THEN SpentBy(u) + p.sum ELSE SpentBy(u)
<1>1. /\ SpentBy(u) = SumFunction(Amounts(u))
      /\ SpentBy(u)' = SumFunction(Amounts(u)')
  BY DEF SpentBy, SumOf, Amounts, RowsOfUser
<1>2. /\ IsFiniteSet(RowsOfUser(u))
      /\ Amounts(u) \in [RowsOfUser(u) -> Int]
      /\ p.sum \in Int /\ p \notin RowsOfUser(u)
  <2>1. IsFiniteSet(RowsOfUser(u))
    BY FS_Subset DEF RowsOfUser
  <2> QED BY <2>1 DEF Amounts, RowsOfUser, PointsTypeOK, OrderTypeOK, StoreTypeOK, WithdrawalRow
<1>3. CASE p.user = u
  <2>1. RowsOfUser(u)' = RowsOfUser(u) \cup {p}
    BY <1>3 DEF RowsOfUser
  <2>2. /\ Amounts(u)' \in [RowsOfUser(u) \cup {p} -> Int]
        /\ \A x \in RowsOfUser(u) : Amounts(u)'[x] = Amounts(u)[x]
        /\ Amounts(u)'[p] = p.sum
    BY <1>2, <2>1 DEF Amounts
  <2> QED BY <1>1, <1>2, <1>3, <2>2, SumAdd
<1>4. CASE p.user # u
  <2>1. RowsOfUser(u)' = RowsOfUser(u)
    BY <1>4 DEF RowsOfUser
  <2> QED BY <1>1, <1>4, <2>1 DEF Amounts
<1> QED BY <1>3, <1>4

\* Steps that add no row and leave the committed sums alone.
LEMMA SpentKept ==
    ASSUME SpentInv, UNCHANGED withdrawals,
           \A u \in Users :
               /\ balance'[u].withdrawn = balance[u].withdrawn
               /\ \A w \in Withdraws :
                      lock'[u] = w => /\ newest'[u].current = balance'[u].current - Delta(w)'
                                      /\ newest'[u].withdrawn = balance'[u].withdrawn + Delta(w)'
               /\ lock'[u] = Task => newest'[u].withdrawn = balance'[u].withdrawn
    PROVE  SpentInv'
<1>1. \A u \in Users : SpentBy(u)' = SpentBy(u)
  BY DEF SpentBy
<1> QED BY <1>1 DEF SpentInv, WithdrawnMatchesRows

LEMMA WithdrawKeepsSpent ==
    ASSUME PointsTypeOK, NoLeakedLock, RowsInv, SpentInv, NEW w \in Withdraws,
           WithdrawStep(w) \/ WithdrawFault(w)
    PROVE  SpentInv'
<1> DEFINE me == withdraw[w].user
<1>1. /\ me \in Users
      /\ Task \notin Withdraws /\ Null \notin Withdraws /\ Task # Null
      /\ lock \in [Users -> Withdraws \cup {Task, Null}]
      /\ newest \in [Users -> BalanceRow]
      /\ Delta(w) \in Int
      /\ \A u \in Users : /\ balance[u].current \in Int /\ balance[u].withdrawn \in Int
                          /\ newest[u].current \in Int /\ newest[u].withdrawn \in Int
  BY StoreAssumption, DeltaType
  DEF PointsTypeOK, OrderTypeOK, StoreTypeOK, BalanceRow, WithdrawTypeOK
<1>2. \A v \in Withdraws : Delta(v)' = Delta(v)
  BY WithdrawFrame
<1>3. CASE QuietStep(w)
  BY <1>2, <1>3, SpentKept DEF QuietStep, balanceVars, SpentInv
<1>4. CASE UpdateStep(w)
  <2>1. /\ MayLock(w, me)
        /\ lock' = [lock EXCEPT ![me] = w]
        /\ newest' = [newest EXCEPT ![me] = [current |-> newest[me].current - Delta(w),
                                             withdrawn |-> newest[me].withdrawn + Delta(w)]]
        /\ UNCHANGED <<balance, withdrawals>>
    BY <1>4 DEF UpdateStep, IncreaseWithdraw, UpdateBalance
  <2>2. newest[me] = balance[me]
    <3>1. lock[me] # w
      BY <1>1, <1>4 DEF NoLeakedLock, UpdateStep, Spending
    <3> QED BY <1>1, <2>1, <3>1 DEF NoLeakedLock, MayLock
  <2>3. \A u \in Users :
            /\ lock'[u] = IF u = me THEN w ELSE lock[u]
            /\ u # me => newest'[u] = newest[u]
    BY <1>1, <2>1
  <2>4. /\ newest'[me].current = balance[me].current - Delta(w)
        /\ newest'[me].withdrawn = balance[me].withdrawn + Delta(w)
    BY <1>1, <2>1, <2>2
  <2>5. ASSUME NEW u \in Users
        PROVE  /\ balance'[u].withdrawn = balance[u].withdrawn
               /\ \A v \in Withdraws :
                      lock'[u] = v => /\ newest'[u].current = balance'[u].current - Delta(v)'
                                      /\ newest'[u].withdrawn = balance'[u].withdrawn + Delta(v)'
               /\ lock'[u] = Task => newest'[u].withdrawn = balance'[u].withdrawn
    <3>1. CASE u = me
      BY <1>1, <1>2, <2>1, <2>3, <2>4, <3>1
    <3>2. CASE u # me
      BY <1>2, <2>1, <2>3, <3>2 DEF SpentInv
    <3> QED BY <3>1, <3>2
  <2> QED BY <2>1, <2>5, SpentKept, Zenon
<1>5. CASE RollbackStep(w)
  <2>1. /\ \A u \in Users : /\ lock'[u] = IF lock[u] = w THEN Null ELSE lock[u]
                            /\ newest'[u] = IF lock[u] = w THEN balance[u] ELSE newest[u]
        /\ UNCHANGED <<balance, withdrawals>>
    BY <1>5 DEF RollbackStep, RollbackBalances, Release
  <2> QED BY <1>1, <1>2, <2>1, SpentKept DEF SpentInv
<1>6. CASE CommitStep(w)
  <2> DEFINE p == WithdrawalOf(w)
  <2>1. /\ withdrawals' = withdrawals \cup {p}
        /\ \A u \in Users : lock[u] = w <=> u = me
        /\ \A u \in Users : /\ lock'[u] = IF u = me THEN Null ELSE lock[u]
                            /\ balance'[u] = IF u = me THEN newest[u] ELSE balance[u]
        /\ UNCHANGED newest
    BY <1>1, <1>6 DEF CommitStep, Apply, CommitBalances, Release, NoLeakedLock, Spending
  <2>2. /\ p \in WithdrawalRow /\ p.user = me /\ p.sum = Delta(w)
    BY <1>1 DEF PointsTypeOK, WithdrawTypeOK, WithdrawalOf, WithdrawalRow
  <2>3. p \notin withdrawals
    <3>1. RowsOf(w) = {}
      BY <1>6, NoRowYet DEF CommitStep
    <3> QED BY <3>1 DEF RowsOf, WithdrawalOf
  <2>4. \A u \in Users : SpentBy(u)' = IF p.user = u THEN SpentBy(u) + p.sum ELSE SpentBy(u)
    BY <2>1, <2>2, <2>3, SpentAdd DEF SpentInv
  <2>5. IsFiniteSet(withdrawals')
    BY <2>1, FS_AddElement DEF SpentInv
  <2>6. WithdrawnMatchesRows'
    <3>1. ASSUME NEW u \in Users PROVE balance'[u].withdrawn = SpentBy(u)'
      BY <1>1, <2>1, <2>2, <2>4 DEF SpentInv, WithdrawnMatchesRows
    <3> QED BY <3>1 DEF WithdrawnMatchesRows
  <2> QED BY <1>1, <1>2, <2>1, <2>5, <2>6 DEF SpentInv
<1> QED BY <1>3, <1>4, <1>5, <1>6, WithdrawKinds

LEMMA TaskKeepsSpent ==
    ASSUME TypeOK, NoLeakedLock, TaskLocks, SpentInv, TaskStep \/ TaskFault,
           UNCHANGED withdraw
    PROVE  SpentInv'
<1>1. /\ lock \in [Users -> Withdraws \cup {Task, Null}]
      /\ Task \notin Withdraws /\ Null \notin Withdraws /\ Task # Null
      /\ \A w \in Withdraws : Delta(w)' = Delta(w)
  BY StoreAssumption DEF TypeOK, PointsTypeOK, OrderTypeOK, StoreTypeOK, Delta
<1>2. CASE TaskQuiet
  BY <1>1, <1>2, SpentKept DEF TaskQuiet, SpentInv
<1>3. ASSUME NEW o \in Orders, CreditOrder(o)
      PROVE  SpentInv'
  <2>1. UNCHANGED withdrawals
    BY <1>3 DEF CreditOrder
  <2>2. ASSUME NEW u \in Users, lock'[u] = Task
        PROVE  newest'[u].withdrawn = balance'[u].withdrawn
    <3>1. newest[u].withdrawn = balance[u].withdrawn
      BY <1>3, <2>2, CreditEffect DEF SpentInv, NoLeakedLock
    <3> QED BY <1>3, <3>1, CreditEffect
  <2>3. ASSUME NEW u \in Users, NEW w \in Withdraws, lock'[u] = w
        PROVE  lock[u] = w /\ newest'[u] = newest[u]
    BY <1>1, <1>3, <2>3, CreditEffect
  <2>4. UNCHANGED balance
    BY <1>3, CreditEffect
  <2> QED BY <1>1, <2>1, <2>2, <2>3, <2>4, SpentKept DEF SpentInv
<1>4. CASE TaskEnds
  <2>1. /\ UNCHANGED withdrawals
        /\ \A u \in Users : lock'[u] = IF lock[u] = Task THEN Null ELSE lock[u]
        /\ \A u \in Users : lock[u] # Task => /\ balance'[u] = balance[u]
                                              /\ newest'[u] = newest[u]
    BY <1>4, TaskEndEffect DEF TaskEnds
  <2>2. ASSUME NEW u \in Users, lock[u] = Task
        PROVE  balance'[u].withdrawn = balance[u].withdrawn
    <3>1. balance'[u] \in {balance[u], newest[u]}
      BY <1>4, <2>2 DEF TaskEnds, CommitBalances, RollbackBalances
    <3> QED BY <2>2, <3>1 DEF SpentInv
  <2>3. \A u \in Users : balance'[u].withdrawn = balance[u].withdrawn
    BY <2>1, <2>2
  <2> QED BY <1>1, <2>1, <2>3, SpentKept DEF SpentInv
<1> QED BY <1>2, <1>3, <1>4, TaskKinds

LEMMA SpentInit == PointsInit => SpentInv
<1> SUFFICES ASSUME PointsInit PROVE SpentInv
  OBVIOUS
<1>1. /\ withdrawals = {}
      /\ \A u \in Users : balance[u].withdrawn = 0 /\ lock[u] = Null
      /\ Null \notin Withdraws /\ Task # Null
  BY StoreAssumption DEF PointsInit, StoreInit
<1>2. ASSUME NEW u \in Users PROVE SpentBy(u) = 0
  <2>1. DOMAIN Amounts(u) = {}
    BY <1>1 DEF Amounts, RowsOfUser
  <2> QED BY <2>1, SumEmpty DEF SpentBy, SumOf, Amounts, RowsOfUser
<1>3. IsFiniteSet(withdrawals)
  BY <1>1, FS_EmptySet
<1> QED BY <1>1, <1>2, <1>3 DEF SpentInv, WithdrawnMatchesRows

LEMMA SpentStep ==
    ASSUME RequestInv, SpentInv, [Next]_vars
    PROVE  SpentInv'
<1>0. TypeOK /\ NoLeakedLock /\ TaskLocks /\ RowsInv
  BY DEF RequestInv
<1>1. ASSUME UNCHANGED <<balance, newest, lock, withdrawals, withdraw>>
      PROVE  SpentInv'
  <2>1. \A w \in Withdraws : Delta(w)' = Delta(w)
    BY <1>1 DEF Delta
  <2>2. UNCHANGED withdrawals /\ balance' = balance /\ newest' = newest /\ lock' = lock
    BY <1>1
  <2> QED BY <2>1, <2>2, SpentKept DEF SpentInv
<1>2. ASSUME NEW r \in Uploads, UploadStep(r) \/ UploadFault(r), UNCHANGED withdraw
      PROVE  SpentInv'
  BY <1>1, <1>2, UploadFrame
<1>3. ASSUME NEW w \in Withdraws, WithdrawStep(w) \/ WithdrawFault(w)
      PROVE  SpentInv'
  BY <1>0, <1>3, WithdrawKeepsSpent DEF TypeOK
<1>4. CASE TaskRuns \/ TaskBreaks
  BY <1>0, <1>4, TaskKeepsSpent DEF TaskRuns, TaskBreaks, requestVars
<1>5. CASE ServiceRuns \/ UNCHANGED vars
  BY <1>1, <1>5 DEF ServiceRuns, vars, storeVars, requestVars
<1>6. CASE Crash
  <2>1. /\ UNCHANGED <<withdrawals, balance>>
        /\ \A u \in Users : lock'[u] = Null
        /\ Null \notin Withdraws /\ Task # Null
    BY <1>6, StoreAssumption DEF Crash, RollbackAll
  <2> QED BY <2>1, SpentKept
<1> QED BY <1>1, <1>2, <1>3, <1>4, <1>5, <1>6
    DEF Next, UploadRuns, UploadBreaks, WithdrawRuns, WithdrawBreaks, Quiet

LEMMA SpentInvariant == Spec => [](RequestInv /\ SpentInv)
<1>1. Init => SpentInv
  BY InitPoints, SpentInit
<1>2. RequestInv /\ SpentInv /\ [Next]_vars => SpentInv'
  BY SpentStep
<1> QED BY <1>1, <1>2, RequestInvariant, PTL DEF Spec

\* What the balance says a user has spent is what the rows of withdrawals add up to,
\* in every committed state: no withdrawal is booked twice, and none is forgotten.
THEOREM SpentIsBooked == Spec => []WithdrawnMatchesRows
<1>1. SpentInv => WithdrawnMatchesRows
  BY DEF SpentInv
<1> QED BY <1>1, SpentInvariant, PTL

-----------------------------------------------------------------------------
(* What users have earned.                                                   *)

EarnedPoints(u) == [o \in Earned(u) |-> orders[o].accrual]

\* The orders of the user the open transaction of the task has credited.
CreditedOf(u) == {o \in credited : batch[o].user = u}

\* What the user will have earned when it commits.
Pending(u) ==
    [o \in Earned(u) \cup CreditedOf(u) |->
        IF o \in CreditedOf(u) THEN batch[o].accrual ELSE orders[o].accrual]

Stored == {o \in Orders : Exists(o)}

(* The committed points are those earned, and the uncommitted points of the    *)
(* task are those earned once it commits.                                    *)
EarnedInv ==
    /\ IsFiniteSet(Stored)
    /\ PointsConserved
    /\ \A u \in Users :
           lock[u] = Task => newest[u].current + newest[u].withdrawn
                                 = Opening[u] + SumFunction(Pending(u))

LEMMA PendingFinite ==
    ASSUME TypeOK, BatchInv, CreditInv, IsFiniteSet(Stored), NEW u \in Users
    PROVE  /\ IsFiniteSet(Earned(u)) /\ IsFiniteSet(Earned(u) \cup CreditedOf(u))
           /\ EarnedPoints(u) \in [Earned(u) -> Int]
           /\ Pending(u) \in [Earned(u) \cup CreditedOf(u) -> Int]
<1>1. Earned(u) \subseteq Stored /\ Earned(u) \cup CreditedOf(u) \subseteq Stored
  BY DEF Earned, CreditedOf, Stored, CreditInv, ToCredit, BatchInv, IsOpen
<1>2. \A o \in Earned(u) : orders[o].accrual \in Int
  BY DEF Earned, Exists, TypeOK, PointsTypeOK, OrderTypeOK, StoreTypeOK, OrderRow
<1>3. \A o \in CreditedOf(u) : batch[o].accrual \in Int
  BY DEF CreditedOf, CreditInv, ToCredit, InBatch, TypeOK, TaskTypeOK, OrderRow
<1>4. EarnedPoints(u) \in [Earned(u) -> Int]
  BY <1>2 DEF EarnedPoints
<1>5. Pending(u) \in [Earned(u) \cup CreditedOf(u) -> Int]
  BY <1>2, <1>3 DEF Pending
<1> QED BY <1>1, <1>4, <1>5, FS_Subset

LEMMA PendingType ==
    ASSUME TypeOK, BatchInv, CreditInv, IsFiniteSet(Stored), NEW u \in Users
    PROVE  SumFunction(Pending(u)) \in Int
<1> DEFINE S == Earned(u) \cup CreditedOf(u)
           f == Pending(u)
<1>1. IsFiniteSet(S) /\ f \in [S -> Int]
  BY PendingFinite
<1> HIDE DEF S, f
<1>2. SumFunction(f) \in Int
  BY <1>1, SumType
<1> QED BY <1>2 DEF f

\* Without an open credit nothing is pending.
LEMMA NothingPending ==
    ASSUME NEW u, CreditedOf(u) = {}
    PROVE  SumFunction(Pending(u)) = PointsEarnedBy(u)
<1>1. Pending(u) = EarnedPoints(u)
  BY DEF Pending, EarnedPoints
<1> QED BY <1>1 DEF PointsEarnedBy, EarnedPoints

LEMMA CreditedHaveLocks ==
    ASSUME TaskLocks, NEW u \in Users, lock[u] # Task
    PROVE  CreditedOf(u) = {}
BY DEF TaskLocks, CreditedOf

\* Steps that earn nothing and leave the task's versions alone.
LEMMA EarnedKept ==
    ASSUME EarnedInv, IsFiniteSet(Stored'),
           \A u \in Users :
               /\ Earned(u)' = Earned(u)
               /\ \A o \in Earned(u) : orders'[o].accrual = orders[o].accrual
               /\ balance'[u].current + balance'[u].withdrawn
                      = balance[u].current + balance[u].withdrawn
               /\ lock'[u] = Task => /\ lock[u] = Task
                                     /\ newest'[u] = newest[u]
                                     /\ UNCHANGED <<credited, batch>>
    PROVE  EarnedInv'
<1>1. ASSUME NEW u \in Users
      PROVE  /\ PointsEarnedBy(u)' = PointsEarnedBy(u)
             /\ UNCHANGED <<credited, batch>> => Pending(u)' = Pending(u)
  <2>1. EarnedPoints(u)' = EarnedPoints(u)
    BY DEF EarnedPoints
  <2>2. ASSUME UNCHANGED <<credited, batch>>
        PROVE  Pending(u)' = Pending(u)
    <3>1. CreditedOf(u)' = CreditedOf(u)
      BY <2>2 DEF CreditedOf
    <3> QED BY <2>2, <3>1 DEF Pending
  <2> QED BY <2>1, <2>2 DEF PointsEarnedBy, EarnedPoints
<1>2. PointsConserved'
  BY <1>1 DEF EarnedInv, PointsConserved
<1>3. ASSUME NEW u \in Users, lock'[u] = Task
      PROVE  newest'[u].current + newest'[u].withdrawn
                 = Opening[u] + SumFunction(Pending(u)')
  <2>1. Pending(u)' = Pending(u) /\ newest'[u] = newest[u] /\ lock[u] = Task
    BY <1>1, <1>3
  <2> QED BY <2>1 DEF EarnedInv
<1> QED BY <1>2, <1>3 DEF EarnedInv

\* An insert earns nothing.
EarnsNothing ==
    /\ IsFiniteSet(Stored')
    /\ \A u \in Users : /\ Earned(u)' = Earned(u)
                        /\ \A o \in Earned(u) : orders'[o].accrual = orders[o].accrual

LEMMA SameRowsEarnNothing ==
    ASSUME EarnedInv, UNCHANGED orders
    PROVE  EarnsNothing
BY DEF EarnedInv, EarnsNothing, Stored, Earned, Exists

LEMMA InsertEarnsNothing ==
    ASSUME TypeOK, BatchInv, EarnedInv, NEW v \in Users, NEW p \in Orders, InsertOrder(v, p)
    PROVE  EarnsNothing
<1>1. /\ orders[p] = Null /\ orders'[p] # Null /\ orders'[p].accrual = Null
      /\ \A o \in Orders : o # p => orders'[o] = orders[o]
  BY InsertEffect
<1>2. Stored' = Stored \cup {p}
  BY <1>1 DEF Stored, Exists
<1>3. IsFiniteSet(Stored')
  BY <1>2, FS_AddElement DEF EarnedInv
<1>4. \A u \in Users : Earned(u)' = Earned(u) /\ p \notin Earned(u)
  BY <1>1 DEF Earned, Exists
<1> QED BY <1>1, <1>3, <1>4 DEF EarnsNothing, Earned

\* A withdrawal moves points from one column to the other.
LEMMA WithdrawMovesPoints ==
    ASSUME PointsTypeOK, NoLeakedLock, SpentInv, NEW w \in Withdraws,
           WithdrawStep(w) \/ WithdrawFault(w)
    PROVE  \A u \in Users :
               /\ balance'[u].current + balance'[u].withdrawn
                      = balance[u].current + balance[u].withdrawn
               /\ lock'[u] = Task => lock[u] = Task /\ newest'[u] = newest[u]
<1>1. /\ Task \notin Withdraws /\ Null \notin Withdraws /\ Task # Null
      /\ lock \in [Users -> Withdraws \cup {Task, Null}]
      /\ newest \in [Users -> BalanceRow]
      /\ withdraw[w].user \in Users
      /\ Delta(w) \in Int
      /\ \A u \in Users : balance[u].current \in Int /\ balance[u].withdrawn \in Int
  BY StoreAssumption, DeltaType
  DEF PointsTypeOK, OrderTypeOK, StoreTypeOK, BalanceRow, WithdrawTypeOK
<1>2. CASE QuietStep(w)
  BY <1>2 DEF QuietStep, balanceVars
<1>3. CASE UpdateStep(w)
  BY <1>1, <1>3 DEF UpdateStep, IncreaseWithdraw, UpdateBalance
<1>4. CASE RollbackStep(w)
  BY <1>1, <1>4 DEF RollbackStep, RollbackBalances, Release
<1>5. CASE CommitStep(w)
  <2>1. \A u \in Users : /\ lock'[u] = IF lock[u] = w THEN Null ELSE lock[u]
                         /\ balance'[u] = IF lock[u] = w THEN newest[u] ELSE balance[u]
                         /\ newest'[u] = newest[u]
    BY <1>5 DEF CommitStep, Apply, CommitBalances, Release
  <2>2. ASSUME NEW u \in Users, lock[u] = w
        PROVE  newest[u].current + newest[u].withdrawn
                   = balance[u].current + balance[u].withdrawn
    BY <1>1, <2>2 DEF SpentInv
  <2> QED BY <1>1, <2>1, <2>2
<1> QED BY <1>1, <1>2, <1>3, <1>4, <1>5, WithdrawKinds

\* A credit is pending from then on.
LEMMA CreditKeepsEarned ==
    ASSUME TypeOK, NoLeakedLock, TaskLocks, BatchInv, CreditInv, EarnedInv,
           NEW o \in Orders, CreditOrder(o)
    PROVE  EarnedInv'
<1> DEFINE me == batch[o].user
<1>1. /\ UNCHANGED <<orders, balance, batch>>
      /\ credited' = credited \cup {o}
      /\ o \in ToCredit /\ o \notin credited
      /\ Task # Null
  BY StoreAssumption, CreditEffect DEF CreditOrder
<1>2. \A u \in Users : Earned(u)' = Earned(u) /\ PointsEarnedBy(u)' = PointsEarnedBy(u)
  BY <1>1 DEF Earned, Exists, PointsEarnedBy
<1>3. IsFiniteSet(Stored')
  BY <1>1 DEF EarnedInv, Stored, Exists
<1>4. ASSUME NEW u \in Users, lock'[u] = Task, u # me
      PROVE  newest'[u].current + newest'[u].withdrawn
                 = Opening[u] + SumFunction(Pending(u)')
  <2>1. lock[u] = Task /\ newest'[u] = newest[u]
    BY <1>4, CreditEffect
  <2>2. Pending(u)' = Pending(u)
    <3>1. CreditedOf(u)' = CreditedOf(u)
      BY <1>1, <1>4 DEF CreditedOf
    <3> QED BY <1>1, <1>2, <3>1 DEF Pending
  <2> QED BY <2>1, <2>2 DEF EarnedInv
<1>5. newest'[me].current + newest'[me].withdrawn
          = Opening[me] + SumFunction(Pending(me)')
  <2>1. /\ me \in Users /\ batch[o].accrual \in Nat /\ lock[me] \in {Null, Task}
        /\ newest'[me].current = newest[me].current + batch[o].accrual
        /\ newest'[me].withdrawn = newest[me].withdrawn
    BY CreditEffect
  <2>2. newest[me].current + newest[me].withdrawn = Opening[me] + SumFunction(Pending(me))
    <3>1. CASE lock[me] = Task
      BY <2>1, <3>1 DEF EarnedInv
    <3>2. CASE lock[me] = Null
      <4>1. newest[me] = balance[me]
        BY <2>1, <3>2 DEF NoLeakedLock
      <4>2. SumFunction(Pending(me)) = PointsEarnedBy(me)
        BY <1>1, <2>1, <3>2, CreditedHaveLocks, NothingPending
      <4> QED BY <2>1, <4>1, <4>2 DEF EarnedInv, PointsConserved
    <3> QED BY <2>1, <3>1, <3>2
  <2>3. SumFunction(Pending(me)') = SumFunction(Pending(me)) + batch[o].accrual
    <3> DEFINE S == Earned(me) \cup CreditedOf(me)
               f == Pending(me)
               h == Pending(me)'
    <3>1. IsFiniteSet(S) /\ f \in [S -> Int]
      BY <2>1, PendingFinite DEF EarnedInv
    <3>2. o \notin S
      BY <1>1 DEF Earned, CreditedOf, ToCredit, BatchInv, IsOpen
    <3>3. CreditedOf(me)' = CreditedOf(me) \cup {o}
      BY <1>1 DEF CreditedOf
    <3>4. h = [x \in S \cup {o} |-> IF x \in CreditedOf(me) \cup {o} THEN batch[x].accrual
                                                               ELSE orders[x].accrual]
      BY <1>1, <1>2, <2>1, <3>3 DEF Pending
    <3>5. \A x \in S : h[x] = f[x]
      BY <3>2, <3>4 DEF Pending
    <3>6. h[o] = batch[o].accrual
      BY <3>4
    <3>7. h \in [S \cup {o} -> Int]
      <4>1. \A x \in S \cup {o} : h[x] \in Int
        BY <2>1, <3>1, <3>5, <3>6
      <4>2. h = [x \in S \cup {o} |-> h[x]]
        BY <3>4
      <4> HIDE DEF h, S
      <4> QED BY <4>1, <4>2
    <3> HIDE DEF f, h, S
    <3>8. SumFunction(h) = SumFunction(f) + h[o]
      BY <3>1, <3>2, <3>5, <3>7, SumAdd
    <3> QED BY <3>6, <3>8 DEF f, h
  <2>4. /\ newest[me].current \in Int /\ newest[me].withdrawn \in Int
        /\ Opening[me] \in Int /\ SumFunction(Pending(me)) \in Int
    <3>1. newest[me].current \in Int /\ newest[me].withdrawn \in Int /\ Opening[me] \in Int
      BY <2>1, StoreAssumption DEF TypeOK, PointsTypeOK, OrderTypeOK, StoreTypeOK, BalanceRow
    <3>2. IsFiniteSet(Stored) /\ me \in Users
      BY <2>1 DEF EarnedInv
    <3>3. SumFunction(Pending(me)) \in Int
      <4> HIDE DEF me
      <4> QED BY <3>2, PendingType
    <3> QED BY <3>1, <3>3
  <2> HIDE DEF me
  <2> QED BY <2>1, <2>2, <2>3, <2>4
<1>6. PointsConserved'
  BY <1>1, <1>2 DEF EarnedInv, PointsConserved
<1>7. ASSUME NEW u \in Users, lock'[u] = Task
      PROVE  newest'[u].current + newest'[u].withdrawn
                 = Opening[u] + SumFunction(Pending(u)')
  <2>1. CASE u = me
    <3>1. me' = u
      BY <1>1, <2>1
    <3> HIDE DEF me
    <3> QED BY <1>5, <2>1, <3>1
  <2> QED BY <1>4, <1>7, <2>1
<1> QED BY <1>3, <1>6, <1>7 DEF EarnedInv

\* The commit makes the pending points the earned ones.
LEMMA CommitKeepsEarned ==
    ASSUME TypeOK, TaskLocks, BatchInv, CreditInv, EarnedInv, CommitTask
    PROVE  EarnedInv'
<1>1. /\ orders' = [o \in Orders |-> IF InBatch(o) THEN batch[o] ELSE orders[o]]
      /\ credited = ToCredit
      /\ \A o \in Orders : InBatch(o) => IsOpen(o)
      /\ Task # Null
  BY StoreAssumption DEF CommitTask, Written, CreditInv, BatchInv
<1>2. Stored' = Stored
  BY <1>1 DEF Stored, InBatch, IsOpen, Exists
<1>3. ASSUME NEW u \in Users
      PROVE  PointsEarnedBy(u)' = SumFunction(Pending(u))
  <2>1. ASSUME NEW o \in CreditedOf(u)
        PROVE  o \in Earned(u)' /\ orders'[o] = batch[o]
    BY <1>1 DEF CreditedOf, CreditInv, ToCredit, Earned, Exists, InBatch
  <2>2. ASSUME NEW o \in Earned(u)
        PROVE  o \in Earned(u)' /\ orders'[o] = orders[o] /\ o \notin CreditedOf(u)
    BY <1>1 DEF Earned, Exists, IsOpen, CreditedOf, ToCredit
  <2>3. ASSUME NEW o \in Earned(u)', o \notin Earned(u)
        PROVE  o \in CreditedOf(u)
    BY <1>1, <2>3 DEF Earned, Exists, CreditedOf, ToCredit, InBatch
  <2>4. Earned(u)' = Earned(u) \cup CreditedOf(u)
    BY <2>1, <2>2, <2>3
  <2>5. EarnedPoints(u)' = Pending(u)
    BY <2>1, <2>2, <2>4 DEF EarnedPoints, Pending
  <2> QED BY <2>5 DEF PointsEarnedBy, EarnedPoints
<1>4. \A u \in Users : /\ lock'[u] # Task
                       /\ balance'[u] = IF lock[u] = Task THEN newest[u] ELSE balance[u]
  BY <1>1 DEF CommitTask, CommitBalances, Release
<1>5. ASSUME NEW u \in Users
      PROVE  balance'[u].current + balance'[u].withdrawn = Opening[u] + PointsEarnedBy(u)'
  <2>1. CASE lock[u] = Task
    BY <1>3, <1>4, <2>1 DEF EarnedInv
  <2>2. CASE lock[u] # Task
    <3>1. SumFunction(Pending(u)) = PointsEarnedBy(u)
      BY <2>2, CreditedHaveLocks, NothingPending
    <3> QED BY <1>3, <1>4, <2>2, <3>1 DEF EarnedInv, PointsConserved
  <2> QED BY <2>1, <2>2
<1>6. PointsConserved'
  BY <1>5 DEF PointsConserved
<1> QED BY <1>2, <1>4, <1>6 DEF EarnedInv

LEMMA EarnedInit == Init => EarnedInv
<1> SUFFICES ASSUME Init PROVE EarnedInv
  OBVIOUS
<1>1. /\ \A o \in Orders : ~Exists(o)
      /\ \A u \in Users : /\ balance[u].current = Opening[u] /\ balance[u].withdrawn = 0
                          /\ lock[u] = Null
                          /\ Opening[u] \in Int
      /\ Task # Null
  BY StoreAssumption DEF Init, PointsInit, StoreInit, Exists
<1>2. ASSUME NEW u \in Users PROVE PointsEarnedBy(u) = 0
  <2>1. DOMAIN EarnedPoints(u) = {}
    BY <1>1 DEF EarnedPoints, Earned
  <2> QED BY <2>1, SumEmpty DEF PointsEarnedBy, EarnedPoints
<1>3. Stored = {}
  BY <1>1 DEF Stored
<1> QED BY <1>1, <1>2, <1>3, FS_EmptySet DEF EarnedInv, PointsConserved

LEMMA EarnedStep ==
    ASSUME RequestInv, SpentInv, BatchInv, CreditInv, EarnedInv, [Next]_vars
    PROVE  EarnedInv'
<1>0. TypeOK /\ PointsTypeOK /\ NoLeakedLock /\ TaskLocks /\ Task # Null
  BY StoreAssumption DEF RequestInv, TypeOK
<1>1. ASSUME UNCHANGED <<orders, balance, newest, lock, credited, batch>>
      PROVE  EarnedInv'
  <2>1. EarnsNothing
    BY <1>1, SameRowsEarnNothing
  <2> QED BY <1>1, <2>1, EarnedKept DEF EarnsNothing
<1>2. ASSUME NEW r \in Uploads, UploadStep(r) \/ UploadFault(r), UNCHANGED accrualVars
      PROVE  EarnedInv'
  <2>1. EarnsNothing
    BY <1>0, <1>2, RequestsOnlyInsert, SameRowsEarnNothing, InsertEarnsNothing
  <2> QED BY <1>2, <2>1, UploadFrame, EarnedKept DEF EarnsNothing, accrualVars, taskVars
<1>3. ASSUME NEW w \in Withdraws, WithdrawStep(w) \/ WithdrawFault(w), UNCHANGED accrualVars
      PROVE  EarnedInv'
  <2>1. EarnsNothing
    BY <1>0, <1>3, RequestsOnlyInsert, SameRowsEarnNothing, InsertEarnsNothing
  <2>2. \A u \in Users :
            /\ balance'[u].current + balance'[u].withdrawn
                   = balance[u].current + balance[u].withdrawn
            /\ lock'[u] = Task => lock[u] = Task /\ newest'[u] = newest[u]
    BY <1>0, <1>3, WithdrawMovesPoints
  <2> QED BY <1>3, <2>1, <2>2, EarnedKept DEF EarnsNothing, accrualVars, taskVars
<1>4. CASE TaskStep \/ TaskFault
  <2>1. CASE TaskQuiet
    <3>1. \A u \in Users : lock'[u] # Task
      BY <1>0, <2>1 DEF TaskQuiet, TaskLocks
    <3>2. EarnsNothing
      BY <2>1, SameRowsEarnNothing DEF TaskQuiet
    <3> QED BY <2>1, <3>1, <3>2, EarnedKept DEF EarnsNothing, TaskQuiet
  <2>2. ASSUME NEW o \in Orders, CreditOrder(o) PROVE EarnedInv'
    BY <1>0, <2>2, CreditKeepsEarned
  <2>3. CASE CommitTask
    BY <1>0, <2>3, CommitKeepsEarned
  <2>4. CASE TaskFails
    <3>1. UNCHANGED <<orders, balance>> /\ \A u \in Users : lock'[u] # Task
      BY <1>0, <2>4 DEF TaskFails, RollbackBalances, Release
    <3>2. EarnsNothing
      BY <3>1, SameRowsEarnNothing
    <3> QED BY <3>1, <3>2, EarnedKept DEF EarnsNothing
  <2> QED BY <1>0, <1>4, <2>1, <2>2, <2>3, <2>4, TaskKinds DEF TaskStep, TaskFault
<1>5. CASE ServiceRuns \/ UNCHANGED vars
  BY <1>1, <1>5 DEF ServiceRuns, vars, storeVars, requestVars, accrualVars, taskVars
<1>6. CASE Crash
  <2>1. UNCHANGED <<orders, balance>> /\ \A u \in Users : lock'[u] # Task
    BY <1>0, <1>6 DEF Crash, RollbackAll
  <2>2. EarnsNothing
    BY <2>1, SameRowsEarnNothing
  <2> QED BY <2>1, <2>2, EarnedKept DEF EarnsNothing
<1> QED BY <1>2, <1>3, <1>4, <1>5, <1>6
    DEF Next, UploadRuns, UploadBreaks, WithdrawRuns, WithdrawBreaks, TaskRuns, TaskBreaks, Quiet

\* No point is lost or made up, whatever fails, crashes or is retried: in every
\* committed state a user's points and spendings are what the user's PROCESSED orders
\* earned, for an accrual service that conforms to its specification.
THEOREM PointsAreConserved ==
    ASSUME ConformingReplies PROVE Spec => []PointsConserved
<1>1. Init => EarnedInv
  BY EarnedInit
<1>2. RequestInv /\ SpentInv /\ BatchInv /\ CreditInv /\ EarnedInv /\ [Next]_vars => EarnedInv'
  BY EarnedStep
<1>3. EarnedInv => PointsConserved
  BY DEF EarnedInv
<1> QED BY <1>1, <1>2, <1>3, SpentInvariant, BatchAgrees, TaskInvariant, PTL DEF Spec
=============================================================================
