------------------------------ MODULE LoyaltyStore ------------------------------
(***************************************************************************)
(* The PostgreSQL side of the service: the tables orders, balance and       *)
(* withdrawals of internal/db/schema.sql, the statements the repositories   *)
(* send, and the transactions of internal/db/tx.go at the default isolation *)
(* level, READ COMMITTED.                                                   *)
(*                                                                          *)
(* A plain SELECT sees the committed rows.  An UPDATE of a balance row       *)
(* locks the row for the transaction until it ends and computes from the    *)
(* newest version, so a balance row has two versions: the committed one     *)
(* (balance) and the one its lock holder wrote (newest).  Rows of orders    *)
(* and withdrawals that a transaction wrote are applied when it commits:    *)
(* nobody else can see or touch them before that.                           *)
(***************************************************************************)
EXTENDS Integers

CONSTANTS
    Users,        \* users.uuid
    Orders,       \* the order numbers clients send
    ValidOrders,  \* those that entity.Number.IsValid accepts
    Withdraws,    \* requests POST /api/user/balance/withdraw
    Task,         \* the transaction owner of the actualize task
    Opening,      \* points a user earned with orders outside Orders
    Null          \* SQL NULL, no row, nil

OrderStatus == {"NEW", "PROCESSING", "INVALID", "PROCESSED"}

OrderRow == [user: Users, status: OrderStatus, accrual: Nat \cup {Null}]

BalanceRow == [current: Int, withdrawn: Int]

WithdrawalRow == [id: Withdraws, user: Users, order: Orders, sum: Int]

ASSUME StoreAssumption ==
    /\ ValidOrders \subseteq Orders
    /\ Opening \in [Users -> Nat]
    /\ Null \notin Int
    /\ Null \notin Withdraws \cup Users
    /\ Null \notin OrderRow
    /\ Task # Null
    /\ Task \notin Withdraws

VARIABLES
    orders,       \* order number -> its row, or Null
    balance,      \* user -> committed balance row
    newest,       \* user -> version the lock holder wrote, else the committed one
    lock,         \* user -> transaction that holds the balance row, or Null
    withdrawals   \* the committed rows of withdrawals

storeVars == <<orders, balance, newest, lock, withdrawals>>
balanceVars == <<balance, newest, lock>>

StoreTypeOK ==
    /\ orders \in [Orders -> OrderRow \cup {Null}]
    /\ balance \in [Users -> BalanceRow]
    /\ newest \in [Users -> BalanceRow]
    /\ lock \in [Users -> Withdraws \cup {Task, Null}]
    /\ withdrawals \subseteq WithdrawalRow

\* The users are registered, with their balance rows (see Registration).
StoreInit ==
    /\ orders = [o \in Orders |-> Null]
    /\ balance = [u \in Users |-> [current |-> Opening[u], withdrawn |-> 0]]
    /\ newest = balance
    /\ lock = [u \in Users |-> Null]
    /\ withdrawals = {}

-----------------------------------------------------------------------------
(* Amounts travel as decimals and are stored in hundredths: both handlers    *)
(* compute int64(math.Round(x*100)), which rounds away from zero.  Decimals  *)
(* are counted in thousandths here; ties (a last digit 5), where the float   *)
(* decides, are left out.                                                    *)
ToCents(milli) ==
    IF milli >= 0 THEN (milli + 5) \div 10 ELSE 0 - ((5 - milli) \div 10)

Decimals == {m \in Int : m % 10 # 5}

(* Table orders.  order_id is unique; a new row is NEW without accrual.      *)
Exists(o) == orders[o] # Null

\* Mutant: the insert passes no status.
NewOrderWithoutStatus(u) == [user |-> u, status |-> "", accrual |-> Null]

NewOrder(u) == [user |-> u, status |-> "NEW", accrual |-> Null]

\* Mutant: an upsert, or no unique index on order_id.
InsertOrderOverwrites(u, o) == orders' = [orders EXCEPT ![o] = NewOrder(u)]

InsertOrder(u, o) ==
    /\ ~Exists(o)
    /\ orders' = [orders EXCEPT ![o] = NewOrder(u)]

(* Table balance.  An UPDATE waits until the row is free or already ours.    *)
MayLock(tx, u) == lock[u] \in {Null, tx}

UpdateBalance(tx, u, row) ==
    /\ MayLock(tx, u)
    /\ lock' = [lock EXCEPT ![u] = tx]
    /\ newest' = [newest EXCEPT ![u] = row]
    /\ UNCHANGED balance

IncreaseCurrent(tx, u, delta) ==
    UpdateBalance(tx, u, [newest[u] EXCEPT !.current = @ + delta])

\* Mutant: the column withdrawn is forgotten.
IncreaseWithdrawCurrentOnly(tx, u, delta) == IncreaseCurrent(tx, u, 0 - delta)

IncreaseWithdraw(tx, u, delta) ==
    UpdateBalance(tx, u, [current |-> newest[u].current - delta,
                           withdrawn |-> newest[u].withdrawn + delta])

(* End of RunInTx: the commit, or the deferred rollback.                     *)
\* Mutant: the transaction is never ended.
ReleaseForgotten(tx) == lock

Release(tx) == [u \in Users |-> IF lock[u] = tx THEN Null ELSE lock[u]]

CommitBalances(tx) ==
    /\ balance' = [u \in Users |-> IF lock[u] = tx THEN newest[u] ELSE balance[u]]
    /\ lock' = Release(tx)
    /\ UNCHANGED newest

\* Mutant: what was written before the error stays.
RollbackKeeps(tx) == CommitBalances(tx)

RollbackBalances(tx) ==
    /\ newest' = [u \in Users |-> IF lock[u] = tx THEN balance[u] ELSE newest[u]]
    /\ lock' = Release(tx)
    /\ UNCHANGED balance

\* The server aborts every transaction of a process that died.
RollbackAll ==
    /\ newest' = balance
    /\ lock' = [u \in Users |-> Null]
    /\ UNCHANGED balance
=============================================================================
