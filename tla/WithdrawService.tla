---------------------------- MODULE WithdrawService ----------------------------
(***************************************************************************)
(* Spending points: POST /api/user/balance/withdraw.  The handler           *)
(* (internal/handler/balance/handler.go) first stores the order number with *)
(* order Service.Create, then calls Service.MakeWithdraw                    *)
(* (internal/service/withdraw/service.go), which looks the order up and     *)
(* runs one transaction: read the balance, compare, update the balance,     *)
(* insert the withdrawal.                                                   *)
(*                                                                          *)
(* withdraw[w].pc names the next call of the request: "Order" and "Create"   *)
(* of order Service.Create, "OrderByUser", then inside the transaction       *)
(* "Balance", "IncreaseWithdraw", "CreateWithdrawal" and "Commit".           *)
(***************************************************************************)
EXTENDS OrderService, Functions

\* The amounts asked for, in thousandths of a point; nothing checks their sign.
CONSTANT Sums

ASSUME SumsAssumption == Sums \subseteq Decimals

VARIABLE withdraw     \* request -> its parameters, next call, balance read, answer

InTx == {"Balance", "IncreaseWithdraw", "CreateWithdrawal", "Commit"}

WithdrawPc == {"Order", "Create", "OrderByUser", "done"} \cup InTx

WithdrawCodes == {200, 402, 422, 500}

WithdrawTypeOK ==
    withdraw \in [Withdraws -> [pc: WithdrawPc, user: Users, order: Orders,
                                sum: Sums, seen: Int,
                                resp: WithdrawCodes \cup {NoAnswer}]]

WithdrawInit ==
    withdraw \in [Withdraws -> [pc: {"Order"}, user: Users, order: Orders,
                                sum: Sums, seen: {0}, resp: {NoAnswer}]]

-----------------------------------------------------------------------------
\* The amount in the unit of the tables.
Delta(w) == ToCents(withdraw[w].sum)

Continue(w, pc) == withdraw' = [withdraw EXCEPT ![w].pc = pc]

Answer(w, code) ==
    withdraw' = [withdraw EXCEPT ![w].pc = "done", ![w].resp = code]

(* The handler's call of order Service.Create: an order the user already has *)
(* is accepted, every other error is answered with 500.                      *)
WLookup(w) ==
    /\ withdraw[w].pc = "Order"
    /\ LET outcome == LookupOutcome(withdraw[w].user, withdraw[w].order)
       IN  \/ outcome = "insert" /\ Continue(w, "Create")
           \/ outcome = "ErrOrderAlreadyExists" /\ Continue(w, "OrderByUser")
           \/ outcome \in {"ErrWrongOrderNumber", "ErrWrongUser"} /\ Answer(w, 500)
    /\ UNCHANGED storeVars

WInsert(w) ==
    /\ withdraw[w].pc = "Create"
    /\ InsertOrder(withdraw[w].user, withdraw[w].order)
    /\ Continue(w, "OrderByUser")
    /\ UNCHANGED <<balanceVars, withdrawals>>

WInsertDuplicate(w) ==
    /\ withdraw[w].pc = "Create"
    /\ Exists(withdraw[w].order)
    /\ Answer(w, 500)
    /\ UNCHANGED storeVars

(* MakeWithdraw.                                                             *)
OwnOrder(u, o) == Exists(o) /\ orders[o].user = u

WOrderByUser(w) ==
    /\ withdraw[w].pc = "OrderByUser"
    /\ \/ OwnOrder(withdraw[w].user, withdraw[w].order) /\ Continue(w, "Balance")
       \/ ~OwnOrder(withdraw[w].user, withdraw[w].order) /\ Answer(w, 422)
    /\ UNCHANGED storeVars

\* Mutant: off by one.
EnoughPointsOffByOne(current, delta) == ~(current + 1 < delta)

EnoughPoints(current, delta) == ~(current < delta)

\* A plain SELECT: it sees the committed row and takes no lock.
WBalance(w) ==
    /\ withdraw[w].pc = "Balance"
    /\ LET current == balance[withdraw[w].user].current
       IN  \/ /\ EnoughPoints(current, Delta(w))
              /\ withdraw' = [withdraw EXCEPT ![w].pc = "IncreaseWithdraw",
                                              ![w].seen = current]
           \/ ~EnoughPoints(current, Delta(w)) /\ Answer(w, 402)
    /\ UNCHANGED storeVars

WIncreaseWithdraw(w) ==
    /\ withdraw[w].pc = "IncreaseWithdraw"
    /\ IncreaseWithdraw(w, withdraw[w].user, Delta(w))
    /\ Continue(w, "CreateWithdrawal")
    /\ UNCHANGED <<orders, withdrawals>>

WCreateWithdrawal(w) ==
    /\ withdraw[w].pc = "CreateWithdrawal"
    /\ Continue(w, "Commit")
    /\ UNCHANGED storeVars

WithdrawalOf(w) ==
    [id |-> w, user |-> withdraw[w].user, order |-> withdraw[w].order, sum |-> Delta(w)]

\* Mutant: the commit is forgotten, the deferred rollback undoes the transaction.
ApplyRollsBack(w) == RollbackBalances(w) /\ UNCHANGED <<orders, withdrawals>>

Apply(w) ==
    /\ CommitBalances(w)
    /\ withdrawals' = withdrawals \cup {WithdrawalOf(w)}
    /\ UNCHANGED orders

WCommit(w) == withdraw[w].pc = "Commit" /\ Apply(w) /\ Answer(w, 200)

\* Mutant: the update waits without a timeout.
WLockTimeoutNever(w) == FALSE

\* The row stays locked for longer than the statement may wait
\* (db.RequestTimeout): the update fails and the transaction is rolled back.
WLockTimeout(w) ==
    /\ withdraw[w].pc = "IncreaseWithdraw"
    /\ ~MayLock(w, withdraw[w].user)
    /\ RollbackBalances(w)
    /\ Answer(w, 500)
    /\ UNCHANGED <<orders, withdrawals>>

\* Any other call that fails: the deferred rollback runs, the answer is 500.
WFails(w) ==
    /\ withdraw[w].pc # "done"
    /\ RollbackBalances(w)
    /\ Answer(w, 500)
    /\ UNCHANGED <<orders, withdrawals>>

\* The result of the insert, or of the commit, is lost after it took effect.
WInsertUnconfirmed(w) ==
    /\ withdraw[w].pc = "Create"
    /\ InsertOrder(withdraw[w].user, withdraw[w].order)
    /\ Answer(w, 500)
    /\ UNCHANGED <<balanceVars, withdrawals>>

WCommitUnconfirmed(w) == withdraw[w].pc = "Commit" /\ Apply(w) /\ Answer(w, 500)

WithdrawStep(w) ==
    \/ WLookup(w) \/ WInsert(w) \/ WInsertDuplicate(w)
    \/ WOrderByUser(w) \/ WBalance(w) \/ WIncreaseWithdraw(w)
    \/ WCreateWithdrawal(w) \/ WCommit(w) \/ WLockTimeout(w)

WithdrawFault(w) == WFails(w) \/ WInsertUnconfirmed(w) \/ WCommitUnconfirmed(w)

-----------------------------------------------------------------------------
(* The two handlers together, on the points the users start with.            *)
withdrawVars == <<storeVars, upload, withdraw>>

RequestsDone == UploadsDone /\ \A w \in Withdraws : withdraw[w].pc = "done"

RequestsTerminated == RequestsDone /\ UNCHANGED withdrawVars

PointsInit == StoreInit /\ UploadInit /\ WithdrawInit

PointsProgress ==
    \/ \E r \in Uploads : UploadStep(r) /\ UNCHANGED withdraw
    \/ \E w \in Withdraws : WithdrawStep(w) /\ UNCHANGED upload
    \/ RequestsTerminated

PointsNext ==
    \/ PointsProgress
    \/ \E r \in Uploads : UploadFault(r) /\ UNCHANGED withdraw
    \/ \E w \in Withdraws : WithdrawFault(w) /\ UNCHANGED upload

-----------------------------------------------------------------------------
\* Type correctness of the withdraw requests.
PointsTypeOK == OrderTypeOK /\ WithdrawTypeOK

\* The withdrawal rows a request or a user has.
RowsOf(w) == {x \in withdrawals : x.id = w}

SumOf(rows) == SumFunction([x \in rows |-> x.sum])

SpentBy(u) == SumOf({x \in withdrawals : x.user = u})

(* The column balance.withdrawn is the sum of the user's withdrawal rows in   *)
(* every committed state: the two statements of MakeWithdraw's transaction    *)
(* take effect together or not at all.                                       *)
WithdrawnMatchesRows == \A u \in Users : balance[u].withdrawn = SpentBy(u)

(* The answer tells what became of a request: 200 means exactly one row with  *)
(* its amount, 402 and 422 none, 500 tells nothing; and with 402 as with 200 *)
(* the number is stored for good as an order of the requester.               *)
AnswerMatchesRows ==
    \A w \in Withdraws :
        /\ withdraw[w].resp = 200 => RowsOf(w) = {WithdrawalOf(w)}
        /\ withdraw[w].resp \in {402, 422} => RowsOf(w) = {}
        /\ withdraw[w].resp \in {200, 402} => OwnOrder(withdraw[w].user, withdraw[w].order)

\* The request has updated the balance row and not yet ended its transaction.
Spending(w) == withdraw[w].pc \in {"CreateWithdrawal", "Commit"}

(* A request holds its user's balance row from its update to the end of its   *)
(* transaction and never otherwise, and a row nobody holds has no uncommitted *)
(* version: RunInTx ends the transaction on every path, an error, a timeout   *)
(* or a lost commit included.                                                *)
NoLeakedLock ==
    /\ \A u \in Users, w \in Withdraws :
           lock[u] = w <=> Spending(w) /\ withdraw[w].user = u
    /\ \A u \in Users : lock[u] = Null => newest[u] = balance[u]

\* The request's decrement is part of the newest version of the balance row.
Spent(w) == Delta(w) > 0 /\ (Spending(w) \/ RowsOf(w) # {})

(* An overdraft takes two: a balance, even an uncommitted one, is negative    *)
(* only if two requests of that user have taken from it.  One request never   *)
(* overdraws, whatever commits between its check and its update, requests    *)
(* with negative sums included.                                              *)
OverdraftTakesTwo ==
    \A u \in Users :
        newest[u].current < 0 =>
            \E w1, w2 \in Withdraws :
                /\ w1 # w2
                /\ Spent(w1) /\ withdraw[w1].user = u
                /\ Spent(w2) /\ withdraw[w2].user = u

\* As SPECIFICATION.md has it, 402 is the answer when the points do not suffice:
\* a balance is never negative.
NeverOverdrawn == \A u \in Users : balance[u].current >= 0
=============================================================================
