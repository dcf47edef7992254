--------------------------------- MODULE Queries ---------------------------------
(***************************************************************************)
(* Reading: GET /api/user/orders, /api/user/balance and                     *)
(* /api/user/withdrawals, beside the requests of WithdrawService.  Each is  *)
(* one SELECT, which sees the rows committed at that moment, and a          *)
(* conversion of what it returned.  A read has no effect, so its user and   *)
(* its kind are chosen when the statement runs.                             *)
(*                                                                          *)
(* Rows arrive one by one, and the result may break off in the middle: the  *)
(* statement's timeout expires or the connection is lost.  Then rows.Next   *)
(* ends the loop as after the last row, and only rows.Err tells.            *)
(***************************************************************************)
EXTENDS WithdrawService

CONSTANT Reads        \* GET requests

VARIABLE read         \* request -> its answer, or Null

queryVars == <<withdrawVars, read>>

\* A stored order, balance or withdrawal as it is sent.  The id of a withdrawal
\* stands for its time of processing.
ReadTypeOK ==
    read \in [Reads -> {Null} \cup
        [what: {"orders", "balance", "withdrawals"}, user: Users, code: {200, 204, 500},
         body:      (SUBSET [number: Orders, status: OrderStatus, accrual: Int \cup {Null}])
               \cup (SUBSET [current: Int, withdrawn: Int])
               \cup (SUBSET [id: Withdraws, order: Orders, sum: Int])]]

\* Type correctness of the tables, the requests and the answers to reads.
QueriesTypeOK == PointsTypeOK /\ ReadTypeOK

QueriesInit == PointsInit /\ read = [g \in Reads |-> Null]

ReadAnswer(g, u, what, code, body) ==
    /\ read[g] = Null
    /\ read' = [read EXCEPT
                   ![g] = [what |-> what, user |-> u, code |-> code, body |-> body]]
    /\ UNCHANGED withdrawVars

-----------------------------------------------------------------------------
\* The handlers divide by 100: hundredths, back in thousandths.
FromCents(cents) == cents * 10

OrderToAPI(o) ==
    [number |-> o, status |-> orders[o].status,
     accrual |-> IF orders[o].accrual = Null THEN Null ELSE FromCents(orders[o].accrual)]

WithdrawalToAPI(x) == [id |-> x.id, order |-> x.order, sum |-> FromCents(x.sum)]

OrdersOf(u) == {o \in Orders : OwnOrder(u, o)}

WithdrawalsOf(u) == {x \in withdrawals : x.user = u}

\* Mutant: rows.Err is not looked at.
OrdersByUserUnchecked(u) == SUBSET OrdersOf(u)

\* The lists OrdersByUser may return.
OrdersByUser(u) == {OrdersOf(u)}

\* A user without orders gets an empty list.
GetOrders(g) ==
    \E u \in Users : \E list \in OrdersByUser(u) :
        ReadAnswer(g, u, "orders", 200, {OrderToAPI(o) : o \in list})

\* Mutant: the read sees uncommitted rows.
SelectBalanceUncommitted(u) == newest[u]

SelectBalance(u) == balance[u]

GetBalance(g) ==
    \E u \in Users :
        ReadAnswer(g, u, "balance", 200,
                   {[current |-> FromCents(SelectBalance(u).current),
                     withdrawn |-> FromCents(SelectBalance(u).withdrawn)]})

WithdrawalsAnswer(g, u, list) ==
    ReadAnswer(g, u, "withdrawals", IF list = {} THEN 204 ELSE 200,
               {WithdrawalToAPI(x) : x \in list})

GetWithdrawals(g) == \E u \in Users : WithdrawalsAnswer(g, u, WithdrawalsOf(u))

\* The result breaks off.  The repository does not ask rows.Err: what has arrived,
\* nothing perhaps, is taken for the list.
GetWithdrawalsBrokenOff(g) ==
    \E u \in Users : \E list \in SUBSET WithdrawalsOf(u) :
        list # WithdrawalsOf(u) /\ WithdrawalsAnswer(g, u, list)

\* The statement fails; for the orders, the result breaking off is this as well.
ReadFails(g) ==
    \E u \in Users, what \in {"orders", "balance", "withdrawals"} :
        ReadAnswer(g, u, what, 500, {})

ReadStep(g) == GetOrders(g) \/ GetBalance(g) \/ GetWithdrawals(g)

ReadFault(g) == GetWithdrawalsBrokenOff(g) \/ ReadFails(g)

QueriesNext ==
    \/ PointsNext /\ UNCHANGED read
    \/ \E g \in Reads : ReadStep(g) \/ ReadFault(g)

QueriesSpec == QueriesInit /\ [][QueriesNext]_queryVars

\* The database answers every statement in time; nobody reads.
ReliableSpec == QueriesInit /\ [][PointsProgress /\ UNCHANGED read]_queryVars

-----------------------------------------------------------------------------
(* What a user has read is true and stays true, whatever was going on: listed  *)
(* orders are the user's, listed withdrawals were made and are never undone, *)
(* with the amount asked for in hundredths; and a balance shows the sum of   *)
(* some of the user's withdrawals that are there for good, never half a      *)
(* withdrawal or one that is rolled back later.                              *)
ReadsStayTrue ==
    \A g \in Reads : read[g] # Null =>
        LET u == read[g].user
        IN  \A x \in read[g].body :
                /\ read[g].what = "orders" => OwnOrder(u, x.number)
                /\ read[g].what = "withdrawals" =>
                       \E w \in Withdraws : /\ w = x.id
                                            /\ RowsOf(w) = {WithdrawalOf(w)}
                                            /\ x.order = withdraw[w].order
                                            /\ withdraw[w].user = u
                                            /\ x.sum = FromCents(Delta(w))
                /\ read[g].what = "balance" =>
                       /\ \E W \in SUBSET WithdrawalsOf(u) : x.withdrawn = FromCents(SumOf(W))
                       /\ x.current + x.withdrawn = FromCents(Opening[u])

\* The answer a read gets in this step: its kind, user and rows, unless it fails.
GetsList(g, what, u) ==
    /\ read[g] = Null /\ read'[g] # Null
    /\ read'[g].what = what /\ read'[g].user = u /\ read'[g].code # 500

(* Who has been told that a number is accepted, or was accepted before, finds  *)
(* it in the list of orders, however the list was fetched.                   *)
AcceptedAreListed ==
    [][\A g \in Reads, r \in Uploads :
           GetsList(g, "orders", upload[r].user) /\ upload[r].resp \in {200, 202} =>
               \E x \in read'[g].body : x.number = upload[r].order]_queryVars

(* As SPECIFICATION.md has it, 200 carries the list of withdrawals and 204 means *)
(* that there is none: who has been told that a withdrawal succeeded finds it. *)
PaymentsAreListed ==
    [][\A g \in Reads, w \in Withdraws :
           GetsList(g, "withdrawals", withdraw[w].user) /\ withdraw[w].resp = 200 =>
               \E x \in read'[g].body : x.id = w]_queryVars
=============================================================================
