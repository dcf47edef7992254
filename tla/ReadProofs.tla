-------------------------------- MODULE ReadProofs --------------------------------
(***************************************************************************)
(* What users read is true and stays true, for every number of users,       *)
(* orders, requests and reads, broken off results and faults included.  The *)
(* parts of the invariant about the tables are those of the whole service;  *)
(* here they are shown for the requests alone (Queries), whose points are   *)
(* the ones the users start with.                                           *)
(***************************************************************************)
EXTENDS LedgerProofs, NumberedQueries

\* The requests move points, and nobody earns any.
OpeningKept ==
    \A u \in Users : balance[u].current + balance[u].withdrawn = Opening[u]

\* What the tables guarantee beside the reads.
TablesInv ==
    /\ PointsTypeOK
    /\ NoLeakedLock
    /\ OrdersInv
    /\ RowsInv
    /\ SpentInv
    /\ SpendInv
    /\ OpeningKept

\* What a list of orders has is about orders.
BodiesInv ==
    \A g \in Reads : read[g] # Null => \A x \in read[g].body :
        read[g].what = "orders" => x.number \in Orders

ReadInv == TablesInv /\ ReadTypeOK /\ BodiesInv /\ ReadsStayTrue

-----------------------------------------------------------------------------
(* The tables.                                                               *)

LEMMA TablesInit == PointsInit => TablesInv
<1> SUFFICES ASSUME PointsInit PROVE TablesInv
  OBVIOUS
<1>1. OpeningKept
  <2> SUFFICES ASSUME NEW u \in Users
               PROVE  balance[u].current + balance[u].withdrawn = Opening[u]
    BY DEF OpeningKept
  <2>1. balance[u] = [current |-> Opening[u], withdrawn |-> 0] /\ Opening[u] \in Nat
    BY StoreAssumption DEF PointsInit, StoreInit
  <2> QED BY <2>1
<1> QED BY <1>1, PointsInitType, PointsLocksInit, OrdersInit, RowsInit, SpentInit, SpendInit
    DEF TablesInv

\* What a step of a request leaves as it was, or true.
TablesGrow ==
    /\ \A o \in Orders : Exists(o) => orders'[o] # Null /\ orders'[o].user = orders[o].user
    /\ \A w \in Withdraws : /\ withdraw'[w].user = withdraw[w].user
                            /\ withdraw'[w].order = withdraw[w].order
                            /\ Delta(w)' = Delta(w)
                            /\ RowsOf(w) = {WithdrawalOf(w)} => RowsOf(w)' = {WithdrawalOf(w)'}
    /\ \A u \in Users : WithdrawalsOf(u) \subseteq WithdrawalsOf(u)'

LEMMA RowsStay ==
    ASSUME PointsTypeOK, NEW u \in Users, NEW p \in Orders, InsertOrder(u, p)
    PROVE  \A o \in Orders : Exists(o) => orders'[o] # Null /\ orders'[o].user = orders[o].user
BY DEF PointsTypeOK, OrderTypeOK, StoreTypeOK, InsertOrder, Exists

\* Steps that write no row of withdrawals.
LEMMA NoRowGrows ==
    ASSUME TablesInv, UNCHANGED withdrawals,
           \A o \in Orders : Exists(o) => orders'[o] # Null /\ orders'[o].user = orders[o].user,
           \A w \in Withdraws : /\ withdraw'[w].user = withdraw[w].user
                                /\ withdraw'[w].order = withdraw[w].order
                                /\ Delta(w)' = Delta(w)
                                /\ WithdrawalOf(w)' = WithdrawalOf(w)
    PROVE  TablesGrow
<1>1. \A u \in Users : WithdrawalsOf(u)' = WithdrawalsOf(u)
  BY DEF WithdrawalsOf
<1>2. \A w \in Withdraws : RowsOf(w)' = RowsOf(w)
  BY DEF RowsOf
<1> QED BY <1>1, <1>2 DEF TablesGrow

LEMMA UploadKeepsTables ==
    ASSUME TablesInv, NEW r \in Uploads, UploadStep(r) \/ UploadFault(r), UNCHANGED withdraw
    PROVE  TablesInv' /\ TablesGrow
<1>0. PointsTypeOK /\ OrderTypeOK /\ WithdrawTypeOK
  BY DEF TablesInv, PointsTypeOK
<1>1. UNCHANGED <<balance, newest, lock, withdrawals>>
  BY UploadFrame
<1>2. PointsTypeOK'
  BY <1>0, UploadType DEF PointsTypeOK, WithdrawTypeOK
<1>3. \A w \in Withdraws : Delta(w)' = Delta(w) /\ WithdrawalOf(w)' = WithdrawalOf(w)
  BY DEF Delta, WithdrawalOf
<1>4. NoLeakedLock' /\ OrdersInv'
  BY <1>0, <1>1, LocksUnchanged, UploadKeepsOrders DEF TablesInv
<1>5. RowsInv'
  BY <1>1, <1>3, RowsUnchanged DEF TablesInv
<1>6. SpentInv'
  BY <1>1, <1>3, SpentKept DEF TablesInv, SpentInv
<1>7. OpeningKept' /\ SpendInv'
  BY <1>0, <1>1, <1>2, SpendUnchanged DEF TablesInv, OpeningKept
<1>8. \A o \in Orders : Exists(o) => orders'[o] # Null /\ orders'[o].user = orders[o].user
  BY <1>0, RequestsOnlyInsert, RowsStay DEF Exists
<1> QED BY <1>1, <1>2, <1>3, <1>4, <1>5, <1>6, <1>7, <1>8, NoRowGrows DEF TablesInv

LEMMA WithdrawKeepsTables ==
    ASSUME TablesInv, NEW w \in Withdraws, WithdrawStep(w) \/ WithdrawFault(w), UNCHANGED upload
    PROVE  TablesInv' /\ TablesGrow
<1>0. /\ PointsTypeOK /\ NoLeakedLock /\ OrdersInv /\ RowsInv /\ SpentInv
      /\ SpendInv /\ OpeningKept
  BY DEF TablesInv
<1>1. PointsTypeOK'
  BY <1>0, WithdrawType
<1>2. NoLeakedLock' /\ OrdersInv' /\ RowsInv' /\ SpentInv'
  BY <1>0, WithdrawKeepsLocks, WithdrawKeepsOrders, WithdrawKeepsRows, WithdrawKeepsSpent
<1>3. OpeningKept' /\ SpendInv'
  BY <1>0, WithdrawMovesPoints, WithdrawKeepsSpend DEF OpeningKept
<1>4. TablesInv'
  BY <1>1, <1>2, <1>3 DEF TablesInv
<1>5. \A o \in Orders : Exists(o) => orders'[o] # Null /\ orders'[o].user = orders[o].user
  BY <1>0, RequestsOnlyInsert, RowsStay DEF Exists
<1>6. \A v \in Withdraws : /\ withdraw'[v].user = withdraw[v].user
                           /\ withdraw'[v].order = withdraw[v].order
                           /\ Delta(v)' = Delta(v)
                           /\ WithdrawalOf(v)' = WithdrawalOf(v)
  BY <1>0, WithdrawFrame
<1>7. CASE UNCHANGED withdrawals
  BY <1>4, <1>5, <1>6, <1>7, NoRowGrows
<1>8. CASE CommitStep(w)
  <2>1. \A u \in Users : WithdrawalsOf(u) \subseteq WithdrawalsOf(u)'
    BY <1>8 DEF CommitStep, Apply, WithdrawalsOf
  <2>2. \A v \in Withdraws :
            RowsOf(v) = {WithdrawalOf(v)} => RowsOf(v)' = {WithdrawalOf(v)'}
    BY <1>0, <1>6, <1>8, CommitRows
  <2> QED BY <1>4, <1>5, <1>6, <2>1, <2>2 DEF TablesGrow
<1> QED BY <1>0, <1>7, <1>8, WithdrawKinds DEF QuietStep, UpdateStep, RollbackStep

LEMMA RequestsKeepTables ==
    ASSUME TablesInv, PointsNext \/ UNCHANGED withdrawVars
    PROVE  TablesInv' /\ TablesGrow
<1>1. CASE UNCHANGED withdrawVars
  <2>1. /\ UNCHANGED <<orders, balance, newest, lock, withdrawals, upload, withdraw>>
        /\ \A w \in Withdraws : Delta(w)' = Delta(w) /\ WithdrawalOf(w)' = WithdrawalOf(w)
    BY <1>1 DEF withdrawVars, storeVars, Delta, WithdrawalOf
  <2>2. PointsTypeOK' /\ OpeningKept'
    BY <2>1 DEF TablesInv, PointsTypeOK, OrderTypeOK, StoreTypeOK, UploadTypeOK,
                WithdrawTypeOK, OpeningKept
  <2>3. OrdersInv'
    BY <2>1 DEF TablesInv, OrdersInv, AnswersStayTrue, AcceptedOnce, Exists, OwnOrder
  <2>4. RowsInv'
    BY <2>1, RowsUnchanged DEF TablesInv
  <2>5. SpentInv' /\ SpendInv'
    BY <2>1, <2>2, SpentKept, SpendUnchanged DEF TablesInv, SpentInv
  <2>6. NoLeakedLock'
    BY <2>1, LocksUnchanged DEF TablesInv
  <2>7. TablesGrow
    BY <2>1, NoRowGrows DEF Exists
  <2> QED BY <2>2, <2>3, <2>4, <2>5, <2>6, <2>7 DEF TablesInv
<1> QED BY <1>1, UploadKeepsTables, WithdrawKeepsTables
    DEF PointsNext, PointsProgress, RequestsTerminated

-----------------------------------------------------------------------------
(* The answers.                                                              *)

Kinds == {"orders", "balance", "withdrawals"}

Bodies == (SUBSET [number: Orders, status: OrderStatus, accrual: Int \cup {Null}])
              \cup (SUBSET [current: Int, withdrawn: Int])
              \cup (SUBSET [id: Withdraws, order: Orders, sum: Int])

\* What an answer must be when it is given.
GoodBody(what, u, body) ==
    \A x \in body :
        /\ what = "orders" => x.number \in Orders /\ OwnOrder(u, x.number)
        /\ what = "withdrawals" =>
               \E w \in Withdraws : /\ w = x.id
                                    /\ RowsOf(w) = {WithdrawalOf(w)}
                                    /\ x.order = withdraw[w].order
                                    /\ withdraw[w].user = u
                                    /\ x.sum = FromCents(Delta(w))
        /\ what = "balance" =>
               /\ \E W \in SUBSET WithdrawalsOf(u) : x.withdrawn = FromCents(SumOf(W))
               /\ x.current + x.withdrawn = FromCents(Opening[u])

LEMMA ReadInvIsGood ==
    ReadInv <=> /\ TablesInv /\ ReadTypeOK
                /\ \A g \in Reads :
                       read[g] # Null => GoodBody(read[g].what, read[g].user, read[g].body)
BY DEF ReadInv, BodiesInv, ReadsStayTrue, GoodBody

\* What it must be in the next state.
StillGood(what, u, body) ==
    \A x \in body :
        /\ what = "orders" => x.number \in Orders /\ OwnOrder(u, x.number)'
        /\ what = "withdrawals" =>
               \E w \in Withdraws : /\ w = x.id
                                    /\ RowsOf(w)' = {WithdrawalOf(w)'}
                                    /\ x.order = withdraw'[w].order
                                    /\ withdraw'[w].user = u
                                    /\ x.sum = FromCents(Delta(w)')
        /\ what = "balance" =>
               /\ \E W \in SUBSET WithdrawalsOf(u)' : x.withdrawn = FromCents(SumOf(W))
               /\ x.current + x.withdrawn = FromCents(Opening[u])

\* Answers given before stay true.
LEMMA GoodStaysGood ==
    ASSUME TablesInv, TablesInv', TablesGrow,
           NEW what, NEW u \in Users, NEW body, GoodBody(what, u, body)
    PROVE  StillGood(what, u, body)
<1> SUFFICES ASSUME NEW x \in body
             PROVE  StillGood(what, u, {x})
  BY DEF StillGood
<1>1. ASSUME what = "orders"
      PROVE  x.number \in Orders /\ OwnOrder(u, x.number)'
  BY <1>1 DEF GoodBody, TablesGrow, OwnOrder, Exists
<1>2. ASSUME what = "withdrawals"
      PROVE  \E w \in Withdraws : /\ w = x.id
                                  /\ RowsOf(w)' = {WithdrawalOf(w)'}
                                  /\ x.order = withdraw'[w].order
                                  /\ withdraw'[w].user = u
                                  /\ x.sum = FromCents(Delta(w)')
  BY <1>2 DEF GoodBody, TablesGrow
<1>3. ASSUME what = "balance"
      PROVE  /\ \E W \in SUBSET WithdrawalsOf(u)' : x.withdrawn = FromCents(SumOf(W))
             /\ x.current + x.withdrawn = FromCents(Opening[u])
  <2>1. PICK W \in SUBSET WithdrawalsOf(u) : x.withdrawn = FromCents(SumOf(W))
    BY <1>3 DEF GoodBody
  <2>2. W \in SUBSET WithdrawalsOf(u)'
    BY DEF TablesGrow
  <2>3. x.current + x.withdrawn = FromCents(Opening[u])
    BY <1>3 DEF GoodBody
  <2> QED BY <2>1, <2>2, <2>3
<1> QED BY <1>1, <1>2, <1>3 DEF StillGood

\* Old answers and a new one, if they are good, stay true.
LEMMA AnswersGoOn ==
    ASSUME ReadInv, PointsNext \/ UNCHANGED withdrawVars, ReadTypeOK',
           NEW f, read' = f,
           \A g \in Reads : f[g] # Null => /\ f[g].user \in Users
                                           /\ GoodBody(f[g].what, f[g].user, f[g].body)
    PROVE  ReadInv'
<1>1. TablesInv /\ TablesInv' /\ TablesGrow
  BY RequestsKeepTables DEF ReadInv
<1>2. \A g \in Reads : f[g] # Null => StillGood(f[g].what, f[g].user, f[g].body)
  BY <1>1, GoodStaysGood
<1>3. BodiesInv'
  BY <1>2 DEF BodiesInv, StillGood
<1>4. ReadsStayTrue'
  BY <1>2 DEF ReadsStayTrue, StillGood, OwnOrder, Exists, RowsOf, WithdrawalOf, Delta,
                  WithdrawalsOf
<1> QED BY <1>1, <1>3, <1>4 DEF ReadInv

LEMMA NewAnswer ==
    ASSUME ReadInv, NEW g \in Reads, NEW u \in Users, NEW what \in Kinds,
           NEW code \in {200, 204, 500}, NEW body \in Bodies, GoodBody(what, u, body),
           ReadAnswer(g, u, what, code, body)
    PROVE  ReadInv'
<1> DEFINE a == [what |-> what, user |-> u, code |-> code, body |-> body]
<1>1. /\ read' = [read EXCEPT ![g] = a] /\ UNCHANGED withdrawVars
      /\ ReadTypeOK
  BY DEF ReadAnswer, ReadInv
<1>2. a \in [what: {"orders", "balance", "withdrawals"}, user: Users, code: {200, 204, 500},
             body: Bodies]
  BY DEF Kinds
<1>3. a.what = what /\ a.user = u /\ a.body = body
  OBVIOUS
<1> HIDE DEF a
<1>4. ReadTypeOK'
  BY <1>1, <1>2 DEF ReadTypeOK, Bodies
<1> DEFINE f == [read EXCEPT ![g] = a]
<1>5. ASSUME NEW h \in Reads, f[h] # Null
      PROVE  f[h].user \in Users /\ GoodBody(f[h].what, f[h].user, f[h].body)
  <2>1. CASE h = g
    BY <1>1, <1>3, <2>1 DEF ReadTypeOK
  <2>2. CASE h # g
    BY <1>1, <1>5, <2>2, ReadInvIsGood DEF ReadTypeOK
  <2> QED BY <2>1, <2>2
<1>6. read' = f
  BY <1>1
<1> HIDE DEF f
<1>7. PICK e : e = f
  OBVIOUS
<1> QED BY <1>1, <1>4, <1>5, <1>6, <1>7, AnswersGoOn

LEMMA CentsType == ASSUME NEW n \in Int PROVE FromCents(n) \in Int
BY DEF FromCents

\* A list of orders.
LEMMA OrdersAreGood ==
    ASSUME TablesInv, NEW u \in Users
    PROVE  LET body == {OrderToAPI(o) : o \in OrdersOf(u)}
           IN  body \in Bodies /\ GoodBody("orders", u, body)
<1> DEFINE body == {OrderToAPI(o) : o \in OrdersOf(u)}
<1>1. ASSUME NEW o \in OrdersOf(u)
      PROVE  /\ OrderToAPI(o) \in [number: Orders, status: OrderStatus, accrual: Int \cup {Null}]
             /\ OrderToAPI(o).number = o
             /\ o \in Orders /\ OwnOrder(u, o)
  <2>1. o \in Orders /\ orders[o] \in OrderRow
    BY DEF OrdersOf, OwnOrder, Exists, TablesInv, PointsTypeOK, OrderTypeOK, StoreTypeOK
  <2>2. orders[o].accrual # Null => FromCents(orders[o].accrual) \in Int
    BY <2>1, CentsType DEF OrderRow
  <2> QED BY <2>1, <2>2 DEF OrderToAPI, OrdersOf, OrderRow
<1>2. body \in Bodies
  BY <1>1 DEF Bodies
<1>3. GoodBody("orders", u, body)
  BY <1>1 DEF GoodBody
<1> QED BY <1>2, <1>3

\* A balance.
LEMMA BalanceIsGood ==
    ASSUME TablesInv, NEW u \in Users
    PROVE  LET body == {[current |-> FromCents(balance[u].current),
                         withdrawn |-> FromCents(balance[u].withdrawn)]}
           IN  body \in Bodies /\ GoodBody("balance", u, body)
<1>1. /\ balance[u].current \in Int /\ balance[u].withdrawn \in Int
      /\ balance[u].withdrawn = SumOf(WithdrawalsOf(u))
      /\ balance[u].current + balance[u].withdrawn = Opening[u]
  BY DEF TablesInv, SpentInv, WithdrawnMatchesRows, SpentBy, WithdrawalsOf, OpeningKept,
         PointsTypeOK, OrderTypeOK, StoreTypeOK, BalanceRow
<1> DEFINE c == balance[u].current
           d == balance[u].withdrawn
           x == [current |-> FromCents(c), withdrawn |-> FromCents(d)]
<1>2. /\ FromCents(c) \in Int /\ FromCents(d) \in Int
      /\ FromCents(d) = FromCents(SumOf(WithdrawalsOf(u)))
      /\ FromCents(c) + FromCents(d) = FromCents(Opening[u])
  <2>1. SumOf(WithdrawalsOf(u)) = d /\ Opening[u] = c + d /\ c \in Int /\ d \in Int
    BY <1>1
  <2> HIDE DEF c, d
  <2> QED BY <2>1 DEF FromCents
<1>3. {x} \in Bodies
  <2>1. x \in [current: Int, withdrawn: Int]
    BY <1>2
  <2>2. {x} \in SUBSET [current: Int, withdrawn: Int]
    BY <2>1
  <2> HIDE DEF x
  <2> QED BY <2>2, Zenon DEF Bodies
<1>4. GoodBody("balance", u, {x})
  BY <1>2 DEF GoodBody
<1> QED BY <1>3, <1>4

\* Withdrawals, all of them or some.
LEMMA WithdrawalsAreGood ==
    ASSUME TablesInv, NEW u \in Users, NEW list \in SUBSET WithdrawalsOf(u)
    PROVE  LET body == {WithdrawalToAPI(x) : x \in list}
           IN  body \in Bodies /\ GoodBody("withdrawals", u, body)
<1> DEFINE body == {WithdrawalToAPI(x) : x \in list}
<1>1. ASSUME NEW x \in list
      PROVE  /\ WithdrawalToAPI(x) \in [id: Withdraws, order: Orders, sum: Int]
             /\ \E w \in Withdraws : /\ w = WithdrawalToAPI(x).id
                                     /\ RowsOf(w) = {WithdrawalOf(w)}
                                     /\ WithdrawalToAPI(x).order = withdraw[w].order
                                     /\ withdraw[w].user = u
                                     /\ WithdrawalToAPI(x).sum = FromCents(Delta(w))
  <2>1. x \in withdrawals /\ x.user = u /\ x \in WithdrawalRow
    BY DEF WithdrawalsOf, TablesInv, PointsTypeOK, OrderTypeOK, StoreTypeOK
  <2>2. PICK w \in Withdraws : x = WithdrawalOf(w)
    BY <2>1 DEF TablesInv, RowsInv
  <2>3. RowsOf(w) = {WithdrawalOf(w)}
    BY <2>1, <2>2 DEF TablesInv, RowsInv, RowsOf, WithdrawalOf
  <2>4. FromCents(x.sum) \in Int
    BY <2>1, CentsType DEF WithdrawalRow
  <2> QED BY <2>1, <2>2, <2>3, <2>4 DEF WithdrawalToAPI, WithdrawalOf, WithdrawalRow
<1>2. body \in Bodies
  <2>1. body \in SUBSET [id: Withdraws, order: Orders, sum: Int]
    BY <1>1
  <2> HIDE DEF body
  <2> QED BY <2>1, Zenon DEF Bodies
<1>3. GoodBody("withdrawals", u, body)
  BY <1>1 DEF GoodBody
<1> QED BY <1>2, <1>3

LEMMA ReadInit == QueriesInit => ReadInv
<1>1. read = [g \in Reads |-> Null] => ReadTypeOK /\ BodiesInv /\ ReadsStayTrue
  BY DEF ReadTypeOK, BodiesInv, ReadsStayTrue
<1> QED BY <1>1, TablesInit DEF QueriesInit, ReadInv

LEMMA ReadStepKeeps ==
    ASSUME ReadInv, NEW g \in Reads, ReadStep(g) \/ ReadFault(g)
    PROVE  ReadInv'
<1>0. TablesInv /\ 200 \in {200, 204, 500} /\ "orders" \in Kinds /\ "balance" \in Kinds
          /\ "withdrawals" \in Kinds
  BY DEF ReadInv, Kinds
<1>1. CASE GetOrders(g)
  <2>1. PICK u \in Users :
            ReadAnswer(g, u, "orders", 200, {OrderToAPI(o) : o \in OrdersOf(u)})
    BY <1>1 DEF GetOrders, OrdersByUser
  <2> QED BY <1>0, <2>1, OrdersAreGood, NewAnswer
<1>2. CASE GetBalance(g)
  <2>1. PICK u \in Users :
            ReadAnswer(g, u, "balance", 200,
                       {[current |-> FromCents(balance[u].current),
                         withdrawn |-> FromCents(balance[u].withdrawn)]})
    BY <1>2 DEF GetBalance, SelectBalance
  <2> QED BY <1>0, <2>1, BalanceIsGood, NewAnswer
<1>3. CASE GetWithdrawals(g) \/ GetWithdrawalsBrokenOff(g)
  <2>0. PICK u \in Users : \E list \in SUBSET WithdrawalsOf(u) : WithdrawalsAnswer(g, u, list)
    BY <1>3 DEF GetWithdrawals, GetWithdrawalsBrokenOff
  <2>1. PICK list \in SUBSET WithdrawalsOf(u) : WithdrawalsAnswer(g, u, list)
    BY <2>0
  <2>2. PICK code \in {200, 204, 500} :
            ReadAnswer(g, u, "withdrawals", code, {WithdrawalToAPI(x) : x \in list})
    BY <2>1 DEF WithdrawalsAnswer
  <2> QED BY <1>0, <2>2, WithdrawalsAreGood, NewAnswer
<1>4. CASE ReadFails(g)
  <2>1. PICK u \in Users, what \in Kinds : ReadAnswer(g, u, what, 500, {})
    BY <1>4 DEF ReadFails, Kinds
  <2>2. {} \in Bodies /\ GoodBody(what, u, {})
    BY DEF Bodies, GoodBody
  <2> QED BY <2>1, <2>2, NewAnswer
<1> QED BY <1>1, <1>2, <1>3, <1>4 DEF ReadStep, ReadFault

LEMMA ReadInvStep == ReadInv /\ [QueriesNext]_queryVars => ReadInv'
<1> SUFFICES ASSUME ReadInv, [QueriesNext]_queryVars PROVE ReadInv'
  OBVIOUS
<1>1. ASSUME PointsNext \/ UNCHANGED withdrawVars, UNCHANGED read
      PROVE  ReadInv'
  <2>1. ReadTypeOK /\ ReadTypeOK'
    BY <1>1 DEF ReadInv, ReadTypeOK
  <2>2. PICK f : f = read
    OBVIOUS
  <2>3. \A g \in Reads : f[g] # Null => /\ f[g].user \in Users
                                        /\ GoodBody(f[g].what, f[g].user, f[g].body)
    BY <2>1, <2>2, ReadInvIsGood DEF ReadTypeOK
  <2> QED BY <1>1, <2>1, <2>2, <2>3, AnswersGoOn
<1> QED BY <1>1, ReadStepKeeps DEF QueriesNext, queryVars

\* The tables, the requests and the answers fit together in every reachable state.
THEOREM ReadInvariant == QueriesSpec => []ReadInv
BY ReadInit, ReadInvStep, PTL DEF QueriesSpec

\* The types of the tables, the requests and the answers to reads.
THEOREM QueriesTypes == QueriesSpec => []QueriesTypeOK
<1>1. ReadInv => QueriesTypeOK
  BY DEF ReadInv, TablesInv, QueriesTypeOK
<1> QED BY <1>1, ReadInvariant, PTL

\* What RequestProofs and LedgerProofs show of the whole service holds with readers
\* beside the requests, too: an answer to an upload or a withdrawal stays true, a number
\* is accepted once, no lock is leaked, one request alone never overdraws, and the
\* balances tell what the rows of withdrawals add up to.
THEOREM ReadersDisturbNothing ==
    QueriesSpec =>
        [](/\ AnswersStayTrue /\ AcceptedOnce /\ AnswerMatchesRows
           /\ NoLeakedLock /\ OverdraftTakesTwo /\ WithdrawnMatchesRows)
<1>1. ReadInv => /\ AnswersStayTrue /\ AcceptedOnce /\ AnswerMatchesRows
                 /\ NoLeakedLock /\ OverdraftTakesTwo /\ WithdrawnMatchesRows
  BY DEF ReadInv, TablesInv, OrdersInv, RowsInv, RowsTold, AnswerMatchesRows, SpendInv, SpentInv
<1> QED BY <1>1, ReadInvariant, PTL

\* An order stays its user's, whoever uploads, withdraws or reads.
THEOREM OwnerStays == QueriesSpec => OwnerNeverChanges
<1> DEFINE A == \A o \in Orders : Exists(o) =>
                   Exists(o)' /\ orders'[o].user = orders[o].user
<1>1. ASSUME ReadInv, [QueriesNext]_queryVars
      PROVE  A
  <2>1. PointsNext \/ UNCHANGED withdrawVars
    BY <1>1 DEF QueriesNext, ReadStep, ReadFault, GetOrders, GetBalance, GetWithdrawals,
                GetWithdrawalsBrokenOff, WithdrawalsAnswer, ReadFails, ReadAnswer, queryVars
  <2> QED BY <1>1, <2>1, RequestsKeepTables DEF ReadInv, TablesGrow, Exists
<1>2. ReadInv /\ [QueriesNext]_queryVars => [A]_orders
  BY <1>1
<1> QED BY <1>2, ReadInvariant, PTL DEF QueriesSpec, OwnerNeverChanges

\* What a user has read is true and stays true: listed orders are the user's, listed
\* withdrawals are made for good, and no balance shows half a withdrawal or one that
\* is rolled back later, whatever runs at the same time and wherever a result breaks off.
THEOREM ReadsAreTrue == QueriesSpec => []ReadsStayTrue
<1>1. ReadInv => ReadsStayTrue
  BY DEF ReadInv
<1> QED BY <1>1, ReadInvariant, PTL

\* A stored number fits into an int and passes the Luhn check as it is defined or, with a
\* minus sign, ends in 0; and no such number is refused: for integers of every size and
\* texts of every length.
THEOREM NumbersChecked == QueriesSpec => []NumbersAreChecked
<1>1. ASSUME ReadInv PROVE NumbersAreChecked
  <2>1. ASSUME NEW o \in Orders
        PROVE  o \in ValidOrders <=> Acceptable(o)
    <3>1. TextOf[o] \in Texts /\ (o \in ValidOrders <=> IsValid(TextOf[o]))
      BY NumberedAssumption
    <3>2. IsValid(TextOf[o]) => Parses(TextOf[o])
      BY DEF IsValid
    <3>3. CASE ~Parses(TextOf[o])
      BY <3>1, <3>2, <3>3 DEF Acceptable
    <3>4. CASE Parses(TextOf[o]) /\ IsMinus(TextOf[o])
      BY <3>1, <3>4, MinusText DEF Acceptable
    <3>5. CASE Parses(TextOf[o]) /\ ~IsMinus(TextOf[o])
      BY <3>1, <3>5, CheckedText DEF Acceptable, PassesLuhn
    <3> QED BY <3>3, <3>4, <3>5
  <2>2. \A o \in Orders : Exists(o) => o \in ValidOrders
    BY <1>1 DEF ReadInv, TablesInv, OrdersInv
  <2>3. \A r \in Uploads : upload[r].order \in Orders
                           /\ (upload[r].resp = 422 => upload[r].order \notin ValidOrders)
    BY <1>1 DEF ReadInv, TablesInv, OrdersInv, PointsTypeOK, OrderTypeOK, UploadTypeOK
  <2> QED BY <2>1, <2>2, <2>3 DEF NumbersAreChecked
<1> QED BY <1>1, ReadInvariant, PTL

\* Who has been told that a number is accepted finds it in every list of orders.
THEOREM AcceptedListed == QueriesSpec => AcceptedAreListed
<1> DEFINE A == \A g \in Reads, r \in Uploads :
                   GetsList(g, "orders", upload[r].user) /\ upload[r].resp \in {200, 202} =>
                       \E x \in read'[g].body : x.number = upload[r].order
<1>1. ASSUME ReadInv, QueriesNext, NEW g \in Reads, NEW r \in Uploads,
             GetsList(g, "orders", upload[r].user), upload[r].resp \in {200, 202}
      PROVE  \E x \in read'[g].body : x.number = upload[r].order
  <2>1. upload[r].order \in OrdersOf(upload[r].user) /\ upload[r].user \in Users
    BY <1>1 DEF ReadInv, TablesInv, OrdersInv, AnswersStayTrue, OrdersOf, OwnOrder,
                PointsTypeOK, OrderTypeOK, UploadTypeOK
  <2>2. read \in [Reads -> {read[h] : h \in Reads}]
    BY <1>1 DEF ReadInv, ReadTypeOK
  <2>3. ASSUME NEW u, NEW what, NEW code, NEW body, NEW h \in Reads,
               ReadAnswer(h, u, what, code, body)
        PROVE  h = g /\ read'[g] = [what |-> what, user |-> u, code |-> code, body |-> body]
    BY <1>1, <2>2, <2>3 DEF ReadAnswer, GetsList
  <2>4. PICK h \in Reads : ReadStep(h) \/ ReadFault(h)
    BY <1>1 DEF QueriesNext, GetsList
  <2>5. /\ read'[g].what = "orders" /\ read'[g].user = upload[r].user
        /\ read'[g].code # 500
    BY <1>1 DEF GetsList
  <2>6. ASSUME NEW u, NEW what, NEW code, NEW body, ReadAnswer(h, u, what, code, body)
        PROVE  what = "orders" /\ u = upload[r].user /\ code # 500 /\ read'[g].body = body
    <3>1. read'[g] = [what |-> what, user |-> u, code |-> code, body |-> body]
      BY <2>3, <2>6, Zenon
    <3>2. /\ read'[g].what = what /\ read'[g].user = u
          /\ read'[g].code = code /\ read'[g].body = body
      BY <3>1
    <3> QED BY <2>5, <3>2, Zenon
  <2>7. read'[g].body = {OrderToAPI(o) : o \in OrdersOf(upload[r].user)}
    <3>1. CASE GetOrders(h)
      <4>1. PICK u \in Users :
                ReadAnswer(h, u, "orders", 200, {OrderToAPI(o) : o \in OrdersOf(u)})
        BY <3>1 DEF GetOrders, OrdersByUser
      <4>2. u = upload[r].user /\ read'[g].body = {OrderToAPI(o) : o \in OrdersOf(u)}
        BY <2>6, <4>1
      <4> QED BY <4>2
    <3>2. CASE GetBalance(h)
      <4>1. \E u, body : ReadAnswer(h, u, "balance", 200, body)
        BY <3>2 DEF GetBalance
      <4> QED BY <2>6, <4>1
    <3>3. CASE GetWithdrawals(h) \/ GetWithdrawalsBrokenOff(h)
      <4>1. \E u, code, body : ReadAnswer(h, u, "withdrawals", code, body)
        BY <3>3 DEF GetWithdrawals, GetWithdrawalsBrokenOff, WithdrawalsAnswer
      <4> QED BY <2>6, <4>1
    <3>4. CASE ReadFails(h)
      <4>1. \E u, what, body : ReadAnswer(h, u, what, 500, body)
        BY <3>4 DEF ReadFails
      <4> QED BY <2>6, <4>1
    <3> QED BY <2>4, <3>1, <3>2, <3>3, <3>4 DEF ReadStep, ReadFault
  <2>8. OrderToAPI(upload[r].order) \in read'[g].body
    BY <2>1, <2>7
  <2> QED BY <2>8 DEF OrderToAPI
<1>2. ReadInv /\ [QueriesNext]_queryVars => [A]_queryVars
  BY <1>1
<1> QED BY <1>2, ReadInvariant, PTL DEF QueriesSpec, AcceptedAreListed
=============================================================================
