# A TLA+ model of the loyalty service

The program is "Gophermart" (`cmd/gophermart`): an HTTP service in Go on PostgreSQL.  Users
upload order numbers; an external *accrual service* decides how many points an order earns; a
background task polls it and credits the points; users spend points on new orders.  This
directory models what happens to orders, balances and withdrawals when requests, the task,
failures and crashes interleave, what a request passes on its way to the database and back, the
connections everybody shares, and the goroutines of the process from start to shutdown.

Run `tlc -config X.cfg M` to check a configuration, `tlapm M.tla` for the eight modules whose name ends
in `Proofs` to check the proofs.

## 1. Inventory

| component (source under `src/`) | state | operations | interacts with |
|---|---|---|---|
| tables (`internal/db/schema.sql`, `postgre.go`) | rows of `users`, `balance`, `orders`, `withdrawals`; row locks | the statements below | every repository |
| transactions (`internal/db/tx.go`) | the open transaction, carried in the context | `RunInTx`: begin, callback, commit, deferred rollback | services |
| connection pool (`postgre.go`; pgxpool is external) | who holds a connection, who waits for one | acquire, release | transactions, repositories |
| repositories (`internal/repository/*`) | none | one SQL statement each, with a timeout of one second | services |
| upload (`internal/handler/order`, `internal/service/order/service.go`) | a running request | `CreateOrderHandler` → `Create`: lookup, insert | table `orders` |
| withdraw (`internal/handler/balance`, `internal/service/withdraw`) | a running request, its transaction | `BalanceWithdrawHandler` → `Create`, `MakeWithdraw` | `orders`, `balance`, `withdrawals` |
| actualize task (`internal/service/order/task`, `hydrator.go`, `StatusGetterService`) | the batch of a cycle, its transaction | tick, read open orders, poll, hydrate, write, credit | tables, worker pool |
| worker pool (`internal/accrual/workerpool.go`, `client.go`) | channels `ch`, `respCh`, `done`; worker, feeder and `Run` goroutines | `GetOrders`, `Run`, `worker` | task, accrual service |
| accrual service (external, `cmd/accrual`) | the state of each order | registers, calculates, decides | the pool asks it |
| process (`cmd/gophermart/main.go`) | three goroutines it waits for, one it does not | start, signal, server failure, shutdown, crash | all |
| registration and login (`internal/service/user`, `internal/handler/user`) | rows of `users`, `balance` | two inserts in one transaction; password check | tables |
| generated API (`internal/api`) | – | routes, wrappers that demand a token | middleware, handlers |
| middleware and tokens (`internal/middleware`, `internal/security`) | a token, the identity in the context | issue, verify, recover a panic | all handlers |
| Luhn check (`internal/entity/order.go`) | none | `Number.IsValid` | upload, withdraw |
| balance and list queries (GET handlers, `internal/service/balance`, the mappers) | none | one SELECT, conversion of the amounts | tables |
| configuration, logging, response writer | none | – | – |

What is hard in this system:

* **Interleaving.** Every request is a goroutine. `Create` is a lookup and an insert without a
  transaction; `MakeWithdraw` reads the balance with a plain SELECT, decides, and updates later.
* **Stale copies.** The task reads rows, polls for seconds and then writes them back.
* **Atomicity.** Status and credit, balance and withdrawal row, must change together.
* **Partial failure and timeouts.** Each statement has a timeout of one second, which also ends
  waiting for a row lock; an insert or a commit may take effect while its result is lost.
* **Crash and restart.** The process may die between any two statements; the task starts over.
* **Connections.** Requests and the task compete for the pool; a connection has to come back however
  a call ends, a panic included, and nobody may wait for one while holding another.
* **Reads.** A GET sees whatever is committed at that moment, and its result may break off.
* **Order of answers.** Workers poll concurrently; results are counted, not matched.
* **Shutdown.** Workers, feeder, `GetOrders`, `Run`, the task, the server stop in no given order.

What makes each part correct: an accepted number stays its user's for good; an answer tells the
truth about the tables; a withdrawal is in both tables or in none; no transaction stays open; an
order is credited exactly once and only with what was decided; points are conserved; calls of the
pool return, with results of that call only; the process stops when told to, without losing work.

The hazards, each with its line and the properties that watch it, are listed in `PROJECT.json`.

## 2. The modules

```
LoyaltyStore ── OrderService ── WithdrawService ──┬── Queries ── NumberedQueries ──────┐
      └──────── ActualizeTask ────────────────────┴── Loyalty ── CreditProofs         │
                                                         │        └── RequestProofs    │
                                                         │               └── LedgerProofs ── ReadProofs
                                                         └ implements Ledger    │
Number ─┬─ NumberProofs ────────────────────────────────────────────────────────┘
        └─ NumberedQueries
WorkerPool ── Lifecycle ── PoolProofs              Connections ── Gateway ── ServingProofs
   └ implements Poll
Registration ── RegistrationProofs
```

**LoyaltyStore** – `orders`, `balance`, `withdrawals` as committed, and what READ COMMITTED adds: a
balance row has a `newest` version, written by the transaction in `lock`. `UpdateBalance` waits for
the lock and computes from `newest`, as an `UPDATE … SET current = current + $1` does; a plain
SELECT reads `balance`. `CommitBalances` and `RollbackBalances` are the two ends of `RunInTx`. Rows
of `orders` and `withdrawals` written in a transaction are applied at its commit: nobody else can
see or touch them before. Inserting an order is a single statement with a unique index.
Money is an integer number of hundredths; `ToCents` is the handlers' `int64(math.Round(x*100))` on decimals
counted in thousandths, ties excluded (there the binary float decides). Amounts asked for may be negative:
nothing in the code checks their sign.

**OrderService** – one request has `pc` "Order" (validity check and lookup), "Create" (insert),
"done". `LookupOutcome` is `Service.Create` up to the insert and names the Go errors;
`UploadCode` is the handler's switch. `UploadInsertDuplicate` is the unique violation;
`UploadFails` and `UploadInsertUnconfirmed` are a statement that fails and one whose result is lost.

**WithdrawService** – `pc` names the next call, one action per statement of the handler, of
`Create` and of `MakeWithdraw`. `WBalance` reads the committed row, whoever holds its lock; `seen` is the
local `bl.Current`, which is stale from then on. `WLockTimeout` is the timeout of the update while another transaction
holds the row; `WFails` any other error; `WCommitUnconfirmed` a commit whose result is lost.
The module composes both handlers (`PointsNext`) on users who already have points;
`PointsProgress` is the same on a database that answers every statement in time.

**Queries** – the three GET requests beside those handlers. A read is one action: a SELECT sees the
rows committed at one moment and changes nothing, so its user and kind are chosen when it runs.
What may go wrong is in the rest: `GetWithdrawalsBrokenOff` is a result that ends in the middle, where
`OrdersByUser` looks at `rows.Err` and `GetWithdrawals` does not. `FromCents` is the division by 100.

**Number** – `Number.IsValid`: a text is a sequence of characters, of which `strconv.Atoi` tells digits
and signs from the rest; the integer has a width (`IntMax`); `Quo` and `Rem` truncate as Go does;
`LuhnSum` is the loop of `checksum`. `LuhnHolds` is the definition of the check, on digits.
A text of digits that fits into an int passes exactly if the Luhn check holds of it (`DigitsFollowLuhn`), and no
single wrong digit and no swap of neighbours but 09 and 90 goes unnoticed (`TyposAreCaught`): TLC evaluates both over
all texts of up to three characters (`MCLuhnAssumption`), and both are theorems for all texts.

**NumberedQueries** – gives the order numbers of `Queries` their texts (`TextOf`): the `ValidOrders` of the handlers are
those whose text `IsValid` accepts. `NumbersAreChecked` is what the code does to the rows and the answers: what is stored is `Acceptable`, and what is refused
with 422 is not. A number with a minus sign, for which the loop of `checksum` is not entered, is acceptable if it ends in 0;
any other if it passes the Luhn check.

**ActualizeTask** – `taskPc` names the next call of `actualize`. `OrdersByStatus` copies the open
rows into `batch`; `GetOrder(o)` records what the accrual service answers about `o` at that
moment; `ReceiveStatus` is `GetOrders`' decision (`Usable`: one error, or no entity, and all answers are
dropped), `Hydrate`, `StatusChanged` and the selection; then `UpdateAll`, one `CreditOrder` per row
with an amount, and `CommitTask`. An error of `UpdateAll` is only logged, and the callback goes on to the commit
with nothing to credit (`UpdateAllFails`); the lock wait, every other error and the rollback are `TaskFails`.
`ServiceDecides` is the external service: it only moves forward, and INVALID and PROCESSED are final
(`SPECIFICATION.md`). `credits` is a history variable: how often an order's credit was committed.

**Loyalty** – all of it on one database, with `Crash`: requests get no answer, the database aborts
their transactions, the task starts over. After everything is decided and answered nothing is left
to do (`Quiet`).

**Ledger** – what the service promises its users, in three actions: a number goes to the first user who
claims it, claimed orders earn points once, a user pays for an order of the user's own. `Loyalty`
implements it under the mapping `OwnerOf`, `CreditOf`, `withdrawals`: the task's commit is one `Grant`,
the commit of a withdrawal a `Pay`, an insert a `Claim`, and everything else, faults and crashes
included, is a stutter.

**WorkerPool** – the channels and goroutines of `workerpool.go` around the task's loop. A result is
the job it answers: the call and the number. The select of a worker and of the feeder, `Run`'s
closes in their order (done, respCh, ch) and the panic of a send on a closed channel are steps of
their own. `Pools` are the sets of workers that may have been started, none (a rate limit of zero)
included. **Poll** is what the task relies on: each number of a call gets one answer, and only a
call with all answers is complete; `ImplementsPoll` maps a running call to it, so `ActualizeTask`'s
`GetOrder` and `ReceiveStatus` are written against what the pool has been shown to do.
**Lifecycle** adds main: the server, the goroutine that calls `Shutdown`, `wg.Wait()`. `SignalledSpec` is
the process of a server that does not fail by itself, so that only a signal stops it.

**Registration** – table `users`, the keys of table `balance`, and `holder`, the logins in the unique
index whose transaction is open: another insert of such a login waits, times out, or goes on when
that transaction is over. A user's `uuid` is the request that inserted it. Texts are raw, and both
services trim them with `TrimSpace`. `issued` is the set of users a token was signed for; the
middleware trusts a token without looking into the tables, which is why `TokensNameUsers` matters:
it is what lets the other modules start with users that have balance rows.

**Connections** – every goroutine that talks to the database has a list of calls to make (`todo`):
statements, `BeginTx`, statements of the transaction (a "TxLogged" is one whose error the callback only logs), the commit. `UsesPool` is
`TxConnWrapper.Connection`: the transaction of the context or the pool. A call that needs the pool
queues for a connection, first come, first served, as pgxpool does; the wait of a statement ends with
its timeout and that of a request's `BeginTx` when the peer goes away (`GiveUp`), the task's never.
`Rollback` is the deferred function of `RunInTx`, also after a commit and on a panic; `Returned` is
what `RunInTx` returns, whose result has no name, so that the deferred function's error is dropped.
**Gateway** – the router, the wrappers of `server.gen.go` (`NeedsAuth`), `SecurityMiddleware`
(`Secure`), `WithLogging`'s reading of the body (`Handle`), the handlers as the calls they make
(`Plans`) and the codes they answer (`UserCodes`, `OrderCodes`, `BalanceCodes`: one operator per handler package; a
token that cannot be signed is a 500 after the service has succeeded), `RecoverWrapMiddleware` (a panic is
answered 500, one after the last call, `HandlerPanics`, included), and the task
as one more client, with the credits of a cycle as `TaskPlans`: none or two. What the statements find is left open here: it is the matter of the other
modules; a "Check" may refuse. Places for requests are used again and again.

`MCQueries`, `MCLoyalty`, `MCLifecycle`, `MCRegistration`, `MCServing` hold the constants for TLC. Definitions that start
with "Mutant:" are wrong versions of the definition below them, which `PROJECT.json` uses to show
that the property in question can fail; no specification uses them.

## 3. The runs

| run (cfg) | what is in it | what it shows |
|---|---|---|
| points (`MCPoints`) | 2 users with 2 points each, 2 uploads, 2 withdrawals of 2, 3 or −1 hundredths, 2 numbers, one valid and one with a minus sign that is not, a read, all faults; all texts of up to 3 characters | `AnswersStayTrue`, `AcceptedOnce`, `OwnerNeverChanges`, `AnswerMatchesRows`, `WithdrawnMatchesRows`, `OverdraftTakesTwo`, `ReadsStayTrue`, `AcceptedAreListed`, `NumbersAreChecked`; on start-up, the assumption `MCLuhnAssumption` |
| credits (`MCCredits`) | 2 users, 2 orders brought by an upload and a withdrawal of 1 or −1 hundredths, the task, an `UpdateAll` that fails, every conforming reply, all faults and crashes | `CreditedExactlyOnce` and the invariants it needs, `RowsFollowService`, `FinalRowsNeverChange`, `PointsConserved`, `LocksAreLive`, `ImplementsLedger` |
| credit_liveness (`MCCreditLiveness`) | 2 users with a hundredth each, who each withdraw for an order of their own, the task that credits both users, all faults and crashes, fairness | `DecidedIsCredited`, `EveryRequestEnds` |
| pool (`MCLifecycle`) | 0 to 2 workers, 2 calls of 3 numbers, a request, a signal or server failure at any time | `ResultsMatchCall`, `IdleBetweenCalls`, `PanicsOnlyWhenCutOff`, `ImplementsPoll`, `CallsReturn`, `StopEndsProcess` |
| serving (`MCServing`) | 2 requests of any operation, route and token, over and over, the task, one connection, all faults and panics, fairness | `ConnectionsAccounted`, `NoHoldAndWait`, `OnlyBearersAct`, `CodesTellOutcome`, `EveryoneAnswered` |
| registration (`MCRegistration`) | 2 registrations, a login, texts that differ by space only, one other and the empty one, faults and crashes | `OneUserPerLogin`, `UsersHaveAccounts`, `TokensNameUsers`, `RegisteredCanLogin`, `LoginNeedsPassword` |
| withdraw_overdraft | as points, without faults and uploads | `NeverOverdrawn` fails |
| upload_duplicate_500 | as points, without faults and withdrawals | `NoInternalError` fails |
| partial_list | as points, one withdrawal and a read | `PaymentsAreListed` fails |
| poisoned_batch | one order about which polls always fail | `DecidedIsCredited` fails |
| pool_panic | 1 worker, a call of 3 numbers | `NeverPanics` fails |
| cut_off_request (`MCGraceful`) | 1 worker, one request, a signal | `GracefulShutdown` fails |

**Bounds.** Two requests are what a race between two statements needs; two users and two numbers
let every pair of requests agree or differ in each. The sums are negative, at and above the opening
balance, in decimals that round down and up. The task goes through any number of cycles, since
`service` has four ranks per order and faults are not counted. Two orders are enough for a batch
with one usable and one unusable answer, and two orders of two users for the task to hold one
row while it waits for another that a withdrawal has locked, with the other withdrawal behind it: credit_liveness has both, with the
replies PROCESSING and PROCESSED. Each user withdraws for an order of the user's own there (`OrdersOfTheirOwn`);
withdrawals of one user, and requests for one number, compete in points. In the pool a batch of three with two workers does not fit into the channel alone, one of
three with one worker not even into the channel and the worker, so the feeder waits; two calls are
what a result needs to leak. `MaxCalls` bounds the calls of the pool; no other counter grows. One connection is the
smallest pool and the one where every wait can happen: with it and three clients, one holds, one
waits first and one behind. `IntMax` is 499 and a text has up to three characters, so that
numbers below, at and above the width, signs and leading zeros all occur; the Luhn sum treats every
second digit alike, and two digits that are doubled or not and one neighbour are in three. Symmetry is used in the
three runs (points, credits, registration) on the users, orders or requests that are interchangeable in each, never with a liveness property.
Deadlock is checked everywhere; the specifications stutter explicitly where the program may
rest (`RequestsTerminated`, `RegistrationDone`, `Quiet`, `Gone`); the server and the task of `Gateway` never rest.

**Fairness.** Weak fairness of each request, of the task, of each goroutine of the pool: the Go
scheduler runs every goroutine that can go on, statements and polls end by their timeouts, the
ticker ticks. Not assumed: that clients send anything, that the accrual service answers usefully
or decides, that a signal arrives. `DecidedIsCredited` has the hypothesis `FaultsCease`: from
some moment on the task's calls succeed and the process does not die – the code retries for ever, so
nothing less could make it end; requests may go on failing. That leaves out a task whose credits time out at
every tick because withdrawals hold the rows: nothing in the code keeps that from going on. `EveryRequestEnds` has no hypothesis:
`WLockTimeout` is part of the withdrawal's own steps, because the code's timeout is what ends its wait.
`EveryoneAnswered` assumes of each request and of the task that it goes on when it can: it asks for a
connection, takes the free one when it is first in the queue, and its statement is answered or fails, by
its timeout at the latest. Neither a timeout in the queue nor a peer that goes away is assumed, so
it shows that waiting for a connection ends by itself: whoever holds one needs no other. That the
pool serves in the order of arrival is taken from pgxpool; a statement of the pool that
waits for a row lock is inside its timeout.

## 4. Where the code and its documents disagree

Each of these is a run with a counterexample; the quotes are in `PROJECT.json`.

1. *withdraw_overdraft* – two withdrawals of one user read the same balance, both pass the check and
   the balance becomes negative. The withdraw tests call the read `BalanceForUpdate`; it is a
   plain SELECT. What does hold is `OverdraftTakesTwo`: one request alone never overdraws.
2. *upload_duplicate_500* – of two concurrent uploads of a number the later insert is answered 500
   and not 200 or 409. The data stay right (`AcceptedOnce`).
3. *partial_list* – the list of withdrawals is answered although its result broke off: what had arrived
   with 200, or nothing with 204 (`SPECIFICATION.md:302`: there is none). `OrdersByUser` has the check
   that is missing, and for it `AcceptedAreListed` holds.
4. *poisoned_batch* – one order whose poll always fails keeps all others from being credited.
5. *pool_panic* – at shutdown `Run` closes `ch` under a feeder that waits for room. What does hold is
   `PanicsOnlyWhenCutOff`: only a call that misses answers is struck.
6. *cut_off_request* – main does not wait for `Shutdown`, only for `ListenAndServe`. A request runs, a signal
   arrives, `Shutdown` is called and waits for the request; `ListenAndServe` has returned, the pool and the task stop, and main
   returns under the request.

Met while modelling, visible in the actions, without a run: a withdrawal with an invalid number is
answered 500 (`WLookup`) where `SPECIFICATION.md:266` has 422; a number can pay for several withdrawals,
since an existing order of the user is accepted (`WLookup`; `SPECIFICATION.md:243` speaks of a new order);
a withdrawal refused with 402 leaves its order behind
(`AnswerMatchesRows` says so); a withdrawal of a negative sum adds to the balance (`Delta`); an amount that comes with a status other than
PROCESSED is credited (`ToCredit` looks at the amount only; `SPECIFICATION.md:343`); every error of a
registration, a taken login and a lost commit included, is answered 400 (`RegisterConflict`;
`SPECIFICATION.md:94` has 409), and an empty login or password is answered 500 at the login (`LoginCheck`); an order without an answer
(204) in a batch with others keeps the empty `StatusPrev`, counts as changed and is rewritten as it is, where the
comment at `actualize.go:87` has changed orders only (`Changed`); a user without orders gets 200 with an empty
list (`GetOrders`; `SPECIFICATION.md:202` has 204); a token that is not ours is answered 500 (`Secure`;
`SPECIFICATION.md:203` has 401). The number is "a sequence of digits of any length"
(`SPECIFICATION.md:127`): signs and leading zeros pass the check, so that `18`, `+18` and `018` are three orders, of a number with a minus sign
only the last digit is looked at, so that `-10` is accepted although 10 is not (`Acceptable`), and a number that does
not fit into 64 bits is refused with 422 (`Parses`); one of more than 20 characters would not fit into its column.

## 5. What is proved

With TLAPS, for every number of users, orders, requests, reads, connections, workers and calls
and every set of replies, from the constants' assumptions: `StoreAssumption` (the sets are what the tables hold;
Null is in none of them), `SumsAssumption` (the sums asked for are decimals of either sign without ties),
`ReplyAssumption` (so are the amounts of the accrual service, and they are not negative), `TextAssumption`, `ConnectionsAssumption`, `GatewayAssumption`, `PoolAssumption` (finitely many workers;
the numbers of a call differ: they are the keys of rows), `NumberAssumption` (the bounds are natural numbers) and
`NumberedAssumption` (`ValidOrders` is what `IsValid` accepts). Every safety property of a passing
run is a theorem about the specification that run checks, those about credits for an accrual service that conforms
to its description (`ConformingReplies`, below).

**The task** (`CreditProofs`).

* `TypeCorrect` – `Spec => []TypeOK`. The action lemmas are one per handler and task step;
  `TaskStepType` needs that `ToCents` of a natural number is natural: an amount that was credited is not negative. Both
  columns of a balance are only integers: an overdraft and a negative sum are possible.
* `BatchAgrees` – `Spec => [](TypeOK /\ BatchInv)`. The argument why stale copies are harmless: the
  table changes in two ways only, an insert of a number that is not there and the task's commit
  (`TableSteps`), so while a cycle runs the rows it copied are still open and have the same user.
* `FinalIsFinal` and `OwnerIsFixed` – the action properties `FinalRowsNeverChange` and
  `OwnerNeverChanges`, from `BatchAgrees` and `TableSteps`; for any accrual service.
* `CreditedOnce` – under the hypothesis `ConformingReplies`: the
  external service sends amounts with PROCESSED only. `CreditedExactlyOnce` is not inductive. A
  commit adds one to the credits of the orders in `credited`, so one has to know that their rows
  are still open (`BatchInv`), hence not credited yet; that they are exactly the rows of the batch
  with an amount; and that such a row is about to become PROCESSED. `CreditInv` says so, for
  each position of the task, and is inductive together with `TypeOK` and `BatchInv`. TLC checks
  both in `credits`. Without the hypothesis the property is false: see the end of section 4.
* `RowsAreTheServices` – `RowsFollowService`, under the same hypothesis, from `FollowInv`. What travels from an answer to a row
  is followed: an answer in `answer`, a hydrated copy in `batch` and a row all say something the service has said
  (its rank only grows), and what is final there is what the service has decided.

**The requests beside the task** (`RequestProofs`).

* `NoLockLeaks` – `LocksAreLive`. The lock of a balance row is that of a withdrawal between its update and the
  end of its transaction, and the task holds the rows of the users it has credited and no other.
* `AnswersMatchRows` – `AnswerMatchesRows` with: a row is that of a request that has ended, and only requests
  that have ended have an answer (`RowsInv`); so a commit adds the first row of its request. That the number
  is stored after 200 and 402 is `OrdersInv`: the transaction begins only after the order was found.
* `AnswersAreTrue` and `OneIsAccepted` – with `OrdersInv`: what is stored, or about to be, is valid, and a
  withdrawal in its transaction has an order of its user. 422 is answered for invalid numbers only and
  rows are never removed (`TableSteps`).
* `OneNeverOverdraws` – `OverdraftTakesTwo`. A request updates the balance only after it saw enough for its amount, and
  (`SpendInv`) as long as no withdrawal that takes points is committed for its user, the committed balance is at
  least what it saw: the task and negative sums only add. So a balance that becomes negative has been taken from
  before (`Paid`), and a request that holds the row and takes from it (`Taking`) is the only one that may leave the newest
  version below the committed one.

**The books** (`LedgerProofs`).

* `ServiceImplementsLedger` – the initial states map to those of `Ledger` and each step to a `Claim`, a `Grant`, a `Pay` or a
  stutter. A commit of the task is a `Grant` because `BatchInv` says that its rows were open, hence without
  credit; a commit of a withdrawal is a `Pay` because the request has no row yet (`NoRowYet`) and its order is its user's.
* `SpentIsBooked` and `PointsAreConserved` – `WithdrawnMatchesRows` and, with `ConformingReplies`, `PointsConserved`. These are sums over sets that grow. That the sum
  of a larger set is the sum of the smaller one plus the new element does not depend on the order in which
  `SumFunction` adds (`SumAdd` in `NumberProofs`). The invariants
  then say what the open transactions have added: `SpentInv` for the withdrawals, `EarnedInv` for the
  credits of a cycle that is not committed (`Pending`).

**The numbers** (`NumberProofs`). The library's induction theorems take an operator as a parameter, which the
provers cannot instantiate. Here induction is over sets: a set of naturals that contains 0 and with every number the
next one contains all (`Steps`), because every set of naturals has a least element (`Least`), because the finite subsets
of a set are well-founded. A recursive function is shown to satisfy its equation by building, number by number, one that does.

* `SumType`, `SumEmpty`, `SumAdd` – `SumFunction` does not depend on the order in which it adds, by
  induction on the size of the set. `LedgerProofs` needs them, and so does the Luhn sum.
* `LuhnIsChecked` – `DigitsFollowLuhn` for every `IntMax` and every `MaxLength`. `checksum` takes the digits off the integer
  from the right and stops when it is 0, the definition works on the digits of the text. Along the prefixes of the
  text, dividing by 10 is taking off the last digit, leading zeros add nothing, and the sum of the loop is the sum of
  `LuhnDigits` of the prefix (`CheckIsLuhn`).
* `TyposCaught` – `TyposAreCaught`. The sums before and after a typo differ in one or two summands; doubling a digit
  is a permutation of the digits, so one wrong digit changes the last digit of the sum, and a
  swap leaves it for equal digits, 09 and 90 only. A text that no longer fits into an int is refused anyway.

**The readers** (`ReadProofs`, for `QueriesSpec`, the specification of `points`).

* `ReadsAreTrue` and `AcceptedListed` – `ReadsStayTrue` and the action property `AcceptedAreListed`. An answer is true when it is given,
  because of the invariants above, and what it is about only grows: stored orders stay their
  user's and rows of withdrawals stay (`TablesGrow`), so that the set of rows whose sum a balance showed stays a set of rows.
  The sum itself may shrink, by a negative one. `QueriesTypes` is the type invariant, and
  `ReadersDisturbNothing` and `OwnerStays` have the invariants of uploads and withdrawals and `OwnerNeverChanges` for this composition.
* `NumbersChecked` – `NumbersAreChecked`: what is stored is in `ValidOrders` and what is answered 422 is not (`OrdersInv`), and
  for a text without a minus sign `IsValid` is the Luhn check, with a plus sign and leading zeros or without (`CheckedText`), and
  with one it is that the number ends in 0 (`MinusText`).

**The worker pool and the process** (`PoolProofs`, for `LifeSpec`).

* `PoolInvariant` – the numbers of the current call are followed. The feeder sends them in order, so the channel
  holds the last ones it sent; the first `Taken` ones are divided between the results and the busy
  workers, none twice (`Places`), and there are as many as `got` and the busy workers count (`Counts`). Earlier
  calls have nothing left: their feeder has sent everything and what it sent is used up, or the pool never had
  a worker (`Feeders`, `Caller`). After a stop nothing is said of the channel but that no new call
  comes (`Stopping`).
* `PanicsCutOff` – `PanicsOnlyWhenCutOff`, the exact circumstances of *pool_panic*. `Closing` adds that `ch` is closed only after
  the workers have stopped, which takes a done context unless there are none, and that a call with all its answers has
  sent all its numbers (`NothingLeft`), so that its feeder can never be the one that panics.
* `LifeTypes`, `CallsGetTheirAnswers`, `PoolIsIdle` – `LifeTypeOK`, `ResultsMatchCall` and `IdleBetweenCalls` follow from it.
* `NoDeadlockInPool` – `CallerIsServed`, the safety side of `CallsReturn` (which is what the run checks; this one is
  only proved). While results are missing and no worker is busy, the numbers
  of the call that were not sent are with the feeder (`Places`, `Counts`), and an empty channel has room for the next if
  there is a worker; if there is none, or all have stopped, `Run` is on its way to close `respCh` (`Serving`).
* `PoolImplementsPoll` – `ImplementsPoll`: the start of a call is an `Ask`, the rendezvous on `respCh` an `AnswerNumber` (the
  worker's job is not among the results), a complete return a `Finish`, one on a closed `respCh` an `Abandon`. So what
  `CreditProofs` shows of the task's `GetOrder` and `ReceiveStatus` rests on what the pool does.

**Registration and login** (`RegistrationProofs`).

* `LoginsUnique`, `AccountsExist`, `TokensSound`, `RegistrationTypes`. `OneUserPerLogin` is not inductive: a commit adds a row, and one has to know
  that no other transaction committed that login since the insert. `RegInv` says why not: the
  request still holds the login in the index, and what is held is not taken.
* `RegisteredLogIn` and `PasswordNeeded` – with `LoginInv`: a registration that was answered 200 has its row, normalised as the login
  normalises; a login whose credentials are known finds that row and no other; and a login that
  passed the check has one.

**The server** (`ServingProofs`).

* `ServingTypes`, `NoConnectionIsLost`, `PoolCannotDeadlock`, `OnlyBearersReachTheDatabase` and
  `AnswersTellTheCommit` – the five invariants of `serving`, for any number of requests, users and
  connections. They are not inductive one by one. `IInv` adds what ties a client's
  connections to the list of its calls: a transaction is open exactly when the next call is one of a
  transaction; who waits for, or has, a connection of the pool is about to make a call that needs
  one; a list of calls is well formed (a `Begin` has its `Commit` at the end); no client is in the
  queue twice. From this a client that waits is outside of a transaction, and a client whose
  list is empty has nothing. For the answers it says what a request's commit may be at each place (`Told`).

**Only model-checked.** The five liveness properties (`DecidedIsCredited`, `EveryRequestEnds`, `EveryoneAnswered`, `CallsReturn`, `StopEndsProcess`),
which are out of the prover's reach with the fairness they need. The safety side of them is proved: what holds locks and
connections (`NoLockLeaks`, `PoolCannotDeadlock`) and that a call is never stuck (`NoDeadlockInPool`).

## 6. What is not modelled

Configuration, logging and the response writer: read once, or output only. bcrypt: a hash stands for
its password. JSON, and the order in which a list is sent. The signature of a token is a bit
(`genuine`); `session.go` is not used by main. `OrdersList`, `Update`, `UserByID` and `GetUserByID` are called by
nothing. `CreateSchema` runs once before anything else. pgxpool, PostgreSQL, net/http and gorilla/mux are
external and modelled from how the code uses them: the pool's size is the set `Conns`, and that a broken
connection is replaced is that it goes back to the pool. `Gateway` leaves open what statements find, so a
second order of calls in one request is a choice there. `main` writes its variable `err` from two
goroutines at shutdown (`main.go:121`, `:167`), a data race on a value nobody reads across them.
A
timeout is possible at any moment and takes no time. `EnoughPoints` compares integers without overflow:
the amounts of interest are far from 2^63.

## 7. Plan

Done: all modules of section 2; every safety property and both refinements of the passing runs proved, and the
check of numbers for texts of every length.

Left: the order of a list.
