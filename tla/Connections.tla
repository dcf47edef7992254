------------------------------- MODULE Connections -------------------------------
(***************************************************************************)
(* The connection pool and what runs on it: the statements of the           *)
(* repositories and the transactions of RunInTx (internal/db/tx.go).        *)
(*                                                                          *)
(* A client is a goroutine that talks to the database: the one of a request *)
(* or the one of the task.  It has a list of calls to make, and makes them  *)
(* one after the other until one of them ends it:                           *)
(*   "Query"     a statement outside of a transaction; it has a timeout     *)
(*   "Check"     the same, and the caller may refuse for what it returns    *)
(*   "Begin"     BeginTx, which waits for a connection without a timeout    *)
(*   "TxQuery", "TxCheck"   a statement of RunInTx's callback               *)
(*   "TxLogged"  one whose error the callback only logs (UpdateAll)         *)
(*   "Commit"    the end of RunInTx when the callback returned nil          *)
(*                                                                          *)
(* pgxpool is external: it owns Conns and serves who waits for one in the   *)
(* order of arrival.                                                        *)
(***************************************************************************)
EXTENDS Naturals, Sequences

CONSTANTS Clients,      \* the goroutines that use the database
          Background,   \* those that run with context.Background()
          Conns,        \* the connections of the pool
          NoConn

ASSUME ConnectionsAssumption == Background \subseteq Clients /\ NoConn \notin Conns

VARIABLES
    todo,      \* client -> the calls it still has to make
    tx,        \* client -> the connection of the transaction in its context
    using,     \* client -> the connection it took from the pool for one call
    queue,     \* the clients that wait for a connection
    commit,    \* client -> what it knows of its transaction's commit
    result     \* client -> how its calls ended, or "none"

connVars == <<todo, tx, using, queue, commit, result>>

Calls == {"Query", "Check", "Begin", "TxQuery", "TxCheck", "TxLogged", "Commit"}

ConnInit ==
    /\ todo = [c \in Clients |-> <<>>]
    /\ tx = [c \in Clients |-> NoConn]
    /\ using = [c \in Clients |-> NoConn]
    /\ queue = <<>>
    /\ commit = [c \in Clients |-> "no"]
    /\ result = [c \in Clients |-> "none"]

-----------------------------------------------------------------------------
(* What the actions are made of.                                            *)

Idle(c) == todo[c] = <<>>

Calling(c, calls) == ~Idle(c) /\ Head(todo[c]) \in calls

Waits(c) == \E i \in DOMAIN queue : queue[i] = c

InUse(k) == \E c \in Clients : k \in {tx[c], using[c]}

\* Mutant: the repositories take the pool whatever the context carries.
UsesPoolAlways(c) == TRUE

\* TxConnWrapper.Connection: the transaction of the context, or the pool.
UsesPool(c) == tx[c] = NoConn

Needs(c) == Calling(c, {"Begin"}) \/ (~Calling(c, {"Commit"}) /\ ~Idle(c) /\ UsesPool(c))

Ready(c) == Needs(c) => using[c] # NoConn

\* A client begins its calls; what it did before is over.
Start(c, plan) ==
    /\ todo' = [todo EXCEPT ![c] = plan]
    /\ commit' = [commit EXCEPT ![c] = "no"]
    /\ result' = [result EXCEPT ![c] = "none"]
    /\ UNCHANGED <<tx, using, queue>>

\* The call returned nil: on to the next one, or done.
GoOn(c) ==
    /\ todo' = [todo EXCEPT ![c] = Tail(@)]
    /\ result' = [result EXCEPT ![c] = IF Len(todo[c]) = 1 THEN "ok" ELSE "none"]

\* The client makes no more calls.
End(c, outcome) ==
    /\ todo' = [todo EXCEPT ![c] = <<>>]
    /\ result' = [result EXCEPT ![c] = outcome]

\* Mutant: the rows of a statement that failed are not closed.
ReleaseUnlessError(c) ==
    using' = [using EXCEPT ![c] = IF result'[c] = "error" THEN @ ELSE NoConn]

Release(c) == using' = [using EXCEPT ![c] = NoConn]

\* Mutant: the rollback is not deferred, and a panic skips it.
RollbackUnlessPanic(c) ==
    tx' = [tx EXCEPT ![c] = IF result'[c] = "panic" THEN @ ELSE NoConn]

\* The deferred Rollback of RunInTx: also after a commit, where it answers
\* ErrTxClosed, and when the callback panics.
Rollback(c) == tx' = [tx EXCEPT ![c] = NoConn]

\* Mutant: with a named result, the deferred function's error is returned.
ReturnedNamed(err, rollbackErr) == IF rollbackErr = "nil" THEN err ELSE "error"

\* Mutant: the deferred function's error replaces the result.
ReturnedRollback(err, rollbackErr) == IF rollbackErr = "nil" THEN err ELSE rollbackErr

\* What RunInTx returns.  Its result has no name, so what the deferred
\* function joins to err is not returned.
Returned(err, rollbackErr) == err

-----------------------------------------------------------------------------
(* Waiting for a connection.                                                *)

Ask(c) ==
    /\ Needs(c)
    /\ using[c] = NoConn
    /\ ~Waits(c)
    /\ queue' = Append(queue, c)
    /\ UNCHANGED <<todo, tx, using, commit, result>>

Acquire(c) ==
    /\ queue # <<>> /\ Head(queue) = c
    /\ \E k \in Conns :
        /\ ~InUse(k)
        /\ using' = [using EXCEPT ![c] = k]
    /\ queue' = Tail(queue)
    /\ UNCHANGED <<todo, tx, commit, result>>

\* RequestTimeout passes, or the request's context is cancelled because the
\* peer is gone.  Begin of the task has neither.
GiveUp(c) ==
    /\ Waits(c)
    /\ Calling(c, {"Begin"}) => c \notin Background
    /\ \E i \in DOMAIN queue :
        queue[i] = c /\ queue' = SubSeq(queue, 1, i - 1) \o SubSeq(queue, i + 1, Len(queue))
    /\ End(c, "error")
    /\ Rollback(c)
    /\ UNCHANGED <<using, commit>>

-----------------------------------------------------------------------------
(* Statements outside of a transaction, and BeginTx.                        *)

QueryDone(c) ==
    /\ Calling(c, {"Query", "Check"}) /\ Ready(c)
    /\ \/ GoOn(c)
       \/ Calling(c, {"Check"}) /\ End(c, "refused")
    /\ Release(c)
    /\ UNCHANGED <<tx, queue, commit>>

QueryFails(c) ==
    /\ Calling(c, {"Query", "Check"}) /\ Ready(c)
    /\ End(c, "error")
    /\ Release(c)
    /\ UNCHANGED <<tx, queue, commit>>

BeginDone(c) ==
    /\ Calling(c, {"Begin"}) /\ Ready(c)
    /\ tx' = [tx EXCEPT ![c] = using[c]]
    /\ GoOn(c)
    /\ Release(c)
    /\ UNCHANGED <<queue, commit>>

BeginFails(c) ==
    /\ Calling(c, {"Begin"}) /\ Ready(c)
    /\ End(c, "error")
    /\ Release(c)
    /\ UNCHANGED <<tx, queue, commit>>

-----------------------------------------------------------------------------
(* RunInTx once the transaction is open.                                    *)

TxQueryDone(c) ==
    /\ Calling(c, {"TxQuery", "TxCheck", "TxLogged"}) /\ Ready(c)
    /\ GoOn(c)
    /\ Release(c)
    /\ UNCHANGED <<tx, queue, commit>>

\* The error is logged, there is nothing to do for what would have been
\* returned, and the callback ends with nil.
LoggedFails(c) ==
    /\ Calling(c, {"TxLogged"}) /\ Ready(c)
    /\ todo' = [todo EXCEPT ![c] = <<"Commit">>]
    /\ Release(c)
    /\ UNCHANGED <<tx, queue, commit, result>>

\* The callback returns an error: the statement's or its own.
CallbackFails(c) ==
    /\ Calling(c, {"TxQuery", "TxCheck"}) /\ Ready(c)
    /\ \/ End(c, Returned("error", "nil"))
       \/ Calling(c, {"TxCheck"}) /\ End(c, Returned("refused", "nil"))
    /\ Release(c)
    /\ Rollback(c)
    /\ UNCHANGED <<queue, commit>>

CommitDone(c) ==
    /\ Calling(c, {"Commit"})
    /\ commit' = [commit EXCEPT ![c] = "confirmed"]
    /\ End(c, Returned("ok", "ErrTxClosed"))
    /\ Rollback(c)
    /\ UNCHANGED <<using, queue>>

\* The commit fails, or its answer is lost.
CommitFails(c) ==
    /\ Calling(c, {"Commit"})
    /\ \E known \in {"no", "unconfirmed"} : commit' = [commit EXCEPT ![c] = known]
    /\ End(c, Returned("error", "ErrTxClosed"))
    /\ Rollback(c)
    /\ UNCHANGED <<using, queue>>

\* The goroutine of a request panics between two calls: the deferred functions
\* run.  Outside of a request nothing recovers and the process is gone.
Panics(c) ==
    /\ c \notin Background
    /\ ~Idle(c) /\ ~Waits(c) /\ using[c] = NoConn
    /\ End(c, "panic")
    /\ Rollback(c)
    /\ UNCHANGED <<using, queue, commit>>

-----------------------------------------------------------------------------
Answers(c) == QueryDone(c) \/ BeginDone(c) \/ TxQueryDone(c) \/ CommitDone(c)

StatementFails(c) ==
    \/ QueryFails(c) \/ BeginFails(c)
    \/ LoggedFails(c) \/ CallbackFails(c) \/ CommitFails(c)

Fails(c) == StatementFails(c) \/ GiveUp(c) \/ Panics(c)

ConnStep(c) == Ask(c) \/ Acquire(c) \/ Answers(c)

-----------------------------------------------------------------------------
(* Properties                                                               *)

ConnTypeOK ==
    /\ todo \in [Clients -> Seq(Calls)]
    /\ tx \in [Clients -> Conns \cup {NoConn}]
    /\ using \in [Clients -> Conns \cup {NoConn}]
    /\ queue \in Seq(Clients)
    /\ commit \in [Clients -> {"no", "unconfirmed", "confirmed"}]
    /\ result \in [Clients -> {"none", "ok", "refused", "error", "panic"}]

\* A connection is in one pair of hands.
Exclusive ==
    \A c, d \in Clients :
        /\ tx[c] # NoConn => tx[c] # using[d]
        /\ c # d /\ tx[c] # NoConn => tx[c] # tx[d]
        /\ c # d /\ using[c] # NoConn => using[c] # using[d]

\* Who makes no calls keeps no connection and no place in the queue.
NothingKept ==
    \A c \in Clients : Idle(c) => tx[c] = NoConn /\ using[c] = NoConn /\ ~Waits(c)

\* No connection is shared and none is lost: it goes back to the pool however
\* the calls end, by an answer, an error, a timeout, a rollback or a panic
\* (RunInTx, tx.go 42-54).
ConnectionsAccounted == Exclusive /\ NothingKept

\* Nobody waits for a connection while holding one, so the pool cannot run
\* into a deadlock however small it is: the statements of a transaction run
\* on its own connection (TxConnWrapper.Connection).
NoHoldAndWait ==
    \A c \in Clients : Waits(c) => tx[c] = NoConn /\ using[c] = NoConn
=============================================================================
