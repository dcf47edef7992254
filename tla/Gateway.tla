--------------------------------- MODULE Gateway ---------------------------------
(***************************************************************************)
(* What a request passes on its way to the database: the router and the     *)
(* wrappers generated from the OpenAPI description, the middleware (tokens, *)
(* recovery, logging), the handler that main installed, and the calls the   *)
(* handler makes, on the connections it shares with the other requests and  *)
(* with the task.                                                           *)
(*                                                                          *)
(* main lists the middleware as logging, recovery, security, and the        *)
(* wrapper wraps the handler in that order: security is the outermost.      *)
(***************************************************************************)
EXTENDS Connections

CONSTANTS Requests,     \* the places for requests; a place is used again
          Users,
          Task          \* the goroutine of the actualize task

ASSUME GatewayAssumption ==
    Clients = Requests \cup {Task} /\ Task \notin Requests /\ Background = {Task}

VARIABLE request        \* place -> what is known of the request in it

vars == <<request, connVars>>

-----------------------------------------------------------------------------
(* The generated server.                                                    *)

Public == {"PostUserLogin", "PostUserRegister"}
Protected == {"GetUserBalance", "PostUserBalanceWithdraw", "GetUserOrders",
              "PostUserOrders", "GetUserWithdraws"}
Operations == Public \cup Protected

Routes == {<<"GET", "/user/balance", "GetUserBalance">>,
           <<"POST", "/user/balance/withdraw", "PostUserBalanceWithdraw">>,
           <<"POST", "/user/login", "PostUserLogin">>,
           <<"GET", "/user/orders", "GetUserOrders">>,
           <<"POST", "/user/orders", "PostUserOrders">>,
           <<"POST", "/user/register", "PostUserRegister">>,
           <<"GET", "/user/withdrawals", "GetUserWithdraws">>}

Methods == {"GET", "POST"}
Paths == {r[2] : r \in Routes} \cup {"/elsewhere"}

\* The router's answer where no operation takes the request.
Unrouted(method, path) ==
    IF \E r \in Routes : r[2] = path THEN 405 ELSE 404

\* Mutant: the wrapper of one operation does not ask for a token.
NeedsAuthButOne(op) == op \in Protected \ {"GetUserWithdraws"}

\* The wrapper puts NeedAuthScopes into the context.
NeedsAuth(op) == op \in Protected

-----------------------------------------------------------------------------
(* Tokens.                                                                  *)

\* A token's signature was made with our secret, or it was not; "none" is an
\* empty header.
NoToken == [subject |-> "none", genuine |-> FALSE]
Tokens == [subject : Users, genuine : BOOLEAN] \cup {NoToken}

\* GetIdentity: the answer is an identity, or one of two kinds of error.
GetIdentity(token) ==
    IF token = NoToken THEN "ErrMissingIdentity"
    ELSE IF ~token.genuine THEN "invalid"
    ELSE token.subject

-----------------------------------------------------------------------------
(* The handlers: the calls each makes, by what it finds, and the codes it   *)
(* answers.                                                                 *)

Plans(op) ==
    CASE op \in {"GetUserBalance", "GetUserOrders"} -> {<<"Query">>}
      [] op = "GetUserWithdraws" -> {<<"Query">>}
      [] op = "PostUserLogin" -> {<<"Check">>}
      [] op = "PostUserRegister" -> {<<"Begin", "TxQuery", "TxQuery", "Commit">>}
      [] op = "PostUserOrders" -> {<<"Check">>, <<"Query", "Query">>}
      [] op = "PostUserBalanceWithdraw" ->
            {<<"Query", "Check", "Begin", "TxCheck", "TxQuery", "TxQuery", "Commit">>,
             <<"Query", "Query", "Check", "Begin", "TxCheck", "TxQuery", "TxQuery", "Commit">>}

\* The task looks for orders, polls the accrual service for them (a poll that
\* fails is a refusal here) and begins its transaction: UpdateAll, and then a
\* statement for each order that it credits: none or, here, two.
TaskPlans == {<<"Check", "Begin", "TxLogged", "Commit">>,
              <<"Check", "Begin", "TxLogged", "TxQuery", "TxQuery", "Commit">>}

\* Answers without a call to the database.
BadRequest(op) ==
    CASE op \in {"GetUserBalance", "GetUserOrders", "GetUserWithdraws"} -> {}
      [] op = "PostUserOrders" -> {422}
      [] op = "PostUserRegister" -> {400}
      [] op \in {"PostUserLogin", "PostUserBalanceWithdraw"} -> {400, 500}

\* LoginHandler and RegisterHandler: SetIdentity may fail to sign the token
\* after the service has succeeded.
UserCodes(op, how) ==
    CASE how = "ok" -> {200, 500}
      [] how = "refused" -> {401}
      [] how = "error" -> IF op = "PostUserRegister" THEN {400} ELSE {500}

\* CreateOrderHandler and GetOrdersHandler.
OrderCodes(op, how) ==
    CASE how = "ok" -> IF op = "PostUserOrders" THEN {200, 202} ELSE {200}
      [] how = "refused" -> {409}
      [] how = "error" -> {500}

\* GetBalanceHandler, BalanceWithdrawHandler and GetWithdrawalsHandler.
BalanceCodes(op, how) ==
    CASE how = "ok" -> IF op = "GetUserWithdraws" THEN {200, 204} ELSE {200}
      [] how = "refused" -> {402, 422}
      [] how = "error" -> {500}

Codes(op, how) ==
    IF how = "panic" THEN {500}          \* RecoverWrapMiddleware
    ELSE IF op \in Public THEN UserCodes(op, how)
    ELSE IF op \in {"PostUserOrders", "GetUserOrders"} THEN OrderCodes(op, how)
    ELSE BalanceCodes(op, how)

-----------------------------------------------------------------------------
(* The actions.                                                             *)

NoRequest == [pc |-> "none", op |-> "none", token |-> NoToken,
              identity |-> "none", code |-> 0]

Init ==
    /\ request = [q \in Requests |-> NoRequest]
    /\ ConnInit

\* The request is answered before it reached the database.
Reply(q, codes) ==
    /\ \E code \in codes :
        request' = [request EXCEPT ![q] =
                      [pc |-> "answered", op |-> "none", token |-> NoToken,
                       identity |-> "none", code |-> code]]
    /\ UNCHANGED connVars

\* WithLogging reads the body, the handler decodes it and goes to the services.
Handle(q, op, token, identity) ==
    \/ Reply(q, {500} \cup BadRequest(op))
    \/ /\ request' = [request EXCEPT ![q] =
                         [pc |-> "handler", op |-> op, token |-> token,
                          identity |-> identity, code |-> 0]]
       /\ \E plan \in Plans(op) : Start(q, plan)

\* SecurityMiddleware; it does not look at the token of a public operation.
Secure(q, op, token) ==
    LET identity == GetIdentity(token) IN
    IF ~NeedsAuth(op) THEN Handle(q, op, NoToken, "none")
    ELSE IF identity = "ErrMissingIdentity" THEN Reply(q, {401})
    ELSE IF identity = "invalid" THEN Reply(q, {500})
    ELSE Handle(q, op, token, identity)

\* A request comes to a free place.
Arrive(q) ==
    /\ request[q].pc = "none"
    /\ \E method \in Methods, path \in Paths, token \in Tokens :
        \/ \E op \in Operations :
            <<method, path, op>> \in Routes /\ Secure(q, op, token)
        \/ /\ \A op \in Operations : <<method, path, op>> \notin Routes
           /\ Reply(q, {Unrouted(method, path)})

\* The calls are over, but the handler panics before it has answered.
HandlerPanics(q) ==
    /\ request[q].pc = "handler" /\ Idle(q) /\ result[q] # "panic"
    /\ result' = [result EXCEPT ![q] = "panic"]
    /\ UNCHANGED <<request, todo, tx, using, queue, commit>>

\* The calls of the handler are over: it answers.
Answer(q) ==
    /\ request[q].pc = "handler" /\ Idle(q)
    /\ \E code \in Codes(request[q].op, result[q]) :
        request' = [request EXCEPT ![q].pc = "answered", ![q].code = code]
    /\ UNCHANGED connVars

\* The place is free again.
Leave(q) ==
    /\ request[q].pc = "answered"
    /\ request' = [request EXCEPT ![q] = NoRequest]
    /\ Start(q, <<>>)

TaskWakes ==
    /\ Idle(Task)
    /\ \E plan \in TaskPlans : Start(Task, plan)
    /\ UNCHANGED request

Work(c) == ConnStep(c) /\ UNCHANGED request
Fault(c) == Fails(c) /\ UNCHANGED request

Next ==
    \/ \E q \in Requests : Arrive(q) \/ HandlerPanics(q) \/ Answer(q) \/ Leave(q)
    \/ TaskWakes
    \/ \E c \in Clients : Work(c) \/ Fault(c)

\* The steps a goroutine takes on its own: it asks for a connection, gets the
\* one that is free when it is the first to wait, and its statement is
\* answered or fails (a timeout ends it).
Proceeds(c) == (ConnStep(c) \/ StatementFails(c)) /\ UNCHANGED request

\* The scheduler runs every goroutine that can go on.  Nothing is assumed of
\* who waits but that the pool is served in order: neither a timeout in the
\* queue nor a peer that goes away has to happen.
Spec ==
    /\ Init /\ [][Next]_vars
    /\ \A q \in Requests : WF_vars(Proceeds(q) \/ Answer(q))
    /\ WF_vars(Proceeds(Task) \/ TaskWakes)

-----------------------------------------------------------------------------
(* Properties                                                               *)

Transactional == {"PostUserRegister", "PostUserBalanceWithdraw"}

ServingTypeOK ==
    /\ ConnTypeOK
    /\ request \in [Requests ->
         [pc : {"none", "handler", "answered"}, op : Operations \cup {"none"},
          token : Tokens, identity : Users \cup {"none"}, code : Nat]]

\* A protected operation touches the database only for the bearer of a token
\* that we signed, and in its subject's name (the wrappers' NeedAuthScopes,
\* SecurityMiddleware and parseToken).
OnlyBearersAct ==
    \A q \in Requests :
        request[q].op \in Protected /\ (~Idle(q) \/ result[q] # "none") =>
            /\ request[q].token.genuine
            /\ request[q].identity = request[q].token.subject

\* What the peer is told of a transaction is what became of it: after 200 it
\* is committed, and after a refusal it is not.  What was committed is answered
\* 200, except that the handler may panic after it and that a registration
\* answers 500 when its token cannot be signed (RunInTx, tx.go 37-55).
CodesTellOutcome ==
    \A q \in Requests :
        request[q].pc = "answered" =>
            /\ request[q].op \in Transactional /\ request[q].code = 200
                    => commit[q] = "confirmed"
            /\ request[q].code \in {402, 422} => commit[q] = "no"
            /\ commit[q] = "confirmed" =>
                    /\ request[q].op \in Transactional
                    /\ \/ request[q].code = 200
                       \/ /\ request[q].code = 500
                          /\ result[q] = "panic" \/ request[q].op = "PostUserRegister"

\* However the others hold and wait for the connections, each request is
\* answered, and the task comes to the end of its cycle again and again.
EveryoneAnswered ==
    /\ \A q \in Requests : request[q].pc = "handler" ~> request[q].pc = "answered"
    /\ []<>Idle(Task)
=============================================================================
