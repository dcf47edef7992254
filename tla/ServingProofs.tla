------------------------------ MODULE ServingProofs ------------------------------
(***************************************************************************)
(* For every number of requests and of connections: connections are         *)
(* accounted for, nobody holds one while waiting, only bearers of our       *)
(* tokens reach the database, and the code of a transaction's answer is     *)
(* what became of it.                                                       *)
(*                                                                          *)
(* The invariant says of each client what its next call tells of it: it has *)
(* a transaction exactly when that call is one of RunInTx's, and it waits   *)
(* or holds a connection of the pool only for a call that needs one.  That  *)
(* follows from the shape of the plans.                                     *)
(***************************************************************************)
EXTENDS Gateway, SequenceTheorems, TLAPS

TxCalls == {"TxQuery", "TxCheck", "TxLogged", "Commit"}
PoolCalls == {"Query", "Check", "Begin"}

\* Begin is followed by the calls of the callback and these by Commit; after
\* Commit, and after a statement outside, no transaction is open.
WellFormed(s) ==
    \A i \in 1 .. Len(s) :
        /\ s[i] \in {"Begin", "TxQuery", "TxCheck", "TxLogged"} => i < Len(s) /\ s[i + 1] \in TxCalls
        /\ s[i] \in {"Query", "Check", "Commit"} /\ i < Len(s) => s[i + 1] \notin TxCalls

Outside(s) == s # <<>> => Head(s) \notin TxCalls

In(d, s) == \E i \in DOMAIN s : s[i] = d

Distinct(s) == \A i, j \in DOMAIN s : s[i] = s[j] => i = j

-----------------------------------------------------------------------------
(* Facts about sequences.                                                   *)

\* The rest of a plan is a plan, and its first call fits the one made.
LEMMA PlanGoesOn ==
    ASSUME NEW s \in Seq(Calls), s # <<>>, WellFormed(s)
    PROVE  /\ Tail(s) \in Seq(Calls) /\ WellFormed(Tail(s))
           /\ Head(s) \in Calls
           /\ Head(s) \in {"Begin", "TxQuery", "TxCheck", "TxLogged"} =>
                Tail(s) # <<>> /\ Head(Tail(s)) \in TxCalls
           /\ Head(s) \in {"Query", "Check", "Commit"} => Outside(Tail(s))
  <1>1. Tail(s) \in Seq(Calls) /\ Len(Tail(s)) = Len(s) - 1 /\ Len(s) \in Nat \ {0}
        /\ \A i \in 1 .. Len(s) - 1 : Tail(s)[i] = s[i + 1]
    BY HeadTailProperties, EmptySeq DEF Calls
  <1>2. Head(s) = s[1] /\ s[1] \in Calls
    BY <1>1
  <1>3. Tail(s) # <<>> <=> Len(s) > 1
    <2>1. Tail(s) # <<>> => Len(Tail(s)) \in Nat \ {0}
      BY <1>1, EmptySeq
    <2>2. Tail(s) = <<>> => Len(Tail(s)) = 0
      BY EmptySeq
    <2> QED BY <2>1, <2>2, <1>1
  <1>4. Tail(s) # <<>> => Head(Tail(s)) = s[2]
    BY <1>1, <1>3
  <1>5. WellFormed(Tail(s))
    BY <1>1 DEF WellFormed
  <1> QED
    BY <1>1, <1>2, <1>3, <1>4, <1>5 DEF WellFormed, Outside

\* A plan by its places.
LEMMA RestOfPlan ==
    ASSUME NEW s \in Seq(Calls), s # <<>>
    PROVE  /\ Len(s) \in Nat \ {0} /\ Head(s) = s[1]
           /\ Tail(s) \in Seq(Calls) /\ Len(Tail(s)) = Len(s) - 1
           /\ \A i \in 1 .. Len(s) - 1 : Tail(s)[i] = s[i + 1]
           /\ Tail(s) = <<>> <=> Len(s) = 1
  <1>1. Len(s) \in Nat \ {0} /\ Len(Tail(s)) = Len(s) - 1 /\ Tail(s) \in Seq(Calls)
        /\ \A i \in 1 .. Len(s) - 1 : Tail(s)[i] = s[i + 1]
    BY EmptySeq, HeadTailProperties
  <1>2. Tail(s) # <<>> => Len(Tail(s)) \in Nat \ {0}
    BY <1>1, EmptySeq
  <1>3. Tail(s) = <<>> => Len(Tail(s)) = 0
    BY EmptySeq
  <1> QED BY <1>1, <1>2, <1>3

\* Appending to the queue who is not in it.
LEMMA QueueAppend ==
    ASSUME NEW S, NEW q \in Seq(S), NEW c \in S, Distinct(q), ~In(c, q)
    PROVE  /\ Append(q, c) \in Seq(S)
           /\ Distinct(Append(q, c))
           /\ \A d : In(d, Append(q, c)) <=> In(d, q) \/ d = c
  BY AppendProperties DEF Distinct, In

\* Taking the first of the queue.
LEMMA QueueTail ==
    ASSUME NEW S, NEW q \in Seq(S), q # <<>>, Distinct(q)
    PROVE  /\ Tail(q) \in Seq(S)
           /\ Distinct(Tail(q))
           /\ In(Head(q), q)
           /\ \A d : In(d, Tail(q)) <=> In(d, q) /\ d # Head(q)
  <1>1. /\ Tail(q) \in Seq(S) /\ Len(q) \in Nat \ {0} /\ Len(Tail(q)) = Len(q) - 1
        /\ DOMAIN q = 1 .. Len(q) /\ DOMAIN Tail(q) = 1 .. Len(q) - 1
        /\ Head(q) = q[1]
        /\ \A i \in 1 .. Len(q) - 1 : Tail(q)[i] = q[i + 1]
    BY EmptySeq, HeadTailProperties
  <1>2. Distinct(Tail(q))
    BY <1>1 DEF Distinct
  <1>3. In(Head(q), q)
    BY <1>1 DEF In
  <1>4. ASSUME NEW d PROVE In(d, Tail(q)) <=> In(d, q) /\ d # Head(q)
    <2>1. ASSUME In(d, Tail(q)) PROVE In(d, q) /\ d # Head(q)
      BY <2>1, <1>1 DEF In, Distinct
    <2>2. ASSUME In(d, q), d # Head(q) PROVE In(d, Tail(q))
      <3>1. PICK i \in 1 .. Len(q) : q[i] = d
        BY <2>2, <1>1 DEF In
      <3>2. i - 1 \in 1 .. Len(q) - 1 /\ Tail(q)[i - 1] = d
        BY <3>1, <2>2, <1>1
      <3> QED BY <3>2, <1>1 DEF In
    <2> QED BY <2>1, <2>2
  <1> QED BY <1>1, <1>2, <1>3, <1>4

\* Leaving the queue from any place.
LEMMA QueueRemove ==
    ASSUME NEW S, NEW q \in Seq(S), Distinct(q), NEW i \in DOMAIN q
    PROVE  LET r == SubSeq(q, 1, i - 1) \o SubSeq(q, i + 1, Len(q)) IN
           /\ r \in Seq(S)
           /\ Distinct(r)
           /\ \A d : In(d, r) <=> In(d, q) /\ d # q[i]
  <1> DEFINE a == SubSeq(q, 1, i - 1)
             b == SubSeq(q, i + 1, Len(q))
             r == a \o b
  <1>0. Len(q) \in Nat /\ DOMAIN q = 1 .. Len(q) /\ i \in 1 .. Len(q)
    OBVIOUS
  <1>1. a \in Seq(S) /\ Len(a) = i - 1 /\ \A j \in 1 .. i - 1 : a[j] = q[j]
    BY <1>0, SubSeqProperties
  <1>2. b \in Seq(S) /\ Len(b) = Len(q) - i /\ \A j \in 1 .. Len(q) - i : b[j] = q[i + j]
    BY SMTT(30), <1>0, SubSeqProperties
  <1> HIDE DEF a, b
  <1>3. /\ r \in Seq(S) /\ Len(r) = Len(q) - 1 /\ DOMAIN r = 1 .. Len(q) - 1
        /\ \A j \in 1 .. i - 1 : r[j] = q[j]
        /\ \A j \in i .. Len(q) - 1 : r[j] = q[j + 1]
    <2>1. /\ r \in Seq(S) /\ Len(r) = Len(a) + Len(b)
          /\ \A j \in 1 .. Len(a) + Len(b) :
                r[j] = IF j <= Len(a) THEN a[j] ELSE b[j - Len(a)]
      BY <1>1, <1>2, ConcatProperties
    <2>2. Len(a) + Len(b) = Len(q) - 1
      BY <1>0, <1>1, <1>2
    <2>3. DOMAIN r = 1 .. Len(q) - 1
      BY <2>1, <2>2, LenProperties
    <2>4. ASSUME NEW j \in 1 .. i - 1 PROVE r[j] = q[j]
      BY <2>1, <2>2, <1>0, <1>1
    <2>5. ASSUME NEW j \in i .. Len(q) - 1 PROVE r[j] = q[j + 1]
      <3>1. r[j] = b[j - (i - 1)]
        BY <2>1, <2>2, <1>0, <1>1
      <3>2. j - (i - 1) \in 1 .. Len(q) - i
        BY <1>0
      <3>3. b[j - (i - 1)] = q[i + (j - (i - 1))]
        BY <3>2, <1>2
      <3>4. i + (j - (i - 1)) = j + 1
        BY <1>0
      <3> QED BY <3>1, <3>3, <3>4
    <2> QED BY <2>1, <2>2, <2>3, <2>4, <2>5
  <1> HIDE DEF r
  <1>4. Distinct(r)
    <2> SUFFICES ASSUME NEW k \in 1 .. Len(q) - 1, NEW l \in 1 .. Len(q) - 1, r[k] = r[l]
                 PROVE  k = l
      BY <1>3 DEF Distinct
    <2> DEFINE at(n) == IF n < i THEN n ELSE n + 1
    <2>1. at(k) \in 1 .. Len(q) /\ at(l) \in 1 .. Len(q)
      BY <1>0
    <2>2. ASSUME NEW n \in 1 .. Len(q) - 1 PROVE r[n] = q[at(n)]
      <3>1. CASE n < i
        BY SMTT(30), <3>1, <1>0, <1>3
      <3>2. CASE ~(n < i)
        <4>1. n \in i .. Len(q) - 1
          BY <3>2, <1>0
        <4> QED BY <4>1, <3>2, <1>3
      <3> QED BY <3>1, <3>2
    <2>3. r[k] = q[at(k)] /\ r[l] = q[at(l)]
      BY <2>2
    <2>4. at(k) = at(l) => k = l
      BY <1>0
    <2> HIDE DEF at
    <2>5. q[at(k)] = q[at(l)]
      BY <2>3
    <2>6. at(k) = at(l)
      BY <2>1, <2>5, <1>0 DEF Distinct
    <2> QED BY <2>4, <2>6
  <1>5. ASSUME NEW d PROVE In(d, r) <=> In(d, q) /\ d # q[i]
    <2>1. ASSUME In(d, r) PROVE In(d, q) /\ d # q[i]
      <3>1. PICK k \in 1 .. Len(q) - 1 : r[k] = d
        BY <2>1, <1>3 DEF In
      <3>2. PICK j \in 1 .. Len(q) : q[j] = d /\ j # i
        <4>1. CASE k < i
          BY <4>1, <3>1, <1>0, <1>3
        <4>2. CASE ~(k < i)
          <5>1. k \in i .. Len(q) - 1 /\ k + 1 \in 1 .. Len(q) /\ k + 1 # i
            BY <4>2, <1>0
          <5> QED BY <5>1, <3>1, <1>3
        <4> QED BY <4>1, <4>2
      <3>3. In(d, q)
        BY <3>2, <1>0 DEF In
      <3> QED BY <3>2, <3>3, <1>0 DEF Distinct
    <2>2. ASSUME In(d, q), d # q[i] PROVE In(d, r)
      <3>1. PICK j \in 1 .. Len(q) : q[j] = d
        BY <2>2, <1>0 DEF In
      <3>2. CASE j < i
        BY <3>1, <3>2, <1>0, <1>3 DEF In
      <3>3. CASE j > i
        <4>1. j - 1 \in i .. Len(q) - 1 /\ r[j - 1] = d
          BY <3>1, <3>3, <1>0, <1>3
        <4> QED BY <4>1, <1>0, <1>3 DEF In
      <3> QED BY <3>1, <3>2, <3>3, <2>2, <1>0
    <2> QED BY <2>1, <2>2
  <1> QED BY <1>3, <1>4, <1>5 DEF r, a, b

-----------------------------------------------------------------------------
(* The invariant.                                                           *)

\* What the next call of a client tells of it.
ClientInv(c) ==
    /\ WellFormed(todo[c])
    /\ tx[c] # NoConn <=> Calling(c, TxCalls)
    /\ using[c] # NoConn => Calling(c, PoolCalls) /\ ~In(c, queue)
    /\ In(c, queue) => Calling(c, PoolCalls)

ConnInv ==
    /\ ConnTypeOK
    /\ Distinct(queue)
    /\ Exclusive
    /\ \A c \in Clients : ClientInv(c)

RequestTypeOK ==
    request \in [Requests ->
         [pc : {"none", "handler", "answered"}, op : Operations \cup {"none"},
          token : Tokens, identity : Users \cup {"none"}, code : Nat]]

\* A place without a handler makes no calls, a handler that has made them has
\* their outcome, and a protected operation has the identity of a genuine token.
PlaceInv(q) ==
    /\ request[q].pc # "handler" => Idle(q)
    /\ request[q].pc = "handler" /\ Idle(q) => result[q] # "none"
    /\ request[q].op \in Protected =>
         /\ request[q].token.genuine
         /\ request[q].identity = request[q].token.subject

\* What became of the commit when the calls of a transactional operation ended.
EndInv(q) ==
    /\ result[q] = "ok" => commit[q] = "confirmed"
    /\ commit[q] = "confirmed" => result[q] \in {"ok", "panic"}
    /\ result[q] = "refused" => commit[q] = "no"

\* CodesTellOutcome of one request.
Told(q) ==
    /\ request[q].op \in Transactional /\ request[q].code = 200 => commit[q] = "confirmed"
    /\ request[q].code \in {402, 422} => commit[q] = "no"
    /\ commit[q] = "confirmed" =>
         /\ request[q].op \in Transactional
         /\ \/ request[q].code = 200
            \/ /\ request[q].code = 500
               /\ result[q] = "panic" \/ request[q].op = "PostUserRegister"

\* The commit is the last call of a transactional operation, and no other has
\* a transaction.
OutcomeInv(q) ==
    /\ request[q].pc = "none" => commit[q] = "no"
    /\ request[q].pc = "handler" =>
         IF request[q].op \in Transactional
         THEN /\ ~Idle(q) => todo[q][Len(todo[q])] = "Commit" /\ commit[q] = "no"
              /\ Idle(q) => EndInv(q)
         ELSE /\ \A i \in 1 .. Len(todo[q]) : todo[q][i] \notin TxCalls
              /\ commit[q] = "no"
    /\ request[q].pc = "answered" => Told(q)

IInv == ConnInv /\ RequestTypeOK /\ \A q \in Requests : PlaceInv(q) /\ OutcomeInv(q)
-----------------------------------------------------------------------------
(* One client moves: what it must keep so that the invariant does.          *)

Fits(c, t, x, u, q) ==
    /\ WellFormed(t)
    /\ x # NoConn <=> t # <<>> /\ Head(t) \in TxCalls
    /\ u # NoConn => t # <<>> /\ Head(t) \in PoolCalls /\ ~In(c, q)
    /\ In(c, q) => t # <<>> /\ Head(t) \in PoolCalls

LEMMA StepOfOne ==
    ASSUME ConnInv, NEW c \in Clients,
           NEW t \in Seq(Calls), todo' = [todo EXCEPT ![c] = t],
           NEW x \in Conns \cup {NoConn}, tx' = [tx EXCEPT ![c] = x],
           NEW u \in Conns \cup {NoConn}, using' = [using EXCEPT ![c] = u],
           NEW m \in {"no", "unconfirmed", "confirmed"}, commit' = [commit EXCEPT ![c] = m],
           NEW r \in {"none", "ok", "refused", "error", "panic"},
           result' = [result EXCEPT ![c] = r],
           queue' \in Seq(Clients), Distinct(queue'),
           \A d \in Clients : d # c => (In(d, queue') <=> In(d, queue)),
           Fits(c, t, x, u, queue'),
           x # NoConn => x \in {tx[c], using[c]} \/ ~InUse(x),
           u # NoConn => u = using[c] \/ ~InUse(u),
           x # NoConn => x # u
    PROVE  ConnInv'
  <1>1. ConnTypeOK'
    BY DEF ConnInv, ConnTypeOK
  <1>2. /\ todo'[c] = t /\ tx'[c] = x /\ using'[c] = u
        /\ \A d \in Clients : d # c =>
             todo'[d] = todo[d] /\ tx'[d] = tx[d] /\ using'[d] = using[d]
    BY DEF ConnInv, ConnTypeOK
  <1>3. Exclusive'
    <2> SUFFICES ASSUME NEW d \in Clients, NEW e \in Clients
                 PROVE  /\ tx'[d] # NoConn => tx'[d] # using'[e]
                        /\ d # e /\ tx'[d] # NoConn => tx'[d] # tx'[e]
                        /\ d # e /\ using'[d] # NoConn => using'[d] # using'[e]
      BY DEF Exclusive
    <2>1. CASE d # c /\ e # c
      BY <2>1, <1>2 DEF ConnInv, Exclusive
    <2>2. CASE d = c /\ e # c
      BY <2>2, <1>2 DEF ConnInv, Exclusive, InUse
    <2>3. CASE d # c /\ e = c
      BY <2>3, <1>2 DEF ConnInv, Exclusive, InUse
    <2>4. CASE d = c /\ e = c
      BY <2>4, <1>2
    <2> QED BY <2>1, <2>2, <2>3, <2>4
  <1>4. ASSUME NEW d \in Clients PROVE ClientInv(d)'
    <2>1. CASE d = c
      BY <2>1, <1>2 DEF ClientInv, Fits, Calling, Idle
    <2>2. CASE d # c
      BY <2>2, <1>2 DEF ConnInv, ClientInv, Calling, Idle
    <2> QED BY <2>1, <2>2
  <1> QED BY <1>1, <1>3, <1>4 DEF ConnInv

\* An action that leaves a variable alone leaves it as it is at c.
LEMMA SameAt ==
    ASSUME ConnTypeOK, NEW c \in Clients
    PROVE  /\ tx = [tx EXCEPT ![c] = tx[c]] /\ using = [using EXCEPT ![c] = using[c]]
           /\ commit = [commit EXCEPT ![c] = commit[c]]
           /\ result = [result EXCEPT ![c] = result[c]]
           /\ todo = [todo EXCEPT ![c] = todo[c]]
  BY DEF ConnTypeOK
-----------------------------------------------------------------------------
(* Every step on the connections preserves ConnInv.                         *)

\* What the invariant gives for the client that moves.
LEMMA AtClient ==
    ASSUME ConnInv, NEW c \in Clients
    PROVE  /\ todo[c] \in Seq(Calls) /\ queue \in Seq(Clients) /\ Distinct(queue)
           /\ tx[c] \in Conns \cup {NoConn} /\ using[c] \in Conns \cup {NoConn}
           /\ commit[c] \in {"no", "unconfirmed", "confirmed"}
           /\ result[c] \in {"none", "ok", "refused", "error", "panic"}
           /\ ClientInv(c)
           /\ tx[c] # NoConn => tx[c] # using[c]
           /\ Waits(c) <=> In(c, queue)
           /\ Needs(c) <=> Calling(c, PoolCalls)
  <1>1. /\ todo[c] \in Seq(Calls) /\ queue \in Seq(Clients) /\ Distinct(queue)
        /\ tx[c] \in Conns \cup {NoConn} /\ using[c] \in Conns \cup {NoConn}
        /\ commit[c] \in {"no", "unconfirmed", "confirmed"}
        /\ result[c] \in {"none", "ok", "refused", "error", "panic"}
        /\ ClientInv(c)
    BY DEF ConnInv, ConnTypeOK
  <1>2. tx[c] # NoConn => tx[c] # using[c]
    BY DEF ConnInv, Exclusive
  <1>3. todo[c] # <<>> => Head(todo[c]) \in Calls
    BY <1>1, PlanGoesOn DEF ClientInv
  <1>4. Needs(c) <=> Calling(c, PoolCalls)
    BY <1>1, <1>3 DEF Needs, Calling, Idle, UsesPool, ClientInv, PoolCalls, TxCalls, Calls
  <1> QED BY <1>1, <1>2, <1>4 DEF Waits, In

\* An empty plan is a plan, and asks for nothing.
LEMMA NoPlan ==
    /\ <<>> \in Seq(Calls)
    /\ WellFormed(<<>>)
    /\ \A c, q : ~In(c, q) => Fits(c, <<>>, NoConn, NoConn, q)
  <1>1. <<>> \in Seq(Calls) /\ Len(<<>>) = 0
    BY EmptySeq
  <1>2. WellFormed(<<>>)
    BY <1>1 DEF WellFormed
  <1> QED BY <1>1, <1>2 DEF Fits

LEMMA AskKeeps == ASSUME ConnInv, NEW c \in Clients, Ask(c) PROVE ConnInv'
  <1>1. /\ queue' \in Seq(Clients) /\ Distinct(queue')
        /\ \A d : In(d, queue') <=> In(d, queue) \/ d = c
    BY AtClient, QueueAppend DEF Ask
  <1>2. Fits(c, todo[c], tx[c], using[c], queue')
    BY <1>1, AtClient DEF Ask, Fits, ClientInv, Calling, Idle
  <1> QED
    BY ZenonT(60), <1>1, <1>2, AtClient, SameAt, StepOfOne DEF Ask, ConnInv

LEMMA AcquireKeeps == ASSUME ConnInv, NEW c \in Clients, Acquire(c) PROVE ConnInv'
  <1>1. /\ queue' \in Seq(Clients) /\ Distinct(queue') /\ In(c, queue)
        /\ \A d : In(d, queue') <=> In(d, queue) /\ d # c
    BY AtClient, QueueTail DEF Acquire
  <1>2. PICK k \in Conns : ~InUse(k) /\ using' = [using EXCEPT ![c] = k]
    BY DEF Acquire
  <1>3. Fits(c, todo[c], tx[c], k, queue')
    BY <1>1, AtClient DEF Fits, ClientInv, Calling, Idle
  <1>4. tx[c] # k
    BY <1>2 DEF InUse
  <1>5. /\ todo' = [todo EXCEPT ![c] = todo[c]] /\ tx' = [tx EXCEPT ![c] = tx[c]]
        /\ commit' = [commit EXCEPT ![c] = commit[c]]
        /\ result' = [result EXCEPT ![c] = result[c]]
    BY SameAt DEF Acquire, ConnInv
  <1>6. k \in Conns \cup {NoConn}
    OBVIOUS
  <1> QED
    BY <1>1, <1>2, <1>3, <1>4, <1>5, <1>6, AtClient, StepOfOne

LEMMA GiveUpKeeps == ASSUME ConnInv, NEW c \in Clients, GiveUp(c) PROVE ConnInv'
  <1>1. PICK i \in DOMAIN queue :
            queue[i] = c /\ queue' = SubSeq(queue, 1, i - 1) \o SubSeq(queue, i + 1, Len(queue))
    BY DEF GiveUp
  <1>2. /\ queue' \in Seq(Clients) /\ Distinct(queue')
        /\ \A d : In(d, queue') <=> In(d, queue) /\ d # c
    BY <1>1, AtClient, QueueRemove
  <1>3. using[c] = NoConn
    BY AtClient DEF GiveUp, ClientInv
  <1>4. Fits(c, <<>>, NoConn, NoConn, queue')
    BY <1>2, NoPlan
  <1>5. /\ todo' = [todo EXCEPT ![c] = <<>>] /\ tx' = [tx EXCEPT ![c] = NoConn]
        /\ using' = [using EXCEPT ![c] = NoConn]
        /\ commit' = [commit EXCEPT ![c] = commit[c]]
        /\ result' = [result EXCEPT ![c] = "error"]
    BY <1>3, SameAt DEF GiveUp, End, Rollback, ConnInv
  <1> QED
    BY <1>2, <1>4, <1>5, AtClient, NoPlan, StepOfOne
\* The calls end, and what the client had is given back.
LEMMA EndKeeps ==
    ASSUME ConnInv, NEW c \in Clients, ~Waits(c), queue' = queue,
           todo' = [todo EXCEPT ![c] = <<>>],
           tx' = [tx EXCEPT ![c] = NoConn], using' = [using EXCEPT ![c] = NoConn],
           NEW m \in {"no", "unconfirmed", "confirmed"}, commit' = [commit EXCEPT ![c] = m],
           NEW r \in {"none", "ok", "refused", "error", "panic"},
           result' = [result EXCEPT ![c] = r]
    PROVE  ConnInv'
  <1>1. Fits(c, <<>>, NoConn, NoConn, queue')
    BY NoPlan, AtClient
  <1> QED BY <1>1, NoPlan, AtClient, StepOfOne

\* The same in the terms of the actions: what the client held is given back.
LEMMA EndsKeep ==
    ASSUME ConnInv, NEW c \in Clients, ~Waits(c), queue' = queue,
           NEW r \in {"none", "ok", "refused", "error", "panic"}, End(c, r),
           Rollback(c) \/ (tx' = tx /\ tx[c] = NoConn),
           Release(c) \/ (using' = using /\ using[c] = NoConn),
           \/ commit' = commit
           \/ \E m \in {"no", "unconfirmed", "confirmed"} : commit' = [commit EXCEPT ![c] = m]
    PROVE  ConnInv'
  <1>1. /\ todo' = [todo EXCEPT ![c] = <<>>]
        /\ result' = [result EXCEPT ![c] = r]
    BY DEF End
  <1>2. tx' = [tx EXCEPT ![c] = NoConn]
    BY SameAt DEF Rollback, ConnInv
  <1>3. using' = [using EXCEPT ![c] = NoConn]
    BY SameAt DEF Release, ConnInv
  <1>4. commit = [commit EXCEPT ![c] = commit[c]]
    BY SameAt DEF ConnInv
  <1>5. commit[c] \in {"no", "unconfirmed", "confirmed"}
    BY AtClient
  <1>6. PICK m \in {"no", "unconfirmed", "confirmed"} : commit' = [commit EXCEPT ![c] = m]
    BY <1>4, <1>5
  <1> QED BY <1>1, <1>2, <1>3, <1>6, EndKeeps

\* The next call is up, and the connection of the pool is given back.
LEMMA GoOnKeeps ==
    ASSUME ConnInv, NEW c \in Clients, ~Idle(c), ~Waits(c), queue' = queue, GoOn(c),
           NEW x \in {NoConn, tx[c], using[c]}, tx' = [tx EXCEPT ![c] = x],
           x # NoConn <=> Head(todo[c]) \in {"Begin", "TxQuery", "TxCheck", "TxLogged"},
           using' = [using EXCEPT ![c] = NoConn],
           UNCHANGED commit
    PROVE  ConnInv'
  <1>1. /\ Tail(todo[c]) \in Seq(Calls) /\ WellFormed(Tail(todo[c]))
        /\ x # NoConn <=> Tail(todo[c]) # <<>> /\ Head(Tail(todo[c])) \in TxCalls
    BY AtClient, PlanGoesOn DEF Idle, ClientInv, Outside, Calls
  <1>2. Fits(c, Tail(todo[c]), x, NoConn, queue')
    BY <1>1, AtClient DEF Fits
  <1>3. x \in Conns \cup {NoConn}
    BY AtClient
  <1>4. /\ todo' = [todo EXCEPT ![c] = Tail(todo[c])]
        /\ commit' = [commit EXCEPT ![c] = commit[c]]
    BY SameAt DEF GoOn, ConnInv
  <1>5. PICK r \in {"none", "ok", "refused", "error", "panic"} :
            result' = [result EXCEPT ![c] = r]
    BY DEF GoOn
  <1>6. /\ queue' \in Seq(Clients) /\ Distinct(queue')
        /\ commit[c] \in {"no", "unconfirmed", "confirmed"}
        /\ x # NoConn => x \in {tx[c], using[c]}
    BY AtClient
  <1> QED BY <1>1, <1>2, <1>3, <1>4, <1>5, <1>6, StepOfOne

LEMMA AnswersKeep == ASSUME ConnInv, NEW c \in Clients, Answers(c) PROVE ConnInv'
  <1>1. CASE QueryDone(c)
    <2>1. Calling(c, {"Query", "Check"}) /\ Needs(c) /\ using[c] # NoConn /\ ~Waits(c) /\ tx[c] = NoConn
      BY <1>1, AtClient DEF QueryDone, Ready, Calling, PoolCalls, TxCalls, ClientInv
    <2>2. CASE GoOn(c)
      BY <2>1, <2>2, <1>1, GoOnKeeps, SameAt DEF QueryDone, Release, Calling, ConnInv
    <2>3. CASE End(c, "refused")
      BY <2>1, <2>3, <1>1, EndsKeep DEF QueryDone
    <2> QED BY <1>1, <2>2, <2>3 DEF QueryDone
  <1>2. CASE BeginDone(c)
    <2>1. Calling(c, {"Begin"}) /\ using[c] # NoConn /\ ~Waits(c)
      BY <1>2, AtClient DEF BeginDone, Ready, Calling, PoolCalls, ClientInv
    <2>2. ~Idle(c) /\ Head(todo[c]) = "Begin"
      BY <2>1 DEF Calling
    <2>3. /\ tx' = [tx EXCEPT ![c] = using[c]] /\ using' = [using EXCEPT ![c] = NoConn]
          /\ GoOn(c) /\ queue' = queue /\ UNCHANGED commit
      BY <1>2 DEF BeginDone, Release
    <2> QED BY <2>1, <2>2, <2>3, GoOnKeeps
  <1>3. CASE TxQueryDone(c)
    <2>1. /\ Calling(c, {"TxQuery", "TxCheck", "TxLogged"}) /\ using[c] = NoConn
          /\ ~Waits(c) /\ tx[c] # NoConn
      BY <1>3, AtClient DEF TxQueryDone, Calling, PoolCalls, TxCalls, ClientInv
    <2> QED BY <2>1, <1>3, GoOnKeeps, SameAt DEF TxQueryDone, Release, Calling, ConnInv
  <1>4. CASE CommitDone(c)
    <2>1. using[c] = NoConn /\ ~Waits(c)
      BY <1>4, AtClient DEF CommitDone, Calling, PoolCalls, ClientInv
    <2>2. /\ End(c, "ok") /\ Rollback(c) /\ using' = using /\ queue' = queue
          /\ commit' = [commit EXCEPT ![c] = "confirmed"]
      BY <1>4 DEF CommitDone, Returned
    <2> QED BY <2>1, <2>2, EndsKeep
  <1> QED BY <1>1, <1>2, <1>3, <1>4 DEF Answers

\* The transaction stays open, and its commit is what is left to do.
LEMMA LoggedKeeps == ASSUME ConnInv, NEW c \in Clients, LoggedFails(c) PROVE ConnInv'
  <1> DEFINE t == <<"Commit">>
  <1>1. t \in Seq(Calls) /\ t # <<>> /\ Head(t) = "Commit" /\ WellFormed(t)
    BY DEF WellFormed, Calls
  <1> HIDE DEF t
  <1>2. tx[c] # NoConn /\ ~Waits(c)
    BY AtClient DEF LoggedFails, ClientInv, Calling, PoolCalls, TxCalls
  <1>3. /\ todo' = [todo EXCEPT ![c] = t] /\ using' = [using EXCEPT ![c] = NoConn]
        /\ tx' = [tx EXCEPT ![c] = tx[c]] /\ queue' = queue
        /\ commit' = [commit EXCEPT ![c] = commit[c]]
        /\ result' = [result EXCEPT ![c] = result[c]]
    BY SameAt DEF LoggedFails, Release, ConnInv, t
  <1>4. Fits(c, t, tx[c], NoConn, queue')
    BY <1>1, <1>2, <1>3, AtClient DEF Fits, TxCalls
  <1> QED BY <1>1, <1>3, <1>4, AtClient, StepOfOne

LEMMA FailsKeep == ASSUME ConnInv, NEW c \in Clients, Fails(c) PROVE ConnInv'
  <1>1. CASE QueryFails(c)
    <2>1. ~Waits(c) /\ tx[c] = NoConn
      BY <1>1, AtClient DEF QueryFails, Ready, Calling, PoolCalls, TxCalls, ClientInv
    <2> QED BY <2>1, <1>1, EndsKeep DEF QueryFails
  <1>2. CASE BeginFails(c)
    <2>1. ~Waits(c) /\ tx[c] = NoConn
      BY <1>2, AtClient DEF BeginFails, Ready, Calling, PoolCalls, TxCalls, ClientInv
    <2> QED BY <2>1, <1>2, EndsKeep DEF BeginFails
  <1>3. CASE CallbackFails(c)
    <2>1. ~Waits(c)
      BY <1>3, AtClient DEF CallbackFails, Calling, PoolCalls, ClientInv
    <2>2. PICK r \in {"error", "refused"} : End(c, r)
      BY <1>3 DEF CallbackFails, Returned
    <2> QED BY <2>1, <2>2, <1>3, EndsKeep DEF CallbackFails
  <1>4. CASE CommitFails(c)
    <2>1. using[c] = NoConn /\ ~Waits(c)
      BY <1>4, AtClient DEF CommitFails, Calling, PoolCalls, ClientInv
    <2>2. /\ End(c, "error") /\ Rollback(c) /\ using' = using /\ queue' = queue
          /\ \E m \in {"no", "unconfirmed"} : commit' = [commit EXCEPT ![c] = m]
      BY <1>4 DEF CommitFails, Returned
    <2> QED BY <2>1, <2>2, EndsKeep
  <1>5. CASE GiveUp(c)
    BY <1>5, GiveUpKeeps
  <1>6. CASE Panics(c)
    BY <1>6, EndsKeep DEF Panics
  <1>7. CASE LoggedFails(c)
    BY <1>7, LoggedKeeps
  <1> QED BY <1>1, <1>2, <1>3, <1>4, <1>5, <1>6, <1>7 DEF Fails, StatementFails

\* A client that is idle begins to make calls.
LEMMA StartKeeps ==
    ASSUME ConnInv, NEW c \in Clients, Idle(c), NEW t \in Seq(Calls), WellFormed(t),
           Outside(t), Start(c, t)
    PROVE  ConnInv'
  <1>1. tx[c] = NoConn /\ using[c] = NoConn /\ ~In(c, queue)
    BY AtClient DEF ClientInv, Calling, Idle
  <1>2. Fits(c, t, NoConn, NoConn, queue')
    BY <1>1 DEF Fits, Outside, Start
  <1> QED
    BY <1>1, <1>2, AtClient, SameAt, StepOfOne DEF Start, ConnInv
-----------------------------------------------------------------------------
(* The plans of the handlers and of the task.                               *)

LEMMA PlansFit ==
    ASSUME NEW op \in Operations, NEW plan \in Plans(op)
    PROVE  /\ plan \in Seq(Calls) /\ WellFormed(plan) /\ Outside(plan) /\ plan # <<>>
           /\ op \in Transactional => plan[Len(plan)] = "Commit"
           /\ op \notin Transactional => \A i \in 1 .. Len(plan) : plan[i] \notin TxCalls
  <1>1. CASE op \in {"GetUserBalance", "GetUserOrders", "GetUserWithdraws"}
    <2>1. plan = <<"Query">>
      BY <1>1 DEF Plans
    <2> QED BY <1>1, <2>1 DEF WellFormed, Outside, Calls, TxCalls, Transactional
  <1>2. CASE op = "PostUserLogin"
    <2>1. plan = <<"Check">>
      BY <1>2 DEF Plans
    <2> QED BY <1>2, <2>1 DEF WellFormed, Outside, Calls, TxCalls, Transactional
  <1>3. CASE op = "PostUserOrders"
    <2>1. plan = <<"Check">> \/ plan = <<"Query", "Query">>
      BY <1>3 DEF Plans
    <2>2. CASE plan = <<"Check">>
      BY <1>3, <2>2 DEF WellFormed, Outside, Calls, TxCalls, Transactional
    <2>3. CASE plan = <<"Query", "Query">>
      BY <1>3, <2>3 DEF WellFormed, Outside, Calls, TxCalls, Transactional
    <2> QED BY <2>1, <2>2, <2>3
  <1>4. CASE op = "PostUserRegister"
    <2>1. plan = <<"Begin", "TxQuery", "TxQuery", "Commit">>
      BY <1>4 DEF Plans
    <2> QED BY <1>4, <2>1 DEF WellFormed, Outside, Calls, TxCalls, Transactional
  <1>5. CASE op = "PostUserBalanceWithdraw"
    <2>1. \/ plan = <<"Query", "Check", "Begin", "TxCheck", "TxQuery", "TxQuery", "Commit">>
          \/ plan = <<"Query", "Query", "Check", "Begin", "TxCheck", "TxQuery", "TxQuery", "Commit">>
      BY <1>5 DEF Plans
    <2>2. CASE plan = <<"Query", "Check", "Begin", "TxCheck", "TxQuery", "TxQuery", "Commit">>
      BY <1>5, <2>2 DEF WellFormed, Outside, Calls, TxCalls, Transactional
    <2>3. CASE plan = <<"Query", "Query", "Check", "Begin", "TxCheck", "TxQuery", "TxQuery", "Commit">>
      BY <1>5, <2>3 DEF WellFormed, Outside, Calls, TxCalls, Transactional
    <2> QED BY <2>1, <2>2, <2>3
  <1> QED BY <1>1, <1>2, <1>3, <1>4, <1>5 DEF Operations, Public, Protected

LEMMA TaskPlansFit ==
    ASSUME NEW plan \in TaskPlans
    PROVE  plan \in Seq(Calls) /\ WellFormed(plan) /\ Outside(plan)
  <1>1. CASE plan = <<"Check", "Begin", "TxLogged", "Commit">>
    BY <1>1 DEF WellFormed, Outside, Calls, TxCalls
  <1>2. CASE plan = <<"Check", "Begin", "TxLogged", "TxQuery", "TxQuery", "Commit">>
    BY <1>2 DEF WellFormed, Outside, Calls, TxCalls
  <1> QED BY <1>1, <1>2 DEF TaskPlans

-----------------------------------------------------------------------------
(* The steps.                                                               *)

\* A step of the database on behalf of client c.
Step(c) == ConnStep(c) \/ Fails(c)

LEMMA StepKeepsConn == ASSUME ConnInv, NEW c \in Clients, Step(c) PROVE ConnInv'
  BY AskKeeps, AcquireKeeps, AnswersKeep, FailsKeep DEF Step, ConnStep

\* It leaves the calls and results of the others alone, does not wake who is
\* idle, and keeps the end of the plan; the commit is confirmed exactly when
\* the calls of a transactional plan end well, and is touched by no other call.
LEMMA StepOutcome ==
    ASSUME ConnInv, NEW c \in Clients, Step(c)
    PROVE  /\ ~Idle(c)
           /\ \A d \in Clients : d # c =>
                todo'[d] = todo[d] /\ commit'[d] = commit[d] /\ result'[d] = result[d]
           /\ \/ todo'[c] = todo[c] /\ commit'[c] = commit[c] /\ result'[c] = result[c]
              \/ /\ todo'[c] = <<>> /\ result'[c] \notin {"none", "ok"}
                 /\ \/ commit'[c] = commit[c]
                    \/ /\ commit'[c] \in {"no", "unconfirmed"}
                       /\ result'[c] = "error" /\ Head(todo[c]) = "Commit"
              \/ /\ todo'[c] = <<"Commit">> /\ Head(todo[c]) = "TxLogged"
                 /\ commit'[c] = commit[c] /\ result'[c] = result[c]
              \/ /\ todo'[c] = <<>> /\ result'[c] = "ok" /\ commit'[c] = "confirmed"
                 /\ Head(todo[c]) = "Commit"
              \/ /\ todo'[c] = Tail(todo[c]) /\ commit'[c] = commit[c]
                 /\ Head(todo[c]) # "Commit"
                 /\ result'[c] = IF Len(todo[c]) = 1 THEN "ok" ELSE "none"
  <1> USE DEF Calling, Idle, GoOn, End, ConnInv, ConnTypeOK
  <1>1. CASE Ask(c)
    BY <1>1 DEF Ask, Needs
  <1>2. CASE Acquire(c)
    BY <1>2, AtClient, QueueTail DEF Acquire, ClientInv
  <1>3. CASE QueryDone(c)
    BY <1>3 DEF QueryDone
  <1>4. CASE BeginDone(c)
    BY <1>4 DEF BeginDone
  <1>5. CASE TxQueryDone(c)
    BY <1>5 DEF TxQueryDone
  <1>6. CASE CommitDone(c)
    BY <1>6 DEF CommitDone, Returned
  <1>7. CASE QueryFails(c) \/ BeginFails(c)
    BY <1>7 DEF QueryFails, BeginFails
  <1>8. CASE CallbackFails(c)
    BY <1>8 DEF CallbackFails, Returned
  <1>9. CASE CommitFails(c)
    BY <1>9 DEF CommitFails, Returned
  <1>10. CASE GiveUp(c)
    BY <1>10, AtClient DEF GiveUp, ClientInv
  <1>11. CASE Panics(c)
    BY <1>11 DEF Panics
  <1>12. CASE LoggedFails(c)
    BY <1>12 DEF LoggedFails
  <1> QED
    BY <1>1, <1>2, <1>3, <1>4, <1>5, <1>6, <1>7, <1>8, <1>9, <1>10, <1>11, <1>12
       DEF Step, ConnStep, Answers, Fails, StatementFails
-----------------------------------------------------------------------------
(* The invariant holds.                                                     *)

LEMMA Initially == Init => IInv
  <1> SUFFICES ASSUME Init PROVE IInv
    OBVIOUS
  <1>1. ConnInv
    <2>1. <<>> \in Seq(Clients) /\ Distinct(<<>>) /\ \A c : ~In(c, <<>>)
      BY EmptySeq DEF Distinct, In
    <2> QED
      BY <2>1, NoPlan, SMT
         DEF Init, ConnInit, ConnInv, ConnTypeOK, Exclusive, ClientInv, Calling, Idle
  <1>2. RequestTypeOK
    BY DEF Init, NoRequest, RequestTypeOK, Tokens
  <1>3. ASSUME NEW q \in Requests PROVE PlaceInv(q) /\ OutcomeInv(q)
    BY GatewayAssumption DEF Init, ConnInit, NoRequest, PlaceInv, OutcomeInv, Idle,
        Protected, Operations
  <1> QED BY <1>1, <1>2, <1>3 DEF IInv

\* What is said of a place holds on if nothing of it changes.
LEMMA SamePlace ==
    ASSUME NEW q \in Requests, PlaceInv(q), OutcomeInv(q),
           request'[q] = request[q], todo'[q] = todo[q], commit'[q] = commit[q],
           result'[q] = result[q]
    PROVE  PlaceInv(q)' /\ OutcomeInv(q)'
  BY DEF PlaceInv, OutcomeInv, EndInv, Told, Idle

LEMMA SameConnections == ASSUME ConnInv, UNCHANGED connVars PROVE ConnInv'
  <1> USE DEF connVars
  <1>1. ConnTypeOK'
    BY DEF ConnInv, ConnTypeOK
  <1>2. Exclusive'
    BY DEF ConnInv, Exclusive
  <1>3. ASSUME NEW c \in Clients PROVE ClientInv(c)'
    BY DEF ConnInv, ClientInv, Calling, Idle
  <1> QED BY <1>1, <1>2, <1>3 DEF ConnInv

\* A request is answered before it reached the database.
LEMMA ReplyKeeps ==
    ASSUME IInv, NEW q \in Requests, request[q].pc = "none",
           NEW codes \in SUBSET Nat, Reply(q, codes)
    PROVE  IInv'
  <1>1. ConnInv'
    BY SameConnections DEF IInv, Reply
  <1>2. PICK code \in codes :
            request' = [request EXCEPT ![q] =
                          [pc |-> "answered", op |-> "none", token |-> NoToken,
                           identity |-> "none", code |-> code]]
    BY DEF Reply
  <1>4. RequestTypeOK'
    <2>1. NoToken \in Tokens /\ code \in Nat
      BY DEF Tokens
    <2> QED BY <1>2, <2>1 DEF IInv, RequestTypeOK
  <1>5. ASSUME NEW p \in Requests PROVE PlaceInv(p)' /\ OutcomeInv(p)'
    <2>1. CASE p # q
      BY <2>1, <1>2, SamePlace DEF Reply, connVars, IInv, RequestTypeOK
    <2>2. CASE p = q
      <3>1. request'[q].pc = "answered" /\ request'[q].op = "none"
        BY <1>2 DEF IInv, RequestTypeOK
      <3>2. Idle(q) /\ commit[q] = "no"
        BY DEF IInv, PlaceInv, OutcomeInv
      <3> QED
        BY <2>2, <3>1, <3>2
           DEF PlaceInv, OutcomeInv, Told, Reply, connVars, Protected, Transactional, Idle
    <2> QED BY <2>1, <2>2
  <1> QED BY <1>1, <1>4, <1>5 DEF IInv

\* A request that passed the middleware.
LEMMA HandleKeeps ==
    ASSUME IInv, NEW q \in Requests, request[q].pc = "none",
           NEW op \in Operations, NEW token \in Tokens, NEW identity \in Users \cup {"none"},
           op \in Protected => token.genuine /\ identity = token.subject,
           Handle(q, op, token, identity)
    PROVE  IInv'
  <1>1. CASE Reply(q, {500} \cup BadRequest(op))
    <2>1. {500} \cup BadRequest(op) \in SUBSET Nat
      BY DEF BadRequest, Operations, Public, Protected
    <2> QED BY <1>1, <2>1, ReplyKeeps
  <1>2. CASE /\ request' = [request EXCEPT ![q] =
                   [pc |-> "handler", op |-> op, token |-> token,
                    identity |-> identity, code |-> 0]]
             /\ \E plan \in Plans(op) : Start(q, plan)
    <2>1. PICK plan \in Plans(op) : Start(q, plan)
      BY <1>2
    <2>2. Idle(q) /\ q \in Clients
      BY GatewayAssumption DEF IInv, PlaceInv
    <2>3. ConnInv'
      BY <2>1, <2>2, PlansFit, StartKeeps DEF IInv
    <2>4. RequestTypeOK'
      BY <1>2 DEF IInv, RequestTypeOK
    <2>5. ASSUME NEW p \in Requests PROVE PlaceInv(p)' /\ OutcomeInv(p)'
      <3>1. CASE p # q
        <4>1. /\ request'[p] = request[p] /\ todo'[p] = todo[p]
              /\ commit'[p] = commit[p] /\ result'[p] = result[p]
          BY <3>1, <1>2, <2>1, GatewayAssumption
             DEF Start, IInv, RequestTypeOK, ConnInv, ConnTypeOK
        <4> QED BY <4>1, SamePlace DEF IInv
      <3>2. CASE p = q
        <4>1. /\ request'[q].pc = "handler" /\ request'[q].op = op
              /\ request'[q].token = token /\ request'[q].identity = identity
          BY <1>2 DEF IInv, RequestTypeOK
        <4>2. todo'[q] = plan /\ commit'[q] = "no"
          BY <2>1, <2>2 DEF Start, IInv, ConnInv, ConnTypeOK
        <4>3. PlaceInv(q)'
          BY <4>1, <4>2, PlansFit DEF PlaceInv, Idle
        <4>4. OutcomeInv(q)'
          BY <4>1, <4>2, PlansFit DEF OutcomeInv, Idle
        <4> QED BY <3>2, <4>3, <4>4
      <3> QED BY <3>1, <3>2
    <2> QED BY <2>3, <2>4, <2>5 DEF IInv
  <1> QED BY <1>1, <1>2 DEF Handle
LEMMA ArriveKeeps == ASSUME IInv, NEW q \in Requests, Arrive(q) PROVE IInv'
  <1>1. request[q].pc = "none"
    BY DEF Arrive, IInv, RequestTypeOK
  <1>2. PICK token \in Tokens :
            \/ \E op \in Operations : Secure(q, op, token)
            \/ \E method \in Methods, path \in Paths : Reply(q, {Unrouted(method, path)})
    BY DEF Arrive
  <1>3. CASE \E op \in Operations : Secure(q, op, token)
    <2>1. PICK op \in Operations : Secure(q, op, token)
      BY <1>3
    <2>2. CASE Reply(q, {401}) \/ Reply(q, {500})
      BY <2>2, <1>1, ReplyKeeps
    <2>3. CASE op \notin Protected /\ Handle(q, op, NoToken, "none")
      BY <2>3, <1>1, HandleKeeps DEF Tokens
    <2>4. CASE token # NoToken /\ token.genuine /\ Handle(q, op, token, token.subject)
      <3>1. token.subject \in Users
        BY <2>4 DEF Tokens
      <3> QED BY <3>1, <2>4, <1>1, HandleKeeps
    <2> QED BY <2>1, <2>2, <2>3, <2>4 DEF Secure, GetIdentity, NeedsAuth
  <1>4. CASE \E method \in Methods, path \in Paths : Reply(q, {Unrouted(method, path)})
    BY <1>4, <1>1, ReplyKeeps DEF Unrouted
  <1> QED BY <1>2, <1>3, <1>4

\* A handler that panics after its last call: the commit stays what it is.
LEMMA PanicKeeps == ASSUME IInv, NEW q \in Requests, HandlerPanics(q) PROVE IInv'
  <1>1. /\ request[q].pc = "handler" /\ Idle(q)
        /\ result' = [result EXCEPT ![q] = "panic"]
        /\ UNCHANGED <<request, todo, tx, using, queue, commit>>
        /\ q \in Clients
    BY GatewayAssumption DEF HandlerPanics
  <1>2. ConnInv'
    <2>1. ConnTypeOK'
      BY <1>1 DEF IInv, ConnInv, ConnTypeOK
    <2>2. Exclusive'
      BY <1>1 DEF IInv, ConnInv, Exclusive
    <2>3. ASSUME NEW c \in Clients PROVE ClientInv(c)'
      BY <1>1 DEF IInv, ConnInv, ClientInv, Calling, Idle
    <2> QED BY <1>1, <2>1, <2>2, <2>3 DEF IInv, ConnInv
  <1>3. ASSUME NEW p \in Requests PROVE PlaceInv(p)' /\ OutcomeInv(p)'
    <2>1. CASE p # q
      <3>1. result'[p] = result[p]
        BY <2>1, <1>1, GatewayAssumption DEF IInv, ConnInv, ConnTypeOK
      <3> QED BY <3>1, <1>1, SamePlace DEF IInv
    <2>2. CASE p = q
      <3>1. result'[q] = "panic"
        BY <1>1 DEF IInv, ConnInv, ConnTypeOK
      <3>2. PlaceInv(q)' /\ OutcomeInv(q)'
        BY <3>1, <1>1 DEF IInv, PlaceInv, OutcomeInv, EndInv, Idle
      <3> QED BY <2>2, <3>2
    <2> QED BY <2>1, <2>2
  <1> QED BY <1>1, <1>2, <1>3 DEF IInv, RequestTypeOK

\* The codes of the handlers.
LEMMA CodesAre ==
    ASSUME NEW op \in Operations \cup {"none"},
           NEW how \in {"ok", "refused", "error", "panic"}, NEW code \in Codes(op, how)
    PROVE  /\ code \in Nat
           /\ op \in Transactional /\ code = 200 => how = "ok"
           /\ op \in Transactional /\ code \in {402, 422} => how = "refused"
           /\ op \in Transactional /\ how = "ok" =>
                code = 200 \/ (code = 500 /\ op = "PostUserRegister")
           /\ how = "panic" => code = 500
  <1> USE DEF Transactional, Public
  <1>1. CASE how = "panic"
    BY <1>1 DEF Codes
  <1>2. CASE how # "panic" /\ op \in Public
    BY <1>2 DEF Codes, UserCodes
  <1>3. CASE how # "panic" /\ op \in {"PostUserOrders", "GetUserOrders"}
    BY <1>3 DEF Codes, OrderCodes
  <1>4. CASE how # "panic" /\ op \notin Public \cup {"PostUserOrders", "GetUserOrders"}
    BY <1>4 DEF Codes, BalanceCodes
  <1> QED BY <1>1, <1>2, <1>3, <1>4

\* The code says what became of the transaction.
LEMMA AnswerKeeps == ASSUME IInv, NEW q \in Requests, Answer(q) PROVE IInv'
  <1>1. PICK code \in Codes(request[q].op, result[q]) :
            request' = [request EXCEPT ![q].pc = "answered", ![q].code = code]
    BY DEF Answer
  <1>2. /\ request[q].pc = "handler" /\ Idle(q) /\ UNCHANGED connVars
        /\ request[q].op \in Operations \cup {"none"}
    BY DEF Answer, IInv, RequestTypeOK
  <1>3. result[q] \in {"ok", "refused", "error", "panic"}
    BY <1>2, GatewayAssumption DEF IInv, PlaceInv, ConnInv, ConnTypeOK
  <1>4. /\ code \in Nat
        /\ request[q].op \in Transactional /\ code = 200 => result[q] = "ok"
        /\ request[q].op \in Transactional /\ code \in {402, 422} => result[q] = "refused"
        /\ request[q].op \in Transactional /\ result[q] = "ok" =>
             code = 200 \/ (code = 500 /\ request[q].op = "PostUserRegister")
        /\ result[q] = "panic" => code = 500
    BY <1>2, <1>3, CodesAre
  <1>5. RequestTypeOK'
    <2>1. code \in Nat
      BY <1>4
    <2> QED BY ZenonT(60), <1>1, <2>1 DEF IInv, RequestTypeOK
  <1>6. /\ request'[q].pc = "answered" /\ request'[q].code = code
        /\ request'[q].op = request[q].op /\ request'[q].token = request[q].token
        /\ request'[q].identity = request[q].identity
        /\ \A p \in Requests : p # q => request'[p] = request[p]
    BY <1>1 DEF IInv, RequestTypeOK
  <1>7. ASSUME NEW p \in Requests PROVE PlaceInv(p)' /\ OutcomeInv(p)'
    <2>1. CASE p # q
      BY <2>1, <1>2, <1>6, SamePlace DEF connVars, IInv
    <2>2. CASE p = q
      <3>1. PlaceInv(q)'
        BY <1>2, <1>6 DEF IInv, PlaceInv, connVars, Idle
      <3>2. Told(q)'
        <4>1. /\ commit'[q] = commit[q] /\ result'[q] = result[q]
              /\ OutcomeInv(q)
          BY <1>2 DEF IInv, connVars
        <4>2. CASE request[q].op \in Transactional
          BY <4>1, <4>2, <1>2, <1>4, <1>6 DEF OutcomeInv, EndInv, Told
        <4>3. CASE request[q].op \notin Transactional
          BY <4>1, <4>3, <1>2, <1>6 DEF OutcomeInv, Told
        <4> QED BY <4>2, <4>3
      <3>3. OutcomeInv(q)'
        BY <3>2, <1>6 DEF OutcomeInv
      <3> QED BY <2>2, <3>1, <3>3
    <2> QED BY <2>1, <2>2
  <1> QED BY <1>2, <1>5, <1>7, SameConnections DEF IInv

LEMMA LeaveKeeps == ASSUME IInv, NEW q \in Requests, Leave(q) PROVE IInv'
  <1>1. q \in Clients /\ Idle(q) /\ Start(q, <<>>)
    BY GatewayAssumption DEF Leave, IInv, PlaceInv
  <1>2. ConnInv'
    BY <1>1, NoPlan, StartKeeps DEF IInv, Outside
  <1>3. RequestTypeOK'
    BY DEF Leave, NoRequest, Tokens, IInv, RequestTypeOK
  <1>4. ASSUME NEW p \in Requests PROVE PlaceInv(p)' /\ OutcomeInv(p)'
    <2>1. CASE p # q
      <3>1. /\ request'[p] = request[p] /\ todo'[p] = todo[p]
            /\ commit'[p] = commit[p] /\ result'[p] = result[p]
        BY <2>1, <1>1, GatewayAssumption
           DEF Leave, Start, IInv, RequestTypeOK, ConnInv, ConnTypeOK
      <3> QED BY <3>1, SamePlace DEF IInv
    <2>2. CASE p = q
      <3>1. request'[q].pc = "none" /\ request'[q].op = "none"
        BY DEF Leave, NoRequest, IInv, RequestTypeOK
      <3>2. todo'[q] = <<>> /\ commit'[q] = "no"
        BY <1>1 DEF Start, IInv, ConnInv, ConnTypeOK
      <3> QED
        BY <2>2, <3>1, <3>2 DEF PlaceInv, OutcomeInv, Idle, Protected
    <2> QED BY <2>1, <2>2
  <1> QED BY <1>2, <1>3, <1>4 DEF IInv

LEMMA TaskKeeps == ASSUME IInv, TaskWakes PROVE IInv'
  <1>1. Task \in Clients /\ ConnInv'
    BY TaskPlansFit, StartKeeps, GatewayAssumption DEF TaskWakes, IInv
  <1>2. ASSUME NEW p \in Requests PROVE PlaceInv(p)' /\ OutcomeInv(p)'
    <2>1. /\ request'[p] = request[p] /\ todo'[p] = todo[p]
          /\ commit'[p] = commit[p] /\ result'[p] = result[p]
      BY GatewayAssumption DEF TaskWakes, Start, IInv, ConnInv, ConnTypeOK
    <2> QED BY <2>1, SamePlace DEF IInv
  <1> QED BY <1>1, <1>2 DEF IInv, TaskWakes, RequestTypeOK

LEMMA StepKeeps ==
    ASSUME IInv, NEW c \in Clients, Step(c), UNCHANGED request PROVE IInv'
  <1>1. ConnInv'
    BY StepKeepsConn DEF IInv
  <1>2. ASSUME NEW p \in Requests PROVE PlaceInv(p)' /\ OutcomeInv(p)'
    <2>1. CASE p # c
      <3>1. todo'[p] = todo[p] /\ commit'[p] = commit[p] /\ result'[p] = result[p]
        BY <2>1, StepOutcome, GatewayAssumption DEF IInv
      <3> QED BY <3>1, SamePlace DEF IInv
    <2>2. CASE p = c
      <3>1. ~Idle(c) /\ request[c].pc = "handler"
        BY <2>2, StepOutcome DEF IInv, PlaceInv
      <3>2. PlaceInv(c)'
        <4>1. PlaceInv(c) /\ request'[c] = request[c] /\ todo[c] \in Seq(Calls) /\ todo[c] # <<>>
          BY <2>2, <3>1, AtClient DEF IInv, Idle
        <4>2. Tail(todo[c]) = <<>> <=> Len(todo[c]) = 1
          BY <4>1, RestOfPlan
        <4>3. Idle(c)' => result'[c] # "none"
          <5>1. \/ todo'[c] = todo[c]
                \/ todo'[c] = <<>> /\ result'[c] \notin {"none", "ok"}
                \/ todo'[c] = <<"Commit">>
                \/ todo'[c] = <<>> /\ result'[c] = "ok"
                \/ /\ todo'[c] = Tail(todo[c])
                   /\ result'[c] = IF Len(todo[c]) = 1 THEN "ok" ELSE "none"
            BY ZenonT(60), StepOutcome DEF IInv
          <5>2. <<"Commit">> # <<>>
            OBVIOUS
          <5> QED BY <3>1, <4>2, <5>1, <5>2 DEF Idle
        <4> QED BY <4>1, <4>3, <3>1 DEF PlaceInv
      <3>3. OutcomeInv(c)'
        <4> DEFINE s == todo[c]
        <4>1. /\ s \in Seq(Calls) /\ s # <<>> /\ Len(s) \in Nat \ {0}
              /\ Tail(s) \in Seq(Calls) /\ Len(Tail(s)) = Len(s) - 1
              /\ \A i \in 1 .. Len(s) - 1 : Tail(s)[i] = s[i + 1]
              /\ Head(s) = s[1]
              /\ Tail(s) = <<>> <=> Len(s) = 1
          BY <3>1, AtClient, RestOfPlan DEF IInv, Idle
        <4>2. OutcomeInv(c) /\ request'[c] = request[c]
          BY <2>2 DEF IInv
        <4>3. CASE todo'[c] = todo[c] /\ commit'[c] = commit[c] /\ result'[c] = result[c]
          BY <4>3, <4>2, <3>1 DEF OutcomeInv, EndInv, Idle
        <4>4. CASE /\ todo'[c] = <<>> /\ result'[c] \notin {"none", "ok"}
                   /\ \/ commit'[c] = commit[c]
                      \/ /\ commit'[c] \in {"no", "unconfirmed"}
                         /\ result'[c] = "error" /\ Head(todo[c]) = "Commit"
          <5>1. CASE request[c].op \in Transactional
            <6>1. EndInv(c)'
              BY <4>4, <4>2, <3>1, <5>1 DEF OutcomeInv, EndInv
            <6> QED BY <6>1, <5>1, <4>4, <4>2, <3>1 DEF OutcomeInv, Idle
          <5>2. CASE request[c].op \notin Transactional
            <6>1. commit[c] = "no" /\ s[1] # "Commit"
              BY <5>2, <4>2, <4>1, <3>1 DEF OutcomeInv, TxCalls
            <6>2. commit'[c] = "no"
              BY <6>1, <4>1, <4>4
            <6> QED BY <6>2, <5>2, <4>4, <4>2, <3>1, EmptySeq DEF OutcomeInv
          <5> QED BY <5>1, <5>2
        <4>7. CASE /\ todo'[c] = <<"Commit">> /\ Head(todo[c]) = "TxLogged"
                   /\ commit'[c] = commit[c] /\ result'[c] = result[c]
          <5>1. request[c].op \in Transactional
            BY <4>7, <4>2, <4>1, <3>1 DEF OutcomeInv, TxCalls
          <5> QED BY <4>7, <4>2, <3>1, <5>1 DEF OutcomeInv, Idle
        <4>5. CASE /\ todo'[c] = <<>> /\ result'[c] = "ok" /\ commit'[c] = "confirmed"
                   /\ Head(todo[c]) = "Commit"
          <5>1. request[c].op \in Transactional
            BY <4>5, <4>2, <4>1, <3>1 DEF OutcomeInv, TxCalls
          <5> QED BY <4>5, <4>2, <3>1, <5>1 DEF OutcomeInv, EndInv, Idle
        <4>6. CASE /\ todo'[c] = Tail(todo[c]) /\ commit'[c] = commit[c]
                   /\ Head(todo[c]) # "Commit"
                   /\ result'[c] = IF Len(todo[c]) = 1 THEN "ok" ELSE "none"
          <5>1. CASE request[c].op \in Transactional
            <6>1. s[Len(s)] = "Commit" /\ commit[c] = "no"
              BY <5>1, <4>2, <3>1 DEF OutcomeInv
            <6>2. Len(s) # 1
              BY <6>1, <4>6, <4>1
            <6>3. Tail(s) # <<>> /\ Tail(s)[Len(Tail(s))] = "Commit"
              BY <6>1, <6>2, <4>1
            <6> QED BY <6>1, <6>3, <5>1, <4>6, <4>2, <3>1 DEF OutcomeInv, Idle
          <5>2. CASE request[c].op \notin Transactional
            <6>1. commit[c] = "no" /\ \A i \in 1 .. Len(s) : s[i] \notin TxCalls
              BY <5>2, <4>2, <3>1 DEF OutcomeInv
            <6>2. \A i \in 1 .. Len(Tail(s)) : Tail(s)[i] \notin TxCalls
              BY <6>1, <4>1
            <6> QED BY <6>1, <6>2, <5>2, <4>6, <4>2, <3>1 DEF OutcomeInv, Idle
          <5> QED BY <5>1, <5>2
        <4> QED BY <4>3, <4>4, <4>5, <4>6, <4>7, StepOutcome DEF IInv
      <3> QED BY <2>2, <3>2, <3>3
    <2> QED BY <2>1, <2>2
  <1> QED BY <1>1, <1>2 DEF IInv, RequestTypeOK
-----------------------------------------------------------------------------
(* The theorems.                                                            *)

LEMMA Inductive == IInv /\ [Next]_vars => IInv'
  <1> SUFFICES ASSUME IInv, [Next]_vars PROVE IInv'
    OBVIOUS
  <1>1. ASSUME NEW q \in Requests, Arrive(q) \/ HandlerPanics(q) \/ Answer(q) \/ Leave(q)
         PROVE  IInv'
    BY <1>1, ArriveKeeps, PanicKeeps, AnswerKeeps, LeaveKeeps
  <1>2. CASE TaskWakes
    BY <1>2, TaskKeeps
  <1>3. ASSUME NEW c \in Clients, Work(c) \/ Fault(c) PROVE IInv'
    BY <1>3, StepKeeps DEF Work, Fault, Step
  <1>4. CASE UNCHANGED vars
    <2>1. ConnInv'
      BY <1>4, SameConnections DEF IInv, vars
    <2>2. ASSUME NEW p \in Requests PROVE PlaceInv(p)' /\ OutcomeInv(p)'
      BY <1>4, SamePlace DEF IInv, vars, connVars
    <2> QED BY <1>4, <2>1, <2>2 DEF IInv, vars, RequestTypeOK
  <1> QED BY <1>1, <1>2, <1>3, <1>4 DEF Next

LEMMA Always == Spec => []IInv
  BY Initially, Inductive, PTL DEF Spec

\* Every step keeps the types of the requests, the calls and the connections.
THEOREM ServingTypes == Spec => []ServingTypeOK
  <1>1. IInv => ServingTypeOK
    BY DEF IInv, ConnInv, RequestTypeOK, ServingTypeOK
  <1> QED BY <1>1, Always, PTL

\* Whatever the number of requests and connections, no connection is shared by
\* two goroutines, and who has ended its calls, in whichever way, has given
\* back what it held (RunInTx's deferred rollback, the repositories' Close).
THEOREM NoConnectionIsLost == Spec => []ConnectionsAccounted
  <1>1. IInv => ConnectionsAccounted
    BY AtClient DEF IInv, ConnInv, ClientInv, ConnectionsAccounted, NothingKept, Calling, Waits, In
  <1> QED BY <1>1, Always, PTL

\* The pool cannot deadlock: who waits for a connection holds none, since a
\* transaction's statements take the connection in their context.
THEOREM PoolCannotDeadlock == Spec => []NoHoldAndWait
  <1>1. IInv => NoHoldAndWait
    BY AtClient DEF IInv, ConnInv, ClientInv, NoHoldAndWait, Calling, PoolCalls, TxCalls
  <1> QED BY <1>1, Always, PTL

\* No call is made for a protected operation but with the subject of a token
\* that we signed.
THEOREM OnlyBearersReachTheDatabase == Spec => []OnlyBearersAct
  <1>1. IInv => OnlyBearersAct
    BY DEF IInv, PlaceInv, OnlyBearersAct
  <1> QED BY <1>1, Always, PTL

\* Whatever fails, times out or panics: a transactional request that is answered
\* 200 was committed, one that is refused was not, and what was committed is
\* answered 200, unless the handler panics after it or, of a registration, the
\* token cannot be signed; then it is 500.
THEOREM AnswersTellTheCommit == Spec => []CodesTellOutcome
  <1>1. IInv => CodesTellOutcome
    BY DEF IInv, OutcomeInv, Told, CodesTellOutcome
  <1> QED BY <1>1, Always, PTL
=============================================================================
