------------------------------- MODULE PoolProofs -------------------------------
(***************************************************************************)
(* The accrual worker pool, for every number of workers, batches of every    *)
(* length and every number of calls, while the process starts, serves and    *)
(* stops: a call gets one answer for each of its numbers and nothing else,   *)
(* which is what Poll promises the actualize task, and the pool is empty      *)
(* between calls.  Caller and pool never wait for each other, and the panic   *)
(* at shutdown strikes only a call that is cut off.                          *)
(*                                                                           *)
(* The argument follows the numbers of the current call: its feeder sends     *)
(* them in order, so ch holds the last ones it sent, and the first ones are   *)
(* divided between the results and the workers that are busy.  Earlier calls *)
(* have nothing left in the pool: a call that got all its results has used up *)
(* what its feeder sent, and after one that found respCh closed there is none *)
(* unless the pool has no workers, and then it never held a number.          *)
(***************************************************************************)
EXTENDS Lifecycle, FiniteSetTheorems, TLAPS

Busy == {w \in Workers : worker[w].pc \in {"GetOrder", "respCh"}}
JobsOf(W) == {worker[w].job : w \in W}

\* How many numbers of the current call were sent, and how many of them were taken.
Sent == IF call = 0 THEN 0 ELSE feeder[call].next - 1
Taken == Sent - Len(ch)

JobOf(i) == [call |-> call, id |-> Ids[i]]
FirstJobs(n) == {JobOf(i) : i \in 1 .. n}

\* Where the numbers of the current call are.
Places ==
    /\ Taken \in Nat
    /\ \A i \in 1 .. Len(ch) : ch[i] = JobOf(Taken + i)
    /\ results \cup JobsOf(Busy) = FirstJobs(Taken)
    /\ \A w \in Busy : worker[w].job \notin results
    /\ \A v, w \in Busy : worker[v].job = worker[w].job => v = w

\* How many there are.
Counts ==
    /\ IsFiniteSet(results) /\ Cardinality(results) = got
    /\ Taken = got + Cardinality(Busy)

\* The workers stop because of the context, and respCh is closed after them.
Stopping ==
    /\ \A w \in Workers : worker[w].pc = "stopped" => ctxDone
    /\ run # "Wait" => \A w \in Started : worker[w].pc = "stopped"
    /\ respClosed => run # "Wait"

\* The feeders of other calls have nothing to send: they are not started, have sent
\* everything, or find no room for good.
Feeders ==
    /\ \A c \in Calls : feeder[c].pc = "ch" => feeder[c].next <= Len(Ids)
    /\ \A c \in Calls : c > call => feeder[c] = [pc |-> "none", next |-> 1]
    /\ \A c \in Calls : c < call =>
           feeder[c].next > Len(Ids) \/ (Started = {} /\ respClosed)

\* What the caller knows of its last call.
Caller ==
    /\ loop = "GetOrders" \/ call = 0 \/ Complete \/ respClosed
    /\ loop = "OrdersByStatus" => call < MaxCalls
    /\ loop = "OrdersByStatus" => call = 0 \/ Complete \/ (Started = {} /\ respClosed)
    /\ loop \in {"GetOrders", "rest"} => call > 0

PoolInv == PoolTypeOK /\ Places /\ Counts /\ Stopping /\ Feeders /\ Caller

\* A step of the process, as the pool sees it.
CtxStep == ctxDone' = TRUE /\ UNCHANGED <<channelVars, worker, run, feeder, callerVars, panicked>>
PoolNext == PoolStep \/ CtxStep \/ UNCHANGED poolVars

LEMMA StepOfPool == [LifeNext]_lifeVars => PoolNext
BY DEF LifeNext, ServerHoldsNext, lifeVars, mainVars, PoolRuns, MainStep, SignalArrives, Gone,
       ListenFails, RequestStarts, RequestEnds, ShutdownStarts, ListenReturns, ShutdownReturns,
       MainReturns, Cancel, PoolNext, CtxStep, poolVars

-----------------------------------------------------------------------------
(* What the steps of a worker and of a feeder do, field by field.            *)

LEMMA TypeFacts ==
    ASSUME PoolTypeOK
    PROVE  /\ ch \in Seq(Job) /\ Len(ch) \in Nat
           /\ \A w \in Workers : worker[w].job \in Job \cup {Null}
           /\ \A w \in Workers :
                  worker[w].pc \in {"absent", "select", "GetOrder", "respCh", "stopped"}
           /\ \A c \in Calls : feeder[c].next \in 1 .. Len(Ids) + 1
           /\ \A c \in Calls : feeder[c].pc \in {"none", "select", "ch", "returned"}
           /\ call \in Nat /\ got \in Nat /\ Len(Ids) \in Nat \ {0} /\ MaxCalls \in Nat
           /\ call > 0 => call \in Calls
<1>1. ch \in Seq(Job) /\ Len(ch) \in Nat
  <2>1. ch \in Seq(Job)
    BY Zenon DEF PoolTypeOK
  <2> QED BY <2>1
<1>2. \A w \in Workers :
          /\ worker[w].job \in Job \cup {Null}
          /\ worker[w].pc \in {"absent", "select", "GetOrder", "respCh", "stopped"}
  BY DEF PoolTypeOK
<1>3. \A c \in Calls : /\ feeder[c].next \in 1 .. Len(Ids) + 1
                       /\ feeder[c].pc \in {"none", "select", "ch", "returned"}
  BY DEF PoolTypeOK
<1>4. Len(Ids) \in Nat \ {0} /\ MaxCalls \in Nat
  BY PoolAssumption
<1>5. call \in Nat /\ got \in Nat /\ (call > 0 => call \in Calls)
  <2>1. call \in 0 .. MaxCalls /\ got \in 0 .. Len(Ids)
    BY Zenon DEF PoolTypeOK
  <2> QED BY <2>1, <1>4 DEF Calls
<1> QED BY <1>1, <1>2, <1>3, <1>4, <1>5

LEMMA SetIsFinite ==
    ASSUME NEW W, W \subseteq Workers
    PROVE  IsFiniteSet(W) /\ Cardinality(W) \in Nat
BY PoolAssumption, FS_Subset, FS_CardinalityType

LEMMA TakeEffect ==
    ASSUME PoolTypeOK, NEW w \in Workers, WorkerTake(w)
    PROVE  /\ worker'[w].pc = "GetOrder" /\ worker'[w].job = ch[1]
           /\ \A v \in Workers : v # w => worker'[v] = worker[v]
           /\ Len(ch) > 0 /\ Len(ch') = Len(ch) - 1
           /\ \A i \in 1 .. Len(ch') : ch'[i] = ch[i + 1]
           /\ ch' \in Seq(Job) /\ ch[1] \in Job
           /\ Busy' = Busy \cup {w} /\ w \notin Busy
           /\ worker[w].pc = "select"
<1>1. worker'[w].pc = "GetOrder" /\ worker'[w].job = Head(ch)
  BY DEF WorkerTake, PoolTypeOK
<1>2. \A v \in Workers : v # w => worker'[v] = worker[v]
  BY DEF WorkerTake, PoolTypeOK
<1>3. /\ Head(ch) = ch[1] /\ Len(ch) > 0 /\ Len(ch') = Len(ch) - 1
      /\ \A i \in 1 .. Len(ch') : ch'[i] = ch[i + 1]
      /\ ch' \in Seq(Job) /\ ch[1] \in Job
  <2>1. ch \in Seq(Job) /\ ch # <<>> /\ ch' = Tail(ch)
    BY DEF WorkerTake, PoolTypeOK
  <2> QED BY <2>1
<1>4. worker[w].pc = "select"
  BY DEF WorkerTake
<1> QED BY <1>1, <1>2, <1>3, <1>4 DEF Busy

LEMMA SendEffect ==
    ASSUME PoolTypeOK, NEW w \in Workers, WorkerSend(w)
    PROVE  /\ worker'[w].pc = "select" /\ worker'[w].job = Null
           /\ \A v \in Workers : v # w => worker'[v] = worker[v]
           /\ Busy' = Busy \ {w} /\ w \in Busy
           /\ worker[w].pc = "respCh"
<1>1. worker'[w].pc = "select" /\ worker'[w].job = Null
  BY DEF WorkerSend, PoolTypeOK
<1>2. \A v \in Workers : v # w => worker'[v] = worker[v]
  BY DEF WorkerSend, PoolTypeOK
<1>3. worker[w].pc = "respCh"
  BY DEF WorkerSend
<1> QED BY <1>1, <1>2, <1>3 DEF Busy

\* A worker that stops, or has its answer.
MovesOn(w) == WorkerStop(w) \/ WorkerGetOrder(w)

LEMMA MovesOnEffect ==
    ASSUME PoolTypeOK, NEW w \in Workers, MovesOn(w)
    PROVE  /\ \A v \in Workers : worker'[v].job = worker[v].job
           /\ \A v \in Workers : v # w => worker'[v] = worker[v]
           /\ \/ worker[w].pc = "select" /\ worker'[w].pc = "stopped" /\ ctxDone
              \/ worker[w].pc = "GetOrder" /\ worker'[w].pc = "respCh"
           /\ Busy' = Busy
<1>1. /\ \A v \in Workers : worker'[v].job = worker[v].job
      /\ \A v \in Workers : v # w => worker'[v] = worker[v]
  <2>1. CASE WorkerStop(w)
    BY <2>1 DEF WorkerStop, PoolTypeOK
  <2>2. CASE WorkerGetOrder(w)
    BY <2>2 DEF WorkerGetOrder, PoolTypeOK
  <2> QED BY <2>1, <2>2 DEF MovesOn
<1>2. \/ worker[w].pc = "select" /\ worker'[w].pc = "stopped" /\ ctxDone
      \/ worker[w].pc = "GetOrder" /\ worker'[w].pc = "respCh"
  BY DEF MovesOn, WorkerStop, WorkerGetOrder, PoolTypeOK
<1> QED BY <1>1, <1>2 DEF Busy

LEMMA FeederSendEffect ==
    ASSUME PoolInv, NEW c \in Calls, FeederSend(c)
    PROVE  /\ c = call /\ feeder[c].next <= Len(Ids)
           /\ feeder'[c].pc = "select" /\ feeder'[c].next = feeder[c].next + 1
           /\ \A k \in Calls : k # c => feeder'[k] = feeder[k]
           /\ ch' \in Seq(Job)
           /\ Len(ch') = Len(ch) + 1
           /\ \A i \in 1 .. Len(ch) : ch'[i] = ch[i]
           /\ ch'[Len(ch) + 1] = [call |-> c, id |-> Ids[feeder[c].next]]
<1> USE DEF PoolInv
<1>1. feeder[c].pc = "ch" /\ feeder[c].next <= Len(Ids) /\ feeder[c].next \in Nat \ {0}
  BY TypeFacts DEF FeederSend, Feeders
<1>2. feeder'[c].pc = "select" /\ feeder'[c].next = feeder[c].next + 1
  BY DEF FeederSend, PoolTypeOK
<1>3. \A k \in Calls : k # c => feeder'[k] = feeder[k]
  BY DEF FeederSend, PoolTypeOK
<1>4. [call |-> c, id |-> Ids[feeder[c].next]] \in Job
  <2>1. Ids[feeder[c].next] \in Range(Ids)
    BY <1>1, PoolAssumption DEF Range
  <2> QED BY <2>1 DEF Job
<1>5. /\ ch' \in Seq(Job) /\ Len(ch') = Len(ch) + 1
      /\ \A i \in 1 .. Len(ch) : ch'[i] = ch[i]
      /\ ch'[Len(ch) + 1] = [call |-> c, id |-> Ids[feeder[c].next]]
  <2>1. ch' = Append(ch, [call |-> c, id |-> Ids[feeder[c].next]]) /\ ch \in Seq(Job)
    BY DEF FeederSend, PoolTypeOK
  <2> QED BY <2>1, <1>4
<1>6. c = call
  <2>1. c \in Nat /\ call \in Nat
    BY TypeFacts DEF Calls
  <2>2. ~(c > call)
    BY <1>1 DEF Feeders
  <2>3. ASSUME c < call PROVE FALSE
    <3>1. Started = {}
      BY <1>1, <2>3, TypeFacts DEF Feeders
    <3>2. MaxRateLimit = 0
      BY <3>1, FS_EmptySet DEF MaxRateLimit
    <3> QED BY <3>2, TypeFacts DEF FeederSend, HasRoom
  <2> QED BY <2>1, <2>2, <2>3
<1> QED BY <1>1, <1>2, <1>3, <1>5, <1>6

\* A feeder that looks whether it goes on.
LEMMA FeederSelectEffect ==
    ASSUME PoolTypeOK, NEW c \in Calls, FeederSelect(c)
    PROVE  /\ \A k \in Calls : feeder'[k].next = feeder[k].next
           /\ \A k \in Calls : k # c => feeder'[k] = feeder[k]
           /\ feeder[c].pc = "select"
           /\ \/ feeder'[c].pc = "returned"
              \/ feeder'[c].pc = "ch" /\ feeder[c].next <= Len(Ids)
<1>1. feeder[c].pc = "select"
  BY DEF FeederSelect
<1>2. CASE feeder' = [feeder EXCEPT ![c].pc = "returned"]
  BY <1>1, <1>2 DEF PoolTypeOK
<1>3. CASE feeder' = [feeder EXCEPT ![c].pc = "ch"] /\ feeder[c].next <= Len(Ids)
  BY <1>1, <1>3 DEF PoolTypeOK
<1> QED BY <1>1, <1>2, <1>3 DEF FeederSelect

LEMMA StartedSteady ==
    ASSUME PoolTypeOK, PoolNext
    PROVE  Started' = Started
<1>1. CASE UNCHANGED worker
  BY <1>1 DEF Started
<1>2. CASE \E w \in Workers : WorkerStep(w)
  <2>1. PICK w \in Workers : WorkerStep(w)
    BY <1>2
  <2>2. \A v \in Workers : v # w => worker'[v] = worker[v]
    BY <2>1, TakeEffect, SendEffect, MovesOnEffect DEF WorkerStep, MovesOn
  <2>3. worker[w].pc # "absent" /\ worker'[w].pc # "absent"
    BY <2>1, TakeEffect, SendEffect, MovesOnEffect DEF WorkerStep, MovesOn
  <2> QED BY <2>2, <2>3 DEF Started
<1>3. UNCHANGED worker \/ \E w \in Workers : WorkerStep(w)
  BY DEF PoolNext, PoolStep, CtxStep, poolVars, LoopStep, Tick, StartCall, Return, ReturnClosed,
         ReturnWith, EndCycle, RunStep, RunCloseDone, RunCloseResp, RunCloseCh, FeederStep,
         FeederSelect, FeederSend, FeederPanics
<1> QED BY <1>1, <1>2, <1>3

-----------------------------------------------------------------------------
(* Each part of the invariant is preserved.                                  *)

WorkerType == [Workers -> [pc: {"absent", "select", "GetOrder", "respCh", "stopped"},
                           job: Job \cup {Null}]]
FeederType == [Calls -> [pc: {"none", "select", "ch", "returned"}, next: 1 .. Len(Ids) + 1]]

LEMMA ChannelTypeStep ==
    ASSUME PoolInv, PoolNext
    PROVE  ch' \in Seq(Job) /\ Len(ch') <= MaxRateLimit'
<1> USE DEF PoolInv
<1>1. MaxRateLimit' = MaxRateLimit
  BY StartedSteady DEF MaxRateLimit
<1>2. MaxRateLimit \in Nat
  BY SetIsFinite DEF MaxRateLimit, Started
<1>3. CASE UNCHANGED ch
  BY <1>1, <1>3 DEF PoolTypeOK
<1>4. ASSUME NEW c \in Calls, FeederSend(c) PROVE ch' \in Seq(Job) /\ Len(ch') <= MaxRateLimit'
  <2>1. Len(ch) < MaxRateLimit /\ Len(ch) \in Nat
    BY <1>4, TypeFacts DEF FeederSend, HasRoom
  <2>2. ch' \in Seq(Job) /\ Len(ch') = Len(ch) + 1
    BY <1>4, FeederSendEffect
  <2> QED BY <1>1, <1>2, <2>1, <2>2
<1>5. ASSUME NEW w \in Workers, WorkerTake(w) PROVE ch' \in Seq(Job) /\ Len(ch') <= MaxRateLimit'
  <2>1. Len(ch) <= MaxRateLimit /\ Len(ch) \in Nat
    BY TypeFacts DEF PoolTypeOK
  <2>2. ch' \in Seq(Job) /\ Len(ch') = Len(ch) - 1
    BY <1>5, TakeEffect
  <2> QED BY <1>1, <1>2, <2>1, <2>2
<1>6. \/ UNCHANGED ch
      \/ \E c \in Calls : FeederSend(c)
      \/ \E w \in Workers : WorkerTake(w)
  BY DEF PoolNext, PoolStep, CtxStep, poolVars, channelVars, LoopStep, Tick, StartCall, Return,
         ReturnClosed, ReturnWith, EndCycle, RunStep, RunCloseDone, RunCloseResp, RunCloseCh,
         FeederStep, FeederSelect, FeederPanics, WorkerStep, WorkerStop, WorkerGetOrder,
         WorkerSend
<1> QED BY <1>3, <1>4, <1>5, <1>6

LEMMA WorkerTypeStep ==
    ASSUME PoolInv, PoolNext
    PROVE  worker' \in WorkerType
<1> USE DEF PoolInv
<1>1. worker \in WorkerType
  BY Zenon DEF PoolTypeOK, WorkerType
<1>2. ASSUME NEW w \in Workers, WorkerTake(w) PROVE worker' \in WorkerType
  <2>1. Head(ch) \in Job
    <3>1. ch \in Seq(Job) /\ ch # <<>>
      BY <1>2, Zenon DEF WorkerTake, PoolTypeOK
    <3> QED BY <3>1
  <2> QED BY <1>1, <1>2, <2>1 DEF WorkerTake, WorkerType
<1>3. ASSUME NEW w \in Workers, WorkerStop(w) PROVE worker' \in WorkerType
  BY <1>1, <1>3 DEF WorkerStop, WorkerType
<1>4. ASSUME NEW w \in Workers, WorkerGetOrder(w) PROVE worker' \in WorkerType
  BY <1>1, <1>4 DEF WorkerGetOrder, WorkerType
<1>5. ASSUME NEW w \in Workers, WorkerSend(w) PROVE worker' \in WorkerType
  BY <1>1, <1>5 DEF WorkerSend, WorkerType
<1>6. UNCHANGED worker \/ \E w \in Workers : WorkerStep(w)
  BY DEF PoolNext, PoolStep, CtxStep, poolVars, LoopStep, Tick, StartCall, Return, ReturnClosed,
         ReturnWith, EndCycle, RunStep, RunCloseDone, RunCloseResp, RunCloseCh, FeederStep,
         FeederSelect, FeederSend, FeederPanics
<1> QED BY <1>1, <1>2, <1>3, <1>4, <1>5, <1>6 DEF WorkerStep

LEMMA StartCallEffect ==
    ASSUME PoolInv, StartCall
    PROVE  /\ call' = call + 1 /\ call' \in Calls
           /\ feeder[call'] = [pc |-> "none", next |-> 1]
           /\ feeder'[call'].next = 1 /\ feeder'[call'].pc = "select"
           /\ \A c \in Calls : c # call' => feeder'[c] = feeder[c]
<1> USE DEF PoolInv
<1>1. call' = call + 1 /\ call < MaxCalls /\ call \in Nat /\ MaxCalls \in Nat
  BY TypeFacts DEF StartCall, Caller
<1>2. call' \in Calls /\ call' > call
  BY <1>1 DEF Calls
<1>3. feeder[call'] = [pc |-> "none", next |-> 1]
  BY <1>2 DEF Feeders
<1>4. feeder' = [feeder EXCEPT ![call'].pc = "select"]
  BY <1>1 DEF StartCall
<1>5. /\ feeder'[call'].pc = "select" /\ feeder'[call'].next = feeder[call'].next
      /\ \A c \in Calls : c # call' => feeder'[c] = feeder[c]
  <2>1. ASSUME NEW k \in Calls, feeder' = [feeder EXCEPT ![k].pc = "select"]
        PROVE  /\ feeder'[k].pc = "select" /\ feeder'[k].next = feeder[k].next
               /\ \A c \in Calls : c # k => feeder'[c] = feeder[c]
    BY <2>1 DEF PoolTypeOK
  <2> QED BY <1>2, <1>4, <2>1, Zenon
<1>6. feeder[call'].next = 1
  BY <1>3
<1> QED BY <1>1, <1>2, <1>3, <1>5, <1>6, Zenon

LEMMA FeederTypeStep ==
    ASSUME PoolInv, PoolNext
    PROVE  feeder' \in FeederType
<1> USE DEF PoolInv
<1>1. feeder \in FeederType
  BY Zenon DEF PoolTypeOK, FeederType
<1>2. ASSUME StartCall PROVE feeder' \in FeederType
  <2>1. feeder' = [feeder EXCEPT ![call'].pc = "select"] /\ call' \in Calls
    BY <1>2, StartCallEffect DEF StartCall
  <2> QED BY <1>1, <2>1 DEF FeederType
<1>3. ASSUME NEW c \in Calls, FeederSelect(c) PROVE feeder' \in FeederType
  <2>1. \/ feeder' = [feeder EXCEPT ![c].pc = "returned"]
        \/ feeder' = [feeder EXCEPT ![c].pc = "ch"]
    BY <1>3, Zenon DEF FeederSelect
  <2>2. ASSUME NEW pc \in {"returned", "ch"}, feeder' = [feeder EXCEPT ![c].pc = pc]
        PROVE  feeder' \in FeederType
    BY <1>1, <2>2 DEF FeederType
  <2> QED BY <2>1, <2>2
<1>4. ASSUME NEW c \in Calls, FeederSend(c) PROVE feeder' \in FeederType
  <2>1. feeder[c].next <= Len(Ids) /\ feeder[c].next \in Nat \ {0} /\ Len(Ids) \in Nat
    <3>1. feeder[c].next <= Len(Ids)
      BY <1>4, FeederSendEffect
    <3>2. feeder[c].next \in 1 .. Len(Ids) + 1 /\ Len(Ids) \in Nat
      BY TypeFacts
    <3> QED BY <3>1, <3>2
  <2>2. feeder' = [feeder EXCEPT ![c] = [pc |-> "select", next |-> feeder[c].next + 1]]
    BY <1>4, Zenon DEF FeederSend
  <2>3. feeder[c].next + 1 \in 1 .. Len(Ids) + 1
    BY <2>1
  <2> QED BY <1>1, <2>2, <2>3 DEF FeederType
<1>5. UNCHANGED feeder \/ StartCall \/ \E c \in Calls : FeederSelect(c) \/ FeederSend(c)
  BY DEF PoolNext, PoolStep, CtxStep, poolVars, LoopStep, Tick, Return, ReturnClosed,
         ReturnWith, EndCycle, RunStep, RunCloseDone, RunCloseResp, RunCloseCh, FeederStep,
         FeederPanics, WorkerStep, WorkerTake, WorkerStop, WorkerGetOrder, WorkerSend
<1> QED BY <1>1, <1>2, <1>3, <1>4, <1>5

LEMMA CallerTypeStep ==
    ASSUME PoolInv, PoolNext
    PROVE  /\ call' \in 0 .. MaxCalls
           /\ loop' \in {"tick", "OrdersByStatus", "GetOrders", "rest", "stopped"}
           /\ got' \in 0 .. Len(Ids) /\ results' \subseteq Job
           /\ returned' \in [Calls -> {Null, "closed", "complete"}]
<1> USE DEF PoolInv
<1> DEFINE Goal == /\ call' \in 0 .. MaxCalls
                   /\ loop' \in {"tick", "OrdersByStatus", "GetOrders", "rest", "stopped"}
                   /\ got' \in 0 .. Len(Ids) /\ results' \subseteq Job
                   /\ returned' \in [Calls -> {Null, "closed", "complete"}]
<1>1. /\ call \in 0 .. MaxCalls
      /\ loop \in {"tick", "OrdersByStatus", "GetOrders", "rest", "stopped"}
      /\ got \in 0 .. Len(Ids) /\ results \subseteq Job
      /\ returned \in [Calls -> {Null, "closed", "complete"}]
      /\ Len(Ids) \in Nat
  BY TypeFacts, Zenon DEF PoolTypeOK
<1>2. ASSUME StartCall PROVE Goal
  <2>1. call' \in 0 .. MaxCalls
    BY <1>2, StartCallEffect DEF Calls
  <2>2. 0 \in 0 .. Len(Ids)
    BY <1>1
  <2> QED BY <1>1, <1>2, <2>1, <2>2 DEF StartCall
<1>3. ASSUME NEW w \in Workers, WorkerSend(w) PROVE Goal
  <2>1. got' \in 0 .. Len(Ids)
    BY <1>1, <1>3 DEF WorkerSend, Complete
  <2>2. worker[w].job \in Job
    <3>1. w \in Busy
      BY <1>3, SendEffect
    <3>2. worker[w].job \in FirstJobs(Taken)
      BY <3>1 DEF Places, JobsOf
    <3>3. PICK i \in 1 .. Taken : worker[w].job = JobOf(i)
      BY <3>2 DEF FirstJobs
    <3>4. call > 0 /\ call \in Calls
      BY <1>3, TypeFacts DEF WorkerSend, Caller
    <3>5. i \in 1 .. Len(Ids)
      <4>1. feeder[call].next \in 1 .. Len(Ids) + 1 /\ Len(ch) \in Nat /\ call # 0
        BY <3>4, TypeFacts
      <4>2. Taken = feeder[call].next - 1 - Len(ch)
        BY <4>1, Zenon DEF Sent, Taken
      <4>3. Taken <= Len(Ids)
        BY <1>1, <4>1, <4>2
      <4> QED BY <1>1, <4>3 DEF Places
    <3>6. Ids[i] \in Range(Ids)
      BY <3>5, PoolAssumption DEF Range
    <3> QED BY <3>3, <3>4, <3>6 DEF Job, JobOf
  <2> QED BY <1>1, <1>3, <2>1, <2>2 DEF WorkerSend
<1>4. ASSUME Tick \/ Return \/ ReturnClosed \/ EndCycle PROVE Goal
  <2>1. UNCHANGED <<call, got, results>>
    BY <1>4 DEF Tick, Return, ReturnClosed, ReturnWith, EndCycle
  <2>2. loop' \in {"tick", "OrdersByStatus", "GetOrders", "rest", "stopped"}
    BY <1>4 DEF Tick, Return, ReturnClosed, ReturnWith, EndCycle
  <2>3. returned' \in [Calls -> {Null, "closed", "complete"}]
    BY <1>1, <1>4 DEF Tick, Return, ReturnClosed, ReturnWith, EndCycle
  <2> QED BY <1>1, <2>1, <2>2, <2>3
<1>5. ASSUME UNCHANGED callerVars PROVE Goal
  BY <1>1, <1>5 DEF callerVars
<1>6. \/ UNCHANGED callerVars \/ LoopStep
      \/ \E w \in Workers : WorkerSend(w)
  BY DEF PoolNext, PoolStep, CtxStep, poolVars, RunStep, RunCloseDone, RunCloseResp,
         RunCloseCh, FeederStep, FeederSelect, FeederSend, FeederPanics, WorkerStep,
         WorkerTake, WorkerStop, WorkerGetOrder
<1> HIDE DEF Goal
<1>7. Goal
  BY <1>2, <1>3, <1>4, <1>5, <1>6 DEF LoopStep
<1> QED BY <1>7 DEF Goal

LEMMA PoolTypeStep ==
    ASSUME PoolInv, PoolNext
    PROVE  PoolTypeOK'
<1>1. {ctxDone', chClosed', respClosed', doneClosed', panicked'} \subseteq BOOLEAN
  <2>1. {ctxDone, chClosed, respClosed, doneClosed, panicked} \subseteq BOOLEAN
    BY DEF PoolInv, PoolTypeOK
  <2> QED BY <2>1 DEF PoolNext, PoolStep, CtxStep, poolVars, channelVars, LoopStep, Tick,
         StartCall, Return, ReturnClosed, ReturnWith, EndCycle, RunStep, RunCloseDone,
         RunCloseResp, RunCloseCh, FeederStep, FeederSelect, FeederSend, FeederPanics,
         WorkerStep, WorkerTake, WorkerStop, WorkerGetOrder, WorkerSend
<1>2. run' \in {"Wait", "close respCh", "close ch", "returned"}
  <2>1. run \in {"Wait", "close respCh", "close ch", "returned"}
    BY Zenon DEF PoolInv, PoolTypeOK
  <2> QED BY <2>1 DEF PoolNext, PoolStep, CtxStep, poolVars, LoopStep, Tick,
         StartCall, Return, ReturnClosed, ReturnWith, EndCycle, RunStep, RunCloseDone,
         RunCloseResp, RunCloseCh, FeederStep, FeederSelect, FeederSend, FeederPanics,
         WorkerStep, WorkerTake, WorkerStop, WorkerGetOrder, WorkerSend
<1>3. worker' \in WorkerType /\ feeder' \in FeederType
  BY WorkerTypeStep, FeederTypeStep
<1> QED BY <1>1, <1>2, <1>3, ChannelTypeStep, CallerTypeStep, Zenon
        DEF PoolTypeOK, WorkerType, FeederType

LEMMA StoppingStep ==
    ASSUME PoolInv, PoolNext
    PROVE  Stopping'
<1> USE DEF PoolInv
<1>1. ctxDone => ctxDone'
  BY DEF PoolNext, PoolStep, CtxStep, poolVars, channelVars, LoopStep, Tick,
         StartCall, Return, ReturnClosed, ReturnWith, EndCycle, RunStep, RunCloseDone,
         RunCloseResp, RunCloseCh, FeederStep, FeederSelect, FeederSend, FeederPanics,
         WorkerStep, WorkerTake, WorkerStop, WorkerGetOrder, WorkerSend
<1>2. Started' = Started
  BY StartedSteady
<1>3. ASSUME UNCHANGED worker PROVE \A w \in Workers : worker'[w].pc = "stopped" => ctxDone'
  BY <1>1, <1>3 DEF Stopping
<1>4. ASSUME NEW w \in Workers, WorkerStep(w)
      PROVE  /\ \A v \in Workers : worker'[v].pc = "stopped" => ctxDone'
             /\ run = "Wait" /\ run' = run /\ respClosed' = respClosed
  <2>1. /\ \A v \in Workers : v # w => worker'[v] = worker[v]
        /\ worker'[w].pc = "stopped" => ctxDone
        /\ worker[w].pc \notin {"absent", "stopped"}
    BY <1>4, TakeEffect, SendEffect, MovesOnEffect DEF WorkerStep, MovesOn
  <2>2. run = "Wait"
    BY <2>1 DEF Stopping, Started
  <2>3. run' = run /\ respClosed' = respClosed
    BY <1>4 DEF WorkerStep, WorkerTake, WorkerStop, WorkerGetOrder, WorkerSend, channelVars
  <2> QED BY <1>1, <2>1, <2>2, <2>3 DEF Stopping
<1>5. ASSUME UNCHANGED worker
      PROVE  /\ run' # "Wait" => \A w \in Started : worker[w].pc = "stopped"
             /\ respClosed' => run' # "Wait"
  <2>1. CASE RunStep
    BY <2>1 DEF Stopping, RunStep, RunCloseDone, RunCloseResp, RunCloseCh
  <2>2. CASE UNCHANGED <<run, respClosed>>
    BY <2>2 DEF Stopping
  <2>3. RunStep \/ UNCHANGED <<run, respClosed>>
    BY DEF PoolNext, PoolStep, CtxStep, poolVars, channelVars, LoopStep, Tick,
           StartCall, Return, ReturnClosed, ReturnWith, EndCycle, FeederStep, FeederSelect,
           FeederSend, FeederPanics, WorkerStep, WorkerTake, WorkerStop, WorkerGetOrder,
           WorkerSend
  <2> QED BY <2>1, <2>2, <2>3
<1>6. UNCHANGED worker \/ \E w \in Workers : WorkerStep(w)
  BY DEF PoolNext, PoolStep, CtxStep, poolVars, LoopStep, Tick, StartCall, Return, ReturnClosed,
         ReturnWith, EndCycle, RunStep, RunCloseDone, RunCloseResp, RunCloseCh, FeederStep,
         FeederSelect, FeederSend, FeederPanics
<1>7. CASE UNCHANGED worker
  BY <1>2, <1>3, <1>5, <1>7 DEF Stopping
<1>8. CASE \E w \in Workers : WorkerStep(w)
  BY <1>4, <1>8 DEF Stopping
<1> QED BY <1>6, <1>7, <1>8

\* When the caller has all its results, has not called yet, or there is no worker, the
\* pool holds nothing.
LEMMA NothingLeft ==
    ASSUME PoolInv, call = 0 \/ Complete \/ Started = {}
    PROVE  /\ Len(ch) = 0 /\ Busy = {}
           /\ call > 0 /\ Complete => feeder[call].next = Len(Ids) + 1
<1> USE DEF PoolInv
<1> DEFINE B == Cardinality(Busy)
<1>1. /\ Len(ch) \in Nat /\ got \in Nat /\ call \in Nat /\ Len(Ids) \in Nat \ {0}
      /\ B \in Nat /\ Taken \in Nat /\ Taken = got + B /\ Taken = Sent - Len(ch)
  BY TypeFacts, SetIsFinite DEF Busy, Places, Counts, Taken
<1>2. B = 0 => Busy = {}
  BY SetIsFinite, FS_EmptySet DEF Busy
<1>3. call > 0 => Sent = feeder[call].next - 1 /\ feeder[call].next \in 1 .. Len(Ids) + 1
  BY TypeFacts DEF Sent
<1> HIDE DEF B
<1>4. CASE call = 0
  <2>1. Sent = 0
    BY <1>4 DEF Sent
  <2>2. Len(ch) = 0 /\ B = 0
    BY <1>1, <2>1
  <2> QED BY <1>2, <1>4, <2>2
<1>5. CASE call > 0 /\ Complete
  <2>1. got = Len(Ids)
    BY <1>5 DEF Complete
  <2>2. Sent <= Len(Ids) /\ Sent \in Nat /\ feeder[call].next = Sent + 1
    BY <1>1, <1>3, <1>5
  <2>3. Sent = Len(Ids) + B + Len(ch)
    BY <1>1, <2>1, <2>2
  <2>4. Len(ch) = 0 /\ B = 0 /\ Sent = Len(Ids)
    BY <1>1, <2>2, <2>3
  <2> QED BY <1>2, <2>2, <2>4
<1>6. CASE call > 0 /\ ~Complete /\ Started = {}
  <2>1. Busy = {}
    BY <1>6 DEF Busy, Started
  <2>2. MaxRateLimit = 0
    BY <1>6, FS_EmptySet DEF MaxRateLimit
  <2>3. Len(ch) = 0
    <3>1. Len(ch) <= MaxRateLimit
      BY Zenon DEF PoolTypeOK
    <3> QED BY <1>1, <2>2, <3>1
  <2> QED BY <1>6, <2>1, <2>3
<1> QED BY <1>1, <1>4, <1>5, <1>6

LEMMA FeedersStep ==
    ASSUME PoolInv, PoolNext
    PROVE  Feeders'
<1> USE DEF PoolInv
<1>1. Started' = Started
  BY StartedSteady
<1>2. respClosed => respClosed'
  BY DEF PoolNext, PoolStep, CtxStep, poolVars, channelVars, LoopStep, Tick,
         StartCall, Return, ReturnClosed, ReturnWith, EndCycle, RunStep, RunCloseDone,
         RunCloseResp, RunCloseCh, FeederStep, FeederSelect, FeederSend, FeederPanics,
         WorkerStep, WorkerTake, WorkerStop, WorkerGetOrder, WorkerSend
<1>3. call \in Nat /\ \A c \in Calls : c \in Nat
  BY TypeFacts DEF Calls
<1>4. CASE UNCHANGED <<feeder, call>>
  BY <1>1, <1>2, <1>4 DEF Feeders
<1>5. CASE StartCall
  <2>1. /\ call' = call + 1 /\ call' \in Calls
        /\ feeder'[call'].next = 1 /\ feeder'[call'].pc = "select"
        /\ \A c \in Calls : c # call' => feeder'[c] = feeder[c]
    BY <1>5, StartCallEffect
  <2>2. ASSUME NEW c \in Calls, feeder'[c].pc = "ch" PROVE feeder'[c].next <= Len(Ids)
    BY <2>1, <2>2 DEF Feeders
  <2>3. ASSUME NEW c \in Calls, c > call' PROVE feeder'[c] = [pc |-> "none", next |-> 1]
    <3>1. c > call /\ c # call'
      BY <1>3, <2>1, <2>3
    <3> QED BY <2>1, <3>1 DEF Feeders
  <2>4. ASSUME NEW c \in Calls, c < call'
        PROVE  feeder'[c].next > Len(Ids) \/ (Started = {} /\ respClosed')
    <3>1. feeder'[c] = feeder[c]
      BY <1>3, <2>1, <2>4
    <3>2. CASE c < call
      BY <1>2, <3>1, <3>2 DEF Feeders
    <3>3. CASE c = call
      <4>1. call > 0 /\ (Complete \/ (Started = {} /\ respClosed))
        <5>1. call > 0
          BY <3>3 DEF Calls
        <5> QED BY <1>5, <5>1 DEF StartCall, Caller
      <4>2. CASE Started = {} /\ respClosed
        BY <1>2, <4>2
      <4>3. CASE Complete
        <5>1. feeder[c].next = Len(Ids) + 1 /\ Len(Ids) \in Nat
          BY <3>3, <4>1, <4>3, NothingLeft, TypeFacts
        <5> QED BY <3>1, <5>1
      <4> QED BY <4>1, <4>2, <4>3
    <3>4. c < call \/ c = call
      BY <1>3, <2>1, <2>4
    <3> QED BY <3>2, <3>3, <3>4
  <2> QED BY <1>1, <2>2, <2>3, <2>4 DEF Feeders
<1>6. ASSUME NEW k \in Calls, FeederSelect(k) PROVE Feeders'
  <2>1. /\ \A c \in Calls : feeder'[c].next = feeder[c].next
        /\ \A c \in Calls : c # k => feeder'[c] = feeder[c]
        /\ feeder[k].pc = "select"
        /\ feeder'[k].pc = "ch" => feeder[k].next <= Len(Ids)
    BY <1>6, FeederSelectEffect
  <2>2. UNCHANGED call
    BY <1>6 DEF FeederSelect, callerVars
  <2>3. ASSUME NEW c \in Calls, c > call PROVE c # k
    BY <2>1, <2>3 DEF Feeders
  <2> QED BY <1>1, <1>2, <2>1, <2>2, <2>3 DEF Feeders
<1>7. ASSUME NEW k \in Calls, FeederSend(k) PROVE Feeders'
  <2>1. /\ k = call /\ feeder'[k].pc = "select"
        /\ \A c \in Calls : c # k => feeder'[c] = feeder[c]
    BY <1>7, FeederSendEffect
  <2>2. UNCHANGED call
    BY <1>7 DEF FeederSend, callerVars
  <2>3. \A c \in Calls : c > call \/ c < call => c # k
    BY <1>3, <2>1
  <2>4. \A c \in Calls : feeder'[c].pc = "ch" => feeder'[c].next <= Len(Ids)
    BY <2>1 DEF Feeders
  <2> QED BY <1>1, <1>2, <2>1, <2>2, <2>3, <2>4 DEF Feeders
<1>8. \/ UNCHANGED <<feeder, call>> \/ StartCall
      \/ \E c \in Calls : FeederSelect(c) \/ FeederSend(c)
  BY DEF PoolNext, PoolStep, CtxStep, poolVars, callerVars, LoopStep, Tick, Return,
         ReturnClosed, ReturnWith, EndCycle, RunStep, RunCloseDone, RunCloseResp, RunCloseCh,
         FeederStep, FeederPanics, WorkerStep, WorkerTake, WorkerStop, WorkerGetOrder,
         WorkerSend
<1> QED BY <1>4, <1>5, <1>6, <1>7, <1>8

LEMMA CallerStep ==
    ASSUME PoolInv, PoolNext
    PROVE  Caller'
<1> USE DEF PoolInv
<1>1. Started' = Started
  BY StartedSteady
<1>2. respClosed => respClosed'
  BY DEF PoolNext, PoolStep, CtxStep, poolVars, channelVars, LoopStep, Tick,
         StartCall, Return, ReturnClosed, ReturnWith, EndCycle, RunStep, RunCloseDone,
         RunCloseResp, RunCloseCh, FeederStep, FeederSelect, FeederSend, FeederPanics,
         WorkerStep, WorkerTake, WorkerStop, WorkerGetOrder, WorkerSend
<1>3. CASE UNCHANGED <<loop, call, got>>
  BY <1>1, <1>2, <1>3 DEF Caller, Complete
<1>4. CASE Tick
  <2>1. UNCHANGED <<call, got, respClosed>> /\ loop = "tick"
    BY <1>4 DEF Tick, channelVars
  <2>2. CASE loop' = "stopped"
    BY <1>1, <2>1, <2>2 DEF Caller, Complete
  <2>3. CASE ~ctxDone /\ call < MaxCalls /\ loop' = "OrdersByStatus"
    <3>1. respClosed => Started = {}
      BY <2>3 DEF Stopping, Started
    <3> QED BY <1>1, <2>1, <2>3, <3>1 DEF Caller, Complete
  <2> QED BY <1>4, <2>2, <2>3 DEF Tick
<1>5. CASE StartCall
  <2>1. loop' = "GetOrders" /\ call' > 0
    BY <1>5, TypeFacts DEF StartCall
  <2> QED BY <2>1 DEF Caller
<1>6. CASE Return \/ ReturnClosed
  BY <1>6 DEF Return, ReturnClosed, ReturnWith, Caller, Complete, channelVars
<1>7. CASE EndCycle
  BY <1>7 DEF EndCycle, Caller, Complete, channelVars
<1>8. ASSUME NEW w \in Workers, WorkerSend(w) PROVE Caller'
  BY <1>8 DEF WorkerSend, Caller
<1>9. UNCHANGED <<loop, call, got>> \/ LoopStep \/ \E w \in Workers : WorkerSend(w)
  BY DEF PoolNext, PoolStep, CtxStep, poolVars, callerVars, RunStep, RunCloseDone,
         RunCloseResp, RunCloseCh, FeederStep, FeederSelect, FeederSend, FeederPanics,
         WorkerStep, WorkerTake, WorkerStop, WorkerGetOrder
<1> QED BY <1>3, <1>4, <1>5, <1>6, <1>7, <1>8, <1>9 DEF LoopStep

\* The numbers of a call are its own and differ.
LEMMA OneMoreJob ==
    ASSUME NEW n \in Nat
    PROVE  FirstJobs(n + 1) = FirstJobs(n) \cup {JobOf(n + 1)}
<1>1. 1 .. n + 1 = (1 .. n) \cup {n + 1}
  OBVIOUS
<1> QED BY <1>1 DEF FirstJobs

LEMMA JobIsNew ==
    ASSUME NEW n \in Nat, n < Len(Ids)
    PROVE  JobOf(n + 1) \notin FirstJobs(n)
<1>1. Len(Ids) \in Nat /\ DOMAIN Ids = 1 .. Len(Ids)
  BY PoolAssumption
<1>2. ASSUME NEW i \in 1 .. n, JobOf(n + 1) = JobOf(i) PROVE FALSE
  <2>1. Ids[n + 1] = Ids[i]
    BY <1>2 DEF JobOf
  <2>2. n + 1 \in DOMAIN Ids /\ i \in DOMAIN Ids /\ n + 1 # i
    BY <1>1
  <2> QED BY <2>1, <2>2, PoolAssumption DEF IsInjective
<1> QED BY <1>2 DEF FirstJobs

\* What leaves the numbers where they are.
LEMMA PlacesQuiet ==
    ASSUME Places, UNCHANGED <<ch, call, results>>, Sent' = Sent, Busy' = Busy,
           \A w \in Workers : worker'[w].job = worker[w].job
    PROVE  Places'
<1>1. Taken' = Taken
  BY DEF Taken
<1>2. \A i : JobOf(i)' = JobOf(i)
  BY DEF JobOf
<1>3. FirstJobs(Taken)' = FirstJobs(Taken)
  BY <1>1, <1>2 DEF FirstJobs
<1>4. JobsOf(Busy)' = JobsOf(Busy)
  BY DEF JobsOf, Busy
<1> QED BY <1>1, <1>2, <1>3, <1>4 DEF Places, Busy

\* The number a worker takes is the next one of the call.
LEMMA PlacesTake ==
    ASSUME PoolInv, NEW w \in Workers, WorkerTake(w)
    PROVE  Places' /\ Taken' = Taken + 1 /\ Busy' = Busy \cup {w} /\ w \notin Busy
<1> USE DEF PoolInv
<1>1. /\ worker'[w].job = ch[1] /\ Busy' = Busy \cup {w} /\ w \notin Busy
      /\ \A v \in Workers : v # w => worker'[v] = worker[v]
      /\ Len(ch) > 0 /\ Len(ch') = Len(ch) - 1
      /\ \A i \in 1 .. Len(ch') : ch'[i] = ch[i + 1]
  BY TakeEffect
<1>2. UNCHANGED <<call, results, feeder>>
  BY DEF WorkerTake, callerVars
<1>3. Sent' = Sent
  BY <1>2 DEF Sent
<1>4. Sent \in 0 .. Len(Ids) /\ Len(Ids) \in Nat /\ Len(ch) \in Nat /\ Taken \in Nat
  <2>1. call > 0 => feeder[call].next \in 1 .. Len(Ids) + 1
    BY TypeFacts
  <2>2. call \in Nat /\ Len(Ids) \in Nat /\ Len(ch) \in Nat /\ Taken \in Nat
    BY TypeFacts DEF Places
  <2> QED BY <2>1, <2>2 DEF Sent
<1>5. Taken' = Taken + 1 /\ Taken < Len(Ids)
  BY <1>1, <1>3, <1>4 DEF Taken
<1>6. \A i : JobOf(i)' = JobOf(i)
  BY <1>2 DEF JobOf
<1>7. ch[1] = JobOf(Taken + 1)
  BY <1>1, <1>4 DEF Places
<1>8. FirstJobs(Taken)' = FirstJobs(Taken) \cup {ch[1]}
  <2>1. FirstJobs(Taken)' = FirstJobs(Taken + 1)
    BY <1>5, <1>6 DEF FirstJobs
  <2> QED BY <2>1, <1>4, <1>7, OneMoreJob
<1>9. ch[1] \notin results /\ ch[1] \notin JobsOf(Busy)
  BY <1>4, <1>5, <1>7, JobIsNew DEF Places
<1>10. \A v \in Busy : v \in Workers /\ worker'[v].job = worker[v].job
  BY <1>1 DEF Busy
<1>11. JobsOf(Busy)' = JobsOf(Busy) \cup {ch[1]}
  BY <1>1, <1>10 DEF JobsOf
<1>12. ASSUME NEW i \in 1 .. Len(ch') PROVE ch'[i] = JobOf(Taken' + i)
  <2>1. i + 1 \in 1 .. Len(ch) /\ i \in Nat
    BY <1>1, <1>4
  <2>2. ch[i + 1] = JobOf(Taken + (i + 1))
    BY <2>1 DEF Places
  <2>3. Taken + (i + 1) = Taken' + i
    BY <1>4, <1>5, <2>1
  <2> QED BY <1>1, <2>2, <2>3
<1>13. \A v \in Busy' : worker'[v].job \notin results'
  BY <1>1, <1>2, <1>9, <1>10 DEF Places
<1>14. \A u, v \in Busy' : worker'[u].job = worker'[v].job => u = v
  <2>1. \A v \in Busy : worker'[v].job # worker'[w].job
    BY <1>1, <1>9, <1>10 DEF JobsOf
  <2> QED BY <1>1, <1>10, <2>1 DEF Places
<1>15. Taken' \in Nat
  BY <1>4, <1>5
<1>16. (results \cup JobsOf(Busy))' = FirstJobs(Taken)'
  BY <1>2, <1>8, <1>11 DEF Places
<1> QED BY <1>1, <1>5, <1>6, <1>12, <1>13, <1>14, <1>15, <1>16 DEF Places

\* A result passes from its worker to the caller.
LEMMA PlacesSend ==
    ASSUME PoolInv, NEW w \in Workers, WorkerSend(w)
    PROVE  /\ Places' /\ Taken' = Taken
           /\ worker[w].job \notin results /\ worker[w].job \in FirstJobs(Taken)
<1> USE DEF PoolInv
<1>1. /\ Busy' = Busy \ {w} /\ w \in Busy
      /\ \A v \in Workers : v # w => worker'[v] = worker[v]
  BY SendEffect
<1>2. UNCHANGED <<call, feeder, ch>> /\ results' = results \cup {worker[w].job}
  BY DEF WorkerSend, channelVars
<1>3. Taken' = Taken
  BY <1>2 DEF Taken, Sent
<1>4. \A i : JobOf(i)' = JobOf(i)
  BY <1>2 DEF JobOf
<1>5. FirstJobs(Taken)' = FirstJobs(Taken)
  BY <1>3, <1>4 DEF FirstJobs
<1>6. \A v \in Busy' : v \in Busy /\ v # w /\ worker'[v].job = worker[v].job
  BY <1>1 DEF Busy
<1>7. JobsOf(Busy) = JobsOf(Busy)' \cup {worker[w].job}
  BY <1>1, <1>6 DEF JobsOf
<1>8. (results \cup JobsOf(Busy))' = results \cup JobsOf(Busy)
  BY <1>2, <1>7
<1>9. \A v \in Busy' : worker'[v].job \notin results'
  BY <1>1, <1>2, <1>6 DEF Places
<1>10. \A u, v \in Busy' : worker'[u].job = worker'[v].job => u = v
  BY <1>6 DEF Places
<1>11. worker[w].job \notin results /\ worker[w].job \in FirstJobs(Taken)
  BY <1>1 DEF Places, JobsOf
<1> QED BY <1>2, <1>3, <1>4, <1>5, <1>8, <1>9, <1>10, <1>11 DEF Places

\* The feeder sends the number after those it sent before.
LEMMA PlacesFeed ==
    ASSUME PoolInv, NEW c \in Calls, FeederSend(c)
    PROVE  Places' /\ Taken' = Taken
<1> USE DEF PoolInv
<1>1. /\ c = call /\ feeder'[c].next = feeder[c].next + 1 /\ Len(ch') = Len(ch) + 1
      /\ \A i \in 1 .. Len(ch) : ch'[i] = ch[i]
      /\ ch'[Len(ch) + 1] = [call |-> c, id |-> Ids[feeder[c].next]]
  BY FeederSendEffect
<1>2. UNCHANGED <<call, results, worker>>
  BY DEF FeederSend, callerVars
<1>3. feeder[c].next \in Nat /\ Len(ch) \in Nat /\ Taken \in Nat /\ call # 0
  <2>1. feeder[c].next \in 1 .. Len(Ids) + 1 /\ Len(ch) \in Nat
    BY TypeFacts
  <2>2. call # 0
    BY <1>1 DEF Calls
  <2> QED BY <2>1, <2>2 DEF Places
<1>4. Sent = feeder[c].next - 1 /\ Sent' = feeder[c].next
  BY <1>1, <1>2, <1>3 DEF Sent
<1>5. Taken' = Taken /\ Taken + (Len(ch) + 1) = feeder[c].next
  <2>1. Taken = Sent - Len(ch) /\ Taken' = Sent' - Len(ch')
    BY DEF Taken
  <2>2. Taken = feeder[c].next - 1 - Len(ch) /\ Taken' = feeder[c].next - Len(ch')
    BY <1>4, <2>1
  <2>3. Len(ch') = Len(ch) + 1
    BY <1>1
  <2>4. \A n, l \in Nat : n - (l + 1) = n - 1 - l /\ (n - 1 - l) + (l + 1) = n
    OBVIOUS
  <2>5. /\ feeder[c].next - (Len(ch) + 1) = feeder[c].next - 1 - Len(ch)
        /\ (feeder[c].next - 1 - Len(ch)) + (Len(ch) + 1) = feeder[c].next
    BY <1>3, <2>4, Zenon
  <2>6. Taken' = Taken
    BY <2>2, <2>3, <2>5, Zenon
  <2>7. Taken + (Len(ch) + 1) = feeder[c].next
    BY <2>2, <2>5, Zenon
  <2> QED BY <2>6, <2>7
<1>6. \A i : JobOf(i)' = JobOf(i)
  BY <1>2 DEF JobOf
<1>7. FirstJobs(Taken)' = FirstJobs(Taken)
  BY <1>5, <1>6 DEF FirstJobs
<1>8. ASSUME NEW i \in 1 .. Len(ch') PROVE ch'[i] = JobOf(Taken + i)
  <2>1. CASE i \in 1 .. Len(ch)
    BY <1>1, <2>1 DEF Places
  <2>2. CASE i = Len(ch) + 1
    BY <1>1, <1>5, <2>2 DEF JobOf
  <2> QED BY <1>1, <1>3, <2>1, <2>2
<1>9. Busy' = Busy /\ JobsOf(Busy)' = JobsOf(Busy)
  BY <1>2 DEF Busy, JobsOf
<1> QED BY <1>2, <1>5, <1>6, <1>7, <1>8, <1>9 DEF Places

\* A new call begins with an empty pool.
LEMMA PlacesStart ==
    ASSUME PoolInv, StartCall
    PROVE  Places' /\ Taken' = 0 /\ Busy' = {}
<1> USE DEF PoolInv
<1>1. call = 0 \/ Complete \/ Started = {}
  BY DEF StartCall, Caller
<1>2. Len(ch) = 0 /\ Busy = {}
  BY <1>1, NothingLeft
<1>3. UNCHANGED <<ch, worker>> /\ results' = {}
  BY DEF StartCall, channelVars
<1>4. feeder'[call'].next = 1 /\ call' # 0
  BY StartCallEffect DEF Calls
<1>5. Taken' = 0 /\ Len(ch') = 0
  <2>1. Sent' = 0
    BY <1>4 DEF Sent
  <2>2. Len(ch') = 0
    BY <1>2, <1>3
  <2> QED BY <2>1, <2>2 DEF Taken
<1>6. Busy' = {} /\ JobsOf(Busy)' = {}
  BY <1>2, <1>3 DEF Busy, JobsOf
<1>7. FirstJobs(Taken)' = {}
  BY <1>5 DEF FirstJobs
<1>8. 1 .. Len(ch') = {} /\ Taken' \in Nat
  BY <1>5
<1> QED BY <1>3, <1>5, <1>6, <1>7, <1>8, Zenon DEF Places

LEMMA PlacesStep ==
    ASSUME PoolInv, PoolNext
    PROVE  Places' /\ Counts'
<1> USE DEF PoolInv
<1>1. ASSUME NEW w \in Workers, WorkerTake(w) PROVE Places' /\ Counts'
  <2>1. Places' /\ Taken' = Taken + 1 /\ Busy' = Busy \cup {w} /\ w \notin Busy
    BY <1>1, PlacesTake
  <2>2. UNCHANGED <<got, results>>
    BY <1>1 DEF WorkerTake, callerVars
  <2>3. Cardinality(Busy') = Cardinality(Busy) + 1
    BY <2>1, SetIsFinite, FS_AddElement DEF Busy
  <2>4. got \in Nat /\ Cardinality(Busy) \in Nat
    BY TypeFacts, SetIsFinite DEF Busy
  <2> QED BY <2>1, <2>2, <2>3, <2>4 DEF Counts
<1>2. ASSUME NEW w \in Workers, WorkerSend(w) PROVE Places' /\ Counts'
  <2>1. Places' /\ Taken' = Taken /\ worker[w].job \notin results
    BY <1>2, PlacesSend
  <2>2. Busy' = Busy \ {w} /\ w \in Busy
    BY <1>2, SendEffect
  <2>3. got' = got + 1 /\ results' = results \cup {worker[w].job}
    BY <1>2 DEF WorkerSend
  <2>4. IsFiniteSet(results') /\ Cardinality(results') = Cardinality(results) + 1
    BY <2>1, <2>3, FS_AddElement DEF Counts
  <2>5. Cardinality(Busy') = Cardinality(Busy) - 1
    BY <2>2, SetIsFinite, FS_RemoveElement DEF Busy
  <2>6. got \in Nat /\ Cardinality(Busy) \in Nat
    BY TypeFacts, SetIsFinite DEF Busy
  <2>7. Taken' = got' + Cardinality(Busy')
    BY <2>1, <2>3, <2>5, <2>6 DEF Counts
  <2> QED BY <2>1, <2>3, <2>4, <2>7 DEF Counts
<1>3. ASSUME NEW c \in Calls, FeederSend(c) PROVE Places' /\ Counts'
  <2>1. Places' /\ Taken' = Taken
    BY <1>3, PlacesFeed
  <2>2. UNCHANGED <<got, results, worker>>
    BY <1>3 DEF FeederSend, callerVars
  <2>3. Busy' = Busy
    BY <2>2 DEF Busy
  <2> QED BY <2>1, <2>2, <2>3 DEF Counts
<1>4. CASE StartCall
  <2>1. Places' /\ Taken' = 0 /\ Busy' = {}
    BY <1>4, PlacesStart
  <2>2. got' = 0 /\ results' = {}
    BY <1>4 DEF StartCall
  <2> QED BY <2>1, <2>2, FS_EmptySet DEF Counts
<1>5. ASSUME UNCHANGED <<ch, call, results, got>>, Sent' = Sent, Busy' = Busy,
             \A w \in Workers : worker'[w].job = worker[w].job
      PROVE  Places' /\ Counts'
  <2>1. Places'
    BY <1>5, PlacesQuiet
  <2>2. Taken' = Taken
    BY <1>5 DEF Taken
  <2> QED BY <1>5, <2>1, <2>2 DEF Counts
<1>6. ASSUME NEW w \in Workers, MovesOn(w) PROVE Places' /\ Counts'
  <2>1. Busy' = Busy /\ \A v \in Workers : worker'[v].job = worker[v].job
    BY <1>6, MovesOnEffect
  <2>2. UNCHANGED <<ch, call, results, got, feeder>>
    BY <1>6 DEF MovesOn, WorkerStop, WorkerGetOrder, channelVars, callerVars
  <2>3. Sent' = Sent
    BY <2>2 DEF Sent
  <2> QED BY <1>5, <2>1, <2>2, <2>3
<1>7. ASSUME NEW c \in Calls, FeederSelect(c) PROVE Places' /\ Counts'
  <2>1. UNCHANGED <<ch, call, results, got, worker>>
    BY <1>7 DEF FeederSelect, channelVars, callerVars
  <2>2. Sent' = Sent
    <3>1. \A k \in Calls : feeder'[k].next = feeder[k].next
      BY <1>7, FeederSelectEffect
    <3>2. call = 0 \/ call \in Calls
      BY TypeFacts
    <3> QED BY <2>1, <3>1, <3>2 DEF Sent
  <2>3. Busy' = Busy
    BY <2>1 DEF Busy
  <2> QED BY <1>5, <2>1, <2>2, <2>3
<1>8. CASE UNCHANGED <<ch, call, results, got, worker, feeder>>
  <2>1. Sent' = Sent /\ Busy' = Busy
    BY <1>8 DEF Sent, Busy
  <2> QED BY <1>5, <1>8, <2>1
<1>9. \/ StartCall \/ \E c \in Calls : FeederSend(c) \/ FeederSelect(c)
      \/ \E w \in Workers : WorkerTake(w) \/ WorkerSend(w) \/ MovesOn(w)
      \/ UNCHANGED <<ch, call, results, got, worker, feeder>>
  BY DEF PoolNext, PoolStep, CtxStep, poolVars, channelVars, callerVars, LoopStep, Tick,
         Return, ReturnClosed, ReturnWith, EndCycle, RunStep, RunCloseDone, RunCloseResp,
         RunCloseCh, FeederStep, FeederPanics, WorkerStep, MovesOn
<1> QED BY <1>1, <1>2, <1>3, <1>4, <1>6, <1>7, <1>8, <1>9

LEMMA PoolInvInit == LifeInit => PoolInv
<1> SUFFICES ASSUME LifeInit PROVE PoolInv
  OBVIOUS
<1>1. PICK pool \in Pools :
          worker = [w \in Workers |->
                       [pc |-> IF w \in pool THEN "select" ELSE "absent", job |-> Null]]
  BY DEF LifeInit, PoolInit
<1>2. /\ worker \in WorkerType
      /\ \A w \in Workers : worker[w].pc \in {"select", "absent"}
  BY <1>1 DEF WorkerType
<1>3. Busy = {} /\ JobsOf(Busy) = {}
  BY <1>2 DEF Busy, JobsOf
<1>4. Len(Ids) \in Nat \ {0} /\ MaxCalls \in Nat
  BY PoolAssumption
<1>5. ch = <<>> /\ Len(ch) = 0 /\ ch \in Seq(Job)
  BY DEF LifeInit, PoolInit
<1>6. PoolTypeOK
  <2>1. MaxRateLimit \in Nat
    BY SetIsFinite DEF MaxRateLimit, Started
  <2>2. feeder \in FeederType
    BY <1>4 DEF LifeInit, PoolInit, FeederType
  <2>3. /\ call \in 0 .. MaxCalls /\ got \in 0 .. Len(Ids) /\ results \subseteq Job
        /\ returned \in [Calls -> {Null, "closed", "complete"}]
    BY <1>4 DEF LifeInit, PoolInit
  <2>4. /\ {ctxDone, chClosed, respClosed, doneClosed, panicked} \subseteq BOOLEAN
        /\ run \in {"Wait", "close respCh", "close ch", "returned"}
        /\ loop \in {"tick", "OrdersByStatus", "GetOrders", "rest", "stopped"}
    BY DEF LifeInit, PoolInit
  <2>5. Len(ch) <= MaxRateLimit
    BY <1>5, <2>1
  <2> QED BY <1>2, <1>5, <2>2, <2>3, <2>4, <2>5, Zenon DEF PoolTypeOK, WorkerType, FeederType
<1>7. Taken = 0 /\ got = 0 /\ results = {} /\ call = 0 /\ loop = "tick"
  <2>1. got = 0 /\ results = {} /\ call = 0 /\ loop = "tick"
    BY DEF LifeInit, PoolInit
  <2>2. Sent = 0
    BY <2>1 DEF Sent
  <2>3. Taken = 0
    <3>1. Len(ch) = 0
      BY <1>5
    <3> QED BY <2>2, <3>1 DEF Taken
  <2> QED BY <2>1, <2>3
<1>8. Places
  <2>1. FirstJobs(Taken) = {} /\ 1 .. Len(ch) = {} /\ Taken \in Nat
    BY <1>5, <1>7 DEF FirstJobs
  <2> QED BY <1>3, <1>7, <2>1, Zenon DEF Places
<1>9. Counts
  BY <1>3, <1>7, FS_EmptySet DEF Counts
<1>10. Stopping
  BY <1>2 DEF LifeInit, PoolInit, Stopping
<1>11. Feeders
  <2>1. \A c \in Calls : feeder[c] = [pc |-> "none", next |-> 1] /\ c \in Nat /\ ~(c < 0)
    BY DEF LifeInit, PoolInit, Calls
  <2> QED BY <1>7, <2>1 DEF Feeders
<1>12. Caller
  BY <1>7 DEF Caller
<1> QED BY <1>6, <1>8, <1>9, <1>10, <1>11, <1>12 DEF PoolInv

LEMMA PoolInvStep == PoolInv /\ [LifeNext]_lifeVars => PoolInv'
<1> SUFFICES ASSUME PoolInv, PoolNext PROVE PoolInv'
  BY StepOfPool
<1> QED BY PoolTypeStep, PlacesStep, StoppingStep, FeedersStep, CallerStep DEF PoolInv

-----------------------------------------------------------------------------

\* Every number a call sent is in the channel, with a worker, or answered, once.
THEOREM PoolInvariant == LifeSpec => []PoolInv
BY PoolInvInit, PoolInvStep, PTL DEF LifeSpec

\* The variables of the process and its pool keep their types: the channel never holds
\* more numbers than there are workers, a feeder never passes the end of its call, and
\* a caller never takes more results than it sent numbers.
THEOREM LifeTypes == LifeSpec => []LifeTypeOK
<1> DEFINE MainType == /\ http \in {"serving", "returned"}
                       /\ shutdown \in {"Done", "Shutdown", "returned"}
                       /\ request \in [Requests -> {"new", "running", "answered"}]
                       /\ exited \in BOOLEAN
<1>1. LifeInit => MainType
  BY DEF LifeInit
<1>2. MainType /\ [LifeNext]_lifeVars => MainType'
  <2> SUFFICES ASSUME MainType, [LifeNext]_lifeVars PROVE MainType'
    OBVIOUS
  <2>1. \A q \in Requests, v \in {"running", "answered"} :
            [request EXCEPT ![q] = v] \in [Requests -> {"new", "running", "answered"}]
    OBVIOUS
  <2>2. request' \in [Requests -> {"new", "running", "answered"}]
    BY <2>1 DEF LifeNext, ServerHoldsNext, lifeVars, mainVars, PoolRuns, MainStep,
           SignalArrives, Gone, ListenFails, RequestStarts, RequestEnds, ShutdownStarts, ListenReturns, ShutdownReturns,
           MainReturns
  <2> QED BY <2>2 DEF LifeNext, ServerHoldsNext, lifeVars, mainVars, PoolRuns, MainStep,
                 SignalArrives, Gone, ListenFails, RequestStarts, RequestEnds, ShutdownStarts, ListenReturns,
                 ShutdownReturns, MainReturns
<1>3. PoolInv /\ MainType => LifeTypeOK
  BY DEF PoolInv, LifeTypeOK
<1> HIDE DEF MainType
<1> QED BY <1>1, <1>2, <1>3, PoolInvariant, PTL DEF LifeSpec

\* What GetOrders counts are answers to its own numbers, each once: a call never takes
\* the result of another, and counting is enough.
THEOREM CallsGetTheirAnswers == LifeSpec => []ResultsMatchCall
<1>1. PoolInv => ResultsMatchCall
  <2> SUFFICES ASSUME PoolInv PROVE ResultsMatchCall
    OBVIOUS
  <2>1. results \subseteq FirstJobs(Taken)
    BY DEF PoolInv, Places
  <2>2. \A x \in results : x.call = call
    BY <2>1 DEF FirstJobs, JobOf
  <2> QED BY <2>2 DEF PoolInv, Counts, ResultsMatchCall
<1> QED BY <1>1, PoolInvariant, PTL

\* A pool that runs is empty between calls: nothing of a call is left for the next one.
THEOREM PoolIsIdle == LifeSpec => []IdleBetweenCalls
<1>1. PoolInv => IdleBetweenCalls
  <2> SUFFICES ASSUME PoolInv, loop # "GetOrders", ~respClosed PROVE IdleBetweenCalls
    BY DEF IdleBetweenCalls
  <2> USE DEF PoolInv
  <2>1. call = 0 \/ Complete
    BY DEF Caller
  <2>2. /\ Len(ch) = 0 /\ Busy = {}
        /\ call > 0 => feeder[call].next = Len(Ids) + 1
    BY <2>1, NothingLeft
  <2>3. ch = <<>>
    BY <2>2, TypeFacts
  <2>4. \A w \in Started : worker[w].pc \in {"select", "stopped"}
    BY <2>2, TypeFacts DEF Busy, Started
  <2>5. ASSUME NEW c \in Calls, feeder[c].pc = "ch" PROVE FALSE
    <3>1. /\ c \in Nat \ {0} /\ call \in Nat /\ Len(Ids) \in Nat
          /\ feeder[c].next \in Nat /\ feeder[c].next <= Len(Ids)
      <4>1. feeder[c].next \in 1 .. Len(Ids) + 1 /\ call \in Nat /\ Len(Ids) \in Nat
        BY TypeFacts
      <4>2. feeder[c].next <= Len(Ids)
        BY <2>5 DEF Feeders
      <4> QED BY <4>1, <4>2 DEF Calls
    <3>2. CASE c > call
      BY <2>5, <3>2 DEF Feeders
    <3>3. CASE c < call
      BY <3>1, <3>3 DEF Feeders
    <3>4. CASE c = call
      BY <2>2, <3>1, <3>4
    <3> QED BY <3>1, <3>2, <3>3, <3>4
  <2> QED BY <2>3, <2>4, <2>5 DEF IdleBetweenCalls
<1> QED BY <1>1, PoolInvariant, PTL

-----------------------------------------------------------------------------
(* The panic at shutdown.                                                    *)

\* What is known when a feeder finds ch closed, and of the calls that were answered.
Closing ==
    /\ chClosed => run # "Wait"
    /\ panicked => run # "Wait" /\ \E c \in Calls : feeder[c].pc = "ch"
    /\ \A c \in Calls : returned[c] = "complete" => feeder[c].next > Len(Ids)

\* A feeder goes forward, and what a call has sent stays sent.
LEMMA FeederForward ==
    ASSUME PoolInv, PoolNext, NEW c \in Calls, feeder[c].next > Len(Ids)
    PROVE  feeder'[c].next > Len(Ids)
<1> USE DEF PoolInv
<1>0. feeder[c].next \in Nat /\ Len(Ids) \in Nat \ {0}
  BY TypeFacts
<1>1. CASE UNCHANGED feeder
  BY <1>1
<1>2. CASE StartCall
  BY <1>0, <1>2, StartCallEffect
<1>3. ASSUME NEW k \in Calls, FeederSelect(k) PROVE feeder'[c].next > Len(Ids)
  BY <1>3, FeederSelectEffect
<1>4. ASSUME NEW k \in Calls, FeederSend(k) PROVE feeder'[c].next > Len(Ids)
  <2>1. feeder[k].next <= Len(Ids) /\ \A j \in Calls : j # k => feeder'[j] = feeder[j]
    BY <1>4, FeederSendEffect
  <2>2. c # k
    BY <1>0, <2>1
  <2> QED BY <2>1, <2>2
<1>5. UNCHANGED feeder \/ StartCall \/ \E k \in Calls : FeederSelect(k) \/ FeederSend(k)
  BY DEF PoolNext, PoolStep, CtxStep, poolVars, LoopStep, Tick, Return, ReturnClosed,
         ReturnWith, EndCycle, RunStep, RunCloseDone, RunCloseResp, RunCloseCh, FeederStep,
         FeederPanics, WorkerStep, WorkerTake, WorkerStop, WorkerGetOrder, WorkerSend
<1> QED BY <1>1, <1>2, <1>3, <1>4, <1>5

LEMMA ReturnedStep ==
    ASSUME PoolInv, Closing, PoolNext, NEW c \in Calls, returned'[c] = "complete"
    PROVE  feeder'[c].next > Len(Ids)
<1>1. CASE returned[c] = "complete"
  BY <1>1, FeederForward DEF Closing
<1>2. CASE Return /\ c = call
  <2>1. call > 0 /\ Complete /\ Len(Ids) \in Nat
    BY <1>2, TypeFacts DEF PoolInv, Return, ReturnWith, Caller
  <2>2. feeder[c].next = Len(Ids) + 1
    BY <1>2, <2>1, NothingLeft
  <2> QED BY <2>1, <2>2, FeederForward
<1>3. UNCHANGED returned \/ (Return /\ \A k \in Calls : k # call => returned'[k] = returned[k])
          \/ ReturnClosed
  BY DEF PoolInv, PoolTypeOK, PoolNext, PoolStep, CtxStep, poolVars, callerVars, LoopStep, Tick,
         StartCall, Return, ReturnWith, EndCycle, RunStep, RunCloseDone, RunCloseResp,
         RunCloseCh, FeederStep, FeederSelect, FeederSend, FeederPanics, WorkerStep,
         WorkerTake, WorkerStop, WorkerGetOrder, WorkerSend
<1>4. ReturnClosed => returned'[c] = "closed" \/ returned'[c] = returned[c]
  BY DEF PoolInv, PoolTypeOK, ReturnClosed, ReturnWith
<1> QED BY <1>1, <1>2, <1>3, <1>4

LEMMA ClosingStep == PoolInv /\ Closing /\ [LifeNext]_lifeVars => Closing'
<1> SUFFICES ASSUME PoolInv, Closing, PoolNext PROVE Closing'
  BY StepOfPool
<1>1. chClosed' => run' # "Wait"
  BY DEF Closing, PoolNext, PoolStep, CtxStep, poolVars, channelVars, LoopStep, Tick,
         StartCall, Return, ReturnClosed, ReturnWith, EndCycle, RunStep, RunCloseDone,
         RunCloseResp, RunCloseCh, FeederStep, FeederSelect, FeederSend, FeederPanics,
         WorkerStep, WorkerTake, WorkerStop, WorkerGetOrder, WorkerSend
<1>2. panicked' => run' # "Wait" /\ \E c \in Calls : feeder'[c].pc = "ch"
  <2>1. CASE panicked
    <3>1. UNCHANGED <<panicked, run, feeder>>
      BY <2>1 DEF PoolNext, PoolStep, CtxStep, poolVars
    <3> QED BY <2>1, <3>1 DEF Closing
  <2>2. ASSUME NEW c \in Calls, FeederPanics(c)
        PROVE  run' # "Wait" /\ \E k \in Calls : feeder'[k].pc = "ch"
    BY <2>2 DEF Closing, FeederPanics
  <2>3. UNCHANGED panicked \/ \E c \in Calls : FeederPanics(c)
    BY DEF PoolNext, PoolStep, CtxStep, poolVars, LoopStep, Tick, StartCall, Return,
           ReturnClosed, ReturnWith, EndCycle, RunStep, RunCloseDone, RunCloseResp, RunCloseCh,
           FeederStep, FeederSelect, FeederSend, WorkerStep, WorkerTake, WorkerStop,
           WorkerGetOrder, WorkerSend
  <2> QED BY <2>1, <2>2, <2>3
<1>3. \A c \in Calls : returned'[c] = "complete" => feeder'[c].next > Len(Ids)
  BY ReturnedStep
<1> QED BY <1>1, <1>2, <1>3 DEF Closing

\* A panic costs no complete answer: it strikes a call that some answers are missing of,
\* which is the current one, when the process has been told to stop, unless the pool
\* never had a worker.
THEOREM PanicsCutOff == LifeSpec => []PanicsOnlyWhenCutOff
<1>1. LifeInit => Closing
  BY PoolAssumption DEF LifeInit, PoolInit, Closing
<1>2. ASSUME PoolInv, Closing, panicked PROVE PanicsOnlyWhenCutOff
  <2>1. PICK c \in Calls : feeder[c].pc = "ch"
    BY <1>2 DEF Closing
  <2>2. feeder[c].next \in Nat /\ Len(Ids) \in Nat /\ feeder[c].next <= Len(Ids)
    BY <1>2, <2>1, TypeFacts DEF PoolInv, Feeders
  <2>3. returned[c] # "complete"
    BY <1>2, <2>2 DEF Closing
  <2>4. Started = {} => MaxRateLimit = 0
    BY FS_EmptySet DEF MaxRateLimit
  <2>5. Started # {} => ctxDone
    BY <1>2 DEF Closing, PoolInv, Stopping, Started
  <2>6. Started # {} => c = call
    <3>1. c \in Nat /\ call \in Nat
      BY <1>2, TypeFacts DEF PoolInv, Calls
    <3>2. ~(c > call)
      BY <1>2, <2>1 DEF PoolInv, Feeders
    <3>3. Started # {} => ~(c < call)
      BY <1>2, <2>2 DEF PoolInv, Feeders
    <3> QED BY <3>1, <3>2, <3>3
  <2> QED BY <2>1, <2>3, <2>4, <2>5, <2>6 DEF PanicsOnlyWhenCutOff
<1>3. PoolInv /\ Closing => PanicsOnlyWhenCutOff
  BY <1>2 DEF PanicsOnlyWhenCutOff
<1> QED BY <1>1, <1>3, ClosingStep, PoolInvariant, PTL DEF LifeSpec

-----------------------------------------------------------------------------
(* Somebody always goes on while GetOrders waits.                            *)

(* While GetOrders waits for a result, the pool never waits for GetOrders: a    *)
(* worker has a result or goes for one, or can take a number, or the feeder  *)
(* can go on, or Run is about to close respCh.  So neither a batch that is    *)
(* too large for the channel nor workers that stop in the middle of a call   *)
(* make everybody wait for everybody.                                        *)
CallerIsServed ==
    loop = "GetOrders" /\ ~Complete /\ ~respClosed =>
        \/ \E w \in Workers : worker[w].pc \in {"GetOrder", "respCh"}
        \/ ch # <<>> /\ \E w \in Workers : worker[w].pc = "select"
        \/ feeder[call].pc = "select"
        \/ feeder[call].pc = "ch" /\ ~chClosed /\ HasRoom
        \/ run = "Wait" /\ \A w \in Started : worker[w].pc = "stopped"
        \/ run = "close respCh"

\* How far Run is, and how the feeder of the current call may have ended.
Serving ==
    /\ run \in {"close ch", "returned"} => respClosed
    /\ chClosed => respClosed
    /\ doneClosed => run # "Wait"
    /\ call > 0 => feeder[call].pc # "none"
    /\ call > 0 /\ feeder[call].pc = "returned" => feeder[call].next > Len(Ids) \/ doneClosed

LEMMA ServingFeederStep ==
    ASSUME PoolInv, Serving, PoolNext, call' > 0
    PROVE  /\ feeder'[call'].pc # "none"
           /\ feeder'[call'].pc = "returned" => feeder'[call'].next > Len(Ids) \/ doneClosed'
<1> USE DEF PoolInv
<1>1. doneClosed => doneClosed'
  BY DEF PoolNext, PoolStep, CtxStep, poolVars, channelVars, LoopStep, Tick,
         StartCall, Return, ReturnClosed, ReturnWith, EndCycle, RunStep, RunCloseDone,
         RunCloseResp, RunCloseCh, FeederStep, FeederSelect, FeederSend, FeederPanics,
         WorkerStep, WorkerTake, WorkerStop, WorkerGetOrder, WorkerSend
<1>2. CASE StartCall
  <2>1. feeder'[call'].pc = "select"
    BY <1>2, StartCallEffect
  <2> QED BY <2>1
<1>3. CASE UNCHANGED <<feeder, call>>
  BY <1>1, <1>3 DEF Serving
<1>4. ASSUME NEW k \in Calls, FeederSelect(k), UNCHANGED call
      PROVE  /\ feeder'[call].pc # "none"
             /\ feeder'[call].pc = "returned" => feeder'[call].next > Len(Ids) \/ doneClosed
  <2>1. call \in Calls /\ call > 0
    BY <1>4, TypeFacts
  <2>2. CASE k # call
    BY <1>4, <2>1, <2>2, FeederSelectEffect DEF Serving
  <2>3. CASE k = call
    <3>1. /\ feeder'[call].next = feeder[call].next
          /\ feeder'[call].pc = "returned" \/ feeder'[call].pc = "ch"
      BY <1>4, <2>1, <2>3, FeederSelectEffect
    <3>2. feeder'[call].pc = "returned" => feeder[call].next > Len(Ids) \/ doneClosed
      <4>1. CASE feeder[k].next > Len(Ids) \/ doneClosed
        BY <2>3, <4>1
      <4>2. CASE feeder' = [feeder EXCEPT ![k].pc = "ch"]
        BY <2>1, <2>3, <4>2 DEF PoolTypeOK
      <4> QED BY <1>4, <4>1, <4>2 DEF FeederSelect
    <3> QED BY <3>1, <3>2
  <2> QED BY <2>2, <2>3
<1>5. ASSUME NEW k \in Calls, FeederSend(k), UNCHANGED call
      PROVE  feeder'[call].pc = "select"
  BY <1>5, FeederSendEffect
<1>6. \/ UNCHANGED <<feeder, call>> \/ StartCall
      \/ \E k \in Calls : (FeederSelect(k) \/ FeederSend(k)) /\ UNCHANGED call
  BY DEF PoolNext, PoolStep, CtxStep, poolVars, callerVars, LoopStep, Tick, Return, ReturnClosed,
         ReturnWith, EndCycle, RunStep, RunCloseDone, RunCloseResp, RunCloseCh, FeederStep,
         FeederSelect, FeederSend, FeederPanics, WorkerStep, WorkerTake, WorkerStop,
         WorkerGetOrder, WorkerSend
<1> QED BY <1>1, <1>2, <1>3, <1>4, <1>5, <1>6

LEMMA ServingStep == PoolInv /\ Serving /\ [LifeNext]_lifeVars => Serving'
<1> SUFFICES ASSUME PoolInv, Serving, PoolNext PROVE Serving'
  BY StepOfPool
<1>1. /\ run' \in {"close ch", "returned"} => respClosed'
      /\ chClosed' => respClosed'
      /\ doneClosed' => run' # "Wait"
  <2>1. CASE UNCHANGED <<run, chClosed, respClosed, doneClosed>>
    BY <2>1 DEF Serving
  <2>2. CASE RunCloseDone
    <3>1. UNCHANGED <<chClosed, respClosed>> /\ run' = "close respCh"
      BY <2>2 DEF RunCloseDone
    <3> QED BY <3>1 DEF Serving
  <2>3. CASE RunCloseResp
    <3>1. run' = "close ch" /\ respClosed'
      BY <2>3 DEF RunCloseResp
    <3> QED BY <3>1
  <2>4. CASE RunCloseCh
    <3>1. run' = "returned" /\ respClosed'
      BY <2>4 DEF RunCloseCh, Serving
    <3> QED BY <3>1
  <2>5. UNCHANGED <<run, chClosed, respClosed, doneClosed>> \/ RunStep
    BY DEF PoolNext, PoolStep, CtxStep, poolVars, channelVars, LoopStep, Tick, StartCall, Return,
           ReturnClosed, ReturnWith, EndCycle, FeederStep, FeederSelect, FeederSend,
           FeederPanics, WorkerStep, WorkerTake, WorkerStop, WorkerGetOrder, WorkerSend
  <2> QED BY <2>1, <2>2, <2>3, <2>4, <2>5 DEF RunStep
<1> QED BY <1>1, ServingFeederStep DEF Serving

LEMMA ServingIsEnough == PoolInv /\ Serving => CallerIsServed
<1> SUFFICES ASSUME PoolInv, Serving, loop = "GetOrders", ~Complete, ~respClosed,
                    Busy = {}, run = "Wait",
                    \E w \in Started : worker[w].pc # "stopped"
             PROVE  \/ ch # <<>> /\ \E w \in Workers : worker[w].pc = "select"
                    \/ feeder[call].pc = "select"
                    \/ feeder[call].pc = "ch" /\ ~chClosed /\ HasRoom
  BY DEF CallerIsServed, Busy, Serving, PoolInv, PoolTypeOK
<1> USE DEF PoolInv
<1>1. PICK v \in Started : worker[v].pc # "stopped"
  OBVIOUS
<1>2. v \in Workers /\ worker[v].pc = "select"
  BY <1>1, TypeFacts DEF Started, Busy
<1>3. CASE ch # <<>>
  BY <1>2, <1>3
<1>4. CASE ch = <<>>
  <2>1. call \in Calls /\ call > 0 /\ call \in Nat
    BY TypeFacts DEF Caller
  <2>2. Len(ch) = 0 /\ Sent = got /\ got < Len(Ids)
    <3>1. Cardinality(Busy) = 0
      BY FS_EmptySet
    <3>2. Len(ch) = 0
      BY <1>4
    <3>3. Taken = got /\ got \in 0 .. Len(Ids) /\ Len(Ids) \in Nat /\ got # Len(Ids)
      BY <3>1, TypeFacts DEF Counts, Complete, PoolTypeOK
    <3>4. Sent \in Int
      BY <2>1, TypeFacts DEF Sent
    <3> QED BY <3>2, <3>3, <3>4 DEF Taken
  <2>3. feeder[call].next <= Len(Ids) /\ feeder[call].next \in Nat /\ Len(Ids) \in Nat
    BY <2>1, <2>2, TypeFacts DEF Sent
  <2>4. feeder[call].pc = "select" \/ feeder[call].pc = "ch"
    BY <2>1, <2>3, TypeFacts DEF Serving
  <2>5. ~chClosed
    BY DEF Serving
  <2>6. HasRoom
    <3>1. MaxRateLimit \in Nat
      BY SetIsFinite DEF MaxRateLimit, Started
    <3>2. MaxRateLimit # 0
      <4>1. IsFiniteSet(Started)
        BY SetIsFinite DEF Started
      <4> QED BY <1>1, <4>1, FS_EmptySet DEF MaxRateLimit
    <3> QED BY <2>2, <3>1, <3>2 DEF HasRoom
  <2> QED BY <2>4, <2>5, <2>6
<1> QED BY <1>3, <1>4

\* The caller, the feeder, the workers and Run never all wait for one another, for any
\* number of workers and numbers, none included, and wherever a stop catches them.
THEOREM NoDeadlockInPool == LifeSpec => []CallerIsServed
<1>1. LifeInit => Serving
  BY DEF LifeInit, PoolInit, Serving
<1> QED BY <1>1, ServingStep, ServingIsEnough, PoolInvariant, PTL DEF LifeSpec

-----------------------------------------------------------------------------
(* The pool implements Poll.                                                 *)

AnsweredIds == {x.id : x \in results}

LEMMA InitIsPollInit == LifeInit => P!PollInit
BY DEF LifeInit, PoolInit, P!PollInit, Phase, Asking

\* A number that was taken is one of the call's.
LEMMA JobIndex ==
    ASSUME PoolInv, NEW i \in 1 .. Taken
    PROVE  i \in DOMAIN Ids
<1>1. call > 0 => feeder[call].next \in 1 .. Len(Ids) + 1
  BY TypeFacts DEF PoolInv
<1>2. call \in Nat /\ Len(ch) \in Nat /\ Len(Ids) \in Nat /\ Taken \in Nat
  BY TypeFacts DEF PoolInv, Places
<1>3. Taken <= Len(Ids)
  BY <1>1, <1>2 DEF Sent, Taken
<1>4. DOMAIN Ids = 1 .. Len(Ids)
  BY PoolAssumption
<1> QED BY <1>2, <1>3, <1>4

LEMMA StartIsAsk == ASSUME PoolInv, StartCall PROVE P!Ask(Range(Ids))
<1>1. loop = "OrdersByStatus" /\ loop' = "GetOrders" /\ got' = 0 /\ results' = {}
  BY DEF StartCall
<1>2. Phase = "idle" /\ Phase' = "asking"
  BY <1>1 DEF Phase
<1> QED BY <1>1, <1>2 DEF P!Ask, Asking

LEMMA SendIsAnswer ==
    ASSUME PoolInv, NEW w \in Workers, WorkerSend(w)
    PROVE  \E n \in Range(Ids) : P!AnswerNumber(n)
<1> DEFINE x == worker[w].job
<1>1. x \notin results /\ x \in FirstJobs(Taken)
  BY PlacesSend
<1>2. /\ loop = "GetOrders" /\ loop' = loop
      /\ got' = got + 1 /\ results' = results \cup {x}
  BY DEF WorkerSend
<1>3. PICK i \in 1 .. Taken : x = JobOf(i)
  BY <1>1 DEF FirstJobs
<1>4. x.id = Ids[i] /\ Ids[i] \in Range(Ids)
  <2>1. i \in DOMAIN Ids
    BY JobIndex
  <2> QED BY <1>3, <2>1 DEF JobOf, Range
<1>5. x.id \notin AnsweredIds
  <2>1. ASSUME NEW y \in results, y.id = x.id PROVE FALSE
    <3>1. y \in FirstJobs(Taken)
      BY DEF PoolInv, Places
    <3>2. y = x
      BY <1>3, <2>1, <3>1 DEF FirstJobs, JobOf
    <3> QED BY <1>1, <3>2
  <2> QED BY <2>1 DEF AnsweredIds
<1>6. AnsweredIds' = AnsweredIds \cup {x.id}
  BY <1>2 DEF AnsweredIds
<1>7. Phase = "asking" /\ Phase' = "asking"
  BY <1>2 DEF Phase
<1> HIDE DEF x
<1>8. P!AnswerNumber(x.id)
  BY <1>2, <1>4, <1>5, <1>6, <1>7 DEF P!AnswerNumber, Asking, AnsweredIds
<1> QED BY <1>4, <1>8

LEMMA ReturnIsFinish == ASSUME PoolInv, Return PROVE P!Finish
<1>1. call > 0 /\ call \in Calls /\ got = Len(Ids) /\ loop = "GetOrders"
  BY TypeFacts DEF PoolInv, Caller, Return, ReturnWith, Complete
<1>2. Busy = {} /\ Taken = Len(Ids)
  <2>1. Busy = {} /\ Taken = got + Cardinality(Busy)
    BY <1>1, NothingLeft DEF PoolInv, Counts, Return
  <2> QED BY <1>1, <2>1, TypeFacts, FS_EmptySet DEF PoolInv
<1>3. results = FirstJobs(Len(Ids))
  BY <1>2 DEF PoolInv, Places, JobsOf
<1>4. AnsweredIds = Range(Ids)
  <2>1. DOMAIN Ids = 1 .. Len(Ids)
    BY PoolAssumption
  <2>2. \A i \in 1 .. Len(Ids) : JobOf(i) \in results /\ JobOf(i).id = Ids[i]
    BY <1>3 DEF FirstJobs, JobOf
  <2>3. \A x \in results : \E i \in 1 .. Len(Ids) : x.id = Ids[i]
    BY <1>3 DEF FirstJobs, JobOf
  <2>4. Range(Ids) \subseteq AnsweredIds
    BY <2>1, <2>2 DEF AnsweredIds, Range
  <2>5. AnsweredIds \subseteq Range(Ids)
    BY <2>1, <2>3 DEF AnsweredIds, Range
  <2> QED BY <2>4, <2>5
<1>5. loop' = "rest" /\ call' = call /\ returned'[call] = "complete"
  BY <1>1 DEF Return, ReturnWith, PoolInv, PoolTypeOK
<1>6. Phase = "asking" /\ Phase' = "complete"
  BY <1>1, <1>5 DEF Phase
<1> QED BY <1>1, <1>4, <1>5, <1>6 DEF P!Finish, P!Forget, Asking, AnsweredIds

LEMMA ReturnClosedIsAbandon == ASSUME PoolInv, ReturnClosed PROVE P!Abandon
<1>1. call > 0 /\ call \in Calls /\ loop = "GetOrders"
  BY TypeFacts DEF PoolInv, Caller, ReturnClosed, ReturnWith
<1>2. loop' = "rest" /\ call' = call /\ returned'[call] = "closed"
  BY <1>1 DEF ReturnClosed, ReturnWith, PoolInv, PoolTypeOK
<1>3. Phase = "asking" /\ Phase' = "idle"
  BY <1>1, <1>2 DEF Phase
<1> QED BY <1>2, <1>3 DEF P!Abandon, P!Forget, Asking

LEMMA StepIsPollStep == PoolInv /\ [LifeNext]_lifeVars => [P!PollNext]_P!pollVars
<1> SUFFICES ASSUME PoolInv, PoolNext PROVE P!PollNext \/ UNCHANGED P!pollVars
  BY StepOfPool
<1>1. CASE StartCall
  BY <1>1, StartIsAsk DEF P!PollNext
<1>2. CASE Return
  BY <1>2, ReturnIsFinish DEF P!PollNext
<1>3. CASE ReturnClosed
  BY <1>3, ReturnClosedIsAbandon DEF P!PollNext
<1>4. ASSUME NEW w \in Workers, WorkerSend(w) PROVE P!PollNext
  BY <1>4, SendIsAnswer DEF P!PollNext
<1>5. CASE EndCycle
  <2>1. loop = "rest" /\ loop' = "tick" /\ UNCHANGED <<call, got, results, returned>>
    BY <1>5 DEF EndCycle
  <2>2. Phase' = "idle" /\ Phase \in {"complete", "idle"}
    BY <2>1 DEF Phase
  <2>3. /\ Asking(Range(Ids), {})' = Asking(Range(Ids), {})
        /\ Asking({x.id : x \in results}, {})' = Asking({x.id : x \in results}, {})
        /\ Asking(got, 0)' = Asking(got, 0)
    BY <2>1 DEF Asking
  <2> QED BY <2>2, <2>3 DEF P!PollNext, P!GoOn, P!pollVars
<1>6. CASE Tick
  BY <1>6 DEF Tick, P!pollVars, Phase, Asking
<1>7. CASE UNCHANGED callerVars
  BY <1>7 DEF callerVars, P!pollVars, Phase, Asking
<1>8. \/ UNCHANGED callerVars \/ LoopStep
      \/ \E w \in Workers : WorkerSend(w)
  BY DEF PoolNext, PoolStep, CtxStep, poolVars, RunStep, RunCloseDone, RunCloseResp,
         RunCloseCh, FeederStep, FeederSelect, FeederSend, FeederPanics, WorkerStep,
         WorkerTake, WorkerStop, WorkerGetOrder
<1> QED BY <1>1, <1>2, <1>3, <1>4, <1>5, <1>6, <1>7, <1>8 DEF LoopStep

\* The actualize task may rely on Poll: each answer it counts is about a number of its
\* own that had none, and a call that returns completely has an answer for every
\* number, whatever the order of the feeders, the workers and the closes.
THEOREM PoolImplementsPoll == LifeSpec => ImplementsPoll
BY InitIsPollInit, StepIsPollStep, PoolInvariant, PTL
   DEF LifeSpec, ImplementsPoll, P!PollSpec
=============================================================================
