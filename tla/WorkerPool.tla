------------------------------- MODULE WorkerPool -------------------------------
(***************************************************************************)
(* Asking the accrual service about a batch of orders                       *)
(* (internal/accrual/workerpool.go): MaxRateLimit workers take order        *)
(* numbers from the buffered channel ch and put the results on the           *)
(* unbuffered channel respCh.  GetOrders starts a goroutine, the feeder,     *)
(* that puts the numbers on ch, and takes as many results as it has numbers. *)
(* When the context is done the workers stop, and Run closes done, respCh   *)
(* and ch, in this order.                                                   *)
(*                                                                          *)
(* The only caller is the loop of the actualize task, which calls GetOrders *)
(* once per cycle and checks the context before each cycle.  What an answer *)
(* says is the matter of ActualizeTask: here a result is known by the call  *)
(* and the number it answers.                                               *)
(***************************************************************************)
EXTENDS Naturals, FiniteSets, Sequences, SequencesExt

CONSTANTS
    Workers,   \* worker goroutines
    Pools,     \* the sets of them Run may start: one for each rate limit
    Ids,       \* the numbers of one call, a sequence without duplicates: the
               \* keys of open rows
    MaxCalls,  \* bound: calls of GetOrders in a behaviour
    Null

ASSUME PoolAssumption ==
    /\ IsFiniteSet(Workers)
    /\ Pools \subseteq SUBSET Workers   \* {} is the rate limit 0
    /\ Ids \in Seq(Range(Ids)) /\ IsInjective(Ids)
    /\ Len(Ids) > 0   \* without open orders OrdersByStatus fails: no call
    /\ MaxCalls \in Nat \ {0}
    /\ Null # "complete"

VARIABLES
    ctxDone,     \* exitCtx is done
    ch,          \* numbers in the channel, with the call that sent them
    chClosed, respClosed, doneClosed,
    worker,      \* worker -> its next operation and what it works on
    run,         \* next operation of Run
    feeder,      \* call -> its feeder's next operation and next index
    call,        \* number of the current call
    loop,        \* next operation of the task's loop
    got,         \* how many results GetOrders has taken in the current call
    results,     \* which ones: the jobs they answer
    returned,    \* call -> how GetOrders returned, or Null
    panicked     \* a goroutine sent on a closed channel: the process is dead

channelVars == <<ch, chClosed, respClosed, doneClosed>>
callerVars == <<call, loop, got, results, returned>>
poolVars == <<ctxDone, channelVars, worker, run, feeder, callerVars, panicked>>

Calls == 1 .. MaxCalls
Started == {w \in Workers : worker[w].pc # "absent"}
MaxRateLimit == Cardinality(Started)

Job == [call: Calls, id: Range(Ids)]

PoolTypeOK ==
    /\ {ctxDone, chClosed, respClosed, doneClosed, panicked} \subseteq BOOLEAN
    /\ ch \in Seq(Job) /\ Len(ch) <= MaxRateLimit
    /\ worker \in [Workers -> [pc: {"absent", "select", "GetOrder", "respCh",
                                     "stopped"},
                               job: Job \cup {Null}]]
    /\ run \in {"Wait", "close respCh", "close ch", "returned"}
    /\ feeder \in [Calls -> [pc: {"none", "select", "ch", "returned"},
                             next: 1 .. Len(Ids) + 1]]
    /\ call \in 0 .. MaxCalls
    /\ loop \in {"tick", "OrdersByStatus", "GetOrders", "rest", "stopped"}
    /\ got \in 0 .. Len(Ids) /\ results \subseteq Job
    /\ returned \in [Calls -> {Null, "closed", "complete"}]

PoolInit ==
    /\ ctxDone = FALSE
    /\ ch = <<>>
    /\ chClosed = FALSE /\ respClosed = FALSE /\ doneClosed = FALSE
    /\ \E pool \in Pools :
           worker = [w \in Workers |->
                        [pc |-> IF w \in pool THEN "select" ELSE "absent", job |-> Null]]
    /\ run = "Wait"
    /\ feeder = [c \in Calls |-> [pc |-> "none", next |-> 1]]
    /\ call = 0
    /\ loop = "tick"
    /\ got = 0 /\ results = {}
    /\ returned = [c \in Calls |-> Null]
    /\ panicked = FALSE

-----------------------------------------------------------------------------
(* The loop of the task around GetOrders.                                    *)

\* A tick: the context is checked here and nowhere else in a cycle.
Tick ==
    /\ loop = "tick"
    /\ \/ ctxDone /\ loop' = "stopped"
       \/ ~ctxDone /\ call < MaxCalls /\ loop' = "OrdersByStatus"
    /\ UNCHANGED <<ctxDone, channelVars, worker, run, feeder, call, got, results, returned,
                   panicked>>

\* The orders were read: GetOrders starts its feeder and waits for results.
StartCall ==
    /\ loop = "OrdersByStatus"
    /\ loop' = "GetOrders"
    /\ call' = call + 1
    /\ feeder' = [feeder EXCEPT ![call + 1].pc = "select"]
    /\ got' = 0 /\ results' = {}
    /\ UNCHANGED <<ctxDone, channelVars, worker, run, returned, panicked>>

\* Mutant: off by one.
CompleteButOne == got = Len(Ids) - 1

Complete == got = Len(Ids)

\* GetOrders has as many results as it sent numbers, or finds respCh closed.
ReturnWith(outcome) ==
    /\ loop = "GetOrders"
    /\ returned' = [returned EXCEPT ![call] = outcome]
    /\ loop' = "rest"
    /\ UNCHANGED <<ctxDone, channelVars, worker, run, feeder, call, got, results, panicked>>

Return == Complete /\ ReturnWith("complete")

ReturnClosed == ~Complete /\ respClosed /\ ReturnWith("closed")

\* The rest of the cycle does not touch the pool.
EndCycle ==
    /\ loop = "rest"
    /\ loop' = "tick"
    /\ UNCHANGED <<ctxDone, channelVars, worker, run, feeder, call, got, results, returned,
                   panicked>>

LoopStep == Tick \/ StartCall \/ Return \/ ReturnClosed \/ EndCycle

-----------------------------------------------------------------------------
(* The feeder: a select with a default looks at done only in between sends.  *)
FeederSelect(c) ==
    /\ feeder[c].pc = "select"
    /\ \/ /\ feeder[c].next > Len(Ids) \/ doneClosed
          /\ feeder' = [feeder EXCEPT ![c].pc = "returned"]
       \/ /\ feeder[c].next <= Len(Ids) /\ ~doneClosed
          /\ feeder' = [feeder EXCEPT ![c].pc = "ch"]
    /\ UNCHANGED <<ctxDone, channelVars, worker, run, callerVars, panicked>>

\* Mutant: the channel is one longer than there are workers.
HasRoomForOneMore == Len(ch) <= MaxRateLimit

HasRoom == Len(ch) < MaxRateLimit

FeederSend(c) ==
    /\ feeder[c].pc = "ch"
    /\ ~chClosed
    /\ HasRoom
    /\ ch' = Append(ch, [call |-> c, id |-> Ids[feeder[c].next]])
    /\ feeder' = [feeder EXCEPT ![c] = [pc |-> "select", next |-> @.next + 1]]
    /\ UNCHANGED <<ctxDone, chClosed, respClosed, doneClosed, worker, run, callerVars,
                   panicked>>

\* Also when it was already waiting for room when the channel was closed.
FeederPanics(c) ==
    /\ feeder[c].pc = "ch"
    /\ chClosed
    /\ panicked' = TRUE
    /\ UNCHANGED <<ctxDone, channelVars, worker, run, feeder, callerVars>>

FeederStep(c) == FeederSelect(c) \/ FeederSend(c) \/ FeederPanics(c)

-----------------------------------------------------------------------------
(* A worker.  When the context is done and a number waits, select may take   *)
(* either.                                                                   *)
WorkerTake(w) ==
    /\ worker[w].pc = "select"
    /\ ch # <<>>
    /\ worker' = [worker EXCEPT ![w].pc = "GetOrder", ![w].job = Head(ch)]
    /\ ch' = Tail(ch)
    /\ UNCHANGED <<ctxDone, chClosed, respClosed, doneClosed, run, feeder, callerVars,
                   panicked>>

WorkerStop(w) ==
    /\ worker[w].pc = "select"
    /\ ctxDone
    /\ worker' = [worker EXCEPT ![w].pc = "stopped"]
    /\ UNCHANGED <<ctxDone, channelVars, run, feeder, callerVars, panicked>>

\* The client answers, or its timeout expires.
WorkerGetOrder(w) ==
    /\ worker[w].pc = "GetOrder"
    /\ worker' = [worker EXCEPT ![w].pc = "respCh"]
    /\ UNCHANGED <<ctxDone, channelVars, run, feeder, callerVars, panicked>>

\* The rendezvous on respCh with GetOrders.
WorkerSend(w) ==
    /\ worker[w].pc = "respCh"
    /\ loop = "GetOrders"
    /\ ~Complete
    /\ got' = got + 1
    /\ results' = results \cup {worker[w].job}
    /\ worker' = [worker EXCEPT ![w] = [pc |-> "select", job |-> Null]]
    /\ UNCHANGED <<ctxDone, channelVars, run, feeder, call, loop, returned, panicked>>

WorkerStep(w) == WorkerTake(w) \/ WorkerStop(w) \/ WorkerGetOrder(w) \/ WorkerSend(w)

-----------------------------------------------------------------------------
(* Run, once its workers have stopped: close(done), then the deferred closes, *)
(* the last deferred first.                                                  *)
\* Mutant: Run does not wait for its workers.
RunCloseDoneUnwaited ==
    /\ run = "Wait"
    /\ doneClosed' = TRUE
    /\ run' = "close respCh"
    /\ UNCHANGED <<ctxDone, ch, chClosed, respClosed, worker, feeder, callerVars, panicked>>

RunCloseDone ==
    /\ run = "Wait"
    /\ \A w \in Started : worker[w].pc = "stopped"
    /\ doneClosed' = TRUE
    /\ run' = "close respCh"
    /\ UNCHANGED <<ctxDone, ch, chClosed, respClosed, worker, feeder, callerVars, panicked>>

\* Mutant: respCh is never closed.
RunCloseRespForgotten ==
    /\ run = "close respCh"
    /\ run' = "close ch"
    /\ UNCHANGED <<ctxDone, channelVars, worker, feeder, callerVars, panicked>>

RunCloseResp ==
    /\ run = "close respCh"
    /\ respClosed' = TRUE
    /\ run' = "close ch"
    /\ UNCHANGED <<ctxDone, ch, chClosed, doneClosed, worker, feeder, callerVars, panicked>>

RunCloseCh ==
    /\ run = "close ch"
    /\ chClosed' = TRUE
    /\ run' = "returned"
    /\ UNCHANGED <<ctxDone, ch, respClosed, doneClosed, worker, feeder, callerVars, panicked>>

RunStep == RunCloseDone \/ RunCloseResp \/ RunCloseCh

PoolStep ==
    /\ ~panicked
    /\ \/ LoopStep \/ RunStep
       \/ \E c \in Calls : FeederStep(c)
       \/ \E w \in Workers : WorkerStep(w)

\* SIGTERM, or stop() after the HTTP server failed.
Cancel ==
    /\ ~ctxDone /\ ~panicked
    /\ ctxDone' = TRUE
    /\ UNCHANGED <<channelVars, worker, run, feeder, callerVars, panicked>>

-----------------------------------------------------------------------------
(* How the task sees a call of GetOrders.                                    *)
Phase == IF loop = "GetOrders" THEN "asking"
         ELSE IF loop = "rest" /\ returned[call] = "complete" THEN "complete"
         ELSE "idle"

Asking(value, else) == IF loop = "GetOrders" THEN value ELSE else

P == INSTANCE Poll WITH
         Numbers <- Range(Ids),
         phase <- Phase,
         asked <- Asking(Range(Ids), {}),
         answered <- Asking({x.id : x \in results}, {}),
         answers <- Asking(got, 0)

(* The pool implements Poll: whatever the feeders, the workers and the closes  *)
(* do, each answer the caller counts is about a number of its own that had   *)
(* none yet, and a call that returns completely has one for every number.    *)
ImplementsPoll == P!PollSpec

(* A result that GetOrders takes belongs to the call that waits for it, and  *)
(* no number is answered twice.  So counting results is enough: the results  *)
(* a call returns with are one for each of its numbers.                      *)
ResultsMatchCall ==
    /\ \A x \in results : x.call = call
    /\ Cardinality(results) = got

(* Between calls the pool is empty: no number waits, no worker is busy, no    *)
(* feeder is left, unless the pool was stopped in the middle of a call.      *)
IdleBetweenCalls ==
    loop \in {"tick", "OrdersByStatus", "rest", "stopped"} /\ ~respClosed =>
        /\ ch = <<>>
        /\ \A w \in Started : worker[w].pc \in {"select", "stopped"}
        /\ \A c \in Calls : feeder[c].pc # "ch"

(* The panic of Run closing ch under a feeder that is about to send, or waits *)
(* for room, costs no complete answer: the feeder's call got no answer to    *)
(* some of its numbers, and unless the pool never had a worker, it is the    *)
(* current call, and the process has been told to stop.                      *)
PanicsOnlyWhenCutOff ==
    panicked =>
        \E c \in Calls :
            /\ feeder[c].pc = "ch" /\ returned[c] # "complete"
            /\ MaxRateLimit = 0 \/ (ctxDone /\ c = call)

\* As the comment of ActualizeOrdersStatus has it, the task's goroutine stops only
\* when its current cycle is done: the process does not panic before.
NeverPanics == ~panicked
=============================================================================
