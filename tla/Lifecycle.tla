------------------------------- MODULE Lifecycle -------------------------------
(***************************************************************************)
(* Start and stop of the process (cmd/gophermart/main.go).  main starts the *)
(* HTTP server, the worker pool and the actualize task in goroutines it     *)
(* waits for, and one more, which it does not wait for, that shuts the      *)
(* server down when exitCtx is done.  net/http is external: Shutdown makes  *)
(* ListenAndServe return at once and itself returns when no request runs.   *)
(***************************************************************************)
EXTENDS WorkerPool

CONSTANT Requests   \* HTTP requests of a behaviour

VARIABLES
    http,      \* ListenAndServe: "serving" or "returned"
    shutdown,  \* the goroutine that waits for exitCtx and calls Shutdown
    request,   \* request -> "new", "running" or "answered"
    exited     \* main has returned: the process is gone

mainVars == <<http, shutdown, request, exited>>
lifeVars == <<poolVars, mainVars>>

LifeTypeOK ==
    /\ PoolTypeOK
    /\ http \in {"serving", "returned"}
    /\ shutdown \in {"Done", "Shutdown", "returned"}
    /\ request \in [Requests -> {"new", "running", "answered"}]
    /\ exited \in BOOLEAN

LifeInit ==
    /\ PoolInit
    /\ http = "serving"
    /\ shutdown = "Done"
    /\ request = [q \in Requests |-> "new"]
    /\ exited = FALSE

Alive == ~exited /\ ~panicked

-----------------------------------------------------------------------------
RequestStarts(q) ==
    /\ http = "serving" /\ shutdown = "Done" /\ request[q] = "new"
    /\ request' = [request EXCEPT ![q] = "running"]
    /\ UNCHANGED <<poolVars, http, shutdown, exited>>

RequestEnds(q) ==
    /\ request[q] = "running"
    /\ request' = [request EXCEPT ![q] = "answered"]
    /\ UNCHANGED <<poolVars, http, shutdown, exited>>

\* ListenAndServe fails: its goroutine calls stop() and ends.
ListenFails ==
    /\ http = "serving" /\ shutdown = "Done"
    /\ http' = "returned"
    /\ ctxDone' = TRUE
    /\ UNCHANGED <<channelVars, worker, run, feeder, callerVars, panicked, shutdown,
                   request, exited>>

ShutdownStarts ==
    /\ shutdown = "Done" /\ ctxDone
    /\ shutdown' = "Shutdown"
    /\ UNCHANGED <<poolVars, http, request, exited>>

\* http.ErrServerClosed.
ListenReturns ==
    /\ http = "serving" /\ shutdown # "Done"
    /\ http' = "returned"
    /\ UNCHANGED <<poolVars, shutdown, request, exited>>

ShutdownReturns ==
    /\ shutdown = "Shutdown"
    /\ \A q \in Requests : request[q] # "running"
    /\ shutdown' = "returned"
    /\ UNCHANGED <<poolVars, http, request, exited>>

\* wg.Wait() returns: the three goroutines have ended.
MainReturns ==
    /\ http = "returned" /\ run = "returned" /\ loop = "stopped"
    /\ exited' = TRUE
    /\ UNCHANGED <<poolVars, http, shutdown, request>>

MainStep ==
    /\ Alive
    /\ \/ ShutdownStarts \/ ListenReturns \/ ShutdownReturns \/ MainReturns
       \/ \E q \in Requests : RequestEnds(q)

PoolRuns == Alive /\ PoolStep /\ UNCHANGED mainVars
SignalArrives == Alive /\ Cancel /\ UNCHANGED mainVars
\* The process is dead.
Gone == ~Alive /\ UNCHANGED lifeVars

\* The server does not fail: it stops when Shutdown is called.
ServerHoldsNext ==
    \/ PoolRuns \/ MainStep \/ SignalArrives \/ Gone
    \/ \E q \in Requests : Alive /\ RequestStarts(q)

LifeNext == ServerHoldsNext \/ (Alive /\ ListenFails)

(* Every goroutine that can go on does: the accrual client has a timeout, the *)
(* ticker ticks.  Nothing makes a signal arrive.                             *)
LifeFairness ==
    /\ WF_lifeVars(Alive /\ LoopStep /\ UNCHANGED mainVars)
    /\ WF_lifeVars(Alive /\ RunStep /\ UNCHANGED mainVars)
    /\ \A c \in Calls : WF_lifeVars(Alive /\ FeederStep(c) /\ UNCHANGED mainVars)
    /\ \A w \in Workers : WF_lifeVars(Alive /\ WorkerStep(w) /\ UNCHANGED mainVars)
    /\ WF_lifeVars(MainStep)

LifeSpec == LifeInit /\ [][LifeNext]_lifeVars /\ LifeFairness

\* The process of a server that is only ever stopped by a signal.
SignalledSpec == LifeInit /\ [][ServerHoldsNext]_lifeVars

-----------------------------------------------------------------------------
(* A call of GetOrders that was started returns, or the process ends before:  *)
(* neither the feeder, nor the workers, nor GetOrders wait for one another    *)
(* for good, even when the workers stop in the middle of the call.           *)
CallsReturn == \A c \in Calls : feeder[c].pc # "none" ~> returned[c] # Null \/ ~Alive

\* After a signal, or a failure of the server, the process ends.
StopEndsProcess == ctxDone ~> ~Alive

\* As main logs it, the shutdown is graceful: main does not return, and end the
\* process, while Shutdown waits for a running request.  Checked of a server that
\* only a signal stops.
GracefulShutdown == exited => \A q \in Requests : request[q] # "running"
=============================================================================
