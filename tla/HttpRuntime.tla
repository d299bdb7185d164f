----------------------------- MODULE HttpRuntime -----------------------------
(***************************************************************************)
(* The job behind the HTTP server (internal/httpruntime): every POST /run  *)
(* executes it at once in the one process of the server, with the context  *)
(* of its request.  No run has a time limit, and none waits for another.   *)
(* A run of DailyJob.tla is the handler of one request.                    *)
(***************************************************************************)
EXTENDS DailyJobProperties

VARIABLE server   \* whether the process listens, shuts down or is gone

httpVars == <<vars, server>>

HttpInit == Init /\ server = "listening"

\* handleRun: the date is that of the arrival; TriggerTimes are the arrivals.
PostRun(r) == server = "listening" /\ Start(r) /\ UNCHANGED server

RunStep(r) == server # "exited" /\ Step(r) /\ UNCHANGED server

\* The client goes away: the context of its run is cancelled, and no later call of
\* the run reaches anything.
Disconnect(r) == Kill(r) /\ UNCHANGED server

\* SIGTERM: no further request is accepted, and Shutdown waits for the handlers.
Signal == server = "listening" /\ server' = "closing" /\ UNCHANGED vars

\* Shutdown ends when every handler has returned, or after five seconds, which a run
\* that pauses between two attempts outlasts; or the process dies.  It takes every
\* run with it.
Exit ==
  /\ server = "closing" \/ (server = "listening" /\ "crash" \in Faults)
  /\ server' = "exited"
  /\ run' = [r \in Runs |-> IF Live(r) THEN Ended(r, "killed") ELSE run[r]]
  /\ UNCHANGED world

Restart == server = "exited" /\ server' = "listening" /\ UNCHANGED vars

\* Five seconds are less than a tick.
Pass == server # "closing" /\ Tick /\ UNCHANGED server

HttpNext ==
  \/ Signal \/ Exit \/ Restart \/ Pass
  \/ \E r \in Runs : PostRun(r) \/ RunStep(r) \/ Disconnect(r)

HttpSpec == HttpInit /\ [][HttpNext]_httpVars
=============================================================================
