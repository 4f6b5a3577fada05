--------------------------- MODULE MasslessServer ---------------------------
(***************************************************************************)
(* One worker process from start to exit: serve_async and _drain of        *)
(* src/massless/server.py, composed with the connections it serves.        *)
(*                                                                         *)
(* serve_async is one more task of the event loop; its phases are the      *)
(* places where it is suspended.                                           *)
(***************************************************************************)
EXTENDS MasslessProtocol

VARIABLES
    phase,       \* where serve_async is suspended
    pending,     \* the futures _drain awaits
    graceOver,   \* the deadline of _drain has passed
    atStop       \* history: connections with a request in flight at the stop

serverVars == <<phase, pending, graceOver, atStop>>
allVars == <<vars, serverVars>>

InitServer ==
    /\ InitProtocol
    /\ phase = "startup"
    /\ pending = {}
    /\ graceOver = FALSE
    /\ atStop = {}

-----------------------------------------------------------------------------
(* serve_async.                                                            *)

\* The startup hooks have run: listen, and wait for the stop event.
RunStartupHooks ==
    /\ phase = "startup"
    /\ phase' = "serving"
    /\ UNCHANGED <<vars, pending, graceOver, atStop>>

\* A startup hook raises: serve_async ends before it listens.
StartupHookFails ==
    /\ phase = "startup"
    /\ phase' = "stopped"
    /\ UNCHANGED <<vars, pending, graceOver, atStop>>

\* The stop event is set: close the listener, begin the drain, and enter
\* _drain, which suspends only when some request is in flight.
StopServing ==
    /\ phase = "serving"
    /\ BeginDrain
    /\ pending' = inflight
    /\ atStop' = {c \in Conns : worker[c] = "busy" /\ ~cancelled[c]}
    /\ phase' = IF inflight = {} THEN "closing" ELSE "draining"
    /\ UNCHANGED <<graceOver>>

GraceExpires ==
    /\ phase = "draining"
    /\ ~graceOver
    /\ graceOver' = TRUE
    /\ UNCHANGED <<vars, phase, pending, atStop>>

\* Mutants: the registry is not looked at again; the deadline is not looked at.
DrainResumesOnce ==
    /\ phase = "draining"
    /\ pending \cap inflight = {} \/ graceOver
    /\ pending' = {}
    /\ phase' = "closing"
    /\ UNCHANGED <<vars, graceOver, atStop>>

DrainResumesUnbounded ==
    /\ phase = "draining"
    /\ pending \cap inflight = {}
    /\ pending' = inflight
    /\ phase' = IF inflight = {} THEN "closing" ELSE phase
    /\ UNCHANGED <<vars, graceOver, atStop>>

\* asyncio.wait returns: every future of the snapshot is done, or time is up.
\* Past the deadline only the futures are cancelled: no task holds them.
DrainResumes ==
    /\ phase = "draining"
    /\ pending \cap inflight = {} \/ graceOver
    /\ \/ /\ inflight = {} \/ graceOver
          /\ phase' = "closing"
          /\ pending' = {}
       \/ /\ inflight # {} /\ ~graceOver
          /\ pending' = inflight
          /\ UNCHANGED phase
    /\ UNCHANGED <<vars, graceOver, atStop>>

\* Mutant: no time limit on a loop where it waits for open connections.
WaitClosedForever ==
    /\ phase = "closing"
    /\ \A c \in Conns : transport[c] \in {"none", "lost"}
    /\ phase' = "hooks"
    /\ UNCHANGED <<vars, pending, graceOver, atStop>>

\* wait_for(server.wait_closed(), 5) ends at once under uvloop, with the last
\* connection on other loops, and at its time limit in any case.
WaitClosed ==
    /\ phase = "closing"
    /\ phase' = "hooks"
    /\ UNCHANGED <<vars, pending, graceOver, atStop>>

\* Mutant: the tasks that are left are not cancelled.
RunShutdownHooksOnly ==
    /\ phase = "hooks"
    /\ phase' = "stopped"
    /\ UNCHANGED <<vars, pending, graceOver, atStop>>

\* The shutdown hooks have run (or raised) and serve_async returns; the loop
\* then cancels every task that is left.
RunShutdownHooks ==
    /\ phase = "hooks"
    /\ phase' = "stopped"
    /\ cancelled' = [c \in Conns |-> worker[c] \in {"created", "waiting", "busy"}]
    /\ waker' = [c \in Conns |-> IF waker[c] = "none" THEN "none" ELSE "done"]
    /\ UNCHANGED <<transport, worker, queue, current, arrived, wire, inflight,
                   draining, owed, pending>>
    /\ atStop' = {} /\ graceOver' = FALSE   \* of no use any more

-----------------------------------------------------------------------------
ServeStep ==
    \/ RunStartupHooks \/ StartupHookFails \/ StopServing
    \/ DrainResumes \/ WaitClosed \/ RunShutdownHooks

\* The listener accepts until it is closed; the loop runs until the last
\* cancelled task has ended.
LoopStep(c) ==
    /\ \/ phase = "serving" /\ Accept(c)
       \/ phase # "stopped" /\ (Callback(c) \/ WorkerStep(c) \/ WakerStep(c))
       \/ phase = "stopped" /\ WorkerCancelled(c)
    /\ UNCHANGED serverVars

NextServer == ServeStep \/ GraceExpires \/ \E c \in Conns : LoopStep(c)

SpecServer == InitServer /\ [][NextServer]_allVars

\* serve_async resumes when what it awaits is ready, its time limits run out
\* (that of wait_closed within WaitClosed), hooks return, and the tasks that
\* are cancelled at the end are run.  Views need not return and clients need
\* not close.
FairServer ==
    /\ WF_allVars(ServeStep /\ phase # "serving")
    /\ WF_allVars(GraceExpires)
    /\ \A c \in Conns :
         WF_allVars(phase = "stopped" /\ WorkerCancelled(c) /\ UNCHANGED serverVars)

FairSpecServer == SpecServer /\ FairServer

-----------------------------------------------------------------------------
(* Properties.                                                             *)

\* A connection with a request in flight at the stop is drained before the
\* shutdown hooks run: that request and those that were pipelined behind it
\* are finished, unless the grace period ran out or an answer closed the
\* connection.  The client leaving during the drain does not change it.
DrainedBeforeHooks ==
    phase \in {"closing", "hooks"} /\ ~graceOver =>
        \A c \in atStop :
            /\ \A n \in 1..owed[c] : <<c, n>> \notin inflight
            /\ current[c].n >= owed[c] \/ SaidClose(c)

\* A stop always ends in the exit of serve_async, even with a view that never
\* returns, a client that never closes, or one that keeps sending.
ShutdownCompletes == phase = "draining" ~> phase = "stopped"

\* After the exit no task of a connection is left, so the loop can end.
NoTaskAfterExit ==
    phase = "stopped" ~> \A c \in Conns : worker[c] \in {"none", "done"}
=============================================================================
