----------------------------- MODULE Supervisor -----------------------------
(***************************************************************************)
(* The master process: src/massless/supervisor.py.                         *)
(*                                                                         *)
(* run_supervised starts n worker processes and monitors them.  SIGTERM    *)
(* and SIGINT call shutdown() from a signal handler, which Python runs on  *)
(* the main thread between two bytecodes of whatever is executing: start,  *)
(* a monitor step, or another shutdown().  handlers is the stack of these  *)
(* activations; run_supervised itself goes on only when it is empty.       *)
(***************************************************************************)
EXTENDS Naturals, Sequences, FiniteSets

CONSTANTS
    N,            \* self._n: how many workers to keep alive
    MaxDeaths,    \* bound: workers that die without being told to
    MaxSignals    \* bound: signals the master receives

ASSUME NAssumption == N \in Nat \ {0}
ASSUME BoundsAssumption == MaxDeaths \in Nat /\ MaxSignals \in Nat

VARIABLES
    status,         \* each process spawned so far: up, told (SIGTERM), exited (with
                    \* code 0), failed (any other code), killed (SIGKILL)
    workers,        \* self._workers
    shuttingDown,   \* self._shutting_down
    main,           \* where run_supervised is
    left,           \* how many workers start() still has to spawn
    newborn,        \* the process _spawn_one has started and not yet appended, or 0
    todo,           \* what the scan of _reap_and_restart has not visited
    alive,          \* the workers the scan found alive
    handlers,       \* the activations of shutdown(), the innermost last
    deaths, signals

vars == <<status, workers, shuttingDown, main, left, newborn, todo, alive,
          handlers, deaths, signals>>

Procs == 1..Len(status)
Alive == {p \in Procs : status[p] \in {"up", "told"}}

Init ==
    /\ status = << >>
    /\ workers = << >>
    /\ shuttingDown = FALSE
    /\ main = "start"
    /\ left = N
    /\ newborn = 0
    /\ todo = << >>
    /\ alive = << >>
    /\ handlers = << >>
    /\ deaths = 0
    /\ signals = 0

-----------------------------------------------------------------------------
(* run_supervised, start, monitor and _reap_and_restart.                   *)

Running(pc) == handlers = << >> /\ main = pc

\* Mutant: off by one in the loop that refills the list.
WantsWorkerTooMany ==
    \/ Running("start") /\ left > 0
    \/ Running("fill") /\ Len(workers) <= N

\* _spawn_one, up to and including proc.start().
WantsWorker ==
    \/ Running("start") /\ left > 0
    \/ Running("fill") /\ Len(workers) < N

SpawnStart ==
    /\ WantsWorker
    /\ newborn = 0
    /\ status' = Append(status, "up")
    /\ newborn' = Len(status')
    /\ UNCHANGED <<workers, shuttingDown, main, left, todo, alive, handlers,
                   deaths, signals>>

\* Mutant: a replacement counts as one of the workers start() has to spawn.
SpawnAppendCounted ==
    /\ Running("start") \/ Running("fill")
    /\ newborn # 0
    /\ workers' = Append(workers, newborn)
    /\ newborn' = 0
    /\ left' = left - 1
    /\ UNCHANGED <<status, shuttingDown, main, todo, alive, handlers, deaths,
                   signals>>

\* The rest of _spawn_one: a signal may arrive between the two.
SpawnAppend ==
    /\ Running("start") \/ Running("fill")
    /\ newborn # 0
    /\ workers' = Append(workers, newborn)
    /\ newborn' = 0
    /\ left' = IF main = "start" THEN left - 1 ELSE left
    /\ UNCHANGED <<status, shuttingDown, main, todo, alive, handlers, deaths,
                   signals>>

\* The process cannot be created.  Only the monitor runs under the try.
SpawnFails ==
    /\ WantsWorker
    /\ newborn = 0
    /\ main' = IF main = "start" THEN "raised" ELSE "finally"
    /\ UNCHANGED <<status, workers, shuttingDown, left, newborn, todo, alive,
                   handlers, deaths, signals>>

StartDone ==
    /\ Running("start")
    /\ left = 0
    /\ main' = "monitor"
    /\ UNCHANGED <<status, workers, shuttingDown, left, newborn, todo, alive,
                   handlers, deaths, signals>>

\* Mutant: the loop does not look at the flag.
MonitorLoopForever ==
    /\ Running("monitor")
    /\ main' = "reap"
    /\ UNCHANGED <<status, workers, shuttingDown, left, newborn, todo, alive,
                   handlers, deaths, signals>>

MonitorLoop ==
    /\ Running("monitor")
    /\ main' = IF shuttingDown THEN "finally" ELSE "reap"
    /\ UNCHANGED <<status, workers, shuttingDown, left, newborn, todo, alive,
                   handlers, deaths, signals>>

\* _reap_and_restart looks at the flag once, here.
ReapEnter ==
    /\ Running("reap")
    /\ \/ /\ shuttingDown
          /\ main' = "sleep"
          /\ UNCHANGED <<todo, alive>>
       \/ /\ ~shuttingDown
          /\ main' = "scan"
          /\ todo' = workers
          /\ alive' = << >>
    /\ UNCHANGED <<status, workers, shuttingDown, left, newborn, handlers,
                   deaths, signals>>

\* Mutant: _GRACEFUL_EXITCODE is heeded; who exited cleanly keeps his place and
\* is not replaced.
ReapScanHeedsExitCode ==
    /\ Running("scan")
    /\ todo # << >>
    /\ alive' = IF Head(todo) \in Alive \/ status[Head(todo)] = "exited"
                THEN Append(alive, Head(todo)) ELSE alive
    /\ todo' = Tail(todo)
    /\ UNCHANGED <<status, workers, shuttingDown, main, left, newborn,
                   handlers, deaths, signals>>

\* The exit code of a dead worker is logged and otherwise not looked at.
ReapScan ==
    /\ Running("scan")
    /\ todo # << >>
    /\ alive' = IF Head(todo) \in Alive THEN Append(alive, Head(todo)) ELSE alive
    /\ todo' = Tail(todo)
    /\ UNCHANGED <<status, workers, shuttingDown, main, left, newborn,
                   handlers, deaths, signals>>

ReapAssign ==
    /\ Running("scan")
    /\ todo = << >>
    /\ workers' = alive
    /\ main' = "fill"
    /\ UNCHANGED <<status, shuttingDown, left, newborn, todo, alive, handlers,
                   deaths, signals>>

FillDone ==
    /\ Running("fill")
    /\ Len(workers) >= N
    /\ main' = "sleep"
    /\ UNCHANGED <<status, workers, shuttingDown, left, newborn, todo, alive,
                   handlers, deaths, signals>>

PollSleep ==
    /\ Running("sleep")
    /\ main' = "monitor"
    /\ UNCHANGED <<status, workers, shuttingDown, left, newborn, todo, alive,
                   handlers, deaths, signals>>

\* Mutant: no finally clause; the handler's shutdown() has to do.
LastShutdownSkipped ==
    /\ Running("finally")
    /\ main' = "last"
    /\ UNCHANGED <<status, workers, shuttingDown, left, newborn, todo, alive,
                   handlers, deaths, signals>>

\* The finally clause calls shutdown(), then run_supervised returns.
LastShutdown ==
    /\ Running("finally")
    /\ main' = "last"
    /\ handlers' = <<[pc |-> "begin", todo |-> << >>]>>
    /\ UNCHANGED <<status, workers, shuttingDown, left, newborn, todo, alive,
                   deaths, signals>>

RunSupervisedReturns ==
    /\ Running("last")
    /\ main' = "done"
    /\ UNCHANGED <<status, workers, shuttingDown, left, newborn, todo, alive,
                   handlers, deaths, signals>>

-----------------------------------------------------------------------------
(* shutdown(), in its innermost activation.                                *)

Top == handlers[Len(handlers)]
In(pc) == handlers # << >> /\ Top.pc = pc
Go(pc, procs) ==
    handlers' = [handlers EXCEPT ![Len(handlers)] = [pc |-> pc, todo |-> procs]]

\* Mutant: straight to SIGKILL.
ShutdownBeginKilling ==
    /\ In("begin")
    /\ shuttingDown' = TRUE
    /\ Go("kill", workers)
    /\ UNCHANGED <<status, workers, main, left, newborn, todo, alive, deaths,
                   signals>>

ShutdownBegin ==
    /\ In("begin")
    /\ shuttingDown' = TRUE
    /\ Go("term", workers)
    /\ UNCHANGED <<status, workers, main, left, newborn, todo, alive, deaths,
                   signals>>

\* SIGTERM to each worker of the list that is alive.
ShutdownSignal ==
    /\ In("term")
    /\ Top.todo # << >>
    /\ LET p == Head(Top.todo) IN
         status' = [status EXCEPT ![p] = IF @ = "up" THEN "told" ELSE @]
    /\ Go("term", Tail(Top.todo))
    /\ UNCHANGED <<workers, shuttingDown, main, left, newborn, todo, alive,
                   deaths, signals>>

\* Joining the workers takes until they have exited or the deadline passes;
\* then the list is read again.
ShutdownJoin ==
    /\ In("term")
    /\ Top.todo = << >>
    /\ Go("kill", workers)
    /\ UNCHANGED <<status, workers, shuttingDown, main, left, newborn, todo,
                   alive, deaths, signals>>

\* SIGKILL to each that is still alive; the join that follows sees it dead.
ShutdownKill ==
    /\ In("kill")
    /\ Top.todo # << >>
    /\ LET p == Head(Top.todo) IN
         status' = [status EXCEPT ![p] = IF p \in Alive THEN "killed" ELSE @]
    /\ Go("kill", Tail(Top.todo))
    /\ UNCHANGED <<workers, shuttingDown, main, left, newborn, todo, alive,
                   deaths, signals>>

ShutdownReturn ==
    /\ In("kill")
    /\ Top.todo = << >>
    /\ workers' = << >>
    /\ handlers' = SubSeq(handlers, 1, Len(handlers) - 1)
    /\ UNCHANGED <<status, shuttingDown, main, left, newborn, todo, alive,
                   deaths, signals>>

-----------------------------------------------------------------------------
(* The operating system and the workers.                                   *)

\* SIGTERM or SIGINT interrupts the master, wherever it is.
Signal ==
    /\ main # "done"
    /\ signals < MaxSignals
    /\ signals' = signals + 1
    /\ handlers' = Append(handlers, [pc |-> "begin", todo |-> << >>])
    /\ UNCHANGED <<status, workers, shuttingDown, main, left, newborn, todo,
                   alive, deaths>>

\* A worker dies on its own, or exits cleanly because somebody else told it to.
WorkerDies(p) ==
    /\ status[p] = "up"
    /\ deaths < MaxDeaths
    /\ deaths' = deaths + 1
    /\ \E how \in {"exited", "failed"} : status' = [status EXCEPT ![p] = how]
    /\ UNCHANGED <<workers, shuttingDown, main, left, newborn, todo, alive,
                   handlers, signals>>

\* A worker that was told to stop drains and exits, or fails on the way; a hung
\* one does neither.
WorkerStops(p) ==
    /\ status[p] = "told"
    /\ \E how \in {"exited", "failed"} : status' = [status EXCEPT ![p] = how]
    /\ UNCHANGED <<workers, shuttingDown, main, left, newborn, todo, alive,
                   handlers, deaths, signals>>

-----------------------------------------------------------------------------
MasterStep ==
    \/ SpawnStart \/ SpawnAppend \/ StartDone
    \/ MonitorLoop \/ ReapEnter \/ ReapScan \/ ReapAssign \/ FillDone
    \/ PollSleep \/ LastShutdown \/ RunSupervisedReturns
    \/ ShutdownBegin \/ ShutdownSignal \/ ShutdownJoin \/ ShutdownKill
    \/ ShutdownReturn

Next ==
    \/ MasterStep \/ SpawnFails \/ Signal
    \/ \E p \in Procs : WorkerDies(p) \/ WorkerStops(p)

\* The master keeps running; spawning normally succeeds, so it is MasterStep
\* without SpawnFails that is fair.  Workers need not obey SIGTERM.
Spec == Init /\ [][Next]_vars /\ WF_vars(MasterStep)

-----------------------------------------------------------------------------
(* Properties.                                                             *)

TypeOK ==
    /\ status \in Seq({"up", "told", "exited", "failed", "killed"})
    /\ workers \in Seq(Procs)
    /\ shuttingDown \in BOOLEAN
    /\ main \in {"start", "monitor", "reap", "scan", "fill", "sleep",
                 "finally", "last", "done", "raised"}
    /\ left \in 0..N
    /\ newborn \in 0..Len(status)
    /\ todo \in Seq(Procs)
    /\ alive \in Seq(Procs)
    /\ handlers \in Seq([pc : {"begin", "term", "kill"}, todo : Seq(Procs)])
    /\ deaths \in 0..MaxDeaths
    /\ signals \in 0..MaxSignals

\* When run_supervised returns no worker is alive, wherever the signals hit:
\* in start, between proc.start() and the append, in the middle of a scan, or
\* in shutdown itself.
NoOrphans == main = "done" => Alive = {}

\* The master never runs more than n workers, restarts included.
AtMostN == Cardinality(Alive) <= N

\* SIGKILL is an escalation: it never hits a worker that was not sent SIGTERM
\* first (a step that kills finds the worker already told).
KillOnlyAfterTerm ==
    [][\A p \in Procs : status'[p] = "killed" => status[p] \in {"told", "killed"}]_vars

\* "Keeps exactly n workers alive": as long as nobody shuts it down and
\* processes can be created, the master gets back to n workers, whatever the
\* exit code of the ones it lost.  (The comment on _GRACEFUL_EXITCODE excepts
\* workers that exit with 0; nothing reads the constant.)
KeepsNWorkers ==
    <>[](shuttingDown \/ main \in {"raised", "finally", "last", "done"}
           \/ Cardinality(Alive) = N)

\* A signal always ends the master, even with workers that ignore SIGTERM.
ShutdownCompletes == shuttingDown ~> main \in {"done", "raised"}
=============================================================================
