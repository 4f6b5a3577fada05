------------------------------ MODULE Dispatch ------------------------------
(***************************************************************************)
(* The life of a request inside a worker: dispatch() of                    *)
(* src/massless/_protocol.pyx, from request_started to the teardown, with  *)
(* the threads it uses.  The steps of one request are the pieces of the    *)
(* coroutine between two awaits; requests of different connections         *)
(* interleave, and a request is cancelled when its client leaves.          *)
(*                                                                         *)
(* Everything that may use Django's thread-local database connections runs *)
(* with thread_sensitive=True, on one thread shared by all requests; the   *)
(* error and log helpers run on threads of their own.  The middleware      *)
(* chain of the slow path is one view step here.                           *)
(***************************************************************************)
EXTENDS Naturals, Sequences, FiniteSets, SequencesExt

CONSTANT Requests   \* requests in dispatch, one per connection

VARIABLES
    config,      \* the handler: fast (_fast_ok), pool (_pool_lifecycle), and
                 \* native: whether Django has aclose / aclose_old_connections
    pc,          \* where the coroutine is suspended
    route,       \* fast (router hit, no middleware) or slow (handler.handle)
    line,        \* jobs queued for the thread-sensitive executor
    sensitive,   \* the job its thread runs: a set of at most one
    others,      \* jobs running on other threads
    sent,        \* the receivers of request_started have run
    finished,    \* request_finished was sent
    closed       \* how often the resource closers ran

vars == <<config, pc, route, line, sensitive, others, sent, finished, closed>>

Job == [req : Requests, kind : {"start", "view", "render", "close", "error", "log"}]
RunningJobs == others \cup sensitive

Init ==
    /\ config \in [fast : BOOLEAN, pool : BOOLEAN, native : BOOLEAN]
    /\ pc = [r \in Requests |-> "idle"]
    /\ route = [r \in Requests |-> "slow"]
    /\ line = << >>
    /\ sensitive = {}
    /\ others = {}
    /\ sent = [r \in Requests |-> FALSE]
    /\ finished = [r \in Requests |-> FALSE]
    /\ closed = [r \in Requests |-> 0]

-----------------------------------------------------------------------------
(* sync_to_async.                                                          *)

SubmitSensitive(r, kind) ==
    /\ line' = Append(line, [req |-> r, kind |-> kind])
    /\ UNCHANGED others

SubmitOther(r, kind) ==
    /\ others' = others \cup {[req |-> r, kind |-> kind]}
    /\ UNCHANGED line

NoJob == UNCHANGED <<line, others>>

\* What r awaited on a thread, if anything, is done.
Resumable(r) ==
    /\ \A i \in 1..Len(line) : line[i].req # r
    /\ \A j \in RunningJobs : j.req # r

\* Mutant: the executor has more than one thread.
ThreadTakesMore ==
    /\ line # << >>
    /\ sensitive' = sensitive \cup {Head(line)}
    /\ line' = Tail(line)
    /\ UNCHANGED <<config, pc, route, others, sent, finished, closed>>

ThreadTakes ==
    /\ sensitive = {}
    /\ line # << >>
    /\ sensitive' = {Head(line)}
    /\ line' = Tail(line)
    /\ UNCHANGED <<config, pc, route, others, sent, finished, closed>>

\* Mutant: pool mode runs the closers on the thread, too.
RunJobClosing(job) ==
    /\ sent' = IF job.kind = "start" THEN [sent EXCEPT ![job.req] = TRUE] ELSE sent
    /\ \/ /\ job.kind = "close"
          /\ closed' = [closed EXCEPT ![job.req] = @ + 1]
          /\ finished' = [finished EXCEPT ![job.req] = sent[job.req]]
       \/ job.kind # "close" /\ UNCHANGED <<closed, finished>>

\* What a job of the thread does: asend() the receivers of request_started;
\* close() the closers, and then those of request_finished.  In pool mode the
\* latter job only returns the thread's database connections.
RunJob(job) ==
    \/ /\ job.kind = "start"
       /\ sent' = [sent EXCEPT ![job.req] = TRUE]
       /\ UNCHANGED <<closed, finished>>
    \/ /\ job.kind = "close" /\ ~config.pool
       /\ closed' = [closed EXCEPT ![job.req] = @ + 1]
       /\ finished' = [finished EXCEPT ![job.req] = TRUE]
       /\ UNCHANGED sent
    \/ /\ job.kind # "start"
       /\ job.kind = "close" => config.pool
       /\ UNCHANGED <<sent, closed, finished>>

\* Mutant: a job nobody waits for any more takes the thread down with it.
ThreadEndsIfAwaited ==
    /\ \E job \in sensitive : pc[job.req] # "cancelled" /\ RunJob(job)
    /\ sensitive' = {}
    /\ UNCHANGED <<config, pc, route, line, others>>

ThreadEnds ==
    /\ \E job \in sensitive : RunJob(job)
    /\ sensitive' = {}
    /\ UNCHANGED <<config, pc, route, line, others>>

OtherEnds(j) ==
    /\ others' = others \ {j}
    /\ UNCHANGED <<config, pc, route, line, sensitive, sent, finished, closed>>

-----------------------------------------------------------------------------
(* dispatch(r).                                                            *)

\* Route, and ask for request_started unless the pool owns the connections.
\* Its receivers run when the thread gets to them.
Start(r) ==
    /\ pc[r] = "idle"
    /\ route' \in {[route EXCEPT ![r] = p] :
                     p \in {"slow"} \cup (IF config.fast THEN {"fast"} ELSE {})}
    /\ \/ /\ config.pool
          /\ pc' = [pc EXCEPT ![r] = "ready"]
          /\ NoJob
       \/ /\ ~config.pool
          /\ pc' = [pc EXCEPT ![r] = "starting"]
          /\ SubmitSensitive(r, "start")
    /\ UNCHANGED <<config, sensitive, sent, finished, closed>>

\* A receiver of request_started raises, outside the try.
StartRaises(r) ==
    /\ pc[r] = "starting"
    /\ Resumable(r)
    /\ pc' = [pc EXCEPT ![r] = "raised"]
    /\ NoJob
    /\ UNCHANGED <<config, route, sensitive, sent, finished, closed>>

\* The view, or the chain around it: awaited on the loop or sent to the thread.
RunView(r) ==
    /\ \/ pc[r] = "ready"
       \/ pc[r] = "starting" /\ Resumable(r)
    /\ pc' = [pc EXCEPT ![r] = "viewing"]
    /\ NoJob \/ SubmitSensitive(r, "view")
    /\ UNCHANGED <<config, route, sensitive, sent, finished, closed>>

\* Mutants: close() on any thread; pool mode without the closers.
TeardownElsewhere(r) ==
    /\ pc' = [pc EXCEPT ![r] = "closing"]
    /\ closed' = IF config.pool THEN [closed EXCEPT ![r] = @ + 1] ELSE closed
    /\ \/ config.native /\ NoJob
       \/ ~config.native /\ SubmitOther(r, "close")

TeardownWithoutClosers(r) ==
    /\ pc' = [pc EXCEPT ![r] = "closing"]
    /\ \/ config.native /\ NoJob
       \/ ~config.native /\ SubmitSensitive(r, "close")
    /\ UNCHANGED closed

\* Tear down what the request holds.  In pool mode the closers run here, on
\* the loop, and then the connections go back to the pool.
Teardown(r) ==
    /\ pc' = [pc EXCEPT ![r] = "closing"]
    /\ closed' = IF config.pool THEN [closed EXCEPT ![r] = @ + 1] ELSE closed
    /\ \/ config.native /\ NoJob
       \/ ~config.native /\ SubmitSensitive(r, "close")

\* Encoding the body or a header of Django's response raises: dispatch is left
\* at once.
SerializeRaises(r) ==
    /\ pc' = [pc EXCEPT ![r] = "raised"]
    /\ NoJob /\ UNCHANGED closed

\* There is a Django response: serialize it and begin the teardown.
Respond(r) == Teardown(r) \/ SerializeRaises(r)

\* A response below 400 goes straight on, also when an error handler made it;
\* one above is logged first.
RespondOrLog(r) ==
    \/ Respond(r)
    \/ /\ pc' = [pc EXCEPT ![r] = "logging"]
       /\ SubmitOther(r, "log")
       /\ UNCHANGED closed

\* The fast path awaits the view, then the rendering of a deferred response;
\* the chain of the slow path does both within its one await.
Render(r) ==
    /\ pc[r] = "viewing"
    /\ route[r] = "fast"
    /\ Resumable(r)
    /\ pc' = [pc EXCEPT ![r] = "rendering"]
    /\ NoJob \/ SubmitSensitive(r, "render")
    /\ UNCHANGED <<config, route, sensitive, sent, finished, closed>>

ViewReturns(r) ==
    /\ pc[r] \in {"viewing", "rendering"}
    /\ Resumable(r)
    /\ RespondOrLog(r)
    /\ UNCHANGED <<config, route, sensitive, sent, finished>>

\* An exception of the view or the rendering becomes a response on the fast
\* path; the chain of the slow path has converted it, and what still escapes
\* leaves dispatch.
ViewRaises(r) ==
    /\ pc[r] \in {"viewing", "rendering"}
    /\ Resumable(r)
    /\ \/ /\ route[r] = "fast"
          /\ pc' = [pc EXCEPT ![r] = "handling"]
          /\ SubmitOther(r, "error")
       \/ /\ route[r] = "slow"
          /\ pc' = [pc EXCEPT ![r] = "raised"]
          /\ NoJob
    /\ UNCHANGED <<config, route, sensitive, sent, finished, closed>>

ExceptionHandled(r) ==
    /\ pc[r] = "handling"
    /\ Resumable(r)
    /\ \/ RespondOrLog(r)
       \/ /\ pc' = [pc EXCEPT ![r] = "raised"]
          /\ NoJob /\ UNCHANGED closed
    /\ UNCHANGED <<config, route, sensitive, sent, finished>>

Logged(r) ==
    /\ pc[r] = "logging"
    /\ Resumable(r)
    /\ Respond(r)
    /\ UNCHANGED <<config, route, sensitive, sent, finished>>

\* The teardown is over; aclose() has run the closers and sent
\* request_finished on the loop.  to_bytes is all that is left.
TornDown(r) ==
    /\ pc[r] = "closing"
    /\ Resumable(r)
    /\ \/ pc' = [pc EXCEPT ![r] = "answered"]
       \/ pc' = [pc EXCEPT ![r] = "raised"]
    /\ \/ /\ config.native /\ ~config.pool
          /\ closed' = [closed EXCEPT ![r] = @ + 1]
          /\ finished' = [finished EXCEPT ![r] = TRUE]
       \/ /\ config.pool \/ ~config.native
          /\ UNCHANGED <<closed, finished>>
    /\ UNCHANGED <<config, route, line, sensitive, others, sent>>

\* The client left: CancelledError at the await.  A job still in line is
\* withdrawn, one that runs goes on without anybody waiting for it.
Cancel(r) ==
    /\ pc[r] \in {"starting", "viewing", "rendering", "handling", "logging",
                 "closing"}
    /\ pc' = [pc EXCEPT ![r] = "cancelled"]
    /\ \/ \E i \in 1..Len(line) : line[i].req = r /\ line' = RemoveAt(line, i)
       \/ (\A i \in 1..Len(line) : line[i].req # r) /\ UNCHANGED line
    /\ UNCHANGED <<config, route, sensitive, others, sent, finished, closed>>

-----------------------------------------------------------------------------
Threads == ThreadTakes \/ ThreadEnds \/ \E j \in others : OtherEnds(j)

Progress(r) ==
    \/ Start(r) \/ StartRaises(r) \/ RunView(r) \/ Render(r)
    \/ ViewReturns(r) \/ ViewRaises(r) \/ ExceptionHandled(r)
    \/ Logged(r) \/ TornDown(r)

Next == Threads \/ \E r \in Requests : Progress(r) \/ Cancel(r)

\* Threads and the loop make progress and views return; clients need not stay
\* and need not leave.
Spec ==
    /\ Init /\ [][Next]_vars
    /\ WF_vars(ThreadTakes) /\ WF_vars(ThreadEnds)
    /\ WF_vars(\E j \in others : OtherEnds(j))
    /\ \A r \in Requests : WF_vars(Progress(r))

-----------------------------------------------------------------------------
(* Properties.                                                             *)

TypeOK ==
    /\ config \in [fast : BOOLEAN, pool : BOOLEAN, native : BOOLEAN]
    /\ pc \in [Requests -> {"idle", "starting", "ready", "viewing", "rendering",
                 "handling", "logging", "closing", "answered", "raised", "cancelled"}]
    /\ route \in [Requests -> {"fast", "slow"}]
    /\ line \in Seq(Job)
    /\ sensitive \subseteq Job /\ Cardinality(sensitive) <= 1
    /\ others \subseteq Job
    /\ sent \in [Requests -> BOOLEAN]
    /\ finished \in [Requests -> BOOLEAN]
    /\ closed \in [Requests -> Nat]

UsesConnections(j) == j.kind \in {"start", "view", "render", "close"}

\* While a sync view runs, no other request opens, checks or closes the
\* thread-local database connections it is using: two jobs that touch them
\* never overlap, also when one belongs to a request cancelled long ago.
ConnectionsNotShared ==
    \A j, k \in RunningJobs : UsesConnections(j) /\ UsesConnections(k) => j = k

\* Bytes go out only after a complete teardown: the closers ran once, and
\* request_finished was sent exactly if request_started was.
AnsweredIsTornDown ==
    \A r \in Requests :
        pc[r] = "answered" =>
            closed[r] = 1 /\ finished[r] = sent[r] /\ sent[r] = ~config.pool

\* No path runs the closers twice or sends request_finished alone, also when
\* a teardown is cancelled halfway.
TeardownAtMostOnce ==
    \A r \in Requests : closed[r] <= 1 /\ (finished[r] => sent[r] /\ closed[r] = 1)

\* Every request that enters dispatch leaves it.
DispatchEnds ==
    \A r \in Requests :
        pc[r] = "ready" \/ pc[r] = "starting"
            ~> pc[r] \in {"answered", "raised", "cancelled"}

\* "request_started pairs with request_finished (teardown below)": whatever
\* becomes of a request that goes on to its view after request_started.
SignalsPaired == \A r \in Requests : sent[r] /\ pc[r] = "viewing" ~> finished[r]
=============================================================================
