# A verification development for django-massless

django-massless serves a Django project over HTTP/1.1 without an ASGI layer: a
Cython protocol parses requests, routes them, runs Django's views and middleware,
and writes the responses.  This directory holds TLA+ specifications of it, the TLC
configurations that check them on small instances, and TLAPS proofs.  Paths below
are relative to `src/massless/` unless they say otherwise.

    tlc -workers 2 -config MCMasslessProtocol.cfg MCMasslessProtocol
    tlapm MasslessProtocolProofs.tla

`PROJECT.json` lists the runs, the source lines behind every definition, the
hazards, the theorems, and one mutant for each property: a form of a definition
that a plausible bug would have, under which TLC reports the property violated.
The mutants stand in the modules, next to the definition they change.

## 1. The system

| Component | State | Operations | Talks to | What is hard |
|---|---|---|---|---|
| Connection (`_protocol.pyx`, `MasslessProtocol`) | transport, queue of parsed requests, worker task, waker task | `connection_made`, `data_received`, `connection_lost`, `_process_loop`, `_wake_on_drain` | the event loop; the handler's registry, drain flag and event | pipelining, a 400 from a callback while the worker owes answers, a client that leaves, the drain racing everything |
| Parser glue (`_Collector`) | the request being parsed, the complete ones | callbacks of httptools | the connection, and the transport for `100 Continue` | several requests in one buffer; an error behind complete ones |
| Dispatch (`dispatch`) | one request: signals sent, closers run, the jobs it waits for | route, view, log, serialize, tear down | router, chain, asgiref's threads, Django's signals | cancellation at each await; thread-local database connections on one shared thread; three forms of teardown |
| Handler (`handler.py`) | router, chain, `_inflight`, `_draining`, `_drain_event` | `begin_drain`, `resolve_request`, `handle` | everything in a worker | shared by all connections |
| Server (`server.py`) | listener, phases of `serve_async` | start, stop, drain, hooks | connections through the handler; signals | deadlines against views that hang and clients that stay |
| Supervisor (`supervisor.py`) | the list of workers, `_shutting_down` | `start`, `monitor`, `shutdown` | worker processes; SIGTERM and SIGINT | signal handlers between any two bytecodes, nested |
| Middleware chain (`_chain.py`) | layers, three hook lists | `_build`, `run`, `_run_view` | middleware, views | modes, order of hooks, exceptions at each border |
| Router (`_router.pyx`) | a table of routes and opaque markers | `build_router`, `match` | Django's resolver, to which it defers | a greedy scan must equal backtracking |
| Request object (`_request.pyx`) | buffers, cached attributes | lazy attributes, promotion | Django's `WSGIRequest` | promotion in the middle of use |
| Fast middleware (`_middleware.py`) | none of its own; the session of a request | `process_request`, `process_response`, the asynchronous save | the request, the response, the session store | any order of layers; a logout between load and save |
| Responses (`responses.py`, `_response.pyx`) | data, content, headers of one response | lazy content, `_serialize`, `to_bytes` | middleware that reads or replaces the content | one body, made in two ways |
| Proxy headers (`_proxy.py`) | the trusted hosts | `forwarded_overrides` | the environ of a request | which part of a header a client may have written |
| Command line (`__main__.py`, `runmassless`) | none | start-up | | |

What makes each of them correct:

* **Connection.** Answers in request order, each once, nothing after an answer that
  closes; every queued request is served or the connection ends; no task outlives a
  lost connection; a drain ends idle workers and does not overtake queued requests.
* **Dispatch.** No two requests use the thread's database connections at once; an
  answered request is completely torn down, and nothing is torn down twice.
* **Server.** What was in flight at the stop is finished before the shutdown hooks,
  within the grace period; a stop always ends.
* **Supervisor.** No worker outlives the master's return; never more than n; always
  back to n; SIGKILL only after SIGTERM.
* **Chain.** Each layer in a mode it supports, hooks in Django's order, each layer
  that passed a request on gets a response for it.
* **Router.** What it answers is what Django's resolver answers.
* **Parser glue.** The n-th request is the n-th message, however the bytes were cut;
  a client that waits for `100 Continue` gets it, once, before its answer.
* **Proxy headers.** The address is the farthest that trusted hosts vouch for.
* **Request object.** What the application set survives the promotion, and there is
  one promotion; the query follows the encoding in force.
* **Middleware and responses.** In any order of layers the client can decode the body,
  a strong validator names the bytes it came with, and the session cookie says what
  became of the session, which stays ended once it was ended.

## 2. The modules

    OrderedResponses          what a connection promises its client
      ^ implemented by
    MasslessProtocol          the connections of a worker       <- MasslessProtocolProofs
      ^ extended by
    MasslessServer            ... and the life of the worker    <- MasslessServerProofs
    Intake                    what fills the queue of a         <- IntakeProofs
                              connection: bytes to requests
    Dispatch                  what one "busy" step of a         <- DispatchProofs
                              connection does
    Chain                     what a "view" step of Dispatch    <- ChainProofs
                              does on the slow path
    Routes                    the scan of a route, the search
                              through a table
      ^ extended by
    Router                    ... made from a URLconf: what     <- RouterProofs
                              the resolution step of Chain and Dispatch does
    Request                   the request object, promoted by its first real use
      ^ extended by
    Exchange                  ... passed through substituted    <- ExchangeProofs
                              middleware to a view, and its answer back to the wire
    Supervisor                the master process; MasslessServer is one of its workers
                                                                <- SupervisorProofs

Each module `M` that TLC checks has a module `MCM` with the values of its constants.
The lower modules refine single steps of the upper ones by decomposition, not by a
formal refinement: `FinishRequest` of MasslessProtocol assumes of `dispatch` only that
it answers, raises or is cancelled, which Dispatch shows (`DispatchEnds`).

### MasslessProtocol

An event loop runs one callback, or one task up to its next await, at a time; that is
an action.  `transport[c]`, `worker[c]` and `waker[c]` say where the transport and the
two tasks are suspended; `queue[c]` is `self._queue`, `inflight` is
`handler._inflight`, `draining` is both `_draining` and the set event, since
`begin_drain` sets them in one step.  Requests are numbered as they are queued
(`arrived`), so a response can name the request it answers (`wire`).

| Code | Actions |
|---|---|
| accept, then `connection_made` | `Accept`, `ConnectionMade` |
| `data_received`: buffer accepted; parser error; exception that escapes | `DataReceived`, `BadRequest`, `DataRaises` |
| `connection_lost` | `ConnectionLost` |
| `_process_loop`: first step; resumed in `queue.get()`; `dispatch` done; cancelled | `WorkerStart`, `WorkerResume`, `FinishRequest`, `WorkerCancelled` |
| head of the loop and its `finally` | `LoopHead`, `TakeItem`, `Return`, `CloseTransport` (parts of the above) |
| `_wake_on_drain` | `WakerStart`, `WakeOnDrain` |
| `begin_drain` | `BeginDrain` |

`FinishRequest` includes everything up to the next await: the write, the removal
from the registry, and taking the next item, as in the code.

### MasslessServer

Extends the connections with `serve_async`: `phase` is the await it is suspended in.
`StopServing` closes the listener, begins the drain and enters `_drain` in one step;
`DrainResumes` is one turn of its loop; `GraceExpires` is its deadline.
`wait_for(server.wait_closed(), 5)` ends at once on some loops, with the last connection
on others, and after its time limit on all: `WaitClosed` may be taken at any time, and
what follows must hold after any of these.  At the end the loop cancels what is left,
as `asyncio.run` does.

### Intake

One connection below its queue.  Between `BufferBegins` and the end of `data_received`
(`BufferEnds`, or one of the exceptions: `ParserError`, which the code answers, and
`ParserUpgrade` and `InvalidUrl`, which it does not catch) the parser calls back in the
order of the message it is in, and stops wherever the buffer does.  `collector` is
`_Collector`; `came` remembers what the parser delivered of each message, for the
properties to compare.  `Answer` is the worker, between two buffers.  A header that
may occur several times is looked up in the set of its positions (`Copies`), the first,
the last or all of which count, as in the code.  `Environ` is
`forwarded_overrides`, for which `Init` chooses the peer and the trusted hosts; a list of
hosts may have empty tokens (`Nobody`), and a scheme that is none counts as http.

### Request and Exchange

`Request` has an operator for each kind of use of the request: what it leaves of the
object, through `Promote` or not.  `inits` counts the runs of `WSGIRequest.__init__`, one of
which may begin another through the setter of `encoding`.  `Exchange` passes one request inwards and outwards
through a stack, `depth` being the layer.  A substituted middleware has an action for
its `process_request` and one for its `process_response`; settings, headers of the
client and caches are choices within them (a redirect or not, a host that is not allowed,
a `Content-Length` that the view has set, the client accepts gzip or not, a validator
matches or not).  Other entries of a stack are an application's
middleware: a use of the request on the way in, or a change of the data of a fast
response on the way out.  `_aprocess_response` of the session middleware awaits the
store, so that it is two actions, `LeaveSession` and `SaveSession`, between which
`OtherLogsOut` may happen.  `Fold` and `ToBytes` are the end of `dispatch` and the
serializer.  A body is its text and whether it is compressed; a validator is the body it
was computed from.

### Dispatch

The awaits of `dispatch` for several requests, with asgiref's threads: one
thread-sensitive thread with a line in front of it, and others for error and log
helpers.  `Start` only puts the receivers of `request_started` in the line; they have run
(`sent`) when the thread has done that job (`RunJob`), and one of them may have raised
(`StartRaises`).  The fast path has an await for the view (`RunView`) and one for a deferred
rendering (`Render`); on the slow path the chain is one await.  A response below 400 skips
the log, also when an error handler made it (`RespondOrLog`).  `config` ranges over the handler's modes (fast dispatch, pool lifecycle, a
Django that has `aclose`).  `Cancel` withdraws the request's job from the line if it is
still there; one that runs goes on.

### Supervisor

`main` is where `run_supervised` is, `handlers` the stack of activations of
`shutdown()`: a signal pushes one between any two steps, also inside `shutdown()`.
The statements that a signal can separate are separate actions (`SpawnStart` and
`SpawnAppend`; `ReapScan` per worker and `ReapAssign`).  A worker exits with code 0 or
another one, or is killed; the code makes nothing of the difference.

### Chain

`BuildEntry` is one turn of the loop of `_build` over `settings.MIDDLEWARE`, from the
innermost entry outwards: it wraps what was built so far (`Wrap`), leaves out an entry
that is not used, or fails the build (`pc = "improper"`).  `BuildEnds` is the end of the
loop; the other actions are one request on its way through.  `chain` holds the layers
with the mode each was adapted to, and the three lists of hooks.  What a layer, hook, view or
rendering computes is a choice: pass on, answer (with a plain or a deferred
response), or raise.

### Routes and Router

In `Routes` a match of a route is a cut of the path, the places where the texts of its
parts end.  `Scans` are the cuts that the loop of `try_match` finds (each place is what
`Consume` makes of the one before), `Matches` those that fit the regular expression that
Django makes of the route; backtracking takes the `Greediest` of them.  `Safe` is the
check of `_finalize`, `Match` the search through a table.  `Router` adds `BuildRouter`,
which flattens the includes of a URLconf into a table, beside `Django`, the resolver it
must agree with, which tries the patterns of an include on the rest of the path.  Both go
down the tree of the URLconf: `Walk` and `Resolve` are recursive functions over `Confs`, the
lists of patterns that are a URLconf or included in one; `Depth` is how deep the includes of
a list nest.
`ResolveRequest` is the handler's choice between them.  The behaviours only enumerate
paths, by appending a character.

## 3. The runs

| Run | Instance | Shows |
|---|---|---|
| `protocol` | 1 connection, 3 requests, buffers of up to 2 | order, finality, registry, drain, liveness; refinement of OrderedResponses |
| `server` | 2 connections, one pipelining 2 requests | in-flight and pipelined work is drained before the hooks; a stop ends, with views that hang and clients that stay, and leaves no task |
| `dispatch` | 2 requests, all 8 configurations | connections not shared, teardown complete and single, dispatch ends |
| `supervisor` | 2 workers, 2 deaths, 2 signals | no orphans, at most n, back to n whatever the exit code, SIGKILL after SIGTERM, shutdown ends |
| `chain` | up to 3 entries of 7 kinds | modes, hook order, responses for every layer, rendering, an answer to every request |
| `router` | every route of up to 3 parts, 11 URLconfs with order and includes up to two deep, an override; every path of up to 5 characters | agreement with Django's resolver |
| `intake` | 2 messages of 10 kinds of head, URL and body in up to 2 chunks; 3 peers, every set of trusted hosts | requests are whole, `100 Continue` fits, the address can be believed |
| `exchange` | every stack of 2 of 13 kinds of layer, every order of 3 of the substituted ones with two others; 44 views | bodies decode, strong validators name them, promotion keeps, the session and its cookie agree, a logout stands |

The bounds and why they are enough:

* `protocol`: three requests in buffers of two give a queue that is non-empty while
  one request is served and another arrives, with any of them refused or closing.
  Connections do not touch each other except through `inflight` and `draining`; two of
  them are in `server`, and the theorems cover any number.
* `server`: a second request behind the first is what the loop in `_drain` is for; a
  second connection is what the stop may find idle, busy or unmade.
* `intake`: two messages, so that what one leaves behind could reach the next; two
  chunks, so that a buffer may end within a part; heads with the header that counts
  first, last, twice, and next to a second one that counts.
* `exchange`: an effect between layers takes one that makes something (a tag, a
  content, a cookie), one that changes it and one that reads it: three.  Views vary in
  one respect at a time: two uses of the request, or one of the session with an answer,
  or the kind of the answer.  One concurrent logout is enough: no other request creates
  the row again.
* `dispatch`: sharing a thread takes two requests; a third one only lengthens the line.
* `supervisor`: `MaxSignals` 2 allows one nested shutdown; `MaxDeaths` 2 a death
  during the refill for another death.
* `router`: five characters are a slash, and a path long enough for the three-place
  UUID that stands for the real one with a neighbour.  The characters are one of each class
  the converters distinguish: slash, digit (also hex and slug), hex letter, dash (slug
  only), newline.
* `chain`: three entries give an innermost, a middle and an outermost layer, with
  entries that are not used between them.

`CHECK_DEADLOCK FALSE` is in all of them since each system may end: connections are
lost, processes exit, requests are answered.

Four more runs expect a violation.  Each checks what the repository says against what
the code does:

| Run | What the repository says | What happens |
|---|---|---|
| `reorder_400` | responses "never reorder within a connection" (`_protocol.pyx:304`) | the 400 for a malformed request is written at once and overtakes the answers to earlier ones; in the run the earlier one is complete in the same buffer |
| `dispatch_signals` | `request_started` pairs with `request_finished` (`_protocol.pyx:232`) | not if dispatch is cancelled or raises after the receivers have run; the run cancels it in the view |
| `router_includes` | a result is "always identical to what Django would have resolved" (`_router.pyx:14`) | keyword arguments of an include are dropped |
| `request_resolver` | with the router's match "the rest of the request path (…, `request.resolver_match` readers) is unchanged" (`handler.py:147`) | a view that uses `META`, `GET` or the session promotes the request, whose `resolver_match` is None afterwards |

The passing runs therefore state what does hold: `ResponsesInOrder` excepts the 400,
`CloseIsLast` covers it; `TeardownAtMostOnce` bounds what a cancellation leaves;
`NoOrphans` holds also for the workers started in a shutdown; `ResolvesAsDjango`
excepts include arguments, and newlines in a path (a `path` parameter takes them,
Django's `.+` does not).

Seen on the way, without a run of its own:

* An exit code of 0 is said to be a clean shutdown, "anything else is treated as an
  unexpected death and triggers a restart" (`supervisor.py:24`).  Nothing reads
  `_GRACEFUL_EXITCODE`: a worker that somebody else told to stop exits with 0 and is replaced,
  as the docstring of `_reap_and_restart` has it ("replace any worker that has exited") and
  `tests/test_supervisor.py` expects.  `KeepsNWorkers` states what the code does, for exits of
  both kinds; its mutant is the code of the comment, under which it fails.
* `_drain` is said to cancel the stragglers (`server.py:122`); it cancels futures that no
  task awaits, and the requests run on into the shutdown hooks.  `DrainResumes` has it so,
  and `NoTaskAfterExit` says that they end with the loop.
* Workers are replaced "unless we are shutting down" (`supervisor.py:60`); a signal during
  the scan is followed by a full set of new workers.  `NoOrphans` and `AtMostN` hold for
  those, too.
* `--workers` is documented as a thread-pool size (`__main__.py:32`) and nothing reads the
  value.
* A route that is a lazy translation is turned into text when the router is built.
* A streaming response is replaced after the middleware has run: the 501 carries none of
  their headers, and not the cookie of a session that they saved.  `SessionToldToClient`
  speaks of responses that passed the session middleware and were sent.
* A path that a middleware put on a lazy request is replaced by the one on the wire when
  something promotes it, and so is a `resolver_match`; `PromotionKeeps` says what stays, and
  that no promotion begins within another.
* A `100 Continue` for a later pipelined request may be written ahead of the answer to an
  earlier one; `ContinueFits` relates it to the answer of its own request only.

## 4. Fairness

* `FairSpecProtocol`: an event loop runs every ready callback and task
  (`ConnectionMade`, `WorkerStep`, `WakerStep`), and views return.  Nothing is assumed
  of clients, and no drain need begin.
* `FairSpecServer`: `serve_async` resumes when what it awaits is ready, its time
  limits run out (`wait_closed` has one of its own), hooks return.  Views need **not** return here: `ShutdownCompletes` is about
  those that hang.  After the exit only the cancelled tasks need to run.
* `Dispatch`: threads and the loop make progress, views return; requests need not be
  cancelled.
* `Supervisor`: the master makes steps.  Workers need not obey SIGTERM, processes
  need not die, signals need not arrive.  Spawning fails only in `SpawnFails`, which is
  not fair.
* `Chain`: layers, hooks and views return.
* `Router`, `Intake` and `Exchange` have no liveness: what they wait for is in
  MasslessProtocol, Dispatch and Chain.

## 5. What is proved

Every safety property that a passing run checks is a theorem.  The runs show them on the
instances of section 3; the theorems hold for every value of the constants that satisfies
the assumptions.

| Module | Theorems | States |
|---|---|---|
| `MasslessProtocolProofs` | `TypeCorrect`, `InOrder`, `CloseLast`, `InflightExact`, `DrainServes`, `Implements` | `TypeOK`, `ResponsesInOrder`, `CloseIsLast`, `InflightIsBusy`, `ArrivedBeforeDrainServed`, `ImplementsOrderedResponses` |
| `MasslessServerProofs` | `DrainedBeforeTheHooks` | `DrainedBeforeHooks` |
| `IntakeProofs` | `IntakeTypeCorrect`, `RequestsAreTheMessages`, `ContinueWhereItBelongs`, `RemoteCanBeBelieved` | `TypeOK`, `RequestsAreWhole`, `ContinueFits`, `RemoteIsFarthestBelieved` |
| `DispatchProofs` | `DispatchTypeCorrect`, `ConnectionsAreNotShared`, `AnsweredAreTornDown`, `TeardownsHappenAtMostOnce` | `TypeOK`, `ConnectionsNotShared`, `AnsweredIsTornDown`, `TeardownAtMostOnce` |
| `ChainProofs` | `LayersModesFit`, `HooksRunInOrder`, `LayersGetTheirResponse`, `ResponsesLeaveRendered` | `ModesFit`, `HooksInOrder`, `EveryLayerGetsItsResponse`, `LeavesRendered` |
| `RouterProofs` | `RouterIsDjangos`, `RouterMissesWithDjango` | `ResolvesAsDjango`, `MissIsDjangos` |
| | `GreedyIsEnough`, `RouteIsDjangos`, `IncludeIsOneRoute`, `TableIsDjangos` | of one route, an include and one table, what the two rest on |
| `ExchangeProofs` | `QueryFollowsEncoding`, `AnswersDecode`, `ValidatorsNameTheBody`, `SessionsAreTold`, `PromotionsKeep`, `LogoutsStand` | `GETFollowsEncoding`, `BodyDecodes`, `StrongTagNamesBody`, `SessionToldToClient`, `PromotionKeeps`, `LogoutStands` |
| `SupervisorProofs` | `SupervisorTypeCorrect`, `NoWorkerIsOrphaned`, `NeverMoreThanN`, `KillsOnlyTheTold` | `TypeOK`, `NoOrphans`, `AtMostN`, `KillOnlyAfterTerm` |

Each module of a specification also proves its inductive invariant as a theorem (`Inductive`,
`ServerInvariant`, `IntakeInvariant`, ...), from which the others follow; TLC checked
each invariant on an instance first.  The proofs have one layout: facts about sequences
and about the operators of the module, a lemma for each helper that several actions share,
one lemma per action or group of actions, and the theorems.

### Assumptions

They are `ASSUME`s in the modules, and TLC evaluates them in the runs.

| Module | Assumed of the constants | Because |
|---|---|---|
| MasslessProtocol | each connection has a natural number of requests; buffers hold at least one | these are bounds; nothing is assumed of the set of connections |
| Intake | heads have a version, and a forwarded header is a list of one token at least, which may be empty; some messages, one chunk at least; `Nobody` is no host | bounds, and what `_proxy.py` gets from splitting a header |
| Dispatch | nothing | |
| Chain | a class of middleware is described by what it can do and what it makes | |
| Routes | the shape of a UUID is a sequence, and not empty; a slash and a dash are characters | |
| Router | URLconfs are lists of patterns, of parts whose literals are not empty | `_parse_raw` drops empty literals |
| | the includes of a list nest to some depth, and that of all of them is finite | a list that includes itself has no table: `_walk` would not end |
| Exchange | a stack has at most one layer that keeps the session | two of them would share `request.session`, and the outer one would replace the cookie of the inner |
| | `Sound`: an answer the view makes says that it is compressed if and only if it is; a strong validator of its own names its content; it does not set the session's cookie | it is about middleware; what a view says of its own answer is not checked by it |
| Supervisor | one worker at least | `run_supervised` is for more than one |

### The arguments

**MasslessProtocol.** None of the four properties is inductive: nothing in
`ResponsesInOrder` says that the request in dispatch is the next one.  `IInv` adds, for
each connection:

* `Numbering`: up to the first sentinel the queue holds the requests that follow the
  current one, in order, and all of them if there is no sentinel; what precedes a
  sentinel covers everything that had arrived when the drain began; before a drain
  there is no sentinel;
* `Progressing`: while the transport is open, the wire has an answer to each
  request taken but the one in dispatch; a connection that is not made has no task and an
  empty queue; only a lost connection has a cancelled worker;
* `Speaking` and `Leaving`: the properties themselves, and that a worker which left
  without a closing answer left because of the drain.

The proof splits along the code: a lemma for each helper (`TakeItem`, `LoopHead`,
`Enqueue`), then one per action, most of which only say what it leaves alone.

**OrderedResponses.** `Promise` maps the connections to what a client sees of them.  With
`IInv` and `NumbersArrived` (no number in the queue or in dispatch exceeds what arrived)
each action is a step of the promise (a request, an answer to the next one, a refusal, an
end) or leaves what is seen unchanged.  The specification maps, with its initial states.
OrderedResponses has no fairness: what must happen eventually is stated of
MasslessProtocol itself.

**MasslessServer.** `IInv` cannot hold to the end, because the final cancellation reaches
workers of connections that are not lost.  `ServerInv` has it until the phase is "stopped",
and for the connections that were in flight at the stop that they are `Draining`: busy, or
done with all that is owed served.  The loop of `_drain` ends without the deadline only
when none of those is busy, and a worker in a drain never goes back to waiting.

**Intake.** What the worker took, what is queued and what the collector holds are one
sequence; only the end of a message makes it longer, and only a failure drops from it.
`Filling` says that inside a message the accumulators are what came of that message,
`Ordered` and `BeforeAnswers` where the wire may have a `100 Continue`.  For the address, a
chain of hosts of any length has a nearest untrusted host because the natural numbers are
well-ordered.

**Dispatch.** Each suspended request waits for a job of its own, in the line or on a
thread (`JobsAwaited`, `OneJobEach`); only jobs that use connections go to the
thread-sensitive one, which runs one at a time (`KindsOfThreads`).  A cancelled request may
leave a running job behind, which nobody waits for and which still has the thread.
`SignalState` says that a request goes on to its view only when its receivers of
`request_started` have run, and `TeardownState` at each await what was closed, for the two
lifecycles.

**Chain.** `Building` says of the loop that its lists are complete and ordered for the
entries it has seen, so also at the end of any list of settings.  `Onion` says at each
place of a run that the depth is the number of layers that passed the request on and have
not got a response for it; an exception is one layer deeper, which is where it is
converted.  `Running` ties what ran of each list of hooks to the index of the loop.

**Routes.** `GreedyIsEnough` is about routes of parts that `_parse_raw` makes (no empty
literals), that are `Safe`, and paths without a newline.  A parameter followed by a
literal that it cannot consume has one place to stop, the literal's first character; a last
one stops at the end.  So a cut is found by the scan if and only if it fits the expression,
part by part and without induction; and the scan finds one cut at most, by the least
place at which two of them would differ.

An include is matched by Django first, as far as backtracking takes it, and its patterns
get what is left.  Two matches of a safe prefix differ in their last part only, so the
greediest one is the one that goes farthest, and by `ConsumesMost` no match goes farther
than the scan; the scan of the two as one route stops in the same place, because what it
stops at is the literal that follows.  So the nested match and the flat one are the same cut
(`Joined`, `HeadOf` and `TailOf` are the two directions), and of two parameters with one
name both take the inner one.

**Router.** What is left is the tree.  `Fits` says of the entries made below a prefix, and of
what Django finds there: if there are no entries nothing is found; below a prefix for which
greedy is not enough all entries are opaque; where no entry hits a path nothing is found;
and the first entry that hits, if it is a route, gives what is found, wrapped in what the
prefix captured.  The second and the third are needed for an include that is itself not
`Safe`: the argument about one route says nothing about it, but its table defers to Django for
every path, unless it is empty.  `Fits` holds of a route (`RouteFits`, from
`IncludeIsOneRoute`), is handed up by an include (`IncludeFits`: the prefix made longer by
the include wraps what the two wrap), and by a list of patterns (`ListFits`: flattening keeps
the order, so the entries before the one that hits belong to patterns that do not match);
so it holds of every list, or there would be a shallowest one of which it does not
(`Shallowest`).  That literals are merged changes nothing is `MergedScans`: after each part
the merged route is `Alike`, with the same ways to reach each place of the path.

The provers cannot use a recursive definition as it stands, nor the induction theorems of the
library.  For each recursive function (`Walk`, `Resolve`, `WithDefaults`, the rounds of
`Merge` and of flattening) a lemma shows, by the least stage that would fail, that there is a
function which satisfies its equation; the definition, a CHOOSE, is then one of them.

**Exchange.** Each layer hands on a response that is `Consistent` in itself (it is encoded
if it says so, and a strong validator names its content), whatever it was handed: that is
why the length and the order of the stack do not matter.  Until the session layer is left
(`Ahead`) nothing is saved and no response carries its mark; afterwards neither the session
nor what the response says of it changes, but for the status (`Tells`).

**Supervisor.** Who is alive is on the list or was just started (`Tracked`); what is
counted stays within n in each place of `start`, of the scan and of the refill
(`Counted`); and for every activation of `shutdown()` on the stack, who has not been told
is among those it still has to visit (`Activations`).  An inner activation that empties
the list makes this true of the outer ones, and none of them adds to it.

### Model-checked only

* All liveness (`RequestsServed`, `DrainEndsWorkers`, `LostLeavesNoTask`,
  `ShutdownCompletes` and `NoTaskAfterExit` of the server, `DispatchEnds`, `KeepsNWorkers`
  and `ShutdownCompletes` of the master, `EveryRequestAnswered`): it needs fairness and
  ENABLED, which the prover does not do.
* That `FinishRequest` may take of `dispatch` what Dispatch shows, and the other joints
  between modules that decompose a step.

## 6. What is not modelled

* **Request object**: `user` and `aget_user` (a claim looked up in the database), and
  `body`, `POST`, `FILES` and the streams, which are Django's after a promotion.
* **Middleware**: `X-Frame-Options` sets a header and has no state; authentication and
  CSRF inherit their hooks from Django; messages keep what Django's storage does.
* **Session store**: `SaveSession` is one update, as in the database backend.  The cache
  backend looks for the row and then writes it; a logout between the two is not modelled.
* **Proxy headers**: `host:port` and networks in CIDR form; hosts are values here.
* **A fast response with `Connection: close`** is sent as keep-alive (`_protocol.pyx:252`),
  unlike others: the headers of a response are not modelled.
* **Bytes**: layout of requests and responses, header folding, cookies, body encoding;
  that serialization can raise is in Dispatch.
* **Streaming responses** are answered with 501 by the code; Exchange has that, and
  nothing of a stream.
* **`_shutdown_executor`**: `handler.executor` is never assigned, so it never runs.
* **Flow control**: the queue is unbounded and reading is never paused; the model
  bounds requests.
* **Command line, management command, benchmarks**: start-up code.
* **Memory and the C layer**: typed buffers are taken to be what they hold.

## 7. Plan

1. *Done*: the modules of section 2, and the theorems of section 5: every safety property
   that a run checks, and the refinement of OrderedResponses.
2. *Model*: `user` and `aget_user` on the request, beside the authentication middleware.
3. *Proofs*: that Dispatch does of a "busy" step what MasslessProtocol takes from it, as a
   refinement like that of OrderedResponses.
