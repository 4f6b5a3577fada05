-------------------------- MODULE MasslessProtocol --------------------------
(***************************************************************************)
(* The connections of one worker process: class MasslessProtocol of        *)
(* src/massless/_protocol.pyx, with the drain latch and the registry of    *)
(* requests in flight that it shares with the server through the handler.  *)
(*                                                                         *)
(* Every connection has a transport (owned by the event loop), a queue of  *)
(* parsed requests, a worker task that serves the queue, and a waker task  *)
(* that queues a sentinel once a drain begins.  All of them run on one     *)
(* event loop, so an action is what runs between two suspensions: a        *)
(* callback of the transport, or one step of a task.                       *)
(***************************************************************************)
EXTENDS Naturals, Sequences

CONSTANTS
    Conns,         \* the connections a client may open
    MaxRequests,   \* bound: requests a client sends on each connection
    MaxBurst       \* bound: requests that arrive in one buffer

ASSUME MaxRequestsAssumption == MaxRequests \in [Conns -> Nat]
ASSUME MaxBurstAssumption == MaxBurst \in Nat \ {0}

VARIABLES
    transport,   \* none, accepted, open, closing or lost (self._transport is None)
    worker,      \* none, created, waiting (in queue.get), busy (in dispatch), done
    cancelled,   \* task.cancel() was called and is not yet delivered
    waker,       \* none, created, waiting (for the drain event), done
    queue,       \* self._queue: requests, and the sentinel of the drain
    current,     \* the request the worker took last (core, keep_alive)
    arrived,     \* history: requests queued so far; they are numbered from 1
    wire,        \* history: the responses written, in order
    inflight,    \* handler._inflight: the requests being handled
    draining,    \* handler._draining, and handler._drain_event is set
    owed         \* history: what had arrived when the drain began

vars == <<transport, worker, cancelled, waker, queue, current, arrived, wire,
          inflight, draining, owed>>

-----------------------------------------------------------------------------
(* A queued item is a request, or the sentinel, which has number 0.        *)

Item == [n : Nat, keep : BOOLEAN]
Sentinel == [n |-> 0, keep |-> TRUE]

Response == [n : Nat, kind : {"response", "bad request"}, close : BOOLEAN]

\* The keep-alive verdicts of the requests of one buffer.
Bursts == UNION {[1..k -> BOOLEAN] : k \in 1..MaxBurst}

InitProtocol ==
    /\ transport = [c \in Conns |-> "none"]
    /\ worker = [c \in Conns |-> "none"]
    /\ cancelled = [c \in Conns |-> FALSE]
    /\ waker = [c \in Conns |-> "none"]
    /\ queue = [c \in Conns |-> << >>]
    /\ current = [c \in Conns |-> Sentinel]
    /\ arrived = [c \in Conns |-> 0]
    /\ wire = [c \in Conns |-> << >>]
    /\ inflight = {}
    /\ draining = FALSE
    /\ owed = [c \in Conns |-> 0]

-----------------------------------------------------------------------------
(* Callbacks of the transport.                                             *)

\* The loop accepts a connection; connection_made follows in a later step.
Accept(c) ==
    /\ transport[c] = "none"
    /\ transport' = [transport EXCEPT ![c] = "accepted"]
    /\ UNCHANGED <<worker, cancelled, waker, queue, current, arrived, wire,
                   inflight, draining, owed>>

ConnectionMade(c) ==
    /\ transport[c] = "accepted"
    /\ transport' = [transport EXCEPT ![c] = "open"]
    /\ worker' = [worker EXCEPT ![c] = "created"]
    /\ UNCHANGED <<cancelled, waker, queue, current, arrived, wire, inflight,
                   draining, owed>>

\* Queue the complete requests of a buffer, in the order they were parsed.
Numbered(m, keeps) == [i \in 1..Len(keeps) |-> [n |-> m + i, keep |-> keeps[i]]]

Enqueue(c, keeps) ==
    /\ arrived[c] + Len(keeps) <= MaxRequests[c]
    /\ arrived' = [arrived EXCEPT ![c] = @ + Len(keeps)]
    /\ queue' = [queue EXCEPT ![c] = @ \o Numbered(arrived[c], keeps)]

DataReceived(c, keeps) ==
    /\ transport[c] = "open"
    /\ Enqueue(c, keeps)
    /\ UNCHANGED <<transport, worker, cancelled, waker, current, wire,
                   inflight, draining, owed>>

\* The parser refuses a buffer: 400 and close.  The k complete requests that
\* precede the offending one in this buffer stay in the collector: nobody
\* takes them any more.
BadRequest(c, k) ==
    /\ transport[c] = "open"
    /\ arrived[c] + k < MaxRequests[c]
    /\ wire' = [wire EXCEPT ![c] = Append(@,
         [n |-> arrived[c] + k + 1, kind |-> "bad request", close |-> TRUE])]
    /\ transport' = [transport EXCEPT ![c] = "closing"]
    /\ UNCHANGED <<worker, cancelled, waker, queue, current, arrived,
                   inflight, draining, owed>>

\* parse_url, or a protocol upgrade, raises an exception that data_received
\* does not catch, behind the requests of this buffer that are queued, if any:
\* the loop aborts the transport.
DataRaises(c, keeps) ==
    /\ transport[c] = "open"
    /\ Enqueue(c, keeps)
    /\ transport' = [transport EXCEPT ![c] = "closing"]
    /\ UNCHANGED <<worker, cancelled, waker, current, wire, inflight,
                   draining, owed>>

\* Mutant: the worker of a lost connection is never cancelled.
ConnectionLostWithoutCancel(c) ==
    /\ transport[c] \in {"open", "closing"}
    /\ transport' = [transport EXCEPT ![c] = "lost"]
    /\ UNCHANGED <<worker, cancelled, waker, queue, current, arrived, wire,
                   inflight, draining, owed>>

\* The client left, or a closed transport is flushed.  Only outside a drain
\* is the worker cancelled.
ConnectionLost(c) ==
    /\ transport[c] \in {"open", "closing"}
    /\ transport' = [transport EXCEPT ![c] = "lost"]
    /\ cancelled' = [cancelled EXCEPT ![c] =
         @ \/ (~draining /\ worker[c] \in {"created", "waiting", "busy"})]
    /\ UNCHANGED <<worker, waker, queue, current, arrived, wire, inflight,
                   draining, owed>>

-----------------------------------------------------------------------------
(* The worker task.  w is the waker's state and fl the registry as the     *)
(* step has left them so far.                                              *)

\* Mutant: closing again a transport that is not open leaves a state of its own.
CloseTransportTwice(c) ==
    transport' = [transport EXCEPT ![c] = IF @ = "open" THEN "closing" ELSE "closed"]

CloseTransport(c) ==
    transport' = [transport EXCEPT ![c] = IF @ = "open" THEN "closing" ELSE @]

\* Mutant: the worker leaves and the connection stays open.
ReturnLeavingOpen(c, fl) ==
    /\ worker' = [worker EXCEPT ![c] = "done"]
    /\ waker' = [waker EXCEPT ![c] = "done"]
    /\ inflight' = fl
    /\ UNCHANGED transport

\* The task returns; its finally clause cancels a waker that still waits.
Return(c, fl) ==
    /\ CloseTransport(c)
    /\ worker' = [worker EXCEPT ![c] = "done"]
    /\ waker' = [waker EXCEPT ![c] = "done"]
    /\ inflight' = fl

\* Mutant: a stack in place of the queue.
TakeNewestItem(c, w, fl) ==
    LET newest == queue[c][Len(queue[c])]
    IN  /\ queue[c] # << >>
        /\ queue' = [queue EXCEPT ![c] = SubSeq(@, 1, Len(@) - 1)]
        /\ \/ newest = Sentinel /\ Return(c, fl) /\ UNCHANGED current
           \/ /\ newest # Sentinel
              /\ current' = [current EXCEPT ![c] = newest]
              /\ worker' = [worker EXCEPT ![c] = "busy"]
              /\ waker' = [waker EXCEPT ![c] = w]
              /\ inflight' = fl \cup {<<c, newest.n>>}
              /\ UNCHANGED transport

\* queue.get() has an item: the sentinel ends the task, a request is
\* registered and dispatched.
TakeItem(c, w, fl) ==
    /\ queue[c] # << >>
    /\ queue' = [queue EXCEPT ![c] = Tail(@)]
    /\ \/ /\ Head(queue[c]) = Sentinel
          /\ Return(c, fl)
          /\ UNCHANGED current
       \/ /\ Head(queue[c]) # Sentinel
          /\ current' = [current EXCEPT ![c] = Head(queue[c])]
          /\ worker' = [worker EXCEPT ![c] = "busy"]
          /\ waker' = [waker EXCEPT ![c] = w]
          /\ inflight' = fl \cup {<<c, Head(queue[c]).n>>}
          /\ UNCHANGED transport

\* The head of the loop, up to the suspension in queue.get() or dispatch().
LoopHead(c, w, fl) ==
    \/ TakeItem(c, w, fl)
    \/ /\ queue[c] = << >>
       /\ draining
       /\ Return(c, fl)
       /\ UNCHANGED <<queue, current>>
    \/ /\ queue[c] = << >>
       /\ ~draining
       /\ worker' = [worker EXCEPT ![c] = "waiting"]
       /\ waker' = [waker EXCEPT ![c] = w]
       /\ inflight' = fl
       /\ UNCHANGED <<transport, queue, current>>

\* First step of _process_loop: it creates the waker, then enters the loop.
WorkerStart(c) ==
    /\ worker[c] = "created"
    /\ ~cancelled[c]
    /\ LoopHead(c, "created", inflight)
    /\ UNCHANGED <<cancelled, arrived, wire, draining, owed>>

\* The worker resumes in queue.get().
WorkerResume(c) ==
    /\ worker[c] = "waiting"
    /\ ~cancelled[c]
    /\ TakeItem(c, waker[c], inflight)
    /\ UNCHANGED <<cancelled, arrived, wire, draining, owed>>

\* Mutant: the response is written without a look at the transport.
FinishRequestUnchecked(c, closes) ==
    LET request == current[c]
        stay == request.keep /\ ~closes
        fl == inflight \ {<<c, request.n>>}
    IN  /\ worker[c] = "busy"
        /\ ~cancelled[c]
        /\ wire' = [wire EXCEPT ![c] = Append(@,
             [n |-> request.n, kind |-> "response", close |-> ~stay])]
        /\ \/ stay /\ LoopHead(c, waker[c], fl)
           \/ ~stay /\ Return(c, fl) /\ UNCHANGED <<queue, current>>
        /\ UNCHANGED <<cancelled, arrived, draining, owed>>

\* dispatch() ends.  The response closes the connection when the request
\* asked for it, when the response does, or when dispatch raised and the
\* answer is a plain 500.  A transport that is closing or gone drops the
\* response, and the loop goes on with whatever is queued.
FinishRequest(c, closes) ==
    LET request == current[c]
        stay == request.keep /\ ~closes
        fl == inflight \ {<<c, request.n>>}
    IN  /\ worker[c] = "busy"
        /\ ~cancelled[c]
        /\ \/ /\ transport[c] = "open"
              /\ wire' = [wire EXCEPT ![c] = Append(@,
                   [n |-> request.n, kind |-> "response", close |-> ~stay])]
              /\ \/ stay /\ LoopHead(c, waker[c], fl)
                 \/ ~stay /\ Return(c, fl) /\ UNCHANGED <<queue, current>>
           \/ /\ transport[c] # "open"
              /\ LoopHead(c, waker[c], fl)
              /\ UNCHANGED wire
        /\ UNCHANGED <<cancelled, arrived, draining, owed>>

\* Mutant: a cancelled request stays in the registry.
WorkerCancelledInFlight(c) ==
    /\ cancelled[c]
    /\ worker[c] \in {"created", "waiting", "busy"}
    /\ worker' = [worker EXCEPT ![c] = "done"]
    /\ cancelled' = [cancelled EXCEPT ![c] = FALSE]
    /\ waker' = [waker EXCEPT ![c] = IF @ = "none" THEN @ ELSE "done"]
    /\ UNCHANGED <<transport, queue, current, arrived, wire, inflight, draining, owed>>

\* CancelledError reaches the task.  A task that never ran has no waker.
WorkerCancelled(c) ==
    /\ cancelled[c]
    /\ worker[c] \in {"created", "waiting", "busy"}
    /\ worker' = [worker EXCEPT ![c] = "done"]
    /\ cancelled' = [cancelled EXCEPT ![c] = FALSE]
    /\ waker' = [waker EXCEPT ![c] = IF @ = "none" THEN @ ELSE "done"]
    /\ inflight' = inflight \ {<<c, current[c].n>>}
    /\ UNCHANGED <<transport, queue, current, arrived, wire, draining, owed>>

-----------------------------------------------------------------------------
(* The waker task and the start of the drain.                              *)

WakerStart(c) ==
    /\ waker[c] = "created"
    /\ ~draining
    /\ waker' = [waker EXCEPT ![c] = "waiting"]
    /\ UNCHANGED <<transport, worker, cancelled, queue, current, arrived,
                   wire, inflight, draining, owed>>

\* Mutants: the sentinel goes to the front of the queue; no sentinel at all.
WakeOnDrainFirst(c) ==
    /\ waker[c] \in {"created", "waiting"}
    /\ draining
    /\ waker' = [waker EXCEPT ![c] = "done"]
    /\ queue' = [queue EXCEPT ![c] = <<Sentinel>> \o @]
    /\ UNCHANGED <<transport, worker, cancelled, current, arrived, wire,
                   inflight, draining, owed>>

WakeOnDrainSilently(c) ==
    /\ waker[c] \in {"created", "waiting"}
    /\ draining
    /\ waker' = [waker EXCEPT ![c] = "done"]
    /\ UNCHANGED <<transport, worker, cancelled, queue, current, arrived, wire,
                   inflight, draining, owed>>

WakeOnDrain(c) ==
    /\ waker[c] \in {"created", "waiting"}
    /\ draining
    /\ waker' = [waker EXCEPT ![c] = "done"]
    /\ queue' = [queue EXCEPT ![c] = Append(@, Sentinel)]
    /\ UNCHANGED <<transport, worker, cancelled, current, arrived, wire,
                   inflight, draining, owed>>

BeginDrain ==
    /\ ~draining
    /\ draining' = TRUE
    /\ owed' = arrived
    /\ UNCHANGED <<transport, worker, cancelled, waker, queue, current,
                   arrived, wire, inflight>>

-----------------------------------------------------------------------------
Callback(c) ==
    \/ ConnectionMade(c)
    \/ \E keeps \in Bursts : DataReceived(c, keeps)
    \/ \E k \in 0..MaxBurst - 1 : BadRequest(c, k)
    \/ \E keeps \in Bursts \cup {<< >>} : DataRaises(c, keeps)
    \/ ConnectionLost(c)

WorkerStep(c) ==
    \/ WorkerStart(c)
    \/ WorkerResume(c)
    \/ \E closes \in BOOLEAN : FinishRequest(c, closes)
    \/ WorkerCancelled(c)

WakerStep(c) == WakerStart(c) \/ WakeOnDrain(c)

NextProtocol ==
    \/ \E c \in Conns : Accept(c) \/ Callback(c) \/ WorkerStep(c) \/ WakerStep(c)
    \/ BeginDrain

SpecProtocol == InitProtocol /\ [][NextProtocol]_vars

\* The loop runs every ready callback and task, and views return.  Nothing
\* is assumed of clients: they need not send, read or close.
FairTasks ==
    \A c \in Conns :
        /\ WF_vars(ConnectionMade(c))
        /\ WF_vars(WorkerStep(c))
        /\ WF_vars(WakerStep(c))

FairSpecProtocol == SpecProtocol /\ FairTasks

-----------------------------------------------------------------------------
(* Properties.                                                             *)

\* Every variable has the type its declaration says.
TypeOK ==
    /\ transport \in [Conns -> {"none", "accepted", "open", "closing", "lost"}]
    /\ worker \in [Conns -> {"none", "created", "waiting", "busy", "done"}]
    /\ cancelled \in [Conns -> BOOLEAN]
    /\ waker \in [Conns -> {"none", "created", "waiting", "done"}]
    /\ queue \in [Conns -> Seq(Item)]
    /\ current \in [Conns -> Item]
    /\ arrived \in [Conns -> Nat]
    /\ wire \in [Conns -> Seq(Response)]
    /\ inflight \subseteq Conns \X Nat
    /\ draining \in BOOLEAN
    /\ owed \in [Conns -> Nat]

\* Pipelined requests are answered in order, none skipped and none twice:
\* the i-th response on the wire answers request i (the docstring of
\* MasslessProtocol, for everything but the 400 of data_received).
ResponsesInOrder ==
    \A c \in Conns : \A i \in 1..Len(wire[c]) :
        wire[c][i].kind = "response" => wire[c][i].n = i

\* A response that announces the end of the connection is the last word on
\* it, whatever is still queued or being served (_process_loop, data_received).
CloseIsLast ==
    \A c \in Conns : \A i \in 1..Len(wire[c]) :
        wire[c][i].close => i = Len(wire[c]) /\ transport[c] \in {"closing", "lost"}

\* handler._inflight holds one entry for each request in dispatch and nothing
\* else: what the server's drain waits for is exactly the work in progress.
InflightIsBusy ==
    inflight = {<<c, current[c].n>> : c \in {d \in Conns : worker[d] = "busy"}}

SaidClose(c) == \E i \in 1..Len(wire[c]) : wire[c][i].close

\* When a worker leaves because of the drain, it has served every request
\* that had arrived when the drain began: the sentinel never overtakes one.
ArrivedBeforeDrainServed ==
    \A c \in Conns :
        worker[c] = "done" /\ transport[c] = "closing" /\ ~SaidClose(c)
            => current[c].n >= owed[c]

\* Every request queued on a connection is taken by the worker, or the
\* connection ends: no request waits forever behind a worker that left.
RequestsServed ==
    \A c \in Conns : \A n \in 1..MaxRequests[c] :
        arrived[c] >= n ~> (current[c].n >= n \/ transport[c] # "open")

\* A drain ends every worker, the idle ones blocked in queue.get() included,
\* whatever the clients do.
DrainEndsWorkers ==
    \A c \in Conns : (draining /\ worker[c] # "none") ~> worker[c] = "done"

\* A connection that is gone leaves no task behind, whether it was lost
\* before the drain (cancelled) or during it (left to finish).
LostLeavesNoTask ==
    \A c \in Conns : transport[c] = "lost"
        ~> (worker[c] = "done" /\ waker[c] \in {"none", "done"})

-----------------------------------------------------------------------------
(* What the connections promise their clients: OrderedResponses.           *)

\* The transport still takes data: before the connection is made, and open.
Writable(c) == transport[c] \notin {"closing", "lost"}

Promise == INSTANCE OrderedResponses WITH
    MaxAsked <- MaxRequests,
    asked <- arrived,
    said <- wire,
    open <- [c \in Conns |-> Writable(c)]

\* The connections implement the abstract specification: what each client
\* reads is an in-order prefix of the answers to what it sent, and a refusal
\* or the end of the connection is final.
ImplementsOrderedResponses == Promise!Spec
=============================================================================
