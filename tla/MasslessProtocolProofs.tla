----------------------- MODULE MasslessProtocolProofs -----------------------
(* Theorems about the connections, for any set of them and any bounds:     *)
(* what is safe, and that they implement OrderedResponses.                 *)
EXTENDS MasslessProtocol, SequenceTheorems, TLAPS

\* What a buffer queues: its requests, or those before an exception.
Queued == Bursts \cup {<< >>}

\* It is a sequence of keep-alive verdicts.
LEMMA BurstIsSeq ==
    ASSUME NEW keeps \in Queued
    PROVE  keeps \in Seq(BOOLEAN) /\ Len(keeps) \in Nat
<1>0. CASE keeps = << >>
    BY <1>0
<1> SUFFICES ASSUME keeps \in Bursts PROVE keeps \in Seq(BOOLEAN) /\ Len(keeps) \in Nat
    BY <1>0 DEF Queued
<1>1. PICK k \in 1..MaxBurst : keeps \in [1..k -> BOOLEAN]
    BY DEF Bursts
<1>2. k \in Nat
    BY <1>1, MaxBurstAssumption
<1> QED
    BY <1>1, <1>2

\* Numbering a burst gives as many items, numbered from m + 1.
LEMMA NumberedItems ==
    ASSUME NEW keeps \in Queued, NEW m \in Nat
    PROVE  /\ Numbered(m, keeps) \in Seq(Item)
           /\ Len(Numbered(m, keeps)) = Len(keeps)
           /\ \A i \in 1..Len(keeps) :
                Numbered(m, keeps)[i] = [n |-> m + i, keep |-> keeps[i]]
<1>1. keeps \in Seq(BOOLEAN) /\ Len(keeps) \in Nat
    BY BurstIsSeq
<1>2. \A i \in 1..Len(keeps) : keeps[i] \in BOOLEAN /\ m + i \in Nat
    BY <1>1
<1>3. Numbered(m, keeps) \in [1..Len(keeps) -> Item]
    BY <1>2 DEF Numbered, Item
<1>4. Numbered(m, keeps) \in Seq(Item)
    BY <1>1, <1>3
<1>5. Len(Numbered(m, keeps)) = Len(keeps)
    BY <1>1, <1>3, <1>4
<1> QED
    BY <1>4, <1>5 DEF Numbered

-----------------------------------------------------------------------------
(* The inductive invariant.  ResponsesInOrder alone is not inductive: it    *)
(* holds because requests keep their numbers through the queue, and because *)
(* the worker is never more than one request ahead of the wire.             *)

\* The first i positions of the queue hold no sentinel.
Ahead(q, i) == \A j \in 1..i : q[j] # Sentinel

\* Up to the sentinel the queue holds the requests that follow the current
\* one, all of them if there is no sentinel; before a sentinel there is all
\* that had arrived when the drain began; without a drain there is none.
Numbering(c) ==
    /\ owed[c] <= arrived[c]
    /\ worker[c] # "done" =>
         /\ \A i \in 1..Len(queue[c]) :
              Ahead(queue[c], i) => queue[c][i].n = current[c].n + i
         /\ Ahead(queue[c], Len(queue[c])) => arrived[c] = current[c].n + Len(queue[c])
         /\ \A i \in 1..Len(queue[c]) :
              queue[c][i] = Sentinel /\ Ahead(queue[c], i - 1)
                  => current[c].n + i > owed[c]
         /\ ~draining => Ahead(queue[c], Len(queue[c]))

\* While the transport is open the wire has an answer to every request taken,
\* but for the one in dispatch.
Progressing(c) ==
    /\ transport[c] \in {"none", "accepted"} =>
         /\ worker[c] = "none"
         /\ waker[c] = "none"
         /\ queue[c] = << >>
         /\ wire[c] = << >>
         /\ current[c].n = 0
    /\ transport[c] \notin {"none", "accepted"} => worker[c] # "none"
    /\ worker[c] = "created" => waker[c] = "none"
    /\ cancelled[c] => transport[c] = "lost"
    /\ transport[c] = "open" =>
         /\ worker[c] \in {"created", "waiting"} => Len(wire[c]) = current[c].n
         /\ worker[c] = "busy" => Len(wire[c]) + 1 = current[c].n
         /\ worker[c] # "done"

\* What the three properties say of one connection; a worker that left
\* without a closing answer left because of a drain.
Speaking(c) ==
    /\ \A i \in 1..Len(wire[c]) : wire[c][i].kind = "response" => wire[c][i].n = i
    /\ \A i \in 1..Len(wire[c]) : wire[c][i].close =>
         i = Len(wire[c]) /\ transport[c] \in {"closing", "lost"}

Leaving(c) ==
    worker[c] = "done" /\ transport[c] = "closing" /\ ~SaidClose(c)
        => draining /\ current[c].n >= owed[c]

ConnInv(c) == Numbering(c) /\ Progressing(c) /\ Speaking(c) /\ Leaving(c)

IInv ==
    /\ TypeOK
    /\ InflightIsBusy
    /\ \A c \in Conns : ConnInv(c)

-----------------------------------------------------------------------------
(* Type correctness.                                                       *)

\* _enqueue leaves the queue and the worker flag well typed.
LEMMA EnqueueType ==
    ASSUME TypeOK, NEW c \in Conns, NEW keeps \in Queued, Enqueue(c, keeps)
    PROVE  queue' \in [Conns -> Seq(Item)] /\ arrived' \in [Conns -> Nat]
<1>1. arrived[c] \in Nat /\ queue[c] \in Seq(Item)
    BY DEF TypeOK
<1>2. Numbered(arrived[c], keeps) \in Seq(Item)
    BY <1>1, NumberedItems
<1>3. queue[c] \o Numbered(arrived[c], keeps) \in Seq(Item)
    BY <1>1, <1>2
<1>4. arrived[c] + Len(keeps) \in Nat
    BY <1>1, BurstIsSeq
<1> QED
    BY <1>3, <1>4 DEF Enqueue, TypeOK

\* What _worker takes off the queue is an item of its connection.
LEMMA TakeItemType ==
    ASSUME TypeOK, NEW c \in Conns,
           NEW w \in {"none", "created", "waiting", "done"},
           NEW fl, fl \subseteq Conns \X Nat,
           TakeItem(c, w, fl)
    PROVE  /\ transport' \in [Conns -> {"none", "accepted", "open", "closing", "lost"}]
           /\ worker' \in [Conns -> {"none", "created", "waiting", "busy", "done"}]
           /\ waker' \in [Conns -> {"none", "created", "waiting", "done"}]
           /\ queue' \in [Conns -> Seq(Item)]
           /\ current' \in [Conns -> Item]
           /\ inflight' \subseteq Conns \X Nat
<1>1. queue[c] \in Seq(Item) /\ queue[c] # << >>
    BY DEF TypeOK, TakeItem
<1>2. Head(queue[c]) \in Item /\ Tail(queue[c]) \in Seq(Item)
    BY <1>1
<1>3. Head(queue[c]).n \in Nat
    BY <1>2 DEF Item
<1>4. queue' \in [Conns -> Seq(Item)]
    BY <1>2 DEF TypeOK, TakeItem
<1>5. current' \in [Conns -> Item]
    BY <1>2 DEF TypeOK, TakeItem
<1>6. inflight' \subseteq Conns \X Nat
    BY <1>3 DEF TakeItem, Return
<1>7. transport' \in [Conns -> {"none", "accepted", "open", "closing", "lost"}]
    BY DEF TypeOK, TakeItem, Return, CloseTransport
<1>8. worker' \in [Conns -> {"none", "created", "waiting", "busy", "done"}]
    BY DEF TypeOK, TakeItem, Return
<1>9. waker' \in [Conns -> {"none", "created", "waiting", "done"}]
    BY DEF TypeOK, TakeItem, Return
<1> QED
    BY <1>4, <1>5, <1>6, <1>7, <1>8, <1>9

\* The head of the loop of _worker leaves its connection well typed.
LEMMA LoopHeadType ==
    ASSUME TypeOK, NEW c \in Conns,
           NEW w \in {"none", "created", "waiting", "done"},
           NEW fl, fl \subseteq Conns \X Nat,
           LoopHead(c, w, fl)
    PROVE  /\ transport' \in [Conns -> {"none", "accepted", "open", "closing", "lost"}]
           /\ worker' \in [Conns -> {"none", "created", "waiting", "busy", "done"}]
           /\ waker' \in [Conns -> {"none", "created", "waiting", "done"}]
           /\ queue' \in [Conns -> Seq(Item)]
           /\ current' \in [Conns -> Item]
           /\ inflight' \subseteq Conns \X Nat
<1>1. CASE TakeItem(c, w, fl)
    BY <1>1, TakeItemType
<1>2. CASE queue[c] = << >> /\ Return(c, fl) /\ UNCHANGED <<queue, current>>
    BY <1>2 DEF TypeOK, Return, CloseTransport
<1>3. CASE /\ worker' = [worker EXCEPT ![c] = "waiting"]
           /\ waker' = [waker EXCEPT ![c] = w]
           /\ inflight' = fl
           /\ UNCHANGED <<transport, queue, current>>
    BY <1>3 DEF TypeOK
<1> QED
    BY <1>1, <1>2, <1>3 DEF LoopHead

\* Finishing a request leaves the connection well typed.
LEMMA FinishRequestType ==
    ASSUME TypeOK, NEW c \in Conns, NEW closes \in BOOLEAN, FinishRequest(c, closes)
    PROVE  /\ transport' \in [Conns -> {"none", "accepted", "open", "closing", "lost"}]
           /\ worker' \in [Conns -> {"none", "created", "waiting", "busy", "done"}]
           /\ waker' \in [Conns -> {"none", "created", "waiting", "done"}]
           /\ queue' \in [Conns -> Seq(Item)]
           /\ current' \in [Conns -> Item]
           /\ wire' \in [Conns -> Seq(Response)]
           /\ inflight' \subseteq Conns \X Nat
<1> DEFINE stay == current[c].keep /\ ~closes
           fl == inflight \ {<<c, current[c].n>>}
           r == [n |-> current[c].n, kind |-> "response", close |-> ~stay]
<1>1. fl \subseteq Conns \X Nat
    BY DEF TypeOK
<1>2. waker[c] \in {"none", "created", "waiting", "done"}
    BY DEF TypeOK
<1>3. wire' \in [Conns -> Seq(Response)]
    <2>1. current[c].n \in Nat
        BY DEF TypeOK, Item
    <2>2. r \in Response
        BY <2>1 DEF Response
    <2>3. wire[c] \in Seq(Response)
        BY DEF TypeOK
    <2>4. Append(wire[c], r) \in Seq(Response)
        BY <2>2, <2>3
    <2>5. wire' = wire \/ wire' = [wire EXCEPT ![c] = Append(wire[c], r)]
        BY DEF FinishRequest
    <2> QED
        BY <2>4, <2>5 DEF TypeOK
<1>4. CASE LoopHead(c, waker[c], fl)
    BY <1>1, <1>2, <1>3, <1>4, LoopHeadType
<1>5. CASE Return(c, fl) /\ UNCHANGED <<queue, current>>
    BY <1>1, <1>3, <1>5 DEF TypeOK, Return, CloseTransport
<1> QED
    BY <1>4, <1>5 DEF FinishRequest

\* The server starts well typed.
LEMMA TypeInit == InitProtocol => TypeOK
<1> SUFFICES ASSUME InitProtocol PROVE TypeOK
    OBVIOUS
<1>1. Sentinel \in Item
    BY DEF Sentinel, Item
<1>2. queue \in [Conns -> Seq(Item)] /\ wire \in [Conns -> Seq(Response)]
    BY DEF InitProtocol
<1> QED
    BY <1>1, <1>2 DEF InitProtocol, TypeOK

\* No callback and no resumed coroutine breaks the types.
LEMMA TypeStep == TypeOK /\ [NextProtocol]_vars => TypeOK'
<1> SUFFICES ASSUME TypeOK, [NextProtocol]_vars PROVE TypeOK'
    OBVIOUS
<1>1. ASSUME NEW c \in Conns, Accept(c) PROVE TypeOK'
    BY <1>1 DEF TypeOK, Accept
<1>2. ASSUME NEW c \in Conns, ConnectionMade(c) PROVE TypeOK'
    BY <1>2 DEF TypeOK, ConnectionMade
<1>3. ASSUME NEW c \in Conns, NEW keeps \in Queued, DataReceived(c, keeps)
      PROVE  TypeOK'
    BY <1>3, EnqueueType DEF TypeOK, DataReceived
<1>4. ASSUME NEW c \in Conns, NEW k \in 0..MaxBurst - 1, BadRequest(c, k)
      PROVE  TypeOK'
    <2> DEFINE r == [n |-> arrived[c] + k + 1, kind |-> "bad request", close |-> TRUE]
    <2>0. arrived[c] + k + 1 \in Nat
        <3>1. arrived[c] \in Nat /\ k \in Nat
            BY MaxBurstAssumption DEF TypeOK
        <3> QED
            BY <3>1
    <2>1. r \in Response
        BY <2>0 DEF Response
    <2>2. wire[c] \in Seq(Response)
        BY DEF TypeOK
    <2> HIDE DEF r
    <2>3. Append(wire[c], r) \in Seq(Response)
        BY <2>1, <2>2, AppendProperties
    <2> USE DEF r
    <2>4. wire' \in [Conns -> Seq(Response)]
        BY <1>4, <2>3 DEF TypeOK, BadRequest
    <2> QED
        BY <1>4, <2>4 DEF TypeOK, BadRequest
<1>5. ASSUME NEW c \in Conns, NEW keeps \in Queued, DataRaises(c, keeps)
      PROVE  TypeOK'
    BY <1>5, EnqueueType DEF TypeOK, DataRaises
<1>6. ASSUME NEW c \in Conns, ConnectionLost(c) PROVE TypeOK'
    <2>1. cancelled' \in [Conns -> BOOLEAN]
        BY <1>6 DEF TypeOK, ConnectionLost
    <2> QED
        BY <1>6, <2>1 DEF TypeOK, ConnectionLost
<1>7. ASSUME NEW c \in Conns, WorkerStart(c) PROVE TypeOK'
    BY <1>7, LoopHeadType DEF TypeOK, WorkerStart
<1>8. ASSUME NEW c \in Conns, WorkerResume(c) PROVE TypeOK'
    BY <1>8, TakeItemType DEF TypeOK, WorkerResume
<1>9. ASSUME NEW c \in Conns, NEW closes \in BOOLEAN, FinishRequest(c, closes)
      PROVE  TypeOK'
    BY <1>9, FinishRequestType DEF TypeOK, FinishRequest
<1>10. ASSUME NEW c \in Conns, WorkerCancelled(c) PROVE TypeOK'
    BY <1>10 DEF TypeOK, WorkerCancelled
<1>11. ASSUME NEW c \in Conns, WakerStart(c) PROVE TypeOK'
    BY <1>11 DEF TypeOK, WakerStart
<1>12. ASSUME NEW c \in Conns, WakeOnDrain(c) PROVE TypeOK'
    <2>1. queue[c] \in Seq(Item) /\ Sentinel \in Item
        BY DEF TypeOK, Sentinel, Item
    <2>2. Append(queue[c], Sentinel) \in Seq(Item)
        BY <2>1
    <2> QED
        BY <1>12, <2>2 DEF TypeOK, WakeOnDrain
<1>13. CASE BeginDrain
    BY <1>13 DEF TypeOK, BeginDrain
<1>14. CASE UNCHANGED vars
    BY <1>14 DEF TypeOK, vars
<1> QED
    BY <1>1, <1>2, <1>3, <1>4, <1>5, <1>6, <1>7, <1>8, <1>9, <1>10, <1>11,
       <1>12, <1>13, <1>14
    DEF NextProtocol, Callback, WorkerStep, WakerStep, Queued

\* Every variable of the connections keeps its type.
THEOREM TypeCorrect == SpecProtocol => []TypeOK
BY TypeInit, TypeStep, PTL DEF SpecProtocol

-----------------------------------------------------------------------------
(* The inductive invariant, step by step.                                  *)

SameAt(d) ==
    /\ transport'[d] = transport[d] /\ worker'[d] = worker[d]
    /\ cancelled'[d] = cancelled[d] /\ waker'[d] = waker[d]
    /\ queue'[d] = queue[d] /\ current'[d] = current[d]
    /\ arrived'[d] = arrived[d] /\ wire'[d] = wire[d]
    /\ owed'[d] = owed[d]

\* A connection that a step does not touch keeps its invariant.
LEMMA Frame ==
    ASSUME NEW d \in Conns, ConnInv(d), SameAt(d), draining' = draining
    PROVE  ConnInv(d)'
BY DEF SameAt, ConnInv, Numbering, Progressing, Speaking, Leaving, Ahead, SaidClose

\* How the worker of c leaves a step that reached queue.get() or the end.
Dispatching(c, w) ==
    /\ worker'[c] = "busy"
    /\ waker'[c] = w
    /\ current'[c].n = current[c].n + 1
    /\ transport'[c] = transport[c]

Waits(c, w) ==
    /\ worker'[c] = "waiting"
    /\ waker'[c] = w
    /\ current'[c] = current[c]
    /\ transport'[c] = transport[c]

Drained(c) ==
    /\ worker'[c] = "done"
    /\ current'[c] = current[c]
    /\ draining
    /\ current[c].n >= owed[c]
    /\ transport'[c] = IF transport[c] = "open" THEN "closing" ELSE transport[c]

\* Taking an item keeps the numbering, and a sentinel is only taken when all
\* that is owed has been served.
LEMMA TakeItemInv ==
    ASSUME TypeOK, NEW c \in Conns, NEW w, NEW fl,
           Numbering(c), worker[c] # "done", TakeItem(c, w, fl),
           UNCHANGED <<arrived, owed, draining>>
    PROVE  Numbering(c)' /\ (Dispatching(c, w) \/ Drained(c))
<1> DEFINE q == queue[c]
<1>1. q \in Seq(Item) /\ q # << >>
    BY DEF TypeOK, TakeItem
<1>2. /\ Len(q) \in Nat /\ Len(q) >= 1
      /\ Head(q) = q[1] /\ Head(q) \in Item
      /\ Tail(q) \in Seq(Item) /\ Len(Tail(q)) = Len(q) - 1
      /\ \A i \in 1..Len(Tail(q)) : Tail(q)[i] = q[i + 1]
    BY <1>1, HeadTailProperties
<1>3. queue'[c] = Tail(q)
    BY DEF TypeOK, TakeItem
<1>4. /\ current[c].n \in Nat /\ arrived[c] \in Nat /\ owed[c] \in Nat
      /\ arrived'[c] = arrived[c] /\ owed'[c] = owed[c]
    BY DEF TypeOK, Item
<1>5. CASE Head(q) = Sentinel
    <2>1. worker'[c] = "done" /\ current'[c] = current[c]
        BY <1>5 DEF TypeOK, TakeItem, Return
    <2>2. transport'[c] = IF transport[c] = "open" THEN "closing" ELSE transport[c]
        BY <1>5 DEF TypeOK, TakeItem, Return, CloseTransport
    <2>3. q[1] = Sentinel /\ Ahead(q, 0) /\ 1 \in 1..Len(q)
        BY <1>2, <1>5 DEF Ahead
    <2>4. current[c].n + 1 > owed[c]
        BY <2>3 DEF Numbering
    <2>5. draining
        BY <1>2, <2>3 DEF Numbering, Ahead
    <2> QED
        BY <1>4, <2>1, <2>2, <2>4, <2>5 DEF Numbering, Drained
<1>6. CASE Head(q) # Sentinel
    <2>1. /\ worker'[c] = "busy" /\ waker'[c] = w
          /\ current'[c] = q[1] /\ transport' = transport
        BY <1>2, <1>6 DEF TypeOK, TakeItem
    <2>2. Ahead(q, 1) /\ 1 \in 1..Len(q)
        BY <1>2, <1>6 DEF Ahead
    <2>3. current'[c].n = current[c].n + 1
        BY <2>1, <2>2 DEF Numbering
    <2>4. ASSUME NEW i \in 0..Len(Tail(q)), Ahead(Tail(q), i)
          PROVE  Ahead(q, i + 1)
        <3> SUFFICES ASSUME NEW j \in 1..(i + 1) PROVE q[j] # Sentinel
            BY DEF Ahead
        <3>1. CASE j = 1
            BY <3>1, <2>2 DEF Ahead
        <3>2. CASE j # 1
            <4>1. j - 1 \in 1..i /\ j - 1 \in 1..Len(Tail(q))
                BY <3>2, <1>2
            <4>2. Tail(q)[j - 1] = q[(j - 1) + 1] /\ (j - 1) + 1 = j
                BY <4>1, <1>2
            <4> QED
                BY <4>1, <4>2, <2>4 DEF Ahead
        <3> QED
            BY <3>1, <3>2
    <2>5. \A i \in 1..Len(Tail(q)) :
            Ahead(Tail(q), i) => Tail(q)[i].n = current'[c].n + i
        <3> SUFFICES ASSUME NEW i \in 1..Len(Tail(q)), Ahead(Tail(q), i)
                     PROVE  Tail(q)[i].n = current'[c].n + i
            OBVIOUS
        <3>1. Ahead(q, i + 1) /\ i + 1 \in 1..Len(q)
            BY <2>4, <1>2
        <3>2. q[i + 1].n = current[c].n + (i + 1)
            BY <3>1 DEF Numbering
        <3> QED
            BY <3>2, <2>3, <1>2, <1>4
    <2>6. Ahead(Tail(q), Len(Tail(q))) => arrived[c] = current'[c].n + Len(Tail(q))
        <3> SUFFICES ASSUME Ahead(Tail(q), Len(Tail(q)))
                     PROVE  arrived[c] = current'[c].n + Len(Tail(q))
            OBVIOUS
        <3>1. Len(Tail(q)) \in 0..Len(Tail(q)) /\ Len(Tail(q)) + 1 = Len(q)
            BY <1>2
        <3>2. Ahead(q, Len(q))
            BY <2>4, <3>1
        <3>3. arrived[c] = current[c].n + Len(q)
            BY <3>2 DEF Numbering
        <3> HIDE DEF q
        <3> QED
            BY <3>1, <3>3, <2>3, <1>2, <1>4
    <2>7. \A i \in 1..Len(Tail(q)) :
            Tail(q)[i] = Sentinel /\ Ahead(Tail(q), i - 1) => current'[c].n + i > owed[c]
        <3> SUFFICES ASSUME NEW i \in 1..Len(Tail(q)),
                            Tail(q)[i] = Sentinel, Ahead(Tail(q), i - 1)
                     PROVE  current'[c].n + i > owed[c]
            OBVIOUS
        <3>1. i - 1 \in 0..Len(Tail(q)) /\ i + 1 \in 1..Len(q) /\ (i - 1) + 1 = i
            BY <1>2
        <3>2. Ahead(q, i) /\ (i + 1) - 1 = i
            BY <3>1, <2>4
        <3>3. q[i + 1] = Sentinel
            BY <1>2
        <3>4. current[c].n + (i + 1) > owed[c]
            BY <3>1, <3>2, <3>3 DEF Numbering
        <3> QED
            BY <3>4, <2>3, <1>4
    <2>8. ~draining => Ahead(Tail(q), Len(Tail(q)))
        <3> SUFFICES ASSUME ~draining, NEW j \in 1..Len(Tail(q))
                     PROVE  Tail(q)[j] # Sentinel
            BY DEF Ahead
        <3>1. Ahead(q, Len(q)) /\ j + 1 \in 1..Len(q)
            BY <1>2 DEF Numbering
        <3> QED
            BY <3>1, <1>2 DEF Ahead
    <2>9. Numbering(c)'
        <3> HIDE DEF q
        <3> QED
            BY <1>3, <1>4, <2>1, <2>5, <2>6, <2>7, <2>8 DEF Numbering, Ahead
    <2> QED
        BY <2>1, <2>3, <2>9 DEF Dispatching
<1> QED
    BY <1>5, <1>6

\* The same for the head of the loop.
LEMMA LoopHeadInv ==
    ASSUME TypeOK, NEW c \in Conns, NEW w, NEW fl,
           Numbering(c), worker[c] # "done", LoopHead(c, w, fl),
           UNCHANGED <<arrived, owed, draining>>
    PROVE  Numbering(c)' /\ (Dispatching(c, w) \/ Waits(c, w) \/ Drained(c))
<1>1. CASE TakeItem(c, w, fl)
    BY <1>1, TakeItemInv
<1>2. ASSUME queue[c] = << >> PROVE current[c].n = arrived[c] /\ Ahead(queue[c], 0)
    <2>1. Len(queue[c]) = 0
        BY <1>2
    <2>2. Ahead(queue[c], Len(queue[c]))
        BY <2>1 DEF Ahead
    <2>3. arrived[c] = current[c].n + Len(queue[c])
        BY <2>2 DEF Numbering
    <2> QED
        BY <2>1, <2>2, <2>3 DEF TypeOK, Item
<1>3. CASE /\ queue[c] = << >> /\ draining
           /\ Return(c, fl) /\ UNCHANGED <<queue, current>>
    <2>1. worker'[c] = "done" /\ current'[c] = current[c]
        BY <1>3 DEF TypeOK, Return
    <2>2. transport'[c] = IF transport[c] = "open" THEN "closing" ELSE transport[c]
        BY <1>3 DEF TypeOK, Return, CloseTransport
    <2>3. owed[c] <= arrived[c] /\ current[c].n = arrived[c]
        BY <1>2, <1>3 DEF Numbering
    <2>4. Drained(c)
        BY <1>3, <2>1, <2>2, <2>3 DEF Drained, TypeOK
    <2> QED
        BY <2>1, <2>4 DEF Numbering
<1>4. CASE /\ queue[c] = << >> /\ ~draining
           /\ worker' = [worker EXCEPT ![c] = "waiting"]
           /\ waker' = [waker EXCEPT ![c] = w]
           /\ UNCHANGED <<transport, queue, current>>
    <2>1. Waits(c, w)
        BY <1>4 DEF TypeOK, Waits
    <2>2. Numbering(c)'
        BY <1>4 DEF Numbering, Ahead
    <2> QED
        BY <2>1, <2>2
<1> QED
    BY <1>1, <1>3, <1>4 DEF LoopHead

Busy == {d \in Conns : worker[d] = "busy"}

\* Whoever is busy after the loop, and nobody else, is registered.
LEMMA TakeItemInflight ==
    ASSUME TypeOK, NEW c \in Conns, NEW w, NEW fl,
           fl = {<<d, current[d].n>> : d \in Busy \ {c}},
           TakeItem(c, w, fl)
    PROVE  InflightIsBusy'
<1>1. CASE Head(queue[c]) = Sentinel
    <2>1. /\ worker' = [worker EXCEPT ![c] = "done"]
          /\ current' = current /\ inflight' = fl
        BY <1>1 DEF TakeItem, Return
    <2>2. {d \in Conns : worker'[d] = "busy"} = Busy \ {c}
        BY <2>1 DEF TypeOK, Busy
    <2> QED
        BY <2>1, <2>2 DEF InflightIsBusy
<1>2. CASE Head(queue[c]) # Sentinel
    <2>1. /\ worker' = [worker EXCEPT ![c] = "busy"]
          /\ current' = [current EXCEPT ![c] = Head(queue[c])]
          /\ inflight' = fl \cup {<<c, Head(queue[c]).n>>}
        BY <1>2 DEF TakeItem
    <2>2. {d \in Conns : worker'[d] = "busy"} = (Busy \ {c}) \cup {c}
        BY <2>1 DEF TypeOK, Busy
    <2>3. current'[c] = Head(queue[c]) /\ \A d \in Busy \ {c} : current'[d] = current[d]
        BY <2>1 DEF TypeOK, Busy
    <2> QED
        BY <2>1, <2>2, <2>3 DEF InflightIsBusy
<1> QED
    BY <1>1, <1>2

\* After the head of the loop the requests in flight are those being dispatched.
LEMMA LoopHeadInflight ==
    ASSUME TypeOK, NEW c \in Conns, NEW w, NEW fl,
           fl = {<<d, current[d].n>> : d \in Busy \ {c}},
           LoopHead(c, w, fl)
    PROVE  InflightIsBusy'
<1>1. CASE TakeItem(c, w, fl)
    BY <1>1, TakeItemInflight
<1>2. CASE Return(c, fl) /\ UNCHANGED <<queue, current>>
    BY <1>2 DEF TypeOK, Return, InflightIsBusy, Busy
<1>3. CASE /\ worker' = [worker EXCEPT ![c] = "waiting"]
           /\ inflight' = fl
           /\ UNCHANGED <<transport, queue, current>>
    BY <1>3 DEF TypeOK, InflightIsBusy, Busy
<1> QED
    BY <1>1, <1>2, <1>3 DEF LoopHead

\* The loop of one connection leaves the others alone.
LEMMA LoopHeadFrame ==
    ASSUME TypeOK, NEW c \in Conns, NEW w, NEW fl,
           TakeItem(c, w, fl) \/ LoopHead(c, w, fl) \/
             (Return(c, fl) /\ UNCHANGED <<queue, current>>),
           NEW d \in Conns, d # c
    PROVE  /\ transport'[d] = transport[d] /\ worker'[d] = worker[d]
           /\ waker'[d] = waker[d] /\ queue'[d] = queue[d]
           /\ current'[d] = current[d]
BY DEF TypeOK, LoopHead, TakeItem, Return, CloseTransport

\* Requests join the queue behind all others, numbered after the last one.
LEMMA EnqueueInv ==
    ASSUME TypeOK, NEW c \in Conns, NEW keeps \in Queued,
           Numbering(c), worker[c] # "done", Enqueue(c, keeps),
           UNCHANGED <<worker, current, draining, owed>>
    PROVE  Numbering(c)'
<1> DEFINE q == queue[c]
           new == Numbered(arrived[c], keeps)
           k == Len(keeps)
<1>1. /\ q \in Seq(Item) /\ Len(q) \in Nat /\ k \in Nat
      /\ arrived[c] \in Nat /\ owed[c] \in Nat /\ current[c].n \in Nat
    BY BurstIsSeq DEF TypeOK, Item
<1>2. /\ new \in Seq(Item) /\ Len(new) = k
      /\ \A i \in 1..k : new[i].n = arrived[c] + i
    <2>1. /\ new \in Seq(Item) /\ Len(new) = k
          /\ \A i \in 1..k : new[i] = [n |-> arrived[c] + i, keep |-> keeps[i]]
        BY <1>1, NumberedItems
    <2> HIDE DEF new, k
    <2> QED
        BY <2>1
<1>3. queue'[c] = q \o new /\ arrived'[c] = arrived[c] + k
    BY DEF TypeOK, Enqueue
<1>4. owed'[c] = owed[c] /\ current'[c] = current[c] /\ owed[c] <= arrived[c]
    BY DEF Numbering
<1> HIDE DEF q, new, k
<1> DEFINE r == q \o new
<1>5. /\ Len(r) = Len(q) + k
      /\ \A i \in 1..Len(q) : r[i] = q[i]
      /\ \A i \in 1..Len(r) : i > Len(q) => r[i] = new[i - Len(q)]
    <2>1. /\ Len(r) = Len(q) + Len(new)
          /\ \A i \in 1..Len(r) :
               r[i] = IF i <= Len(q) THEN q[i] ELSE new[i - Len(q)]
        BY <1>1, <1>2, ConcatProperties
    <2> HIDE DEF r
    <2> QED
        BY <2>1, <1>1, <1>2
<1>6. \A i \in 1..Len(r) : i > Len(q) => r[i].n = arrived[c] + (i - Len(q))
    <2> SUFFICES ASSUME NEW i \in 1..Len(r), i > Len(q)
                 PROVE  r[i].n = arrived[c] + (i - Len(q))
        OBVIOUS
    <2>1. i - Len(q) \in 1..k
        BY <1>1, <1>5
    <2> QED
        BY <2>1, <1>2, <1>5
<1>7. \A i \in 1..Len(r) : i > Len(q) => r[i] # Sentinel
    <2> SUFFICES ASSUME NEW i \in 1..Len(r), i > Len(q), r[i] = Sentinel PROVE FALSE
        OBVIOUS
    <2>1. r[i].n = arrived[c] + (i - Len(q)) /\ r[i].n = 0
        BY <1>6 DEF Sentinel
    <2> QED
        BY <2>1, <1>1, <1>5
<1> HIDE DEF r
<1>8. \A i \in 0..Len(r) : Ahead(r, i) => /\ i <= Len(q) => Ahead(q, i)
                                          /\ i >= Len(q) => Ahead(q, Len(q))
    BY <1>1, <1>5 DEF Ahead
<1>9. Ahead(q, Len(q)) => arrived[c] = current[c].n + Len(q)
    BY DEF Numbering, q
<1>10. \A i \in 1..Len(r) : Ahead(r, i) => r[i].n = current[c].n + i
    <2> SUFFICES ASSUME NEW i \in 1..Len(r), Ahead(r, i)
                 PROVE  r[i].n = current[c].n + i
        OBVIOUS
    <2>1. CASE i <= Len(q)
        <3>1. i \in 1..Len(q) /\ Ahead(q, i)
            BY <2>1, <1>1, <1>5, <1>8
        <3> QED
            BY <3>1, <1>5 DEF Numbering, q
    <2>2. CASE i > Len(q)
        <3>1. Ahead(q, Len(q))
            BY <2>2, <1>1, <1>5, <1>8
        <3> QED
            BY <3>1, <2>2, <1>1, <1>5, <1>6, <1>9
    <2> QED
        BY <2>1, <2>2, <1>1, <1>5
<1>11. Ahead(r, Len(r)) => arrived'[c] = current[c].n + Len(r)
    BY <1>1, <1>3, <1>5, <1>8, <1>9
<1>12. ASSUME NEW i \in 1..Len(r), r[i] = Sentinel, Ahead(r, i - 1)
       PROVE  current[c].n + i > owed[c]
    <2>1. i \in 1..Len(q) /\ Ahead(q, i - 1)
        BY <1>12, <1>1, <1>5, <1>7, <1>8
    <2>2. q[i] = Sentinel
        BY <1>12, <2>1, <1>5
    <2> QED
        BY <2>1, <2>2 DEF Numbering, q
<1>13. ~draining => Ahead(r, Len(r))
    <2>1. ~draining => Ahead(q, Len(q))
        BY DEF Numbering, q
    <2> QED
        BY <2>1, <1>1, <1>5, <1>7 DEF Ahead
<1>14. owed'[c] <= arrived'[c]
    BY <1>1, <1>3, <1>4
<1>15. queue'[c] = r
    BY <1>3 DEF r
<1> QED
    BY <1>4, <1>10, <1>11, <1>12, <1>13, <1>14, <1>15 DEF Numbering, Ahead

\* The waker's sentinel joins the queue behind everything that is owed.
LEMMA SentinelInv ==
    ASSUME TypeOK, NEW c \in Conns, Numbering(c), WakeOnDrain(c)
    PROVE  Numbering(c)'
<1> DEFINE q == queue[c]
           r == Append(q, Sentinel)
<1>1. /\ q \in Seq(Item) /\ Len(q) \in Nat /\ arrived[c] \in Nat
      /\ owed[c] \in Nat /\ current[c].n \in Nat /\ Sentinel \in Item
    BY DEF TypeOK, Item, Sentinel
<1>2. /\ queue'[c] = r /\ draining' = draining /\ draining
      /\ UNCHANGED <<worker, current, arrived, owed>>
    BY DEF TypeOK, WakeOnDrain
<1> HIDE DEF q
<1>3. /\ Len(r) = Len(q) + 1 /\ r[Len(q) + 1] = Sentinel
      /\ \A i \in 1..Len(q) : r[i] = q[i]
    BY <1>1, AppendProperties
<1> HIDE DEF r
<1> SUFFICES ASSUME worker[c] # "done" PROVE Numbering(c)'
    BY <1>2 DEF Numbering
<1>4. \A i \in 0..Len(q) : Ahead(r, i) => Ahead(q, i)
    BY <1>1, <1>3 DEF Ahead
<1>5. ~Ahead(r, Len(r))
    BY <1>1, <1>3 DEF Ahead
<1>6. \A i \in 1..Len(r) : Ahead(r, i) => r[i].n = current[c].n + i
    <2> SUFFICES ASSUME NEW i \in 1..Len(r), Ahead(r, i)
                 PROVE  r[i].n = current[c].n + i
        OBVIOUS
    <2>1. i \in 1..Len(q) /\ Ahead(q, i)
        BY <1>1, <1>3, <1>4, <1>5
    <2> QED
        BY <2>1, <1>3 DEF Numbering, q
<1>7. ASSUME NEW i \in 1..Len(r), r[i] = Sentinel, Ahead(r, i - 1)
      PROVE  current[c].n + i > owed[c]
    <2>1. Ahead(q, i - 1)
        BY <1>1, <1>3, <1>4, <1>7
    <2>2. CASE i \in 1..Len(q)
        BY <2>1, <2>2, <1>3, <1>7 DEF Numbering, q
    <2>3. CASE i = Len(q) + 1
        <3>1. arrived[c] = current[c].n + Len(q) /\ owed[c] <= arrived[c]
            BY <2>1, <2>3, <1>1 DEF Numbering, q
        <3> QED
            BY <3>1, <2>3, <1>1
    <2> QED
        BY <2>2, <2>3, <1>1, <1>3
<1>8. owed[c] <= arrived[c]
    BY DEF Numbering
<1> QED
    BY <1>2, <1>5, <1>6, <1>7, <1>8 DEF Numbering, Ahead

-----------------------------------------------------------------------------
(* One lemma per family of steps: the connection that steps keeps ConnInv.  *)

\* What the wire of a connection that is about to enter the loop must say.
WireReady(c) ==
    /\ transport[c] = "open" => Len(wire'[c]) = current[c].n
    /\ \A i \in 1..Len(wire'[c]) : wire'[c][i].kind = "response" => wire'[c][i].n = i
    /\ \A i \in 1..Len(wire'[c]) : wire'[c][i].close =>
         i = Len(wire'[c]) /\ transport[c] \in {"closing", "lost"}

\* What the invariant says of a connection whose loop has gone round.
LEMMA AfterLoop ==
    ASSUME TypeOK, NEW c \in Conns, NEW w, WireReady(c), Numbering(c)',
           transport[c] \notin {"none", "accepted"},
           cancelled' = cancelled, cancelled[c] => transport[c] = "lost",
           Dispatching(c, w) \/ Waits(c, w) \/ Drained(c),
           UNCHANGED <<draining, owed>>
    PROVE  ConnInv(c)'
<1>1. current[c].n \in Nat /\ owed'[c] = owed[c]
    BY DEF TypeOK, Item
<1>2. CASE Dispatching(c, w)
    BY <1>1, <1>2 DEF Dispatching, WireReady, ConnInv, Progressing, Speaking, Leaving
<1>3. CASE Waits(c, w)
    BY <1>1, <1>3 DEF Waits, WireReady, ConnInv, Progressing, Speaking, Leaving
<1>4. CASE Drained(c)
    BY <1>1, <1>4 DEF Drained, WireReady, ConnInv, Progressing, Speaking, Leaving
<1> QED
    BY <1>2, <1>3, <1>4

\* The requests in flight other than the one of c.
Others(c) == {<<d, current[d].n>> : d \in Busy \ {c}}

\* What is in flight without the request of c belongs to other connections.
LEMMA WithoutMine ==
    ASSUME InflightIsBusy, NEW c \in Conns
    PROVE  /\ inflight \ {<<c, current[c].n>>} = Others(c)
           /\ worker[c] # "busy" => inflight = Others(c)
BY DEF InflightIsBusy, Others, Busy

\* The other connections after a step of c.
LEMMA OthersKeep ==
    ASSUME IInv, NEW c \in Conns, ConnInv(c)',
           \A d \in Conns : d # c => SameAt(d),
           draining' = draining
    PROVE  \A d \in Conns : ConnInv(d)'
<1> SUFFICES ASSUME NEW d \in Conns, d # c PROVE ConnInv(d)'
    OBVIOUS
<1> QED
    BY Frame DEF IInv

\* data_received, the raising one included, keeps the invariant.
LEMMA ArrivalInv ==
    ASSUME IInv, NEW c \in Conns, NEW keeps \in Queued,
           DataReceived(c, keeps) \/ DataRaises(c, keeps)
    PROVE  InflightIsBusy' /\ \A d \in Conns : ConnInv(d)'
<1>1. TypeOK /\ InflightIsBusy /\ ConnInv(c)
    BY DEF IInv
<1>2. /\ Enqueue(c, keeps) /\ transport[c] = "open"
      /\ UNCHANGED <<worker, cancelled, waker, current, wire, inflight, draining, owed>>
      /\ transport' = transport \/ transport' = [transport EXCEPT ![c] = "closing"]
    BY DEF DataReceived, DataRaises
<1>3. worker[c] # "done" /\ worker[c] # "none"
    BY <1>1, <1>2 DEF ConnInv, Progressing
<1>4. Numbering(c)'
    BY <1>1, <1>2, <1>3, EnqueueInv DEF ConnInv
<1>5. transport'[c] \in {"open", "closing"}
    BY <1>1, <1>2 DEF TypeOK
<1>6. Progressing(c)' /\ Speaking(c)' /\ Leaving(c)'
    <2>1. Progressing(c)'
        BY <1>1, <1>2, <1>3, <1>5 DEF ConnInv, Progressing
    <2>2. Speaking(c)'
        BY <1>1, <1>2, <1>5 DEF ConnInv, Speaking
    <2> QED
        BY <2>1, <2>2, <1>2, <1>3 DEF Leaving
<1>7. \A d \in Conns : d # c => SameAt(d)
    BY <1>1, <1>2 DEF TypeOK, Enqueue, SameAt
<1>8. InflightIsBusy'
    BY <1>1, <1>2 DEF InflightIsBusy
<1> QED
    BY <1>2, <1>4, <1>6, <1>7, <1>8, OthersKeep DEF ConnInv

\* The steps that move neither the queue nor the worker.
LEMMA BadRequestInv ==
    ASSUME IInv, NEW c \in Conns, NEW k \in 0..MaxBurst - 1, BadRequest(c, k)
    PROVE  InflightIsBusy' /\ \A d \in Conns : ConnInv(d)'
<1> DEFINE r == [n |-> arrived[c] + k + 1, kind |-> "bad request", close |-> TRUE]
<1>1. TypeOK /\ InflightIsBusy /\ ConnInv(c)
    BY DEF IInv
<1>2. /\ transport[c] = "open" /\ transport'[c] = "closing"
      /\ wire'[c] = Append(wire[c], r)
      /\ UNCHANGED <<worker, cancelled, waker, queue, current, arrived,
                     inflight, draining, owed>>
    BY <1>1 DEF TypeOK, BadRequest
<1>3. worker[c] # "done" /\ worker[c] # "none"
    BY <1>1, <1>2 DEF ConnInv, Progressing
<1>4. wire[c] \in Seq(Response) /\ r \in Response
    <2>1. arrived[c] \in Nat /\ k \in Nat
        BY <1>1, MaxBurstAssumption DEF TypeOK
    <2>2. arrived[c] + k + 1 \in Nat
        BY <2>1
    <2> QED
        BY <2>2, <1>1 DEF TypeOK, Response
<1>5. r.kind = "bad request"
    OBVIOUS
<1> HIDE DEF r
<1>6. /\ Len(wire'[c]) = Len(wire[c]) + 1 /\ Len(wire[c]) \in Nat
      /\ \A i \in 1..Len(wire[c]) : wire'[c][i] = wire[c][i]
      /\ wire'[c][Len(wire[c]) + 1] = r
    BY <1>2, <1>4, AppendProperties
<1>7. \A i \in 1..Len(wire[c]) : ~wire[c][i].close
    BY <1>1, <1>2 DEF ConnInv, Speaking
<1>8. Speaking(c)'
    <2>1. ASSUME NEW i \in 1..Len(wire'[c])
          PROVE  i \in 1..Len(wire[c]) \/ i = Len(wire[c]) + 1
        BY <1>6
    <2>2. \A i \in 1..Len(wire'[c]) : wire'[c][i].kind = "response" => wire'[c][i].n = i
        BY <2>1, <1>1, <1>5, <1>6 DEF ConnInv, Speaking
    <2>3. \A i \in 1..Len(wire'[c]) : wire'[c][i].close => i = Len(wire'[c])
        BY <2>1, <1>6, <1>7
    <2> QED
        BY <2>2, <2>3, <1>2 DEF Speaking
<1>9. Numbering(c)' /\ Progressing(c)' /\ Leaving(c)'
    BY <1>1, <1>2, <1>3 DEF ConnInv, Numbering, Ahead, Progressing, Leaving
<1>10. \A d \in Conns : d # c => SameAt(d)
    BY <1>1 DEF TypeOK, BadRequest, SameAt
<1>11. InflightIsBusy'
    BY <1>1, <1>2 DEF InflightIsBusy
<1> QED
    BY <1>2, <1>8, <1>9, <1>10, <1>11, OthersKeep DEF ConnInv

\* The life of a connection (accept, connection_made, connection_lost) keeps it.
LEMMA TransportInv ==
    ASSUME IInv, NEW c \in Conns,
           Accept(c) \/ ConnectionMade(c) \/ ConnectionLost(c) \/ WorkerCancelled(c)
             \/ WakerStart(c)
    PROVE  InflightIsBusy' /\ \A d \in Conns : ConnInv(d)'
<1>1. TypeOK /\ InflightIsBusy /\ ConnInv(c)
    BY DEF IInv
<1>2. /\ UNCHANGED <<queue, current, arrived, wire, draining, owed>>
      /\ \A d \in Conns : d # c => SameAt(d)
    BY <1>1 DEF TypeOK, Accept, ConnectionMade, ConnectionLost, WorkerCancelled,
                WakerStart, SameAt
<1>3. CASE Accept(c)
    <2>1. transport[c] = "none" /\ transport'[c] = "accepted"
          /\ UNCHANGED <<worker, cancelled, waker, inflight>>
        BY <1>1, <1>3 DEF TypeOK, Accept
    <2>2. ConnInv(c)'
        BY <1>1, <1>2, <2>1 DEF ConnInv, Numbering, Ahead, Progressing, Speaking, Leaving
    <2>3. InflightIsBusy'
        BY <1>1, <1>2, <2>1 DEF InflightIsBusy
    <2> QED
        BY <1>2, <2>2, <2>3, OthersKeep
<1>4. CASE ConnectionMade(c)
    <2>1. /\ transport[c] = "accepted" /\ transport'[c] = "open"
          /\ worker' = [worker EXCEPT ![c] = "created"]
          /\ worker'[c] = "created" /\ worker[c] = "none"
          /\ UNCHANGED <<cancelled, waker, inflight>>
        BY <1>1, <1>4 DEF TypeOK, ConnectionMade, ConnInv, Progressing
    <2>2. wire[c] = << >> /\ current[c].n = 0 /\ Len(wire[c]) = 0 /\ waker[c] = "none"
        BY <1>1, <2>1 DEF ConnInv, Progressing
    <2>3. ConnInv(c)'
        BY <1>1, <1>2, <2>1, <2>2
        DEF ConnInv, Numbering, Ahead, Progressing, Speaking, Leaving
    <2>4. InflightIsBusy'
        BY <1>1, <1>2, <2>1 DEF TypeOK, InflightIsBusy
    <2> QED
        BY <1>2, <2>3, <2>4, OthersKeep
<1>5. CASE ConnectionLost(c)
    <2>1. /\ transport[c] \in {"open", "closing"} /\ transport'[c] = "lost"
          /\ UNCHANGED <<worker, waker, inflight>>
        BY <1>1, <1>5 DEF TypeOK, ConnectionLost
    <2>2. ConnInv(c)'
        BY <1>1, <1>2, <2>1 DEF ConnInv, Numbering, Ahead, Progressing, Speaking, Leaving
    <2>3. InflightIsBusy'
        BY <1>1, <1>2, <2>1 DEF InflightIsBusy
    <2> QED
        BY <1>2, <2>2, <2>3, OthersKeep
<1>6. CASE WorkerCancelled(c)
    <2>1. /\ cancelled[c] /\ transport' = transport /\ transport[c] = "lost"
          /\ worker' = [worker EXCEPT ![c] = "done"]
          /\ worker'[c] = "done" /\ ~cancelled'[c]
          /\ inflight' = inflight \ {<<c, current[c].n>>}
        BY <1>1, <1>6 DEF TypeOK, WorkerCancelled, ConnInv, Progressing
    <2>2. ConnInv(c)'
        BY <1>1, <1>2, <2>1 DEF ConnInv, Numbering, Progressing, Speaking, Leaving
    <2>3. {d \in Conns : worker'[d] = "busy"} = Busy \ {c}
        BY <1>1, <2>1 DEF TypeOK, Busy
    <2>4. InflightIsBusy'
        BY <1>1, <1>2, <2>1, <2>3, WithoutMine DEF InflightIsBusy, Others
    <2> QED
        BY <1>2, <2>2, <2>4, OthersKeep
<1>7. CASE WakerStart(c)
    <2>1. /\ waker[c] = "created" /\ UNCHANGED <<transport, worker, cancelled, inflight>>
        BY <1>7 DEF WakerStart
    <2>2. Numbering(c)' /\ Speaking(c)' /\ Leaving(c)'
        BY <1>1, <1>2, <2>1 DEF ConnInv, Numbering, Ahead, Speaking, SaidClose, Leaving
    <2>3. Progressing(c)'
        BY <1>1, <1>2, <2>1 DEF ConnInv, Progressing
    <2>4. InflightIsBusy'
        BY <1>1, <1>2, <2>1 DEF InflightIsBusy
    <2> QED
        BY <1>2, <2>2, <2>3, <2>4, OthersKeep DEF ConnInv
<1> QED
    BY <1>3, <1>4, <1>5, <1>6, <1>7

\* The worker enters its loop, from the start, from queue.get() or, with an
\* answer on the wire, from dispatch().
LEMMA WorkerLoopInv ==
    ASSUME IInv, NEW c \in Conns, WorkerStart(c) \/ WorkerResume(c)
    PROVE  InflightIsBusy' /\ \A d \in Conns : ConnInv(d)'
<1>1. TypeOK /\ InflightIsBusy /\ ConnInv(c)
    BY DEF IInv
<1>2. PICK w : LoopHead(c, w, inflight)
    BY DEF WorkerStart, WorkerResume, LoopHead
<1>3. /\ worker[c] \in {"created", "waiting"}
      /\ UNCHANGED <<cancelled, arrived, wire, draining, owed>>
    BY DEF WorkerStart, WorkerResume
<1>4. Numbering(c)' /\ (Dispatching(c, w) \/ Waits(c, w) \/ Drained(c))
    BY <1>1, <1>2, <1>3, LoopHeadInv DEF ConnInv
<1>5. WireReady(c) /\ transport[c] \notin {"none", "accepted"}
    BY <1>1, <1>3 DEF ConnInv, Progressing, Speaking, WireReady
<1>6. ConnInv(c)'
    BY <1>1, <1>3, <1>4, <1>5, AfterLoop DEF ConnInv, Progressing
<1>7. InflightIsBusy'
    BY <1>1, <1>2, <1>3, WithoutMine, LoopHeadInflight DEF Others
<1>8. \A d \in Conns : d # c => SameAt(d)
    BY <1>1, <1>2, <1>3, LoopHeadFrame DEF SameAt
<1> QED
    BY <1>3, <1>6, <1>7, <1>8, OthersKeep

\* Only the request in dispatch is without an answer, so the answer that
\* FinishRequest appends has the number of its place on the wire.
LEMMA Answered ==
    ASSUME IInv, NEW c \in Conns, worker[c] = "busy", transport[c] = "open",
           NEW close \in BOOLEAN,
           wire'[c] = Append(wire[c],
             [n |-> current[c].n, kind |-> "response", close |-> close])
    PROVE  /\ Len(wire'[c]) = current[c].n
           /\ \A i \in 1..Len(wire'[c]) :
                wire'[c][i].kind = "response" => wire'[c][i].n = i
           /\ \A i \in 1..Len(wire'[c]) :
                wire'[c][i].close => i = Len(wire'[c]) /\ close
           /\ current[c].n \in 1..Len(wire'[c])
           /\ wire'[c][current[c].n].close = close
<1> DEFINE r == [n |-> current[c].n, kind |-> "response", close |-> close]
<1>1. TypeOK /\ ConnInv(c)
    BY DEF IInv
<1>2. current[c].n \in Nat /\ Len(wire[c]) + 1 = current[c].n
    BY <1>1 DEF TypeOK, Item, ConnInv, Progressing
<1>3. wire[c] \in Seq(Response) /\ r \in Response
    BY <1>1, <1>2 DEF TypeOK, Response
<1>4. r.n = current[c].n /\ r.close = close
    OBVIOUS
<1> HIDE DEF r
<1>5. /\ Len(wire'[c]) = Len(wire[c]) + 1 /\ Len(wire[c]) \in Nat
      /\ \A i \in 1..Len(wire[c]) : wire'[c][i] = wire[c][i]
      /\ wire'[c][Len(wire[c]) + 1] = r
    <2>1. wire'[c] = Append(wire[c], r)
        BY DEF r
    <2> QED
        BY <2>1, <1>3, AppendProperties
<1>6. \A i \in 1..Len(wire'[c]) : i \in 1..Len(wire[c]) \/ i = current[c].n
    BY <1>2, <1>5
<1>7. \A i \in 1..Len(wire[c]) : ~wire[c][i].close
    BY <1>1 DEF ConnInv, Speaking
<1>8. \A i \in 1..Len(wire[c]) : wire[c][i].kind = "response" => wire[c][i].n = i
    BY <1>1 DEF ConnInv, Speaking
<1> QED
    BY <1>2, <1>4, <1>5, <1>6, <1>7, <1>8

\* Finishing a request keeps the invariant.
LEMMA FinishRequestInv ==
    ASSUME IInv, NEW c \in Conns, NEW closes \in BOOLEAN, FinishRequest(c, closes)
    PROVE  InflightIsBusy' /\ \A d \in Conns : ConnInv(d)'
<1> DEFINE stay == current[c].keep /\ ~closes
           fl == inflight \ {<<c, current[c].n>>}
           r == [n |-> current[c].n, kind |-> "response", close |-> ~stay]
<1>1. TypeOK /\ InflightIsBusy /\ ConnInv(c)
    BY DEF IInv
<1>2. /\ worker[c] = "busy"
      /\ UNCHANGED <<cancelled, arrived, draining, owed>>
      /\ \A d \in Conns : d # c => wire'[d] = wire[d]
    BY <1>1 DEF FinishRequest, TypeOK
<1>3. /\ transport[c] \notin {"none", "accepted"}
      /\ cancelled[c] => transport[c] = "lost"
      /\ current[c].n \in Nat
    BY <1>1, <1>2 DEF ConnInv, Progressing, TypeOK, Item
<1>4. fl = Others(c)
    BY <1>1, WithoutMine
<1>5. LoopHead(c, waker[c], fl) \/ (Return(c, fl) /\ UNCHANGED <<queue, current>>)
    BY DEF FinishRequest
<1>6. \A d \in Conns : d # c => SameAt(d)
    <2> HIDE DEF fl
    <2> QED
        BY <1>1, <1>2, <1>5, LoopHeadFrame DEF SameAt
<1>7. transport[c] = "open" => wire'[c] = Append(wire[c], r)
    BY <1>1 DEF FinishRequest, TypeOK
<1>8. CASE LoopHead(c, waker[c], fl) /\ (transport[c] = "open" => stay)
    <2>1. WireReady(c)
        <3>1. CASE transport[c] = "open"
            BY <3>1, <1>2, <1>7, <1>8, Answered DEF WireReady
        <3>2. CASE transport[c] # "open"
            <4>1. wire'[c] = wire[c]
                BY <3>2 DEF FinishRequest
            <4> QED
                BY <3>2, <4>1, <1>1 DEF WireReady, ConnInv, Speaking
        <3> QED
            BY <3>1, <3>2
    <2>2. Numbering(c)' /\ (Dispatching(c, waker[c]) \/ Waits(c, waker[c]) \/ Drained(c))
        BY <1>1, <1>2, <1>8, LoopHeadInv DEF ConnInv
    <2>3. ConnInv(c)'
        BY <1>1, <1>2, <1>3, <2>1, <2>2, AfterLoop
    <2>4. InflightIsBusy'
        BY <1>1, <1>4, <1>8, LoopHeadInflight DEF Others
    <2> QED
        BY <1>2, <1>6, <2>3, <2>4, OthersKeep
<1>9. CASE /\ transport[c] = "open" /\ ~stay
           /\ Return(c, fl) /\ UNCHANGED <<queue, current>>
    <2>1. /\ worker' = [worker EXCEPT ![c] = "done"]
          /\ worker'[c] = "done" /\ transport'[c] = "closing" /\ inflight' = fl
          /\ UNCHANGED <<queue, current>>
        BY <1>1, <1>9 DEF TypeOK, Return, CloseTransport
    <2>2. /\ Len(wire'[c]) = current[c].n
          /\ \A i \in 1..Len(wire'[c]) :
               wire'[c][i].kind = "response" => wire'[c][i].n = i
          /\ \A i \in 1..Len(wire'[c]) : wire'[c][i].close => i = Len(wire'[c])
          /\ current[c].n \in 1..Len(wire'[c]) /\ wire'[c][current[c].n].close
        BY <1>2, <1>7, <1>9, Answered
    <2>3. ConnInv(c)'
        <3>1. SaidClose(c)'
            BY <2>1, <2>2 DEF SaidClose
        <3>2. Numbering(c)' /\ Progressing(c)'
            BY <1>1, <1>2, <1>3, <1>9, <2>1 DEF ConnInv, Numbering, Progressing
        <3> QED
            BY <3>1, <3>2, <2>1, <2>2 DEF ConnInv, Speaking, Leaving
    <2>4. {d \in Conns : worker'[d] = "busy"} = Busy \ {c}
        BY <1>1, <2>1 DEF TypeOK, Busy
    <2>5. InflightIsBusy'
        BY <1>4, <2>1, <2>4 DEF InflightIsBusy, Others
    <2> QED
        BY <1>2, <1>6, <2>3, <2>5, OthersKeep
<1> QED
    BY <1>8, <1>9 DEF FinishRequest

\* A graceful stop keeps the invariant.
LEMMA DrainInv ==
    ASSUME IInv, BeginDrain \/ \E c \in Conns : WakeOnDrain(c)
    PROVE  InflightIsBusy' /\ \A d \in Conns : ConnInv(d)'
<1>1. TypeOK /\ InflightIsBusy /\ \A c \in Conns : ConnInv(c)
    BY DEF IInv
<1>2. ASSUME NEW c \in Conns, WakeOnDrain(c)
      PROVE  InflightIsBusy' /\ \A d \in Conns : ConnInv(d)'
    <2>1. /\ draining /\ waker[c] \in {"created", "waiting"} /\ waker'[c] = "done"
          /\ UNCHANGED <<transport, worker, cancelled, current, arrived, wire,
                         inflight, draining, owed>>
        BY <1>1, <1>2 DEF TypeOK, WakeOnDrain
    <2>2. Numbering(c)'
        BY <1>1, <1>2, SentinelInv DEF ConnInv
    <2>3. Progressing(c)'
        BY <1>1, <2>1 DEF ConnInv, Progressing
    <2>4. Speaking(c)' /\ Leaving(c)'
        BY <1>1, <2>1 DEF ConnInv, Speaking, SaidClose, Leaving
    <2>5. InflightIsBusy'
        BY <1>1, <2>1 DEF InflightIsBusy
    <2>6. \A d \in Conns : d # c => SameAt(d)
        BY <1>1, <1>2 DEF TypeOK, WakeOnDrain, SameAt
    <2> QED
        BY <2>1, <2>2, <2>3, <2>4, <2>5, <2>6, OthersKeep DEF ConnInv
<1>3. CASE BeginDrain
    <2>1. /\ ~draining /\ draining' /\ owed' = arrived
          /\ UNCHANGED <<transport, worker, cancelled, waker, queue, current,
                         arrived, wire, inflight>>
        BY <1>3 DEF BeginDrain
    <2>2. ASSUME NEW d \in Conns PROVE ConnInv(d)'
        <3>1. ConnInv(d) /\ arrived[d] \in Nat
            BY <1>1 DEF TypeOK
        <3>2. worker[d] # "done" => \A i \in 1..Len(queue[d]) : queue[d][i] # Sentinel
            BY <2>1, <3>1 DEF ConnInv, Numbering, Ahead
        <3>3. Numbering(d)'
            BY <2>1, <3>1, <3>2 DEF ConnInv, Numbering, Ahead
        <3>4. Progressing(d)'
            BY <2>1, <3>1 DEF ConnInv, Progressing
        <3>5. Speaking(d)' /\ Leaving(d)'
            BY <2>1, <3>1 DEF ConnInv, Speaking, SaidClose, Leaving
        <3> QED
            BY <3>3, <3>4, <3>5 DEF ConnInv
    <2>3. InflightIsBusy'
        BY <1>1, <2>1 DEF InflightIsBusy
    <2> QED
        BY <2>2, <2>3
<1> QED
    BY <1>2, <1>3

-----------------------------------------------------------------------------
(* The theorems.                                                           *)

\* The invariant holds at the start.
LEMMA IInvInit == InitProtocol => IInv
<1> SUFFICES ASSUME InitProtocol PROVE IInv
    OBVIOUS
<1>1. TypeOK
    BY TypeInit
<1>2. InflightIsBusy
    BY DEF InitProtocol, InflightIsBusy
<1>3. ASSUME NEW c \in Conns PROVE ConnInv(c)
    <2>1. /\ transport[c] = "none" /\ worker[c] = "none" /\ ~cancelled[c]
          /\ waker[c] = "none" /\ queue[c] = << >> /\ current[c].n = 0
          /\ arrived[c] = 0 /\ wire[c] = << >> /\ owed[c] = 0
        BY DEF InitProtocol, Sentinel
    <2>2. Len(queue[c]) = 0 /\ Len(wire[c]) = 0
        BY <2>1
    <2>3. Numbering(c)
        BY <2>1, <2>2 DEF Numbering, Ahead
    <2>4. Progressing(c)
        BY <2>1 DEF Progressing
    <2>5. Speaking(c) /\ Leaving(c)
        BY <2>1, <2>2 DEF Speaking, Leaving
    <2> QED
        BY <2>3, <2>4, <2>5 DEF ConnInv
<1> QED
    BY <1>1, <1>2, <1>3 DEF IInv

\* The invariant is inductive.
LEMMA IInvStep == IInv /\ [NextProtocol]_vars => IInv'
<1> SUFFICES ASSUME IInv, [NextProtocol]_vars
             PROVE  InflightIsBusy' /\ \A d \in Conns : ConnInv(d)'
    BY TypeStep DEF IInv
<1>1. ASSUME NEW c \in Conns, Accept(c)
      PROVE  InflightIsBusy' /\ \A d \in Conns : ConnInv(d)'
    BY <1>1, TransportInv
<1>2. ASSUME NEW c \in Conns, Callback(c)
      PROVE  InflightIsBusy' /\ \A d \in Conns : ConnInv(d)'
    BY <1>2, TransportInv, ArrivalInv, BadRequestInv DEF Callback, Queued
<1>3. ASSUME NEW c \in Conns, WorkerStep(c)
      PROVE  InflightIsBusy' /\ \A d \in Conns : ConnInv(d)'
    BY <1>3, WorkerLoopInv, FinishRequestInv, TransportInv DEF WorkerStep
<1>4. ASSUME NEW c \in Conns, WakerStep(c)
      PROVE  InflightIsBusy' /\ \A d \in Conns : ConnInv(d)'
    BY <1>4, TransportInv, DrainInv DEF WakerStep
<1>5. CASE BeginDrain
    BY <1>5, DrainInv
<1>6. CASE UNCHANGED vars
    <2>1. \A d \in Conns : SameAt(d) /\ ConnInv(d)
        BY <1>6 DEF vars, SameAt, IInv
    <2>2. \A d \in Conns : ConnInv(d)'
        BY <1>6, <2>1, Frame DEF vars
    <2> QED
        BY <1>6, <2>2 DEF vars, IInv, InflightIsBusy
<1> QED
    BY <1>1, <1>2, <1>3, <1>4, <1>5, <1>6 DEF NextProtocol

\* The inductive invariant holds in every reachable state.
THEOREM Inductive == SpecProtocol => []IInv
BY IInvInit, IInvStep, PTL DEF SpecProtocol

\* For any number of connections and of pipelined requests, the i-th response
\* that _process_loop writes on a connection answers its i-th request.
THEOREM InOrder == SpecProtocol => []ResponsesInOrder
<1>1. IInv => ResponsesInOrder
    BY DEF IInv, ConnInv, Speaking, ResponsesInOrder
<1> QED
    BY <1>1, Inductive, PTL

\* Nothing is written after a response that announces the close, neither by
\* the worker nor by the 400 of data_received.
THEOREM CloseLast == SpecProtocol => []CloseIsLast
<1>1. IInv => CloseIsLast
    BY DEF IInv, ConnInv, Speaking, CloseIsLast
<1> QED
    BY <1>1, Inductive, PTL

\* handler._inflight is exactly the set of requests in dispatch, through
\* cancellations, drains and lost connections.
THEOREM InflightExact == SpecProtocol => []InflightIsBusy
<1>1. IInv => InflightIsBusy
    BY DEF IInv
<1> QED
    BY <1>1, Inductive, PTL

\* A worker that a drain ends has served all that had arrived before it.
THEOREM DrainServes == SpecProtocol => []ArrivedBeforeDrainServed
<1>1. IInv => ArrivedBeforeDrainServed
    BY DEF IInv, ConnInv, Leaving, ArrivedBeforeDrainServed
<1> QED
    BY <1>1, Inductive, PTL

-----------------------------------------------------------------------------
(* The connections implement OrderedResponses: every step of theirs is a   *)
(* step of what a connection promises, or leaves what the client sees as   *)
(* it is.  First, an answer is for a request that has arrived: neither the *)
(* request in dispatch nor one in the queue is numbered beyond what was    *)
(* received.                                                               *)

OnlyArrived(c) ==
    /\ current[c].n <= arrived[c]
    /\ \A i \in 1..Len(queue[c]) : queue[c][i].n <= arrived[c]

NumbersArrived == \A c \in Conns : OnlyArrived(c)

\* Taking an item keeps it, and so does the loop head.
LEMMA LoopHeadArrived ==
    ASSUME TypeOK, NumbersArrived, NEW c \in Conns, NEW w, NEW fl,
           TakeItem(c, w, fl) \/ LoopHead(c, w, fl), arrived' = arrived
    PROVE  NumbersArrived'
<1>1. CASE TakeItem(c, w, fl)
  <2> DEFINE q == queue[c]
  <2>1. q \in Seq(Item) /\ q # << >> /\ Len(q) \in Nat
    BY <1>1, LenProperties DEF TypeOK, TakeItem
  <2>2. /\ Head(q) = q[1] /\ 1 \in 1..Len(q)
        /\ Len(Tail(q)) = Len(q) - 1
        /\ \A i \in 1..Len(Tail(q)) : i + 1 \in 1..Len(q) /\ Tail(q)[i] = q[i + 1]
    BY <2>1, HeadTailProperties, EmptySeq
  <2>3. /\ queue'[c] = Tail(q)
        /\ current'[c] = current[c] \/ current'[c] = Head(q)
        /\ \A d \in Conns : d # c => queue'[d] = queue[d] /\ current'[d] = current[d]
    BY <1>1 DEF TakeItem, TypeOK
  <2>4. \A i \in 1..Len(q) : q[i].n <= arrived[c]
    BY DEF NumbersArrived, OnlyArrived
  <2> HIDE DEF q
  <2>5. OnlyArrived(c)'
    <3>1. current'[c].n <= arrived[c]
      BY <2>2, <2>3, <2>4 DEF NumbersArrived, OnlyArrived
    <3>2. \A i \in 1..Len(queue'[c]) : queue'[c][i].n <= arrived[c]
      BY <2>2, <2>3, <2>4
    <3> QED
      BY <3>1, <3>2 DEF OnlyArrived
  <2> QED
    BY <2>3, <2>5 DEF NumbersArrived, OnlyArrived
<1>2. CASE ~TakeItem(c, w, fl)
  BY <1>2 DEF LoopHead, NumbersArrived, OnlyArrived
<1> QED
  BY <1>1, <1>2

\* A buffer numbers its requests from the last one that had arrived.
LEMMA EnqueueArrived ==
    ASSUME TypeOK, NumbersArrived, NEW c \in Conns, NEW keeps \in Queued,
           Enqueue(c, keeps), current' = current
    PROVE  NumbersArrived'
<1> DEFINE q == queue[c]
           new == Numbered(arrived[c], keeps)
<1>1. q \in Seq(Item) /\ arrived[c] \in Nat /\ Len(keeps) \in Nat /\ Len(q) \in Nat
  BY BurstIsSeq, LenProperties DEF TypeOK
<1>2. /\ new \in Seq(Item) /\ Len(new) = Len(keeps)
      /\ \A i \in 1..Len(keeps) : new[i].n = arrived[c] + i
  <2>1. /\ new \in Seq(Item) /\ Len(new) = Len(keeps)
        /\ \A i \in 1..Len(keeps) : new[i] = [n |-> arrived[c] + i, keep |-> keeps[i]]
    BY <1>1, NumberedItems
  <2>2. ASSUME NEW i \in 1..Len(keeps)
        PROVE  new[i].n = arrived[c] + i
    <3>1. new[i] = [n |-> arrived[c] + i, keep |-> keeps[i]]
      BY <2>1
    <3> HIDE DEF new
    <3> QED
      BY <3>1
  <2> QED
    BY <2>1, <2>2
<1>3. /\ queue'[c] = q \o new /\ arrived'[c] = arrived[c] + Len(keeps)
      /\ \A d \in Conns : d # c => queue'[d] = queue[d] /\ arrived'[d] = arrived[d]
  BY DEF Enqueue, TypeOK
<1>4. \A i \in 1..Len(q) : q[i] \in Item /\ q[i].n \in Nat /\ q[i].n <= arrived[c]
  <2>1. \A i \in 1..Len(q) : q[i] \in Item
    BY <1>1, ElementOfSeq
  <2> QED
    BY <2>1 DEF NumbersArrived, OnlyArrived, Item
<1>5. current[c].n \in Nat /\ current[c].n <= arrived[c]
  BY DEF NumbersArrived, OnlyArrived, TypeOK, Item
<1> HIDE DEF q, new
<1>6. /\ Len(q \o new) = Len(q) + Len(new)
      /\ \A i \in 1..(Len(q) + Len(new)) :
           (q \o new)[i] = IF i <= Len(q) THEN q[i] ELSE new[i - Len(q)]
  <2>1. q \in Seq(Item) /\ new \in Seq(Item)
    BY <1>1, <1>2
  <2>2. Len(q \o new) = Len(q) + Len(new)
    BY <2>1, ConcatProperties
  <2>3. \A i \in 1..(Len(q) + Len(new)) :
          (q \o new)[i] = IF i <= Len(q) THEN q[i] ELSE new[i - Len(q)]
    BY <2>1, ConcatProperties
  <2> QED
    BY <2>2, <2>3
<1>7. ASSUME NEW i \in 1..Len(q \o new)
      PROVE  (q \o new)[i].n <= arrived[c] + Len(keeps)
  <2>1. CASE i <= Len(q)
    BY <1>1, <1>2, <1>4, <1>6, <2>1
  <2>2. CASE i > Len(q)
    <3>1. i - Len(q) \in 1..Len(keeps)
      BY <1>1, <1>2, <1>6, <2>2
    <3>2. (q \o new)[i] = new[i - Len(q)]
      BY <1>1, <1>2, <1>6, <2>2
    <3>3. (q \o new)[i].n = arrived[c] + (i - Len(q))
      BY <1>2, <3>1, <3>2
    <3> QED
      BY <1>1, <3>1, <3>3
  <2> QED
    BY <1>1, <1>2, <1>6, <2>1, <2>2
<1>8. OnlyArrived(c)'
  BY <1>1, <1>3, <1>5, <1>7 DEF OnlyArrived
<1> QED
  BY <1>3, <1>8 DEF NumbersArrived, OnlyArrived

\* At the start no number has been given out.
LEMMA ArrivedInit == InitProtocol => NumbersArrived
<1> SUFFICES ASSUME InitProtocol, NEW c \in Conns
             PROVE  OnlyArrived(c)
  BY DEF NumbersArrived
<1>1. current[c].n = 0 /\ arrived[c] = 0 /\ queue[c] = << >>
  BY DEF InitProtocol, Sentinel
<1> QED
  BY <1>1 DEF OnlyArrived

\* Requests are numbered in the order they arrive.
LEMMA ArrivedStep == TypeOK /\ NumbersArrived /\ [NextProtocol]_vars => NumbersArrived'
<1> SUFFICES ASSUME TypeOK, NumbersArrived, [NextProtocol]_vars
             PROVE  NumbersArrived'
  OBVIOUS
<1>1. CASE UNCHANGED <<queue, current, arrived>>
  BY <1>1 DEF NumbersArrived, OnlyArrived
<1>2. ASSUME NEW c \in Conns, NEW keeps \in Queued,
             DataReceived(c, keeps) \/ DataRaises(c, keeps)
      PROVE  NumbersArrived'
  BY <1>2, EnqueueArrived DEF DataReceived, DataRaises
<1>3. ASSUME NEW c \in Conns, WorkerStart(c) \/ WorkerResume(c)
      PROVE  NumbersArrived'
  BY <1>3, LoopHeadArrived DEF WorkerStart, WorkerResume
<1>4. ASSUME NEW c \in Conns, NEW closes \in BOOLEAN, FinishRequest(c, closes)
      PROVE  NumbersArrived'
  BY <1>1, <1>4, LoopHeadArrived DEF FinishRequest
<1>5. ASSUME NEW c \in Conns, WakeOnDrain(c)
      PROVE  NumbersArrived'
  <2> DEFINE q == queue[c]
  <2>1. q \in Seq(Item) /\ Sentinel \in Item /\ Len(q) \in Nat
    BY LenProperties DEF TypeOK, Sentinel, Item
  <2>2. /\ queue'[c] = Append(q, Sentinel) /\ current' = current /\ arrived' = arrived
        /\ \A d \in Conns : d # c => queue'[d] = queue[d]
    BY <1>5 DEF WakeOnDrain, TypeOK
  <2>3. /\ Len(Append(q, Sentinel)) = Len(q) + 1
        /\ \A i \in 1..(Len(q) + 1) :
             Append(q, Sentinel)[i] = IF i = Len(q) + 1 THEN Sentinel ELSE q[i]
    BY <2>1, AppendProperties
  <2>4. Sentinel.n = 0 /\ arrived[c] \in Nat
    BY DEF Sentinel, TypeOK
  <2>5. \A i \in 1..(Len(q) + 1) : Append(q, Sentinel)[i].n <= arrived[c]
    BY <2>1, <2>3, <2>4 DEF NumbersArrived, OnlyArrived
  <2> QED
    BY <2>2, <2>3, <2>5 DEF NumbersArrived, OnlyArrived
<1> QED
  BY <1>1, <1>2, <1>3, <1>4, <1>5
  DEF NextProtocol, Callback, WorkerStep, WakerStep, Queued, Accept, ConnectionMade,
      BadRequest, ConnectionLost, WorkerCancelled, WakerStart, BeginDrain, vars

-----------------------------------------------------------------------------
(* The refinement mapping of MasslessProtocol (Promise), step by step.     *)

\* Hanging up on c, or keeping what its client sees.
Unseen(c) ==
    /\ UNCHANGED <<arrived, wire>>
    /\ \/ UNCHANGED transport
       \/ transport' = [transport EXCEPT ![c] = "closing"]
       \/ transport' = [transport EXCEPT ![c] = "lost"]

\* Changing one transport changes what the promise sees of that connection.
LEMMA OpenAfter ==
    ASSUME TypeOK, NEW c \in Conns, NEW t,
           transport' = [transport EXCEPT ![c] = t]
    PROVE  [d \in Conns |-> Writable(d)]' =
             [[d \in Conns |-> Writable(d)] EXCEPT ![c] = t \notin {"closing", "lost"}]
<1>1. transport'[c] = t /\ \A d \in Conns : d # c => transport'[d] = transport[d]
  BY DEF TypeOK
<1> QED
  BY <1>1 DEF Writable

\* A step that shows nothing of itself to the promise is a stutter of it.
LEMMA UnseenMaps ==
    ASSUME TypeOK, NEW c \in Conns, Unseen(c)
    PROVE  [Promise!Next]_(Promise!vars)
<1>1. CASE UNCHANGED transport
  BY <1>1 DEF Unseen, Promise!vars, Writable
<1>2. ASSUME NEW t \in {"closing", "lost"}, transport' = [transport EXCEPT ![c] = t]
      PROVE  [Promise!Next]_(Promise!vars)
  <2>1. [d \in Conns |-> Writable(d)]' =
          [[d \in Conns |-> Writable(d)] EXCEPT ![c] = FALSE]
    BY <1>2, OpenAfter
  <2>2. CASE Writable(c)
    <3>1. Promise!Hangup(c)
      BY <2>1, <2>2 DEF Unseen, Promise!Hangup
    <3> QED
      BY <3>1 DEF Promise!Next
  <2>3. CASE ~Writable(c)
    <3>1. [d \in Conns |-> Writable(d)]' = [d \in Conns |-> Writable(d)]
      BY <2>1, <2>3 DEF Writable
    <3> QED
      BY <3>1 DEF Unseen, Promise!vars
  <2> QED
    BY <2>2, <2>3
<1> QED
  BY <1>1, <1>2 DEF Unseen

\* Requests arrive, and an exception may abort the transport behind them.
LEMMA ArrivalMaps ==
    ASSUME TypeOK, NEW c \in Conns, NEW keeps \in Queued,
           DataReceived(c, keeps) \/ DataRaises(c, keeps)
    PROVE  [Promise!Next]_(Promise!vars)
<1>1. arrived[c] \in Nat /\ Len(keeps) \in Nat /\ MaxRequests[c] \in Nat
  BY BurstIsSeq, MaxRequestsAssumption DEF TypeOK
<1>2. /\ transport[c] = "open" /\ Writable(c) /\ wire' = wire
      /\ arrived' = [arrived EXCEPT ![c] = @ + Len(keeps)]
      /\ arrived[c] + Len(keeps) <= MaxRequests[c]
      /\ transport' = transport \/ transport' = [transport EXCEPT ![c] = "closing"]
  BY DEF DataReceived, DataRaises, Enqueue, Writable
<1>3. CASE Len(keeps) = 0
  <2>1. arrived' = arrived
    BY <1>1, <1>2, <1>3 DEF TypeOK
  <2> QED
    BY <1>2, <2>1, UnseenMaps DEF Unseen
<1>4. CASE Len(keeps) # 0
  <2> DEFINE n == arrived[c] + Len(keeps)
  <2>1. n \in arrived[c] + 1..MaxRequests[c]
    BY <1>1, <1>2, <1>4
  <2>2. arrived' = [arrived EXCEPT ![c] = n]
    BY <1>2
  <2> HIDE DEF n
  <2>3. \/ [d \in Conns |-> Writable(d)]' = [d \in Conns |-> Writable(d)]
        \/ [d \in Conns |-> Writable(d)]' = [[d \in Conns |-> Writable(d)] EXCEPT ![c] = FALSE]
    <3>1. CASE transport' = transport
      BY <3>1 DEF Writable
    <3>2. CASE transport' = [transport EXCEPT ![c] = "closing"]
      BY <3>2, OpenAfter
    <3> QED
      BY <1>2, <3>1, <3>2
  <2>4. Promise!Ask(c)
    BY <1>2, <2>1, <2>2, <2>3 DEF Promise!Ask
  <2> QED
    BY <2>4 DEF Promise!Next
<1> QED
  BY <1>3, <1>4

\* The 400 of data_received is a refusal of a request that was not asked yet.
LEMMA BadRequestMaps ==
    ASSUME TypeOK, NEW c \in Conns, NEW k \in 0..MaxBurst - 1, BadRequest(c, k)
    PROVE  [Promise!Next]_(Promise!vars)
<1> DEFINE n == arrived[c] + k + 1
<1>1. n \in arrived[c] + 1..MaxRequests[c]
  <2>1. arrived[c] \in Nat /\ k \in Nat /\ MaxRequests[c] \in Nat
    BY MaxRequestsAssumption, MaxBurstAssumption DEF TypeOK
  <2>2. arrived[c] + k < MaxRequests[c]
    BY DEF BadRequest
  <2> QED
    BY <2>1, <2>2
<1>2. [d \in Conns |-> Writable(d)]' = [[d \in Conns |-> Writable(d)] EXCEPT ![c] = FALSE]
  BY OpenAfter DEF BadRequest
<1>3. /\ wire' = [wire EXCEPT ![c] = Append(@, [n |-> n, kind |-> "bad request", close |-> TRUE])]
      /\ arrived' = arrived /\ Writable(c)
  BY DEF BadRequest, Writable
<1> HIDE DEF n
<1>4. Promise!Refuse(c)
  BY <1>1, <1>2, <1>3 DEF Promise!Refuse
<1> QED
  BY <1>4 DEF Promise!Next

\* The loop head writes nothing; it hangs up when it ends the worker.
LEMMA LoopHeadCloses ==
    ASSUME TypeOK, NEW c \in Conns, NEW w, NEW fl,
           \/ TakeItem(c, w, fl) \/ LoopHead(c, w, fl)
           \/ Return(c, fl)
    PROVE  \/ UNCHANGED transport
           \/ transport' = [transport EXCEPT ![c] = "closing"]
<1>1. Return(c, fl) => \/ UNCHANGED transport
                       \/ transport' = [transport EXCEPT ![c] = "closing"]
  BY DEF Return, CloseTransport, TypeOK
<1> QED
  BY <1>1 DEF LoopHead, TakeItem

\* A response answers the first request without an answer.
LEMMA FinishRequestMaps ==
    ASSUME IInv, NumbersArrived, NEW c \in Conns, NEW closes \in BOOLEAN,
           FinishRequest(c, closes)
    PROVE  [Promise!Next]_(Promise!vars)
<1> DEFINE stay == current[c].keep /\ ~closes
           fl == inflight \ {<<c, current[c].n>>}
<1>1. TypeOK /\ ConnInv(c) /\ arrived' = arrived /\ worker[c] = "busy"
  BY DEF IInv, FinishRequest
<1>2. CASE transport[c] # "open"
  <2>1. LoopHead(c, waker[c], fl) /\ wire' = wire
    BY <1>2 DEF FinishRequest
  <2> QED
    BY <1>1, <2>1, LoopHeadCloses, UnseenMaps DEF Unseen
<1>3. CASE transport[c] = "open"
  <2>1. /\ wire' = [wire EXCEPT ![c] = Append(@,
               [n |-> current[c].n, kind |-> "response", close |-> ~stay])]
        /\ \/ stay /\ LoopHead(c, waker[c], fl)
           \/ ~stay /\ Return(c, fl)
    BY <1>3 DEF FinishRequest
  <2>2. /\ Len(wire[c]) + 1 = current[c].n /\ current[c].n <= arrived[c]
        /\ Len(wire[c]) \in Nat /\ arrived[c] \in Nat
    <3>1. wire[c] \in Seq(Response) /\ arrived[c] \in Nat
      BY <1>1 DEF TypeOK
    <3>2. Len(wire[c]) + 1 = current[c].n
      BY <1>1, <1>3 DEF ConnInv, Progressing
    <3> QED
      BY <3>1, <3>2, LenProperties DEF NumbersArrived, OnlyArrived
  <2>3. wire' = [wire EXCEPT ![c] = Append(@,
               [n |-> Len(wire[c]) + 1, kind |-> "response", close |-> ~stay])]
    BY <2>1, <2>2
  <2>4. (~stay) \in BOOLEAN
    OBVIOUS
  <2>5. \/ UNCHANGED transport
        \/ transport' = [transport EXCEPT ![c] = "closing"]
    BY <1>1, <2>1, LoopHeadCloses
  <2>6. ~stay => transport' = [transport EXCEPT ![c] = "closing"]
    BY <1>3, <2>1 DEF Return, CloseTransport
  <2> HIDE DEF stay
  <2>7. \/ [d \in Conns |-> Writable(d)]' = [d \in Conns |-> Writable(d)]
        \/ [d \in Conns |-> Writable(d)]' = [[d \in Conns |-> Writable(d)] EXCEPT ![c] = FALSE]
    <3>1. UNCHANGED transport =>
            [d \in Conns |-> Writable(d)]' = [d \in Conns |-> Writable(d)]
      BY DEF Writable
    <3> QED
      BY <1>1, <2>5, <3>1, OpenAfter
  <2>8. ~stay => ~([d \in Conns |-> Writable(d)]'[c])
    <3>1. ~stay => transport'[c] = "closing"
      BY <1>1, <2>6 DEF TypeOK
    <3> QED
      BY <3>1 DEF Writable
  <2>9. Writable(c)
    BY <1>3 DEF Writable
  <2>10. Len(wire[c]) < arrived[c]
    BY <2>2
  <2>11. Promise!Answer(c)
    <3> SUFFICES \E last \in BOOLEAN :
                   /\ wire' = [wire EXCEPT ![c] = Append(@,
                        [n |-> Len(wire[c]) + 1, kind |-> "response", close |-> last])]
                   /\ last => ~([d \in Conns |-> Writable(d)]'[c])
      BY <1>1, <2>7, <2>9, <2>10 DEF Promise!Answer
    <3> WITNESS (~stay) \in BOOLEAN
    <3> QED
      BY <2>3, <2>8
  <2> QED
    BY <2>11 DEF Promise!Next
<1> QED
  BY <1>2, <1>3

\* Every step of the connections is one of OrderedResponses or a stutter.
LEMMA StepMaps ==
    IInv /\ NumbersArrived /\ [NextProtocol]_vars => [Promise!Next]_(Promise!vars)
<1> SUFFICES ASSUME IInv, NumbersArrived, [NextProtocol]_vars
             PROVE  [Promise!Next]_(Promise!vars)
  OBVIOUS
<1>0. TypeOK
  BY DEF IInv
<1>1. CASE UNCHANGED <<arrived, wire, transport>>
  BY <1>1 DEF Promise!vars, Writable
<1>2. ASSUME NEW c \in Conns, Accept(c) \/ ConnectionMade(c)
      PROVE  [Promise!Next]_(Promise!vars)
  <2>1. /\ transport[c] \notin {"closing", "lost"} /\ transport'[c] \notin {"closing", "lost"}
        /\ \A d \in Conns : d # c => transport'[d] = transport[d]
        /\ UNCHANGED <<arrived, wire>>
    BY <1>0, <1>2 DEF Accept, ConnectionMade, TypeOK
  <2>2. [d \in Conns |-> Writable(d)]' = [d \in Conns |-> Writable(d)]
    BY <2>1 DEF Writable
  <2> QED
    BY <2>1, <2>2 DEF Promise!vars
<1>3. ASSUME NEW c \in Conns, NEW keeps \in Queued,
             DataReceived(c, keeps) \/ DataRaises(c, keeps)
      PROVE  [Promise!Next]_(Promise!vars)
  BY <1>0, <1>3, ArrivalMaps
<1>4. ASSUME NEW c \in Conns, NEW k \in 0..MaxBurst - 1, BadRequest(c, k)
      PROVE  [Promise!Next]_(Promise!vars)
  BY <1>0, <1>4, BadRequestMaps
<1>5. ASSUME NEW c \in Conns,
             ConnectionLost(c) \/ WorkerStart(c) \/ WorkerResume(c)
      PROVE  [Promise!Next]_(Promise!vars)
  <2>1. Unseen(c)
    BY <1>0, <1>5, LoopHeadCloses DEF Unseen, ConnectionLost, WorkerStart, WorkerResume
  <2> QED
    BY <1>0, <2>1, UnseenMaps
<1>6. ASSUME NEW c \in Conns, NEW closes \in BOOLEAN, FinishRequest(c, closes)
      PROVE  [Promise!Next]_(Promise!vars)
  BY <1>6, FinishRequestMaps
<1> QED
  BY <1>1, <1>2, <1>3, <1>4, <1>5, <1>6
  DEF NextProtocol, Callback, WorkerStep, WakerStep, Queued, WorkerCancelled,
      WakerStart, WakeOnDrain, BeginDrain, vars

\* The initial states are initial states of the promise.
LEMMA InitMaps == InitProtocol => Promise!Init
  BY DEF InitProtocol, Promise!Init, Writable

\* The connections of a worker implement OrderedResponses: what each client
\* reads is an in-order prefix of the answers to what it sent, a refusal or a
\* closing answer is the last word, and nothing is said once it has hung up.
THEOREM Implements == SpecProtocol => ImplementsOrderedResponses
<1>1. InitProtocol => IInv /\ NumbersArrived
  BY IInvInit, ArrivedInit
<1>2. IInv /\ NumbersArrived /\ [NextProtocol]_vars => (IInv /\ NumbersArrived)'
  BY IInvStep, ArrivedStep DEF IInv
<1> QED
  BY <1>1, <1>2, InitMaps, StepMaps, PTL
  DEF SpecProtocol, ImplementsOrderedResponses, Promise!Spec
=============================================================================
