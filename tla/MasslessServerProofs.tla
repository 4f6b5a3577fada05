------------------------ MODULE MasslessServerProofs ------------------------
(***************************************************************************)
(* The drain of a worker process, for any number of connections: what the  *)
(* shutdown hooks may rely on.  While serve_async has not returned, every  *)
(* step of the connections is one of SpecProtocol, so its invariant holds; *)
(* the cancellation of all tasks at the very end breaks it, and nothing is *)
(* promised of the connections after that.                                 *)
(***************************************************************************)
EXTENDS MasslessServer, MasslessProtocolProofs

\* A connection with a request in flight at the stop: its worker is never
\* cancelled, never idle again, and leaves when it owes nothing any more.
Draining(c) ==
    /\ ~cancelled[c]
    /\ worker[c] \in {"busy", "done"}
    /\ worker[c] = "done" => current[c].n >= owed[c] \/ SaidClose(c)

ServerInv ==
    /\ phase \in {"startup", "serving", "draining", "closing", "hooks", "stopped"}
    /\ phase # "stopped" => IInv
    /\ phase \in {"startup", "serving"} => atStop = {}
    /\ atStop \subseteq Conns
    /\ phase \in {"draining", "closing", "hooks"} =>
         /\ draining
         /\ \A c \in atStop : Draining(c)
    /\ phase \in {"closing", "hooks"} /\ ~graceOver =>
         \A c \in atStop : worker[c] = "done"

-----------------------------------------------------------------------------
(* The connections during a drain.                                         *)

\* In a drain the loop never suspends in queue.get(): it dispatches, or ends
\* with all that is owed served.
LEMMA LoopHeadDraining ==
    ASSUME IInv, draining, NEW c \in Conns, NEW w, NEW fl, worker[c] = "busy",
           LoopHead(c, w, fl), UNCHANGED <<arrived, owed, draining>>
    PROVE  /\ worker'[c] \in {"busy", "done"}
           /\ worker'[c] = "done" => current'[c].n >= owed'[c]
<1>1. TypeOK /\ Numbering(c)
  BY DEF IInv, ConnInv
<1>2. Dispatching(c, w) \/ Waits(c, w) \/ Drained(c)
  BY <1>1, LoopHeadInv
<1>3. worker'[c] \in {"busy", "done"}
  BY <1>1 DEF LoopHead, TakeItem, Return, TypeOK
<1> QED
  BY <1>2, <1>3 DEF Dispatching, Waits, Drained

\* A step of another connection changes nothing that Draining looks at.
LEMMA OthersSteps ==
    ASSUME TypeOK, NEW c \in Conns, NEW d \in Conns, d # c,
           Accept(d) \/ Callback(d) \/ WorkerStep(d) \/ WakerStep(d)
    PROVE  /\ worker'[c] = worker[c] /\ cancelled'[c] = cancelled[c]
           /\ current'[c] = current[c] /\ wire'[c] = wire[c] /\ owed'[c] = owed[c]
<1>1. CASE Accept(d)
  BY <1>1 DEF Accept
<1>2. CASE Callback(d)
  BY <1>2 DEF Callback, ConnectionMade, DataReceived, BadRequest, DataRaises,
              ConnectionLost, TypeOK
<1>3. CASE WorkerStart(d) \/ WorkerResume(d)
  BY <1>3, LoopHeadFrame DEF WorkerStart, WorkerResume
<1>4. ASSUME NEW closes \in BOOLEAN, FinishRequest(d, closes)
      PROVE  /\ worker'[c] = worker[c] /\ cancelled'[c] = cancelled[c]
             /\ current'[c] = current[c] /\ wire'[c] = wire[c] /\ owed'[c] = owed[c]
  <2>1. wire'[c] = wire[c] /\ cancelled' = cancelled /\ owed' = owed
    BY <1>4 DEF FinishRequest, TypeOK
  <2>2. worker'[c] = worker[c] /\ current'[c] = current[c]
    BY <1>4, LoopHeadFrame DEF FinishRequest
  <2> QED
    BY <2>1, <2>2
<1>5. CASE WorkerCancelled(d)
  BY <1>5 DEF WorkerCancelled, TypeOK
<1>6. CASE WakerStep(d)
  BY <1>6 DEF WakerStep, WakerStart, WakeOnDrain
<1> QED
  BY <1>1, <1>2, <1>3, <1>4, <1>5, <1>6 DEF WorkerStep

\* A worker with a request in flight at the stop keeps its obligations, and
\* does not come back once it has left.
LEMMA DrainingKept ==
    ASSUME IInv, draining, NEW c \in Conns, Draining(c), NEW d \in Conns,
           Callback(d) \/ WorkerStep(d) \/ WakerStep(d)
    PROVE  Draining(c)' /\ (worker[c] = "done" => worker'[c] = "done")
<1>1. TypeOK /\ ConnInv(c)
  BY DEF IInv
<1>2. CASE d # c
  BY <1>1, <1>2, OthersSteps DEF Draining, SaidClose
<1>3. CASE d = c /\ Callback(c)
  <2>1. CASE ConnectionMade(c)
    BY <1>1, <2>1 DEF ConnectionMade, ConnInv, Progressing, Draining
  <2>2. ASSUME NEW keeps, DataReceived(c, keeps) \/ DataRaises(c, keeps)
        PROVE  Draining(c)' /\ (worker[c] = "done" => worker'[c] = "done")
    BY <2>2 DEF DataReceived, DataRaises, Draining, SaidClose
  <2>3. ASSUME NEW k, BadRequest(c, k)
        PROVE  Draining(c)' /\ (worker[c] = "done" => worker'[c] = "done")
    BY <1>1, <2>3 DEF BadRequest, ConnInv, Progressing, Draining
  <2>4. CASE ConnectionLost(c)
    BY <1>1, <2>4 DEF ConnectionLost, Draining, SaidClose, TypeOK
  <2> QED
    BY <1>3, <2>1, <2>2, <2>3, <2>4 DEF Callback
<1>4. CASE d = c /\ WorkerStep(c)
  <2>1. PICK closes \in BOOLEAN : FinishRequest(c, closes)
    BY <1>4 DEF WorkerStep, WorkerStart, WorkerResume, WorkerCancelled, Draining
  <2> DEFINE stay == current[c].keep /\ ~closes
             fl == inflight \ {<<c, current[c].n>>}
  <2>2. worker[c] = "busy" /\ UNCHANGED <<cancelled, arrived, draining, owed>>
    BY <2>1 DEF FinishRequest
  <2>3. CASE LoopHead(c, waker[c], fl)
    BY <2>2, <2>3, LoopHeadDraining DEF Draining
  <2>4. CASE /\ transport[c] = "open" /\ ~stay /\ Return(c, fl)
             /\ wire' = [wire EXCEPT ![c] = Append(@,
                  [n |-> current[c].n, kind |-> "response", close |-> ~stay])]
    <3>1. worker'[c] = "done"
      BY <1>1, <2>4 DEF Return, TypeOK
    <3> DEFINE last == [n |-> current[c].n, kind |-> "response", close |-> ~stay]
    <3>2. wire[c] \in Seq(Response) /\ last \in Response
      BY <1>1 DEF TypeOK, Item, Response
    <3>3. last.close
      BY <2>4
    <3>4. wire'[c] = Append(wire[c], last)
      BY <1>1, <2>4 DEF TypeOK
    <3> HIDE DEF last
    <3>5. /\ Len(wire'[c]) = Len(wire[c]) + 1 /\ Len(wire[c]) \in Nat
          /\ wire'[c][Len(wire[c]) + 1] = last
      BY <3>2, <3>4, AppendProperties, LenProperties
    <3>6. SaidClose(c)'
      BY <3>3, <3>5 DEF SaidClose
    <3> QED
      BY <2>2, <3>1, <3>6 DEF Draining
  <2> QED
    BY <2>1, <2>3, <2>4 DEF FinishRequest
<1>5. CASE d = c /\ WakerStep(c)
  BY <1>5 DEF WakerStep, WakerStart, WakeOnDrain, Draining, SaidClose
<1> QED
  BY <1>2, <1>3, <1>4, <1>5

-----------------------------------------------------------------------------
(* The server.                                                             *)

\* No request in flight, no worker in dispatch.
LEMMA NothingInflight ==
    ASSUME IInv, inflight = {}
    PROVE  \A c \in Conns : worker[c] # "busy"
  BY DEF IInv, InflightIsBusy

\* The invariant of the server holds at the start.
LEMMA ServerInit == InitServer => ServerInv
<1> SUFFICES ASSUME InitServer
             PROVE  ServerInv
  OBVIOUS
<1>1. IInv
  BY IInvInit DEF InitServer
<1> QED
  BY <1>1 DEF InitServer, ServerInv

\* A step of the connections keeps it.
LEMMA LoopStepInv ==
    ASSUME ServerInv, NEW c \in Conns, LoopStep(c)
    PROVE  ServerInv'
<1>1. UNCHANGED <<phase, graceOver, atStop>>
  BY DEF LoopStep, serverVars
<1>2. CASE phase = "stopped"
  BY <1>1, <1>2 DEF ServerInv
<1>3. CASE phase # "stopped"
  <2>1. IInv /\ TypeOK
    BY <1>3 DEF ServerInv, IInv
  <2>2. NextProtocol
    BY <1>3 DEF LoopStep, NextProtocol
  <2>3. IInv'
    BY <2>1, <2>2, IInvStep
  <2>4. CASE phase \in {"startup", "serving"}
    BY <1>1, <2>3, <2>4 DEF ServerInv
  <2>5. CASE phase \in {"draining", "closing", "hooks"}
    <3>1. Callback(c) \/ WorkerStep(c) \/ WakerStep(c)
      BY <2>5 DEF LoopStep
    <3>2. draining' = draining
      BY <3>1 DEF Callback, ConnectionMade, DataReceived, BadRequest, DataRaises,
                  ConnectionLost, WorkerStep, WorkerStart, WorkerResume,
                  FinishRequest, WorkerCancelled, WakerStep, WakerStart, WakeOnDrain
    <3>3. \A d \in atStop :
            Draining(d)' /\ (worker[d] = "done" => worker'[d] = "done")
      BY <2>1, <2>5, <3>1, DrainingKept DEF ServerInv
    <3> QED
      BY <1>1, <2>3, <2>5, <3>2, <3>3 DEF ServerInv
  <2> QED
    BY <1>3, <2>4, <2>5 DEF ServerInv
<1> QED
  BY <1>2, <1>3

\* The first half of _stop_serving, up to the wait for the drain, keeps it.
LEMMA StopServingInv ==
    ASSUME ServerInv, StopServing
    PROVE  ServerInv'
<1>1. phase = "serving" /\ IInv /\ BeginDrain
  BY DEF ServerInv, StopServing
<1>2. IInv'
  BY <1>1, IInvStep DEF NextProtocol
<1>3. /\ draining' /\ phase' = (IF inflight = {} THEN "closing" ELSE "draining")
      /\ atStop' = {c \in Conns : worker[c] = "busy" /\ ~cancelled[c]}
      /\ worker' = worker /\ cancelled' = cancelled
  BY <1>1 DEF StopServing, BeginDrain
<1>4. \A c \in atStop' : Draining(c)'
  BY <1>3 DEF Draining
<1>5. inflight = {} => atStop' = {}
  BY <1>1, <1>3, NothingInflight
<1> QED
  BY <1>2, <1>3, <1>4, <1>5 DEF ServerInv

\* _drain resuming, over or for another round, keeps it.
LEMMA DrainResumesInv ==
    ASSUME ServerInv, DrainResumes
    PROVE  ServerInv'
<1>1. /\ phase = "draining" /\ IInv /\ draining
      /\ \A c \in atStop : c \in Conns /\ Draining(c)
  BY DEF ServerInv, DrainResumes
<1>2. UNCHANGED <<vars, graceOver, atStop>>
  BY DEF DrainResumes
<1>3. IInv'
  BY <1>1, <1>2, IInvStep
<1>4. draining' /\ \A c \in atStop' : Draining(c)'
  BY <1>1, <1>2 DEF vars, Draining, SaidClose
<1>5. CASE phase' = "closing"
  <2>1. ~graceOver => inflight = {}
    BY <1>1, <1>5 DEF DrainResumes
  <2>2. ~graceOver => \A c \in atStop : worker[c] = "done"
    BY <1>1, <2>1, NothingInflight DEF Draining
  <2> QED
    BY <1>2, <1>3, <1>4, <1>5, <2>2 DEF ServerInv, vars
<1>6. CASE phase' = "draining"
  BY <1>2, <1>3, <1>4, <1>6 DEF ServerInv
<1> QED
  BY <1>1, <1>5, <1>6 DEF DrainResumes

\* The invariant of the server is inductive.
LEMMA ServerStep == ServerInv /\ [NextServer]_allVars => ServerInv'
<1> SUFFICES ASSUME ServerInv, [NextServer]_allVars
             PROVE  ServerInv'
  OBVIOUS
<1>1. ASSUME UNCHANGED vars
      PROVE  /\ IInv => IInv'
             /\ draining' = draining /\ worker' = worker
             /\ \A c \in Conns : Draining(c)' <=> Draining(c)
  BY <1>1, IInvStep DEF vars, Draining, SaidClose
<1>2. CASE RunStartupHooks
  BY <1>1, <1>2 DEF RunStartupHooks, ServerInv
<1>3. CASE StartupHookFails
  BY <1>3 DEF StartupHookFails, ServerInv
<1>4. CASE GraceExpires
  <2>1. phase = "draining" /\ UNCHANGED <<phase, atStop>> /\ UNCHANGED vars
    BY <1>4 DEF GraceExpires
  <2> QED
    BY <1>1, <2>1 DEF ServerInv
<1>5. CASE WaitClosed
  <2>1. phase = "closing" /\ phase' = "hooks" /\ UNCHANGED <<graceOver, atStop>> /\ UNCHANGED vars
    BY <1>5 DEF WaitClosed
  <2> QED
    BY <1>1, <2>1 DEF ServerInv
<1>6. CASE RunShutdownHooks
  BY <1>6 DEF RunShutdownHooks, ServerInv
<1>7. CASE UNCHANGED allVars
  <2>1. UNCHANGED <<phase, graceOver, atStop>> /\ UNCHANGED vars
    BY <1>7 DEF allVars, serverVars
  <2> QED
    BY <1>1, <2>1 DEF ServerInv
<1> QED
  BY <1>2, <1>3, <1>4, <1>5, <1>6, <1>7, LoopStepInv, StopServingInv, DrainResumesInv
  DEF NextServer, ServeStep

\* The invariant of the server holds until serve_async returns and after it.
THEOREM ServerInvariant == SpecServer => []ServerInv
  BY ServerInit, ServerStep, PTL DEF SpecServer

\* When the shutdown hooks run within the grace period, every connection that
\* had a request in flight at the stop has been served: that request and all
\* that had arrived behind it, or up to an answer that closed the connection.
THEOREM DrainedBeforeTheHooks == SpecServer => []DrainedBeforeHooks
<1>1. ServerInv => DrainedBeforeHooks
  <2> SUFFICES ASSUME ServerInv, phase \in {"closing", "hooks"}, ~graceOver,
                      NEW c \in atStop
               PROVE  /\ \A n \in 1..owed[c] : <<c, n>> \notin inflight
                      /\ current[c].n >= owed[c] \/ SaidClose(c)
    BY DEF DrainedBeforeHooks
  <2>1. IInv /\ c \in Conns /\ Draining(c) /\ worker[c] = "done"
    BY DEF ServerInv
  <2>2. \A n : <<c, n>> \notin inflight
    BY <2>1 DEF IInv, InflightIsBusy
  <2> QED
    BY <2>1, <2>2 DEF Draining
<1> QED
  BY <1>1, ServerInvariant, PTL
=============================================================================
