--------------------------- MODULE DispatchProofs ---------------------------
(***************************************************************************)
(* Proofs about Dispatch, for any set of requests and every configuration  *)
(* of the handler.  DispatchInv strengthens the safety properties to one   *)
(* that every step preserves: it says which job each suspended request     *)
(* waits for, that a request has one job at most, and how far its teardown *)
(* has come.                                                               *)
(***************************************************************************)
EXTENDS Dispatch, FiniteSetTheorems, SequenceTheorems, TLAPS

\* The coroutine that is suspended at p waits for a job of this kind.
Awaits(p, kind) ==
    \/ p = "starting" /\ kind = "start"
    \/ p = "viewing" /\ kind = "view"
    \/ p = "rendering" /\ kind = "render"
    \/ p = "handling" /\ kind = "error"
    \/ p = "logging" /\ kind = "log"
    \/ p = "closing" /\ kind = "close"

\* Only jobs that may use connections go to the thread; it runs one of them.
KindsOfThreads ==
    /\ \A i \in 1..Len(line) : UsesConnections(line[i])
    /\ \A j \in sensitive : UsesConnections(j)
    /\ \A j \in others : ~UsesConnections(j)
    /\ \A j, k \in sensitive : j = k

\* A job in line has somebody waiting for it; a running one may have lost him.
JobsAwaited ==
    /\ \A i \in 1..Len(line) : Awaits(pc[line[i].req], line[i].kind)
    /\ \A j \in RunningJobs :
         Awaits(pc[j.req], j.kind) \/ pc[j.req] = "cancelled"

\* A request has one job at most, in line or running.
OneJobEach ==
    /\ \A i, k \in 1..Len(line) : line[i].req = line[k].req => i = k
    /\ \A i \in 1..Len(line), j \in RunningJobs : line[i].req # j.req
    /\ \A j, k \in RunningJobs : j.req = k.req => j = k

\* A job of r that the thread has not finished yet.
Pending(r, kind) ==
    \/ \E i \in 1..Len(line) : line[i] = [req |-> r, kind |-> kind]
    \/ [req |-> r, kind |-> kind] \in sensitive

Serving == {"viewing", "rendering", "handling", "logging"}
BeforeTeardown == {"idle", "starting", "ready"} \cup Serving

\* request_started: never in pool mode; otherwise the request goes on to its
\* view when the job has run, and request_finished comes after it.
SignalOf(r) ==
    /\ config.pool => ~sent[r] /\ ~Pending(r, "start")
    /\ pc[r] = "ready" => config.pool
    /\ finished[r] => sent[r]
    /\ ~config.pool =>
         /\ pc[r] = "starting" => sent[r] \/ Pending(r, "start")
         /\ pc[r] \in Serving \cup {"closing", "answered"} => sent[r]
         /\ Pending(r, "close") => sent[r]

SignalState == \A r \in Requests : SignalOf(r)

\* In pool mode the closers run as the teardown begins.
PoolTeardown(r) ==
    /\ ~finished[r]
    /\ closed[r] \in {0, 1}
    /\ pc[r] \in BeforeTeardown => closed[r] = 0
    /\ pc[r] \in {"closing", "answered"} => closed[r] = 1

\* Otherwise they run in the job, or as an aclose() ends, and send the signal.
OwnTeardown(r) ==
    /\ closed[r] \in {0, 1}
    /\ finished[r] <=> closed[r] = 1
    /\ pc[r] \in BeforeTeardown => closed[r] = 0
    /\ pc[r] = "closing" =>
         closed[r] = (IF config.native \/ Pending(r, "close") THEN 0 ELSE 1)
    /\ pc[r] = "answered" => closed[r] = 1
    /\ Pending(r, "close") => ~config.native /\ closed[r] = 0

TeardownOf(r) == IF config.pool THEN PoolTeardown(r) ELSE OwnTeardown(r)

TeardownState == \A r \in Requests : TeardownOf(r)

DispatchInv ==
    /\ TypeOK /\ KindsOfThreads /\ JobsAwaited /\ OneJobEach
    /\ SignalState /\ TeardownState

-----------------------------------------------------------------------------
(* Sequences: a job put in line, the first one taken, one withdrawn.       *)

\* Appending keeps what is in line and puts the new element at its end.
LEMMA AppendIndexes ==
    ASSUME NEW S, NEW s \in Seq(S), NEW e \in S
    PROVE  /\ Append(s, e) \in Seq(S)
           /\ Len(Append(s, e)) = Len(s) + 1
           /\ \A i \in 1..(Len(s) + 1) :
                Append(s, e)[i] = IF i = Len(s) + 1 THEN e ELSE s[i]
  BY AppendProperties, LenProperties

\* The tail is the sequence moved by one.
LEMMA TailIndexes ==
    ASSUME NEW S, NEW s \in Seq(S), s # << >>
    PROVE  /\ Head(s) = s[1] /\ Head(s) \in S
           /\ Tail(s) \in Seq(S)
           /\ 1 \in 1..Len(s)
           /\ Len(Tail(s)) = Len(s) - 1
           /\ \A i \in 1..Len(Tail(s)) : i + 1 \in 1..Len(s) /\ Tail(s)[i] = s[i + 1]
  BY HeadTailProperties, EmptySeq, LenProperties

\* Withdrawing one leaves the others, in their order.
LEMMA RemoveIndexes ==
    ASSUME NEW S, NEW s \in Seq(S), NEW n \in 1..Len(s)
    PROVE  /\ RemoveAt(s, n) \in Seq(S)
           /\ Len(RemoveAt(s, n)) = Len(s) - 1
           /\ \A i \in 1..(Len(s) - 1) :
                RemoveAt(s, n)[i] = s[IF i < n THEN i ELSE i + 1]
<1> DEFINE front == SubSeq(s, 1, n - 1)
           back == SubSeq(s, n + 1, Len(s))
<1>1. Len(s) \in Nat
  BY LenProperties
<1>2. /\ front \in Seq(S) /\ Len(front) = n - 1
      /\ \A i \in 1..(n - 1) : front[i] = s[i]
  BY <1>1, SubSeqProperties
<1>3. /\ back \in Seq(S) /\ Len(back) = Len(s) - n
      /\ \A i \in 1..(Len(s) - n) : back[i] = s[n + i]
  BY <1>1, SubSeqProperties
<1>4. RemoveAt(s, n) = front \o back
  BY DEF RemoveAt
<1> HIDE DEF front, back
<1>5. /\ front \o back \in Seq(S)
      /\ Len(front \o back) = Len(front) + Len(back)
      /\ \A i \in 1..(Len(front) + Len(back)) :
           (front \o back)[i] = IF i <= Len(front) THEN front[i] ELSE back[i - Len(front)]
  BY <1>2, <1>3, ConcatProperties
<1>6. QED
  BY <1>1, <1>2, <1>3, <1>4, <1>5

-----------------------------------------------------------------------------
(* Type correctness.                                                       *)

\* Counting up stays in Nat.
LEMMA CountUp ==
    ASSUME NEW f \in [Requests -> Nat], NEW r
    PROVE  [f EXCEPT ![r] = f[r] + 1] \in [Requests -> Nat]
<1>1. \A q \in Requests : f[q] \in Nat /\ f[q] + 1 \in Nat
  OBVIOUS
<1> QED
  BY <1>1, Zenon

\* The program starts well typed.
LEMMA TypeInit == Init => TypeOK
<1> SUFFICES ASSUME Init PROVE TypeOK
  OBVIOUS
<1>1. Cardinality(sensitive) <= 1
  BY FS_EmptySet DEF Init
<1>2. line \in Seq(Job)
  BY EmptySeq DEF Init
<1> QED
  BY <1>1, <1>2 DEF Init, TypeOK

\* What sync_to_async does to the queues, given a job that fits them.
LEMMA SubmitType ==
    ASSUME TypeOK, NEW r \in Requests,
           NEW kind \in {"start", "view", "render", "close", "error", "log"},
           NoJob \/ SubmitSensitive(r, kind) \/ SubmitOther(r, kind)
    PROVE  line' \in Seq(Job) /\ others' \subseteq Job
<1>1. [req |-> r, kind |-> kind] \in Job
  BY DEF Job
<1>2. line \in Seq(Job) /\ others \subseteq Job
  BY DEF TypeOK
<1>3. Append(line, [req |-> r, kind |-> kind]) \in Seq(Job)
  BY <1>1, <1>2, AppendIndexes
<1> QED
  BY <1>1, <1>2, <1>3 DEF NoJob, SubmitSensitive, SubmitOther

\* The beginning of the teardown, or the exception that skips it.
LEMMA RespondType ==
    ASSUME TypeOK, NEW r \in Requests, Respond(r)
    PROVE  /\ line' \in Seq(Job) /\ others' \subseteq Job
           /\ closed' \in [Requests -> Nat]
           /\ \E p \in {"closing", "raised"} : pc' = [pc EXCEPT ![r] = p]
<1>1. NoJob \/ SubmitSensitive(r, "close")
  BY DEF Respond, Teardown, SerializeRaises
<1>2. line' \in Seq(Job) /\ others' \subseteq Job
  BY <1>1, SubmitType
<1>3. closed' \in [Requests -> Nat]
  <2>1. closed \in [Requests -> Nat]
    BY DEF TypeOK
  <2>2. closed' = [closed EXCEPT ![r] = @ + 1] \/ closed' = closed
    BY DEF Respond, Teardown, SerializeRaises
  <2> QED
    BY <2>1, <2>2, CountUp
<1>4. \E p \in {"closing", "raised"} : pc' = [pc EXCEPT ![r] = p]
  BY DEF Respond, Teardown, SerializeRaises
<1> QED
  BY <1>2, <1>3, <1>4

\* The same, or a response that is logged first.
LEMMA RespondOrLogType ==
    ASSUME TypeOK, NEW r \in Requests, RespondOrLog(r)
    PROVE  /\ line' \in Seq(Job) /\ others' \subseteq Job
           /\ closed' \in [Requests -> Nat]
           /\ \E p \in {"closing", "raised", "logging"} : pc' = [pc EXCEPT ![r] = p]
<1>1. CASE Respond(r)
  BY <1>1, RespondType
<1>2. CASE ~Respond(r)
  <2>1. SubmitOther(r, "log") /\ closed' = closed /\ pc' = [pc EXCEPT ![r] = "logging"]
    BY <1>2 DEF RespondOrLog
  <2>2. line' \in Seq(Job) /\ others' \subseteq Job
    BY <2>1, SubmitType
  <2> QED
    BY <2>1, <2>2 DEF TypeOK
<1> QED
  BY <1>1, <1>2

\* No step of the loop, of a worker or of a client breaks the types.
LEMMA TypeStep == TypeOK /\ [Next]_vars => TypeOK'
<1> SUFFICES ASSUME TypeOK, [Next]_vars
             PROVE  TypeOK'
  OBVIOUS
<1>1. CASE ThreadTakes
  <2>1. line \in Seq(Job)
    BY DEF TypeOK
  <2>2. Head(line) \in Job /\ Tail(line) \in Seq(Job)
    BY <1>1, <2>1, TailIndexes DEF ThreadTakes
  <2>3. Cardinality(sensitive') <= 1
    <3>1. Cardinality({Head(line)}) = 1
      BY FS_Singleton
    <3>2. sensitive' = {Head(line)}
      BY <1>1 DEF ThreadTakes
    <3> QED
      BY <3>1, <3>2
  <2> QED
    BY <1>1, <2>2, <2>3 DEF ThreadTakes, TypeOK
<1>2. CASE ThreadEnds
  <2>1. Cardinality(sensitive') <= 1
    BY <1>2, FS_EmptySet DEF ThreadEnds
  <2>2. PICK job \in sensitive : RunJob(job)
    BY <1>2 DEF ThreadEnds
  <2>3. closed \in [Requests -> Nat] /\ finished \in [Requests -> BOOLEAN]
        /\ sent \in [Requests -> BOOLEAN]
    BY DEF TypeOK
  <2>4. closed' \in [Requests -> Nat]
    BY <2>2, <2>3, CountUp DEF RunJob
  <2>5. finished' \in [Requests -> BOOLEAN] /\ sent' \in [Requests -> BOOLEAN]
    BY <2>2, <2>3 DEF RunJob
  <2> QED
    BY <1>2, <2>1, <2>4, <2>5 DEF ThreadEnds, TypeOK
<1>3. ASSUME NEW j \in others, OtherEnds(j)
      PROVE  TypeOK'
  BY <1>3 DEF OtherEnds, TypeOK
<1>4. ASSUME NEW r \in Requests, Start(r)
      PROVE  TypeOK'
  <2>1. NoJob \/ SubmitSensitive(r, "start")
    BY <1>4 DEF Start
  <2>2. line' \in Seq(Job) /\ others' \subseteq Job
    BY <2>1, SubmitType
  <2>3. pc' \in [Requests -> {"idle", "starting", "ready", "viewing", "rendering",
                 "handling", "logging", "closing", "answered", "raised", "cancelled"}]
    BY <1>4 DEF Start, TypeOK
  <2>4. route' \in [Requests -> {"fast", "slow"}]
    <3>1. route' = [route EXCEPT ![r] = "slow"] \/ route' = [route EXCEPT ![r] = "fast"]
      BY <1>4 DEF Start
    <3> QED
      BY <3>1 DEF TypeOK
  <2>5. UNCHANGED <<config, sensitive, sent, finished, closed>>
    BY <1>4 DEF Start
  <2> QED
    BY <2>2, <2>3, <2>4, <2>5 DEF TypeOK
<1>5. ASSUME NEW r \in Requests, RunView(r)
      PROVE  TypeOK'
  <2>1. NoJob \/ SubmitSensitive(r, "view")
    BY <1>5 DEF RunView
  <2>2. line' \in Seq(Job) /\ others' \subseteq Job
    BY <2>1, SubmitType
  <2> QED
    BY <1>5, <2>2 DEF RunView, TypeOK
<1>6. ASSUME NEW r \in Requests, ViewReturns(r)
      PROVE  TypeOK'
  BY <1>6, RespondOrLogType DEF ViewReturns, TypeOK
<1>7. ASSUME NEW r \in Requests, ViewRaises(r)
      PROVE  TypeOK'
  <2>1. NoJob \/ SubmitOther(r, "error")
    BY <1>7 DEF ViewRaises
  <2>2. line' \in Seq(Job) /\ others' \subseteq Job
    BY <2>1, SubmitType
  <2> QED
    BY <1>7, <2>2 DEF ViewRaises, TypeOK
<1>8. ASSUME NEW r \in Requests, ExceptionHandled(r)
      PROVE  TypeOK'
  <2>1. CASE RespondOrLog(r)
    BY <1>8, <2>1, RespondOrLogType DEF ExceptionHandled, TypeOK
  <2>2. CASE ~RespondOrLog(r)
    BY <1>8, <2>2 DEF ExceptionHandled, NoJob, TypeOK
  <2> QED
    BY <2>1, <2>2
<1>9. ASSUME NEW r \in Requests, Logged(r)
      PROVE  TypeOK'
  BY <1>9, RespondType DEF Logged, TypeOK
<1>10. ASSUME NEW r \in Requests, TornDown(r)
       PROVE  TypeOK'
  <2>1. pc' \in [Requests -> {"idle", "starting", "ready", "viewing", "rendering",
                 "handling", "logging", "closing", "answered", "raised", "cancelled"}]
    BY <1>10 DEF TornDown, TypeOK
  <2>2. closed \in [Requests -> Nat]
    BY DEF TypeOK
  <2>3. closed' \in [Requests -> Nat]
    BY <1>10, <2>2, CountUp DEF TornDown
  <2>4. finished' \in [Requests -> BOOLEAN]
    BY <1>10 DEF TornDown, TypeOK
  <2> QED
    BY <1>10, <2>1, <2>3, <2>4 DEF TornDown, TypeOK
<1>11. ASSUME NEW r \in Requests, Cancel(r)
       PROVE  TypeOK'
  <2>1. line \in Seq(Job)
    BY DEF TypeOK
  <2>2. line' \in Seq(Job)
    BY <1>11, <2>1, RemoveIndexes DEF Cancel
  <2> QED
    BY <1>11, <2>2 DEF Cancel, TypeOK
<1>12. CASE UNCHANGED vars
  BY <1>12 DEF vars, TypeOK
<1>13. ASSUME NEW r \in Requests, StartRaises(r)
       PROVE  TypeOK'
  BY <1>13 DEF StartRaises, NoJob, TypeOK
<1>14. ASSUME NEW r \in Requests, Render(r)
       PROVE  TypeOK'
  <2>1. NoJob \/ SubmitSensitive(r, "render")
    BY <1>14 DEF Render
  <2>2. line' \in Seq(Job) /\ others' \subseteq Job
    BY <2>1, SubmitType
  <2> QED
    BY <1>14, <2>2 DEF Render, TypeOK
<1> QED
  BY <1>1, <1>2, <1>3, <1>4, <1>5, <1>6, <1>7, <1>8, <1>9, <1>10, <1>11, <1>12, <1>13, <1>14
  DEF Next, Threads, Progress

-----------------------------------------------------------------------------
(* The jobs.                                                               *)

JobsInv == KindsOfThreads /\ JobsAwaited /\ OneJobEach

\* A request that waits for nothing has no job.
LEMMA NothingPending ==
    ASSUME JobsInv, NEW r \in Requests, pc[r] \in {"idle", "ready"}
    PROVE  Resumable(r)
  BY DEF JobsInv, JobsAwaited, Awaits, Resumable

\* A request without a job goes on and asks for none.
LEMMA GoesOn ==
    ASSUME TypeOK, JobsInv, NEW r \in Requests, NEW p, Resumable(r),
           pc' = [pc EXCEPT ![r] = p], NoJob, sensitive' = sensitive
    PROVE  JobsInv'
<1>1. KindsOfThreads' /\ OneJobEach'
  BY DEF JobsInv, KindsOfThreads, OneJobEach, RunningJobs, NoJob, UsesConnections
<1>2. \A q \in Requests : q # r => pc'[q] = pc[q]
  BY DEF TypeOK
<1>3. /\ \A i \in 1..Len(line) : line[i].req # r /\ line[i].req \in Requests
      /\ \A j \in RunningJobs : j.req # r /\ j.req \in Requests
  <2>1. /\ \A i \in 1..Len(line) : line[i] \in Job
        /\ \A j \in RunningJobs : j \in Job
    BY ElementOfSeq DEF TypeOK, RunningJobs
  <2> QED
    BY <2>1 DEF Resumable, Job
<1>4. JobsAwaited'
  BY <1>2, <1>3 DEF JobsInv, JobsAwaited, RunningJobs, NoJob
<1> QED
  BY <1>1, <1>4 DEF JobsInv

\* A request without a job goes on and waits for one on the thread.
LEMMA WaitsForThread ==
    ASSUME TypeOK, JobsInv, NEW r \in Requests, Resumable(r),
           NEW kind \in {"start", "view", "render", "close"}, NEW p, Awaits(p, kind),
           pc' = [pc EXCEPT ![r] = p], SubmitSensitive(r, kind),
           sensitive' = sensitive
    PROVE  JobsInv'
<1> DEFINE job == [req |-> r, kind |-> kind]
<1>1. line \in Seq(Job) /\ job \in Job /\ Len(line) \in Nat
  BY LenProperties DEF TypeOK, Job
<1>2. /\ Len(line') = Len(line) + 1
      /\ \A i \in 1..Len(line') : line'[i] = IF i = Len(line) + 1 THEN job ELSE line[i]
  BY <1>1, AppendIndexes DEF SubmitSensitive
<1>3. others' = others /\ RunningJobs' = RunningJobs
  BY DEF SubmitSensitive, RunningJobs
<1>4. job.req = r /\ job.kind = kind
  OBVIOUS
<1>5. /\ \A i \in 1..Len(line) : line[i].req # r /\ line[i].req \in Requests
      /\ \A j \in RunningJobs : j.req # r /\ j.req \in Requests
  <2>1. /\ \A i \in 1..Len(line) : line[i] \in Job
        /\ \A j \in RunningJobs : j \in Job
    BY ElementOfSeq DEF TypeOK, RunningJobs
  <2> QED
    BY <2>1 DEF Resumable, Job
<1>6. pc'[r] = p /\ \A q \in Requests : q # r => pc'[q] = pc[q]
  BY DEF TypeOK
<1>7. \A i \in 1..Len(line') : i # Len(line) + 1 => i \in 1..Len(line)
  BY <1>1, <1>2
<1> HIDE DEF job
<1>8. KindsOfThreads'
  BY <1>2, <1>3, <1>4, <1>7 DEF JobsInv, KindsOfThreads, UsesConnections
<1>9. JobsAwaited'
  <2>1. ASSUME NEW i \in 1..Len(line')
        PROVE  Awaits(pc'[line'[i].req], line'[i].kind)
    BY <1>2, <1>4, <1>5, <1>6, <1>7 DEF JobsInv, JobsAwaited
  <2>2. ASSUME NEW j \in RunningJobs
        PROVE  Awaits(pc'[j.req], j.kind) \/ pc'[j.req] = "cancelled"
    BY <1>5, <1>6 DEF JobsInv, JobsAwaited
  <2> QED
    BY <1>3, <2>1, <2>2 DEF JobsAwaited
<1>10. OneJobEach'
  BY <1>2, <1>3, <1>4, <1>5, <1>7 DEF JobsInv, OneJobEach
<1> QED
  BY <1>8, <1>9, <1>10 DEF JobsInv

\* A request without a job goes on and waits for one on another thread.
LEMMA WaitsForOther ==
    ASSUME TypeOK, JobsInv, NEW r \in Requests, Resumable(r),
           NEW kind \in {"error", "log"}, NEW p, Awaits(p, kind),
           pc' = [pc EXCEPT ![r] = p], SubmitOther(r, kind),
           sensitive' = sensitive
    PROVE  JobsInv'
<1> DEFINE job == [req |-> r, kind |-> kind]
<1>1. line' = line /\ others' = others \cup {job} /\ RunningJobs' = RunningJobs \cup {job}
  BY DEF SubmitOther, RunningJobs
<1>2. job.req = r /\ job.kind = kind
  OBVIOUS
<1>3. /\ \A i \in 1..Len(line) : line[i].req # r /\ line[i].req \in Requests
      /\ \A j \in RunningJobs : j.req # r /\ j.req \in Requests
  <2>1. /\ \A i \in 1..Len(line) : line[i] \in Job
        /\ \A j \in RunningJobs : j \in Job
    BY ElementOfSeq DEF TypeOK, RunningJobs
  <2> QED
    BY <2>1 DEF Resumable, Job
<1>4. pc'[r] = p /\ \A q \in Requests : q # r => pc'[q] = pc[q]
  BY DEF TypeOK
<1> HIDE DEF job
<1>5. KindsOfThreads'
  BY <1>1, <1>2 DEF JobsInv, KindsOfThreads, UsesConnections
<1>6. JobsAwaited'
  <2>1. ASSUME NEW i \in 1..Len(line)
        PROVE  Awaits(pc'[line[i].req], line[i].kind)
    BY <1>3, <1>4 DEF JobsInv, JobsAwaited
  <2>2. ASSUME NEW j \in RunningJobs \cup {job}
        PROVE  Awaits(pc'[j.req], j.kind) \/ pc'[j.req] = "cancelled"
    BY <1>2, <1>3, <1>4 DEF JobsInv, JobsAwaited
  <2> QED
    BY <1>1, <2>1, <2>2 DEF JobsAwaited
<1>7. OneJobEach'
  BY <1>1, <1>2, <1>3 DEF JobsInv, OneJobEach
<1> QED
  BY <1>5, <1>6, <1>7 DEF JobsInv

\* At the start nothing is queued and nobody is handed anything.
LEMMA JobsInit == Init => JobsInv
  BY DEF Init, JobsInv, KindsOfThreads, JobsAwaited, OneJobEach, RunningJobs

\* Queued and held requests stay awaited ones, each at most once.
LEMMA JobsStep == TypeOK /\ JobsInv /\ [Next]_vars => JobsInv'
<1> SUFFICES ASSUME TypeOK, JobsInv, [Next]_vars
             PROVE  JobsInv'
  OBVIOUS
<1>0. /\ line \in Seq(Job) /\ Len(line) \in Nat
      /\ \A i \in 1..Len(line) : line[i] \in Job /\ line[i].req \in Requests
      /\ \A j \in RunningJobs : j \in Job /\ j.req \in Requests
  <2>1. line \in Seq(Job) /\ \A j \in RunningJobs : j \in Job
    BY DEF TypeOK, RunningJobs
  <2>2. Len(line) \in Nat /\ \A i \in 1..Len(line) : line[i] \in Job
    BY <2>1, LenProperties, ElementOfSeq
  <2>3. \A j \in Job : j.req \in Requests
    BY DEF Job
  <2> QED
    BY <2>1, <2>2, <2>3
<1>1. CASE ThreadTakes
  <2>1. /\ 1 \in 1..Len(line) /\ Head(line) = line[1]
        /\ Len(line') = Len(line) - 1
        /\ \A i \in 1..Len(line') : i + 1 \in 1..Len(line) /\ line'[i] = line[i + 1]
    BY <1>0, <1>1, TailIndexes DEF ThreadTakes
  <2>2. sensitive' = {line[1]} /\ sensitive = {} /\ RunningJobs' = RunningJobs \cup {line[1]}
    BY <1>1, <2>1 DEF ThreadTakes, RunningJobs
  <2>3. others' = others /\ pc' = pc
    BY <1>1 DEF ThreadTakes
  <2>4. \A i \in 1..Len(line') : i + 1 # 1
    BY <1>0, <2>1
  <2>5. KindsOfThreads'
    BY <2>1, <2>2, <2>3 DEF JobsInv, KindsOfThreads, UsesConnections
  <2>6. JobsAwaited'
    BY <2>1, <2>2, <2>3 DEF JobsInv, JobsAwaited
  <2>7. OneJobEach'
    <3>1. ASSUME NEW i \in 1..Len(line'), NEW k \in 1..Len(line'),
                 line'[i].req = line'[k].req
          PROVE  i = k
      <4>1. i + 1 \in 1..Len(line) /\ k + 1 \in 1..Len(line)
            /\ line[i + 1].req = line[k + 1].req
        BY <2>1, <3>1
      <4>2. \A x, y \in 1..Len(line) : line[x].req = line[y].req => x = y
        BY DEF JobsInv, OneJobEach
      <4> HIDE DEF JobsInv
      <4>3. i + 1 = k + 1
        BY <4>1, <4>2
      <4> QED
        BY <4>3
    <3>2. ASSUME NEW i \in 1..Len(line'), NEW j \in RunningJobs'
          PROVE  line'[i].req # j.req
      BY <2>1, <2>2, <2>4 DEF JobsInv, OneJobEach
    <3>3. ASSUME NEW j \in RunningJobs', NEW k \in RunningJobs', j.req = k.req
          PROVE  j = k
      BY <2>1, <2>2, <3>3 DEF JobsInv, OneJobEach
    <3> QED
      BY <3>1, <3>2, <3>3 DEF OneJobEach
  <2> QED
    BY <2>5, <2>6, <2>7 DEF JobsInv
<1>2. CASE ThreadEnds
  <2>1. /\ sensitive' = {} /\ line' = line /\ others' = others /\ pc' = pc
        /\ RunningJobs' \subseteq RunningJobs
    BY <1>2 DEF ThreadEnds, RunningJobs
  <2> QED
    BY <2>1 DEF JobsInv, KindsOfThreads, JobsAwaited, OneJobEach
<1>3. ASSUME NEW j \in others, OtherEnds(j)
      PROVE  JobsInv'
  <2>1. /\ sensitive' = sensitive /\ line' = line /\ others' \subseteq others /\ pc' = pc
        /\ RunningJobs' \subseteq RunningJobs
    BY <1>3 DEF OtherEnds, RunningJobs
  <2> QED
    BY <2>1 DEF JobsInv, KindsOfThreads, JobsAwaited, OneJobEach
<1>4. ASSUME NEW r \in Requests, Start(r)
      PROVE  JobsInv'
  <2>1. Resumable(r)
    BY <1>4, NothingPending DEF Start
  <2>2. CASE config.pool
    BY <1>4, <2>1, <2>2, GoesOn DEF Start
  <2>3. CASE ~config.pool
    <3>1. Awaits("starting", "start")
      BY DEF Awaits
    <3> QED
      BY <1>4, <2>1, <2>3, <3>1, WaitsForThread DEF Start
  <2> QED
    BY <2>2, <2>3
<1>5. ASSUME NEW r \in Requests, RunView(r)
      PROVE  JobsInv'
  <2>1. Resumable(r)
    BY <1>5, NothingPending DEF RunView
  <2>2. Awaits("viewing", "view")
    BY DEF Awaits
  <2> QED
    BY <1>5, <2>1, <2>2, GoesOn, WaitsForThread DEF RunView
<1>6. ASSUME NEW r \in Requests, Resumable(r), Respond(r), sensitive' = sensitive
      PROVE  JobsInv'
  <2>1. Awaits("closing", "close")
    BY DEF Awaits
  <2> QED
    BY <1>6, <2>1, GoesOn, WaitsForThread DEF Respond, Teardown, SerializeRaises
<1>7. /\ Awaits("logging", "log") /\ Awaits("handling", "error")
      /\ Awaits("rendering", "render")
  BY DEF Awaits
<1>8. ASSUME NEW r \in Requests, Resumable(r), RespondOrLog(r), sensitive' = sensitive
       PROVE  JobsInv'
  BY <1>6, <1>7, <1>8, WaitsForOther DEF RespondOrLog
<1>9. ASSUME NEW r \in Requests, ViewReturns(r)
      PROVE  JobsInv'
  BY <1>9, <1>8 DEF ViewReturns
<1>10. ASSUME NEW r \in Requests, ViewRaises(r)
      PROVE  JobsInv'
  BY <1>7, <1>10, GoesOn, WaitsForOther DEF ViewRaises
<1>11. ASSUME NEW r \in Requests, ExceptionHandled(r)
       PROVE  JobsInv'
  BY <1>11, <1>8, GoesOn DEF ExceptionHandled
<1>12. ASSUME NEW r \in Requests, StartRaises(r)
       PROVE  JobsInv'
  BY <1>12, GoesOn DEF StartRaises
<1>13. ASSUME NEW r \in Requests, Render(r)
       PROVE  JobsInv'
  BY <1>7, <1>13, GoesOn, WaitsForThread DEF Render
<1>14. ASSUME NEW r \in Requests, Logged(r)
       PROVE  JobsInv'
  BY <1>6, <1>14 DEF Logged
<1>15. ASSUME NEW r \in Requests, TornDown(r)
       PROVE  JobsInv'
  BY <1>15, GoesOn DEF TornDown, NoJob
<1>16. ASSUME NEW r \in Requests, Cancel(r)
       PROVE  JobsInv'
  <2>1. /\ sensitive' = sensitive /\ others' = others /\ RunningJobs' = RunningJobs
        /\ pc'[r] = "cancelled" /\ \A q \in Requests : q # r => pc'[q] = pc[q]
    BY <1>16 DEF Cancel, RunningJobs, TypeOK
  <2>2. CASE \A i \in 1..Len(line) : line[i].req # r
    <3>1. line' = line
      BY <1>16, <2>2 DEF Cancel
    <3> QED
      BY <1>0, <2>1, <2>2, <3>1
      DEF JobsInv, KindsOfThreads, JobsAwaited, OneJobEach
  <2>3. ASSUME NEW n \in 1..Len(line), line[n].req = r, line' = RemoveAt(line, n)
        PROVE  JobsInv'
    <3> DEFINE from(i) == IF i < n THEN i ELSE i + 1
    <3>1. /\ Len(line') = Len(line) - 1
          /\ \A i \in 1..Len(line') : line'[i] = line[from(i)]
      BY <1>0, <2>3, RemoveIndexes
    <3>2. /\ \A i \in 1..Len(line') : from(i) \in 1..Len(line) /\ from(i) # n
          /\ \A i, k \in 1..Len(line') : from(i) = from(k) => i = k
      BY <1>0, <3>1
    <3> HIDE DEF from
    <3>3. \A i \in 1..Len(line') : line'[i].req # r
      BY <2>3, <3>1, <3>2 DEF JobsInv, OneJobEach
    <3>4. KindsOfThreads'
      BY <2>1, <3>1, <3>2 DEF JobsInv, KindsOfThreads
    <3>5. JobsAwaited'
      BY <1>0, <2>1, <3>1, <3>2, <3>3 DEF JobsInv, JobsAwaited
    <3>6. OneJobEach'
      <4>1. ASSUME NEW i \in 1..Len(line'), NEW k \in 1..Len(line'),
                   line'[i].req = line'[k].req
            PROVE  i = k
        BY <3>1, <3>2, <4>1 DEF JobsInv, OneJobEach
      <4>2. ASSUME NEW i \in 1..Len(line'), NEW j \in RunningJobs
            PROVE  line'[i].req # j.req
        BY <3>1, <3>2 DEF JobsInv, OneJobEach
      <4> QED
        BY <2>1, <4>1, <4>2 DEF JobsInv, OneJobEach
    <3> QED
      BY <3>4, <3>5, <3>6 DEF JobsInv
  <2> QED
    BY <1>16, <2>2, <2>3 DEF Cancel
<1>17. CASE UNCHANGED vars
  BY <1>17 DEF vars, JobsInv, KindsOfThreads, JobsAwaited, OneJobEach, RunningJobs
<1> QED
  BY <1>1, <1>2, <1>3, <1>4, <1>5, <1>9, <1>10, <1>11, <1>14, <1>15, <1>16, <1>17, <1>12, <1>13
  DEF Next, Threads, Progress

-----------------------------------------------------------------------------
(* What is pending, from step to step.                                     *)

\* sync_to_async adds a job, or sends it elsewhere.
LEMMA PendingAfterSubmit ==
    ASSUME TypeOK, NEW r \in Requests,
           NEW kind \in {"start", "view", "render", "close", "error", "log"},
           sensitive' = sensitive
    PROVE  /\ NoJob \/ SubmitOther(r, kind) =>
                \A q, k : Pending(q, k)' <=> Pending(q, k)
           /\ SubmitSensitive(r, kind) =>
                \A q, k : Pending(q, k)' <=> (Pending(q, k) \/ (q = r /\ k = kind))
<1>1. CASE NoJob \/ SubmitOther(r, kind)
  <2>1. line' = line
    BY <1>1 DEF NoJob, SubmitOther
  <2>2. ~SubmitSensitive(r, kind)
    <3>1. Len(Append(line, [req |-> r, kind |-> kind])) = Len(line) + 1 /\ Len(line) \in Nat
      <4>1. line \in Seq(Job) /\ [req |-> r, kind |-> kind] \in Job
        BY DEF TypeOK, Job
      <4> QED
        BY <4>1, AppendIndexes, LenProperties
    <3> QED
      BY <2>1, <3>1 DEF SubmitSensitive
  <2> QED
    BY <2>1, <2>2 DEF Pending
<1>2. CASE SubmitSensitive(r, kind)
  <2> DEFINE job == [req |-> r, kind |-> kind]
  <2>1. line \in Seq(Job) /\ job \in Job /\ Len(line) \in Nat
    BY LenProperties DEF TypeOK, Job
  <2>2. /\ Len(line') = Len(line) + 1
        /\ \A i \in 1..Len(line') : line'[i] = IF i = Len(line) + 1 THEN job ELSE line[i]
    BY <1>2, <2>1, AppendIndexes DEF SubmitSensitive
  <2>3. \A q, k : job = [req |-> q, kind |-> k] <=> q = r /\ k = kind
    OBVIOUS
  <2> HIDE DEF job
  <2>4. /\ Len(line) + 1 \in 1..Len(line')
        /\ \A i \in 1..Len(line') : i # Len(line) + 1 => i \in 1..Len(line)
        /\ \A i \in 1..Len(line) : i \in 1..Len(line') /\ i # Len(line) + 1
    BY <2>1, <2>2
  <2>5. \A q, k : Pending(q, k)' <=> (Pending(q, k) \/ (q = r /\ k = kind))
    BY <2>2, <2>3, <2>4 DEF Pending
  <2>6. ~(NoJob \/ SubmitOther(r, kind))
    <3>1. line' # line
      BY <2>1, <2>2
    <3> QED
      BY <3>1 DEF NoJob, SubmitOther
  <2> QED
    BY <2>5, <2>6
<1> QED
  BY <1>1, <1>2

\* A job stays pending when the thread takes it.
LEMMA PendingAfterTake ==
    ASSUME TypeOK, ThreadTakes
    PROVE  \A q, k : Pending(q, k)' <=> Pending(q, k)
<1>1. /\ line \in Seq(Job) /\ Len(line) \in Nat
  BY LenProperties DEF TypeOK
<1>2. /\ 1 \in 1..Len(line) /\ Head(line) = line[1]
      /\ Len(line') = Len(line) - 1
      /\ \A i \in 1..Len(line') : i + 1 \in 1..Len(line) /\ line'[i] = line[i + 1]
  BY <1>1, TailIndexes DEF ThreadTakes
<1>3. sensitive' = {line[1]} /\ sensitive = {}
  BY <1>2 DEF ThreadTakes
<1>4. ASSUME NEW i \in 1..Len(line), i # 1
      PROVE  i - 1 \in 1..Len(line') /\ line[i] = line'[i - 1]
  <2>1. i - 1 \in 1..Len(line') /\ (i - 1) + 1 = i
    BY <1>1, <1>2, <1>4
  <2> QED
    BY <1>2, <2>1
<1>5. ASSUME NEW q, NEW k
      PROVE  Pending(q, k)' <=> Pending(q, k)
  <2>1. Pending(q, k)' => Pending(q, k)
    BY <1>2, <1>3 DEF Pending
  <2>2. Pending(q, k) => Pending(q, k)'
    BY <1>3, <1>4 DEF Pending
  <2> QED
    BY <2>1, <2>2
<1> QED
  BY <1>5

\* The job that the thread ends was the only one of its request.
LEMMA PendingAfterEnd ==
    ASSUME TypeOK, JobsInv, NEW job \in sensitive, sensitive' = {}, line' = line
    PROVE  /\ job \in Job /\ job.req \in Requests
           /\ Pending(job.req, job.kind) /\ \A k : ~Pending(job.req, k)'
           /\ \A q, k : q # job.req => (Pending(q, k)' <=> Pending(q, k))
<1>1. job \in Job /\ job.req \in Requests /\ job = [req |-> job.req, kind |-> job.kind]
  BY DEF TypeOK, Job
<1>2. Pending(job.req, job.kind)
  BY <1>1 DEF Pending
<1>3. ASSUME NEW k
      PROVE  ~Pending(job.req, k)'
  <2>1. \A i \in 1..Len(line) : line[i].req # job.req
    BY DEF JobsInv, OneJobEach, RunningJobs
  <2> QED
    BY <2>1 DEF Pending
<1>4. sensitive = {job}
  BY DEF JobsInv, KindsOfThreads
<1>5. ASSUME NEW q, NEW k, q # job.req
      PROVE  Pending(q, k)' <=> Pending(q, k)
  <2>1. [req |-> q, kind |-> k] # job
    BY <1>5
  <2> QED
    BY <1>4, <2>1 DEF Pending
<1> QED
  BY <1>1, <1>2, <1>3, <1>5

\* A cancellation withdraws jobs of its own request only, and adds none.
LEMMA PendingAfterCancel ==
    ASSUME TypeOK, NEW r \in Requests, Cancel(r)
    PROVE  /\ \A q, k : Pending(q, k)' => Pending(q, k)
           /\ \A q, k : q # r /\ Pending(q, k) => Pending(q, k)'
<1>1. /\ line \in Seq(Job) /\ Len(line) \in Nat /\ sensitive' = sensitive
  BY LenProperties DEF TypeOK, Cancel
<1>2. CASE line' = line
  BY <1>1, <1>2 DEF Pending
<1>3. ASSUME NEW n \in 1..Len(line), line[n].req = r, line' = RemoveAt(line, n)
      PROVE  /\ \A q, k : Pending(q, k)' => Pending(q, k)
             /\ \A q, k : q # r /\ Pending(q, k) => Pending(q, k)'
  <2> DEFINE from(i) == IF i < n THEN i ELSE i + 1
             to(i) == IF i < n THEN i ELSE i - 1
  <2>1. /\ Len(line') = Len(line) - 1
        /\ \A i \in 1..Len(line') : line'[i] = line[from(i)]
    BY <1>1, <1>3, RemoveIndexes
  <2>2. /\ \A i \in 1..Len(line') : from(i) \in 1..Len(line)
        /\ \A i \in 1..Len(line) : i # n => to(i) \in 1..Len(line') /\ from(to(i)) = i
    BY <1>1, <2>1
  <2> HIDE DEF from, to
  <2>3. \A i \in 1..Len(line) : i # n => line[i] = line'[to(i)]
    BY <2>1, <2>2
  <2>4. \A q, k : line[n] = [req |-> q, kind |-> k] => q = r
    BY <1>3
  <2>5. ASSUME NEW q, NEW k, Pending(q, k)'
        PROVE  Pending(q, k)
    <3>1. CASE [req |-> q, kind |-> k] \in sensitive'
      BY <1>1, <3>1 DEF Pending
    <3>2. CASE \E i \in 1..Len(line') : line'[i] = [req |-> q, kind |-> k]
      BY <2>1, <2>2, <3>2 DEF Pending
    <3> QED
      BY <2>5, <3>1, <3>2 DEF Pending
  <2>6. ASSUME NEW q, NEW k, q # r, Pending(q, k)
        PROVE  Pending(q, k)'
    <3>1. CASE [req |-> q, kind |-> k] \in sensitive
      BY <1>1, <3>1 DEF Pending
    <3>2. CASE \E i \in 1..Len(line) : line[i] = [req |-> q, kind |-> k]
      <4>1. PICK i \in 1..Len(line) : line[i] = [req |-> q, kind |-> k]
        BY <3>2
      <4>2. i # n
        BY <2>4, <2>6, <4>1
      <4> QED
        BY <2>2, <2>3, <4>1, <4>2 DEF Pending
    <3> QED
      BY <2>6, <3>1, <3>2 DEF Pending
  <2> QED
    BY <2>5, <2>6
<1> QED
  BY <1>2, <1>3 DEF Cancel

\* A request without a job has none pending.
LEMMA NothingPendingFor ==
    ASSUME NEW r, Resumable(r), NEW k
    PROVE  ~Pending(r, k)
  BY DEF Resumable, Pending, RunningJobs

-----------------------------------------------------------------------------
(* request_started.                                                        *)

\* What a step does not touch stays as it is.
LEMMA SignalKept ==
    ASSUME NEW q, SignalOf(q), config' = config, pc'[q] = pc[q],
           sent'[q] = sent[q], finished'[q] = finished[q],
           \A k : Pending(q, k)' <=> Pending(q, k)
    PROVE  SignalOf(q)'
<1>1. Pending(q, "start")' <=> Pending(q, "start")
  OBVIOUS
<1>2. Pending(q, "close")' <=> Pending(q, "close")
  OBVIOUS
<1> QED
  BY <1>1, <1>2 DEF SignalOf

\* At the start no receiver has run.
LEMMA SignalInit == Init => SignalState
<1> SUFFICES ASSUME Init, NEW r \in Requests
             PROVE  SignalOf(r)
  BY DEF SignalState
<1>1. ~Pending(r, "start") /\ ~Pending(r, "close")
  BY DEF Init, Pending
<1> QED
  BY <1>1 DEF Init, SignalOf, Serving

\* A request that waits for no job has got past request_started, and goes on
\* to where it may ask for anything but that.
LEMMA SignalGoesOn ==
    ASSUME TypeOK, SignalState, NEW r \in Requests, Resumable(r), pc[r] # "idle",
           NEW p \in Serving \cup {"closing", "raised"},
           pc[r] \in {"ready", "starting"} \cup Serving,
           pc' = [pc EXCEPT ![r] = p],
           NEW kind \in {"view", "render", "close", "error", "log"},
           NoJob \/ SubmitSensitive(r, kind) \/ SubmitOther(r, kind),
           UNCHANGED <<config, sensitive, sent, finished>>
    PROVE  SignalState'
<1>1. /\ \A q, k : q # r => (Pending(q, k)' <=> Pending(q, k))
      /\ Pending(r, "start")' <=> Pending(r, "start")
  BY PendingAfterSubmit
<1>2. pc'[r] = p /\ \A q \in Requests : q # r => pc'[q] = pc[q]
  BY DEF TypeOK
<1>3. ~Pending(r, "start")
  BY NothingPendingFor
<1>4. SignalOf(r)
  BY DEF SignalState
<1>5. ~config.pool => sent[r]
  BY <1>3, <1>4 DEF SignalOf
<1>6. SignalOf(r)'
  BY <1>1, <1>2, <1>3, <1>4, <1>5 DEF SignalOf, Serving
<1>7. ASSUME NEW q \in Requests, q # r
      PROVE  SignalOf(q)'
  <2>1. \A k : Pending(q, k)' <=> Pending(q, k)
    BY <1>1, <1>7
  <2> QED
    BY <1>2, <1>7, <2>1, SignalKept DEF SignalState
<1> QED
  BY <1>6, <1>7 DEF SignalState

\* The response is on its way: torn down, skipped or logged first.
LEMMA SignalResponds ==
    ASSUME TypeOK, SignalState, NEW r \in Requests, Resumable(r), RespondOrLog(r),
           pc[r] \in Serving, UNCHANGED <<config, sensitive, sent, finished>>
    PROVE  SignalState'
<1>1. pc[r] # "idle" /\ pc[r] \in {"ready", "starting"} \cup Serving
  BY DEF Serving
<1>2. /\ "closing" \in Serving \cup {"closing", "raised"}
      /\ "raised" \in Serving \cup {"closing", "raised"}
      /\ "logging" \in Serving \cup {"closing", "raised"}
  BY DEF Serving
<1>3. CASE Teardown(r)
  BY <1>1, <1>2, <1>3, SignalGoesOn DEF Teardown
<1>4. CASE SerializeRaises(r)
  <2>1. NoJob \/ SubmitSensitive(r, "close") \/ SubmitOther(r, "close")
    BY <1>4 DEF SerializeRaises
  <2> QED
    BY <1>1, <1>2, <1>4, <2>1, SignalGoesOn DEF SerializeRaises
<1>5. CASE ~Respond(r)
  BY <1>1, <1>2, <1>5, SignalGoesOn DEF RespondOrLog
<1> QED
  BY <1>3, <1>4, <1>5 DEF Respond

\* No step goes past request_started before its receivers have run.
LEMMA SignalStep ==
    TypeOK /\ JobsInv /\ SignalState /\ [Next]_vars => SignalState'
<1> SUFFICES ASSUME TypeOK, JobsInv, SignalState, [Next]_vars
             PROVE  SignalState'
  OBVIOUS
<1>0. /\ sent \in [Requests -> BOOLEAN] /\ finished \in [Requests -> BOOLEAN]
      /\ \A q \in Requests : SignalOf(q)
  BY DEF TypeOK, SignalState
<1>1. CASE ThreadTakes
  <2>1. ASSUME NEW q \in Requests
        PROVE  SignalOf(q)'
    BY <1>0, <1>1, PendingAfterTake, SignalKept DEF ThreadTakes
  <2> QED
    BY <2>1 DEF SignalState
<1>2. CASE ThreadEnds
  <2>1. PICK job \in sensitive : RunJob(job)
    BY <1>2 DEF ThreadEnds
  <2>2. sensitive' = {} /\ line' = line /\ pc' = pc /\ config' = config
    BY <1>2 DEF ThreadEnds
  <2>3. /\ job \in Job /\ job.req \in Requests
        /\ Pending(job.req, job.kind) /\ \A k : ~Pending(job.req, k)'
        /\ \A q, k : q # job.req => (Pending(q, k)' <=> Pending(q, k))
    BY <2>2, PendingAfterEnd
  <2>4. ASSUME NEW q \in Requests, q # job.req
        PROVE  SignalOf(q)'
    <3>1. \A k : Pending(q, k)' <=> Pending(q, k)
      BY <2>3, <2>4
    <3>2. sent'[q] = sent[q] /\ finished'[q] = finished[q]
      BY <1>0, <2>1, <2>4 DEF RunJob
    <3> QED
      BY <1>0, <2>2, <3>1, <3>2, SignalKept
  <2>5. SignalOf(job.req)'
    <3>1. SignalOf(job.req) /\ ~Pending(job.req, "start")' /\ ~Pending(job.req, "close")'
      BY <1>0, <2>3
    <3>2. pc[job.req] = "starting" => job.kind = "start"
      BY DEF JobsInv, JobsAwaited, RunningJobs, Awaits
    <3>3. CASE job.kind = "start"
      <4>1. sent'[job.req] = TRUE /\ finished'[job.req] = finished[job.req]
        BY <1>0, <2>1, <2>3, <3>3 DEF RunJob
      <4>2. ~config.pool
        BY <2>3, <3>1, <3>3 DEF SignalOf
      <4> QED
        BY <2>2, <3>1, <4>1, <4>2 DEF SignalOf
    <3>4. CASE job.kind # "start"
      <4>1. sent'[job.req] = sent[job.req]
        BY <2>1, <3>4 DEF RunJob
      <4>2. finished'[job.req] => sent[job.req]
        <5>1. CASE job.kind = "close" /\ ~config.pool
          BY <2>3, <3>1, <5>1 DEF SignalOf
        <5>2. CASE ~(job.kind = "close" /\ ~config.pool)
          BY <2>1, <3>1, <3>4, <5>2 DEF RunJob, SignalOf
        <5> QED
          BY <5>1, <5>2
      <4> QED
        BY <2>2, <3>1, <3>2, <3>4, <4>1, <4>2 DEF SignalOf
    <3> QED
      BY <3>3, <3>4
  <2> QED
    BY <2>4, <2>5 DEF SignalState
<1>3. ASSUME NEW j \in others, OtherEnds(j)
      PROVE  SignalState'
  <2>1. ASSUME NEW q \in Requests
        PROVE  SignalOf(q)'
    <3>1. \A k : Pending(q, k)' <=> Pending(q, k)
      BY <1>3 DEF OtherEnds, Pending
    <3> QED
      BY <1>0, <1>3, <3>1, SignalKept DEF OtherEnds
  <2> QED
    BY <2>1 DEF SignalState
<1>4. ASSUME NEW r \in Requests, Start(r)
      PROVE  SignalState'
  <2>1. Resumable(r)
    BY <1>4, NothingPending DEF Start
  <2>2. ~Pending(r, "start") /\ ~Pending(r, "close")
    BY <2>1, NothingPendingFor
  <2>3. /\ pc'[r] = (IF config.pool THEN "ready" ELSE "starting")
        /\ \A q \in Requests : q # r => pc'[q] = pc[q]
        /\ config' = config /\ sent' = sent /\ finished' = finished
        /\ sensitive' = sensitive
    BY <1>4 DEF Start, TypeOK
  <2>4. /\ \A q, k : q # r => (Pending(q, k)' <=> Pending(q, k))
        /\ Pending(r, "start")' <=> ~config.pool
        /\ ~Pending(r, "close")'
    <3>1. CASE config.pool
      <4>1. NoJob
        BY <1>4, <3>1 DEF Start
      <4> QED
        BY <2>2, <2>3, <3>1, <4>1, PendingAfterSubmit
    <3>2. CASE ~config.pool
      <4>1. SubmitSensitive(r, "start")
        BY <1>4, <3>2 DEF Start
      <4> QED
        BY <2>2, <2>3, <3>2, <4>1, PendingAfterSubmit
    <3> QED
      BY <3>1, <3>2
  <2>5. SignalOf(r)'
    BY <1>0, <2>3, <2>4 DEF SignalOf, Serving
  <2>6. ASSUME NEW q \in Requests, q # r
        PROVE  SignalOf(q)'
    <3>1. \A k : Pending(q, k)' <=> Pending(q, k)
      BY <2>4, <2>6
    <3> QED
      BY <1>0, <2>3, <2>6, <3>1, SignalKept
  <2> QED
    BY <2>5, <2>6 DEF SignalState
<1>5. ASSUME NEW r \in Requests, StartRaises(r)
      PROVE  SignalState'
  <2>1. NoJob \/ SubmitSensitive(r, "view") \/ SubmitOther(r, "view")
    BY <1>5 DEF StartRaises
  <2> QED
    BY <1>5, <2>1, SignalGoesOn DEF StartRaises
<1>6. ASSUME NEW r \in Requests, RunView(r)
      PROVE  SignalState'
  <2>1. Resumable(r)
    BY <1>6, NothingPending DEF RunView
  <2>2. NoJob \/ SubmitSensitive(r, "view") \/ SubmitOther(r, "view")
    BY <1>6 DEF RunView
  <2>3. pc[r] \in {"ready", "starting"} \cup Serving
    BY <1>6 DEF RunView
  <2>4. "viewing" \in Serving \cup {"closing", "raised"}
    BY DEF Serving
  <2> QED
    BY <1>6, <2>1, <2>2, <2>3, <2>4, SignalGoesOn DEF RunView
<1>7. ASSUME NEW r \in Requests, Render(r)
      PROVE  SignalState'
  <2>1. NoJob \/ SubmitSensitive(r, "render") \/ SubmitOther(r, "render")
    BY <1>7 DEF Render
  <2>2. /\ pc[r] \in {"ready", "starting"} \cup Serving /\ pc[r] # "idle"
        /\ "rendering" \in Serving \cup {"closing", "raised"}
    BY <1>7 DEF Render, Serving
  <2> QED
    BY <1>7, <2>1, <2>2, SignalGoesOn DEF Render
<1>8. ASSUME NEW r \in Requests, ViewReturns(r)
      PROVE  SignalState'
  <2>1. pc[r] \in Serving
    BY <1>8 DEF ViewReturns, Serving
  <2> QED
    BY <1>8, <2>1, SignalResponds DEF ViewReturns
<1>9. ASSUME NEW r \in Requests, ViewRaises(r)
      PROVE  SignalState'
  <2>1. NoJob \/ SubmitSensitive(r, "error") \/ SubmitOther(r, "error")
    BY <1>9 DEF ViewRaises
  <2>2. pc[r] \in {"ready", "starting"} \cup Serving /\ pc[r] # "idle"
    BY <1>9 DEF ViewRaises, Serving
  <2>3. /\ "handling" \in Serving \cup {"closing", "raised"}
        /\ "raised" \in Serving \cup {"closing", "raised"}
    BY DEF Serving
  <2> QED
    BY <1>9, <2>1, <2>2, <2>3, SignalGoesOn DEF ViewRaises
<1>10. ASSUME NEW r \in Requests, ExceptionHandled(r)
       PROVE  SignalState'
  <2>1. pc[r] \in Serving /\ pc[r] # "idle"
    BY <1>10 DEF ExceptionHandled, Serving
  <2>2. CASE RespondOrLog(r)
    BY <1>10, <2>1, <2>2, SignalResponds DEF ExceptionHandled
  <2>3. CASE ~RespondOrLog(r)
    <3>1. NoJob /\ pc' = [pc EXCEPT ![r] = "raised"]
      BY <1>10, <2>3 DEF ExceptionHandled
    <3>2. NoJob \/ SubmitSensitive(r, "error") \/ SubmitOther(r, "error")
      BY <3>1
    <3> QED
      BY <1>10, <2>1, <3>1, <3>2, SignalGoesOn DEF ExceptionHandled
  <2> QED
    BY <2>2, <2>3
<1>11. ASSUME NEW r \in Requests, Logged(r)
       PROVE  SignalState'
  <2>1. pc[r] \in Serving
    BY <1>11 DEF Logged, Serving
  <2> QED
    BY <1>11, <2>1, SignalResponds DEF Logged, RespondOrLog
<1>12. ASSUME NEW r \in Requests, TornDown(r)
       PROVE  SignalState'
  <2>1. /\ pc'[r] \in {"answered", "raised"} /\ pc[r] = "closing"
        /\ \A q \in Requests : q # r => pc'[q] = pc[q]
        /\ config' = config /\ sent' = sent
    BY <1>12 DEF TornDown, TypeOK
  <2>2. \A q, k : Pending(q, k)' <=> Pending(q, k)
    BY <1>12 DEF TornDown, Pending
  <2>3. /\ \A q \in Requests : q # r => finished'[q] = finished[q]
        /\ config.pool => finished'[r] = finished[r]
    BY <1>0, <1>12 DEF TornDown
  <2>4. SignalOf(r) /\ (Pending(r, "start")' <=> Pending(r, "start"))
        /\ (Pending(r, "close")' <=> Pending(r, "close"))
    BY <1>0, <2>2
  <2>5. SignalOf(r)'
    BY <2>1, <2>3, <2>4 DEF SignalOf, Serving
  <2>6. ASSUME NEW q \in Requests, q # r
        PROVE  SignalOf(q)'
    BY <1>0, <2>1, <2>2, <2>3, <2>6, SignalKept
  <2> QED
    BY <2>5, <2>6 DEF SignalState
<1>13. ASSUME NEW r \in Requests, Cancel(r)
       PROVE  SignalState'
  <2>1. /\ pc'[r] = "cancelled" /\ \A q \in Requests : q # r => pc'[q] = pc[q]
        /\ config' = config /\ sent' = sent /\ finished' = finished
    BY <1>13 DEF Cancel, TypeOK
  <2>2. /\ \A q, k : Pending(q, k)' => Pending(q, k)
        /\ \A q, k : q # r /\ Pending(q, k) => Pending(q, k)'
    BY <1>13, PendingAfterCancel
  <2>3. SignalOf(r) /\ (Pending(r, "start")' => Pending(r, "start"))
        /\ (Pending(r, "close")' => Pending(r, "close"))
    BY <1>0, <2>2
  <2>4. SignalOf(r)'
    BY <2>1, <2>3 DEF SignalOf, Serving
  <2>5. ASSUME NEW q \in Requests, q # r
        PROVE  SignalOf(q)'
    <3>1. \A k : Pending(q, k)' <=> Pending(q, k)
      BY <2>2, <2>5
    <3> QED
      BY <1>0, <2>1, <2>5, <3>1, SignalKept
  <2> QED
    BY <2>4, <2>5 DEF SignalState
<1>14. CASE UNCHANGED vars
  <2>1. ASSUME NEW q \in Requests
        PROVE  SignalOf(q)'
    <3>1. \A k : Pending(q, k)' <=> Pending(q, k)
      BY <1>14 DEF vars, Pending
    <3> QED
      BY <1>0, <1>14, <3>1, SignalKept DEF vars
  <2> QED
    BY <2>1 DEF SignalState
<1> QED
  BY <1>1, <1>2, <1>3, <1>4, <1>5, <1>6, <1>7, <1>8, <1>9, <1>10, <1>11, <1>12, <1>13, <1>14
  DEF Next, Threads, Progress

-----------------------------------------------------------------------------
(* The teardown.                                                           *)

\* What a step does not touch stays as it is.
LEMMA TeardownKept ==
    ASSUME NEW q, TeardownOf(q), config' = config, pc'[q] = pc[q],
           finished'[q] = finished[q], closed'[q] = closed[q],
           Pending(q, "close")' <=> Pending(q, "close")
    PROVE  TeardownOf(q)'
  BY DEF TeardownOf, PoolTeardown, OwnTeardown

\* At the start no request has been torn down.
LEMMA TeardownInit == Init => TeardownState
<1> SUFFICES ASSUME Init, NEW r \in Requests
             PROVE  TeardownOf(r)
  BY DEF TeardownState
<1>1. ~Pending(r, "close")
  BY DEF Init, Pending
<1> QED
  BY <1>1 DEF Init, TeardownOf, PoolTeardown, OwnTeardown, BeforeTeardown

\* A step of r before its teardown: a job that is no teardown, or none.
LEMMA TeardownNotYet ==
    ASSUME TypeOK, TeardownState, NEW r \in Requests, Resumable(r),
           NEW p \in {"ready", "starting", "raised"} \cup Serving,
           pc' = [pc EXCEPT ![r] = p], pc[r] \in BeforeTeardown,
           NEW kind \in {"start", "view", "render", "error", "log"},
           NoJob \/ SubmitSensitive(r, kind) \/ SubmitOther(r, kind),
           UNCHANGED <<config, sensitive, finished, closed>>
    PROVE  TeardownState'
<1>1. \A q : Pending(q, "close")' <=> Pending(q, "close")
  BY PendingAfterSubmit
<1>2. pc'[r] = p /\ \A q \in Requests : q # r => pc'[q] = pc[q]
  BY DEF TypeOK
<1>3. ~Pending(r, "close") /\ TeardownOf(r)
  BY NothingPendingFor DEF TeardownState
<1>4. TeardownOf(r)'
  BY <1>1, <1>2, <1>3
  DEF TeardownOf, PoolTeardown, OwnTeardown, BeforeTeardown, Serving
<1> QED
  BY <1>1, <1>2, <1>4, TeardownKept DEF TeardownState

\* The teardown begins, or is skipped.
LEMMA TeardownBegins ==
    ASSUME TypeOK, TeardownState, NEW r \in Requests, Resumable(r), Respond(r),
           pc[r] \in Serving, UNCHANGED <<config, sensitive, finished>>
    PROVE  TeardownState'
<1>1. closed[r] = 0 /\ ~Pending(r, "close") /\ closed \in [Requests -> Nat]
  BY NothingPendingFor
  DEF TeardownState, TeardownOf, PoolTeardown, OwnTeardown, BeforeTeardown, TypeOK
<1>2. CASE SerializeRaises(r)
  <2>1. NoJob \/ SubmitSensitive(r, "start") \/ SubmitOther(r, "start")
    BY <1>2 DEF SerializeRaises
  <2>2. pc[r] \in BeforeTeardown
    BY DEF BeforeTeardown
  <2> QED
    BY <1>2, <2>1, <2>2, TeardownNotYet DEF SerializeRaises
<1>3. CASE Teardown(r)
  <2>1. /\ pc'[r] = "closing"
        /\ \A q \in Requests : q # r => pc'[q] = pc[q] /\ closed'[q] = closed[q]
    BY <1>3 DEF Teardown, TypeOK
  <2>2. closed'[r] = IF config.pool THEN 1 ELSE 0
    BY <1>1, <1>3 DEF Teardown
  <2>3. \A q : Pending(q, "close")' <=> (Pending(q, "close") \/ (q = r /\ ~config.native))
    <3>1. CASE config.native
      BY <1>3, <3>1, PendingAfterSubmit DEF Teardown
    <3>2. CASE ~config.native
      BY <1>3, <3>2, PendingAfterSubmit DEF Teardown
    <3> QED
      BY <3>1, <3>2
  <2>4. TeardownOf(r)'
    BY <1>1, <2>1, <2>2, <2>3
    DEF TeardownState, TeardownOf, PoolTeardown, OwnTeardown, BeforeTeardown, Serving
  <2>5. ASSUME NEW q \in Requests, q # r
        PROVE  TeardownOf(q)'
    BY <2>1, <2>3, <2>5, TeardownKept DEF TeardownState
  <2> QED
    BY <2>4, <2>5 DEF TeardownState
<1> QED
  BY <1>2, <1>3 DEF Respond

\* The same, or a response that is logged first.
LEMMA TeardownBeginsOrLogs ==
    ASSUME TypeOK, TeardownState, NEW r \in Requests, Resumable(r), RespondOrLog(r),
           pc[r] \in Serving, UNCHANGED <<config, sensitive, finished>>
    PROVE  TeardownState'
<1>1. CASE Respond(r)
  BY <1>1, TeardownBegins
<1>2. CASE ~Respond(r)
  <2>1. pc' = [pc EXCEPT ![r] = "logging"] /\ SubmitOther(r, "log") /\ closed' = closed
    BY <1>2 DEF RespondOrLog
  <2>2. NoJob \/ SubmitSensitive(r, "log") \/ SubmitOther(r, "log")
    BY <2>1
  <2>3. pc[r] \in BeforeTeardown /\ "logging" \in {"ready", "starting", "raised"} \cup Serving
    BY DEF BeforeTeardown, Serving
  <2> QED
    BY <2>1, <2>2, <2>3, TeardownNotYet
<1> QED
  BY <1>1, <1>2

\* Every step keeps the account of who tore which request down.
LEMMA TeardownStep ==
    TypeOK /\ JobsInv /\ TeardownState /\ [Next]_vars => TeardownState'
<1> SUFFICES ASSUME TypeOK, JobsInv, TeardownState, [Next]_vars
             PROVE  TeardownState'
  OBVIOUS
<1>0. /\ closed \in [Requests -> Nat] /\ finished \in [Requests -> BOOLEAN]
      /\ \A q \in Requests : TeardownOf(q)
  BY DEF TypeOK, TeardownState
<1>1. CASE ThreadTakes
  <2>1. ASSUME NEW q \in Requests
        PROVE  TeardownOf(q)'
    BY <1>0, <1>1, PendingAfterTake, TeardownKept DEF ThreadTakes
  <2> QED
    BY <2>1 DEF TeardownState
<1>2. CASE ThreadEnds
  <2>1. PICK job \in sensitive : RunJob(job)
    BY <1>2 DEF ThreadEnds
  <2>2. sensitive' = {} /\ line' = line /\ pc' = pc /\ config' = config
    BY <1>2 DEF ThreadEnds
  <2>3. /\ job \in Job /\ job.req \in Requests
        /\ Pending(job.req, job.kind) /\ \A k : ~Pending(job.req, k)'
        /\ \A q, k : q # job.req => (Pending(q, k)' <=> Pending(q, k))
    BY <2>2, PendingAfterEnd
  <2>4. ASSUME NEW q \in Requests, q # job.req
        PROVE  TeardownOf(q)'
    <3>1. closed'[q] = closed[q] /\ finished'[q] = finished[q]
      BY <1>0, <2>1, <2>4 DEF RunJob
    <3> QED
      BY <1>0, <2>2, <2>3, <2>4, <3>1, TeardownKept
  <2>5. TeardownOf(job.req)'
    <3>1. TeardownOf(job.req) /\ ~Pending(job.req, "close")'
      BY <1>0, <2>3
    <3>2. CASE job.kind = "close" /\ ~config.pool
      <4>1. Pending(job.req, "close") /\ closed[job.req] = 0
        BY <2>3, <3>1, <3>2 DEF TeardownOf, OwnTeardown
      <4>2. closed'[job.req] = 1 /\ finished'[job.req] = TRUE
        BY <1>0, <2>1, <2>3, <3>2, <4>1 DEF RunJob
      <4>3. pc[job.req] \in {"closing", "cancelled"}
        BY <3>2 DEF JobsInv, JobsAwaited, RunningJobs, Awaits
      <4> QED
        BY <2>2, <3>1, <3>2, <4>1, <4>2, <4>3
        DEF TeardownOf, OwnTeardown, BeforeTeardown, Serving
    <3>3. CASE config.pool
      <4>1. UNCHANGED <<closed, finished>>
        BY <2>1, <3>3 DEF RunJob
      <4> QED
        BY <2>2, <3>1, <3>3, <4>1 DEF TeardownOf, PoolTeardown
    <3>4. CASE job.kind # "close" /\ ~config.pool
      <4>1. UNCHANGED <<closed, finished>>
        BY <2>1, <3>4 DEF RunJob
      <4>2. pc[job.req] # "closing"
        BY <3>4 DEF JobsInv, JobsAwaited, RunningJobs, Awaits
      <4> QED
        BY <2>2, <3>1, <3>4, <4>1, <4>2 DEF TeardownOf, OwnTeardown
    <3> QED
      BY <3>2, <3>3, <3>4
  <2> QED
    BY <2>4, <2>5 DEF TeardownState
<1>3. ASSUME NEW j \in others, OtherEnds(j)
      PROVE  TeardownState'
  <2>1. \A q : Pending(q, "close")' <=> Pending(q, "close")
    BY <1>3 DEF OtherEnds, Pending
  <2> QED
    BY <1>0, <1>3, <2>1, TeardownKept DEF OtherEnds, TeardownState
<1>4. /\ {"idle", "starting", "ready"} \subseteq BeforeTeardown /\ Serving \subseteq BeforeTeardown
      /\ {"viewing", "rendering", "handling", "logging"} = Serving
  BY DEF BeforeTeardown, Serving
<1>5. ASSUME NEW r \in Requests, Start(r)
      PROVE  TeardownState'
  <2>1. Resumable(r)
    BY <1>5, NothingPending DEF Start
  <2>2. NoJob \/ SubmitSensitive(r, "start") \/ SubmitOther(r, "start")
    BY <1>5 DEF Start
  <2> QED
    BY <1>4, <1>5, <2>1, <2>2, TeardownNotYet DEF Start
<1>6. ASSUME NEW r \in Requests, StartRaises(r)
      PROVE  TeardownState'
  <2>1. NoJob \/ SubmitSensitive(r, "view") \/ SubmitOther(r, "view")
    BY <1>6 DEF StartRaises
  <2> QED
    BY <1>4, <1>6, <2>1, TeardownNotYet DEF StartRaises
<1>7. ASSUME NEW r \in Requests, RunView(r)
      PROVE  TeardownState'
  <2>1. Resumable(r)
    BY <1>7, NothingPending DEF RunView
  <2>2. NoJob \/ SubmitSensitive(r, "view") \/ SubmitOther(r, "view")
    BY <1>7 DEF RunView
  <2>3. pc[r] \in BeforeTeardown
    BY <1>7 DEF RunView, BeforeTeardown
  <2> QED
    BY <1>4, <1>7, <2>1, <2>2, <2>3, TeardownNotYet DEF RunView
<1>8. ASSUME NEW r \in Requests, Render(r)
      PROVE  TeardownState'
  <2>1. NoJob \/ SubmitSensitive(r, "render") \/ SubmitOther(r, "render")
    BY <1>8 DEF Render
  <2> QED
    BY <1>4, <1>8, <2>1, TeardownNotYet DEF Render
<1>9. ASSUME NEW r \in Requests, ViewReturns(r)
      PROVE  TeardownState'
  BY <1>4, <1>9, TeardownBeginsOrLogs DEF ViewReturns
<1>10. ASSUME NEW r \in Requests, ViewRaises(r)
       PROVE  TeardownState'
  <2>1. NoJob \/ SubmitSensitive(r, "error") \/ SubmitOther(r, "error")
    BY <1>10 DEF ViewRaises
  <2>2. pc[r] \in BeforeTeardown
    BY <1>4, <1>10 DEF ViewRaises
  <2> QED
    BY <1>4, <1>10, <2>1, <2>2, TeardownNotYet DEF ViewRaises
<1>11. ASSUME NEW r \in Requests, ExceptionHandled(r)
       PROVE  TeardownState'
  <2>1. CASE RespondOrLog(r)
    BY <1>4, <1>11, <2>1, TeardownBeginsOrLogs DEF ExceptionHandled
  <2>2. CASE ~RespondOrLog(r)
    <3>1. NoJob /\ pc' = [pc EXCEPT ![r] = "raised"] /\ closed' = closed
      BY <1>11, <2>2 DEF ExceptionHandled
    <3>2. NoJob \/ SubmitSensitive(r, "error") \/ SubmitOther(r, "error")
      BY <3>1
    <3> QED
      BY <1>4, <1>11, <3>1, <3>2, TeardownNotYet DEF ExceptionHandled
  <2> QED
    BY <2>1, <2>2
<1>12. ASSUME NEW r \in Requests, Logged(r)
       PROVE  TeardownState'
  BY <1>4, <1>12, TeardownBegins DEF Logged
<1>13. ASSUME NEW r \in Requests, TornDown(r)
       PROVE  TeardownState'
  <2>1. ~Pending(r, "close")
    BY <1>13, NothingPendingFor DEF TornDown
  <2>2. \A q : Pending(q, "close")' <=> Pending(q, "close")
    BY <1>13 DEF TornDown, Pending
  <2>3. /\ pc'[r] \in {"answered", "raised"} /\ pc[r] = "closing"
        /\ \A q \in Requests : q # r => pc'[q] = pc[q]
    BY <1>13 DEF TornDown, TypeOK
  <2>4. \A q \in Requests : q # r => closed'[q] = closed[q] /\ finished'[q] = finished[q]
    BY <1>0, <1>13 DEF TornDown
  <2>5. TeardownOf(r)'
    <3>1. CASE config.native /\ ~config.pool
      <4>1. closed[r] = 0
        BY <1>0, <2>3, <3>1 DEF TeardownOf, OwnTeardown
      <4>2. closed'[r] = 1 /\ finished'[r] = TRUE
        BY <1>0, <1>13, <3>1, <4>1 DEF TornDown
      <4> QED
        BY <1>0, <1>13, <2>1, <2>2, <2>3, <3>1, <4>2
        DEF TornDown, TeardownOf, OwnTeardown, BeforeTeardown, Serving
    <3>2. CASE config.pool \/ ~config.native
      BY <1>0, <1>13, <2>1, <2>2, <2>3, <3>2
      DEF TornDown, TeardownOf, PoolTeardown, OwnTeardown, BeforeTeardown, Serving
    <3> QED
      BY <3>1, <3>2
  <2> QED
    BY <1>0, <1>13, <2>2, <2>3, <2>4, <2>5, TeardownKept DEF TornDown, TeardownState
<1>14. ASSUME NEW r \in Requests, Cancel(r)
       PROVE  TeardownState'
  <2>1. /\ pc'[r] = "cancelled" /\ \A q \in Requests : q # r => pc'[q] = pc[q]
        /\ config' = config /\ finished' = finished /\ closed' = closed
    BY <1>14 DEF Cancel, TypeOK
  <2>2. /\ Pending(r, "close")' => Pending(r, "close")
        /\ \A q : q # r => (Pending(q, "close")' <=> Pending(q, "close"))
    BY <1>14, PendingAfterCancel
  <2>3. TeardownOf(r)'
    BY <1>0, <2>1, <2>2
    DEF TeardownOf, PoolTeardown, OwnTeardown, BeforeTeardown, Serving
  <2> QED
    BY <1>0, <2>1, <2>2, <2>3, TeardownKept DEF TeardownState
<1>15. CASE UNCHANGED vars
  <2>1. \A q : Pending(q, "close")' <=> Pending(q, "close")
    BY <1>15 DEF vars, Pending
  <2> QED
    BY <1>0, <1>15, <2>1, TeardownKept DEF vars, TeardownState
<1> QED
  BY <1>1, <1>2, <1>3, <1>5, <1>6, <1>7, <1>8, <1>9, <1>10, <1>11, <1>12, <1>13, <1>14, <1>15
  DEF Next, Threads, Progress

-----------------------------------------------------------------------------
(* The theorems.                                                           *)

\* The invariant holds at the start.
LEMMA InvInit == Init => DispatchInv
  BY TypeInit, JobsInit, SignalInit, TeardownInit DEF DispatchInv, JobsInv

\* The invariant is inductive.
LEMMA InvStep == DispatchInv /\ [Next]_vars => DispatchInv'
<1> SUFFICES ASSUME DispatchInv, [Next]_vars
             PROVE  DispatchInv'
  OBVIOUS
<1>1. TypeOK /\ JobsInv /\ SignalState /\ TeardownState
  BY DEF DispatchInv, JobsInv
<1> QED
  BY <1>1, TypeStep, JobsStep, SignalStep, TeardownStep DEF DispatchInv, JobsInv

\* The inductive invariant: every suspended request waits for the one job it
\* submitted, and its teardown has come as far as its program counter says.
THEOREM DispatchInvariant == Spec => []DispatchInv
<1>1. Init => DispatchInv
  BY InvInit
<1>2. DispatchInv /\ [Next]_vars => DispatchInv'
  BY InvStep
<1> QED
  BY <1>1, <1>2, PTL DEF Spec

\* Every variable keeps its type, and the thread-sensitive executor never runs
\* two jobs at once.
THEOREM DispatchTypeCorrect == Spec => []TypeOK
<1>1. DispatchInv => TypeOK
  BY DEF DispatchInv
<1> QED
  BY <1>1, DispatchInvariant, PTL

\* No two requests use the thread-local database connections at the same time,
\* also when the client of one has left while its view ran.
THEOREM ConnectionsAreNotShared == Spec => []ConnectionsNotShared
<1>1. DispatchInv => ConnectionsNotShared
  BY DEF DispatchInv, KindsOfThreads, ConnectionsNotShared, RunningJobs
<1> QED
  BY <1>1, DispatchInvariant, PTL

\* A request that is answered has been torn down: closers once, and
\* request_finished if and only if request_started was sent.
THEOREM AnsweredAreTornDown == Spec => []AnsweredIsTornDown
<1>1. DispatchInv => AnsweredIsTornDown
  <2> SUFFICES ASSUME DispatchInv, NEW r \in Requests, pc[r] = "answered"
               PROVE  closed[r] = 1 /\ finished[r] = sent[r] /\ sent[r] = ~config.pool
    BY DEF AnsweredIsTornDown
  <2>1. TeardownOf(r) /\ SignalOf(r)
    BY DEF DispatchInv, TeardownState, SignalState
  <2>2. sent[r] \in BOOLEAN /\ finished[r] \in BOOLEAN /\ config.pool \in BOOLEAN
    BY DEF DispatchInv, TypeOK
  <2> QED
    BY <2>1, <2>2 DEF TeardownOf, PoolTeardown, OwnTeardown, SignalOf
<1> QED
  BY <1>1, DispatchInvariant, PTL

\* However a request ends, its closers run once at most, and request_finished
\* never goes out without request_started and the closers.
THEOREM TeardownsHappenAtMostOnce == Spec => []TeardownAtMostOnce
<1>1. DispatchInv => TeardownAtMostOnce
  <2> SUFFICES ASSUME DispatchInv, NEW r \in Requests
               PROVE  closed[r] <= 1 /\ (finished[r] => sent[r] /\ closed[r] = 1)
    BY DEF TeardownAtMostOnce
  <2>1. TeardownOf(r) /\ SignalOf(r)
    BY DEF DispatchInv, TeardownState, SignalState
  <2> QED
    BY <2>1 DEF TeardownOf, PoolTeardown, OwnTeardown, BeforeTeardown, SignalOf
<1> QED
  BY <1>1, DispatchInvariant, PTL
=============================================================================
