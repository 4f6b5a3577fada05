-------------------------- MODULE SupervisorProofs --------------------------
(***************************************************************************)
(* The master process, for any number of workers, of deaths and of         *)
(* signals, and so for shutdown() nested to any depth.                     *)
(*                                                                         *)
(* The argument: no living worker is ever out of sight, because it is on   *)
(* the list or just born; and what an activation of shutdown() has not     *)
(* visited yet covers what it still has to tell or to kill, also after an  *)
(* inner activation has emptied the list.                                  *)
(***************************************************************************)
EXTENDS Supervisor, SequenceTheorems, FunctionTheorems, FiniteSetTheorems, TLAPS

Elements(s) == {s[i] : i \in 1..Len(s)}

\* The list, what is being born and what is being scanned stay within n.
Counted ==
    /\ Len(workers) <= N
    /\ newborn # 0 => main \in {"start", "fill"}
    /\ main = "start" => Len(workers) + left <= N /\ (newborn # 0 => left > 0)
    /\ main = "fill" /\ newborn # 0 => Len(workers) < N
    /\ main = "scan" => Len(alive) + Len(todo) <= N

\* Who is alive is on the list or was just started.
Tracked ==
    /\ Alive \subseteq Elements(workers) \cup {newborn}
    /\ main = "scan" => Alive \subseteq Elements(alive) \cup Elements(todo)
    /\ main = "last" => handlers # << >> \/ Alive = {}
    /\ main = "done" => Alive = {}

\* Who on the list was not told is ahead of an activation that tells; who is
\* alive is ahead of one that kills, and was told.
ActivationFits(h) ==
    /\ h.pc = "term" =>
         \A p \in Elements(workers) : status[p] = "up" => p \in Elements(h.todo)
    /\ h.pc = "kill" =>
         /\ \A p \in Elements(workers) : p \in Alive => p \in Elements(h.todo)
         /\ \A p \in Elements(h.todo) : status[p] # "up"

Activations == \A i \in 1..Len(handlers) : ActivationFits(handlers[i])

SupervisorInv == TypeOK /\ Counted /\ Tracked /\ Activations

-----------------------------------------------------------------------------
(* Sequences and their elements.                                           *)

\* The empty sequence has no elements.
LEMMA ElementsEmpty == Elements(<< >>) = {}
  BY DEF Elements

\* Append adds one element at the end.
LEMMA ElementsAppend ==
    ASSUME NEW S, NEW s \in Seq(S), NEW e \in S
    PROVE  /\ Append(s, e) \in Seq(S)
           /\ Len(Append(s, e)) = Len(s) + 1 /\ Len(s) \in Nat
           /\ Elements(Append(s, e)) = Elements(s) \cup {e}
<1>1. /\ Append(s, e) \in Seq(S) /\ Len(Append(s, e)) = Len(s) + 1 /\ Len(s) \in Nat
      /\ \A i \in 1..Len(s) : Append(s, e)[i] = s[i]
      /\ Append(s, e)[Len(s) + 1] = e
  BY AppendProperties, LenProperties
<1>2. 1..(Len(s) + 1) = 1..Len(s) \cup {Len(s) + 1}
  BY <1>1
<1>3. Elements(Append(s, e)) = Elements(s) \cup {e}
  BY <1>1, <1>2 DEF Elements
<1> QED
  BY <1>1, <1>3

\* The elements of a sequence are its head and those of its tail.
LEMMA ElementsTail ==
    ASSUME NEW S, NEW s \in Seq(S), s # << >>
    PROVE  /\ Head(s) \in S /\ Head(s) \in Elements(s)
           /\ Tail(s) \in Seq(S)
           /\ Len(Tail(s)) = Len(s) - 1 /\ Len(s) \in Nat
           /\ Elements(s) = Elements(Tail(s)) \cup {Head(s)}
<1>1. /\ Head(s) \in S /\ Tail(s) \in Seq(S)
      /\ Len(s) \in Nat /\ Len(s) >= 1 /\ Len(Tail(s)) = Len(s) - 1
      /\ Head(s) = s[1]
      /\ \A i \in 1..(Len(s) - 1) : Tail(s)[i] = s[i + 1]
  BY HeadTailProperties, EmptySeq, LenProperties
<1>2. /\ 1 \in 1..Len(s)
      /\ \A i \in 1..(Len(s) - 1) : i + 1 \in 1..Len(s)
  BY <1>1
<1>3. Elements(Tail(s)) \cup {Head(s)} \subseteq Elements(s)
  BY <1>1, <1>2 DEF Elements
<1>4. ASSUME NEW i \in 1..Len(s)
      PROVE  s[i] \in Elements(Tail(s)) \cup {Head(s)}
  <2>1. CASE i = 1
    BY <1>1, <2>1
  <2>2. CASE i # 1
    <3>1. i - 1 \in 1..(Len(s) - 1) /\ (i - 1) + 1 = i
      BY <1>1, <2>2
    <3> QED
      BY <1>1, <3>1 DEF Elements
  <2> QED
    BY <2>1, <2>2
<1> QED
  BY <1>1, <1>2, <1>3, <1>4 DEF Elements

\* The elements of a sequence are of its type.
LEMMA ElementsType ==
    ASSUME NEW S, NEW s \in Seq(S)
    PROVE  Elements(s) \subseteq S
  BY ElementOfSeq DEF Elements

\* A sequence of processes is one of more processes.
LEMMA SeqGrows ==
    ASSUME NEW S, NEW T, S \subseteq T, NEW s \in Seq(S)
    PROVE  s \in Seq(T)
<1>1. Len(s) \in Nat /\ s \in [1..Len(s) -> S]
  BY LenProperties
<1>2. s \in [1..Len(s) -> T]
  BY <1>1
<1> QED
  BY <1>1, <1>2

\* The innermost activation is replaced, or returns.
LEMMA TopReplaced ==
    ASSUME NEW S, NEW s \in Seq(S), s # << >>, NEW e \in S
    PROVE  /\ [s EXCEPT ![Len(s)] = e] \in Seq(S)
           /\ Len([s EXCEPT ![Len(s)] = e]) = Len(s)
           /\ [s EXCEPT ![Len(s)] = e][Len(s)] = e /\ Len(s) \in 1..Len(s)
           /\ \A i \in 1..Len(s) : i # Len(s) => [s EXCEPT ![Len(s)] = e][i] = s[i]
<1> DEFINE r == [s EXCEPT ![Len(s)] = e]
<1>1. Len(s) \in Nat /\ Len(s) # 0 /\ s \in [1..Len(s) -> S]
  BY LenProperties, EmptySeq
<1>2. Len(s) \in 1..Len(s)
  BY <1>1
<1>3. r \in [1..Len(s) -> S]
  BY <1>1, <1>2
<1>4. r \in Seq(S) /\ Len(r) = Len(s)
  BY <1>1, <1>3, LenProperties
<1> QED
  BY <1>1, <1>2, <1>4

\* The stack without its innermost activation.
LEMMA TopRemoved ==
    ASSUME NEW S, NEW s \in Seq(S), s # << >>
    PROVE  /\ SubSeq(s, 1, Len(s) - 1) \in Seq(S)
           /\ Len(SubSeq(s, 1, Len(s) - 1)) = Len(s) - 1 /\ Len(s) \in Nat
           /\ \A i \in 1..(Len(s) - 1) :
                SubSeq(s, 1, Len(s) - 1)[i] = s[i] /\ i \in 1..Len(s)
<1>1. Len(s) \in Nat /\ Len(s) # 0
  BY LenProperties, EmptySeq
<1>2. \A i \in 1..(Len(s) - 1) : i \in 1..Len(s) /\ s[i] \in S
  BY <1>1, ElementOfSeq
<1>3. Len(s) - 1 \in Nat
  BY <1>1
<1>4. /\ SubSeq(s, 1, Len(s) - 1) \in Seq(S)
      /\ Len(SubSeq(s, 1, Len(s) - 1)) = Len(s) - 1
      /\ \A i \in 1..(Len(s) - 1) : SubSeq(s, 1, Len(s) - 1)[i] = s[i]
  <2> DEFINE n == Len(s) - 1
  <2>1. n \in Int /\ n >= 0 /\ \A i \in 1..n : s[i] \in S
    BY <1>2, <1>3
  <2> HIDE DEF n
  <2>2. /\ SubSeq(s, 1, n) \in Seq(S)
        /\ Len(SubSeq(s, 1, n)) = (IF 1 <= n THEN n - 1 + 1 ELSE 0)
        /\ \A i \in 1..(n - 1 + 1) : SubSeq(s, 1, n)[i] = s[1 + i - 1]
    BY <2>1, SubSeqProperties
  <2>3. /\ SubSeq(s, 1, n) \in Seq(S) /\ Len(SubSeq(s, 1, n)) = n
        /\ \A i \in 1..n : SubSeq(s, 1, n)[i] = s[i]
    BY <2>1, <2>2
  <2> QED
    BY <2>3 DEF n
<1> QED
  BY <1>1, <1>2, <1>4

\* A sequence has no more elements than it is long.
LEMMA ElementsCardinality ==
    ASSUME NEW S, NEW s \in Seq(S), NEW T, T \subseteq Elements(s)
    PROVE  IsFiniteSet(T) /\ Cardinality(T) \in Nat /\ Cardinality(T) <= Len(s)
<1>1. Len(s) \in Nat /\ s \in [1..Len(s) -> S]
  BY LenProperties
<1>2. s \in Surjection(1..Len(s), Elements(s))
  BY <1>1 DEF Surjection, Elements
<1>3. ExistsSurjection(1..Len(s), Elements(s))
  BY <1>2 DEF ExistsSurjection
<1>4. IsFiniteSet(1..Len(s))
  BY <1>1, FS_Interval
<1>5. IsFiniteSet(Elements(s)) /\ Cardinality(Elements(s)) <= Len(s)
  BY <1>1, <1>2, <1>3, <1>4, FS_Surjection, FS_SurjCardinalityBound
<1>6. Cardinality(Elements(s)) \in Nat
  BY <1>5, FS_CardinalityType
<1>7. IsFiniteSet(T) /\ Cardinality(T) <= Cardinality(Elements(s)) /\ Cardinality(T) \in Nat
  BY <1>5, FS_Subset, FS_CardinalityType
<1> QED
  BY <1>1, <1>5, <1>6, <1>7

-----------------------------------------------------------------------------
(* Type correctness.                                                       *)

Statuses == {"up", "told", "exited", "failed", "killed"}
Activation == [pc : {"begin", "term", "kill"}, todo : Seq(Procs)]

\* What a step of shutdown() makes of the stack.
LEMMA GoType ==
    ASSUME TypeOK, handlers # << >>, NEW pc \in {"begin", "term", "kill"},
           NEW procs \in Seq(Procs), Go(pc, procs), Len(status') = Len(status)
    PROVE  /\ handlers' \in Seq(Activation)'
           /\ Len(handlers') = Len(handlers)
           /\ handlers'[Len(handlers)] = [pc |-> pc, todo |-> procs]
           /\ Len(handlers) \in 1..Len(handlers)
           /\ \A i \in 1..Len(handlers) : i # Len(handlers) => handlers'[i] = handlers[i]
<1>1. Seq(Activation)' = Seq(Activation)
  BY DEF Activation, Procs
<1>2. handlers \in Seq(Activation)
  BY DEF TypeOK, Activation
<1>3. [pc |-> pc, todo |-> procs] \in Activation
  BY DEF Activation
<1> DEFINE h == [pc |-> pc, todo |-> procs]
<1>4. handlers' = [handlers EXCEPT ![Len(handlers)] = h]
  BY DEF Go
<1> HIDE DEF h
<1>5. /\ handlers' \in Seq(Activation) /\ Len(handlers') = Len(handlers)
      /\ handlers'[Len(handlers)] = h /\ Len(handlers) \in 1..Len(handlers)
      /\ \A i \in 1..Len(handlers) : i # Len(handlers) => handlers'[i] = handlers[i]
  BY <1>2, <1>3, <1>4, TopReplaced DEF h
<1> QED
  BY <1>1, <1>5 DEF h

\* The innermost activation is one.
LEMMA TopType ==
    ASSUME TypeOK, handlers # << >>
    PROVE  /\ Top \in Activation /\ Top.todo \in Seq(Procs)
           /\ Len(handlers) \in 1..Len(handlers) /\ Len(handlers) \in Nat
           /\ handlers \in Seq(Activation)
<1>1. handlers \in Seq(Activation)
  BY DEF TypeOK, Activation
<1>2. Len(handlers) \in 1..Len(handlers) /\ Len(handlers) \in Nat
  BY <1>1, LenProperties, EmptySeq
<1>3. Top \in Activation
  BY <1>1, <1>2, ElementOfSeq DEF Top
<1> QED
  BY <1>1, <1>2, <1>3 DEF Activation

\* The master starts well typed.
LEMMA TypeInit == Init => TypeOK
<1> SUFFICES ASSUME Init
             PROVE  TypeOK
  OBVIOUS
<1>1. /\ << >> \in Seq({"up", "told", "exited", "failed", "killed"}) /\ << >> \in Seq(Procs)
      /\ << >> \in Seq([pc : {"begin", "term", "kill"}, todo : Seq(Procs)])
  BY EmptySeq
<1>2. N \in 0..N /\ 0 \in 0..MaxDeaths /\ 0 \in 0..MaxSignals
  BY NAssumption, BoundsAssumption
<1>3. Len(<< >>) = 0
  BY EmptySeq
<1>4. /\ status \in Seq({"up", "told", "exited", "failed", "killed"})
      /\ workers \in Seq(Procs) /\ todo \in Seq(Procs) /\ alive \in Seq(Procs)
      /\ handlers \in Seq([pc : {"begin", "term", "kill"}, todo : Seq(Procs)])
  BY <1>1 DEF Init
<1>5. newborn \in 0..Len(status)
  BY <1>3 DEF Init
<1> QED
  BY <1>2, <1>4, <1>5 DEF Init, TypeOK

\* A step that changes the state of one process at most.
LEMMA StatusType ==
    ASSUME TypeOK, NEW p, NEW e \in Statuses, status' = [status EXCEPT ![p] = e]
    PROVE  status' \in Seq(Statuses) /\ Len(status') = Len(status) /\ Procs' = Procs
<1>1. status \in Seq(Statuses) /\ Len(status) \in Nat /\ status \in [1..Len(status) -> Statuses]
  BY LenProperties DEF TypeOK, Statuses
<1>2. status' \in [1..Len(status) -> Statuses]
  BY <1>1
<1>3. status' \in Seq(Statuses) /\ Len(status') = Len(status)
  BY <1>1, <1>2, LenProperties
<1> QED
  BY <1>3 DEF Procs

\* With as many processes as before, the types of the lists do not change.
LEMMA SameProcs ==
    ASSUME Len(status') = Len(status)
    PROVE  Procs' = Procs /\ Seq(Procs)' = Seq(Procs) /\ Seq(Activation)' = Seq(Activation)
  BY DEF Procs, Activation

\* No step of the master, of the system or of a worker breaks the types.
LEMMA TypeStep == TypeOK /\ Counted /\ [Next]_vars => TypeOK'
<1> SUFFICES ASSUME TypeOK, Counted, [Next]_vars
             PROVE  TypeOK'
  OBVIOUS
<1> USE DEF Running
<1>0. /\ status \in Seq(Statuses) /\ Len(status) \in Nat
      /\ workers \in Seq(Procs) /\ todo \in Seq(Procs) /\ alive \in Seq(Procs)
      /\ handlers \in Seq(Activation)
  BY LenProperties DEF TypeOK, Statuses, Activation
<1>1. CASE SpawnStart
  <2>1. /\ status' \in Seq(Statuses) /\ Len(status') = Len(status) + 1
        /\ newborn' = Len(status')
    BY <1>0, <1>1, ElementsAppend DEF SpawnStart, Statuses
  <2>2. Procs \subseteq Procs' /\ newborn' \in 0..Len(status')
    BY <1>0, <2>1 DEF Procs
  <2>3. /\ workers' \in Seq(Procs)' /\ todo' \in Seq(Procs)' /\ alive' \in Seq(Procs)'
    BY <1>0, <1>1, <2>2, SeqGrows DEF SpawnStart
  <2>4. handlers' \in Seq(Activation)'
    BY <1>1, EmptySeq DEF SpawnStart, WantsWorker
  <2>5. UNCHANGED <<shuttingDown, main, left, deaths, signals>>
    BY <1>1 DEF SpawnStart
  <2> QED
    BY <2>1, <2>2, <2>3, <2>4, <2>5 DEF TypeOK, Statuses, Activation
<1>2. CASE SpawnAppend
  <2>1. newborn \in Procs
    BY <1>0, <1>2 DEF SpawnAppend, TypeOK, Procs
  <2>2. workers' \in Seq(Procs)
    BY <1>0, <1>2, <2>1, ElementsAppend DEF SpawnAppend
  <2>3. left' \in 0..N
    BY <1>2, NAssumption DEF SpawnAppend, Counted, TypeOK
  <2>4. newborn' \in 0..Len(status)
    BY <1>0, <1>2 DEF SpawnAppend
  <2>5. UNCHANGED <<status, shuttingDown, main, todo, alive, handlers, deaths, signals>>
    BY <1>2 DEF SpawnAppend
  <2>6. Seq(Procs)' = Seq(Procs) /\ Seq(Activation)' = Seq(Activation)
    BY <2>5, SameProcs
  <2> QED
    BY <1>0, <2>2, <2>3, <2>4, <2>5, <2>6 DEF TypeOK, Activation
<1>3. ASSUME UNCHANGED <<status, workers, shuttingDown, left, newborn, todo, alive,
                         handlers, deaths, signals>>,
             main' \in {"start", "monitor", "reap", "scan", "fill", "sleep",
                        "finally", "last", "done", "raised"}
      PROVE  TypeOK'
  <2>1. Seq(Procs)' = Seq(Procs) /\ Seq(Activation)' = Seq(Activation)
    BY <1>3, SameProcs
  <2> QED
    BY <1>0, <1>3, <2>1 DEF TypeOK, Activation
<1>4. CASE SpawnFails \/ StartDone \/ MonitorLoop \/ FillDone \/ PollSleep \/ RunSupervisedReturns
  BY <1>3, <1>4
  DEF SpawnFails, StartDone, MonitorLoop, FillDone, PollSleep, RunSupervisedReturns
<1>5. CASE ReapEnter
  <2>1. /\ main' \in {"sleep", "scan"} /\ todo' \in Seq(Procs) /\ alive' \in Seq(Procs)
        /\ UNCHANGED <<status, workers, shuttingDown, left, newborn, handlers, deaths, signals>>
    BY <1>0, <1>5, EmptySeq DEF ReapEnter
  <2>2. Seq(Procs)' = Seq(Procs) /\ Seq(Activation)' = Seq(Activation)
    BY <2>1, SameProcs
  <2> QED
    BY <1>0, <2>1, <2>2 DEF TypeOK, Activation
<1>6. CASE ReapScan
  <2>1. Head(todo) \in Procs /\ Tail(todo) \in Seq(Procs)
    BY <1>0, <1>6, ElementsTail DEF ReapScan
  <2>2. todo' \in Seq(Procs) /\ alive' \in Seq(Procs)
    BY <1>0, <1>6, <2>1, ElementsAppend DEF ReapScan
  <2>3. UNCHANGED <<status, workers, shuttingDown, main, left, newborn, handlers, deaths, signals>>
    BY <1>6 DEF ReapScan
  <2>4. Seq(Procs)' = Seq(Procs) /\ Seq(Activation)' = Seq(Activation)
    BY <2>3, SameProcs
  <2> QED
    BY <1>0, <2>2, <2>3, <2>4 DEF TypeOK, Activation
<1>7. CASE ReapAssign
  <2>1. /\ workers' \in Seq(Procs) /\ main' = "fill"
        /\ UNCHANGED <<status, shuttingDown, left, newborn, todo, alive, handlers, deaths, signals>>
    BY <1>0, <1>7 DEF ReapAssign
  <2>2. Seq(Procs)' = Seq(Procs) /\ Seq(Activation)' = Seq(Activation)
    BY <2>1, SameProcs
  <2> QED
    BY <1>0, <2>1, <2>2 DEF TypeOK, Activation
<1>8. CASE LastShutdown \/ Signal
  <2> DEFINE h == [pc |-> "begin", todo |-> << >>]
  <2>1. h \in Activation
    BY EmptySeq DEF Activation
  <2>2. << >> \in Seq(Activation) /\ Append(<< >>, h) = <<h>>
    BY EmptySeq
  <2>3. Append(handlers, h) \in Seq(Activation) /\ <<h>> \in Seq(Activation)
    BY <1>0, <2>1, <2>2, ElementsAppend
  <2>4. handlers' \in Seq(Activation)
    BY <1>8, <2>3 DEF LastShutdown, Signal
  <2>5. UNCHANGED <<status, workers, shuttingDown, left, newborn, todo, alive, deaths>>
    BY <1>8 DEF LastShutdown, Signal
  <2>6. main' \in {"start", "monitor", "reap", "scan", "fill", "sleep",
                   "finally", "last", "done", "raised"}
    BY <1>8 DEF LastShutdown, Signal, TypeOK
  <2>7. signals' \in 0..MaxSignals
    BY <1>8, BoundsAssumption DEF LastShutdown, Signal, TypeOK
  <2>8. Seq(Procs)' = Seq(Procs) /\ Seq(Activation)' = Seq(Activation)
    BY <2>5, SameProcs
  <2> QED
    BY <1>0, <2>4, <2>5, <2>6, <2>7, <2>8 DEF TypeOK, Activation
<1>9. CASE ShutdownBegin \/ ShutdownJoin
  <2>1. /\ handlers # << >> /\ shuttingDown' \in BOOLEAN
        /\ \E pc \in {"begin", "term", "kill"} : Go(pc, workers)
        /\ UNCHANGED <<status, workers, main, left, newborn, todo, alive, deaths, signals>>
    BY <1>9 DEF ShutdownBegin, ShutdownJoin, In, TypeOK
  <2>2. handlers' \in Seq(Activation)'
    BY <1>0, <2>1, GoType
  <2>3. Seq(Procs)' = Seq(Procs)
    BY <2>1, SameProcs
  <2> QED
    BY <1>0, <2>1, <2>2, <2>3 DEF TypeOK, Activation
<1>10. CASE ShutdownSignal \/ ShutdownKill
  <2>1. /\ handlers # << >> /\ Top.todo # << >>
        /\ \E pc \in {"begin", "term", "kill"} : Go(pc, Tail(Top.todo))
        /\ UNCHANGED <<workers, shuttingDown, main, left, newborn, todo, alive, deaths, signals>>
    BY <1>10 DEF ShutdownSignal, ShutdownKill, In
  <2>2. Head(Top.todo) \in Procs /\ Tail(Top.todo) \in Seq(Procs)
    BY <2>1, TopType, ElementsTail
  <2>3. \E e \in Statuses : status' = [status EXCEPT ![Head(Top.todo)] = e]
    <3>1. status[Head(Top.todo)] \in Statuses
      BY <1>0, <2>2, ElementOfSeq DEF Procs
    <3>2. CASE ShutdownSignal
      BY <3>1, <3>2 DEF ShutdownSignal, Statuses
    <3>3. CASE ShutdownKill
      BY <3>1, <3>3 DEF ShutdownKill, Statuses
    <3> QED
      BY <1>10, <3>2, <3>3
  <2>4. status' \in Seq(Statuses) /\ Len(status') = Len(status)
    BY <2>3, StatusType
  <2>5. handlers' \in Seq(Activation)'
    BY <2>1, <2>2, <2>4, GoType
  <2>6. Seq(Procs)' = Seq(Procs)
    BY <2>4, SameProcs
  <2> QED
    BY <1>0, <2>1, <2>4, <2>5, <2>6 DEF TypeOK, Activation, Statuses
<1>11. CASE ShutdownReturn
  <2>1. /\ handlers # << >> /\ workers' = << >>
        /\ handlers' = SubSeq(handlers, 1, Len(handlers) - 1)
        /\ UNCHANGED <<status, shuttingDown, main, left, newborn, todo, alive, deaths, signals>>
    BY <1>11 DEF ShutdownReturn, In
  <2>2. handlers' \in Seq(Activation) /\ workers' \in Seq(Procs)
    BY <1>0, <2>1, TopRemoved, EmptySeq
  <2>3. Seq(Procs)' = Seq(Procs) /\ Seq(Activation)' = Seq(Activation)
    BY <2>1, SameProcs
  <2> QED
    BY <1>0, <2>1, <2>2, <2>3 DEF TypeOK, Activation
<1>12. ASSUME NEW p \in Procs, WorkerDies(p) \/ WorkerStops(p)
       PROVE  TypeOK'
  <2>1. PICK how \in {"exited", "failed"} : status' = [status EXCEPT ![p] = how]
    BY <1>12 DEF WorkerDies, WorkerStops
  <2>2. status' \in Seq(Statuses) /\ Len(status') = Len(status)
    BY <2>1, StatusType DEF Statuses
  <2>3. deaths' \in 0..MaxDeaths
    BY <1>12, BoundsAssumption DEF WorkerDies, WorkerStops, TypeOK
  <2>4. UNCHANGED <<workers, shuttingDown, main, left, newborn, todo, alive, handlers, signals>>
    BY <1>12 DEF WorkerDies, WorkerStops
  <2>5. Seq(Procs)' = Seq(Procs) /\ Seq(Activation)' = Seq(Activation)
    BY <2>2, SameProcs
  <2> QED
    BY <1>0, <2>2, <2>3, <2>4, <2>5 DEF TypeOK, Activation, Statuses
<1>13. CASE UNCHANGED vars
  BY <1>3, <1>13 DEF vars, TypeOK
<1> QED
  BY <1>1, <1>2, <1>4, <1>5, <1>6, <1>7, <1>8, <1>9, <1>10, <1>11, <1>12, <1>13
  DEF Next, MasterStep

-----------------------------------------------------------------------------
(* The count of workers.                                                   *)

\* At the start there is nobody to count.
LEMMA CountedInit == Init => Counted
<1> SUFFICES ASSUME Init
             PROVE  Counted
  OBVIOUS
<1>1. Len(workers) = 0 /\ N \in Nat
  BY EmptySeq, NAssumption DEF Init
<1> QED
  BY <1>1 DEF Init, Counted

\* No step makes the list, or what is being born, outgrow n.
LEMMA CountedStep == TypeOK /\ Counted /\ [Next]_vars => Counted'
<1> SUFFICES ASSUME TypeOK, Counted, [Next]_vars
             PROVE  Counted'
  OBVIOUS
<1>0. /\ workers \in Seq(Procs) /\ todo \in Seq(Procs) /\ alive \in Seq(Procs)
      /\ Len(workers) \in Nat /\ Len(todo) \in Nat /\ Len(alive) \in Nat
      /\ left \in Nat /\ N \in Nat /\ Len(status) \in Nat
  BY LenProperties, NAssumption DEF TypeOK
<1>1. CASE SpawnStart
  BY <1>0, <1>1 DEF SpawnStart, WantsWorker, Running, Counted
<1>2. CASE SpawnAppend
  <2>1. newborn \in Procs
    BY <1>0, <1>2 DEF SpawnAppend, TypeOK, Procs
  <2>2. Len(workers') = Len(workers) + 1
    BY <1>0, <1>2, <2>1, ElementsAppend DEF SpawnAppend
  <2> QED
    BY <1>0, <1>2, <2>2 DEF SpawnAppend, Running, Counted
<1>3. CASE SpawnFails \/ StartDone \/ MonitorLoop \/ FillDone \/ PollSleep
             \/ LastShutdown \/ RunSupervisedReturns
  <2>1. /\ main' \notin {"start", "fill", "scan"}
        /\ UNCHANGED <<workers, left, newborn, todo, alive>>
    BY <1>3 DEF SpawnFails, WantsWorker, StartDone, MonitorLoop, FillDone, PollSleep,
                LastShutdown, RunSupervisedReturns, Running
  <2>2. newborn = 0
    BY <1>0, <1>3 DEF SpawnFails, StartDone, MonitorLoop, FillDone, PollSleep,
                      LastShutdown, RunSupervisedReturns, Running, Counted
  <2> QED
    BY <2>1, <2>2 DEF Counted
<1>4. CASE ReapEnter
  <2>1. Len(<< >>) = 0
    BY EmptySeq
  <2> QED
    BY <1>0, <1>4, <2>1 DEF ReapEnter, Running, Counted
<1>5. CASE ReapScan
  <2>1. Head(todo) \in Procs /\ Len(Tail(todo)) = Len(todo) - 1
    BY <1>0, <1>5, ElementsTail DEF ReapScan
  <2>2. Len(alive') <= Len(alive) + 1 /\ Len(alive') \in Nat
    BY <1>0, <1>5, <2>1, ElementsAppend DEF ReapScan
  <2> QED
    BY <1>0, <1>5, <2>1, <2>2 DEF ReapScan, Running, Counted
<1>6. CASE ReapAssign
  <2>1. Len(todo) = 0
    BY <1>6, EmptySeq DEF ReapAssign
  <2> QED
    BY <1>0, <1>6, <2>1 DEF ReapAssign, Running, Counted
<1>7. CASE ShutdownReturn
  <2>1. Len(workers') = 0
    BY <1>7, EmptySeq DEF ShutdownReturn
  <2> QED
    BY <1>0, <1>7, <2>1 DEF ShutdownReturn, Counted
<1>8. CASE \/ ShutdownBegin \/ ShutdownSignal \/ ShutdownJoin \/ ShutdownKill \/ Signal
           \/ \E p \in Procs : WorkerDies(p) \/ WorkerStops(p)
  BY <1>8 DEF ShutdownBegin, ShutdownSignal, ShutdownJoin, ShutdownKill, Signal,
              WorkerDies, WorkerStops, Counted
<1>9. CASE UNCHANGED vars
  BY <1>9 DEF vars, Counted
<1> QED
  BY <1>1, <1>2, <1>3, <1>4, <1>5, <1>6, <1>7, <1>8, <1>9 DEF Next, MasterStep

-----------------------------------------------------------------------------
(* Who is alive, and what the activations of shutdown() have before them.  *)

\* Once started, a process is never born again: its life only runs down.
Declines ==
    /\ Procs' = Procs /\ Alive' \subseteq Alive
    /\ \A q \in Procs : status'[q] = "up" => status[q] = "up"

\* What happens to processes that exist only runs their lives down.
LEMMA StatusDeclines ==
    ASSUME TypeOK,
           \/ UNCHANGED status
           \/ handlers # << >> /\ (ShutdownSignal \/ ShutdownKill)
           \/ \E p \in Procs : WorkerDies(p) \/ WorkerStops(p)
    PROVE  Declines
<1>1. CASE UNCHANGED status
  BY <1>1 DEF Declines, Alive, Procs
<1>2. ASSUME NEW p \in Procs, NEW e \in Statuses, status' = [status EXCEPT ![p] = e],
             e # "up" \/ e = status[p], e = "told" => status[p] \in {"up", "told"}
      PROVE  Declines
  <2>1. Procs' = Procs
    BY <1>2, StatusType
  <2>2. status \in [Procs -> Statuses]
    BY LenProperties DEF TypeOK, Statuses, Procs
  <2>3. status'[p] = e /\ \A q \in Procs : q # p => status'[q] = status[q]
    BY <1>2, <2>2
  <2> QED
    BY <1>2, <2>1, <2>2, <2>3 DEF Declines, Alive
<1>3. CASE handlers # << >> /\ (ShutdownSignal \/ ShutdownKill)
  <2> DEFINE p == Head(Top.todo)
  <2>1. p \in Procs
    BY <1>3, TopType, ElementsTail DEF ShutdownSignal, ShutdownKill
  <2>2. status[p] \in Statuses
    BY <2>1, ElementOfSeq DEF TypeOK, Statuses, Procs
  <2>3. PICK e : /\ status' = [status EXCEPT ![p] = e]
                 /\ \/ e = IF status[p] = "up" THEN "told" ELSE status[p]
                    \/ e = IF p \in Alive THEN "killed" ELSE status[p]
    BY <1>3 DEF ShutdownSignal, ShutdownKill
  <2> HIDE DEF p
  <2>4. /\ e # "up" \/ e = status[p]
        /\ e = "told" => status[p] \in {"up", "told"}
    BY <2>1, <2>2, <2>3 DEF Statuses
  <2>5. e \in Statuses
    BY <2>2, <2>3 DEF Statuses
  <2> QED
    BY <1>2, <2>1, <2>3, <2>4, <2>5
<1>4. ASSUME NEW p \in Procs, WorkerDies(p) \/ WorkerStops(p)
      PROVE  Declines
  BY <1>2, <1>4 DEF WorkerDies, WorkerStops, Statuses
<1> QED
  BY <1>1, <1>3, <1>4

\* What shutdown() does to the first process of its list.
LEMMA SignalledStatus ==
    ASSUME TypeOK, ShutdownSignal \/ ShutdownKill
    PROVE  /\ handlers # << >> /\ Top \in Activation
           /\ Head(Top.todo) \in Procs /\ Tail(Top.todo) \in Seq(Procs)
           /\ Elements(Top.todo) = Elements(Tail(Top.todo)) \cup {Head(Top.todo)}
           /\ Len(status') = Len(status) /\ Declines
           /\ ShutdownSignal => status'[Head(Top.todo)] # "up"
           /\ ShutdownKill => status'[Head(Top.todo)] \notin {"up", "told"}
                              \/ Head(Top.todo) \notin Alive
<1>1. handlers # << >> /\ Top.todo # << >>
  BY DEF ShutdownSignal, ShutdownKill, In
<1>2. /\ Top \in Activation /\ Head(Top.todo) \in Procs /\ Tail(Top.todo) \in Seq(Procs)
      /\ Elements(Top.todo) = Elements(Tail(Top.todo)) \cup {Head(Top.todo)}
  BY <1>1, TopType, ElementsTail
<1>3. Declines
  BY <1>1, StatusDeclines
<1>4. status \in [Procs -> Statuses] /\ status \in Seq(Statuses)
  BY LenProperties DEF TypeOK, Statuses, Procs
<1> DEFINE p == Head(Top.todo)
<1>5. PICK e : /\ status' = [status EXCEPT ![p] = e]
               /\ ShutdownSignal => e = IF status[p] = "up" THEN "told" ELSE status[p]
               /\ ShutdownKill => e = IF p \in Alive THEN "killed" ELSE status[p]
  <2>1. CASE ShutdownSignal /\ ~ShutdownKill
    BY <2>1 DEF ShutdownSignal
  <2>2. CASE ShutdownKill /\ ~ShutdownSignal
    BY <2>2 DEF ShutdownKill
  <2>3. ~(ShutdownSignal /\ ShutdownKill)
    BY DEF ShutdownSignal, ShutdownKill, In
  <2> QED
    BY <2>1, <2>2, <2>3
<1> HIDE DEF p
<1>6. p \in Procs
  BY <1>2 DEF p
<1>7. status'[p] = e /\ status[p] \in Statuses
  BY <1>4, <1>5, <1>6
<1>8. e \in Statuses
  BY <1>5, <1>7 DEF Statuses
<1>9. Len(status') = Len(status)
  BY <1>5, <1>8, StatusType
<1>10. ShutdownSignal => status'[p] # "up"
  BY <1>5, <1>7
<1>11. ShutdownKill => status'[p] \notin {"up", "told"} \/ p \notin Alive
  BY <1>5, <1>7
<1> QED
  BY <1>1, <1>2, <1>3, <1>9, <1>10, <1>11 DEF p

\* An activation stays in order when nobody joins the list or comes to life.
LEMMA FitsKept ==
    ASSUME NEW h \in Activation, ActivationFits(h), Declines,
           Elements(workers') \subseteq Elements(workers), Elements(workers) \subseteq Procs
    PROVE  ActivationFits(h)'
<1>1. Elements(h.todo) \subseteq Procs
  BY ElementsType DEF Activation
<1>2. Elements(workers)' \subseteq Elements(workers) /\ Elements(h.todo)' = Elements(h.todo)
  BY DEF Elements
<1> QED
  BY <1>1, <1>2 DEF ActivationFits, Declines

\* At the start nobody is alive and nobody shuts anything down.
LEMMA TrackedInit == Init => Tracked /\ Activations
<1> SUFFICES ASSUME Init
             PROVE  Tracked /\ Activations
  OBVIOUS
<1>1. Len(status) = 0 /\ Len(handlers) = 0
  BY EmptySeq DEF Init
<1>2. Alive = {}
  BY <1>1 DEF Alive, Procs
<1> QED
  BY <1>1, <1>2 DEF Init, Tracked, Activations

\* No step loses sight of a living worker.
LEMMA TrackedStep ==
    TypeOK /\ Counted /\ Tracked /\ Activations /\ [Next]_vars => Tracked'
<1> SUFFICES ASSUME TypeOK, Counted, Tracked, Activations, [Next]_vars
             PROVE  Tracked'
  OBVIOUS
<1>0. /\ status \in Seq(Statuses) /\ Len(status) \in Nat
      /\ workers \in Seq(Procs) /\ todo \in Seq(Procs) /\ alive \in Seq(Procs)
  BY LenProperties DEF TypeOK, Statuses
<1>1. CASE SpawnStart
  <2>1. /\ Len(status') = Len(status) + 1 /\ newborn = 0 /\ newborn' = Len(status) + 1
        /\ \A p \in Procs : status'[p] = status[p]
    BY <1>0, <1>1, AppendProperties DEF SpawnStart, Statuses, Procs
  <2>2. Procs' = Procs \cup {newborn'} /\ newborn \notin Procs
    BY <1>0, <2>1 DEF Procs
  <2>3. Alive' \subseteq Alive \cup {newborn'}
    BY <2>1, <2>2 DEF Alive
  <2>4. Alive \subseteq Elements(workers)
    BY <2>2 DEF Tracked, Alive
  <2>5. main' \in {"start", "fill"} /\ workers' = workers
    BY <1>1 DEF SpawnStart, WantsWorker, Running
  <2> QED
    BY <2>3, <2>4, <2>5 DEF Tracked, Elements
<1>2. CASE SpawnAppend
  <2>1. newborn \in Procs
    BY <1>0, <1>2 DEF SpawnAppend, TypeOK, Procs
  <2>2. Elements(workers') = Elements(workers) \cup {newborn}
    BY <1>0, <1>2, <2>1, ElementsAppend DEF SpawnAppend
  <2>3. Alive' = Alive /\ main' \in {"start", "fill"}
    BY <1>2 DEF SpawnAppend, Running, Alive, Procs
  <2>4. Elements(workers)' = Elements(workers')
    BY DEF Elements
  <2> QED
    BY <2>2, <2>3, <2>4 DEF Tracked
<1>3. CASE SpawnFails \/ StartDone \/ MonitorLoop \/ FillDone \/ PollSleep
  <2>1. /\ UNCHANGED <<status, workers, newborn>>
        /\ main' \notin {"scan", "last", "done"}
    BY <1>3 DEF SpawnFails, StartDone, MonitorLoop, FillDone, PollSleep
  <2> QED
    BY <2>1 DEF Tracked, Elements, Alive, Procs
<1>4. CASE LastShutdown
  <2>1. /\ UNCHANGED <<status, workers, newborn>> /\ main' = "last"
        /\ handlers' # << >>
    BY <1>4 DEF LastShutdown
  <2> QED
    BY <2>1 DEF Tracked, Elements, Alive, Procs
<1>5. CASE RunSupervisedReturns
  <2>1. /\ UNCHANGED <<status, workers, newborn>> /\ main' = "done"
        /\ main = "last" /\ handlers = << >>
    BY <1>5 DEF RunSupervisedReturns, Running
  <2> QED
    BY <2>1 DEF Tracked, Elements, Alive, Procs
<1>6. CASE ReapEnter
  <2>1. /\ UNCHANGED <<status, workers, newborn>> /\ newborn = 0
        /\ main' = "sleep" \/ (main' = "scan" /\ todo' = workers)
    BY <1>6 DEF ReapEnter, Running, Counted
  <2>2. Alive \subseteq Elements(workers)
    BY <1>0, <2>1 DEF Tracked, Alive, Procs
  <2>3. Alive' = Alive /\ Elements(workers)' = Elements(workers)
    BY <2>1 DEF Alive, Procs, Elements
  <2>4. main' = "scan" => Elements(todo)' = Elements(workers)
    BY <2>1 DEF Elements
  <2> QED
    BY <2>1, <2>2, <2>3, <2>4 DEF Tracked
<1>7. CASE ReapScan
  <2>1. /\ main = "scan" /\ main' = "scan" /\ todo # << >> /\ todo' = Tail(todo)
        /\ alive' = IF Head(todo) \in Alive THEN Append(alive, Head(todo)) ELSE alive
        /\ UNCHANGED <<status, workers, newborn>>
    BY <1>7 DEF ReapScan, Running
  <2>2. Head(todo) \in Procs /\ Elements(todo) = Elements(Tail(todo)) \cup {Head(todo)}
    BY <1>0, <2>1, ElementsTail
  <2>3. /\ Head(todo) \in Alive => Elements(alive') = Elements(alive) \cup {Head(todo)}
        /\ Head(todo) \notin Alive => Elements(alive') = Elements(alive)
    BY <1>0, <2>1, <2>2, ElementsAppend
  <2>4. Alive \subseteq Elements(alive') \cup Elements(Tail(todo))
    BY <2>1, <2>2, <2>3 DEF Tracked
  <2>5. /\ Alive' = Alive /\ Elements(workers)' = Elements(workers)
        /\ Elements(alive)' = Elements(alive') /\ Elements(todo)' = Elements(Tail(todo))
    BY <2>1 DEF Alive, Procs, Elements
  <2> QED
    BY <2>1, <2>4, <2>5 DEF Tracked
<1>8. CASE ReapAssign
  <2>1. /\ main = "scan" /\ main' = "fill" /\ todo = << >> /\ workers' = alive
        /\ UNCHANGED <<status, newborn>>
    BY <1>8 DEF ReapAssign, Running
  <2>2. Alive \subseteq Elements(alive)
    BY <2>1, ElementsEmpty DEF Tracked
  <2>3. Alive' = Alive /\ Elements(workers)' = Elements(alive)
    BY <2>1 DEF Alive, Procs, Elements
  <2> QED
    BY <2>1, <2>2, <2>3 DEF Tracked
<1>9. CASE Signal
  <2>1. /\ main # "done" /\ handlers' = Append(handlers, [pc |-> "begin", todo |-> << >>])
        /\ UNCHANGED <<status, workers, main, newborn, todo, alive>>
    BY <1>9 DEF Signal
  <2>2. handlers' # << >>
    <3> DEFINE h == [pc |-> "begin", todo |-> << >>]
    <3>1. handlers \in Seq(Activation) /\ h \in Activation
      BY EmptySeq DEF TypeOK, Activation
    <3> HIDE DEF h
    <3>2. handlers' = Append(handlers, h)
      BY <2>1 DEF h
    <3> QED
      BY <3>1, <3>2, AppendProperties, EmptySeq
  <2> QED
    BY <2>1, <2>2 DEF Tracked, Elements, Alive, Procs
<1>10. ASSUME Declines, UNCHANGED <<workers, newborn, main, todo, alive>>,
              handlers # << >> => handlers' # << >>
       PROVE  Tracked'
  <2>1. /\ Alive' \subseteq Alive /\ Elements(workers)' = Elements(workers)
        /\ Elements(alive)' = Elements(alive) /\ Elements(todo)' = Elements(todo)
    BY <1>10 DEF Declines, Elements
  <2> QED
    BY <1>10, <2>1 DEF Tracked
<1>11. CASE ShutdownBegin \/ ShutdownSignal \/ ShutdownJoin \/ ShutdownKill
  <2>1. /\ handlers # << >> /\ UNCHANGED <<workers, newborn, main, todo, alive>>
        /\ UNCHANGED status \/ ShutdownSignal \/ ShutdownKill
        /\ \E pc \in {"begin", "term", "kill"}, procs \in Seq(Procs) : Go(pc, procs)
    <3>1. CASE ShutdownBegin \/ ShutdownJoin
      BY <1>0, <3>1 DEF ShutdownBegin, ShutdownJoin, In
    <3>2. CASE ShutdownSignal \/ ShutdownKill
      BY <3>2, SignalledStatus DEF ShutdownSignal, ShutdownKill
    <3> QED
      BY <1>11, <3>1, <3>2
  <2>2. Declines
    BY <2>1, StatusDeclines
  <2>3. Len(status') = Len(status)
    BY <2>1, SignalledStatus
  <2>4. Len(handlers') = Len(handlers) /\ Len(handlers) \in 1..Len(handlers)
    BY <2>1, <2>3, GoType
  <2>5. handlers' # << >>
    BY <2>4, EmptySeq
  <2> QED
    BY <1>10, <2>1, <2>2, <2>5
<1>12. CASE ShutdownReturn
  <2>1. /\ handlers # << >> /\ Top.pc = "kill" /\ Top.todo = << >> /\ workers' = << >>
        /\ UNCHANGED <<status, newborn, main, todo, alive>>
    BY <1>12 DEF ShutdownReturn, In
  <2>2. ActivationFits(Top)
    BY <2>1, TopType DEF Top, Activations
  <2>3. Alive \cap Elements(workers) = {}
    BY <2>1, <2>2, ElementsEmpty DEF ActivationFits
  <2>4. Alive \subseteq {newborn}
    BY <2>3 DEF Tracked
  <2>5. main = "last" => Alive = {}
    BY <1>0, <2>4 DEF Counted, Alive, Procs
  <2>6. Alive' = Alive /\ Elements(alive)' = Elements(alive) /\ Elements(todo)' = Elements(todo)
    BY <2>1 DEF Alive, Procs, Elements
  <2> QED
    BY <2>1, <2>4, <2>5, <2>6 DEF Tracked
<1>13. ASSUME NEW p \in Procs, WorkerDies(p) \/ WorkerStops(p)
       PROVE  Tracked'
  <2>1. Declines
    BY <1>13, StatusDeclines
  <2> QED
    BY <1>10, <1>13, <2>1 DEF WorkerDies, WorkerStops
<1>14. CASE UNCHANGED vars
  BY <1>14 DEF vars, Tracked, Elements, Alive, Procs
<1> QED
  BY <1>1, <1>2, <1>3, <1>4, <1>5, <1>6, <1>7, <1>8, <1>9, <1>11, <1>12, <1>13, <1>14
  DEF Next, MasterStep

\* A step of the innermost activation: the others stay in order, it is put in
\* order by what the step itself says.
LEMMA GoKeeps ==
    ASSUME TypeOK, Activations, handlers # << >>, Declines,
           workers' = workers,
           NEW pc \in {"begin", "term", "kill"}, NEW procs \in Seq(Procs), Go(pc, procs),
           ActivationFits([pc |-> pc, todo |-> procs])',
           Len(status') = Len(status)
    PROVE  Activations'
<1>1. /\ Len(handlers') = Len(handlers)
      /\ handlers'[Len(handlers)] = [pc |-> pc, todo |-> procs]
      /\ \A i \in 1..Len(handlers) : i # Len(handlers) => handlers'[i] = handlers[i]
  BY GoType
<1>2. Elements(workers) \subseteq Procs /\ Elements(workers') = Elements(workers)
  BY ElementsType DEF TypeOK
<1>3. ASSUME NEW i \in 1..Len(handlers), i # Len(handlers)
      PROVE  ActivationFits(handlers[i])'
  <2>1. handlers'[i] = handlers[i] /\ handlers[i] \in Activation /\ ActivationFits(handlers[i])
    BY <1>1, <1>3, TopType, ElementOfSeq DEF Activations
  <2>2. PICK g \in Activation : g = handlers[i]
    BY <2>1
  <2>3. ActivationFits(g)
    BY <2>1, <2>2
  <2>4. ActivationFits(g)'
    BY <1>2, <2>3, FitsKept
  <2>5. g = handlers'[i]
    BY <2>1, <2>2
  <2> QED
    BY <2>4, <2>5 DEF ActivationFits
<1> QED
  BY <1>1, <1>3 DEF Activations, ActivationFits

\* Every step leaves each activation of shutdown() with what it still owes.
LEMMA ActivationsStep ==
    TypeOK /\ Counted /\ Tracked /\ Activations /\ [Next]_vars => Activations'
<1> SUFFICES ASSUME TypeOK, Activations, [Next]_vars
             PROVE  Activations'
  OBVIOUS
<1>0. workers \in Seq(Procs) /\ Elements(workers) \subseteq Procs
  BY ElementsType DEF TypeOK
<1>1. CASE \/ SpawnStart \/ SpawnAppend \/ SpawnFails \/ StartDone \/ MonitorLoop
           \/ ReapEnter \/ ReapScan \/ ReapAssign \/ FillDone \/ PollSleep
           \/ RunSupervisedReturns
  <2>1. handlers' = << >>
    BY <1>1 DEF SpawnStart, SpawnAppend, SpawnFails, WantsWorker, StartDone, MonitorLoop,
                ReapEnter, ReapScan, ReapAssign, FillDone, PollSleep,
                RunSupervisedReturns, Running
  <2>2. Len(handlers') = 0
    BY <2>1, EmptySeq
  <2> QED
    BY <2>2 DEF Activations
<1>2. CASE LastShutdown
  <2>1. handlers' = <<[pc |-> "begin", todo |-> << >>]>>
    BY <1>2 DEF LastShutdown
  <2>2. Len(handlers') = 1 /\ handlers'[1].pc = "begin"
    BY <2>1
  <2> QED
    BY <2>2 DEF Activations, ActivationFits
<1>3. CASE Signal
  <2> DEFINE h == [pc |-> "begin", todo |-> << >>]
  <2>1. h \in Activation /\ h.pc = "begin" /\ handlers \in Seq(Activation)
    BY EmptySeq DEF Activation, TypeOK
  <2>2. handlers' = Append(handlers, h) /\ UNCHANGED <<status, workers>>
    BY <1>3 DEF Signal
  <2> HIDE DEF h
  <2>3. /\ Len(handlers) \in Nat /\ Len(handlers') = Len(handlers) + 1
        /\ handlers'[Len(handlers) + 1] = h
        /\ \A i \in 1..Len(handlers) : handlers'[i] = handlers[i]
    BY <2>1, <2>2, AppendProperties, LenProperties
  <2>4. ASSUME NEW i \in 1..Len(handlers')
        PROVE  ActivationFits(handlers[i])'
    <3>1. CASE i = Len(handlers) + 1
      BY <2>1, <2>3, <3>1 DEF ActivationFits
    <3>2. CASE i # Len(handlers) + 1
      <4>1. i \in 1..Len(handlers)
        BY <2>3, <3>2
      <4>2. ActivationFits(handlers[i]) /\ handlers'[i] = handlers[i]
        BY <2>3, <4>1 DEF Activations
      <4> QED
        BY <2>2, <4>2 DEF ActivationFits, Elements, Alive, Procs
    <3> QED
      BY <3>1, <3>2
  <2> QED
    BY <2>4 DEF Activations
<1>4. CASE ShutdownBegin
  <2>1. handlers # << >> /\ UNCHANGED <<status, workers>> /\ Go("term", workers)
    BY <1>4 DEF ShutdownBegin, In
  <2>2. ActivationFits([pc |-> "term", todo |-> workers])'
    BY <2>1 DEF ActivationFits, Elements
  <2>3. Declines
    BY <2>1, StatusDeclines
  <2> QED
    BY <1>0, <2>1, <2>2, <2>3, GoKeeps
<1>5. CASE ShutdownSignal
  <2>1. /\ handlers # << >> /\ Top.pc = "term" /\ UNCHANGED workers
        /\ Go("term", Tail(Top.todo))
    BY <1>5 DEF ShutdownSignal, In
  <2>2. ActivationFits(Top)
    BY <2>1, TopType DEF Top, Activations
  <2>3. ASSUME NEW q \in Elements(workers), status'[q] = "up"
        PROVE  q \in Elements(Tail(Top.todo))
    <3>1. status[q] = "up"
      BY <1>0, <1>5, <2>3, SignalledStatus DEF Declines
    <3>2. q \in Elements(Top.todo) /\ q # Head(Top.todo)
      BY <1>5, <2>1, <2>2, <2>3, <3>1, SignalledStatus DEF ActivationFits
    <3> QED
      BY <1>5, <3>2, SignalledStatus
  <2>4. PICK t \in Seq(Procs) : t = Tail(Top.todo)
    BY <1>5, SignalledStatus
  <2>5. ActivationFits([pc |-> "term", todo |-> t])'
    BY <2>1, <2>3, <2>4 DEF ActivationFits, Elements
  <2>6. Declines /\ Len(status') = Len(status) /\ Go("term", t)
    BY <1>5, <2>1, <2>4, SignalledStatus
  <2> QED
    BY <2>1, <2>5, <2>6, GoKeeps
<1>6. CASE ShutdownJoin
  <2>1. /\ handlers # << >> /\ Top.pc = "term" /\ Top.todo = << >>
        /\ UNCHANGED <<status, workers>> /\ Go("kill", workers)
    BY <1>6 DEF ShutdownJoin, In
  <2>2. ActivationFits(Top)
    BY <2>1, TopType DEF Top, Activations
  <2>3. \A q \in Elements(workers) : status[q] # "up"
    BY <2>1, <2>2, ElementsEmpty DEF ActivationFits
  <2>4. ActivationFits([pc |-> "kill", todo |-> workers])'
    BY <2>1, <2>3 DEF ActivationFits, Elements
  <2>5. Declines
    BY <2>1, StatusDeclines
  <2> QED
    BY <1>0, <2>1, <2>4, <2>5, GoKeeps
<1>7. CASE ShutdownKill
  <2>1. /\ handlers # << >> /\ Top.pc = "kill" /\ UNCHANGED workers
        /\ Go("kill", Tail(Top.todo))
    BY <1>7 DEF ShutdownKill, In
  <2>2. ActivationFits(Top)
    BY <2>1, TopType DEF Top, Activations
  <2>3. ASSUME NEW q \in Elements(workers), q \in Alive'
        PROVE  q \in Elements(Tail(Top.todo))
    <3>1. q \in Alive /\ status'[q] \in {"up", "told"}
      BY <1>7, <2>3, SignalledStatus DEF Declines, Alive
    <3>2. q \in Elements(Top.todo) /\ q # Head(Top.todo)
      BY <1>7, <2>1, <2>2, <2>3, <3>1, SignalledStatus DEF ActivationFits
    <3> QED
      BY <1>7, <3>2, SignalledStatus
  <2>4. ASSUME NEW q \in Elements(Tail(Top.todo))
        PROVE  status'[q] # "up"
    <3>1. q \in Elements(Top.todo) /\ q \in Procs
      BY <1>7, SignalledStatus, ElementsType
    <3> QED
      BY <1>7, <2>1, <2>2, <3>1, SignalledStatus DEF ActivationFits, Declines
  <2>5. PICK t \in Seq(Procs) : t = Tail(Top.todo)
    BY <1>7, SignalledStatus
  <2>6. ActivationFits([pc |-> "kill", todo |-> t])'
    BY <2>1, <2>3, <2>4, <2>5 DEF ActivationFits, Elements
  <2>7. Declines /\ Len(status') = Len(status) /\ Go("kill", t)
    BY <1>7, <2>1, <2>5, SignalledStatus
  <2> QED
    BY <2>1, <2>6, <2>7, GoKeeps
<1>8. ASSUME Declines, workers' = workers \/ workers' = << >>,
             handlers' = handlers \/ (/\ handlers # << >>
                                      /\ handlers' = SubSeq(handlers, 1, Len(handlers) - 1))
      PROVE  Activations'
  <2>1. handlers \in Seq(Activation)
    BY DEF TypeOK, Activation
  <2>2. \A i \in 1..Len(handlers') : i \in 1..Len(handlers) /\ handlers'[i] = handlers[i]
    <3>1. CASE handlers' = handlers
      BY <3>1
    <3>2. CASE /\ handlers # << >>
               /\ handlers' = SubSeq(handlers, 1, Len(handlers) - 1)
      BY <2>1, <3>2, TopRemoved
    <3> QED
      BY <1>8, <3>1, <3>2
  <2>3. Elements(workers') \subseteq Elements(workers)
    BY <1>8, ElementsEmpty
  <2>4. ASSUME NEW i \in 1..Len(handlers')
        PROVE  ActivationFits(handlers[i])'
    <3>1. PICK g \in Activation : g = handlers[i] /\ g = handlers'[i]
      BY <2>1, <2>2, ElementOfSeq
    <3>2. ActivationFits(g)
      BY <2>2, <3>1 DEF Activations
    <3>3. ActivationFits(g)'
      BY <1>0, <1>8, <2>3, <3>2, FitsKept
    <3> QED
      BY <3>1, <3>3 DEF ActivationFits
  <2> QED
    BY <2>4 DEF Activations
<1>9. CASE ShutdownReturn
  <2>1. UNCHANGED status
    BY <1>9 DEF ShutdownReturn
  <2>2. Declines
    BY <2>1, StatusDeclines
  <2> QED
    BY <1>8, <1>9, <2>2 DEF ShutdownReturn, In
<1>10. ASSUME NEW p \in Procs, WorkerDies(p) \/ WorkerStops(p)
       PROVE  Activations'
  <2>1. Declines
    BY <1>10, StatusDeclines
  <2> QED
    BY <1>8, <1>10, <2>1 DEF WorkerDies, WorkerStops
<1>11. CASE UNCHANGED vars
  <2>1. UNCHANGED <<status, workers, handlers>>
    BY <1>11 DEF vars
  <2>2. Declines
    BY <2>1, StatusDeclines
  <2> QED
    BY <1>8, <2>1, <2>2
<1> QED
  BY <1>1, <1>2, <1>3, <1>4, <1>5, <1>6, <1>7, <1>9, <1>10, <1>11 DEF Next, MasterStep

-----------------------------------------------------------------------------
(* The theorems.                                                           *)

\* In every state no living worker is out of the master's sight, and each
\* activation of shutdown() has before it what it still owes.
THEOREM SupervisorInvariant == Spec => []SupervisorInv
<1>1. Init => SupervisorInv
  BY TypeInit, CountedInit, TrackedInit DEF SupervisorInv
<1>2. SupervisorInv /\ [Next]_vars => SupervisorInv'
  BY TypeStep, CountedStep, TrackedStep, ActivationsStep DEF SupervisorInv
<1> QED
  BY <1>1, <1>2, PTL DEF Spec

\* Type correctness of the master.
THEOREM SupervisorTypeCorrect == Spec => []TypeOK
<1>1. SupervisorInv => TypeOK
  BY DEF SupervisorInv
<1> QED
  BY <1>1, SupervisorInvariant, PTL

\* When run_supervised returns, no worker is alive, for any number of workers
\* and of signals, wherever each of them interrupts.
THEOREM NoWorkerIsOrphaned == Spec => []NoOrphans
<1>1. SupervisorInv => NoOrphans
  BY DEF SupervisorInv, Tracked, NoOrphans
<1> QED
  BY <1>1, SupervisorInvariant, PTL

\* The master never has more than n workers alive, the replacements and the
\* worker it is starting included.
THEOREM NeverMoreThanN == Spec => []AtMostN
<1>1. SupervisorInv => AtMostN
  <2> SUFFICES ASSUME SupervisorInv
               PROVE  Cardinality(Alive) <= N
    BY DEF AtMostN
  <2>1. /\ workers \in Seq(Procs) /\ Len(workers) \in Nat /\ Len(status) \in Nat
        /\ N \in Nat /\ left \in Nat
    BY LenProperties, NAssumption DEF SupervisorInv, TypeOK
  <2>2. CASE newborn = 0
    <3>1. Alive \subseteq Elements(workers)
      BY <2>1, <2>2 DEF SupervisorInv, Tracked, Alive, Procs
    <3>2. Cardinality(Alive) \in Nat /\ Cardinality(Alive) <= Len(workers)
      BY <2>1, <3>1, ElementsCardinality
    <3> QED
      BY <2>1, <3>2 DEF SupervisorInv, Counted
  <2>3. CASE newborn # 0
    <3>1. newborn \in Procs
      BY <2>1, <2>3 DEF SupervisorInv, TypeOK, Procs
    <3>2. /\ Append(workers, newborn) \in Seq(Procs)
          /\ Len(Append(workers, newborn)) = Len(workers) + 1
          /\ Elements(Append(workers, newborn)) = Elements(workers) \cup {newborn}
      BY <2>1, <3>1, ElementsAppend
    <3>3. Alive \subseteq Elements(Append(workers, newborn))
      BY <3>2 DEF SupervisorInv, Tracked
    <3>4. Cardinality(Alive) \in Nat /\ Cardinality(Alive) <= Len(workers) + 1
      BY <3>2, <3>3, ElementsCardinality
    <3>5. Len(workers) + 1 <= N
      BY <2>1, <2>3 DEF SupervisorInv, Counted
    <3> QED
      BY <2>1, <3>4, <3>5
  <2> QED
    BY <2>2, <2>3
<1> QED
  BY <1>1, SupervisorInvariant, PTL

\* SIGKILL only ever hits a worker that was sent SIGTERM before.
THEOREM KillsOnlyTheTold == Spec => KillOnlyAfterTerm
<1> DEFINE Told == \A p \in Procs : status'[p] = "killed" => status[p] \in {"told", "killed"}
<1>1. SupervisorInv /\ [Next]_vars => [Told]_vars
  <2> SUFFICES ASSUME SupervisorInv, [Next]_vars,
                      NEW p \in Procs, status'[p] = "killed"
               PROVE  status[p] \in {"told", "killed"}
    OBVIOUS
  <2>0. TypeOK /\ status \in [Procs -> Statuses] /\ Activations /\ Len(status) \in Nat
    BY LenProperties DEF SupervisorInv, TypeOK, Statuses, Procs
  <2>1. CASE UNCHANGED status
    BY <2>1
  <2>2. CASE SpawnStart
    BY <2>0, <2>2, AppendProperties DEF SpawnStart, Procs, TypeOK
  <2>3. CASE ShutdownSignal
    BY <2>0, <2>3 DEF ShutdownSignal
  <2>4. CASE ShutdownKill
    <3>1. /\ handlers # << >> /\ Top.pc = "kill" /\ Head(Top.todo) \in Elements(Top.todo)
      BY <2>0, <2>4, SignalledStatus DEF ShutdownKill, In
    <3>2. ActivationFits(Top)
      BY <2>0, <3>1, TopType DEF Top, Activations
    <3>3. status[Head(Top.todo)] # "up"
      BY <3>1, <3>2 DEF ActivationFits
    <3>4. status' = [status EXCEPT ![Head(Top.todo)] =
                       IF Head(Top.todo) \in Alive THEN "killed" ELSE @]
      BY <2>4 DEF ShutdownKill
    <3> QED
      BY <2>0, <3>3, <3>4 DEF Alive
  <2>5. ASSUME NEW q \in Procs, WorkerDies(q) \/ WorkerStops(q)
        PROVE  status[p] \in {"told", "killed"}
    <3>1. PICK how \in {"exited", "failed"} : status' = [status EXCEPT ![q] = how]
      BY <2>5 DEF WorkerDies, WorkerStops
    <3> QED
      BY <2>0, <3>1
  <2>6. CASE \/ SpawnAppend \/ SpawnFails \/ StartDone \/ MonitorLoop \/ ReapEnter
             \/ ReapScan \/ ReapAssign \/ FillDone \/ PollSleep \/ LastShutdown
             \/ RunSupervisedReturns \/ ShutdownBegin \/ ShutdownJoin \/ ShutdownReturn
             \/ Signal \/ UNCHANGED vars
    BY <2>1, <2>6 DEF SpawnAppend, SpawnFails, StartDone, MonitorLoop, ReapEnter, ReapScan,
       ReapAssign, FillDone, PollSleep, LastShutdown, RunSupervisedReturns,
       ShutdownBegin, ShutdownJoin, ShutdownReturn, Signal, vars
  <2> QED
    BY <2>2, <2>3, <2>4, <2>5, <2>6 DEF Next, MasterStep
<1> QED
  BY <1>1, SupervisorInvariant, PTL DEF Spec, KillOnlyAfterTerm
=============================================================================
