---------------------------- MODULE IntakeProofs ----------------------------
(***************************************************************************)
(* From bytes to requests, for any heads, any number of messages and of    *)
(* chunks, and any cut into buffers.                                       *)
(*                                                                         *)
(* The argument: what the worker took, what is queued and what the         *)
(* collector holds are one sequence (Requests), which no step but the end  *)
(* of a message and a failure changes; and while the parser is inside a    *)
(* message the accumulators hold what came of that message.                *)
(***************************************************************************)
EXTENDS Intake, SequenceTheorems, FiniteSetTheorems, WellFoundedInduction, TLAPS

Request == [pieces : Pieces, keep : BOOLEAN]
Written == [what : {"continue", "answer", "400"}, n : Nat]
ProperHeaders == {h \in Headers : h.name = "for" => h.hosts # << >>}

Typed ==
    /\ peer \in Addresses /\ trusted \subseteq Hosts
    /\ feeding \in BOOLEAN
    /\ stage \in {"between", "url", "headers", "body"}
    /\ message.n \in 0..MaxMessages
    /\ message.head.headers \in Seq(ProperHeaders)
    /\ collector \in [pieces : Pieces, requests : Seq(Request)]
    /\ queue \in Seq(Request) /\ taken \in Seq(Request)
    /\ transport \in {"open", "closing", "closed", "lost"}
    /\ feeding => transport = "open"
    /\ wire \in Seq(Written)
    /\ came \in Seq(Pieces) /\ Len(came) = message.n
    /\ \A n \in 1..Len(came) : came[n].headers \in Seq(ProperHeaders)

\* Inside a message, the accumulators hold what came of it so far, and the
\* headers that came are the first ones of its head.
Filling ==
    stage # "between" =>
        /\ message.n > 0
        /\ collector.pieces = came[message.n]
        /\ Len(came[message.n].headers) <= Len(message.head.headers)
        /\ \A k \in 1..Len(came[message.n].headers) :
             came[message.n].headers[k] = message.head.headers[k]
        /\ stage = "body" => Len(came[message.n].headers) = Len(message.head.headers)

\* A 100 Continue is for the message its headers are complete of, or an earlier
\* one; an answer is for a message that was taken.
Ordered ==
    \A i \in DOMAIN wire :
        /\ wire[i].what = "continue" =>
             /\ wire[i].n <= message.n
             /\ stage \in {"url", "headers"} => wire[i].n < message.n
        /\ wire[i].what = "answer" => wire[i].n <= Len(taken)

\* Where a 100 Continue for the n-th message was written.
Continues(n) == {i \in DOMAIN wire : wire[i].what = "continue" /\ wire[i].n = n}

\* The client waits for it before it sends the body.
HeldBack == message.head.version = "1.1" /\ HasHeader(message.head.headers, "expect")

\* ContinueFits in two parts: once when it was asked for, and before the answer.
AtMostAsked ==
    stage = "body" => Cardinality(Continues(message.n)) = IF HeldBack THEN 1 ELSE 0

BeforeAnswers ==
    \A i, j \in DOMAIN wire :
        (/\ wire[i].what = "answer" /\ wire[j].what = "continue"
         /\ wire[j].n = wire[i].n) => j < i

IntakeInv ==
    Typed /\ Filling /\ RequestsAreWhole /\ Ordered /\ AtMostAsked /\ BeforeAnswers

-----------------------------------------------------------------------------
(* The requests, from the one the worker took first to the one the parser  *)
(* completed last, as a concatenation of three sequences.                  *)

\* Three sequences in a row are a sequence of their type.
LEMMA RowType ==
    ASSUME NEW S, NEW t \in Seq(S), NEW q \in Seq(S), NEW c \in Seq(S)
    PROVE  /\ t \o q \o c \in Seq(S)
           /\ Len(t \o q \o c) = Len(t) + Len(q) + Len(c)
           /\ Len(t) \in Nat /\ Len(q) \in Nat /\ Len(c) \in Nat
           /\ \A i \in 1..Len(t) : (t \o q \o c)[i] = t[i]
           /\ \A i \in 1..Len(q) : (t \o q \o c)[Len(t) + i] = q[i]
           /\ \A i \in 1..Len(c) : (t \o q \o c)[Len(t) + Len(q) + i] = c[i]
<1> DEFINE u == t \o q
<1>1. /\ u \in Seq(S) /\ Len(u) = Len(t) + Len(q)
      /\ \A i \in 1..(Len(t) + Len(q)) : u[i] = IF i <= Len(t) THEN t[i] ELSE q[i - Len(t)]
  BY ConcatProperties
<1>2. Len(t) \in Nat /\ Len(q) \in Nat /\ Len(c) \in Nat
  BY LenProperties
<1>u. u \in Seq(S)
  BY <1>1
<1> HIDE DEF u
<1>3. /\ u \o c \in Seq(S) /\ Len(u \o c) = Len(u) + Len(c)
      /\ \A i \in 1..(Len(u) + Len(c)) : (u \o c)[i] = IF i <= Len(u) THEN u[i] ELSE c[i - Len(u)]
  BY <1>u, ConcatProperties
<1>4. \A i \in 1..Len(t) : (u \o c)[i] = t[i]
  BY <1>1, <1>2, <1>3
<1>5. ASSUME NEW i \in 1..Len(q)
      PROVE  (u \o c)[Len(t) + i] = q[i]
  <2>1. /\ Len(t) + i \in 1..(Len(u) + Len(c)) /\ Len(t) + i <= Len(u)
        /\ Len(t) + i \in 1..(Len(t) + Len(q)) /\ ~(Len(t) + i <= Len(t))
        /\ (Len(t) + i) - Len(t) = i
    BY <1>1, <1>2
  <2> QED
    BY <1>1, <1>3, <2>1
<1>6. ASSUME NEW i \in 1..Len(c)
      PROVE  (u \o c)[Len(t) + Len(q) + i] = c[i]
  <2>1. /\ Len(t) + Len(q) + i \in 1..(Len(u) + Len(c))
        /\ ~(Len(t) + Len(q) + i <= Len(u))
        /\ (Len(t) + Len(q) + i) - Len(u) = i
    BY <1>1, <1>2
  <2> QED
    BY <1>3, <2>1
<1> QED
  BY <1>1, <1>2, <1>3, <1>4, <1>5, <1>6 DEF u

\* A completed request goes to the end of the row.
LEMMA RowGrows ==
    ASSUME NEW S, NEW t \in Seq(S), NEW q \in Seq(S), NEW c \in Seq(S), NEW r \in S
    PROVE  t \o q \o Append(c, r) = Append(t \o q \o c, r)
<1>1. t \o q \in Seq(S) /\ t \o q \o c \in Seq(S) /\ <<r>> \in Seq(S)
  BY RowType, ConcatProperties
<1>2. Append(c, r) = c \o <<r>> /\ Append(t \o q \o c, r) = (t \o q \o c) \o <<r>>
  BY <1>1, AppendIsConcat
<1> QED
  BY <1>1, <1>2, ConcatAssociative

\* Handing the collector's requests over to the queue moves none.
LEMMA RowHandsOver ==
    ASSUME NEW S, NEW t \in Seq(S), NEW q \in Seq(S), NEW c \in Seq(S)
    PROVE  t \o (q \o c) \o << >> = t \o q \o c
<1>1. q \o c \in Seq(S) /\ t \o (q \o c) \in Seq(S)
  BY ConcatProperties
<1> QED
  BY <1>1, ConcatAssociative, ConcatEmptySeq

\* Taking the head of the queue moves none.
LEMMA RowTaken ==
    ASSUME NEW S, NEW t \in Seq(S), NEW q \in Seq(S), q # << >>, NEW c \in Seq(S)
    PROVE  Append(t, Head(q)) \o Tail(q) \o c = t \o q \o c
<1>1. Head(q) \in S /\ Tail(q) \in Seq(S) /\ <<Head(q)>> \in Seq(S)
  BY HeadTailProperties
<1>2. <<Head(q)>> \o Tail(q) = q
  <2>1. Len(q) \in Nat /\ Len(q) # 0
    BY LenProperties, EmptySeq
  <2>2. 1 \in 1..Len(q) /\ Len(q) \in 1..Len(q)
    BY <2>1
  <2>3. SubSeq(q, 1, Len(q)) = << q[1] >> \o SubSeq(q, 1 + 1, Len(q))
    BY <2>2, SubSeqRecursiveFirst
  <2>4. Tail(q) = SubSeq(q, 2, Len(q)) /\ SubSeq(q, 1, Len(q)) = q /\ Head(q) = q[1]
    BY TailIsSubSeq, SubSeqFull
  <2> QED
    BY <2>3, <2>4
<1>3. Append(t, Head(q)) = t \o <<Head(q)>>
  BY <1>1, AppendIsConcat
<1>4. (t \o <<Head(q)>>) \o Tail(q) = t \o (<<Head(q)>> \o Tail(q))
  BY <1>1, ConcatAssociative
<1> QED
  BY <1>2, <1>3, <1>4

\* One sequence begins another one.
Begins(x, y) == Len(x) <= Len(y) /\ \A i \in 1..Len(x) : x[i] = y[i]

\* Handing over only the first k leaves the first ones of the row.
LEMMA RowCut ==
    ASSUME NEW S, NEW t \in Seq(S), NEW q \in Seq(S), NEW c \in Seq(S),
           NEW k \in 0..Len(c)
    PROVE  /\ q \o SubSeq(c, 1, k) \in Seq(S)
           /\ Begins(t \o (q \o SubSeq(c, 1, k)) \o << >>, t \o q \o c)
<1>1. Len(c) \in Nat /\ k \in Int /\ 1 \in Int /\ \A i \in 1..k : c[i] \in S
  BY LenProperties, ElementOfSeq
<1>2. /\ SubSeq(c, 1, k) \in Seq(S)
      /\ Len(SubSeq(c, 1, k)) = IF 1 <= k THEN k - 1 + 1 ELSE 0
      /\ \A i \in 1..(k - 1 + 1) : SubSeq(c, 1, k)[i] = c[1 + i - 1]
  BY <1>1, SubSeqProperties
<1> DEFINE b == SubSeq(c, 1, k)
<1>3. b \in Seq(S) /\ Len(b) = k /\ \A i \in 1..k : b[i] = c[i]
  BY <1>1, <1>2
<1> HIDE DEF b
<1>4. t \o (q \o b) \o << >> = t \o q \o b /\ q \o b \in Seq(S)
  <2>1. b \in Seq(S)
    BY <1>3
  <2>2. t \o (q \o b) \o << >> = t \o q \o b
    BY <2>1, RowHandsOver
  <2>3. q \o b \in Seq(S)
    BY <2>1, ConcatProperties
  <2> QED
    BY <2>2, <2>3
<1> DEFINE x == t \o q \o b
           y == t \o q \o c
<1>b. b \in Seq(S)
  BY <1>3
<1>x. /\ Len(x) = Len(t) + Len(q) + Len(b)
      /\ \A i \in 1..Len(t) : x[i] = t[i]
      /\ \A i \in 1..Len(q) : x[Len(t) + i] = q[i]
      /\ \A i \in 1..Len(b) : x[Len(t) + Len(q) + i] = b[i]
  BY <1>b, RowType
<1>y. /\ Len(y) = Len(t) + Len(q) + Len(c)
      /\ \A i \in 1..Len(t) : y[i] = t[i]
      /\ \A i \in 1..Len(q) : y[Len(t) + i] = q[i]
      /\ \A i \in 1..Len(c) : y[Len(t) + Len(q) + i] = c[i]
  BY RowType
<1> HIDE DEF x, y
<1>5. /\ Len(x) = Len(t) + Len(q) + k /\ Len(y) = Len(t) + Len(q) + Len(c)
      /\ Len(t) \in Nat /\ Len(q) \in Nat
      /\ \A i \in 1..Len(t) : x[i] = t[i] /\ y[i] = t[i]
      /\ \A i \in 1..Len(q) : x[Len(t) + i] = q[i] /\ y[Len(t) + i] = q[i]
      /\ \A i \in 1..k : x[Len(t) + Len(q) + i] = c[i] /\ y[Len(t) + Len(q) + i] = c[i]
  BY <1>1, <1>3, <1>x, <1>y, LenProperties
<1>6. ASSUME NEW i \in 1..Len(x)
      PROVE  x[i] = y[i]
  <2>1. CASE i <= Len(t)
    BY <1>5, <2>1
  <2>2. CASE Len(t) < i /\ i <= Len(t) + Len(q)
    <3>1. PICK j \in 1..Len(q) : i = Len(t) + j
      <4>1. i - Len(t) \in 1..Len(q) /\ i = Len(t) + (i - Len(t))
        BY <1>5, <2>2
      <4> QED
        BY <4>1
    <3> QED
      BY <1>5, <3>1
  <2>3. CASE Len(t) + Len(q) < i
    <3>1. PICK j \in 1..k : i = Len(t) + Len(q) + j
      <4>1. /\ i - (Len(t) + Len(q)) \in 1..k
            /\ i = Len(t) + Len(q) + (i - (Len(t) + Len(q)))
        BY <1>5, <2>3
      <4> QED
        BY <4>1
    <3> QED
      BY <1>5, <3>1
  <2> QED
    BY <1>5, <2>1, <2>2, <2>3
<1>7. Len(x) <= Len(y)
  BY <1>1, <1>5
<1>8. Begins(x, y)
  BY <1>6, <1>7 DEF Begins
<1> QED
  BY <1>4, <1>8 DEF b, x, y

-----------------------------------------------------------------------------
(* Types, and what the accumulators hold.                                  *)

\* Headers a client sends are proper: a forwarded header lists some host.
LEMMA ProperHeads == \A h \in Heads : h.headers \in Seq(ProperHeaders)
<1> SUFFICES ASSUME NEW h \in Heads
             PROVE  h.headers \in Seq(ProperHeaders)
  OBVIOUS
<1> DEFINE s == h.headers
<1>1. s \in Seq(Headers) /\ \A i \in DOMAIN s : s[i].name = "for" => s[i].hosts # << >>
  BY HeadsAssumption
<1> HIDE DEF s
<1>2. Len(s) \in Nat /\ s \in [1..Len(s) -> Headers] /\ DOMAIN s = 1..Len(s)
  BY <1>1, LenProperties
<1>3. s \in [1..Len(s) -> ProperHeaders]
  BY <1>1, <1>2 DEF ProperHeaders
<1>4. s \in Seq(ProperHeaders)
  BY <1>2, <1>3
<1> QED
  BY <1>4 DEF s

\* The three sequences of requests, their concatenation and its domain.
LEMMA RequestsType ==
    ASSUME Typed
    PROVE  /\ Requests \in Seq(Request) /\ Len(Requests) \in Nat
           /\ DOMAIN Requests = 1..Len(Requests)
           /\ Len(Requests) = Len(taken) + Len(queue) + Len(collector.requests)
           /\ Len(taken) \in Nat /\ Len(queue) \in Nat /\ collector.requests \in Seq(Request)
<1>1. collector.requests \in Seq(Request) /\ queue \in Seq(Request) /\ taken \in Seq(Request)
  BY DEF Typed
<1>2. /\ Requests \in Seq(Request)
      /\ Len(Requests) = Len(taken) + Len(queue) + Len(collector.requests)
      /\ Len(taken) \in Nat /\ Len(queue) \in Nat
  BY <1>1, RowType DEF Requests
<1> QED
  BY <1>1, <1>2, LenProperties

\* One more piece reaches the collector and the message it is of alike.
LEMMA DeliverType ==
    ASSUME Typed, Filling, stage # "between", NEW part, NEW piece, Deliver(part, piece),
           \/ part \in {"url", "body"} /\ piece \in Nat
           \/ part = "headers" /\ piece \in ProperHeaders
    PROVE  /\ collector' \in [pieces : Pieces, requests : Seq(Request)]
           /\ collector'.requests = collector.requests
           /\ message.n \in 1..Len(came) /\ came[message.n] \in Pieces
           /\ came' \in Seq(Pieces) /\ Len(came') = Len(came)
           /\ came'[message.n] = [came[message.n] EXCEPT ![part] = Append(@, piece)]
           /\ collector'.pieces = came'[message.n]
           /\ \A i \in 1..Len(came) : i # message.n => came'[i] = came[i]
           /\ \A i \in 1..Len(came) : came'[i].headers \in Seq(ProperHeaders)
<1>1. /\ message.n \in 1..Len(came) /\ came \in Seq(Pieces)
      /\ collector \in [pieces : Pieces, requests : Seq(Request)]
      /\ collector.pieces = came[message.n]
      /\ \A i \in 1..Len(came) : came[i].headers \in Seq(ProperHeaders)
  BY DEF Typed, Filling
<1>2. came[message.n] \in Pieces
  BY <1>1, ElementOfSeq
<1> DEFINE p == came[message.n]
           r == [p EXCEPT ![part] = Append(@, piece)]
<1>3. came' = [came EXCEPT ![message.n] = r] /\ collector' = [collector EXCEPT !.pieces = r]
  BY <1>1 DEF Deliver
<1>4. r \in Pieces /\ r.headers \in Seq(ProperHeaders)
  <2>1. CASE part = "url" /\ piece \in Nat
    BY <1>1, <1>2, <2>1, AppendProperties DEF Pieces
  <2>2. CASE part = "body" /\ piece \in Nat
    BY <1>1, <1>2, <2>2, AppendProperties DEF Pieces
  <2>3. CASE part = "headers" /\ piece \in ProperHeaders
    <3>1. Append(p.headers, piece) \in Seq(ProperHeaders)
      BY <1>1, <2>3, AppendProperties
    <3>2. Append(p.headers, piece) \in Seq(Headers)
      BY <1>2, <2>3, AppendProperties DEF Pieces, ProperHeaders
    <3> QED
      BY <1>2, <2>3, <3>1, <3>2 DEF Pieces
  <2> QED
    BY <2>1, <2>2, <2>3
<1> HIDE DEF r
<1>5. /\ came' \in Seq(Pieces) /\ Len(came') = Len(came) /\ came'[message.n] = r
      /\ \A i \in 1..Len(came) : i # message.n => came'[i] = came[i]
  BY <1>1, <1>3, <1>4, ExceptSeq
<1>6. /\ collector' \in [pieces : Pieces, requests : Seq(Request)]
      /\ collector'.requests = collector.requests /\ collector'.pieces = r
  BY <1>1, <1>3, <1>4
<1> QED
  BY <1>1, <1>2, <1>4, <1>5, <1>6 DEF r

\* What a callback delivers fits the part it is for.
LEMMA Delivers ==
    ASSUME Typed, Filling, OnUrl \/ OnHeader \/ OnBody
    PROVE  /\ stage # "between" /\ message.n \in Nat
           /\ \E part \in {"url", "headers", "body"} : \E piece :
                /\ Deliver(part, piece)
                /\ \/ part \in {"url", "body"} /\ piece \in Nat
                   \/ /\ part = "headers" /\ piece \in ProperHeaders /\ stage # "body"
                      /\ Len(came[message.n].headers) < Len(message.head.headers)
                      /\ piece = message.head.headers[Len(came[message.n].headers) + 1]
<1>0. stage # "between" /\ message.n \in Nat /\ message.head.headers \in Seq(ProperHeaders)
  BY DEF OnUrl, OnHeader, OnBody, Typed
<1>1. CASE OnUrl
  BY <1>0, <1>1 DEF OnUrl
<1>2. CASE OnBody
  BY <1>0, <1>2 DEF OnBody
<1>3. CASE OnHeader
  <2> DEFINE k == Len(came[message.n].headers)
             h == message.head.headers
  <2>1. stage # "body" /\ k < Len(h) /\ Deliver("headers", h[k + 1])
    BY <1>3 DEF OnHeader
  <2>2. came \in Seq(Pieces) /\ message.n \in 1..Len(came)
    BY <1>0 DEF Typed, Filling
  <2>c. came[message.n] \in Pieces
    BY <2>2, ElementOfSeq
  <2>3. came[message.n].headers \in Seq(Headers)
    BY <2>c DEF Pieces
  <2>4. k \in Nat /\ Len(h) \in Nat
    BY <1>0, <2>3, LenProperties
  <2>5. k + 1 \in 1..Len(h)
    <3> HIDE DEF k, h
    <3> QED
      BY <2>1, <2>4
  <2>6. h[k + 1] \in ProperHeaders
    BY <1>0, <2>5, ElementOfSeq
  <2> QED
    BY <1>0, <2>1, <2>6
<1> QED
  BY <1>1, <1>2, <1>3

\* One more entry in the history of what was written.
LEMMA Writes ==
    ASSUME Typed, NEW what \in {"continue", "answer", "400"}, NEW n \in Nat, Write(what, n)
    PROVE  /\ wire' \in Seq(Written)
           /\ Len(wire) \in Nat /\ DOMAIN wire = 1..Len(wire)
           /\ DOMAIN wire' = 1..(Len(wire) + 1)
           /\ \A i \in DOMAIN wire : wire'[i] = wire[i] /\ wire[i] \in Written
           /\ wire'[Len(wire) + 1].what = what /\ wire'[Len(wire) + 1].n = n
<1> DEFINE r == [what |-> what, n |-> n]
<1>1. r \in Written /\ wire \in Seq(Written) /\ wire' = Append(wire, r)
  BY DEF Written, Typed, Write
<1> HIDE DEF r
<1>2. /\ wire' \in Seq(Written) /\ Len(wire') = Len(wire) + 1
      /\ \A i \in 1..Len(wire) : wire'[i] = wire[i]
      /\ wire'[Len(wire) + 1] = r
  BY <1>1, AppendProperties
<1>3. DOMAIN wire = 1..Len(wire) /\ Len(wire) \in Nat /\ DOMAIN wire' = 1..Len(wire')
  BY <1>1, <1>2, LenProperties
<1> QED
  BY <1>1, <1>2, <1>3, ElementOfSeq DEF r

\* The types and the accumulators at the start.
LEMMA TypedInit == Init => Typed /\ Filling
<1> SUFFICES ASSUME Init
             PROVE  Typed /\ Filling
  OBVIOUS
<1>1. /\ << >> \in Seq(Request) /\ << >> \in Seq(Written) /\ << >> \in Seq(Pieces)
      /\ << >> \in Seq(ProperHeaders) /\ << >> \in Seq(Nat) /\ << >> \in Seq(Headers)
      /\ Len(<< >>) = 0
  BY EmptySeq
<1>2. NoPieces \in Pieces
  BY <1>1 DEF NoPieces, Pieces
<1>3. /\ message.n = 0 /\ message.head.headers = << >> /\ 0 \in 0..MaxMessages
      /\ collector \in [pieces : Pieces, requests : Seq(Request)]
  BY <1>1, <1>2, BoundsAssumption DEF Init
<1>4. Len(came) = 0 /\ 1..0 = {}
  BY <1>1 DEF Init
<1>5. /\ queue \in Seq(Request) /\ taken \in Seq(Request) /\ wire \in Seq(Written)
      /\ came \in Seq(Pieces) /\ stage = "between"
  BY <1>1 DEF Init
<1>6. Typed
  BY <1>1, <1>3, <1>4, <1>5 DEF Init, Typed
<1> QED
  BY <1>5, <1>6 DEF Filling

\* No callback and no step of the connection breaks the types, and the
\* accumulators follow the message.
LEMMA TypedStep == Typed /\ Filling /\ [Next]_vars => Typed' /\ Filling'
<1> SUFFICES ASSUME Typed, Filling, [Next]_vars
             PROVE  Typed' /\ Filling'
  OBVIOUS
<1>0. /\ collector \in [pieces : Pieces, requests : Seq(Request)]
      /\ collector.pieces \in Pieces /\ collector.requests \in Seq(Request)
      /\ queue \in Seq(Request) /\ taken \in Seq(Request) /\ wire \in Seq(Written)
      /\ came \in Seq(Pieces) /\ Len(came) = message.n /\ message.n \in Nat
  BY DEF Typed
<1>n. NoPieces \in Pieces /\ NoPieces.headers = << >> /\ << >> \in Seq(ProperHeaders)
  BY EmptySeq DEF NoPieces, Pieces
<1>1. CASE OnMessageBegin
  <2>1. /\ feeding /\ stage = "between" /\ message.n < MaxMessages /\ stage' = "url"
        /\ collector' = [collector EXCEPT !.pieces = NoPieces]
        /\ came' = Append(came, NoPieces)
        /\ UNCHANGED <<settings, feeding, queue, transport, taken, wire>>
    BY <1>1 DEF OnMessageBegin, Reset
  <2>2. PICK h \in Heads : message' = [n |-> message.n + 1, head |-> h]
    BY <1>1 DEF OnMessageBegin
  <2>3. /\ message'.n = message.n + 1 /\ message'.n \in 0..MaxMessages
        /\ message'.head.headers \in Seq(ProperHeaders)
    BY <1>0, <2>1, <2>2, ProperHeads, BoundsAssumption
  <2>4. /\ collector' \in [pieces : Pieces, requests : Seq(Request)]
        /\ collector'.pieces = NoPieces
    BY <1>0, <1>n, <2>1
  <2>5. /\ came' \in Seq(Pieces) /\ Len(came') = Len(came) + 1
        /\ \A i \in 1..Len(came) : came'[i] = came[i]
        /\ came'[Len(came) + 1] = NoPieces
    BY <1>0, <1>n, <2>1, AppendProperties
  <2>6. \A i \in 1..Len(came') : came'[i].headers \in Seq(ProperHeaders)
    <3> SUFFICES ASSUME NEW i \in 1..Len(came')
                 PROVE  came'[i].headers \in Seq(ProperHeaders)
      OBVIOUS
    <3>1. i \in 1..Len(came) \/ i = Len(came) + 1
      BY <1>0, <2>5
    <3> QED
      BY <1>n, <2>5, <3>1 DEF Typed
  <2>7. Typed'
    BY <1>0, <2>1, <2>3, <2>4, <2>5, <2>6 DEF Typed, settings
  <2>8. Len(<< >>) = 0 /\ Len(message'.head.headers) \in Nat
    BY <2>3, EmptySeq, LenProperties
  <2>9. Filling'
    BY <1>0, <1>n, <2>1, <2>3, <2>4, <2>5, <2>8 DEF Filling
  <2> QED
    BY <2>7, <2>9
<1>2. CASE OnUrl \/ OnHeader \/ OnBody
  <2>1. PICK part \in {"url", "headers", "body"} : \E piece :
          /\ Deliver(part, piece)
          /\ \/ part \in {"url", "body"} /\ piece \in Nat
             \/ /\ part = "headers" /\ piece \in ProperHeaders /\ stage # "body"
                /\ Len(came[message.n].headers) < Len(message.head.headers)
                /\ piece = message.head.headers[Len(came[message.n].headers) + 1]
    BY <1>2, Delivers
  <2>p. PICK piece :
          /\ Deliver(part, piece)
          /\ \/ part \in {"url", "body"} /\ piece \in Nat
             \/ /\ part = "headers" /\ piece \in ProperHeaders /\ stage # "body"
                /\ Len(came[message.n].headers) < Len(message.head.headers)
                /\ piece = message.head.headers[Len(came[message.n].headers) + 1]
    BY <2>1
  <2>2. /\ stage # "between" /\ stage' \in {"url", "headers", "body"}
        /\ stage' = "body" => stage = "body"
        /\ UNCHANGED <<settings, feeding, message, queue, transport, taken, wire>>
    BY <1>2 DEF OnUrl, OnHeader, OnBody
  <2>3. /\ collector' \in [pieces : Pieces, requests : Seq(Request)]
        /\ came[message.n] \in Pieces
        /\ came' \in Seq(Pieces) /\ Len(came') = Len(came)
        /\ came'[message.n] = [came[message.n] EXCEPT ![part] = Append(@, piece)]
        /\ collector'.pieces = came'[message.n]
        /\ \A i \in 1..Len(came) : came'[i].headers \in Seq(ProperHeaders)
    BY <2>2, <2>p, DeliverType
  <2>4. Typed'
    BY <1>0, <2>2, <2>3 DEF Typed, settings
  <2> DEFINE old == came[message.n].headers
             new == came'[message.n].headers
             all == message.head.headers
  <2>5. /\ old \in Seq(Headers) /\ Len(old) \in Nat /\ Len(all) \in Nat
        /\ message.n > 0 /\ Len(old) <= Len(all) /\ \A k \in 1..Len(old) : old[k] = all[k]
        /\ stage = "body" => Len(old) = Len(all)
    <3>1. old \in Seq(Headers)
      BY <2>3 DEF Pieces
    <3>2. all \in Seq(ProperHeaders)
      BY DEF Typed
    <3> QED
      BY <2>2, <3>1, <3>2, LenProperties DEF Filling
  <2>6. CASE part \in {"url", "body"}
    <3>1. new = old
      BY <2>3, <2>6 DEF Pieces
    <3> QED
      BY <2>2, <2>3, <2>4, <2>5, <3>1 DEF Filling
  <2>7. CASE part = "headers"
    <3>1. /\ new = Append(old, piece) /\ piece \in Headers /\ stage # "body"
          /\ Len(old) < Len(all) /\ piece = all[Len(old) + 1]
      BY <2>3, <2>7, <2>p DEF Pieces, ProperHeaders
    <3> HIDE DEF old, new, all
    <3>2. /\ Len(new) = Len(old) + 1 /\ new[Len(old) + 1] = piece
          /\ \A k \in 1..Len(old) : new[k] = old[k]
      BY <2>5, <3>1, AppendProperties
    <3>3. Len(new) <= Len(all) /\ \A k \in 1..Len(new) : new[k] = all[k]
      BY <2>5, <3>1, <3>2
    <3>4. stage' # "body"
      BY <2>2, <3>1
    <3> QED
      BY <2>2, <2>3, <2>4, <2>5, <3>3, <3>4 DEF Filling, new, all
  <2> QED
    BY <2>1, <2>6, <2>7
<1>3. CASE OnHeadersComplete
  <2>1. /\ stage \in {"url", "headers"} /\ stage' = "body"
        /\ Len(came[message.n].headers) = Len(message.head.headers)
        /\ UNCHANGED <<settings, feeding, message, collector, queue, transport, taken, came>>
        /\ UNCHANGED wire \/ Write("continue", message.n)
    BY <1>3 DEF OnHeadersComplete
  <2>2. wire' \in Seq(Written)
    BY <1>0, <2>1, <1>0, Writes
  <2> QED
    BY <1>0, <2>1, <2>2 DEF Typed, Filling, settings
<1>4. CASE OnMessageComplete
  <2> DEFINE r == [pieces |-> collector.pieces,
                   keep |-> KeepAlive(message.head.version, collector.pieces.headers)]
  <2>1. /\ stage' = "between"
        /\ collector' = [pieces |-> NoPieces, requests |-> Append(collector.requests, r)]
        /\ UNCHANGED <<settings, feeding, message, queue, transport, taken, wire, came>>
    BY <1>4 DEF OnMessageComplete, Reset
  <2>2. r \in Request
    BY <1>0 DEF Request, KeepAlive, HasHeader
  <2> HIDE DEF r
  <2>3. collector' \in [pieces : Pieces, requests : Seq(Request)]
    BY <1>0, <1>n, <2>1, <2>2, AppendProperties
  <2> QED
    BY <1>0, <2>1, <2>3 DEF Typed, Filling, settings
<1>5. CASE BufferBegins
  BY <1>0, <1>5 DEF BufferBegins, Typed, Filling, settings
<1>6. CASE BufferEnds \/ InvalidUrl
  <2>1. /\ feeding' = FALSE /\ transport' \in {transport, "lost"}
        /\ collector' = [collector EXCEPT !.requests = << >>]
        /\ UNCHANGED <<settings, stage, message, taken, wire, came>>
    BY <1>6 DEF BufferEnds, InvalidUrl
  <2>2. queue' \in Seq(Request)
    <3>1. CASE BufferEnds
      BY <1>0, <3>1, ConcatProperties DEF BufferEnds
    <3>2. CASE InvalidUrl
      <4>1. PICK i \in DOMAIN collector.requests :
              queue' = queue \o SubSeq(collector.requests, 1, i - 1)
        BY <3>2 DEF InvalidUrl
      <4>2. i - 1 \in 0..Len(collector.requests)
        BY <1>0, <4>1, LenProperties
      <4> QED
        BY <1>0, <4>1, <4>2, RowCut
    <3> QED
      BY <1>6, <3>1, <3>2
  <2>3. /\ collector' \in [pieces : Pieces, requests : Seq(Request)]
        /\ collector'.pieces = collector.pieces
    BY <1>0, <2>1, EmptySeq
  <2> QED
    BY <1>0, <2>1, <2>2, <2>3 DEF Typed, Filling, settings
<1>7. CASE ParserError \/ ParserUpgrade
  <2>1. /\ feeding' = FALSE /\ transport' \in {"closing", "lost"}
        /\ UNCHANGED <<settings, stage, message, collector, queue, taken, came>>
        /\ UNCHANGED wire \/ Write("400", message.n)
    BY <1>7 DEF ParserError, ParserUpgrade
  <2>2. wire' \in Seq(Written)
    BY <1>0, <2>1, <1>0, Writes
  <2> QED
    BY <1>0, <2>1, <2>2 DEF Typed, Filling, settings
<1>8. CASE Answer
  <2>1. /\ ~feeding /\ queue # << >> /\ transport' \in {transport, "open", "closed"}
        /\ taken' = Append(taken, Head(queue)) /\ queue' = Tail(queue)
        /\ UNCHANGED <<settings, feeding, stage, message, collector, came>>
        /\ UNCHANGED wire \/ Write("answer", Len(taken'))
    BY <1>8 DEF Answer
  <2>2. Head(queue) \in Request /\ queue' \in Seq(Request)
    BY <1>0, <2>1, HeadTailProperties
  <2>3. taken' \in Seq(Request) /\ Len(taken') \in Nat
    BY <1>0, <2>1, <2>2, AppendProperties, LenProperties
  <2>4. wire' \in Seq(Written)
    BY <1>0, <2>1, <2>3, Writes
  <2> QED
    BY <1>0, <2>1, <2>2, <2>3, <2>4 DEF Typed, Filling, settings
<1>9. CASE UNCHANGED vars
  BY <1>0, <1>9 DEF vars, settings, Typed, Filling
<1> QED
  BY <1>1, <1>2, <1>3, <1>4, <1>5, <1>6, <1>7, <1>8, <1>9 DEF Next, Callback

-----------------------------------------------------------------------------
(* The requests are the messages.                                          *)

\* A step that moves requests but makes none, and completes no message.
LEMMA WholeKept ==
    ASSUME Typed, Typed', RequestsAreWhole, Requests' = Requests, Completed' = Completed,
           \A i \in 1..Completed : came'[i] = came[i],
           transport' \in {"open", "closed"} => transport \in {"open", "closed"}
    PROVE  RequestsAreWhole'
<1>1. /\ DOMAIN Requests = 1..Len(Requests) /\ Len(Requests) \in Nat
      /\ Len(Requests) <= Completed
  BY RequestsType DEF RequestsAreWhole
<1>2. Completed \in Int
  BY DEF Completed, Typed
<1>3. \A i \in DOMAIN Requests : i \in 1..Completed
  BY <1>1, <1>2
<1> QED
  BY <1>1, <1>3 DEF RequestsAreWhole

\* At the start there are no messages and no requests.
LEMMA WholeInit == Init => RequestsAreWhole
<1> SUFFICES ASSUME Init
             PROVE  RequestsAreWhole
  OBVIOUS
<1>1. Typed
  BY TypedInit
<1>2. Len(Requests) = 0 /\ DOMAIN Requests = 1..0
  BY <1>1, RequestsType, EmptySeq DEF Init
<1>3. Completed = 0
  BY DEF Init, Completed
<1> QED
  BY <1>2, <1>3 DEF RequestsAreWhole

\* Every step keeps the n-th request made of the n-th message.
LEMMA WholeStep == Typed /\ Filling /\ RequestsAreWhole /\ [Next]_vars => RequestsAreWhole'
<1> SUFFICES ASSUME Typed, Filling, RequestsAreWhole, [Next]_vars
             PROVE  RequestsAreWhole'
  OBVIOUS
<1>0. /\ Typed' /\ message.n \in Nat /\ Len(came) = message.n
      /\ collector \in [pieces : Pieces, requests : Seq(Request)]
      /\ collector.requests \in Seq(Request)
      /\ queue \in Seq(Request) /\ taken \in Seq(Request)
  BY TypedStep DEF Typed
<1>1. CASE OnMessageBegin
  <2>1. /\ stage = "between" /\ stage' = "url" /\ message'.n = message.n + 1
        /\ collector'.requests = collector.requests
        /\ came' = Append(came, NoPieces) /\ UNCHANGED <<queue, taken, transport>>
    BY <1>0, <1>1 DEF OnMessageBegin
  <2>2. Requests' = Requests /\ Completed' = Completed /\ Completed = message.n
    BY <1>0, <2>1 DEF Requests, Completed
  <2>3. NoPieces \in Pieces
    BY EmptySeq DEF NoPieces, Pieces
  <2>4. \A i \in 1..Completed : came'[i] = came[i]
    BY <1>0, <2>1, <2>2, <2>3, AppendProperties DEF Typed
  <2> QED
    BY <1>0, <2>1, <2>2, <2>4, WholeKept
<1>2. CASE OnUrl \/ OnHeader \/ OnBody
  <2>1. PICK part \in {"url", "headers", "body"} : \E piece :
          /\ Deliver(part, piece)
          /\ \/ part \in {"url", "body"} /\ piece \in Nat
             \/ part = "headers" /\ piece \in ProperHeaders
    BY <1>2, Delivers
  <2>2. /\ stage # "between" /\ stage' # "between"
        /\ UNCHANGED <<message, queue, transport, taken>>
    BY <1>2 DEF OnUrl, OnHeader, OnBody
  <2>3. /\ collector'.requests = collector.requests
        /\ \A i \in 1..Len(came) : i # message.n => came'[i] = came[i]
    BY <2>1, <2>2, DeliverType
  <2>4. Requests' = Requests /\ Completed' = Completed /\ Completed = message.n - 1
    BY <2>2, <2>3 DEF Requests, Completed
  <2>5. \A i \in 1..Completed : i \in 1..Len(came) /\ i # message.n
    BY <1>0, <2>4
  <2> QED
    BY <1>0, <2>2, <2>3, <2>4, <2>5, WholeKept
<1>3. CASE OnHeadersComplete \/ BufferBegins \/ ParserError \/ ParserUpgrade \/ UNCHANGED vars
  <2>1. /\ UNCHANGED <<message, collector, queue, taken, came>>
        /\ stage = "between" <=> stage' = "between"
        /\ transport' \in {"open", "closed"} => transport \in {"open", "closed"}
    BY <1>3 DEF OnHeadersComplete, BufferBegins, ParserError, ParserUpgrade, vars
  <2>2. Requests' = Requests /\ Completed' = Completed
    BY <2>1 DEF Requests, Completed
  <2> QED
    BY <1>0, <2>1, <2>2, WholeKept
<1>4. CASE OnMessageComplete
  <2> DEFINE r == [pieces |-> collector.pieces,
                   keep |-> KeepAlive(message.head.version, collector.pieces.headers)]
  <2>1. /\ stage = "body" /\ stage' = "between"
        /\ collector'.requests = Append(collector.requests, r)
        /\ UNCHANGED <<message, queue, transport, taken, came, feeding>>
        /\ feeding
    BY <1>4 DEF OnMessageComplete
  <2>2. r \in Request /\ r.pieces = collector.pieces
    BY <1>0 DEF Request, KeepAlive, HasHeader
  <2> HIDE DEF r
  <2>3. Requests' = Append(Requests, r)
    BY <1>0, <2>1, <2>2, RowGrows DEF Requests
  <2>4. /\ Requests \in Seq(Request) /\ Len(Requests) \in Nat
        /\ DOMAIN Requests = 1..Len(Requests) /\ DOMAIN Requests' = 1..Len(Requests')
    BY <1>0, RequestsType
  <2>5. /\ Len(Requests') = Len(Requests) + 1 /\ Requests'[Len(Requests) + 1] = r
        /\ \A i \in 1..Len(Requests) : Requests'[i] = Requests[i]
    BY <2>2, <2>3, <2>4, AppendProperties
  <2>6. Completed = message.n - 1 /\ Completed' = message.n
    BY <2>1 DEF Completed
  <2>7. Len(Requests) = message.n - 1
    BY <2>1, <2>6 DEF RequestsAreWhole, Typed
  <2>8. collector.pieces = came[message.n]
    BY <2>1 DEF Filling
  <2>9. \A i \in 1..Len(Requests') : Requests'[i].pieces = came'[i]
    <3> SUFFICES ASSUME NEW i \in 1..Len(Requests')
                 PROVE  Requests'[i].pieces = came'[i]
      OBVIOUS
    <3>1. i \in 1..Len(Requests) \/ i = Len(Requests) + 1
      BY <2>4, <2>5
    <3>2. CASE i \in 1..Len(Requests)
      <4>1. Requests[i].pieces = came[i]
        BY <2>4, <3>2 DEF RequestsAreWhole
      <4> QED
        BY <2>1, <2>5, <3>2, <4>1
    <3>3. CASE i = Len(Requests) + 1
      <4>1. i = message.n
        BY <1>0, <2>7, <3>3
      <4> QED
        BY <2>1, <2>2, <2>5, <2>8, <3>3, <4>1
    <3> QED
      BY <3>1, <3>2, <3>3
  <2> QED
    BY <1>0, <2>4, <2>5, <2>6, <2>7, <2>9 DEF RequestsAreWhole
<1>5. CASE BufferEnds
  <2>1. /\ collector'.requests = << >> /\ queue' = queue \o collector.requests
        /\ UNCHANGED <<stage, message, transport, taken, came>>
    BY <1>0, <1>5 DEF BufferEnds
  <2>2. Requests' = Requests
    <3> DEFINE c == collector.requests
    <3>1. Requests' = taken \o (queue \o c) \o << >> /\ Requests = taken \o queue \o c
      BY <2>1 DEF Requests
    <3>2. taken \in Seq(Request) /\ queue \in Seq(Request) /\ c \in Seq(Request)
      BY <1>0
    <3> HIDE DEF c
    <3>3. taken \o (queue \o c) \o << >> = taken \o queue \o c
      BY <3>2, RowHandsOver
    <3> QED
      BY <3>1, <3>3, Zenon
  <2>3. Completed' = Completed
    BY <2>1 DEF Completed
  <2> QED
    BY <1>0, <2>1, <2>2, <2>3, WholeKept
<1>6. CASE InvalidUrl
  <2>1. /\ collector'.requests = << >> /\ transport' = "lost"
        /\ UNCHANGED <<stage, message, taken, came>>
    BY <1>0, <1>6 DEF InvalidUrl
  <2>2. PICK i \in DOMAIN collector.requests :
          queue' = queue \o SubSeq(collector.requests, 1, i - 1)
    BY <1>6 DEF InvalidUrl
  <2>3. i - 1 \in 0..Len(collector.requests)
    BY <1>0, <2>2, LenProperties
  <2>4. /\ Len(Requests') <= Len(Requests)
        /\ \A j \in 1..Len(Requests') : Requests'[j] = Requests[j]
    <3> DEFINE c == collector.requests
               k == i - 1
    <3>1. Requests' = taken \o (queue \o SubSeq(c, 1, k)) \o << >>
      BY <2>1, <2>2 DEF Requests
    <3>2. c \in Seq(Request) /\ k \in 0..Len(c) /\ Requests = taken \o queue \o c
      BY <1>0, <2>3 DEF Requests
    <3>3. taken \in Seq(Request) /\ queue \in Seq(Request)
      BY <1>0
    <3> HIDE DEF c, k
    <3> DEFINE x == taken \o (queue \o SubSeq(c, 1, k)) \o << >>
               y == taken \o queue \o c
    <3>4. Len(x) <= Len(y) /\ \A j \in 1..Len(x) : x[j] = y[j]
      <4>1. Begins(x, y)
        BY <3>2, <3>3, RowCut
      <4> HIDE DEF x, y
      <4> QED
        BY <4>1 DEF Begins
    <3>5. Requests' = x /\ Requests = y
      BY <3>1, <3>2
    <3> HIDE DEF x, y
    <3> QED
      BY <3>4, <3>5
  <2>5. /\ DOMAIN Requests = 1..Len(Requests) /\ DOMAIN Requests' = 1..Len(Requests')
        /\ Len(Requests) \in Nat /\ Len(Requests') \in Nat
    BY <1>0, RequestsType
  <2>6. Completed' = Completed /\ Completed \in Int
    BY <1>0, <2>1 DEF Completed
  <2> QED
    <3>1. Len(Requests') <= Completed'
      BY <2>4, <2>5, <2>6 DEF RequestsAreWhole
    <3>2. ASSUME NEW j \in DOMAIN Requests'
          PROVE  Requests'[j].pieces = came'[j]
      <4>1. j \in 1..Len(Requests') /\ j \in DOMAIN Requests
        BY <2>4, <2>5, <3>2
      <4> QED
        BY <2>1, <2>4, <4>1 DEF RequestsAreWhole
    <3> QED
      BY <2>1, <3>1, <3>2 DEF RequestsAreWhole
<1>7. CASE Answer
  <2>1. /\ queue # << >> /\ taken' = Append(taken, Head(queue)) /\ queue' = Tail(queue)
        /\ UNCHANGED <<stage, message, collector, came>>
        /\ transport' \in {"open", "closed"} => transport \in {"open", "closed"}
    BY <1>7 DEF Answer
  <2>2. Requests' = Requests
    BY <1>0, <2>1, RowTaken DEF Requests
  <2>3. Completed' = Completed
    BY <2>1 DEF Completed
  <2> QED
    BY <1>0, <2>1, <2>2, <2>3, WholeKept
<1> QED
  BY <1>1, <1>2, <1>3, <1>4, <1>5, <1>6, <1>7 DEF Next, Callback

-----------------------------------------------------------------------------
(* 100 Continue.                                                           *)

\* ContinueFits, with the records it compares taken apart.
LEMMA ContinueParts ==
    ASSUME Typed
    PROVE  ContinueFits <=> AtMostAsked /\ BeforeAnswers
<1>1. \A i \in DOMAIN wire : wire[i] \in Written
  BY LenProperties, ElementOfSeq DEF Typed
<1>2. \A n : {i \in DOMAIN wire : wire[i] = [what |-> "continue", n |-> n]} = Continues(n)
  BY <1>1 DEF Continues, Written
<1>3. AtMostAsked <=>
        (stage = "body" =>
           Cardinality({i \in DOMAIN wire : wire[i] = [what |-> "continue", n |-> message.n]}) =
             IF /\ message.head.version = "1.1" /\ HasHeader(message.head.headers, "expect")
             THEN 1 ELSE 0)
  BY <1>2 DEF AtMostAsked, HeldBack
<1>4. BeforeAnswers <=>
        \A i \in DOMAIN wire :
          wire[i].what = "answer" =>
            \A j \in {k \in DOMAIN wire : wire[k] = [what |-> "continue", n |-> wire[i].n]} : j < i
  <2>1. BeforeAnswers <=>
          \A i \in DOMAIN wire :
            wire[i].what = "answer" => \A j \in Continues(wire[i].n) : j < i
    BY DEF BeforeAnswers, Continues
  <2> QED
    BY <1>2, <2>1
<1> QED
  BY <1>3, <1>4 DEF ContinueFits

\* A written entry is a 100 Continue for its message, or none.
LEMMA WritesContinue ==
    ASSUME Typed, NEW what \in {"continue", "answer", "400"}, NEW n \in Nat, Write(what, n),
           NEW m
    PROVE  /\ what # "continue" \/ n # m => Continues(m)' = Continues(m)
           /\ what = "continue" /\ n = m => Continues(m)' = Continues(m) \cup {Len(wire) + 1}
<1>1. /\ Len(wire) \in Nat /\ DOMAIN wire = 1..Len(wire)
      /\ DOMAIN wire' = 1..(Len(wire) + 1)
      /\ \A i \in DOMAIN wire : wire'[i] = wire[i]
      /\ wire'[Len(wire) + 1].what = what /\ wire'[Len(wire) + 1].n = n
  BY Writes
<1>2. DOMAIN wire' = DOMAIN wire \cup {Len(wire) + 1} /\ Len(wire) + 1 \notin DOMAIN wire
  BY <1>1
<1> QED
  BY <1>1, <1>2 DEF Continues

\* At the start nothing was written.
LEMMA ContinueInit == Init => Ordered /\ AtMostAsked /\ BeforeAnswers
<1> SUFFICES ASSUME Init
             PROVE  Ordered /\ AtMostAsked /\ BeforeAnswers
  OBVIOUS
<1>1. Typed /\ DOMAIN wire = {} /\ stage = "between"
  BY TypedInit DEF Init
<1> QED
  BY <1>1 DEF Ordered, AtMostAsked, BeforeAnswers

\* The collector's headers are those of the head when the last one came.
LEMMA HeadersCame ==
    ASSUME Typed, Filling, stage # "between",
           Len(came[message.n].headers) = Len(message.head.headers)
    PROVE  collector.pieces.headers = message.head.headers
<1>1. /\ message.n \in 1..Len(came) /\ collector.pieces = came[message.n]
      /\ \A k \in 1..Len(came[message.n].headers) :
           came[message.n].headers[k] = message.head.headers[k]
  BY DEF Typed, Filling
<1>2. came[message.n].headers \in Seq(ProperHeaders) /\ message.head.headers \in Seq(ProperHeaders)
  BY <1>1 DEF Typed
<1>3. came[message.n].headers = message.head.headers
  BY <1>1, <1>2, SeqEqual
<1> QED
  BY <1>1, <1>3

\* Every step keeps 100 Continue where it belongs.
LEMMA ContinueStep ==
    IntakeInv /\ [Next]_vars => Ordered' /\ AtMostAsked' /\ BeforeAnswers'
<1> SUFFICES ASSUME IntakeInv, [Next]_vars
             PROVE  Ordered' /\ AtMostAsked' /\ BeforeAnswers'
  OBVIOUS
<1>0. /\ Typed /\ Typed' /\ Filling /\ RequestsAreWhole /\ Ordered
      /\ AtMostAsked /\ BeforeAnswers /\ message.n \in Nat
  BY TypedStep DEF IntakeInv, Typed
<1>w. /\ \A i \in DOMAIN wire : wire[i].n \in Nat
      /\ DOMAIN wire = 1..Len(wire) /\ Len(wire) \in Nat
  <2>1. wire \in Seq(Written)
    BY <1>0 DEF Typed
  <2>2. /\ DOMAIN wire = 1..Len(wire) /\ Len(wire) \in Nat
        /\ \A i \in 1..Len(wire) : wire[i] \in Written
    BY <2>1, LenProperties, ElementOfSeq
  <2> QED
    BY <2>2 DEF Written
<1>t. Len(taken) \in Nat /\ Len(taken) <= Completed /\ Completed <= message.n
  <2>1. /\ Len(Requests) = Len(taken) + Len(queue) + Len(collector.requests)
        /\ Len(taken) \in Nat /\ Len(queue) \in Nat /\ Len(collector.requests) \in Nat
    BY <1>0, RequestsType, LenProperties
  <2>2. Len(Requests) <= Completed
    BY <1>0 DEF RequestsAreWhole
  <2>3. Completed <= message.n /\ Completed \in Int
    BY <1>0 DEF Completed
  <2>3a. \A a, b, c \in Nat : a + b + c \in Nat /\ a <= a + b + c
    OBVIOUS
  <2>4. Len(taken) <= Len(Requests) /\ Len(Requests) \in Nat
    BY <2>1, <2>3a
  <2>5. \A a, b \in Nat, c \in Int : a <= b /\ b <= c => a <= c
    OBVIOUS
  <2>6. Len(taken) <= Completed
    BY <2>1, <2>2, <2>3, <2>4, <2>5
  <2> QED
    BY <2>1, <2>3, <2>6
<1>1. ASSUME UNCHANGED wire,
             \/ UNCHANGED <<stage, message>>
             \/ stage' = "url" /\ message'.n = message.n + 1
             \/ UNCHANGED message /\ stage \in {"url", "headers"} /\ stage' = "headers"
             \/ UNCHANGED message /\ stage' = "between",
             Len(taken') >= Len(taken) /\ Len(taken') \in Nat
      PROVE  Ordered' /\ AtMostAsked' /\ BeforeAnswers'
  <2>1. Ordered'
    BY <1>0, <1>1, <1>w, <1>t DEF Ordered
  <2>2. AtMostAsked'
    BY <1>0, <1>1 DEF AtMostAsked, Continues, HeldBack, HasHeader
  <2>3. BeforeAnswers'
    BY <1>0, <1>1 DEF BeforeAnswers
  <2> QED
    BY <2>1, <2>2, <2>3
<1>2. CASE \/ OnMessageBegin \/ OnUrl \/ OnHeader \/ OnBody \/ OnMessageComplete
           \/ BufferBegins \/ BufferEnds \/ InvalidUrl \/ ParserUpgrade \/ UNCHANGED vars
  <2>1. UNCHANGED <<wire, taken>>
    BY <1>2 DEF OnMessageBegin, OnUrl, OnHeader, OnBody, OnMessageComplete,
                BufferBegins, BufferEnds, InvalidUrl, ParserUpgrade, vars
  <2>2. \/ UNCHANGED <<stage, message>>
        \/ stage' = "url" /\ message'.n = message.n + 1
        \/ UNCHANGED message /\ stage \in {"url", "headers"} /\ stage' = "headers"
        \/ UNCHANGED message /\ stage' = "between"
    BY <1>2 DEF OnMessageBegin, OnUrl, OnHeader, OnBody, OnMessageComplete,
                BufferBegins, BufferEnds, InvalidUrl, ParserUpgrade, vars
  <2> QED
    BY <1>1, <1>t, <2>1, <2>2
<1>3. CASE OnHeadersComplete
  <2>1. /\ stage \in {"url", "headers"} /\ stage' = "body" /\ feeding
        /\ Len(came[message.n].headers) = Len(message.head.headers)
        /\ UNCHANGED <<message, taken>>
        /\ IF /\ message.head.version = "1.1" /\ Expects(collector.pieces.headers)
              /\ transport = "open"
           THEN Write("continue", message.n)
           ELSE UNCHANGED wire
    BY <1>3 DEF OnHeadersComplete
  <2>2. collector.pieces.headers = message.head.headers /\ transport = "open"
    BY <1>0, <2>1, HeadersCame DEF Typed
  <2>3. IF HeldBack THEN Write("continue", message.n) ELSE UNCHANGED wire
    BY <2>1, <2>2 DEF HeldBack, Expects
  <2>4. Continues(message.n) = {}
    BY <1>0, <1>w, <2>1 DEF Continues, Ordered
  <2>5. HeldBack' <=> HeldBack
    BY <2>1 DEF HeldBack, HasHeader
  <2>6. CASE ~HeldBack
    <3>1. UNCHANGED wire /\ Continues(message.n)' = {}
      BY <2>1, <2>3, <2>4, <2>6 DEF Continues
    <3>2. AtMostAsked'
      BY <2>5, <2>6, <3>1, FS_EmptySet DEF AtMostAsked
    <3>3. Ordered' /\ BeforeAnswers'
      BY <1>0, <2>1, <3>1 DEF Ordered, BeforeAnswers
    <3> QED
      BY <3>2, <3>3
  <2>7. CASE HeldBack
    <3>1. /\ DOMAIN wire' = 1..(Len(wire) + 1)
          /\ \A i \in DOMAIN wire : wire'[i] = wire[i]
          /\ wire'[Len(wire) + 1].what = "continue"
          /\ wire'[Len(wire) + 1].n = message.n
      BY <1>0, <2>3, <2>7, Writes
    <3>2. DOMAIN wire' = DOMAIN wire \cup {Len(wire) + 1}
      BY <1>w, <3>1
    <3>3. Continues(message.n)' = {Len(wire) + 1}
      BY <2>1, <2>4, <3>1, <3>2 DEF Continues
    <3>4. Cardinality({Len(wire) + 1}) = 1
      BY FS_Singleton
    <3>5. AtMostAsked'
      BY <2>5, <2>7, <3>3, <3>4 DEF AtMostAsked
    <3>6. Ordered'
      BY <1>0, <1>w, <2>1, <3>1, <3>2 DEF Ordered
    <3>7. Len(taken) < message.n
      BY <1>0, <1>t, <2>1 DEF Completed
    <3>8. \A i \in DOMAIN wire : wire[i].what = "answer" => wire[i].n # message.n
      BY <1>0, <1>w, <1>t, <3>7 DEF Ordered
    <3>9. BeforeAnswers'
      BY <1>0, <3>1, <3>2, <3>8 DEF BeforeAnswers
    <3> QED
      BY <3>5, <3>6, <3>9
  <2> QED
    BY <2>6, <2>7
<1>4. CASE ParserError
  <2>1. Write("400", message.n) /\ UNCHANGED <<stage, message, taken>>
    BY <1>4 DEF ParserError
  <2>2. /\ DOMAIN wire' = 1..(Len(wire) + 1)
        /\ \A i \in DOMAIN wire : wire'[i] = wire[i]
        /\ wire'[Len(wire) + 1].what = "400"
    BY <1>0, <2>1, Writes
  <2>3. DOMAIN wire' = DOMAIN wire \cup {Len(wire) + 1}
    BY <1>w, <2>2
  <2>4. Continues(message.n)' = Continues(message.n)
    BY <2>1, <2>2, <2>3 DEF Continues
  <2>5. AtMostAsked'
    BY <1>0, <2>1, <2>4 DEF AtMostAsked, HeldBack, HasHeader
  <2>6. Ordered' /\ BeforeAnswers'
    BY <1>0, <2>1, <2>2, <2>3 DEF Ordered, BeforeAnswers
  <2> QED
    BY <2>5, <2>6
<1>5. CASE Answer
  <2>1. /\ taken' = Append(taken, Head(queue)) /\ queue # << >>
        /\ UNCHANGED <<stage, message>>
        /\ UNCHANGED wire \/ Write("answer", Len(taken'))
    BY <1>5 DEF Answer
  <2>2. Len(taken') = Len(taken) + 1
    BY <1>0, <2>1, HeadTailProperties, AppendProperties DEF Typed
  <2>3. CASE UNCHANGED wire
    BY <1>1, <1>t, <2>1, <2>2, <2>3
  <2>4. CASE Write("answer", Len(taken'))
    <3>1. /\ DOMAIN wire' = 1..(Len(wire) + 1)
          /\ \A i \in DOMAIN wire : wire'[i] = wire[i]
          /\ wire'[Len(wire) + 1].what = "answer"
          /\ wire'[Len(wire) + 1].n = Len(taken')
      BY <1>0, <1>t, <2>2, <2>4, Writes
    <3>2. DOMAIN wire' = DOMAIN wire \cup {Len(wire) + 1}
      BY <1>w, <3>1
    <3>3. Continues(message.n)' = Continues(message.n)
      BY <2>1, <3>1, <3>2 DEF Continues
    <3>4. AtMostAsked'
      BY <1>0, <2>1, <3>3 DEF AtMostAsked, HeldBack, HasHeader
    <3>5. Ordered'
      BY <1>0, <1>w, <1>t, <2>1, <2>2, <3>1, <3>2 DEF Ordered
    <3>6. BeforeAnswers'
      BY <1>0, <1>w, <3>1, <3>2 DEF BeforeAnswers
    <3> QED
      BY <3>4, <3>5, <3>6
  <2> QED
    BY <2>1, <2>3, <2>4
<1> QED
  BY <1>2, <1>3, <1>4, <1>5 DEF Next, Callback

-----------------------------------------------------------------------------
(* Who the client is.                                                      *)

\* A set of naturals that has members has a least one.
LEMMA LeastOne ==
    ASSUME NEW S, S \subseteq Nat, S # {}
    PROVE  \E x \in S : \A y \in S : x <= y
<1> DEFINE R == OpToRel(<, Nat)
<1>1. IsWellFoundedOn(R, Nat)
  BY NatLessThanWellFounded
<1>2. \A x, y \in Nat : <<x, y>> \in R <=> x < y
  BY DEF OpToRel
<1> HIDE DEF R
<1>3. \E x \in S : \A y \in S : ~(<<y, x>> \in R)
  BY <1>1, WFMin
<1>4. PICK x \in S : \A y \in S : ~(<<y, x>> \in R)
  BY <1>3
<1>5. ASSUME NEW y \in S
      PROVE  x <= y
  <2>1. x \in Nat /\ y \in Nat /\ ~(y < x)
    BY <1>2, <1>4
  <2> QED
    BY <2>1
<1> QED
  BY <1>5

\* Max and Min of positions are what their names say.
LEMMA GreatestOne ==
    ASSUME NEW n \in Nat, NEW S, S \subseteq 1..n, S # {}
    PROVE  /\ Max(S) \in S /\ \A y \in S : y <= Max(S)
           /\ Min(S) \in S /\ \A y \in S : Min(S) <= y
<1>1. S \subseteq Nat
  OBVIOUS
<1>2. \E x \in S : \A y \in S : x <= y
  BY <1>1, LeastOne
<1> DEFINE T == {n - x : x \in S}
<1>3. T \subseteq Nat /\ T # {}
  <2>1. \A x \in S : n - x \in Nat
    OBVIOUS
  <2> QED
    BY <2>1
<1>4. \E x \in T : \A y \in T : x <= y
  <2> HIDE DEF T
  <2> QED
    BY <1>3, LeastOne
<1>5. \E x \in S : \A y \in S : y <= x
  <2>1. PICK x \in S : \A y \in S : n - x <= n - y
    BY <1>4
  <2> QED
    BY <1>1, <2>1
<1>6. Max(S) \in S /\ \A y \in S : Max(S) >= y
  BY <1>1, <1>5 DEF Max
<1>7. Min(S) \in S /\ \A y \in S : Min(S) <= y
  BY <1>1, <1>2 DEF Min
<1> QED
  BY <1>1, <1>6, <1>7

\* The positions of a chain all of whose successors are trusted.
BelievedIn(chain) ==
    {k \in DOMAIN chain : \A j \in k + 1..Len(chain) : chain[j] \in trusted}

\* The single copy of a forwarded header lists hosts.
LEMMA HostsListed ==
    ASSUME NEW headers \in Seq(ProperHeaders), Single(Copies(headers, "for"))
    PROVE  /\ HostsOf(headers, Copies(headers, "for")) \in Seq(Addresses)
           /\ HostsOf(headers, Copies(headers, "for")) # << >>
<1> DEFINE copies == Copies(headers, "for")
           i == CHOOSE k \in copies : TRUE
<1>1. copies # {}
  <2>1. Cardinality(copies) = 1
    BY DEF Single
  <2>2. Cardinality({}) = 0
    BY FS_EmptySet
  <2> HIDE DEF copies
  <2>3. copies = {} => 0 = 1
    BY <2>1, <2>2
  <2> QED
    BY <2>3
<1>2. i \in copies
  BY <1>1
<1>3. i \in DOMAIN headers /\ headers[i].name = "for"
  BY <1>2 DEF Copies
<1>4. headers[i] \in ProperHeaders
  BY <1>3, LenProperties, ElementOfSeq
<1> QED
  BY <1>3, <1>4 DEF HostsOf, ProperHeaders, Headers

\* What TrustedClient picks is the first of the believed.
LEMMA ClientIsFarthest ==
    ASSUME NEW hosts \in Seq(Addresses), hosts # << >>, peer \in trusted,
           NEW chain, chain = hosts \o <<peer>>, peer \in Addresses
    PROVE  TrustedClient(hosts) = chain[Min(BelievedIn(chain))]
<1> DEFINE n == Len(hosts)
           believed == BelievedIn(chain)
<1>1. n \in Nat /\ n # 0 /\ DOMAIN hosts = 1..n
  BY EmptySeq, LenProperties
<1>2. /\ chain \in Seq(Addresses) /\ Len(chain) = n + 1 /\ DOMAIN chain = 1..(n + 1)
      /\ \A i \in 1..n : chain[i] = hosts[i]
      /\ chain[n + 1] = peer
  <2>1. <<peer>> \in Seq(Addresses) /\ Len(<<peer>>) = 1 /\ <<peer>>[1] = peer
    OBVIOUS
  <2>2. /\ chain \in Seq(Addresses) /\ Len(chain) = n + 1
        /\ \A i \in 1..(n + 1) : chain[i] = IF i <= n THEN hosts[i] ELSE <<peer>>[i - n]
    BY <2>1, ConcatProperties
  <2>3. DOMAIN chain = 1..(n + 1)
    BY <2>2, LenProperties
  <2> HIDE DEF n
  <2>4. (n + 1) - n = 1 /\ n + 1 \in 1..(n + 1) /\ ~(n + 1 <= n)
    BY <1>1
  <2> QED
    BY <1>1, <2>1, <2>2, <2>3, <2>4
<1> HIDE DEF n
<1> DEFINE untrusted == {i \in DOMAIN hosts : hosts[i] \notin trusted}
<1>3. untrusted \subseteq 1..n /\ believed \subseteq 1..(n + 1) /\ n + 1 \in believed
  <2>1. n + 1 + 1..Len(chain) = {}
    BY <1>1, <1>2
  <2> QED
    BY <1>1, <1>2, <2>1 DEF BelievedIn
<1>b. \A k : k \in believed <=>
        k \in 1..(n + 1) /\ \A j \in k + 1..(n + 1) : chain[j] \in trusted
  BY <1>2 DEF BelievedIn
<1> HIDE DEF believed
<1>4. /\ Min(believed) \in believed /\ \A k \in believed : Min(believed) <= k
      /\ Min(believed) \in Nat /\ Min(believed) >= 1
  <2> DEFINE last == n + 1
  <2>1. last \in Nat /\ believed \subseteq 1..last /\ believed # {}
    BY <1>1, <1>3
  <2> HIDE DEF last
  <2>2. Min(believed) \in believed /\ \A k \in believed : Min(believed) <= k
    BY <2>1, GreatestOne
  <2>3. Min(believed) \in 1..last
    BY <2>1, <2>2
  <2> QED
    BY <2>1, <2>2, <2>3
<1>5. CASE untrusted = {}
  <2>1. ASSUME NEW j \in 2..(n + 1)
        PROVE  chain[j] \in trusted
    <3>1. j \in 1..n \/ j = n + 1
      BY <1>1
    <3>2. CASE j \in 1..n
      <4>1. hosts[j] \in trusted
        BY <1>1, <1>5, <3>2
      <4> QED
        BY <1>2, <3>2, <4>1
    <3> QED
      BY <1>2, <3>1, <3>2
  <2>2. 1 \in believed
    BY <1>1, <1>b, <2>1
  <2>3. Min(believed) = 1
    <3>1. Min(believed) <= 1
      BY <1>4, <2>2
    <3> QED
      BY <1>4, <3>1
  <2>4. TrustedClient(hosts) = hosts[1]
    BY <1>5 DEF TrustedClient
  <2>5. 1 \in 1..n
    BY <1>1
  <2> QED
    BY <1>2, <2>3, <2>4, <2>5 DEF believed
<1>6. CASE untrusted # {}
  <2> DEFINE m == Max(untrusted)
  <2>1. m \in untrusted /\ \A y \in untrusted : y <= m
    BY <1>1, <1>3, <1>6, GreatestOne
  <2>2. TrustedClient(hosts) = hosts[m]
    BY <1>6 DEF TrustedClient
  <2> HIDE DEF m
  <2>3. m \in 1..n /\ hosts[m] \notin trusted
    BY <1>1, <2>1
  <2>4. m \in believed
    <3>1. ASSUME NEW j \in m + 1..(n + 1)
          PROVE  chain[j] \in trusted
      <4>1. CASE j = n + 1
        BY <1>2, <4>1
      <4>2. CASE j # n + 1
        <5>1. j \in 1..n /\ ~(j <= m)
          BY <1>1, <2>3, <4>2
        <5>2. j \notin untrusted
          BY <2>1, <5>1
        <5> QED
          BY <1>1, <1>2, <5>1, <5>2
      <4> QED
        BY <4>1, <4>2
    <3>2. m \in 1..(n + 1)
      BY <1>1, <2>3
    <3> QED
      BY <1>b, <3>1, <3>2
  <2>5. ASSUME NEW k \in believed
        PROVE  m <= k
    <3> SUFFICES ASSUME ~(m <= k)
                 PROVE  FALSE
      OBVIOUS
    <3>1. m \in k + 1..(n + 1)
      BY <1>1, <1>3, <2>3
    <3>2. chain[m] \in trusted
      BY <1>b, <3>1
    <3> QED
      BY <1>2, <2>3, <3>2
  <2>6. Min(believed) = m
    <3>1. m <= Min(believed) /\ Min(believed) <= m /\ m \in Nat
      BY <1>1, <1>4, <2>3, <2>4, <2>5
    <3> QED
      BY <1>4, <3>1
  <2> QED
    BY <1>2, <2>2, <2>3, <2>6 DEF believed
<1> QED
  BY <1>5, <1>6

\* With nobody forwarded, or a peer that is not trusted, it is the peer.
LEMMA PeerIsFarthest ==
    ASSUME NEW hosts \in Seq(Addresses), peer \in Addresses,
           peer \notin trusted \/ hosts = << >>,
           NEW chain, chain = hosts \o <<peer>>
    PROVE  peer = chain[Min(BelievedIn(chain))]
<1> DEFINE n == Len(hosts)
           believed == BelievedIn(chain)
           last == n + 1
<1>1. n \in Nat /\ (hosts = << >> => n = 0)
  BY EmptySeq, LenProperties
<1>2. Len(chain) = last /\ DOMAIN chain = 1..last /\ chain[last] = peer
  <2>1. /\ <<peer>> \in Seq(Addresses) /\ Len(<<peer>>) = 1 /\ <<peer>>[1] = peer
        /\ hosts \in Seq(Addresses)
    BY SeqMonotonic
  <2>2. /\ chain \in Seq(Addresses) /\ Len(chain) = n + 1
        /\ \A i \in 1..(n + 1) : chain[i] = IF i <= n THEN hosts[i] ELSE <<peer>>[i - n]
    BY <2>1, ConcatProperties
  <2>3. DOMAIN chain = 1..(n + 1)
    BY <2>2, LenProperties
  <2> HIDE DEF n
  <2>4. (n + 1) - n = 1 /\ n + 1 \in 1..(n + 1) /\ ~(n + 1 <= n)
    BY <1>1
  <2> QED
    BY <2>1, <2>2, <2>3, <2>4
<1>3. last \in Nat /\ last >= 1 /\ (hosts = << >> => last = 1)
  BY <1>1
<1> HIDE DEF n, last
<1>4. \A k : k \in believed <=> k \in 1..last /\ \A j \in k + 1..last : chain[j] \in trusted
  BY <1>2 DEF BelievedIn
<1> HIDE DEF believed
<1>5. believed = {last}
  <2>1. last \in believed
    <3>1. last + 1..last = {} /\ last \in 1..last
      BY <1>3
    <3> QED
      BY <1>4, <3>1
  <2>2. ASSUME NEW k \in believed
        PROVE  k = last
    <3>1. k \in 1..last
      BY <1>4
    <3>2. CASE k # last
      <4>1. last \in k + 1..last /\ last # 1
        BY <1>3, <3>1, <3>2
      <4> QED
        BY <1>2, <1>3, <1>4, <4>1
    <3> QED
      BY <3>2
  <2> QED
    BY <2>1, <2>2
<1>6. Min({last}) = last
  <2>1. {last} \subseteq 1..last /\ {last} # {}
    BY <1>3
  <2>2. Min({last}) \in {last}
    BY <1>3, <2>1, GreatestOne
  <2> QED
    BY <2>2
<1> QED
  BY <1>2, <1>5, <1>6 DEF believed

\* The headers of a queued request are those of its message, and so proper.
LEMMA QueuedHeaders ==
    ASSUME IntakeInv, NEW i \in DOMAIN queue
    PROVE  queue[i].pieces.headers \in Seq(ProperHeaders)
<1>1. /\ queue \in Seq(Request) /\ taken \in Seq(Request)
      /\ collector.requests \in Seq(Request)
      /\ Len(came) = message.n /\ message.n \in Nat
      /\ \A n \in 1..Len(came) : came[n].headers \in Seq(ProperHeaders)
  BY DEF IntakeInv, Typed
<1>2. /\ DOMAIN queue = 1..Len(queue) /\ Len(queue) \in Nat
      /\ Len(taken) \in Nat /\ Len(collector.requests) \in Nat
  BY <1>1, LenProperties
<1> DEFINE k == Len(taken) + i
           c == collector.requests
<1>3. Requests[k] = queue[i]
  <2>1. c \in Seq(Request) /\ Requests = taken \o queue \o c
    BY <1>1 DEF Requests
  <2> HIDE DEF c
  <2>2. \A j \in 1..Len(queue) : (taken \o queue \o c)[Len(taken) + j] = queue[j]
    BY <1>1, <2>1, RowType
  <2> QED
    BY <1>2, <2>1, <2>2
<1>4. /\ DOMAIN Requests = 1..Len(Requests)
      /\ Len(Requests) = Len(taken) + Len(queue) + Len(collector.requests)
  BY RequestsType DEF IntakeInv
<1>a. i \in Nat /\ i >= 1 /\ i <= Len(queue)
  BY <1>2
<1>p. k \in Nat /\ k >= 1 /\ k <= Len(Requests) /\ Len(Requests) \in Nat
  <2>1. \A t, q, r, j \in Nat : j >= 1 /\ j <= q =>
          t + j \in Nat /\ t + j >= 1 /\ t + j <= t + q + r /\ t + q + r \in Nat
    OBVIOUS
  <2>2. /\ k \in Nat /\ k >= 1
        /\ k <= Len(taken) + Len(queue) + Len(collector.requests)
        /\ Len(taken) + Len(queue) + Len(collector.requests) \in Nat
    BY <1>2, <1>a, <2>1
  <2> HIDE DEF k
  <2>3. Len(Requests) = Len(taken) + Len(queue) + Len(collector.requests)
    BY <1>4
  <2> QED
    BY <2>2, <2>3
<1>5. k \in DOMAIN Requests
  <2> HIDE DEF k
  <2>1. k \in 1..Len(Requests)
    BY <1>p
  <2> QED
    BY <1>4, <2>1
<1>6. queue[i].pieces = came[k] /\ Len(Requests) <= Completed
  BY <1>3, <1>5 DEF IntakeInv, RequestsAreWhole
<1>7. Completed <= Len(came) /\ Completed \in Int
  BY <1>1 DEF Completed
<1>8. k \in 1..Len(came)
  <2>1. k \in Nat /\ k >= 1 /\ k <= Len(Requests) /\ Len(Requests) \in Nat
    BY <1>p
  <2>2. \A a, b \in Nat, x, d \in Int : a <= b /\ b <= x /\ x <= d => a <= d
    OBVIOUS
  <2> HIDE DEF k
  <2>3. k <= Len(came)
    BY <1>1, <1>6, <1>7, <2>1, <2>2
  <2> QED
    BY <1>1, <2>1, <2>3
<1> QED
  BY <1>1, <1>6, <1>8

\* The environ of a request with these headers, whose chain goes that far.
Believable(headers, farthest) ==
    /\ Environ(headers).remote = IF farthest = Nobody THEN peer ELSE farthest
    /\ Environ(headers).scheme = "https" =>
         /\ peer \in trusted /\ Single(Copies(headers, "proto"))
         /\ \E i \in Copies(headers, "proto") : headers[i].https

\* What the environ of a queued request says of the client.
LEMMA RemoteInv == IntakeInv => RemoteIsFarthestBelieved
<1> SUFFICES ASSUME IntakeInv
             PROVE  RemoteIsFarthestBelieved
  OBVIOUS
<1>0. /\ peer \in Addresses /\ trusted \subseteq Hosts /\ Nobody \notin trusted
  BY NobodyAssumption DEF IntakeInv, Typed
<1>1. ASSUME NEW headers \in Seq(ProperHeaders), NEW hosts,
             hosts = IF Single(Copies(headers, "for"))
                     THEN HostsOf(headers, Copies(headers, "for")) ELSE << >>,
             NEW chain, chain = hosts \o <<peer>>,
             NEW farthest, farthest = chain[Min(BelievedIn(chain))]
      PROVE  Believable(headers, farthest)
  <2>1. hosts \in Seq(Addresses) /\ (Single(Copies(headers, "for")) => hosts # << >>)
    BY <1>1, HostsListed, EmptySeq
  <2>2. Environ(headers).scheme = "https" =>
          /\ peer \in trusted /\ Single(Copies(headers, "proto"))
          /\ \E i \in Copies(headers, "proto") : headers[i].https
    BY DEF Environ
  <2>3. CASE peer \in trusted /\ Single(Copies(headers, "for"))
    <3>1. Environ(headers).remote =
            IF TrustedClient(hosts) = Nobody THEN peer ELSE TrustedClient(hosts)
      BY <1>0, <1>1, <2>3 DEF Environ
    <3>2. hosts # << >>
      BY <2>1, <2>3
    <3>3. TrustedClient(hosts) = farthest
      BY <1>0, <1>1, <2>1, <2>3, <3>2, ClientIsFarthest
    <3> QED
      BY <2>2, <3>1, <3>3 DEF Believable
  <2>4. CASE peer \notin trusted \/ ~Single(Copies(headers, "for"))
    <3>1. Environ(headers).remote = peer
      BY <1>0, <2>4 DEF Environ
    <3>2. peer \notin trusted \/ hosts = << >>
      BY <1>1, <2>4
    <3>3. peer = farthest
      BY <1>0, <1>1, <2>1, <3>2, PeerIsFarthest
    <3> QED
      BY <2>2, <3>1, <3>3 DEF Believable
  <2> QED
    BY <2>3, <2>4
<1>2. ASSUME NEW i \in DOMAIN queue
      PROVE  LET headers == queue[i].pieces.headers
                 fors == Copies(headers, "for")
                 chain == (IF Single(fors) THEN HostsOf(headers, fors) ELSE << >>) \o <<peer>>
             IN  Believable(headers, chain[Min(BelievedIn(chain))])
  <2>1. queue[i].pieces.headers \in Seq(ProperHeaders)
    BY QueuedHeaders
  <2>2. PICK headers \in Seq(ProperHeaders) : headers = queue[i].pieces.headers
    BY <2>1
  <2> DEFINE hosts == IF Single(Copies(headers, "for"))
                      THEN HostsOf(headers, Copies(headers, "for")) ELSE << >>
             chain == hosts \o <<peer>>
  <2>3. Believable(headers, chain[Min(BelievedIn(chain))])
    BY <1>1
  <2> QED
    BY <2>2, <2>3
<1> QED
  BY <1>2 DEF RemoteIsFarthestBelieved, BelievedIn, Believable

-----------------------------------------------------------------------------
(* The theorems.                                                           *)

\* However the bytes are cut into buffers, the accumulators, the requests and
\* what was written stay in step with the messages that came.
THEOREM IntakeInvariant == Spec => []IntakeInv
<1>1. Init => IntakeInv
  BY TypedInit, WholeInit, ContinueInit DEF IntakeInv
<1>2. IntakeInv /\ [Next]_vars => IntakeInv'
  BY TypedStep, WholeStep, ContinueStep DEF IntakeInv
<1> QED
  BY <1>1, <1>2, PTL DEF Spec

\* Type correctness of the intake; a message makes one request at most.
THEOREM IntakeTypeCorrect == Spec => []TypeOK
<1>1. IntakeInv => TypeOK
  <2> SUFFICES ASSUME IntakeInv
               PROVE  TypeOK
    OBVIOUS
  <2>1. Requests \in Seq([pieces : Pieces, keep : BOOLEAN]) /\ Len(Requests) \in Nat
    BY RequestsType DEF IntakeInv, Request
  <2>2. Len(Requests) <= Completed /\ Completed <= message.n /\ Completed \in Int
    BY DEF IntakeInv, Typed, RequestsAreWhole, Completed
  <2>3. message.n \in 0..MaxMessages /\ message.n \in Int
    BY DEF IntakeInv, Typed
  <2>4. Len(Requests) <= message.n
    <3>1. \A a \in Nat, b, c \in Int : a <= b /\ b <= c => a <= c
      OBVIOUS
    <3> QED
      BY <2>1, <2>2, <2>3, <3>1
  <2>5. collector.pieces \in Pieces
    BY DEF IntakeInv, Typed
  <2> QED
    BY <2>1, <2>3, <2>4, <2>5 DEF IntakeInv, Typed, TypeOK, Written
<1> QED
  BY <1>1, IntakeInvariant, PTL

\* The n-th request is made of the n-th message, of all of it and of nothing
\* else, for any cut of the bytes into buffers.
THEOREM RequestsAreTheMessages == Spec => []RequestsAreWhole
<1>1. IntakeInv => RequestsAreWhole
  BY DEF IntakeInv
<1> QED
  BY <1>1, IntakeInvariant, PTL

\* 100 Continue goes once to each client that waits for it, before its answer,
\* and to nobody else.
THEOREM ContinueWhereItBelongs == Spec => []ContinueFits
<1>1. IntakeInv => ContinueFits
  BY ContinueParts DEF IntakeInv
<1> QED
  BY <1>1, IntakeInvariant, PTL

\* REMOTE_ADDR is the farthest host that can be believed, for chains of any
\* length and any set of trusted proxies.
THEOREM RemoteCanBeBelieved == Spec => []RemoteIsFarthestBelieved
<1> QED
  BY RemoteInv, IntakeInvariant, PTL
=============================================================================
