------------------------------- MODULE Intake -------------------------------
(***************************************************************************)
(* From the bytes of one connection to its requests: the parser callbacks  *)
(* of _Collector and data_received (src/massless/_protocol.pyx), and what  *)
(* the forwarded headers of a request make of its address and scheme       *)
(* (src/massless/_proxy.py, _build_wsgi_environ of _request.pyx).          *)
(*                                                                         *)
(* The client's bytes reach the loop in buffers that end anywhere; within  *)
(* one data_received the parser calls back for what the buffer holds.      *)
(* The worker answers between two buffers; the rest of its life is module  *)
(* MasslessProtocol's.                                                     *)
(***************************************************************************)
EXTENDS Naturals, FiniteSets, Sequences, SequencesExt, FiniteSetsExt

CONSTANTS
    Heads,         \* what a client sends as a head: HTTP version and headers
    Hosts,         \* addresses
    Nobody,        \* none: of a Unix socket, or of an empty token in a list of hosts
    MaxMessages,   \* bound: requests on the connection
    MaxChunks      \* bound: the chunks of a URL, or of a body

Addresses == Hosts \cup {Nobody}

\* A header is its name, for X-Forwarded-For the list it is, and for
\* X-Forwarded-Proto whether it is https; anything else it may be counts as http.
Headers == [name : {"expect", "close", "proto", "for", "other"},
            hosts : Seq(Addresses), https : BOOLEAN]

ASSUME HeadsAssumption ==
    \A h \in Heads :
        /\ h.version \in {"1.0", "1.1"}
        /\ h.headers \in Seq(Headers)
        /\ \A i \in DOMAIN h.headers :
             h.headers[i].name = "for" => h.headers[i].hosts # << >>
ASSUME BoundsAssumption == MaxMessages \in Nat /\ MaxChunks \in Nat \ {0}
ASSUME NobodyAssumption == Nobody \notin Hosts

VARIABLES
    peer,        \* the address of the other end
    trusted,     \* the hosts of MASSLESS_FORWARDED_ALLOW_IPS
    feeding,     \* data_received is in parser.feed_data
    stage,       \* where the parser is: between, url, headers, body
    message,     \* the message it is in: its number and head
    collector,   \* url, headers and body of the current message, and requests
    queue,       \* the queue of the connection
    transport,   \* open; closing (by data_received) or closed (by the worker,
                 \* which ends with it); lost
    taken,       \* history: the requests the worker took
    wire,        \* history: what was written, each with the message it is for
    came         \* history: what the parser delivered of each message

settings == <<peer, trusted>>
vars == <<settings, feeding, stage, message, collector, queue, transport, taken, wire, came>>

\* A chunk or header is kept with the number of the message it came with.
NoPieces == [url |-> << >>, headers |-> << >>, body |-> << >>]

Init ==
    /\ peer \in Addresses
    /\ trusted \in SUBSET Hosts
    /\ feeding = FALSE
    /\ stage = "between"
    /\ message = [n |-> 0, head |-> [version |-> "1.1", headers |-> << >>]]
    /\ collector = [pieces |-> NoPieces, requests |-> << >>]
    /\ queue = << >>
    /\ transport = "open"
    /\ taken = << >>
    /\ wire = << >>
    /\ came = << >>

Write(what, n) == wire' = Append(wire, [what |-> what, n |-> n])

-----------------------------------------------------------------------------
(* The callbacks of the parser.                                            *)

\* The accumulators of a message, at its begin and at its end.
\* Mutant: the body is forgotten.
ResetHead == [collector.pieces EXCEPT !.url = << >>, !.headers = << >>]

Reset == NoPieces

OnMessageBegin ==
    /\ feeding /\ stage = "between" /\ message.n < MaxMessages
    /\ \E h \in Heads : message' = [n |-> message.n + 1, head |-> h]
    /\ collector' = [collector EXCEPT !.pieces = Reset]
    /\ came' = Append(came, NoPieces)
    /\ stage' = "url"
    /\ UNCHANGED <<settings, feeding, queue, transport, taken, wire>>

\* One more piece of the part, for the collector and for the history.
Deliver(part, piece) ==
    /\ collector' = [collector EXCEPT !.pieces[part] = Append(@, piece)]
    /\ came' = [came EXCEPT ![message.n][part] = Append(@, piece)]

OnUrl ==
    /\ feeding /\ stage = "url"
    /\ Len(came[message.n].url) < MaxChunks
    /\ Deliver("url", message.n)
    /\ UNCHANGED <<settings, feeding, stage, message, queue, transport, taken, wire>>

OnHeader ==
    /\ feeding /\ stage \in {"url", "headers"}
    /\ came[message.n].url # << >>
    /\ LET arrived == Len(came[message.n].headers)
       IN  /\ arrived < Len(message.head.headers)
           /\ Deliver("headers", message.head.headers[arrived + 1])
    /\ stage' = "headers"
    /\ UNCHANGED <<settings, feeding, message, queue, transport, taken, wire>>

HasHeader(headers, name) == \E i \in DOMAIN headers : headers[i].name = name

\* The answer to Expect: 100-continue.  Mutant: looks at the first header only.
ExpectsAtFirst(headers) == headers # << >> /\ headers[1].name = "expect"

Expects(headers) == HasHeader(headers, "expect")

OnHeadersComplete ==
    /\ feeding /\ stage \in {"url", "headers"}
    /\ came[message.n].url # << >>
    /\ Len(came[message.n].headers) = Len(message.head.headers)
    /\ stage' = "body"
    /\ IF /\ message.head.version = "1.1"
          /\ Expects(collector.pieces.headers)
          /\ transport = "open"
       THEN Write("continue", message.n)
       ELSE UNCHANGED wire
    /\ UNCHANGED <<settings, feeding, message, collector, queue, transport, taken, came>>

OnBody ==
    /\ feeding /\ stage = "body"
    /\ Len(came[message.n].body) < MaxChunks
    /\ Deliver("body", message.n)
    /\ UNCHANGED <<settings, feeding, stage, message, queue, transport, taken, wire>>

\* Never for HTTP/1.0, whatever it asks for.
KeepAlive(version, headers) == version # "1.0" /\ ~HasHeader(headers, "close")

OnMessageComplete ==
    /\ feeding /\ stage = "body"
    /\ LET pieces == collector.pieces
           request == [pieces |-> pieces,
                       keep |-> KeepAlive(message.head.version, pieces.headers)]
       IN  collector' = [pieces |-> Reset, requests |-> Append(collector.requests, request)]
    /\ stage' = "between"
    /\ UNCHANGED <<settings, feeding, message, queue, transport, taken, wire, came>>

-----------------------------------------------------------------------------
(* forwarded_overrides, when the environ of a request is built.            *)

\* Where a header occurs, and its hosts when it occurs once.
Copies(headers, name) == {i \in DOMAIN headers : headers[i].name = name}
Single(copies) == Cardinality(copies) = 1
HostsOf(headers, copies) == headers[CHOOSE i \in copies : TRUE].hosts

\* get_trusted_client_address: from the right, the first host that is not
\* trusted.  Mutant: the first host, which the client may have written.
LeftmostClient(hosts) == hosts[1]

TrustedClient(hosts) ==
    LET untrusted == {i \in DOMAIN hosts : hosts[i] \notin trusted}
    IN  IF untrusted = {} THEN hosts[1] ELSE hosts[Max(untrusted)]

\* Forwarded headers count only from a trusted peer, in a single copy, and
\* when the scheme is a scheme and the client is not an empty token.
Environ(headers) ==
    LET protos == Copies(headers, "proto")
        fors == Copies(headers, "for")
        believed == peer # Nobody /\ peer \in trusted
        origin == IF believed /\ Single(fors)
                  THEN TrustedClient(HostsOf(headers, fors)) ELSE Nobody
    IN  [scheme |-> IF believed /\ Single(protos) /\ \E i \in protos : headers[i].https
                    THEN "https" ELSE "http",
         remote |-> IF origin = Nobody THEN peer ELSE origin]

-----------------------------------------------------------------------------
(* data_received.                                                          *)

\* Nothing is read from a transport that closes.
BufferBegins ==
    /\ ~feeding /\ transport = "open"
    /\ feeding' = TRUE
    /\ UNCHANGED <<settings, stage, message, collector, queue, transport, taken, wire, came>>

\* The buffer ends, anywhere in a message: take() hands over the requests
\* that are complete, and clears them.  Mutant: they are not cleared.
BufferEndsKeeping ==
    /\ feeding
    /\ feeding' = FALSE
    /\ queue' = queue \o collector.requests
    /\ UNCHANGED <<settings, stage, message, collector, transport, taken, wire, came>>

BufferEnds ==
    /\ feeding
    /\ feeding' = FALSE
    /\ queue' = queue \o collector.requests
    /\ collector' = [collector EXCEPT !.requests = << >>]
    /\ UNCHANGED <<settings, stage, message, transport, taken, wire, came>>

\* Malformed bytes: 400 and close.  What the same buffer held before them
\* stays in the collector.
ParserError ==
    /\ feeding
    /\ feeding' = FALSE
    /\ Write("400", message.n)
    /\ transport' = "closing"
    /\ UNCHANGED <<settings, stage, message, collector, queue, taken, came>>

\* An exception that data_received does not catch makes the loop drop the
\* connection: the parser's HttpParserUpgrade after a message that asks for
\* an upgrade, or parse_url on the URL of one of the requests.
ParserUpgrade ==
    /\ feeding /\ stage = "between" /\ collector.requests # << >>
    /\ feeding' = FALSE
    /\ transport' = "lost"
    /\ UNCHANGED <<settings, stage, message, collector, queue, taken, wire, came>>

InvalidUrl ==
    /\ feeding
    /\ feeding' = FALSE
    /\ \E i \in DOMAIN collector.requests :
         queue' = queue \o SubSeq(collector.requests, 1, i - 1)
    /\ collector' = [collector EXCEPT !.requests = << >>]
    /\ transport' = "lost"
    /\ UNCHANGED <<settings, stage, message, taken, wire, came>>

\* The worker takes the next request, and answers if the transport is open.
Answer ==
    /\ ~feeding /\ queue # << >> /\ transport \in {"open", "closing"}
    /\ taken' = Append(taken, Head(queue))
    /\ queue' = Tail(queue)
    /\ IF transport = "open"
       THEN /\ Write("answer", Len(taken'))
            /\ transport' = IF Head(queue).keep THEN "open" ELSE "closed"
       ELSE UNCHANGED <<wire, transport>>
    /\ UNCHANGED <<settings, feeding, stage, message, collector, came>>

Callback ==
    \/ OnMessageBegin \/ OnUrl \/ OnHeader \/ OnHeadersComplete \/ OnBody
    \/ OnMessageComplete

Next ==
    \/ BufferBegins \/ Callback \/ BufferEnds \/ ParserError \/ ParserUpgrade
    \/ InvalidUrl \/ Answer

Spec == Init /\ [][Next]_vars

-----------------------------------------------------------------------------
(* Properties.                                                             *)

Requests == taken \o queue \o collector.requests
Pieces == [url : Seq(Nat), headers : Seq(Headers), body : Seq(Nat)]

\* The types of the variables; a message makes one request at most.
TypeOK ==
    /\ peer \in Addresses /\ trusted \subseteq Hosts
    /\ feeding \in BOOLEAN
    /\ stage \in {"between", "url", "headers", "body"}
    /\ message.n \in 0..MaxMessages
    /\ collector.pieces \in Pieces
    /\ Requests \in Seq([pieces : Pieces, keep : BOOLEAN])
    /\ Len(Requests) <= message.n
    /\ transport \in {"open", "closing", "closed", "lost"}
    /\ wire \in Seq([what : {"continue", "answer", "400"}, n : Nat])
    /\ came \in Seq(Pieces)

Completed == IF stage = "between" THEN message.n ELSE message.n - 1

\* However the client's bytes are cut into buffers, the n-th request is made of
\* the n-th message, of all of it and of nothing else; and none is lost on a
\* connection that has not failed.
RequestsAreWhole ==
    /\ Len(Requests) <= Completed
    /\ \A i \in DOMAIN Requests : Requests[i].pieces = came[i]
    /\ transport \in {"open", "closed"} => Len(Requests) = Completed

\* A client of HTTP/1.1 that holds its body back until it reads 100 Continue
\* always gets it, once, and before the answer; no other client does.
ContinueFits ==
    LET for(n) == {i \in DOMAIN wire : wire[i] = [what |-> "continue", n |-> n]}
    IN  /\ stage = "body" =>
             Cardinality(for(message.n)) =
                 IF /\ message.head.version = "1.1"
                    /\ HasHeader(message.head.headers, "expect")
                 THEN 1 ELSE 0
        /\ \A i \in DOMAIN wire :
             wire[i].what = "answer" => \A j \in for(wire[i].n) : j < i

\* REMOTE_ADDR is the farthest host that can be believed: each host to its
\* right in the chain, the peer last, is a trusted proxy.  It is the peer when
\* the chain has an empty token there.  The scheme is https only when a trusted
\* peer says so, and once.
RemoteIsFarthestBelieved ==
    \A i \in DOMAIN queue :
        LET headers == queue[i].pieces.headers
            fors == Copies(headers, "for")
            protos == Copies(headers, "proto")
            chain == (IF Single(fors) THEN HostsOf(headers, fors) ELSE << >>) \o <<peer>>
            believed == {k \in DOMAIN chain : \A j \in k + 1..Len(chain) : chain[j] \in trusted}
            farthest == chain[Min(believed)]
            environ == Environ(headers)
        IN  /\ environ.remote = IF farthest = Nobody THEN peer ELSE farthest
            /\ environ.scheme = "https" =>
                 peer \in trusted /\ Single(protos) /\ \E k \in protos : headers[k].https
=============================================================================
