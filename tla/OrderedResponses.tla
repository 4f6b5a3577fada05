-------------------------- MODULE OrderedResponses --------------------------
(***************************************************************************)
(* What a connection promises its client: requests are answered one at a   *)
(* time, in the order they were sent, each at most once, and the           *)
(* connection may end at any time.  A malformed request may be refused:    *)
(* the refusal ends the conversation.                                      *)
(***************************************************************************)
EXTENDS Naturals, Sequences

CONSTANTS
    Conns,      \* the connections
    MaxAsked    \* bound: requests a client sends on each connection

VARIABLES
    asked,   \* how many requests the client has sent
    said,    \* the answers, in the order they were written
    open     \* the server may still write

vars == <<asked, said, open>>

Init ==
    /\ asked = [c \in Conns |-> 0]
    /\ said = [c \in Conns |-> << >>]
    /\ open = [c \in Conns |-> TRUE]

\* A buffer brings one or more requests; a client that is cut off may have
\* sent some the server will not answer.
Ask(c) ==
    /\ open[c]
    /\ \E n \in asked[c] + 1 .. MaxAsked[c] : asked' = [asked EXCEPT ![c] = n]
    /\ open' = open \/ open' = [open EXCEPT ![c] = FALSE]
    /\ UNCHANGED said

\* The next answer is that of the first request without one.
Answer(c) ==
    /\ open[c]
    /\ Len(said[c]) < asked[c]
    /\ \E last \in BOOLEAN :
         /\ said' = [said EXCEPT ![c] = Append(@,
              [n |-> Len(said[c]) + 1, kind |-> "response", close |-> last])]
         /\ last => ~open'[c]
    /\ open' = open \/ open' = [open EXCEPT ![c] = FALSE]
    /\ UNCHANGED asked

Refuse(c) ==
    /\ open[c]
    /\ \E n \in asked[c] + 1 .. MaxAsked[c] :
         said' = [said EXCEPT ![c] = Append(@,
             [n |-> n, kind |-> "bad request", close |-> TRUE])]
    /\ open' = [open EXCEPT ![c] = FALSE]
    /\ UNCHANGED asked

Hangup(c) ==
    /\ open[c]
    /\ open' = [open EXCEPT ![c] = FALSE]
    /\ UNCHANGED <<asked, said>>

Next == \E c \in Conns : Ask(c) \/ Answer(c) \/ Refuse(c) \/ Hangup(c)

Spec == Init /\ [][Next]_vars
=============================================================================
