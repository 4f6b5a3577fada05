------------------------- MODULE MCMasslessProtocol -------------------------
(* MasslessProtocol on a small instance: a client that sends three requests. *)
EXTENDS MasslessProtocol

MCMaxRequests == [c \in Conns |-> 3]

\* The docstring of MasslessProtocol, taken literally: responses never reorder
\* within a connection, so the i-th answer on the wire is to request i.  The
\* 400 of data_received is an answer too.
ResponsesNeverReorder ==
    \A c \in Conns : \A i \in 1..Len(wire[c]) : wire[c][i].n = i
=============================================================================
