------------------------------ MODULE MCIntake ------------------------------
(* Intake with two pipelined messages of a few heads.                      *)
EXTENDS Intake

CONSTANTS client, proxy

H(name) == [name |-> name, hosts |-> << >>, https |-> TRUE]
For(hosts) == [H("for") EXCEPT !.hosts = hosts]
Http == [H("proto") EXCEPT !.https = FALSE]
WithHeaders(version, headers) == [version |-> version, headers |-> headers]

\* The hosts of a chain: what a client wrote itself, then what proxies added.
MCHeads ==
    {WithHeaders("1.1", h) : h \in {
        << >>, <<H("expect")>>, <<H("other"), H("expect")>>, <<H("expect"), H("close")>>,
        <<For(<<Nobody>>), Http>>, <<For(<<proxy, client>>)>>, <<For(<<client, Nobody, proxy>>)>>,
        <<For(<<client, proxy>>), H("proto")>>, <<For(<<client>>), For(<<proxy>>)>>, <<H("proto"), H("proto")>>}}
      \cup {WithHeaders("1.0", <<H("expect")>>)}
=============================================================================
