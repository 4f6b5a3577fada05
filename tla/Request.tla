------------------------------ MODULE Request -------------------------------
(***************************************************************************)
(* The request object: MasslessRequest of src/massless/_request.pyx.       *)
(*                                                                         *)
(* It starts as a view of the parsed buffers.  The first use of anything   *)
(* that is Django's promotes it: WSGIRequest.__init__ runs on the object   *)
(* that the application already holds, and sets attributes of it again.    *)
(* The operators below are what each use leaves of the object.             *)
(***************************************************************************)
EXTENDS Naturals

VARIABLES
    sent,      \* the request on the wire: method, charset, session cookie
    request    \* the MasslessRequest

\* charset: the Content-Type names one.  cookie: a session cookie is sent.
Sent == [method : {"GET", "HEAD"}, charset : BOOLEAN, cookie : BOOLEAN]

\* __init__: plain attributes only.
\* path: what was sent, or "rewritten" by the application.  match: the
\* resolver_match, "absent", "None" or "set".  encoding: "default", "charset"
\* of the Content-Type, or "app"; GET: the encoding the cached GET is decoded
\* with, or "none".  inits: how often WSGIRequest.__init__ has begun (history).
Lazy(s) == [promoted |-> FALSE, method |-> s.method, path |-> "sent",
            match |-> "absent", encoding |-> "default", GET |-> "none",
            inits |-> 0]

-----------------------------------------------------------------------------
(* Promotion.                                                              *)

\* The encoding setter deletes GET, so that it is decoded again.
\* Mutant: the deleter leaves the cached value.
SetEncodingKeepingGET(r, e) == [r EXCEPT !.encoding = e]

SetEncoding(r, e) == [r EXCEPT !.encoding = e, !.GET = "none"]

\* WSGIRequest.__init__ on the environ built from the buffers: the method is
\* the one the object has, the path is the one that was sent, and resolver_match
\* is None.
SetAttributes(r) == [r EXCEPT !.path = "sent", !.match = "None", !.inits = @ + 1]

\* A charset in the Content-Type goes through the setter of the object, which
\* begins a promotion of one that is not latched (it is followed once).
Django(r) ==
    LET d == SetAttributes(r)
    IN  IF sent.charset
        THEN SetEncoding(IF d.promoted THEN d ELSE SetAttributes(d), "charset")
        ELSE d

\* Latched first.  Mutant: last.
PromoteLatchingLast(r) ==
    IF r.promoted THEN r ELSE [Django(r) EXCEPT !.promoted = TRUE]

Promote(r) == IF r.promoted THEN r ELSE Django([r EXCEPT !.promoted = TRUE])

-----------------------------------------------------------------------------
(* Uses of the request, by middleware and views.                           *)

\* The value is kept in a slot of its own, for the override hides Django's.
ReadGET(r) ==
    LET p == Promote(r)
    IN  IF p.GET = "none" THEN [p EXCEPT !.GET = p.encoding] ELSE p

\* A miss in the normal lookup promotes.
ReadMatch(r) == IF r.match = "absent" THEN Promote(r) ELSE r

\* meta stands for every other attribute and method of Django's request;
\* method, path and match are plain attributes, also before promotion.
Uses == {"meta", "GET", "encoding", "match", "method", "path"}

Use(r, how) ==
    CASE how = "meta" -> Promote(r)
      [] how = "GET" -> ReadGET(r)
      [] how = "encoding" -> SetEncoding(Promote(r), "app")
      [] how = "match" -> ReadMatch(r)
      [] how = "method" -> [r EXCEPT !.method = IF @ = "HEAD" THEN "GET" ELSE "PUT"]
      [] how = "path" -> [r EXCEPT !.path = "rewritten"]

-----------------------------------------------------------------------------
(* Properties.                                                             *)

\* The query that the application reads is decoded with the encoding that is
\* in force, whenever it was set: by the Content-Type during the promotion,
\* or by the application after it has read the query.
GETFollowsEncoding == request.GET \in {"none", request.encoding}

\* There is one promotion at most, also when it uses setters of the object that
\* begin one: it keeps the method that a middleware has set, and what the
\* application sets on a promoted request is not taken back by the next use.
PromotionKeeps ==
    [][/\ request'.inits = (IF request'.promoted THEN 1 ELSE 0)
       /\ IF request.promoted
          THEN /\ request.path = "rewritten" => request'.path = "rewritten"
               /\ request.match = "set" => request'.match = "set"
               /\ request.encoding = "app" => request'.encoding = "app"
          ELSE request'.promoted => request'.method = request.method]_request
=============================================================================
