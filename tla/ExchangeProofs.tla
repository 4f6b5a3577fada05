--------------------------- MODULE ExchangeProofs ---------------------------
(***************************************************************************)
(* One exchange, for every stack of middleware (of any length and in any   *)
(* order, with one session layer at most), every use of the request and    *)
(* every answer of a view.                                                 *)
(*                                                                         *)
(* The argument: each layer hands on a response that is sound in itself,   *)
(* whatever it was handed; and until the session layer is left nothing is  *)
(* saved and no response is marked, after it the session stays as it is.   *)
(***************************************************************************)
EXTENDS Exchange, SequenceTheorems, TLAPS

-----------------------------------------------------------------------------
(* The request.                                                            *)

RequestType ==
    [promoted : BOOLEAN, method : {"GET", "HEAD", "PUT"}, path : {"sent", "rewritten"},
     match : {"absent", "None", "set"}, encoding : {"default", "charset", "app"},
     GET : {"none", "default", "charset", "app"}, inits : Nat]

\* What Django decodes is not there before the promotion, and is decoded with
\* the encoding in force after it; __init__ ran in the promotion and not again.
RequestInv ==
    /\ sent \in Sent
    /\ request \in RequestType
    /\ ~request.promoted => request.encoding = "default" /\ request.GET = "none"
    /\ request.inits = IF request.promoted THEN 1 ELSE 0
    /\ GETFollowsEncoding

-----------------------------------------------------------------------------
(* The response.                                                           *)

Body == [text : Texts \cup {"unset", "none"}, gzip : 0..1]
Response ==
    [kind : {"fast", "django", "streaming", "exception"}, status : Nat,
     data : Texts, content : Body, encoded : BOOLEAN,
     etag : [strong : BOOLEAN, of : Body],
     cookie : {"none", "old", "new", "delete"}, seen : BOOLEAN]

\* It can be decoded, and a strong validator names it, or there is no body.
Consistent(r) ==
    /\ r \in Response
    /\ Content(r).gzip = (IF r.encoded THEN 1 ELSE 0)
    /\ r.etag.strong =>
         Bodyless(r.status) \/ (Content(r) = r.content /\ r.etag.of = r.content)

-----------------------------------------------------------------------------
(* The session.                                                            *)

SessionType ==
    [attached : BOOLEAN, key : {"none", "old", "new"}, loaded : BOOLEAN,
     modified : BOOLEAN, data : BOOLEAN]

\* The session layer is still to be left.
Ahead ==
    \/ pc \in {"in", "view", "saving"}
    \/ pc = "out" /\ \E p \in 1..depth : KeepsSession(stack[p])

\* What the response says of the session is what became of it.
Tells ==
    /\ response.cookie \in {"old", "new"} => response.seen
    /\ response.seen =>
         \/ saved # "none" /\ response.cookie = saved
         \/ saved = "none" /\ response.cookie = "delete"
         \/ /\ saved = "none" /\ response.cookie = "none"
            /\ response.status >= 500 \/ ~(sent.cookie /\ IsEmpty)

SessionInv ==
    /\ session \in SessionType
    /\ saved \in {"none", "old", "new"}
    /\ saved # "none" => session.key = saved
    /\ Ahead => saved = "none" /\ ~response.seen
    /\ Tells

-----------------------------------------------------------------------------
ViewType == [touches : Seq(Uses), session : SessionUses, answer : Responses]

Place ==
    /\ stack \in Stacks
    /\ view \in ViewType /\ Sound(view.answer)
    /\ pc \in {"in", "view", "out", "saving", "done"}
    /\ depth \in 0..(Len(stack) + 1)
    /\ pc \in {"in", "view"} => depth >= 1
    /\ pc = "saving" => depth \in 1..Len(stack) /\ IsSession
    /\ pc = "out" => depth <= Len(stack)
    /\ pc = "done" => wire = ToBytes(Fold(response))

ExchangeInv == RequestInv /\ Consistent(response) /\ SessionInv /\ Place

-----------------------------------------------------------------------------
(* The request object.                                                     *)

\* What holds of the request, whatever the rest of the exchange does.
RequestFits(r) ==
    /\ r \in RequestType
    /\ ~r.promoted => r.encoding = "default" /\ r.GET = "none"
    /\ r.inits = IF r.promoted THEN 1 ELSE 0
    /\ r.GET \in {"none", r.encoding}

\* A promotion, which needs the charset that was sent.
LEMMA PromoteFits ==
    ASSUME NEW r, RequestFits(r)
    PROVE  /\ RequestFits(Promote(r)) /\ Promote(r).promoted
           /\ Promote(r).method = r.method
           /\ r.promoted => Promote(r) = r
<1>1. CASE r.promoted
  BY <1>1 DEF Promote, RequestFits, RequestType
<1>2. CASE ~r.promoted
  <2> DEFINE latched == [r EXCEPT !.promoted = TRUE]
             d == SetAttributes(latched)
             e == SetEncoding(d, "charset")
  <2>1. /\ latched \in RequestType /\ latched.promoted /\ latched.method = r.method
        /\ latched.inits = 0 /\ latched.encoding = "default" /\ latched.GET = "none"
    BY <1>2 DEF RequestFits, RequestType
  <2> HIDE DEF latched
  <2>2. d \in RequestType /\ d.promoted /\ d.method = r.method /\ d.inits = 1
        /\ d.encoding = "default" /\ d.GET = "none"
    <3>1. d = [latched EXCEPT !.path = "sent", !.match = "None", !.inits = 1]
      BY <2>1 DEF SetAttributes, RequestType
    <3> HIDE DEF d
    <3>2. d \in RequestType
      BY <2>1, <3>1 DEF RequestType
    <3> QED
      BY <2>1, <3>1, <3>2 DEF RequestType
  <2>3. Promote(r) = IF sent.charset THEN e ELSE d
    BY <1>2, <2>2 DEF Promote, Django, latched
  <2> HIDE DEF d
  <2>4. e \in RequestType /\ e.promoted /\ e.method = r.method /\ e.inits = 1
        /\ e.encoding = "charset" /\ e.GET = "none"
    BY <2>2 DEF RequestType, SetEncoding
  <2> HIDE DEF e
  <2> QED
    BY <1>2, <2>2, <2>3, <2>4 DEF RequestFits
<1> QED
  BY <1>1, <1>2 DEF RequestFits, RequestType

\* Every use keeps the query and the encoding together, and takes nothing back.
LEMMA UseFits ==
    ASSUME NEW r, RequestFits(r), NEW how \in Uses
    PROVE  /\ RequestFits(Use(r, how))
           /\ r.promoted =>
                /\ r.path = "rewritten" => Use(r, how).path = "rewritten"
                /\ r.match = "set" => Use(r, how).match = "set"
                /\ r.encoding = "app" => Use(r, how).encoding = "app"
           /\ ~r.promoted /\ Use(r, how).promoted => Use(r, how).method = r.method
<1>1. /\ RequestFits(Promote(r)) /\ Promote(r).promoted
      /\ Promote(r).method = r.method
      /\ r.promoted => Promote(r) = r
  BY PromoteFits
<1>2. CASE how = "meta"
  BY <1>1, <1>2 DEF Use
<1>3. CASE how = "GET"
  <2> DEFINE p == Promote(r)
  <2>1. Use(r, how) = IF p.GET = "none" THEN [p EXCEPT !.GET = p.encoding] ELSE p
    BY <1>3 DEF Use, ReadGET
  <2>2. RequestFits(p) /\ p.promoted /\ p.method = r.method /\ (r.promoted => p = r)
    BY <1>1
  <2> HIDE DEF p
  <2> QED
    BY <2>1, <2>2 DEF RequestFits, RequestType
<1>4. CASE how = "encoding"
  <2> DEFINE p == Promote(r)
             u == [p EXCEPT !.encoding = "app", !.GET = "none"]
  <2>1. Use(r, how) = u
    BY <1>4 DEF Use, SetEncoding
  <2>2. p \in RequestType /\ p.promoted /\ p.method = r.method /\ (r.promoted => p = r)
        /\ p.inits = 1
    BY <1>1 DEF RequestFits
  <2> HIDE DEF p
  <2>3. u.encoding = "app" /\ u.GET = "none" /\ u.promoted /\ u.method = r.method
        /\ (r.promoted => u.path = r.path /\ u.match = r.match) /\ u.inits = 1
    BY <2>2 DEF RequestType
  <2>4. u \in RequestType
    BY <2>2 DEF RequestType
  <2> HIDE DEF u
  <2>5. RequestFits(u)
    BY <2>3, <2>4 DEF RequestFits
  <2> QED
    BY <1>4, <2>1, <2>3, <2>5
<1>5. CASE how = "match"
  BY <1>1, <1>5 DEF Use, ReadMatch
<1>6. CASE how = "method"
  BY <1>6 DEF Use, RequestFits, RequestType
<1>7. CASE how = "path"
  BY <1>7 DEF Use, RequestFits, RequestType
<1> QED
  BY <1>2, <1>3, <1>4, <1>5, <1>6, <1>7 DEF Uses

\* How a step changes the request: by a use of it, or by the resolver.
RequestMoves ==
    \/ request' = request
    \/ request' = Promote(request)
    \/ \E how \in Uses : request' = Use(request, how)
    \/ request' = [request EXCEPT !.match = "set"]

\* What was sent and the settings stay.
LEMMA RequestStep ==
    Place /\ [Next]_vars => RequestMoves /\ UNCHANGED settings
<1> SUFFICES ASSUME Place, [Next]_vars PROVE RequestMoves /\ UNCHANGED settings
  OBVIOUS
<1> USE DEF RequestMoves, settings
<1>1. CASE EnterSecurity
  BY <1>1 DEF EnterSecurity
<1>2. CASE EnterCommon
  BY <1>2 DEF EnterCommon
<1>3. CASE EnterSession
  BY <1>3 DEF EnterSession
<1>4. CASE EnterOther
  BY <1>4 DEF EnterOther
<1>5. CASE Resolve
  BY <1>5 DEF Resolve
<1>6. CASE ViewUsesRequest
  <2>1. view.touches \in Seq(Uses) /\ view.touches # << >>
    BY <1>6 DEF ViewUsesRequest, Place, ViewType
  <2>2. Head(view.touches) \in Uses
    BY <2>1, HeadTailProperties
  <2> QED
    BY <1>6, <2>2 DEF ViewUsesRequest
<1>7. CASE ViewUsesSession
  BY <1>7 DEF ViewUsesSession
<1>8. CASE ViewAnswers
  BY <1>8 DEF ViewAnswers
<1>9. CASE LeaveSecurity
  BY <1>9 DEF LeaveSecurity
<1>10. CASE LeaveCommon
  BY <1>10 DEF LeaveCommon
<1>11. CASE LeaveConditionalGet
  BY <1>11 DEF LeaveConditionalGet
<1>12. CASE LeaveGZip
  BY <1>12 DEF LeaveGZip
<1>13. CASE LeaveOther
  BY <1>13 DEF LeaveOther
<1>14. CASE LeaveSession
  BY <1>14 DEF LeaveSession
<1>15. CASE SaveSession
  BY <1>15 DEF SaveSession
<1>16. CASE OtherLogsOut
  BY <1>16 DEF OtherLogsOut
<1>17. CASE Serialize
  BY <1>17 DEF Serialize
<1>18. CASE UNCHANGED vars
  BY <1>18 DEF vars
<1> QED
  BY <1>1, <1>2, <1>3, <1>4, <1>5, <1>6, <1>7, <1>8, <1>9, <1>10, <1>11, <1>12,
     <1>13, <1>14, <1>15, <1>16, <1>17, <1>18 DEF Next

\* The resolver sets the match and nothing else.
LEMMA MatchFits ==
    ASSUME NEW r, RequestFits(r)
    PROVE  RequestFits([r EXCEPT !.match = "set"])
  BY DEF RequestFits, RequestType

\* A step keeps what holds of the request.
LEMMA RequestKept == RequestInv /\ RequestMoves /\ UNCHANGED sent => RequestInv'
<1> SUFFICES ASSUME RequestInv, RequestMoves, UNCHANGED sent PROVE RequestInv'
  OBVIOUS
<1>1. RequestFits(request) /\ sent \in Sent
  BY DEF RequestInv, RequestFits, GETFollowsEncoding
<1>2. RequestFits(request')
  BY <1>1, PromoteFits, UseFits, MatchFits DEF RequestMoves
<1> QED
  BY <1>1, <1>2 DEF RequestInv, RequestFits, GETFollowsEncoding

-----------------------------------------------------------------------------
(* Responses.                                                              *)

\* The one reading of the content is of a body, and for good.
LEMMA ContentIsBody ==
    ASSUME NEW r \in Response
    PROVE  Content(r) \in Body /\ Content(Materialized(r)) = Content(r)
<1>1. Content(r) \in Body
  BY DEF Content, Response, Body, Texts
<1>2. Materialized(r).content = Content(r) /\ Materialized(r).kind = r.kind
      /\ Materialized(r).data = r.data
  BY DEF Materialized, Response
<1>3. ~(r.kind = "fast" /\ Content(r) = Unset)
  BY DEF Content, Response, Texts, Unset
<1> QED
  BY <1>1, <1>2, <1>3 DEF Content

\* A response built in place of another.
LEMMA PlainIsConsistent ==
    ASSUME NEW status \in Nat, NEW text \in Texts
    PROVE  /\ Consistent(Plain(status, text))
           /\ Plain(status, text).cookie = "none" /\ ~Plain(status, text).seen
           /\ Plain(status, text).status = status
  BY DEF Plain, Consistent, Response, Body, Texts, NoTag, NoBody, Content, Unset

\* What is kept of the session and of the status by the layers that look at the
\* body.
SameButBody(r, q) == r.status = q.status /\ r.cookie = q.cookie /\ r.seen = q.seen

\* Reading the content changes nothing that the client can tell.
LEMMA MaterializedIsConsistent ==
    ASSUME NEW r, Consistent(r)
    PROVE  Consistent(Materialized(r)) /\ SameButBody(Materialized(r), r)
<1> DEFINE c == Content(r)
<1>1. c \in Body /\ Content(Materialized(r)) = c
  BY ContentIsBody DEF Consistent
<1>2. Materialized(r) = [r EXCEPT !.content = c]
  BY DEF Materialized
<1>3. /\ r \in Response /\ c.gzip = (IF r.encoded THEN 1 ELSE 0)
      /\ r.etag.strong => Bodyless(r.status) \/ (c = r.content /\ r.etag.of = c)
  BY DEF Consistent
<1> HIDE DEF c
<1> QED
  BY <1>1, <1>2, <1>3 DEF Consistent, SameButBody, Response

\* A validator is computed of the content that is sent from here on.
LEMMA TaggedIsConsistent ==
    ASSUME NEW r, Consistent(r)
    PROVE  Consistent(Tagged(r)) /\ SameButBody(Tagged(r), r)
<1>1. CASE Tagged(r) = r
  BY <1>1 DEF SameButBody
<1>2. CASE Tagged(r) = [Materialized(r) EXCEPT !.etag = [strong |-> TRUE, of |-> Content(r)]]
  <2> DEFINE c == Content(r)
             q == [r EXCEPT !.content = c, !.etag = [strong |-> TRUE, of |-> c]]
  <2>1. c \in Body /\ Content(Materialized(r)) = c /\ ~(r.kind = "fast" /\ c = Unset)
    <3>1. ~(r.kind = "fast" /\ c = Unset)
      BY DEF Content, Consistent, Response, Texts, Unset
    <3> QED
      BY <3>1, ContentIsBody DEF Consistent
  <2>2. Tagged(r) = q
    BY <1>2 DEF Materialized, Consistent, Response
  <2>3. r \in Response /\ c.gzip = (IF r.encoded THEN 1 ELSE 0)
    BY DEF Consistent
  <2> HIDE DEF c
  <2>4. /\ q \in Response /\ q.content = c /\ q.kind = r.kind /\ q.encoded = r.encoded
        /\ q.etag.of = c /\ SameButBody(q, r)
    BY <2>1, <2>3 DEF Response, SameButBody
  <2> HIDE DEF q
  <2>5. Content(q) = c
    BY <2>1, <2>4 DEF Content
  <2> QED
    BY <2>2, <2>3, <2>4, <2>5 DEF Consistent
<1> QED
  BY <1>1, <1>2 DEF Tagged

\* 304 has the validator and the cookies of the response it stands for.
LEMMA NotModifiedIsConsistent ==
    ASSUME NEW r, Consistent(r)
    PROVE  /\ Consistent(NotModified(r)) /\ NotModified(r).status = 304
           /\ NotModified(r).cookie = r.cookie /\ NotModified(r).seen = r.seen
<1> DEFINE p == Plain(304, "empty")
<1>1. /\ r \in Response /\ p \in Response
      /\ p.status = 304 /\ p.kind = "django" /\ ~p.encoded /\ p.content.gzip = 0
  BY DEF Consistent, Plain, Response, Body, Texts, NoTag, NoBody
<1>2. NotModified(r) = [p EXCEPT !.etag = r.etag, !.cookie = r.cookie, !.seen = r.seen]
  BY DEF NotModified
<1> DEFINE e == r.etag
           k == r.cookie
           b == r.seen
           q == NotModified(r)
           E == [strong : BOOLEAN, of : Body]
           Fields == [kind : {"fast", "django", "streaming", "exception"},
                      status : Nat, data : Texts, content : Body,
                      encoded : BOOLEAN, etag : E,
                      cookie : {"none", "old", "new", "delete"}, seen : BOOLEAN]
<1>3. /\ e \in E /\ b \in BOOLEAN /\ k \in {"none", "old", "new", "delete"}
      /\ p \in Fields /\ Fields = Response
  BY <1>1 DEF Response
<1>4. q = [p EXCEPT !.etag = e, !.cookie = k, !.seen = b]
  BY <1>2
<1> HIDE DEF p, e, k, b, q, E
<1>5. q \in Fields
  BY <1>3, <1>4
<1>6. /\ q.status = p.status /\ q.kind = p.kind
      /\ q.encoded = p.encoded /\ q.content = p.content
      /\ q.cookie = k /\ q.seen = b
  BY <1>3, <1>4
<1>7. /\ NotModified(r) \in Response
      /\ NotModified(r).status = 304 /\ NotModified(r).kind = "django"
      /\ ~NotModified(r).encoded /\ NotModified(r).content.gzip = 0
      /\ NotModified(r).cookie = r.cookie /\ NotModified(r).seen = r.seen
  BY <1>1, <1>3, <1>5, <1>6 DEF q, b, k
<1> QED
  BY <1>1, <1>7 DEF Consistent, Content, Bodyless

\* Compressed once, and the validator is no longer a strong one.
LEMMA CompressIsConsistent ==
    ASSUME NEW r, Consistent(r), ~r.encoded
    PROVE  Consistent(Compress(r)) /\ SameButBody(Compress(r), r)
<1> DEFINE c == Content(r)
           q == Compress(r)
<1>1. r \in Response /\ c \in Body /\ c.gzip = 0
  BY ContentIsBody DEF Consistent
<1>2. q = [r EXCEPT !.content = [c EXCEPT !.gzip = @ + 1], !.encoded = TRUE,
                    !.etag.strong = FALSE]
  BY DEF Compress
<1> HIDE DEF c
<1>3. [c EXCEPT !.gzip = @ + 1] \in Body /\ [c EXCEPT !.gzip = @ + 1].gzip = 1
  BY <1>1 DEF Body
<1> DEFINE z == [c EXCEPT !.gzip = @ + 1]
           t == [r.etag EXCEPT !.strong = FALSE]
<1>4. t \in [strong : BOOLEAN, of : Body] /\ ~t.strong
  BY <1>1 DEF Response
<1>5. q = [r EXCEPT !.content = z, !.encoded = TRUE, !.etag = t]
  BY <1>1, <1>2 DEF Response
<1> HIDE DEF z, t
<1>7. /\ q \in Response /\ SameButBody(q, r) /\ q.encoded /\ q.etag = t
      /\ q.content = z
  BY <1>1, <1>3, <1>4, <1>5 DEF Response, SameButBody, z
<1> HIDE DEF q
<1>6. Content(q) = q.content
  BY <1>3, <1>7 DEF Content, Unset, z
<1> QED
  BY <1>3, <1>4, <1>6, <1>7 DEF Consistent, q, z

\* The data of a response that has been read is of no effect.
LEMMA EditIsConsistent ==
    ASSUME NEW r, Consistent(r), NEW text \in Texts
    PROVE  /\ Consistent([r EXCEPT !.data = text])
           /\ SameButBody([r EXCEPT !.data = text], r)
<1> DEFINE q == [r EXCEPT !.data = text]
<1>1. /\ r \in Response /\ q \in Response /\ SameButBody(q, r)
      /\ q.kind = r.kind /\ q.content = r.content /\ q.encoded = r.encoded
      /\ q.etag = r.etag /\ q.data = text
  BY DEF Consistent, Response, SameButBody
<1>2. r.data # "unset"
  BY <1>1 DEF Response, Texts
<1> HIDE DEF q
<1>3. CASE r.kind = "fast" /\ r.content = Unset
  <2>1. Content(r) = [text |-> r.data, gzip |-> 0] /\ Content(q) = [text |-> text, gzip |-> 0]
    BY <1>1, <1>3 DEF Content
  <2>2. Content(r) # r.content
    BY <2>1, <1>2, <1>3 DEF Unset
  <2> QED
    BY <1>1, <2>1, <2>2 DEF Consistent, Bodyless, SameButBody, q
<1>4. CASE ~(r.kind = "fast" /\ r.content = Unset)
  <2>1. Content(r) = r.content /\ Content(q) = r.content
    BY <1>1, <1>4 DEF Content
  <2> QED
    BY <1>1, <2>1 DEF Consistent, Bodyless, SameButBody, q
<1> QED
  BY <1>1, <1>3, <1>4 DEF q

\* The mark and the cookie of the session are not of the body.
LEMMA SeenIsConsistent ==
    ASSUME NEW r, Consistent(r), NEW cookie \in {"none", "old", "new", "delete"}
    PROVE  /\ Consistent(Seen(r, cookie)) /\ Seen(r, cookie).status = r.status
           /\ Seen(r, cookie).cookie = cookie /\ Seen(r, cookie).seen
<1>1. r \in Response /\ Seen(r, cookie) = [r EXCEPT !.cookie = cookie, !.seen = TRUE]
  BY DEF Seen, Consistent
<1>2. Content(Seen(r, cookie)) = Content(r)
  BY <1>1 DEF Content, Response
<1> QED
  BY <1>1, <1>2 DEF Consistent, Response

\* What a view answers.
LEMMA AnswerIsConsistent ==
    ASSUME NEW r \in Responses, Sound(r)
    PROVE  Consistent(r) /\ r.status \in Nat /\ r.cookie = "none" /\ ~r.seen
<1>1. Bodies \subseteq Body
  BY DEF Bodies, Body, Unset, NoBody
<1>2. r \in Response
  BY <1>1 DEF Responses, Response
<1>3. r.etag.strong => Content(r) = r.content
  BY DEF Sound, Content
<1> QED
  BY <1>2, <1>3 DEF Consistent, Sound, Response

-----------------------------------------------------------------------------
(* The response, step by step.                                             *)

\* What a response says of the session is handed on, or is gone with it.
HandsOn(r, q) ==
    \/ q.cookie = r.cookie /\ q.seen = r.seen /\ (r.status >= 500 => q.status >= 500)
    \/ q.cookie = "none" /\ ~q.seen

\* Each layer hands on a consistent response, and only the session middleware
\* says something of the session.
LEMMA ResponseStep ==
    Consistent(response) /\ session \in SessionType /\ Place /\ [Next]_vars =>
        /\ Consistent(response')
        /\ LeaveSession \/ SaveSession \/ HandsOn(response, response')
<1> SUFFICES ASSUME Consistent(response), session \in SessionType, Place, [Next]_vars
             PROVE  /\ Consistent(response')
                    /\ LeaveSession \/ SaveSession \/ HandsOn(response, response')
  OBVIOUS
<1>a. /\ \A r : Consistent(r) => r.status \in Nat
      /\ \A r : HandsOn(r, r)
  BY DEF Consistent, Response, HandsOn
<1>b. ASSUME NEW status \in Nat, NEW text \in Texts, NEW r
      PROVE  /\ Consistent(Plain(status, text)) /\ HandsOn(r, Plain(status, text))
  BY PlainIsConsistent DEF HandsOn
<1>c. ASSUME NEW r, Consistent(r)
      PROVE  /\ Consistent(Materialized(r)) /\ HandsOn(r, Materialized(r))
             /\ Consistent(Tagged(r)) /\ HandsOn(r, Tagged(r)) /\ Tagged(r).status = r.status
             /\ Consistent(NotModified(r))
             /\ r.status \in 200..299 => HandsOn(r, NotModified(r))
             /\ Consistent([r EXCEPT !.data = "edited"])
             /\ HandsOn(r, [r EXCEPT !.data = "edited"])
  <2>1. /\ Consistent(Materialized(r)) /\ HandsOn(r, Materialized(r))
        /\ Consistent(Tagged(r)) /\ HandsOn(r, Tagged(r)) /\ Tagged(r).status = r.status
    BY <1>c, MaterializedIsConsistent, TaggedIsConsistent DEF SameButBody, HandsOn
  <2>2. "edited" \in Texts
    BY DEF Texts
  <2>3. /\ Consistent([r EXCEPT !.data = "edited"])
        /\ HandsOn(r, [r EXCEPT !.data = "edited"])
    BY <1>c, <2>2, EditIsConsistent DEF SameButBody, HandsOn
  <2>4. r.status \in 200..299 => ~(r.status >= 500)
    BY <1>c, <1>a
  <2>5. Consistent(NotModified(r)) /\ (r.status \in 200..299 => HandsOn(r, NotModified(r)))
    BY <1>c, <2>4, NotModifiedIsConsistent DEF HandsOn
  <2> QED
    BY <2>1, <2>3, <2>5
<1>d. "message" \in Texts /\ "empty" \in Texts
  BY DEF Texts
<1>1. CASE UNCHANGED response
  BY <1>1, <1>a
<1>2. CASE EnterSecurity
  BY <1>2, <1>a, <1>b, <1>d DEF EnterSecurity, Answer, Raise, Outwards
<1>3. CASE EnterCommon
  BY <1>3, <1>a, <1>b, <1>d DEF EnterCommon, Raise, Outwards, Answer
<1>4. CASE Resolve
  BY <1>4, <1>a, <1>b, <1>d DEF Resolve, Raise, Outwards
<1>5. CASE ViewAnswers
  <2>1. /\ Consistent(view.answer) /\ view.answer.status \in Nat
        /\ HandsOn(response, view.answer)
    BY AnswerIsConsistent DEF Place, ViewType, HandsOn
  <2> QED
    BY <1>5, <2>1, <1>b, <1>d DEF ViewAnswers, Raise, Outwards
<1>6. CASE LeaveSecurity
  BY <1>6, <1>a DEF LeaveSecurity, Outwards
<1>7. CASE LeaveCommon
  <2>1. \/ response' = response \/ response' = Materialized(response)
        \/ response' = Plain(301, "empty") \/ response' = Plain(500, "message")
    BY <1>7 DEF LeaveCommon, Raise, Outwards
  <2>2. CASE response' = Materialized(response)
    BY <2>2, <1>c
  <2> QED
    BY <2>1, <2>2, <1>a, <1>b, <1>d
<1>8. CASE LeaveConditionalGet
  <2>1. CASE request.method # "GET"
    BY <1>8, <2>1, <1>a DEF LeaveConditionalGet, Outwards
  <2>2. CASE request.method = "GET"
    <3>1. PICK r \in {response, Tagged(response)} :
              \/ response' = r
              \/ r.status \in 200..299 /\ response' \in {r, NotModified(r), Plain(412, "empty")}
      BY <1>8, <2>2 DEF LeaveConditionalGet, Outwards
    <3>2. /\ Consistent(r) /\ HandsOn(response, r) /\ r.status = response.status
          /\ r.cookie = response.cookie /\ r.seen = response.seen
      BY <1>a, <1>c, TaggedIsConsistent DEF SameButBody
    <3>3. CASE response' = NotModified(r) /\ r.status \in 200..299
      <4>1. /\ NotModified(r).cookie = response.cookie /\ NotModified(r).seen = response.seen
            /\ ~(response.status >= 500)
        BY <3>2, <3>3, NotModifiedIsConsistent
      <4> QED
        BY <4>1, <3>2, <3>3, <1>c DEF HandsOn
    <3> QED
      BY <3>1, <3>2, <3>3, <1>b, <1>d
  <2> QED
    BY <2>1, <2>2
<1>9. CASE LeaveGZip
  <2> DEFINE r == IF Streaming(response) THEN response ELSE Materialized(response)
  <2>1. Consistent(r) /\ SameButBody(r, response)
    BY MaterializedIsConsistent DEF SameButBody
  <2>2. response' = r \/ (response' = Compress(r) /\ ~r.encoded)
    BY <1>9 DEF LeaveGZip, Outwards, CanCompress
  <2> HIDE DEF r
  <2>3. /\ Consistent(response')
        /\ SameButBody(response', r)
    BY <2>1, <2>2, CompressIsConsistent DEF SameButBody
  <2> QED
    BY <2>1, <2>3 DEF SameButBody, HandsOn
<1>10. CASE LeaveOther
  BY <1>10, <1>a, <1>c DEF LeaveOther, Outwards
<1>11. CASE LeaveSession
  BY <1>11, SeenIsConsistent DEF LeaveSession, Outwards
<1>12. CASE SaveSession
  <2>1. session.key \in {"none", "old", "new"}
    BY <1>12 DEF SessionType
  <2> DEFINE key == IF session.key = "none" THEN "new" ELSE session.key
  <2>2. response' = Seen(response, key) \/ response' = Plain(400, "message")
    BY <1>12 DEF SaveSession, Outwards, Raise
  <2>3. key \in {"none", "old", "new", "delete"}
    BY <2>1
  <2> HIDE DEF key
  <2> QED
    BY <1>12, <2>2, <2>3, <1>b, <1>d, SeenIsConsistent
<1> QED
  BY <1>1, <1>2, <1>3, <1>4, <1>5, <1>6, <1>7, <1>8, <1>9, <1>10, <1>11, <1>12
  DEF Next, vars, EnterSession, EnterOther, ViewUsesRequest, ViewUsesSession,
      OtherLogsOut, Serialize

-----------------------------------------------------------------------------
(* The place in the stack.                                                 *)

\* The way through the stack does not leave it.
LEMMA PlaceStep ==
    Place /\ [Next]_vars => Place'
<1> SUFFICES ASSUME Place, [Next]_vars PROVE Place'
  OBVIOUS
<1>1. /\ stack' = stack /\ sent' = sent /\ stack \in Stacks
  BY RequestStep DEF settings, Place
<1>2. Len(stack) \in Nat /\ depth \in 0..(Len(stack) + 1)
  BY <1>1, StacksAssumption, LenProperties DEF Place
<1>3. view' \in ViewType /\ Sound(view'.answer)
  <2>1. CASE ViewUsesRequest
    <3>1. Tail(view.touches) \in Seq(Uses)
      BY <2>1, HeadTailProperties DEF ViewUsesRequest, Place, ViewType
    <3> QED
      BY <2>1, <3>1 DEF ViewUsesRequest, Place, ViewType
  <2>2. CASE ViewUsesSession
    BY <2>2 DEF ViewUsesSession, Place, ViewType, SessionUses
  <2>3. CASE UNCHANGED view
    BY <2>3 DEF Place
  <2> QED
    BY <2>1, <2>2, <2>3 DEF Next, vars, EnterSecurity, EnterCommon, EnterSession, EnterOther,
       Resolve, ViewAnswers, LeaveSecurity, LeaveCommon, LeaveConditionalGet, LeaveGZip,
       LeaveOther, LeaveSession, SaveSession, OtherLogsOut, Serialize
<1>4. /\ pc' \in {"in", "view", "out", "saving", "done"}
      /\ depth' \in 0..(Len(stack) + 1)
      /\ pc' \in {"in", "view"} => depth' >= 1
      /\ pc' = "saving" => depth' \in 1..Len(stack) /\ KeepsSession(stack[depth'])
      /\ pc' = "out" => depth' <= Len(stack)
      /\ pc' = "done" => UNCHANGED response \/ Serialize
      /\ pc' = "done" => Serialize \/ (pc = "done" /\ UNCHANGED wire /\ UNCHANGED response)
  <2> USE DEF Place, Top
  <2>1. CASE EnterSecurity
    BY <1>2, <2>1 DEF EnterSecurity, Inwards, Answer, Raise, Outwards
  <2>2. CASE EnterCommon
    BY <1>2, <2>2 DEF EnterCommon, Inwards, Answer, Raise, Outwards
  <2>3. CASE EnterSession
    BY <1>2, <2>3 DEF EnterSession, Inwards
  <2>4. CASE EnterOther
    BY <1>2, <2>4 DEF EnterOther, Inwards
  <2>5. CASE Resolve
    BY <1>2, <2>5 DEF Resolve, Raise, Outwards
  <2>6. CASE ViewUsesRequest
    BY <1>2, <2>6 DEF ViewUsesRequest
  <2>7. CASE ViewUsesSession
    BY <1>2, <2>7 DEF ViewUsesSession
  <2>8. CASE ViewAnswers
    BY <1>2, <2>8 DEF ViewAnswers, Raise, Outwards
  <2>9. CASE LeaveSecurity
    BY <1>2, <2>9 DEF LeaveSecurity, Outwards
  <2>10. CASE LeaveCommon
    BY <1>2, <2>10 DEF LeaveCommon, Raise, Outwards
  <2>11. CASE LeaveConditionalGet
    <3>1. pc = "out" /\ depth > 0 /\ pc' = "out" /\ depth' = depth - 1
      BY <2>11 DEF LeaveConditionalGet, Outwards
    <3> QED
      BY <1>2, <3>1
  <2>12. CASE LeaveGZip
    BY <1>2, <2>12 DEF LeaveGZip, Outwards
  <2>13. CASE LeaveOther
    BY <1>2, <2>13 DEF LeaveOther, Outwards
  <2>14. CASE LeaveSession
    <3>1. pc = "out" /\ depth > 0 /\ IsSession
      BY <2>14 DEF LeaveSession
    <3>2. KeepsSession(stack[depth])
      BY <3>1 DEF IsSession, Layer
    <3>3. \/ pc' = "saving" /\ depth' = depth
          \/ \E mark \in {"delete", "none"} : Outwards(Seen(response, mark))
      BY <2>14, Zenon DEF LeaveSession
    <3>4. (pc' = "saving" /\ depth' = depth) \/ (pc' = "out" /\ depth' = depth - 1)
      BY <3>3 DEF Outwards
    <3> QED
      BY <1>2, <3>1, <3>2, <3>4
  <2>15. CASE SaveSession
    BY <1>2, <2>15 DEF SaveSession, Raise, Outwards
  <2>16. CASE OtherLogsOut
    BY <1>2, <2>16 DEF OtherLogsOut, IsSession, Layer
  <2>17. CASE Serialize
    BY <1>2, <2>17 DEF Serialize
  <2>18. CASE UNCHANGED vars
    BY <1>2, <2>18 DEF vars, IsSession, Layer
  <2> QED
    BY <2>1, <2>2, <2>3, <2>4, <2>5, <2>6, <2>7, <2>8, <2>9, <2>10, <2>11, <2>12, <2>13,
       <2>14, <2>15, <2>16, <2>17, <2>18 DEF Next
<1>5. pc' = "done" => wire' = ToBytes(Fold(response))'
  <2>1. CASE Serialize
    BY <1>1, <2>1 DEF Serialize, ToBytes
  <2>2. CASE pc = "done" /\ UNCHANGED wire /\ UNCHANGED response
    BY <1>1, <2>2 DEF Place, ToBytes
  <2> QED
    BY <1>4, <2>1, <2>2
<1> QED
  BY <1>1, <1>3, <1>4, <1>5 DEF Place, IsSession, Layer

-----------------------------------------------------------------------------
(* The session.                                                            *)

\* The layer that keeps sessions is the only one.
LEMMA LeftBehind ==
    ASSUME Place, depth \in 1..Len(stack), IsSession
    PROVE  /\ \A p \in 1..(depth - 1) : ~KeepsSession(stack[p])
           /\ pc = "out" => Ahead
<1>1. /\ stack \in Seq(Kinds) /\ Len(stack) \in Nat
      /\ \A i, j \in DOMAIN stack : KeepsSession(stack[i]) /\ KeepsSession(stack[j]) => i = j
  BY StacksAssumption, LenProperties DEF Place
<1>2. DOMAIN stack = 1..Len(stack)
  BY <1>1, LenProperties
<1>3. depth \in 1..depth
  OBVIOUS
<1> QED
  BY <1>1, <1>2, <1>3 DEF IsSession, Layer, Ahead

\* A step that hands the response on and leaves the session alone.
LEMMA SessionKept ==
    ASSUME SessionInv, HandsOn(response, response'), UNCHANGED <<session, saved, sent>>,
           Ahead' => Ahead, response.status \in Nat, response'.status \in Nat
    PROVE  SessionInv'
<1>1. /\ session' \in SessionType /\ saved' \in {"none", "old", "new"}
      /\ saved' # "none" => session'.key = saved'
      /\ IsEmpty' <=> IsEmpty
  BY DEF SessionInv, IsEmpty
<1>2. Ahead' => saved' = "none" /\ ~response'.seen
  BY DEF SessionInv, HandsOn
<1>3. CASE response'.cookie = response.cookie /\ response'.seen = response.seen
           /\ (response.status >= 500 => response'.status >= 500)
  <2>1. Tells'
    BY <1>1, <1>3 DEF SessionInv, Tells
  <2> QED
    BY <1>1, <1>2, <2>1 DEF SessionInv
<1>4. CASE response'.cookie = "none" /\ ~response'.seen
  BY <1>1, <1>2, <1>4 DEF SessionInv, Tells
<1> QED
  BY <1>3, <1>4 DEF HandsOn

\* A use of the session before it is saved.
LEMMA SessionUsed ==
    ASSUME SessionInv, Ahead, UNCHANGED <<saved, sent, response>>, session' \in SessionType
    PROVE  SessionInv'
  BY DEF SessionInv, Tells

\* Looking at the data keeps the key, or drops it.
LEMMA LoadType ==
    ASSUME NEW s \in SessionType
    PROVE  Load(s) \in SessionType
<1> DEFINE found == s.key \in rows
<1>1. Load(s) \in {s} \cup {[s EXCEPT !.loaded = TRUE, !.data = found,
                                      !.key = IF found THEN @ ELSE "none"]}
  BY DEF Load
<1>2. found \in BOOLEAN
  OBVIOUS
<1> HIDE DEF found
<1> QED
  BY <1>1, <1>2 DEF SessionType

\* The session layer, on the way out.
LEMMA SessionLeft ==
    ASSUME SessionInv, Place, Consistent(response), UNCHANGED <<sent, stack>>,
           LeaveSession
    PROVE  SessionInv'
<1>1. /\ pc = "out" /\ depth \in 1..Len(stack) /\ IsSession
      /\ Len(stack) \in Nat /\ saved' = saved
  <2>1. Len(stack) \in Nat /\ depth \in 0..(Len(stack) + 1)
    BY StacksAssumption, LenProperties DEF Place
  <2>2. pc = "out" /\ depth > 0 /\ IsSession /\ saved' = saved
    BY DEF LeaveSession
  <2> QED
    BY <2>1, <2>2 DEF Place
<1>2. Ahead /\ saved = "none"
  BY <1>1, LeftBehind DEF SessionInv
<1>3. pc' = "out" /\ depth' = depth - 1 => ~Ahead'
  BY <1>1, LeftBehind DEF Ahead
<1>4. response.status \in Nat /\ Load(session) \in SessionType /\ session \in SessionType
  BY LoadType DEF SessionInv, Consistent, Response
<1>5. CASE UNCHANGED response /\ session' = Load(session)
  BY <1>1, <1>2, <1>4, <1>5, SessionUsed
<1>6. ASSUME NEW cookie \in {"none", "old", "new", "delete"}
      PROVE  /\ Seen(response, cookie).status = response.status
             /\ Seen(response, cookie).cookie = cookie /\ Seen(response, cookie).seen
  BY SeenIsConsistent
<1>7. CASE /\ session' = Load(session) /\ response.status >= 500
           /\ Outwards(Seen(response, "none"))
  <2>1. response'.status >= 500 /\ response'.cookie = "none" /\ response'.seen
    BY <1>6, <1>7 DEF Outwards
  <2> QED
    BY <1>1, <1>2, <1>3, <1>4, <1>7, <2>1 DEF SessionInv, Tells, Outwards
<1>8. CASE /\ session' = session
           /\ Outwards(Seen(response, IF sent.cookie /\ IsEmpty THEN "delete" ELSE "none"))
  <2>1. /\ response'.seen
        /\ response'.cookie = (IF sent.cookie /\ IsEmpty THEN "delete" ELSE "none")
    BY <1>6, <1>8 DEF Outwards
  <2>2. IsEmpty' <=> IsEmpty
    BY <1>8 DEF IsEmpty
  <2> QED
    BY <1>1, <1>2, <1>3, <1>4, <1>8, <2>1, <2>2 DEF SessionInv, Tells, Outwards
<1>9. \/ UNCHANGED response /\ session' = Load(session)
      \/ /\ session' = Load(session) /\ ~(response.status < 500)
         /\ Outwards(Seen(response, "none"))
      \/ /\ session' = session
         /\ Outwards(Seen(response, IF sent.cookie /\ IsEmpty THEN "delete" ELSE "none"))
  BY DEF LeaveSession
<1> QED
  BY <1>4, <1>5, <1>7, <1>8, <1>9

\* The save is told with the response, and the session does not change after it.
LEMMA SessionSaved ==
    ASSUME SessionInv, Place, Consistent(response), UNCHANGED <<sent, stack>>,
           SaveSession
    PROVE  SessionInv'
<1>1. /\ pc = "saving" /\ depth \in 1..Len(stack) /\ IsSession /\ Len(stack) \in Nat
      /\ pc' = "out" /\ depth' = depth - 1
  BY StacksAssumption, LenProperties DEF SaveSession, Place, Outwards, Raise
<1>2. Ahead /\ saved = "none" /\ ~Ahead'
  BY <1>1, LeftBehind DEF SessionInv, Ahead
<1> DEFINE key == IF session.key = "none" THEN "new" ELSE session.key
<1>3. /\ session \in SessionType /\ key \in {"old", "new"}
  BY DEF SessionInv, SessionType
<1>4. \/ /\ session' = [session EXCEPT !.key = key] /\ saved' = key
         /\ response' = Seen(response, key)
      \/ response' = Plain(400, "message") /\ UNCHANGED <<session, saved>>
  BY DEF SaveSession, Outwards, Raise
<1> HIDE DEF key
<1>5. CASE /\ session' = [session EXCEPT !.key = key] /\ saved' = key
           /\ response' = Seen(response, key)
  <2>1. response'.cookie = key /\ response'.seen
    BY <1>3, <1>5, SeenIsConsistent
  <2>2. session' \in SessionType /\ session'.key = key
    BY <1>3, <1>5 DEF SessionType
  <2> QED
    BY <1>2, <1>3, <1>5, <2>1, <2>2 DEF SessionInv, Tells
<1>6. CASE response' = Plain(400, "message") /\ UNCHANGED <<session, saved>>
  <2>1. response'.cookie = "none" /\ ~response'.seen
    BY <1>6, PlainIsConsistent DEF Texts
  <2> QED
    BY <1>2, <1>6, <2>1 DEF SessionInv, Tells
<1> QED
  BY <1>4, <1>5, <1>6

\* A step keeps what holds of the session.
LEMMA SessionStep ==
    SessionInv /\ Place /\ Consistent(response) /\ [Next]_vars => SessionInv'
<1> SUFFICES ASSUME SessionInv, Place, Consistent(response), [Next]_vars
             PROVE  SessionInv'
  OBVIOUS
<1>1. UNCHANGED <<sent, stack>>
  BY RequestStep DEF settings
<1>2. /\ session \in SessionType /\ Load(session) \in SessionType
  BY LoadType DEF SessionInv
<1>3. /\ response.status \in Nat /\ response'.status \in Nat
      /\ LeaveSession \/ SaveSession \/ HandsOn(response, response')
  BY <1>2, ResponseStep DEF Consistent, Response
<1>4. Len(stack) \in Nat /\ depth \in 0..(Len(stack) + 1)
  BY StacksAssumption, LenProperties DEF Place
<1>5. CASE LeaveSession
  BY <1>1, <1>5, SessionLeft
<1>6. CASE SaveSession
  BY <1>1, <1>6, SessionSaved
<1>7. CASE EnterSession
  <2>1. session' \in SessionType
    BY <1>2, <1>7 DEF EnterSession, SessionType
  <2> QED
    BY <1>1, <1>7, <2>1, SessionUsed DEF EnterSession, Ahead
<1>8. CASE ViewUsesSession
  <2>1. view.session \in SessionUses
    BY DEF Place, ViewType
  <2> DEFINE s == Load(session)
  <2>2. s \in SessionType
    BY <1>2
  <2>3. \/ session' = session \/ session' = s
        \/ session' = [s EXCEPT !.modified = TRUE, !.data = TRUE]
        \/ session' = [s EXCEPT !.modified = TRUE, !.data = TRUE, !.key = "new"]
        \/ session' = [s EXCEPT !.modified = TRUE, !.data = FALSE, !.key = "none"]
    BY <1>8, <2>1 DEF ViewUsesSession, SessionUses
  <2> HIDE DEF s
  <2>4. session' \in SessionType
    BY <1>2, <2>2, <2>3 DEF SessionType
  <2> QED
    BY <1>1, <1>8, <2>4, SessionUsed DEF ViewUsesSession, Ahead
<1>9. CASE /\ ~LeaveSession /\ ~SaveSession /\ ~EnterSession /\ ~ViewUsesSession
  <2>1. UNCHANGED <<session, saved>> /\ (Ahead' => Ahead)
    <3> USE <1>1, <1>4 DEF Ahead
    <3>1. CASE EnterSecurity
      BY <3>1 DEF EnterSecurity
    <3>2. CASE EnterCommon
      BY <3>2 DEF EnterCommon
    <3>3. CASE EnterOther
      BY <3>3 DEF EnterOther
    <3>4. CASE Resolve
      BY <3>4 DEF Resolve
    <3>5. CASE ViewUsesRequest
      BY <3>5 DEF ViewUsesRequest
    <3>6. CASE ViewAnswers
      BY <3>6 DEF ViewAnswers
    <3>7. CASE \/ LeaveSecurity \/ LeaveCommon \/ LeaveConditionalGet
               \/ LeaveGZip \/ LeaveOther
      <4>1. /\ pc = "out" /\ depth > 0 /\ pc' = "out" /\ depth' = depth - 1
            /\ UNCHANGED <<session, saved>>
        BY <3>7 DEF LeaveSecurity, LeaveCommon, LeaveConditionalGet, LeaveGZip, LeaveOther,
                    Outwards, Raise
      <4>2. 1..(depth - 1) \subseteq 1..depth
        BY <4>1
      <4> QED
        BY <4>1, <4>2
    <3>8. CASE OtherLogsOut
      BY <3>8 DEF OtherLogsOut
    <3>9. CASE Serialize
      BY <3>9 DEF Serialize
    <3>10. CASE UNCHANGED vars
      BY <3>10 DEF vars
    <3> QED
      BY <1>9, <3>1, <3>2, <3>3, <3>4, <3>5, <3>6, <3>7, <3>8, <3>9, <3>10 DEF Next
  <2> QED
    BY <1>1, <1>3, <1>9, <2>1, SessionKept
<1> QED
  BY <1>5, <1>6, <1>7, <1>8, <1>9

-----------------------------------------------------------------------------
(* The theorems.                                                           *)

\* It starts with no session and a response that says nothing of one.
LEMMA ExchangeInits == Init => ExchangeInv
<1> SUFFICES ASSUME Init PROVE ExchangeInv
  OBVIOUS
<1>1. RequestInv
  BY SendsAssumption DEF Init, Lazy, Sent, RequestInv, RequestType, GETFollowsEncoding
<1>2. Consistent(response) /\ response.cookie = "none" /\ ~response.seen
  BY PlainIsConsistent DEF Init, Texts
<1>3. SessionInv
  BY <1>2 DEF Init, SessionInv, SessionType, Tells
<1>4. Place
  <2>1. Len(stack) \in Nat /\ view \in ViewType /\ Sound(view.answer)
    BY StacksAssumption, ViewsAssumption, LenProperties DEF Init, ViewType
  <2> QED
    BY <2>1 DEF Init, Place
<1> QED
  BY <1>1, <1>2, <1>3, <1>4 DEF ExchangeInv

\* Every step keeps it.
LEMMA ExchangeSteps == ExchangeInv /\ [Next]_vars => ExchangeInv'
<1> SUFFICES ASSUME ExchangeInv, [Next]_vars PROVE ExchangeInv'
  OBVIOUS
<1>1. RequestInv'
  BY RequestStep, RequestKept DEF ExchangeInv, settings
<1>2. Consistent(response)'
  BY ResponseStep DEF ExchangeInv, SessionInv
<1>3. SessionInv'
  BY SessionStep DEF ExchangeInv
<1>4. Place'
  BY PlaceStep DEF ExchangeInv
<1> QED
  BY <1>1, <1>2, <1>3, <1>4 DEF ExchangeInv

\* The inductive invariant of an exchange.
THEOREM ExchangeInvariant == Spec => []ExchangeInv
  BY ExchangeInits, ExchangeSteps, PTL DEF Spec

\* The query is decoded with the encoding in force, after any uses of the
\* request in any order.
THEOREM QueryFollowsEncoding == Spec => []GETFollowsEncoding
<1>1. ExchangeInv => GETFollowsEncoding
  BY DEF ExchangeInv, RequestInv
<1> QED
  BY <1>1, ExchangeInvariant, PTL

\* What is written is the response that the outermost layer handed on, or 501.
LEMMA WireIsResponse ==
    ASSUME ExchangeInv, pc = "done"
    PROVE  \/ wire = ToBytes(Plain(501, "message"))
           \/ /\ wire.status = response.status /\ wire.encoded = response.encoded
              /\ wire.etag = response.etag /\ wire.cookie = response.cookie
              /\ wire.seen = response.seen
              /\ \/ wire.body = NoBody
                 \/ wire.body = Content(response) /\ ~Bodyless(response.status)
<1>1. wire = ToBytes(Fold(response)) /\ response \in Response
  BY DEF ExchangeInv, Place, Consistent
<1>2. CASE Streaming(response)
  BY <1>1, <1>2 DEF Fold
<1>3. CASE ~Streaming(response)
  <2> DEFINE m == Materialized(response)
  <2>1. wire = ToBytes(m)
    BY <1>1, <1>3 DEF Fold
  <2>2. /\ m.status = response.status /\ m.encoded = response.encoded
        /\ m.etag = response.etag /\ m.cookie = response.cookie
        /\ m.seen = response.seen /\ m.content = Content(response)
    BY <1>1 DEF Materialized, Response
  <2> HIDE DEF m
  <2> QED
    BY <2>1, <2>2 DEF ToBytes
<1> QED
  BY <1>2, <1>3

\* 501 has a body that says what it is, no validator, and nothing of a session.
LEMMA NotImplemented ==
    LET w == ToBytes(Plain(501, "message"))
    IN  /\ ~w.encoded /\ ~w.etag.strong /\ w.cookie = "none" /\ ~w.seen
        /\ w.body = NoBody \/ w.body.gzip = 0
  BY DEF ToBytes, Plain, NoTag

\* The client can decode every answer, through any stack of middleware.
THEOREM AnswersDecode == Spec => []BodyDecodes
<1>1. ExchangeInv => BodyDecodes
  <2> SUFFICES ASSUME ExchangeInv, pc = "done"
               PROVE  /\ wire.body # NoBody => wire.body.gzip = (IF wire.encoded THEN 1 ELSE 0)
                      /\ sent.method = "HEAD" => wire.body = NoBody
    BY DEF BodyDecodes, Sending
  <2>1. Content(response).gzip = (IF response.encoded THEN 1 ELSE 0)
    BY DEF ExchangeInv, Consistent
  <2>2. sent.method = "HEAD" => wire.body = NoBody
    BY DEF ExchangeInv, Place, ToBytes
  <2> QED
    BY <2>1, <2>2, WireIsResponse, NotImplemented
<1> QED
  BY <1>1, ExchangeInvariant, PTL

\* A strong validator names the bytes sent, wherever in the stack it was computed.
THEOREM ValidatorsNameTheBody == Spec => []StrongTagNamesBody
<1>1. ExchangeInv => StrongTagNamesBody
  <2> SUFFICES ASSUME ExchangeInv, pc = "done", wire.body # NoBody, wire.etag.strong
               PROVE  wire.body = wire.etag.of
    BY DEF StrongTagNamesBody, Sending
  <2>1. response.etag.strong =>
          Bodyless(response.status)
            \/ (Content(response) = response.content /\ response.etag.of = response.content)
    BY DEF ExchangeInv, Consistent
  <2> QED
    BY <2>1, WireIsResponse, NotImplemented
<1> QED
  BY <1>1, ExchangeInvariant, PTL

\* The client hears what became of its session.
THEOREM SessionsAreTold == Spec => []SessionToldToClient
<1>1. ExchangeInv => SessionToldToClient
  <2> SUFFICES ASSUME ExchangeInv, pc = "done"
               PROVE  /\ wire.cookie \in {"old", "new"} => saved = wire.cookie
                      /\ wire.seen /\ saved # "none" => wire.cookie = saved
                      /\ wire.seen /\ sent.cookie /\ IsEmpty /\ wire.status < 500
                           => wire.cookie = "delete"
    BY DEF SessionToldToClient
  <2>1. /\ Tells /\ saved \in {"none", "old", "new"} /\ (saved # "none" => session.key = saved)
        /\ response.status \in Nat
    BY DEF ExchangeInv, SessionInv, Consistent, Response
  <2>2. CASE wire = ToBytes(Plain(501, "message"))
    BY <2>2, NotImplemented
  <2>3. CASE /\ wire.status = response.status /\ wire.cookie = response.cookie
             /\ wire.seen = response.seen
    BY <2>1, <2>3 DEF Tells, IsEmpty
  <2> QED
    BY <2>2, <2>3, WireIsResponse
<1> QED
  BY <1>1, ExchangeInvariant, PTL

\* There is one promotion at most; it keeps the method, and nothing that was
\* set on a promoted request is taken back.
THEOREM PromotionsKeep == Spec => PromotionKeeps
<1> DEFINE Once == request'.inits = (IF request'.promoted THEN 1 ELSE 0)
           Kept ==
      IF request.promoted
      THEN /\ request.path = "rewritten" => request'.path = "rewritten"
           /\ request.match = "set" => request'.match = "set"
           /\ request.encoding = "app" => request'.encoding = "app"
      ELSE request'.promoted => request'.method = request.method
<1>1. ExchangeInv /\ [Next]_vars => [Once /\ Kept]_request
  <2> SUFFICES ASSUME ExchangeInv, [Next]_vars PROVE Once /\ (Kept \/ UNCHANGED request)
    OBVIOUS
  <2>1. RequestFits(request) /\ RequestMoves
    BY RequestStep DEF ExchangeInv, RequestInv, RequestFits, GETFollowsEncoding
  <2>2. Kept \/ UNCHANGED request
    <3>1. CASE request' = Promote(request)
      BY <2>1, <3>1, PromoteFits
    <3>2. CASE \E how \in Uses : request' = Use(request, how)
      BY <2>1, <3>2, UseFits
    <3>3. CASE request' = [request EXCEPT !.match = "set"]
      BY <2>1, <3>3 DEF RequestFits, RequestType
    <3> QED
      BY <2>1, <3>1, <3>2, <3>3 DEF RequestMoves
  <2>3. RequestInv'
    BY ExchangeSteps DEF ExchangeInv
  <2> QED
    BY <2>2, <2>3 DEF RequestInv
<1> QED
  BY <1>1, ExchangeInvariant, PTL DEF Spec, PromotionKeeps

\* No step brings back the row of a session that was ended.
THEOREM LogoutsStand == Spec => LogoutStands
<1>1. ExchangeInv /\ [Next]_vars => ["old" \notin rows => "old" \notin rows']_rows
  <2> SUFFICES ASSUME ExchangeInv, [Next]_vars, "old" \notin rows PROVE "old" \notin rows'
    OBVIOUS
  <2>1. CASE ViewUsesSession
    BY <2>1 DEF ViewUsesSession
  <2>2. CASE SaveSession
    BY <2>2 DEF SaveSession
  <2>3. CASE OtherLogsOut
    BY <2>3 DEF OtherLogsOut
  <2>4. CASE UNCHANGED rows
    BY <2>4
  <2> QED
    BY <2>1, <2>2, <2>3, <2>4 DEF Next, vars, EnterSecurity, EnterCommon, EnterSession,
       EnterOther, Resolve, ViewUsesRequest, ViewAnswers, LeaveSecurity, LeaveCommon,
       LeaveConditionalGet, LeaveGZip, LeaveOther, LeaveSession, Serialize
<1> QED
  BY <1>1, ExchangeInvariant, PTL DEF Spec, LogoutStands
=============================================================================
