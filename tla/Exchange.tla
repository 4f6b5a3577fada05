------------------------------ MODULE Exchange ------------------------------
(***************************************************************************)
(* One request and its answer: the request object, the middleware of       *)
(* src/massless/_middleware.py in any order, a view, and the serializers   *)
(* of responses.py, _protocol.pyx and _response.pyx.                       *)
(*                                                                         *)
(* Module Chain has the hooks and adapters of the chain; here a layer is   *)
(* what its process_request and process_response do to the request, to the *)
(* session and to the response.                                            *)
(***************************************************************************)
EXTENDS Request, Naturals, Sequences

CONSTANTS
    Stacks,    \* the values of settings.MIDDLEWARE, outermost first
    Sends,     \* what the client may send
    Views      \* the views: uses of the request, of the session, the answer

\* "session" saves a session that was modified, "session always" every one.
\* An application's middleware is named for its use of the request, or edits
\* the data of a fast response on the way out.
Kinds == {"security", "common", "conditional", "gzip", "session",
          "session always", "edit"} \cup Uses

\* A body: its text, and whether it is compressed.
Texts == {"long", "short", "empty", "edited", "message"}
Unset == [text |-> "unset", gzip |-> 0]
NoBody == [text |-> "none", gzip |-> 0]
Bodies == [text : Texts, gzip : 0..1] \cup {Unset, NoBody}
NoTag == [strong |-> FALSE, of |-> NoBody]

\* data: what a fast response is made of; content: what it will send.
\* seen: it has passed the session middleware (a mark of the model).
\* An exception has the status that Django's response for it has.
Responses ==
    [kind : {"fast", "django", "streaming", "exception"},
     status : {200, 204, 301, 304, 400, 403, 404, 412, 500, 501},
     data : Texts, content : Bodies, encoded : BOOLEAN,
     etag : [strong : BOOLEAN, of : Bodies],
     cookie : {"none", "old", "new", "delete"}, seen : BOOLEAN]

SessionUses == {"none", "read", "change", "login", "logout"}

\* Of the layers that keep sessions a stack has one at most: a second one would
\* replace request.session.
KeepsSession(kind) == kind \in {"session", "session always"}

ASSUME StacksAssumption ==
    \A s \in Stacks :
        /\ s \in Seq(Kinds)
        /\ \A i, j \in DOMAIN s : KeepsSession(s[i]) /\ KeepsSession(s[j]) => i = j
ASSUME SendsAssumption == Sends \subseteq Sent

VARIABLES
    stack, view,
    pc, depth,   \* the place in the stack, inwards and outwards
    session,     \* request.session
    rows,        \* the keys with a row in the session store
    saved,       \* history: the key the session middleware saved, or none
    response,
    wire         \* what is written

settings == <<sent, stack>>
vars == <<sent, request, stack, view, pc, depth, session, rows, saved, response, wire>>

-----------------------------------------------------------------------------
(* Responses.                                                              *)

Plain(status, text) ==
    [kind |-> "django", status |-> status, data |-> text,
     content |-> [text |-> text, gzip |-> 0], encoded |-> FALSE, etag |-> NoTag,
     cookie |-> "none", seen |-> FALSE]

\* JsonResponse.content: reading it serializes the data once, and for good.
Content(r) ==
    IF r.kind = "fast" /\ r.content = Unset THEN [text |-> r.data, gzip |-> 0] ELSE r.content

\* What a view answers is sound in itself: compressed if and only if it says so,
\* a strong validator of its own names its content, and no session cookie.
Sound(r) ==
    /\ Content(r).gzip = (IF r.encoded THEN 1 ELSE 0)
    /\ r.etag.strong => r.content # Unset /\ r.etag.of = r.content
    /\ r.cookie = "none" /\ ~r.seen

ASSUME ViewsAssumption ==
    /\ Views \subseteq [touches : Seq(Uses), session : SessionUses, answer : Responses]
    /\ \A v \in Views : Sound(v.answer)

Materialized(r) == [r EXCEPT !.content = Content(r)]
Streaming(r) == r.kind = "streaming"

\* What is put into the massless Response.
\* Mutant: a fast response always from its data.
FoldData(r) ==
    IF Streaming(r) THEN Plain(501, "message")
    ELSE IF r.kind = "fast" THEN [r EXCEPT !.content = [text |-> r.data, gzip |-> 0]]
    ELSE r

\* _serialize, _django_response_to_massless, and 501 for a streaming response.
Fold(r) == IF Streaming(r) THEN Plain(501, "message") ELSE Materialized(r)

\* Response.to_bytes, for the method that was sent.
Bodyless(status) == status \in {204, 304}
ToBytes(r) ==
    [status |-> r.status, encoded |-> r.encoded, etag |-> r.etag, cookie |-> r.cookie,
     seen |-> r.seen,
     body |-> IF sent.method = "HEAD" \/ Bodyless(r.status) THEN NoBody ELSE r.content]

-----------------------------------------------------------------------------
(* Where the request is.                                                   *)

Top == Len(stack)
Layer == stack[depth]

Init ==
    /\ sent \in Sends
    /\ stack \in Stacks
    /\ view \in Views
    /\ request = Lazy(sent)
    /\ pc = "in" /\ depth = 1
    /\ session = [attached |-> FALSE, key |-> "none", loaded |-> FALSE,
                  modified |-> FALSE, data |-> FALSE]
    /\ rows \in IF sent.cookie THEN {{}, {"old"}} ELSE {{}}
    /\ saved = "none"
    /\ response = Plain(200, "empty")
    /\ wire = ToBytes(Plain(200, "empty"))

Inwards == pc' = "in" /\ depth' = depth + 1
Outwards(r) == response' = r /\ pc' = "out" /\ depth' = depth - 1

\* Each layer, and the view, is wrapped: an exception becomes a response.
Raise(status) == Outwards(Plain(status, "message"))

\* process_request has answered: the layer's own process_response is next.
Answer(r) == response' = r /\ pc' = "out" /\ UNCHANGED depth

-----------------------------------------------------------------------------
(* process_request.                                                        *)

\* With a redirect to https the scheme is looked at, which promotes; the host it
\* redirects to may not be allowed (get_host raises DisallowedHost, a 400).
EnterSecurity ==
    /\ pc = "in" /\ depth <= Top /\ Layer = "security"
    /\ \/ UNCHANGED <<request, response>> /\ Inwards
       \/ /\ request' = Promote(request)
          /\ \/ Inwards /\ UNCHANGED response
             \/ Answer(Plain(301, "empty"))
             \/ Raise(400)
    /\ UNCHANGED <<settings, view, session, rows, saved, wire>>

\* A forbidden user agent; a host that is not allowed; a redirect to www, which
\* fails like that of process_response below; or on.
EnterCommon ==
    /\ pc = "in" /\ depth <= Top /\ Layer = "common"
    /\ request' = Promote(request)
    /\ \/ Raise(403)
       \/ Raise(400)
       \/ request.method = "PUT" /\ Raise(500)
       \/ Answer(Plain(301, "empty"))
       \/ Inwards /\ UNCHANGED response
    /\ UNCHANGED <<settings, view, session, rows, saved, wire>>

IsSession == KeepsSession(Layer)

EnterSession ==
    /\ pc = "in" /\ depth <= Top /\ IsSession
    /\ request' = Promote(request)
    /\ session' = [session EXCEPT !.attached = TRUE,
                                  !.key = IF sent.cookie THEN "old" ELSE "none"]
    /\ Inwards
    /\ UNCHANGED <<settings, view, rows, saved, response, wire>>

\* An application's middleware, and those without a process_request.
EnterOther ==
    /\ pc = "in" /\ depth <= Top
    /\ Layer \in Uses \cup {"conditional", "gzip", "edit"}
    /\ request' = IF Layer \in Uses THEN Use(request, Layer) ELSE request
    /\ Inwards
    /\ UNCHANGED <<settings, view, session, rows, saved, response, wire>>

-----------------------------------------------------------------------------
(* The resolver and the view.                                              *)

\* Through the table or Django's resolver; there may be no route.
Resolve ==
    /\ pc = "in" /\ depth = Top + 1
    /\ \/ /\ request' = [request EXCEPT !.match = "set"]
          /\ pc' = "view" /\ UNCHANGED <<depth, response>>
       \/ Raise(404) /\ UNCHANGED request
    /\ UNCHANGED <<settings, view, session, rows, saved, wire>>

ViewUsesRequest ==
    /\ pc = "view" /\ view.touches # << >>
    /\ request' = Use(request, Head(view.touches))
    /\ view' = [view EXCEPT !.touches = Tail(@)]
    /\ UNCHANGED <<settings, pc, depth, session, rows, saved, response, wire>>

\* The first look at the data loads the row; without one, the key is dropped.
Load(s) ==
    IF s.loaded THEN s
    ELSE LET found == s.key \in rows
         IN  [s EXCEPT !.loaded = TRUE, !.data = found, !.key = IF found THEN @ ELSE "none"]

\* login() is cycle_key(): a new row at once, and the old one deleted;
\* logout() is flush().
ViewUsesSession ==
    /\ pc = "view" /\ view.touches = << >> /\ view.session # "none"
    /\ view' = [view EXCEPT !.session = "none"]
    /\ LET s == Load(session)
           how == IF session.attached THEN view.session ELSE "none"
       IN  /\ session' =
                CASE how = "none" -> session
                  [] how = "read" -> s
                  [] how = "change" -> [s EXCEPT !.modified = TRUE, !.data = TRUE]
                  [] how = "login" -> [s EXCEPT !.modified = TRUE, !.data = TRUE, !.key = "new"]
                  [] how = "logout" -> [s EXCEPT !.modified = TRUE, !.data = FALSE, !.key = "none"]
           /\ rows' =
                CASE how = "login" -> (rows \ {s.key}) \cup {"new"}
                  [] how = "logout" -> rows \ {session.key}
                  [] OTHER -> rows
    /\ UNCHANGED <<settings, request, pc, depth, saved, response, wire>>

ViewAnswers ==
    /\ pc = "view" /\ view.touches = << >> /\ view.session = "none"
    /\ IF view.answer.kind = "exception" THEN Raise(view.answer.status)
       ELSE Outwards(view.answer)
    /\ UNCHANGED <<settings, request, view, session, rows, saved, wire>>

-----------------------------------------------------------------------------
(* process_response.                                                       *)

\* With HSTS the scheme is looked at.
LeaveSecurity ==
    /\ pc = "out" /\ depth > 0 /\ Layer = "security"
    /\ request' \in {request, Promote(request)}
    /\ Outwards(response)
    /\ UNCHANGED <<settings, view, session, rows, saved, wire>>

\* A missing slash makes a 404 a redirect, or an error when DEBUG is on and
\* the method would lose its data.  Content-Length is set from the content,
\* unless the view has set it.
LeaveCommon ==
    /\ pc = "out" /\ depth > 0 /\ Layer = "common"
    /\ \/ Outwards(response)
       \/ ~Streaming(response) /\ Outwards(Materialized(response))
       \/ response.status = 404 /\ Outwards(Plain(301, "empty"))
       \/ response.status = 404 /\ request.method = "PUT" /\ Raise(500)
    /\ UNCHANGED <<settings, request, view, session, rows, saved, wire>>

\* The validator names the content at this layer, unless the response is
\* no-store.  get_conditional_response: 304 keeps the tag and the cookies.
Tagged(r) ==
    IF Streaming(r) \/ Content(r).text = "empty" \/ r.etag # NoTag THEN r
    ELSE [Materialized(r) EXCEPT !.etag = [strong |-> TRUE, of |-> Content(r)]]

NotModified(r) ==
    [Plain(304, "empty") EXCEPT !.etag = r.etag, !.cookie = r.cookie, !.seen = r.seen]

LeaveConditionalGet ==
    /\ pc = "out" /\ depth > 0 /\ Layer = "conditional"
    /\ IF request.method # "GET"
       THEN Outwards(response) /\ UNCHANGED request
       ELSE \E r \in {response, Tagged(response)} :
              \/ /\ r.etag = NoTag \/ r.status \notin 200..299
                 /\ Outwards(r) /\ UNCHANGED request
              \/ /\ r.status \in 200..299     \* with a tag, or Last-Modified
                 /\ request' = Promote(request)
                 /\ \E answer \in {r, NotModified(r), Plain(412, "empty")} : Outwards(answer)
    /\ UNCHANGED <<settings, view, session, rows, saved, wire>>

\* Mutant: a strong validator stays strong.
CompressKeepingTag(r) ==
    [r EXCEPT !.content = [Content(r) EXCEPT !.gzip = @ + 1], !.encoded = TRUE]

Compress(r) ==
    [r EXCEPT !.content = [Content(r) EXCEPT !.gzip = @ + 1], !.encoded = TRUE,
              !.etag.strong = FALSE]

\* Too short, or encoded already.
CanCompress(r) ==
    /\ Streaming(r) \/ Content(r).text \in {"long", "edited"}
    /\ ~r.encoded

LeaveGZip ==
    /\ pc = "out" /\ depth > 0 /\ Layer = "gzip"
    /\ LET r == IF Streaming(response) THEN response ELSE Materialized(response)
       IN  IF CanCompress(r)
           THEN request' = Promote(request) /\ (Outwards(r) \/ Outwards(Compress(r)))
           ELSE UNCHANGED request /\ Outwards(r)
    /\ UNCHANGED <<settings, view, session, rows, saved, wire>>

\* A middleware that changes the data of a fast response: of no effect once
\* the content was read.
LeaveOther ==
    /\ pc = "out" /\ depth > 0 /\ Layer \in Uses \cup {"edit"}
    /\ Outwards(IF Layer = "edit" /\ response.kind = "fast"
                THEN [response EXCEPT !.data = "edited"] ELSE response)
    /\ UNCHANGED <<settings, request, view, session, rows, saved, wire>>

-----------------------------------------------------------------------------
(* _aprocess_response of the session middleware, which awaits the store.   *)

IsEmpty == session.key = "none" /\ ~session.data
Seen(r, cookie) == [r EXCEPT !.cookie = cookie, !.seen = TRUE]

\* What is to be done is decided before the first await.
LeaveSession ==
    /\ pc = "out" /\ depth > 0 /\ IsSession
    /\ IF ~IsEmpty /\ (session.modified \/ Layer = "session always")
       THEN /\ session' = Load(session)     \* aget_expire_at_browser_close
            /\ IF response.status < 500
               THEN pc' = "saving" /\ UNCHANGED <<depth, response>>
               ELSE Outwards(Seen(response, "none"))
       ELSE /\ Outwards(Seen(response, IF sent.cookie /\ IsEmpty THEN "delete" ELSE "none"))
            /\ UNCHANGED session
    /\ UNCHANGED <<settings, request, view, rows, saved, wire>>

\* asave, one update of the store, as the database backend makes it (the cache
\* backend looks for the row and then writes it): a session without a key gets a
\* new row; one whose row is gone is an UpdateError, which becomes
\* SessionInterrupted.
\* Mutants: the error is ignored; the row is created again.
SaveIgnoringErrors ==
    /\ pc = "saving"
    /\ LET key == IF session.key = "none" THEN "new" ELSE session.key
       IN  /\ session' = [session EXCEPT !.key = key]
           /\ rows' = IF session.key = "none" THEN rows \cup {key} ELSE rows
           /\ saved' = IF key \in rows' THEN key ELSE "none"
           /\ Outwards(Seen(response, key))
    /\ UNCHANGED <<settings, request, view, wire>>

SaveAgain ==
    /\ pc = "saving"
    /\ LET key == IF session.key = "none" THEN "new" ELSE session.key
       IN  /\ session' = [session EXCEPT !.key = key]
           /\ rows' = rows \cup {key}
           /\ saved' = key
           /\ Outwards(Seen(response, key))
    /\ UNCHANGED <<settings, request, view, wire>>

SaveSession ==
    /\ pc = "saving"
    /\ LET key == IF session.key = "none" THEN "new" ELSE session.key
       IN  IF session.key \in rows \cup {"none"}
           THEN /\ session' = [session EXCEPT !.key = key]
                /\ rows' = rows \cup {key}
                /\ saved' = key
                /\ Outwards(Seen(response, key))
           ELSE Raise(400) /\ UNCHANGED <<session, rows, saved>>
    /\ UNCHANGED <<settings, request, view, wire>>

\* Another request of the same session logs out, at any time.
OtherLogsOut ==
    /\ pc # "done" /\ "old" \in rows
    /\ rows' = rows \ {"old"}
    /\ UNCHANGED <<settings, request, view, pc, depth, session, saved, response, wire>>

-----------------------------------------------------------------------------
Serialize ==
    /\ pc = "out" /\ depth = 0
    /\ wire' = ToBytes(Fold(response))
    /\ pc' = "done"
    /\ UNCHANGED <<settings, request, view, depth, session, rows, saved, response>>

Next ==
    \/ EnterSecurity \/ EnterCommon \/ EnterSession \/ EnterOther
    \/ Resolve \/ ViewUsesRequest \/ ViewUsesSession \/ ViewAnswers
    \/ LeaveSecurity \/ LeaveCommon \/ LeaveConditionalGet \/ LeaveGZip \/ LeaveOther
    \/ LeaveSession \/ SaveSession \/ OtherLogsOut
    \/ Serialize

Spec == Init /\ [][Next]_vars

-----------------------------------------------------------------------------
(* Properties.                                                             *)

Sending == pc = "done" /\ wire.body # NoBody

\* Whatever layers looked at, replaced or compressed the body, and in any
\* order, the client can decode what it gets: compressed once if and only if
\* the answer says so.  An answer to HEAD has no body, whatever method a
\* middleware gave the request.
BodyDecodes ==
    /\ Sending => wire.body.gzip = (IF wire.encoded THEN 1 ELSE 0)
    /\ pc = "done" /\ sent.method = "HEAD" => wire.body = NoBody

\* A strong validator names the bytes it is sent with.
StrongTagNamesBody == Sending /\ wire.etag.strong => wire.body = wire.etag.of

\* The client hears what became of its session: a cookie for the key that was
\* saved, and for no other; its cookie deleted when the session has ended.  The
\* last two are about a response that passed the session middleware and was
\* sent, not about one that an outer layer, or the 501, put in its place.
SessionToldToClient ==
    pc = "done" =>
        /\ wire.cookie \in {"old", "new"} => saved = wire.cookie
        /\ wire.seen /\ saved # "none" => wire.cookie = saved
        /\ wire.seen /\ sent.cookie /\ IsEmpty /\ wire.status < 500 => wire.cookie = "delete"

\* A session that was ended, here or by a concurrent request, stays ended.
LogoutStands == []["old" \notin rows => "old" \notin rows']_rows

\* The request of the view has the match it was resolved to.
ResolverMatchStays == [][request.match = "set" => request'.match = "set"]_request
=============================================================================
