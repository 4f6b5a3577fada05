----------------------------- MODULE MCExchange -----------------------------
(* Exchange on every stack of two layers and every order of three of the   *)
(* substituted ones, with views that vary in one respect at a time.        *)
EXTENDS Exchange

Sequence(S, n) == UNION {[1..k -> S] : k \in 0..n}
\* No middleware is listed twice, and there is one for sessions at most.
Distinct(s) ==
    \A i, j \in DOMAIN s : i # j => s[i] # s[j] /\ ~(KeepsSession(s[i]) /\ KeepsSession(s[j]))

Substituted == {"security", "common", "conditional", "gzip", "session"}
MCStacks == {s \in Sequence(Kinds, 2) \cup Sequence(Substituted \cup {"method", "edit"}, 3) : Distinct(s)}
MCNoMiddleware == {<< >>}

Answer200 == Plain(200, "long")
Fast(status, text) ==
    [Plain(status, text) EXCEPT !.kind = "fast", !.content = Unset]
Exception(status) == [Plain(status, "message") EXCEPT !.kind = "exception"]
Stream == [Answer200 EXCEPT !.kind = "streaming"]
Compressed == [Answer200 EXCEPT !.encoded = TRUE, !.content.gzip = 1]

View(touches, use, answer) == [touches |-> touches, session |-> use, answer |-> answer]

MCViews ==
    {View(t, "none", Answer200) : t \in Sequence({"meta", "GET", "encoding"}, 2)
                                          \cup [1..1 -> Uses]}
      \cup {View(<< >>, use, answer) : use \in SessionUses,
                                       answer \in {Fast(200, "long"), Plain(404, "short"), Exception(500), Stream}}
      \cup {View(<< >>, "none", answer) :
              answer \in {Fast(s, t) : s \in {200, 204}, t \in {"long", "short", "empty"}}
                           \cup {Plain(204, "empty"), Compressed, Exception(404)}}
=============================================================================
