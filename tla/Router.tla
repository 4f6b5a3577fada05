------------------------------- MODULE Router -------------------------------
(***************************************************************************)
(* The router of src/massless/_router.pyx and its use by the handler: how  *)
(* the patterns of a URLconf, with their includes, become one table of     *)
(* Routes.  Django's resolver, which tries them one inside the other, is   *)
(* defined beside it from how match() relies on it.                        *)
(***************************************************************************)
EXTENDS Routes

CONSTANTS
    Confs,        \* the lists of patterns: URLconfs, and what they include
    Depth,        \* how deep the includes of each nest
    MaxDepth,     \* the deepest of them
    Urlconfs,     \* the lists that may be ROOT_URLCONF
    Overrides,    \* those a middleware may set as request.urlconf
    MaxPath       \* bound: the length of a path

IsPattern(pattern) ==
    /\ pattern.type \in {"path", "include", "regex"}
    /\ pattern.type # "regex" => pattern.parts \in Seq(Part)
    /\ pattern.type # "include" => pattern.view # "none"

ASSUME ConfsAssumption ==
    /\ Urlconfs \cup Overrides \subseteq Confs
    /\ \A conf \in Confs :
         conf \in Seq(Range(conf)) /\ \A i \in DOMAIN conf : IsPattern(conf[i])
\* No list of patterns includes itself: _walk would not end.
ASSUME DepthAssumption ==
    /\ MaxDepth \in Nat /\ Depth \in [Confs -> 0..MaxDepth]
    /\ \A conf \in Confs : \A i \in DOMAIN conf :
         conf[i].type = "include" =>
             conf[i].patterns \in Confs /\ Depth[conf[i].patterns] < Depth[conf]

VARIABLES
    urlconf,      \* ROOT_URLCONF, for which the router was built
    active,       \* the URLconf of this request
    path

vars == <<urlconf, active, path>>

-----------------------------------------------------------------------------
(* _finalize, _walk and build_router.                                      *)

\* Adjacent literals become one.
Add(merged, part) ==
    IF merged # << >> /\ part.kind = "lit" /\ Last(merged).kind = "lit"
    THEN Append(Front(merged), [part EXCEPT !.text = Last(merged).text \o @])
    ELSE Append(merged, part)

Merge(parts) ==
    LET merged[i \in 0..Len(parts)] ==
          IF i = 0 THEN << >> ELSE Add(merged[i - 1], parts[i])
    IN  merged[Len(parts)]

\* A route of the table, or the mark that it has none.
LeafEntries(pattern, prefix) ==
    LET parts == Merge(prefix \o pattern.parts)
    IN  IF Safe(parts)
        THEN <<[opaque |-> FALSE, parts |-> parts, view |-> pattern.view,
                defaults |-> pattern.defaults]>>
        ELSE <<Opaque>>

\* A custom converter or a regular expression makes the pattern opaque.  The
\* keyword arguments of an include are not looked at.
Walk[patterns \in Confs] ==
    [prefix \in Seq(Part) |->
        FlattenSeq([i \in DOMAIN patterns |->
            LET pattern == patterns[i]
            IN  IF pattern.type = "regex" \/ \E j \in DOMAIN pattern.parts : ~Known(pattern.parts[j])
                THEN <<Opaque>>
                ELSE IF pattern.type = "include"
                     THEN Walk[pattern.patterns][prefix \o pattern.parts]
                     ELSE LeafEntries(pattern, prefix)])]

BuildRouter(conf) == Walk[conf][<< >>]

-----------------------------------------------------------------------------
(* Django's resolver.                                                      *)

\* An include adds its keyword arguments to those of what it includes.
Including(pattern, s, cut, sub) ==
    IF sub = NoMatch THEN NoMatch
    ELSE [sub EXCEPT !.kwargs =
            Both(@, Both(pattern.defaults, Captured(pattern.parts, s, cut)))]

\* The first pattern that matches; an include hands the rest of the path to
\* its patterns.
Resolve[patterns \in Confs] ==
    [s \in Seq(Chars) |->
        FirstMatch([i \in DOMAIN patterns |->
            LET pattern == patterns[i]
                cuts == Matches(pattern.parts, s, 1..Len(s) + 1)
                cut == Greediest(cuts)
            IN  IF pattern.type = "regex" THEN [view |-> pattern.view, kwargs |-> << >>]
                ELSE IF pattern.type = "path" THEN ResolvePattern(pattern, s)
                ELSE IF cuts = {} THEN NoMatch
                ELSE Including(pattern, s, cut,
                              Resolve[pattern.patterns][After(pattern.parts, s, cut)])])]

Django(conf, p) ==
    IF p = << >> \/ Head(p) # "/" THEN NoMatch ELSE Resolve[conf][Tail(p)]

\* resolve_request: the table serves the URLconf it was built for, and no other.
\* Mutant: it serves any.
ResolveWithAnyUrlconf(conf, p) ==
    LET hit == Match(BuildRouter(urlconf), p)
    IN  IF hit # NoMatch THEN hit ELSE Django(conf, p)

ResolveRequest(conf, p) ==
    LET hit == Match(BuildRouter(urlconf), p)
    IN  IF conf = urlconf /\ hit # NoMatch THEN hit ELSE Django(conf, p)

-----------------------------------------------------------------------------
(* Every URLconf against every path: the path grows at its end.            *)

Init ==
    /\ urlconf \in Urlconfs
    /\ active \in {urlconf} \cup Overrides
    /\ path = << >>

Extend(char) ==
    /\ Len(path) < MaxPath
    /\ path # << >> => Head(path) = "/"
    /\ path' = Append(path, char)
    /\ UNCHANGED <<urlconf, active>>

Next == \E char \in Chars : Extend(char)

Spec == Init /\ [][Next]_vars

-----------------------------------------------------------------------------
(* Properties.                                                             *)

WithDefaults[patterns \in Confs] ==
    \E i \in DOMAIN patterns :
        /\ patterns[i].type = "include"
        /\ patterns[i].defaults # << >> \/ WithDefaults[patterns[i].patterns]

HasNewline == \E i \in DOMAIN path : path[i] = Newline

\* resolve_request finds what Django's resolver finds, view and keyword
\* arguments: the greedy scan takes what the backtracking regular expression
\* takes, no pattern that Django tries earlier is skipped, and a URLconf set by
\* a middleware is obeyed.  Newlines in a path and keyword arguments of an
\* include are the exceptions.
ResolvesAsDjango ==
    ~HasNewline /\ ~WithDefaults[urlconf] =>
        ResolveRequest(active, path) = Django(active, path)

\* Without an opaque entry the router alone decides: a path it does not match
\* has no route in Django either.
MissIsDjangos ==
    LET entries == BuildRouter(urlconf)
    IN  Match(entries, path) = NoMatch /\ (\A i \in DOMAIN entries : ~entries[i].opaque)
            => Django(urlconf, path) = NoMatch

\* "A non-None result is therefore always identical to what Django would have
\* resolved."
HitAlwaysDjangos ==
    LET hit == Match(BuildRouter(urlconf), path)
    IN  hit # NoMatch => hit = Django(urlconf, path)
=============================================================================
