------------------------------- MODULE Routes -------------------------------
(***************************************************************************)
(* One table of routes of src/massless/_router.pyx: the greedy scan of a   *)
(* route, the check that greedy is enough, and the search through the      *)
(* table; beside them, what the regular expression Django makes of a route *)
(* matches.                                                                *)
(*                                                                         *)
(* A path is a sequence of characters.  A route is a sequence of parts: a  *)
(* literal, or a parameter of a kind.  int() and UUID() convert the same   *)
(* text in both, so a captured value is its text.  A match of a route is   *)
(* a cut of the path: where the text of each part ends.                    *)
(***************************************************************************)
EXTENDS Naturals, Sequences, SequencesExt

CONSTANTS
    Chars,        \* the characters of a path
    Digits, HexLetters, Newline,   \* which of them are what
    WordChars,    \* the other letters, and the underscore
    UuidShape     \* the shape of a UUID: "hex" or a dash at each place

ASSUME CharsAssumption ==
    /\ Digits \cup HexLetters \cup WordChars \cup {Newline} \subseteq Chars
    /\ {"/", "-"} \subseteq Chars
ASSUME ShapeAssumption == UuidShape \in Seq({"hex", "-"}) \ {<< >>}

-----------------------------------------------------------------------------
(* Parts and patterns.                                                     *)

SlugChars == Digits \cup HexLetters \cup WordChars \cup {"-"}

Charset(kind) ==
    CASE kind = "int" -> Digits
      [] kind = "str" -> Chars \ {"/"}
      [] kind = "slug" -> SlugChars

Known(part) == part.kind \in {"lit", "int", "str", "slug", "uuid", "path"}

\* A literal is not empty.
Part ==
    {part \in [kind : {"lit", "int", "str", "slug", "uuid", "path", "custom"},
               text : Seq(Chars), name : STRING] :
        part.kind = "lit" => part.text # << >>}

NoMatch == [view |-> "none", kwargs |-> << >>]
Opaque == [opaque |-> TRUE, parts |-> << >>, view |-> "none", defaults |-> << >>]

\* Where the text of each of n parts ends, in a path that is cut before end;
\* the first part begins at 1.
Cuts(n, end) ==
    {cut \in {[i \in 0..n |-> IF i = n THEN end ELSE IF i = 0 THEN 1 ELSE inner[i]] :
                inner \in [1..n - 1 -> 1..end]} : cut[0] = 1}

Piece(s, cut, i) == SubSeq(s, cut[i - 1], cut[i] - 1)

\* Keyword arguments on top of others.
Both(inner, outer) ==
    [name \in DOMAIN inner \cup DOMAIN outer |->
        IF name \in DOMAIN inner THEN inner[name] ELSE outer[name]]

\* Those of a route: of two parameters with one name the last one counts.
Captured(parts, s, cut) ==
    LET params == {i \in DOMAIN parts : parts[i].kind # "lit"}
        last(name) == CHOOSE i \in params :
                          /\ parts[i].name = name
                          /\ \A j \in params : parts[j].name = name => j <= i
    IN  [name \in {parts[i].name : i \in params} |-> Piece(s, cut, last(name))]

-----------------------------------------------------------------------------
(* try_match and match.                                                    *)

IsUuid(s) ==
    /\ Len(s) = Len(UuidShape)
    /\ \A i \in 1..Len(s) :
         IF UuidShape[i] = "-" THEN s[i] = "-" ELSE s[i] \in Digits \cup HexLetters

UuidAt(s, cur) ==
    LET last == cur + Len(UuidShape) - 1
    IN  last <= Len(s) /\ IsUuid(SubSeq(s, cur, last))

\* The first place at or after cur that the charset does not consume.
Stop(kind, s, cur) ==
    LET stops == {i \in cur..Len(s) : s[i] \notin Charset(kind)}
    IN  IF stops = {} THEN Len(s) + 1 ELSE CHOOSE i \in stops : \A j \in stops : i <= j

\* Where the scan is after a part, or 0 when the part does not match.
Consume(part, s, cur) ==
    CASE part.kind = "lit" ->
           IF IsPrefix(part.text, SubSeq(s, cur, Len(s))) THEN cur + Len(part.text) ELSE 0
      [] part.kind = "uuid" ->
           IF UuidAt(s, cur) THEN cur + Len(UuidShape) ELSE 0
      [] part.kind = "path" -> IF cur <= Len(s) THEN Len(s) + 1 ELSE 0
      [] OTHER -> IF Stop(part.kind, s, cur) > cur THEN Stop(part.kind, s, cur) ELSE 0

\* The scan, part by part, ends at the end of the path.
Scans(parts, s) ==
    {cut \in Cuts(Len(parts), Len(s) + 1) :
        \A i \in DOMAIN parts : cut[i] = Consume(parts[i], s, cut[i - 1])}

\* The keyword arguments of a route that matches all of s; no view otherwise.
TryMatch(entry, s) ==
    LET scans == Scans(entry.parts, s)
    IN  IF scans = {} THEN NoMatch
        ELSE [view |-> entry.view,
              kwargs |-> Both(entry.defaults,
                              Captured(entry.parts, s, CHOOSE cut \in scans : TRUE))]

\* The table in URLconf order; an opaque entry, or no match, defers to Django.
Match(entries, p) ==
    LET s == Tail(p)
        hits == {i \in DOMAIN entries : entries[i].opaque \/ TryMatch(entries[i], s) # NoMatch}
    IN  IF p = << >> \/ Head(p) # "/" \/ hits = {} THEN NoMatch
        ELSE LET first == entries[CHOOSE i \in hits : \A j \in hits : i <= j]
             IN  IF first.opaque THEN NoMatch ELSE TryMatch(first, s)

-----------------------------------------------------------------------------
(* _finalize.                                                              *)

\* Greedy equals the regular expression: a parameter ends the route, or a
\* literal follows whose first character it cannot consume.
\* Mutant: only that a literal follows.
SafeBeforeAnyLiteral(parts) ==
    \A i \in 1..Len(parts) :
        parts[i].kind # "lit" /\ i < Len(parts) =>
            parts[i].kind # "path" /\ parts[i + 1].kind = "lit"

Safe(parts) ==
    \A i \in 1..Len(parts) :
        parts[i].kind # "lit" /\ i < Len(parts) =>
            /\ parts[i].kind # "path"
            /\ parts[i + 1].kind = "lit"
            /\ parts[i].kind = "uuid" \/ Head(parts[i + 1].text) \notin Charset(parts[i].kind)

-----------------------------------------------------------------------------
(* Django's RoutePattern.                                                  *)

\* The texts the regular expression of a part matches.
Language(part, s) ==
    CASE part.kind = "lit" -> s = part.text
      [] part.kind = "uuid" -> IsUuid(s)
      [] part.kind = "path" -> s # << >> /\ \A i \in DOMAIN s : s[i] # Newline
      [] part.kind = "custom" -> s # << >> /\ \A i \in DOMAIN s : s[i] # "/"
      [] OTHER -> s # << >> /\ \A i \in DOMAIN s : s[i] \in Charset(part.kind)

\* The ways in which the expression matches s up to one of these ends.
Matches(parts, s, ends) ==
    {cut \in UNION {Cuts(Len(parts), end) : end \in ends} :
        \A i \in DOMAIN parts : Language(parts[i], Piece(s, cut, i))}

\* Backtracking finds the one in which the first part is longest, then the
\* second, and so on.
Greedier(cut, other) ==
    \E i \in DOMAIN cut : cut[i] > other[i] /\ \A j \in 0..i - 1 : cut[j] = other[j]

Greediest(cuts) == CHOOSE cut \in cuts : \A other \in cuts \ {cut} : Greedier(cut, other)

\* What an include leaves of the path to its patterns.
After(parts, s, cut) == SubSeq(s, cut[Len(parts)], Len(s))

\* What URLPattern.resolve returns.
ResolvePattern(pattern, s) ==
    LET cuts == Matches(pattern.parts, s, {Len(s) + 1})
    IN  IF cuts = {} THEN NoMatch
        ELSE [view |-> pattern.view,
              kwargs |-> Both(pattern.defaults, Captured(pattern.parts, s, Greediest(cuts)))]

\* The first of several outcomes that is a match.
FirstMatch(outcomes) ==
    LET hits == {i \in DOMAIN outcomes : outcomes[i] # NoMatch}
    IN  IF hits = {} THEN NoMatch
        ELSE outcomes[CHOOSE i \in hits : \A j \in hits : i <= j]
=============================================================================
