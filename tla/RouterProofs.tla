---------------------------- MODULE RouterProofs ----------------------------
(***************************************************************************)
(* The router finds what Django's resolver finds, for every URLconf, with  *)
(* includes of any depth, and every path.                                  *)
(*                                                                         *)
(* First, greedy is enough for one route: a parameter that is followed by  *)
(* a literal which it cannot consume has one place to stop.  So a cut of   *)
(* the path is found by the scan if and only if it fits the expression,    *)
(* part by part, and there is nothing to backtrack to.  For the same       *)
(* reason an include leaves to its patterns what the scan of the two as    *)
(* one route leaves: only the last part of the include could end earlier,  *)
(* and the backtracking makes it end as late as it can.  Merging literals  *)
(* changes neither what a scan reaches nor what it captures.               *)
(*                                                                         *)
(* Then, by induction on how deep the includes of a list nest, what _walk  *)
(* makes of the list below any prefix fits what Django finds below it      *)
(* (Fits).  The order of the patterns matters: the first entry that hits   *)
(* comes from the first pattern that matches, for the entries before it    *)
(* are of patterns that do not match.                                      *)
(***************************************************************************)
EXTENDS Router, SequenceTheorems, WellFoundedInduction, TLAPS

\* What _parse_raw makes: known kinds, and no empty literal.
IsPart(part) ==
    /\ part.kind \in {"lit", "int", "str", "slug", "uuid", "path"}
    /\ part.kind = "lit" => part.text \in Seq(Chars) \ {<< >>}

IsRoute(parts) ==
    /\ parts \in Seq(Range(parts))
    /\ \A i \in DOMAIN parts : IsPart(parts[i])

IsPath(s) == s \in Seq(Chars) /\ \A i \in DOMAIN s : s[i] # Newline

\* The parts of a route are numbered.
LEMMA RouteParts ==
    ASSUME NEW parts, IsRoute(parts)
    PROVE  /\ Len(parts) \in Nat /\ DOMAIN parts = 1..Len(parts)
           /\ \A i \in 1..Len(parts) : IsPart(parts[i])
<1>1. Len(parts) \in Nat /\ DOMAIN parts = 1..Len(parts)
  BY LenProperties DEF IsRoute
<1> QED
  BY <1>1 DEF IsRoute

-----------------------------------------------------------------------------
(* Places of a path.                                                       *)

\* The characters from one place to before another one.
LEMMA PieceOf ==
    ASSUME NEW s \in Seq(Chars), NEW cur \in 1..Len(s) + 1, NEW next \in 1..Len(s) + 1
    PROVE  LET piece == SubSeq(s, cur, next - 1)
           IN  /\ piece \in Seq(Chars)
               /\ DOMAIN piece = 1..Len(piece)
               /\ Len(piece) = IF cur <= next THEN next - cur ELSE 0
               /\ \A i \in 1..Len(piece) : piece[i] = s[cur + i - 1]
               /\ piece # << >> => cur < next
               /\ cur < next => piece # << >>
<1>1. Len(s) \in Nat /\ \A i \in 1..Len(s) : s[i] \in Chars
  BY LenProperties
<1> DEFINE piece == SubSeq(s, cur, next - 1)
<1>2. \A i \in cur..next - 1 : s[i] \in Chars
  BY <1>1
<1>3. /\ piece \in Seq(Chars)
      /\ Len(piece) = IF cur <= next - 1 THEN next - 1 - cur + 1 ELSE 0
      /\ \A i \in 1..next - 1 - cur + 1 : piece[i] = s[cur + i - 1]
  <2>1. cur \in Int /\ next - 1 \in Int
    BY <1>1
  <2> QED
    BY <1>2, <2>1, SubSeqProperties
<1> HIDE DEF piece
<1>4. Len(piece) = IF cur <= next THEN next - cur ELSE 0
  BY <1>1, <1>3
<1>5. \A i \in 1..Len(piece) : piece[i] = s[cur + i - 1]
  BY <1>1, <1>3, <1>4
<1>6. DOMAIN piece = 1..Len(piece)
  BY <1>3, LenProperties
<1>7. piece # << >> <=> Len(piece) # 0
  BY <1>3, EmptySeq
<1> QED
  BY <1>1, <1>3, <1>4, <1>5, <1>6, <1>7 DEF piece

\* The rest of a path from one place on.
LEMMA RestOf ==
    ASSUME NEW s \in Seq(Chars), NEW cur \in 1..Len(s) + 1
    PROVE  /\ SubSeq(s, cur, Len(s)) \in Seq(Chars)
           /\ Len(SubSeq(s, cur, Len(s))) = IF cur <= Len(s) THEN Len(s) - cur + 1 ELSE 0
           /\ \A i \in 1..Len(s) - cur + 1 : SubSeq(s, cur, Len(s))[i] = s[cur + i - 1]
<1>1. Len(s) \in Nat /\ \A i \in cur..Len(s) : s[i] \in Chars
  BY LenProperties
<1>2. cur \in Int /\ Len(s) \in Int
  BY <1>1
<1> QED
  BY <1>1, <1>2, SubSeqProperties

\* A sequence is a prefix of another one if it agrees with its beginning.
LEMMA PrefixAgrees ==
    ASSUME NEW S, NEW a \in Seq(S), NEW b \in Seq(S)
    PROVE  IsPrefix(a, b) <=>
             /\ Len(a) <= Len(b)
             /\ \A i \in 1..Len(a) : a[i] = b[i]
<1>1. Len(a) \in Nat /\ Len(b) \in Nat
      /\ (\A i \in 1..Len(a) : a[i] \in S) /\ (\A i \in 1..Len(b) : b[i] \in S)
  BY LenProperties
<1> SUFFICES ASSUME Len(a) <= Len(b)
             PROVE  SubSeq(a, 1, Len(a)) = SubSeq(b, 1, Len(a)) <=>
                      \A i \in 1..Len(a) : a[i] = b[i]
  BY DEF IsPrefix
<1> DEFINE x == SubSeq(a, 1, Len(a))
           y == SubSeq(b, 1, Len(a))
<1>2. x \in Seq(S) /\ Len(x) = Len(a) /\ \A i \in 1..Len(a) : x[i] = a[i]
  <2>1. \A i \in 1..Len(a) - 1 + 1 : x[i] = a[1 + i - 1]
    BY <1>1, SubSeqProperties
  <2>2. x \in Seq(S) /\ Len(x) = IF 1 <= Len(a) THEN Len(a) - 1 + 1 ELSE 0
    BY <1>1, SubSeqProperties
  <2> HIDE DEF x
  <2> QED
    BY <1>1, <2>1, <2>2
<1>3. y \in Seq(S) /\ Len(y) = Len(a) /\ \A i \in 1..Len(a) : y[i] = b[i]
  <2>0. \A i \in 1..Len(a) : b[i] \in S
    BY <1>1
  <2>1. \A i \in 1..Len(a) - 1 + 1 : y[i] = b[1 + i - 1]
    BY <1>1, <2>0, SubSeqProperties
  <2>2. y \in Seq(S) /\ Len(y) = IF 1 <= Len(a) THEN Len(a) - 1 + 1 ELSE 0
    BY <1>1, <2>0, SubSeqProperties
  <2> HIDE DEF y
  <2> QED
    BY <1>1, <2>1, <2>2
<1> HIDE DEF x, y
<1>4. (\A i \in 1..Len(a) : x[i] = y[i]) => x = y
  BY <1>2, <1>3, SeqEqual
<1> QED
  BY <1>2, <1>3, <1>4 DEF x, y

\* Each part of a cut has its place.
LEMMA CutPlaces ==
    ASSUME NEW n \in Nat, NEW end \in Nat \ {0}, NEW cut \in Cuts(n, end)
    PROVE  cut \in [0..n -> 1..end] /\ cut[0] = 1 /\ cut[n] = end
<1>1. PICK inner \in [1..n - 1 -> 1..end] :
        cut = [i \in 0..n |-> IF i = n THEN end ELSE IF i = 0 THEN 1 ELSE inner[i]]
  BY DEF Cuts
<1>2. cut[0] = 1
  BY DEF Cuts
<1>3. \A i \in 0..n : cut[i] \in 1..end
  <2> TAKE i \in 0..n
  <2>1. i # n /\ i # 0 => i \in 1..n - 1
    OBVIOUS
  <2> QED
    BY <1>1, <2>1
<1> QED
  BY <1>1, <1>2, <1>3

\* A set of naturals that has members has a least one.
LEMMA LeastPlace ==
    ASSUME NEW S, S \subseteq Nat, S # {}
    PROVE  \E x \in S : \A y \in S : x <= y
<1> DEFINE R == OpToRel(<, Nat)
<1>1. IsWellFoundedOn(R, Nat)
  BY NatLessThanWellFounded
<1>2. \A x, y \in Nat : <<x, y>> \in R <=> x < y
  BY DEF OpToRel
<1> HIDE DEF R
<1>3. PICK x \in S : \A y \in S : ~(<<y, x>> \in R)
  BY <1>1, WFMin
<1>4. ASSUME NEW y \in S PROVE x <= y
  <2>1. x \in Nat /\ y \in Nat /\ ~(y < x)
    BY <1>2, <1>3
  <2> QED
    BY <2>1
<1> QED
  BY <1>3, <1>4

\* Where a charset stops: everything up to there is of it, and nothing else.
LEMMA StopsAt ==
    ASSUME NEW kind, NEW s \in Seq(Chars), NEW cur \in 1..Len(s) + 1
    PROVE  /\ Stop(kind, s, cur) \in cur..Len(s) + 1
           /\ \A i \in cur..Stop(kind, s, cur) - 1 : s[i] \in Charset(kind)
           /\ Stop(kind, s, cur) <= Len(s) => s[Stop(kind, s, cur)] \notin Charset(kind)
<1>1. Len(s) \in Nat
  BY LenProperties
<1> DEFINE stops == {i \in cur..Len(s) : s[i] \notin Charset(kind)}
<1>2. CASE stops = {}
  <2>1. Stop(kind, s, cur) = Len(s) + 1
    BY <1>2 DEF Stop
  <2>2. \A i \in cur..Len(s) : s[i] \in Charset(kind)
    BY <1>2
  <2> QED
    BY <1>1, <2>1, <2>2
<1>3. CASE stops # {}
  <2>0. stops \subseteq Nat
    BY <1>1
  <2>1. \E i \in stops : \A j \in stops : i <= j
    <3> HIDE DEF stops
    <3> QED
      BY <1>3, <2>0, LeastPlace
  <2>2. /\ Stop(kind, s, cur) \in stops
        /\ \A j \in stops : Stop(kind, s, cur) <= j
    BY <1>3, <2>1 DEF Stop
  <2> QED
    BY <1>1, <2>2
<1> QED
  BY <1>2, <1>3

\* There is no other such place.
LEMMA StopIsUnique ==
    ASSUME NEW kind, NEW s \in Seq(Chars), NEW cur \in 1..Len(s) + 1,
           NEW next \in cur..Len(s) + 1,
           \A i \in cur..next - 1 : s[i] \in Charset(kind),
           next <= Len(s) => s[next] \notin Charset(kind)
    PROVE  Stop(kind, s, cur) = next
<1>1. Len(s) \in Nat
  BY LenProperties
<1> DEFINE stop == Stop(kind, s, cur)
<1>2. /\ stop \in cur..Len(s) + 1
      /\ \A i \in cur..stop - 1 : s[i] \in Charset(kind)
      /\ stop <= Len(s) => s[stop] \notin Charset(kind)
  BY StopsAt
<1> HIDE DEF stop
<1>3. ~(stop < next)
  <2> SUFFICES ASSUME stop < next PROVE FALSE
    OBVIOUS
  <2>1. stop \in cur..next - 1 /\ stop <= Len(s)
    BY <1>1, <1>2
  <2> QED
    BY <1>2, <2>1
<1>4. ~(next < stop)
  <2> SUFFICES ASSUME next < stop PROVE FALSE
    OBVIOUS
  <2>1. next \in cur..stop - 1 /\ next <= Len(s)
    BY <1>1, <1>2
  <2> QED
    BY <1>2, <2>1
<1> QED
  BY <1>1, <1>2, <1>3, <1>4 DEF stop
-----------------------------------------------------------------------------
(* One part.                                                               *)

\* What the scan consumes for a part is a text of its expression.
LEMMA ConsumedFits ==
    ASSUME NEW part, IsPart(part), NEW s, IsPath(s),
           NEW cur \in 1..Len(s) + 1, NEW next \in 1..Len(s) + 1,
           next = Consume(part, s, cur)
    PROVE  Language(part, SubSeq(s, cur, next - 1))
<1>0. s \in Seq(Chars) /\ Len(s) \in Nat /\ DOMAIN s = 1..Len(s) /\ next # 0
  BY LenProperties DEF IsPath
<1> DEFINE piece == SubSeq(s, cur, next - 1)
<1>1. /\ piece \in Seq(Chars)
      /\ DOMAIN piece = 1..Len(piece)
      /\ Len(piece) = IF cur <= next THEN next - cur ELSE 0
      /\ \A i \in 1..Len(piece) : piece[i] = s[cur + i - 1]
      /\ cur < next => piece # << >>
  BY <1>0, PieceOf
<1> HIDE DEF piece
<1>2. CASE part.kind = "lit"
  <2>1. part.text \in Seq(Chars) /\ Len(part.text) \in Nat
    BY <1>2, LenProperties DEF IsPart
  <2>2. /\ IsPrefix(part.text, SubSeq(s, cur, Len(s)))
        /\ next = cur + Len(part.text)
    BY <1>0, <1>2 DEF Consume
  <2>3. /\ Len(SubSeq(s, cur, Len(s))) = IF cur <= Len(s) THEN Len(s) - cur + 1 ELSE 0
        /\ \A i \in 1..Len(s) - cur + 1 : SubSeq(s, cur, Len(s))[i] = s[cur + i - 1]
        /\ SubSeq(s, cur, Len(s)) \in Seq(Chars)
    BY <1>0, RestOf
  <2>4. \A i \in 1..Len(part.text) : part.text[i] = SubSeq(s, cur, Len(s))[i]
    <3> DEFINE rest == SubSeq(s, cur, Len(s))
    <3>1. part.text \in Seq(Chars) /\ rest \in Seq(Chars) /\ IsPrefix(part.text, rest)
      BY <2>1, <2>2, <2>3
    <3> HIDE DEF rest
    <3>2. \A i \in 1..Len(part.text) : part.text[i] = rest[i]
      BY <3>1, PrefixAgrees
    <3> QED
      BY <3>2 DEF rest
  <2>5. Len(piece) = Len(part.text)
    BY <1>1, <2>1, <2>2
  <2>6. \A i \in 1..Len(piece) : piece[i] = part.text[i]
    BY <1>0, <1>1, <2>1, <2>2, <2>3, <2>4, <2>5
  <2>7. piece = part.text
    BY <1>1, <2>1, <2>5, <2>6, SeqEqual
  <2> QED
    BY <1>2, <2>7 DEF Language, piece
<1>3. CASE part.kind = "uuid"
  <2>1. UuidAt(s, cur) /\ next = cur + Len(UuidShape)
    BY <1>0, <1>3 DEF Consume
  <2>2. next - 1 = cur + Len(UuidShape) - 1
    BY <2>1
  <2> QED
    BY <1>3, <2>1, <2>2 DEF Language, UuidAt, piece
<1>4. CASE part.kind = "path"
  <2>1. cur <= Len(s) /\ next = Len(s) + 1
    BY <1>0, <1>4 DEF Consume
  <2>2. piece # << >>
    BY <1>0, <1>1, <2>1
  <2>3. \A i \in DOMAIN piece : piece[i] # Newline
    <3> TAKE i \in DOMAIN piece
    <3>1. cur + i - 1 \in 1..Len(s) /\ piece[i] = s[cur + i - 1]
      BY <1>0, <1>1, <2>1
    <3> QED
      BY <1>0, <3>1 DEF IsPath
  <2> QED
    BY <1>4, <2>2, <2>3 DEF Language, piece
<1>5. CASE part.kind \in {"int", "str", "slug"}
  <2>1. next = Stop(part.kind, s, cur) /\ cur < next
    BY <1>0, <1>5, StopsAt DEF Consume
  <2>2. \A i \in cur..next - 1 : s[i] \in Charset(part.kind)
    BY <1>0, <2>1, StopsAt
  <2>3. piece # << >>
    BY <1>1, <2>1
  <2>4. \A i \in DOMAIN piece : piece[i] \in Charset(part.kind)
    <3> TAKE i \in DOMAIN piece
    <3>1. cur + i - 1 \in cur..next - 1 /\ piece[i] = s[cur + i - 1]
      BY <1>0, <1>1, <2>1
    <3> QED
      BY <2>2, <3>1
  <2> QED
    BY <1>5, <2>3, <2>4 DEF Language, piece
<1> QED
  BY <1>2, <1>3, <1>4, <1>5 DEF IsPart

\* A text of the expression is what the scan consumes, if a parameter stops
\* at the end or at a character that is not of its charset.
LEMMA FittingIsConsumed ==
    ASSUME NEW part, IsPart(part), NEW s \in Seq(Chars),
           NEW cur \in 1..Len(s) + 1, NEW next \in 1..Len(s) + 1,
           Language(part, SubSeq(s, cur, next - 1)),
           part.kind = "path" => next = Len(s) + 1,
           part.kind \in {"int", "str", "slug"} =>
               (next <= Len(s) => s[next] \notin Charset(part.kind))
    PROVE  next = Consume(part, s, cur)
<1>0. s \in Seq(Chars) /\ Len(s) \in Nat
  BY LenProperties
<1> DEFINE piece == SubSeq(s, cur, next - 1)
<1>1. /\ piece \in Seq(Chars)
      /\ DOMAIN piece = 1..Len(piece)
      /\ Len(piece) = IF cur <= next THEN next - cur ELSE 0
      /\ \A i \in 1..Len(piece) : piece[i] = s[cur + i - 1]
      /\ piece # << >> => cur < next
  BY <1>0, PieceOf
<1>l. Language(part, piece)
  OBVIOUS
<1> HIDE DEF piece
<1>2. CASE part.kind = "lit"
  <2>1. part.text \in Seq(Chars) /\ part.text # << >> /\ Len(part.text) \in Nat
    BY <1>2, LenProperties DEF IsPart
  <2>2. piece = part.text
    BY <1>2, <1>l DEF Language
  <2>3. cur < next /\ next = cur + Len(part.text)
    <3>1. cur < next
      BY <1>1, <2>1, <2>2
    <3>2. Len(piece) = Len(part.text) /\ Len(piece) = next - cur
      BY <1>0, <1>1, <2>2, <3>1
    <3> QED
      BY <1>0, <2>1, <3>1, <3>2
  <2>4. /\ Len(SubSeq(s, cur, Len(s))) = IF cur <= Len(s) THEN Len(s) - cur + 1 ELSE 0
        /\ \A i \in 1..Len(s) - cur + 1 : SubSeq(s, cur, Len(s))[i] = s[cur + i - 1]
        /\ SubSeq(s, cur, Len(s)) \in Seq(Chars)
    BY <1>0, RestOf
  <2>5. Len(part.text) <= Len(SubSeq(s, cur, Len(s)))
    BY <1>0, <2>3, <2>4
  <2>6. \A i \in 1..Len(part.text) : part.text[i] = SubSeq(s, cur, Len(s))[i]
    BY <1>0, <1>1, <2>1, <2>2, <2>3, <2>4
  <2>7. IsPrefix(part.text, SubSeq(s, cur, Len(s)))
    BY <2>1, <2>4, <2>5, <2>6, PrefixAgrees
  <2> QED
    BY <1>2, <2>3, <2>7 DEF Consume
<1>3. CASE part.kind = "uuid"
  <2>1. IsUuid(piece) /\ Len(piece) = Len(UuidShape)
    BY <1>3, <1>l DEF Language, IsUuid
  <2>2. Len(UuidShape) \in Nat /\ Len(UuidShape) # 0
    BY ShapeAssumption, LenProperties, EmptySeq
  <2>3. next = cur + Len(UuidShape)
    <3>1. Len(piece) # 0
      BY <2>1, <2>2
    <3>2. Len(piece) = next - cur
      BY <1>0, <1>1, <3>1
    <3> QED
      BY <1>0, <2>1, <2>2, <3>2
  <2>4. cur + Len(UuidShape) - 1 = next - 1
    BY <1>0, <2>2, <2>3
  <2>5. UuidAt(s, cur)
    BY <1>0, <2>1, <2>4 DEF UuidAt, piece
  <2> QED
    BY <1>3, <2>3, <2>5 DEF Consume
<1>4. CASE part.kind = "path"
  <2>1. piece # << >> /\ next = Len(s) + 1
    BY <1>4, <1>l DEF Language
  <2>2. cur <= Len(s)
    BY <1>0, <1>1, <2>1
  <2> QED
    BY <1>4, <2>1, <2>2 DEF Consume
<1>5. CASE part.kind \in {"int", "str", "slug"}
  <2>1. piece # << >> /\ \A i \in DOMAIN piece : piece[i] \in Charset(part.kind)
    BY <1>5, <1>l DEF Language
  <2>2. cur < next
    BY <1>1, <2>1
  <2>3. \A i \in cur..next - 1 : s[i] \in Charset(part.kind)
    <3> TAKE i \in cur..next - 1
    <3>1. i - cur + 1 \in 1..Len(piece) /\ cur + (i - cur + 1) - 1 = i
      BY <1>0, <1>1, <2>2
    <3> QED
      BY <1>1, <2>1, <3>1
  <2>4. Stop(part.kind, s, cur) = next
    BY <1>0, <1>5, <2>2, <2>3, StopIsUnique
  <2> QED
    BY <1>5, <2>2, <2>4 DEF Consume
<1> QED
  BY <1>2, <1>3, <1>4, <1>5 DEF IsPart
-----------------------------------------------------------------------------
(* A whole route.                                                          *)

\* A cut that fits is the scan's, but for a last part that may end early.
LEMMA FittingIsScanned ==
    ASSUME NEW parts, IsRoute(parts), Safe(parts), NEW s \in Seq(Chars),
           NEW end \in 1..Len(s) + 1, NEW cut \in Cuts(Len(parts), end),
           \A i \in 1..Len(parts) : Language(parts[i], Piece(s, cut, i)),
           NEW i \in 1..Len(parts), i < Len(parts) \/ end = Len(s) + 1
    PROVE  cut[i] = Consume(parts[i], s, cut[i - 1])
<1>0. s \in Seq(Chars) /\ Len(s) \in Nat
  BY LenProperties
<1>1. /\ Len(parts) \in Nat /\ DOMAIN parts = 1..Len(parts)
      /\ \A j \in 1..Len(parts) : IsPart(parts[j])
  BY DEF IsRoute
<1>2. cut \in [0..Len(parts) -> 1..end] /\ cut[Len(parts)] = end
  BY <1>0, <1>1, CutPlaces
<1>3. \A j \in 1..Len(parts) : cut[j - 1] \in 1..Len(s) + 1 /\ cut[j] \in 1..Len(s) + 1
  BY <1>0, <1>1, <1>2
<1>4. parts[i].kind = "path" => cut[i] = Len(s) + 1
  BY <1>1, <1>2 DEF Safe
<1>5. ASSUME parts[i].kind \in {"int", "str", "slug"}, cut[i] <= Len(s)
      PROVE  s[cut[i]] \notin Charset(parts[i].kind)
  <2>1. i + 1 \in 1..Len(parts)
    BY <1>0, <1>1, <1>2, <1>5
  <2>2. /\ parts[i + 1].kind = "lit"
        /\ Head(parts[i + 1].text) \notin Charset(parts[i].kind)
    BY <1>1, <1>5, <2>1 DEF Safe
  <2> DEFINE text == parts[i + 1].text
             next == cut[i + 1]
  <2>3. text \in Seq(Chars) /\ text # << >> /\ Len(text) \in Nat /\ 1 \in 1..Len(text)
    <3>1. text \in Seq(Chars) /\ text # << >>
      BY <1>1, <2>1, <2>2 DEF IsPart
    <3> HIDE DEF text
    <3> QED
      BY <3>1, LenProperties, EmptySeq
  <2>4. text = SubSeq(s, cut[i], next - 1)
    <3>1. Language(parts[i + 1], Piece(s, cut, i + 1))
      BY <2>1
    <3>2. Piece(s, cut, i + 1) = text
      BY <2>2, <3>1 DEF Language
    <3>3. (i + 1) - 1 = i
      BY <1>0
    <3>4. Piece(s, cut, i + 1) = SubSeq(s, cut[i], next - 1)
      BY <3>3 DEF Piece
    <3> QED
      BY <3>2, <3>4
  <2>5. cut[i] \in 1..Len(s) + 1 /\ next \in 1..Len(s) + 1
    BY <1>3, <2>1
  <2> HIDE DEF text, next
  <2>6. \A k \in 1..Len(text) : text[k] = s[cut[i] + k - 1]
    BY <1>0, <2>4, <2>5, PieceOf
  <2>7. text[1] = s[cut[i]]
    <3>1. text[1] = s[cut[i] + 1 - 1]
      BY <2>3, <2>6
    <3> QED
      BY <2>5, <3>1
  <2>8. Head(text) = text[1]
    BY <2>3
  <2> QED
    BY <2>2, <2>7, <2>8 DEF text
<1>6. Language(parts[i], SubSeq(s, cut[i - 1], cut[i] - 1))
  BY DEF Piece
<1> QED
  BY <1>1, <1>3, <1>4, <1>5, <1>6, FittingIsConsumed

\* A cut is found by the scan if and only if it fits the expression.
LEMMA ScannedIsFitting ==
    ASSUME NEW parts, IsRoute(parts), Safe(parts), NEW s, IsPath(s),
           NEW cut \in Cuts(Len(parts), Len(s) + 1)
    PROVE  (\A i \in DOMAIN parts : cut[i] = Consume(parts[i], s, cut[i - 1])) <=>
           (\A i \in DOMAIN parts : Language(parts[i], Piece(s, cut, i)))
<1>0. s \in Seq(Chars) /\ Len(s) \in Nat /\ Len(s) + 1 \in 1..Len(s) + 1
  BY LenProperties DEF IsPath
<1>1. /\ Len(parts) \in Nat /\ DOMAIN parts = 1..Len(parts)
      /\ \A i \in 1..Len(parts) : IsPart(parts[i])
  BY DEF IsRoute
<1>2. cut \in [0..Len(parts) -> 1..Len(s) + 1]
  BY <1>0, <1>1, CutPlaces
<1>3. \A i \in 1..Len(parts) : cut[i - 1] \in 1..Len(s) + 1 /\ cut[i] \in 1..Len(s) + 1
  BY <1>1, <1>2
<1>4. ASSUME NEW i \in 1..Len(parts), cut[i] = Consume(parts[i], s, cut[i - 1])
      PROVE  Language(parts[i], Piece(s, cut, i))
  BY <1>1, <1>3, <1>4, ConsumedFits DEF Piece
<1>5. ASSUME \A i \in 1..Len(parts) : Language(parts[i], Piece(s, cut, i)),
             NEW i \in 1..Len(parts)
      PROVE  cut[i] = Consume(parts[i], s, cut[i - 1])
  BY <1>0, <1>5, FittingIsScanned
<1> QED
  BY <1>1, <1>4, <1>5

\* The scan finds one cut at most: what it consumes for a part depends on where
\* it is, and it starts at the beginning.
LEMMA OneScan ==
    ASSUME NEW parts, Len(parts) \in Nat, DOMAIN parts = 1..Len(parts),
           NEW s, Len(s) \in Nat,
           NEW cut \in Scans(parts, s), NEW other \in Scans(parts, s)
    PROVE  cut = other
<1> DEFINE n == Len(parts)
           differ == {i \in 0..n : cut[i] # other[i]}
<1>1. /\ cut \in [0..n -> 1..Len(s) + 1] /\ cut[0] = 1
      /\ other \in [0..n -> 1..Len(s) + 1] /\ other[0] = 1
  BY CutPlaces DEF Scans
<1>2. \A i \in 1..n : /\ cut[i] = Consume(parts[i], s, cut[i - 1])
                      /\ other[i] = Consume(parts[i], s, other[i - 1])
  BY DEF Scans
<1>3. SUFFICES ASSUME differ # {} PROVE FALSE
  BY <1>1
<1>4. PICK i \in differ : \A j \in differ : i <= j
  <2>1. differ \subseteq Nat
    OBVIOUS
  <2> HIDE DEF differ
  <2> QED
    BY <1>3, <2>1, LeastPlace
<1>5. i \in 1..n
  BY <1>1, <1>4
<1>6. i - 1 \in 0..n /\ i - 1 \notin differ
  BY <1>4, <1>5
<1>7. cut[i - 1] = other[i - 1]
  BY <1>6
<1> QED
  BY <1>2, <1>4, <1>5, <1>7

\* The scan of a route that _finalize accepts finds what the backtracking
\* regular expression of the route can find.
THEOREM GreedyIsEnough ==
    ASSUME NEW parts, IsRoute(parts), Safe(parts), NEW s, IsPath(s)
    PROVE  Scans(parts, s) = Matches(parts, s, {Len(s) + 1})
<1>1. UNION {Cuts(Len(parts), end) : end \in {Len(s) + 1}} = Cuts(Len(parts), Len(s) + 1)
  OBVIOUS
<1> QED
  BY <1>1, ScannedIsFitting DEF Scans, Matches

\* Such a route of the table resolves a path as its URLPattern does: to the
\* same view with the same keyword arguments, or not at all.
THEOREM RouteIsDjangos ==
    ASSUME NEW entry, IsRoute(entry.parts), Safe(entry.parts), NEW s, IsPath(s)
    PROVE  TryMatch(entry, s) = ResolvePattern(entry, s)
<1> DEFINE scans == Scans(entry.parts, s)
<1>1. scans = Matches(entry.parts, s, {Len(s) + 1})
  BY GreedyIsEnough
<1>2. CASE scans = {}
  BY <1>1, <1>2 DEF TryMatch, ResolvePattern
<1>3. CASE scans # {}
  <2>1. PICK cut \in scans : TRUE
    BY <1>3
  <2>2. Len(s) \in Nat
    BY LenProperties DEF IsPath
  <2>3. \A other \in scans : other = cut
    BY <2>2, OneScan DEF IsRoute
  <2>4. scans = {cut}
    BY <2>3
  <2>5. (CHOOSE c \in scans : TRUE) = cut
    BY <2>4
  <2>6. Greediest(scans) = cut
    BY <2>4 DEF Greediest
  <2> HIDE DEF scans
  <2> QED
    BY <1>1, <1>3, <2>5, <2>6 DEF TryMatch, ResolvePattern, scans
<1> QED
  BY <1>2, <1>3
-----------------------------------------------------------------------------
(* An include: a prefix, and a route for the rest of the path.             *)

\* Any function that begins and ends right is a cut.
LEMMA MakesCut ==
    ASSUME NEW n \in Nat, NEW end \in Nat \ {0}, NEW f \in [0..n -> 1..end],
           f[0] = 1, f[n] = end
    PROVE  f \in Cuts(n, end)
<1> DEFINE inner == [i \in 1..n - 1 |-> f[i]]
<1>1. inner \in [1..n - 1 -> 1..end]
  OBVIOUS
<1>2. f = [i \in 0..n |-> IF i = n THEN end ELSE IF i = 0 THEN 1 ELSE inner[i]]
  <2>1. \A i \in 0..n : f[i] = IF i = n THEN end ELSE IF i = 0 THEN 1 ELSE inner[i]
    <3> TAKE i \in 0..n
    <3>1. i # n /\ i # 0 => i \in 1..n - 1
      OBVIOUS
    <3> QED
      BY <3>1
  <2> HIDE DEF inner
  <2> QED
    BY <2>1
<1> HIDE DEF inner
<1> QED
  BY <1>1, <1>2 DEF Cuts

\* So is the one that has no parts, and ends where it begins.
LEMMA EmptyCut ==
    [i \in 0..0 |-> 1] \in Cuts(0, 1)
<1> DEFINE f == [i \in 0..0 |-> 1]
<1>1. f \in [0..0 -> 1..1] /\ f[0] = 1
  OBVIOUS
<1>2. 0 \in Nat /\ 1 \in Nat \ {0}
  OBVIOUS
<1> HIDE DEF f
<1>3. f \in Cuts(0, 1)
  BY <1>1, <1>2, MakesCut
<1> QED
  BY <1>3 DEF f

\* What a match of a route is, up to some place of the path.
LEMMA MatchPlaces ==
    ASSUME NEW parts, IsRoute(parts), NEW s \in Seq(Chars),
           NEW cut \in Matches(parts, s, 1..Len(s) + 1)
    PROVE  /\ Len(s) \in Nat /\ Len(parts) \in Nat
           /\ cut \in [0..Len(parts) -> 1..Len(s) + 1] /\ cut[0] = 1
           /\ cut[Len(parts)] \in 1..Len(s) + 1
           /\ cut \in Cuts(Len(parts), cut[Len(parts)])
           /\ \A i \in 1..Len(parts) :
                /\ Language(parts[i], Piece(s, cut, i))
                /\ cut[i - 1] \in 1..Len(s) + 1 /\ cut[i] \in 1..Len(s) + 1
<1>1. Len(s) \in Nat /\ Len(parts) \in Nat /\ DOMAIN parts = 1..Len(parts)
  BY LenProperties DEF IsRoute
<1>2. PICK end \in 1..Len(s) + 1 : cut \in Cuts(Len(parts), end)
  BY DEF Matches
<1>3. cut \in [0..Len(parts) -> 1..end] /\ cut[0] = 1 /\ cut[Len(parts)] = end
  BY <1>1, <1>2, CutPlaces
<1>4. cut \in [0..Len(parts) -> 1..Len(s) + 1]
  BY <1>1, <1>3
<1>5. \A i \in 1..Len(parts) : Language(parts[i], Piece(s, cut, i))
  BY <1>1 DEF Matches
<1>6. \A i \in 1..Len(parts) : i - 1 \in 0..Len(parts) /\ i \in 0..Len(parts)
  BY <1>1
<1>7. \A i \in 1..Len(parts) : cut[i - 1] \in 1..Len(s) + 1 /\ cut[i] \in 1..Len(s) + 1
  BY <1>4, <1>6
<1>8. cut[Len(parts)] \in 1..Len(s) + 1 /\ cut \in Cuts(Len(parts), cut[Len(parts)])
  BY <1>2, <1>3
<1> QED
  BY <1>1, <1>3, <1>4, <1>5, <1>7, <1>8

\* Those that end at one place.
LEMMA EndsAt ==
    ASSUME NEW parts, IsRoute(parts), NEW s \in Seq(Chars), NEW end \in 1..Len(s) + 1,
           NEW cut
    PROVE  cut \in Matches(parts, s, {end}) <=>
             cut \in Matches(parts, s, 1..Len(s) + 1) /\ cut[Len(parts)] = end
<1>1. Len(parts) \in Nat /\ Len(s) \in Nat /\ end \in Nat \ {0}
  BY RouteParts, LenProperties
<1>2. ASSUME cut \in Matches(parts, s, {end})
      PROVE  cut \in Matches(parts, s, 1..Len(s) + 1) /\ cut[Len(parts)] = end
  <2>1. cut \in Cuts(Len(parts), end)
    BY <1>2 DEF Matches
  <2>2. cut[Len(parts)] = end
    BY <1>1, <2>1, CutPlaces
  <2> QED
    BY <1>2, <2>1, <2>2 DEF Matches
<1>3. ASSUME cut \in Matches(parts, s, 1..Len(s) + 1), cut[Len(parts)] = end
      PROVE  cut \in Matches(parts, s, {end})
  <2>1. cut \in Cuts(Len(parts), end)
    BY <1>3, MatchPlaces
  <2> QED
    BY <1>3, <2>1 DEF Matches
<1> QED
  BY <1>2, <1>3

\* No part fits an empty text.
LEMMA FittingAdvances ==
    ASSUME NEW part, IsPart(part), NEW s \in Seq(Chars),
           NEW cur \in 1..Len(s) + 1, NEW next \in 1..Len(s) + 1,
           Language(part, SubSeq(s, cur, next - 1))
    PROVE  cur < next
<1> DEFINE piece == SubSeq(s, cur, next - 1)
<1>1. piece \in Seq(Chars) /\ (piece # << >> => cur < next)
  BY PieceOf
<1>2. Language(part, piece)
  OBVIOUS
<1> HIDE DEF piece
<1>3. CASE part.kind = "lit"
  BY <1>1, <1>2, <1>3 DEF IsPart, Language
<1>4. CASE part.kind = "uuid"
  <2>1. Len(piece) = Len(UuidShape)
    BY <1>2, <1>4 DEF Language, IsUuid
  <2>2. Len(UuidShape) # 0
    BY ShapeAssumption, LenProperties, EmptySeq
  <2> QED
    BY <1>1, <2>1, <2>2, EmptySeq
<1>5. CASE part.kind \in {"int", "str", "slug", "path"}
  BY <1>1, <1>2, <1>5 DEF Language
<1> QED
  BY <1>3, <1>4, <1>5 DEF IsPart

\* The scan takes as much as the expression can.
LEMMA ConsumesMost ==
    ASSUME NEW part, IsPart(part), NEW s \in Seq(Chars),
           NEW cur \in 1..Len(s) + 1, NEW next \in 1..Len(s) + 1,
           Language(part, SubSeq(s, cur, next - 1))
    PROVE  next <= Consume(part, s, cur)
<1>0. s \in Seq(Chars) /\ Len(s) \in Nat
  BY LenProperties
<1>1. cur < next
  BY FittingAdvances
<1>2. CASE part.kind \in {"lit", "uuid"}
  <2>1. next = Consume(part, s, cur)
    BY <1>2, FittingIsConsumed
  <2> QED
    BY <1>0, <2>1
<1>3. CASE part.kind = "path"
  BY <1>0, <1>1, <1>3 DEF Consume
<1>4. CASE part.kind \in {"int", "str", "slug"}
  <2> DEFINE stop == Stop(part.kind, s, cur)
             piece == SubSeq(s, cur, next - 1)
  <2>1. stop \in cur..Len(s) + 1 /\ (stop <= Len(s) => s[stop] \notin Charset(part.kind))
    BY <1>0, StopsAt
  <2>2. /\ DOMAIN piece = 1..Len(piece) /\ Len(piece) = next - cur
        /\ \A i \in 1..Len(piece) : piece[i] = s[cur + i - 1]
    BY <1>0, <1>1, PieceOf
  <2>3. \A i \in DOMAIN piece : piece[i] \in Charset(part.kind)
    BY <1>4 DEF Language
  <2> HIDE DEF stop, piece
  <2>4. next <= stop
    <3> SUFFICES ASSUME stop < next PROVE FALSE
      BY <1>0, <2>1
    <3>1. stop - cur + 1 \in 1..Len(piece) /\ cur + (stop - cur + 1) - 1 = stop
      BY <1>0, <2>1, <2>2
    <3>2. stop <= Len(s)
      BY <1>0, <2>1
    <3> QED
      BY <2>1, <2>2, <2>3, <3>1, <3>2
  <2>5. cur < stop
    BY <1>0, <1>1, <2>1, <2>4
  <2> QED
    BY <1>4, <2>4, <2>5 DEF Consume, stop
<1> QED
  BY <1>2, <1>3, <1>4 DEF IsPart

\* What is left of a path is a path.
LEMMA RestIsPath ==
    ASSUME NEW s \in Seq(Chars), NEW at \in 1..Len(s) + 1
    PROVE  /\ SubSeq(s, at, Len(s)) \in Seq(Chars)
           /\ Len(SubSeq(s, at, Len(s))) = Len(s) + 1 - at
           /\ \A i \in 1..Len(s) + 1 - at : SubSeq(s, at, Len(s))[i] = s[at + i - 1]
<1>0. s \in Seq(Chars) /\ Len(s) \in Nat /\ DOMAIN s = 1..Len(s)
  BY LenProperties
<1> DEFINE rest == SubSeq(s, at, Len(s))
<1>1. /\ rest \in Seq(Chars)
      /\ Len(rest) = IF at <= Len(s) THEN Len(s) - at + 1 ELSE 0
      /\ \A i \in 1..Len(s) - at + 1 : rest[i] = s[at + i - 1]
  BY <1>0, RestOf
<1> HIDE DEF rest
<1>2. Len(rest) = Len(s) + 1 - at
  BY <1>0, <1>1
<1>3. \A i \in 1..Len(s) + 1 - at : rest[i] = s[at + i - 1]
  BY <1>0, <1>1
<1> QED
  BY <1>1, <1>2, <1>3 DEF rest

\* It has no newline if the path has none.
LEMMA RestIsLine ==
    ASSUME NEW s, IsPath(s), NEW at \in 1..Len(s) + 1
    PROVE  IsPath(SubSeq(s, at, Len(s)))
<1> DEFINE rest == SubSeq(s, at, Len(s))
<1>0. s \in Seq(Chars) /\ Len(s) \in Nat /\ DOMAIN s = 1..Len(s)
  BY LenProperties DEF IsPath
<1>1. /\ rest \in Seq(Chars) /\ Len(rest) = Len(s) + 1 - at
      /\ \A i \in 1..Len(s) + 1 - at : rest[i] = s[at + i - 1]
  BY <1>0, RestIsPath
<1> HIDE DEF rest
<1>2. ASSUME NEW i \in DOMAIN rest PROVE rest[i] # Newline
  <2>1. i \in 1..Len(s) + 1 - at
    BY <1>1, LenProperties
  <2>2. at + i - 1 \in 1..Len(s)
    BY <1>0, <2>1
  <2> QED
    BY <1>0, <1>1, <2>1, <2>2 DEF IsPath
<1> QED
  BY <1>1, <1>2 DEF IsPath, rest

\* A piece of the rest is one of the path.
LEMMA PieceOfRest ==
    ASSUME NEW s \in Seq(Chars), NEW at \in 1..Len(s) + 1,
           NEW a \in 1..Len(SubSeq(s, at, Len(s))) + 1,
           NEW b \in 1..Len(SubSeq(s, at, Len(s))) + 1
    PROVE  /\ SubSeq(SubSeq(s, at, Len(s)), a, b - 1)
                = SubSeq(s, a + at - 1, b + at - 1 - 1)
           /\ a + at - 1 \in 1..Len(s) + 1 /\ b + at - 1 \in 1..Len(s) + 1
<1>0. s \in Seq(Chars) /\ Len(s) \in Nat
  BY LenProperties
<1> DEFINE rest == SubSeq(s, at, Len(s))
           x == SubSeq(rest, a, b - 1)
           from == a + at - 1
           to == b + at - 1
           y == SubSeq(s, from, to - 1)
<1>1. /\ rest \in Seq(Chars) /\ Len(rest) = Len(s) + 1 - at
      /\ \A i \in 1..Len(s) + 1 - at : rest[i] = s[at + i - 1]
  BY RestIsPath
<1>2. a \in 1..Len(rest) + 1 /\ b \in 1..Len(rest) + 1
  OBVIOUS
<1>3. from \in 1..Len(s) + 1 /\ to \in 1..Len(s) + 1
  <2> HIDE DEF rest
  <2> QED
    BY <1>0, <1>1, <1>2
<1> HIDE DEF rest
<1>4. /\ x \in Seq(Chars) /\ Len(x) = (IF a <= b THEN b - a ELSE 0)
      /\ \A i \in 1..Len(x) : x[i] = rest[a + i - 1]
  BY <1>1, <1>2, PieceOf
<1> HIDE DEF x
<1>from. from = a + at - 1 /\ to = b + at - 1
  OBVIOUS
<1> HIDE DEF from, to
<1>5. /\ y \in Seq(Chars) /\ Len(y) = (IF from <= to THEN to - from ELSE 0)
      /\ \A i \in 1..Len(y) : y[i] = s[from + i - 1]
  BY <1>0, <1>3, PieceOf
<1> HIDE DEF y
<1>6. Len(x) = Len(y)
  BY <1>0, <1>1, <1>2, <1>4, <1>5, <1>from
<1>7. \A i \in 1..Len(x) : x[i] = y[i]
  <2> TAKE i \in 1..Len(x)
  <2>1. a + i - 1 \in 1..Len(s) + 1 - at
    <3>1. a <= b
      BY <1>4
    <3>2. i \in Nat /\ i >= 1 /\ i <= b - a
      BY <1>1, <1>2, <1>4, <3>1
    <3> QED
      <4>1. Len(s) \in Nat /\ at \in 1..Len(s) + 1 /\ b <= Len(s) + 1 - at + 1
            /\ a \in Nat /\ a >= 1 /\ b \in Nat
        BY <1>0, <1>1, <1>2
      <4> QED
        BY <3>2, <4>1
  <2>2. x[i] = s[at + (a + i - 1) - 1]
    BY <1>1, <1>4, <2>1
  <2>3. y[i] = s[from + i - 1]
    BY <1>5, <1>6
  <2>4. at + (a + i - 1) - 1 = from + i - 1
    BY <1>0, <1>1, <1>2, <1>4, <1>from
  <2> QED
    BY <2>2, <2>3, <2>4
<1>8. x = y
  BY <1>4, <1>5, <1>6, <1>7, SeqEqual
<1> QED
  BY <1>3, <1>8 DEF x, y, from, to, rest

\* The matches of a safe prefix, up to any place, differ in its last part only.
LEMMA PrefixesAgree ==
    ASSUME NEW parts, IsRoute(parts), Safe(parts), NEW s \in Seq(Chars),
           NEW a \in Matches(parts, s, 1..Len(s) + 1),
           NEW b \in Matches(parts, s, 1..Len(s) + 1)
    PROVE  \A i \in 0..Len(parts) - 1 : a[i] = b[i]
<1>0. ASSUME NEW c \in Matches(parts, s, 1..Len(s) + 1)
      PROVE  /\ Len(parts) \in Nat /\ c[0] = 1
             /\ c[Len(parts)] \in 1..Len(s) + 1
             /\ c \in Cuts(Len(parts), c[Len(parts)])
             /\ \A i \in 1..Len(parts) : Language(parts[i], Piece(s, c, i))
  <2>1. \A i \in 1..Len(parts) : Language(parts[i], Piece(s, c, i))
    BY MatchPlaces
  <2>2. Len(parts) \in Nat /\ c[0] = 1
    BY MatchPlaces
  <2>3. c[Len(parts)] \in 1..Len(s) + 1
    BY MatchPlaces
  <2>4. c \in Cuts(Len(parts), c[Len(parts)])
    BY MatchPlaces
  <2> QED
    BY <2>1, <2>2, <2>3, <2>4
<1> DEFINE n == Len(parts)
           differ == {i \in 0..n - 1 : a[i] # b[i]}
<1>1. /\ n \in Nat /\ a[0] = 1 /\ b[0] = 1
      /\ a[n] \in 1..Len(s) + 1 /\ a \in Cuts(n, a[n])
      /\ b[n] \in 1..Len(s) + 1 /\ b \in Cuts(n, b[n])
      /\ \A i \in 1..n : Language(parts[i], Piece(s, a, i))
      /\ \A i \in 1..n : Language(parts[i], Piece(s, b, i))
  BY <1>0
<1>2. ASSUME NEW i \in 1..n, i < n
      PROVE  a[i] = Consume(parts[i], s, a[i - 1]) /\ b[i] = Consume(parts[i], s, b[i - 1])
  BY <1>1, <1>2, FittingIsScanned
<1>3. SUFFICES ASSUME differ # {} PROVE FALSE
  OBVIOUS
<1>4. PICK i \in differ : \A j \in differ : i <= j
  <2>1. differ \subseteq Nat
    OBVIOUS
  <2> HIDE DEF differ
  <2> QED
    BY <1>3, <2>1, LeastPlace
<1>5. i \in 1..n /\ i < n /\ a[i] # b[i]
  BY <1>1, <1>4
<1>6. i - 1 \in 0..n - 1 /\ i - 1 \notin differ
  BY <1>1, <1>4, <1>5
<1>7. a[i - 1] = b[i - 1]
  BY <1>6
<1> HIDE DEF differ, n
<1> QED
  BY <1>2, <1>5, <1>7

\* So the greediest one is the one that goes farthest.
LEMMA GreediestGoesFarthest ==
    ASSUME NEW parts, IsRoute(parts), Safe(parts), NEW s \in Seq(Chars),
           Matches(parts, s, 1..Len(s) + 1) # {}
    PROVE  LET cuts == Matches(parts, s, 1..Len(s) + 1)
           IN  /\ Greediest(cuts) \in cuts
               /\ \A cut \in cuts : cut[Len(parts)] <= Greediest(cuts)[Len(parts)]
<1> DEFINE n == Len(parts)
           cuts == Matches(parts, s, 1..Len(s) + 1)
           left == {Len(s) + 1 - cut[n] : cut \in cuts}
<1>1. /\ n \in Nat /\ Len(s) \in Nat
      /\ \A cut \in cuts : cut \in [0..n -> 1..Len(s) + 1] /\ cut[n] \in 1..Len(s) + 1
  <2>1. n \in Nat /\ Len(s) \in Nat
    BY LenProperties DEF IsRoute
  <2>2. ASSUME NEW cut \in cuts
        PROVE  cut \in [0..n -> 1..Len(s) + 1] /\ cut[n] \in 1..Len(s) + 1
    BY MatchPlaces
  <2> QED
    BY <2>1, <2>2
<1>2. \A a, b \in cuts : \A i \in 0..n - 1 : a[i] = b[i]
  BY PrefixesAgree
<1>c. cuts # {}
  OBVIOUS
<1> HIDE DEF cuts, n
<1>a. \A cut \in cuts : cut[n] \in Nat
  BY <1>1
<1>b. \A cut \in cuts : \A i \in 0..n : cut[i] \in Nat
  BY <1>1
<1>d. \A cut \in cuts : DOMAIN cut = 0..n
  BY <1>1
<1>3. PICK x \in left : \A y \in left : x <= y
  <2>1. left \subseteq Nat /\ left # {}
    BY <1>1, <1>c
  <2> HIDE DEF left
  <2> QED
    BY <2>1, LeastPlace
<1>4. PICK g \in cuts : x = Len(s) + 1 - g[n]
  BY <1>3
<1>5. \A cut \in cuts : cut[n] <= g[n]
  <2> TAKE cut \in cuts
  <2>1. Len(s) + 1 - g[n] <= Len(s) + 1 - cut[n]
    BY <1>3, <1>4
  <2> QED
    BY <1>1, <2>1
<1>6. ASSUME NEW a \in cuts, NEW b \in cuts, a # b
      PROVE  a[n] # b[n]
  <2>1. PICK i \in 0..n : a[i] # b[i]
    BY <1>1, <1>6
  <2> QED
    BY <1>1, <1>2, <2>1
<1>7. \A other \in cuts \ {g} : Greedier(g, other)
  <2> TAKE other \in cuts \ {g}
  <2>1. g[n] > other[n]
    <3>1. other \in cuts /\ other # g
      OBVIOUS
    <3>2. other[n] <= g[n] /\ other[n] # g[n]
      BY <1>5, <1>6, <3>1
    <3>3. g[n] \in Nat /\ other[n] \in Nat
      BY <1>a, <3>1
    <3> QED
      BY <3>2, <3>3
  <2>2. DOMAIN g = 0..n /\ n \in DOMAIN g
    BY <1>1
  <2> QED
    BY <1>2, <2>1, <2>2 DEF Greedier
<1>8. ASSUME NEW c \in cuts, \A other \in cuts \ {c} : Greedier(c, other)
      PROVE  \A cut \in cuts : cut[n] <= c[n]
  <2> TAKE cut \in cuts
  <2>1. CASE cut = c
    BY <1>1, <2>1
  <2>2. CASE cut # c
    <3>1. PICK i \in DOMAIN c : c[i] > cut[i]
      BY <1>8, <2>2 DEF Greedier
    <3>2. i \in 0..n /\ c[i] \in Nat /\ cut[i] \in Nat
      <4>1. i \in 0..n
        BY <1>d, <3>1
      <4> QED
        BY <1>b, <4>1
    <3>3. i = n
      <4>1. i \notin 0..n - 1
        BY <1>2, <3>1, <3>2
      <4> QED
        BY <1>1, <3>2, <4>1
    <3> QED
      BY <3>1, <3>2, <3>3
  <2> QED
    BY <2>1, <2>2
<1>9. /\ Greediest(cuts) \in cuts
      /\ \A other \in cuts \ {Greediest(cuts)} : Greedier(Greediest(cuts), other)
  BY <1>7, Zenon DEF Greediest
<1> QED
  BY <1>8, <1>9 DEF cuts, n

\* The places of a match rise.
LEMMA PlacesRise ==
    ASSUME NEW parts, IsRoute(parts), NEW s \in Seq(Chars),
           NEW cut \in Matches(parts, s, 1..Len(s) + 1),
           NEW k \in 0..Len(parts)
    PROVE  \A i \in 0..k : cut[i] <= cut[k]
<1> DEFINE above == {k - i : i \in {j \in 0..k : cut[j] > cut[k]}}
<1>1. /\ Len(parts) \in Nat /\ Len(s) \in Nat
      /\ cut \in [0..Len(parts) -> 1..Len(s) + 1]
      /\ \A i \in 1..Len(parts) :
            /\ Language(parts[i], Piece(s, cut, i))
            /\ cut[i - 1] \in 1..Len(s) + 1 /\ cut[i] \in 1..Len(s) + 1
  BY MatchPlaces
<1>2. \A i \in 1..Len(parts) : cut[i - 1] < cut[i]
  <2> TAKE i \in 1..Len(parts)
  <2>1. IsPart(parts[i]) /\ Language(parts[i], SubSeq(s, cut[i - 1], cut[i] - 1))
    BY <1>1 DEF IsRoute, Piece
  <2> QED
    BY <1>1, <2>1, FittingAdvances
<1>3. SUFFICES ASSUME above # {} PROVE FALSE
  <2> SUFFICES ASSUME above = {}, NEW i \in 0..k PROVE cut[i] <= cut[k]
    BY <1>3
  <2>1. ~(cut[i] > cut[k])
    OBVIOUS
  <2>2. cut[i] \in Nat /\ cut[k] \in Nat
    BY <1>1
  <2> QED
    BY <2>1, <2>2
<1>4. PICK d \in above : \A e \in above : d <= e
  <2>1. above \subseteq Nat
    BY <1>1
  <2> HIDE DEF above
  <2> QED
    BY <1>3, <2>1, LeastPlace
<1>5. PICK i \in 0..k : d = k - i /\ cut[i] > cut[k]
  BY <1>4
<1>6. i < k
  <2>1. i # k
    BY <1>1, <1>5
  <2> QED
    BY <1>1, <1>5, <2>1
<1>7. i + 1 \in 1..Len(parts) /\ i + 1 \in 0..k
  BY <1>1, <1>6
<1>8. cut[i] < cut[i + 1]
  BY <1>1, <1>2, <1>7
<1>9. cut[i + 1] > cut[k]
  BY <1>1, <1>5, <1>7, <1>8
<1>10. k - (i + 1) \in above
  BY <1>7, <1>9
<1>11. d <= k - (i + 1)
  BY <1>4, <1>10
<1> HIDE DEF above
<1> QED
  BY <1>1, <1>5, <1>6, <1>11

\* The parts of a prefix and of the rest, one after the other.
LEMMA Concatenated ==
    ASSUME NEW prefix, IsRoute(prefix), NEW rest, IsRoute(rest)
    PROVE  /\ IsRoute(prefix \o rest)
           /\ Len(prefix) \in Nat /\ Len(rest) \in Nat
           /\ Len(prefix \o rest) = Len(prefix) + Len(rest)
           /\ DOMAIN (prefix \o rest) = 1..Len(prefix) + Len(rest)
           /\ \A i \in 1..Len(prefix) : (prefix \o rest)[i] = prefix[i]
           /\ \A j \in 1..Len(rest) : (prefix \o rest)[Len(prefix) + j] = rest[j]
<1> DEFINE S == Range(prefix) \cup Range(rest)
           whole == prefix \o rest
           k == Len(prefix)
           m == Len(rest)
<1>1. /\ k \in Nat /\ m \in Nat
      /\ DOMAIN prefix = 1..k /\ DOMAIN rest = 1..m
      /\ (\A i \in 1..k : IsPart(prefix[i])) /\ (\A j \in 1..m : IsPart(rest[j]))
  BY RouteParts
<1>2. prefix \in Seq(S) /\ rest \in Seq(S)
  <2>1. prefix \in Seq(Range(prefix)) /\ rest \in Seq(Range(rest))
    BY DEF IsRoute
  <2>2. \A i \in 1..k : prefix[i] \in S
    BY <1>1 DEF Range
  <2>3. \A j \in 1..m : rest[j] \in S
    BY <1>1 DEF Range
  <2> HIDE DEF S
  <2> QED
    BY <2>1, <2>2, <2>3
<1> HIDE DEF S
<1>3. /\ whole \in Seq(S) /\ Len(whole) = k + m
      /\ \A i \in 1..k + m : whole[i] = IF i <= k THEN prefix[i] ELSE rest[i - k]
  BY <1>2, ConcatProperties
<1> HIDE DEF whole
<1>4. \A i \in 1..k : whole[i] = prefix[i]
  BY <1>1, <1>3
<1>5. ASSUME NEW j \in 1..m PROVE whole[k + j] = rest[j]
  <2>1. k + j \in 1..k + m /\ ~(k + j <= k) /\ (k + j) - k = j
    BY <1>1
  <2> QED
    BY <1>3, <2>1
<1>6. DOMAIN whole = 1..k + m
  BY <1>3, LenProperties
<1>7. ASSUME NEW i \in 1..k + m PROVE IsPart(whole[i])
  <2>1. CASE i <= k
    BY <1>1, <1>3, <2>1
  <2>2. CASE ~(i <= k)
    <3>1. i - k \in 1..m
      BY <1>1, <2>2
    <3> QED
      BY <1>1, <1>3, <2>2, <3>1
  <2> QED
    BY <2>1, <2>2
<1>8. whole \in Seq(Range(whole))
  <2>1. \A i \in 1..Len(whole) : whole[i] \in Range(whole)
    BY <1>3, <1>6 DEF Range
  <2> QED
    BY <1>3, <2>1
<1>9. IsRoute(whole)
  BY <1>6, <1>7, <1>8 DEF IsRoute
<1> QED
  BY <1>1, <1>3, <1>4, <1>5, <1>6, <1>9 DEF whole

\* Both are safe if the whole is.
LEMMA SafeParts ==
    ASSUME NEW prefix, IsRoute(prefix), NEW rest, IsRoute(rest), Safe(prefix \o rest)
    PROVE  Safe(prefix) /\ Safe(rest)
<1> DEFINE whole == prefix \o rest
           k == Len(prefix)
           m == Len(rest)
<1>1. /\ k \in Nat /\ m \in Nat /\ Len(whole) = k + m
      /\ \A i \in 1..k : whole[i] = prefix[i]
      /\ \A j \in 1..m : whole[k + j] = rest[j]
  <2>1. k \in Nat /\ m \in Nat /\ Len(whole) = k + m
    BY Concatenated
  <2>2. \A i \in 1..k : whole[i] = prefix[i]
    BY Concatenated
  <2>3. \A j \in 1..m : whole[k + j] = rest[j]
    BY Concatenated
  <2> QED
    BY <2>1, <2>2, <2>3
<1>s. Safe(whole)
  OBVIOUS
<1> HIDE DEF whole
<1>2. Safe(prefix)
  <2> SUFFICES ASSUME NEW i \in 1..k, prefix[i].kind # "lit", i < k
               PROVE  /\ prefix[i].kind # "path"
                      /\ prefix[i + 1].kind = "lit"
                      /\ \/ prefix[i].kind = "uuid"
                         \/ Head(prefix[i + 1].text) \notin Charset(prefix[i].kind)
    BY DEF Safe
  <2>1. /\ i \in 1..Len(whole) /\ i < Len(whole)
        /\ whole[i] = prefix[i] /\ whole[i + 1] = prefix[i + 1]
    BY <1>1
  <2> QED
    BY <1>s, <2>1 DEF Safe
<1>3. Safe(rest)
  <2> SUFFICES ASSUME NEW j \in 1..m, rest[j].kind # "lit", j < m
               PROVE  /\ rest[j].kind # "path"
                      /\ rest[j + 1].kind = "lit"
                      /\ \/ rest[j].kind = "uuid"
                         \/ Head(rest[j + 1].text) \notin Charset(rest[j].kind)
    BY DEF Safe
  <2>1. /\ k + j \in 1..Len(whole) /\ k + j < Len(whole)
        /\ whole[k + j] = rest[j]
    BY <1>1
  <2>2. whole[(k + j) + 1] = rest[j + 1]
    <3>1. j + 1 \in 1..m /\ (k + j) + 1 = k + (j + 1)
      BY <1>1
    <3> QED
      BY <1>1, <3>1
  <2> QED
    BY <1>s, <2>1, <2>2 DEF Safe
<1> QED
  BY <1>2, <1>3

\* A match of the prefix and one of the rest, as one.
Joined(prefix, rest, cut, sub) ==
    [i \in 0..Len(prefix) + Len(rest) |->
        IF i <= Len(prefix) THEN cut[i]
        ELSE sub[i - Len(prefix)] + cut[Len(prefix)] - 1]

\* In it, each part has the text it had.
KeepsPieces(prefix, rest, s, cut, sub) ==
    LET joined == Joined(prefix, rest, cut, sub)
    IN  /\ \A i \in 1..Len(prefix) : Piece(s, joined, i) = Piece(s, cut, i)
        /\ \A j \in 1..Len(rest) :
             Piece(s, joined, Len(prefix) + j) = Piece(After(prefix, s, cut), sub, j)

\* The two match what they reach of the path.
LEMMA PartsJoin ==
    ASSUME NEW prefix, IsRoute(prefix), NEW rest, IsRoute(rest), NEW s \in Seq(Chars),
           NEW cut \in Matches(prefix, s, 1..Len(s) + 1),
           NEW sub \in Matches(rest, After(prefix, s, cut), 1..Len(After(prefix, s, cut)) + 1)
    PROVE  /\ Joined(prefix, rest, cut, sub) \in Matches(prefix \o rest, s, 1..Len(s) + 1)
           /\ Joined(prefix, rest, cut, sub)[Len(prefix) + Len(rest)]
                = sub[Len(rest)] + cut[Len(prefix)] - 1
           /\ KeepsPieces(prefix, rest, s, cut, sub)
<1> DEFINE k == Len(prefix)
           m == Len(rest)
           at == cut[k]
           tail == After(prefix, s, cut)
           whole == prefix \o rest
           c == Joined(prefix, rest, cut, sub)
<1>1. /\ k \in Nat /\ m \in Nat /\ Len(whole) = k + m /\ DOMAIN whole = 1..k + m
      /\ \A i \in 1..k : whole[i] = prefix[i]
      /\ \A j \in 1..m : whole[k + j] = rest[j]
  <2>1. k \in Nat /\ m \in Nat /\ Len(whole) = k + m
    BY Concatenated
  <2>2. \A i \in 1..k : whole[i] = prefix[i]
    BY Concatenated
  <2>3. \A j \in 1..m : whole[k + j] = rest[j]
    BY Concatenated
  <2>4. DOMAIN whole = 1..k + m
    BY Concatenated
  <2> QED
    BY <2>1, <2>2, <2>3, <2>4
<1>2. Len(s) \in Nat /\ cut \in [0..k -> 1..Len(s) + 1] /\ cut[0] = 1 /\ at \in 1..Len(s) + 1
  <2>1. Len(s) \in Nat /\ cut \in [0..k -> 1..Len(s) + 1]
    BY MatchPlaces
  <2>2. cut[0] = 1 /\ at \in 1..Len(s) + 1
    BY MatchPlaces
  <2> QED
    BY <2>1, <2>2
<1>3. \A i \in 1..k : Language(prefix[i], Piece(s, cut, i))
  BY MatchPlaces
<1>4. tail \in Seq(Chars) /\ Len(tail) = Len(s) + 1 - at
  BY <1>2, RestIsPath DEF After
<1>5. Len(tail) \in Nat
  BY <1>2, <1>4
<1>6. sub \in Matches(rest, tail, 1..Len(tail) + 1)
  OBVIOUS
<1> HIDE DEF tail
<1>7. sub \in [0..m -> 1..Len(tail) + 1] /\ sub[0] = 1
  <2>1. tail \in Seq(Chars)
    BY <1>4
  <2>2. sub \in [0..m -> 1..Len(tail) + 1]
    BY <1>6, <2>1, MatchPlaces
  <2>3. sub[0] = 1
    BY <1>6, <2>1, MatchPlaces
  <2> QED
    BY <2>2, <2>3
<1>8. \A j \in 1..m : Language(rest[j], Piece(tail, sub, j))
  BY <1>4, <1>6, MatchPlaces
<1>9. \A i \in 0..k : c[i] = cut[i]
  BY <1>1 DEF Joined
<1>10. ASSUME NEW j \in 0..m PROVE c[k + j] = sub[j] + at - 1
  <2>1. CASE j = 0
    BY <1>1, <1>2, <1>7, <1>9, <2>1
  <2>2. CASE j # 0
    <3>1. k + j \in 0..k + m /\ ~(k + j <= k) /\ (k + j) - k = j
      BY <1>1, <2>2
    <3> QED
      BY <3>1 DEF Joined
  <2> QED
    BY <2>1, <2>2
<1>11. DOMAIN c = 0..k + m /\ c = [i \in 0..k + m |-> c[i]]
  BY DEF Joined
<1> HIDE DEF c, at
<1>12. \A i \in 0..k + m : c[i] \in 1..Len(s) + 1
  <2> TAKE i \in 0..k + m
  <2>1. CASE i <= k
    BY <1>1, <1>2, <1>9, <2>1
  <2>2. CASE ~(i <= k)
    <3>1. i - k \in 0..m /\ k + (i - k) = i
      BY <1>1, <2>2
    <3>2. c[i] = sub[i - k] + at - 1 /\ sub[i - k] \in 1..Len(tail) + 1
      BY <1>7, <1>10, <3>1
    <3> QED
      BY <1>2, <1>4, <3>2
  <2> QED
    BY <2>1, <2>2
<1>13. c[0] = 1 /\ c[k + m] = sub[m] + at - 1
  <2>1. c[0] = 1
    BY <1>1, <1>2, <1>9
  <2>2. c[k + m] = sub[m] + at - 1
    BY <1>1, <1>10
  <2> QED
    BY <2>1, <2>2
<1>e. /\ c[k + m] \in 1..Len(s) + 1
      /\ at \in Nat /\ \A i \in 0..k : cut[i] \in Nat
      /\ \A j \in 0..m : sub[j] \in Nat
  <2>1. c[k + m] \in 1..Len(s) + 1
    BY <1>1, <1>12
  <2>2. at \in Nat
    BY <1>2
  <2>3. \A i \in 0..k : cut[i] \in Nat
    BY <1>2
  <2>4. \A j \in 0..m : sub[j] \in Nat
    BY <1>5, <1>7
  <2> QED
    BY <2>1, <2>2, <2>3, <2>4
<1>14. c \in Cuts(k + m, c[k + m])
  <2>1. \A i \in 0..k + m : c[i] \in 1..c[k + m]
    <3> TAKE i \in 0..k + m
    <3>1. CASE i <= k
      <4>1. cut[i] <= at /\ 1 <= sub[m]
        <5>1. i \in 0..k /\ k \in 0..Len(prefix) /\ m \in 0..m
          BY <1>1, <3>1
        <5> QED
          BY <1>7, <5>1, PlacesRise DEF at
      <4>2. c[i] = cut[i] /\ cut[i] \in Nat /\ at \in Nat /\ sub[m] \in Nat
        BY <1>1, <1>9, <1>e, <3>1
      <4> QED
        BY <1>12, <1>13, <4>1, <4>2
    <3>2. CASE ~(i <= k)
      <4>1. i - k \in 0..m /\ k + (i - k) = i /\ m \in 0..Len(rest)
        BY <1>1, <3>2
      <4>2. sub[i - k] <= sub[m]
        BY <1>4, <1>6, <4>1, PlacesRise
      <4>3. c[i] = sub[i - k] + at - 1
        BY <1>10, <4>1
      <4>4. sub[i - k] \in Nat /\ sub[m] \in Nat /\ at \in Nat
        BY <1>1, <1>e, <4>1
      <4> QED
        BY <1>12, <1>13, <4>2, <4>3, <4>4
    <3> QED
      BY <3>1, <3>2
  <2>2. c \in [0..k + m -> 1..c[k + m]]
    BY <1>11, <2>1
  <2>3. k + m \in Nat /\ c[k + m] \in Nat \ {0}
    BY <1>1, <1>2, <1>e
  <2> QED
    BY <1>13, <2>2, <2>3, MakesCut
<1>15. ASSUME NEW i \in 1..k PROVE Piece(s, c, i) = Piece(s, cut, i)
  <2>1. i \in 0..k /\ i - 1 \in 0..k
    BY <1>1
  <2> QED
    BY <1>9, <2>1 DEF Piece
<1>16. ASSUME NEW j \in 1..m PROVE Piece(s, c, k + j) = Piece(tail, sub, j)
  <2>1. j \in 0..m /\ j - 1 \in 0..m /\ (k + j) - 1 = k + (j - 1)
    BY <1>1
  <2>2. c[k + j] = sub[j] + at - 1 /\ c[(k + j) - 1] = sub[j - 1] + at - 1
    BY <1>10, <2>1
  <2>3. sub[j - 1] \in 1..Len(tail) + 1 /\ sub[j] \in 1..Len(tail) + 1
    BY <1>7, <2>1
  <2>4. tail = SubSeq(s, at, Len(s))
    BY DEF tail, at, After
  <2>5. SubSeq(tail, sub[j - 1], sub[j] - 1)
           = SubSeq(s, sub[j - 1] + at - 1, sub[j] + at - 1 - 1)
    BY <1>2, <2>3, <2>4, PieceOfRest DEF at
  <2>6. Piece(s, c, k + j) = SubSeq(s, c[(k + j) - 1], c[k + j] - 1)
    BY Zenon DEF Piece
  <2>7. c[k + j] - 1 = sub[j] + at - 1 - 1
    <3>1. sub[j] \in Nat /\ at \in Nat
      BY <1>2, <1>5, <2>3
    <3>2. \A x, y \in Nat : (x + y - 1) - 1 = x + y - 1 - 1
      OBVIOUS
    <3> QED
      BY <2>2, <3>1, <3>2
  <2>8. Piece(tail, sub, j) = SubSeq(tail, sub[j - 1], sub[j] - 1)
    BY Zenon DEF Piece
  <2> QED
    BY <2>2, <2>5, <2>6, <2>7, <2>8, Zenon
<1>17. ASSUME NEW i \in 1..k + m PROVE Language(whole[i], Piece(s, c, i))
  <2>1. CASE i <= k
    <3>1. i \in 1..k
      BY <1>1, <2>1
    <3> QED
      BY <1>1, <1>3, <1>15, <3>1
  <2>2. CASE ~(i <= k)
    <3>1. i - k \in 1..m /\ k + (i - k) = i
      BY <1>1, <2>2
    <3> QED
      BY <1>1, <1>8, <1>16, <3>1
  <2> QED
    BY <2>1, <2>2
<1>18. c \in Matches(whole, s, 1..Len(s) + 1)
  BY <1>1, <1>e, <1>14, <1>17 DEF Matches
<1>19. KeepsPieces(prefix, rest, s, cut, sub)
  BY <1>15, <1>16 DEF c, tail, KeepsPieces
<1> QED
  BY <1>13, <1>18, <1>19 DEF c, at

\* The two sides of a match of the whole path.
HeadOf(prefix, w) == [i \in 0..Len(prefix) |-> w[i]]
TailOf(prefix, rest, w) ==
    [j \in 0..Len(rest) |-> w[Len(prefix) + j] + 1 - w[Len(prefix)]]

\* They match what the include and the pattern match.
LEMMA WholeSplits ==
    ASSUME NEW prefix, IsRoute(prefix), NEW rest, IsRoute(rest), NEW s \in Seq(Chars),
           NEW w \in Matches(prefix \o rest, s, 1..Len(s) + 1)
    PROVE  /\ HeadOf(prefix, w) \in Matches(prefix, s, 1..Len(s) + 1)
           /\ LET tail == After(prefix, s, HeadOf(prefix, w))
              IN  TailOf(prefix, rest, w) \in Matches(rest, tail, 1..Len(tail) + 1)
<1> DEFINE k == Len(prefix)
           m == Len(rest)
           whole == prefix \o rest
           head == HeadOf(prefix, w)
           sub == TailOf(prefix, rest, w)
           at == w[k]
           tail == After(prefix, s, head)
<1>1. /\ k \in Nat /\ m \in Nat /\ Len(whole) = k + m /\ DOMAIN whole = 1..k + m
      /\ \A i \in 1..k : whole[i] = prefix[i]
      /\ \A j \in 1..m : whole[k + j] = rest[j]
  <2>1. k \in Nat /\ m \in Nat /\ Len(whole) = k + m
    BY Concatenated
  <2>2. \A i \in 1..k : whole[i] = prefix[i]
    BY Concatenated
  <2>3. \A j \in 1..m : whole[k + j] = rest[j]
    BY Concatenated
  <2>4. DOMAIN whole = 1..k + m
    BY Concatenated
  <2> QED
    BY <2>1, <2>2, <2>3, <2>4
<1>r. IsRoute(whole)
  BY Concatenated
<1>2. DOMAIN prefix = 1..k /\ DOMAIN rest = 1..m
  BY RouteParts
<1>3. Len(s) \in Nat
  BY LenProperties
<1>4. w \in Matches(whole, s, 1..Len(s) + 1)
  OBVIOUS
<1> HIDE DEF whole
<1>5. w \in [0..k + m -> 1..Len(s) + 1] /\ w[0] = 1
  BY <1>1, <1>r, <1>4, MatchPlaces
<1>6. \A i \in 1..k + m : Language(whole[i], Piece(s, w, i))
  BY <1>1, <1>r, <1>4, MatchPlaces
<1>7. \A j \in 0..k + m : \A i \in 0..j : w[i] <= w[j]
  BY <1>1, <1>r, <1>4, PlacesRise
<1>8. at \in 1..Len(s) + 1
  BY <1>1, <1>5
<1>9. head \in [0..k -> 1..at] /\ head[0] = 1 /\ head[k] = at
  <2>1. \A i \in 0..k : w[i] \in 1..at
    BY <1>1, <1>5, <1>7
  <2> QED
    BY <1>1, <1>5, <2>1 DEF HeadOf
<1>10. \A i \in 0..k : head[i] = w[i]
  BY DEF HeadOf
<1>11. sub = [j \in 0..m |-> w[k + j] + 1 - at]
  BY DEF TailOf
<1> HIDE DEF head, sub, at
<1>12. head \in Cuts(k, at)
  <2>1. at \in Nat \ {0}
    BY <1>3, <1>8
  <2> QED
    BY <1>1, <1>9, <2>1, MakesCut
<1>13. \A i \in 1..k : Language(prefix[i], Piece(s, head, i))
  <2> TAKE i \in 1..k
  <2>1. i \in 1..k + m /\ i \in 0..k /\ i - 1 \in 0..k
    BY <1>1
  <2>2. Piece(s, head, i) = Piece(s, w, i)
    BY <1>10, <2>1 DEF Piece
  <2> QED
    BY <1>1, <1>6, <2>1, <2>2
<1>14. head \in Matches(prefix, s, 1..Len(s) + 1)
  BY <1>2, <1>8, <1>12, <1>13 DEF Matches
<1>15. tail = SubSeq(s, at, Len(s)) /\ tail \in Seq(Chars) /\ Len(tail) = Len(s) + 1 - at
  BY <1>8, <1>9, RestIsPath DEF After
<1> HIDE DEF tail
<1>16. Len(tail) \in Nat /\ Len(tail) + 1 \in Nat \ {0}
  BY <1>3, <1>8, <1>15
<1>17. ASSUME NEW j \in 0..m
       PROVE  /\ k + j \in 0..k + m
              /\ sub[j] \in 1..Len(tail) + 1
              /\ w[k + j] = sub[j] + at - 1
  <2>1. k + j \in 0..k + m /\ k \in 0..k + j
    BY <1>1
  <2>2. w[k + j] \in 1..Len(s) + 1 /\ at <= w[k + j]
    BY <1>5, <1>7, <2>1 DEF at
  <2>3. sub[j] = w[k + j] + 1 - at
    BY <1>11
  <2>4. \A n \in Nat : \A a \in 1..n + 1 : \A x \in 1..n + 1 :
          a <= x => /\ x + 1 - a \in 1..(n + 1 - a) + 1
                    /\ x = (x + 1 - a) + a - 1
    OBVIOUS
  <2>5. /\ w[k + j] + 1 - at \in 1..(Len(s) + 1 - at) + 1
        /\ w[k + j] = (w[k + j] + 1 - at) + at - 1
    BY <1>3, <1>8, <2>2, <2>4
  <2> QED
    BY <1>15, <2>1, <2>3, <2>5
<1>18. sub[0] = 1 /\ sub[m] \in 1..Len(tail) + 1
  <2>1. sub[0] = w[k + 0] + 1 - at
    BY <1>1, <1>11
  <2>2. w[k + 0] = at
    BY <1>1 DEF at
  <2> QED
    BY <1>1, <1>3, <1>8, <1>17, <2>1, <2>2
<1>19. sub \in Cuts(m, sub[m])
  <2>1. \A j \in 0..m : sub[j] \in 1..sub[m]
    <3> TAKE j \in 0..m
    <3>1. k + j \in 0..k + m /\ k + m \in 0..k + m /\ k + j \in 0..k + m
      BY <1>1
    <3>2. w[k + j] <= w[k + m]
      BY <1>7, <3>1
    <3>3. sub[j] = w[k + j] + 1 - at /\ sub[m] = w[k + m] + 1 - at
      BY <1>1, <1>11
    <3>4. w[k + j] \in Nat /\ w[k + m] \in Nat /\ at \in Nat
      BY <1>3, <1>5, <1>8, <3>1
    <3>5. sub[j] \in 1..Len(tail) + 1
      BY <1>17
    <3> QED
      BY <1>16, <3>2, <3>3, <3>4, <3>5
  <2>2. sub \in [0..m -> 1..sub[m]]
    BY <1>11, <2>1
  <2>3. sub[m] \in Nat \ {0}
    BY <1>16, <1>18
  <2> QED
    BY <1>1, <1>18, <2>2, <2>3, MakesCut
<1>20. ASSUME NEW j \in 1..m PROVE Language(rest[j], Piece(tail, sub, j))
  <2>1. /\ k + j \in 1..k + m /\ j \in 0..m /\ j - 1 \in 0..m
        /\ (k + j) - 1 = k + (j - 1)
    BY <1>1
  <2>2. /\ sub[j] \in 1..Len(tail) + 1 /\ sub[j - 1] \in 1..Len(tail) + 1
        /\ w[k + j] = sub[j] + at - 1 /\ w[(k + j) - 1] = sub[j - 1] + at - 1
    BY <1>17, <2>1
  <2>3. SubSeq(tail, sub[j - 1], sub[j] - 1)
           = SubSeq(s, sub[j - 1] + at - 1, sub[j] + at - 1 - 1)
    BY <1>8, <1>15, <2>2, PieceOfRest
  <2>4. Piece(s, w, k + j) = SubSeq(s, w[(k + j) - 1], w[k + j] - 1)
    BY Zenon DEF Piece
  <2>5. w[k + j] - 1 = sub[j] + at - 1 - 1
    <3>1. sub[j] \in Nat /\ at \in Nat
      BY <1>8, <1>16, <2>2
    <3>2. \A x, y \in Nat : (x + y - 1) - 1 = x + y - 1 - 1
      OBVIOUS
    <3> QED
      BY <2>2, <3>1, <3>2
  <2>6. Piece(s, w, k + j) = Piece(tail, sub, j)
    <3>1. Piece(tail, sub, j) = SubSeq(tail, sub[j - 1], sub[j] - 1)
      BY Zenon DEF Piece
    <3> QED
      BY <2>2, <2>3, <2>4, <2>5, <3>1, Zenon
  <2> QED
    BY <1>1, <1>6, <2>1, <2>6
<1>21. sub \in Matches(rest, tail, 1..Len(tail) + 1)
  BY <1>2, <1>18, <1>19, <1>20 DEF Matches
<1> QED
  BY <1>14, <1>21 DEF head, sub, tail

\* Nothing but the beginning of such a match is the greediest match of the
\* prefix: its last part takes all that it can, if a literal or the end follows.
LEMMA GreediestIsHead ==
    ASSUME NEW prefix, IsRoute(prefix), NEW rest, IsRoute(rest), Safe(prefix \o rest),
           NEW s \in Seq(Chars), NEW w \in Matches(prefix \o rest, s, 1..Len(s) + 1),
           Len(rest) # 0 \/ w[Len(prefix \o rest)] = Len(s) + 1
    PROVE  Greediest(Matches(prefix, s, 1..Len(s) + 1)) = HeadOf(prefix, w)
<1> DEFINE k == Len(prefix)
           whole == prefix \o rest
           cuts == Matches(prefix, s, 1..Len(s) + 1)
           g == Greediest(cuts)
           head == HeadOf(prefix, w)
<1>1. /\ k \in Nat /\ Len(rest) \in Nat /\ Len(whole) = k + Len(rest)
      /\ DOMAIN whole = 1..Len(whole)
      /\ \A i \in 1..k : whole[i] = prefix[i]
  <2>1. k \in Nat /\ Len(rest) \in Nat /\ Len(whole) = k + Len(rest)
    BY Concatenated
  <2>2. DOMAIN whole = 1..k + Len(rest)
    BY Concatenated
  <2>3. \A i \in 1..k : whole[i] = prefix[i]
    BY Concatenated
  <2> QED
    BY <2>1, <2>2, <2>3
<1>2. IsRoute(whole) /\ Safe(prefix) /\ Len(s) \in Nat
  <2>1. IsRoute(whole)
    BY Concatenated
  <2>2. Safe(prefix)
    BY SafeParts
  <2> QED
    BY <2>1, <2>2, LenProperties
<1>3. head \in cuts
  BY WholeSplits
<1>4. g \in cuts /\ head[k] <= g[k]
  BY <1>2, <1>3, GreediestGoesFarthest
<1> HIDE DEF g
<1>5. /\ g \in [0..k -> 1..Len(s) + 1] /\ g[0] = 1
      /\ \A i \in 1..k : g[i - 1] \in 1..Len(s) + 1 /\ g[i] \in 1..Len(s) + 1
  BY <1>4, MatchPlaces
<1>6. head \in [0..k -> 1..Len(s) + 1] /\ head[0] = 1
  BY <1>3, MatchPlaces
<1>7. \A i \in 0..k - 1 : g[i] = head[i]
  BY <1>2, <1>3, <1>4, PrefixesAgree
<1>8. ASSUME k # 0 PROVE g[k] <= head[k]
  <2>1. k \in 1..k /\ k - 1 \in 0..k - 1 /\ k - 1 \in 0..k /\ k \in 0..k
    BY <1>1, <1>8
  <2>2. IsPart(prefix[k])
    BY <2>1, RouteParts
  <2>3. Language(prefix[k], Piece(s, g, k))
    BY <1>4, <2>1, MatchPlaces
  <2>4. g[k] <= Consume(prefix[k], s, g[k - 1])
    BY <1>5, <2>1, <2>2, <2>3, ConsumesMost DEF Piece
  <2>5. /\ w[Len(whole)] \in 1..Len(s) + 1
        /\ w \in Cuts(Len(whole), w[Len(whole)])
        /\ \A i \in 1..Len(whole) : Language(whole[i], Piece(s, w, i))
    BY <1>2, MatchPlaces
  <2>6. k \in 1..Len(whole) /\ (k < Len(whole) \/ w[Len(whole)] = Len(s) + 1)
    BY <1>1, <1>2, <2>1
  <2>7. w[k] = Consume(whole[k], s, w[k - 1])
    <3> HIDE DEF whole, k
    <3> QED
      BY <1>2, <2>5, <2>6, FittingIsScanned DEF whole
  <2>8. head[k] = w[k] /\ head[k - 1] = w[k - 1]
    BY <2>1 DEF HeadOf
  <2>9. head[k] = Consume(prefix[k], s, g[k - 1])
    BY <1>1, <1>7, <2>1, <2>7, <2>8
  <2> QED
    BY <2>4, <2>9
<1> HIDE DEF head
<1>9. g[k] = head[k]
  <2>1. CASE k = 0
    BY <1>5, <1>6, <2>1
  <2>2. CASE k # 0
    <3>1. g[k] \in Nat /\ head[k] \in Nat
      BY <1>1, <1>2, <1>5, <1>6
    <3> QED
      BY <1>4, <1>8, <2>2, <3>1
  <2> QED
    BY <2>1, <2>2
<1>10. \A i \in 0..k : g[i] = head[i]
  <2> TAKE i \in 0..k
  <2>1. i # k => i \in 0..k - 1
    BY <1>1
  <2> QED
    BY <1>7, <1>9, <2>1
<1>11. g = head
  BY <1>5, <1>6, <1>10
<1> QED
  BY <1>11 DEF g, head

\* So the greediest match of the two as one is made of the greediest of each.
LEMMA GreediestJoins ==
    ASSUME NEW prefix, IsRoute(prefix), NEW rest, IsRoute(rest), Safe(prefix \o rest),
           NEW s \in Seq(Chars)
    PROVE  LET cuts == Matches(prefix, s, 1..Len(s) + 1)
               cut == Greediest(cuts)
               tail == After(prefix, s, cut)
               subs == Matches(rest, tail, 1..Len(tail) + 1)
               wholes == Matches(prefix \o rest, s, 1..Len(s) + 1)
           IN  /\ wholes # {} <=> cuts # {} /\ subs # {}
               /\ wholes # {} => Greediest(wholes) = Joined(prefix, rest, cut, Greediest(subs))
<1> DEFINE k == Len(prefix)
           m == Len(rest)
           whole == prefix \o rest
           cuts == Matches(prefix, s, 1..Len(s) + 1)
           cut == Greediest(cuts)
           tail == After(prefix, s, cut)
           subs == Matches(rest, tail, 1..Len(tail) + 1)
           sub == Greediest(subs)
           wholes == Matches(whole, s, 1..Len(s) + 1)
           joined == Joined(prefix, rest, cut, sub)
<1>1. IsRoute(whole) /\ Safe(whole) /\ Len(whole) = k + m /\ k \in Nat /\ m \in Nat
  <2>1. IsRoute(whole)
    BY Concatenated
  <2>2. Len(whole) = k + m /\ k \in Nat /\ m \in Nat
    BY Concatenated
  <2> QED
    BY <2>1, <2>2
<1>2. Safe(prefix) /\ Safe(rest)
  BY SafeParts
<1>3. Len(s) \in Nat
  BY LenProperties
<1>4. ASSUME cuts # {}
      PROVE  /\ cut \in cuts /\ cut[k] \in 1..Len(s) + 1
             /\ tail = SubSeq(s, cut[k], Len(s))
             /\ tail \in Seq(Chars) /\ Len(tail) = Len(s) + 1 - cut[k]
  <2>1. cut \in cuts
    BY <1>2, <1>4, GreediestGoesFarthest
  <2>2. cut[k] \in 1..Len(s) + 1
    BY <2>1, MatchPlaces
  <2> QED
    BY <2>1, <2>2, RestIsPath DEF After
<1>5. ASSUME NEW w \in wholes, m # 0
      PROVE  cuts # {} /\ TailOf(prefix, rest, w) \in subs /\ cut[k] = w[k]
  <2>1. cut = HeadOf(prefix, w)
    BY <1>5, GreediestIsHead
  <2>2. HeadOf(prefix, w) \in cuts
    BY WholeSplits
  <2>3. TailOf(prefix, rest, w) \in subs
    BY <2>1, WholeSplits
  <2>4. HeadOf(prefix, w)[k] = w[k]
    BY <1>1 DEF HeadOf
  <2> HIDE DEF cut
  <2> QED
    BY <2>1, <2>2, <2>3, <2>4
<1>6. ASSUME m = 0
      PROVE  whole = prefix /\ (cuts # {} => [i \in 0..0 |-> 1] \in subs)
  <2>1. rest = << >>
    BY <1>6, EmptySeq DEF IsRoute
  <2>2. whole = prefix
    BY <2>1, ConcatEmptySeq DEF IsRoute
  <2>3. ASSUME cuts # {} PROVE [i \in 0..0 |-> 1] \in subs
    <3>1. 1 \in 1..Len(tail) + 1
      BY <1>3, <1>4, <2>3
    <3>2. [i \in 0..0 |-> 1] \in Cuts(0, 1)
      BY EmptyCut
    <3>3. DOMAIN rest = {}
      BY <2>1
    <3> QED
      BY <1>6, <3>1, <3>2, <3>3 DEF Matches
  <2> QED
    BY <2>2, <2>3
<1>7. ASSUME cuts # {}, subs # {}
      PROVE  /\ sub \in subs /\ joined \in wholes
             /\ joined[k + m] = sub[m] + cut[k] - 1
             /\ \A b \in subs : b[m] <= sub[m]
  <2>1. tail \in Seq(Chars) /\ cut \in cuts
    BY <1>4, <1>7
  <2>2. sub \in subs
    BY <1>2, <1>7, <2>1, GreediestGoesFarthest
  <2>3. \A b \in subs : b[m] <= sub[m]
    BY <1>2, <1>7, <2>1, GreediestGoesFarthest
  <2>4. joined \in wholes
    BY <2>1, <2>2, PartsJoin
  <2>5. joined[k + m] = sub[m] + cut[k] - 1
    BY <2>1, <2>2, PartsJoin
  <2> QED
    BY <2>2, <2>3, <2>4, <2>5
<1>8. wholes # {} <=> cuts # {} /\ subs # {}
  <2>1. CASE m = 0
    <3>1. wholes = cuts
      BY <1>6, <2>1
    <3> QED
      BY <1>6, <2>1, <3>1
  <2>2. CASE m # 0
    <3>1. ASSUME wholes # {} PROVE cuts # {} /\ subs # {}
      BY <1>5, <2>2, <3>1
    <3> QED
      BY <1>7, <3>1
  <2> QED
    BY <2>1, <2>2
<1>9. ASSUME wholes # {} PROVE Greediest(wholes) = joined
  <2> DEFINE g == Greediest(wholes)
  <2>1. g \in wholes /\ \A w \in wholes : w[k + m] <= g[k + m]
    BY <1>1, <1>9, GreediestGoesFarthest
  <2>2. cuts # {} /\ subs # {}
    BY <1>8, <1>9
  <2>3. /\ sub \in subs /\ joined \in wholes
        /\ joined[k + m] = sub[m] + cut[k] - 1
        /\ \A b \in subs : b[m] <= sub[m]
    BY <1>7, <2>2
  <2>4. /\ tail \in Seq(Chars) /\ cut \in cuts /\ cut[k] \in 1..Len(s) + 1
        /\ Len(tail) = Len(s) + 1 - cut[k]
    BY <1>4, <2>2
  <2>5. g[k + m] <= joined[k + m]
    <3>1. CASE m = 0
      <4>1. wholes = cuts /\ g = cut
        BY <1>6, <3>1
      <4>2. sub[m] \in 1..Len(tail) + 1
        BY <2>3, <2>4, MatchPlaces
      <4>3. [i \in 0..0 |-> 1][0] <= sub[0]
        BY <1>6, <2>2, <2>3, <3>1
      <4> HIDE DEF g, cut, sub, joined, tail
      <4>4. g[k + m] = cut[k] /\ cut[k] \in Nat /\ sub[m] \in Nat /\ 1 <= sub[m]
        <5>1. k + m = k
          BY <1>1, <3>1
        <5>2. cut[k] \in Nat /\ Len(tail) \in Nat
          BY <1>3, <2>4
        <5> QED
          BY <3>1, <4>1, <4>2, <4>3, <5>1, <5>2
      <4> QED
        BY <2>3, <4>4
    <3>2. CASE m # 0
      <4>1. TailOf(prefix, rest, g) \in subs /\ cut[k] = g[k]
        BY <1>5, <2>1, <3>2
      <4>2. TailOf(prefix, rest, g)[m] <= sub[m]
        BY <2>3, <4>1
      <4>3. TailOf(prefix, rest, g)[m] = g[k + m] + 1 - g[k]
        BY <1>1 DEF TailOf
      <4>4. sub[m] \in 1..Len(tail) + 1
        BY <2>3, <2>4, MatchPlaces
      <4>5. g[k + m] \in 1..Len(s) + 1
        BY <1>1, <2>1, MatchPlaces
      <4> HIDE DEF g, cut, sub, joined, tail
      <4>6. sub[m] \in Nat /\ g[k + m] \in Nat /\ cut[k] \in Nat
        BY <1>3, <2>4, <4>4, <4>5
      <4> QED
        BY <2>3, <4>1, <4>2, <4>3, <4>6
    <3> QED
      BY <3>1, <3>2
  <2>6. joined[k + m] <= g[k + m]
    BY <2>1, <2>3
  <2>7. \A i \in 0..(k + m) - 1 : g[i] = joined[i]
    <3>1. \A a, b \in wholes : \A i \in 0..Len(whole) - 1 : a[i] = b[i]
      BY <1>1, PrefixesAgree
    <3>2. Len(whole) = k + m
      BY <1>1
    <3> HIDE DEF g, joined, wholes, whole
    <3> QED
      BY <2>1, <2>3, <3>1, <3>2
  <2>8. /\ g \in [0..k + m -> 1..Len(s) + 1]
        /\ joined \in [0..k + m -> 1..Len(s) + 1]
    BY <1>1, <2>1, <2>3, MatchPlaces
  <2> HIDE DEF g, joined
  <2>9. g[k + m] = joined[k + m]
    <3>1. g[k + m] \in Nat /\ joined[k + m] \in Nat
      BY <1>1, <1>3, <2>8
    <3> QED
      BY <2>5, <2>6, <3>1
  <2>10. \A i \in 0..k + m : g[i] = joined[i]
    <3> TAKE i \in 0..k + m
    <3>1. i # k + m => i \in 0..(k + m) - 1
      BY <1>1
    <3> QED
      BY <2>7, <2>9, <3>1
  <2> QED
    BY <2>8, <2>10 DEF g
<1> QED
  BY <1>8, <1>9

\* The last parameter of its name.
IsLast(parts, i) ==
    /\ i \in 1..Len(parts) /\ parts[i].kind # "lit"
    /\ \A j \in 1..Len(parts) :
         parts[j].kind # "lit" /\ parts[j].name = parts[i].name => j <= i

\* A captured value is the text of the last parameter of its name.
LEMMA CapturedIsLast ==
    ASSUME NEW parts, IsRoute(parts), NEW i, IsLast(parts, i), NEW s, NEW cut
    PROVE  Captured(parts, s, cut)[parts[i].name] = Piece(s, cut, i)
<1> DEFINE params == {j \in DOMAIN parts : parts[j].kind # "lit"}
           last(name) == CHOOSE l \in params :
                             /\ parts[l].name = name
                             /\ \A j \in params : parts[j].name = name => j <= l
           Fits(l) == /\ parts[l].name = parts[i].name
                      /\ \A j \in params : parts[j].name = parts[i].name => j <= l
<1>1. DOMAIN parts = 1..Len(parts) /\ Len(parts) \in Nat
  BY RouteParts
<1>2. i \in params /\ Fits(i)
  BY <1>1 DEF IsLast
<1>3. ASSUME NEW l \in params, Fits(l) PROVE l = i
  <2>1. l <= i /\ i <= l
    BY <1>2, <1>3
  <2>2. l \in Nat /\ i \in Nat
    BY <1>1, <1>2
  <2> QED
    BY <2>1, <2>2
<1>4. last(parts[i].name) = CHOOSE l \in params : Fits(l)
  OBVIOUS
<1>5. Captured(parts, s, cut) =
        [name \in {parts[j].name : j \in params} |-> Piece(s, cut, last(name))]
  BY DEF Captured
<1> HIDE DEF Fits, params, last
<1>6. last(parts[i].name) = i
  BY <1>2, <1>3, <1>4
<1> QED
  BY <1>2, <1>5, <1>6

\* The keyword arguments are a function.
LEMMA CapturedIsFunction ==
    ASSUME NEW parts, NEW s, NEW cut
    PROVE  Captured(parts, s, cut) =
             [name \in DOMAIN Captured(parts, s, cut) |-> Captured(parts, s, cut)[name]]
<1> DEFINE params == {j \in DOMAIN parts : parts[j].kind # "lit"}
           last(name) == CHOOSE l \in params :
                             /\ parts[l].name = name
                             /\ \A j \in params : parts[j].name = name => j <= l
           kwargs == Captured(parts, s, cut)
<1>1. kwargs = [name \in {parts[j].name : j \in params} |-> Piece(s, cut, last(name))]
  BY DEF Captured
<1> HIDE DEF params, last, kwargs
<1>2. kwargs = [name \in DOMAIN kwargs |-> kwargs[name]]
  BY <1>1
<1> QED
  BY <1>2 DEF kwargs

\* What is captured are the names of the parameters.
LEMMA CapturedNames ==
    ASSUME NEW parts, IsRoute(parts), NEW s, NEW cut, NEW name
    PROVE  name \in DOMAIN Captured(parts, s, cut) <=>
             \E i \in 1..Len(parts) : parts[i].kind # "lit" /\ parts[i].name = name
<1>1. DOMAIN parts = 1..Len(parts)
  BY RouteParts
<1>2. DOMAIN Captured(parts, s, cut) =
        {parts[i].name : i \in {j \in DOMAIN parts : parts[j].kind # "lit"}}
  BY DEF Captured
<1> QED
  BY <1>1, <1>2

\* Each name of a route has a last parameter.
LEMMA LastOfName ==
    ASSUME NEW parts, IsRoute(parts),
           NEW i \in 1..Len(parts), parts[i].kind # "lit"
    PROVE  \E l : IsLast(parts, l) /\ parts[l].name = parts[i].name
<1> DEFINE n == Len(parts)
           same == {j \in 1..n : parts[j].kind # "lit" /\ parts[j].name = parts[i].name}
           left == {n - j : j \in same}
<1>1. n \in Nat
  BY RouteParts
<1>2. left \subseteq Nat /\ left # {}
  BY <1>1
<1>3. PICK x \in left : \A y \in left : x <= y
  <2> HIDE DEF left
  <2> QED
    BY <1>2, LeastPlace
<1>4. PICK l \in same : x = n - l
  BY <1>3
<1>5. \A j \in same : j <= l
  <2> TAKE j \in same
  <2>1. n - l <= n - j
    BY <1>3, <1>4
  <2> QED
    BY <1>1, <2>1
<1> QED
  BY <1>4, <1>5 DEF IsLast

\* What the whole captures is what its two sides capture.
LEMMA CapturedByBoth ==
    ASSUME NEW prefix, IsRoute(prefix), NEW rest, IsRoute(rest),
           NEW s, NEW cut, NEW sub, KeepsPieces(prefix, rest, s, cut, sub)
    PROVE  Captured(prefix \o rest, s, Joined(prefix, rest, cut, sub))
              = Both(Captured(rest, After(prefix, s, cut), sub), Captured(prefix, s, cut))
<1> DEFINE k == Len(prefix)
           m == Len(rest)
           parts == prefix \o rest
           whole == Joined(prefix, rest, cut, sub)
           tail == After(prefix, s, cut)
           all == Captured(parts, s, whole)
           inner == Captured(rest, tail, sub)
           outer == Captured(prefix, s, cut)
<1>1. /\ k \in Nat /\ m \in Nat /\ Len(parts) = k + m
      /\ \A i \in 1..k : parts[i] = prefix[i]
      /\ \A j \in 1..m : parts[k + j] = rest[j]
  <2>1. k \in Nat /\ m \in Nat /\ Len(parts) = k + m
    BY Concatenated
  <2>2. \A i \in 1..k : parts[i] = prefix[i]
    BY Concatenated
  <2>3. \A j \in 1..m : parts[k + j] = rest[j]
    BY Concatenated
  <2> QED
    BY <2>1, <2>2, <2>3
<1>2. IsRoute(parts)
  BY Concatenated
<1>f. all = [name \in DOMAIN all |-> all[name]]
  BY CapturedIsFunction
<1>p. /\ \A i \in 1..k : Piece(s, whole, i) = Piece(s, cut, i)
      /\ \A j \in 1..m : Piece(s, whole, k + j) = Piece(tail, sub, j)
  BY DEF KeepsPieces
<1> HIDE DEF parts, whole, tail
<1>3. \A name : name \in DOMAIN all <=>
        \E i \in 1..k + m : parts[i].kind # "lit" /\ parts[i].name = name
  <2>1. \A name : name \in DOMAIN all <=>
          \E i \in 1..Len(parts) : parts[i].kind # "lit" /\ parts[i].name = name
    BY <1>2, CapturedNames
  <2> QED
    BY <1>1, <2>1
<1>4. \A name : name \in DOMAIN inner <=>
        \E j \in 1..m : rest[j].kind # "lit" /\ rest[j].name = name
  BY CapturedNames
<1>5. \A name : name \in DOMAIN outer <=>
        \E i \in 1..k : prefix[i].kind # "lit" /\ prefix[i].name = name
  BY CapturedNames
<1>6. \A i : IsLast(parts, i) => all[parts[i].name] = Piece(s, whole, i)
  BY <1>2, CapturedIsLast
<1>7. \A j : IsLast(rest, j) => inner[rest[j].name] = Piece(tail, sub, j)
  BY CapturedIsLast
<1>8. \A i : IsLast(prefix, i) => outer[prefix[i].name] = Piece(s, cut, i)
  BY CapturedIsLast
<1> HIDE DEF all, inner, outer
<1>9. \A i \in 1..k + m : i > k => i - k \in 1..m /\ k + (i - k) = i /\ parts[i] = rest[i - k]
  <2> TAKE i \in 1..k + m
  <2> SUFFICES ASSUME i > k
               PROVE  i - k \in 1..m /\ k + (i - k) = i /\ parts[i] = rest[i - k]
    OBVIOUS
  <2>1. i - k \in 1..m /\ k + (i - k) = i
    BY <1>1
  <2> QED
    BY <1>1, <2>1
<1>10. DOMAIN all = DOMAIN inner \cup DOMAIN outer
  <2>1. ASSUME NEW name \in DOMAIN all PROVE name \in DOMAIN inner \cup DOMAIN outer
    <3>1. PICK i \in 1..k + m : parts[i].kind # "lit" /\ name = parts[i].name
      BY <1>3
    <3>2. CASE i <= k
      BY <1>1, <1>5, <3>1, <3>2
    <3>3. CASE i > k
      BY <1>4, <1>9, <3>1, <3>3
    <3> QED
      BY <1>1, <3>2, <3>3
  <2>2. DOMAIN inner \subseteq DOMAIN all
    <3>1. \A j \in 1..m : k + j \in 1..k + m
      BY <1>1
    <3> QED
      BY <1>1, <1>3, <1>4, <3>1
  <2>3. DOMAIN outer \subseteq DOMAIN all
    <3>1. \A i \in 1..k : i \in 1..k + m
      BY <1>1
    <3> QED
      BY <1>1, <1>3, <1>5, <3>1
  <2> QED
    BY <2>1, <2>2, <2>3
<1>11. ASSUME NEW name \in DOMAIN all
       PROVE  all[name] = IF name \in DOMAIN inner THEN inner[name] ELSE outer[name]
  <2>1. PICK h \in 1..k + m : parts[h].kind # "lit" /\ parts[h].name = name
    BY <1>3
  <2>2. PICK i : IsLast(parts, i) /\ parts[i].name = name
    <3>1. h \in 1..Len(parts)
      BY <1>1
    <3>2. \E i : IsLast(parts, i) /\ parts[i].name = parts[h].name
      BY <1>2, <2>1, <3>1, LastOfName
    <3> QED
      BY <2>1, <3>2
  <2>3. /\ i \in 1..k + m /\ parts[i].kind # "lit"
        /\ \A j \in 1..k + m : parts[j].kind # "lit" /\ parts[j].name = name => j <= i
    BY <1>1, <2>2 DEF IsLast
  <2>4. CASE i > k
    <3> DEFINE j == i - k
    <3>1. j \in 1..m /\ k + j = i /\ rest[j].kind # "lit" /\ rest[j].name = name
      BY <1>9, <2>2, <2>3, <2>4
    <3> HIDE DEF j
    <3>2. ASSUME NEW g \in 1..m, rest[g].kind # "lit", rest[g].name = name PROVE g <= j
      <4>1. k + g \in 1..k + m
        BY <1>1
      <4>2. k + g <= i
        BY <1>1, <2>3, <3>2, <4>1
      <4> QED
        BY <1>1, <3>1, <4>2
    <3>3. inner[name] = Piece(tail, sub, j)
      BY <1>7, <3>1, <3>2 DEF IsLast
    <3>4. name \in DOMAIN inner
      BY <1>4, <3>1
    <3> QED
      BY <1>p, <1>6, <2>2, <3>1, <3>3, <3>4
  <2>5. CASE i <= k
    <3>1. i \in 1..k /\ prefix[i].kind # "lit" /\ prefix[i].name = name
      BY <1>1, <2>2, <2>3, <2>5
    <3>2. ASSUME NEW g \in 1..k, prefix[g].kind # "lit", prefix[g].name = name PROVE g <= i
      <4>1. g \in 1..k + m
        BY <1>1
      <4> QED
        BY <1>1, <2>3, <3>2, <4>1
    <3>3. outer[name] = Piece(s, cut, i)
      BY <1>8, <3>1, <3>2 DEF IsLast
    <3>4. name \notin DOMAIN inner
      <4> SUFFICES ASSUME name \in DOMAIN inner PROVE FALSE
        OBVIOUS
      <4>1. PICK j \in 1..m : rest[j].kind # "lit" /\ rest[j].name = name
        BY <1>4
      <4>2. k + j \in 1..k + m /\ ~(k + j <= i)
        BY <1>1, <3>1
      <4> QED
        BY <1>1, <2>3, <4>1, <4>2
    <3> QED
      BY <1>p, <1>6, <2>2, <3>1, <3>3, <3>4
  <2> QED
    BY <1>1, <2>3, <2>4, <2>5
<1>12. all = Both(inner, outer)
  BY <1>f, <1>10, <1>11 DEF Both
<1> QED
  BY <1>12 DEF all, inner, outer, parts, whole, tail

\* A route that _finalize accepts is one whose parts are those of an include,
\* as _walk passes them down, and then of a pattern in it.  The scan of such a
\* route finds a match exactly where Django does, which hands what the include
\* leaves of the path to the pattern, and captures what the two capture.
THEOREM IncludeIsOneRoute ==
    ASSUME NEW prefix, IsRoute(prefix), NEW rest, IsRoute(rest), Safe(prefix \o rest),
           NEW s, IsPath(s)
    PROVE  LET scans == Scans(prefix \o rest, s)
               cuts == Matches(prefix, s, 1..Len(s) + 1)
               cut == Greediest(cuts)
               tail == After(prefix, s, cut)
               subs == Matches(rest, tail, {Len(tail) + 1})
           IN  /\ scans # {} <=> cuts # {} /\ subs # {}
               /\ \A scan \in scans :
                    Captured(prefix \o rest, s, scan) =
                        Both(Captured(rest, tail, Greediest(subs)), Captured(prefix, s, cut))
<1> DEFINE parts == prefix \o rest
           scans == Scans(parts, s)
           cuts == Matches(prefix, s, 1..Len(s) + 1)
           cut == Greediest(cuts)
           tail == After(prefix, s, cut)
           subs == Matches(rest, tail, {Len(tail) + 1})
<1>1. IsRoute(parts) /\ Safe(parts)
  BY Concatenated
<1>2. Safe(prefix) /\ Safe(rest)
  BY SafeParts
<1>3. /\ s \in Seq(Chars) /\ Len(s) \in Nat /\ Len(s) + 1 \in 1..Len(s) + 1
      /\ Len(parts) \in Nat /\ DOMAIN parts = 1..Len(parts)
      /\ Len(parts) = Len(prefix) + Len(rest)
  <2>1. s \in Seq(Chars) /\ Len(s) \in Nat /\ Len(s) + 1 \in 1..Len(s) + 1
    BY LenProperties DEF IsPath
  <2>2. Len(parts) \in Nat /\ DOMAIN parts = 1..Len(parts)
    BY <1>1, RouteParts
  <2>3. Len(parts) = Len(prefix) + Len(rest)
    BY Concatenated
  <2> QED
    BY <2>1, <2>2, <2>3
<1>4. ASSUME NEW scan
      PROVE  scan \in scans <=>
               scan \in Matches(parts, s, 1..Len(s) + 1) /\ scan[Len(parts)] = Len(s) + 1
  <2>1. scans = Matches(parts, s, {Len(s) + 1})
    BY <1>1, GreedyIsEnough
  <2>2. /\ IsRoute(parts) /\ s \in Seq(Chars) /\ Len(s) + 1 \in 1..Len(s) + 1
    BY <1>1, <1>3
  <2> HIDE DEF scans, parts
  <2>3. scan \in Matches(parts, s, {Len(s) + 1}) <=>
          scan \in Matches(parts, s, 1..Len(s) + 1) /\ scan[Len(parts)] = Len(s) + 1
    BY <2>2, EndsAt
  <2> QED
    BY <2>1, <2>3
<1>6. ASSUME cuts # {}
      PROVE  /\ cut \in cuts /\ cut[Len(prefix)] \in 1..Len(s) + 1
             /\ IsPath(tail) /\ Len(tail) = Len(s) + 1 - cut[Len(prefix)]
             /\ tail \in Seq(Chars) /\ Len(tail) \in Nat /\ Len(tail) + 1 \in 1..Len(tail) + 1
  <2>1. cut \in cuts
    BY <1>2, <1>3, <1>6, GreediestGoesFarthest
  <2>2. cut[Len(prefix)] \in 1..Len(s) + 1
    BY <1>3, <2>1, MatchPlaces
  <2>3. IsPath(tail)
    BY <2>2, RestIsLine DEF After
  <2>4. Len(tail) = Len(s) + 1 - cut[Len(prefix)]
    BY <1>3, <2>2, RestIsPath DEF After
  <2> QED
    BY <2>1, <2>2, <2>3, <2>4, LenProperties DEF IsPath
<1>s. ASSUME cuts # {}, NEW sub
      PROVE  sub \in subs <=>
               sub \in Matches(rest, tail, 1..Len(tail) + 1) /\ sub[Len(rest)] = Len(tail) + 1
  <2> HIDE DEF tail
  <2> QED
    BY <1>6, <1>s, EndsAt
<1>5. ASSUME NEW scan \in scans PROVE cuts # {} /\ subs # {}
  <2>0. scan \in Matches(parts, s, 1..Len(s) + 1) /\ scan[Len(parts)] = Len(s) + 1
    BY <1>4
  <2>1. cut = HeadOf(prefix, scan)
    BY <1>3, <2>0, GreediestIsHead
  <2>2. HeadOf(prefix, scan) \in cuts
    BY <1>3, <2>0, WholeSplits
  <2> DEFINE sub == TailOf(prefix, rest, scan)
  <2>3. sub \in Matches(rest, tail, 1..Len(tail) + 1)
    BY <1>3, <2>0, <2>1, WholeSplits
  <2>4. sub[Len(rest)] = scan[Len(parts)] + 1 - scan[Len(prefix)]
    BY <1>3, RouteParts DEF TailOf
  <2>5. cut[Len(prefix)] = scan[Len(prefix)]
    <3>1. Len(prefix) \in 0..Len(prefix)
      BY RouteParts
    <3> QED
      BY <2>1, <3>1 DEF HeadOf
  <2>6. cuts # {}
    BY <2>2
  <2> HIDE DEF cut, cuts, tail, subs, sub
  <2>7. sub[Len(rest)] = Len(tail) + 1
    <3>1. cut[Len(prefix)] \in Nat /\ Len(tail) = Len(s) + 1 - cut[Len(prefix)]
      BY <1>3, <1>6, <2>6
    <3> QED
      BY <1>3, <2>0, <2>4, <2>5, <3>1
  <2> QED
    BY <1>s, <2>3, <2>6, <2>7
<1>8. ASSUME cuts # {}, NEW sub \in subs
      PROVE  Joined(prefix, rest, cut, sub) \in scans /\ KeepsPieces(prefix, rest, s, cut, sub)
  <2> DEFINE joined == Joined(prefix, rest, cut, sub)
  <2>1. /\ cut \in cuts /\ cut[Len(prefix)] \in 1..Len(s) + 1
        /\ Len(tail) = Len(s) + 1 - cut[Len(prefix)]
    BY <1>6, <1>8
  <2>2. sub \in Matches(rest, tail, 1..Len(tail) + 1) /\ sub[Len(rest)] = Len(tail) + 1
    BY <1>s, <1>8
  <2>3. joined \in Matches(parts, s, 1..Len(s) + 1)
    BY <1>3, <2>1, <2>2, PartsJoin
  <2>4. joined[Len(prefix) + Len(rest)] = sub[Len(rest)] + cut[Len(prefix)] - 1
    BY <1>3, <2>1, <2>2, PartsJoin
  <2>5. KeepsPieces(prefix, rest, s, cut, sub)
    BY <1>3, <2>1, <2>2, PartsJoin
  <2> HIDE DEF joined, cut, tail
  <2>6. joined[Len(parts)] = Len(s) + 1
    BY <1>3, <2>1, <2>2, <2>4
  <2>7. joined \in scans
    BY <1>4, <2>3, <2>6
  <2> QED
    BY <2>5, <2>7 DEF joined
<1>9. ASSUME cuts # {}, NEW sub \in subs PROVE Greediest(subs) = sub
  <2>1. subs = Scans(rest, tail)
    BY <1>2, <1>6, <1>9, GreedyIsEnough
  <2>2. Len(rest) \in Nat /\ DOMAIN rest = 1..Len(rest) /\ Len(tail) \in Nat
    BY <1>6, <1>9, RouteParts
  <2>3. \A other \in subs : other = sub
    BY <1>9, <2>1, <2>2, OneScan
  <2> HIDE DEF subs
  <2> QED
    BY <1>9, <2>3 DEF Greediest
<1>10. ASSUME NEW scan \in scans
       PROVE  Captured(parts, s, scan) =
                Both(Captured(rest, tail, Greediest(subs)), Captured(prefix, s, cut))
  <2>1. cuts # {}
    BY <1>5, <1>10
  <2>2. PICK sub \in subs : TRUE
    BY <1>5, <1>10
  <2> DEFINE joined == Joined(prefix, rest, cut, sub)
  <2>3. joined \in scans
    BY <1>8, <2>1
  <2>4. scan = joined
    BY <1>3, <2>3, OneScan
  <2>6. KeepsPieces(prefix, rest, s, cut, sub)
    BY <1>8, <2>1
  <2>7. Captured(parts, s, joined) = Both(Captured(rest, tail, sub), Captured(prefix, s, cut))
    BY <2>6, CapturedByBoth
  <2>8. Greediest(subs) = sub
    BY <1>9, <2>1
  <2> QED
    BY <2>4, <2>7, <2>8
<1>11. scans # {} <=> cuts # {} /\ subs # {}
  BY <1>5, <1>8
<1> QED
  BY <1>10, <1>11

-----------------------------------------------------------------------------
(* The table.                                                              *)

\* A route of the table passed _finalize.
IsTable(entries) ==
    /\ Len(entries) \in Nat /\ DOMAIN entries = 1..Len(entries)
    /\ \A i \in 1..Len(entries) :
         ~entries[i].opaque =>
             IsRoute(entries[i].parts) /\ Safe(entries[i].parts)

\* What Django finds for the patterns that the entries stand for, one by one:
\* for an opaque entry it may be anything.
AreDjangos(outcomes, entries, s) ==
    /\ DOMAIN outcomes = DOMAIN entries
    /\ \A i \in DOMAIN entries :
         ~entries[i].opaque => outcomes[i] = ResolvePattern(entries[i], s)

\* The table answers with the first of Django's matches, or not at all: an
\* opaque entry hides the routes behind it.  Without an opaque entry it finds
\* whatever Django finds.
THEOREM TableIsDjangos ==
    ASSUME NEW entries, IsTable(entries),
           NEW p, p # << >>, Head(p) = "/", IsPath(Tail(p)),
           NEW outcomes, AreDjangos(outcomes, entries, Tail(p))
    PROVE  /\ Match(entries, p) # NoMatch => Match(entries, p) = FirstMatch(outcomes)
           /\ (\A i \in DOMAIN entries : ~entries[i].opaque) =>
                Match(entries, p) = FirstMatch(outcomes)
<1> DEFINE s == Tail(p)
           hits == {i \in DOMAIN entries :
                      entries[i].opaque \/ TryMatch(entries[i], s) # NoMatch}
           found == {i \in DOMAIN outcomes : outcomes[i] # NoMatch}
<1>1. \A i \in DOMAIN entries : ~entries[i].opaque => outcomes[i] = TryMatch(entries[i], s)
  BY RouteIsDjangos DEF IsTable, AreDjangos
<1>2. found \subseteq hits /\ hits \subseteq Nat
  BY <1>1 DEF AreDjangos, IsTable
<1>3. CASE hits = {}
  BY <1>2, <1>3 DEF Match, FirstMatch
<1>4. CASE hits # {}
  <2> DEFINE first == CHOOSE i \in hits : \A j \in hits : i <= j
  <2>1. first \in hits /\ \A j \in hits : first <= j
    <3>1. \E i \in hits : \A j \in hits : i <= j
      <4> HIDE DEF hits
      <4> QED
        BY <1>2, <1>4, LeastPlace
    <3> HIDE DEF hits
    <3> QED
      BY <3>1
  <2>2. Match(entries, p) =
          IF entries[first].opaque THEN NoMatch ELSE TryMatch(entries[first], s)
    BY <1>4 DEF Match
  <2> HIDE DEF first
  <2>3. CASE entries[first].opaque
    <3>1. first \in DOMAIN entries
      BY <2>1
    <3> QED
      BY <2>2, <2>3, <3>1
  <2>4. CASE ~entries[first].opaque
    <3>1. first \in DOMAIN entries /\ TryMatch(entries[first], s) # NoMatch
      BY <2>1, <2>4
    <3>2. first \in found /\ outcomes[first] = TryMatch(entries[first], s)
      BY <1>1, <2>4, <3>1 DEF AreDjangos
    <3>3. \A j \in found : first <= j
      BY <1>2, <2>1
    <3>4. (CHOOSE i \in found : \A j \in found : i <= j) = first
      <4>1. found \subseteq Nat
        BY <1>2
      <4> HIDE DEF found
      <4>2. \A i \in found : (\A j \in found : i <= j) => i = first
        BY <3>2, <3>3, <4>1
      <4> QED
        BY <3>2, <3>3, <4>2
    <3>5. FirstMatch(outcomes) = outcomes[first]
      BY <3>2, <3>4 DEF FirstMatch
    <3> QED
      BY <2>2, <2>4, <3>2, <3>5
  <2> QED
    BY <2>3, <2>4
<1> QED
  BY <1>3, <1>4

-----------------------------------------------------------------------------
(* The greediest match.                                                    *)

\* Of several matches one has the greatest place at k.
LEMMA Highest ==
    ASSUME NEW n \in Nat, NEW m \in Nat, NEW cuts, cuts \subseteq [0..n -> 1..m], cuts # {},
           NEW k \in 0..n
    PROVE  \E c \in cuts : \A d \in cuts : d[k] <= c[k]
<1> DEFINE left == {m - c[k] : c \in cuts}
<1>1. \A c \in cuts : c[k] \in 1..m
  OBVIOUS
<1>2. PICK x \in left : \A y \in left : x <= y
  <2>1. left \subseteq Nat /\ left # {}
    BY <1>1
  <2> HIDE DEF left
  <2> QED
    BY <2>1, LeastPlace
<1>3. PICK c \in cuts : x = m - c[k]
  BY <1>2
<1>4. ASSUME NEW d \in cuts PROVE d[k] <= c[k]
  <2>1. m - c[k] <= m - d[k]
    BY <1>2, <1>3
  <2>2. c[k] \in Nat /\ d[k] \in Nat
    BY <1>1
  <2> HIDE DEF left
  <2> QED
    BY <2>1, <2>2
<1> QED
  BY <1>4

\* In its first k places a cut is the same as each other one, or greedier.
AheadTo(c, cuts, k) ==
    \A other \in cuts :
        \/ \A i \in 0..k - 1 : c[i] = other[i]
        \/ \E i \in 0..k - 1 : c[i] > other[i] /\ \A j \in 0..i - 1 : c[j] = other[j]

\* There is a greediest one.
LEMMA GreediestIsOne ==
    ASSUME NEW n \in Nat, NEW m \in Nat, NEW cuts, cuts \subseteq [0..n -> 1..m], cuts # {}
    PROVE  Greediest(cuts) \in cuts
<1> DEFINE fails == {k \in 0..n + 1 : ~\E c \in cuts : AheadTo(c, cuts, k)}
<1>1. fails = {}
  <2> SUFFICES ASSUME fails # {} PROVE FALSE
    OBVIOUS
  <2>1. PICK k \in fails : \A l \in fails : k <= l
    <3>1. fails \subseteq Nat
      OBVIOUS
    <3> HIDE DEF fails
    <3> QED
      BY <3>1, LeastPlace
  <2>2. k \in 0..n + 1 /\ ~\E c \in cuts : AheadTo(c, cuts, k)
    BY <2>1
  <2>3. k # 0
    BY <2>2 DEF AheadTo
  <2>4. k - 1 \in 0..n /\ k - 1 \notin fails
    BY <2>1, <2>2, <2>3
  <2>5. PICK c \in cuts : AheadTo(c, cuts, k - 1)
    BY <2>4
  <2> DEFINE like == {d \in cuts : \A i \in 0..k - 2 : d[i] = c[i]}
  <2>6. PICK d \in like : \A e \in like : e[k - 1] <= d[k - 1]
    <3>1. like \subseteq [0..n -> 1..m] /\ c \in like
      OBVIOUS
    <3> HIDE DEF like
    <3> QED
      BY <2>4, <3>1, Highest
  <2>7. \A i \in 0..k - 2 : d[i] = c[i]
    BY <2>6
  <2>8. AheadTo(d, cuts, k)
    <3> SUFFICES ASSUME NEW other \in cuts
                 PROVE  \/ \A i \in 0..k - 1 : d[i] = other[i]
                        \/ \E i \in 0..k - 1 : d[i] > other[i] /\ \A j \in 0..i - 1 : d[j] = other[j]
      BY DEF AheadTo
    <3>1. \/ \A i \in 0..k - 2 : c[i] = other[i]
          \/ \E i \in 0..k - 2 : c[i] > other[i] /\ \A j \in 0..i - 1 : c[j] = other[j]
      <4>1. (k - 1) - 1 = k - 2
        BY <2>2
      <4> QED
        BY <2>5, <4>1 DEF AheadTo
    <3>2. CASE \A i \in 0..k - 2 : c[i] = other[i]
      <4>1. other \in like
        BY <3>2
      <4>2. other[k - 1] <= d[k - 1]
        BY <2>6, <4>1
      <4>3. other[k - 1] \in Nat /\ d[k - 1] \in Nat
        <5>1. other \in [0..n -> 1..m] /\ d \in [0..n -> 1..m]
          OBVIOUS
        <5>2. \A f \in [0..n -> 1..m] : f[k - 1] \in 1..m
          BY <2>4
        <5>3. \A x \in 1..m : x \in Nat
          OBVIOUS
        <5> HIDE DEF like
        <5> QED
          BY <5>1, <5>2, <5>3
      <4>4. \A i \in 0..k - 2 : d[i] = other[i]
        BY <2>7, <3>2
      <4>5. CASE d[k - 1] = other[k - 1]
        <5>1. ASSUME NEW i \in 0..k - 1 PROVE d[i] = other[i]
          <6>1. i # k - 1 => i \in 0..k - 2
            BY <2>2
          <6> QED
            BY <4>4, <4>5, <6>1
        <5> QED
          BY <5>1
      <4>6. CASE d[k - 1] # other[k - 1]
        <5>1. d[k - 1] > other[k - 1]
          <6>1. \A x, y \in Nat : x <= y /\ y # x => y > x
            OBVIOUS
          <6> HIDE DEF like
          <6> QED
            BY <4>2, <4>3, <4>6, <6>1
        <5>2. k - 1 \in 0..k - 1 /\ (k - 1) - 1 = k - 2
          BY <2>2, <2>4
        <5> QED
          BY <4>4, <5>1, <5>2
      <4> QED
        BY <4>5, <4>6
    <3>3. CASE \E i \in 0..k - 2 : c[i] > other[i] /\ \A j \in 0..i - 1 : c[j] = other[j]
      <4>1. PICK i \in 0..k - 2 : c[i] > other[i] /\ \A j \in 0..i - 1 : c[j] = other[j]
        BY <3>3
      <4>2. i \in 0..k - 1 /\ \A j \in 0..i - 1 : j \in 0..k - 2
        BY <2>2
      <4> QED
        BY <2>7, <4>1, <4>2
    <3> QED
      BY <3>1, <3>2, <3>3
  <2> QED
    BY <2>2, <2>6, <2>8
<1>2. PICK c \in cuts : AheadTo(c, cuts, n + 1)
  <2>1. n + 1 \in 0..n + 1
    OBVIOUS
  <2> QED
    BY <1>1, <2>1
<1>3. \A other \in cuts \ {c} : Greedier(c, other)
  <2> TAKE other \in cuts \ {c}
  <2>1. c \in [0..n -> 1..m] /\ other \in [0..n -> 1..m] /\ c # other /\ (n + 1) - 1 = n
    OBVIOUS
  <2>2. ~\A i \in 0..n : c[i] = other[i]
    BY <2>1
  <2>3. PICK i \in 0..n : c[i] > other[i] /\ \A j \in 0..i - 1 : c[j] = other[j]
    BY <1>2, <2>1, <2>2 DEF AheadTo
  <2>4. DOMAIN c = 0..n
    BY <2>1
  <2> QED
    BY <2>3, <2>4 DEF Greedier
<1> QED
  BY <1>3, Zenon DEF Greediest

\* What the greediest match leaves of a path is a path.
LEMMA LeavesPath ==
    ASSUME NEW parts, Len(parts) \in Nat, NEW s \in Seq(Chars),
           Matches(parts, s, 1..Len(s) + 1) # {}
    PROVE  LET cut == Greediest(Matches(parts, s, 1..Len(s) + 1))
           IN  /\ cut \in Matches(parts, s, 1..Len(s) + 1)
               /\ cut[Len(parts)] \in 1..Len(s) + 1
               /\ After(parts, s, cut) \in Seq(Chars)
<1> DEFINE cuts == Matches(parts, s, 1..Len(s) + 1)
           cut == Greediest(cuts)
<1>1. Len(s) \in Nat
  BY LenProperties
<1>2. ASSUME NEW c \in cuts
      PROVE  c \in [0..Len(parts) -> 1..Len(s) + 1] /\ c[Len(parts)] \in 1..Len(s) + 1
  <2>1. PICK end \in 1..Len(s) + 1 : c \in Cuts(Len(parts), end)
    BY DEF Matches
  <2>2. c \in [0..Len(parts) -> 1..end]
    BY <1>1, <2>1, CutPlaces
  <2>3. c[Len(parts)] = end
    BY <1>1, <2>1, CutPlaces
  <2> QED
    BY <1>1, <2>2, <2>3
<1>3. cut \in cuts
  <2>1. /\ cuts \subseteq [0..Len(parts) -> 1..Len(s) + 1] /\ cuts # {}
        /\ Len(s) + 1 \in Nat
    BY <1>1, <1>2
  <2> HIDE DEF cuts
  <2> QED
    BY <1>1, <2>1, GreediestIsOne
<1> HIDE DEF cuts, cut
<1>4. cut[Len(parts)] \in 1..Len(s) + 1
  BY <1>2, <1>3
<1>5. After(parts, s, cut) \in Seq(Chars)
  BY <1>4, RestIsPath DEF After
<1> QED
  BY <1>3, <1>4, <1>5 DEF cuts, cut

-----------------------------------------------------------------------------
(* Merging.                                                                *)

\* The parts that _parse_raw makes, as records.
KnownParts == {part \in Part : Known(part)}

\* Such a part is one, with its fields.
LEMMA KnownPart ==
    ASSUME NEW part \in KnownParts
    PROVE  /\ IsPart(part) /\ part \in Part /\ Known(part)
           /\ part = [kind |-> part.kind, text |-> part.text, name |-> part.name]
           /\ part.kind \in {"lit", "int", "str", "slug", "uuid", "path"}
           /\ part.text \in Seq(Chars) /\ part.name \in STRING
           /\ part.kind = "lit" => part.text # << >>
  BY DEF KnownParts, Part, Known, IsPart

\* A sequence of them is a route.
LEMMA KnownRoute ==
    ASSUME NEW parts \in Seq(KnownParts)
    PROVE  /\ IsRoute(parts) /\ Len(parts) \in Nat /\ DOMAIN parts = 1..Len(parts)
           /\ \A i \in 1..Len(parts) : parts[i] \in KnownParts
<1>1. /\ Len(parts) \in Nat /\ DOMAIN parts = 1..Len(parts)
      /\ \A i \in 1..Len(parts) : parts[i] \in KnownParts
  BY LenProperties, ElementOfSeq
<1>2. parts \in Seq(Range(parts))
  <2>1. \A i \in 1..Len(parts) : parts[i] \in Range(parts)
    BY <1>1 DEF Range
  <2> QED
    BY <1>1, <2>1
<1>3. \A i \in DOMAIN parts : IsPart(parts[i])
  BY <1>1, KnownPart
<1> QED
  BY <1>1, <1>2, <1>3 DEF IsRoute

\* A scan of a route, up to any place.
Scan(parts, s, cut) ==
    /\ cut \in [0..Len(parts) -> 1..Len(s) + 1] /\ cut[0] = 1
    /\ \A i \in 1..Len(parts) : cut[i] = Consume(parts[i], s, cut[i - 1])

\* Where a scan ends, and what it captures.
Reaches(parts, s, end, kwargs) ==
    \E cut : /\ Scan(parts, s, cut) /\ cut[Len(parts)] = end
             /\ kwargs = Captured(parts, s, cut)

\* A route matches if a scan reaches the end of the path.
LEMMA ScansReach ==
    ASSUME NEW parts, IsRoute(parts), NEW s \in Seq(Chars), NEW cut
    PROVE  cut \in Scans(parts, s) <=> Scan(parts, s, cut) /\ cut[Len(parts)] = Len(s) + 1
<1>1. /\ Len(parts) \in Nat /\ DOMAIN parts = 1..Len(parts)
      /\ Len(s) \in Nat /\ Len(s) + 1 \in Nat \ {0}
  BY RouteParts, LenProperties
<1>2. ASSUME cut \in Scans(parts, s)
      PROVE  Scan(parts, s, cut) /\ cut[Len(parts)] = Len(s) + 1
  <2>1. cut \in Cuts(Len(parts), Len(s) + 1)
    BY <1>2 DEF Scans
  <2>2. cut \in [0..Len(parts) -> 1..Len(s) + 1]
    BY <1>1, <2>1, CutPlaces
  <2>3. cut[0] = 1 /\ cut[Len(parts)] = Len(s) + 1
    BY <1>1, <2>1, CutPlaces
  <2> QED
    BY <1>1, <1>2, <2>2, <2>3 DEF Scans, Scan
<1>3. ASSUME Scan(parts, s, cut), cut[Len(parts)] = Len(s) + 1
      PROVE  cut \in Scans(parts, s)
  <2>1. cut \in Cuts(Len(parts), Len(s) + 1)
    BY <1>1, <1>3, MakesCut DEF Scan
  <2> QED
    BY <1>1, <1>3, <2>1 DEF Scans, Scan
<1> QED
  BY <1>2, <1>3

\* What is captured, by its names and the text of the last parameter of each.
LEMMA CapturedIs ==
    ASSUME NEW parts, IsRoute(parts), NEW s, NEW cut, NEW f,
           f = [name \in DOMAIN f |-> f[name]],
           \A name : name \in DOMAIN f <=>
               \E i \in 1..Len(parts) : parts[i].kind # "lit" /\ parts[i].name = name,
           \A i : IsLast(parts, i) => f[parts[i].name] = Piece(s, cut, i)
    PROVE  Captured(parts, s, cut) = f
<1> DEFINE all == Captured(parts, s, cut)
<1>1. all = [name \in DOMAIN all |-> all[name]]
  BY CapturedIsFunction
<1>2. ASSUME NEW name PROVE name \in DOMAIN all <=> name \in DOMAIN f
  BY CapturedNames
<1>3. DOMAIN all = DOMAIN f
  <2> HIDE DEF all
  <2> QED
    BY <1>2
<1>4. ASSUME NEW name \in DOMAIN all PROVE all[name] = f[name]
  <2>1. PICK i \in 1..Len(parts) : parts[i].kind # "lit" /\ parts[i].name = name
    BY <1>4, CapturedNames
  <2>2. PICK l : IsLast(parts, l) /\ parts[l].name = name
    <3>1. \E l : IsLast(parts, l) /\ parts[l].name = parts[i].name
      BY <2>1, LastOfName
    <3> QED
      BY <2>1, <3>1
  <2>3. all[parts[l].name] = Piece(s, cut, l)
    BY <2>2, CapturedIsLast
  <2> HIDE DEF all
  <2> QED
    BY <2>2, <2>3
<1> HIDE DEF all
<1>5. all = f
  BY <1>1, <1>3, <1>4
<1> QED
  BY <1>5 DEF all

\* Only the places of its parts count.
LEMMA CapturedAgrees ==
    ASSUME NEW parts, IsRoute(parts), NEW s, NEW cut, NEW other,
           \A i \in 0..Len(parts) : cut[i] = other[i]
    PROVE  Captured(parts, s, cut) = Captured(parts, s, other)
<1> DEFINE f == Captured(parts, s, other)
<1>1. f = [name \in DOMAIN f |-> f[name]]
  BY CapturedIsFunction
<1>2. \A name : name \in DOMAIN f <=>
               \E i \in 1..Len(parts) : parts[i].kind # "lit" /\ parts[i].name = name
  BY CapturedNames
<1>3. ASSUME NEW i, IsLast(parts, i) PROVE f[parts[i].name] = Piece(s, cut, i)
  <2>1. f[parts[i].name] = Piece(s, other, i)
    BY <1>3, CapturedIsLast
  <2>2. i \in 0..Len(parts) /\ i - 1 \in 0..Len(parts)
    BY <1>3, RouteParts DEF IsLast
  <2>3. Piece(s, other, i) = Piece(s, cut, i)
    BY <2>2 DEF Piece
  <2> HIDE DEF f
  <2> QED
    BY <2>1, <2>3
<1> HIDE DEF f
<1>4. Captured(parts, s, cut) = f
  BY <1>1, <1>2, <1>3, CapturedIs
<1> QED
  BY <1>4 DEF f

\* A route and one part more.
LEMMA Appended ==
    ASSUME NEW parts \in Seq(KnownParts), NEW part \in KnownParts
    PROVE  /\ Append(parts, part) \in Seq(KnownParts)
           /\ Len(Append(parts, part)) = Len(parts) + 1
           /\ \A i \in 1..Len(parts) : Append(parts, part)[i] = parts[i]
           /\ Append(parts, part)[Len(parts) + 1] = part
<1>1. /\ Append(parts, part) \in Seq(KnownParts)
      /\ Len(Append(parts, part)) = Len(parts) + 1
      /\ \A i \in 1..Len(parts) : Append(parts, part)[i] = parts[i]
      /\ Append(parts, part)[Len(parts) + 1] = part
  BY AppendProperties
<1> QED
  BY <1>1

\* A literal captures nothing.
LEMMA LiteralCaptures ==
    ASSUME NEW parts \in Seq(KnownParts), NEW part \in KnownParts, part.kind = "lit",
           NEW s, NEW cut
    PROVE  Captured(Append(parts, part), s, cut) = Captured(parts, s, cut)
<1> DEFINE f == Captured(parts, s, cut)
           whole == Append(parts, part)
           n == Len(parts)
<1>r. IsRoute(parts) /\ n \in Nat
  BY KnownRoute
<1>a. /\ whole \in Seq(KnownParts) /\ Len(whole) = n + 1
      /\ (\A i \in 1..n : whole[i] = parts[i]) /\ whole[n + 1] = part
  BY Appended
<1>w. IsRoute(whole)
  <2> HIDE DEF whole
  <2> QED
    BY <1>a, KnownRoute
<1> HIDE DEF whole
<1>i. \A i \in 1..n + 1 : i \in 1..n \/ i = n + 1
  BY <1>r
<1>1. f = [name \in DOMAIN f |-> f[name]]
  BY CapturedIsFunction
<1>2. ASSUME NEW name
      PROVE  name \in DOMAIN f <=>
               \E i \in 1..Len(whole) : whole[i].kind # "lit" /\ whole[i].name = name
  <2>1. name \in DOMAIN f <=> \E i \in 1..n : parts[i].kind # "lit" /\ parts[i].name = name
    BY <1>r, CapturedNames
  <2>2. \A i \in 1..n : i \in 1..n + 1
    BY <1>r
  <2> HIDE DEF f
  <2> QED
    BY <1>a, <1>i, <2>1, <2>2
<1>3. ASSUME NEW i, IsLast(whole, i) PROVE f[whole[i].name] = Piece(s, cut, i)
  <2>1. i \in 1..n /\ whole[i] = parts[i]
    BY <1>a, <1>i, <1>3 DEF IsLast
  <2>2. IsLast(parts, i)
    <3>1. \A j \in 1..n : j \in 1..n + 1 /\ whole[j] = parts[j]
      BY <1>r, <1>a
    <3> QED
      BY <1>a, <1>3, <2>1, <3>1 DEF IsLast
  <2>3. f[parts[i].name] = Piece(s, cut, i)
    BY <1>r, <2>2, CapturedIsLast
  <2> HIDE DEF f
  <2> QED
    BY <2>1, <2>3
<1> HIDE DEF f
<1>4. Captured(whole, s, cut) = f
  BY <1>w, <1>1, <1>2, <1>3, CapturedIs
<1> QED
  BY <1>4 DEF f, whole

\* A parameter captures its text, and hides an earlier one of its name.
LEMMA ParameterCaptures ==
    ASSUME NEW parts \in Seq(KnownParts), NEW part \in KnownParts, part.kind # "lit",
           NEW s, NEW cut
    PROVE  Captured(Append(parts, part), s, cut) =
             Both([name \in {part.name} |-> Piece(s, cut, Len(parts) + 1)],
                  Captured(parts, s, cut))
<1> DEFINE g == Captured(parts, s, cut)
           n == Len(parts)
           one == [name \in {part.name} |-> Piece(s, cut, n + 1)]
           f == Both(one, g)
           whole == Append(parts, part)
<1>r. IsRoute(parts) /\ n \in Nat
  BY KnownRoute
<1>a. /\ whole \in Seq(KnownParts) /\ Len(whole) = n + 1
      /\ (\A i \in 1..n : whole[i] = parts[i]) /\ whole[n + 1] = part
  BY Appended
<1>w. IsRoute(whole)
  <2> HIDE DEF whole
  <2> QED
    BY <1>a, KnownRoute
<1> HIDE DEF whole
<1>i. (\A i \in 1..n + 1 : i \in 1..n \/ i = n + 1) /\ n + 1 \in 1..n + 1
      /\ (\A i \in 1..n : i \in 1..n + 1 /\ ~(n + 1 <= i))
  BY <1>r
<1>g. \A name : name \in DOMAIN g <=>
               \E i \in 1..n : parts[i].kind # "lit" /\ parts[i].name = name
  BY <1>r, CapturedNames
<1>l. \A i : IsLast(parts, i) => g[parts[i].name] = Piece(s, cut, i)
  BY <1>r, CapturedIsLast
<1> HIDE DEF g
<1>f. /\ f = [name \in DOMAIN f |-> f[name]]
      /\ DOMAIN f = {part.name} \cup DOMAIN g
      /\ f[part.name] = Piece(s, cut, n + 1)
      /\ \A name \in DOMAIN g : name # part.name => f[name] = g[name]
  BY DEF Both
<1> HIDE DEF f
<1>2. ASSUME NEW name
      PROVE  name \in DOMAIN f <=>
               \E i \in 1..Len(whole) : whole[i].kind # "lit" /\ whole[i].name = name
  BY <1>a, <1>i, <1>g, <1>f
<1>3. ASSUME NEW i, IsLast(whole, i) PROVE f[whole[i].name] = Piece(s, cut, i)
  <2>1. CASE i = n + 1
    BY <1>a, <1>f, <2>1
  <2>2. CASE i # n + 1
    <3>1. i \in 1..n /\ whole[i] = parts[i] /\ parts[i].kind # "lit"
      BY <1>a, <1>i, <1>3, <2>2 DEF IsLast
    <3>2. parts[i].name # part.name
      BY <1>a, <1>i, <1>3, <3>1 DEF IsLast
    <3>3. IsLast(parts, i)
      BY <1>a, <1>i, <1>3, <3>1 DEF IsLast
    <3>4. parts[i].name \in DOMAIN g
      BY <1>g, <3>1
    <3> QED
      BY <1>l, <1>f, <3>1, <3>2, <3>3, <3>4
  <2> QED
    BY <2>1, <2>2
<1>4. Captured(whole, s, cut) = f
  BY <1>w, <1>f, <1>2, <1>3, CapturedIs
<1> QED
  BY <1>4 DEF f, whole, g

\* What one part more adds to what is captured.
Adds(part, s, at, end, outer) ==
    IF part.kind = "lit" THEN outer
    ELSE Both([name \in {part.name} |-> SubSeq(s, at, end - 1)], outer)

\* A scan goes on from where a shorter one ended.
GoesOn(parts, part, s, at, end, outer, kwargs) ==
    /\ Reaches(parts, s, at, outer)
    /\ end \in 1..Len(s) + 1 /\ end = Consume(part, s, at)
    /\ kwargs = Adds(part, s, at, end, outer)

\* A scan of a route and one part more.
LEMMA ReachesOn ==
    ASSUME NEW parts \in Seq(KnownParts), NEW part \in KnownParts, NEW s \in Seq(Chars),
           NEW end, NEW kwargs
    PROVE  Reaches(Append(parts, part), s, end, kwargs) <=>
             \E at, outer : GoesOn(parts, part, s, at, end, outer, kwargs)
<1> DEFINE n == Len(parts)
           whole == Append(parts, part)
<1>1. n \in Nat /\ IsRoute(parts) /\ Len(s) \in Nat
  BY KnownRoute, LenProperties
<1>2. /\ Len(whole) = n + 1
      /\ (\A i \in 1..n : whole[i] = parts[i]) /\ whole[n + 1] = part
  BY Appended
<1>3. ASSUME NEW cut
      PROVE  Captured(whole, s, cut) =
               Adds(part, s, cut[n], cut[n + 1], Captured(parts, s, cut))
  <2>1. CASE part.kind = "lit"
    BY <2>1, LiteralCaptures DEF Adds
  <2>2. CASE part.kind # "lit"
    <3>1. Piece(s, cut, n + 1) = SubSeq(s, cut[n], cut[n + 1] - 1)
      <4>1. (n + 1) - 1 = n
        BY <1>1
      <4> QED
        BY <4>1 DEF Piece
    <3>2. Captured(whole, s, cut) =
            Both([name \in {part.name} |-> Piece(s, cut, n + 1)], Captured(parts, s, cut))
      BY <2>2, ParameterCaptures
    <3> HIDE DEF whole
    <3> QED
      BY <2>2, <3>1, <3>2 DEF Adds
  <2> QED
    BY <2>1, <2>2
<1> HIDE DEF whole
<1>4. ASSUME Reaches(whole, s, end, kwargs)
      PROVE  \E at, outer : GoesOn(parts, part, s, at, end, outer, kwargs)
  <2>1. PICK cut : Scan(whole, s, cut) /\ cut[n + 1] = end /\ kwargs = Captured(whole, s, cut)
    BY <1>2, <1>4 DEF Reaches
  <2>2. /\ cut \in [0..n + 1 -> 1..Len(s) + 1] /\ cut[0] = 1
        /\ \A i \in 1..n + 1 : cut[i] = Consume(whole[i], s, cut[i - 1])
    BY <1>2, <2>1 DEF Scan
  <2> DEFINE c == [i \in 0..n |-> cut[i]]
  <2>3. c \in [0..n -> 1..Len(s) + 1] /\ c[0] = 1 /\ c[n] = cut[n]
    BY <1>1, <2>2
  <2>4. \A i \in 0..n : c[i] = cut[i]
    OBVIOUS
  <2> HIDE DEF c
  <2>5. ASSUME NEW i \in 1..n PROVE c[i] = Consume(parts[i], s, c[i - 1])
    <3>1. i \in 1..n + 1 /\ i \in 0..n /\ i - 1 \in 0..n
      BY <1>1
    <3> QED
      BY <1>2, <2>2, <2>4, <3>1
  <2>6. Scan(parts, s, c)
    BY <2>3, <2>5 DEF Scan
  <2>7. Captured(parts, s, cut) = Captured(parts, s, c)
    BY <1>1, <2>4, CapturedAgrees
  <2>8. Reaches(parts, s, cut[n], Captured(parts, s, c))
    BY <2>3, <2>6 DEF Reaches
  <2>9. end \in 1..Len(s) + 1 /\ end = Consume(part, s, cut[n])
    <3>1. n + 1 \in 1..n + 1 /\ n + 1 \in 0..n + 1 /\ (n + 1) - 1 = n
      BY <1>1
    <3> QED
      BY <1>2, <2>1, <2>2, <3>1
  <2>10. kwargs = Adds(part, s, cut[n], end, Captured(parts, s, c))
    BY <1>3, <2>1, <2>7
  <2> QED
    BY <2>8, <2>9, <2>10 DEF GoesOn
<1>5. ASSUME NEW at, NEW outer, GoesOn(parts, part, s, at, end, outer, kwargs)
      PROVE  Reaches(whole, s, end, kwargs)
  <2>1. PICK c : Scan(parts, s, c) /\ c[n] = at /\ outer = Captured(parts, s, c)
    BY <1>5 DEF GoesOn, Reaches
  <2>2. /\ c \in [0..n -> 1..Len(s) + 1] /\ c[0] = 1
        /\ \A i \in 1..n : c[i] = Consume(parts[i], s, c[i - 1])
    BY <2>1 DEF Scan
  <2>3. end \in 1..Len(s) + 1 /\ end = Consume(part, s, at)
        /\ kwargs = Adds(part, s, at, end, outer)
    BY <1>5 DEF GoesOn
  <2> DEFINE cut == [i \in 0..n + 1 |-> IF i = n + 1 THEN end ELSE c[i]]
  <2>4. cut[n + 1] = end /\ cut \in [0..n + 1 -> 1..Len(s) + 1]
    <3>1. \A i \in 0..n + 1 : i # n + 1 => i \in 0..n
      BY <1>1
    <3>2. n + 1 \in 0..n + 1
      BY <1>1
    <3> QED
      BY <2>2, <2>3, <3>1, <3>2
  <2>5. \A i \in 0..n : cut[i] = c[i]
    BY <1>1
  <2> HIDE DEF cut
  <2>6. cut[0] = 1 /\ cut[n] = at
    BY <1>1, <2>1, <2>2, <2>5
  <2>7. ASSUME NEW i \in 1..n + 1 PROVE cut[i] = Consume(whole[i], s, cut[i - 1])
    <3>1. CASE i = n + 1
      <4>1. (n + 1) - 1 = n
        BY <1>1
      <4> QED
        BY <1>2, <2>3, <2>4, <2>6, <3>1, <4>1
    <3>2. CASE i # n + 1
      <4>1. i \in 1..n /\ i \in 0..n /\ i - 1 \in 0..n
        BY <1>1, <3>2
      <4> QED
        BY <1>2, <2>2, <2>5, <4>1
    <3> QED
      BY <3>1, <3>2
  <2>8. Scan(whole, s, cut)
    BY <1>2, <2>4, <2>6, <2>7 DEF Scan
  <2>9. Captured(parts, s, cut) = Captured(parts, s, c)
    BY <1>1, <2>5, CapturedAgrees
  <2>10. kwargs = Captured(whole, s, cut)
    BY <1>3, <2>1, <2>3, <2>4, <2>6, <2>9
  <2> QED
    BY <1>2, <2>4, <2>8, <2>10 DEF Reaches
<1> QED
  BY <1>4, <1>5 DEF whole

\* A literal is matched where its text is.
LEMMA LiteralAt ==
    ASSUME NEW part, part.kind = "lit", part.text \in Seq(Chars), part.text # << >>,
           NEW s \in Seq(Chars), NEW cur \in 1..Len(s) + 1, NEW next \in 1..Len(s) + 1
    PROVE  next = Consume(part, s, cur) <=>
             /\ next = cur + Len(part.text)
             /\ \A k \in 1..Len(part.text) : s[cur + k - 1] = part.text[k]
<1> DEFINE text == part.text
           rest == SubSeq(s, cur, Len(s))
<1>1. Len(s) \in Nat /\ Len(text) \in Nat \ {0}
  BY LenProperties, EmptySeq
<1>2. /\ rest \in Seq(Chars) /\ Len(rest) = Len(s) + 1 - cur
      /\ \A i \in 1..Len(s) + 1 - cur : rest[i] = s[cur + i - 1]
  BY RestIsPath
<1>t. text \in Seq(Chars)
  OBVIOUS
<1> HIDE DEF rest
<1>3. IsPrefix(text, rest) <=>
        Len(text) <= Len(rest) /\ \A k \in 1..Len(text) : text[k] = rest[k]
  <2>1. text \in Seq(Chars) /\ rest \in Seq(Chars)
    BY <1>t, <1>2
  <2> HIDE DEF text
  <2> QED
    BY <2>1, PrefixAgrees
<1>4. Consume(part, s, cur) = IF IsPrefix(text, rest) THEN cur + Len(text) ELSE 0
  BY DEF Consume, rest
<1> HIDE DEF text
<1>5. ASSUME next = Consume(part, s, cur)
      PROVE  next = cur + Len(text) /\ \A k \in 1..Len(text) : s[cur + k - 1] = text[k]
  <2>1. IsPrefix(text, rest) /\ next = cur + Len(text)
    BY <1>4, <1>5
  <2>2. ASSUME NEW k \in 1..Len(text) PROVE s[cur + k - 1] = text[k]
    <3>1. k \in 1..Len(s) + 1 - cur
      BY <1>1, <2>1
    <3> QED
      BY <1>2, <1>3, <2>1, <3>1
  <2> QED
    BY <2>1, <2>2
<1>6. ASSUME next = cur + Len(text), \A k \in 1..Len(text) : s[cur + k - 1] = text[k]
      PROVE  next = Consume(part, s, cur)
  <2>1. Len(text) <= Len(rest)
    BY <1>1, <1>2, <1>6
  <2>2. ASSUME NEW k \in 1..Len(text) PROVE text[k] = rest[k]
    <3>1. k \in 1..Len(s) + 1 - cur
      BY <1>1, <1>2, <2>1
    <3> QED
      BY <1>2, <1>6, <3>1
  <2> QED
    BY <1>3, <1>4, <1>6, <2>1, <2>2
<1> QED
  BY <1>5, <1>6 DEF text

\* Two literals, one after the other.
Glued(first, part) == [part EXCEPT !.text = first.text \o @]

\* Their text begins as that of the first.
LEMMA GluedText ==
    ASSUME NEW a \in Seq(Chars), a # << >>, NEW b \in Seq(Chars)
    PROVE  a \o b \in Seq(Chars) /\ a \o b # << >> /\ Head(a \o b) = Head(a)
<1> DEFINE text == a \o b
<1>1. /\ text \in Seq(Chars) /\ Len(text) = Len(a) + Len(b)
      /\ \A i \in 1..Len(a) + Len(b) : text[i] = IF i <= Len(a) THEN a[i] ELSE b[i - Len(a)]
  BY ConcatProperties
<1>2. Len(a) \in Nat \ {0} /\ Len(b) \in Nat
  BY EmptySeq, LenProperties
<1> HIDE DEF text
<1>3. text # << >>
  <2>1. Len(text) # 0
    BY <1>1, <1>2
  <2> QED
    BY <1>1, <2>1, EmptySeq
<1>4. text[1] = a[1]
  <2>1. 1 \in 1..Len(a) + Len(b) /\ 1 <= Len(a)
    BY <1>2
  <2> QED
    BY <1>1, <2>1
<1>5. Head(text) = text[1] /\ Head(a) = a[1]
  BY <1>1, <1>3, HeadTailProperties
<1> QED
  BY <1>1, <1>3, <1>4, <1>5 DEF text

\* The two as one is a literal.
LEMMA GluedPart ==
    ASSUME NEW first \in KnownParts, first.kind = "lit",
           NEW part \in KnownParts, part.kind = "lit"
    PROVE  /\ Glued(first, part) \in KnownParts
           /\ Glued(first, part).kind = "lit"
           /\ Glued(first, part).text = first.text \o part.text
           /\ Glued(first, part).text # << >>
           /\ Head(Glued(first, part).text) = Head(first.text)
<1> DEFINE text == first.text \o part.text
<1>1. /\ first.text \in Seq(Chars) /\ first.text # << >> /\ part.text \in Seq(Chars)
      /\ part = [kind |-> part.kind, text |-> part.text, name |-> part.name]
      /\ part.name \in STRING
  BY KnownPart
<1>2. text \in Seq(Chars) /\ text # << >> /\ Head(text) = Head(first.text)
  BY <1>1, GluedText
<1>3. Glued(first, part) = [part EXCEPT !.text = text]
  BY DEF Glued
<1> HIDE DEF text
<1>4. \A k, x, n : [[kind |-> k, text |-> x, name |-> n] EXCEPT !.text = text]
                     = [kind |-> k, text |-> text, name |-> n]
  OBVIOUS
<1>5. Glued(first, part) = [kind |-> "lit", text |-> text, name |-> part.name]
  BY <1>1, <1>3, <1>4
<1>6. Glued(first, part) \in KnownParts
  BY <1>1, <1>2, <1>5 DEF KnownParts, Part, Known
<1>7. Glued(first, part).kind = "lit" /\ Glued(first, part).text = text
  BY <1>5
<1> QED
  BY <1>2, <1>6, <1>7 DEF text

\* It is matched where the two are, one after the other.
LEMMA GluedAt ==
    ASSUME NEW first \in KnownParts, first.kind = "lit",
           NEW part \in KnownParts, part.kind = "lit",
           NEW s \in Seq(Chars), NEW cur \in 1..Len(s) + 1, NEW next \in 1..Len(s) + 1
    PROVE  next = Consume(Glued(first, part), s, cur) <=>
             \E mid \in 1..Len(s) + 1 : mid = Consume(first, s, cur) /\ next = Consume(part, s, mid)
<1> DEFINE a == first.text
           b == part.text
           text == a \o b
           m == Len(a)
           n == Len(b)
<1>1. /\ a \in Seq(Chars) /\ a # << >> /\ b \in Seq(Chars) /\ b # << >>
      /\ Len(s) \in Nat
  BY KnownPart, LenProperties
<1>2. /\ text \in Seq(Chars) /\ Len(text) = m + n
      /\ \A i \in 1..m + n : text[i] = IF i <= m THEN a[i] ELSE b[i - m]
  BY <1>1, ConcatProperties
<1>3. m \in Nat \ {0} /\ n \in Nat \ {0}
  BY <1>1, EmptySeq
<1>4. Glued(first, part).kind = "lit" /\ Glued(first, part).text = text /\ text # << >>
  BY GluedPart
<1>5. next = Consume(Glued(first, part), s, cur) <=>
        next = cur + (m + n) /\ \A k \in 1..m + n : s[cur + k - 1] = text[k]
  <2>1. next = Consume(Glued(first, part), s, cur) <=>
          /\ next = cur + Len(Glued(first, part).text)
          /\ \A k \in 1..Len(Glued(first, part).text) :
               s[cur + k - 1] = Glued(first, part).text[k]
    BY <1>2, <1>4, LiteralAt
  <2> HIDE DEF text
  <2> QED
    BY <1>2, <1>4, <2>1
<1>6. ASSUME NEW mid \in 1..Len(s) + 1
      PROVE  mid = Consume(first, s, cur) <=>
               mid = cur + m /\ \A k \in 1..m : s[cur + k - 1] = a[k]
  BY <1>1, LiteralAt
<1>7. ASSUME NEW mid \in 1..Len(s) + 1
      PROVE  next = Consume(part, s, mid) <=>
               next = mid + n /\ \A k \in 1..n : s[mid + k - 1] = b[k]
  BY <1>1, LiteralAt
<1> HIDE DEF a, b, text, m, n
<1>8. ASSUME next = cur + (m + n), \A k \in 1..m + n : s[cur + k - 1] = text[k]
      PROVE  \E mid \in 1..Len(s) + 1 : mid = Consume(first, s, cur) /\ next = Consume(part, s, mid)
  <2>1. cur + m \in 1..Len(s) + 1
    BY <1>1, <1>3, <1>8
  <2>2. \A k \in 1..m : k \in 1..m + n /\ k <= m
    BY <1>3
  <2>3. \A k \in 1..m : s[cur + k - 1] = a[k]
    BY <1>2, <1>8, <2>2
  <2>4. ASSUME NEW k \in 1..n PROVE s[(cur + m) + k - 1] = b[k]
    <3>1. m + k \in 1..m + n /\ ~(m + k <= m) /\ (m + k) - m = k
      BY <1>3
    <3>2. cur + (m + k) - 1 = (cur + m) + k - 1
      BY <1>1, <1>3
    <3> QED
      BY <1>2, <1>8, <3>1, <3>2
  <2>5. next = (cur + m) + n
    BY <1>1, <1>3, <1>8
  <2> QED
    BY <1>6, <1>7, <2>1, <2>3, <2>4, <2>5
<1>9. ASSUME NEW mid \in 1..Len(s) + 1, mid = Consume(first, s, cur), next = Consume(part, s, mid)
      PROVE  next = cur + (m + n) /\ \A k \in 1..m + n : s[cur + k - 1] = text[k]
  <2>1. mid = cur + m /\ \A k \in 1..m : s[cur + k - 1] = a[k]
    BY <1>6, <1>9
  <2>2. next = mid + n /\ \A k \in 1..n : s[mid + k - 1] = b[k]
    BY <1>7, <1>9
  <2>3. ASSUME NEW k \in 1..m + n PROVE s[cur + k - 1] = text[k]
    <3>1. CASE k <= m
      <4>1. k \in 1..m
        BY <1>3, <3>1
      <4> QED
        BY <1>2, <2>1, <3>1, <4>1
    <3>2. CASE ~(k <= m)
      <4>1. k - m \in 1..n /\ mid + (k - m) - 1 = cur + k - 1
        BY <1>1, <1>3, <2>1, <3>2
      <4> QED
        BY <1>2, <2>2, <3>2, <4>1
    <3> QED
      BY <3>1, <3>2
  <2>4. next = cur + (m + n)
    BY <1>1, <1>3, <2>1, <2>2
  <2> QED
    BY <2>3, <2>4
<1> QED
  BY <1>5, <1>8, <1>9

\* A scan ends at a place of the path.
LEMMA ReachesPlace ==
    ASSUME NEW parts \in Seq(KnownParts), NEW s \in Seq(Chars), NEW end, NEW kwargs,
           Reaches(parts, s, end, kwargs)
    PROVE  end \in 1..Len(s) + 1
  BY KnownRoute DEF Reaches, Scan

\* A scan of a route and a literal more.
LEMMA LiteralReaches ==
    ASSUME NEW parts \in Seq(KnownParts), NEW part \in KnownParts, part.kind = "lit",
           NEW s \in Seq(Chars), NEW end, NEW kwargs
    PROVE  Reaches(Append(parts, part), s, end, kwargs) <=>
             \E at \in 1..Len(s) + 1 :
               /\ Reaches(parts, s, at, kwargs)
               /\ end \in 1..Len(s) + 1 /\ end = Consume(part, s, at)
<1>1. Reaches(Append(parts, part), s, end, kwargs) <=>
        \E at, outer : GoesOn(parts, part, s, at, end, outer, kwargs)
  BY ReachesOn
<1>2. ASSUME NEW at, NEW outer
      PROVE  GoesOn(parts, part, s, at, end, outer, kwargs) <=>
               /\ Reaches(parts, s, at, outer) /\ kwargs = outer
               /\ end \in 1..Len(s) + 1 /\ end = Consume(part, s, at)
  BY DEF GoesOn, Adds
<1>3. \A at : Reaches(parts, s, at, kwargs) => at \in 1..Len(s) + 1
  BY ReachesPlace
<1> QED
  BY <1>1, <1>2, <1>3

\* What may follow a part in a route that _finalize accepts.
Follows(prev, part) ==
    prev.kind # "lit" =>
        /\ prev.kind # "path"
        /\ part.kind = "lit"
        /\ prev.kind = "uuid" \/ Head(part.text) \notin Charset(prev.kind)

\* Whether one part more is accepted.
LEMMA SafeOn ==
    ASSUME NEW parts \in Seq(KnownParts), NEW part \in KnownParts
    PROVE  Safe(Append(parts, part)) <=>
             Safe(parts) /\ (Len(parts) # 0 => Follows(parts[Len(parts)], part))
<1> DEFINE n == Len(parts)
           whole == Append(parts, part)
<1>1. n \in Nat
  BY KnownRoute
<1>2. /\ Len(whole) = n + 1
      /\ (\A i \in 1..n : whole[i] = parts[i]) /\ whole[n + 1] = part
  BY Appended
<1> HIDE DEF whole
<1>3. Safe(whole) <=> \A i \in 1..n : Follows(whole[i], whole[i + 1])
  <2>1. \A i \in 1..n + 1 : i < n + 1 <=> i \in 1..n
    BY <1>1
  <2>2. \A i \in 1..n : i \in 1..n + 1
    BY <1>1
  <2> QED
    BY <1>2, <2>1, <2>2 DEF Safe, Follows
<1>4. Safe(parts) <=> \A i \in 1..n - 1 : Follows(parts[i], parts[i + 1])
  <2>1. \A i \in 1..n : i < n <=> i \in 1..n - 1
    BY <1>1
  <2>2. \A i \in 1..n - 1 : i \in 1..n
    BY <1>1
  <2> QED
    BY <2>1, <2>2 DEF Safe, Follows
<1>5. \A i \in 1..n - 1 : /\ i \in 1..n /\ whole[i] = parts[i]
                          /\ whole[i + 1] = parts[i + 1]
  BY <1>1, <1>2
<1>6. n # 0 => n \in 1..n /\ whole[n] = parts[n] /\ whole[n + 1] = part
  BY <1>1, <1>2
<1>7. \A i \in 1..n : (i = n /\ n # 0) \/ i \in 1..n - 1
  BY <1>1
<1>8. (\A i \in 1..n : Follows(whole[i], whole[i + 1])) <=>
        /\ \A i \in 1..n - 1 : Follows(parts[i], parts[i + 1])
        /\ n # 0 => Follows(parts[n], part)
  BY <1>5, <1>6, <1>7
<1> QED
  BY <1>3, <1>4, <1>8 DEF whole

\* Two routes that nothing can tell apart, but for where a literal begins.
Alike(a, b) ==
    /\ a \in Seq(KnownParts) /\ b \in Seq(KnownParts)
    /\ Len(a) = 0 <=> Len(b) = 0
    /\ Len(a) # 0 => \/ a[Len(a)].kind = "lit" /\ b[Len(b)].kind = "lit"
                     \/ a[Len(a)] = b[Len(b)]
    /\ Safe(a) <=> Safe(b)
    /\ \A s \in Seq(Chars) : \A end, kwargs :
         Reaches(a, s, end, kwargs) <=> Reaches(b, s, end, kwargs)

\* A part more, in both.
LEMMA AlikeOn ==
    ASSUME NEW a, NEW b, Alike(a, b), NEW part \in KnownParts
    PROVE  Alike(Append(a, part), Append(b, part))
<1>1. a \in Seq(KnownParts) /\ b \in Seq(KnownParts)
  BY DEF Alike
<1>2. Len(a) \in Nat /\ Len(b) \in Nat
  BY <1>1, KnownRoute
<1>3. /\ Append(a, part) \in Seq(KnownParts) /\ Len(Append(a, part)) = Len(a) + 1
      /\ Append(a, part)[Len(a) + 1] = part
  BY <1>1, Appended
<1>4. /\ Append(b, part) \in Seq(KnownParts) /\ Len(Append(b, part)) = Len(b) + 1
      /\ Append(b, part)[Len(b) + 1] = part
  BY <1>1, Appended
<1>5. Safe(Append(a, part)) <=> Safe(Append(b, part))
  <2>1. Safe(Append(a, part)) <=>
          Safe(a) /\ (Len(a) # 0 => Follows(a[Len(a)], part))
    BY <1>1, SafeOn
  <2>2. Safe(Append(b, part)) <=>
          Safe(b) /\ (Len(b) # 0 => Follows(b[Len(b)], part))
    BY <1>1, SafeOn
  <2>3. Len(a) # 0 => (Follows(a[Len(a)], part) <=> Follows(b[Len(b)], part))
    BY DEF Alike, Follows
  <2> QED
    BY <2>1, <2>2, <2>3 DEF Alike
<1>6. ASSUME NEW s \in Seq(Chars), NEW end, NEW kwargs
      PROVE  Reaches(Append(a, part), s, end, kwargs) <=> Reaches(Append(b, part), s, end, kwargs)
  <2>1. Reaches(Append(a, part), s, end, kwargs) <=>
          \E at, outer : GoesOn(a, part, s, at, end, outer, kwargs)
    BY <1>1, ReachesOn
  <2>2. Reaches(Append(b, part), s, end, kwargs) <=>
          \E at, outer : GoesOn(b, part, s, at, end, outer, kwargs)
    BY <1>1, ReachesOn
  <2>3. \A at, outer : GoesOn(a, part, s, at, end, outer, kwargs) <=>
                       GoesOn(b, part, s, at, end, outer, kwargs)
    BY DEF Alike, GoesOn
  <2> QED
    BY <2>1, <2>2, <2>3
<1>7. Len(Append(a, part)) # 0 /\ Len(Append(b, part)) # 0
  BY <1>2, <1>3, <1>4
<1> QED
  BY <1>3, <1>4, <1>5, <1>6, <1>7 DEF Alike

\* A literal more, glued to the last one of the second.
LEMMA AlikeGlued ==
    ASSUME NEW a, NEW rest \in Seq(KnownParts), NEW last \in KnownParts, last.kind = "lit",
           Alike(a, Append(rest, last)), NEW part \in KnownParts, part.kind = "lit"
    PROVE  Alike(Append(a, part), Append(rest, Glued(last, part)))
<1> DEFINE b == Append(rest, last)
           glued == Glued(last, part)
           c == Append(rest, glued)
<1>1. a \in Seq(KnownParts) /\ Len(a) \in Nat /\ Len(rest) \in Nat
  BY KnownRoute DEF Alike
<1>2. b \in Seq(KnownParts) /\ Len(b) = Len(rest) + 1 /\ b[Len(rest) + 1] = last
  BY Appended
<1>3. /\ glued \in KnownParts /\ glued.kind = "lit"
      /\ Head(glued.text) = Head(last.text)
  BY GluedPart
<1>ab. Alike(a, b)
  OBVIOUS
<1>p. /\ Append(a, part) \in Seq(KnownParts) /\ Len(Append(a, part)) = Len(a) + 1
      /\ Append(a, part)[Len(a) + 1] = part
  BY <1>1, Appended
<1>at. \A s \in Seq(Chars) : \A cur, next \in 1..Len(s) + 1 :
         next = Consume(glued, s, cur) <=>
           \E mid \in 1..Len(s) + 1 : mid = Consume(last, s, cur) /\ next = Consume(part, s, mid)
  BY GluedAt
<1> HIDE DEF glued
<1>c. c \in Seq(KnownParts) /\ Len(c) = Len(rest) + 1 /\ c[Len(rest) + 1] = glued
  BY <1>3, Appended
<1>4. Len(a) # 0 /\ a[Len(a)].kind = "lit"
  <2> HIDE DEF b
  <2> QED
    BY <1>1, <1>2, <1>ab DEF Alike
<1>5. Safe(Append(a, part)) <=> Safe(c)
  <2>1. Safe(Append(a, part)) <=> Safe(a)
    <3>1. Safe(Append(a, part)) <=> Safe(a) /\ (Len(a) # 0 => Follows(a[Len(a)], part))
      BY <1>1, SafeOn
    <3> QED
      BY <1>4, <3>1 DEF Follows
  <2>2. Safe(a) <=> Safe(b)
    BY <1>ab DEF Alike
  <2>3. Safe(b) <=> Safe(rest) /\ (Len(rest) # 0 => Follows(rest[Len(rest)], last))
    BY SafeOn
  <2>4. Safe(c) <=> Safe(rest) /\ (Len(rest) # 0 => Follows(rest[Len(rest)], glued))
    BY <1>3, SafeOn
  <2>5. Follows(rest[Len(rest)], last) <=> Follows(rest[Len(rest)], glued)
    BY <1>3 DEF Follows
  <2> QED
    BY <2>1, <2>2, <2>3, <2>4, <2>5
<1>6. ASSUME NEW s \in Seq(Chars), NEW end, NEW kwargs
      PROVE  Reaches(Append(a, part), s, end, kwargs) <=> Reaches(c, s, end, kwargs)
  <2>1. Reaches(Append(a, part), s, end, kwargs) <=>
          \E at \in 1..Len(s) + 1 :
            /\ Reaches(a, s, at, kwargs)
            /\ end \in 1..Len(s) + 1 /\ end = Consume(part, s, at)
    BY <1>1, LiteralReaches
  <2>2. \A at : Reaches(a, s, at, kwargs) <=> Reaches(b, s, at, kwargs)
    BY <1>ab DEF Alike
  <2>3. ASSUME NEW at
        PROVE  Reaches(b, s, at, kwargs) <=>
                 \E from \in 1..Len(s) + 1 :
                   /\ Reaches(rest, s, from, kwargs)
                   /\ at \in 1..Len(s) + 1 /\ at = Consume(last, s, from)
    BY LiteralReaches
  <2>4. Reaches(c, s, end, kwargs) <=>
          \E from \in 1..Len(s) + 1 :
            /\ Reaches(rest, s, from, kwargs)
            /\ end \in 1..Len(s) + 1 /\ end = Consume(glued, s, from)
    BY <1>3, LiteralReaches
  <2> HIDE DEF b, c
  <2> QED
    BY <1>at, <2>1, <2>2, <2>3, <2>4
<1>7. Len(Append(a, part)) # 0 /\ Len(c) # 0
  BY <1>1, <1>p, <1>c
<1> HIDE DEF c
<1>8. Alike(Append(a, part), c)
  BY <1>3, <1>p, <1>c, <1>5, <1>6, <1>7 DEF Alike
<1> QED
  BY <1>8 DEF c, glued

\* What one round of merging does.
LEMMA AlikeAdded ==
    ASSUME NEW a, NEW b, Alike(a, b), NEW part \in KnownParts
    PROVE  Alike(Append(a, part), Add(b, part))
<1>1. b \in Seq(KnownParts) /\ Len(b) \in Nat
  BY KnownRoute DEF Alike
<1>2. CASE b # << >> /\ part.kind = "lit" /\ Last(b).kind = "lit"
  <2>1. PICK rest \in Seq(KnownParts), last \in KnownParts : b = Append(rest, last)
    BY <1>1, <1>2, SequenceEmptyOrAppend
  <2>2. /\ Len(b) = Len(rest) + 1 /\ b[Len(rest) + 1] = last /\ Len(rest) \in Nat
        /\ \A i \in 1..Len(rest) : b[i] = rest[i]
    BY <2>1, Appended, KnownRoute
  <2>3. Last(b) = last
    BY <2>2 DEF Last
  <2>4. Front(b) = rest
    <3> DEFINE front == SubSeq(b, 1, Len(rest))
    <3>1. \A i \in 1..Len(rest) : b[i] \in KnownParts
      BY <1>1, <2>2, KnownRoute
    <3>2. front \in Seq(KnownParts) /\ Len(front) = Len(rest)
          /\ \A i \in 1..Len(rest) : front[i] = rest[i]
      <4>1. /\ front \in Seq(KnownParts)
            /\ Len(front) = IF 1 <= Len(rest) THEN Len(rest) - 1 + 1 ELSE 0
            /\ \A i \in 1..Len(rest) - 1 + 1 : front[i] = b[1 + i - 1]
        BY <2>2, <3>1, SubSeqProperties
      <4> HIDE DEF front
      <4> QED
        BY <2>2, <4>1
    <3> HIDE DEF front
    <3>3. front = rest
      BY <3>2, SeqEqual
    <3>4. Len(b) - 1 = Len(rest)
      BY <2>2
    <3> QED
      BY <3>3, <3>4 DEF Front, front
  <2>5. Add(b, part) = Append(rest, Glued(last, part))
    BY <1>2, <2>3, <2>4 DEF Add, Glued
  <2>6. Alike(a, Append(rest, last)) /\ last.kind = "lit"
    BY <1>2, <2>1, <2>3
  <2> QED
    BY <1>2, <2>5, <2>6, AlikeGlued
<1>3. CASE ~(b # << >> /\ part.kind = "lit" /\ Last(b).kind = "lit")
  <2>1. Add(b, part) = Append(b, part)
    BY <1>3 DEF Add
  <2> QED
    BY <2>1, AlikeOn
<1> QED
  BY <1>2, <1>3

\* The rounds of merging, one for each part.
IsMerging(merged, parts) ==
    merged = [i \in 0..Len(parts) |-> IF i = 0 THEN << >> ELSE Add(merged[i - 1], parts[i])]

\* There are such rounds.
LEMMA MergingExists ==
    ASSUME NEW parts, Len(parts) \in Nat
    PROVE  \E merged : IsMerging(merged, parts)
<1> DEFINE n == Len(parts)
           Upto(k, f) == f = [i \in 0..k |-> IF i = 0 THEN << >> ELSE Add(f[i - 1], parts[i])]
           fails == {k \in 0..n : ~\E f : Upto(k, f)}
<1>1. SUFFICES ASSUME fails # {} PROVE FALSE
  <2>1. n \in 0..n
    OBVIOUS
  <2>2. fails = {} => \E f : Upto(n, f)
    BY <2>1
  <2> QED
    BY <2>2 DEF IsMerging
<1>2. PICK k \in fails : \A l \in fails : k <= l
  <2>1. fails \subseteq Nat
    OBVIOUS
  <2> HIDE DEF fails
  <2> QED
    BY <1>1, <2>1, LeastPlace
<1>3. k \in 0..n /\ ~\E f : Upto(k, f)
  BY <1>2
<1>4. k # 0
  <2> DEFINE f == [i \in 0..0 |-> << >>]
  <2>1. f = [i \in 0..0 |-> f[i]] /\ \A i \in 0..0 : i = 0 /\ f[i] = << >>
    OBVIOUS
  <2> HIDE DEF f
  <2>2. f = [i \in 0..0 |-> IF i = 0 THEN << >> ELSE Add(f[i - 1], parts[i])]
    BY <2>1
  <2>3. Upto(0, f)
    BY <2>2
  <2> QED
    BY <1>3, <2>3
<1>5. k - 1 \in 0..n /\ k - 1 \notin fails
  BY <1>2, <1>3, <1>4
<1>6. PICK f : Upto(k - 1, f)
  BY <1>5
<1>7. \A i \in 0..k - 1 : f[i] = IF i = 0 THEN << >> ELSE Add(f[i - 1], parts[i])
  <2>1. f = [i \in 0..k - 1 |-> IF i = 0 THEN << >> ELSE Add(f[i - 1], parts[i])]
    BY <1>6
  <2> QED
    BY <2>1, Zenon
<1> DEFINE g == [i \in 0..k |-> IF i = k THEN Add(f[k - 1], parts[k]) ELSE f[i]]
<1>8. \A i \in 0..k : g[i] = IF i = 0 THEN << >> ELSE Add(g[i - 1], parts[i])
  <2> TAKE i \in 0..k
  <2>1. CASE i = k
    <3>1. k - 1 \in 0..k /\ k - 1 # k
      BY <1>3, <1>4
    <3> QED
      BY <1>4, <2>1, <3>1
  <2>2. CASE i # k
    <3>1. i \in 0..k - 1 /\ (i # 0 => i - 1 \in 0..k /\ i - 1 # k)
      BY <1>3, <2>2
    <3> QED
      BY <1>7, <2>2, <3>1
  <2> QED
    BY <2>1, <2>2
<1>9. g = [i \in 0..k |-> g[i]]
  OBVIOUS
<1> HIDE DEF g
<1>10. g = [i \in 0..k |-> IF i = 0 THEN << >> ELSE Add(g[i - 1], parts[i])]
  BY <1>8, <1>9
<1>11. Upto(k, g)
  BY <1>10
<1> QED
  BY <1>3, <1>11

\* Merging makes a route like the one it was given.
LEMMA MergedIsAlike ==
    ASSUME NEW parts \in Seq(KnownParts)
    PROVE  Alike(parts, Merge(parts))
<1> DEFINE n == Len(parts)
           merged == CHOOSE merged : IsMerging(merged, parts)
           fails == {k \in 0..n : ~Alike(SubSeq(parts, 1, k), merged[k])}
<1>1. n \in Nat /\ \A i \in 1..n : parts[i] \in KnownParts
  BY KnownRoute
<1>2. Merge(parts) = merged[n]
  BY DEF Merge, IsMerging
<1>3. IsMerging(merged, parts)
  BY <1>1, MergingExists
<1> HIDE DEF merged
<1>4. \A i \in 0..n : merged[i] = IF i = 0 THEN << >> ELSE Add(merged[i - 1], parts[i])
  <2>1. merged = [i \in 0..n |-> IF i = 0 THEN << >> ELSE Add(merged[i - 1], parts[i])]
    BY <1>3 DEF IsMerging
  <2> QED
    BY <2>1, Zenon
<1>5. SUFFICES ASSUME fails # {} PROVE FALSE
  <2>1. fails = {} => Alike(SubSeq(parts, 1, n), merged[n])
    BY <1>1
  <2>2. SubSeq(parts, 1, n) = parts
    BY SubSeqFull
  <2> HIDE DEF fails
  <2> QED
    BY <1>2, <2>1, <2>2
<1>6. PICK k \in fails : \A l \in fails : k <= l
  <2>1. fails \subseteq Nat
    BY <1>1
  <2> HIDE DEF fails
  <2> QED
    BY <1>5, <2>1, LeastPlace
<1>7. k \in 0..n /\ ~Alike(SubSeq(parts, 1, k), merged[k])
  BY <1>6
<1>8. k # 0
  <2>1. SubSeq(parts, 1, 0) = << >> /\ merged[0] = << >>
    BY <1>1, <1>4, SubSeqEmpty
  <2>2. Alike(<< >>, << >>)
    BY EmptySeq DEF Alike
  <2> QED
    BY <1>7, <2>1, <2>2
<1>9. k - 1 \in 0..n /\ k - 1 \notin fails /\ k \in 1..n
  BY <1>1, <1>6, <1>7, <1>8
<1>10. Alike(SubSeq(parts, 1, k - 1), merged[k - 1])
  BY <1>9
<1>11. merged[k] = Add(merged[k - 1], parts[k])
  BY <1>4, <1>7, <1>8
<1>12. SubSeq(parts, 1, k) = Append(SubSeq(parts, 1, k - 1), parts[k])
  <2>1. 1 \in 1..n /\ k \in 1..n
    BY <1>9
  <2>2. SubSeq(parts, 1, k) = SubSeq(parts, 1, k - 1) \o <<parts[k]>>
    BY <2>1, SubSeqRecursiveSecond
  <2>3. SubSeq(parts, 1, k - 1) \in Seq(KnownParts) /\ parts[k] \in KnownParts
    BY <1>1, <1>9, <1>10 DEF Alike
  <2> QED
    BY <2>2, <2>3, AppendIsConcat
<1>13. Alike(SubSeq(parts, 1, k), Add(merged[k - 1], parts[k]))
  BY <1>1, <1>9, <1>10, <1>12, AlikeAdded
<1> QED
  BY <1>7, <1>11, <1>13

\* The route of a table is safe when the parts it was merged from are, and its
\* scan matches where theirs does, with the same keyword arguments.
LEMMA MergedScans ==
    ASSUME NEW parts \in Seq(KnownParts), NEW s \in Seq(Chars)
    PROVE  /\ IsRoute(Merge(parts)) /\ (Safe(Merge(parts)) <=> Safe(parts))
           /\ Scans(Merge(parts), s) = {} <=> Scans(parts, s) = {}
           /\ \A cut \in Scans(Merge(parts), s) : \E scan \in Scans(parts, s) :
                Captured(Merge(parts), s, cut) = Captured(parts, s, scan)
<1> DEFINE merged == Merge(parts)
           end == Len(s) + 1
<1>1. Alike(parts, merged)
  BY MergedIsAlike
<1> HIDE DEF merged
<1>2. merged \in Seq(KnownParts) /\ (Safe(merged) <=> Safe(parts))
  BY <1>1 DEF Alike
<1>3. IsRoute(parts) /\ IsRoute(merged)
  BY <1>2, KnownRoute
<1>4. \A kwargs : Reaches(parts, s, end, kwargs) <=> Reaches(merged, s, end, kwargs)
  BY <1>1 DEF Alike
<1>5. \A cut : cut \in Scans(parts, s) <=> Scan(parts, s, cut) /\ cut[Len(parts)] = end
  BY <1>3, ScansReach
<1>6. \A cut : cut \in Scans(merged, s) <=> Scan(merged, s, cut) /\ cut[Len(merged)] = end
  BY <1>3, ScansReach
<1>7. ASSUME NEW cut \in Scans(merged, s)
      PROVE  \E scan \in Scans(parts, s) : Captured(merged, s, cut) = Captured(parts, s, scan)
  <2>1. Reaches(merged, s, end, Captured(merged, s, cut))
    BY <1>6 DEF Reaches
  <2>2. Reaches(parts, s, end, Captured(merged, s, cut))
    BY <1>4, <2>1
  <2> QED
    BY <1>5, <2>2 DEF Reaches
<1>8. ASSUME NEW scan \in Scans(parts, s) PROVE Scans(merged, s) # {}
  <2>1. Reaches(parts, s, end, Captured(parts, s, scan))
    BY <1>5 DEF Reaches
  <2>2. Reaches(merged, s, end, Captured(parts, s, scan))
    BY <1>4, <2>1
  <2> QED
    BY <1>6, <2>2 DEF Reaches
<1>9. Scans(merged, s) = {} <=> Scans(parts, s) = {}
  BY <1>7, <1>8
<1> QED
  BY <1>2, <1>3, <1>7, <1>9 DEF merged

-----------------------------------------------------------------------------
(* The recursions over a URLconf end.                                      *)

\* The entries of one pattern, and of a list of them.
EntriesOf(walk, pattern, prefix) ==
    IF pattern.type = "regex" \/ \E j \in DOMAIN pattern.parts : ~Known(pattern.parts[j])
    THEN <<Opaque>>
    ELSE IF pattern.type = "include"
         THEN walk[pattern.patterns][prefix \o pattern.parts]
         ELSE LeafEntries(pattern, prefix)

WalkOf(walk, patterns) ==
    [prefix \in Seq(Part) |->
        FlattenSeq([i \in DOMAIN patterns |-> EntriesOf(walk, patterns[i], prefix)])]

\* What Django finds for one pattern, and for a list of them.
OutcomeOf(resolve, pattern, s) ==
    LET cuts == Matches(pattern.parts, s, 1..Len(s) + 1)
        cut == Greediest(cuts)
    IN  IF pattern.type = "regex" THEN [view |-> pattern.view, kwargs |-> << >>]
        ELSE IF pattern.type = "path" THEN ResolvePattern(pattern, s)
        ELSE IF cuts = {} THEN NoMatch
        ELSE Including(pattern, s, cut,
               resolve[pattern.patterns][After(pattern.parts, s, cut)])

ResolveOf(resolve, patterns) ==
    [s \in Seq(Chars) |->
        FirstMatch([i \in DOMAIN patterns |-> OutcomeOf(resolve, patterns[i], s)])]

\* Whether one of its includes, or one inside it, has keyword arguments.
DefaultsOf(defaults, patterns) ==
    \E i \in DOMAIN patterns :
        /\ patterns[i].type = "include"
        /\ patterns[i].defaults # << >> \/ defaults[patterns[i].patterns]

\* The lists of less than some depth.
Below(n) == {conf \in Confs : Depth[conf] < n}

\* A list and what it includes.
LEMMA Included ==
    ASSUME NEW n \in Nat, NEW conf \in Confs, Depth[conf] <= n
    PROVE  /\ conf \in Below(n + 1)
           /\ \A i \in DOMAIN conf : conf[i].type = "include" =>
                /\ conf[i].patterns \in Below(n) /\ conf[i].patterns \in Below(n + 1)
                /\ conf[i].patterns \in Confs
<1>1. /\ \A c \in Confs : Depth[c] \in Nat
      /\ \A i \in DOMAIN conf : conf[i].type = "include" =>
           conf[i].patterns \in Confs /\ Depth[conf[i].patterns] < Depth[conf]
  BY DepthAssumption
<1>2. conf \in Below(n + 1)
  BY <1>1 DEF Below
<1>3. ASSUME NEW i \in DOMAIN conf, conf[i].type = "include"
      PROVE  /\ conf[i].patterns \in Below(n) /\ conf[i].patterns \in Below(n + 1)
             /\ conf[i].patterns \in Confs
  <2>1. conf[i].patterns \in Confs /\ Depth[conf[i].patterns] < Depth[conf]
    BY <1>1, <1>3
  <2>2. Depth[conf[i].patterns] \in Nat /\ Depth[conf] \in Nat
    BY <1>1, <2>1
  <2> QED
    BY <2>1, <2>2 DEF Below
<1> QED
  BY <1>2, <1>3

\* Every list is of less than some depth.
LEMMA AllBelow ==
    Below(MaxDepth + 1) = Confs /\ Below(0) = {}
<1>1. \A c \in Confs : Depth[c] \in 0..MaxDepth
  BY DepthAssumption
<1> QED
  BY <1>1, DepthAssumption DEF Below

\* The entries of a list depend on those of what it includes only.
LEMMA WalksAlike ==
    ASSUME NEW conf \in Confs, NEW f, NEW g,
           \A i \in DOMAIN conf : conf[i].type = "include" =>
               f[conf[i].patterns] = g[conf[i].patterns]
    PROVE  WalkOf(f, conf) = WalkOf(g, conf)
<1>1. ASSUME NEW prefix, NEW i \in DOMAIN conf
      PROVE  EntriesOf(f, conf[i], prefix) = EntriesOf(g, conf[i], prefix)
  BY DEF EntriesOf
<1>2. ASSUME NEW prefix
      PROVE  [i \in DOMAIN conf |-> EntriesOf(f, conf[i], prefix)]
                = [i \in DOMAIN conf |-> EntriesOf(g, conf[i], prefix)]
  BY <1>1
<1> QED
  BY <1>2 DEF WalkOf

\* And so does what Django finds for it.
LEMMA ResolvesAlike ==
    ASSUME NEW conf \in Confs, NEW f, NEW g,
           \A i \in DOMAIN conf : conf[i].type = "include" =>
               f[conf[i].patterns] = g[conf[i].patterns]
    PROVE  ResolveOf(f, conf) = ResolveOf(g, conf)
<1>1. ASSUME NEW s, NEW i \in DOMAIN conf
      PROVE  OutcomeOf(f, conf[i], s) = OutcomeOf(g, conf[i], s)
  <2>1. CASE conf[i].type = "include"
    <3>1. f[conf[i].patterns] = g[conf[i].patterns]
      BY <2>1
    <3> QED
      BY <3>1, Zenon DEF OutcomeOf
  <2>2. CASE conf[i].type = "regex" \/ conf[i].type = "path"
    BY <2>2 DEF OutcomeOf
  <2> QED
    BY <1>1, <2>1, <2>2, ConfsAssumption DEF IsPattern
<1>2. ASSUME NEW s
      PROVE  [i \in DOMAIN conf |-> OutcomeOf(f, conf[i], s)]
                = [i \in DOMAIN conf |-> OutcomeOf(g, conf[i], s)]
  BY <1>1
<1> QED
  BY <1>2 DEF ResolveOf

\* _walk ends: there are entries for each list.
LEMMA WalkExists ==
    \E walk : walk = [patterns \in Confs |-> WalkOf(walk, patterns)]
<1> DEFINE Upto(n, f) == f = [c \in Below(n) |-> WalkOf(f, c)]
           fails == {n \in 0..MaxDepth + 1 : ~\E f : Upto(n, f)}
<1>1. SUFFICES ASSUME fails # {} PROVE FALSE
  <2>1. MaxDepth + 1 \in 0..MaxDepth + 1
    BY DepthAssumption
  <2>2. fails = {} => \E f : Upto(MaxDepth + 1, f)
    BY <2>1
  <2> QED
    BY <2>2, AllBelow
<1>2. PICK n \in fails : \A m \in fails : n <= m
  <2>1. fails \subseteq Nat
    BY DepthAssumption
  <2> HIDE DEF fails
  <2> QED
    BY <1>1, <2>1, LeastPlace
<1>3. n \in 0..MaxDepth + 1 /\ ~\E f : Upto(n, f)
  BY <1>2
<1>4. n # 0
  <2> DEFINE f == [c \in {} |-> 0]
  <2>1. f = [c \in Below(0) |-> WalkOf(f, c)]
    BY AllBelow
  <2> QED
    BY <1>3, <2>1
<1>5. n - 1 \in 0..MaxDepth + 1 /\ n - 1 \notin fails /\ n \in Nat /\ n - 1 \in Nat
  BY <1>2, <1>3, <1>4, DepthAssumption
<1>6. PICK f : Upto(n - 1, f)
  BY <1>5
<1>7. \A c \in Below(n - 1) : f[c] = WalkOf(f, c)
  BY <1>6, Zenon
<1> DEFINE g == [c \in Below(n) |-> WalkOf(f, c)]
<1>8. ASSUME NEW c \in Below(n) PROVE WalkOf(f, c) = WalkOf(g, c)
  <2>1. c \in Confs /\ Depth[c] <= n - 1
    BY <1>5, DepthAssumption DEF Below
  <2>2. ASSUME NEW i \in DOMAIN c, c[i].type = "include"
        PROVE  f[c[i].patterns] = g[c[i].patterns]
    <3>1. c[i].patterns \in Below(n - 1) /\ c[i].patterns \in Below((n - 1) + 1)
      BY <1>5, <2>1, <2>2, Included
    <3>2. (n - 1) + 1 = n
      BY <1>5
    <3> QED
      BY <1>7, <3>1, <3>2
  <2> HIDE DEF g
  <2> QED
    BY <2>1, <2>2, WalksAlike
<1>9. g = [c \in Below(n) |-> WalkOf(g, c)]
  BY <1>8
<1>10. Upto(n, g)
  BY <1>9
<1> QED
  BY <1>3, <1>10

\* Django's resolver ends, too.
LEMMA ResolveExists ==
    \E resolve : resolve = [patterns \in Confs |-> ResolveOf(resolve, patterns)]
<1> DEFINE Upto(n, f) == f = [c \in Below(n) |-> ResolveOf(f, c)]
           fails == {n \in 0..MaxDepth + 1 : ~\E f : Upto(n, f)}
<1>1. SUFFICES ASSUME fails # {} PROVE FALSE
  <2>1. MaxDepth + 1 \in 0..MaxDepth + 1
    BY DepthAssumption
  <2>2. fails = {} => \E f : Upto(MaxDepth + 1, f)
    BY <2>1
  <2> QED
    BY <2>2, AllBelow
<1>2. PICK n \in fails : \A m \in fails : n <= m
  <2>1. fails \subseteq Nat
    BY DepthAssumption
  <2> HIDE DEF fails
  <2> QED
    BY <1>1, <2>1, LeastPlace
<1>3. n \in 0..MaxDepth + 1 /\ ~\E f : Upto(n, f)
  BY <1>2
<1>4. n # 0
  <2> DEFINE f == [c \in {} |-> 0]
  <2>1. f = [c \in Below(0) |-> ResolveOf(f, c)]
    BY AllBelow
  <2> QED
    BY <1>3, <2>1
<1>5. n - 1 \in 0..MaxDepth + 1 /\ n - 1 \notin fails /\ n \in Nat /\ n - 1 \in Nat
  BY <1>2, <1>3, <1>4, DepthAssumption
<1>6. PICK f : Upto(n - 1, f)
  BY <1>5
<1>7. \A c \in Below(n - 1) : f[c] = ResolveOf(f, c)
  BY <1>6, Zenon
<1> DEFINE g == [c \in Below(n) |-> ResolveOf(f, c)]
<1>8. ASSUME NEW c \in Below(n) PROVE ResolveOf(f, c) = ResolveOf(g, c)
  <2>1. c \in Confs /\ Depth[c] <= n - 1
    BY <1>5, DepthAssumption DEF Below
  <2>2. ASSUME NEW i \in DOMAIN c, c[i].type = "include"
        PROVE  f[c[i].patterns] = g[c[i].patterns]
    <3>1. c[i].patterns \in Below(n - 1) /\ c[i].patterns \in Below((n - 1) + 1)
      BY <1>5, <2>1, <2>2, Included
    <3>2. (n - 1) + 1 = n
      BY <1>5
    <3> QED
      BY <1>7, <3>1, <3>2
  <2> HIDE DEF g
  <2> QED
    BY <2>1, <2>2, ResolvesAlike
<1>9. g = [c \in Below(n) |-> ResolveOf(g, c)]
  BY <1>8
<1>10. Upto(n, g)
  BY <1>9
<1> QED
  BY <1>3, <1>10

\* The entries that _walk makes of a list.
LEMMA WalkIs ==
    ASSUME NEW conf \in Confs, NEW prefix \in Seq(Part)
    PROVE  Walk[conf][prefix] =
             FlattenSeq([i \in DOMAIN conf |-> EntriesOf(Walk, conf[i], prefix)])
<1>1. Walk = CHOOSE walk : walk = [patterns \in Confs |-> WalkOf(walk, patterns)]
  BY DEF Walk, WalkOf, EntriesOf
<1>2. Walk = [patterns \in Confs |-> WalkOf(Walk, patterns)]
  BY <1>1, WalkExists
<1>3. Walk[conf] = WalkOf(Walk, conf)
  BY <1>2, Zenon
<1> QED
  BY <1>3 DEF WalkOf

\* What Django finds for a list.
LEMMA ResolveIs ==
    ASSUME NEW conf \in Confs, NEW s \in Seq(Chars)
    PROVE  Resolve[conf][s] =
             FirstMatch([i \in DOMAIN conf |-> OutcomeOf(Resolve, conf[i], s)])
<1>1. Resolve = CHOOSE resolve : resolve = [patterns \in Confs |-> ResolveOf(resolve, patterns)]
  BY DEF Resolve, ResolveOf, OutcomeOf
<1>2. Resolve = [patterns \in Confs |-> ResolveOf(Resolve, patterns)]
  BY <1>1, ResolveExists
<1>3. Resolve[conf] = ResolveOf(Resolve, conf)
  BY <1>2, Zenon
<1> QED
  BY <1>3 DEF ResolveOf

\* And whether it has keyword arguments.
LEMMA DefaultsAlike ==
    ASSUME NEW conf \in Confs, NEW f, NEW g,
           \A i \in DOMAIN conf : conf[i].type = "include" =>
               f[conf[i].patterns] = g[conf[i].patterns]
    PROVE  DefaultsOf(f, conf) = DefaultsOf(g, conf)
<1>1. ASSUME NEW i \in DOMAIN conf, conf[i].type = "include"
      PROVE  f[conf[i].patterns] = g[conf[i].patterns]
  BY <1>1
<1> QED
  BY <1>1, Zenon DEF DefaultsOf

\* So does the search for keyword arguments.
LEMMA DefaultsExists ==
    \E defaults : defaults = [patterns \in Confs |-> DefaultsOf(defaults, patterns)]
<1> DEFINE Upto(n, f) == f = [c \in Below(n) |-> DefaultsOf(f, c)]
           fails == {n \in 0..MaxDepth + 1 : ~\E f : Upto(n, f)}
<1>1. SUFFICES ASSUME fails # {} PROVE FALSE
  <2>1. MaxDepth + 1 \in 0..MaxDepth + 1
    BY DepthAssumption
  <2>2. fails = {} => \E f : Upto(MaxDepth + 1, f)
    BY <2>1
  <2> QED
    BY <2>2, AllBelow
<1>2. PICK n \in fails : \A m \in fails : n <= m
  <2>1. fails \subseteq Nat
    BY DepthAssumption
  <2> HIDE DEF fails
  <2> QED
    BY <1>1, <2>1, LeastPlace
<1>3. n \in 0..MaxDepth + 1 /\ ~\E f : Upto(n, f)
  BY <1>2
<1>4. n # 0
  <2> DEFINE f == [c \in {} |-> 0]
  <2>1. f = [c \in Below(0) |-> DefaultsOf(f, c)]
    BY AllBelow
  <2> QED
    BY <1>3, <2>1
<1>5. n - 1 \in 0..MaxDepth + 1 /\ n - 1 \notin fails /\ n \in Nat /\ n - 1 \in Nat
  BY <1>2, <1>3, <1>4, DepthAssumption
<1>6. PICK f : Upto(n - 1, f)
  BY <1>5
<1>7. \A c \in Below(n - 1) : f[c] = DefaultsOf(f, c)
  BY <1>6, Zenon
<1> DEFINE g == [c \in Below(n) |-> DefaultsOf(f, c)]
<1>8. ASSUME NEW c \in Below(n) PROVE DefaultsOf(f, c) = DefaultsOf(g, c)
  <2>1. c \in Confs /\ Depth[c] <= n - 1
    BY <1>5, DepthAssumption DEF Below
  <2>2. ASSUME NEW i \in DOMAIN c, c[i].type = "include"
        PROVE  f[c[i].patterns] = g[c[i].patterns]
    <3>1. c[i].patterns \in Below(n - 1) /\ c[i].patterns \in Below((n - 1) + 1)
      BY <1>5, <2>1, <2>2, Included
    <3>2. (n - 1) + 1 = n
      BY <1>5
    <3> QED
      BY <1>7, <3>1, <3>2
  <2> HIDE DEF g
  <2> QED
    BY <2>1, <2>2, DefaultsAlike
<1>9. g = [c \in Below(n) |-> DefaultsOf(g, c)]
  BY <1>8
<1>10. Upto(n, g)
  BY <1>9
<1> QED
  BY <1>3, <1>10

\* Whether a list has them.
LEMMA WithDefaultsIs ==
    ASSUME NEW conf \in Confs
    PROVE  WithDefaults[conf] = DefaultsOf(WithDefaults, conf)
<1>1. WithDefaults = CHOOSE defaults : defaults = [patterns \in Confs |-> DefaultsOf(defaults, patterns)]
  BY DEF WithDefaults, DefaultsOf
<1>2. WithDefaults = [patterns \in Confs |-> DefaultsOf(WithDefaults, patterns)]
  BY <1>1, DefaultsExists
<1> QED
  BY <1>2, Zenon

-----------------------------------------------------------------------------
(* Lists of entries, one after the other.                                  *)

\* A sequence, of whatever it has.
IsSeq(a) == a \in Seq(Range(a))

\* An entry ends the search through the table.
Hit(entry, s) == entry.opaque \/ TryMatch(entry, s) # NoMatch

\* No entry of a list does, or the first one that does is this one.
Misses(entries, s) == \A i \in DOMAIN entries : ~Hit(entries[i], s)
Answers(entries, s, entry) ==
    \E i \in DOMAIN entries :
        /\ entries[i] = entry /\ Hit(entry, s)
        /\ \A j \in DOMAIN entries : j < i => ~Hit(entries[j], s)

AllOpaque(entries) == \A i \in DOMAIN entries : entries[i].opaque

\* A sequence is one of its own elements.
LEMMA SeqOfItsOwn ==
    ASSUME NEW S, NEW a \in Seq(S)
    PROVE  IsSeq(a) /\ DOMAIN a = 1..Len(a) /\ Len(a) \in Nat
<1>1. DOMAIN a = 1..Len(a) /\ Len(a) \in Nat /\ a = [i \in 1..Len(a) |-> a[i]]
  OBVIOUS
<1>2. \A i \in 1..Len(a) : a[i] \in Range(a)
  BY <1>1 DEF Range
<1>3. a \in [1..Len(a) -> Range(a)]
  BY <1>1, <1>2
<1> QED
  BY <1>1, <1>3, SeqDef DEF IsSeq

\* One list of entries after another.
LEMMA OneAfterAnother ==
    ASSUME NEW a, IsSeq(a), NEW b, IsSeq(b)
    PROVE  /\ IsSeq(a \o b) /\ Len(a) \in Nat /\ Len(b) \in Nat
           /\ DOMAIN a = 1..Len(a) /\ DOMAIN b = 1..Len(b)
           /\ DOMAIN (a \o b) = 1..Len(a) + Len(b)
           /\ \A i \in 1..Len(a) : (a \o b)[i] = a[i]
           /\ \A i \in 1..Len(b) : (a \o b)[Len(a) + i] = b[i]
<1>1. a \in Seq(Range(a) \cup Range(b)) /\ b \in Seq(Range(a) \cup Range(b))
  BY DEF IsSeq
<1>2. a \o b \in Seq(Range(a) \cup Range(b))
  BY <1>1
<1>3. IsSeq(a \o b)
  BY <1>2, SeqOfItsOwn
<1>4. Len(a) \in Nat /\ Len(b) \in Nat /\ DOMAIN a = 1..Len(a) /\ DOMAIN b = 1..Len(b)
  BY <1>1
<1>5. Len(a \o b) = Len(a) + Len(b) /\ DOMAIN (a \o b) = 1..Len(a \o b)
  BY <1>1, <1>2
<1>6. \A i \in 1..Len(a) : (a \o b)[i] = a[i]
  BY <1>1, <1>4
<1>7. \A i \in 1..Len(b) : (a \o b)[Len(a) + i] = b[i]
  BY <1>1, <1>4
<1> QED
  BY <1>3, <1>4, <1>5, <1>6, <1>7

\* Each entry of the two is one of the first or of the second.
LEMMA OfEither ==
    ASSUME NEW a, IsSeq(a), NEW b, IsSeq(b), NEW i \in DOMAIN (a \o b)
    PROVE  \/ i \in 1..Len(a) /\ (a \o b)[i] = a[i]
           \/ i > Len(a) /\ i - Len(a) \in 1..Len(b) /\ (a \o b)[i] = b[i - Len(a)]
<1>1. Len(a) \in Nat /\ Len(b) \in Nat /\ i \in 1..Len(a) + Len(b)
  BY OneAfterAnother
<1>2. \A k \in 1..Len(a) : (a \o b)[k] = a[k]
  BY OneAfterAnother
<1>3. \A k \in 1..Len(b) : (a \o b)[Len(a) + k] = b[k]
  BY OneAfterAnother
<1>4. CASE i <= Len(a)
  BY <1>1, <1>2, <1>4
<1>5. CASE i > Len(a)
  <2>1. i - Len(a) \in 1..Len(b) /\ Len(a) + (i - Len(a)) = i
    BY <1>1, <1>5
  <2> QED
    BY <1>3, <1>5, <2>1
<1> QED
  BY <1>1, <1>4, <1>5

\* What holds of the two lists together.
LEMMA BothLists ==
    ASSUME NEW a, IsSeq(a), NEW b, IsSeq(b)
    PROVE  /\ a \o b = << >> => a = << >> /\ b = << >>
           /\ AllOpaque(a) /\ AllOpaque(b) => AllOpaque(a \o b)
           /\ \A s : Misses(a \o b, s) => Misses(a, s) /\ Misses(b, s)
           /\ \A s, entry : Answers(a \o b, s, entry) =>
                Answers(a, s, entry) \/ (Misses(a, s) /\ Answers(b, s, entry))
<1> DEFINE c == a \o b
           la == Len(a)
           lb == Len(b)
<1>1. la \in Nat /\ lb \in Nat /\ DOMAIN a = 1..la /\ DOMAIN b = 1..lb /\ DOMAIN c = 1..la + lb
  BY OneAfterAnother
<1>2. \A i \in 1..la : c[i] = a[i]
  BY OneAfterAnother
<1>3. \A i \in 1..lb : c[la + i] = b[i]
  BY OneAfterAnother
<1>4. \A i \in DOMAIN c : \/ i \in 1..la /\ c[i] = a[i]
                          \/ i > la /\ i - la \in 1..lb /\ c[i] = b[i - la]
  BY OfEither
<1>5. a = [i \in 1..la |-> a[i]] /\ b = [i \in 1..lb |-> b[i]]
  BY <1>1 DEF IsSeq
<1>6. c = << >> => a = << >> /\ b = << >>
  <2> SUFFICES ASSUME c = << >> PROVE a = << >> /\ b = << >>
    OBVIOUS
  <2>1. a \in Seq(Range(a) \cup Range(b)) /\ b \in Seq(Range(a) \cup Range(b))
    BY DEF IsSeq
  <2> QED
    BY <2>1
<1> HIDE DEF c, la, lb
<1>7. AllOpaque(a) /\ AllOpaque(b) => AllOpaque(c)
  BY <1>1, <1>4 DEF AllOpaque
<1>8. ASSUME NEW s, Misses(c, s) PROVE Misses(a, s) /\ Misses(b, s)
  <2>1. \A i \in 1..la : i \in DOMAIN c
    BY <1>1
  <2>2. \A i \in 1..lb : la + i \in DOMAIN c
    BY <1>1
  <2>3. Misses(a, s)
    BY <1>1, <1>2, <1>8, <2>1 DEF Misses
  <2>4. Misses(b, s)
    BY <1>1, <1>3, <1>8, <2>2 DEF Misses
  <2> QED
    BY <2>3, <2>4
<1>9. ASSUME NEW s, NEW entry, Answers(c, s, entry)
      PROVE  Answers(a, s, entry) \/ (Misses(a, s) /\ Answers(b, s, entry))
  <2>1. PICK i \in DOMAIN c : /\ c[i] = entry /\ Hit(entry, s)
                              /\ \A j \in DOMAIN c : j < i => ~Hit(c[j], s)
    BY <1>9 DEF Answers
  <2>2. CASE i \in 1..la /\ c[i] = a[i]
    <3>1. \A j \in 1..la : j < i => ~Hit(a[j], s)
      BY <1>1, <1>2, <2>1
    <3>2. Answers(a, s, entry)
      BY <1>1, <2>1, <2>2, <3>1 DEF Answers
    <3> QED
      BY <3>2
  <2>3. CASE i > la /\ i - la \in 1..lb /\ c[i] = b[i - la]
    <3>1. \A j \in 1..la : j \in DOMAIN c /\ j < i
      BY <1>1, <2>3
    <3>2. Misses(a, s)
      BY <1>1, <1>2, <2>1, <3>1 DEF Misses
    <3>3. \A j \in 1..lb : j < i - la => la + j \in DOMAIN c /\ la + j < i
      BY <1>1, <2>3
    <3>4. \A j \in DOMAIN b : j < i - la => ~Hit(b[j], s)
      BY <1>1, <1>3, <2>1, <3>3
    <3>5. Answers(b, s, entry)
      BY <1>1, <2>1, <2>3, <3>4 DEF Answers
    <3> QED
      BY <3>2, <3>5
  <2> QED
    BY <1>4, <2>1, <2>2, <2>3
<1> QED
  BY <1>6, <1>7, <1>8, <1>9 DEF c

\* The rounds of flattening, one for each list.
IsFlattening(flat, seqs) ==
    flat = [i \in 1..Len(seqs) |-> IF i = 1 THEN seqs[i] ELSE flat[i - 1] \o seqs[i]]

\* There are such rounds.
LEMMA FlatteningExists ==
    ASSUME NEW seqs, Len(seqs) \in Nat
    PROVE  \E flat : IsFlattening(flat, seqs)
<1> DEFINE n == Len(seqs)
           Upto(k, f) == f = [i \in 1..k |-> IF i = 1 THEN seqs[i] ELSE f[i - 1] \o seqs[i]]
           fails == {k \in 0..n : ~\E f : Upto(k, f)}
<1>1. SUFFICES ASSUME fails # {} PROVE FALSE
  <2>1. n \in 0..n
    OBVIOUS
  <2>2. fails = {} => \E f : Upto(n, f)
    BY <2>1
  <2> QED
    BY <2>2 DEF IsFlattening
<1>2. PICK k \in fails : \A l \in fails : k <= l
  <2>1. fails \subseteq Nat
    <3> HIDE DEF Upto
    <3> QED
      OBVIOUS
  <2> HIDE DEF fails
  <2> QED
    BY <1>1, <2>1, LeastPlace
<1>3. k \in 0..n /\ ~\E f : Upto(k, f)
  <2> HIDE DEF Upto
  <2> QED
    BY <1>2
<1>4. k # 0
  <2> DEFINE f == [i \in 1..0 |-> << >>]
  <2>1. f = [i \in 1..0 |-> f[i]] /\ \A i \in 1..0 : FALSE
    OBVIOUS
  <2> HIDE DEF f
  <2>2. f = [i \in 1..0 |-> IF i = 1 THEN seqs[i] ELSE f[i - 1] \o seqs[i]]
    BY <2>1
  <2>3. Upto(0, f)
    BY <2>2
  <2> QED
    BY <1>3, <2>3
<1>5. k - 1 \in 0..n /\ k - 1 \notin fails
  <2> HIDE DEF Upto
  <2>1. k \in Nat /\ k - 1 \in 0..n /\ k - 1 < k
    BY <1>3, <1>4
  <2> HIDE DEF fails
  <2> QED
    BY <1>2, <2>1
<1>6. PICK f : Upto(k - 1, f)
  BY <1>5
<1>7. \A i \in 1..k - 1 : f[i] = IF i = 1 THEN seqs[i] ELSE f[i - 1] \o seqs[i]
  <2>1. f = [i \in 1..k - 1 |-> IF i = 1 THEN seqs[i] ELSE f[i - 1] \o seqs[i]]
    BY <1>6
  <2> QED
    BY <2>1, Zenon
<1> DEFINE next == IF k = 1 THEN seqs[k] ELSE f[k - 1] \o seqs[k]
           g == [i \in 1..k |-> IF i = k THEN next ELSE f[i]]
<1>8. \A i \in 1..k : g[i] = IF i = 1 THEN seqs[i] ELSE g[i - 1] \o seqs[i]
  <2> TAKE i \in 1..k
  <2>1. CASE i = k
    <3>1. g[i] = next
      BY <2>1
    <3>2. k # 1 => g[k - 1] = f[k - 1]
      <4>1. k # 1 => k - 1 \in 1..k /\ k - 1 # k
        BY <1>3, <1>4
      <4> HIDE DEF next
      <4> QED
        BY <4>1
    <3> HIDE DEF g
    <3> QED
      BY <2>1, <3>1, <3>2
  <2>2. CASE i # k
    <3>1. i \in 1..k - 1 /\ (i # 1 => i - 1 \in 1..k /\ i - 1 # k)
      BY <1>3, <2>2
    <3>2. g[i] = f[i] /\ (i # 1 => g[i - 1] = f[i - 1])
      <4> HIDE DEF next
      <4> QED
        BY <2>2, <3>1
    <3> HIDE DEF g
    <3> QED
      BY <1>7, <3>1, <3>2
  <2> QED
    BY <2>1, <2>2
<1>9. g = [i \in 1..k |-> g[i]]
  <2> HIDE DEF next
  <2> QED
    OBVIOUS
<1> HIDE DEF g
<1>10. g = [i \in 1..k |-> IF i = 1 THEN seqs[i] ELSE g[i - 1] \o seqs[i]]
  BY <1>8, <1>9
<1>11. Upto(k, g)
  BY <1>10
<1> QED
  BY <1>3, <1>11

\* What a list made of the first k lists has of them.
FlattensTo(acc, seqs, k) ==
    /\ IsSeq(acc)
    /\ acc = << >> => \A i \in 1..k : seqs[i] = << >>
    /\ (\A i \in 1..k : AllOpaque(seqs[i])) => AllOpaque(acc)
    /\ \A s : Misses(acc, s) => \A i \in 1..k : Misses(seqs[i], s)
    /\ \A s, entry : Answers(acc, s, entry) =>
         \E i \in 1..k : /\ Answers(seqs[i], s, entry)
                         /\ \A j \in 1..i - 1 : Misses(seqs[j], s)

\* One list more.
LEMMA FlattensOn ==
    ASSUME NEW seqs, NEW k \in Nat, k > 1, NEW acc, FlattensTo(acc, seqs, k - 1), IsSeq(seqs[k])
    PROVE  FlattensTo(acc \o seqs[k], seqs, k)
<1> DEFINE b == seqs[k]
           c == acc \o b
<1>1. IsSeq(acc) /\ IsSeq(b)
  BY DEF FlattensTo
<1>2. \A i \in 1..k : i \in 1..k - 1 \/ i = k
  OBVIOUS
<1>3. \A i \in 1..k - 1 : i \in 1..k
  OBVIOUS
<1>4. IsSeq(c)
  BY <1>1, OneAfterAnother
<1>5. c = << >> => acc = << >> /\ b = << >>
  BY <1>1, BothLists
<1>6. AllOpaque(acc) /\ AllOpaque(b) => AllOpaque(c)
  BY <1>1, BothLists
<1>7. \A s : Misses(c, s) => Misses(acc, s) /\ Misses(b, s)
  BY <1>1, BothLists
<1>8. \A s, entry : Answers(c, s, entry) =>
         Answers(acc, s, entry) \/ (Misses(acc, s) /\ Answers(b, s, entry))
  BY <1>1, BothLists
<1>9. b = seqs[k]
  OBVIOUS
<1> HIDE DEF b, c
<1>10. c = << >> => \A i \in 1..k : seqs[i] = << >>
  BY <1>2, <1>5, <1>9 DEF FlattensTo
<1>11. (\A i \in 1..k : AllOpaque(seqs[i])) => AllOpaque(c)
  <2> SUFFICES ASSUME \A i \in 1..k : AllOpaque(seqs[i]) PROVE AllOpaque(c)
    OBVIOUS
  <2>1. AllOpaque(acc)
    BY <1>3 DEF FlattensTo
  <2>2. AllOpaque(b)
    BY <1>9
  <2> QED
    BY <1>6, <2>1, <2>2
<1>12. \A s : Misses(c, s) => \A i \in 1..k : Misses(seqs[i], s)
  BY <1>2, <1>7, <1>9 DEF FlattensTo
<1>13. ASSUME NEW s, NEW entry, Answers(c, s, entry)
       PROVE  \E i \in 1..k : /\ Answers(seqs[i], s, entry)
                              /\ \A j \in 1..i - 1 : Misses(seqs[j], s)
  <2>1. CASE Answers(acc, s, entry)
    BY <1>3, <2>1 DEF FlattensTo
  <2>2. CASE Misses(acc, s) /\ Answers(b, s, entry)
    <3>1. \A j \in 1..k - 1 : Misses(seqs[j], s)
      BY <2>2 DEF FlattensTo
    <3>2. k \in 1..k
      OBVIOUS
    <3> QED
      BY <1>9, <2>2, <3>1, <3>2
  <2> QED
    BY <1>8, <1>13, <2>1, <2>2
<1> QED
  BY <1>4, <1>10, <1>11, <1>12, <1>13 DEF FlattensTo, c, b

\* What FlattenSeq has of the lists.
LEMMA Flattened ==
    ASSUME NEW n \in Nat, NEW seqs, seqs = [i \in 1..n |-> seqs[i]],
           \A i \in 1..n : IsSeq(seqs[i])
    PROVE  FlattensTo(FlattenSeq(seqs), seqs, n)
<1>1. Len(seqs) = n
  OBVIOUS
<1>2. CASE n = 0
  <2>1. FlattenSeq(seqs) = << >>
    BY <1>1, <1>2 DEF FlattenSeq
  <2>2. IsSeq(<< >>) /\ DOMAIN << >> = {}
    BY DEF IsSeq
  <2>3. \A i \in 1..n : FALSE
    BY <1>2
  <2>4. AllOpaque(<< >>) /\ \A s, entry : ~Answers(<< >>, s, entry)
    BY <2>2 DEF AllOpaque, Answers
  <2> QED
    BY <2>1, <2>2, <2>3, <2>4 DEF FlattensTo
<1>3. CASE n # 0
  <2> DEFINE flat == CHOOSE flat : IsFlattening(flat, seqs)
             fails == {k \in 1..n : ~FlattensTo(flat[k], seqs, k)}
  <2>1. FlattenSeq(seqs) = flat[n]
    BY <1>1, <1>3 DEF FlattenSeq, IsFlattening
  <2>2. IsFlattening(flat, seqs)
    BY <1>1, FlatteningExists
  <2> HIDE DEF flat
  <2>3. \A i \in 1..n : flat[i] = IF i = 1 THEN seqs[i] ELSE flat[i - 1] \o seqs[i]
    <3>1. flat = [i \in 1..n |-> IF i = 1 THEN seqs[i] ELSE flat[i - 1] \o seqs[i]]
      BY <1>1, <2>2 DEF IsFlattening
    <3> QED
      BY <3>1, Zenon
  <2>4. SUFFICES ASSUME fails # {} PROVE FALSE
    <3>1. n \in 1..n
      BY <1>3
    <3> QED
      BY <2>1, <3>1
  <2>5. PICK k \in fails : \A l \in fails : k <= l
    <3>1. fails \subseteq Nat
      OBVIOUS
    <3> HIDE DEF fails
    <3> QED
      BY <2>4, <3>1, LeastPlace
  <2>6. k \in 1..n /\ ~FlattensTo(flat[k], seqs, k)
    BY <2>5
  <2>7. k # 1
    <3>1. 1 \in 1..n /\ flat[1] = seqs[1] /\ IsSeq(seqs[1])
      BY <1>3, <2>3
    <3>2. \A i \in 1..1 : i = 1
      OBVIOUS
    <3>3. 1 \in 1..1 /\ \A j \in 1..1 - 1 : FALSE
      OBVIOUS
    <3>4. FlattensTo(seqs[1], seqs, 1)
      BY <3>1, <3>2, <3>3 DEF FlattensTo
    <3> QED
      BY <2>6, <3>1, <3>4
  <2>8. k - 1 \in 1..n /\ k - 1 \notin fails /\ k \in Nat /\ k > 1
    BY <2>5, <2>6, <2>7
  <2>9. FlattensTo(flat[k - 1], seqs, k - 1)
    BY <2>8
  <2>10. flat[k] = flat[k - 1] \o seqs[k] /\ IsSeq(seqs[k])
    BY <2>3, <2>6, <2>7
  <2> HIDE DEF fails
  <2>11. FlattensTo(flat[k - 1] \o seqs[k], seqs, k)
    BY <2>8, <2>9, <2>10, FlattensOn
  <2> QED
    BY <2>6, <2>10, <2>11
<1> QED
  BY <1>2, <1>3

-----------------------------------------------------------------------------
(* What Django finds.                                                      *)

\* No match, or a view and keyword arguments.
IsOutcome(o) ==
    o = NoMatch \/ (o.view # "none" /\ o = [view |-> o.view, kwargs |-> o.kwargs]
                    /\ o.kwargs = [name \in DOMAIN o.kwargs |-> o.kwargs[name]])

\* What an outcome is.
LEMMA MakesOutcome ==
    ASSUME NEW view, view # "none", NEW kwargs, kwargs = [name \in DOMAIN kwargs |-> kwargs[name]]
    PROVE  IsOutcome([view |-> view, kwargs |-> kwargs]) /\ [view |-> view, kwargs |-> kwargs] # NoMatch
BY DEF IsOutcome, NoMatch

\* Keyword arguments on top of others are a function, and it does not matter
\* which are put together first.
LEMMA BothIs ==
    /\ \A a, b : Both(a, b) = [name \in DOMAIN Both(a, b) |-> Both(a, b)[name]]
    /\ \A a, b, c : Both(Both(a, b), c) = Both(a, Both(b, c))
<1>1. \A a, b : DOMAIN Both(a, b) = DOMAIN a \cup DOMAIN b
  BY DEF Both
<1>2. \A a, b : \A name \in DOMAIN a \cup DOMAIN b :
        Both(a, b)[name] = IF name \in DOMAIN a THEN a[name] ELSE b[name]
  BY DEF Both
<1>3. \A a, b : Both(a, b) = [name \in DOMAIN a \cup DOMAIN b |-> Both(a, b)[name]]
  BY <1>2 DEF Both
<1>4. ASSUME NEW a, NEW b, NEW c PROVE Both(Both(a, b), c) = Both(a, Both(b, c))
  <2>1. PICK ab : ab = Both(a, b)
    OBVIOUS
  <2>2. PICK bc : bc = Both(b, c)
    OBVIOUS
  <2>3. DOMAIN ab = DOMAIN a \cup DOMAIN b /\ DOMAIN bc = DOMAIN b \cup DOMAIN c
    BY <1>1, <2>1, <2>2
  <2>4. \A name \in DOMAIN ab : ab[name] = IF name \in DOMAIN a THEN a[name] ELSE b[name]
    BY <1>2, <2>1, <2>3
  <2>5. \A name \in DOMAIN bc : bc[name] = IF name \in DOMAIN b THEN b[name] ELSE c[name]
    BY <1>2, <2>2, <2>3
  <2>6. Both(ab, c) = Both(a, bc)
    BY <2>3, <2>4, <2>5 DEF Both
  <2> QED
    BY <2>1, <2>2, <2>6
<1> QED
  BY <1>3, <1>4

\* The first match of several outcomes.
LEMMA FirstOf ==
    ASSUME NEW n \in Nat, NEW outs, DOMAIN outs = 1..n
    PROVE  /\ (\A i \in 1..n : outs[i] = NoMatch) => FirstMatch(outs) = NoMatch
           /\ FirstMatch(outs) = NoMatch \/ \E i \in 1..n : FirstMatch(outs) = outs[i]
           /\ \A i \in 1..n : outs[i] # NoMatch /\ (\A j \in 1..i - 1 : outs[j] = NoMatch)
                                => FirstMatch(outs) = outs[i]
<1> DEFINE hits == {i \in DOMAIN outs : outs[i] # NoMatch}
           first == CHOOSE i \in hits : \A j \in hits : i <= j
<1>1. hits = {} => FirstMatch(outs) = NoMatch
  BY DEF FirstMatch
<1>2. hits # {} => FirstMatch(outs) = outs[first]
  BY DEF FirstMatch
<1>3. hits # {} => first \in hits /\ \A j \in hits : first <= j
  <2>1. hits \subseteq Nat
    OBVIOUS
  <2> HIDE DEF hits
  <2> QED
    BY <2>1, LeastPlace
<1> HIDE DEF first
<1>4. (\A i \in 1..n : outs[i] = NoMatch) => hits = {}
  OBVIOUS
<1>5. hits # {} => first \in 1..n
  BY <1>3
<1>6. ASSUME NEW i \in 1..n, outs[i] # NoMatch, \A j \in 1..i - 1 : outs[j] = NoMatch
      PROVE  FirstMatch(outs) = outs[i]
  <2>1. i \in hits
    BY <1>6
  <2>2. first <= i /\ first \in 1..n /\ outs[first] # NoMatch
    BY <1>3, <2>1
  <2>3. ~(first \in 1..i - 1)
    BY <1>6, <2>2
  <2>4. first = i
    BY <2>2, <2>3
  <2> QED
    BY <1>2, <2>1, <2>4
<1> HIDE DEF hits
<1> QED
  BY <1>1, <1>2, <1>4, <1>5, <1>6

\* What URLPattern.resolve returns is an outcome.
LEMMA PatternOutcome ==
    ASSUME NEW pattern, pattern.view # "none", NEW s
    PROVE  /\ IsOutcome(ResolvePattern(pattern, s))
           /\ ResolvePattern(pattern, s) = NoMatch <=> Matches(pattern.parts, s, {Len(s) + 1}) = {}
<1> DEFINE cuts == Matches(pattern.parts, s, {Len(s) + 1})
           kwargs == Both(pattern.defaults, Captured(pattern.parts, s, Greediest(cuts)))
<1>1. ResolvePattern(pattern, s) = IF cuts = {} THEN NoMatch ELSE [view |-> pattern.view, kwargs |-> kwargs]
  BY DEF ResolvePattern
<1>2. kwargs = [name \in DOMAIN kwargs |-> kwargs[name]]
  BY BothIs
<1> HIDE DEF cuts, kwargs
<1>3. IsOutcome([view |-> pattern.view, kwargs |-> kwargs]) /\ [view |-> pattern.view, kwargs |-> kwargs] # NoMatch
  BY <1>2, MakesOutcome
<1>4. IsOutcome(NoMatch)
  BY DEF IsOutcome
<1> QED
  BY <1>1, <1>3, <1>4 DEF cuts

\* So is what an include makes of one.
LEMMA IncludingIs ==
    ASSUME NEW pattern, NEW s, NEW cut, NEW sub, IsOutcome(sub)
    PROVE  /\ sub = NoMatch => Including(pattern, s, cut, sub) = NoMatch
           /\ sub # NoMatch =>
                /\ Including(pattern, s, cut, sub) # NoMatch
                /\ Including(pattern, s, cut, sub) =
                     [view |-> sub.view,
                      kwargs |-> Both(sub.kwargs,
                                      Both(pattern.defaults, Captured(pattern.parts, s, cut)))]
           /\ IsOutcome(Including(pattern, s, cut, sub))
<1> DEFINE outer == Both(pattern.defaults, Captured(pattern.parts, s, cut))
           kwargs == Both(sub.kwargs, outer)
<1>1. sub = NoMatch => Including(pattern, s, cut, sub) = NoMatch
  BY DEF Including
<1>2. IsOutcome(NoMatch)
  BY DEF IsOutcome
<1>3. ASSUME sub # NoMatch
      PROVE  /\ Including(pattern, s, cut, sub) # NoMatch
             /\ Including(pattern, s, cut, sub) = [view |-> sub.view, kwargs |-> kwargs]
             /\ IsOutcome(Including(pattern, s, cut, sub))
  <2>1. sub.view # "none" /\ sub = [view |-> sub.view, kwargs |-> sub.kwargs]
    BY <1>3 DEF IsOutcome
  <2>2. Including(pattern, s, cut, sub) = [sub EXCEPT !.kwargs = kwargs]
    BY <1>3 DEF Including
  <2>3. kwargs = [name \in DOMAIN kwargs |-> kwargs[name]]
    BY BothIs
  <2> HIDE DEF kwargs
  <2>4. \A v, k, l : [[view |-> v, kwargs |-> k] EXCEPT !.kwargs = l] = [view |-> v, kwargs |-> l]
    OBVIOUS
  <2>5. Including(pattern, s, cut, sub) = [view |-> sub.view, kwargs |-> kwargs]
    BY <2>1, <2>2, <2>4
  <2>6. IsOutcome([view |-> sub.view, kwargs |-> kwargs]) /\ [view |-> sub.view, kwargs |-> kwargs] # NoMatch
    BY <2>1, <2>3, MakesOutcome
  <2> QED
    BY <2>5, <2>6
<1> QED
  BY <1>1, <1>2, <1>3

\* The patterns of a list.
LEMMA PatternsOf ==
    ASSUME NEW conf \in Confs
    PROVE  /\ Len(conf) \in Nat /\ DOMAIN conf = 1..Len(conf)
           /\ \A i \in 1..Len(conf) : IsPattern(conf[i])
<1>1. conf \in Seq(Range(conf)) /\ \A i \in DOMAIN conf : IsPattern(conf[i])
  BY ConfsAssumption
<1>2. Len(conf) \in Nat /\ DOMAIN conf = 1..Len(conf)
  BY <1>1, LenProperties
<1> QED
  BY <1>1, <1>2

\* What an include finds, of which parts match at all.
LEMMA IncludeOutcome ==
    ASSUME NEW resolve, NEW pattern, pattern.type = "include", NEW s
    PROVE  LET cuts == Matches(pattern.parts, s, 1..Len(s) + 1)
               cut == Greediest(cuts)
           IN  /\ cuts = {} => OutcomeOf(resolve, pattern, s) = NoMatch
               /\ cuts # {} =>
                    OutcomeOf(resolve, pattern, s) =
                      Including(pattern, s, cut, resolve[pattern.patterns][After(pattern.parts, s, cut)])
BY DEF OutcomeOf

\* What Django finds for one pattern of a list is an outcome, if it is for
\* what the list includes.
LEMMA EachOutcome ==
    ASSUME NEW conf \in Confs, NEW s \in Seq(Chars), NEW i \in 1..Len(conf),
           conf[i].type = "include" =>
               \A rest \in Seq(Chars) : IsOutcome(Resolve[conf[i].patterns][rest])
    PROVE  IsOutcome(OutcomeOf(Resolve, conf[i], s))
<1> DEFINE pattern == conf[i]
<1>1. IsPattern(pattern)
  BY PatternsOf
<1> HIDE DEF pattern
<1>2. CASE pattern.type = "regex"
  <2>1. OutcomeOf(Resolve, pattern, s) = [view |-> pattern.view, kwargs |-> << >>]
    BY <1>2 DEF OutcomeOf
  <2>2. pattern.view # "none"
    BY <1>1, <1>2 DEF IsPattern
  <2>3. << >> = [name \in DOMAIN << >> |-> << >>[name]]
    OBVIOUS
  <2> QED
    BY <2>1, <2>2, <2>3, MakesOutcome DEF pattern
<1>3. CASE pattern.type = "path"
  <2>1. OutcomeOf(Resolve, pattern, s) = ResolvePattern(pattern, s)
    BY <1>3 DEF OutcomeOf
  <2>2. pattern.view # "none"
    BY <1>1, <1>3 DEF IsPattern
  <2> QED
    BY <2>1, <2>2, PatternOutcome DEF pattern
<1>4. CASE pattern.type = "include"
  <2> DEFINE cuts == Matches(pattern.parts, s, 1..Len(s) + 1)
             cut == Greediest(cuts)
  <2>1. CASE cuts = {}
    <3>1. OutcomeOf(Resolve, pattern, s) = NoMatch
      BY <1>4, <2>1, IncludeOutcome
    <3> QED
      BY <3>1 DEF IsOutcome, pattern
  <2>2. CASE cuts # {}
    <3>1. OutcomeOf(Resolve, pattern, s) =
            Including(pattern, s, cut, Resolve[pattern.patterns][After(pattern.parts, s, cut)])
      BY <1>4, <2>2, IncludeOutcome
    <3>2. Len(pattern.parts) \in Nat
      BY <1>1, <1>4 DEF IsPattern
    <3>3. After(pattern.parts, s, cut) \in Seq(Chars)
      BY <2>2, <3>2, LeavesPath
    <3>4. IsOutcome(Resolve[pattern.patterns][After(pattern.parts, s, cut)])
      BY <1>4, <3>3 DEF pattern
    <3> HIDE DEF cut
    <3>5. IsOutcome(Including(pattern, s, cut, Resolve[pattern.patterns][After(pattern.parts, s, cut)]))
      BY <3>4, IncludingIs
    <3> QED
      BY <3>1, <3>5 DEF pattern
  <2> QED
    BY <2>1, <2>2
<1> QED
  BY <1>1, <1>2, <1>3, <1>4 DEF IsPattern

\* And for a list.
LEMMA ListOutcome ==
    ASSUME NEW conf \in Confs, NEW s \in Seq(Chars),
           \A i \in 1..Len(conf) : IsOutcome(OutcomeOf(Resolve, conf[i], s))
    PROVE  IsOutcome(Resolve[conf][s])
<1> DEFINE outs == [i \in DOMAIN conf |-> OutcomeOf(Resolve, conf[i], s)]
<1>1. Len(conf) \in Nat /\ DOMAIN conf = 1..Len(conf)
  BY PatternsOf
<1>2. DOMAIN outs = 1..Len(conf) /\ \A i \in 1..Len(conf) : IsOutcome(outs[i])
  BY <1>1
<1>3. Resolve[conf][s] = FirstMatch(outs)
  BY ResolveIs
<1> HIDE DEF outs
<1>4. FirstMatch(outs) = NoMatch \/ \E i \in 1..Len(conf) : FirstMatch(outs) = outs[i]
  BY <1>1, <1>2, FirstOf
<1>5. IsOutcome(NoMatch)
  BY DEF IsOutcome
<1> QED
  BY <1>2, <1>3, <1>4, <1>5

\* The depth of a list, and a least list among some.
LEMMA Shallowest ==
    ASSUME NEW bad, bad \subseteq Confs, bad # {}
    PROVE  \E conf \in bad : \A i \in 1..Len(conf) :
             conf[i].type = "include" => conf[i].patterns \in Confs \ bad
<1> DEFINE depths == {Depth[conf] : conf \in bad}
<1>1. \A conf \in Confs : Depth[conf] \in Nat
  BY DepthAssumption
<1>2. depths \subseteq Nat /\ depths # {}
  BY <1>1
<1>3. PICK d \in depths : \A e \in depths : d <= e
  <2> HIDE DEF depths
  <2> QED
    BY <1>2, LeastPlace
<1>4. PICK conf \in bad : Depth[conf] = d
  BY <1>3
<1>5. ASSUME NEW i \in 1..Len(conf), conf[i].type = "include"
      PROVE  conf[i].patterns \in Confs \ bad
  <2>1. DOMAIN conf = 1..Len(conf) /\ conf \in Confs
    BY PatternsOf
  <2>2. conf[i].patterns \in Confs /\ Depth[conf[i].patterns] < Depth[conf]
    BY <1>5, <2>1, DepthAssumption
  <2>3. Depth[conf[i].patterns] \in Nat /\ Depth[conf] \in Nat
    BY <1>1, <2>1, <2>2
  <2>4. conf[i].patterns \in bad => d <= Depth[conf[i].patterns]
    BY <1>3
  <2> QED
    BY <1>4, <2>2, <2>3, <2>4
<1> QED
  BY <1>5

\* Whatever Django finds is an outcome.
LEMMA ResolveOutcome ==
    ASSUME NEW conf \in Confs
    PROVE  \A s \in Seq(Chars) : IsOutcome(Resolve[conf][s])
<1> DEFINE Fine(c) == \A s \in Seq(Chars) : IsOutcome(Resolve[c][s])
           bad == {c \in Confs : ~Fine(c)}
<1> HIDE DEF Fine
<1>1. SUFFICES ASSUME bad # {} PROVE FALSE
  BY DEF Fine
<1>2. PICK c \in bad : \A i \in 1..Len(c) : c[i].type = "include" => c[i].patterns \in Confs \ bad
  <2>1. bad \subseteq Confs
    OBVIOUS
  <2> HIDE DEF bad
  <2> QED
    BY <1>1, <2>1, Shallowest
<1>3. c \in Confs /\ ~Fine(c)
  BY <1>2
<1>4. \A i \in 1..Len(c) : c[i].type = "include" => Fine(c[i].patterns)
  BY <1>2
<1>5. ASSUME NEW s \in Seq(Chars) PROVE IsOutcome(Resolve[c][s])
  <2>1. ASSUME NEW i \in 1..Len(c) PROVE IsOutcome(OutcomeOf(Resolve, c[i], s))
    <3>1. c[i].type = "include" => \A rest \in Seq(Chars) : IsOutcome(Resolve[c[i].patterns][rest])
      BY <1>4 DEF Fine
    <3> QED
      BY <1>3, <3>1, EachOutcome
  <2> QED
    BY <1>3, <2>1, ListOutcome
<1> QED
  BY <1>3, <1>5 DEF Fine

-----------------------------------------------------------------------------
(* What is below a prefix.                                                 *)

\* What a prefix leaves of a path, as Django matches it, and an outcome with
\* what the prefix captures.
Remains(prefix, s) == After(prefix, s, Greediest(Matches(prefix, s, 1..Len(s) + 1)))

Wrapped(prefix, s, sub) ==
    LET cuts == Matches(prefix, s, 1..Len(s) + 1)
    IN  IF cuts = {} \/ sub = NoMatch THEN NoMatch
        ELSE [view |-> sub.view,
              kwargs |-> Both(sub.kwargs, Captured(prefix, s, Greediest(cuts)))]

\* A prefix and what it leaves.
LEMMA RemainsIs ==
    ASSUME NEW prefix \in Seq(KnownParts), NEW s \in Seq(Chars),
           Matches(prefix, s, 1..Len(s) + 1) # {}
    PROVE  LET cut == Greediest(Matches(prefix, s, 1..Len(s) + 1))
           IN  /\ Remains(prefix, s) \in Seq(Chars)
               /\ cut \in Matches(prefix, s, 1..Len(s) + 1)
               /\ cut[Len(prefix)] \in 1..Len(s) + 1
               /\ Len(Remains(prefix, s)) = Len(s) + 1 - cut[Len(prefix)]
<1> DEFINE cut == Greediest(Matches(prefix, s, 1..Len(s) + 1))
<1>1. Len(prefix) \in Nat
  BY KnownRoute
<1>2. /\ cut \in Matches(prefix, s, 1..Len(s) + 1)
      /\ cut[Len(prefix)] \in 1..Len(s) + 1
      /\ After(prefix, s, cut) \in Seq(Chars)
  BY <1>1, LeavesPath
<1>3. Remains(prefix, s) = After(prefix, s, cut)
  BY DEF Remains
<1> HIDE DEF cut
<1>4. After(prefix, s, cut) = SubSeq(s, cut[Len(prefix)], Len(s))
  BY DEF After
<1>5. Len(SubSeq(s, cut[Len(prefix)], Len(s))) = Len(s) + 1 - cut[Len(prefix)]
  BY <1>2, RestIsPath
<1> QED
  BY <1>2, <1>3, <1>4, <1>5 DEF cut

\* A safe route that the scan does not find is one of which Django does not
\* find the prefix or, in what it leaves, the rest.
LEMMA ScanMisses ==
    ASSUME NEW prefix \in Seq(KnownParts), NEW rest \in Seq(KnownParts),
           Safe(prefix \o rest), NEW s \in Seq(Chars), Scans(prefix \o rest, s) = {},
           Matches(prefix, s, 1..Len(s) + 1) # {},
           NEW tail, tail = Remains(prefix, s)
    PROVE  Matches(rest, tail, {Len(tail) + 1}) = {}
<1> DEFINE cut == Greediest(Matches(prefix, s, 1..Len(s) + 1))
           whole == prefix \o rest
<1>1. SUFFICES ASSUME NEW sub \in Matches(rest, tail, {Len(tail) + 1}) PROVE FALSE
  OBVIOUS
<1>2. IsRoute(prefix) /\ IsRoute(rest) /\ Len(prefix) \in Nat /\ Len(rest) \in Nat
  BY KnownRoute
<1>3. IsRoute(whole) /\ Len(whole) = Len(prefix) + Len(rest) /\ DOMAIN whole = 1..Len(whole)
  BY <1>2, Concatenated
<1>4. cut \in Matches(prefix, s, 1..Len(s) + 1) /\ cut[Len(prefix)] \in 1..Len(s) + 1
  BY RemainsIs
<1>5. tail \in Seq(Chars) /\ Len(tail) = Len(s) + 1 - cut[Len(prefix)]
  BY RemainsIs
<1>6. tail = After(prefix, s, cut)
  BY DEF Remains
<1> HIDE DEF cut
<1>7. Len(tail) + 1 \in 1..Len(tail) + 1 /\ Len(s) \in Nat /\ Len(tail) \in Nat
  BY <1>5
<1>8. sub \in Matches(rest, tail, 1..Len(tail) + 1) /\ sub[Len(rest)] = Len(tail) + 1
  <2>1. PICK end \in 1..Len(tail) + 1 : end = Len(tail) + 1
    BY <1>7
  <2>2. sub \in Matches(rest, tail, {end})
    BY <1>1, <2>1
  <2>3. sub \in Matches(rest, tail, 1..Len(tail) + 1) /\ sub[Len(rest)] = end
    BY <1>2, <1>5, <2>2, EndsAt
  <2> QED
    BY <2>1, <2>3
<1> DEFINE joined == Joined(prefix, rest, cut, sub)
<1>9. joined \in Matches(whole, s, 1..Len(s) + 1)
  BY <1>2, <1>4, <1>6, <1>8, PartsJoin
<1>10. joined[Len(prefix) + Len(rest)] = sub[Len(rest)] + cut[Len(prefix)] - 1
  BY <1>2, <1>4, <1>6, <1>8, PartsJoin
<1>11. joined[Len(whole)] = Len(s) + 1
  BY <1>3, <1>4, <1>5, <1>7, <1>8, <1>10
<1> HIDE DEF joined, whole
<1>12. joined \in Cuts(Len(whole), Len(s) + 1)
       /\ \A i \in 1..Len(whole) : Language(whole[i], Piece(s, joined, i))
  BY <1>3, <1>9, <1>11, MatchPlaces
<1>13. Len(s) + 1 \in 1..Len(s) + 1 /\ Safe(whole)
  BY <1>7 DEF whole
<1>14. ASSUME NEW i \in 1..Len(whole) PROVE joined[i] = Consume(whole[i], s, joined[i - 1])
  BY <1>3, <1>12, <1>13, FittingIsScanned
<1>15. joined \in Scans(whole, s)
  BY <1>3, <1>12, <1>14 DEF Scans
<1> QED
  BY <1>15 DEF whole

\* A route of the table finds what Django finds for the pattern of the route,
\* in what the includes above it leave.
LEMMA RouteHits ==
    ASSUME NEW prefix \in Seq(KnownParts), NEW pattern, pattern.parts \in Seq(KnownParts),
           pattern.view # "none", Safe(prefix \o pattern.parts), NEW s, IsPath(s),
           NEW entry, entry.parts = Merge(prefix \o pattern.parts),
           entry.view = pattern.view, entry.defaults = pattern.defaults
    PROVE  TryMatch(entry, s) = Wrapped(prefix, s, ResolvePattern(pattern, Remains(prefix, s)))
<1> DEFINE rest == pattern.parts
           whole == prefix \o rest
           merged == Merge(whole)
           scans == Scans(whole, s)
           cuts == Matches(prefix, s, 1..Len(s) + 1)
           cut == Greediest(cuts)
           tail == Remains(prefix, s)
           subs == Matches(rest, tail, {Len(tail) + 1})
           inner == Captured(rest, tail, Greediest(subs))
           outer == Captured(prefix, s, cut)
<1>1. s \in Seq(Chars) /\ whole \in Seq(KnownParts)
  BY DEF IsPath
<1>2. IsRoute(prefix) /\ IsRoute(rest)
  BY KnownRoute
<1>3. tail = After(prefix, s, cut)
  BY DEF Remains
<1>4. scans # {} <=> cuts # {} /\ subs # {}
  BY <1>2, <1>3, IncludeIsOneRoute
<1>5. \A scan \in scans : Captured(whole, s, scan) = Both(inner, outer)
  BY <1>2, <1>3, IncludeIsOneRoute
<1>6. Scans(merged, s) = {} <=> scans = {}
  BY <1>1, MergedScans
<1>7. \A c \in Scans(merged, s) : \E scan \in scans : Captured(merged, s, c) = Captured(whole, s, scan)
  BY <1>1, MergedScans
<1>8. ResolvePattern(pattern, tail) =
        IF subs = {} THEN NoMatch
        ELSE [view |-> pattern.view, kwargs |-> Both(pattern.defaults, inner)]
  BY DEF ResolvePattern
<1>9. TryMatch(entry, s) =
        IF Scans(merged, s) = {} THEN NoMatch
        ELSE [view |-> pattern.view,
              kwargs |-> Both(pattern.defaults,
                              Captured(merged, s, CHOOSE c \in Scans(merged, s) : TRUE))]
  BY DEF TryMatch
<1>10. Wrapped(prefix, s, ResolvePattern(pattern, tail)) =
        IF cuts = {} \/ ResolvePattern(pattern, tail) = NoMatch THEN NoMatch
        ELSE [view |-> ResolvePattern(pattern, tail).view,
              kwargs |-> Both(ResolvePattern(pattern, tail).kwargs, outer)]
  BY DEF Wrapped
<1>11. ResolvePattern(pattern, tail) = NoMatch <=> subs = {}
  BY PatternOutcome
<1> HIDE DEF merged, whole, scans, cuts, cut, subs, inner, outer, rest, tail
<1>12. CASE scans = {}
  BY <1>4, <1>6, <1>9, <1>10, <1>11, <1>12 DEF tail
<1>13. CASE scans # {}
  <2> DEFINE c == CHOOSE c \in Scans(merged, s) : TRUE
  <2>1. c \in Scans(merged, s)
    BY <1>6, <1>13
  <2>2. Captured(merged, s, c) = Both(inner, outer)
    BY <1>5, <1>7, <2>1
  <2>3. TryMatch(entry, s) = [view |-> pattern.view, kwargs |-> Both(pattern.defaults, Captured(merged, s, c))]
    BY <1>6, <1>9, <1>13
  <2> HIDE DEF c
  <2>4. cuts # {} /\ subs # {}
    BY <1>4, <1>13
  <2>5. ResolvePattern(pattern, tail) = [view |-> pattern.view, kwargs |-> Both(pattern.defaults, inner)]
    BY <1>8, <2>4
  <2>6. Wrapped(prefix, s, ResolvePattern(pattern, tail)) =
          [view |-> pattern.view, kwargs |-> Both(Both(pattern.defaults, inner), outer)]
    BY <1>10, <1>11, <2>4, <2>5
  <2>7. Both(Both(pattern.defaults, inner), outer) = Both(pattern.defaults, Both(inner, outer))
    BY BothIs
  <2> QED
    BY <2>2, <2>3, <2>6, <2>7 DEF tail
<1> QED
  BY <1>12, <1>13

\* No keyword arguments on top of some, or below them, change nothing.
LEMMA BothNone ==
    ASSUME NEW f, f = [name \in DOMAIN f |-> f[name]]
    PROVE  Both(<< >>, f) = f /\ Both(f, << >>) = f
<1>1. DOMAIN << >> = {}
  OBVIOUS
<1>2. Both(<< >>, f) = [name \in DOMAIN f |-> f[name]]
  BY <1>1 DEF Both
<1>3. Both(f, << >>) = [name \in DOMAIN f |-> f[name]]
  BY <1>1 DEF Both
<1> QED
  BY <1>2, <1>3

\* A prefix made longer by an include leaves what the include leaves of what
\* the prefix left, and captures what the two capture.
LEMMA LongerPrefix ==
    ASSUME NEW prefix \in Seq(KnownParts), NEW rest \in Seq(KnownParts),
           Safe(prefix \o rest), NEW s \in Seq(Chars)
    PROVE  LET cuts == Matches(prefix, s, 1..Len(s) + 1)
               tail == Remains(prefix, s)
               subs == Matches(rest, tail, 1..Len(tail) + 1)
               wholes == Matches(prefix \o rest, s, 1..Len(s) + 1)
           IN  /\ wholes # {} <=> cuts # {} /\ subs # {}
               /\ wholes # {} =>
                    /\ Remains(prefix \o rest, s) = Remains(rest, tail)
                    /\ Captured(prefix \o rest, s, Greediest(wholes))
                         = Both(Captured(rest, tail, Greediest(subs)),
                                Captured(prefix, s, Greediest(cuts)))
<1> DEFINE cuts == Matches(prefix, s, 1..Len(s) + 1)
           cut == Greediest(cuts)
           tail == Remains(prefix, s)
           subs == Matches(rest, tail, 1..Len(tail) + 1)
           sub == Greediest(subs)
           whole == prefix \o rest
           wholes == Matches(whole, s, 1..Len(s) + 1)
           joined == Joined(prefix, rest, cut, sub)
           at == cut[Len(prefix)]
           a == sub[Len(rest)]
<1>1. IsRoute(prefix) /\ IsRoute(rest) /\ Len(prefix) \in Nat /\ Len(rest) \in Nat
  BY KnownRoute
<1>2. tail = After(prefix, s, cut)
  BY DEF Remains
<1>3. wholes # {} <=> cuts # {} /\ subs # {}
  BY <1>1, <1>2, GreediestJoins
<1>4. ASSUME wholes # {} PROVE Greediest(wholes) = joined
  BY <1>1, <1>2, <1>4, GreediestJoins
<1>5. ASSUME wholes # {}
      PROVE  /\ Remains(whole, s) = Remains(rest, tail)
             /\ Captured(whole, s, joined) = Both(Captured(rest, tail, sub), Captured(prefix, s, cut))
  <2>1. cuts # {} /\ subs # {}
    BY <1>3, <1>5
  <2>2. tail \in Seq(Chars) /\ Len(tail) = Len(s) + 1 - at
    BY <2>1, RemainsIs
  <2>3. cut \in Matches(prefix, s, 1..Len(s) + 1) /\ at \in 1..Len(s) + 1
    BY <2>1, RemainsIs
  <2> HIDE DEF tail, cut, at
  <2>4. sub \in Matches(rest, tail, 1..Len(tail) + 1) /\ a \in 1..Len(tail) + 1
    BY <2>1, <2>2, RemainsIs
  <2> HIDE DEF sub, a
  <2>5. KeepsPieces(prefix, rest, s, cut, sub)
    BY <1>1, <1>2, <2>3, <2>4, PartsJoin
  <2>6. joined[Len(prefix) + Len(rest)] = a + at - 1
    <3>1. joined[Len(prefix) + Len(rest)] = sub[Len(rest)] + cut[Len(prefix)] - 1
      BY <1>1, <1>2, <2>3, <2>4, PartsJoin
    <3> QED
      BY <3>1 DEF a, at
  <2>7. Len(whole) = Len(prefix) + Len(rest)
    BY <1>1, Concatenated
  <2>8. Captured(whole, s, joined) = Both(Captured(rest, After(prefix, s, cut), sub), Captured(prefix, s, cut))
    BY <1>1, <2>5, CapturedByBoth
  <2> HIDE DEF joined
  <2>9. Remains(whole, s) = SubSeq(s, a + at - 1, Len(s))
    <3>1. Remains(whole, s) = SubSeq(s, joined[Len(whole)], Len(s))
      BY <1>4, <1>5 DEF Remains, After
    <3> QED
      BY <2>6, <2>7, <3>1
  <2>10. Remains(rest, tail) = SubSeq(tail, a, Len(tail))
    BY DEF Remains, After, a, sub
  <2>11. SubSeq(tail, a, Len(tail)) = SubSeq(s, a + at - 1, Len(s))
    <3>1. tail = SubSeq(s, at, Len(s))
      BY <1>2 DEF After, at
    <3> DEFINE b == Len(tail) + 1
    <3>2. b \in 1..Len(tail) + 1 /\ b = Len(tail) + 1
      <4>1. Len(tail) \in Nat
        BY <2>2
      <4> QED
        BY <4>1
    <3> HIDE DEF b
    <3>3. SubSeq(tail, a, b - 1) = SubSeq(s, a + at - 1, b + at - 1 - 1)
      BY <2>3, <2>4, <3>1, <3>2, PieceOfRest
    <3>4. b - 1 = Len(tail) /\ b + at - 1 - 1 = Len(s)
      <4>1. Len(s) \in Nat /\ Len(tail) \in Nat
        BY <2>2
      <4> QED
        BY <2>2, <2>3, <3>2, <4>1
    <3> QED
      BY <3>3, <3>4
  <2> QED
    BY <1>2, <2>8, <2>9, <2>10, <2>11
<1> QED
  BY <1>2, <1>3, <1>4, <1>5

\* So it does not matter which of the two wraps what the included patterns find.
LEMMA IncludeWraps ==
    ASSUME NEW prefix \in Seq(KnownParts), NEW pattern, pattern.type = "include",
           pattern.parts \in Seq(KnownParts), pattern.patterns \in Confs,
           Safe(prefix \o pattern.parts), NEW s \in Seq(Chars)
    PROVE  LET whole == prefix \o pattern.parts
               deep == Wrapped(whole, s, Resolve[pattern.patterns][Remains(whole, s)])
               flat == Wrapped(prefix, s, OutcomeOf(Resolve, pattern, Remains(prefix, s)))
           IN  /\ deep = NoMatch <=> flat = NoMatch
               /\ pattern.defaults = << >> => deep = flat
<1> DEFINE rest == pattern.parts
           whole == prefix \o rest
           cuts == Matches(prefix, s, 1..Len(s) + 1)
           tail == Remains(prefix, s)
           subs == Matches(rest, tail, 1..Len(tail) + 1)
           wholes == Matches(whole, s, 1..Len(s) + 1)
           outer == Captured(prefix, s, Greediest(cuts))
           inner == Captured(rest, tail, Greediest(subs))
           found == Resolve[pattern.patterns][Remains(whole, s)]
           outcome == OutcomeOf(Resolve, pattern, tail)
           deep == Wrapped(whole, s, found)
           flat == Wrapped(prefix, s, outcome)
<1>1. wholes # {} <=> cuts # {} /\ subs # {}
  BY LongerPrefix
<1>2. wholes # {} => Remains(whole, s) = Remains(rest, tail)
  BY LongerPrefix
<1>3. wholes # {} => Captured(whole, s, Greediest(wholes)) = Both(inner, outer)
  BY LongerPrefix
<1>4. subs = {} => outcome = NoMatch
  BY IncludeOutcome
<1>5. subs # {} =>
        outcome = Including(pattern, tail, Greediest(subs), Resolve[pattern.patterns][Remains(rest, tail)])
  BY IncludeOutcome DEF Remains
<1>6. deep = IF wholes = {} \/ found = NoMatch THEN NoMatch
             ELSE [view |-> found.view,
                   kwargs |-> Both(found.kwargs, Captured(whole, s, Greediest(wholes)))]
  BY DEF Wrapped
<1>7. flat = IF cuts = {} \/ outcome = NoMatch THEN NoMatch
             ELSE [view |-> outcome.view, kwargs |-> Both(outcome.kwargs, outer)]
  BY DEF Wrapped
<1>8. wholes # {} => Remains(whole, s) \in Seq(Chars)
  <2>1. whole \in Seq(KnownParts)
    OBVIOUS
  <2> HIDE DEF whole
  <2> QED
    BY <2>1, RemainsIs
<1>9. wholes # {} => IsOutcome(found)
  BY <1>8, ResolveOutcome
<1>10. inner = [name \in DOMAIN inner |-> inner[name]]
  BY CapturedIsFunction
<1> HIDE DEF rest, whole, cuts, subs, wholes, outer, deep, flat
<1>11. CASE wholes = {}
  BY <1>1, <1>4, <1>6, <1>7, <1>11 DEF deep, flat, whole, rest
<1>12. CASE wholes # {} /\ found = NoMatch
  <2>1. outcome = Including(pattern, tail, Greediest(subs), found)
    BY <1>1, <1>2, <1>5, <1>12
  <2>2. outcome = NoMatch
    BY <1>12, <2>1 DEF Including
  <2> QED
    BY <1>6, <1>7, <1>12, <2>2 DEF deep, flat, whole, rest
<1>13. CASE wholes # {} /\ found # NoMatch
  <2>1. outcome = Including(pattern, tail, Greediest(subs), found)
    BY <1>1, <1>2, <1>5, <1>13
  <2>2. IsOutcome(found)
    BY <1>9, <1>13
  <2> HIDE DEF found, outcome, inner
  <2> DEFINE captured == Both(pattern.defaults, Captured(pattern.parts, tail, Greediest(subs)))
  <2>3. Including(pattern, tail, Greediest(subs), found) # NoMatch
    BY <1>13, <2>2, IncludingIs
  <2>4. Including(pattern, tail, Greediest(subs), found) =
          [view |-> found.view, kwargs |-> Both(found.kwargs, captured)]
    BY <1>13, <2>2, IncludingIs
  <2>5. captured = Both(pattern.defaults, inner)
    BY DEF inner, rest
  <2>6. found.view # "none"
    BY <1>13, <2>2 DEF IsOutcome
  <2>7. deep = [view |-> found.view, kwargs |-> Both(found.kwargs, Both(inner, outer))]
    BY <1>3, <1>6, <1>13
  <2> HIDE DEF captured
  <2>8. flat = [view |-> found.view, kwargs |-> Both(Both(found.kwargs, captured), outer)]
    BY <1>1, <1>7, <1>13, <2>1, <2>3, <2>4
  <2>9. deep # NoMatch /\ flat # NoMatch
    BY <2>6, <2>7, <2>8 DEF NoMatch
  <2>10. ASSUME pattern.defaults = << >> PROVE deep = flat
    <3>1. captured = inner
      BY <1>10, <2>5, <2>10, BothNone
    <3>2. Both(Both(found.kwargs, inner), outer) = Both(found.kwargs, Both(inner, outer))
      BY BothIs
    <3> QED
      BY <2>7, <2>8, <3>1, <3>2
  <2> QED
    BY <2>9, <2>10 DEF deep, flat, whole, rest, found, outcome
<1> QED
  BY <1>11, <1>12, <1>13

-----------------------------------------------------------------------------
(* The entries fit what Django finds.                                      *)

\* The entries that _walk makes of something below a prefix, and what Django
\* finds for it: no entries where nothing can be found, only opaque ones where
\* greedy is not enough, nothing found where no entry does, and where an entry
\* matches, the same, if no include has keyword arguments.
Fits(entries, prefix, found, plain) ==
    /\ IsSeq(entries)
    /\ entries = << >> => \A s \in Seq(Chars) : found[s] = NoMatch
    /\ ~Safe(prefix) => AllOpaque(entries)
    /\ \A s \in Seq(Chars) :
         Misses(entries, s) => Wrapped(prefix, s, found[Remains(prefix, s)]) = NoMatch
    /\ plain => \A s, entry :
         IsPath(s) /\ Answers(entries, s, entry) /\ ~entry.opaque
           => TryMatch(entry, s) = Wrapped(prefix, s, found[Remains(prefix, s)])

\* An outcome that is wrapped is no match only if it is none, or the prefix is.
LEMMA WrapsMatch ==
    ASSUME NEW prefix, NEW s, NEW sub, IsOutcome(sub)
    PROVE  Wrapped(prefix, s, sub) = NoMatch <=>
             Matches(prefix, s, 1..Len(s) + 1) = {} \/ sub = NoMatch
<1>1. sub # NoMatch => sub.view # "none"
  BY DEF IsOutcome
<1> QED
  BY <1>1 DEF Wrapped, NoMatch

\* A list of one entry.
LEMMA OneEntry ==
    ASSUME NEW entry
    PROVE  /\ IsSeq(<<entry>>) /\ <<entry>> # << >>
           /\ AllOpaque(<<entry>>) <=> entry.opaque
           /\ \A s : Misses(<<entry>>, s) <=> ~Hit(entry, s)
           /\ \A s, e : Answers(<<entry>>, s, e) => e = entry
<1>1. DOMAIN <<entry>> = {1} /\ <<entry>>[1] = entry /\ <<entry>> # << >>
  OBVIOUS
<1>2. IsSeq(<<entry>>)
  <2>1. <<entry>> \in Seq({entry})
    OBVIOUS
  <2> QED
    BY <2>1, SeqOfItsOwn
<1> DEFINE one == <<entry>>
<1>3. one = <<entry>>
  OBVIOUS
<1> HIDE DEF one
<1>4. AllOpaque(one) <=> entry.opaque
  BY <1>1, <1>3 DEF AllOpaque
<1>5. \A s : Misses(one, s) <=> ~Hit(entry, s)
  BY <1>1, <1>3 DEF Misses
<1>6. \A s, e : Answers(one, s, e) => e = entry
  BY <1>1, <1>3 DEF Answers
<1> QED
  BY <1>1, <1>2, <1>3, <1>4, <1>5, <1>6

\* An opaque entry leaves everything to Django.
LEMMA OpaqueFits ==
    ASSUME NEW prefix, NEW found, NEW plain
    PROVE  Fits(<<Opaque>>, prefix, found, plain)
<1> DEFINE one == <<Opaque>>
<1>1. Opaque.opaque
  BY DEF Opaque
<1>2. IsSeq(one) /\ one # << >>
  BY OneEntry
<1>3. AllOpaque(one)
  BY <1>1, OneEntry
<1>4. \A s : ~Misses(one, s)
  BY <1>1, OneEntry DEF Hit
<1>5. \A s, e : Answers(one, s, e) => e.opaque
  BY <1>1, OneEntry
<1> HIDE DEF one
<1> QED
  BY <1>2, <1>3, <1>4, <1>5 DEF Fits, one

\* A route of the table.
LEMMA RouteFits ==
    ASSUME NEW prefix \in Seq(KnownParts), NEW pattern, pattern.type = "path",
           pattern.parts \in Seq(KnownParts), pattern.view # "none", NEW plain
    PROVE  Fits(LeafEntries(pattern, prefix), prefix,
                [s \in Seq(Chars) |-> OutcomeOf(Resolve, pattern, s)], plain)
<1> DEFINE rest == pattern.parts
           whole == prefix \o rest
           merged == Merge(whole)
           entry == [opaque |-> FALSE, parts |-> merged, view |-> pattern.view,
                     defaults |-> pattern.defaults]
           one == <<entry>>
           found == [s \in Seq(Chars) |-> OutcomeOf(Resolve, pattern, s)]
<1>1. whole \in Seq(KnownParts) /\ IsRoute(prefix) /\ IsRoute(rest)
  BY KnownRoute
<1>2. LeafEntries(pattern, prefix) = IF Safe(merged) THEN one ELSE <<Opaque>>
  BY DEF LeafEntries
<1>3. CASE ~Safe(merged)
  <2> HIDE DEF found, one, merged
  <2> QED
    BY <1>2, <1>3, OpaqueFits DEF found
<1>4. CASE Safe(merged)
  <2>1. << >> \in Seq(Chars)
    OBVIOUS
  <2>2. Safe(merged) <=> Safe(whole)
    BY <1>1, <2>1, MergedScans
  <2>3. Safe(whole) /\ Safe(prefix)
    BY <1>1, <1>4, <2>2, SafeParts
  <2>4. /\ entry.parts = merged /\ entry.view = pattern.view
        /\ entry.defaults = pattern.defaults /\ ~entry.opaque
    OBVIOUS
  <2> HIDE DEF entry
  <2>5. IsSeq(one) /\ one # << >>
    BY OneEntry
  <2>6. \A s : Misses(one, s) => ~Hit(entry, s)
    BY OneEntry
  <2>7. \A s, e : Answers(one, s, e) => e = entry
    BY OneEntry
  <2>8. \A s \in Seq(Chars) : found[s] = ResolvePattern(pattern, s)
    BY DEF OutcomeOf
  <2> HIDE DEF found, one
  <2>9. ASSUME NEW s \in Seq(Chars), Misses(one, s)
        PROVE  Wrapped(prefix, s, found[Remains(prefix, s)]) = NoMatch
    <3>1. TryMatch(entry, s) = NoMatch
      BY <2>6, <2>9 DEF Hit
    <3>2. Scans(merged, s) = {}
      BY <2>4, <3>1 DEF TryMatch, NoMatch
    <3>3. Scans(whole, s) = {}
      BY <1>1, <3>2, MergedScans
    <3>4. CASE Matches(prefix, s, 1..Len(s) + 1) = {}
      BY <3>4 DEF Wrapped
    <3>5. CASE Matches(prefix, s, 1..Len(s) + 1) # {}
      <4> DEFINE tail == Remains(prefix, s)
      <4>1. tail \in Seq(Chars)
        BY <3>5, RemainsIs
      <4>2. Matches(rest, tail, {Len(tail) + 1}) = {}
        BY <2>3, <3>3, <3>5, ScanMisses
      <4> HIDE DEF tail
      <4>3. ResolvePattern(pattern, tail) = NoMatch
        BY <4>2, PatternOutcome
      <4>4. found[tail] = NoMatch
        BY <2>8, <4>1, <4>3
      <4> QED
        BY <4>4 DEF Wrapped, tail
    <3> QED
      BY <3>4, <3>5
  <2>10. ASSUME NEW s, NEW e, IsPath(s), Answers(one, s, e)
         PROVE  TryMatch(e, s) = Wrapped(prefix, s, found[Remains(prefix, s)])
    <3>1. e = entry
      BY <2>7, <2>10
    <3> DEFINE tail == Remains(prefix, s)
    <3>2. TryMatch(entry, s) = Wrapped(prefix, s, ResolvePattern(pattern, tail))
      BY <2>3, <2>4, <2>10, RouteHits
    <3>3. CASE Matches(prefix, s, 1..Len(s) + 1) = {}
      BY <3>1, <3>2, <3>3 DEF Wrapped
    <3>4. CASE Matches(prefix, s, 1..Len(s) + 1) # {}
      <4>1. tail \in Seq(Chars)
        BY <2>10, <3>4, RemainsIs DEF IsPath
      <4> HIDE DEF tail
      <4>2. found[tail] = ResolvePattern(pattern, tail)
        BY <2>8, <4>1
      <4> QED
        BY <3>1, <3>2, <4>2 DEF tail
    <3> QED
      BY <3>3, <3>4
  <2>11. Fits(one, prefix, found, plain)
    BY <2>3, <2>5, <2>9, <2>10 DEF Fits
  <2> QED
    BY <1>2, <1>4, <2>11 DEF found
<1> QED
  BY <1>3, <1>4

\* The entries of what an include has in it.
LEMMA IncludeFits ==
    ASSUME NEW prefix \in Seq(KnownParts), NEW pattern, pattern.type = "include",
           pattern.parts \in Seq(KnownParts), pattern.patterns \in Confs,
           NEW entries, NEW plain,
           Fits(entries, prefix \o pattern.parts, Resolve[pattern.patterns], plain)
    PROVE  Fits(entries, prefix, [s \in Seq(Chars) |-> OutcomeOf(Resolve, pattern, s)],
                plain /\ pattern.defaults = << >>)
<1> DEFINE rest == pattern.parts
           whole == prefix \o rest
           found == [s \in Seq(Chars) |-> OutcomeOf(Resolve, pattern, s)]
<1>1. whole \in Seq(KnownParts) /\ IsRoute(prefix) /\ IsRoute(rest)
  BY KnownRoute
<1>2. \A s \in Seq(Chars) : found[s] = OutcomeOf(Resolve, pattern, s)
  OBVIOUS
<1> HIDE DEF found
<1>3. Fits(entries, whole, Resolve[pattern.patterns], plain)
  OBVIOUS
<1> HIDE DEF whole
<1>4. IsSeq(entries)
  BY <1>3 DEF Fits
<1>5. ASSUME entries = << >>, NEW s \in Seq(Chars) PROVE found[s] = NoMatch
  <2> DEFINE cuts == Matches(rest, s, 1..Len(s) + 1)
             cut == Greediest(cuts)
  <2>1. CASE cuts = {}
    BY <1>2, <2>1, IncludeOutcome
  <2>2. CASE cuts # {}
    <3>1. OutcomeOf(Resolve, pattern, s) =
            Including(pattern, s, cut, Resolve[pattern.patterns][After(rest, s, cut)])
      BY <2>2, IncludeOutcome
    <3>2. Len(rest) \in Nat
      BY KnownRoute
    <3>3. After(rest, s, cut) \in Seq(Chars)
      BY <2>2, <3>2, LeavesPath
    <3>4. Resolve[pattern.patterns][After(rest, s, cut)] = NoMatch
      BY <1>3, <1>5, <3>3 DEF Fits
    <3> QED
      BY <1>2, <3>1, <3>4 DEF Including
  <2> QED
    BY <2>1, <2>2
<1>6. ASSUME ~Safe(prefix) PROVE AllOpaque(entries)
  <2>1. ~Safe(whole)
    BY <1>1, <1>6, SafeParts DEF whole
  <2> QED
    BY <1>3, <2>1 DEF Fits
<1> DEFINE Flat(s) == Wrapped(prefix, s, found[Remains(prefix, s)])
           Deep(s) == Wrapped(whole, s, Resolve[pattern.patterns][Remains(whole, s)])
<1>7. ASSUME Safe(whole), NEW s \in Seq(Chars)
      PROVE  (Deep(s) = NoMatch <=> Flat(s) = NoMatch)
             /\ (pattern.defaults = << >> => Deep(s) = Flat(s))
  <2>1. Flat(s) = Wrapped(prefix, s, OutcomeOf(Resolve, pattern, Remains(prefix, s)))
    <3>1. CASE Matches(prefix, s, 1..Len(s) + 1) = {}
      BY <3>1 DEF Wrapped
    <3>2. CASE Matches(prefix, s, 1..Len(s) + 1) # {}
      <4>1. Remains(prefix, s) \in Seq(Chars)
        BY <3>2, RemainsIs
      <4> QED
        BY <1>2, <4>1
    <3> QED
      BY <3>1, <3>2
  <2> HIDE DEF Flat
  <2>2. Deep(s) = NoMatch <=> Wrapped(prefix, s, OutcomeOf(Resolve, pattern, Remains(prefix, s))) = NoMatch
    BY <1>7, IncludeWraps DEF whole
  <2>3. pattern.defaults = << >> =>
          Deep(s) = Wrapped(prefix, s, OutcomeOf(Resolve, pattern, Remains(prefix, s)))
    BY <1>7, IncludeWraps DEF whole
  <2> HIDE DEF Deep
  <2> QED
    BY <2>1, <2>2, <2>3
<1>8. ASSUME NEW s \in Seq(Chars), Misses(entries, s) PROVE Flat(s) = NoMatch
  <2>1. CASE Safe(whole)
    <3>1. Deep(s) = NoMatch
      BY <1>3, <1>8 DEF Fits
    <3> HIDE DEF Deep, Flat
    <3> QED
      BY <1>7, <2>1, <3>1
  <2>2. CASE ~Safe(whole)
    <3>1. AllOpaque(entries)
      BY <1>3, <2>2 DEF Fits
    <3>2. DOMAIN entries = {}
      BY <1>8, <3>1 DEF AllOpaque, Misses, Hit
    <3>3. entries = << >>
      BY <1>4, <3>2 DEF IsSeq
    <3>4. CASE Matches(prefix, s, 1..Len(s) + 1) = {}
      BY <3>4 DEF Wrapped
    <3>5. CASE Matches(prefix, s, 1..Len(s) + 1) # {}
      <4>1. Remains(prefix, s) \in Seq(Chars)
        BY <3>5, RemainsIs
      <4>2. found[Remains(prefix, s)] = NoMatch
        BY <1>5, <3>3, <4>1
      <4> QED
        BY <4>2 DEF Wrapped
    <3> QED
      BY <3>4, <3>5
  <2> QED
    BY <2>1, <2>2
<1>9. ASSUME plain, pattern.defaults = << >>, NEW s, NEW entry, IsPath(s),
             Answers(entries, s, entry), ~entry.opaque
      PROVE  TryMatch(entry, s) = Flat(s)
  <2>1. ~AllOpaque(entries)
    BY <1>9 DEF AllOpaque, Answers
  <2>2. Safe(whole)
    BY <1>3, <2>1 DEF Fits
  <2>3. TryMatch(entry, s) = Deep(s)
    BY <1>3, <1>9 DEF Fits
  <2>4. s \in Seq(Chars)
    BY <1>9 DEF IsPath
  <2> HIDE DEF Deep, Flat
  <2> QED
    BY <1>7, <1>9, <2>2, <2>3, <2>4
<1> QED
  BY <1>4, <1>5, <1>6, <1>8, <1>9 DEF Fits, found

\* A part that _walk knows is one of those of a table.
LEMMA AllKnown ==
    ASSUME NEW parts \in Seq(Part), \A j \in DOMAIN parts : Known(parts[j])
    PROVE  parts \in Seq(KnownParts)
<1>1. Len(parts) \in Nat /\ DOMAIN parts = 1..Len(parts) /\ \A j \in 1..Len(parts) : parts[j] \in Part
  BY LenProperties, ElementOfSeq
<1>2. \A j \in 1..Len(parts) : parts[j] \in KnownParts
  BY <1>1 DEF KnownParts
<1>3. parts = [j \in 1..Len(parts) |-> parts[j]]
  BY <1>1
<1>4. parts \in [1..Len(parts) -> KnownParts]
  BY <1>2, <1>3
<1> QED
  BY <1>1, <1>4, SeqDef

\* What Django finds for one pattern, as a function of the path.
FoundFor(pattern) == [s \in Seq(Chars) |-> OutcomeOf(Resolve, pattern, s)]

\* Keyword arguments of no include that counts.
PlainPattern(pattern) ==
    pattern.type = "include" => pattern.defaults = << >> /\ ~WithDefaults[pattern.patterns]

\* The entries of each pattern fit what Django finds for it, if those of what
\* the list includes do.
LEMMA PatternFits ==
    ASSUME NEW conf \in Confs, NEW i \in 1..Len(conf), NEW prefix \in Seq(KnownParts),
           conf[i].type = "include" =>
             \A p \in Seq(KnownParts) :
               Fits(Walk[conf[i].patterns][p], p, Resolve[conf[i].patterns],
                    ~WithDefaults[conf[i].patterns])
    PROVE  Fits(EntriesOf(Walk, conf[i], prefix), prefix, FoundFor(conf[i]), PlainPattern(conf[i]))
<1> DEFINE pattern == conf[i]
           opaque == pattern.type = "regex" \/ \E j \in DOMAIN pattern.parts : ~Known(pattern.parts[j])
<1>1. IsPattern(pattern) /\ DOMAIN conf = 1..Len(conf)
  BY PatternsOf
<1>2. pattern.type = "include" => pattern.patterns \in Confs
  BY <1>1, DepthAssumption
<1>3. pattern.type = "include" =>
        \A p \in Seq(KnownParts) :
          Fits(Walk[pattern.patterns][p], p, Resolve[pattern.patterns],
               ~WithDefaults[pattern.patterns])
  OBVIOUS
<1> HIDE DEF pattern
<1>4. CASE opaque
  <2>1. EntriesOf(Walk, pattern, prefix) = <<Opaque>>
    BY <1>4 DEF EntriesOf
  <2> QED
    BY <2>1, OpaqueFits DEF pattern
<1>5. CASE ~opaque
  <2>1. pattern.parts \in Seq(KnownParts)
    BY <1>1, <1>5, AllKnown DEF IsPattern
  <2>2. CASE pattern.type = "path"
    <3>1. EntriesOf(Walk, pattern, prefix) = LeafEntries(pattern, prefix)
      BY <1>5, <2>2 DEF EntriesOf
    <3>2. pattern.view # "none"
      BY <1>1, <2>2 DEF IsPattern
    <3>3. Fits(LeafEntries(pattern, prefix), prefix, FoundFor(pattern), PlainPattern(pattern))
      BY <2>1, <2>2, <3>2, RouteFits DEF FoundFor
    <3> QED
      BY <3>1, <3>3 DEF pattern
  <2>3. CASE pattern.type = "include"
    <3> DEFINE whole == prefix \o pattern.parts
               plain == ~WithDefaults[pattern.patterns]
               entries == Walk[pattern.patterns][whole]
    <3>1. EntriesOf(Walk, pattern, prefix) = entries
      BY <1>5, <2>3 DEF EntriesOf
    <3>2. whole \in Seq(KnownParts)
      BY <2>1
    <3>3. Fits(entries, whole, Resolve[pattern.patterns], plain)
      BY <1>3, <2>3, <3>2
    <3> HIDE DEF entries, plain
    <3>4. Fits(entries, prefix, FoundFor(pattern), plain /\ pattern.defaults = << >>)
      BY <1>2, <2>1, <2>3, <3>3, IncludeFits DEF FoundFor
    <3>5. PlainPattern(pattern) => plain /\ pattern.defaults = << >>
      BY <2>3 DEF PlainPattern, plain
    <3>6. Fits(entries, prefix, FoundFor(pattern), PlainPattern(pattern))
      BY <3>4, <3>5 DEF Fits
    <3> QED
      BY <3>1, <3>6 DEF pattern
  <2> QED
    BY <1>1, <1>5, <2>2, <2>3 DEF IsPattern
<1> QED
  BY <1>4, <1>5

\* A list without keyword arguments of includes has patterns without them.
LEMMA PlainPatterns ==
    ASSUME NEW conf \in Confs, ~WithDefaults[conf], NEW i \in 1..Len(conf)
    PROVE  PlainPattern(conf[i])
<1>1. DOMAIN conf = 1..Len(conf)
  BY PatternsOf
<1>2. ~DefaultsOf(WithDefaults, conf)
  BY WithDefaultsIs
<1>3. ~(conf[i].type = "include"
         /\ (conf[i].defaults # << >> \/ WithDefaults[conf[i].patterns]))
  BY <1>1, <1>2, Zenon DEF DefaultsOf
<1> QED
  BY <1>3, Zenon DEF PlainPattern

\* What fits each pattern fits the list.
LEMMA ListFits ==
    ASSUME NEW conf \in Confs, NEW prefix \in Seq(KnownParts),
           \A i \in 1..Len(conf) :
             Fits(EntriesOf(Walk, conf[i], prefix), prefix, FoundFor(conf[i]), PlainPattern(conf[i]))
    PROVE  Fits(Walk[conf][prefix], prefix, Resolve[conf], ~WithDefaults[conf])
<1> DEFINE n == Len(conf)
           seqs == [i \in DOMAIN conf |-> EntriesOf(Walk, conf[i], prefix)]
           entries == Walk[conf][prefix]
           Outs(s) == [i \in DOMAIN conf |-> OutcomeOf(Resolve, conf[i], s)]
           tail(s) == Remains(prefix, s)
           nowhere(s) == Matches(prefix, s, 1..Len(s) + 1) = {}
<1>1. n \in Nat /\ DOMAIN conf = 1..n
  BY PatternsOf
<1>2. prefix \in Seq(Part) /\ entries = FlattenSeq(seqs)
  <2>1. prefix \in Seq(Part)
    BY DEF KnownParts
  <2> QED
    BY <2>1, WalkIs
<1>3. \A i \in 1..n : seqs[i] = EntriesOf(Walk, conf[i], prefix)
  BY <1>1
<1>4. \A i \in 1..n : Fits(seqs[i], prefix, FoundFor(conf[i]), PlainPattern(conf[i]))
  <2> HIDE DEF seqs
  <2> QED
    BY <1>3
<1>5. seqs = [i \in 1..n |-> seqs[i]]
  BY <1>1
<1> HIDE DEF seqs, entries
<1>6. FlattensTo(entries, seqs, n)
  <2>1. \A i \in 1..n : IsSeq(seqs[i])
    BY <1>4 DEF Fits
  <2> QED
    BY <1>1, <1>2, <1>5, <2>1, Flattened
<1>7. ASSUME NEW s \in Seq(Chars)
      PROVE  /\ Resolve[conf][s] = FirstMatch(Outs(s)) /\ DOMAIN Outs(s) = 1..n
             /\ \A i \in 1..n : Outs(s)[i] = FoundFor(conf[i])[s] /\ IsOutcome(Outs(s)[i])
  <2>1. Resolve[conf][s] = FirstMatch(Outs(s))
    BY ResolveIs
  <2>2. DOMAIN Outs(s) = 1..n
    BY <1>1
  <2>3. ASSUME NEW i \in 1..n PROVE Outs(s)[i] = FoundFor(conf[i])[s] /\ IsOutcome(Outs(s)[i])
    <3>1. Outs(s)[i] = OutcomeOf(Resolve, conf[i], s) /\ FoundFor(conf[i])[s] = OutcomeOf(Resolve, conf[i], s)
      BY <1>1 DEF FoundFor
    <3>2. conf[i].type = "include" => conf[i].patterns \in Confs
      BY <1>1, DepthAssumption
    <3>3. conf[i].type = "include" => \A rest \in Seq(Chars) : IsOutcome(Resolve[conf[i].patterns][rest])
      BY <3>2, ResolveOutcome
    <3>4. IsOutcome(OutcomeOf(Resolve, conf[i], s))
      BY <3>3, EachOutcome
    <3> QED
      BY <3>1, <3>4
  <2> QED
    BY <2>1, <2>2, <2>3
<1> HIDE DEF Outs
<1>8. IsSeq(entries)
  BY <1>6 DEF FlattensTo
<1>9. ASSUME entries = << >>, NEW s \in Seq(Chars) PROVE Resolve[conf][s] = NoMatch
  <2>1. \A i \in 1..n : seqs[i] = << >>
    BY <1>6, <1>9 DEF FlattensTo
  <2>2. \A i \in 1..n : FoundFor(conf[i])[s] = NoMatch
    BY <1>4, <1>9, <2>1 DEF Fits
  <2>3. \A i \in 1..n : Outs(s)[i] = NoMatch
    BY <1>7, <1>9, <2>2
  <2>4. FirstMatch(Outs(s)) = NoMatch
    BY <1>1, <1>7, <1>9, <2>3, FirstOf
  <2> QED
    BY <1>7, <1>9, <2>4
<1>10. ASSUME ~Safe(prefix) PROVE AllOpaque(entries)
  <2>1. \A i \in 1..n : AllOpaque(seqs[i])
    BY <1>4, <1>10 DEF Fits
  <2> QED
    BY <1>6, <2>1 DEF FlattensTo
<1>11. ASSUME NEW s \in Seq(Chars), ~nowhere(s)
       PROVE  /\ tail(s) \in Seq(Chars)
              /\ \A i \in 1..n : Misses(seqs[i], s) => Outs(tail(s))[i] = NoMatch
  <2>1. tail(s) \in Seq(Chars)
    BY <1>11, RemainsIs
  <2>2. ASSUME NEW i \in 1..n, Misses(seqs[i], s) PROVE Outs(tail(s))[i] = NoMatch
    <3>1. Wrapped(prefix, s, FoundFor(conf[i])[tail(s)]) = NoMatch
      BY <1>4, <1>11, <2>2 DEF Fits
    <3>2. Outs(tail(s))[i] = FoundFor(conf[i])[tail(s)] /\ IsOutcome(Outs(tail(s))[i])
      BY <1>7, <2>1
    <3> HIDE DEF tail
    <3>3. IsOutcome(FoundFor(conf[i])[tail(s)])
      BY <3>2
    <3>4. FoundFor(conf[i])[tail(s)] = NoMatch
      BY <1>11, <3>1, <3>3, WrapsMatch
    <3> QED
      BY <3>2, <3>4
  <2> QED
    BY <2>1, <2>2
<1>12. ASSUME NEW s \in Seq(Chars), Misses(entries, s)
       PROVE  Wrapped(prefix, s, Resolve[conf][tail(s)]) = NoMatch
  <2>1. CASE nowhere(s)
    BY <2>1 DEF Wrapped
  <2>2. CASE ~nowhere(s)
    <3>1. \A i \in 1..n : Misses(seqs[i], s)
      BY <1>6, <1>12 DEF FlattensTo
    <3>2. tail(s) \in Seq(Chars) /\ \A i \in 1..n : Outs(tail(s))[i] = NoMatch
      BY <1>11, <1>12, <2>2, <3>1
    <3> HIDE DEF tail
    <3>3. FirstMatch(Outs(tail(s))) = NoMatch
      BY <1>1, <1>7, <3>2, FirstOf
    <3>4. Resolve[conf][tail(s)] = NoMatch
      BY <1>7, <3>2, <3>3
    <3> QED
      BY <3>4 DEF Wrapped, tail
  <2> QED
    BY <2>1, <2>2
<1>13. ASSUME ~WithDefaults[conf], NEW s, NEW entry, IsPath(s), Answers(entries, s, entry), ~entry.opaque
       PROVE  TryMatch(entry, s) = Wrapped(prefix, s, Resolve[conf][tail(s)])
  <2>1. s \in Seq(Chars)
    BY <1>13 DEF IsPath
  <2>2. PICK i \in 1..n : Answers(seqs[i], s, entry) /\ \A j \in 1..i - 1 : Misses(seqs[j], s)
    BY <1>6, <1>13 DEF FlattensTo
  <2>3. PlainPattern(conf[i])
    BY <1>13, PlainPatterns
  <2>4. TryMatch(entry, s) = Wrapped(prefix, s, FoundFor(conf[i])[tail(s)])
    BY <1>4, <1>13, <2>2, <2>3 DEF Fits
  <2>5. TryMatch(entry, s) # NoMatch
    BY <1>13, <2>2 DEF Answers, Hit
  <2>6. ~nowhere(s) /\ FoundFor(conf[i])[tail(s)] # NoMatch
    BY <2>4, <2>5 DEF Wrapped
  <2>7. tail(s) \in Seq(Chars)
    BY <1>11, <2>1, <2>6
  <2>8. \A j \in 1..i - 1 : j \in 1..n
    BY <1>1
  <2>9. \A j \in 1..i - 1 : Outs(tail(s))[j] = NoMatch
    BY <1>11, <2>1, <2>2, <2>6, <2>8
  <2> HIDE DEF tail
  <2>10. Outs(tail(s))[i] = FoundFor(conf[i])[tail(s)]
    BY <1>7, <2>7
  <2>11. FirstMatch(Outs(tail(s))) = Outs(tail(s))[i]
    BY <1>1, <1>7, <2>6, <2>7, <2>9, <2>10, FirstOf
  <2>12. Resolve[conf][tail(s)] = FoundFor(conf[i])[tail(s)]
    BY <1>7, <2>7, <2>10, <2>11
  <2> QED
    BY <2>4, <2>12 DEF tail
<1> QED
  BY <1>8, <1>9, <1>10, <1>12, <1>13 DEF Fits, entries

\* The entries of every list, below every prefix, fit what Django finds for it.
LEMMA WalkFits ==
    ASSUME NEW conf \in Confs
    PROVE  \A prefix \in Seq(KnownParts) :
             Fits(Walk[conf][prefix], prefix, Resolve[conf], ~WithDefaults[conf])
<1> DEFINE Fine(c) == \A p \in Seq(KnownParts) : Fits(Walk[c][p], p, Resolve[c], ~WithDefaults[c])
           bad == {c \in Confs : ~Fine(c)}
<1> HIDE DEF Fine
<1>1. SUFFICES ASSUME bad # {} PROVE FALSE
  BY DEF Fine
<1>2. PICK c \in bad : \A i \in 1..Len(c) : c[i].type = "include" => c[i].patterns \in Confs \ bad
  <2>1. bad \subseteq Confs
    OBVIOUS
  <2> HIDE DEF bad
  <2> QED
    BY <1>1, <2>1, Shallowest
<1>3. c \in Confs /\ ~Fine(c)
  BY <1>2
<1>4. \A i \in 1..Len(c) : c[i].type = "include" => Fine(c[i].patterns)
  BY <1>2
<1>5. ASSUME NEW p \in Seq(KnownParts) PROVE Fits(Walk[c][p], p, Resolve[c], ~WithDefaults[c])
  <2>1. ASSUME NEW i \in 1..Len(c)
        PROVE  Fits(EntriesOf(Walk, c[i], p), p, FoundFor(c[i]), PlainPattern(c[i]))
    <3>1. c[i].type = "include" =>
            \A q \in Seq(KnownParts) :
              Fits(Walk[c[i].patterns][q], q, Resolve[c[i].patterns], ~WithDefaults[c[i].patterns])
      BY <1>4 DEF Fine
    <3> QED
      BY <1>3, <3>1, PatternFits
  <2> QED
    BY <1>3, <2>1, ListFits
<1> QED
  BY <1>3, <1>5 DEF Fine

-----------------------------------------------------------------------------
(* The whole table.                                                        *)

\* Without a prefix, all of the path is left and nothing is captured.
LEMMA NoPrefix ==
    ASSUME NEW s \in Seq(Chars)
    PROVE  /\ << >> \in Seq(KnownParts) /\ Remains(<< >>, s) = s
           /\ \A o : IsOutcome(o) => Wrapped(<< >>, s, o) = o
<1> DEFINE cuts == Matches(<< >>, s, 1..Len(s) + 1)
           cut == Greediest(cuts)
           f == [i \in 0..0 |-> 1]
<1>1. << >> \in Seq(KnownParts) /\ Len(<< >>) = 0 /\ DOMAIN << >> = {}
  OBVIOUS
<1>2. IsRoute(<< >>)
  BY <1>1, KnownRoute
<1>3. f \in Cuts(0, 1)
  BY EmptyCut
<1>4. 1 \in 1..Len(s) + 1
  OBVIOUS
<1> HIDE DEF f
<1>5. cuts # {}
  BY <1>1, <1>3, <1>4 DEF Matches
<1>6. cut \in cuts
  BY <1>1, <1>5, RemainsIs
<1>7. cut[0] = 1
  <2> HIDE DEF cut
  <2> QED
    BY <1>2, <1>6, MatchPlaces
<1>8. Remains(<< >>, s) = s
  <2>1. Remains(<< >>, s) = SubSeq(s, 1, Len(s))
    BY <1>1, <1>7 DEF Remains, After
  <2> QED
    BY <2>1, SubSeqFull
<1>9. Captured(<< >>, s, cut) = << >>
  <2>1. DOMAIN Captured(<< >>, s, cut) = {}
    BY <1>1 DEF Captured
  <2>2. Captured(<< >>, s, cut) =
          [name \in DOMAIN Captured(<< >>, s, cut) |-> Captured(<< >>, s, cut)[name]]
    BY CapturedIsFunction
  <2> QED
    BY <2>1, <2>2
<1>10. ASSUME NEW o, IsOutcome(o) PROVE Wrapped(<< >>, s, o) = o
  <2>1. CASE o = NoMatch
    BY <2>1 DEF Wrapped
  <2>2. CASE o # NoMatch
    <3>1. /\ o = [view |-> o.view, kwargs |-> o.kwargs]
          /\ o.kwargs = [name \in DOMAIN o.kwargs |-> o.kwargs[name]]
      BY <1>10, <2>2 DEF IsOutcome
    <3>2. Wrapped(<< >>, s, o) = [view |-> o.view, kwargs |-> Both(o.kwargs, << >>)]
      BY <1>5, <1>9, <2>2 DEF Wrapped
    <3>3. Both(o.kwargs, << >>) = o.kwargs
      BY <3>1, BothNone
    <3> QED
      BY <3>1, <3>2, <3>3
  <2> QED
    BY <2>1, <2>2
<1> QED
  BY <1>1, <1>8, <1>10

\* So the table has an entry for what Django finds, and finds it.
LEMMA TableFits ==
    ASSUME NEW conf \in Confs, NEW s \in Seq(Chars)
    PROVE  /\ IsSeq(BuildRouter(conf))
           /\ Misses(BuildRouter(conf), s) => Resolve[conf][s] = NoMatch
           /\ ~WithDefaults[conf] /\ IsPath(s) =>
                \A entry : Answers(BuildRouter(conf), s, entry) /\ ~entry.opaque
                             => TryMatch(entry, s) = Resolve[conf][s]
<1>1. << >> \in Seq(KnownParts) /\ Remains(<< >>, s) = s
  BY NoPrefix
<1>2. Wrapped(<< >>, s, Resolve[conf][s]) = Resolve[conf][s]
  BY NoPrefix, ResolveOutcome
<1>3. Fits(BuildRouter(conf), << >>, Resolve[conf], ~WithDefaults[conf])
  BY <1>1, WalkFits DEF BuildRouter
<1> QED
  BY <1>1, <1>2, <1>3 DEF Fits

\* What match() answers.
LEMMA MatchIs ==
    ASSUME NEW entries, IsSeq(entries), NEW p, p # << >>, Head(p) = "/"
    PROVE  \/ Misses(entries, Tail(p)) /\ Match(entries, p) = NoMatch
           \/ \E entry \in Range(entries) :
                /\ Answers(entries, Tail(p), entry)
                /\ Match(entries, p) =
                     IF entry.opaque THEN NoMatch ELSE TryMatch(entry, Tail(p))
<1> DEFINE s == Tail(p)
           hits == {i \in DOMAIN entries : Hit(entries[i], s)}
           first == CHOOSE i \in hits : \A j \in hits : i <= j
<1>1. Match(entries, p) =
        IF hits = {} THEN NoMatch
        ELSE IF entries[first].opaque THEN NoMatch ELSE TryMatch(entries[first], s)
  BY DEF Match, Hit
<1>2. CASE hits = {}
  <2>1. Misses(entries, s)
    BY <1>2 DEF Misses
  <2> QED
    BY <1>1, <1>2, <2>1
<1>3. CASE hits # {}
  <2>1. DOMAIN entries = 1..Len(entries) /\ Len(entries) \in Nat
    BY DEF IsSeq
  <2>2. hits \subseteq Nat
    BY <2>1
  <2>3. first \in hits /\ \A j \in hits : first <= j
    <3> HIDE DEF hits
    <3> QED
      BY <1>3, <2>2, LeastPlace
  <2> HIDE DEF first
  <2>4. first \in DOMAIN entries /\ first \in Nat /\ Hit(entries[first], s)
    BY <2>2, <2>3
  <2>5. \A j \in DOMAIN entries : j < first => ~Hit(entries[j], s)
    BY <2>1, <2>3, <2>4
  <2>6. Answers(entries, s, entries[first])
    BY <2>4, <2>5 DEF Answers
  <2>7. entries[first] \in Range(entries)
    BY <2>4 DEF Range
  <2> QED
    BY <1>1, <1>3, <2>6, <2>7
<1> QED
  BY <1>2, <1>3

-----------------------------------------------------------------------------
(* The specification.                                                      *)

\* What the variables hold: a path of the characters, and URLconfs that are
\* lists of patterns.
TypeOK ==
    /\ path \in Seq(Chars)
    /\ urlconf \in Urlconfs
    /\ active \in {urlconf} \cup Overrides

\* The path grows by characters; the URLconfs stay.
THEOREM TypeCorrect == Spec => []TypeOK
<1>1. Init => TypeOK
  BY DEF Init, TypeOK
<1>2. TypeOK /\ [Next]_vars => TypeOK'
  <2> SUFFICES ASSUME TypeOK, [Next]_vars PROVE TypeOK'
    OBVIOUS
  <2>1. CASE UNCHANGED vars
    BY <2>1 DEF TypeOK, vars
  <2>2. ASSUME NEW char \in Chars, Extend(char) PROVE TypeOK'
    <3>1. path' \in Seq(Chars)
      BY <2>2 DEF TypeOK, Extend
    <3> QED
      BY <2>2, <3>1 DEF TypeOK, Extend
  <2> QED
    BY <2>1, <2>2 DEF Next
<1> QED
  BY <1>1, <1>2, PTL DEF Spec

\* In each such state, what the router finds is what Django finds.
LEMMA SameInEachState ==
    ASSUME TypeOK
    PROVE  ResolvesAsDjango
<1> DEFINE entries == BuildRouter(urlconf)
           s == Tail(path)
<1>1. SUFFICES ASSUME ~HasNewline, ~WithDefaults[urlconf], active = urlconf,
                      Match(entries, path) # NoMatch
               PROVE  Match(entries, path) = Django(urlconf, path)
  <2>1. CASE active = urlconf /\ Match(entries, path) # NoMatch
    <3>1. ResolveRequest(active, path) = Match(entries, path)
      BY <2>1 DEF ResolveRequest
    <3> HIDE DEF entries
    <3> QED
      BY <1>1, <2>1, <3>1 DEF ResolvesAsDjango
  <2>2. CASE ~(active = urlconf /\ Match(entries, path) # NoMatch)
    <3>1. ResolveRequest(active, path) = Django(active, path)
      BY <2>2 DEF ResolveRequest
    <3> QED
      BY <3>1 DEF ResolvesAsDjango
  <2> QED
    BY <2>1, <2>2
<1>2. urlconf \in Confs /\ path \in Seq(Chars)
  BY ConfsAssumption DEF TypeOK
<1>3. path # << >> /\ Head(path) = "/"
  BY <1>1 DEF Match
<1>4. s \in Seq(Chars) /\ Len(s) = Len(path) - 1 /\ \A i \in 1..Len(s) : s[i] = path[i + 1]
  BY <1>2, <1>3
<1>5. IsPath(s)
  <2>1. DOMAIN s = 1..Len(s) /\ DOMAIN path = 1..Len(path) /\ Len(path) \in Nat
    BY <1>2, <1>4
  <2>2. \A i \in 1..Len(s) : i + 1 \in DOMAIN path
    BY <1>4, <2>1
  <2> HIDE DEF s
  <2> QED
    BY <1>1, <1>4, <2>1, <2>2 DEF IsPath, HasNewline
<1>6. IsSeq(entries)
  BY <1>2, <1>4, TableFits
<1>7. \A entry : Answers(entries, s, entry) /\ ~entry.opaque => TryMatch(entry, s) = Resolve[urlconf][s]
  BY <1>1, <1>2, <1>4, <1>5, TableFits
<1> HIDE DEF entries
<1>8. PICK entry : Answers(entries, s, entry)
                   /\ Match(entries, path) = IF entry.opaque THEN NoMatch ELSE TryMatch(entry, s)
  BY <1>1, <1>3, <1>6, MatchIs
<1>9. ~entry.opaque /\ Match(entries, path) = TryMatch(entry, s)
  BY <1>1, <1>8
<1>10. Django(urlconf, path) = Resolve[urlconf][s]
  BY <1>3 DEF Django
<1> QED
  BY <1>7, <1>8, <1>9, <1>10 DEF entries

\* And without an opaque entry, what the router does not find Django does not.
LEMMA MissInEachState ==
    ASSUME TypeOK
    PROVE  MissIsDjangos
<1> DEFINE entries == BuildRouter(urlconf)
           s == Tail(path)
<1>1. SUFFICES ASSUME Match(entries, path) = NoMatch,
                      \A i \in DOMAIN entries : ~entries[i].opaque
               PROVE  Django(urlconf, path) = NoMatch
  BY DEF MissIsDjangos
<1>2. CASE path = << >> \/ Head(path) # "/"
  BY <1>2 DEF Django
<1>3. CASE path # << >> /\ Head(path) = "/"
  <2>1. urlconf \in Confs /\ path \in Seq(Chars)
    BY ConfsAssumption DEF TypeOK
  <2>2. s \in Seq(Chars)
    BY <1>3, <2>1
  <2>3. IsSeq(entries)
    BY <2>1, <2>2, TableFits
  <2>4. Misses(entries, s) => Resolve[urlconf][s] = NoMatch
    BY <2>1, <2>2, TableFits
  <2> HIDE DEF entries
  <2>5. Misses(entries, s)
    <3>1. SUFFICES ASSUME NEW entry, Answers(entries, s, entry),
                          Match(entries, path) = IF entry.opaque THEN NoMatch ELSE TryMatch(entry, s)
                   PROVE  FALSE
      BY <1>3, <2>3, MatchIs
    <3>2. ~entry.opaque
      BY <1>1, <3>1 DEF Answers
    <3>3. TryMatch(entry, s) # NoMatch
      BY <3>1, <3>2 DEF Answers, Hit
    <3> QED
      BY <1>1, <3>1, <3>2, <3>3
  <2>6. Django(urlconf, path) = Resolve[urlconf][s]
    BY <1>3 DEF Django
  <2> QED
    BY <2>4, <2>5, <2>6
<1> QED
  BY <1>2, <1>3

\* resolve_request finds what Django's resolver finds, for any URLconf of any
\* size and any path without a newline, if no include has keyword arguments.
THEOREM RouterIsDjangos == Spec => []ResolvesAsDjango
<1>1. TypeOK => ResolvesAsDjango
  BY SameInEachState
<1> QED
  BY <1>1, TypeCorrect, PTL

\* Where the table has a route for every pattern, a path it does not match has
\* no route in Django either, newlines and keyword arguments included.
THEOREM RouterMissesWithDjango == Spec => []MissIsDjangos
<1>1. TypeOK => MissIsDjangos
  BY MissInEachState
<1> QED
  BY <1>1, TypeCorrect, PTL
=============================================================================
