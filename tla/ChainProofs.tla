---------------------------- MODULE ChainProofs -----------------------------
(***************************************************************************)
(* The middleware chain, for every settings.MIDDLEWARE of any length.      *)
(*                                                                         *)
(* The argument: the loop of the build keeps its lists complete for the    *)
(* entries it has seen; and at each place of a run the depth is how many   *)
(* layers passed the request on and did not get a response for it yet.     *)
(***************************************************************************)
EXTENDS Chain, SequenceTheorems, TLAPS

-----------------------------------------------------------------------------
(* The build.                                                              *)

\* The list has the positions of H after e, in an order.
Up(s, H, e) == s \in Seq(Nat) /\ Ascending(s) /\ Range(s) = {i \in H : i > e}
Down(s, H, e) == s \in Seq(Nat) /\ Descending(s) /\ Range(s) = {i \in H : i > e}

ModeOf(d) == IF d = N + 1 THEN TRUE ELSE chain.mode[d]

Building ==
    /\ middleware \in Seq(Layers)
    /\ entry \in 0..Len(middleware)
    /\ pc \notin {"build", "improper"} => entry = 0
    /\ Down(chain.layers, Used, entry)
    /\ Up(chain.view, Hooked("view"), entry)
    /\ Down(chain.template, Hooked("template"), entry)
    /\ Down(chain.exception, Hooked("exception"), entry)
    /\ chain.mode \in Seq(BOOLEAN) /\ Len(chain.mode) = N
    /\ chain.async = ModeOf(1)
    /\ ModesFit

-----------------------------------------------------------------------------
(* The way through the layers.                                             *)

Inside == {"view hooks", "exception", "template"}

\* Where the request is, when so many layers passed it on and so many were answered.
At(where, d, asked, answered) ==
    /\ d \in Nat
    /\ \/ where \in {"build", "improper"} /\ d = 1 /\ asked = 0 /\ answered = 0
       \/ where = "in" /\ d = asked + 1 /\ answered = 0
       \/ where \in Inside /\ d = N + 1 /\ asked = N /\ answered = 0
       \/ where = "out" /\ d = asked - answered
       \/ where = "raised" /\ d = asked - answered + 1
       \/ where = "done" /\ answered = asked

Layered ==
    /\ passed \in Seq(Nat) /\ Len(passed) <= N
    /\ \A d \in 1..Len(passed) : passed[d] = LayerAt(d)
    /\ returned \in Seq(Nat) /\ Len(returned) <= Len(passed)
    /\ \A k \in 1..Len(returned) : returned[k] = LayerAt(Len(passed) - k + 1)

Onion == Layered /\ At(pc, depth, Len(passed), Len(returned))

-----------------------------------------------------------------------------
(* The hooks.                                                              *)

Follows(s, t) ==
    s \in Seq(Nat) /\ Len(s) <= Len(t) /\ \A k \in 1..Len(s) : s[k] = t[k]

RanType == [view : Seq(Nat), template : Seq(Nat), exception : Seq(Nat), theView : BOOLEAN]

Running ==
    /\ ran \in RanType
    /\ Follows(ran.view, chain.view)
    /\ Follows(ran.template, chain.template)
    /\ Follows(ran.exception, chain.exception)
    /\ hook \in Nat \ {0}
    /\ ran.theView => Len(ran.view) = Len(chain.view)
    /\ pc \in {"build", "improper", "in"} => Len(ran.view) = 0 /\ ~ran.theView
    /\ pc \in {"build", "improper", "in", "view hooks"} =>
         Len(ran.template) = 0 /\ Len(ran.exception) = 0
    /\ pc = "view hooks" => Len(ran.view) = hook - 1 /\ ~ran.theView
    /\ pc = "template" => Len(ran.template) = hook - 1
    /\ pc = "exception" =>
         /\ Len(ran.exception) = hook - 1
         /\ failed \in {"view", "render"}
         /\ failed = "view" => Len(ran.template) = 0

ChainInv == Building /\ Onion /\ Running

-----------------------------------------------------------------------------
(* Lists of positions.                                                     *)

\* insert(0): the list starts with the new element.
LEMMA InsertFirst ==
    ASSUME NEW S, NEW s \in Seq(S), NEW e \in S
    PROVE  /\ <<e>> \o s \in Seq(S)
           /\ Len(<<e>> \o s) = Len(s) + 1 /\ Len(s) \in Nat
           /\ (<<e>> \o s)[1] = e
           /\ \A k \in 1..Len(s) : (<<e>> \o s)[k + 1] = s[k]
<1>1. <<e>> \in Seq(S) /\ Len(<<e>>) = 1 /\ <<e>>[1] = e
  OBVIOUS
<1>2. Len(s) \in Nat
  BY LenProperties
<1>3. /\ <<e>> \o s \in Seq(S)
      /\ Len(<<e>> \o s) = 1 + Len(s)
      /\ \A k \in 1..(1 + Len(s)) :
           (<<e>> \o s)[k] = IF k <= 1 THEN <<e>>[k] ELSE s[k - 1]
  BY <1>1, ConcatProperties
<1>4. (<<e>> \o s)[1] = e
  BY <1>1, <1>2, <1>3
<1>5. ASSUME NEW k \in 1..Len(s) PROVE (<<e>> \o s)[k + 1] = s[k]
  <2>1. k + 1 \in 1..(1 + Len(s)) /\ ~(k + 1 <= 1) /\ (k + 1) - 1 = k
    BY <1>2
  <2> QED
    BY <1>3, <2>1
<1> QED
  BY <1>2, <1>3, <1>4, <1>5

\* Which positions a list has that begins or ends with the new one.
LEMMA RangeGrows ==
    ASSUME NEW s \in Seq(Nat), NEW t \in Seq(Nat), NEW e \in Nat,
           Len(t) = Len(s) + 1,
           \/ t[1] = e /\ \A k \in 1..Len(s) : t[k + 1] = s[k]
           \/ t[Len(s) + 1] = e /\ \A k \in 1..Len(s) : t[k] = s[k]
    PROVE  Range(t) = Range(s) \cup {e}
<1>1. /\ Len(s) \in Nat /\ DOMAIN s = 1..Len(s) /\ DOMAIN t = 1..(Len(s) + 1)
      /\ Range(s) = {s[k] : k \in 1..Len(s)} /\ Range(t) = {t[k] : k \in 1..(Len(s) + 1)}
  BY LenProperties DEF Range
<1>2. CASE t[1] = e /\ \A k \in 1..Len(s) : t[k + 1] = s[k]
  <2>1. 1 \in 1..(Len(s) + 1) /\ \A k \in 1..Len(s) : k + 1 \in 1..(Len(s) + 1)
    BY <1>1
  <2>2. ASSUME NEW k \in 1..(Len(s) + 1) PROVE t[k] \in Range(s) \cup {e}
    <3>1. k = 1 \/ (k - 1 \in 1..Len(s) /\ (k - 1) + 1 = k)
      BY <1>1
    <3>2. CASE k = 1
      BY <1>2, <3>2
    <3>3. CASE k - 1 \in 1..Len(s) /\ (k - 1) + 1 = k
      <4>1. t[k] = s[k - 1]
        BY <1>2, <3>3
      <4> QED
        BY <1>1, <3>3, <4>1
    <3> QED
      BY <3>1, <3>2, <3>3
  <2>3. \A k \in 1..Len(s) : s[k] \in Range(t)
    BY <1>1, <1>2, <2>1
  <2>4. e \in Range(t)
    BY <1>1, <1>2, <2>1
  <2> QED
    BY <1>1, <2>2, <2>3, <2>4
<1>3. CASE t[Len(s) + 1] = e /\ \A k \in 1..Len(s) : t[k] = s[k]
  <2>1. 1..(Len(s) + 1) = 1..Len(s) \cup {Len(s) + 1}
    BY <1>1
  <2> QED
    BY <1>1, <1>3, <2>1
<1> QED
  BY <1>2, <1>3

\* The positions after e - 1 are those after e, and e.
LEMMA Positions ==
    ASSUME NEW H, H \subseteq Nat, NEW e \in Nat, e > 0
    PROVE  {i \in H : i > e - 1} = {i \in H : i > e} \cup (H \cap {e})
<1>1. \A i \in Nat : i > e - 1 <=> i > e \/ i = e
  OBVIOUS
<1> QED
  BY <1>1

\* A list in the order of the positions.
LEMMA UpGrows ==
    ASSUME NEW H, H \subseteq Nat, NEW e \in Nat, e > 0, NEW s, Up(s, H, e)
    PROVE  Up(IF e \in H THEN <<e>> \o s ELSE s, H, e - 1)
<1>a. {i \in H : i > e - 1} = {i \in H : i > e} \cup (H \cap {e})
  BY Positions
<1>1. s \in Seq(Nat) /\ Ascending(s) /\ Range(s) = {i \in H : i > e}
  BY DEF Up
<1>2. CASE e \notin H
  <2>1. H \cap {e} = {}
    BY <1>2
  <2>2. e - 1 \in Nat /\ {i \in H : i > e - 1} = {i \in H : i > e}
    BY <2>1, <1>a
  <2> QED
    BY <1>1, <1>2, <2>2 DEF Up
<1>3. CASE e \in H
  <2> DEFINE t == <<e>> \o s
  <2>1. /\ t \in Seq(Nat) /\ Len(t) = Len(s) + 1 /\ Len(s) \in Nat
        /\ t[1] = e /\ \A k \in 1..Len(s) : t[k + 1] = s[k]
    BY <1>1, InsertFirst
  <2> HIDE DEF t
  <2>2. Range(t) = {i \in H : i > e - 1}
    <3>1. Range(t) = Range(s) \cup {e}
      BY <1>1, <2>1, RangeGrows
    <3>2. H \cap {e} = {e}
      BY <1>3
    <3> QED
      BY <1>1, <1>a, <3>1, <3>2
  <2>3. DOMAIN t = 1..(Len(s) + 1) /\ DOMAIN s = 1..Len(s)
    BY <1>1, <2>1, LenProperties
  <2>4. ASSUME NEW j \in DOMAIN t, NEW k \in DOMAIN t, j < k PROVE t[j] < t[k]
    <3>1. /\ k - 1 \in 1..Len(s) /\ (k - 1) + 1 = k /\ t[k] = s[k - 1]
          /\ s[k - 1] \in Range(s)
      BY <2>1, <2>3, <2>4 DEF Range
    <3>2. s[k - 1] \in Nat /\ s[k - 1] > e
      BY <1>1, <3>1
    <3>3. CASE j = 1
      BY <2>1, <3>1, <3>2, <3>3
    <3>4. CASE j # 1
      <4>0. Len(s) \in Nat /\ j \in 1..(Len(s) + 1) /\ k \in 1..(Len(s) + 1)
        BY <1>1, <2>3, <2>4, LenProperties
      <4>2. j - 1 \in 1..Len(s) /\ (j - 1) + 1 = j /\ j - 1 < k - 1
        BY <2>4, <3>4, <4>0
      <4>1. j - 1 \in 1..Len(s) /\ t[j] = s[j - 1] /\ j - 1 < k - 1
        BY <2>1, <4>2
      <4> QED
        BY <1>1, <2>3, <3>1, <4>1 DEF Ascending
    <3> QED
      BY <3>3, <3>4
  <2>5. Up(t, H, e - 1)
    BY <2>1, <2>2, <2>4 DEF Up, Ascending
  <2> QED
    BY <1>3, <2>5 DEF t
<1> QED
  BY <1>2, <1>3

\* A list in the reverse order.
LEMMA DownGrows ==
    ASSUME NEW H, H \subseteq Nat, NEW e \in Nat, e > 0, NEW s, Down(s, H, e)
    PROVE  Down(IF e \in H THEN Append(s, e) ELSE s, H, e - 1)
<1>a. {i \in H : i > e - 1} = {i \in H : i > e} \cup (H \cap {e})
  BY Positions
<1>1. s \in Seq(Nat) /\ Descending(s) /\ Range(s) = {i \in H : i > e}
  BY DEF Down
<1>2. CASE e \notin H
  <2>1. H \cap {e} = {}
    BY <1>2
  <2>2. e - 1 \in Nat /\ {i \in H : i > e - 1} = {i \in H : i > e}
    BY <2>1, <1>a
  <2> QED
    BY <1>1, <1>2, <2>2 DEF Down
<1>3. CASE e \in H
  <2> DEFINE t == Append(s, e)
  <2>1. /\ t \in Seq(Nat) /\ Len(t) = Len(s) + 1 /\ Len(s) \in Nat
        /\ t[Len(s) + 1] = e /\ \A k \in 1..Len(s) : t[k] = s[k]
    BY <1>1, AppendProperties, LenProperties
  <2> HIDE DEF t
  <2>2. Range(t) = {i \in H : i > e - 1}
    <3>1. Range(t) = Range(s) \cup {e}
      BY <1>1, <2>1, RangeGrows
    <3>2. H \cap {e} = {e}
      BY <1>3
    <3> QED
      BY <1>1, <1>a, <3>1, <3>2
  <2>3. DOMAIN t = 1..(Len(s) + 1) /\ DOMAIN s = 1..Len(s)
    BY <1>1, <2>1, LenProperties
  <2>4. ASSUME NEW j \in DOMAIN t, NEW k \in DOMAIN t, j < k PROVE t[j] > t[k]
    <3>1. j \in 1..Len(s) /\ t[j] = s[j] /\ s[j] \in Range(s)
      BY <2>1, <2>3, <2>4 DEF Range
    <3>2. s[j] \in Nat /\ s[j] > e
      BY <1>1, <3>1
    <3>3. CASE k = Len(s) + 1
      BY <2>1, <3>1, <3>2, <3>3
    <3>4. CASE k # Len(s) + 1
      <4>1. k \in 1..Len(s) /\ t[k] = s[k]
        BY <2>1, <2>3, <3>4
      <4> QED
        BY <1>1, <2>3, <2>4, <3>1, <4>1 DEF Descending
    <3> QED
      BY <3>3, <3>4
  <2>5. Down(t, H, e - 1)
    BY <2>1, <2>2, <2>4 DEF Down, Descending
  <2> QED
    BY <1>3, <2>5 DEF t
<1> QED
  BY <1>2, <1>3

\* A list of which what ran is a prefix, for the definition of the library.
LEMMA FollowsIsPrefix ==
    ASSUME NEW s, NEW t \in Seq(Nat), Follows(s, t)
    PROVE  IsPrefix(s, t) /\ (Len(s) = Len(t) => s = t)
<1>1. /\ s \in Seq(Nat) /\ Len(s) \in Nat /\ Len(t) \in Nat /\ Len(s) <= Len(t)
      /\ \A k \in 1..Len(s) : s[k] = t[k]
  BY LenProperties DEF Follows
<1>2. /\ SubSeq(s, 1, Len(s)) = [k \in 1..Len(s) |-> s[k]]
      /\ SubSeq(t, 1, Len(s)) = [k \in 1..Len(s) |-> t[k]]
  BY <1>1
<1>3. Len(s) = Len(t) => s = t
  BY <1>1, SeqEqual
<1> QED
  BY <1>1, <1>2, <1>3 DEF IsPrefix

-----------------------------------------------------------------------------
(* The loop of the build.                                                  *)

\* Positions are numbers, and the entry at one has the fields of its kind.
LEMMA Entries ==
    ASSUME Building
    PROVE  /\ Used \subseteq Nat /\ DOMAIN middleware = 1..Len(middleware)
           /\ Hooked("view") = {i \in Used : middleware[i].view}
           /\ Hooked("template") = {i \in Used : middleware[i].template}
           /\ Hooked("exception") = {i \in Used : middleware[i].exception}
           /\ \A i \in 1..Len(middleware) :
                middleware[i].sync \in BOOLEAN /\ middleware[i].async \in BOOLEAN
           /\ Len(middleware) \in Nat /\ N \in Nat
<1>1. /\ middleware \in Seq(Layers) /\ Len(middleware) \in Nat
      /\ DOMAIN middleware = 1..Len(middleware)
  BY LenProperties DEF Building
<1>2. \A i \in 1..Len(middleware) : middleware[i] \in Layers
  BY <1>1, ElementOfSeq
<1>3. N \in Nat
  BY LenProperties DEF Building, Down, N
<1>4. Used \subseteq Nat
  BY <1>1 DEF Used
<1>5. /\ Hooked("view") = {i \in Used : middleware[i].view}
      /\ Hooked("template") = {i \in Used : middleware[i].template}
      /\ Hooked("exception") = {i \in Used : middleware[i].exception}
  BY DEF Hooked
<1>6. ASSUME NEW i \in 1..Len(middleware)
      PROVE  middleware[i].sync \in BOOLEAN /\ middleware[i].async \in BOOLEAN
  BY <1>2, LayersAssumption
<1> QED
  BY <1>1, <1>3, <1>4, <1>5, <1>6

\* The outermost layer is the new one, in a mode that fits it and what it wraps.
LEMMA ModesGrow ==
    ASSUME Building, entry > 0, middleware' = middleware,
           ~Improper(middleware[entry]),
           chain' = Wrap(entry, middleware[entry], chain)
    PROVE  /\ chain'.mode \in Seq(BOOLEAN) /\ Len(chain'.mode) = N'
           /\ (chain.async = ModeOf(1))'
           /\ ModesFit'
<1> DEFINE l == middleware[entry]
           async == IF ~chain.async /\ l.sync THEN FALSE ELSE l.async
<1>1. /\ entry \in 1..Len(middleware) /\ entry \in Nat /\ N \in Nat
      /\ l.sync \in BOOLEAN /\ l.async \in BOOLEAN /\ (l.sync \/ l.async)
      /\ async \in BOOLEAN
  <2>1. entry \in 1..Len(middleware) /\ entry \in Nat /\ N \in Nat
    BY Entries DEF Building
  <2>2. l.sync \in BOOLEAN /\ l.async \in BOOLEAN /\ (l.sync \/ l.async)
    BY <2>1, Entries DEF Improper
  <2>3. async \in BOOLEAN
    BY <2>2
  <2> QED
    BY <2>1, <2>2, <2>3
<1>2. /\ chain.layers \in Seq(Nat) /\ chain.mode \in Seq(BOOLEAN) /\ Len(chain.mode) = N
      /\ chain.async = ModeOf(1) /\ ModesFit
  BY DEF Building, Down
<1>3. /\ chain'.layers = Append(chain.layers, entry) /\ chain'.mode = <<async>> \o chain.mode
      /\ chain'.async = async
  BY DEF Wrap
<1> HIDE DEF async
<1>4. /\ Len(chain'.layers) = N + 1 /\ chain'.layers[N + 1] = entry
      /\ \A k \in 1..N : chain'.layers[k] = chain.layers[k]
  BY <1>1, <1>2, <1>3, AppendProperties DEF N
<1>5. /\ chain'.mode \in Seq(BOOLEAN) /\ Len(chain'.mode) = N + 1
      /\ chain'.mode[1] = async
      /\ \A k \in 1..N : chain'.mode[k + 1] = chain.mode[k]
  <2>1. async \in BOOLEAN /\ chain.mode \in Seq(BOOLEAN)
    BY <1>1, <1>2
  <2>2. /\ <<async>> \o chain.mode \in Seq(BOOLEAN)
        /\ Len(<<async>> \o chain.mode) = Len(chain.mode) + 1
        /\ (<<async>> \o chain.mode)[1] = async
        /\ \A k \in 1..Len(chain.mode) : (<<async>> \o chain.mode)[k + 1] = chain.mode[k]
    BY <2>1, InsertFirst
  <2> QED
    BY <1>2, <1>3, <2>2
<1>6. N' = N + 1
  BY <1>4 DEF N
<1>7. (chain.async = ModeOf(1))'
  <2>1. 1 # N' + 1
    BY <1>1, <1>6
  <2> QED
    BY <1>3, <1>5, <2>1 DEF ModeOf
<1>8. ASSUME NEW d \in 1..(N + 1)
      PROVE  LET m == middleware[chain'.layers[(N + 1) - d + 1]]
                 inner == IF d = N + 1 THEN TRUE ELSE chain'.mode[d + 1]
             IN  /\ IF chain'.mode[d] THEN m.async ELSE m.sync
                 /\ m.sync /\ m.async => chain'.mode[d] = inner
  <2>1. CASE d = 1
    <3>1. (N + 1) - 1 + 1 = N + 1 /\ (1 = N + 1 <=> N = 0)
      BY <1>1
    <3>2. middleware[chain'.layers[(N + 1) - d + 1]] = l
      BY <1>4, <2>1, <3>1
    <3>3. chain.async = (IF d = N + 1 THEN TRUE ELSE chain'.mode[d + 1])
      <4>1. CASE N = 0
        BY <1>2, <2>1, <3>1, <4>1 DEF ModeOf
      <4>2. CASE N # 0
        <5>1. 1 \in 1..N
          BY <1>1, <4>2
        <5> QED
          BY <1>2, <1>5, <2>1, <3>1, <4>2, <5>1 DEF ModeOf
      <4> QED
        BY <4>1, <4>2
    <3>4. /\ IF async THEN l.async ELSE l.sync
          /\ l.sync /\ l.async => async = chain.async
      <4>1. chain.async \in BOOLEAN
        <5>1. N # 0 => chain.mode[1] \in BOOLEAN
          <6>1. N # 0 => 1 \in 1..N
            BY <1>1
          <6> QED
            BY <1>2, <6>1, ElementOfSeq
        <5> QED
          <6>1. ModeOf(1) = IF 1 = N + 1 THEN TRUE ELSE chain.mode[1]
            BY DEF ModeOf
          <6>2. 1 # N + 1 => N # 0
            BY <1>1
          <6> QED
            BY <1>2, <5>1, <6>1, <6>2
      <4> QED
        BY <1>1, <4>1 DEF async
    <3> HIDE DEF l
    <3> QED
      BY <1>5, <2>1, <3>2, <3>3, <3>4
  <2>2. CASE d # 1
    <3> DEFINE e == d - 1
    <3>1. e \in 1..N /\ e + 1 = d /\ (N + 1) - d + 1 = N - e + 1 /\ N - e + 1 \in 1..N
          /\ (d = N + 1 <=> e = N)
      BY <1>1, <2>2
    <3>2. /\ chain'.layers[(N + 1) - d + 1] = chain.layers[N - e + 1]
          /\ chain'.mode[d] = chain.mode[e]
      BY <1>4, <1>5, <3>1
    <3>3. e # N => chain'.mode[d + 1] = chain.mode[e + 1]
      BY <1>1, <1>5, <3>1
    <3>4. LET m == middleware[chain.layers[N - e + 1]]
              inner == IF e = N THEN TRUE ELSE chain.mode[e + 1]
          IN  /\ IF chain.mode[e] THEN m.async ELSE m.sync
              /\ m.sync /\ m.async => chain.mode[e] = inner
      BY <1>2, <3>1 DEF ModesFit, LayerAt
    <3> HIDE DEF e
    <3> QED
      BY <3>1, <3>2, <3>3, <3>4
  <2> QED
    BY <2>1, <2>2
<1>9. ModesFit'
  BY <1>6, <1>8 DEF ModesFit, LayerAt
<1> QED
  BY <1>5, <1>6, <1>7, <1>9

\* One entry more.
LEMMA BuildEntryFits ==
    ASSUME Building, BuildEntry
    PROVE  Building'
<1>1. /\ pc = "build" /\ entry > 0 /\ middleware' = middleware
      /\ entry \in 1..Len(middleware) /\ entry \in Nat /\ Len(middleware) \in Nat
  BY Entries DEF BuildEntry, Building
<1>2. Used' = Used /\ \A name : Hooked(name)' = Hooked(name)
  BY <1>1 DEF Used, Hooked
<1>3. CASE Improper(middleware[entry])
  <2>1. UNCHANGED <<entry, chain>> /\ pc' = "improper"
    BY <1>3 DEF BuildEntry
  <2> QED
    BY <1>1, <1>2, <2>1 DEF Building, ModesFit, ModeOf, LayerAt, N
<1>4. CASE ~Improper(middleware[entry])
  <2> DEFINE l == middleware[entry]
  <2>1. /\ entry' = entry - 1 /\ pc' = "build"
        /\ chain' = IF l.makes = "instance" THEN Wrap(entry, l, chain) ELSE chain
    BY <1>4, <1>1 DEF BuildEntry
  <2>2. entry - 1 \in 0..Len(middleware)
    BY <1>1
  <2>3. /\ Used \subseteq Nat
        /\ Hooked("view") \subseteq Nat /\ Hooked("template") \subseteq Nat
        /\ Hooked("exception") \subseteq Nat
    BY Entries DEF Hooked
  <2>4. /\ entry \in Used <=> l.makes = "instance"
        /\ entry \in Hooked("view") <=> l.makes = "instance" /\ l.view
        /\ entry \in Hooked("template") <=> l.makes = "instance" /\ l.template
        /\ entry \in Hooked("exception") <=> l.makes = "instance" /\ l.exception
    BY <1>1, Entries DEF Used
  <2>5. /\ Down(chain.layers, Used, entry)
        /\ Up(chain.view, Hooked("view"), entry)
        /\ Down(chain.template, Hooked("template"), entry)
        /\ Down(chain.exception, Hooked("exception"), entry)
    BY DEF Building
  <2>6. /\ Down(IF entry \in Used THEN Append(chain.layers, entry) ELSE chain.layers,
                Used, entry - 1)
        /\ Up(IF entry \in Hooked("view") THEN <<entry>> \o chain.view ELSE chain.view,
              Hooked("view"), entry - 1)
    BY <1>1, <2>3, <2>5, UpGrows, DownGrows
  <2>7. /\ Down(IF entry \in Hooked("template") THEN Append(chain.template, entry)
                ELSE chain.template, Hooked("template"), entry - 1)
        /\ Down(IF entry \in Hooked("exception") THEN Append(chain.exception, entry)
                ELSE chain.exception, Hooked("exception"), entry - 1)
    BY <1>1, <2>3, <2>5, DownGrows
  <2>8. /\ chain'.layers = (IF entry \in Used THEN Append(chain.layers, entry) ELSE chain.layers)
        /\ chain'.view = (IF entry \in Hooked("view") THEN <<entry>> \o chain.view ELSE chain.view)
        /\ chain'.template = (IF entry \in Hooked("template") THEN Append(chain.template, entry)
                              ELSE chain.template)
        /\ chain'.exception = (IF entry \in Hooked("exception") THEN Append(chain.exception, entry)
                               ELSE chain.exception)
    <3> HIDE DEF l
    <3>1. CASE l.makes = "instance"
      BY <2>1, <2>4, <3>1 DEF Wrap
    <3>2. CASE l.makes # "instance"
      BY <2>1, <2>4, <3>2
    <3> QED
      BY <3>1, <3>2
  <2>9. /\ chain'.mode \in Seq(BOOLEAN) /\ Len(chain'.mode) = N'
        /\ (chain.async = ModeOf(1))'
        /\ ModesFit'
    <3>1. CASE l.makes = "instance"
      BY <1>1, <1>4, <2>1, <3>1, ModesGrow
    <3>2. CASE l.makes # "instance"
      BY <1>1, <2>1, <3>2 DEF Building, ModesFit, ModeOf, LayerAt, N
    <3> QED
      BY <3>1, <3>2
  <2> HIDE DEF l
  <2>10. /\ Down(chain'.layers, Used', entry')
         /\ Up(chain'.view, Hooked("view")', entry')
         /\ Down(chain'.template, Hooked("template")', entry')
         /\ Down(chain'.exception, Hooked("exception")', entry')
    BY <1>2, <2>1, <2>6, <2>7, <2>8
  <2> QED
    BY <1>1, <2>1, <2>2, <2>9, <2>10 DEF Building
<1> QED
  BY <1>3, <1>4

\* A run changes nothing of what was built.
LEMMA RunLeavesBuilt ==
    RunStep => UNCHANGED built /\ pc \notin {"build", "improper"} /\ pc' \notin {"build", "improper"}
  BY DEF RunStep, EnterLayer, LeaveLayer, ConvertException, Finish, ResolveRequest, ViewHook,
         RunView, ExceptionHook, ReRaise, TemplateHook, Render, Got, Raise, MoveTo

\* Every step keeps what holds of the lists.
LEMMA BuildingStep == Building /\ [Next]_vars => Building'
<1> SUFFICES ASSUME Building, [Next]_vars PROVE Building'
  OBVIOUS
<1>1. CASE BuildEntry
  BY <1>1, BuildEntryFits
<1>2. CASE UNCHANGED built /\ (pc' \notin {"build", "improper"} => entry = 0)
  <2>1. UNCHANGED <<middleware, entry, chain>>
    BY <1>2 DEF built
  <2>2. Used' = Used /\ \A name : Hooked(name)' = Hooked(name)
    BY <2>1 DEF Used, Hooked
  <2>3. ModesFit' <=> ModesFit
    BY <2>1 DEF ModesFit, LayerAt, N
  <2> QED
    BY <1>2, <2>1, <2>2, <2>3 DEF Building, ModeOf, N
<1>3. CASE BuildEnds
  BY <1>2, <1>3 DEF BuildEnds, built
<1>4. CASE RunStep
  BY <1>2, <1>4, RunLeavesBuilt DEF Building
<1>5. CASE UNCHANGED vars
  BY <1>2, <1>5 DEF vars, Building
<1> QED
  BY <1>1, <1>3, <1>4, <1>5 DEF Next

-----------------------------------------------------------------------------
(* The onion.                                                              *)

\* A layer is a position.
LEMMA LayersArePositions ==
    ASSUME Building
    PROVE  N \in Nat /\ \A d \in 1..N : LayerAt(d) \in Nat
<1>1. chain.layers \in Seq(Nat) /\ N = Len(chain.layers) /\ N \in Nat
  BY LenProperties DEF Building, Down, N
<1>2. ASSUME NEW d \in 1..N PROVE LayerAt(d) \in Nat
  <2>1. N - d + 1 \in 1..N
    BY <1>1
  <2> QED
    BY <1>1, <2>1, ElementOfSeq DEF LayerAt
<1> QED
  BY <1>1, <1>2

\* A step that passes nothing and returns nothing.
LEMMA OnionMoves ==
    ASSUME Onion, UNCHANGED <<chain, passed, returned>>,
           At(pc', depth', Len(passed), Len(returned))
    PROVE  Onion'
<1>1. N' = N /\ \A d : LayerAt(d)' = LayerAt(d)
  BY DEF N, LayerAt
<1> QED
  BY <1>1 DEF Onion, Layered, At

\* A layer passes the request on.
LEMMA OnionGrows ==
    ASSUME Building, Onion, UNCHANGED <<chain, returned>>, pc = "in", depth <= N,
           passed' = Append(passed, LayerAt(depth)), pc' = "in", depth' = depth + 1
    PROVE  Onion'
<1>1. /\ N \in Nat /\ N' = N /\ \A d : LayerAt(d)' = LayerAt(d)
      /\ passed \in Seq(Nat) /\ returned \in Seq(Nat)
      /\ Len(passed) \in Nat /\ Len(returned) = 0
      /\ \A d \in 1..Len(passed) : passed[d] = LayerAt(d)
      /\ depth = Len(passed) + 1 /\ depth \in 1..N
  BY LayersArePositions, LenProperties DEF Onion, Layered, At, N, LayerAt
<1>2. LayerAt(depth) \in Nat
  BY <1>1, LayersArePositions
<1>3. /\ passed' \in Seq(Nat) /\ Len(passed') = Len(passed) + 1
      /\ \A d \in 1..Len(passed) : passed'[d] = passed[d]
      /\ passed'[Len(passed) + 1] = LayerAt(depth)
  BY <1>1, <1>2, AppendProperties
<1>4. ASSUME NEW d \in 1..Len(passed') PROVE passed'[d] = LayerAt(d)
  <2>1. d \in 1..Len(passed) \/ d = Len(passed) + 1
    BY <1>1, <1>3
  <2> QED
    BY <1>1, <1>3, <2>1
<1>5. /\ Len(passed') <= N /\ Len(returned) <= Len(passed') /\ depth' = Len(passed') + 1
      /\ depth' \in Nat
  BY <1>1, <1>3
<1>6. 1..Len(returned) = {}
  BY <1>1
<1>7. Layered'
  BY <1>1, <1>3, <1>4, <1>5, <1>6 DEF Layered
<1>8. At(pc', depth', Len(passed'), Len(returned'))
  BY <1>1, <1>5 DEF At, Inside
<1> QED
  BY <1>1, <1>7, <1>8 DEF Onion, At

\* A layer gets its response.
LEMMA OnionReturns ==
    ASSUME Building, Onion, UNCHANGED <<chain, passed>>, pc = "out", depth > 0,
           returned' = Append(returned, LayerAt(depth)),
           \/ pc' = "out" /\ depth' = depth - 1
           \/ pc' = "raised" /\ depth' = depth
    PROVE  Onion'
<1>0. \A j \in 1..Len(returned) : returned[j] = LayerAt(Len(passed) - j + 1)
  BY DEF Onion, Layered
<1>1. /\ N \in Nat /\ N' = N /\ \A d : LayerAt(d)' = LayerAt(d)
      /\ passed \in Seq(Nat) /\ returned \in Seq(Nat)
      /\ Len(passed) \in Nat /\ Len(returned) \in Nat
      /\ Len(passed) <= N
      /\ depth = Len(passed) - Len(returned) /\ depth \in 1..N
  BY LayersArePositions, LenProperties DEF Onion, Layered, At, Inside, N, LayerAt
<1>2. LayerAt(depth) \in Nat
  BY <1>1, LayersArePositions
<1>3. /\ returned' \in Seq(Nat) /\ Len(returned') = Len(returned) + 1
      /\ \A k \in 1..Len(returned) : returned'[k] = returned[k]
      /\ returned'[Len(returned) + 1] = LayerAt(depth)
  BY <1>1, <1>2, AppendProperties
<1>n. Len(returned) \in Nat /\ Len(returned') = Len(returned) + 1
  BY <1>1, <1>3
<1>4. ASSUME NEW k \in 1..Len(returned') PROVE returned'[k] = LayerAt(Len(passed) - k + 1)
  <2>1. CASE k = Len(returned) + 1
    <3>1. Len(passed) - k + 1 = depth
      <4>1. \A a, b \in Nat : a - (b + 1) + 1 = a - b
        OBVIOUS
      <4> QED
        BY <1>1, <2>1, <4>1
    <3> QED
      BY <1>3, <2>1, <3>1
  <2>2. CASE k # Len(returned) + 1
    <3>1. k \in 1..Len(returned)
      BY <1>n, <2>2
    <3>2. returned[k] = LayerAt(Len(passed) - k + 1)
      BY <1>0, <3>1
    <3>3. returned'[k] = returned[k]
      BY <1>3, <3>1
    <3> QED
      BY <3>2, <3>3
  <2> QED
    BY <2>1, <2>2
<1>5. Len(returned') <= Len(passed)
  <2>1. depth = Len(passed) - Len(returned) /\ depth \in 1..N /\ Len(passed) \in Nat
    BY <1>1
  <2> QED
    BY <1>n, <2>1
<1>6. Layered'
  BY <1>1, <1>3, <1>4, <1>5 DEF Onion, Layered
<1>7. At(pc', depth', Len(passed'), Len(returned'))
  <2>1. \A lp, lr \in Nat : lp - (lr + 1) = (lp - lr) - 1 /\ lp - (lr + 1) + 1 = lp - lr
    OBVIOUS
  <2>2. CASE pc' = "out" /\ depth' = depth - 1
    <3>1. depth' \in Nat /\ depth' = Len(passed') - Len(returned')
      BY <1>1, <1>3, <2>1, <2>2
    <3> QED
      BY <2>2, <3>1 DEF At, Inside
  <2>3. CASE pc' = "raised" /\ depth' = depth
    <3>1. depth' \in Nat /\ depth' = Len(passed') - Len(returned') + 1
      BY <1>1, <1>3, <2>1, <2>3
    <3> QED
      BY <2>3, <3>1 DEF At, Inside
  <2> QED
    BY <2>2, <2>3
<1> QED
  BY <1>1, <1>6, <1>7 DEF Onion, At

\* Every step keeps what holds of the layers.
LEMMA OnionStep == Building /\ Onion /\ [Next]_vars => Onion'
<1> SUFFICES ASSUME Building, Onion, [Next]_vars PROVE Onion'
  OBVIOUS
<1>1. /\ N \in Nat /\ Len(passed) \in Nat /\ Len(returned) \in Nat
      /\ Len(passed) <= N /\ Len(returned) <= Len(passed)
      /\ At(pc, depth, Len(passed), Len(returned))
  BY LayersArePositions, LenProperties DEF Onion, Layered
<1> DEFINE lp == Len(passed)
           lr == Len(returned)
<1> HIDE DEF lp, lr
<1>2. /\ N \in Nat /\ lp \in Nat /\ lr \in Nat /\ lp <= N /\ lr <= lp
      /\ At(pc, depth, lp, lr)
  BY <1>1 DEF lp, lr
<1>3. ASSUME UNCHANGED <<chain, passed, returned>>, At(pc', depth', lp, lr)
      PROVE  Onion'
  BY <1>3, OnionMoves DEF lp, lr
<1>a. \A a, b \in Nat : b = 0 => a - b = a
  OBVIOUS
<1>4. CASE BuildEntry
  <2>1. /\ N' \in Nat /\ pc' \in {"build", "improper"} /\ pc = "build"
        /\ UNCHANGED <<depth, passed, returned>>
    BY <1>4, BuildEntryFits, LenProperties DEF BuildEntry, history, Building, Down, N
  <2>2. lp = 0 /\ lr = 0 /\ depth = 1
    BY <1>2, <2>1 DEF At, Inside
  <2>3. 1..0 = {}
    OBVIOUS
  <2>4. Layered'
    BY <2>1, <2>2, <2>3 DEF Onion, Layered, lp, lr
  <2>5. At(pc, depth, Len(passed), Len(returned))'
    <3>1. Len(passed') = 0 /\ Len(returned') = 0 /\ depth' = 1 /\ 1 \in Nat
      BY <2>1, <2>2 DEF lp, lr
    <3> QED
      BY <2>1, <3>1, Zenon DEF At
  <2> QED
    BY <2>4, <2>5 DEF Onion
<1>5. CASE BuildEnds
  BY <1>2, <1>3, <1>5 DEF BuildEnds, built, history, At, Inside
<1>6. CASE EnterLayer
  <2>1. pc = "in" /\ depth <= N /\ UNCHANGED <<chain, returned>>
    BY <1>6 DEF EnterLayer, built
  <2>2. CASE depth' = depth + 1 /\ passed' = Append(passed, LayerAt(depth)) /\ UNCHANGED pc
    BY <2>1, <2>2, OnionGrows
  <2>3. CASE pc' = "out" /\ depth' = depth - 1 /\ UNCHANGED passed
    BY <1>2, <1>3, <2>1, <2>3 DEF At, Inside
  <2>4. CASE pc' = "raised" /\ UNCHANGED <<depth, passed>>
    BY <1>2, <1>3, <2>1, <2>4 DEF At, Inside
  <2> QED
    BY <1>6, <2>2, <2>3, <2>4 DEF EnterLayer
<1>7. CASE LeaveLayer
  BY <1>7, OnionReturns DEF LeaveLayer, built
<1>8. CASE ConvertException
  BY <1>2, <1>3, <1>8 DEF ConvertException, built, history, At, Inside
<1>9. CASE Finish
  BY <1>2, <1>3, <1>9 DEF Finish, built, history, At, Inside
<1>10. CASE ResolveRequest
  <2>1. /\ pc = "in" /\ depth = N + 1 /\ UNCHANGED <<chain, passed, returned, depth>>
        /\ pc' = "view hooks" \/ pc' = "raised"
    BY <1>10 DEF ResolveRequest, MoveTo, Raise, built, history
  <2>2. lr = 0 /\ depth = lp + 1
    BY <1>2, <2>1 DEF At, Inside
  <2>3. lp - lr + 1 = depth' /\ depth' = N + 1 /\ lp = N /\ depth' \in Nat
    <3>1. lp - lr = lp
      BY <1>2, <2>2, <1>a
    <3>2. depth' = lp + 1 /\ depth' = N + 1 /\ lp \in Nat /\ N \in Nat
      BY <1>2, <2>1, <2>2
    <3> QED
      BY <3>1, <3>2
  <2>4. At(pc', depth', lp, lr)
    BY <2>1, <2>2, <2>3, Zenon DEF At, Inside
  <2> QED
    BY <1>3, <2>1, <2>4
<1>11. CASE ViewHook \/ RunView \/ ExceptionHook \/ ReRaise \/ TemplateHook \/ Render
  <2>1. /\ UNCHANGED <<chain, passed, returned>>
        /\ pc \in Inside
        /\ \/ pc' \in Inside \cup {"raised"} /\ depth' = depth
           \/ pc' = "out" /\ depth' = depth - 1
    <3> USE DEF built, history, Inside, Got, Raise, MoveTo
    <3>1. CASE ViewHook
      BY <3>1 DEF ViewHook
    <3>2. CASE RunView
      BY <3>2 DEF RunView
    <3>3. CASE ExceptionHook
      BY <3>3 DEF ExceptionHook
    <3>4. CASE ReRaise
      BY <3>4 DEF ReRaise
    <3>5. CASE TemplateHook
      BY <3>5 DEF TemplateHook
    <3>6. CASE Render
      BY <3>6 DEF Render
    <3> QED
      BY <1>11, <3>1, <3>2, <3>3, <3>4, <3>5, <3>6
  <2>2. lr = 0 /\ depth = lp + 1 /\ depth = N + 1
    BY <1>2, <2>1 DEF At, Inside
  <2>3. lp - lr = lp
    BY <1>2, <2>2, <1>a
  <2>4. At(pc', depth', lp, lr)
    <3>1. CASE pc' \in Inside \cup {"raised"} /\ depth' = depth
      <4>1. depth' = lp - lr + 1 /\ depth' = N + 1 /\ lp = N /\ depth' \in Nat
        BY <1>2, <2>2, <2>3, <3>1
      <4> QED
        BY <4>1, <2>2, <3>1, Zenon DEF At
    <3>2. CASE pc' = "out" /\ depth' = depth - 1
      <4>1. depth - 1 = lp /\ lp \in Nat
        BY <1>2, <2>2
      <4> QED
        BY <4>1, <2>3, <3>2, Zenon DEF At
    <3> QED
      BY <2>1, <3>1, <3>2
  <2> QED
    BY <1>3, <2>1, <2>4
<1>12. CASE UNCHANGED vars
  BY <1>2, <1>3, <1>12 DEF vars, built, history
<1> QED
  BY <1>4, <1>5, <1>6, <1>7, <1>8, <1>9, <1>10, <1>11, <1>12 DEF Next, RunStep

-----------------------------------------------------------------------------
(* The hooks.                                                              *)

\* The next hook of a list has run.
LEMMA FollowsGrows ==
    ASSUME NEW t \in Seq(Nat), NEW s, Follows(s, t), NEW h \in Nat \ {0},
           Len(s) = h - 1, h <= Len(t)
    PROVE  /\ Append(s, t[h]) \in Seq(Nat)
           /\ Follows(Append(s, t[h]), t)
           /\ Len(Append(s, t[h])) = (h + 1) - 1
<1>1. /\ s \in Seq(Nat) /\ Len(s) \in Nat /\ Len(t) \in Nat /\ h \in 1..Len(t)
      /\ \A k \in 1..Len(s) : s[k] = t[k]
  BY LenProperties DEF Follows
<1>2. t[h] \in Nat
  BY <1>1, ElementOfSeq
<1> DEFINE u == Append(s, t[h])
<1>3. /\ u \in Seq(Nat) /\ Len(u) = Len(s) + 1
      /\ \A k \in 1..Len(s) : u[k] = s[k]
      /\ u[Len(s) + 1] = t[h]
  BY <1>1, <1>2, AppendProperties
<1> HIDE DEF u
<1>4. ASSUME NEW k \in 1..Len(u) PROVE u[k] = t[k]
  <2>1. k \in 1..Len(s) \/ (k = Len(s) + 1 /\ k = h)
    BY <1>1, <1>3
  <2> QED
    BY <1>1, <1>3, <2>1
<1>5. Len(u) <= Len(t) /\ Len(u) = (h + 1) - 1
  BY <1>1, <1>3
<1>6. Follows(u, t)
  BY <1>3, <1>4, <1>5 DEF Follows
<1> QED
  BY <1>3, <1>5, <1>6 DEF u

\* No hook has run.
LEMMA FollowsEmpty ==
    ASSUME NEW t \in Seq(Nat), NEW s \in Seq(Nat), Len(s) = 0
    PROVE  Follows(s, t)
<1>1. Len(t) \in Nat /\ 1..0 = {}
  BY LenProperties
<1> QED
  BY <1>1 DEF Follows

\* A step that runs no hook.
LEMMA RunningMoves ==
    ASSUME Running, UNCHANGED <<chain, ran, hook>>,
           \/ pc' = pc /\ failed' = failed
           \/ pc' \in {"out", "raised", "done"}
           \/ pc \in {"build", "improper"} /\ pc' = "in"
    PROVE  Running'
  BY DEF Running, Follows

\* Every step keeps what holds of the hooks.
LEMMA RunningStep == Building /\ Running /\ [Next]_vars => Running'
<1> SUFFICES ASSUME Building, Running, [Next]_vars PROVE Running'
  OBVIOUS
<1>1. /\ ran \in RanType /\ hook \in Nat \ {0}
      /\ chain.view \in Seq(Nat) /\ chain.template \in Seq(Nat) /\ chain.exception \in Seq(Nat)
      /\ Len(chain.view) \in Nat /\ Len(chain.template) \in Nat /\ Len(chain.exception) \in Nat
      /\ Len(ran.view) \in Nat /\ Len(ran.view) <= Len(chain.view)
      /\ Follows(ran.view, chain.view) /\ Follows(ran.template, chain.template)
      /\ Follows(ran.exception, chain.exception)
      /\ ran.theView => Len(ran.view) = Len(chain.view)
  BY LenProperties DEF Running, RanType, Building, Up, Down, Follows
<1>2. << >> \in Seq(Nat) /\ Len(<< >>) = 0 /\ Follows(<< >>, chain.exception)
  BY <1>1, EmptySeq, FollowsEmpty
<1>3. CASE BuildEntry
  <2>1. /\ chain'.view \in Seq(Nat) /\ chain'.template \in Seq(Nat)
        /\ chain'.exception \in Seq(Nat)
    BY <1>3, BuildEntryFits DEF Building, Up, Down
  <2>2. /\ pc = "build" /\ pc' \in {"build", "improper"} /\ UNCHANGED <<ran, hook>>
    BY <1>3 DEF BuildEntry, history
  <2>3. /\ Len(ran.view) = 0 /\ Len(ran.template) = 0 /\ Len(ran.exception) = 0
        /\ ~ran.theView
    BY <2>2 DEF Running
  <2>4. /\ Follows(ran.view, chain'.view) /\ Follows(ran.template, chain'.template)
        /\ Follows(ran.exception, chain'.exception)
    BY <1>1, <2>1, <2>3, FollowsEmpty DEF RanType
  <2> QED
    BY <1>1, <2>2, <2>3, <2>4 DEF Running
<1>4. CASE BuildEnds \/ EnterLayer \/ LeaveLayer \/ ConvertException \/ Finish \/ UNCHANGED vars
  <2>1. /\ UNCHANGED <<chain, ran, hook>>
        /\ \/ pc' = pc /\ failed' = failed
           \/ pc' \in {"out", "raised", "done"}
           \/ pc \in {"build", "improper"} /\ pc' = "in"
    BY <1>4 DEF BuildEnds, EnterLayer, LeaveLayer, ConvertException, Finish, vars, built, history
  <2> QED
    BY <2>1, RunningMoves
<1>5. CASE ResolveRequest
  <2>1. /\ pc = "in" /\ pc' \in {"view hooks", "raised"} /\ hook' = 1
        /\ UNCHANGED <<chain, ran>>
    BY <1>5 DEF ResolveRequest, built, history, MoveTo, Raise
  <2>2. 1 \in Nat \ {0} /\ 1 - 1 = 0
    OBVIOUS
  <2> QED
    BY <2>1, <2>2 DEF Running
<1>6. CASE ViewHook
  <2> DEFINE s == Append(ran.view, chain.view[hook])
  <2>1. /\ pc = "view hooks" /\ hook <= Len(chain.view) /\ chain' = chain
        /\ ran' = [ran EXCEPT !.view = s]
        /\ \/ pc' = "view hooks" /\ hook' = hook + 1
           \/ pc' \in {"template", "out"} /\ hook' = 1
           \/ pc' = "raised" /\ hook' = hook
    BY <1>6 DEF ViewHook, built, Got, MoveTo, Raise
  <2>2. /\ Len(ran.view) = hook - 1 /\ ~ran.theView
        /\ Len(ran.template) = 0 /\ Len(ran.exception) = 0
    BY <2>1 DEF Running
  <2>3. s \in Seq(Nat) /\ Follows(s, chain.view) /\ Len(s) = (hook + 1) - 1
    BY <1>1, <2>1, <2>2, FollowsGrows
  <2> HIDE DEF s
  <2>4. /\ ran' \in RanType /\ ran'.view = s /\ ran'.template = ran.template
        /\ ran'.exception = ran.exception /\ ran'.theView = ran.theView
    BY <1>1, <2>1, <2>3 DEF RanType
  <2>5. hook' \in Nat \ {0} /\ 1 - 1 = 0
    <3>1. 1 - 1 = 0 /\ 1 \in Nat \ {0} /\ \A h \in Nat \ {0} : h + 1 \in Nat \ {0}
      OBVIOUS
    <3> QED
      BY <1>1, <2>1, <3>1
  <2> QED
    BY <1>1, <2>1, <2>2, <2>3, <2>4, <2>5 DEF Running
<1>7. CASE RunView
  <2>1. /\ pc = "view hooks" /\ hook > Len(chain.view) /\ chain' = chain
        /\ ran' = [ran EXCEPT !.theView = TRUE] /\ hook' = 1
        /\ \/ pc' \in {"template", "out", "raised"}
           \/ pc' = "exception" /\ failed' = "view"
    BY <1>7 DEF RunView, built, Got, MoveTo, Raise
  <2>2. /\ Len(ran.view) = hook - 1 /\ Len(ran.template) = 0 /\ Len(ran.exception) = 0
    BY <2>1 DEF Running
  <2>3. /\ ran' \in RanType /\ ran'.view = ran.view /\ ran'.template = ran.template
        /\ ran'.exception = ran.exception
    BY <1>1, <2>1 DEF RanType
  <2>4. Len(ran.view) = Len(chain.view) /\ 1 \in Nat \ {0} /\ 1 - 1 = 0
    <3>1. /\ 1 - 1 = 0 /\ 1 \in Nat \ {0}
          /\ \A a, b \in Nat, h \in Nat \ {0} : a = h - 1 /\ h > b /\ a <= b => a = b
      OBVIOUS
    <3> QED
      BY <1>1, <2>1, <2>2, <3>1
  <2> QED
    BY <1>1, <2>1, <2>2, <2>3, <2>4 DEF Running
<1>8. CASE ExceptionHook
  <2> DEFINE s == Append(ran.exception, chain.exception[hook])
  <2>1. /\ pc = "exception" /\ hook <= Len(chain.exception) /\ chain' = chain
        /\ ran' = [ran EXCEPT !.exception = s] /\ failed' = failed
        /\ \/ pc' = "exception" /\ hook' = hook + 1
           \/ pc' = "out" /\ hook' = 1
           \/ pc' = "template" /\ hook' = 1 /\ failed = "view"
           \/ pc' = "raised" /\ hook' = hook
    BY <1>8 DEF ExceptionHook, built, Got, MoveTo, Raise
  <2>2. /\ Len(ran.exception) = hook - 1 /\ failed \in {"view", "render"}
        /\ failed = "view" => Len(ran.template) = 0
    BY <2>1 DEF Running
  <2>3. s \in Seq(Nat) /\ Follows(s, chain.exception) /\ Len(s) = (hook + 1) - 1
    BY <1>1, <2>1, <2>2, FollowsGrows
  <2> HIDE DEF s
  <2>4. /\ ran' \in RanType /\ ran'.exception = s /\ ran'.template = ran.template
        /\ ran'.view = ran.view /\ ran'.theView = ran.theView
    BY <1>1, <2>1, <2>3 DEF RanType
  <2>5. hook' \in Nat \ {0} /\ 1 - 1 = 0
    <3>1. 1 - 1 = 0 /\ 1 \in Nat \ {0} /\ \A h \in Nat \ {0} : h + 1 \in Nat \ {0}
      OBVIOUS
    <3> QED
      BY <1>1, <2>1, <3>1
  <2> QED
    BY <1>1, <2>1, <2>2, <2>3, <2>4, <2>5 DEF Running
<1>9. CASE ReRaise
  <2>1. UNCHANGED <<chain, ran, hook>> /\ pc' = "raised"
    BY <1>9 DEF ReRaise, Raise, built, history
  <2> QED
    BY <2>1, RunningMoves
<1>10. CASE TemplateHook
  <2> DEFINE s == Append(ran.template, chain.template[hook])
  <2>1. /\ pc = "template" /\ hook <= Len(chain.template) /\ chain' = chain
        /\ ran' = [ran EXCEPT !.template = s]
        /\ \/ pc' = "template" /\ hook' = hook + 1
           \/ pc' = "raised" /\ hook' = hook
    BY <1>10 DEF TemplateHook, built, Raise
  <2>2. Len(ran.template) = hook - 1
    BY <2>1 DEF Running
  <2>3. s \in Seq(Nat) /\ Follows(s, chain.template) /\ Len(s) = (hook + 1) - 1
    BY <1>1, <2>1, <2>2, FollowsGrows
  <2> HIDE DEF s
  <2>4. /\ ran' \in RanType /\ ran'.template = s /\ ran'.exception = ran.exception
        /\ ran'.view = ran.view /\ ran'.theView = ran.theView
    BY <1>1, <2>1, <2>3 DEF RanType
  <2>5. hook' \in Nat \ {0}
    BY <1>1, <2>1
  <2> QED
    BY <1>1, <2>1, <2>2, <2>3, <2>4, <2>5 DEF Running
<1>11. CASE Render
  <2>1. /\ pc = "template" /\ chain' = chain /\ hook' = 1
        /\ \/ pc' = "out" /\ ran' = ran
           \/ /\ pc' = "exception" /\ failed' = "render"
              /\ ran' = [ran EXCEPT !.exception = << >>]
    BY <1>11 DEF Render, built, MoveTo
  <2>2. 1 \in Nat \ {0} /\ 1 - 1 = 0
    OBVIOUS
  <2>3. CASE pc' = "out" /\ ran' = ran
    BY <1>1, <2>1, <2>2, <2>3 DEF Running
  <2>4. CASE /\ pc' = "exception" /\ failed' = "render"
             /\ ran' = [ran EXCEPT !.exception = << >>]
    <3>1. /\ ran' \in RanType /\ ran'.exception = << >> /\ ran'.template = ran.template
          /\ ran'.view = ran.view /\ ran'.theView = ran.theView
      BY <1>1, <1>2, <2>4 DEF RanType
    <3> QED
      BY <1>1, <1>2, <2>1, <2>2, <2>4, <3>1 DEF Running
  <2> QED
    BY <2>1, <2>3, <2>4
<1> QED
  BY <1>3, <1>4, <1>5, <1>6, <1>7, <1>8, <1>9, <1>10, <1>11 DEF Next, RunStep

-----------------------------------------------------------------------------
(* The theorems.                                                           *)

\* Before the build nothing is listed and nothing has run.
LEMMA ChainInits == Init => ChainInv
<1> SUFFICES ASSUME Init PROVE ChainInv
  OBVIOUS
<1>1. /\ middleware \in Seq(Layers) /\ Len(middleware) \in Nat
      /\ DOMAIN middleware = 1..Len(middleware)
  <2>1. PICK n \in 0..MaxLayers : middleware \in [1..n -> Layers]
    BY DEF Init
  <2>2. n \in Nat
    BY <2>1, MaxLayersAssumption
  <2>3. middleware \in Seq(Layers)
    BY <2>1, <2>2
  <2> QED
    BY <2>3, LenProperties
<1>2. /\ << >> \in Seq(Nat) /\ << >> \in Seq(BOOLEAN) /\ Len(<< >>) = 0
      /\ DOMAIN << >> = {} /\ 1..0 = {}
  BY EmptySeq
<1>3. ASSUME NEW H, H \subseteq DOMAIN middleware
      PROVE  Up(<< >>, H, Len(middleware)) /\ Down(<< >>, H, Len(middleware))
  <2>1. {i \in H : i > Len(middleware)} = {}
    BY <1>1, <1>3
  <2>2. Range(<< >>) = {}
    BY <1>2 DEF Range
  <2> QED
    BY <1>2, <2>1, <2>2 DEF Up, Down, Ascending, Descending
<1>4. N = 0
  BY <1>2 DEF Init, Empty, N
<1>5. Building
  <2>1. ModesFit
    BY <1>2, <1>4 DEF ModesFit
  <2>2. ModeOf(1)
    BY <1>4 DEF ModeOf
  <2>3. Used \subseteq DOMAIN middleware /\ \A name : Hooked(name) \subseteq DOMAIN middleware
    BY DEF Used, Hooked
  <2>4. entry = Len(middleware) /\ entry \in 0..Len(middleware) /\ pc = "build"
    BY <1>1 DEF Init
  <2> QED
    BY <1>1, <1>2, <1>3, <1>4, <2>1, <2>2, <2>3, <2>4 DEF Init, Empty, Building
<1>6. Onion
  BY <1>2, <1>4 DEF Init, Onion, Layered, At
<1>7. Running
  <2>1. /\ chain.view = << >> /\ chain.template = << >> /\ chain.exception = << >>
        /\ ran.view = << >> /\ ran.template = << >> /\ ran.exception = << >>
        /\ ~ran.theView /\ ran \in RanType /\ pc = "build" /\ hook = 1
    BY <1>2 DEF Init, Empty, RanType
  <2>2. Follows(<< >>, << >>)
    BY <1>2, FollowsEmpty
  <2> QED
    BY <1>2, <2>1, <2>2 DEF Running
<1> QED
  BY <1>5, <1>6, <1>7 DEF ChainInv

\* The inductive invariant of the build and of a run.
THEOREM ChainInvariant == Spec => []ChainInv
<1>1. ChainInv /\ [Next]_vars => ChainInv'
  BY BuildingStep, OnionStep, RunningStep DEF ChainInv
<1> QED
  BY <1>1, ChainInits, PTL DEF Spec

\* Every layer runs in a mode of its class, and no switch of modes is in vain.
THEOREM LayersModesFit == Spec => []ModesFit
<1>1. ChainInv => ModesFit
  BY DEF ChainInv, Building
<1> QED
  BY <1>1, ChainInvariant, PTL

\* The lists are complete and in order, and the hooks run in their order.
THEOREM HooksRunInOrder == Spec => []HooksInOrder
<1>1. ChainInv => HooksInOrder
  <2> SUFFICES ASSUME ChainInv PROVE HooksInOrder
    OBVIOUS
  <2>1. /\ chain.view \in Seq(Nat) /\ chain.template \in Seq(Nat)
        /\ chain.exception \in Seq(Nat)
    BY DEF ChainInv, Building, Up, Down
  <2>2. /\ IsPrefix(ran.view, chain.view) /\ IsPrefix(ran.template, chain.template)
        /\ IsPrefix(ran.exception, chain.exception)
        /\ ran.theView => ran.view = chain.view
    BY <2>1, FollowsIsPrefix DEF ChainInv, Running
  <2>3. ASSUME pc \notin {"build", "improper"}
        PROVE  /\ Descending(chain.layers) /\ Range(chain.layers) = Used
               /\ Ascending(chain.view) /\ Range(chain.view) = Hooked("view")
               /\ Descending(chain.template) /\ Range(chain.template) = Hooked("template")
               /\ Descending(chain.exception) /\ Range(chain.exception) = Hooked("exception")
    <3>1. entry = 0 /\ DOMAIN middleware = 1..Len(middleware) /\ Len(middleware) \in Nat
      BY <2>3, Entries DEF ChainInv, Building
    <3>2. ASSUME NEW H, H \subseteq DOMAIN middleware PROVE {i \in H : i > 0} = H
      BY <3>1, <3>2
    <3>3. /\ Used \subseteq DOMAIN middleware
          /\ \A name : Hooked(name) \subseteq DOMAIN middleware
      BY DEF Used, Hooked
    <3> QED
      BY <3>1, <3>2, <3>3 DEF ChainInv, Building, Up, Down
  <2> QED
    BY <2>2, <2>3 DEF HooksInOrder
<1> QED
  BY <1>1, ChainInvariant, PTL

\* Every layer that passed the request on gets one response, as in an onion.
THEOREM LayersGetTheirResponse == Spec => []EveryLayerGetsItsResponse
<1>1. ChainInv => EveryLayerGetsItsResponse
  <2> SUFFICES ASSUME ChainInv PROVE EveryLayerGetsItsResponse
    OBVIOUS
  <2> DEFINE r == Reverse(passed)
  <2>1. /\ passed \in Seq(Nat) /\ returned \in Seq(Nat)
        /\ Len(passed) \in Nat /\ Len(returned) \in Nat /\ Len(returned) <= Len(passed)
        /\ \A d \in 1..Len(passed) : passed[d] = LayerAt(d) /\ passed[d] \in Nat
    BY LenProperties, ElementOfSeq DEF ChainInv, Onion, Layered
  <2>2. /\ r \in Seq(Nat) /\ Len(r) = Len(passed)
        /\ \A k \in 1..Len(passed) : r[k] = passed[(Len(passed) - k) + 1]
    <3>1. \A k \in 1..Len(passed) : (Len(passed) - k) + 1 \in 1..Len(passed)
      BY <2>1
    <3>2. r \in [1..Len(passed) -> Nat]
      BY <2>1, <3>1 DEF Reverse
    <3>3. r \in Seq(Nat) /\ Len(r) = Len(passed)
      <4>1. \A n \in Nat : \A f \in [1..n -> Nat] : f \in Seq(Nat) /\ Len(f) = n
        OBVIOUS
      <4> QED
        BY <2>1, <3>2, <4>1
    <3> QED
      BY <3>3 DEF Reverse
  <2> HIDE DEF r
  <2>3. ASSUME NEW k \in 1..Len(returned) PROVE returned[k] = r[k]
    <3>1. k \in 1..Len(passed) /\ (Len(passed) - k) + 1 \in 1..Len(passed)
      BY <2>1
    <3>2. returned[k] = LayerAt(Len(passed) - k + 1)
      BY DEF ChainInv, Onion, Layered
    <3> QED
      BY <2>1, <2>2, <3>1, <3>2
  <2>4. Follows(returned, r)
    BY <2>1, <2>2, <2>3 DEF Follows
  <2>5. pc = "done" => Len(returned) = Len(passed)
    BY DEF ChainInv, Onion, At, Inside
  <2> QED
    BY <2>2, <2>4, <2>5, FollowsIsPrefix DEF EveryLayerGetsItsResponse, r
<1> QED
  BY <1>1, ChainInvariant, PTL

\* What the view or a hook answers is rendered before the first layer sees it.
THEOREM ResponsesLeaveRendered == Spec => LeavesRendered
<1> DEFINE Rendered ==
      depth = N + 1 /\ depth' = N /\ response' = "deferred" =>
        pc = "exception" /\ failed = "render"
<1>1. ChainInv /\ [Next]_vars => [Rendered]_vars
  <2> SUFFICES ASSUME ChainInv, [Next]_vars, depth = N + 1, depth' = N, response' = "deferred"
               PROVE  pc = "exception" /\ failed = "render"
    OBVIOUS
  <2>1. /\ N \in Nat /\ N # N + 1
    BY LayersArePositions DEF ChainInv
  <2>2. pc = "out" => depth <= N
    <3>1. /\ Len(passed) \in Nat /\ Len(returned) \in Nat /\ Len(passed) <= N
          /\ pc = "out" => depth = Len(passed) - Len(returned)
      BY LenProperties DEF ChainInv, Onion, Layered, At, Inside
    <3> QED
      BY <2>1, <3>1
  <2>3. depth' # depth
    BY <2>1
  <2>4. CASE EnterLayer
    BY <2>1, <2>4 DEF EnterLayer
  <2>5. CASE LeaveLayer
    BY <2>1, <2>2, <2>5 DEF LeaveLayer
  <2>6. CASE ConvertException
    BY <2>6 DEF ConvertException
  <2>7. CASE ViewHook
    BY <2>3, <2>7 DEF ViewHook, Got, MoveTo, Raise
  <2>8. CASE RunView
    BY <2>3, <2>8 DEF RunView, Got, MoveTo, Raise
  <2>9. CASE ExceptionHook
    <3>1. failed \in {"view", "render"} /\ pc = "exception"
      BY <2>9 DEF ExceptionHook, ChainInv, Running
    <3> QED
      BY <2>3, <2>9, <3>1 DEF ExceptionHook, Got, MoveTo, Raise
  <2>10. CASE Render
    BY <2>3, <2>10 DEF Render, MoveTo
  <2>11. CASE UNCHANGED depth
    BY <2>3, <2>11
  <2> QED
    BY <2>4, <2>5, <2>6, <2>7, <2>8, <2>9, <2>10, <2>11
    DEF Next, RunStep, vars, BuildEntry, BuildEnds, Finish, ResolveRequest, ReRaise,
        TemplateHook, MoveTo, Raise
<1> QED
  BY <1>1, ChainInvariant, PTL DEF Spec, LeavesRendered
=============================================================================
