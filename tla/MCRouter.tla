------------------------------ MODULE MCRouter ------------------------------
(* Router on every route of up to three parts, and on a few URLconfs.      *)
EXTENDS Router

None == << >>
Lit(text) == [kind |-> "lit", text |-> text, name |-> "-"]
Param(kind, name) == [kind |-> kind, text |-> << >>, name |-> name]

Kinds == {"int", "str", "slug", "uuid", "path"}
Parts(name) == {Lit(<<c>>) : c \in {"/", "1", "-"}} \cup {Param(k, name) : k \in Kinds}

Path(parts, view) ==
    [type |-> "path", parts |-> parts, view |-> view, defaults |-> None]
Include(parts, patterns) ==
    [type |-> "include", parts |-> parts, patterns |-> patterns, defaults |-> None]
Regex(view) == [type |-> "regex", view |-> view]

Names == <<"a", "b", "c">>

\* One pattern, with every sequence of parts.
OneRoute ==
    UNION {{<<Path(parts, "v")>> :
              parts \in {p \in [1..n -> UNION {Parts(x) : x \in {"a", "b", "c"}}] :
                           \A i \in 1..n : p[i] \in Parts(Names[i])}} : n \in 0..3}

\* Order, includes, opaque patterns, and keyword arguments.
Trees == {
    <<Path(<<Param("int", "a")>>, "i"), Path(<<Param("slug", "a")>>, "s")>>,
    <<Path(<<Param("slug", "a")>>, "s"), Path(<<Lit(<<"1">>)>>, "l")>>,
    <<Path(<<Param("custom", "a")>>, "c"), Path(<<Lit(<<"1">>)>>, "l")>>,
    <<Path(<<Lit(<<"1">>)>>, "l"), Regex("r"), Path(<<Lit(<<"f">>)>>, "m")>>,
    <<Path(<<Param("str", "a"), Lit(<<"-">>), Param("int", "b")>>, "x"),
      Path(<<Param("path", "p")>>, "p")>>,
    <<Include(<<Lit(<<"1">>)>>, <<Path(<<Lit(<<"/">>)>>, "x"), Path(None, "y")>>),
      Path(<<Param("path", "p")>>, "p")>>,
    <<Include(<<Param("int", "a"), Lit(<<"/">>)>>, <<Path(<<Param("str", "a")>>, "x")>>),
      Path(<<Param("str", "b"), Lit(<<"/">>), Param("slug", "a")>>, "y")>>,
    <<Include(<<Param("slug", "a")>>,
              <<Path(<<Lit(<<"-">>), Param("int", "b")>>, "x"), Path(<<Lit(<<"/">>)>>, "y")>>),
      Path(<<Param("path", "p")>>, "p")>>,
    <<Include(None, <<>>),
      Include(<<Lit(<<"1">>)>>,
              <<Include(<<Lit(<<"/">>), Param("slug", "a")>>, <<Path(<<Lit(<<"/">>)>>, "x")>>),
                Include(<<Param("str", "a")>>, <<Path(<<Param("int", "b")>>, "y")>>),
                Path(<<Param("path", "p")>>, "p")>>)>>,
    <<[Path(<<Param("int", "a")>>, "x") EXCEPT !.defaults = "a" :> <<"f">>]>> }

\* path("1", include([path("<str:a>", x)]), {"k": "f"})
IncludeWithDefaults ==
    <<[Include(<<Lit(<<"1">>)>>, <<Path(<<Param("str", "a")>>, "x")>>)
         EXCEPT !.defaults = "k" :> <<"f">>]>>

\* What a middleware puts in the place of ROOT_URLCONF.
MCOverrides == {<<Path(<<Lit(<<"1">>), Param("path", "p")>>, "o")>>}

MCUrlconfs == OneRoute \cup Trees \cup {IncludeWithDefaults}
Included(conf) == {conf[i].patterns : i \in {j \in DOMAIN conf : conf[j].type = "include"}}

MCConfs ==
    LET outer == MCUrlconfs \cup MCOverrides
        inner == UNION {Included(conf) : conf \in outer}
    IN  outer \cup inner \cup UNION {Included(conf) : conf \in inner}

MCDepth ==
    [conf \in MCConfs |->
        IF Included(conf) = {} THEN 0
        ELSE IF \A patterns \in Included(conf) : Included(patterns) = {} THEN 1 ELSE 2]

MCIncludes == {IncludeWithDefaults}
MCUuidShape == <<"hex", "-", "hex">>
=============================================================================
