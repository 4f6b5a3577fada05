------------------------------- MODULE Chain --------------------------------
(***************************************************************************)
(* The middleware chain: src/massless/_chain.py.  BuildEntry is the loop   *)
(* of _build; the other actions are one run of the chain: the request goes *)
(* through the layers inwards, through the hooks and the view, and the     *)
(* response goes outwards.  Each layer and _run_view is wrapped so that an *)
(* exception it raises reaches the next layer as a response.               *)
(*                                                                         *)
(* A layer is a member of settings.MIDDLEWARE, known by its position.      *)
(***************************************************************************)
EXTENDS Naturals, Sequences, SequencesExt

CONSTANTS
    Layers,      \* the kinds of middleware
    MaxLayers    \* bound: the length of settings.MIDDLEWARE

\* what the class can do, what it makes when called (an instance, or None, or
\* it raises MiddlewareNotUsed), and which hooks the instance has
ASSUME LayersAssumption ==
    Layers \subseteq [sync : BOOLEAN, async : BOOLEAN,
                      makes : {"instance", "not used", "None"},
                      view : BOOLEAN, template : BOOLEAN, exception : BOOLEAN]
ASSUME MaxLayersAssumption == MaxLayers \in Nat

VARIABLES
    middleware,   \* settings.MIDDLEWARE, outermost first
    entry,        \* _build: the entry to wrap next, from the innermost on
    chain,        \* what _build leaves
    pc,           \* where the request is
    depth,        \* how many layers it is in; one more in _run_view
    hook,         \* the next hook of the list at pc
    response,     \* none, plain, or deferred (it has a render method)
    failed,       \* what the exception hooks are looking at: view, render, none
    ran,          \* history: the layers whose hooks ran, and whether the view did
    passed,       \* history: the layers that passed the request on, outermost first
    returned      \* history: the layers that got a response for it

built == <<middleware, entry, chain>>
history == <<ran, passed, returned>>
vars == <<built, pc, depth, hook, response, failed, history>>

-----------------------------------------------------------------------------
(* _build: from the innermost entry outwards.                              *)

Empty == [layers |-> << >>, mode |-> << >>, view |-> << >>, template |-> << >>,
          exception |-> << >>, async |-> TRUE]

\* One more entry, in the mode that needs no adapter if the class has it.
\* Mutants: always the class's own preference; the view hooks in build order.
WrapPreferringAsync(i, l, c) ==
    [layers |-> Append(c.layers, i),
     mode |-> <<l.async>> \o c.mode,
     view |-> IF l.view THEN <<i>> \o c.view ELSE c.view,
     template |-> IF l.template THEN Append(c.template, i) ELSE c.template,
     exception |-> IF l.exception THEN Append(c.exception, i) ELSE c.exception,
     async |-> l.async]

WrapAppendingHooks(i, l, c) ==
    LET async == IF ~c.async /\ l.sync THEN FALSE ELSE l.async
    IN  [layers |-> Append(c.layers, i),
         mode |-> <<async>> \o c.mode,
         view |-> IF l.view THEN Append(c.view, i) ELSE c.view,
         template |-> IF l.template THEN Append(c.template, i) ELSE c.template,
         exception |-> IF l.exception THEN Append(c.exception, i) ELSE c.exception,
         async |-> async]

Wrap(i, l, c) ==
    LET async == IF ~c.async /\ l.sync THEN FALSE ELSE l.async
    IN  [layers |-> Append(c.layers, i),
         mode |-> <<async>> \o c.mode,
         view |-> IF l.view THEN <<i>> \o c.view ELSE c.view,
         template |-> IF l.template THEN Append(c.template, i) ELSE c.template,
         exception |-> IF l.exception THEN Append(c.exception, i) ELSE c.exception,
         async |-> async]

Improper(l) == (~l.sync /\ ~l.async) \/ l.makes = "None"

\* One entry that cannot be run fails the build; one that is not used is left
\* out, and the next one is adapted to what is inside it.
BuildEntry ==
    /\ pc = "build" /\ entry > 0
    /\ LET l == middleware[entry]
       IN  IF Improper(l) THEN pc' = "improper" /\ UNCHANGED <<entry, chain>>
           ELSE /\ chain' = IF l.makes = "instance" THEN Wrap(entry, l, chain) ELSE chain
                /\ entry' = entry - 1
                /\ UNCHANGED pc
    /\ UNCHANGED <<middleware, depth, hook, response, failed, history>>

BuildEnds ==
    /\ pc = "build" /\ entry = 0
    /\ pc' = "in"
    /\ UNCHANGED <<built, depth, hook, response, failed, history>>

Init ==
    /\ middleware \in UNION {[1..n -> Layers] : n \in 0..MaxLayers}
    /\ entry = Len(middleware)
    /\ chain = Empty
    /\ pc = "build"
    /\ depth = 1
    /\ hook = 1
    /\ response = "none"
    /\ failed = "none"
    /\ ran = [view |-> << >>, template |-> << >>, exception |-> << >>, theView |-> FALSE]
    /\ passed = << >>
    /\ returned = << >>

-----------------------------------------------------------------------------
(* Through the layers.  The layer at depth d is chain.layers[n - d + 1].   *)

N == Len(chain.layers)
LayerAt(d) == chain.layers[N - d + 1]
Answers == {"plain", "deferred"}

\* A layer passes the request on, answers it, or raises.
EnterLayer ==
    /\ pc = "in" /\ depth <= N
    /\ \/ /\ depth' = depth + 1
          /\ passed' = Append(passed, LayerAt(depth))
          /\ UNCHANGED <<pc, response>>
       \/ /\ response' \in Answers
          /\ pc' = "out" /\ depth' = depth - 1
          /\ UNCHANGED passed
       \/ /\ pc' = "raised"
          /\ UNCHANGED <<depth, response, passed>>
    /\ UNCHANGED <<built, hook, failed, ran, returned>>

\* A layer gets the response, returns it or another one, or raises.
LeaveLayer ==
    /\ pc = "out" /\ depth > 0
    /\ returned' = Append(returned, LayerAt(depth))
    /\ \/ /\ response' \in Answers
          /\ depth' = depth - 1
          /\ UNCHANGED pc
       \/ /\ pc' = "raised"
          /\ UNCHANGED <<depth, response>>
    /\ UNCHANGED <<built, hook, failed, ran, passed>>

\* convert_exception_to_response, around each layer and around _run_view.
\* Mutant: around the outermost layer only.
ConvertOutermost ==
    /\ pc = "raised"
    /\ response' = "plain"
    /\ pc' = "out" /\ depth' = 0
    /\ UNCHANGED <<built, hook, failed, history>>

ConvertException ==
    /\ pc = "raised"
    /\ response' = "plain"
    /\ pc' = "out" /\ depth' = depth - 1
    /\ UNCHANGED <<built, hook, failed, history>>

\* run() registers request.close and logs what is an error.
Finish ==
    /\ pc = "out" /\ depth = 0
    /\ pc' = "done"
    /\ UNCHANGED <<built, depth, hook, response, failed, history>>

-----------------------------------------------------------------------------
(* _run_view, at depth N + 1.                                              *)

\* The response of the view, or of a hook in its place.
Got(r) ==
    /\ response' = r
    /\ IF r = "deferred"
       THEN pc' = "template" /\ UNCHANGED depth
       ELSE pc' = "out" /\ depth' = depth - 1

Raise == pc' = "raised" /\ UNCHANGED <<depth, response>>
MoveTo(where) == pc' = where /\ UNCHANGED <<depth, response>>

\* resolve_request: the path may have no route.
ResolveRequest ==
    /\ pc = "in" /\ depth = N + 1
    /\ MoveTo("view hooks") \/ Raise
    /\ hook' = 1
    /\ UNCHANGED <<built, failed, history>>

ViewHook ==
    /\ pc = "view hooks" /\ hook <= Len(chain.view)
    /\ ran' = [ran EXCEPT !.view = Append(@, chain.view[hook])]
    /\ \/ MoveTo("view hooks") /\ hook' = hook + 1
       \/ (\E r \in Answers : Got(r)) /\ hook' = 1
       \/ Raise /\ UNCHANGED hook
    /\ UNCHANGED <<built, failed, passed, returned>>

\* The view: an answer, None (which check_response refuses), or an exception.
RunView ==
    /\ pc = "view hooks" /\ hook > Len(chain.view)
    /\ ran' = [ran EXCEPT !.theView = TRUE]
    /\ hook' = 1
    /\ \/ (\E r \in Answers : Got(r)) /\ UNCHANGED failed
       \/ Raise /\ UNCHANGED failed
       \/ MoveTo("exception") /\ failed' = "view"
    /\ UNCHANGED <<built, passed, returned>>

\* An answer to an exception of the view is treated like the view's; one to
\* an exception of the rendering is final.
\* Mutant: both are final.
ExceptionHookFinal ==
    /\ pc = "exception" /\ hook <= Len(chain.exception)
    /\ ran' = [ran EXCEPT !.exception = Append(@, chain.exception[hook])]
    /\ \/ MoveTo("exception") /\ hook' = hook + 1
       \/ response' \in Answers /\ pc' = "out" /\ depth' = depth - 1 /\ hook' = 1
       \/ Raise /\ UNCHANGED hook
    /\ UNCHANGED <<built, failed, passed, returned>>

ExceptionHook ==
    /\ pc = "exception" /\ hook <= Len(chain.exception)
    /\ ran' = [ran EXCEPT !.exception = Append(@, chain.exception[hook])]
    /\ \/ MoveTo("exception") /\ hook' = hook + 1
       \/ /\ hook' = 1
          /\ \E r \in Answers :
               IF failed = "view" THEN Got(r)
               ELSE response' = r /\ pc' = "out" /\ depth' = depth - 1
       \/ Raise /\ UNCHANGED hook
    /\ UNCHANGED <<built, failed, passed, returned>>

\* No hook answered: raise again.  Mutant: return what the hooks returned.
ReRaiseForgotten ==
    /\ pc = "exception" /\ hook > Len(chain.exception)
    /\ response' = "none" /\ pc' = "out" /\ depth' = depth - 1
    /\ UNCHANGED <<built, hook, failed, history>>

ReRaise ==
    /\ pc = "exception" /\ hook > Len(chain.exception)
    /\ Raise
    /\ UNCHANGED <<built, hook, failed, history>>

\* A hook returns a response, not always one that renders, or it fails.
TemplateHook ==
    /\ pc = "template" /\ hook <= Len(chain.template)
    /\ ran' = [ran EXCEPT !.template = Append(@, chain.template[hook])]
    /\ \/ response' \in Answers /\ hook' = hook + 1 /\ UNCHANGED <<pc, depth>>
       \/ Raise /\ UNCHANGED hook
    /\ UNCHANGED <<built, failed, passed, returned>>

\* The exception hooks look at a failed rendering, too; a response that has
\* no render method any more fails here.
Render ==
    /\ pc = "template" /\ hook > Len(chain.template)
    /\ hook' = 1
    /\ \/ /\ response = "deferred"
          /\ response' = "plain" /\ pc' = "out" /\ depth' = depth - 1
          /\ UNCHANGED <<failed, ran>>
       \/ /\ MoveTo("exception") /\ failed' = "render"
          /\ ran' = [ran EXCEPT !.exception = << >>]
    /\ UNCHANGED <<built, passed, returned>>

-----------------------------------------------------------------------------
RunStep ==
    \/ EnterLayer \/ LeaveLayer \/ ConvertException \/ Finish
    \/ ResolveRequest \/ ViewHook \/ RunView \/ ExceptionHook \/ ReRaise
    \/ TemplateHook \/ Render

Next == BuildEntry \/ BuildEnds \/ RunStep

\* Layers, hooks and views return.
Spec == Init /\ [][Next]_vars /\ WF_vars(RunStep)

-----------------------------------------------------------------------------
(* Properties.                                                             *)

Used == {i \in DOMAIN middleware : middleware[i].makes = "instance"}
Hooked(name) == {i \in Used : middleware[i][name]}
Ascending(s) == \A j, k \in DOMAIN s : j < k => s[j] < s[k]
Descending(s) == \A j, k \in DOMAIN s : j < k => s[j] > s[k]

\* Each layer runs in a mode its class supports, and one that supports both
\* never costs a switch between the loop and a thread.
ModesFit ==
    \A d \in 1..N :
        LET l == middleware[LayerAt(d)]
            inner == IF d = N THEN TRUE ELSE chain.mode[d + 1]
        IN  /\ IF chain.mode[d] THEN l.async ELSE l.sync
            /\ l.sync /\ l.async => chain.mode[d] = inner

\* No layer and no hook is left out or listed twice: view hooks in the order
\* of settings.MIDDLEWARE, template and exception hooks in the reverse order.
\* They run in the order of their list, and the view runs only after every
\* view hook has let it.
HooksInOrder ==
    /\ pc \notin {"build", "improper"} =>
         /\ Descending(chain.layers) /\ Range(chain.layers) = Used
         /\ Ascending(chain.view) /\ Range(chain.view) = Hooked("view")
         /\ Descending(chain.template) /\ Range(chain.template) = Hooked("template")
         /\ Descending(chain.exception) /\ Range(chain.exception) = Hooked("exception")
    /\ IsPrefix(ran.view, chain.view)
    /\ IsPrefix(ran.template, chain.template)
    /\ IsPrefix(ran.exception, chain.exception)
    /\ ran.theView => ran.view = chain.view

\* A layer that passed the request on gets exactly one response for it,
\* whatever is raised inside, in the order of an onion.
EveryLayerGetsItsResponse ==
    /\ IsPrefix(returned, Reverse(passed))
    /\ pc = "done" => returned = Reverse(passed)

\* What _run_view returns has been rendered; only an answer of an exception
\* hook to a failed rendering is passed on as it is.
LeavesRendered ==
    [][depth = N + 1 /\ depth' = N /\ response' = "deferred" =>
         pc = "exception" /\ failed = "render"]_vars

\* Every request that enters the chain comes out with a response.
EveryRequestAnswered == pc = "in" ~> (pc = "done" /\ response # "none")
=============================================================================
