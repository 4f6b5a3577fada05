------------------------------ MODULE MCChain -------------------------------
(* Chain on every settings.MIDDLEWARE of up to three entries.              *)
EXTENDS Chain

Kind(sync, async, hooks) ==
    [sync |-> sync, async |-> async, makes |-> "instance",
     view |-> hooks, template |-> hooks, exception |-> hooks]

\* Stock middleware can do both; older classes only one.
MCLayers ==
    {Kind(TRUE, TRUE, hooks) : hooks \in BOOLEAN}
      \cup {Kind(TRUE, FALSE, TRUE), Kind(FALSE, TRUE, FALSE), Kind(FALSE, FALSE, FALSE)}
      \cup {[Kind(TRUE, FALSE, TRUE) EXCEPT !.makes = "not used"],
             [Kind(TRUE, TRUE, FALSE) EXCEPT !.makes = "None"]}
=============================================================================
