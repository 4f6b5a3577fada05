----------------------------- MODULE MCDispatch -----------------------------
(* Dispatch on a small instance, under every configuration of the handler. *)
EXTENDS Dispatch
=============================================================================
