-------------------------- MODULE MCMasslessServer --------------------------
(* MasslessServer on a small instance: c1 may pipeline a second request    *)
(* behind its first, any other client sends one.                           *)
EXTENDS MasslessServer

CONSTANT c1

MCMaxRequests == [c \in Conns |-> IF c = c1 THEN 2 ELSE 1]
=============================================================================
