-------------------------- MODULE MCUpdateBarrier --------------------------
(* The instance of UpdateBarrier for TLC: two processes, p1 and p2, which  *)
(* are model values of the configuration.                                  *)
EXTENDS UpdateBarrier
============================================================================
