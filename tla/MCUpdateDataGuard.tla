------------------------- MODULE MCUpdateDataGuard -------------------------
(* The instance of UpdateDataGuard for TLC.                                *)
EXTENDS UpdateDataGuard
============================================================================
