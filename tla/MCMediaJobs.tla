---------------------------- MODULE MCMediaJobs ----------------------------
(* The instance of MediaJobs for TLC: one job of either kind, which a      *)
(* newer one may replace, and the requests it may cause.                   *)
EXTENDS MediaJobs
============================================================================
