----------------------- MODULE MCRecoveryCheckpoints -----------------------
EXTENDS RecoveryCheckpoints
CONSTANTS d1, d2, Budget

(* Documents are alike until one is written: let the first be d1.  (A      *)
(* symmetry set would do the same, but not together with liveness.)        *)
FirstIsD1 == used.edits + used.foreign = 0 => \A e \in mem' \cup canon'.text : e[1] = d1

(* A start that may go on for long counts for two of the other things that *)
(* happen.                                                                 *)
WithinBudget == used'.edits + used'.foreign + used'.failures + used'.reloads + 2 * used'.closes <= Budget

MCSpec == Init /\ [][Next /\ FirstIsD1 /\ WithinBudget]_vars /\ Fairness
=============================================================================
