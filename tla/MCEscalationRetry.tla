--------------------------- MODULE MCEscalationRetry ---------------------------
(* A small instance of EscalationRetry; no symmetry, it is checked for *)
(* liveness.                                                            *)
EXTENDS EscalationRetry
================================================================================
