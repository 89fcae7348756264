------------------------- MODULE MCCircuitRecovery --------------------------
(* Small instances of CircuitRecovery for TLC. *)
EXTENDS CircuitRecovery, TLC
=============================================================================
