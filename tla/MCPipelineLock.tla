--------------------------- MODULE MCPipelineLock ---------------------------
(* Small instances of PipelineLock for TLC. *)
EXTENDS PipelineLock, TLC

RunSymmetry == Permutations(Runs)
NoFaults == {}
Crashes == {"crash"}
Sigterms == {"sigterm"}
=============================================================================
