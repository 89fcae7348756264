------------------------- MODULE MCCohortLifecycle --------------------------
(* Small instances of CohortLifecycle for TLC. *)
EXTENDS CohortLifecycle

Finalizers == {"finalizer"}
Tasks == {"source", "consumer", "finalizer"}
AllButConsumer == {"collection", "source", "finalizer"}
=============================================================================
