------------------------------- MODULE Services -------------------------------
(***************************************************************************)
(* The services that publish and collect, and what their states are made   *)
(* of.  They share no variable but the parent discovery, which a pipeline  *)
(* run drives.                                                             *)
(***************************************************************************)
EXTENDS DatadogPublisher, Publishers, PipelineWorkflow, PolicyCollection, CipScan,
        ReadCache, ScmCoverage, Inventories

\* Every service keeps its state within its types and its limits: the changes
\* it may send or create, the entries it may hold, the candidates it may plan.
ServicesTypeOK ==
  /\ DatadogTypeOK /\ JiraTypeOK /\ ProductTypeOK /\ RollupTypeOK
  /\ WorkflowTypeOK /\ PolicyTypeOK /\ CipTypeOK /\ ReadCacheTypeOK
  /\ ScmTypeOK /\ GitHubTypeOK /\ GitLabTypeOK
=============================================================================
