------------------------------ MODULE Inventories -----------------------------
(***************************************************************************)
(* What the inventories promise together: those of the GitHub and GitLab   *)
(* providers, and the roll-up's list of findings.                          *)
(***************************************************************************)
EXTENDS GitHubProvider, GitLabProvider, RollupPlan

\* An inventory without failures has every repository that was there all
\* along, and a roll-up every finding, but for the cases their modules name.
InventoriesMissNothing == GitHubMissesNothing /\ GitLabMissesNothing /\ RollupMissesNothing

\* The providers' controls say of a repository what was so during the run,
\* but for the cases their modules name.
ControlsTrue == GitHubControlsTrue /\ GitLabControlsTrue
=============================================================================
