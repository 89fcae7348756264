------------------------------ MODULE Publishers ------------------------------
(***************************************************************************)
(* What the publishers promise together: the hierarchy publisher, the one  *)
(* of product reports, and the plans the roll-up's findings make.          *)
(***************************************************************************)
EXTENDS JiraPublisher, ProductPublisher, RollupPlan

\* No publisher publishes anything twice, and no plan has a second node for
\* what an earlier one had, without a reason their modules name.
NothingPublishedTwice == JiraDuplicatesExplained /\ ProductNeverTwice /\ RollupNeverTwice
=============================================================================
