-------------------------- MODULE ProductPublisher --------------------------
(***************************************************************************)
(* The publisher of product reports (jira/product_publishing.py): it notes *)
(* every creation in the state file before it POSTs it, never repeats a    *)
(* POST, and refuses to start while it cannot account for an issue.  An    *)
(* issue it has on record and does not find is created anew only when the  *)
(* operator approves that in so many words.  Searches do not see           *)
(* every issue (the index lags, visibility is lost), answers are lost and  *)
(* a run may die anywhere.  A dry run writes nothing and is left out.      *)
(***************************************************************************)
EXTENDS Naturals, FiniteSets

CONSTANTS
  PPNodes,        \* the nodes, 1 .. n, Epics before Tasks
  PPParent,       \* node -> its Epic, 0 for an Epic
  PPPlans,        \* the plans tried: sets of nodes with their Epics
  PPMaxCreate,    \* --max-create
  PPMaxFaults,    \* bound: lost answers, lost visibility, deletions, crashes
  PPMaxRuns       \* bound: runs

ASSUME ProductAssumption ==
  /\ PPNodes \subseteq Nat \ {0} /\ PPParent \in [PPNodes -> PPNodes \cup {0}]
  /\ PPPlans \subseteq (SUBSET PPNodes) \ {{}}
  /\ \A plan \in PPPlans : \A n \in plan : PPParent[n] \in plan \cup {0}
  /\ PPMaxCreate \in Nat \ {0} /\ PPMaxFaults \in Nat /\ PPMaxRuns \in Nat

VARIABLES
  ppFile,         \* the state file: node -> issue key, 0 when there is none
  ppPending,      \* the state file: nodes whose creation was begun
  ppPc,           \* "idle" | "preflight" | "nodes" | "posting" | "answered"
  ppPlan, ppApproved,   \* the plan of this run; recreation was approved
  ppAt, ppKeys, ppCreated,  \* the node at hand, keys known, issues created
  ppIssues,       \* Jira: the issues, [node, key, under]
  ppVisible,      \* Jira: the issues a search sees
  ppNext,         \* Jira: node -> the key its next issue would get
  ppDropped,      \* node -> times its record was dropped while its issue lived
  ppFaults, ppRuns

ppRun == <<ppPc, ppPlan, ppApproved, ppAt, ppKeys, ppCreated>>
ppJira == <<ppIssues, ppVisible, ppNext>>
ppVars == <<ppFile, ppPending, ppRun, ppJira, ppDropped, ppFaults, ppRuns>>

NoKeys == [n \in PPNodes |-> 0]
PPFault == ppFaults < PPMaxFaults /\ ppFaults' = ppFaults + 1

PPStops ==
  /\ ppPc' = "idle" /\ ppAt' = 0 /\ ppKeys' = NoKeys /\ ppCreated' = 0
  /\ ppPlan' = {} /\ ppApproved' = FALSE

-----------------------------------------------------------------------------
(* What the preflight finds. *)

PPSeen(n) == {i \in ppVisible : i.node = n}
PPFound(n) == IF PPSeen(n) = {} THEN 0 ELSE (CHOOSE i \in PPSeen(n) : TRUE).key

PPAmbiguous == \E n \in ppPlan : Cardinality(PPSeen(n)) > 1
PPDisagrees == \E n \in ppPlan : ppFile[n] # 0 /\ PPFound(n) \notin {0, ppFile[n]}
PPMissing == {n \in ppPlan : ppFile[n] # 0 /\ PPFound(n) = 0}

\* A creation was begun, and neither the state nor Jira has its issue.
PPUncertain == \E n \in ppPlan \cap ppPending : ppFile[n] = 0 /\ PPFound(n) = 0

\* A Task whose Epic was not found, or is another one.
PPMisplaced ==
  \E n \in ppPlan : \E i \in PPSeen(n) :
    PPParent[n] # 0 /\ (PPFound(PPParent[n]) = 0 \/ i.under # PPFound(PPParent[n]))

\* Mutant: uncertain creations do not stop a reconciliation.
PPMayRecreateAnyway == PPMissing = {} \/ ppApproved

\* Records without an issue need the approval, and no creation in doubt.
PPMayRecreate == PPMissing = {} \/ (ppApproved /\ ppPending = {})

PPSound == ~(PPAmbiguous \/ PPDisagrees \/ PPUncertain \/ PPMisplaced) /\ PPMayRecreate

\* The nodes in order; 0 ends the run.
PPAfter(n) ==
  IF \E m \in ppPlan : m > n
    THEN CHOOSE m \in ppPlan : m > n /\ \A k \in ppPlan : k > n => m <= k
    ELSE 0

PPGoOn(created) ==
  IF PPAfter(ppAt) = 0 THEN PPStops
  ELSE /\ ppAt' = PPAfter(ppAt) /\ ppPc' = "nodes" /\ ppCreated' = created
       /\ UNCHANGED <<ppPlan, ppApproved, ppKeys>>

-----------------------------------------------------------------------------
ProductInit ==
  /\ ppFile = NoKeys /\ ppPending = {}
  /\ ppPc = "idle" /\ ppPlan = {} /\ ppApproved = FALSE /\ ppAt = 0 /\ ppKeys = NoKeys /\ ppCreated = 0
  /\ ppIssues = {} /\ ppVisible = {} /\ ppNext = [n \in PPNodes |-> 1]
  /\ ppDropped = NoKeys /\ ppFaults = 0 /\ ppRuns = 0

PPBegin ==
  /\ ppPc = "idle" /\ ppRuns < PPMaxRuns
  /\ ppPlan' \in PPPlans /\ ppApproved' \in BOOLEAN
  /\ ppPc' = "preflight" /\ ppRuns' = ppRuns + 1
  /\ UNCHANGED <<ppFile, ppPending, ppAt, ppKeys, ppCreated, ppJira, ppDropped, ppFaults>>

\* The preflight refuses, or one of its reads fails: nothing is changed.
PPRefuses ==
  /\ ppPc = "preflight" /\ ((~PPSound /\ UNCHANGED ppFaults) \/ PPFault)
  /\ PPStops
  /\ UNCHANGED <<ppFile, ppPending, ppJira, ppDropped, ppRuns>>

\* The preflight passes: the records without an issue are dropped.
PPPasses ==
  /\ ppPc = "preflight" /\ PPSound
  /\ ppFile' = [n \in PPNodes |-> IF n \in PPMissing THEN 0 ELSE ppFile[n]]
  /\ ppDropped' = [n \in PPNodes |->
       IF n \in PPMissing /\ \E i \in ppIssues : i.node = n THEN ppDropped[n] + 1 ELSE ppDropped[n]]
  /\ ppKeys' = [n \in PPNodes |-> IF n \in ppPlan THEN PPFound(n) ELSE 0]
  /\ ppPc' = "nodes" /\ ppAt' = PPAfter(0)
  /\ UNCHANGED <<ppPending, ppPlan, ppApproved, ppCreated, ppJira, ppFaults, ppRuns>>

\* A node with an issue: its key is recorded, its creation no longer in doubt.
PPAdopt ==
  /\ ppPc = "nodes" /\ ppKeys[ppAt] # 0
  /\ ppFile' = [ppFile EXCEPT ![ppAt] = ppKeys[ppAt]]
  /\ ppPending' = ppPending \ {ppAt}
  /\ PPGoOn(ppCreated)
  /\ UNCHANGED <<ppJira, ppDropped, ppFaults, ppRuns>>

PPMayCreate ==
  /\ ppCreated < PPMaxCreate
  /\ PPParent[ppAt] \in {0} \cup {e \in PPNodes : ppKeys[e] # 0}

\* --max-create is reached, or the Epic was not created.
PPSkip ==
  /\ ppPc = "nodes" /\ ppKeys[ppAt] = 0 /\ ~PPMayCreate
  /\ PPGoOn(ppCreated)
  /\ UNCHANGED <<ppFile, ppPending, ppJira, ppDropped, ppFaults, ppRuns>>

\* Mutant: the creation is noted only when its answer is there.
PPAnnounceLater ==
  /\ ppPc = "nodes" /\ ppKeys[ppAt] = 0 /\ PPMayCreate
  /\ ppPc' = "posting" /\ UNCHANGED ppPending
  /\ UNCHANGED <<ppFile, ppPlan, ppApproved, ppAt, ppKeys, ppCreated, ppJira, ppDropped, ppFaults, ppRuns>>

\* The creation is noted and saved before it is tried.
PPAnnounce ==
  /\ ppPc = "nodes" /\ ppKeys[ppAt] = 0 /\ PPMayCreate
  /\ ppPc' = "posting" /\ ppPending' = ppPending \cup {ppAt}
  /\ UNCHANGED <<ppFile, ppPlan, ppApproved, ppAt, ppKeys, ppCreated, ppJira, ppDropped, ppFaults, ppRuns>>

PPIssueAppears ==
  LET issue == [node |-> ppAt, key |-> ppNext[ppAt],
                under |-> IF PPParent[ppAt] = 0 THEN 0 ELSE ppKeys[PPParent[ppAt]]]
  IN  /\ ppIssues' = ppIssues \cup {issue}
      /\ ppVisible' \in {ppVisible, ppVisible \cup {issue}}
      /\ ppNext' = [ppNext EXCEPT ![ppAt] = @ + 1]

\* The one POST is answered with a key.
PPPost ==
  /\ ppPc = "posting" /\ PPIssueAppears
  /\ ppKeys' = [ppKeys EXCEPT ![ppAt] = ppNext[ppAt]]
  /\ ppPc' = "answered"
  /\ UNCHANGED <<ppFile, ppPending, ppPlan, ppApproved, ppAt, ppCreated, ppDropped, ppFaults, ppRuns>>

\* No answer, an answer without a key, or a refusal: the run ends with the
\* creation still noted.
PPPostLost ==
  /\ ppPc = "posting" /\ PPFault /\ (PPIssueAppears \/ UNCHANGED ppJira)
  /\ PPStops
  /\ UNCHANGED <<ppFile, ppPending, ppDropped, ppRuns>>

\* The key is recorded and saved with the note removed.
PPRecord ==
  /\ ppPc = "answered"
  /\ ppFile' = [ppFile EXCEPT ![ppAt] = ppKeys[ppAt]]
  /\ ppPending' = ppPending \ {ppAt}
  /\ PPGoOn(ppCreated + 1)
  /\ UNCHANGED <<ppJira, ppDropped, ppFaults, ppRuns>>

\* The process dies, or an update of an existing issue fails.
PPDies ==
  /\ ppPc # "idle" /\ PPFault /\ PPStops
  /\ UNCHANGED <<ppFile, ppPending, ppJira, ppDropped, ppRuns>>

\* Searches see an issue at last, or lose sight of one; somebody deletes one.
PPJiraMoves ==
  /\ ppPc \in {"idle", "preflight"}
  /\ \E i \in ppIssues :
       \/ i \notin ppVisible /\ ppVisible' = ppVisible \cup {i} /\ UNCHANGED <<ppIssues, ppFaults>>
       \/ i \in ppVisible /\ ppVisible' = ppVisible \ {i} /\ PPFault /\ UNCHANGED ppIssues
       \/ ppIssues' = ppIssues \ {i} /\ ppVisible' = ppVisible \ {i} /\ PPFault
  /\ UNCHANGED <<ppFile, ppPending, ppRun, ppNext, ppDropped, ppRuns>>

\* An operator who has made sure in Jira that there is no issue clears a note.
PPCleared ==
  /\ ppPc = "idle"
  /\ \E n \in ppPending : (\A i \in ppIssues : i.node # n) /\ ppPending' = ppPending \ {n}
  /\ UNCHANGED <<ppFile, ppRun, ppJira, ppDropped, ppFaults, ppRuns>>

ProductNext ==
  \/ PPBegin \/ PPRefuses \/ PPPasses \/ PPAdopt \/ PPSkip \/ PPAnnounce \/ PPPost
  \/ PPPostLost \/ PPRecord \/ PPDies \/ PPJiraMoves \/ PPCleared

ProductSpec == ProductInit /\ [][ProductNext]_ppVars

-----------------------------------------------------------------------------
ProductTypeOK ==
  /\ ppFile \in [PPNodes -> Nat] /\ ppPending \subseteq PPNodes
  /\ ppPc \in {"idle", "preflight", "nodes", "posting", "answered"}
  /\ ppPlan \subseteq PPNodes /\ ppApproved \in BOOLEAN
  /\ ppAt \in PPNodes \cup {0} /\ (ppPc \in {"nodes", "posting", "answered"} => ppAt \in ppPlan)
  /\ ppKeys \in [PPNodes -> Nat] /\ ppCreated \in 0 .. PPMaxCreate
  /\ ppIssues \subseteq [node : PPNodes, key : Nat, under : Nat] /\ ppVisible \subseteq ppIssues
  /\ ppNext \in [PPNodes -> Nat \ {0}] /\ ppDropped \in [PPNodes -> Nat]
  /\ ppFaults \in 0 .. PPMaxFaults /\ ppRuns \in 0 .. PPMaxRuns

(* Never two issues for one node: a node has at most one living issue, and  *)
(* one more for every time an operator approved its recreation while the    *)
(* old issue was only hidden.  Lost answers, answers without a key, a       *)
(* lagging index and crashes at any point do not make one.                  *)
ProductNeverTwice ==
  \A n \in PPNodes : Cardinality({i \in ppIssues : i.node = n}) <= 1 + ppDropped[n]

=============================================================================
