----------------------------- MODULE ScmCoverage -----------------------------
(***************************************************************************)
(* SCM inventory and Black Duck coverage (wintermute.scm): one read-only   *)
(* run lists the repositories of a tenant and their onboarding controls,   *)
(* publishes them as an inventory snapshot, loads it back, reads projects, *)
(* versions and scan evidence from Black Duck, maps repositories to        *)
(* projects, classifies every repository and publishes the report as a     *)
(* coverage snapshot, marks it COMPLETE and prunes older ones.             *)
(*                                                                         *)
(* A snapshot is written into .staging, renamed and only then marked       *)
(* READY; a process may die between any two of those steps.  Projects and  *)
(* versions are numbers, in the order Black Duck lists them.               *)
(***************************************************************************)
EXTENDS Naturals, FiniteSets, FiniteSetsExt

CONSTANTS
  ScRepos,          \* repositories of the tenant
  ScExcluded,       \* those the inventory excludes
  ScVersionsOf,     \* project -> its versions
  ScWorlds,         \* what SCM and Black Duck hold at first, see below
  ScCuts,           \* values of --max-versions; 0: no limit
  ScRetain,         \* --retain-snapshots
  ScPast,           \* ids of complete coverage snapshots of earlier days
  ScMaxIds, ScMaxFaults, ScMaxChanges   \* bounds

ScProjects == DOMAIN ScVersionsOf
ScVersions == UNION {ScVersionsOf[p] : p \in ScProjects}
ScIds == 1 .. ScMaxIds
ScSources == {"none", "direct", "file"}   \* where scan evidence comes from
ScScans == {"none", "started", "undated", "current", "stale"}
Successful == {"undated", "current", "stale"}
NoControls == [policy |-> "absent", workflow |-> "absent", branch |-> "absent"]

(***************************************************************************)
(* A world: claims, what the custom fields of a project say (repository by *)
(* provider identity, by URL) and which repository its name suggests, 0    *)
(* for none; explicit, the reviewed mapping file; controls, the onboarding *)
(* state of each repository; scans, the state of each version; file, the   *)
(* scan evidence file: the versions it covers, and whether it is complete. *)
(***************************************************************************)
ScWorldType ==
  [claims : [ScProjects -> [id : Nat, url : Nat, name : Nat]], explicit : [ScRepos -> Nat],
   controls : [ScRepos -> [policy : STRING, workflow : STRING, branch : STRING]], scans : [ScVersions -> ScScans],
   file : [covers : SUBSET ScVersions, complete : BOOLEAN, scans : [ScVersions -> ScScans]]]

\* A version belongs to one project.
ASSUME ScmAssumption ==
  /\ ScProjects \subseteq Nat \ {0} /\ IsFiniteSet(ScProjects) /\ ScWorlds \subseteq ScWorldType
  /\ \A p, q \in ScProjects : p # q => ScVersionsOf[p] \cap ScVersionsOf[q] = {}
  /\ ScRetain \in Nat \ {0} /\ ScMaxIds \in Nat /\ ScPast \subseteq 1 .. ScMaxIds
  /\ ScMaxFaults \in Nat /\ ScMaxChanges \in Nat /\ ScCuts \subseteq Nat

VARIABLES
  scWorld,     \* see above; scans change
  scInv,       \* snapshot id -> inventory snapshot directory
  scCov,       \* snapshot id -> coverage snapshot directory
  scRun,       \* the running process
  scFaults, scChanges

scVars == <<scWorld, scInv, scCov, scRun, scFaults, scChanges>>

ScInventory(repos, controls, broken, failures) ==
  [at |-> "none", repos |-> repos, controls |-> controls, broken |-> broken, failures |-> failures]
ScUnread == [r \in ScRepos |-> NoControls]
NoInventory == ScInventory({}, ScUnread, FALSE, 0)
NoReport == [at |-> "none", born |-> 0, rows |-> <<>>, failures |-> 0, trusted |-> FALSE,
             was |-> <<>>, now |-> <<>>]
NoRun == [at |-> "idle", id |-> 0, source |-> "none", max |-> 0, inv |-> NoInventory,
          listed |-> {}, evidence |-> <<>>, was |-> <<>>, bdFailures |-> 0, report |-> NoReport]

ScFault == /\ scFaults < ScMaxFaults /\ scFaults' = scFaults + 1

ScmInit ==
  /\ scWorld \in ScWorlds
  /\ scInv = [i \in ScIds |-> NoInventory]
  /\ scCov = [i \in ScIds |->
       IF i \in ScPast THEN [NoReport EXCEPT !.at = "complete", !.born = i] ELSE NoReport]
  /\ scRun = NoRun /\ scFaults = 0 /\ scChanges = 0

-----------------------------------------------------------------------------
\* Black Duck finishes a scan at any time; days pass between runs.
ScScanned(v) ==
  /\ scChanges < ScMaxChanges /\ scChanges' = scChanges + 1
  /\ scWorld.scans[v] \in {"none", "started", "stale"}
  /\ scWorld' = [scWorld EXCEPT !.scans[v] = "current"]
  /\ UNCHANGED <<scInv, scCov, scRun, scFaults>>

ScAges ==
  /\ scRun.at = "idle"
  /\ scChanges < ScMaxChanges /\ scChanges' = scChanges + 1
  /\ scWorld' = [scWorld EXCEPT !.scans =
       [v \in ScVersions |-> IF @[v] = "current" THEN "stale" ELSE @[v]]]
  /\ UNCHANGED <<scInv, scCov, scRun, scFaults>>

-----------------------------------------------------------------------------
(* The inventory phase. *)

\* overview.run: refuses an id either snapshot of which exists already; an id
\* of an earlier day is not given twice (a bound).
ScBegin(i, source, max) ==
  /\ scRun.at = "idle" /\ i \notin ScPast
  /\ scInv[i].at \in {"none", "staged"} /\ scCov[i].at \in {"none", "staged"}
  /\ scRun' = [NoRun EXCEPT !.at = "inventory", !.id = i, !.source = source, !.max = max]
  /\ UNCHANGED <<scWorld, scInv, scCov, scFaults, scChanges>>

\* The coverage command alone, on an inventory snapshot of an earlier run;
\* the same id names its coverage snapshot.
ScResume(i, source, max) ==
  /\ scRun.at = "idle" /\ scInv[i].at = "ready" /\ scCov[i].at \in {"none", "staged"}
  /\ scRun' = [NoRun EXCEPT !.at = "published", !.id = i, !.source = source, !.max = max]
  /\ UNCHANGED <<scWorld, scInv, scCov, scFaults, scChanges>>

\* Repositories and controls are observed.  Provider evidence may be skipped
\* altogether; a repository that cannot be read is a failure of the inventory;
\* one control that cannot be read makes the controls of all unusable.
ScObserves ==
  /\ scRun.at = "inventory"
  /\ \E inv \in {ScInventory(ScRepos, scWorld.controls, FALSE, 0), ScInventory(ScRepos, ScUnread, FALSE, 0),
                 ScInventory(ScRepos, ScUnread, TRUE, 1)}
              \cup {ScInventory(ScRepos \ {r}, [scWorld.controls EXCEPT ![r] = NoControls], FALSE, 1) :
                      r \in ScRepos} :
       /\ scRun' = [scRun EXCEPT !.at = "observed", !.inv = inv]
       /\ IF inv.failures = 0 THEN UNCHANGED scFaults ELSE ScFault
  /\ UNCHANGED <<scWorld, scInv, scCov, scChanges>>

\* The listing or its reconciliation fails: nothing is written, exit code 2.
ScInventoryFails ==
  /\ scRun.at = "inventory" /\ ScFault
  /\ scRun' = NoRun
  /\ UNCHANGED <<scWorld, scInv, scCov, scChanges>>

\* write_inventory_snapshot: staging, with whatever an earlier attempt left
\* there removed first; then the rename; then the READY marker.
ScStages ==
  /\ scRun.at = "observed"
  /\ scInv' = [scInv EXCEPT ![scRun.id] = [scRun.inv EXCEPT !.at = "staged"]]
  /\ scRun' = [scRun EXCEPT !.at = "staged"]
  /\ UNCHANGED <<scWorld, scCov, scFaults, scChanges>>

ScMoves ==
  /\ scRun.at = "staged"
  /\ scInv' = [scInv EXCEPT ![scRun.id].at = "moved"]
  /\ scRun' = [scRun EXCEPT !.at = "moved"]
  /\ UNCHANGED <<scWorld, scCov, scFaults, scChanges>>

ScReady ==
  /\ scRun.at = "moved"
  /\ scInv' = [scInv EXCEPT ![scRun.id].at = "ready"]
  /\ scRun' = [scRun EXCEPT !.at = "published"]
  /\ UNCHANGED <<scWorld, scCov, scFaults, scChanges>>

\* load_inventory_snapshot: only what carries READY and its checksums.
ScLoads ==
  /\ scRun.at = "published"
  /\ scInv[scRun.id].at = "ready"
  /\ scRun' = [scRun EXCEPT !.at = "loaded", !.inv = scInv[scRun.id]]
  /\ UNCHANGED <<scWorld, scInv, scCov, scFaults, scChanges>>

-----------------------------------------------------------------------------
(* The coverage phase: what Black Duck tells. *)

\* The first versions in listing order, as far as --max-versions goes.
CutTo(max, versions) ==
  {v \in versions : max = 0 \/ Cardinality({w \in versions : w < v}) < max}

\* A project whose versions cannot be read is a failure, unless the listing
\* has already stopped at its limit.
ScListed(unread) ==
  LET readable == UNION {ScVersionsOf[p] : p \in ScProjects \ unread}
      before(p) == {v \in readable : \E q \in ScProjects : q < p /\ v \in ScVersionsOf[q]}
  IN [versions |-> CutTo(scRun.max, readable),
      failures |-> Cardinality({p \in unread :
                     scRun.max = 0 \/ Cardinality(before(p)) < scRun.max})]

Nothing == [complete |-> FALSE, scan |-> "none"]

\* A file that names a version Black Duck did not list, or is called complete
\* and leaves one out, stops the run.
ScFileFits(listed) ==
  /\ scWorld.file.covers \subseteq listed
  /\ scWorld.file.complete => listed \subseteq scWorld.file.covers

ScFirstEvidence(v) ==
  IF scRun.source = "file" /\ v \in scWorld.file.covers
  THEN [complete |-> scWorld.file.complete, scan |-> scWorld.file.scans[v]]
  ELSE Nothing

ScLists ==
  /\ scRun.at = "loaded"
  /\ \E unread \in SUBSET ScProjects :
       LET list == ScListed(unread) IN
       /\ IF unread = {} THEN UNCHANGED scFaults ELSE ScFault
       /\ scRun' = IF scRun.source = "file" /\ ~ScFileFits(list.versions) THEN NoRun
                   ELSE [scRun EXCEPT !.at = "listed", !.listed = list.versions,
                           !.bdFailures = list.failures, !.was = scWorld.scans,
                           !.evidence = [v \in list.versions |-> ScFirstEvidence(v)]]
  /\ UNCHANGED <<scWorld, scInv, scCov, scChanges>>

ScAsked == IF scRun.source = "direct" THEN scRun.listed ELSE {}

\* collect_version_evidence.  A code location with scan summaries is complete
\* once they are read; one without is complete when its own records are
\* terminal.
ScCollects(v) ==
  /\ scRun.at = "listed" /\ v \in ScAsked
  /\ scRun.evidence[v] = Nothing
  /\ \E summaries \in BOOLEAN :
       scRun' = [scRun EXCEPT !.evidence[v] =
         [complete |-> scWorld.scans[v] # "started" \/ summaries,
          scan |-> IF scWorld.scans[v] \in Successful THEN scWorld.scans[v] ELSE "unsuccessful"]]
  /\ UNCHANGED <<scWorld, scInv, scCov, scFaults, scChanges>>

\* The version, its code locations or its summaries cannot be read.
ScCollectFails(v) ==
  /\ scRun.at = "listed" /\ v \in ScAsked
  /\ scRun.evidence[v] = Nothing
  /\ ScFault
  /\ scRun' = [scRun EXCEPT !.evidence[v] = [complete |-> FALSE, scan |-> "unread"],
                 !.bdFailures = @ + 1]
  /\ UNCHANGED <<scWorld, scInv, scCov, scChanges>>

-----------------------------------------------------------------------------
(* Mapping and reconciliation. *)

\* Only a project with a version in the inventory is known at all.
Known == {p \in ScProjects : ScVersionsOf[p] \cap scRun.listed # {}}

ByIdentity(r) == {p \in Known : scWorld.claims[p].id = r}
ByUrl(r) == {p \in Known : scWorld.claims[p].url = r}
ByFile(r) == {scWorld.explicit[r]} \ {0}
ByName(r) == {p \in Known : scWorld.claims[p].name = r}

\* map_repository: identity, URL and reviewed file must agree on one project;
\* names only recommend.
ScMap(r) ==
  LET missing == ByFile(r) \ Known
      agreed == ByIdentity(r) \cup ByUrl(r) \cup (ByFile(r) \cap Known)
  IN IF missing # {} \/ Cardinality(agreed) > 1 THEN [project |-> 0, conflict |-> TRUE]
     ELSE IF agreed # {} THEN [project |-> CHOOSE p \in agreed : TRUE, conflict |-> FALSE]
     ELSE [project |-> 0, conflict |-> Cardinality(ByName(r)) > 1]

\* onboarding_state: TRUE, FALSE or unknown; a failed control is an error.
ScOnboarded(c) ==
  IF c.policy = "compliant" /\ c.workflow = "compliant" THEN "yes"
  ELSE IF c.policy = "noncompliant" \/ (c.policy = "compliant" /\ c.workflow = "noncompliant")
  THEN "no" ELSE "unknown"

\* successful_scan_state: over the versions of the accepted project.
ScEvidenceOf(p) == {scRun.evidence[v] : v \in ScVersionsOf[p] \cap scRun.listed}

\* A mistaken form: what could not be read counts as not scanned.
ScScanStateUnread(p) ==
  IF \E e \in ScEvidenceOf(p) : e.scan = "current" THEN "scanned-current"
  ELSE IF \E e \in ScEvidenceOf(p) : e.scan \in Successful THEN "scanned-stale"
  ELSE "mapped-never-scanned"

ScScanState(p) ==
  IF \E e \in ScEvidenceOf(p) : e.scan = "current" THEN "scanned-current"
  ELSE IF \E e \in ScEvidenceOf(p) : e.scan \in Successful THEN "scanned-stale"
  ELSE IF \A e \in ScEvidenceOf(p) : e.complete THEN "mapped-never-scanned"
  ELSE "unknown"

\* reconcile_coverage: the first that applies.
ScClassify(r) ==
  LET mapping == ScMap(r)
      control == scRun.inv.controls[r]
  IN IF r \in ScExcluded THEN "excluded"
     ELSE IF scRun.inv.broken \/ "failed" \in {control.policy, control.workflow, control.branch}
       THEN "provider-error"
     ELSE IF mapping.conflict THEN "mapping-conflict"
     ELSE IF ScOnboarded(control) = "no" THEN "not-onboarded"
     ELSE IF ScOnboarded(control) = "unknown" THEN "unknown"
     ELSE IF mapping.project = 0
       THEN IF scRun.bdFailures > 0 THEN "unknown" ELSE "onboarded-not-mapped"
     ELSE ScScanState(mapping.project)

\* The last fields are what the report is checked against, not part of it:
\* whether evidence was collected for all of Black Duck, and the scans there
\* were when the listing began and when the report was made.
ScReconciles ==
  /\ scRun.at = "listed"
  /\ \A v \in ScAsked : scRun.evidence[v] # Nothing
  /\ scRun' = [scRun EXCEPT !.at = "reconciled", !.report =
       [NoReport EXCEPT
          !.failures = scRun.inv.failures + scRun.bdFailures,
          !.rows = [r \in scRun.inv.repos |->
                      [verdict |-> ScClassify(r), project |-> ScMap(r).project]],
          !.trusted = scRun.max = 0 /\ scRun.source # "file",
          !.was = scRun.was, !.now = scWorld.scans]]
  /\ UNCHANGED <<scWorld, scInv, scCov, scFaults, scChanges>>

-----------------------------------------------------------------------------
(* The coverage snapshot: staging, rename, READY, COMPLETE, pruning. *)

ScWrites ==
  /\ scRun.at = "reconciled"
  /\ scCov' = [scCov EXCEPT ![scRun.id] = [scRun.report EXCEPT !.at = "staged",
                 !.born = 1 + Max({0} \cup {scCov[i].born : i \in ScIds})]]
  /\ scRun' = [scRun EXCEPT !.at = "covStaged"]
  /\ UNCHANGED <<scWorld, scInv, scFaults, scChanges>>

ScRenames ==
  /\ scRun.at = "covStaged"
  /\ scCov' = [scCov EXCEPT ![scRun.id].at = "moved"]
  /\ scRun' = [scRun EXCEPT !.at = "covMoved"]
  /\ UNCHANGED <<scWorld, scInv, scFaults, scChanges>>

ScMarksReady ==
  /\ scRun.at = "covMoved"
  /\ scCov' = [scCov EXCEPT ![scRun.id].at = "ready"]
  /\ scRun' = [scRun EXCEPT !.at = "covReady"]
  /\ UNCHANGED <<scWorld, scInv, scFaults, scChanges>>

\* mark_coverage_complete: after the snapshot has been read back.
ScCompletes ==
  /\ scRun.at = "covReady"
  /\ scCov' = [scCov EXCEPT ![scRun.id].at = "complete"]
  /\ scRun' = [scRun EXCEPT !.at = "pruning"]
  /\ UNCHANGED <<scWorld, scInv, scFaults, scChanges>>

\* prune_coverage_snapshots: the newest complete ones stay, and this run's.
ScComplete == {i \in ScIds : scCov[i].at = "complete"}
ScNewer(i) == {j \in ScComplete : scCov[j].born > scCov[i].born}

\* A mistaken form: one too few is kept.
ScKeptOneLess ==
  {i \in ScComplete : Cardinality(ScNewer(i)) + 1 < ScRetain} \cup {scRun.id}

ScKept == {i \in ScComplete : Cardinality(ScNewer(i)) < ScRetain} \cup {scRun.id}
ScDoomed == ScComplete \ ScKept

ScPrunes ==
  /\ scRun.at = "pruning"
  /\ \E i \in ScDoomed :
       scCov' = [scCov EXCEPT ![i] = NoReport]
  /\ UNCHANGED <<scWorld, scInv, scRun, scFaults, scChanges>>

ScEnds ==
  /\ scRun.at = "pruning" /\ ScDoomed = {}
  /\ scRun' = NoRun
  /\ UNCHANGED <<scWorld, scInv, scCov, scFaults, scChanges>>

-----------------------------------------------------------------------------
\* A write fails: the staging directory goes, a renamed one stays.
ScWriteFails ==
  /\ scRun.at \in {"staged", "moved", "covStaged", "covMoved"} /\ ScFault
  /\ scInv' = IF scRun.at = "staged" THEN [scInv EXCEPT ![scRun.id] = NoInventory] ELSE scInv
  /\ scCov' = IF scRun.at = "covStaged" THEN [scCov EXCEPT ![scRun.id] = NoReport] ELSE scCov
  /\ scRun' = NoRun
  /\ UNCHANGED <<scWorld, scChanges>>

\* The process dies, or the circuit of Black Duck opens and the run is given
\* up; dying inside rmtree leaves a directory without its READY marker.
ScDies ==
  /\ scRun.at # "idle" /\ ScFault
  /\ \/ UNCHANGED scCov
     \/ /\ scRun.at = "pruning"
        /\ \E i \in ScDoomed : scCov' = [scCov EXCEPT ![i].at = "moved"]
  /\ scRun' = NoRun
  /\ UNCHANGED <<scWorld, scInv, scChanges>>

ScmNext ==
  \/ \E v \in ScVersions : ScScanned(v) \/ ScCollects(v) \/ ScCollectFails(v)
  \/ ScAges
  \/ \E i \in ScIds, source \in ScSources, max \in ScCuts :
       ScBegin(i, source, max) \/ ScResume(i, source, max)
  \/ ScObserves \/ ScInventoryFails
  \/ ScStages \/ ScMoves \/ ScReady \/ ScLoads
  \/ ScLists \/ ScReconciles
  \/ ScWrites \/ ScRenames \/ ScMarksReady \/ ScCompletes \/ ScPrunes \/ ScEnds
  \/ ScWriteFails \/ ScDies

ScmSpec == ScmInit /\ [][ScmNext]_scVars

-----------------------------------------------------------------------------
ScVerdicts == {"excluded", "provider-error", "mapping-conflict", "not-onboarded", "unknown",
               "onboarded-not-mapped", "mapped-never-scanned", "scanned-current", "scanned-stale"}

ScmTypeOK ==
  /\ scWorld.scans \in [ScVersions -> ScScans]
  /\ \A i \in ScIds :
       /\ scInv[i].at \in {"none", "staged", "moved", "ready"}
       /\ scInv[i].repos \subseteq ScRepos
       /\ scCov[i].at \in {"none", "staged", "moved", "ready", "complete"}
       /\ DOMAIN scCov[i].rows \subseteq ScRepos
       /\ \A r \in DOMAIN scCov[i].rows : scCov[i].rows[r].verdict \in ScVerdicts
  /\ scRun.at = "idle" => scRun = NoRun
  /\ scRun.at # "idle" => scRun.id \in ScIds
  /\ scRun.listed \subseteq ScVersions /\ DOMAIN scRun.evidence = scRun.listed
  /\ scFaults \in 0 .. ScMaxFaults /\ scChanges \in 0 .. ScMaxChanges

(* A complete report says only what its evidence proves, whichever read      *)
(* failed, whichever scan was under way, and whichever step the run was      *)
(* resumed from: "onboarded-not-mapped", that no listed project claims the   *)
(* repository; "mapped-never-scanned", that no version of the project had a  *)
(* successful scan; "scanned-current", that one is current; "scanned-stale"  *)
(* without a failure, that none was.  Reports of the whole of Black Duck on  *)
(* direct evidence are meant.  (reconcile_coverage, successful_scan_state,   *)
(* collect_version_evidence, execute_coverage.)                              *)
ScmVerdictsProven ==
  \A i \in ScIds : scCov[i].at = "complete" /\ scCov[i].trusted =>
    \A r \in DOMAIN scCov[i].rows :
      LET verdict == scCov[i].rows[r].verdict
          project == scCov[i].rows[r].project
      IN /\ verdict = "onboarded-not-mapped" =>
              /\ \A p \in ScProjects : r \notin {scWorld.claims[p].id, scWorld.claims[p].url}
              /\ scWorld.explicit[r] = 0
         /\ verdict = "mapped-never-scanned" =>
              \A v \in ScVersionsOf[project] : scCov[i].was[v] \notin Successful
         /\ verdict = "scanned-current" =>
              \E v \in ScVersionsOf[project] : scCov[i].now[v] = "current"
         /\ verdict = "scanned-stale" /\ scCov[i].failures = 0 =>
              \A v \in ScVersionsOf[project] : scCov[i].was[v] # "current"

(* Whenever a run dies, the newest complete reports are still there: pruning *)
(* follows the marker, counts only complete ones and spares the run's own.   *)
(* (mark_coverage_complete, prune_coverage_snapshots.)                       *)
ScmNewestKept ==
  [][\A i \in ScComplete : Cardinality(ScNewer(i)) < ScRetain => scCov'[i].at = "complete"]_scVars
=============================================================================
