--------------------------- MODULE InventoryProofs ---------------------------
(***************************************************************************)
(* Theorems about the SCM coverage of ScmCoverage, for any repositories,   *)
(* projects and versions, any worlds and any number of runs; and, with the *)
(* theorems of the other services, the type invariant of all of them.      *)
(***************************************************************************)
EXTENDS Services, CollectionProofs, ProviderProofs, FiniteSetTheorems, SequenceTheorems, TLAPS

ScReportStages == {"none", "staged", "moved", "ready", "complete"}
ScRunStages ==
  {"idle", "inventory", "observed", "staged", "moved", "published", "loaded", "listed",
   "reconciled", "covStaged", "covMoved", "covReady", "pruning"}
ScEvidence == [complete : BOOLEAN, scan : ScScans \cup {"unsuccessful", "unread"}]

ScInventoryShape(inv) ==
  inv \in [at : {"none", "staged", "moved", "ready"}, repos : SUBSET ScRepos,
           controls : {inv.controls}, broken : BOOLEAN, failures : Nat]

ScReportShape(rep) ==
  rep \in [at : ScReportStages, born : {rep.born}, rows : {rep.rows}, failures : Nat,
           trusted : BOOLEAN, was : {rep.was}, now : {rep.now}]

ScRunShape(run) ==
  run \in [at : ScRunStages, id : ScIds \cup {0}, source : ScSources, max : Nat, inv : {run.inv},
           listed : SUBSET ScVersions, evidence : {run.evidence}, was : {run.was},
           bdFailures : Nat, report : {run.report}]

ScmTypes ==
  /\ scWorld \in ScWorldType
  /\ DOMAIN scInv = ScIds /\ scInv = [i \in ScIds |-> scInv[i]]
  /\ DOMAIN scCov = ScIds /\ scCov = [i \in ScIds |-> scCov[i]]
  /\ \A i \in ScIds : ScInventoryShape(scInv[i]) /\ ScReportShape(scCov[i])
  /\ ScRunShape(scRun) /\ ScInventoryShape(scRun.inv) /\ ScReportShape(scRun.report)
  /\ scRun.at # "idle" => scRun.id \in ScIds
  /\ scRun.at = "listed" =>
       scRun.evidence \in [scRun.listed -> ScEvidence] /\ scRun.was \in [ScVersions -> ScScans]

LEMMA NoInventoryShape == ScInventoryShape(NoInventory)
  BY DEF ScInventoryShape, NoInventory, ScInventory

LEMMA NoReportShape == ScReportShape(NoReport)
  BY DEF ScReportShape, NoReport, ScReportStages

LEMMA ScmInitTypes == ScmInit => ScmTypes
<1> SUFFICES ASSUME ScmInit PROVE ScmTypes
  OBVIOUS
<1>1. ScRunShape(scRun) /\ scRun.inv = NoInventory /\ scRun.report = NoReport /\ scRun.at = "idle"
  BY DEF ScmInit, NoRun, ScRunShape, ScRunStages, ScSources
<1>2. \A i \in ScIds : ScReportShape(scCov[i])
  BY DEF ScmInit, ScReportShape, NoReport, ScReportStages
<1> QED
  BY <1>1, <1>2, NoInventoryShape, NoReportShape, ScmAssumption DEF ScmInit, ScmTypes

\* What the writer of a snapshot changes is its stage.
LEMMA InventoryStage ==
    ASSUME NEW inv, ScInventoryShape(inv), NEW at \in {"none", "staged", "moved", "ready"}
    PROVE  ScInventoryShape([inv EXCEPT !.at = at])
  BY DEF ScInventoryShape

LEMMA ReportStage ==
    ASSUME NEW rep, ScReportShape(rep), NEW at \in ScReportStages
    PROVE  /\ ScReportShape([rep EXCEPT !.at = at])
           /\ [rep EXCEPT !.at = at].at = at
           /\ [rep EXCEPT !.at = at].trusted = rep.trusted /\ [rep EXCEPT !.at = at].rows = rep.rows
           /\ [rep EXCEPT !.at = at].failures = rep.failures
           /\ [rep EXCEPT !.at = at].was = rep.was /\ [rep EXCEPT !.at = at].now = rep.now
  BY DEF ScReportShape

\* A step that moves the run from one stage to the next.
LEMMA RunStage ==
    ASSUME ScmTypes, NEW at \in ScRunStages \ {"listed"}, scRun.at # "idle", scRun' = [scRun EXCEPT !.at = at]
    PROVE  /\ ScRunShape(scRun') /\ ScInventoryShape(scRun'.inv) /\ ScReportShape(scRun'.report)
           /\ scRun'.id \in ScIds /\ scRun'.at = at /\ scRun'.report = scRun.report /\ scRun'.id = scRun.id
  BY DEF ScmTypes, ScRunShape

LEMMA NoRunShape ==
    /\ ScRunShape(NoRun) /\ ScInventoryShape(NoRun.inv) /\ ScReportShape(NoRun.report)
    /\ NoRun.at = "idle" /\ NoRun.report = NoReport
  BY NoInventoryShape, NoReportShape DEF NoRun, ScRunShape, ScRunStages, ScSources

RunTypes(run) ==
  /\ ScRunShape(run) /\ ScInventoryShape(run.inv) /\ ScReportShape(run.report)
  /\ run.at # "idle" => run.id \in ScIds
  /\ run.at = "listed" =>
       run.evidence \in [run.listed -> ScEvidence] /\ run.was \in [ScVersions -> ScScans]

InventoryTypes ==
  /\ DOMAIN scInv = ScIds /\ scInv = [i \in ScIds |-> scInv[i]]
  /\ \A i \in ScIds : ScInventoryShape(scInv[i])

CoverageTypes ==
  /\ DOMAIN scCov = ScIds /\ scCov = [i \in ScIds |-> scCov[i]]
  /\ \A i \in ScIds : ScReportShape(scCov[i])

LEMMA TypesAreParts == ScmTypes <=> scWorld \in ScWorldType /\ InventoryTypes /\ CoverageTypes /\ RunTypes(scRun)
  BY DEF ScmTypes, InventoryTypes, CoverageTypes, RunTypes

LEMMA RunTypesAt ==
    ASSUME ScmTypes, NEW at \in ScRunStages \ {"listed"}, scRun.at # "idle", scRun' = [scRun EXCEPT !.at = at]
    PROVE  RunTypes(scRun')
  BY RunStage DEF RunTypes

LEMMA InventoryUpdate ==
    ASSUME InventoryTypes, NEW i \in ScIds, NEW inv, ScInventoryShape(inv), scInv' = [scInv EXCEPT ![i] = inv]
    PROVE  InventoryTypes'
<1>1. DOMAIN scInv' = ScIds /\ \A j \in ScIds : scInv'[j] = IF j = i THEN inv ELSE scInv[j]
  BY DEF InventoryTypes
<1>2. scInv' = [j \in ScIds |-> scInv'[j]]
  BY DEF InventoryTypes
<1> QED
  BY <1>1, <1>2 DEF InventoryTypes

LEMMA CoverageUpdate ==
    ASSUME CoverageTypes, NEW i \in ScIds, NEW rep, ScReportShape(rep), scCov' = [scCov EXCEPT ![i] = rep]
    PROVE  /\ CoverageTypes' /\ scCov'[i] = rep
           /\ \A j \in ScIds \ {i} : scCov'[j] = scCov[j]
<1>1. DOMAIN scCov' = ScIds /\ \A j \in ScIds : scCov'[j] = IF j = i THEN rep ELSE scCov[j]
  BY DEF CoverageTypes
<1>2. scCov' = [j \in ScIds |-> scCov'[j]]
  BY DEF CoverageTypes
<1> QED
  BY <1>1, <1>2 DEF CoverageTypes

-----------------------------------------------------------------------------
(* What the world, and then the run, becomes.                              *)

LEMMA WorldTypes ==
    ASSUME ScmTypes, (\E v \in ScVersions : ScScanned(v)) \/ ScAges
    PROVE  ScmTypes' /\ UNCHANGED <<scInv, scCov, scRun>> /\ scWorld'.claims = scWorld.claims
           /\ scWorld'.explicit = scWorld.explicit
           /\ \/ scRun.at = "idle"
              \/ \A v \in ScVersions : scWorld'.scans[v] = scWorld.scans[v] \/ scWorld'.scans[v] = "current"
<1>1. UNCHANGED <<scInv, scCov, scRun>>
  BY DEF ScScanned, ScAges
<1>2. CASE \E v \in ScVersions : ScScanned(v)
  <2>1. PICK v \in ScVersions : scWorld' = [scWorld EXCEPT !.scans[v] = "current"]
    BY <1>2 DEF ScScanned
  <2>2. scWorld' = [scWorld EXCEPT !.scans = [scWorld.scans EXCEPT ![v] = "current"]]
    BY <2>1
  <2>3. [scWorld.scans EXCEPT ![v] = "current"] \in [ScVersions -> ScScans]
    BY DEF ScmTypes, ScWorldType, ScScans
  <2>4. scWorld' \in ScWorldType
    BY <2>2, <2>3 DEF ScmTypes, ScWorldType
  <2>5. scWorld'.scans = [scWorld.scans EXCEPT ![v] = "current"]
        /\ scWorld'.claims = scWorld.claims /\ scWorld'.explicit = scWorld.explicit
    BY <2>2 DEF ScmTypes, ScWorldType
  <2> QED
    BY <1>1, <2>3, <2>4, <2>5, TypesAreParts DEF ScmTypes, ScWorldType
<1>3. CASE ScAges
  <2> DEFINE aged == [v \in ScVersions |-> IF scWorld.scans[v] = "current" THEN "stale" ELSE scWorld.scans[v]]
  <2>1. scWorld' = [scWorld EXCEPT !.scans = aged] /\ scRun.at = "idle"
    BY <1>3 DEF ScAges
  <2>2. aged \in [ScVersions -> ScScans]
    BY DEF ScmTypes, ScWorldType, ScScans
  <2> HIDE DEF aged
  <2>3. /\ scWorld' \in ScWorldType
        /\ scWorld'.claims = scWorld.claims /\ scWorld'.explicit = scWorld.explicit
    BY <2>1, <2>2 DEF ScmTypes, ScWorldType
  <2> QED
    BY <1>1, <2>1, <2>3 DEF ScmTypes
<1> QED
  BY <1>2, <1>3

ScReads ==
  \/ \E i \in ScIds, source \in ScSources, max \in ScCuts : ScBegin(i, source, max) \/ ScResume(i, source, max)
  \/ ScObserves \/ ScInventoryFails \/ ScLoads \/ ScReconciles \/ ScEnds

LEMMA ReadTypes ==
    ASSUME ScmTypes, ScReads
    PROVE  ScmTypes' /\ UNCHANGED <<scWorld, scInv, scCov>> /\ scRun'.at # "listed"
<1>1. UNCHANGED <<scWorld, scInv, scCov>>
  BY DEF ScReads, ScBegin, ScResume, ScObserves, ScInventoryFails, ScLoads, ScReconciles, ScEnds
<1> SUFFICES RunTypes(scRun') /\ scRun'.at # "listed"
  BY <1>1 DEF ScmTypes, RunTypes
<1>2. CASE \E i \in ScIds, source \in ScSources, max \in ScCuts : ScBegin(i, source, max) \/ ScResume(i, source, max)
  <2>1. PICK i \in ScIds, source \in ScSources, max \in ScCuts, at \in {"inventory", "published"} :
          scRun' = [NoRun EXCEPT !.at = at, !.id = i, !.source = source, !.max = max]
    BY <1>2 DEF ScBegin, ScResume
  <2>2. max \in Nat
    BY ScmAssumption
  <2>3. scRun'.id = i /\ scRun'.at = at /\ scRun'.inv = NoInventory /\ scRun'.report = NoReport
    BY <2>1 DEF NoRun
  <2>4. ScRunShape(scRun')
    <3>1. scRun' = [at |-> at, id |-> i, source |-> source, max |-> max, inv |-> NoInventory, listed |-> {},
                    evidence |-> <<>>, was |-> <<>>, bdFailures |-> 0, report |-> NoReport]
      BY <2>1 DEF NoRun
    <3> HIDE DEF NoInventory, NoReport
    <3> QED
      BY <2>2, <3>1 DEF ScRunShape, ScRunStages
  <2> QED
    BY <2>3, <2>4, NoInventoryShape, NoReportShape DEF RunTypes
<1>3. CASE ScObserves
  <2>1. PICK inv : /\ scRun' = [scRun EXCEPT !.at = "observed", !.inv = inv] /\ scRun.at = "inventory"
                   /\ ScInventoryShape(inv)
    <3>1. PICK inv \in {ScInventory(ScRepos, scWorld.controls, FALSE, 0), ScInventory(ScRepos, ScUnread, FALSE, 0),
                       ScInventory(ScRepos, ScUnread, TRUE, 1)}
                \cup {ScInventory(ScRepos \ {r}, [scWorld.controls EXCEPT ![r] = NoControls], FALSE, 1) :
                        r \in ScRepos} :
            scRun' = [scRun EXCEPT !.at = "observed", !.inv = inv] /\ scRun.at = "inventory"
      BY <1>3 DEF ScObserves
    <3>2. \A repos \in SUBSET ScRepos, failures \in {0, 1} : \A controls :
            /\ ScInventoryShape(ScInventory(repos, controls, FALSE, failures))
            /\ ScInventoryShape(ScInventory(repos, controls, TRUE, failures))
      BY DEF ScInventory, ScInventoryShape
    <3>3. ScInventoryShape(inv)
      BY <3>1, <3>2
    <3> QED
      BY <3>1, <3>3
  <2>2. scRun'.id = scRun.id /\ scRun'.at = "observed" /\ scRun'.inv = inv /\ scRun'.report = scRun.report
    BY <2>1 DEF ScmTypes, ScRunShape
  <2>3. ScRunShape(scRun')
    BY <2>1 DEF ScmTypes, ScRunShape, ScRunStages
  <2> QED
    BY <2>1, <2>2, <2>3 DEF ScmTypes, RunTypes
<1>4. CASE ScInventoryFails \/ ScEnds
  BY <1>4, NoRunShape DEF ScInventoryFails, ScEnds, RunTypes
<1>5. CASE ScLoads
  <2>1. scRun' = [scRun EXCEPT !.at = "loaded", !.inv = scInv[scRun.id]] /\ scRun.at = "published"
    BY <1>5 DEF ScLoads
  <2>2. ScInventoryShape(scInv[scRun.id])
    BY <2>1 DEF ScmTypes
  <2>3. scRun'.id = scRun.id /\ scRun'.at = "loaded" /\ scRun'.inv = scInv[scRun.id] /\ scRun'.report = scRun.report
    BY <2>1 DEF ScmTypes, ScRunShape
  <2>4. ScRunShape(scRun')
    BY <2>1 DEF ScmTypes, ScRunShape, ScRunStages
  <2> QED
    BY <2>1, <2>2, <2>3, <2>4 DEF ScmTypes, RunTypes
<1>6. CASE ScReconciles
  <2> DEFINE rows == [r \in scRun.inv.repos |-> [verdict |-> ScClassify(r), project |-> ScMap(r).project]]
             failures == scRun.inv.failures + scRun.bdFailures
             trusted == scRun.max = 0 /\ scRun.source # "file"
             rep == [NoReport EXCEPT !.failures = failures, !.rows = rows, !.trusted = trusted,
                                     !.was = scRun.was, !.now = scWorld.scans]
  <2>1. scRun' = [scRun EXCEPT !.at = "reconciled", !.report = rep] /\ scRun.at = "listed"
    BY <1>6 DEF ScReconciles
  <2>2. failures \in Nat /\ trusted \in BOOLEAN
    BY DEF ScmTypes, ScRunShape, ScInventoryShape
  <2> HIDE DEF rows, failures, trusted
  <2>3. ScReportShape(rep)
    BY <2>2 DEF NoReport, ScReportShape, ScReportStages
  <2> HIDE DEF rep
  <2>4. scRun'.id = scRun.id /\ scRun'.at = "reconciled" /\ scRun'.inv = scRun.inv /\ scRun'.report = rep
    BY <2>1 DEF ScmTypes, ScRunShape
  <2>5. ScRunShape(scRun')
    BY <2>1 DEF ScmTypes, ScRunShape, ScRunStages
  <2> QED
    BY <2>1, <2>3, <2>4, <2>5 DEF ScmTypes, RunTypes
<1> QED
  BY <1>2, <1>3, <1>4, <1>5, <1>6 DEF ScReads

(* The listing, and the reading of the evidence of one version.            *)
LEMMA FirstEvidence ==
    ASSUME ScmTypes, NEW v \in ScVersions
    PROVE  ScFirstEvidence(v) \in ScEvidence
  BY DEF ScmTypes, ScWorldType, ScFirstEvidence, Nothing, ScEvidence, ScScans

LEMMA ListTypes ==
    ASSUME ScmTypes, ScLists
    PROVE  ScmTypes' /\ UNCHANGED <<scWorld, scInv, scCov>> /\ scRun'.report \in {scRun.report, NoReport}
<1>1. UNCHANGED <<scWorld, scInv, scCov>> /\ scRun.at = "loaded"
  BY DEF ScLists
<1> SUFFICES RunTypes(scRun') /\ scRun'.report \in {scRun.report, NoReport}
  BY <1>1 DEF ScmTypes, RunTypes
<1>2. CASE scRun' = NoRun
  BY <1>2, NoRunShape DEF RunTypes
<1>3. CASE scRun' # NoRun
  <2>1. PICK unread \in SUBSET ScProjects :
          scRun' = [scRun EXCEPT !.at = "listed", !.listed = ScListed(unread).versions,
                      !.bdFailures = ScListed(unread).failures, !.was = scWorld.scans,
                      !.evidence = [v \in ScListed(unread).versions |-> ScFirstEvidence(v)]]
    BY <1>3 DEF ScLists
  <2> DEFINE listed == ScListed(unread).versions
             failures == ScListed(unread).failures
             evidence == [v \in listed |-> ScFirstEvidence(v)]
  <2>2. listed \subseteq ScVersions
    BY DEF ScListed, CutTo, ScVersions
  <2>3. failures \in Nat
    <3>1. IsFiniteSet(unread)
      BY ScmAssumption, FS_Subset
    <3>2. \A S : S \subseteq unread => Cardinality(S) \in Nat
      BY <3>1, FS_Subset, FS_CardinalityType
    <3> QED
      BY <3>2 DEF ScListed
  <2>4. evidence \in [listed -> ScEvidence]
    BY <2>2, FirstEvidence
  <2> HIDE DEF listed, failures, evidence
  <2>5. scRun' = [scRun EXCEPT !.at = "listed", !.listed = listed, !.bdFailures = failures,
                    !.was = scWorld.scans, !.evidence = evidence]
    BY <2>1 DEF listed, failures, evidence
  <2>6. /\ scRun'.id = scRun.id /\ scRun'.at = "listed" /\ scRun'.inv = scRun.inv /\ scRun'.report = scRun.report
        /\ scRun'.listed = listed /\ scRun'.evidence = evidence /\ scRun'.was = scWorld.scans
    BY <2>5 DEF ScmTypes, ScRunShape
  <2>7. ScRunShape(scRun')
    BY <2>2, <2>3, <2>5 DEF ScmTypes, ScRunShape, ScRunStages
  <2> QED
    BY <1>1, <2>4, <2>6, <2>7 DEF ScmTypes, ScWorldType, RunTypes
<1> QED
  BY <1>2, <1>3

\* The evidence of one version is read, or cannot be.
LEMMA CollectTypes ==
    ASSUME ScmTypes, NEW v \in ScVersions, ScCollects(v) \/ ScCollectFails(v)
    PROVE  /\ ScmTypes' /\ UNCHANGED <<scWorld, scInv, scCov>> /\ scRun.at = "listed" /\ scRun'.at = "listed"
           /\ scRun.source = "direct" /\ v \in scRun.listed /\ scRun'.report = scRun.report
           /\ scRun'.source = scRun.source /\ scRun'.max = scRun.max /\ scRun'.listed = scRun.listed
           /\ scRun'.was = scRun.was /\ scRun'.id = scRun.id
           /\ \A w \in scRun.listed \ {v} : scRun'.evidence[w] = scRun.evidence[w]
           /\ \/ /\ scRun'.bdFailures = scRun.bdFailures
                 /\ scRun'.evidence[v].scan =
                      IF scWorld.scans[v] \in Successful THEN scWorld.scans[v] ELSE "unsuccessful"
              \/ /\ scRun'.bdFailures = scRun.bdFailures + 1
                 /\ scRun'.evidence[v].scan = "unread" /\ scRun'.evidence[v].complete = FALSE
<1>1. UNCHANGED <<scWorld, scInv, scCov>> /\ scRun.at = "listed" /\ v \in ScAsked
  BY DEF ScCollects, ScCollectFails
<1>2. scRun.source = "direct" /\ v \in scRun.listed
  BY <1>1 DEF ScAsked
<1>3. PICK e \in ScEvidence, failures \in Nat :
        /\ scRun' = [scRun EXCEPT !.evidence = [scRun.evidence EXCEPT ![v] = e], !.bdFailures = failures]
        /\ \/ /\ failures = scRun.bdFailures
              /\ e.scan = IF scWorld.scans[v] \in Successful THEN scWorld.scans[v] ELSE "unsuccessful"
           \/ failures = scRun.bdFailures + 1 /\ e.scan = "unread" /\ e.complete = FALSE
  <2>1. CASE ScCollects(v)
    <3>1. PICK summaries \in BOOLEAN : scRun' = [scRun EXCEPT !.evidence[v] =
            [complete |-> scWorld.scans[v] # "started" \/ summaries,
             scan |-> IF scWorld.scans[v] \in Successful THEN scWorld.scans[v] ELSE "unsuccessful"]]
      BY <2>1 DEF ScCollects
    <3> DEFINE e == [complete |-> scWorld.scans[v] # "started" \/ summaries,
                     scan |-> IF scWorld.scans[v] \in Successful THEN scWorld.scans[v] ELSE "unsuccessful"]
    <3>2. (scWorld.scans[v] # "started" \/ summaries) \in BOOLEAN
      OBVIOUS
    <3>3. e \in ScEvidence
      BY <3>2 DEF ScmTypes, ScWorldType, ScEvidence, ScScans, Successful
    <3>4. e.scan = IF scWorld.scans[v] \in Successful THEN scWorld.scans[v] ELSE "unsuccessful"
      OBVIOUS
    <3>5. scRun' = [scRun EXCEPT !.evidence = [scRun.evidence EXCEPT ![v] = e]]
      BY <3>1
    <3> HIDE DEF e
    <3>6. scRun' = [scRun EXCEPT !.evidence = [scRun.evidence EXCEPT ![v] = e], !.bdFailures = scRun.bdFailures]
      BY <3>5 DEF ScmTypes, ScRunShape
    <3>7. scRun.bdFailures \in Nat
      BY DEF ScmTypes, ScRunShape
    <3> QED
      BY <3>3, <3>4, <3>6, <3>7
  <2>2. CASE ScCollectFails(v)
    <3> DEFINE e == [complete |-> FALSE, scan |-> "unread"]
    <3>1. scRun' = [scRun EXCEPT !.evidence = [scRun.evidence EXCEPT ![v] = e], !.bdFailures = scRun.bdFailures + 1]
      BY <2>2 DEF ScCollectFails
    <3>2. e \in ScEvidence /\ scRun.bdFailures + 1 \in Nat
      BY DEF ScmTypes, ScRunShape, ScEvidence
    <3> QED
      BY <3>1, <3>2
  <2> QED
    BY <2>1, <2>2
<1> DEFINE evidence == [scRun.evidence EXCEPT ![v] = e]
<1>4. /\ evidence \in [scRun.listed -> ScEvidence] /\ evidence[v] = e
      /\ \A w \in scRun.listed \ {v} : evidence[w] = scRun.evidence[w]
  BY <1>1, <1>2, <1>3 DEF ScmTypes
<1> HIDE DEF evidence
<1>5. scRun' = [scRun EXCEPT !.evidence = evidence, !.bdFailures = failures]
  BY <1>3 DEF evidence
<1>6. /\ ScRunShape(scRun') /\ scRun'.at = scRun.at /\ scRun'.id = scRun.id /\ scRun'.source = scRun.source
      /\ scRun'.max = scRun.max /\ scRun'.inv = scRun.inv /\ scRun'.listed = scRun.listed
      /\ scRun'.was = scRun.was /\ scRun'.report = scRun.report
      /\ scRun'.evidence = evidence /\ scRun'.bdFailures = failures
  BY <1>3, <1>5 DEF ScmTypes, ScRunShape
<1>7. RunTypes(scRun')
  BY <1>1, <1>4, <1>6 DEF ScmTypes, RunTypes
<1>8. ScmTypes'
  BY <1>1, <1>7 DEF ScmTypes, RunTypes
<1> QED
  BY <1>1, <1>2, <1>3, <1>4, <1>6, <1>8

-----------------------------------------------------------------------------
(* The writers of the two snapshots.                                       *)

LEMMA InventoryWriteTypes ==
    ASSUME ScmTypes, ScStages \/ ScMoves \/ ScReady
    PROVE  ScmTypes' /\ UNCHANGED <<scWorld, scCov>> /\ scRun'.at # "listed"
<1>1. PICK at \in {"staged", "moved", "published"} : \E inv :
        /\ scRun' = [scRun EXCEPT !.at = at] /\ scRun.at \in {"observed", "staged", "moved"}
        /\ ScInventoryShape(inv) /\ scInv' = [scInv EXCEPT ![scRun.id] = inv]
  <2>1. CASE ScStages
    <3>1. /\ scInv' = [scInv EXCEPT ![scRun.id] = [scRun.inv EXCEPT !.at = "staged"]]
          /\ scRun' = [scRun EXCEPT !.at = "staged"] /\ scRun.at = "observed"
      BY <2>1 DEF ScStages
    <3>2. ScInventoryShape([scRun.inv EXCEPT !.at = "staged"])
      BY InventoryStage DEF ScmTypes
    <3> QED
      BY <3>1, <3>2
  <2>2. CASE ScMoves \/ ScReady
    <3>1. PICK to \in {"moved", "ready"} :
            /\ scInv' = [scInv EXCEPT ![scRun.id] = [scInv[scRun.id] EXCEPT !.at = to]]
            /\ scRun' = [scRun EXCEPT !.at = IF to = "ready" THEN "published" ELSE to]
            /\ scRun.at \in {"staged", "moved"}
      BY <2>2 DEF ScMoves, ScReady
    <3>2. ScInventoryShape([scInv[scRun.id] EXCEPT !.at = to])
      BY <3>1, InventoryStage DEF ScmTypes
    <3> QED
      BY <3>1, <3>2
  <2> QED
    BY <2>1, <2>2
<1>2. UNCHANGED <<scWorld, scCov>>
  BY DEF ScStages, ScMoves, ScReady
<1>3. at \in ScRunStages \ {"listed"}
  BY DEF ScRunStages
<1>4. RunTypes(scRun') /\ scRun'.at # "listed"
  BY <1>1, <1>3, RunTypesAt, RunStage
<1>5. InventoryTypes'
  <2>1. InventoryTypes /\ scRun.id \in ScIds
    BY <1>1 DEF ScmTypes, InventoryTypes
  <2>2. PICK inv : ScInventoryShape(inv) /\ scInv' = [scInv EXCEPT ![scRun.id] = inv]
    BY <1>1
  <2> QED
    BY <2>1, <2>2, InventoryUpdate
<1> QED
  BY <1>2, <1>4, <1>5 DEF ScmTypes, RunTypes, InventoryTypes

\* Two reports that say the same, whatever stage they are in.
SameReport(a, b) ==
  /\ a.trusted = b.trusted /\ a.rows = b.rows /\ a.failures = b.failures
  /\ a.was = b.was /\ a.now = b.now

\* One snapshot changes: it goes, takes its next stage, or is the run's report.
OneReportChanges ==
  \/ scCov' = scCov
  \/ \E i \in ScIds :
       /\ \A j \in ScIds \ {i} : scCov'[j] = scCov[j]
       /\ scCov'[i] = NoReport \/ SameReport(scCov'[i], scCov[i]) \/ SameReport(scCov'[i], scRun.report)

LEMMA NextStage ==
    ASSUME CoverageTypes, NEW i \in ScIds, NEW at \in ScReportStages,
           scCov' = [scCov EXCEPT ![i] = [scCov[i] EXCEPT !.at = at]]
    PROVE  /\ CoverageTypes' /\ OneReportChanges /\ scCov'[i].at = at
           /\ \A j \in ScIds \ {i} : scCov'[j] = scCov[j]
<1>1. ScReportShape(scCov[i])
  BY DEF CoverageTypes
<1>2. ScReportShape([scCov[i] EXCEPT !.at = at]) /\ SameReport([scCov[i] EXCEPT !.at = at], scCov[i])
      /\ [scCov[i] EXCEPT !.at = at].at = at
  BY <1>1, ReportStage DEF SameReport
<1>3. /\ CoverageTypes' /\ scCov'[i] = [scCov[i] EXCEPT !.at = at]
      /\ \A j \in ScIds \ {i} : scCov'[j] = scCov[j]
  BY <1>2, CoverageUpdate
<1> QED
  BY <1>2, <1>3 DEF OneReportChanges

LEMMA SnapshotGoes ==
    ASSUME CoverageTypes, NEW i \in ScIds, scCov' = [scCov EXCEPT ![i] = NoReport]
    PROVE  /\ CoverageTypes' /\ OneReportChanges /\ scCov'[i] = NoReport
           /\ \A j \in ScIds \ {i} : scCov'[j] = scCov[j]
  BY NoReportShape, CoverageUpdate DEF OneReportChanges

ScPublishes == ScWrites \/ ScRenames \/ ScMarksReady \/ ScCompletes \/ ScPrunes

LEMMA PublishTypes ==
    ASSUME ScmTypes, ScPublishes
    PROVE  /\ ScmTypes' /\ scWorld' = scWorld /\ OneReportChanges
           /\ scRun'.at # "listed" /\ scRun'.report = scRun.report
<1>1. UNCHANGED <<scWorld, scInv>> /\ scRun.at \in {"reconciled", "covStaged", "covMoved", "covReady", "pruning"}
  BY DEF ScPublishes, ScWrites, ScRenames, ScMarksReady, ScCompletes, ScPrunes
<1>2. CoverageTypes /\ scRun.id \in ScIds
  BY <1>1 DEF ScmTypes, CoverageTypes
<1>3. ScWrites => CoverageTypes' /\ OneReportChanges
  <2> SUFFICES ASSUME ScWrites PROVE CoverageTypes' /\ OneReportChanges
    OBVIOUS
  <2>1. PICK born : scCov' = [scCov EXCEPT ![scRun.id] = [scRun.report EXCEPT !.at = "staged", !.born = born]]
    BY DEF ScWrites
  <2> DEFINE rep == [scRun.report EXCEPT !.at = "staged", !.born = born]
  <2>2. ScReportShape(rep) /\ SameReport(rep, scRun.report)
    BY DEF ScmTypes, ScReportShape, ScReportStages, SameReport
  <2> HIDE DEF rep
  <2>3. CoverageTypes' /\ scCov'[scRun.id] = rep /\ \A j \in ScIds \ {scRun.id} : scCov'[j] = scCov[j]
    <3>1. scCov' = [scCov EXCEPT ![scRun.id] = rep]
      BY <2>1 DEF rep
    <3> QED
      BY <1>2, <2>2, <3>1, CoverageUpdate
  <2> QED
    BY <1>2, <2>2, <2>3 DEF OneReportChanges
<1>4. ScRenames \/ ScMarksReady \/ ScCompletes => CoverageTypes' /\ OneReportChanges
  <2> SUFFICES ASSUME ScRenames \/ ScMarksReady \/ ScCompletes PROVE CoverageTypes' /\ OneReportChanges
    OBVIOUS
  <2>1. PICK at \in {"moved", "ready", "complete"} :
          scCov' = [scCov EXCEPT ![scRun.id] = [scCov[scRun.id] EXCEPT !.at = at]]
    BY DEF ScRenames, ScMarksReady, ScCompletes
  <2> QED
    BY <1>2, <2>1, NextStage DEF ScReportStages
<1>5. ScPrunes => CoverageTypes' /\ OneReportChanges
  BY <1>2, SnapshotGoes DEF ScPrunes, ScDoomed, ScComplete
<1>6. RunTypes(scRun') /\ scRun'.at # "listed" /\ scRun'.report = scRun.report
  <2>1. CASE scRun' = scRun
    BY <1>1, <2>1 DEF ScmTypes, RunTypes
  <2>2. CASE scRun' # scRun
    <3>1. PICK at \in {"covStaged", "covMoved", "covReady", "pruning"} : scRun' = [scRun EXCEPT !.at = at]
      BY <2>2 DEF ScPublishes, ScWrites, ScRenames, ScMarksReady, ScCompletes, ScPrunes
    <3> QED
      BY <1>1, <3>1, RunTypesAt, RunStage DEF ScRunStages
  <2> QED
    BY <2>1, <2>2
<1> QED
  BY <1>1, <1>3, <1>4, <1>5, <1>6 DEF ScmTypes, RunTypes, CoverageTypes, ScPublishes

\* A run ends where it should not.
LEMMA BreakTypes ==
    ASSUME ScmTypes, ScWriteFails \/ ScDies
    PROVE  ScmTypes' /\ scWorld' = scWorld /\ OneReportChanges /\ scRun' = NoRun
<1>1. scWorld' = scWorld /\ scRun' = NoRun /\ scRun.at # "idle"
  BY DEF ScWriteFails, ScDies
<1>2. InventoryTypes /\ CoverageTypes /\ scRun.id \in ScIds
  BY <1>1 DEF ScmTypes, InventoryTypes, CoverageTypes
<1>3. InventoryTypes'
  <2>1. scInv' = scInv \/ scInv' = [scInv EXCEPT ![scRun.id] = NoInventory]
    BY DEF ScWriteFails, ScDies
  <2> QED
    BY <1>2, <2>1, NoInventoryShape, InventoryUpdate DEF InventoryTypes
<1>4. CoverageTypes' /\ OneReportChanges
  <2>1. \/ scCov' = scCov
        \/ scCov' = [scCov EXCEPT ![scRun.id] = NoReport]
        \/ \E i \in ScIds : scCov' = [scCov EXCEPT ![i] = [scCov[i] EXCEPT !.at = "moved"]]
    BY DEF ScWriteFails, ScDies, ScDoomed, ScComplete
  <2> QED
    BY <1>2, <2>1, SnapshotGoes, NextStage DEF OneReportChanges, CoverageTypes, ScReportStages
<1> QED
  BY <1>1, <1>3, <1>4, NoRunShape DEF ScmTypes, InventoryTypes, CoverageTypes

LEMMA TypesStep == ScmTypes /\ [ScmNext]_scVars => ScmTypes'
<1> SUFFICES ASSUME ScmTypes, [ScmNext]_scVars PROVE ScmTypes'
  OBVIOUS
<1>1. CASE UNCHANGED scVars
  BY <1>1 DEF scVars, ScmTypes
<1>2. CASE (\E v \in ScVersions : ScScanned(v)) \/ ScAges
  BY <1>2, WorldTypes
<1>3. CASE \E v \in ScVersions : ScCollects(v) \/ ScCollectFails(v)
  BY <1>3, CollectTypes
<1> QED
  BY <1>1, <1>2, <1>3, ReadTypes, ListTypes, InventoryWriteTypes, PublishTypes, BreakTypes
  DEF ScmNext, ScReads, ScPublishes

-----------------------------------------------------------------------------
(* What the evidence of a running collection proves.                       *)

\* What one version's evidence says of its scans at the listing and now.
EvidenceProves(v) ==
  /\ scRun.evidence[v].scan = "current" => scWorld.scans[v] = "current"
  /\ scRun.evidence[v].complete /\ scRun.evidence[v].scan \notin Successful => scRun.was[v] \notin Successful
  /\ scRun.evidence[v] # Nothing /\ scRun.evidence[v].scan # "current" =>
       scRun.was[v] # "current" \/ scRun.bdFailures > 0

\* Of every project all versions are listed, or none and that is recorded.
ProjectListed(p) ==
  \/ ScVersionsOf[p] \subseteq scRun.listed
  \/ ScVersionsOf[p] \cap scRun.listed = {} /\ scRun.bdFailures > 0

EvidenceTrue ==
  scRun.at = "listed" /\ scRun.source # "file" =>
    /\ \A v \in ScVersions : scWorld.scans[v] = scRun.was[v] \/ scWorld.scans[v] = "current"
    /\ \A v \in scRun.listed : EvidenceProves(v)
    /\ scRun.source = "none" => \A v \in scRun.listed : scRun.evidence[v] = Nothing
    /\ scRun.max = 0 => \A p \in ScProjects : ProjectListed(p)

LEMMA WorldEvidence ==
    ASSUME ScmTypes, EvidenceTrue, (\E v \in ScVersions : ScScanned(v)) \/ ScAges
    PROVE  EvidenceTrue'
<1>1. /\ scRun' = scRun
      /\ \/ scRun.at = "idle"
         \/ \A v \in ScVersions : scWorld'.scans[v] = scWorld.scans[v] \/ scWorld'.scans[v] = "current"
  BY WorldTypes
<1>2. CASE scRun.at = "idle"
  BY <1>1, <1>2 DEF EvidenceTrue
<1>3. CASE scRun.at # "idle"
  <2>1. scRun.listed \subseteq ScVersions
    BY DEF ScmTypes, ScRunShape
  <2> QED
    BY <1>1, <1>3, <2>1 DEF EvidenceTrue, EvidenceProves, ProjectListed
<1> QED
  BY <1>2, <1>3

LEMMA CollectEvidence ==
    ASSUME ScmTypes, EvidenceTrue, NEW v \in ScVersions, ScCollects(v) \/ ScCollectFails(v)
    PROVE  EvidenceTrue'
<1>1. /\ scWorld' = scWorld /\ scRun.at = "listed" /\ scRun'.at = "listed" /\ scRun.source = "direct"
      /\ v \in scRun.listed /\ scRun'.source = scRun.source /\ scRun'.max = scRun.max
      /\ scRun'.listed = scRun.listed /\ scRun'.was = scRun.was
      /\ \A w \in scRun.listed \ {v} : scRun'.evidence[w] = scRun.evidence[w]
  BY CollectTypes
<1>2. \/ /\ scRun'.bdFailures = scRun.bdFailures
         /\ scRun'.evidence[v].scan =
              IF scWorld.scans[v] \in Successful THEN scWorld.scans[v] ELSE "unsuccessful"
      \/ /\ scRun'.bdFailures = scRun.bdFailures + 1
         /\ scRun'.evidence[v].scan = "unread" /\ scRun'.evidence[v].complete = FALSE
  BY CollectTypes
<1>3. scRun'.bdFailures \in Nat /\ (scRun.bdFailures > 0 => scRun'.bdFailures > 0)
  BY <1>2 DEF ScmTypes, ScRunShape
<1>4. \A w \in scRun.listed \ {v} : EvidenceProves(w)'
  BY <1>1, <1>3 DEF EvidenceTrue, EvidenceProves
<1>5. EvidenceProves(v)'
  <2>1. scWorld.scans[v] = scRun.was[v] \/ scWorld.scans[v] = "current"
    BY <1>1 DEF EvidenceTrue
  <2>2. scRun.bdFailures \in Nat
    BY DEF ScmTypes, ScRunShape
  <2> QED
    BY <1>1, <1>2, <2>1, <2>2 DEF EvidenceProves, Successful
<1>6. scRun.max = 0 => \A p \in ScProjects : ProjectListed(p)'
  BY <1>1, <1>3 DEF EvidenceTrue, ProjectListed
<1> QED
  BY <1>1, <1>4, <1>5, <1>6 DEF EvidenceTrue

LEMMA ListEvidence ==
    ASSUME ScmTypes, ScLists
    PROVE  EvidenceTrue'
<1>1. scWorld' = scWorld /\ scRun.at = "loaded"
  BY DEF ScLists
<1>2. CASE scRun' = NoRun
  BY <1>2 DEF EvidenceTrue, NoRun
<1>3. CASE scRun' # NoRun
  <2>1. PICK unread \in SUBSET ScProjects :
          scRun' = [scRun EXCEPT !.at = "listed", !.listed = ScListed(unread).versions,
                      !.bdFailures = ScListed(unread).failures, !.was = scWorld.scans,
                      !.evidence = [v \in ScListed(unread).versions |-> ScFirstEvidence(v)]]
    BY <1>3 DEF ScLists
  <2> DEFINE listed == ScListed(unread).versions
             failures == ScListed(unread).failures
             evidence == [v \in listed |-> ScFirstEvidence(v)]
  <2>2. scRun.source # "file" => \A v \in listed : evidence[v] = Nothing
    BY DEF ScFirstEvidence
  <2>3. scRun.max = 0 => listed = UNION {ScVersionsOf[p] : p \in ScProjects \ unread}
    BY DEF ScListed, CutTo
  <2>4. scRun.max = 0 /\ unread # {} => failures > 0
    <3>1. scRun.max = 0 => failures = Cardinality(unread)
      BY DEF ScListed
    <3>2. IsFiniteSet(unread)
      BY ScmAssumption, FS_Subset
    <3>3. Cardinality(unread) \in Nat /\ (unread # {} => Cardinality(unread) # 0)
      BY <3>2, FS_CardinalityType, FS_EmptySet
    <3> QED
      BY <3>1, <3>3
  <2>5. scRun'.listed = listed /\ scRun'.bdFailures = failures /\ scRun'.evidence = evidence
        /\ scRun'.was = scWorld.scans /\ scRun'.source = scRun.source /\ scRun'.max = scRun.max
    BY <2>1 DEF ScmTypes, ScRunShape
  <2> HIDE DEF listed, failures, evidence
  <2>6. scRun.max = 0 => \A p \in ScProjects : ProjectListed(p)'
    <3> SUFFICES ASSUME scRun.max = 0, NEW p \in ScProjects PROVE ProjectListed(p)'
      OBVIOUS
    <3>1. CASE p \notin unread
      <4>1. ScVersionsOf[p] \subseteq listed
        BY <2>3, <3>1
      <4> QED
        BY <2>5, <4>1 DEF ProjectListed
    <3>2. CASE p \in unread
      <4>1. ScVersionsOf[p] \cap listed = {}
        BY <2>3, <3>2, ScmAssumption
      <4> QED
        BY <2>4, <2>5, <3>2, <4>1 DEF ProjectListed
    <3> QED
      BY <3>1, <3>2
  <2>7. scRun.source # "file" => \A v \in listed : EvidenceProves(v)'
    BY <1>1, <2>2, <2>5 DEF EvidenceProves, Nothing
  <2>8. scRun.source = "none" => \A v \in listed : scRun'.evidence[v] = Nothing
    BY <2>2, <2>5
  <2> QED
    BY <1>1, <2>5, <2>6, <2>7, <2>8 DEF EvidenceTrue
<1> QED
  BY <1>2, <1>3

-----------------------------------------------------------------------------
(* The reports.                                                            *)

\* What a verdict on a repository proves, for a report of the whole of Black
\* Duck on direct evidence.
VerdictProven(rep, r) ==
  /\ rep.rows[r].verdict = "onboarded-not-mapped" =>
       /\ \A p \in ScProjects : r # scWorld.claims[p].id /\ r # scWorld.claims[p].url
       /\ scWorld.explicit[r] = 0
  /\ rep.rows[r].verdict = "mapped-never-scanned" =>
       \A v \in ScVersionsOf[rep.rows[r].project] : rep.was[v] \notin Successful
  /\ rep.rows[r].verdict = "scanned-current" =>
       \E v \in ScVersionsOf[rep.rows[r].project] : rep.now[v] = "current"
  /\ rep.rows[r].verdict = "scanned-stale" /\ rep.failures = 0 =>
       \A v \in ScVersionsOf[rep.rows[r].project] : rep.was[v] # "current"

ReportTrue(rep) == rep.trusted => \A r \in DOMAIN rep.rows : VerdictProven(rep, r)

ReportsTrue == ReportTrue(scRun.report) /\ \A i \in ScIds : ReportTrue(scCov[i])

LEMMA ReportsSuffice == ReportsTrue => ScmVerdictsProven
  BY DEF ReportsTrue, ReportTrue, VerdictProven, ScmVerdictsProven

LEMMA NoReportTrue == ReportTrue(NoReport)
  BY DEF ReportTrue, NoReport

LEMMA SameReportTrue ==
    ASSUME NEW a, NEW b, SameReport(a, b), ReportTrue(b)
    PROVE  ReportTrue(a)
  BY DEF SameReport, ReportTrue, VerdictProven

\* Claims and reviewed mappings stay what they are.
LEMMA ReportsStay ==
    ASSUME ReportsTrue, scWorld'.claims = scWorld.claims, scWorld'.explicit = scWorld.explicit,
           OneReportChanges, scRun'.report \in {scRun.report, NoReport}
    PROVE  ReportsTrue'
<1>1. \A rep : ReportTrue(rep) => (rep.trusted => \A r \in DOMAIN rep.rows : VerdictProven(rep, r)')
  BY DEF ReportTrue, VerdictProven
<1>2. ReportTrue(scRun'.report) /\ \A i \in ScIds : ReportTrue(scCov'[i])
  BY NoReportTrue, SameReportTrue DEF ReportsTrue, OneReportChanges
<1> QED
  BY <1>1, <1>2 DEF ReportsTrue, ReportTrue

(* What a mapping without a conflict says of the claims. *)
LEMMA MappingTrue ==
    ASSUME NEW r
    PROVE  /\ ScMap(r).project # 0 => ScMap(r).project \in Known
           /\ ~ScMap(r).conflict /\ ScMap(r).project = 0 =>
                ByIdentity(r) = {} /\ ByUrl(r) = {} /\ scWorld.explicit[r] = 0
<1> DEFINE missing == ByFile(r) \ Known
           agreed == ByIdentity(r) \cup ByUrl(r) \cup (ByFile(r) \cap Known)
<1>1. agreed \subseteq Known
  BY DEF ByIdentity, ByUrl
<1>2. CASE missing # {} \/ Cardinality(agreed) > 1
  BY <1>2 DEF ScMap
<1>3. CASE ~(missing # {} \/ Cardinality(agreed) > 1) /\ agreed # {}
  <2>1. ScMap(r).project = CHOOSE p \in agreed : TRUE
    BY <1>3 DEF ScMap
  <2>2. ScMap(r).project \in agreed
    <3> HIDE DEF agreed
    <3> QED
      BY <1>3, <2>1
  <2>3. ScMap(r).project \in Nat \ {0}
    BY <1>1, <2>2, ScmAssumption DEF Known
  <2> QED
    BY <1>1, <2>2, <2>3
<1>4. CASE missing = {} /\ agreed = {}
  <2>1. ByIdentity(r) = {} /\ ByUrl(r) = {} /\ ByFile(r) = {}
    BY <1>4
  <2>2. scWorld.explicit[r] = 0
    BY <2>1 DEF ByFile
  <2>3. ScMap(r).project = 0
    BY <1>2, <1>4 DEF ScMap
  <2> QED
    BY <2>1, <2>2, <2>3
<1> QED
  BY <1>2, <1>3, <1>4

\* Black Duck creates a project together with a version.
ProjectsHaveVersions == \A p \in ScProjects : ScVersionsOf[p] # {}

LEMMA ReconciledTrue ==
    ASSUME ProjectsHaveVersions, ScmTypes, EvidenceTrue, ScReconciles
    PROVE  ReportTrue(scRun'.report)
<1> DEFINE rep == scRun'.report
           listed == scRun.listed
<1>1. /\ scRun.at = "listed" /\ \A v \in ScAsked : scRun.evidence[v] # Nothing
      /\ rep = [NoReport EXCEPT
                  !.failures = scRun.inv.failures + scRun.bdFailures,
                  !.rows = [r \in scRun.inv.repos |->
                              [verdict |-> ScClassify(r), project |-> ScMap(r).project]],
                  !.trusted = scRun.max = 0 /\ scRun.source # "file",
                  !.was = scRun.was, !.now = scWorld.scans]
  BY DEF ScReconciles, ScmTypes, ScRunShape
<1>2. /\ rep.failures = scRun.inv.failures + scRun.bdFailures
      /\ rep.rows = [r \in scRun.inv.repos |-> [verdict |-> ScClassify(r), project |-> ScMap(r).project]]
      /\ rep.was = scRun.was /\ rep.now = scWorld.scans
  BY <1>1 DEF NoReport
<1>3. rep.trusted => scRun.max = 0 /\ scRun.source # "file"
  BY <1>1 DEF NoReport
<1> HIDE DEF rep
<1> SUFFICES ASSUME scRun.max = 0, scRun.source # "file", NEW r \in scRun.inv.repos
             PROVE  VerdictProven(rep, r)
  BY <1>2, <1>3 DEF ReportTrue, rep
<1> DEFINE project == ScMap(r).project
<1>4. rep.rows[r].verdict = ScClassify(r) /\ rep.rows[r].project = project
  BY <1>2
<1>5. scRun.bdFailures \in Nat /\ scRun.inv.failures \in Nat
  BY DEF ScmTypes, ScRunShape, ScInventoryShape
<1>6. /\ \A v \in ScVersions : scWorld.scans[v] = scRun.was[v] \/ scWorld.scans[v] = "current"
      /\ \A v \in listed : EvidenceProves(v)
      /\ \A p \in ScProjects : ProjectListed(p)
  BY <1>1 DEF EvidenceTrue
<1>7. ScClassify(r) \in {"mapped-never-scanned", "scanned-current", "scanned-stale"} =>
        project # 0 /\ ScClassify(r) = ScScanState(project)
  BY DEF ScClassify
<1>8. ScClassify(r) = "onboarded-not-mapped" =>
        ~ScMap(r).conflict /\ project = 0 /\ ~(scRun.bdFailures > 0)
  <2>1. \A p : ScScanState(p) # "onboarded-not-mapped"
    BY DEF ScScanState
  <2> QED
    BY <2>1 DEF ScClassify
<1>9. project # 0 => /\ ScVersionsOf[project] \subseteq listed
                    /\ ScEvidenceOf(project) = {scRun.evidence[v] : v \in ScVersionsOf[project]}
  <2> SUFFICES ASSUME project # 0
               PROVE  /\ ScVersionsOf[project] \subseteq listed
                      /\ ScEvidenceOf(project) = {scRun.evidence[v] : v \in ScVersionsOf[project]}
    OBVIOUS
  <2>1. project \in ScProjects /\ ScVersionsOf[project] \cap listed # {}
    BY MappingTrue DEF Known
  <2>2. ScVersionsOf[project] \subseteq listed
    BY <1>6, <2>1 DEF ProjectListed
  <2> QED
    BY <2>2 DEF ScEvidenceOf
<1> HIDE DEF project, listed
<1>10. CASE ScClassify(r) = "onboarded-not-mapped"
  <2>1. \A p \in ScProjects : p \in Known
    BY <1>5, <1>6, <1>8, <1>10 DEF ProjectListed, ProjectsHaveVersions, Known
  <2>2. ByIdentity(r) = {} /\ ByUrl(r) = {} /\ scWorld.explicit[r] = 0
    BY <1>8, <1>10, MappingTrue DEF project
  <2>3. \A p \in ScProjects : r # scWorld.claims[p].id /\ r # scWorld.claims[p].url
    BY <2>1, <2>2 DEF ByIdentity, ByUrl
  <2> QED
    BY <1>4, <1>10, <2>2, <2>3 DEF VerdictProven
<1>11. CASE ScClassify(r) = "mapped-never-scanned"
  <2>1. \A v \in ScVersionsOf[project] :
          scRun.evidence[v].complete /\ scRun.evidence[v].scan \notin Successful
    <3>1. ScScanState(project) = "mapped-never-scanned"
      BY <1>7, <1>11
    <3>2. \A e \in ScEvidenceOf(project) : e.complete /\ e.scan \notin Successful
      BY <3>1 DEF ScScanState
    <3> QED
      BY <1>7, <1>9, <1>11, <3>2
  <2> QED
    BY <1>2, <1>4, <1>6, <1>7, <1>9, <1>11, <2>1 DEF VerdictProven, EvidenceProves, listed
<1>12. CASE ScClassify(r) = "scanned-current"
  <2>1. ScScanState(project) = "scanned-current"
    BY <1>7, <1>12
  <2>2. \E e \in ScEvidenceOf(project) : e.scan = "current"
    BY <2>1 DEF ScScanState
  <2>3. PICK v \in ScVersionsOf[project] : scRun.evidence[v].scan = "current"
    BY <1>7, <1>9, <1>12, <2>2
  <2> QED
    BY <1>2, <1>4, <1>6, <1>7, <1>9, <1>12, <2>3 DEF VerdictProven, EvidenceProves
<1>13. CASE ScClassify(r) = "scanned-stale"
  <2>1. ScScanState(project) = "scanned-stale"
    BY <1>7, <1>13
  <2>2. /\ \A e \in ScEvidenceOf(project) : e.scan # "current"
        /\ \E e \in ScEvidenceOf(project) : e.scan \in Successful
    BY <2>1 DEF ScScanState
  <2>3. \A v \in ScVersionsOf[project] : scRun.evidence[v].scan # "current"
    BY <1>7, <1>9, <1>13, <2>2
  <2>4. \A v \in ScVersionsOf[project] : scRun.evidence[v] # Nothing
    <3>1. ScVersionsOf[project] \subseteq scRun.listed
      BY <1>7, <1>9, <1>13 DEF listed
    <3>2. CASE scRun.source = "direct"
      BY <1>1, <3>1, <3>2 DEF ScAsked
    <3>3. CASE scRun.source = "none"
      <4>1. \A v \in scRun.listed : scRun.evidence[v] = Nothing
        BY <1>1, <3>3 DEF EvidenceTrue
      <4>2. \A e \in ScEvidenceOf(project) : e = Nothing
        BY <1>7, <1>9, <1>13, <3>1, <4>1
      <4> QED
        BY <2>2, <4>2 DEF Nothing, Successful
    <3>4. scRun.source \in ScSources
      BY DEF ScmTypes, ScRunShape
    <3> QED
      BY <3>2, <3>3, <3>4 DEF ScSources
  <2>5. rep.failures = 0 => scRun.bdFailures = 0
    BY <1>2, <1>5
  <2> QED
    BY <1>2, <1>4, <1>6, <1>7, <1>9, <1>13, <2>3, <2>4, <2>5 DEF VerdictProven, EvidenceProves
<1> QED
  BY <1>4, <1>10, <1>11, <1>12, <1>13 DEF VerdictProven

ScmInv == ScmTypes /\ EvidenceTrue /\ ReportsTrue

LEMMA ScmInitInv == ScmInit => ScmInv
<1> SUFFICES ASSUME ScmInit PROVE ScmInv
  OBVIOUS
<1>1. scRun.at = "idle" /\ scRun.report = NoReport
  BY DEF ScmInit, NoRun
<1>2. \A i \in ScIds : ReportTrue(scCov[i])
  BY DEF ScmInit, NoReport, ReportTrue
<1> QED
  BY <1>1, <1>2, ScmInitTypes, NoReportTrue DEF ScmInv, EvidenceTrue, ReportsTrue

LEMMA ScmStepInv == ProjectsHaveVersions /\ ScmInv /\ [ScmNext]_scVars => ScmInv'
<1> SUFFICES ASSUME ProjectsHaveVersions, ScmInv, [ScmNext]_scVars PROVE ScmInv'
  OBVIOUS
<1>1. ScmTypes /\ EvidenceTrue /\ ReportsTrue
  BY DEF ScmInv
<1>2. CASE UNCHANGED scVars
  <2>1. ScmTypes'
    BY <1>1, <1>2 DEF scVars, ScmTypes
  <2>2. EvidenceTrue'
    BY <1>1, <1>2 DEF scVars, EvidenceTrue, EvidenceProves, ProjectListed
  <2>3. ReportsTrue'
    BY <1>1, <1>2 DEF scVars, ReportsTrue, ReportTrue, VerdictProven
  <2> QED
    BY <2>1, <2>2, <2>3 DEF ScmInv
<1>3. CASE (\E v \in ScVersions : ScScanned(v)) \/ ScAges
  <2>1. ScmTypes' /\ EvidenceTrue'
    BY <1>1, <1>3, WorldTypes, WorldEvidence
  <2>2. OneReportChanges /\ scRun'.report = scRun.report
        /\ scWorld'.claims = scWorld.claims /\ scWorld'.explicit = scWorld.explicit
    BY <1>1, <1>3, WorldTypes DEF OneReportChanges
  <2> QED
    BY <1>1, <2>1, <2>2, ReportsStay DEF ScmInv
<1>4. CASE \E v \in ScVersions : ScCollects(v) \/ ScCollectFails(v)
  <2>1. PICK v \in ScVersions : ScCollects(v) \/ ScCollectFails(v)
    BY <1>4
  <2>2. ScmTypes' /\ EvidenceTrue'
    BY <1>1, <2>1, CollectTypes, CollectEvidence
  <2>3. scWorld' = scWorld /\ OneReportChanges /\ scRun'.report = scRun.report
    BY <1>1, <2>1, CollectTypes DEF OneReportChanges
  <2> QED
    BY <1>1, <2>2, <2>3, ReportsStay DEF ScmInv
<1>5. CASE ScReads
  <2>1. ScmTypes' /\ UNCHANGED <<scWorld, scInv, scCov>> /\ scRun'.at # "listed"
    BY <1>1, <1>5, ReadTypes
  <2>2. EvidenceTrue'
    BY <2>1 DEF EvidenceTrue
  <2>3. ReportTrue(scRun'.report)
    <3>1. scRun'.report \in {scRun.report, NoReport} \/ ScReconciles
      <4>1. ScObserves \/ ScLoads => scRun'.report = scRun.report
        BY <1>1 DEF ScObserves, ScLoads, ScmTypes, ScRunShape
      <4>2. ASSUME NEW i \in ScIds, NEW source \in ScSources, NEW max \in ScCuts,
                   ScBegin(i, source, max) \/ ScResume(i, source, max)
            PROVE  scRun'.report = NoReport
        BY <4>2 DEF ScBegin, ScResume, NoRun
      <4>3. ScInventoryFails \/ ScEnds => scRun'.report = NoReport
        BY DEF ScInventoryFails, ScEnds, NoRun
      <4> QED
        BY <1>5, <4>1, <4>2, <4>3 DEF ScReads
    <3> QED
      BY <1>1, <3>1, NoReportTrue, ReconciledTrue DEF ReportsTrue
  <2>4. ReportsTrue'
    BY <1>1, <2>1, <2>3 DEF ReportsTrue, ReportTrue, VerdictProven
  <2> QED
    BY <2>1, <2>2, <2>4 DEF ScmInv
<1>6. CASE ScLists
  <2>1. ScmTypes' /\ EvidenceTrue' /\ scWorld' = scWorld
    BY <1>1, <1>6, ListTypes, ListEvidence
  <2>2. OneReportChanges /\ scRun'.report \in {scRun.report, NoReport}
    BY <1>1, <1>6, ListTypes DEF OneReportChanges
  <2> QED
    BY <1>1, <2>1, <2>2, ReportsStay DEF ScmInv
<1>7. CASE ScStages \/ ScMoves \/ ScReady
  <2>1. ScmTypes' /\ scWorld' = scWorld /\ scRun'.at # "listed"
    BY <1>1, <1>7, InventoryWriteTypes
  <2>2. OneReportChanges
    BY <1>1, <1>7, InventoryWriteTypes DEF OneReportChanges
  <2>3. scRun'.report = scRun.report
    BY <1>1, <1>7 DEF ScStages, ScMoves, ScReady, ScmTypes, ScRunShape
  <2> QED
    BY <1>1, <2>1, <2>2, <2>3, ReportsStay DEF ScmInv, EvidenceTrue
<1>8. CASE ScPublishes
  <2>1. /\ ScmTypes' /\ scWorld' = scWorld /\ OneReportChanges
        /\ scRun'.at # "listed" /\ scRun'.report = scRun.report
    BY <1>1, <1>8, PublishTypes
  <2> QED
    BY <1>1, <2>1, ReportsStay DEF ScmInv, EvidenceTrue
<1>9. CASE ScWriteFails \/ ScDies
  <2>1. ScmTypes' /\ scWorld' = scWorld /\ OneReportChanges /\ scRun' = NoRun
    BY <1>1, <1>9, BreakTypes
  <2>2. scRun'.at # "listed" /\ scRun'.report = NoReport
    BY <2>1 DEF NoRun
  <2> QED
    BY <1>1, <2>1, <2>2, ReportsStay DEF ScmInv, EvidenceTrue
<1> QED
  BY <1>2, <1>3, <1>4, <1>5, <1>6, <1>7, <1>8, <1>9 DEF ScmNext, ScReads, ScPublishes

(* A complete report of the whole of Black Duck says only what its evidence  *)
(* proves: of a repository nobody claims, of a project never scanned, of one *)
(* scanned lately or long ago.  A project without a version is not in the    *)
(* inventory at all, so what it claims cannot count.  (reconcile_coverage,   *)
(* successful_scan_state, execute_coverage.)                                 *)
THEOREM VerdictsProven == ProjectsHaveVersions /\ ScmSpec => []ScmVerdictsProven
<1> SUFFICES ASSUME ProjectsHaveVersions PROVE ScmSpec => []ScmVerdictsProven
  OBVIOUS
<1>1. ScmInit => ScmInv
  BY ScmInitInv
<1>2. ScmInv /\ [ScmNext]_scVars => ScmInv'
  BY ScmStepInv
<1>3. ScmInv => ScmVerdictsProven
  BY ReportsSuffice DEF ScmInv
<1> QED
  BY <1>1, <1>2, <1>3, PTL DEF ScmSpec

-----------------------------------------------------------------------------
(* Which snapshot a run may touch.                                         *)

ScUnwritten == ScRunStages \ {"idle", "covStaged", "covMoved", "covReady", "pruning"}

\* The snapshot of a run that still works on it is never a complete one.
ScPhases ==
  /\ scRun.at \in ScUnwritten => scCov[scRun.id].at \in {"none", "staged"}
  /\ scRun.at = "covStaged" => scCov[scRun.id].at = "staged"
  /\ scRun.at = "covMoved" => scCov[scRun.id].at = "moved"
  /\ scRun.at = "covReady" => scCov[scRun.id].at = "ready"

LEMMA PhasesStep == ScmTypes /\ ScPhases /\ [ScmNext]_scVars => ScPhases'
<1> SUFFICES ASSUME ScmTypes, ScPhases, [ScmNext]_scVars PROVE ScPhases'
  OBVIOUS
<1>1. CASE UNCHANGED scVars
  BY <1>1 DEF scVars, ScPhases
<1>2. CASE (\E v \in ScVersions : ScScanned(v)) \/ ScAges
  BY <1>2 DEF ScScanned, ScAges, ScPhases
<1>3. CASE \E v \in ScVersions : ScCollects(v) \/ ScCollectFails(v)
  <2>1. scCov' = scCov /\ scRun.at = "listed" /\ scRun'.at = "listed" /\ scRun'.id = scRun.id
    BY <1>3, CollectTypes
  <2> QED
    BY <2>1 DEF ScPhases, ScUnwritten, ScRunStages
<1>4. CASE \E i \in ScIds, source \in ScSources, max \in ScCuts : ScBegin(i, source, max) \/ ScResume(i, source, max)
  <2>1. PICK i \in ScIds, at \in {"inventory", "published"} :
          scRun'.at = at /\ scRun'.id = i /\ scCov[i].at \in {"none", "staged"} /\ scCov' = scCov
    <3>1. PICK i \in ScIds, source \in ScSources, max \in ScCuts : ScBegin(i, source, max) \/ ScResume(i, source, max)
      BY <1>4
    <3>2. CASE ScBegin(i, source, max)
      <4>1. scRun' = [NoRun EXCEPT !.at = "inventory", !.id = i, !.source = source, !.max = max]
        BY <3>2 DEF ScBegin
      <4>2. scRun'.at = "inventory" /\ scRun'.id = i
        BY <4>1 DEF NoRun
      <4> QED
        BY <3>2, <4>2 DEF ScBegin
    <3>3. CASE ScResume(i, source, max)
      <4>1. scRun' = [NoRun EXCEPT !.at = "published", !.id = i, !.source = source, !.max = max]
        BY <3>3 DEF ScResume
      <4>2. scRun'.at = "published" /\ scRun'.id = i
        BY <4>1 DEF NoRun
      <4> QED
        BY <3>3, <4>2 DEF ScResume
    <3> QED
      BY <3>1, <3>2, <3>3
  <2> QED
    BY <2>1 DEF ScPhases, ScUnwritten
<1>5. CASE ScObserves \/ ScLoads \/ ScLists \/ ScReconciles \/ ScStages \/ ScMoves \/ ScReady
  <2>1. scCov' = scCov /\ scRun.at \in ScUnwritten
    BY <1>5 DEF ScObserves, ScLoads, ScLists, ScReconciles, ScStages, ScMoves, ScReady, ScUnwritten, ScRunStages
  <2>2. scRun' = NoRun \/ (scRun'.at \in ScUnwritten /\ scRun'.id = scRun.id)
    <3>1. ScStages \/ ScMoves \/ ScReady => scRun'.at \in ScUnwritten /\ scRun'.id = scRun.id
      BY DEF ScStages, ScMoves, ScReady, ScmTypes, ScRunShape, ScUnwritten, ScRunStages
    <3>2. ScObserves \/ ScLoads => scRun'.at \in ScUnwritten /\ scRun'.id = scRun.id
      BY DEF ScObserves, ScLoads, ScmTypes, ScRunShape, ScUnwritten, ScRunStages
    <3>3. ScReconciles => scRun'.at \in ScUnwritten /\ scRun'.id = scRun.id
      BY DEF ScReconciles, ScmTypes, ScRunShape, ScUnwritten, ScRunStages
    <3>4. ScLists => scRun' = NoRun \/ (scRun'.at \in ScUnwritten /\ scRun'.id = scRun.id)
      BY DEF ScLists, ScmTypes, ScRunShape, ScUnwritten, ScRunStages
    <3> QED
      BY <1>5, <3>1, <3>2, <3>3, <3>4
  <2> QED
    BY <2>1, <2>2 DEF ScPhases, ScUnwritten, NoRun
<1>6. CASE ScWrites \/ ScRenames \/ ScMarksReady \/ ScCompletes
  <2>1. scRun.id \in ScIds /\ DOMAIN scCov = ScIds
    BY <1>6 DEF ScmTypes, ScWrites, ScRenames, ScMarksReady, ScCompletes
  <2>2. ScReportShape(scCov[scRun.id]) /\ ScReportShape(scRun.report)
    BY <2>1 DEF ScmTypes
  <2>3. ScWrites => scRun'.at = "covStaged" /\ scRun'.id = scRun.id /\ scCov'[scRun.id].at = "staged"
    BY <2>1, <2>2 DEF ScWrites, ScmTypes, ScRunShape, ScReportShape
  <2>4. ScRenames => scRun'.at = "covMoved" /\ scRun'.id = scRun.id /\ scCov'[scRun.id].at = "moved"
    BY <2>1, <2>2 DEF ScRenames, ScmTypes, ScRunShape, ScReportShape
  <2>5. ScMarksReady => scRun'.at = "covReady" /\ scRun'.id = scRun.id /\ scCov'[scRun.id].at = "ready"
    BY <2>1, <2>2 DEF ScMarksReady, ScmTypes, ScRunShape, ScReportShape
  <2>6. ScCompletes => scRun'.at = "pruning"
    BY DEF ScCompletes, ScmTypes, ScRunShape
  <2> QED
    BY <1>6, <2>3, <2>4, <2>5, <2>6 DEF ScPhases, ScUnwritten
<1>7. CASE ScPrunes
  BY <1>7 DEF ScPrunes, ScPhases, ScUnwritten
<1>8. CASE ScInventoryFails \/ ScEnds \/ ScWriteFails \/ ScDies
  BY <1>8 DEF ScInventoryFails, ScEnds, ScWriteFails, ScDies, NoRun, ScPhases, ScUnwritten
<1> QED
  BY <1>1, <1>2, <1>3, <1>4, <1>5, <1>6, <1>7, <1>8 DEF ScmNext

LEMMA NewestStay ==
    ASSUME ScmTypes, ScPhases, ScmNext, NEW i \in ScComplete, Cardinality(ScNewer(i)) < ScRetain
    PROVE  scCov'[i].at = "complete"
<1>1. i \in ScIds /\ scCov[i].at = "complete"
  BY DEF ScComplete
<1>2. i \notin ScDoomed
  BY DEF ScDoomed, ScKept
<1>3. CASE scCov' = scCov
  BY <1>1, <1>3
<1>4. CASE ScWrites \/ ScRenames \/ ScMarksReady \/ ScWriteFails
  <2>1. scRun.id # i
    BY <1>1, <1>4 DEF ScPhases, ScWrites, ScRenames, ScMarksReady, ScWriteFails, ScUnwritten, ScRunStages
  <2> QED
    BY <1>1, <1>4, <2>1 DEF ScWrites, ScRenames, ScMarksReady, ScWriteFails, ScmTypes
<1>5. CASE ScCompletes
  <2>1. scRun.id \in ScIds /\ ScReportShape(scCov[scRun.id]) /\ ScReportShape(scCov[i])
    BY <1>1, <1>5 DEF ScCompletes, ScmTypes
  <2>2. scCov' = [scCov EXCEPT ![scRun.id] = [scCov[scRun.id] EXCEPT !.at = "complete"]]
    BY <1>5 DEF ScCompletes
  <2> QED
    BY <1>1, <2>1, <2>2 DEF ScmTypes, ScReportShape
<1>6. CASE (ScPrunes \/ ScDies) /\ scCov' # scCov
  <2>1. \E j \in ScDoomed : \A k \in ScIds \ {j} : scCov'[k] = scCov[k]
    BY <1>6 DEF ScPrunes, ScDies, ScmTypes
  <2> QED
    BY <1>1, <1>2, <2>1
<1> QED
  BY <1>3, <1>4, <1>5, <1>6 DEF ScmNext, ScScanned, ScCollects, ScCollectFails, ScAges, ScBegin, ScResume,
     ScObserves, ScInventoryFails, ScStages, ScMoves, ScReady, ScLoads, ScLists, ScReconciles, ScEnds

(* The newest complete reports survive every step, a death inside the        *)
(* pruning included.  (mark_coverage_complete, prune_coverage_snapshots.)    *)
THEOREM NewestReportsKept == ScmSpec => ScmNewestKept
<1>1. ScmInit => ScmTypes /\ ScPhases
  <2>1. ScmInit => scRun.at = "idle"
    BY NoRunShape DEF ScmInit
  <2> QED
    BY <2>1, ScmInitTypes DEF ScPhases, ScUnwritten
<1>2. ScmTypes /\ [ScmNext]_scVars => ScmTypes'
  BY TypesStep
<1>3. ScmTypes /\ ScPhases /\ [ScmNext]_scVars =>
        [\A i \in ScComplete : Cardinality(ScNewer(i)) < ScRetain => scCov'[i].at = "complete"]_scVars
  BY NewestStay
<1> QED
  BY <1>1, <1>2, <1>3, PhasesStep, PTL DEF ScmSpec, ScmNewestKept

-----------------------------------------------------------------------------
(* The types of the coverage's state.                                      *)

\* The rows of a report are repositories of the inventory, each with one of
\* the verdicts.
ScRowsTyped(rep) ==
  DOMAIN rep.rows \subseteq ScRepos /\ \A r \in DOMAIN rep.rows : rep.rows[r].verdict \in ScVerdicts

ScReportsTyped == ScRowsTyped(scRun.report) /\ \A i \in ScIds : ScRowsTyped(scCov[i])

\* Between runs nothing is left of one; evidence is of what was listed.
ScRunKept(run) == (run.at = "idle" => run = NoRun) /\ DOMAIN run.evidence = run.listed

ScBounds == scFaults \in 0 .. ScMaxFaults /\ scChanges \in 0 .. ScMaxChanges

LEMMA NoReportTyped == ScRowsTyped(NoReport)
<1>1. NoReport.rows = <<>>
  BY DEF NoReport
<1> QED
  BY <1>1 DEF ScRowsTyped

LEMMA SameReportTyped == ASSUME NEW a, NEW b, SameReport(a, b), ScRowsTyped(b) PROVE ScRowsTyped(a)
  BY DEF SameReport, ScRowsTyped

LEMMA ClassifyTyped == \A r : ScClassify(r) \in ScVerdicts
<1>1. \A p : ScScanState(p) \in ScVerdicts
  BY DEF ScScanState, ScVerdicts
<1> QED
  BY <1>1 DEF ScClassify, ScVerdicts

LEMMA ReconciledTyped == ASSUME ScmTypes, ScReconciles PROVE ScRowsTyped(scRun'.report)
<1> DEFINE rows == [r \in scRun.inv.repos |-> [verdict |-> ScClassify(r), project |-> ScMap(r).project]]
<1>1. PICK failures, trusted, was, now : scRun' = [scRun EXCEPT !.at = "reconciled", !.report =
         [NoReport EXCEPT !.failures = failures, !.rows = rows, !.trusted = trusted, !.was = was, !.now = now]]
  BY DEF ScReconciles
<1>2. scRun.inv.repos \subseteq ScRepos
  BY DEF ScmTypes, ScInventoryShape
<1>3. DOMAIN rows \subseteq ScRepos /\ \A r \in DOMAIN rows : rows[r].verdict \in ScVerdicts
  BY <1>2, ClassifyTyped
<1> HIDE DEF rows
<1>4. scRun'.report.rows = rows
  <2> DEFINE report ==
        [NoReport EXCEPT !.failures = failures, !.rows = rows, !.trusted = trusted, !.was = was, !.now = now]
  <2>1. report.rows = rows
    BY DEF NoReport
  <2>2. scRun' = [scRun EXCEPT !.at = "reconciled", !.report = report]
    BY <1>1
  <2> HIDE DEF report
  <2>3. scRun'.report = report
    BY <2>2 DEF ScmTypes, ScRunShape
  <2> QED
    BY <2>1, <2>3
<1> QED
  BY <1>3, <1>4 DEF ScRowsTyped

LEMMA ReportsTypedStep == ASSUME ScmTypes, ScReportsTyped, [ScmNext]_scVars PROVE ScReportsTyped'
<1>1. ASSUME OneReportChanges, scRun'.report \in {scRun.report, NoReport} PROVE ScReportsTyped'
  <2>1. ScRowsTyped(scRun'.report)
    BY <1>1, NoReportTyped DEF ScReportsTyped
  <2>2. ASSUME NEW i \in ScIds PROVE ScRowsTyped(scCov'[i])
    BY <1>1, NoReportTyped, SameReportTyped DEF ScReportsTyped, OneReportChanges
  <2>3. (ScRowsTyped(scRun.report))' /\ \A i \in ScIds : (ScRowsTyped(scCov[i]))'
    BY <2>1, <2>2 DEF ScRowsTyped
  <2> QED
    BY <2>3 DEF ScReportsTyped
<1>2. CASE UNCHANGED scVars
  BY <1>1, <1>2 DEF scVars, OneReportChanges
<1>3. CASE (\E v \in ScVersions : ScScanned(v)) \/ ScAges
  BY <1>1, <1>3, WorldTypes DEF OneReportChanges
<1>4. CASE \E v \in ScVersions : ScCollects(v) \/ ScCollectFails(v)
  BY <1>1, <1>4, CollectTypes DEF OneReportChanges
<1>5. CASE ScReads
  <2>1. UNCHANGED scCov
    BY <1>5, ReadTypes
  <2>2. CASE ScReconciles
    <3>1. ScRowsTyped(scRun'.report) /\ \A i \in ScIds : ScRowsTyped(scCov'[i])
      BY <2>1, <2>2, ReconciledTyped DEF ScReportsTyped
    <3>2. (ScRowsTyped(scRun.report))' /\ \A i \in ScIds : (ScRowsTyped(scCov[i]))'
      BY <3>1 DEF ScRowsTyped
    <3> QED
      BY <3>2 DEF ScReportsTyped
  <2>3. CASE ~ScReconciles
    <3>1. ScObserves \/ ScLoads => scRun'.report = scRun.report
      BY DEF ScObserves, ScLoads, ScmTypes, ScRunShape
    <3>2. ASSUME NEW i \in ScIds, NEW source \in ScSources, NEW max \in ScCuts,
                 ScBegin(i, source, max) \/ ScResume(i, source, max)
          PROVE  scRun'.report = NoReport
      BY <3>2 DEF ScBegin, ScResume, NoRun
    <3>3. ScInventoryFails \/ ScEnds => scRun'.report = NoReport
      BY DEF ScInventoryFails, ScEnds, NoRun
    <3>4. scRun'.report \in {scRun.report, NoReport}
      BY <1>5, <2>3, <3>1, <3>2, <3>3 DEF ScReads
    <3> QED
      BY <1>1, <2>1, <3>4 DEF OneReportChanges
  <2> QED
    BY <2>2, <2>3
<1>6. CASE ScLists
  BY <1>1, <1>6, ListTypes DEF OneReportChanges
<1>7. CASE ScStages \/ ScMoves \/ ScReady
  <2>1. scCov' = scCov
    BY <1>7, InventoryWriteTypes
  <2>2. scRun'.report = scRun.report
    BY <1>7 DEF ScStages, ScMoves, ScReady, ScmTypes, ScRunShape
  <2> QED
    BY <1>1, <2>1, <2>2 DEF OneReportChanges
<1>8. CASE ScPublishes
  BY <1>1, <1>8, PublishTypes
<1>9. CASE ScWriteFails \/ ScDies
  <2>1. OneReportChanges /\ scRun'.report = NoReport
    BY <1>9, BreakTypes DEF NoRun
  <2> QED
    BY <1>1, <2>1
<1> QED
  BY <1>2, <1>3, <1>4, <1>5, <1>6, <1>7, <1>8, <1>9 DEF ScmNext, ScReads, ScPublishes

LEMMA RunKeptStep == ASSUME ScmTypes, ScRunKept(scRun), [ScmNext]_scVars PROVE (ScRunKept(scRun))'
<1>0. ScRunShape(scRun)
  BY DEF ScmTypes
<1>1. ASSUME scRun'.at # "idle", scRun'.listed = scRun.listed, scRun'.evidence = scRun.evidence
      PROVE  (ScRunKept(scRun))'
  BY <1>1 DEF ScRunKept
<1>2. ASSUME scRun'.at # "idle", scRun'.listed = {}, scRun'.evidence = <<>> PROVE (ScRunKept(scRun))'
  BY <1>2 DEF ScRunKept
<1>3. CASE scRun' = scRun
  BY <1>3 DEF ScRunKept
<1>4. CASE scRun' = NoRun
  <2>1. NoRun.evidence = <<>> /\ NoRun.listed = {}
    BY DEF NoRun
  <2> QED
    BY <1>4, <2>1 DEF ScRunKept
<1>5. CASE \E v \in ScVersions : ScCollects(v) \/ ScCollectFails(v)
  <2>1. PICK v \in ScVersions : ScCollects(v) \/ ScCollectFails(v)
    BY <1>5
  <2>7. \E e, failures : scRun' = [scRun EXCEPT !.evidence[v] = e, !.bdFailures = failures]
    <3>1. CASE ScCollectFails(v)
      BY <3>1 DEF ScCollectFails
    <3>2. CASE ScCollects(v)
      <4>1. PICK e : scRun' = [scRun EXCEPT !.evidence[v] = e]
        BY <3>2 DEF ScCollects
      <4>2. scRun' = [scRun EXCEPT !.evidence[v] = e, !.bdFailures = scRun.bdFailures]
        BY <1>0, <4>1 DEF ScRunShape
      <4> QED
        BY <4>2
    <3> QED
      BY <2>1, <3>1, <3>2
  <2>6. PICK e, failures : scRun' = [scRun EXCEPT !.evidence[v] = e, !.bdFailures = failures]
    BY <2>7
  <2> DEFINE evidence == [scRun.evidence EXCEPT ![v] = e]
  <2>2. DOMAIN evidence = DOMAIN scRun.evidence
    OBVIOUS
  <2>3. scRun' = [scRun EXCEPT !.evidence = evidence, !.bdFailures = failures]
    BY <2>6
  <2> HIDE DEF evidence
  <2>4. scRun'.at = scRun.at /\ scRun'.listed = scRun.listed /\ scRun'.evidence = evidence
    BY <1>0, <2>3 DEF ScRunShape
  <2>5. scRun.at = "listed"
    BY <1>5 DEF ScCollects, ScCollectFails
  <2> QED
    BY <2>2, <2>4, <2>5 DEF ScRunKept
<1>6. CASE \E i \in ScIds, source \in ScSources, max \in ScCuts : ScBegin(i, source, max) \/ ScResume(i, source, max)
  <2>1. scRun'.at # "idle" /\ scRun'.listed = {} /\ scRun'.evidence = <<>>
    <3>1. PICK i \in ScIds, source \in ScSources, max \in ScCuts :
            ScBegin(i, source, max) \/ ScResume(i, source, max)
      BY <1>6
    <3>2. PICK at \in {"inventory", "published"} :
            scRun' = [NoRun EXCEPT !.at = at, !.id = i, !.source = source, !.max = max]
      BY <3>1 DEF ScBegin, ScResume
    <3> QED
      BY <3>2 DEF NoRun
  <2> QED
    BY <1>2, <2>1
<1>7. CASE ScObserves \/ ScLoads \/ ScStages \/ ScMoves \/ ScReady
  <2>1. scRun'.at # "idle" /\ scRun'.listed = scRun.listed /\ scRun'.evidence = scRun.evidence
    BY <1>0, <1>7 DEF ScObserves, ScLoads, ScStages, ScMoves, ScReady, ScRunShape
  <2> QED
    BY <1>1, <2>1
<1>8. CASE ScReconciles
  <2>1. \E report : scRun' = [scRun EXCEPT !.at = "reconciled", !.report = report]
    BY <1>8 DEF ScReconciles
  <2>2. PICK report : scRun' = [scRun EXCEPT !.at = "reconciled", !.report = report]
    BY <2>1
  <2>3. scRun'.at # "idle" /\ scRun'.listed = scRun.listed /\ scRun'.evidence = scRun.evidence
    BY <1>0, <2>2 DEF ScRunShape
  <2> QED
    BY <1>1, <2>3
<1>9. CASE ScLists
  <2>1. CASE scRun' = NoRun
    BY <1>4, <2>1
  <2>2. CASE scRun' # NoRun
    <3>1. PICK unread \in SUBSET ScProjects :
            scRun' = [scRun EXCEPT !.at = "listed", !.listed = ScListed(unread).versions,
                        !.bdFailures = ScListed(unread).failures, !.was = scWorld.scans,
                        !.evidence = [v \in ScListed(unread).versions |-> ScFirstEvidence(v)]]
      BY <1>9, <2>2 DEF ScLists
    <3> DEFINE listed == ScListed(unread).versions
               failures == ScListed(unread).failures
               evidence == [v \in listed |-> ScFirstEvidence(v)]
    <3>2. DOMAIN evidence = listed
      OBVIOUS
    <3> HIDE DEF listed, failures, evidence
    <3>3. scRun' = [scRun EXCEPT !.at = "listed", !.listed = listed, !.bdFailures = failures,
                      !.was = scWorld.scans, !.evidence = evidence]
      BY <3>1 DEF listed, failures, evidence
    <3>4. scRun'.at = "listed" /\ scRun'.listed = listed /\ scRun'.evidence = evidence
      BY <1>0, <3>3 DEF ScRunShape
    <3> QED
      BY <3>2, <3>4 DEF ScRunKept
  <2> QED
    BY <2>1, <2>2
<1>10. CASE ScWrites \/ ScRenames \/ ScMarksReady \/ ScCompletes
  <2>1. \E at \in {"covStaged", "covMoved", "covReady", "pruning"} : scRun' = [scRun EXCEPT !.at = at]
    BY <1>10 DEF ScWrites, ScRenames, ScMarksReady, ScCompletes
  <2>2. scRun'.at # "idle" /\ scRun'.listed = scRun.listed /\ scRun'.evidence = scRun.evidence
    BY <1>0, <2>1 DEF ScRunShape
  <2> QED
    BY <1>1, <2>2
<1>11. CASE ScInventoryFails \/ ScEnds \/ ScWriteFails \/ ScDies
  BY <1>4, <1>11 DEF ScInventoryFails, ScEnds, ScWriteFails, ScDies
<1>12. CASE (\E v \in ScVersions : ScScanned(v)) \/ ScAges \/ ScPrunes
  BY <1>3, <1>12 DEF ScScanned, ScAges, ScPrunes
<1>13. CASE UNCHANGED scVars
  BY <1>3, <1>13 DEF scVars
<1> QED
  BY <1>5, <1>6, <1>7, <1>8, <1>9, <1>10, <1>11, <1>12, <1>13 DEF ScmNext

LEMMA ScBoundsStep == ASSUME ScBounds, [ScmNext]_scVars PROVE ScBounds'
<1>0. ScMaxFaults \in Nat /\ ScMaxChanges \in Nat
  BY ScmAssumption
<1>1. ASSUME scChanges' = scChanges, scFaults' = scFaults \/ ScFault PROVE ScBounds'
  BY <1>0, <1>1 DEF ScBounds, ScFault
<1>2. CASE (\E v \in ScVersions : ScScanned(v)) \/ ScAges
  BY <1>0, <1>2 DEF ScScanned, ScAges, ScBounds
<1>3. CASE \E v \in ScVersions : ScCollects(v) \/ ScCollectFails(v)
  BY <1>1, <1>3 DEF ScCollects, ScCollectFails
<1>4. CASE \E i \in ScIds, source \in ScSources, max \in ScCuts : ScBegin(i, source, max) \/ ScResume(i, source, max)
  BY <1>1, <1>4 DEF ScBegin, ScResume
<1>5. CASE ScObserves \/ ScInventoryFails \/ ScStages \/ ScMoves \/ ScReady \/ ScLoads
  <2>1. scChanges' = scChanges /\ (scFaults' = scFaults \/ ScFault)
    BY <1>5 DEF ScObserves, ScInventoryFails, ScStages, ScMoves, ScReady, ScLoads
  <2> QED
    BY <1>1, <2>1
<1>6. CASE ScLists
  <2>1. scChanges' = scChanges /\ (scFaults' = scFaults \/ ScFault)
    BY <1>6 DEF ScLists
  <2> QED
    BY <1>1, <2>1
<1>7. CASE ScReconciles \/ ScWrites \/ ScRenames \/ ScMarksReady \/ ScCompletes \/ ScPrunes \/ ScEnds
  <2>1. scChanges' = scChanges /\ scFaults' = scFaults
    BY <1>7 DEF ScReconciles, ScWrites, ScRenames, ScMarksReady, ScCompletes, ScPrunes, ScEnds
  <2> QED
    BY <1>1, <2>1
<1>8. CASE ScWriteFails \/ ScDies
  <2>1. scChanges' = scChanges /\ ScFault
    BY <1>8 DEF ScWriteFails, ScDies
  <2> QED
    BY <1>1, <2>1
<1>9. CASE UNCHANGED scVars
  BY <1>1, <1>9 DEF scVars
<1> QED
  BY <1>2, <1>3, <1>4, <1>5, <1>6, <1>7, <1>8, <1>9 DEF ScmNext

LEMMA ScmFirstTypes == ScmInit => ScReportsTyped /\ ScRunKept(scRun) /\ ScBounds
<1> SUFFICES ASSUME ScmInit PROVE ScReportsTyped /\ ScRunKept(scRun) /\ ScBounds
  OBVIOUS
<1>1. scRun = NoRun /\ NoRun.report = NoReport /\ NoRun.evidence = <<>> /\ NoRun.listed = {}
  BY DEF ScmInit, NoRun
<1>2. \A i \in ScIds : scCov[i].rows = <<>>
  BY DEF ScmInit, NoReport
<1>3. ScReportsTyped
  BY <1>1, <1>2, NoReportTyped DEF ScReportsTyped, ScRowsTyped
<1>4. ScRunKept(scRun)
  BY <1>1 DEF ScRunKept
<1>5. ScBounds
  <2>1. scFaults = 0 /\ scChanges = 0
    BY DEF ScmInit
  <2>2. ScMaxFaults \in Nat /\ ScMaxChanges \in Nat
    BY ScmAssumption
  <2> QED
    BY <2>1, <2>2 DEF ScBounds
<1> QED
  BY <1>3, <1>4, <1>5

(* The state of the SCM coverage is well-formed: snapshots are about       *)
(* repositories there are, every row has one of the verdicts, evidence is  *)
(* kept for exactly the versions that were listed, and a run that ended    *)
(* leaves nothing (reconcile_coverage, collect_version_evidence,           *)
(* write_inventory_snapshot).                                              *)
THEOREM ScmWellTyped == ScmSpec => []ScmTypeOK
<1> DEFINE Typed == ScReportsTyped /\ ScRunKept(scRun) /\ ScBounds
<1>1. ScmTypes /\ Typed => ScmTypeOK
  <2> SUFFICES ASSUME ScmTypes, Typed PROVE ScmTypeOK
    OBVIOUS
  <2>1. scWorld.scans \in [ScVersions -> ScScans]
    BY DEF ScmTypes, ScWorldType
  <2>2. \A i \in ScIds : scInv[i].at \in {"none", "staged", "moved", "ready"} /\ scInv[i].repos \subseteq ScRepos
    BY DEF ScmTypes, ScInventoryShape
  <2>3. \A i \in ScIds : scCov[i].at \in {"none", "staged", "moved", "ready", "complete"}
    BY DEF ScmTypes, ScReportShape, ScReportStages
  <2>4. scRun.listed \subseteq ScVersions /\ (scRun.at # "idle" => scRun.id \in ScIds)
    BY DEF ScmTypes, ScRunShape
  <2> QED
    BY <2>1, <2>2, <2>3, <2>4 DEF ScmTypeOK, ScReportsTyped, ScRowsTyped, ScRunKept, ScBounds
<1>2. ScmInit => ScmTypes /\ Typed
  BY ScmInitTypes, ScmFirstTypes
<1>3. (ScmTypes /\ Typed) /\ [ScmNext]_scVars => (ScmTypes /\ Typed)'
  <2> SUFFICES ASSUME ScmTypes, Typed, [ScmNext]_scVars PROVE (ScmTypes /\ Typed)'
    OBVIOUS
  <2>1. ScmTypes'
    BY TypesStep
  <2>2. ScReportsTyped' /\ (ScRunKept(scRun))' /\ ScBounds'
    BY ReportsTypedStep, RunKeptStep, ScBoundsStep
  <2> QED
    BY <2>1, <2>2
<1>4. ScmSpec => [](ScmTypes /\ Typed)
  <2> HIDE DEF Typed
  <2> QED
    BY <1>2, <1>3, PTL DEF ScmSpec
<1> QED
  BY <1>1, <1>4, PTL

-----------------------------------------------------------------------------
(* Side by side all services keep their types and limits: the publishers   *)
(* (apply_max_send, process_hierarchy_plan, publish, walk_subprojects),    *)
(* the pipeline's workflow (run_pipeline), the collections                 *)
(* (policy_vuln_find.py, policy_vuln_pull.py, load_target_candidates,      *)
(* put_items) and the inventory with its providers (execute_coverage,      *)
(* _discover_payload, inventory.py of GitLab).                             *)
THEOREM ServicesWellTyped ==
  /\ DatadogSpec /\ JiraSpec /\ WorkflowSpec /\ ProductSpec /\ PolicySpec /\ CipSpec
  /\ ReadCacheSpec /\ ScmSpec /\ GitHubSpec /\ GitLabSpec /\ RollupSpec
  => []ServicesTypeOK
<1>1. DatadogSpec /\ JiraSpec /\ ProductSpec /\ RollupSpec =>
        [](DatadogTypeOK /\ JiraTypeOK /\ ProductTypeOK /\ RollupTypeOK)
  BY DatadogWellTyped, JiraWellTyped, ProductWellTyped, RollupWellTyped, PTL
<1>2. WorkflowSpec /\ PolicySpec /\ CipSpec /\ ReadCacheSpec =>
        [](WorkflowTypeOK /\ PolicyTypeOK /\ CipTypeOK /\ ReadCacheTypeOK)
  BY WorkflowWellTyped, PolicyWellTyped, CipWellTyped, CacheWellTyped, PTL
<1>3. ScmSpec /\ GitHubSpec /\ GitLabSpec => [](ScmTypeOK /\ GitHubTypeOK /\ GitLabTypeOK)
  BY ScmWellTyped, GitHubWellTyped, GitLabWellTyped, PTL
<1>4. /\ DatadogTypeOK /\ JiraTypeOK /\ ProductTypeOK /\ RollupTypeOK
      /\ WorkflowTypeOK /\ PolicyTypeOK /\ CipTypeOK /\ ReadCacheTypeOK
      /\ ScmTypeOK /\ GitHubTypeOK /\ GitLabTypeOK
      => ServicesTypeOK
  BY DEF ServicesTypeOK
<1> QED
  BY <1>1, <1>2, <1>3, <1>4, PTL
=============================================================================
