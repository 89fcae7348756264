------------------------------ MODULE MCServices ------------------------------
(***************************************************************************)
(* The services that publish and collect, model-checked side by side: a    *)
(* scene picks one of them in the initial state, the others stand still.   *)
(***************************************************************************)
EXTENDS Services

CONSTANT Scenes     \* the services of this run

VARIABLE scene

MCDDCount == [kind \in DDKindSet |-> IF kind = "finding" THEN 2 ELSE 1]
MCAllInOne == [f \in 1 .. 2 |-> 1]
MCParent == [n \in 1 .. 3 |-> n - 1]
MCEpic == [n \in 1 .. 2 |-> n - 1]
MCProjectOf == [v \in 1 .. 3 |-> v]
MCBoms == <<{{3}, {2, 3}}, {{}, {3}}, {{}}>>
MCCommands ==
  [strict : BOOLEAN, empty : {FALSE}, apply : {TRUE}, preflight : {FALSE}]
  \cup [strict : {TRUE}, empty : {TRUE}, apply : {FALSE}, preflight : {TRUE}]

MCOccurrences == << <<{1}, {}, {1, 2}>>, <<{2}>>, <<{1}, {2}>> >>
MCFixedAt == <<{1}, {2}>>

MCSelected == [policy |-> "compliant", workflow |-> "compliant", branch |-> "compliant"]
MCScmVersions == <<{1, 2}, {3}>>
MCClaim(id, url, name) == [id |-> id, url |-> url, name |-> name]
MCNoFile == [covers |-> {}, complete |-> FALSE, scans |-> <<"none", "none", "none">>]
MCFullFile == [covers |-> {1, 2, 3}, complete |-> TRUE, scans |-> <<"stale", "current", "none">>]
MCWorld(claims, explicit, branch, scans, file) ==
  [claims |-> claims, explicit |-> explicit,
   controls |-> <<MCSelected, [MCSelected EXCEPT !.branch = branch]>>, scans |-> scans,
   file |-> file]
MCWorlds ==
  {MCWorld(<<MCClaim(1, 0, 0), MCClaim(0, 2, 0)>>, <<0, 0>>, "failed", <<"stale", "started", "none">>, MCFullFile),
   MCWorld(<<MCClaim(1, 0, 2), MCClaim(0, 1, 2)>>, <<0, 2>>, "compliant", <<"none", "undated", "none">>, MCNoFile),
   MCWorld(<<MCClaim(0, 0, 2), MCClaim(0, 1, 0)>>, <<0, 0>>, "compliant", <<"none", "current", "none">>, MCNoFile)}

MCGitHubNames == <<2, 3, 4, 0>>
MCRulesets ==
  <<[targets |-> TRUE, workflow |-> TRUE, branch |-> FALSE],
    [targets |-> TRUE, workflow |-> TRUE, branch |-> TRUE]>>
MCFirstRules == {<<"evaluate", "active">>}

MCGitLabPaths == <<3, 2, 1, 0>>
MCTree(root, file) == [root |-> root, file |-> file]
MCFirstHeads ==
  {<<MCTree("includes", "marker"), MCTree("plain", "marker"), MCTree("marker", "plain"), NoBranch>>,
   <<MCTree("includes", "missing"), MCTree("odd", "plain"), MCTree("marker", "plain"), NoBranch>>}
MCTrees == UNION {Range(heads) : heads \in MCFirstHeads}

MCRollupProjects == <<1, 2, 3, 2>>
MCFinding(component, vulnerability) == [component |-> component, vulnerability |-> vulnerability]
MCRollupFindings ==
  <<{MCFinding("a", "x")}, {MCFinding("a", "x")}, {}, {MCFinding("a", "x"), MCFinding("b", "y")}>>
MCAdded == {<<1, 2>>, <<1, 3>>, <<2, 3>>, <<3, 4>>, <<4, 1>>}
MCMayBeAdded == {<<2, 4>>}
MCByNameAlone == {<<1, 3>>}
MCRollup(csv, depth, resolve, entity) ==
  [csv |-> csv, root |-> 1, depth |-> depth, resolve |-> resolve, entity |-> entity]
MCRollups ==
  {MCRollup(FALSE, 2, TRUE, FALSE), MCRollup(FALSE, 2, FALSE, TRUE), MCRollup(TRUE, 1, FALSE, TRUE)}

-----------------------------------------------------------------------------
\* All but one service stand still.
Only(service) ==
  /\ UNCHANGED scene
  /\ IF service = "datadog" THEN TRUE ELSE UNCHANGED ddVars
  /\ IF service = "jira" THEN TRUE ELSE UNCHANGED jpVars
  /\ IF service \in {"discovery", "workflow"} THEN TRUE ELSE UNCHANGED dsVars
  /\ IF service = "workflow" THEN TRUE ELSE UNCHANGED pwVars
  /\ IF service = "product" THEN TRUE ELSE UNCHANGED ppVars
  /\ IF service = "policy" THEN TRUE ELSE UNCHANGED pvVars
  /\ IF service = "cip" THEN TRUE ELSE UNCHANGED csVars
  /\ IF service = "cache" THEN TRUE ELSE UNCHANGED rcVars
  /\ IF service = "coverage" THEN TRUE ELSE UNCHANGED scVars
  /\ IF service = "github" THEN TRUE ELSE UNCHANGED ghVars
  /\ IF service = "gitlab" THEN TRUE ELSE UNCHANGED glVars
  /\ IF service = "rollup" THEN TRUE ELSE UNCHANGED ruVars

\* The workflow meets one fault, and no change of a bill of materials.
WorkflowBound == dsFaults' <= 1 /\ dsChanges' = 0

\* Faults and changes of the publishers together.
DatadogBound == ddChanges' + ddFaults' <= 3
JiraBound == jpChanges' + jpFaults' <= 2

\* Providers meet faults or changes, and a third change only where a listing
\* may lose a repository by it.
GitHubBound ==
  /\ ghFaults' = 0 \/ ghChanges' = 0
  /\ ghChanges' \in {ghChanges, 1, 2} \/ (ghRun.at = "listing" /\ ghPast'.created /\ ghPast'.renamed)
  /\ ghRun.at \in {"tenant", "listing"} => ghChosen' \in {ghChosen, {}} /\ ghRules' = ghRules
GitLabBound == glFaults' + glChanges' <= 2

\* The roll-up meets a fault or a change, and no change where none is read.
RollupBound ==
  /\ ruFaults' + ruChanges' <= 1
  /\ ruChanges' # ruChanges => ruRun.at \in {"idle", "walk"}

\* The finder and the puller run one after the other; faults come after the
\* changes, the second version alone may be no candidate at first, and
\* failures are left unmerged only where there are some.
PolicyRest == \A k \in PVShardIds : pvPull[k] = "idle"

MCInit ==
  /\ scene \in Scenes
  /\ DatadogInit /\ (scene # "datadog" => ddArgs = CHOOSE a \in DDArgs : TRUE)
  /\ JiraInit /\ (scene # "jira" => jpFlat /\ jpArgs = CHOOSE a \in JPArgs : TRUE)
  /\ WorkflowInit /\ (scene = "workflow" => pwArgs[2].strict /\ pwArgs[2].apply)
  /\ scene # "discovery" => dsBom[1] = {3}
  /\ scene \notin {"discovery", "workflow"} => dsBom[2] = {}
  /\ scene # "workflow" => \A r, q \in PWRuns : pwArgs[r] = pwArgs[q] /\ pwArgs[r].strict /\ pwArgs[r].empty
  /\ ProductInit
  /\ PolicyInit /\ pvNow[1] = 1 /\ (scene # "policy" => pvNow[2] = 1)
  /\ CipInit
  /\ ReadCacheInit
  /\ ScmInit /\ (scene # "coverage" => scWorld = CHOOSE w \in ScWorlds : TRUE)
  /\ GitHubInit /\ (scene # "github" => ghChosen = {Min(Existing)})
  /\ GitLabInit /\ (scene # "gitlab" => glHead = CHOOSE heads \in GLFirstHeads : TRUE)
  /\ RollupInit

DatadogStep ==
  \/ DDChange
  \/ DDBegin
  \/ \E e \in DDEvents : DDAccepted(e)
  \/ \E e \in DDEvents : DDLost(e)
  \/ \E e \in DDEvents : DDRefused(e)
  \/ \E e \in DDEvents : DDOddAnswer(e)
  \/ DDCheckpointSaves
  \/ DDLoopEnds
  \/ DDFinish
  \/ DDCrash

JiraStep ==
  \/ JPChange
  \/ JPBegin
  \/ JPPrepare
  \/ JPLookup
  \/ JPLookupFails
  \/ JPSkipCached
  \/ JPAdopt
  \/ JPSkipCreate
  \/ JPCreate
  \/ JPMove
  \/ JPLink
  \/ JPSave
  \/ JPCreateNoKey
  \/ JPCreateLost
  \/ JPCreateRefused
  \/ JPCreateDies
  \/ JPCrash
  \/ JPIndex

DiscoveryStep ==
  \/ DSChangeBom
  \/ DSAge
  \/ DSInventory
  \/ \E v \in DSVersions : DSScan(v)
  \/ DSFinish
  \/ DSStops

WorkflowStep ==
  \/ PWWorld
  \/ \E r \in PWRuns :
       \/ PWStart(r)
       \/ PWEnter(r)
       \/ PWLockedOut(r)
       \/ PWPreflight(r)
       \/ PWDiscovers(r)
       \/ PWDiscovered(r)
       \/ PWCountsRows(r)
       \/ PWCollects(r)
       \/ PWVets(r)
       \/ PWPlans(r)
       \/ PWPublishes(r)
       \/ PWPublishFails(r)
       \/ PWPromotes(r)
       \/ PWFinishes(r)
       \/ PWPrunes(r)
       \/ PWFails(r)
       \/ PWRecords(r)
       \/ PWDies(r)

ProductStep ==
  \/ PPBegin
  \/ PPRefuses
  \/ PPPasses
  \/ PPAdopt
  \/ PPSkip
  \/ PPAnnounce
  \/ PPPost
  \/ PPPostLost
  \/ PPRecord
  \/ PPDies
  \/ PPJiraMoves
  \/ PPCleared

PolicyStep ==
  \/ PVChange /\ PolicyRest /\ pvFaults = 0
  \/ PVAge /\ PolicyRest /\ pvFaults = 0 /\ pvChanges = 1
  \/ PVBegin /\ PolicyRest
  \/ PVScanEnds
  \/ PVWritesOut
  \/ PVTriggers
  \/ PVSaves
  \/ PVFindDies
  \/ \E v \in PVVersions : PVScan(v)
  \/ \E v \in PVVersions : PVScanFails(v)
  \/ PVPull /\ pvFind = "idle"
  \/ PVEnds /\ (pvFinal'.merged \/ \E k \in PVActive : pvShardOut[PVFileOf(k)].failed # {})
  \/ \E k \in PVShardIds, v \in PVVersions : PVPulls(k, v)
  \/ \E k \in PVShardIds : PVPulled(k)
  \/ \E k \in PVShardIds : PVWritesFindings(k)
  \/ \E k \in PVShardIds : PVWritesFailures(k)
  \/ \E k \in PVShardIds : PVPullDies(k)

CipStep ==
  \/ CSRevise
  \/ CSDecide
  \/ CSBegin
  \/ CSPage
  \/ CSPageFails
  \/ CSSavesCursors
  \/ CSAssess
  \/ CSReadStates
  \/ CSWritesPlan
  \/ CSCrash

CacheStep ==
  \/ \E r \in RCReaders : RCAsk(r)
  \/ \E r \in RCReaders : RCFirstLook(r)
  \/ \E r \in RCReaders : RCJoin(r)
  \/ \E r \in RCReaders : RCSecondLook(r)
  \/ \E r \in RCReaders : RCLoads(r)
  \/ \E r \in RCReaders : RCLoadFails(r)
  \/ \E r \in RCReaders : RCPut(r)
  \/ \E r \in RCReaders : RCResolves(r)
  \/ \E r \in RCReaders : RCCleans(r)
  \/ \E r \in RCReaders : RCReturns(r)
  \/ RCAges
  \/ RCSaves
  \/ RCRestarts

CoverageStep ==
  \/ ScAges
  \/ ScObserves
  \/ ScInventoryFails
  \/ ScStages
  \/ ScMoves
  \/ ScReady
  \/ ScLoads
  \/ ScLists
  \/ ScReconciles
  \/ ScWrites
  \/ ScRenames
  \/ ScMarksReady
  \/ ScCompletes
  \/ ScPrunes
  \/ ScEnds
  \/ ScWriteFails
  \/ ScDies
  \/ \E v \in ScVersions : ScScanned(v)
  \/ \E v \in ScVersions : ScCollects(v)
  \/ \E v \in ScVersions : ScCollectFails(v)
  \/ \E i \in ScIds, source \in ScSources, max \in ScCuts : ScBegin(i, source, max)
  \/ \E i \in ScIds, source \in ScSources, max \in ScCuts : ScResume(i, source, max)

GitHubStep ==
  \/ \E r \in GHIds : GHDeletes(r)
  \/ \E r \in GHIds, name \in 1 .. GHNames : GHCreates(r, name)
  \/ \E r \in GHIds, name \in 1 .. GHNames : GHRenames(r, name)
  \/ \E r \in GHIds : GHSelects(r)
  \/ \E k \in GHRuleIds, e \in GHEnforcements : GHRules(k, e)
  \/ GHRetried
  \/ GHBegin
  \/ GHTenant
  \/ GHGivesUp
  \/ GHPage
  \/ GHMaps
  \/ \E usable \in BOOLEAN : GHSchema(usable)
  \/ GHValues
  \/ \E status \in {"failed", "unsupported"} : GHPropertiesFail(status)
  \/ GHRulesetList
  \/ GHRulesetDetail
  \/ \E status \in {"failed", "unsupported"} : GHRulesetsFail(status)
  \/ GHWorkflows
  \/ GHControls

GitLabStep ==
  \/ \E p \in GLIds : GLDeletes(p)
  \/ \E p \in GLIds : GLTransfers(p)
  \/ \E p \in GLIds, path \in 1 .. GLPaths : GLCreates(p, path)
  \/ \E p \in GLIds, path \in 1 .. GLPaths : GLMoves(p, path)
  \/ \E p \in GLIds, tree \in GLTrees \ {NoBranch} : GLPushes(p, tree)
  \/ \E p \in GLIds : GLProtects(p)
  \/ \E limit \in GLFileLimits : GLBegin(limit)
  \/ \E lost \in SUBSET GLIds : GLGraphPage(lost)
  \/ GLGraphFails
  \/ GLRestPage
  \/ GLRestFails
  \/ GLListed
  \/ \E i \in DOMAIN glRun.mapped : GLMap(i)
  \/ \E i \in DOMAIN glRun.mapped : GLMapFails(i)
  \/ GLInventory
  \/ \E p \in GLIds : GLReadsRoot(p)
  \/ \E p \in GLIds : GLOddInclude(p)
  \/ \E p \in GLIds : GLReadsInclude(p)
  \/ \E p \in GLIds : GLReadFails(p)
  \/ \E p \in GLIds : GLReadsBranch(p)
  \/ \E p \in GLIds : GLBranchFails(p)
  \/ GLControls

RollupStep ==
  \/ RUAdds
  \/ RURemoves
  \/ RURenames
  \/ RURelists
  \/ RUBegin
  \/ RUWalked
  \/ RUTooDeep
  \/ \E lost \in SUBSET RUVersions : RUVisits(lost)
  \/ \E lost \in SUBSET RUVersions : RULoads(lost)
  \/ \E c \in RUVersions, blank \in BOOLEAN : RUTargetFails(c, blank)
  \/ \E c \in RUVersions : \E lost, unnamed \in SUBSET {f.component : f \in RUFindings[c]} :
       RUCollects(c, lost, unnamed)
  \/ RUWritesFindings
  \/ RUWritesFailures
  \/ RUPlan
  \/ RUDies

MCNext ==
  \/ scene = "datadog" /\ DatadogStep /\ DatadogBound /\ Only("datadog")
  \/ scene = "jira" /\ JiraStep /\ JiraBound /\ Only("jira")
  \/ scene = "discovery" /\ DiscoveryStep /\ Only("discovery")
  \/ scene = "workflow" /\ WorkflowStep /\ WorkflowBound /\ Only("workflow")
  \/ scene = "product" /\ ProductStep /\ Only("product")
  \/ scene = "policy" /\ PolicyStep /\ Only("policy")
  \/ scene = "cip" /\ CipStep /\ Only("cip")
  \/ scene = "cache" /\ CacheStep /\ Only("cache")
  \/ scene = "coverage" /\ CoverageStep /\ Only("coverage")
  \/ scene = "github" /\ GitHubStep /\ GitHubBound /\ Only("github")
  \/ scene = "gitlab" /\ GitLabStep /\ GitLabBound /\ Only("gitlab")
  \/ scene = "rollup" /\ RollupStep /\ RollupBound /\ Only("rollup")

MCVars ==
  <<scene, ddVars, jpVars, dsVars, pwVars, ppVars, pvVars, csVars, rcVars, scVars, ghVars, glVars,
    ruVars>>

\* The fairness of each service, as its module states it.
MCFairness ==
  /\ WF_ddVars(scene = "datadog" /\ DDProgress)
  /\ WF_jpVars(scene = "jira" /\ JPProgress) /\ WF_jpVars(scene = "jira" /\ JPIndex)
  /\ WF_dsVars(scene = "discovery" /\ DSRun) /\ SF_dsVars(scene = "discovery" /\ DSAge)
  /\ WF_csVars(scene = "cip" /\ CSPlanning)
  /\ \A r \in RCReaders : WF_rcVars(scene = "cache" /\ RCGoesOn(r))

MCSpec == MCInit /\ [][MCNext]_MCVars /\ MCFairness

-----------------------------------------------------------------------------
\* Once faults and changes are over, every service comes to rest where its
\* module says: what is to be published is out, the parent cache is true, no
\* read is waiting.
Settled ==
  /\ scene = "datadog" => DatadogSettled
  /\ scene = "jira" => JiraSettled
  /\ scene = "discovery" => DiscoverySettled
  /\ scene = "cache" => ReadCacheSettled

ServicesSettle == <>[]Settled

\* The plans come round to every target (CipScan).
TargetsPlanned == scene = "cip" => CipEveryTargetPlanned

\* The scan of a CIP target comes to every occurrence (CipScan).
OccurrencesAssessed == scene = "cip" => CipEveryOccurrenceAssessed

=============================================================================
