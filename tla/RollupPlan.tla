------------------------------ MODULE RollupPlan ------------------------------
(***************************************************************************)
(* The roll-up of the vulnerabilities of added subprojects to their        *)
(* parents (jira/subp_vuln_rollup.py) on the shared collector              *)
(* (jira/collection.py, blackduck/collector.py), and the hierarchy plan    *)
(* made of its findings (jira/findings_hierarchy_plan.py).  The parent's   *)
(* relationships are walked from one parent, or read from the file of the  *)
(* parent search.  What a node says (summary, description, statistics) is  *)
(* left out; what identifies it is kept.                                   *)
(***************************************************************************)
EXTENDS Naturals, FiniteSets, Sequences, Functions

CONSTANTS
  RUVersions,     \* the project versions
  RUProjectOf,    \* version -> its project
  RUEdges,        \* <<parent, child>>: the added projects of the bills of materials at first
  RUExtra,        \* such pairs that may be added
  RUNamed,        \* pairs whose item has no link to the child, its name alone
  RUFindings,     \* version -> set of [component, vulnerability]
  RUNameless,     \* components whose version name is behind a link
  RUMarked,       \* projects with a value in the Entity field
  RUArgs,         \* the command lines: [csv, root, depth, resolve,
                  \*   entity (--require-entity)]
  RUExcluded,     \* --exclude-child-project
  RUHeld,         \* versions that may be in the temporary quarantine, none as {}
  RUMaxFaults,    \* bound: failed reads, and ends of a run
  RUMaxChanges,   \* bound: changes of the world
  RUMaxRuns       \* bound: runs

ASSUME RollupAssumption ==
  /\ RUVersions \subseteq Nat /\ IsFiniteSet(RUVersions) /\ RUArgs # {}
  /\ RUArgs \subseteq [csv : BOOLEAN, root : RUVersions, depth : Nat, resolve : BOOLEAN, entity : BOOLEAN]
  /\ RUEdges \subseteq RUVersions \X RUVersions /\ RUExtra \subseteq RUVersions \X RUVersions
  /\ RUMaxFaults \in Nat /\ RUMaxChanges \in Nat /\ RUMaxRuns \in Nat
  /\ \A v \in RUVersions : IsFiniteSet(RUFindings[v])

VARIABLES
  ruBom,       \* the added projects now
  ruName,      \* version -> the number of times it was renamed
  ruCsv,       \* the relationship file of the parent search
  ruRun,       \* the run
  ruFile,      \* the findings files: of the runs, and of retries
  ruReport,    \* the relationships in the failure report
  ruPlanned,   \* every node a plan had
  ruCauses,    \* what happened that a node's identity may depend on
  ruFaults, ruChanges, ruRuns

ruFiles == <<ruFile, ruReport>>
ruWorld == <<ruBom, ruName, ruCsv>>
ruBounds == <<ruFaults, ruChanges, ruRuns>>
ruVars == <<ruWorld, ruRun, ruFiles, ruPlanned, ruCauses, ruBounds>>

RUStages == {"idle", "walk", "load", "collect", "findings", "failures", "plan"}
NoRollup ==
  [at |-> "idle", args |-> CHOOSE a \in RUArgs : TRUE, only |-> {}, held |-> {}, queue |-> <<>>,
   refs |-> {}, left |-> {}, blank |-> {}, rows |-> {}, failures |-> {}, skipped |-> {}, due |-> {}]

\* A relationship: a parent by name, and by link when the file says it, and a
\* child with the path that led to it.
RURef(p, pname, linked, c, path) ==
  [parent |-> p, pname |-> pname, linked |-> linked, child |-> c, cname |-> path[Len(path)][2], path |-> path]

RUFail(n) == ruFaults + n <= RUMaxFaults /\ ruFaults' = ruFaults + n

\* The relationship file says the child alone as the path.
RUListed ==
  {RURef(e[1], ruName[e[1]], TRUE, e[2], << <<e[2], ruName[e[2]]>> >>) : e \in ruBom}

RollupInit ==
  /\ ruBom = RUEdges /\ ruName = [v \in RUVersions |-> 0]
  /\ ruCsv = RUListed
  /\ ruRun = NoRollup /\ ruFile = [main |-> {}, retry |-> {}] /\ ruReport = {}
  /\ ruPlanned = {} /\ ruCauses = {}
  /\ ruFaults = 0 /\ ruChanges = 0 /\ ruRuns = 0

-----------------------------------------------------------------------------
\* The world: an added project comes or goes, a version is renamed, the
\* parent search writes its file anew.
RUChanged == ruChanges < RUMaxChanges /\ ruChanges' = ruChanges + 1

RUAdds ==
  /\ RUChanged /\ \E e \in (RUEdges \cup RUExtra) \ ruBom : ruBom' = ruBom \cup {e}
  /\ ruCauses' = ruCauses \cup {"edge"}
  /\ UNCHANGED <<ruName, ruCsv, ruRun, ruFiles, ruPlanned, ruFaults, ruRuns>>

RURemoves ==
  /\ RUChanged /\ \E e \in ruBom :
       ruBom' = ruBom \ {e} /\ ruRun' = [ruRun EXCEPT !.due = @ \ {e}]
  /\ ruCauses' = ruCauses \cup {"edge"}
  /\ UNCHANGED <<ruName, ruCsv, ruFiles, ruPlanned, ruFaults, ruRuns>>

RURenames ==
  /\ RUChanged /\ \E v \in RUVersions : ruName' = [ruName EXCEPT ![v] = @ + 1]
  /\ ruCauses' = ruCauses \cup {"rename"}
  /\ UNCHANGED <<ruBom, ruCsv, ruRun, ruFiles, ruPlanned, ruFaults, ruRuns>>

RURelists ==
  /\ ruRun.at = "idle" /\ ruCsv # RUListed /\ ruCsv' = RUListed
  /\ UNCHANGED <<ruBom, ruName, ruRun, ruFiles, ruPlanned, ruCauses, ruBounds>>

-----------------------------------------------------------------------------
\* A run begins, for all children or, as the report proposes it, for a child
\* that failed; the parent of a walk is looked up by its name.
RUBegin ==
  /\ ruRun.at = "idle" /\ ruRuns < RUMaxRuns /\ ruRuns' = ruRuns + 1
  /\ \E a \in RUArgs, held \in {{}} \cup {{v} : v \in RUHeld},
        only \in {{}} \cup {{f[2]} : f \in ruReport} :
       /\ ruRun' = [NoRollup EXCEPT !.at = IF a.csv THEN "load" ELSE "walk",
                      !.args = a, !.only = only, !.held = held, !.due = ruBom,
                      !.queue = IF a.csv THEN <<>> ELSE << [version |-> a.root, path |-> <<>>] >>]
       /\ ruCauses' = ruCauses \cup
            (IF a.csv THEN {"csv"} ELSE {"walk", IF a.resolve THEN "resolve" ELSE "direct"})
  /\ UNCHANGED <<ruWorld, ruFiles, ruPlanned, ruFaults, ruChanges>>

\* The children one bill of materials shows: items with a link, and by name
\* those without one when --resolve-bom-names is given; never the version itself.
RUDirect(v, resolve) ==
  {c \in RUVersions \ {v} : <<v, c>> \in ruBom /\ (resolve \/ <<v, c>> \notin RUNamed)}

\* --only-child-href: the other children are dropped.
RUTargeted(refs) == {r \in refs : ruRun.only = {} \/ r.child \in ruRun.only}

\* The walk is over: every child once, whatever the number of its parents.
RUCollecting(refs) ==
  ruRun' = [ruRun EXCEPT !.at = "collect", !.queue = <<>>, !.refs = RUTargeted(refs),
              !.left = {r.child : r \in RUTargeted(refs)}]

RUWalked ==
  /\ ruRun.at = "walk" /\ ruRun.queue = <<>> /\ RUCollecting(ruRun.refs)
  /\ UNCHANGED <<ruWorld, ruFiles, ruPlanned, ruCauses, ruBounds>>

RUTooDeep ==
  /\ ruRun.at = "walk" /\ ruRun.queue # <<>>
  /\ Len(Head(ruRun.queue).path) >= ruRun.args.depth
  /\ ruRun' = [ruRun EXCEPT !.queue = Tail(@)]
  /\ UNCHANGED <<ruWorld, ruFiles, ruPlanned, ruCauses, ruBounds>>

\* The children in the order in which a bill of materials lists them.
RUInOrder(children) ==
  {seq \in [1 .. Cardinality(children) -> children] :
     Range(seq) = children /\ \A i, j \in DOMAIN seq : i < j => seq[i] < seq[j]}

\* The next version of the queue shows its children; one that cannot be read
\* is passed over here, and may be found through another parent.
RUVisits(lost) ==
  LET node == Head(ruRun.queue)
      root == ruRun.args.root
      known == {root} \cup {r.child : r \in ruRun.refs}
      found == RUDirect(node.version, ruRun.args.resolve) \ (lost \cup known)
      path(c) == Append(node.path, <<c, ruName[c]>>)
  IN  /\ ruRun.at = "walk" /\ ruRun.queue # <<>> /\ Len(node.path) < ruRun.args.depth
      /\ lost \subseteq RUDirect(node.version, ruRun.args.resolve)
      /\ RUFail(Cardinality(lost))
      /\ \E seq \in RUInOrder(found) :
           ruRun' = [ruRun EXCEPT
             !.queue = Tail(@) \o [i \in DOMAIN seq |-> [version |-> seq[i], path |-> path(seq[i])]],
             !.refs = @ \cup {RURef(root, ruName[root], FALSE, c, path(c)) : c \in found},
             !.skipped = @ \cup {<<node.version, c>> : c \in lost}]
      /\ ruCauses' = IF lost = {} THEN ruCauses ELSE ruCauses \cup {"skip"}
      /\ UNCHANGED <<ruWorld, ruFiles, ruPlanned, ruChanges, ruRuns>>

\* The file's relationships, each once, without the excluded children.
RUStubs == {r \in ruCsv : RUProjectOf[r.child] \notin RUExcluded}

\* Every child is read once; one that cannot be read fails for all its
\* parents, whether the run is for it or not.
RULoads(lost) ==
  LET unread == {r \in RUStubs : r.child \in lost}
  IN  /\ ruRun.at = "load" /\ lost \subseteq {r.child : r \in RUStubs} /\ RUFail(Cardinality(lost))
      /\ ruRun' = [ruRun EXCEPT !.at = "collect", !.refs = RUTargeted(RUStubs \ unread),
                     !.left = {r.child : r \in RUTargeted(RUStubs \ unread)},
                     !.failures = {<<r.parent, r.child>> : r \in unread}]
      /\ UNCHANGED <<ruWorld, ruFiles, ruPlanned, ruCauses, ruChanges, ruRuns>>

-----------------------------------------------------------------------------
\* The collector: one target for a child, with all its parents as contexts.
RUContexts(c) == {r \in ruRun.refs : r.child = c}
RUFailed(c) == {<<r.parent, r.child>> : r \in RUContexts(c)}

\* The quarantine of the last circuit recovery may name a child.
RUQuarantined(c) == c \in ruRun.held

\* The Entity field of a project, in the project or its custom fields.
RUHasEntity(project) == project \in RUMarked

\* What the client of a worker knows of the Entity: a read that fails leaves
\* it blank for all versions of the project that this client comes to.
RUEntityMissing(project, blank) == ruRun.args.entity /\ (blank \/ ~RUHasEntity(project))

\* A target fails: it is quarantined, its Entity is required and missing, or
\* its components cannot be listed.
RUTargetFails(c, blank) ==
  LET project == RUProjectOf[c]
  IN  /\ ruRun.at = "collect" /\ c \in ruRun.left
      /\ IF RUQuarantined(c) THEN ~blank /\ UNCHANGED ruFaults
         ELSE IF RUEntityMissing(project, blank)
           THEN IF blank /\ project \notin ruRun.blank THEN RUFail(1) ELSE UNCHANGED ruFaults
         ELSE ~blank /\ RUFail(1)
      /\ ruRun' = [ruRun EXCEPT !.left = @ \ {c}, !.failures = @ \cup RUFailed(c),
                     !.blank = IF blank THEN @ \cup {project} ELSE @]
      /\ UNCHANGED <<ruWorld, ruFiles, ruPlanned, ruCauses, ruChanges, ruRuns>>

\* What is known of a component's version: its name, or without it its link.
RUVersionIdentity(component, unnamed) == IF component \in unnamed THEN "link" ELSE "name"

\* The rows of a child's findings, one for each of its parents.
RURows(c, findings, unnamed) ==
  {[ref |-> r, component |-> f.component, version |-> RUVersionIdentity(f.component, unnamed),
    vulnerability |-> f.vulnerability] : r \in RUContexts(c), f \in findings}

\* The findings of the components that could be read.
RURead(c, lost) == {f \in RUFindings[c] : f.component \notin lost}

\* The findings of a target: a component whose vulnerabilities cannot be read
\* is a failure, one whose version's name cannot be read goes without it.
RUCollects(c, lost, unnamed) ==
  LET components == {f.component : f \in RUFindings[c]}
  IN  /\ ruRun.at = "collect" /\ c \in ruRun.left /\ ~RUQuarantined(c)
      /\ ~RUEntityMissing(RUProjectOf[c], FALSE)
      /\ lost \subseteq components /\ unnamed \subseteq (components \cap RUNameless) \ lost
      /\ RUFail(Cardinality(lost) + Cardinality(unnamed))
      /\ ruRun' = [ruRun EXCEPT !.left = @ \ {c}, !.rows = @ \cup RURows(c, RURead(c, lost), unnamed),
                     !.failures = IF lost = {} THEN @ ELSE @ \cup RUFailed(c)]
      /\ ruCauses' = IF unnamed = {} THEN ruCauses ELSE ruCauses \cup {"nameless"}
      /\ UNCHANGED <<ruWorld, ruFiles, ruPlanned, ruChanges, ruRuns>>

-----------------------------------------------------------------------------
\* The rollup key: names, never links but for a component without a version.
RURollupKey(row) ==
  <<row.ref.parent, row.ref.pname, row.ref.child, row.ref.cname, row.component, row.version,
    row.vulnerability>>

\* dedupe_findings: one row for each rollup key.
RUUnique(rows) ==
  {CHOOSE row \in rows : RURollupKey(row) = key : key \in {RURollupKey(row) : row \in rows}}

\* A retry, as the report proposes it, has an output of its own.
RUFileOf(run) == IF run.only = {} THEN "main" ELSE "retry"

RUWritesFindings ==
  /\ ruRun.at = "collect" /\ ruRun.left = {}
  /\ ruFile' = [ruFile EXCEPT ![RUFileOf(ruRun)] = RUUnique(ruRun.rows)]
  /\ ruRun' = [ruRun EXCEPT !.at = "failures"]
  /\ UNCHANGED <<ruWorld, ruReport, ruPlanned, ruCauses, ruBounds>>

\* The report is written when there are failures: otherwise the one of an
\* earlier run stays.  A retry writes to the same report.
RUWritesFailures ==
  /\ ruRun.at = "failures"
  /\ ruReport' = IF ruRun.failures = {} THEN ruReport ELSE ruRun.failures
  /\ ruRun' = [ruRun EXCEPT !.at = "plan"]
  /\ UNCHANGED <<ruWorld, ruFile, ruPlanned, ruCauses, ruBounds>>

\* Any read the run does not forgive ends it, and so does an open circuit.
RUDies ==
  /\ ruRun.at # "idle" /\ RUFail(1) /\ ruRun' = NoRollup
  /\ UNCHANGED <<ruWorld, ruFiles, ruPlanned, ruCauses, ruChanges, ruRuns>>

-----------------------------------------------------------------------------
\* The plan: what a node is about, and the parts its identity is made of.
RUNode(kind, about, id) == [kind |-> kind, about |-> about, id |-> id]

\* project-lineage: parents, children under them, and their vulnerabilities.
RUParentKey(row) == <<row.ref.parent, row.ref.pname, row.ref.linked>>
RUStoryKey(row) == RUParentKey(row) \o <<row.ref.child, row.ref.cname, row.ref.path>>
RULineageNodes(rows) ==
  UNION {{RUNode("parent", <<row.ref.parent>>, RUParentKey(row)),
          RUNode("child", <<row.ref.parent, row.ref.child>>, RUStoryKey(row)),
          RUNode("finding", <<row.ref.parent, row.ref.child, row.component, row.vulnerability>>,
                 RURollupKey(row))} : row \in rows}

\* vulnerability-remediation: vulnerabilities, and the child versions that have them.
RUVulnerabilityNodes(rows) ==
  {RUNode("vulnerability", <<row.vulnerability>>, <<row.vulnerability>>) : row \in rows}

RUTaskKey(row) == <<row.vulnerability, row.ref.child, row.ref.cname>>

\* Mutant: the task's identity has the path that led to the child.
RUTaskNodesByPath(rows) ==
  {RUNode("task", <<row.vulnerability, row.ref.child>>, Append(RUTaskKey(row), row.ref.path)) : row \in rows}

RUTaskNodes(rows) ==
  {RUNode("task", <<row.vulnerability, row.ref.child>>, RUTaskKey(row)) : row \in rows}

RUPlan ==
  LET rows == RUUnique(ruFile[RUFileOf(ruRun)])
  IN  /\ ruRun.at = "plan"
      /\ \/ ruPlanned' = ruPlanned \cup RULineageNodes(rows)
         \/ ruPlanned' = ruPlanned \cup RUVulnerabilityNodes(rows) \cup RUTaskNodes(rows)
      /\ ruRun' = NoRollup
      /\ UNCHANGED <<ruWorld, ruFiles, ruCauses, ruBounds>>

RollupNext ==
  \/ RUAdds \/ RURemoves \/ RURenames \/ RURelists
  \/ RUBegin \/ RUWalked \/ RUTooDeep \/ RUWritesFindings \/ RUWritesFailures \/ RUDies \/ RUPlan
  \/ \E lost \in SUBSET RUVersions : RUVisits(lost) \/ RULoads(lost)
  \/ \E c \in RUVersions, blank \in BOOLEAN : RUTargetFails(c, blank)
  \/ \E c \in RUVersions : \E lost, unnamed \in SUBSET {f.component : f \in RUFindings[c]} :
       RUCollects(c, lost, unnamed)

RollupSpec == RollupInit /\ [][RollupNext]_ruVars

-----------------------------------------------------------------------------
RollupTypeOK ==
  /\ ruBom \subseteq RUEdges \cup RUExtra /\ ruName \in [RUVersions -> 0 .. RUMaxChanges]
  /\ ruRun.at \in RUStages /\ ruRun.args \in RUArgs /\ ruRun.left \subseteq RUVersions
  /\ ruRun.failures \cup ruReport \cup ruRun.due \subseteq RUVersions \X RUVersions
  /\ ruFaults <= RUMaxFaults /\ ruChanges <= RUMaxChanges /\ ruRuns <= RUMaxRuns

\* The versions a chain of at most n of the links leads to.
RULinks(args) == {e \in ruRun.due \ ruRun.skipped : args.resolve \/ e \notin RUNamed}
RUWithin(links, root, n) ==
  {v \in RUVersions \ {root} :
     \E k \in 1 .. n : \E chain \in [0 .. k -> RUVersions] :
       /\ chain[0] = root /\ chain[k] = v
       /\ \A i \in 1 .. k : <<chain[i - 1], chain[i]>> \in links}

\* The relationships the findings of a run are due for: in a walk every
\* version within the depth, by links that were there all along and could be
\* read; from a file what it lists.
RUDue ==
  LET args == ruRun.args
  IN  IF args.csv
        THEN {<<r.parent, r.child>> : r \in RUStubs}
        ELSE {args.root} \X RUWithin(RULinks(args), args.root, args.depth)

\* The findings file of a run that has just been written has every finding of
\* every relationship that is due, unless the run recorded a failure for it.
RollupMissesNothing ==
  ruRun.at \in {"failures", "plan"} =>
    \A e \in RUDue : (ruRun.only = {} \/ e[2] \in ruRun.only) =>
      \/ e \in ruRun.failures
      \/ \A f \in RUFindings[e[2]] : \E row \in ruFile[RUFileOf(ruRun)] :
           /\ <<row.ref.parent, row.ref.child>> = e
           /\ row.component = f.component /\ row.vulnerability = f.vulnerability

\* No plan has a second node for what an earlier one had, unless a version
\* was renamed; and by lineage, unless the relationships came from the walk
\* and the file, a child was found on another path -- the tree changed, an
\* item was passed over, or was resolved by name in one run and not in
\* another --, or the name of a component's version could not be read.
RollupNeverTwice ==
  \A n, m \in ruPlanned : n.kind = m.kind /\ n.about = m.about /\ n.id # m.id =>
    \/ "rename" \in ruCauses
    \/ n.kind \in {"parent", "child"} /\ {"csv", "walk"} \subseteq ruCauses
    \/ n.kind = "child" /\ (ruCauses \cap {"edge", "skip"} # {} \/ {"resolve", "direct"} \subseteq ruCauses)
    \/ n.kind = "finding" /\ "nameless" \in ruCauses
=============================================================================
