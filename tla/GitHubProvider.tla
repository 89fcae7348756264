---------------------------- MODULE GitHubProvider ----------------------------
(***************************************************************************)
(* The GitHub provider of the SCM inventory (wintermute.scm.providers.     *)
(* github): the repositories of an organization are listed with GraphQL,   *)
(* page after page in the order of their names; then the custom property   *)
(* that selects repositories for onboarding, its assignments and the       *)
(* rulesets are read with REST, the workflows of every repository are      *)
(* listed, and the controls are derived.  Each request is one answer of a  *)
(* GitHub that people change meanwhile: nothing reads two pages at once.   *)
(***************************************************************************)
EXTENDS Listing

CONSTANTS
  GHIds,            \* repositories there may be
  GHFirstNames,     \* repository -> its name at first, 0 if there is none
  GHNames,          \* number of names; a name is its place in their order
  GHArchived,       \* repositories that are archived
  GHPageSize,
  GHRulesets,       \* ruleset -> [targets, workflow, branch] : BOOLEAN
  GHFirstRules,     \* possible first enforcements of the rulesets
  GHRetries, GHMaxFaults, GHMaxChanges   \* --retries; bounds

GHRuleIds == DOMAIN GHRulesets
GHEnforcements == {"absent", "active", "evaluate"}

ASSUME GitHubAssumption ==
  /\ GHIds \subseteq Nat /\ IsFiniteSet(GHIds)
  /\ GHNames \in Nat /\ GHFirstNames \in [GHIds -> 0 .. GHNames]
  /\ \A r, q \in GHIds : GHFirstNames[r] = GHFirstNames[q] /\ GHFirstNames[r] # 0 => r = q
  /\ GHRulesets \in [GHRuleIds -> [targets : BOOLEAN, workflow : BOOLEAN, branch : BOOLEAN]]
  /\ GHRuleIds \subseteq Nat /\ GHFirstRules \subseteq [GHRuleIds -> GHEnforcements]
  /\ GHPageSize \in Nat \ {0} /\ GHRetries \in Nat
  /\ GHMaxFaults \in Nat /\ GHMaxChanges \in Nat

VARIABLES
  ghName,      \* repository -> its name, 0 while there is none
  ghChosen,    \* repositories the property selects for onboarding
  ghRules,     \* ruleset -> its enforcement
  ghRun,       \* the running inventory
  ghPast,      \* what has been so since it began, for the properties
  ghFaults, ghChanges

ghVars == <<ghName, ghChosen, ghRules, ghRun, ghPast, ghFaults, ghChanges>>

Existing == {r \in GHIds : ghName[r] # 0}

\* Does an active ruleset require a workflow of the selected repositories?
Requires(rules) ==
  \E k \in GHRuleIds : /\ rules[k] = "active"
                       /\ GHRulesets[k].targets /\ GHRulesets[k].workflow

NoListing == [repos |-> {}, excluded |-> {}, failures |-> {}]
GHNoRun == [at |-> "idle", try |-> 0, cursor |-> 0, total |-> 0, nodes |-> <<>>,
            inv |-> NoListing, prop |-> "ok", schema |-> TRUE, values |-> {},
            page |-> 1, rule |-> "ok", summaries |-> {}, rules |-> [k \in GHRuleIds |-> "absent"],
            unread |-> {}, controls |-> <<>>]
NoPast == [lasting |-> {}, created |-> FALSE, deleted |-> FALSE, renamed |-> FALSE,
           chosen |-> {}, unchosen |-> {}, required |-> {}, ruled |-> 0]

GitHubInit ==
  /\ ghName = GHFirstNames
  /\ ghChosen \in {{r} : r \in Existing}
  /\ ghRules \in GHFirstRules
  /\ ghRun = GHNoRun /\ ghPast = NoPast
  /\ ghFaults = 0 /\ ghChanges = 0

-----------------------------------------------------------------------------
(* The organization, which people change at any time. *)

GHChange ==
  /\ ghRun.at \notin {"idle", "done", "failed"}
  /\ ghChanges < GHMaxChanges /\ ghChanges' = ghChanges + 1
  /\ UNCHANGED <<ghRun, ghFaults>>

Free(name) == \A r \in GHIds : ghName[r] # name

GHDeletes(r) ==
  /\ GHChange /\ r \in Existing
  /\ ghName' = [ghName EXCEPT ![r] = 0]
  /\ ghChosen' = ghChosen \ {r}
  /\ ghPast' = [ghPast EXCEPT !.lasting = @ \ {r}, !.deleted = TRUE]
  /\ UNCHANGED ghRules

\* None of the first repositories comes back when it was deleted.
GHCreates(r, name) ==
  /\ GHChange /\ GHFirstNames[r] = 0 /\ ghName[r] = 0 /\ Free(name)
  /\ ghName' = [ghName EXCEPT ![r] = name]
  /\ ghPast' = [ghPast EXCEPT !.created = TRUE, !.unchosen = @ \cup {r}]
  /\ UNCHANGED <<ghChosen, ghRules>>

GHRenames(r, name) ==
  /\ GHChange /\ r \in Existing /\ Free(name)
  /\ ghName' = [ghName EXCEPT ![r] = name]
  /\ ghPast' = [ghPast EXCEPT !.renamed = TRUE]
  /\ UNCHANGED <<ghChosen, ghRules>>

GHSelects(r) ==
  /\ GHChange /\ r \in Existing
  /\ ghChosen' = IF r \in ghChosen THEN ghChosen \ {r} ELSE ghChosen \cup {r}
  /\ ghPast' = [ghPast EXCEPT !.chosen = @ \cup (ghChosen' \cap {r}),
                              !.unchosen = @ \cup ({r} \ ghChosen')]
  /\ UNCHANGED <<ghName, ghRules>>

GHRules(k, enforcement) ==
  /\ GHChange /\ ghRules[k] # "absent" /\ enforcement # ghRules[k]
  /\ ghRules' = [ghRules EXCEPT ![k] = enforcement]
  /\ ghPast' = [ghPast EXCEPT !.required = @ \cup {Requires(ghRules')}, !.ruled = @ + 1]
  /\ UNCHANGED <<ghName, ghChosen>>

-----------------------------------------------------------------------------
(* Requests: answered, tried again after a transient error, or given up, at *)
(* once (401, 403, 404, a malformed answer, a wait beyond the deadline) or  *)
(* after the last retry.                                                    *)

Fault == ghFaults < GHMaxFaults /\ ghFaults' = ghFaults + 1
Asking == ghRun.at \in {"tenant", "listing", "schema", "values", "rules", "details"}

GHRetried ==
  /\ Asking /\ ghRun.try < GHRetries /\ Fault
  /\ ghRun' = [ghRun EXCEPT !.try = @ + 1]
  /\ UNCHANGED <<ghName, ghChosen, ghRules, ghPast, ghChanges>>

World == <<ghName, ghChosen, ghRules, ghPast, ghFaults, ghChanges>>

GHBegin ==
  /\ ghRun.at = "idle"
  /\ ghRun' = [GHNoRun EXCEPT !.at = "tenant"]
  /\ ghPast' = [NoPast EXCEPT !.lasting = Existing, !.chosen = ghChosen,
                              !.unchosen = GHIds \ ghChosen, !.required = {Requires(ghRules)}]
  /\ UNCHANGED <<ghName, ghChosen, ghRules, ghFaults, ghChanges>>

GHTenant ==
  /\ ghRun.at = "tenant"
  /\ ghRun' = [ghRun EXCEPT !.at = "listing", !.try = 0]
  /\ UNCHANGED World

\* An error of the listing is an error of the run.
GHGivesUp ==
  /\ ghRun.at \in {"tenant", "listing"} /\ Fault
  /\ ghRun' = [GHNoRun EXCEPT !.at = "failed"]
  /\ UNCHANGED <<ghName, ghChosen, ghRules, ghPast, ghChanges>>

-----------------------------------------------------------------------------
(* The listing. *)

Nodes(page) == [i \in DOMAIN page |-> [id |-> page[i], name |-> ghName[page[i]]]]

\* The total must be that of the first page, and at the end the number of
\* nodes taken.
GHPage ==
  /\ ghRun.at = "listing"
  /\ \E rest \in InOrder({r \in Existing : ghName[r] > ghRun.cursor}, ghName) :
       LET page == Page(rest, 0, GHPageSize)
           nodes == ghRun.nodes \o Nodes(page)
           first == ghRun.nodes = <<>> /\ ghRun.cursor = 0
           total == Cardinality(Existing)
           more == Len(rest) > GHPageSize
       IN ghRun' = IF (~first /\ total # ghRun.total) \/ (~more /\ Len(nodes) # total)
                   THEN [GHNoRun EXCEPT !.at = "failed"]
                   ELSE [ghRun EXCEPT !.at = IF more THEN "listing" ELSE "listed", !.try = 0,
                           !.total = total, !.nodes = nodes,
                           !.cursor = IF more THEN ghName[page[GHPageSize]] ELSE @]
  /\ UNCHANGED World

\* A node seen before, by id or by name, is a failure of its own, and so is
\* one that cannot be mapped.
Repeated(nodes, odd) ==
  {i \in DOMAIN nodes : \E j \in 1 .. i - 1 :
     j \notin odd /\ (nodes[j].id = nodes[i].id \/ nodes[j].name = nodes[i].name)}

Mapped(nodes, odd) ==
  LET bad == odd \cup Repeated(nodes, odd)
      good == {nodes[i] : i \in DOMAIN nodes \ bad}
  IN [repos |-> {n \in good : n.id \notin GHArchived},
      excluded |-> {n \in good : n.id \in GHArchived},
      failures |-> bad]

GHMaps ==
  /\ ghRun.at = "listed"
  /\ \/ ghRun' = [GHNoRun EXCEPT !.at = "schema", !.inv = Mapped(ghRun.nodes, {})] /\ UNCHANGED ghFaults
     \/ \E i \in DOMAIN ghRun.nodes :
          ghRun' = [GHNoRun EXCEPT !.at = "schema", !.inv = Mapped(ghRun.nodes, {i})] /\ Fault
  /\ UNCHANGED <<ghName, ghChosen, ghRules, ghPast, ghChanges>>

-----------------------------------------------------------------------------
(* The controls. *)

\* The property's definition; it may be there without the onboarding value.
GHSchema(usable) ==
  /\ ghRun.at = "schema"
  /\ ghRun' = [ghRun EXCEPT !.at = "values", !.try = 0, !.schema = usable]
  /\ UNCHANGED World

\* Its assignments, by page number, the repositories in the order of their
\* ids: one deleted on an earlier page moves the rest forward.
PropertyPage(all) == Page(all, (ghRun.page - 1) * GHPageSize, GHPageSize)

\* A name twice is refused.
GHValues ==
  /\ ghRun.at = "values"
  /\ \E all \in InOrder(Existing, [r \in GHIds |-> r]) :
       LET page == PropertyPage(all)
           taken == {[name |-> ghName[page[i]], chosen |-> page[i] \in ghChosen] : i \in DOMAIN page}
           names == {v.name : v \in ghRun.values}
           more == Len(page) = GHPageSize
       IN ghRun' = CASE \E v \in taken : v.name \in names ->
                          [ghRun EXCEPT !.at = "rules", !.try = 0, !.prop = "failed", !.values = {}, !.page = 1]
                     [] OTHER ->
                          [ghRun EXCEPT !.at = IF more THEN "values" ELSE "rules", !.try = 0,
                             !.values = @ \cup taken, !.page = IF more THEN @ + 1 ELSE 1]
  /\ UNCHANGED World

\* Error 404, or a 403 that asks for another plan: the feature is taken for
\* unsupported; any other error is a failure.
GHPropertiesFail(status) ==
  /\ ghRun.at \in {"schema", "values"} /\ Fault
  /\ ghRun' = [ghRun EXCEPT !.at = "rules", !.try = 0, !.prop = status, !.values = {}, !.page = 1]
  /\ UNCHANGED <<ghName, ghChosen, ghRules, ghPast, ghChanges>>

GHRulesetList ==
  /\ ghRun.at = "rules"
  /\ LET found == {k \in GHRuleIds : ghRules[k] # "absent"}
     IN ghRun' = [ghRun EXCEPT !.at = IF found = {} THEN "workflows" ELSE "details",
                    !.try = 0, !.summaries = found]
  /\ UNCHANGED World

\* One ruleset after the other; one deleted meanwhile answers 404, and then
\* rulesets count as unsupported.
NoRules == [k \in GHRuleIds |-> "absent"]

GHRulesetDetail ==
  /\ ghRun.at = "details"
  /\ \E k \in ghRun.summaries :
       LET rest == ghRun.summaries \ {k}
       IN  /\ \A j \in rest : k < j
           /\ ghRun' = IF ghRules[k] = "absent"
                THEN [ghRun EXCEPT !.at = "workflows", !.try = 0, !.rule = "unsupported",
                        !.summaries = {}, !.rules = NoRules]
                ELSE [ghRun EXCEPT !.at = IF rest = {} THEN "workflows" ELSE "details", !.try = 0,
                        !.summaries = rest, !.rules[k] = ghRules[k]]
  /\ UNCHANGED World

GHRulesetsFail(status) ==
  /\ ghRun.at \in {"rules", "details"} /\ Fault
  /\ ghRun' = [ghRun EXCEPT !.at = "workflows", !.try = 0, !.rule = status,
              !.summaries = {}, !.rules = NoRules]
  /\ UNCHANGED <<ghName, ghChosen, ghRules, ghPast, ghChanges>>

GHHeld(run) == run.inv.repos \cup run.inv.excluded

\* Workflows of every repository, in parallel; where they cannot be read
\* there is a failure of the evidence and no more.
GHWorkflows ==
  /\ ghRun.at = "workflows"
  /\ \/ ghRun' = [ghRun EXCEPT !.at = "read"] /\ UNCHANGED ghFaults
     \/ \E n \in GHHeld(ghRun) :
          ghRun' = [ghRun EXCEPT !.at = "read", !.unread = {n.id}] /\ Fault
  /\ UNCHANGED <<ghName, ghChosen, ghRules, ghPast, ghChanges>>

\* The assignments are joined to the repositories by name.
SelectedIn(run, name) ==
  /\ run.prop = "ok" /\ run.schema
  /\ \E v \in run.values : v.name = name /\ v.chosen

\* Mutant: what could not be read is taken for not selected.
PolicyOfUnread(run, name) == IF SelectedIn(run, name) THEN "compliant" ELSE "noncompliant"

PolicyOf(run, name) ==
  CASE run.prop # "ok" -> run.prop
    [] run.prop = "ok" /\ SelectedIn(run, name) -> "compliant"
    [] OTHER -> "noncompliant"

Matching(run) == {k \in GHRuleIds : run.rules[k] # "absent" /\ GHRulesets[k].targets}

\* What a ruleset control says where one is looked for.
Dependent(run, name, met) ==
  CASE run.prop # "ok" \/ ~run.schema -> "unknown"
    [] run.prop = "ok" /\ run.schema /\ ~SelectedIn(run, name) -> "available"
    [] SelectedIn(run, name) /\ run.rule # "ok" -> run.rule
    [] OTHER -> IF \E k \in Matching(run) : run.rules[k] = "active" /\ met[k]
                THEN "compliant" ELSE "noncompliant"

ControlsOf(run) ==
  {[id |-> n.id, policy |-> PolicyOf(run, n.name),
    workflow |-> Dependent(run, n.name, [k \in GHRuleIds |-> GHRulesets[k].workflow]),
    branch |-> Dependent(run, n.name, [k \in GHRuleIds |-> GHRulesets[k].branch])] : n \in GHHeld(run)}

GHControls ==
  /\ ghRun.at = "read"
  /\ ghRun' = [GHNoRun EXCEPT !.at = "done", !.schema = ghRun.schema,
                 !.inv = ghRun.inv, !.controls = <<ControlsOf(ghRun)>>]
  /\ UNCHANGED World

GitHubNext ==
  \/ \E r \in GHIds : GHDeletes(r) \/ GHSelects(r)
  \/ \E r \in GHIds, name \in 1 .. GHNames : GHCreates(r, name) \/ GHRenames(r, name)
  \/ \E k \in GHRuleIds, enforcement \in GHEnforcements : GHRules(k, enforcement)
  \/ GHRetried \/ GHBegin \/ GHTenant \/ GHGivesUp \/ GHPage \/ GHMaps
  \/ \E usable \in BOOLEAN : GHSchema(usable)
  \/ \E status \in {"failed", "unsupported"} : GHPropertiesFail(status) \/ GHRulesetsFail(status)
  \/ GHValues \/ GHRulesetList \/ GHRulesetDetail \/ GHWorkflows \/ GHControls

GitHubSpec == GitHubInit /\ [][GitHubNext]_ghVars

-----------------------------------------------------------------------------
GitHubTypeOK ==
  /\ ghName \in [GHIds -> 0 .. GHNames] /\ ghChosen \subseteq Existing
  /\ \A r, q \in Existing : ghName[r] = ghName[q] => r = q
  /\ ghRules \in [GHRuleIds -> GHEnforcements]
  /\ ghRun.at \in {"idle", "tenant", "listing", "listed", "schema", "values", "rules", "details",
                   "workflows", "read", "done", "failed"}
  /\ ghRun.try \in 0 .. GHRetries /\ ghRun.total \in 0 .. Cardinality(GHIds)
  /\ ghRun.prop \in {"ok", "failed", "unsupported"} /\ ghRun.rule \in {"ok", "failed", "unsupported"}
  /\ ghFaults \in 0 .. GHMaxFaults /\ ghChanges \in 0 .. GHMaxChanges

(***************************************************************************)
(* An inventory without failures has every repository that was there all   *)
(* along, however the listing was disturbed (client.py _discover_payload:  *)
(* the totals; mapper.py: duplicates) -- save where one repository was     *)
(* renamed, one deleted and one created between its pages, which leaves    *)
(* totals and counts as they were.                                         *)
(***************************************************************************)
GitHubMissesNothing ==
  ghRun.at \notin {"idle", "tenant", "listing", "listed", "failed"} /\ ghRun.inv.failures = {} =>
    \/ ghPast.lasting \subseteq {n.id : n \in GHHeld(ghRun)}
    \/ ghPast.renamed /\ ghPast.deleted /\ ghPast.created

(***************************************************************************)
(* Compliant and noncompliant are said only of what was so at some moment  *)
(* of the run (controls.py controls_from_resources), unless repositories   *)
(* were renamed or deleted under it, or two changes of rulesets met        *)
(* between the reads of two of them.                                       *)
(***************************************************************************)
GitHubControlsTrue ==
  ghRun.at = "done" => \A c \in ghRun.controls[1] :
    c.id \in ghPast.lasting /\ ~ghPast.renamed =>
      /\ c.policy = "compliant" => c.id \in ghPast.chosen
      /\ c.policy = "noncompliant" =>
           c.id \in ghPast.unchosen \/ ghPast.deleted \/ ~ghRun.schema
      /\ c.workflow = "compliant" => TRUE \in ghPast.required
      /\ c.workflow = "noncompliant" => FALSE \in ghPast.required \/ ghPast.ruled > 1

=============================================================================
