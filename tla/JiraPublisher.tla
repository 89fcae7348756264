---------------------------- MODULE JiraPublisher ----------------------------
(***************************************************************************)
(* The publisher of Jira issues (jira/findings_to_jira.py), in its two     *)
(* modes: the hierarchy plan (epics, stories, vulnerabilities) and the     *)
(* flat list of findings.  A run searches Jira by lookup label for every   *)
(* node its state file does not know, adopts what it finds, creates the    *)
(* rest parents first, links children, and saves the state at the very     *)
(* end.  Jira's search index follows its issues with a delay, a POST may   *)
(* lose its answer and is repeated, and a run may die anywhere.            *)
(*                                                                         *)
(* Nodes are numbers in the order hierarchy_node_sort_key gives them; a    *)
(* dry run changes nothing that is modelled here and is left out.          *)
(***************************************************************************)
EXTENDS Naturals, FiniteSets

CONSTANTS
  JPNodes,        \* the nodes of the plan, 1 .. n, parents before children
  JPParent,       \* node -> its parent, 0 when it has none
  JPLinked,       \* nodes whose parent mode is issue_link
  JPTargets,      \* nodes with a configured target status
  JPMaxCreate,    \* --max-create; 0 stands for no limit
  JPRetries,      \* --retries
  JPMaxFaults,    \* bound: failed requests, stale searches, crashes
  JPMaxChanges,   \* bound: changes of the command line
  JPFlatModes,    \* the modes tried: TRUE is --flat-findings
  JPFilters,      \* the selections tried: nodes that match; {} is no filter
  JPLimits        \* the values of --limit tried; 0 stands for no limit

ASSUME JiraAssumption ==
  /\ JPNodes \subseteq Nat \ {0}
  /\ JPParent \in [JPNodes -> JPNodes \cup {0}]
  /\ \A n \in JPNodes : JPParent[n] < n
  /\ JPLinked \subseteq {n \in JPNodes : JPParent[n] # 0} /\ JPTargets \subseteq JPNodes
  /\ {JPMaxCreate, JPRetries, JPMaxFaults, JPMaxChanges} \subseteq Nat
  /\ JPFlatModes \subseteq BOOLEAN
  /\ JPFilters \subseteq SUBSET JPNodes /\ JPLimits \subseteq Nat

VARIABLES
  jpFlat,                 \* the mode of these runs
  jpArgs,                 \* [refresh, only, limit]
  jpFile, jpFileLinks,    \* the state file: node -> entry, links on record
  jpMem, jpMemLinks,      \* the state of the running process
  jpPc, jpAt,             \* where the run is, and at which node
  jpFound,                \* nodes the search found, with their status
  jpKeys,                 \* nodes whose issue key this run knows
  jpTry, jpCreated,       \* attempts at this request, issues created
  jpCount, jpSeen,        \* Jira: issues of a node, and those indexed
  jpMoved, jpLinks,       \* Jira: issues in their target status, links
  jpExcuse,               \* node -> answers lost and stale searches
  jpFaults, jpChanges

jpRun == <<jpPc, jpAt, jpFound, jpKeys, jpTry, jpCreated, jpMem, jpMemLinks>>
jpDisk == <<jpFile, jpFileLinks>>
jpJira == <<jpCount, jpSeen, jpMoved, jpLinks>>
jpCommand == <<jpFlat, jpArgs, jpChanges>>
jpVars == <<jpRun, jpDisk, jpJira, jpCommand, jpExcuse, jpFaults>>

Entries == {"none", "nokey", "key", "moved"}
JPArgs == [refresh : BOOLEAN, only : JPFilters, limit : JPLimits]

-----------------------------------------------------------------------------
(* Which nodes a run handles, and which of them it takes as published. *)

JPParents(S) == {JPParent[n] : n \in S} \ {0}

\* A filter of the hierarchy keeps the ancestors of what matches; there are
\* three levels.  A filter of the flat list keeps what matches.
JPFiltered ==
  LET S == jpArgs.only
  IN  IF S = {} THEN JPNodes
      ELSE IF jpFlat THEN S ELSE S \cup JPParents(S) \cup JPParents(JPParents(S))

\* --limit keeps the first nodes.
JPSelected ==
  IF jpArgs.limit = 0 THEN JPFiltered
  ELSE {n \in JPFiltered : Cardinality({m \in JPFiltered : m <= n}) <= jpArgs.limit}

\* The hierarchy wants a key on record; the flat list takes any entry.
JPCached(n) ==
  /\ ~jpArgs.refresh
  /\ IF jpFlat THEN jpMem[n] # "none" ELSE jpMem[n] \in {"key", "moved"}

JPMissing == {n \in JPSelected : ~JPCached(n)}

JPParentOf(n) == IF jpFlat THEN 0 ELSE JPParent[n]
JPNeedsLink(n) == ~jpFlat /\ n \in JPLinked

\* The parent key goes into the payload of a child that is not linked.
JPParentReady(n) == JPParentOf(n) = 0 \/ JPNeedsLink(n) \/ JPParentOf(n) \in jpKeys

\* The nodes in order: the loop goes on to the next one, or to the links.
JPAfter(n) ==
  IF \E m \in JPSelected : m > n
    THEN CHOOSE m \in JPSelected : m > n /\ \A k \in JPSelected : k > n => m <= k
    ELSE 0

JPGoOn ==
  /\ jpAt' = JPAfter(jpAt) /\ jpTry' = 0
  /\ jpPc' = IF JPAfter(jpAt) = 0 THEN "linking" ELSE "nodes"

JPFault == jpFaults < JPMaxFaults /\ jpFaults' = jpFaults + 1

JPEnds ==
  /\ jpPc' = "idle" /\ jpAt' = 0 /\ jpFound' = {} /\ jpKeys' = {}
  /\ jpTry' = 0 /\ jpCreated' = 0

\* The end of a process that saves nothing.
JPGone == JPEnds /\ jpMem' = jpFile /\ jpMemLinks' = jpFileLinks

-----------------------------------------------------------------------------
JiraInit ==
  /\ jpFlat \in JPFlatModes /\ jpArgs \in JPArgs /\ jpChanges = 0
  /\ jpFile = [n \in JPNodes |-> "none"] /\ jpFileLinks = {}
  /\ jpMem = jpFile /\ jpMemLinks = {}
  /\ jpPc = "idle" /\ jpAt = 0 /\ jpFound = {} /\ jpKeys = {} /\ jpTry = 0 /\ jpCreated = 0
  /\ jpCount = [n \in JPNodes |-> 0] /\ jpSeen = jpCount
  /\ jpMoved = {} /\ jpLinks = {}
  /\ jpExcuse = [n \in JPNodes |-> 0] /\ jpFaults = 0

\* The operator changes the flags between runs.
JPChange ==
  /\ jpPc = "idle" /\ jpChanges < JPMaxChanges
  /\ jpArgs' \in JPArgs /\ jpChanges' = jpChanges + 1
  /\ UNCHANGED <<jpRun, jpDisk, jpJira, jpFlat, jpExcuse, jpFaults>>

\* A run loads the state.
JPBegin ==
  /\ jpPc = "idle"
  /\ jpMem' = jpFile /\ jpMemLinks' = jpFileLinks
  /\ jpPc' = IF jpFlat THEN "lookup" ELSE "prepare"
  /\ UNCHANGED <<jpAt, jpFound, jpKeys, jpTry, jpCreated, jpDisk, jpJira, jpCommand, jpExcuse, jpFaults>>

\* The preflight of the hierarchy reads Jira's metadata; a missing field or a
\* failed request ends the run before anything is written.
JPPrepare ==
  /\ jpPc = "prepare"
  /\ \/ jpPc' = "lookup" /\ UNCHANGED <<jpAt, jpFound, jpKeys, jpTry, jpCreated, jpFaults>>
          /\ UNCHANGED <<jpMem, jpMemLinks>>
     \/ JPGone /\ JPFault
  /\ UNCHANGED <<jpDisk, jpJira, jpCommand, jpExcuse>>

\* Two issues with one lookup label: the search refuses to guess.
JPAmbiguous == \E n \in JPMissing : jpSeen[n] > 1

\* What a search of the index as it is would miss; it counts as a fault.
JPOverlooked == {n \in JPMissing : jpSeen[n] < jpCount[n]}

JPLookupFails ==
  /\ jpPc = "lookup" /\ JPMissing # {}
  /\ \/ JPAmbiguous /\ UNCHANGED jpFaults
     \/ JPFault
  /\ JPGone
  /\ UNCHANGED <<jpDisk, jpJira, jpCommand, jpExcuse>>

\* Mutant: the search asks only for nodes without any entry.
JPLookupNew ==
  /\ jpPc = "lookup" /\ ~JPAmbiguous
  /\ jpFound' = {n \in JPMissing : jpSeen[n] = 1 /\ jpMem[n] = "none"}
  /\ jpExcuse' = [n \in JPNodes |-> jpExcuse[n] + IF n \in JPOverlooked THEN 1 ELSE 0]
  /\ IF JPOverlooked = {} THEN UNCHANGED jpFaults ELSE JPFault
  /\ jpAt' = JPAfter(0) /\ jpPc' = IF JPAfter(0) = 0 THEN "linking" ELSE "nodes"
  /\ UNCHANGED <<jpKeys, jpTry, jpCreated, jpMem, jpMemLinks, jpDisk, jpJira, jpCommand>>

\* One search by label for every node that is not cached.  What the index
\* does not hold yet is not found.
JPLookup ==
  /\ jpPc = "lookup" /\ ~JPAmbiguous
  /\ jpFound' = {n \in JPMissing : jpSeen[n] = 1}
  /\ jpExcuse' = [n \in JPNodes |-> jpExcuse[n] + IF n \in JPOverlooked THEN 1 ELSE 0]
  /\ IF JPOverlooked = {} THEN UNCHANGED jpFaults ELSE JPFault
  /\ jpAt' = JPAfter(0) /\ jpPc' = IF JPAfter(0) = 0 THEN "linking" ELSE "nodes"
  /\ UNCHANGED <<jpKeys, jpTry, jpCreated, jpMem, jpMemLinks, jpDisk, jpJira, jpCommand>>

\* A cached node is skipped, its key is used for its children.
JPSkipCached ==
  /\ jpPc = "nodes" /\ JPCached(jpAt)
  /\ jpKeys' = IF jpMem[jpAt] = "nokey" THEN jpKeys ELSE jpKeys \cup {jpAt}
  /\ JPGoOn
  /\ UNCHANGED <<jpFound, jpCreated, jpMem, jpMemLinks, jpDisk, jpJira, jpCommand, jpExcuse, jpFaults>>

\* An issue the search found is adopted, and moved to its target status.
JPAdopt ==
  /\ jpPc = "nodes" /\ ~JPCached(jpAt) /\ jpAt \in jpFound
  /\ jpKeys' = jpKeys \cup {jpAt}
  /\ IF jpAt \in JPTargets
       THEN jpPc' = "moving" /\ UNCHANGED <<jpAt, jpTry, jpMem>>
       ELSE JPGoOn /\ jpMem' = [jpMem EXCEPT ![jpAt] = "key"]
  /\ UNCHANGED <<jpFound, jpCreated, jpMemLinks, jpDisk, jpJira, jpCommand, jpExcuse, jpFaults>>

JPMustCreate == jpPc = "nodes" /\ ~JPCached(jpAt) /\ jpAt \notin jpFound

\* No parent key: an error, and the next node.  --max-create: the next node.
JPSkipCreate ==
  /\ JPMustCreate
  /\ ~JPParentReady(jpAt) \/ (JPMaxCreate > 0 /\ jpCreated >= JPMaxCreate)
  /\ JPGoOn
  /\ UNCHANGED <<jpFound, jpKeys, jpCreated, jpMem, jpMemLinks, jpDisk, jpJira, jpCommand, jpExcuse, jpFaults>>

\* Mutant: --max-create is not looked at.
JPMayCreateUnlimited == JPMustCreate /\ JPParentReady(jpAt)

JPMayCreate ==
  /\ JPMustCreate /\ JPParentReady(jpAt)
  /\ JPMaxCreate = 0 \/ jpCreated < JPMaxCreate

JPIssueAppears ==
  /\ jpCount' = [jpCount EXCEPT ![jpAt] = @ + 1]
  /\ UNCHANGED <<jpSeen, jpMoved, jpLinks>>

\* POST issue answers with a key.
JPCreate ==
  /\ JPMayCreate /\ JPIssueAppears
  /\ jpKeys' = jpKeys \cup {jpAt} /\ jpCreated' = jpCreated + 1
  /\ IF jpAt \in JPTargets
       THEN jpPc' = "moving" /\ UNCHANGED <<jpAt, jpTry, jpMem>>
       ELSE JPGoOn /\ jpMem' = [jpMem EXCEPT ![jpAt] = "key"]
  /\ UNCHANGED <<jpFound, jpMemLinks, jpDisk, jpCommand, jpExcuse, jpFaults>>

\* A success with an empty body: the issue exists, its key is not known.
JPCreateNoKey ==
  /\ JPMayCreate /\ JPIssueAppears /\ JPFault
  /\ jpMem' = [jpMem EXCEPT ![jpAt] = "nokey"] /\ jpCreated' = jpCreated + 1
  /\ JPGoOn
  /\ UNCHANGED <<jpFound, jpKeys, jpMemLinks, jpDisk, jpCommand, jpExcuse>>

\* No answer, or one that is retried: the issue may exist.  The POST is
\* repeated until the retries end; then it is an error.
JPCreateLost ==
  /\ JPMayCreate /\ JPFault
  /\ \/ JPIssueAppears /\ jpExcuse' = [jpExcuse EXCEPT ![jpAt] = @ + 1]
     \/ UNCHANGED <<jpJira, jpExcuse>>
  /\ IF jpTry < JPRetries THEN jpTry' = jpTry + 1 /\ UNCHANGED <<jpAt, jpPc>> ELSE JPGoOn
  /\ UNCHANGED <<jpFound, jpKeys, jpCreated, jpMem, jpMemLinks, jpDisk, jpCommand>>

\* POST issue is refused: an error, and the next node.
JPCreateRefused ==
  /\ JPMayCreate /\ JPFault /\ JPGoOn
  /\ UNCHANGED <<jpFound, jpKeys, jpCreated, jpMem, jpMemLinks, jpDisk, jpJira, jpCommand, jpExcuse>>

\* An answer that raises something else than RuntimeError (a body that is no
\* JSON, a connection reset while it is read) ends the process, after the
\* issue was created and before any of the run's work is saved.
JPCreateDies ==
  /\ JPMayCreate /\ JPFault /\ JPIssueAppears /\ JPGone
  /\ UNCHANGED <<jpDisk, jpCommand, jpExcuse>>

\* Mutant: the entry says moved although the transition failed.
JPMoveRecords ==
  /\ jpPc = "moving"
  /\ jpMem' = [jpMem EXCEPT ![jpAt] = "moved"]
  /\ \/ jpMoved' = jpMoved \cup {jpAt} /\ UNCHANGED <<jpCount, jpSeen, jpLinks, jpFaults>>
     \/ JPFault /\ UNCHANGED jpJira
  /\ JPGoOn
  /\ UNCHANGED <<jpFound, jpKeys, jpCreated, jpMemLinks, jpDisk, jpCommand, jpExcuse>>

\* The transition to the target status, of an issue created or adopted; the
\* entry is written whether it succeeds or not.
JPMove ==
  /\ jpPc = "moving"
  /\ \/ /\ jpMoved' = jpMoved \cup {jpAt}
        /\ jpMem' = [jpMem EXCEPT ![jpAt] = "moved"]
        /\ UNCHANGED <<jpCount, jpSeen, jpLinks, jpFaults>>
     \/ /\ JPFault /\ jpMem' = [jpMem EXCEPT ![jpAt] = "key"]
        /\ UNCHANGED jpJira
  /\ JPGoOn
  /\ UNCHANGED <<jpFound, jpKeys, jpCreated, jpMemLinks, jpDisk, jpCommand, jpExcuse>>

\* Mutant: only children that are new to the state are linked.
JPLinksDueNew ==
  {n \in JPSelected : JPNeedsLink(n) /\ n \in jpKeys /\ JPParent[n] \in jpKeys /\ jpFile[n] = "none"}

\* The links of the children whose mode is issue_link, where both keys are
\* known and the state has no link yet (or --refresh-existing is given).
JPLinksDue ==
  {n \in JPSelected : JPNeedsLink(n) /\ n \in jpKeys /\ JPParent[n] \in jpKeys
                      /\ (jpArgs.refresh \/ n \notin jpMemLinks)}

JPLinkAfter(n) ==
  IF \E m \in JPLinksDue : m > n
    THEN CHOOSE m \in JPLinksDue : m > n /\ \A k \in JPLinksDue : k > n => m <= k
    ELSE 0

\* POST issueLink: done, or an error.
JPLink ==
  /\ jpPc = "linking" /\ JPLinkAfter(jpAt) # 0
  /\ jpAt' = JPLinkAfter(jpAt)
  /\ \/ /\ jpLinks' = jpLinks \cup {jpAt'} /\ jpMemLinks' = jpMemLinks \cup {jpAt'}
        /\ UNCHANGED jpFaults
     \/ JPFault /\ jpLinks' \in {jpLinks, jpLinks \cup {jpAt'}} /\ UNCHANGED jpMemLinks
  /\ UNCHANGED <<jpPc, jpFound, jpKeys, jpTry, jpCreated, jpMem, jpDisk, jpCount, jpSeen,
                 jpMoved, jpCommand, jpExcuse>>

\* Results and plan are written, then the state, once for the whole run.
JPSave ==
  /\ jpPc = "linking" /\ JPLinkAfter(jpAt) = 0
  /\ jpFile' = jpMem /\ jpFileLinks' = jpMemLinks
  /\ JPEnds
  /\ UNCHANGED <<jpMem, jpMemLinks, jpJira, jpCommand, jpExcuse, jpFaults>>

JPCrash ==
  /\ jpPc # "idle" /\ JPFault /\ JPGone
  /\ UNCHANGED <<jpDisk, jpJira, jpCommand, jpExcuse>>

\* Jira's index catches up with a node's issues.  Only a search reads it, so
\* it is enough that it moves between runs and before a search.
JPIndex ==
  /\ jpPc \in {"idle", "lookup"}
  /\ \E n \in JPNodes : jpSeen[n] < jpCount[n] /\ jpSeen' = [jpSeen EXCEPT ![n] = jpCount[n]]
  /\ UNCHANGED <<jpRun, jpDisk, jpCommand, jpCount, jpMoved, jpLinks, jpExcuse, jpFaults>>

JPProgress ==
  \/ JPBegin \/ JPPrepare \/ JPLookup \/ JPLookupFails \/ JPSkipCached \/ JPAdopt
  \/ JPSkipCreate \/ JPCreate \/ JPMove \/ JPLink \/ JPSave

JiraNext ==
  \/ JPChange \/ JPProgress \/ JPCreateNoKey \/ JPCreateLost \/ JPCreateRefused
  \/ JPCreateDies \/ JPCrash \/ JPIndex

\* The scheduler starts the next run and a run goes on; the index catches up.
JiraFairness == WF_jpVars(JPProgress) /\ WF_jpVars(JPIndex)

JiraSpec == JiraInit /\ [][JiraNext]_jpVars /\ JiraFairness

-----------------------------------------------------------------------------
JiraTypeOK ==
  /\ jpFlat \in BOOLEAN /\ jpArgs \in JPArgs /\ jpChanges \in 0 .. JPMaxChanges
  /\ jpFile \in [JPNodes -> Entries] /\ jpFileLinks \subseteq JPLinked
  /\ jpMem \in [JPNodes -> Entries] /\ jpMemLinks \subseteq JPLinked
  /\ jpPc \in {"idle", "prepare", "lookup", "nodes", "moving", "linking"}
  /\ jpAt \in JPNodes \cup {0} /\ (jpPc \in {"nodes", "moving"} => jpAt \in JPSelected)
  /\ jpFound \subseteq JPNodes /\ jpKeys \subseteq JPNodes /\ jpTry \in 0 .. JPRetries
  /\ jpCreated \in Nat /\ (JPMaxCreate > 0 => jpCreated <= JPMaxCreate)
  /\ jpCount \in [JPNodes -> Nat] /\ jpSeen \in [JPNodes -> Nat]
  /\ \A n \in JPNodes : jpSeen[n] <= jpCount[n]
  /\ jpMoved \subseteq JPNodes /\ jpLinks \subseteq JPLinked
  /\ jpExcuse \in [JPNodes -> Nat] /\ jpFaults \in 0 .. JPMaxFaults

(* A second issue for one node always has its reason: every issue beyond    *)
(* the first is paid for by a create whose answer was lost or by a search   *)
(* of an index that had not caught up.  Crashes before the state is saved,  *)
(* answers without a key, --refresh-existing and --max-create alone never   *)
(* make one, although the state is written only at the end of a run.        *)
JiraDuplicatesExplained == \A n \in JPNodes : jpCount[n] <= 1 + jpExcuse[n]

(* What the state file says is so in Jira: an entry has an issue, a status  *)
(* on record was reached, a link on record exists.                          *)
JiraStateIsTrue ==
  \A n \in JPNodes :
    /\ jpFile[n] # "none" => jpCount[n] > 0
    /\ jpFile[n] = "moved" => n \in jpMoved
    /\ n \in jpFileLinks => n \in jpLinks

(* Repeated runs publish the whole plan, whatever died in between and       *)
(* however small --max-create is, unless two issues already share a label:  *)
(* then every search that touches the label refuses.                        *)
JiraSettled ==
  \/ \E n \in JPNodes : jpCount[n] > 1
  \/ \A n \in JPSelected : /\ jpFile[n] # "none"
                           /\ JPNeedsLink(n) => n \in jpFileLinks

JiraPublishesAll == <>[]JiraSettled

=============================================================================
