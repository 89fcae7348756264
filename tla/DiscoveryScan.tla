---------------------------- MODULE DiscoveryScan ----------------------------
(***************************************************************************)
(* The discovery of parents and their subprojects (find_parent_projects.py *)
(* over blackduck/inventory.py, lineage.py and discovery_cache.py).  A run *)
(* reads the inventory of project versions, scans the bills of materials   *)
(* the cache cannot answer for, and saves the cache once, at its end.      *)
(* Black Duck changes at any time; reads fail.                             *)
(***************************************************************************)
EXTENDS Naturals, FiniteSets

CONSTANTS
  DSVersions,     \* the project versions
  DSProjectOf,    \* version -> project
  DSBoms,         \* version -> the bills of materials it may have (sets of versions)
  DSExcluded,     \* versions outside the inventory (filters, exclusions)
  DSUnmarked,     \* versions Black Duck gives no update time for
  DSMaxFaults,    \* bound: failed reads and crashes
  DSMaxChanges    \* bound: changes of the bills of materials

ASSUME DiscoveryAssumption ==
  /\ DSProjectOf \in [DSVersions -> DSVersions]
  /\ DSBoms \in [DSVersions -> SUBSET SUBSET DSVersions]
  /\ \A v \in DSVersions : DSBoms[v] # {} /\ \A b \in DSBoms[v] : v \notin b
  /\ DSExcluded \subseteq DSVersions /\ DSUnmarked \subseteq DSVersions
  /\ DSMaxFaults \in Nat /\ DSMaxChanges \in Nat

VARIABLES
  dsBom,        \* Black Duck: version -> its children now
  dsMark,       \* Black Duck: version -> its update time
  dsCache,      \* the cache file: version -> entry
  dsPc,         \* "idle" | "scan"
  dsIndex,      \* the inventory of this run: version -> update time, 0 if absent
  dsResult,     \* version -> what its scan of this run gave
  dsRows,       \* the relations this run puts out
  dsMissed,     \* a read of this run failed and no failure was recorded
  dsFaults, dsChanges

dsRemote == <<dsBom, dsMark, dsChanges>>
dsVars == <<dsRemote, dsCache, dsPc, dsIndex, dsResult, dsRows, dsMissed, dsFaults>>

NoEntry == [status |-> "none", mark |-> 0, rels |-> {}, old |-> FALSE]
DSEntries == [status : {"none", "ok", "failed"}, mark : 0 .. DSMaxChanges + 1,
              rels : SUBSET DSVersions, old : BOOLEAN]

\* The results of a scan: not asked for, not yet there, failed, the children.
DSStages == {"reuse", "todo", "failed", "done"}
Reuse == [stage |-> "reuse", rels |-> {}]

DSFault == dsFaults < DSMaxFaults /\ dsFaults' = dsFaults + 1

-----------------------------------------------------------------------------
DiscoveryInit ==
  /\ dsBom \in [DSVersions -> UNION {DSBoms[v] : v \in DSVersions}]
  /\ \A v \in DSVersions : dsBom[v] \in DSBoms[v]
  /\ dsMark = [v \in DSVersions |-> 1] /\ dsChanges = 0
  /\ dsCache = [v \in DSVersions |-> NoEntry]
  /\ dsPc = "idle" /\ dsIndex = [v \in DSVersions |-> 0]
  /\ dsResult = [v \in DSVersions |-> Reuse]
  /\ dsRows = {} /\ dsMissed = FALSE /\ dsFaults = 0

\* Somebody changes a bill of materials; the version's update time may or may
\* not follow.
DSChangeBom ==
  /\ dsChanges < DSMaxChanges
  /\ \E v \in DSVersions, moves \in BOOLEAN :
       /\ \E b \in DSBoms[v] \ {dsBom[v]} : dsBom' = [dsBom EXCEPT ![v] = b]
       /\ dsMark' = IF moves THEN [dsMark EXCEPT ![v] = @ + 1] ELSE dsMark
  /\ dsChanges' = dsChanges + 1
  /\ UNCHANGED <<dsCache, dsPc, dsIndex, dsResult, dsRows, dsMissed, dsFaults>>

\* refresh-older-than-days passes.
DSAge ==
  /\ dsPc = "idle" /\ \E v \in DSVersions : dsCache[v].status # "none" /\ ~dsCache[v].old
  /\ dsCache' = [v \in DSVersions |-> IF dsCache[v].status = "none" THEN NoEntry
                                      ELSE [dsCache[v] EXCEPT !.old = TRUE]]
  /\ UNCHANGED <<dsRemote, dsPc, dsIndex, dsResult, dsRows, dsMissed, dsFaults>>

\* Mutant: an entry is reused whatever its age.
ScanReasonIgnoresAge(v, mark) ==
  LET e == dsCache[v]
  IN  e.status # "ok" \/ e.mark # mark \/ v \in DSUnmarked

\* Why a version is scanned again: it is new, changed, failed last time, has
\* no update time, or its entry is old.
ScanReason(v, mark) ==
  LET e == dsCache[v]
  IN  e.status # "ok" \/ e.mark # mark \/ v \in DSUnmarked \/ e.old

\* The inventory: the versions of every project that can be read.
DSInventoryWithout(lost) ==
  [v \in DSVersions |-> IF v \in DSExcluded \/ DSProjectOf[v] \in lost THEN 0 ELSE dsMark[v]]

\* The inventory and the scan plan.  A project whose versions cannot be read
\* is left out with a warning; a cached version that is not in the inventory
\* is pruned, which the next save makes lasting.
DSInventory ==
  /\ dsPc = "idle"
  /\ \E lost \in SUBSET {DSProjectOf[v] : v \in DSVersions} :
       /\ dsIndex' = DSInventoryWithout(lost)
       /\ dsMissed' = (lost # {})
       /\ IF lost = {} THEN UNCHANGED dsFaults ELSE DSFault
  /\ dsResult' = [v \in DSVersions |->
       IF dsIndex'[v] # 0 /\ ScanReason(v, dsIndex'[v])
         THEN [stage |-> "todo", rels |-> {}] ELSE Reuse]
  /\ dsPc' = "scan" /\ dsRows' = {}
  /\ UNCHANGED <<dsRemote, dsCache>>

\* A worker scans one version.  A child in the inventory is taken from it; any
\* other one is read, and left out of the result when that read fails.
DSScan(v) ==
  /\ dsPc = "scan" /\ dsResult[v].stage = "todo"
  /\ \/ /\ dsResult' = [dsResult EXCEPT ![v] = [stage |-> "done", rels |-> dsBom[v]]]
        /\ UNCHANGED <<dsMissed, dsFaults>>
     \/ /\ \E lost \in (SUBSET {c \in dsBom[v] : dsIndex[c] = 0}) \ {{}} :
             dsResult' = [dsResult EXCEPT ![v] = [stage |-> "done", rels |-> dsBom[v] \ lost]]
        /\ dsMissed' = TRUE /\ DSFault
     \/ /\ dsResult' = [dsResult EXCEPT ![v] = [stage |-> "failed", rels |-> {}]]
        /\ DSFault /\ UNCHANGED dsMissed
  /\ UNCHANGED <<dsRemote, dsCache, dsPc, dsIndex, dsRows>>

\* The entry a scan leaves: a failed one keeps the relations known before.
DSEntryAfter(v) ==
  CASE dsIndex[v] = 0 -> NoEntry
    [] dsResult[v].stage = "done" ->
         [status |-> "ok", mark |-> dsIndex[v], rels |-> dsResult[v].rels, old |-> FALSE]
    [] dsResult[v].stage = "failed" ->
         [status |-> "failed", mark |-> dsIndex[v], rels |-> dsCache[v].rels, old |-> FALSE]
    [] OTHER -> dsCache[v]

\* All results are in: the relations are put out and the cache is saved.
DSFinish ==
  /\ dsPc = "scan" /\ \A v \in DSVersions : dsResult[v].stage # "todo"
  /\ dsCache' = [v \in DSVersions |-> DSEntryAfter(v)]
  /\ dsRows' = {row \in DSVersions \X DSVersions : row[2] \in dsCache'[row[1]].rels}
  /\ dsPc' = "idle" /\ dsResult' = [v \in DSVersions |-> Reuse]
  /\ UNCHANGED <<dsRemote, dsIndex, dsMissed, dsFaults>>

\* The circuit opens, or the process dies: nothing of the run is kept.
DSStops ==
  /\ dsPc = "scan" /\ DSFault
  /\ dsPc' = "idle" /\ dsResult' = [v \in DSVersions |-> Reuse]
  /\ UNCHANGED <<dsRemote, dsCache, dsIndex, dsRows, dsMissed>>

DSRun == DSInventory \/ (\E v \in DSVersions : DSScan(v)) \/ DSFinish

DiscoveryNext == DSChangeBom \/ DSAge \/ DSRun \/ DSStops

\* Scheduled runs go on, and days pass between them.
DiscoveryFairness == WF_dsVars(DSRun) /\ SF_dsVars(DSAge)

DiscoverySpec == DiscoveryInit /\ [][DiscoveryNext]_dsVars /\ DiscoveryFairness

-----------------------------------------------------------------------------
DiscoveryTypeOK ==
  /\ dsBom \in [DSVersions -> SUBSET DSVersions] /\ \A v \in DSVersions : dsBom[v] \in DSBoms[v]
  /\ dsMark \in [DSVersions -> 1 .. DSMaxChanges + 1] /\ dsChanges \in 0 .. DSMaxChanges
  /\ dsCache \in [DSVersions -> DSEntries]
  /\ dsPc \in {"idle", "scan"} /\ dsIndex \in [DSVersions -> 0 .. DSMaxChanges + 1]
  /\ dsResult \in [DSVersions -> [stage : DSStages, rels : SUBSET DSVersions]]
  /\ dsPc = "idle" => \A v \in DSVersions : dsResult[v] = Reuse
  /\ dsRows \subseteq DSVersions \X DSVersions
  /\ dsMissed \in BOOLEAN /\ dsFaults \in 0 .. DSMaxFaults

(* The cache comes to tell the truth: whatever reads failed, whichever       *)
(* children were left out of a scan that counts as good, and whether or not *)
(* a change moved the update time, scheduled runs end with exactly the      *)
(* relations Black Duck has, because every entry is scanned again when old. *)
DiscoverySettled ==
  \A v \in DSVersions \ DSExcluded :
    dsCache[v].status = "ok" /\ dsCache[v].rels = dsBom[v]

DiscoveryConverges == <>[]DiscoverySettled

=============================================================================
