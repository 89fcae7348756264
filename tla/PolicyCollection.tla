--------------------------- MODULE PolicyCollection ---------------------------
(***************************************************************************)
(* The Datadog collection in two commands: blackduck-policy-vuln-find      *)
(* (datadog/policy_vuln_find.py) writes the candidate project versions,    *)
(* what changed among them and a trigger; blackduck-policy-vuln-pull       *)
(* (datadog/policy_vuln_pull.py) pulls the findings of every candidate,    *)
(* in one process or in shards, and resumes from a state file.             *)
(***************************************************************************)
EXTENDS Naturals, FiniteSets

CONSTANTS
  PVVersions,       \* the project versions
  PVEvery,          \* --cache-save-every: results between two checkpoints
  PVShards,         \* --shard-count
  PVMaxContent,     \* bound: 0 is no candidate, the others differ in a count
  PVMaxFaults,      \* bound: failed reads, limits reached and crashes
  PVMaxChanges      \* bound: changes of a version in Black Duck

ASSUME PolicyAssumption ==
  /\ PVVersions \subseteq Nat /\ IsFiniteSet(PVVersions)
  /\ PVEvery \in Nat \ {0} /\ PVShards \in Nat \ {0} /\ PVMaxContent \in Nat \ {0}
  /\ PVMaxFaults \in Nat /\ PVMaxChanges \in Nat

Contents == 0 .. PVMaxContent

VARIABLES
  pvNow, pvMark,    \* Black Duck: version -> what it holds, its update time
  pvFile,           \* the finder's cache file: version -> entry
  pvCache,          \* the cache in the finder's memory
  pvFind,           \* "idle" | "scan" | "out" | "trigger" | "save"
  pvTodo,           \* version -> its update time in the inventory, 0 if not to be scanned
  pvBefore,         \* version -> content of its entry when the run began
  pvRows,           \* version -> content of its row in this run, 0 without one
  pvScanned,        \* how many were scanned
  pvOut,            \* the candidate file
  pvTold,           \* the candidate file a trigger was last written for
  pvTrigger,        \* should_trigger_pull of that trigger
  pvPull,           \* shard -> "idle" | "pull" | "findings" | "failures" | "done" | "dead"
  pvWant,           \* the candidates of this pull
  pvStates,         \* <<shard, shard count>> -> the state file
  pvMem,            \* shard -> the state in its memory
  pvShardOut,       \* <<shard, shard count>> -> the two outputs of a shard
  pvFinal,          \* the outputs and the exit code of the last pull, and whether
                    \*   the shards' failures were merged into the code
  pvLimited,        \* shards that stopped at the runtime limit
  pvFaults, pvChanges

pvWorld == <<pvNow, pvMark, pvChanges>>
pvFinder == <<pvFile, pvCache, pvFind, pvTodo, pvBefore, pvRows, pvScanned, pvOut,
              pvTold, pvTrigger>>
pvPuller == <<pvPull, pvWant, pvStates, pvMem, pvShardOut, pvFinal, pvLimited>>
pvVars == <<pvWorld, pvFinder, pvPuller, pvFaults>>

NoCandidate == [status |-> "none", content |-> 0, mark |-> 0, old |-> FALSE]
NotPulled == [status |-> "none", content |-> 0]
Everyone(x) == [v \in PVVersions |-> x]

PVShardIds == 1 .. PVShards
PVFiles == {f \in PVShardIds \X PVShardIds : f[1] <= f[2]}   \* shard, shard count

PVFault == pvFaults < PVMaxFaults /\ pvFaults' = pvFaults + 1

-----------------------------------------------------------------------------
PolicyInit ==
  /\ pvNow \in [PVVersions -> Contents] /\ pvMark = Everyone(1) /\ pvChanges = 0
  /\ pvFile = Everyone(NoCandidate) /\ pvCache = Everyone(NoCandidate)
  /\ pvFind = "idle" /\ pvTodo = Everyone(0) /\ pvBefore = Everyone(0)
  /\ pvRows = Everyone(0) /\ pvScanned = 0
  /\ pvOut = Everyone(0) /\ pvTold = Everyone(0) /\ pvTrigger = FALSE
  /\ pvPull = [k \in PVShardIds |-> "idle"] /\ pvWant = {} /\ pvLimited = {}
  /\ pvStates = [f \in PVFiles |-> Everyone(NotPulled)]
  /\ pvMem = [k \in PVShardIds |-> Everyone(NotPulled)]
  /\ pvShardOut = [f \in PVFiles |-> [rows |-> Everyone(0), failed |-> {}]]
  /\ pvFinal = [rows |-> Everyone(0), code |-> 1, merged |-> TRUE]
  /\ pvFaults = 0

\* A version changes in Black Duck; its update time may stay behind.
PVChange ==
  /\ pvChanges < PVMaxChanges /\ pvChanges' = pvChanges + 1
  /\ \E v \in PVVersions, moves \in BOOLEAN :
       /\ \E c \in Contents \ {pvNow[v]} : pvNow' = [pvNow EXCEPT ![v] = c]
       /\ pvMark' = IF moves THEN [pvMark EXCEPT ![v] = @ + 1] ELSE pvMark
  /\ UNCHANGED <<pvFinder, pvPuller, pvFaults>>

\* --refresh-older-than-hours pass between two runs.
PVAge ==
  /\ pvFind = "idle" /\ \E v \in PVVersions : pvFile[v].status # "none" /\ ~pvFile[v].old
  /\ pvFile' = [v \in PVVersions |-> [pvFile[v] EXCEPT !.old = pvFile[v].status # "none"]]
  /\ pvCache' = pvFile'
  /\ UNCHANGED <<pvWorld, pvFind, pvTodo, pvBefore, pvRows, pvScanned, pvOut, pvTold, pvTrigger,
                 pvPuller, pvFaults>>

-----------------------------------------------------------------------------
\* The finder.

PVReusable(v) ==
  /\ pvFile[v].status = "ok" /\ pvFile[v].mark = pvMark[v] /\ ~pvFile[v].old

\* The inventory, without a project that cannot be read; the rows of the
\* entries that can be reused are in the output already.
PVBegin ==
  /\ pvFind = "idle"
  /\ \E lost \in SUBSET PVVersions :
       /\ pvTodo' = [v \in PVVersions |->
            IF v \in lost \/ PVReusable(v) THEN 0 ELSE pvMark[v]]
       /\ pvRows' = [v \in PVVersions |->
            IF v \notin lost /\ PVReusable(v) THEN pvFile[v].content ELSE 0]
       /\ IF lost = {} THEN UNCHANGED pvFaults ELSE PVFault
  /\ pvBefore' = [v \in PVVersions |-> pvFile[v].content]
  /\ pvCache' = pvFile /\ pvScanned' = 0 /\ pvFind' = "scan"
  /\ UNCHANGED <<pvWorld, pvFile, pvOut, pvTold, pvTrigger, pvPuller>>

\* A result enters the cache; every PVEvery of them the cache is saved.  A
\* version that cannot be scanned is no candidate in its entry.
PVApply(v, entry) ==
  /\ pvTodo' = [pvTodo EXCEPT ![v] = 0] /\ pvScanned' = pvScanned + 1
  /\ pvCache' = [pvCache EXCEPT ![v] = entry]
  /\ pvRows' = [pvRows EXCEPT ![v] = entry.content]
  /\ pvFile' = IF pvScanned' % PVEvery = 0 THEN pvCache' ELSE pvFile
  /\ UNCHANGED <<pvWorld, pvFind, pvBefore, pvOut, pvTold, pvTrigger, pvPuller>>

PVScan(v) ==
  /\ pvFind = "scan" /\ pvTodo[v] # 0
  /\ PVApply(v, [status |-> "ok", content |-> pvNow[v], mark |-> pvTodo[v], old |-> FALSE])
  /\ UNCHANGED pvFaults

PVScanFails(v) ==
  /\ pvFind = "scan" /\ pvTodo[v] # 0 /\ PVFault
  /\ PVApply(v, [status |-> "failed", content |-> 0, mark |-> pvTodo[v], old |-> FALSE])

\* All are scanned, or the runtime limit is reached.
PVScanEnds ==
  /\ pvFind = "scan" /\ IF pvTodo = Everyone(0) THEN UNCHANGED pvFaults ELSE PVFault
  /\ pvFind' = "out" /\ pvTodo' = Everyone(0)
  /\ UNCHANGED <<pvWorld, pvFile, pvCache, pvBefore, pvRows, pvScanned, pvOut, pvTold, pvTrigger, pvPuller>>

PVWritesOut ==
  /\ pvFind = "out"
  /\ pvOut' = pvRows /\ pvFind' = "trigger"
  /\ UNCHANGED <<pvWorld, pvFile, pvCache, pvTodo, pvBefore, pvRows, pvScanned, pvTold, pvTrigger,
                 pvPuller, pvFaults>>

\* Added, removed and changed candidates, against the cache as it was loaded.
PVTriggers ==
  /\ pvFind = "trigger"
  /\ pvTrigger' = (pvRows # pvBefore) /\ pvTold' = pvRows /\ pvFind' = "save"
  /\ UNCHANGED <<pvWorld, pvFile, pvCache, pvTodo, pvBefore, pvRows, pvScanned, pvOut, pvPuller, pvFaults>>

PVFindEnds(file) ==
  /\ pvFile' = file /\ pvCache' = file /\ pvFind' = "idle"
  /\ pvTodo' = Everyone(0) /\ pvBefore' = Everyone(0) /\ pvRows' = Everyone(0) /\ pvScanned' = 0
  /\ UNCHANGED <<pvWorld, pvOut, pvTold, pvTrigger, pvPuller>>

PVSaves == pvFind = "save" /\ PVFindEnds(pvCache) /\ UNCHANGED pvFaults

\* The process dies; interrupted during the scans it still saves the cache.
PVFindDies ==
  /\ pvFind # "idle" /\ PVFault
  /\ \/ PVFindEnds(pvFile)
     \/ pvFind = "scan" /\ PVFindEnds(pvCache)

-----------------------------------------------------------------------------
\* The puller.

\* Candidate i of the list goes to shard i modulo the number of shards.
PVShardCount(want) == IF Cardinality(want) < PVShards THEN Cardinality(want) ELSE PVShards
PVShardOf(v, want) ==
  1 + (Cardinality({u \in want : u < v}) % PVShardCount(want))
PVMine(k) == {v \in pvWant : PVShardOf(v, pvWant) = k}
PVFileOf(k) == <<k, PVShardCount(pvWant)>>
PVActive == {k \in PVShardIds : k <= PVShardCount(pvWant)}

\* A pull of the candidates in the file begins; every shard loads its state
\* file, or starts afresh with --no-resume.
PVPull ==
  /\ \A k \in PVShardIds : pvPull[k] = "idle"
  /\ pvWant' = {v \in PVVersions : pvOut[v] # 0} /\ pvWant' # {}
  /\ \E resume \in BOOLEAN :
       pvMem' = [k \in PVShardIds |->
         IF resume /\ k <= PVShardCount(pvWant') THEN pvStates[<<k, PVShardCount(pvWant')>>]
         ELSE Everyone(NotPulled)]
  /\ pvPull' = [k \in PVShardIds |-> IF k <= PVShardCount(pvWant') THEN "pull" ELSE "done"]
  /\ pvLimited' = {}
  /\ UNCHANGED <<pvWorld, pvFinder, pvStates, pvShardOut, pvFinal, pvFaults>>

\* One candidate is pulled: its entry, whatever became of it, counts as
\* completed from now on, and the state is saved.
PVPulls(k, v) ==
  /\ pvPull[k] = "pull" /\ v \in PVMine(k) /\ pvMem[k][v] = NotPulled
  /\ \E status \in {"ok", "partial", "failed"} :
       /\ pvMem' = [pvMem EXCEPT ![k][v] =
            [status |-> status, content |-> IF status = "ok" THEN pvNow[v] ELSE 0]]
       /\ IF status = "ok" THEN UNCHANGED pvFaults ELSE PVFault
  /\ pvStates' = [pvStates EXCEPT ![PVFileOf(k)] = pvMem'[k]]
  /\ UNCHANGED <<pvWorld, pvFinder, pvPull, pvWant, pvShardOut, pvFinal, pvLimited>>

\* All candidates have an entry, or the runtime limit is reached.
PVPulled(k) ==
  /\ pvPull[k] = "pull"
  /\ IF \A v \in PVMine(k) : pvMem[k][v] # NotPulled
       THEN UNCHANGED <<pvLimited, pvFaults>> ELSE PVFault /\ pvLimited' = pvLimited \cup {k}
  /\ pvStates' = [pvStates EXCEPT ![PVFileOf(k)] = pvMem[k]]
  /\ pvPull' = [pvPull EXCEPT ![k] = "findings"]
  /\ UNCHANGED <<pvWorld, pvFinder, pvWant, pvMem, pvShardOut, pvFinal>>

\* Mutant: a partial pull is no failure.
PVFailedOnly(k) == {v \in PVMine(k) : pvMem[k][v].status = "failed"}

\* The failures of the run: those of this process, and those the state kept.
PVFailed(k) == {v \in PVMine(k) : pvMem[k][v].status \in {"partial", "failed"}}

PVWritesFindings(k) ==
  /\ pvPull[k] = "findings"
  /\ pvShardOut' = [pvShardOut EXCEPT ![PVFileOf(k)].rows =
       [v \in PVVersions |-> IF v \in PVMine(k) THEN pvMem[k][v].content ELSE 0]]
  /\ pvPull' = [pvPull EXCEPT ![k] = "failures"]
  /\ UNCHANGED <<pvWorld, pvFinder, pvWant, pvStates, pvMem, pvFinal, pvLimited, pvFaults>>

PVWritesFailures(k) ==
  /\ pvPull[k] = "failures"
  /\ pvShardOut' = [pvShardOut EXCEPT ![PVFileOf(k)].failed = PVFailed(k)]
  /\ pvPull' = [pvPull EXCEPT ![k] = "done"]
  /\ UNCHANGED <<pvWorld, pvFinder, pvWant, pvStates, pvMem, pvFinal, pvLimited, pvFaults>>

\* A worker dies.  The state file stays for the next run.
PVPullDies(k) ==
  /\ pvPull[k] \in {"pull", "findings", "failures"} /\ PVFault
  /\ pvPull' = [pvPull EXCEPT ![k] = "dead"]
  /\ UNCHANGED <<pvWorld, pvFinder, pvWant, pvStates, pvMem, pvShardOut, pvFinal, pvLimited>>

\* The parent merges what the shards' files hold once all have ended, however
\* they ended; the exit code is that of the failures, and with an empty
\* --failures-out of none.  (A process that is not sharded is its only shard,
\* counts its own failures, and ends with it.)
PVEnds ==
  /\ \A k \in PVShardIds : pvPull[k] \in {"done", "dead"}
  /\ \E merged \in {TRUE} \cup {PVShards = 1} :
       pvFinal' =
         [rows |-> [v \in PVVersions |->
            LET holding == {k \in PVActive : pvShardOut[PVFileOf(k)].rows[v] # 0}
            IN  IF holding = {} THEN 0
                ELSE pvShardOut[PVFileOf(CHOOSE k \in holding : \A l \in holding : k <= l)].rows[v]],
          code |-> IF PVShards = 1 /\ pvPull[1] = "dead" THEN 130
                   ELSE IF merged /\ \E k \in PVActive : pvShardOut[PVFileOf(k)].failed # {} THEN 1 ELSE 0,
          merged |-> merged]
  /\ pvPull' = [k \in PVShardIds |-> "idle"]
  /\ pvMem' = [k \in PVShardIds |-> Everyone(NotPulled)]
  /\ UNCHANGED <<pvWorld, pvFinder, pvWant, pvStates, pvShardOut, pvLimited, pvFaults>>

PolicyNext ==
  \/ PVChange \/ PVAge
  \/ PVBegin \/ PVScanEnds \/ PVWritesOut \/ PVTriggers \/ PVSaves \/ PVFindDies
  \/ \E v \in PVVersions : PVScan(v) \/ PVScanFails(v)
  \/ PVPull \/ PVEnds
  \/ \E k \in PVShardIds :
       \/ \E v \in PVVersions : PVPulls(k, v)
       \/ PVPulled(k) \/ PVWritesFindings(k) \/ PVWritesFailures(k) \/ PVPullDies(k)

PolicySpec == PolicyInit /\ [][PolicyNext]_pvVars

-----------------------------------------------------------------------------
PVEntries == [status : {"none", "ok", "failed"}, content : Contents,
              mark : 0 .. PVMaxChanges + 1, old : BOOLEAN]
PVStates == [status : {"none", "ok", "partial", "failed"}, content : Contents]

PolicyTypeOK ==
  /\ pvNow \in [PVVersions -> Contents] /\ pvMark \in [PVVersions -> 1 .. PVMaxChanges + 1]
  /\ pvFile \in [PVVersions -> PVEntries] /\ pvCache \in [PVVersions -> PVEntries]
  /\ pvFind \in {"idle", "scan", "out", "trigger", "save"}
  /\ pvTodo \in [PVVersions -> 0 .. PVMaxChanges + 1]
  /\ {pvBefore, pvRows, pvOut, pvTold} \subseteq [PVVersions -> Contents]
  /\ pvScanned <= Cardinality(PVVersions) /\ pvTrigger \in BOOLEAN
  /\ pvPull \in [PVShardIds -> {"idle", "pull", "findings", "failures", "done", "dead"}]
  /\ pvWant \subseteq PVVersions /\ pvLimited \subseteq PVShardIds
  /\ pvStates \in [PVFiles -> [PVVersions -> PVStates]]
  /\ pvMem \in [PVShardIds -> [PVVersions -> PVStates]]
  /\ pvShardOut \in [PVFiles -> [rows : [PVVersions -> Contents], failed : SUBSET PVVersions]]
  /\ pvFinal \in [rows : [PVVersions -> Contents], code : {0, 1, 130}, merged : BOOLEAN]
  /\ pvFaults \in 0 .. PVMaxFaults /\ pvChanges \in 0 .. PVMaxChanges

(* An exit code of zero is not given away: when no worker died or stopped   *)
(* at the limit, and there is a file to merge the failures into, a pull     *)
(* that ends with 0 puts out what was pulled of every candidate it was      *)
(* given, though most were pulled by earlier runs, in other shards' files,  *)
(* and some of those pulls had failed.                                      *)
(* (load_completed_from_state, run_sharded, merge_failure_files.)           *)
PolicySuccessIsComplete ==
  [][\A k \in PVShardIds :
       /\ pvPull[k] = "done" /\ pvPull'[k] = "idle"
       /\ pvFinal'.code = 0 /\ pvFinal'.merged /\ pvLimited = {} /\ \A l \in PVShardIds : pvPull[l] # "dead"
       => \A v \in PVMine(k) :
            pvMem[k][v].status = "ok" /\ pvFinal'.rows[v] = pvMem[k][v].content]_pvVars

=============================================================================
