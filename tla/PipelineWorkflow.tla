-------------------------- MODULE PipelineWorkflow --------------------------
(***************************************************************************)
(* The Jira pipeline (jira/pipeline_workflow.py): under the pipeline lock  *)
(* a run discovers parents (DiscoveryScan), collects the roll-up, vets     *)
(* both, plans and publishes, promotes its files one after the other to    *)
(* the active directory, records its summary and prunes old run            *)
(* directories.  Runs overlap: a run makes its directory before it asks    *)
(* for the lock, a run that fails gives the lock back before it records    *)
(* its failure, and a run may die anywhere.                                *)
(*                                                                         *)
(* Runs are numbered in the order of their names.  The lock is taken for   *)
(* what PipelineLock shows of it: one holder, and the lock of a dead run   *)
(* can be taken over.                                                      *)
(***************************************************************************)
EXTENDS DiscoveryScan, Sequences

CONSTANTS
  PWRuns,        \* the runs, 1 .. n
  PWRetain,      \* --retain-runs
  PWArgs         \* the command lines tried: [strict, empty, apply, preflight]

ASSUME WorkflowAssumption ==
  /\ PWRuns \subseteq Nat \ {0} /\ PWRetain \in Nat \ {0}
  /\ PWArgs \subseteq [strict : BOOLEAN, empty : BOOLEAN, apply : BOOLEAN, preflight : BOOLEAN]

VARIABLES
  pwPc, pwArgs,     \* where each run is, and its command line
  pwLock,           \* the run that holds the lock, 0 when it is free
  pwGaps,           \* run -> it counted failed scans or failed relationships
  pwDirs,           \* the run directories
  pwActive,         \* active output -> run it is from, 0 at first
  pwTorn,           \* a promotion was left in the middle, none completed since
  pwSummary,        \* the active summary: [run, status]
  pwPublished       \* runs whose publishing stage applied changes to Jira

pwShared == <<pwLock, pwDirs, pwActive, pwTorn, pwSummary, pwPublished>>
pwVars == <<pwPc, pwArgs, pwGaps, pwShared>>

\* The files promote_outputs copies, by the stage that writes them.
PWNames == <<"parents", "findings", "plan", "results">>

PWStages == {"none", "locking", "preflight", "parents", "rows", "rollup", "vet", "plan",
             "publish", "promote1", "promote2", "promote3", "promote4", "finish", "prune",
             "rejected", "failed", "locked", "done", "dead"}
PWHolding == PWStages \ {"none", "locking", "rejected", "failed", "locked", "done", "dead"}

PWGoto(r, s) == pwPc' = [pwPc EXCEPT ![r] = s]

\* save_summary writes the run's own summary, which makes its directory if
\* that is gone, and the active one.
PWSave(r, status) ==
  pwSummary' = [run |-> r, status |-> status] /\ pwDirs' = pwDirs \cup {r}

\* A stage raised, returned another code than 0 or left no output: the lock
\* is released on the way out, the summary is written after that.
PWLeave(r, how) ==
  /\ PWGoto(r, how) /\ pwLock' = 0
  /\ UNCHANGED <<pwDirs, pwActive, pwSummary, pwPublished>>

-----------------------------------------------------------------------------
WorkflowInit ==
  /\ DiscoveryInit
  /\ pwPc = [r \in PWRuns |-> "none"]
  /\ pwArgs \in [PWRuns -> PWArgs]
  /\ pwLock = 0
  /\ pwGaps = [r \in PWRuns |-> FALSE]
  /\ pwDirs = {} /\ pwActive = [i \in 1 .. Len(PWNames) |-> 0] /\ pwTorn = FALSE
  /\ pwSummary = [run |-> 0, status |-> "none"] /\ pwPublished = {}

\* The next run makes its directory.
PWStart(r) ==
  /\ pwPc[r] = "none" /\ \A q \in PWRuns : q < r => pwPc[q] # "none"
  /\ PWGoto(r, "locking") /\ pwDirs' = pwDirs \cup {r}
  /\ UNCHANGED <<dsVars, pwArgs, pwGaps, pwLock, pwActive, pwTorn, pwSummary, pwPublished>>

\* Mutant: the lock of a run that still works is taken over.
PWFreeAlways == pwLock \in PWRuns \cup {0}

\* The lock is free, or its holder is dead and the lock stale.
PWFree == pwLock \in {0} \cup {q \in PWRuns : pwPc[q] = "dead"}

PWEnter(r) ==
  /\ pwPc[r] = "locking" /\ PWFree
  /\ PWGoto(r, "preflight") /\ pwLock' = r
  /\ UNCHANGED <<dsVars, pwArgs, pwGaps, pwDirs, pwActive, pwTorn, pwSummary, pwPublished>>

\* The lock is held (or not yet stale): the run ends, but records its failure
\* like any other, in the active summary too.
PWLockedOut(r) ==
  /\ pwPc[r] = "locking" /\ pwLock # 0
  /\ PWGoto(r, "locked")
  /\ UNCHANGED <<dsVars, pwArgs, pwGaps, pwShared>>

\* The environment is valid; --preflight-only ends here.
PWPreflight(r) ==
  /\ pwPc[r] = "preflight"
  /\ IF pwArgs[r].preflight
       THEN PWGoto(r, "done") /\ PWSave(r, "succeeded") /\ pwLock' = 0
       ELSE PWGoto(r, "parents") /\ PWSave(r, "running") /\ UNCHANGED pwLock
  /\ UNCHANGED <<dsVars, pwArgs, pwGaps, pwActive, pwTorn, pwPublished>>

\* Stage find-parent-projects.
PWDiscovers(r) ==
  /\ pwPc[r] = "parents"
  /\ DSInventory \/ \E v \in DSVersions : DSScan(v)
  /\ UNCHANGED pwVars

PWDiscovered(r) ==
  /\ pwPc[r] = "parents" /\ DSFinish
  /\ PWGoto(r, "rows") /\ pwDirs' = pwDirs \cup {r}
  /\ UNCHANGED <<pwArgs, pwGaps, pwLock, pwActive, pwTorn, pwSummary, pwPublished>>

\* The failed scans on record in the cache file.
PWScanFailures == \E v \in DSVersions : dsCache[v].status = "failed"

\* No relationships: refused unless --allow-empty.
PWRowsOrLeave(r) ==
  IF dsRows = {} /\ ~pwArgs[r].empty
    THEN PWLeave(r, "rejected")
    ELSE PWGoto(r, "rollup") /\ PWSave(r, "running") /\ UNCHANGED <<pwLock, pwActive, pwPublished>>

\* Mutant: the failed scans are not counted.
PWCountsRowsOnly(r) ==
  /\ pwPc[r] = "rows" /\ PWRowsOrLeave(r)
  /\ UNCHANGED <<dsVars, pwArgs, pwGaps, pwTorn>>

\* The failed scans in the cache are counted.
PWCountsRows(r) ==
  /\ pwPc[r] = "rows" /\ PWRowsOrLeave(r)
  /\ pwGaps' = [pwGaps EXCEPT ![r] = PWScanFailures]
  /\ UNCHANGED <<dsVars, pwArgs, pwTorn>>

\* Stage collect-vulnerability-rollup: a relationship whose child cannot be
\* read or collected goes to the failure report.  Without findings the run
\* is refused unless --allow-empty.
PWCollects(r) ==
  /\ pwPc[r] = "rollup"
  /\ \/ pwGaps' = pwGaps /\ UNCHANGED dsFaults
     \/ dsRows # {} /\ pwGaps' = [pwGaps EXCEPT ![r] = TRUE] /\ DSFault
  /\ \/ /\ dsRows # {} \/ pwArgs[r].empty
        /\ PWGoto(r, "vet") /\ PWSave(r, "running") /\ UNCHANGED <<pwLock, pwActive, pwPublished>>
     \/ ~pwArgs[r].empty /\ PWLeave(r, "rejected")
  /\ UNCHANGED <<dsRemote, dsCache, dsPc, dsIndex, dsResult, dsRows, dsMissed>>
  /\ UNCHANGED <<pwArgs, pwTorn>>

\* Strict mode refuses to publish when failures were counted.
PWVets(r) ==
  /\ pwPc[r] = "vet"
  /\ IF pwGaps[r] /\ pwArgs[r].strict
       THEN PWLeave(r, "rejected")
       ELSE PWGoto(r, "plan") /\ PWSave(r, "running") /\ UNCHANGED <<pwLock, pwActive, pwPublished>>
  /\ UNCHANGED <<dsVars, pwArgs, pwGaps, pwTorn>>

\* Stage build-jira-hierarchy; a plan without nodes is refused unless
\* --allow-empty.
PWPlans(r) ==
  /\ pwPc[r] = "plan"
  /\ \/ /\ dsRows # {} \/ pwArgs[r].empty
        /\ PWGoto(r, "publish") /\ PWSave(r, "running") /\ UNCHANGED <<pwLock, pwActive, pwPublished>>
     \/ ~pwArgs[r].empty /\ PWLeave(r, "rejected")
  /\ UNCHANGED <<dsVars, pwArgs, pwGaps, pwTorn>>

\* Stage publish-jira-hierarchy, with --apply.
PWPublishes(r) ==
  /\ pwPc[r] = "publish"
  /\ pwPublished' = IF pwArgs[r].apply THEN pwPublished \cup {r} ELSE pwPublished
  /\ PWGoto(r, "promote1")
  /\ UNCHANGED <<dsVars, pwArgs, pwGaps, pwLock, pwDirs, pwActive, pwTorn, pwSummary>>

\* The publisher reports errors: Jira may have changed, nothing is promoted.
PWPublishFails(r) ==
  /\ pwPc[r] = "publish" /\ DSFault
  /\ pwPublished' \in {pwPublished, IF pwArgs[r].apply THEN pwPublished \cup {r} ELSE pwPublished}
  /\ PWGoto(r, "failed") /\ pwLock' = 0
  /\ UNCHANGED <<dsRemote, dsCache, dsPc, dsIndex, dsResult, dsRows, dsMissed>>
  /\ UNCHANGED <<pwArgs, pwGaps, pwDirs, pwActive, pwTorn, pwSummary>>

PWPromoting == <<"promote1", "promote2", "promote3", "promote4", "finish">>

\* The next file is copied to the active directory, by an atomic replacement.
PWPromotes(r) ==
  \E i \in 1 .. Len(PWNames) :
    /\ pwPc[r] = PWPromoting[i]
    /\ pwActive' = [pwActive EXCEPT ![i] = r]
    /\ PWGoto(r, PWPromoting[i + 1])
    /\ pwTorn' = IF i = Len(PWNames) THEN FALSE ELSE pwTorn
    /\ UNCHANGED <<dsVars, pwArgs, pwGaps, pwLock, pwDirs, pwSummary, pwPublished>>

PWFinishes(r) ==
  /\ pwPc[r] = "finish"
  /\ PWSave(r, IF pwGaps[r] THEN "partial" ELSE "succeeded")
  /\ PWGoto(r, "prune")
  /\ UNCHANGED <<dsVars, pwArgs, pwGaps, pwLock, pwActive, pwTorn, pwPublished>>

\* The other directories beyond the newest --retain-runs - 1 are removed; the
\* lock is released.
PWPrunes(r) ==
  /\ pwPc[r] = "prune"
  /\ pwDirs' = {q \in pwDirs : q = r \/ Cardinality({s \in pwDirs \ {r} : s > q}) < PWRetain - 1}
  /\ PWGoto(r, "done") /\ pwLock' = 0
  /\ UNCHANGED <<dsVars, pwArgs, pwGaps, pwActive, pwTorn, pwSummary, pwPublished>>

\* A stage fails, or the run is interrupted.
PWFails(r) ==
  /\ pwPc[r] \in PWHolding /\ DSFault
  /\ PWLeave(r, "failed")
  /\ pwTorn' = (pwTorn \/ pwPc[r] \in {"promote2", "promote3", "promote4"})
  /\ dsPc' = "idle" /\ dsResult' = [v \in DSVersions |-> Reuse]
  /\ UNCHANGED <<dsRemote, dsCache, dsIndex, dsRows, dsMissed, pwArgs, pwGaps>>

\* The failure is recorded after the lock was given back.
PWRecords(r) ==
  /\ pwPc[r] \in {"rejected", "failed", "locked"}
  /\ PWSave(r, IF pwPc[r] = "rejected" THEN "skipped_publish" ELSE "failed")
  /\ PWGoto(r, "done")
  /\ UNCHANGED <<dsVars, pwArgs, pwGaps, pwLock, pwActive, pwTorn, pwPublished>>

PWDies(r) ==
  /\ pwPc[r] \in PWHolding /\ DSFault
  /\ PWGoto(r, "dead")
  /\ pwTorn' = (pwTorn \/ pwPc[r] \in {"promote2", "promote3", "promote4"})
  /\ dsPc' = "idle" /\ dsResult' = [v \in DSVersions |-> Reuse]
  /\ UNCHANGED <<dsRemote, dsCache, dsIndex, dsRows, dsMissed>>
  /\ UNCHANGED <<pwArgs, pwGaps, pwLock, pwDirs, pwActive, pwSummary, pwPublished>>

\* Black Duck changes and time passes whatever the runs do.
PWWorld == (DSChangeBom \/ DSAge) /\ UNCHANGED pwVars

PWNext(r) ==
  \/ PWStart(r) \/ PWEnter(r) \/ PWLockedOut(r) \/ PWPreflight(r) \/ PWDiscovers(r)
  \/ PWDiscovered(r) \/ PWCountsRows(r) \/ PWCollects(r) \/ PWVets(r) \/ PWPlans(r)
  \/ PWPublishes(r) \/ PWPublishFails(r) \/ PWPromotes(r) \/ PWFinishes(r) \/ PWPrunes(r)
  \/ PWFails(r) \/ PWRecords(r) \/ PWDies(r)

WorkflowNext == PWWorld \/ \E r \in PWRuns : PWNext(r)

WorkflowSpec == WorkflowInit /\ [][WorkflowNext]_<<dsVars, pwVars>>

-----------------------------------------------------------------------------
WorkflowTypeOK ==
  /\ DiscoveryTypeOK
  /\ pwPc \in [PWRuns -> PWStages] /\ pwArgs \in [PWRuns -> PWArgs]
  /\ pwLock \in PWRuns \cup {0}
  /\ \A r \in PWRuns : pwPc[r] \in PWHolding => pwLock = r
  /\ pwGaps \in [PWRuns -> BOOLEAN]
  /\ pwDirs \subseteq PWRuns /\ pwActive \in [1 .. Len(PWNames) -> PWRuns \cup {0}]
  /\ pwTorn \in BOOLEAN /\ pwPublished \subseteq PWRuns
  /\ pwSummary \in [run : PWRuns \cup {0},
                    status : {"none", "running", "succeeded", "partial", "skipped_publish", "failed"}]

(* What strict mode publishes is what it vetted: when a strict run applies  *)
(* its plan to Jira, no scan in the cache the runs share and no             *)
(* relationship of its roll-up is on record as failed, whatever other runs  *)
(* and the stages since the vetting did.                                    *)
StrictPublishesVetted ==
  [][\A r \in PWRuns : r \in pwPublished' \ pwPublished /\ pwArgs[r].strict =>
       ~pwGaps[r] /\ ~PWScanFailures]_<<dsVars, pwVars>>

(* "Reject Jira publishing when Black Duck failures exist" (--strict): no   *)
(* strict run publishes when one of its reads of Black Duck failed.         *)
StrictPublishesComplete ==
  [][\A r \in PWRuns : r \in pwPublished' \ pwPublished /\ pwArgs[r].strict => ~dsMissed]_<<dsVars, pwVars>>

(* The active files all come from one run, unless a promotion is going on,  *)
(* or one was cut short and none has completed since: two runs never mix    *)
(* their files, although each file is replaced on its own.                  *)
ActiveFromOneRun ==
  \/ pwTorn \/ \E r \in PWRuns : pwPc[r] \in {"promote2", "promote3", "promote4"}
  \/ \A i, j \in 1 .. Len(PWNames) : pwActive[i] = pwActive[j]

=============================================================================
