-------------------------- MODULE CohortLifecycle ---------------------------
(***************************************************************************)
(* Cohorts on the shared volume (blackduck/cohort.py) and the workflows    *)
(* that write, deliver and finalize them (cohort_source.py, the Jira and   *)
(* Datadog cohort consumers, cohort_finalize.py), in the order of the Argo *)
(* DAG (deploy/cohort/workflow-template.yaml).  Workflows overlap, any     *)
(* process may fail at any step, people run consumers and finalizers again *)
(* by hand, and somebody may modify a published artifact.                  *)
(*                                                                         *)
(* A cohort is a directory of files.  "findings" stands for the manifest,  *)
(* the findings, the failures and the checksums, which are written         *)
(* together and read together.  Loading a cohort and removing one are done *)
(* file by file, so that they interleave.                                  *)
(***************************************************************************)
EXTENDS Integers, Sequences, FiniteSets

CONSTANTS
    N,            \* how many workflows, each with a cohort id of its own
    Destinations, \* number of destinations, served one after the other
    Retain,       \* --retain-cohorts
    MaxModified,  \* bound: cohorts somebody modifies
    MaxReplays,   \* bound: processes run again by hand
    Failing       \* which of AllFailing may fail or die

AllFailing == {"collection", "source", "consumer", "finalizer"}

ASSUME CohortAssumption ==
    /\ N \in Nat \ {0} /\ Destinations \in Nat /\ Retain \in Nat \ {0}
    /\ MaxModified \in Nat /\ MaxReplays \in Nat /\ Failing \subseteq AllFailing

Ids == 1..N
Readers == Ids \X (1..Destinations)

Artifacts == {"metadata", "findings"}
Files == Artifacts \cup {"READY", "COMPLETE"}
Needed == Artifacts \cup {"READY"}

VARIABLES
    present,   \* ids whose final directory exists
    dir,       \* the files in it
    created,   \* created_at of the metadata; 0 before there is any
    partial,   \* cohorts that record collection failures
    modified,  \* cohorts with an artifact that no longer matches its checksum
    source,    \* the source task of each workflow
    status,    \* of each destination task, as Argo reports it
    at,        \* position of a reader in LoadOrder, 0 when it is not loading
    fin,       \* the finalize task of each workflow
    victims,   \* cohorts its prune_cohorts has still to remove
    entries,   \* files of the first of them that rmtree has still to unlink
    delivered, \* readers that handed the cohort to their publisher
    completed, \* cohorts that were marked complete; auxiliary
    clean,     \* readers that began to load before any modification; auxiliary
    replays    \* processes run again by hand; auxiliary

store == <<present, dir, created, partial, modified, completed>>
consumers == <<status, at, delivered, clean>>
finalizer == <<fin, victims, entries>>
vars == <<store, source, consumers, finalizer, replays>>

Ended == {"succeeded", "failed", "refused"}

(* READY is out, and the source ended well or died after it. *)
Published == {"written", "orphaned"}

Init ==
    /\ present = {} /\ partial = {} /\ modified = {} /\ completed = {}
    /\ dir = [c \in Ids |-> {}]
    /\ created = [c \in Ids |-> 0]
    /\ source = [c \in Ids |-> "idle"]
    /\ status \in [Readers -> {"pending", "skipped"}]
    /\ at = [r \in Readers |-> 0]
    /\ delivered = {} /\ clean = {} /\ replays = 0
    /\ fin = [c \in Ids |-> "idle"]
    /\ victims = [c \in Ids |-> {}]
    /\ entries = [c \in Ids |-> {}]

-----------------------------------------------------------------------------
(* The source task.                                                        *)

Source(c, from, to) ==
    /\ source[c] = from
    /\ source' = [source EXCEPT ![c] = to]
    /\ UNCHANGED <<consumers, finalizer>>

(* pull_scope collected; a strict source refuses a collection with failures. *)
Rejects(c) ==
    /\ "collection" \in Failing
    /\ Source(c, "idle", "rejected")
    /\ UNCHANGED <<store, replays>>

(* write_cohort refuses an id that exists, and clears what an earlier      *)
(* attempt left in the staging directory ...                               *)
Writes(c) ==
    /\ c \notin present
    /\ \E latest \in {created[o] : o \in Ids} :
         /\ \A o \in Ids : created[o] <= latest
         /\ \E now \in {latest, latest + 1} \ {0} : created' = [created EXCEPT ![c] = now]
    /\ \/ UNCHANGED partial
       \/ "collection" \in Failing /\ partial' = partial \cup {c}
    /\ UNCHANGED <<present, dir, modified, completed>>

Stages(c) ==
    /\ Source(c, "idle", "staged")
    /\ Writes(c)
    /\ UNCHANGED replays

(* Somebody runs a failed source again with the same id.  Once the         *)
(* directory has been renamed, the id is taken for good.                   *)
SourceReplays(c) ==
    /\ Source(c, "failed", "staged")
    /\ Writes(c)
    /\ replays < MaxReplays /\ replays' = replays + 1

(* ... then renames the staging directory, complete with its checksums ... *)
Renames(c) ==
    /\ Source(c, "staged", "renamed") /\ UNCHANGED replays
    /\ present' = present \cup {c}
    /\ dir' = [dir EXCEPT ![c] = Artifacts]
    /\ UNCHANGED <<created, partial, modified, completed>>

(* ... and writes READY last. *)
MarksReady(c) ==
    /\ Source(c, "renamed", "written") /\ UNCHANGED replays
    /\ dir' = [dir EXCEPT ![c] = @ \cup {"READY"}]
    /\ UNCHANGED <<present, created, partial, modified, completed>>

(* The source fails or dies, and its workflow with it.  When READY is out  *)
(* by then the cohort stays, published and without a workflow: no task of  *)
(* the DAG reads it, only people do.                                       *)
SourceFails(c) ==
    /\ "source" \in Failing
    /\ \/ Source(c, "staged", "failed") /\ partial' = partial \ {c} /\ UNCHANGED dir
       \/ Source(c, "renamed", "failed") /\ UNCHANGED <<dir, partial>>
       \/ /\ Source(c, "renamed", "orphaned") /\ UNCHANGED partial
          /\ dir' = [dir EXCEPT ![c] = @ \cup {"READY"}]
    /\ UNCHANGED <<present, created, modified, completed, replays>>

-----------------------------------------------------------------------------
(* The consumers.                                                          *)

(* A mistaken form: the marker is not asked for. *)
LoadOrderUnmarked == <<"metadata", "metadata", "findings", "findings">>

(* load_cohort: the marker, the metadata, the checksums of all artifacts,  *)
(* and then the artifacts once more.                                       *)
LoadOrder == <<"READY", "metadata", "findings", "findings">>
Verification == 3

(* A mistaken form: a destination that failed holds up the next one. *)
DestinationsSucceeded(c, ds) == \A d \in ds : status[<<c, d>>] \in {"succeeded", "skipped"}

(* The DAG starts a destination when the ones before it have ended.        *)
DestinationsEnded(c, ds) == \A d \in ds : status[<<c, d>>] \in Ended \cup {"skipped"}

BeginLoad(r) ==
    /\ at[r] = 0
    /\ at' = [at EXCEPT ![r] = 1]
    /\ clean' = IF r[1] \in modified THEN clean \ {r} ELSE clean \cup {r}
    /\ UNCHANGED <<store, source, finalizer, delivered>>

Starts(r) ==
    /\ status[r] = "pending" /\ source[r[1]] = "written"
    /\ DestinationsEnded(r[1], 1..(r[2] - 1))
    /\ status' = [status EXCEPT ![r] = "running"]
    /\ BeginLoad(r)
    /\ UNCHANGED replays

(* Somebody runs the consumer by hand; Argo does not hear of it. *)
Replays(r) ==
    /\ r[1] \in present /\ status[r] # "running" /\ replays < MaxReplays
    /\ replays' = replays + 1
    /\ BeginLoad(r)
    /\ UNCHANGED status

StatusBecomes(r, s) ==
    status' = IF status[r] = "running" THEN [status EXCEPT ![r] = s] ELSE status

(* A mistaken form: checksums are not compared. *)
ReadableUnverified(r) == LoadOrder[at[r]] \in dir[r[1]]

(* The file is there, and at the verification it matches its checksum. *)
Readable(r) ==
    /\ LoadOrder[at[r]] \in dir[r[1]]
    /\ at[r] = Verification => r[1] \notin modified

(* A mistaken form: reading goes on after the last file. *)
LoadsPastEnd(r) ==
    /\ at[r] \in 1..Len(LoadOrder) /\ Readable(r)
    /\ at' = [at EXCEPT ![r] = @ + 1]
    /\ UNCHANGED <<store, source, finalizer, status, delivered, clean, replays>>

Loads(r) ==
    /\ at[r] \in 1..(Len(LoadOrder) - 1) /\ Readable(r)
    /\ at' = [at EXCEPT ![r] = @ + 1]
    /\ UNCHANGED <<store, source, finalizer, status, delivered, clean, replays>>

(* The load fails, or a strict consumer is handed a partial cohort. *)
Refuses(r) ==
    /\ at[r] > 0
    /\ ~Readable(r) \/ (at[r] = Len(LoadOrder) /\ r[1] \in partial)
    /\ at' = [at EXCEPT ![r] = 0]
    /\ StatusBecomes(r, "refused")
    /\ UNCHANGED <<store, source, finalizer, delivered, clean, replays>>

(* The loaded cohort goes to the publisher, which succeeds or fails. *)
Delivers(r) ==
    /\ at[r] = Len(LoadOrder) /\ Readable(r) /\ r[1] \notin partial
    /\ at' = [at EXCEPT ![r] = 0]
    /\ delivered' = delivered \cup {r}
    /\ StatusBecomes(r, "succeeded") \/ StatusBecomes(r, "failed")
    /\ UNCHANGED <<store, source, finalizer, clean, replays>>

ConsumerDies(r) ==
    /\ "consumer" \in Failing /\ at[r] > 0
    /\ at' = [at EXCEPT ![r] = 0]
    /\ StatusBecomes(r, "failed")
    /\ UNCHANGED <<store, source, finalizer, delivered, clean, replays>>

-----------------------------------------------------------------------------
(* The finalizer.                                                          *)

Finalizer(c, from, to) ==
    /\ fin[c] = from
    /\ fin' = [fin EXCEPT ![c] = to]
    /\ UNCHANGED <<created, partial, modified, source, consumers>>

(* The finalizer's load_cohort succeeds. *)
Loadable(c) == Needed \subseteq dir[c] /\ c \notin modified

(* A mistaken form: the destinations' statuses are recorded unchecked. *)
MayFinalizeAnyway(c) == Loadable(c)

(* load_cohort succeeds, and destination_status accepts every status. *)
MayFinalize(c) == Loadable(c) /\ DestinationsEnded(c, 1..Destinations)

(* The DAG starts it after the last destination ... *)
FinalizerStarts(c) ==
    /\ source[c] = "written" /\ DestinationsEnded(c, 1..Destinations)
    /\ Finalizer(c, "idle", IF MayFinalize(c) THEN "loaded" ELSE "failed")
    /\ UNCHANGED <<present, dir, completed, victims, entries, replays>>

(* ... and people when they like; a refusal leaves everything as it was. *)
FinalizerReplays(c) ==
    /\ replays < MaxReplays /\ replays' = replays + 1
    /\ \E from \in {"idle", "done", "failed"} : Finalizer(c, from, "loaded")
    /\ MayFinalize(c)
    /\ UNCHANGED <<present, dir, completed, victims, entries>>

(* mark_cohort_complete loads the cohort once more, and then writes into the *)
(* directory, whatever has happened to it since.                             *)
MarksComplete(c) ==
    /\ c \in present
    /\ Finalizer(c, "loaded", "marked")
    /\ dir' = [dir EXCEPT ![c] = @ \cup {"COMPLETE"}]
    /\ completed' = completed \cup {c}
    /\ UNCHANGED <<present, victims, entries, replays>>

(* created_at decides, and the id between equals. *)
Newer(a, b) == created[a] > created[b] \/ (created[a] = created[b] /\ a > b)
NewerIn(S, c) == {o \in S : Newer(o, c)}

(* Mistaken forms: a cohort need not be complete, one too few is retained. *)
ListedUnfinished == {c \in Ids : {"READY", "metadata"} \subseteq dir[c]}
BeyondOffByOne(S) == {c \in S : Cardinality(NewerIn(S, c)) + 1 >= Retain}

(* prune_cohorts considers the directories with both markers and metadata, *)
(* and removes those beyond the newest Retain, except the finalizer's own. *)
Listed == {c \in Ids : {"READY", "metadata", "COMPLETE"} \subseteq dir[c]}
Beyond(S) == {c \in S : Cardinality(NewerIn(S, c)) >= Retain}

Lists(c) ==
    /\ Finalizer(c, "marked", "pruning")
    /\ victims' = [victims EXCEPT ![c] = Beyond(Listed) \ {c}]
    /\ UNCHANGED <<present, dir, completed, entries, replays>>

(* The newest victim is removed first. *)
Victim(c, v) == v \in victims[c] /\ NewerIn(victims[c], v) = {}

(* shutil.rmtree scans the directory ... *)
BeginsRemoval(c) == \E v \in present :
    /\ Victim(c, v)
    /\ Finalizer(c, "pruning", "removing")
    /\ entries' = [entries EXCEPT ![c] = dir[v]]
    /\ UNCHANGED <<present, dir, completed, victims, replays>>

(* ... unlinks what it found there, in the order of the scan ... *)
RemovesFile(c) == \E v \in Ids, f \in entries[c] :
    /\ Victim(c, v) /\ f \in dir[v]
    /\ Finalizer(c, "removing", "removing")
    /\ dir' = [dir EXCEPT ![v] = @ \ {f}]
    /\ entries' = [entries EXCEPT ![c] = @ \ {f}]
    /\ UNCHANGED <<present, completed, victims, replays>>

(* ... and removes the directory, which is empty by now. *)
RemovesDirectory(c) == \E v \in present :
    /\ Victim(c, v) /\ entries[c] = {} /\ dir[v] = {}
    /\ Finalizer(c, "removing", "pruning")
    /\ present' = present \ {v}
    /\ victims' = [victims EXCEPT ![c] = @ \ {v}]
    /\ UNCHANGED <<dir, completed, entries, replays>>

Forgets(c) ==
    /\ victims' = [victims EXCEPT ![c] = {}]
    /\ entries' = [entries EXCEPT ![c] = {}]
    /\ UNCHANGED <<present, dir, completed, replays>>

(* The second load fails, or rmtree raises an OSError nobody catches: what *)
(* it scanned is missing, or the directory is not empty.                    *)
FinalizerFails(c) ==
    /\ \/ ~Loadable(c) /\ Finalizer(c, "loaded", "failed")
       \/ (\E v \in Ids \ present : Victim(c, v)) /\ Finalizer(c, "pruning", "failed")
       \/ \E v \in Ids :
            /\ Victim(c, v)
            /\ \/ \E f \in entries[c] : f \notin dir[v]
               \/ entries[c] = {} /\ (v \notin present \/ dir[v] # {})
            /\ Finalizer(c, "removing", "failed")
    /\ Forgets(c)

Finishes(c) ==
    /\ victims[c] = {}
    /\ Finalizer(c, "pruning", "done")
    /\ UNCHANGED <<present, dir, completed, victims, entries, replays>>

FinalizerDies(c) ==
    /\ "finalizer" \in Failing
    /\ \E from \in {"loaded", "marked", "pruning", "removing"} : Finalizer(c, from, "failed")
    /\ Forgets(c)

(* Somebody modifies an artifact of a published cohort. *)
Modify(c) ==
    /\ "findings" \in dir[c] /\ c \notin modified /\ Cardinality(modified) < MaxModified
    /\ modified' = modified \cup {c}
    /\ UNCHANGED <<present, dir, created, partial, completed, source, consumers, finalizer,
                   replays>>

-----------------------------------------------------------------------------
Write(c) == Stages(c) \/ Renames(c) \/ MarksReady(c)
Consume(r) == Starts(r) \/ Loads(r) \/ Refuses(r) \/ Delivers(r)
Finalize(c) ==
    \/ FinalizerStarts(c) \/ MarksComplete(c) \/ Lists(c) \/ BeginsRemoval(c)
    \/ RemovesFile(c) \/ RemovesDirectory(c) \/ FinalizerFails(c) \/ Finishes(c)
Disturb(c) ==
    Rejects(c) \/ SourceFails(c) \/ SourceReplays(c) \/ FinalizerReplays(c) \/ FinalizerDies(c) \/ Modify(c)

Next ==
    \/ \E c \in Ids : Write(c) \/ Finalize(c) \/ Disturb(c)
    \/ \E r \in Readers : Consume(r) \/ Replays(r) \/ ConsumerDies(r)

Spec == Init /\ [][Next]_vars

(* Argo starts the tasks whose predecessors have ended, and tasks go on. *)
Fairness ==
    /\ \A r \in Readers : WF_vars(Consume(r))
    /\ \A c \in Ids : WF_vars(Finalize(c))

FairSpec == Spec /\ Fairness

-----------------------------------------------------------------------------
(* Every variable stays in its type: markers, statuses and positions. *)
TypeOK ==
    /\ present \subseteq Ids /\ partial \subseteq Ids /\ modified \subseteq Ids
    /\ completed \subseteq Ids
    /\ dir \in [Ids -> SUBSET Files] /\ created \in [Ids -> Nat]
    /\ source \in [Ids -> {"idle", "rejected", "staged", "renamed", "written", "orphaned", "failed"}]
    /\ status \in [Readers -> {"pending", "running", "skipped"} \cup Ended]
    /\ at \in [Readers -> 0..Len(LoadOrder)]
    /\ delivered \subseteq Readers /\ clean \subseteq Readers /\ replays \in 0..MaxReplays
    /\ fin \in [Ids -> {"idle", "loaded", "marked", "pruning", "removing", "done", "failed"}]
    /\ victims \in [Ids -> SUBSET Ids] /\ entries \in [Ids -> SUBSET Files]

(* Retention: of the completed cohorts the Retain newest keep every file,  *)
(* whatever finalizers run at the same time.                               *)
NewestSurvive ==
    \A c \in completed : Cardinality(NewerIn(completed, c)) < Retain => dir[c] = Files

(* A published cohort some destination has still to process is not pruned: *)
(* its directory keeps the artifacts and the marker, for the tasks of its  *)
(* workflow or, when that died with the source, for people.                *)
Unfinished(c) == source[c] \in Published /\ ~DestinationsEnded(c, 1..Destinations)
UnfinishedSurvives == \A c \in Ids : Unfinished(c) => Needed \subseteq dir[c]

(* A destination task that was refused its cohort was refused for what is  *)
(* in the cohort, never because another workflow's pruning got in the way. *)
RefusedForContents ==
    \A r \in Readers : status[r] = "refused" => r[1] \in partial \cup modified

(* A consumer that begins after an artifact was modified does not deliver. *)
DeliversVerified ==
    [][\A r \in Readers : Delivers(r) => r \in clean]_vars

(* Every workflow that wrote its cohort ends with its finalizer. *)
WorkflowsEnd == \A c \in Ids : source[c] = "written" ~> fin[c] \in {"done", "failed"}

-----------------------------------------------------------------------------
(* The promise of the store.  A reader holds its cohort from reading the   *)
(* marker for as long as nothing stands in the way of the rest.            *)
Phase == [c \in Ids |->
    CASE source[c] \notin Published                          -> "absent"
      [] source[c] \in Published /\ ~(Needed \subseteq dir[c]) -> "retired"
      [] source[c] \in Published /\ Needed \subseteq dir[c] /\ c \in completed
                                                            -> "complete"
      [] OTHER                                              -> "ready"]

Holds(r) ==
    /\ at[r] > 1 /\ r[1] \notin partial
    /\ \A k \in at[r]..Len(LoadOrder) : LoadOrder[k] \in dir[r[1]]
    /\ at[r] <= Verification => r[1] \notin modified

Store == INSTANCE CohortStore
    WITH phase <- Phase, reading <- {r \in Readers : Holds(r)}, delivered <- delivered

(* Files, markers and renames implement the store's promise. *)
KeepsPromise == Store!Spec
=============================================================================
