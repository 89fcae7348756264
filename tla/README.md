# Verification of Wintermute

TLA+ models of the stateful core of Wintermute (`src/src/wintermute`), checked
with TLC on small instances, and theorems about them proved with TLAPS for every
value of the constants. Wintermute collects vulnerability findings from Black
Duck, publishes them to Jira and Datadog, and applies remediation decisions back
to Black Duck. Most of the program translates payloads; the models are about the
rest: processes that share a file system and remote services, and that fail.

Paths below are relative to `src/src/wintermute/` unless they begin with `src/`.

## 1. Inventory

Each component: its state; its operations; who it interacts with; what is hard;
what makes it correct.

**Pipeline lock** (`jira/pipeline_lock.py`, `file_lock.py`, `blackduck/actions/lock.py`).
State: one JSON file at a well-known path (token, run id, pid, timestamps); in
the process, the token, the inode it created, a heartbeat thread. Operations:
acquire (inspect, archive a stale lock, create with `O_EXCL`, write), heartbeat
(truncate and rewrite in place), release (join the heartbeat, unlink if the token
is ours), the SIGTERM handler, `clear`; `FileLock` adds waiting and recovery of a
lock whose local owner's pid is gone. Used by the Jira pipeline, the CIP planner,
the action command line and the GitLab mirror. Hard: every operation checks the
path and then acts on it; crashes leave files in any state. Correct: exclusion, a
holder keeps its file, nothing is left behind, waiters are served.

**Request controller** (`blackduck/request_control.py`). State, under one lock:
the next start slot, a sliding window of server failures, the open flag.
Operations: `before_request`, `record_server_failure`, `snapshot`, `reset`. Used
by every worker thread through the client. Hard: threads sleep outside the lock,
and the circuit opens meanwhile. Correct: slots an interval apart, opens on a
burst only, nothing is sent while it is open.

**Black Duck client** (`blackduck/client.py`). The attempt loop: pacing, answer,
failure bookkeeping, back-off, at most `retries + 1` attempts. Also token refresh
after a 401, with `SingleFlight`.

**Circuit recovery and quarantine** (`blackduck/circuit_recovery.py`). State: the
retry number, a quarantine file that later stages and runs read. Operations:
`run_with_circuit_recovery`, `classify_target`, `write_quarantine`,
`mark_quarantine_recovered`, `load_active_quarantine`. Hard: the error that
surfaces first decides who is blamed; the circuit is reset while a pool winds
down. Correct: blame is justified, the reset happens in silence, the stage ends.

**Collection** (`blackduck/collector.py`, `concurrency.py`). A bounded thread pool
over the targets; the first error in target order is raised after the pool has
shut down. `SingleFlight` shares one computation among concurrent callers.

**Actions** (`blackduck/actions/`). A checksummed plan (observed state, desired
state, limits, expiry per action); the executor reads each remediation, compares
it with the plan, protects foreign decisions, writes once, and reads again; the
result artifact is written at the end. State: receipts, read and write counters;
remotely, the remediations. Hard: reviewers work on the same remediations, PUT
requests fail or take effect late, the process dies before the result is written
and the plan is executed again. Correct: no decision is lost, no PUT is repeated
without reason, receipts are true, limits hold.

**CIP planner and job** (`blackduck/jobs/cip/`). State: target and page cursors,
the action cache, a read budget. A run rotates to the next target, reads pages of
occurrences until its candidate budget is used, assesses candidates at resolved
git revisions, and writes a plan. Hard: cursors are saved before the plan;
assessments outlive the revision they were made for; rotation must reach every
target and occurrence under a limited budget. Correct: a plan names only what is
fixed, every target is planned again and again.

**API cache** (`blackduck/cache.py`, `concurrency.py`). State: entries in order of
use, the cache file, a memo per client, the flights under way. Operations: get,
put with pruning, checkpoints, load. Hard: threads between the look-up, the
flight and the put; crashes between checkpoints. Correct: nothing is loaded that
a fresh entry answers for, nobody waits for ever, the file is never ahead.

**Parent discovery and its cache** (`jira/find_parent_projects.py`,
`blackduck/inventory.py`, `lineage.py`, `discovery_cache.py`). State: version ->
(mark, children, status), saved once per run. A run lists versions, scans the
bills of materials the cache cannot answer for, prunes and saves. Hard: reads
fail one by one, a version without an update time is only refreshed by age.
Correct: once the world rests, the cache is what Black Duck holds.

**Cohort store** (`blackduck/cohort.py`). State: directories on a shared volume,
with artifacts, checksums and the markers `READY` and `COMPLETE`. Operations:
`write_cohort` (stage, rename, mark), `load_cohort`, `mark_cohort_complete`,
`prune_cohorts`. Hard: loading and removing a directory are sequences of file
operations of different processes. Correct: readers see whole cohorts, the
newest complete ones stay, unfinished ones stay.

**Cohort source, consumers, finalizer, workflow** (`blackduck/cohort_source.py`,
`jira/cohort_pipeline.py`, `datadog/cohort_pipeline.py`,
`blackduck/cohort_finalize.py`, `src/deploy/cohort/workflow-template.yaml`). The
source writes a cohort, Jira and then Datadog deliver it, the finalizer marks it
and prunes. Hard: workflows overlap, any task may fail, people run tasks again.
Correct: every workflow ends, and no task loses its cohort to another workflow.

**Jira and Datadog publishers** (`jira/findings_to_jira.py`,
`datadog/findings_to_datadog.py`). State: the remote issues or events and a local
state file. Jira: preflight, search by label, adopt, create with retries,
transition, link, save at the end. Datadog: plan of open and resolved events,
POSTs with retries, checkpoints. Hard: the search index lags, an answer is lost, a
crash comes between a send and the state file. Correct: the state file says what
was sent, duplicates have a stated cause, everything is published in the end.

**Product publishing** (`jira/product_publishing.py`). State: issue keys and noted
creations in a file. Operations: preflight over every node, reconciliation with
approval, adoption, announce - POST - record. Hard: an issue may exist without
being found. Correct: never two issues for one node without an operator's word.

**Jira pipeline workflow** (`jira/pipeline_workflow.py`). State: the lock, a
directory per run, the active files and summary. Stages: discover, collect, vet,
plan, publish, promote, record, prune. Hard: what a run does before it has the
lock and after it gave it back; a death during promotion. Correct: the active
files come from one run; strict mode publishes what it vetted.

**Roll-up and hierarchy plan** (`jira/subp_vuln_rollup.py`, `jira/collection.py`,
`jira/findings_hierarchy_plan.py`). State: findings file, failure report, plan. A
run walks the added projects (or reads a relationship file), chooses targets,
collects their findings and makes nodes of them, in one of two hierarchies. Hard:
diamonds and cycles, reads that fail one by one and are passed over, identities
that depend on what could be read. Correct: what is missing is on record, and a
node keeps its identity between runs.

**Policy collection** (`datadog/policy_vuln_find.py`, `policy_vuln_pull.py`).
State: the finder's cache, candidates, changes and trigger; the puller's state
and result files per shard. Hard: a run ends at a limit or dies between two of
its files; the next one resumes. Correct: success means every candidate is in
the merged result.

**SCM inventory and coverage** (`scm/`). State: inventory and coverage snapshots
(staging, directory, `READY`, `COMPLETE`). A run lists repositories and controls,
publishes the inventory, loads it back, reads projects and scans, maps,
classifies, publishes the report and prunes. Hard: a limited number of versions,
a resumed run, a scan that ends meanwhile. Correct: a verdict is proven by what
was read, and the newest complete snapshots stay.

**SCM providers** (`scm/providers/github`, `gitlab`). State: only that of one run.
GitHub: GraphQL pages by cursor in order of names, REST pages by number, rulesets
read one by one. GitLab: GraphQL with REST as a fallback, workers that read CI
files along their includes. Hard: people change the organization between two
pages; partial answers. Correct: an inventory without failures misses nothing.

`PROJECT.json` lists these components with their sources and status, and the
hazards with the line where each one bites.

## 2. Modules

| module | what it is | models |
|---|---|---|
| `PipelineLock` | specification | both lock variants and `clear` |
| `RequestControl` | controller and client attempts | `request_control.py`, `client.request` |
| `CircuitRecovery` | EXTENDS `RequestControl`; the specification | recovery loop, quarantine, pool |
| `ActionExecution` | specification | executor, handler, PUT, result, reviewers |
| `CohortStore` | abstract specification | what a cohort store promises |
| `CohortLifecycle` | specification, implements `CohortStore` | store, source, consumers, finalizer, DAG |
| `DatadogPublisher` | specification | `findings_to_datadog.py` |
| `JiraPublisher` | specification | `findings_to_jira.py`, hierarchy and flat mode |
| `ProductPublisher` | specification | `product_publishing.py` |
| `DiscoveryScan` | specification | parent discovery and its cache |
| `PipelineWorkflow` | EXTENDS `DiscoveryScan`; the composition under the lock | `pipeline_workflow.py` |
| `RollupPlan` | specification | roll-up, collection by target, hierarchy plan |
| `PolicyCollection` | specification | finder and puller |
| `CipScan` | specification | planning half of the CIP job |
| `ReadCache` | specification | API cache and single flight |
| `ScmCoverage` | specification | inventory snapshot to coverage report |
| `Listing` | operators: an order, a page of it | what a service that lists by pages answers |
| `GitHubProvider`, `GitLabProvider` | specifications, over `Listing` | the SCM providers |
| `Publishers` | EXTENDS the two issue publishers and `RollupPlan` | what they promise together |
| `Inventories` | EXTENDS the providers and `RollupPlan` | what they promise together |
| `Services` | EXTENDS the services; their types and limits together | |
| `MC...` | definitions for TLC; `MCServices` runs the services in one cfg | |
| `PipelineLockProofs`, `CircuitRecoveryProofs`, `ActionExecutionProofs`, `CohortLifecycleProofs` | theorems and proofs | the module of the same name |
| `PublisherProofs` | theorems and proofs | `JiraPublisher`, `ProductPublisher`, `RollupPlan` |
| `CollectionProofs` | theorems and proofs | `CipScan`, `PipelineWorkflow`, `ReadCache`, `PolicyCollection`, `DatadogPublisher` |
| `InventoryProofs` | theorems and proofs | `ScmCoverage`, `Services` |
| `ProviderProofs` | theorems and proofs | `Listing`, `GitLabProvider`, `GitHubProvider`, `Inventories` |

The modules keep the source's names where they can; `PROJECT.json` maps every
definition to the lines it stands for. Each module also contains, under the words
"a mistaken form", the variants of definitions that a plausible bug would give;
none of them is part of `Next`, and each makes a property fail in TLC.

### PipelineLock

The directory entry (`path`), the inodes and their contents (`file`), archived
inodes and the processes' program counters are separate. Every check of the path
and every act on it is a step of its own, so that other processes come in
between. `LocalRecovery` selects `FileLock` or `PipelineLock`; `Patience` is
`wait_seconds`; `Faults` says what the environment may inject (crash, SIGTERM,
I/O errors, a refresh slower than the two-second join, a paused process).
Timestamps are ages in ticks that saturate past every limit. A healthy holder
refreshes within `MaxLag <= Stale`: the heartbeat comes every 30 seconds, and
`stale_seconds` is at least 60, by default hours. A truncated file has an age too, as `inspect_lock` falls back
on the modification time.

### RequestControl and CircuitRecovery

`before_request` is two actions: `BeforeRequest` reserves a slot under the lock,
`Permit` looks at the circuit again after the sleep. An answer is one of
success, server error, other error, network error. `record_server_failure` and
the construction of the error's snapshot are two actions, since the code leaves
the lock in between; failures of other threads enter the snapshot there.
`CircuitRecovery` adds the pool (`Dispatch`, `SurfaceError`, `PoolIsDone`) and
the loop (`HandleError`, `Recover`, `ReturnResult`). Times are relative to now.
Token refresh and back-off times are left out; a back-off ends at any time.

### ActionExecution

One action per branch of the executor's loop, in the loop's order. A remediation
is its status and the author of its comment: what the fingerprint, the conflict
rule and `is_satisfied` distinguish. A PUT succeeds, is refused, takes effect
without an answer, or times out and takes effect later (`LateEffect`); it is
never retried by the client. `Aborts` is the exception `is_satisfied` raises for
a status the handler does not allow, which nothing catches. The process may
crash at any step; `Start` executes the plan again unless it has expired.

### CohortLifecycle and CohortStore

A cohort is a set of file names; `findings` stands for manifest, findings,
failures and checksums, which are written and read together. `LoadOrder` is the
sequence of reads of `load_cohort`, with the checksum verification at position
three and the second reading of the artifacts after it. `prune_cohorts` is
`Lists` (which chooses its victims in one step) and then, per victim,
`BeginsRemoval`, `RemovesFile`, `RemovesDirectory`: `shutil.rmtree` scans once
and unlinks what it found, in any order; anything missing, or a directory that is
not empty at the end, raises `OSError`. The finalizer's first `load_cohort` is one
step; the second one, inside `mark_cohort_complete`, may fail
(`FinalizerFails`) or be overtaken by a removal. The task statuses follow the
Argo DAG: Jira, then Datadog, then finalize, each when the previous has ended,
skipped when its mode is `disabled`. Replays are runs by hand: Argo does not hear
of them, and they do not lie about statuses. `created_at` has a resolution, so two
cohorts may carry the same one; the id then decides. A source that dies before
`READY` leaves a directory nobody reads (`failed`); one that dies after it, while it
writes its summary, leaves a published cohort whose workflow ends without a
consumer (`orphaned`): no finalizer marks it, so nothing prunes it, and people may
run the consumers by hand.

Not represented: two sources with one cohort id at the same time (Argo workflow
names are unique), contents of artifacts, the SCM task.

`CohortStore` has no files: a cohort is absent, ready, complete or retired, and a
reader holds it, delivers it, or gives up. `KeepsPromise` is its specification
under the refinement mapping at the end of `CohortLifecycle`: a cohort is there
when its source has written the marker and all needed files are in place, and it
is retired at the first of those unlinked; a reader holds it while everything it
has still to read is there. The abstract `Retire` needs more than `Retain`
complete cohorts, so the refinement also shows that pruning never goes too far.

### DatadogPublisher, JiraPublisher, ProductPublisher

The three publishers differ in when they write their state file, and so in what
a crash or a lost answer does. *Datadog* plans a set of events, one for a finding,
and sends them in the order of `DDBefore`; it saves at checkpoints: `DDAccepted`,
`DDLost`, `DDRefused` and `DDOddAnswer` are the outcomes of a POST,
`DDCheckpointSaves` the save after every few of them, `DDLoopEnds` and
`DDFinish` the end of a run. A lost answer is retried and makes a second event.
*Jira* saves at the end only: `JPLookup` searches an index that follows the issues
by `JPIndex`, `JPAdopt` takes over what it finds, `JPCreate` and its failing
variants POST, `JPMove` and `JPLink` follow for each node, and a run that dies has
saved nothing. *Product publishing* notes the creation (`PPAnnounce`), POSTs once
(`PPPost`, `PPPostLost`) and records (`PPRecord`); while a noted creation is
unaccounted for, every later run refuses (`PPRefuses`) until the issue is found or
an operator clears the note (`PPCleared`). Nodes and findings are numbers in the
order the code sorts them.

### DiscoveryScan and PipelineWorkflow

`DSInventory` lists the versions, prunes what is gone, and determines what has
to be scanned; `DSScan(v)` are the workers, in any order; `DSFinish` writes the
cache. Projects that cannot be read, any number of them, take their versions out of the
inventory and count as no failure, and so do the children a scan cannot resolve. `PipelineWorkflow` runs those actions as its first stage
and adds the other stages. Its lock is what `PipelineLock` shows of a lock: one
holder, and that of a dead run can be taken over. Nine promoted files are grouped
by the stage that writes them. `PWRecords` is the failure path after the lock was
given back.

### RollupPlan

`RUVisits` reads one bill of materials of the walk, `RULoads` the relationships
of the CSV file; both choose the children that could not be read, which the code
passes over. Children are visited in an order of `RUInOrder`, by their names.
`RUCollects(c, lost, unnamed)` is one target: quarantine, Entity,
components, the ones that fail, the ones whose version name cannot be read.
`RUWritesFindings` and `RUWritesFailures` are two steps, and the second one writes
nothing when there is nothing to report. `RUPlan` derives the nodes of both
hierarchies; the identity of a node is the path and the names the code hashes.
The world changes by `RUAdds`, `RURemoves`, `RURenames`, `RURelists`. `ruCauses`
records what can make two runs disagree about a path: a renaming, a change of an
edge, a child passed over, two ways of reading the tree (`csv` and `walk`,
`resolve` and `direct`), a component without a version name.

### PolicyCollection, CipScan, ReadCache

`PolicyCollection`: the finder scans versions by workers (`PVScan`), writes out
(`PVWritesOut`), triggers (`PVTriggers`) and saves its cache (`PVSaves`), in that
order, so a death in between leaves the files of different runs; each shard of the
puller works through its candidates and writes findings and failures; `PVEnds`
merges. With an empty `--failures-out` the failures of shards are merged nowhere
and count for nothing; `pvFinal.merged` tells such pulls apart. `CipScan`: `CSPage` reads one page and moves the cursor, `CSSavesCursors`
precedes `CSAssess`, `CSReadStates` and `CSWritesPlan`; `CSRevise` moves a branch
to another revision; each read of several things may miss any of them. `ReadCache`: every step between two locks of a caller is an
action: the first look, joining or leading a flight, the second look, load, put,
resolve, clean up. Which entry gets stale (`RCAges`) is free: it depends on
`cached_at`, not on the order of use that pruning goes by; an entry put again since
the last checkpoint may outlive its copy in the file.

### ScmCoverage, GitHubProvider, GitLabProvider

`ScmCoverage` has one action per file operation of a snapshot (`ScStages`,
`ScMoves`, `ScReady`, ...), and takes the providers' observations as given by the
world: claims of projects on repositories (by id, URL or name), scans, controls.
A failed control of any of the three kinds makes a repository a `provider-error`.
The providers have one action per request, and between any two the organization
may change; what a listing by cursor or by number then returns is a page
(`Listing!Page`) of what is there at that moment, in its order (`InOrder`). GitLab
does not give an id twice, so `glGone` keeps the ids of deleted projects, and a
project transferred to another group (`glAway`) can still be read by its id, while
its path in the group leads nowhere. `ghPast`
and `glPast` record what has
been true during the run, which is what the properties compare with.

### MCServices

The services above share no state, so `MCServices` puts them in one run: `scene`
picks one in the initial state, its actions alone are enabled, and the others
stand still. `services.cfg` explores all twelve scenes.

## 3. Runs

| run | instance | shows |
|---|---|---|
| `lock_recovery` | 2 FileLock runs waiting for ever, 3 inodes, crashes | types, exclusion, holder keeps its file, nothing left, waiters served |
| `lock_faults` | 2 runs, 1 operator, reused inodes, every fault | a heartbeat never touches another run's file |
| `lock_archive_race` | 3 PipelineLock runs, crashes | *violation* of exclusion |
| `lock_sigterm` | 2 runs, SIGTERM | *violation*: the lock file stays |
| `circuit_recovery` | 2 targets, 2 threads, threshold 2, 1 retry, 1 recovery | pacing, breaker, quarantine, termination |
| `action_execution` | 2 actions, 2 executions, 1 edit, 5 policies | idempotence, truth, protection |
| `human_overwrite` | 1 action, 1 execution, 1 edit | *violation*: a decision is overwritten |
| `cohort_delivery` | 2 workflows, 2 destinations, Retain 1, tasks and finalizers fail | types, unfinished and newest cohorts stay, workflows end |
| `cohort_replay` | 2 workflows, 1 destination, 1 replay, 1 modification, failing sources | refusals, verification, refinement |

| `services` | twelve scenes, below | what is recorded is true, nothing twice, nothing missing, services come to rest |
| `strict_gap` | the workflow scene | *violation*: a strict run publishes an incomplete plan |
| `cip_starves` | the CIP scene | *violation*: an occurrence is never assessed |

The properties of `services`, by scene:

| scene | property | says |
|---|---|---|
| datadog | `DatadogSavesWhatWasTaken` | a save changes a status only to what the last event Datadog took says; a dry run changes nothing |
| jira | `JiraStateIsTrue` | every entry has an issue, every status on record was reached, every link exists |
| jira, product, rollup | `NothingPublishedTwice` | a second issue or node has one of the named causes |
| workflow | `ActiveFromOneRun` | the active files come from one run unless one died while promoting |
| workflow | `StrictPublishesVetted` | when a strict run publishes, no failure is on record in the shared cache or in its roll-up |
| policy | `PolicySuccessIsComplete` | a pull that ends with 0, no worker dead or stopped at a limit and failures merged, puts out every candidate's findings |
| cip | `CipPlansOnlyFixed` | an action's CVE is fixed at the revision its plan names |
| cip | `TargetsPlanned` | every target is in plan after plan |
| cache | `CacheLoadsOnlyWhatIsMissing` | a worker loads only what is not cached and nobody else loads |
| coverage | `ScmVerdictsProven` | a complete report says only what its evidence proves |
| coverage | `ScmNewestKept` | pruning leaves the newest complete snapshots |
| github, gitlab, rollup | `InventoriesMissNothing` | without a recorded failure nothing is missing, but for named cases |
| github, gitlab | `ControlsTrue` | a control's value was true at some moment of the run, but for named cases |
| datadog, jira, discovery, cache | `ServicesSettle` | once faults and changes are over, the service comes to rest where it should |

`ServicesTypeOK` is the conjunction of the services' type invariants. It bounds what
they do: the changes sent and issues created in a run, the candidates in a plan,
the entries of a cache.

Why the bounds are enough. *Locks:* the hazards need one holder, one contender
and somebody who crashed before; two runs that start anew cover the first two and
the crash of either (`lock_archive_race` needs the third). Three inodes let both
archive and create. `Stale = 2, MaxLag = 1` separates a late heartbeat from a
stale one. *Circuit:* with threshold 2 a burst comes from one target or from two,
which is what classification tells apart; `Interval = 1` and `Delay = 1` is the
tightest pair for pacing across a reset; one recovery attempt has a first and a
last round. *Actions:* two actions are needed for stop-on-failure and limits at
their boundary (`MCPolicies` lets reads or writes run out before the second
action, and includes a dry run); two executions are needed for repetition; one
edit can be placed at every point. *Cohorts:* with `Retain = 1`, a reader
needs its own workflow, its finalizer and one other that prunes, and a victim needs
one newer cohort; finalizers of two workflows overlap on it. Replays and
modifications are bounded by one in the run where they matter.

*Services.* Every bound on faults and changes is a constant (`...MaxFaults`,
`...MaxChanges`), and `MCServices` ties some of them together so that the product
stays small: `DatadogBound` and `JiraBound` limit faults and changes together
(three, two); `WorkflowBound` allows one fault and no change of a bill of
materials, the second run is a strict one that applies, the first any;
`GitHubBound` allows faults or changes, and a third change only in a listing, where a deletion, a creation and a renaming together can lose a
repository; a policy pull leaves failures unmerged only where there are some;
`GitLabBound` allows two in all, `RollupBound` one, changes only
while something is still to be read; `PolicyRest` runs the finder and the puller one after
the other, with changes before faults. The hazards need no more: each is one
fault or change placed between two steps, and a second one while the first is
being repaired. Jira has three nodes because a chain of three has a node with both
a parent and a child; the cache holds one entry for two URLs, so that a put always
prunes; a CIP page of two makes one target take several pages, another fill one
and a third not, and in `cip_starves` a page of three is not full with two. Three
coverage worlds cover the ways of mapping (id, URL, name, explicit, two claims on one
repository), two of three possible snapshots are complete reports of earlier
days, so that pruning has a choice. The roll-up has four versions, two of one project,
in a diamond with a cycle; one edge may be added and one is known by name
only; two runs show whether identities last.

`CHECK_DEADLOCK FALSE` is set everywhere: the processes of these models end.

### Fairness

* `lock_recovery`: weak fairness of every run's thread, of its heartbeat and of
  the clock: the operating system schedules threads, and a waiter polls in a loop.
  No fairness for crashes.
* `circuit_recovery`: weak fairness of the stage, of each worker and of time:
  threads are scheduled, every request ends by answer or timeout, sleeps end. Which
  answer arrives is free, so termination comes from the counters alone.
* `cohort_delivery`: weak fairness per reader and per finalizer, because Argo
  starts a task whose dependencies have ended (`failFast: false`) and a task
  ends or dies. Sources are not assumed to progress; `WorkflowsEnd` begins where
  one has written its cohort.
* `services` and `cip_starves` (`MCFairness`, each in its scene): weak fairness of
  the publishers' runs (`DDProgress`, `JPProgress`), since the jobs are scheduled
  again and again and a run that does not die goes on; of Jira's index (`JPIndex`),
  which catches up in the end; of discovery runs (`DSRun`) and strong fairness of
  ageing (`DSAge`), since `max_age` passes between runs however often they
  interrupt it; of planning runs (`CSPlanning`); and of every reader of the cache
  (`RCGoesOn`), a thread. Faults, changes and answers are free.

### Findings

1. `lock_archive_race`: `archive_lock` compares the inode and then renames
   whatever the path names. Two contenders that found the same stale lock can
   both end up inside.
2. `lock_sigterm`: the SIGTERM handler does not wait for the heartbeat, which may
   have truncated the file; the token check then fails, and the lock file stays.
3. `human_overwrite`: the conflict check and the PUT are two requests without a
   precondition. A decision made in between is overwritten and reported as
   applied. What the code does guarantee is `DecisionBeforeReadSurvives`.

4. `strict_gap`: a project whose versions cannot be read drops out of the inventory
   with a warning and is no counted failure, so strict mode, which the README says
   blocks publishing when failures exist, publishes without it.
5. `cip_starves`: when the candidate budget ends inside a page that is not full,
   the offset that was to continue behind the last candidate is set to 0. The
   same candidates come back in every run.

The runs marked as violations keep these on record with a counterexample.

Behaviour without a documented promise is modelled and has no property: a
crash between rename and `READY` leaves a directory whose id is taken and which is
never pruned; a finalizer that dies in `rmtree` leaves one that is never listed
again; an artifact modified between its hashing and its parsing is delivered.
Of the services:

* *Datadog.* A POST retried after a lost answer makes a second event. An answer
  with `"event": null` ends the process with unsaved sends. After a crash behind a
  resolved event a finding that reappears stays resolved in Datadog. With
  `refresh_existing` and a send limit, refreshed events can keep resolved ones
  waiting for ever.
* *Jira.* A run that dies has saved nothing; a retried creation can make a
  duplicate, which makes every later search for the node refuse; a transition that
  fails after the creation is never tried again, since the node is cached.
* *Workflow.* A run that was locked out overwrites the active summary; pruning can
  remove the directory of a run that has not got the lock yet.
* *Policy.* `run_sharded` ignores the return codes of its shards and merges the
  files they left; with an empty `--failures-out` a sharded pull ends with 0 whatever
  failed; a resumed run counts failed and partial candidates as
  completed; a run that ends at a limit can let the trigger miss a change.
* *CIP.* The second CVE of an occurrence that the budget cuts off is skipped, and
  a crash between the cursors and the plan skips what they passed.
* *Coverage.* A version whose scan is unknown counts as never scanned in the
  freshness groups; two repositories may accept one project; a project without
  versions is invisible.
* *GitHub.* Assignments are paged by number, so that a deletion can shift one away;
  a ruleset deleted between the list and its detail makes all ruleset controls
  `unsupported`, without a failure.
* *GitLab.* Errors beside data are ignored and null nodes dropped, which makes an
  inventory partial without a failure; after GraphQL the CI files are read from
  the moving branch; files of a moved project are asked for at its old path; a
  transfer out of the group between two REST pages shifts another project away
  unnoticed.
* *Roll-up.* A child that cannot be read at one parent is passed over there; found
  through another one, it gets another path, and in lineage mode another story. A
  failed `Entity` read blanks the field for all versions of the project. The
  failure report is only written when there are failures, so that an old one stays.

`GitHubMissesNothing`, `GitLabMissesNothing`, `RollupMissesNothing`,
`RollupNeverTwice` and `JiraDuplicatesExplained` name these cases where they touch
what they promise, and hold for everything else.

## 4. Proofs

All proofs are checked by TLAPS with no step assumed. They hold for any number of
runs, targets, actions, nodes, shards or workflows and for all parameters admitted
by the named `ASSUME`s of the modules. Where a theorem needs more, its hypothesis
is a named definition in its statement.

| theorem | statement | argument |
|---|---|---|
| `PipelineLockProofs!TypeCorrect` | types, all faults | one step per action |
| `Exclusion`, `HolderKeeps` | `Undisturbed /\ Spec` implies exclusion, and the holder keeps its file | `Exclusive` |
| `ExclusionOfTwo`, `HolderOfTwoKeeps` | `TwoRuns /\ Spec` implies the same, with crashes and SIGTERM | `PairExclusive`, `TokensInPlace` |
| `HeartbeatSafe` | a heartbeat writes its own file only, all faults | `TokensInPlace` |
| `ReleaseClean` | `Orderly /\ Spec`: a run that released left nothing | `Released` |
| `CircuitRecoveryProofs!TypeCorrect` | types | one step per action |
| `ResetQuiet` | no thread active at a reset | `PoolInv` |
| `OpenStops` | nothing is sent while the circuit is open | step by step |
| `Paced` | slots an interval apart, if `Delay >= Interval` | `SlotInv` |
| `Burst` | opens on a burst, which stays on record | `BreakerInv` |
| `QuarantineDeserved` | who is quarantined caused a threshold of failures | `BlameInv` |
| `RecoveredTried` | recovered means collected again | `RecoveryInv` |
| `ActionExecutionProofs!TypeCorrect` | types; one receipt per action passed | one step per action |
| `Idempotent` | a second PUT has a reason | `ExecInv` |
| `Truthful` | receipts of success are true | `ExecInv`, receipts one by one |
| `DecisionsRespected` | what was read as foreign is not overwritten | `ExecInv` |
| `CohortLifecycleProofs!TypeCorrect` | types | per process |
| `Retained` | the newest complete cohorts keep every file | `RetentionInv` |
| `UnfinishedKept` | a cohort with destinations to serve keeps its files | `RetentionInv` |
| `Served` | a task is refused for the cohort's contents only | `ServiceInv` over `RetentionInv` |
| `Verified` | what is delivered was verified | `LoadInv` |
| `Promised` | `Spec => KeepsPromise`, the refinement of `CohortStore` | `PromiseInv`, one abstract step per action |
| `PublisherProofs!ProductPublishesOnce` | one issue per node of a product report and approval | `ProductInv` |
| `JiraStateTrue` | the state file says only what is so in Jira | `JiraInv` |
| `JiraDuplicatesHaveReasons` | every further issue is paid for | `JiraInv` |
| `CollectionProofs!CipPlansFixed` | no action on another revision's verdict | `CipInv` |
| `ActiveNeverMixed` | the active files come from one run | `WorkflowInv` |
| `StrictRunsVetted` | strict runs publish what they vetted | `WorkflowStrictInv` |
| `CacheLoadsOnce` | nothing is loaded that is cached or under way | `CacheInv` |
| `InventoryProofs!VerdictsProven` | verdicts of complete reports, if `ProjectsHaveVersions` | `ScmInv` |
| `NewestReportsKept` | the newest complete reports survive | `ScmTypes`, `ScPhases` |
| `SuccessIsComplete` | exit code 0 with merged failures means every candidate is put out | `PVInv` |
| `SavesWhatWasTaken` | the Datadog state follows Datadog | `DDInv` |
| `PublisherProofs!RollupPlansOnce` | a second node of a finding has a named reason | `RollupInv` |
| `RollupComplete` | findings of what is due, or a failure on record | `RollupCovers` over `RollupInv` |
| `PublishOnce` | nothing twice, for the three publishers | the three theorems above |
| `ProviderProofs!GitLabInventoryComplete` | no failure, nothing missing | `GLCovers` over `GLInv` |
| `GitLabControlsProven` | controls were true during the run | `GLInv` |
| `GitHubInventoryComplete` | no failure, nothing missing | `GHCovers` over `GHInv` |
| `GitHubControlsProven` | controls were true during the run | `GHInv` |
| `InventoriesComplete`, `ControlsProven` | the same, for both providers and the roll-up | the theorems above |
| `JiraWellTyped`, `ProductWellTyped` | no more issues than a run may create | `JiraInv`, `ProductInv` |
| `RollupWellTyped` | relationships, findings due and failures are of versions | `RollupRefs` |
| `CipWellTyped` | no plan beyond the limit, cursors inside their collections | `CipTypes` |
| `CacheWellTyped` | no URL twice, no more entries than allowed | `CacheTypes`, `CacheCounted` |
| `WorkflowWellTyped`, `PolicyWellTyped`, `DatadogWellTyped` | types and limits | `WorkflowInv`; `PolicyFinder`, `PolicyPuller`; `DDTypes` |
| `GitLabWellTyped`, `GitHubWellTyped` | listed and left out are disjoint; attempts and totals bounded | `GLInv`, `GHInv` with bounds |
| `ScmWellTyped` | rows are of the inventory, evidence of what was listed | `ScmTypes`, `ScReportsTyped` |
| `InventoryProofs!ServicesWellTyped` | `ServicesTypeOK`, of all services side by side | the theorems above |

TLC checked every inductive invariant on the run of its module (`PairExclusive` on
instances of either lock with two runs and the faults it admits), but for one part of
`RollupInv`: `WalkIsFirst` and `WalkFinds` quantify over all walks of a tree, of any
length, which TLC cannot enumerate.

*Exclusion.* Mutual exclusion is not inductive: it depends on no contender
holding a licence to archive the owner's file. `Exclusive` says that whoever is
past `Create` owns the file at the path (`OwnerHoldsPath`), nothing else is
there (`PathHasOwner`), files are not shared (`OwnFileUnique`), the heartbeat works
on its run's file, a contender asking for a pid read it from that owner's file, and
whoever is about to archive will find another file (`ArchiveIsLate`). It holds
without faults, forced clears and inode reuse (`Undisturbed`); the run
`lock_archive_race` shows that with crashes and three runs it does not hold.

*Exclusion of two.* With crashes a file outlives its owner, and `OwnerHoldsPath` and
`PathHasOwner` are false. For two runs, of either kind of lock, `PairExclusive` takes
their place. Whoever is past `Create` is alone there, its file is the one at the
path and recent (`OneOwner`); what is at the path was put there by such a run or by
one that is over (`PathHasCreator`); whoever asks for a pid asks for the other
run's, so when it goes on to archive, the other run is over (`OtherIsOver`). A file
no older than `Stale` is archived only for its pid, and a living owner keeps its file
no older than `MaxLag`: this is where `MaxLag <= Stale` and the absence of pauses enter.
Crashes, SIGTERM, refreshes slower than the join and recycled inodes are admitted
(`TwoRuns`); failing writes and operators who clear are not. With a third run
`OtherIsOver` fails: two contenders find the same abandoned file, and the slower one
archives the new owner's.

*Release.* `TokenKept` says that outside a refresh the run's own file carries its
token, and that the join waits for a refresh under way, so the release finds its
token. `Orderly` excludes failing writes, a refresh slower than the join and
recycled inodes; crashes, SIGTERM, pauses and `clear` are admitted.

*Pacing.* A slot in the future always has a thread asleep on it, so that in
silence the latest slot lies in the past; the recovery sleep then covers the
rest of the interval. The premise `Delay >= Interval` is needed, because `reset`
forgets the next slot; the defaults satisfy it by far.

*Breaker and quarantine.* The failures on record are in the order of their age
(`OldestFirst`), so that pruning the front leaves exactly those inside the window
when the breaker opens, and nothing is pruned while it is open. The snapshot a
circuit error carries is part of that record (`BlameInv`) as long as the pool is
not quiet, which is why a target can be blamed only for failures it had.

*Execution.* `ExecInv` says when a remediation still is what the executor read,
and that an action with a PUT sent is satisfied or disturbed.

*Retention.* `RetentionInv`: whatever a finalizer has still to remove is
completed and has `Retain` newer completed cohorts (`VictimsExpendable`); every
completed cohort has all its files or is expendable; markers appear in order and
completion follows the destinations (`MarkersInOrder`). Expendable stays
expendable since completed cohorts only grow in number and never change their
time, which is what makes a stale list harmless.

*The promise of the store.* Every step of `CohortLifecycle` maps to a step of
`CohortStore` or leaves its state alone. `LoadInv` ties a reader's position to the
files it has read; the first file unlinked is the abstract removal, whose guard,
more than `Retain` complete cohorts, follows from `RetentionInv` by counting.

*Publishers.* `ProductInv` accounts for every issue: it is recorded, found, or
covered by the announcement in the state file (`ProductAccounted`), so a new one
is posted only where there is none (`ProductMayCreate`). `JiraInv` has the
counterpart for the state written at the end: the memory of the run is true of
Jira (`JiraMemoryIsTrue`), and a node about to be created has no issue or an
excuse (`JiraMayCreate`).

*Workflow.* Only the holder of the lock is in a stage under it
(`WorkflowExclusive`), what a run copied so far is its own (`WorkflowCopied`), and
after the vetting the counts cannot change: the scan cache is written in the
parent stage only, which the lock keeps others from (`WorkflowScanning`).

*Cache.* A worker past the second look owns the flight of its URL, and none of
that URL is cached before it has put it (`CacheFlights`). The lemmas on the list
of entries (`WithoutEntries`, `TouchEntries`, `PrunedEntries`) say what is left of
it after each of its rewritings.

*Coverage.* `EvidenceTrue` relates what a run has collected to the scans there
were when it began and are now, `ReportsTrue` is the verdicts' meaning for a report
being written as well as for complete ones. The hypothesis `ProjectsHaveVersions`
is needed: a project without versions never gets into the inventory, so that a
repository it claims is reported as not mapped (see the notes above).

*Policy.* `PVShardTrue`: a shard past its pull has everything that is its own in
memory, unless it was limited, and its findings file has the rows of that memory
and nothing else; so the merge puts out what was pulled, by whichever run.

*Datadog.* Where memory and state file differ, Datadog was told what the memory
says or the mode closes the finding without an event (`DDMemoryTrue`); the plan
has one event for each subject, of which the memory knows no more than the file
(`DDPlanFresh`), so that an answer that is lost contradicts nothing.

*Roll-up.* Where neither names nor edges changed, two walks of one tree must find
each version by the same path. A walk is a function of the number of steps
(`IsWalk`), with the queue and what was found so far; `WalkFinds` says that some
complete walk finds a version by a path. Two walks from the same start agree, as
the smallest number of steps at which they do not would need two different ways
of taking the head of one queue, and the order of names leaves one. `WalkIsFirst`
ties the run to such a walk as long as it passed nothing over, and `RefTrue`,
`RowTrue` and `NodeTrue` carry the path to relationships, findings and nodes, each with the
causes that may spoil it. Completeness is the other direction (`WalkCovers`): every
link that was there when the walk began is found, since its parent is at some
level (`Reached`), and what is found at a level is read before the queue gets to
the next (`QueueOrdered`).

*Inventories.* Lists by pages are where changes hide things. *GitLab* pages by
cursor, in falling order of ids: as long as nothing was dropped, what was there all
along and is not behind the cursor is in the list (`GLCovered`). Its REST fallback
pages by number in order of paths, which change. When it ends, the list is at
least as long as the group; a list that lacks a project then has another one twice, or
one that is gone (`LongEnough`), and both show as failures while the
projects are mapped. This needs that an id is not given twice (`glGone`). A project
that left the group for another one shows as nothing, since its languages are read
by id: a transfer while the REST fallback lists is the named case.
*GitHub* pages by name and states a total. As long as nothing is renamed, a cursor
passes over nothing that lasts; as long as nothing is deleted, or nothing created,
the total and the absence of repeats make the list whole. A renaming, a deletion
and a creation together are the named case.

*Controls.* A GitLab verdict is about a tree its project had: the commit
pinned while it was mapped (`GLPinTrue`), or the branch at the time of each read; a
push to an unpinned branch or a move in between is the named case. GitHub's
selection is joined by name with pages of assignments in order of ids: the pages
read so far cover the first so many ids (`GHBefore`), and only a deletion lets one
slip to an earlier page. Rulesets are read one by one after their list. If the
requirement held during the whole run and the rulesets changed at most once, some
ruleset that requires it is seen active (`GHSeen`), so a run that says
otherwise is right about some moment, or two changes are the named case.

*Types and limits.* Most of `ServicesTypeOK` is part of the invariants above; what is
not needs a count. *CIP:* a run reads `CipWidth` targets, each with its share of the
limit; the shares of the targets done sum to `CipGiven`, the rest are still in the
queue, so what was found never exceeds the sum, which is the limit. *Cache:* the
entries are a list without repetition, hence as many as URLs, and each put prunes it.
*Policy:* the scans done and the versions still to scan are together no more than
there are. *GitLab:* a project gets into one of two disjoint lists, when it is listed
or when it is left out. *Roll-up:* a row of the file that is read back was written by a run
before, so its ends are versions. Three assumptions of the code are named for this:
a CIP configuration has at least one target (`CipAssumption`; the configuration is refused
otherwise), a version has finitely many findings (`RollupAssumption`), and Black Duck
finitely many projects (`ScmAssumption`).

*Only model-checked.* Liveness (`WaiterServed`, `StageEnds`, `WorkflowsEnd`,
`ServicesSettle`, `TargetsPlanned`), as the prover does not handle fairness. Every
safety property and every action property that a passing run checks is stated by a
theorem. The premises are named in the table: exclusion is proved of any number of
runs without faults and of two with them. With crashes and three runs it is false of
either kind of lock: TLC finds the race of `lock_archive_race` with
`LocalRecovery = TRUE` too.

## 5. Not modelled

Components with status `not_modelled` in `PROJECT.json`: product reporting and
document generation (formatting of collected data), CIP configuration and the tool
that proposes one (single passes over data), deployment manifests and scripts
(configuration; `concurrencyPolicy` is an input of the lock modules).

Inside modelled components: argument parsing, validation of payloads, canonical
serialization and checksums, logging, wording, exact times. Of the publishers:
dry runs that write nothing, field updates (`--sync-existing-fields`), the
migration check of legacy labels. Of the policy collection: `--limit-findings`,
`--no-cache`, partial outputs, re-authentication. Of the API cache: a change of
settings, which empties it. Of CIP: parsing of security data and the evidence
behind a verdict. Of the roll-up: filters of the plan, texts and statistics. Of the
providers: organization evidence and product detection (GitHub), the capability
cache, pipelines, languages, commits, the repository mirror, return of a transferred
project and redirects from its old path (GitLab). Of the
client: token refresh, TLS, pagination, and of the locks nothing.

## 6. Plan

Done, in this order: `PipelineLock`, `RequestControl`, `CircuitRecovery`,
`ActionExecution`, `CohortStore` and `CohortLifecycle`; then `DatadogPublisher`,
`JiraPublisher`, `DiscoveryScan`, `PipelineWorkflow`, `ProductPublisher`,
`PolicyCollection`, `CipScan`, `ReadCache`, `ScmCoverage`, `GitHubProvider`,
`GitLabProvider` and `RollupPlan`. Every safety property of the passing runs is
proved.

Next: a property of the finder's cache against its trigger (the hazard at
`datadog/policy_vuln_find.py:659`).

Modules that are left: the GitLab repository mirror under its file lock
(`scm/providers/gitlab/repository.py`), discovery by scope
(`blackduck/discovery.py`), the token refresh of the client.
