------------------------------- MODULE CipScan -------------------------------
(***************************************************************************)
(* The planning half of the CIP remediation job (jobs/cip/planner.py over  *)
(* targeting.py, evaluator.py and security_data.py): each run continues    *)
(* where the cursors of the runs before stopped, takes a few candidates,   *)
(* assesses them at the git revisions it resolved, and writes a plan.      *)
(***************************************************************************)
EXTENDS Naturals, FiniteSets, Sequences

CONSTANTS
  CSOccurrences,    \* per target, the collection: the CVEs of every occurrence,
                    \* none for another component's or an unresolvable one
  CSMaximum,        \* --max-candidates-per-run and the plan's limit of actions
  CSPageSize,       \* --target-page-size
  CSMaxOccurrences, \* --max-occurrences-per-target
  CSFixedAt,        \* git revision -> the CVEs whose fixes it contains
  CSMaxDecided,     \* bound: candidates decided about
  CSMaxFaults       \* bound: failed reads and crashes

CSCves == UNION {UNION {CSOccurrences[t][i] : i \in DOMAIN CSOccurrences[t]} : t \in DOMAIN CSOccurrences}

ASSUME CipAssumption ==
  /\ CSMaximum \in Nat \ {0} /\ CSPageSize \in Nat \ {0} /\ CSMaxOccurrences \in Nat \ {0}
  /\ CSMaxDecided \in Nat /\ CSMaxFaults \in Nat
  /\ CSOccurrences \in Seq(Seq(SUBSET Nat)) /\ CSOccurrences # <<>>
  /\ CSFixedAt \in Seq(SUBSET Nat) /\ CSFixedAt # <<>>
  /\ IsFiniteSet(CSCves)

CSTargets == DOMAIN CSOccurrences
CSCandidates ==
  UNION {UNION {{<<t, i, c>> : c \in CSOccurrences[t][i]} : i \in DOMAIN CSOccurrences[t]} :
         t \in CSTargets}

VARIABLES
  csRevision,   \* git: the revision the references name now
  csDecided,    \* Black Duck: candidates somebody has decided about
  csCursor,     \* the cursor file: target -> offset to continue at
  csNext,       \* the cursor file: the target the next run begins with
  csCache,      \* the assessment file: <<revision, CVE, fixed>>
  csPlan,       \* the plan written last
  csPc,         \* "idle" | "load" | "assess" | "states" | "write"
  csAt,         \* the revision this run resolved
  csQueue,      \* the targets this run has still to read, with their budgets
  csRead,       \* of the first of them: offset, scanned, candidates found
  csOffsets,    \* target -> the offset this run leaves
  csFound,      \* the candidates of the targets read
  csFixed,      \* the candidates assessed as fixed
  csActions,    \* those an action is built for
  csFaults

csRemote == <<csRevision, csDecided>>
csFiles == <<csCursor, csNext, csCache, csPlan>>
csRun == <<csPc, csAt, csQueue, csRead, csOffsets, csFound, csFixed, csActions>>
csVars == <<csRemote, csFiles, csRun, csFaults>>

NotRead == [offset |-> 0, scanned |-> 0, found |-> {}]
CSFault == csFaults < CSMaxFaults /\ csFaults' = csFaults + 1

-----------------------------------------------------------------------------
CipInit ==
  /\ csRevision = 1 /\ csDecided = {}
  /\ csCursor = [t \in CSTargets |-> 0] /\ csNext = 0 /\ csCache = {}
  /\ csPlan = [revision |-> 1, rows |-> {}, actions |-> {}]
  /\ csPc = "idle" /\ csAt = 1 /\ csQueue = <<>> /\ csRead = NotRead
  /\ csOffsets = [t \in CSTargets |-> 0] /\ csFound = {} /\ csFixed = {} /\ csActions = {}
  /\ csFaults = 0

\* The kernel or the security repository moves.
CSRevise ==
  /\ csRevision < Len(CSFixedAt) /\ csRevision' = csRevision + 1
  /\ UNCHANGED <<csDecided, csFiles, csRun, csFaults>>

\* A person, or the execution of a plan, decides about a candidate.
CSDecide ==
  /\ Cardinality(csDecided) < CSMaxDecided
  /\ \E c \in CSCandidates \ csDecided : csDecided' = csDecided \cup {c}
  /\ UNCHANGED <<csRevision, csFiles, csRun, csFaults>>

\* The maximum shared out among the targets, beginning at the scheduler's
\* index: the first ones get one more, and those that would get none wait.
CSSchedule ==
  LET n == Len(CSOccurrences)
      Share(i) == (CSMaximum \div n) + (IF i <= CSMaximum % n THEN 1 ELSE 0)
  IN  [i \in 1 .. (IF CSMaximum < n THEN CSMaximum ELSE n) |->
         [target |-> 1 + ((csNext + i - 1) % n), budget |-> Share(i)]]

CSOpens(queue) ==
  IF queue = <<>> THEN NotRead
  ELSE [NotRead EXCEPT !.offset = csCursor[Head(queue).target]]

\* The references are resolved and the files loaded.
CSBegin ==
  /\ csPc = "idle"
  /\ csAt' = csRevision /\ csQueue' = CSSchedule /\ csRead' = CSOpens(csQueue')
  /\ csOffsets' = csCursor /\ csFound' = {} /\ csPc' = "load"
  /\ UNCHANGED <<csRemote, csFiles, csFixed, csActions, csFaults>>

\* The run is through with the first target of the queue, at this offset.
CSTargetEnds(offset, found) ==
  /\ csQueue' = Tail(csQueue) /\ csRead' = CSOpens(csQueue')
  /\ csOffsets' = [csOffsets EXCEPT ![Head(csQueue).target] = offset]
  /\ csFound' = csFound \cup found

\* How many occurrences of a page are consumed until the budget is used up.
CSConsumed(rows, budget) ==
  LET Upto(k) == Cardinality(UNION {{<<j, c>> : c \in rows[j]} : j \in 1 .. k})
      full == {k \in DOMAIN rows : Upto(k) >= budget}
  IN  IF full = {} THEN Len(rows) ELSE CHOOSE k \in full : \A l \in full : k <= l

\* The first n CVEs of an occurrence.
CSFirst(cves, n) == {c \in cves : Cardinality({d \in cves : d < c}) < n}

\* The candidates a page yields: in order, as long as the budget lasts.
CSTaken(t, offset, rows, budget) ==
  LET before(i) == Cardinality(UNION {{<<j, c>> : c \in rows[j]} : j \in 1 .. i - 1})
      some(i) == IF before(i) >= budget THEN {} ELSE CSFirst(rows[i], budget - before(i))
  IN  UNION {{<<t, offset + i, c>> : c \in some(i)} : i \in 1 .. CSConsumed(rows, budget)}

\* One page of a target.  The aliases of an occurrence may fail to resolve: it
\* is passed over.  The end of the collection wraps the cursor around, and so
\* does a page that is not full, even if the budget ended inside it.
CSPage ==
  /\ csPc = "load" /\ csQueue # <<>>
  /\ \E lost \in SUBSET (1 .. CSPageSize) :
       LET t == Head(csQueue).target
           all == CSOccurrences[t]
           offset == csRead.offset
           limit == IF CSPageSize < CSMaxOccurrences - csRead.scanned
                      THEN CSPageSize ELSE CSMaxOccurrences - csRead.scanned
           size == IF offset >= Len(all) THEN 0
                   ELSE IF Len(all) - offset < limit THEN Len(all) - offset ELSE limit
           rows == [i \in 1 .. size |-> IF i \in lost THEN {} ELSE all[offset + i]]
           budget == Head(csQueue).budget - Cardinality(csRead.found)
           consumed == CSConsumed(rows, budget)
           found == csRead.found \cup CSTaken(t, offset, rows, budget)
           scanned == csRead.scanned + consumed
           wraps == offset + consumed >= Len(all) \/ size < limit
           next == IF wraps THEN 0 ELSE offset + consumed
       IN  /\ IF lost = {} THEN UNCHANGED csFaults ELSE CSFault
           /\ IF wraps \/ scanned >= CSMaxOccurrences \/ Cardinality(found) >= Head(csQueue).budget
                THEN CSTargetEnds(next, found)
                ELSE /\ csRead' = [offset |-> next, scanned |-> scanned, found |-> found]
                     /\ UNCHANGED <<csQueue, csOffsets, csFound>>
  /\ UNCHANGED <<csRemote, csFiles, csPc, csAt, csFixed, csActions>>

\* The project version or a page cannot be read: the target ends there, and
\* its cursor stays at that page.
CSPageFails ==
  /\ csPc = "load" /\ csQueue # <<>> /\ CSFault
  /\ CSTargetEnds(csRead.offset, csRead.found)
  /\ UNCHANGED <<csRemote, csFiles, csPc, csAt, csFixed, csActions>>

\* Mutant: the next run begins with the target this one began with.
CSSameStart == csNext

\* Where the scheduler begins next: behind the targets of this run.
CSNextStart == (csNext + Len(CSSchedule)) % Len(CSOccurrences)

\* All targets are read: the cursors are saved, before anything is done about
\* the candidates they have passed.
CSSavesCursors ==
  /\ csPc = "load" /\ csQueue = <<>>
  /\ csCursor' = csOffsets /\ csNext' = CSNextStart
  /\ csPc' = "assess"
  /\ UNCHANGED <<csRemote, csCache, csPlan, csAt, csQueue, csRead, csOffsets, csFound, csFixed, csActions, csFaults>>

\* Mutant: the assessment is cached whatever the revision.
CSAnyRevision(cve) == {e[3] : e \in {x \in csCache : x[2] = cve}}

\* What the cache says of a CVE at the revision of this run.
CSCached(cve) == {e[3] : e \in {x \in csCache : x[1] = csAt /\ x[2] = cve}}

\* Every CVE is assessed once, from the cache or from the repositories; an
\* assessment that fails is not cached.
CSAssess ==
  /\ csPc = "assess"
  /\ \E lost \in SUBSET {c[3] : c \in csFound} :
       LET verdicts == [cve \in {c[3] : c \in csFound} |->
             IF CSCached(cve) # {} THEN CSCached(cve)
             ELSE IF cve \in lost THEN {} ELSE {cve \in CSFixedAt[csAt]}]
       IN  /\ csFixed' = {c \in csFound : TRUE \in verdicts[c[3]]}
           /\ csCache' = csCache \cup
                UNION {{<<csAt, cve, v>> : v \in verdicts[cve]} : cve \in DOMAIN verdicts}
           /\ IF lost = {} THEN UNCHANGED csFaults ELSE CSFault
  /\ csPc' = "states"
  /\ UNCHANGED <<csRemote, csCursor, csNext, csPlan, csAt, csQueue, csRead, csOffsets, csFound, csActions>>

\* The remediation state of every fixed candidate is read; one that cannot be
\* read, or that somebody has decided about, gets no action.
CSReadStates ==
  /\ csPc = "states"
  /\ \E lost \in SUBSET csFixed :
       /\ csActions' = csFixed \ (lost \cup csDecided)
       /\ IF lost = {} THEN UNCHANGED csFaults ELSE CSFault
  /\ csPc' = "write"
  /\ UNCHANGED <<csRemote, csFiles, csAt, csQueue, csRead, csOffsets, csFound, csFixed>>

CSRunOver ==
  /\ csPc' = "idle" /\ csQueue' = <<>> /\ csRead' = NotRead /\ csOffsets' = [t \in CSTargets |-> 0]
  /\ csFound' = {} /\ csFixed' = {} /\ csActions' = {} /\ csAt' = 1
  /\ UNCHANGED <<csRemote, csCursor, csNext, csCache>>

\* The plan and its attachments appear in one replacement.
CSWritesPlan ==
  /\ csPc = "write"
  /\ csPlan' = [revision |-> csAt, rows |-> csFound, actions |-> csActions]
  /\ CSRunOver /\ UNCHANGED csFaults

\* The process dies, or a read outside those above raises.
CSCrash == csPc # "idle" /\ CSFault /\ CSRunOver /\ UNCHANGED csPlan

CSPlanning ==
  CSBegin \/ CSPage \/ CSSavesCursors \/ CSAssess \/ CSReadStates \/ CSWritesPlan

CipNext == CSRevise \/ CSDecide \/ CSPlanning \/ CSPageFails \/ CSCrash

\* The CronJob starts run after run, and a run goes on.
CipFairness == WF_csVars(CSPlanning)

CipSpec == CipInit /\ [][CipNext]_csVars /\ CipFairness

-----------------------------------------------------------------------------
CipTypeOK ==
  /\ csRevision \in DOMAIN CSFixedAt /\ csDecided \subseteq CSCandidates
  /\ \A t \in CSTargets : csCursor[t] \in 0 .. Len(CSOccurrences[t])
  /\ csNext \in 0 .. Len(CSOccurrences) - 1
  /\ csPc \in {"idle", "load", "assess", "states", "write"} /\ csAt \in DOMAIN CSFixedAt
  /\ Len(csQueue) <= Len(CSOccurrences)
  /\ csRead.found \cup csFound \cup csFixed \subseteq CSCandidates /\ csActions \subseteq csFixed
  /\ Cardinality(csFound) + Cardinality(csRead.found) <= CSMaximum
  /\ csFaults \in 0 .. CSMaxFaults

(* An action is never built on a verdict of another revision: the fixes of   *)
(* every CVE a plan remediates are contained in the revisions the plan       *)
(* names, though verdicts are taken from a file that outlives them.          *)
(* (create_cip_plan: cache_key; assess_fix.)                                 *)
CipPlansOnlyFixed ==
  \A c \in csPlan.actions : c[3] \in CSFixedAt[csPlan.revision]

(* Every target gets its turn: one that has an occurrence with a CVE is in   *)
(* plan after plan, though a run has room for fewer targets than there are,  *)
(* the cursors are saved before the plan, and a crash between the two skips  *)
(* what they passed.  (candidate_budgets, create_cip_plan: next_index.)      *)
CipEveryTargetPlanned ==
  \A t \in {c[1] : c \in CSCandidates} : []<>(\E d \in csPlan.rows : d[1] = t)

(* "Cursors and evidence caches allow later runs to continue without         *)
(* loading the complete vulnerability collection": every occurrence with a   *)
(* CVE is assessed in the end, and again whenever the scan comes round.      *)
(* (load_target_candidates: offset.)                                         *)
CipEveryOccurrenceAssessed ==
  \A c \in CSCandidates :
    []<>(\E d \in csPlan.rows : d[1] = c[1] /\ d[2] = c[2])

=============================================================================
