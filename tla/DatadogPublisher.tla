-------------------------- MODULE DatadogPublisher --------------------------
(***************************************************************************)
(* The publisher of Datadog events (datadog/findings_to_datadog.py): one   *)
(* run loads the state file, plans the open and resolved events of its     *)
(* event mode, cuts the plan at --max-send, POSTs the events one by one    *)
(* with retries, and saves the state at checkpoints and at the end.  Runs  *)
(* repeat; between them the findings and the command line change, and a    *)
(* run may die, lose an answer or be refused at any POST.                  *)
(*                                                                         *)
(* A subject is what an event is about: a finding, its project group or    *)
(* its vulnerability group.                                                *)
(***************************************************************************)
EXTENDS Naturals, FiniteSets

CONSTANTS
  DDCount,          \* kind -> number of its subjects: they are 1 .. DDCount[kind]
  DDGroupOf,        \* finding -> project group
  DDVulnOf,         \* finding -> vulnerability group
  DDModes,          \* the event modes tried
  DDMaxSend,        \* --max-send; 0 stands for no limit
  DDCheckpoint,     \* --checkpoint-every; 0 saves only at the end
  DDRetries,        \* --retries
  DDMaxFaults,      \* bound: lost answers, refusals, crashes
  DDMaxChanges      \* bound: changes of the findings or the command line

VARIABLES
  ddFindings,       \* the findings file
  ddArgs,           \* [mode, refresh, resolved, failFast, dry]
  ddFile,           \* the state file: subject -> status
  ddMem,            \* the state of the running process
  ddPlan,           \* the selected events not yet handled
  ddTry,            \* attempts made for the first of them
  ddSent,           \* events sent by this run
  ddPc,             \* "idle" | "send" | "checkpoint" | "save"
  ddLast,           \* Datadog: the last event it took about each subject
  ddFaults, ddChanges

ddVars == <<ddFindings, ddArgs, ddFile, ddMem, ddPlan, ddTry, ddSent, ddPc,
            ddLast, ddFaults, ddChanges>>

DDKindSet == {"project", "vulnerability", "finding"}
DDFindingIds == 1 .. DDCount["finding"]

DDSubjects == UNION {[kind : {kind}, id : 1 .. DDCount[kind]] : kind \in DDKindSet}
DDEvents == [verb : {"open", "resolved"}, on : DDSubjects]

ASSUME DatadogAssumption ==
  /\ DDCount \in [DDKindSet -> Nat]
  /\ DDGroupOf \in [DDFindingIds -> 1 .. DDCount["project"]]
  /\ DDVulnOf \in [DDFindingIds -> 1 .. DDCount["vulnerability"]]
  /\ DDModes \subseteq DDKindSet \cup {"both"}
  /\ {DDMaxSend, DDCheckpoint, DDRetries, DDMaxFaults, DDMaxChanges} \subseteq Nat

DDArgs == [mode : DDModes, refresh : BOOLEAN, resolved : BOOLEAN,
           failFast : BOOLEAN, dry : BOOLEAN]

-----------------------------------------------------------------------------
(* Planning. *)

DDKinds(mode) == IF mode = "both" THEN {"project", "finding"} ELSE {mode}

DDCurrent == [kind : {"finding"}, id : ddFindings]
             \cup [kind : {"project"}, id : {DDGroupOf[f] : f \in ddFindings}]
             \cup [kind : {"vulnerability"}, id : {DDVulnOf[f] : f \in ddFindings}]

\* The order in which plan_events appends its events: by what they say and
\* are about, and among those by the external ids.
DDTurn == [open |-> [project |-> 1, vulnerability |-> 2, finding |-> 3],
           resolved |-> [finding |-> 4, project |-> 5, vulnerability |-> 6]]
DDBefore(d, e) ==
  LET x == DDTurn[d.verb][d.on.kind]
      y == DDTurn[e.verb][e.on.kind]
  IN x < y \/ (x = y /\ d.on.id < e.on.id)

\* An open event is planned for every current subject the state does not
\* call active (for every current one with --refresh-existing).
DDWantsOpen(s) ==
  s \in DDCurrent /\ (ddArgs.refresh \/ ddFile[s] # "active")

\* A resolved event is planned for an active subject that is gone.
DDWantsResolved(s) ==
  ddArgs.resolved /\ ddFile[s] = "active" /\ s \notin DDCurrent

DDWants(e) ==
  /\ e.on.kind \in DDKinds(ddArgs.mode)
  /\ IF e.verb = "open" THEN DDWantsOpen(e.on) ELSE DDWantsResolved(e.on)

\* A finding that is gone is closed without an event when the mode sends no
\* finding events.
DDClosedSilently(s) ==
  s.kind = "finding" /\ "finding" \notin DDKinds(ddArgs.mode) /\ DDWantsResolved(s)

\* apply_max_send keeps the first events of the plan.
DDSelect(planned) ==
  {e \in planned : DDMaxSend = 0 \/ Cardinality({d \in planned : DDBefore(d, e)}) < DDMaxSend}

-----------------------------------------------------------------------------
DatadogInit ==
  /\ ddFindings = DDFindingIds
  /\ ddArgs \in DDArgs
  /\ ddFile = [s \in DDSubjects |-> "absent"]
  /\ ddMem = ddFile
  /\ ddPlan = {} /\ ddTry = 0 /\ ddSent = 0 /\ ddPc = "idle"
  /\ ddLast = [s \in DDSubjects |-> "none"]
  /\ ddFaults = 0 /\ ddChanges = 0

\* A new collection rewrites the findings, or the operator changes a flag.
DDChange ==
  /\ ddPc = "idle" /\ ddChanges < DDMaxChanges
  /\ \/ ddFindings' \in SUBSET DDFindingIds /\ UNCHANGED ddArgs
     \/ ddArgs' \in DDArgs /\ UNCHANGED ddFindings
  /\ ddChanges' = ddChanges + 1
  /\ UNCHANGED <<ddFile, ddMem, ddPlan, ddTry, ddSent, ddPc, ddLast, ddFaults>>

\* Mutant: the plan is cut before the events the state already covers are
\* dropped from it.
DDBeginCutsFirst ==
  /\ ddPc = "idle"
  /\ ddMem' = [s \in DDSubjects |-> IF DDClosedSilently(s) THEN "resolved" ELSE ddFile[s]]
  /\ ddPlan' = {e \in DDSelect(DDEvents) : DDWants(e)}
  /\ ddTry' = 0 /\ ddSent' = 0
  /\ ddPc' = IF ddArgs.dry THEN "save" ELSE "send"
  /\ UNCHANGED <<ddFindings, ddArgs, ddFile, ddLast, ddFaults, ddChanges>>

\* A run loads the state, plans and cuts the plan.
DDBegin ==
  /\ ddPc = "idle"
  /\ ddMem' = [s \in DDSubjects |-> IF DDClosedSilently(s) THEN "resolved" ELSE ddFile[s]]
  /\ ddPlan' = DDSelect({e \in DDEvents : DDWants(e)})
  /\ ddTry' = 0 /\ ddSent' = 0
  /\ ddPc' = IF ddArgs.dry THEN "save" ELSE "send"
  /\ UNCHANGED <<ddFindings, ddArgs, ddFile, ddLast, ddFaults, ddChanges>>

\* The first event of the plan that is left is sent.
DDSending(e) ==
  ddPc = "send" /\ e \in ddPlan /\ \A d \in ddPlan \ {e} : DDBefore(e, d)

\* Datadog takes the event it is sent.
DDDelivered(e) == ddLast' = [ddLast EXCEPT ![e.on] = e.verb]

DDStatus(verb) == IF verb = "open" THEN "active" ELSE "resolved"

\* Mutant: the status of a subject is recorded before the answer is known.
DDNextEventRecords(e) ==
  /\ ddPlan' = ddPlan \ {e} /\ ddTry' = 0
  /\ ddMem' = [ddMem EXCEPT ![e.on] = DDStatus(e.verb)]
  /\ ddPc' = "send"

\* The event failed: the next one, or the end with --fail-fast.
DDNextEvent(e) ==
  /\ ddPlan' = IF ddArgs.failFast THEN {} ELSE ddPlan \ {e}
  /\ ddTry' = 0 /\ ddPc' = "send" /\ UNCHANGED ddMem

\* The POST is answered 200 or 202 with an event id: the state follows.
DDAccepted(e) ==
  /\ DDSending(e) /\ DDDelivered(e)
  /\ ddMem' = [ddMem EXCEPT ![e.on] = DDStatus(e.verb)]
  /\ ddPlan' = ddPlan \ {e} /\ ddTry' = 0
  /\ ddSent' = ddSent + 1
  /\ ddPc' = IF DDCheckpoint > 0 /\ ddSent' % DDCheckpoint = 0 THEN "checkpoint" ELSE "send"
  /\ UNCHANGED <<ddFindings, ddArgs, ddFile, ddFaults, ddChanges>>

\* No usable answer (timeout, 5xx, 429, an empty or malformed success): the
\* event may have been taken.  The POST is repeated until the retries end.
DDLost(e) ==
  /\ DDSending(e) /\ ddFaults < DDMaxFaults
  /\ DDDelivered(e) \/ UNCHANGED ddLast
  /\ IF ddTry < DDRetries
       THEN ddTry' = ddTry + 1 /\ UNCHANGED <<ddPlan, ddMem, ddPc>>
       ELSE DDNextEvent(e)
  /\ ddFaults' = ddFaults + 1
  /\ UNCHANGED <<ddFindings, ddArgs, ddFile, ddSent, ddChanges>>

\* A status that is not retried (400, 403 ...).
DDRefused(e) ==
  /\ DDSending(e) /\ ddFaults < DDMaxFaults
  /\ DDNextEvent(e)
  /\ ddFaults' = ddFaults + 1
  /\ UNCHANGED <<ddFindings, ddArgs, ddFile, ddSent, ddLast, ddChanges>>

\* An answer with a top-level id and "event": null passes send_event and
\* raises AttributeError in process, which nothing catches: the run dies
\* with an event taken and nothing saved since the last checkpoint.
DDOddAnswer(e) ==
  /\ DDSending(e) /\ ddFaults < DDMaxFaults
  /\ DDDelivered(e)
  /\ ddPc' = "idle" /\ ddPlan' = {} /\ ddTry' = 0 /\ ddSent' = 0 /\ ddMem' = ddFile
  /\ ddFaults' = ddFaults + 1
  /\ UNCHANGED <<ddFindings, ddArgs, ddFile, ddChanges>>

DDCheckpointSaves ==
  /\ ddPc = "checkpoint"
  /\ ddFile' = ddMem /\ ddPc' = "send"
  /\ UNCHANGED <<ddFindings, ddArgs, ddMem, ddPlan, ddTry, ddSent, ddLast, ddFaults, ddChanges>>

DDLoopEnds ==
  /\ ddPc = "send" /\ ddPlan = {}
  /\ ddPc' = "save"
  /\ UNCHANGED <<ddFindings, ddArgs, ddFile, ddMem, ddPlan, ddTry, ddSent, ddLast, ddFaults, ddChanges>>

\* The end of the run: a dry run leaves the state file alone.
DDFinish ==
  /\ ddPc = "save"
  /\ ddFile' = IF ddArgs.dry THEN ddFile ELSE ddMem
  /\ ddMem' = ddFile'
  /\ ddPc' = "idle" /\ ddPlan' = {} /\ ddTry' = 0 /\ ddSent' = 0
  /\ UNCHANGED <<ddFindings, ddArgs, ddLast, ddFaults, ddChanges>>

\* The process dies (killed, interrupted, or the state cannot be written:
\* the replacement is atomic, so the file keeps its old content).
DDCrash ==
  /\ ddPc # "idle" /\ ddFaults < DDMaxFaults
  /\ ddPc' = "idle" /\ ddPlan' = {} /\ ddTry' = 0 /\ ddSent' = 0 /\ ddMem' = ddFile
  /\ ddFaults' = ddFaults + 1
  /\ UNCHANGED <<ddFindings, ddArgs, ddFile, ddLast, ddChanges>>

DatadogNext ==
  \/ DDChange \/ DDBegin
  \/ \E e \in DDEvents : DDAccepted(e) \/ DDLost(e) \/ DDRefused(e) \/ DDOddAnswer(e)
  \/ DDCheckpointSaves \/ DDLoopEnds \/ DDFinish \/ DDCrash

DDProgress ==
  DDBegin \/ (\E e \in DDEvents : DDAccepted(e)) \/ DDCheckpointSaves \/ DDLoopEnds \/ DDFinish

\* The scheduler starts the next run, and a run goes on.
DatadogFairness == WF_ddVars(DDProgress)

DatadogSpec == DatadogInit /\ [][DatadogNext]_ddVars /\ DatadogFairness

-----------------------------------------------------------------------------
DatadogTypeOK ==
  /\ ddFindings \subseteq DDFindingIds /\ ddArgs \in DDArgs
  /\ ddFile \in [DDSubjects -> {"absent", "active", "resolved"}]
  /\ ddMem \in [DDSubjects -> {"absent", "active", "resolved"}]
  /\ ddPlan \subseteq DDEvents /\ (DDMaxSend = 0 \/ Cardinality(ddPlan) <= DDMaxSend)
  /\ ddTry \in 0 .. DDRetries /\ ddSent \in Nat
  /\ ddPc \in {"idle", "send", "checkpoint", "save"}
  /\ ddLast \in [DDSubjects -> {"none", "open", "resolved"}]
  /\ ddFaults \in 0 .. DDMaxFaults /\ ddChanges \in 0 .. DDMaxChanges

(* The state file follows Datadog: whenever a save changes the status of a  *)
(* subject, the last event Datadog took about it says the same, or the      *)
(* subject is a finding the mode closes without an event.  A dry run        *)
(* changes nothing.  (record_event, update_*_state, save_state.)            *)
DatadogSavesWhatWasTaken ==
  [][\A s \in DDSubjects : ddFile'[s] # ddFile[s] =>
       /\ ~ddArgs.dry
       /\ \/ ddLast[s] # "none" /\ ddFile'[s] = DDStatus(ddLast[s])
          \/ DDClosedSilently(s)]_ddVars

\* Nothing is left to announce: the state says active exactly of what is
\* there, for the subjects the mode is about.
DDDrained ==
  \A s \in DDSubjects :
    /\ s.kind \in DDKinds(ddArgs.mode) /\ s \in DDCurrent => ddFile[s] = "active"
    /\ (s.kind \in DDKinds(ddArgs.mode) \/ s.kind = "finding")
         /\ ddArgs.resolved /\ s \notin DDCurrent => ddFile[s] # "active"

(* Every opening and every resolution is announced at last, however small   *)
(* --max-send is: the limit delays an event and never starves it, because   *)
(* the plan holds only what the state does not cover yet.  Runs that apply  *)
(* without --refresh-existing are meant; faults and changes are finite.     *)
DatadogSettled == ddArgs.dry \/ ddArgs.refresh \/ DDDrained

DatadogBacklogDrains == <>[]DatadogSettled

=============================================================================
