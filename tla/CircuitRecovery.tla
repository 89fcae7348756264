-------------------------- MODULE CircuitRecovery ---------------------------
(***************************************************************************)
(* One pipeline stage under run_with_circuit_recovery                      *)
(* (blackduck/circuit_recovery.py): collect_targets                        *)
(* (blackduck/collector.py) maps the targets over a bounded thread pool    *)
(* (concurrency.py), every worker going through RequestControl.  When the  *)
(* circuit opens, the stage waits, resets it and runs once more; a single  *)
(* failing project version is quarantined in a file that later stages and  *)
(* runs read.                                                              *)
(***************************************************************************)
EXTENDS RequestControl, FiniteSets

CONSTANTS
    Workers,  \* threads of the pool
    Attempts, \* recovery_attempts
    Delay,    \* delay_seconds, also the life of a quarantine
    NoTarget  \* no target is blamed

ASSUME RecoveryAssumption ==
    /\ Workers \in Nat \ {0} /\ Attempts \in Nat /\ Delay \in Nat
    /\ NoTarget \notin Targets

VARIABLES
    phase,      \* of run_with_circuit_recovery
    retry,      \* retry_number
    raised,     \* the target whose error executor.map raised
    delayLeft,  \* of the recovery sleep
    quarantine, \* the quarantine file
    written,    \* quarantine_written
    lastSlot    \* time since the latest slot was due, at most Interval; auxiliary

runVars == <<phase, retry, raised, delayLeft, quarantine, written>>
vars == <<rcVars, runVars, lastSlot>>

Blames(target, status, left) == [target |-> target, status |-> status, left |-> left]

Init ==
    /\ ControlInit
    /\ st = [t \in Targets |-> "queued"]
    /\ wait = [t \in Targets |-> 0]
    /\ tries = [t \in Targets |-> 0]
    /\ err = [t \in Targets |-> <<>>]
    /\ phase = "starting" /\ retry = 0 /\ raised = NoTarget /\ delayLeft = 0
    /\ written = FALSE /\ lastSlot = -Interval
    /\ quarantine \in {Blames(NoTarget, "none", 0)}
                        \cup {Blames(t, "active", Delay) : t \in Targets}

ActiveTargets == {t \in Targets : st[t] \in Active}

(* load_active_quarantine: a recovery attempt ignores the file. *)
Skips(t) ==
    /\ retry = 0
    /\ quarantine.status = "active" /\ quarantine.target = t /\ quarantine.left > 0

(* collect_targets begins: the quarantined target is recorded as failed. *)
StartOperation ==
    /\ phase = "starting"
    /\ phase' = "mapping"
    /\ st' = [t \in Targets |-> IF Skips(t) THEN "skipped" ELSE "queued"]
    /\ tries' = [t \in Targets |-> 0]
    /\ wait' = [t \in Targets |-> 0]
    /\ err' = [t \in Targets |-> <<>>]
    /\ UNCHANGED <<control, retry, raised, delayLeft, quarantine, written, lastSlot>>

(* A free thread of the pool takes the next target. *)
Dispatch(t) ==
    /\ phase = "mapping" /\ st[t] = "queued"
    /\ \A u \in Targets : u < t => st[u] # "queued"
    /\ Cardinality(ActiveTargets) < Workers
    /\ Becomes(t, "ready")
    /\ UNCHANGED <<control, wait, tries, err, runVars, lastSlot>>

Work(t) ==
    /\ Attempt(t) \/ Answer(t)
    /\ lastSlot' = IF st[t] = "ready" /\ st'[t] = "pacing" THEN wait'[t] ELSE lastSlot
    /\ UNCHANGED runVars

(* list(executor.map(...)) raises the first error in target order and      *)
(* cancels the targets no thread has taken.                                *)
SurfaceError(t) ==
    /\ phase = "mapping" /\ raised = NoTarget /\ st[t] = "circuit"
    /\ \A u \in Targets : u < t => st[u] \in Settled
    /\ raised' = t
    /\ st' = [u \in Targets |-> IF st[u] = "queued" THEN "cancelled" ELSE st[u]]
    /\ UNCHANGED <<control, wait, tries, err, phase, retry, delayLeft, quarantine,
                   written, lastSlot>>

(* A mistaken form: the latest failure takes the blame. *)
ClassifyLast(fs) == fs[Len(fs)].target

(* classify_target: one target, and only one, is behind the failures. *)
Classify(fs) ==
    IF \A i \in DOMAIN fs : fs[i].target = fs[1].target THEN fs[1].target ELSE NoTarget

(* A mistaken form: the executor is shut down without waiting. *)
PoolIsDetached == TRUE

(* Leaving the "with" block of the executor waits for its threads. *)
PoolIsDone == ActiveTargets = {}

(* A mistaken form: the retries are not counted. *)
HandleErrorUncounted ==
    /\ phase = "mapping" /\ raised # NoTarget /\ PoolIsDone
    /\ phase' = "sleeping" /\ delayLeft' = Delay
    /\ UNCHANGED <<rcVars, raised, lastSlot, retry, quarantine, written>>

(* Once the pool is shut down: write_quarantine, then give up or sleep. *)
HandleError ==
    /\ phase = "mapping" /\ raised # NoTarget /\ PoolIsDone
    /\ LET target == Classify(err[raised])
       IN IF target = NoTarget
          THEN UNCHANGED <<quarantine, written>>
          ELSE quarantine' = Blames(target, "active", Delay) /\ written' = TRUE
    /\ IF retry >= Attempts
       THEN phase' = "raised" /\ UNCHANGED <<retry, delayLeft>>
       ELSE phase' = "sleeping" /\ retry' = retry + 1 /\ delayLeft' = Delay
    /\ UNCHANGED <<rcVars, raised, lastSlot>>

(* The sleep is over: error.reset_circuit() and another round. *)
Recover ==
    /\ phase = "sleeping" /\ delayLeft = 0
    /\ Reset
    /\ phase' = "starting" /\ raised' = NoTarget
    /\ UNCHANGED <<client, retry, delayLeft, quarantine, written, lastSlot>>

(* A mistaken form: any success lifts the quarantine in force. *)
ReturnResultLifts ==
    /\ phase = "mapping" /\ \A t \in Targets : st[t] \in {"ok", "failed", "skipped"}
    /\ phase' = "returned"
    /\ quarantine' = IF quarantine.status = "active"
                     THEN [quarantine EXCEPT !.status = "recovered"] ELSE quarantine
    /\ UNCHANGED <<rcVars, retry, raised, delayLeft, written, lastSlot>>

(* The operation returned.  A stage's exit code is 0 unless it treats the  *)
(* failure of some target as its own.                                      *)
ReturnResult ==
    /\ phase = "mapping" /\ \A t \in Targets : st[t] \in {"ok", "failed", "skipped"}
    /\ phase' = "returned"
    /\ \E success \in {TRUE} \cup {st[t] = "ok" : t \in Targets} :
         quarantine' = IF retry > 0 /\ written /\ success
                       THEN [quarantine EXCEPT !.status = "recovered"] ELSE quarantine
    /\ UNCHANGED <<rcVars, retry, raised, delayLeft, written, lastSlot>>

Tick ==
    /\ Pass
    /\ delayLeft' = Positive(delayLeft - 1)
    /\ quarantine' = [quarantine EXCEPT !.left = Positive(@ - 1)]
    /\ lastSlot' = IF lastSlot > -Interval THEN lastSlot - 1 ELSE lastSlot
    /\ UNCHANGED <<open, st, tries, err, phase, retry, raised, written>>

Stage == StartOperation \/ HandleError \/ Recover \/ ReturnResult
Worker(t) == Dispatch(t) \/ SurfaceError(t) \/ Work(t)

Next == Stage \/ (\E t \in Targets : Worker(t)) \/ Tick

Spec == Init /\ [][Next]_vars

(* Threads are scheduled, the server answers or times out, time passes. *)
Fairness == WF_vars(Stage) /\ (\A t \in Targets : WF_vars(Worker(t))) /\ WF_vars(Tick)

FairSpec == Spec /\ Fairness

-----------------------------------------------------------------------------
(* Every variable stays in its type: attempts, retries and ages are bounded. *)
TypeOK ==
    /\ nextIn \in Nat /\ open \in BOOLEAN
    /\ failures \in Seq([target : Targets, age : 0..Window + 1])
    /\ st \in [Targets -> {"queued"} \cup Active \cup Settled]
    /\ wait \in [Targets -> Nat] /\ tries \in [Targets -> 0..Retries]
    /\ err \in [Targets -> Seq([target : Targets, age : 0..Window + 1])]
    /\ phase \in {"starting", "mapping", "sleeping", "returned", "raised"}
    /\ retry \in 0..Attempts /\ raised \in Targets \cup {NoTarget}
    /\ delayLeft \in 0..Delay /\ written \in BOOLEAN /\ lastSlot \in Int
    /\ quarantine \in [target : Targets \cup {NoTarget},
                       status : {"none", "active", "recovered"}, left : 0..Delay]

(* Each slot handed out lies at least one interval after the one before,   *)
(* whichever threads asked, and across a reset.                            *)
PacedSlots ==
    [][\A t \in Targets :
         st[t] = "ready" /\ st'[t] = "pacing" => wait'[t] >= lastSlot + Interval]_vars

(* The circuit is reset only when no thread of the failed operation is     *)
(* still asleep in before_request or waiting for an answer.                *)
ResetWhenQuiet == [][open /\ ~open' => ActiveTargets = {}]_vars

(* A quarantined target has itself caused a threshold of the failures.     *)
QuarantineJustified ==
    [][quarantine'.status = "active" /\ ~written /\ written' =>
         Cardinality({i \in DOMAIN failures : failures[i].target = quarantine'.target})
           >= Threshold]_vars

(* A quarantine is lifted only by a recovery attempt that collected the    *)
(* target, not by one that skipped it.                                     *)
RecoveredWasTried ==
    quarantine.status = "recovered" => retry > 0 /\ st[quarantine.target] \in {"ok", "failed"}

(* The stage ends: circuit errors, resets and retries do not go round for ever. *)
StageEnds == <>(phase \in {"returned", "raised"})
=============================================================================
