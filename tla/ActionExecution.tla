-------------------------- MODULE ActionExecution ---------------------------
(***************************************************************************)
(* Executing one action plan against Black Duck                            *)
(* (blackduck/actions/executor.py) with the remediation handler            *)
(* (blackduck/actions/remediation.py), PUT requests that are never retried *)
(* (blackduck/actions/http.py), and the result artifact written at the end *)
(* (blackduck/actions/cli.py).  Reviewers change the same remediations     *)
(* meanwhile, requests fail or take effect late, and the process may crash *)
(* and the plan be executed again.                                         *)
(*                                                                         *)
(* A remediation is its status and whose comment it carries; the executor  *)
(* compares exactly these when it compares fingerprints.                   *)
(***************************************************************************)
EXTENDS Integers, Sequences, FiniteSets

CONSTANTS
    N,             \* actions of the plan, each on a remediation of its own
    Policies,      \* execution policies: mode, stop, reads, writes
    Planned,       \* states of a remediation that plans are made on
    MaxEdits,      \* bound: changes reviewers make
    MaxExecutions  \* bound: times the plan is executed

Actions == 1..N

ASSUME PlanAssumption == N \in Nat \ {0}
Remediation == [status : {"NEW", "IGNORED", "PATCHED"}, by : {"nobody", "wintermute", "human"}]

ASSUME PlannedAssumption == Planned \subseteq Remediation
ASSUME PoliciesAssumption ==
    Policies \subseteq [mode : {"dry-run", "apply"}, stop : BOOLEAN, reads : Nat, writes : Nat]

VARIABLES
    policy,    \* limits are the minima of the plan's and the policy's
    disallowed,\* actions whose desired status the handler does not allow
    observed,  \* the state each action was planned on
    server,    \* the remediations in Black Duck
    pending,   \* PUT requests that timed out and may still take effect
    expired,   \* the plan's expiry has passed
    pc, cur, before, reads, writes, stop, receipts, \* the executor's locals
    result     \* receipts of the last written result artifact

(* What reviewers did, what was sent: for the properties only. *)
VARIABLES edits, executions, sent, disturbed, late

executor == <<pc, cur, before, reads, writes, stop, receipts>>
world == <<policy, disallowed, observed, expired>>
audit == <<edits, executions, sent, disturbed, late>>
vars == <<world, server, pending, executor, result, audit>>

Untouched == [status |-> "NEW", by |-> "nobody"]
Ours == [status |-> "PATCHED", by |-> "wintermute"]

Success == {"planned", "applied", "applied-after-error", "already-satisfied"}
Outcomes == Success \cup {"failed", "verification-failed", "stale-plan",
                          "protected-conflict", "budget-exhausted", "not-run"}
Receipts == [outcome : Outcomes, reads : 0..2, writes : 0..1]
Receipt(outcome, r, w) == [outcome |-> outcome, reads |-> r, writes |-> w]

(* VulnerabilityRemediationHandler.is_satisfied *)
Satisfied(state) == state.status = "PATCHED"

(* conflict_reason: somebody else decided, or commented. *)
Conflict(state) == state.by # "wintermute" /\ state # Untouched

Init ==
    /\ policy \in Policies
    /\ disallowed \in {{}, {N}}
    /\ server \in [Actions -> Planned]
    /\ observed = server
    /\ pending = {} /\ expired = FALSE
    /\ pc = "idle" /\ cur = 1 /\ before = Untouched
    /\ reads = 0 /\ writes = 0 /\ stop = FALSE /\ receipts = <<>> /\ result = <<>>
    /\ edits = 0 /\ executions = 0
    /\ sent = [a \in Actions |-> 0] /\ disturbed = {} /\ late = {}

-----------------------------------------------------------------------------
(* execute() validates the plan and the policy, then loops. *)
Start ==
    /\ pc \in {"idle", "recorded", "aborted", "crashed"} /\ ~expired
    /\ executions < MaxExecutions
    /\ executions' = executions + 1
    /\ pc' = "next" /\ cur' = 1 /\ before' = Untouched
    /\ reads' = 0 /\ writes' = 0 /\ stop' = FALSE /\ receipts' = <<>>
    /\ late' = {}
    /\ UNCHANGED <<world, server, pending, result, edits, sent, disturbed>>

(* Append the receipt and go on to the next action. *)
Conclude(outcome, r, w) ==
    /\ receipts' = Append(receipts, Receipt(outcome, r, w))
    /\ cur' = cur + 1
    /\ pc' = "next"

(* A receipt without success stops the loop if the policy says so. *)
Fail(outcome, r, w) ==
    /\ Conclude(outcome, r, w)
    /\ stop' = policy.stop

Keep(outcome, r, w) ==
    /\ Conclude(outcome, r, w)
    /\ UNCHANGED stop

AtAction == pc = "next" /\ cur <= N
Reads == AtAction /\ ~stop /\ reads < policy.reads

NotRun ==
    /\ AtAction /\ stop
    /\ Keep("not-run", 0, 0)
    /\ UNCHANGED <<world, server, pending, before, reads, writes, result, audit>>

(* A mistaken form: the skipped action gets no receipt. *)
NoReadLeftUnsaid ==
    /\ AtAction /\ ~stop /\ reads >= policy.reads
    /\ cur' = cur + 1 /\ stop' = policy.stop /\ UNCHANGED <<pc, receipts>>
    /\ UNCHANGED <<world, server, pending, before, reads, writes, result, audit>>

NoReadLeft ==
    /\ AtAction /\ ~stop /\ reads >= policy.reads
    /\ Fail("budget-exhausted", 0, 0)
    /\ UNCHANGED <<world, server, pending, before, reads, writes, result, audit>>

(* A read that raises is not counted against the read limit. *)
ReadFails ==
    /\ Reads
    /\ Fail("failed", 1, 0)
    /\ UNCHANGED <<world, server, pending, before, reads, writes, result, audit>>

Read ==
    /\ Reads
    /\ before' = server[cur]
    /\ reads' = reads + 1
    /\ late' = late \ {cur}
    /\ pc' = "check"
    /\ UNCHANGED <<world, server, pending, cur, writes, stop, receipts, result,
                   edits, executions, sent, disturbed>>

Local == UNCHANGED <<world, server, pending, before, reads, result, audit>>

(* is_satisfied raises for a status that is not allowed; nothing catches it, *)
(* and the receipts so far are lost.                                         *)
Aborts ==
    /\ pc = "check" /\ cur \in disallowed
    /\ pc' = "aborted"
    /\ UNCHANGED <<cur, writes, stop, receipts>> /\ Local

AlreadySatisfied ==
    /\ pc = "check" /\ cur \notin disallowed /\ Satisfied(before)
    /\ Keep("already-satisfied", 1, 0)
    /\ UNCHANGED writes /\ Local

Differs == pc = "check" /\ cur \notin disallowed /\ ~Satisfied(before)

StalePlan ==
    /\ Differs /\ before # observed[cur]
    /\ Fail("stale-plan", 1, 0)
    /\ UNCHANGED writes /\ Local

ProtectedConflict ==
    /\ Differs /\ before = observed[cur] /\ Conflict(before)
    /\ Fail("protected-conflict", 1, 0)
    /\ UNCHANGED writes /\ Local

(* A mistaken form: only the status is protected, not a comment. *)
DueUnlessDecided ==
    Differs /\ before = observed[cur] /\ (before.by = "wintermute" \/ before.status = "NEW")

Due == Differs /\ before = observed[cur] /\ ~Conflict(before)

DryRun ==
    /\ Due /\ policy.mode = "dry-run"
    /\ Keep("planned", 1, 0)
    /\ UNCHANGED writes /\ Local

(* The write limit, and one read kept for the verification. *)
NoBudgetToWrite ==
    /\ Due /\ policy.mode = "apply"
    /\ writes >= policy.writes \/ reads >= policy.reads
    /\ Fail("budget-exhausted", 1, 0)
    /\ UNCHANGED writes /\ Local

Decide ==
    /\ Due /\ policy.mode = "apply"
    /\ writes < policy.writes /\ reads < policy.reads
    /\ writes' = writes + 1
    /\ pc' = "write"
    /\ UNCHANGED <<cur, stop, receipts>> /\ Local

-----------------------------------------------------------------------------
(* The PUT: it takes effect and answers; it is refused; it takes effect and *)
(* the answer is lost; or it times out and may take effect later.          *)
Sends ==
    /\ pc = "write"
    /\ sent' = [sent EXCEPT ![cur] = @ + 1]
    /\ UNCHANGED <<world, cur, before, reads, writes, stop, receipts, result,
                   edits, executions, late>>

PutAnswers ==
    /\ Sends
    /\ server' = [server EXCEPT ![cur] = Ours]
    /\ pc' = "verify"
    /\ UNCHANGED <<pending, disturbed>>

(* A mistaken form: a PUT without an answer is sent again, like a GET. *)
PutFailsRetried ==
    /\ Sends
    /\ \/ UNCHANGED <<server, pending>> /\ disturbed' = disturbed \cup {cur}
       \/ server' = [server EXCEPT ![cur] = Ours] /\ UNCHANGED <<pending, disturbed>>
    /\ pc' = "write"

PutFails ==
    /\ Sends
    /\ \/ UNCHANGED <<server, pending>> /\ disturbed' = disturbed \cup {cur}
       \/ server' = [server EXCEPT ![cur] = Ours] /\ UNCHANGED <<pending, disturbed>>
       \/ /\ pending' = pending \cup {cur} /\ disturbed' = disturbed \cup {cur}
          /\ UNCHANGED server
    /\ pc' = "recheck"

LateEffect(a) ==
    /\ a \in pending
    /\ pending' = pending \ {a}
    /\ server' = [server EXCEPT ![a] = Ours]
    /\ UNCHANGED <<world, executor, result, audit>>

(* The final read. *)
Rereads == reads' = reads + 1
After == UNCHANGED <<world, server, pending, before, writes, result, audit>>

Verify ==
    /\ pc = "verify" /\ Rereads
    /\ IF Satisfied(server[cur])
       THEN Keep("applied", 2, 1)
       ELSE Fail("verification-failed", 2, 1)
    /\ After

VerifyFails ==
    /\ pc = "verify"
    /\ UNCHANGED reads
    /\ Fail("verification-failed", 2, 1)
    /\ After

(* A mistaken form: an error answer without a body is taken for success. *)
RecheckTrusts ==
    /\ pc = "recheck" /\ Rereads
    /\ Keep("applied-after-error", 2, 1)
    /\ After

Recheck ==
    /\ pc = "recheck" /\ Rereads
    /\ IF Satisfied(server[cur])
       THEN Keep("applied-after-error", 2, 1)
       ELSE Fail("failed", 2, 1)
    /\ After

RecheckFails ==
    /\ pc = "recheck"
    /\ UNCHANGED reads
    /\ Fail("failed", 1, 1)
    /\ After

(* write_execution_result stages, then renames the whole directory. *)
Record ==
    /\ pc = "next" /\ cur > N
    /\ result' = receipts
    /\ pc' = "recorded"
    /\ UNCHANGED <<world, server, pending, cur, before, reads, writes, stop, receipts, audit>>

Crash ==
    /\ pc \in {"next", "check", "write", "verify", "recheck"}
    /\ pc' = "crashed"
    /\ UNCHANGED <<world, server, pending, cur, before, reads, writes, stop, receipts,
                   result, audit>>

(* A reviewer changes the status, and writes a comment or leaves it as it is. *)
Review(a) ==
    /\ edits < MaxEdits
    /\ \E s \in Remediation :
         /\ s.by \in {server[a].by, "human"} /\ s # server[a]
         /\ server' = [server EXCEPT ![a] = s]
    /\ edits' = edits + 1
    /\ disturbed' = disturbed \cup {a}
    /\ late' = late \cup {a}
    /\ UNCHANGED <<world, pending, executor, result, executions, sent>>

Expire ==
    /\ ~expired /\ expired' = TRUE
    /\ UNCHANGED <<policy, disallowed, observed, server, pending, executor, result, audit>>

Step ==
    \/ Start \/ NotRun \/ NoReadLeft \/ ReadFails \/ Read \/ Aborts \/ AlreadySatisfied
    \/ StalePlan \/ ProtectedConflict \/ DryRun \/ NoBudgetToWrite \/ Decide
    \/ PutAnswers \/ PutFails \/ Verify \/ VerifyFails \/ Recheck \/ RecheckFails \/ Record

Next == Step \/ Crash \/ Expire \/ \E a \in Actions : Review(a) \/ LateEffect(a)

Spec == Init /\ [][Next]_vars

-----------------------------------------------------------------------------
(* Every variable stays in its type, and every action passed has a receipt. *)
TypeOK ==
    /\ policy \in Policies /\ disallowed \subseteq Actions /\ expired \in BOOLEAN
    /\ observed \in [Actions -> Remediation] /\ server \in [Actions -> Remediation]
    /\ pending \subseteq Actions
    /\ pc \in {"idle", "next", "check", "write", "verify", "recheck", "recorded",
               "aborted", "crashed"}
    /\ cur \in 1..N + 1 /\ before \in Remediation /\ stop \in BOOLEAN
    /\ reads \in Nat /\ writes \in Nat
    /\ receipts \in Seq(Receipts) /\ Len(receipts) = cur - 1
    /\ pc \in {"check", "write", "verify", "recheck"} => cur \in Actions

(* A decision somebody else made before the executor read the remediation  *)
(* is still there after the execution's own PUT.                           *)
DecisionBeforeReadSurvives ==
    [][sent' # sent /\ cur \notin late /\ Conflict(server[cur]) =>
         server'[cur] = server[cur]]_vars

(* No decision of somebody else is there when a PUT of ours replaces it.   *)
HumanDecisionsSurvive ==
    [][sent' # sent /\ Conflict(server[cur]) => server'[cur] = server[cur]]_vars

(* Executing the plan again, after a crash or a full run, does not send a  *)
(* PUT a second time unless the first one failed or a reviewer intervened. *)
AppliedOnce == \A a \in Actions : sent[a] > 1 => a \in disturbed

(* A receipt that reports the desired state tells the truth: the status is *)
(* in Black Duck, unless a reviewer has changed it since it was read.      *)
SuccessIsTrue ==
    \A k \in 1..Len(receipts) :
      /\ receipts[k].outcome \in Success \ {"planned"}
      /\ k \notin late
      => server[k].status = "PATCHED"
=============================================================================
