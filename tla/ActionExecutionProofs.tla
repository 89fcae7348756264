----------------------- MODULE ActionExecutionProofs ------------------------
(***************************************************************************)
(* What the executor guarantees for every plan, every policy and any       *)
(* number of executions, crashes and reviewers.                            *)
(***************************************************************************)
EXTENDS ActionExecution, TLAPS

(* Concluding an action appends one well-formed receipt and moves on. *)
LEMMA ConcludeType ==
    ASSUME TypeOK, cur \in Actions,
           NEW o \in Outcomes, NEW r \in 0..2, NEW w \in 0..1, Conclude(o, r, w),
           UNCHANGED <<world, server, pending, before>>,
           reads' \in Nat, writes' \in Nat, stop' \in BOOLEAN
    PROVE  TypeOK'
<1>1. Receipt(o, r, w) \in Receipts
  BY DEF Receipt, Receipts
<1>2. receipts' = Append(receipts, Receipt(o, r, w)) /\ cur' = cur + 1 /\ pc' = "next"
  BY DEF Conclude
<1>3. receipts \in Seq(Receipts) /\ Len(receipts) = cur - 1
  BY DEF TypeOK
<1>4. receipts' \in Seq(Receipts) /\ Len(receipts') = cur' - 1 /\ cur' \in 1..N + 1
  BY <1>1, <1>2, <1>3, PlanAssumption DEF Actions
<1> QED
  BY <1>2, <1>4 DEF TypeOK, world

(* The variables keep their types. *)
LEMMA TypeStep == TypeOK /\ [Next]_vars => TypeOK'
<1> SUFFICES ASSUME TypeOK, [Next]_vars PROVE TypeOK'
  OBVIOUS
<1> DEFINE Ready == /\ cur \in Actions /\ UNCHANGED <<world, server, pending, before>>
                    /\ reads' \in Nat /\ writes' \in Nat /\ stop' \in BOOLEAN
<1>0. policy.stop \in BOOLEAN
  BY PoliciesAssumption DEF TypeOK
<1>1. CASE Start
  <2>1. receipts' \in Seq(Receipts) /\ Len(receipts') = cur' - 1 /\ cur' \in 1..N + 1
    <3>1. receipts' = <<>> /\ cur' = 1
      BY <1>1 DEF Start
    <3> QED
      BY <3>1, PlanAssumption
  <2>2. before' \in Remediation
    BY <1>1 DEF Start, Remediation, Untouched
  <2> QED
    BY <1>1, <2>1, <2>2 DEF TypeOK, world, Start
<1>2. CASE NotRun
  <2>1. Ready /\ Conclude("not-run", 0, 0)
    BY <1>0, <1>2, PlanAssumption DEF TypeOK, Actions, NotRun, AtAction, Keep
  <2> QED
    BY <2>1, ConcludeType DEF Outcomes, Success
<1>3. CASE NoReadLeft
  <2>1. Ready /\ Conclude("budget-exhausted", 0, 0)
    BY <1>0, <1>3, PlanAssumption DEF TypeOK, Actions, NoReadLeft, AtAction, Fail
  <2> QED
    BY <2>1, ConcludeType DEF Outcomes, Success
<1>4. CASE ReadFails
  <2>1. Ready /\ Conclude("failed", 1, 0)
    BY <1>0, <1>4, PlanAssumption DEF TypeOK, Actions, ReadFails, Reads, AtAction, Fail
  <2> QED
    BY <2>1, ConcludeType DEF Outcomes, Success
<1>5. CASE Read
  BY <1>5, PlanAssumption DEF TypeOK, world, Actions, Read, Reads, AtAction
<1>6. CASE Aborts
  BY <1>6, PlanAssumption DEF TypeOK, world, Actions, Aborts, Local
<1>7. CASE AlreadySatisfied
  <2>1. Ready /\ Conclude("already-satisfied", 1, 0)
    BY <1>0, <1>7, PlanAssumption DEF TypeOK, Actions, AlreadySatisfied, Keep, Local
  <2> QED
    BY <2>1, ConcludeType DEF Outcomes, Success
<1>8. CASE StalePlan
  <2>1. Ready /\ Conclude("stale-plan", 1, 0)
    BY <1>0, <1>8, PlanAssumption DEF TypeOK, Actions, StalePlan, Differs, Fail, Local
  <2> QED
    BY <2>1, ConcludeType DEF Outcomes, Success
<1>9. CASE ProtectedConflict
  <2>1. Ready /\ Conclude("protected-conflict", 1, 0)
    BY <1>0, <1>9, PlanAssumption DEF TypeOK, Actions, ProtectedConflict, Differs, Fail, Local
  <2> QED
    BY <2>1, ConcludeType DEF Outcomes, Success
<1>10. CASE DryRun
  <2>1. Ready /\ Conclude("planned", 1, 0)
    BY <1>0, <1>10, PlanAssumption DEF TypeOK, Actions, DryRun, Due, Differs, Keep, Local
  <2> QED
    BY <2>1, ConcludeType DEF Outcomes, Success
<1>11. CASE NoBudgetToWrite
  <2>1. Ready /\ Conclude("budget-exhausted", 1, 0)
    BY <1>0, <1>11, PlanAssumption DEF TypeOK, Actions, NoBudgetToWrite, Due, Differs, Fail, Local
  <2> QED
    BY <2>1, ConcludeType DEF Outcomes, Success
<1>12. CASE Decide
  BY <1>12, PlanAssumption DEF TypeOK, world, Actions, Decide, Due, Differs, Local
<1>13. CASE PutAnswers
  BY <1>13, PlanAssumption DEF TypeOK, world, Actions, PutAnswers, Sends, Remediation, Ours
<1>14. CASE PutFails
  <2>1. cur \in Actions /\ Ours \in Remediation
    BY <1>14 DEF PutFails, Sends, TypeOK, Ours, Remediation
  <2>2. server' \in [Actions -> Remediation] /\ pending' \subseteq Actions
    BY <1>14, <2>1 DEF PutFails, TypeOK
  <2> QED
    BY <1>14, <2>1, <2>2 DEF TypeOK, world, PutFails, Sends
<1>15. CASE Verify
  <2>1. Ready /\ (Conclude("applied", 2, 1) \/ Conclude("verification-failed", 2, 1))
    BY <1>0, <1>15, PlanAssumption DEF TypeOK, Actions, Verify, Rereads, After, Keep, Fail
  <2> QED
    BY <2>1, ConcludeType DEF Outcomes, Success
<1>16. CASE VerifyFails
  <2>1. Ready /\ Conclude("verification-failed", 2, 1)
    BY <1>0, <1>16, PlanAssumption DEF TypeOK, Actions, VerifyFails, After, Fail
  <2> QED
    BY <2>1, ConcludeType DEF Outcomes, Success
<1>17. CASE Recheck
  <2>1. Ready /\ (Conclude("applied-after-error", 2, 1) \/ Conclude("failed", 2, 1))
    BY <1>0, <1>17, PlanAssumption DEF TypeOK, Actions, Recheck, Rereads, After, Keep, Fail
  <2> QED
    BY <2>1, ConcludeType DEF Outcomes, Success
<1>18. CASE RecheckFails
  <2>1. Ready /\ Conclude("failed", 1, 1)
    BY <1>0, <1>18, PlanAssumption DEF TypeOK, Actions, RecheckFails, After, Fail
  <2> QED
    BY <2>1, ConcludeType DEF Outcomes, Success
<1>19. CASE Record
  BY <1>19, PlanAssumption DEF TypeOK, world, Actions, Record
<1>20. CASE Crash \/ Expire
  BY <1>20, PlanAssumption DEF TypeOK, world, Actions, executor, Crash, Expire
<1>21. ASSUME NEW a \in Actions, Review(a) PROVE TypeOK'
  BY <1>21 DEF TypeOK, world, executor, Review
<1>22. ASSUME NEW a \in Actions, LateEffect(a) PROVE TypeOK'
  BY <1>22 DEF TypeOK, world, executor, LateEffect, Remediation, Ours
<1>23. CASE UNCHANGED vars
  BY <1>23 DEF TypeOK, world, executor, vars
<1> QED
  BY <1>1, <1>2, <1>3, <1>4, <1>5, <1>6, <1>7, <1>8, <1>9, <1>10, <1>11, <1>12,
     <1>13, <1>14, <1>15, <1>16, <1>17, <1>18, <1>19, <1>20, <1>21, <1>22, <1>23
     DEF Next, Step

(* The executor's variables, and the receipts it writes, are well-typed. *)
THEOREM TypeCorrect == Spec => []TypeOK
<1>1. Init => TypeOK
  <2> SUFFICES ASSUME Init PROVE TypeOK
    OBVIOUS
  <2>1. server \in [Actions -> Remediation] /\ observed = server /\ before \in Remediation
    BY PlannedAssumption DEF Init, Untouched, Remediation
  <2>2. receipts \in Seq(Receipts) /\ Len(receipts) = cur - 1 /\ cur \in 1..N + 1
    <3>1. receipts = <<>> /\ cur = 1
      BY DEF Init
    <3> QED
      BY <3>1, PlanAssumption
  <2>3. disallowed \subseteq Actions
    BY PlanAssumption DEF Init, Actions
  <2> QED
    BY <2>1, <2>2, <2>3 DEF Init, TypeOK
<1> QED
  BY <1>1, TypeStep, PTL DEF Spec

-----------------------------------------------------------------------------
(* What the executor has read still holds, unless a reviewer came in.      *)

(* The audit variables are well-typed. *)
AuditType ==
    /\ sent \in [Actions -> Nat] /\ disturbed \subseteq Actions /\ late \subseteq disturbed
    /\ edits \in Nat

(* Between its read and its PUT, an action's remediation is as it was read *)
(* or already ours, unless a reviewer has changed it since; after the PUT  *)
(* it is ours, unless that is in doubt.                                    *)
ReadHolds ==
    /\ pc \in {"check", "write", "verify", "recheck"} => cur \in Actions
    /\ pc \in {"check", "write"} =>
         cur \in late \/ server[cur] = before \/ server[cur] = Ours
    /\ pc = "write" => ~Satisfied(before) /\ ~Conflict(before)

(* A PUT that nobody refused, delayed or undid is in effect; an action that *)
(* finds it in effect does not send another.                                *)
SentHolds ==
    /\ \A a \in Actions : sent[a] > 0 /\ a \notin disturbed => server[a] = Ours
    /\ \A a \in Actions : sent[a] > 1 => a \in disturbed
    /\ pc \in {"check", "write"} /\ sent[cur] > 0 /\ cur \notin disturbed => Satisfied(before)

ExecInv == AuditType /\ ReadHolds /\ SentHolds

LEMMA ExecStep == TypeOK /\ ExecInv /\ [Next]_vars => ExecInv'
<1> SUFFICES ASSUME TypeOK, ExecInv, [Next]_vars PROVE ExecInv'
  OBVIOUS
<1> USE PlanAssumption, PoliciesAssumption
        DEF TypeOK, ExecInv, AuditType, ReadHolds, SentHolds, Satisfied, Conflict,
            Actions, Remediation, Untouched, Ours, Receipt, Success, executor, world, audit
<1>1. CASE Start
  BY <1>1 DEF Start
<1>2. CASE NotRun
  BY <1>2 DEF NotRun, AtAction, Keep, Conclude
<1>3. CASE NoReadLeft
  BY <1>3 DEF NoReadLeft, AtAction, Fail, Conclude
<1>4. CASE ReadFails
  BY <1>4 DEF ReadFails, Reads, AtAction, Fail, Conclude
<1>5. CASE Read
  BY <1>5 DEF Read, Reads, AtAction
<1>6. CASE Aborts
  BY <1>6 DEF Aborts, Local
<1>7. CASE AlreadySatisfied
  BY <1>7 DEF AlreadySatisfied, Keep, Conclude, Local
<1>8. CASE StalePlan
  BY <1>8 DEF StalePlan, Differs, Fail, Conclude, Local
<1>9. CASE ProtectedConflict
  BY <1>9 DEF ProtectedConflict, Differs, Fail, Conclude, Local
<1>10. CASE DryRun
  BY <1>10 DEF DryRun, Due, Differs, Keep, Conclude, Local
<1>11. CASE NoBudgetToWrite
  BY <1>11 DEF NoBudgetToWrite, Due, Differs, Fail, Conclude, Local
<1>12. CASE Decide
  BY <1>12 DEF Decide, Due, Differs, Local
<1>13. CASE PutAnswers
  BY <1>13 DEF PutAnswers, Sends
<1>14. CASE PutFails
  <2>1. /\ cur \in Actions /\ pc' = "recheck" /\ UNCHANGED <<cur, late, edits>>
        /\ sent' = [sent EXCEPT ![cur] = @ + 1] /\ pc = "write"
    BY <1>14 DEF PutFails, Sends
  <2>2. /\ server' = server \/ server' = [server EXCEPT ![cur] = Ours]
        /\ disturbed' = disturbed \cup {cur} \/ (disturbed' = disturbed /\ server'[cur] = Ours)
    BY <1>14, <2>1 DEF PutFails
  <2>3. AuditType' /\ ReadHolds'
    <3>1. sent' \in [Actions -> Nat]
      BY <2>1
    <3>2. disturbed' \subseteq Actions /\ late' \subseteq disturbed'
      BY <2>1, <2>2
    <3>3. ReadHolds'
      BY <2>1
    <3> QED
      BY <2>1, <3>1, <3>2, <3>3
  <2>4. sent[cur] > 0 /\ cur \notin disturbed => FALSE
    BY <2>1
  <2>5. ASSUME NEW a \in Actions
        PROVE  (sent'[a] > 0 /\ a \notin disturbed' => server'[a] = Ours)
               /\ (sent'[a] > 1 => a \in disturbed')
    <3>1. CASE a = cur
      BY <2>1, <2>2, <2>4, <3>1
    <3>2. CASE a # cur
      BY <2>1, <2>2, <3>2
    <3> QED
      BY <3>1, <3>2
  <2> QED
    BY <2>1, <2>3, <2>5
<1>15. CASE Verify
  BY <1>15 DEF Verify, Rereads, After, Keep, Fail, Conclude
<1>16. CASE VerifyFails
  BY <1>16 DEF VerifyFails, After, Fail, Conclude
<1>17. CASE Recheck
  BY <1>17 DEF Recheck, Rereads, After, Keep, Fail, Conclude
<1>18. CASE RecheckFails
  BY <1>18 DEF RecheckFails, After, Fail, Conclude
<1>19. CASE Record
  BY <1>19 DEF Record
<1>20. CASE Crash \/ Expire
  <2>1. UNCHANGED <<cur, before, server, sent, disturbed, late, edits>>
    BY <1>20 DEF Crash, Expire
  <2>2. pc' = pc \/ pc' = "crashed"
    BY <1>20 DEF Crash, Expire
  <2> QED
    BY <2>1, <2>2
<1>21. ASSUME NEW a \in Actions, Review(a) PROVE ExecInv'
  BY <1>21 DEF Review
<1>22. ASSUME NEW a \in Actions, LateEffect(a) PROVE ExecInv'
  BY <1>22 DEF LateEffect
<1>23. CASE UNCHANGED vars
  BY <1>23 DEF vars
<1> QED
  BY <1>1, <1>2, <1>3, <1>4, <1>5, <1>6, <1>7, <1>8, <1>9, <1>10, <1>11, <1>12,
     <1>13, <1>14, <1>15, <1>16, <1>17, <1>18, <1>19, <1>20, <1>21, <1>22, <1>23
     DEF Next, Step

LEMMA ExecInvariant == Spec => [](TypeOK /\ ExecInv)
<1>1. Init => ExecInv
  BY PlanAssumption DEF Init, ExecInv, AuditType, ReadHolds, SentHolds
<1> QED
  BY <1>1, ExecStep, TypeCorrect, PTL DEF Spec

(* A plan may be executed again after any crash: a PUT is sent twice only  *)
(* if the first was refused or in doubt, or a reviewer intervened.         *)
THEOREM Idempotent == Spec => []AppliedOnce
<1>1. ExecInv => AppliedOnce
  BY DEF ExecInv, SentHolds, AppliedOnce
<1> QED
  BY <1>1, ExecInvariant, PTL

(* An action concluded in the desired state leaves all receipts true. *)
LEMMA ConcludeTrue ==
    ASSUME TypeOK, SuccessIsTrue, cur \in Actions,
           NEW o \in Outcomes, NEW r \in 0..2, NEW w \in 0..1, Conclude(o, r, w),
           UNCHANGED <<server, late>>,
           o \in Success \ {"planned"} /\ cur \notin late => Satisfied(server[cur])
    PROVE  SuccessIsTrue'
<1>1. receipts' = Append(receipts, Receipt(o, r, w))
  BY DEF Conclude
<1>2. /\ Len(receipts') = Len(receipts) + 1 /\ Len(receipts) = cur - 1
      /\ receipts'[cur] = Receipt(o, r, w)
      /\ \A k \in 1..Len(receipts) : receipts'[k] = receipts[k]
  BY <1>1, PlanAssumption DEF TypeOK, Actions
<1>3. SUFFICES ASSUME NEW k \in 1..Len(receipts'),
                      receipts'[k].outcome \in Success \ {"planned"}, k \notin late'
               PROVE  server'[k].status = "PATCHED"
  BY DEF SuccessIsTrue
<1>4. CASE k = cur
  BY <1>2, <1>3, <1>4 DEF Receipt, Satisfied
<1>5. CASE k # cur
  <2>1. k \in 1..Len(receipts)
    BY <1>2, <1>3, <1>5, PlanAssumption DEF Actions
  <2>2. receipts'[k] = receipts[k]
    BY <1>2, <2>1
  <2> QED
    BY <2>1, <2>2, <1>3 DEF SuccessIsTrue
<1> QED
  BY <1>4, <1>5

(* Receipts are of the plan's actions. *)
LEMMA ReceiptsOfActions == TypeOK => \A k \in 1..Len(receipts) : k \in Actions
  BY PlanAssumption DEF TypeOK, Actions

(* A true receipt stays true, whatever the step. *)
LEMMA TruthStep == TypeOK /\ ExecInv /\ SuccessIsTrue /\ [Next]_vars => SuccessIsTrue'
<1> SUFFICES ASSUME TypeOK, ExecInv, SuccessIsTrue, [Next]_vars PROVE SuccessIsTrue'
  OBVIOUS
<1> USE DEF SuccessIsTrue, executor, world, audit
<1>1. CASE Start
  BY <1>1 DEF Start
<1>2. CASE NotRun
  <2>1. /\ cur \in Actions /\ Conclude("not-run", 0, 0) /\ UNCHANGED <<server, late>>
    BY <1>2 DEF NotRun, AtAction, Keep, TypeOK, Actions
  <2> QED
    BY <2>1, ConcludeTrue DEF Outcomes, Success
<1>3. CASE NoReadLeft
  <2>1. /\ cur \in Actions /\ Conclude("budget-exhausted", 0, 0) /\ UNCHANGED <<server, late>>
    BY <1>3 DEF NoReadLeft, AtAction, Fail, TypeOK, Actions
  <2> QED
    BY <2>1, ConcludeTrue DEF Outcomes, Success
<1>4. CASE ReadFails
  <2>1. /\ cur \in Actions /\ Conclude("failed", 1, 0) /\ UNCHANGED <<server, late>>
    BY <1>4 DEF ReadFails, Reads, AtAction, Fail, TypeOK, Actions
  <2> QED
    BY <2>1, ConcludeTrue DEF Outcomes, Success
<1>5. CASE Read
  BY <1>5 DEF Read, Reads, AtAction, TypeOK, Actions
<1>6. CASE Aborts
  BY <1>6 DEF Aborts, Local
<1>7. CASE AlreadySatisfied
  <2>1. /\ cur \in Actions /\ Conclude("already-satisfied", 1, 0) /\ UNCHANGED <<server, late>>
        /\ cur \notin late => Satisfied(server[cur])
    BY <1>7 DEF AlreadySatisfied, Keep, Local, TypeOK, Actions, ExecInv, ReadHolds, Satisfied, Ours
  <2> QED
    BY <2>1, ConcludeTrue DEF Outcomes, Success
<1>8. CASE StalePlan
  <2>1. /\ cur \in Actions /\ Conclude("stale-plan", 1, 0) /\ UNCHANGED <<server, late>>
    BY <1>8 DEF StalePlan, Differs, Fail, Local, TypeOK, Actions
  <2> QED
    BY <2>1, ConcludeTrue DEF Outcomes, Success
<1>9. CASE ProtectedConflict
  <2>1. /\ cur \in Actions /\ Conclude("protected-conflict", 1, 0) /\ UNCHANGED <<server, late>>
    BY <1>9 DEF ProtectedConflict, Differs, Fail, Local, TypeOK, Actions
  <2> QED
    BY <2>1, ConcludeTrue DEF Outcomes, Success
<1>10. CASE DryRun
  <2>1. /\ cur \in Actions /\ Conclude("planned", 1, 0) /\ UNCHANGED <<server, late>>
    BY <1>10 DEF DryRun, Due, Differs, Keep, Local, TypeOK, Actions
  <2> QED
    BY <2>1, ConcludeTrue DEF Outcomes, Success
<1>11. CASE NoBudgetToWrite
  <2>1. /\ cur \in Actions /\ Conclude("budget-exhausted", 1, 0) /\ UNCHANGED <<server, late>>
    BY <1>11 DEF NoBudgetToWrite, Due, Differs, Fail, Local, TypeOK, Actions
  <2> QED
    BY <2>1, ConcludeTrue DEF Outcomes, Success
<1>12. CASE Decide
  BY <1>12 DEF Decide, Due, Differs, Local
<1>13. CASE PutAnswers
  BY <1>13 DEF PutAnswers, Sends, TypeOK, Actions, Ours
<1>14. CASE PutFails
  <2>1. UNCHANGED <<receipts, late>> /\ server \in [Actions -> Remediation] /\ cur \in Actions
    BY <1>14 DEF PutFails, Sends, TypeOK
  <2>2. server' = server \/ server' = [server EXCEPT ![cur] = Ours]
    BY <1>14 DEF PutFails
  <2>3. \A k \in Actions : server[k].status = "PATCHED" => server'[k].status = "PATCHED"
    BY <2>1, <2>2 DEF Ours
  <2> QED
    BY <2>1, <2>3, ReceiptsOfActions
<1>15. CASE Verify
  <2>1. /\ cur \in Actions /\ UNCHANGED <<server, late>>
        /\ \/ Conclude("applied", 2, 1) /\ Satisfied(server[cur])
           \/ Conclude("verification-failed", 2, 1)
    BY <1>15 DEF Verify, After, Keep, Fail, TypeOK, Actions
  <2> QED
    BY <2>1, ConcludeTrue DEF Outcomes, Success
<1>16. CASE VerifyFails
  <2>1. /\ cur \in Actions /\ Conclude("verification-failed", 2, 1) /\ UNCHANGED <<server, late>>
    BY <1>16 DEF VerifyFails, After, Fail, TypeOK, Actions
  <2> QED
    BY <2>1, ConcludeTrue DEF Outcomes, Success
<1>17. CASE Recheck
  <2>1. /\ cur \in Actions /\ UNCHANGED <<server, late>>
        /\ \/ Conclude("applied-after-error", 2, 1) /\ Satisfied(server[cur])
           \/ Conclude("failed", 2, 1)
    BY <1>17 DEF Recheck, After, Keep, Fail, TypeOK, Actions
  <2> QED
    BY <2>1, ConcludeTrue DEF Outcomes, Success
<1>18. CASE RecheckFails
  <2>1. /\ cur \in Actions /\ Conclude("failed", 1, 1) /\ UNCHANGED <<server, late>>
    BY <1>18 DEF RecheckFails, After, Fail, TypeOK, Actions
  <2> QED
    BY <2>1, ConcludeTrue DEF Outcomes, Success
<1>19. CASE Record
  BY <1>19 DEF Record
<1>20. CASE Crash \/ Expire
  BY <1>20 DEF Crash, Expire
<1>21. ASSUME NEW a \in Actions, Review(a) PROVE SuccessIsTrue'
  BY <1>21 DEF Review
<1>22. ASSUME NEW a \in Actions, LateEffect(a) PROVE SuccessIsTrue'
  <2>1. \A k \in Actions : server[k].status = "PATCHED" => server'[k].status = "PATCHED"
    BY <1>22 DEF LateEffect, TypeOK, Ours
  <2> QED
    BY <1>22, <2>1, ReceiptsOfActions DEF LateEffect
<1>23. CASE UNCHANGED vars
  BY <1>23 DEF vars
<1> QED
  BY <1>1, <1>2, <1>3, <1>4, <1>5, <1>6, <1>7, <1>8, <1>9, <1>10, <1>11, <1>12,
     <1>13, <1>14, <1>15, <1>16, <1>17, <1>18, <1>19, <1>20, <1>21, <1>22, <1>23
     DEF Next, Step

(* Receipts that report the desired state are true of Black Duck. *)
THEOREM Truthful == Spec => []SuccessIsTrue
<1>1. Init => SuccessIsTrue
  BY DEF Init, SuccessIsTrue
<1> QED
  BY <1>1, TruthStep, ExecInvariant, PTL DEF Spec

(* A decision that was there when the executor read is never overwritten.  *)
THEOREM DecisionsRespected == Spec => DecisionBeforeReadSurvives
<1>1. TypeOK /\ ExecInv /\ [Next]_vars =>
        [sent' # sent /\ cur \notin late /\ Conflict(server[cur]) =>
           server'[cur] = server[cur]]_vars
  <2> SUFFICES ASSUME ExecInv, [Next]_vars, sent' # sent, cur \notin late, Conflict(server[cur])
               PROVE  FALSE
    OBVIOUS
  <2>1. pc = "write"
    BY DEF Next, Step, Start, NotRun, NoReadLeft, ReadFails, Read, Aborts, AlreadySatisfied,
           StalePlan, ProtectedConflict, DryRun, NoBudgetToWrite, Decide, PutAnswers, PutFails,
           Sends, Verify, VerifyFails, Recheck, RecheckFails, Record, After, Local, Crash,
           Expire, Review, LateEffect, vars, audit
  <2> QED
    BY <2>1 DEF ExecInv, ReadHolds, Conflict, Ours
<1> QED
  BY <1>1, ExecInvariant, PTL DEF Spec, DecisionBeforeReadSurvives
=============================================================================
