----------------------- MODULE CircuitRecoveryProofs ------------------------
(***************************************************************************)
(* What CircuitRecovery guarantees for any number of targets and threads   *)
(* and any settings of the breaker: the circuit is reset only once the     *)
(* pool is quiet, an open circuit sends nothing new, and start slots stay  *)
(* an interval apart even across a reset.  The breaker opens on a burst    *)
(* only, a quarantine names a target that caused one, and is lifted only   *)
(* when that target was collected again.                                   *)
(***************************************************************************)
EXTENDS CircuitRecovery, SequenceTheorems, FiniteSetTheorems, TLAPS

(* Threads of the pool exist only while the operation is mapping targets. *)
PoolInv == phase # "mapping" => ActiveTargets = {}

StatusType == st \in [Targets -> {"queued"} \cup Active \cup Settled]

LEMMA StatusStep == StatusType /\ [Next]_vars => StatusType'
<1> SUFFICES ASSUME StatusType, [Next]_vars PROVE StatusType'
  OBVIOUS
<1> USE DEF StatusType, Active, Settled
<1>1. CASE Stage
  BY <1>1 DEF Stage, StartOperation, HandleError, Recover, ReturnResult, rcVars, client
<1>2. ASSUME NEW t \in Targets, Dispatch(t) PROVE StatusType'
  BY <1>2 DEF Dispatch, Becomes
<1>3. ASSUME NEW t \in Targets, SurfaceError(t) PROVE StatusType'
  BY <1>3 DEF SurfaceError
<1>4. ASSUME NEW t \in Targets, Work(t), Attempt(t) PROVE StatusType'
  BY <1>4 DEF Attempt, BeforeRequest, Permit, Snapshots, Retry, RaisesCircuitError, Becomes
<1>5. ASSUME NEW t \in Targets, Work(t), Answer(t) PROVE StatusType'
  BY <1>5 DEF Answer, Succeeds, ServerError, ClientError, NetworkError, RetryOrFail, Becomes
<1>6. CASE Tick
  BY <1>6 DEF Tick
<1>7. CASE UNCHANGED vars
  BY <1>7 DEF vars, rcVars, client
<1> QED
  BY <1>1, <1>2, <1>3, <1>4, <1>5, <1>6, <1>7 DEF Next, Worker, Work

LEMMA PoolStep == StatusType /\ PoolInv /\ [Next]_vars => PoolInv'
<1> SUFFICES ASSUME StatusType, PoolInv, [Next]_vars PROVE PoolInv'
  OBVIOUS
<1> USE DEF PoolInv, ActiveTargets
<1>1. CASE StartOperation
  BY <1>1 DEF StartOperation
<1>2. CASE HandleError
  BY <1>2 DEF HandleError, PoolIsDone, rcVars, client
<1>3. CASE Recover
  BY <1>3 DEF Recover, client
<1>4. CASE ReturnResult
  BY <1>4 DEF ReturnResult, Active, rcVars, client
<1>5. ASSUME NEW t \in Targets, Dispatch(t) PROVE PoolInv'
  BY <1>5 DEF Dispatch, runVars
<1>6. ASSUME NEW t \in Targets, SurfaceError(t) PROVE PoolInv'
  BY <1>6 DEF SurfaceError, Active
<1>7. ASSUME NEW t \in Targets, Work(t) PROVE PoolInv'
  <2>1. st[t] \in Active
    BY <1>7 DEF Work, Attempt, Answer, BeforeRequest, Permit, Snapshots, Retry,
                Succeeds, ServerError, ClientError, NetworkError, Active
  <2> QED
    BY <1>7, <2>1 DEF Work, runVars
<1>8. CASE Tick
  BY <1>8 DEF Tick
<1>9. CASE UNCHANGED vars
  BY <1>9 DEF vars, rcVars, client, runVars
<1> QED
  BY <1>1, <1>2, <1>3, <1>4, <1>5, <1>6, <1>7, <1>8, <1>9 DEF Next, Stage, Worker

LEMMA PoolInvariant == Spec => [](StatusType /\ PoolInv)
<1>1. Init => StatusType /\ PoolInv
  BY DEF Init, StatusType, PoolInv, ActiveTargets, Active
<1> QED
  BY <1>1, StatusStep, PoolStep, PTL DEF Spec

(* No thread is between reserving a slot and its answer when the circuit   *)
(* is reset, so no request of the failed operation slips through.          *)
THEOREM ResetQuiet == Spec => ResetWhenQuiet
<1>1. StatusType /\ PoolInv /\ [Next]_vars => [open /\ ~open' => ActiveTargets = {}]_vars
  <2> SUFFICES ASSUME PoolInv, [Next]_vars, open, ~open' PROVE ActiveTargets = {}
    OBVIOUS
  <2>1. CASE Recover
    BY <2>1 DEF Recover, PoolInv
  <2>2. ASSUME NEW t \in Targets, Work(t) PROVE FALSE
    BY <2>2 DEF Work, Attempt, Answer, BeforeRequest, Permit, Snapshots, Retry, Succeeds,
                ServerError, ClientError, NetworkError, RaisesCircuitError, control
  <2> QED
    BY <2>1, <2>2 DEF Next, Stage, StartOperation, HandleError, ReturnResult, Worker, Dispatch,
         SurfaceError, Tick, vars, rcVars, control
<1> QED
  BY <1>1, PoolInvariant, PTL DEF Spec, ResetWhenQuiet

(* While the circuit stays open no thread starts a request. *)
THEOREM OpenStops == Spec => OpenStopsTraffic
<1>1. StatusType /\ [Next]_vars => [open /\ open' => InFlight' \subseteq InFlight]_rcVars
  <2> SUFFICES ASSUME StatusType, [Next]_vars, open, open' PROVE InFlight' \subseteq InFlight
    OBVIOUS
  <2> USE DEF InFlight, StatusType
  <2>1. CASE Stage
    BY <2>1 DEF Stage, StartOperation, HandleError, Recover, Reset, ReturnResult, rcVars, client
  <2>2. ASSUME NEW t \in Targets, Dispatch(t) PROVE InFlight' \subseteq InFlight
    BY <2>2 DEF Dispatch, Becomes
  <2>3. ASSUME NEW t \in Targets, SurfaceError(t) PROVE InFlight' \subseteq InFlight
    BY <2>3 DEF SurfaceError
  <2>4. ASSUME NEW t \in Targets, Attempt(t) PROVE InFlight' \subseteq InFlight
    BY <2>4 DEF Attempt, BeforeRequest, Permit, Snapshots, Retry, RaisesCircuitError, Becomes
  <2>5. ASSUME NEW t \in Targets, Answer(t) PROVE InFlight' \subseteq InFlight
    BY <2>5 DEF Answer, Succeeds, ServerError, ClientError, NetworkError, RetryOrFail, Becomes
  <2>6. CASE Tick \/ UNCHANGED vars
    BY <2>6 DEF Tick, vars, rcVars, client
  <2> QED
    BY <2>1, <2>2, <2>3, <2>4, <2>5, <2>6 DEF Next, Worker, Work
<1> QED
  BY <1>1, PoolInvariant, PTL DEF Spec, OpenStopsTraffic

-----------------------------------------------------------------------------
(* Pacing.                                                                 *)

(* The next slot lies an interval after the latest; a slot in the future   *)
(* has a thread asleep on it, so by the time the pool is quiet none is     *)
(* left, and the recovery sleep covers the rest of its interval.           *)
SlotInv ==
    /\ nextIn \in Nat /\ wait \in [Targets -> Nat] /\ lastSlot \in Int /\ delayLeft \in Nat
    /\ lastSlot >= -Interval /\ nextIn >= lastSlot + Interval
    /\ lastSlot > 0 => \E t \in Targets : st[t] = "pacing" /\ wait[t] >= lastSlot
    /\ phase = "sleeping" => lastSlot + Interval <= delayLeft

LEMMA SlotStep ==
    Delay >= Interval /\ StatusType /\ PoolInv /\ SlotInv /\ [Next]_vars => SlotInv'
<1> SUFFICES ASSUME Delay >= Interval, StatusType, PoolInv, SlotInv, [Next]_vars
             PROVE  SlotInv'
  OBVIOUS
<1> USE RequestAssumption, RecoveryAssumption DEF SlotInv, StatusType, Active, Settled
<1>1. CASE StartOperation
  BY <1>1 DEF StartOperation, PoolInv, ActiveTargets, control
<1>2. CASE HandleError
  BY <1>2 DEF HandleError, PoolIsDone, ActiveTargets, rcVars, control, client
<1>3. CASE Recover
  BY <1>3 DEF Recover, Reset, client
<1>4. CASE ReturnResult
  BY <1>4 DEF ReturnResult, rcVars, control, client
<1>5. ASSUME NEW t \in Targets, Dispatch(t) PROVE SlotInv'
  BY <1>5 DEF Dispatch, Becomes, control, runVars
<1>6. ASSUME NEW t \in Targets, SurfaceError(t) PROVE SlotInv'
  BY <1>6 DEF SurfaceError, control
<1>7. ASSUME NEW t \in Targets, Work(t), BeforeRequest(t) PROVE SlotInv'
  <2>1. CASE open
    BY <1>7, <2>1 DEF Work, BeforeRequest, RaisesCircuitError, Becomes, control, runVars
  <2>2. CASE ~open
    <3>1. /\ st' = [st EXCEPT ![t] = "pacing"] /\ wait' = [wait EXCEPT ![t] = nextIn]
          /\ nextIn' = nextIn + Interval /\ lastSlot' = nextIn
          /\ UNCHANGED <<phase, delayLeft>>
      BY <1>7, <2>2 DEF Work, BeforeRequest, Becomes, runVars
    <3>2. phase # "sleeping"
      BY <1>7 DEF PoolInv, ActiveTargets, BeforeRequest
    <3> QED
      BY <3>1, <3>2
  <2> QED
    BY <2>1, <2>2
<1>8. ASSUME NEW t \in Targets, Work(t), Permit(t) \/ Snapshots(t) \/ Retry(t) PROVE SlotInv'
  BY <1>8 DEF Work, Permit, Snapshots, Retry, RaisesCircuitError, Becomes, control, runVars
<1>9. ASSUME NEW t \in Targets, Work(t), Answer(t) PROVE SlotInv'
  BY <1>9 DEF Work, Answer, Succeeds, ServerError, ClientError, NetworkError, RetryOrFail,
              Becomes, control, runVars
<1>10. CASE Tick
  BY <1>10 DEF Tick, Pass, Positive
<1>11. CASE UNCHANGED vars
  BY <1>11 DEF vars, rcVars, control, client, runVars
<1> QED
  BY <1>1, <1>2, <1>3, <1>4, <1>5, <1>6, <1>7, <1>8, <1>9, <1>10, <1>11
     DEF Next, Stage, Worker, Work, Attempt

(* Every slot handed out lies an interval after the one before, for any    *)
(* number of threads and across resets, provided the recovery delay is at  *)
(* least the request interval.                                             *)
THEOREM Paced == Delay >= Interval /\ Spec => PacedSlots
<1>1. Init => SlotInv
  BY RequestAssumption DEF Init, ControlInit, SlotInv
<1>2. StatusType /\ SlotInv /\ [Next]_vars =>
        [\A t \in Targets :
           st[t] = "ready" /\ st'[t] = "pacing" => wait'[t] >= lastSlot + Interval]_vars
  <2> SUFFICES ASSUME StatusType, SlotInv, [Next]_vars, NEW t \in Targets,
                      st[t] = "ready", st'[t] = "pacing"
               PROVE  wait'[t] >= lastSlot + Interval
    OBVIOUS
  <2>1. BeforeRequest(t)
    BY DEF StatusType, Next, Stage, StartOperation, HandleError, Recover, ReturnResult, Worker, Dispatch,
           SurfaceError, Work, Attempt, Answer, BeforeRequest, Permit, Snapshots, Retry,
           Succeeds, ServerError, ClientError, NetworkError, RetryOrFail,
           RaisesCircuitError, Becomes, Tick, vars, rcVars, client
  <2> QED
    BY <2>1 DEF StatusType, BeforeRequest, RaisesCircuitError, Becomes, SlotInv
<1>3. Delay >= Interval /\ [Next]_vars => (Delay >= Interval)'
  OBVIOUS
<1> QED
  BY <1>1, <1>2, <1>3, SlotStep, PoolInvariant, PTL DEF Spec, PacedSlots
-----------------------------------------------------------------------------
(* The failures on record.                                                 *)

Records == [target : Targets, age : 0..Window + 1]

(* A set of natural numbers that is not empty has a smallest member. *)
LEMMA SmallestExists ==
    ASSUME NEW S, S \subseteq Nat, S # {}
    PROVE  \E m \in S : \A k \in S : m <= k
<1> DEFINE less == {ss \in Nat \X Nat : ss[1] < ss[2]}
<1>1. IsWellFoundedOn(less, Nat)
  BY NatLessThanWellFounded DEF OpToRel
<1>2. PICK m \in S : \A k \in S : <<k, m>> \notin less
  <2> HIDE DEF less
  <2> QED
    BY <1>1, WFMin
<1>3. \A k \in S : ~(k < m)
  BY <1>2
<1> QED
  BY <1>2, <1>3

(* The failures come oldest first. *)
OldestFirst(fs) == \A i, j \in 1..Len(fs) : i <= j => fs[i].age >= fs[j].age

(* Popping from the front drops the failures that are too old, and no      *)
(* other: the order they are kept in makes that enough.                    *)
LEMMA PruneKeeps ==
    ASSUME NEW fs \in Seq(Records), OldestFirst(fs)
    PROVE  /\ Prune(fs) \in Seq(Records) /\ OldestFirst(Prune(fs))
           /\ open => Prune(fs) = fs
           /\ ~open => \A i \in 1..Len(Prune(fs)) : Prune(fs)[i].age <= Window
<1> DEFINE kept == {i \in 1..Len(fs) + 1 : i > Len(fs) \/ fs[i].age <= Window}
           first == CHOOSE i \in kept : \A j \in kept : i <= j
<1>1. CASE open
  BY <1>1 DEF Prune
<1>2. CASE ~open
  <2>1. Prune(fs) = SubSeq(fs, first, Len(fs))
    BY <1>2 DEF Prune
  <2>2. Len(fs) \in Nat /\ \A i \in 1..Len(fs) : fs[i] \in Records
    OBVIOUS
  <2>3. kept # {} /\ kept \subseteq Nat
    <3>1. Len(fs) + 1 \in 1..Len(fs) + 1 /\ Len(fs) + 1 > Len(fs)
      BY <2>2
    <3>2. Len(fs) + 1 \in kept
      BY <3>1
    <3> QED
      BY <2>2, <3>2
  <2>4. first \in kept
    <3> HIDE DEF kept
    <3>1. \E i \in kept : \A j \in kept : i <= j
      BY <2>3, SmallestExists
    <3> QED
      BY <3>1
  <2>5. first \in 1..Len(fs) + 1
    BY <2>4
  <2>6. \A i \in first..Len(fs) : fs[i].age <= Window
    <3>1. CASE first > Len(fs)
      BY <2>2, <2>5, <3>1
    <3>2. CASE first <= Len(fs)
      <4>1. fs[first].age <= Window
        BY <2>2, <2>4, <2>5, <3>2
      <4>2. \A i \in first..Len(fs) : /\ first \in 1..Len(fs) /\ i \in 1..Len(fs)
                                      /\ fs[first].age >= fs[i].age
        BY <2>2, <2>5, <3>2 DEF OldestFirst
      <4>3. \A i \in 1..Len(fs) : fs[i].age \in Nat
        BY <2>2 DEF Records
      <4> HIDE DEF first
      <4> QED
        BY <4>1, <4>2, <4>3, RequestAssumption
    <3> QED
      BY <2>2, <2>5, <3>1, <3>2
  <2> HIDE DEF first, kept
  <2> DEFINE rest == SubSeq(fs, first, Len(fs))
  <2>7. /\ rest \in Seq(Records) /\ Len(rest) \in Nat
        /\ Len(rest) = IF first <= Len(fs) THEN Len(fs) - first + 1 ELSE 0
        /\ \A i \in 1..Len(fs) - first + 1 : rest[i] = fs[first + i - 1]
    <3>1. first \in Int /\ Len(fs) \in Int /\ \A i \in first..Len(fs) : fs[i] \in Records
      BY <2>2, <2>5
    <3>2. rest \in Seq(Records)
      BY <3>1, SubSeqProperties
    <3> QED
      BY <3>1, <3>2, SubSeqProperties, LenProperties
  <2> HIDE DEF rest
  <2>8. \A i \in 1..Len(rest) : first + i - 1 \in first..Len(fs) /\ rest[i] = fs[first + i - 1]
    BY <2>2, <2>5, <2>7
  <2>9. \A i \in 1..Len(rest) : rest[i].age <= Window
    BY <2>6, <2>8
  <2>10. OldestFirst(rest)
    <3>1. ASSUME NEW i \in 1..Len(rest), NEW j \in 1..Len(rest), i <= j
          PROVE  rest[i].age >= rest[j].age
      <4>1. first + i - 1 \in 1..Len(fs) /\ first + j - 1 \in 1..Len(fs)
            /\ first + i - 1 <= first + j - 1
        BY <2>2, <2>5, <2>7, <2>8, <3>1
      <4>2. fs[first + i - 1].age >= fs[first + j - 1].age
        BY <4>1 DEF OldestFirst
      <4> QED
        BY <2>8, <4>2
    <3> QED
      BY <3>1 DEF OldestFirst
  <2> QED
    BY <1>2, <2>1, <2>7, <2>9, <2>10 DEF rest
<1> QED
  BY <1>1, <1>2
(* A failure that is recorded follows what pruning kept.                   *)
LEMMA RecordedFailure ==
    ASSUME NEW fs \in Seq(Records), OldestFirst(fs), NEW t \in Targets
    PROVE  LET counted == Append(Prune(fs), [target |-> t, age |-> 0])
           IN  /\ counted \in Seq(Records) /\ OldestFirst(counted)
               /\ open => /\ Len(counted) = Len(fs) + 1
                          /\ \A i \in 1..Len(fs) : counted[i] = fs[i]
               /\ ~open => \A i \in 1..Len(counted) : counted[i].age <= Window
<1> DEFINE record == [target |-> t, age |-> 0]
           counted == Append(Prune(fs), record)
<1>1. /\ Prune(fs) \in Seq(Records) /\ OldestFirst(Prune(fs)) /\ (open => Prune(fs) = fs)
      /\ ~open => \A i \in 1..Len(Prune(fs)) : Prune(fs)[i].age <= Window
  BY PruneKeeps
<1>2. record \in Records /\ record.age = 0
  BY RequestAssumption DEF Records
<1> HIDE DEF record
<1>3. /\ counted \in Seq(Records) /\ Len(counted) = Len(Prune(fs)) + 1 /\ Len(Prune(fs)) \in Nat
      /\ \A i \in 1..Len(Prune(fs)) : counted[i] = Prune(fs)[i]
      /\ counted[Len(Prune(fs)) + 1] = record
  BY <1>1, <1>2
<1>4. \A i \in 1..Len(Prune(fs)) : Prune(fs)[i].age \in Nat
  <2>1. \A i \in 1..Len(Prune(fs)) : Prune(fs)[i] \in Records
    BY <1>1
  <2> QED
    BY <2>1 DEF Records
<1>5. OldestFirst(counted)
  <2>1. ASSUME NEW i \in 1..Len(counted), NEW j \in 1..Len(counted), i <= j
        PROVE  counted[i].age >= counted[j].age
    <3>1. CASE j = Len(Prune(fs)) + 1
      BY <1>2, <1>3, <1>4, <2>1, <3>1
    <3>2. CASE j # Len(Prune(fs)) + 1
      BY <1>1, <1>3, <2>1, <3>2 DEF OldestFirst
    <3> QED
      BY <3>1, <3>2
  <2> QED
    BY <2>1 DEF OldestFirst
<1>6. ASSUME ~open, NEW i \in 1..Len(counted)
      PROVE  counted[i].age <= Window
  <2>1. CASE i = Len(Prune(fs)) + 1
    BY <1>2, <1>3, <2>1, RequestAssumption
  <2>2. CASE i # Len(Prune(fs)) + 1
    BY <1>1, <1>3, <1>6, <2>2
  <2> QED
    BY <2>1, <2>2
<1> HIDE DEF counted
<1>7. open => /\ Len(counted) = Len(fs) + 1
              /\ \A i \in 1..Len(fs) : counted[i] = fs[i]
  BY <1>1, <1>3
<1>8. /\ counted \in Seq(Records) /\ OldestFirst(counted)
      /\ ~open => \A i \in 1..Len(counted) : counted[i].age <= Window
  BY <1>3, <1>5, <1>6
<1> QED
  BY <1>7, <1>8 DEF counted, record

(* Time makes every failure older, and keeps their order.                  *)
LEMMA AgedFailures ==
    ASSUME failures \in Seq(Records), OldestFirst(failures), Pass
    PROVE  /\ failures' \in Seq(Records) /\ Len(failures') = Len(failures) /\ OldestFirst(failures')
           /\ \A i \in 1..Len(failures) : failures'[i].target = failures[i].target
<1> DEFINE aged(i) == [failures[i] EXCEPT !.age = IF @ <= Window THEN @ + 1 ELSE @]
<1>1. /\ Len(failures) \in Nat /\ DOMAIN failures = 1..Len(failures)
      /\ \A i \in 1..Len(failures) : failures[i] \in Records
  OBVIOUS
<1>2. ASSUME NEW i \in 1..Len(failures)
      PROVE  /\ aged(i) \in Records /\ aged(i).target = failures[i].target
             /\ aged(i).age = IF failures[i].age <= Window THEN failures[i].age + 1 ELSE failures[i].age
  <2>1. failures[i] \in Records
    BY <1>1
  <2>2. PICK u \in Targets, a \in 0..Window + 1 : failures[i] = [target |-> u, age |-> a]
    BY <2>1 DEF Records
  <2>3. aged(i) = [target |-> u, age |-> IF a <= Window THEN a + 1 ELSE a]
    BY <2>2
  <2>4. (IF a <= Window THEN a + 1 ELSE a) \in 0..Window + 1
    BY RequestAssumption
  <2> QED
    BY <2>2, <2>3, <2>4 DEF Records
<1>3. failures' = [i \in 1..Len(failures) |-> aged(i)]
  BY <1>1 DEF Pass
<1>4. failures' \in [1..Len(failures) -> Records]
  BY <1>2, <1>3
<1>5. failures' \in Seq(Records) /\ Len(failures') = Len(failures)
  <2>1. failures' \in Seq(Records)
    BY <1>1, <1>4, SeqDef
  <2> QED
    BY <1>1, <1>4, <2>1
<1>6. \A i \in 1..Len(failures) : failures'[i] = aged(i)
  BY <1>3
<1>7. ASSUME NEW i \in 1..Len(failures), NEW j \in 1..Len(failures), i <= j
      PROVE  failures'[i].age >= failures'[j].age
  <2>1. failures[i].age >= failures[j].age /\ failures[i].age \in Nat /\ failures[j].age \in Nat
    BY <1>1, <1>7 DEF OldestFirst, Records
  <2> HIDE DEF aged
  <2> QED
    BY SMTT(30), <1>2, <1>6, <2>1, RequestAssumption
<1>8. OldestFirst(failures')
  BY <1>5, <1>7 DEF OldestFirst
<1> HIDE DEF aged
<1> QED
  BY <1>2, <1>5, <1>6, <1>8

(* What the breaker knows: the failures are in order, and while it is open *)
(* they are the burst that opened it and what came after.                  *)
BreakerInv ==
    /\ open \in BOOLEAN /\ failures \in Seq(Records) /\ OldestFirst(failures)
    /\ open => Len(failures) >= Threshold

LEMMA ServerErrorCounts ==
    ASSUME BreakerInv, NEW t \in Targets, ServerError(t)
    PROVE  /\ BreakerInv' /\ (open => open')
           /\ open => /\ Len(failures') = Len(failures) + 1
                      /\ \A i \in 1..Len(failures) : failures'[i] = failures[i]
           /\ ~open => \A i \in 1..Len(failures') : failures'[i].age <= Window
<1>1. /\ failures' = Append(Prune(failures), [target |-> t, age |-> 0])
      /\ open' = (open \/ Len(failures') >= Threshold)
  BY DEF ServerError
<1>2. /\ failures' \in Seq(Records) /\ OldestFirst(failures')
      /\ open => /\ Len(failures') = Len(failures) + 1
                 /\ \A i \in 1..Len(failures) : failures'[i] = failures[i]
      /\ ~open => \A i \in 1..Len(failures') : failures'[i].age <= Window
  BY <1>1, RecordedFailure DEF BreakerInv
<1>3. open' \in BOOLEAN /\ (open => open')
  BY <1>1, Zenon
<1>4. open' => open \/ Len(failures') >= Threshold
  BY <1>1, Zenon
<1>5. open' => Len(failures') >= Threshold
  BY <1>2, <1>4, RequestAssumption DEF BreakerInv
<1> QED
  BY <1>2, <1>3, <1>5 DEF BreakerInv

LEMMA NoFailures == <<>> \in Seq(Records) /\ OldestFirst(<<>>)
  BY DEF OldestFirst

LEMMA BreakerStep ==
    ASSUME BreakerInv, [Next]_vars
    PROVE  BreakerInv'
<1>1. ASSUME UNCHANGED <<failures, open>>
      PROVE  BreakerInv'
  BY <1>1 DEF BreakerInv
<1>2. ASSUME NEW t \in Targets, Succeeds(t) \/ ClientError(t)
      PROVE  BreakerInv'
  <2>1. failures' = Prune(failures) /\ open' = open
    BY <1>2 DEF Succeeds, ClientError
  <2>2. failures' \in Seq(Records) /\ OldestFirst(failures') /\ (open => failures' = failures)
    BY <2>1, PruneKeeps DEF BreakerInv
  <2> QED
    BY <2>1, <2>2 DEF BreakerInv
<1>3. ASSUME NEW t \in Targets, Work(t)
      PROVE  BreakerInv'
  BY <1>1, <1>2, <1>3, ServerErrorCounts
  DEF Work, Attempt, Answer, BeforeRequest, Permit, Snapshots, Retry, RaisesCircuitError, NetworkError,
      control
<1>4. ASSUME NEW t \in Targets, Dispatch(t) \/ SurfaceError(t)
      PROVE  BreakerInv'
  BY <1>1, <1>4 DEF Dispatch, SurfaceError, control
<1>5. CASE StartOperation \/ HandleError \/ ReturnResult \/ UNCHANGED vars
  BY <1>1, <1>5 DEF StartOperation, HandleError, ReturnResult, vars, rcVars, control
<1>6. CASE Recover
  <2>1. failures' = <<>> /\ open' = FALSE
    BY <1>6 DEF Recover, Reset
  <2>2. open' \in BOOLEAN /\ ~open'
    BY <2>1, Zenon
  <2> QED
    BY <2>1, <2>2, NoFailures DEF BreakerInv
<1>7. CASE Tick
  BY <1>7, AgedFailures DEF Tick, BreakerInv
<1> QED
  BY <1>3, <1>4, <1>5, <1>6, <1>7 DEF Next, Stage, Worker

LEMMA BreakerInvariant == Spec => []BreakerInv
<1>1. ASSUME Init
      PROVE  BreakerInv
  <2>1. failures = <<>> /\ open = FALSE
    BY <1>1 DEF Init, ControlInit
  <2>2. open \in BOOLEAN /\ ~open
    BY <2>1, Zenon
  <2> QED
    BY <2>1, <2>2, NoFailures DEF BreakerInv
<1> QED
  BY <1>1, BreakerStep, PTL DEF Spec

(* The circuit opens only on a burst (record_server_failure): at least     *)
(* Threshold failures, all inside the window, which stay on record while   *)
(* it is open, whatever the targets, the threads and the settings.         *)
THEOREM Burst == Spec => OpensOnBurst
<1>1. BreakerInv /\ BreakerInv' /\ [Next]_vars =>
        [open' => /\ Len(failures') >= Threshold
                  /\ ~open => \A i \in 1..Len(failures') : failures'[i].age <= Window]_rcVars
  <2> SUFFICES ASSUME BreakerInv, BreakerInv', [Next]_vars, open'
               PROVE  /\ Len(failures') >= Threshold
                      /\ ~open => \A i \in 1..Len(failures') : failures'[i].age <= Window
    OBVIOUS
  <2>1. Len(failures') >= Threshold
    BY DEF BreakerInv
  <2>2. ASSUME ~open
        PROVE  \A i \in 1..Len(failures') : failures'[i].age <= Window
    <3>1. PICK t \in Targets : ServerError(t)
      BY <2>2 DEF Next, Stage, StartOperation, HandleError, Recover, Reset, ReturnResult, Worker, Dispatch,
         SurfaceError, Work, Attempt, Answer, BeforeRequest, Permit, Snapshots, Retry, Succeeds,
         ClientError, NetworkError, RaisesCircuitError, Tick, vars, rcVars, control
    <3> QED
      BY <2>2, <3>1, ServerErrorCounts
  <2> QED
    BY <2>1, <2>2
<1> QED
  BY <1>1, BreakerInvariant, PTL DEF Spec, OpensOnBurst
-----------------------------------------------------------------------------
(* Types, blame and quarantine.                                            *)

ClientInv ==
    /\ nextIn \in Nat /\ lastSlot \in Int /\ wait \in [Targets -> Nat]
    /\ tries \in [Targets -> 0..Retries] /\ err \in [Targets -> Seq(Records)]

RunInv ==
    /\ phase \in {"starting", "mapping", "sleeping", "returned", "raised"}
    /\ retry \in 0..Attempts /\ raised \in Targets \cup {NoTarget}
    /\ delayLeft \in 0..Delay /\ written \in BOOLEAN
    /\ quarantine \in [target : Targets \cup {NoTarget},
                       status : {"none", "active", "recovered"}, left : 0..Delay]

(* A circuit error tells of failures the breaker still has on record, and  *)
(* nothing is reset before its operation was wound up.                     *)
BlameInv ==
    /\ \A t \in Targets : st[t] = "tripped" => open
    /\ \A t \in Targets : st[t] = "circuit" => Len(err[t]) >= Threshold
    /\ \A t \in Targets : st[t] = "circuit" /\ phase = "mapping" =>
         /\ open /\ Len(err[t]) <= Len(failures)
         /\ \A i \in 1..Len(err[t]) : err[t][i].target = failures[i].target
    /\ raised # NoTarget /\ phase = "mapping" => st[raised] = "circuit"
    /\ phase = "starting" => raised = NoTarget

(* A recovery attempt skips nothing; what it lifts is what it wrote.       *)
QuarantineInv ==
    /\ written => quarantine.target \in Targets /\ quarantine.status # "none"
    /\ phase = "mapping" /\ retry > 0 => \A t \in Targets : st[t] # "skipped"
    /\ quarantine.status = "recovered" =>
         /\ phase = "returned" /\ retry > 0 /\ quarantine.target \in Targets
         /\ st[quarantine.target] \in {"ok", "failed"}

RecoveryInv ==
    /\ StatusType /\ PoolInv /\ BreakerInv /\ ClientInv
    /\ RunInv /\ BlameInv /\ QuarantineInv

LEMMA ClientStep ==
    ASSUME RecoveryInv, [Next]_vars
    PROVE  ClientInv'
<1> USE RequestAssumption DEF RecoveryInv, ClientInv, Becomes
<1>1. CASE StartOperation
  BY <1>1, NoFailures DEF StartOperation, control
<1>2. CASE HandleError \/ ReturnResult \/ UNCHANGED vars
  BY <1>2 DEF HandleError, ReturnResult, vars, rcVars, control, client
<1>3. CASE Recover
  BY <1>3 DEF Recover, Reset, client
<1>4. ASSUME NEW t \in Targets, Dispatch(t) \/ SurfaceError(t)
      PROVE  ClientInv'
  BY <1>4 DEF Dispatch, SurfaceError, control
<1>5. ASSUME NEW t \in Targets, Work(t), Attempt(t)
      PROVE  ClientInv'
  <2>1. lastSlot' \in Int
    BY <1>5 DEF Work, Attempt, BeforeRequest, Permit, Snapshots, Retry, RaisesCircuitError, control
  <2>2. err' \in [Targets -> Seq(Records)]
    BY <1>5 DEF Attempt, BeforeRequest, Permit, Snapshots, Retry, RaisesCircuitError, BreakerInv
  <2>3. nextIn' \in Nat /\ wait' \in [Targets -> Nat] /\ tries' = tries
    <3>1. /\ tries' = tries
          /\ \/ nextIn' = nextIn /\ wait' = wait
             \/ nextIn' = nextIn + Interval /\ wait' = [wait EXCEPT ![t] = nextIn]
      BY <1>5 DEF Attempt, BeforeRequest, Permit, Snapshots, Retry, RaisesCircuitError, control
    <3>2. nextIn \in Nat /\ wait \in [Targets -> Nat] /\ Interval \in Nat
      OBVIOUS
    <3>3. CASE nextIn' = nextIn /\ wait' = wait
      BY <3>1, <3>2, <3>3
    <3>4. CASE nextIn' = nextIn + Interval /\ wait' = [wait EXCEPT ![t] = nextIn]
      <4>1. nextIn' \in Nat
        BY <3>2, <3>4
      <4>2. wait' \in [Targets -> Nat]
        BY <3>2, <3>4
      <4> QED
        BY <3>1, <4>1, <4>2
    <3> QED
      BY <3>1, <3>3, <3>4
  <2> QED
    BY <2>1, <2>2, <2>3
<1>6. ASSUME NEW t \in Targets, Work(t), Answer(t)
      PROVE  ClientInv'
  <2>1. /\ UNCHANGED <<nextIn, wait, err>> /\ st[t] = "inflight"
        /\ tries' = tries \/ (tries[t] < Retries /\ tries' = [tries EXCEPT ![t] = @ + 1])
    BY <1>6 DEF Answer, Succeeds, ServerError, ClientError, NetworkError, RetryOrFail, control
  <2>2. lastSlot' = lastSlot
    BY <1>6, <2>1 DEF Work
  <2>3. tries' \in [Targets -> 0..Retries]
    <3>1. tries[t] < Retries => tries[t] + 1 \in 0..Retries
      OBVIOUS
    <3> QED
      BY <2>1, <3>1
  <2> QED
    BY <2>1, <2>2, <2>3
<1>7. CASE Tick
  BY <1>7 DEF Tick, Pass, Positive
<1> QED
  BY <1>1, <1>2, <1>3, <1>4, <1>5, <1>6, <1>7 DEF Next, Stage, Worker, Work

(* Whoever is blamed is a target, and its failures are on record.          *)
LEMMA Blamed ==
    ASSUME RecoveryInv, HandleError
    PROVE  /\ Classify(err[raised]) \in Targets \cup {NoTarget}
           /\ Classify(err[raised]) # NoTarget =>
                Threshold <= Cardinality({i \in DOMAIN failures :
                                            failures[i].target = Classify(err[raised])})
<1> DEFINE fs == err[raised]
           T == Classify(fs)
<1>1. raised \in Targets /\ st[raised] = "circuit" /\ phase = "mapping"
  BY DEF RecoveryInv, RunInv, BlameInv, HandleError
<1>2. /\ fs \in Seq(Records) /\ failures \in Seq(Records) /\ Len(fs) \in Nat /\ Len(failures) \in Nat
      /\ Len(fs) >= Threshold /\ Len(fs) <= Len(failures)
      /\ \A i \in 1..Len(fs) : fs[i].target = failures[i].target
  BY <1>1 DEF RecoveryInv, ClientInv, BreakerInv, BlameInv
<1> HIDE DEF fs
<1>3. fs[1].target \in Targets /\ DOMAIN fs = 1..Len(fs) /\ DOMAIN failures = 1..Len(failures)
  <2>1. 1 \in 1..Len(fs)
    BY <1>2, RequestAssumption
  <2>2. fs[1] \in Records
    BY <1>2, <2>1
  <2> QED
    BY <1>2, <2>2 DEF Records
<1>4. T \in Targets \cup {NoTarget}
  BY <1>3 DEF Classify
<1>5. ASSUME T # NoTarget
      PROVE  Threshold <= Cardinality({i \in DOMAIN failures : failures[i].target = T})
  <2> DEFINE blamed == {i \in 1..Len(failures) : failures[i].target = T}
  <2>1. \A i \in 1..Len(fs) : fs[i].target = T
    BY <1>3, <1>5 DEF Classify
  <2>2. 1..Len(fs) \subseteq blamed
    BY <1>2, <2>1
  <2>3. blamed \subseteq 1..Len(failures)
    OBVIOUS
  <2> HIDE DEF blamed
  <2>4. IsFiniteSet(1..Len(failures)) /\ IsFiniteSet(1..Len(fs)) /\ Cardinality(1..Len(fs)) = Len(fs)
    <3>1. 1 \in Int /\ Len(failures) \in Int /\ Len(fs) \in Int /\ ~(1 > Len(fs))
      BY <1>2, RequestAssumption
    <3>2. IsFiniteSet(1..Len(failures)) /\ IsFiniteSet(1..Len(fs))
      BY <3>1, FS_Interval
    <3>3. Cardinality(1..Len(fs)) = Len(fs) - 1 + 1
      BY <3>1, FS_Interval
    <3> QED
      BY <1>2, <3>2, <3>3
  <2>5. IsFiniteSet(blamed)
    BY <2>3, <2>4, FS_Subset
  <2>6. Cardinality(1..Len(fs)) <= Cardinality(blamed) /\ Cardinality(blamed) \in Nat
    BY <2>2, <2>5, FS_Subset, FS_CardinalityType
  <2>7. Threshold <= Cardinality(blamed)
    BY <1>2, <2>4, <2>6, RequestAssumption
  <2> QED
    BY <1>3, <2>7 DEF blamed
<1> QED
  BY <1>4, <1>5 DEF fs

LEMMA RunStep ==
    ASSUME RecoveryInv, [Next]_vars
    PROVE  RunInv'
<1> USE RecoveryAssumption DEF RecoveryInv, RunInv
<1>1. CASE StartOperation
  BY <1>1 DEF StartOperation
<1>2. CASE HandleError
  <2>1. \/ quarantine' = quarantine /\ written' = written
        \/ /\ Classify(err[raised]) \in Targets
           /\ quarantine' = Blames(Classify(err[raised]), "active", Delay) /\ written' = TRUE
    BY <1>2, Blamed DEF HandleError
  <2>2. written' \in BOOLEAN
    BY <2>1, Zenon
  <2>3. Delay \in 0..Delay
    OBVIOUS
  <2>4. quarantine' \in [target : Targets \cup {NoTarget},
                         status : {"none", "active", "recovered"}, left : 0..Delay]
    BY <2>1, <2>3 DEF Blames
  <2> QED
    BY <1>2, <2>2, <2>4 DEF HandleError
<1>3. CASE Recover
  BY <1>3 DEF Recover
<1>4. CASE ReturnResult
  BY <1>4 DEF ReturnResult
<1>5. ASSUME NEW t \in Targets, Worker(t)
      PROVE  RunInv'
  BY <1>5 DEF Worker, Dispatch, SurfaceError, Work, runVars
<1>6. CASE Tick
  <2>1. delayLeft' \in 0..Delay /\ Positive(quarantine.left - 1) \in 0..Delay
    BY <1>6 DEF Tick, Positive
  <2> QED
    BY <1>6, <2>1 DEF Tick
<1>7. CASE UNCHANGED vars
  BY <1>7 DEF vars, runVars
<1> QED
  BY <1>1, <1>2, <1>3, <1>4, <1>5, <1>6, <1>7 DEF Next, Stage

LEMMA BlameStep ==
    ASSUME RecoveryInv, [Next]_vars
    PROVE  BlameInv'
<1> USE RequestAssumption DEF RecoveryInv, BlameInv, StatusType, Becomes
<1>1. CASE StartOperation
  BY <1>1 DEF StartOperation
<1>2. CASE HandleError \/ ReturnResult \/ UNCHANGED vars
  <2>1. UNCHANGED <<failures, open, st, err, raised>> /\ (phase' = phase \/ phase' \notin {"mapping", "starting"})
    BY <1>2 DEF HandleError, ReturnResult, vars, runVars, rcVars, control, client
  <2> QED
    BY <2>1
<1>3. CASE Recover
  <2>1. \A t \in Targets : st[t] # "tripped"
    BY <1>3 DEF Recover, PoolInv, ActiveTargets, Active
  <2> QED
    BY <1>3, <2>1 DEF Recover, Reset, client
<1>4. ASSUME NEW t \in Targets, Dispatch(t)
      PROVE  BlameInv'
  BY <1>4, RecoveryAssumption DEF Dispatch, control, runVars, RunInv
<1>5. ASSUME NEW t \in Targets, SurfaceError(t)
      PROVE  BlameInv'
  BY <1>5 DEF SurfaceError, control
<1>6. ASSUME NEW t \in Targets, Work(t), RaisesCircuitError(t), open
      PROVE  BlameInv'
  <2>1. /\ err' = [err EXCEPT ![t] = failures] /\ st' = [st EXCEPT ![t] = "circuit"]
        /\ UNCHANGED <<failures, open, phase, raised>>
    BY <1>6 DEF RaisesCircuitError, Work, control, runVars
  <2>2. Len(failures) \in Nat /\ Len(failures) >= Threshold /\ err' \in [Targets -> Seq(Records)]
    BY <1>6, <2>1 DEF BreakerInv, ClientInv
  <2> QED
    BY <1>6, <2>1, <2>2 DEF ClientInv
<1>7. ASSUME NEW t \in Targets, Work(t), st[t] \in {"ready", "pacing", "backoff", "inflight"},
             st' = [st EXCEPT ![t] = st'[t]], st'[t] \notin {"circuit", "tripped"},
             UNCHANGED <<failures, open, err>>
      PROVE  BlameInv'
  BY <1>7, RecoveryAssumption DEF Work, runVars, RunInv
<1>8. ASSUME NEW t \in Targets, Work(t), Attempt(t)
      PROVE  BlameInv'
  BY <1>6, <1>7, <1>8 DEF Attempt, BeforeRequest, Permit, Snapshots, Retry, control
<1>9. ASSUME NEW t \in Targets, Work(t), Answer(t)
      PROVE  BlameInv'
  <2>1. /\ open => open' /\ Len(failures') >= Len(failures)
                   /\ \A i \in 1..Len(failures) : failures'[i] = failures[i]
        /\ UNCHANGED <<err, phase, raised>> /\ st[t] = "inflight"
        /\ st' = [st EXCEPT ![t] = st'[t]] /\ st'[t] # "circuit" /\ (st'[t] = "tripped" => open')
    <3>1. CASE ServerError(t)
      <4>1. /\ open => open' /\ Len(failures') = Len(failures) + 1
                       /\ \A i \in 1..Len(failures) : failures'[i] = failures[i]
        BY <3>1, ServerErrorCounts
      <4> QED
        BY <1>9, <3>1, <4>1 DEF ServerError, RetryOrFail, Work, runVars, BreakerInv
    <3>2. CASE Succeeds(t) \/ ClientError(t)
      <4>1. open => failures' = failures
        BY <3>2, PruneKeeps DEF Succeeds, ClientError, BreakerInv
      <4> QED
        BY <1>9, <3>2, <4>1 DEF Succeeds, ClientError, RetryOrFail, Work, runVars, BreakerInv
    <3>3. CASE NetworkError(t)
      BY <1>9, <3>3 DEF NetworkError, RetryOrFail, Work, runVars, control, BreakerInv
    <3> QED
      BY <1>9, <3>1, <3>2, <3>3 DEF Answer
  <2>2. Len(failures) \in Nat /\ \A u \in Targets : Len(err[u]) \in Nat
    BY DEF BreakerInv, ClientInv
  <2>3. Len(failures') \in Nat
    BY BreakerStep DEF BreakerInv
  <2>4. \A u \in Targets : st'[u] = "circuit" => st[u] = "circuit"
    BY <2>1
  <2>5. \A u \in Targets : st'[u] = "tripped" => open'
    BY <2>1
  <2>6. ASSUME NEW u \in Targets, st'[u] = "circuit", phase' = "mapping"
        PROVE  /\ open' /\ Len(err'[u]) <= Len(failures')
               /\ \A i \in 1..Len(err'[u]) : err'[u][i].target = failures'[i].target
    <3>1. /\ open /\ Len(err[u]) <= Len(failures) /\ err' = err
          /\ \A i \in 1..Len(err[u]) : err[u][i].target = failures[i].target
      BY <2>1, <2>4, <2>6
    <3> QED
      BY <2>1, <2>2, <2>3, <3>1
  <2>7. raised' # NoTarget /\ phase' = "mapping" => st'[raised'] = "circuit"
    BY <2>1 DEF RunInv
  <2> QED
    BY <2>1, <2>4, <2>5, <2>6, <2>7
<1>10. CASE Tick
  <2>1. /\ UNCHANGED <<st, open, err, phase, raised>> /\ Len(failures') = Len(failures)
        /\ \A i \in 1..Len(failures) : failures'[i].target = failures[i].target
    BY <1>10, AgedFailures DEF Tick, BreakerInv
  <2>2. Len(failures) \in Nat /\ \A u \in Targets : Len(err[u]) \in Nat
    BY DEF BreakerInv, ClientInv
  <2> QED
    BY <2>1, <2>2
<1> QED
  BY <1>1, <1>2, <1>3, <1>4, <1>5, <1>8, <1>9, <1>10 DEF Next, Stage, Worker, Work

LEMMA QuarantineStep ==
    ASSUME RecoveryInv, [Next]_vars
    PROVE  QuarantineInv'
<1> USE DEF RecoveryInv, QuarantineInv
<1>1. CASE StartOperation
  BY <1>1 DEF StartOperation, Skips
<1>2. CASE HandleError
  <2>1. \/ quarantine' = quarantine /\ written' = written
        \/ quarantine' = Blames(Classify(err[raised]), "active", Delay) /\ Classify(err[raised]) \in Targets
    BY <1>2, Blamed DEF HandleError
  <2>2. quarantine.status # "recovered" /\ phase' \in {"raised", "sleeping"}
    BY <1>2 DEF HandleError
  <2> QED
    BY <2>1, <2>2 DEF Blames
<1>3. CASE Recover
  BY <1>3 DEF Recover
<1>4. CASE ReturnResult
  <2>1. PICK success \in BOOLEAN :
          quarantine' = IF retry > 0 /\ written /\ success
                        THEN [quarantine EXCEPT !.status = "recovered"] ELSE quarantine
    BY <1>4 DEF ReturnResult
  <2>2. /\ phase = "mapping" /\ phase' = "returned" /\ retry' = retry /\ written' = written /\ st' = st
        /\ \A t \in Targets : st[t] \in {"ok", "failed", "skipped"}
    BY <1>4 DEF ReturnResult, rcVars, client
  <2>3. quarantine.status # "recovered"
    BY <2>2
  <2>4. CASE retry > 0 /\ written /\ success
    <3>1. quarantine' = [quarantine EXCEPT !.status = "recovered"] /\ quarantine.target \in Targets
      BY <2>1, <2>4
    <3>2. quarantine'.target = quarantine.target /\ quarantine'.status = "recovered"
      BY <3>1 DEF RunInv
    <3>3. st[quarantine.target] \in {"ok", "failed"}
      BY <2>2, <2>4, <3>1
    <3> QED
      BY <2>2, <2>4, <3>1, <3>2, <3>3
  <2>5. CASE ~(retry > 0 /\ written /\ success)
    <3>1. quarantine' = quarantine
      BY <2>1, <2>5
    <3> QED
      BY <2>2, <2>3, <3>1
  <2> QED
    BY <2>4, <2>5
<1>5. ASSUME NEW t \in Targets, Worker(t)
      PROVE  QuarantineInv'
  <2>1. UNCHANGED <<phase, retry, quarantine, written>>
    BY <1>5 DEF Worker, Dispatch, SurfaceError, Work, runVars
  <2>2. phase = "returned" => FALSE
    BY <1>5 DEF Worker, Dispatch, SurfaceError, Work, Attempt, Answer, BeforeRequest, Permit, Snapshots,
                Retry, Succeeds, ServerError, ClientError, NetworkError, PoolInv, ActiveTargets, Active
  <2>3. \A u \in Targets : st'[u] = "skipped" => st[u] = "skipped"
    BY <1>5 DEF Worker, Dispatch, SurfaceError, Work, Attempt, Answer, BeforeRequest, Permit, Snapshots,
                Retry, Succeeds, ServerError, ClientError, NetworkError, RetryOrFail, RaisesCircuitError,
                Becomes, StatusType
  <2> QED
    BY <2>1, <2>2, <2>3
<1>6. CASE Tick
  BY <1>6 DEF Tick, RunInv
<1>7. CASE UNCHANGED vars
  BY <1>7 DEF vars, runVars, rcVars, client
<1> QED
  BY <1>1, <1>2, <1>3, <1>4, <1>5, <1>6, <1>7 DEF Next, Stage

LEMMA RecoveryInvariant == Spec => []RecoveryInv
<1>1. ASSUME Init
      PROVE  RecoveryInv
  <2> USE RequestAssumption, RecoveryAssumption DEF Init, ControlInit
  <2>1. BreakerInv
    <3>1. failures = <<>> /\ open = FALSE
      BY <1>1
    <3>2. open \in BOOLEAN /\ ~open
      BY <3>1, Zenon
    <3> QED
      BY <3>1, <3>2, NoFailures DEF BreakerInv
  <2>2. ClientInv
    BY <1>1, NoFailures DEF ClientInv
  <2>3. StatusType /\ PoolInv
    BY <1>1 DEF StatusType, PoolInv, ActiveTargets, Active
  <2>4. RunInv
    <3>1. written \in BOOLEAN
      BY <1>1, Zenon
    <3> QED
      BY <1>1, <3>1 DEF RunInv, Blames
  <2>5. BlameInv
    BY <1>1 DEF BlameInv
  <2>6. QuarantineInv
    <3>1. ~written
      BY <1>1, Zenon
    <3> QED
      BY <1>1, <3>1 DEF QuarantineInv, Blames
  <2> QED
    BY <2>1, <2>2, <2>3, <2>4, <2>5, <2>6 DEF RecoveryInv
<1>2. RecoveryInv /\ [Next]_vars => RecoveryInv'
  BY StatusStep, PoolStep, BreakerStep, ClientStep, RunStep, BlameStep, QuarantineStep DEF RecoveryInv
<1> QED
  BY <1>1, <1>2, PTL DEF Spec

(* Every variable of the stage stays in its type, whatever the targets,    *)
(* the threads and the settings.                                           *)
THEOREM TypeCorrect == Spec => []TypeOK
<1>1. RecoveryInv => TypeOK
  BY DEF RecoveryInv, StatusType, BreakerInv, ClientInv, RunInv, Records, TypeOK
<1> QED
  BY <1>1, RecoveryInvariant, PTL

(* A quarantine is lifted only by an attempt that collected its target     *)
(* (mark_quarantine_recovered), never by one that skipped it.              *)
THEOREM RecoveredTried == Spec => []RecoveredWasTried
<1>1. RecoveryInv => RecoveredWasTried
  BY DEF RecoveryInv, QuarantineInv, RecoveredWasTried
<1> QED
  BY <1>1, RecoveryInvariant, PTL

(* A target that is put into quarantine has itself caused a threshold of   *)
(* failures (classify_target, write_quarantine): the failures of its error *)
(* are still on record, because the circuit stays open until the pool is   *)
(* quiet.                                                                  *)
THEOREM QuarantineDeserved == Spec => QuarantineJustified
<1>1. RecoveryInv /\ [Next]_vars =>
        [quarantine'.status = "active" /\ ~written /\ written' =>
           Cardinality({i \in DOMAIN failures : failures[i].target = quarantine'.target}) >= Threshold]_vars
  <2> SUFFICES ASSUME RecoveryInv, [Next]_vars, ~written, written'
               PROVE  Cardinality({i \in DOMAIN failures : failures[i].target = quarantine'.target})
                        >= Threshold
    OBVIOUS
  <2>1. HandleError
    BY DEF Next, Stage, StartOperation, Recover, ReturnResult, Worker, Dispatch, SurfaceError, Work,
           Tick, vars, runVars
  <2> DEFINE T == Classify(err[raised])
  <2>2. T # NoTarget /\ quarantine' = Blames(T, "active", Delay)
    BY <2>1 DEF HandleError
  <2>3. Threshold <= Cardinality({i \in DOMAIN failures : failures[i].target = T})
    BY <2>1, <2>2, Blamed
  <2>4. quarantine'.target = T
    BY <2>2 DEF Blames
  <2> QED
    BY <2>3, <2>4
<1> QED
  BY <1>1, RecoveryInvariant, PTL DEF Spec, QuarantineJustified
=============================================================================
