--------------------------- MODULE CollectionProofs --------------------------
(***************************************************************************)
(* Theorems about what reads Black Duck and what is made of it: the CIP    *)
(* planner, the pipeline run with its parent discovery, the shared cache   *)
(* of reads, the collection of policy findings and their publication to    *)
(* Datadog.  For any collections, versions and findings, any number of     *)
(* runs, workers and shards.                                               *)
(***************************************************************************)
EXTENDS CipScan, PipelineWorkflow, ReadCache, PolicyCollection, DatadogPublisher,
        FiniteSetTheorems, SequenceTheorems, TLAPS

\* A set of naturals that is not empty has a least member.
LEMMA LeastExists ==
    ASSUME NEW S, S \subseteq Nat, S # {}
    PROVE  \E m \in S : \A k \in S : m <= k
<1> DEFINE less == {ss \in Nat \X Nat : ss[1] < ss[2]}
<1>1. IsWellFoundedOn(less, Nat)
  BY NatLessThanWellFounded DEF OpToRel
<1>2. PICK m \in S : \A k \in S : <<k, m>> \notin less
  <2> HIDE DEF less
  <2> QED
    BY <1>1, WFMin
<1>3. \A k \in S : <<k, m>> \in Nat \X Nat /\ (<<k, m>> \in less <=> k < m)
  OBVIOUS
<1>4. \A k \in S : ~ (k < m)
  <2> HIDE DEF less
  <2> QED
    BY <1>2, <1>3
<1> QED
  BY <1>4

\* Fewer than so many members of an ordered set come before each of these:
\* so there are no more of them.
LEMMA FirstOnes ==
    ASSUME NEW S, IsFiniteSet(S), NEW before \in [S -> SUBSET S], NEW k \in Nat,
           \A a \in S : a \notin before[a],
           \A a, b \in S : a = b \/ a \in before[b] \/ b \in before[a],
           \A a, b, c \in S : a \in before[b] /\ b \in before[c] => a \in before[c],
           NEW first \in SUBSET S, \A e \in first : Cardinality(before[e]) < k
    PROVE  IsFiniteSet(first) /\ Cardinality(first) <= k
<1> DEFINE rank == [e \in first |-> Cardinality(before[e])]
<1>1. \A e \in S : IsFiniteSet(before[e]) /\ Cardinality(before[e]) \in Nat
  BY FS_Subset, FS_CardinalityType
<1>2. ASSUME NEW d \in S, NEW e \in S, d \in before[e]
      PROVE  Cardinality(before[d]) < Cardinality(before[e])
  <2>1. before[d] \in SUBSET before[e]
    BY <1>2
  <2>2. before[d] # before[e]
    BY <1>2
  <2>3. Cardinality(before[d]) <= Cardinality(before[e]) /\ Cardinality(before[d]) # Cardinality(before[e])
    BY <1>1, <2>1, <2>2, FS_Subset
  <2> QED
    BY <1>1, <2>3
<1>3. rank \in [first -> 0 .. k - 1]
  BY <1>1
<1>4. ASSUME NEW d \in first, NEW e \in first, rank[d] = rank[e] PROVE d = e
  <2>1. d \in S /\ e \in S /\ Cardinality(before[d]) = Cardinality(before[e])
    BY <1>4
  <2>2. d \notin before[e] /\ e \notin before[d]
    BY <1>1, <1>2, <2>1
  <2> QED
    BY <2>1, <2>2
<1> HIDE DEF rank
<1>5. rank \in Injection(first, 0 .. k - 1)
  BY <1>3, <1>4 DEF Injection, IsInjective
<1>6. IsFiniteSet(0 .. k - 1) /\ Cardinality(0 .. k - 1) = k
  BY FS_Interval
<1> QED
  BY <1>5, <1>6, FS_Injection

-----------------------------------------------------------------------------
(* The CIP planner.                                                        *)

\* A verdict on file was right of the revision it names.
CipVerdictsTrue ==
  \A e \in csCache : e[3] = TRUE => e[2] \in CSFixedAt[e[1]]

\* What a run holds to be fixed is fixed at the revision it resolved.
CipRunTrue ==
  /\ csPc \in {"states", "write"} => \A c \in csFixed : c[3] \in CSFixedAt[csAt]
  /\ csPc = "write" => csActions \subseteq csFixed

CipInv == CipVerdictsTrue /\ CipRunTrue /\ CipPlansOnlyFixed

LEMMA CipInitInv == CipInit => CipInv
  BY DEF CipInit, CipInv, CipVerdictsTrue, CipRunTrue, CipPlansOnlyFixed

(* The verdict taken over from the file is one of the run's revision, and  *)
(* every new one is of that revision.                                      *)
LEMMA CipAssesses ==
    ASSUME CipInv, CSAssess
    PROVE  CipVerdictsTrue' /\ CipRunTrue'
<1>1. PICK lost \in SUBSET {c[3] : c \in csFound} :
        LET verdicts == [cve \in {c[3] : c \in csFound} |->
              IF CSCached(cve) # {} THEN CSCached(cve)
              ELSE IF cve \in lost THEN {} ELSE {cve \in CSFixedAt[csAt]}]
        IN  /\ csFixed' = {c \in csFound : TRUE \in verdicts[c[3]]}
            /\ csCache' = csCache \cup
                 UNION {{<<csAt, cve, v>> : v \in verdicts[cve]} : cve \in DOMAIN verdicts}
  BY DEF CSAssess
<1> DEFINE cves == {c[3] : c \in csFound}
           verdicts == [cve \in cves |->
             IF CSCached(cve) # {} THEN CSCached(cve)
             ELSE IF cve \in lost THEN {} ELSE {cve \in CSFixedAt[csAt]}]
<1>2. ASSUME NEW cve \in cves, TRUE \in verdicts[cve]
      PROVE  cve \in CSFixedAt[csAt]
  <2>1. CASE CSCached(cve) # {}
    <3>1. TRUE \in CSCached(cve)
      BY <1>2, <2>1
    <3>2. PICK e \in csCache : e[1] = csAt /\ e[2] = cve /\ e[3] = TRUE
      BY <3>1 DEF CSCached
    <3> QED
      BY <3>2 DEF CipInv, CipVerdictsTrue
  <2>2. CASE CSCached(cve) = {}
    <3>1. TRUE = (cve \in CSFixedAt[csAt])
      BY <1>2, <2>2
    <3> QED
      BY <3>1
  <2> QED
    BY <2>1, <2>2
<1>3. csFixed' = {c \in csFound : TRUE \in verdicts[c[3]]}
  BY <1>1
<1>4. csCache' = csCache \cup UNION {{<<csAt, cve, v>> : v \in verdicts[cve]} : cve \in cves}
  BY <1>1
<1>5. ASSUME NEW e \in csCache', e[3] = TRUE
      PROVE  e[2] \in CSFixedAt[e[1]]
  <2>1. CASE e \in csCache
    BY <1>5, <2>1 DEF CipInv, CipVerdictsTrue
  <2>2. CASE \E cve \in cves : \E v \in verdicts[cve] : e = <<csAt, cve, v>>
    <3>1. PICK cve \in cves : \E v \in verdicts[cve] : e = <<csAt, cve, v>>
      BY <2>2
    <3>2. PICK v \in verdicts[cve] : e = <<csAt, cve, v>>
      BY <3>1
    <3>3. e[1] = csAt /\ e[2] = cve /\ e[3] = v
      BY <3>2
    <3> HIDE DEF cves, verdicts
    <3>4. TRUE \in verdicts[cve]
      BY <1>5, <3>2, <3>3, Zenon
    <3> QED
      BY <1>2, <3>3, <3>4
  <2> QED
    BY <1>4, <2>1, <2>2
<1>6. CipVerdictsTrue'
  BY <1>5 DEF CipVerdictsTrue
<1>7. csAt' = csAt /\ csPc' = "states"
  BY DEF CSAssess
<1>8. ASSUME NEW c \in csFixed'
      PROVE  c[3] \in CSFixedAt[csAt]
  <2>1. c \in csFound /\ TRUE \in verdicts[c[3]]
    BY <1>3
  <2>2. c[3] \in cves
    BY <2>1
  <2> HIDE DEF cves, verdicts
  <2> QED
    BY <1>2, <2>1, <2>2
<1> QED
  BY <1>6, <1>7, <1>8 DEF CipRunTrue

LEMMA CipInvStep ==
    ASSUME CipInv, [CipNext]_csVars
    PROVE  CipInv'
<1> USE DEF csRemote, csFiles, csRun
<1>1. ASSUME CSRunOver, UNCHANGED csPlan
      PROVE  CipInv'
  BY <1>1 DEF CSRunOver, CipInv, CipVerdictsTrue, CipRunTrue, CipPlansOnlyFixed
<1>2. ASSUME UNCHANGED <<csCache, csPlan, csAt, csFixed, csActions, csPc>>
      PROVE  CipInv'
  BY <1>2 DEF CipInv, CipVerdictsTrue, CipRunTrue, CipPlansOnlyFixed
<1>3. CASE CSRevise \/ CSDecide \/ CSPage \/ CSPageFails \/ UNCHANGED csVars
  BY <1>2, <1>3 DEF CSRevise, CSDecide, CSPage, CSPageFails, csVars
<1>4. CASE CSBegin \/ CSSavesCursors
  BY <1>4 DEF CSBegin, CSSavesCursors, CipInv, CipVerdictsTrue, CipRunTrue, CipPlansOnlyFixed
<1>5. CASE CSAssess
  <2>1. CipPlansOnlyFixed'
    BY <1>5 DEF CSAssess, CipInv, CipPlansOnlyFixed
  <2> QED
    BY <1>5, <2>1, CipAssesses DEF CipInv
<1>6. CASE CSReadStates
  <2>1. csActions' \subseteq csFixed' /\ csFixed' = csFixed
    BY <1>6 DEF CSReadStates
  <2> QED
    BY <1>6, <2>1 DEF CSReadStates, CipInv, CipVerdictsTrue, CipRunTrue, CipPlansOnlyFixed
<1>7. CASE CSWritesPlan
  <2>1. csPlan'.revision = csAt /\ csPlan'.actions = csActions
    BY <1>7 DEF CSWritesPlan
  <2>2. CipPlansOnlyFixed'
    BY <1>7, <2>1 DEF CSWritesPlan, CipInv, CipRunTrue, CipPlansOnlyFixed
  <2> QED
    BY <1>7, <2>2 DEF CSWritesPlan, CSRunOver, CipInv, CipVerdictsTrue, CipRunTrue
<1>8. CASE CSCrash
  BY <1>1, <1>8 DEF CSCrash
<1> QED
  BY <1>3, <1>4, <1>5, <1>6, <1>7, <1>8 DEF CipNext, CSPlanning

(* An action of a CIP plan is never built on a verdict of another revision *)
(* (create_cip_plan, assess_fix), whatever the assessment file holds and   *)
(* however the references move while the run is under way.                 *)
THEOREM CipPlansFixed == CipSpec => []CipPlansOnlyFixed
<1>1. CipInit => CipInv
  BY CipInitInv
<1>2. CipInv /\ [CipNext]_csVars => CipInv'
  BY CipInvStep
<1>3. CipInv => CipPlansOnlyFixed
  BY DEF CipInv
<1> QED
  BY <1>1, <1>2, <1>3, PTL DEF CipSpec

(* The occurrences of a page are taken in order, and of each its CVEs in    *)
(* order, as long as the budget lasts: never more than it allows.           *)
LEMMA CipTakes ==
    ASSUME NEW n \in Nat, NEW rows \in [1 .. n -> SUBSET CSCves], NEW budget \in Nat,
           NEW t, NEW offset \in Nat, CSConsumed(rows, budget) \in 0 .. n
    PROVE  /\ IsFiniteSet(CSTaken(t, offset, rows, budget))
           /\ Cardinality(CSTaken(t, offset, rows, budget)) <= budget
<1> DEFINE upto(i) == UNION {{<<j, c>> : c \in rows[j]} : j \in 1 .. i - 1}
           before(i) == Cardinality(upto(i))
           some(i) == IF before(i) >= budget THEN {} ELSE CSFirst(rows[i], budget - before(i))
           consumed == CSConsumed(rows, budget)
           taken == CSTaken(t, offset, rows, budget)
           S == {p \in (1 .. n) \X CSCves : p[2] \in rows[p[1]]}
           less == [e \in S |-> {d \in S : d[1] < e[1] \/ (d[1] = e[1] /\ d[2] < e[2])}]
           first == {e \in S : Cardinality(less[e]) < budget}
           row(i, c) == {<<i, d>> : d \in {d \in rows[i] : d < c}}
           smaller(i, c) == {d \in rows[i] : d < c}
<1> HIDE DEF consumed
<1>0. consumed \in 0 .. n
  BY DEF consumed
<1>11. IsFiniteSet(CSCves) /\ CSCves \subseteq Nat
  <2>1. IsFiniteSet(CSCves) /\ CSOccurrences \in Seq(Seq(SUBSET Nat))
    BY CipAssumption
  <2>2. ASSUME NEW u \in DOMAIN CSOccurrences, NEW i \in DOMAIN CSOccurrences[u]
        PROVE  CSOccurrences[u][i] \subseteq Nat
    <3>1. CSOccurrences[u] \in Seq(SUBSET Nat)
      BY <2>1
    <3> QED
      BY <3>1
  <2> QED
    BY <2>1, <2>2 DEF CSCves
<1>1. IsFiniteSet(S)
  <2>1. IsFiniteSet(1 .. n)
    BY FS_Interval
  <2>2. IsFiniteSet((1 .. n) \X CSCves)
    BY <1>11, <2>1, FS_Product
  <2> QED
    BY <2>2, FS_Subset
<1>2. S \subseteq (1 .. n) \X Nat
  BY <1>11
<1>3. IsFiniteSet(first) /\ Cardinality(first) <= budget
  <2>1. \A a \in S : a[1] \in Nat /\ a[2] \in Nat
    BY <1>2
  <2>2. \A a, b \in S : a[1] = b[1] /\ a[2] = b[2] => a = b
    OBVIOUS
  <2>3. less \in [S -> SUBSET S]
    <3> HIDE DEF S
    <3> QED
      OBVIOUS
  <2>4. \A a, b \in S : a \in less[b] <=> (a[1] < b[1] \/ (a[1] = b[1] /\ a[2] < b[2]))
    <3> HIDE DEF S
    <3> QED
      OBVIOUS
  <2>5. first \in SUBSET S /\ \A e \in first : Cardinality(less[e]) < budget
    <3> HIDE DEF S, less
    <3> QED
      OBVIOUS
  <2> HIDE DEF S, less, first
  <2>6. \A a \in S : a \notin less[a]
    BY <2>1, <2>4
  <2>7. \A a, b \in S : a = b \/ a \in less[b] \/ b \in less[a]
    <3> SUFFICES ASSUME NEW a \in S, NEW b \in S, a[1] = b[1], a[2] = b[2] PROVE a = b
      BY <2>1, <2>4
    <3> QED
      BY <2>2
  <2>8. \A a, b, c \in S : a \in less[b] /\ b \in less[c] => a \in less[c]
    BY <2>1, <2>4
  <2> QED
    BY <1>1, <2>3, <2>5, <2>6, <2>7, <2>8, FirstOnes
<1>4. ASSUME NEW i \in 1 .. consumed, NEW c \in rows[i], ~ before(i) >= budget,
             c \in CSFirst(rows[i], budget - before(i))
      PROVE  <<i, c>> \in first
  <2>1. i \in 1 .. n /\ rows[i] \subseteq CSCves /\ <<i, c>> \in S
    BY <1>0
  <2>2. less[<<i, c>>] = upto(i) \cup row(i, c) /\ upto(i) \cup row(i, c) \subseteq S
    <3>1. ASSUME NEW d \in S
          PROVE  d \in less[<<i, c>>] <=> d \in upto(i) \cup row(i, c)
      <4>1. d = <<d[1], d[2]>> /\ d[1] \in 1 .. n /\ d[2] \in rows[d[1]]
        OBVIOUS
      <4>2. d \in upto(i) <=> d[1] \in 1 .. i - 1
        BY <4>1
      <4>3. d \in row(i, c) <=> d[1] = i /\ d[2] < c
        BY <4>1
      <4>4. d \in less[<<i, c>>] <=> d[1] < i \/ (d[1] = i /\ d[2] < c)
        <5> HIDE DEF S
        <5> QED
          BY <2>1
      <4>5. d[1] < i <=> d[1] \in 1 .. i - 1
        BY <2>1, <4>1
      <4> HIDE DEF less, upto, row, S
      <4> QED
        BY <4>2, <4>3, <4>4, <4>5
    <3>2. upto(i) \cup row(i, c) \subseteq S
      <4>1. upto(i) \subseteq S
        <5> SUFFICES ASSUME NEW j \in 1 .. i - 1, NEW d \in rows[j] PROVE <<j, d>> \in S
          OBVIOUS
        <5>1. j \in 1 .. n
          BY <2>1
        <5> QED
          BY <5>1
      <4>2. row(i, c) \subseteq S
        BY <2>1
      <4> HIDE DEF upto, row, S
      <4> QED
        BY <4>1, <4>2
    <3>3. less[<<i, c>>] \subseteq S
      <4> HIDE DEF S
      <4> QED
        BY <2>1
    <3> HIDE DEF S, less, upto, row
    <3> QED
      BY <3>1, <3>2, <3>3
  <2>3. upto(i) \cap row(i, c) = {}
    OBVIOUS
  <2>4. upto(i) \subseteq S /\ row(i, c) \subseteq S
    <3> HIDE DEF S, less, upto, row
    <3> QED
      BY <2>2
  <2>5. IsFiniteSet(upto(i)) /\ IsFiniteSet(row(i, c)) /\ IsFiniteSet(smaller(i, c))
    <3>1. smaller(i, c) \subseteq CSCves
      BY <2>1
    <3> HIDE DEF S, upto, row, smaller
    <3> QED
      BY <1>11, <1>1, <2>4, <3>1, FS_Subset
  <2>6. Cardinality(row(i, c)) <= Cardinality(smaller(i, c))
    <3> DEFINE pair == [d \in smaller(i, c) |-> <<i, d>>]
    <3>1. pair \in Surjection(smaller(i, c), row(i, c))
      BY DEF Surjection
    <3> HIDE DEF pair, row, smaller
    <3> QED
      BY <2>5, <3>1, FS_Surjection
  <2>7. Cardinality(smaller(i, c)) < budget - before(i)
    BY <1>4 DEF CSFirst
  <2>8. Cardinality(less[<<i, c>>]) = Cardinality(upto(i)) + Cardinality(row(i, c))
    <3> HIDE DEF less, upto, row, S
    <3>1. Cardinality(upto(i) \cap row(i, c)) = 0
      BY <2>3, FS_EmptySet
    <3>2. Cardinality(upto(i)) \in Nat /\ Cardinality(row(i, c)) \in Nat
      BY <2>5, FS_CardinalityType
    <3>3. Cardinality(upto(i) \cup row(i, c)) = Cardinality(upto(i)) + Cardinality(row(i, c)) - Cardinality(upto(i) \cap row(i, c))
      BY <2>5, FS_Union
    <3> QED
      BY <2>2, <3>1, <3>2, <3>3
  <2>9. Cardinality(upto(i)) \in Nat /\ Cardinality(row(i, c)) \in Nat /\ Cardinality(smaller(i, c)) \in Nat
    <3> HIDE DEF upto, row, smaller
    <3> QED
      BY <2>5, FS_CardinalityType
  <2>10. Cardinality(less[<<i, c>>]) < budget
    <3> HIDE DEF less, upto, row, smaller, S
    <3> QED
      BY <2>6, <2>7, <2>8, <2>9
  <2> HIDE DEF less, S
  <2> QED
    BY <2>1, <2>10
<1> DEFINE put == [e \in first |-> <<t, offset + e[1], e[2]>>]
           image == {put[e] : e \in first}
<1>5. IsFiniteSet(image) /\ Cardinality(image) <= Cardinality(first)
  <2>1. put \in Surjection(first, image)
    <3> HIDE DEF first
    <3> QED
      BY DEF Surjection
  <2> HIDE DEF put, image, first
  <2> QED
    BY <1>3, <2>1, FS_Surjection
<1>6. taken \subseteq image
  <2>1. taken = UNION {{<<t, offset + i, c>> : c \in some(i)} : i \in 1 .. consumed}
    BY DEF CSTaken, consumed
  <2> SUFFICES ASSUME NEW e \in taken PROVE e \in image
    OBVIOUS
  <2> HIDE DEF taken, some
  <2>2. PICK i \in 1 .. consumed : e \in {<<t, offset + i, c>> : c \in some(i)}
    BY <2>1
  <2>3. PICK c \in some(i) : e = <<t, offset + i, c>>
    BY <2>2
  <2>4. c \in CSFirst(rows[i], budget - before(i)) /\ ~ before(i) >= budget
    BY <2>3 DEF some
  <2>5. c \in rows[i]
    BY <2>4 DEF CSFirst
  <2>6. <<i, c>> \in first
    BY <1>4, <2>5, <2>4
  <2>7. put[<<i, c>>] = <<t, offset + i, c>>
    <3> HIDE DEF first
    <3> QED
      BY <2>6
  <2> HIDE DEF first, put
  <2> QED
    BY <2>3, <2>6, <2>7
<1>7. IsFiniteSet(taken) /\ Cardinality(taken) <= Cardinality(image)
  <2> HIDE DEF taken, image
  <2> QED
    BY <1>5, <1>6, FS_Subset
<1>8. Cardinality(taken) \in Nat /\ Cardinality(image) \in Nat /\ Cardinality(first) \in Nat
  <2> HIDE DEF taken, image, first
  <2> QED
    BY <1>3, <1>5, <1>7, FS_CardinalityType
<1>9. Cardinality(taken) <= budget
  <2> HIDE DEF taken, image, first
  <2> QED
    BY <1>3, <1>5, <1>7, <1>8
<1> QED
  BY <1>7, <1>9

\* What the first k targets of a run are given of the maximum.
CipShare(i) ==
  (CSMaximum \div Len(CSOccurrences)) + (IF i <= CSMaximum % Len(CSOccurrences) THEN 1 ELSE 0)

CipWidth == IF CSMaximum < Len(CSOccurrences) THEN CSMaximum ELSE Len(CSOccurrences)

CipGiven(k) ==
  k * (CSMaximum \div Len(CSOccurrences))
    + (IF k < CSMaximum % Len(CSOccurrences) THEN k ELSE CSMaximum % Len(CSOccurrences))

CipDone == CipWidth - Len(csQueue)

CipFiles ==
  /\ csRevision \in DOMAIN CSFixedAt /\ csAt \in DOMAIN CSFixedAt
  /\ csDecided \subseteq CSCandidates
  /\ csCursor \in [CSTargets -> Nat] /\ csOffsets \in [CSTargets -> Nat]
  /\ \A t \in CSTargets : csCursor[t] <= Len(CSOccurrences[t]) /\ csOffsets[t] <= Len(CSOccurrences[t])
  /\ csNext \in 0 .. Len(CSOccurrences) - 1
  /\ csPc \in {"idle", "load", "assess", "states", "write"}
  /\ csFaults \in 0 .. CSMaxFaults
  /\ csFound \subseteq CSCandidates /\ csFixed \subseteq CSCandidates /\ csActions \subseteq csFixed
  /\ csPc \in {"idle", "load", "assess"} => csActions = {}

\* The reading of the first target of the queue keeps to its collection and
\* its budget.
CipReading ==
  /\ csRead \in [offset : Nat, scanned : 0 .. CSMaxOccurrences - 1, found : SUBSET CSCandidates]
  /\ IsFiniteSet(csRead.found)
  /\ csQueue = <<>> => csRead = NotRead
  /\ csQueue # <<>> =>
       /\ csRead.offset <= Len(CSOccurrences[Head(csQueue).target])
       /\ Cardinality(csRead.found) <= Head(csQueue).budget

\* The targets still to read hold the shares not used yet.
CipBudgets ==
  /\ csQueue \in Seq([target : CSTargets, budget : Nat])
  /\ csPc # "load" => csQueue = <<>>
  /\ Len(csQueue) <= CipWidth
  /\ \A i \in 1 .. Len(csQueue) : csQueue[i].budget = CipShare(CipDone + i)
  /\ IsFiniteSet(csFound) /\ Cardinality(csFound) <= CipGiven(CipDone)

CipTypes == CipFiles /\ CipReading /\ CipBudgets

LEMMA CipNumbers ==
  /\ Len(CSOccurrences) \in Nat \ {0} /\ CSTargets = 1 .. Len(CSOccurrences)
  /\ \A t \in CSTargets : CSOccurrences[t] \in Seq(SUBSET Nat)
  /\ CSMaximum \div Len(CSOccurrences) \in Nat
  /\ CSMaximum % Len(CSOccurrences) \in 0 .. Len(CSOccurrences) - 1
  /\ CSMaximum = Len(CSOccurrences) * (CSMaximum \div Len(CSOccurrences)) + (CSMaximum % Len(CSOccurrences))
  /\ CipWidth \in 1 .. Len(CSOccurrences) /\ CipWidth <= CSMaximum
  /\ DOMAIN CSFixedAt = 1 .. Len(CSFixedAt) /\ Len(CSFixedAt) \in Nat \ {0}
<1>1. CSOccurrences \in Seq(Seq(SUBSET Nat)) /\ CSOccurrences # <<>> /\ CSMaximum \in Nat \ {0}
  BY CipAssumption
<1>2. Len(CSOccurrences) \in Nat \ {0} /\ CSTargets = 1 .. Len(CSOccurrences)
  BY <1>1 DEF CSTargets
<1>3. \A t \in CSTargets : CSOccurrences[t] \in Seq(SUBSET Nat)
  BY <1>1, <1>2
<1>4. \A n \in Nat \ {0} : \A m \in Nat : m \div n \in Nat /\ m % n \in 0 .. n - 1 /\ m = n * (m \div n) + (m % n)
  OBVIOUS
<1>5. CipWidth \in 1 .. Len(CSOccurrences) /\ CipWidth <= CSMaximum
  BY <1>1, <1>2 DEF CipWidth
<1>6. CSFixedAt \in Seq(SUBSET Nat) /\ CSFixedAt # <<>>
  BY CipAssumption
<1>7. DOMAIN CSFixedAt = 1 .. Len(CSFixedAt) /\ Len(CSFixedAt) \in Nat \ {0}
  BY <1>6
<1>8. /\ CSMaximum \div Len(CSOccurrences) \in Nat
      /\ CSMaximum % Len(CSOccurrences) \in 0 .. Len(CSOccurrences) - 1
      /\ CSMaximum = Len(CSOccurrences) * (CSMaximum \div Len(CSOccurrences)) + (CSMaximum % Len(CSOccurrences))
  BY <1>1, <1>2, <1>4
<1> QED
  BY <1>2, <1>3, <1>5, <1>7, <1>8

(* The shares add up to the maximum, none of them is missing from the sum   *)
(* of the first ones.                                                       *)
LEMMA CipShares ==
  /\ \A k \in Nat : CipGiven(k) \in Nat /\ CipShare(k) \in Nat /\ CipGiven(k + 1) = CipGiven(k) + CipShare(k + 1)
  /\ \A k \in 0 .. CipWidth : CipGiven(k) <= CSMaximum
<1> DEFINE n == Len(CSOccurrences)
           q == CSMaximum \div n
           m == CSMaximum % n
<1>1. n \in Nat \ {0} /\ q \in Nat /\ m \in 0 .. n - 1 /\ CSMaximum = n * q + m /\ CSMaximum \in Nat \ {0}
  BY CipNumbers, CipAssumption
<1>2. \A k \in Nat : CipGiven(k) = k * q + (IF k < m THEN k ELSE m) /\ CipShare(k) = q + (IF k <= m THEN 1 ELSE 0)
  BY DEF CipGiven, CipShare
<1> HIDE DEF n, q, m
<1>3. \A k \in Nat : k * q \in Nat /\ (k + 1) * q = k * q + q
  BY <1>1
<1>4. ASSUME NEW k \in Nat
      PROVE  CipGiven(k) \in Nat /\ CipShare(k) \in Nat /\ CipGiven(k + 1) = CipGiven(k) + CipShare(k + 1)
  <2>1. k + 1 \in Nat
    OBVIOUS
  <2>2. CipGiven(k + 1) = k * q + q + (IF k + 1 < m THEN k + 1 ELSE m) /\ CipShare(k + 1) = q + (IF k + 1 <= m THEN 1 ELSE 0)
    BY <1>2, <1>3, <2>1
  <2>3. CipGiven(k) = k * q + (IF k < m THEN k ELSE m) /\ CipShare(k) = q + (IF k <= m THEN 1 ELSE 0)
    BY <1>2
  <2>4. k * q \in Nat /\ q \in Nat /\ m \in Nat
    BY <1>1, <1>3
  <2>5. \A a \in Nat : a = k * q => a + q + (IF k + 1 < m THEN k + 1 ELSE m) = (a + (IF k < m THEN k ELSE m)) + (q + (IF k + 1 <= m THEN 1 ELSE 0))
    BY <2>4
  <2> QED
    BY <2>2, <2>3, <2>4, <2>5
<1>5. ASSUME NEW k \in 0 .. CipWidth
      PROVE  CipGiven(k) <= CSMaximum
  <2>1. k \in 0 .. n
    BY CipNumbers DEF n
  <2>2. k * q <= n * q
    BY <1>1, <2>1
  <2>3. k * q \in Nat /\ n * q \in Nat
    BY <1>1, <1>3, <2>1
  <2>4. CipGiven(k) = k * q + (IF k < m THEN k ELSE m)
    BY <1>2, <2>1
  <2>5. \A a, b \in Nat : a <= b => a + (IF k < m THEN k ELSE m) <= b + m
    BY <1>1, <2>1
  <2> QED
    BY <1>1, <2>2, <2>3, <2>4, <2>5
<1> QED
  BY <1>4, <1>5

\* The queue of a run holds the shares from the first on.
LEMMA CipSchedules ==
    ASSUME csNext \in 0 .. Len(CSOccurrences) - 1
    PROVE  /\ CSSchedule \in Seq([target : CSTargets, budget : Nat]) /\ Len(CSSchedule) = CipWidth
           /\ \A i \in 1 .. CipWidth : CSSchedule[i].budget = CipShare(i)
<1> DEFINE n == Len(CSOccurrences)
           item(i) == [target |-> 1 + ((csNext + i - 1) % n), budget |-> CipShare(i)]
<1>1. CSSchedule = [i \in 1 .. CipWidth |-> item(i)]
  BY DEF CSSchedule, CipWidth, CipShare
<1>2. \A i \in 1 .. CipWidth : item(i) \in [target : CSTargets, budget : Nat] /\ item(i).budget = CipShare(i)
  <2> SUFFICES ASSUME NEW i \in 1 .. CipWidth
               PROVE  item(i) \in [target : CSTargets, budget : Nat] /\ item(i).budget = CipShare(i)
    OBVIOUS
  <2>1. i \in Nat \ {0} /\ n \in Nat \ {0} /\ csNext \in Nat
    BY CipNumbers
  <2>2. CipShare(i) \in Nat
    BY <2>1, CipShares
  <2>3. \A a \in Nat : \A b \in Nat \ {0} : 1 + (a % b) \in 1 .. b
    OBVIOUS
  <2>4. csNext + i - 1 \in Nat
    BY <2>1
  <2>5. 1 + ((csNext + i - 1) % n) \in CSTargets
    BY <2>1, <2>3, <2>4, CipNumbers
  <2> QED
    BY <2>2, <2>5
<1> HIDE DEF item
<1>3. CipWidth \in Nat
  BY CipNumbers
<1> QED
  BY <1>1, <1>2, <1>3

LEMMA CipCollections ==
    ASSUME NEW t \in CSTargets
    PROVE  /\ CSOccurrences[t] \in Seq(SUBSET CSCves) /\ Len(CSOccurrences[t]) \in Nat
           /\ \A i \in 1 .. Len(CSOccurrences[t]) : \A c \in CSOccurrences[t][i] : <<t, i, c>> \in CSCandidates
<1>1. CSOccurrences[t] \in Seq(SUBSET Nat)
  BY CipNumbers
<1>2. DOMAIN CSOccurrences[t] = 1 .. Len(CSOccurrences[t]) /\ Len(CSOccurrences[t]) \in Nat
  BY <1>1
<1>3. \A i \in 1 .. Len(CSOccurrences[t]) : CSOccurrences[t][i] \subseteq CSCves
  BY <1>2 DEF CSCves, CSTargets
<1>4. CSOccurrences[t] = [i \in 1 .. Len(CSOccurrences[t]) |-> CSOccurrences[t][i]]
  BY <1>1
<1>5. CSOccurrences[t] \in Seq(SUBSET CSCves)
  BY <1>2, <1>3, <1>4
<1>6. \A i \in 1 .. Len(CSOccurrences[t]) : \A c \in CSOccurrences[t][i] : <<t, i, c>> \in CSCandidates
  BY <1>2 DEF CSCandidates
<1> QED
  BY <1>2, <1>5, <1>6

LEMMA CipInitTypes == CipInit => CipTypes
<1> SUFFICES ASSUME CipInit PROVE CipTypes
  OBVIOUS
<1>1. CipFiles
  <2>1. \A t \in CSTargets : Len(CSOccurrences[t]) \in Nat
    BY CipCollections
  <2> QED
    BY <2>1, CipNumbers, CipAssumption DEF CipInit, CipFiles
<1>2. CipReading
  BY CipAssumption, FS_EmptySet DEF CipInit, CipReading, NotRead
<1>3. CipBudgets
  <2>1. Len(<<>>) = 0 /\ CipWidth \in Nat /\ <<>> \in Seq([target : CSTargets, budget : Nat])
    BY CipNumbers
  <2>2. CipGiven(CipWidth) \in Nat
    BY <2>1, CipShares
  <2> QED
    BY <2>1, <2>2, FS_EmptySet DEF CipInit, CipBudgets, CipDone
<1> QED
  BY <1>1, <1>2, <1>3 DEF CipTypes

\* A target that is opened has nothing read and begins within its collection.
LEMMA CipOpensWell ==
    ASSUME CipFiles, NEW queue \in Seq([target : CSTargets, budget : Nat])
    PROVE  LET read == CSOpens(queue)
           IN  /\ read \in [offset : Nat, scanned : 0 .. CSMaxOccurrences - 1, found : SUBSET CSCandidates]
               /\ IsFiniteSet(read.found)
               /\ queue = <<>> => read = NotRead
               /\ queue # <<>> => /\ read.offset <= Len(CSOccurrences[Head(queue).target])
                                  /\ Cardinality(read.found) <= Head(queue).budget
<1>1. CSMaxOccurrences \in Nat \ {0}
  BY CipAssumption
<1>2. CASE queue = <<>>
  BY <1>1, <1>2, FS_EmptySet DEF CSOpens, NotRead
<1>3. CASE queue # <<>>
  <2>1. Head(queue) \in [target : CSTargets, budget : Nat]
    <3> DEFINE R == [target : CSTargets, budget : Nat]
    <3> HIDE DEF R
    <3>1. \A s \in Seq(R) : s # <<>> => Head(s) \in R
      OBVIOUS
    <3> QED
      BY <1>3, <3>1 DEF R
  <2>2. CSOpens(queue) = [offset |-> csCursor[Head(queue).target], scanned |-> 0, found |-> {}]
    BY <1>3 DEF CSOpens, NotRead
  <2>3. csCursor[Head(queue).target] \in Nat /\ csCursor[Head(queue).target] <= Len(CSOccurrences[Head(queue).target])
    BY <2>1 DEF CipFiles
  <2> QED
    BY <1>1, <1>3, <2>1, <2>2, <2>3, FS_EmptySet
<1> QED
  BY <1>2, <1>3

(* A target that ends hands the rest of the queue on: what it has found is  *)
(* within the share it was given.                                           *)
LEMMA CipTargetEnds ==
    ASSUME CipTypes, csPc = "load", csQueue # <<>>,
           NEW offset \in 0 .. Len(CSOccurrences[Head(csQueue).target]),
           NEW found \in SUBSET CSCandidates, IsFiniteSet(found),
           Cardinality(found) <= Head(csQueue).budget,
           CSTargetEnds(offset, found),
           csFaults' \in 0 .. CSMaxFaults, UNCHANGED <<csRemote, csFiles, csPc, csAt, csFixed, csActions>>
    PROVE  CipTypes'
<1> USE DEF csRemote, csFiles
<1>1. csQueue \in Seq([target : CSTargets, budget : Nat]) /\ csQueue' = Tail(csQueue)
  BY DEF CipTypes, CipBudgets, CSTargetEnds
<1>2. /\ Head(csQueue) \in [target : CSTargets, budget : Nat] /\ Head(csQueue) = csQueue[1]
      /\ csQueue' \in Seq([target : CSTargets, budget : Nat])
      /\ Len(csQueue) \in Nat \ {0} /\ Len(csQueue') = Len(csQueue) - 1
      /\ \A i \in 1 .. Len(csQueue') : csQueue'[i] = csQueue[i + 1]
  <2> DEFINE R == [target : CSTargets, budget : Nat]
  <2>1. csQueue \in Seq(R)
    BY <1>1
  <2> HIDE DEF R
  <2>2. /\ Head(csQueue) \in R /\ Head(csQueue) = csQueue[1] /\ Tail(csQueue) \in Seq(R)
        /\ Len(csQueue) \in Nat \ {0} /\ Len(Tail(csQueue)) = Len(csQueue) - 1
    BY <2>1
  <2>3. \A i \in 1 .. Len(Tail(csQueue)) : Tail(csQueue)[i] = csQueue[i + 1]
    BY <2>1
  <2> QED
    BY <1>1, <2>2, <2>3 DEF R
<1> DEFINE t == Head(csQueue).target
<1>3. t \in CSTargets /\ Len(CSOccurrences[t]) \in Nat
  BY <1>2, CipCollections
<1>4. csOffsets' \in [CSTargets -> Nat] /\ \A u \in CSTargets : csOffsets'[u] <= Len(CSOccurrences[u])
  <2>1. csOffsets' = [csOffsets EXCEPT ![t] = offset]
    BY DEF CSTargetEnds
  <2>2. offset \in Nat /\ offset <= Len(CSOccurrences[t])
    BY <1>3
  <2> HIDE DEF t
  <2> QED
    BY <1>3, <2>1, <2>2 DEF CipTypes, CipFiles
<1>5. csFound' = csFound \cup found
  BY DEF CSTargetEnds
<1>6. CipFiles'
  <2>1. csFound' \subseteq CSCandidates
    BY <1>5 DEF CipTypes, CipFiles
  <2>2. \A u \in CSTargets : csCursor'[u] <= Len(CSOccurrences[u])
    BY DEF CipTypes, CipFiles
  <2> QED
    BY <1>4, <2>1, <2>2 DEF CipTypes, CipFiles
<1>7. CipReading'
  <2>1. csRead' = CSOpens(csQueue')
    BY DEF CSTargetEnds
  <2> QED
    BY <1>2, <2>1, CipOpensWell DEF CipTypes, CipReading
<1>8. CipDone \in 0 .. CipWidth /\ CipDone' = CipDone + 1 /\ CipDone + 1 \in 0 .. CipWidth /\ CipWidth \in Nat
  <2>1. CipWidth \in Nat /\ Len(csQueue) <= CipWidth
    BY CipNumbers DEF CipTypes, CipBudgets
  <2>2. CipDone = CipWidth - Len(csQueue) /\ CipDone' = CipWidth - Len(csQueue')
    BY DEF CipDone, CipWidth
  <2> QED
    BY <1>2, <2>1, <2>2
<1>9. \A i \in 1 .. Len(csQueue') : csQueue'[i].budget = CipShare(CipDone' + i)
  <2> SUFFICES ASSUME NEW i \in 1 .. Len(csQueue') PROVE csQueue'[i].budget = CipShare(CipDone' + i)
    OBVIOUS
  <2>1. i + 1 \in 1 .. Len(csQueue) /\ CipDone + (i + 1) = CipDone' + i
    BY <1>2, <1>8
  <2>2. csQueue[i + 1].budget = CipShare(CipDone + (i + 1))
    BY <2>1 DEF CipTypes, CipBudgets
  <2> QED
    BY <1>2, <2>1, <2>2
<1>10. IsFiniteSet(csFound') /\ Cardinality(csFound') <= CipGiven(CipDone')
  <2>1. IsFiniteSet(csFound) /\ Cardinality(csFound) <= CipGiven(CipDone)
    BY DEF CipTypes, CipBudgets
  <2>2. IsFiniteSet(csFound') /\ Cardinality(csFound') = Cardinality(csFound) + Cardinality(found) - Cardinality(csFound \cap found)
    BY <1>5, <2>1, FS_Union
  <2>3. IsFiniteSet(csFound \cap found)
    BY <2>1, FS_Subset
  <2>4. /\ Cardinality(csFound) \in Nat /\ Cardinality(found) \in Nat
        /\ Cardinality(csFound \cap found) \in Nat /\ Cardinality(csFound') \in Nat
    BY <2>1, <2>2, <2>3, FS_CardinalityType
  <2>5. csQueue[1].budget = CipShare(CipDone + 1)
    BY <1>2 DEF CipTypes, CipBudgets
  <2>6. CipGiven(CipDone + 1) = CipGiven(CipDone) + CipShare(CipDone + 1) /\ CipGiven(CipDone) \in Nat /\ CipShare(CipDone + 1) \in Nat
    <3>1. CipDone \in Nat /\ CipDone + 1 \in Nat
      BY <1>8
    <3> QED
      BY <3>1, CipShares
  <2>7. Cardinality(found) <= CipShare(CipDone + 1)
    BY <1>2, <2>5
  <2>8. Cardinality(csFound') <= CipGiven(CipDone) + CipShare(CipDone + 1)
    BY <2>1, <2>2, <2>4, <2>6, <2>7
  <2> QED
    BY <1>8, <2>2, <2>6, <2>8
<1>11. CipBudgets'
  <2>1. Len(csQueue') <= CipWidth /\ csPc' = "load"
    BY <1>2, <1>8 DEF CipTypes, CipBudgets
  <2> QED
    BY <1>2, <1>9, <1>10, <2>1 DEF CipBudgets, CipWidth, CipShare, CipGiven
<1> QED
  BY <1>6, <1>7, <1>11 DEF CipTypes

\* Of a page no more occurrences are consumed than it has.
LEMMA CipConsumes ==
    ASSUME NEW n \in Nat, NEW rows \in [1 .. n -> SUBSET CSCves], NEW budget
    PROVE  CSConsumed(rows, budget) \in 0 .. n
<1> DEFINE upto(k) == Cardinality(UNION {{<<j, c>> : c \in rows[j]} : j \in 1 .. k})
           full == {k \in DOMAIN rows : upto(k) >= budget}
<1>1. Len(rows) = n /\ DOMAIN rows = 1 .. n
  OBVIOUS
<1>2. CSConsumed(rows, budget) = IF full = {} THEN Len(rows) ELSE CHOOSE k \in full : \A l \in full : k <= l
  BY DEF CSConsumed
<1>3. full \subseteq 1 .. n
  BY <1>1
<1> HIDE DEF full
<1>4. full # {} => \E k \in full : \A l \in full : k <= l
  <2>1. full \subseteq Nat
    BY <1>3
  <2> QED
    BY <2>1, LeastExists
<1>5. CASE full = {}
  BY <1>1, <1>2, <1>5
<1>6. CASE full # {}
  <2> DEFINE least == CSConsumed(rows, budget)
  <2>1. least \in full
    BY <1>2, <1>4, <1>6
  <2> HIDE DEF least
  <2>2. least \in 0 .. n
    BY <1>3, <2>1
  <2> QED
    BY <2>2 DEF least
<1> QED
  BY <1>5, <1>6

\* A page keeps to the collection, the limits and the budget.
LEMMA CipReadsPage ==
    ASSUME CipTypes, CSPage
    PROVE  CipTypes'
<1> DEFINE t == Head(csQueue).target
           all == CSOccurrences[t]
           offset == csRead.offset
           limit == IF CSPageSize < CSMaxOccurrences - csRead.scanned
                      THEN CSPageSize ELSE CSMaxOccurrences - csRead.scanned
           size == IF offset >= Len(all) THEN 0
                   ELSE IF Len(all) - offset < limit THEN Len(all) - offset ELSE limit
           rows(lost) == [i \in 1 .. size |-> IF i \in lost THEN {} ELSE all[offset + i]]
           budget == Head(csQueue).budget - Cardinality(csRead.found)
           consumed(lost) == CSConsumed(rows(lost), budget)
           taken(lost) == CSTaken(t, offset, rows(lost), budget)
           found(lost) == csRead.found \cup taken(lost)
           scanned(lost) == csRead.scanned + consumed(lost)
           wraps(lost) == offset + consumed(lost) >= Len(all) \/ size < limit
           next(lost) == IF wraps(lost) THEN 0 ELSE offset + consumed(lost)
<1>1. PICK lost \in SUBSET (1 .. CSPageSize) :
        /\ IF lost = {} THEN UNCHANGED csFaults ELSE CSFault
        /\ IF wraps(lost) \/ scanned(lost) >= CSMaxOccurrences \/ Cardinality(found(lost)) >= Head(csQueue).budget
             THEN CSTargetEnds(next(lost), found(lost))
             ELSE /\ csRead' = [offset |-> next(lost), scanned |-> scanned(lost), found |-> found(lost)]
                  /\ UNCHANGED <<csQueue, csOffsets, csFound>>
  BY DEF CSPage
<1>2. csPc = "load" /\ csQueue # <<>> /\ UNCHANGED <<csRemote, csFiles, csPc, csAt, csFixed, csActions>>
  BY DEF CSPage
<1>3. /\ csQueue \in Seq([target : CSTargets, budget : Nat])
      /\ Head(csQueue) \in [target : CSTargets, budget : Nat]
      /\ t \in CSTargets
  <2> DEFINE R == [target : CSTargets, budget : Nat]
  <2>1. csQueue \in Seq(R)
    BY DEF CipTypes, CipBudgets
  <2>2. Head(csQueue) \in R
    <3> HIDE DEF R
    <3> QED
      BY <1>2, <2>1, HeadTailProperties
  <2>3. t \in CSTargets
    BY <2>2
  <2> QED
    BY <2>1, <2>2, <2>3
<1>4. all \in Seq(SUBSET CSCves) /\ Len(all) \in Nat
      /\ \A i \in 1 .. Len(all) : \A c \in all[i] : <<t, i, c>> \in CSCandidates
  <2> HIDE DEF t
  <2> QED
    BY <1>3, CipCollections
<1>5. /\ offset \in Nat /\ offset <= Len(all) /\ csRead.scanned \in 0 .. CSMaxOccurrences - 1
      /\ csRead.found \subseteq CSCandidates /\ IsFiniteSet(csRead.found)
      /\ Cardinality(csRead.found) <= Head(csQueue).budget
  BY <1>2 DEF CipTypes, CipReading
<1>6. Cardinality(csRead.found) \in Nat /\ budget \in Nat
  <2>1. Cardinality(csRead.found) \in Nat
    BY <1>5, FS_CardinalityType
  <2>2. Head(csQueue).budget \in Nat
    BY <1>3
  <2> QED
    BY <1>5, <2>1, <2>2
<1>7. limit \in Nat
  BY <1>5, CipAssumption
<1>8. size \in Nat /\ offset + size <= Len(all)
  <2> HIDE DEF limit, all, offset
  <2> QED
    BY <1>4, <1>5, <1>7
<1>9. rows(lost) \in [1 .. size -> SUBSET CSCves] /\ \A i \in 1 .. size : rows(lost)[i] \subseteq all[offset + i]
  <2>1. \A i \in 1 .. size : offset + i \in 1 .. Len(all)
    <3> HIDE DEF size, all, offset
    <3> QED
      BY <1>4, <1>5, <1>8
  <2>2. \A i \in 1 .. Len(all) : all[i] \subseteq CSCves
    <3> HIDE DEF all
    <3> QED
      BY <1>4
  <2> HIDE DEF size, all, offset
  <2> QED
    BY <2>1, <2>2
<1>10. consumed(lost) \in 0 .. size
  <2> HIDE DEF size, rows, budget
  <2> QED
    BY <1>8, <1>9, CipConsumes
<1>11. IsFiniteSet(taken(lost)) /\ Cardinality(taken(lost)) <= budget
  <2> HIDE DEF size, rows, budget, offset, t
  <2> QED
    BY <1>5, <1>6, <1>8, <1>9, <1>10, CipTakes
<1>12. taken(lost) \subseteq CSCandidates
  <2> DEFINE before(i) == Cardinality(UNION {{<<j, c>> : c \in rows(lost)[j]} : j \in 1 .. i - 1})
             some(i) == IF before(i) >= budget THEN {} ELSE CSFirst(rows(lost)[i], budget - before(i))
  <2>1. taken(lost) = UNION {{<<t, offset + i, c>> : c \in some(i)} : i \in 1 .. consumed(lost)}
    BY DEF CSTaken
  <2> SUFFICES ASSUME NEW e \in taken(lost) PROVE e \in CSCandidates
    OBVIOUS
  <2> HIDE DEF size, rows, offset, t, consumed, all, budget, before, taken, some
  <2>2. PICK i \in 1 .. consumed(lost) : e \in {<<t, offset + i, c>> : c \in some(i)}
    BY <2>1
  <2>3. PICK c \in some(i) : e = <<t, offset + i, c>>
    BY <2>2
  <2>4. c \in rows(lost)[i]
    BY <2>3 DEF some, CSFirst
  <2>5. i \in 1 .. size /\ offset + i \in 1 .. Len(all)
    BY <1>4, <1>5, <1>8, <1>10
  <2>6. c \in all[offset + i]
    BY <1>9, <2>4, <2>5
  <2> QED
    BY <1>4, <2>3, <2>5, <2>6
<1>13. found(lost) \in SUBSET CSCandidates /\ IsFiniteSet(found(lost)) /\ Cardinality(found(lost)) <= Head(csQueue).budget
       /\ Cardinality(found(lost)) \in Nat
  <2> HIDE DEF taken
  <2>1. /\ IsFiniteSet(found(lost))
        /\ Cardinality(found(lost)) = Cardinality(csRead.found) + Cardinality(taken(lost)) - Cardinality(csRead.found \cap taken(lost))
    BY <1>5, <1>11, FS_Union
  <2>2. IsFiniteSet(csRead.found \cap taken(lost))
    BY <1>5, FS_Subset
  <2>3. /\ Cardinality(taken(lost)) \in Nat /\ Cardinality(csRead.found \cap taken(lost)) \in Nat
        /\ Cardinality(found(lost)) \in Nat
    BY <1>11, <2>1, <2>2, FS_CardinalityType
  <2>4. Head(csQueue).budget \in Nat /\ found(lost) \in SUBSET CSCandidates
    BY <1>3, <1>5, <1>12
  <2> HIDE DEF found
  <2> QED
    BY <1>6, <1>11, <2>1, <2>3, <2>4
<1>14. next(lost) \in 0 .. Len(all) /\ scanned(lost) \in Nat
  <2> HIDE DEF consumed, size, all, offset, limit
  <2> QED
    BY <1>4, <1>5, <1>8, <1>10
<1>15. csFaults' \in 0 .. CSMaxFaults
  <2>1. csFaults \in 0 .. CSMaxFaults /\ CSMaxFaults \in Nat
    BY CipAssumption DEF CipTypes, CipFiles
  <2>2. csFaults' = csFaults \/ CSFault
    BY <1>1
  <2> QED
    BY <2>1, <2>2 DEF CSFault
<1> HIDE DEF t, all, offset, limit, size, rows, budget, consumed, taken, found, scanned, wraps, next
<1>16. CASE wraps(lost) \/ scanned(lost) >= CSMaxOccurrences \/ Cardinality(found(lost)) >= Head(csQueue).budget
  <2>1. CSTargetEnds(next(lost), found(lost))
    BY <1>1, <1>16
  <2>2. next(lost) \in 0 .. Len(CSOccurrences[Head(csQueue).target])
    BY <1>14 DEF all, t
  <2> QED
    BY <1>2, <1>13, <1>15, <2>1, <2>2, CipTargetEnds
<1>17. CASE ~ (wraps(lost) \/ scanned(lost) >= CSMaxOccurrences \/ Cardinality(found(lost)) >= Head(csQueue).budget)
  <2>1. /\ csRead' = [offset |-> next(lost), scanned |-> scanned(lost), found |-> found(lost)]
        /\ UNCHANGED <<csQueue, csOffsets, csFound>>
    BY <1>1, <1>17
  <2>2. scanned(lost) \in 0 .. CSMaxOccurrences - 1 /\ CSMaxOccurrences \in Nat
    BY <1>14, <1>17, CipAssumption
  <2>3. CipReading'
    <3>1. csRead' \in [offset : Nat, scanned : 0 .. CSMaxOccurrences - 1, found : SUBSET CSCandidates]
      BY <1>4, <1>13, <1>14, <2>1, <2>2
    <3>2. csQueue' # <<>> /\ csRead'.offset <= Len(CSOccurrences[Head(csQueue').target])
      BY <1>2, <1>4, <1>14, <2>1 DEF all, t
    <3>3. IsFiniteSet(csRead'.found) /\ Cardinality(csRead'.found) <= Head(csQueue').budget
      BY <1>13, <2>1
    <3> QED
      BY <3>1, <3>2, <3>3 DEF CipReading
  <2>4. CipFiles'
    BY <1>2, <1>15, <2>1 DEF CipTypes, CipFiles, csRemote, csFiles
  <2>5. CipBudgets'
    BY <1>2, <2>1 DEF CipTypes, CipBudgets, CipDone, CipWidth, CipShare, CipGiven
  <2> QED
    BY <2>3, <2>4, <2>5 DEF CipTypes
<1> QED
  BY <1>16, <1>17

\* What a run that is over leaves is what a new one begins with.
LEMMA CipRunsOver ==
    ASSUME CipTypes, CSRunOver, csFaults' \in 0 .. CSMaxFaults
    PROVE  CipTypes'
<1> USE DEF csRemote, csFiles
<1>1. CipFiles'
  <2>1. \A t \in CSTargets : Len(CSOccurrences[t]) \in Nat
    BY CipCollections
  <2>2. 1 \in DOMAIN CSFixedAt
    BY CipNumbers
  <2> QED
    BY <2>1, <2>2 DEF CSRunOver, CipTypes, CipFiles
<1>2. CipReading'
  BY CipAssumption, FS_EmptySet DEF CSRunOver, CipReading, NotRead
<1>3. CipBudgets'
  <2>1. Len(<<>>) = 0 /\ CipWidth \in Nat /\ <<>> \in Seq([target : CSTargets, budget : Nat])
    BY CipNumbers
  <2>2. CipGiven(CipWidth) \in Nat
    BY <2>1, CipShares
  <2>3. csQueue' = <<>> /\ csFound' = {}
    BY DEF CSRunOver
  <2>4. CipDone' = CipWidth
    BY <2>1, <2>3 DEF CipDone, CipWidth
  <2>5. IsFiniteSet({}) /\ Cardinality({}) = 0
    BY FS_EmptySet
  <2>6. Cardinality(csFound') <= CipGiven(CipDone')
    BY <2>2, <2>3, <2>4, <2>5
  <2>7. Len(csQueue') <= CipWidth /\ \A i \in 1 .. Len(csQueue') : csQueue'[i].budget = CipShare(CipDone' + i)
    BY <2>1, <2>3
  <2> QED
    BY <2>1, <2>3, <2>5, <2>6, <2>7 DEF CipBudgets, CipWidth, CipGiven, CipShare
<1> QED
  BY <1>1, <1>2, <1>3 DEF CipTypes

LEMMA CipTypesStep ==
    ASSUME CipTypes, [CipNext]_csVars
    PROVE  CipTypes'
<1> USE DEF csRemote, csFiles, csRun
<1>0. csFaults \in 0 .. CSMaxFaults /\ CSMaxFaults \in Nat
  BY CipAssumption DEF CipTypes, CipFiles
<1>1. ASSUME CipFiles', UNCHANGED <<csRead, csQueue, csFound, csPc>>
      PROVE  CipTypes'
  <2>1. CipReading'
    BY <1>1 DEF CipTypes, CipReading
  <2>2. CipBudgets'
    BY <1>1 DEF CipTypes, CipBudgets, CipDone, CipWidth, CipShare, CipGiven
  <2> QED
    BY <1>1, <2>1, <2>2 DEF CipTypes
<1>2. CASE UNCHANGED csVars
  <2>1. CipFiles'
    BY <1>2 DEF csVars, CipTypes, CipFiles
  <2> QED
    BY <1>1, <1>2, <2>1 DEF csVars
<1>3. CASE CSRevise
  <2>1. csRevision' \in DOMAIN CSFixedAt
    <3>1. csRevision \in 1 .. Len(CSFixedAt) /\ Len(CSFixedAt) \in Nat /\ DOMAIN CSFixedAt = 1 .. Len(CSFixedAt)
      BY CipNumbers DEF CipTypes, CipFiles
    <3>2. csRevision < Len(CSFixedAt) /\ csRevision' = csRevision + 1
      BY <1>3 DEF CSRevise
    <3> QED
      BY <3>1, <3>2
  <2>2. CipFiles'
    BY <1>3, <2>1 DEF CSRevise, CipTypes, CipFiles
  <2> QED
    BY <1>1, <1>3, <2>2 DEF CSRevise
<1>4. CASE CSDecide
  <2>1. csDecided' \subseteq CSCandidates
    BY <1>4 DEF CSDecide, CipTypes, CipFiles
  <2>2. CipFiles'
    BY <1>4, <2>1 DEF CSDecide, CipTypes, CipFiles
  <2> QED
    BY <1>1, <1>4, <2>2 DEF CSDecide
<1>5. CASE CSBegin
  <2>1. csQueue' = CSSchedule /\ csRead' = CSOpens(csQueue') /\ csFound' = {} /\ csOffsets' = csCursor /\ csPc' = "load"
    BY <1>5 DEF CSBegin
  <2>2. CipFiles /\ csNext \in 0 .. Len(CSOccurrences) - 1
    BY DEF CipTypes, CipFiles
  <2>3. CipFiles'
    BY <1>5 DEF CSBegin, CipTypes, CipFiles
  <2>4. /\ csQueue' \in Seq([target : CSTargets, budget : Nat]) /\ Len(csQueue') = CipWidth
        /\ \A i \in 1 .. CipWidth : csQueue'[i].budget = CipShare(i)
    BY <2>1, <2>2, CipSchedules
  <2>5. CipReading'
    BY <2>1, <2>2, <2>4, CipOpensWell DEF CipReading
  <2>6. CipWidth \in Nat
    BY CipNumbers
  <2>7. CipDone' = 0
    BY <2>4, <2>6 DEF CipDone, CipWidth
  <2>8. CipGiven(0) \in Nat /\ IsFiniteSet({}) /\ Cardinality({}) = 0
    BY CipShares, FS_EmptySet
  <2>9. CipBudgets'
    BY <2>1, <2>4, <2>6, <2>7, <2>8 DEF CipBudgets, CipWidth, CipGiven, CipShare
  <2> QED
    BY <2>3, <2>5, <2>9 DEF CipTypes
<1>6. CASE CSPage
  BY <1>6, CipReadsPage
<1>7. CASE CSPageFails
  <2>1. csPc = "load" /\ csQueue # <<>> /\ CSTargetEnds(csRead.offset, csRead.found)
    BY <1>7 DEF CSPageFails
  <2>2. csFaults' \in 0 .. CSMaxFaults
    BY <1>0, <1>7 DEF CSPageFails, CSFault
  <2>3. UNCHANGED <<csRemote, csFiles, csPc, csAt, csFixed, csActions>>
    BY <1>7 DEF CSPageFails
  <2>4. csQueue \in Seq([target : CSTargets, budget : Nat])
    BY DEF CipTypes, CipBudgets
  <2>5. Head(csQueue).target \in CSTargets
    <3> DEFINE R == [target : CSTargets, budget : Nat]
    <3>1. Head(csQueue) \in R
      <4>1. csQueue \in Seq(R)
        BY <2>4
      <4> HIDE DEF R
      <4> QED
        BY <2>1, <4>1, HeadTailProperties
    <3> QED
      BY <3>1
  <2>6. Len(CSOccurrences[Head(csQueue).target]) \in Nat
    BY <2>5, CipCollections
  <2>7. /\ csRead.offset \in 0 .. Len(CSOccurrences[Head(csQueue).target])
        /\ csRead.found \in SUBSET CSCandidates /\ IsFiniteSet(csRead.found)
        /\ Cardinality(csRead.found) <= Head(csQueue).budget
    BY <2>1, <2>6 DEF CipTypes, CipReading
  <2> QED
    BY <2>1, <2>2, <2>3, <2>7, CipTargetEnds
<1>8. CASE CSSavesCursors
  <2>1. csNext' \in 0 .. Len(CSOccurrences) - 1
    <3>1. csNext' = (csNext + Len(CSSchedule)) % Len(CSOccurrences)
      BY <1>8 DEF CSSavesCursors, CSNextStart
    <3>2. csNext \in Nat /\ Len(CSSchedule) \in Nat /\ Len(CSOccurrences) \in Nat \ {0}
      BY CipSchedules, CipNumbers DEF CipTypes, CipFiles
    <3>3. \A a \in Nat : \A b \in Nat \ {0} : a % b \in 0 .. b - 1
      OBVIOUS
    <3>4. csNext + Len(CSSchedule) \in Nat
      BY <3>2
    <3> QED
      BY <3>1, <3>2, <3>3, <3>4
  <2>2. CipFiles'
    BY <1>8, <2>1 DEF CSSavesCursors, CipTypes, CipFiles
  <2>3. CipReading'
    BY <1>8 DEF CSSavesCursors, CipTypes, CipReading
  <2>4. CipBudgets'
    BY <1>8 DEF CSSavesCursors, CipTypes, CipBudgets, CipDone, CipWidth, CipShare, CipGiven
  <2> QED
    BY <2>2, <2>3, <2>4 DEF CipTypes
<1>9. CASE CSAssess
  <2>1. csPc = "assess" /\ csPc' = "states" /\ csFixed' \subseteq csFound /\ (csFaults' = csFaults \/ CSFault)
    BY <1>9 DEF CSAssess
  <2>2. UNCHANGED <<csRemote, csCursor, csNext, csAt, csQueue, csRead, csOffsets, csFound, csActions>>
    BY <1>9 DEF CSAssess
  <2>3. csFaults' \in 0 .. CSMaxFaults
    BY <1>0, <2>1 DEF CSFault
  <2>4. csActions' = {}
    BY <2>1, <2>2 DEF CipTypes, CipFiles
  <2>5. CipFiles'
    BY <2>1, <2>2, <2>3, <2>4 DEF CipTypes, CipFiles
  <2>6. CipReading' /\ CipBudgets'
    BY <2>1, <2>2 DEF CipTypes, CipReading, CipBudgets, CipDone, CipWidth, CipShare, CipGiven
  <2> QED
    BY <2>5, <2>6 DEF CipTypes
<1>10. CASE CSReadStates
  <2>1. csPc = "states" /\ csPc' = "write" /\ csActions' \subseteq csFixed /\ (csFaults' = csFaults \/ CSFault)
    BY <1>10 DEF CSReadStates
  <2>2. UNCHANGED <<csRemote, csFiles, csAt, csQueue, csRead, csOffsets, csFound, csFixed>>
    BY <1>10 DEF CSReadStates
  <2>3. csFaults' \in 0 .. CSMaxFaults
    BY <1>0, <2>1 DEF CSFault
  <2>4. CipFiles'
    BY <2>1, <2>2, <2>3 DEF CipTypes, CipFiles
  <2>5. CipReading' /\ CipBudgets'
    BY <2>1, <2>2 DEF CipTypes, CipReading, CipBudgets, CipDone, CipWidth, CipShare, CipGiven
  <2> QED
    BY <2>4, <2>5 DEF CipTypes
<1>11. CASE CSWritesPlan
  BY <1>0, <1>11, CipRunsOver DEF CSWritesPlan
<1>12. CASE CSCrash
  <2>1. csFaults' \in 0 .. CSMaxFaults
    BY <1>0, <1>12 DEF CSCrash, CSFault
  <2> QED
    BY <1>12, <2>1, CipRunsOver DEF CSCrash
<1> QED
  BY <1>2, <1>3, <1>4, <1>5, <1>6, <1>7, <1>8, <1>9, <1>10, <1>11, <1>12 DEF CipNext, CSPlanning

(* A run plans no more candidates than --max-candidates-per-run allows, and *)
(* each cursor stays within its collection, whatever fails or dies.         *)
(* (candidate_budgets, load_target_candidates.)                             *)
THEOREM CipWellTyped == CipSpec => []CipTypeOK
<1>1. CipTypes => CipTypeOK
  <2> SUFFICES ASSUME CipTypes PROVE CipTypeOK
    OBVIOUS
  <2>1. \A t \in CSTargets : csCursor[t] \in 0 .. Len(CSOccurrences[t])
    <3>1. \A t \in CSTargets : Len(CSOccurrences[t]) \in Nat
      BY CipCollections
    <3> QED
      BY <3>1 DEF CipTypes, CipFiles
  <2>2. Len(csQueue) \in Nat /\ CipWidth \in 1 .. Len(CSOccurrences) /\ Len(CSOccurrences) \in Nat
    BY CipNumbers DEF CipTypes, CipBudgets
  <2>3. Len(csQueue) <= CipWidth /\ CipDone \in 0 .. CipWidth /\ CipWidth \in Nat
    BY <2>2 DEF CipTypes, CipBudgets, CipDone
  <2>4. Cardinality(csFound) \in Nat /\ Cardinality(csRead.found) \in Nat
    BY FS_CardinalityType DEF CipTypes, CipBudgets, CipReading
  <2>5. /\ CipGiven(CipDone) \in Nat /\ CSMaximum \in Nat
        /\ Cardinality(csFound) <= CipGiven(CipDone)
    BY <2>3, CipShares, CipAssumption DEF CipTypes, CipBudgets
  <2>6. Cardinality(csFound) + Cardinality(csRead.found) <= CSMaximum
    <3>1. CASE csQueue = <<>>
      <4>1. csRead.found = {}
        BY <3>1 DEF CipTypes, CipReading, NotRead
      <4>2. Cardinality(csRead.found) = 0
        BY <4>1, FS_EmptySet
      <4>3. CipGiven(CipDone) <= CSMaximum
        BY <2>3, CipShares
      <4> QED
        BY <2>4, <2>5, <4>2, <4>3
    <3>2. CASE csQueue # <<>>
      <4>1. Len(csQueue) >= 1
        BY <3>2 DEF CipTypes, CipBudgets
      <4>2. CipDone + 1 \in 0 .. CipWidth /\ CipDone \in Nat /\ CipDone + 1 \in Nat
        BY <2>2, <2>3, <4>1 DEF CipDone
      <4>3. csQueue[1].budget = CipShare(CipDone + 1) /\ Head(csQueue) = csQueue[1]
        BY <2>2, <4>1 DEF CipTypes, CipBudgets
      <4>4. Cardinality(csRead.found) <= CipShare(CipDone + 1)
        BY <3>2, <4>3 DEF CipTypes, CipReading
      <4>5. /\ CipGiven(CipDone + 1) = CipGiven(CipDone) + CipShare(CipDone + 1)
            /\ CipShare(CipDone + 1) \in Nat
        BY <4>2, CipShares
      <4>6. CipGiven(CipDone + 1) <= CSMaximum
        BY <4>2, CipShares
      <4> QED
        BY <2>4, <2>5, <4>4, <4>5, <4>6
    <3> QED
      BY <3>1, <3>2
  <2> QED
    BY <2>1, <2>2, <2>3, <2>6 DEF CipTypes, CipFiles, CipReading, CipTypeOK
<1> QED
  BY <1>1, CipInitTypes, CipTypesStep, PTL DEF CipSpec

-----------------------------------------------------------------------------
(* The parent discovery and its cache.                                     *)

\* Every change moves the update time of one version by one at most.
DiscoveryMarks == \A v \in DSVersions : dsMark[v] <= dsChanges + 1

DiscoveryInv == DiscoveryTypeOK /\ DiscoveryMarks

LEMMA DiscoveryAssumed ==
    /\ DSMaxFaults \in Nat /\ DSMaxChanges \in Nat
    /\ \A v \in DSVersions : \A b \in DSBoms[v] : b \subseteq DSVersions
    /\ NoEntry \in DSEntries /\ Reuse \in [stage : DSStages, rels : SUBSET DSVersions]
<1>1. DSMaxFaults \in Nat /\ DSMaxChanges \in Nat
  BY DiscoveryAssumption
<1>2. \A v \in DSVersions : \A b \in DSBoms[v] : b \subseteq DSVersions
  BY DiscoveryAssumption
<1>3. 0 \in 0 .. DSMaxChanges + 1
  BY <1>1
<1>4. NoEntry \in DSEntries
  BY <1>3 DEF NoEntry, DSEntries
<1>5. Reuse \in [stage : DSStages, rels : SUBSET DSVersions]
  BY DEF Reuse, DSStages
<1> QED
  BY <1>1, <1>2, <1>4, <1>5

LEMMA DiscoveryInitInv == DiscoveryInit => DiscoveryInv
<1> SUFFICES ASSUME DiscoveryInit PROVE DiscoveryInv
  OBVIOUS
<1> USE DiscoveryAssumed DEF DiscoveryInit
<1>1. /\ dsBom \in [DSVersions -> SUBSET DSVersions] /\ \A v \in DSVersions : dsBom[v] \in DSBoms[v]
  BY DiscoveryAssumption
<1>2. /\ 1 \in 1 .. DSMaxChanges + 1 /\ 0 \in 0 .. DSMaxChanges + 1 /\ 0 \in 0 .. DSMaxChanges
      /\ 0 \in 0 .. DSMaxFaults
  OBVIOUS
<1>3. dsMissed \in BOOLEAN
  BY Zenon
<1>4. DiscoveryTypeOK
  BY <1>1, <1>2, <1>3 DEF DiscoveryTypeOK
<1> QED
  BY <1>4 DEF DiscoveryInv, DiscoveryMarks

LEMMA DiscoveryFault ==
    ASSUME DiscoveryTypeOK, DSFault
    PROVE  dsFaults' \in 0 .. DSMaxFaults
  BY DiscoveryAssumed DEF DSFault, DiscoveryTypeOK

(* What Black Duck has at any time is one of the bills of materials. *)
LEMMA DiscoveryChanges ==
    ASSUME DiscoveryInv, DSChangeBom
    PROVE  DiscoveryInv'
<1> USE DiscoveryAssumed DEF DiscoveryInv, DiscoveryTypeOK
<1>1. PICK v \in DSVersions, moves \in BOOLEAN :
        /\ \E b \in DSBoms[v] \ {dsBom[v]} : dsBom' = [dsBom EXCEPT ![v] = b]
        /\ dsMark' = IF moves THEN [dsMark EXCEPT ![v] = @ + 1] ELSE dsMark
  BY DEF DSChangeBom
<1>2. /\ dsBom' \in [DSVersions -> SUBSET DSVersions] /\ \A u \in DSVersions : dsBom'[u] \in DSBoms[u]
  BY <1>1
<1>3. dsChanges' = dsChanges + 1 /\ dsChanges' \in 0 .. DSMaxChanges
  BY DEF DSChangeBom
<1>4. /\ dsMark' \in [DSVersions -> 1 .. DSMaxChanges + 1]
      /\ \A u \in DSVersions : dsMark'[u] <= dsChanges' + 1
  <2>1. CASE dsMark' = dsMark
    BY <1>3, <2>1 DEF DiscoveryMarks
  <2>2. CASE dsMark' = [dsMark EXCEPT ![v] = @ + 1]
    <3>1. \A u \in DSVersions : dsMark[u] \in 1 .. DSMaxChanges + 1 /\ dsMark[u] <= dsChanges + 1
      BY DEF DiscoveryMarks
    <3>2. dsMark[v] + 1 \in 1 .. DSMaxChanges + 1 /\ dsMark[v] + 1 <= dsChanges' + 1
      BY <1>3, <3>1
    <3> QED
      BY <1>3, <2>2, <3>1, <3>2
  <2> QED
    BY <1>1, <2>1, <2>2
<1>5. DiscoveryTypeOK'
  BY <1>2, <1>3, <1>4 DEF DSChangeBom
<1> QED
  BY <1>4, <1>5 DEF DiscoveryMarks

LEMMA DiscoveryAges ==
    ASSUME DiscoveryInv, DSAge
    PROVE  /\ DiscoveryInv'
           /\ \A v \in DSVersions : dsCache'[v].status = dsCache[v].status
<1> USE DiscoveryAssumed DEF DiscoveryInv, DiscoveryTypeOK
<1>1. ASSUME NEW v \in DSVersions
      PROVE  dsCache'[v] \in DSEntries /\ dsCache'[v].status = dsCache[v].status
  <2>1. CASE dsCache[v].status = "none"
    BY <2>1 DEF DSAge, NoEntry
  <2>2. CASE dsCache[v].status # "none"
    <3>1. dsCache'[v] = [dsCache[v] EXCEPT !.old = TRUE] /\ dsCache[v] \in DSEntries
      BY <2>2 DEF DSAge
    <3>2. dsCache'[v] \in DSEntries /\ dsCache'[v].status = dsCache[v].status
      BY <3>1 DEF DSEntries
    <3> QED
      BY <3>2
  <2> QED
    BY <2>1, <2>2
<1>2. dsCache' \in [DSVersions -> DSEntries]
  BY <1>1 DEF DSAge
<1> QED
  BY <1>1, <1>2 DEF DSAge, dsRemote, DiscoveryMarks

LEMMA DiscoveryInventories ==
    ASSUME DiscoveryInv, DSInventory
    PROVE  DiscoveryInv'
<1> USE DiscoveryAssumed DEF DiscoveryInv, DiscoveryTypeOK
<1>1. PICK lost : /\ dsIndex' = DSInventoryWithout(lost)
                  /\ dsMissed' = (lost # {})
                  /\ IF lost = {} THEN UNCHANGED dsFaults ELSE DSFault
  BY DEF DSInventory
<1>2. dsIndex' \in [DSVersions -> 0 .. DSMaxChanges + 1]
  <2>1. \A v \in DSVersions : dsMark[v] \in 0 .. DSMaxChanges + 1
    OBVIOUS
  <2>2. 0 \in 0 .. DSMaxChanges + 1
    OBVIOUS
  <2> QED
    BY <1>1, <2>1, <2>2 DEF DSInventoryWithout
<1>3. dsMissed' \in BOOLEAN
  BY <1>1, Zenon
<1>4. dsFaults' \in 0 .. DSMaxFaults
  BY <1>1, DiscoveryFault
<1>5. dsResult' \in [DSVersions -> [stage : DSStages, rels : SUBSET DSVersions]]
  <2>1. [stage |-> "todo", rels |-> {}] \in [stage : DSStages, rels : SUBSET DSVersions]
    BY DEF DSStages
  <2> QED
    BY <2>1 DEF DSInventory
<1> QED
  BY <1>2, <1>3, <1>4, <1>5 DEF DSInventory, dsRemote, DiscoveryMarks

LEMMA DiscoveryScans ==
    ASSUME DiscoveryInv, NEW v \in DSVersions, DSScan(v)
    PROVE  DiscoveryInv'
<1> USE DiscoveryAssumed DEF DiscoveryInv, DiscoveryTypeOK
<1> DEFINE results == [stage : DSStages, rels : SUBSET DSVersions]
<1>1. \A b \in SUBSET DSVersions, stage \in {"done", "failed"} :
        [dsResult EXCEPT ![v] = [stage |-> stage, rels |-> b]] \in [DSVersions -> results]
  BY DEF DSStages
<1>2. dsBom[v] \subseteq DSVersions
  OBVIOUS
<1>3. dsResult' \in [DSVersions -> results]
  <2>1. PICK b \in SUBSET DSVersions, stage \in {"done", "failed"} :
          dsResult' = [dsResult EXCEPT ![v] = [stage |-> stage, rels |-> b]]
    <3>1. \A lost : dsBom[v] \ lost \in SUBSET DSVersions
      BY <1>2
    <3>2. {} \in SUBSET DSVersions
      OBVIOUS
    <3> QED
      BY <1>2, <3>1, <3>2 DEF DSScan
  <2> HIDE DEF results
  <2> QED
    BY <1>1, <2>1
<1>4. dsMissed' \in BOOLEAN
  BY Zenon DEF DSScan
<1>5. dsFaults' \in 0 .. DSMaxFaults
  BY DiscoveryFault DEF DSScan
<1> QED
  BY <1>3, <1>4, <1>5 DEF DSScan, dsRemote, DiscoveryMarks

LEMMA DiscoveryFinishes ==
    ASSUME DiscoveryInv, DSFinish
    PROVE  DiscoveryInv'
<1> USE DiscoveryAssumed DEF DiscoveryInv, DiscoveryTypeOK
<1>1. ASSUME NEW v \in DSVersions
      PROVE  DSEntryAfter(v) \in DSEntries
  <2>1. /\ dsIndex[v] \in 0 .. DSMaxChanges + 1 /\ dsResult[v].rels \subseteq DSVersions
        /\ dsCache[v] \in DSEntries /\ dsCache[v].rels \subseteq DSVersions
    BY DEF DSEntries
  <2> QED
    BY <2>1 DEF DSEntryAfter, DSEntries
<1>2. dsCache' \in [DSVersions -> DSEntries]
  BY <1>1 DEF DSFinish
<1> QED
  BY <1>2 DEF DSFinish, dsRemote, DiscoveryMarks

(* Nothing of a run that ends is kept. *)
LEMMA DiscoveryEnds ==
    ASSUME DiscoveryInv, dsFaults' \in 0 .. DSMaxFaults,
           dsPc' = "idle", dsResult' = [v \in DSVersions |-> Reuse],
           UNCHANGED <<dsRemote, dsCache, dsIndex, dsRows, dsMissed>>
    PROVE  DiscoveryInv'
  BY DiscoveryAssumed DEF DiscoveryInv, DiscoveryTypeOK, dsRemote, DiscoveryMarks

LEMMA DiscoveryStays ==
    ASSUME DiscoveryInv, dsFaults' \in 0 .. DSMaxFaults,
           UNCHANGED <<dsRemote, dsCache, dsPc, dsIndex, dsResult, dsRows, dsMissed>>
    PROVE  DiscoveryInv'
  BY DEF DiscoveryInv, DiscoveryTypeOK, dsRemote, DiscoveryMarks

LEMMA DiscoveryInvStep ==
    ASSUME DiscoveryInv, [DiscoveryNext]_dsVars
    PROVE  DiscoveryInv'
<1>1. CASE DSStops
  BY <1>1, DiscoveryFault, DiscoveryEnds DEF DSStops, DiscoveryInv
<1>2. CASE UNCHANGED dsVars
  BY <1>2, DiscoveryStays DEF dsVars, DiscoveryInv, DiscoveryTypeOK
<1> QED
  BY <1>1, <1>2, DiscoveryChanges, DiscoveryAges, DiscoveryInventories, DiscoveryScans, DiscoveryFinishes
  DEF DiscoveryNext, DSRun

-----------------------------------------------------------------------------
(* The pipeline run: runs overlap, the lock keeps them apart.              *)

\* Only the run that holds the lock is at work, and the parent discovery
\* is its own.
WorkflowExclusive ==
  /\ pwPc \in [PWRuns -> PWStages] /\ pwLock \in PWRuns \cup {0}
  /\ \A r \in PWRuns : pwPc[r] \in PWHolding => pwLock = r

\* The run that promotes has copied the files before the one at hand.
WorkflowCopied ==
  /\ pwActive \in [1 .. Len(PWNames) -> PWRuns \cup {0}]
  /\ \A r \in PWRuns, k \in 1 .. Len(PWNames) :
       pwPc[r] = PWPromoting[k] => \A i \in 1 .. k - 1 : pwActive[i] = r

WorkflowInv == WorkflowExclusive /\ WorkflowCopied /\ ActiveFromOneRun

WorkflowVetted == {"rollup", "vet", "plan", "publish"}

\* The failed scans in the cache were counted, and strict runs go on past
\* the vetting only without a failure.
WorkflowCounted ==
  \A r \in PWRuns :
    /\ pwPc[r] \in WorkflowVetted /\ PWScanFailures => pwGaps[r]
    /\ pwPc[r] \in {"plan", "publish"} /\ pwArgs[r].strict => ~pwGaps[r]

\* The discovery is what a run at work on the parents does.
WorkflowScanning == dsPc = "scan" => pwLock # 0 /\ pwPc[pwLock] = "parents"

WorkflowStrictInv ==
  /\ DiscoveryInv /\ WorkflowExclusive /\ WorkflowScanning
  /\ pwArgs \in [PWRuns -> PWArgs] /\ pwGaps \in [PWRuns -> BOOLEAN]
  /\ WorkflowCounted

LEMMA WorkflowNames ==
    /\ Len(PWNames) = 4
    /\ PWPromoting[1] = "promote1" /\ PWPromoting[2] = "promote2" /\ PWPromoting[3] = "promote3"
    /\ PWPromoting[4] = "promote4" /\ PWPromoting[5] = "finish"
    /\ \A k \in 1 .. 5 : PWPromoting[k] \in PWHolding
    /\ PWHolding \subseteq PWStages
  BY DEF PWNames, PWPromoting, PWHolding, PWStages

LEMMA WorkflowInitInv == WorkflowInit => WorkflowInv /\ WorkflowStrictInv
<1> SUFFICES ASSUME WorkflowInit PROVE WorkflowInv /\ WorkflowStrictInv
  OBVIOUS
<1>1. /\ pwPc \in [PWRuns -> PWStages] /\ \A r \in PWRuns : pwPc[r] = "none"
      /\ pwLock \in PWRuns \cup {0}
      /\ pwActive \in [1 .. Len(PWNames) -> PWRuns \cup {0}]
      /\ \A i \in 1 .. Len(PWNames) : pwActive[i] = 0
  BY DEF WorkflowInit, PWStages
<1>2. pwGaps \in [PWRuns -> BOOLEAN]
  BY Zenon DEF WorkflowInit
<1>3. \A k \in 1 .. 4 : PWPromoting[k] # "none"
  BY WorkflowNames DEF PWHolding
<1> QED
  BY <1>1, <1>2, <1>3, WorkflowNames, DiscoveryInitInv
  DEF WorkflowInit, DiscoveryInit, WorkflowInv, WorkflowStrictInv, WorkflowExclusive, WorkflowCopied,
      ActiveFromOneRun, WorkflowCounted, WorkflowScanning, WorkflowVetted, PWHolding

(* One run moves; it holds the lock if it comes to work or is at work.     *)
LEMMA WorkflowMoves ==
    ASSUME WorkflowExclusive, NEW r \in PWRuns, PWNext(r)
    PROVE  WorkflowExclusive'
<1> USE DEF WorkflowExclusive, PWGoto, PWLeave, PWSave, PWHolding, PWStages, pwVars, pwShared
<1>1. CASE PWStart(r) \/ PWLockedOut(r)
  BY <1>1 DEF PWStart, PWLockedOut
<1>2. CASE PWEnter(r)
  <2>1. \A q \in PWRuns : pwPc[q] \notin PWHolding
    BY <1>2, WorkflowAssumption DEF PWEnter, PWFree
  <2>2. /\ pwPc' = [pwPc EXCEPT ![r] = "preflight"] /\ pwLock' = r
    BY <1>2 DEF PWEnter
  <2> QED
    BY <2>1, <2>2
<1>3. CASE PWPreflight(r) \/ PWDiscovers(r) \/ PWDiscovered(r)
  BY <1>3 DEF PWPreflight, PWDiscovers, PWDiscovered
<1>4. CASE PWCountsRows(r) \/ PWCollects(r) \/ PWVets(r) \/ PWPlans(r)
  BY <1>4 DEF PWCountsRows, PWRowsOrLeave, PWCollects, PWVets, PWPlans
<1>5. CASE PWPublishes(r) \/ PWPublishFails(r) \/ PWFinishes(r) \/ PWPrunes(r)
  BY <1>5 DEF PWPublishes, PWPublishFails, PWFinishes, PWPrunes
<1>6. CASE PWPromotes(r)
  <2>1. PICK i \in 1 .. 4 : /\ pwPc[r] = PWPromoting[i] /\ pwLock' = pwLock
                            /\ pwPc' = [pwPc EXCEPT ![r] = PWPromoting[i + 1]]
    BY <1>6, WorkflowNames DEF PWPromotes
  <2>2. PWPromoting[i] \in PWHolding /\ PWPromoting[i + 1] \in PWStages
    BY <2>1, WorkflowNames
  <2> QED
    BY <2>1, <2>2
<1>7. CASE PWFails(r) \/ PWRecords(r) \/ PWDies(r)
  BY <1>7 DEF PWFails, PWRecords, PWDies
<1> QED
  BY <1>1, <1>2, <1>3, <1>4, <1>5, <1>6, <1>7 DEF PWNext

(* The discovery, its inventory and the world leave the runs alone. *)
LEMMA WorkflowQuiet ==
    ASSUME UNCHANGED <<pwPc, pwLock>>, WorkflowExclusive
    PROVE  WorkflowExclusive'
  BY DEF WorkflowExclusive

LEMMA WorkflowExclusiveStep ==
    ASSUME WorkflowExclusive, [WorkflowNext]_<<dsVars, pwVars>>
    PROVE  WorkflowExclusive'
<1>1. CASE PWWorld \/ UNCHANGED <<dsVars, pwVars>>
  BY <1>1, WorkflowQuiet DEF PWWorld, pwVars, pwShared
<1>2. CASE \E r \in PWRuns : PWNext(r)
  BY <1>2, WorkflowMoves
<1> QED
  BY <1>1, <1>2 DEF WorkflowNext

(* Only a promotion changes the active files. *)
LEMMA WorkflowCopies ==
    ASSUME WorkflowInv, NEW r \in PWRuns, PWPromotes(r)
    PROVE  WorkflowCopied' /\ ActiveFromOneRun'
<1> USE WorkflowNames DEF WorkflowInv, WorkflowExclusive, WorkflowCopied, PWGoto
<1>1. PICK k \in 1 .. 4 :
        /\ pwPc[r] = PWPromoting[k] /\ pwActive' = [pwActive EXCEPT ![k] = r]
        /\ pwPc' = [pwPc EXCEPT ![r] = PWPromoting[k + 1]]
  BY DEF PWPromotes
<1>2. pwPc[r] \in PWHolding /\ \A i \in 1 .. k - 1 : pwActive[i] = r
  BY <1>1
<1>3. \A q \in PWRuns \ {r} : pwPc'[q] = pwPc[q] /\ pwPc[q] \notin PWHolding
  BY <1>1, <1>2
<1>4. pwPc'[r] = PWPromoting[k + 1] /\ \A i \in 1 .. k : pwActive'[i] = r
  BY <1>1, <1>2
<1>5. \A i, j \in 1 .. 5 : PWPromoting[i] = PWPromoting[j] => i = j
  BY DEF PWPromoting
<1>6. WorkflowCopied'
  <2>1. pwActive' \in [1 .. Len(PWNames) -> PWRuns \cup {0}]
    BY <1>1
  <2>2. ASSUME NEW q \in PWRuns, NEW j \in 1 .. 4, pwPc'[q] = PWPromoting[j]
        PROVE  \A i \in 1 .. j - 1 : pwActive'[i] = q
    <3>1. q = r
      BY <1>3, <2>2
    <3>2. j = k + 1
      BY <1>4, <1>5, <2>2, <3>1
    <3> QED
      BY <1>4, <3>1, <3>2
  <2> QED
    BY <2>1, <2>2
<1>7. ActiveFromOneRun'
  <2>1. CASE k = 4
    <3>1. \A i, j \in 1 .. Len(PWNames) : pwActive'[i] = pwActive'[j]
      BY <1>4, <2>1
    <3> QED
      BY <3>1 DEF ActiveFromOneRun
  <2>2. CASE k # 4
    <3>1. pwPc'[r] \in {"promote2", "promote3", "promote4"}
      BY <1>4, <2>2
    <3> QED
      BY <3>1 DEF ActiveFromOneRun
  <2> QED
    BY <2>1, <2>2
<1> QED
  BY <1>6, <1>7

WorkflowPromotes == {"promote2", "promote3", "promote4"}

(* Every other step of a run leaves the files alone, and no run leaves its *)
(* promotion without saying that it was cut short.                         *)
LEMMA WorkflowLeads ==
    ASSUME WorkflowExclusive, NEW r \in PWRuns, PWNext(r), ~PWPromotes(r)
    PROVE  /\ pwActive' = pwActive /\ (pwTorn => pwTorn')
           /\ \A q \in PWRuns :
                \/ pwPc'[q] = pwPc[q]
                \/ /\ pwPc'[q] \notin {"finish"} \cup WorkflowPromotes
                   /\ pwPc[q] \in WorkflowPromotes => pwTorn'
<1> USE DEF PWGoto, PWLeave, PWSave, WorkflowPromotes, WorkflowExclusive, pwVars, pwShared
<1>1. CASE PWStart(r) \/ PWLockedOut(r) \/ PWEnter(r)
  BY <1>1 DEF PWStart, PWLockedOut, PWEnter
<1>2. CASE PWPreflight(r) \/ PWDiscovers(r) \/ PWDiscovered(r)
  BY <1>2 DEF PWPreflight, PWDiscovers, PWDiscovered
<1>3. CASE PWCountsRows(r) \/ PWCollects(r) \/ PWVets(r) \/ PWPlans(r)
  BY <1>3 DEF PWCountsRows, PWRowsOrLeave, PWCollects, PWVets, PWPlans
<1>4. CASE PWPublishes(r) \/ PWPublishFails(r) \/ PWFinishes(r) \/ PWPrunes(r)
  BY <1>4 DEF PWPublishes, PWPublishFails, PWFinishes, PWPrunes
<1>5. CASE PWFails(r)
  <2>1. /\ pwPc' = [pwPc EXCEPT ![r] = "failed"] /\ pwActive' = pwActive
        /\ pwTorn' = (pwTorn \/ pwPc[r] \in {"promote2", "promote3", "promote4"})
    BY <1>5 DEF PWFails
  <2>2. (pwTorn => pwTorn') /\ (pwPc[r] \in {"promote2", "promote3", "promote4"} => pwTorn')
    BY <2>1, Zenon
  <2> QED
    BY <2>1, <2>2
<1>6. CASE PWRecords(r)
  BY <1>6 DEF PWRecords
<1>7. CASE PWDies(r)
  <2>1. /\ pwPc' = [pwPc EXCEPT ![r] = "dead"] /\ pwActive' = pwActive
        /\ pwTorn' = (pwTorn \/ pwPc[r] \in {"promote2", "promote3", "promote4"})
    BY <1>7 DEF PWDies
  <2>2. (pwTorn => pwTorn') /\ (pwPc[r] \in {"promote2", "promote3", "promote4"} => pwTorn')
    BY <2>1, Zenon
  <2> QED
    BY <2>1, <2>2
<1> QED
  BY <1>1, <1>2, <1>3, <1>4, <1>5, <1>6, <1>7 DEF PWNext

LEMMA WorkflowOthers ==
    ASSUME WorkflowInv, NEW r \in PWRuns, PWNext(r), ~PWPromotes(r)
    PROVE  WorkflowCopied' /\ ActiveFromOneRun'
<1>1. pwActive' = pwActive /\ (pwTorn => pwTorn')
  BY WorkflowLeads DEF WorkflowInv
<1>2. ASSUME NEW q \in PWRuns
      PROVE  \/ pwPc'[q] = pwPc[q]
             \/ /\ pwPc'[q] \notin {"finish"} \cup WorkflowPromotes
                /\ pwPc[q] \in WorkflowPromotes => pwTorn'
  BY WorkflowLeads DEF WorkflowInv
<1>3. WorkflowCopied'
  <2>1. ASSUME NEW q \in PWRuns, NEW j \in 1 .. 4, pwPc'[q] = PWPromoting[j]
        PROVE  \A i \in 1 .. j - 1 : pwActive'[i] = q
    <3>1. CASE j = 1
      BY <3>1
    <3>2. CASE j # 1
      <4>1. pwPc'[q] \in WorkflowPromotes
        BY <2>1, <3>2, WorkflowNames DEF WorkflowPromotes
      <4>2. pwPc[q] = PWPromoting[j]
        BY <1>2, <2>1, <4>1
      <4> QED
        BY <1>1, <4>2, WorkflowNames DEF WorkflowInv, WorkflowCopied
    <3> QED
      BY <3>1, <3>2
  <2> QED
    BY <1>1, <2>1, WorkflowNames DEF WorkflowInv, WorkflowCopied
<1>4. ActiveFromOneRun'
  BY <1>1, <1>2 DEF WorkflowInv, ActiveFromOneRun, WorkflowPromotes
<1> QED
  BY <1>3, <1>4

LEMMA WorkflowInvStep ==
    ASSUME WorkflowInv, [WorkflowNext]_<<dsVars, pwVars>>
    PROVE  WorkflowInv'
<1>1. WorkflowExclusive'
  BY WorkflowExclusiveStep DEF WorkflowInv
<1>2. CASE PWWorld \/ UNCHANGED <<dsVars, pwVars>>
  BY <1>1, <1>2 DEF PWWorld, pwVars, pwShared, WorkflowInv, WorkflowCopied, ActiveFromOneRun
<1>3. CASE \E r \in PWRuns : PWNext(r)
  BY <1>1, <1>3, WorkflowCopies, WorkflowOthers DEF WorkflowInv
<1> QED
  BY <1>2, <1>3 DEF WorkflowNext

(* Two pipeline runs never mix their active files (promote_outputs), for   *)
(* any number of runs, though every file is replaced on its own and runs   *)
(* overlap, fail and die anywhere.                                         *)
THEOREM ActiveNeverMixed == WorkflowSpec => []ActiveFromOneRun
<1>1. WorkflowInit => WorkflowInv
  BY WorkflowInitInv
<1>2. WorkflowInv /\ [WorkflowNext]_<<dsVars, pwVars>> => WorkflowInv'
  BY WorkflowInvStep
<1>3. WorkflowInv => ActiveFromOneRun
  BY DEF WorkflowInv
<1> QED
  BY <1>1, <1>2, <1>3, PTL DEF WorkflowSpec

-----------------------------------------------------------------------------
(* What strict mode vets.                                                  *)

(* What is discovered stands while its run goes on: the days that pass     *)
(* fail no scan.                                                           *)
LEMMA WorkflowWorld ==
    ASSUME WorkflowStrictInv, PWWorld
    PROVE  DiscoveryInv' /\ (PWScanFailures' => PWScanFailures)
<1>1. CASE DSChangeBom
  BY <1>1, DiscoveryChanges DEF DSChangeBom, WorkflowStrictInv, PWScanFailures
<1>2. CASE DSAge
  BY <1>2, DiscoveryAges DEF WorkflowStrictInv, PWScanFailures
<1> QED
  BY <1>1, <1>2 DEF PWWorld

\* What the steps of the runs change of the discovery.
LEMMA WorkflowScans ==
    ASSUME WorkflowStrictInv, NEW r \in PWRuns, PWNext(r)
    PROVE  /\ DiscoveryInv'
           /\ \/ dsCache' = dsCache
              \/ pwPc[r] = "parents" /\ pwPc' = [pwPc EXCEPT ![r] = "rows"]
<1> USE DEF WorkflowStrictInv, PWGoto
<1>1. CASE PWDiscovers(r)
  BY <1>1, DiscoveryInventories, DiscoveryScans DEF PWDiscovers, DSInventory, DSScan
<1>2. CASE PWDiscovered(r)
  BY <1>2, DiscoveryFinishes DEF PWDiscovered
<1>3. CASE PWCollects(r) \/ PWPublishFails(r)
  BY <1>3, DiscoveryFault, DiscoveryStays
  DEF PWCollects, PWPublishFails, DiscoveryInv, DiscoveryTypeOK
<1>4. CASE PWFails(r) \/ PWDies(r)
  BY <1>4, DiscoveryFault, DiscoveryEnds DEF PWFails, PWDies, DiscoveryInv
<1>5. ASSUME UNCHANGED dsVars
      PROVE  DiscoveryInv' /\ dsCache' = dsCache
  BY <1>5, DiscoveryStays DEF dsVars, DiscoveryInv, DiscoveryTypeOK
<1>6. CASE PWStart(r) \/ PWEnter(r) \/ PWLockedOut(r) \/ PWPreflight(r)
  BY <1>5, <1>6 DEF PWStart, PWEnter, PWLockedOut, PWPreflight
<1>7. CASE PWCountsRows(r) \/ PWVets(r) \/ PWPlans(r) \/ PWPublishes(r)
  BY <1>5, <1>7 DEF PWCountsRows, PWVets, PWPlans, PWPublishes
<1>8. CASE PWPromotes(r) \/ PWFinishes(r) \/ PWPrunes(r) \/ PWRecords(r)
  BY <1>5, <1>8 DEF PWPromotes, PWFinishes, PWPrunes, PWRecords
<1> QED
  BY <1>1, <1>2, <1>3, <1>4, <1>6, <1>7, <1>8 DEF PWNext

\* A scan is under way only while its run looks for the parents.
LEMMA WorkflowScanningStep ==
    ASSUME WorkflowStrictInv, NEW r \in PWRuns, PWNext(r)
    PROVE  WorkflowScanning'
<1> USE DEF WorkflowStrictInv, WorkflowScanning, WorkflowExclusive, PWGoto, PWLeave, PWSave, PWHolding,
            PWStages
<1>1. r # 0
  BY WorkflowAssumption
<1>2. ASSUME UNCHANGED dsPc, pwPc[r] # "parents", pwPc' = [pwPc EXCEPT ![r] = pwPc'[r]],
             pwLock' = pwLock \/ pwPc[r] \in PWHolding \ {"parents"}
      PROVE  WorkflowScanning'
  BY <1>1, <1>2
<1>3. CASE PWDiscovers(r)
  BY <1>1, <1>3 DEF PWDiscovers, pwVars, pwShared
<1>4. CASE PWDiscovered(r) \/ PWFails(r) \/ PWDies(r)
  BY <1>4 DEF PWDiscovered, DSFinish, PWFails, PWDies
<1>5. CASE PWEnter(r)
  BY <1>1, <1>5 DEF PWEnter, PWFree, dsVars
<1>6. CASE PWStart(r) \/ PWLockedOut(r) \/ PWPreflight(r)
  BY <1>2, <1>6 DEF PWStart, PWLockedOut, PWPreflight, dsVars, pwShared
<1>7. CASE PWCountsRows(r) \/ PWCollects(r) \/ PWVets(r) \/ PWPlans(r)
  BY <1>2, <1>7 DEF PWCountsRows, PWRowsOrLeave, PWCollects, PWVets, PWPlans, dsVars
<1>8. CASE PWPublishes(r) \/ PWPublishFails(r) \/ PWFinishes(r) \/ PWPrunes(r) \/ PWRecords(r)
  BY <1>2, <1>8 DEF PWPublishes, PWPublishFails, PWFinishes, PWPrunes, PWRecords, dsVars
<1>9. CASE PWPromotes(r)
  BY <1>1, <1>9, WorkflowNames DEF PWPromotes, PWPromoting, dsVars
<1> QED
  BY <1>3, <1>4, <1>5, <1>6, <1>7, <1>8, <1>9 DEF PWNext

\* What a run counted, and what it does with it.
LEMMA WorkflowCounts ==
    ASSUME WorkflowStrictInv, NEW r \in PWRuns, PWNext(r)
    PROVE  /\ pwArgs' = pwArgs /\ pwGaps' \in [PWRuns -> BOOLEAN]
           /\ \A q \in PWRuns \ {r} : pwPc'[q] = pwPc[q] /\ pwGaps'[q] = pwGaps[q]
           /\ \/ pwPc'[r] \notin WorkflowVetted
              \/ pwPc[r] = "rows" /\ pwPc'[r] = "rollup" /\ pwGaps'[r] = PWScanFailures
              \/ pwPc[r] = "rollup" /\ pwPc'[r] = "vet" /\ (pwGaps[r] => pwGaps'[r])
              \/ /\ pwPc[r] = "vet" /\ pwPc'[r] = "plan" /\ pwGaps'[r] = pwGaps[r]
                 /\ ~(pwGaps[r] /\ pwArgs[r].strict)
              \/ pwPc[r] = "plan" /\ pwPc'[r] = "publish" /\ pwGaps'[r] = pwGaps[r]
<1> USE DEF WorkflowStrictInv, WorkflowExclusive, WorkflowVetted, PWGoto, PWLeave, PWSave
<1>1. CASE PWStart(r) \/ PWEnter(r) \/ PWLockedOut(r) \/ PWPreflight(r)
  BY <1>1 DEF PWStart, PWEnter, PWLockedOut, PWPreflight
<1>2. CASE PWDiscovers(r)
  <2>1. pwPc[r] = "parents" /\ pwPc' = pwPc /\ pwGaps' = pwGaps /\ pwArgs' = pwArgs
    BY <1>2 DEF PWDiscovers, pwVars
  <2> QED
    BY <2>1
<1>3. CASE PWDiscovered(r)
  BY <1>3 DEF PWDiscovered
<1>4. CASE PWCountsRows(r)
  <2>1. /\ pwPc[r] = "rows" /\ pwArgs' = pwArgs
        /\ pwPc' = [pwPc EXCEPT ![r] = "rejected"] \/ pwPc' = [pwPc EXCEPT ![r] = "rollup"]
        /\ pwGaps' = [pwGaps EXCEPT ![r] = PWScanFailures]
    BY <1>4 DEF PWCountsRows, PWRowsOrLeave
  <2>2. PWScanFailures \in BOOLEAN
    BY DEF PWScanFailures
  <2>3. pwGaps' \in [PWRuns -> BOOLEAN]
    BY <2>1, <2>2, Zenon
  <2>4. pwGaps'[r] = PWScanFailures
    BY <2>1, Zenon
  <2> QED
    BY <2>1, <2>3, <2>4
<1>5. CASE PWCollects(r)
  <2>1. /\ pwPc[r] = "rollup" /\ pwArgs' = pwArgs
        /\ pwPc' = [pwPc EXCEPT ![r] = "rejected"] \/ pwPc' = [pwPc EXCEPT ![r] = "vet"]
        /\ pwGaps' = pwGaps \/ pwGaps' = [pwGaps EXCEPT ![r] = TRUE]
    BY <1>5 DEF PWCollects
  <2>2. pwGaps' \in [PWRuns -> BOOLEAN]
    BY <2>1, Zenon
  <2>3. pwGaps[r] => pwGaps'[r]
    BY <2>1, Zenon
  <2> QED
    BY <2>1, <2>2, <2>3
<1>6. CASE PWVets(r)
  BY <1>6 DEF PWVets
<1>7. CASE PWPlans(r)
  BY <1>7 DEF PWPlans
<1>8. CASE PWPublishes(r) \/ PWPublishFails(r) \/ PWFinishes(r) \/ PWPrunes(r) \/ PWRecords(r)
  BY <1>8 DEF PWPublishes, PWPublishFails, PWFinishes, PWPrunes, PWRecords
<1>9. CASE PWPromotes(r)
  <2>1. PICK i \in 1 .. 4 : /\ pwPc' = [pwPc EXCEPT ![r] = PWPromoting[i + 1]]
                            /\ pwGaps' = pwGaps /\ pwArgs' = pwArgs
    BY <1>9, WorkflowNames DEF PWPromotes
  <2>2. PWPromoting[i + 1] \notin WorkflowVetted
    BY WorkflowNames
  <2> QED
    BY <2>1, <2>2
<1>10. CASE PWFails(r) \/ PWDies(r)
  BY <1>10 DEF PWFails, PWDies
<1> QED
  BY <1>1, <1>2, <1>3, <1>4, <1>5, <1>6, <1>7, <1>8, <1>9, <1>10 DEF PWNext

\* No run that is past its count meets the discovery of another one.
LEMMA WorkflowCountedStep ==
    ASSUME WorkflowStrictInv, NEW r \in PWRuns, PWNext(r)
    PROVE  WorkflowCounted'
<1>1. \A q \in PWRuns : pwPc[q] \in WorkflowVetted /\ pwPc[r] \in PWHolding => q = r
  BY DEF WorkflowStrictInv, WorkflowExclusive, WorkflowVetted, PWHolding, PWStages
<1>2. ASSUME NEW q \in PWRuns, pwPc'[q] \in WorkflowVetted
      PROVE  PWScanFailures' = PWScanFailures
  <2>1. CASE dsCache' = dsCache
    BY <2>1 DEF PWScanFailures
  <2>2. CASE pwPc[r] = "parents" /\ pwPc' = [pwPc EXCEPT ![r] = "rows"]
    <3>1. pwPc[r] \in PWHolding
      BY <2>2 DEF PWHolding, PWStages
    <3>2. q # r /\ pwPc[q] \in WorkflowVetted
      BY <1>2, <2>2 DEF WorkflowStrictInv, WorkflowExclusive, WorkflowVetted
    <3> QED
      BY <1>1, <3>1, <3>2
  <2> QED
    BY <2>1, <2>2, WorkflowScans
<1>3. ASSUME NEW q \in PWRuns, pwPc'[q] \in WorkflowVetted, PWScanFailures'
      PROVE  pwGaps'[q]
  BY <1>2, <1>3, WorkflowCounts DEF WorkflowStrictInv, WorkflowCounted, WorkflowVetted
<1>4. ASSUME NEW q \in PWRuns, pwPc'[q] \in {"plan", "publish"}, pwArgs'[q].strict
      PROVE  ~pwGaps'[q]
  BY <1>4, WorkflowCounts DEF WorkflowStrictInv, WorkflowCounted, WorkflowVetted
<1> QED
  BY <1>3, <1>4 DEF WorkflowCounted

LEMMA WorkflowStrictInvStep ==
    ASSUME WorkflowStrictInv, [WorkflowNext]_<<dsVars, pwVars>>
    PROVE  WorkflowStrictInv'
<1>1. WorkflowExclusive'
  BY WorkflowExclusiveStep DEF WorkflowStrictInv
<1>2. CASE PWWorld
  <2>1. WorkflowCounted'
    BY <1>2, WorkflowWorld DEF PWWorld, pwVars, WorkflowStrictInv, WorkflowCounted
  <2>2. WorkflowScanning'
    BY <1>2 DEF PWWorld, pwVars, pwShared, DSChangeBom, DSAge, WorkflowStrictInv, WorkflowScanning
  <2> QED
    BY <1>1, <1>2, <2>1, <2>2, WorkflowWorld DEF PWWorld, pwVars, WorkflowStrictInv
<1>3. CASE \E r \in PWRuns : PWNext(r)
  BY <1>1, <1>3, WorkflowScans, WorkflowScanningStep, WorkflowCounts, WorkflowCountedStep
  DEF WorkflowStrictInv
<1>4. CASE UNCHANGED <<dsVars, pwVars>>
  <2>1. DiscoveryInv'
    BY <1>4, DiscoveryStays DEF dsVars, WorkflowStrictInv, DiscoveryInv, DiscoveryTypeOK
  <2> QED
    BY <1>1, <1>4, <2>1
    DEF dsVars, pwVars, pwShared, WorkflowStrictInv, WorkflowScanning, WorkflowCounted, PWScanFailures
<1> QED
  BY <1>2, <1>3, <1>4 DEF WorkflowNext

LEMMA WorkflowPublishesVetted ==
    ASSUME WorkflowStrictInv, [WorkflowNext]_<<dsVars, pwVars>>,
           NEW r \in PWRuns, r \in pwPublished' \ pwPublished, pwArgs[r].strict
    PROVE  ~pwGaps[r] /\ ~PWScanFailures
<1>1. ASSUME NEW q \in PWRuns, PWNext(q)
      PROVE  q = r /\ pwPc[r] = "publish"
  <2> USE DEF PWLeave, PWSave, pwVars, pwShared
  <2>1. CASE PWStart(q) \/ PWEnter(q) \/ PWLockedOut(q) \/ PWPreflight(q)
    BY <2>1 DEF PWStart, PWEnter, PWLockedOut, PWPreflight
  <2>2. CASE PWDiscovers(q) \/ PWDiscovered(q) \/ PWCountsRows(q) \/ PWCollects(q)
    BY <2>2 DEF PWDiscovers, PWDiscovered, PWCountsRows, PWRowsOrLeave, PWCollects
  <2>3. CASE PWVets(q) \/ PWPlans(q) \/ PWPromotes(q) \/ PWFinishes(q) \/ PWPrunes(q)
    BY <2>3 DEF PWVets, PWPlans, PWPromotes, PWFinishes, PWPrunes
  <2>4. CASE PWFails(q) \/ PWRecords(q) \/ PWDies(q)
    BY <2>4 DEF PWFails, PWRecords, PWDies
  <2>5. CASE PWPublishes(q) \/ PWPublishFails(q)
    BY <2>5 DEF PWPublishes, PWPublishFails
  <2> QED
    BY <1>1, <2>1, <2>2, <2>3, <2>4, <2>5 DEF PWNext
<1>2. ~PWWorld /\ ~UNCHANGED <<dsVars, pwVars>>
  BY DEF PWWorld, pwVars, pwShared
<1>3. pwPc[r] = "publish"
  BY <1>1, <1>2 DEF WorkflowNext
<1> QED
  BY <1>3 DEF WorkflowStrictInv, WorkflowCounted, WorkflowVetted

(* Strict mode publishes what it vetted (run_pipeline), for any number of  *)
(* overlapping runs over one cache: what the run counted is still so when  *)
(* it applies its plan to Jira.                                            *)
THEOREM StrictRunsVetted == WorkflowSpec => StrictPublishesVetted
<1>1. WorkflowInit => WorkflowStrictInv
  BY WorkflowInitInv
<1>2. WorkflowStrictInv /\ [WorkflowNext]_<<dsVars, pwVars>> => WorkflowStrictInv'
  BY WorkflowStrictInvStep
<1>3. WorkflowStrictInv /\ [WorkflowNext]_<<dsVars, pwVars>> =>
        [\A r \in PWRuns : r \in pwPublished' \ pwPublished /\ pwArgs[r].strict =>
           ~pwGaps[r] /\ ~PWScanFailures]_<<dsVars, pwVars>>
  BY WorkflowPublishesVetted
<1> QED
  BY <1>1, <1>2, <1>3, PTL DEF WorkflowSpec, StrictPublishesVetted

PWStatuses == {"none", "running", "succeeded", "partial", "skipped_publish", "failed"}

\* The directories, the summary and the record of what was published.
WorkflowOutputs ==
  /\ pwDirs \subseteq PWRuns /\ pwTorn \in BOOLEAN /\ pwPublished \subseteq PWRuns
  /\ pwSummary \in [run : PWRuns \cup {0}, status : PWStatuses]

LEMMA WorkflowInitOutputs == WorkflowInit => WorkflowOutputs
<1> SUFFICES ASSUME WorkflowInit PROVE WorkflowOutputs
  OBVIOUS
<1>1. pwTorn \in BOOLEAN
  BY Zenon DEF WorkflowInit
<1> QED
  BY <1>1 DEF WorkflowInit, WorkflowOutputs, PWStatuses

LEMMA WorkflowTornStep ==
    ASSUME WorkflowExclusive, pwTorn \in BOOLEAN, NEW r \in PWRuns, PWNext(r)
    PROVE  pwTorn' \in BOOLEAN
<1> USE DEF PWGoto, PWLeave, PWSave, pwVars, pwShared
<1>1. CASE PWStart(r) \/ PWLockedOut(r) \/ PWEnter(r) \/ PWPreflight(r) \/ PWDiscovers(r) \/ PWDiscovered(r)
  BY <1>1 DEF PWStart, PWLockedOut, PWEnter, PWPreflight, PWDiscovers, PWDiscovered
<1>2. CASE PWCountsRows(r) \/ PWCollects(r) \/ PWVets(r) \/ PWPlans(r)
  BY <1>2 DEF PWCountsRows, PWCollects, PWVets, PWPlans
<1>3. CASE PWPublishes(r) \/ PWPublishFails(r) \/ PWFinishes(r) \/ PWPrunes(r) \/ PWRecords(r)
  BY <1>3 DEF PWPublishes, PWPublishFails, PWFinishes, PWPrunes, PWRecords
<1>4. CASE PWFails(r) \/ PWDies(r)
  <2>1. pwTorn' = (pwTorn \/ pwPc[r] \in {"promote2", "promote3", "promote4"})
    BY <1>4 DEF PWFails, PWDies
  <2> QED
    BY <2>1, Zenon
<1>5. CASE PWPromotes(r)
  <2>1. pwTorn' = FALSE \/ pwTorn' = pwTorn
    BY <1>5 DEF PWPromotes
  <2> QED
    BY <2>1, Zenon
<1> QED
  BY <1>1, <1>2, <1>3, <1>4, <1>5 DEF PWNext

LEMMA WorkflowOutputsStep ==
    ASSUME WorkflowExclusive, WorkflowOutputs, NEW r \in PWRuns, PWNext(r)
    PROVE  WorkflowOutputs'
<1> USE DEF PWGoto, PWLeave, pwVars, pwShared
<1> DEFINE Summaries == [run : PWRuns \cup {0}, status : PWStatuses]
           Kept == pwDirs' = pwDirs /\ pwSummary' = pwSummary
           Saved == /\ pwDirs' = pwDirs \cup {r}
                    /\ \E s \in PWStatuses : pwSummary' = [run |-> r, status |-> s]
           Published == pwPublished' \in {pwPublished, pwPublished \cup {r}}
<1>1. ASSUME NEW s \in PWStatuses, PWSave(r, s)
      PROVE  Saved
  BY <1>1 DEF PWSave
<1>2. CASE PWStart(r) \/ PWDiscovered(r)
  <2>1. pwDirs' = pwDirs \cup {r} /\ pwSummary' = pwSummary /\ Published
    BY <1>2 DEF PWStart, PWDiscovered
  <2> QED
    BY <2>1, WorkflowTornStep DEF WorkflowOutputs
<1>3. CASE PWLockedOut(r) \/ PWEnter(r) \/ PWDiscovers(r) \/ PWFails(r) \/ PWDies(r)
  <2>1. Kept /\ Published
    BY <1>3 DEF PWLockedOut, PWEnter, PWDiscovers, PWFails, PWDies
  <2> QED
    BY <2>1, WorkflowTornStep DEF WorkflowOutputs
<1>4. CASE PWPublishes(r) \/ PWPublishFails(r) \/ PWPromotes(r)
  <2>1. Kept /\ Published
    BY <1>4 DEF PWPublishes, PWPublishFails, PWPromotes
  <2> QED
    BY <2>1, WorkflowTornStep DEF WorkflowOutputs
<1>5. CASE PWPrunes(r)
  <2>1. pwDirs' \subseteq pwDirs /\ pwSummary' = pwSummary /\ Published
    BY <1>5 DEF PWPrunes
  <2> QED
    BY <2>1, WorkflowTornStep DEF WorkflowOutputs
<1>6. CASE PWPreflight(r) \/ PWFinishes(r) \/ PWRecords(r)
  <2>1. \E s \in PWStatuses : PWSave(r, s)
    BY <1>6 DEF PWPreflight, PWFinishes, PWRecords, PWStatuses
  <2>2. Published
    BY <1>6 DEF PWPreflight, PWFinishes, PWRecords
  <2> QED
    BY <1>1, <2>1, <2>2, WorkflowTornStep DEF WorkflowOutputs
<1>7. CASE PWCountsRows(r) \/ PWCollects(r) \/ PWVets(r) \/ PWPlans(r)
  <2>1. Kept \/ \E s \in PWStatuses : PWSave(r, s)
    BY <1>7 DEF PWCountsRows, PWRowsOrLeave, PWCollects, PWVets, PWPlans, PWStatuses
  <2>2. Published
    BY <1>7 DEF PWCountsRows, PWRowsOrLeave, PWCollects, PWVets, PWPlans, PWSave
  <2> QED
    BY <1>1, <2>1, <2>2, WorkflowTornStep DEF WorkflowOutputs
<1> QED
  BY <1>2, <1>3, <1>4, <1>5, <1>6, <1>7 DEF PWNext

(* Whatever runs overlap, fail or die, a run that took the lock and has not *)
(* left it is its one holder, and the discovery it drives keeps its types.  *)
(* (run_pipeline, FileLock.)                                                *)
THEOREM WorkflowWellTyped == WorkflowSpec => []WorkflowTypeOK
<1>1. WorkflowInit => WorkflowInv /\ WorkflowStrictInv /\ WorkflowOutputs
  BY WorkflowInitInv, WorkflowInitOutputs
<1>2. WorkflowInv /\ [WorkflowNext]_<<dsVars, pwVars>> => WorkflowInv'
  BY WorkflowInvStep
<1>3. WorkflowStrictInv /\ [WorkflowNext]_<<dsVars, pwVars>> => WorkflowStrictInv'
  BY WorkflowStrictInvStep
<1>4. WorkflowInv /\ WorkflowOutputs /\ [WorkflowNext]_<<dsVars, pwVars>> => WorkflowOutputs'
  <2>1. CASE PWWorld \/ UNCHANGED <<dsVars, pwVars>>
    BY <2>1 DEF PWWorld, pwVars, pwShared, WorkflowOutputs
  <2> QED
    BY <2>1, WorkflowOutputsStep DEF WorkflowNext, WorkflowInv
<1>5. WorkflowInv /\ WorkflowStrictInv /\ WorkflowOutputs => WorkflowTypeOK
  BY DEF WorkflowInv, WorkflowExclusive, WorkflowCopied, WorkflowStrictInv, DiscoveryInv, WorkflowOutputs,
         WorkflowTypeOK, PWStatuses
<1> QED
  BY <1>1, <1>2, <1>3, <1>4, <1>5, PTL DEF WorkflowSpec

-----------------------------------------------------------------------------
(* The shared cache of reads.                                              *)

CacheEntries(s) == {s[i] : i \in DOMAIN s}

\* What is left without u: the entries before its place, and those after.
LEMMA WithoutShape ==
    ASSUME NEW s \in Seq(RCUrls), NEW u \in RCUrls, \E i \in DOMAIN s : s[i] = u
    PROVE  \E at \in 1..Len(s) :
             /\ s[at] = u /\ RCWithout(s, u) \in Seq(RCUrls) /\ Len(RCWithout(s, u)) = Len(s) - 1
             /\ \A i \in 1..(Len(s) - 1) : RCWithout(s, u)[i] = IF i < at THEN s[i] ELSE s[i + 1]
<1> DEFINE at == CHOOSE i \in DOMAIN s : s[i] = u
<1>1. at \in DOMAIN s /\ s[at] = u
  OBVIOUS
<1> HIDE DEF at
<1>2. at \in 1..Len(s) /\ Len(s) \in Nat /\ DOMAIN s = 1..Len(s) /\ s[at] = u
  BY <1>1
<1> DEFINE front == SubSeq(s, 1, at - 1)
           back == SubSeq(s, at + 1, Len(s))
<1>3. /\ front \in Seq(RCUrls) /\ Len(front) = at - 1
      /\ \A i \in 1..Len(front) : front[i] = s[i]
  BY <1>2
<1>4. /\ back \in Seq(RCUrls) /\ Len(back) = Len(s) - at
      /\ \A i \in 1..Len(back) : back[i] = s[at + i]
  <2>1. at + 1 \in Int /\ Len(s) \in Int /\ \A i \in (at + 1)..Len(s) : s[i] \in RCUrls
    BY <1>2
  <2>2. /\ back \in Seq(RCUrls) /\ Len(back) = IF at + 1 <= Len(s) THEN Len(s) - (at + 1) + 1 ELSE 0
        /\ \A i \in 1..(Len(s) - (at + 1) + 1) : back[i] = s[at + 1 + i - 1]
    BY <2>1, SubSeqProperties
  <2> QED
    <3> HIDE DEF back
    <3>1. Len(back) = Len(s) - at
      <4>1. Len(back) = IF at + 1 <= Len(s) THEN Len(s) - (at + 1) + 1 ELSE 0
        BY <2>2
      <4>2. CASE at + 1 <= Len(s)
        BY <1>2, <4>1, <4>2
      <4>3. CASE ~(at + 1 <= Len(s))
        <5>1. at \in Nat /\ Len(s) \in Nat /\ at <= Len(s)
          BY <1>2
        <5>2. Len(s) - at = 0
          BY <4>3, <5>1
        <5> QED
          BY <4>1, <4>3, <5>2
      <4> QED
        BY <4>2, <4>3
    <3>2. ASSUME NEW i \in 1..Len(back) PROVE back[i] = s[at + i]
      <4>1. at + 1 + i - 1 = at + i /\ i \in 1..(Len(s) - (at + 1) + 1)
        BY <1>2, <3>1
      <4>2. back[i] = s[at + 1 + i - 1]
        BY <2>2, <4>1
      <4> QED
        BY <4>1, <4>2
    <3> QED
      BY <2>2, <3>1, <3>2
<1> HIDE DEF front, back
<1>5. /\ front \o back \in Seq(RCUrls) /\ Len(front \o back) = Len(front) + Len(back)
      /\ \A i \in 1..(Len(front) + Len(back)) :
           (front \o back)[i] = IF i <= Len(front) THEN front[i] ELSE back[i - Len(front)]
  BY <1>3, <1>4, ConcatProperties
<1>6. RCWithout(s, u) = front \o back
  BY DEF RCWithout, front, back, at
<1>7. Len(front) + Len(back) = Len(s) - 1
  BY <1>2, <1>3, <1>4
<1>8. ASSUME NEW i \in 1..(Len(s) - 1)
      PROVE  (front \o back)[i] = IF i < at THEN s[i] ELSE s[i + 1]
  <2>1. (front \o back)[i] = IF i <= Len(front) THEN front[i] ELSE back[i - Len(front)]
    BY <1>5, <1>7
  <2>2. CASE i < at
    <3>1. i \in 1..Len(front)
      BY <1>2, <1>3, <2>2
    <3> QED
      BY <1>3, <2>1, <2>2, <3>1
  <2>3. CASE ~(i < at)
    <3>1. ~(i <= Len(front)) /\ i - Len(front) \in 1..Len(back) /\ at + (i - Len(front)) = i + 1
      BY <1>2, <1>3, <1>4, <2>3
    <3>2. back[i - Len(front)] = s[at + (i - Len(front))]
      BY <1>4, <3>1
    <3> QED
      BY <2>1, <2>3, <3>1, <3>2
  <2> QED
    BY <2>2, <2>3
<1> QED
  BY <1>2, <1>5, <1>6, <1>7, <1>8

LEMMA WithoutEntries ==
    ASSUME NEW s \in Seq(RCUrls), NEW u \in RCUrls
    PROVE  RCWithout(s, u) \in Seq(RCUrls) /\ CacheEntries(RCWithout(s, u)) \subseteq CacheEntries(s)
<1>1. CASE \A i \in DOMAIN s : s[i] # u
  BY <1>1 DEF RCWithout
<1>2. CASE \E i \in DOMAIN s : s[i] = u
  <2> DEFINE w == RCWithout(s, u)
  <2>1. PICK at \in 1..Len(s) :
          /\ w \in Seq(RCUrls) /\ Len(w) = Len(s) - 1
          /\ \A i \in 1..(Len(s) - 1) : w[i] = IF i < at THEN s[i] ELSE s[i + 1]
    BY <1>2, WithoutShape
  <2> HIDE DEF w
  <2>2. \A i \in DOMAIN w : \E j \in DOMAIN s : w[i] = s[j]
    <3> SUFFICES ASSUME NEW i \in DOMAIN w PROVE \E j \in DOMAIN s : w[i] = s[j]
      OBVIOUS
    <3>1. i \in 1..(Len(s) - 1) /\ i \in 1..Len(s) /\ i + 1 \in 1..Len(s) /\ DOMAIN s = 1..Len(s)
      BY <2>1
    <3> QED
      BY <2>1, <3>1
  <2>3. CacheEntries(w) \subseteq CacheEntries(s)
    BY <2>2 DEF CacheEntries
  <2> QED
    BY <2>1, <2>3 DEF w
<1> QED
  BY <1>1, <1>2

(* The uses of the cache bring in what is used and nothing else. *)
LEMMA TouchEntries ==
    ASSUME NEW s \in Seq(RCUrls), NEW u \in RCUrls
    PROVE  RCTouch(s, u) \in Seq(RCUrls) /\ CacheEntries(RCTouch(s, u)) \subseteq CacheEntries(s) \cup {u}
<1> DEFINE w == RCWithout(s, u)
<1>1. w \in Seq(RCUrls) /\ CacheEntries(w) \subseteq CacheEntries(s)
  BY WithoutEntries
<1> HIDE DEF w
<1>2. /\ Append(w, u) \in Seq(RCUrls) /\ DOMAIN Append(w, u) = 1..(Len(w) + 1)
      /\ \A i \in 1..(Len(w) + 1) : Append(w, u)[i] = IF i <= Len(w) THEN w[i] ELSE u
  BY <1>1
<1>3. \A i \in DOMAIN Append(w, u) : Append(w, u)[i] \in CacheEntries(w) \cup {u}
  BY <1>1, <1>2 DEF CacheEntries
<1>4. CacheEntries(Append(w, u)) \subseteq CacheEntries(w) \cup {u}
  BY <1>3 DEF CacheEntries
<1> QED
  BY <1>1, <1>2, <1>4 DEF RCTouch, w

LEMMA PrunedEntries ==
    ASSUME NEW s \in Seq(RCUrls)
    PROVE  RCPruned(s) \in Seq(RCUrls) /\ CacheEntries(RCPruned(s)) \subseteq CacheEntries(s)
<1> DEFINE first == Len(s) - RCMaxEntries + 1
           rest == SubSeq(s, first, Len(s))
<1>1. CASE Len(s) <= RCMaxEntries
  BY <1>1 DEF RCPruned
<1>2. CASE ~(Len(s) <= RCMaxEntries)
  <2>1. Len(s) \in Nat /\ first \in 1..(Len(s) + 1) /\ first <= Len(s) + 1
    BY <1>2, ReadCacheAssumption
  <2>2. /\ rest \in Seq(RCUrls) /\ Len(rest) = Len(s) - first + 1
        /\ \A i \in 1..Len(rest) : rest[i] = s[first + i - 1]
    <3> HIDE DEF first
    <3> QED
      BY <2>1
  <2>3. \A i \in DOMAIN rest : rest[i] \in CacheEntries(s)
    <3> HIDE DEF first, rest
    <3> QED
      BY SMTT(30), <2>1, <2>2 DEF CacheEntries
  <2> QED
    BY <1>2, <2>2, <2>3 DEF RCPruned, CacheEntries
<1> QED
  BY <1>1, <1>2

\* No collection has two entries.
OnceEach(s) == \A i, j \in DOMAIN s : s[i] = s[j] => i = j

LEMMA OnceCounted ==
    ASSUME NEW s \in Seq(RCUrls), OnceEach(s)
    PROVE  Cardinality(CacheEntries(s)) = Len(s)
<1>1. Len(s) \in Nat /\ DOMAIN s = 1..Len(s) /\ s = [i \in 1..Len(s) |-> s[i]]
  OBVIOUS
<1>2. s \in Bijection(1..Len(s), CacheEntries(s))
  BY <1>1 DEF OnceEach, CacheEntries, Bijection, Injection, Surjection, IsInjective
<1>3. IsFiniteSet(1..Len(s)) /\ Cardinality(1..Len(s)) = Len(s)
  <2>1. \A n \in Nat : IsFiniteSet(1..n) /\ Cardinality(1..n) = n
    BY FS_Interval
  <2> QED
    BY <1>1, <2>1
<1> DEFINE entries == CacheEntries(s)
<1>4. Cardinality(1..Len(s)) = Cardinality(entries)
  <2>1. s \in Bijection(1..Len(s), entries)
    BY <1>2
  <2> HIDE DEF entries
  <2> QED
    BY <1>3, <2>1, FS_Bijection DEF ExistsBijection
<1> QED
  BY <1>3, <1>4

LEMMA WithoutOnce ==
    ASSUME NEW s \in Seq(RCUrls), NEW u \in RCUrls, OnceEach(s)
    PROVE  /\ OnceEach(RCWithout(s, u)) /\ u \notin CacheEntries(RCWithout(s, u))
           /\ Len(RCWithout(s, u)) = IF u \in CacheEntries(s) THEN Len(s) - 1 ELSE Len(s)
<1>1. CASE \A i \in DOMAIN s : s[i] # u
  BY <1>1 DEF RCWithout, CacheEntries
<1>2. CASE \E i \in DOMAIN s : s[i] = u
  <2> DEFINE w == RCWithout(s, u)
  <2>1. PICK at \in 1..Len(s) :
          /\ s[at] = u /\ w \in Seq(RCUrls) /\ Len(w) = Len(s) - 1
          /\ \A i \in 1..(Len(s) - 1) : w[i] = IF i < at THEN s[i] ELSE s[i + 1]
    BY <1>2, WithoutShape
  <2> HIDE DEF w
  <2> DEFINE from(i) == IF i < at THEN i ELSE i + 1
  <2>2. DOMAIN w = 1..(Len(s) - 1) /\ DOMAIN s = 1..Len(s) /\ Len(s) \in Nat
    BY <2>1
  <2>3. \A i \in 1..(Len(s) - 1) : w[i] = s[from(i)] /\ from(i) \in 1..Len(s) /\ from(i) # at
    BY <2>1, <2>2
  <2>4. \A i, j \in 1..(Len(s) - 1) : from(i) = from(j) => i = j
    BY <2>2
  <2> HIDE DEF from
  <2>5. OnceEach(w)
    BY <2>2, <2>3, <2>4 DEF OnceEach
  <2>6. \A i \in DOMAIN w : w[i] # u
    BY <2>1, <2>2, <2>3 DEF OnceEach
  <2> QED
    BY <1>2, <2>1, <2>5, <2>6 DEF CacheEntries, w
<1> QED
  BY <1>1, <1>2

LEMMA TouchOnce ==
    ASSUME NEW s \in Seq(RCUrls), NEW u \in RCUrls, OnceEach(s)
    PROVE  /\ OnceEach(RCTouch(s, u))
           /\ u \in CacheEntries(s) => Len(RCTouch(s, u)) = Len(s)
<1> DEFINE w == RCWithout(s, u)
<1>1. /\ w \in Seq(RCUrls) /\ OnceEach(w) /\ u \notin CacheEntries(w) /\ Len(s) \in Nat
      /\ u \in CacheEntries(s) => Len(w) = Len(s) - 1
  BY WithoutEntries, WithoutOnce
<1> HIDE DEF w
<1>2. /\ DOMAIN Append(w, u) = 1..(Len(w) + 1) /\ Len(Append(w, u)) = Len(w) + 1 /\ Len(w) \in Nat
      /\ \A i \in 1..(Len(w) + 1) : Append(w, u)[i] = IF i <= Len(w) THEN w[i] ELSE u
  BY <1>1
<1>3. \A i \in 1..Len(w) : w[i] # u
  BY <1>1 DEF CacheEntries
<1>4. OnceEach(Append(w, u))
  <2> SUFFICES ASSUME NEW i \in 1..(Len(w) + 1), NEW j \in 1..(Len(w) + 1),
                      Append(w, u)[i] = Append(w, u)[j]
               PROVE  i = j
    BY <1>2 DEF OnceEach
  <2>1. CASE i <= Len(w) /\ j <= Len(w)
    <3>1. i \in DOMAIN w /\ j \in DOMAIN w /\ w[i] = w[j]
      BY <1>1, <1>2, <2>1
    <3> QED
      BY <1>1, <3>1 DEF OnceEach
  <2>2. CASE ~(i <= Len(w) /\ j <= Len(w))
    BY <1>2, <1>3, <2>2
  <2> QED
    BY <2>1, <2>2
<1> QED
  BY <1>1, <1>2, <1>4 DEF RCTouch, w

LEMMA PrunedOnce ==
    ASSUME NEW s \in Seq(RCUrls), OnceEach(s)
    PROVE  OnceEach(RCPruned(s)) /\ Len(RCPruned(s)) <= RCMaxEntries
<1> DEFINE first == Len(s) - RCMaxEntries + 1
           rest == SubSeq(s, first, Len(s))
<1>1. CASE Len(s) <= RCMaxEntries
  BY <1>1 DEF RCPruned
<1>2. CASE ~(Len(s) <= RCMaxEntries)
  <2>1. /\ Len(s) \in Nat /\ first \in 1..(Len(s) + 1) /\ first <= Len(s) + 1
        /\ Len(s) - first + 1 = RCMaxEntries
    BY <1>2, ReadCacheAssumption
  <2>2. /\ rest \in Seq(RCUrls) /\ Len(rest) = Len(s) - first + 1
        /\ \A i \in 1..Len(rest) : rest[i] = s[first + i - 1]
    <3> HIDE DEF first
    <3> QED
      BY <2>1
  <2> HIDE DEF first, rest
  <2>3. DOMAIN rest = 1..Len(rest) /\ DOMAIN s = 1..Len(s)
    BY <2>2
  <2>4. \A i \in 1..Len(rest) : first + i - 1 \in DOMAIN s
    BY <2>1, <2>2, <2>3
  <2>5. ASSUME NEW i \in 1..Len(rest), NEW j \in 1..Len(rest), rest[i] = rest[j] PROVE i = j
    <3>1. first + i - 1 = first + j - 1
      BY <2>2, <2>4, <2>5 DEF OnceEach
    <3> QED
      BY <2>1, <3>1
  <2> QED
    BY <1>2, <2>1, <2>2, <2>3, <2>5, ReadCacheAssumption DEF RCPruned, rest, first, OnceEach
<1> QED
  BY <1>1, <1>2

-----------------------------------------------------------------------------
RCPcs == {"idle", "ask", "join", "again", "load", "put", "answer", "raise",
          "clean", "cleanRaise", "wait", "done", "failed"}

\* A worker leads a flight until it has removed it.
RCLeads(r) == rcPc[r] \in {"again", "load", "put", "answer", "raise", "clean", "cleanRaise"}

CacheTypes ==
  /\ rcFresh \in Seq(RCUrls) /\ rcFile \in Seq(RCUrls)
  /\ rcPc \in [RCReaders -> RCPcs] /\ rcUrl \in [RCReaders -> RCUrls]
  /\ rcPending \in [RCUrls -> RCReaders \cup {NoReader}]

\* The flight of a collection is that of its leader, and who loads has looked.
CacheFlights ==
  /\ \A r \in RCReaders : RCLeads(r) => rcPending[rcUrl[r]] = r
  /\ \A r \in RCReaders : rcPc[r] = "load" => rcUrl[r] \notin RCCached

CacheInv == CacheTypes /\ CacheFlights

LEMMA CacheFlightsSuffice == CacheInv => CacheLoadsOnlyWhatIsMissing
  BY DEF CacheInv, CacheFlights, CacheLoadsOnlyWhatIsMissing, RCLeads

LEMMA CacheInitInv == ReadCacheInit => CacheInv
<1> SUFFICES ASSUME ReadCacheInit PROVE CacheInv
  OBVIOUS
<1>1. (CHOOSE u \in RCUrls : TRUE) \in RCUrls
  BY ReadCacheAssumption
<1> HIDE DEF CacheInv
<1>2. CacheTypes
  BY <1>1 DEF ReadCacheInit, CacheTypes, RCPcs
<1>3. CacheFlights
  BY DEF ReadCacheInit, CacheFlights, RCLeads
<1> QED
  BY <1>2, <1>3 DEF CacheInv

\* Of the workers only r moves, the rest at most hear of its flight.
OthersStay(r) ==
  \A q \in RCReaders \ {r} :
    rcUrl'[q] = rcUrl[q] /\ (RCLeads(q)' <=> RCLeads(q)) /\ (rcPc'[q] = "load" <=> rcPc[q] = "load")

(* A worker goes on, and the cache gains nothing but what it leads a       *)
(* flight for.                                                             *)
LEMMA CacheGoesOn ==
    ASSUME CacheInv, CacheTypes', NEW r \in RCReaders, OthersStay(r),
           UNCHANGED rcPending,
           RCLeads(r)' => rcUrl'[r] = rcUrl[r] /\ RCLeads(r),
           rcPc'[r] = "load" => rcUrl'[r] \notin RCCached',
           CacheEntries(rcFresh') \subseteq CacheEntries(rcFresh) \/
             (RCLeads(r) /\ CacheEntries(rcFresh') \subseteq CacheEntries(rcFresh) \cup {rcUrl[r]})
    PROVE  CacheInv'
<1> USE DEF CacheInv, CacheFlights, OthersStay
<1>1. ASSUME NEW q \in RCReaders, RCLeads(q)'
      PROVE  rcPending'[rcUrl'[q]] = q
  <2>1. RCLeads(q) /\ rcUrl'[q] = rcUrl[q]
    BY <1>1
  <2> QED
    BY <2>1
<1>2. ASSUME NEW q \in RCReaders, rcPc'[q] = "load"
      PROVE  rcUrl'[q] \notin RCCached'
  <2>1. CASE q # r
    <3>1. rcPc[q] = "load" /\ rcUrl'[q] = rcUrl[q] /\ rcUrl[q] \notin CacheEntries(rcFresh)
      BY <1>2, <2>1 DEF RCCached, CacheEntries
    <3>2. RCLeads(r) => rcUrl[q] # rcUrl[r]
      BY <2>1, <3>1 DEF RCLeads
    <3> QED
      BY <3>1, <3>2 DEF RCCached, CacheEntries
  <2> QED
    BY <1>2, <2>1
<1> QED
  BY <1>1, <1>2

(* A lookup answers from what is cached, and reorders it. *)
LEMMA LooksUpKeeps ==
    ASSUME CacheTypes, NEW r \in RCReaders, NEW next \in RCPcs, RCLooksUp(r, next)
    PROVE  /\ rcFresh' \in Seq(RCUrls) /\ CacheEntries(rcFresh') \subseteq CacheEntries(rcFresh)
           /\ \/ rcPc' = [rcPc EXCEPT ![r] = next] /\ rcUrl[r] \notin RCCached /\ rcFresh' = rcFresh
              \/ rcPc' = [rcPc EXCEPT ![r] = "done"] /\ rcPc[r] = "ask"
              \/ rcPc' = [rcPc EXCEPT ![r] = "answer"] /\ rcPc[r] # "ask"
<1>1. CASE rcUrl[r] \in RCCached
  <2>1. rcFresh' = RCTouch(rcFresh, rcUrl[r]) /\ rcUrl[r] \in CacheEntries(rcFresh)
    BY <1>1 DEF RCLooksUp, RCCached, CacheEntries
  <2>2. rcFresh' \in Seq(RCUrls) /\ CacheEntries(rcFresh') \subseteq CacheEntries(rcFresh) \cup {rcUrl[r]}
    BY <2>1, TouchEntries DEF CacheTypes
  <2>3. RCGo(r, IF rcPc[r] = "ask" THEN "done" ELSE "answer")
    BY <1>1 DEF RCLooksUp
  <2> QED
    BY <2>1, <2>2, <2>3 DEF RCGo
<1>2. CASE rcUrl[r] \notin RCCached
  BY <1>2 DEF RCLooksUp, RCGo, CacheTypes
<1> QED
  BY <1>1, <1>2

LEMMA CacheWorkerTypes ==
    ASSUME CacheTypes, NEW r \in RCReaders, RCAsk(r) \/ RCGoesOn(r) \/ RCLoadFails(r)
    PROVE  CacheTypes'
<1> USE DEF CacheTypes, RCGo, rcCache, RCPcs
<1>1. CASE RCAsk(r)
  BY <1>1 DEF RCAsk
<1>2. CASE RCFirstLook(r)
  <2>1. UNCHANGED <<rcFile, rcUrl, rcPending>> /\ RCLooksUp(r, "join") /\ "join" \in RCPcs
    BY <1>2 DEF RCFirstLook
  <2> QED
    BY <2>1, LooksUpKeeps
<1>3. CASE RCSecondLook(r)
  <2>1. UNCHANGED <<rcFile, rcUrl, rcPending>> /\ RCLooksUp(r, "load") /\ "load" \in RCPcs
    BY <1>3 DEF RCSecondLook
  <2> QED
    BY <2>1, LooksUpKeeps
<1>4. CASE RCJoin(r)
  BY <1>4 DEF RCJoin
<1>5. CASE RCLoads(r) \/ RCLoadFails(r) \/ RCReturns(r)
  BY <1>5 DEF RCLoads, RCLoadFails, RCReturns
<1>6. CASE RCPut(r)
  <2>1. rcFresh' = RCPruned(RCTouch(rcFresh, rcUrl[r])) /\ (rcFile' = rcFresh' \/ rcFile' = rcFile)
    BY <1>6 DEF RCPut
  <2>2. rcFresh' \in Seq(RCUrls)
    BY <2>1, TouchEntries, PrunedEntries
  <2> QED
    BY <1>6, <2>1, <2>2 DEF RCPut
<1>7. CASE RCResolves(r)
  BY <1>7 DEF RCResolves
<1>8. CASE RCCleans(r)
  BY <1>8 DEF RCCleans
<1> QED
  BY <1>1, <1>2, <1>3, <1>4, <1>5, <1>6, <1>7, <1>8 DEF RCGoesOn

LEMMA CacheWorkerStep ==
    ASSUME CacheInv, NEW r \in RCReaders, RCAsk(r) \/ RCGoesOn(r) \/ RCLoadFails(r)
    PROVE  CacheInv'
<1>1. CacheTypes /\ CacheTypes'
  BY CacheWorkerTypes DEF CacheInv
<1> USE DEF CacheTypes, RCGo, rcCache, RCLeads
<1>2. CASE RCAsk(r) \/ RCLoads(r) \/ RCLoadFails(r) \/ RCReturns(r)
  <2>1. /\ rcPc[r] = "idle" /\ rcPc' = [rcPc EXCEPT ![r] = "ask"] /\ \E u \in RCUrls : rcUrl' = [rcUrl EXCEPT ![r] = u]
        \/ /\ rcPc[r] = "load" /\ rcPc' = [rcPc EXCEPT ![r] = rcPc'[r]] /\ rcPc'[r] \in {"put", "raise"} /\ rcUrl' = rcUrl
        \/ /\ rcPc' = [rcPc EXCEPT ![r] = "idle"] /\ rcPc[r] \in {"done", "failed"} /\ rcUrl' = rcUrl
    BY <1>1, <1>2 DEF RCAsk, RCLoads, RCLoadFails, RCReturns
  <2>2. UNCHANGED <<rcPending, rcFresh>>
    BY <1>2 DEF RCAsk, RCLoads, RCLoadFails, RCReturns
  <2>3. \A q \in RCReaders \ {r} : rcPc'[q] = rcPc[q] /\ rcUrl'[q] = rcUrl[q]
    BY <1>1, <2>1
  <2>4. OthersStay(r)
    BY <2>3 DEF OthersStay
  <2>5. rcPc'[r] # "load" /\ (RCLeads(r)' => rcUrl'[r] = rcUrl[r] /\ RCLeads(r))
    BY <1>1, <2>1
  <2> QED
    BY <1>1, <2>2, <2>4, <2>5, CacheGoesOn
<1>3. CASE RCFirstLook(r) \/ RCSecondLook(r)
  <2>1. PICK next \in {"join", "load"} :
          /\ RCLooksUp(r, next) /\ UNCHANGED <<rcPending, rcUrl>>
          /\ rcPc[r] = IF next = "join" THEN "ask" ELSE "again"
    BY <1>3 DEF RCFirstLook, RCSecondLook
  <2>2. next \in RCPcs
    BY DEF RCPcs
  <2>3. /\ CacheEntries(rcFresh') \subseteq CacheEntries(rcFresh)
        /\ \/ rcPc' = [rcPc EXCEPT ![r] = next] /\ rcUrl[r] \notin RCCached /\ rcFresh' = rcFresh
           \/ rcPc' = [rcPc EXCEPT ![r] = "done"] /\ rcPc[r] = "ask"
           \/ rcPc' = [rcPc EXCEPT ![r] = "answer"] /\ rcPc[r] # "ask"
    BY <1>1, <2>1, <2>2, LooksUpKeeps
  <2>4. \A q \in RCReaders \ {r} : rcPc'[q] = rcPc[q]
    BY <1>1, <2>3
  <2>5. OthersStay(r)
    BY <2>1, <2>4 DEF OthersStay
  <2>6. /\ rcPc'[r] = "load" => rcUrl'[r] \notin RCCached'
        /\ RCLeads(r)' => RCLeads(r)
    BY <1>1, <2>1, <2>3 DEF RCCached
  <2> QED
    BY <1>1, <2>1, <2>3, <2>5, <2>6, CacheGoesOn
<1>4. CASE RCPut(r)
  <2>1. /\ rcFresh' = RCPruned(RCTouch(rcFresh, rcUrl[r])) /\ rcPc' = [rcPc EXCEPT ![r] = "answer"]
        /\ rcPc[r] = "put" /\ UNCHANGED <<rcPending, rcUrl>>
    BY <1>4 DEF RCPut
  <2>2. CacheEntries(rcFresh') \subseteq CacheEntries(rcFresh) \cup {rcUrl[r]}
    BY <1>1, <2>1, TouchEntries, PrunedEntries
  <2>3. \A q \in RCReaders \ {r} : rcPc'[q] = rcPc[q]
    BY <1>1, <2>1
  <2>4. OthersStay(r)
    BY <2>1, <2>3 DEF OthersStay
  <2> QED
    BY <1>1, <2>1, <2>2, <2>4, CacheGoesOn
<1>5. CASE RCResolves(r)
  <2>1. /\ rcPc[r] \in {"answer", "raise"} /\ rcPc'[r] \in {"clean", "cleanRaise"}
        /\ UNCHANGED <<rcFresh, rcPending, rcUrl>>
        /\ \A q \in RCReaders \ {r} :
             rcPc'[q] = rcPc[q] \/ (rcPc[q] = "wait" /\ rcPc'[q] \in {"done", "failed"})
    BY <1>5 DEF RCResolves
  <2>2. OthersStay(r)
    BY <2>1 DEF OthersStay
  <2> QED
    BY <1>1, <2>1, <2>2, CacheGoesOn
<1>6. CASE RCJoin(r)
  <2>1. CASE rcPending[rcUrl[r]] = NoReader
    <3>1. /\ rcPending' = [rcPending EXCEPT ![rcUrl[r]] = r] /\ rcPc' = [rcPc EXCEPT ![r] = "again"]
          /\ UNCHANGED <<rcFresh, rcUrl>>
      BY <1>6, <2>1 DEF RCJoin
    <3>2. rcPc'[r] = "again" /\ \A q \in RCReaders \ {r} : rcPc'[q] = rcPc[q]
      BY <1>1, <3>1
    <3>3. \A q \in RCReaders : RCLeads(q) => rcUrl[q] # rcUrl[r]
      <4>1. \A q \in RCReaders : q # NoReader
        BY ReadCacheAssumption DEF NoReader
      <4> QED
        BY <2>1, <4>1 DEF CacheInv, CacheFlights
    <3>4. /\ rcPending'[rcUrl[r]] = r
          /\ \A u \in RCUrls \ {rcUrl[r]} : rcPending'[u] = rcPending[u]
      BY <1>1, <3>1
    <3> QED
      BY <1>1, <3>1, <3>2, <3>3, <3>4 DEF CacheInv, CacheFlights, RCCached
  <2>2. CASE rcPending[rcUrl[r]] # NoReader
    <3>1. /\ rcPc' = [rcPc EXCEPT ![r] = rcPc'[r]] /\ rcPc'[r] \in {"wait", "done", "failed"}
          /\ UNCHANGED <<rcFresh, rcUrl, rcPending>>
      BY <1>1, <1>6, <2>2 DEF RCJoin
    <3>2. \A q \in RCReaders \ {r} : rcPc'[q] = rcPc[q]
      BY <1>1, <3>1
    <3>3. OthersStay(r)
      BY <3>1, <3>2 DEF OthersStay
    <3> QED
      BY <1>1, <3>1, <3>3, CacheGoesOn
  <2> QED
    BY <2>1, <2>2
<1>7. CASE RCCleans(r)
  <2>1. /\ rcPending' = [rcPending EXCEPT ![rcUrl[r]] = NoReader] /\ UNCHANGED <<rcFresh, rcUrl>>
        /\ rcPc[r] \in {"clean", "cleanRaise"}
        /\ rcPc' = [rcPc EXCEPT ![r] = rcPc'[r]] /\ rcPc'[r] \in {"done", "failed"}
    BY <1>1, <1>7 DEF RCCleans
  <2>2. \A q \in RCReaders \ {r} : rcPc'[q] = rcPc[q]
    BY <1>1, <2>1
  <2>3. rcPending[rcUrl[r]] = r
    BY <2>1 DEF CacheInv, CacheFlights
  <2>4. \A q \in RCReaders \ {r} : RCLeads(q) => rcUrl[q] # rcUrl[r]
    BY <2>3 DEF CacheInv, CacheFlights
  <2>5. \A u \in RCUrls \ {rcUrl[r]} : rcPending'[u] = rcPending[u]
    BY <1>1, <2>1
  <2> QED
    BY <1>1, <2>1, <2>2, <2>4, <2>5 DEF CacheInv, CacheFlights, RCCached
<1> QED
  BY <1>2, <1>3, <1>4, <1>5, <1>6, <1>7 DEF RCGoesOn

(* What ages is an entry of the file, and of the memory with it or not. *)
LEMMA CacheAges ==
    ASSUME CacheTypes, RCAges
    PROVE  \E u \in RCUrls : rcFile' = RCWithout(rcFile, u) /\ rcFresh' \in {rcFresh, RCWithout(rcFresh, u)}
<1>1. PICK u \in RCCached \cup {rcFile[i] : i \in DOMAIN rcFile} :
        rcFile' = RCWithout(rcFile, u) /\ rcFresh' \in {rcFresh, RCWithout(rcFresh, u)}
  BY DEF RCAges
<1>2. u \in RCUrls
  BY <1>1 DEF RCCached, CacheTypes
<1> QED
  BY <1>1, <1>2

LEMMA CacheInvStep == CacheInv /\ [ReadCacheNext]_rcVars => CacheInv'
<1> SUFFICES ASSUME CacheInv, [ReadCacheNext]_rcVars PROVE CacheInv'
  OBVIOUS
<1>1. CASE UNCHANGED rcVars
  BY <1>1 DEF rcVars, rcCache, CacheInv, CacheTypes, CacheFlights, RCLeads, RCCached
<1>2. CASE RCAges \/ RCSaves
  <2>1. /\ UNCHANGED <<rcPc, rcUrl, rcPending>>
        /\ \/ rcFresh' = rcFresh /\ rcFile' = rcFresh
           \/ \E u \in RCUrls : rcFile' = RCWithout(rcFile, u) /\ rcFresh' \in {rcFresh, RCWithout(rcFresh, u)}
    <3>1. CASE RCAges
      BY <3>1, CacheAges DEF RCAges, CacheInv
    <3>2. CASE RCSaves
      BY <3>2 DEF RCSaves
    <3> QED
      BY <1>2, <3>1, <3>2
  <2>2. rcFresh' \in Seq(RCUrls) /\ rcFile' \in Seq(RCUrls) /\ CacheEntries(rcFresh') \subseteq CacheEntries(rcFresh)
    BY <2>1, WithoutEntries DEF CacheInv, CacheTypes
  <2> QED
    BY <2>1, <2>2 DEF CacheInv, CacheTypes, CacheFlights, RCLeads, RCCached, CacheEntries
<1>3. CASE RCRestarts
  <2>1. /\ rcFresh' = RCPruned(rcFile) /\ UNCHANGED <<rcFile, rcUrl>>
        /\ rcPc' = [r \in RCReaders |-> "idle"] /\ rcPending' = [u \in RCUrls |-> NoReader]
    BY <1>3 DEF RCRestarts
  <2>2. CacheTypes'
    BY <2>1, PrunedEntries DEF CacheInv, CacheTypes, RCPcs
  <2>3. CacheFlights'
    BY <2>1 DEF CacheFlights, RCLeads
  <2> QED
    BY <2>2, <2>3 DEF CacheInv
<1>4. CASE \E r \in RCReaders : RCAsk(r) \/ RCGoesOn(r) \/ RCLoadFails(r)
  BY <1>4, CacheWorkerStep
<1> QED
  BY <1>1, <1>2, <1>3, <1>4 DEF ReadCacheNext

(* Black Duck is asked for nothing the process has or is about to have,    *)
(* whatever entries age, are pruned or come from the file of an earlier    *)
(* process (get_or_load_items, SingleFlight.run): the flight of a          *)
(* collection is its leader's until it is removed, and the leader looks    *)
(* once more before it loads.                                              *)
THEOREM CacheLoadsOnce == ReadCacheSpec => []CacheLoadsOnlyWhatIsMissing
<1>1. ReadCacheInit /\ [][ReadCacheNext]_rcVars => []CacheInv
  BY CacheInitInv, CacheInvStep, PTL
<1> QED
  BY <1>1, CacheFlightsSuffice, PTL DEF ReadCacheSpec

\* No collection is cached twice, in memory or in the file, and no more of
\* them than the command line allows; the rest of the types.
CacheCounted ==
  /\ OnceEach(rcFresh) /\ OnceEach(rcFile) /\ Len(rcFresh) <= RCMaxEntries
  /\ rcDirty \in Nat /\ rcMemo \in [RCReaders -> SUBSET RCUrls]
  /\ rcFuture \in [RCUrls -> {"none", "pending", "loaded", "failed"}]
  /\ rcAsks \in 0 .. RCMaxAsks /\ rcAges \in 0 .. RCMaxAges /\ rcFaults \in 0 .. RCMaxFaults

LEMMA CacheInitCounted == ReadCacheInit => CacheCounted
  BY ReadCacheAssumption DEF ReadCacheInit, CacheCounted, OnceEach

LEMMA CacheCountedRest ==
    ASSUME CacheTypes, CacheCounted, [ReadCacheNext]_rcVars
    PROVE  /\ rcDirty' \in Nat /\ rcMemo' \in [RCReaders -> SUBSET RCUrls]
           /\ rcFuture' \in [RCUrls -> {"none", "pending", "loaded", "failed"}]
           /\ rcAsks' \in 0 .. RCMaxAsks /\ rcAges' \in 0 .. RCMaxAges /\ rcFaults' \in 0 .. RCMaxFaults
<1> USE ReadCacheAssumption DEF CacheCounted, CacheTypes, RCFault, rcCache, rcBounds
<1>1. CASE UNCHANGED rcVars
  BY <1>1 DEF rcVars
<1>2. CASE RCAges \/ RCSaves \/ RCRestarts
  <2>1. CASE RCAges
    BY <2>1 DEF RCAges
  <2>2. CASE RCSaves
    BY <2>2 DEF RCSaves
  <2>3. CASE RCRestarts
    BY <2>3 DEF RCRestarts
  <2> QED
    BY <1>2, <2>1, <2>2, <2>3
<1>3. ASSUME NEW r \in RCReaders, RCAsk(r) \/ RCFirstLook(r) \/ RCJoin(r) \/ RCSecondLook(r) \/ RCLoads(r)
      PROVE  /\ rcDirty' \in Nat /\ rcMemo' \in [RCReaders -> SUBSET RCUrls]
             /\ rcFuture' \in [RCUrls -> {"none", "pending", "loaded", "failed"}]
             /\ rcAsks' \in 0 .. RCMaxAsks /\ rcAges' \in 0 .. RCMaxAges /\ rcFaults' \in 0 .. RCMaxFaults
  <2>1. rcFuture' = rcFuture \/ rcFuture' = [rcFuture EXCEPT ![rcUrl[r]] = "pending"]
    BY <1>3 DEF RCAsk, RCFirstLook, RCJoin, RCSecondLook, RCLoads
  <2>2. rcAsks' = rcAsks \/ (rcAsks < RCMaxAsks /\ rcAsks' = rcAsks + 1)
    BY <1>3 DEF RCAsk, RCFirstLook, RCJoin, RCSecondLook, RCLoads
  <2>3. UNCHANGED <<rcDirty, rcMemo, rcAges, rcFaults>>
    BY <1>3 DEF RCAsk, RCFirstLook, RCJoin, RCSecondLook, RCLoads
  <2> QED
    BY <2>1, <2>2, <2>3
<1>4. ASSUME NEW r \in RCReaders, RCPut(r) \/ RCLoadFails(r) \/ RCResolves(r) \/ RCCleans(r) \/ RCReturns(r)
      PROVE  /\ rcDirty' \in Nat /\ rcMemo' \in [RCReaders -> SUBSET RCUrls]
             /\ rcFuture' \in [RCUrls -> {"none", "pending", "loaded", "failed"}]
             /\ rcAsks' \in 0 .. RCMaxAsks /\ rcAges' \in 0 .. RCMaxAges /\ rcFaults' \in 0 .. RCMaxFaults
  <2>1. \/ rcFuture' = rcFuture
        \/ \E at \in {"none", "loaded", "failed"} : rcFuture' = [rcFuture EXCEPT ![rcUrl[r]] = at]
    BY <1>4 DEF RCPut, RCLoadFails, RCResolves, RCCleans, RCReturns
  <2>2. rcMemo' = rcMemo \/ rcMemo' = [rcMemo EXCEPT ![r] = @ \cup {rcUrl[r]}]
    BY <1>4 DEF RCPut, RCLoadFails, RCResolves, RCCleans, RCReturns
  <2>3. rcFaults' = rcFaults \/ (rcFaults < RCMaxFaults /\ rcFaults' = rcFaults + 1)
    BY <1>4 DEF RCPut, RCLoadFails, RCResolves, RCCleans, RCReturns
  <2>4. UNCHANGED <<rcAsks, rcAges>> /\ rcDirty' \in {0, rcDirty, rcDirty + 1}
    BY <1>4 DEF RCPut, RCLoadFails, RCResolves, RCCleans, RCReturns
  <2> QED
    BY <2>1, <2>2, <2>3, <2>4
<1> QED
  BY <1>1, <1>2, <1>3, <1>4 DEF ReadCacheNext, RCGoesOn

LEMMA CacheCountedEntries ==
    ASSUME CacheTypes, CacheCounted, [ReadCacheNext]_rcVars
    PROVE  OnceEach(rcFresh') /\ OnceEach(rcFile') /\ Len(rcFresh') <= RCMaxEntries
<1> USE DEF CacheTypes, CacheCounted
<1>1. CASE UNCHANGED <<rcFresh, rcFile>>
  BY <1>1
<1>2. CASE RCAges
  <2>1. PICK u \in RCUrls : rcFile' = RCWithout(rcFile, u) /\ rcFresh' \in {rcFresh, RCWithout(rcFresh, u)}
    BY <1>2, CacheAges
  <2>2. OnceEach(rcFresh') /\ Len(rcFresh') <= RCMaxEntries
    BY <2>1, WithoutOnce, ReadCacheAssumption
  <2>3. OnceEach(rcFile')
    BY <2>1, WithoutOnce
  <2> QED
    BY <2>2, <2>3
<1>3. CASE RCSaves
  BY <1>3 DEF RCSaves
<1>4. CASE RCRestarts
  BY <1>4, PrunedOnce DEF RCRestarts
<1>5. ASSUME NEW r \in RCReaders, RCFirstLook(r) \/ RCSecondLook(r)
      PROVE  OnceEach(rcFresh') /\ OnceEach(rcFile') /\ Len(rcFresh') <= RCMaxEntries
  <2>1. /\ rcFile' = rcFile
        /\ rcFresh' = rcFresh \/ (rcUrl[r] \in RCCached /\ rcFresh' = RCTouch(rcFresh, rcUrl[r]))
    BY <1>5 DEF RCFirstLook, RCSecondLook, RCLooksUp
  <2>2. rcUrl[r] \in RCUrls /\ RCCached = CacheEntries(rcFresh)
    BY DEF RCCached, CacheEntries
  <2> QED
    BY <2>1, <2>2, TouchOnce
<1>6. ASSUME NEW r \in RCReaders, RCPut(r)
      PROVE  OnceEach(rcFresh') /\ OnceEach(rcFile') /\ Len(rcFresh') <= RCMaxEntries
  <2>1. rcFresh' = RCPruned(RCTouch(rcFresh, rcUrl[r])) /\ (rcFile' = rcFresh' \/ rcFile' = rcFile)
    BY <1>6 DEF RCPut
  <2>2. RCTouch(rcFresh, rcUrl[r]) \in Seq(RCUrls) /\ OnceEach(RCTouch(rcFresh, rcUrl[r]))
    BY TouchEntries, TouchOnce
  <2>3. OnceEach(rcFresh') /\ Len(rcFresh') <= RCMaxEntries
    BY <2>1, <2>2, PrunedOnce
  <2> QED
    BY <2>1, <2>3
<1>7. ASSUME NEW r \in RCReaders,
             RCAsk(r) \/ RCJoin(r) \/ RCLoads(r) \/ RCLoadFails(r) \/ RCResolves(r) \/ RCCleans(r) \/ RCReturns(r)
      PROVE  UNCHANGED <<rcFresh, rcFile>>
  BY <1>7 DEF RCAsk, RCJoin, RCLoads, RCLoadFails, RCResolves, RCCleans, RCReturns, rcCache
<1>8. CASE UNCHANGED rcVars
  BY <1>8 DEF rcVars, rcCache
<1> QED
  BY <1>1, <1>2, <1>3, <1>4, <1>5, <1>6, <1>7, <1>8 DEF ReadCacheNext, RCGoesOn

LEMMA CacheCountedSuffices == CacheTypes /\ CacheCounted => ReadCacheTypeOK
<1> SUFFICES ASSUME CacheTypes, CacheCounted PROVE ReadCacheTypeOK
  OBVIOUS
<1>1. Len(rcFresh) = Cardinality(RCCached)
  <2>1. RCCached = CacheEntries(rcFresh)
    BY DEF RCCached, CacheEntries
  <2> QED
    BY <2>1, OnceCounted DEF CacheTypes, CacheCounted
<1> QED
  BY <1>1 DEF CacheTypes, CacheCounted, ReadCacheTypeOK, RCPcs

(* The cache holds no more entries than --api-cache-max-entries allows and   *)
(* none twice, whatever is used, aged, saved or loaded from the file of an   *)
(* earlier process.  (put_items, prune_locked, _load_existing.)              *)
THEOREM CacheWellTyped == ReadCacheSpec => []ReadCacheTypeOK
<1>1. CacheInv /\ CacheCounted /\ [ReadCacheNext]_rcVars => CacheCounted'
  BY CacheCountedRest, CacheCountedEntries DEF CacheInv, CacheCounted
<1>2. CacheInv /\ CacheCounted => ReadCacheTypeOK
  BY CacheCountedSuffices DEF CacheInv
<1> QED
  BY <1>1, <1>2, CacheInitInv, CacheInitCounted, CacheInvStep, PTL DEF ReadCacheSpec

-----------------------------------------------------------------------------
(* Candidates and shards.                                                  *)

LEMMA ShardCount ==
    ASSUME NEW want, want \subseteq PVVersions
    PROVE  /\ PVShardCount(want) \in 0 .. PVShards
           /\ want # {} => PVShardCount(want) \in 1 .. PVShards
<1>1. IsFiniteSet(want) /\ Cardinality(want) \in Nat
  BY PolicyAssumption, FS_Subset, FS_CardinalityType
<1>2. want # {} => Cardinality(want) # 0
  BY <1>1, FS_EmptySet
<1> QED
  BY <1>1, <1>2, PolicyAssumption DEF PVShardCount

LEMMA ShardOf ==
    ASSUME NEW want, want \subseteq PVVersions, NEW v \in want
    PROVE  PVShardOf(v, want) \in 1 .. PVShardCount(want)
<1> DEFINE before == {u \in want : u < v}
<1>1. PVShardCount(want) \in 1 .. PVShards
  BY ShardCount
<1>2. Cardinality(before) \in Nat
  <2>1. before \subseteq PVVersions
    OBVIOUS
  <2> QED
    BY <2>1, PolicyAssumption, FS_Subset, FS_CardinalityType
<1> HIDE DEF before
<1>3. Cardinality(before) % PVShardCount(want) \in 0 .. PVShardCount(want) - 1
  BY <1>1, <1>2
<1> QED
  BY <1>1, <1>3 DEF PVShardOf, before

\* Of a state, an entry without a status is the one of a version not pulled.
PVWellFormed(state) ==
  /\ state = [v \in PVVersions |-> state[v]]
  /\ \A v \in PVVersions : state[v] = NotPulled \/ state[v].status \in {"ok", "partial", "failed"}

PVTypes ==
  /\ pvWant \subseteq PVVersions
  /\ pvPull \in [PVShardIds -> {"idle", "pull", "findings", "failures", "done", "dead"}]
  /\ pvMem = [k \in PVShardIds |-> pvMem[k]] /\ \A k \in PVShardIds : PVWellFormed(pvMem[k])
  /\ pvStates = [f \in PVFiles |-> pvStates[f]] /\ \A f \in PVFiles : PVWellFormed(pvStates[f])
  /\ pvShardOut = [f \in PVFiles |-> pvShardOut[f]]
  /\ \A f \in PVFiles : pvShardOut[f] \in [rows : {pvShardOut[f].rows}, failed : {pvShardOut[f].failed}]

\* A shard that works is one of this pull's; what it has written is what it
\* has in its memory; past the pull it lacks nothing unless it was limited.
PVShardTrue(k) ==
  /\ pvPull[k] \in {"pull", "findings", "failures"} => k \in PVActive
  /\ pvPull[k] \in {"findings", "failures", "done"} /\ k \in PVActive /\ k \notin pvLimited =>
       \A v \in PVMine(k) : pvMem[k][v] # NotPulled
  /\ pvPull[k] \in {"failures", "done"} /\ k \in PVActive =>
       \A v \in PVVersions :
         pvShardOut[PVFileOf(k)].rows[v] = IF v \in PVMine(k) THEN pvMem[k][v].content ELSE 0
  /\ pvPull[k] = "done" /\ k \in PVActive => pvShardOut[PVFileOf(k)].failed = PVFailed(k)

PVInv == PVTypes /\ \A k \in PVShardIds : PVShardTrue(k)

LEMMA FilesOfShards ==
    ASSUME PVTypes, NEW k \in PVActive
    PROVE  /\ k \in PVShardIds /\ PVFileOf(k) \in PVFiles
           /\ \A l \in PVActive : PVFileOf(l) = PVFileOf(k) => l = k
<1>1. PVShardCount(pvWant) \in 0 .. PVShards
  BY ShardCount DEF PVTypes
<1>2. k \in PVShardIds /\ k <= PVShardCount(pvWant) /\ k \in 1 .. PVShards
  BY DEF PVActive, PVShardIds
<1>3. PVShardCount(pvWant) \in PVShardIds
  BY <1>1, <1>2, PolicyAssumption DEF PVShardIds
<1> QED
  BY <1>2, <1>3 DEF PVFileOf, PVFiles

LEMMA PolicyInitInv == PolicyInit => PVInv
<1> SUFFICES ASSUME PolicyInit PROVE PVInv
  OBVIOUS
<1>1. PVWellFormed(Everyone(NotPulled))
  BY DEF PVWellFormed, Everyone
<1>2. PVTypes
  BY <1>1 DEF PolicyInit, PVTypes
<1>3. \A k \in PVShardIds : PVShardTrue(k)
  BY DEF PolicyInit, PVShardTrue
<1> QED
  BY <1>2, <1>3 DEF PVInv

\* What the finder and Black Duck do leaves the puller alone.
LEMMA PullerStays ==
    ASSUME PVInv, UNCHANGED pvPuller
    PROVE  PVInv'
<1>1. PVTypes'
  BY DEF PVInv, PVTypes, pvPuller
<1>2. \A k \in PVShardIds : PVShardTrue(k)'
  BY DEF PVInv, pvPuller, PVShardTrue, PVActive, PVMine, PVFileOf, PVFailed
<1> QED
  BY <1>1, <1>2 DEF PVInv

\* What one shard does leaves the others alone.
LEMMA VersionsStay ==
    ASSUME PVInv, NEW k \in PVActive, pvWant' = pvWant,
           \A l \in PVShardIds \ {k} :
             pvPull'[l] = pvPull[l] /\ pvMem'[l] = pvMem[l] /\ (l \in pvLimited' <=> l \in pvLimited),
           \A f \in PVFiles \ {PVFileOf(k)} : pvShardOut'[f] = pvShardOut[f]
    PROVE  \A l \in PVShardIds \ {k} : PVShardTrue(l)'
<1> SUFFICES ASSUME NEW l \in PVShardIds \ {k} PROVE PVShardTrue(l)'
  OBVIOUS
<1>1. l \in PVActive => pvShardOut'[PVFileOf(l)] = pvShardOut[PVFileOf(l)]
  BY FilesOfShards DEF PVInv
<1>2. PVShardTrue(l)
  BY DEF PVInv
<1>3. pvPull'[l] = pvPull[l] /\ pvMem'[l] = pvMem[l] /\ (l \in pvLimited' <=> l \in pvLimited)
  OBVIOUS
<1> QED
  BY <1>1, <1>2, <1>3 DEF PVShardTrue, PVActive, PVMine, PVFileOf, PVFailed

LEMMA PullBegins ==
    ASSUME PVInv, PVPull
    PROVE  PVInv'
<1>1. /\ pvWant' \subseteq PVVersions /\ UNCHANGED <<pvStates, pvShardOut>>
      /\ pvPull' = [k \in PVShardIds |-> IF k <= PVShardCount(pvWant') THEN "pull" ELSE "done"]
  BY DEF PVPull
<1>2. PICK resume \in BOOLEAN : pvMem' = [k \in PVShardIds |->
         IF resume /\ k <= PVShardCount(pvWant') THEN pvStates[<<k, PVShardCount(pvWant')>>]
         ELSE Everyone(NotPulled)]
  BY DEF PVPull
<1>3. PVShardCount(pvWant') \in 0 .. PVShards
  BY <1>1, ShardCount
<1>4. \A k \in PVShardIds : k <= PVShardCount(pvWant') => <<k, PVShardCount(pvWant')>> \in PVFiles
  BY <1>3, PolicyAssumption DEF PVShardIds, PVFiles
<1>5. PVWellFormed(Everyone(NotPulled))
  BY DEF PVWellFormed, Everyone
<1>6. \A k \in PVShardIds : PVWellFormed(pvMem'[k])
  BY <1>2, <1>4, <1>5 DEF PVInv, PVTypes
<1>7. PVTypes'
  <2>1. pvMem' = [k \in PVShardIds |-> pvMem'[k]]
    BY <1>2
  <2> QED
    BY <1>1, <1>6, <2>1 DEF PVInv, PVTypes, PVWellFormed
<1>8. \A k \in PVShardIds : PVShardTrue(k)'
  BY <1>1 DEF PVShardTrue, PVActive
<1> QED
  BY <1>7, <1>8 DEF PVInv

\* A shard that works is one of this pull's.
LEMMA WorkingShard ==
    ASSUME PVInv, NEW k \in PVShardIds, pvPull[k] \in {"pull", "findings", "failures"}
    PROVE  k \in PVActive /\ PVFileOf(k) \in PVFiles
  BY FilesOfShards DEF PVInv, PVShardTrue

LEMMA OnePulled ==
    ASSUME PVInv, NEW k \in PVShardIds, NEW v \in PVVersions, PVPulls(k, v)
    PROVE  PVInv'
<1>1. k \in PVActive /\ PVFileOf(k) \in PVFiles /\ pvPull[k] = "pull"
  BY WorkingShard DEF PVPulls
<1>2. UNCHANGED <<pvPull, pvWant, pvShardOut, pvLimited>>
  BY DEF PVPulls
<1>3. PICK status \in {"ok", "partial", "failed"} : \E content :
        /\ pvMem' = [pvMem EXCEPT ![k] = [pvMem[k] EXCEPT ![v] = [status |-> status, content |-> content]]]
        /\ pvStates' = [pvStates EXCEPT ![PVFileOf(k)] = pvMem'[k]]
  BY DEF PVPulls
<1>4. PICK content :
        /\ pvMem' = [pvMem EXCEPT ![k] = [pvMem[k] EXCEPT ![v] = [status |-> status, content |-> content]]]
        /\ pvStates' = [pvStates EXCEPT ![PVFileOf(k)] = pvMem'[k]]
  BY <1>3
<1> DEFINE state == [pvMem[k] EXCEPT ![v] = [status |-> status, content |-> content]]
<1>5. PVWellFormed(state)
  BY DEF PVInv, PVTypes, PVWellFormed
<1> HIDE DEF state
<1>6. pvMem' = [pvMem EXCEPT ![k] = state] /\ pvMem'[k] = state
      /\ \A l \in PVShardIds \ {k} : pvMem'[l] = pvMem[l]
  BY <1>4 DEF PVInv, PVTypes, state
<1>7. pvStates' = [pvStates EXCEPT ![PVFileOf(k)] = state]
  BY <1>4, <1>6
<1>8. PVTypes'
  <2>1. pvMem' = [l \in PVShardIds |-> pvMem'[l]] /\ \A l \in PVShardIds : PVWellFormed(pvMem'[l])
    BY <1>5, <1>6 DEF PVInv, PVTypes
  <2>2. pvStates' = [f \in PVFiles |-> pvStates'[f]] /\ \A f \in PVFiles : PVWellFormed(pvStates'[f])
    BY <1>1, <1>5, <1>7 DEF PVInv, PVTypes
  <2> QED
    BY <1>2, <2>1, <2>2 DEF PVInv, PVTypes, PVWellFormed
<1>9. \A l \in PVShardIds \ {k} : PVShardTrue(l)'
  BY <1>1, <1>2, <1>6, VersionsStay
<1>10. PVShardTrue(k)'
  BY <1>1, <1>2 DEF PVShardTrue, PVActive
<1> QED
  BY <1>8, <1>9, <1>10 DEF PVInv

LEMMA ShardGoesOn ==
    ASSUME PVInv, NEW k \in PVShardIds, PVPulled(k) \/ PVPullDies(k)
    PROVE  PVInv'
<1>1. k \in PVActive /\ PVFileOf(k) \in PVFiles
  BY WorkingShard DEF PVPulled, PVPullDies
<1>2. UNCHANGED <<pvMem, pvWant, pvShardOut>>
  BY DEF PVPulled, PVPullDies
<1>3. PICK at \in {"findings", "dead"} : pvPull' = [pvPull EXCEPT ![k] = at]
  BY DEF PVPulled, PVPullDies
<1>4. pvStates' = pvStates \/ pvStates' = [pvStates EXCEPT ![PVFileOf(k)] = pvMem[k]]
  BY DEF PVPulled, PVPullDies
<1>5. PVTypes'
  <2>1. pvStates' = [f \in PVFiles |-> pvStates'[f]] /\ \A f \in PVFiles : PVWellFormed(pvStates'[f])
    BY <1>1, <1>4 DEF PVInv, PVTypes
  <2> QED
    BY <1>2, <1>3, <2>1 DEF PVInv, PVTypes, PVWellFormed
<1>6. \A l \in PVShardIds \ {k} : l \in pvLimited' <=> l \in pvLimited
  BY DEF PVPulled, PVPullDies
<1>7. \A l \in PVShardIds \ {k} : PVShardTrue(l)'
  <2>1. \A l \in PVShardIds \ {k} : pvPull'[l] = pvPull[l]
    BY <1>3 DEF PVInv, PVTypes
  <2> QED
    BY <1>1, <1>2, <1>6, <2>1, VersionsStay
<1>8. pvPull'[k] = "findings" /\ k \notin pvLimited' => \A v \in PVMine(k) : pvMem[k][v] # NotPulled
  <2>1. CASE PVPulled(k)
    BY <2>1 DEF PVPulled
  <2>2. CASE PVPullDies(k)
    BY <2>2 DEF PVPullDies, PVInv, PVTypes
  <2> QED
    BY <2>1, <2>2
<1>9. PVShardTrue(k)'
  <2>1. pvPull'[k] \in {"findings", "dead"}
    BY <1>3 DEF PVInv, PVTypes
  <2> QED
    BY <1>1, <1>2, <1>8, <2>1 DEF PVShardTrue, PVActive, PVMine, PVFileOf
<1> QED
  BY <1>5, <1>7, <1>9 DEF PVInv

LEMMA ShardWrites ==
    ASSUME PVInv, NEW k \in PVShardIds, PVWritesFindings(k) \/ PVWritesFailures(k)
    PROVE  PVInv'
<1>1. k \in PVActive /\ PVFileOf(k) \in PVFiles /\ PVShardTrue(k)
  BY WorkingShard DEF PVWritesFindings, PVWritesFailures, PVInv
<1>2. UNCHANGED <<pvMem, pvStates, pvWant, pvLimited>>
  BY DEF PVWritesFindings, PVWritesFailures
<1>3. PICK at \in {"failures", "done"} : pvPull' = [pvPull EXCEPT ![k] = at]
  BY DEF PVWritesFindings, PVWritesFailures
<1> DEFINE held == pvShardOut[PVFileOf(k)]
           written == [v \in PVVersions |-> IF v \in PVMine(k) THEN pvMem[k][v].content ELSE 0]
<1>4. PICK rows, failed :
        /\ pvShardOut' = [pvShardOut EXCEPT ![PVFileOf(k)] = [rows |-> rows, failed |-> failed]]
        /\ \A v \in PVVersions : rows[v] = IF v \in PVMine(k) THEN pvMem[k][v].content ELSE 0
        /\ pvPull'[k] = "done" => failed = PVFailed(k)
  <2>1. held = [rows |-> held.rows, failed |-> held.failed]
    BY <1>1 DEF PVInv, PVTypes
  <2>2. CASE PVWritesFindings(k)
    <3>1. pvShardOut' = [pvShardOut EXCEPT ![PVFileOf(k)] = [held EXCEPT !.rows = written]]
          /\ pvPull' = [pvPull EXCEPT ![k] = "failures"]
      BY <2>2 DEF PVWritesFindings
    <3>2. [held EXCEPT !.rows = written] = [rows |-> written, failed |-> held.failed]
      <4> HIDE DEF held, written
      <4> QED
        BY <2>1
    <3>3. pvPull'[k] = "failures"
      BY <3>1 DEF PVInv, PVTypes
    <3>4. \A v \in PVVersions : written[v] = IF v \in PVMine(k) THEN pvMem[k][v].content ELSE 0
      OBVIOUS
    <3> HIDE DEF held, written
    <3>5. pvShardOut' = [pvShardOut EXCEPT ![PVFileOf(k)] = [rows |-> written, failed |-> held.failed]]
      BY <3>1, <3>2
    <3> QED
      BY <3>3, <3>4, <3>5
  <2>3. CASE PVWritesFailures(k)
    <3>1. pvShardOut' = [pvShardOut EXCEPT ![PVFileOf(k)] = [held EXCEPT !.failed = PVFailed(k)]]
          /\ pvPull[k] = "failures"
      BY <2>3 DEF PVWritesFailures
    <3>2. [held EXCEPT !.failed = PVFailed(k)] = [rows |-> held.rows, failed |-> PVFailed(k)]
      <4> HIDE DEF held
      <4> QED
        BY <2>1
    <3>3. \A v \in PVVersions : held.rows[v] = IF v \in PVMine(k) THEN pvMem[k][v].content ELSE 0
      BY <1>1, <3>1 DEF PVShardTrue
    <3> HIDE DEF held
    <3>4. pvShardOut' = [pvShardOut EXCEPT ![PVFileOf(k)] = [rows |-> held.rows, failed |-> PVFailed(k)]]
      BY <3>1, <3>2
    <3> QED
      BY <3>3, <3>4
  <2> QED
    BY <2>2, <2>3
<1>5. pvShardOut'[PVFileOf(k)] = [rows |-> rows, failed |-> failed]
      /\ \A f \in PVFiles \ {PVFileOf(k)} : pvShardOut'[f] = pvShardOut[f]
  BY <1>1, <1>4 DEF PVInv, PVTypes
<1>6. PVTypes'
  <2>1. pvShardOut' = [f \in PVFiles |-> pvShardOut'[f]]
    BY <1>4 DEF PVInv, PVTypes
  <2>2. \A f \in PVFiles : pvShardOut'[f] \in [rows : {pvShardOut'[f].rows}, failed : {pvShardOut'[f].failed}]
    <3>1. [rows |-> rows, failed |-> failed].rows = rows /\ [rows |-> rows, failed |-> failed].failed = failed
      OBVIOUS
    <3> QED
      BY <1>5, <3>1 DEF PVInv, PVTypes
  <2> QED
    BY <1>2, <1>3, <2>1, <2>2 DEF PVInv, PVTypes, PVWellFormed
<1>7. \A l \in PVShardIds \ {k} : PVShardTrue(l)'
  <2>1. \A l \in PVShardIds \ {k} : pvPull'[l] = pvPull[l]
    BY <1>3 DEF PVInv, PVTypes
  <2> QED
    BY <1>1, <1>2, <1>5, <2>1, VersionsStay
<1>8. PVShardTrue(k)'
  <2>1. pvPull[k] \in {"findings", "failures"} /\ pvPull'[k] \in {"failures", "done"}
    BY <1>3 DEF PVWritesFindings, PVWritesFailures, PVInv, PVTypes
  <2>2. k \notin pvLimited => \A v \in PVMine(k) : pvMem[k][v] # NotPulled
    BY <1>1, <2>1 DEF PVShardTrue
  <2>3. /\ pvShardOut'[PVFileOf(k)].rows = rows /\ pvShardOut'[PVFileOf(k)].failed = failed
    BY <1>5
  <2> QED
    BY <1>1, <1>2, <1>4, <2>1, <2>2, <2>3 DEF PVShardTrue, PVActive, PVMine, PVFileOf, PVFailed
<1> QED
  BY <1>6, <1>7, <1>8 DEF PVInv

LEMMA PullEnds ==
    ASSUME PVInv, PVEnds
    PROVE  PVInv'
<1>1. /\ UNCHANGED <<pvStates, pvWant, pvShardOut>>
      /\ pvPull' = [k \in PVShardIds |-> "idle"] /\ pvMem' = [k \in PVShardIds |-> Everyone(NotPulled)]
  BY DEF PVEnds
<1>2. PVWellFormed(Everyone(NotPulled))
  BY DEF PVWellFormed, Everyone
<1>3. PVTypes'
  <2>1. \A k \in PVShardIds : PVWellFormed(pvMem'[k])
    BY <1>1, <1>2
  <2> QED
    BY <1>1, <2>1 DEF PVInv, PVTypes, PVWellFormed
<1> QED
  BY <1>1, <1>3 DEF PVInv, PVShardTrue

LEMMA PolicyStepInv == PVInv /\ [PolicyNext]_pvVars => PVInv'
<1> SUFFICES ASSUME PVInv, [PolicyNext]_pvVars PROVE PVInv'
  OBVIOUS
<1>1. CASE PVPull \/ PVEnds \/ \E k \in PVShardIds :
             \/ \E v \in PVVersions : PVPulls(k, v)
             \/ PVPulled(k) \/ PVWritesFindings(k) \/ PVWritesFailures(k) \/ PVPullDies(k)
  BY <1>1, PullBegins, OnePulled, ShardGoesOn, ShardWrites, PullEnds
<1>2. CASE UNCHANGED pvPuller
  BY <1>2, PullerStays
<1>3. UNCHANGED pvVars \/ PVChange \/ PVAge => UNCHANGED pvPuller
  BY DEF pvVars, PVChange, PVAge
<1>4. PVBegin \/ PVScanEnds \/ PVWritesOut \/ PVTriggers => UNCHANGED pvPuller
  BY DEF PVBegin, PVScanEnds, PVWritesOut, PVTriggers
<1>5. PVSaves \/ PVFindDies => UNCHANGED pvPuller
  BY DEF PVSaves, PVFindDies, PVFindEnds
<1>6. (\E v \in PVVersions : PVScan(v) \/ PVScanFails(v)) => UNCHANGED pvPuller
  BY DEF PVScan, PVScanFails, PVApply
<1> QED
  BY <1>1, <1>2, <1>3, <1>4, <1>5, <1>6 DEF PolicyNext

LEMMA SuccessComplete ==
    ASSUME PVInv, PVEnds, NEW k \in PVShardIds, pvPull[k] = "done", pvFinal'.code = 0,
           pvFinal'.merged, pvLimited = {}, \A l \in PVShardIds : pvPull[l] # "dead", NEW v \in PVMine(k)
    PROVE  pvMem[k][v].status = "ok" /\ pvFinal'.rows[v] = pvMem[k][v].content
<1>1. v \in pvWant /\ v \in PVVersions /\ PVShardOf(v, pvWant) = k
  BY DEF PVMine, PVInv, PVTypes
<1>2. k \in PVActive
  BY <1>1, ShardOf DEF PVActive, PVInv, PVTypes
<1>3. \A l \in PVActive : pvPull[l] = "done" /\ l \in PVShardIds
  BY DEF PVEnds, PVActive
<1>4. \A l \in PVActive : pvShardOut[PVFileOf(l)].failed = {}
  <2>1. pvFinal'.merged /\ pvFinal'.code = 0 => \A l \in PVActive : pvShardOut[PVFileOf(l)].failed = {}
    BY DEF PVEnds
  <2> QED
    BY <2>1
<1>5. pvMem[k][v].status = "ok"
  <2>1. PVFailed(k) = {}
    BY <1>2, <1>3, <1>4 DEF PVInv, PVShardTrue
  <2>2. pvMem[k][v] # NotPulled
    BY <1>2, <1>3 DEF PVInv, PVShardTrue
  <2>3. pvMem[k][v].status \in {"ok", "partial", "failed"}
    BY <1>1, <2>2 DEF PVInv, PVTypes, PVWellFormed
  <2> QED
    BY <2>1, <2>3 DEF PVFailed
<1> DEFINE holding == {l \in PVActive : pvShardOut[PVFileOf(l)].rows[v] # 0}
           first == CHOOSE l \in holding : \A m \in holding : l <= m
<1>6. pvFinal'.rows[v] = IF holding = {} THEN 0 ELSE pvShardOut[PVFileOf(first)].rows[v]
  BY <1>1 DEF PVEnds
<1>7. \A l \in PVActive : pvShardOut[PVFileOf(l)].rows[v] = IF l = k THEN pvMem[k][v].content ELSE 0
  <2> SUFFICES ASSUME NEW l \in PVActive
               PROVE  pvShardOut[PVFileOf(l)].rows[v] = IF l = k THEN pvMem[k][v].content ELSE 0
    OBVIOUS
  <2>1. v \in PVMine(l) <=> l = k
    BY <1>1 DEF PVMine
  <2> QED
    BY <1>1, <1>3, <2>1 DEF PVInv, PVShardTrue
<1>8. CASE holding = {}
  BY <1>2, <1>5, <1>6, <1>7, <1>8
<1>9. CASE holding # {}
  <2>1. holding = {k}
    BY <1>7, <1>9
  <2>2. first = k
    <3>1. k <= k
      BY DEF PVShardIds
    <3>2. \E l \in holding : \A m \in holding : l <= m
      BY <2>1, <3>1
    <3>3. first \in holding
      <4> HIDE DEF holding
      <4> QED
        BY <3>2
    <3> QED
      BY <2>1, <3>3
  <2> HIDE DEF first
  <2> QED
    BY <1>2, <1>5, <1>6, <1>7, <1>9, <2>2
<1> QED
  BY <1>8, <1>9

(* A pull that ends with 0 puts out what was pulled of every candidate,      *)
(* whichever shard and whichever earlier run had pulled it.                  *)
(* (load_completed_from_state, run_sharded, merge_failure_files.)            *)
THEOREM SuccessIsComplete == PolicySpec => PolicySuccessIsComplete
<1> DEFINE Complete ==
      \A k \in PVShardIds :
        /\ pvPull[k] = "done" /\ pvPull'[k] = "idle"
        /\ pvFinal'.code = 0 /\ pvFinal'.merged /\ pvLimited = {} /\ \A l \in PVShardIds : pvPull[l] # "dead"
        => \A v \in PVMine(k) :
             pvMem[k][v].status = "ok" /\ pvFinal'.rows[v] = pvMem[k][v].content
<1>1. PVInv /\ [PolicyNext]_pvVars => [Complete]_pvVars
  <2> SUFFICES ASSUME PVInv, PolicyNext, NEW k \in PVShardIds, pvPull[k] = "done", pvPull'[k] = "idle"
               PROVE  PVEnds
    BY SuccessComplete
  <2>1. pvPull' # pvPull
    OBVIOUS
  <2>2. ~PVPull
    BY DEF PVPull
  <2>3. \A l \in PVShardIds : ~PVPulled(l) /\ ~PVWritesFindings(l) /\ ~PVWritesFailures(l) /\ ~PVPullDies(l)
    BY DEF PVPulled, PVWritesFindings, PVWritesFailures, PVPullDies, PVInv, PVTypes
  <2> QED
    BY <2>1, <2>2, <2>3 DEF PolicyNext, PVChange, PVAge, PVBegin, PVScanEnds, PVWritesOut, PVTriggers, PVSaves,
       PVFindDies, PVFindEnds, PVScan, PVScanFails, PVApply, PVPulls, pvPuller
<1> QED
  BY <1>1, PolicyInitInv, PolicyStepInv, PTL DEF PolicySpec, PolicySuccessIsComplete

\* Every change moves the update time of one version by one at most.
PolicyWorld ==
  /\ pvNow \in [PVVersions -> Contents] /\ pvMark \in [PVVersions -> 1 .. PVMaxChanges + 1]
  /\ \A v \in PVVersions : pvMark[v] <= pvChanges + 1
  /\ pvFaults \in 0 .. PVMaxFaults /\ pvChanges \in 0 .. PVMaxChanges

PVUnscanned == {v \in PVVersions : pvTodo[v] # 0}

\* The finder: no version is scanned twice by one run.
PolicyFinder ==
  /\ pvFile \in [PVVersions -> PVEntries] /\ pvCache \in [PVVersions -> PVEntries]
  /\ pvFind \in {"idle", "scan", "out", "trigger", "save"}
  /\ pvTodo \in [PVVersions -> 0 .. PVMaxChanges + 1]
  /\ {pvBefore, pvRows, pvOut, pvTold} \subseteq [PVVersions -> Contents]
  /\ pvScanned \in Nat /\ pvScanned + Cardinality(PVUnscanned) <= Cardinality(PVVersions)
  /\ pvTrigger \in BOOLEAN

PolicyPuller ==
  /\ pvPull \in [PVShardIds -> {"idle", "pull", "findings", "failures", "done", "dead"}]
  /\ pvWant \subseteq PVVersions /\ pvLimited \subseteq PVShardIds
  /\ pvStates \in [PVFiles -> [PVVersions -> PVStates]]
  /\ pvMem \in [PVShardIds -> [PVVersions -> PVStates]]
  /\ pvShardOut \in [PVFiles -> [rows : [PVVersions -> Contents], failed : SUBSET PVVersions]]
  /\ pvFinal \in [rows : [PVVersions -> Contents], code : {0, 1, 130}, merged : BOOLEAN]

LEMMA PolicyFacts ==
    /\ 0 \in Contents /\ 0 \in 0 .. PVMaxChanges + 1
    /\ IsFiniteSet(PVVersions) /\ Cardinality(PVVersions) \in Nat
    /\ NoCandidate \in PVEntries /\ NotPulled \in PVStates
<1>1. 0 \in Contents /\ 0 \in 0 .. PVMaxChanges + 1
  BY PolicyAssumption DEF Contents
<1>2. IsFiniteSet(PVVersions) /\ Cardinality(PVVersions) \in Nat
  BY PolicyAssumption, FS_CardinalityType
<1> QED
  BY <1>1, <1>2 DEF NoCandidate, NotPulled, PVEntries, PVStates

LEMMA PolicyInitKinds == PolicyInit => PolicyWorld /\ PolicyFinder /\ PolicyPuller
<1> SUFFICES ASSUME PolicyInit PROVE PolicyWorld /\ PolicyFinder /\ PolicyPuller
  OBVIOUS
<1> USE PolicyFacts
<1>1. PolicyWorld
  BY PolicyAssumption DEF PolicyInit, PolicyWorld, Everyone
<1>2. PolicyFinder
  <2>1. PVUnscanned = {} /\ Cardinality({}) = 0
    BY FS_EmptySet DEF PolicyInit, PVUnscanned, Everyone
  <2>2. pvTrigger \in BOOLEAN
    BY Zenon DEF PolicyInit
  <2> QED
    BY <2>1, <2>2 DEF PolicyInit, PolicyFinder, Everyone
<1>3. PolicyPuller
  BY DEF PolicyInit, PolicyPuller, Everyone
<1> QED
  BY <1>1, <1>2, <1>3

LEMMA PolicyFault ==
    ASSUME PolicyWorld, PVFault
    PROVE  pvFaults' \in 0 .. PVMaxFaults
  BY PolicyAssumption DEF PolicyWorld, PVFault

LEMMA PolicyWorldStep ==
    ASSUME PolicyWorld, [PolicyNext]_pvVars
    PROVE  PolicyWorld'
<1> USE DEF pvWorld, pvFinder, pvPuller
<1>1. CASE PVChange
  <2>1. PICK v \in PVVersions, moves \in BOOLEAN :
          /\ \E c \in Contents \ {pvNow[v]} : pvNow' = [pvNow EXCEPT ![v] = c]
          /\ pvMark' = IF moves THEN [pvMark EXCEPT ![v] = @ + 1] ELSE pvMark
    BY <1>1 DEF PVChange
  <2>2. pvChanges < PVMaxChanges /\ pvChanges' = pvChanges + 1 /\ pvFaults' = pvFaults
    BY <1>1 DEF PVChange
  <2>3. pvNow' \in [PVVersions -> Contents]
    BY <2>1 DEF PolicyWorld
  <2>4. pvMark' \in [PVVersions -> 1 .. PVMaxChanges + 1] /\ \A u \in PVVersions : pvMark'[u] <= pvChanges' + 1
    BY <2>1, <2>2, PolicyAssumption DEF PolicyWorld
  <2> QED
    BY <2>2, <2>3, <2>4, PolicyAssumption DEF PolicyWorld
<1>2. ASSUME UNCHANGED pvWorld, PVFault \/ UNCHANGED pvFaults PROVE PolicyWorld'
  BY <1>2, PolicyFault DEF PolicyWorld
<1>3. CASE PVAge \/ PVBegin \/ PVScanEnds \/ PVWritesOut \/ PVTriggers \/ PVSaves \/ PVFindDies
  <2>1. UNCHANGED pvWorld
    BY <1>3 DEF PVAge, PVBegin, PVScanEnds, PVWritesOut, PVTriggers, PVSaves, PVFindDies, PVFindEnds
  <2>2. PVFault \/ UNCHANGED pvFaults
    BY <1>3 DEF PVAge, PVBegin, PVScanEnds, PVWritesOut, PVTriggers, PVSaves, PVFindDies, PVFindEnds
  <2> QED
    BY <1>2, <2>1, <2>2
<1>4. ASSUME NEW v \in PVVersions, PVScan(v) \/ PVScanFails(v) PROVE PolicyWorld'
  BY <1>2, <1>4 DEF PVScan, PVScanFails, PVApply
<1>5. CASE PVPull \/ PVEnds \/ UNCHANGED pvVars
  BY <1>2, <1>5 DEF PVPull, PVEnds, pvVars
<1>6. ASSUME NEW k \in PVShardIds,
             \/ \E v \in PVVersions : PVPulls(k, v)
             \/ PVPulled(k) \/ PVWritesFindings(k) \/ PVWritesFailures(k) \/ PVPullDies(k)
      PROVE  PolicyWorld'
  BY <1>2, <1>6 DEF PVPulls, PVPulled, PVWritesFindings, PVWritesFailures, PVPullDies
<1> QED
  BY <1>1, <1>3, <1>4, <1>5, <1>6 DEF PolicyNext

\* One version more is scanned, and one less to be scanned.
LEMMA PolicyApplies ==
    ASSUME PolicyWorld, PolicyFinder, NEW v \in PVVersions, pvTodo[v] # 0, NEW entry \in PVEntries,
           PVApply(v, entry)
    PROVE  PolicyFinder'
<1>1. PVUnscanned' = PVUnscanned \ {v} /\ v \in PVUnscanned /\ PVUnscanned \subseteq PVVersions
  BY DEF PVApply, PVUnscanned, PolicyFinder
<1>2. IsFiniteSet(PVUnscanned) /\ Cardinality(PVUnscanned) \in Nat
  BY <1>1, PolicyFacts, FS_Subset, FS_CardinalityType
<1>3. Cardinality(PVUnscanned') = Cardinality(PVUnscanned) - 1
  BY <1>1, <1>2, FS_RemoveElement
<1>4. pvScanned' \in Nat /\ pvScanned' + Cardinality(PVUnscanned') <= Cardinality(PVVersions)
  BY <1>2, <1>3, PolicyFacts DEF PVApply, PolicyFinder
<1>5. pvCache' \in [PVVersions -> PVEntries] /\ pvFile' \in [PVVersions -> PVEntries]
  BY DEF PVApply, PolicyFinder
<1>6. entry.content \in Contents
  BY DEF PVEntries
<1>7. pvRows' \in [PVVersions -> Contents] /\ pvTodo' \in [PVVersions -> 0 .. PVMaxChanges + 1]
  BY <1>6, PolicyFacts DEF PVApply, PolicyFinder
<1> QED
  BY <1>4, <1>5, <1>7 DEF PVApply, PolicyFinder

LEMMA PolicyBegins ==
    ASSUME PolicyWorld, PolicyFinder, PVBegin
    PROVE  PolicyFinder'
<1> USE PolicyFacts DEF PolicyWorld, PolicyFinder
<1>1. PICK lost \in SUBSET PVVersions :
        /\ pvTodo' = [v \in PVVersions |-> IF v \in lost \/ PVReusable(v) THEN 0 ELSE pvMark[v]]
        /\ pvRows' = [v \in PVVersions |-> IF v \notin lost /\ PVReusable(v) THEN pvFile[v].content ELSE 0]
  BY DEF PVBegin
<1>2. \A v \in PVVersions : pvFile[v].content \in Contents /\ pvMark[v] \in 0 .. PVMaxChanges + 1
  <2>1. \A e \in PVEntries : e.content \in Contents
    BY DEF PVEntries
  <2> QED
    BY <2>1, PolicyAssumption
<1>3. pvTodo' \in [PVVersions -> 0 .. PVMaxChanges + 1] /\ pvRows' \in [PVVersions -> Contents]
  BY <1>1, <1>2
<1>4. pvBefore' \in [PVVersions -> Contents]
  BY <1>2 DEF PVBegin
<1>5. PVUnscanned' \subseteq PVVersions /\ Cardinality(PVUnscanned') <= Cardinality(PVVersions)
      /\ Cardinality(PVUnscanned') \in Nat
  <2>1. PVUnscanned' \subseteq PVVersions
    BY DEF PVUnscanned
  <2> QED
    BY <2>1, FS_Subset, FS_CardinalityType
<1>6. pvScanned' \in Nat /\ pvScanned' + Cardinality(PVUnscanned') <= Cardinality(PVVersions)
  BY <1>5 DEF PVBegin
<1> QED
  BY <1>3, <1>4, <1>6 DEF PVBegin

LEMMA PolicyFindEnds ==
    ASSUME PolicyFinder, NEW file \in [PVVersions -> PVEntries], PVFindEnds(file)
    PROVE  PolicyFinder'
<1>1. PVUnscanned' = {} /\ Cardinality({}) = 0
  BY FS_EmptySet DEF PVFindEnds, PVUnscanned, Everyone
<1>2. 0 + 0 <= Cardinality(PVVersions)
  BY PolicyFacts
<1> QED
  BY <1>1, <1>2, PolicyFacts DEF PVFindEnds, PolicyFinder, Everyone

LEMMA PolicyFinderStep ==
    ASSUME PolicyWorld, PolicyFinder, [PolicyNext]_pvVars
    PROVE  PolicyFinder'
<1> USE DEF pvWorld, pvFinder, pvPuller
<1>1. ASSUME UNCHANGED pvFinder PROVE PolicyFinder'
  BY <1>1 DEF PolicyFinder, PVUnscanned
<1>2. CASE PVChange \/ PVPull \/ PVEnds \/ UNCHANGED pvVars
  BY <1>1, <1>2 DEF PVChange, PVPull, PVEnds, pvVars
<1>3. ASSUME NEW k \in PVShardIds,
             \/ \E v \in PVVersions : PVPulls(k, v)
             \/ PVPulled(k) \/ PVWritesFindings(k) \/ PVWritesFailures(k) \/ PVPullDies(k)
      PROVE  PolicyFinder'
  BY <1>1, <1>3 DEF PVPulls, PVPulled, PVWritesFindings, PVWritesFailures, PVPullDies
<1>4. CASE PVAge
  <2>1. pvFile' = [v \in PVVersions |-> [pvFile[v] EXCEPT !.old = pvFile[v].status # "none"]]
        /\ pvCache' = pvFile'
        /\ UNCHANGED <<pvFind, pvTodo, pvBefore, pvRows, pvScanned, pvOut, pvTold, pvTrigger>>
    BY <1>4 DEF PVAge
  <2>2. ASSUME NEW e \in PVEntries PROVE [e EXCEPT !.old = e.status # "none"] \in PVEntries
    <3>1. (e.status # "none") \in BOOLEAN
      BY Zenon
    <3>2. \A old \in BOOLEAN : [e EXCEPT !.old = old] \in PVEntries
      BY DEF PVEntries
    <3> QED
      BY <3>1, <3>2, Zenon
  <2>3. pvFile' \in [PVVersions -> PVEntries]
    <3>1. \A v \in PVVersions : [pvFile[v] EXCEPT !.old = pvFile[v].status # "none"] \in PVEntries
      BY <2>2 DEF PolicyFinder
    <3> QED
      BY <2>1, <3>1
  <2> QED
    BY <2>1, <2>3 DEF PolicyFinder, PVUnscanned
<1>5. CASE PVBegin
  BY <1>5, PolicyBegins
<1>6. ASSUME NEW v \in PVVersions, PVScan(v) \/ PVScanFails(v) PROVE PolicyFinder'
  <2>1. pvTodo[v] # 0 /\ pvTodo[v] \in 0 .. PVMaxChanges + 1 /\ pvNow[v] \in Contents
    BY <1>6 DEF PVScan, PVScanFails, PolicyFinder, PolicyWorld
  <2>2. /\ [status |-> "ok", content |-> pvNow[v], mark |-> pvTodo[v], old |-> FALSE] \in PVEntries
        /\ [status |-> "failed", content |-> 0, mark |-> pvTodo[v], old |-> FALSE] \in PVEntries
    BY <2>1, PolicyFacts DEF PVEntries
  <2> QED
    BY <1>6, <2>1, <2>2, PolicyApplies DEF PVScan, PVScanFails
<1>7. CASE PVScanEnds
  <2>1. PVUnscanned' = {} /\ Cardinality({}) = 0 /\ pvScanned' = pvScanned
    BY <1>7, FS_EmptySet DEF PVScanEnds, PVUnscanned, Everyone
  <2>2. Cardinality(PVUnscanned) \in Nat
    BY PolicyFacts, FS_Subset, FS_CardinalityType DEF PVUnscanned
  <2>3. pvScanned' + Cardinality(PVUnscanned') <= Cardinality(PVVersions)
    BY <2>1, <2>2, PolicyFacts DEF PolicyFinder
  <2> QED
    BY <1>7, <2>3, PolicyFacts DEF PVScanEnds, PolicyFinder, Everyone
<1>8. CASE PVWritesOut
  BY <1>8 DEF PVWritesOut, PolicyFinder, PVUnscanned
<1>9. CASE PVTriggers
  <2>1. pvTrigger' \in BOOLEAN
    BY <1>9, Zenon DEF PVTriggers
  <2> QED
    BY <1>9, <2>1 DEF PVTriggers, PolicyFinder, PVUnscanned
<1>10. CASE PVSaves \/ PVFindDies
  BY <1>10, PolicyFindEnds DEF PVSaves, PVFindDies, PolicyFinder
<1> QED
  BY <1>2, <1>3, <1>4, <1>5, <1>6, <1>7, <1>8, <1>9, <1>10 DEF PolicyNext

\* What the merged output says of a version is what a shard's output says.
LEMMA PolicyMerges ==
    ASSUME PVInv, PolicyPuller, PVEnds
    PROVE  pvFinal' \in [rows : [PVVersions -> Contents], code : {0, 1, 130}, merged : BOOLEAN]
<1> DEFINE holding(v) == {k \in PVActive : pvShardOut[PVFileOf(k)].rows[v] # 0}
           first(v) == CHOOSE k \in holding(v) : \A l \in holding(v) : k <= l
           rows == [v \in PVVersions |-> IF holding(v) = {} THEN 0 ELSE pvShardOut[PVFileOf(first(v))].rows[v]]
           code(merged) == IF PVShards = 1 /\ pvPull[1] = "dead" THEN 130
                           ELSE IF merged /\ \E k \in PVActive : pvShardOut[PVFileOf(k)].failed # {} THEN 1 ELSE 0
<1>1. PICK merged \in BOOLEAN : pvFinal' = [rows |-> rows, code |-> code(merged), merged |-> merged]
  BY DEF PVEnds
<1>2. ASSUME NEW v \in PVVersions, holding(v) # {} PROVE first(v) \in PVActive
  <2>1. holding(v) \subseteq Nat
    BY DEF PVActive, PVShardIds
  <2>2. holding(v) \subseteq PVActive
    OBVIOUS
  <2> HIDE DEF holding
  <2>3. \E k \in holding(v) : \A l \in holding(v) : k <= l
    BY <1>2, <2>1, LeastExists
  <2>4. first(v) \in holding(v)
    BY <2>3
  <2> QED
    BY <2>2, <2>4
<1>3. \A k \in PVActive, v \in PVVersions : pvShardOut[PVFileOf(k)].rows[v] \in Contents
  <2>1. \A k \in PVActive : PVFileOf(k) \in PVFiles
    BY FilesOfShards DEF PVInv
  <2> QED
    BY <2>1 DEF PolicyPuller
<1>4. rows \in [PVVersions -> Contents]
  <2> HIDE DEF first, holding
  <2> QED
    BY <1>2, <1>3, PolicyFacts
<1>5. code(merged) \in {0, 1, 130}
  OBVIOUS
<1> HIDE DEF rows, code
<1> QED
  BY <1>1, <1>4, <1>5

LEMMA PolicyPullerStep ==
    ASSUME PVInv, PolicyWorld, PolicyPuller, [PolicyNext]_pvVars
    PROVE  PolicyPuller'
<1> USE DEF pvWorld, pvFinder
<1>1. ASSUME UNCHANGED pvPuller PROVE PolicyPuller'
  BY <1>1 DEF PolicyPuller, pvPuller
<1>2. CASE PVChange \/ PVAge \/ PVBegin \/ PVScanEnds \/ PVWritesOut \/ PVTriggers \/ UNCHANGED pvVars
  <2>1. UNCHANGED pvPuller
    BY <1>2 DEF PVChange, PVAge, PVBegin, PVScanEnds, PVWritesOut, PVTriggers, pvVars
  <2> QED
    BY <1>1, <2>1
<1>3. CASE PVSaves \/ PVFindDies \/ \E v \in PVVersions : PVScan(v) \/ PVScanFails(v)
  <2>1. UNCHANGED pvPuller
    BY <1>3 DEF PVSaves, PVFindDies, PVFindEnds, PVScan, PVScanFails, PVApply
  <2> QED
    BY <1>1, <2>1
<1> USE DEF pvPuller
<1>4. NotPulled \in PVStates /\ Everyone(NotPulled) \in [PVVersions -> PVStates]
  BY PolicyFacts DEF Everyone
<1>5. CASE PVPull
  <2>1. pvWant' \subseteq PVVersions /\ UNCHANGED <<pvStates, pvShardOut, pvFinal>> /\ pvLimited' = {}
        /\ pvPull' = [k \in PVShardIds |-> IF k <= PVShardCount(pvWant') THEN "pull" ELSE "done"]
    BY <1>5 DEF PVPull
  <2>2. PICK resume \in BOOLEAN : pvMem' = [k \in PVShardIds |->
           IF resume /\ k <= PVShardCount(pvWant') THEN pvStates[<<k, PVShardCount(pvWant')>>]
           ELSE Everyone(NotPulled)]
    BY <1>5 DEF PVPull
  <2>3. PVShardCount(pvWant') \in 0 .. PVShards
    BY <2>1, ShardCount
  <2>4. \A k \in PVShardIds : k <= PVShardCount(pvWant') => <<k, PVShardCount(pvWant')>> \in PVFiles
    BY <2>3, PolicyAssumption DEF PVShardIds, PVFiles
  <2>5. pvMem' \in [PVShardIds -> [PVVersions -> PVStates]]
    BY <1>4, <2>2, <2>4 DEF PolicyPuller
  <2> QED
    BY <2>1, <2>5 DEF PolicyPuller
<1>6. CASE PVEnds
  <2>1. pvFinal' \in [rows : [PVVersions -> Contents], code : {0, 1, 130}, merged : BOOLEAN]
    BY <1>6, PolicyMerges
  <2> QED
    BY <1>4, <1>6, <2>1 DEF PVEnds, PolicyPuller
<1>7. ASSUME NEW k \in PVShardIds, NEW v \in PVVersions, PVPulls(k, v)
      PROVE  PolicyPuller'
  <2>1. k \in PVActive /\ PVFileOf(k) \in PVFiles
    BY <1>7, WorkingShard DEF PVPulls
  <2>2. PICK status \in {"ok", "partial", "failed"} :
          /\ pvMem' = [pvMem EXCEPT ![k] = [pvMem[k] EXCEPT ![v] =
               [status |-> status, content |-> IF status = "ok" THEN pvNow[v] ELSE 0]]]
          /\ pvStates' = [pvStates EXCEPT ![PVFileOf(k)] = pvMem'[k]]
    BY <1>7 DEF PVPulls
  <2> DEFINE entry == [status |-> status, content |-> IF status = "ok" THEN pvNow[v] ELSE 0]
  <2>3. entry \in PVStates
    BY PolicyFacts DEF PVStates, PolicyWorld
  <2> HIDE DEF entry
  <2>4. pvMem' = [pvMem EXCEPT ![k] = [pvMem[k] EXCEPT ![v] = entry]]
    BY <2>2 DEF entry
  <2>5. pvMem' \in [PVShardIds -> [PVVersions -> PVStates]]
    BY <2>3, <2>4 DEF PolicyPuller
  <2>6. pvStates' \in [PVFiles -> [PVVersions -> PVStates]]
    BY <2>1, <2>2, <2>5 DEF PolicyPuller
  <2> QED
    BY <1>7, <2>5, <2>6 DEF PVPulls, PolicyPuller
<1>8. ASSUME NEW k \in PVShardIds, PVPulled(k) \/ PVPullDies(k)
      PROVE  PolicyPuller'
  <2>1. k \in PVActive /\ PVFileOf(k) \in PVFiles
    BY <1>8, WorkingShard DEF PVPulled, PVPullDies
  <2>2. pvStates' = pvStates \/ pvStates' = [pvStates EXCEPT ![PVFileOf(k)] = pvMem[k]]
    BY <1>8 DEF PVPulled, PVPullDies
  <2>3. pvStates' \in [PVFiles -> [PVVersions -> PVStates]]
    <3>1. pvStates \in [PVFiles -> [PVVersions -> PVStates]] /\ pvMem[k] \in [PVVersions -> PVStates]
      BY DEF PolicyPuller
    <3> QED
      BY <2>1, <2>2, <3>1
  <2>4. pvLimited' \in {pvLimited, pvLimited \cup {k}}
    BY <1>8 DEF PVPulled, PVPullDies
  <2>5. \E at \in {"findings", "dead"} : pvPull' = [pvPull EXCEPT ![k] = at]
    BY <1>8 DEF PVPulled, PVPullDies
  <2>6. UNCHANGED <<pvWant, pvMem, pvShardOut, pvFinal>>
    BY <1>8 DEF PVPulled, PVPullDies
  <2> QED
    BY <2>3, <2>4, <2>5, <2>6 DEF PolicyPuller
<1>9. ASSUME NEW k \in PVShardIds, PVWritesFindings(k) \/ PVWritesFailures(k)
      PROVE  PolicyPuller'
  <2> DEFINE held == pvShardOut[PVFileOf(k)]
             written == [v \in PVVersions |-> IF v \in PVMine(k) THEN pvMem[k][v].content ELSE 0]
             Outs == [rows : [PVVersions -> Contents], failed : SUBSET PVVersions]
  <2>1. k \in PVActive /\ PVFileOf(k) \in PVFiles
    BY <1>9, WorkingShard DEF PVWritesFindings, PVWritesFailures
  <2>2. held \in Outs
    BY <2>1 DEF PolicyPuller
  <2>3. written \in [PVVersions -> Contents]
    <3>1. \A v \in PVVersions : pvMem[k][v] \in PVStates
      BY DEF PolicyPuller
    <3>2. \A v \in PVVersions : pvMem[k][v].content \in Contents
      BY <3>1 DEF PVStates
    <3> QED
      BY <3>2, PolicyFacts
  <2>4. PVFailed(k) \in SUBSET PVVersions
    BY DEF PVFailed, PVMine, PolicyPuller
  <2>5. pvShardOut' = [pvShardOut EXCEPT ![PVFileOf(k)] = [held EXCEPT !.rows = written]]
        \/ pvShardOut' = [pvShardOut EXCEPT ![PVFileOf(k)] = [held EXCEPT !.failed = PVFailed(k)]]
    BY <1>9 DEF PVWritesFindings, PVWritesFailures
  <2>6. /\ UNCHANGED <<pvWant, pvStates, pvMem, pvFinal, pvLimited>>
        /\ \E at \in {"failures", "done"} : pvPull' = [pvPull EXCEPT ![k] = at]
    BY <1>9 DEF PVWritesFindings, PVWritesFailures
  <2> HIDE DEF held, written
  <2>7. [held EXCEPT !.rows = written] \in Outs /\ [held EXCEPT !.failed = PVFailed(k)] \in Outs
    BY <2>2, <2>3, <2>4
  <2>8. pvShardOut' \in [PVFiles -> Outs]
    <3>1. PICK out \in Outs : pvShardOut' = [pvShardOut EXCEPT ![PVFileOf(k)] = out]
      BY <2>5, <2>7
    <3> QED
      BY <3>1 DEF PolicyPuller
  <2> QED
    BY <2>6, <2>8 DEF PolicyPuller
<1> QED
  BY <1>2, <1>3, <1>5, <1>6, <1>7, <1>8, <1>9 DEF PolicyNext

(* No run of the finder scans more versions than there are, and cache,        *)
(* candidates, shards' states and merged output stay well-formed, whatever    *)
(* changes, fails or dies.  (policy_vuln_find.py process, save_cache;         *)
(* policy_vuln_pull.py process, run_sharded.)                                 *)
THEOREM PolicyWellTyped == PolicySpec => []PolicyTypeOK
<1>1. PolicyInit => PVInv /\ PolicyWorld /\ PolicyFinder /\ PolicyPuller
  BY PolicyInitInv, PolicyInitKinds
<1>2. PolicyWorld /\ [PolicyNext]_pvVars => PolicyWorld'
  BY PolicyWorldStep
<1>3. PolicyWorld /\ PolicyFinder /\ [PolicyNext]_pvVars => PolicyFinder'
  BY PolicyFinderStep
<1>4. PVInv /\ PolicyWorld /\ PolicyPuller /\ [PolicyNext]_pvVars => PolicyPuller'
  BY PolicyPullerStep
<1>5. PolicyWorld /\ PolicyFinder /\ PolicyPuller => PolicyTypeOK
  <2> SUFFICES ASSUME PolicyWorld, PolicyFinder, PolicyPuller PROVE PolicyTypeOK
    OBVIOUS
  <2>1. Cardinality(PVUnscanned) \in Nat
    BY PolicyFacts, FS_Subset, FS_CardinalityType DEF PVUnscanned
  <2>2. pvScanned <= Cardinality(PVVersions)
    BY <2>1, PolicyFacts DEF PolicyFinder
  <2> QED
    BY <2>2 DEF PolicyWorld, PolicyFinder, PolicyPuller, PolicyTypeOK
<1> QED
  BY <1>1, <1>2, <1>3, <1>4, <1>5, PolicyStepInv, PTL DEF PolicySpec

-----------------------------------------------------------------------------
(* The publisher of the events.                                            *)

DDTypes ==
  /\ ddFile = [s \in DDSubjects |-> ddFile[s]] /\ ddMem = [s \in DDSubjects |-> ddMem[s]]
  /\ ddLast = [s \in DDSubjects |-> ddLast[s]] /\ ddPlan \subseteq DDEvents
  /\ ddPc \in {"idle", "send", "checkpoint", "save"}

\* Where the memory differs from the file, Datadog was told, or need not be.
DDMemoryTrue ==
  \A s \in DDSubjects : ddMem[s] # ddFile[s] =>
    \/ ddLast[s] # "none" /\ ddMem[s] = DDStatus(ddLast[s])
    \/ DDClosedSilently(s)

\* What is still to be sent is about a subject of its own, of which the
\* memory knows no more than the file: an answer that is lost contradicts
\* nothing.
DDPlanFresh ==
  /\ \A e \in ddPlan : ddMem[e.on] = ddFile[e.on]
  /\ \A d, e \in ddPlan : d # e => d.on # e.on

DDInv ==
  /\ DDTypes /\ DDMemoryTrue /\ DDPlanFresh
  /\ ddPc = "idle" => ddMem = ddFile
  /\ ddArgs.dry => ddPc \in {"idle", "save"}

LEMMA DatadogInitInv == DatadogInit => DDInv
  BY DEF DatadogInit, DDInv, DDTypes, DDMemoryTrue, DDPlanFresh

LEMMA DatadogBegins ==
    ASSUME DDInv, DDBegin
    PROVE  DDInv'
<1>1. /\ ddMem' = [s \in DDSubjects |-> IF DDClosedSilently(s) THEN "resolved" ELSE ddFile[s]]
      /\ ddPlan' = DDSelect({e \in DDEvents : DDWants(e)})
      /\ ddPc' = (IF ddArgs.dry THEN "save" ELSE "send")
      /\ UNCHANGED <<ddFindings, ddArgs, ddFile, ddLast>>
  BY DEF DDBegin
<1>2. \A e \in ddPlan' : e \in DDEvents /\ DDWants(e)
  BY <1>1 DEF DDSelect
<1>3. DDTypes'
  BY <1>1, <1>2 DEF DDInv, DDTypes
<1>4. DDMemoryTrue'
  BY <1>1 DEF DDMemoryTrue, DDClosedSilently, DDWantsResolved, DDCurrent
<1>5. DDPlanFresh'
  <2>1. \A e \in ddPlan' : ddMem'[e.on] = ddFile'[e.on]
    <3> SUFFICES ASSUME NEW e \in ddPlan' PROVE ddMem'[e.on] = ddFile'[e.on]
      OBVIOUS
    <3>1. e.on \in DDSubjects /\ e.on.kind \in DDKinds(ddArgs.mode)
      BY <1>2 DEF DDEvents, DDWants
    <3>2. ~DDClosedSilently(e.on)
      BY <3>1 DEF DDClosedSilently
    <3> QED
      BY <1>1, <3>1, <3>2
  <2>2. ASSUME NEW d \in ddPlan', NEW e \in ddPlan', d # e
        PROVE  d.on # e.on
    <3>1. d.verb \in {"open", "resolved"} /\ e.verb \in {"open", "resolved"}
          /\ d = [verb |-> d.verb, on |-> d.on] /\ e = [verb |-> e.verb, on |-> e.on]
      BY <1>2 DEF DDEvents
    <3>2. IF d.verb = "open" THEN d.on \in DDCurrent ELSE d.on \notin DDCurrent
      BY <1>2 DEF DDWants, DDWantsOpen, DDWantsResolved
    <3>3. IF e.verb = "open" THEN e.on \in DDCurrent ELSE e.on \notin DDCurrent
      BY <1>2 DEF DDWants, DDWantsOpen, DDWantsResolved
    <3> QED
      BY <2>2, <3>1, <3>2, <3>3
  <2> QED
    BY <2>1, <2>2 DEF DDPlanFresh
<1> QED
  BY <1>1, <1>3, <1>4, <1>5 DEF DDInv

\* The event that is sent leaves the plan, or is tried again.
LEMMA DatadogSends ==
    ASSUME DDInv, NEW e \in DDEvents, DDAccepted(e) \/ DDLost(e) \/ DDRefused(e)
    PROVE  DDInv'
<1>1. e \in ddPlan /\ e.on \in DDSubjects /\ ddPc = "send" /\ ~ddArgs.dry
  BY DEF DDAccepted, DDLost, DDRefused, DDSending, DDEvents, DDInv
<1>2. /\ UNCHANGED <<ddFindings, ddArgs, ddFile>> /\ ddPlan' \subseteq ddPlan
      /\ ddPc' \in {"send", "checkpoint"}
  BY <1>1 DEF DDAccepted, DDLost, DDRefused, DDNextEvent
<1>3. \/ /\ ddMem' = [ddMem EXCEPT ![e.on] = DDStatus(e.verb)]
         /\ ddLast' = [ddLast EXCEPT ![e.on] = e.verb] /\ e \notin ddPlan'
      \/ /\ ddMem' = ddMem
         /\ ddLast' = ddLast \/ ddLast' = [ddLast EXCEPT ![e.on] = e.verb]
  BY DEF DDAccepted, DDLost, DDRefused, DDNextEvent, DDDelivered
<1>4. DDTypes'
  BY <1>2, <1>3 DEF DDInv, DDTypes
<1>5. ddMem[e.on] = ddFile[e.on] /\ \A d \in ddPlan : d # e => d.on # e.on
  BY <1>1 DEF DDInv, DDPlanFresh
<1>6. \A s \in DDSubjects : DDClosedSilently(s) => DDClosedSilently(s)'
  BY <1>2 DEF DDClosedSilently, DDWantsResolved, DDCurrent
<1>7. DDMemoryTrue'
  <2> SUFFICES ASSUME NEW s \in DDSubjects, ddMem'[s] # ddFile'[s]
               PROVE  (ddLast'[s] # "none" /\ ddMem'[s] = DDStatus(ddLast'[s])) \/ DDClosedSilently(s)'
    BY DEF DDMemoryTrue
  <2>1. CASE s = e.on
    <3>1. ddMem' # ddMem
      BY <1>2, <1>5, <2>1
    <3>2. ddMem'[s] = DDStatus(e.verb) /\ ddLast'[s] = e.verb
      BY <1>3, <2>1, <3>1 DEF DDInv, DDTypes
    <3>3. e.verb # "none"
      BY DEF DDEvents
    <3> QED
      BY <3>2, <3>3
  <2>2. CASE s # e.on
    <3>1. ddMem'[s] = ddMem[s] /\ ddLast'[s] = ddLast[s] /\ ddFile'[s] = ddFile[s]
      BY <1>2, <1>3, <2>2 DEF DDInv, DDTypes
    <3> QED
      BY <1>6, <3>1 DEF DDInv, DDMemoryTrue
  <2> QED
    BY <2>1, <2>2
<1>8. DDPlanFresh'
  <2>1. \A d \in ddPlan' : ddMem'[d.on] = ddFile'[d.on]
    <3> SUFFICES ASSUME NEW d \in ddPlan' PROVE ddMem'[d.on] = ddFile'[d.on]
      OBVIOUS
    <3>1. ddMem[d.on] = ddFile[d.on] /\ d.on \in DDSubjects /\ d \in ddPlan
      BY <1>2 DEF DDInv, DDTypes, DDPlanFresh, DDEvents
    <3>2. ddMem' = ddMem \/ d.on # e.on
      BY <1>3, <1>5, <3>1
    <3>3. ddMem'[d.on] = ddMem[d.on]
      BY <1>3, <3>1, <3>2 DEF DDInv, DDTypes
    <3> QED
      BY <1>2, <3>1, <3>3
  <2> QED
    BY <1>2, <2>1 DEF DDInv, DDPlanFresh
<1> QED
  BY <1>1, <1>2, <1>4, <1>7, <1>8 DEF DDInv

\* The run is over, or dies: what it knew is saved, or gone.
LEMMA DatadogRests ==
    ASSUME DDInv, DDFinish \/ DDCrash \/ \E e \in DDEvents : DDOddAnswer(e)
    PROVE  DDInv'
<1>1. ddMem' = ddFile' /\ ddPlan' = {} /\ ddPc' = "idle"
  BY DEF DDFinish, DDCrash, DDOddAnswer
<1>2. ddFile' = ddFile \/ ddFile' = ddMem
  BY DEF DDFinish, DDCrash, DDOddAnswer
<1>3. ddLast' = [s \in DDSubjects |-> ddLast'[s]]
  BY DEF DDFinish, DDCrash, DDOddAnswer, DDDelivered, DDInv, DDTypes
<1> QED
  BY <1>1, <1>2, <1>3 DEF DDInv, DDTypes, DDMemoryTrue, DDPlanFresh

LEMMA DatadogGoesOn ==
    ASSUME DDInv, DDChange \/ DDCheckpointSaves \/ DDLoopEnds
    PROVE  DDInv'
<1>1. CASE DDChange
  <2>1. ddMem' = ddFile' /\ ddPc' = "idle" /\ UNCHANGED <<ddFile, ddMem, ddPlan, ddLast, ddPc>>
    BY <1>1 DEF DDChange, DDInv
  <2> QED
    BY <2>1 DEF DDInv, DDTypes, DDMemoryTrue, DDPlanFresh
<1>2. CASE DDCheckpointSaves
  <2>1. ddMem' = ddFile' /\ ddPc' = "send" /\ UNCHANGED <<ddMem, ddPlan, ddLast, ddArgs>> /\ ~ddArgs.dry
    BY <1>2 DEF DDCheckpointSaves, DDInv
  <2> QED
    BY <2>1 DEF DDInv, DDTypes, DDMemoryTrue, DDPlanFresh
<1>3. CASE DDLoopEnds
  <2>1. UNCHANGED <<ddFindings, ddArgs, ddFile, ddMem, ddPlan, ddLast>> /\ ddPc' = "save"
    BY <1>3 DEF DDLoopEnds
  <2>2. \A s \in DDSubjects : DDClosedSilently(s) => DDClosedSilently(s)'
    BY <2>1 DEF DDClosedSilently, DDWantsResolved, DDCurrent
  <2> QED
    BY <2>1, <2>2 DEF DDInv, DDTypes, DDMemoryTrue, DDPlanFresh
<1> QED
  BY <1>1, <1>2, <1>3

LEMMA DatadogStepInv == DDInv /\ [DatadogNext]_ddVars => DDInv'
<1> SUFFICES ASSUME DDInv, [DatadogNext]_ddVars PROVE DDInv'
  OBVIOUS
<1>1. CASE UNCHANGED ddVars
  BY <1>1 DEF ddVars, DDInv, DDTypes, DDMemoryTrue, DDPlanFresh, DDClosedSilently, DDWantsResolved, DDCurrent
<1>2. CASE DatadogNext
  BY <1>2, DatadogBegins, DatadogSends, DatadogRests, DatadogGoesOn DEF DatadogNext
<1> QED
  BY <1>1, <1>2

(* The state file follows Datadog: a status that a save changes is what      *)
(* Datadog was last told, whatever was lost, refused or sent twice.          *)
(* (record_event, update_*_state, save_state.)                               *)
THEOREM SavesWhatWasTaken == DatadogSpec => DatadogSavesWhatWasTaken
<1>1. DDInv /\ [DatadogNext]_ddVars =>
        [\A s \in DDSubjects : ddFile'[s] # ddFile[s] =>
           /\ ~ddArgs.dry
           /\ \/ ddLast[s] # "none" /\ ddFile'[s] = DDStatus(ddLast[s])
              \/ DDClosedSilently(s)]_ddVars
  <2> SUFFICES ASSUME DDInv, DatadogNext, NEW s \in DDSubjects, ddFile'[s] # ddFile[s]
               PROVE  /\ ~ddArgs.dry
                      /\ \/ ddLast[s] # "none" /\ ddFile'[s] = DDStatus(ddLast[s])
                         \/ DDClosedSilently(s)
    OBVIOUS
  <2>1. DDCheckpointSaves \/ DDFinish
    BY DEF DatadogNext, DDChange, DDBegin, DDAccepted, DDLost, DDRefused, DDOddAnswer, DDLoopEnds, DDCrash
  <2>2. ddFile' = ddMem /\ ~ddArgs.dry
    BY <2>1 DEF DDCheckpointSaves, DDFinish, DDInv
  <2> QED
    BY <2>2 DEF DDInv, DDMemoryTrue
<1> QED
  BY <1>1, DatadogInitInv, DatadogStepInv, PTL DEF DatadogSpec, DatadogSavesWhatWasTaken

\* There are finitely many events, and their turns put them in one order.
LEMMA DatadogEvents == IsFiniteSet(DDEvents)
<1>1. \A kind \in DDKindSet : IsFiniteSet([kind : {kind}, id : 1 .. DDCount[kind]])
  <2> SUFFICES ASSUME NEW kind \in DDKindSet PROVE IsFiniteSet([kind : {kind}, id : 1 .. DDCount[kind]])
    OBVIOUS
  <2> DEFINE subject == [i \in 1 .. DDCount[kind] |-> [kind |-> kind, id |-> i]]
  <2>1. IsFiniteSet(1 .. DDCount[kind])
    BY DatadogAssumption, FS_Interval
  <2>2. subject \in Surjection(1 .. DDCount[kind], [kind : {kind}, id : 1 .. DDCount[kind]])
    BY DEF Surjection
  <2> HIDE DEF subject
  <2> QED
    BY <2>1, <2>2, FS_Surjection
<1>2. IsFiniteSet(DDSubjects)
  <2> DEFINE some(kind) == [kind : {kind}, id : 1 .. DDCount[kind]]
  <2>1. DDSubjects = (some("project") \cup some("vulnerability")) \cup some("finding")
    BY DEF DDSubjects, DDKindSet
  <2>2. IsFiniteSet(some("project")) /\ IsFiniteSet(some("vulnerability")) /\ IsFiniteSet(some("finding"))
    BY <1>1 DEF DDKindSet
  <2> HIDE DEF some
  <2> QED
    BY <2>1, <2>2, FS_Union
<1>3. IsFiniteSet({"open", "resolved"} \X DDSubjects)
  <2>1. IsFiniteSet({"open", "resolved"})
    <3>1. {"open", "resolved"} = {"open"} \cup {"resolved"}
      OBVIOUS
    <3>2. IsFiniteSet({"open"}) /\ IsFiniteSet({"resolved"})
      BY FS_Singleton
    <3>3. IsFiniteSet({"open"} \cup {"resolved"})
      BY <3>2, FS_Union
    <3> QED
      BY <3>1, <3>3
  <2> QED
    BY <1>2, <2>1, FS_Product
<1> DEFINE event == [p \in {"open", "resolved"} \X DDSubjects |-> [verb |-> p[1], on |-> p[2]]]
<1>4. event \in Surjection({"open", "resolved"} \X DDSubjects, DDEvents)
  <2>1. event \in [{"open", "resolved"} \X DDSubjects -> DDEvents]
    BY DEF DDEvents
  <2>2. ASSUME NEW e \in DDEvents
        PROVE  \E p \in {"open", "resolved"} \X DDSubjects : event[p] = e
    <3>1. <<e.verb, e.on>> \in {"open", "resolved"} \X DDSubjects /\ e = [verb |-> e.verb, on |-> e.on]
      BY DEF DDEvents
    <3> QED
      BY <3>1
  <2> QED
    BY <2>1, <2>2 DEF Surjection
<1> HIDE DEF event
<1> QED
  BY <1>3, <1>4, FS_Surjection

LEMMA DatadogTurns ==
  /\ \A e \in DDEvents : ~DDBefore(e, e)
  /\ \A d, e \in DDEvents : d = e \/ DDBefore(d, e) \/ DDBefore(e, d)
  /\ \A d, e, f \in DDEvents : DDBefore(d, e) /\ DDBefore(e, f) => DDBefore(d, f)
<1> DEFINE turn(e) == DDTurn[e.verb][e.on.kind]
<1>1. \A e \in DDEvents :
        /\ e.verb \in {"open", "resolved"} /\ e.on.kind \in DDKindSet /\ e.on.id \in Nat
        /\ e = [verb |-> e.verb, on |-> [kind |-> e.on.kind, id |-> e.on.id]]
  <2> SUFFICES ASSUME NEW e \in DDEvents
               PROVE  /\ e.verb \in {"open", "resolved"} /\ e.on.kind \in DDKindSet /\ e.on.id \in Nat
                      /\ e = [verb |-> e.verb, on |-> [kind |-> e.on.kind, id |-> e.on.id]]
    OBVIOUS
  <2>1. e.verb \in {"open", "resolved"} /\ e = [verb |-> e.verb, on |-> e.on] /\ e.on \in DDSubjects
    BY DEF DDEvents
  <2>2. PICK kind \in DDKindSet : e.on \in [kind : {kind}, id : 1 .. DDCount[kind]]
    BY <2>1 DEF DDSubjects
  <2>3. e.on = [kind |-> e.on.kind, id |-> e.on.id] /\ e.on.kind = kind /\ e.on.id \in 1 .. DDCount[kind]
    BY <2>2
  <2>4. DDCount[kind] \in Nat
    BY DatadogAssumption
  <2> QED
    BY <2>1, <2>2, <2>3, <2>4
<1>2. \A e \in DDEvents : turn(e) \in Nat
  BY <1>1 DEF DDTurn, DDKindSet
<1>3. \A d, e \in DDEvents : turn(d) = turn(e) => d.verb = e.verb /\ d.on.kind = e.on.kind
  BY <1>1 DEF DDTurn, DDKindSet
<1>4. \A d, e \in DDEvents : DDBefore(d, e) <=> turn(d) < turn(e) \/ (turn(d) = turn(e) /\ d.on.id < e.on.id)
  BY DEF DDBefore
<1> HIDE DEF turn
<1>5. \A e \in DDEvents : ~DDBefore(e, e)
  BY <1>1, <1>2, <1>4
<1>6. ASSUME NEW d \in DDEvents, NEW e \in DDEvents PROVE d = e \/ DDBefore(d, e) \/ DDBefore(e, d)
  <2>1. CASE turn(d) = turn(e) /\ d.on.id = e.on.id
    BY <1>1, <1>3, <2>1
  <2>2. CASE ~(turn(d) = turn(e) /\ d.on.id = e.on.id)
    BY <1>1, <1>2, <1>4, <2>2
  <2> QED
    BY <2>1, <2>2
<1>7. \A d, e, f \in DDEvents : DDBefore(d, e) /\ DDBefore(e, f) => DDBefore(d, f)
  BY <1>1, <1>2, <1>4
<1> QED
  BY <1>5, <1>6, <1>7

\* A plan is no larger than --max-send.
LEMMA DatadogSelects ==
    ASSUME NEW planned \in SUBSET DDEvents
    PROVE  DDSelect(planned) \subseteq DDEvents
           /\ (DDMaxSend = 0 \/ Cardinality(DDSelect(planned)) <= DDMaxSend)
<1>1. DDSelect(planned) \subseteq DDEvents
  BY DEF DDSelect
<1>2. CASE DDMaxSend # 0
  <2>1. IsFiniteSet(planned) /\ DDMaxSend \in Nat
    BY DatadogEvents, FS_Subset, DatadogAssumption
  <2>2. /\ \A e \in planned : ~DDBefore(e, e)
        /\ \A d, e \in planned : d = e \/ DDBefore(d, e) \/ DDBefore(e, d)
        /\ \A d, e, f \in planned : DDBefore(d, e) /\ DDBefore(e, f) => DDBefore(d, f)
    BY DatadogTurns
  <2> DEFINE earlier == [e \in planned |-> {d \in planned : DDBefore(d, e)}]
             first == DDSelect(planned)
  <2>3. earlier \in [planned -> SUBSET planned] /\ \A d, e \in planned : DDBefore(d, e) <=> d \in earlier[e]
    OBVIOUS
  <2>4. first \in SUBSET planned /\ \A e \in first : Cardinality(earlier[e]) < DDMaxSend
    BY <1>2 DEF DDSelect
  <2>5. Cardinality(DDSelect(planned)) <= DDMaxSend
    <3> HIDE DEF earlier
    <3>1. /\ \A e \in planned : e \notin earlier[e]
          /\ \A d, e \in planned : d = e \/ d \in earlier[e] \/ e \in earlier[d]
          /\ \A d, e, f \in planned : d \in earlier[e] /\ e \in earlier[f] => d \in earlier[f]
      BY <2>2, <2>3
    <3> HIDE DEF first
    <3>2. DDMaxSend \in Nat
      BY DatadogAssumption
    <3>3. Cardinality(first) <= DDMaxSend
      BY <2>1, <2>3, <2>4, <3>1, <3>2, FirstOnes
    <3> QED
      BY <3>3 DEF first
  <2> QED
    BY <1>1, <2>5
<1> QED
  BY <1>1, <1>2

LEMMA DatadogInitTypes == DatadogInit => DatadogTypeOK
<1> SUFFICES ASSUME DatadogInit PROVE DatadogTypeOK
  OBVIOUS
<1>1. Cardinality(ddPlan) = 0
  BY FS_EmptySet DEF DatadogInit
<1> QED
  BY <1>1, DatadogAssumption DEF DatadogInit, DatadogTypeOK

LEMMA DatadogBeginTypes ==
    ASSUME DatadogTypeOK, DDBegin
    PROVE  DatadogTypeOK'
<1>1. /\ ddMem' = [s \in DDSubjects |-> IF DDClosedSilently(s) THEN "resolved" ELSE ddFile[s]]
      /\ ddPlan' = DDSelect({e \in DDEvents : DDWants(e)}) /\ ddTry' = 0 /\ ddSent' = 0
      /\ ddPc' \in {"save", "send"}
      /\ UNCHANGED <<ddFindings, ddArgs, ddFile, ddLast, ddFaults, ddChanges>>
  BY DEF DDBegin
<1>2. ddPlan' \subseteq DDEvents /\ (DDMaxSend = 0 \/ Cardinality(ddPlan') <= DDMaxSend)
  BY <1>1, DatadogSelects
<1>3. ddMem' \in [DDSubjects -> {"absent", "active", "resolved"}]
  BY <1>1 DEF DatadogTypeOK
<1> QED
  BY <1>1, <1>2, <1>3, DatadogAssumption DEF DatadogTypeOK

\* The plan only shrinks.
LEMMA DatadogSmaller ==
    ASSUME DatadogTypeOK, ddPlan' \subseteq ddPlan
    PROVE  ddPlan' \subseteq DDEvents /\ (DDMaxSend = 0 \/ Cardinality(ddPlan') <= DDMaxSend)
<1>1. IsFiniteSet(ddPlan)
  BY DatadogEvents, FS_Subset DEF DatadogTypeOK
<1>2. IsFiniteSet(ddPlan') /\ Cardinality(ddPlan') <= Cardinality(ddPlan)
  BY <1>1, FS_Subset
<1>3. Cardinality(ddPlan) \in Nat /\ Cardinality(ddPlan') \in Nat
  BY <1>1, <1>2, FS_CardinalityType
<1> QED
  BY <1>2, <1>3, DatadogAssumption DEF DatadogTypeOK

LEMMA DatadogTypesStep == DatadogTypeOK /\ [DatadogNext]_ddVars => DatadogTypeOK'
<1> SUFFICES ASSUME DatadogTypeOK, [DatadogNext]_ddVars PROVE DatadogTypeOK'
  OBVIOUS
<1> USE DatadogAssumption
<1>1. CASE UNCHANGED ddVars
  BY <1>1 DEF ddVars, DatadogTypeOK
<1>2. CASE DDChange
  BY <1>2 DEF DDChange, DatadogTypeOK
<1>3. CASE DDBegin
  BY <1>3, DatadogBeginTypes
<1>4. ASSUME NEW e \in DDEvents, DDAccepted(e) \/ DDLost(e) \/ DDRefused(e) \/ DDOddAnswer(e)
      PROVE  DatadogTypeOK'
  <2>1. e.on \in DDSubjects /\ e.verb \in {"open", "resolved"} /\ DDStatus(e.verb) \in {"active", "resolved"}
    BY DEF DDEvents, DDStatus
  <2>2. ddPlan' \subseteq ddPlan
    BY <1>4 DEF DDAccepted, DDLost, DDRefused, DDOddAnswer, DDNextEvent
  <2>3. ddPlan' \subseteq DDEvents /\ (DDMaxSend = 0 \/ Cardinality(ddPlan') <= DDMaxSend)
    BY <2>2, DatadogSmaller
  <2>4. /\ ddTry' \in 0 .. DDRetries /\ ddPc' \in {"idle", "send", "checkpoint", "save"}
        /\ ddFaults' \in 0 .. DDMaxFaults
        /\ UNCHANGED <<ddFindings, ddArgs, ddFile, ddChanges>>
    BY <1>4 DEF DDAccepted, DDLost, DDRefused, DDOddAnswer, DDNextEvent, DatadogTypeOK
  <2>5. ddSent' \in Nat
    BY <1>4 DEF DDAccepted, DDLost, DDRefused, DDOddAnswer, DatadogTypeOK
  <2>6. ddMem' \in [DDSubjects -> {"absent", "active", "resolved"}]
    <3>1. ddMem' \in {ddMem, ddFile, [ddMem EXCEPT ![e.on] = DDStatus(e.verb)]}
      BY <1>4 DEF DDAccepted, DDLost, DDRefused, DDOddAnswer, DDNextEvent
    <3> QED
      BY <2>1, <3>1 DEF DatadogTypeOK
  <2>7. ddLast' \in [DDSubjects -> {"none", "open", "resolved"}]
    <3>1. ddLast' \in {ddLast, [ddLast EXCEPT ![e.on] = e.verb]}
      BY <1>4 DEF DDAccepted, DDLost, DDRefused, DDOddAnswer, DDDelivered
    <3> QED
      BY <2>1, <3>1 DEF DatadogTypeOK
  <2> QED
    BY <2>3, <2>4, <2>5, <2>6, <2>7 DEF DatadogTypeOK
<1>5. CASE DDCheckpointSaves \/ DDLoopEnds
  BY <1>5 DEF DDCheckpointSaves, DDLoopEnds, DatadogTypeOK
<1>6. CASE DDFinish \/ DDCrash
  <2>1. ddPlan' = {} /\ Cardinality({}) = 0
    BY <1>6, FS_EmptySet DEF DDFinish, DDCrash
  <2> QED
    BY <1>6, <2>1 DEF DDFinish, DDCrash, DatadogTypeOK
<1> QED
  BY <1>1, <1>2, <1>3, <1>4, <1>5, <1>6 DEF DatadogNext

(* A run of the publisher plans no more events than --max-send allows it  *)
(* (apply_max_send), and tries none more often than its retries allow.    *)
THEOREM DatadogWellTyped == DatadogSpec => []DatadogTypeOK
  BY DatadogInitTypes, DatadogTypesStep, PTL DEF DatadogSpec
=============================================================================
