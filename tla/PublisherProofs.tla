--------------------------- MODULE PublisherProofs ---------------------------
(***************************************************************************)
(* Theorems about the publishers and the roll-up, for any set of nodes and *)
(* any tree of versions, any number of faults and any number of runs.      *)
(***************************************************************************)
EXTENDS Publishers, FiniteSetTheorems, SequenceTheorems, TLAPS

(* A set of natural numbers that is not empty has a smallest member: the   *)
(* order in which a publisher visits its nodes is defined by it.           *)
LEMMA SmallestExists ==
    ASSUME NEW S, S \subseteq Nat, S # {}
    PROVE  \E m \in S : \A k \in S : m <= k
<1> DEFINE less == {ss \in Nat \X Nat : ss[1] < ss[2]}
<1>1. IsWellFoundedOn(less, Nat)
  BY NatLessThanWellFounded DEF OpToRel
<1>2. PICK m \in S : \A k \in S : <<k, m>> \notin less
  <2> HIDE DEF less
  <2> QED
    BY <1>1, WFMin
<1>3. \A k \in S : ~(k < m)
  BY <1>2
<1> QED
  BY <1>2, <1>3

-----------------------------------------------------------------------------
(* Product publishing.                                                     *)

IssuesOf(n) == {i \in ppIssues : i.node = n}

\* Another issue of n would still be accounted for.
HasRoom(n) == Cardinality(IssuesOf(n)) <= ppDropped[n]

ProductRuns == {"nodes", "posting", "answered"}

\* What a run knows of itself: it has a plan, it POSTs for a node without a
\* key whose creation is noted, within --max-create, and has the key of
\* what it was answered.
ProductPosition ==
  /\ ppPc # "idle" => ppPlan # {}
  /\ ppPc \in {"posting", "answered"} => ppAt \in ppPending /\ ppCreated < PPMaxCreate
  /\ ppPc = "posting" => ppKeys[ppAt] = 0
  /\ ppPc = "answered" => ppKeys[ppAt] # 0

\* A node has issues beyond the dropped ones only while it is on record or
\* its creation is noted.
ProductAccounted ==
  \A n \in PPNodes : ppFile[n] = 0 /\ n \notin ppPending => HasRoom(n)

\* Once the preflight has passed, what has no key may be created.
ProductMayCreate ==
  ppPc \in ProductRuns => \A n \in ppPlan : ppKeys[n] = 0 => HasRoom(n)

ProductInv ==
  /\ ProductTypeOK
  /\ IsFiniteSet(ppIssues)
  /\ ProductPosition
  /\ ProductAccounted
  /\ ProductMayCreate
  /\ ProductNeverTwice

LEMMA NoKeysType ==
    NoKeys \in [PPNodes -> Nat] /\ \A n \in PPNodes : NoKeys[n] = 0
  BY DEF NoKeys

LEMMA ProductAssumed ==
    /\ PPNodes \subseteq Nat /\ 0 \notin PPNodes
    /\ \A n \in PPNodes : PPParent[n] \in PPNodes \cup {0}
    /\ \A plan \in PPPlans : plan \subseteq PPNodes /\ plan # {}
    /\ PPMaxCreate \in Nat \ {0} /\ PPMaxFaults \in Nat /\ PPMaxRuns \in Nat
  BY ProductAssumption

(* The node after another one is in the plan, and a plan has a first node. *)
LEMMA ProductOrder ==
    ASSUME ProductTypeOK
    PROVE  /\ \A n \in PPNodes \cup {0} : PPAfter(n) \in ppPlan \cup {0}
           /\ ppPlan # {} => PPAfter(0) \in ppPlan
<1> USE ProductAssumed DEF ProductTypeOK
<1>1. ASSUME NEW n \in PPNodes \cup {0}, \E m \in ppPlan : m > n
      PROVE  PPAfter(n) \in ppPlan
  <2> DEFINE later == {m \in ppPlan : m > n}
  <2>1. PICK m \in later : \A k \in later : m <= k
    <3> HIDE DEF later
    <3> QED
      BY SmallestExists, <1>1 DEF later
  <2>2. m \in ppPlan /\ m > n /\ \A k \in ppPlan : k > n => m <= k
    BY <2>1
  <2> QED
    BY <2>2, <1>1 DEF PPAfter
<1>2. ASSUME ppPlan # {}
      PROVE  \E m \in ppPlan : m > 0
  <2>1. PICK m \in ppPlan : TRUE
    BY <1>2
  <2>2. m \in Nat /\ m # 0
    OBVIOUS
  <2> QED
    BY <2>1, <2>2
<1> QED
  BY <1>1, <1>2 DEF PPAfter

(* What a search found of a node is the key of an issue, or nothing. *)
LEMMA ProductFoundType ==
    ASSUME ProductTypeOK, NEW n \in PPNodes
    PROVE  PPFound(n) \in Nat
  BY DEF ProductTypeOK, PPFound, PPSeen

LEMMA ProductStopsType ==
    ASSUME ProductTypeOK, PPStops
    PROVE  /\ ppPc' = "idle" /\ ppPlan' = {} /\ ppApproved' \in BOOLEAN /\ ppAt' = 0
           /\ ppKeys' \in [PPNodes -> Nat] /\ ppCreated' \in 0 .. PPMaxCreate
<1>1. ppApproved' \in BOOLEAN
  BY Zenon DEF PPStops
<1>2. 0 \in 0 .. PPMaxCreate
  BY ProductAssumed
<1> QED
  BY <1>1, <1>2, NoKeysType DEF PPStops

(* Going on to the next node keeps the plan and the keys, or ends the run. *)
LEMMA ProductGoesOn ==
    ASSUME ProductTypeOK, ppPc \in ProductRuns, NEW c \in 0 .. PPMaxCreate, PPGoOn(c)
    PROVE  \/ PPStops
           \/ /\ ppPc' = "nodes" /\ ppAt' \in ppPlan /\ ppCreated' = c
              /\ UNCHANGED <<ppPlan, ppApproved, ppKeys>>
<1>1. PPAfter(ppAt) \in ppPlan \cup {0}
  BY ProductOrder DEF ProductTypeOK
<1> QED
  BY <1>1 DEF PPGoOn

LEMMA ProductGoesOnType ==
    ASSUME ProductTypeOK, ppPc \in ProductRuns, NEW c \in 0 .. PPMaxCreate, PPGoOn(c)
    PROVE  /\ ppPc' \in {"idle", "nodes"} /\ ppPlan' \subseteq PPNodes /\ ppApproved' \in BOOLEAN
           /\ ppAt' \in PPNodes \cup {0} /\ (ppPc' = "nodes" => ppAt' \in ppPlan')
           /\ ppKeys' \in [PPNodes -> Nat] /\ ppCreated' \in 0 .. PPMaxCreate
<1>1. CASE PPStops
  BY <1>1, ProductStopsType
<1>2. CASE /\ ppPc' = "nodes" /\ ppAt' \in ppPlan /\ ppCreated' = c
           /\ UNCHANGED <<ppPlan, ppApproved, ppKeys>>
  BY <1>2 DEF ProductTypeOK
<1> QED
  BY <1>1, <1>2, ProductGoesOn

LEMMA ProductInitInv == ProductInit => ProductInv
<1> SUFFICES ASSUME ProductInit PROVE ProductInv
  OBVIOUS
<1>1. ProductTypeOK
  <2>1. ppApproved \in BOOLEAN
    BY Zenon DEF ProductInit
  <2>2. 0 \in 0 .. PPMaxCreate /\ 0 \in 0 .. PPMaxFaults /\ 0 \in 0 .. PPMaxRuns
    BY ProductAssumed
  <2>3. /\ ppFile \in [PPNodes -> Nat] /\ ppKeys \in [PPNodes -> Nat] /\ ppDropped \in [PPNodes -> Nat]
        /\ ppNext \in [PPNodes -> Nat \ {0}]
    BY NoKeysType DEF ProductInit
  <2> QED
    BY <2>1, <2>2, <2>3 DEF ProductInit, ProductTypeOK
<1>2. \A n \in PPNodes : IssuesOf(n) = {} /\ ppDropped[n] = 0
  BY DEF ProductInit, IssuesOf, NoKeys
<1>3. IsFiniteSet(ppIssues) /\ \A n \in PPNodes : Cardinality(IssuesOf(n)) = 0
  BY <1>2, FS_EmptySet DEF ProductInit
<1> QED
  BY <1>1, <1>2, <1>3
  DEF ProductInv, ProductInit, ProductPosition, ProductAccounted, ProductMayCreate, ProductRuns,
      ProductNeverTwice, HasRoom, IssuesOf

(* Every step keeps the types. *)
LEMMA ProductTypeStep ==
    ASSUME ProductTypeOK, ProductPosition, [ProductNext]_ppVars
    PROVE  ProductTypeOK'
<1> USE ProductAssumed
<1>1. CASE PPBegin
  BY <1>1 DEF ProductTypeOK, PPBegin, ppJira
<1>2. CASE PPRefuses
  BY <1>2, ProductStopsType DEF ProductTypeOK, PPRefuses, ppJira, PPFault
<1>3. CASE PPPasses
  <2>1. \A n \in PPNodes : PPFound(n) \in Nat
    BY ProductFoundType
  <2>2. PPAfter(0) \in ppPlan
    BY <1>3, ProductOrder DEF PPPasses, ProductPosition
  <2>3. ppFile' \in [PPNodes -> Nat] /\ ppDropped' \in [PPNodes -> Nat] /\ ppKeys' \in [PPNodes -> Nat]
    BY <1>3, <2>1 DEF PPPasses, ProductTypeOK
  <2> QED
    BY <1>3, <2>2, <2>3 DEF ProductTypeOK, PPPasses, ppJira
<1>4. CASE PPAdopt
  <2>1. ppAt \in PPNodes /\ ppCreated \in 0 .. PPMaxCreate /\ ppPc \in ProductRuns
    BY <1>4 DEF PPAdopt, ProductTypeOK, ProductRuns
  <2> QED
    BY <1>4, <2>1, ProductGoesOnType DEF PPAdopt, ProductTypeOK, ppJira
<1>5. CASE PPSkip
  <2>1. ppCreated \in 0 .. PPMaxCreate /\ ppPc \in ProductRuns
    BY <1>5 DEF PPSkip, ProductTypeOK, ProductRuns
  <2> QED
    BY <1>5, <2>1, ProductGoesOnType DEF PPSkip, ProductTypeOK, ppJira
<1>6. CASE PPAnnounce
  BY <1>6 DEF ProductTypeOK, PPAnnounce, ppJira
<1>7. ASSUME ppPc = "posting", PPIssueAppears
      PROVE  /\ ppIssues' \subseteq [node : PPNodes, key : Nat, under : Nat] /\ ppVisible' \subseteq ppIssues'
             /\ ppNext' \in [PPNodes -> Nat \ {0}]
  <2>1. ppAt \in PPNodes /\ ppNext[ppAt] \in Nat \ {0} /\ ppNext[ppAt] + 1 \in Nat \ {0}
    BY <1>7 DEF ProductTypeOK
  <2> DEFINE under == IF PPParent[ppAt] = 0 THEN 0 ELSE ppKeys[PPParent[ppAt]]
             issue == [node |-> ppAt, key |-> ppNext[ppAt], under |-> under]
  <2>2. under \in Nat
    BY <2>1 DEF ProductTypeOK
  <2>3. issue \in [node : PPNodes, key : Nat, under : Nat]
    BY <2>1, <2>2
  <2>4. /\ ppIssues' = ppIssues \cup {issue}
        /\ ppVisible' \in {ppVisible, ppVisible \cup {issue}}
        /\ ppNext' = [ppNext EXCEPT ![ppAt] = @ + 1]
    BY <1>7 DEF PPIssueAppears
  <2> HIDE DEF issue
  <2> QED
    BY <2>1, <2>3, <2>4 DEF ProductTypeOK
<1>8. CASE PPPost
  <2>1. ppAt \in PPNodes /\ ppNext[ppAt] \in Nat
    BY <1>8 DEF PPPost, ProductTypeOK
  <2>2. ppKeys' \in [PPNodes -> Nat]
    BY <1>8, <2>1 DEF PPPost, ProductTypeOK
  <2> QED
    BY <1>8, <1>7, <2>2 DEF ProductTypeOK, PPPost
<1>9. CASE PPPostLost
  BY <1>9, <1>7, ProductStopsType DEF ProductTypeOK, PPPostLost, ppJira, PPFault
<1>10. CASE PPRecord
  <2>1. ppAt \in PPNodes /\ ppCreated + 1 \in 0 .. PPMaxCreate /\ ppPc \in ProductRuns
    BY <1>10 DEF PPRecord, ProductTypeOK, ProductRuns, ProductPosition
  <2> QED
    BY <1>10, <2>1, ProductGoesOnType DEF PPRecord, ProductTypeOK, ppJira
<1>11. CASE PPDies
  BY <1>11, ProductStopsType DEF ProductTypeOK, PPDies, ppJira, PPFault
<1>12. CASE PPJiraMoves
  BY <1>12 DEF ProductTypeOK, PPJiraMoves, ppRun, PPFault
<1>13. CASE PPCleared
  BY <1>13 DEF ProductTypeOK, PPCleared, ppRun, ppJira
<1>14. CASE UNCHANGED ppVars
  BY <1>14 DEF ProductTypeOK, ppVars, ppRun, ppJira
<1> QED
  BY <1>1, <1>2, <1>3, <1>4, <1>5, <1>6, <1>8, <1>9, <1>10, <1>11, <1>12, <1>13, <1>14 DEF ProductNext

-----------------------------------------------------------------------------
(* The issues of a node are finitely many, and one more is one more. *)
LEMMA IssuesCount ==
    ASSUME IsFiniteSet(ppIssues), NEW n
    PROVE  IsFiniteSet(IssuesOf(n)) /\ Cardinality(IssuesOf(n)) \in Nat
  BY FS_Subset, FS_CardinalityType DEF IssuesOf

(* What a POST does to the issues of each node. *)
LEMMA IssueAppears ==
    ASSUME IsFiniteSet(ppIssues), PPIssueAppears
    PROVE  /\ IsFiniteSet(ppIssues')
           /\ \A n \in PPNodes :
                Cardinality(IssuesOf(n)') <= Cardinality(IssuesOf(n)) + (IF n = ppAt THEN 1 ELSE 0)
<1>1. PICK issue : issue.node = ppAt /\ ppIssues' = ppIssues \cup {issue}
  BY DEF PPIssueAppears
<1>2. IsFiniteSet(ppIssues')
  BY <1>1, FS_AddElement
<1>3. ASSUME NEW n \in PPNodes
      PROVE  Cardinality(IssuesOf(n)') <= Cardinality(IssuesOf(n)) + (IF n = ppAt THEN 1 ELSE 0)
  <2>1. IssuesOf(n)' = IF n = ppAt THEN IssuesOf(n) \cup {issue} ELSE IssuesOf(n)
    BY <1>1 DEF IssuesOf
  <2>2. /\ Cardinality(IssuesOf(n)) \in Nat
        /\ Cardinality(IssuesOf(n) \cup {issue}) \in
             {Cardinality(IssuesOf(n)), Cardinality(IssuesOf(n)) + 1}
    BY IssuesCount, FS_AddElement
  <2> QED
    BY <2>1, <2>2
<1> QED
  BY <1>2, <1>3

(* Steps that leave Jira and the dropped records alone leave HasRoom alone. *)
LEMMA RoomStays ==
    ASSUME UNCHANGED <<ppIssues, ppDropped>>
    PROVE  \A n \in PPNodes : HasRoom(n)' = HasRoom(n)
  BY DEF HasRoom, IssuesOf

(* A run that stops, or is idle, may leave its own state behind. *)
LEMMA ProductStopsInv ==
    ASSUME PPStops
    PROVE  ProductPosition' /\ ProductMayCreate'
  BY DEF PPStops, ProductPosition, ProductMayCreate, ProductRuns

(* The steps of a run that neither POST nor change a record's fate. *)
LEMMA ProductQuiet ==
    ASSUME ProductInv, UNCHANGED <<ppFile, ppPending, ppIssues, ppDropped>>
    PROVE  ProductAccounted' /\ ProductNeverTwice' /\ IsFiniteSet(ppIssues')
  BY RoomStays DEF ProductInv, ProductAccounted, ProductNeverTwice

(* A node whose key is recorded, its note removed. *)
LEMMA ProductRecorded ==
    ASSUME ProductInv, ppAt \in PPNodes, ppKeys[ppAt] # 0,
           ppFile' = [ppFile EXCEPT ![ppAt] = ppKeys[ppAt]], ppPending' = ppPending \ {ppAt},
           UNCHANGED <<ppIssues, ppDropped>>
    PROVE  ProductAccounted' /\ ProductNeverTwice' /\ IsFiniteSet(ppIssues')
<1>1. ProductAccounted'
  BY RoomStays DEF ProductInv, ProductTypeOK, ProductAccounted
<1> QED
  BY <1>1 DEF ProductInv, ProductNeverTwice

(* Going on to the next node. *)
LEMMA ProductGoesOnInv ==
    ASSUME ProductInv, ppPc \in ProductRuns, NEW c \in 0 .. PPMaxCreate, PPGoOn(c),
           UNCHANGED <<ppIssues, ppDropped>>
    PROVE  ProductPosition' /\ ProductMayCreate'
<1>1. CASE PPStops
  BY <1>1, ProductStopsInv
<1>2. CASE /\ ppPc' = "nodes" /\ ppAt' \in ppPlan /\ ppCreated' = c
           /\ UNCHANGED <<ppPlan, ppApproved, ppKeys>>
  <2>1. ppPlan \subseteq PPNodes
    BY DEF ProductInv, ProductTypeOK
  <2> QED
    BY <1>2, <2>1, RoomStays DEF ProductInv, ProductPosition, ProductMayCreate, ProductRuns
<1> QED
  BY <1>1, <1>2, ProductGoesOn DEF ProductInv

(* The preflight that passes: what has no key then is either not on record *)
(* and not in doubt, or was dropped with the operator's approval.          *)
LEMMA ProductPasses ==
    ASSUME ProductInv, PPPasses
    PROVE  ProductPosition' /\ ProductAccounted' /\ ProductMayCreate' /\ ProductNeverTwice'
<1> USE DEF PPPasses
<1>1. /\ ppIssues' = ppIssues /\ ppPlan' = ppPlan /\ ppPlan # {} /\ ppPlan \subseteq PPNodes
      /\ \A n \in PPNodes : ppFile[n] \in Nat /\ ppDropped[n] \in Nat
  BY DEF ProductInv, ProductTypeOK, ProductPosition, ppJira
<1>2. \A n \in PPNodes : Cardinality(IssuesOf(n)) \in Nat /\ IssuesOf(n)' = IssuesOf(n)
  BY <1>1, IssuesCount DEF ProductInv, IssuesOf
<1>3. \A n \in PPNodes : Cardinality(IssuesOf(n)) <= 1 + ppDropped[n]
  BY DEF ProductInv, ProductNeverTwice, IssuesOf
<1>4. \A n \in PPNodes : ppDropped'[n] \in {ppDropped[n], ppDropped[n] + 1}
  OBVIOUS
<1>5. ASSUME NEW n \in PPMissing
      PROVE  n \in PPNodes /\ HasRoom(n)'
  <2>1. n \in PPNodes
    BY <1>1, <1>5 DEF PPMissing
  <2>2. CASE IssuesOf(n) = {}
    <3>1. Cardinality(IssuesOf(n)') = 0
      BY <2>1, <2>2, <1>2, FS_EmptySet
    <3>2. ppDropped'[n] \in Nat
      BY <2>1, <1>1, <1>4
    <3> QED
      BY <2>1, <3>1, <3>2 DEF HasRoom
  <2>3. CASE IssuesOf(n) # {}
    <3>1. ppDropped'[n] = ppDropped[n] + 1
      BY <2>1, <2>3, <1>5 DEF IssuesOf
    <3> QED
      BY <3>1, <2>1, <1>1, <1>2, <1>3 DEF HasRoom
  <2> QED
    BY <2>1, <2>2, <2>3
<1>6. ASSUME NEW n \in PPNodes, HasRoom(n)
      PROVE  HasRoom(n)'
  BY <1>6, <1>1, <1>2, <1>4 DEF HasRoom
<1>7. ASSUME NEW n \in PPNodes, ppFile'[n] = 0, n \notin ppPending
      PROVE  HasRoom(n)'
  <2>1. CASE n \in PPMissing
    BY <2>1, <1>5
  <2>2. CASE n \notin PPMissing
    BY <2>2, <1>6, <1>7 DEF ProductInv, ProductAccounted
  <2> QED
    BY <2>1, <2>2
<1>8. ProductAccounted'
  BY <1>7 DEF ProductAccounted
<1>9. ASSUME NEW n \in ppPlan, ppKeys'[n] = 0
      PROVE  HasRoom(n)'
  <2>1. n \in PPNodes /\ PPFound(n) = 0
    BY <1>1, <1>9
  <2>2. CASE ppFile[n] # 0
    BY <2>1, <2>2, <1>5 DEF PPMissing
  <2>3. CASE ppFile[n] = 0
    <3>1. n \notin ppPending
      BY <2>1, <2>3 DEF PPSound, PPUncertain
    <3> QED
      BY <2>1, <2>3, <3>1, <1>6 DEF ProductInv, ProductAccounted
  <2> QED
    BY <2>2, <2>3
<1>10. ProductMayCreate'
  BY <1>1, <1>9 DEF ProductMayCreate
<1>11. ProductNeverTwice'
  <2>1. \A n \in PPNodes : Cardinality(IssuesOf(n)') <= 1 + ppDropped'[n]
    BY <1>1, <1>2, <1>3, <1>4
  <2> QED
    BY <2>1 DEF ProductNeverTwice, IssuesOf
<1>12. ProductPosition'
  BY <1>1 DEF ProductPosition
<1> QED
  BY <1>8, <1>10, <1>11, <1>12

(* The creation is noted before it is POSTed. *)
LEMMA ProductAnnounces ==
    ASSUME ProductInv, PPAnnounce
    PROVE  ProductPosition' /\ ProductAccounted' /\ ProductMayCreate' /\ ProductNeverTwice'
<1> USE DEF PPAnnounce, PPMayCreate, ppJira
<1>1. ProductPosition'
  BY DEF ProductInv, ProductPosition
<1>2. ProductAccounted'
  BY RoomStays DEF ProductInv, ProductAccounted
<1>3. ProductMayCreate'
  <2>1. ppPlan \subseteq PPNodes
    BY DEF ProductInv, ProductTypeOK
  <2> QED
    BY <2>1, RoomStays DEF ProductInv, ProductMayCreate, ProductRuns
<1>4. ProductNeverTwice'
  BY DEF ProductInv, ProductNeverTwice
<1> QED
  BY <1>1, <1>2, <1>3, <1>4

(* The POST: there was room for the issue, and the note is there, so that  *)
(* whatever becomes of the answer nothing else is created for the node.    *)
LEMMA ProductPosts ==
    ASSUME ProductInv, ppPc = "posting", PPIssueAppears,
           UNCHANGED <<ppFile, ppPending, ppDropped>>
    PROVE  /\ ProductAccounted' /\ ProductNeverTwice' /\ IsFiniteSet(ppIssues')
           /\ \A n \in ppPlan : n # ppAt /\ ppKeys[n] = 0 => HasRoom(n)'
<1>1. /\ ppAt \in ppPlan /\ ppAt \in ppPending /\ ppKeys[ppAt] = 0 /\ ppPlan \subseteq PPNodes
      /\ \A n \in PPNodes : ppDropped[n] \in Nat
  BY DEF ProductInv, ProductTypeOK, ProductPosition
<1>2. \A n \in ppPlan : ppKeys[n] = 0 => HasRoom(n)
  BY DEF ProductInv, ProductMayCreate, ProductRuns
<1>3. /\ IsFiniteSet(ppIssues')
      /\ \A n \in PPNodes :
           /\ Cardinality(IssuesOf(n)) \in Nat /\ Cardinality(IssuesOf(n)') \in Nat
           /\ Cardinality(IssuesOf(n)') <= Cardinality(IssuesOf(n)) + (IF n = ppAt THEN 1 ELSE 0)
  <2>1. IsFiniteSet(ppIssues')
    BY IssueAppears DEF ProductInv
  <2>2. \A n \in PPNodes : IsFiniteSet(IssuesOf(n)')
    BY <2>1, FS_Subset DEF IssuesOf
  <2> QED
    BY <2>1, <2>2, IssueAppears, IssuesCount, FS_CardinalityType DEF ProductInv
<1>4. \A n \in PPNodes : n # ppAt /\ HasRoom(n) => HasRoom(n)'
  BY <1>1, <1>3 DEF HasRoom
<1>5. ProductAccounted'
  BY <1>1, <1>4 DEF ProductInv, ProductAccounted
<1>6. ProductNeverTwice'
  <2>1. \A n \in PPNodes : Cardinality(IssuesOf(n)) <= 1 + ppDropped[n]
    BY DEF ProductInv, ProductNeverTwice, IssuesOf
  <2>2. Cardinality(IssuesOf(ppAt)) <= ppDropped[ppAt]
    BY <1>1, <1>2 DEF HasRoom
  <2>3. \A n \in PPNodes : Cardinality(IssuesOf(n)') <= 1 + ppDropped'[n]
    BY <1>1, <1>3, <2>1, <2>2
  <2> QED
    BY <2>3 DEF ProductNeverTwice, IssuesOf
<1> QED
  BY <1>1, <1>2, <1>3, <1>4, <1>5, <1>6

(* Jira is changed only between the runs and before a preflight has passed. *)
LEMMA ProductJiraMoves ==
    ASSUME ProductInv, PPJiraMoves
    PROVE  /\ ProductPosition' /\ ProductAccounted' /\ ProductMayCreate' /\ ProductNeverTwice'
           /\ IsFiniteSet(ppIssues')
<1> USE DEF PPJiraMoves, ppRun
<1>1. ppIssues' \subseteq ppIssues
  OBVIOUS
<1>2. IsFiniteSet(ppIssues')
  BY <1>1, FS_Subset DEF ProductInv
<1>3. ASSUME NEW n \in PPNodes
      PROVE  /\ Cardinality(IssuesOf(n)) \in Nat /\ Cardinality(IssuesOf(n)') \in Nat
             /\ Cardinality(IssuesOf(n)') <= Cardinality(IssuesOf(n))
  <2>1. IsFiniteSet(IssuesOf(n)) /\ IssuesOf(n)' \subseteq IssuesOf(n)
    BY <1>1, IssuesCount DEF ProductInv, IssuesOf
  <2> QED
    BY <2>1, FS_Subset, FS_CardinalityType
<1>4. \A n \in PPNodes : ppDropped[n] \in Nat
  BY DEF ProductInv, ProductTypeOK
<1>5. \A n \in PPNodes : HasRoom(n) => HasRoom(n)'
  BY <1>3, <1>4 DEF HasRoom
<1>6. ProductAccounted'
  BY <1>5 DEF ProductInv, ProductAccounted
<1>7. ProductNeverTwice'
  <2>1. \A n \in PPNodes : Cardinality(IssuesOf(n)) <= 1 + ppDropped[n]
    BY DEF ProductInv, ProductNeverTwice, IssuesOf
  <2>2. \A n \in PPNodes : Cardinality(IssuesOf(n)') <= 1 + ppDropped'[n]
    BY <1>3, <1>4, <2>1
  <2> QED
    BY <2>2 DEF ProductNeverTwice, IssuesOf
<1>8. ProductPosition' /\ ProductMayCreate'
  BY DEF ProductInv, ProductPosition, ProductMayCreate, ProductRuns
<1> QED
  BY <1>2, <1>6, <1>7, <1>8

(* A note is cleared only where no issue is left. *)
LEMMA ProductCleared ==
    ASSUME ProductInv, PPCleared
    PROVE  ProductPosition' /\ ProductAccounted' /\ ProductMayCreate' /\ ProductNeverTwice'
<1> USE DEF PPCleared, ppRun, ppJira
<1>1. PICK n \in ppPending : (\A i \in ppIssues : i.node # n) /\ ppPending' = ppPending \ {n}
  OBVIOUS
<1>2. HasRoom(n)
  <2>1. IssuesOf(n) = {} /\ n \in PPNodes /\ ppDropped[n] \in Nat
    BY <1>1 DEF IssuesOf, ProductInv, ProductTypeOK
  <2> QED
    BY <2>1, FS_EmptySet DEF HasRoom
<1>3. ProductAccounted'
  BY <1>1, <1>2, RoomStays DEF ProductInv, ProductAccounted
<1> QED
  BY <1>3 DEF ProductInv, ProductPosition, ProductMayCreate, ProductNeverTwice, ProductRuns

LEMMA ProductInvStep ==
    ASSUME ProductInv, [ProductNext]_ppVars
    PROVE  ProductInv'
<1>1. ProductTypeOK'
  BY ProductTypeStep DEF ProductInv
<1> SUFFICES /\ ProductPosition' /\ ProductAccounted' /\ ProductMayCreate' /\ ProductNeverTwice'
             /\ IsFiniteSet(ppIssues')
  BY <1>1 DEF ProductInv
<1>2. CASE PPBegin
  <2>1. \A plan \in PPPlans : plan # {}
    BY ProductAssumed
  <2>2. ProductPosition' /\ ProductMayCreate'
    BY <1>2, <2>1 DEF PPBegin, ProductPosition, ProductMayCreate, ProductRuns
  <2> QED
    BY <1>2, <2>2, ProductQuiet DEF PPBegin, ppJira
<1>3. CASE PPRefuses
  BY <1>3, ProductStopsInv, ProductQuiet DEF PPRefuses, ppJira
<1>4. CASE PPPasses
  BY <1>4, ProductPasses DEF PPPasses, ppJira, ProductInv
<1>5. CASE PPAdopt
  <2>1. ppPc \in ProductRuns /\ ppAt \in PPNodes /\ ppCreated \in 0 .. PPMaxCreate
    BY <1>5 DEF PPAdopt, ProductRuns, ProductInv, ProductTypeOK
  <2> QED
    BY <1>5, <2>1, ProductGoesOnInv, ProductRecorded DEF PPAdopt, ppJira
<1>6. CASE PPSkip
  <2>1. ppPc \in ProductRuns /\ ppCreated \in 0 .. PPMaxCreate
    BY <1>6 DEF PPSkip, ProductRuns, ProductInv, ProductTypeOK
  <2> QED
    BY <1>6, <2>1, ProductGoesOnInv, ProductQuiet DEF PPSkip, ppJira
<1>7. CASE PPAnnounce
  BY <1>7, ProductAnnounces DEF PPAnnounce, ppJira, ProductInv
<1>8. CASE PPPost
  <2>1. /\ ProductAccounted' /\ ProductNeverTwice' /\ IsFiniteSet(ppIssues')
        /\ \A n \in ppPlan : n # ppAt /\ ppKeys[n] = 0 => HasRoom(n)'
    BY <1>8, ProductPosts DEF PPPost
  <2>2. /\ ppAt \in PPNodes /\ ppPlan \subseteq PPNodes /\ ppKeys \in [PPNodes -> Nat]
        /\ ppNext[ppAt] # 0 /\ ppNext[ppAt] \in Nat
    BY <1>8 DEF PPPost, ProductInv, ProductTypeOK
  <2>3. ppKeys'[ppAt] # 0 /\ \A n \in ppPlan : n # ppAt => ppKeys'[n] = ppKeys[n]
    BY <1>8, <2>2 DEF PPPost
  <2>4. ProductMayCreate'
    BY <1>8, <2>1, <2>3 DEF PPPost, ProductMayCreate
  <2>5. ProductPosition'
    BY <1>8, <2>3 DEF PPPost, ProductInv, ProductPosition
  <2> QED
    BY <2>1, <2>4, <2>5
<1>9. CASE PPPostLost
  <2>1. ProductAccounted' /\ ProductNeverTwice' /\ IsFiniteSet(ppIssues')
    BY <1>9, ProductPosts, ProductQuiet DEF PPPostLost, ppJira
  <2> QED
    BY <1>9, <2>1, ProductStopsInv DEF PPPostLost
<1>10. CASE PPRecord
  <2>1. /\ ppPc \in ProductRuns /\ ppAt \in PPNodes /\ ppKeys[ppAt] # 0
        /\ ppCreated \in 0 .. PPMaxCreate /\ ppCreated < PPMaxCreate
    BY <1>10 DEF PPRecord, ProductRuns, ProductInv, ProductTypeOK, ProductPosition
  <2>2. ppCreated + 1 \in 0 .. PPMaxCreate
    BY <2>1, ProductAssumed
  <2> QED
    BY <1>10, <2>1, <2>2, ProductGoesOnInv, ProductRecorded DEF PPRecord, ppJira
<1>11. CASE PPDies
  BY <1>11, ProductStopsInv, ProductQuiet DEF PPDies, ppJira
<1>12. CASE PPJiraMoves
  BY <1>12, ProductJiraMoves
<1>13. CASE PPCleared
  BY <1>13, ProductCleared DEF PPCleared, ppJira, ProductInv
<1>14. CASE UNCHANGED ppVars
  BY <1>14, RoomStays
  DEF ppVars, ppRun, ppJira, ProductInv, ProductPosition, ProductAccounted, ProductMayCreate,
      ProductNeverTwice, ProductRuns, ProductTypeOK
<1> QED
  BY <1>2, <1>3, <1>4, <1>5, <1>6, <1>7, <1>8, <1>9, <1>10, <1>11, <1>12, <1>13, <1>14
  DEF ProductNext

(* No lost answer, lagging index or crash makes the publisher of product   *)
(* reports create a second issue for a node (product_publishing.py): each  *)
(* issue beyond the first stands for a recreation an operator approved     *)
(* while the old issue was hidden.                                         *)
THEOREM ProductPublishesOnce == ProductSpec => []ProductNeverTwice
<1>1. ProductInit => ProductInv
  BY ProductInitInv
<1>2. ProductInv /\ [ProductNext]_ppVars => ProductInv'
  BY ProductInvStep
<1>3. ProductInv => ProductNeverTwice
  BY DEF ProductInv
<1> QED
  BY <1>1, <1>2, <1>3, PTL DEF ProductSpec

-----------------------------------------------------------------------------
(* Jira publishing of hierarchies and flat lists.                          *)

\* What the running process has in memory is so in Jira, and what it found
\* or is about to move has an issue.
JiraMemoryIsTrue ==
  /\ \A n \in JPNodes :
       /\ jpMem[n] # "none" => jpCount[n] > 0
       /\ jpMem[n] = "moved" => n \in jpMoved
       /\ n \in jpMemLinks => n \in jpLinks
  /\ \A n \in jpFound : jpCount[n] > 0
  /\ jpPc = "moving" => jpCount[jpAt] > 0

\* The node is still to come in this run.
JiraToCome(n) ==
  n \in JPSelected /\ ((jpPc = "nodes" /\ n >= jpAt) \/ (jpPc = "moving" /\ n > jpAt))

\* What the run would create has no issue that no answer or search accounts
\* for.
JiraMayCreate ==
  \A n \in JPNodes :
    JiraToCome(n) /\ ~JPCached(n) /\ n \notin jpFound => jpCount[n] <= jpExcuse[n]

JiraInv ==
  /\ JiraTypeOK
  /\ JiraMemoryIsTrue /\ JiraStateIsTrue
  /\ JiraMayCreate /\ JiraDuplicatesExplained

LEMMA JiraAssumed ==
    /\ JPNodes \subseteq Nat /\ 0 \notin JPNodes
    /\ \A n \in JPNodes : JPParent[n] \in JPNodes \cup {0}
    /\ JPLinked \subseteq JPNodes /\ JPTargets \subseteq JPNodes
    /\ JPMaxCreate \in Nat /\ JPRetries \in Nat /\ JPMaxFaults \in Nat /\ JPMaxChanges \in Nat
    /\ \A flat \in JPFlatModes : flat \in BOOLEAN
    /\ \A only \in JPFilters : only \subseteq JPNodes
    /\ JPLimits \subseteq Nat
  BY JiraAssumption

LEMMA JiraSelection == JiraTypeOK => JPSelected \subseteq JPNodes
<1> SUFFICES ASSUME JiraTypeOK PROVE JPSelected \subseteq JPNodes
  OBVIOUS
<1>1. jpArgs.only \subseteq JPNodes
  BY JiraAssumed DEF JiraTypeOK, JPArgs
<1>2. \A S \in SUBSET JPNodes : JPParents(S) \subseteq JPNodes
  BY JiraAssumed DEF JPParents
<1>3. JPParents(jpArgs.only) \subseteq JPNodes
  BY <1>1, <1>2
<1>4. JPFiltered \subseteq JPNodes
  BY <1>1, <1>2, <1>3 DEF JPFiltered
<1> QED
  BY <1>4 DEF JPSelected

(* The run visits the selected nodes in order. *)
LEMMA JiraOrder ==
    ASSUME JiraTypeOK, NEW n \in JPNodes \cup {0}
    PROVE  /\ JPAfter(n) \in JPSelected \cup {0}
           /\ JPAfter(n) # 0 => JPAfter(n) > n
<1>1. JPSelected \subseteq JPNodes /\ JPNodes \subseteq Nat
  BY JiraSelection, JiraAssumed
<1>2. CASE \E m \in JPSelected : m > n
  <2> DEFINE later == {m \in JPSelected : m > n}
  <2>1. later \subseteq Nat /\ later # {}
    BY ONLY <1>1, <1>2
  <2>2. PICK m \in later : \A k \in later : m <= k
    <3> HIDE DEF later
    <3> QED
      BY <2>1, SmallestExists
  <2>3. m \in JPSelected /\ m > n /\ \A k \in JPSelected : k > n => m <= k
    BY <2>2
  <2>4. JPAfter(n) \in JPSelected /\ JPAfter(n) > n
    BY <2>3, <1>2 DEF JPAfter
  <2> QED
    BY <2>4
<1>3. CASE ~\E m \in JPSelected : m > n
  BY <1>3 DEF JPAfter
<1> QED
  BY <1>2, <1>3

LEMMA JiraGoesOn ==
    ASSUME JiraTypeOK, JPGoOn
    PROVE  /\ jpPc' \in {"nodes", "linking"} /\ jpTry' = 0 /\ jpAt' \in JPNodes \cup {0}
           /\ jpPc' = "nodes" => jpAt' \in JPSelected /\ jpAt' > jpAt
<1>1. jpAt \in JPNodes \cup {0}
  BY DEF JiraTypeOK
<1> QED
  BY <1>1, JiraOrder, JiraSelection, JiraAssumed DEF JPGoOn

(* The next link that is due is one of a linked child. *)
LEMMA JiraLinkOrder ==
    ASSUME JiraTypeOK, JPLinkAfter(jpAt) # 0
    PROVE  JPLinkAfter(jpAt) \in JPLinked
<1>1. JPLinksDue \subseteq JPSelected /\ JPLinksDue \subseteq JPLinked
  BY DEF JPLinksDue, JPNeedsLink
<1>2. JPLinksDue \subseteq Nat /\ jpAt \in Nat
  BY <1>1, JiraSelection, JiraAssumed DEF JiraTypeOK
<1>3. \E m \in JPLinksDue : m > jpAt
  BY DEF JPLinkAfter
<1> DEFINE later == {m \in JPLinksDue : m > jpAt}
<1>4. later \subseteq Nat /\ later # {}
  BY <1>2, <1>3
<1>5. PICK m \in later : \A k \in later : m <= k
  <2> HIDE DEF later
  <2> QED
    BY <1>4, SmallestExists
<1>6. m \in JPLinksDue /\ m > jpAt /\ \A k \in JPLinksDue : k > jpAt => m <= k
  BY <1>5
<1>7. JPLinkAfter(jpAt) \in JPLinksDue
  BY <1>3, <1>6 DEF JPLinkAfter
<1> QED
  BY <1>1, <1>7

LEMMA JiraGoneType ==
    ASSUME JiraTypeOK, JPGone
    PROVE  /\ jpPc' = "idle" /\ jpAt' = 0 /\ jpFound' = {} /\ jpKeys' = {} /\ jpTry' = 0
           /\ jpCreated' = 0 /\ jpMem' = jpFile /\ jpMemLinks' = jpFileLinks
  BY DEF JPGone, JPEnds

LEMMA JiraSameSelection ==
    ASSUME UNCHANGED <<jpFlat, jpArgs>>
    PROVE  JPSelected' = JPSelected
  BY DEF JPSelected, JPFiltered

LEMMA JiraInitInv == JiraInit => JiraInv
<1> SUFFICES ASSUME JiraInit PROVE JiraInv
  OBVIOUS
<1>1. /\ jpFile \in [JPNodes -> Entries] /\ jpMem \in [JPNodes -> Entries]
      /\ jpCount \in [JPNodes -> Nat] /\ jpSeen \in [JPNodes -> Nat] /\ jpExcuse \in [JPNodes -> Nat]
      /\ \A n \in JPNodes : /\ jpFile[n] = "none" /\ jpMem[n] = "none"
                            /\ jpCount[n] = 0 /\ jpSeen[n] = 0 /\ jpExcuse[n] = 0
  BY DEF JiraInit, Entries
<1>2. jpFlat \in BOOLEAN
  BY JiraAssumed, Zenon DEF JiraInit
<1>3. /\ 0 \in 0 .. JPMaxChanges /\ 0 \in 0 .. JPRetries /\ 0 \in 0 .. JPMaxFaults
      /\ JPMaxCreate > 0 => 0 <= JPMaxCreate
  BY JiraAssumed
<1>4. JiraTypeOK
  BY <1>1, <1>2, <1>3 DEF JiraInit, JiraTypeOK
<1> QED
  BY <1>1, <1>4
  DEF JiraInit, JiraInv, JiraMemoryIsTrue, JiraStateIsTrue, JiraMayCreate, JiraToCome,
      JiraDuplicatesExplained

(* The fields of the type invariant that a step changes, one action each.  *)
LEMMA JiraTypeStep ==
    ASSUME JiraInv, [JiraNext]_jpVars
    PROVE  JiraTypeOK'
<1> USE JiraAssumed DEF jpRun, jpDisk, jpJira, jpCommand
<1>1. JiraTypeOK
  BY DEF JiraInv
<1>2. jpPc \in {"nodes", "moving"} => jpAt \in JPNodes
  BY <1>1, JiraSelection DEF JiraTypeOK
<1>3. CASE JPChange
  <2>1. jpChanges' \in 0 .. JPMaxChanges
    BY <1>1, <1>3 DEF JPChange, JiraTypeOK
  <2> QED
    BY <1>1, <1>3, <2>1 DEF JPChange, JiraTypeOK
<1>4. CASE JPBegin
  BY <1>1, <1>4, JiraSameSelection DEF JPBegin, JiraTypeOK
<1>5. JPFault => jpFaults' \in 0 .. JPMaxFaults
  BY <1>1 DEF JPFault, JiraTypeOK
<1>6. ASSUME JPGone, UNCHANGED <<jpDisk, jpCommand>>, jpFaults' \in 0 .. JPMaxFaults,
             jpCount' \in [JPNodes -> Nat], jpExcuse' \in [JPNodes -> Nat],
             \A n \in JPNodes : jpSeen[n] <= jpCount'[n],
             UNCHANGED <<jpSeen, jpMoved, jpLinks>>
      PROVE  JiraTypeOK'
  <2>1. 0 \in 0 .. JPRetries /\ (JPMaxCreate > 0 => 0 <= JPMaxCreate)
    OBVIOUS
  <2>2. /\ jpPc' = "idle" /\ jpAt' = 0 /\ jpFound' = {} /\ jpKeys' = {} /\ jpTry' = 0
        /\ jpCreated' = 0 /\ jpMem' = jpFile /\ jpMemLinks' = jpFileLinks
    BY <1>1, <1>6, JiraGoneType
  <2>3. /\ UNCHANGED <<jpFlat, jpArgs, jpChanges, jpFile, jpFileLinks, jpSeen, jpMoved, jpLinks>>
        /\ \A n \in JPNodes : jpSeen'[n] <= jpCount'[n]
    BY <1>6
  <2> QED
    BY <1>1, <1>6, <2>1, <2>2, <2>3 DEF JiraTypeOK
<1>7. ASSUME JPGone, JPFault, UNCHANGED <<jpDisk, jpJira, jpCommand, jpExcuse>>
      PROVE  JiraTypeOK'
  BY <1>1, <1>5, <1>6, <1>7 DEF JiraTypeOK
<1>8. CASE JPPrepare
  <2>1. CASE JPGone /\ JPFault
    BY <1>7, <1>8, <2>1 DEF JPPrepare
  <2>2. CASE jpPc' = "lookup" /\ UNCHANGED <<jpAt, jpFound, jpKeys, jpTry, jpCreated, jpFaults, jpMem, jpMemLinks>>
    BY <1>1, <1>8, <2>2 DEF JPPrepare, JiraTypeOK
  <2> QED
    BY <1>8, <2>1, <2>2 DEF JPPrepare
<1>9. CASE JPLookupFails
  BY <1>1, <1>5, <1>6, <1>9 DEF JPLookupFails, JiraTypeOK
<1>10. CASE JPLookup
  <2>1. jpExcuse' \in [JPNodes -> Nat] /\ jpFaults' \in 0 .. JPMaxFaults
    BY <1>1, <1>5, <1>10 DEF JPLookup, JiraTypeOK
  <2>2. jpFound' \subseteq JPNodes
    BY <1>1, <1>10, JiraSelection DEF JPLookup, JPMissing
  <2>3. /\ jpAt' \in JPNodes \cup {0} /\ jpPc' \in {"nodes", "linking"}
        /\ jpPc' = "nodes" => jpAt' \in JPSelected
    BY <1>1, <1>10, JiraOrder, JiraSelection DEF JPLookup
  <2> QED
    BY <1>1, <1>10, <2>1, <2>2, <2>3, JiraSameSelection DEF JPLookup, JiraTypeOK
<1>11. ASSUME JPGoOn, UNCHANGED <<jpFound, jpMemLinks, jpDisk, jpCommand, jpSeen, jpLinks>>,
              jpKeys' \subseteq JPNodes, jpCreated' \in Nat, JPMaxCreate > 0 => jpCreated' <= JPMaxCreate,
              jpMem' \in [JPNodes -> Entries], jpCount' \in [JPNodes -> Nat],
              \A n \in JPNodes : jpSeen[n] <= jpCount'[n],
              jpMoved' \subseteq JPNodes, jpExcuse' \in [JPNodes -> Nat], jpFaults' \in 0 .. JPMaxFaults
       PROVE  JiraTypeOK'
  <2>1. 0 \in 0 .. JPRetries
    OBVIOUS
  <2> QED
    BY <1>1, <1>11, <2>1, JiraGoesOn, JiraSameSelection DEF JiraTypeOK
<1>12. CASE JPSkipCached
  BY <1>1, <1>2, <1>11, <1>12 DEF JPSkipCached, JiraTypeOK
<1>13. /\ "key" \in Entries /\ "nokey" \in Entries /\ "moved" \in Entries
  BY DEF Entries
<1>14. CASE JPAdopt
  <2>1. jpKeys' \subseteq JPNodes /\ jpAt \in JPNodes
    BY <1>1, <1>2, <1>14 DEF JPAdopt, JiraTypeOK
  <2>2. CASE jpAt \in JPTargets
    BY <1>1, <1>14, <2>1, <2>2, JiraSameSelection DEF JPAdopt, JiraTypeOK
  <2>3. CASE jpAt \notin JPTargets
    <3>1. jpMem' \in [JPNodes -> Entries]
      BY <1>1, <1>13, <1>14, <2>3 DEF JPAdopt, JiraTypeOK
    <3> QED
      BY <1>1, <1>11, <1>14, <2>1, <2>3, <3>1 DEF JPAdopt, JiraTypeOK
  <2> QED
    BY <2>2, <2>3
<1>15. CASE JPSkipCreate
  BY <1>1, <1>11, <1>15 DEF JPSkipCreate, JiraTypeOK
<1>16. ASSUME JPMayCreate
       PROVE  /\ jpPc = "nodes" /\ jpAt \in JPNodes /\ jpCreated + 1 \in Nat
              /\ JPMaxCreate > 0 => jpCreated + 1 <= JPMaxCreate
  BY <1>1, <1>2, <1>16 DEF JPMayCreate, JPMustCreate, JiraTypeOK
<1>17. ASSUME JPMayCreate, JPIssueAppears
       PROVE  /\ jpCount' \in [JPNodes -> Nat] /\ \A n \in JPNodes : jpSeen[n] <= jpCount'[n]
  BY <1>1, <1>16, <1>17 DEF JPIssueAppears, JiraTypeOK
<1>18. CASE JPCreate
  <2>1. jpKeys' \subseteq JPNodes
    BY <1>1, <1>16, <1>18 DEF JPCreate, JiraTypeOK
  <2>2. CASE jpAt \in JPTargets
    BY <1>1, <1>16, <1>17, <1>18, <2>1, <2>2, JiraSameSelection
    DEF JPCreate, JPIssueAppears, JiraTypeOK
  <2>3. CASE jpAt \notin JPTargets
    <3>1. jpMem' \in [JPNodes -> Entries]
      BY <1>1, <1>13, <1>18, <2>3 DEF JPCreate, JiraTypeOK
    <3> QED
      BY <1>1, <1>11, <1>16, <1>17, <1>18, <2>1, <2>3, <3>1 DEF JPCreate, JPIssueAppears, JiraTypeOK
  <2> QED
    BY <2>2, <2>3
<1>19. CASE JPCreateNoKey
  <2>1. jpMem' \in [JPNodes -> Entries]
    BY <1>1, <1>13, <1>19 DEF JPCreateNoKey, JiraTypeOK
  <2> QED
    BY <1>1, <1>5, <1>11, <1>16, <1>17, <1>19, <2>1 DEF JPCreateNoKey, JPIssueAppears, JiraTypeOK
<1>20. CASE JPCreateLost
  <2>1. /\ jpCount' \in [JPNodes -> Nat] /\ \A n \in JPNodes : jpSeen[n] <= jpCount'[n]
        /\ jpExcuse' \in [JPNodes -> Nat] /\ UNCHANGED <<jpSeen, jpMoved, jpLinks>>
    BY <1>1, <1>16, <1>17, <1>20 DEF JPCreateLost, JPIssueAppears, JiraTypeOK
  <2>2. CASE jpTry < JPRetries
    <3>1. jpTry' \in 0 .. JPRetries
      BY <1>1, <1>20, <2>2 DEF JPCreateLost, JiraTypeOK
    <3> QED
      BY <1>1, <1>5, <1>20, <2>1, <2>2, <3>1, JiraSameSelection DEF JPCreateLost, JiraTypeOK
  <2>3. CASE ~(jpTry < JPRetries)
    BY <1>1, <1>5, <1>11, <1>20, <2>1, <2>3 DEF JPCreateLost, JiraTypeOK
  <2> QED
    BY <2>2, <2>3
<1>21. CASE JPCreateRefused
  BY <1>1, <1>5, <1>11, <1>21 DEF JPCreateRefused, JiraTypeOK
<1>22. CASE JPCreateDies
  BY <1>1, <1>5, <1>6, <1>17, <1>22 DEF JPCreateDies, JPIssueAppears, JiraTypeOK
<1>23. CASE JPMove
  <2>1. /\ jpMem' \in [JPNodes -> Entries] /\ jpMoved' \subseteq JPNodes /\ jpFaults' \in 0 .. JPMaxFaults
        /\ UNCHANGED <<jpCount, jpSeen, jpLinks>>
    <3>1. CASE /\ jpMoved' = jpMoved \cup {jpAt} /\ jpMem' = [jpMem EXCEPT ![jpAt] = "moved"]
               /\ UNCHANGED <<jpCount, jpSeen, jpLinks, jpFaults>>
      BY <1>1, <1>2, <1>13, <1>23, <3>1 DEF JPMove, JiraTypeOK
    <3>2. CASE JPFault /\ jpMem' = [jpMem EXCEPT ![jpAt] = "key"] /\ UNCHANGED jpJira
      BY <1>1, <1>5, <1>13, <3>2 DEF JiraTypeOK
    <3> QED
      BY <1>23, <3>1, <3>2 DEF JPMove
  <2> QED
    BY <1>1, <1>11, <1>23, <2>1 DEF JPMove, JiraTypeOK
<1>24. CASE JPLink
  <2>1. jpAt' \in JPLinked /\ jpLinks' \subseteq JPLinked /\ jpMemLinks' \subseteq JPLinked
        /\ jpFaults' \in 0 .. JPMaxFaults
    BY <1>1, <1>5, <1>24, JiraLinkOrder DEF JPLink, JiraTypeOK
  <2> QED
    BY <1>1, <1>24, <2>1 DEF JPLink, JiraTypeOK
<1>25. CASE JPSave
  <2>1. 0 \in 0 .. JPRetries /\ (JPMaxCreate > 0 => 0 <= JPMaxCreate)
    OBVIOUS
  <2> QED
    BY <1>1, <1>25, <2>1 DEF JPSave, JPEnds, JiraTypeOK
<1>26. CASE JPCrash
  BY <1>7, <1>26 DEF JPCrash
<1>27. CASE JPIndex
  BY <1>1, <1>27 DEF JPIndex, JiraTypeOK
<1>28. CASE UNCHANGED jpVars
  BY <1>1, <1>28, JiraSameSelection DEF jpVars, JiraTypeOK
<1> QED
  BY <1>3, <1>4, <1>8, <1>9, <1>10, <1>12, <1>14, <1>15, <1>18, <1>19, <1>20, <1>21, <1>22, <1>23,
     <1>24, <1>25, <1>26, <1>27, <1>28
  DEF JiraNext, JPProgress

(* A node at hand is one of the plan. *)
LEMMA JiraAtNode ==
    ASSUME JiraTypeOK, jpPc \in {"nodes", "moving"}
    PROVE  jpAt \in JPNodes /\ jpAt \in JPSelected
  BY JiraSelection DEF JiraTypeOK

LEMMA JiraIssueAppears ==
    ASSUME JiraTypeOK, jpAt \in JPNodes, JPIssueAppears
    PROVE  \A n \in JPNodes : jpCount'[n] = IF n = jpAt THEN jpCount[n] + 1 ELSE jpCount[n]
  BY DEF JiraTypeOK, JPIssueAppears

(* Issues, moves and links are never taken back. *)
LEMMA JiraGrows ==
    ASSUME JiraTypeOK, [JiraNext]_jpVars
    PROVE  /\ \A n \in JPNodes : jpCount'[n] \in Nat /\ jpCount'[n] >= jpCount[n]
           /\ jpMoved \subseteq jpMoved' /\ jpLinks \subseteq jpLinks'
<1> USE DEF jpJira
<1>1. \A n \in JPNodes : jpCount[n] \in Nat
  BY DEF JiraTypeOK
<1>2. CASE JPMayCreate /\ JPIssueAppears
  BY <1>1, <1>2, JiraAtNode, JiraIssueAppears DEF JPMayCreate, JPMustCreate, JPIssueAppears
<1>3. CASE JPMove \/ JPLink
  BY <1>1, <1>3 DEF JPMove, JPLink
<1>4. CASE UNCHANGED <<jpCount, jpMoved, jpLinks>>
  BY <1>1, <1>4
<1>5. \/ JPMayCreate /\ JPIssueAppears
      \/ JPMove \/ JPLink
      \/ UNCHANGED <<jpCount, jpMoved, jpLinks>>
  BY DEF JiraNext, JPProgress, jpVars, JPChange, JPBegin, JPPrepare, JPLookup, JPLookupFails, JPSkipCached,
         JPAdopt, JPSkipCreate, JPCreate, JPSave, JPCreateNoKey, JPCreateLost, JPCreateRefused,
         JPCreateDies, JPCrash, JPIndex
<1> QED
  BY <1>2, <1>3, <1>4, <1>5

(* What the process remembers stays true of Jira. *)
LEMMA JiraMemoryStep ==
    ASSUME JiraInv, [JiraNext]_jpVars
    PROVE  JiraMemoryIsTrue'
<1> USE DEF jpRun, jpDisk, jpJira, JiraMemoryIsTrue
<1>1. /\ JiraTypeOK /\ JiraMemoryIsTrue /\ JiraStateIsTrue
      /\ \A n \in JPNodes : jpCount[n] \in Nat
  BY DEF JiraInv, JiraTypeOK
<1>2. /\ \A n \in JPNodes : jpCount'[n] \in Nat /\ jpCount'[n] >= jpCount[n]
      /\ jpMoved \subseteq jpMoved' /\ jpLinks \subseteq jpLinks'
  BY <1>1, JiraGrows
<1>3. /\ \A n \in JPNodes : jpCount[n] > 0 => jpCount'[n] > 0
      /\ jpFound \subseteq JPNodes
  BY <1>1, <1>2 DEF JiraTypeOK
<1>4. ASSUME UNCHANGED <<jpMem, jpMemLinks>>, jpFound' \subseteq jpFound, jpPc' # "moving"
      PROVE  JiraMemoryIsTrue'
  BY <1>1, <1>2, <1>3, <1>4
<1>5. ASSUME jpMem' = jpFile, jpMemLinks' = jpFileLinks, jpFound' \subseteq jpFound, jpPc' # "moving"
      PROVE  JiraMemoryIsTrue'
  BY <1>1, <1>2, <1>3, <1>5 DEF JiraStateIsTrue
<1>6. ASSUME JPGone PROVE JiraMemoryIsTrue'
  BY <1>5, <1>6 DEF JPGone, JPEnds
<1>7. ASSUME JPGoOn PROVE jpPc' # "moving"
  BY <1>7 DEF JPGoOn
\* An entry written for an issue that exists.
<1>8. ASSUME jpAt \in JPNodes, NEW e \in {"nokey", "key", "moved"}, jpMem' = [jpMem EXCEPT ![jpAt] = e],
             e = "moved" => jpAt \in jpMoved', jpCount'[jpAt] > 0,
             jpFound' = jpFound, jpMemLinks' = jpMemLinks, jpPc' # "moving"
      PROVE  JiraMemoryIsTrue'
  <2>1. \A n \in JPNodes : jpMem'[n] = IF n = jpAt THEN e ELSE jpMem[n]
    BY <1>1, <1>8 DEF JiraTypeOK
  <2> QED
    BY <1>1, <1>2, <1>3, <1>8, <2>1
<1>9. CASE JPChange
  BY <1>1, <1>9 DEF JPChange
<1>10. CASE JPBegin
  BY <1>5, <1>10 DEF JPBegin
<1>11. CASE JPPrepare
  BY <1>4, <1>6, <1>11 DEF JPPrepare
<1>12. CASE JPLookup
  <2>1. jpFound' \subseteq JPNodes /\ \A n \in jpFound' : jpCount[n] > 0
    BY <1>1, <1>12, JiraSelection DEF JPLookup, JPMissing, JiraTypeOK
  <2> QED
    BY <1>1, <1>2, <1>12, <2>1 DEF JPLookup
<1>13. CASE JPLookupFails \/ JPCreateDies \/ JPCrash
  BY <1>6, <1>13 DEF JPLookupFails, JPCreateDies, JPCrash
<1>14. CASE JPSkipCached \/ JPSkipCreate \/ JPCreateRefused
  BY <1>4, <1>7, <1>14 DEF JPSkipCached, JPSkipCreate, JPCreateRefused
<1>15. CASE JPAdopt
  <2>1. jpAt \in JPNodes /\ jpAt \in jpFound /\ jpCount'[jpAt] > 0
    BY <1>1, <1>3, <1>15, JiraAtNode DEF JPAdopt
  <2>2. CASE jpAt \in JPTargets
    BY <1>1, <1>2, <1>3, <1>15, <2>1, <2>2 DEF JPAdopt
  <2>3. CASE jpAt \notin JPTargets
    BY <1>7, <1>8, <1>15, <2>1, <2>3 DEF JPAdopt
  <2> QED
    BY <2>2, <2>3
<1>16. ASSUME JPMayCreate, JPIssueAppears
       PROVE  jpAt \in JPNodes /\ jpCount'[jpAt] > 0
  BY <1>1, <1>16, JiraAtNode, JiraIssueAppears DEF JPMayCreate, JPMustCreate
<1>17. CASE JPCreate
  <2>1. CASE jpAt \in JPTargets
    BY <1>1, <1>2, <1>3, <1>16, <1>17, <2>1 DEF JPCreate
  <2>2. CASE jpAt \notin JPTargets
    BY <1>7, <1>8, <1>16, <1>17, <2>2 DEF JPCreate
  <2> QED
    BY <2>1, <2>2
<1>18. CASE JPCreateNoKey
  BY <1>7, <1>8, <1>16, <1>18 DEF JPCreateNoKey
<1>19. CASE JPCreateLost
  <2>1. jpPc' # "moving"
    BY <1>7, <1>19 DEF JPCreateLost, JPMayCreate, JPMustCreate
  <2> QED
    BY <1>4, <1>19, <2>1 DEF JPCreateLost
<1>20. CASE JPMove
  <2>1. jpAt \in JPNodes /\ jpCount'[jpAt] > 0
    BY <1>1, <1>3, <1>20, JiraAtNode DEF JPMove
  <2> QED
    BY <1>7, <1>8, <1>20, <2>1 DEF JPMove
<1>21. CASE JPLink
  BY <1>1, <1>2, <1>3, <1>21 DEF JPLink
<1>22. CASE JPSave
  BY <1>4, <1>22 DEF JPSave, JPEnds
<1>23. CASE JPIndex \/ UNCHANGED jpVars
  BY <1>1, <1>23 DEF JPIndex, jpVars
<1> QED
  BY <1>9, <1>10, <1>11, <1>12, <1>13, <1>14, <1>15, <1>17, <1>18, <1>19, <1>20, <1>21, <1>22, <1>23
  DEF JiraNext, JPProgress

(* The state file is left alone, or is what the process remembers. *)
LEMMA JiraStateStep ==
    ASSUME JiraInv, [JiraNext]_jpVars
    PROVE  JiraStateIsTrue'
<1>1. /\ JiraTypeOK /\ JiraMemoryIsTrue /\ JiraStateIsTrue
      /\ \A n \in JPNodes : jpCount[n] \in Nat
  BY DEF JiraInv, JiraTypeOK
<1>2. UNCHANGED jpDisk \/ (jpFile' = jpMem /\ jpFileLinks' = jpMemLinks)
  BY DEF JiraNext, JPProgress, jpVars, JPChange, JPBegin, JPPrepare, JPLookup, JPLookupFails, JPSkipCached,
         JPAdopt, JPSkipCreate, JPCreate, JPMove, JPLink, JPSave, JPCreateNoKey, JPCreateLost,
         JPCreateRefused, JPCreateDies, JPCrash, JPIndex
<1>3. \A n \in JPNodes :
        /\ jpFile'[n] # "none" => jpCount[n] > 0
        /\ jpFile'[n] = "moved" => n \in jpMoved
        /\ n \in jpFileLinks' => n \in jpLinks
  BY <1>1, <1>2 DEF jpDisk, JiraStateIsTrue, JiraMemoryIsTrue
<1>4. /\ \A n \in JPNodes : jpCount'[n] \in Nat /\ jpCount'[n] >= jpCount[n]
      /\ jpMoved \subseteq jpMoved' /\ jpLinks \subseteq jpLinks'
  BY <1>1, JiraGrows
<1> QED
  BY <1>1, <1>3, <1>4 DEF JiraStateIsTrue

(* Every issue beyond the first keeps its reason: before a search passes,  *)
(* what it does not find has no issue, or the search is itself the reason; *)
(* from then on the run creates once for each node still to come.          *)
LEMMA JiraDuplicatesStep ==
    ASSUME JiraInv, [JiraNext]_jpVars
    PROVE  JiraMayCreate' /\ JiraDuplicatesExplained'
<1> USE DEF jpRun, jpDisk, jpJira, jpCommand, JiraMayCreate, JiraDuplicatesExplained
<1>1. /\ JiraTypeOK /\ JiraMayCreate /\ JiraDuplicatesExplained
      /\ \A n \in JPNodes : jpCount[n] \in Nat /\ jpSeen[n] \in Nat /\ jpExcuse[n] \in Nat
      /\ \A n \in JPNodes : jpSeen[n] <= jpCount[n]
      /\ JPNodes \subseteq Nat /\ jpAt \in Nat
  BY JiraAssumed DEF JiraInv, JiraTypeOK
\* Where nothing is to come, and no issue appears.
<1>2. ASSUME jpPc' \notin {"nodes", "moving"}, UNCHANGED <<jpCount, jpExcuse>>
      PROVE  JiraMayCreate' /\ JiraDuplicatesExplained'
  BY <1>1, <1>2 DEF JiraToCome
\* What is still to come after the step was to come before it, with the same
\* entry.
<1>3. ASSUME JPGoOn, jpPc \in {"nodes", "moving"}, UNCHANGED <<jpCommand, jpFound>>
      PROVE  \A n \in JPNodes : JiraToCome(n)' => JiraToCome(n) /\ n > jpAt
  <2>1. /\ jpPc' \in {"nodes", "linking"} /\ jpAt' \in JPNodes \cup {0}
        /\ jpPc' = "nodes" => jpAt' > jpAt
    BY <1>1, <1>3, JiraGoesOn
  <2>2. JPSelected' = JPSelected
    BY <1>3, JiraSameSelection
  <2> QED
    BY <1>1, <1>3, <2>1, <2>2 DEF JiraToCome
<1>4. ASSUME JPGoOn, jpPc \in {"nodes", "moving"}, UNCHANGED <<jpCommand, jpFound, jpExcuse>>,
             \A n \in JPNodes : n # jpAt => jpMem'[n] = jpMem[n] /\ jpCount'[n] = jpCount[n]
      PROVE  JiraMayCreate'
  <2>1. \A n \in JPNodes : n # jpAt => JPCached(n)' = JPCached(n)
    BY <1>4 DEF JPCached
  <2> QED
    BY <1>1, <1>3, <1>4, <2>1
<1>5. ASSUME JPGoOn, jpPc \in {"nodes", "moving"}, UNCHANGED <<jpCommand, jpFound, jpExcuse, jpCount>>,
             \A n \in JPNodes : n # jpAt => jpMem'[n] = jpMem[n]
      PROVE  JiraMayCreate' /\ JiraDuplicatesExplained'
  BY <1>1, <1>4, <1>5
<1>6. ASSUME jpPc = "nodes", jpPc' = "moving", UNCHANGED <<jpCommand, jpFound, jpExcuse, jpAt, jpMem>>,
             \A n \in JPNodes : n # jpAt => jpCount'[n] = jpCount[n]
      PROVE  JiraMayCreate'
  <2>1. \A n \in JPNodes : JPCached(n)' = JPCached(n)
    BY <1>6 DEF JPCached
  <2>2. \A n \in JPNodes : JiraToCome(n)' => JiraToCome(n) /\ n # jpAt
    BY <1>1, <1>6, JiraSameSelection DEF JiraToCome
  <2> QED
    BY <1>1, <1>6, <2>1, <2>2
<1>7. CASE JPChange \/ JPBegin
  BY <1>2, <1>7 DEF JPChange, JPBegin
<1>8. CASE JPPrepare \/ JPLookupFails \/ JPCrash
  BY <1>2, <1>8 DEF JPPrepare, JPLookupFails, JPCrash, JPGone, JPEnds
<1>9. CASE JPLookup
  <2>1. \A n \in JPNodes :
          /\ jpExcuse'[n] = jpExcuse[n] + (IF n \in JPOverlooked THEN 1 ELSE 0)
          /\ jpCount'[n] = jpCount[n]
    BY <1>9 DEF JPLookup
  <2>2. JPSelected' = JPSelected /\ \A n \in JPNodes : JPCached(n)' = JPCached(n)
    BY <1>9, JiraSameSelection DEF JPLookup, JPCached
  <2>3. JiraDuplicatesExplained'
    BY <1>1, <2>1
  <2>4. ASSUME NEW n \in JPNodes, n \in JPSelected, ~JPCached(n), n \notin jpFound'
        PROVE  jpCount[n] <= jpExcuse'[n]
    <3>1. n \in JPMissing /\ jpSeen[n] # 1 /\ ~(jpSeen[n] > 1)
      BY <1>9, <2>4 DEF JPLookup, JPMissing, JPAmbiguous
    <3>2. jpSeen[n] = 0
      BY <1>1, <3>1
    <3>3. CASE jpCount[n] = 0
      BY <1>1, <2>1, <3>3
    <3>4. CASE jpCount[n] # 0
      <4>1. n \in JPOverlooked
        BY <1>1, <3>1, <3>2, <3>4 DEF JPOverlooked
      <4> QED
        BY <1>1, <2>1, <4>1
    <3> QED
      BY <3>3, <3>4
  <2>5. JiraMayCreate'
    BY <2>1, <2>2, <2>4 DEF JiraToCome
  <2> QED
    BY <2>3, <2>5
<1>10. CASE JPSkipCached \/ JPSkipCreate \/ JPCreateRefused
  BY <1>5, <1>10 DEF JPSkipCached, JPSkipCreate, JPCreateRefused, JPMayCreate, JPMustCreate
<1>11. \A e : \A n \in JPNodes : n # jpAt => [jpMem EXCEPT ![jpAt] = e][n] = jpMem[n]
  BY <1>1 DEF JiraTypeOK
<1>12. CASE JPAdopt
  <2>1. CASE jpAt \in JPTargets
    BY <1>1, <1>6, <1>12, <2>1 DEF JPAdopt
  <2>2. CASE jpAt \notin JPTargets
    BY <1>5, <1>11, <1>12, <2>2 DEF JPAdopt
  <2> QED
    BY <2>1, <2>2
\* An issue is created only where the ones before it are accounted for.
<1>13. ASSUME JPMayCreate, JPIssueAppears
       PROVE  /\ jpPc = "nodes" /\ jpAt \in JPNodes /\ jpCount[jpAt] <= jpExcuse[jpAt]
              /\ \A n \in JPNodes : jpCount'[n] = IF n = jpAt THEN jpCount[n] + 1 ELSE jpCount[n]
  BY <1>1, <1>13, JiraAtNode, JiraIssueAppears DEF JPMayCreate, JPMustCreate, JiraToCome
<1>14. ASSUME JPMayCreate, JPIssueAppears, UNCHANGED jpExcuse
       PROVE  JiraDuplicatesExplained'
  BY <1>1, <1>13, <1>14
<1>15. CASE JPCreate
  <2>1. CASE jpAt \in JPTargets
    BY <1>6, <1>13, <1>14, <1>15, <2>1 DEF JPCreate
  <2>2. CASE jpAt \notin JPTargets
    <3>1. /\ JPMayCreate /\ JPIssueAppears /\ JPGoOn /\ jpMem' = [jpMem EXCEPT ![jpAt] = "key"]
          /\ UNCHANGED <<jpCommand, jpFound, jpExcuse>>
      BY <1>15, <2>2 DEF JPCreate
    <3> QED
      BY <1>4, <1>11, <1>13, <1>14, <3>1
  <2> QED
    BY <2>1, <2>2
<1>16. CASE JPCreateNoKey
  BY <1>4, <1>11, <1>13, <1>14, <1>16 DEF JPCreateNoKey
<1>17. CASE JPCreateDies
  BY <1>14, <1>17 DEF JPCreateDies, JPGone, JPEnds, JiraToCome
<1>18. CASE JPCreateLost
  <2>1. /\ jpPc = "nodes" /\ jpAt \in JPNodes
        /\ \A n \in JPNodes :
             \/ jpCount'[n] = jpCount[n] /\ jpExcuse'[n] = jpExcuse[n]
             \/ jpCount'[n] = jpCount[n] + 1 /\ jpExcuse'[n] = jpExcuse[n] + 1
    <3>1. jpPc = "nodes" /\ jpAt \in JPNodes
      BY <1>1, <1>18, JiraAtNode DEF JPCreateLost, JPMayCreate, JPMustCreate
    <3>2. CASE JPIssueAppears /\ jpExcuse' = [jpExcuse EXCEPT ![jpAt] = @ + 1]
      <4>1. \A n \in JPNodes : jpExcuse'[n] = IF n = jpAt THEN jpExcuse[n] + 1 ELSE jpExcuse[n]
        BY <1>1, <3>2 DEF JiraTypeOK
      <4> QED
        BY <1>1, <3>1, <3>2, <4>1, JiraIssueAppears
    <3>3. CASE UNCHANGED <<jpJira, jpExcuse>>
      BY <3>1, <3>3
    <3> QED
      BY <1>18, <3>2, <3>3 DEF JPCreateLost
  <2>2. JiraDuplicatesExplained'
    BY <1>1, <2>1
  <2>3. \A n \in JPNodes : JPCached(n)' = JPCached(n)
    BY <1>18 DEF JPCreateLost, JPCached
  <2>4. \A n \in JPNodes : JiraToCome(n)' => JiraToCome(n)
    <3>1. CASE jpTry < JPRetries
      BY <1>18, <3>1, JiraSameSelection DEF JPCreateLost, JiraToCome
    <3>2. CASE ~(jpTry < JPRetries)
      BY <1>3, <1>18, <2>1, <3>2 DEF JPCreateLost
    <3> QED
      BY <3>1, <3>2
  <2>5. JiraMayCreate'
    BY <1>1, <1>18, <2>1, <2>3, <2>4 DEF JPCreateLost
  <2> QED
    BY <2>2, <2>5
<1>19. CASE JPMove
  BY <1>5, <1>11, <1>19 DEF JPMove
<1>20. CASE JPLink
  BY <1>2, <1>20 DEF JPLink
<1>21. CASE JPSave
  BY <1>2, <1>21 DEF JPSave, JPEnds
<1>22. CASE JPIndex
  BY <1>2, <1>22 DEF JPIndex
<1>23. CASE UNCHANGED jpVars
  BY <1>1, <1>23, JiraSameSelection DEF jpVars, JiraToCome, JPCached
<1> QED
  BY <1>7, <1>8, <1>9, <1>10, <1>12, <1>15, <1>16, <1>17, <1>18, <1>19, <1>20, <1>21, <1>22, <1>23
  DEF JiraNext, JPProgress

LEMMA JiraInvStep ==
    ASSUME JiraInv, [JiraNext]_jpVars
    PROVE  JiraInv'
  BY JiraTypeStep, JiraMemoryStep, JiraStateStep, JiraDuplicatesStep DEF JiraInv

(* The state file of the Jira publisher never says more than Jira does     *)
(* (findings_to_jira.py): an entry has its issue, a status on record was   *)
(* reached, a link on record was made, whatever run died and whichever     *)
(* answer was lost.                                                        *)
THEOREM JiraStateTrue == JiraSpec => []JiraStateIsTrue
<1>1. JiraInit => JiraInv
  BY JiraInitInv
<1>2. JiraInv /\ [JiraNext]_jpVars => JiraInv'
  BY JiraInvStep
<1>3. JiraInv => JiraStateIsTrue
  BY DEF JiraInv
<1> QED
  BY <1>1, <1>2, <1>3, PTL DEF JiraSpec

(* Every issue beyond the first of its node is paid for by a lost answer   *)
(* or by a search of an index that lagged, for any plan, any --retries and *)
(* any --max-create.                                                       *)
THEOREM JiraDuplicatesHaveReasons == JiraSpec => []JiraDuplicatesExplained
<1>1. JiraInit => JiraInv
  BY JiraInitInv
<1>2. JiraInv /\ [JiraNext]_jpVars => JiraInv'
  BY JiraInvStep
<1>3. JiraInv => JiraDuplicatesExplained
  BY DEF JiraInv
<1> QED
  BY <1>1, <1>2, <1>3, PTL DEF JiraSpec

-----------------------------------------------------------------------------
(***************************************************************************)
(* The nodes of the hierarchy plans.                                       *)
(***************************************************************************)

\* What a version's bill of materials shows while nobody changes it.
WalkShows(v, resolve) ==
  {c \in RUVersions \ {v} : <<v, c>> \in RUEdges /\ (resolve \/ <<v, c>> \notin RUNamed)}

\* One step of a walk of the first tree in which every read succeeds.
WalkFound(root, resolve, x) ==
  WalkShows(Head(x.queue).version, resolve) \ ({root} \cup {r.child : r \in x.refs})
WalkPath(x, c) == Append(Head(x.queue).path, <<c, 0>>)
WalkAfter(root, resolve, x, seq) ==
  [queue |-> Tail(x.queue) \o [i \in DOMAIN seq |-> [version |-> seq[i], path |-> WalkPath(x, seq[i])]],
   refs |-> x.refs \cup {RURef(root, 0, FALSE, c, WalkPath(x, c)) : c \in WalkFound(root, resolve, x)}]
WalkStep(root, resolve, x, y) ==
  \E seq \in RUInOrder(WalkFound(root, resolve, x)) : y = WalkAfter(root, resolve, x, seq)

WalkStart(root) == [queue |-> << [version |-> root, path |-> <<>>] >>, refs |-> {}]

\* The first n steps of it, and the relationships it finds.
IsWalk(root, resolve, n, h) ==
  h[0] = WalkStart(root) /\ \A i \in 0 .. n - 1 : WalkStep(root, resolve, h[i], h[i + 1])
WalkFinds(root, resolve, ref) ==
  \E n \in Nat : \E h : IsWalk(root, resolve, n, h) /\ ref \in h[n].refs

LEMMA RollupAssumed ==
  /\ RUVersions \subseteq Nat /\ IsFiniteSet(RUVersions) /\ RUArgs # {}
  /\ RUArgs \subseteq [csv : BOOLEAN, root : RUVersions, depth : Nat, resolve : BOOLEAN, entity : BOOLEAN]
  /\ RUEdges \subseteq RUVersions \X RUVersions /\ RUExtra \subseteq RUVersions \X RUVersions
  /\ RUMaxFaults \in Nat /\ RUMaxChanges \in Nat /\ RUMaxRuns \in Nat
BY RollupAssumption

(* A set of numbers has one order.                                         *)
LEMMA OneOrder ==
    ASSUME NEW S, S \subseteq Nat, IsFiniteSet(S), NEW s \in RUInOrder(S), NEW t \in RUInOrder(S)
    PROVE  s = t
<1> DEFINE n == Cardinality(S)
<1>1. n \in Nat
  BY FS_CardinalityType
<1>2. /\ s \in [1 .. n -> S] /\ t \in [1 .. n -> S]
      /\ \A x \in S : (\E i \in 1 .. n : s[i] = x) /\ (\E i \in 1 .. n : t[i] = x)
      /\ \A i, j \in 1 .. n : i < j => s[i] < s[j] /\ t[i] < t[j]
  <2>1. s \in [1 .. n -> S] /\ Range(s) = S /\ \A i, j \in DOMAIN s : i < j => s[i] < s[j]
    BY DEF RUInOrder
  <2>2. t \in [1 .. n -> S] /\ Range(t) = S /\ \A i, j \in DOMAIN t : i < j => t[i] < t[j]
    BY DEF RUInOrder
  <2> QED
    BY <2>1, <2>2 DEF Range
<1> HIDE DEF n
<1>3. SUFFICES ASSUME {i \in 1 .. n : s[i] # t[i]} # {} PROVE FALSE
  BY <1>1, <1>2
<1>4. PICK m \in {i \in 1 .. n : s[i] # t[i]} : \A k \in {i \in 1 .. n : s[i] # t[i]} : m <= k
  <2>1. {i \in 1 .. n : s[i] # t[i]} \subseteq Nat
    BY <1>1
  <2> QED
    BY <2>1, <1>3, SmallestExists
<1>5. \A k \in 1 .. n : k < m => s[k] = t[k]
  BY <1>1, <1>4
<1>6. PICK i \in 1 .. n : s[i] = t[m]
  BY <1>2, <1>4
<1>7. PICK j \in 1 .. n : t[j] = s[m]
  BY <1>2, <1>4
<1>8. m \in Nat /\ i \in Nat /\ j \in Nat /\ i # m /\ j # m /\ \A k \in 1 .. n : s[k] \in Nat /\ t[k] \in Nat
  <2>1. m \in Nat /\ i \in Nat /\ j \in Nat
    BY <1>1, <1>4, <1>6, <1>7
  <2>2. i # m /\ j # m
    BY <1>4, <1>6, <1>7
  <2>3. \A k \in 1 .. n : s[k] \in S /\ t[k] \in S
    BY <1>2
  <2> QED
    BY <2>1, <2>2, <2>3
<1>9. i > m
  <2>1. CASE i < m
    <3>1. t[i] = t[m] /\ t[i] < t[m]
      BY <2>1, <1>2, <1>4, <1>5, <1>6
    <3> QED
      BY <3>1, <1>8, <1>4
  <2> QED
    BY <2>1, <1>8
<1>10. j > m
  <2>1. CASE j < m
    <3>1. s[j] = s[m] /\ s[j] < s[m]
      BY <2>1, <1>2, <1>4, <1>5, <1>7
    <3> QED
      BY <3>1, <1>8, <1>4
  <2> QED
    BY <2>1, <1>8
<1>11. s[m] < t[m]
  BY <1>9, <1>2, <1>4, <1>6
<1>12. t[m] < s[m]
  BY <1>10, <1>2, <1>4, <1>7
<1> QED
  BY <1>11, <1>12, <1>8, <1>4

(* A walk of the tree can go one way only.                                 *)
LEMMA WalkGoesOneWay ==
    ASSUME NEW root, NEW resolve, NEW x, NEW y, NEW z,
           WalkStep(root, resolve, x, y), WalkStep(root, resolve, x, z)
    PROVE  y = z
<1>1. WalkFound(root, resolve, x) \subseteq RUVersions
  BY DEF WalkFound, WalkShows
<1>2. WalkFound(root, resolve, x) \subseteq Nat /\ IsFiniteSet(WalkFound(root, resolve, x))
  BY <1>1, RollupAssumed, FS_Subset
<1> QED
  BY <1>2, OneOrder DEF WalkStep

LEMMA WalksAgree ==
    ASSUME NEW root, NEW resolve, NEW n \in Nat, NEW m \in Nat, n <= m, NEW g, NEW h,
           IsWalk(root, resolve, n, g), IsWalk(root, resolve, m, h)
    PROVE  \A i \in 0 .. n : g[i] = h[i]
<1> DEFINE Apart == {i \in 0 .. n : g[i] # h[i]}
<1> SUFFICES ASSUME Apart # {} PROVE FALSE
  OBVIOUS
<1>1. PICK k \in Apart : \A i \in Apart : k <= i
  <2>1. Apart \subseteq Nat
    OBVIOUS
  <2> HIDE DEF Apart
  <2> QED
    BY <2>1, SmallestExists
<1>2. k # 0
  BY <1>1 DEF IsWalk
<1>3. k \in 1 .. n /\ k - 1 \in 0 .. n - 1 /\ k - 1 \in 0 .. m - 1 /\ (k - 1) + 1 = k /\ k - 1 \in 0 .. n
  BY <1>1, <1>2
<1>4. g[k - 1] = h[k - 1]
  <2>1. k - 1 \notin Apart
    BY <1>1, <1>3
  <2> QED
    BY <2>1, <1>3
<1>5. WalkStep(root, resolve, g[k - 1], g[k]) /\ WalkStep(root, resolve, h[k - 1], h[k])
  BY <1>3 DEF IsWalk
<1>6. g[k] = h[k]
  BY <1>4, <1>5, WalkGoesOneWay
<1> QED
  BY <1>1, <1>6

(* What a walk has found stays found, and each child is found once.        *)
LEMMA WalkStepRefs ==
    ASSUME NEW root, NEW resolve, NEW x, NEW y, WalkStep(root, resolve, x, y)
    PROVE  /\ x.refs \subseteq y.refs
           /\ (\A r, q \in x.refs : r.child = q.child => r = q)
                => \A r, q \in y.refs : r.child = q.child => r = q
<1> DEFINE New == {RURef(root, 0, FALSE, c, WalkPath(x, c)) : c \in WalkFound(root, resolve, x)}
<1>1. y.refs = x.refs \cup New
  <2>1. PICK seq \in RUInOrder(WalkFound(root, resolve, x)) : y = WalkAfter(root, resolve, x, seq)
    BY DEF WalkStep
  <2>2. WalkAfter(root, resolve, x, seq).refs = x.refs \cup New
    BY DEF WalkAfter
  <2> QED
    BY <2>1, <2>2
<1>2. \A c \in WalkFound(root, resolve, x) : \A r \in x.refs : r.child # c
  BY DEF WalkFound
<1>3. \A c : RURef(root, 0, FALSE, c, WalkPath(x, c)).child = c
  BY DEF RURef
<1>4. \A r \in New : r = RURef(root, 0, FALSE, r.child, WalkPath(x, r.child)) /\ r.child \in WalkFound(root, resolve, x)
  <2>1. SUFFICES ASSUME NEW c \in WalkFound(root, resolve, x), NEW r, r = RURef(root, 0, FALSE, c, WalkPath(x, c))
                 PROVE  r = RURef(root, 0, FALSE, r.child, WalkPath(x, r.child)) /\ r.child \in WalkFound(root, resolve, x)
    OBVIOUS
  <2>2. r.child = c
    BY <2>1, <1>3
  <2> QED
    BY <2>1, <2>2
<1> HIDE DEF New
<1>5. \A r, q \in New : r.child = q.child => r = q
  BY <1>4
<1> QED
  BY <1>1, <1>2, <1>4, <1>5

LEMMA WalkOnce ==
    ASSUME NEW root, NEW resolve, NEW n \in Nat, NEW h, IsWalk(root, resolve, n, h)
    PROVE  /\ \A i \in 0 .. n : h[i].refs \subseteq h[n].refs
           /\ \A r, q \in h[n].refs : r.child = q.child => r = q
<1> DEFINE Good(i) == \A r, q \in h[i].refs : r.child = q.child => r = q
<1>1. \A i \in 0 .. n : Good(i)
  <2> DEFINE Bad == {i \in 0 .. n : ~Good(i)}
  <2> SUFFICES ASSUME Bad # {} PROVE FALSE
    OBVIOUS
  <2>1. PICK k \in Bad : \A i \in Bad : k <= i
    <3>1. Bad \subseteq Nat
      OBVIOUS
    <3> HIDE DEF Bad
    <3> QED
      BY <3>1, SmallestExists
  <2>2. k # 0
    <3>1. Good(0)
      BY DEF IsWalk, WalkStart
    <3> QED
      BY <2>1, <3>1
  <2>3. k - 1 \in 0 .. n - 1 /\ (k - 1) + 1 = k /\ k - 1 \in 0 .. n
    BY <2>1, <2>2
  <2>4. Good(k - 1)
    <3>1. k - 1 \notin Bad
      BY <2>1, <2>3
    <3> QED
      BY <3>1, <2>3
  <2>5. WalkStep(root, resolve, h[k - 1], h[k])
    BY <2>3 DEF IsWalk
  <2>6. Good(k)
    BY <2>4, <2>5, WalkStepRefs
  <2> QED
    BY <2>1, <2>6
<1>2. \A i \in 0 .. n : h[i].refs \subseteq h[n].refs
  <2> DEFINE Bad == {d \in 0 .. n : ~(h[n - d].refs \subseteq h[n].refs)}
  <2>1. Bad = {}
    <3> SUFFICES ASSUME Bad # {} PROVE FALSE
      OBVIOUS
    <3>1. PICK k \in Bad : \A i \in Bad : k <= i
      <4>1. Bad \subseteq Nat
        OBVIOUS
      <4> HIDE DEF Bad
      <4> QED
        BY <4>1, SmallestExists
    <3>2. k # 0
      BY <3>1
    <3>3. k - 1 \in 0 .. n /\ n - k \in 0 .. n - 1 /\ (n - k) + 1 = n - (k - 1)
      BY <3>1, <3>2
    <3>4. h[n - (k - 1)].refs \subseteq h[n].refs
      <4>1. k - 1 \notin Bad
        BY <3>1, <3>3
      <4> QED
        BY <4>1, <3>3
    <3>5. WalkStep(root, resolve, h[n - k], h[n - (k - 1)])
      BY <3>3 DEF IsWalk
    <3>6. h[n - k].refs \subseteq h[n].refs
      BY <3>4, <3>5, WalkStepRefs
    <3> QED
      BY <3>1, <3>6
  <2>2. TAKE i \in 0 .. n
  <2>3. n - i \in 0 .. n /\ n - (n - i) = i
    OBVIOUS
  <2> QED
    BY <2>1, <2>3
<1> QED
  BY <1>1, <1>2

LEMMA WalkFindsOnce ==
    ASSUME NEW root, NEW resolve, NEW r, NEW q, r.child = q.child,
           WalkFinds(root, resolve, r), WalkFinds(root, resolve, q)
    PROVE  r = q
<1>1. PICK n \in Nat : \E h : IsWalk(root, resolve, n, h) /\ r \in h[n].refs
  BY DEF WalkFinds
<1>2. PICK h : IsWalk(root, resolve, n, h) /\ r \in h[n].refs
  BY <1>1
<1>3. PICK m \in Nat : \E g : IsWalk(root, resolve, m, g) /\ q \in g[m].refs
  BY DEF WalkFinds
<1>4. PICK g : IsWalk(root, resolve, m, g) /\ q \in g[m].refs
  BY <1>3
<1>5. CASE n <= m
  <2>1. h[n] = g[n]
    BY <1>5, <1>2, <1>4, WalksAgree
  <2>2. r \in g[m].refs
    BY <2>1, <1>5, <1>2, <1>4, WalkOnce
  <2> QED
    BY <2>2, <1>4, WalkOnce
<1>6. CASE m <= n
  <2>1. h[m] = g[m]
    BY <1>6, <1>2, <1>4, WalksAgree
  <2>2. q \in h[n].refs
    BY <2>1, <1>6, <1>2, <1>4, WalkOnce
  <2> QED
    BY <2>2, <1>2, WalkOnce
<1> QED
  BY <1>5, <1>6

-----------------------------------------------------------------------------
(* What is known of the identities of relationships, rows and nodes after  *)
(* what happened so far.                                                   *)

\* No name changed; the file gives a relationship the child alone as its
\* path, a walk the path on which walks of the first tree find it.
RefTrue(causes, r) ==
  \/ "rename" \in causes
  \/ /\ r.pname = 0 /\ r.cname = 0
     /\ \/ r.linked = TRUE /\ "csv" \in causes /\ r.path = << <<r.child, 0>> >>
        \/ /\ r.linked = FALSE /\ "walk" \in causes
           /\ \/ causes \cap {"edge", "skip"} # {}
              \/ \E resolve \in BOOLEAN :
                   /\ (IF resolve THEN "resolve" ELSE "direct") \in causes
                   /\ WalkFinds(r.parent, resolve, r)

RowTrue(causes, row) ==
  /\ RefTrue(causes, row.ref)
  /\ row.version = "name" \/ (row.version = "link" /\ "nameless" \in causes)

NodesOfRow(row) == RULineageNodes({row}) \cup RUVulnerabilityNodes({row}) \cup RUTaskNodes({row})
NodeTrue(causes, n) == \E row : RowTrue(causes, row) /\ n \in NodesOfRow(row)

LEMMA RefStaysTrue ==
    ASSUME NEW causes, NEW more, causes \subseteq more, NEW r, RefTrue(causes, r)
    PROVE  RefTrue(more, r)
BY DEF RefTrue

LEMMA RowStaysTrue ==
    ASSUME NEW causes, NEW more, causes \subseteq more, NEW row, RowTrue(causes, row)
    PROVE  RowTrue(more, row)
BY RefStaysTrue DEF RowTrue

LEMMA NodeStaysTrue ==
    ASSUME NEW causes, NEW more, causes \subseteq more, NEW n, NodeTrue(causes, n)
    PROVE  NodeTrue(more, n)
BY RowStaysTrue DEF NodeTrue

(* Two true nodes about the same thing differ only for a reason.           *)
LEMMA NodesOfRowAre ==
    ASSUME NEW row, NEW n \in NodesOfRow(row)
    PROVE  \/ n = RUNode("parent", <<row.ref.parent>>, RUParentKey(row))
           \/ n = RUNode("child", <<row.ref.parent, row.ref.child>>, RUStoryKey(row))
           \/ n = RUNode("finding", <<row.ref.parent, row.ref.child, row.component, row.vulnerability>>,
                         RURollupKey(row))
           \/ n = RUNode("vulnerability", <<row.vulnerability>>, <<row.vulnerability>>)
           \/ n = RUNode("task", <<row.vulnerability, row.ref.child>>, RUTaskKey(row))
BY DEF NodesOfRow, RULineageNodes, RUVulnerabilityNodes, RUTaskNodes

LEMMA SameRefs ==
    ASSUME NEW causes, NEW r, NEW q, RefTrue(causes, r), RefTrue(causes, q),
           "rename" \notin causes, r.parent = q.parent, r.child = q.child
    PROVE  /\ r.pname = q.pname /\ r.cname = q.cname
           /\ r.linked = q.linked \/ {"csv", "walk"} \subseteq causes
           /\ \/ r.path = q.path
              \/ {"csv", "walk"} \subseteq causes
              \/ causes \cap {"edge", "skip"} # {}
              \/ {"resolve", "direct"} \subseteq causes
<1>1. r.pname = q.pname /\ r.cname = q.cname
  BY DEF RefTrue
<1>2. CASE r.linked = TRUE /\ q.linked = TRUE
  BY <1>1, <1>2 DEF RefTrue
<1>3. CASE {"csv", "walk"} \subseteq causes
  BY <1>1, <1>3
<1>4. CASE r.linked = FALSE /\ q.linked = FALSE
  <2>1. SUFFICES ASSUME causes \cap {"edge", "skip"} = {}
                 PROVE  r.path = q.path \/ {"resolve", "direct"} \subseteq causes
    BY <1>1, <1>4
  <2>2. PICK a \in BOOLEAN : (IF a THEN "resolve" ELSE "direct") \in causes /\ WalkFinds(r.parent, a, r)
    BY <2>1, <1>4 DEF RefTrue
  <2>3. PICK b \in BOOLEAN : (IF b THEN "resolve" ELSE "direct") \in causes /\ WalkFinds(q.parent, b, q)
    BY <2>1, <1>4 DEF RefTrue
  <2>4. CASE a = b
    BY <2>2, <2>3, <2>4, WalkFindsOnce
  <2>5. CASE a # b
    BY <2>2, <2>3, <2>5
  <2> QED
    BY <2>4, <2>5
<1> QED
  BY <1>2, <1>3, <1>4 DEF RefTrue

LEMMA NodesDifferForReasons ==
    ASSUME NEW causes, NEW n, NEW m, NodeTrue(causes, n), NodeTrue(causes, m),
           n.kind = m.kind, n.about = m.about, n.id # m.id
    PROVE  \/ "rename" \in causes
           \/ n.kind \in {"parent", "child"} /\ {"csv", "walk"} \subseteq causes
           \/ n.kind = "child" /\ (causes \cap {"edge", "skip"} # {} \/ {"resolve", "direct"} \subseteq causes)
           \/ n.kind = "finding" /\ "nameless" \in causes
<1> SUFFICES ASSUME "rename" \notin causes
             PROVE  \/ n.kind \in {"parent", "child"} /\ {"csv", "walk"} \subseteq causes
                    \/ /\ n.kind = "child"
                       /\ causes \cap {"edge", "skip"} # {} \/ {"resolve", "direct"} \subseteq causes
                    \/ n.kind = "finding" /\ "nameless" \in causes
  OBVIOUS
<1>1. PICK x : RowTrue(causes, x) /\ n \in NodesOfRow(x)
  BY DEF NodeTrue
<1>2. PICK y : RowTrue(causes, y) /\ m \in NodesOfRow(y)
  BY DEF NodeTrue
<1> USE DEF RUNode
<1>3. n.kind \in {"parent", "child", "finding", "vulnerability", "task"}
  BY <1>1, NodesOfRowAre
<1>4. CASE n.kind = "vulnerability"
  <2>1. n = RUNode("vulnerability", <<x.vulnerability>>, <<x.vulnerability>>)
    BY <1>1, <1>4, NodesOfRowAre
  <2>2. m = RUNode("vulnerability", <<y.vulnerability>>, <<y.vulnerability>>)
    <3>1. m.kind = "vulnerability"
      BY <1>4
    <3> QED
      BY <3>1, <1>2, NodesOfRowAre
  <2> QED
    BY <2>1, <2>2
<1>5. CASE n.kind = "parent"
  <2>1. n = RUNode("parent", <<x.ref.parent>>, RUParentKey(x))
    BY <1>1, <1>5, NodesOfRowAre
  <2>2. m = RUNode("parent", <<y.ref.parent>>, RUParentKey(y))
    <3>1. m.kind = "parent"
      BY <1>5
    <3> QED
      BY <3>1, <1>2, NodesOfRowAre
  <2>3. x.ref.parent = y.ref.parent
    BY <2>1, <2>2
  <2>4. RefTrue(causes, x.ref) /\ RefTrue(causes, y.ref)
    BY <1>1, <1>2 DEF RowTrue
  <2>5. x.ref.pname = y.ref.pname /\ (x.ref.linked = y.ref.linked \/ {"csv", "walk"} \subseteq causes)
    BY <2>4 DEF RefTrue
  <2>6. x.ref.linked # y.ref.linked
    BY <2>1, <2>2, <2>3, <2>5 DEF RUParentKey
  <2> QED
    BY <2>5, <2>6, <1>5
<1>6. CASE n.kind = "child"
  <2>1. n = RUNode("child", <<x.ref.parent, x.ref.child>>, RUStoryKey(x))
    BY <1>1, <1>6, NodesOfRowAre
  <2>2. m = RUNode("child", <<y.ref.parent, y.ref.child>>, RUStoryKey(y))
    <3>1. m.kind = "child"
      BY <1>6
    <3> QED
      BY <3>1, <1>2, NodesOfRowAre
  <2>3. x.ref.parent = y.ref.parent /\ x.ref.child = y.ref.child
    BY <2>1, <2>2
  <2>4. RefTrue(causes, x.ref) /\ RefTrue(causes, y.ref)
    BY <1>1, <1>2 DEF RowTrue
  <2>5. x.ref.linked # y.ref.linked \/ x.ref.path # y.ref.path
    <3>1. x.ref.pname = y.ref.pname /\ x.ref.cname = y.ref.cname
      BY <2>3, <2>4, SameRefs
    <3>2. SUFFICES ASSUME x.ref.linked = y.ref.linked, x.ref.path = y.ref.path PROVE FALSE
      OBVIOUS
    <3>3. RUStoryKey(x) = RUStoryKey(y)
      BY <2>3, <3>1, <3>2, Zenon DEF RUStoryKey, RUParentKey
    <3> QED
      BY <2>1, <2>2, <3>3
  <2> QED
    BY <2>3, <2>4, <2>5, <1>6, SameRefs
<1>7. CASE n.kind = "finding"
  <2>1. n = RUNode("finding", <<x.ref.parent, x.ref.child, x.component, x.vulnerability>>, RURollupKey(x))
    BY <1>1, <1>7, NodesOfRowAre
  <2>2. m = RUNode("finding", <<y.ref.parent, y.ref.child, y.component, y.vulnerability>>, RURollupKey(y))
    <3>1. m.kind = "finding"
      BY <1>7
    <3> QED
      BY <3>1, <1>2, NodesOfRowAre
  <2>3. x.ref.parent = y.ref.parent /\ x.ref.child = y.ref.child /\ x.component = y.component
        /\ x.vulnerability = y.vulnerability
    BY <2>1, <2>2
  <2>4. x.ref.pname = y.ref.pname /\ x.ref.cname = y.ref.cname
    BY <1>1, <1>2 DEF RowTrue, RefTrue
  <2>5. x.version # y.version
    BY <2>1, <2>2, <2>3, <2>4 DEF RURollupKey
  <2> QED
    BY <2>5, <1>1, <1>2, <1>7 DEF RowTrue
<1>8. CASE n.kind = "task"
  <2>1. n = RUNode("task", <<x.vulnerability, x.ref.child>>, RUTaskKey(x))
    BY <1>1, <1>8, NodesOfRowAre
  <2>2. m = RUNode("task", <<y.vulnerability, y.ref.child>>, RUTaskKey(y))
    <3>1. m.kind = "task"
      BY <1>8
    <3> QED
      BY <3>1, <1>2, NodesOfRowAre
  <2>3. x.ref.cname = y.ref.cname
    BY <1>1, <1>2 DEF RowTrue, RefTrue
  <2> QED
    BY <2>1, <2>2, <2>3 DEF RUTaskKey
<1> QED
  BY <1>3, <1>4, <1>5, <1>6, <1>7, <1>8

-----------------------------------------------------------------------------
(* The walk of a run goes the way of the walks of the first tree, until it *)
(* is too deep.                                                            *)

QueueEntry == [version : RUVersions, path : Seq(RUVersions \X Nat)]

\* The versions come in the order of their depth, which differs by one at most.
QueueOrdered(queue) ==
  \A i, j \in DOMAIN queue : i <= j =>
    Len(queue[i].path) <= Len(queue[j].path) /\ Len(queue[j].path) <= Len(queue[1].path) + 1

WalkIsFirst(run) ==
  \E n \in Nat : \E h :
    /\ IsWalk(run.args.root, run.args.resolve, n, h)
    /\ run.refs = h[n].refs
    /\ run.queue = h[n].queue \/ \A i \in DOMAIN run.queue : Len(run.queue[i].path) >= run.args.depth

WalkTrue(causes, run) ==
  /\ run.at = "load" => "csv" \in causes
  /\ run.at = "walk" =>
       /\ "walk" \in causes /\ (IF run.args.resolve THEN "resolve" ELSE "direct") \in causes
       /\ QueueOrdered(run.queue)
       /\ causes \cap {"rename", "edge", "skip"} = {} => WalkIsFirst(run)

RunShape(run) ==
  run \in [at : RUStages, args : RUArgs, only : {run.only}, held : {run.held}, queue : Seq(QueueEntry),
           refs : {run.refs}, left : {run.left}, blank : {run.blank}, rows : {run.rows},
           failures : {run.failures}, skipped : {run.skipped}, due : {run.due}]

RollupTypes ==
  /\ ruBom \subseteq RUVersions \X RUVersions /\ ruName \in [RUVersions -> Nat]
  /\ RunShape(ruRun)
  /\ ruFile \in [main : {ruFile.main}, retry : {ruFile.retry}]

\* The world is the first one while nothing changed it, and so is the file.
WorldTrue ==
  /\ "rename" \in ruCauses \/ \A v \in RUVersions : ruName[v] = 0
  /\ "edge" \in ruCauses \/ ruBom = RUEdges
  /\ \A r \in ruCsv : RefTrue(ruCauses \cup {"csv"}, r)

RunTrue(causes, run) ==
  /\ \A r \in run.refs : RefTrue(causes, r)
  /\ \A row \in run.rows : RowTrue(causes, row)

PlansTrue ==
  /\ \A row \in ruFile.main \cup ruFile.retry : RowTrue(ruCauses, row)
  /\ \A n \in ruPlanned : NodeTrue(ruCauses, n)

RollupInv == RollupTypes /\ WorldTrue /\ WalkTrue(ruCauses, ruRun) /\ RunTrue(ruCauses, ruRun) /\ PlansTrue

LEMMA PlansSuffice == RollupInv => RollupNeverTwice
<1> SUFFICES ASSUME RollupInv, NEW n \in ruPlanned, NEW m \in ruPlanned,
                    n.kind = m.kind, n.about = m.about, n.id # m.id
             PROVE  \/ "rename" \in ruCauses
                    \/ n.kind \in {"parent", "child"} /\ {"csv", "walk"} \subseteq ruCauses
                    \/ /\ n.kind = "child"
                       /\ ruCauses \cap {"edge", "skip"} # {} \/ {"resolve", "direct"} \subseteq ruCauses
                    \/ n.kind = "finding" /\ "nameless" \in ruCauses
  BY DEF RollupNeverTwice
<1> QED
  BY NodesDifferForReasons DEF RollupInv, PlansTrue

LEMMA NoRollupShape == RunShape(NoRollup) /\ NoRollup.refs = {} /\ NoRollup.rows = {} /\ NoRollup.at = "idle"
<1>1. (CHOOSE a \in RUArgs : TRUE) \in RUArgs
  BY RollupAssumed
<1>2. << >> \in Seq(QueueEntry)
  OBVIOUS
<1> QED
  BY <1>1, <1>2 DEF NoRollup, RunShape, RUStages

LEMMA ListedTrue ==
    ASSUME NEW causes, "rename" \in causes \/ \A v \in RUVersions : ruName[v] = 0,
           ruBom \subseteq RUVersions \X RUVersions
    PROVE  \A r \in RUListed : RefTrue(causes \cup {"csv"}, r)
<1>1. ASSUME NEW e \in ruBom, "rename" \notin causes
      PROVE  RefTrue(causes \cup {"csv"}, RURef(e[1], ruName[e[1]], TRUE, e[2], << <<e[2], ruName[e[2]]>> >>))
  <2>1. e[1] \in RUVersions /\ e[2] \in RUVersions
    OBVIOUS
  <2>2. ruName[e[1]] = 0 /\ ruName[e[2]] = 0
    BY <1>1, <2>1
  <2> QED
    BY <2>2 DEF RefTrue, RURef
<1>2. ASSUME NEW r \in RUListed PROVE RefTrue(causes \cup {"csv"}, r)
  <2>1. CASE "rename" \in causes
    BY <2>1 DEF RefTrue
  <2>2. CASE "rename" \notin causes
    <3>1. PICK e \in ruBom : r = RURef(e[1], ruName[e[1]], TRUE, e[2], << <<e[2], ruName[e[2]]>> >>)
      BY DEF RUListed
    <3> QED
      BY <1>1, <2>2, <3>1
  <2> QED
    BY <2>1, <2>2
<1> QED
  BY <1>2

LEMMA RollupInitInv == RollupInit => RollupInv
<1> SUFFICES ASSUME RollupInit PROVE RollupInv
  OBVIOUS
<1>1. RollupTypes
  BY RollupAssumed, NoRollupShape DEF RollupInit, RollupTypes
<1>2. WorldTrue
  <2>1. \A v \in RUVersions : ruName[v] = 0
    BY DEF RollupInit
  <2>2. ruBom \subseteq RUVersions \X RUVersions
    BY RollupAssumed DEF RollupInit
  <2> QED
    BY <2>1, <2>2, ListedTrue DEF RollupInit, WorldTrue
<1>3. WalkTrue(ruCauses, ruRun) /\ RunTrue(ruCauses, ruRun)
  BY NoRollupShape DEF RollupInit, WalkTrue, RunTrue
<1> QED
  BY <1>1, <1>2, <1>3 DEF RollupInit, RollupInv, PlansTrue

(* What stays when a step adds to the causes.                              *)
LEMMA MoreCauses ==
    ASSUME RollupInv, ruCauses \subseteq ruCauses'
    PROVE  /\ \A r : RefTrue(ruCauses, r) => RefTrue(ruCauses', r)
           /\ \A row : RowTrue(ruCauses, row) => RowTrue(ruCauses', row)
           /\ UNCHANGED <<ruFile, ruPlanned>> => PlansTrue'
           /\ UNCHANGED ruWorld => WorldTrue'
<1>1. \A r : RefTrue(ruCauses, r) => RefTrue(ruCauses', r)
  BY RefStaysTrue
<1>2. \A row : RowTrue(ruCauses, row) => RowTrue(ruCauses', row)
  BY RowStaysTrue
<1>3. UNCHANGED <<ruFile, ruPlanned>> => PlansTrue'
  BY <1>2, NodeStaysTrue DEF RollupInv, PlansTrue
<1>4. UNCHANGED ruWorld => WorldTrue'
  <2>1. \A r : RefTrue(ruCauses \cup {"csv"}, r) => RefTrue(ruCauses' \cup {"csv"}, r)
    BY RefStaysTrue
  <2> QED
    BY <2>1 DEF RollupInv, WorldTrue, ruWorld
<1> QED
  BY <1>1, <1>2, <1>3, <1>4

(* The world changes.                                                      *)
LEMMA RollupWorldStep ==
    ASSUME RollupInv, RUAdds \/ RURemoves \/ RURenames \/ RURelists
    PROVE  RollupInv'
<1>1. ruCauses \subseteq ruCauses' /\ UNCHANGED <<ruFile, ruPlanned>>
  BY DEF RUAdds, RURemoves, RURenames, RURelists, ruFiles
<1>2. /\ RunShape(ruRun)' /\ ruRun'.at = ruRun.at /\ ruRun'.args = ruRun.args /\ ruRun'.queue = ruRun.queue
      /\ ruRun'.refs = ruRun.refs /\ ruRun'.rows = ruRun.rows
  BY DEF RollupInv, RollupTypes, RunShape, RUAdds, RURemoves, RURenames, RURelists
<1>3. ruBom' \subseteq RUVersions \X RUVersions /\ ruName' \in [RUVersions -> Nat]
  BY RollupAssumed DEF RollupInv, RollupTypes, RUAdds, RURemoves, RURenames, RURelists
<1>4. RollupTypes'
  BY <1>1, <1>2, <1>3 DEF RollupInv, RollupTypes
<1>5. RunTrue(ruCauses', ruRun')
  BY <1>1, <1>2, MoreCauses DEF RollupInv, RunTrue
<1>6. WalkTrue(ruCauses', ruRun')
  BY <1>1, <1>2 DEF RollupInv, WalkTrue, WalkIsFirst
<1>7. WorldTrue'
  <2>1. "rename" \in ruCauses' \/ \A v \in RUVersions : ruName'[v] = 0
    BY DEF RollupInv, WorldTrue, RUAdds, RURemoves, RURenames, RURelists
  <2>2. "edge" \in ruCauses' \/ ruBom' = RUEdges
    BY DEF RollupInv, WorldTrue, RUAdds, RURemoves, RURenames, RURelists
  <2>3. \A r \in ruCsv' : RefTrue(ruCauses' \cup {"csv"}, r)
    <3>1. CASE RURelists
      <4>1. \A r \in RUListed : RefTrue(ruCauses \cup {"csv"}, r)
        BY ListedTrue DEF RollupInv, WorldTrue, RollupTypes
      <4> QED
        BY <4>1, <3>1 DEF RURelists
    <3>2. CASE UNCHANGED ruCsv
      <4>1. \A r : RefTrue(ruCauses \cup {"csv"}, r) => RefTrue(ruCauses' \cup {"csv"}, r)
        BY <1>1, RefStaysTrue
      <4> QED
        BY <4>1, <3>2 DEF RollupInv, WorldTrue
    <3> QED
      BY <3>1, <3>2 DEF RUAdds, RURemoves, RURenames
  <2> QED
    BY <2>1, <2>2, <2>3 DEF WorldTrue
<1> QED
  BY <1>1, <1>4, <1>5, <1>6, <1>7, MoreCauses DEF RollupInv

(* A walk begins at its root.                                              *)
LEMMA RollupBegins ==
    ASSUME RollupInv, RUBegin
    PROVE  RollupInv'
<1>1. PICK a \in RUArgs : \E held, only :
        /\ ruRun' = [NoRollup EXCEPT !.at = IF a.csv THEN "load" ELSE "walk",
                       !.args = a, !.only = only, !.held = held, !.due = ruBom,
                       !.queue = IF a.csv THEN <<>> ELSE << [version |-> a.root, path |-> <<>>] >>]
        /\ ruCauses' = ruCauses \cup
             (IF a.csv THEN {"csv"} ELSE {"walk", IF a.resolve THEN "resolve" ELSE "direct"})
  BY DEF RUBegin
<1>2. PICK held, only :
        /\ ruRun' = [NoRollup EXCEPT !.at = IF a.csv THEN "load" ELSE "walk",
                       !.args = a, !.only = only, !.held = held, !.due = ruBom,
                       !.queue = IF a.csv THEN <<>> ELSE << [version |-> a.root, path |-> <<>>] >>]
        /\ ruCauses' = ruCauses \cup
             (IF a.csv THEN {"csv"} ELSE {"walk", IF a.resolve THEN "resolve" ELSE "direct"})
  BY <1>1
<1>3. a.root \in RUVersions /\ a.csv \in BOOLEAN /\ a.resolve \in BOOLEAN
  BY RollupAssumed
<1> DEFINE first == << [version |-> a.root, path |-> <<>>] >>
<1>4. first \in Seq(QueueEntry) /\ << >> \in Seq(QueueEntry)
  BY <1>3 DEF QueueEntry
<1>5. RunShape(ruRun)' /\ ruRun'.refs = {} /\ ruRun'.rows = {}
  <2> DEFINE at == IF a.csv THEN "load" ELSE "walk"
             queue == IF a.csv THEN <<>> ELSE first
  <2>1. at \in RUStages /\ queue \in Seq(QueueEntry) /\ a \in RUArgs
    BY <1>3, <1>4 DEF RUStages
  <2>2. ruRun' = [NoRollup EXCEPT !.at = at, !.args = a, !.only = only, !.held = held, !.due = ruBom, !.queue = queue]
    BY <1>2
  <2> HIDE DEF at, queue
  <2>3. ruRun' = [at |-> at, args |-> a, only |-> only, held |-> held, queue |-> queue, refs |-> {}, left |-> {},
                  blank |-> {}, rows |-> {}, failures |-> {}, skipped |-> {}, due |-> ruBom]
    BY <2>2 DEF NoRollup
  <2> QED
    BY <2>1, <2>3 DEF RunShape
<1>6. RollupTypes' /\ ruCauses \subseteq ruCauses'
  BY <1>2, <1>5 DEF RollupInv, RollupTypes, RUBegin, ruWorld, ruFiles
<1>7. WalkTrue(ruCauses', ruRun')
  <2>1. CASE a.csv
    <3>1. ruRun'.at = "load" /\ "csv" \in ruCauses'
      BY <1>2, <2>1, NoRollupShape DEF RunShape
    <3> QED
      BY <3>1 DEF WalkTrue
  <2>2. CASE ~a.csv
    <3>1. ruRun'.at = "walk" /\ ruRun'.args = a /\ ruRun'.queue = first
      BY <1>2, <2>2, NoRollupShape DEF RunShape
    <3>2. "walk" \in ruCauses' /\ (IF a.resolve THEN "resolve" ELSE "direct") \in ruCauses'
      BY <1>2, <2>2
    <3>3. QueueOrdered(first)
      BY DEF QueueOrdered
    <3>4. WalkIsFirst(ruRun')
      <4> DEFINE h == [i \in {0} |-> WalkStart(a.root)]
      <4>1. IsWalk(a.root, a.resolve, 0, h)
        BY DEF IsWalk
      <4>2. h[0].refs = {} /\ h[0].queue = first
        BY DEF WalkStart
      <4> QED
        BY <4>1, <4>2, <3>1, <1>5 DEF WalkIsFirst
    <3> HIDE DEF first
    <3> QED
      BY <3>1, <3>2, <3>3, <3>4 DEF WalkTrue
  <2> QED
    BY <2>1, <2>2, <1>3
<1> QED
  BY <1>5, <1>6, <1>7, MoreCauses DEF RollupInv, RunTrue, RUBegin, ruFiles

(* A version that is too deep is passed over, and so are all behind it.    *)
LEMMA RollupTooDeep ==
    ASSUME RollupInv, RUTooDeep
    PROVE  RollupInv'
<1> DEFINE q == ruRun.queue
           p == Tail(q)
<1>1. q \in Seq(QueueEntry) /\ q # <<>> /\ ruRun.at = "walk" /\ Len(q[1].path) >= ruRun.args.depth
  BY DEF RUTooDeep, RollupInv, RollupTypes, RunShape
<1>2. /\ p \in Seq(QueueEntry) /\ Len(p) = Len(q) - 1 /\ Len(q) \in Nat \ {0}
      /\ \A i \in DOMAIN p : i + 1 \in DOMAIN q /\ p[i] = q[i + 1]
  <2> HIDE DEF q
  <2>1. Tail(q) \in Seq(QueueEntry) /\ Len(Tail(q)) = Len(q) - 1 /\ Len(q) \in Nat \ {0}
        /\ \A i \in 1 .. Len(q) - 1 : Tail(q)[i] = q[i + 1]
    BY <1>1, HeadTailProperties
  <2>2. p = Tail(q)
    OBVIOUS
  <2> HIDE DEF p
  <2> QED
    BY <1>1, <2>1, <2>2
<1>3. ruRun' = [ruRun EXCEPT !.queue = p]
  BY DEF RUTooDeep
<1> HIDE DEF p
<1>4. /\ RunShape(ruRun') /\ ruRun'.at = "walk" /\ ruRun'.args = ruRun.args /\ ruRun'.queue = p
      /\ ruRun'.refs = ruRun.refs /\ ruRun'.rows = ruRun.rows
  BY <1>1, <1>2, <1>3 DEF RollupInv, RollupTypes, RunShape
<1>5. RollupTypes'
  BY <1>4 DEF RUTooDeep, RollupInv, RollupTypes, ruWorld, ruFiles
<1>6. \A i \in DOMAIN q : Len(q[i].path) \in Nat
  <2> HIDE DEF q
  <2> QED
    BY <1>1 DEF QueueEntry
<1>7. QueueOrdered(q)
  BY <1>1 DEF RollupInv, WalkTrue
<1> HIDE DEF q
<1>8. QueueOrdered(p)
  <2> SUFFICES ASSUME NEW i \in DOMAIN p, NEW j \in DOMAIN p, i <= j
               PROVE  Len(p[i].path) <= Len(p[j].path) /\ Len(p[j].path) <= Len(p[1].path) + 1
    BY DEF QueueOrdered
  <2>1. i \in Nat /\ j \in Nat /\ 1 \in DOMAIN p /\ 1 <= i + 1 /\ i + 1 <= j + 1 /\ 2 \in DOMAIN q /\ 1 \in DOMAIN q
    BY <1>1, <1>2
  <2>2. p[i] = q[i + 1] /\ p[j] = q[j + 1] /\ p[1] = q[2] /\ i + 1 \in DOMAIN q /\ j + 1 \in DOMAIN q
    BY <1>2, <2>1
  <2>3. Len(q[i + 1].path) <= Len(q[j + 1].path) /\ Len(q[j + 1].path) <= Len(q[1].path) + 1
        /\ Len(q[1].path) <= Len(q[2].path)
    BY <1>7, <2>1, <2>2 DEF QueueOrdered
  <2> QED
    <3>1. Len(q[i + 1].path) \in Nat /\ Len(q[j + 1].path) \in Nat /\ Len(q[1].path) \in Nat /\ Len(q[2].path) \in Nat
      BY <2>1, <2>2, <1>6
    <3>2. Len(q[j + 1].path) <= Len(q[2].path) + 1
      <4>1. \A a, b, c \in Nat : a <= b + 1 /\ b <= c => a <= c + 1
        OBVIOUS
      <4> QED
        BY <2>3, <3>1, <4>1
    <3> QED
      BY <2>2, <2>3, <3>2
<1>9. \A i \in DOMAIN p : Len(p[i].path) >= ruRun.args.depth
  <2> SUFFICES ASSUME NEW i \in DOMAIN p PROVE Len(p[i].path) >= ruRun.args.depth
    OBVIOUS
  <2>1. i + 1 \in DOMAIN q /\ p[i] = q[i + 1] /\ 1 \in DOMAIN q /\ 1 <= i + 1
    BY <1>1, <1>2
  <2>2. Len(q[1].path) <= Len(q[i + 1].path)
    BY <1>7, <2>1 DEF QueueOrdered
  <2>3. ruRun.args.depth \in Nat
    BY RollupAssumed DEF RollupInv, RollupTypes, RunShape
  <2> QED
    BY <2>1, <2>2, <2>3, <1>1, <1>6
<1>10. WalkTrue(ruCauses', ruRun')
  <2>1. "walk" \in ruCauses /\ (IF ruRun.args.resolve THEN "resolve" ELSE "direct") \in ruCauses
    BY <1>1 DEF RollupInv, WalkTrue
  <2>2. ruCauses' = ruCauses
    BY DEF RUTooDeep
  <2>3. ASSUME ruCauses \cap {"rename", "edge", "skip"} = {} PROVE WalkIsFirst(ruRun')
    <3>1. PICK n \in Nat : \E h : IsWalk(ruRun.args.root, ruRun.args.resolve, n, h) /\ ruRun.refs = h[n].refs
      BY <2>3, <1>1 DEF RollupInv, WalkTrue, WalkIsFirst
    <3> QED
      BY <3>1, <1>4, <1>9 DEF WalkIsFirst
  <2> QED
    BY <2>1, <2>2, <2>3, <1>4, <1>8 DEF WalkTrue
<1> QED
  BY <1>4, <1>5, <1>10, MoreCauses DEF RUTooDeep, RollupInv, RunTrue, ruFiles

\* The first version of the queue is read: its children go to the end.
VisitPath(c) == Append(Head(ruRun.queue).path, <<c, ruName[c]>>)
VisitFound(lost) ==
  RUDirect(Head(ruRun.queue).version, ruRun.args.resolve) \ (lost \cup ({ruRun.args.root} \cup {r.child : r \in ruRun.refs}))
VisitNew(lost) ==
  {RURef(ruRun.args.root, ruName[ruRun.args.root], FALSE, c, VisitPath(c)) : c \in VisitFound(lost)}
VisitMore(seq) == [i \in DOMAIN seq |-> [version |-> seq[i], path |-> VisitPath(seq[i])]]
VisitSkips(lost) == {<<Head(ruRun.queue).version, c>> : c \in lost}

\* The order of the queue stays that of the depths.
Visited(lost, seq) ==
  LET q == ruRun.queue
      p == Tail(q) \o VisitMore(seq)
      L == Len(q[1].path)
  IN  /\ seq \in [1 .. Cardinality(VisitFound(lost)) -> VisitFound(lost)]
      /\ q # <<>> /\ ruRun.at = "walk" /\ L \in Nat /\ L < ruRun.args.depth
      /\ RunShape(ruRun') /\ ruRun'.at = "walk" /\ ruRun'.queue = p /\ ruRun'.refs = ruRun.refs \cup VisitNew(lost)
      /\ ruRun'.skipped = ruRun.skipped \cup VisitSkips(lost)
      /\ ruRun'.args = ruRun.args /\ ruRun'.rows = ruRun.rows /\ ruRun'.due = ruRun.due
      /\ DOMAIN q = 1 .. Len(q) /\ DOMAIN p = 1 .. Len(p) /\ Len(p) = Len(q) - 1 + Len(VisitMore(seq))
      /\ \A i \in DOMAIN p : IF i < Len(q) THEN i + 1 \in DOMAIN q /\ p[i] = q[i + 1]
                             ELSE i - Len(q) + 1 \in DOMAIN VisitMore(seq) /\ p[i] = VisitMore(seq)[i - Len(q) + 1]
      /\ \A i \in DOMAIN q : Len(q[i].path) \in Nat /\ L <= Len(q[i].path) /\ Len(q[i].path) <= L + 1
      /\ DOMAIN VisitMore(seq) = 1 .. Len(VisitMore(seq)) /\ Len(VisitMore(seq)) = Cardinality(VisitFound(lost))
      /\ \A i \in DOMAIN VisitMore(seq) : Len(VisitMore(seq)[i].path) = L + 1
      /\ \A c \in RUVersions : VisitPath(c) \in Seq(RUVersions \X Nat) /\ Len(VisitPath(c)) = L + 1
      /\ QueueOrdered(p)

LEMMA VisitShape ==
    ASSUME RollupInv, NEW lost \in SUBSET RUVersions, RUVisits(lost)
    PROVE  \E seq \in RUInOrder(VisitFound(lost)) : Visited(lost, seq)
<1> DEFINE q == ruRun.queue
           node == Head(q)
           root == ruRun.args.root
           resolve == ruRun.args.resolve
           known == {root} \cup {r.child : r \in ruRun.refs}
           found == RUDirect(node.version, resolve) \ (lost \cup known)
           path(c) == Append(node.path, <<c, ruName[c]>>)
           new == {RURef(root, ruName[root], FALSE, c, path(c)) : c \in found}
<1>1. PICK seq \in RUInOrder(found) :
        ruRun' = [ruRun EXCEPT
          !.queue = Tail(@) \o [i \in DOMAIN seq |-> [version |-> seq[i], path |-> path(seq[i])]],
          !.refs = @ \cup new,
          !.skipped = @ \cup {<<node.version, c>> : c \in lost}]
  BY DEF RUVisits
<1>2. /\ q \in Seq(QueueEntry) /\ q # <<>> /\ ruRun.at = "walk" /\ Len(node.path) < ruRun.args.depth
      /\ QueueOrdered(q)
  BY DEF RUVisits, RollupInv, RollupTypes, RunShape, WalkTrue
<1>3. found \subseteq RUVersions /\ IsFiniteSet(found) /\ Cardinality(found) \in Nat
  <2>1. found \subseteq RUVersions
    BY DEF RUDirect
  <2> HIDE DEF found
  <2> QED
    BY <2>1, RollupAssumed, FS_Subset, FS_CardinalityType
<1> DEFINE more == [i \in DOMAIN seq |-> [version |-> seq[i], path |-> path(seq[i])]]
           skips == {<<node.version, c>> : c \in lost}
<1>4. node = q[1] /\ node \in QueueEntry /\ Len(node.path) \in Nat /\ 1 \in DOMAIN q
  <2>1. Head(q) \in QueueEntry /\ Head(q) = q[1] /\ 1 \in DOMAIN q
    <3> HIDE DEF q
    <3> QED
      BY <1>2
  <2>2. node.path \in Seq(RUVersions \X Nat)
    BY <2>1 DEF QueueEntry
  <2> HIDE DEF q
  <2> QED
    BY <2>1, <2>2
<1>5. seq \in [1 .. Cardinality(found) -> found]
  BY DEF RUInOrder
<1>6. \A c \in RUVersions : path(c) \in Seq(RUVersions \X Nat) /\ Len(path(c)) = Len(node.path) + 1
  <2> SUFFICES ASSUME NEW c \in RUVersions
               PROVE  path(c) \in Seq(RUVersions \X Nat) /\ Len(path(c)) = Len(node.path) + 1
    OBVIOUS
  <2>1. node.path \in Seq(RUVersions \X Nat)
    BY <1>4 DEF QueueEntry
  <2>2. <<c, ruName[c]>> \in RUVersions \X Nat
    BY DEF RollupInv, RollupTypes
  <2> HIDE DEF node
  <2> QED
    BY <2>1, <2>2
<1>7. more \in Seq(QueueEntry) /\ \A i \in DOMAIN more : Len(more[i].path) = Len(node.path) + 1
  <2>1. \A i \in 1 .. Cardinality(found) : seq[i] \in RUVersions
    BY <1>3, <1>5
  <2>2. DOMAIN more = 1 .. Cardinality(found)
    BY <1>5
  <2>3. \A i \in 1 .. Cardinality(found) : more[i] = [version |-> seq[i], path |-> path(seq[i])]
    BY <1>5
  <2> HIDE DEF more, found, path, node
  <2>4. \A i \in 1 .. Cardinality(found) : more[i] \in QueueEntry /\ Len(more[i].path) = Len(node.path) + 1
    <3> SUFFICES ASSUME NEW i \in 1 .. Cardinality(found)
                 PROVE  more[i] \in QueueEntry /\ Len(more[i].path) = Len(node.path) + 1
      OBVIOUS
    <3>1. path(seq[i]) \in Seq(RUVersions \X Nat) /\ Len(path(seq[i])) = Len(node.path) + 1 /\ seq[i] \in RUVersions
      BY <2>1, <1>6
    <3> DEFINE v == seq[i]
               w == path(v)
    <3>2. more[i] = [version |-> v, path |-> w]
      BY <2>3
    <3>3. v \in RUVersions /\ w \in Seq(RUVersions \X Nat) /\ Len(w) = Len(node.path) + 1
      BY <3>1
    <3> HIDE DEF v, w
    <3> QED
      BY <3>2, <3>3 DEF QueueEntry
  <2>5. more = [i \in 1 .. Cardinality(found) |-> more[i]]
    BY <2>2 DEF more
  <2> QED
    BY <2>2, <2>4, <2>5, <1>3
<1> DEFINE p == Tail(q) \o more
<1>8. /\ p \in Seq(QueueEntry) /\ Len(p) = Len(q) - 1 + Len(more)
      /\ \A i \in DOMAIN p : IF i < Len(q) THEN i + 1 \in DOMAIN q /\ p[i] = q[i + 1]
                             ELSE i - Len(q) + 1 \in DOMAIN more /\ p[i] = more[i - Len(q) + 1]
  <2> HIDE DEF q, more
  <2>1. Tail(q) \in Seq(QueueEntry) /\ Len(Tail(q)) = Len(q) - 1 /\ Len(q) \in Nat \ {0}
        /\ \A i \in 1 .. Len(q) - 1 : Tail(q)[i] = q[i + 1]
    BY <1>2, HeadTailProperties
  <2> QED
    BY <2>1, <1>7, ConcatProperties
<1>9. ruRun' = [ruRun EXCEPT !.queue = p, !.refs = ruRun.refs \cup new, !.skipped = ruRun.skipped \cup skips]
  BY <1>1
<1> HIDE DEF p, new, skips
<1>10. /\ RunShape(ruRun') /\ ruRun'.at = "walk" /\ ruRun'.args = ruRun.args /\ ruRun'.queue = p
       /\ ruRun'.refs = ruRun.refs \cup new /\ ruRun'.rows = ruRun.rows
       /\ ruRun'.skipped = ruRun.skipped \cup skips /\ ruRun'.due = ruRun.due
  BY <1>2, <1>8, <1>9 DEF RollupInv, RollupTypes, RunShape
<1>12. \A i \in DOMAIN q : Len(q[i].path) \in Nat /\ Len(q[1].path) <= Len(q[i].path) /\ Len(q[i].path) <= Len(q[1].path) + 1
  <2>1. \A i \in DOMAIN q : q[i] \in QueueEntry
    BY <1>2
  <2>2. \A i \in DOMAIN q : 1 <= i
    BY <1>2
  <2> HIDE DEF q
  <2> QED
    BY <1>2, <1>4, <2>1, <2>2 DEF QueueOrdered, QueueEntry
<1>13. QueueOrdered(p)
  <2> HIDE DEF q, more, node
  <2>1. \A i \in DOMAIN p : /\ Len(p[i].path) \in Nat /\ Len(q[1].path) <= Len(p[i].path)
                            /\ Len(p[i].path) <= Len(q[1].path) + 1
                            /\ i >= Len(q) => Len(p[i].path) = Len(q[1].path) + 1
    BY <1>8, <1>12, <1>7, <1>4
  <2> SUFFICES ASSUME NEW i \in DOMAIN p, NEW j \in DOMAIN p, i <= j
               PROVE  Len(p[i].path) <= Len(p[j].path) /\ Len(p[j].path) <= Len(p[1].path) + 1
    BY DEF QueueOrdered
  <2>2. 1 \in DOMAIN p /\ i \in Nat /\ j \in Nat /\ Len(q) \in Nat
    BY <1>8, <1>2
  <2>3. Len(p[j].path) <= Len(p[1].path) + 1
    BY <2>1, <2>2, <1>12, <1>4
  <2>4. CASE j >= Len(q)
    BY <2>1, <2>3, <2>4, <1>12, <1>4
  <2>5. CASE j < Len(q)
    <3>1. i + 1 \in DOMAIN q /\ j + 1 \in DOMAIN q /\ i + 1 <= j + 1 /\ p[i] = q[i + 1] /\ p[j] = q[j + 1]
      BY <2>2, <2>5, <1>8
    <3>2. Len(q[i + 1].path) <= Len(q[j + 1].path)
      BY <3>1, <1>2 DEF QueueOrdered
    <3> QED
      BY <3>1, <3>2, <2>3
  <2> QED
    BY <2>2, <2>4, <2>5
<1>14. VisitFound(lost) = found /\ VisitNew(lost) = new /\ VisitMore(seq) = more /\ VisitSkips(lost) = skips
       /\ \A c : VisitPath(c) = path(c)
  BY DEF new, skips, VisitFound, VisitNew, VisitMore, VisitSkips, VisitPath
<1>15. DOMAIN q = 1 .. Len(q) /\ DOMAIN p = 1 .. Len(p) /\ DOMAIN more = 1 .. Len(more) /\ Len(more) = Cardinality(found)
  <2>1. DOMAIN more = 1 .. Cardinality(found)
    BY <1>5
  <2> HIDE DEF q, more, found
  <2> QED
    BY <2>1, <1>2, <1>3, <1>7, <1>8
<1>16. Tail(ruRun.queue) \o VisitMore(seq) = p
  BY <1>14 DEF p
<1>17. Visited(lost, seq)
  <2> HIDE DEF found, more, path, node
  <2> QED
    BY <1>2, <1>4, <1>5, <1>6, <1>7, <1>8, <1>10, <1>12, <1>13, <1>14, <1>15, <1>16 DEF Visited
<1> QED
  BY <1>14, <1>17

LEMMA RollupVisits ==
    ASSUME RollupInv, NEW lost \in SUBSET RUVersions, RUVisits(lost)
    PROVE  RollupInv'
<1> DEFINE q == ruRun.queue
           node == Head(q)
           root == ruRun.args.root
           resolve == ruRun.args.resolve
           found == VisitFound(lost)
           path(c) == VisitPath(c)
           new == VisitNew(lost)
<1>1. PICK seq \in RUInOrder(found) : Visited(lost, seq)
  BY VisitShape
<1> DEFINE more == VisitMore(seq)
           p == Tail(q) \o more
<1>2. q # <<>> /\ ruRun.at = "walk" /\ Len(node.path) < ruRun.args.depth
  BY DEF RUVisits
<1>3. found \subseteq RUVersions
  BY DEF VisitFound, RUDirect
<1>4. node = q[1] /\ node \in QueueEntry /\ Len(node.path) \in Nat /\ 1 \in DOMAIN q
  <2>1. q \in Seq(QueueEntry)
    BY DEF RollupInv, RollupTypes, RunShape
  <2> HIDE DEF q
  <2>2. Head(q) \in QueueEntry /\ Head(q) = q[1] /\ 1 \in DOMAIN q
    BY <1>2, <2>1
  <2>3. node.path \in Seq(RUVersions \X Nat)
    BY <2>2 DEF QueueEntry
  <2> HIDE DEF node
  <2> QED
    BY <2>2, <2>3 DEF node
<1>5. seq \in [1 .. Cardinality(found) -> found]
  BY <1>1 DEF Visited
<1> HIDE DEF p, new
<1>10. /\ RunShape(ruRun') /\ ruRun'.at = "walk" /\ ruRun'.args = ruRun.args /\ ruRun'.queue = p
       /\ ruRun'.refs = ruRun.refs \cup new /\ ruRun'.rows = ruRun.rows
  BY <1>1 DEF Visited, p, new
<1>11. RollupTypes'
  <2>1. ruBom' = ruBom /\ ruName' = ruName /\ ruFile' = ruFile
    BY DEF RUVisits, ruWorld, ruFiles
  <2> QED
    BY <2>1, <1>10 DEF RollupInv, RollupTypes
<1>13. QueueOrdered(p)
  BY <1>1 DEF Visited, p
<1>14. ruCauses \subseteq ruCauses' /\ (lost # {} => "skip" \in ruCauses')
       /\ "walk" \in ruCauses /\ (IF resolve THEN "resolve" ELSE "direct") \in ruCauses
  BY <1>2 DEF RUVisits, RollupInv, WalkTrue
<1>15. ASSUME ruCauses' \cap {"rename", "edge", "skip"} = {}
       PROVE  \E n \in Nat : \E h : /\ IsWalk(root, resolve, n, h)
                                   /\ ruRun.refs \cup new = h[n].refs /\ p = h[n].queue
  <2>1. lost = {} /\ ruBom = RUEdges /\ \A v \in RUVersions : ruName[v] = 0
    BY <1>14, <1>15 DEF RollupInv, WorldTrue
  <2>2. PICK n \in Nat : \E h : /\ IsWalk(root, resolve, n, h) /\ (ruRun.refs = h[n].refs)
                               /\ (q = h[n].queue \/ \A i \in DOMAIN q : Len(q[i].path) >= ruRun.args.depth)
    BY <1>2, <1>14, <1>15 DEF RollupInv, WalkTrue, WalkIsFirst
  <2>3. PICK h : /\ IsWalk(root, resolve, n, h) /\ ruRun.refs = h[n].refs
                 /\ (q = h[n].queue \/ \A i \in DOMAIN q : Len(q[i].path) >= ruRun.args.depth)
    BY <2>2
  <2>4. ruRun.args.depth \in Nat
    BY RollupAssumed DEF RollupInv, RollupTypes, RunShape
  <2>5. q = h[n].queue
    BY <2>3, <2>4, <1>2, <1>4
  <2> DEFINE x == h[n]
             y == [queue |-> p, refs |-> ruRun.refs \cup new]
  <2>6. found = WalkFound(root, resolve, x)
    BY <2>1, <2>3, <2>5 DEF WalkFound, WalkShows, RUDirect, VisitFound
  <2>7. \A c \in found : path(c) = WalkPath(x, c)
    BY <2>1, <2>5, <1>3 DEF WalkPath, VisitPath
  <2>8. root \in RUVersions
    BY RollupAssumed DEF RollupInv, RollupTypes, RunShape
  <2>9. new = {RURef(root, 0, FALSE, c, WalkPath(x, c)) : c \in WalkFound(root, resolve, x)}
    <3>1. new = {RURef(root, 0, FALSE, c, path(c)) : c \in found}
      BY <2>1, <2>8 DEF new, VisitNew
    <3> HIDE DEF found, path
    <3> QED
      BY <3>1, <2>6, <2>7
  <2>10. more = [i \in DOMAIN seq |-> [version |-> seq[i], path |-> WalkPath(x, seq[i])]]
    <3>1. \A i \in DOMAIN seq : seq[i] \in found
      BY <1>5
    <3>2. more = [i \in DOMAIN seq |-> [version |-> seq[i], path |-> path(seq[i])]]
      BY DEF VisitMore
    <3> HIDE DEF found, path, more
    <3> QED
      BY <3>1, <3>2, <2>7
  <2>11. y = WalkAfter(root, resolve, x, seq)
    <3> HIDE DEF more
    <3> QED
      BY <2>3, <2>5, <2>9, <2>10 DEF WalkAfter, p
  <2>12. WalkStep(root, resolve, x, y)
    <3> HIDE DEF y, x, found
    <3> QED
      BY <2>11, <2>6 DEF WalkStep
  <2> DEFINE g == [i \in 0 .. n + 1 |-> IF i = n + 1 THEN y ELSE h[i]]
  <2> HIDE DEF y
  <2>13. IsWalk(root, resolve, n + 1, g)
    <3>1. \A i \in 0 .. n : g[i] = h[i]
      OBVIOUS
    <3>2. g[n + 1] = y
      OBVIOUS
    <3> HIDE DEF g
    <3>3. g[0] = WalkStart(root)
      BY <2>3, <3>1 DEF IsWalk
    <3>4. ASSUME NEW i \in 0 .. (n + 1) - 1 PROVE WalkStep(root, resolve, g[i], g[i + 1])
      <4>1. CASE i = n
        BY <4>1, <3>1, <3>2, <2>12
      <4>2. CASE i \in 0 .. n - 1
        BY <4>2, <3>1, <2>3 DEF IsWalk
      <4> QED
        BY <4>1, <4>2
    <3> QED
      BY <3>3, <3>4 DEF IsWalk
  <2>14. g[n + 1].refs = ruRun.refs \cup new /\ g[n + 1].queue = p
    BY DEF y
  <2> HIDE DEF g
  <2> QED
    BY <2>13, <2>14
<1>16. \A r \in new : RefTrue(ruCauses', r)
  <2> SUFFICES ASSUME NEW r \in new, "rename" \notin ruCauses' PROVE RefTrue(ruCauses', r)
    BY DEF RefTrue
  <2>1. PICK c \in found : r = RURef(root, ruName[root], FALSE, c, path(c))
    BY DEF new, VisitNew
  <2>2. \A v \in RUVersions : ruName[v] = 0
    BY <1>14 DEF RollupInv, WorldTrue
  <2>3. r.pname = 0 /\ r.linked = FALSE /\ r.parent = root /\ r.cname = path(c)[Len(path(c))][2]
    BY <2>1, <2>2, RollupAssumed DEF RURef, RollupInv, RollupTypes, RunShape
  <2>4. r.cname = 0
    <3>1. path(c)[Len(path(c))] = <<c, ruName[c]>>
      <4>1. node.path \in Seq(RUVersions \X Nat) /\ <<c, ruName[c]>> \in RUVersions \X Nat
        BY <1>3, <1>4 DEF QueueEntry, RollupInv, RollupTypes
      <4>2. path(c) = Append(node.path, <<c, ruName[c]>>)
        BY DEF VisitPath
      <4> HIDE DEF node, path
      <4> QED
        BY <4>1, <4>2
    <3>2. c \in RUVersions /\ ruName[c] = 0
      BY <1>3, <2>2
    <3> HIDE DEF path
    <3> QED
      BY <3>1, <3>2, <2>3
  <2>5. CASE ruCauses' \cap {"edge", "skip"} # {}
    BY <2>3, <2>4, <2>5, <1>14 DEF RefTrue
  <2>6. CASE ruCauses' \cap {"edge", "skip"} = {}
    <3>1. ruCauses' \cap {"rename", "edge", "skip"} = {}
      BY <2>6
    <3>2. WalkFinds(root, resolve, r)
      BY <3>1, <1>15 DEF WalkFinds
    <3>3. resolve \in BOOLEAN
      BY RollupAssumed DEF RollupInv, RollupTypes, RunShape
    <3> QED
      BY <3>2, <3>3, <2>3, <2>4, <1>14 DEF RefTrue
  <2> QED
    BY <2>5, <2>6
<1>17. WalkTrue(ruCauses', ruRun')
  <2>1. ruCauses' \cap {"rename", "edge", "skip"} = {} => WalkIsFirst(ruRun')
    BY <1>10, <1>15 DEF WalkIsFirst
  <2> QED
    BY <2>1, <1>10, <1>13, <1>14 DEF WalkTrue
<1>18. RunTrue(ruCauses', ruRun')
  BY <1>10, <1>14, <1>16, MoreCauses DEF RollupInv, RunTrue
<1> QED
  BY <1>11, <1>14, <1>17, <1>18, MoreCauses DEF RUVisits, RollupInv, ruFiles

(* Everything behind the walk: relationships are dropped, rows are made of *)
(* them, and the plan is made of the rows.                                 *)
LEMMA RowsTrue ==
    ASSUME NEW causes, NEW findings, NEW unnamed, NEW c, unnamed # {} => "nameless" \in causes,
           \A r \in ruRun.refs : RefTrue(causes, r)
    PROVE  \A row \in RURows(c, findings, unnamed) : RowTrue(causes, row)
<1> SUFFICES ASSUME NEW r \in ruRun.refs, NEW f \in findings
             PROVE  RowTrue(causes, [ref |-> r, component |-> f.component,
                                     version |-> RUVersionIdentity(f.component, unnamed),
                                     vulnerability |-> f.vulnerability])
  BY DEF RURows, RUContexts
<1>1. RefTrue(causes, r)
  OBVIOUS
<1>2. \/ RUVersionIdentity(f.component, unnamed) = "name"
      \/ RUVersionIdentity(f.component, unnamed) = "link" /\ "nameless" \in causes
  BY DEF RUVersionIdentity
<1> QED
  BY <1>1, <1>2 DEF RowTrue

LEMMA UniqueRows ==
    ASSUME NEW rows
    PROVE  RUUnique(rows) \subseteq rows
<1> SUFFICES ASSUME NEW x \in rows PROVE (CHOOSE row \in rows : RURollupKey(row) = RURollupKey(x)) \in rows
  BY DEF RUUnique
<1> QED
  OBVIOUS

RollupWorks ==
  \/ RUWalked \/ RUWritesFindings \/ RUWritesFailures \/ RUDies \/ RUPlan
  \/ \E lost \in SUBSET RUVersions : RULoads(lost)
  \/ \E c \in RUVersions, blank \in BOOLEAN : RUTargetFails(c, blank)
  \/ \E c \in RUVersions : \E lost, unnamed \in SUBSET {f.component : f \in RUFindings[c]} :
       RUCollects(c, lost, unnamed)

\* The state of a run after a step other than those of the walk.
RollupGoesOn ==
  /\ RunShape(ruRun') /\ ruRun'.at \notin {"walk", "load"}
  /\ ruCauses \subseteq ruCauses' /\ RunTrue(ruCauses', ruRun')
  /\ UNCHANGED ruWorld

LEMMA RollupWorking ==
    ASSUME RollupInv, RollupWorks
    PROVE  RollupGoesOn
<1>1. RunShape(ruRun) /\ RunTrue(ruCauses, ruRun)
  BY DEF RollupInv, RollupTypes
<1> DEFINE Rest(run) == /\ RunShape(run) /\ run.at \notin {"walk", "load"}
                        /\ run.refs \subseteq ruRun.refs
<1>2. CASE RUWalked
  <2>1. Rest(ruRun') /\ ruRun'.rows = ruRun.rows
    <3>1. << >> \in Seq(QueueEntry)
      OBVIOUS
    <3> QED
      BY <1>1, <1>2, <3>1 DEF RUWalked, RUCollecting, RUTargeted, RunShape, RUStages
  <2> QED
    BY <1>1, <1>2, <2>1, MoreCauses DEF RUWalked, RollupGoesOn, RunTrue, ruWorld
<1>3. CASE RUWritesFindings \/ RUWritesFailures
  <2>1. Rest(ruRun') /\ ruRun'.rows = ruRun.rows
    BY <1>1, <1>3 DEF RUWritesFindings, RUWritesFailures, RunShape, RUStages
  <2> QED
    BY <1>1, <1>3, <2>1 DEF RUWritesFindings, RUWritesFailures, RollupGoesOn, RunTrue, ruWorld
<1>4. CASE RUDies \/ RUPlan
  <2>1. ruRun' = NoRollup
    BY <1>4 DEF RUDies, RUPlan
  <2> QED
    BY <1>4, <2>1, NoRollupShape DEF RUDies, RUPlan, RollupGoesOn, RunTrue, ruWorld
<1>5. ASSUME NEW lost \in SUBSET RUVersions, RULoads(lost) PROVE RollupGoesOn
  <2> DEFINE unread == {r \in RUStubs : r.child \in lost}
             refs == RUTargeted(RUStubs \ unread)
             left == {r.child : r \in refs}
             failures == {<<r.parent, r.child>> : r \in unread}
  <2>1. ruRun' = [ruRun EXCEPT !.at = "collect", !.refs = refs, !.left = left, !.failures = failures]
    BY <1>5 DEF RULoads
  <2>2. refs \subseteq ruCsv
    BY DEF RUTargeted, RUStubs
  <2> HIDE DEF unread, refs, left, failures
  <2>3. RunShape(ruRun') /\ ruRun'.at = "collect" /\ ruRun'.refs = refs /\ ruRun'.rows = ruRun.rows
    BY <1>1, <2>1 DEF RunShape, RUStages
  <2>4. ruCauses \cup {"csv"} = ruCauses /\ ruCauses' = ruCauses /\ UNCHANGED ruWorld
    BY <1>5 DEF RULoads, RollupInv, WalkTrue, ruWorld
  <2> QED
    BY <1>1, <2>2, <2>3, <2>4 DEF RollupInv, WorldTrue, RunTrue, RollupGoesOn
<1>6. ASSUME NEW c \in RUVersions, NEW blank \in BOOLEAN, RUTargetFails(c, blank) PROVE RollupGoesOn
  <2> DEFINE failures == ruRun.failures \cup RUFailed(c)
             blanks == IF blank THEN ruRun.blank \cup {RUProjectOf[c]} ELSE ruRun.blank
             left == ruRun.left \ {c}
  <2>1. ruRun' = [ruRun EXCEPT !.left = left, !.failures = failures, !.blank = blanks] /\ ruRun.at = "collect"
    BY <1>6 DEF RUTargetFails
  <2> HIDE DEF failures, blanks, left
  <2>2. Rest(ruRun') /\ ruRun'.rows = ruRun.rows
    BY <1>1, <2>1 DEF RunShape
  <2> QED
    BY <1>1, <1>6, <2>2 DEF RUTargetFails, RollupGoesOn, RunTrue, ruWorld
<1>7. ASSUME NEW c \in RUVersions, NEW lost \in SUBSET {f.component : f \in RUFindings[c]},
             NEW unnamed \in SUBSET {f.component : f \in RUFindings[c]}, RUCollects(c, lost, unnamed)
      PROVE  RollupGoesOn
  <2> DEFINE failures == IF lost = {} THEN ruRun.failures ELSE ruRun.failures \cup RUFailed(c)
             left == ruRun.left \ {c}
             rows == RURows(c, RURead(c, lost), unnamed)
  <2>1. ruRun' = [ruRun EXCEPT !.left = left, !.rows = ruRun.rows \cup rows, !.failures = failures] /\ ruRun.at = "collect"
    BY <1>7 DEF RUCollects
  <2>2. ruCauses \subseteq ruCauses' /\ (unnamed # {} => "nameless" \in ruCauses') /\ UNCHANGED ruWorld
    BY <1>7 DEF RUCollects, ruWorld
  <2>3. \A r \in ruRun.refs : RefTrue(ruCauses', r)
    BY <1>1, <2>2, MoreCauses DEF RunTrue
  <2>4. \A row \in rows : RowTrue(ruCauses', row)
    BY <2>2, <2>3, RowsTrue
  <2> HIDE DEF failures, left, rows
  <2>5. RunShape(ruRun') /\ ruRun'.at = "collect" /\ ruRun'.refs = ruRun.refs /\ ruRun'.rows = ruRun.rows \cup rows
    BY <1>1, <2>1 DEF RunShape
  <2> QED
    BY <1>1, <2>2, <2>3, <2>4, <2>5, MoreCauses DEF RollupGoesOn, RunTrue
<1> QED
  BY <1>2, <1>3, <1>4, <1>5, <1>6, <1>7 DEF RollupWorks

LEMMA RollupWorkStep ==
    ASSUME RollupInv, RollupWorks
    PROVE  RollupInv'
<1>1. RollupGoesOn
  BY RollupWorking
<1>2. PlansTrue' /\ ruFile' \in [main : {ruFile'.main}, retry : {ruFile'.retry}]
  <2>1. CASE UNCHANGED <<ruFile, ruPlanned>>
    BY <1>1, <2>1, MoreCauses DEF RollupGoesOn, RollupInv, RollupTypes
  <2>2. CASE RUWritesFindings
    <3> DEFINE rows == RUUnique(ruRun.rows)
    <3>1. ruFile' = [ruFile EXCEPT ![RUFileOf(ruRun)] = rows] /\ ruPlanned' = ruPlanned /\ ruCauses' = ruCauses
      BY <2>2 DEF RUWritesFindings
    <3>2. \A row \in rows : RowTrue(ruCauses, row)
      BY UniqueRows DEF RollupInv, RunTrue
    <3> HIDE DEF rows
    <3>3. RUFileOf(ruRun) \in {"main", "retry"}
      BY DEF RUFileOf
    <3>4. /\ ruFile' \in [main : {ruFile'.main}, retry : {ruFile'.retry}]
          /\ ruFile'.main \in {ruFile.main, rows} /\ ruFile'.retry \in {ruFile.retry, rows}
      BY <3>1, <3>3 DEF RollupInv, RollupTypes
    <3> QED
      BY <3>1, <3>2, <3>4 DEF RollupInv, PlansTrue
  <2>3. CASE RUPlan
    <3> DEFINE rows == RUUnique(ruFile[RUFileOf(ruRun)])
    <3>1. /\ ruPlanned' \subseteq ruPlanned \cup RULineageNodes(rows) \cup RUVulnerabilityNodes(rows) \cup RUTaskNodes(rows)
          /\ ruFile' = ruFile /\ ruCauses' = ruCauses
      BY <2>3 DEF RUPlan, ruFiles
    <3>2. \A row \in rows : RowTrue(ruCauses, row)
      <4>1. RUFileOf(ruRun) \in {"main", "retry"}
        BY DEF RUFileOf
      <4>2. ruFile[RUFileOf(ruRun)] \in {ruFile.main, ruFile.retry}
        BY <4>1 DEF RollupInv, RollupTypes
      <4> QED
        BY <4>2, UniqueRows DEF RollupInv, PlansTrue
    <3>3. \A n \in RULineageNodes(rows) \cup RUVulnerabilityNodes(rows) \cup RUTaskNodes(rows) :
            \E row \in rows : n \in NodesOfRow(row)
      <4> HIDE DEF rows
      <4> QED
        BY DEF RULineageNodes, RUVulnerabilityNodes, RUTaskNodes, NodesOfRow
    <3> HIDE DEF rows
    <3>4. \A n \in ruPlanned' : NodeTrue(ruCauses', n)
      BY <3>1, <3>2, <3>3 DEF NodeTrue, RollupInv, PlansTrue
    <3> QED
      BY <3>1, <3>4 DEF RollupInv, RollupTypes, PlansTrue
  <2> QED
    BY <2>1, <2>2, <2>3 DEF RollupWorks, RUWalked, RUWritesFailures, RUDies, RULoads, RUTargetFails, RUCollects, ruFiles
<1>3. RollupTypes'
  BY <1>1, <1>2 DEF RollupGoesOn, RollupInv, RollupTypes, ruWorld
<1>4. WorldTrue'
  BY <1>1, MoreCauses DEF RollupGoesOn
<1> QED
  BY <1>1, <1>2, <1>3, <1>4 DEF RollupGoesOn, RollupInv, WalkTrue

LEMMA RollupInvStep == RollupInv /\ [RollupNext]_ruVars => RollupInv'
<1> SUFFICES ASSUME RollupInv, [RollupNext]_ruVars PROVE RollupInv'
  OBVIOUS
<1>1. CASE UNCHANGED ruVars
  BY <1>1 DEF ruVars, ruWorld, ruFiles, RollupInv, RollupTypes, WorldTrue, WalkTrue, WalkIsFirst, RunTrue, PlansTrue
<1>2. CASE RollupNext
  BY <1>2, RollupWorldStep, RollupBegins, RollupTooDeep, RollupVisits, RollupWorkStep DEF RollupNext, RollupWorks
<1> QED
  BY <1>1, <1>2

(* No plan has a second node for what an earlier one had, but for the      *)
(* reasons the property names: two walks of one tree find every child on   *)
(* the same path, however deep each of them goes.  (walk_subprojects,      *)
(* normalize_finding, parent_group_key, story_group_key.)                  *)
THEOREM RollupPlansOnce == RollupSpec => []RollupNeverTwice
<1>1. RollupSpec => []RollupInv
  BY RollupInitInv, RollupInvStep, PTL DEF RollupSpec
<1> QED
  BY <1>1, PlansSuffice, PTL

-----------------------------------------------------------------------------
(* Nothing a roll-up is due to have is missing.                            *)

LinksOf(run) == {e \in run.due \ run.skipped : run.args.resolve \/ e \notin RUNamed}
DueOf(run, stubs) ==
  IF run.args.csv THEN {<<r.parent, r.child>> : r \in stubs}
  ELSE {run.args.root} \X RUWithin(LinksOf(run), run.args.root, run.args.depth)

\* The versions a walk knows, with the depths at which it found them.
Levels(run) == {<<run.args.root, 0>>} \cup {<<r.child, Len(r.path)>> : r \in run.refs}
Reached(run, v, n) == \E x \in Levels(run) : x[1] = v /\ x[2] <= n

\* Every version the walk knows is still to be read, too deep, or its links
\* were followed; and no version is known deeper than the next can lead.
WalkCovers(run) ==
  /\ ~run.args.csv
  /\ \A r \in run.refs : r.parent = run.args.root /\ Len(r.path) \in Nat
  /\ run.queue # <<>> => \A r \in run.refs : Len(r.path) <= Len(run.queue[1].path) + 1
  /\ \A x \in Levels(run) :
       \/ \E i \in DOMAIN run.queue : run.queue[i].version = x[1] /\ Len(run.queue[i].path) = x[2]
       \/ x[2] >= run.args.depth
       \/ \A e \in LinksOf(run) : e[1] = x[1] => Reached(run, e[2], x[2] + 1)

RollupTargets(run, c) == run.only = {} \/ c \in run.only

\* What is due is a failure or has its relationship, and each of these is
\* still to be collected, a failure, or has its rows.
RefsCover(run, due) ==
  /\ \A e \in due : RollupTargets(run, e[2]) =>
       e \in run.failures \/ \E r \in run.refs : <<r.parent, r.child>> = e
  /\ \A r \in run.refs :
       \/ r.child \in run.left \/ <<r.parent, r.child>> \in run.failures
       \/ \A f \in RUFindings[r.child] : \E row \in run.rows :
            row.ref = r /\ row.component = f.component /\ row.vulnerability = f.vulnerability

RollupCovers ==
  /\ ruRun.due \subseteq ruBom
  /\ ruRun.at = "walk" => WalkCovers(ruRun)
  /\ ruRun.at = "load" => ruRun.args.csv
  /\ ruRun.at \in {"collect", "failures", "plan"} => RefsCover(ruRun, DueOf(ruRun, RUStubs))
  /\ ruRun.at \in {"failures", "plan"} =>
       ruRun.left = {} /\ ruFile[RUFileOf(ruRun)] = RUUnique(ruRun.rows)
LEMMA WithinGrows ==
    ASSUME NEW links, NEW more, links \subseteq more, NEW root, NEW n
    PROVE  RUWithin(links, root, n) \subseteq RUWithin(more, root, n)
<1> SUFFICES ASSUME NEW v \in RUWithin(links, root, n) PROVE v \in RUWithin(more, root, n)
  OBVIOUS
<1>1. v \in RUVersions \ {root}
  BY DEF RUWithin
<1>2. PICK k \in 1 .. n : \E chain \in [0 .. k -> RUVersions] :
        chain[0] = root /\ chain[k] = v /\ \A i \in 1 .. k : <<chain[i - 1], chain[i]>> \in links
  BY DEF RUWithin
<1>3. PICK chain \in [0 .. k -> RUVersions] :
        chain[0] = root /\ chain[k] = v /\ \A i \in 1 .. k : <<chain[i - 1], chain[i]>> \in links
  BY <1>2
<1>4. \A i \in 1 .. k : <<chain[i - 1], chain[i]>> \in more
  BY <1>3
<1> QED
  BY <1>1, <1>3, <1>4 DEF RUWithin

(* Less is due when links go.                                              *)
LEMMA LessDue ==
    ASSUME NEW run, NEW less, less.args = run.args, LinksOf(less) \subseteq LinksOf(run), NEW stubs
    PROVE  DueOf(less, stubs) \subseteq DueOf(run, stubs)
<1>1. CASE run.args.csv
  BY <1>1 DEF DueOf
<1>2. CASE ~run.args.csv
  <2>1. RUWithin(LinksOf(less), run.args.root, run.args.depth) \subseteq RUWithin(LinksOf(run), run.args.root, run.args.depth)
    BY WithinGrows
  <2> QED
    BY <1>2, <2>1 DEF DueOf
<1> QED
  BY <1>1, <1>2

(* What stays true of a run when links go.                                 *)
LEMMA CoversLess ==
    ASSUME NEW run, NEW less, LinksOf(less) \subseteq LinksOf(run), less.args = run.args,
           less.only = run.only, less.queue = run.queue, less.refs = run.refs, less.left = run.left,
           less.rows = run.rows, less.failures = run.failures
    PROVE  /\ WalkCovers(run) => WalkCovers(less)
           /\ \A stubs : RefsCover(run, DueOf(run, stubs)) => RefsCover(less, DueOf(less, stubs))
<1>1. Levels(less) = Levels(run) /\ \A v, n : Reached(less, v, n) = Reached(run, v, n)
  BY DEF Levels, Reached
<1>2. WalkCovers(run) => WalkCovers(less)
  BY <1>1 DEF WalkCovers
<1>3. ASSUME NEW stubs, RefsCover(run, DueOf(run, stubs)) PROVE RefsCover(less, DueOf(less, stubs))
  <2>1. DueOf(less, stubs) \subseteq DueOf(run, stubs)
    BY LessDue
  <2>2. \A e : RollupTargets(less, e) = RollupTargets(run, e)
    BY DEF RollupTargets
  <2>3. RefsCover(run, DueOf(less, stubs))
    BY <1>3, <2>1 DEF RefsCover
  <2> QED
    BY <2>2, <2>3 DEF RefsCover
<1> QED
  BY <1>2, <1>3

(* A walk that is over has reached every version within the depth: along a *)
(* chain no version is the first it did not reach.                         *)
LEMMA WalkReaches ==
    ASSUME NEW run, WalkCovers(run), run.queue = <<>>, run.args.depth \in Nat,
           NEW v \in RUWithin(LinksOf(run), run.args.root, run.args.depth)
    PROVE  \E r \in run.refs : r.parent = run.args.root /\ r.child = v
<1> DEFINE root == run.args.root
           depth == run.args.depth
           links == LinksOf(run)
<1>1. v \in RUVersions \ {root}
  BY DEF RUWithin
<1>2. PICK k \in 1 .. depth : \E chain \in [0 .. k -> RUVersions] :
        chain[0] = root /\ chain[k] = v /\ \A i \in 1 .. k : <<chain[i - 1], chain[i]>> \in links
  BY DEF RUWithin
<1>3. PICK chain \in [0 .. k -> RUVersions] :
        chain[0] = root /\ chain[k] = v /\ \A i \in 1 .. k : <<chain[i - 1], chain[i]>> \in links
  BY <1>2
<1>4. k \in Nat /\ k <= depth
  BY <1>2
<1>5. \A x \in Levels(run) : x[2] \in Nat
  BY DEF WalkCovers, Levels
<1>6. \A i \in 0 .. k : Reached(run, chain[i], i)
  <2> DEFINE Missed == {i \in 0 .. k : ~Reached(run, chain[i], i)}
  <2> SUFFICES ASSUME Missed # {} PROVE FALSE
    OBVIOUS
  <2>1. PICK m \in Missed : \A i \in Missed : m <= i
    <3>1. Missed \subseteq Nat
      BY <1>4
    <3> HIDE DEF Missed
    <3> QED
      BY <3>1, SmallestExists
  <2>2. Reached(run, chain[0], 0)
    <3>1. <<root, 0>> \in Levels(run)
      BY DEF Levels
    <3>2. <<root, 0>>[1] = chain[0] /\ <<root, 0>>[2] <= 0
      BY <1>3
    <3> QED
      BY <3>1, <3>2 DEF Reached
  <2>3. m \in 1 .. k /\ m - 1 \in 0 .. k /\ m - 1 < depth
    BY <2>1, <2>2, <1>4
  <2>4. Reached(run, chain[m - 1], m - 1)
    <3>1. m - 1 \notin Missed
      BY <2>1, <2>3
    <3> QED
      BY <3>1, <2>3
  <2>5. PICK x \in Levels(run) : x[1] = chain[m - 1] /\ x[2] <= m - 1
    BY <2>4 DEF Reached
  <2>6. \A e \in links : e[1] = x[1] => Reached(run, e[2], x[2] + 1)
    <3>1. ~(x[2] >= depth)
      BY <2>3, <2>5, <1>5
    <3>2. DOMAIN run.queue = {}
      OBVIOUS
    <3> QED
      BY <3>1, <3>2 DEF WalkCovers
  <2>7. Reached(run, chain[m], x[2] + 1)
    <3>1. <<chain[m - 1], chain[m]>> \in links
      BY <1>3, <2>3
    <3> DEFINE e == <<chain[m - 1], chain[m]>>
    <3>2. e \in links /\ e[1] = x[1] /\ e[2] = chain[m]
      BY <3>1, <2>5
    <3> HIDE DEF e, links
    <3> QED
      BY <3>2, <2>6
  <2>8. Reached(run, chain[m], m)
    <3>1. PICK y \in Levels(run) : y[1] = chain[m] /\ y[2] <= x[2] + 1
      BY <2>7 DEF Reached
    <3>2. y[2] <= m
      BY <3>1, <2>3, <2>5, <1>5
    <3> QED
      BY <3>1, <3>2 DEF Reached
  <2> QED
    BY <2>1, <2>8
<1>7. Reached(run, v, k)
  BY <1>3, <1>4, <1>6
<1>8. PICK x \in Levels(run) : x[1] = v
  BY <1>7 DEF Reached
<1>9. PICK r \in run.refs : x = <<r.child, Len(r.path)>>
  BY <1>8, <1>1 DEF Levels
<1> QED
  BY <1>8, <1>9 DEF WalkCovers
\* What a step of the roll-up keeps, besides what its world keeps.
CoversNext ==
  /\ ruRun'.due \subseteq ruBom'
  /\ ruRun'.at = "walk" => WalkCovers(ruRun')
  /\ ruRun'.at = "load" => ruRun'.args.csv
  /\ ruRun'.at \in {"collect", "failures", "plan"} => RefsCover(ruRun', DueOf(ruRun', RUStubs'))
  /\ ruRun'.at \in {"failures", "plan"} =>
       ruRun'.left = {} /\ ruFile'[RUFileOf(ruRun')] = RUUnique(ruRun'.rows)

LEMMA CoversWorldStep ==
    ASSUME RollupInv, RollupCovers, RUAdds \/ RURemoves \/ RURenames \/ RURelists
    PROVE  CoversNext
<1>1. CASE RUAdds \/ RURenames
  <2>1. ruRun' = ruRun /\ ruBom \subseteq ruBom' /\ ruFile' = ruFile /\ RUStubs' = RUStubs
    BY <1>1 DEF RUAdds, RURenames, ruFiles, RUStubs
  <2> QED
    BY <2>1 DEF RollupCovers, CoversNext
<1>2. CASE RURelists
  BY <1>2 DEF RURelists, RollupCovers, CoversNext
<1>3. CASE RURemoves
  <2>1. PICK e \in ruBom : ruBom' = ruBom \ {e} /\ ruRun' = [ruRun EXCEPT !.due = ruRun.due \ {e}]
    BY <1>3 DEF RURemoves
  <2> DEFINE due == ruRun.due \ {e}
  <2>2. /\ ruRun'.at = ruRun.at /\ ruRun'.args = ruRun.args /\ ruRun'.only = ruRun.only /\ ruRun'.queue = ruRun.queue
        /\ ruRun'.refs = ruRun.refs /\ ruRun'.left = ruRun.left /\ ruRun'.rows = ruRun.rows
        /\ ruRun'.failures = ruRun.failures /\ ruRun'.due = due /\ ruRun'.skipped = ruRun.skipped
    <3> HIDE DEF due
    <3> QED
      BY <2>1 DEF RollupInv, RollupTypes, RunShape, due
  <2>3. LinksOf(ruRun') \subseteq LinksOf(ruRun)
    BY <2>2 DEF LinksOf
  <2>4. ruFile' = ruFile /\ RUStubs' = RUStubs
    BY <1>3 DEF RURemoves, ruFiles, RUStubs
  <2>5. RUFileOf(ruRun') = RUFileOf(ruRun)
    BY <2>2 DEF RUFileOf
  <2>6. ruRun'.due \subseteq ruBom'
    BY <2>1, <2>2 DEF RollupCovers
  <2>7. /\ WalkCovers(ruRun) => WalkCovers(ruRun')
        /\ RefsCover(ruRun, DueOf(ruRun, RUStubs)) => RefsCover(ruRun', DueOf(ruRun', RUStubs))
    BY <2>2, <2>3, CoversLess
  <2> QED
    BY <2>2, <2>4, <2>5, <2>6, <2>7 DEF RollupCovers, CoversNext
<1> QED
  BY <1>1, <1>2, <1>3

LEMMA CoversBegins ==
    ASSUME RollupInv, RollupCovers, RUBegin
    PROVE  CoversNext
<1>1. PICK a \in RUArgs : \E held, only :
        ruRun' = [NoRollup EXCEPT !.at = IF a.csv THEN "load" ELSE "walk",
                       !.args = a, !.only = only, !.held = held, !.due = ruBom,
                       !.queue = IF a.csv THEN <<>> ELSE << [version |-> a.root, path |-> <<>>] >>]
  BY DEF RUBegin
<1>2. /\ ruRun'.at = (IF a.csv THEN "load" ELSE "walk") /\ ruRun'.args = a /\ ruRun'.due = ruBom /\ ruRun'.refs = {}
      /\ ruRun'.queue = IF a.csv THEN <<>> ELSE << [version |-> a.root, path |-> <<>>] >>
  BY <1>1 DEF NoRollup
<1>3. ruBom' = ruBom
  BY DEF RUBegin, ruWorld
<1>4. a.csv \in BOOLEAN
  BY RollupAssumed
<1>5. ASSUME ~a.csv PROVE WalkCovers(ruRun')
  <2>1. Levels(ruRun') = {<<a.root, 0>>}
    BY <1>2 DEF Levels
  <2>2. /\ 1 \in DOMAIN ruRun'.queue /\ ruRun'.queue[1].version = a.root
        /\ Len(ruRun'.queue[1].path) = 0
    BY <1>2, <1>5
  <2> QED
    BY <1>2, <1>5, <2>1, <2>2 DEF WalkCovers
<1> QED
  BY <1>2, <1>3, <1>4, <1>5 DEF CoversNext

LEMMA CoversTooDeep ==
    ASSUME RollupInv, RollupCovers, RUTooDeep
    PROVE  CoversNext
<1> DEFINE q == ruRun.queue
           p == Tail(q)
<1>1. q \in Seq(QueueEntry) /\ q # <<>> /\ ruRun.at = "walk" /\ Len(q[1].path) >= ruRun.args.depth
  BY DEF RUTooDeep, RollupInv, RollupTypes, RunShape
<1>2. /\ Len(p) = Len(q) - 1 /\ Len(q) \in Nat \ {0} /\ DOMAIN q = 1 .. Len(q) /\ DOMAIN p = 1 .. Len(q) - 1
      /\ \A i \in DOMAIN p : p[i] = q[i + 1]
      /\ \A i \in DOMAIN q : Len(q[i].path) \in Nat
  <2> HIDE DEF q
  <2>1. Tail(q) \in Seq(QueueEntry) /\ Len(Tail(q)) = Len(q) - 1 /\ Len(q) \in Nat \ {0}
        /\ \A i \in 1 .. Len(q) - 1 : Tail(q)[i] = q[i + 1]
    BY <1>1, HeadTailProperties
  <2>2. \A i \in DOMAIN q : Len(q[i].path) \in Nat
    BY <1>1 DEF QueueEntry
  <2>3. p = Tail(q)
    OBVIOUS
  <2> HIDE DEF p
  <2> QED
    BY <1>1, <2>1, <2>2, <2>3
<1> HIDE DEF p
<1>3. /\ ruRun'.at = "walk" /\ ruRun'.args = ruRun.args /\ ruRun'.queue = p /\ ruRun'.refs = ruRun.refs
      /\ ruRun'.due = ruRun.due /\ ruRun'.skipped = ruRun.skipped /\ ruBom' = ruBom
  BY <1>1 DEF RUTooDeep, RollupInv, RollupTypes, RunShape, p, ruWorld
<1>4. Levels(ruRun') = Levels(ruRun) /\ LinksOf(ruRun') = LinksOf(ruRun) /\ \A v, n : Reached(ruRun', v, n) = Reached(ruRun, v, n)
  BY <1>3 DEF Levels, LinksOf, Reached
<1>5. QueueOrdered(q) /\ WalkCovers(ruRun)
  BY <1>1 DEF RollupInv, WalkTrue, RollupCovers
<1> DEFINE Behind(x) == \E i \in DOMAIN p : p[i].version = x[1] /\ Len(p[i].path) = x[2]
<1>6. ASSUME NEW x \in Levels(ruRun), NEW i \in DOMAIN q, q[i].version = x[1], Len(q[i].path) = x[2],
             ~(x[2] >= ruRun.args.depth)
      PROVE  Behind(x)
  <2>1. i \in Nat /\ i # 1 /\ i >= 1
    BY <1>1, <1>2, <1>6
  <2>2. i - 1 \in DOMAIN p /\ p[i - 1] = q[i]
    BY <2>1, <1>2, <1>6
  <2> QED
    BY <2>2, <1>6
<1>7. ASSUME p # <<>>, NEW r \in ruRun.refs PROVE Len(r.path) <= Len(p[1].path) + 1
  <2>1. 1 \in DOMAIN p /\ 1 \in DOMAIN q /\ 2 \in DOMAIN q /\ p[1] = q[2]
    <3>1. Len(p) # 0
      <4>1. p \in Seq(QueueEntry)
        <5> HIDE DEF q
        <5> QED
          BY <1>1, HeadTailProperties DEF p
      <4> QED
        BY <4>1, <1>7, EmptySeq
    <3> HIDE DEF q
    <3>2. 1 \in DOMAIN p /\ 1 \in DOMAIN q /\ 1 + 1 \in DOMAIN q
      <4>1. Len(q) \in Nat /\ Len(q) # 1 /\ Len(q) # 0
        BY <3>1, <1>2
      <4> QED
        BY <4>1, <1>2
    <3>3. p[1] = q[1 + 1]
      BY <3>2, <1>2
    <3> QED
      BY <3>2, <3>3
  <2>2. Len(q[1].path) <= Len(q[2].path)
    BY <2>1, <1>5 DEF QueueOrdered
  <2>3. Len(r.path) <= Len(q[1].path) + 1 /\ Len(r.path) \in Nat
    BY <1>1, <1>5 DEF WalkCovers
  <2>4. Len(q[1].path) <= Len(p[1].path)
    <3> HIDE DEF q, p
    <3> QED
      BY <2>1, <2>2
  <2>5. Len(q[1].path) \in Int /\ Len(p[1].path) \in Int
    BY <2>1, <1>2
  <2> HIDE DEF q, p
  <2> QED
    BY <2>3, <2>4, <2>5
<1>8. WalkCovers(ruRun')
  <2> HIDE DEF Behind
  <2>1. ASSUME NEW x \in Levels(ruRun)
        PROVE  \/ Behind(x) \/ x[2] >= ruRun.args.depth
               \/ \A e \in LinksOf(ruRun) : e[1] = x[1] => Reached(ruRun, e[2], x[2] + 1)
    BY <1>5, <1>6 DEF WalkCovers
  <2> QED
    BY <1>3, <1>4, <1>5, <1>7, <2>1 DEF WalkCovers, Behind
<1> QED
  BY <1>3, <1>8 DEF RollupCovers, CoversNext
LEMMA CoversVisits ==
    ASSUME RollupInv, RollupCovers, NEW lost \in SUBSET RUVersions, RUVisits(lost)
    PROVE  CoversNext
<1> DEFINE q == ruRun.queue
           root == ruRun.args.root
           resolve == ruRun.args.resolve
           v == Head(q).version
           found == VisitFound(lost)
           L == Len(q[1].path)
<1>1. PICK seq \in RUInOrder(found) : Visited(lost, seq)
  BY VisitShape
<1> DEFINE more == VisitMore(seq)
           p == Tail(q) \o more
<1>2. /\ q # <<>> /\ L \in Nat /\ DOMAIN q = 1 .. Len(q) /\ DOMAIN p = 1 .. Len(p) /\ Len(p) = Len(q) - 1 + Len(more)
      /\ \A i \in DOMAIN p : IF i < Len(q) THEN i + 1 \in DOMAIN q /\ p[i] = q[i + 1]
                             ELSE i - Len(q) + 1 \in DOMAIN more /\ p[i] = more[i - Len(q) + 1]
      /\ \A i \in DOMAIN q : Len(q[i].path) \in Nat /\ L <= Len(q[i].path) /\ Len(q[i].path) <= L + 1
      /\ DOMAIN more = 1 .. Len(more) /\ Len(more) = Cardinality(found)
      /\ \A i \in DOMAIN more : Len(more[i].path) = L + 1
  BY <1>1 DEF Visited
<1>3. /\ ruRun'.at = "walk" /\ ruRun'.args = ruRun.args /\ ruRun'.queue = p /\ ruRun'.due = ruRun.due
      /\ ruRun'.refs = ruRun.refs \cup VisitNew(lost) /\ ruRun'.skipped = ruRun.skipped \cup VisitSkips(lost)
      /\ ruBom' = ruBom
  BY <1>1 DEF Visited, RUVisits, ruWorld
<1>4. found \subseteq RUVersions /\ IsFiniteSet(found) /\ Cardinality(found) \in Nat
  <2>1. found \subseteq RUVersions
    BY DEF VisitFound, RUDirect
  <2> HIDE DEF found
  <2> QED
    BY <2>1, RollupAssumed, FS_Subset, FS_CardinalityType
<1>5. v = q[1].version /\ Len(q) \in Nat \ {0} /\ Len(more) \in Nat
  <2>1. q \in Seq(QueueEntry)
    BY DEF RollupInv, RollupTypes, RunShape
  <2>2. Head(q) = q[1] /\ Len(q) \in Nat \ {0}
    <3> HIDE DEF q
    <3> QED
      BY <2>1, <1>2
  <2> QED
    BY <2>2, <1>2, <1>4
<1>6. \A c \in found : \E i \in DOMAIN more : more[i].version = c
  <2>1. DOMAIN seq = DOMAIN more /\ \A c \in found : \E i \in DOMAIN seq : seq[i] = c
    BY DEF RUInOrder, Range, VisitMore
  <2>2. \A i \in DOMAIN more : more[i].version = seq[i]
    BY <2>1 DEF VisitMore
  <2> HIDE DEF more, found
  <2> QED
    BY <2>1, <2>2
<1>7. \A c \in found : Len(VisitPath(c)) = L + 1
  BY <1>1, <1>4 DEF Visited
<1>8. \A r \in VisitNew(lost) : r.child \in found /\ r.parent = root /\ Len(r.path) = L + 1
  <2> SUFFICES ASSUME NEW r \in VisitNew(lost) PROVE r.child \in found /\ r.parent = root /\ Len(r.path) = L + 1
    OBVIOUS
  <2>1. PICK c \in found : r = RURef(root, ruName[root], FALSE, c, VisitPath(c))
    BY DEF VisitNew
  <2>2. r.child = c /\ r.parent = root /\ r.path = VisitPath(c)
    <3> DEFINE w == VisitPath(c)
    <3> HIDE DEF w, root
    <3> QED
      BY <2>1 DEF RURef, w
  <2> HIDE DEF found, root, L
  <2> QED
    BY <1>7, <2>2
<1>9. \A c \in found : \E r \in VisitNew(lost) : r.child = c
  <2> SUFFICES ASSUME NEW c \in found
               PROVE  RURef(root, ruName[root], FALSE, c, VisitPath(c)).child = c
    BY DEF VisitNew
  <2> QED
    BY DEF RURef
<1>10. Levels(ruRun') = Levels(ruRun) \cup {<<c, L + 1>> : c \in found}
  <2>1. Levels(ruRun') = {<<root, 0>>} \cup {<<r.child, Len(r.path)>> : r \in ruRun.refs \cup VisitNew(lost)}
    BY <1>3 DEF Levels
  <2>2. {<<r.child, Len(r.path)>> : r \in VisitNew(lost)} = {<<c, L + 1>> : c \in found}
    <3> HIDE DEF found, L
    <3> QED
      BY <1>8, <1>9
  <2> QED
    BY <2>1, <2>2 DEF Levels
<1>11. WalkCovers(ruRun) /\ ruRun.due \subseteq ruBom
  BY DEF RUVisits, RollupCovers
<1> HIDE DEF more, p, found, q, v, L
<1>12. \A r \in ruRun'.refs : r.parent = ruRun'.args.root /\ Len(r.path) \in Nat /\ Len(r.path) <= L + 1
  BY <1>2, <1>3, <1>8, <1>11 DEF WalkCovers, q, L
<1>13. p # <<>> => L <= Len(p[1].path) /\ Len(p[1].path) \in Nat
  <2> SUFFICES ASSUME p # <<>> PROVE L <= Len(p[1].path) /\ Len(p[1].path) \in Nat
    OBVIOUS
  <2>1. 1 \in DOMAIN p
    <3>1. p \in Seq(QueueEntry)
      BY <1>3, <1>1 DEF Visited, RunShape, p, q, more
    <3>2. Len(p) # 0
      BY <3>1, EmptySeq
    <3> QED
      BY <3>1, <3>2, <1>2
  <2> QED
    BY <2>1, <1>2
<1>14. LinksOf(ruRun') \subseteq LinksOf(ruRun)
  BY <1>3 DEF LinksOf
<1>15. \A c, n : Reached(ruRun, c, n) => Reached(ruRun', c, n)
  BY <1>10 DEF Reached
<1> DEFINE Behind(x) == \E i \in DOMAIN p : p[i].version = x[1] /\ Len(p[i].path) = x[2]
           Followed(x) == \A e \in LinksOf(ruRun') : e[1] = x[1] => Reached(ruRun', e[2], x[2] + 1)
<1>16. ASSUME NEW c \in found PROVE Behind(<<c, L + 1>>)
  <2>1. PICK i \in DOMAIN more : more[i].version = c
    BY <1>6
  <2> DEFINE j == Len(q) - 1 + i
  <2>2. j \in DOMAIN p /\ ~(j < Len(q)) /\ j - Len(q) + 1 = i
    BY <1>2, <1>5
  <2> HIDE DEF j
  <2>3. p[j] = more[i]
    BY <2>2, <1>2
  <2> QED
    BY <2>1, <2>2, <2>3, <1>2
<1>17. ASSUME NEW i \in DOMAIN q, i # 1 PROVE \E j \in DOMAIN p : p[j] = q[i]
  <2>1. i - 1 \in DOMAIN p /\ i - 1 < Len(q) /\ (i - 1) + 1 = i
    BY <1>2, <1>5, <1>17
  <2> QED
    BY <2>1, <1>2
<1>18. ASSUME NEW x, x \in Levels(ruRun), x[1] = v, x[2] = L PROVE Followed(x)
  <2> SUFFICES ASSUME NEW e \in LinksOf(ruRun'), e[1] = v PROVE Reached(ruRun', e[2], L + 1)
    BY <1>18
  <2>1. e \in ruBom /\ e \in RUVersions \X RUVersions /\ (resolve \/ e \notin RUNamed) /\ e \notin VisitSkips(lost)
    BY <1>3, <1>11 DEF LinksOf, RollupInv, RollupTypes
  <2> DEFINE c == e[2]
  <2>2. e = <<v, c>> /\ c \in RUVersions
    BY <2>1
  <2> HIDE DEF c
  <2>3. CASE c = v
    <3>1. x \in Levels(ruRun') /\ x[2] <= L + 1
      BY <1>10, <1>18, <1>2
    <3> QED
      BY <3>1, <2>3, <1>18 DEF Reached, c
  <2>4. CASE c = root
    <3>1. <<root, 0>> \in Levels(ruRun')
      BY <1>3 DEF Levels
    <3>2. <<root, 0>>[1] = c /\ <<root, 0>>[2] <= L + 1
      BY <2>4, <1>2
    <3> QED
      BY <3>1, <3>2 DEF Reached, c
  <2>5. CASE \E r \in ruRun'.refs : r.child = c
    <3>1. PICK r \in ruRun'.refs : r.child = c
      BY <2>5
    <3>2. <<c, Len(r.path)>> \in Levels(ruRun') /\ Len(r.path) <= L + 1
      BY <3>1, <1>12 DEF Levels
    <3>3. <<c, Len(r.path)>>[1] = c /\ <<c, Len(r.path)>>[2] <= L + 1
      BY <3>2
    <3> QED
      BY <3>2, <3>3 DEF Reached, c
  <2>6. CASE c # v /\ c # root /\ ~\E r \in ruRun'.refs : r.child = c
    <3>1. c \notin lost
      BY <2>1, <2>2 DEF VisitSkips, v, q
    <3>2. c \in RUDirect(v, resolve)
      BY <2>1, <2>2, <2>6 DEF RUDirect
    <3>3. c \notin {r.child : r \in ruRun.refs}
      BY <2>6, <1>3
    <3>4. c \in found
      BY <3>1, <3>2, <3>3, <2>6 DEF found, VisitFound, v, q
    <3>5. \E r \in ruRun'.refs : r.child = c
      BY <3>4, <1>3, <1>9
    <3> QED
      BY <3>5, <2>6
  <2> QED
    BY <2>3, <2>4, <2>5, <2>6
<1>19. ASSUME NEW x \in Levels(ruRun')
       PROVE  Behind(x) \/ x[2] >= ruRun.args.depth \/ Followed(x)
  <2>1. CASE x \in {<<c, L + 1>> : c \in found}
    BY <2>1, <1>16
  <2>2. CASE x \in Levels(ruRun)
    <3>1. CASE \E i \in DOMAIN q : q[i].version = x[1] /\ Len(q[i].path) = x[2]
      <4>1. PICK i \in DOMAIN q : q[i].version = x[1] /\ Len(q[i].path) = x[2]
        BY <3>1
      <4>2. CASE i = 1
        <5>1. x[1] = v /\ x[2] = L
          BY <4>1, <4>2, <1>5 DEF L
        <5> QED
          BY <5>1, <2>2, <1>18
      <4>3. CASE i # 1
        BY <4>1, <4>3, <1>17
      <4> QED
        BY <4>2, <4>3
    <3>2. CASE \A e \in LinksOf(ruRun) : e[1] = x[1] => Reached(ruRun, e[2], x[2] + 1)
      BY <3>2, <1>14, <1>15
    <3> QED
      BY <3>1, <3>2, <2>2, <1>11 DEF WalkCovers, q
  <2> QED
    BY <2>1, <2>2, <1>10
<1>20. WalkCovers(ruRun')
  <2> HIDE DEF Behind, Followed
  <2>1. ~ruRun'.args.csv
    BY <1>3, <1>11 DEF WalkCovers
  <2>2. ruRun'.queue # <<>> => \A r \in ruRun'.refs : Len(r.path) <= Len(ruRun'.queue[1].path) + 1
    BY <1>2, <1>3, <1>12, <1>13
  <2> QED
    BY <2>1, <2>2, <1>3, <1>12, <1>19 DEF WalkCovers, Behind, Followed
<1> QED
  BY <1>3, <1>11, <1>20 DEF CoversNext
(* Behind the walk.                                                        *)
LEMMA CoversWalked ==
    ASSUME RollupInv, RollupCovers, RUWalked
    PROVE  CoversNext
<1> DEFINE refs == RUTargeted(ruRun.refs)
           left == {r.child : r \in refs}
<1>1. ruRun.at = "walk" /\ ruRun.queue = <<>> /\ ruRun' = [ruRun EXCEPT !.at = "collect", !.queue = <<>>, !.refs = refs, !.left = left]
  BY DEF RUWalked, RUCollecting
<1>2. refs = {r \in ruRun.refs : RollupTargets(ruRun, r.child)}
  BY DEF RUTargeted, RollupTargets
<1> HIDE DEF refs, left
<1>3. /\ ruRun'.at = "collect" /\ ruRun'.args = ruRun.args /\ ruRun'.refs = refs /\ ruRun'.left = left
      /\ ruRun'.only = ruRun.only /\ ruRun'.failures = ruRun.failures
      /\ ruRun'.due = ruRun.due /\ ruRun'.skipped = ruRun.skipped /\ ruBom' = ruBom
  BY <1>1 DEF RollupInv, RollupTypes, RunShape, RUWalked, ruWorld
<1>4. WalkCovers(ruRun) /\ ruRun.due \subseteq ruBom /\ ruRun.args.depth \in Nat
  BY <1>1, RollupAssumed DEF RollupCovers, RollupInv, RollupTypes, RunShape
<1>5. LinksOf(ruRun') = LinksOf(ruRun)
  BY <1>3 DEF LinksOf
<1>6. ASSUME NEW e \in DueOf(ruRun', RUStubs'), RollupTargets(ruRun', e[2])
      PROVE  \E r \in refs : <<r.parent, r.child>> = e
  <2>1. e \in {ruRun.args.root} \X RUWithin(LinksOf(ruRun), ruRun.args.root, ruRun.args.depth)
    BY <1>3, <1>4, <1>5, <1>6 DEF DueOf, WalkCovers
  <2> DEFINE v == e[2]
  <2>2. e = <<ruRun.args.root, v>> /\ v \in RUWithin(LinksOf(ruRun), ruRun.args.root, ruRun.args.depth)
    BY <2>1
  <2> HIDE DEF v
  <2>3. PICK r \in ruRun.refs : r.parent = ruRun.args.root /\ r.child = v
    BY <2>2, <1>1, <1>4, WalkReaches
  <2>4. r \in refs
    BY <2>2, <2>3, <1>2, <1>3, <1>6 DEF RollupTargets, v
  <2> QED
    BY <2>2, <2>3, <2>4
<1>7. \A r \in refs : r.child \in left
  BY DEF left
<1>8. RefsCover(ruRun', DueOf(ruRun', RUStubs'))
  BY <1>3, <1>6, <1>7 DEF RefsCover
<1> QED
  BY <1>3, <1>4, <1>8 DEF CoversNext

LEMMA CoversLoads ==
    ASSUME RollupInv, RollupCovers, NEW lost \in SUBSET RUVersions, RULoads(lost)
    PROVE  CoversNext
<1> DEFINE unread == {r \in RUStubs : r.child \in lost}
           refs == RUTargeted(RUStubs \ unread)
           left == {r.child : r \in refs}
           failures == {<<r.parent, r.child>> : r \in unread}
<1>1. ruRun.at = "load" /\ ruRun' = [ruRun EXCEPT !.at = "collect", !.refs = refs, !.left = left, !.failures = failures]
  BY DEF RULoads
<1>2. refs = {r \in RUStubs : r \notin unread /\ RollupTargets(ruRun, r.child)}
  BY DEF RUTargeted, RollupTargets
<1>3. ruBom' = ruBom /\ RUStubs' = RUStubs
  BY DEF RULoads, ruWorld, RUStubs
<1> HIDE DEF unread, refs, left, failures
<1>4. /\ ruRun'.at = "collect" /\ ruRun'.args = ruRun.args /\ ruRun'.refs = refs /\ ruRun'.left = left
      /\ ruRun'.only = ruRun.only /\ ruRun'.failures = failures /\ ruRun'.due = ruRun.due
  BY <1>1 DEF RollupInv, RollupTypes, RunShape
<1>5. DueOf(ruRun', RUStubs') = {<<r.parent, r.child>> : r \in RUStubs}
  BY <1>1, <1>3, <1>4 DEF RollupCovers, DueOf
<1>6. ASSUME NEW e \in DueOf(ruRun', RUStubs'), RollupTargets(ruRun', e[2])
      PROVE  e \in failures \/ \E r \in refs : <<r.parent, r.child>> = e
  <2>1. PICK r \in RUStubs : e = <<r.parent, r.child>>
    BY <1>5, <1>6
  <2>2. CASE r \in unread
    BY <2>1, <2>2 DEF failures
  <2>3. CASE r \notin unread
    <3>1. RollupTargets(ruRun, r.child)
      BY <2>1, <1>4, <1>6 DEF RollupTargets
    <3> QED
      BY <3>1, <2>1, <2>3, <1>2
  <2> QED
    BY <2>2, <2>3
<1>7. \A r \in refs : r.child \in left
  BY DEF left
<1>8. RefsCover(ruRun', DueOf(ruRun', RUStubs'))
  BY <1>4, <1>6, <1>7 DEF RefsCover
<1> QED
  BY <1>3, <1>4, <1>8 DEF RollupCovers, CoversNext

\* What collecting changes of a run.
LEMMA CoversCollecting ==
    ASSUME NEW run, NEW next, next.args = run.args, next.only = run.only, next.refs = run.refs,
           next.due = run.due, next.skipped = run.skipped,
           run.failures \subseteq next.failures, run.rows \subseteq next.rows,
           NEW stubs, RefsCover(run, DueOf(run, stubs)),
           \A r \in run.refs : r.child \in run.left =>
             \/ r.child \in next.left \/ <<r.parent, r.child>> \in next.failures
             \/ \A f \in RUFindings[r.child] : \E row \in next.rows :
                  row.ref = r /\ row.component = f.component /\ row.vulnerability = f.vulnerability
    PROVE  RefsCover(next, DueOf(next, stubs))
<1>1. DueOf(next, stubs) = DueOf(run, stubs)
  BY DEF DueOf, LinksOf
<1>2. \A e \in DueOf(next, stubs) : RollupTargets(next, e[2]) =>
        e \in next.failures \/ \E r \in next.refs : <<r.parent, r.child>> = e
  BY <1>1 DEF RefsCover, RollupTargets
<1> DEFINE Has(rows, r) == \A f \in RUFindings[r.child] : \E row \in rows :
                 row.ref = r /\ row.component = f.component /\ row.vulnerability = f.vulnerability
<1>3. \A r : Has(run.rows, r) => Has(next.rows, r)
  OBVIOUS
<1>4. \A r \in next.refs : r.child \in next.left \/ <<r.parent, r.child>> \in next.failures \/ Has(next.rows, r)
  <2>1. \A r \in run.refs : r.child \in run.left \/ <<r.parent, r.child>> \in run.failures \/ Has(run.rows, r)
    BY DEF RefsCover
  <2>2. \A r \in run.refs : r.child \in run.left => r.child \in next.left \/ <<r.parent, r.child>> \in next.failures \/ Has(next.rows, r)
    OBVIOUS
  <2> HIDE DEF Has
  <2> QED
    BY <2>1, <2>2, <1>3
<1> QED
  BY <1>2, <1>4 DEF RefsCover

LEMMA CoversTargetFails ==
    ASSUME RollupInv, RollupCovers, NEW c \in RUVersions, NEW blank \in BOOLEAN, RUTargetFails(c, blank)
    PROVE  CoversNext
<1> DEFINE failures == ruRun.failures \cup RUFailed(c)
           blanks == IF blank THEN ruRun.blank \cup {RUProjectOf[c]} ELSE ruRun.blank
           left == ruRun.left \ {c}
<1>1. ruRun.at = "collect" /\ ruRun' = [ruRun EXCEPT !.left = left, !.failures = failures, !.blank = blanks]
  BY DEF RUTargetFails
<1> HIDE DEF failures, blanks, left
<1>2. /\ ruRun'.at = "collect" /\ ruRun'.args = ruRun.args /\ ruRun'.refs = ruRun.refs /\ ruRun'.left = left
      /\ ruRun'.only = ruRun.only /\ ruRun'.failures = failures /\ ruRun'.due = ruRun.due
      /\ ruRun'.skipped = ruRun.skipped /\ ruRun'.rows = ruRun.rows
  BY <1>1 DEF RollupInv, RollupTypes, RunShape
<1>3. ruBom' = ruBom /\ RUStubs' = RUStubs
  BY DEF RUTargetFails, ruWorld, RUStubs
<1>4. \A r \in ruRun.refs : r.child \in ruRun.left => r.child \in left \/ <<r.parent, r.child>> \in failures
  BY DEF left, failures, RUFailed, RUContexts
<1>5. RefsCover(ruRun', DueOf(ruRun', RUStubs))
  <2>1. RefsCover(ruRun, DueOf(ruRun, RUStubs)) /\ ruRun.failures \subseteq failures
    BY <1>1 DEF RollupCovers, failures
  <2> QED
    BY <2>1, <1>2, <1>4, CoversCollecting
<1> QED
  BY <1>2, <1>3, <1>5 DEF RollupCovers, CoversNext

LEMMA CoversCollects ==
    ASSUME RollupInv, RollupCovers, NEW c \in RUVersions, NEW lost, NEW unnamed, RUCollects(c, lost, unnamed)
    PROVE  CoversNext
<1> DEFINE failures == IF lost = {} THEN ruRun.failures ELSE ruRun.failures \cup RUFailed(c)
           left == ruRun.left \ {c}
           rows == ruRun.rows \cup RURows(c, RURead(c, lost), unnamed)
<1>1. ruRun.at = "collect" /\ ruRun' = [ruRun EXCEPT !.left = left, !.rows = rows, !.failures = failures]
  BY DEF RUCollects
<1> HIDE DEF failures, rows, left
<1>2. /\ ruRun'.at = "collect" /\ ruRun'.args = ruRun.args /\ ruRun'.refs = ruRun.refs /\ ruRun'.left = left
      /\ ruRun'.only = ruRun.only /\ ruRun'.failures = failures /\ ruRun'.due = ruRun.due
      /\ ruRun'.skipped = ruRun.skipped /\ ruRun'.rows = rows
  BY <1>1 DEF RollupInv, RollupTypes, RunShape
<1>3. ruBom' = ruBom /\ RUStubs' = RUStubs
  BY DEF RUCollects, ruWorld, RUStubs
<1>4. ASSUME NEW r \in ruRun.refs, r.child \in ruRun.left
      PROVE  \/ r.child \in left \/ <<r.parent, r.child>> \in failures
             \/ \A f \in RUFindings[r.child] : \E row \in rows :
                  row.ref = r /\ row.component = f.component /\ row.vulnerability = f.vulnerability
  <2>1. CASE r.child # c
    BY <1>4, <2>1 DEF left
  <2>2. CASE r.child = c /\ lost # {}
    BY <2>2 DEF failures, RUFailed, RUContexts
  <2>3. CASE r.child = c /\ lost = {}
    <3>1. ASSUME NEW f \in RUFindings[c]
          PROVE  \E row \in rows : row.ref = r /\ row.component = f.component /\ row.vulnerability = f.vulnerability
      <4> DEFINE row == [ref |-> r, component |-> f.component, version |-> RUVersionIdentity(f.component, unnamed),
                         vulnerability |-> f.vulnerability]
      <4>1. r \in RUContexts(c) /\ f \in RURead(c, lost)
        BY <2>3 DEF RUContexts, RURead
      <4>2. row \in rows
        BY <4>1 DEF rows, RURows
      <4>3. row.ref = r /\ row.component = f.component /\ row.vulnerability = f.vulnerability
        OBVIOUS
      <4> QED
        BY <4>2, <4>3
    <3> QED
      BY <3>1, <2>3
  <2> QED
    BY <2>1, <2>2, <2>3
<1>5. RefsCover(ruRun', DueOf(ruRun', RUStubs))
  <2>1. RefsCover(ruRun, DueOf(ruRun, RUStubs)) /\ ruRun.failures \subseteq failures /\ ruRun.rows \subseteq rows
    BY <1>1 DEF RollupCovers, failures, rows
  <2> QED
    BY <2>1, <1>2, <1>4, CoversCollecting
<1> QED
  BY <1>2, <1>3, <1>5 DEF RollupCovers, CoversNext

LEMMA CoversWrites ==
    ASSUME RollupInv, RollupCovers, RUWritesFindings \/ RUWritesFailures \/ RUDies \/ RUPlan
    PROVE  CoversNext
<1>1. CASE RUWritesFindings \/ RUWritesFailures
  <2>1. /\ ruRun'.at \in {"failures", "plan"} /\ ruRun'.args = ruRun.args /\ ruRun'.refs = ruRun.refs /\ ruRun'.left = ruRun.left
        /\ ruRun'.only = ruRun.only /\ ruRun'.failures = ruRun.failures /\ ruRun'.due = ruRun.due
        /\ ruRun'.skipped = ruRun.skipped /\ ruRun'.rows = ruRun.rows
    BY <1>1 DEF RollupInv, RollupTypes, RunShape, RUWritesFindings, RUWritesFailures
  <2>2. ruBom' = ruBom /\ RUStubs' = RUStubs
    BY <1>1 DEF RUWritesFindings, RUWritesFailures, ruWorld, RUStubs
  <2>3. RefsCover(ruRun, DueOf(ruRun, RUStubs))
    BY <1>1 DEF RUWritesFindings, RUWritesFailures, RollupCovers
  <2>4. RefsCover(ruRun', DueOf(ruRun', RUStubs'))
    BY <2>1, <2>2, <2>3 DEF RefsCover, DueOf, LinksOf, RollupTargets
  <2>5. RUFileOf(ruRun') = RUFileOf(ruRun) /\ RUFileOf(ruRun) \in {"main", "retry"}
    BY <2>1 DEF RUFileOf
  <2>6. ruRun.left = {} /\ ruFile'[RUFileOf(ruRun)] = RUUnique(ruRun.rows)
    <3>1. CASE RUWritesFindings
      <4> DEFINE rows == RUUnique(ruRun.rows)
      <4>1. ruRun.left = {} /\ ruFile' = [ruFile EXCEPT ![RUFileOf(ruRun)] = rows]
        BY <3>1 DEF RUWritesFindings
      <4> HIDE DEF rows
      <4>2. ruFile'[RUFileOf(ruRun)] = rows
        BY <4>1, <2>5 DEF RollupInv, RollupTypes
      <4> QED
        BY <4>1, <4>2 DEF rows
    <3>2. CASE RUWritesFailures
      BY <3>2 DEF RUWritesFailures, RollupCovers
    <3> QED
      BY <3>1, <3>2, <1>1
  <2> QED
    BY <2>1, <2>2, <2>4, <2>5, <2>6 DEF RollupCovers, CoversNext
<1>2. CASE RUDies \/ RUPlan
  <2>1. ruRun' = NoRollup
    BY <1>2 DEF RUDies, RUPlan
  <2> QED
    BY <2>1 DEF NoRollup, CoversNext
<1> QED
  BY <1>1, <1>2

LEMMA RollupCoversStep == RollupInv /\ RollupCovers /\ [RollupNext]_ruVars => RollupCovers'
<1> SUFFICES ASSUME RollupInv, RollupCovers, [RollupNext]_ruVars PROVE RollupCovers'
  OBVIOUS
<1>1. CASE UNCHANGED ruVars
  BY <1>1 DEF ruVars, ruWorld, ruFiles, RollupCovers, RUStubs
<1>2. CASE RollupNext
  <2>1. CoversNext
    BY <1>2, CoversWorldStep, CoversBegins, CoversTooDeep, CoversVisits, CoversWalked, CoversLoads, CoversTargetFails,
       CoversCollects, CoversWrites DEF RollupNext
  <2> QED
    BY <2>1 DEF CoversNext, RollupCovers
<1> QED
  BY <1>1, <1>2

LEMMA CoversSuffice == RollupCovers => RollupMissesNothing
<1> SUFFICES ASSUME RollupCovers, ruRun.at \in {"failures", "plan"}, NEW e \in RUDue,
                    RollupTargets(ruRun, e[2]), e \notin ruRun.failures, NEW f \in RUFindings[e[2]]
             PROVE  \E row \in ruFile[RUFileOf(ruRun)] :
                      /\ <<row.ref.parent, row.ref.child>> = e
                      /\ row.component = f.component /\ row.vulnerability = f.vulnerability
  BY DEF RollupMissesNothing, RollupTargets
<1>1. RefsCover(ruRun, DueOf(ruRun, RUStubs)) /\ ruRun.left = {} /\ ruFile[RUFileOf(ruRun)] = RUUnique(ruRun.rows)
  BY DEF RollupCovers
<1>2. e \in DueOf(ruRun, RUStubs)
  BY DEF RUDue, DueOf, LinksOf, RULinks
<1>3. PICK r \in ruRun.refs : <<r.parent, r.child>> = e
  BY <1>1, <1>2 DEF RefsCover
<1>4. r.child = e[2]
  BY <1>3
<1>5. PICK x \in ruRun.rows : x.ref = r /\ x.component = f.component /\ x.vulnerability = f.vulnerability
  BY <1>1, <1>3, <1>4 DEF RefsCover
<1> DEFINE row == CHOOSE y \in ruRun.rows : RURollupKey(y) = RURollupKey(x)
<1>6. row \in ruRun.rows /\ RURollupKey(row) = RURollupKey(x)
  OBVIOUS
<1>7. row \in RUUnique(ruRun.rows)
  BY DEF RUUnique
<1> HIDE DEF row
<1>8. /\ row.ref.parent = r.parent /\ row.ref.child = r.child
      /\ row.component = f.component /\ row.vulnerability = f.vulnerability
  BY <1>5, <1>6 DEF RURollupKey
<1> QED
  BY <1>1, <1>3, <1>7, <1>8

(* The findings file of a run has every finding of every relationship that *)
(* is due, unless the run recorded a failure for it: the walk reaches      *)
(* every version within the depth, each child is collected once for all    *)
(* its parents, and leaving rows out by their rollup key loses none.       *)
(* (walk_subprojects, BlackDuckTargetCollector.collect, dedupe_findings.)  *)
THEOREM RollupComplete == RollupSpec => []RollupMissesNothing
<1>1. RollupSpec => []RollupInv
  BY RollupInitInv, RollupInvStep, PTL DEF RollupSpec
<1>2. RollupInit => RollupCovers
  BY DEF RollupInit, NoRollup, RollupCovers
<1>3. RollupSpec => []RollupCovers
  BY <1>1, <1>2, RollupCoversStep, PTL DEF RollupSpec
<1> QED
  BY <1>3, CoversSuffice, PTL

-----------------------------------------------------------------------------
(* The types of the publishers' states.                                    *)

(* The hierarchy publisher creates no more issues in a run than            *)
(* --max-create allows, and works on nodes that the filters selected       *)
(* (process_findings, process_hierarchy_plan, filter_hierarchy_nodes).     *)
THEOREM JiraWellTyped == JiraSpec => []JiraTypeOK
<1>1. JiraInv => JiraTypeOK
  BY DEF JiraInv
<1> QED
  BY <1>1, JiraInitInv, JiraInvStep, PTL DEF JiraSpec

(* The product publisher creates no more issues in a run than it may, and  *)
(* works on nodes of its plan (product_publish.py publish, mutate).        *)
THEOREM ProductWellTyped == ProductSpec => []ProductTypeOK
<1>1. ProductInv => ProductTypeOK
  BY DEF ProductInv
<1> QED
  BY <1>1, ProductInitInv, ProductInvStep, PTL DEF ProductSpec

\* A roll-up's relationships are of versions, and its bounds are kept.
RollupCounts ==
  /\ ruFaults \in Nat /\ ruChanges \in Nat /\ ruRuns \in Nat
  /\ ruFaults <= RUMaxFaults /\ ruChanges <= RUMaxChanges /\ ruRuns <= RUMaxRuns
  /\ ruBom \subseteq RUEdges \cup RUExtra
  /\ \A v \in RUVersions : ruName[v] <= ruChanges

RefOfVersions(r) == r.parent \in RUVersions /\ r.child \in RUVersions

RollupRefs ==
  /\ \A r \in ruCsv : RefOfVersions(r)
  /\ \A r \in ruRun.refs : RefOfVersions(r)
  /\ ruRun.left \subseteq RUVersions
  /\ ruRun.failures \cup ruReport \cup ruRun.due \subseteq RUVersions \X RUVersions

LEMMA RollupListed ==
    ASSUME RollupTypes, NEW r \in RUListed
    PROVE  RefOfVersions(r)
<1>1. PICK e \in ruBom : r = RURef(e[1], ruName[e[1]], TRUE, e[2], << <<e[2], ruName[e[2]]>> >>)
  BY DEF RUListed
<1>2. e[1] \in RUVersions /\ e[2] \in RUVersions
  BY DEF RollupTypes
<1> QED
  BY <1>1, <1>2 DEF RefOfVersions, RURef

LEMMA RollupTypesInit == RollupInit => RollupCounts /\ RollupRefs
<1> SUFFICES ASSUME RollupInit PROVE RollupCounts /\ RollupRefs
  OBVIOUS
<1>1. RollupTypes
  BY RollupInitInv DEF RollupInv
<1>2. RollupRefs
  BY <1>1, RollupListed DEF RollupInit, RollupRefs, NoRollup
<1>3. RollupCounts
  BY RollupAssumption DEF RollupInit, RollupCounts
<1> QED
  BY <1>2, <1>3

LEMMA RollupCountsStep ==
    ASSUME RollupInv, RollupCounts, [RollupNext]_ruVars
    PROVE  RollupCounts'
<1> USE DEF ruWorld, ruFiles, ruBounds
<1>0. RUMaxFaults \in Nat /\ RUMaxChanges \in Nat /\ RUMaxRuns \in Nat /\ ruName \in [RUVersions -> Nat]
  BY RollupAssumption DEF RollupInv, RollupTypes
<1>1. ASSUME UNCHANGED <<ruBom, ruName, ruFaults, ruChanges, ruRuns>> PROVE RollupCounts'
  BY <1>1 DEF RollupCounts
<1>2. ASSUME NEW n \in Nat, UNCHANGED ruFaults \/ RUFail(n), UNCHANGED <<ruBom, ruName, ruChanges, ruRuns>>
      PROVE  RollupCounts'
  BY <1>0, <1>2 DEF RollupCounts, RUFail
<1>3. CASE RUAdds \/ RURemoves
  BY <1>0, <1>3 DEF RUAdds, RURemoves, RUChanged, RollupCounts
<1>4. CASE RURenames
  <2>1. PICK w \in RUVersions : ruName' = [ruName EXCEPT ![w] = @ + 1]
    BY <1>4 DEF RURenames
  <2>2. ruChanges' = ruChanges + 1 /\ ruChanges < RUMaxChanges /\ UNCHANGED <<ruBom, ruFaults, ruRuns>>
    BY <1>4 DEF RURenames, RUChanged
  <2>3. \A v \in RUVersions : ruName'[v] <= ruName[v] + 1 /\ ruName[v] \in Nat
    BY <1>0, <2>1
  <2>4. \A v \in RUVersions : ruName'[v] \in Nat
    BY <1>0, <2>1
  <2>5. \A v \in RUVersions : ruName'[v] <= ruChanges'
    BY <2>2, <2>3, <2>4 DEF RollupCounts
  <2> QED
    BY <1>0, <2>2, <2>5 DEF RollupCounts
<1>5. CASE RUBegin
  BY <1>0, <1>5 DEF RUBegin, RollupCounts
<1>6. CASE RURelists \/ RUWalked \/ RUTooDeep \/ RUWritesFindings \/ RUWritesFailures \/ RUPlan \/ UNCHANGED ruVars
  BY <1>1, <1>6 DEF RURelists, RUWalked, RUTooDeep, RUWritesFindings, RUWritesFailures, RUPlan, ruVars
<1>7. CASE RUDies
  BY <1>2, <1>7 DEF RUDies
<1>8. ASSUME NEW lost \in SUBSET RUVersions, RUVisits(lost) \/ RULoads(lost) PROVE RollupCounts'
  <2>1. Cardinality(lost) \in Nat
    BY RollupAssumption, FS_Subset, FS_CardinalityType
  <2>2. RUFail(Cardinality(lost)) /\ UNCHANGED <<ruBom, ruName, ruChanges, ruRuns>>
    BY <1>8 DEF RUVisits, RULoads
  <2> QED
    BY <1>2, <2>1, <2>2
<1>9. ASSUME NEW c \in RUVersions, NEW blank \in BOOLEAN, RUTargetFails(c, blank) PROVE RollupCounts'
  <2>1. (UNCHANGED ruFaults \/ RUFail(1)) /\ UNCHANGED <<ruBom, ruName, ruChanges, ruRuns>>
    BY <1>9 DEF RUTargetFails
  <2> QED
    BY <1>2, <2>1
<1>10. ASSUME NEW c \in RUVersions, NEW lost \in SUBSET {f.component : f \in RUFindings[c]},
              NEW unnamed \in SUBSET {f.component : f \in RUFindings[c]}, RUCollects(c, lost, unnamed)
       PROVE  RollupCounts'
  <2> DEFINE components == {f.component : f \in RUFindings[c]}
             named == [f \in RUFindings[c] |-> f.component]
  <2>1. IsFiniteSet(RUFindings[c])
    BY RollupAssumption
  <2>2. named \in Surjection(RUFindings[c], components)
    BY DEF Surjection
  <2> HIDE DEF named, components
  <2>3. IsFiniteSet(components)
    BY <2>1, <2>2, FS_Surjection
  <2>4. lost \in SUBSET components /\ unnamed \in SUBSET components
    BY DEF components
  <2>5. Cardinality(lost) \in Nat /\ Cardinality(unnamed) \in Nat
    BY <2>3, <2>4, FS_Subset, FS_CardinalityType
  <2>6. RUFail(Cardinality(lost) + Cardinality(unnamed)) /\ UNCHANGED <<ruBom, ruName, ruChanges, ruRuns>>
    BY <1>10 DEF RUCollects
  <2>7. Cardinality(lost) + Cardinality(unnamed) \in Nat
    BY <2>5
  <2> QED
    BY <1>2, <2>6, <2>7
<1> QED
  BY <1>3, <1>4, <1>5, <1>6, <1>7, <1>8, <1>9, <1>10 DEF RollupNext

\* A run that is over has nothing.
LEMMA NoRollupRefs == NoRollup.refs = {} /\ NoRollup.left = {} /\ NoRollup.failures = {} /\ NoRollup.due = {}
  BY DEF NoRollup

LEMMA RollupRefsStep ==
    ASSUME RollupInv, RollupRefs, [RollupNext]_ruVars
    PROVE  RollupRefs'
<1> USE DEF ruWorld, ruFiles, ruBounds
<1>0. /\ ruBom \subseteq RUVersions \X RUVersions /\ RollupTypes
      /\ ruRun.args.root \in RUVersions
      /\ RUEdges \subseteq RUVersions \X RUVersions /\ RUExtra \subseteq RUVersions \X RUVersions
  BY RollupAssumption DEF RollupInv, RollupTypes, RunShape
<1>shape. ruRun = [at |-> ruRun.at, args |-> ruRun.args, only |-> ruRun.only, held |-> ruRun.held,
               queue |-> ruRun.queue, refs |-> ruRun.refs, left |-> ruRun.left, blank |-> ruRun.blank,
               rows |-> ruRun.rows, failures |-> ruRun.failures, skipped |-> ruRun.skipped, due |-> ruRun.due]
  BY <1>0 DEF RollupTypes, RunShape
<1>1. ASSUME UNCHANGED <<ruCsv, ruReport>>, \A r \in ruRun'.refs : RefOfVersions(r), ruRun'.left \subseteq RUVersions,
             ruRun'.failures \cup ruRun'.due \subseteq RUVersions \X RUVersions
      PROVE  RollupRefs'
  BY <1>1 DEF RollupRefs
<1>2. ASSUME UNCHANGED <<ruCsv, ruReport>>, ruRun' = NoRollup PROVE RollupRefs'
  BY <1>1, <1>2, NoRollupRefs
<1>3. CASE RUAdds \/ RURenames \/ UNCHANGED ruVars
  BY <1>3 DEF RUAdds, RURenames, ruVars, RollupRefs
<1>4. CASE RURemoves
  <2>1. PICK e \in ruBom : ruRun' = [ruRun EXCEPT !.due = @ \ {e}]
    BY <1>4 DEF RURemoves
  <2>2. /\ ruRun'.refs = ruRun.refs /\ ruRun'.left = ruRun.left /\ ruRun'.failures = ruRun.failures
        /\ ruRun'.due \subseteq ruRun.due
    BY <1>shape, <2>1
  <2> QED
    BY <1>1, <1>4, <2>2 DEF RURemoves, RollupRefs
<1>5. CASE RURelists
  BY <1>0, <1>5, RollupListed DEF RURelists, RollupRefs
<1>6. CASE RUBegin
  <2>1. PICK a \in RUArgs, held \in {{}} \cup {{v} : v \in RUHeld}, only \in {{}} \cup {{f[2]} : f \in ruReport} :
          ruRun' = [NoRollup EXCEPT !.at = IF a.csv THEN "load" ELSE "walk",
                      !.args = a, !.only = only, !.held = held, !.due = ruBom,
                      !.queue = IF a.csv THEN <<>> ELSE << [version |-> a.root, path |-> <<>>] >>]
    BY <1>6 DEF RUBegin
  <2>2. ruRun'.refs = {} /\ ruRun'.left = {} /\ ruRun'.failures = {} /\ ruRun'.due = ruBom
    BY <2>1 DEF NoRollup
  <2> QED
    BY <1>0, <1>1, <1>6, <2>2 DEF RUBegin
<1>7. CASE RUWalked
  <2> DEFINE chosen == RUTargeted(ruRun.refs)
  <2>1. ruRun' = [ruRun EXCEPT !.at = "collect", !.queue = <<>>, !.refs = chosen, !.left = {r.child : r \in chosen}]
    BY <1>7 DEF RUWalked, RUCollecting
  <2>2. \A r \in chosen : RefOfVersions(r)
    BY DEF RUTargeted, RollupRefs
  <2> HIDE DEF chosen
  <2>3. /\ ruRun'.refs = chosen /\ ruRun'.left = {r.child : r \in chosen} /\ ruRun'.failures = ruRun.failures
        /\ ruRun'.due = ruRun.due
    BY <1>shape, <2>1
  <2>4. ruRun'.left \subseteq RUVersions
    BY <2>2, <2>3 DEF RefOfVersions
  <2>5. UNCHANGED <<ruCsv, ruReport>> /\ ruRun'.failures \cup ruRun'.due \subseteq RUVersions \X RUVersions
    BY <1>7, <2>3 DEF RUWalked, RollupRefs
  <2> QED
    BY <1>1, <2>2, <2>3, <2>4, <2>5
<1>8. CASE RUTooDeep \/ RUWritesFindings
  <2>1. \/ ruRun' = [ruRun EXCEPT !.queue = Tail(@)]
        \/ ruRun' = [ruRun EXCEPT !.at = "failures"]
    BY <1>8 DEF RUTooDeep, RUWritesFindings
  <2>2. /\ ruRun'.refs = ruRun.refs /\ ruRun'.left = ruRun.left /\ ruRun'.failures = ruRun.failures
        /\ ruRun'.due = ruRun.due
    BY <1>shape, <2>1
  <2> QED
    BY <1>1, <1>8, <2>2 DEF RUTooDeep, RUWritesFindings, RollupRefs
<1>9. CASE RUWritesFailures
  <2>1. ruRun' = [ruRun EXCEPT !.at = "plan"] /\ ruReport' \in {ruReport, ruRun.failures} /\ ruCsv' = ruCsv
    BY <1>9 DEF RUWritesFailures
  <2>2. /\ ruRun'.refs = ruRun.refs /\ ruRun'.left = ruRun.left /\ ruRun'.failures = ruRun.failures
        /\ ruRun'.due = ruRun.due
    BY <1>shape, <2>1
  <2> QED
    BY <2>1, <2>2 DEF RollupRefs
<1>10. CASE RUDies \/ RUPlan
  BY <1>2, <1>10 DEF RUDies, RUPlan
<1>11. ASSUME NEW lost \in SUBSET RUVersions, RUVisits(lost) PROVE RollupRefs'
  <2> DEFINE node == Head(ruRun.queue)
             root == ruRun.args.root
             known == {root} \cup {r.child : r \in ruRun.refs}
             found == RUDirect(node.version, ruRun.args.resolve) \ (lost \cup known)
             path(c) == Append(node.path, <<c, ruName[c]>>)
             new == {RURef(root, ruName[root], FALSE, c, path(c)) : c \in found}
             skips == {<<node.version, c>> : c \in lost}
  <2>1. PICK seq \in RUInOrder(found) :
          ruRun' = [ruRun EXCEPT
             !.queue = Tail(@) \o [i \in DOMAIN seq |-> [version |-> seq[i], path |-> path(seq[i])]],
             !.refs = @ \cup new, !.skipped = @ \cup skips]
    BY <1>11 DEF RUVisits
  <2>2. found \subseteq RUVersions
    BY DEF RUDirect
  <2>3. \A r \in new : RefOfVersions(r)
    <3> HIDE DEF found, root
    <3>1. root \in RUVersions
      BY <1>0 DEF root
    <3> QED
      BY <2>2, <3>1 DEF RefOfVersions, RURef
  <2> DEFINE queue == Tail(ruRun.queue) \o [i \in DOMAIN seq |-> [version |-> seq[i], path |-> path(seq[i])]]
  <2>4. ruRun' = [ruRun EXCEPT !.queue = queue, !.refs = ruRun.refs \cup new, !.skipped = ruRun.skipped \cup skips]
    BY <2>1
  <2> HIDE DEF queue, new, skips
  <2>5. /\ ruRun'.refs = ruRun.refs \cup new /\ ruRun'.left = ruRun.left /\ ruRun'.failures = ruRun.failures
        /\ ruRun'.due = ruRun.due
    BY <1>shape, <2>4
  <2> QED
    BY <1>1, <1>11, <2>3, <2>5 DEF RUVisits, RollupRefs
<1>12. ASSUME NEW lost \in SUBSET RUVersions, RULoads(lost) PROVE RollupRefs'
  <2> DEFINE unread == {r \in RUStubs : r.child \in lost}
             chosen == RUTargeted(RUStubs \ unread)
             left == {r.child : r \in chosen}
             failures == {<<r.parent, r.child>> : r \in unread}
  <2>1. ruRun' = [ruRun EXCEPT !.at = "collect", !.refs = chosen, !.left = left, !.failures = failures]
    BY <1>12 DEF RULoads
  <2>2. /\ \A r \in chosen : RefOfVersions(r)
        /\ \A r \in unread : RefOfVersions(r)
    BY DEF RUTargeted, RUStubs, RollupRefs
  <2> HIDE DEF chosen, unread
  <2>3. left \subseteq RUVersions /\ failures \subseteq RUVersions \X RUVersions
    BY <2>2 DEF RefOfVersions
  <2> HIDE DEF left, failures
  <2>4. ruRun'.refs = chosen /\ ruRun'.left = left /\ ruRun'.failures = failures /\ ruRun'.due = ruRun.due
    BY <1>shape, <2>1
  <2> QED
    BY <1>1, <1>12, <2>2, <2>3, <2>4 DEF RULoads, RollupRefs
<1>13. ASSUME NEW c \in RUVersions
       PROVE  RUFailed(c) \subseteq RUVersions \X RUVersions
  BY DEF RUFailed, RUContexts, RollupRefs, RefOfVersions
<1>14. ASSUME NEW c \in RUVersions, NEW blank \in BOOLEAN, RUTargetFails(c, blank) PROVE RollupRefs'
  <2> DEFINE blanks == IF blank THEN ruRun.blank \cup {RUProjectOf[c]} ELSE ruRun.blank
  <2>1. ruRun' = [ruRun EXCEPT !.left = ruRun.left \ {c}, !.failures = ruRun.failures \cup RUFailed(c), !.blank = blanks]
    BY <1>14 DEF RUTargetFails
  <2> HIDE DEF blanks
  <2>2. /\ ruRun'.refs = ruRun.refs /\ ruRun'.left = ruRun.left \ {c}
        /\ ruRun'.failures = ruRun.failures \cup RUFailed(c) /\ ruRun'.due = ruRun.due
    BY <1>shape, <2>1
  <2> QED
    BY <1>1, <1>13, <1>14, <2>2 DEF RUTargetFails, RollupRefs
<1>15. ASSUME NEW c \in RUVersions, NEW lost, NEW unnamed, RUCollects(c, lost, unnamed) PROVE RollupRefs'
  <2> DEFINE rows == ruRun.rows \cup RURows(c, RURead(c, lost), unnamed)
             failures == IF lost = {} THEN ruRun.failures ELSE ruRun.failures \cup RUFailed(c)
  <2>1. ruRun' = [ruRun EXCEPT !.left = ruRun.left \ {c}, !.rows = rows, !.failures = failures]
    BY <1>15 DEF RUCollects
  <2>2. failures \subseteq RUVersions \X RUVersions
    BY <1>13 DEF RollupRefs
  <2> HIDE DEF rows, failures
  <2>3. /\ ruRun'.refs = ruRun.refs /\ ruRun'.left = ruRun.left \ {c}
        /\ ruRun'.failures = failures /\ ruRun'.due = ruRun.due
    BY <1>shape, <2>1
  <2> QED
    BY <1>1, <1>15, <2>2, <2>3 DEF RUCollects, RollupRefs
<1> QED
  BY <1>3, <1>4, <1>5, <1>6, <1>7, <1>8, <1>9, <1>10, <1>11, <1>12, <1>14, <1>15 DEF RollupNext

(* A roll-up of subprojects deals in versions that exist: every            *)
(* relationship of a run, of its file and of its report is between two of  *)
(* them (walk_subprojects, BlackDuckTargetCollector.collect).              *)
THEOREM RollupWellTyped == RollupSpec => []RollupTypeOK
<1>1. RollupInv /\ RollupCounts /\ RollupRefs => RollupTypeOK
  <2> SUFFICES ASSUME RollupInv, RollupCounts, RollupRefs PROVE RollupTypeOK
    OBVIOUS
  <2>1. ruName \in [RUVersions -> Nat] /\ RunShape(ruRun)
    BY DEF RollupInv, RollupTypes
  <2>2. \A v \in RUVersions : ruName[v] \in 0 .. RUMaxChanges
    BY <2>1, RollupAssumption DEF RollupCounts
  <2>3. ruName \in [RUVersions -> 0 .. RUMaxChanges]
    BY <2>1, <2>2
  <2>4. ruRun.at \in RUStages /\ ruRun.args \in RUArgs
    BY <2>1 DEF RunShape
  <2> QED
    BY <2>3, <2>4 DEF RollupCounts, RollupRefs, RollupTypeOK
<1> QED
  BY <1>1, RollupInitInv, RollupInvStep, RollupTypesInit, RollupCountsStep, RollupRefsStep, PTL DEF RollupSpec

-----------------------------------------------------------------------------
(* Side by side the publishers make nothing twice without a reason: not an *)
(* issue of a hierarchy or of a product report, and not a node of a plan   *)
(* (findings_to_jira.py, product_publish.py, findings_hierarchy_plan.py).  *)
THEOREM PublishOnce == JiraSpec /\ ProductSpec /\ RollupSpec => []NothingPublishedTwice
BY JiraDuplicatesHaveReasons, ProductPublishesOnce, RollupPlansOnce, PTL DEF NothingPublishedTwice
=============================================================================
