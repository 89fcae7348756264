----------------------- MODULE CohortLifecycleProofs ------------------------
(* Theorems about CohortLifecycle, for any number of workflows and any     *)
(* number of destinations.                                                 *)
EXTENDS CohortLifecycle, FiniteSetTheorems, TLAPS

(* Every position of LoadOrder names a file a published cohort has. *)
LEMMA LoadOrderType ==
    /\ Len(LoadOrder) = 4
    /\ \A k \in 1..4 : LoadOrder[k] \in Needed
  BY DEF LoadOrder, Needed, Artifacts

LEMMA ReaderType ==
    /\ \A r \in Readers : r[1] \in Ids /\ r[2] \in 1..Destinations /\ r = <<r[1], r[2]>>
    /\ \A c \in Ids, d \in 1..Destinations : <<c, d>> \in Readers
  BY DEF Readers

(* The tasks of a reader change nothing but its position and its status. *)
LEMMA ConsumerType ==
    ASSUME TypeOK, NEW r \in Readers, Consume(r) \/ Replays(r) \/ ConsumerDies(r)
    PROVE  TypeOK'
<1> USE CohortAssumption, LoadOrderType DEF TypeOK, store, finalizer, Ended, BeginLoad, StatusBecomes
<1>1. CASE Starts(r)
  BY <1>1 DEF Starts
<1>2. CASE Loads(r)
  BY <1>2 DEF Loads
<1>3. CASE Refuses(r)
  BY <1>3 DEF Refuses
<1>4. CASE Delivers(r)
  BY <1>4 DEF Delivers
<1>5. CASE Replays(r)
  BY <1>5 DEF Replays
<1>6. CASE ConsumerDies(r)
  BY <1>6 DEF ConsumerDies
<1> QED
  BY <1>1, <1>2, <1>3, <1>4, <1>5, <1>6 DEF Consume

LEMMA SourceType ==
    ASSUME TypeOK, NEW c \in Ids,
           Write(c) \/ Rejects(c) \/ SourceFails(c) \/ SourceReplays(c) \/ Modify(c)
    PROVE  TypeOK'
<1> USE CohortAssumption, LoadOrderType
        DEF TypeOK, store, consumers, finalizer, Files, Artifacts
<1>1. CASE Stages(c) \/ SourceReplays(c)
  BY <1>1 DEF Stages, SourceReplays, Source, Writes
<1>2. CASE Renames(c)
  BY <1>2 DEF Renames, Source
<1>3. CASE MarksReady(c)
  BY <1>3 DEF MarksReady, Source
<1>4. CASE Rejects(c)
  BY <1>4 DEF Rejects, Source
<1>5. CASE SourceFails(c)
  BY <1>5 DEF SourceFails, Source
<1>6. CASE Modify(c)
  BY <1>6 DEF Modify
<1> QED
  BY <1>1, <1>2, <1>3, <1>4, <1>5, <1>6 DEF Write

LEMMA FinalizerType ==
    ASSUME TypeOK, NEW c \in Ids, Finalize(c) \/ FinalizerReplays(c) \/ FinalizerDies(c)
    PROVE  TypeOK'
<1> USE CohortAssumption, LoadOrderType
        DEF TypeOK, consumers, Finalizer, Files, Artifacts, Forgets
<1>1. CASE FinalizerStarts(c)
  BY <1>1 DEF FinalizerStarts
<1>2. CASE MarksComplete(c)
  BY <1>2 DEF MarksComplete
<1>3. CASE Lists(c)
  BY <1>3 DEF Lists, Beyond, Listed
<1>4. CASE BeginsRemoval(c)
  BY <1>4 DEF BeginsRemoval
<1>5. CASE RemovesFile(c)
  BY <1>5 DEF RemovesFile
<1>6. CASE RemovesDirectory(c)
  BY <1>6 DEF RemovesDirectory
<1>7. CASE FinalizerFails(c)
  BY <1>7 DEF FinalizerFails
<1>8. CASE Finishes(c)
  BY <1>8 DEF Finishes
<1>9. CASE FinalizerReplays(c)
  BY <1>9 DEF FinalizerReplays
<1>10. CASE FinalizerDies(c)
  BY <1>10 DEF FinalizerDies
<1> QED
  BY <1>1, <1>2, <1>3, <1>4, <1>5, <1>6, <1>7, <1>8, <1>9, <1>10 DEF Finalize

(* Every variable stays in its type, whatever fails and whatever is run    *)
(* again by hand.                                                          *)
THEOREM TypeCorrect == Spec => []TypeOK
<1>1. Init => TypeOK
  BY CohortAssumption, LoadOrderType DEF Init, TypeOK
<1>2. TypeOK /\ [Next]_vars => TypeOK'
  <2> SUFFICES ASSUME TypeOK, [Next]_vars PROVE TypeOK'
    OBVIOUS
  <2>1. CASE UNCHANGED vars
    BY <2>1 DEF vars, TypeOK, store, consumers, finalizer
  <2>2. ASSUME NEW c \in Ids, Write(c) \/ Finalize(c) \/ Disturb(c) PROVE TypeOK'
    BY <2>2, SourceType, FinalizerType DEF Disturb
  <2>3. ASSUME NEW r \in Readers, Consume(r) \/ Replays(r) \/ ConsumerDies(r) PROVE TypeOK'
    BY <2>3, ConsumerType
  <2> QED
    BY <2>1, <2>2, <2>3 DEF Next
<1> QED
  BY <1>1, <1>2, PTL DEF Spec

-----------------------------------------------------------------------------
(* Retention.  What a finalizer removes was complete, and had Retain newer *)
(* complete cohorts, when it listed them; neither ever ceases to hold.     *)

(* A cohort that may be removed. *)
Expendable(c) == Cardinality(NewerIn(completed, c)) >= Retain

VictimsExpendable == \A c \in Ids : \A v \in victims[c] : v \in completed /\ Expendable(v)

KeptOrExpendable == \A c \in completed : dir[c] = Files \/ Expendable(c)

(* The markers in a directory, and the tasks that are over by then. *)
MarkersInOrder ==
    /\ \A c \in Ids : "COMPLETE" \in dir[c] => c \in completed
    /\ \A c \in Ids : "READY" \in dir[c] => source[c] \in Published
    /\ \A c \in Ids : source[c] = "renamed" => Artifacts \subseteq dir[c]
    /\ \A c \in Ids : source[c] \in Published /\ c \notin completed => Needed \subseteq dir[c]
    /\ \A c \in Ids : c \in completed \/ fin[c] = "loaded" =>
         source[c] \in Published /\ DestinationsEnded(c, 1..Destinations)

RetentionInv == VictimsExpendable /\ KeptOrExpendable /\ MarkersInOrder

LEMMA NewerGrows ==
    ASSUME NEW S, NEW T \in SUBSET Ids, S \subseteq T, NEW c
    PROVE  /\ Cardinality(NewerIn(S, c)) \in Nat /\ Cardinality(NewerIn(T, c)) \in Nat
           /\ Cardinality(NewerIn(S, c)) <= Cardinality(NewerIn(T, c))
<1>1. IsFiniteSet(Ids)
  BY CohortAssumption, FS_Interval DEF Ids
<1>2. IsFiniteSet(NewerIn(T, c))
  BY <1>1, FS_Subset DEF NewerIn
<1>3. NewerIn(S, c) \subseteq NewerIn(T, c)
  BY DEF NewerIn
<1> QED
  BY <1>2, <1>3, FS_Subset, FS_CardinalityType

LEMMA NewerCounted == \A S \in SUBSET Ids : \A c : Cardinality(NewerIn(S, c)) \in Nat
  BY NewerGrows

(* Nothing that was complete becomes less so, or younger. *)
LEMMA CompletedStays ==
    ASSUME TypeOK, MarkersInOrder, [Next]_vars
    PROVE  completed \subseteq completed' /\ \A c \in completed : created'[c] = created[c]
<1> USE DEF TypeOK, MarkersInOrder, store
<1>1. CASE UNCHANGED vars
  BY <1>1 DEF vars
<1>2. ASSUME NEW c \in Ids, Write(c) \/ Rejects(c) \/ SourceFails(c) \/ SourceReplays(c)
      PROVE  completed \subseteq completed' /\ \A o \in completed : created'[o] = created[o]
  BY <1>2 DEF Write, Rejects, SourceFails, SourceReplays, Source, Writes, Stages, Renames, MarksReady,
              Published
<1>3. ASSUME NEW c \in Ids, Finalize(c) \/ FinalizerReplays(c) \/ FinalizerDies(c) \/ Modify(c)
      PROVE  completed \subseteq completed' /\ created' = created
  BY <1>3 DEF Finalize, FinalizerStarts, MarksComplete, Lists, BeginsRemoval, RemovesFile,
              RemovesDirectory, FinalizerFails, Finishes, FinalizerReplays, FinalizerDies,
              Modify, Finalizer, Forgets
<1>4. ASSUME NEW r \in Readers, Consume(r) \/ Replays(r) \/ ConsumerDies(r)
      PROVE  completed' = completed /\ created' = created
  BY <1>4 DEF Consume, Starts, Loads, Refuses, Delivers, Replays, ConsumerDies, BeginLoad
<1> QED
  BY <1>1, <1>2, <1>3, <1>4 DEF Next, Disturb

LEMMA ExpendableStays ==
    ASSUME TypeOK, TypeOK', MarkersInOrder, [Next]_vars,
           NEW v \in completed, Expendable(v)
    PROVE  Expendable(v)'
<1>1. NewerIn(completed, v) \subseteq NewerIn(completed, v)'
  BY CompletedStays DEF NewerIn, Newer, TypeOK
<1>2. IsFiniteSet(NewerIn(completed, v)') /\ IsFiniteSet(NewerIn(completed, v))
  <2>1. IsFiniteSet(Ids)
    BY CohortAssumption, FS_Interval DEF Ids
  <2> QED
    BY <2>1, FS_Subset DEF NewerIn, TypeOK
<1>3. Cardinality(NewerIn(completed, v)) <= Cardinality(NewerIn(completed, v)')
  BY <1>1, <1>2, FS_Subset
<1> QED
  BY <1>2, <1>3, FS_CardinalityType, CohortAssumption DEF Expendable

(* The statuses of tasks that are over do not change. *)
LEMMA EndedStays ==
    ASSUME TypeOK, [Next]_vars, NEW c \in Ids, DestinationsEnded(c, 1..Destinations)
    PROVE  DestinationsEnded(c, 1..Destinations)'
<1> USE DEF TypeOK, DestinationsEnded, Ended
<1>1. CASE status' = status
  BY <1>1
<1>2. ASSUME NEW r \in Readers, Consume(r) \/ Replays(r) \/ ConsumerDies(r)
      PROVE  \A q \in Readers : status[q] \in Ended \cup {"skipped"} => status'[q] = status[q]
  BY <1>2 DEF Consume, Starts, Loads, Refuses, Delivers, Replays, ConsumerDies, StatusBecomes
<1>3. ASSUME NEW o \in Ids, Write(o) \/ Finalize(o) \/ Disturb(o) PROVE status' = status
  BY <1>3 DEF Write, Stages, Renames, MarksReady, Source, Finalize, FinalizerStarts, MarksComplete,
              Lists, BeginsRemoval, RemovesFile, RemovesDirectory, FinalizerFails, Finishes,
              Disturb, Rejects, SourceFails, SourceReplays, FinalizerReplays, FinalizerDies, Modify,
              Finalizer, consumers
<1> QED
  BY <1>1, <1>2, <1>3, ReaderType DEF Next, vars, consumers

(* What the finalizers do to the markers, the victims and the files. *)
LEMMA FinalizerRetains ==
    ASSUME TypeOK, TypeOK', RetentionInv, [Next]_vars,
           NEW c \in Ids, Finalize(c) \/ FinalizerReplays(c) \/ FinalizerDies(c)
    PROVE  RetentionInv'
<1>0. /\ \A v \in completed : Expendable(v) => Expendable(v)'
      /\ \A o \in Ids : DestinationsEnded(o, 1..Destinations)
            => DestinationsEnded(o, 1..Destinations)'
  BY ExpendableStays, EndedStays DEF RetentionInv
<1> USE <1>0 DEF RetentionInv, VictimsExpendable, KeptOrExpendable, MarkersInOrder, TypeOK, Finalizer,
             Files, Needed, Artifacts, Forgets
<1>1. CASE FinalizerStarts(c)
  BY <1>1 DEF FinalizerStarts, MayFinalize, Loadable, Published
<1>2. CASE MarksComplete(c)
  BY <1>2 DEF MarksComplete
<1>3. CASE Lists(c)
  <2>1. \A v \in Beyond(Listed) : v \in completed /\ Expendable(v)
    <3> SUFFICES ASSUME NEW v \in Beyond(Listed) PROVE v \in completed /\ Expendable(v)
      OBVIOUS
    <3>1. Listed \subseteq completed /\ v \in Listed /\ Cardinality(NewerIn(Listed, v)) >= Retain
      BY DEF Beyond, Listed
    <3>2. /\ Cardinality(NewerIn(Listed, v)) \in Nat /\ Cardinality(NewerIn(completed, v)) \in Nat
          /\ Cardinality(NewerIn(Listed, v)) <= Cardinality(NewerIn(completed, v))
      BY <3>1, NewerGrows
    <3> QED
      BY <3>1, <3>2, CohortAssumption DEF Expendable
  <2> QED
    BY <1>3, <2>1 DEF Lists
<1>4. CASE BeginsRemoval(c)
  BY <1>4 DEF BeginsRemoval
<1>5. CASE RemovesFile(c)
  <2>1. PICK v \in Ids, f \in entries[c] : Victim(c, v) /\ dir' = [dir EXCEPT ![v] = @ \ {f}]
    BY <1>5 DEF RemovesFile
  <2>2. /\ v \in completed /\ Expendable(v)
        /\ \A o \in Ids : dir'[o] \subseteq dir[o] /\ (o # v => dir'[o] = dir[o])
        /\ UNCHANGED <<completed, source, fin, victims>>
    BY <1>5, <2>1 DEF RemovesFile, Victim
  <2>3. source[v] # "renamed"
    BY <2>2 DEF Published
  <2>4. VictimsExpendable'
    BY <2>2
  <2>5. KeptOrExpendable'
    BY <2>2
  <2>6. MarkersInOrder'
    <3>1. \A o \in Ids : /\ "COMPLETE" \in dir'[o] => o \in completed'
                         /\ "READY" \in dir'[o] => source'[o] \in Published
      BY <2>2
    <3>2. ASSUME NEW o \in Ids, source'[o] = "renamed" PROVE Artifacts \subseteq dir'[o]
      <4>1. source[o] = "renamed" /\ dir'[o] = dir[o]
        BY <2>2, <2>3, <3>2
      <4> QED
        BY <4>1
    <3>3. ASSUME NEW o \in Ids, source'[o] \in Published, o \notin completed'
          PROVE  Needed \subseteq dir'[o]
      <4>1. source[o] \in Published /\ o \notin completed /\ dir'[o] = dir[o]
        BY <2>2, <3>3
      <4> QED
        BY <4>1
    <3>4. \A o \in Ids : o \in completed' \/ fin'[o] = "loaded" =>
            source'[o] \in Published /\ DestinationsEnded(o, 1..Destinations)'
      BY <2>2
    <3> QED
      BY <3>1, <3>2, <3>3, <3>4
  <2> QED
    BY <2>4, <2>5, <2>6
<1>6. CASE RemovesDirectory(c)
  BY <1>6 DEF RemovesDirectory
<1>7. CASE FinalizerFails(c)
  BY <1>7 DEF FinalizerFails
<1>8. CASE Finishes(c)
  BY <1>8 DEF Finishes
<1>9. CASE FinalizerReplays(c)
  BY <1>9 DEF FinalizerReplays, MayFinalize, Loadable, store
<1>10. CASE FinalizerDies(c)
  BY <1>10 DEF FinalizerDies
<1> QED
  BY <1>1, <1>2, <1>3, <1>4, <1>5, <1>6, <1>7, <1>8, <1>9, <1>10 DEF Finalize

LEMMA SourceRetains ==
    ASSUME TypeOK, TypeOK', RetentionInv, [Next]_vars, NEW c \in Ids,
           Write(c) \/ Rejects(c) \/ SourceFails(c) \/ SourceReplays(c) \/ Modify(c)
    PROVE  RetentionInv'
<1>0. /\ \A v \in completed : Expendable(v) => Expendable(v)'
      /\ \A o \in Ids : DestinationsEnded(o, 1..Destinations)
            => DestinationsEnded(o, 1..Destinations)'
  BY ExpendableStays, EndedStays DEF RetentionInv
<1> USE <1>0 DEF RetentionInv, VictimsExpendable, KeptOrExpendable, MarkersInOrder, TypeOK,
             Files, Needed, Artifacts, finalizer, store, Source
<1>a. ASSUME UNCHANGED <<dir, completed, victims, fin>>,
             \A o \in Ids : /\ source'[o] \in Published <=> source[o] \in Published
                            /\ source'[o] = "renamed" => source[o] = "renamed"
      PROVE  RetentionInv'
  BY <1>a
<1>b. ASSUME NEW to \in Published, Source(c, "renamed", to), UNCHANGED completed,
             dir' = [dir EXCEPT ![c] = @ \cup {"READY"}]
      PROVE  RetentionInv'
  BY <1>b DEF Published
<1>1. CASE Stages(c) \/ SourceReplays(c)
  <2>1. UNCHANGED <<dir, completed, victims, fin>>
    BY <1>1 DEF Stages, SourceReplays, Writes
  <2>2. source[c] \in {"idle", "failed"} /\ source' = [source EXCEPT ![c] = "staged"]
    BY <1>1 DEF Stages, SourceReplays
  <2> QED
    BY <1>a, <2>1, <2>2 DEF Published
<1>2. CASE Renames(c)
  BY <1>2 DEF Renames, Published
<1>3. CASE MarksReady(c)
  BY <1>3, <1>b DEF MarksReady, Published
<1>4. CASE Rejects(c)
  BY <1>4, <1>a DEF Rejects, Published
<1>5. CASE SourceFails(c)
  <2>1. CASE Source(c, "renamed", "orphaned")
    <3>1. /\ "orphaned" \in Published /\ UNCHANGED completed
          /\ dir' = [dir EXCEPT ![c] = @ \cup {"READY"}]
      BY <1>5, <2>1 DEF SourceFails, Published
    <3> QED
      BY <1>b, <2>1, <3>1
  <2>2. CASE ~Source(c, "renamed", "orphaned")
    <3>1. /\ source[c] \in {"staged", "renamed"} /\ source' = [source EXCEPT ![c] = "failed"]
          /\ UNCHANGED <<dir, completed, victims, fin>>
      BY <1>5, <2>2 DEF SourceFails
    <3> QED
      BY <1>a, <3>1 DEF Published
  <2> QED
    BY <2>1, <2>2
<1>6. CASE Modify(c)
  BY <1>6 DEF Modify
<1> QED
  BY <1>1, <1>2, <1>3, <1>4, <1>5, <1>6 DEF Write

LEMMA RetentionStep == TypeOK /\ TypeOK' /\ RetentionInv /\ [Next]_vars => RetentionInv'
<1> SUFFICES ASSUME TypeOK, TypeOK', RetentionInv, [Next]_vars PROVE RetentionInv'
  OBVIOUS
<1>1. CASE UNCHANGED <<completed, created, dir, victims, source, fin>>
  <2>1. /\ \A v \in completed : Expendable(v) => Expendable(v)'
        /\ \A o \in Ids : DestinationsEnded(o, 1..Destinations)
              => DestinationsEnded(o, 1..Destinations)'
    BY ExpendableStays, EndedStays DEF RetentionInv
  <2> QED
    BY <1>1, <2>1 DEF RetentionInv, VictimsExpendable, KeptOrExpendable, MarkersInOrder, TypeOK
<1>2. ASSUME NEW c \in Ids, Write(c) \/ Finalize(c) \/ Disturb(c) PROVE RetentionInv'
  BY <1>2, SourceRetains, FinalizerRetains DEF Disturb
<1>3. ASSUME NEW r \in Readers, Consume(r) \/ Replays(r) \/ ConsumerDies(r)
      PROVE  UNCHANGED <<completed, created, dir, victims, source, fin>>
  BY <1>3 DEF Consume, Starts, Loads, Refuses, Delivers, Replays, ConsumerDies, BeginLoad,
              store, finalizer
<1> QED
  BY <1>1, <1>2, <1>3 DEF Next, vars, store, finalizer

LEMMA RetentionInvariant == Spec => [](TypeOK /\ RetentionInv)
<1>1. Init => RetentionInv
  BY DEF Init, RetentionInv, VictimsExpendable, KeptOrExpendable, MarkersInOrder, Published
<1> QED
  BY <1>1, RetentionStep, TypeCorrect, PTL DEF Spec

(* However many finalizers prune at once, and wherever they stop, the      *)
(* newest Retain of the completed cohorts keep every file.                 *)
THEOREM Retained == Spec => []NewestSurvive
<1>1. TypeOK /\ RetentionInv => NewestSurvive
  <2> SUFFICES ASSUME TypeOK, RetentionInv PROVE NewestSurvive
    OBVIOUS
  <2>1. \A c \in completed : Cardinality(NewerIn(completed, c)) \in Nat
    BY NewerCounted DEF TypeOK
  <2>2. \A c \in completed : Expendable(c) \/ dir[c] = Files
    BY DEF RetentionInv, KeptOrExpendable
  <2> QED
    BY <2>1, <2>2, CohortAssumption DEF Expendable, NewestSurvive
<1> QED
  BY <1>1, RetentionInvariant, PTL

(* A cohort that a destination has still to process keeps its files. *)
THEOREM UnfinishedKept == Spec => []UnfinishedSurvives
<1>1. RetentionInv => UnfinishedSurvives
  BY DEF RetentionInv, MarkersInOrder, UnfinishedSurvives, Unfinished
<1> QED
  BY <1>1, RetentionInvariant, PTL

-----------------------------------------------------------------------------
(* Service.  A task that runs is working on a cohort that is not finished, *)
(* and therefore whole: nothing but its contents can stand in its way.     *)

TasksFollowSource ==
    \A r \in Readers : status[r] \in Ended \cup {"running"} => source[r[1]] = "written"

ServiceInv == TasksFollowSource /\ RefusedForContents

LEMMA RefusalStep ==
    ASSUME TypeOK, RetentionInv, ServiceInv, NEW r \in Readers, Refuses(r)
    PROVE  ServiceInv'
<1> USE ReaderType DEF TypeOK, ServiceInv, TasksFollowSource, RefusedForContents
<1>1. CASE status[r] = "running"
  <2>1. Unfinished(r[1])
    BY <1>1 DEF Unfinished, DestinationsEnded, Ended, Published
  <2>2. Needed \subseteq dir[r[1]]
    BY <2>1 DEF RetentionInv, MarkersInOrder, Unfinished
  <2>3. at[r] \in 1..4 /\ LoadOrder[at[r]] \in Needed
    BY LoadOrderType DEF Refuses
  <2>4. r[1] \in partial \cup modified
    BY <2>2, <2>3 DEF Refuses, Readable
  <2> QED
    BY <1>1, <2>4 DEF Refuses, StatusBecomes, store, Ended
<1>2. CASE status[r] # "running"
  BY <1>2 DEF Refuses, StatusBecomes, store, Ended
<1> QED
  BY <1>1, <1>2

LEMMA ServiceStep == TypeOK /\ RetentionInv /\ ServiceInv /\ [Next]_vars => ServiceInv'
<1> SUFFICES ASSUME TypeOK, RetentionInv, ServiceInv, [Next]_vars PROVE ServiceInv'
  OBVIOUS
<1> USE ReaderType DEF TypeOK, ServiceInv, TasksFollowSource, RefusedForContents
<1>1. CASE UNCHANGED vars
  BY <1>1 DEF vars, store, consumers
<1>2. ASSUME NEW c \in Ids, Write(c) \/ Rejects(c) \/ SourceFails(c) \/ SourceReplays(c) \/ Modify(c)
      PROVE  ServiceInv'
  <2>1. CASE Stages(c) \/ SourceReplays(c)
    BY <2>1 DEF Stages, SourceReplays, Writes, Source, consumers, Ended
  <2>2. CASE Renames(c) \/ MarksReady(c) \/ Rejects(c) \/ SourceFails(c)
    BY <2>2 DEF Renames, MarksReady, Rejects, SourceFails, Source, consumers, store, Ended
  <2>3. CASE Modify(c)
    BY <2>3 DEF Modify, consumers
  <2> QED
    BY <1>2, <2>1, <2>2, <2>3 DEF Write
<1>3. ASSUME NEW c \in Ids, Finalize(c) \/ FinalizerReplays(c) \/ FinalizerDies(c)
      PROVE  ServiceInv'
  <2>1. UNCHANGED <<source, status, partial, modified>>
    BY <1>3 DEF Finalize, FinalizerStarts, MarksComplete, Lists, BeginsRemoval, RemovesFile,
                RemovesDirectory, FinalizerFails, Finishes, FinalizerReplays, FinalizerDies,
                Finalizer, consumers
  <2> QED
    BY <2>1
<1>4. ASSUME NEW r \in Readers, Consume(r) \/ Replays(r) \/ ConsumerDies(r) PROVE ServiceInv'
  <2>1. CASE Starts(r) \/ Loads(r) \/ Replays(r)
    BY <2>1 DEF Starts, Loads, Replays, BeginLoad, store, Ended
  <2>2. CASE Refuses(r)
    BY <2>2, RefusalStep
  <2>3. CASE Delivers(r) \/ ConsumerDies(r)
    BY <2>3 DEF Delivers, ConsumerDies, StatusBecomes, store, Ended
  <2> QED
    BY <1>4, <2>1, <2>2, <2>3 DEF Consume
<1> QED
  BY <1>1, <1>2, <1>3, <1>4 DEF Next, Disturb

(* No overlapping workflow, crash or repeated finalizer makes a destination *)
(* task miss its cohort: a refusal always has its reason in the contents.   *)
THEOREM Served == Spec => []RefusedForContents
<1>1. Init => ServiceInv
  BY DEF Init, ServiceInv, TasksFollowSource, RefusedForContents, Ended
<1> QED
  BY <1>1, ServiceStep, RetentionInvariant, PTL DEF Spec, ServiceInv
-----------------------------------------------------------------------------
(* What is delivered was verified.                                         *)

(* Past the marker the cohort is published for good; past the verification *)
(* the load began before any modification.                                 *)
LoadInv ==
    /\ \A r \in Readers : at[r] > 1 => source[r[1]] \in Published
    /\ \A r \in Readers : at[r] > 0 => r \in clean \/ r[1] \in modified
    /\ \A r \in Readers : at[r] > Verification => r \in clean

LEMMA LoadStep == TypeOK /\ RetentionInv /\ LoadInv /\ [Next]_vars => LoadInv'
<1> SUFFICES ASSUME TypeOK, RetentionInv, LoadInv, [Next]_vars PROVE LoadInv'
  OBVIOUS
<1> USE ReaderType, LoadOrderType DEF TypeOK, LoadInv, Verification
<1>1. CASE UNCHANGED vars
  BY <1>1 DEF vars, store, consumers
<1>2. ASSUME NEW c \in Ids, Write(c) \/ Rejects(c) \/ SourceFails(c) \/ SourceReplays(c)
      PROVE  LoadInv'
  <2>1. /\ UNCHANGED <<at, clean, modified>> /\ source[c] \notin Published
        /\ \A o \in Ids \ {c} : source'[o] = source[o]
    BY <1>2 DEF Write, Rejects, SourceFails, SourceReplays, Source, Writes, Stages, Renames, MarksReady,
                consumers, store, Published
  <2> QED
    BY <2>1
<1>3. ASSUME NEW c \in Ids, Finalize(c) \/ FinalizerReplays(c) \/ FinalizerDies(c) \/ Modify(c)
      PROVE  LoadInv'
  <2>1. UNCHANGED <<at, clean, source>> /\ modified \subseteq modified'
    BY <1>3 DEF Finalize, FinalizerStarts, MarksComplete, Lists, BeginsRemoval, RemovesFile,
                RemovesDirectory, FinalizerFails, Finishes, FinalizerReplays, FinalizerDies,
                Finalizer, Modify, consumers
  <2> QED
    BY <2>1
<1>4. ASSUME NEW r \in Readers, Starts(r) \/ Replays(r) PROVE LoadInv'
  <2>1. /\ at' = [at EXCEPT ![r] = 1] /\ UNCHANGED <<source, modified>>
        /\ clean' = IF r[1] \in modified THEN clean \ {r} ELSE clean \cup {r}
    BY <1>4 DEF Starts, Replays, BeginLoad, store
  <2>2. /\ \A q \in Readers \ {r} : at'[q] = at[q] /\ (q \in clean' <=> q \in clean)
        /\ at'[r] = 1 /\ (r \in clean' \/ r[1] \in modified)
    BY <2>1
  <2> QED
    BY <2>1, <2>2
<1>5. ASSUME NEW r \in Readers, Loads(r) PROVE LoadInv'
  <2>1. /\ at[r] \in 1..3 /\ at' = [at EXCEPT ![r] = at[r] + 1]
        /\ UNCHANGED <<source, clean, modified>>
    BY <1>5 DEF Loads, store
  <2>2. at[r] = 1 => source[r[1]] \in Published
    <3>1. at[r] = 1 => "READY" \in dir[r[1]]
      BY <1>5 DEF Loads, Readable, LoadOrder
    <3> QED
      BY <3>1 DEF RetentionInv, MarkersInOrder
  <2>3. at[r] = 3 => r \in clean
    BY <1>5 DEF Loads, Readable
  <2> QED
    BY <2>1, <2>2, <2>3
<1>6. ASSUME NEW r \in Readers, Refuses(r) \/ Delivers(r) \/ ConsumerDies(r) PROVE LoadInv'
  <2>1. at' = [at EXCEPT ![r] = 0] /\ UNCHANGED <<source, clean, modified>>
    BY <1>6 DEF Refuses, Delivers, ConsumerDies, store
  <2> QED
    BY <2>1
<1> QED
  BY <1>1, <1>2, <1>3, <1>4, <1>5, <1>6 DEF Next, Disturb, Consume

LEMMA LoadInvariant == Spec => [](TypeOK /\ RetentionInv /\ LoadInv)
<1>1. Init => LoadInv
  BY DEF Init, LoadInv, Verification
<1> QED
  BY <1>1, LoadStep, RetentionInvariant, PTL DEF Spec

(* A consumer that begins to load after an artifact was modified does not  *)
(* deliver (load_cohort), though it verifies the checksums in the middle   *)
(* of its reads and reads the artifacts once more.                         *)
THEOREM Verified == Spec => DeliversVerified
<1>1. LoadInv => [\A r \in Readers : Delivers(r) => r \in clean]_vars
  <2> SUFFICES ASSUME LoadInv, NEW r \in Readers, Delivers(r) PROVE r \in clean
    OBVIOUS
  <2> QED
    BY LoadOrderType DEF LoadInv, Delivers, Verification
<1> QED
  BY <1>1, LoadInvariant, PTL DEF DeliversVerified

-----------------------------------------------------------------------------
(* Refinement.  Of the completed cohorts the newest Retain are kept, so    *)
(* the store never retires one unless more than Retain are available.      *)

(* A set of natural numbers that is not empty has a smallest member. *)
LEMMA SmallestExists ==
    ASSUME NEW S, S \subseteq Nat, S # {}
    PROVE  \E m \in S : \A k \in S : m <= k
<1> DEFINE less == {ss \in Nat \X Nat : ss[1] < ss[2]}
<1>1. IsWellFoundedOn(less, Nat)
  BY NatLessThanWellFounded DEF OpToRel
<1>2. PICK m \in S : \A k \in S : <<k, m>> \notin less
  <2> HIDE DEF less
  <2> QED
    BY <1>1, WFMin
<1>3. \A k \in S : ~(k < m)
  BY <1>2
<1> QED
  BY <1>2, <1>3

LEMMA NewerOrder ==
    ASSUME TypeOK, NEW a \in Ids, NEW b \in Ids, NEW c \in Ids
    PROVE  /\ ~Newer(a, a) /\ (a = b \/ Newer(a, b) \/ Newer(b, a))
           /\ Newer(a, b) /\ Newer(b, c) => Newer(a, c)
  BY CohortAssumption DEF TypeOK, Newer, Ids

(* One of a set of cohorts has none newer than itself in the set.          *)
LEMMA NewestExists ==
    ASSUME TypeOK, NEW S \in SUBSET Ids, S # {}
    PROVE  \E m \in S : NewerIn(S, m) = {}
<1> DEFINE rank(c) == Cardinality(NewerIn(S, c))
           ranks == {rank(c) : c \in S}
<1>1. \A c \in S : rank(c) \in Nat
  BY NewerGrows
<1>2. PICK n \in ranks : \A k \in ranks : n <= k
  <2>1. ranks \subseteq Nat /\ ranks # {}
    BY <1>1
  <2> HIDE DEF ranks
  <2> QED
    BY <2>1, SmallestExists
<1>3. PICK m \in S : n = rank(m)
  BY <1>2
<1>4. ASSUME NEW u \in NewerIn(S, m)
      PROVE  FALSE
  <2>1. u \in S /\ Newer(u, m)
    BY DEF NewerIn
  <2>2. NewerIn(S, u) \subseteq NewerIn(S, m) /\ u \notin NewerIn(S, u)
    <3>1. \A o \in S : Newer(o, u) => Newer(o, m)
      BY <2>1, NewerOrder
    <3>2. ~Newer(u, u)
      BY <2>1, NewerOrder
    <3> QED
      BY <3>1, <3>2 DEF NewerIn
  <2>3. IsFiniteSet(NewerIn(S, m))
    <3>1. IsFiniteSet(Ids)
      BY CohortAssumption, FS_Interval DEF Ids
    <3> QED
      BY <3>1, FS_Subset DEF NewerIn
  <2>4. IsFiniteSet(NewerIn(S, u)) /\ (Cardinality(NewerIn(S, u)) = Cardinality(NewerIn(S, m))
                                        => NewerIn(S, u) = NewerIn(S, m))
        /\ Cardinality(NewerIn(S, u)) <= Cardinality(NewerIn(S, m))
    BY <2>2, <2>3, FS_Subset
  <2>5. rank(u) <= rank(m) /\ rank(u) # rank(m)
    BY <2>2, <2>4
  <2>6. rank(m) <= rank(u)
    BY <1>2, <1>3, <2>1
  <2> QED
    BY <1>1, <2>1, <2>5, <2>6
<1> QED
  BY <1>4

Newest(S) == {c \in S : Cardinality(NewerIn(S, c)) < Retain}

(* The newest Retain are Retain in number, unless there are fewer.         *)
LEMMA NewestAreEnough ==
    ASSUME TypeOK, NEW S \in SUBSET Ids, NEW v \in S, Cardinality(NewerIn(S, v)) >= Retain
    PROVE  Cardinality(Newest(S)) >= Retain
<1>1. /\ S \ Newest(S) \in SUBSET Ids /\ v \in S \ Newest(S)
  <2>1. Cardinality(NewerIn(S, v)) \in Nat
    BY NewerGrows
  <2> QED
    BY <2>1, CohortAssumption DEF Newest
<1>2. PICK m \in S \ Newest(S) : NewerIn(S \ Newest(S), m) = {}
  BY <1>1, NewestExists
<1>3. NewerIn(S, m) \subseteq Newest(S)
  BY <1>2 DEF NewerIn
<1>4. IsFiniteSet(Newest(S))
  <2>1. IsFiniteSet(Ids)
    BY CohortAssumption, FS_Interval DEF Ids
  <2> QED
    BY <2>1, FS_Subset DEF Newest
<1>5. /\ Cardinality(NewerIn(S, m)) <= Cardinality(Newest(S)) /\ Cardinality(Newest(S)) \in Nat
      /\ Cardinality(NewerIn(S, m)) \in Nat
  BY <1>3, <1>4, FS_Subset, FS_CardinalityType
<1>6. Cardinality(NewerIn(S, m)) >= Retain
  BY <1>2, <1>5, CohortAssumption DEF Newest
<1> QED
  BY <1>5, <1>6, CohortAssumption

Holding == {r \in Readers : Holds(r)}

(* The refinement mapping of a state: absent until READY, retired once a   *)
(* file a reader needs is gone.                                            *)
LEMMA PhaseValue ==
    \A c \in Ids :
      /\ source[c] \notin Published => Phase[c] = "absent"
      /\ source[c] \in Published /\ ~(Needed \subseteq dir[c]) => Phase[c] = "retired"
      /\ source[c] \in Published /\ Needed \subseteq dir[c] /\ c \in completed => Phase[c] = "complete"
      /\ source[c] \in Published /\ Needed \subseteq dir[c] /\ c \notin completed => Phase[c] = "ready"
  BY DEF Phase

(* A step that changes the phase of one cohort only.                       *)
LEMMA PhaseOfOne ==
    ASSUME NEW c \in Ids, \A o \in Ids \ {c} : Phase'[o] = Phase[o]
    PROVE  Phase' = [Phase EXCEPT ![c] = Phase'[c]]
<1>1. Phase' = [o \in Ids |-> Phase'[o]] /\ Phase = [o \in Ids |-> Phase[o]]
  BY DEF Phase
<1> HIDE DEF Phase
<1> QED
  BY <1>1

LEMMA PhaseOfNone ==
    ASSUME \A o \in Ids : Phase'[o] = Phase[o]
    PROVE  Phase' = Phase
<1>1. Phase' = [o \in Ids |-> Phase'[o]] /\ Phase = [o \in Ids |-> Phase[o]]
  BY DEF Phase
<1> QED
  BY <1>1

(* A reader may always give up. *)
LEMMA StoreGivesUp ==
    ASSUME Phase' = Phase, delivered' = delivered, Holding' \subseteq Holding
    PROVE  Store!Next
  BY DEF Store!Next, Store!GiveUp, Holding

(* Whoever reads a cohort that loses a file loses it, and nobody else.     *)
LEMMA HoldersOfOne ==
    ASSUME NEW v \in Ids, UNCHANGED <<at, partial, modified>>, dir'[v] \subseteq dir[v],
           \A o \in Ids \ {v} : dir'[o] = dir[o]
    PROVE  Holding' \subseteq Holding /\ \A r \in Holding \ Holding' : r[1] = v
<1>1. ASSUME NEW r \in Readers, Holds(r)'
      PROVE  Holds(r)
  BY <1>1, ReaderType, LoadOrderType DEF Holds, LoadOrder, Verification
<1>2. ASSUME NEW r \in Readers, r[1] # v, Holds(r)
      PROVE  Holds(r)'
  BY <1>2, ReaderType, LoadOrderType DEF Holds, LoadOrder, Verification
<1> QED
  BY <1>1, <1>2 DEF Holding

LEMMA HoldersStay ==
    ASSUME TypeOK, UNCHANGED <<at, partial, modified>>,
           \A c \in Ids, f \in Needed : f \in dir'[c] <=> f \in dir[c]
    PROVE  Holding' = Holding
<1>1. ASSUME NEW r \in Readers, NEW k \in 1..4
      PROVE  LoadOrder[k] \in dir'[r[1]] <=> LoadOrder[k] \in dir[r[1]]
  BY LoadOrderType, ReaderType
<1>2. ASSUME NEW r \in Readers
      PROVE  Holds(r)' <=> Holds(r)
  <2>1. \A k \in at[r]..4 : at[r] > 1 => k \in 1..4
    BY LoadOrderType DEF TypeOK
  <2> QED
    BY <1>1, <2>1, LoadOrderType DEF Holds, Verification
<1> QED
  BY <1>2 DEF Holding

(* CohortStore counts as this module does. *)
LEMMA StoreCounts == \A S : Store!Cardinality(S) = Cardinality(S)
  BY DEF Store!Cardinality, Cardinality

(* What is available are the completed cohorts a reader can read.          *)
LEMMA KeptCohorts ==
    ASSUME TypeOK, RetentionInv
    PROVE  Store!Kept = {c \in completed : Needed \subseteq dir[c]}
<1>1. ASSUME NEW c \in Ids
      PROVE  Phase[c] = "complete" <=> c \in completed /\ Needed \subseteq dir[c]
  <2>1. c \in completed => source[c] \in Published
    BY DEF RetentionInv, MarkersInOrder
  <2> QED
    BY <2>1, PhaseValue
<1> QED
  BY <1>1 DEF Store!Kept, TypeOK

(* A finalizer removes a file of a cohort only when there are Retain newer *)
(* ones that keep all of theirs, whatever the others have removed.         *)
LEMMA StoreRetires ==
    ASSUME TypeOK, RetentionInv, NEW v \in completed, Expendable(v), Needed \subseteq dir[v]
    PROVE  Phase[v] = "complete" /\ Cardinality(Store!Kept) > Retain
<1>1. Phase[v] = "complete"
  BY PhaseValue DEF TypeOK, RetentionInv, MarkersInOrder
<1>2. Newest(completed) \cup {v} \subseteq Store!Kept /\ v \notin Newest(completed)
  <2>1. \A c \in Newest(completed) : c \in completed /\ ~Expendable(c)
    <3>1. \A c \in completed : Cardinality(NewerIn(completed, c)) \in Nat
      BY NewerCounted DEF TypeOK
    <3> QED
      BY <3>1, CohortAssumption DEF Newest, Expendable
  <2>2. \A c \in Newest(completed) : Needed \subseteq dir[c]
    BY <2>1 DEF RetentionInv, KeptOrExpendable, Files, Needed
  <2> QED
    BY <2>1, <2>2, KeptCohorts
<1>3. IsFiniteSet(Store!Kept)
  <2>1. IsFiniteSet(Ids)
    BY CohortAssumption, FS_Interval DEF Ids
  <2> QED
    BY <2>1, FS_Subset DEF Store!Kept
<1>4. Cardinality(Newest(completed)) >= Retain /\ Cardinality(Newest(completed)) \in Nat
  <2>1. Cardinality(Newest(completed)) >= Retain
    BY NewestAreEnough DEF Expendable, TypeOK
  <2>2. IsFiniteSet(Newest(completed))
    BY <1>2, <1>3, FS_Subset
  <2> QED
    BY <2>1, <2>2, FS_CardinalityType
<1>5. Cardinality(Newest(completed) \cup {v}) = Cardinality(Newest(completed)) + 1
  <2>1. IsFiniteSet(Newest(completed))
    BY <1>2, <1>3, FS_Subset
  <2> QED
    BY <1>2, <2>1, FS_AddElement
<1>6. /\ Cardinality(Newest(completed) \cup {v}) <= Cardinality(Store!Kept)
      /\ Cardinality(Store!Kept) \in Nat
  BY <1>2, <1>3, FS_Subset, FS_CardinalityType
<1> QED
  BY <1>1, <1>4, <1>5, <1>6, CohortAssumption

PromiseInv == TypeOK /\ RetentionInv /\ LoadInv

LEMMA SourceImplements ==
    ASSUME PromiseInv, NEW c \in Ids,
           Write(c) \/ Rejects(c) \/ SourceFails(c) \/ SourceReplays(c) \/ Modify(c)
    PROVE  Store!Next
<1> USE DEF PromiseInv
<1>1. ASSUME source[c] \notin Published, source'[c] \notin Published, UNCHANGED <<at, modified, completed, delivered>>,
             \A o \in Ids \ {c} : /\ source'[o] = source[o] /\ dir'[o] = dir[o]
                                  /\ o \in partial' <=> o \in partial
      PROVE  Store!Next
  <2>1. \A o \in Ids : Phase'[o] = Phase[o]
    BY <1>1 DEF Phase
  <2>2. Holding' \subseteq Holding
    <3>1. \A r \in Readers : at[r] > 1 => r[1] \in Ids \ {c}
      BY <1>1, ReaderType DEF LoadInv
    <3> QED
      BY <1>1, <3>1 DEF Holding, Holds
  <2> QED
    BY <1>1, <2>1, <2>2, PhaseOfNone, StoreGivesUp
<1>2. CASE Stages(c) \/ SourceReplays(c) \/ Rejects(c) \/ Renames(c)
  BY <1>1, <1>2
  DEF Stages, SourceReplays, Rejects, Renames, Source, Writes, consumers, store, TypeOK, Published
<1>3. ASSUME NEW to \in Published, Source(c, "renamed", to),
             dir' = [dir EXCEPT ![c] = @ \cup {"READY"}], UNCHANGED <<completed, partial, modified>>
      PROVE  Store!Next
  <2>1. /\ source[c] = "renamed" /\ source' = [source EXCEPT ![c] = to]
        /\ dir' = [dir EXCEPT ![c] = @ \cup {"READY"}] /\ UNCHANGED <<completed, at, partial, modified, delivered>>
    BY <1>3 DEF Source, consumers
  <2>2. Phase[c] = "absent" /\ c \notin completed /\ Artifacts \subseteq dir[c]
    BY <2>1, PhaseValue DEF RetentionInv, MarkersInOrder, Published
  <2>3. Phase'[c] = "ready"
    <3>1. source'[c] \in Published /\ Needed \subseteq dir'[c] /\ c \notin completed'
      BY <2>1, <2>2, <1>3 DEF TypeOK, Needed
    <3> QED
      BY <3>1 DEF Phase
  <2>4. Phase' = [Phase EXCEPT ![c] = "ready"]
    <3>1. \A o \in Ids \ {c} : Phase'[o] = Phase[o]
      BY <2>1 DEF Phase, TypeOK
    <3> QED
      BY <2>3, <3>1, PhaseOfOne
  <2>5. Holding' = Holding
    <3>1. \A r \in Readers : at[r] > 1 => r[1] \in Ids \ {c}
      BY <2>1, ReaderType DEF LoadInv, Published
    <3>2. \A o \in Ids \ {c} : dir'[o] = dir[o]
      BY <2>1 DEF TypeOK
    <3> QED
      BY <2>1, <3>1, <3>2 DEF Holding, Holds
  <2> QED
    BY <2>1, <2>2, <2>4, <2>5 DEF Store!Next, Store!Publish, Holding
<1>4. CASE Modify(c)
  <2>1. UNCHANGED <<source, dir, completed, delivered, at, partial>> /\ modified \subseteq modified'
    BY <1>4 DEF Modify, consumers
  <2>2. Phase' = Phase
    BY <2>1 DEF Phase
  <2>3. Holding' \subseteq Holding
    BY <2>1, ReaderType DEF Holding, Holds
  <2> QED
    BY <2>1, <2>2, <2>3, StoreGivesUp
<1>5. CASE MarksReady(c)
  BY <1>3, <1>5 DEF MarksReady, Published
<1>6. CASE SourceFails(c)
  <2>1. CASE Source(c, "renamed", "orphaned")
    <3>1. /\ "orphaned" \in Published
          /\ dir' = [dir EXCEPT ![c] = @ \cup {"READY"}] /\ UNCHANGED <<completed, partial, modified>>
      BY <1>6, <2>1 DEF SourceFails, Source, Published, TypeOK
    <3> QED
      BY <1>3, <2>1, <3>1
  <2>2. CASE ~Source(c, "renamed", "orphaned")
    BY <1>1, <1>6, <2>2 DEF SourceFails, Source, consumers, TypeOK, Published
  <2> QED
    BY <2>1, <2>2
<1> QED
  BY <1>2, <1>4, <1>5, <1>6 DEF Write

LEMMA FinalizerImplements ==
    ASSUME PromiseInv, NEW c \in Ids, Finalize(c) \/ FinalizerReplays(c) \/ FinalizerDies(c)
    PROVE  Store!Next
<1> USE DEF PromiseInv
<1>1. /\ UNCHANGED <<source, partial, modified, at, delivered>>
      /\ UNCHANGED <<dir, completed>> \/ MarksComplete(c) \/ RemovesFile(c)
  BY DEF Finalize, FinalizerStarts, MarksComplete, Lists, BeginsRemoval, RemovesFile, RemovesDirectory,
         FinalizerFails, Finishes, FinalizerReplays, FinalizerDies, Finalizer, Forgets, consumers
<1>2. CASE UNCHANGED <<dir, completed>>
  <2>1. Phase' = Phase
    BY <1>1, <1>2 DEF Phase
  <2>2. Holding' = Holding
    BY <1>1, <1>2 DEF Holding, Holds
  <2> QED
    BY <1>1, <2>1, <2>2, StoreGivesUp
<1>3. CASE MarksComplete(c)
  <2>1. /\ fin[c] = "loaded" /\ dir' = [dir EXCEPT ![c] = @ \cup {"COMPLETE"}]
        /\ completed' = completed \cup {c}
    BY <1>3 DEF MarksComplete, Finalizer
  <2>2. \A o \in Ids, f \in Needed : f \in dir'[o] <=> f \in dir[o]
    BY <2>1 DEF TypeOK, Needed, Artifacts
  <2>3. Holding' = Holding
    BY <1>1, <2>2, HoldersStay
  <2>4. \A o \in Ids : Needed \subseteq dir'[o] <=> Needed \subseteq dir[o]
    BY <2>2
  <2>5. \A o \in Ids \ {c} : Phase'[o] = Phase[o]
    BY <1>1, <2>1, <2>4 DEF Phase
  <2>6. source[c] \in Published
    BY <2>1 DEF RetentionInv, MarkersInOrder
  <2>7. CASE Phase[c] = "ready"
    <3>1. Needed \subseteq dir[c]
      BY <2>6, <2>7, PhaseValue
    <3>2. Phase'[c] = "complete"
      BY <1>1, <2>1, <2>4, <2>6, <3>1 DEF Phase
    <3>3. Phase' = [Phase EXCEPT ![c] = "complete"]
      BY <2>5, <3>2, PhaseOfOne
    <3> QED
      BY <1>1, <2>3, <2>7, <3>3 DEF Store!Next, Store!Complete, Holding
  <2>8. CASE Phase[c] # "ready"
    <3>1. Phase'[c] = Phase[c]
      <4>1. c \in completed \/ ~(Needed \subseteq dir[c])
        BY <2>6, <2>8, PhaseValue
      <4> QED
        BY <1>1, <2>1, <2>4, <2>6, <4>1 DEF Phase
    <3> QED
      BY <1>1, <2>3, <2>5, <3>1, PhaseOfNone, StoreGivesUp
  <2> QED
    BY <2>7, <2>8
<1>4. CASE RemovesFile(c)
  <2>1. PICK v \in Ids, f \in entries[c] :
          Victim(c, v) /\ dir' = [dir EXCEPT ![v] = @ \ {f}] /\ completed' = completed
    BY <1>4 DEF RemovesFile
  <2>2. v \in completed /\ Expendable(v) /\ source[v] \in Published
    BY <2>1 DEF Victim, RetentionInv, VictimsExpendable, MarkersInOrder
  <2>3. dir'[v] \subseteq dir[v] /\ \A o \in Ids \ {v} : dir'[o] = dir[o]
    BY <2>1 DEF TypeOK
  <2>4. Holding' \subseteq Holding /\ \A r \in Holding \ Holding' : r[1] = v
    BY <1>1, <2>3, HoldersOfOne
  <2>5. \A o \in Ids \ {v} : Phase'[o] = Phase[o]
    BY <1>1, <2>1, <2>3 DEF Phase
  <2>6. CASE Needed \subseteq dir[v] /\ ~(Needed \subseteq dir'[v])
    <3>1. Phase'[v] = "retired"
      BY <1>1, <2>2, <2>6 DEF Phase
    <3>2. Phase' = [Phase EXCEPT ![v] = "retired"]
      BY <2>5, <3>1, PhaseOfOne
    <3>3. Phase[v] = "complete" /\ Cardinality(Store!Kept) > Retain
      BY <2>2, <2>6, StoreRetires
    <3>4. Store!Retire(v)
      BY <1>1, <2>4, <3>2, <3>3, StoreCounts DEF Store!Retire, Holding
    <3> QED
      BY <3>4 DEF Store!Next
  <2>7. CASE ~(Needed \subseteq dir[v] /\ ~(Needed \subseteq dir'[v]))
    <3>1. Needed \subseteq dir'[v] <=> Needed \subseteq dir[v]
      BY <2>3, <2>7
    <3>2. Phase'[v] = Phase[v]
      BY <1>1, <2>1, <3>1 DEF Phase
    <3> QED
      BY <1>1, <2>4, <2>5, <3>2, PhaseOfNone, StoreGivesUp
  <2> QED
    BY <2>6, <2>7
<1> QED
  BY <1>1, <1>2, <1>3, <1>4

LEMMA ConsumerImplements ==
    ASSUME PromiseInv, NEW r \in Readers, Consume(r) \/ Replays(r) \/ ConsumerDies(r)
    PROVE  Store!Next
<1> USE ReaderType, LoadOrderType DEF PromiseInv
<1>1. UNCHANGED <<source, dir, completed, partial, modified>>
  BY DEF Consume, Starts, Loads, Refuses, Delivers, Replays, ConsumerDies, BeginLoad, store
<1>2. Phase' = Phase
  BY <1>1 DEF Phase
<1>3. \A q \in Readers : at'[q] = at[q] => (Holds(q)' <=> Holds(q))
  BY <1>1 DEF Holds
<1>4. CASE /\ at' = [at EXCEPT ![r] = at'[r]] /\ at'[r] \in {0, 1}
           /\ UNCHANGED delivered
  <2>1. ~Holds(r)'
    BY <1>4 DEF Holds
  <2>2. \A q \in Readers \ {r} : at'[q] = at[q]
    BY <1>4 DEF TypeOK
  <2>3. Holding' \subseteq Holding
    BY <1>3, <2>1, <2>2 DEF Holding
  <2> QED
    BY <1>2, <1>4, <2>3, StoreGivesUp
<1>5. CASE Starts(r) \/ Replays(r) \/ Refuses(r) \/ ConsumerDies(r)
  <2>1. /\ at' = [at EXCEPT ![r] = at'[r]] /\ at'[r] \in {0, 1}
        /\ UNCHANGED delivered
    BY <1>5 DEF Starts, Replays, Refuses, ConsumerDies, BeginLoad, TypeOK
  <2> QED
    BY <1>4, <2>1
<1>6. CASE Loads(r)
  <2>1. /\ at[r] \in 1..3 /\ Readable(r) /\ at' = [at EXCEPT ![r] = at[r] + 1]
        /\ UNCHANGED delivered
    BY <1>6 DEF Loads
  <2>2. at'[r] = at[r] + 1 /\ \A q \in Readers \ {r} : at'[q] = at[q]
    BY <2>1 DEF TypeOK
  <2>3. CASE Holds(r)' /\ at[r] > 1
    <3>1. Holds(r)
      BY <1>1, <2>1, <2>2, <2>3 DEF Holds, Readable, Verification
    <3>2. Holding' = Holding
      BY <1>3, <2>2, <2>3, <3>1 DEF Holding
    <3> QED
      BY <1>2, <2>1, <3>2, StoreGivesUp
  <2>4. CASE ~Holds(r)'
    <3>1. Holding' \subseteq Holding
      BY <1>3, <2>2, <2>4 DEF Holding
    <3> QED
      BY <1>2, <2>1, <3>1, StoreGivesUp
  <2>5. CASE Holds(r)' /\ at[r] = 1
    <3>1. Needed \subseteq dir[r[1]]
      BY <1>1, <2>1, <2>2, <2>5 DEF Holds, Readable, LoadOrder, Needed, Artifacts
    <3>2. source[r[1]] \in Published
      BY <3>1 DEF RetentionInv, MarkersInOrder, Needed
    <3>3. Phase[r[1]] \in {"ready", "complete"}
      BY <3>1, <3>2, PhaseValue
    <3>4. Holding' = Holding \cup {r}
      BY <1>3, <2>2, <2>5 DEF Holding
    <3>5. Store!Open(r)
      BY <1>2, <2>1, <3>3, <3>4 DEF Store!Open, Holding
    <3> QED
      BY <3>5 DEF Store!Next
  <2> QED
    BY <2>1, <2>3, <2>4, <2>5
<1>7. CASE Delivers(r)
  <2>1. /\ at[r] = 4 /\ Readable(r) /\ r[1] \notin partial
        /\ at' = [at EXCEPT ![r] = 0] /\ delivered' = delivered \cup {r}
    BY <1>7 DEF Delivers
  <2>2. at'[r] = 0 /\ \A q \in Readers \ {r} : at'[q] = at[q]
    BY <2>1 DEF TypeOK
  <2>3. Holds(r) /\ ~Holds(r)'
    BY <2>1, <2>2 DEF Holds, Readable, Verification
  <2>4. Holding' = Holding \ {r} /\ r \in Holding
    BY <1>3, <2>2, <2>3 DEF Holding
  <2>5. Store!Deliver(r)
    BY <1>2, <2>1, <2>4 DEF Store!Deliver, Holding
  <2> QED
    BY <2>5 DEF Store!Next
<1> QED
  BY <1>5, <1>6, <1>7 DEF Consume

(* Files, markers, renames and the readers that come and go between them   *)
(* implement the store: what is published appears at once, what a reader   *)
(* delivers it held, and nothing is retired while Retain or fewer complete *)
(* cohorts are to be had.                                                  *)
THEOREM Promised == Spec => KeepsPromise
<1>1. Init => Store!Init
  BY LoadOrderType DEF Init, Store!Init, Phase, Holds, Published
<1>2. PromiseInv /\ [Next]_vars => [Store!Next]_(Store!vars)
  <2> SUFFICES ASSUME PromiseInv, [Next]_vars PROVE Store!Next \/ UNCHANGED Store!vars
    OBVIOUS
  <2>1. CASE UNCHANGED vars
    BY <2>1 DEF vars, store, consumers, Store!vars, Phase, Holds
  <2>2. CASE Next
    BY <2>2, SourceImplements, FinalizerImplements, ConsumerImplements DEF Next, Disturb
  <2> QED
    BY <2>1, <2>2
<1>3. Spec => []PromiseInv
  BY LoadInvariant DEF PromiseInv
<1> QED
  BY <1>1, <1>2, <1>3, PTL DEF Spec, KeepsPromise, Store!Spec
=============================================================================
