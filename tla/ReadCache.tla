------------------------------ MODULE ReadCache ------------------------------
(***************************************************************************)
(* The cache of paged Black Duck reads (blackduck/cache.py) that all       *)
(* workers of a process share, with the single flight (concurrency.py)     *)
(* that lets one of them load what several ask for, the checkpoints of the *)
(* cache file, and the restart of the process.  A client's own memo of a   *)
(* page, which lives as long as the client, stands before it.              *)
(***************************************************************************)
EXTENDS Naturals, FiniteSets, Sequences

CONSTANTS
  RCReaders,      \* the worker threads
  RCUrls,         \* the collections they read
  RCMaxEntries,   \* --api-cache-max-entries
  RCCheckpoint,   \* entries put between two checkpoints
  RCMaxAsks,      \* bound: reads in all
  RCMaxAges,      \* bound: times the entries grow stale
  RCMaxFaults     \* bound: failed reads and writes, and crashes

ASSUME ReadCacheAssumption ==
  /\ RCReaders \subseteq Nat \ {0} /\ RCUrls # {} /\ RCMaxEntries \in Nat /\ RCCheckpoint \in Nat \ {0}
  /\ RCMaxAsks \in Nat /\ RCMaxAges \in Nat /\ RCMaxFaults \in Nat

VARIABLES
  rcFresh,      \* the cached collections that are not stale, least recently used first
  rcFile,       \* those in the cache file
  rcDirty,      \* entries put since the file was written
  rcMemo,       \* reader -> collections its client holds
  rcPc,         \* reader -> "idle" | "ask" | "join" | "again" | "load" | "put" | "wait" |
                \*   "answer" | "raise" | "clean" | "cleanRaise" | "done" | "failed"
  rcUrl,        \* reader -> what it asks for
  rcPending,    \* collection -> the reader that loads it, NoReader without a flight
  rcFuture,     \* collection -> "none" | "pending" | "loaded" | "failed"
  rcAsks, rcAges, rcFaults

rcCache == <<rcFresh, rcFile, rcDirty>>
rcBounds == <<rcAsks, rcAges, rcFaults>>
rcVars == <<rcCache, rcMemo, rcPc, rcUrl, rcPending, rcFuture, rcBounds>>

NoReader == 0
RCCached == {rcFresh[i] : i \in DOMAIN rcFresh}

\* The entries without that of u; no collection has two.
RCWithout(s, u) ==
  IF \A i \in DOMAIN s : s[i] # u THEN s
  ELSE LET at == CHOOSE i \in DOMAIN s : s[i] = u
       IN  SubSeq(s, 1, at - 1) \o SubSeq(s, at + 1, Len(s))

RCTouch(s, u) == Append(RCWithout(s, u), u)

\* The entries that stay when there are too many: the last used.
RCPruned(s) ==
  IF Len(s) <= RCMaxEntries THEN s ELSE SubSeq(s, Len(s) - RCMaxEntries + 1, Len(s))

RCFault == rcFaults < RCMaxFaults /\ rcFaults' = rcFaults + 1

-----------------------------------------------------------------------------
ReadCacheInit ==
  /\ rcFresh = <<>> /\ rcFile = <<>> /\ rcDirty = 0
  /\ rcMemo = [r \in RCReaders |-> {}]
  /\ rcPc = [r \in RCReaders |-> "idle"] /\ rcUrl \in [RCReaders -> {CHOOSE u \in RCUrls : TRUE}]
  /\ rcPending = [u \in RCUrls |-> NoReader] /\ rcFuture = [u \in RCUrls |-> "none"]
  /\ rcAsks = 0 /\ rcAges = 0 /\ rcFaults = 0

RCGo(r, pc) == rcPc' = [rcPc EXCEPT ![r] = pc]

\* A worker asks for a collection its client does not hold yet.
RCAsk(r) ==
  /\ rcPc[r] = "idle" /\ rcAsks < RCMaxAsks
  /\ \E u \in RCUrls \ rcMemo[r] : rcUrl' = [rcUrl EXCEPT ![r] = u]
  /\ rcAsks' = rcAsks + 1 /\ RCGo(r, "ask")
  /\ UNCHANGED <<rcCache, rcMemo, rcPending, rcFuture, rcAges, rcFaults>>

\* get_items: a fresh entry answers, and counts as used.
RCLooksUp(r, otherwise) ==
  LET u == rcUrl[r]
  IN  IF u \in RCCached
        THEN rcFresh' = RCTouch(rcFresh, u) /\ RCGo(r, IF rcPc[r] = "ask" THEN "done" ELSE "answer")
        ELSE UNCHANGED rcFresh /\ RCGo(r, otherwise)

RCFirstLook(r) ==
  /\ rcPc[r] = "ask" /\ RCLooksUp(r, "join")
  /\ UNCHANGED <<rcFile, rcDirty, rcMemo, rcUrl, rcPending, rcFuture, rcBounds>>

\* SingleFlight.run: the first to come leads the flight, the others wait for
\* its future, which may have its result already.
RCJoin(r) ==
  LET u == rcUrl[r]
  IN  /\ rcPc[r] = "join"
      /\ IF rcPending[u] = NoReader
           THEN /\ rcPending' = [rcPending EXCEPT ![u] = r]
                /\ rcFuture' = [rcFuture EXCEPT ![u] = "pending"] /\ RCGo(r, "again")
           ELSE /\ UNCHANGED <<rcPending, rcFuture>>
                /\ RCGo(r, IF rcFuture[u] = "pending" THEN "wait"
                           ELSE IF rcFuture[u] = "loaded" THEN "done" ELSE "failed")
      /\ UNCHANGED <<rcCache, rcMemo, rcUrl, rcBounds>>

\* Mutant: the leader of a flight loads without looking again.
RCSecondLookSkipped(r) ==
  /\ rcPc[r] = "again" /\ RCGo(r, "load")
  /\ UNCHANGED <<rcCache, rcMemo, rcUrl, rcPending, rcFuture, rcBounds>>

\* load_once: the entry may have come between the first look and the flight.
RCSecondLook(r) ==
  /\ rcPc[r] = "again" /\ RCLooksUp(r, "load")
  /\ UNCHANGED <<rcFile, rcDirty, rcMemo, rcUrl, rcPending, rcFuture, rcBounds>>

RCLoads(r) ==
  /\ rcPc[r] = "load" /\ RCGo(r, "put")
  /\ UNCHANGED <<rcCache, rcMemo, rcUrl, rcPending, rcFuture, rcBounds>>

RCLoadFails(r) ==
  /\ rcPc[r] = "load" /\ RCFault /\ RCGo(r, "raise")
  /\ UNCHANGED <<rcCache, rcMemo, rcUrl, rcPending, rcFuture, rcAsks, rcAges>>

\* put_items: the entry is added, the cache pruned, and with enough entries
\* the file written; a failed checkpoint is a warning, and tried again later.
RCPut(r) ==
  /\ rcPc[r] = "put"
  /\ rcFresh' = RCPruned(RCTouch(rcFresh, rcUrl[r]))
  /\ IF rcDirty + 1 >= RCCheckpoint
       THEN \/ rcFile' = rcFresh' /\ rcDirty' = 0 /\ UNCHANGED rcFaults
            \/ UNCHANGED rcFile /\ rcDirty' = rcDirty + 1 /\ RCFault
       ELSE UNCHANGED <<rcFile, rcFaults>> /\ rcDirty' = rcDirty + 1
  /\ RCGo(r, "answer")
  /\ UNCHANGED <<rcMemo, rcUrl, rcPending, rcFuture, rcAsks, rcAges>>

\* Mutant: an exception does not reach the future.
RCResolvesGood(r) ==
  LET u == rcUrl[r]
      waiting == {q \in RCReaders : rcPc[q] = "wait" /\ rcUrl[q] = u /\ rcPc[r] = "answer"}
  IN  /\ rcPc[r] \in {"answer", "raise"}
      /\ rcFuture' = [rcFuture EXCEPT ![u] = IF rcPc[r] = "answer" THEN "loaded" ELSE @]
      /\ rcPc' = [q \in RCReaders |->
           IF q = r THEN (IF rcPc[r] = "answer" THEN "clean" ELSE "cleanRaise")
           ELSE IF q \in waiting THEN "done" ELSE rcPc[q]]
      /\ UNCHANGED <<rcCache, rcMemo, rcUrl, rcPending, rcBounds>>

\* The future gets its result, or the exception: everyone who waits has it.
RCResolves(r) ==
  LET u == rcUrl[r]
      waiting == {q \in RCReaders : rcPc[q] = "wait" /\ rcUrl[q] = u}
      good == rcPc[r] = "answer"
  IN  /\ rcPc[r] \in {"answer", "raise"}
      /\ rcFuture' = [rcFuture EXCEPT ![u] = IF good THEN "loaded" ELSE "failed"]
      /\ rcPc' = [q \in RCReaders |->
           IF q = r THEN (IF good THEN "clean" ELSE "cleanRaise")
           ELSE IF q \in waiting THEN (IF good THEN "done" ELSE "failed") ELSE rcPc[q]]
      /\ UNCHANGED <<rcCache, rcMemo, rcUrl, rcPending, rcBounds>>

\* The flight is over; who comes now leads one of its own.
RCCleans(r) ==
  /\ rcPc[r] \in {"clean", "cleanRaise"}
  /\ rcPending' = [rcPending EXCEPT ![rcUrl[r]] = NoReader]
  /\ rcFuture' = [rcFuture EXCEPT ![rcUrl[r]] = "none"]
  /\ RCGo(r, IF rcPc[r] = "clean" THEN "done" ELSE "failed")
  /\ UNCHANGED <<rcCache, rcMemo, rcUrl, rcBounds>>

\* The client keeps the answer; an exception goes to the caller.
RCReturns(r) ==
  /\ rcPc[r] \in {"done", "failed"}
  /\ rcMemo' = IF rcPc[r] = "done" THEN [rcMemo EXCEPT ![r] = @ \cup {rcUrl[r]}] ELSE rcMemo
  /\ RCGo(r, "idle")
  /\ UNCHANGED <<rcCache, rcUrl, rcPending, rcFuture, rcBounds>>

\* An entry reaches max_age_hours, counted from its cached_at whenever it was
\* last used; a stale one is no answer, and pruned.  One put again since the
\* file was written is younger than the entry the file has of it.
RCAges ==
  /\ rcAges < RCMaxAges /\ rcAges' = rcAges + 1
  /\ \E u \in RCCached \cup {rcFile[i] : i \in DOMAIN rcFile} :
       /\ rcFile' = RCWithout(rcFile, u)
       /\ rcFresh' = RCWithout(rcFresh, u) \/ (rcDirty > 0 /\ rcFresh' = rcFresh)
  /\ UNCHANGED <<rcDirty, rcMemo, rcPc, rcUrl, rcPending, rcFuture, rcAsks, rcFaults>>

\* The checkpoint thread, or the end of a command: the file is replaced.
RCSaves ==
  /\ rcDirty > 0
  /\ rcFile' = rcFresh /\ rcDirty' = 0
  /\ UNCHANGED <<rcFresh, rcMemo, rcPc, rcUrl, rcPending, rcFuture, rcBounds>>

\* The process dies, and another loads the file.
RCRestarts ==
  /\ RCFault
  /\ rcFresh' = RCPruned(rcFile) /\ rcDirty' = 0
  /\ rcMemo' = [r \in RCReaders |-> {}] /\ rcPc' = [r \in RCReaders |-> "idle"]
  /\ rcPending' = [u \in RCUrls |-> NoReader] /\ rcFuture' = [u \in RCUrls |-> "none"]
  /\ UNCHANGED <<rcFile, rcUrl, rcAsks, rcAges>>

RCGoesOn(r) ==
  \/ RCFirstLook(r) \/ RCJoin(r) \/ RCSecondLook(r) \/ RCLoads(r) \/ RCPut(r)
  \/ RCResolves(r) \/ RCCleans(r) \/ RCReturns(r)

ReadCacheNext ==
  \/ \E r \in RCReaders : RCAsk(r) \/ RCGoesOn(r) \/ RCLoadFails(r)
  \/ RCAges \/ RCSaves \/ RCRestarts

\* Every thread is scheduled.
ReadCacheFairness == \A r \in RCReaders : WF_rcVars(RCGoesOn(r))

ReadCacheSpec == ReadCacheInit /\ [][ReadCacheNext]_rcVars /\ ReadCacheFairness

-----------------------------------------------------------------------------
ReadCacheTypeOK ==
  /\ rcFresh \in Seq(RCUrls) /\ rcFile \in Seq(RCUrls)
  /\ Len(rcFresh) = Cardinality(RCCached) /\ Len(rcFresh) <= RCMaxEntries
  /\ rcDirty \in Nat /\ rcMemo \in [RCReaders -> SUBSET RCUrls]
  /\ rcPc \in [RCReaders -> {"idle", "ask", "join", "again", "load", "put", "answer", "raise",
                              "clean", "cleanRaise", "wait", "done", "failed"}]
  /\ rcUrl \in [RCReaders -> RCUrls] /\ rcPending \in [RCUrls -> RCReaders \cup {NoReader}]
  /\ rcFuture \in [RCUrls -> {"none", "pending", "loaded", "failed"}]
  /\ rcAsks \in 0 .. RCMaxAsks /\ rcAges \in 0 .. RCMaxAges /\ rcFaults \in 0 .. RCMaxFaults

(* Black Duck is asked for nothing the process has or is about to have: a   *)
(* worker loads a collection only while no fresh entry of it is cached and  *)
(* no other worker loads it, whatever happened since it last looked.        *)
(* (ApiResponseCache.get_or_load_items, SingleFlight.run.)                  *)
CacheLoadsOnlyWhatIsMissing ==
  \A r \in RCReaders : rcPc[r] = "load" =>
    /\ rcUrl[r] \notin RCCached
    /\ \A q \in RCReaders \ {r} : rcPc[q] \in {"load", "put"} => rcUrl[q] # rcUrl[r]

(* Nobody waits for ever for a flight: reads are finitely many, and every   *)
(* one of them returns, with an answer or the exception of the leader.       *)
(* (SingleFlight.run: set_result, set_exception, and the removal of the key  *)
(* in its finally.)                                                          *)
ReadCacheSettled == \A r \in RCReaders : rcPc[r] = "idle"

CacheReadsReturn == <>[]ReadCacheSettled

=============================================================================
