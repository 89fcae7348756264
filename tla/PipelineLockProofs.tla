------------------------- MODULE PipelineLockProofs -------------------------
(***************************************************************************)
(* Type correctness of PipelineLock for every instance, its mutual         *)
(* exclusion for every instance without injected faults and, of two runs,  *)
(* for every instance in which they crash, what heartbeats touch under     *)
(* every fault, and what a release leaves behind under crashes, SIGTERM    *)
(* and pauses.                                                             *)
(***************************************************************************)
EXTENDS PipelineLock, TLAPS

LEMMA CapType == Cap \in Nat /\ Cap > Stale /\ Cap > ClearMin
BY AgesAssumption DEF Cap

(* Stamping an inode with an owner and a fresh timestamp keeps the disk well-typed. *)
LEMMA StampType ==
    ASSUME TypeOK, NEW i, NEW owner \in Runs \cup {NoRun}
    PROVE  [file EXCEPT ![i] = [run |-> owner, age |-> 0]]
             \in [Inodes -> [run : Runs \cup {NoRun}, age : 0..Cap]]
<1>1. [run |-> owner, age |-> 0] \in [run : Runs \cup {NoRun}, age : 0..Cap]
  BY CapType
<1> QED
  BY <1>1 DEF TypeOK

(* Every variable keeps its type, whatever faults the environment injects. *)
LEMMA TypeStep == TypeOK /\ [Next]_vars => TypeOK'
<1> SUFFICES ASSUME TypeOK, [Next]_vars PROVE TypeOK'
  OBVIOUS
<1> USE FlagsAssumption, CapType DEF Disk, Threads, Reading, Procs
<1>1. ASSUME NEW r \in Runs, Acquire(r) PROVE TypeOK'
  <2>1. CASE Begin(r)
    BY <2>1 DEF Begin, TypeOK, Goto, Start
  <2>2. CASE ReadOwner(r)
    BY <2>2 DEF ReadOwner, TypeOK, Goto
  <2>3. CASE OwnerAlive(r)
    BY <2>3 DEF OwnerAlive, TypeOK, Goto
  <2>4. CASE OwnerGone(r)
    BY <2>4 DEF OwnerGone, TypeOK, Goto
  <2>5. CASE FindsNoLock(r)
    BY <2>5 DEF FindsNoLock, TypeOK, Goto
  <2>6. CASE FindsLockHeld(r)
    BY <2>6 DEF FindsLockHeld, TypeOK, Goto, Start, Terminal
  <2>7. CASE FindsStaleLock(r)
    BY <2>7 DEF FindsStaleLock, TypeOK, Goto
  <2>8. CASE VerifySameFile(r)
    BY <2>8 DEF VerifySameFile, TypeOK, Goto, Terminal
  <2>9. CASE Replace(r)
    BY <2>9 DEF Replace, TypeOK, Goto
  <2>10. CASE CreateLosesRace(r)
    BY <2>10 DEF CreateLosesRace, TypeOK, Goto
  <2>11. CASE Create(r)
    BY <2>11 DEF Create, TypeOK, Goto
  <2>12. CASE WritePayload(r)
    <3>1. file' \in [Inodes -> [run : Runs \cup {NoRun}, age : 0..Cap]]
      BY <2>12, StampType DEF WritePayload
    <3> QED
      BY <2>12, <3>1 DEF WritePayload, TypeOK, Goto
  <2> QED
    BY <1>1, <2>1, <2>2, <2>3, <2>4, <2>5, <2>6, <2>7, <2>8, <2>9, <2>10, <2>11, <2>12 DEF Acquire
<1>2. ASSUME NEW r \in Runs, Heartbeat(r) PROVE TypeOK'
  <2>1. CASE HeartbeatOpens(r)
    BY <2>1 DEF HeartbeatOpens, TypeOK
  <2>2. CASE HeartbeatTruncates(r)
    <3>1. file' \in [Inodes -> [run : Runs \cup {NoRun}, age : 0..Cap]]
      BY <2>2, StampType DEF HeartbeatTruncates
    <3> QED
      BY <2>2, <3>1 DEF HeartbeatTruncates, TypeOK
  <2>3. CASE HeartbeatWrites(r)
    <3>1. file' \in [Inodes -> [run : Runs \cup {NoRun}, age : 0..Cap]]
      BY <2>3, StampType DEF HeartbeatWrites
    <3> QED
      BY <2>3, <3>1 DEF HeartbeatWrites, TypeOK
  <2>4. CASE HeartbeatStops(r)
    BY <2>4 DEF HeartbeatStops, TypeOK
  <2> QED
    BY <1>2, <2>1, <2>2, <2>3, <2>4 DEF Heartbeat
<1>3. ASSUME NEW r \in Runs, Leave(r) PROVE TypeOK'
  <2>1. CASE Release(r)
    BY <2>1 DEF Release, TypeOK, Goto, Releasing
  <2>2. CASE JoinReturns(r)
    BY <2>2 DEF JoinReturns, TypeOK, Goto, Releasing
  <2>3. CASE CheckOwned(r)
    BY <2>3 DEF CheckOwned, Finish, TypeOK, Goto, Releasing, Terminal
  <2>4. CASE Unlink(r)
    BY <2>4 DEF Unlink, Finish, TypeOK, Goto, Terminal
  <2> QED
    BY <1>3, <2>1, <2>2, <2>3, <2>4 DEF Leave
<1>4. ASSUME NEW r \in Runs, Fault(r) PROVE TypeOK'
  <2>1. CASE WriteFails(r)
    BY <2>1 DEF WriteFails, TypeOK, Goto, Terminal
  <2>2. CASE HeartbeatFails(r)
    BY <2>2 DEF HeartbeatFails, TypeOK
  <2>3. CASE Sigterm(r)
    BY <2>3 DEF Sigterm, TypeOK, Goto, Releasing
  <2>4. CASE Crash(r)
    BY <2>4 DEF Crash, TypeOK, Goto, Terminal
  <2> QED
    BY <1>4, <2>1, <2>2, <2>3, <2>4 DEF Fault
<1>5. ASSUME NEW o \in Operators, Clear(o) PROVE TypeOK'
  <2>1. CASE ClearInspects(o)
    BY <2>1 DEF ClearInspects, TypeOK, Goto
  <2>2. CASE VerifySameFile(o)
    BY <2>2 DEF VerifySameFile, TypeOK, Goto, Terminal
  <2>3. CASE Replace(o)
    BY <2>3 DEF Replace, TypeOK, Goto
  <2> QED
    BY <1>5, <2>1, <2>2, <2>3 DEF Clear
<1>6. CASE Tick
  BY SMTT(30), <1>6 DEF Tick, TypeOK
<1>7. CASE UNCHANGED vars
  BY <1>7 DEF vars, TypeOK
<1> QED
  BY <1>1, <1>2, <1>3, <1>4, <1>5, <1>6, <1>7 DEF Next

(* The state of the lock is always well-typed: TypeOK of every instance.   *)
THEOREM TypeCorrect == Spec => []TypeOK
<1>1. Init => TypeOK
  BY CapType, RunsAssumption DEF Init, TypeOK, Procs
<1> QED
  BY <1>1, TypeStep, PTL DEF Spec

-----------------------------------------------------------------------------
(* Mutual exclusion.  Without faults no file ever looks abandoned, so every *)
(* way of taking a lock away is closed.  The invariant says why.           *)

(* A run that is past Create owns the file the path names, and the owner   *)
(* and the age in that file are what its heartbeat left there.             *)
OwnerHoldsPath ==
    \A r \in Runs : pc[r] \in Owning =>
        /\ path = own[r] /\ own[r] \in used
        /\ file[own[r]].age <= MaxLag
        /\ file[own[r]].run = IF pc[r] = "write" \/ hb[r] = "write" THEN NoRun ELSE r

(* Nothing else is at the path. *)
PathHasOwner ==
    path # NoFile => \E r \in Runs : pc[r] \in Owning /\ own[r] = path

(* Two runs never create the same file; one that has none is still before Create. *)
OwnFileUnique ==
    \A r, s \in Runs : own[r] # NoFile =>
        /\ own[r] \in used /\ pc[r] \in Owning \cup Terminal
        /\ own[r] = own[s] => r = s

(* The heartbeat runs only beside its run, and works on that run's file. *)
HeartbeatBesideOwner ==
    \A r \in Runs :
        /\ hb[r] # "off" => pc[r] \in {"held", "joining"}
        /\ pc[r] = "held" => hb[r] # "off"
        /\ hb[r] \in {"trunc", "write"} => fd[r] = own[r]

(* A run asking whether an owner's process still exists read that owner    *)
(* from the owner's own file.                                              *)
SeenOwnerMatches ==
    \A r \in Runs : pc[r] = "pid" =>
        /\ seen[r] \in Runs /\ own[seen[r]] = snap[r] /\ snap[r] # NoFile

(* Whoever is about to archive a file will find another one at the path. *)
ArchiveIsLate ==
    /\ \A p \in Procs : pc[p] = "verify" => snap[p] \in used /\ path # snap[p]
    /\ \A p \in Procs : pc[p] # "replace"
    /\ \A o \in Operators : pc[o] = "idle"
    /\ term = {}

Exclusive ==
    /\ OwnerHoldsPath /\ PathHasOwner /\ OwnFileUnique
    /\ HeartbeatBesideOwner /\ SeenOwnerMatches /\ ArchiveIsLate

(* The instances the theorem is about: nothing is injected, nobody forces a *)
(* clear, and a freed inode number is not handed out again.                *)
Undisturbed == Faults = {} /\ ForceClear = FALSE /\ InodeReuse = FALSE

(* No step of an undisturbed instance leaves the invariant. *)
LEMMA ExclusiveStep ==
    Undisturbed /\ TypeOK /\ Exclusive /\ [Next]_vars => Exclusive'
<1> SUFFICES ASSUME Undisturbed, TypeOK, Exclusive, [Next]_vars PROVE Exclusive'
  OBVIOUS
<1> USE FlagsAssumption, RunsAssumption, InodesAssumption, AgesAssumption
        DEF Undisturbed, TypeOK, Exclusive, OwnerHoldsPath, PathHasOwner, OwnFileUnique,
            HeartbeatBesideOwner, SeenOwnerMatches, ArchiveIsLate,
            Disk, Threads, Reading, Procs, Releasing, Terminal, Owning
<1>1. ASSUME NEW r \in Runs, Acquire(r) PROVE Exclusive'
  <2>1. CASE Begin(r)
    BY <2>1 DEF Begin, Goto, Start
  <2>2. CASE ReadOwner(r)
    BY <2>2 DEF ReadOwner, Goto
  <2>3. CASE OwnerAlive(r)
    BY <2>3 DEF OwnerAlive, Goto
  <2>4. CASE OwnerGone(r)
    BY <2>4 DEF OwnerGone, Goto
  <2>5. CASE FindsNoLock(r)
    BY <2>5 DEF FindsNoLock, Goto
  <2>6. CASE FindsLockHeld(r)
    BY <2>6 DEF FindsLockHeld, Goto, Start
  <2>7. CASE FindsStaleLock(r)
    BY <2>7 DEF FindsStaleLock, Goto
  <2>8. CASE VerifySameFile(r)
    BY <2>8 DEF VerifySameFile, Goto
  <2>9. CASE Replace(r)
    BY <2>9 DEF Replace, Goto
  <2>10. CASE CreateLosesRace(r)
    BY <2>10 DEF CreateLosesRace, Goto
  <2>11. CASE Create(r)
    BY <2>11 DEF Create, Goto, Free
  <2>12. CASE WritePayload(r)
    BY <2>12 DEF WritePayload, Goto
  <2> QED
    BY <1>1, <2>1, <2>2, <2>3, <2>4, <2>5, <2>6, <2>7, <2>8, <2>9, <2>10, <2>11, <2>12 DEF Acquire
<1>2. ASSUME NEW r \in Runs, Heartbeat(r) PROVE Exclusive'
  <2>1. CASE HeartbeatOpens(r)
    BY <2>1 DEF HeartbeatOpens
  <2>2. CASE HeartbeatTruncates(r)
    BY <2>2 DEF HeartbeatTruncates
  <2>3. CASE HeartbeatWrites(r)
    BY <2>3 DEF HeartbeatWrites
  <2>4. CASE HeartbeatStops(r)
    BY <2>4 DEF HeartbeatStops
  <2> QED
    BY <1>2, <2>1, <2>2, <2>3, <2>4 DEF Heartbeat
<1>3. ASSUME NEW r \in Runs, Leave(r) PROVE Exclusive'
  <2>1. CASE Release(r)
    BY <2>1 DEF Release, Goto
  <2>2. CASE JoinReturns(r)
    BY <2>2 DEF JoinReturns, Goto
  <2>3. CASE CheckOwned(r)
    BY <2>3 DEF CheckOwned, Goto, Finish
  <2>4. CASE Unlink(r)
    <3>1. /\ pc[r] = "remove" /\ pc' = [pc EXCEPT ![r] = "done"] /\ path' = NoFile
          /\ UNCHANGED <<file, archived, used, snap, seen, via, own, hb, fd, term>>
      BY <2>4 DEF Unlink, Goto, Finish
    <3>2. OwnerHoldsPath' /\ PathHasOwner'
      BY <3>1
    <3>3. OwnFileUnique'
      BY <3>1
    <3>4. HeartbeatBesideOwner' /\ SeenOwnerMatches' /\ ArchiveIsLate'
      BY <3>1
    <3> QED
      BY <3>2, <3>3, <3>4
  <2> QED
    BY <1>3, <2>1, <2>2, <2>3, <2>4 DEF Leave
<1>4. ASSUME NEW r \in Runs, Fault(r) PROVE FALSE
  BY <1>4 DEF Fault, WriteFails, HeartbeatFails, Sigterm, Crash
<1>5. ASSUME NEW o \in Operators, Clear(o) PROVE FALSE
  BY <1>5 DEF Clear, ClearInspects, VerifySameFile, Replace
<1>6. CASE Tick
  BY <1>6 DEF Tick, Prompt
<1>7. CASE UNCHANGED vars
  BY <1>7 DEF vars
<1> QED
  BY <1>1, <1>2, <1>3, <1>4, <1>5, <1>6, <1>7 DEF Next

LEMMA ExclusiveInvariant == Undisturbed /\ Spec => [](TypeOK /\ Exclusive)
<1>1. Init => Exclusive
  BY InodesAssumption
     DEF Init, Exclusive, OwnerHoldsPath, PathHasOwner, OwnFileUnique,
         HeartbeatBesideOwner, SeenOwnerMatches, ArchiveIsLate, Procs, Owning, Releasing
<1>2. Undisturbed /\ [Next]_vars => Undisturbed'
  BY DEF Undisturbed
<1> QED
  BY <1>1, <1>2, ExclusiveStep, TypeCorrect, PTL DEF Spec

(* Mutual exclusion: with no faults injected, no --force and inode numbers *)
(* that are not handed out again, at most one run is in the locked section. *)
THEOREM Exclusion == Undisturbed /\ Spec => []MutualExclusion
<1>1. TypeOK /\ Exclusive => MutualExclusion
  BY InodesAssumption DEF TypeOK, Exclusive, OwnerHoldsPath, OwnFileUnique, MutualExclusion, Owning
<1> QED
  BY <1>1, ExclusiveInvariant, PTL

(* The same invariant keeps the file of the run inside at the lock path. *)
THEOREM HolderKeeps == Undisturbed /\ Spec => []HolderKeepsFile
<1>1. Exclusive => HolderKeepsFile
  BY DEF Exclusive, OwnerHoldsPath, HolderKeepsFile, Owning
<1> QED
  BY <1>1, ExclusiveInvariant, PTL

-----------------------------------------------------------------------------
(* Tokens, under every fault.                                              *)

(* A token is only ever found in the file its run created, and a run that  *)
(* has created none has no heartbeat either.                               *)
TokensInPlace ==
    /\ \A i \in Inodes, r \in Runs : file[i].run = r => own[r] = i
    /\ \A r \in Runs :
         /\ pc[r] \in Owning \cup Terminal \/ own[r] = NoFile
         /\ pc[r] \in {"held", "joining", "unlink", "remove"} \cup Terminal \/ hb[r] = "off"
    /\ HeartbeatTouchesOwn

LEMMA TokensStep == TypeOK /\ TokensInPlace /\ [Next]_vars => TokensInPlace'
<1> SUFFICES ASSUME TypeOK, TokensInPlace, [Next]_vars PROVE TokensInPlace'
  OBVIOUS
<1> USE FlagsAssumption, RunsAssumption, InodesAssumption
        DEF TypeOK, TokensInPlace, HeartbeatTouchesOwn, Goto,
            Disk, Threads, Reading, Procs, Releasing, Terminal, Owning
<1>1. ASSUME NEW r \in Runs, Acquire(r) PROVE TokensInPlace'
  <2>1. CASE Begin(r)
    BY <2>1 DEF Begin, Start
  <2>2. CASE ReadOwner(r)
    BY <2>2 DEF ReadOwner
  <2>3. CASE OwnerAlive(r)
    BY <2>3 DEF OwnerAlive
  <2>4. CASE OwnerGone(r)
    BY <2>4 DEF OwnerGone
  <2>5. CASE FindsNoLock(r)
    BY <2>5 DEF FindsNoLock
  <2>6. CASE FindsLockHeld(r)
    BY <2>6 DEF FindsLockHeld, Start
  <2>7. CASE FindsStaleLock(r)
    BY <2>7 DEF FindsStaleLock
  <2>8. CASE VerifySameFile(r)
    BY <2>8 DEF VerifySameFile
  <2>9. CASE Replace(r)
    BY <2>9 DEF Replace
  <2>10. CASE CreateLosesRace(r)
    BY <2>10 DEF CreateLosesRace
  <2>11. CASE Create(r)
    BY <2>11 DEF Create
  <2>12. CASE WritePayload(r)
    BY <2>12 DEF WritePayload
  <2> QED
    BY <1>1, <2>1, <2>2, <2>3, <2>4, <2>5, <2>6, <2>7, <2>8, <2>9, <2>10, <2>11, <2>12 DEF Acquire
<1>2. ASSUME NEW r \in Runs, Heartbeat(r) PROVE TokensInPlace'
  <2>1. CASE HeartbeatOpens(r)
    BY <2>1 DEF HeartbeatOpens
  <2>2. CASE HeartbeatTruncates(r)
    BY <2>2 DEF HeartbeatTruncates
  <2>3. CASE HeartbeatWrites(r)
    BY <2>3 DEF HeartbeatWrites
  <2>4. CASE HeartbeatStops(r)
    BY <2>4 DEF HeartbeatStops
  <2> QED
    BY <1>2, <2>1, <2>2, <2>3, <2>4 DEF Heartbeat
<1>3. ASSUME NEW r \in Runs, Leave(r) PROVE TokensInPlace'
  <2>1. CASE Release(r)
    BY <2>1 DEF Release
  <2>2. CASE JoinReturns(r)
    BY <2>2 DEF JoinReturns
  <2>3. CASE CheckOwned(r)
    BY <2>3 DEF CheckOwned, Finish
  <2>4. CASE Unlink(r)
    BY <2>4 DEF Unlink, Finish
  <2> QED
    BY <1>3, <2>1, <2>2, <2>3, <2>4 DEF Leave
<1>4. ASSUME NEW r \in Runs, Fault(r) PROVE TokensInPlace'
  <2>1. CASE WriteFails(r)
    BY <2>1 DEF WriteFails
  <2>2. CASE HeartbeatFails(r)
    BY <2>2 DEF HeartbeatFails
  <2>3. CASE Sigterm(r)
    BY <2>3 DEF Sigterm
  <2>4. CASE Crash(r)
    BY <2>4 DEF Crash
  <2> QED
    BY <1>4, <2>1, <2>2, <2>3, <2>4 DEF Fault
<1>5. ASSUME NEW o \in Operators, Clear(o) PROVE TokensInPlace'
  <2>1. CASE ClearInspects(o)
    BY <2>1 DEF ClearInspects
  <2>2. CASE VerifySameFile(o)
    BY <2>2 DEF VerifySameFile
  <2>3. CASE Replace(o)
    BY <2>3 DEF Replace
  <2> QED
    BY <1>5, <2>1, <2>2, <2>3 DEF Clear
<1>6. CASE Tick
  <2>1. \A i \in Inodes : file'[i].run = file[i].run
    BY <1>6 DEF Tick
  <2>2. UNCHANGED <<own, pc, hb, fd>>
    BY <1>6 DEF Tick
  <2> QED
    BY <2>1, <2>2
<1>7. CASE UNCHANGED vars
  BY <1>7 DEF vars
<1> QED
  BY <1>1, <1>2, <1>3, <1>4, <1>5, <1>6, <1>7 DEF Next

(* Whatever crashes, pauses, fails or is recycled, a heartbeat writes only *)
(* into the file its own run created.                                      *)
THEOREM HeartbeatSafe == Spec => []HeartbeatTouchesOwn
<1>1. Init => TokensInPlace
  BY RunsAssumption, InodesAssumption DEF Init, TokensInPlace, HeartbeatTouchesOwn, Procs
<1>2. TokensInPlace => HeartbeatTouchesOwn
  BY DEF TokensInPlace
<1> QED
  BY <1>1, <1>2, TokensStep, TypeCorrect, PTL DEF Spec

-----------------------------------------------------------------------------
(* Mutual exclusion of two runs, with crashes.  A lock that is taken away  *)
(* belongs to the other run, and that one has ended: with a third run, two *)
(* contenders may find the same abandoned file, and this is no longer so.  *)

(* A run that is past Create is the only one, owns the file the path names *)
(* and keeps it recent; inside, it finds its token there.                  *)
OneOwner ==
    \A r \in Runs : pc[r] \in Owning =>
        /\ path = own[r] /\ own[r] \in used /\ file[own[r]].age <= MaxLag
        /\ \A s \in Runs : pc[s] \in Owning => s = r
        /\ \A s \in Runs : s # r /\ hb[s] \in {"trunc", "write"} => own[s] # own[r]
        /\ pc[r] = "held" =>
             hb[r] # "off" /\ file[own[r]].run = IF hb[r] = "write" THEN NoRun ELSE r

(* What is at the path was put there by a run that is past Create or over. *)
PathHasCreator ==
    path # NoFile => \E r \in Runs : own[r] = path /\ pc[r] \in Owning \cup Terminal

(* A heartbeat that is writing has its run's file open. *)
HeartbeatHasFile ==
    \A r \in Runs : hb[r] \in {"trunc", "write"} => own[r] \in used /\ fd[r] = own[r]

(* Whoever asks for a pid asks for that of the other run, and whoever      *)
(* archives its file has found the other run over.                         *)
OtherIsOver ==
    /\ \A r \in Runs : pc[r] = "pid" => seen[r] \in Runs \ {r}
    /\ \A r, s \in Runs : pc[r] \in {"verify", "replace"} /\ s # r => pc[s] \in Terminal

PairExclusive == OneOwner /\ PathHasCreator /\ HeartbeatHasFile /\ OtherIsOver

(* The instances this is about: two runs, of either kind of lock, that may *)
(* crash, be killed by SIGTERM, refresh slowly and recycle inodes, as long *)
(* as no write fails, nobody is paused past the limits, and nobody clears. *)
TwoRuns ==
    /\ \A r, s, t \in Runs : r = s \/ s = t \/ r = t
    /\ Operators = {} /\ "io" \notin Faults /\ "pause" \notin Faults

\* A run that has written its token is still the one owner.
LEMMA WritePayloadOwns ==
    ASSUME TypeOK, OneOwner, NEW r \in Runs, WritePayload(r)
    PROVE  OneOwner'
<1>1. /\ path = own[r] /\ own[r] \in used /\ \A s \in Runs : pc[s] \in Owning => s = r
      /\ \A s \in Runs : s # r /\ hb[s] \in {"trunc", "write"} => own[s] # own[r]
  BY DEF WritePayload, OneOwner, Owning
<1>2. /\ pc' = [pc EXCEPT ![r] = "held"] /\ hb' = [hb EXCEPT ![r] = "wait"]
      /\ file' = [file EXCEPT ![own[r]] = [run |-> r, age |-> 0]] /\ UNCHANGED <<path, used, own>>
  BY DEF WritePayload, Goto
<1>3. \A s \in Runs : pc'[s] \in Owning => s = r
  BY <1>1, <1>2 DEF TypeOK, Owning, Procs
<1>4. \A s \in Runs : s # r /\ hb'[s] \in {"trunc", "write"} => own'[s] # own'[r]
  BY <1>1, <1>2 DEF TypeOK
<1>5. own[r] \in Inodes
  BY <1>1, InodesAssumption DEF TypeOK
<1>6. file'[own'[r]].run = r /\ file'[own'[r]].age <= MaxLag /\ hb'[r] = "wait"
  BY <1>2, <1>5, AgesAssumption DEF TypeOK
<1> QED
  BY <1>1, <1>2, <1>3, <1>4, <1>6 DEF OneOwner

LEMMA PairStep ==
    TwoRuns /\ TypeOK /\ TokensInPlace /\ PairExclusive /\ [Next]_vars => PairExclusive'
<1> SUFFICES ASSUME TwoRuns, TypeOK, TokensInPlace, PairExclusive, [Next]_vars PROVE PairExclusive'
  OBVIOUS
<1> USE FlagsAssumption, RunsAssumption, InodesAssumption, AgesAssumption
        DEF TwoRuns, TypeOK, TokensInPlace, PairExclusive, OneOwner, PathHasCreator, HeartbeatHasFile,
            OtherIsOver, HeartbeatTouchesOwn, Goto, Disk, Threads, Reading, Procs, Releasing, Terminal, Owning
<1>1. ASSUME NEW r \in Runs, Acquire(r) PROVE PairExclusive'
  <2>1. CASE Begin(r)
    BY <2>1 DEF Begin, Start
  <2>2. CASE ReadOwner(r)
    <3>1. /\ pc[r] = "dead_check" /\ UNCHANGED <<path, file, archived, used, own, hb, fd, term>>
          /\ pc'[r] = "pid" => seen' = [seen EXCEPT ![r] = file[path].run] /\ path \in Inodes /\ file[path].run # NoRun
          /\ pc'[r] # "pid" => seen' = seen
      BY <2>2 DEF ReadOwner
    <3>2. own[r] = NoFile
      BY <3>1
    <3>3. pc'[r] = "pid" => file[path].run \in Runs \ {r}
      <4>1. path \in Inodes => file[path].run \in Runs \cup {NoRun} /\ path # own[r]
        BY <3>2
      <4>2. path \in Inodes => file[path].run # r
        BY <4>1
      <4> QED
        BY <3>1, <4>1, <4>2
    <3>4. PICK where \in {"inspect", "pid"} : pc' = [pc EXCEPT ![r] = where]
      BY <2>2 DEF ReadOwner
    <3>5. OneOwner' /\ PathHasCreator' /\ HeartbeatHasFile'
      BY <3>1, <3>4
    <3>6. OtherIsOver'
      <4>1. ASSUME NEW q \in Runs, pc'[q] = "pid" PROVE seen'[q] \in Runs \ {q}
        <5>1. CASE q = r
          BY <3>1, <3>3, <4>1, <5>1
        <5>2. CASE q # r
          <6>1. pc[q] = "pid"
            BY <3>4, <4>1, <5>2
          <6>2. seen'[q] = seen[q]
            BY <3>1, <3>4, <5>2
          <6> QED
            BY <6>1, <6>2
        <5> QED
          BY <5>1, <5>2
      <4>2. \A q, u \in Runs : pc'[q] \in {"verify", "replace"} /\ u # q => pc'[u] \in Terminal
        BY <3>1, <3>4
      <4> QED
        BY <4>1, <4>2
    <3> QED
      BY <3>5, <3>6
  <2>3. CASE OwnerAlive(r)
    BY <2>3 DEF OwnerAlive
  <2>4. CASE OwnerGone(r)
    BY <2>4 DEF OwnerGone
  <2>5. CASE FindsNoLock(r)
    BY <2>5 DEF FindsNoLock
  <2>6. CASE FindsLockHeld(r)
    <3>1. PICK where \in {"failed", "dead_check", "inspect"} :
            pc[r] = "inspect" /\ pc' = [pc EXCEPT ![r] = where]
            /\ UNCHANGED <<path, file, archived, used, own, hb, fd, term, snap, seen, via>>
      BY <2>6 DEF FindsLockHeld, Start
    <3>2. OneOwner' /\ HeartbeatHasFile' /\ OtherIsOver'
      BY <3>1
    <3>3. PathHasCreator'
      BY <3>1
    <3> QED
      BY <3>2, <3>3
  <2>7. CASE FindsStaleLock(r)
    BY <2>7 DEF FindsStaleLock
  <2>8. CASE VerifySameFile(r)
    BY <2>8 DEF VerifySameFile
  <2>9. CASE Replace(r)
    BY <2>9 DEF Replace
  <2>10. CASE CreateLosesRace(r)
    BY <2>10 DEF CreateLosesRace
  <2>11. CASE Create(r)
    <3>1. PICK i \in Inodes :
            /\ Free(i) /\ path' = i /\ file' = [file EXCEPT ![i] = [run |-> NoRun, age |-> 0]]
            /\ own' = [own EXCEPT ![r] = i] /\ pc' = [pc EXCEPT ![r] = "write"]
            /\ used' = used \cup {i} /\ pc[r] = "create" /\ path = NoFile /\ UNCHANGED <<seen, hb, fd>>
      BY <2>11 DEF Create
    <3>2. \A u \in Runs : pc[u] \notin Owning
      BY <3>1
    <3>3. \A u \in Runs : u # r => pc'[u] \notin Owning
      BY <3>1, <3>2
    <3>4. \A u \in Runs : u # r /\ hb[u] \in {"trunc", "write"} => own[u] # i
      <4>1. CASE InodeReuse
        BY <3>1, <4>1 DEF Free
      <4>2. CASE ~InodeReuse
        BY <3>1, <4>2 DEF Free
      <4> QED
        BY <4>1, <4>2
    <3>5. OneOwner'
      BY <3>1, <3>3, <3>4
    <3>6. PathHasCreator' /\ HeartbeatHasFile' /\ OtherIsOver'
      BY <3>1, <3>2
    <3> QED
      BY <3>5, <3>6
  <2>12. CASE WritePayload(r)
    <3>1. OneOwner'
      BY <2>12, WritePayloadOwns, Zenon
    <3>2. PathHasCreator' /\ HeartbeatHasFile' /\ OtherIsOver'
      BY <2>12 DEF WritePayload
    <3> QED
      BY <3>1, <3>2
  <2> QED
    BY <1>1, <2>1, <2>2, <2>3, <2>4, <2>5, <2>6, <2>7, <2>8, <2>9, <2>10, <2>11, <2>12 DEF Acquire
<1>2. ASSUME NEW r \in Runs, Heartbeat(r) PROVE PairExclusive'
  <2>1. CASE HeartbeatOpens(r)
    BY <2>1 DEF HeartbeatOpens
  <2>2. CASE HeartbeatTruncates(r)
    BY <2>2 DEF HeartbeatTruncates
  <2>3. CASE HeartbeatWrites(r)
    BY <2>3 DEF HeartbeatWrites
  <2>4. CASE HeartbeatStops(r)
    BY <2>4 DEF HeartbeatStops
  <2> QED
    BY <1>2, <2>1, <2>2, <2>3, <2>4 DEF Heartbeat
<1>3. ASSUME NEW r \in Runs, Leave(r) PROVE PairExclusive'
  <2>1. CASE Release(r)
    BY <2>1 DEF Release
  <2>2. CASE JoinReturns(r)
    BY <2>2 DEF JoinReturns
  <2>3. CASE CheckOwned(r)
    <3>1. PICK where \in {"remove", "done", "dead"}, beat \in {"off", hb[r]}, open \in {NoFile, fd[r]} :
            /\ pc[r] = "unlink" /\ pc' = [pc EXCEPT ![r] = where]
            /\ hb' = [hb EXCEPT ![r] = beat] /\ fd' = [fd EXCEPT ![r] = open] /\ (beat = "off" \/ open = fd[r])
            /\ path' = path /\ UNCHANGED <<file, archived, used, snap, seen, via, own, term>>
      BY <2>3 DEF CheckOwned, Finish
    <3>2. OneOwner'
      BY <3>1
    <3>3. PathHasCreator' /\ HeartbeatHasFile'
      BY <3>1
    <3>4. OtherIsOver'
      BY <3>1
    <3> QED
      BY <3>2, <3>3, <3>4
  <2>4. CASE Unlink(r)
    <3>1. PICK where \in {"done", "dead"}, beat \in {"off", hb[r]}, open \in {NoFile, fd[r]} :
            /\ pc[r] = "remove" /\ pc' = [pc EXCEPT ![r] = where]
            /\ hb' = [hb EXCEPT ![r] = beat] /\ fd' = [fd EXCEPT ![r] = open] /\ (beat = "off" \/ open = fd[r])
            /\ path' = NoFile /\ UNCHANGED <<file, archived, used, snap, seen, via, own, term>>
      BY <2>4 DEF Unlink, Finish
    <3>2. OneOwner'
      BY <3>1
    <3>3. PathHasCreator' /\ HeartbeatHasFile'
      BY <3>1
    <3>4. OtherIsOver'
      BY <3>1
    <3> QED
      BY <3>2, <3>3, <3>4
  <2> QED
    BY <1>3, <2>1, <2>2, <2>3, <2>4 DEF Leave
<1>4. ASSUME NEW r \in Runs, Fault(r) PROVE PairExclusive'
  <2>1. CASE WriteFails(r)
    BY <2>1 DEF WriteFails
  <2>2. CASE HeartbeatFails(r)
    BY <2>2 DEF HeartbeatFails
  <2>3. CASE Sigterm(r)
    BY <2>3 DEF Sigterm
  <2>4. CASE Crash(r)
    BY <2>4 DEF Crash
  <2> QED
    BY <1>4, <2>1, <2>2, <2>3, <2>4 DEF Fault
<1>5. ASSUME NEW o \in Operators, Clear(o) PROVE FALSE
  OBVIOUS
<1>6. CASE Tick
  BY <1>6 DEF Tick, Prompt
<1>7. CASE UNCHANGED vars
  BY <1>7 DEF vars
<1> QED
  BY <1>1, <1>2, <1>3, <1>4, <1>5, <1>6, <1>7 DEF Next

LEMMA PairInvariant == TwoRuns /\ Spec => [](TypeOK /\ PairExclusive)
<1>1. Init => TokensInPlace /\ PairExclusive
  BY RunsAssumption, InodesAssumption
     DEF Init, TokensInPlace, HeartbeatTouchesOwn, PairExclusive, OneOwner, PathHasCreator, HeartbeatHasFile,
         OtherIsOver, Procs, Owning, Releasing
<1>2. TwoRuns /\ [Next]_vars => TwoRuns'
  BY DEF TwoRuns
<1> QED
  BY <1>1, <1>2, PairStep, TokensStep, TypeCorrect, PTL DEF Spec

(* Mutual exclusion of two runs, whichever of them crashes or is killed    *)
(* and whenever, with either kind of lock, slow refreshes and recycled     *)
(* inode numbers.                                                          *)
THEOREM ExclusionOfTwo == TwoRuns /\ Spec => []MutualExclusion
<1>1. TypeOK /\ PairExclusive => MutualExclusion
  BY DEF PairExclusive, OneOwner, MutualExclusion, Owning
<1> QED
  BY <1>1, PairInvariant, PTL

(* The path names the file of the run inside, whatever the other one finds *)
(* and archives.                                                           *)
THEOREM HolderOfTwoKeeps == TwoRuns /\ Spec => []HolderKeepsFile
<1>1. PairExclusive => HolderKeepsFile
  BY DEF PairExclusive, OneOwner, HolderKeepsFile, Owning
<1> QED
  BY <1>1, PairInvariant, PTL

-----------------------------------------------------------------------------
(* What a release leaves behind.                                           *)

(* The token a run looks for when it releases is in the file it created,   *)
(* once its heartbeat has been joined.                                     *)
TokenKept ==
    /\ \A r \in Runs : own[r] # NoFile => own[r] \in used
    /\ \A r, s \in Runs : own[r] # NoFile /\ own[r] = own[s] => r = s
    /\ \A r \in Runs : hb[r] \in {"trunc", "write"} => fd[r] = own[r]
    /\ \A r \in Runs : pc[r] \in Owning => own[r] # NoFile
    /\ \A r \in Runs : pc[r] \in Owning \ {"write"} /\ (r \in term => pc[r] \in {"held", "joining"}) =>
         file[own[r]].run = IF hb[r] = "write" THEN NoRun ELSE r
    /\ \A r \in Runs : pc[r] \in {"unlink", "remove"} /\ r \notin term => hb[r] = "off"

(* The instances this is about: reads and writes of the lock file do not   *)
(* fail, a refresh does not outlast the join, and a freed inode number is  *)
(* not handed out again.                                                   *)
Orderly == "io" \notin Faults /\ "slow" \notin Faults /\ InodeReuse = FALSE

Released == TokenKept /\ ReleaseLeavesNothing

LEMMA ReleasedStep ==
    Orderly /\ TypeOK /\ TokensInPlace /\ Released /\ [Next]_vars => Released'
<1> SUFFICES ASSUME Orderly, TypeOK, TokensInPlace, Released, [Next]_vars PROVE Released'
  OBVIOUS
<1> USE FlagsAssumption, RunsAssumption, InodesAssumption
        DEF Orderly, TypeOK, TokensInPlace, Released, TokenKept, ReleaseLeavesNothing, HeartbeatTouchesOwn,
            Goto, Disk, Threads, Reading, Procs, Releasing, Terminal, Owning
<1>1. ASSUME NEW r \in Runs, Acquire(r) PROVE Released'
  <2>1. CASE Begin(r)
    BY <2>1 DEF Begin, Start
  <2>2. CASE ReadOwner(r)
    BY <2>2 DEF ReadOwner
  <2>3. CASE OwnerAlive(r)
    BY <2>3 DEF OwnerAlive
  <2>4. CASE OwnerGone(r)
    BY <2>4 DEF OwnerGone
  <2>5. CASE FindsNoLock(r)
    BY <2>5 DEF FindsNoLock
  <2>6. CASE FindsLockHeld(r)
    BY <2>6 DEF FindsLockHeld, Start
  <2>7. CASE FindsStaleLock(r)
    BY <2>7 DEF FindsStaleLock
  <2>8. CASE VerifySameFile(r)
    BY <2>8 DEF VerifySameFile
  <2>9. CASE Replace(r)
    BY <2>9 DEF Replace
  <2>10. CASE CreateLosesRace(r)
    BY <2>10 DEF CreateLosesRace
  <2>11. CASE Create(r)
    BY <2>11 DEF Create, Free
  <2>12. CASE WritePayload(r)
    BY <2>12 DEF WritePayload
  <2> QED
    BY <1>1, <2>1, <2>2, <2>3, <2>4, <2>5, <2>6, <2>7, <2>8, <2>9, <2>10, <2>11, <2>12 DEF Acquire
<1>2. ASSUME NEW r \in Runs, Heartbeat(r) PROVE Released'
  <2>1. CASE HeartbeatOpens(r)
    <3>1. /\ hb[r] = "wait" /\ pc[r] = "held"
          /\ UNCHANGED <<path, file, archived, used, pc, own, term>>
      BY <2>1 DEF HeartbeatOpens
    <3>2. CASE path # NoFile /\ file[path].run = r
      <4>1. /\ fd' = [fd EXCEPT ![r] = path] /\ hb' = [hb EXCEPT ![r] = "trunc"]
            /\ own[r] = path
        BY <2>1, <3>2 DEF HeartbeatOpens
      <4> QED
        BY <3>1, <4>1
    <3>3. CASE ~(path # NoFile /\ file[path].run = r)
      <4>1. fd' = fd /\ hb' = [hb EXCEPT ![r] = "off"]
        BY <2>1, <3>3 DEF HeartbeatOpens
      <4> QED
        BY <3>1, <4>1
    <3> QED
      BY <3>2, <3>3
  <2>2. CASE HeartbeatTruncates(r)
    BY <2>2 DEF HeartbeatTruncates
  <2>3. CASE HeartbeatWrites(r)
    BY <2>3 DEF HeartbeatWrites
  <2>4. CASE HeartbeatStops(r)
    BY <2>4 DEF HeartbeatStops
  <2> QED
    BY <1>2, <2>1, <2>2, <2>3, <2>4 DEF Heartbeat
<1>3. ASSUME NEW r \in Runs, Leave(r) PROVE Released'
  <2>1. CASE Release(r)
    BY <2>1 DEF Release
  <2>2. CASE JoinReturns(r)
    BY <2>2 DEF JoinReturns
  <2>3. CASE CheckOwned(r)
    BY <2>3 DEF CheckOwned, Finish
  <2>4. CASE Unlink(r)
    BY <2>4 DEF Unlink, Finish
  <2> QED
    BY <1>3, <2>1, <2>2, <2>3, <2>4 DEF Leave
<1>4. ASSUME NEW r \in Runs, Fault(r) PROVE Released'
  <2>1. CASE WriteFails(r)
    BY <2>1 DEF WriteFails
  <2>2. CASE HeartbeatFails(r)
    BY <2>2 DEF HeartbeatFails
  <2>3. CASE Sigterm(r)
    BY <2>3 DEF Sigterm
  <2>4. CASE Crash(r)
    BY <2>4 DEF Crash
  <2> QED
    BY <1>4, <2>1, <2>2, <2>3, <2>4 DEF Fault
<1>5. ASSUME NEW o \in Operators, Clear(o) PROVE Released'
  <2>1. CASE ClearInspects(o)
    BY <2>1 DEF ClearInspects
  <2>2. CASE VerifySameFile(o)
    BY <2>2 DEF VerifySameFile
  <2>3. CASE Replace(o)
    BY <2>3 DEF Replace
  <2> QED
    BY <1>5, <2>1, <2>2, <2>3 DEF Clear
<1>6. CASE Tick
  BY <1>6 DEF Tick
<1>7. CASE UNCHANGED vars
  BY <1>7 DEF vars
<1> QED
  BY <1>1, <1>2, <1>3, <1>4, <1>5, <1>6, <1>7 DEF Next

(* A run that released the lock has left no lock file behind, whichever    *)
(* processes crash, are killed by SIGTERM or are paused, however many run  *)
(* and clear: between two refreshes its own token is always found, and the *)
(* join waits for a refresh under way (_unlink_owned_lock).                *)
THEOREM ReleaseClean == Orderly /\ Spec => []ReleaseLeavesNothing
<1>1. Init => TokensInPlace /\ Released
  BY RunsAssumption, InodesAssumption
  DEF Init, TokensInPlace, HeartbeatTouchesOwn, Released, TokenKept, ReleaseLeavesNothing, Procs, Owning,
      Releasing
<1>2. Released => ReleaseLeavesNothing
  BY DEF Released
<1>3. Orderly /\ [Next]_vars => Orderly'
  BY DEF Orderly
<1> QED
  BY <1>1, <1>2, <1>3, TokensStep, ReleasedStep, TypeCorrect, PTL DEF Spec
=============================================================================
