---------------------------- MODULE PipelineLock ----------------------------
(***************************************************************************)
(* The durable lock file that keeps two runs of one job from overlapping   *)
(* (jira/pipeline_lock.py) and the waiting, host-local variant of it       *)
(* (file_lock.py).  A lock is a JSON file at one well-known path.  A run   *)
(* creates it with O_EXCL, a heartbeat thread rewrites it in place, and a  *)
(* contender that finds it too old, or whose owner's pid is gone, renames  *)
(* it away ("archives" it) and creates its own.                            *)
(*                                                                         *)
(* The directory entry (path), the inodes and their contents are separate  *)
(* state: every hazard of the code is a step that checks one and then      *)
(* acts on the other.  Ages stand for the difference between the clock and *)
(* the timestamp in a file, counted in ticks and saturating past every     *)
(* limit they are compared with.                                           *)
(***************************************************************************)
EXTENDS Integers, FiniteSets

CONSTANTS
    Runs,           \* lock instances; each has its own token, run id and pid
    Operators,      \* people running "pipeline_lock clear"
    Inodes,         \* inode numbers of the lock's directory
    NoFile,         \* no directory entry, or no inode held
    NoRun,          \* the owner read from an empty or torn file
    Stale,          \* stale_seconds
    ClearMin,       \* --min-age-seconds of the clear command
    MaxLag,         \* bound on the age of a healthy holder's file
    ForceClear,     \* is --force passed to clear?
    LocalRecovery,  \* FileLock (TRUE) or PipelineLock (FALSE)
    InodeReuse,     \* may the filesystem hand out a freed inode number again?
    Patience,       \* wait_seconds: "none" (0), "some", or "forever"
    Faults          \* which of AllFaults the environment may inject

AllFaults == {"crash", "sigterm", "io", "slow", "pause"}

Procs == Runs \cup Operators
Cap == 1 + (IF Stale > ClearMin THEN Stale ELSE ClearMin)

ASSUME RunsAssumption == NoRun \notin Runs /\ Runs \cap Operators = {}
ASSUME InodesAssumption == NoFile \notin Inodes
ASSUME AgesAssumption ==
    /\ Stale \in Nat /\ ClearMin \in Nat /\ MaxLag \in Nat
    /\ MaxLag <= Stale /\ MaxLag < ClearMin
ASSUME FlagsAssumption ==
    /\ ForceClear \in BOOLEAN /\ LocalRecovery \in BOOLEAN /\ InodeReuse \in BOOLEAN
    /\ Patience \in {"none", "some", "forever"}
    /\ Faults \subseteq AllFaults

VARIABLES
    path,     \* the inode the lock path names
    file,     \* contents of every inode: owner named in it, age of its stamp
    archived, \* inodes renamed to <lock>.stale-...
    used,     \* inodes that have been allocated at some time
    pc,       \* where each run and operator is
    snap,     \* the inode a process inspected and is about to act on
    seen,     \* the owner a run read in _archive_dead_local_owner
    via,      \* why a process archives: the owner is dead, the file is stale, or clear
    own,      \* the inode a run created
    hb,       \* a run's heartbeat thread
    fd,       \* the inode its heartbeat has open
    term      \* runs whose SIGTERM handler is executing release

vars == <<path, file, archived, used, pc, snap, seen, via, own, hb, fd, term>>

Terminal == {"done", "failed", "dead"}
Releasing == {"joining", "unlink", "remove"}
Owning == {"write", "held"} \cup Releasing

(* An inode is free when nothing links it and nobody has it open. *)
Free(i) ==
    IF InodeReuse
    THEN /\ i # path /\ i \notin archived
         /\ \A r \in Runs : fd[r] # i /\ ~(pc[r] = "write" /\ own[r] = i)
    ELSE i \notin used

Init ==
    /\ path = NoFile
    /\ file = [i \in Inodes |-> [run |-> NoRun, age |-> 0]]
    /\ archived = {} /\ used = {} /\ term = {}
    /\ pc = [p \in Procs |-> "idle"]
    /\ snap = [p \in Procs |-> NoFile]
    /\ seen = [r \in Runs |-> NoRun]
    /\ via = [p \in Procs |-> "stale"]
    /\ own = [r \in Runs |-> NoFile]
    /\ hb = [r \in Runs |-> "off"]
    /\ fd = [r \in Runs |-> NoFile]

Goto(p, where) == pc' = [pc EXCEPT ![p] = where]
Disk == <<path, file, archived, used>>
Threads == <<own, hb, fd, term>>
Reading == <<snap, seen, via>>

(* acquire() starts one round: FileLock first looks for a dead local owner. *)
Start == IF LocalRecovery THEN "dead_check" ELSE "inspect"

-----------------------------------------------------------------------------
(* Plausible mistakes in the code, each of which breaks a property.  None  *)
(* is part of Next.                                                        *)

(* A file without a readable timestamp counts as written at epoch zero. *)
CreateWithoutMtime(r) ==
    /\ pc[r] = "create" /\ path = NoFile
    /\ \E i \in Inodes :
         /\ Free(i) /\ path' = i /\ used' = used \cup {i}
         /\ file' = [file EXCEPT ![i] = [run |-> NoRun, age |-> Cap + 1]]
         /\ own' = [own EXCEPT ![r] = i]
    /\ Goto(r, "write")
    /\ UNCHANGED <<archived, Reading, hb, fd, term>>

(* The lock file is created without O_EXCL, by renaming a temporary file. *)
CreateWithoutExcl(r) ==
    /\ pc[r] = "create"
    /\ \E i \in Inodes :
         /\ Free(i) /\ path' = i /\ used' = used \cup {i}
         /\ file' = [file EXCEPT ![i] = [run |-> NoRun, age |-> 0]]
         /\ own' = [own EXCEPT ![r] = i]
    /\ Goto(r, "write")
    /\ UNCHANGED <<archived, Reading, hb, fd, term>>

(* Staleness is decided before a missed heartbeat can be told from a late one. *)
FindsLateLock(r) ==
    /\ pc[r] = "inspect" /\ path # NoFile /\ file[path].age >= MaxLag
    /\ snap' = [snap EXCEPT ![r] = path]
    /\ via' = [via EXCEPT ![r] = "stale"]
    /\ Goto(r, "verify")
    /\ UNCHANGED <<Disk, Threads, seen>>

(* Any existing file counts as held, whatever its age. *)
FindsAnyLock(r) ==
    /\ pc[r] = "inspect" /\ path # NoFile
    /\ \/ Patience # "forever" /\ Goto(r, "failed")
       \/ Patience # "none" /\ Goto(r, Start)
    /\ UNCHANGED <<Disk, Threads, Reading>>

(* The heartbeat does not compare the token before rewriting the file. *)
HeartbeatTrustsPath(r) ==
    /\ hb[r] = "wait" /\ pc[r] = "held"
    /\ IF path # NoFile
       THEN fd' = [fd EXCEPT ![r] = path] /\ hb' = [hb EXCEPT ![r] = "trunc"]
       ELSE hb' = [hb EXCEPT ![r] = "off"] /\ UNCHANGED fd
    /\ UNCHANGED <<Disk, pc, Reading, own, term>>

(* release does not wait for a refresh in progress. *)
JoinSkipped(r) ==
    /\ pc[r] = "joining"
    /\ Goto(r, "unlink")
    /\ UNCHANGED <<Disk, Threads, Reading>>

-----------------------------------------------------------------------------
(* Acquisition.                                                            *)


Begin(r) ==
    /\ pc[r] = "idle"
    /\ Goto(r, Start)
    /\ UNCHANGED <<Disk, Threads, Reading>>

(* _archive_dead_local_owner reads the file; without a hostname and a pid  *)
(* in it there is nothing to recover.                                      *)
ReadOwner(r) ==
    /\ pc[r] = "dead_check"
    /\ IF path = NoFile \/ (path # NoFile /\ file[path].run = NoRun)
       THEN Goto(r, "inspect") /\ UNCHANGED Reading
       ELSE /\ snap' = [snap EXCEPT ![r] = path]
            /\ seen' = [seen EXCEPT ![r] = file[path].run]
            /\ Goto(r, "pid") /\ UNCHANGED via
    /\ UNCHANGED <<Disk, Threads>>

(* os.kill(pid, 0): a pid is certainly taken while its run is going; after *)
(* that the process may linger, or the pid may have been given out again.  *)
OwnerAlive(r) ==
    /\ pc[r] = "pid"
    /\ Goto(r, "inspect")
    /\ UNCHANGED <<Disk, Threads, Reading>>

OwnerGone(r) ==
    /\ pc[r] = "pid" /\ pc[seen[r]] \in Terminal /\ hb[seen[r]] = "off"
    /\ via' = [via EXCEPT ![r] = "dead"]
    /\ Goto(r, "verify")
    /\ UNCHANGED <<Disk, Threads, snap, seen>>

(* PipelineLock.__enter__ inspects the path. *)
FindsNoLock(r) ==
    /\ pc[r] = "inspect" /\ path = NoFile
    /\ Goto(r, "create")
    /\ UNCHANGED <<Disk, Threads, Reading>>

(* A recent lock is held: give up, or sleep and start another round. *)
FindsLockHeld(r) ==
    /\ pc[r] = "inspect" /\ path # NoFile /\ file[path].age <= Stale
    /\ \/ Patience # "forever" /\ Goto(r, "failed")
       \/ Patience # "none" /\ Goto(r, Start)
    /\ UNCHANGED <<Disk, Threads, Reading>>

FindsStaleLock(r) ==
    /\ pc[r] = "inspect" /\ path # NoFile /\ file[path].age > Stale
    /\ snap' = [snap EXCEPT ![r] = path]
    /\ via' = [via EXCEPT ![r] = "stale"]
    /\ Goto(r, "verify")
    /\ UNCHANGED <<Disk, Threads, seen>>

(* archive_lock: the path must still name the inspected inode ... *)
VerifySameFile(p) ==
    /\ pc[p] = "verify"
    /\ Goto(p, CASE path = snap[p]                        -> "replace"
                 [] path # snap[p] /\ via[p] = "clear"    -> "idle"
                 [] OTHER                                 -> "failed")
    /\ UNCHANGED <<Disk, Threads, Reading>>

(* ... and then whatever the path names is renamed. *)
Replace(p) ==
    /\ pc[p] = "replace"
    /\ path' = NoFile
    /\ archived' = IF path = NoFile THEN archived ELSE archived \cup {path}
    /\ Goto(p, CASE via[p] = "clear"                      -> "idle"
                 [] via[p] = "stale" /\ path # NoFile     -> "create"
                 [] OTHER                                 -> "inspect")
    /\ UNCHANGED <<file, used, Threads, Reading>>

(* os.open(O_CREAT | O_EXCL) *)
CreateLosesRace(r) ==
    /\ pc[r] = "create" /\ path # NoFile
    /\ Goto(r, "inspect")
    /\ UNCHANGED <<Disk, Threads, Reading>>

Create(r) ==
    /\ pc[r] = "create" /\ path = NoFile
    /\ \E i \in Inodes :
         /\ Free(i)
         /\ path' = i
         /\ used' = used \cup {i}
         /\ file' = [file EXCEPT ![i] = [run |-> NoRun, age |-> 0]]
         /\ own' = [own EXCEPT ![r] = i]
    /\ Goto(r, "write")
    /\ UNCHANGED <<archived, Reading, hb, fd, term>>

(* write_descriptor, then the heartbeat thread starts. *)
WritePayload(r) ==
    /\ pc[r] = "write"
    /\ file' = [file EXCEPT ![own[r]] = [run |-> r, age |-> 0]]
    /\ hb' = [hb EXCEPT ![r] = "wait"]
    /\ Goto(r, "held")
    /\ UNCHANGED <<path, archived, used, Reading, own, fd, term>>

(* A failed write unlinks the path, whatever it names by then. *)
WriteFails(r) ==
    /\ "io" \in Faults /\ pc[r] = "write"
    /\ path' = NoFile
    /\ Goto(r, "failed")
    /\ UNCHANGED <<file, archived, used, Reading, Threads>>

-----------------------------------------------------------------------------
(* The heartbeat thread.                                                   *)

(* refresh_heartbeat opens the path and gives up for good unless the token *)
(* in it is its own.                                                       *)
HeartbeatOpens(r) ==
    /\ hb[r] = "wait" /\ pc[r] = "held"
    /\ IF path # NoFile /\ file[path].run = r
       THEN fd' = [fd EXCEPT ![r] = path] /\ hb' = [hb EXCEPT ![r] = "trunc"]
       ELSE hb' = [hb EXCEPT ![r] = "off"] /\ UNCHANGED fd
    /\ UNCHANGED <<Disk, pc, Reading, own, term>>

HeartbeatTruncates(r) ==
    /\ hb[r] = "trunc"
    /\ file' = [file EXCEPT ![fd[r]] = [run |-> NoRun, age |-> 0]]
    /\ hb' = [hb EXCEPT ![r] = "write"]
    /\ UNCHANGED <<path, archived, used, pc, Reading, own, fd, term>>

HeartbeatWrites(r) ==
    /\ hb[r] = "write"
    /\ file' = [file EXCEPT ![fd[r]] = [run |-> r, age |-> 0]]
    /\ hb' = [hb EXCEPT ![r] = "wait"]
    /\ fd' = [fd EXCEPT ![r] = NoFile]
    /\ UNCHANGED <<path, archived, used, pc, Reading, own, term>>

(* An OSError ends the thread; a truncated file stays truncated. *)
HeartbeatFails(r) ==
    /\ "io" \in Faults /\ hb[r] \in {"trunc", "write"}
    /\ hb' = [hb EXCEPT ![r] = "off"]
    /\ fd' = [fd EXCEPT ![r] = NoFile]
    /\ UNCHANGED <<Disk, pc, Reading, own, term>>

(* _heartbeat_stop is set: the loop ends between two refreshes. *)
HeartbeatStops(r) ==
    /\ hb[r] = "wait" /\ pc[r] # "held"
    /\ hb' = [hb EXCEPT ![r] = "off"]
    /\ UNCHANGED <<Disk, pc, Reading, own, fd, term>>

-----------------------------------------------------------------------------
(* Release.                                                                *)

Release(r) ==
    /\ pc[r] = "held"
    /\ Goto(r, "joining")
    /\ UNCHANGED <<Disk, Threads, Reading>>

(* thread.join(timeout=2.0) returns early only if a refresh takes longer. *)
JoinReturns(r) ==
    /\ pc[r] = "joining" /\ (hb[r] = "off" \/ "slow" \in Faults)
    /\ Goto(r, "unlink")
    /\ UNCHANGED <<Disk, Threads, Reading>>

(* The handler releases without joining the heartbeat ... *)
Sigterm(r) ==
    /\ "sigterm" \in Faults /\ pc[r] \in {"held", "joining"}
    /\ term' = term \cup {r}
    /\ Goto(r, "unlink")
    /\ UNCHANGED <<Disk, Reading, own, hb, fd>>

(* ... and exits the process, its threads included. *)
Finish(r) ==
    IF r \in term
    THEN /\ Goto(r, "dead")
         /\ hb' = [hb EXCEPT ![r] = "off"] /\ fd' = [fd EXCEPT ![r] = NoFile]
    ELSE Goto(r, "done") /\ UNCHANGED <<hb, fd>>

(* _unlink_owned_lock: leave the path alone unless it holds our token ... *)
CheckOwned(r) ==
    /\ pc[r] = "unlink"
    /\ IF path # NoFile /\ file[path].run = r
       THEN Goto(r, "remove") /\ UNCHANGED <<hb, fd>>
       ELSE Finish(r)
    /\ UNCHANGED <<Disk, Reading, own, term>>

(* ... otherwise unlink it, whatever it names by then. *)
Unlink(r) ==
    /\ pc[r] = "remove"
    /\ path' = NoFile
    /\ Finish(r)
    /\ UNCHANGED <<file, archived, used, Reading, own, term>>

Crash(r) ==
    /\ "crash" \in Faults /\ pc[r] \notin Terminal \cup {"idle"}
    /\ Goto(r, "dead")
    /\ hb' = [hb EXCEPT ![r] = "off"]
    /\ fd' = [fd EXCEPT ![r] = NoFile]
    /\ UNCHANGED <<Disk, Reading, own, term>>

-----------------------------------------------------------------------------
(* The clear command: the operator names the run it expects to find.       *)
ClearInspects(o) ==
    /\ pc[o] = "idle" /\ path # NoFile /\ file[path].run # NoRun
    /\ ForceClear \/ file[path].age >= ClearMin
    /\ snap' = [snap EXCEPT ![o] = path]
    /\ via' = [via EXCEPT ![o] = "clear"]
    /\ Goto(o, "verify")
    /\ UNCHANGED <<Disk, Threads, seen>>

(* Time.  Unless the environment may pause processes, a run that owns a    *)
(* file and can still refresh or remove it does so within MaxLag.          *)
Prompt(r) == pc[r] \in Owning \ {"held"} \/ (pc[r] = "held" /\ hb[r] # "off")

Tick ==
    /\ \E i \in Inodes : file[i].age < Cap
    /\ "pause" \notin Faults =>
         \A r \in Runs : Prompt(r) => file[own[r]].age < MaxLag
    /\ file' = [i \in Inodes |->
                 [file[i] EXCEPT !.age = IF @ < Cap THEN @ + 1 ELSE @]]
    /\ UNCHANGED <<path, archived, used, pc, Reading, Threads>>

-----------------------------------------------------------------------------
Acquire(r) ==
    \/ Begin(r) \/ ReadOwner(r) \/ OwnerAlive(r) \/ OwnerGone(r)
    \/ FindsNoLock(r) \/ FindsLockHeld(r) \/ FindsStaleLock(r)
    \/ VerifySameFile(r) \/ Replace(r)
    \/ CreateLosesRace(r) \/ Create(r) \/ WritePayload(r)

Heartbeat(r) ==
    HeartbeatOpens(r) \/ HeartbeatTruncates(r) \/ HeartbeatWrites(r) \/ HeartbeatStops(r)

Leave(r) == Release(r) \/ JoinReturns(r) \/ CheckOwned(r) \/ Unlink(r)

Fault(r) == WriteFails(r) \/ HeartbeatFails(r) \/ Sigterm(r) \/ Crash(r)

Clear(o) == ClearInspects(o) \/ VerifySameFile(o) \/ Replace(o)

Next ==
    \/ \E r \in Runs : Acquire(r) \/ Heartbeat(r) \/ Leave(r) \/ Fault(r)
    \/ \E o \in Operators : Clear(o)
    \/ Tick

Spec == Init /\ [][Next]_vars

(* Every thread is scheduled again and again, and the clock moves. *)
Fairness ==
    /\ \A r \in Runs : WF_vars(Acquire(r)) /\ WF_vars(Heartbeat(r)) /\ WF_vars(Leave(r))
    /\ WF_vars(Tick)

FairSpec == Spec /\ Fairness

-----------------------------------------------------------------------------
(* Properties.                                                             *)

(* Every variable stays in its type (the shape of the lock's state). *)
TypeOK ==
    /\ path \in Inodes \cup {NoFile}
    /\ file \in [Inodes -> [run : Runs \cup {NoRun}, age : 0..Cap]]
    /\ archived \subseteq Inodes /\ used \subseteq Inodes /\ term \subseteq Runs
    /\ pc \in [Procs -> {"idle", "dead_check", "pid", "inspect", "verify", "replace",
                         "create", "write", "held"} \cup Releasing \cup Terminal]
    /\ snap \in [Procs -> Inodes \cup {NoFile}]
    /\ seen \in [Runs -> Runs \cup {NoRun}]
    /\ via \in [Procs -> {"dead", "stale", "clear"}]
    /\ own \in [Runs -> Inodes \cup {NoFile}]
    /\ hb \in [Runs -> {"off", "wait", "trunc", "write"}]
    /\ fd \in [Runs -> Inodes \cup {NoFile}]

(* No two runs are inside the locked section at once: the second of two    *)
(* overlapping pipelines is rejected, or waits.                            *)
MutualExclusion ==
    \A r, s \in Runs : pc[r] = "held" /\ pc[s] = "held" => r = s

(* While a run is inside, the lock path names the file that run created, so *)
(* that whoever comes next finds it.                                        *)
HolderKeepsFile ==
    \A r \in Runs : pc[r] = "held" => path = own[r]

(* A run that released the lock normally has left no lock file behind: the *)
(* truncate-then-write of its heartbeat never hides the token from release.*)
ReleaseLeavesNothing ==
    \A r \in Runs : pc[r] = "done" => path # own[r] \/ own[r] = NoFile

(* A heartbeat only ever rewrites the file its own run created, even after *)
(* a pause, and even if its lock was archived and taken over meanwhile.    *)
HeartbeatTouchesOwn ==
    \A r \in Runs : fd[r] # NoFile => fd[r] = own[r]

(* A run killed by SIGTERM while it held the lock has removed its file. *)
SigtermReleases ==
    \A r \in term : pc[r] = "dead" => path # own[r]

(* A run that starts waiting is served or told why not, whoever crashes. *)
WaiterServed ==
    \A r \in Runs : pc[r] # "idle" ~> pc[r] \in Terminal \cup {"held"}
=============================================================================
