---------------------------- MODULE ProviderProofs ----------------------------
(***************************************************************************)
(* Theorems about the providers of the SCM inventory, for any repositories *)
(* and projects, any names and paths of them, any rulesets and files, and  *)
(* any size of a page, whatever changes and fails while they list and      *)
(* read; and, with the theorem about the roll-up, what all inventories     *)
(* promise together.                                                       *)
(***************************************************************************)
EXTENDS Inventories, PublisherProofs

-----------------------------------------------------------------------------
(* Pages of a list.  A list without repetitions that is as long as the set *)
(* its ids come from has all of the set.                                   *)

ListedIds(list) == {list[i].id : i \in DOMAIN list}
ListsTwice(list) == \E i, j \in DOMAIN list : i < j /\ list[i].id = list[j].id

\* A listing in some order has every member once.
LEMMA InOrderHas ==
    ASSUME NEW all, IsFiniteSet(all), NEW ids, ids \subseteq all, NEW key, NEW seq \in InOrder(ids, key)
    PROVE  /\ IsFiniteSet(ids) /\ seq \in Seq(ids) /\ Len(seq) = Cardinality(ids)
           /\ \A p \in ids : \E i \in 1 .. Len(seq) : seq[i] = p
           /\ \A i, j \in 1 .. Len(seq) : i < j => key[seq[i]] < key[seq[j]]
<1>1. IsFiniteSet(ids) /\ Cardinality(ids) \in Nat
  BY FS_Subset, FS_CardinalityType
<1>2. seq \in [1 .. Cardinality(ids) -> ids]
  BY DEF InOrder
<1>3. seq \in Seq(ids) /\ Len(seq) = Cardinality(ids) /\ DOMAIN seq = 1 .. Len(seq)
  BY <1>1, <1>2
<1> QED
  BY <1>1, <1>3 DEF InOrder

LEMMA PageHas ==
    ASSUME NEW S, NEW seq \in Seq(S), NEW from \in Nat, NEW size \in Nat \ {0}
    PROVE  /\ Page(seq, from, size) \in Seq(S)
           /\ Len(Page(seq, from, size)) = IF from > Len(seq) THEN 0
                ELSE IF from + size < Len(seq) THEN size ELSE Len(seq) - from
           /\ \A i \in 1 .. Len(Page(seq, from, size)) : Page(seq, from, size)[i] = seq[from + i]
<1> DEFINE last == IF from + size < Len(seq) THEN from + size ELSE Len(seq)
<1>1. size \in Nat /\ size > 0 /\ Len(seq) \in Nat /\ DOMAIN seq = 1 .. Len(seq)
  OBVIOUS
<1>2. from + 1 \in Int /\ last \in Int /\ last <= Len(seq) /\ from + 1 >= 1
  BY <1>1
<1>3. Page(seq, from, size) = SubSeq(seq, from + 1, last)
  BY DEF Page
<1> HIDE DEF last
<1>4. \A i \in from + 1 .. last : seq[i] \in S
  BY <1>1, <1>2
<1>5. /\ SubSeq(seq, from + 1, last) \in Seq(S)
      /\ Len(SubSeq(seq, from + 1, last)) = IF from + 1 <= last THEN last - (from + 1) + 1 ELSE 0
      /\ \A i \in 1 .. last - (from + 1) + 1 : SubSeq(seq, from + 1, last)[i] = seq[(from + 1) + i - 1]
  BY <1>2, <1>4, SubSeqProperties
<1>6. Len(Page(seq, from, size)) = IF from + 1 <= last THEN last - from ELSE 0
  BY <1>2, <1>3, <1>5
<1>7. \A i \in 1 .. Len(Page(seq, from, size)) : Page(seq, from, size)[i] = seq[from + i]
  BY <1>2, <1>3, <1>5, <1>6
<1> QED
  BY <1>1, <1>2, <1>3, <1>5, <1>6, <1>7 DEF last

\* A list as long as a set, of members of the set and none twice, has them all.
LEMMA LongEnough ==
    ASSUME NEW all, IsFiniteSet(all), NEW S, NEW list \in Seq(S), Len(list) >= Cardinality(all),
           ~ListsTwice(list), \A i \in DOMAIN list : list[i].id \in all
    PROVE  all \subseteq ListedIds(list)
<1> DEFINE n == Len(list)  f == [i \in 1 .. n |-> list[i].id]
<1>1. n \in Nat /\ DOMAIN list = 1 .. n /\ f \in [1 .. n -> all]
  OBVIOUS
<1>2. ASSUME NEW i \in 1 .. n, NEW j \in 1 .. n, f[i] = f[j] PROVE i = j
  <2>1. ~(i < j) /\ ~(j < i)
    BY <1>1, <1>2 DEF ListsTwice
  <2> QED
    BY <1>1, <2>1
<1>3. f \in Injection(1 .. n, all)
  BY <1>1, <1>2 DEF Injection, IsInjective
<1>4. IsFiniteSet(1 .. n) /\ Cardinality(1 .. n) = n
  BY <1>1, FS_Interval
<1>5. Cardinality(all) \in Nat
  BY FS_CardinalityType
<1> HIDE DEF f
<1>6. n <= Cardinality(all) /\ (n = Cardinality(all) <=> f \in Surjection(1 .. n, all))
  BY <1>3, <1>4, <1>5, FS_Injection
<1>7. f \in Surjection(1 .. n, all)
  BY <1>1, <1>5, <1>6
<1>8. \A p \in all : \E i \in 1 .. n : f[i] = p
  BY <1>7 DEF Surjection
<1> QED
  BY <1>1, <1>8 DEF ListedIds, f

-----------------------------------------------------------------------------
(* The GitLab provider.                                                    *)

GLStages == {"idle", "graphql", "rest", "listed", "mapping", "observing", "done", "failed"}
GLEntries == [id : GLIds, path : Nat, branch : BOOLEAN]
GLCiShapes ==
  [at : {"root", "include", "branch", "read"}, marker : BOOLEAN, present : BOOLEAN, complete : BOOLEAN,
   failed : BOOLEAN, branch : {"unread", "protected", "open", "failed"}]

GLRunRecord(run) ==
  run \in [at : GLStages, rest : BOOLEAN, page : Nat \ {0}, cursor : Nat, limit : Nat, list : Seq(GLEntries),
           mapped : {run.mapped}, failures : {run.failures}, repos : SUBSET GLIds, excluded : {run.excluded},
           pinned : {run.pinned}, paths : {run.paths}, ci : {run.ci}, controls : {run.controls}]
GLRunShape(run) == GLRunRecord(run) /\ (run.at \notin {"idle", "failed"} => run.limit # 0)

GLPastShape(past) ==
  past \in [lasting : SUBSET GLIds, moved : BOOLEAN, partial : BOOLEAN, pushed : SUBSET GLIds,
            heads : [GLIds -> SUBSET GLTrees], protected : SUBSET GLIds, unprotected : SUBSET GLIds]

\* A path leads to one project; what was deleted or transferred does not come
\* back.
GLGroupTrue ==
  /\ glPath \in [GLIds -> Nat]
  /\ \A p, q \in Projects : glPath[p] = glPath[q] => p = q
  /\ glGone \subseteq GLIds /\ glAway \subseteq GLIds
  /\ \A p \in glGone \cup glAway : glPath[p] = 0
  /\ glHead \in [GLIds -> GLTrees] /\ glProtected \subseteq GLIds

GLPastTrue(run, past) ==
  /\ past.lasting \subseteq Projects
  /\ run.at # "idle" =>
       /\ \A p \in past.lasting : glHead[p] \in past.heads[p]
       /\ glProtected \subseteq past.protected /\ GLIds \ glProtected \subseteq past.unprotected

\* What the list says of a project that was there all along.
GLEntryTrue(past, e) ==
  /\ e.id \in Projects \cup glGone \cup glAway
  /\ e.id \in past.lasting =>
       (past.moved \/ e.path = glPath[e.id]) /\ (e.branch = FALSE => glHead[e.id] = NoBranch)

\* A pinned commit was the head at some moment of the run.
GLPinTrue(past, p, pin) == p \in past.lasting /\ pin # <<>> => past.moved \/ pin[1] \in past.heads[p]

GLListTrue(run, past) == \A i \in DOMAIN run.list : GLEntryTrue(past, run.list[i])

GLMapTrue(run, past) ==
  run.at = "mapping" =>
    /\ run.mapped \in [DOMAIN run.list -> {"todo", "ok", "failed"}]
    /\ run.pinned = [i \in DOMAIN run.list |-> run.pinned[i]]
    /\ \A i \in DOMAIN run.list : /\ GLPinTrue(past, run.list[i].id, run.pinned[i])
                                  /\ run.list[i].branch = FALSE => run.pinned[i] = <<>>

\* What is known of the files of commit t when a worker is this far.
GLCiSays(ci, t) ==
  CASE ci.at = "root" -> TRUE
    [] ci.at = "include" -> t.root = "includes" /\ ci.present = TRUE
    [] OTHER ->
      \/ ci.failed = TRUE
      \/ /\ ci.marker = TRUE => Scans(t)
         /\ ci.marker = FALSE /\ (ci.present = FALSE \/ ci.complete = TRUE) => ~Scans(t)

GLCommit(run, p) == IF run.pinned[p] # <<>> THEN run.pinned[p][1] ELSE glHead[p]

GLCiTrue(run, past, p) ==
  /\ past.moved \/ run.paths[p] = glPath[p]
  /\ GLPinTrue(past, p, run.pinned[p])
  /\ past.moved \/ (run.pinned[p] = <<>> /\ p \in past.pushed) \/ GLCiSays(run.ci[p], GLCommit(run, p))
  /\ run.ci[p].branch = "protected" => p \in past.protected
  /\ run.ci[p].branch = "open" => p \in past.unprotected

GLObserveTrue(run, past) ==
  run.at = "observing" =>
    run.ci \in [run.repos -> GLCiShapes] /\ \A p \in run.repos \cap past.lasting : GLCiTrue(run, past, p)

GLControlTrue(run, past, c) ==
  /\ \/ c.workflow = "compliant" => \E tree \in past.heads[c.id] : Scans(tree)
     \/ past.moved \/ (run.pinned[c.id] = <<>> /\ c.id \in past.pushed)
  /\ \/ c.workflow = "noncompliant" => \E tree \in past.heads[c.id] : ~Scans(tree)
     \/ past.moved \/ (run.pinned[c.id] = <<>> /\ c.id \in past.pushed)
  /\ c.branch = "compliant" => c.id \in past.protected
  /\ c.branch = "noncompliant" => c.id \in past.unprotected

GLDoneTrue(run, past) ==
  run.at = "done" => \A c \in run.controls : c.id \in past.lasting => GLControlTrue(run, past, c)

GLRunTrue(run, past) ==
  /\ GLRunShape(run) /\ GLPastShape(past) /\ GLPastTrue(run, past)
  /\ GLListTrue(run, past) /\ GLMapTrue(run, past) /\ GLObserveTrue(run, past) /\ GLDoneTrue(run, past)

GLInv == GLGroupTrue /\ GLRunTrue(glRun, glPast)

LEMMA GLInitTrue == GitLabInit => GLInv
<1> SUFFICES ASSUME GitLabInit PROVE GLInv
  OBVIOUS
<1>1. /\ glPath = GLFirstPaths /\ glGone = {} /\ glAway = {} /\ glHead \in GLFirstHeads
      /\ glProtected \subseteq GLIds /\ glRun = GLNoRun /\ glPast = GLNoPast
  BY DEF GitLabInit
<1>2. GLGroupTrue
  BY <1>1, GitLabAssumption DEF GLGroupTrue, Projects
<1>3. GLRunShape(GLNoRun)
  BY DEF GLRunShape, GLRunRecord, GLNoRun, GLStages
<1>4. GLPastShape(GLNoPast) /\ GLPastTrue(GLNoRun, GLNoPast)
  BY DEF GLPastShape, GLNoPast, GLNoRun, GLPastTrue
<1>5. GLListTrue(GLNoRun, GLNoPast) /\ GLMapTrue(GLNoRun, GLNoPast)
  BY DEF GLListTrue, GLMapTrue, GLNoRun
<1>6. GLObserveTrue(GLNoRun, GLNoPast) /\ GLDoneTrue(GLNoRun, GLNoPast)
  BY DEF GLObserveTrue, GLDoneTrue, GLNoRun
<1> QED
  BY <1>1, <1>2, <1>3, <1>4, <1>5, <1>6 DEF GLInv, GLRunTrue

\* A step of the group that leaves the run as it is: what the run knows stays
\* true, as long as only what is recorded of the past happened.
LEMMA GLGroupSteps ==
    ASSUME GLInv, glRun' = glRun, GLGroupTrue', GLPastShape(glPast'),
           GLPastTrue(glRun, glPast)', glPast'.lasting \subseteq glPast.lasting,
           glPast.moved = TRUE => glPast'.moved = TRUE,
           glPast'.moved = FALSE => \A p \in glPast'.lasting : glPath'[p] = glPath[p],
           Projects \subseteq Projects' \cup glGone' \cup glAway', glGone \subseteq glGone', glAway \subseteq glAway',
           glPast.pushed \subseteq glPast'.pushed,
           \A p \in glPast'.lasting : /\ p \notin glPast'.pushed => glHead'[p] = glHead[p]
                                      /\ glHead[p] = NoBranch => glHead'[p] = NoBranch,
           \A p \in GLIds : glPast.heads[p] \subseteq glPast'.heads[p],
           glPast.protected \subseteq glPast'.protected, glPast.unprotected \subseteq glPast'.unprotected
    PROVE  GLInv'
<1> DEFINE run == glRun  past == glPast  later == glPast'
<1>1. GLRunShape(run) /\ GLPastShape(past) /\ GLGroupTrue /\ GLPastTrue(run, past)
  BY DEF GLInv, GLRunTrue
<1>2. past.moved \in BOOLEAN /\ later.moved \in BOOLEAN /\ later.lasting \subseteq GLIds
  BY <1>1, GLPastShape(glPast') DEF GLPastShape
<1>3. (GLRunShape(glRun) /\ GLPastShape(glPast))'
  BY <1>1, GLPastShape(glPast') DEF GLRunShape, GLRunRecord, GLPastShape
<1>4. ASSUME NEW e \in GLEntries, GLEntryTrue(past, e)
      PROVE  (GLEntryTrue(glPast, e))'
  <2>1. e.id \in Projects' \cup glGone' \cup glAway'
    BY <1>4 DEF GLEntryTrue
  <2>2. later.moved \/ later.moved = FALSE
    BY <1>2
  <2>3. ASSUME e.id \in later.lasting
        PROVE  (later.moved \/ e.path = glPath'[e.id]) /\ (e.branch = FALSE => glHead'[e.id] = NoBranch)
    BY <2>2, <2>3, <1>4, <1>2 DEF GLEntryTrue
  <2> QED
    BY <2>1, <2>3 DEF GLEntryTrue
<1>5. ASSUME NEW p, NEW pin, GLPinTrue(past, p, pin)
      PROVE  GLPinTrue(later, p, pin)
  <2> SUFFICES ASSUME p \in later.lasting, pin # <<>>
               PROVE  later.moved \/ pin[1] \in later.heads[p]
    BY DEF GLPinTrue
  <2>1. past.moved \/ pin[1] \in past.heads[p]
    BY <1>5 DEF GLPinTrue
  <2> QED
    BY <2>1, <1>2
<1>6. (GLListTrue(glRun, glPast))'
  <2>1. \A i \in DOMAIN run.list : run.list[i] \in GLEntries /\ GLEntryTrue(past, run.list[i])
    BY <1>1 DEF GLInv, GLRunTrue, GLListTrue, GLRunShape, GLRunRecord
  <2> QED
    BY <2>1, <1>4 DEF GLListTrue
<1>7. (GLMapTrue(glRun, glPast))'
  <2>1. GLMapTrue(run, past)
    BY DEF GLInv, GLRunTrue
  <2> QED
    BY <2>1, <1>5 DEF GLMapTrue
<1>8. (GLObserveTrue(glRun, glPast))'
  <2> SUFFICES ASSUME run.at = "observing"
               PROVE  run.ci \in [run.repos -> GLCiShapes] /\ \A p \in run.repos \cap later.lasting : (GLCiTrue(glRun, glPast, p))'
    BY DEF GLObserveTrue
  <2>1. run.ci \in [run.repos -> GLCiShapes] /\ \A p \in run.repos \cap past.lasting : GLCiTrue(run, past, p)
    BY DEF GLInv, GLRunTrue, GLObserveTrue
  <2> SUFFICES ASSUME NEW p \in run.repos \cap later.lasting PROVE (GLCiTrue(glRun, glPast, p))'
    BY <2>1
  <2>2. GLCiTrue(run, past, p)
    BY <2>1
  <2>3. later.moved \/ run.paths[p] = glPath'[p]
    BY <2>2, <1>2 DEF GLCiTrue
  <2>4. GLPinTrue(later, p, run.pinned[p])
    BY <2>2, <1>5 DEF GLCiTrue
  <2>5. later.moved \/ (run.pinned[p] = <<>> /\ p \in later.pushed) \/ GLCiSays(run.ci[p], IF run.pinned[p] # <<>> THEN run.pinned[p][1] ELSE glHead'[p])
    <3>1. past.moved \/ (run.pinned[p] = <<>> /\ p \in past.pushed) \/ GLCiSays(run.ci[p], GLCommit(run, p))
      BY <2>2 DEF GLCiTrue
    <3>2. run.pinned[p] # <<>> \/ p \in later.pushed \/ glHead'[p] = glHead[p]
      BY <1>2
    <3> QED
      BY <3>1, <3>2 DEF GLCommit
  <2>6. /\ run.ci[p].branch = "protected" => p \in later.protected
        /\ run.ci[p].branch = "open" => p \in later.unprotected
    BY <2>2 DEF GLCiTrue
  <2> QED
    BY <2>3, <2>4, <2>5, <2>6 DEF GLCiTrue, GLCommit
<1>9. (GLDoneTrue(glRun, glPast))'
  <2> SUFFICES ASSUME run.at = "done", NEW c \in run.controls, c.id \in later.lasting PROVE GLControlTrue(run, later, c)
    BY DEF GLDoneTrue
  <2>1. GLControlTrue(run, past, c) /\ c.id \in GLIds
    BY <1>2 DEF GLInv, GLRunTrue, GLDoneTrue
  <2>2. past.moved \/ (run.pinned[c.id] = <<>> /\ c.id \in past.pushed) => later.moved \/ (run.pinned[c.id] = <<>> /\ c.id \in later.pushed)
    BY <1>2
  <2> QED
    BY <2>1, <2>2 DEF GLControlTrue
<1> QED
  BY <1>3, <1>6, <1>7, <1>8, <1>9 DEF GLInv, GLRunTrue

LEMMA GLGroupTypes ==
    ASSUME GLInv
    PROVE  /\ GLGroupTrue /\ GLPastShape(glPast) /\ GLPastTrue(glRun, glPast)
           /\ glPast.lasting \subseteq Projects /\ Projects \subseteq GLIds
           /\ glPast.moved \in BOOLEAN /\ glPast.heads \in [GLIds -> SUBSET GLTrees]
           /\ glPast.protected \subseteq GLIds /\ glPast.unprotected \subseteq GLIds
           /\ glPast.pushed \subseteq GLIds
  BY DEF GLInv, GLRunTrue, GLPastTrue, GLPastShape, Projects

\* A project leaves the group for good.
LEMMA GLLeavesTrue == ASSUME GLInv, NEW p \in GLIds, GLDeletes(p) \/ GLTransfers(p) PROVE GLInv'
<1>1. glRun.at # "idle" /\ glRun' = glRun /\ p \in Projects
  BY DEF GLDeletes, GLTransfers, GLChange
<1>2. /\ glPath' = [glPath EXCEPT ![p] = 0] /\ glGone \subseteq glGone' /\ glAway \subseteq glAway'
      /\ glGone' \subseteq glGone \cup {p} /\ glAway' \subseteq glAway \cup {p} /\ p \in glGone' \cup glAway'
      /\ glPast' = [glPast EXCEPT !.lasting = @ \ {p}] /\ glHead' = glHead /\ glProtected' = glProtected
  BY DEF GLDeletes, GLTransfers
<1>3. GLGroupTrue'
  BY <1>1, <1>2, GLGroupTypes DEF GLGroupTrue, Projects
<1>4. GLPastShape(glPast')
  BY <1>2, GLGroupTypes DEF GLPastShape
<1>5. /\ glPast'.lasting = glPast.lasting \ {p} /\ glPast'.moved = glPast.moved /\ glPast'.pushed = glPast.pushed
      /\ glPast'.heads = glPast.heads /\ glPast'.protected = glPast.protected
      /\ glPast'.unprotected = glPast.unprotected
  BY <1>2, GLGroupTypes DEF GLPastShape
<1>6. Projects' = Projects \ {p}
  BY <1>1, <1>2, GLGroupTypes DEF GLGroupTrue, Projects
<1>7. GLPastTrue(glRun, glPast)'
  BY <1>1, <1>2, <1>5, <1>6, GLGroupTypes DEF GLPastTrue
<1>8. \A q \in glPast'.lasting : glPath'[q] = glPath[q]
  BY <1>2, <1>5, GLGroupTypes DEF GLGroupTrue
<1> QED
  BY <1>1, <1>2, <1>3, <1>4, <1>5, <1>6, <1>7, <1>8, GLGroupSteps

\* A project comes to a path, new or from another one.
LEMMA GLArrives ==
    ASSUME GLGroupTrue, NEW p \in GLIds, NEW path \in 1 .. GLPaths, p \notin glGone \cup glAway,
           \A q \in GLIds : glPath[q] # path, glPath' = [glPath EXCEPT ![p] = path],
           UNCHANGED <<glGone, glAway, glHead, glProtected>>
    PROVE  GLGroupTrue' /\ Projects' = Projects \cup {p}
<1>1. path \in Nat /\ path # 0
  BY GitLabAssumption
<1> QED
  BY <1>1 DEF GLGroupTrue, Projects

LEMMA GLCreatesTrue ==
    ASSUME GLInv, NEW p \in GLIds, NEW path \in 1 .. GLPaths, GLCreates(p, path) PROVE GLInv'
<1>1. glRun.at # "idle" /\ glRun' = glRun /\ p \notin Projects \cup glGone \cup glAway /\ glPast' = glPast
  BY DEF GLCreates, GLChange
<1>2. /\ glPath' = [glPath EXCEPT ![p] = path] /\ \A q \in GLIds : glPath[q] # path
      /\ UNCHANGED <<glGone, glAway, glHead, glProtected>>
  BY DEF GLCreates
<1>3. GLGroupTrue' /\ Projects' = Projects \cup {p}
  BY <1>1, <1>2, GLArrives, GLGroupTypes
<1>4. GLPastTrue(glRun, glPast)'
  BY <1>1, <1>2, <1>3, GLGroupTypes DEF GLPastTrue
<1>5. \A q \in glPast'.lasting : glPath'[q] = glPath[q]
  BY <1>1, <1>2, GLGroupTypes DEF GLGroupTrue
<1> QED
  BY <1>1, <1>2, <1>3, <1>4, <1>5, GLGroupTypes, GLGroupSteps

LEMMA GLMovesTrue ==
    ASSUME GLInv, NEW p \in GLIds, NEW path \in 1 .. GLPaths, GLMoves(p, path) PROVE GLInv'
<1>1. glRun.at # "idle" /\ glRun' = glRun /\ p \in Projects /\ glPast' = [glPast EXCEPT !.moved = TRUE]
  BY DEF GLMoves, GLChange
<1>2. /\ glPath' = [glPath EXCEPT ![p] = path] /\ \A q \in GLIds : glPath[q] # path
      /\ UNCHANGED <<glGone, glAway, glHead, glProtected>>
  BY DEF GLMoves
<1>3. p \notin glGone \cup glAway
  BY <1>1, GLGroupTypes DEF GLGroupTrue, Projects
<1>4. GLGroupTrue' /\ Projects' = Projects
  <2>1. GLGroupTrue' /\ Projects' = Projects \cup {p}
    BY <1>2, <1>3, GLArrives, GLGroupTypes
  <2>2. Projects \cup {p} = Projects
    BY <1>1
  <2> QED
    BY <2>1, <2>2
<1>5. GLPastShape(glPast')
  BY <1>1, GLGroupTypes DEF GLPastShape
<1>6. /\ glPast'.lasting = glPast.lasting /\ glPast'.moved = TRUE /\ glPast'.pushed = glPast.pushed
      /\ glPast'.heads = glPast.heads /\ glPast'.protected = glPast.protected
      /\ glPast'.unprotected = glPast.unprotected
  BY <1>1, GLGroupTypes DEF GLPastShape
<1>7. GLPastTrue(glRun, glPast)'
  BY <1>1, <1>2, <1>4, <1>6, GLGroupTypes DEF GLPastTrue
<1> QED
  BY <1>1, <1>2, <1>4, <1>5, <1>6, <1>7, GLGroupSteps

LEMMA GLPushesTrue ==
    ASSUME GLInv, NEW p \in GLIds, NEW tree \in GLTrees, GLPushes(p, tree) PROVE GLInv'
<1>1. glRun.at # "idle" /\ glRun' = glRun /\ p \in Projects /\ glHead[p] # NoBranch
  BY DEF GLPushes, GLChange
<1>2. /\ UNCHANGED <<glPath, glGone, glAway, glProtected>> /\ glHead' = [glHead EXCEPT ![p] = tree]
      /\ glPast' = [glPast EXCEPT !.heads[p] = @ \cup {tree}, !.pushed = @ \cup {p}]
  BY DEF GLPushes
<1>3. GLGroupTrue' /\ Projects' = Projects
  BY <1>2, GLGroupTypes DEF GLGroupTrue, Projects
<1>4. GLPastShape(glPast')
  BY <1>2, GLGroupTypes DEF GLPastShape
<1>5. /\ glPast'.lasting = glPast.lasting /\ glPast'.moved = glPast.moved
      /\ glPast'.pushed = glPast.pushed \cup {p}
      /\ glPast'.heads = [glPast.heads EXCEPT ![p] = @ \cup {tree}]
      /\ glPast'.protected = glPast.protected /\ glPast'.unprotected = glPast.unprotected
  BY <1>2, GLGroupTypes DEF GLPastShape
<1>6. \A q \in GLIds : /\ glPast.heads[q] \subseteq glPast'.heads[q]
                       /\ glHead'[q] = IF q = p THEN tree ELSE glHead[q]
                       /\ glPast'.heads[q] = IF q = p THEN glPast.heads[p] \cup {tree} ELSE glPast.heads[q]
  BY <1>2, <1>5, GLGroupTypes DEF GLGroupTrue
<1>7. GLPastTrue(glRun, glPast)'
  BY <1>1, <1>2, <1>3, <1>5, <1>6, GLGroupTypes DEF GLPastTrue
<1>8. \A q \in glPast'.lasting : q \in GLIds /\ glPath'[q] = glPath[q]
  BY <1>2, <1>5, GLGroupTypes
<1>9. \A q \in glPast'.lasting : /\ q \notin glPast'.pushed => glHead'[q] = glHead[q]
                                 /\ glHead[q] = NoBranch => glHead'[q] = NoBranch
  BY <1>1, <1>5, <1>6, <1>8
<1> QED
  BY <1>1, <1>2, <1>3, <1>4, <1>5, <1>6, <1>7, <1>8, <1>9, GLGroupSteps

LEMMA GLProtectsTrue == ASSUME GLInv, NEW p \in GLIds, GLProtects(p) PROVE GLInv'
<1>1. glRun.at # "idle" /\ glRun' = glRun /\ p \in Projects /\ UNCHANGED <<glPath, glGone, glAway, glHead>>
  BY DEF GLProtects, GLChange
<1>2. /\ glProtected' = IF p \in glProtected THEN glProtected \ {p} ELSE glProtected \cup {p}
      /\ glPast' = IF p \in glProtected THEN [glPast EXCEPT !.unprotected = @ \cup {p}]
                   ELSE [glPast EXCEPT !.protected = @ \cup {p}]
  BY DEF GLProtects
<1>3. GLGroupTrue' /\ Projects' = Projects
  BY <1>1, <1>2, GLGroupTypes DEF GLGroupTrue, Projects
<1>4. GLPastShape(glPast')
  BY <1>2, GLGroupTypes DEF GLPastShape
<1>5. /\ glPast'.lasting = glPast.lasting /\ glPast'.moved = glPast.moved
      /\ glPast'.pushed = glPast.pushed /\ glPast'.heads = glPast.heads
      /\ glPast'.protected = IF p \in glProtected THEN glPast.protected ELSE glPast.protected \cup {p}
      /\ glPast'.unprotected = IF p \in glProtected THEN glPast.unprotected \cup {p} ELSE glPast.unprotected
  BY <1>2, GLGroupTypes DEF GLPastShape
<1>6. GLPastTrue(glRun, glPast)'
  BY <1>1, <1>2, <1>3, <1>5, GLGroupTypes DEF GLPastTrue
<1>7. \A q \in glPast'.lasting : glHead'[q] = glHead[q] /\ glPath'[q] = glPath[q]
  BY <1>1
<1>8. glPast.protected \subseteq glPast'.protected /\ glPast.unprotected \subseteq glPast'.unprotected
  BY <1>5
<1>9. Projects \subseteq Projects' \cup glGone' \cup glAway' /\ glGone \subseteq glGone' /\ glAway \subseteq glAway'
  BY <1>1, <1>3
<1> QED
  BY <1>1, <1>3, <1>4, <1>5, <1>6, <1>7, <1>8, <1>9, GLGroupSteps

LEMMA GLFinite == ASSUME GLInv PROVE IsFiniteSet(Projects) /\ Projects \subseteq GLIds
  BY GLGroupTypes, GitLabAssumption, FS_Subset

LEMMA GLInOrderHas ==
    ASSUME NEW ids, ids \subseteq GLIds, NEW key, NEW seq \in InOrder(ids, key)
    PROVE  /\ IsFiniteSet(ids) /\ seq \in Seq(ids) /\ Len(seq) = Cardinality(ids)
           /\ \A p \in ids : \E i \in 1 .. Len(seq) : seq[i] = p
           /\ \A i, j \in 1 .. Len(seq) : i < j => key[seq[i]] < key[seq[j]]
<1>1. IsFiniteSet(GLIds)
  BY GitLabAssumption
<1> QED
  BY <1>1, InOrderHas

LEMMA GLPageHas ==
    ASSUME NEW S, NEW seq \in Seq(S), NEW from \in Nat
    PROVE  /\ Page(seq, from, GLPageSize) \in Seq(S)
           /\ Len(Page(seq, from, GLPageSize)) = IF from > Len(seq) THEN 0
                ELSE IF from + GLPageSize < Len(seq) THEN GLPageSize ELSE Len(seq) - from
           /\ \A i \in 1 .. Len(Page(seq, from, GLPageSize)) : Page(seq, from, GLPageSize)[i] = seq[from + i]
<1>1. GLPageSize \in Nat \ {0}
  BY GitLabAssumption
<1> QED
  BY <1>1, PageHas

\* A step of the run leaves the group as it is.
LEMMA GLRunSteps ==
    ASSUME GLInv, UNCHANGED Group, GLRunTrue(glRun', glPast') PROVE GLInv'
<1>1. GLGroupTrue' /\ UNCHANGED <<glPath, glGone, glAway, glHead, glProtected>>
  BY DEF GLInv, GLGroupTrue, Projects, Group
<1>2. GLRunShape(glRun') /\ GLPastShape(glPast') /\ (GLPastTrue(glRun, glPast))'
  BY <1>1 DEF GLRunTrue, GLPastTrue, Projects
<1>3. (GLListTrue(glRun, glPast))' /\ (GLMapTrue(glRun, glPast))'
  <2>1. GLListTrue(glRun', glPast') /\ GLMapTrue(glRun', glPast')
    BY DEF GLRunTrue
  <2> QED
    BY <1>1, <2>1 DEF GLListTrue, GLMapTrue, GLEntryTrue, GLPinTrue, Projects
<1>4. (GLObserveTrue(glRun, glPast))'
  <2>1. GLObserveTrue(glRun', glPast')
    BY DEF GLRunTrue
  <2> QED
    BY <1>1, <2>1 DEF GLObserveTrue, GLCiTrue, GLPinTrue, GLCommit
<1>5. (GLDoneTrue(glRun, glPast))'
  BY DEF GLRunTrue, GLDoneTrue, GLControlTrue
<1>6. (GLRunShape(glRun) /\ GLPastShape(glPast))'
  BY <1>2 DEF GLRunShape, GLRunRecord, GLPastShape
<1> QED
  BY <1>1, <1>2, <1>3, <1>4, <1>5, <1>6 DEF GLInv, GLRunTrue

LEMMA GLListedHas ==
    ASSUME GLInv, NEW ids \in Seq(Projects), NEW past, past.lasting \subseteq GLIds
    PROVE  /\ Listed(ids) \in Seq(GLEntries) /\ Len(Listed(ids)) = Len(ids)
           /\ \A i \in 1 .. Len(ids) : Listed(ids)[i].id = ids[i] /\ GLEntryTrue(past, Listed(ids)[i])
<1> DEFINE entry(p) == [id |-> p, path |-> glPath[p], branch |-> glHead[p] # NoBranch]
<1>1. \A p \in Projects : entry(p) \in GLEntries /\ entry(p).id = p
  <2> TAKE p \in Projects
  <2>1. p \in GLIds /\ glPath[p] \in Nat
    BY GLGroupTypes DEF GLGroupTrue
  <2> QED
    BY <2>1 DEF GLEntries
<1>2. \A p \in Projects : GLEntryTrue(past, entry(p))
  <2> TAKE p \in Projects
  <2>1. entry(p).id = p /\ entry(p).path = glPath[p]
    OBVIOUS
  <2>2. entry(p).branch = FALSE => glHead[p] = NoBranch
    OBVIOUS
  <2> QED
    BY <2>1, <2>2 DEF GLEntryTrue
<1>3. DOMAIN ids = 1 .. Len(ids) /\ Len(ids) \in Nat /\ \A i \in 1 .. Len(ids) : ids[i] \in Projects
  OBVIOUS
<1>4. Listed(ids) = [i \in 1 .. Len(ids) |-> entry(ids[i])]
  BY <1>3 DEF Listed
<1> HIDE DEF entry
<1> QED
  BY <1>1, <1>2, <1>3, <1>4

\* The list grows by what is listed now, or stays, or is begun again.
LEMMA GLListsOn ==
    ASSUME GLInv, UNCHANGED Group, glRun.at \in {"graphql", "rest"},
           GLRunShape(glRun'), glRun'.at \in {"graphql", "rest", "listed", "failed"},
           NEW ids \in Seq(Projects), glRun'.list = glRun.list \o Listed(ids) \/ glRun'.list = <<>>,
           glPast' = glPast \/ glPast' = [glPast EXCEPT !.partial = TRUE]
    PROVE  GLInv'
<1>1. /\ GLPastShape(glPast') /\ glPast'.lasting = glPast.lasting /\ glPast'.moved = glPast.moved
      /\ glPast'.heads = glPast.heads /\ glPast'.protected = glPast.protected
      /\ glPast'.unprotected = glPast.unprotected
  BY GLGroupTypes DEF GLPastShape
<1>2. GLPastTrue(glRun', glPast')
  BY <1>1, GLGroupTypes DEF GLPastTrue
<1>3. GLListTrue(glRun', glPast')
  <2>1. /\ Listed(ids) \in Seq(GLEntries) /\ Len(Listed(ids)) = Len(ids)
        /\ \A i \in 1 .. Len(ids) : GLEntryTrue(glPast', Listed(ids)[i])
    BY <1>1, GLListedHas, GLGroupTypes
  <2>2. glRun.list \in Seq(GLEntries) /\ \A i \in 1 .. Len(glRun.list) : GLEntryTrue(glPast', glRun.list[i])
    <3>1. glRun.list \in Seq(GLEntries)
      BY DEF GLInv, GLRunTrue, GLRunShape, GLRunRecord
    <3>2. \A i \in 1 .. Len(glRun.list) : GLEntryTrue(glPast, glRun.list[i])
      BY <3>1 DEF GLInv, GLRunTrue, GLListTrue
    <3> QED
      BY <1>1, <3>1, <3>2 DEF GLEntryTrue
  <2>3. ASSUME NEW i \in DOMAIN (glRun.list \o Listed(ids))
        PROVE  GLEntryTrue(glPast', (glRun.list \o Listed(ids))[i])
    <3> DEFINE old == glRun.list  new == Listed(ids)
    <3>0. old \in Seq(GLEntries) /\ new \in Seq(GLEntries)
      BY <2>1, <2>2
    <3> HIDE DEF old, new
    <3>1. /\ old \o new \in Seq(GLEntries) /\ Len(old \o new) = Len(old) + Len(new)
          /\ \A k \in 1 .. Len(old) + Len(new) : (old \o new)[k] = IF k <= Len(old) THEN old[k] ELSE new[k - Len(old)]
      BY <3>0, ConcatProperties
    <3>2. i \in 1 .. Len(old) + Len(new) /\ Len(old) \in Nat /\ Len(new) \in Nat
      BY <2>1, <2>2, <2>3, <3>1 DEF old, new
    <3>3. i <= Len(old) \/ i - Len(old) \in 1 .. Len(new)
      BY <3>2
    <3> QED
      BY <2>1, <2>2, <3>1, <3>2, <3>3 DEF old, new
  <2>4. glRun'.list = <<>> => DOMAIN glRun'.list = {}
    OBVIOUS
  <2> QED
    BY <2>3, <2>4 DEF GLListTrue
<1> QED
  BY <1>1, <1>2, <1>3, GLRunSteps DEF GLRunTrue, GLMapTrue, GLObserveTrue, GLDoneTrue
\* What a page by cursor is taken from.
GLOlder == {p \in Projects : glRun.cursor = 0 \/ p < glRun.cursor}
GLAge == [p \in GLIds |-> 0 - p]

LEMMA GLGraphPageIs ==
    ASSUME GLInv, NEW lost, GLGraphPage(lost)
    PROVE  /\ glRun.at = "graphql" /\ UNCHANGED Group
           /\ lost = {} => glPast' = glPast
           /\ lost # {} => glPast' = [glPast EXCEPT !.partial = TRUE]
           /\ \E older \in InOrder(GLOlder, GLAge) :
                LET page == Page(older, 0, GLPageSize)
                    more == Len(older) > GLPageSize
                IN  \E kept \in InOrder({page[i] : i \in DOMAIN page} \ lost, GLAge) :
                      glRun' = [glRun EXCEPT !.at = IF more THEN "graphql" ELSE "listed",
                        !.cursor = IF more THEN page[GLPageSize] ELSE 0, !.list = @ \o Listed(kept)]
  BY DEF GLGraphPage, GLOlder, GLAge

LEMMA GLGraphPageTrue == ASSUME GLInv, NEW lost, GLGraphPage(lost) PROVE GLInv'
<1>1. PICK older \in InOrder(GLOlder, GLAge) :
        \E kept \in InOrder({Page(older, 0, GLPageSize)[i] : i \in DOMAIN Page(older, 0, GLPageSize)} \ lost, GLAge) :
          glRun' = [glRun EXCEPT !.at = IF Len(older) > GLPageSize THEN "graphql" ELSE "listed",
            !.cursor = IF Len(older) > GLPageSize THEN Page(older, 0, GLPageSize)[GLPageSize] ELSE 0,
            !.list = @ \o Listed(kept)]
  BY GLGraphPageIs
<1>2. GLOlder \subseteq Projects /\ Projects \subseteq GLIds
  BY GLFinite DEF GLOlder
<1>3. older \in Seq(GLOlder) /\ Len(older) \in Nat
  BY <1>2, GLInOrderHas
<1> DEFINE page == Page(older, 0, GLPageSize)  more == Len(older) > GLPageSize  taken == {page[i] : i \in DOMAIN page}
<1>4. /\ page \in Seq(GLOlder)
      /\ Len(page) = IF 0 > Len(older) THEN 0 ELSE IF 0 + GLPageSize < Len(older) THEN GLPageSize ELSE Len(older) - 0
  BY <1>3, GLPageHas
<1>5. taken \subseteq GLOlder
  <2> HIDE DEF page
  <2> QED
    BY <1>4
<1> DEFINE cursor == IF more THEN page[GLPageSize] ELSE 0
<1>6. cursor \in Nat
  <2>1. GLPageSize \in Nat \ {0} /\ GLIds \subseteq Nat
    BY GitLabAssumption
  <2>2. CASE more
    <3>1. Len(page) = GLPageSize
      BY <1>3, <1>4, <2>1, <2>2
    <3>2. page[GLPageSize] \in GLOlder
      <4> HIDE DEF page
      <4> QED
        BY <1>4, <2>1, <3>1
    <3> QED
      BY <1>2, <2>1, <2>2, <3>2
  <2>3. CASE ~more
    BY <2>3
  <2> QED
    BY <2>2, <2>3
<1>7. PICK kept \in InOrder(taken \ lost, GLAge) :
        glRun' = [glRun EXCEPT !.at = IF more THEN "graphql" ELSE "listed",
                    !.cursor = cursor, !.list = @ \o Listed(kept)]
  BY <1>1
<1> HIDE DEF more, page, cursor, taken
<1>8. kept \in Seq(Projects)
  <2>1. taken \ lost \subseteq GLIds
    BY <1>2, <1>5
  <2>2. kept \in Seq(taken \ lost)
    BY <2>1, <1>7, GLInOrderHas
  <2> QED
    BY <1>2, <1>5, <2>2
<1> DEFINE list == Listed(kept)
<1>9. list \in Seq(GLEntries) /\ glRun.list \in Seq(GLEntries)
  BY <1>8, GLListedHas, GLGroupTypes DEF GLInv, GLRunTrue, GLRunShape, GLRunRecord
<1>10. glRun' = [glRun EXCEPT !.at = IF more THEN "graphql" ELSE "listed", !.cursor = cursor, !.list = @ \o list]
  BY <1>7
<1> HIDE DEF list
<1>11. glRun.list \o list \in Seq(GLEntries)
  BY <1>9
<1>12. GLRunShape(glRun') /\ glRun'.at \in {"graphql", "listed"} /\ glRun'.list = glRun.list \o list
  <2>1. GLRunRecord(glRun) /\ glRun.limit # 0
    BY GLGraphPageIs DEF GLInv, GLRunTrue, GLRunShape
  <2>2. GLRunRecord(glRun') /\ glRun'.list = glRun.list \o list
    BY <1>6, <1>10, <1>11, <2>1 DEF GLRunRecord, GLStages
  <2>3. glRun'.limit = glRun.limit /\ glRun'.at \in {"graphql", "listed"}
    BY <1>10, <2>1 DEF GLRunRecord
  <2> QED
    BY <2>1, <2>2, <2>3 DEF GLRunShape
<1>13. /\ glRun.at = "graphql" /\ UNCHANGED Group
       /\ glPast' = glPast \/ glPast' = [glPast EXCEPT !.partial = TRUE]
  BY GLGraphPageIs
<1>14. glRun'.list = glRun.list \o Listed(kept)
  BY <1>12 DEF list
<1> QED
  BY <1>8, <1>12, <1>13, <1>14, GLListsOn

LEMMA GLGraphFailsTrue == ASSUME GLInv, GLGraphFails PROVE GLInv'
<1>1. /\ glRun.at = "graphql" /\ UNCHANGED Group /\ glPast' = glPast
      /\ glRun' = [glRun EXCEPT !.at = "rest", !.rest = TRUE, !.list = <<>>, !.cursor = 0]
  BY DEF GLGraphFails
<1>2. <<>> \in Seq(Projects) /\ <<>> \in Seq(GLEntries)
  OBVIOUS
<1>3. GLRunShape(glRun') /\ glRun'.at = "rest" /\ glRun'.list = <<>>
  BY <1>1, <1>2 DEF GLInv, GLRunTrue, GLRunShape, GLRunRecord, GLStages
<1> QED
  BY <1>1, <1>2, <1>3, GLListsOn

LEMMA GLRestPageTrue == ASSUME GLInv, GLRestPage PROVE GLInv'
<1>1. glRun.at = "rest" /\ UNCHANGED Group /\ glPast' = glPast
  BY DEF GLRestPage, Undisturbed
<1> DEFINE from == (glRun.page - 1) * GLPageSize
<1>2. PICK all \in InOrder(Projects, glPath) :
        glRun' = [glRun EXCEPT !.at = IF from + GLPageSize < Len(all) THEN "rest" ELSE "listed",
          !.page = IF from + GLPageSize < Len(all) THEN @ + 1 ELSE 1, !.list = @ \o Listed(Page(all, from, GLPageSize))]
  BY DEF GLRestPage
<1>3. from \in Nat /\ glRun.page + 1 \in Nat \ {0}
  <2>1. glRun.page \in Nat \ {0} /\ GLPageSize \in Nat
    BY GitLabAssumption DEF GLInv, GLRunTrue, GLRunShape, GLRunRecord
  <2>2. glRun.page - 1 \in Nat
    BY <2>1
  <2> QED
    BY <2>1, <2>2
<1>4. all \in Seq(Projects)
  BY GLFinite, GLInOrderHas
<1> DEFINE ids == Page(all, from, GLPageSize)  list == Listed(ids)  more == from + GLPageSize < Len(all)
<1>5. ids \in Seq(Projects)
  <2> HIDE DEF from
  <2> QED
    BY <1>3, <1>4, GLPageHas
<1>6. /\ glRun' = [glRun EXCEPT !.at = IF more THEN "rest" ELSE "listed",
                     !.page = IF more THEN @ + 1 ELSE 1, !.list = @ \o list]
  BY <1>2
<1> DEFINE next == IF more THEN glRun.page + 1 ELSE 1
<1>11. next \in Nat \ {0} /\ glRun' = [glRun EXCEPT !.at = IF more THEN "rest" ELSE "listed", !.page = next, !.list = @ \o list]
  BY <1>3, <1>6
<1> HIDE DEF ids, more, next
<1>7. list \in Seq(GLEntries) /\ glRun.list \in Seq(GLEntries)
  BY <1>5, GLListedHas, GLGroupTypes DEF GLInv, GLRunTrue, GLRunShape, GLRunRecord
<1> HIDE DEF list, from
<1>8. glRun.list \o list \in Seq(GLEntries)
  BY <1>7
<1>9. GLRunShape(glRun') /\ glRun'.at \in {"rest", "listed"} /\ glRun'.list = glRun.list \o list
  <2>1. GLRunRecord(glRun) /\ glRun.limit # 0
    BY <1>1 DEF GLInv, GLRunTrue, GLRunShape
  <2>2. GLRunRecord(glRun') /\ glRun'.list = glRun.list \o list
    <3> DEFINE at == IF more THEN "rest" ELSE "listed"
               all2 == glRun.list \o list
    <3>1. glRun' = [glRun EXCEPT !.at = at, !.page = next, !.list = all2]
      BY <1>11
    <3>2. at \in GLStages /\ next \in Nat \ {0} /\ all2 \in Seq(GLEntries)
      BY <1>8, <1>11 DEF GLStages
    <3> HIDE DEF at, all2
    <3>3. GLRunRecord(glRun') /\ glRun'.list = all2
      BY <2>1, <3>1, <3>2 DEF GLRunRecord
    <3> QED
      BY <3>3 DEF all2
  <2>3. glRun'.limit = glRun.limit /\ glRun'.at \in {"rest", "listed"}
    BY <1>11, <2>1 DEF GLRunRecord
  <2> QED
    BY <2>1, <2>2, <2>3 DEF GLRunShape
<1>10. glRun'.list = glRun.list \o Listed(ids)
  BY <1>9 DEF list
<1> QED
  BY <1>1, <1>5, <1>9, <1>10, GLListsOn

LEMMA GLNoRunHas ==
    ASSUME NEW at \in {"idle", "failed"}
    PROVE  LET run == [GLNoRun EXCEPT !.at = at] IN
           /\ GLRunShape(run) /\ run.at = at /\ run.list = <<>> /\ run.controls = {}
<1> DEFINE run == [GLNoRun EXCEPT !.at = at]
<1>1. run.at = at /\ run.list = <<>> /\ run.controls = {}
  BY DEF GLNoRun
<1>2. GLRunShape(GLNoRun)
  BY DEF GLNoRun, GLRunShape, GLRunRecord, GLStages
<1>3. GLRunShape(run)
  BY <1>2 DEF GLRunShape, GLRunRecord, GLStages
<1> QED
  BY <1>1, <1>3

\* What is not caught ends the run, with nothing known.
LEMMA GLFailed ==
    ASSUME GLInv, UNCHANGED Group, glRun.at # "idle", glPast' = glPast,
           glRun' = [GLNoRun EXCEPT !.at = "failed"]
    PROVE  GLInv'
<1>1. GLRunShape(glRun') /\ glRun'.at = "failed" /\ glRun'.list = <<>>
  BY GLNoRunHas
<1>2. DOMAIN glRun'.list = {}
  BY <1>1
<1>3. GLPastTrue(glRun', glPast')
  BY <1>1, GLGroupTypes DEF GLPastTrue
<1>4. GLListTrue(glRun', glPast')
  BY <1>2 DEF GLListTrue
<1> QED
  BY <1>1, <1>3, <1>4, GLGroupTypes, GLRunSteps DEF GLRunTrue, GLMapTrue, GLObserveTrue, GLDoneTrue

LEMMA GLRestFailsTrue == ASSUME GLInv, GLRestFails PROVE GLInv'
  BY GLFailed DEF GLRestFails

LEMMA GLBeginTrue == ASSUME GLInv, NEW limit \in GLFileLimits, GLBegin(limit) PROVE GLInv'
<1>1. /\ UNCHANGED Group /\ glRun' = [GLNoRun EXCEPT !.at = "graphql", !.limit = limit]
      /\ glPast' = [GLNoPast EXCEPT !.lasting = Projects, !.heads = [p \in GLIds |-> {glHead[p]}],
                      !.protected = glProtected, !.unprotected = GLIds \ glProtected]
  BY DEF GLBegin
<1>2. limit \in Nat /\ limit # 0
  BY GitLabAssumption
<1>3. GLRunRecord(GLNoRun)
  BY DEF GLNoRun, GLRunRecord, GLStages
<1>4. GLRunShape(glRun') /\ glRun'.at = "graphql" /\ glRun'.list = GLNoRun.list
  <2>1. GLRunRecord(glRun') /\ glRun'.list = GLNoRun.list
    BY <1>1, <1>2, <1>3 DEF GLRunRecord, GLStages
  <2>2. glRun'.at = "graphql" /\ glRun'.limit = limit
    BY <1>1 DEF GLNoRun
  <2> QED
    BY <1>2, <2>1, <2>2 DEF GLRunShape
<1>5. DOMAIN glRun'.list = {}
  BY <1>4 DEF GLNoRun
<1> DEFINE heads == [p \in GLIds |-> {glHead[p]}]
<1>6. heads \in [GLIds -> SUBSET GLTrees] /\ \A p \in GLIds : glHead[p] \in heads[p]
  BY GLGroupTypes DEF GLGroupTrue
<1>7. glPast' = [GLNoPast EXCEPT !.lasting = Projects, !.heads = heads,
                   !.protected = glProtected, !.unprotected = GLIds \ glProtected]
  BY <1>1
<1> HIDE DEF heads
<1>8. /\ GLPastShape(glPast') /\ glPast'.lasting = Projects /\ glPast'.heads = heads
      /\ glPast'.protected = glProtected /\ glPast'.unprotected = GLIds \ glProtected
  BY <1>6, <1>7, GLGroupTypes DEF GLPastShape, GLNoPast, GLGroupTrue
<1>9. GLPastTrue(glRun', glPast')
  BY <1>6, <1>8, GLGroupTypes DEF GLPastTrue
<1> QED
  BY <1>1, <1>4, <1>5, <1>8, <1>9, GLRunSteps
     DEF GLRunTrue, GLListTrue, GLMapTrue, GLObserveTrue, GLDoneTrue

\* While projects are mapped, only their marks and their commits change.
LEMMA GLMapsOn ==
    ASSUME GLInv, UNCHANGED Group, glRun.at \in {"listed", "mapping"}, glPast' = glPast,
           NEW mapped \in [DOMAIN glRun.list -> {"todo", "ok", "failed"}],
           NEW pinned, pinned = [i \in DOMAIN glRun.list |-> pinned[i]],
           \A i \in DOMAIN glRun.list : /\ GLPinTrue(glPast, glRun.list[i].id, pinned[i])
                                        /\ glRun.list[i].branch = FALSE => pinned[i] = <<>>,
           glRun' = [glRun EXCEPT !.at = "mapping", !.mapped = mapped, !.pinned = pinned]
    PROVE  GLInv'
<1>1. /\ GLRunShape(glRun') /\ glRun'.at = "mapping" /\ glRun'.list = glRun.list
      /\ glRun'.mapped = mapped /\ glRun'.pinned = pinned
  BY DEF GLInv, GLRunTrue, GLRunShape, GLRunRecord, GLStages
<1>2. GLPastTrue(glRun', glPast') /\ GLPastShape(glPast')
  BY <1>1, GLGroupTypes DEF GLPastTrue
<1>3. GLListTrue(glRun', glPast')
  BY <1>1 DEF GLInv, GLRunTrue, GLListTrue
<1>4. GLMapTrue(glRun', glPast')
  BY <1>1 DEF GLMapTrue
<1> QED
  BY <1>1, <1>2, <1>3, <1>4, GLRunSteps DEF GLRunTrue, GLObserveTrue, GLDoneTrue

LEMMA GLListedTrue == ASSUME GLInv, GLListed PROVE GLInv'
<1> DEFINE mapped == [i \in DOMAIN glRun.list |-> "todo"]
           pinned == [i \in DOMAIN glRun.list |-> <<>>]
<1>1. /\ glRun.at = "listed" /\ UNCHANGED Group /\ glPast' = glPast
      /\ glRun' = [glRun EXCEPT !.at = "mapping", !.mapped = mapped, !.pinned = pinned]
  BY DEF GLListed, Undisturbed
<1>2. mapped \in [DOMAIN glRun.list -> {"todo", "ok", "failed"}] /\ pinned = [i \in DOMAIN glRun.list |-> pinned[i]]
  OBVIOUS
<1>3. \A i \in DOMAIN glRun.list : GLPinTrue(glPast, glRun.list[i].id, pinned[i]) /\ pinned[i] = <<>>
  BY DEF GLPinTrue
<1> HIDE DEF mapped, pinned
<1> QED
  BY <1>1, <1>2, <1>3, GLMapsOn

LEMMA GLMapTrueStep ==
    ASSUME GLInv, NEW i \in DOMAIN glRun.mapped, GLMap(i) PROVE GLInv'
<1> DEFINE p == glRun.list[i].id
           there == {q \in Projects : glPath[q] = glRun.list[i].path}
           pin == IF glRun.rest /\ glRun.list[i].branch /\ there # {}
                  THEN <<glHead[CHOOSE q \in there : TRUE]>> ELSE <<>>
           gone == glRun.rest /\ p \notin Projects \cup glAway
           mapped == [glRun.mapped EXCEPT ![i] = IF gone THEN "failed" ELSE "ok"]
           pinned == IF gone THEN glRun.pinned ELSE [glRun.pinned EXCEPT ![i] = pin]
<1>1. glRun.at = "mapping" /\ UNCHANGED Group /\ glPast' = glPast /\ GLRunShape(glRun)
  BY DEF GLMap, Undisturbed, GLInv, GLRunTrue
<1>2. /\ glRun.mapped \in [DOMAIN glRun.list -> {"todo", "ok", "failed"}]
      /\ glRun.pinned = [j \in DOMAIN glRun.list |-> glRun.pinned[j]] /\ i \in DOMAIN glRun.list
      /\ \A j \in DOMAIN glRun.list : /\ GLPinTrue(glPast, glRun.list[j].id, glRun.pinned[j])
                                      /\ glRun.list[j].branch = FALSE => glRun.pinned[j] = <<>>
  BY <1>1 DEF GLInv, GLRunTrue, GLMapTrue
<1>3. glRun' = [glRun EXCEPT !.at = "mapping", !.mapped = mapped, !.pinned = pinned]
  <2>1. CASE gone
    <3>1. glRun' = [glRun EXCEPT !.mapped[i] = "failed"]
      BY <2>1 DEF GLMap
    <3> HIDE DEF pin, gone
    <3> QED
      BY <1>1, <2>1, <3>1 DEF GLRunShape, GLRunRecord
  <2>2. CASE ~gone
    <3>1. glRun' = [glRun EXCEPT !.mapped[i] = "ok", !.pinned[i] = pin]
      BY <2>2 DEF GLMap
    <3> HIDE DEF pin, gone
    <3> QED
      BY <1>1, <2>2, <3>1 DEF GLRunShape, GLRunRecord
  <2> QED
    BY <2>1, <2>2
<1>4. GLEntryTrue(glPast, glRun.list[i]) /\ p \in GLIds
  <2>1. glRun.list \in Seq(GLEntries)
    BY <1>1 DEF GLRunShape, GLRunRecord
  <2>2. glRun.list[i] \in GLEntries
    BY <1>2, <2>1
  <2> QED
    BY <1>2, <2>2 DEF GLInv, GLRunTrue, GLListTrue, GLEntries
<1>5. GLPinTrue(glPast, p, pin)
  <2> SUFFICES ASSUME p \in glPast.lasting, pin # <<>>, glPast.moved = FALSE PROVE pin[1] \in glPast.heads[p]
    BY GLGroupTypes DEF GLPinTrue
  <2>1. glRun.list[i].path = glPath[p] /\ p \in Projects
    BY <1>4, GLGroupTypes DEF GLEntryTrue
  <2>2. there = {p}
    BY <2>1, GLGroupTypes DEF GLGroupTrue
  <2>3. pin = <<glHead[p]>>
    BY <2>2
  <2>4. glHead[p] \in glPast.heads[p]
    BY <1>1, GLGroupTypes DEF GLPastTrue
  <2> HIDE DEF pin
  <2> QED
    BY <2>3, <2>4
<1>6. glRun.list[i].branch = FALSE => pin = <<>>
  OBVIOUS
<1> HIDE DEF pin, gone, p
<1>7. /\ mapped \in [DOMAIN glRun.list -> {"todo", "ok", "failed"}]
      /\ pinned = [j \in DOMAIN glRun.list |-> pinned[j]]
  BY <1>2
<1>8. ASSUME NEW j \in DOMAIN glRun.list
      PROVE  /\ GLPinTrue(glPast, glRun.list[j].id, pinned[j])
             /\ glRun.list[j].branch = FALSE => pinned[j] = <<>>
  <2>1. pinned[j] = IF gone \/ j # i THEN glRun.pinned[j] ELSE pin
    BY <1>2
  <2> QED
    BY <1>2, <1>5, <1>6, <2>1 DEF p
<1> HIDE DEF mapped, pinned
<1> QED
  BY <1>1, <1>3, <1>7, <1>8, GLMapsOn

LEMMA GLMapFailsTrue ==
    ASSUME GLInv, NEW i \in DOMAIN glRun.mapped, GLMapFails(i) PROVE GLInv'
<1>1. /\ glRun.at = "mapping" /\ UNCHANGED Group /\ glPast' = glPast /\ GLRunShape(glRun)
      /\ glRun' = [glRun EXCEPT !.mapped[i] = "failed"]
  BY DEF GLMapFails, GLInv, GLRunTrue
<1>2. /\ glRun.mapped \in [DOMAIN glRun.list -> {"todo", "ok", "failed"}]
      /\ glRun.pinned = [j \in DOMAIN glRun.list |-> glRun.pinned[j]]
      /\ \A j \in DOMAIN glRun.list : /\ GLPinTrue(glPast, glRun.list[j].id, glRun.pinned[j])
                                      /\ glRun.list[j].branch = FALSE => glRun.pinned[j] = <<>>
  BY <1>1 DEF GLInv, GLRunTrue, GLMapTrue
<1> DEFINE mapped == [glRun.mapped EXCEPT ![i] = "failed"]
<1>3. mapped \in [DOMAIN glRun.list -> {"todo", "ok", "failed"}]
  BY <1>2
<1>4. glRun' = [glRun EXCEPT !.at = "mapping", !.mapped = mapped, !.pinned = glRun.pinned]
  BY <1>1 DEF GLRunShape, GLRunRecord
<1> HIDE DEF mapped
<1> QED
  BY <1>1, <1>2, <1>3, <1>4, GLMapsOn

LEMMA GLInventoryTrue == ASSUME GLInv, GLInventory PROVE GLInv'
<1> DEFINE bad == {i \in DOMAIN glRun.list : glRun.mapped[i] = "failed" \/ Duplicate(glRun, i)}
           good == DOMAIN glRun.list \ bad
           kept == {i \in good : glRun.list[i].id \notin GLArchived}
           ids == {glRun.list[i].id : i \in kept}
           At(p) == CHOOSE i \in kept : glRun.list[i].id = p
           out == {glRun.list[i].id : i \in good \ kept}
           paths == [p \in ids |-> glRun.list[At(p)].path]
           pinned == [p \in ids |-> glRun.pinned[At(p)]]
           ci == [p \in ids |-> IF glRun.list[At(p)].branch THEN NoCi ELSE [NoCi EXCEPT !.at = "read"]]
<1>1. glRun.at = "mapping" /\ UNCHANGED Group /\ glPast' = glPast
  BY DEF GLInventory, Undisturbed
<1>2. glRun' = [GLNoRun EXCEPT !.at = "observing", !.rest = glRun.rest, !.limit = glRun.limit,
                  !.failures = bad, !.repos = ids, !.excluded = out, !.paths = paths, !.pinned = pinned, !.ci = ci]
  BY DEF GLInventory
<1>3. /\ glRun.list \in Seq(GLEntries) /\ \A i \in DOMAIN glRun.list : glRun.list[i] \in GLEntries
      /\ glRun.rest \in BOOLEAN /\ glRun.limit \in Nat /\ GLRunShape(GLNoRun)
  BY DEF GLInv, GLRunTrue, GLRunShape, GLRunRecord, GLNoRun, GLStages
<1>4. \A p \in ids : At(p) \in kept /\ glRun.list[At(p)].id = p
  OBVIOUS
<1>5. kept \subseteq DOMAIN glRun.list /\ ids \subseteq GLIds
  BY <1>3 DEF GLEntries
<1>6. ASSUME NEW p \in ids
      PROVE  /\ ci[p] = IF glRun.list[At(p)].branch THEN NoCi ELSE [NoCi EXCEPT !.at = "read"]
             /\ ci[p] \in GLCiShapes /\ ci[p].branch = "unread" /\ ci[p].at \in {"root", "read"}
             /\ ci[p].at = "read" => glRun.list[At(p)].branch = FALSE /\ ci[p].marker = FALSE
  <2>1. glRun.list[At(p)].branch \in BOOLEAN
    BY <1>3, <1>4, <1>5 DEF GLEntries
  <2> HIDE DEF At, ids
  <2> QED
    BY <2>1 DEF NoCi, GLCiShapes
<1>7. paths = [p \in ids |-> paths[p]] /\ pinned = [p \in ids |-> pinned[p]] /\ ci \in [ids -> GLCiShapes]
  <2> HIDE DEF At, ids
  <2> QED
    BY <1>6
<1>8. ASSUME NEW p \in ids, p \in glPast.lasting
      PROVE  /\ glPast.moved \/ paths[p] = glPath[p]
             /\ GLPinTrue(glPast, p, pinned[p])
             /\ ci[p].at = "read" => pinned[p] = <<>> /\ glHead[p] = NoBranch
  <2> DEFINE i == At(p)
  <2>1. i \in DOMAIN glRun.list /\ glRun.list[i].id = p /\ glRun.list[i] \in GLEntries
    BY <1>3, <1>4, <1>5
  <2>2. paths[p] = glRun.list[i].path /\ pinned[p] = glRun.pinned[i]
    OBVIOUS
  <2> HIDE DEF i
  <2>3. /\ GLEntryTrue(glPast, glRun.list[i]) /\ GLPinTrue(glPast, glRun.list[i].id, glRun.pinned[i])
        /\ glRun.list[i].branch = FALSE => glRun.pinned[i] = <<>>
    BY <1>1, <2>1 DEF GLInv, GLRunTrue, GLListTrue, GLMapTrue
  <2>4. (glPast.moved \/ glRun.list[i].path = glPath[p]) /\ (glRun.list[i].branch = FALSE => glHead[p] = NoBranch)
    BY <1>8, <2>1, <2>3 DEF GLEntryTrue
  <2>5. ci[p].at = "read" => glRun.list[i].branch = FALSE
    BY <1>6 DEF i
  <2> HIDE DEF paths, pinned, ci
  <2> QED
    BY <2>1, <2>2, <2>3, <2>4, <2>5
<1> HIDE DEF paths, pinned, ci, out, ids, bad
<1>9. /\ GLRunShape(glRun') /\ glRun'.at = "observing" /\ glRun'.list = GLNoRun.list /\ glRun'.repos = ids
      /\ glRun'.paths = paths /\ glRun'.pinned = pinned /\ glRun'.ci = ci
  <2>1. GLRunRecord(GLNoRun) /\ glRun.limit # 0
    BY <1>1, <1>3 DEF GLRunShape, GLInv, GLRunTrue
  <2>2. /\ GLRunRecord(glRun') /\ glRun'.list = GLNoRun.list /\ glRun'.repos = ids
        /\ glRun'.paths = paths /\ glRun'.pinned = pinned /\ glRun'.ci = ci
    BY <1>2, <1>3, <1>5, <2>1 DEF GLRunRecord, GLStages
  <2>3. glRun'.at = "observing" /\ glRun'.limit = glRun.limit
    BY <1>2, <2>1 DEF GLRunRecord
  <2> QED
    BY <2>1, <2>2, <2>3 DEF GLRunShape
<1>10. DOMAIN glRun'.list = {}
  BY <1>9 DEF GLNoRun
<1>11. GLPastTrue(glRun', glPast') /\ GLPastShape(glPast')
  BY <1>1, <1>9, GLGroupTypes DEF GLPastTrue
<1>12. ASSUME NEW p \in ids, p \in glPast.lasting
       PROVE  GLCiTrue(glRun', glPast', p)
  <2>1. GLCiSays(ci[p], GLCommit(glRun', p))
    <3>1. CASE ci[p].at = "root"
      BY <3>1 DEF GLCiSays
    <3>2. CASE ci[p].at = "read"
      <4>1. GLCommit(glRun', p) = NoBranch
        BY <1>8, <1>9, <1>12, <3>2 DEF GLCommit
      <4>2. ~Scans(NoBranch)
        BY DEF Scans, NoBranch
      <4> QED
        BY <1>6, <3>2, <4>1, <4>2 DEF GLCiSays
    <3> QED
      BY <1>6, <3>1, <3>2
  <2> QED
    BY <1>1, <1>6, <1>8, <1>9, <1>12, <2>1 DEF GLCiTrue
<1>13. GLObserveTrue(glRun', glPast')
  BY <1>1, <1>7, <1>9, <1>12 DEF GLObserveTrue
<1> QED
  BY <1>1, <1>9, <1>10, <1>11, <1>13, GLRunSteps DEF GLRunTrue, GLListTrue, GLMapTrue, GLDoneTrue

LEMMA GLObserves ==
    ASSUME GLInv, glRun.at = "observing"
    PROVE  /\ glRun.ci \in [glRun.repos -> GLCiShapes] /\ glRun.repos \subseteq GLIds /\ GLRunShape(glRun)
           /\ \A p \in glRun.repos \cap glPast.lasting : GLCiTrue(glRun, glPast, p)
  BY DEF GLInv, GLRunTrue, GLObserveTrue, GLRunShape, GLRunRecord

\* What is read of a project that was there all along, and moved nowhere, is
\* its pinned commit or the head of its branch.
LEMMA GLTreeIs ==
    ASSUME GLInv, glRun.at = "observing", NEW p \in glRun.repos \cap glPast.lasting, glPast.moved = FALSE
    PROVE  Tree(p) = GLCommit(glRun, p)
<1> DEFINE there == {q \in Projects : glPath[q] = glRun.paths[p]}
<1>1. glRun.paths[p] = glPath[p] /\ p \in Projects
  BY GLObserves, GLGroupTypes DEF GLCiTrue
<1>2. there = {p}
  BY <1>1, GLGroupTypes DEF GLGroupTrue
<1>3. Tree(p) = CASE there = {} -> NoTree
                  [] there # {} /\ glRun.pinned[p] # <<>> -> IF p \in there THEN glRun.pinned[p][1] ELSE NoTree
                  [] OTHER -> glHead[CHOOSE q \in there : TRUE]
  BY DEF Tree
<1>4. (CHOOSE q \in there : TRUE) = p
  BY <1>2
<1> HIDE DEF there
<1> QED
  BY <1>2, <1>3, <1>4 DEF GLCommit

\* A worker reads on: one entry changes, and says what is so.
LEMMA GLReadsOn ==
    ASSUME GLInv, UNCHANGED Group, glPast' = glPast, glRun.at = "observing",
           NEW p \in glRun.repos, NEW ci \in GLCiShapes,
           p \in glPast.lasting =>
             /\ glPast.moved \/ (glRun.pinned[p] = <<>> /\ p \in glPast.pushed) \/ GLCiSays(ci, GLCommit(glRun, p))
             /\ ci.branch = "protected" => p \in glPast.protected
             /\ ci.branch = "open" => p \in glPast.unprotected,
           glRun' = [glRun EXCEPT !.ci[p] = ci]
    PROVE  GLInv'
<1> DEFINE all == [glRun.ci EXCEPT ![p] = ci]
<1>1. all \in [glRun.repos -> GLCiShapes] /\ \A q \in glRun.repos : all[q] = IF q = p THEN ci ELSE glRun.ci[q]
  BY GLObserves
<1>2. glRun' = [glRun EXCEPT !.ci = all]
  BY GLObserves DEF GLRunShape, GLRunRecord
<1> HIDE DEF all
<1>3. /\ GLRunShape(glRun') /\ glRun'.at = "observing" /\ glRun'.list = glRun.list /\ glRun'.repos = glRun.repos
      /\ glRun'.paths = glRun.paths /\ glRun'.pinned = glRun.pinned /\ glRun'.ci = all
  BY <1>2, GLObserves DEF GLRunShape, GLRunRecord
<1>4. GLPastTrue(glRun', glPast') /\ GLPastShape(glPast') /\ GLListTrue(glRun', glPast')
  BY <1>3, GLGroupTypes DEF GLPastTrue, GLListTrue, GLInv, GLRunTrue
<1>5. ASSUME NEW q \in glRun.repos \cap glPast.lasting
      PROVE  GLCiTrue(glRun', glPast', q)
  <2>1. GLCiTrue(glRun, glPast, q)
    BY GLObserves
  <2>2. glRun'.ci[q] = IF q = p THEN ci ELSE glRun.ci[q]
    BY <1>1, <1>3
  <2> QED
    BY <1>3, <2>1, <2>2 DEF GLCiTrue, GLCommit
<1>6. GLObserveTrue(glRun', glPast')
  BY <1>1, <1>3, <1>5 DEF GLObserveTrue
<1> QED
  BY <1>3, <1>4, <1>6, GLRunSteps DEF GLRunTrue, GLMapTrue, GLDoneTrue

LEMMA GLReadingIs ==
    ASSUME GLInv, NEW p, NEW at, Reading(p, at)
    PROVE  /\ glRun.at = "observing" /\ p \in glRun.repos /\ glRun.ci[p].at = at
           /\ glRun.ci[p] \in GLCiShapes
           /\ p \in glPast.lasting =>
                /\ glPast.moved \/ (glRun.pinned[p] = <<>> /\ p \in glPast.pushed) \/
                     GLCiSays(glRun.ci[p], GLCommit(glRun, p))
                /\ glRun.ci[p].branch = "protected" => p \in glPast.protected
                /\ glRun.ci[p].branch = "open" => p \in glPast.unprotected
  BY GLObserves DEF Reading, GLCiTrue

LEMMA GLReadsRootTrue == ASSUME GLInv, NEW p \in GLIds, GLReadsRoot(p) PROVE GLInv'
<1> DEFINE t == Tree(p)
           root == t.root
           include == root = "includes"
           old == glRun.ci[p]
           ci == [old EXCEPT !.present = root \notin {"missing", "none"}, !.marker = root = "marker",
                    !.complete = ~(include /\ glRun.limit = 1),
                    !.at = IF include /\ glRun.limit > 1 THEN "include" ELSE "branch"]
<1>1. UNCHANGED Group /\ glPast' = glPast /\ glRun' = [glRun EXCEPT !.ci[p] = ci] /\ Reading(p, "root")
  BY DEF GLReadsRoot, Undisturbed
<1>2. /\ glRun.at = "observing" /\ p \in glRun.repos /\ old \in GLCiShapes
      /\ p \in glPast.lasting => /\ old.branch = "protected" => p \in glPast.protected
                                 /\ old.branch = "open" => p \in glPast.unprotected
  BY <1>1, GLReadingIs
<1>3. p \in glPast.lasting => glPast.moved \/ t = GLCommit(glRun, p)
  BY <1>2, GLTreeIs, GLGroupTypes
<1> HIDE DEF t, old
<1>4. ci \in GLCiShapes /\ ci.branch = old.branch /\ GLCiSays(ci, t)
  <2>1. /\ ci \in GLCiShapes /\ ci.branch = old.branch
        /\ ci.present = (root \notin {"missing", "none"}) /\ ci.marker = (root = "marker")
        /\ ci.complete = ~(include /\ glRun.limit = 1)
        /\ ci.at = IF include /\ glRun.limit > 1 THEN "include" ELSE "branch"
    BY <1>2 DEF GLCiShapes
  <2>2. glRun.limit \in Nat
    BY DEF GLInv, GLRunTrue, GLRunShape, GLRunRecord
  <2> HIDE DEF ci
  <2>3. CASE ci.at = "include"
    <3>1. include
      BY <2>1, <2>3
    <3> QED
      BY <2>1, <2>3, <3>1 DEF GLCiSays
  <2>4. CASE ci.at = "branch"
    <3>1. ~include \/ ~(glRun.limit > 1)
      BY <2>1, <2>4
    <3>2. ci.marker = TRUE => Scans(t)
      BY <2>1 DEF Scans
    <3>3. ASSUME ci.marker = FALSE, ci.present = FALSE \/ ci.complete = TRUE PROVE ~Scans(t)
      <4>1. root # "marker"
        BY <2>1, <3>3
      <4>2. root # "includes" \/ t.file # "marker"
        <5>1. SUFFICES ASSUME include PROVE FALSE
          OBVIOUS
        <5>2. glRun.limit = 1 \/ glRun.limit = 0
          BY <2>2, <3>1, <5>1
        <5>3. glRun.limit # 0
          BY <1>2 DEF GLInv, GLRunTrue, GLRunShape, GLRunRecord
        <5> QED
          BY <2>1, <3>3, <5>1, <5>2, <5>3
      <4> QED
        BY <4>1, <4>2 DEF Scans
    <3>4. GLCiSays(ci, t) <=> \/ ci.failed = TRUE
                              \/ /\ ci.marker = TRUE => Scans(t)
                                 /\ ci.marker = FALSE /\ (ci.present = FALSE \/ ci.complete = TRUE) => ~Scans(t)
      BY <2>4 DEF GLCiSays
    <3>5. ci.marker = FALSE /\ (ci.present = FALSE \/ ci.complete = TRUE) => ~Scans(t)
      BY <3>3
    <3> QED
      BY <2>1, <3>2, <3>4, <3>5
  <2> QED
    BY <2>1, <2>3, <2>4
<1> HIDE DEF ci
<1> QED
  BY <1>1, <1>2, <1>3, <1>4, GLReadsOn

LEMMA GLOddIncludeTrue == ASSUME GLInv, NEW p, GLOddInclude(p) PROVE GLInv'
<1>1. /\ Reading(p, "root") /\ UNCHANGED Group /\ glPast' = glPast
      /\ glRun' = [GLNoRun EXCEPT !.at = "failed"]
  BY DEF GLOddInclude, Undisturbed
<1>2. glRun.at # "idle"
  BY <1>1 DEF Reading
<1> QED
  BY <1>1, <1>2, GLFailed

LEMMA GLReadsIncludeTrue == ASSUME GLInv, NEW p \in GLIds, GLReadsInclude(p) PROVE GLInv'
<1> DEFINE t == Tree(p)
           old == glRun.ci[p]
           ci == [old EXCEPT !.at = "branch", !.marker = t.file = "marker", !.complete = t.file # "missing"]
<1>1. UNCHANGED Group /\ glPast' = glPast /\ glRun' = [glRun EXCEPT !.ci[p] = ci] /\ Reading(p, "include")
  BY DEF GLReadsInclude, Undisturbed
<1>2. /\ glRun.at = "observing" /\ p \in glRun.repos /\ old \in GLCiShapes /\ old.at = "include"
      /\ p \in glPast.lasting =>
           /\ glPast.moved \/ (glRun.pinned[p] = <<>> /\ p \in glPast.pushed) \/ GLCiSays(old, GLCommit(glRun, p))
           /\ old.branch = "protected" => p \in glPast.protected
           /\ old.branch = "open" => p \in glPast.unprotected
  BY <1>1, GLReadingIs
<1>3. p \in glPast.lasting => glPast.moved \/ t = GLCommit(glRun, p)
  BY <1>2, GLTreeIs, GLGroupTypes
<1> HIDE DEF t, old
<1>4. /\ ci \in GLCiShapes /\ ci.branch = old.branch /\ ci.at = "branch" /\ ci.present = old.present
      /\ ci.marker = (t.file = "marker") /\ ci.complete = (t.file # "missing")
  BY <1>2 DEF GLCiShapes
<1> HIDE DEF ci
<1>5. ASSUME GLCiSays(old, t) PROVE GLCiSays(ci, t)
  <2>1. t.root = "includes" /\ old.present = TRUE
    BY <1>2, <1>5 DEF GLCiSays
  <2>2. ci.marker = TRUE => Scans(t)
    BY <1>4, <2>1 DEF Scans
  <2>3. ci.marker = FALSE => ~Scans(t)
    BY <1>4, <2>1 DEF Scans
  <2>4. ci.marker = FALSE /\ (ci.present = FALSE \/ ci.complete = TRUE) => ~Scans(t)
    BY <2>3
  <2>5. GLCiSays(ci, t) <=> \/ ci.failed = TRUE
                            \/ /\ ci.marker = TRUE => Scans(t)
                               /\ ci.marker = FALSE /\ (ci.present = FALSE \/ ci.complete = TRUE) => ~Scans(t)
    BY <1>4 DEF GLCiSays
  <2> QED
    BY <2>2, <2>4, <2>5
<1>6. p \in glPast.lasting =>
        glPast.moved \/ (glRun.pinned[p] = <<>> /\ p \in glPast.pushed) \/ GLCiSays(ci, GLCommit(glRun, p))
  BY <1>2, <1>3, <1>5
<1> QED
  BY <1>1, <1>2, <1>4, <1>6, GLReadsOn

LEMMA GLReadFailsTrue == ASSUME GLInv, NEW p \in GLIds, GLReadFails(p) PROVE GLInv'
<1> DEFINE old == glRun.ci[p]
           ci == [old EXCEPT !.at = "branch", !.complete = FALSE, !.failed = TRUE]
<1>1. UNCHANGED Group /\ glPast' = glPast /\ glRun' = [glRun EXCEPT !.ci[p] = ci]
  BY DEF GLReadFails
<1>2. PICK at \in {"root", "include"} : Reading(p, at)
  BY DEF GLReadFails
<1>3. /\ glRun.at = "observing" /\ p \in glRun.repos /\ old \in GLCiShapes
      /\ p \in glPast.lasting => /\ old.branch = "protected" => p \in glPast.protected
                                 /\ old.branch = "open" => p \in glPast.unprotected
  BY <1>2, GLReadingIs
<1> HIDE DEF old
<1>4. ci \in GLCiShapes /\ ci.branch = old.branch /\ ci.at = "branch" /\ ci.failed = TRUE
  BY <1>3 DEF GLCiShapes
<1> HIDE DEF ci
<1>5. GLCiSays(ci, GLCommit(glRun, p))
  BY <1>4 DEF GLCiSays
<1> QED
  BY <1>1, <1>3, <1>4, <1>5, GLReadsOn

\* The branch is read last, and says nothing of the files.
LEMMA GLBranchRead ==
    ASSUME GLInv, NEW p \in GLIds, Reading(p, "branch"), UNCHANGED Group, glPast' = glPast,
           NEW branch \in {"protected", "open", "failed"},
           branch = "protected" => p \in glProtected,
           branch = "open" => p \notin Projects \cap glProtected,
           glRun' = [glRun EXCEPT !.ci[p] = [@ EXCEPT !.at = "read", !.branch = branch]]
    PROVE  GLInv'
<1> DEFINE old == glRun.ci[p]
           ci == [old EXCEPT !.at = "read", !.branch = branch]
<1>1. /\ glRun.at = "observing" /\ p \in glRun.repos /\ old \in GLCiShapes /\ old.at = "branch"
      /\ p \in glPast.lasting =>
           glPast.moved \/ (glRun.pinned[p] = <<>> /\ p \in glPast.pushed) \/ GLCiSays(old, GLCommit(glRun, p))
  BY GLReadingIs
<1>2. glRun' = [glRun EXCEPT !.ci[p] = ci]
  OBVIOUS
<1> HIDE DEF old
<1>3. /\ ci \in GLCiShapes /\ ci.branch = branch /\ ci.at = "read" /\ ci.marker = old.marker
      /\ ci.present = old.present /\ ci.complete = old.complete /\ ci.failed = old.failed
  BY <1>1 DEF GLCiShapes
<1> HIDE DEF ci
<1>4. ASSUME NEW t, GLCiSays(old, t) PROVE GLCiSays(ci, t)
  BY <1>1, <1>3, <1>4 DEF GLCiSays
<1>5. p \in glPast.lasting => /\ branch = "protected" => p \in glPast.protected
                              /\ branch = "open" => p \in glPast.unprotected
  <2>1. p \in glPast.lasting => p \in Projects
    BY GLGroupTypes
  <2>2. glProtected \subseteq glPast.protected /\ GLIds \ glProtected \subseteq glPast.unprotected
    BY <1>1, GLGroupTypes DEF GLPastTrue
  <2> QED
    BY <2>1, <2>2
<1> QED
  BY <1>1, <1>2, <1>3, <1>4, <1>5, GLReadsOn

LEMMA GLReadsBranchTrue == ASSUME GLInv, NEW p \in GLIds, GLReadsBranch(p) PROVE GLInv'
<1> DEFINE branch == IF p \in (Projects \cup glAway) \cap glProtected THEN "protected" ELSE "open"
<1>1. /\ Reading(p, "branch") /\ UNCHANGED Group /\ glPast' = glPast
      /\ glRun' = [glRun EXCEPT !.ci[p] = [@ EXCEPT !.at = "read", !.branch = branch]]
  BY DEF GLReadsBranch, Undisturbed
<1>2. /\ branch \in {"protected", "open", "failed"}
      /\ branch = "protected" => p \in glProtected
      /\ branch = "open" => p \notin Projects \cap glProtected
  OBVIOUS
<1> HIDE DEF branch
<1> QED
  BY <1>1, <1>2, GLBranchRead

LEMMA GLBranchFailsTrue == ASSUME GLInv, NEW p \in GLIds, GLBranchFails(p) PROVE GLInv'
  BY GLBranchRead DEF GLBranchFails

LEMMA GLControlsTrueStep == ASSUME GLInv, GLControls PROVE GLInv'
<1> DEFINE control(p) == [id |-> p, workflow |-> CiState(glRun.ci[p]), branch |-> BranchState(glRun.ci[p].branch)]
           controls == {control(p) : p \in glRun.repos}
<1>1. /\ glRun.at = "observing" /\ UNCHANGED Group /\ glPast' = glPast
      /\ \A p \in DOMAIN glRun.ci : glRun.ci[p].at = "read"
      /\ glRun' = [glRun EXCEPT !.at = "done", !.ci = <<>>, !.controls = controls]
  BY DEF GLControls, Undisturbed
<1>2. ASSUME NEW p \in glRun.repos \cap glPast.lasting
      PROVE  GLControlTrue(glRun, glPast, control(p))
  <2> DEFINE ci == glRun.ci[p]  t == GLCommit(glRun, p)
             may == glPast.moved \/ (glRun.pinned[p] = <<>> /\ p \in glPast.pushed)
  <2>1. GLCiTrue(glRun, glPast, p) /\ ci \in GLCiShapes /\ ci.at = "read"
    BY <1>1, GLObserves
  <2>2. may \/ t \in glPast.heads[p]
    <3>1. glHead[p] \in glPast.heads[p]
      BY <1>1, GLGroupTypes DEF GLPastTrue
    <3> QED
      BY <2>1, <3>1 DEF GLCiTrue, GLPinTrue, GLCommit
  <2>3. may \/ ci.failed = TRUE \/ /\ ci.marker = TRUE => Scans(t)
                                   /\ ci.marker = FALSE /\ (ci.present = FALSE \/ ci.complete = TRUE) => ~Scans(t)
    BY <2>1 DEF GLCiTrue, GLCiSays
  <2> HIDE DEF t
  <2>4. /\ CiState(ci) = "compliant" => ci.failed = FALSE /\ ci.marker = TRUE
        /\ CiState(ci) = "noncompliant" =>
             ci.failed = FALSE /\ ci.marker = FALSE /\ (ci.present = FALSE \/ ci.complete = TRUE)
    <3>1. /\ ci.failed \in BOOLEAN /\ ci.marker \in BOOLEAN /\ ci.present \in BOOLEAN /\ ci.complete \in BOOLEAN
      BY <2>1 DEF GLCiShapes
    <3> HIDE DEF ci
    <3> QED
      BY <3>1 DEF CiState
  <2>5. /\ ci.branch \in {"unread", "protected", "open", "failed"}
        /\ ci.branch = "protected" => p \in glPast.protected
        /\ ci.branch = "open" => p \in glPast.unprotected
    BY <2>1 DEF GLCiTrue, GLCiShapes
  <2> HIDE DEF ci
  <2>6. /\ BranchState(ci.branch) = "compliant" => ci.branch = "protected"
        /\ BranchState(ci.branch) = "noncompliant" => ci.branch = "open"
    BY <2>5 DEF BranchState
  <2>7. /\ control(p).id = p /\ control(p).workflow = CiState(ci) /\ control(p).branch = BranchState(ci.branch)
    BY DEF ci
  <2> HIDE DEF control
  <2> QED
    BY <2>2, <2>3, <2>4, <2>5, <2>6, <2>7 DEF GLControlTrue
<1> HIDE DEF controls
<1>3. /\ GLRunShape(glRun') /\ glRun'.at = "done" /\ glRun'.list = glRun.list
      /\ glRun'.pinned = glRun.pinned /\ glRun'.controls = controls
  <2>1. GLRunRecord(glRun) /\ glRun.limit # 0
    BY <1>1 DEF GLInv, GLRunTrue, GLRunShape
  <2>2. /\ GLRunRecord(glRun') /\ glRun'.list = glRun.list
        /\ glRun'.pinned = glRun.pinned /\ glRun'.controls = controls /\ glRun'.at = "done"
    BY <1>1, <2>1 DEF GLRunRecord, GLStages
  <2>3. glRun'.limit = glRun.limit
    BY <1>1, <2>1 DEF GLRunRecord
  <2> QED
    BY <2>1, <2>2, <2>3 DEF GLRunShape
<1>4. GLPastTrue(glRun', glPast') /\ GLPastShape(glPast') /\ GLListTrue(glRun', glPast')
  BY <1>1, <1>3, GLGroupTypes DEF GLPastTrue, GLListTrue, GLInv, GLRunTrue
<1>5. GLDoneTrue(glRun', glPast')
  <2> SUFFICES ASSUME NEW c \in controls, c.id \in glPast.lasting PROVE GLControlTrue(glRun', glPast', c)
    BY <1>1, <1>3 DEF GLDoneTrue
  <2>1. PICK p \in glRun.repos : c = control(p)
    BY DEF controls
  <2>2. c.id = p
    BY <2>1
  <2>3. GLControlTrue(glRun, glPast, c)
    BY <1>2, <2>1, <2>2
  <2> HIDE DEF control
  <2> QED
    BY <1>1, <1>3, <2>3 DEF GLControlTrue
<1> QED
  BY <1>1, <1>3, <1>4, <1>5, GLRunSteps DEF GLRunTrue, GLMapTrue, GLObserveTrue

-----------------------------------------------------------------------------
(* What the list lacks shows: in GraphQL's order the projects before the   *)
(* cursor are listed; with page numbers, a list as long as the group that  *)
(* misses one has another twice, or one that is gone, unless one was       *)
(* transferred out of the group meanwhile.                                 *)

GLListsGone(run) ==
  \E i \in DOMAIN run.list : run.list[i].id \notin Projects /\ (run.at = "mapping" => run.mapped[i] # "ok")

GLCovered(run, past) ==
  /\ run.at = "graphql" =>
       /\ run.rest = FALSE /\ run.page = 1
       /\ past.partial = FALSE => \A p \in past.lasting : run.cursor # 0 /\ p >= run.cursor => p \in ListedIds(run.list)
  /\ run.at = "rest" => run.rest = TRUE /\ Len(run.list) = (run.page - 1) * GLPageSize
  /\ run.at \in {"listed", "mapping"} /\ past.partial = FALSE =>
       \/ past.lasting \subseteq ListedIds(run.list)
       \/ run.rest = TRUE /\ (ListsTwice(run.list) \/ GLListsGone(run) \/ glAway # {})
  /\ run.at \in {"observing", "done"} /\ run.failures = {} /\ past.partial = FALSE =>
       past.lasting \subseteq run.repos \cup run.excluded \/ (run.rest = TRUE /\ glAway # {})

GLCovers == GLCovered(glRun, glPast)

LEMMA GLCoversInit == GitLabInit => GLCovers
  BY DEF GitLabInit, GLNoRun, GLCovers, GLCovered

\* The group changes: who is gone stays gone, and who was there all along is
\* among those who were before.
LEMMA GLGroupCovers ==
    ASSUME GLInv, GLCovers, GLInv', glRun' = glRun, glPast'.lasting \subseteq glPast.lasting,
           glPast'.partial = glPast.partial, glGone \subseteq glGone', glAway \subseteq glAway'
    PROVE  GLCovers'
<1>1. GLListsGone(glRun) => GLListsGone(glRun)'
  <2> SUFFICES ASSUME NEW i \in DOMAIN glRun.list, glRun.list[i].id \notin Projects,
                      glRun.at = "mapping" => glRun.mapped[i] # "ok"
               PROVE  GLListsGone(glRun)'
    BY DEF GLListsGone
  <2>1. glRun.list[i].id \in glGone \cup glAway
    BY DEF GLInv, GLRunTrue, GLListTrue, GLEntryTrue
  <2>2. \A p \in glGone' \cup glAway' : glPath'[p] = 0
    BY DEF GLInv, GLGroupTrue
  <2>3. glRun.list[i].id \notin Projects'
    BY <2>1, <2>2 DEF Projects
  <2> QED
    BY <2>3 DEF GLListsGone
<1> QED
  BY <1>1 DEF GLCovers, GLCovered, ListedIds, ListsTwice

LEMMA GLGroupCoversAll ==
    ASSUME GLInv, GLCovers, NEW p \in GLIds,
           \/ GLDeletes(p) \/ GLTransfers(p) \/ GLProtects(p)
           \/ \E path \in 1 .. GLPaths : GLCreates(p, path) \/ GLMoves(p, path)
           \/ \E tree \in GLTrees : GLPushes(p, tree)
    PROVE  GLCovers'
<1>1. GLInv'
  BY GLLeavesTrue, GLProtectsTrue, GLCreatesTrue, GLMovesTrue, GLPushesTrue
<1>2. GLPastShape(glPast)
  BY GLGroupTypes
<1>3. CASE GLDeletes(p) \/ GLTransfers(p)
  <2>1. /\ glRun' = glRun /\ glGone \subseteq glGone' /\ glAway \subseteq glAway'
        /\ glPast' = [glPast EXCEPT !.lasting = @ \ {p}]
    BY <1>3 DEF GLDeletes, GLTransfers, GLChange
  <2> QED
    BY <1>1, <1>2, <2>1, GLGroupCovers DEF GLPastShape
<1>4. CASE GLProtects(p)
  <2>1. /\ glRun' = glRun /\ glGone' = glGone /\ glAway' = glAway
        /\ glPast' = IF p \in glProtected THEN [glPast EXCEPT !.unprotected = @ \cup {p}]
                     ELSE [glPast EXCEPT !.protected = @ \cup {p}]
    BY <1>4 DEF GLProtects, GLChange
  <2>2. glPast'.lasting = glPast.lasting /\ glPast'.partial = glPast.partial
    BY <1>2, <2>1 DEF GLPastShape
  <2> QED
    BY <1>1, <2>1, <2>2, GLGroupCovers
<1>5. CASE \E path \in 1 .. GLPaths : GLCreates(p, path)
  BY <1>1, <1>5, GLGroupCovers DEF GLCreates, GLChange
<1>6. CASE \E path \in 1 .. GLPaths : GLMoves(p, path)
  <2>1. glRun' = glRun /\ glGone' = glGone /\ glAway' = glAway /\ glPast' = [glPast EXCEPT !.moved = TRUE]
    BY <1>6 DEF GLMoves, GLChange
  <2> QED
    BY <1>1, <1>2, <2>1, GLGroupCovers DEF GLPastShape
<1>7. CASE \E tree \in GLTrees : GLPushes(p, tree)
  <2>1. PICK tree \in GLTrees : GLPushes(p, tree)
    BY <1>7
  <2>2. /\ glRun' = glRun /\ glGone' = glGone /\ glAway' = glAway
        /\ glPast' = [glPast EXCEPT !.heads[p] = @ \cup {tree}, !.pushed = @ \cup {p}]
    BY <2>1 DEF GLPushes, GLChange
  <2> QED
    BY <1>1, <1>2, <2>2, GLGroupCovers DEF GLPastShape
<1> QED
  BY <1>3, <1>4, <1>5, <1>6, <1>7

\* What is listed on is added to what is listed.
LEMMA GLIdsGrow ==
    ASSUME GLInv, NEW ids \in Seq(Projects)
    PROVE  LET list == glRun.list \o Listed(ids) IN
           /\ list \in Seq(GLEntries) /\ Len(list) = Len(glRun.list) + Len(ids)
           /\ ListedIds(glRun.list) \subseteq ListedIds(list)
           /\ \A i \in 1 .. Len(ids) : ids[i] \in ListedIds(list)
<1> DEFINE old == glRun.list  new == Listed(ids)  list == old \o new
<1>1. /\ new \in Seq(GLEntries) /\ Len(new) = Len(ids) /\ \A i \in 1 .. Len(ids) : new[i].id = ids[i]
      /\ old \in Seq(GLEntries)
  BY GLListedHas, GLGroupTypes DEF GLInv, GLRunTrue, GLRunShape, GLRunRecord
<1> HIDE DEF old, new
<1>2. /\ list \in Seq(GLEntries) /\ Len(list) = Len(old) + Len(new)
      /\ \A k \in 1 .. Len(old) + Len(new) : list[k] = IF k <= Len(old) THEN old[k] ELSE new[k - Len(old)]
  <2>1. old \in Seq(GLEntries) /\ new \in Seq(GLEntries)
    BY <1>1
  <2> QED
    BY <2>1, ConcatProperties
<1>3. Len(old) \in Nat /\ Len(new) \in Nat /\ DOMAIN old = 1 .. Len(old) /\ DOMAIN new = 1 .. Len(new)
  BY <1>1
<1> HIDE DEF list
<1>4. DOMAIN list = 1 .. Len(old) + Len(new)
  BY <1>2
<1>5. \A i \in 1 .. Len(old) : i \in DOMAIN list /\ list[i] = old[i]
  BY <1>2, <1>3, <1>4
<1>6. \A i \in 1 .. Len(new) : Len(old) + i \in DOMAIN list /\ list[Len(old) + i] = new[i]
  BY <1>2, <1>3, <1>4
<1>7. ListedIds(old) \subseteq ListedIds(list)
  BY <1>3, <1>5 DEF ListedIds
<1>8. \A i \in 1 .. Len(ids) : ids[i] \in ListedIds(list)
  BY <1>1, <1>6 DEF ListedIds
<1> QED
  BY <1>1, <1>2, <1>7, <1>8 DEF old, new, list

LEMMA GLGraphPageCovers == ASSUME GLInv, GLCovers, NEW lost, GLGraphPage(lost) PROVE GLCovers'
<1>1. PICK older \in InOrder(GLOlder, GLAge) :
        \E kept \in InOrder({Page(older, 0, GLPageSize)[i] : i \in DOMAIN Page(older, 0, GLPageSize)} \ lost, GLAge) :
          glRun' = [glRun EXCEPT !.at = IF Len(older) > GLPageSize THEN "graphql" ELSE "listed",
            !.cursor = IF Len(older) > GLPageSize THEN Page(older, 0, GLPageSize)[GLPageSize] ELSE 0,
            !.list = @ \o Listed(kept)]
  BY GLGraphPageIs
<1> DEFINE page == Page(older, 0, GLPageSize)  more == Len(older) > GLPageSize  taken == {page[i] : i \in DOMAIN page}
           cursor == IF more THEN page[GLPageSize] ELSE 0
<1>2. GLOlder \subseteq Projects /\ Projects \subseteq GLIds /\ GLIds \subseteq Nat /\ GLPageSize \in Nat /\ GLPageSize > 0
  BY GLFinite, GitLabAssumption DEF GLOlder
<1>3. /\ older \in Seq(GLOlder) /\ Len(older) \in Nat /\ \A p \in GLOlder : \E i \in 1 .. Len(older) : older[i] = p
      /\ \A i, j \in 1 .. Len(older) : i < j => GLAge[older[i]] < GLAge[older[j]]
  <2>1. GLOlder \subseteq GLIds
    BY <1>2
  <2>2. /\ IsFiniteSet(GLOlder) /\ older \in Seq(GLOlder) /\ Len(older) = Cardinality(GLOlder)
        /\ \A p \in GLOlder : \E i \in 1 .. Len(older) : older[i] = p
        /\ \A i, j \in 1 .. Len(older) : i < j => GLAge[older[i]] < GLAge[older[j]]
    BY <2>1, GLInOrderHas
  <2>3. Len(older) \in Nat
    BY <2>2
  <2> QED
    BY <2>2, <2>3
<1>4. /\ page \in Seq(GLOlder)
      /\ Len(page) = IF 0 > Len(older) THEN 0 ELSE IF 0 + GLPageSize < Len(older) THEN GLPageSize ELSE Len(older) - 0
      /\ \A i \in 1 .. Len(page) : page[i] = older[0 + i]
  <2>1. older \in Seq(GLOlder) /\ 0 \in Nat
    BY <1>3
  <2>2. \A i \in 1 .. Len(Page(older, 0, GLPageSize)) : Page(older, 0, GLPageSize)[i] = older[0 + i]
    BY <2>1, GLPageHas
  <2> QED
    BY <2>1, <2>2, GLPageHas
<1>5. PICK kept \in InOrder(taken \ lost, GLAge) :
        glRun' = [glRun EXCEPT !.at = IF more THEN "graphql" ELSE "listed",
                    !.cursor = cursor, !.list = @ \o Listed(kept)]
  BY <1>1
<1> HIDE DEF page
<1>6. Len(page) = IF more THEN GLPageSize ELSE Len(older)
  BY <1>2, <1>3, <1>4
<1>7. taken \subseteq GLOlder /\ \A i \in 1 .. Len(page) : page[i] \in taken /\ page[i] = older[i]
  BY <1>2, <1>3, <1>4, <1>6
<1>8. /\ kept \in Seq(taken \ lost) /\ \A p \in taken \ lost : \E i \in 1 .. Len(kept) : kept[i] = p
  <2>1. taken \ lost \subseteq GLIds
    BY <1>2, <1>7
  <2> DEFINE rest == taken \ lost
  <2>2. kept \in InOrder(rest, GLAge) /\ rest \subseteq GLIds
    BY <1>5, <2>1
  <2> HIDE DEF rest
  <2>3. kept \in Seq(rest) /\ \A p \in rest : \E i \in 1 .. Len(kept) : kept[i] = p
    BY <2>2, GLInOrderHas
  <2> QED
    BY <2>3 DEF rest
<1>9. kept \in Seq(Projects)
  <2>1. taken \ lost \subseteq Projects
    BY <1>2, <1>7
  <2> HIDE DEF taken
  <2> QED
    BY <1>8, <2>1
<1>10. /\ glRun.at = "graphql" /\ UNCHANGED Group /\ GLRunRecord(glRun) /\ GLPastShape(glPast)
       /\ lost # {} => glPast' = [glPast EXCEPT !.partial = TRUE]
  BY GLGraphPageIs DEF GLInv, GLRunTrue, GLRunShape
<1>11. \* The projects behind the cursor, as old as it or newer, are listed.
       ASSUME lost = {}, NEW p \in GLOlder, more => p >= cursor
       PROVE  p \in taken
  <2>1. PICK i \in 1 .. Len(older) : older[i] = p
    BY <1>3
  <2>2. i \in 1 .. Len(page)
    <3>1. CASE ~more
      BY <1>6, <2>1, <3>1
    <3>2. CASE more
      <4>1. GLPageSize \in 1 .. Len(older) /\ older[GLPageSize] = cursor /\ cursor \in GLIds
        <5>1. GLPageSize \in 1 .. Len(older) /\ GLPageSize \in 1 .. Len(page)
          BY <1>2, <1>3, <1>6, <3>2
        <5>2. page[GLPageSize] = older[GLPageSize] /\ page[GLPageSize] \in taken
          BY <1>7, <5>1
        <5>3. cursor = page[GLPageSize]
          BY <3>2
        <5> QED
          BY <1>2, <1>7, <5>1, <5>2, <5>3
      <4>2. i > GLPageSize => GLAge[cursor] < GLAge[p]
        BY <1>3, <2>1, <4>1
      <4>3. GLAge[cursor] < GLAge[p] => cursor > p
        <5>1. \A q \in GLIds : GLAge[q] = 0 - q
          BY <4>1, GitLabAssumption DEF GLAge
        <5>2. cursor \in GLIds /\ p \in GLIds /\ GLIds \subseteq Nat
          BY <1>2, <4>1, GitLabAssumption
        <5> QED
          <6>1. cursor \in Nat /\ p \in Nat /\ GLAge[cursor] = 0 - cursor /\ GLAge[p] = 0 - p
            BY <5>1, <5>2
          <6> QED
            BY <6>1
      <4>4. cursor \in Nat /\ p \in Nat /\ p >= cursor
        BY <1>2, <1>11, <3>2, <4>1
      <4>5. ~(i > GLPageSize)
        BY <4>2, <4>3, <4>4
      <4> QED
        BY <1>2, <1>6, <2>1, <3>2, <4>5
    <3> QED
      BY <3>1, <3>2
  <2> QED
    BY <1>7, <2>1, <2>2
<1> HIDE DEF more, cursor, taken
<1>12. /\ glRun'.at = (IF more THEN "graphql" ELSE "listed") /\ glRun'.cursor = cursor
       /\ glRun'.list = glRun.list \o Listed(kept) /\ glRun'.rest = glRun.rest
       /\ glRun'.page = glRun.page
  <2> DEFINE list == Listed(kept)
  <2> HIDE DEF list
  <2>1. glRun' = [glRun EXCEPT !.at = IF more THEN "graphql" ELSE "listed", !.cursor = cursor, !.list = @ \o list]
    BY <1>5 DEF list
  <2>2. /\ glRun'.at = (IF more THEN "graphql" ELSE "listed") /\ glRun'.cursor = cursor
        /\ glRun'.list = glRun.list \o list /\ glRun'.rest = glRun.rest
        /\ glRun'.page = glRun.page
    BY <1>10, <2>1 DEF GLRunRecord
  <2> QED
    BY <2>2 DEF list
<1>13. ASSUME glPast'.partial = FALSE, NEW p \in glPast'.lasting, more => p >= cursor
       PROVE  p \in ListedIds(glRun'.list)
  <2>1. lost = {} /\ glPast' = glPast
    <3>1. lost = {} => glPast' = glPast
      BY GLGraphPageIs
    <3>2. lost # {} => glPast'.partial = TRUE
      BY <1>10 DEF GLPastShape
    <3> QED
      BY <1>13, <3>1, <3>2
  <2>2. p \in Projects /\ p \in Nat
    BY <1>2, <2>1, GLGroupTypes
  <2>3. CASE p \in GLOlder
    <3>1. p \in taken
      BY <1>11, <1>13, <2>1, <2>3
    <3>2. PICK i \in 1 .. Len(kept) : kept[i] = p
      BY <1>8, <2>1, <3>1
    <3> QED
      BY <1>9, <1>12, <3>2, GLIdsGrow
  <2>4. CASE p \notin GLOlder
    <3>1. glRun.cursor # 0 /\ p >= glRun.cursor
      BY <1>10, <2>2, <2>4 DEF GLOlder, GLRunRecord
    <3>2. p \in ListedIds(glRun.list)
      BY <1>10, <1>13, <2>1, <3>1 DEF GLCovers, GLCovered
    <3> QED
      BY <1>9, <1>12, <3>2, GLIdsGrow
  <2> QED
    BY <2>3, <2>4
<1>14. CASE more
  <2>1. glRun'.at = "graphql" /\ glRun'.rest = FALSE /\ glRun'.page = 1
    BY <1>10, <1>12, <1>14 DEF GLCovers, GLCovered
  <2> QED
    BY <1>12, <1>13, <2>1 DEF GLCovers, GLCovered
<1>15. CASE ~more
  <2>1. glRun'.at = "listed"
    BY <1>12, <1>15
  <2>2. glPast'.partial = FALSE => glPast'.lasting \subseteq ListedIds(glRun'.list)
    BY <1>13, <1>15
  <2> QED
    BY <2>1, <2>2 DEF GLCovers, GLCovered
<1> QED
  BY <1>14, <1>15

LEMMA GLGraphFailsCovers == ASSUME GLInv, GLCovers, GLGraphFails PROVE GLCovers'
<1>1. /\ GLRunRecord(glRun) /\ glRun.page = 1 /\ GLPageSize \in Nat
      /\ glRun' = [glRun EXCEPT !.at = "rest", !.rest = TRUE, !.list = <<>>, !.cursor = 0]
  BY GitLabAssumption DEF GLGraphFails, GLInv, GLRunTrue, GLRunShape, GLCovers, GLCovered
<1>2. glRun'.at = "rest" /\ glRun'.rest = TRUE /\ glRun'.list = <<>> /\ glRun'.page = 1
  BY <1>1 DEF GLRunRecord
<1>3. Len(glRun'.list) = (glRun'.page - 1) * GLPageSize
  BY <1>1, <1>2
<1> QED
  BY <1>2, <1>3 DEF GLCovers, GLCovered

LEMMA GLRestPageCovers == ASSUME GLInv, GLCovers, GLRestPage PROVE GLCovers'
<1>1. /\ glRun.at = "rest" /\ UNCHANGED Group /\ glPast' = glPast /\ GLRunRecord(glRun)
      /\ glRun.rest = TRUE /\ Len(glRun.list) = (glRun.page - 1) * GLPageSize
      /\ glRun.page \in Nat \ {0} /\ GLPageSize \in Nat /\ GLPageSize > 0
  BY GitLabAssumption
     DEF GLRestPage, Undisturbed, GLInv, GLRunTrue, GLRunShape, GLRunRecord, GLCovers, GLCovered
<1> DEFINE from == (glRun.page - 1) * GLPageSize
<1>2. PICK all \in InOrder(Projects, glPath) :
        glRun' = [glRun EXCEPT !.at = IF from + GLPageSize < Len(all) THEN "rest" ELSE "listed",
          !.page = IF from + GLPageSize < Len(all) THEN @ + 1 ELSE 1, !.list = @ \o Listed(Page(all, from, GLPageSize))]
  BY DEF GLRestPage
<1>3. from \in Nat
  <2>1. glRun.page - 1 \in Nat
    BY <1>1
  <2> QED
    BY <1>1, <2>1
<1>4. from + GLPageSize = (glRun.page + 1 - 1) * GLPageSize
  BY <1>1
<1>5. all \in Seq(Projects) /\ Len(all) = Cardinality(Projects) /\ Len(all) \in Nat
  BY GLFinite, GLInOrderHas
<1> DEFINE ids == Page(all, from, GLPageSize)  list == Listed(ids)  more == from + GLPageSize < Len(all)
           whole == glRun.list \o list
<1>6. glRun' = [glRun EXCEPT !.at = IF more THEN "rest" ELSE "listed",
                  !.page = IF more THEN @ + 1 ELSE 1, !.list = @ \o list]
  BY <1>2
<1>7. /\ ids \in Seq(Projects)
      /\ Len(ids) = IF from > Len(all) THEN 0
           ELSE IF from + GLPageSize < Len(all) THEN GLPageSize ELSE Len(all) - from
  <2> HIDE DEF from
  <2> QED
    BY <1>3, <1>5, GLPageHas
<1> HIDE DEF ids
<1>8. whole \in Seq(GLEntries) /\ Len(whole) = from + Len(ids)
  BY <1>1, <1>7, GLIdsGrow
<1> HIDE DEF list, from, more
<1>9. /\ glRun'.at = (IF more THEN "rest" ELSE "listed") /\ glRun'.list = whole /\ glRun'.rest = TRUE
      /\ glRun'.page = IF more THEN glRun.page + 1 ELSE 1
  BY <1>1, <1>6 DEF GLRunRecord
<1> HIDE DEF whole
<1>10. CASE more
  <2>1. Len(ids) = GLPageSize
    BY <1>1, <1>3, <1>5, <1>7, <1>10 DEF more
  <2>2. glRun'.at = "rest" /\ Len(glRun'.list) = (glRun'.page - 1) * GLPageSize
    <3>1. glRun'.at = "rest" /\ glRun'.list = whole /\ glRun'.page = glRun.page + 1
      BY <1>9, <1>10
    <3>2. Len(whole) = (glRun.page + 1 - 1) * GLPageSize
      BY <1>4, <1>8, <2>1
    <3>3. ASSUME NEW page, NEW seq, seq = whole, page = glRun.page + 1
          PROVE  Len(seq) = (page - 1) * GLPageSize
      <4>1. (page - 1) * GLPageSize = (glRun.page + 1 - 1) * GLPageSize
        BY <1>1, <3>3
      <4> QED
        BY <3>2, <3>3, <4>1
    <3> QED
      BY <3>1, <3>3
  <2> QED
    BY <1>9, <2>2 DEF GLCovers, GLCovered
<1>11. CASE ~more
  <2>1. Len(whole) >= Cardinality(Projects)
    BY <1>1, <1>3, <1>5, <1>7, <1>8, <1>11 DEF more
  <2>2. glRun'.at = "listed" /\ Projects' = Projects /\ glPast'.lasting \subseteq Projects
    BY <1>1, <1>9, <1>11, GLGroupTypes DEF Projects, Group
  <2>3. ListsTwice(whole) \/ (\E i \in DOMAIN whole : whole[i].id \notin Projects) \/ Projects \subseteq ListedIds(whole)
    <3>1. IsFiniteSet(Projects)
      BY GLFinite
    <3> QED
      BY <1>8, <2>1, <3>1, LongEnough
  <2>4. \/ glPast'.lasting \subseteq ListedIds(glRun'.list)
        \/ ListsTwice(glRun'.list) \/ GLListsGone(glRun)'
    BY <1>9, <2>2, <2>3 DEF GLListsGone
  <2> QED
    BY <1>9, <2>2, <2>4 DEF GLCovers, GLCovered
<1> QED
  BY <1>10, <1>11

LEMMA GLListedCovers == ASSUME GLInv, GLCovers, GLListed PROVE GLCovers'
<1> DEFINE mapped == [i \in DOMAIN glRun.list |-> "todo"]
           pinned == [i \in DOMAIN glRun.list |-> <<>>]
<1>1. /\ glRun.at = "listed" /\ UNCHANGED Group /\ glPast' = glPast /\ GLRunRecord(glRun)
      /\ glRun' = [glRun EXCEPT !.at = "mapping", !.mapped = mapped, !.pinned = pinned]
  BY DEF GLListed, Undisturbed, GLInv, GLRunTrue, GLRunShape
<1>2. \A i \in DOMAIN glRun.list : mapped[i] = "todo"
  OBVIOUS
<1> HIDE DEF mapped, pinned
<1>3. glRun'.at = "mapping" /\ glRun'.list = glRun.list /\ glRun'.mapped = mapped /\ glRun'.rest = glRun.rest
  BY <1>1 DEF GLRunRecord
<1>4. GLListsGone(glRun) => GLListsGone(glRun)'
  BY <1>1, <1>2, <1>3 DEF GLListsGone, Projects, Group
<1> QED
  BY <1>1, <1>3, <1>4 DEF GLCovers, GLCovered, Group

LEMMA GLMapCovers ==
    ASSUME GLInv, GLCovers, NEW i \in DOMAIN glRun.mapped, GLMap(i) \/ GLMapFails(i) PROVE GLCovers'
<1>1. /\ glRun.at = "mapping" /\ UNCHANGED Group /\ glPast' = glPast /\ GLRunRecord(glRun)
      /\ glRun.mapped \in [DOMAIN glRun.list -> {"todo", "ok", "failed"}]
  BY DEF GLMap, GLMapFails, Undisturbed, GLInv, GLRunTrue, GLRunShape, GLMapTrue
<1>2. /\ glRun'.at = "mapping" /\ glRun'.list = glRun.list /\ glRun'.rest = glRun.rest
      /\ \/ glRun'.mapped = [glRun.mapped EXCEPT ![i] = "failed"]
         \/ /\ glRun'.mapped = [glRun.mapped EXCEPT ![i] = "ok"]
            /\ ~(glRun.rest = TRUE /\ glRun.list[i].id \notin Projects \cup glAway)
  <2>1. CASE GLMapFails(i) \/ (glRun.rest = TRUE /\ glRun.list[i].id \notin Projects \cup glAway)
    <3>1. glRun' = [glRun EXCEPT !.mapped[i] = "failed"]
      BY <2>1 DEF GLMap, GLMapFails
    <3> QED
      BY <1>1, <3>1 DEF GLRunRecord
  <2>2. CASE GLMap(i) /\ ~(glRun.rest = TRUE /\ glRun.list[i].id \notin Projects \cup glAway)
    <3> DEFINE there == {q \in Projects : glPath[q] = glRun.list[i].path}
               pin == IF glRun.rest /\ glRun.list[i].branch /\ there # {}
                      THEN <<glHead[CHOOSE q \in there : TRUE]>> ELSE <<>>
    <3>0. glRun.rest \in BOOLEAN
      BY <1>1 DEF GLRunRecord
    <3>1. glRun' = [glRun EXCEPT !.mapped[i] = "ok", !.pinned[i] = pin]
      BY <2>2, <3>0 DEF GLMap
    <3> HIDE DEF pin
    <3>2. /\ glRun'.at = "mapping" /\ glRun'.list = glRun.list /\ glRun'.rest = glRun.rest
          /\ glRun'.mapped = [glRun.mapped EXCEPT ![i] = "ok"]
      BY <1>1, <3>1 DEF GLRunRecord
    <3> QED
      BY <2>2, <3>2
  <2> QED
    BY <2>1, <2>2
<1>3. ASSUME glRun.rest = TRUE, glAway = {}, GLListsGone(glRun) PROVE GLListsGone(glRun)'
  <2>1. PICK j \in DOMAIN glRun.list : glRun.list[j].id \notin Projects /\ glRun.mapped[j] # "ok"
    BY <1>1, <1>3 DEF GLListsGone
  <2>2. glRun'.mapped[j] # "ok"
    BY <1>1, <1>2, <1>3, <2>1
  <2>3. Projects' = Projects
    BY <1>1 DEF Projects, Group
  <2> QED
    BY <1>2, <2>1, <2>2, <2>3 DEF GLListsGone
<1> QED
  BY <1>1, <1>2, <1>3 DEF GLCovers, GLCovered, Group

LEMMA GLInventoryCovers == ASSUME GLInv, GLCovers, GLInventory PROVE GLCovers'
<1> DEFINE bad == {i \in DOMAIN glRun.list : glRun.mapped[i] = "failed" \/ Duplicate(glRun, i)}
           good == DOMAIN glRun.list \ bad
           kept == {i \in good : glRun.list[i].id \notin GLArchived}
           ids == {glRun.list[i].id : i \in kept}
           At(p) == CHOOSE i \in kept : glRun.list[i].id = p
           out == {glRun.list[i].id : i \in good \ kept}
           paths == [p \in ids |-> glRun.list[At(p)].path]
           pinned == [p \in ids |-> glRun.pinned[At(p)]]
           ci == [p \in ids |-> IF glRun.list[At(p)].branch THEN NoCi ELSE [NoCi EXCEPT !.at = "read"]]
<1>1. /\ glRun.at = "mapping" /\ glPast' = glPast /\ glAway' = glAway /\ glRun.list \in Seq(GLEntries)
      /\ glRun.mapped \in [DOMAIN glRun.list -> {"todo", "ok", "failed"}]
      /\ \A i \in DOMAIN glRun.mapped : glRun.mapped[i] # "todo"
  BY DEF GLInventory, Undisturbed, Group, GLInv, GLRunTrue, GLRunShape, GLRunRecord, GLMapTrue
<1>2. glRun' = [GLNoRun EXCEPT !.at = "observing", !.rest = glRun.rest, !.limit = glRun.limit,
                  !.failures = bad, !.repos = ids, !.excluded = out, !.paths = paths, !.pinned = pinned, !.ci = ci]
  BY DEF GLInventory
<1>3. ASSUME bad = {} PROVE ~ListsTwice(glRun.list) /\ ~GLListsGone(glRun)
  <2>1. \A i \in DOMAIN glRun.list : glRun.mapped[i] = "ok" /\ ~Duplicate(glRun, i)
    BY <1>1, <1>3
  <2>2. ~GLListsGone(glRun)
    BY <1>1, <2>1 DEF GLListsGone
  <2>3. ASSUME NEW i \in DOMAIN glRun.list, NEW j \in DOMAIN glRun.list, i < j, glRun.list[i].id = glRun.list[j].id
        PROVE  FALSE
    <3>1. i \in 1 .. j - 1
      BY <1>1, <2>3
    <3> QED
      BY <2>1, <2>3, <3>1 DEF Duplicate
  <2> QED
    BY <2>2, <2>3 DEF ListsTwice
<1>4. bad = {} => ListedIds(glRun.list) \subseteq ids \cup out
  BY DEF ListedIds
<1> HIDE DEF bad, ids, out, paths, pinned, ci
<1>5. /\ glRun'.at = "observing" /\ glRun'.failures = bad /\ glRun'.repos = ids /\ glRun'.excluded = out
      /\ glRun'.rest = glRun.rest
  BY <1>2 DEF GLNoRun
<1>6. glRun'.failures = {} /\ glPast'.partial = FALSE =>
        glPast'.lasting \subseteq ids \cup out \/ (glRun'.rest = TRUE /\ glAway' # {})
  BY <1>1, <1>3, <1>4, <1>5 DEF GLCovers, GLCovered
<1> QED
  BY <1>5, <1>6 DEF GLCovers, GLCovered

\* Reading on says nothing of what was listed; what fails or begins, neither.
LEMMA GLRestCovers ==
    ASSUME GLInv, GLCovers,
           \/ \E limit \in GLFileLimits : GLBegin(limit)
           \/ GLRestFails \/ GLControls
           \/ \E p \in GLIds : \/ GLReadsRoot(p) \/ GLOddInclude(p) \/ GLReadsInclude(p)
                                \/ GLReadFails(p) \/ GLReadsBranch(p) \/ GLBranchFails(p)
    PROVE  GLCovers'
<1>1. GLRunRecord(glRun)
  BY DEF GLInv, GLRunTrue, GLRunShape
<1>2. CASE GLRestFails \/ \E p \in GLIds : GLOddInclude(p)
  <2>1. glRun'.at = "failed"
    BY <1>2 DEF GLRestFails, GLOddInclude, GLNoRun
  <2> QED
    BY <2>1 DEF GLCovers, GLCovered
<1>3. CASE \E limit \in GLFileLimits : GLBegin(limit)
  <2>1. PICK limit \in GLFileLimits : glRun' = [GLNoRun EXCEPT !.at = "graphql", !.limit = limit]
    BY <1>3 DEF GLBegin
  <2>2. glRun'.at = "graphql" /\ glRun'.rest = FALSE /\ glRun'.page = 1 /\ glRun'.cursor = 0
    BY <2>1 DEF GLNoRun
  <2> QED
    BY <2>2 DEF GLCovers, GLCovered
<1>4. CASE GLControls
  <2>1. /\ glRun'.at = "done" /\ glRun.at = "observing" /\ glRun'.failures = glRun.failures
        /\ glRun'.repos = glRun.repos /\ glRun'.excluded = glRun.excluded /\ glPast' = glPast
        /\ glRun'.rest = glRun.rest /\ glAway' = glAway
    BY <1>1, <1>4 DEF GLControls, GLRunRecord, Undisturbed, Group
  <2> QED
    BY <2>1 DEF GLCovers, GLCovered
<1>5. CASE \E p \in GLIds : GLReadsRoot(p) \/ GLReadsInclude(p) \/ GLReadFails(p) \/ GLReadsBranch(p) \/ GLBranchFails(p)
  <2>1. PICK p \in GLIds : GLReadsRoot(p) \/ GLReadsInclude(p) \/ GLReadFails(p) \/ GLReadsBranch(p) \/ GLBranchFails(p)
    BY <1>5
  <2>2. \E ci : glRun' = [glRun EXCEPT !.ci = ci]
    BY <1>1, <2>1 DEF GLReadsRoot, GLReadsInclude, GLReadFails, GLReadsBranch, GLBranchFails, GLRunRecord
  <2>3. glRun.at = "observing" /\ glPast' = glPast /\ glAway' = glAway
    BY <2>1 DEF GLReadsRoot, GLReadsInclude, GLReadFails, GLReadsBranch, GLBranchFails, Reading, Undisturbed, Group
  <2>4. /\ glRun'.at = "observing" /\ glRun'.failures = glRun.failures
        /\ glRun'.repos = glRun.repos /\ glRun'.excluded = glRun.excluded /\ glRun'.rest = glRun.rest
    BY <1>1, <2>2, <2>3 DEF GLRunRecord
  <2> QED
    BY <2>3, <2>4 DEF GLCovers, GLCovered
<1> QED
  BY <1>2, <1>3, <1>4, <1>5

LEMMA GLStep == ASSUME GLInv, GLCovers, [GitLabNext]_glVars PROVE GLInv' /\ GLCovers'
<1>1. CASE \E p \in GLIds : GLDeletes(p) \/ GLTransfers(p) \/ GLProtects(p)
  BY <1>1, GLLeavesTrue, GLProtectsTrue, GLGroupCoversAll
<1>2. CASE \E p \in GLIds, path \in 1 .. GLPaths : GLCreates(p, path) \/ GLMoves(p, path)
  BY <1>2, GLCreatesTrue, GLMovesTrue, GLGroupCoversAll
<1>3. CASE \E p \in GLIds, tree \in GLTrees \ {NoBranch} : GLPushes(p, tree)
  BY <1>3, GLPushesTrue, GLGroupCoversAll
<1>4. CASE \E limit \in GLFileLimits : GLBegin(limit)
  BY <1>4, GLBeginTrue, GLRestCovers
<1>5. CASE \E lost \in SUBSET GLIds : GLGraphPage(lost)
  BY <1>5, GLGraphPageTrue, GLGraphPageCovers
<1>6. CASE GLGraphFails \/ GLRestPage \/ GLRestFails
  BY <1>6, GLGraphFailsTrue, GLGraphFailsCovers, GLRestPageTrue, GLRestPageCovers, GLRestFailsTrue, GLRestCovers
<1>7. CASE GLListed \/ GLInventory \/ GLControls
  BY <1>7, GLListedTrue, GLListedCovers, GLInventoryTrue, GLInventoryCovers, GLControlsTrueStep, GLRestCovers
<1>8. CASE \E i \in DOMAIN glRun.mapped : GLMap(i) \/ GLMapFails(i)
  BY <1>8, GLMapTrueStep, GLMapFailsTrue, GLMapCovers
<1>9. CASE \E p \in GLIds : \/ GLReadsRoot(p) \/ GLOddInclude(p) \/ GLReadsInclude(p)
                            \/ GLReadFails(p) \/ GLReadsBranch(p) \/ GLBranchFails(p)
  BY <1>9, GLReadsRootTrue, GLOddIncludeTrue, GLReadsIncludeTrue, GLReadFailsTrue, GLReadsBranchTrue,
     GLBranchFailsTrue, GLRestCovers
<1>10. CASE UNCHANGED glVars
  BY <1>10 DEF glVars, GLInv, GLGroupTrue, GLRunTrue, GLRunShape, GLRunRecord, GLPastShape, GLPastTrue, GLListTrue,
     GLMapTrue, GLObserveTrue, GLDoneTrue, GLEntryTrue, GLPinTrue, GLCiTrue, GLCommit, GLControlTrue, Projects,
     GLCovers, GLCovered, GLListsGone
<1> QED
  BY <1>1, <1>2, <1>3, <1>4, <1>5, <1>6, <1>7, <1>8, <1>9, <1>10 DEF GitLabNext

LEMMA GLInvariant == GitLabSpec => [](GLInv /\ GLCovers)
<1>1. GitLabInit => GLInv /\ GLCovers
  BY GLInitTrue, GLCoversInit
<1>2. (GLInv /\ GLCovers) /\ [GitLabNext]_glVars => (GLInv /\ GLCovers)'
  BY GLStep
<1> QED
  BY <1>1, <1>2, PTL DEF GitLabSpec

(***************************************************************************)
(* An inventory of a group without failures has every project that was     *)
(* there all along, save where GitLab answered in part, or projects were   *)
(* transferred out of the group while it was listed by number.  Otherwise  *)
(* projects may come and go while the pages are read, by cursor or by      *)
(* number: what the pages skip shows in a project listed twice, or in one  *)
(* that is gone, and both are failures.                                    *)
(***************************************************************************)
THEOREM GitLabInventoryComplete == GitLabSpec => []GitLabMissesNothing
<1>1. GLInv /\ GLCovers => GitLabMissesNothing
  BY GLGroupTypes DEF GLCovers, GLCovered, GitLabMissesNothing
<1> QED
  BY <1>1, GLInvariant, PTL

(***************************************************************************)
(* A project is called compliant or noncompliant only for a state its      *)
(* files, or its branch, had at some moment of the run, whatever is        *)
(* pushed, protected, moved and deleted while the workers read -- save     *)
(* where projects moved, or were pushed to while they were read unpinned.  *)
(***************************************************************************)
THEOREM GitLabControlsProven == GitLabSpec => []GitLabControlsTrue
<1>1. GLInv => GitLabControlsTrue
  BY DEF GLInv, GLRunTrue, GLDoneTrue, GLControlTrue, GitLabControlsTrue
<1> QED
  BY <1>1, GLInvariant, PTL

-----------------------------------------------------------------------------
(* The GitHub provider.                                                    *)

GHStages ==
  {"idle", "tenant", "listing", "listed", "schema", "values", "rules", "details", "workflows", "read",
   "done", "failed"}
GHNodes == [id : GHIds, name : Nat]
GHStates == {"ok", "failed", "unsupported"}

GHRunShape(run) ==
  run \in [at : GHStages, try : {run.try}, cursor : Nat, total : Nat, nodes : Seq(GHNodes), inv : {run.inv},
           prop : GHStates, schema : BOOLEAN, values : SUBSET [name : Nat, chosen : BOOLEAN],
           page : Nat \ {0}, rule : GHStates, summaries : SUBSET GHRuleIds,
           rules : [GHRuleIds -> GHEnforcements], unread : {run.unread}, controls : {run.controls}]

GHPastShape(past) ==
  past \in [lasting : SUBSET GHIds, created : BOOLEAN, deleted : BOOLEAN, renamed : BOOLEAN,
            chosen : SUBSET GHIds, unchosen : SUBSET GHIds, required : SUBSET BOOLEAN, ruled : Nat]

\* A name leads to one repository.
GHWorldTrue ==
  /\ ghName \in [GHIds -> Nat] /\ ghChosen \subseteq GHIds
  /\ \A r, q \in Existing : ghName[r] = ghName[q] => r = q
  /\ ghRules \in [GHRuleIds -> GHEnforcements]

GHPastTrue(run, past) ==
  /\ past.lasting \subseteq Existing
  /\ run.at # "idle" =>
       /\ \A r \in past.lasting : IF r \in ghChosen THEN r \in past.chosen ELSE r \in past.unchosen
       /\ Requires(ghRules) \in past.required

\* What was listed of a repository that was there all along is its name.
GHNodeTrue(past, n) == n.id \in past.lasting /\ past.renamed = FALSE => n.name = ghName[n.id]
GHListTrue(run, past) ==
  /\ \A i \in DOMAIN run.nodes : GHNodeTrue(past, run.nodes[i])
  /\ \A n \in GHHeld(run) : GHNodeTrue(past, n)

GHAssigned(run, r) == \E v \in run.values : v.name = ghName[r]
GHBefore(r) == {q \in Existing : q < r}

\* The assignments that were read; unless repositories were deleted, all of
\* those on the pages before this one.
GHValuesTrue(run, past) ==
  /\ run.at \in {"tenant", "listing", "listed", "schema"} => run.values = {} /\ run.page = 1
  /\ past.renamed = FALSE =>
       /\ \A v \in run.values, r \in past.lasting :
            v.name = ghName[r] => IF v.chosen = TRUE THEN r \in past.chosen ELSE r \in past.unchosen
       /\ past.deleted = FALSE /\ run.prop = "ok" =>
            \A r \in past.lasting :
              /\ run.at = "values" /\ Cardinality(GHBefore(r)) < (run.page - 1) * GHPageSize =>
                   GHAssigned(run, r)
              /\ run.at \in {"rules", "details", "workflows", "read"} => GHAssigned(run, r)

GHGood == {k \in GHRuleIds : GHRulesets[k].targets = TRUE /\ GHRulesets[k].workflow = TRUE}

\* A ruleset that is active now, and that the run has seen so or will.
GHSeen(run, k) ==
  /\ ghRules[k] = "active"
  /\ run.at = "details" => k \in run.summaries \/ run.rules[k] = "active"
  /\ run.at \in {"workflows", "read"} => run.rule # "ok" \/ run.rules[k] = "active"

GHRulesTrue(run, past) ==
  /\ \A k \in GHGood : run.rules[k] = "active" => TRUE \in past.required
  /\ run.at \notin {"idle", "done", "failed"} /\ FALSE \notin past.required =>
       /\ past.ruled = 0 => \A k \in GHGood : ghRules[k] = "active" => GHSeen(run, k)
       /\ past.ruled = 1 => \E k \in GHGood : GHSeen(run, k)

GHControlTrue(run, past, c) ==
  c.id \in past.lasting /\ past.renamed = FALSE =>
    /\ c.policy = "compliant" => c.id \in past.chosen
    /\ c.policy = "noncompliant" => c.id \in past.unchosen \/ past.deleted \/ ~run.schema
    /\ c.workflow = "compliant" => TRUE \in past.required
    /\ c.workflow = "noncompliant" => FALSE \in past.required \/ past.ruled > 1

GHDoneTrue(run, past) == run.at = "done" => \A c \in run.controls[1] : GHControlTrue(run, past, c)

GHRunTrue(run, past) ==
  /\ GHRunShape(run) /\ GHPastShape(past) /\ GHPastTrue(run, past) /\ GHListTrue(run, past)
  /\ GHValuesTrue(run, past) /\ GHRulesTrue(run, past) /\ GHDoneTrue(run, past)

GHInv == GHWorldTrue /\ GHRunTrue(ghRun, ghPast)

(* What the list lacks shows, in one of three ways.                        *)
GHHeldIds(run) == {n.id : n \in GHHeld(run)}
GHAllThree(past) == past.renamed = TRUE /\ past.deleted = TRUE /\ past.created = TRUE

GHCovered(run, past) ==
  /\ run.at = "tenant" => run.nodes = <<>> /\ run.cursor = 0
  /\ run.at = "listing" =>
       /\ past.renamed = FALSE => \A r \in past.lasting : ghName[r] <= run.cursor => r \in ListedIds(run.nodes)
       /\ past.deleted = FALSE => ListedIds(run.nodes) \subseteq Existing
       /\ past.created = FALSE /\ ~(run.nodes = <<>> /\ run.cursor = 0) =>
            \E first \in SUBSET GHIds : /\ Cardinality(first) = run.total /\ Existing \subseteq first
                                        /\ ListedIds(run.nodes) \subseteq first
  /\ run.at = "listed" => past.lasting \subseteq ListedIds(run.nodes) \/ ListsTwice(run.nodes) \/ GHAllThree(past)
  /\ run.at \notin {"idle", "tenant", "listing", "listed", "failed"} /\ run.inv.failures = {} =>
       past.lasting \subseteq GHHeldIds(run) \/ GHAllThree(past)

GHCovers == GHCovered(ghRun, ghPast)

LEMMA GHFacts ==
    ASSUME GHInv
    PROVE  /\ GHWorldTrue /\ GHRunShape(ghRun) /\ GHPastShape(ghPast) /\ GHPastTrue(ghRun, ghPast)
           /\ GHListTrue(ghRun, ghPast) /\ GHValuesTrue(ghRun, ghPast) /\ GHRulesTrue(ghRun, ghPast)
           /\ GHDoneTrue(ghRun, ghPast)
           /\ ghPast.lasting \subseteq Existing /\ Existing \subseteq GHIds /\ IsFiniteSet(Existing)
<1>1. Existing \subseteq GHIds
  BY DEF Existing
<1>2. IsFiniteSet(Existing)
  BY <1>1, GitHubAssumption, FS_Subset
<1> QED
  BY <1>1, <1>2 DEF GHInv, GHRunTrue, GHPastTrue

LEMMA GHNoRunShape == GHRunShape(GHNoRun)
  BY DEF GHRunShape, GHNoRun, GHStages, GHStates, GHEnforcements, NoListing

LEMMA GHInitTrue == GitHubInit => GHInv /\ GHCovers
<1> SUFFICES ASSUME GitHubInit PROVE GHInv /\ GHCovers
  OBVIOUS
<1>1. /\ ghName = GHFirstNames /\ ghChosen \subseteq Existing /\ ghRules \in GHFirstRules
      /\ ghRun = GHNoRun /\ ghPast = NoPast
  BY DEF GitHubInit
<1>2. GHWorldTrue
  BY <1>1, GitHubAssumption DEF GHWorldTrue, Existing
<1>3. /\ GHNoRun.at = "idle" /\ GHNoRun.nodes = <<>> /\ GHHeld(GHNoRun) = {} /\ GHNoRun.values = {}
      /\ GHNoRun.page = 1 /\ \A k \in GHRuleIds : GHNoRun.rules[k] = "absent"
  BY DEF GHNoRun, GHHeld, NoListing
<1>4. GHPastShape(NoPast) /\ GHPastTrue(GHNoRun, NoPast) /\ NoPast.lasting = {}
  BY <1>3 DEF GHPastShape, NoPast, GHPastTrue
<1>5. DOMAIN GHNoRun.nodes = {}
  BY <1>3
<1>6. GHListTrue(GHNoRun, NoPast)
  BY <1>3, <1>5 DEF GHListTrue
<1>7. GHValuesTrue(GHNoRun, NoPast)
  BY <1>3, <1>4 DEF GHValuesTrue
<1>8. GHRulesTrue(GHNoRun, NoPast) /\ GHDoneTrue(GHNoRun, NoPast)
  BY <1>3 DEF GHRulesTrue, GHDoneTrue, GHGood
<1> QED
  BY <1>1, <1>2, <1>3, <1>4, <1>6, <1>7, <1>8, GHNoRunShape DEF GHInv, GHRunTrue, GHCovers, GHCovered

\* A step of the organization that leaves the run as it is.
LEMMA GHGroupSteps ==
    ASSUME GHInv, ghRun' = ghRun, ghRun.at # "done", GHWorldTrue', GHPastShape(ghPast'),
           GHPastTrue(ghRun, ghPast)', GHRulesTrue(ghRun, ghPast)', ghPast'.lasting \subseteq ghPast.lasting,
           ghPast'.renamed = FALSE =>
             ghPast.renamed = FALSE /\ \A r \in ghPast'.lasting : ghName'[r] = ghName[r],
           ghPast'.deleted = FALSE => ghPast.deleted = FALSE /\ Existing \subseteq Existing',
           ghPast.chosen \subseteq ghPast'.chosen, ghPast.unchosen \subseteq ghPast'.unchosen
    PROVE  GHInv'
<1>1. GHRunShape(ghRun)'
  BY GHFacts DEF GHRunShape
<1>2. GHPastShape(ghPast)'
  BY GHPastShape(ghPast') DEF GHPastShape
<1>3. (GHListTrue(ghRun, ghPast))'
  BY GHFacts DEF GHListTrue, GHNodeTrue, GHHeld
<1>4. (GHValuesTrue(ghRun, ghPast))'
  <2> SUFFICES ASSUME ghPast'.renamed = FALSE PROVE (GHValuesTrue(ghRun, ghPast))'
    BY GHFacts DEF GHValuesTrue
  <2>1. ghPast.renamed = FALSE /\ \A r \in ghPast'.lasting : r \in ghPast.lasting /\ ghName'[r] = ghName[r]
    OBVIOUS
  <2>2. \A v \in ghRun.values, r \in ghPast'.lasting :
          v.name = ghName'[r] => IF v.chosen = TRUE THEN r \in ghPast'.chosen ELSE r \in ghPast'.unchosen
    BY <2>1, GHFacts DEF GHValuesTrue
  <2>3. ASSUME ghPast'.deleted = FALSE, ghRun.prop = "ok", NEW r \in ghPast'.lasting
        PROVE  /\ ghRun.at = "values" /\ Cardinality(GHBefore(r)') < (ghRun.page - 1) * GHPageSize =>
                    (GHAssigned(ghRun, r))'
               /\ ghRun.at \in {"rules", "details", "workflows", "read"} => (GHAssigned(ghRun, r))'
    <3>1. GHAssigned(ghRun, r) => (GHAssigned(ghRun, r))'
      BY <2>1 DEF GHAssigned
    <3>2. Cardinality(GHBefore(r)) <= Cardinality(GHBefore(r)')
      <4>1. GHBefore(r) \subseteq GHBefore(r)' /\ GHBefore(r)' \subseteq GHIds
        BY <2>3 DEF GHBefore, Existing
      <4>2. IsFiniteSet(GHBefore(r)')
        BY <4>1, GitHubAssumption, FS_Subset
      <4> QED
        BY <4>1, <4>2, FS_Subset
    <3>3. /\ ghRun.at = "values" /\ Cardinality(GHBefore(r)) < (ghRun.page - 1) * GHPageSize => GHAssigned(ghRun, r)
          /\ ghRun.at \in {"rules", "details", "workflows", "read"} => GHAssigned(ghRun, r)
      BY <2>1, <2>3, GHFacts DEF GHValuesTrue
    <3>4. /\ Cardinality(GHBefore(r)) \in Nat /\ Cardinality(GHBefore(r)') \in Nat
          /\ (ghRun.page - 1) * GHPageSize \in Int
      <4>1. GHBefore(r) \subseteq GHIds /\ GHBefore(r)' \subseteq GHIds
        BY DEF GHBefore, Existing
      <4>2. IsFiniteSet(GHBefore(r)) /\ IsFiniteSet(GHBefore(r)')
        BY <4>1, GitHubAssumption, FS_Subset
      <4>3. ghRun.page - 1 \in Int /\ GHPageSize \in Int
        BY GHFacts, GitHubAssumption DEF GHRunShape
      <4> QED
        BY <4>2, <4>3, FS_CardinalityType
    <3> QED
      BY <3>1, <3>2, <3>3, <3>4
  <2>4. ghRun.at \in {"tenant", "listing", "listed", "schema"} => ghRun.values = {} /\ ghRun.page = 1
    BY GHFacts DEF GHValuesTrue
  <2> QED
    BY <2>2, <2>3, <2>4 DEF GHValuesTrue
<1> QED
  BY <1>1, <1>2, <1>3, <1>4 DEF GHInv, GHRunTrue, GHDoneTrue

LEMMA GHGroupCovers ==
    ASSUME GHInv, GHCovers, ghRun' = ghRun, ghPast'.lasting \subseteq ghPast.lasting,
           GHPastShape(ghPast'),
           ghPast'.renamed = FALSE =>
             ghPast.renamed = FALSE /\ \A r \in ghPast'.lasting : ghName'[r] = ghName[r],
           ghPast'.deleted = FALSE => ghPast.deleted = FALSE /\ Existing \subseteq Existing',
           ghPast'.created = FALSE => ghPast.created = FALSE /\ Existing' \subseteq Existing
    PROVE  GHCovers'
<1>1. GHAllThree(ghPast) => GHAllThree(ghPast')
  BY GHFacts, GHPastShape(ghPast') DEF GHAllThree, GHPastShape
<1>2. CASE ghRun.at = "listing"
  <2>1. ghPast'.renamed = FALSE =>
          \A r \in ghPast'.lasting : ghName'[r] <= ghRun.cursor => r \in ListedIds(ghRun.nodes)
    BY <1>2 DEF GHCovers, GHCovered
  <2>2. ghPast'.deleted = FALSE => ListedIds(ghRun.nodes) \subseteq Existing'
    BY <1>2 DEF GHCovers, GHCovered
  <2>3. ghPast'.created = FALSE /\ ~(ghRun.nodes = <<>> /\ ghRun.cursor = 0) =>
          \E first \in SUBSET GHIds : /\ Cardinality(first) = ghRun.total /\ Existing' \subseteq first
                                      /\ ListedIds(ghRun.nodes) \subseteq first
    BY <1>2 DEF GHCovers, GHCovered
  <2> QED
    BY <1>2, <2>1, <2>2, <2>3 DEF GHCovers, GHCovered
<1>3. CASE ghRun.at # "listing"
  BY <1>1, <1>3 DEF GHCovers, GHCovered, GHHeldIds, GHHeld
<1> QED
  BY <1>2, <1>3

LEMMA GHRulesSame ==
    ASSUME GHInv, ghRun' = ghRun, ghRules' = ghRules, ghPast'.required = ghPast.required,
           ghPast'.ruled = ghPast.ruled
    PROVE  (GHRulesTrue(ghRun, ghPast))'
  BY GHFacts DEF GHRulesTrue, GHSeen

LEMMA GHDeletesTrue == ASSUME GHInv, NEW r \in GHIds, GHDeletes(r) PROVE GHInv' /\ (GHCovers => GHCovers')
<1>1. /\ ghRun' = ghRun /\ ghRun.at \notin {"idle", "done"} /\ r \in Existing /\ ghRules' = ghRules
      /\ ghName' = [ghName EXCEPT ![r] = 0] /\ ghChosen' = ghChosen \ {r}
      /\ ghPast' = [ghPast EXCEPT !.lasting = @ \ {r}, !.deleted = TRUE]
  BY DEF GHDeletes, GHChange
<1>2. /\ GHPastShape(ghPast') /\ ghPast'.lasting = ghPast.lasting \ {r} /\ ghPast'.deleted = TRUE
      /\ ghPast'.renamed = ghPast.renamed /\ ghPast'.created = ghPast.created
      /\ ghPast'.required = ghPast.required /\ ghPast'.ruled = ghPast.ruled
      /\ ghPast'.chosen = ghPast.chosen /\ ghPast'.unchosen = ghPast.unchosen
  BY <1>1, GHFacts DEF GHPastShape
<1>3. Existing' = Existing \ {r} /\ \A q \in GHIds : q # r => ghName'[q] = ghName[q]
  BY <1>1, GHFacts DEF GHWorldTrue, Existing
<1>4. GHWorldTrue'
  BY <1>1, <1>3, GHFacts DEF GHWorldTrue
<1>5. GHPastTrue(ghRun, ghPast)'
  BY <1>1, <1>2, <1>3, GHFacts DEF GHPastTrue
<1>6. \A q \in ghPast'.lasting : ghName'[q] = ghName[q]
  BY <1>2, <1>3, GHFacts
<1>7. (GHRulesTrue(ghRun, ghPast))'
  BY <1>1, <1>2, GHRulesSame
<1> QED
  BY <1>1, <1>2, <1>3, <1>4, <1>5, <1>6, <1>7, GHGroupSteps, GHGroupCovers

LEMMA GHCreatesTrue ==
    ASSUME GHInv, NEW r \in GHIds, NEW name \in 1 .. GHNames, GHCreates(r, name)
    PROVE  GHInv' /\ (GHCovers => GHCovers')
<1>1. /\ ghRun' = ghRun /\ ghRun.at \notin {"idle", "done"} /\ ghName[r] = 0 /\ Free(name)
      /\ ghName' = [ghName EXCEPT ![r] = name] /\ ghChosen' = ghChosen /\ ghRules' = ghRules
      /\ ghPast' = [ghPast EXCEPT !.created = TRUE, !.unchosen = @ \cup {r}]
  BY DEF GHCreates, GHChange
<1>2. /\ GHPastShape(ghPast') /\ ghPast'.lasting = ghPast.lasting /\ ghPast'.created = TRUE
      /\ ghPast'.renamed = ghPast.renamed /\ ghPast'.deleted = ghPast.deleted
      /\ ghPast'.required = ghPast.required /\ ghPast'.ruled = ghPast.ruled
      /\ ghPast'.chosen = ghPast.chosen /\ ghPast'.unchosen = ghPast.unchosen \cup {r}
  BY <1>1, GHFacts DEF GHPastShape
<1>3. name \in Nat /\ name # 0
  BY GitHubAssumption
<1>4. Existing' = Existing \cup {r} /\ r \notin Existing /\ \A q \in GHIds : q # r => ghName'[q] = ghName[q]
  BY <1>1, <1>3, GHFacts DEF GHWorldTrue, Existing
<1>5. GHWorldTrue'
  BY <1>1, <1>3, <1>4, GHFacts DEF GHWorldTrue, Free
<1>6. GHPastTrue(ghRun, ghPast)'
  BY <1>1, <1>2, <1>4, GHFacts DEF GHPastTrue
<1>7. \A q \in ghPast'.lasting : ghName'[q] = ghName[q]
  BY <1>2, <1>4, GHFacts
<1>8. (GHRulesTrue(ghRun, ghPast))'
  BY <1>1, <1>2, GHRulesSame
<1> QED
  BY <1>1, <1>2, <1>4, <1>5, <1>6, <1>7, <1>8, GHGroupSteps, GHGroupCovers, GHFacts

LEMMA GHRenamesTrue ==
    ASSUME GHInv, NEW r \in GHIds, NEW name \in 1 .. GHNames, GHRenames(r, name)
    PROVE  GHInv' /\ (GHCovers => GHCovers')
<1>1. /\ ghRun' = ghRun /\ ghRun.at \notin {"idle", "done"} /\ r \in Existing /\ Free(name)
      /\ ghName' = [ghName EXCEPT ![r] = name] /\ ghChosen' = ghChosen /\ ghRules' = ghRules
      /\ ghPast' = [ghPast EXCEPT !.renamed = TRUE]
  BY DEF GHRenames, GHChange
<1>2. /\ GHPastShape(ghPast') /\ ghPast'.lasting = ghPast.lasting /\ ghPast'.renamed = TRUE
      /\ ghPast'.deleted = ghPast.deleted /\ ghPast'.created = ghPast.created
      /\ ghPast'.required = ghPast.required /\ ghPast'.ruled = ghPast.ruled
      /\ ghPast'.chosen = ghPast.chosen /\ ghPast'.unchosen = ghPast.unchosen
  BY <1>1, GHFacts DEF GHPastShape
<1>3. name \in Nat /\ name # 0
  BY GitHubAssumption
<1>4. Existing' = Existing
  BY <1>1, <1>3, GHFacts DEF GHWorldTrue, Existing
<1>5. GHWorldTrue'
  BY <1>1, <1>3, <1>4, GHFacts DEF GHWorldTrue, Free
<1>6. GHPastTrue(ghRun, ghPast)'
  BY <1>1, <1>2, <1>4, GHFacts DEF GHPastTrue
<1>7. (GHRulesTrue(ghRun, ghPast))'
  BY <1>1, <1>2, GHRulesSame
<1> QED
  BY <1>1, <1>2, <1>4, <1>5, <1>6, <1>7, GHGroupSteps, GHGroupCovers

LEMMA GHSelectsTrue == ASSUME GHInv, NEW r \in GHIds, GHSelects(r) PROVE GHInv' /\ (GHCovers => GHCovers')
<1>1. /\ ghRun' = ghRun /\ ghRun.at \notin {"idle", "done"} /\ r \in Existing /\ ghName' = ghName /\ ghRules' = ghRules
      /\ ghChosen' = IF r \in ghChosen THEN ghChosen \ {r} ELSE ghChosen \cup {r}
      /\ ghPast' = [ghPast EXCEPT !.chosen = @ \cup (ghChosen' \cap {r}), !.unchosen = @ \cup ({r} \ ghChosen')]
  BY DEF GHSelects, GHChange
<1>2. /\ GHPastShape(ghPast') /\ ghPast'.lasting = ghPast.lasting /\ ghPast'.renamed = ghPast.renamed
      /\ ghPast'.deleted = ghPast.deleted /\ ghPast'.created = ghPast.created
      /\ ghPast'.required = ghPast.required /\ ghPast'.ruled = ghPast.ruled
      /\ ghPast'.chosen = ghPast.chosen \cup (ghChosen' \cap {r})
      /\ ghPast'.unchosen = ghPast.unchosen \cup ({r} \ ghChosen')
  BY <1>1, GHFacts DEF GHPastShape
<1>3. Existing' = Existing
  BY <1>1 DEF Existing
<1>4. GHWorldTrue'
  BY <1>1, <1>3, GHFacts DEF GHWorldTrue
<1>5. GHPastTrue(ghRun, ghPast)'
  BY <1>1, <1>2, <1>3, GHFacts DEF GHPastTrue
<1>6. (GHRulesTrue(ghRun, ghPast))'
  BY <1>1, <1>2, GHRulesSame
<1> QED
  BY <1>1, <1>2, <1>3, <1>4, <1>5, <1>6, GHGroupSteps, GHGroupCovers

LEMMA GHRequires == ASSUME NEW rules PROVE Requires(rules) <=> \E k \in GHGood : rules[k] = "active"
  BY GitHubAssumption DEF Requires, GHGood

\* One change leaves a ruleset as it was that is seen, and that requires the
\* workflow before and after -- or there was a moment without one.
LEMMA GHRulesChange ==
    ASSUME GHInv, NEW k \in GHRuleIds, NEW enforcement \in GHEnforcements, GHRules(k, enforcement)
    PROVE  GHInv' /\ (GHCovers => GHCovers')
<1>1. /\ ghRun' = ghRun /\ ghRun.at \notin {"idle", "done"} /\ ghName' = ghName /\ ghChosen' = ghChosen
      /\ ghRules' = [ghRules EXCEPT ![k] = enforcement] /\ enforcement # ghRules[k]
      /\ ghPast' = [ghPast EXCEPT !.required = @ \cup {Requires(ghRules')}, !.ruled = @ + 1]
  BY DEF GHRules, GHChange
<1>2. Requires(ghRules) \in BOOLEAN /\ Requires(ghRules') \in BOOLEAN
  BY DEF Requires
<1>3. /\ GHPastShape(ghPast') /\ ghPast'.lasting = ghPast.lasting /\ ghPast'.renamed = ghPast.renamed
      /\ ghPast'.deleted = ghPast.deleted /\ ghPast'.created = ghPast.created
      /\ ghPast'.required = ghPast.required \cup {Requires(ghRules')} /\ ghPast'.ruled = ghPast.ruled + 1
      /\ ghPast'.chosen = ghPast.chosen /\ ghPast'.unchosen = ghPast.unchosen /\ ghPast.ruled \in Nat
  <2> DEFINE now == Requires(ghRules')  ruled == ghPast.ruled + 1
  <2>1. now \in BOOLEAN /\ ghPast' = [ghPast EXCEPT !.required = @ \cup {now}, !.ruled = ruled]
    BY <1>1, <1>2
  <2>2. GHPastShape(ghPast) /\ ghPast.ruled \in Nat
    BY GHFacts DEF GHPastShape
  <2>4. ruled \in Nat
    BY <2>2
  <2> HIDE DEF now, ruled
  <2>3. /\ GHPastShape(ghPast') /\ ghPast'.lasting = ghPast.lasting /\ ghPast'.renamed = ghPast.renamed
        /\ ghPast'.deleted = ghPast.deleted /\ ghPast'.created = ghPast.created
        /\ ghPast'.required = ghPast.required \cup {now} /\ ghPast'.ruled = ruled
        /\ ghPast'.chosen = ghPast.chosen /\ ghPast'.unchosen = ghPast.unchosen
    BY <2>1, <2>2, <2>4 DEF GHPastShape
  <2> QED
    BY <2>2, <2>3 DEF now, ruled
<1>4. Existing' = Existing
  BY <1>1 DEF Existing
<1>5. GHWorldTrue' /\ ghRules \in [GHRuleIds -> GHEnforcements]
  BY <1>1, <1>4, GHFacts DEF GHWorldTrue
<1>6. GHPastTrue(ghRun, ghPast)'
  BY <1>1, <1>3, <1>4, GHFacts DEF GHPastTrue
<1>7. (GHRulesTrue(ghRun, ghPast))'
  <2>1. \A j \in GHGood : ghRun.rules[j] = "active" => TRUE \in ghPast'.required
    BY <1>3, GHFacts DEF GHRulesTrue
  <2>2. ghPast'.ruled # 0
    BY <1>3
  <2>3. ASSUME ghRun.at \notin {"idle", "done", "failed"}, FALSE \notin ghPast'.required, ghPast'.ruled = 1
        PROVE  \E j \in GHGood : (GHSeen(ghRun, j))'
    <3>1. FALSE \notin ghPast.required /\ ghPast.ruled = 0 /\ Requires(ghRules) \in ghPast.required
      <4>1. GHPastTrue(ghRun, ghPast)
        BY GHFacts
      <4>2. FALSE \notin ghPast.required /\ ghPast.ruled = 0
        <5>1. ghPast'.ruled = ghPast.ruled + 1 /\ ghPast.ruled \in Nat
          BY <1>3
        <5>2. ghPast.required \subseteq ghPast'.required
          BY <1>3
        <5>3. ASSUME NEW now, NEW before \in Nat, now = before + 1, now = 1 PROVE before = 0
          BY <5>3
        <5>4. ghPast.ruled = 0
          BY <2>3, <5>1, <5>3
        <5>5. FALSE \notin ghPast.required
          BY <2>3, <5>2
        <5> QED
          BY <5>4, <5>5
      <4> QED
        BY <1>1, <4>1, <4>2 DEF GHPastTrue
    <3>2. Requires(ghRules) = TRUE /\ Requires(ghRules') = TRUE
      BY <1>2, <1>3, <2>3, <3>1
    <3>3. PICK j \in GHGood : ghRules[j] = "active"
      BY <3>2, GHRequires
    <3>4. PICK i \in GHGood : ghRules'[i] = "active"
      BY <3>2, GHRequires
    <3>5. \A h \in GHGood : ghRules[h] = "active" => GHSeen(ghRun, h)
      BY <2>3, <3>1, GHFacts DEF GHRulesTrue
    <3>6. \A h \in GHGood : h # k => ghRules'[h] = ghRules[h]
      BY <1>1, <1>5 DEF GHGood
    <3>7. \A h \in GHGood : GHSeen(ghRun, h) /\ ghRules'[h] = "active" => (GHSeen(ghRun, h))'
      BY <1>1 DEF GHSeen
    <3>8. CASE j # k
      BY <3>3, <3>5, <3>6, <3>7, <3>8
    <3>9. CASE j = k
      <4>1. i # k
        BY <1>1, <1>5, <3>3, <3>4, <3>9
      <4> QED
        BY <3>4, <3>5, <3>6, <3>7, <4>1
    <3> QED
      BY <3>8, <3>9
  <2> QED
    BY <1>1, <2>1, <2>2, <2>3 DEF GHRulesTrue
<1> QED
  BY <1>1, <1>3, <1>4, <1>5, <1>6, <1>7, GHGroupSteps, GHGroupCovers

-----------------------------------------------------------------------------
(* Steps of the run.                                                       *)

LEMMA GHRunSteps ==
    ASSUME GHInv, UNCHANGED <<ghName, ghChosen, ghRules, ghPast>>, ghRun.at # "idle",
           GHRunShape(ghRun'), ghRun'.at # "idle", GHListTrue(ghRun', ghPast),
           GHValuesTrue(ghRun', ghPast), GHRulesTrue(ghRun', ghPast), GHDoneTrue(ghRun', ghPast)
    PROVE  GHInv'
<1>1. GHWorldTrue' /\ GHRunShape(ghRun)' /\ GHPastShape(ghPast)'
  BY GHFacts DEF GHWorldTrue, Existing, GHRunShape, GHPastShape
<1>2. GHPastTrue(ghRun, ghPast)'
  BY GHFacts DEF GHPastTrue, Existing, Requires
<1>3. (GHListTrue(ghRun, ghPast))' /\ (GHRulesTrue(ghRun, ghPast))' /\ (GHDoneTrue(ghRun, ghPast))'
  BY DEF GHListTrue, GHNodeTrue, GHRulesTrue, GHSeen, GHDoneTrue, GHControlTrue
<1>4. (GHValuesTrue(ghRun, ghPast))'
  BY DEF GHValuesTrue, GHAssigned, GHBefore, Existing
<1> QED
  BY <1>1, <1>2, <1>3, <1>4 DEF GHInv, GHRunTrue

\* The listing says nothing of properties and rules, nor does a run that ended.
LEMMA GHListingSteps ==
    ASSUME GHInv, UNCHANGED <<ghName, ghChosen, ghRules, ghPast>>,
           ghRun.at \in {"tenant", "listing", "listed"},
           GHRunShape(ghRun'), GHListTrue(ghRun', ghPast), ghRun'.values = {}, ghRun'.page = 1,
           ghRun'.at \in {"tenant", "listing", "listed", "schema", "failed"},
           ghRun'.rules = ghRun.rules \/ ghRun'.rules = NoRules
    PROVE  GHInv'
<1>1. GHValuesTrue(ghRun', ghPast)
  BY DEF GHValuesTrue
<1>2. GHRulesTrue(ghRun', ghPast)
  <2>1. \A k \in GHGood : ghRun'.rules[k] = "active" => TRUE \in ghPast.required
    BY GHFacts DEF GHRulesTrue, NoRules, GHGood
  <2>2. \A k \in GHGood : GHSeen(ghRun, k) => GHSeen(ghRun', k)
    BY DEF GHSeen
  <2>3. \A k \in GHGood : ghRules[k] = "active" => GHSeen(ghRun', k)
    BY DEF GHSeen
  <2> QED
    BY <2>1, <2>2, <2>3, GHFacts DEF GHRulesTrue
<1>3. GHDoneTrue(ghRun', ghPast)
  BY DEF GHDoneTrue
<1> QED
  BY <1>1, <1>2, <1>3, GHRunSteps

LEMMA GHNoNodes ==
    ASSUME NEW run, NEW past, run.nodes = <<>>, GHHeld(run) = {}
    PROVE  GHListTrue(run, past)
<1>1. DOMAIN run.nodes = {}
  OBVIOUS
<1> QED
  BY <1>1 DEF GHListTrue

LEMMA GHFailed ==
    ASSUME GHInv, UNCHANGED <<ghName, ghChosen, ghRules, ghPast>>,
           ghRun.at \in {"tenant", "listing"}, ghRun' = [GHNoRun EXCEPT !.at = "failed"]
    PROVE  GHInv' /\ GHCovers'
<1>1. /\ ghRun'.at = "failed" /\ ghRun'.nodes = <<>> /\ GHHeld(ghRun') = {} /\ ghRun'.values = {}
      /\ ghRun'.rules = NoRules /\ ghRun'.page = 1
  BY DEF GHNoRun, GHHeld, NoListing, NoRules
<1>2. GHRunShape(ghRun')
  BY GHNoRunShape DEF GHRunShape, GHStages
<1>3. GHInv'
  BY <1>1, <1>2, GHNoNodes, GHListingSteps
<1> QED
  BY <1>1, <1>3 DEF GHCovers, GHCovered

LEMMA GHGivesUpTrue == ASSUME GHInv, GHGivesUp PROVE GHInv' /\ GHCovers'
  BY GHFailed DEF GHGivesUp

LEMMA GHRetriedTrue == ASSUME GHInv, GHRetried PROVE GHInv' /\ (GHCovers => GHCovers')
<1>1. /\ UNCHANGED <<ghName, ghChosen, ghRules, ghPast>> /\ ghRun.at \notin {"idle", "done"}
      /\ ghRun' = [ghRun EXCEPT !.try = @ + 1] /\ GHRunShape(ghRun)
  BY GHFacts DEF GHRetried, Asking
<1> DEFINE try == ghRun.try + 1
<1>2. ghRun' = [ghRun EXCEPT !.try = try]
  BY <1>1
<1> HIDE DEF try
<1>3. /\ GHRunShape(ghRun') /\ ghRun'.at = ghRun.at /\ ghRun'.nodes = ghRun.nodes /\ ghRun'.inv = ghRun.inv
      /\ ghRun'.values = ghRun.values /\ ghRun'.page = ghRun.page /\ ghRun'.prop = ghRun.prop
      /\ ghRun'.rules = ghRun.rules /\ ghRun'.summaries = ghRun.summaries /\ ghRun'.rule = ghRun.rule
      /\ ghRun'.cursor = ghRun.cursor /\ ghRun'.total = ghRun.total
  BY <1>1, <1>2 DEF GHRunShape
<1>4. GHListTrue(ghRun', ghPast) /\ GHDoneTrue(ghRun', ghPast)
  BY <1>1, <1>3, GHFacts DEF GHListTrue, GHHeld, GHDoneTrue
<1>5. GHValuesTrue(ghRun', ghPast)
  BY <1>3, GHFacts DEF GHValuesTrue, GHAssigned
<1>6. GHRulesTrue(ghRun', ghPast)
  BY <1>3, GHFacts DEF GHRulesTrue, GHSeen
<1>7. GHCovers => GHCovers'
  BY <1>1, <1>3 DEF GHCovers, GHCovered, GHHeldIds, GHHeld, Existing
<1> QED
  BY <1>1, <1>3, <1>4, <1>5, <1>6, <1>7, GHRunSteps

LEMMA GHBeginTrue == ASSUME GHInv, GHBegin PROVE GHInv' /\ GHCovers'
<1>1. /\ UNCHANGED <<ghName, ghChosen, ghRules>> /\ ghRun' = [GHNoRun EXCEPT !.at = "tenant"]
      /\ ghPast' = [NoPast EXCEPT !.lasting = Existing, !.chosen = ghChosen, !.unchosen = GHIds \ ghChosen,
                      !.required = {Requires(ghRules)}]
  BY DEF GHBegin
<1>2. /\ ghRun'.at = "tenant" /\ ghRun'.nodes = <<>> /\ GHHeld(ghRun') = {} /\ ghRun'.values = {}
      /\ ghRun'.page = 1 /\ ghRun'.cursor = 0 /\ \A k \in GHRuleIds : ghRun'.rules[k] = "absent"
  BY <1>1 DEF GHNoRun, GHHeld, NoListing
<1>3. GHRunShape(ghRun')
  BY <1>1, GHNoRunShape DEF GHRunShape, GHStages
<1>4. Requires(ghRules) \in BOOLEAN
  BY DEF Requires
<1> DEFINE now == Requires(ghRules)
<1>5. /\ now \in BOOLEAN
      /\ ghPast' = [NoPast EXCEPT !.lasting = Existing, !.chosen = ghChosen, !.unchosen = GHIds \ ghChosen,
                      !.required = {now}]
  BY <1>1, <1>4
<1> HIDE DEF now
<1>6. /\ GHPastShape(ghPast') /\ ghPast'.lasting = Existing /\ ghPast'.chosen = ghChosen
      /\ ghPast'.unchosen = GHIds \ ghChosen /\ ghPast'.required = {now} /\ ghPast'.ruled = 0
  BY <1>5, GHFacts DEF GHPastShape, NoPast, GHWorldTrue
<1>7. GHWorldTrue' /\ Existing' = Existing /\ Requires(ghRules)' = now
  BY <1>1, GHFacts DEF GHWorldTrue, Existing, Requires, now
<1>8. GHPastTrue(ghRun, ghPast)'
  BY <1>1, <1>6, <1>7, GHFacts DEF GHPastTrue
<1>9. (GHListTrue(ghRun, ghPast))' /\ (GHValuesTrue(ghRun, ghPast))' /\ (GHDoneTrue(ghRun, ghPast))'
  <2>1. DOMAIN ghRun'.nodes = {}
    BY <1>2
  <2>2. GHHeld(ghRun)' = {}
    BY <1>2 DEF GHHeld
  <2> QED
    BY <1>2, <2>1, <2>2 DEF GHListTrue, GHValuesTrue, GHDoneTrue
<1>10. (GHRulesTrue(ghRun, ghPast))'
  <2>1. \A k \in GHGood : ghRun'.rules[k] # "active"
    BY <1>2 DEF GHGood
  <2>2. \A k \in GHGood : ghRules'[k] = "active" => (GHSeen(ghRun, k))'
    BY <1>2 DEF GHSeen
  <2>3. ghPast'.ruled # 1
    BY <1>6
  <2> QED
    BY <2>1, <2>2, <2>3 DEF GHRulesTrue
<1>11. (GHRunShape(ghRun) /\ GHPastShape(ghPast))'
  BY <1>3, <1>6 DEF GHRunShape, GHPastShape
<1> QED
  BY <1>2, <1>7, <1>8, <1>9, <1>10, <1>11 DEF GHInv, GHRunTrue, GHCovers, GHCovered

LEMMA GHTenantTrue == ASSUME GHInv, GHCovers, GHTenant PROVE GHInv' /\ GHCovers'
<1>1. /\ UNCHANGED <<ghName, ghChosen, ghRules, ghPast>> /\ ghRun.at = "tenant"
      /\ ghRun' = [ghRun EXCEPT !.at = "listing", !.try = 0] /\ GHRunShape(ghRun)
      /\ ghRun.nodes = <<>> /\ ghRun.cursor = 0 /\ ghRun.values = {} /\ ghRun.page = 1
  BY GHFacts DEF GHTenant, World, GHCovers, GHCovered, GHValuesTrue
<1>2. /\ GHRunShape(ghRun') /\ ghRun'.at = "listing" /\ ghRun'.nodes = <<>> /\ ghRun'.inv = ghRun.inv
      /\ ghRun'.values = {} /\ ghRun'.page = 1 /\ ghRun'.rules = ghRun.rules /\ ghRun'.cursor = 0
  BY <1>1 DEF GHRunShape, GHStages
<1>3. GHListTrue(ghRun', ghPast)
  BY <1>1, <1>2, GHFacts DEF GHListTrue, GHHeld
<1>4. GHInv'
  BY <1>1, <1>2, <1>3, GHListingSteps
<1>5. ListedIds(ghRun'.nodes) = {}
  BY <1>2 DEF ListedIds
<1>6. \A r \in ghPast'.lasting : ~(ghName'[r] <= 0)
  BY <1>1, GHFacts DEF GHWorldTrue, Existing
<1> QED
  BY <1>2, <1>4, <1>5, <1>6 DEF GHCovers, GHCovered

LEMMA GHInOrderHas ==
    ASSUME NEW ids, ids \subseteq GHIds, NEW key, NEW seq \in InOrder(ids, key)
    PROVE  /\ IsFiniteSet(ids) /\ seq \in Seq(ids) /\ Len(seq) = Cardinality(ids)
           /\ \A p \in ids : \E i \in 1 .. Len(seq) : seq[i] = p
           /\ \A i, j \in 1 .. Len(seq) : i < j => key[seq[i]] < key[seq[j]]
<1>1. IsFiniteSet(GHIds)
  BY GitHubAssumption
<1> QED
  BY <1>1, InOrderHas

LEMMA GHInOrderFinds ==
    ASSUME NEW ids, ids \subseteq GHIds, NEW key, NEW seq \in InOrder(ids, key), NEW p \in ids
    PROVE  \E i \in 1 .. Len(seq) : seq[i] = p
<1>1. \A q \in ids : \E i \in 1 .. Len(seq) : seq[i] = q
  BY GHInOrderHas
<1> QED
  BY <1>1

LEMMA GHPageHas ==
    ASSUME NEW S, NEW seq \in Seq(S), NEW from \in Nat
    PROVE  /\ Page(seq, from, GHPageSize) \in Seq(S)
           /\ Len(Page(seq, from, GHPageSize)) = IF from > Len(seq) THEN 0
                ELSE IF from + GHPageSize < Len(seq) THEN GHPageSize ELSE Len(seq) - from
           /\ \A i \in 1 .. Len(Page(seq, from, GHPageSize)) : Page(seq, from, GHPageSize)[i] = seq[from + i]
<1>1. GHPageSize \in Nat \ {0}
  BY GitHubAssumption
<1> QED
  BY <1>1, PageHas

\* A page of the listing: repositories behind the cursor, in the order of
\* their names; all of them when there are no more.
LEMMA GHPageIs ==
    ASSUME GHInv, GHPage, ghRun'.at # "failed"
    PROVE  /\ ghRun.at = "listing" /\ UNCHANGED <<ghName, ghChosen, ghRules, ghPast>>
           /\ \E page \in Seq(Existing), more \in BOOLEAN :
                LET nodes == ghRun.nodes \o Nodes(page)
                    cursor == IF more THEN ghName[page[GHPageSize]] ELSE ghRun.cursor
                IN  /\ ghRun' = [ghRun EXCEPT !.at = IF more THEN "listing" ELSE "listed", !.try = 0,
                                   !.total = Cardinality(Existing), !.nodes = nodes, !.cursor = cursor]
                    /\ ~(ghRun.nodes = <<>> /\ ghRun.cursor = 0) => ghRun.total = Cardinality(Existing)
                    /\ ~more => Len(nodes) = Cardinality(Existing)
                    /\ more => GHPageSize \in 1 .. Len(page)
                    /\ \A r \in Existing : ghName[r] > ghRun.cursor /\ (more => ghName[r] <= cursor) =>
                         \E i \in 1 .. Len(page) : page[i] = r
<1> DEFINE behind == {r \in Existing : ghName[r] > ghRun.cursor}
           total == Cardinality(Existing)
           first == ghRun.nodes = <<>> /\ ghRun.cursor = 0
<1>1. ghRun.at = "listing" /\ UNCHANGED <<ghName, ghChosen, ghRules, ghPast>>
  BY DEF GHPage, World
<1>2. PICK rest \in InOrder(behind, ghName) :
        LET page == Page(rest, 0, GHPageSize)
            nodes == ghRun.nodes \o Nodes(page)
            more == Len(rest) > GHPageSize
        IN ghRun' = IF (~first /\ total # ghRun.total) \/ (~more /\ Len(nodes) # total)
                    THEN [GHNoRun EXCEPT !.at = "failed"]
                    ELSE [ghRun EXCEPT !.at = IF more THEN "listing" ELSE "listed", !.try = 0,
                            !.total = total, !.nodes = nodes,
                            !.cursor = IF more THEN ghName[page[GHPageSize]] ELSE @]
  BY DEF GHPage
<1> DEFINE page == Page(rest, 0, GHPageSize)
           nodes == ghRun.nodes \o Nodes(page)
           more == Len(rest) > GHPageSize
           cursor == IF more THEN ghName[page[GHPageSize]] ELSE ghRun.cursor
<1>3. GHPageSize \in Nat \ {0} /\ IsFiniteSet(GHIds) /\ behind \subseteq GHIds /\ behind \subseteq Existing
  BY GitHubAssumption, GHFacts
<1>4. /\ rest \in Seq(behind) /\ \A r \in behind : \E i \in 1 .. Len(rest) : rest[i] = r
      /\ \A i, j \in 1 .. Len(rest) : i < j => ghName[rest[i]] < ghName[rest[j]]
  <2> DEFINE key == ghName
  <2>4. rest \in InOrder(behind, key) /\ behind \subseteq GHIds
    BY <1>3
  <2> HIDE DEF behind, key
  <2>1. rest \in Seq(behind)
    BY <2>4, GHInOrderHas
  <2>2. \A p \in behind : \E i \in 1 .. Len(rest) : rest[i] = p
    BY <2>4, GHInOrderFinds
  <2>3. \A i, j \in 1 .. Len(rest) : i < j => ghName[rest[i]] < ghName[rest[j]]
    <3>1. \A i, j \in 1 .. Len(rest) : i < j => key[rest[i]] < key[rest[j]]
      BY <2>4, GHInOrderHas
    <3> QED
      BY <3>1 DEF key
  <2> QED
    BY <2>1, <2>2, <2>3
<1>5. /\ page \in Seq(behind)
      /\ Len(page) = IF 0 > Len(rest) THEN 0 ELSE IF 0 + GHPageSize < Len(rest) THEN GHPageSize ELSE Len(rest) - 0
      /\ \A i \in 1 .. Len(page) : page[i] = rest[0 + i]
  <2> HIDE DEF behind
  <2>1. 0 \in Nat /\ rest \in Seq(behind)
    BY <1>4
  <2>2. \A i \in 1 .. Len(Page(rest, 0, GHPageSize)) : Page(rest, 0, GHPageSize)[i] = rest[0 + i]
    BY <2>1, GHPageHas
  <2> QED
    BY <2>1, <2>2, GHPageHas
<1> HIDE DEF page
<1>6. Len(rest) \in Nat /\ Len(page) = (IF more THEN GHPageSize ELSE Len(rest)) /\ page \in Seq(Existing)
  <2>1. Len(rest) \in Nat
    BY <1>4
  <2>2. page \in Seq(Existing)
    BY <1>3, <1>5
  <2> QED
    BY <1>3, <1>5, <2>1, <2>2
<1>7. more => GHPageSize \in 1 .. Len(page) /\ GHPageSize \in 1 .. Len(rest) /\ page[GHPageSize] = rest[GHPageSize]
  BY <1>3, <1>5, <1>6
<1>8. ASSUME NEW r \in Existing, ghName[r] > ghRun.cursor, more => ghName[r] <= cursor
      PROVE  \E i \in 1 .. Len(page) : page[i] = r
  <2>1. PICK i \in 1 .. Len(rest) : rest[i] = r
    BY <1>4, <1>8
  <2>2. i \in 1 .. Len(page)
    <3>1. CASE ~more
      BY <1>6, <2>1, <3>1
    <3>2. CASE more
      <4>1. cursor = ghName[rest[GHPageSize]] /\ ghName[r] <= cursor
        BY <1>7, <1>8, <3>2
      <4>2. i > GHPageSize => cursor < ghName[r]
        BY <1>4, <1>7, <2>1, <3>2, <4>1
      <4>3. ghName[r] \in Nat /\ cursor \in Nat
        <5>1. rest[GHPageSize] \in GHIds
          BY <1>3, <1>4, <1>7, <3>2
        <5> QED
          BY <4>1, <5>1, GHFacts DEF GHWorldTrue
      <4>4. ~(i > GHPageSize)
        BY <4>1, <4>2, <4>3
      <4> QED
        BY <1>3, <1>6, <2>1, <3>2, <4>4
    <3> QED
      BY <3>1, <3>2
  <2>3. page[i] = rest[i]
    BY <1>5, <2>2
  <2> QED
    BY <2>1, <2>2, <2>3
<1>9. /\ ghRun' = [ghRun EXCEPT !.at = IF more THEN "listing" ELSE "listed", !.try = 0,
                     !.total = total, !.nodes = nodes, !.cursor = cursor]
      /\ first \/ total = ghRun.total
      /\ more \/ Len(nodes) = total
  <2>1. [GHNoRun EXCEPT !.at = "failed"].at = "failed"
    BY DEF GHNoRun
  <2>2. ~((~first /\ total # ghRun.total) \/ (~more /\ Len(nodes) # total))
    <3> HIDE DEF first, total, nodes, more
    <3> QED
      BY <1>2, <2>1 DEF page, nodes, more
  <2> HIDE DEF first, total, more, nodes
  <2>3. ghRun' = [ghRun EXCEPT !.at = IF more THEN "listing" ELSE "listed", !.try = 0,
                    !.total = total, !.nodes = nodes,
                    !.cursor = IF more THEN ghName[page[GHPageSize]] ELSE @]
    BY <1>2, <2>2 DEF page, nodes, more
  <2> QED
    BY <2>2, <2>3 DEF cursor
<1> DEFINE is == /\ ghRun' = [ghRun EXCEPT !.at = IF more THEN "listing" ELSE "listed", !.try = 0,
                                !.total = total, !.nodes = nodes, !.cursor = cursor]
                 /\ ~first => ghRun.total = total
                 /\ ~more => Len(nodes) = total
                 /\ more => GHPageSize \in 1 .. Len(page)
                 /\ \A r \in Existing : ghName[r] > ghRun.cursor /\ (more => ghName[r] <= cursor) =>
                      \E i \in 1 .. Len(page) : page[i] = r
<1>10. is
  BY <1>7, <1>8, <1>9
<1>11. page \in Seq(Existing) /\ more \in BOOLEAN
  BY <1>6
<1> HIDE DEF more
<1> QED
  BY <1>1, <1>10, <1>11

LEMMA GHNodesGrow ==
    ASSUME GHInv, NEW ids \in Seq(Existing)
    PROVE  LET nodes == ghRun.nodes \o Nodes(ids) IN
           /\ nodes \in Seq(GHNodes)
           /\ ListedIds(ghRun.nodes) \subseteq ListedIds(nodes)
           /\ ListedIds(nodes) \subseteq ListedIds(ghRun.nodes) \cup Existing
           /\ \A i \in 1 .. Len(ids) : ids[i] \in ListedIds(nodes)
           /\ \A i \in DOMAIN nodes : GHNodeTrue(ghPast, nodes[i])
<1> DEFINE old == ghRun.nodes  new == Nodes(ids)  nodes == old \o new
           node(r) == [id |-> r, name |-> ghName[r]]
<1>1. \A r \in Existing : node(r) \in GHNodes /\ node(r).id = r /\ GHNodeTrue(ghPast, node(r))
  <2> TAKE r \in Existing
  <2>1. r \in GHIds /\ ghName[r] \in Nat
    BY GHFacts DEF GHWorldTrue
  <2> QED
    BY <2>1 DEF GHNodes, GHNodeTrue
<1>2. DOMAIN ids = 1 .. Len(ids) /\ Len(ids) \in Nat /\ \A i \in 1 .. Len(ids) : ids[i] \in Existing
  OBVIOUS
<1>3. new = [i \in 1 .. Len(ids) |-> node(ids[i])]
  BY <1>2 DEF Nodes
<1>4. old \in Seq(GHNodes) /\ \A i \in 1 .. Len(old) : GHNodeTrue(ghPast, old[i])
  BY GHFacts DEF GHRunShape, GHListTrue
<1> HIDE DEF node, old, new
<1>5. /\ new \in Seq(GHNodes) /\ Len(new) = Len(ids)
      /\ \A i \in 1 .. Len(new) : new[i].id = ids[i] /\ ids[i] \in Existing /\ GHNodeTrue(ghPast, new[i])
  BY <1>1, <1>2, <1>3
<1>6. /\ nodes \in Seq(GHNodes) /\ Len(nodes) = Len(old) + Len(new)
      /\ \A k \in 1 .. Len(old) + Len(new) : nodes[k] = IF k <= Len(old) THEN old[k] ELSE new[k - Len(old)]
  <2>1. old \in Seq(GHNodes) /\ new \in Seq(GHNodes)
    BY <1>4, <1>5
  <2> QED
    BY <2>1, ConcatProperties
<1>7. Len(old) \in Nat /\ Len(new) \in Nat /\ DOMAIN old = 1 .. Len(old) /\ DOMAIN new = 1 .. Len(new)
  BY <1>4, <1>5
<1> HIDE DEF nodes
<1>8. DOMAIN nodes = 1 .. Len(old) + Len(new)
  BY <1>6
<1>9. \A i \in 1 .. Len(old) : i \in DOMAIN nodes /\ nodes[i] = old[i]
  BY <1>6, <1>7, <1>8
<1>10. \A i \in 1 .. Len(new) : Len(old) + i \in DOMAIN nodes /\ nodes[Len(old) + i] = new[i]
  BY <1>6, <1>7, <1>8
<1>11. ASSUME NEW k \in DOMAIN nodes
       PROVE  (k \in DOMAIN old /\ nodes[k] = old[k]) \/ \E i \in 1 .. Len(new) : nodes[k] = new[i]
  <2>1. k <= Len(old) \/ k - Len(old) \in 1 .. Len(new)
    BY <1>7, <1>8, <1>11
  <2> QED
    BY <1>6, <1>7, <1>8, <1>11, <2>1
<1>12. ListedIds(old) \subseteq ListedIds(nodes)
  BY <1>7, <1>9 DEF ListedIds
<1>13. ListedIds(nodes) \subseteq ListedIds(old) \cup Existing
  BY <1>5, <1>7, <1>11 DEF ListedIds
<1>14. \A i \in 1 .. Len(ids) : ids[i] \in ListedIds(nodes)
  BY <1>5, <1>10 DEF ListedIds
<1>15. \A i \in DOMAIN nodes : GHNodeTrue(ghPast, nodes[i])
  BY <1>4, <1>5, <1>7, <1>11
<1> QED
  BY <1>6, <1>12, <1>13, <1>14, <1>15 DEF old, new, nodes

LEMMA GHPageTrue == ASSUME GHInv, GHCovers, GHPage PROVE GHInv' /\ GHCovers'
<1>1. CASE ghRun'.at = "failed"
  <2>1. ghRun.at = "listing" /\ UNCHANGED <<ghName, ghChosen, ghRules, ghPast>>
    BY DEF GHPage, World
  <2>2. PICK rest \in InOrder({r \in Existing : ghName[r] > ghRun.cursor}, ghName) :
          LET page == Page(rest, 0, GHPageSize)
              nodes == ghRun.nodes \o Nodes(page)
              first == ghRun.nodes = <<>> /\ ghRun.cursor = 0
              total == Cardinality(Existing)
              more == Len(rest) > GHPageSize
          IN ghRun' = IF (~first /\ total # ghRun.total) \/ (~more /\ Len(nodes) # total)
                      THEN [GHNoRun EXCEPT !.at = "failed"]
                      ELSE [ghRun EXCEPT !.at = IF more THEN "listing" ELSE "listed", !.try = 0,
                              !.total = total, !.nodes = nodes,
                              !.cursor = IF more THEN ghName[page[GHPageSize]] ELSE @]
    BY DEF GHPage
  <2> DEFINE page == Page(rest, 0, GHPageSize)
             nodes == ghRun.nodes \o Nodes(page)
             first == ghRun.nodes = <<>> /\ ghRun.cursor = 0
             total == Cardinality(Existing)
             more == Len(rest) > GHPageSize
             at == IF more THEN "listing" ELSE "listed"
             cursor == IF more THEN ghName[page[GHPageSize]] ELSE ghRun.cursor
             on == [ghRun EXCEPT !.at = at, !.try = 0, !.total = total, !.nodes = nodes, !.cursor = cursor]
  <2>4. ghRun' = [GHNoRun EXCEPT !.at = "failed"] \/ ghRun' = on
    <3>1. ghRun' = IF (~first /\ total # ghRun.total) \/ (~more /\ Len(nodes) # total)
                   THEN [GHNoRun EXCEPT !.at = "failed"] ELSE on
      BY <2>2
    <3> HIDE DEF on
    <3> QED
      BY <3>1
  <2>5. at # "failed"
    OBVIOUS
  <2> HIDE DEF at, nodes, total, cursor
  <2>6. GHRunShape(ghRun)
    BY GHFacts
  <2>7. on.at = at
    BY <2>6 DEF GHRunShape
  <2>3. ghRun' = [GHNoRun EXCEPT !.at = "failed"]
    <3> HIDE DEF on
    <3> QED
      BY <1>1, <2>4, <2>5, <2>7
  <2> QED
    BY <2>1, <2>3, GHFailed
<1>2. CASE ghRun'.at # "failed"
  <2>1. ghRun.at = "listing" /\ UNCHANGED <<ghName, ghChosen, ghRules, ghPast>>
    BY <1>2, GHPageIs
  <2>2. PICK page \in Seq(Existing), more \in BOOLEAN :
          LET nodes == ghRun.nodes \o Nodes(page)
              cursor == IF more THEN ghName[page[GHPageSize]] ELSE ghRun.cursor
          IN  /\ ghRun' = [ghRun EXCEPT !.at = IF more THEN "listing" ELSE "listed", !.try = 0,
                             !.total = Cardinality(Existing), !.nodes = nodes, !.cursor = cursor]
              /\ ~(ghRun.nodes = <<>> /\ ghRun.cursor = 0) => ghRun.total = Cardinality(Existing)
              /\ ~more => Len(nodes) = Cardinality(Existing)
              /\ more => GHPageSize \in 1 .. Len(page)
              /\ \A r \in Existing : ghName[r] > ghRun.cursor /\ (more => ghName[r] <= cursor) =>
                   \E i \in 1 .. Len(page) : page[i] = r
    BY <1>2, GHPageIs
  <2> DEFINE nodes == ghRun.nodes \o Nodes(page)
             cursor == IF more THEN ghName[page[GHPageSize]] ELSE ghRun.cursor
             total == Cardinality(Existing)
  <2>3. /\ nodes \in Seq(GHNodes)
        /\ ListedIds(ghRun.nodes) \subseteq ListedIds(nodes)
        /\ ListedIds(nodes) \subseteq ListedIds(ghRun.nodes) \cup Existing
        /\ \A i \in 1 .. Len(page) : page[i] \in ListedIds(nodes)
        /\ \A i \in DOMAIN nodes : GHNodeTrue(ghPast, nodes[i])
    BY GHNodesGrow
  <2>4. /\ ~(ghRun.nodes = <<>> /\ ghRun.cursor = 0) => ghRun.total = total
        /\ ~more => Len(nodes) = total
        /\ \A r \in Existing : ghName[r] > ghRun.cursor /\ (more => ghName[r] <= cursor) => r \in ListedIds(nodes)
    BY <2>2, <2>3
  <2>5. cursor \in Nat /\ total \in Nat /\ GHRunShape(ghRun) /\ ghRun.cursor \in Nat
    <3>1. ghRun.cursor \in Nat /\ total \in Nat
      BY GHFacts, FS_CardinalityType DEF GHRunShape
    <3>2. more => page[GHPageSize] \in GHIds
      BY <2>2, GHFacts
    <3> QED
      BY <3>1, <3>2, GHFacts DEF GHWorldTrue
  <2> DEFINE at == IF more THEN "listing" ELSE "listed"
  <2>6. ghRun' = [ghRun EXCEPT !.at = at, !.try = 0, !.total = total, !.nodes = nodes, !.cursor = cursor]
    BY <2>2
  <2>17. at \in GHStages
    BY DEF GHStages
  <2> HIDE DEF nodes, cursor, total, at
  <2>18. /\ GHRunShape(ghRun') /\ ghRun'.at = at /\ ghRun'.nodes = nodes
         /\ ghRun'.inv = ghRun.inv /\ ghRun'.values = ghRun.values /\ ghRun'.page = ghRun.page
         /\ ghRun'.rules = ghRun.rules /\ ghRun'.cursor = cursor /\ ghRun'.total = total
    BY <2>3, <2>5, <2>6, <2>17 DEF GHRunShape
  <2>7. /\ GHRunShape(ghRun') /\ ghRun'.at = (IF more THEN "listing" ELSE "listed") /\ ghRun'.nodes = nodes
        /\ ghRun'.inv = ghRun.inv /\ ghRun'.values = ghRun.values /\ ghRun'.page = ghRun.page
        /\ ghRun'.rules = ghRun.rules /\ ghRun'.cursor = cursor /\ ghRun'.total = total
    BY <2>18 DEF at
  <2>8. GHListTrue(ghRun', ghPast)
    BY <2>3, <2>7, GHFacts DEF GHListTrue, GHHeld
  <2>9. ghRun'.values = {} /\ ghRun'.page = 1
    BY <2>1, <2>7, GHFacts DEF GHValuesTrue
  <2>10. GHInv'
    BY <2>1, <2>7, <2>8, <2>9, GHListingSteps
  <2>11. Existing' = Existing
    BY <2>1 DEF Existing
  <2>12. ASSUME ghPast.renamed = FALSE, NEW r \in ghPast.lasting, more => ghName[r] <= cursor
         PROVE  r \in ListedIds(nodes)
    <3>1. r \in Existing /\ ghName[r] \in Nat
      BY GHFacts DEF GHWorldTrue
    <3>2. CASE ghName[r] <= ghRun.cursor
      BY <2>1, <2>3, <2>12, <3>2 DEF GHCovers, GHCovered
    <3>3. CASE ghName[r] > ghRun.cursor
      BY <2>4, <2>12, <3>1, <3>3
    <3> QED
      BY <2>5, <3>1, <3>2, <3>3
  <2>13. ghPast.deleted = FALSE => ListedIds(nodes) \subseteq Existing
    BY <2>1, <2>3 DEF GHCovers, GHCovered
  <2>14. ASSUME ghPast.created = FALSE
         PROVE  \E first \in SUBSET GHIds : /\ Cardinality(first) = total /\ Existing \subseteq first
                                            /\ ListedIds(nodes) \subseteq first
    <3>1. CASE ghRun.nodes = <<>> /\ ghRun.cursor = 0
      <4>1. ListedIds(ghRun.nodes) = {}
        BY <3>1 DEF ListedIds
      <4> QED
        BY <2>3, <4>1, GHFacts DEF total
    <3>2. CASE ~(ghRun.nodes = <<>> /\ ghRun.cursor = 0)
      <4>1. PICK first \in SUBSET GHIds : /\ Cardinality(first) = ghRun.total /\ Existing \subseteq first
                                          /\ ListedIds(ghRun.nodes) \subseteq first
        BY <2>1, <2>14, <3>2 DEF GHCovers, GHCovered
      <4>2. Cardinality(first) = total /\ ListedIds(nodes) \subseteq first
        BY <2>3, <2>4, <3>2, <4>1
      <4> QED
        BY <4>1, <4>2
    <3> QED
      BY <3>1, <3>2
  <2>15. CASE more
    <3>1. ghRun'.at = "listing"
      BY <2>7, <2>15
    <3> QED
      BY <2>1, <2>7, <2>10, <2>11, <2>12, <2>13, <2>14, <3>1 DEF GHCovers, GHCovered
  <2>16. CASE ~more
    <3>1. ghRun'.at = "listed"
      BY <2>7, <2>16
    <3>2. Len(nodes) = total
      BY <2>4, <2>16
    <3>3. ASSUME NEW all, all \subseteq GHIds, Cardinality(all) = total, Existing \subseteq all,
                 ListedIds(nodes) \subseteq all, ~ListsTwice(nodes)
          PROVE  ghPast.lasting \subseteq ListedIds(nodes)
      <4>1. IsFiniteSet(all)
        BY <3>3, GitHubAssumption, FS_Subset
      <4>2. \A i \in DOMAIN nodes : nodes[i].id \in all
        BY <3>3 DEF ListedIds
      <4>3. Len(nodes) >= Cardinality(all)
        BY <2>5, <3>2, <3>3
      <4>4. all \subseteq ListedIds(nodes)
        BY <2>3, <3>3, <4>1, <4>2, <4>3, LongEnough
      <4> QED
        BY <3>3, <4>4, GHFacts
    <3>4. \/ ghPast.lasting \subseteq ListedIds(nodes) \/ ListsTwice(nodes)
          \/ ghPast.renamed # FALSE /\ ghPast.deleted # FALSE /\ ghPast.created # FALSE
      <4>1. ghPast.renamed = FALSE => ghPast.lasting \subseteq ListedIds(nodes)
        BY <2>12, <2>16
      <4>2. ghPast.deleted = FALSE /\ ~ListsTwice(nodes) => ghPast.lasting \subseteq ListedIds(nodes)
        BY <2>13, <3>3, GHFacts DEF total
      <4>3. ghPast.created = FALSE /\ ~ListsTwice(nodes) => ghPast.lasting \subseteq ListedIds(nodes)
        BY <2>14, <3>3
      <4> QED
        BY <4>1, <4>2, <4>3
    <3>5. ghPast.lasting \subseteq ListedIds(nodes) \/ ListsTwice(nodes) \/ GHAllThree(ghPast)
      <4>1. ghPast.renamed \in BOOLEAN /\ ghPast.deleted \in BOOLEAN /\ ghPast.created \in BOOLEAN
        BY GHFacts DEF GHPastShape
      <4> QED
        BY <3>4, <4>1 DEF GHAllThree
    <3> QED
      BY <2>1, <2>7, <2>10, <3>1, <3>5 DEF GHCovers, GHCovered
  <2> QED
    BY <2>15, <2>16
<1> QED
  BY <1>1, <1>2

(* The list becomes repositories.                                          *)

LEMMA GHMapped ==
    ASSUME NEW S, NEW nodes \in Seq(S), NEW odd, NEW run, run.inv = Mapped(nodes, odd)
    PROVE  /\ GHHeld(run) \subseteq {nodes[i] : i \in DOMAIN nodes}
           /\ run.inv.failures = {} => ~ListsTwice(nodes) /\ GHHeldIds(run) = ListedIds(nodes)
<1> DEFINE bad == odd \cup Repeated(nodes, odd)
           good == {nodes[i] : i \in DOMAIN nodes \ bad}
<1>1. /\ run.inv.repos = {n \in good : n.id \notin GHArchived}
      /\ run.inv.excluded = {n \in good : n.id \in GHArchived}
      /\ run.inv.failures = bad
  BY DEF Mapped
<1>2. GHHeld(run) = good
  BY <1>1 DEF GHHeld
<1>3. ASSUME bad = {} PROVE ~ListsTwice(nodes) /\ GHHeldIds(run) = ListedIds(nodes)
  <2>1. good = {nodes[i] : i \in DOMAIN nodes}
    BY <1>3
  <2>2. GHHeldIds(run) = ListedIds(nodes)
    BY <1>2, <2>1 DEF GHHeldIds, ListedIds
  <2>3. ASSUME NEW i \in DOMAIN nodes, NEW j \in DOMAIN nodes, i < j, nodes[i].id = nodes[j].id PROVE FALSE
    <3>1. i \in 1 .. j - 1
      BY <2>3
    <3>2. i \notin odd
      BY <1>3
    <3>3. j \in Repeated(nodes, odd)
      BY <2>3, <3>1, <3>2 DEF Repeated
    <3> QED
      BY <1>3, <3>3
  <2> QED
    BY <2>2, <2>3 DEF ListsTwice
<1> QED
  BY <1>1, <1>2, <1>3

LEMMA GHMapsTrue == ASSUME GHInv, GHCovers, GHMaps PROVE GHInv' /\ GHCovers'
<1>1. ghRun.at = "listed" /\ UNCHANGED <<ghName, ghChosen, ghRules, ghPast>>
  BY DEF GHMaps
<1>2. PICK odd : ghRun' = [GHNoRun EXCEPT !.at = "schema", !.inv = Mapped(ghRun.nodes, odd)]
  BY DEF GHMaps
<1> DEFINE inv == Mapped(ghRun.nodes, odd)
<1>3. ghRun' = [GHNoRun EXCEPT !.at = "schema", !.inv = inv]
  BY <1>2
<1>4. ghRun.nodes \in Seq(GHNodes) /\ \A i \in DOMAIN ghRun.nodes : GHNodeTrue(ghPast, ghRun.nodes[i])
  BY GHFacts DEF GHRunShape, GHListTrue
<1> HIDE DEF inv
<1>5. /\ ghRun'.at = "schema" /\ ghRun'.nodes = <<>> /\ ghRun'.inv = inv /\ ghRun'.values = {}
      /\ ghRun'.page = 1 /\ ghRun'.rules = NoRules
  BY <1>3 DEF GHNoRun, NoRules
<1>6. GHRunShape(ghRun')
  <2> DEFINE none == GHNoRun
  <2>1. GHRunShape(none) /\ none = GHNoRun
    BY GHNoRunShape
  <2>2. none.at = "idle" /\ none = [none EXCEPT !.inv = none.inv] /\ "schema" \in GHStages
    BY DEF GHNoRun, GHStages
  <2>3. ghRun' = [none EXCEPT !.at = "schema", !.inv = inv]
    BY <1>3
  <2> HIDE DEF none
  <2> QED
    BY <2>1, <2>2, <2>3 DEF GHRunShape
<1>7. /\ GHHeld(ghRun') \subseteq {ghRun.nodes[i] : i \in DOMAIN ghRun.nodes}
      /\ ghRun'.inv.failures = {} =>
           ~ListsTwice(ghRun.nodes) /\ GHHeldIds(ghRun') = ListedIds(ghRun.nodes)
  <2>1. ghRun'.inv = Mapped(ghRun.nodes, odd)
    BY <1>5 DEF inv
  <2> QED
    BY <1>4, <2>1, GHMapped
<1>8. GHListTrue(ghRun', ghPast)
  <2>1. DOMAIN ghRun'.nodes = {}
    BY <1>5
  <2> QED
    BY <1>4, <1>7, <2>1 DEF GHListTrue
<1>9. GHInv'
  BY <1>1, <1>5, <1>6, <1>8, GHListingSteps
<1>10. ghRun'.inv.failures = {} => ghPast.lasting \subseteq GHHeldIds(ghRun') \/ GHAllThree(ghPast)
  BY <1>1, <1>7 DEF GHCovers, GHCovered
<1>11. GHCovers'
  BY <1>1, <1>5, <1>10 DEF GHCovers, GHCovered, GHHeldIds, GHHeld
<1> QED
  BY <1>9, <1>11

(* The controls: the inventory stays as it is.                             *)

LEMMA GHReadSteps ==
    ASSUME GHInv, UNCHANGED <<ghName, ghChosen, ghRules, ghPast>>,
           ghRun.at \in {"schema", "values", "rules", "details", "workflows"},
           ghRun'.at \in {"values", "rules", "details", "workflows", "read"},
           GHRunShape(ghRun'), ghRun'.nodes = ghRun.nodes, ghRun'.inv = ghRun.inv,
           GHValuesTrue(ghRun', ghPast), GHRulesTrue(ghRun', ghPast)
    PROVE  GHInv' /\ (GHCovers => GHCovers')
<1>1. GHListTrue(ghRun', ghPast)
  BY GHFacts DEF GHListTrue, GHHeld
<1>2. GHDoneTrue(ghRun', ghPast)
  BY DEF GHDoneTrue
<1>3. GHCovers => GHCovers'
  BY DEF GHCovers, GHCovered, GHHeldIds, GHHeld
<1> QED
  BY <1>1, <1>2, <1>3, GHRunSteps

\* Rules known stay known until their reading ends.
LEMMA GHRulesUnread ==
    ASSUME GHInv, ghRun.at \in {"schema", "values"}, ghRun'.at \in {"values", "rules"}, ghRun'.rules = ghRun.rules
    PROVE  GHRulesTrue(ghRun', ghPast)
<1>1. \A k \in GHGood : GHSeen(ghRun, k) => GHSeen(ghRun', k)
  BY DEF GHSeen
<1>2. \A k \in GHGood : ghRules[k] = "active" => GHSeen(ghRun', k)
  BY DEF GHSeen
<1> QED
  BY <1>1, <1>2, GHFacts DEF GHRulesTrue

LEMMA GHSchemaTrue == ASSUME GHInv, NEW usable \in BOOLEAN, GHSchema(usable) PROVE GHInv' /\ (GHCovers => GHCovers')
<1>1. /\ ghRun.at = "schema" /\ UNCHANGED <<ghName, ghChosen, ghRules, ghPast>>
      /\ ghRun' = [ghRun EXCEPT !.at = "values", !.try = 0, !.schema = usable] /\ GHRunShape(ghRun)
  BY GHFacts DEF GHSchema, World
<1>2. /\ GHRunShape(ghRun') /\ ghRun'.at = "values" /\ ghRun'.nodes = ghRun.nodes /\ ghRun'.inv = ghRun.inv
      /\ ghRun'.values = ghRun.values /\ ghRun'.page = ghRun.page /\ ghRun'.rules = ghRun.rules
  BY <1>1 DEF GHRunShape, GHStages
<1>3. ghRun'.values = {} /\ ghRun'.page = 1
  BY <1>1, <1>2, GHFacts DEF GHValuesTrue
<1>4. \A r \in ghPast.lasting : ~(Cardinality(GHBefore(r)) < (ghRun'.page - 1) * GHPageSize)
  <2> TAKE r \in ghPast.lasting
  <2>1. GHBefore(r) \subseteq Existing
    BY DEF GHBefore
  <2>2. Cardinality(GHBefore(r)) \in Nat
    BY <2>1, GHFacts, FS_Subset, FS_CardinalityType
  <2>3. (ghRun'.page - 1) * GHPageSize = 0
    BY <1>3, GitHubAssumption
  <2> QED
    BY <2>2, <2>3
<1>5. GHValuesTrue(ghRun', ghPast)
  BY <1>2, <1>3, <1>4 DEF GHValuesTrue
<1>6. GHRulesTrue(ghRun', ghPast)
  BY <1>1, <1>2, GHRulesUnread
<1> QED
  BY <1>1, <1>2, <1>5, <1>6, GHReadSteps

LEMMA GHNoValues ==
    ASSUME NEW run, NEW past, run.values = {}, run.page = 1, run.prop # "ok" PROVE GHValuesTrue(run, past)
  BY DEF GHValuesTrue

LEMMA GHPropertiesFailTrue ==
    ASSUME GHInv, NEW status \in {"failed", "unsupported"}, GHPropertiesFail(status)
    PROVE  GHInv' /\ (GHCovers => GHCovers')
<1>1. /\ ghRun.at \in {"schema", "values"} /\ UNCHANGED <<ghName, ghChosen, ghRules, ghPast>>
      /\ ghRun' = [ghRun EXCEPT !.at = "rules", !.try = 0, !.prop = status, !.values = {}, !.page = 1]
      /\ GHRunShape(ghRun)
  BY GHFacts DEF GHPropertiesFail
<1>4. status \in GHStates /\ status # "ok" /\ 1 \in Nat \ {0} /\ {} \in SUBSET [name : Nat, chosen : BOOLEAN]
  BY DEF GHStates
<1>2. /\ GHRunShape(ghRun') /\ ghRun'.at = "rules" /\ ghRun'.nodes = ghRun.nodes /\ ghRun'.inv = ghRun.inv
      /\ ghRun'.values = {} /\ ghRun'.page = 1 /\ ghRun'.rules = ghRun.rules /\ ghRun'.prop # "ok"
  BY <1>1, <1>4 DEF GHRunShape, GHStages
<1>3. GHValuesTrue(ghRun', ghPast) /\ GHRulesTrue(ghRun', ghPast)
  <2>1. GHValuesTrue(ghRun', ghPast)
    BY <1>2, GHNoValues
  <2>2. GHRulesTrue(ghRun', ghPast)
    BY <1>1, <1>2, GHRulesUnread
  <2> QED
    BY <2>1, <2>2
<1> QED
  BY <1>1, <1>2, <1>3, GHReadSteps

\* The place of a repository in the order of ids.
LEMMA GHRank ==
    ASSUME GHInv, NEW all \in InOrder(Existing, [r \in GHIds |-> r])
    PROVE  /\ all \in Seq(Existing)
           /\ \A r \in Existing : \E i \in 1 .. Len(all) : all[i] = r
           /\ \A i \in 1 .. Len(all) : Cardinality(GHBefore(all[i])) = i - 1
<1>1. Existing \subseteq GHIds /\ GHIds \subseteq Nat
  BY GHFacts, GitHubAssumption
<1>2. PICK key : all \in InOrder(Existing, key) /\ \A r \in GHIds : key[r] = r
  OBVIOUS
<1>7. \A p \in Existing : \E i \in 1 .. Len(all) : all[i] = p
  <2> DEFINE ids == Existing
  <2>1. ids \subseteq GHIds /\ all \in InOrder(ids, key)
    BY <1>1, <1>2
  <2> HIDE DEF ids
  <2>2. \A p \in ids : \E i \in 1 .. Len(all) : all[i] = p
    BY <2>1, GHInOrderFinds
  <2> QED
    BY <2>2 DEF ids
<1>9. all \in Seq(Existing)
  BY <1>1, <1>2, GHInOrderHas
<1>8. \A i, j \in 1 .. Len(all) : i < j => key[all[i]] < key[all[j]]
  BY <1>1, <1>2, GHInOrderHas
<1>3. /\ all \in Seq(Existing) /\ \A r \in Existing : \E i \in 1 .. Len(all) : all[i] = r
      /\ \A i, j \in 1 .. Len(all) : i < j => key[all[i]] < key[all[j]]
  BY <1>7, <1>8, <1>9
<1>4. Len(all) \in Nat /\ \A i \in 1 .. Len(all) : all[i] \in Existing /\ all[i] \in Nat
  <2>1. Len(all) \in Nat /\ \A i \in 1 .. Len(all) : all[i] \in Existing
    BY <1>3
  <2> QED
    BY <1>1, <2>1
<1>5. \A i, j \in 1 .. Len(all) : i < j => all[i] < all[j]
  BY <1>1, <1>2, <1>3, <1>4
<1>6. ASSUME NEW i \in 1 .. Len(all) PROVE Cardinality(GHBefore(all[i])) = i - 1
  <2> DEFINE f == [j \in 1 .. i - 1 |-> all[j]]
  <2>1. i - 1 \in Nat /\ \A j \in 1 .. i - 1 : j \in 1 .. Len(all) /\ j < i
    BY <1>4
  <2>2. \A j \in 1 .. i - 1 : all[j] \in GHBefore(all[i])
    BY <1>4, <1>5, <2>1 DEF GHBefore
  <2>3. f \in [1 .. i - 1 -> GHBefore(all[i])]
    BY <2>2
  <2>4. \A j, k \in 1 .. i - 1 : f[j] = f[k] => j = k
    <3> SUFFICES ASSUME NEW j \in 1 .. i - 1, NEW k \in 1 .. i - 1, all[j] = all[k] PROVE j = k
      OBVIOUS
    <3>1. ~(j < k) /\ ~(k < j)
      BY <1>4, <1>5, <2>1
    <3> QED
      BY <2>1, <3>1
  <2>5. ASSUME NEW q \in GHBefore(all[i]) PROVE \E j \in 1 .. i - 1 : f[j] = q
    <3>1. q \in Existing /\ q < all[i] /\ q \in Nat
      BY <1>1, <2>5 DEF GHBefore
    <3>2. PICK j \in 1 .. Len(all) : all[j] = q
      BY <1>3, <3>1
    <3>3. ~(i < j) /\ i # j
      BY <1>4, <1>5, <3>1, <3>2
    <3>4. j \in 1 .. i - 1
      BY <2>1, <3>3
    <3> QED
      BY <3>2, <3>4
  <2> HIDE DEF f
  <2>6. f \in Bijection(1 .. i - 1, GHBefore(all[i]))
    BY <2>3, <2>4, <2>5 DEF Bijection, Injection, Surjection, IsInjective
  <2>7. IsFiniteSet(1 .. i - 1) /\ Cardinality(1 .. i - 1) = i - 1
    BY <2>1, FS_Interval
  <2>8. Cardinality(1 .. i - 1) = Cardinality(GHBefore(all[i]))
    <3> DEFINE before == GHBefore(all[i])
    <3>1. f \in Bijection(1 .. i - 1, before) /\ IsFiniteSet(1 .. i - 1)
      BY <2>6, <2>7
    <3> HIDE DEF before
    <3>2. Cardinality(1 .. i - 1) = Cardinality(before)
      BY <3>1, FS_Bijection DEF ExistsBijection
    <3> QED
      BY <3>2 DEF before
  <2> QED
    BY <2>7, <2>8
<1> QED
  BY <1>3, <1>6

\* A page of the assignments: those of the repositories after the pages
\* before, and of all of them when it is the last one.
LEMMA GHPropertyPageHas ==
    ASSUME GHInv, NEW all \in InOrder(Existing, [r \in GHIds |-> r])
    PROVE  LET page == PropertyPage(all)
               from == (ghRun.page - 1) * GHPageSize
           IN  /\ page \in Seq(Existing) /\ from \in Nat
               /\ \A r \in Existing :
                    \/ Cardinality(GHBefore(r)) < from
                    \/ \E i \in 1 .. Len(page) : page[i] = r
                    \/ Len(page) = GHPageSize /\ ~(Cardinality(GHBefore(r)) < from + GHPageSize)
<1> DEFINE page == PropertyPage(all)  from == (ghRun.page - 1) * GHPageSize
<1>1. from \in Nat /\ GHPageSize \in Nat \ {0}
  <2>1. ghRun.page - 1 \in Nat /\ GHPageSize \in Nat \ {0}
    BY GHFacts, GitHubAssumption DEF GHRunShape
  <2>2. \A m, n \in Nat : m * n \in Nat
    OBVIOUS
  <2> QED
    BY <2>1, <2>2
<1>2. /\ all \in Seq(Existing) /\ \A r \in Existing : \E i \in 1 .. Len(all) : all[i] = r
      /\ \A i \in 1 .. Len(all) : Cardinality(GHBefore(all[i])) = i - 1
  BY GHRank
<1>3. page = Page(all, from, GHPageSize)
  BY DEF PropertyPage
<1> HIDE DEF page, from
<1>4. /\ page \in Seq(Existing)
      /\ Len(page) = IF from > Len(all) THEN 0 ELSE IF from + GHPageSize < Len(all) THEN GHPageSize ELSE Len(all) - from
  <2>1. from \in Nat /\ all \in Seq(Existing)
    BY <1>1, <1>2
  <2>2. Page(all, from, GHPageSize) \in Seq(Existing)
    BY <2>1, GHPageHas
  <2>3. Len(Page(all, from, GHPageSize)) = IF from > Len(all) THEN 0
          ELSE IF from + GHPageSize < Len(all) THEN GHPageSize ELSE Len(all) - from
    BY <2>1, GHPageHas
  <2> QED
    BY <1>3, <2>2, <2>3
<1>5. \A i \in 1 .. Len(page) : page[i] = all[from + i]
  <2>3. from \in Nat /\ all \in Seq(Existing)
    BY <1>1, <1>2
  <2>1. \A i \in 1 .. Len(Page(all, from, GHPageSize)) : Page(all, from, GHPageSize)[i] = all[from + i]
    BY <2>3, GHPageHas
  <2> QED
    BY <1>3, <2>1
<1>6. ASSUME NEW r \in Existing
      PROVE  \/ Cardinality(GHBefore(r)) < from
             \/ \E i \in 1 .. Len(page) : page[i] = r
             \/ Len(page) = GHPageSize /\ ~(Cardinality(GHBefore(r)) < from + GHPageSize)
  <2>1. PICK i \in 1 .. Len(all) : all[i] = r
    BY <1>2
  <2>2. Cardinality(GHBefore(r)) = i - 1 /\ i \in Nat /\ Len(all) \in Nat /\ i <= Len(all) /\ Len(page) \in Nat
    <3>1. Len(all) \in Nat /\ Len(page) \in Nat
      <4>1. all \in Seq(Existing) /\ page \in Seq(Existing)
        BY <1>2, <1>4
      <4> QED
        BY <4>1
    <3>2. Cardinality(GHBefore(all[i])) = i - 1
      BY <1>2
    <3> QED
      BY <2>1, <3>1, <3>2
  <2>3. CASE i <= from
    BY <1>1, <2>2, <2>3
  <2>4. CASE i > from
    <3>1. from + (i - from) = i /\ i - from \in Nat \ {0}
      BY <1>1, <2>2, <2>4
    <3>2. CASE i - from <= Len(page)
      <4>1. i - from \in 1 .. Len(page)
        BY <2>2, <3>1, <3>2
      <4>2. page[i - from] = r
        BY <1>5, <2>1, <3>1, <4>1
      <4> QED
        BY <4>1, <4>2
    <3>3. CASE i - from > Len(page)
      BY <1>1, <1>4, <2>2, <2>4, <3>3
    <3> QED
      BY <2>2, <3>1, <3>2, <3>3
  <2> QED
    BY <1>1, <2>2, <2>3, <2>4
<1> QED
  BY <1>1, <1>4, <1>6 DEF page, from

LEMMA GHValuesSteps == ASSUME GHInv, GHValues PROVE GHInv' /\ (GHCovers => GHCovers')
<1>1. ghRun.at = "values" /\ UNCHANGED <<ghName, ghChosen, ghRules, ghPast>> /\ GHRunShape(ghRun)
  BY GHFacts DEF GHValues, World
<1>2. PICK all \in InOrder(Existing, [r \in GHIds |-> r]) :
        LET page == PropertyPage(all)
            taken == {[name |-> ghName[page[i]], chosen |-> page[i] \in ghChosen] : i \in DOMAIN page}
            names == {v.name : v \in ghRun.values}
            more == Len(page) = GHPageSize
        IN ghRun' = CASE \E v \in taken : v.name \in names ->
                           [ghRun EXCEPT !.at = "rules", !.try = 0, !.prop = "failed", !.values = {}, !.page = 1]
                      [] OTHER ->
                           [ghRun EXCEPT !.at = IF more THEN "values" ELSE "rules", !.try = 0,
                              !.values = @ \cup taken, !.page = IF more THEN @ + 1 ELSE 1]
  BY DEF GHValues
<1> DEFINE page == PropertyPage(all)
           taken == {[name |-> ghName[page[i]], chosen |-> page[i] \in ghChosen] : i \in DOMAIN page}
           more == Len(page) = GHPageSize
           at == IF more THEN "values" ELSE "rules"
           values == ghRun.values \cup taken
           next == IF more THEN ghRun.page + 1 ELSE 1
           from == (ghRun.page - 1) * GHPageSize
           refused == [ghRun EXCEPT !.at = "rules", !.try = 0, !.prop = "failed", !.values = {}, !.page = 1]
           on == [ghRun EXCEPT !.at = at, !.try = 0, !.values = values, !.page = next]
<1>3. ghRun' = refused \/ ghRun' = on
  <2> DEFINE names == {v.name : v \in ghRun.values}
  <2>1. ghRun' = CASE \E v \in taken : v.name \in names -> refused [] OTHER -> on
    BY <1>2
  <2> HIDE DEF taken, names, refused, on
  <2> QED
    BY <2>1
<1>4. /\ page \in Seq(Existing) /\ from \in Nat
      /\ \A r \in Existing :
           \/ Cardinality(GHBefore(r)) < from
           \/ \E i \in 1 .. Len(page) : page[i] = r
           \/ Len(page) = GHPageSize /\ ~(Cardinality(GHBefore(r)) < from + GHPageSize)
  BY GHPropertyPageHas
<1>5. DOMAIN page = 1 .. Len(page) /\ \A i \in 1 .. Len(page) : page[i] \in Existing
  BY <1>4
<1> HIDE DEF page
<1>6. \A v \in taken : \E q \in Existing : v.name = ghName[q] /\ v.chosen = (q \in ghChosen)
  BY <1>5
<1>7. taken \subseteq [name : Nat, chosen : BOOLEAN]
  <2>1. ASSUME NEW i \in 1 .. Len(page)
        PROVE  [name |-> ghName[page[i]], chosen |-> page[i] \in ghChosen] \in [name : Nat, chosen : BOOLEAN]
    <3>1. ghName[page[i]] \in Nat
      BY <1>5, <2>1, GHFacts DEF GHWorldTrue
    <3>2. (page[i] \in ghChosen) \in BOOLEAN
      OBVIOUS
    <3> QED
      BY <3>1, <3>2
  <2> QED
    BY <1>5, <2>1
<1>8. \A i \in 1 .. Len(page) : \E v \in taken : v.name = ghName[page[i]]
  <2> TAKE i \in 1 .. Len(page)
  <2>1. [name |-> ghName[page[i]], chosen |-> page[i] \in ghChosen] \in taken
    BY <1>5
  <2>2. [name |-> ghName[page[i]], chosen |-> page[i] \in ghChosen].name = ghName[page[i]]
    OBVIOUS
  <2> QED
    BY <2>1, <2>2
<1> HIDE DEF taken
<1>9. CASE ghRun' = refused
  <2>1. /\ "rules" \in GHStages /\ "failed" \in GHStates /\ 1 \in Nat \ {0}
        /\ {} \in SUBSET [name : Nat, chosen : BOOLEAN]
    BY DEF GHStages, GHStates
  <2>a. GHRunShape(ghRun')
    BY <1>1, <1>9, <2>1 DEF GHRunShape
  <2>b. /\ ghRun'.at = "rules" /\ ghRun'.nodes = ghRun.nodes /\ ghRun'.inv = ghRun.inv
        /\ ghRun'.values = {} /\ ghRun'.page = 1 /\ ghRun'.rules = ghRun.rules /\ ghRun'.prop # "ok"
    BY <1>1, <1>9 DEF GHRunShape
  <2>2. /\ GHRunShape(ghRun') /\ ghRun'.at = "rules" /\ ghRun'.nodes = ghRun.nodes /\ ghRun'.inv = ghRun.inv
        /\ ghRun'.values = {} /\ ghRun'.page = 1 /\ ghRun'.rules = ghRun.rules /\ ghRun'.prop # "ok"
    BY <2>a, <2>b
  <2>3. GHValuesTrue(ghRun', ghPast)
    BY <2>2, GHNoValues
  <2>4. GHRulesTrue(ghRun', ghPast)
    BY <1>1, <2>2, GHRulesUnread
  <2> QED
    BY <1>1, <2>2, <2>3, <2>4, GHReadSteps
<1>10. CASE ghRun' = on
  <2>1. at \in GHStages /\ at \in {"values", "rules"}
    BY DEF GHStages
  <2>2. ghRun.page \in Nat \ {0} /\ ghRun.values \subseteq [name : Nat, chosen : BOOLEAN]
    BY <1>1 DEF GHRunShape
  <2>3. next \in Nat \ {0} /\ values \in SUBSET [name : Nat, chosen : BOOLEAN]
    BY <1>7, <2>2
  <2> HIDE DEF next, values, at
  <2>4. /\ GHRunShape(ghRun') /\ ghRun'.at = at /\ ghRun'.nodes = ghRun.nodes /\ ghRun'.inv = ghRun.inv
        /\ ghRun'.values = values /\ ghRun'.page = next /\ ghRun'.rules = ghRun.rules /\ ghRun'.prop = ghRun.prop
    BY <1>1, <1>10, <2>1, <2>3 DEF GHRunShape
  <2>5. ASSUME ghPast.renamed = FALSE, NEW v \in values, NEW r \in ghPast.lasting, v.name = ghName[r]
        PROVE  IF v.chosen = TRUE THEN r \in ghPast.chosen ELSE r \in ghPast.unchosen
    <3>1. CASE v \in ghRun.values
      BY <2>5, <3>1, GHFacts DEF GHValuesTrue
    <3>2. CASE v \in taken
      <4>1. PICK q \in Existing : v.name = ghName[q] /\ v.chosen = (q \in ghChosen)
        BY <1>6, <3>2
      <4>2. q = r
        BY <2>5, <4>1, GHFacts DEF GHWorldTrue
      <4>3. IF r \in ghChosen THEN r \in ghPast.chosen ELSE r \in ghPast.unchosen
        BY <1>1, <2>5, GHFacts DEF GHPastTrue
      <4> QED
        BY <4>1, <4>2, <4>3
    <3> QED
      BY <2>5, <3>1, <3>2 DEF values
  <2>6. ASSUME ghPast.renamed = FALSE, ghPast.deleted = FALSE, ghRun.prop = "ok", NEW r \in ghPast.lasting,
               more => Cardinality(GHBefore(r)) < from + GHPageSize
        PROVE  \E v \in values : v.name = ghName[r]
    <3>1. r \in Existing
      BY <2>6, GHFacts
    <3>2. CASE Cardinality(GHBefore(r)) < from
      <4>1. \E v \in ghRun.values : v.name = ghName[r]
        BY <1>1, <2>6, <3>2, GHFacts DEF GHValuesTrue, GHAssigned
      <4> QED
        BY <4>1 DEF values
    <3>3. CASE \E i \in 1 .. Len(page) : page[i] = r
      BY <1>8, <3>3 DEF values
    <3> QED
      BY <1>4, <2>6, <3>1, <3>2, <3>3
  <2>7. more => at = "values" /\ (ghRun'.page - 1) * GHPageSize = from + GHPageSize
    <3> SUFFICES ASSUME more PROVE at = "values" /\ (ghRun'.page - 1) * GHPageSize = from + GHPageSize
      OBVIOUS
    <3>1. ghRun'.page = ghRun.page + 1 /\ at = "values"
      BY <2>4 DEF next, at
    <3>2. \A p, n \in Nat : (p + 1 - 1) * n = (p - 1) * n + n
      OBVIOUS
    <3>3. ghRun.page \in Nat /\ GHPageSize \in Nat
      BY <2>2, GitHubAssumption
    <3> QED
      BY <3>1, <3>2, <3>3
  <2>8. ~more => at = "rules"
    BY DEF at
  <2>9. GHValuesTrue(ghRun', ghPast)
    <3>1. ASSUME ghPast.renamed = FALSE, ghPast.deleted = FALSE, ghRun'.prop = "ok", NEW r \in ghPast.lasting
          PROVE  /\ ghRun'.at = "values" /\ Cardinality(GHBefore(r)) < (ghRun'.page - 1) * GHPageSize =>
                      GHAssigned(ghRun', r)
                 /\ ghRun'.at \in {"rules", "details", "workflows", "read"} => GHAssigned(ghRun', r)
      <4>1. GHAssigned(ghRun', r) <=> \E v \in values : v.name = ghName[r]
        BY <2>4 DEF GHAssigned
      <4> HIDE DEF more, from
      <4>2. CASE more
        <5>1. ghRun'.at = "values" /\ (ghRun'.page - 1) * GHPageSize = from + GHPageSize
          BY <2>4, <2>7, <4>2
        <5> QED
          BY <2>4, <2>6, <3>1, <4>1, <5>1
      <4>3. CASE ~more
        BY <2>4, <2>6, <3>1, <4>1, <4>3
      <4> QED
        BY <4>2, <4>3
    <3> QED
      BY <2>1, <2>4, <2>5, <3>1 DEF GHValuesTrue
  <2>10. GHRulesTrue(ghRun', ghPast)
    BY <1>1, <2>1, <2>4, GHRulesUnread
  <2> QED
    BY <1>1, <2>1, <2>4, <2>9, <2>10, GHReadSteps
<1> QED
  BY <1>3, <1>9, <1>10

(* The rulesets, one after the other.                                      *)

LEMMA GHRulesetListTrue == ASSUME GHInv, GHRulesetList PROVE GHInv' /\ (GHCovers => GHCovers')
<1> DEFINE found == {k \in GHRuleIds : ghRules[k] # "absent"}
           at == IF found = {} THEN "workflows" ELSE "details"
<1>1. /\ ghRun.at = "rules" /\ UNCHANGED <<ghName, ghChosen, ghRules, ghPast>> /\ GHRunShape(ghRun)
      /\ ghRun' = [ghRun EXCEPT !.at = at, !.try = 0, !.summaries = found]
  BY GHFacts DEF GHRulesetList, World
<1>2. at \in GHStages /\ at \in {"workflows", "details"} /\ found \subseteq GHRuleIds
  BY DEF GHStages
<1>3. \A k \in GHGood : ghRules[k] = "active" => k \in found /\ at # "workflows"
  BY DEF GHGood
<1> HIDE DEF found, at
<1>4. /\ GHRunShape(ghRun') /\ ghRun'.at = at /\ ghRun'.nodes = ghRun.nodes /\ ghRun'.inv = ghRun.inv
      /\ ghRun'.values = ghRun.values /\ ghRun'.page = ghRun.page /\ ghRun'.prop = ghRun.prop
      /\ ghRun'.rules = ghRun.rules /\ ghRun'.summaries = found
  BY <1>1, <1>2 DEF GHRunShape
<1>5. GHValuesTrue(ghRun', ghPast)
  BY <1>1, <1>2, <1>4, GHFacts DEF GHValuesTrue, GHAssigned
<1>6. GHRulesTrue(ghRun', ghPast)
  <2>1. \A k \in GHGood : ghRules[k] = "active" => GHSeen(ghRun', k)
    BY <1>2, <1>3, <1>4 DEF GHSeen
  <2>2. \A k \in GHGood : GHSeen(ghRun, k) => GHSeen(ghRun', k)
    BY <2>1 DEF GHSeen
  <2> QED
    BY <1>1, <1>4, <2>1, <2>2, GHFacts DEF GHRulesTrue
<1> QED
  BY <1>1, <1>2, <1>4, <1>5, <1>6, GHReadSteps

\* Reading that ended without the rulesets says nothing of them.
LEMMA GHNoRulesets ==
    ASSUME GHInv, UNCHANGED <<ghName, ghChosen, ghRules, ghPast>>, ghRun.at \in {"rules", "details"},
           NEW status \in {"failed", "unsupported"},
           ghRun' = [ghRun EXCEPT !.at = "workflows", !.try = 0, !.rule = status, !.summaries = {}, !.rules = NoRules]
    PROVE  GHInv' /\ (GHCovers => GHCovers')
<1>1. /\ status \in GHStates /\ NoRules \in [GHRuleIds -> GHEnforcements] /\ {} \in SUBSET GHRuleIds
      /\ status # "ok" /\ "workflows" \in GHStages /\ GHRunShape(ghRun)
  BY GHFacts DEF GHStates, NoRules, GHEnforcements, GHStages
<1>2. /\ GHRunShape(ghRun') /\ ghRun'.at = "workflows" /\ ghRun'.nodes = ghRun.nodes /\ ghRun'.inv = ghRun.inv
      /\ ghRun'.values = ghRun.values /\ ghRun'.page = ghRun.page /\ ghRun'.prop = ghRun.prop
      /\ ghRun'.rules = NoRules /\ ghRun'.rule = status
  <2> HIDE DEF NoRules
  <2> QED
    BY <1>1 DEF GHRunShape
<1>3. GHValuesTrue(ghRun', ghPast)
  <2>1. ghRun.prop = "ok" /\ ghPast.renamed = FALSE /\ ghPast.deleted = FALSE =>
          \A r \in ghPast.lasting : GHAssigned(ghRun, r)
    BY GHFacts DEF GHValuesTrue
  <2>2. \A r \in ghPast.lasting : GHAssigned(ghRun, r) <=> GHAssigned(ghRun', r)
    BY <1>2 DEF GHAssigned
  <2> QED
    BY <1>2, <2>1, <2>2, GHFacts DEF GHValuesTrue
<1>4. GHRulesTrue(ghRun', ghPast)
  <2>1. \A k \in GHGood : ghRun'.rules[k] # "active"
    BY <1>2 DEF GHGood, NoRules
  <2>2. \A k \in GHGood : ghRules[k] = "active" => GHSeen(ghRun', k)
    BY <1>1, <1>2 DEF GHSeen
  <2>3. \A k \in GHGood : GHSeen(ghRun, k) => GHSeen(ghRun', k)
    BY <2>2 DEF GHSeen
  <2> QED
    BY <2>1, <2>2, <2>3, GHFacts DEF GHRulesTrue
<1> QED
  BY <1>2, <1>3, <1>4, GHReadSteps

LEMMA GHRulesetsFailTrue ==
    ASSUME GHInv, NEW status \in {"failed", "unsupported"}, GHRulesetsFail(status)
    PROVE  GHInv' /\ (GHCovers => GHCovers')
  BY GHNoRulesets DEF GHRulesetsFail

LEMMA GHRulesetDetailTrue == ASSUME GHInv, GHRulesetDetail PROVE GHInv' /\ (GHCovers => GHCovers')
<1>1. ghRun.at = "details" /\ UNCHANGED <<ghName, ghChosen, ghRules, ghPast>> /\ GHRunShape(ghRun)
  BY GHFacts DEF GHRulesetDetail, World
<1>2. PICK k \in ghRun.summaries :
        ghRun' = IF ghRules[k] = "absent"
                 THEN [ghRun EXCEPT !.at = "workflows", !.try = 0, !.rule = "unsupported",
                         !.summaries = {}, !.rules = NoRules]
                 ELSE [ghRun EXCEPT !.at = IF ghRun.summaries \ {k} = {} THEN "workflows" ELSE "details", !.try = 0,
                         !.summaries = ghRun.summaries \ {k}, !.rules[k] = ghRules[k]]
  BY DEF GHRulesetDetail
<1>3. CASE ghRules[k] = "absent"
  BY <1>1, <1>2, <1>3, GHNoRulesets
<1>4. CASE ghRules[k] # "absent"
  <2> DEFINE rest == ghRun.summaries \ {k}
             at == IF rest = {} THEN "workflows" ELSE "details"
             rules == [ghRun.rules EXCEPT ![k] = ghRules[k]]
  <2>1. ghRun' = [ghRun EXCEPT !.at = at, !.try = 0, !.summaries = rest, !.rules = rules]
    BY <1>2, <1>4
  <2>2. /\ k \in GHRuleIds /\ rest \subseteq GHRuleIds /\ ghRun.rules \in [GHRuleIds -> GHEnforcements]
        /\ ghRules \in [GHRuleIds -> GHEnforcements]
    BY <1>1, GHFacts DEF GHRunShape, GHWorldTrue
  <2>3. /\ rules \in [GHRuleIds -> GHEnforcements] /\ rules[k] = ghRules[k]
        /\ \A j \in GHRuleIds : j # k => rules[j] = ghRun.rules[j]
    BY <2>2
  <2>4. at \in GHStages /\ at \in {"workflows", "details"} /\ (at = "workflows" => rest = {})
    BY DEF GHStages
  <2> HIDE DEF rules, at
  <2>5. /\ GHRunShape(ghRun') /\ ghRun'.at = at /\ ghRun'.nodes = ghRun.nodes /\ ghRun'.inv = ghRun.inv
        /\ ghRun'.values = ghRun.values /\ ghRun'.page = ghRun.page /\ ghRun'.prop = ghRun.prop
        /\ ghRun'.rules = rules /\ ghRun'.rule = ghRun.rule /\ ghRun'.summaries = rest
    <3> HIDE DEF rest
    <3> QED
      BY <1>1, <2>1, <2>2, <2>3, <2>4 DEF GHRunShape
  <2>6. GHValuesTrue(ghRun', ghPast)
    BY <1>1, <2>4, <2>5, GHFacts DEF GHValuesTrue, GHAssigned
  <2>7. \A j \in GHGood : rules[j] = "active" => TRUE \in ghPast.required
    <3> TAKE j \in GHGood
    <3>1. CASE j = k
      <4>1. rules[j] = "active" => Requires(ghRules) = TRUE
        <5>1. rules[j] = "active" => Requires(ghRules)
          BY <2>3, <3>1, GHRequires
        <5>2. Requires(ghRules) \in BOOLEAN
          BY DEF Requires
        <5> QED
          BY <5>1, <5>2
      <4>2. Requires(ghRules) \in ghPast.required
        BY <1>1, GHFacts DEF GHPastTrue
      <4> QED
        BY <4>1, <4>2
    <3>2. CASE j # k
      BY <2>3, <3>2, GHFacts DEF GHRulesTrue, GHGood
    <3> QED
      BY <3>1, <3>2
  <2>8. \A j \in GHGood : GHSeen(ghRun, j) => GHSeen(ghRun', j)
    <3> SUFFICES ASSUME NEW j \in GHGood, GHSeen(ghRun, j) PROVE GHSeen(ghRun', j)
      OBVIOUS
    <3>1. ghRules[j] = "active" /\ (j \in ghRun.summaries \/ ghRun.rules[j] = "active") /\ j \in GHRuleIds
      BY <1>1 DEF GHSeen, GHGood
    <3>2. j \in rest \/ rules[j] = "active"
      BY <2>3, <3>1
    <3> QED
      BY <2>4, <2>5, <3>1, <3>2 DEF GHSeen
  <2>9. GHRulesTrue(ghRun', ghPast)
    <3>1. /\ \A j \in GHGood : ghRun'.rules[j] = "active" => TRUE \in ghPast.required
          /\ ghRun'.at \notin {"idle", "done", "failed"}
      BY <2>4, <2>5, <2>7
    <3> QED
      BY <1>1, <2>8, <3>1, GHFacts DEF GHRulesTrue
  <2> QED
    BY <1>1, <2>4, <2>5, <2>6, <2>9, GHReadSteps
<1> QED
  BY <1>3, <1>4

LEMMA GHWorkflowsTrue == ASSUME GHInv, GHWorkflows PROVE GHInv' /\ (GHCovers => GHCovers')
<1>1. ghRun.at = "workflows" /\ UNCHANGED <<ghName, ghChosen, ghRules, ghPast>> /\ GHRunShape(ghRun)
  BY GHFacts DEF GHWorkflows
<1>2. PICK unread : ghRun' = [ghRun EXCEPT !.at = "read", !.unread = unread]
  <2>1. CASE ghRun' = [ghRun EXCEPT !.at = "read"]
    <3>1. ghRun' = [ghRun EXCEPT !.at = "read", !.unread = ghRun.unread]
      BY <1>1, <2>1 DEF GHRunShape
    <3> QED
      BY <3>1
  <2>2. CASE \E n \in GHHeld(ghRun) : ghRun' = [ghRun EXCEPT !.at = "read", !.unread = {n.id}]
    BY <2>2
  <2> QED
    BY <2>1, <2>2 DEF GHWorkflows
<1>3. /\ GHRunShape(ghRun') /\ ghRun'.at = "read" /\ ghRun'.nodes = ghRun.nodes /\ ghRun'.inv = ghRun.inv
      /\ ghRun'.values = ghRun.values /\ ghRun'.page = ghRun.page /\ ghRun'.prop = ghRun.prop
      /\ ghRun'.rules = ghRun.rules /\ ghRun'.rule = ghRun.rule
  BY <1>1, <1>2 DEF GHRunShape, GHStages
<1>4. GHValuesTrue(ghRun', ghPast)
  BY <1>1, <1>3, GHFacts DEF GHValuesTrue, GHAssigned
<1>5. GHRulesTrue(ghRun', ghPast)
  <2>1. \A k \in GHGood : GHSeen(ghRun, k) => GHSeen(ghRun', k)
    BY <1>1, <1>3 DEF GHSeen
  <2> QED
    BY <1>1, <1>3, <2>1, GHFacts DEF GHRulesTrue
<1> QED
  BY <1>1, <1>3, <1>4, <1>5, GHReadSteps

(* The verdicts: what was read, or would have been seen.                   *)

LEMMA GHPolicyProven ==
    ASSUME GHInv, ghRun.at = "read", NEW r \in ghPast.lasting, ghPast.renamed = FALSE
    PROVE  /\ PolicyOf(ghRun, ghName[r]) = "compliant" => r \in ghPast.chosen
           /\ PolicyOf(ghRun, ghName[r]) = "noncompliant" =>
                r \in ghPast.unchosen \/ ghPast.deleted = TRUE \/ ghRun.schema = FALSE
<1>1. /\ ghRun.prop \in GHStates /\ ghRun.values \subseteq [name : Nat, chosen : BOOLEAN]
      /\ ghPast.deleted \in BOOLEAN /\ ghRun.schema \in BOOLEAN
  BY GHFacts DEF GHRunShape, GHPastShape
<1>2. \A v \in ghRun.values : v.name = ghName[r] =>
        IF v.chosen = TRUE THEN r \in ghPast.chosen ELSE r \in ghPast.unchosen
  BY GHFacts DEF GHValuesTrue
<1>3. ghPast.deleted = FALSE /\ ghRun.prop = "ok" => \E v \in ghRun.values : v.name = ghName[r]
  BY GHFacts DEF GHValuesTrue, GHAssigned
<1>4. PolicyOf(ghRun, ghName[r]) \in {"compliant", "noncompliant"} => ghRun.prop = "ok"
  BY <1>1 DEF PolicyOf, GHStates
<1>5. SelectedIn(ghRun, ghName[r]) \in BOOLEAN
  BY DEF SelectedIn
<1>6. ghRun.prop = "ok" =>
        PolicyOf(ghRun, ghName[r]) = IF SelectedIn(ghRun, ghName[r]) THEN "compliant" ELSE "noncompliant"
  BY DEF PolicyOf
<1>7. SelectedIn(ghRun, ghName[r]) => r \in ghPast.chosen
  BY <1>1, <1>2 DEF SelectedIn
<1>8. ASSUME ~SelectedIn(ghRun, ghName[r]), ghRun.prop = "ok", ghPast.deleted = FALSE, ghRun.schema = TRUE
      PROVE  r \in ghPast.unchosen
  <2>1. PICK v \in ghRun.values : v.name = ghName[r]
    BY <1>3, <1>8
  <2>2. v.chosen # TRUE
    BY <1>8, <2>1 DEF SelectedIn
  <2> QED
    BY <1>2, <2>1, <2>2
<1> QED
  BY <1>1, <1>4, <1>6, <1>7, <1>8

LEMMA GHWorkflowProven ==
    ASSUME GHInv, ghRun.at = "read", NEW name
    PROVE  LET said == Dependent(ghRun, name, [k \in GHRuleIds |-> GHRulesets[k].workflow]) IN
           /\ said = "compliant" => TRUE \in ghPast.required
           /\ said = "noncompliant" => FALSE \in ghPast.required \/ ghPast.ruled > 1
<1> DEFINE met == [k \in GHRuleIds |-> GHRulesets[k].workflow]
           said == Dependent(ghRun, name, met)
           found == \E k \in Matching(ghRun) : ghRun.rules[k] = "active" /\ met[k]
<1>1. ghRun.prop \in GHStates /\ ghRun.rule \in GHStates /\ ghRun.schema \in BOOLEAN /\ ghPast.ruled \in Nat
  BY GHFacts DEF GHRunShape, GHPastShape
<1>2. SelectedIn(ghRun, name) \in BOOLEAN
  BY DEF SelectedIn
<1>3. said \in {"compliant", "noncompliant"} => ghRun.rule = "ok" /\ (said = "compliant" <=> found)
  <2> HIDE DEF met, found
  <2>1. said = CASE ghRun.prop # "ok" \/ ~ghRun.schema -> "unknown"
                 [] ghRun.prop = "ok" /\ ghRun.schema /\ ~SelectedIn(ghRun, name) -> "available"
                 [] SelectedIn(ghRun, name) /\ ghRun.rule # "ok" -> ghRun.rule
                 [] OTHER -> IF found THEN "compliant" ELSE "noncompliant"
    BY DEF Dependent, found
  <2> HIDE DEF said
  <2> QED
    BY <1>1, <1>2, <2>1 DEF GHStates
<1>4. found <=> \E k \in GHGood : ghRun.rules[k] = "active"
  BY GitHubAssumption DEF Matching, GHGood
<1>5. GHRulesTrue(ghRun, ghPast) /\ GHPastTrue(ghRun, ghPast)
  BY GHFacts
<1> HIDE DEF found, said
<1>6. found => TRUE \in ghPast.required
  BY <1>4, <1>5 DEF GHRulesTrue
<1>7. ASSUME ghRun.rule = "ok", ~found, FALSE \notin ghPast.required, ~(ghPast.ruled > 1) PROVE FALSE
  <2>1. \A k \in GHGood : ~GHSeen(ghRun, k)
    BY <1>4, <1>7 DEF GHSeen
  <2>2. ghPast.ruled = 0 \/ ghPast.ruled = 1
    BY <1>1, <1>7
  <2>3. Requires(ghRules) \in ghPast.required /\ Requires(ghRules) \in BOOLEAN
    BY <1>5 DEF GHPastTrue, Requires
  <2>4. \E k \in GHGood : ghRules[k] = "active"
    BY <1>7, <2>3, GHRequires
  <2> QED
    BY <1>5, <1>7, <2>1, <2>2, <2>4 DEF GHRulesTrue
<1>8. /\ said = "compliant" => TRUE \in ghPast.required
      /\ said = "noncompliant" => FALSE \in ghPast.required \/ ghPast.ruled > 1
  BY <1>3, <1>6, <1>7
<1> QED
  BY <1>8 DEF said

LEMMA GHControlsStep == ASSUME GHInv, GHControls PROVE GHInv' /\ (GHCovers => GHCovers')
<1> DEFINE inv == ghRun.inv  schema == ghRun.schema  controls == <<ControlsOf(ghRun)>>
<1>1. /\ ghRun.at = "read" /\ UNCHANGED <<ghName, ghChosen, ghRules, ghPast>>
      /\ ghRun' = [GHNoRun EXCEPT !.at = "done", !.schema = schema, !.inv = inv, !.controls = controls]
  BY DEF GHControls, World
<1>2. schema \in BOOLEAN /\ controls[1] = ControlsOf(ghRun)
  BY GHFacts DEF GHRunShape
<1> HIDE DEF inv, schema, controls
<1>3. /\ ghRun'.at = "done" /\ ghRun'.nodes = <<>> /\ ghRun'.inv = inv /\ ghRun'.values = {}
      /\ ghRun'.schema = schema /\ ghRun'.controls = controls /\ ghRun'.rules = NoRules
  BY <1>1 DEF GHNoRun, NoRules
<1>4. GHRunShape(ghRun')
  <2>1. [GHNoRun EXCEPT !.at = "done", !.schema = schema] \in
          [at : GHStages, try : {0}, cursor : Nat, total : Nat, nodes : Seq(GHNodes), inv : {NoListing},
           prop : GHStates, schema : BOOLEAN, values : SUBSET [name : Nat, chosen : BOOLEAN],
           page : Nat \ {0}, rule : GHStates, summaries : SUBSET GHRuleIds,
           rules : [GHRuleIds -> GHEnforcements], unread : {{}}, controls : {<<>>}]
    BY <1>2, GHNoRunShape DEF GHRunShape, GHStages, GHNoRun
  <2> DEFINE begun == [GHNoRun EXCEPT !.at = "done", !.schema = schema]
  <2>2. ghRun' = [begun EXCEPT !.inv = inv, !.controls = controls]
    BY <1>1 DEF GHNoRun
  <2> HIDE DEF begun
  <2> QED
    BY <2>1, <2>2 DEF GHRunShape, begun
<1>5. GHHeld(ghRun') = GHHeld(ghRun)
  BY <1>3 DEF GHHeld, inv
<1>6. GHListTrue(ghRun', ghPast)
  <2>1. DOMAIN ghRun'.nodes = {}
    BY <1>3
  <2> QED
    BY <1>5, <2>1, GHFacts DEF GHListTrue
<1>7. GHValuesTrue(ghRun', ghPast)
  BY <1>3 DEF GHValuesTrue
<1>8. GHRulesTrue(ghRun', ghPast)
  BY <1>3 DEF GHRulesTrue, NoRules, GHGood
<1>9. GHDoneTrue(ghRun', ghPast)
  <2> SUFFICES ASSUME NEW c \in ControlsOf(ghRun) PROVE GHControlTrue(ghRun', ghPast, c)
    BY <1>2, <1>3 DEF GHDoneTrue
  <2>1. PICK n \in GHHeld(ghRun) :
          c = [id |-> n.id, policy |-> PolicyOf(ghRun, n.name),
               workflow |-> Dependent(ghRun, n.name, [k \in GHRuleIds |-> GHRulesets[k].workflow]),
               branch |-> Dependent(ghRun, n.name, [k \in GHRuleIds |-> GHRulesets[k].branch])]
    BY DEF ControlsOf
  <2>2. /\ c.id = n.id /\ c.policy = PolicyOf(ghRun, n.name)
        /\ c.workflow = Dependent(ghRun, n.name, [k \in GHRuleIds |-> GHRulesets[k].workflow])
    BY <2>1
  <2>3. ASSUME n.id \in ghPast.lasting, ghPast.renamed = FALSE
        PROVE  /\ c.policy = "compliant" => c.id \in ghPast.chosen
               /\ c.policy = "noncompliant" => c.id \in ghPast.unchosen \/ ghPast.deleted \/ ~ghRun'.schema
    <3>1. n.name = ghName[n.id]
      BY <2>3, GHFacts DEF GHListTrue, GHNodeTrue
    <3>2. /\ PolicyOf(ghRun, n.name) = "compliant" => n.id \in ghPast.chosen
          /\ PolicyOf(ghRun, n.name) = "noncompliant" =>
               n.id \in ghPast.unchosen \/ ghPast.deleted = TRUE \/ ghRun.schema = FALSE
      BY <1>1, <2>3, <3>1, GHPolicyProven
    <3>3. ghRun'.schema = ghRun.schema
      BY <1>3 DEF schema
    <3> QED
      BY <2>2, <3>2, <3>3
  <2>4. /\ c.workflow = "compliant" => TRUE \in ghPast.required
        /\ c.workflow = "noncompliant" => FALSE \in ghPast.required \/ ghPast.ruled > 1
    BY <1>1, <2>2, GHWorkflowProven
  <2> QED
    BY <2>2, <2>3, <2>4 DEF GHControlTrue
<1>10. GHInv'
  BY <1>1, <1>3, <1>4, <1>6, <1>7, <1>8, <1>9, GHRunSteps
<1>11. GHCovers => GHCovers'
  BY <1>1, <1>3, <1>5 DEF GHCovers, GHCovered, GHHeldIds, inv
<1> QED
  BY <1>10, <1>11

LEMMA GHStepTrue == ASSUME GHInv, GHCovers, [GitHubNext]_ghVars PROVE GHInv' /\ GHCovers'
<1>1. CASE UNCHANGED ghVars
  <2>1. UNCHANGED <<ghName, ghChosen, ghRules, ghPast, ghRun>>
    BY <1>1 DEF ghVars
  <2>2. GHInv'
    <3>1. GHWorldTrue' /\ GHRunShape(ghRun)' /\ GHPastShape(ghPast)'
      BY <2>1, GHFacts DEF GHWorldTrue, Existing, GHRunShape, GHPastShape
    <3>2. GHPastTrue(ghRun, ghPast)' /\ (GHListTrue(ghRun, ghPast))'
      BY <2>1, GHFacts DEF GHPastTrue, Existing, Requires, GHListTrue, GHNodeTrue, GHHeld
    <3>3. (GHRulesTrue(ghRun, ghPast))' /\ (GHDoneTrue(ghRun, ghPast))'
      BY <2>1, GHFacts DEF GHRulesTrue, GHSeen, GHDoneTrue, GHControlTrue
    <3>4. (GHValuesTrue(ghRun, ghPast))'
      BY <2>1, GHFacts DEF GHValuesTrue, GHAssigned, GHBefore, Existing
    <3> QED
      BY <3>1, <3>2, <3>3, <3>4 DEF GHInv, GHRunTrue
  <2>3. GHCovers'
    BY <2>1 DEF GHCovers, GHCovered, GHHeldIds, GHHeld, Existing
  <2> QED
    BY <2>2, <2>3
<1>2. CASE GitHubNext
  <2>1. CASE \E r \in GHIds : GHDeletes(r) \/ GHSelects(r)
    BY <2>1, GHDeletesTrue, GHSelectsTrue
  <2>2. CASE \E r \in GHIds, name \in 1 .. GHNames : GHCreates(r, name) \/ GHRenames(r, name)
    BY <2>2, GHCreatesTrue, GHRenamesTrue
  <2>3. CASE \E k \in GHRuleIds, enforcement \in GHEnforcements : GHRules(k, enforcement)
    BY <2>3, GHRulesChange
  <2>4. CASE GHRetried \/ GHBegin \/ GHTenant \/ GHGivesUp \/ GHPage \/ GHMaps
    BY <2>4, GHRetriedTrue, GHBeginTrue, GHTenantTrue, GHGivesUpTrue, GHPageTrue, GHMapsTrue
  <2>5. CASE \E usable \in BOOLEAN : GHSchema(usable)
    BY <2>5, GHSchemaTrue
  <2>6. CASE \E status \in {"failed", "unsupported"} : GHPropertiesFail(status) \/ GHRulesetsFail(status)
    BY <2>6, GHPropertiesFailTrue, GHRulesetsFailTrue
  <2>7. CASE GHValues \/ GHRulesetList \/ GHRulesetDetail \/ GHWorkflows \/ GHControls
    BY <2>7, GHValuesSteps, GHRulesetListTrue, GHRulesetDetailTrue, GHWorkflowsTrue, GHControlsStep
  <2> QED
    BY <1>2, <2>1, <2>2, <2>3, <2>4, <2>5, <2>6, <2>7 DEF GitHubNext
<1> QED
  BY <1>1, <1>2

LEMMA GHInvariant == GitHubSpec => [](GHInv /\ GHCovers)
<1>1. GitHubInit => GHInv /\ GHCovers
  BY GHInitTrue
<1>2. GHInv /\ GHCovers /\ [GitHubNext]_ghVars => (GHInv /\ GHCovers)'
  BY GHStepTrue
<1> QED
  BY <1>1, <1>2, PTL DEF GitHubSpec

(***************************************************************************)
(* An inventory without failures has every repository that was there all   *)
(* along: the pages follow the names, and totals and counts show what a    *)
(* page lost -- save where one repository was renamed, one deleted and one *)
(* created under it.                                                       *)
(***************************************************************************)
THEOREM GitHubInventoryComplete == GitHubSpec => []GitHubMissesNothing
<1>1. GHInv /\ GHCovers => GitHubMissesNothing
  <2> SUFFICES ASSUME GHInv, GHCovers, ghRun.at \notin {"idle", "tenant", "listing", "listed", "failed"},
                      ghRun.inv.failures = {}
               PROVE  \/ ghPast.lasting \subseteq {n.id : n \in GHHeld(ghRun)}
                      \/ ghPast.renamed /\ ghPast.deleted /\ ghPast.created
    BY DEF GitHubMissesNothing
  <2>1. ghPast.lasting \subseteq GHHeldIds(ghRun) \/ GHAllThree(ghPast)
    BY DEF GHCovers, GHCovered
  <2> QED
    BY <2>1 DEF GHHeldIds, GHAllThree
<1> QED
  BY <1>1, GHInvariant, PTL

(***************************************************************************)
(* A repository is called compliant or noncompliant only for what was so   *)
(* at some moment of the run, whatever is selected, created and enforced   *)
(* between its requests -- save where repositories were renamed or         *)
(* deleted, or two changes of rulesets met between the reads of two.       *)
(***************************************************************************)
THEOREM GitHubControlsProven == GitHubSpec => []GitHubControlsTrue
<1>1. GHInv => GitHubControlsTrue
  <2>1. ASSUME GHInv PROVE GHPastShape(ghPast) /\ GHDoneTrue(ghRun, ghPast)
    BY <2>1, GHFacts
  <2> QED
    BY <2>1 DEF GHDoneTrue, GHControlTrue, GHPastShape, GitHubControlsTrue
<1> QED
  BY <1>1, GHInvariant, PTL

-----------------------------------------------------------------------------
(* The types of the providers' states: bounds and disjointness on top of   *)
(* the invariants above.                                                   *)

GLBounds ==
  /\ \A p \in GLIds : glPath[p] <= GLPaths
  /\ glFaults \in 0 .. GLMaxFaults /\ glChanges \in 0 .. GLMaxChanges

\* A project is listed or left out, and only listed ones are observed.
GLParted(run) == DOMAIN run.ci \subseteq run.repos /\ run.repos \cap run.excluded = {}

LEMMA GLBoundsInit == GitLabInit => GLBounds /\ GLParted(glRun)
<1> SUFFICES ASSUME GitLabInit PROVE GLBounds /\ GLParted(glRun)
  OBVIOUS
<1>1. GLBounds
  BY GitLabAssumption DEF GitLabInit, GLBounds
<1>2. GLParted(GLNoRun)
  BY DEF GLNoRun, GLParted
<1> QED
  BY <1>1, <1>2 DEF GitLabInit

LEMMA GLBoundsStep == ASSUME GLInv, GLBounds, [GitLabNext]_glVars PROVE GLBounds'
<1>0. GLMaxFaults \in Nat /\ GLMaxChanges \in Nat /\ GLPaths \in Nat /\ glPath \in [GLIds -> Nat]
  BY GitLabAssumption DEF GLInv, GLGroupTrue
<1>1. ASSUME UNCHANGED <<glPath, glChanges>>, glFaults' = glFaults \/ Fails PROVE GLBounds'
  BY <1>0, <1>1 DEF GLBounds, Fails
<1>2. ASSUME GLChange, glPath' = glPath \/ \E p \in GLIds, path \in 0 .. GLPaths : glPath' = [glPath EXCEPT ![p] = path]
      PROVE  GLBounds'
  <2>1. \A p \in GLIds : glPath'[p] <= GLPaths
    BY <1>0, <1>2 DEF GLBounds
  <2> QED
    BY <1>0, <1>2, <2>1 DEF GLBounds, GLChange
<1>3. CASE \E p \in GLIds : GLDeletes(p) \/ GLTransfers(p) \/ GLProtects(p)
  BY <1>0, <1>2, <1>3 DEF GLDeletes, GLTransfers, GLProtects
<1>4. CASE \E p \in GLIds, path \in 1 .. GLPaths : GLCreates(p, path) \/ GLMoves(p, path)
  BY <1>0, <1>2, <1>4 DEF GLCreates, GLMoves
<1>5. CASE \E p \in GLIds, tree \in GLTrees \ {NoBranch} : GLPushes(p, tree)
  BY <1>2, <1>5 DEF GLPushes
<1>6. CASE \E limit \in GLFileLimits : GLBegin(limit)
  BY <1>1, <1>6 DEF GLBegin, Group
<1>7. CASE \E lost \in SUBSET GLIds : GLGraphPage(lost)
  <2>1. PICK lost \in SUBSET GLIds : GLGraphPage(lost)
    BY <1>7
  <2>2. UNCHANGED Group /\ (glFaults' = glFaults \/ Fails)
    BY <2>1 DEF GLGraphPage
  <2> QED
    BY <1>1, <2>2 DEF Group
<1>8. CASE GLGraphFails \/ GLRestPage \/ GLRestFails \/ GLListed \/ GLInventory \/ GLControls
  <2>1. UNCHANGED Group /\ (glFaults' = glFaults \/ Fails)
    BY <1>8 DEF GLGraphFails, GLRestPage, GLRestFails, GLListed, GLInventory, GLControls, Undisturbed
  <2> QED
    BY <1>1, <2>1 DEF Group
<1>9. CASE \E i \in DOMAIN glRun.mapped : GLMap(i) \/ GLMapFails(i)
  <2>1. UNCHANGED Group /\ (glFaults' = glFaults \/ Fails)
    BY <1>9 DEF GLMap, GLMapFails, Undisturbed
  <2> QED
    BY <1>1, <2>1 DEF Group
<1>10. CASE \E p \in GLIds : \/ GLReadsRoot(p) \/ GLOddInclude(p) \/ GLReadsInclude(p)
                             \/ GLReadFails(p) \/ GLReadsBranch(p) \/ GLBranchFails(p)
  <2>1. UNCHANGED Group /\ (glFaults' = glFaults \/ Fails)
    BY <1>10 DEF GLReadsRoot, GLOddInclude, GLReadsInclude, GLReadFails, GLReadsBranch, GLBranchFails, Undisturbed
  <2> QED
    BY <1>1, <2>1 DEF Group
<1>11. CASE UNCHANGED glVars
  BY <1>1, <1>11 DEF glVars
<1> QED
  BY <1>3, <1>4, <1>5, <1>6, <1>7, <1>8, <1>9, <1>10, <1>11 DEF GitLabNext

\* An archived project is left out, the others are listed.
LEMMA GLInventoryParts == ASSUME GLInv, GLInventory PROVE GLParted(glRun')
<1> DEFINE bad == {i \in DOMAIN glRun.list : glRun.mapped[i] = "failed" \/ Duplicate(glRun, i)}
           good == DOMAIN glRun.list \ bad
           repos == {i \in good : glRun.list[i].id \notin GLArchived}
           ids == {glRun.list[i].id : i \in repos}
           out == {glRun.list[i].id : i \in good \ repos}
           At(p) == CHOOSE i \in repos : glRun.list[i].id = p
           paths == [p \in ids |-> glRun.list[At(p)].path]
           pinned == [p \in ids |-> glRun.pinned[At(p)]]
           ci == [p \in ids |-> IF glRun.list[At(p)].branch THEN NoCi ELSE [NoCi EXCEPT !.at = "read"]]
<1>1. glRun' = [GLNoRun EXCEPT !.at = "observing", !.rest = glRun.rest, !.limit = glRun.limit,
          !.failures = bad, !.repos = ids, !.excluded = out, !.paths = paths, !.pinned = pinned, !.ci = ci]
  BY DEF GLInventory
<1>2. DOMAIN ci = ids
  OBVIOUS
<1>3. \A p \in ids : p \notin GLArchived
  OBVIOUS
<1>4. \A p \in out : p \in GLArchived
  OBVIOUS
<1> HIDE DEF bad, ids, out, paths, pinned, ci
<1>5. glRun'.repos = ids /\ glRun'.excluded = out /\ glRun'.ci = ci
  BY <1>1 DEF GLNoRun
<1> QED
  BY <1>2, <1>3, <1>4, <1>5 DEF GLParted

LEMMA GLPartedStep == ASSUME GLInv, GLParted(glRun), [GitLabNext]_glVars PROVE (GLParted(glRun))'
<1>0. GLRunShape(glRun)
  BY DEF GLInv, GLRunTrue
<1>1. ASSUME glRun'.repos = glRun.repos, glRun'.excluded = glRun.excluded,
             DOMAIN glRun'.ci \subseteq DOMAIN glRun.ci
      PROVE  (GLParted(glRun))'
  BY <1>1 DEF GLParted
<1>2. ASSUME glRun'.repos = {}, glRun'.ci = <<>> PROVE (GLParted(glRun))'
  BY <1>2 DEF GLParted
<1>3. CASE UNCHANGED glRun
  BY <1>1, <1>3
<1>4. CASE \E p \in GLIds : GLDeletes(p) \/ GLTransfers(p) \/ GLProtects(p)
  BY <1>3, <1>4 DEF GLDeletes, GLTransfers, GLProtects, GLChange
<1>5. CASE \E p \in GLIds, path \in 1 .. GLPaths : GLCreates(p, path) \/ GLMoves(p, path)
  BY <1>3, <1>5 DEF GLCreates, GLMoves, GLChange
<1>6. CASE \E p \in GLIds, tree \in GLTrees \ {NoBranch} : GLPushes(p, tree)
  BY <1>3, <1>6 DEF GLPushes, GLChange
<1>7. CASE \E limit \in GLFileLimits : GLBegin(limit)
  <2>1. glRun'.repos = {} /\ glRun'.ci = <<>>
    BY <1>7 DEF GLBegin, GLNoRun
  <2> QED
    BY <1>2, <2>1
<1>8. CASE \E lost \in SUBSET GLIds : GLGraphPage(lost)
  <2>1. PICK lost \in SUBSET GLIds : GLGraphPage(lost)
    BY <1>8
  <2>2. \E at, cursor, list : glRun' = [glRun EXCEPT !.at = at, !.cursor = cursor, !.list = list]
    <3>1. ASSUME NEW part, GLGraphPage(part)
          PROVE  \E at, cursor, list : glRun' = [glRun EXCEPT !.at = at, !.cursor = cursor, !.list = list]
      <4>1. PICK older \in InOrder(GLOlder, GLAge) :
              \E kept \in InOrder({Page(older, 0, GLPageSize)[i] : i \in DOMAIN Page(older, 0, GLPageSize)} \ part, GLAge) :
                glRun' = [glRun EXCEPT !.at = IF Len(older) > GLPageSize THEN "graphql" ELSE "listed",
                  !.cursor = IF Len(older) > GLPageSize THEN Page(older, 0, GLPageSize)[GLPageSize] ELSE 0,
                  !.list = @ \o Listed(kept)]
        BY <3>1, GLGraphPageIs
      <4> QED
        BY <4>1, Zenon
    <3> QED
      BY <2>1, <3>1
  <2>3. PICK at, cursor, list : glRun' = [glRun EXCEPT !.at = at, !.cursor = cursor, !.list = list]
    BY <2>2
  <2>4. glRun'.repos = glRun.repos /\ glRun'.excluded = glRun.excluded /\ glRun'.ci = glRun.ci
    BY <1>0, <2>3 DEF GLRunShape, GLRunRecord
  <2> QED
    BY <1>1, <2>4
<1>9. CASE GLRestPage
  <2>1. \E at, page, list : glRun' = [glRun EXCEPT !.at = at, !.page = page, !.list = list]
    BY <1>9, Zenon DEF GLRestPage
  <2>2. PICK at, page, list : glRun' = [glRun EXCEPT !.at = at, !.page = page, !.list = list]
    BY <2>1
  <2>3. glRun'.repos = glRun.repos /\ glRun'.excluded = glRun.excluded /\ glRun'.ci = glRun.ci
    BY <1>0, <2>2 DEF GLRunShape, GLRunRecord
  <2> QED
    BY <1>1, <2>3
<1>10. CASE GLGraphFails
  <2>1. glRun'.repos = glRun.repos /\ glRun'.excluded = glRun.excluded /\ glRun'.ci = glRun.ci
    BY <1>0, <1>10 DEF GLGraphFails, GLRunShape, GLRunRecord
  <2> QED
    BY <1>1, <2>1
<1>11. CASE GLRestFails \/ \E p \in GLIds : GLOddInclude(p)
  <2>1. glRun'.repos = {} /\ glRun'.ci = <<>>
    BY <1>11 DEF GLRestFails, GLOddInclude, GLNoRun
  <2> QED
    BY <1>2, <2>1
<1>12. CASE GLListed
  <2>1. \E mapped, pinned : glRun' = [glRun EXCEPT !.at = "mapping", !.mapped = mapped, !.pinned = pinned]
    BY <1>12 DEF GLListed
  <2>2. PICK mapped, pinned : glRun' = [glRun EXCEPT !.at = "mapping", !.mapped = mapped, !.pinned = pinned]
    BY <2>1
  <2>3. glRun'.repos = glRun.repos /\ glRun'.excluded = glRun.excluded /\ glRun'.ci = glRun.ci
    BY <1>0, <2>2 DEF GLRunShape, GLRunRecord
  <2> QED
    BY <1>1, <2>3
<1>13. CASE GLInventory
  BY <1>13, GLInventoryParts DEF GLParted
<1>14. CASE GLControls
  <2>1. \E controls : glRun' = [glRun EXCEPT !.at = "done", !.ci = <<>>, !.controls = controls]
    BY <1>14 DEF GLControls
  <2>2. PICK controls : glRun' = [glRun EXCEPT !.at = "done", !.ci = <<>>, !.controls = controls]
    BY <2>1
  <2>3. glRun'.repos = glRun.repos /\ glRun'.excluded = glRun.excluded /\ DOMAIN glRun'.ci = {}
    BY <1>0, <2>2 DEF GLRunShape, GLRunRecord
  <2> QED
    BY <1>1, <2>3
<1>15. CASE \E i \in DOMAIN glRun.mapped : GLMap(i) \/ GLMapFails(i)
  <2>1. \E mapped, pinned : glRun' = [glRun EXCEPT !.mapped = mapped, !.pinned = pinned]
    <3>1. PICK i \in DOMAIN glRun.mapped : GLMap(i) \/ GLMapFails(i)
      BY <1>15
    <3>2. \A mapped : [glRun EXCEPT !.mapped = mapped] = [glRun EXCEPT !.mapped = mapped, !.pinned = glRun.pinned]
      BY <1>0 DEF GLRunShape, GLRunRecord
    <3>3. glRun' = [glRun EXCEPT !.mapped[i] = "failed"] => \E mapped : glRun' = [glRun EXCEPT !.mapped = mapped]
      <4>1. [glRun EXCEPT !.mapped[i] = "failed"] = [glRun EXCEPT !.mapped = [glRun.mapped EXCEPT ![i] = "failed"]]
        BY <1>0 DEF GLRunShape, GLRunRecord
      <4> QED
        BY <4>1
    <3>4. CASE glRun' = [glRun EXCEPT !.mapped[i] = "failed"]
      BY <3>2, <3>3, <3>4
    <3>5. CASE ~(glRun' = [glRun EXCEPT !.mapped[i] = "failed"])
      <4>1. GLMap(i)
        BY <3>1, <3>5 DEF GLMapFails
      <4>2. PICK pin : glRun' = [glRun EXCEPT !.mapped[i] = "ok", !.pinned[i] = pin]
        BY <4>1, <3>5, Zenon DEF GLMap
      <4>3. [glRun EXCEPT !.mapped[i] = "ok", !.pinned[i] = pin] =
              [glRun EXCEPT !.mapped = [glRun.mapped EXCEPT ![i] = "ok"], !.pinned = [glRun.pinned EXCEPT ![i] = pin]]
        BY <1>0 DEF GLRunShape, GLRunRecord
      <4> QED
        BY <4>2, <4>3
    <3> QED
      BY <3>4, <3>5
  <2>2. PICK mapped, pinned : glRun' = [glRun EXCEPT !.mapped = mapped, !.pinned = pinned]
    BY <2>1
  <2>3. glRun'.repos = glRun.repos /\ glRun'.excluded = glRun.excluded /\ glRun'.ci = glRun.ci
    BY <1>0, <2>2 DEF GLRunShape, GLRunRecord
  <2> QED
    BY <1>1, <2>3
<1>16. ASSUME NEW p, \E ci : glRun' = [glRun EXCEPT !.ci[p] = ci] PROVE (GLParted(glRun))'
  <2>1. PICK ci : glRun' = [glRun EXCEPT !.ci[p] = ci]
    BY <1>16
  <2> DEFINE all == [glRun.ci EXCEPT ![p] = ci]
  <2>2. glRun' = [glRun EXCEPT !.ci = all] /\ DOMAIN all = DOMAIN glRun.ci
    BY <1>0, <2>1 DEF GLRunShape, GLRunRecord
  <2> HIDE DEF all
  <2>3. glRun'.repos = glRun.repos /\ glRun'.excluded = glRun.excluded /\ glRun'.ci = all
    BY <1>0, <2>2 DEF GLRunShape, GLRunRecord
  <2> QED
    BY <1>1, <2>2, <2>3
<1>17. CASE \E p \in GLIds : \/ GLReadsRoot(p) \/ GLReadsInclude(p)
                             \/ GLReadFails(p) \/ GLReadsBranch(p) \/ GLBranchFails(p)
  <2>1. PICK p \in GLIds : \/ GLReadsRoot(p) \/ GLReadsInclude(p)
                           \/ GLReadFails(p) \/ GLReadsBranch(p) \/ GLBranchFails(p)
    BY <1>17
  <2>2. \E ci : glRun' = [glRun EXCEPT !.ci[p] = ci]
    <3>1. GLReadsRoot(p) => \E ci : glRun' = [glRun EXCEPT !.ci[p] = ci]
      BY DEF GLReadsRoot
    <3>2. GLReadsInclude(p) => \E ci : glRun' = [glRun EXCEPT !.ci[p] = ci]
      BY DEF GLReadsInclude
    <3>3. GLReadFails(p) => \E ci : glRun' = [glRun EXCEPT !.ci[p] = ci]
      BY DEF GLReadFails
    <3>4. GLReadsBranch(p) => \E ci : glRun' = [glRun EXCEPT !.ci[p] = ci]
      BY DEF GLReadsBranch
    <3>5. GLBranchFails(p) => \E ci : glRun' = [glRun EXCEPT !.ci[p] = ci]
      BY DEF GLBranchFails
    <3> QED
      BY <2>1, <3>1, <3>2, <3>3, <3>4, <3>5
  <2> QED
    BY <1>16, <2>2
<1> QED
  BY <1>3, <1>4, <1>5, <1>6, <1>7, <1>8, <1>9, <1>10, <1>11, <1>12, <1>13, <1>14, <1>15, <1>17 DEF GitLabNext, glVars

(* The state of the GitLab provider is well-formed: a path leads to one    *)
(* project, none is both listed and left out as archived, and files are    *)
(* read of listed ones only (inventory.py inventory, observations.py       *)
(* controls_for_resources).                                                *)
THEOREM GitLabWellTyped == GitLabSpec => []GitLabTypeOK
<1>1. GLInv /\ GLBounds /\ GLParted(glRun) => GitLabTypeOK
  <2> SUFFICES ASSUME GLInv, GLBounds, GLParted(glRun) PROVE GitLabTypeOK
    OBVIOUS
  <2>1. GLGroupTrue /\ GLRunShape(glRun)
    BY DEF GLInv, GLRunTrue
  <2>2. glPath \in [GLIds -> 0 .. GLPaths]
    BY <2>1, GitLabAssumption DEF GLGroupTrue, GLBounds
  <2>3. glRun.at \in GLStages
    BY <2>1 DEF GLRunShape, GLRunRecord
  <2>4. (glGone \cup glAway) \cap Projects = {}
    BY <2>1 DEF GLGroupTrue, Projects
  <2>5. /\ glGone \subseteq GLIds /\ glAway \subseteq GLIds /\ glHead \in [GLIds -> GLTrees] /\ glProtected \subseteq GLIds
        /\ \A p, q \in Projects : glPath[p] = glPath[q] => p = q
    BY <2>1 DEF GLGroupTrue
  <2> QED
    BY <2>2, <2>3, <2>4, <2>5, GitLabAssumption DEF GitLabTypeOK, GLBounds, GLParted, GLStages
<1>2. GLBounds /\ GLParted(glRun) /\ GLInv /\ [GitLabNext]_glVars => (GLBounds /\ GLParted(glRun))'
  BY GLBoundsStep, GLPartedStep
<1>3. GitLabSpec => [](GLBounds /\ GLParted(glRun))
  BY <1>2, GLBoundsInit, GLInvariant, PTL DEF GitLabSpec
<1> QED
  BY <1>1, <1>3, GLInvariant, PTL

GHBounds ==
  /\ \A r \in GHIds : ghName[r] <= GHNames
  /\ ghChosen \subseteq Existing
  /\ ghFaults \in 0 .. GHMaxFaults /\ ghChanges \in 0 .. GHMaxChanges

\* Attempts are bounded by the retries, totals by the repositories there are.
GHCounted(run) == run.try \in 0 .. GHRetries /\ run.total \in 0 .. Cardinality(GHIds)

LEMMA GHBoundsInit == GitHubInit => GHBounds /\ GHCounted(ghRun)
<1> SUFFICES ASSUME GitHubInit PROVE GHBounds /\ GHCounted(ghRun)
  OBVIOUS
<1>1. GHBounds
  BY GitHubAssumption DEF GitHubInit, GHBounds, Existing
<1>2. Cardinality(GHIds) \in Nat
  BY GitHubAssumption, FS_CardinalityType
<1>3. GHNoRun.try = 0 /\ GHNoRun.total = 0
  BY DEF GHNoRun
<1>4. ghRun = GHNoRun /\ GHRetries \in Nat
  BY GitHubAssumption DEF GitHubInit
<1> QED
  BY <1>1, <1>2, <1>3, <1>4 DEF GHCounted

LEMMA GHBoundsStep == ASSUME GHInv, GHBounds, [GitHubNext]_ghVars PROVE GHBounds'
<1>0. GHMaxFaults \in Nat /\ GHMaxChanges \in Nat /\ GHNames \in Nat /\ ghName \in [GHIds -> Nat]
  BY GitHubAssumption DEF GHInv, GHWorldTrue
<1>1. ASSUME UNCHANGED <<ghName, ghChosen, ghChanges>>, ghFaults' = ghFaults \/ Fault PROVE GHBounds'
  BY <1>0, <1>1 DEF GHBounds, Fault, Existing
<1>2. ASSUME GHChange PROVE ghFaults' \in 0 .. GHMaxFaults /\ ghChanges' \in 0 .. GHMaxChanges
  BY <1>0, <1>2 DEF GHBounds, GHChange
<1>3. CASE \E r \in GHIds : GHDeletes(r) \/ GHSelects(r)
  <2>1. PICK r \in GHIds : GHDeletes(r) \/ GHSelects(r)
    BY <1>3
  <2>2. CASE GHDeletes(r)
    <3>1. GHChange /\ ghName' = [ghName EXCEPT ![r] = 0] /\ ghChosen' = ghChosen \ {r}
      BY <2>2 DEF GHDeletes
    <3>2. \A q \in GHIds : ghName'[q] <= GHNames /\ (q # r => ghName'[q] = ghName[q])
      BY <1>0, <3>1 DEF GHBounds
    <3>3. ghChosen' \subseteq Existing'
      BY <3>1, <3>2 DEF GHBounds, Existing
    <3> QED
      BY <1>2, <3>1, <3>2, <3>3 DEF GHBounds
  <2>3. CASE GHSelects(r)
    <3>1. GHChange /\ ghName' = ghName /\ ghChosen' \subseteq ghChosen \cup {r} /\ r \in Existing
      BY <2>3 DEF GHSelects
    <3>2. ghChosen' \subseteq Existing'
      BY <3>1 DEF GHBounds, Existing
    <3> QED
      BY <1>2, <3>1, <3>2 DEF GHBounds
  <2> QED
    BY <2>1, <2>2, <2>3
<1>4. CASE \E r \in GHIds, name \in 1 .. GHNames : GHCreates(r, name) \/ GHRenames(r, name)
  <2>1. PICK r \in GHIds, name \in 1 .. GHNames :
          GHChange /\ ghName' = [ghName EXCEPT ![r] = name] /\ ghChosen' = ghChosen
    BY <1>4 DEF GHCreates, GHRenames
  <2>2. \A q \in GHIds : ghName'[q] <= GHNames /\ (ghName[q] # 0 => ghName'[q] # 0)
    BY <1>0, <2>1 DEF GHBounds
  <2>3. ghChosen' \subseteq Existing'
    BY <2>1, <2>2 DEF GHBounds, Existing
  <2> QED
    BY <1>2, <2>1, <2>2, <2>3 DEF GHBounds
<1>5. CASE \E k \in GHRuleIds, enforcement \in GHEnforcements : GHRules(k, enforcement)
  BY <1>2, <1>5 DEF GHRules, GHBounds, Existing
<1>6. CASE GHRetried \/ GHBegin \/ GHTenant \/ GHGivesUp \/ GHPage \/ GHMaps
  <2>1. UNCHANGED <<ghName, ghChosen, ghChanges>> /\ (ghFaults' = ghFaults \/ Fault)
    BY <1>6 DEF GHRetried, GHBegin, GHTenant, GHGivesUp, GHPage, GHMaps, World
  <2> QED
    BY <1>1, <2>1
<1>7. CASE \E usable \in BOOLEAN : GHSchema(usable)
  BY <1>1, <1>7 DEF GHSchema, World
<1>8. CASE \E status \in {"failed", "unsupported"} : GHPropertiesFail(status) \/ GHRulesetsFail(status)
  BY <1>1, <1>8 DEF GHPropertiesFail, GHRulesetsFail
<1>9. CASE GHValues \/ GHRulesetList \/ GHRulesetDetail \/ GHWorkflows \/ GHControls
  <2>1. UNCHANGED <<ghName, ghChosen, ghChanges>> /\ (ghFaults' = ghFaults \/ Fault)
    BY <1>9 DEF GHValues, GHRulesetList, GHRulesetDetail, GHWorkflows, GHControls, World
  <2> QED
    BY <1>1, <2>1
<1>10. CASE UNCHANGED ghVars
  BY <1>1, <1>10 DEF ghVars
<1> QED
  BY <1>3, <1>4, <1>5, <1>6, <1>7, <1>8, <1>9, <1>10 DEF GitHubNext

LEMMA GHCountedStep == ASSUME GHInv, GHCounted(ghRun), [GitHubNext]_ghVars PROVE (GHCounted(ghRun))'
<1>0. GHRunShape(ghRun) /\ GHRetries \in Nat
  BY GHFacts, GitHubAssumption
<1>shape. ghRun = [at |-> ghRun.at, try |-> ghRun.try, cursor |-> ghRun.cursor, total |-> ghRun.total,
            nodes |-> ghRun.nodes, inv |-> ghRun.inv, prop |-> ghRun.prop, schema |-> ghRun.schema,
            values |-> ghRun.values, page |-> ghRun.page, rule |-> ghRun.rule, summaries |-> ghRun.summaries,
            rules |-> ghRun.rules, unread |-> ghRun.unread, controls |-> ghRun.controls]
  BY <1>0 DEF GHRunShape
<1>1. Cardinality(GHIds) \in Nat /\ Cardinality(Existing) \in 0 .. Cardinality(GHIds)
  BY GHFacts, GitHubAssumption, FS_CardinalityType, FS_Subset
<1>2. ASSUME ghRun'.try \in {0, ghRun.try}, ghRun'.total \in {0, ghRun.total, Cardinality(Existing)}
      PROVE  (GHCounted(ghRun))'
  BY <1>0, <1>1, <1>2 DEF GHCounted
<1>3. CASE \E r \in GHIds : GHDeletes(r) \/ GHSelects(r)
  BY <1>2, <1>3 DEF GHDeletes, GHSelects, GHChange
<1>4. CASE \E r \in GHIds, name \in 1 .. GHNames : GHCreates(r, name) \/ GHRenames(r, name)
  BY <1>2, <1>4 DEF GHCreates, GHRenames, GHChange
<1>5. CASE \E k \in GHRuleIds, enforcement \in GHEnforcements : GHRules(k, enforcement)
  BY <1>2, <1>5 DEF GHRules, GHChange
<1>6. CASE GHRetried
  <2>1. ghRun'.try = ghRun.try + 1 /\ ghRun'.total = ghRun.total /\ ghRun.try < GHRetries
    BY <1>shape, <1>6 DEF GHRetried
  <2> QED
    BY <1>0, <2>1 DEF GHCounted
<1>7. CASE GHBegin \/ GHTenant \/ GHGivesUp
  <2>1. ghRun'.try \in {0, ghRun.try} /\ ghRun'.total \in {0, ghRun.total}
    BY <1>shape, <1>7 DEF GHBegin, GHTenant, GHGivesUp, GHNoRun
  <2> QED
    BY <1>2, <2>1
<1>8. CASE GHPage
  <2>1. PICK rest \in InOrder({r \in Existing : ghName[r] > ghRun.cursor}, ghName) :
          LET page == Page(rest, 0, GHPageSize)
              nodes == ghRun.nodes \o Nodes(page)
              first == ghRun.nodes = <<>> /\ ghRun.cursor = 0
              total == Cardinality(Existing)
              more == Len(rest) > GHPageSize
          IN ghRun' = IF (~first /\ total # ghRun.total) \/ (~more /\ Len(nodes) # total)
                      THEN [GHNoRun EXCEPT !.at = "failed"]
                      ELSE [ghRun EXCEPT !.at = IF more THEN "listing" ELSE "listed", !.try = 0,
                              !.total = total, !.nodes = nodes,
                              !.cursor = IF more THEN ghName[page[GHPageSize]] ELSE @]
    BY <1>8 DEF GHPage
  <2> DEFINE page == Page(rest, 0, GHPageSize)
             nodes == ghRun.nodes \o Nodes(page)
             total == Cardinality(Existing)
             more == Len(rest) > GHPageSize
             at == IF more THEN "listing" ELSE "listed"
             cursor == IF more THEN ghName[page[GHPageSize]] ELSE ghRun.cursor
  <2>2. \/ ghRun' = [GHNoRun EXCEPT !.at = "failed"]
        \/ ghRun' = [ghRun EXCEPT !.at = at, !.try = 0, !.total = total, !.nodes = nodes, !.cursor = cursor]
    BY <2>1
  <2> HIDE DEF nodes, at, cursor
  <2>3. ghRun'.try = 0 /\ ghRun'.total \in {0, Cardinality(Existing)}
    <3>1. CASE ghRun' = [GHNoRun EXCEPT !.at = "failed"]
      BY <3>1 DEF GHNoRun
    <3>2. CASE ghRun' = [ghRun EXCEPT !.at = at, !.try = 0, !.total = total, !.nodes = nodes, !.cursor = cursor]
      BY <1>shape, <3>2
    <3> QED
      BY <2>2, <3>1, <3>2
  <2> QED
    BY <1>2, <2>3
<1>9. CASE GHMaps
  <2>1. \E inv : ghRun' = [GHNoRun EXCEPT !.at = "schema", !.inv = inv]
    BY <1>9, Zenon DEF GHMaps
  <2>2. ghRun'.try = 0 /\ ghRun'.total = 0
    BY <2>1 DEF GHNoRun
  <2> QED
    BY <1>2, <2>2
<1>10. CASE \E usable \in BOOLEAN : GHSchema(usable)
  <2>1. ghRun'.try = 0 /\ ghRun'.total = ghRun.total
    BY <1>shape, <1>10 DEF GHSchema
  <2> QED
    BY <1>2, <2>1
<1>11. CASE \E status \in {"failed", "unsupported"} : GHPropertiesFail(status) \/ GHRulesetsFail(status)
  <2>1. ASSUME NEW status \in {"failed", "unsupported"}, GHPropertiesFail(status)
        PROVE  ghRun'.try = 0 /\ ghRun'.total = ghRun.total
    BY <1>shape, <2>1 DEF GHPropertiesFail
  <2>2. ASSUME NEW status \in {"failed", "unsupported"}, GHRulesetsFail(status)
        PROVE  ghRun'.try = 0 /\ ghRun'.total = ghRun.total
    BY <1>shape, <2>2 DEF GHRulesetsFail
  <2> QED
    BY <1>2, <1>11, <2>1, <2>2
<1>12. CASE GHValues
  <2>1. PICK at, values, page :
          \/ ghRun' = [ghRun EXCEPT !.at = at, !.try = 0, !.prop = "failed", !.values = values, !.page = page]
          \/ ghRun' = [ghRun EXCEPT !.at = at, !.try = 0, !.values = values, !.page = page]
    BY <1>12 DEF GHValues
  <2>2. ghRun'.try = 0 /\ ghRun'.total = ghRun.total
    BY <1>shape, <2>1
  <2> QED
    BY <1>2, <2>2
<1>13. CASE GHRulesetList
  <2>1. ghRun'.try = 0 /\ ghRun'.total = ghRun.total
    BY <1>shape, <1>13 DEF GHRulesetList
  <2> QED
    BY <1>2, <2>1
<1>14. CASE GHRulesetDetail
  <2>1. PICK k \in ghRun.summaries : \E at, summaries :
          \/ ghRun' = [ghRun EXCEPT !.at = at, !.try = 0, !.rule = "unsupported",
                         !.summaries = summaries, !.rules = NoRules]
          \/ ghRun' = [ghRun EXCEPT !.at = at, !.try = 0, !.summaries = summaries, !.rules[k] = ghRules[k]]
    BY <1>14 DEF GHRulesetDetail
  <2>2. ghRun'.try = 0 /\ ghRun'.total = ghRun.total
    BY <1>shape, <2>1
  <2> QED
    BY <1>2, <2>2
<1>15. CASE GHWorkflows
  <2>1. ghRun'.try = ghRun.try /\ ghRun'.total = ghRun.total
    BY <1>shape, <1>15 DEF GHWorkflows
  <2> QED
    BY <1>2, <2>1
<1>16. CASE GHControls
  <2>1. ghRun'.try = 0 /\ ghRun'.total = 0
    BY <1>16 DEF GHControls, GHNoRun
  <2> QED
    BY <1>2, <2>1
<1>17. CASE UNCHANGED ghVars
  BY <1>2, <1>17 DEF ghVars
<1> QED
  BY <1>3, <1>4, <1>5, <1>6, <1>7, <1>8, <1>9, <1>10, <1>11, <1>12, <1>13, <1>14, <1>15, <1>16, <1>17 DEF GitHubNext

(* The state of the GitHub provider is well-formed: a name leads to one    *)
(* repository, a request is tried no more often than --retries allows, and *)
(* no total is beyond the repositories there may be (client.py             *)
(* _discover_payload).                                                     *)
THEOREM GitHubWellTyped == GitHubSpec => []GitHubTypeOK
<1>1. GHInv /\ GHBounds /\ GHCounted(ghRun) => GitHubTypeOK
  <2> SUFFICES ASSUME GHInv, GHBounds, GHCounted(ghRun) PROVE GitHubTypeOK
    OBVIOUS
  <2>1. GHWorldTrue /\ GHRunShape(ghRun)
    BY GHFacts
  <2>2. ghName \in [GHIds -> 0 .. GHNames]
    BY <2>1, GitHubAssumption DEF GHWorldTrue, GHBounds
  <2>3. ghRun.at \in GHStages /\ ghRun.prop \in GHStates /\ ghRun.rule \in GHStates
    BY <2>1 DEF GHRunShape
  <2> QED
    BY <2>1, <2>2, <2>3 DEF GitHubTypeOK, GHWorldTrue, GHBounds, GHCounted, GHStages, GHStates
<1>2. GHBounds /\ GHCounted(ghRun) /\ GHInv /\ [GitHubNext]_ghVars => (GHBounds /\ GHCounted(ghRun))'
  BY GHBoundsStep, GHCountedStep
<1>3. GitHubSpec => [](GHBounds /\ GHCounted(ghRun))
  BY <1>2, GHBoundsInit, GHInvariant, PTL DEF GitHubSpec
<1> QED
  BY <1>1, <1>3, GHInvariant, PTL

-----------------------------------------------------------------------------
(* What all inventories promise.                                           *)

(***************************************************************************)
(* An inventory without failures has every repository or project that was  *)
(* there all along, and a roll-up every finding that is due, but for the   *)
(* cases their modules name.                                               *)
(***************************************************************************)
THEOREM InventoriesComplete == GitHubSpec /\ GitLabSpec /\ RollupSpec => []InventoriesMissNothing
BY GitHubInventoryComplete, GitLabInventoryComplete, RollupComplete, PTL DEF InventoriesMissNothing

(***************************************************************************)
(* The controls of either provider say of a repository what was so at some *)
(* moment of the run, but for the cases the modules name.                  *)
(***************************************************************************)
THEOREM ControlsProven == GitHubSpec /\ GitLabSpec => []ControlsTrue
BY GitHubControlsProven, GitLabControlsProven, PTL DEF ControlsTrue
=============================================================================
