---------------------------- MODULE GitLabProvider ----------------------------
(***************************************************************************)
(* The GitLab provider of the SCM inventory (wintermute.scm.providers.     *)
(* gitlab): the projects of a group are listed with GraphQL, by cursor,    *)
(* and after any error of it once more with REST, by page number; workers  *)
(* then map the projects, read their CI configuration, file by file along  *)
(* its local includes, and the protection of their default branch, and the *)
(* controls are derived.  People change the group meanwhile.               *)
(***************************************************************************)
EXTENDS Listing

CONSTANTS
  GLIds,            \* projects there may be; GraphQL lists the newest first
  GLFirstPaths,     \* project -> its path at first, 0 if there is none
  GLPaths,          \* number of paths; a path is its place in their order
  GLArchived,       \* archived projects
  GLPageSize,
  GLTrees,          \* the CI files a commit may hold: [root, file]
  GLFirstHeads,     \* possible first heads: project -> tree
  GLFileLimits,     \* limits of the number of CI files
  GLMaxFaults, GLMaxChanges   \* bounds

\* root, the configuration file; file, the one it may include.  An include of
\* an odd path is one that normalize_ci_path refuses.
RootKinds == {"none", "missing", "plain", "marker", "includes", "odd"}
FileKinds == {"missing", "plain", "marker"}

ASSUME GitLabAssumption ==
  /\ GLIds \subseteq Nat \ {0} /\ IsFiniteSet(GLIds)
  /\ GLPaths \in Nat /\ GLFirstPaths \in [GLIds -> 0 .. GLPaths]
  /\ \A p, q \in GLIds : GLFirstPaths[p] = GLFirstPaths[q] /\ GLFirstPaths[p] # 0 => p = q
  /\ GLTrees \subseteq [root : RootKinds, file : FileKinds] /\ GLFirstHeads \subseteq [GLIds -> GLTrees]
  /\ GLPageSize \in Nat \ {0} /\ GLFileLimits \subseteq Nat \ {0}
  /\ GLMaxFaults \in Nat /\ GLMaxChanges \in Nat

NoTree == [root |-> "missing", file |-> "missing"]
NoBranch == [root |-> "none", file |-> "missing"]    \* no default branch

\* Does the pipeline of this commit scan with Black Duck?
Scans(tree) == tree.root = "marker" \/ (tree.root = "includes" /\ tree.file = "marker")

VARIABLES
  glPath,      \* project -> its path, 0 while there is none
  glGone,      \* projects that were deleted: an id is not given twice
  glAway,      \* projects transferred to another group, still read by id
  glHead,      \* project -> the CI files at the head of its default branch
  glProtected, \* projects whose default branch is protected
  glRun,       \* the running inventory
  glPast,      \* what has been so since it began, for the properties
  glFaults, glChanges

glVars == <<glPath, glGone, glAway, glHead, glProtected, glRun, glPast, glFaults, glChanges>>

Projects == {p \in GLIds : glPath[p] # 0}

NoCi == [at |-> "root", marker |-> FALSE, present |-> FALSE, complete |-> TRUE, failed |-> FALSE,
         branch |-> "unread"]
GLNoRun == [at |-> "idle", rest |-> FALSE, page |-> 1, cursor |-> 0, limit |-> 0, list |-> <<>>,
            mapped |-> <<>>, failures |-> {}, repos |-> {}, excluded |-> {}, pinned |-> <<>>,
            paths |-> <<>>, ci |-> <<>>, controls |-> {}]
GLNoPast == [lasting |-> {}, moved |-> FALSE, partial |-> FALSE, pushed |-> {},
             heads |-> [p \in GLIds |-> {}], protected |-> {}, unprotected |-> {}]

GitLabInit ==
  /\ glPath = GLFirstPaths /\ glGone = {} /\ glAway = {}
  /\ glHead \in GLFirstHeads
  /\ glProtected = {p \in GLIds : \A q \in GLIds : p <= q}
  /\ glRun = GLNoRun /\ glPast = GLNoPast
  /\ glFaults = 0 /\ glChanges = 0

-----------------------------------------------------------------------------
(* The group. *)

GLChange ==
  /\ glRun.at \notin {"idle", "done", "failed"}
  /\ glChanges < GLMaxChanges /\ glChanges' = glChanges + 1
  /\ UNCHANGED <<glRun, glFaults>>

GLDeletes(p) ==
  /\ GLChange /\ p \in Projects
  /\ glPath' = [glPath EXCEPT ![p] = 0] /\ glGone' = glGone \cup {p}
  /\ glPast' = [glPast EXCEPT !.lasting = @ \ {p}]
  /\ UNCHANGED <<glAway, glHead, glProtected>>

\* A transfer out of the group: no listing has the project any longer, and its
\* path in the group leads nowhere, but its id is good.
GLTransfers(p) ==
  /\ GLChange /\ p \in Projects
  /\ glPath' = [glPath EXCEPT ![p] = 0] /\ glAway' = glAway \cup {p}
  /\ glPast' = [glPast EXCEPT !.lasting = @ \ {p}]
  /\ UNCHANGED <<glGone, glHead, glProtected>>

\* A new project is the newest, and has no branch yet.
GLCreates(p, path) ==
  /\ GLChange /\ p \notin Projects \cup glGone \cup glAway /\ \A q \in GLIds : glPath[q] # path
  /\ glPath' = [glPath EXCEPT ![p] = path]
  /\ UNCHANGED <<glGone, glAway, glHead, glProtected, glPast>>

GLMoves(p, path) ==
  /\ GLChange /\ p \in Projects /\ \A q \in GLIds : glPath[q] # path
  /\ glPath' = [glPath EXCEPT ![p] = path]
  /\ glPast' = [glPast EXCEPT !.moved = TRUE]
  /\ UNCHANGED <<glGone, glAway, glHead, glProtected>>

GLPushes(p, tree) ==
  /\ GLChange /\ p \in Projects /\ glHead[p] \notin {tree, NoBranch}
  /\ glHead' = [glHead EXCEPT ![p] = tree]
  /\ glPast' = [glPast EXCEPT !.heads[p] = @ \cup {tree}, !.pushed = @ \cup {p}]
  /\ UNCHANGED <<glPath, glGone, glAway, glProtected>>

GLProtects(p) ==
  /\ GLChange /\ p \in Projects
  /\ glProtected' = IF p \in glProtected THEN glProtected \ {p} ELSE glProtected \cup {p}
  /\ glPast' = IF p \in glProtected THEN [glPast EXCEPT !.unprotected = @ \cup {p}]
               ELSE [glPast EXCEPT !.protected = @ \cup {p}]
  /\ UNCHANGED <<glPath, glGone, glAway, glHead>>

-----------------------------------------------------------------------------
Fails == glFaults < GLMaxFaults /\ glFaults' = glFaults + 1
Group == <<glPath, glGone, glAway, glHead, glProtected, glChanges>>
Undisturbed == UNCHANGED <<Group, glPast, glFaults>>

GLBegin(limit) ==
  /\ glRun.at = "idle"
  /\ glRun' = [GLNoRun EXCEPT !.at = "graphql", !.limit = limit]
  /\ glPast' = [GLNoPast EXCEPT !.lasting = Projects, !.heads = [p \in GLIds |-> {glHead[p]}],
                  !.protected = glProtected, !.unprotected = GLIds \ glProtected]
  /\ UNCHANGED <<Group, glFaults>>

Listed(ids) == [i \in DOMAIN ids |-> [id |-> ids[i], path |-> glPath[ids[i]], branch |-> glHead[ids[i]] # NoBranch]]

\* A page by cursor, the newest first.  An answer with errors beside its data
\* is taken, without the projects it lost (GraphQL.execute); it is not told
\* apart afterwards.
GLGraphPage(lost) ==
  LET age == [p \in GLIds |-> 0 - p]
  IN  /\ glRun.at = "graphql"
      /\ \E older \in InOrder({p \in Projects : glRun.cursor = 0 \/ p < glRun.cursor}, age) :
           LET page == Page(older, 0, GLPageSize)
               taken == {page[i] : i \in DOMAIN page}
               more == Len(older) > GLPageSize
           IN  /\ lost \subseteq taken
               /\ \E kept \in InOrder(taken \ lost, age) :
                    glRun' = [glRun EXCEPT !.at = IF more THEN "graphql" ELSE "listed",
                      !.cursor = IF more THEN page[GLPageSize] ELSE 0, !.list = @ \o Listed(kept)]
      /\ IF lost = {} THEN UNCHANGED <<glPast, glFaults>>
         ELSE Fails /\ glPast' = [glPast EXCEPT !.partial = TRUE]
      /\ UNCHANGED Group

\* Any error, the runtime budget's too, and the listing starts again with REST.
GLGraphFails ==
  /\ glRun.at = "graphql" /\ Fails
  /\ glRun' = [glRun EXCEPT !.at = "rest", !.rest = TRUE, !.list = <<>>, !.cursor = 0]
  /\ UNCHANGED <<Group, glPast>>

\* A page by number, in the order of paths.
GLRestPage ==
  /\ glRun.at = "rest"
  /\ \E all \in InOrder(Projects, glPath) :
       LET from == (glRun.page - 1) * GLPageSize
           more == from + GLPageSize < Len(all)
       IN  glRun' = [glRun EXCEPT !.at = IF more THEN "rest" ELSE "listed",
             !.page = IF more THEN @ + 1 ELSE 1, !.list = @ \o Listed(Page(all, from, GLPageSize))]
  /\ Undisturbed

\* What is not caught ends the run: the REST listing, an odd include.
GLRestFails ==
  /\ glRun.at = "rest" /\ Fails
  /\ glRun' = [GLNoRun EXCEPT !.at = "failed"]
  /\ UNCHANGED <<Group, glPast>>

-----------------------------------------------------------------------------
(* Mapping, one worker a project. *)

GLListed ==
  /\ glRun.at = "listed"
  /\ glRun' = [glRun EXCEPT !.at = "mapping",
       !.mapped = [i \in DOMAIN glRun.list |-> "todo"],
       !.pinned = [i \in DOMAIN glRun.list |-> <<>>]]
  /\ Undisturbed

\* Listed by GraphQL, a project is mapped without a request and stays
\* unpinned; listed by REST its head is resolved, by path, and its languages
\* are read, by id.
GLMap(i) ==
  /\ glRun.at = "mapping" /\ i \in DOMAIN glRun.mapped /\ glRun.mapped[i] = "todo"
  /\ LET p == glRun.list[i].id
         there == {q \in Projects : glPath[q] = glRun.list[i].path}
         pin == IF glRun.rest /\ glRun.list[i].branch /\ there # {}
                THEN <<glHead[CHOOSE q \in there : TRUE]>> ELSE <<>>
     IN glRun' = IF glRun.rest /\ p \notin Projects \cup glAway
                 THEN [glRun EXCEPT !.mapped[i] = "failed"]
                 ELSE [glRun EXCEPT !.mapped[i] = "ok", !.pinned[i] = pin]
  /\ Undisturbed

GLMapFails(i) ==
  /\ glRun.at = "mapping" /\ i \in DOMAIN glRun.mapped /\ glRun.mapped[i] = "todo" /\ Fails
  /\ glRun' = [glRun EXCEPT !.mapped[i] = "failed"]
  /\ UNCHANGED <<Group, glPast>>

\* Mutant: paths alone tell projects apart.
DuplicateByPath(run, i) ==
  \E j \in 1 .. i - 1 : run.mapped[j] = "ok" /\ run.list[j].path = run.list[i].path

\* A project seen before, by id or by path, is a failure.
Duplicate(run, i) ==
  \E j \in 1 .. i - 1 : /\ run.mapped[j] = "ok"
                        /\ run.list[j].id = run.list[i].id \/ run.list[j].path = run.list[i].path

GLInventory ==
  /\ glRun.at = "mapping" /\ \A i \in DOMAIN glRun.mapped : glRun.mapped[i] # "todo"
  /\ LET bad == {i \in DOMAIN glRun.list : glRun.mapped[i] = "failed" \/ Duplicate(glRun, i)}
         good == DOMAIN glRun.list \ bad
         repos == {i \in good : glRun.list[i].id \notin GLArchived}
         ids == {glRun.list[i].id : i \in repos}
         At(p) == CHOOSE i \in repos : glRun.list[i].id = p
     IN glRun' = [GLNoRun EXCEPT !.at = "observing", !.rest = glRun.rest, !.limit = glRun.limit,
          !.failures = bad, !.repos = ids, !.excluded = {glRun.list[i].id : i \in good \ repos},
          !.paths = [p \in ids |-> glRun.list[At(p)].path],
          !.pinned = [p \in ids |-> glRun.pinned[At(p)]],
          !.ci = [p \in ids |-> IF glRun.list[At(p)].branch THEN NoCi ELSE [NoCi EXCEPT !.at = "read"]]]
  /\ Undisturbed

-----------------------------------------------------------------------------
(* Observation, one worker a project. *)

\* The files that are read, by path: those of the pinned commit, or of the
\* branch as it is by now.  Where the path leads nowhere, or to a project that
\* has no such commit, every file is missing.
Tree(p) ==
  LET there == {q \in Projects : glPath[q] = glRun.paths[p]}
  IN CASE there = {} -> NoTree
       [] there # {} /\ glRun.pinned[p] # <<>> -> IF p \in there THEN glRun.pinned[p][1] ELSE NoTree
       [] OTHER -> glHead[CHOOSE q \in there : TRUE]

Reading(p, at) == glRun.at = "observing" /\ p \in DOMAIN glRun.ci /\ glRun.ci[p].at = at

GLReadsRoot(p) ==
  /\ Reading(p, "root") /\ Tree(p).root # "odd"
  /\ LET root == Tree(p).root
         include == root = "includes"
     IN glRun' = [glRun EXCEPT !.ci[p] = [@ EXCEPT
          !.present = root \notin {"missing", "none"}, !.marker = root = "marker",
          !.complete = ~(include /\ glRun.limit = 1),
          !.at = IF include /\ glRun.limit > 1 THEN "include" ELSE "branch"]]
  /\ Undisturbed

\* local_includes raises for it, and nothing in between catches it.
GLOddInclude(p) ==
  /\ Reading(p, "root") /\ Tree(p).root = "odd"
  /\ glRun' = [GLNoRun EXCEPT !.at = "failed"]
  /\ Undisturbed

GLReadsInclude(p) ==
  /\ Reading(p, "include")
  /\ glRun' = [glRun EXCEPT !.ci[p] = [@ EXCEPT !.at = "branch",
       !.marker = Tree(p).file = "marker", !.complete = Tree(p).file # "missing"]]
  /\ Undisturbed

GLReadFails(p) ==
  /\ \E at \in {"root", "include"} : Reading(p, at)
  /\ Fails
  /\ glRun' = [glRun EXCEPT !.ci[p] = [@ EXCEPT !.at = "branch", !.complete = FALSE, !.failed = TRUE]]
  /\ UNCHANGED <<Group, glPast>>

\* 404, the branch's or the project's, says unprotected.
GLReadsBranch(p) ==
  /\ Reading(p, "branch")
  /\ glRun' = [glRun EXCEPT !.ci[p] = [@ EXCEPT !.at = "read",
       !.branch = IF p \in (Projects \cup glAway) \cap glProtected THEN "protected" ELSE "open"]]
  /\ Undisturbed

GLBranchFails(p) ==
  /\ Reading(p, "branch") /\ Fails
  /\ glRun' = [glRun EXCEPT !.ci[p] = [@ EXCEPT !.at = "read", !.branch = "failed"]]
  /\ UNCHANGED <<Group, glPast>>

CiState(ci) ==
  CASE ci.failed -> "failed"
    [] ~ci.failed /\ ci.marker -> "compliant"
    [] ~ci.failed /\ ~ci.marker /\ ci.present /\ ~ci.complete -> "unknown"
    [] OTHER -> "noncompliant"

BranchState(branch) ==
  CASE branch = "failed" -> "failed" [] branch = "unread" -> "unknown"
    [] branch = "protected" -> "compliant" [] branch = "open" -> "noncompliant"

GLControls ==
  /\ glRun.at = "observing" /\ \A p \in DOMAIN glRun.ci : glRun.ci[p].at = "read"
  /\ glRun' = [glRun EXCEPT !.at = "done", !.ci = <<>>, !.controls =
       {[id |-> p, workflow |-> CiState(glRun.ci[p]), branch |-> BranchState(glRun.ci[p].branch)] :
          p \in glRun.repos}]
  /\ Undisturbed

GitLabNext ==
  \/ \E p \in GLIds : GLDeletes(p) \/ GLTransfers(p) \/ GLProtects(p)
  \/ \E p \in GLIds, path \in 1 .. GLPaths : GLCreates(p, path) \/ GLMoves(p, path)
  \/ \E p \in GLIds, tree \in GLTrees \ {NoBranch} : GLPushes(p, tree)
  \/ \E limit \in GLFileLimits : GLBegin(limit)
  \/ \E lost \in SUBSET GLIds : GLGraphPage(lost)
  \/ GLGraphFails \/ GLRestPage \/ GLRestFails \/ GLListed \/ GLInventory \/ GLControls
  \/ \E i \in DOMAIN glRun.mapped : GLMap(i) \/ GLMapFails(i)
  \/ \E p \in GLIds : \/ GLReadsRoot(p) \/ GLOddInclude(p) \/ GLReadsInclude(p)
                       \/ GLReadFails(p) \/ GLReadsBranch(p) \/ GLBranchFails(p)

GitLabSpec == GitLabInit /\ [][GitLabNext]_glVars

-----------------------------------------------------------------------------
GitLabTypeOK ==
  /\ glPath \in [GLIds -> 0 .. GLPaths]
  /\ \A p, q \in Projects : glPath[p] = glPath[q] => p = q
  /\ glGone \subseteq GLIds /\ glAway \subseteq GLIds /\ (glGone \cup glAway) \cap Projects = {}
  /\ glHead \in [GLIds -> GLTrees] /\ glProtected \subseteq GLIds
  /\ GLTrees \subseteq [root : RootKinds, file : FileKinds]
  /\ glRun.at \in {"idle", "graphql", "rest", "listed", "mapping", "observing", "done", "failed"}
  /\ DOMAIN glRun.ci \subseteq glRun.repos /\ glRun.repos \cap glRun.excluded = {}
  /\ glFaults \in 0 .. GLMaxFaults /\ glChanges \in 0 .. GLMaxChanges

(***************************************************************************)
(* An inventory without failures has every project that was there all      *)
(* along, save where GitLab answered with part of its data.  It holds for  *)
(* page numbers too, which deletions and moves shift: a project listed     *)
(* twice is a failure, and so is one deleted since, whose languages cannot *)
(* be read (inventory.py group_projects, paged_list, inventory).  Only a   *)
(* transfer out of the group shifts the pages unnoticed, for the languages *)
(* of such a project are read by its id.                                   *)
(***************************************************************************)
GitLabMissesNothing ==
  glRun.at \in {"observing", "done"} /\ glRun.failures = {} =>
    \/ glPast.lasting \subseteq glRun.repos \cup glRun.excluded
    \/ glPast.partial
    \/ glRun.rest /\ glAway # {}

(***************************************************************************)
(* Compliant and noncompliant are said only of what was so at some moment  *)
(* of the run (observations.py read_ci_files, controls_for_resources),     *)
(* however far the files could be read -- save where projects moved, or    *)
(* commits were pushed while the files of a project that is not pinned to  *)
(* one commit were read.                                                   *)
(***************************************************************************)
GitLabControlsTrue ==
  glRun.at = "done" => \A c \in glRun.controls : c.id \in glPast.lasting =>
    /\ \/ c.workflow = "compliant" => \E tree \in glPast.heads[c.id] : Scans(tree)
       \/ glPast.moved \/ (glRun.pinned[c.id] = <<>> /\ c.id \in glPast.pushed)
    /\ \/ c.workflow = "noncompliant" => \E tree \in glPast.heads[c.id] : ~Scans(tree)
       \/ glPast.moved \/ (glRun.pinned[c.id] = <<>> /\ c.id \in glPast.pushed)
    /\ c.branch = "compliant" => c.id \in glPast.protected
    /\ c.branch = "noncompliant" => c.id \in glPast.unprotected

=============================================================================
