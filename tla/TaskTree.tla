------------------------------- MODULE TaskTree -------------------------------
(***************************************************************************)
(* The task hierarchy of a workspace: TasksService.create, update, remove  *)
(* and moveTask (tasks.service.ts) as concurrent requests over the table   *)
(* tasks with its self-referencing foreign key, and the removal of a       *)
(* project.  The code opens no transaction around a request, so each of    *)
(* its statements is a step of its own.                                    *)
(*                                                                         *)
(* Repository.save(entity) is TypeORM's: it selects the row by id, inserts *)
(* the entity if the row is missing, and otherwise updates the columns     *)
(* that differ from what it selected -- parent_task_id among them, also    *)
(* when the entity's value is merely out of date.                          *)
(***************************************************************************)
EXTENDS Integers, FiniteSets

CONSTANTS
  TaskIds,     \* task uuids
  Projects,
  Requests,    \* requests that may be in progress at once
  MaxDepth,    \* MAX_DEPTH
  None

ASSUME ConstantsAssumption ==
  /\ IsFiniteSet(TaskIds)
  /\ MaxDepth \in Nat
  /\ None \notin TaskIds \cup Projects

VARIABLES
  projects,    \* existing projects
  live,        \* ids of existing tasks
  used,        \* every uuid ever generated
  parent,      \* parent_task_id
  project,     \* project_id
  req,         \* the requests in progress
  torn         \* history: tasks hung where they are by an overtaken save

vars == <<projects, live, used, parent, project, req, torn>>

TaskOrNone == TaskIds \cup {None}

\* A request: the task it has loaded with its project and the parent it will
\* save it with (the entity's parentTaskId), the parent a move asks for, the depths of the
\* rows moveTask has read below the task, and the statement save has chosen.
\* overtaken is history: another request's save has written a parent link since
\* this one read the subtree (moveTask) or loaded the entity (update).
RequestState ==
  {q \in [pc : {"idle", "insert", "findParent", "descendants", "depth", "select", "write",
                "delete"},
          task : TaskOrNone, target : TaskOrNone, parent : TaskOrNone,
          project : Projects \cup {None}, rows : SUBSET Int,
          sql : {"none", "insert", "update", "keep"}, overtaken : BOOLEAN] :
     q.pc \in {"findParent", "descendants", "depth"} => q.target # None}

Request(pc, t, target, p, pr) ==
  [pc |-> pc, task |-> t, target |-> target, parent |-> p, project |-> pr,
   rows |-> {}, sql |-> "none", overtaken |-> FALSE]

IdleReq == Request("idle", None, None, None, None)

Init ==
  /\ projects = Projects
  /\ live = {}
  /\ used = {}
  /\ parent = [t \in TaskIds |-> None]
  /\ project = [t \in TaskIds |-> None]
  /\ req = [r \in Requests |-> IdleReq]
  /\ torn = {}

-----------------------------------------------------------------------------
(* The tree.                                                               *)

\* A set of tasks with every child of its members.
Closed(S) == \A c \in live : parent[c] \in S => c \in S

\* The rows of the recursive query from a task downwards, the task included.
Descendants(t) == {d \in live : \A S \in SUBSET TaskIds : t \in S /\ Closed(S) => d \in S}

\* The rows of depthOf's query from a task upwards, the task included.
Ancestors(t) == {a \in live : t \in Descendants(a)}

\* A nonempty set in which every task has its parent: the parent links of its
\* members run in a circle, and a recursive query that meets it never ends.
Loop(S) == S # {} /\ \A t \in S : parent[t] \in S

Loops(S) == \E L \in SUBSET S : Loop(L)

\* depthOf: 0 for a root, and for a task that does not exist.
DepthOf(t) == IF t \in live THEN Cardinality(Ancestors(t)) - 1 ELSE 0

\* The depths of the rows of the query from t downwards; subtreeHeight is the
\* largest.
RowDepths(t) == {DepthOf(d) - DepthOf(t) : d \in Descendants(t)}

-----------------------------------------------------------------------------
(* Writes.  A statement that violates a foreign key has no effect and its  *)
(* request fails.                                                          *)

End(r) == req' = [req EXCEPT ![r] = IdleReq]

\* The end of a save that has written a parent link: what the others have read
\* below their task, or loaded, may not be so any more.
EndOfLinkWrite(r) ==
  req' = [s \in Requests |->
            IF s = r THEN IdleReq
            ELSE [req[s] EXCEPT !.overtaken = @ \/ req[s].pc \in {"depth", "select", "write"}]]

ParentExists(p) == p = None \/ p \in live

InsertTask(t, p, pr) ==
  /\ live' = live \cup {t}
  /\ used' = used \cup {t}
  /\ parent' = [parent EXCEPT ![t] = p]
  /\ project' = [project EXCEPT ![t] = pr]

\* A DELETE of the tasks S, which the foreign key has made closed.
DeleteTasks(S) ==
  /\ live' = live \ S
  /\ parent' = [t \in TaskIds |-> IF t \in S THEN None ELSE parent[t]]
  /\ project' = [t \in TaskIds |-> IF t \in S THEN None ELSE project[t]]
  /\ torn' = torn \ S

UnchangedRows == UNCHANGED <<projects, live, used, parent, project, torn>>

-----------------------------------------------------------------------------
(* create: checks the project, then the parent in that project, then saves *)
(* a new entity.  It does not look at the depth.                           *)

BeginCreateAnyParent(r, p, pr) ==
  /\ req[r].pc = "idle"
  /\ pr \in projects
  /\ ParentExists(p)
  /\ req' = [req EXCEPT ![r] = Request("insert", None, None, p, pr)]
  /\ UnchangedRows

BeginCreate(r, p, pr) ==
  /\ req[r].pc = "idle"
  /\ pr \in projects
  /\ p # None => p \in live /\ project[p] = pr
  /\ req' = [req EXCEPT ![r] = Request("insert", None, None, p, pr)]
  /\ UnchangedRows

Create(r) ==
  /\ req[r].pc = "insert"
  /\ IF req[r].project \in projects /\ ParentExists(req[r].parent)
       THEN \E t \in TaskIds \ used :
              InsertTask(t, req[r].parent, req[r].project) /\ UNCHANGED <<projects, torn>>
       ELSE UnchangedRows
  /\ End(r)

-----------------------------------------------------------------------------
(* update, moveTask and remove start by loading the entity, findOneOrFail. *)

Load(r, t, pc, target, p) ==
  /\ req[r].pc = "idle"
  /\ t \in live
  /\ req' = [req EXCEPT ![r] = Request(pc, t, target, p, project[t])]
  /\ UnchangedRows

\* update assigns the columns of its dto, of which parentTaskId is none.
BeginUpdate(r, t) == Load(r, t, "select", None, parent[t])

BeginMoveAlwaysChecked(r, t, p) == p # t /\ Load(r, t, "findParent", p, None)

\* moveTask overwrites the parent it has loaded; a move to the root needs no check.
BeginMove(r, t, p) ==
  p # t /\ Load(r, t, IF p = None THEN "select" ELSE "findParent", p, None)

FindNewParentAnyProject(r) ==
  /\ req[r].pc = "findParent"
  /\ IF req[r].target \in live
       THEN req' = [req EXCEPT ![r].pc = "descendants"]
       ELSE End(r)
  /\ UnchangedRows

FindNewParent(r) ==
  LET p == req[r].target IN
  /\ req[r].pc = "findParent"
  /\ IF p \in live /\ project[p] = req[r].project
       THEN req' = [req EXCEPT ![r].pc = "descendants"]
       ELSE End(r)
  /\ UnchangedRows

\* The cycle check of moveTask.  A query that runs in circles hits the
\* statement timeout: the request fails.
ReadDescendantsUnread(r) ==
  /\ req[r].pc = "descendants"
  /\ req' = [req EXCEPT ![r].pc = "depth"]
  /\ UnchangedRows

ReadDescendants(r) ==
  LET D == Descendants(req[r].task) IN
  /\ req[r].pc = "descendants"
  /\ IF Loops(D) \/ req[r].target \in D
       THEN End(r)
       ELSE req' = [req EXCEPT ![r].pc = "depth", ![r].rows = RowDepths(req[r].task)]
  /\ UnchangedRows

ReadDepthOfParentOnly(r) ==
  LET p == req[r].target IN
  /\ req[r].pc = "depth"
  /\ IF DepthOf(p) + 1 > MaxDepth
       THEN End(r)
       ELSE req' = [req EXCEPT ![r].pc = "select", ![r].parent = p]
  /\ UnchangedRows

\* The depth check of moveTask, with the rows read before.
ReadDepth(r) ==
  LET p == req[r].target IN
  /\ req[r].pc = "depth"
  /\ IF Loops(Ancestors(p)) \/ \E h \in req[r].rows \cup {0} : DepthOf(p) + 1 + h > MaxDepth
       THEN End(r)
       ELSE req' = [req EXCEPT ![r].pc = "select", ![r].parent = p]
  /\ UnchangedRows

\* save(entity), its SELECT: which statement will follow.
SaveSelect(r) ==
  LET t == req[r].task IN
  /\ req[r].pc = "select"
  /\ req' = [req EXCEPT ![r].pc = "write",
                        ![r].sql = IF t \notin live THEN "insert"
                                   ELSE IF parent[t] = req[r].parent THEN "keep"
                                   ELSE "update"]
  /\ UnchangedRows

\* save(entity), its INSERT: the row was missing when selected.
SaveInsert(r) ==
  LET t == req[r].task  p == req[r].parent  pr == req[r].project IN
  /\ req[r].pc = "write" /\ req[r].sql = "insert"
  /\ IF t \notin live /\ pr \in projects /\ ParentExists(p)
       THEN InsertTask(t, p, pr) /\ UNCHANGED <<projects, torn>> /\ EndOfLinkWrite(r)
       ELSE UnchangedRows /\ End(r)

\* save(entity), its UPDATE: no row is updated when the task is gone by now.
SaveUpdate(r) ==
  LET t == req[r].task  p == req[r].parent IN
  /\ req[r].pc = "write" /\ req[r].sql \in {"update", "keep"}
  /\ IF req[r].sql = "update" /\ t \in live /\ ParentExists(p)
       THEN /\ parent' = [parent EXCEPT ![t] = p]
            /\ torn' = IF req[r].overtaken THEN torn \cup {t} ELSE torn \ {t}
            /\ EndOfLinkWrite(r)
            /\ UNCHANGED <<projects, live, used, project>>
       ELSE UnchangedRows /\ End(r)

BeginRemove(r, t) == Load(r, t, "delete", None, None)

\* remove(entity): ON DELETE CASCADE takes the subtree along.
Remove(r) ==
  /\ req[r].pc = "delete"
  /\ DeleteTasks(Descendants(req[r].task))
  /\ End(r)
  /\ UNCHANGED <<projects, used>>

\* ProjectsService.remove: the project's tasks go with it.
RemoveProject(pr) ==
  /\ pr \in projects
  /\ projects' = projects \ {pr}
  /\ DeleteTasks({t \in live : project[t] = pr})
  /\ UNCHANGED <<used, req>>

Step(r) ==
  \/ Create(r) \/ FindNewParent(r) \/ ReadDescendants(r) \/ ReadDepth(r)
  \/ SaveSelect(r) \/ SaveInsert(r) \/ SaveUpdate(r) \/ Remove(r)

Begin(r) ==
  \/ \E p \in TaskOrNone, pr \in Projects : BeginCreate(r, p, pr)
  \/ \E t \in TaskIds : BeginUpdate(r, t) \/ BeginRemove(r, t)
  \/ \E t \in TaskIds, p \in TaskOrNone : BeginMove(r, t, p)

Next ==
  \/ \E r \in Requests : Begin(r) \/ Step(r)
  \/ \E pr \in Projects : RemoveProject(pr)

Spec == Init /\ [][Next]_vars

-----------------------------------------------------------------------------
(* Properties.                                                             *)

TypeOK ==
  /\ projects \subseteq Projects
  /\ live \subseteq used /\ used \subseteq TaskIds
  /\ parent \in [TaskIds -> TaskOrNone]
  /\ project \in [TaskIds -> Projects \cup {None}]
  /\ req \in [Requests -> RequestState]
  /\ torn \subseteq live

\* docs/ARCHITECTURE.md: "a task cannot become its own ancestor".  No set of
\* tasks hangs together by its own parent links, so every upward walk of
\* depthOf and every downward walk of getSubtree ends.  Two overlapping moves
\* break it: the check of moveTask and its save are statements of their own.
Acyclic == ~Loops(live)

\* Nothing else does: every circle runs through a task that an overtaken save
\* has hung where it is -- one of a request during which, after it had read the
\* subtree or loaded the entity, another request's save wrote a parent link.
\* Creates, removals and removals of projects may overlap a move in any way, and
\* a circle once made puts no task in another one (the cycle check of moveTask,
\* the fresh ids of create, the foreign keys).
LoopsAreTorn == \A L \in SUBSET live : Loop(L) => L \cap torn # {}

\* A parent is an existing task of the same project, however requests overlap:
\* create and moveTask look the parent up in the project, nothing ever changes
\* a task's project, and the foreign keys see to the rest -- also when save
\* brings a removed task back.
ParentInProject ==
  \A t \in live :
    /\ project[t] \in projects
    /\ parent[t] # None => parent[t] \in live /\ project[parent[t]] = project[t]

\* A move that no other save overtakes leaves a task of the moved subtree deeper
\* than MAX_DEPTH only if it lies further below the moved task than any row
\* moveTask has read there: it was created during the move, for create produces
\* any depth.  However creates and removals overlap the queries, the depth check
\* and the save, and whatever circles there are elsewhere.
MoveRespectsDepth ==
  [][\A r \in Requests, t \in TaskIds :
       ( /\ req[r].pc = "write" /\ req'[r].pc = "idle" /\ ~req[r].overtaken
         /\ req[r].task = t /\ parent'[t] \notin {None, parent[t]} ) =>
         \A d \in Descendants(t)' :
           \/ DepthOf(d)' <= MaxDepth
           \/ \A h \in req[r].rows : DepthOf(d)' - DepthOf(t)' > h]_vars

\* Each request of TasksService takes effect as one step of the hierarchy,
\* although none of them runs in a transaction: what create, moveTask and save
\* have checked in statements of their own still holds at the one that writes
\* -- but for the one thing an overtaken save may do, hang a task below itself.
Hierarchy == INSTANCE TaskHierarchy WITH
  Ids   <- TaskIds,
  nodes <- live,
  up    <- parent,
  home  <- project

ImplementsHierarchy == Hierarchy!Spec
=============================================================================
