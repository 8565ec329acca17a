---------------------------- MODULE TaskTreeProofs ----------------------------
(***************************************************************************)
(* Proofs about TaskTree, for any number of tasks, projects and requests.  *)
(*                                                                         *)
(* ParentInProject needs to know what requests still hold of tasks that    *)
(* may be gone, and may come back: HomeInv says there is one project per   *)
(* uuid on which the rows and every request in progress agree.             *)
(*                                                                         *)
(* LoopsAreTorn and the refinement need to know that what moveTask checked *)
(* is still true when it writes, unless another save has overtaken it:     *)
(* TreeInv carries, for a move in progress, a closed set of tasks that     *)
(* holds the task and not its new parent (its descendants when they were   *)
(* read, and whatever was created below them since).                       *)
(***************************************************************************)
EXTENDS TaskTree, FiniteSetTheorems, TLAPS

\* What a request may assume of the ids it holds, given the project of each.
RequestClaims(home, q) ==
  /\ q.pc \notin {"idle", "insert"} => q.task \in used /\ home[q.task] = q.project
  /\ q.pc # "idle" /\ q.parent # None => q.parent \in used /\ home[q.parent] = q.project
  /\ q.pc = "findParent" => q.target \in TaskIds \ {q.task}
  /\ q.pc \in {"descendants", "depth"} =>
       q.target \in used \ {q.task} /\ home[q.target] = q.project

Homes == [TaskIds -> Projects \cup {None}]

Home(home) ==
  /\ \A t \in live : project[t] = home[t]
  /\ \A r \in Requests : RequestClaims(home, req[r])

HomeInv == \E home \in Homes : Home(home)

IInv == TypeOK /\ ParentInProject /\ HomeInv

-----------------------------------------------------------------------------
(* Requests.                                                               *)

LEMMA RequestType ==
  ASSUME NEW pc \in {"idle", "insert", "findParent", "select", "delete"},
         NEW t \in TaskOrNone, NEW target \in TaskOrNone, NEW p \in TaskOrNone,
         NEW pr \in Projects \cup {None}, pc = "findParent" => target # None
  PROVE  Request(pc, t, target, p, pr) \in RequestState
<1>1. /\ {} \in SUBSET Int
      /\ "none" \in {"none", "insert", "update", "keep"}
  OBVIOUS
<1> QED
  BY <1>1 DEF Request, RequestState

LEMMA IdleType == IdleReq \in RequestState
BY RequestType DEF IdleReq, TaskOrNone

LEMMA IdleClaims == ASSUME NEW home PROVE RequestClaims(home, IdleReq)
BY DEF RequestClaims, IdleReq, Request

\* What a write leaves of a request: it ends, or it is overtaken, or neither.
Carried(q, q2) == q2 = IdleReq \/ \E b \in BOOLEAN : q2 = [q EXCEPT !.overtaken = b]

LEMMA EndsCarry ==
  ASSUME TypeOK, NEW r \in Requests, End(r) \/ EndOfLinkWrite(r)
  PROVE  /\ req'[r] = IdleReq
         /\ req' \in [Requests -> RequestState]
         /\ \A s \in Requests : Carried(req[s], req'[s])
<1>1. \A s \in Requests : req[s] \in RequestState
  BY DEF TypeOK
<1>2. CASE End(r)
  <2>1. \A s \in Requests : req'[s] = IF s = r THEN IdleReq ELSE req[s]
    BY <1>2 DEF End, TypeOK
  <2>2. \A s \in Requests : req[s] = [req[s] EXCEPT !.overtaken = req[s].overtaken]
                            /\ req[s].overtaken \in BOOLEAN
    BY <1>1 DEF RequestState
  <2>3. req' \in [Requests -> RequestState]
    BY <1>2, IdleType DEF End, TypeOK
  <2> QED
    BY <2>1, <2>2, <2>3 DEF Carried
<1>3. CASE EndOfLinkWrite(r)
  <2> DEFINE b(s) == req[s].overtaken \/ req[s].pc \in {"depth", "select", "write"}
             q(s) == [req[s] EXCEPT !.overtaken = b(s)]
  <2>1. req' = [s \in Requests |-> IF s = r THEN IdleReq ELSE q(s)]
    BY <1>3 DEF EndOfLinkWrite
  <2>2. ASSUME NEW s \in Requests PROVE b(s) \in BOOLEAN /\ q(s) \in RequestState
    <3>1. b(s) \in BOOLEAN
      BY <1>1 DEF RequestState
    <3> HIDE DEF b
    <3> QED
      BY <1>1, <3>1 DEF RequestState
  <2>3. \A s \in Requests : Carried(req[s], q(s))
    <3> HIDE DEF b
    <3> QED
      BY <2>2 DEF Carried
  <2> HIDE DEF q
  <2> QED
    BY <2>1, <2>2, <2>3, IdleType DEF Carried
<1> QED
  BY <1>2, <1>3

LEMMA CarriedFields ==
  ASSUME NEW q \in RequestState, NEW q2, Carried(q, q2)
  PROVE  \/ q2 = IdleReq
         \/ /\ q2.pc = q.pc /\ q2.task = q.task /\ q2.target = q.target
            /\ q2.parent = q.parent /\ q2.project = q.project /\ q2.rows = q.rows
            /\ q2.sql = q.sql
BY DEF Carried, RequestState

LEMMA ClaimsCarried ==
  ASSUME NEW home, NEW q \in RequestState, NEW q2, Carried(q, q2), RequestClaims(home, q)
  PROVE  RequestClaims(home, q2)
<1>1. CASE q2 = IdleReq
  BY <1>1, IdleClaims
<1>2. CASE q2 # IdleReq
  BY <1>2, CarriedFields DEF RequestClaims
<1> QED
  BY <1>1, <1>2

LEMMA DepthTypes == ASSUME TypeOK, NEW d PROVE DepthOf(d) \in Int
<1>1. Ancestors(d) \subseteq TaskIds
  BY DEF Ancestors, TypeOK
<1>2. IsFiniteSet(Ancestors(d))
  BY <1>1, ConstantsAssumption, FS_Subset
<1>3. Cardinality(Ancestors(d)) \in Nat
  BY <1>2, FS_CardinalityType
<1> QED
  BY <1>3 DEF DepthOf

\* The depths moveTask reads are integers: a row's ancestors are finite.
LEMMA DepthsAreIntegers ==
  ASSUME TypeOK, NEW t \in TaskOrNone
  PROVE  RowDepths(t) \subseteq Int
<1>1. \A d \in Descendants(t) : DepthOf(d) - DepthOf(t) \in Int
  BY DepthTypes
<1> QED
  BY <1>1 DEF RowDepths

\* A step of one request that writes no row.
LEMMA RequestStep ==
  ASSUME IInv, NEW r \in Requests, NEW q \in RequestState,
         req' = [req EXCEPT ![r] = q], UnchangedRows,
         NEW home \in Homes, Home(home), RequestClaims(home, q)
  PROVE  IInv'
<1>1. TypeOK'
  BY DEF IInv, TypeOK, UnchangedRows
<1>2. ParentInProject'
  BY DEF IInv, ParentInProject, UnchangedRows
<1>3. \A s \in Requests : RequestClaims(home, req'[s])
  BY DEF Home, IInv, TypeOK
<1>4. \A s \in Requests : RequestClaims(home, req[s])'
  BY <1>3 DEF RequestClaims, UnchangedRows
<1>5. Home(home)'
  BY <1>4 DEF Home, UnchangedRows
<1> QED
  BY <1>1, <1>2, <1>5 DEF IInv, HomeInv

LEMMA EndStep ==
  ASSUME IInv, NEW r \in Requests, End(r), UnchangedRows
  PROVE  IInv'
<1>1. PICK home \in Homes : Home(home)
  BY DEF IInv, HomeInv
<1> QED
  BY <1>1, RequestStep, IdleType, IdleClaims DEF End

LEMMA LoadStep ==
  ASSUME IInv, NEW r \in Requests, NEW t \in TaskIds,
         NEW pc \in {"findParent", "select", "delete"},
         NEW target \in TaskOrNone, NEW p \in {None, parent[t]},
         pc = "findParent" => target \in TaskIds \ {t},
         Load(r, t, pc, target, p)
  PROVE  IInv'
<1> DEFINE q == Request(pc, t, target, p, project[t])
<1>1. PICK home \in Homes : Home(home)
  BY DEF IInv, HomeInv
<1>2. t \in live /\ t \in used
  BY DEF Load, IInv, TypeOK
<1>3. p \in TaskOrNone /\ project[t] \in Projects \cup {None}
  BY DEF IInv, TypeOK, TaskOrNone
<1>4. q \in RequestState
  BY <1>3, RequestType, ConstantsAssumption DEF TaskOrNone
<1>5. home[t] = project[t]
  BY <1>1, <1>2 DEF Home
<1>6. p # None => p \in live /\ home[p] = project[t]
  BY <1>1, <1>2, <1>5 DEF IInv, ParentInProject, Home
<1>7. RequestClaims(home, q)
  BY <1>2, <1>5, <1>6 DEF RequestClaims, Request, IInv, TypeOK
<1> HIDE DEF q
<1>8. req' = [req EXCEPT ![r] = q] /\ UnchangedRows
  BY DEF Load, q
<1> QED
  BY <1>1, <1>4, <1>7, <1>8, RequestStep

-----------------------------------------------------------------------------
(* Rows.                                                                   *)

\* An INSERT of a row that is missing: a new uuid, or a task save brings back.
LEMMA InsertStep ==
  ASSUME IInv, NEW r \in Requests, End(r) \/ EndOfLinkWrite(r),
         NEW c \in TaskIds \ live, NEW p \in TaskOrNone, NEW pr \in projects,
         ParentExists(p), InsertTask(c, p, pr), UNCHANGED <<projects, torn>>,
         NEW home \in Homes, Home(home),
         NEW new \in Homes, \A t \in used : new[t] = home[t],
         new[c] = pr, p # None => new[p] = pr
  PROVE  IInv'
<1>1. TypeOK'
  <2>1. pr \in Projects \cup {None}
    BY DEF IInv, TypeOK
  <2>2. live' \subseteq used' /\ used' \subseteq TaskIds /\ projects' \subseteq Projects
    BY DEF InsertTask, IInv, TypeOK
  <2>3. parent' \in [TaskIds -> TaskOrNone] /\ project' \in [TaskIds -> Projects \cup {None}]
    BY <2>1 DEF InsertTask, IInv, TypeOK
  <2>4. req' \in [Requests -> RequestState]
    BY EndsCarry DEF IInv
  <2>5. torn' \subseteq live'
    BY DEF InsertTask, IInv, TypeOK
  <2> QED
    BY <2>2, <2>3, <2>4, <2>5 DEF TypeOK
<1>2. \A t \in live : t \in used /\ project[t] = new[t]
  BY DEF IInv, TypeOK, Home
<1>3. /\ \A t \in live : parent'[t] = parent[t] /\ project'[t] = project[t]
      /\ parent'[c] = p /\ project'[c] = pr
      /\ live' = live \cup {c}
  BY DEF InsertTask, IInv, TypeOK
<1>4. \A t \in live' : project'[t] = new[t]
  BY <1>2, <1>3
<1>5. ParentInProject'
  <2>1. \A t \in live : /\ project'[t] \in projects'
                        /\ parent'[t] # None => parent'[t] \in live /\ new[parent'[t]] = new[t]
    BY <1>2, <1>3 DEF IInv, ParentInProject
  <2>2. project'[c] \in projects' /\ (p # None => p \in live /\ new[p] = new[c])
    BY <1>3 DEF ParentExists
  <2> QED
    BY <1>3, <1>4, <2>1, <2>2 DEF ParentInProject
<1>6. \A s \in Requests : RequestClaims(new, req[s])'
  <2>1. SUFFICES ASSUME NEW s \in Requests PROVE RequestClaims(new, req[s])'
    OBVIOUS
  <2>2. RequestClaims(home, req'[s])
    BY EndsCarry, ClaimsCarried DEF IInv, TypeOK, Home
  <2>3. used \subseteq used'
    BY DEF InsertTask
  <2> QED
    BY <2>2, <2>3 DEF RequestClaims
<1>7. Home(new)'
  BY <1>4, <1>6 DEF Home
<1> QED
  BY <1>1, <1>5, <1>7 DEF IInv, HomeInv

\* An UPDATE of a parent link, to a task of the same project.
LEMMA UpdateStep ==
  ASSUME IInv, NEW r \in Requests, EndOfLinkWrite(r),
         NEW t \in live, NEW p \in TaskOrNone, ParentExists(p),
         parent' = [parent EXCEPT ![t] = p], torn' \subseteq torn \cup {t},
         UNCHANGED <<projects, live, used, project>>,
         NEW home \in Homes, Home(home), p # None => home[p] = home[t]
  PROVE  IInv'
<1>1. TypeOK'
  BY EndsCarry DEF IInv, TypeOK
<1>2. ParentInProject'
  <2>1. \A u \in live : parent'[u] = IF u = t THEN p ELSE parent[u]
    BY DEF IInv, TypeOK
  <2>2. p # None => p \in live /\ project[p] = project[t]
    BY DEF ParentExists, Home
  <2> QED
    BY <2>1, <2>2 DEF IInv, ParentInProject
<1>3. \A s \in Requests : RequestClaims(home, req[s])'
  <2>1. \A s \in Requests : RequestClaims(home, req'[s])
    BY EndsCarry, ClaimsCarried DEF IInv, TypeOK, Home
  <2> QED
    BY <2>1 DEF RequestClaims
<1>4. Home(home)'
  BY <1>3 DEF Home
<1> QED
  BY <1>1, <1>2, <1>4 DEF IInv, HomeInv

\* A DELETE that leaves no child behind, with the requests that remain.
LEMMA DeleteStep ==
  ASSUME IInv, NEW S \in SUBSET TaskIds, Closed(S), DeleteTasks(S), UNCHANGED used,
         projects' \subseteq projects,
         \A t \in live \ S : project[t] \in projects',
         req' \in [Requests -> RequestState],
         \A s \in Requests : req'[s] \in {req[s], IdleReq}
  PROVE  IInv'
<1>1. TypeOK'
  <2>1. parent' \in [TaskIds -> TaskOrNone] /\ project' \in [TaskIds -> Projects \cup {None}]
    BY DEF DeleteTasks, IInv, TypeOK, TaskOrNone
  <2> QED
    BY <2>1 DEF DeleteTasks, IInv, TypeOK
<1>2. /\ live' = live \ S
      /\ \A t \in live' : t \in live /\ parent'[t] = parent[t] /\ project'[t] = project[t]
  BY DEF DeleteTasks, IInv, TypeOK
<1>3. ParentInProject'
  <2>1. SUFFICES ASSUME NEW t \in live'
                 PROVE  /\ project'[t] \in projects'
                        /\ parent'[t] # None =>
                             parent'[t] \in live' /\ project'[parent'[t]] = project'[t]
    BY DEF ParentInProject
  <2>2. project'[t] \in projects'
    BY <1>2
  <2>3. ASSUME parent'[t] # None
        PROVE  parent'[t] \in live' /\ project'[parent'[t]] = project'[t]
    <3>1. parent[t] \in live /\ project[parent[t]] = project[t]
      BY <1>2, <2>3 DEF IInv, ParentInProject
    <3>2. parent[t] \notin S
      BY <1>2 DEF Closed
    <3> QED
      BY <1>2, <3>1, <3>2
  <2> QED
    BY <2>2, <2>3
<1>4. PICK home \in Homes : Home(home)
  BY DEF IInv, HomeInv
<1>5. \A s \in Requests : RequestClaims(home, req[s])'
  <2>1. SUFFICES ASSUME NEW s \in Requests PROVE RequestClaims(home, req[s])'
    OBVIOUS
  <2>2. CASE req'[s] = IdleReq
    BY <2>2 DEF RequestClaims, IdleReq, Request
  <2>3. CASE req'[s] = req[s]
    <3>1. RequestClaims(home, req[s])
      BY <1>4 DEF Home
    <3> QED
      BY <2>3, <3>1 DEF RequestClaims
  <2> QED
    BY <2>2, <2>3
<1>6. Home(home)'
  BY <1>2, <1>4, <1>5 DEF Home
<1> QED
  BY <1>1, <1>3, <1>6 DEF IInv, HomeInv

\* The rows below a task are what a cascading DELETE may take.
LEMMA DescendantsClosed ==
  ASSUME TypeOK, NEW t
  PROVE  Closed(Descendants(t)) /\ Descendants(t) \in SUBSET TaskIds
BY DEF Closed, Descendants, TypeOK

-----------------------------------------------------------------------------
(* Every step keeps IInv.                                                  *)

LEMMA CreateKeeps == ASSUME IInv, NEW r \in Requests, Create(r) PROVE IInv'
<1> DEFINE p == req[r].parent
           pr == req[r].project
<1>1. CASE ~(pr \in projects /\ ParentExists(p))
  BY <1>1, EndStep DEF Create
<1>2. CASE pr \in projects /\ ParentExists(p)
  <2>1. PICK c \in TaskIds \ used : InsertTask(c, p, pr) /\ UNCHANGED <<projects, torn>>
    BY <1>2 DEF Create
  <2>2. PICK home \in Homes : Home(home)
    BY DEF IInv, HomeInv
  <2>3. p \in TaskOrNone /\ pr \in Projects
    BY <1>2 DEF IInv, TypeOK, RequestState
  <2> DEFINE new == [home EXCEPT ![c] = pr]
  <2>4. new \in Homes /\ new[c] = pr /\ \A t \in used : new[t] = home[t]
    BY <2>1, <2>3 DEF Homes, IInv, TypeOK
  <2>5. p # None => p \in used /\ home[p] = pr
    BY <2>2 DEF Home, RequestClaims, Create
  <2>6. p # None => new[p] = pr
    BY <2>4, <2>5
  <2>7. c \in TaskIds \ live /\ End(r)
    BY <2>1 DEF IInv, TypeOK, Create
  <2> HIDE DEF new, p, pr
  <2> QED
    BY <1>2, <2>1, <2>2, <2>3, <2>4, <2>6, <2>7, InsertStep
<1> QED
  BY <1>1, <1>2

LEMMA SaveInsertKeeps == ASSUME IInv, NEW r \in Requests, SaveInsert(r) PROVE IInv'
<1> DEFINE t == req[r].task
           p == req[r].parent
           pr == req[r].project
<1>1. CASE ~(t \notin live /\ pr \in projects /\ ParentExists(p))
  BY <1>1, EndStep DEF SaveInsert
<1>2. CASE t \notin live /\ pr \in projects /\ ParentExists(p)
  <2>1. InsertTask(t, p, pr) /\ UNCHANGED <<projects, torn>> /\ EndOfLinkWrite(r)
    BY <1>2 DEF SaveInsert
  <2>2. PICK home \in Homes : Home(home)
    BY DEF IInv, HomeInv
  <2>3. t \in used /\ home[t] = pr /\ (p # None => home[p] = pr)
    BY <2>2 DEF Home, RequestClaims, SaveInsert
  <2>4. t \in TaskIds \ live /\ p \in TaskOrNone
    BY <1>2, <2>3 DEF IInv, TypeOK, RequestState
  <2> HIDE DEF t, p, pr
  <2> QED
    BY <1>2, <2>1, <2>2, <2>3, <2>4, InsertStep
<1> QED
  BY <1>1, <1>2

LEMMA SaveUpdateKeeps == ASSUME IInv, NEW r \in Requests, SaveUpdate(r) PROVE IInv'
<1> DEFINE t == req[r].task
           p == req[r].parent
<1>1. CASE ~(req[r].sql = "update" /\ t \in live /\ ParentExists(p))
  BY <1>1, EndStep DEF SaveUpdate, UnchangedRows
<1>2. CASE req[r].sql = "update" /\ t \in live /\ ParentExists(p)
  <2>1. /\ parent' = [parent EXCEPT ![t] = p] /\ EndOfLinkWrite(r)
        /\ torn' \subseteq torn \cup {t}
        /\ UNCHANGED <<projects, live, used, project>>
    BY <1>2 DEF SaveUpdate
  <2>2. PICK home \in Homes : Home(home)
    BY DEF IInv, HomeInv
  <2>3. p # None => home[p] = home[t]
    BY <2>2 DEF Home, RequestClaims, SaveUpdate
  <2>4. p \in TaskOrNone
    BY DEF IInv, TypeOK, RequestState
  <2> HIDE DEF t, p
  <2> QED
    BY <1>2, <2>1, <2>2, <2>3, <2>4, UpdateStep
<1> QED
  BY <1>1, <1>2

LEMMA RemoveKeeps == ASSUME IInv, NEW r \in Requests, Remove(r) PROVE IInv'
<1> DEFINE D == Descendants(req[r].task)
<1>1. Closed(D) /\ D \in SUBSET TaskIds
  BY DescendantsClosed DEF IInv
<1>2. DeleteTasks(D) /\ UNCHANGED used /\ UNCHANGED projects
  BY DEF Remove
<1>3. \A t \in live \ D : project[t] \in projects
  BY DEF IInv, ParentInProject
<1>4. /\ req' \in [Requests -> RequestState]
      /\ \A s \in Requests : req'[s] \in {req[s], IdleReq}
  BY IdleType DEF Remove, End, IInv, TypeOK
<1> HIDE DEF D
<1> QED
  BY <1>1, <1>2, <1>3, <1>4, DeleteStep

\* So is a project, whose tasks have their subtasks in it.
LEMMA ProjectClosed ==
  ASSUME IInv, NEW pr
  PROVE  LET S == {t \in live : project[t] = pr} IN Closed(S) /\ S \in SUBSET TaskIds
<1>1. None \notin live
  BY ConstantsAssumption DEF IInv, TypeOK
<1> QED
  BY <1>1 DEF Closed, IInv, TypeOK, ParentInProject

LEMMA RemoveProjectKeeps == ASSUME IInv, NEW pr \in Projects, RemoveProject(pr) PROVE IInv'
<1> DEFINE S == {t \in live : project[t] = pr}
<1>1. S \in SUBSET TaskIds
  BY DEF IInv, TypeOK
<1>2. Closed(S)
  BY ProjectClosed
<1>3. DeleteTasks(S) /\ UNCHANGED <<used, req>> /\ projects' = projects \ {pr}
  BY DEF RemoveProject
<1>4. \A t \in live \ S : project[t] \in projects'
  BY <1>3 DEF IInv, ParentInProject
<1>5. /\ req' \in [Requests -> RequestState]
      /\ \A s \in Requests : req'[s] \in {req[s], IdleReq}
  BY <1>3 DEF IInv, TypeOK
<1> HIDE DEF S
<1> QED
  BY <1>1, <1>2, <1>3, <1>4, <1>5, DeleteStep

LEMMA BeginCreateKeeps ==
  ASSUME IInv, NEW r \in Requests, NEW p \in TaskOrNone, NEW pr \in Projects,
         BeginCreate(r, p, pr)
  PROVE  IInv'
<1> DEFINE q == Request("insert", None, None, p, pr)
<1>1. PICK home \in Homes : Home(home)
  BY DEF IInv, HomeInv
<1>2. q \in RequestState
  BY RequestType DEF TaskOrNone
<1>3. p # None => p \in used /\ home[p] = pr
  BY <1>1 DEF BeginCreate, Home, IInv, TypeOK
<1>4. RequestClaims(home, q)
  BY <1>3 DEF RequestClaims, Request
<1>5. req' = [req EXCEPT ![r] = q] /\ UnchangedRows
  BY DEF BeginCreate
<1> HIDE DEF q
<1> QED
  BY <1>1, <1>2, <1>4, <1>5, RequestStep

LEMMA BeginKeeps == ASSUME IInv, NEW r \in Requests, Begin(r) PROVE IInv'
<1>1. ASSUME NEW p \in TaskOrNone, NEW pr \in Projects, BeginCreate(r, p, pr) PROVE IInv'
  BY <1>1, BeginCreateKeeps
<1>2. ASSUME NEW t \in TaskIds, BeginUpdate(r, t) PROVE IInv'
  BY <1>2, LoadStep DEF BeginUpdate, TaskOrNone
<1>3. ASSUME NEW t \in TaskIds, BeginRemove(r, t) PROVE IInv'
  BY <1>3, LoadStep DEF BeginRemove, TaskOrNone
<1>4. ASSUME NEW t \in TaskIds, NEW p \in TaskOrNone, BeginMove(r, t, p) PROVE IInv'
  <2>1. CASE p = None
    <3>1. Load(r, t, "select", None, None)
      BY <1>4, <2>1 DEF BeginMove
    <3> QED
      BY <3>1, LoadStep DEF TaskOrNone
  <2>2. CASE p # None
    <3>1. Load(r, t, "findParent", p, None) /\ p \in TaskIds \ {t}
      BY <1>4, <2>2 DEF BeginMove, TaskOrNone
    <3> QED
      BY <3>1, LoadStep DEF TaskOrNone
  <2> QED
    BY <2>1, <2>2
<1> QED
  BY <1>1, <1>2, <1>3, <1>4 DEF Begin

\* A step of moveTask or save between two of its statements: the request goes
\* on as q, holding the same ids.
LEMMA FindNewParentKeeps == ASSUME IInv, NEW r \in Requests, FindNewParent(r) PROVE IInv'
<1> DEFINE q == [req[r] EXCEPT !.pc = "descendants"]
<1>1. CASE End(r)
  BY <1>1, EndStep DEF FindNewParent
<1>2. CASE /\ req[r].target \in live /\ project[req[r].target] = req[r].project
           /\ req' = [req EXCEPT ![r].pc = "descendants"]
  <2>1. PICK home \in Homes : Home(home)
    BY DEF IInv, HomeInv
  <2>2. req[r] \in RequestState /\ req[r].pc = "findParent"
    BY DEF FindNewParent, IInv, TypeOK
  <2>3. q \in RequestState
    BY <2>2 DEF RequestState
  <2>4. RequestClaims(home, req[r])
    BY <2>1 DEF Home
  <2>5. req[r].target \in used /\ home[req[r].target] = req[r].project
    BY <1>2, <2>1 DEF Home, IInv, TypeOK
  <2>6. /\ q.pc = "descendants" /\ q.task = req[r].task /\ q.target = req[r].target
        /\ q.parent = req[r].parent /\ q.project = req[r].project
    BY <2>2 DEF RequestState
  <2>7. RequestClaims(home, q)
    <3> HIDE DEF q
    <3> QED
      BY <2>2, <2>4, <2>5, <2>6 DEF RequestClaims
  <2>8. req' = [req EXCEPT ![r] = q] /\ UnchangedRows
    BY <1>2 DEF FindNewParent
  <2> HIDE DEF q
  <2> QED
    BY <2>1, <2>3, <2>7, <2>8, RequestStep
<1> QED
  BY <1>1, <1>2 DEF FindNewParent

LEMMA ReadDescendantsKeeps == ASSUME IInv, NEW r \in Requests, ReadDescendants(r) PROVE IInv'
<1> DEFINE q == [req[r] EXCEPT !.pc = "depth", !.rows = RowDepths(req[r].task)]
<1>1. CASE End(r)
  BY <1>1, EndStep DEF ReadDescendants
<1>2. CASE req' = [req EXCEPT ![r].pc = "depth", ![r].rows = RowDepths(req[r].task)]
  <2>1. PICK home \in Homes : Home(home)
    BY DEF IInv, HomeInv
  <2>2. req[r] \in RequestState /\ req[r].pc = "descendants"
    BY DEF ReadDescendants, IInv, TypeOK
  <2>3. RowDepths(req[r].task) \in SUBSET Int
    BY <2>2, DepthsAreIntegers DEF IInv, RequestState
  <2>4. q \in RequestState
    BY <2>2, <2>3 DEF RequestState
  <2>5. RequestClaims(home, req[r])
    BY <2>1 DEF Home
  <2>6. /\ q.pc = "depth" /\ q.task = req[r].task /\ q.target = req[r].target
        /\ q.parent = req[r].parent /\ q.project = req[r].project
    BY <2>2 DEF RequestState
  <2>7. RequestClaims(home, q)
    <3> HIDE DEF q
    <3> QED
      BY <2>2, <2>5, <2>6 DEF RequestClaims
  <2>8. req' = [req EXCEPT ![r] = q] /\ UnchangedRows
    BY <1>2 DEF ReadDescendants
  <2> HIDE DEF q
  <2> QED
    BY <2>1, <2>4, <2>7, <2>8, RequestStep
<1> QED
  BY <1>1, <1>2 DEF ReadDescendants

LEMMA ReadDepthKeeps == ASSUME IInv, NEW r \in Requests, ReadDepth(r) PROVE IInv'
<1> DEFINE q == [req[r] EXCEPT !.pc = "select", !.parent = req[r].target]
<1>1. CASE End(r)
  BY <1>1, EndStep DEF ReadDepth
<1>2. CASE req' = [req EXCEPT ![r].pc = "select", ![r].parent = req[r].target]
  <2>1. PICK home \in Homes : Home(home)
    BY DEF IInv, HomeInv
  <2>2. req[r] \in RequestState /\ req[r].pc = "depth"
    BY DEF ReadDepth, IInv, TypeOK
  <2>3. q \in RequestState
    BY <2>2 DEF RequestState
  <2>4. RequestClaims(home, req[r])
    BY <2>1 DEF Home
  <2>5. /\ q.pc = "select" /\ q.task = req[r].task /\ q.target = req[r].target
        /\ q.parent = req[r].target /\ q.project = req[r].project
    BY <2>2 DEF RequestState
  <2>6. RequestClaims(home, q)
    <3> HIDE DEF q
    <3> QED
      BY <2>2, <2>4, <2>5 DEF RequestClaims
  <2>7. req' = [req EXCEPT ![r] = q] /\ UnchangedRows
    BY <1>2 DEF ReadDepth
  <2> HIDE DEF q
  <2> QED
    BY <2>1, <2>3, <2>6, <2>7, RequestStep
<1> QED
  BY <1>1, <1>2 DEF ReadDepth

LEMMA SaveSelectKeeps == ASSUME IInv, NEW r \in Requests, SaveSelect(r) PROVE IInv'
<1>1. PICK sql \in {"insert", "update", "keep"} :
        req' = [req EXCEPT ![r].pc = "write", ![r].sql = sql]
  BY DEF SaveSelect
<1> DEFINE q == [req[r] EXCEPT !.pc = "write", !.sql = sql]
<1>2. PICK home \in Homes : Home(home)
  BY DEF IInv, HomeInv
<1>3. req[r] \in RequestState /\ req[r].pc = "select"
  BY DEF SaveSelect, IInv, TypeOK
<1>4. q \in RequestState
  BY <1>3 DEF RequestState
<1>5. RequestClaims(home, req[r])
  BY <1>2 DEF Home
<1>6. /\ q.pc = "write" /\ q.task = req[r].task /\ q.target = req[r].target
      /\ q.parent = req[r].parent /\ q.project = req[r].project
  BY <1>3 DEF RequestState
<1>7. RequestClaims(home, q)
  <2> HIDE DEF q
  <2> QED
    BY <1>3, <1>5, <1>6 DEF RequestClaims
<1>8. req' = [req EXCEPT ![r] = q] /\ UnchangedRows
  BY <1>1 DEF SaveSelect
<1> HIDE DEF q
<1> QED
  BY <1>2, <1>4, <1>7, <1>8, RequestStep

LEMMA InitHolds == Init => IInv
<1> SUFFICES ASSUME Init PROVE IInv
  OBVIOUS
<1>1. TypeOK
  BY IdleType DEF Init, TypeOK, TaskOrNone
<1>2. ParentInProject
  BY DEF Init, ParentInProject
<1>3. project \in Homes /\ Home(project)
  BY IdleClaims DEF Init, Homes, Home
<1> QED
  BY <1>1, <1>2, <1>3 DEF IInv, HomeInv

LEMMA NextKeeps == IInv /\ [Next]_vars => IInv'
<1> SUFFICES ASSUME IInv, [Next]_vars PROVE IInv'
  OBVIOUS
<1>1. ASSUME NEW r \in Requests, Begin(r) PROVE IInv'
  BY <1>1, BeginKeeps
<1>2. ASSUME NEW r \in Requests, Step(r) PROVE IInv'
  BY <1>2, CreateKeeps, FindNewParentKeeps, ReadDescendantsKeeps, ReadDepthKeeps,
     SaveSelectKeeps, SaveInsertKeeps, SaveUpdateKeeps, RemoveKeeps DEF Step
<1>3. ASSUME NEW pr \in Projects, RemoveProject(pr) PROVE IInv'
  BY <1>3, RemoveProjectKeeps
<1>4. CASE UNCHANGED vars
  <2>1. TypeOK' /\ ParentInProject'
    BY <1>4 DEF vars, IInv, TypeOK, ParentInProject
  <2>2. PICK home \in Homes : Home(home)
    BY DEF IInv, HomeInv
  <2>3. Home(home)'
    BY <1>4, <2>2 DEF vars, Home, RequestClaims
  <2> QED
    BY <2>1, <2>3 DEF IInv, HomeInv
<1> QED
  BY <1>1, <1>2, <1>3, <1>4 DEF Next

LEMMA Invariance == Spec => []IInv
BY InitHolds, NextKeeps, PTL DEF Spec

\* The tables and the requests in progress keep their shape, for any number
\* of them: only uuids that were generated exist, and no request of
\* TasksService writes a row it could not have loaded.
THEOREM TypeCorrect == Spec => []TypeOK
<1>1. IInv => TypeOK
  BY DEF IInv
<1> QED
  BY <1>1, Invariance, PTL

\* However creates, updates, moves and removals overlap, and whatever save
\* brings back, a task's parent exists and is of the task's project.
THEOREM ParentInProjectCorrect == Spec => []ParentInProject
<1>1. IInv => ParentInProject
  BY DEF IInv
<1> QED
  BY <1>1, Invariance, PTL

-----------------------------------------------------------------------------
(* Circles.                                                                *)

\* Task p is not below t, and no task created meanwhile can have put it there.
Apart(t, p) == \E S \in SUBSET TaskIds : t \in S /\ p \notin S /\ Closed(S)

\* What moveTask and save rely on between their statements.
MoveSafe(q) ==
  /\ q.pc = "depth" => Apart(q.task, q.target)
  /\ q.pc = "select" =>
       \/ q.parent = None
       \/ Apart(q.task, q.parent)
       \/ q.task \notin live
       \/ parent[q.task] = q.parent
  /\ q.pc = "write" /\ q.sql = "update" =>
       q.parent = None \/ Apart(q.task, q.parent) \/ q.task \notin live

TreeInv ==
  /\ LoopsAreTorn
  /\ \A r \in Requests : ~req[r].overtaken => MoveSafe(req[r])

\* A new leaf closes no circle, whatever its parent.
LEMMA LoopsInsert ==
  ASSUME IInv, LoopsAreTorn, NEW c \in TaskIds \ live, NEW p \in TaskOrNone, ParentExists(p),
         NEW pr, InsertTask(c, p, pr), UNCHANGED torn
  PROVE  LoopsAreTorn'
<1>1. SUFFICES ASSUME NEW L \in SUBSET live', Loop(L)' PROVE L \cap torn # {}
  BY DEF LoopsAreTorn
<1>2. /\ \A t \in live : parent'[t] = parent[t]
      /\ parent'[c] = p
      /\ live' = live \cup {c}
  BY DEF InsertTask, IInv, TypeOK
<1>3. None \notin live /\ c # None
  BY ConstantsAssumption DEF IInv, TypeOK
<1>4. \A t \in L \ {c} : parent[t] \in L \ {c}
  <2>1. SUFFICES ASSUME NEW t \in L \ {c} PROVE parent[t] \in L \ {c}
    OBVIOUS
  <2>2. t \in live /\ parent[t] \in L
    BY <1>1, <1>2 DEF Loop
  <2>3. parent[t] # None
    BY <1>1, <1>2, <1>3, <2>2
  <2>4. parent[t] \in live
    BY <2>2, <2>3 DEF IInv, ParentInProject
  <2> QED
    BY <2>2, <2>4
<1>5. L \ {c} # {}
  <2>1. p # c
    BY <1>3 DEF ParentExists
  <2> QED
    BY <1>1, <1>2, <2>1 DEF Loop
<1>6. Loop(L \ {c}) /\ L \ {c} \in SUBSET live
  BY <1>1, <1>2, <1>4, <1>5 DEF Loop
<1> QED
  BY <1>6 DEF LoopsAreTorn

LEMMA LoopsDelete ==
  ASSUME IInv, LoopsAreTorn, NEW S, DeleteTasks(S)
  PROVE  LoopsAreTorn'
<1>1. SUFFICES ASSUME NEW L \in SUBSET live', Loop(L)' PROVE L \cap torn' # {}
  BY DEF LoopsAreTorn
<1>2. \A t \in live' : t \in live /\ t \notin S /\ parent'[t] = parent[t]
  BY DEF DeleteTasks, IInv, TypeOK
<1>3. Loop(L) /\ L \in SUBSET live
  BY <1>1, <1>2 DEF Loop
<1>4. PICK u \in L : u \in torn
  BY <1>3 DEF LoopsAreTorn
<1> QED
  BY <1>1, <1>2, <1>4 DEF DeleteTasks

\* Hanging a task below one that is apart from it closes no circle: a circle
\* through the new link would leave the closed set and never come back, and so
\* was one before.  Every other new link is marked.
LEMMA LoopsUpdate ==
  ASSUME IInv, LoopsAreTorn, NEW t \in live, NEW p \in TaskOrNone,
         parent' = [parent EXCEPT ![t] = p], UNCHANGED live,
         \/ torn' = torn \cup {t}
         \/ torn' = torn \ {t} /\ (p = None \/ Apart(t, p))
  PROVE  LoopsAreTorn'
<1>1. SUFFICES ASSUME NEW L \in SUBSET live, Loop(L)' PROVE L \cap torn' # {}
  BY DEF LoopsAreTorn
<1>2. parent'[t] = p /\ \A u \in live \ {t} : parent'[u] = parent[u]
  BY DEF IInv, TypeOK
<1>3. CASE t \notin L
  <2>1. \A u \in L : parent'[u] = parent[u]
    BY <1>1, <1>2, <1>3
  <2>2. Loop(L)
    BY <1>1, <2>1 DEF Loop
  <2>3. PICK u \in L : u \in torn
    BY <2>2 DEF LoopsAreTorn
  <2> QED
    BY <1>3, <2>3
<1>4. CASE t \in L /\ torn' = torn \cup {t}
  BY <1>4
<1>5. CASE t \in L /\ torn' = torn \ {t} /\ Apart(t, p)
  <2>1. PICK S \in SUBSET TaskIds : t \in S /\ p \notin S /\ Closed(S)
    BY <1>5 DEF Apart
  <2>2. p \in L \ S
    BY <1>1, <1>2, <1>5, <2>1 DEF Loop
  <2>3. \A u \in L \ S : parent[u] \in L \ S
    BY <1>1, <1>2, <2>1 DEF Loop, Closed
  <2>4. Loop(L \ S) /\ L \ S \in SUBSET live
    BY <2>2, <2>3 DEF Loop
  <2>5. PICK u \in L \ S : u \in torn
    BY <2>4 DEF LoopsAreTorn
  <2> QED
    BY <1>5, <2>1, <2>5
<1>6. CASE t \in L /\ p = None
  <2>1. None \notin live
    BY ConstantsAssumption DEF IInv, TypeOK
  <2> QED
    BY <1>1, <1>2, <1>6, <2>1 DEF Loop
<1> QED
  BY <1>3, <1>4, <1>5, <1>6

\* What a move has checked survives the creation of a task ...
LEMMA ApartInsert ==
  ASSUME IInv, NEW c \in TaskIds \ used, NEW p, NEW pr, InsertTask(c, p, pr),
         NEW t \in used, NEW u \in used, Apart(t, u)
  PROVE  Apart(t, u)'
<1>1. PICK S \in SUBSET TaskIds : t \in S /\ u \notin S /\ Closed(S)
  BY DEF Apart
<1>2. /\ \A d \in live : parent'[d] = parent[d] /\ parent[d] # c
      /\ live' = live \cup {c}
  BY ConstantsAssumption DEF InsertTask, IInv, TypeOK, ParentInProject
<1>3. Closed(S \cup {c})'
  BY <1>1, <1>2 DEF Closed
<1>4. t \in S \cup {c} /\ u \notin S \cup {c} /\ S \cup {c} \in SUBSET TaskIds
  BY <1>1
<1> QED
  BY <1>3, <1>4 DEF Apart

\* ... and the removal of tasks.
LEMMA ApartDelete ==
  ASSUME IInv, NEW D, DeleteTasks(D), NEW t, NEW u, Apart(t, u)
  PROVE  Apart(t, u)'
<1>1. PICK S \in SUBSET TaskIds : t \in S /\ u \notin S /\ Closed(S)
  BY DEF Apart
<1>2. Closed(S)'
  BY <1>1 DEF Closed, DeleteTasks, IInv, TypeOK
<1> QED
  BY <1>1, <1>2 DEF Apart

LEMMA TreeRequestStep ==
  ASSUME IInv, TreeInv, NEW r \in Requests, NEW q,
         req' = [req EXCEPT ![r] = q], UnchangedRows,
         ~q.overtaken => MoveSafe(q)
  PROVE  TreeInv'
<1>1. LoopsAreTorn'
  BY DEF TreeInv, LoopsAreTorn, Loop, UnchangedRows
<1>2. \A s \in Requests : req'[s] = IF s = r THEN q ELSE req[s]
  BY DEF IInv, TypeOK
<1>3. \A s \in Requests : ~req'[s].overtaken => MoveSafe(req'[s])
  BY <1>2 DEF TreeInv
<1>4. \A s \in Requests : ~req'[s].overtaken => MoveSafe(req[s])'
  BY <1>3 DEF MoveSafe, Apart, Closed, UnchangedRows
<1> QED
  BY <1>1, <1>4 DEF TreeInv

LEMMA IdleSafe == MoveSafe(IdleReq)
BY DEF MoveSafe, IdleReq, Request

LEMMA TreeEndStep ==
  ASSUME IInv, TreeInv, NEW r \in Requests, End(r), UnchangedRows
  PROVE  TreeInv'
BY TreeRequestStep, IdleSafe DEF End

\* A step that writes rows and leaves every request as it is, or ended.
LEMMA TreeRowStep ==
  ASSUME TreeInv, LoopsAreTorn',
         \A s \in Requests :
           req'[s] = IdleReq \/ (req'[s] = req[s] /\ (MoveSafe(req[s]) => MoveSafe(req[s])'))
  PROVE  TreeInv'
<1>1. SUFFICES ASSUME NEW s \in Requests, ~req'[s].overtaken
               PROVE  MoveSafe(req[s])'
  BY DEF TreeInv
<1>2. CASE req'[s] = IdleReq
  BY <1>2 DEF MoveSafe, IdleReq, Request
<1>3. CASE req'[s] = req[s] /\ (MoveSafe(req[s]) => MoveSafe(req[s])')
  BY <1>1, <1>3 DEF TreeInv
<1> QED
  BY <1>2, <1>3

\* A save that writes a link leaves nobody to rely on what was there before.
LEMMA LinkWritten ==
  ASSUME TypeOK, NEW r \in Requests, EndOfLinkWrite(r), NEW s \in Requests,
         ~req'[s].overtaken
  PROVE  req'[s].pc \notin {"depth", "select", "write"}
<1>1. CASE s = r
  BY <1>1 DEF EndOfLinkWrite, IdleReq, Request
<1>2. CASE s # r
  <2>1. req[s] \in RequestState
    BY DEF TypeOK
  <2> QED
    BY <1>2, <2>1 DEF EndOfLinkWrite, RequestState
<1> QED
  BY <1>1, <1>2

LEMMA LinkWriteKeepsTree ==
  ASSUME IInv, NEW r \in Requests, EndOfLinkWrite(r), LoopsAreTorn'
  PROVE  TreeInv'
BY LinkWritten DEF IInv, TreeInv, MoveSafe

LEMMA CreateKeepsTree == ASSUME IInv, TreeInv, NEW r \in Requests, Create(r) PROVE TreeInv'
<1> DEFINE p == req[r].parent
           pr == req[r].project
<1>1. CASE ~(pr \in projects /\ ParentExists(p))
  BY <1>1, TreeEndStep DEF Create
<1>2. CASE pr \in projects /\ ParentExists(p)
  <2>1. PICK c \in TaskIds \ used : InsertTask(c, p, pr) /\ UNCHANGED torn
    BY <1>2 DEF Create
  <2>2. c \in TaskIds \ live /\ p \in TaskOrNone
    BY <2>1 DEF IInv, TypeOK, RequestState
  <2>3. LoopsAreTorn'
    <3> HIDE DEF p, pr
    <3> QED
      BY <1>2, <2>1, <2>2, LoopsInsert DEF TreeInv
  <2>4. ASSUME NEW s \in Requests, s # r
        PROVE  req'[s] = req[s] /\ (MoveSafe(req[s]) => MoveSafe(req[s])')
    <3>1. req'[s] = req[s]
      BY <2>4 DEF Create, End, IInv, TypeOK
    <3>2. PICK home \in Homes : Home(home)
      BY DEF IInv, HomeInv
    <3>3. RequestClaims(home, req[s])
      BY <3>2 DEF Home
    <3>4. ASSUME NEW t \in used, NEW u \in used, Apart(t, u) PROVE Apart(t, u)'
      <4> HIDE DEF p, pr
      <4> QED
        BY <2>1, <3>4, ApartInsert
    <3>5. \A t \in used : (t \in live' <=> t \in live) /\ parent'[t] = parent[t]
      BY <2>1 DEF InsertTask, IInv, TypeOK
    <3> HIDE DEF p, pr
    <3> QED
      BY <3>1, <3>3, <3>4, <3>5 DEF MoveSafe, RequestClaims
  <2>5. req'[r] = IdleReq
    BY DEF Create, End, IInv, TypeOK
  <2> QED
    BY <2>3, <2>4, <2>5, TreeRowStep
<1> QED
  BY <1>1, <1>2

\* A DELETE, with the requests that remain.
LEMMA TreeDeleteStep ==
  ASSUME IInv, TreeInv, NEW D, DeleteTasks(D),
         \A s \in Requests : req'[s] \in {req[s], IdleReq}
  PROVE  TreeInv'
<1>1. LoopsAreTorn'
  BY LoopsDelete DEF TreeInv
<1>2. ASSUME NEW s \in Requests, MoveSafe(req[s]), req'[s] = req[s]
      PROVE  MoveSafe(req[s])'
  <2>1. ASSUME NEW t, NEW u, Apart(t, u) PROVE Apart(t, u)'
    BY <2>1, ApartDelete
  <2>2. live' \subseteq live /\ \A t \in live' : parent'[t] = parent[t]
    BY DEF DeleteTasks, IInv, TypeOK
  <2> QED
    BY <1>2, <2>1, <2>2 DEF MoveSafe
<1> QED
  BY <1>1, <1>2, TreeRowStep

LEMMA SaveInsertKeepsTree ==
  ASSUME IInv, TreeInv, NEW r \in Requests, SaveInsert(r)
  PROVE  TreeInv'
<1> DEFINE t == req[r].task
           p == req[r].parent
           pr == req[r].project
<1>1. CASE ~(t \notin live /\ pr \in projects /\ ParentExists(p))
  BY <1>1, TreeEndStep DEF SaveInsert
<1>2. CASE t \notin live /\ pr \in projects /\ ParentExists(p)
  <2>1. InsertTask(t, p, pr) /\ UNCHANGED torn /\ EndOfLinkWrite(r)
    BY <1>2 DEF SaveInsert
  <2>2. PICK home \in Homes : Home(home)
    BY DEF IInv, HomeInv
  <2>3. t \in used
    BY <2>2 DEF Home, RequestClaims, SaveInsert
  <2>4. t \in TaskIds \ live /\ p \in TaskOrNone
    BY <1>2, <2>3 DEF IInv, TypeOK, RequestState
  <2>5. LoopsAreTorn'
    <3> HIDE DEF t, p, pr
    <3> QED
      BY <1>2, <2>1, <2>4, LoopsInsert DEF TreeInv
  <2> QED
    BY <2>1, <2>5, LinkWriteKeepsTree
<1> QED
  BY <1>1, <1>2

LEMMA SaveUpdateKeepsTree ==
  ASSUME IInv, TreeInv, NEW r \in Requests, SaveUpdate(r)
  PROVE  TreeInv'
<1> DEFINE t == req[r].task
           p == req[r].parent
<1>1. CASE ~(req[r].sql = "update" /\ t \in live /\ ParentExists(p))
  BY <1>1, TreeEndStep DEF SaveUpdate
<1>2. CASE req[r].sql = "update" /\ t \in live /\ ParentExists(p)
  <2>1. /\ parent' = [parent EXCEPT ![t] = p] /\ UNCHANGED live
        /\ torn' = IF req[r].overtaken THEN torn \cup {t} ELSE torn \ {t}
        /\ EndOfLinkWrite(r)
    BY <1>2 DEF SaveUpdate
  <2>2. ~req[r].overtaken => p = None \/ Apart(t, p)
    BY <1>2 DEF TreeInv, MoveSafe, SaveUpdate
  <2>3. p \in TaskOrNone
    BY DEF IInv, TypeOK, RequestState
  <2>4. LoopsAreTorn'
    <3> HIDE DEF t, p
    <3> QED
      BY <1>2, <2>1, <2>2, <2>3, LoopsUpdate DEF TreeInv
  <2> QED
    BY <2>1, <2>4, LinkWriteKeepsTree
<1> QED
  BY <1>1, <1>2

LEMMA DeletesKeepTree ==
  ASSUME IInv, TreeInv, (\E r \in Requests : Remove(r)) \/ (\E pr \in Projects : RemoveProject(pr))
  PROVE  TreeInv'
<1>1. \A s \in Requests : req'[s] \in {req[s], IdleReq}
  BY DEF Remove, RemoveProject, End, IInv, TypeOK
<1>2. \E D : DeleteTasks(D)
  BY DEF Remove, RemoveProject
<1> QED
  BY <1>1, <1>2, TreeDeleteStep

LEMMA LoadKeepsTree ==
  ASSUME IInv, TreeInv, NEW r \in Requests, NEW t \in TaskIds,
         NEW pc \in {"findParent", "select", "delete"},
         NEW target, NEW p \in {None, parent[t]}, Load(r, t, pc, target, p)
  PROVE  TreeInv'
<1> DEFINE q == Request(pc, t, target, p, project[t])
<1>1. q.pc = pc /\ q.task = t /\ q.parent = p
  BY DEF Request
<1>2. req' = [req EXCEPT ![r] = q] /\ UnchangedRows
  BY DEF Load
<1> HIDE DEF q
<1>3. MoveSafe(q)
  BY <1>1 DEF MoveSafe
<1> QED
  BY <1>2, <1>3, TreeRequestStep

LEMMA BeginKeepsTree == ASSUME IInv, TreeInv, NEW r \in Requests, Begin(r) PROVE TreeInv'
<1>1. ASSUME NEW p \in TaskOrNone, NEW pr \in Projects, BeginCreate(r, p, pr) PROVE TreeInv'
  <2> DEFINE q == Request("insert", None, None, p, pr)
  <2>1. MoveSafe(q)
    BY DEF MoveSafe, Request
  <2>2. req' = [req EXCEPT ![r] = q] /\ UnchangedRows
    BY <1>1 DEF BeginCreate
  <2> HIDE DEF q
  <2> QED
    BY <2>1, <2>2, TreeRequestStep
<1>2. ASSUME NEW t \in TaskIds, BeginUpdate(r, t) PROVE TreeInv'
  BY <1>2, LoadKeepsTree DEF BeginUpdate
<1>3. ASSUME NEW t \in TaskIds, BeginRemove(r, t) PROVE TreeInv'
  BY <1>3, LoadKeepsTree DEF BeginRemove
<1>4. ASSUME NEW t \in TaskIds, NEW p \in TaskOrNone, BeginMove(r, t, p) PROVE TreeInv'
  BY <1>4, LoadKeepsTree DEF BeginMove
<1> QED
  BY <1>1, <1>2, <1>3, <1>4 DEF Begin

LEMMA FindNewParentKeepsTree ==
  ASSUME IInv, TreeInv, NEW r \in Requests, FindNewParent(r)
  PROVE  TreeInv'
<1> DEFINE q == [req[r] EXCEPT !.pc = "descendants"]
<1>1. q.pc = "descendants"
  BY DEF IInv, TypeOK, RequestState
<1>2. (End(r) \/ req' = [req EXCEPT ![r] = q]) /\ UnchangedRows
  BY DEF FindNewParent
<1> HIDE DEF q
<1>3. MoveSafe(q)
  BY <1>1 DEF MoveSafe
<1> QED
  BY <1>1, <1>2, <1>3, TreeRequestStep, TreeEndStep

\* The rows read below the task, with the task, are the closed set that shows
\* the new parent apart from it.
LEMMA ReadDescendantsKeepsTree ==
  ASSUME IInv, TreeInv, NEW r \in Requests, ReadDescendants(r)
  PROVE  TreeInv'
<1> DEFINE t == req[r].task
           D == Descendants(t)
           q == [req[r] EXCEPT !.pc = "depth", !.rows = RowDepths(t)]
<1>1. CASE End(r)
  BY <1>1, TreeEndStep DEF ReadDescendants
<1>2. CASE req[r].target \notin D /\ req' = [req EXCEPT ![r] = q]
  <2>1. PICK home \in Homes : Home(home)
    BY DEF IInv, HomeInv
  <2>2. t \in TaskIds /\ req[r].target # t
    BY <2>1 DEF Home, RequestClaims, ReadDescendants, IInv, TypeOK
  <2>3. D \in SUBSET TaskIds /\ Closed(D)
    BY DescendantsClosed DEF IInv
  <2>4. ASSUME NEW d \in live, parent[d] \in D \cup {t} PROVE d \in D \cup {t}
    <3>1. CASE parent[d] \in D
      BY <2>3, <3>1 DEF Closed
    <3>2. CASE parent[d] = t
      BY <3>2 DEF Descendants, Closed
    <3> QED
      BY <2>4, <3>1, <3>2
  <2>5. Closed(D \cup {t})
    <3> HIDE DEF D, t
    <3> QED
      BY <2>4 DEF Closed
  <2>6. Apart(t, req[r].target)
    <3> HIDE DEF D, t
    <3> QED
      BY <1>2, <2>2, <2>3, <2>5 DEF Apart
  <2>7. q.pc = "depth" /\ q.task = t /\ q.target = req[r].target
    BY DEF IInv, TypeOK, RequestState
  <2>8. MoveSafe(q)
    <3> HIDE DEF q, t
    <3> QED
      BY <2>6, <2>7 DEF MoveSafe
  <2>9. UnchangedRows
    BY DEF ReadDescendants
  <2> HIDE DEF q, t, D
  <2> QED
    BY <1>2, <2>7, <2>8, <2>9, TreeRequestStep
<1> QED
  BY <1>1, <1>2 DEF ReadDescendants

LEMMA ReadDepthKeepsTree ==
  ASSUME IInv, TreeInv, NEW r \in Requests, ReadDepth(r)
  PROVE  TreeInv'
<1> DEFINE q == [req[r] EXCEPT !.pc = "select", !.parent = req[r].target]
<1>1. /\ q.pc = "select" /\ q.task = req[r].task /\ q.parent = req[r].target
      /\ q.overtaken = req[r].overtaken
  BY DEF IInv, TypeOK, RequestState
<1>2. ~req[r].overtaken => Apart(req[r].task, req[r].target)
  BY DEF ReadDepth, TreeInv, MoveSafe
<1>3. (End(r) \/ req' = [req EXCEPT ![r] = q]) /\ UnchangedRows
  BY DEF ReadDepth
<1> HIDE DEF q
<1>4. ~q.overtaken => MoveSafe(q)
  BY <1>1, <1>2 DEF MoveSafe
<1> QED
  BY <1>1, <1>3, <1>4, TreeRequestStep, TreeEndStep

LEMMA SaveSelectKeepsTree ==
  ASSUME IInv, TreeInv, NEW r \in Requests, SaveSelect(r)
  PROVE  TreeInv'
<1>1. PICK sql \in {"insert", "update", "keep"} :
        /\ req' = [req EXCEPT ![r].pc = "write", ![r].sql = sql]
        /\ sql = "update" => req[r].task \in live /\ parent[req[r].task] # req[r].parent
  BY DEF SaveSelect
<1> DEFINE q == [req[r] EXCEPT !.pc = "write", !.sql = sql]
<1>2. /\ q.pc = "write" /\ q.task = req[r].task /\ q.parent = req[r].parent
      /\ q.sql = sql /\ q.overtaken = req[r].overtaken
  BY DEF IInv, TypeOK, RequestState
<1>3. (~req[r].overtaken => MoveSafe(req[r])) /\ req[r].pc = "select"
  BY DEF TreeInv, SaveSelect
<1>4. req' = [req EXCEPT ![r] = q] /\ UnchangedRows
  BY <1>1 DEF SaveSelect
<1> HIDE DEF q
<1>5. ~q.overtaken => MoveSafe(q)
  BY <1>1, <1>2, <1>3 DEF MoveSafe
<1> QED
  BY <1>4, <1>5, TreeRequestStep

LEMMA TreeInit == Init => TreeInv
<1> SUFFICES ASSUME Init PROVE TreeInv
  OBVIOUS
<1>1. LoopsAreTorn
  BY DEF Init, LoopsAreTorn, Loop
<1>2. \A r \in Requests : req[r] = IdleReq
  BY DEF Init
<1> QED
  BY <1>1, <1>2, IdleSafe DEF TreeInv

LEMMA TreeNext == IInv /\ TreeInv /\ [Next]_vars => TreeInv'
<1> SUFFICES ASSUME IInv, TreeInv, [Next]_vars PROVE TreeInv'
  OBVIOUS
<1>1. ASSUME NEW r \in Requests, Begin(r) PROVE TreeInv'
  BY <1>1, BeginKeepsTree
<1>2. ASSUME NEW r \in Requests, Step(r) PROVE TreeInv'
  BY <1>2, CreateKeepsTree, FindNewParentKeepsTree, ReadDescendantsKeepsTree,
     ReadDepthKeepsTree, SaveSelectKeepsTree, SaveInsertKeepsTree, SaveUpdateKeepsTree,
     DeletesKeepTree DEF Step
<1>3. ASSUME NEW pr \in Projects, RemoveProject(pr) PROVE TreeInv'
  BY <1>3, DeletesKeepTree
<1>4. CASE UNCHANGED vars
  BY <1>4 DEF vars, TreeInv, LoopsAreTorn, Loop, MoveSafe, Apart, Closed
<1> QED
  BY <1>1, <1>2, <1>3, <1>4 DEF Next

\* However creates, updates, moves and removals overlap, every circle of parent
\* links runs through a task that was hung there by a save another save had
\* overtaken: for every other request the cycle check of moveTask is still true
\* when save writes the new parent.
THEOREM LoopsAreTornCorrect == Spec => []LoopsAreTorn
<1>1. Init => IInv /\ TreeInv
  BY InitHolds, TreeInit
<1>2. IInv /\ TreeInv /\ [Next]_vars => (IInv /\ TreeInv)'
  BY NextKeeps, TreeNext
<1>3. IInv /\ TreeInv => LoopsAreTorn
  BY DEF TreeInv
<1> QED
  BY <1>1, <1>2, <1>3, PTL DEF Spec

-----------------------------------------------------------------------------
(* Depths.  The rows of the queries in terms of two values, the existing    *)
(* tasks L and their parent links par, so that a lemma can compare the      *)
(* trees before and after a step.                                           *)

Shut(L, par, S) == \A c \in L : par[c] \in S => c \in S

Below(L, par, t) ==
  {d \in L : \A S \in SUBSET TaskIds : t \in S /\ Shut(L, par, S) => d \in S}

Above(L, par, t) == {a \in L : t \in Below(L, par, a)}

Depth(L, par, t) == IF t \in L THEN Cardinality(Above(L, par, t)) - 1 ELSE 0

\* Every link leads to a task.
Links(L, par) ==
  /\ L \subseteq TaskIds
  /\ \A t \in L : par[t] = None \/ par[t] \in L

LEMMA TreeTerms ==
  ASSUME NEW t
  PROVE  /\ Descendants(t) = Below(live, parent, t)
         /\ Ancestors(t) = Above(live, parent, t)
         /\ DepthOf(t) = Depth(live, parent, t)
<1>1. \A u : Descendants(u) = Below(live, parent, u)
  BY DEF Descendants, Below, Closed, Shut
<1>2. Ancestors(t) = Above(live, parent, t)
  BY <1>1 DEF Ancestors, Above
<1> QED
  BY <1>1, <1>2 DEF DepthOf, Depth

LEMMA TreeTermsAfter ==
  ASSUME NEW CONSTANT t
  PROVE  DepthOf(t)' = Depth(live', parent', t)
<1>1. \A u : Descendants(u)' = Below(live', parent', u)
  BY DEF Descendants, Below, Closed, Shut
<1>2. Ancestors(t)' = Above(live', parent', t)
  BY <1>1 DEF Ancestors, Above
<1> QED
  BY <1>2 DEF DepthOf, Depth

LEMMA TreeLinks == ASSUME TypeOK, ParentInProject PROVE Links(live, parent)
BY DEF TypeOK, ParentInProject, Links

LEMMA TreeLinksAfter == ASSUME TypeOK', ParentInProject' PROVE Links(live', parent')
BY DEF TypeOK, ParentInProject, Links

\* What lies below a task: the least shut set that holds the task.
LEMMA BelowBasics ==
  ASSUME NEW L, NEW par, Links(L, par), NEW t \in L
  PROVE  /\ t \in Below(L, par, t)
         /\ Below(L, par, t) \subseteq L
         /\ Shut(L, par, Below(L, par, t))
<1>1. t \in Below(L, par, t) /\ Below(L, par, t) \subseteq L
  BY DEF Below
<1>2. Shut(L, par, Below(L, par, t))
  BY DEF Below, Shut
<1> QED
  BY <1>1, <1>2

LEMMA BelowLeast ==
  ASSUME NEW L, NEW par, NEW t, NEW S \in SUBSET TaskIds, t \in S, Shut(L, par, S)
  PROVE  Below(L, par, t) \subseteq S
BY DEF Below

\* A task below another has its parent there.
LEMMA BelowStep ==
  ASSUME NEW L, NEW par, Links(L, par), NEW a \in L,
         NEW d \in Below(L, par, a), d # a
  PROVE  par[d] \in Below(L, par, a)
<1> DEFINE B == Below(L, par, a)
<1>1. a \in B /\ B \subseteq L /\ Shut(L, par, B)
  BY BelowBasics
<1>2. ASSUME par[d] \notin B PROVE FALSE
  <2>1. B \ {d} \in SUBSET TaskIds /\ a \in B \ {d}
    BY <1>1 DEF Links
  <2>2. Shut(L, par, B \ {d})
    <3> HIDE DEF B
    <3> QED
      BY <1>1, <1>2 DEF Shut
  <2>3. B \subseteq B \ {d}
    BY <2>1, <2>2, BelowLeast
  <2> QED
    BY <2>3
<1> QED
  BY <1>2

LEMMA AboveFinite ==
  ASSUME NEW L, NEW par, Links(L, par), NEW t
  PROVE  IsFiniteSet(Above(L, par, t)) /\ Cardinality(Above(L, par, t)) \in Nat
<1>1. Above(L, par, t) \subseteq TaskIds
  BY DEF Above, Links
<1>2. IsFiniteSet(Above(L, par, t))
  BY <1>1, ConstantsAssumption, FS_Subset
<1> QED
  BY <1>2, FS_CardinalityType

\* A task is one deeper than its parent.
LEMMA DepthOfChild ==
  ASSUME NEW L, NEW par, Links(L, par), NEW t \in L, par[t] \in L,
         par[t] \notin Below(L, par, t)
  PROVE  Depth(L, par, t) = Depth(L, par, par[t]) + 1
<1> DEFINE p == par[t]
           A == Above(L, par, p)
<1>1. t \in Below(L, par, t) /\ \A a \in L : Shut(L, par, Below(L, par, a))
  BY BelowBasics
<1>2. ASSUME NEW a \in L PROVE t \in Below(L, par, a) <=> a = t \/ p \in Below(L, par, a)
  BY <1>1, <1>2, BelowStep DEF Shut
<1>3. Above(L, par, t) = A \cup {t}
  BY <1>2 DEF Above
<1>4. t \notin A
  BY DEF Above
<1>5. IsFiniteSet(A) /\ Cardinality(A) \in Nat
  BY AboveFinite
<1>6. Cardinality(A \cup {t}) = Cardinality(A) + 1
  BY <1>4, <1>5, FS_AddElement
<1> QED
  BY <1>3, <1>5, <1>6 DEF Depth

\* What is above a task decides its depth.
LEMMA SameDepth ==
  ASSUME NEW L, NEW par, NEW L2, NEW par2, NEW x \in L \cap L2,
         Above(L, par, x) = Above(L2, par2, x)
  PROVE  Depth(L, par, x) = Depth(L2, par2, x)
BY DEF Depth

\* A new leaf leaves every depth as it was ...
LEMMA DepthInsert ==
  ASSUME NEW L, NEW par, Links(L, par), NEW c \in TaskIds \ L,
         NEW par2, Links(L \cup {c}, par2), \A t \in L : par2[t] = par[t],
         NEW x \in L
  PROVE  Depth(L \cup {c}, par2, x) = Depth(L, par, x)
<1> DEFINE L2 == L \cup {c}
<1>1. \A t \in L : par2[t] # c
  BY ConstantsAssumption DEF Links
<1>2. ASSUME NEW a \in L PROVE x \in Below(L, par, a) <=> x \in Below(L2, par2, a)
  <2> DEFINE B == Below(L, par, a)
             B2 == Below(L2, par2, a)
  <2>1. a \in B /\ B \subseteq L /\ Shut(L, par, B)
    BY BelowBasics
  <2>2. a \in B2 /\ B2 \subseteq L2 /\ Shut(L2, par2, B2)
    BY BelowBasics
  <2>3. B \cup {c} \in SUBSET TaskIds /\ B2 \in SUBSET TaskIds
    BY <2>1, <2>2 DEF Links
  <2>4. Shut(L, par, B2) /\ Shut(L2, par2, B \cup {c})
    <3> HIDE DEF B, B2
    <3> QED
      BY <1>1, <2>1, <2>2 DEF Shut
  <2>5. B \subseteq B2 /\ B2 \subseteq B \cup {c}
    BY <2>1, <2>2, <2>3, <2>4, BelowLeast
  <2> QED
    BY <2>5
<1>3. x \notin Below(L2, par2, c)
  <2>1. Shut(L2, par2, {c}) /\ {c} \in SUBSET TaskIds
    BY <1>1 DEF Shut
  <2>2. Below(L2, par2, c) \subseteq {c}
    BY <2>1, BelowLeast
  <2> QED
    BY <2>2
<1>4. Above(L, par, x) = Above(L2, par2, x)
  BY <1>2, <1>3 DEF Above
<1> QED
  BY <1>4, SameDepth

\* ... and so does the removal of a shut set, for the tasks that remain ...
LEMMA DepthDelete ==
  ASSUME NEW L, NEW par, Links(L, par), NEW S \in SUBSET TaskIds, Shut(L, par, S),
         NEW par2, Links(L \ S, par2), \A t \in L \ S : par2[t] = par[t],
         NEW x \in L \ S
  PROVE  Depth(L \ S, par2, x) = Depth(L, par, x)
<1> DEFINE L2 == L \ S
<1>1. ASSUME NEW a \in L2 PROVE x \in Below(L, par, a) <=> x \in Below(L2, par2, a)
  <2> DEFINE B == Below(L, par, a)
             B2 == Below(L2, par2, a)
  <2>1. a \in B /\ B \subseteq L /\ Shut(L, par, B)
    BY BelowBasics
  <2>2. a \in B2 /\ B2 \subseteq L2 /\ Shut(L2, par2, B2)
    BY BelowBasics
  <2>3. B2 \cup S \in SUBSET TaskIds /\ B \in SUBSET TaskIds
    BY <2>1, <2>2 DEF Links
  <2>4. Shut(L, par, B2 \cup S) /\ Shut(L2, par2, B)
    <3> HIDE DEF B, B2
    <3> QED
      BY <2>1, <2>2 DEF Shut
  <2>5. B2 \subseteq B /\ B \subseteq B2 \cup S
    BY <2>1, <2>2, <2>3, <2>4, BelowLeast
  <2> QED
    BY <2>5
<1>2. ASSUME NEW a \in L \cap S PROVE x \notin Below(L, par, a)
  BY <1>2, BelowLeast
<1>3. Above(L, par, x) = Above(L2, par2, x)
  BY <1>1, <1>2 DEF Above
<1> QED
  BY <1>3, SameDepth

\* ... and hanging a task elsewhere takes the same tasks along ...
LEMMA BelowRelink ==
  ASSUME NEW L, NEW par, Links(L, par), NEW t \in L,
         NEW par2, Links(L, par2), \A u \in L \ {t} : par2[u] = par[u]
  PROVE  Below(L, par, t) = Below(L, par2, t)
<1> DEFINE T == Below(L, par, t)
           T2 == Below(L, par2, t)
<1>1. t \in T /\ T \subseteq L /\ Shut(L, par, T)
  BY BelowBasics
<1>2. t \in T2 /\ T2 \subseteq L /\ Shut(L, par2, T2)
  BY BelowBasics
<1>3. Shut(L, par, T2) /\ Shut(L, par2, T)
  <2> HIDE DEF T, T2
  <2> QED
    BY <1>1, <1>2 DEF Shut
<1> QED
  BY <1>1, <1>2, <1>3, BelowLeast DEF Links

\* ... and leaves the depth of its new parent as it was.
LEMMA DepthRelink ==
  ASSUME NEW L, NEW par, Links(L, par), NEW t \in L,
         NEW par2, Links(L, par2), \A u \in L \ {t} : par2[u] = par[u],
         par2[t] \in L \ Below(L, par, t)
  PROVE  Depth(L, par2, par2[t]) = Depth(L, par, par2[t])
<1> DEFINE p == par2[t]
           T == Below(L, par, t)
           T2 == Below(L, par2, t)
<1>1. t \in T /\ T \subseteq L /\ Shut(L, par, T)
  BY BelowBasics
<1>2. t \in T2 /\ T2 \subseteq L /\ Shut(L, par2, T2)
  BY BelowBasics
<1>3. T = T2
  BY BelowRelink
<1>4. p \notin T
  OBVIOUS
<1>5. ASSUME NEW a \in L PROVE p \in Below(L, par, a) <=> p \in Below(L, par2, a)
  <2> DEFINE B == Below(L, par, a)
             B2 == Below(L, par2, a)
  <2>1. a \in B /\ B \subseteq L /\ Shut(L, par, B)
    BY BelowBasics
  <2>2. a \in B2 /\ B2 \subseteq L /\ Shut(L, par2, B2)
    BY BelowBasics
  <2>3. B \cup T \in SUBSET TaskIds /\ B2 \cup T \in SUBSET TaskIds
    BY <1>1, <2>1, <2>2 DEF Links
  <2>4. Shut(L, par, B2 \cup T) /\ Shut(L, par2, B \cup T)
    <3>1. Shut(L, par2, T)
      BY <1>2, <1>3
    <3> HIDE DEF B, B2, T
    <3> QED
      BY <1>1, <2>1, <2>2, <3>1 DEF Shut
  <2>5. B \subseteq B2 \cup T /\ B2 \subseteq B \cup T
    BY <2>1, <2>2, <2>3, <2>4, BelowLeast
  <2> QED
    BY <1>4, <2>5
<1>6. Above(L, par, p) = Above(L, par2, p)
  BY <1>5 DEF Above
<1> QED
  BY <1>6, SameDepth

\* What ReadDepth has checked still holds at the write, unless another save has
\* overtaken this one: the new parent leaves room for the rows read below the
\* task.
DepthSafe(q) ==
  q.pc \in {"select", "write"} =>
    IF q.target = None
      THEN q.rows = {}
      ELSE /\ q.parent = q.target
           /\ q.parent \in live =>
                \A h \in q.rows \cup {0} : DepthOf(q.parent) + 1 + h <= MaxDepth

DepthInv == \A r \in Requests : ~req[r].overtaken => DepthSafe(req[r])

LEMMA DepthSameRows ==
  ASSUME UNCHANGED <<live, parent>>, NEW t
  PROVE  DepthOf(t)' = DepthOf(t)
BY TreeTerms, TreeTermsAfter

LEMMA IdleDepthSafe == DepthSafe(IdleReq) /\ DepthSafe(IdleReq)'
BY DEF DepthSafe, IdleReq, Request

LEMMA DepthRequestStep ==
  ASSUME IInv, DepthInv, NEW r \in Requests, NEW q, ~q.overtaken => DepthSafe(q),
         req' = [req EXCEPT ![r] = q], UnchangedRows
  PROVE  DepthInv'
<1>1. \A s \in Requests : ~req'[s].overtaken => DepthSafe(req'[s])
  BY DEF DepthInv, IInv, TypeOK
<1>2. \A t : DepthOf(t)' = DepthOf(t)
  BY DepthSameRows DEF UnchangedRows
<1>3. \A s \in Requests : ~req'[s].overtaken => DepthSafe(req[s])'
  BY <1>1, <1>2 DEF DepthSafe, UnchangedRows
<1> QED
  BY <1>3 DEF DepthInv

LEMMA DepthEndStep ==
  ASSUME IInv, DepthInv, NEW r \in Requests, End(r), UnchangedRows
  PROVE  DepthInv'
BY DepthRequestStep, IdleDepthSafe DEF End

\* A request that holds ids in use is as safe after a step that brings no task
\* back and changes no depth.
LEMMA DepthRowStep ==
  ASSUME IInv, DepthInv,
         \A t \in used : t \in live' => t \in live /\ DepthOf(t)' = DepthOf(t),
         \A s \in Requests : req'[s] \in {req[s], IdleReq}
  PROVE  DepthInv'
<1>1. PICK home \in Homes : Home(home)
  BY DEF IInv, HomeInv
<1>2. ASSUME NEW s \in Requests, req'[s] = req[s], ~req'[s].overtaken PROVE DepthSafe(req[s])'
  <2>1. DepthSafe(req[s]) /\ RequestClaims(home, req[s])
    BY <1>1, <1>2 DEF DepthInv, Home
  <2> QED
    BY <1>2, <2>1 DEF DepthSafe, RequestClaims
<1>3. ASSUME NEW s \in Requests, req'[s] = IdleReq PROVE DepthSafe(req[s])'
  BY <1>3 DEF DepthSafe, IdleReq, Request
<1> QED
  BY <1>2, <1>3 DEF DepthInv

LEMMA CreateKeepsDepth ==
  ASSUME IInv, IInv', DepthInv, NEW r \in Requests, Create(r)
  PROVE  DepthInv'
<1> DEFINE p == req[r].parent
           pr == req[r].project
<1>1. CASE ~(pr \in projects /\ ParentExists(p))
  BY <1>1, DepthEndStep DEF Create
<1>2. CASE pr \in projects /\ ParentExists(p)
  <2>1. PICK c \in TaskIds \ used : InsertTask(c, p, pr)
    BY <1>2 DEF Create
  <2>2. /\ c \in TaskIds \ live /\ live' = live \cup {c}
        /\ \A t \in live : parent'[t] = parent[t]
    BY <2>1 DEF InsertTask, IInv, TypeOK
  <2>3. Links(live, parent) /\ Links(live', parent')
    BY TreeLinks, TreeLinksAfter DEF IInv
  <2>4. ASSUME NEW t \in live PROVE DepthOf(t)' = DepthOf(t)
    <3>1. Depth(live', parent', t) = Depth(live, parent, t)
      BY <2>2, <2>3, DepthInsert
    <3> QED
      BY <3>1, TreeTerms, TreeTermsAfter
  <2>5. \A t \in used : t \in live' => t \in live
    BY <2>1, <2>2
  <2>6. \A s \in Requests : req'[s] \in {req[s], IdleReq}
    BY DEF Create, End, IInv, TypeOK
  <2> QED
    BY <2>2, <2>4, <2>5, <2>6, DepthRowStep
<1> QED
  BY <1>1, <1>2

LEMMA DeletesKeepDepth ==
  ASSUME IInv, IInv', DepthInv,
         (\E r \in Requests : Remove(r)) \/ (\E pr \in Projects : RemoveProject(pr))
  PROVE  DepthInv'
<1>1. \A s \in Requests : req'[s] \in {req[s], IdleReq}
  BY DEF Remove, RemoveProject, End, IInv, TypeOK
<1>2. PICK S \in SUBSET TaskIds : Closed(S) /\ DeleteTasks(S)
  <2>1. ASSUME NEW r \in Requests, Remove(r)
        PROVE  \E S \in SUBSET TaskIds : Closed(S) /\ DeleteTasks(S)
    BY <2>1, DescendantsClosed DEF Remove, IInv
  <2>2. ASSUME NEW pr \in Projects, RemoveProject(pr)
        PROVE  \E S \in SUBSET TaskIds : Closed(S) /\ DeleteTasks(S)
    BY <2>2, ProjectClosed DEF RemoveProject, IInv
  <2> QED
    BY <2>1, <2>2
<1>3. live' = live \ S /\ \A t \in live \ S : parent'[t] = parent[t]
  BY <1>2 DEF DeleteTasks, IInv, TypeOK
<1>4. Links(live, parent) /\ Links(live', parent') /\ Shut(live, parent, S)
  BY <1>2, TreeLinks, TreeLinksAfter DEF IInv, Closed, Shut
<1>5. ASSUME NEW t \in live' PROVE DepthOf(t)' = DepthOf(t)
  <2>1. Depth(live', parent', t) = Depth(live, parent, t)
    BY <1>3, <1>4, <1>5, DepthDelete
  <2> QED
    BY <2>1, TreeTerms, TreeTermsAfter
<1> QED
  BY <1>1, <1>3, <1>5, DepthRowStep

LEMMA BeginKeepsDepth == ASSUME IInv, DepthInv, NEW r \in Requests, Begin(r) PROVE DepthInv'
<1>1. ASSUME NEW p \in TaskOrNone, NEW pr \in Projects, BeginCreate(r, p, pr) PROVE DepthInv'
  <2> DEFINE q == Request("insert", None, None, p, pr)
  <2>1. DepthSafe(q)
    BY DEF DepthSafe, Request
  <2>2. req' = [req EXCEPT ![r] = q] /\ UnchangedRows
    BY <1>1 DEF BeginCreate
  <2> HIDE DEF q
  <2> QED
    BY <2>1, <2>2, DepthRequestStep
<1>2. ASSUME NEW t \in TaskIds, NEW pc \in {"findParent", "select", "delete"},
             NEW target, NEW p, Load(r, t, pc, target, p),
             pc = "select" => target = None
      PROVE  DepthInv'
  <2> DEFINE q == Request(pc, t, target, p, project[t])
  <2>1. DepthSafe(q)
    BY <1>2 DEF DepthSafe, Request
  <2>2. req' = [req EXCEPT ![r] = q] /\ UnchangedRows
    BY <1>2 DEF Load
  <2> HIDE DEF q
  <2> QED
    BY <2>1, <2>2, DepthRequestStep
<1>3. ASSUME NEW t \in TaskIds, BeginUpdate(r, t) PROVE DepthInv'
  BY <1>2, <1>3 DEF BeginUpdate
<1>4. ASSUME NEW t \in TaskIds, BeginRemove(r, t) PROVE DepthInv'
  BY <1>2, <1>4 DEF BeginRemove
<1>5. ASSUME NEW t \in TaskIds, NEW p \in TaskOrNone, BeginMove(r, t, p) PROVE DepthInv'
  BY <1>2, <1>5 DEF BeginMove
<1> QED
  BY <1>1, <1>3, <1>4, <1>5 DEF Begin

LEMMA ReadsKeepDepth ==
  ASSUME IInv, DepthInv, NEW r \in Requests,
         FindNewParent(r) \/ ReadDescendants(r) \/ ReadDepth(r) \/ SaveSelect(r)
  PROVE  DepthInv'
<1>1. CASE FindNewParent(r)
  <2> DEFINE q == [req[r] EXCEPT !.pc = "descendants"]
  <2>1. q.pc = "descendants"
    BY DEF IInv, TypeOK, RequestState
  <2>2. (End(r) \/ req' = [req EXCEPT ![r] = q]) /\ UnchangedRows
    BY <1>1 DEF FindNewParent
  <2> HIDE DEF q
  <2>3. DepthSafe(q)
    BY <2>1 DEF DepthSafe
  <2> QED
    BY <2>2, <2>3, DepthRequestStep, DepthEndStep
<1>2. CASE ReadDescendants(r)
  <2> DEFINE q == [req[r] EXCEPT !.pc = "depth", !.rows = RowDepths(req[r].task)]
  <2>1. q.pc = "depth"
    BY DEF IInv, TypeOK, RequestState
  <2>2. (End(r) \/ req' = [req EXCEPT ![r] = q]) /\ UnchangedRows
    BY <1>2 DEF ReadDescendants
  <2> HIDE DEF q
  <2>3. DepthSafe(q)
    BY <2>1 DEF DepthSafe
  <2> QED
    BY <2>2, <2>3, DepthRequestStep, DepthEndStep
<1>3. CASE ReadDepth(r)
  <2> DEFINE p == req[r].target
             q == [req[r] EXCEPT !.pc = "select", !.parent = p]
  <2>1. q.target = p /\ q.parent = p /\ q.rows = req[r].rows
    BY DEF IInv, TypeOK, RequestState
  <2>2. UnchangedRows
    BY <1>3 DEF ReadDepth
  <2>3. CASE End(r)
    BY <2>2, <2>3, DepthEndStep
  <2>4. CASE /\ req' = [req EXCEPT ![r] = q]
             /\ \A h \in req[r].rows \cup {0} : ~(DepthOf(p) + 1 + h > MaxDepth)
    <3>1. p \in TaskIds /\ p # None
      <4>1. PICK home \in Homes : Home(home)
        BY DEF IInv, HomeInv
      <4>2. RequestClaims(home, req[r]) /\ req[r].pc = "depth"
        BY <1>3, <4>1 DEF Home, ReadDepth
      <4> QED
        BY <4>2, ConstantsAssumption DEF RequestClaims, IInv, TypeOK
    <3>2. DepthOf(p) \in Int /\ req[r].rows \subseteq Int
      BY <3>1, DepthTypes DEF IInv, TypeOK, RequestState
    <3>3. \A h \in req[r].rows \cup {0} : DepthOf(p) + 1 + h <= MaxDepth
      <4> HIDE DEF p
      <4> QED
        BY <2>4, <3>2, ConstantsAssumption
    <3> HIDE DEF p, q
    <3>4. DepthSafe(q)
      BY <2>1, <3>1, <3>3 DEF DepthSafe
    <3> QED
      BY <2>2, <2>4, <3>4, DepthRequestStep
  <2> QED
    BY <1>3, <2>3, <2>4 DEF ReadDepth
<1>4. CASE SaveSelect(r)
  <2>1. PICK sql \in {"insert", "update", "keep"} :
          req' = [req EXCEPT ![r].pc = "write", ![r].sql = sql]
    BY <1>4 DEF SaveSelect
  <2> DEFINE q == [req[r] EXCEPT !.pc = "write", !.sql = sql]
  <2>2. /\ q.task = req[r].task /\ q.parent = req[r].parent
        /\ q.target = req[r].target /\ q.rows = req[r].rows
        /\ q.overtaken = req[r].overtaken
    BY DEF IInv, TypeOK, RequestState
  <2>3. (~req[r].overtaken => DepthSafe(req[r])) /\ req[r].pc = "select"
    BY <1>4 DEF DepthInv, SaveSelect
  <2>4. req' = [req EXCEPT ![r] = q] /\ UnchangedRows
    BY <1>4, <2>1 DEF SaveSelect
  <2> HIDE DEF q
  <2>5. ~q.overtaken => DepthSafe(q)
    BY <2>2, <2>3 DEF DepthSafe
  <2> QED
    BY <2>4, <2>5, DepthRequestStep
<1> QED
  BY <1>1, <1>2, <1>3, <1>4

LEMMA SavesKeepDepth ==
  ASSUME IInv, DepthInv, NEW r \in Requests, SaveInsert(r) \/ SaveUpdate(r)
  PROVE  DepthInv'
<1>1. CASE End(r) /\ UnchangedRows
  BY <1>1, DepthEndStep
<1>2. CASE EndOfLinkWrite(r)
  BY <1>2, LinkWritten DEF IInv, DepthInv, DepthSafe
<1> QED
  BY <1>1, <1>2 DEF SaveInsert, SaveUpdate

LEMMA DepthInit == Init => DepthInv
BY IdleDepthSafe DEF Init, DepthInv

LEMMA DepthNext == IInv /\ DepthInv /\ [Next]_vars => DepthInv'
<1> SUFFICES ASSUME IInv, DepthInv, [Next]_vars PROVE DepthInv'
  OBVIOUS
<1>1. IInv'
  BY NextKeeps
<1>2. ASSUME NEW r \in Requests, Begin(r) PROVE DepthInv'
  BY <1>2, BeginKeepsDepth
<1>3. ASSUME NEW r \in Requests, Step(r) PROVE DepthInv'
  BY <1>1, <1>3, CreateKeepsDepth, ReadsKeepDepth, SavesKeepDepth, DeletesKeepDepth DEF Step
<1>4. ASSUME NEW pr \in Projects, RemoveProject(pr) PROVE DepthInv'
  BY <1>1, <1>4, DeletesKeepDepth
<1>5. CASE UNCHANGED vars
  <2>1. \A t : DepthOf(t)' = DepthOf(t)
    BY <1>5, DepthSameRows DEF vars
  <2> QED
    BY <1>5, <2>1 DEF vars, DepthInv, DepthSafe
<1> QED
  BY <1>2, <1>3, <1>4, <1>5 DEF Next

\* A request leaves its write by its save.
LEMMA SaveEnds ==
  ASSUME IInv, Next, NEW r \in Requests, req[r].pc = "write", req'[r].pc = "idle"
  PROVE  SaveInsert(r) \/ SaveUpdate(r)
<1>1. ASSUME NEW s \in Requests, End(s) \/ EndOfLinkWrite(s) PROVE s = r
  BY <1>1 DEF End, EndOfLinkWrite, IInv, TypeOK, RequestState
<1>2. ASSUME NEW s \in Requests, NEW q, req' = [req EXCEPT ![s] = q], q.pc # "idle" PROVE FALSE
  BY <1>2 DEF IInv, TypeOK
<1>3. ASSUME NEW s \in Requests, Begin(s) PROVE FALSE
  BY <1>2, <1>3 DEF Begin, BeginCreate, BeginUpdate, BeginRemove, BeginMove, Load, Request
<1>4. ASSUME NEW s \in Requests,
             FindNewParent(s) \/ ReadDescendants(s) \/ ReadDepth(s) \/ SaveSelect(s)
      PROVE  FALSE
  <2>1. s # r
    BY <1>4 DEF FindNewParent, ReadDescendants, ReadDepth, SaveSelect
  <2>2. req'[r] = req[r]
    BY <1>4, <2>1 DEF FindNewParent, ReadDescendants, ReadDepth, SaveSelect, End, IInv, TypeOK
  <2> QED
    BY <2>2
<1>5. ASSUME NEW s \in Requests, Step(s) PROVE SaveInsert(r) \/ SaveUpdate(r)
  BY <1>1, <1>4, <1>5 DEF Step, Create, SaveInsert, SaveUpdate, Remove
<1>6. ASSUME NEW pr \in Projects, RemoveProject(pr) PROVE FALSE
  BY <1>6 DEF RemoveProject
<1> QED
  BY <1>3, <1>5, <1>6 DEF Next

\* A task apart from another is not below it.
LEMMA ApartNotBelow ==
  ASSUME NEW t, NEW p, Apart(t, p)
  PROVE  p \notin Below(live, parent, t)
<1>1. PICK S \in SUBSET TaskIds : t \in S /\ p \notin S /\ Closed(S)
  BY DEF Apart
<1> QED
  BY <1>1 DEF Closed, Below, Shut

\* Where a save that was not overtaken hangs the task: one below a parent whose
\* depth is as it was.
LEMMA DepthOfSaved ==
  ASSUME IInv, IInv', TreeInv, NEW r \in Requests, NEW t \in TaskIds,
         SaveInsert(r) \/ SaveUpdate(r), ~req[r].overtaken, req[r].task = t,
         parent'[t] \notin {None, parent[t]}
  PROVE  LET p == req[r].parent
         IN  p # None /\ p \in live /\ DepthOf(t)' = DepthOf(p) + 1
<1> DEFINE p == req[r].parent
<1>1. Links(live, parent) /\ Links(live', parent')
  BY TreeLinks, TreeLinksAfter DEF IInv
<1>2. /\ t \in live' /\ parent'[t] = p /\ p # None /\ p \in live /\ p \in live'
      /\ \A u \in live \ {t} : parent'[u] = parent[u]
      /\ \/ t \notin live /\ live' = live \cup {t}
         \/ t \in live /\ live' = live /\ Apart(t, p)
  <2>1. CASE SaveInsert(r)
    BY <2>1 DEF SaveInsert, InsertTask, UnchangedRows, ParentExists, IInv, TypeOK
  <2>2. CASE SaveUpdate(r)
    <3>1. /\ t \in live /\ ParentExists(p) /\ req[r].sql = "update" /\ req[r].pc = "write"
          /\ parent' = [parent EXCEPT ![t] = p] /\ live' = live
      BY <2>2 DEF SaveUpdate, UnchangedRows
    <3>2. p = None \/ Apart(t, p)
      BY <3>1 DEF TreeInv, MoveSafe
    <3> QED
      BY <3>1, <3>2 DEF ParentExists, IInv, TypeOK
  <2> QED
    BY <2>1, <2>2
<1>3. /\ Depth(live', parent', p) = Depth(live, parent, p)
      /\ p \notin Below(live', parent', t)
  <2> HIDE DEF p
  <2>1. CASE t \notin live /\ live' = live \cup {t}
    <3>1. Shut(live', parent', {t})
      BY <1>1, <1>2, <2>1, ConstantsAssumption DEF Shut, Links
    <3>2. p \notin Below(live', parent', t)
      BY <1>2, <2>1, <3>1, BelowLeast
    <3> QED
      BY <1>1, <1>2, <2>1, <3>2, DepthInsert
  <2>2. CASE t \in live /\ live' = live /\ Apart(t, p)
    <3>1. p \notin Below(live, parent, t)
      BY <2>2, ApartNotBelow
    <3>2. Below(live, parent, t) = Below(live, parent', t)
      BY <1>1, <1>2, <2>2, BelowRelink
    <3> QED
      BY <1>1, <1>2, <2>2, <3>1, <3>2, DepthRelink
  <2> QED
    BY <1>2, <2>1, <2>2
<1>4. Depth(live', parent', t) = Depth(live', parent', p) + 1
  BY <1>1, <1>2, <1>3, DepthOfChild
<1>5. DepthOf(t)' = Depth(live', parent', t) /\ DepthOf(p) = Depth(live, parent, p)
  BY TreeTerms, TreeTermsAfter
<1> QED
  BY <1>2, <1>3, <1>4, <1>5

LEMMA MoveDepth ==
  ASSUME IInv, TreeInv, DepthInv, Next, NEW r \in Requests, NEW t \in TaskIds,
         req[r].pc = "write", req'[r].pc = "idle", ~req[r].overtaken, req[r].task = t,
         parent'[t] \notin {None, parent[t]},
         NEW d \in Descendants(t)', NEW h \in req[r].rows,
         ~(DepthOf(d)' - DepthOf(t)' > h)
  PROVE  DepthOf(d)' <= MaxDepth
<1> DEFINE p == req[r].parent
<1>1. IInv'
  BY NextKeeps
<1>2. SaveInsert(r) \/ SaveUpdate(r)
  BY SaveEnds
<1>3. p # None /\ p \in live /\ DepthOf(t)' = DepthOf(p) + 1
  BY <1>1, <1>2, DepthOfSaved
<1>4. DepthSafe(req[r])
  BY DEF DepthInv
<1>5. req[r].target # None
  <2>1. req[r].target = None => req[r].rows = {}
    BY <1>4 DEF DepthSafe
  <2> QED
    BY <2>1
<1>6. DepthOf(p) + 1 + h <= MaxDepth
  BY <1>3, <1>4, <1>5 DEF DepthSafe
<1>7. DepthOf(d)' \in Int /\ DepthOf(t)' \in Int /\ h \in Int /\ DepthOf(p) \in Int
  <2>1. Links(live', parent')
    BY <1>1, TreeLinksAfter DEF IInv
  <2>2. \A u : DepthOf(u)' \in Int
    BY <2>1, AboveFinite, TreeTermsAfter DEF Depth
  <2> QED
    BY <2>2, DepthTypes DEF IInv, TypeOK, RequestState
<1> QED
  BY <1>3, <1>6, <1>7, ConstantsAssumption

\* However many requests overlap, a move that no other save has overtaken puts
\* no row below MAX_DEPTH that its height check has seen: what others create
\* and remove between its queries and its save changes the depth of the new
\* parent as little as the save itself does.
THEOREM MoveRespectsDepthCorrect == Spec => MoveRespectsDepth
<1>1. Init => IInv /\ TreeInv /\ DepthInv
  BY InitHolds, TreeInit, DepthInit
<1>2. IInv /\ TreeInv /\ DepthInv /\ [Next]_vars => (IInv /\ TreeInv /\ DepthInv)'
  BY NextKeeps, TreeNext, DepthNext
<1> DEFINE Respects ==
      \A r \in Requests, t \in TaskIds :
        ( /\ req[r].pc = "write" /\ req'[r].pc = "idle" /\ ~req[r].overtaken
          /\ req[r].task = t /\ parent'[t] \notin {None, parent[t]} ) =>
          \A d \in Descendants(t)' :
            \/ DepthOf(d)' <= MaxDepth
            \/ \A h \in req[r].rows : DepthOf(d)' - DepthOf(t)' > h
<1>3. IInv /\ TreeInv /\ DepthInv /\ [Next]_vars => [Respects]_vars
  BY MoveDepth
<1>4. Spec => [][Respects]_vars
  <2> HIDE DEF Respects
  <2> QED
    BY <1>1, <1>2, <1>3, PTL DEF Spec
<1> QED
  BY <1>4 DEF MoveRespectsDepth

-----------------------------------------------------------------------------
(* TaskTree implements TaskHierarchy.  A statement that writes is the step   *)
(* of its request; every other one leaves the hierarchy as it is.           *)

LEMMA HierarchyTerms == \A t : Hierarchy!Subtree(t) = Descendants(t)
BY DEF Hierarchy!Subtree, Descendants, Closed

LEMMA UnchangedHierarchy ==
  ASSUME UnchangedRows PROVE UNCHANGED Hierarchy!hierarchy
BY DEF UnchangedRows, Hierarchy!hierarchy

\* A request's ids still tell the project it has checked.
LEMMA MayStillHang ==
  ASSUME IInv, NEW r \in Requests, req[r].pc \in {"insert", "write"}, ParentExists(req[r].parent)
  PROVE  Hierarchy!MayHang(req[r].parent, req[r].project)
<1>1. PICK home \in Homes : Home(home)
  BY DEF IInv, HomeInv
<1>2. req[r].parent # None => home[req[r].parent] = req[r].project
  BY <1>1 DEF Home, RequestClaims
<1> QED
  BY <1>1, <1>2 DEF Home, ParentExists, Hierarchy!MayHang

LEMMA InsertIsAdd ==
  ASSUME IInv, NEW r \in Requests, NEW t \in TaskIds \ live,
         req[r].pc \in {"insert", "write"},
         req[r].project \in projects, ParentExists(req[r].parent),
         InsertTask(t, req[r].parent, req[r].project), UNCHANGED <<projects, torn>>
  PROVE  Hierarchy!Next
<1>1. Hierarchy!Add(t, req[r].parent, req[r].project)
  BY MayStillHang DEF Hierarchy!Add, InsertTask
<1>2. req[r].parent \in TaskIds \cup {None} /\ req[r].project \in Projects
  BY DEF IInv, TypeOK, RequestState, TaskOrNone
<1> QED
  BY <1>1, <1>2 DEF Hierarchy!Next

\* A link to a task apart does not hang the task below itself; one written by
\* an overtaken save is marked.
LEMMA UpdateIsMove ==
  ASSUME IInv, TreeInv, NEW r \in Requests, SaveUpdate(r),
         req[r].sql = "update", req[r].task \in live, ParentExists(req[r].parent)
  PROVE  Hierarchy!Next
<1> DEFINE p == req[r].parent
           t == req[r].task
<1>1. p \in TaskIds \cup {None} /\ t \in TaskIds /\ req[r].pc = "write"
  BY DEF SaveUpdate, IInv, TypeOK, RequestState, TaskOrNone
<1>2. \/ torn' = torn \cup {t}
      \/ torn' = torn \ {t} /\ p \notin Descendants(t)
  <2>1. CASE req[r].overtaken
    BY <2>1 DEF SaveUpdate
  <2>2. CASE ~req[r].overtaken
    <3>1. torn' = torn \ {t}
      BY <2>2 DEF SaveUpdate
    <3>2. p = None \/ Apart(t, p)
      BY <1>1, <2>2 DEF TreeInv, MoveSafe
    <3>3. None \notin Descendants(t)
      BY ConstantsAssumption DEF Descendants, IInv, TypeOK
    <3> HIDE DEF p, t
    <3>4. p \notin Descendants(t)
      BY <3>2, <3>3, ApartNotBelow, TreeTerms
    <3> QED
      BY <3>1, <3>4
  <2> QED
    BY <2>1, <2>2
<1>3. Hierarchy!MayHang(p, project[t])
  <2>1. PICK home \in Homes : Home(home)
    BY DEF IInv, HomeInv
  <2>2. project[t] = req[r].project
    BY <1>1, <2>1 DEF Home, RequestClaims
  <2> QED
    BY <1>1, <2>2, MayStillHang
<1>4. Hierarchy!Move(t, p)
  <2>1. /\ parent' = [parent EXCEPT ![t] = p]
        /\ UNCHANGED <<projects, live, project>>
    BY DEF SaveUpdate
  <2> HIDE DEF p, t
  <2> QED
    BY <1>2, <1>3, <2>1, HierarchyTerms DEF Hierarchy!Move, t
<1> QED
  BY <1>1, <1>4 DEF Hierarchy!Next

\* A cascade finds nothing below a task that is gone already.
LEMMA RemoveIsRemove ==
  ASSUME IInv, NEW r \in Requests, Remove(r)
  PROVE  Hierarchy!Next \/ UNCHANGED Hierarchy!hierarchy
<1> DEFINE t == req[r].task
<1>1. DeleteTasks(Descendants(t)) /\ UNCHANGED projects
  BY DEF Remove
<1>2. CASE t \in live
  <2>1. Hierarchy!Remove(t)
    BY <1>1, <1>2, HierarchyTerms DEF Hierarchy!Remove, Hierarchy!Drop, DeleteTasks
  <2>2. t \in TaskIds
    BY <1>2 DEF IInv, TypeOK
  <2> QED
    BY <2>1, <2>2 DEF Hierarchy!Next
<1>3. CASE t \notin live
  <2>1. t \in TaskIds
    <3>1. PICK home \in Homes : Home(home)
      BY DEF IInv, HomeInv
    <3> QED
      BY <3>1 DEF Home, RequestClaims, Remove, IInv, TypeOK
  <2>2. Closed({t})
    BY <1>3, <2>1, ConstantsAssumption DEF Closed, IInv, ParentInProject
  <2>3. Descendants(t) = {}
    BY <1>3, <2>1, <2>2 DEF Descendants
  <2>4. UNCHANGED <<live, parent, project, torn>>
    BY <1>1, <2>3 DEF DeleteTasks, IInv, TypeOK
  <2> QED
    BY <1>1, <2>4 DEF Hierarchy!hierarchy
<1> QED
  BY <1>2, <1>3

LEMMA HierarchyStep ==
  ASSUME IInv, TreeInv, [Next]_vars
  PROVE  [Hierarchy!Next]_(Hierarchy!hierarchy)
<1>1. ASSUME NEW r \in Requests, Begin(r) PROVE UNCHANGED Hierarchy!hierarchy
  BY <1>1, UnchangedHierarchy
     DEF Begin, BeginCreate, BeginUpdate, BeginRemove, BeginMove, Load
<1>2. ASSUME NEW r \in Requests, Create(r)
      PROVE  Hierarchy!Next \/ UNCHANGED Hierarchy!hierarchy
  <2>1. CASE ~(req[r].project \in projects /\ ParentExists(req[r].parent))
    BY <1>2, <2>1, UnchangedHierarchy DEF Create
  <2>2. CASE req[r].project \in projects /\ ParentExists(req[r].parent)
    <3>1. PICK t \in TaskIds \ used :
            InsertTask(t, req[r].parent, req[r].project) /\ UNCHANGED <<projects, torn>>
      BY <1>2, <2>2 DEF Create
    <3>2. t \in TaskIds \ live /\ req[r].pc = "insert"
      BY <1>2, <3>1 DEF Create, IInv, TypeOK
    <3> QED
      BY <2>2, <3>1, <3>2, InsertIsAdd
  <2> QED
    BY <2>1, <2>2
<1>3. ASSUME NEW r \in Requests, SaveInsert(r)
      PROVE  Hierarchy!Next \/ UNCHANGED Hierarchy!hierarchy
  <2>1. PICK home \in Homes : Home(home)
    BY DEF IInv, HomeInv
  <2>2. req[r].task \in TaskIds /\ req[r].pc = "write"
    BY <1>3, <2>1 DEF Home, RequestClaims, SaveInsert, IInv, TypeOK
  <2> QED
    BY <1>3, <2>2, InsertIsAdd, UnchangedHierarchy DEF SaveInsert
<1>4. ASSUME NEW r \in Requests, SaveUpdate(r)
      PROVE  Hierarchy!Next \/ UNCHANGED Hierarchy!hierarchy
  BY <1>4, UpdateIsMove, UnchangedHierarchy DEF SaveUpdate
<1>5. ASSUME NEW pr \in Projects, RemoveProject(pr) PROVE Hierarchy!Next
  <2>1. Hierarchy!RemoveProject(pr)
    BY <1>5 DEF Hierarchy!RemoveProject, Hierarchy!Drop, RemoveProject, DeleteTasks
  <2> QED
    BY <2>1 DEF Hierarchy!Next
<1>6. ASSUME NEW r \in Requests, Step(r)
      PROVE  Hierarchy!Next \/ UNCHANGED Hierarchy!hierarchy
  BY <1>2, <1>3, <1>4, <1>6, RemoveIsRemove, UnchangedHierarchy
     DEF Step, FindNewParent, ReadDescendants, ReadDepth, SaveSelect
<1>7. CASE UNCHANGED vars
  BY <1>7 DEF vars, Hierarchy!hierarchy
<1> QED
  BY <1>1, <1>5, <1>6, <1>7 DEF Next

\* For any number of requests that create, update, move and remove tasks and
\* remove projects, the statements of TasksService add up to the steps of the
\* hierarchy: each request takes effect at one moment, and none but an
\* overtaken save hangs a task below itself.
THEOREM HierarchyImplemented == Spec => ImplementsHierarchy
<1>1. Init => IInv /\ TreeInv /\ Hierarchy!Init
  BY InitHolds, TreeInit DEF Init, Hierarchy!Init
<1>2. IInv /\ TreeInv /\ [Next]_vars => (IInv /\ TreeInv)'
  BY NextKeeps, TreeNext
<1>3. IInv /\ TreeInv /\ [Next]_vars => [Hierarchy!Next]_(Hierarchy!hierarchy)
  BY HierarchyStep
<1> QED
  BY <1>1, <1>2, <1>3, PTL DEF Spec, ImplementsHierarchy, Hierarchy!Spec
=============================================================================
