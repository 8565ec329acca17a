------------------------- MODULE NotificationsProofs -------------------------
(***************************************************************************)
(* Theorems about Notifications, for every value of its constants.         *)
(***************************************************************************)
EXTENDS Notifications, SequenceTheorems, FiniteSetTheorems, TLAPS

-----------------------------------------------------------------------------
(* The records of the model.                                               *)

\* What a request holds, by where it is.
LEMMA RequestFields ==
  ASSUME NEW q \in RequestState
  PROVE  /\ q.pc \in {"select", "write"} => q.task \in Tasks /\ q.entity \in TaskRow
         /\ q.pc \in {"select", "write", "emit"} => q.events \in SUBSET Input
         /\ q.pc \in {"select", "write"} => q.assigns \in BOOLEAN
         /\ q.pc = "write" => q.assignee \in BOOLEAN /\ q.status \in BOOLEAN
         /\ q.pc = "insert" => /\ q.comment \in Comments /\ q.author \in Users
                               /\ q.parent \in Comments \cup {None} /\ q.task \in Tasks
                               /\ q.parentAuthor \in UserOrNone /\ q.assignee \in UserOrNone
         /\ q.pc \in {"editSelect", "editWrite", "remove"} => q.comment \in Comments
         /\ q.pc \in {"editSelect", "editWrite"} => q.row \in CommentRow
         /\ q.pc = "editWrite" => q.found \in BOOLEAN
<1>1. q.pc \in {"select", "write"} => q.task \in Tasks /\ q.entity \in TaskRow
  BY DEF RequestState
<1>2. q.pc \in {"select", "write", "emit"} => q.events \in SUBSET Input
  BY DEF RequestState
<1>3. q.pc = "write" => q.assignee \in BOOLEAN /\ q.status \in BOOLEAN
  BY DEF RequestState
<1>8. q.pc \in {"select", "write"} => q.assigns \in BOOLEAN
  BY DEF RequestState
<1>4. q.pc = "insert" => /\ q.comment \in Comments /\ q.author \in Users
                         /\ q.parent \in Comments \cup {None} /\ q.task \in Tasks
                         /\ q.parentAuthor \in UserOrNone /\ q.assignee \in UserOrNone
  BY DEF RequestState
<1>5. q.pc \in {"editSelect", "editWrite", "remove"} => q.comment \in Comments
  BY DEF RequestState
<1>6. q.pc \in {"editSelect", "editWrite"} => q.row \in CommentRow
  BY DEF RequestState
<1>7. q.pc = "editWrite" => q.found \in BOOLEAN
  BY DEF RequestState
<1> QED
  BY <1>1, <1>2, <1>3, <1>4, <1>5, <1>6, <1>7, <1>8

LEMMA IdleRequest == Idle \in RequestState /\ Idle.pc = "idle"
  BY DEF Idle, RequestState

LEMMA EmitRequest ==
  ASSUME NEW is \in SUBSET Input
  PROVE  [pc |-> "emit", events |-> is] \in RequestState
  BY DEF RequestState

LEMMA WriteRequest ==
  ASSUME NEW t \in Tasks, NEW e \in TaskRow, NEW is \in SUBSET Input,
         NEW b \in BOOLEAN, NEW a \in BOOLEAN, NEW s \in BOOLEAN
  PROVE  [pc |-> "write", task |-> t, entity |-> e, events |-> is, assigns |-> b,
          assignee |-> a, status |-> s] \in RequestState
  BY DEF RequestState

\* The mappers ask for notifications of a task or of a comment.
LEMMA NoticeType ==
  ASSUME NEW to \in UserOrNone, NEW actor \in Users
  PROVE  /\ \A t \in Tasks, type \in {"TASK_ASSIGNED", "TASK_COMPLETED", "COMMENT_ADDED"} :
              Notice(to, actor, type, t) \in SUBSET Input
         /\ \A c \in Comments : Notice(to, actor, "COMMENT_REPLY", c) \in SUBSET Input
  BY DEF Notice, UserOrNone, Input

LEMMA UpdateEventsType ==
  ASSUME NEW t \in Tasks, NEW prev \in TaskRow, NEW entity \in TaskRow, NEW actor \in Users
  PROVE  UpdateEvents(t, prev, entity, actor) \in SUBSET Input
<1>1. entity.assignee \in UserOrNone /\ entity.creator \in UserOrNone
  BY DEF TaskRow
<1> QED
  BY <1>1, NoticeType DEF UpdateEvents, MapTaskAssigned, MapTaskCompleted

LEMMA CountAssignmentType ==
  ASSUME assigned \in [Input -> Nat], NEW t, NEW u, NEW actor, CountAssignment(t, u, actor)
  PROVE  assigned' \in [Input -> Nat]
  BY DEF CountAssignment

LEMMA SpendType ==
  ASSUME NEW e \in Event, budget \in [Event -> Nat], Spend(e)
  PROVE  budget' \in [Event -> Nat]
  BY DEF Spend

-----------------------------------------------------------------------------
(* Typing.                                                                 *)

LEMMA InitTypeOK == Init => TypeOK
<1> SUFFICES ASSUME Init PROVE TypeOK
  OBVIOUS
<1>1. queueEnabled \in BOOLEAN /\ budget \in [Event -> Nat]
  BY ConstantsAssumption DEF ConstantsAssumption, Init
<1>2. task \in [Tasks -> TaskRow] /\ comment \in [Comments -> CommentRow]
  BY DEF Init, TaskRow, CommentRow, UserOrNone
<1>3. req \in [Requests -> RequestState]
  BY IdleRequest DEF Init
<1>4. jobs \in [Input -> Job] /\ kept \in Seq(Input)
  BY DEF Init, Job, NoJob
<1>5. /\ emitted \in [Input -> Nat] /\ pending \in [Input -> Nat] /\ inbox \in [Input -> Nat]
      /\ assigned \in [Input -> Nat] /\ cut \in [Input -> Nat]
      /\ lost \in [Input -> Nat] /\ swallowed \in [Input -> Nat]
  BY DEF Init
<1> QED
  BY <1>1, <1>2, <1>3, <1>4, <1>5 DEF TypeOK

LEMMA TaskRequestsType ==
  ASSUME TypeOK, NEW r \in Requests,
         \/ \E t \in Tasks, actor \in Users, u \in UserOrNone :
              \/ CreateTask(r, t, actor, u)
              \/ \E st \in {"open", "DONE"} : BeginUpdate(r, t, actor, u, st)
         \/ SaveSelect(r) \/ SaveWrite(r)
  PROVE  TypeOK'
<1>1. ASSUME NEW t \in Tasks, NEW actor \in Users, NEW u \in UserOrNone, CreateTask(r, t, actor, u)
      PROVE  TypeOK'
  <2>1. [pc |-> "emit", events |-> MapTaskAssigned(t, u, actor)] \in RequestState
    BY NoticeType, EmitRequest DEF MapTaskAssigned
  <2>2. [status |-> "open", assignee |-> u, setBy |-> actor, creator |-> actor] \in TaskRow
    BY DEF TaskRow, UserOrNone
  <2>3. assigned' \in [Input -> Nat]
    BY <1>1, CountAssignmentType DEF CreateTask, TypeOK
  <2> QED
    BY <1>1, <2>1, <2>2, <2>3 DEF CreateTask, UnchangedDelivery, TypeOK
<1>2. ASSUME NEW t \in Tasks, NEW actor \in Users, NEW u \in UserOrNone,
             NEW st \in {"open", "DONE"}, BeginUpdate(r, t, actor, u, st)
      PROVE  TypeOK'
  <2> DEFINE prev == task[t]
             entity == [prev EXCEPT !.assignee = u, !.status = st,
                                    !.setBy = IF u = prev.assignee THEN @ ELSE actor]
             assigns == u # prev.assignee
             q == [pc |-> "select", task |-> t, entity |-> entity,
                   events |-> UpdateEvents(t, prev, entity, actor), assigns |-> assigns]
  <2>1. prev \in TaskRow /\ entity \in TaskRow
    BY DEF TypeOK, TaskRow, UserOrNone
  <2>2. UpdateEvents(t, prev, entity, actor) \in SUBSET Input
    BY <2>1, UpdateEventsType
  <2>3. req' = [req EXCEPT ![r] = q] /\ Spend("request")
    BY <1>2 DEF BeginUpdate
  <2>6. assigns \in BOOLEAN
    OBVIOUS
  <2> HIDE DEF entity, assigns
  <2>4. q \in RequestState
    BY <2>1, <2>2, <2>6 DEF RequestState
  <2>5. budget' \in [Event -> Nat]
    BY <2>3, SpendType DEF TypeOK, Event
  <2> HIDE DEF q
  <2> QED
    BY <1>2, <2>3, <2>4, <2>5 DEF BeginUpdate, UnchangedDelivery, TypeOK
<1>3. CASE SaveSelect(r)
  <2> DEFINE q == req[r]
             w == [pc |-> "write", task |-> q.task, entity |-> q.entity, events |-> q.events,
                   assigns |-> q.assigns,
                   assignee |-> q.entity.assignee # task[q.task].assignee,
                   status |-> q.entity.status # task[q.task].status]
  <2>1. q \in RequestState /\ q.pc = "select"
    BY <1>3 DEF SaveSelect, TypeOK
  <2>2. q.task \in Tasks /\ q.entity \in TaskRow /\ q.events \in SUBSET Input
        /\ q.assigns \in BOOLEAN
    BY <2>1, RequestFields
  <2>3. w \in RequestState
    BY <2>2, WriteRequest, Zenon
  <2>4. req' = [req EXCEPT ![r] = w]
    BY <1>3 DEF SaveSelect
  <2> HIDE DEF w
  <2> QED
    BY <1>3, <2>3, <2>4 DEF SaveSelect, UnchangedDelivery, TypeOK
<1>4. CASE SaveWrite(r)
  <2> DEFINE q == req[r]
  <2>1. q \in RequestState /\ q.pc = "write"
    BY <1>4 DEF SaveWrite, TypeOK
  <2>2. q.task \in Tasks /\ q.entity \in TaskRow /\ q.events \in SUBSET Input
    BY <2>1, RequestFields
  <2> DEFINE old == task[q.task]
             a == IF q.assignee THEN q.entity.assignee ELSE old.assignee
             b == IF q.assignee THEN q.entity.setBy ELSE old.setBy
             st == IF q.status THEN q.entity.status ELSE old.status
  <2>5. a \in UserOrNone /\ b \in UserOrNone /\ st \in {"absent", "open", "DONE"}
    BY <2>2 DEF TypeOK, TaskRow
  <2>6. task' = [task EXCEPT ![q.task].assignee = a, ![q.task].setBy = b, ![q.task].status = st]
    BY <1>4, <2>2 DEF SaveWrite, TypeOK
  <2> HIDE DEF a, b, st
  <2>3. task' \in [Tasks -> TaskRow]
    BY <2>2, <2>5, <2>6 DEF TypeOK, TaskRow
  <2>4. [pc |-> "emit", events |-> q.events] \in RequestState
    BY <2>2, EmitRequest
  <2>7. assigned' \in [Input -> Nat]
    BY <1>4, CountAssignmentType DEF SaveWrite, TypeOK
  <2> QED
    BY <1>4, <2>3, <2>4, <2>7 DEF SaveWrite, UnchangedDelivery, TypeOK
<1> QED
  BY <1>1, <1>2, <1>3, <1>4

LEMMA CommentRequestsType ==
  ASSUME TypeOK, NEW r \in Requests,
         \/ \E c \in Comments :
              \/ BeginRemove(r, c)
              \/ \E actor \in Users : BeginEdit(r, c, actor)
              \/ \E t \in Tasks, actor \in Users, p \in Comments \cup {None} :
                   BeginComment(r, c, t, actor, p)
         \/ InsertComment(r) \/ EditSelect(r) \/ EditWrite(r) \/ RemoveComment(r)
  PROVE  TypeOK'
<1> DEFINE q == req[r]
<1>0. q \in RequestState
  BY DEF TypeOK
<1>1. ASSUME NEW c \in Comments, BeginRemove(r, c)
      PROVE  TypeOK'
  <2>1. [pc |-> "remove", comment |-> c] \in RequestState
    BY DEF RequestState
  <2> QED
    BY <1>1, <2>1, SpendType DEF BeginRemove, UnchangedDelivery, TypeOK, Event
<1>2. ASSUME NEW c \in Comments, NEW actor \in Users, BeginEdit(r, c, actor)
      PROVE  TypeOK'
  <2>1. [pc |-> "editSelect", comment |-> c, row |-> comment[c]] \in RequestState
    BY DEF RequestState, TypeOK
  <2> QED
    BY <1>2, <2>1, SpendType DEF BeginEdit, UnchangedDelivery, TypeOK, Event
<1>3. ASSUME NEW c \in Comments, NEW t \in Tasks, NEW actor \in Users,
             NEW p \in Comments \cup {None}, BeginComment(r, c, t, actor, p)
      PROVE  TypeOK'
  <2> DEFINE parentAuthor == IF p = None THEN None ELSE comment[p].author
             n == [pc |-> "insert", comment |-> c, author |-> actor, parent |-> p, task |-> t,
                   parentAuthor |-> parentAuthor, assignee |-> task[t].assignee]
  <2>1. parentAuthor \in UserOrNone /\ task[t].assignee \in UserOrNone
    BY DEF TypeOK, CommentRow, TaskRow, UserOrNone
  <2>2. req' = [req EXCEPT ![r] = n] /\ Spend("request")
    BY <1>3 DEF BeginComment
  <2> HIDE DEF parentAuthor
  <2>3. n \in RequestState
    BY <2>1 DEF RequestState
  <2> HIDE DEF n
  <2> QED
    BY <1>3, <2>2, <2>3, SpendType DEF BeginComment, UnchangedDelivery, TypeOK, Event
<1>4. CASE InsertComment(r)
  <2> DEFINE is == MapCommentCreated(q.task, q.assignee, q.author)
                     \cup MapCommentReplied(q.comment, q.parentAuthor, q.author)
             row == [author |-> q.author, task |-> q.task, parent |-> q.parent]
  <2>1. /\ q.comment \in Comments /\ q.author \in Users /\ q.parent \in Comments \cup {None}
        /\ q.task \in Tasks /\ q.parentAuthor \in UserOrNone /\ q.assignee \in UserOrNone
    BY <1>0, <1>4, RequestFields DEF InsertComment
  <2>2. is \in SUBSET Input
    BY <2>1, NoticeType DEF MapCommentCreated, MapCommentReplied
  <2>3. [pc |-> "emit", events |-> is] \in RequestState
    BY <2>2, EmitRequest
  <2>4. row \in CommentRow
    BY <2>1 DEF CommentRow, UserOrNone
  <2>5. /\ comment' \in {comment, [comment EXCEPT ![q.comment] = row]}
        /\ req' \in {[req EXCEPT ![r] = [pc |-> "emit", events |-> is]],
                     [req EXCEPT ![r] = Idle]}
    BY <1>4 DEF InsertComment, Return
  <2> HIDE DEF is, row
  <2> QED
    BY <1>4, <2>1, <2>3, <2>4, <2>5, IdleRequest DEF InsertComment, UnchangedDelivery, TypeOK
<1>5. CASE EditSelect(r)
  <2> DEFINE found == Exists(q.comment)
             w == [pc |-> "editWrite", comment |-> q.comment, row |-> q.row, found |-> found]
  <2>1. q.comment \in Comments /\ q.row \in CommentRow
    BY <1>0, <1>5, RequestFields DEF EditSelect
  <2>2. found \in BOOLEAN
    BY DEF Exists
  <2>3. req' = [req EXCEPT ![r] = w]
    BY <1>5 DEF EditSelect
  <2> HIDE DEF found
  <2>4. w \in RequestState
    BY <2>1, <2>2 DEF RequestState
  <2> HIDE DEF w
  <2> QED
    BY <1>5, <2>3, <2>4 DEF EditSelect, UnchangedDelivery, TypeOK
<1>6. CASE EditWrite(r)
  <2>1. q.comment \in Comments /\ q.row \in CommentRow
    BY <1>0, <1>6, RequestFields DEF EditWrite
  <2>2. comment' \in [Comments -> CommentRow]
    BY <1>6, <2>1 DEF EditWrite, TypeOK
  <2> QED
    BY <1>6, <2>2, IdleRequest DEF EditWrite, Return, UnchangedDelivery, TypeOK
<1>7. CASE RemoveComment(r)
  <2>1. \A d \in Comments : [comment[d] EXCEPT !.author = None, !.parent = None] \in CommentRow
    BY DEF TypeOK, CommentRow, UserOrNone
  <2>2. comment' \in [Comments -> CommentRow]
    BY <1>7, <2>1 DEF RemoveComment, TypeOK
  <2> QED
    BY <1>7, <2>2, IdleRequest DEF RemoveComment, Return, UnchangedDelivery, TypeOK
<1> QED
  BY <1>1, <1>2, <1>3, <1>4, <1>5, <1>6, <1>7

LEMMA AnnouncingFinite ==
  \A i : IsFiniteSet(Announcing(i)) /\ Cardinality(Announcing(i)) \in Nat
  BY ConstantsAssumption, FS_Subset, FS_CardinalityType DEF ConstantsAssumption, Announcing

LEMMA EmitType ==
  ASSUME TypeOK, NEW r \in Requests, EmitEvents(r)
  PROVE  TypeOK'
<1>1. /\ emitted' = [i \in Input |-> emitted[i] + IF i \in req[r].events THEN 1 ELSE 0]
      /\ pending' = [i \in Input |-> pending[i] + IF i \in req[r].events THEN 1 ELSE 0]
      /\ req' = [req EXCEPT ![r] = Idle]
  BY DEF EmitEvents, Emit
<1>2. emitted' \in [Input -> Nat] /\ pending' \in [Input -> Nat]
  BY <1>1 DEF TypeOK
<1> QED
  BY <1>1, <1>2, IdleRequest DEF EmitEvents, UnchangedDelivery, TypeOK

LEMMA FinishedType ==
  ASSUME pending \in [Input -> Nat], NEW i \in Input, pending[i] > 0, Finished(i)
  PROVE  pending' \in [Input -> Nat]
<1>1. pending[i] - 1 \in Nat
  OBVIOUS
<1> QED
  BY <1>1 DEF Finished

LEMMA DeliveryType ==
  ASSUME TypeOK,
         \/ \E i \in Input : Listen(i) \/ Reject(i) \/ Work(i) \/ JobFails(i)
         \/ ApiCrash \/ Crash
  PROVE  TypeOK'
<1> USE DEF UnchangedRequests, UnchangedProducers
<1>1. ASSUME NEW i \in Input, Deliver(i)
      PROVE  TypeOK'
  <2>1. pending' \in [Input -> Nat]
    BY <1>1, FinishedType DEF Deliver, TypeOK
  <2>2. inbox' \in [Input -> Nat]
    BY <1>1 DEF Deliver, TypeOK
  <2> QED
    BY <1>1, <2>1, <2>2 DEF Deliver, TypeOK
<1>2. ASSUME NEW i \in Input, Enqueue(i)
      PROVE  TypeOK'
  <2>1. [jobs[i] EXCEPT !.state = "waiting"] \in Job
    BY DEF TypeOK, Job
  <2>2. jobs' \in [Input -> Job]
    BY <1>2, <2>1 DEF Enqueue, TypeOK
  <2>3. pending' \in [Input -> Nat]
    BY <1>2, FinishedType DEF Enqueue, TypeOK
  <2>4. swallowed' \in [Input -> Nat]
    <3>1. swallowed' \in {swallowed, [swallowed EXCEPT ![i] = swallowed[i] + 1]}
      BY <1>2 DEF Enqueue
    <3>2. swallowed \in [Input -> Nat]
      BY DEF TypeOK
    <3> QED
      BY <3>1, <3>2
  <2> QED
    BY <1>2, <2>2, <2>3, <2>4 DEF Enqueue, TypeOK
<1>3. ASSUME NEW i \in Input, Reject(i)
      PROVE  TypeOK'
  <2>1. pending' \in [Input -> Nat]
    BY <1>3, FinishedType DEF Reject, TypeOK
  <2>2. lost' \in [Input -> Nat]
    BY <1>3 DEF Reject, TypeOK
  <2>3. budget' \in [Event -> Nat]
    BY <1>3, SpendType DEF Reject, TypeOK, Event
  <2> QED
    BY <1>3, <2>1, <2>2, <2>3 DEF Reject, TypeOK
<1>4. ASSUME NEW i \in Input, TakeJob(i) \/ Process(i)
      PROVE  TypeOK'
  <2>1. \A st \in {"active", "inserted"} : [jobs[i] EXCEPT !.state = st] \in Job
    BY DEF TypeOK, Job
  <2>2. jobs' \in [Input -> Job]
    BY <1>4, <2>1 DEF TakeJob, Process, TypeOK
  <2>3. inbox' \in [Input -> Nat]
    <3>1. inbox' \in {inbox, [inbox EXCEPT ![i] = inbox[i] + 1]}
      BY <1>4 DEF TakeJob, Process
    <3>2. inbox \in [Input -> Nat]
      BY DEF TypeOK
    <3> QED
      BY <3>1, <3>2
  <2> QED
    BY <1>4, <2>2, <2>3 DEF TakeJob, Process, TypeOK
<1>5. ASSUME NEW i \in Input, CompleteJob(i)
      PROVE  TypeOK'
  <2> DEFINE done == Append(kept, i)
  <2>0. kept \in Seq(Input)
    BY DEF TypeOK
  <2>1. done \in Seq(Input) /\ done # <<>>
    BY <2>0, AppendProperties
  <2>2. Head(done) \in Input /\ Tail(done) \in Seq(Input)
    BY <2>1
  <2>3. kept' \in {done, Tail(done)}
    BY <1>5 DEF CompleteJob
  <2>4. [jobs[i] EXCEPT !.state = "completed"] \in Job /\ NoJob \in Job
    BY DEF TypeOK, Job, NoJob
  <2>5. jobs' \in [Input -> Job]
    BY <1>5, <2>4 DEF CompleteJob, TypeOK
  <2> HIDE DEF done
  <2> QED
    BY <1>5, <2>1, <2>2, <2>3, <2>5 DEF CompleteJob, TypeOK
<1>6. ASSUME NEW i \in Input, JobFails(i)
      PROVE  TypeOK'
  <2> DEFINE made == jobs[i].attemptsMade + 1
             j == [state |-> IF made >= Attempts THEN "failed" ELSE "waiting",
                   attemptsMade |-> made]
  <2>1. j \in Job
    BY DEF TypeOK, Job
  <2>2. jobs' = [jobs EXCEPT ![i] = j] /\ Spend("fault")
    BY <1>6 DEF JobFails
  <2> HIDE DEF j
  <2> QED
    BY <1>6, <2>1, <2>2, SpendType DEF JobFails, TypeOK, Event
<1>7. CASE ApiCrash
  <2>1. \A i \in Input : Cardinality(Announcing(i)) \in Nat
    BY AnnouncingFinite
  <2>2. lost' \in [Input -> Nat] /\ cut' \in [Input -> Nat]
    BY <1>7, <2>1 DEF ApiCrash, TypeOK
  <2> QED
    BY <1>7, <2>2, IdleRequest, SpendType DEF ApiCrash, TypeOK, Event
<1>8. CASE Crash
  <2>1. \A i \in Input : [jobs[i] EXCEPT !.state = "waiting"] \in Job
    BY DEF TypeOK, Job
  <2>2. jobs' \in [Input -> Job]
    BY <1>8, <2>1 DEF Crash, TypeOK
  <2> QED
    BY <1>8, <2>2, SpendType DEF Crash, TypeOK, Event
<1> QED
  BY <1>1, <1>2, <1>3, <1>4, <1>5, <1>6, <1>7, <1>8 DEF Listen, Work

LEMMA TypeStep == TypeOK /\ [Next]_vars => TypeOK'
<1> SUFFICES ASSUME TypeOK, [Next]_vars PROVE TypeOK'
  OBVIOUS
<1>1. CASE UNCHANGED vars
  BY <1>1 DEF vars, history, TypeOK
<1>2. CASE Next
  BY <1>2, TaskRequestsType, CommentRequestsType, EmitType, DeliveryType DEF Next, Begin, Step
<1> QED
  BY <1>1, <1>2

\* The tables, the requests, the listener calls and the queue keep their shape.
THEOREM TypeCorrect == Spec => []TypeOK
  BY InitTypeOK, TypeStep, PTL DEF Spec

-----------------------------------------------------------------------------
(* The queue: what it keeps of a done job, so that it forgets no other.      *)

\* A request leaves the queue and the inbox alone, and emits nothing at first.
LEMMA BeginsQuietly ==
  ASSUME NEW r \in Requests, Begin(r)
  PROVE  /\ UnchangedDelivery /\ UNCHANGED <<comment, emitted, pending>>
         /\ UNCHANGED budget \/ \E e \in Event \ {"fault"} : Spend(e)
<1>0. {"request", "edit", "removal"} \subseteq Event \ {"fault"}
  BY DEF Event
<1>1. ASSUME NEW t \in Tasks, NEW actor \in Users, NEW u \in UserOrNone, CreateTask(r, t, actor, u)
      PROVE  UnchangedDelivery /\ UNCHANGED <<comment, emitted, pending, budget>>
  BY <1>1 DEF CreateTask
<1>2. ASSUME NEW t \in Tasks, NEW actor \in Users, NEW u \in UserOrNone,
             NEW st \in {"open", "DONE"}, BeginUpdate(r, t, actor, u, st)
      PROVE  UnchangedDelivery /\ UNCHANGED <<comment, emitted, pending>> /\ Spend("request")
  BY <1>2 DEF BeginUpdate
<1>3. ASSUME NEW c \in Comments, NEW t \in Tasks, NEW actor \in Users,
             NEW p \in Comments \cup {None}, BeginComment(r, c, t, actor, p)
      PROVE  UnchangedDelivery /\ UNCHANGED <<comment, emitted, pending>> /\ Spend("request")
  BY <1>3 DEF BeginComment
<1>4. ASSUME NEW c \in Comments, BeginRemove(r, c)
      PROVE  UnchangedDelivery /\ UNCHANGED <<comment, emitted, pending>> /\ Spend("removal")
  BY <1>4 DEF BeginRemove
<1>5. ASSUME NEW c \in Comments, NEW actor \in Users, BeginEdit(r, c, actor)
      PROVE  UnchangedDelivery /\ UNCHANGED <<comment, emitted, pending>> /\ Spend("edit")
  BY <1>5 DEF BeginEdit
<1> QED
  BY <1>0, <1>1, <1>2, <1>3, <1>4, <1>5 DEF Begin

LEMMA RequestsLeaveDelivery ==
  ASSUME NEW r \in Requests, Begin(r) \/ Step(r)
  PROVE  UnchangedDelivery
<1>1. CASE Step(r)
  BY <1>1 DEF Step, SaveSelect, SaveWrite, InsertComment, EditSelect, EditWrite, RemoveComment,
              EmitEvents
<1> QED
  BY <1>1, BeginsQuietly

QueueInv ==
  /\ \A i \in Input : jobs[i].state \in {"inserted", "completed"} => inbox[i] > 0
  /\ \A n \in 1..Len(kept) : jobs[kept[n]].state = "completed"
  /\ \A m, n \in 1..Len(kept) : m # n => kept[m] # kept[n]

LEMMA InboxGrows ==
  ASSUME TypeOK, Next, NEW i \in Input
  PROVE  inbox'[i] >= inbox[i]
<1>1. CASE UNCHANGED inbox
  BY <1>1 DEF TypeOK
<1>2. ASSUME NEW j \in Input, Deliver(j) \/ Process(j)
      PROVE  inbox'[i] >= inbox[i]
  <2>1. inbox' = [inbox EXCEPT ![j] = inbox[j] + 1]
    BY <1>2 DEF Deliver, Process
  <2>2. inbox \in [Input -> Nat]
    BY DEF TypeOK
  <2> QED
    BY <2>1, <2>2
<1>3. ASSUME ~\E j \in Input : Deliver(j) \/ Process(j)
      PROVE  UNCHANGED inbox
  BY <1>3, RequestsLeaveDelivery
  DEF Next, UnchangedDelivery, Listen, Enqueue, Reject, Work, TakeJob, CompleteJob, JobFails,
      ApiCrash, Crash
<1> QED
  BY <1>1, <1>2, <1>3

\* A job that is done joins the kept ones, the oldest of which may be forgotten.
LEMMA CompleteJobTo ==
  ASSUME TypeOK, QueueInv, NEW i \in Input, CompleteJob(i)
  PROVE  /\ jobs[i].state = "inserted"
         /\ \A j \in Input :
              \/ jobs'[j] = jobs[j]
              \/ /\ jobs[j].state \in {"inserted", "completed"}
                 /\ jobs'[j].state \in {"none", "completed"}
         /\ \A n \in 1..Len(kept') : jobs'[kept'[n]].state = "completed"
         /\ \A m, n \in 1..Len(kept') : m # n => kept'[m] # kept'[n]
<1> DEFINE done == Append(kept, i)
           oldest == Head(done)
           all == [j \in Input |-> IF j = oldest THEN NoJob
                                   ELSE IF j = i THEN [jobs[i] EXCEPT !.state = "completed"]
                                   ELSE jobs[j]]
<1>1. /\ done \in Seq(Input) /\ done # <<>> /\ Len(done) = Len(kept) + 1 /\ Len(kept) \in Nat
      /\ \A m \in 1..Len(kept) : done[m] = kept[m] /\ kept[m] \in Input
      /\ done[Len(kept) + 1] = i
  <2>1. kept \in Seq(Input)
    BY DEF TypeOK
  <2> QED
    BY <2>1, AppendProperties
<1>2. /\ jobs[i].state = "inserted"
      /\ \/ kept' = Tail(done) /\ jobs' = all
         \/ kept' = done /\ jobs' = [jobs EXCEPT ![i].state = "completed"]
  BY DEF CompleteJob
<1>3. /\ Len(Tail(done)) = Len(done) - 1 /\ oldest = done[1]
      /\ \A m \in 1..Len(Tail(done)) : Tail(done)[m] = done[m + 1]
  BY <1>1, HeadTailProperties
<1> HIDE DEF done, oldest
<1>4. /\ \A n \in 1..Len(done) : done[n] \in Input
      /\ \A n \in 1..Len(done) : jobs[done[n]].state \in {"inserted", "completed"}
      /\ \A n \in 1..Len(done) : done[n] # i => jobs[done[n]].state = "completed"
      /\ \A m, n \in 1..Len(done) : m # n => done[m] # done[n]
  <2>1. ASSUME NEW n \in 1..Len(done)
        PROVE  n \in 1..Len(kept) \/ n = Len(kept) + 1
    BY <1>1
  <2>2. \A n \in 1..Len(kept) : jobs[kept[n]].state = "completed" /\ kept[n] # i
    BY <1>2 DEF QueueInv
  <2> QED
    BY <1>1, <1>2, <2>1, <2>2 DEF QueueInv
<1>5. jobs'[i].state \in {"none", "completed"}
  BY <1>2 DEF TypeOK, Job, NoJob
<1>6. CASE kept' = done /\ jobs' = [jobs EXCEPT ![i].state = "completed"]
  <2>1. jobs'[i].state = "completed" /\ \A j \in Input : j # i => jobs'[j] = jobs[j]
    BY <1>6 DEF TypeOK, Job
  <2> QED
    BY <1>2, <1>4, <1>6, <2>1
<1>7. CASE kept' = Tail(done) /\ jobs' = all
  <2>1. /\ \A j \in Input : j # i /\ j # oldest => jobs'[j] = jobs[j]
        /\ i # oldest => jobs'[i].state = "completed"
        /\ oldest \in Input => jobs'[oldest].state = "none"
    BY <1>7 DEF TypeOK, Job, NoJob
  <2>2. 1 \in 1..Len(done) /\ oldest \in Input
        /\ jobs[oldest].state \in {"inserted", "completed"}
    BY <1>1, <1>3, <1>4
  <2>3. ASSUME NEW n \in 1..Len(kept')
        PROVE  n + 1 \in 1..Len(done) /\ kept'[n] = done[n + 1] /\ done[n + 1] # oldest
    <3>1. n + 1 \in 1..Len(done) /\ n + 1 # 1 /\ kept'[n] = done[n + 1]
      BY <1>1, <1>3, <1>7
    <3> QED
      BY <1>3, <1>4, <2>2, <3>1
  <2>4. ASSUME NEW n \in 1..Len(kept')
        PROVE  jobs'[kept'[n]].state = "completed"
    BY <1>4, <2>1, <2>3
  <2>5. ASSUME NEW m \in 1..Len(kept'), NEW n \in 1..Len(kept'), m # n
        PROVE  kept'[m] # kept'[n]
    <3>1. m + 1 # n + 1
      BY <2>5
    <3> QED
      BY <1>4, <2>3, <3>1
  <2> QED
    BY <1>2, <2>1, <2>2, <2>4, <2>5
<1> QED
  BY <1>2, <1>6, <1>7

\* How a step changes a job.
LEMMA JobStep ==
  ASSUME TypeOK, QueueInv, Next, NEW i \in Input
  PROVE  \/ jobs'[i] = jobs[i]
         \/ jobs[i].state = "none" /\ jobs'[i].state = "waiting"
         \/ jobs[i].state = "waiting" /\ jobs'[i].state = "active"
         \/ jobs[i].state = "active" /\ jobs'[i].state = "inserted" /\ Process(i)
         \/ jobs[i].state \in {"active", "inserted"} /\ jobs'[i].state \in {"waiting", "failed"}
         \/ jobs[i].state \in {"inserted", "completed"} /\ jobs'[i].state \in {"none", "completed"}
            /\ \E j \in Input : CompleteJob(j)
<1>1. ASSUME NEW j \in Input, Enqueue(j)
      PROVE  jobs'[i] = jobs[i] \/ (jobs[i].state = "none" /\ jobs'[i].state = "waiting")
  BY <1>1 DEF Enqueue, TypeOK, Job
<1>2. ASSUME NEW j \in Input, TakeJob(j)
      PROVE  jobs'[i] = jobs[i] \/ (jobs[i].state = "waiting" /\ jobs'[i].state = "active")
  BY <1>2 DEF TakeJob, TypeOK, Job
<1>3. ASSUME NEW j \in Input, Process(j)
      PROVE  jobs'[i] = jobs[i] \/ (i = j /\ jobs[i].state = "active" /\ jobs'[i].state = "inserted")
  BY <1>3 DEF Process, TypeOK, Job
<1>4. ASSUME NEW j \in Input, JobFails(j)
      PROVE  \/ jobs'[i] = jobs[i]
             \/ jobs[i].state \in {"active", "inserted"} /\ jobs'[i].state \in {"waiting", "failed"}
  BY <1>4 DEF JobFails, TypeOK
<1>5. ASSUME Crash
      PROVE  \/ jobs'[i] = jobs[i]
             \/ jobs[i].state \in {"active", "inserted"} /\ jobs'[i].state = "waiting"
  BY <1>5 DEF Crash, TypeOK, Job
<1>6. ASSUME ~Crash,
             ~\E j \in Input : Enqueue(j) \/ TakeJob(j) \/ Process(j) \/ CompleteJob(j)
                               \/ JobFails(j)
      PROVE  UNCHANGED jobs
  BY <1>6, RequestsLeaveDelivery
  DEF Next, UnchangedDelivery, Listen, Deliver, Reject, Work, ApiCrash
<1> QED
  BY <1>1, <1>2, <1>3, <1>4, <1>5, <1>6, CompleteJobTo

LEMMA QueueInvStep == TypeOK /\ QueueInv /\ [Next]_vars => QueueInv'
<1> SUFFICES ASSUME TypeOK, QueueInv, [Next]_vars PROVE QueueInv'
  OBVIOUS
<1>1. CASE UNCHANGED vars
  BY <1>1 DEF vars, QueueInv
<1>2. CASE Next
  <2>1. \A i \in Input : inbox'[i] \in Nat /\ inbox[i] \in Nat /\ inbox'[i] >= inbox[i]
    <3>1. TypeOK'
      BY TypeStep
    <3> QED
      BY <1>2, <3>1, InboxGrows DEF TypeOK
  <2>2. ASSUME NEW i \in Input, jobs'[i].state \in {"inserted", "completed"}
        PROVE  inbox'[i] > 0
    <3>1. jobs[i].state \in {"inserted", "completed"} \/ Process(i)
      BY <1>2, <2>2, JobStep
    <3>2. CASE Process(i)
      BY <2>1, <3>2 DEF Process, TypeOK
    <3> QED
      BY <2>1, <3>1, <3>2 DEF QueueInv
  <2>3. /\ \A n \in 1..Len(kept') : jobs'[kept'[n]].state = "completed"
        /\ \A m, n \in 1..Len(kept') : m # n => kept'[m] # kept'[n]
    <3>1. CASE \E i \in Input : CompleteJob(i)
      BY <3>1, CompleteJobTo
    <3>2. CASE ~\E i \in Input : CompleteJob(i)
      <4>1. UNCHANGED kept
        BY <1>2, <3>2, RequestsLeaveDelivery
        DEF Next, UnchangedDelivery, Listen, Deliver, Enqueue, Reject, Work, TakeJob, Process,
            JobFails, Crash, ApiCrash
      <4>2. \A n \in 1..Len(kept) : kept[n] \in Input
        BY DEF TypeOK
      <4>3. \A i \in Input : jobs[i].state = "completed" => jobs'[i] = jobs[i]
        BY <1>2, <3>2, JobStep
      <4> QED
        BY <4>1, <4>2, <4>3 DEF QueueInv
    <3> QED
      BY <3>1, <3>2
  <2> QED
    BY <2>2, <2>3 DEF QueueInv
<1> QED
  BY <1>1, <1>2

-----------------------------------------------------------------------------
(* Rows and events.  Each step accounts for the rows it adds and the events  *)
(* it gives up.                                                            *)

Traces(i) == Rows(i) + GivenUp(i)

RowsInv ==
  /\ budget["fault"] <= Budget["fault"]
  /\ \A i \in Input : /\ emitted[i] <= Traces(i)
                      /\ Traces(i) <= emitted[i] + (Budget["fault"] - budget["fault"])
  /\ ~queueEnabled => \A i \in Input : /\ jobs[i].state = "none" /\ swallowed[i] = 0
                                       /\ Traces(i) = emitted[i]

LEMMA Numbers ==
  ASSUME TypeOK
  PROVE  /\ \A i \in Input : /\ inbox[i] \in Nat /\ pending[i] \in Nat /\ emitted[i] \in Nat
                             /\ lost[i] \in Nat /\ swallowed[i] \in Nat /\ cut[i] \in Nat
                             /\ Rows(i) \in Nat /\ GivenUp(i) \in Nat /\ Traces(i) \in Nat
         /\ \A e \in Event : budget[e] \in Nat /\ Budget[e] \in Nat
<1>1. \A i \in Input : /\ inbox[i] \in Nat /\ pending[i] \in Nat /\ emitted[i] \in Nat
                       /\ lost[i] \in Nat /\ swallowed[i] \in Nat /\ cut[i] \in Nat
  BY DEF TypeOK
<1>2. \A i \in Input : Rows(i) \in Nat /\ GivenUp(i) \in Nat
  BY <1>1 DEF Rows, GivenUp, Count
<1>3. \A i \in Input : Traces(i) \in Nat
  BY <1>2 DEF Traces
<1>4. \A e \in Event : budget[e] \in Nat /\ Budget[e] \in Nat
  BY ConstantsAssumption DEF ConstantsAssumption, TypeOK
<1> QED
  BY <1>1, <1>2, <1>3, <1>4

\* The same of the state a step leads to.
LEMMA NextNumbers ==
  ASSUME TypeOK'
  PROVE  /\ \A i \in Input : /\ (inbox[i] \in Nat)' /\ (pending[i] \in Nat)'
                             /\ (emitted[i] \in Nat)' /\ (Traces(i) \in Nat)'
         /\ \A e \in Event : (budget[e] \in Nat)'
<1>1. \A i \in Input : /\ (inbox[i] \in Nat)' /\ (pending[i] \in Nat)' /\ (emitted[i] \in Nat)'
                       /\ (lost[i] \in Nat)' /\ (swallowed[i] \in Nat)'
  BY DEF TypeOK
<1>2. \A i \in Input : (Rows(i) \in Nat)' /\ (GivenUp(i) \in Nat)'
  BY <1>1 DEF Rows, GivenUp, Count
<1>3. \A i \in Input : (Traces(i) \in Nat)'
  BY <1>2 DEF Traces
<1>4. \A e \in Event : (budget[e] \in Nat)'
  BY DEF TypeOK
<1> QED
  BY <1>1, <1>3, <1>4

Live(i) == IF jobs[i].state \in {"waiting", "active", "failed"} THEN 1 ELSE 0

LEMMA TracesAre ==
  ASSUME TypeOK, NEW i \in Input
  PROVE  /\ Live(i) \in {0, 1}
         /\ Traces(i) = inbox[i] + pending[i] + lost[i] + swallowed[i] + Live(i)
<1>1. inbox[i] \in Nat /\ pending[i] \in Nat /\ lost[i] \in Nat /\ swallowed[i] \in Nat
  BY Numbers
<1>2. Count(jobs[i].state \in {"waiting", "active"}) + Count(jobs[i].state = "failed") = Live(i)
  BY DEF Count, Live
<1>3. /\ Count(jobs[i].state \in {"waiting", "active"}) \in {0, 1}
      /\ Count(jobs[i].state = "failed") \in {0, 1}
  BY DEF Count
<1>4. Live(i) \in {0, 1}
  BY DEF Live
<1> HIDE DEF Count, Live
<1> QED
  BY <1>1, <1>2, <1>3, <1>4 DEF Traces, Rows, GivenUp

LEMMA TracesWillBe ==
  ASSUME TypeOK', NEW i \in Input
  PROVE  /\ Live(i)' \in {0, 1} /\ inbox'[i] \in Nat
         /\ Traces(i)' = inbox'[i] + pending'[i] + lost'[i] + swallowed'[i] + Live(i)'
<1>1. inbox'[i] \in Nat /\ pending'[i] \in Nat /\ lost'[i] \in Nat /\ swallowed'[i] \in Nat
  BY DEF TypeOK
<1>2. Live(i)' \in {0, 1}
  BY DEF Live
<1>3. /\ Rows(i)' = inbox'[i] + pending'[i] + Count(jobs'[i].state \in {"waiting", "active"})
      /\ GivenUp(i)' = lost'[i] + swallowed'[i] + Count(jobs'[i].state = "failed")
      /\ Traces(i)' = Rows(i)' + GivenUp(i)'
  BY DEF Rows, GivenUp, Traces, Count
<1>4. Count(jobs'[i].state \in {"waiting", "active"}) + Count(jobs'[i].state = "failed") = Live(i)'
      /\ Count(jobs'[i].state \in {"waiting", "active"}) \in {0, 1}
      /\ Count(jobs'[i].state = "failed") \in {0, 1}
  BY DEF Count, Live
<1> HIDE DEF Count, Live
<1> QED
  BY <1>1, <1>2, <1>3, <1>4

\* A step leaves a trace of each event it emits, and others only for faults.
Accounts ==
  /\ queueEnabled' = queueEnabled
  /\ budget'["fault"] <= budget["fault"]
  /\ \A j \in Input :
       /\ Traces(j) + (emitted'[j] - emitted[j]) <= Traces(j)'
       /\ Traces(j)' <= Traces(j) + (emitted'[j] - emitted[j]) + (budget["fault"] - budget'["fault"])
       /\ ~queueEnabled => /\ Traces(j)' = Traces(j) + (emitted'[j] - emitted[j])
                           /\ jobs'[j].state = "none" /\ swallowed'[j] = 0

LEMMA AccountsKeeps ==
  ASSUME TypeOK, TypeOK', RowsInv, Accounts
  PROVE  RowsInv'
<1> DEFINE left == budget["fault"]
           left2 == budget'["fault"]
           all == Budget["fault"]
<1>1. left \in Nat /\ left2 \in Nat /\ all \in Nat /\ left2 <= left /\ left <= all
  BY Numbers, NextNumbers DEF RowsInv, Accounts, Event
<1> HIDE DEF left, left2, all
<1>2. ASSUME NEW j \in Input
      PROVE  /\ emitted'[j] <= Traces(j)'
             /\ Traces(j)' <= emitted'[j] + (all - left2)
             /\ ~queueEnabled => Traces(j)' = emitted'[j]
  <2> DEFINE old == Traces(j)
             new == Traces(j)'
             sent == emitted[j]
             sent2 == emitted'[j]
  <2>1. old \in Nat /\ new \in Nat /\ sent \in Nat /\ sent2 \in Nat
    BY Numbers, NextNumbers
  <2>2. /\ sent <= old /\ old <= sent + (all - left)
        /\ ~queueEnabled => old = sent
    BY DEF RowsInv, all, left
  <2>3. /\ old + (sent2 - sent) <= new
        /\ new <= old + (sent2 - sent) + (left - left2)
        /\ ~queueEnabled => new = old + (sent2 - sent)
    BY DEF Accounts, left, left2
  <2> HIDE DEF old, new, sent, sent2
  <2>4. /\ sent2 <= new /\ new <= sent2 + (all - left2)
        /\ ~queueEnabled => new = sent2
    BY <1>1, <2>1, <2>2, <2>3
  <2> QED
    BY <2>4 DEF new, sent2
<1>3. left2 <= all
  BY <1>1
<1> QED
  BY <1>2, <1>3 DEF RowsInv, Accounts, left2, all

\* A step of a request that emits nothing.
LEMMA QuietAccounts ==
  ASSUME TypeOK, RowsInv,
         UNCHANGED <<queueEnabled, inbox, pending, emitted, lost, swallowed, jobs>>,
         UNCHANGED budget \/ \E e \in Event \ {"fault"} : Spend(e)
  PROVE  Accounts
<1>1. budget'["fault"] = budget["fault"] /\ budget["fault"] \in Nat
  BY DEF Spend, TypeOK, Event
<1>2. \A j \in Input : Traces(j)' = Traces(j) /\ Traces(j) \in Nat /\ emitted[j] \in Nat
  BY Numbers DEF Traces, Rows, GivenUp
<1> QED
  BY <1>1, <1>2 DEF Accounts, RowsInv

LEMMA EmitAccounts ==
  ASSUME TypeOK, RowsInv, NEW r \in Requests, EmitEvents(r)
  PROVE  Accounts
<1>1. /\ emitted' = [i \in Input |-> emitted[i] + IF i \in req[r].events THEN 1 ELSE 0]
      /\ pending' = [i \in Input |-> pending[i] + IF i \in req[r].events THEN 1 ELSE 0]
      /\ UNCHANGED <<queueEnabled, lost, swallowed, jobs, inbox, budget>>
  BY DEF EmitEvents, Emit, UnchangedDelivery
<1>2. budget["fault"] \in Nat
  BY Numbers DEF Event
<1>3. ASSUME NEW j \in Input
      PROVE  /\ Traces(j)' = Traces(j) + (emitted'[j] - emitted[j])
             /\ Traces(j) \in Nat /\ emitted[j] \in Nat /\ emitted'[j] \in Nat
  <2>1. GivenUp(j)' = GivenUp(j) /\ GivenUp(j) \in Nat
    BY <1>1, Numbers DEF GivenUp
  <2>2. Rows(j)' = Rows(j) + (emitted'[j] - emitted[j]) /\ emitted'[j] \in Nat
    BY <1>1, Numbers DEF Rows, Count
  <2> QED
    BY <2>1, <2>2, Numbers DEF Traces
<1> QED
  BY <1>1, <1>2, <1>3 DEF Accounts, RowsInv

LEMMA ListenAccounts ==
  ASSUME TypeOK, RowsInv, NEW i \in Input, Deliver(i) \/ Enqueue(i)
  PROVE  Accounts
<1>1. budget["fault"] \in Nat /\ UNCHANGED <<queueEnabled, emitted, lost, budget>>
  BY Numbers DEF Event, Deliver, Enqueue, UnchangedRequests
<1>2. \A j \in Input : Traces(j) \in Nat /\ emitted[j] \in Nat
  BY Numbers
<1>3. ASSUME NEW j \in Input
      PROVE  /\ Traces(j)' = Traces(j)
             /\ ~queueEnabled => jobs'[j] = jobs[j] /\ swallowed'[j] = swallowed[j]
  <2>0. /\ pending' = [pending EXCEPT ![i] = pending[i] - 1]
        /\ pending \in [Input -> Nat] /\ inbox \in [Input -> Nat]
        /\ swallowed \in [Input -> Nat] /\ jobs \in [Input -> Job]
    BY DEF Deliver, Enqueue, Finished, TypeOK
  <2>1. CASE Deliver(i)
    <3>1. inbox' = [inbox EXCEPT ![i] = inbox[i] + 1] /\ UNCHANGED <<jobs, lost, swallowed>>
      BY <2>1 DEF Deliver
    <3>2. Rows(j)' = Rows(j)
      BY <2>0, <3>1 DEF Rows, Count
    <3>3. GivenUp(j)' = GivenUp(j)
      BY <3>1 DEF GivenUp
    <3> QED
      BY <3>1, <3>2, <3>3 DEF Traces
  <2>2. CASE Enqueue(i) /\ jobs[i].state = "none"
    <3>1. /\ jobs' = [jobs EXCEPT ![i].state = "waiting"]
          /\ UNCHANGED <<inbox, lost, swallowed>> /\ queueEnabled
      BY <2>2 DEF Enqueue
    <3>2. Rows(j)' = Rows(j)
      <4>1. CASE j = i
        <5>1. jobs'[j].state = "waiting" /\ pending'[j] = pending[j] - 1 /\ inbox'[j] = inbox[j]
          BY <2>0, <3>1, <4>1 DEF Job
        <5> QED
          BY <2>0, <2>2, <4>1, <5>1 DEF Rows, Count
      <4>2. CASE j # i
        BY <2>0, <3>1, <4>2 DEF Rows
      <4> QED
        BY <4>1, <4>2
    <3>3. GivenUp(j)' = GivenUp(j)
      <4>1. jobs'[j].state = "failed" <=> jobs[j].state = "failed"
        BY <2>0, <2>2, <3>1 DEF Job
      <4> QED
        BY <1>1, <3>1, <4>1 DEF GivenUp, Count
    <3> QED
      BY <3>1, <3>2, <3>3 DEF Traces
  <2>3. CASE Enqueue(i) /\ jobs[i].state # "none"
    <3>1. /\ swallowed' = [swallowed EXCEPT ![i] = swallowed[i] + 1]
          /\ UNCHANGED <<inbox, lost, jobs>> /\ queueEnabled
      BY <2>3 DEF Enqueue
    <3>2. Rows(j)' = IF j = i THEN Rows(j) - 1 ELSE Rows(j)
      BY <2>0, <3>1 DEF Rows, Count
    <3>3. GivenUp(j)' = IF j = i THEN GivenUp(j) + 1 ELSE GivenUp(j)
      <4>1. lost[j] \in Nat
        BY Numbers
      <4> QED
        BY <1>1, <2>0, <3>1, <4>1 DEF GivenUp, Count
    <3>4. Rows(j) \in Nat /\ GivenUp(j) \in Nat
      BY Numbers
    <3> QED
      BY <3>1, <3>2, <3>3, <3>4 DEF Traces
  <2> QED
    BY <2>1, <2>2, <2>3
<1> QED
  BY <1>1, <1>2, <1>3 DEF Accounts, RowsInv

LEMMA WorkAccounts ==
  ASSUME TypeOK, QueueInv, RowsInv, NEW i \in Input, Work(i) \/ JobFails(i)
  PROVE  Accounts
<1>1. UNCHANGED <<queueEnabled, emitted, lost, swallowed, pending>>
  BY DEF Work, TakeJob, Process, CompleteJob, JobFails, UnchangedProducers, UnchangedRequests
<1>2. queueEnabled
  BY DEF RowsInv, Work, TakeJob, Process, CompleteJob, JobFails
<1>3. budget["fault"] \in Nat /\ \A j \in Input :
        /\ Traces(j) \in Nat /\ inbox[j] \in Nat /\ pending[j] \in Nat /\ emitted[j] \in Nat
        /\ lost[j] \in Nat /\ swallowed[j] \in Nat
  BY Numbers DEF Event
<1>0. TypeOK'
  BY TypeStep DEF Next
<1>4. \A j \in Input : /\ Live(j) \in {0, 1}
                       /\ Traces(j) = inbox[j] + pending[j] + lost[j] + swallowed[j] + Live(j)
  BY TracesAre
<1>5. \A j \in Input : /\ inbox'[j] \in Nat /\ Live(j)' \in {0, 1}
                       /\ Traces(j)' = inbox'[j] + pending[j] + lost[j] + swallowed[j] + Live(j)'
  BY <1>0, <1>1, TracesWillBe
<1>6. CASE Work(i)
  <2>1. UNCHANGED budget
    BY <1>6 DEF Work, TakeJob, Process, CompleteJob
  <2>2. ASSUME NEW j \in Input
        PROVE  inbox'[j] + Live(j)' = inbox[j] + Live(j)
    <3>1. CASE TakeJob(i)
      <4>1. inbox'[j] = inbox[j] /\ jobs[i].state = "waiting"
        BY <3>1 DEF TakeJob
      <4>2. j # i => jobs'[j] = jobs[j]
        BY <3>1 DEF TakeJob, TypeOK
      <4>3. jobs'[i].state = "active"
        BY <3>1 DEF TakeJob, TypeOK, Job
      <4> QED
        BY <1>3, <4>1, <4>2, <4>3 DEF Live
    <3>2. CASE Process(i)
      <4>1. jobs' = [jobs EXCEPT ![i].state = "inserted"] /\ jobs[i].state = "active"
            /\ inbox' = [inbox EXCEPT ![i] = inbox[i] + 1]
        BY <3>2 DEF Process
      <4>2. jobs'[i].state = "inserted" /\ inbox'[i] = inbox[i] + 1
        BY <4>1 DEF TypeOK, Job
      <4>3. j # i => jobs'[j] = jobs[j] /\ inbox'[j] = inbox[j]
        BY <4>1 DEF TypeOK
      <4> QED
        BY <1>3, <4>1, <4>2, <4>3 DEF Live
    <3>3. CASE CompleteJob(i)
      <4>1. inbox'[j] = inbox[j] /\ jobs[i].state = "inserted"
        BY <3>3 DEF CompleteJob
      <4>2. /\ jobs'[j].state \in {"none", "completed"} \/ jobs'[j] = jobs[j]
            /\ jobs'[j] # jobs[j] => jobs[j].state \in {"inserted", "completed", "none"}
        BY <3>3, CompleteJobTo
      <4> QED
        BY <1>3, <4>1, <4>2 DEF Live
    <3> QED
      BY <1>6, <3>1, <3>2, <3>3 DEF Work
  <2>3. \A j \in Input : Traces(j)' = Traces(j)
    BY <1>3, <1>4, <1>5, <2>2
  <2> QED
    BY <1>1, <1>2, <1>3, <2>1, <2>3 DEF Accounts
<1>7. CASE JobFails(i)
  <2>1. budget'["fault"] = budget["fault"] - 1
    BY <1>7 DEF JobFails, Spend, TypeOK, Event
  <2>2. ASSUME NEW j \in Input
        PROVE  inbox'[j] = inbox[j] /\ Live(j) <= Live(j)' /\ Live(j)' <= Live(j) + 1
    <3>1. inbox'[j] = inbox[j] /\ pending'[j] = pending[j]
      BY <1>1, <1>7 DEF JobFails
    <3>2. j # i => jobs'[j] = jobs[j]
      BY <1>7 DEF JobFails, TypeOK
    <3>3. jobs[i].state \in {"active", "inserted"} /\ jobs'[i].state \in {"waiting", "failed"}
      BY <1>7 DEF JobFails, TypeOK
    <3> QED
      BY <1>3, <3>1, <3>2, <3>3 DEF Live
  <2>3. \A j \in Input : Traces(j) <= Traces(j)' /\ Traces(j)' <= Traces(j) + 1
    BY <1>3, <1>4, <1>5, <2>2
  <2> QED
    BY <1>1, <1>2, <1>3, <2>1, <2>3 DEF Accounts
<1> QED
  BY <1>6, <1>7

LEMMA FaultAccounts ==
  ASSUME TypeOK, TypeOK', RowsInv, ApiCrash \/ Crash \/ \E i \in Input : Reject(i)
  PROVE  Accounts
<1>1. UNCHANGED <<queueEnabled, emitted, inbox, swallowed>>
  BY DEF ApiCrash, Crash, Reject, UnchangedProducers, UnchangedRequests
<1>2. budget'["fault"] = budget["fault"] - 1
  BY DEF ApiCrash, Crash, Reject, Spend, TypeOK, Event
<1>3. budget["fault"] \in Nat /\ \A j \in Input :
        /\ Traces(j) \in Nat /\ inbox[j] \in Nat /\ pending[j] \in Nat /\ emitted[j] \in Nat
        /\ lost[j] \in Nat /\ swallowed[j] \in Nat
  BY Numbers DEF Event
<1>7. \A j \in Input :
        /\ Live(j) \in {0, 1} /\ Live(j)' \in {0, 1} /\ inbox'[j] \in Nat
        /\ Traces(j) = inbox[j] + pending[j] + lost[j] + swallowed[j] + Live(j)
        /\ Traces(j)' = inbox'[j] + pending'[j] + lost'[j] + swallowed'[j] + Live(j)'
  BY TracesAre, TracesWillBe
<1>4. ASSUME NEW i \in Input, Reject(i), NEW j \in Input
      PROVE  Traces(j)' = Traces(j) /\ jobs'[j] = jobs[j]
  <2>1. /\ pending' = [pending EXCEPT ![i] = pending[i] - 1] /\ UNCHANGED jobs
        /\ lost' = [lost EXCEPT ![i] = lost[i] + 1]
    BY <1>4 DEF Reject, Finished
  <2>2. /\ pending'[j] = IF j = i THEN pending[j] - 1 ELSE pending[j]
        /\ lost'[j] = IF j = i THEN lost[j] + 1 ELSE lost[j]
    BY <2>1 DEF TypeOK
  <2> QED
    BY <1>1, <1>3, <1>7, <2>1, <2>2 DEF Live
<1>5. ASSUME ApiCrash, NEW j \in Input
      PROVE  Traces(j)' = Traces(j) /\ jobs'[j] = jobs[j]
  <2>1. pending'[j] = 0 /\ lost'[j] = lost[j] + pending[j] /\ UNCHANGED jobs
    BY <1>5 DEF ApiCrash
  <2> QED
    BY <1>1, <1>3, <1>7, <2>1 DEF Live
<1>6. ASSUME Crash, NEW j \in Input
      PROVE  /\ Traces(j) <= Traces(j)' /\ Traces(j)' <= Traces(j) + 1
             /\ ~queueEnabled => jobs'[j] = jobs[j] /\ Traces(j)' = Traces(j)
  <2>1. UNCHANGED <<pending, lost>>
    BY <1>6 DEF Crash, UnchangedProducers
  <2>2. \/ jobs'[j] = jobs[j]
        \/ jobs[j].state \in {"active", "inserted"} /\ jobs'[j].state = "waiting"
    BY <1>6 DEF Crash, TypeOK, Job
  <2>3. ~queueEnabled => jobs'[j] = jobs[j]
    BY <2>2 DEF RowsInv
  <2> QED
    BY <1>1, <1>3, <1>7, <2>1, <2>2, <2>3 DEF Live
<1> QED
  BY <1>1, <1>2, <1>3, <1>4, <1>5, <1>6 DEF Accounts, RowsInv

LEMMA RowsInvStep == TypeOK /\ QueueInv /\ RowsInv /\ [Next]_vars => RowsInv'
<1> SUFFICES ASSUME TypeOK, QueueInv, RowsInv, [Next]_vars PROVE Accounts
  BY TypeStep, AccountsKeeps
<1>1. CASE UNCHANGED vars
  BY <1>1, QuietAccounts DEF vars, history
<1>2. ASSUME NEW r \in Requests, Begin(r) \/ (Step(r) /\ ~EmitEvents(r))
      PROVE  Accounts
  <2>1. UNCHANGED <<queueEnabled, inbox, pending, emitted, lost, swallowed, jobs>>
    <3>1. UNCHANGED <<queueEnabled, inbox, lost, swallowed, jobs>>
      BY <1>2, RequestsLeaveDelivery DEF UnchangedDelivery
    <3>2. CASE Begin(r)
      BY <3>1, <3>2, BeginsQuietly
    <3>3. CASE Step(r) /\ ~EmitEvents(r)
      BY <3>1, <3>3
      DEF Step, SaveSelect, SaveWrite, InsertComment, EditSelect, EditWrite, RemoveComment
    <3> QED
      BY <1>2, <3>2, <3>3
  <2>2. UNCHANGED budget \/ \E e \in Event \ {"fault"} : Spend(e)
    <3>1. CASE Begin(r)
      BY <3>1, BeginsQuietly
    <3>2. CASE Step(r) /\ ~EmitEvents(r)
      BY <3>2
      DEF Step, SaveSelect, SaveWrite, InsertComment, EditSelect, EditWrite, RemoveComment
    <3> QED
      BY <1>2, <3>1, <3>2
  <2> QED
    BY <2>1, <2>2, QuietAccounts
<1> QED
  BY <1>1, <1>2, TypeStep, EmitAccounts, ListenAccounts, WorkAccounts, FaultAccounts
  DEF Next, Listen

\* What the queue takes for a repeat is one of a notification that has come, is
\* on its way or is dead-lettered.
SwallowedInv ==
  \A i \in Input : swallowed[i] > 0 =>
    queueEnabled /\ (inbox[i] > 0 \/ jobs[i].state \in {"waiting", "active", "failed"})

LEMMA SwallowedInvStep == TypeOK /\ QueueInv /\ SwallowedInv /\ [Next]_vars => SwallowedInv'
<1> SUFFICES ASSUME TypeOK, QueueInv, SwallowedInv, [Next]_vars PROVE SwallowedInv'
  OBVIOUS
<1>1. CASE UNCHANGED vars
  BY <1>1 DEF vars, history, SwallowedInv
<1>2. CASE Next
  <2> SUFFICES ASSUME NEW i \in Input, swallowed'[i] > 0
               PROVE  /\ queueEnabled'
                      /\ inbox'[i] > 0 \/ jobs'[i].state \in {"waiting", "active", "failed"}
    BY DEF SwallowedInv
  <2>1. inbox'[i] \in Nat /\ inbox[i] \in Nat /\ inbox'[i] >= inbox[i]
    <3>1. TypeOK'
      BY TypeStep
    <3> QED
      BY <1>2, <3>1, InboxGrows DEF TypeOK
  <2>2. queueEnabled' = queueEnabled
    BY <1>2, RequestsLeaveDelivery
    DEF Next, UnchangedDelivery, Listen, Deliver, Enqueue, Reject, Work, TakeJob, Process,
        CompleteJob, JobFails, Crash, ApiCrash, UnchangedProducers, UnchangedRequests
  <2>3. \/ swallowed'[i] = swallowed[i]
        \/ queueEnabled /\ jobs[i].state # "none" /\ jobs'[i] = jobs[i]
    <3>1. ASSUME NEW j \in Input, Enqueue(j)
          PROVE  \/ swallowed'[i] = swallowed[i]
                 \/ queueEnabled /\ jobs[i].state # "none" /\ jobs'[i] = jobs[i]
      <4>1. CASE j = i
        BY <3>1, <4>1 DEF Enqueue
      <4>2. CASE j # i
        BY <3>1, <4>2 DEF Enqueue, TypeOK
      <4> QED
        BY <4>1, <4>2
    <3>2. ASSUME ~\E j \in Input : Enqueue(j)
          PROVE  UNCHANGED swallowed
      BY <1>2, <3>2, RequestsLeaveDelivery
      DEF Next, UnchangedDelivery, Listen, Deliver, Reject, Work, TakeJob, Process,
          CompleteJob, JobFails, Crash, ApiCrash, UnchangedProducers
    <3> QED
      BY <3>1, <3>2
  <2>4. jobs[i].state \in {"none", "waiting", "active", "inserted", "completed", "failed"}
    BY DEF TypeOK, Job
  <2>5. jobs[i].state \in {"inserted", "completed"} => inbox[i] > 0
    BY DEF QueueInv
  <2>6. /\ queueEnabled
        /\ inbox[i] > 0 \/ jobs[i].state \in {"waiting", "active", "failed"}
    BY <2>3, <2>4, <2>5 DEF SwallowedInv
  <2>7. CASE inbox[i] > 0
    BY <2>1, <2>2, <2>6, <2>7
  <2>8. CASE jobs[i].state \in {"waiting", "active", "failed"}
    <3>1. CASE Process(i)
      BY <2>1, <2>2, <2>6, <3>1 DEF Process, TypeOK
    <3>2. CASE ~Process(i)
      BY <1>2, <2>2, <2>6, <2>8, <3>2, JobStep
    <3> QED
      BY <3>1, <3>2
  <2> QED
    BY <2>6, <2>7, <2>8
<1> QED
  BY <1>1, <1>2

\* No notification is invented and none goes missing unseen, whatever the queue
\* takes for a duplicate, retries or runs again; without the queue the rows are
\* the events but for lost inserts.
THEOREM RowsAreAccountedCorrect == Spec => []RowsAreAccounted
<1>1. Init => RowsInv /\ SwallowedInv /\ QueueInv
  BY ConstantsAssumption
  DEF ConstantsAssumption, Init, RowsInv, Traces, Rows, GivenUp, SwallowedInv, QueueInv, Count,
      NoJob, Event
<1>2. TypeOK /\ RowsInv /\ SwallowedInv => RowsAreAccounted
  <2> SUFFICES ASSUME TypeOK, RowsInv, SwallowedInv, NEW i \in Input
               PROVE  ~queueEnabled => Rows(i) + lost[i] = emitted[i]
    BY DEF RowsAreAccounted, RowsInv, SwallowedInv, Traces
  <2> QED
    BY Numbers DEF RowsInv, Traces, GivenUp, Count
<1> QED
  BY <1>1, <1>2, RowsInvStep, SwallowedInvStep, QueueInvStep, TypeCorrect, PTL DEF Spec

-----------------------------------------------------------------------------
(* The events that ask for a notification: emitted, still to emit, or cut    *)
(* off.  A saved request adds its events, and none is forgotten.            *)

Asked(i) == Cardinality(Announcing(i)) + cut[i] + emitted[i]

LEMMA AskedType == TypeOK => \A i \in Input : Asked(i) \in Nat
  BY AnnouncingFinite, Numbers DEF Asked

\* A step of a request leaves the other requests alone.
LEMMA RequestStep ==
  ASSUME NEW r \in Requests, Begin(r) \/ Step(r)
  PROVE  \E x : req' = [req EXCEPT ![r] = x]
<1>1. CASE Begin(r)
  <2>1. ASSUME NEW t \in Tasks, NEW actor \in Users, NEW u \in UserOrNone,
               NEW st \in {"open", "DONE"},
               CreateTask(r, t, actor, u) \/ BeginUpdate(r, t, actor, u, st)
        PROVE  \E x : req' = [req EXCEPT ![r] = x]
    BY <2>1 DEF CreateTask, BeginUpdate
  <2>2. ASSUME NEW t \in Tasks, NEW actor \in Users, NEW c \in Comments,
               NEW p \in Comments \cup {None}, BeginComment(r, c, t, actor, p)
        PROVE  \E x : req' = [req EXCEPT ![r] = x]
    BY <2>2 DEF BeginComment
  <2>3. ASSUME NEW c \in Comments, BeginRemove(r, c) \/ \E actor \in Users : BeginEdit(r, c, actor)
        PROVE  \E x : req' = [req EXCEPT ![r] = x]
    BY <2>3 DEF BeginRemove, BeginEdit
  <2>4. "open" \in {"open", "DONE"}
    OBVIOUS
  <2> QED
    BY <1>1, <2>1, <2>2, <2>3, <2>4 DEF Begin
<1>2. CASE SaveSelect(r) \/ SaveWrite(r) \/ EditSelect(r)
  BY <1>2 DEF SaveSelect, SaveWrite, EditSelect
<1>3. CASE InsertComment(r) \/ EditWrite(r) \/ RemoveComment(r) \/ EmitEvents(r)
  BY <1>3 DEF InsertComment, EditWrite, RemoveComment, EmitEvents, Return, Emit
<1> QED
  BY <1>1, <1>2, <1>3 DEF Step

\* A request that goes on to emit asks for each notification of its events.
Asks(r, i) == req[r].pc # "emit" /\ req'[r].pc = "emit" /\ i \in req'[r].events

LEMMA AskedByRequest ==
  ASSUME TypeOK, NEW r \in Requests, Begin(r) \/ Step(r), NEW i \in Input
  PROVE  Asked(i)' = Asked(i) + IF Asks(r, i) THEN 1 ELSE 0
<1>1. \A s \in Requests : s # r => req'[s] = req[s]
  BY RequestStep DEF TypeOK
<1>2. UNCHANGED cut
  BY RequestsLeaveDelivery DEF UnchangedDelivery
<1> DEFINE S == Announcing(i)
           T == Announcing(i)'
<1>3. /\ IsFiniteSet(S) /\ Cardinality(S) \in Nat
      /\ cut[i] \in Nat /\ emitted[i] \in Nat
  BY AnnouncingFinite, Numbers
<1>4. /\ r \in S <=> req[r].pc = "emit" /\ i \in req[r].events
      /\ r \in T <=> req'[r].pc = "emit" /\ i \in req'[r].events
      /\ \A s : s # r => (s \in T <=> s \in S)
  BY <1>1 DEF Announcing
<1>5. Asked(i) = Cardinality(S) + cut[i] + emitted[i]
      /\ Asked(i)' = Cardinality(T) + cut'[i] + emitted'[i]
  BY DEF Asked
<1> HIDE DEF S, T
<1>6. CASE EmitEvents(r)
  <2>1. /\ req[r].pc = "emit" /\ req'[r].pc = "idle"
        /\ emitted'[i] = emitted[i] + IF i \in req[r].events THEN 1 ELSE 0
    BY <1>6, IdleRequest DEF EmitEvents, Emit, TypeOK
  <2>2. CASE i \in req[r].events
    <3>1. r \in S /\ T = S \ {r}
      BY <1>4, <2>1, <2>2
    <3>2. Cardinality(T) = Cardinality(S) - 1
      BY <1>3, <3>1, FS_RemoveElement
    <3> QED
      BY <1>2, <1>3, <1>5, <2>1, <2>2, <3>2 DEF Asks
  <2>3. CASE i \notin req[r].events
    <3>1. T = S
      BY <1>4, <2>1, <2>3
    <3> QED
      BY <1>2, <1>3, <1>5, <2>1, <2>3, <3>1 DEF Asks
  <2> QED
    BY <2>2, <2>3
<1>7. CASE ~EmitEvents(r)
  <2>1. req[r].pc # "emit" /\ UNCHANGED emitted
    BY <1>7
    DEF Begin, Step, CreateTask, BeginUpdate, SaveSelect, SaveWrite, BeginComment, InsertComment,
        BeginEdit, EditSelect, EditWrite, BeginRemove, RemoveComment
  <2>2. CASE Asks(r, i)
    <3>1. r \notin S /\ T = S \cup {r}
      BY <1>4, <2>1, <2>2 DEF Asks
    <3>2. Cardinality(T) = Cardinality(S) + 1
      BY <1>3, <3>1, FS_AddElement
    <3> QED
      BY <1>2, <1>3, <1>5, <2>1, <2>2, <3>2
  <2>3. CASE ~Asks(r, i)
    <3>1. T = S
      BY <1>4, <2>1, <2>3 DEF Asks
    <3> QED
      BY <1>2, <1>3, <1>5, <2>1, <2>3, <3>1
  <2> QED
    BY <2>2, <2>3
<1> QED
  BY <1>6, <1>7

LEMMA AskedOtherwise ==
  ASSUME TypeOK, Next, ~\E r \in Requests : Begin(r) \/ Step(r), NEW i \in Input
  PROVE  Asked(i)' = Asked(i)
<1>1. CASE ApiCrash
  <2>1. \A r \in Requests : req'[r].pc = "idle"
    BY <1>1, IdleRequest DEF ApiCrash
  <2>2. Announcing(i)' = {}
    BY <2>1 DEF Announcing
  <2>3. Cardinality(Announcing(i)') = 0
    BY <2>2, FS_EmptySet
  <2>4. cut'[i] = cut[i] + Cardinality(Announcing(i)) /\ UNCHANGED emitted
    BY <1>1 DEF ApiCrash
  <2> QED
    BY <2>3, <2>4, AnnouncingFinite, Numbers DEF Asked
<1>2. CASE ~ApiCrash
  <2>1. UNCHANGED <<req, cut, emitted>>
    BY <1>2
    DEF Next, Listen, Deliver, Enqueue, Reject, Work, TakeJob, Process, CompleteJob, JobFails,
        Crash, UnchangedRequests, UnchangedProducers
  <2>2. Announcing(i)' = Announcing(i)
    BY <2>1 DEF Announcing
  <2> QED
    BY <2>1, <2>2 DEF Asked
<1> QED
  BY <1>1, <1>2

LEMMA AskedStays ==
  ASSUME TypeOK, Next, NEW i \in Input
  PROVE  Asked(i) \in Nat /\ Asked(i)' \in Nat /\ Asked(i) <= Asked(i)'
<1>1. Asked(i) \in Nat
  BY AskedType
<1>2. ASSUME NEW r \in Requests, Begin(r) \/ Step(r)
      PROVE  Asked(i)' \in Nat /\ Asked(i) <= Asked(i)'
  <2>1. Asked(i)' = Asked(i) + IF Asks(r, i) THEN 1 ELSE 0
    BY <1>2, AskedByRequest
  <2> HIDE DEF Asked
  <2> QED
    BY <1>1, <2>1
<1>3. ASSUME ~\E r \in Requests : Begin(r) \/ Step(r)
      PROVE  Asked(i)' = Asked(i)
  BY <1>3, AskedOtherwise
<1> QED
  BY <1>1, <1>2, <1>3

\* A notification nobody has asked for leaves no trace.
SilentInv ==
  \A i \in Input : emitted[i] = 0 => Traces(i) = 0 /\ jobs[i].state = "none"

LEMMA SilentInvStep == TypeOK /\ QueueInv /\ SilentInv /\ [Next]_vars => SilentInv'
<1> SUFFICES ASSUME TypeOK, QueueInv, SilentInv, [Next]_vars PROVE SilentInv'
  OBVIOUS
<1>1. CASE UNCHANGED vars
  BY <1>1 DEF vars, history, SilentInv, Traces, Rows, GivenUp
<1>2. CASE Next
  <2> SUFFICES ASSUME NEW i \in Input, emitted'[i] = 0
               PROVE  (Traces(i) = 0)' /\ jobs'[i].state = "none"
    BY DEF SilentInv
  <2>1. emitted[i] = 0 /\ (emitted'[i] = emitted[i] => UNCHANGED emitted \/ \E r \in Requests :
          EmitEvents(r) /\ i \notin req[r].events)
    <3>1. ASSUME NEW r \in Requests, EmitEvents(r)
          PROVE  emitted'[i] = emitted[i] + IF i \in req[r].events THEN 1 ELSE 0
      BY <3>1 DEF EmitEvents, Emit
    <3>2. ASSUME ~\E r \in Requests : EmitEvents(r)
          PROVE  UNCHANGED emitted
      <4>1. ASSUME NEW r \in Requests, Begin(r) \/ Step(r)
            PROVE  UNCHANGED emitted
        BY <3>2, <4>1
        DEF Begin, Step, CreateTask, BeginUpdate, SaveSelect, SaveWrite, BeginComment,
            InsertComment, BeginEdit, EditSelect, EditWrite, BeginRemove, RemoveComment
      <4> QED
        BY <1>2, <4>1
        DEF Next, Listen, Deliver, Enqueue, Reject, Work, TakeJob, Process, CompleteJob, JobFails,
            Crash, ApiCrash, UnchangedRequests, UnchangedProducers
    <3>3. emitted[i] \in Nat
      BY Numbers
    <3> QED
      BY <3>1, <3>2, <3>3
  <2>2. /\ inbox[i] = 0 /\ pending[i] = 0 /\ lost[i] = 0 /\ swallowed[i] = 0
        /\ jobs[i].state = "none"
    <3>1. Traces(i) = 0 /\ jobs[i].state = "none"
      BY <2>1 DEF SilentInv
    <3>2. inbox[i] \in Nat /\ pending[i] \in Nat /\ lost[i] \in Nat /\ swallowed[i] \in Nat
      BY Numbers
    <3>3. Traces(i) = inbox[i] + pending[i] + lost[i] + swallowed[i] + Live(i) /\ Live(i) \in {0, 1}
      BY TracesAre
    <3> DEFINE a == inbox[i]
               b == pending[i]
               c == lost[i]
               d == swallowed[i]
               e == Live(i)
    <3>4. /\ a \in Nat /\ b \in Nat /\ c \in Nat /\ d \in Nat /\ e \in Nat
          /\ a + b + c + d + e = 0
      BY <3>1, <3>2, <3>3
    <3> HIDE DEF a, b, c, d, e
    <3>5. a = 0 /\ b = 0 /\ c = 0 /\ d = 0
      BY <3>4
    <3>6. inbox[i] = 0 /\ pending[i] = 0 /\ lost[i] = 0 /\ swallowed[i] = 0
      BY <3>5 DEF a, b, c, d
    <3> QED
      BY <3>1, <3>6
  <2>3. jobs'[i].state = "none"
    <3>1. ASSUME NEW j \in Input, Enqueue(j)
          PROVE  jobs'[i] = jobs[i]
      BY <2>2, <3>1 DEF Enqueue, TypeOK
    <3>2. ASSUME ~\E j \in Input : Enqueue(j)
          PROVE  ~(jobs'[i].state = "waiting") \/ jobs'[i] = jobs[i]
      <4>1. ASSUME NEW j \in Input, JobFails(j)
            PROVE  jobs'[i] = jobs[i]
        BY <2>2, <4>1 DEF JobFails, TypeOK
      <4>2. ASSUME NEW j \in Input, TakeJob(j) \/ Process(j)
            PROVE  jobs'[i] = jobs[i]
        BY <2>2, <4>2 DEF TakeJob, Process, TypeOK
      <4>3. ASSUME NEW j \in Input, CompleteJob(j)
            PROVE  jobs'[i] = jobs[i]
        BY <2>2, <4>3, CompleteJobTo
      <4>4. ASSUME Crash
            PROVE  jobs'[i] = jobs[i]
        BY <2>2, <4>4 DEF Crash
      <4> QED
        BY <1>2, <3>2, <4>1, <4>2, <4>3, <4>4, RequestsLeaveDelivery
        DEF Next, UnchangedDelivery, Listen, Deliver, Reject, Work, ApiCrash
    <3> QED
      BY <1>2, <2>2, <3>1, <3>2, JobStep
  <2>4. /\ inbox'[i] = 0 /\ pending'[i] = 0 /\ lost'[i] = 0 /\ swallowed'[i] = 0
    <3>1. ASSUME NEW r \in Requests, Begin(r) \/ Step(r)
          PROVE  UNCHANGED <<inbox, lost, swallowed>> /\ pending'[i] = 0
      <4>1. UNCHANGED <<inbox, lost, swallowed>>
        BY <3>1, RequestsLeaveDelivery DEF UnchangedDelivery
      <4>2. CASE EmitEvents(r)
        <5>1. /\ emitted' = [k \in Input |-> emitted[k] + IF k \in req[r].events THEN 1 ELSE 0]
              /\ pending' = [k \in Input |-> pending[k] + IF k \in req[r].events THEN 1 ELSE 0]
          BY <4>2 DEF EmitEvents, Emit
        <5>2. i \notin req[r].events
          BY <2>1, <5>1
        <5>3. pending'[i] = 0
          BY <2>2, <5>1, <5>2
        <5> QED
          BY <4>1, <5>3
      <4>3. CASE ~EmitEvents(r)
        BY <2>2, <3>1, <4>1, <4>3
        DEF Begin, Step, CreateTask, BeginUpdate, SaveSelect, SaveWrite, BeginComment,
            InsertComment, BeginEdit, EditSelect, EditWrite, BeginRemove, RemoveComment
      <4> QED
        BY <4>2, <4>3
    <3>2. ASSUME NEW j \in Input, Listen(j) \/ Reject(j)
          PROVE  /\ inbox'[i] = 0 /\ pending'[i] = 0 /\ lost'[i] = 0 /\ swallowed'[i] = 0
      <4>1. j # i
        BY <2>2, <3>2 DEF Listen, Deliver, Enqueue, Reject
      <4> QED
        BY <2>2, <3>2, <4>1 DEF Listen, Deliver, Enqueue, Reject, Finished, TypeOK
    <3>3. ASSUME NEW j \in Input, Work(j) \/ JobFails(j)
          PROVE  UNCHANGED <<pending, lost, swallowed>> /\ inbox'[i] = 0
      <4>1. UNCHANGED <<pending, lost, swallowed>>
        BY <3>3 DEF Work, TakeJob, Process, CompleteJob, JobFails, UnchangedProducers
      <4>2. UNCHANGED inbox \/ Process(j)
        BY <3>3 DEF Work, TakeJob, CompleteJob, JobFails
      <4>3. Process(j) => inbox'[i] = inbox[i]
        BY <2>2 DEF Process, TypeOK
      <4> QED
        BY <2>2, <4>1, <4>2, <4>3
    <3>4. CASE Crash \/ ApiCrash
      BY <2>2, <3>4 DEF Crash, ApiCrash, UnchangedProducers
    <3> QED
      BY <1>2, <2>2, <3>1, <3>2, <3>3, <3>4 DEF Next
  <2>5. TypeOK'
    BY TypeStep
  <2>6. Live(i)' = 0
    BY <2>3 DEF Live
  <2> QED
    BY <2>3, <2>4, <2>5, <2>6, TracesWillBe
<1> QED
  BY <1>1, <1>2

LEMMA InitSilent == Init => SilentInv /\ RowsInv /\ QueueInv /\ \A i \in Input : Asked(i) = 0
<1> SUFFICES ASSUME Init PROVE SilentInv /\ RowsInv /\ QueueInv /\ \A i \in Input : Asked(i) = 0
  OBVIOUS
<1>1. SilentInv /\ RowsInv /\ QueueInv
  BY ConstantsAssumption
  DEF ConstantsAssumption, Init, SilentInv, RowsInv, Traces, Rows, GivenUp, QueueInv, Count,
      NoJob, Event
<1>2. \A i \in Input : Announcing(i) = {} /\ cut[i] = 0 /\ emitted[i] = 0
  BY IdleRequest DEF Init, Announcing
<1> QED
  BY <1>1, <1>2, FS_EmptySet DEF Asked

\* Each event that asks for a notification is told, or given up.
LEMMA AskedIsTold ==
  ASSUME TypeOK, RowsInv, SilentInv, NEW i \in Input
  PROVE  Told(i) \in Nat /\ Asked(i) <= Told(i) /\ (Asked(i) = 0 => Told(i) = 0)
<1>1. emitted[i] <= Traces(i) /\ (emitted[i] = 0 => Traces(i) = 0)
  BY DEF RowsInv, SilentInv
<1>2. /\ Cardinality(Announcing(i)) \in Nat /\ cut[i] \in Nat /\ emitted[i] \in Nat
      /\ Traces(i) \in Nat /\ Rows(i) \in Nat /\ GivenUp(i) \in Nat
  BY AnnouncingFinite, Numbers
<1>3. Told(i) = Cardinality(Announcing(i)) + cut[i] + Traces(i)
  BY <1>2 DEF Told, Traces
<1> HIDE DEF Told
<1> QED
  BY <1>1, <1>2, <1>3 DEF Asked

-----------------------------------------------------------------------------
(* The assignee.  A request carries the assignee it will write along with    *)
(* who set it, whether its own dto assigns it and the events it will emit,   *)
(* so that whichever of two updates writes last, what it writes is its own   *)
(* assignment, which it tells, or one that was counted already.             *)

\* A task's assignee a, set by s, was assigned it before, or is being assigned it.
Claim(t, a, s, assigns) ==
  \A u \in Users : a = u /\ s # u => assigns \/ assigned[Assigned(t, u)] > 0

\* A request that assigns the task will ask to tell the assignee.
WillTell(q) ==
  q.assigns => \A u \in Users :
    q.entity.assignee = u /\ q.entity.setBy # u => Assigned(q.task, u) \in q.events

TellInv ==
  /\ \A t \in Tasks : Claim(t, task[t].assignee, task[t].setBy, FALSE)
  /\ \A r \in Requests : req[r].pc \in {"select", "write"} =>
       /\ Claim(req[r].task, req[r].entity.assignee, req[r].entity.setBy, req[r].assigns)
       /\ WillTell(req[r])
  /\ \A t \in Tasks, u \in Users : assigned[Assigned(t, u)] <= Asked(Assigned(t, u))

LEMMA AssignedInput == \A t \in Tasks, u \in Users : Assigned(t, u) \in Input
  BY DEF Assigned, Input

\* The mapper asks to tell every assignee but the one who has set it.
LEMMA AssigningTells ==
  ASSUME NEW t \in Tasks, NEW u \in Users, NEW actor, actor # u
  PROVE  Assigned(t, u) \in MapTaskAssigned(t, u, actor)
  BY ConstantsAssumption DEF ConstantsAssumption, MapTaskAssigned, Notice, Assigned

\* No step takes back that a task was assigned.
LEMMA AssignedGrows ==
  ASSUME TypeOK, Next, NEW i \in Input
  PROVE  assigned[i] \in Nat /\ assigned'[i] \in Nat /\ assigned[i] <= assigned'[i]
<1>1. assigned \in [Input -> Nat]
  BY DEF TypeOK
<1>2. ASSUME NEW t, NEW u, NEW actor, CountAssignment(t, u, actor)
      PROVE  assigned'[i] = assigned[i] \/ assigned'[i] = assigned[i] + 1
  BY <1>2 DEF CountAssignment
<1>3. ASSUME NEW r \in Requests, Begin(r)
      PROVE  UNCHANGED assigned \/ \E t, u, actor : CountAssignment(t, u, actor)
  BY <1>3 DEF Begin, CreateTask, BeginUpdate, BeginComment, BeginEdit, BeginRemove
<1>4. ASSUME NEW r \in Requests, Step(r)
      PROVE  UNCHANGED assigned \/ \E t, u, actor : CountAssignment(t, u, actor)
  BY <1>4
  DEF Step, SaveSelect, SaveWrite, InsertComment, EditSelect, EditWrite, RemoveComment, EmitEvents
<1>5. ASSUME ~\E r \in Requests : Begin(r) \/ Step(r)
      PROVE  UNCHANGED assigned
  BY <1>5
  DEF Next, Listen, Deliver, Enqueue, Reject, Work, TakeJob, Process, CompleteJob, JobFails,
      Crash, ApiCrash, UnchangedRequests, UnchangedProducers
<1>6. assigned'[i] = assigned[i] \/ assigned'[i] = assigned[i] + 1
  BY <1>2, <1>3, <1>4, <1>5
<1> QED
  BY <1>1, <1>6

\* What holds of a row or a request that a step leaves alone goes on to hold.
LEMMA QuietTell ==
  ASSUME TypeOK, TellInv, Next
  PROVE  /\ \A t \in Tasks : task'[t] = task[t] =>
              Claim(t, task[t].assignee, task[t].setBy, FALSE)'
         /\ \A r \in Requests : req'[r] = req[r] /\ req[r].pc \in {"select", "write"} =>
              /\ Claim(req[r].task, req[r].entity.assignee, req[r].entity.setBy, req[r].assigns)'
              /\ WillTell(req[r])'
         /\ UNCHANGED assigned =>
              \A t \in Tasks, u \in Users : (assigned[Assigned(t, u)] <= Asked(Assigned(t, u)))'
<1>1. \A t \in Tasks, u \in Users :
        assigned[Assigned(t, u)] > 0 => assigned'[Assigned(t, u)] > 0
  <2> SUFFICES ASSUME NEW t \in Tasks, NEW u \in Users
               PROVE  assigned[Assigned(t, u)] > 0 => assigned'[Assigned(t, u)] > 0
    OBVIOUS
  <2> QED
    BY AssignedInput, AssignedGrows
<1>2. ASSUME NEW t \in Tasks, task'[t] = task[t]
      PROVE  Claim(t, task[t].assignee, task[t].setBy, FALSE)'
  BY <1>1, <1>2 DEF TellInv, Claim
<1>3. ASSUME NEW r \in Requests, req'[r] = req[r], req[r].pc \in {"select", "write"}
      PROVE  /\ Claim(req[r].task, req[r].entity.assignee, req[r].entity.setBy, req[r].assigns)'
             /\ WillTell(req[r])'
  <2>1. req[r].task \in Tasks
    BY <1>3, RequestFields DEF TypeOK
  <2>2. Claim(req[r].task, req[r].entity.assignee, req[r].entity.setBy, req[r].assigns)
        /\ WillTell(req[r])
    BY <1>3 DEF TellInv
  <2> QED
    BY <1>1, <1>3, <2>1, <2>2 DEF Claim, WillTell
<1>4. ASSUME UNCHANGED assigned, NEW t \in Tasks, NEW u \in Users
      PROVE  (assigned[Assigned(t, u)] <= Asked(Assigned(t, u)))'
  <2>1. PICK i \in Input : i = Assigned(t, u)
    BY AssignedInput
  <2>2. assigned[i] <= Asked(i) /\ assigned[i] \in Nat
    BY <2>1 DEF TellInv, TypeOK
  <2>3. Asked(i) \in Nat /\ Asked(i)' \in Nat /\ Asked(i) <= Asked(i)'
    BY AskedStays
  <2>4. assigned'[i] <= Asked(i)'
    BY <1>4, <2>2, <2>3
  <2> QED
    BY <2>1, <2>4
<1> QED
  BY <1>2, <1>3, <1>4

\* A save that assigns a task goes on to tell the assignee.
LEMMA AssignmentIsAsked ==
  ASSUME TypeOK, TellInv, Next, NEW r \in Requests, Begin(r) \/ Step(r),
         NEW t \in Tasks, NEW a \in UserOrNone, NEW by, CountAssignment(t, a, by),
         req[r].pc # "emit", req'[r].pc = "emit",
         \A u \in Users : a = u /\ by # u => Assigned(t, u) \in req'[r].events
  PROVE  /\ \A x \in Tasks, u \in Users : (assigned[Assigned(x, u)] <= Asked(Assigned(x, u)))'
         /\ Claim(t, a, by, FALSE)'
<1>1. ASSUME NEW x \in Tasks, NEW u \in Users
      PROVE  (assigned[Assigned(x, u)] <= Asked(Assigned(x, u)))'
  <2>1. PICK i \in Input : i = Assigned(x, u)
    BY AssignedInput
  <2>2. assigned[i] <= Asked(i) /\ assigned[i] \in Nat
    BY <2>1 DEF TellInv, TypeOK
  <2>3. /\ Asked(i) \in Nat /\ Asked(i)' \in Nat /\ Asked(i) <= Asked(i)'
        /\ Asks(r, i) => Asked(i)' = Asked(i) + 1
    BY AskedStays, AskedByRequest
  <2>4. assigned'[i] = IF i = Assigned(t, a) /\ a # by THEN assigned[i] + 1 ELSE assigned[i]
    BY DEF CountAssignment
  <2>5. i = Assigned(t, a) /\ a # by => Asks(r, i)
    <3>1. Assigned(x, u) = Assigned(t, a) => x = t /\ u = a
      BY DEF Assigned
    <3> QED
      BY <2>1, <3>1 DEF Asks
  <2>6. assigned'[i] <= Asked(i)'
    BY <2>2, <2>3, <2>4, <2>5
  <2> QED
    BY <2>1, <2>6
<1>2. ASSUME NEW u \in Users, a = u, by # u
      PROVE  assigned'[Assigned(t, u)] > 0
  <2>1. Assigned(t, u) \in Input /\ assigned[Assigned(t, u)] \in Nat
    BY AssignedInput DEF TypeOK
  <2>2. assigned'[Assigned(t, u)] = assigned[Assigned(t, u)] + 1
    BY <1>2, <2>1 DEF CountAssignment
  <2> QED
    BY <2>1, <2>2
<1> QED
  BY <1>1, <1>2 DEF Claim

LEMMA CreateTells ==
  ASSUME TypeOK, TellInv, Next, NEW r \in Requests, NEW t \in Tasks,
         NEW actor \in Users, NEW u \in UserOrNone, CreateTask(r, t, actor, u)
  PROVE  TellInv'
<1>1. /\ task' = [task EXCEPT ![t] = [status |-> "open", assignee |-> u, setBy |-> actor,
                                      creator |-> actor]]
      /\ req' = [req EXCEPT ![r] = [pc |-> "emit", events |-> MapTaskAssigned(t, u, actor)]]
      /\ req[r].pc = "idle" /\ CountAssignment(t, u, actor)
  BY DEF CreateTask
<1>2. req'[r] = [pc |-> "emit", events |-> MapTaskAssigned(t, u, actor)]
  BY <1>1 DEF TypeOK
<1>3. task'[t].assignee = u /\ task'[t].setBy = actor
  BY <1>1 DEF TypeOK
<1>4. \A w \in Users : u = w /\ actor # w => Assigned(t, w) \in req'[r].events
  BY <1>2, AssigningTells
<1>5. /\ \A x \in Tasks, w \in Users : (assigned[Assigned(x, w)] <= Asked(Assigned(x, w)))'
      /\ Claim(t, u, actor, FALSE)'
  <2>1. Begin(r)
    BY DEF Begin
  <2>2. req[r].pc # "emit" /\ req'[r].pc = "emit" /\ CountAssignment(t, u, actor)
    BY <1>1, <1>2
  <2> QED
    BY <1>4, <2>1, <2>2, AssignmentIsAsked
<1>6. Claim(t, task[t].assignee, task[t].setBy, FALSE)'
  BY <1>3, <1>5
<1>7. ASSUME NEW x \in Tasks, x # t
      PROVE  Claim(x, task[x].assignee, task[x].setBy, FALSE)'
  <2>1. task'[x] = task[x]
    BY <1>1, <1>7 DEF TypeOK
  <2> QED
    BY <2>1, QuietTell
<1>8. ASSUME NEW q \in Requests, req'[q].pc \in {"select", "write"}
      PROVE  /\ Claim(req[q].task, req[q].entity.assignee, req[q].entity.setBy, req[q].assigns)'
             /\ WillTell(req[q])'
  <2>1. q # r
    BY <1>2, <1>8
  <2>2. req'[q] = req[q]
    BY <1>1, <2>1 DEF TypeOK
  <2> QED
    BY <1>8, <2>2, QuietTell
<1> QED
  BY <1>5, <1>6, <1>7, <1>8 DEF TellInv

LEMMA BeginTells ==
  ASSUME TypeOK, TellInv, Next, NEW r \in Requests, NEW t \in Tasks,
         NEW actor \in Users, NEW a \in UserOrNone, NEW st \in {"open", "DONE"},
         BeginUpdate(r, t, actor, a, st)
  PROVE  TellInv'
<1> DEFINE prev == task[t]
           entity == [prev EXCEPT !.assignee = a, !.status = st,
                                  !.setBy = IF a = prev.assignee THEN @ ELSE actor]
           is == UpdateEvents(t, prev, entity, actor)
           assigns == a # prev.assignee
<1>1. req' = [req EXCEPT ![r] = [pc |-> "select", task |-> t, entity |-> entity, events |-> is,
                                 assigns |-> assigns]]
      /\ UNCHANGED <<task, assigned>>
  BY DEF BeginUpdate
<1>2. /\ entity.assignee = a
      /\ entity.setBy = IF a = prev.assignee THEN prev.setBy ELSE actor
  BY DEF TypeOK, TaskRow
<1>3. assigns => entity.setBy = actor /\ MapTaskAssigned(t, a, actor) \subseteq is
  BY <1>2 DEF UpdateEvents
<1>4. ~assigns => Claim(t, entity.assignee, entity.setBy, FALSE)
  BY <1>2 DEF TellInv
<1> HIDE DEF entity, is, assigns
<1>5. req'[r] = [pc |-> "select", task |-> t, entity |-> entity, events |-> is,
                 assigns |-> assigns]
  BY <1>1 DEF TypeOK
<1>6. WillTell(req[r])'
  <2> SUFFICES ASSUME assigns, NEW w \in Users, entity.assignee = w, entity.setBy # w
               PROVE  Assigned(t, w) \in is
    BY <1>5 DEF WillTell
  <2> QED
    BY <1>2, <1>3, AssigningTells
<1>7. Claim(req[r].task, req[r].entity.assignee, req[r].entity.setBy, req[r].assigns)'
  BY <1>1, <1>4, <1>5 DEF Claim
<1>8. ASSUME NEW q \in Requests, q # r, req'[q].pc \in {"select", "write"}
      PROVE  /\ Claim(req[q].task, req[q].entity.assignee, req[q].entity.setBy, req[q].assigns)'
             /\ WillTell(req[q])'
  <2>1. req'[q] = req[q]
    BY <1>1, <1>8 DEF TypeOK
  <2> QED
    BY <1>8, <2>1, QuietTell
<1> QED
  BY <1>1, <1>6, <1>7, <1>8, QuietTell DEF TellInv

LEMMA SelectTells ==
  ASSUME TypeOK, TellInv, Next, NEW r \in Requests, SaveSelect(r)
  PROVE  TellInv'
<1> DEFINE q == req[r]
<1>1. /\ q.pc = "select" /\ UNCHANGED <<task, assigned>>
      /\ req' = [req EXCEPT ![r] =
           [pc |-> "write", task |-> q.task, entity |-> q.entity, events |-> q.events,
            assigns |-> q.assigns,
            assignee |-> q.entity.assignee # task[q.task].assignee,
            status |-> q.entity.status # task[q.task].status]]
  BY DEF SaveSelect, UnchangedDelivery
<1>2. /\ req'[r].task = q.task /\ req'[r].entity = q.entity /\ req'[r].events = q.events
      /\ req'[r].assigns = q.assigns
  BY <1>1 DEF TypeOK
<1>3. Claim(q.task, q.entity.assignee, q.entity.setBy, q.assigns) /\ WillTell(q)
  BY <1>1 DEF TellInv
<1>4. /\ Claim(req[r].task, req[r].entity.assignee, req[r].entity.setBy, req[r].assigns)'
      /\ WillTell(req[r])'
  BY <1>1, <1>2, <1>3 DEF Claim, WillTell
<1>5. ASSUME NEW p \in Requests, p # r, req'[p].pc \in {"select", "write"}
      PROVE  /\ Claim(req[p].task, req[p].entity.assignee, req[p].entity.setBy, req[p].assigns)'
             /\ WillTell(req[p])'
  <2>1. req'[p] = req[p]
    BY <1>1, <1>5 DEF TypeOK
  <2> QED
    BY <1>5, <2>1, QuietTell
<1> QED
  BY <1>1, <1>4, <1>5, QuietTell DEF TellInv

LEMMA WriteTells ==
  ASSUME TypeOK, TellInv, Next, NEW r \in Requests, SaveWrite(r)
  PROVE  TellInv'
<1> DEFINE q == req[r]
<1>1. /\ q.pc = "write" /\ req' = [req EXCEPT ![r] = [pc |-> "emit", events |-> q.events]]
      /\ IF q.assigns THEN CountAssignment(q.task, q.entity.assignee, q.entity.setBy)
         ELSE UNCHANGED assigned
  BY DEF SaveWrite
<1>2. /\ q.task \in Tasks /\ q.entity \in TaskRow /\ q.events \in SUBSET Input
      /\ q.assigns \in BOOLEAN /\ q.assignee \in BOOLEAN
  BY <1>1, RequestFields DEF TypeOK
<1>3. req'[r] = [pc |-> "emit", events |-> q.events]
  BY <1>1 DEF TypeOK
<1>4. PICK t \in Tasks, a \in UserOrNone, by \in UserOrNone :
        t = q.task /\ a = q.entity.assignee /\ by = q.entity.setBy
  BY <1>2 DEF TaskRow
<1>5. /\ task'[t].assignee = IF q.assignee THEN a ELSE task[t].assignee
      /\ task'[t].setBy = IF q.assignee THEN by ELSE task[t].setBy
  <2> DEFINE a2 == IF q.assignee THEN a ELSE task[t].assignee
             b2 == IF q.assignee THEN by ELSE task[t].setBy
             s2 == IF q.status THEN q.entity.status ELSE task[t].status
  <2>1. task' = [task EXCEPT ![t].assignee = a2, ![t].setBy = b2, ![t].status = s2]
    BY <1>4 DEF SaveWrite, TypeOK
  <2> HIDE DEF a2, b2, s2
  <2>2. task'[t].assignee = a2 /\ task'[t].setBy = b2
    BY <2>1 DEF TypeOK, TaskRow
  <2> QED
    BY <2>2 DEF a2, b2
<1>6. Claim(t, a, by, q.assigns) /\ WillTell(q)
  BY <1>1, <1>4 DEF TellInv
<1>7. /\ \A x \in Tasks, u \in Users : (assigned[Assigned(x, u)] <= Asked(Assigned(x, u)))'
      /\ Claim(t, a, by, FALSE)'
  <2>1. CASE q.assigns
    <3>1. \A u \in Users : a = u /\ by # u => Assigned(t, u) \in req'[r].events
      BY <1>3, <1>4, <1>6, <2>1 DEF WillTell
    <3>2. Step(r) /\ CountAssignment(t, a, by) /\ req[r].pc # "emit" /\ req'[r].pc = "emit"
      BY <1>1, <1>3, <1>4, <2>1 DEF Step
    <3> QED
      BY <3>1, <3>2, AssignmentIsAsked
  <2>2. CASE ~q.assigns
    <3>1. UNCHANGED assigned
      BY <1>1, <2>2
    <3>2. Claim(t, a, by, FALSE)'
      BY <1>6, <2>2, <3>1 DEF Claim
    <3> QED
      BY <3>1, <3>2, QuietTell
  <2> QED
    BY <2>1, <2>2
<1>8. Claim(t, task[t].assignee, task[t].setBy, FALSE)'
  <2>1. CASE q.assignee
    BY <1>5, <1>7, <2>1
  <2>2. CASE ~q.assignee
    <3>1. \A u \in Users : assigned[Assigned(t, u)] > 0 => assigned'[Assigned(t, u)] > 0
      <4> SUFFICES ASSUME NEW u \in Users
                   PROVE  assigned[Assigned(t, u)] > 0 => assigned'[Assigned(t, u)] > 0
        OBVIOUS
      <4> QED
        BY AssignedInput, AssignedGrows
    <3>2. Claim(t, task[t].assignee, task[t].setBy, FALSE)
      BY DEF TellInv
    <3> QED
      BY <1>5, <2>2, <3>1, <3>2 DEF Claim
  <2> QED
    BY <2>1, <2>2
<1>9. ASSUME NEW x \in Tasks, x # t
      PROVE  Claim(x, task[x].assignee, task[x].setBy, FALSE)'
  <2>1. task'[x] = task[x]
    BY <1>4, <1>9 DEF SaveWrite, TypeOK
  <2> QED
    BY <2>1, QuietTell
<1>10. ASSUME NEW p \in Requests, req'[p].pc \in {"select", "write"}
       PROVE  /\ Claim(req[p].task, req[p].entity.assignee, req[p].entity.setBy, req[p].assigns)'
              /\ WillTell(req[p])'
  <2>1. p # r
    BY <1>3, <1>10
  <2>2. req'[p] = req[p]
    BY <1>1, <2>1 DEF TypeOK
  <2> QED
    BY <1>10, <2>2, QuietTell
<1> QED
  BY <1>7, <1>8, <1>9, <1>10 DEF TellInv

\* A request about a comment goes on to its next step.
LEMMA CommentStepPc ==
  ASSUME TypeOK, NEW r \in Requests, Begin(r) \/ Step(r),
         ~\/ \E t \in Tasks, actor \in Users, u \in UserOrNone :
               \/ CreateTask(r, t, actor, u)
               \/ \E st \in {"open", "DONE"} : BeginUpdate(r, t, actor, u, st)
          \/ SaveSelect(r) \/ SaveWrite(r)
  PROVE  req'[r].pc \in {"idle", "emit", "insert", "editSelect", "editWrite", "remove"}
<1>1. CASE Begin(r)
  <2>1. ASSUME NEW t \in Tasks, NEW actor \in Users, NEW c \in Comments,
               NEW p \in Comments \cup {None}, BeginComment(r, c, t, actor, p)
        PROVE  req'[r].pc = "insert"
    BY <2>1 DEF BeginComment, TypeOK
  <2>2. ASSUME NEW c \in Comments, BeginRemove(r, c)
        PROVE  req'[r].pc = "remove"
    BY <2>2 DEF BeginRemove, TypeOK
  <2>3. ASSUME NEW c \in Comments, NEW actor \in Users, BeginEdit(r, c, actor)
        PROVE  req'[r].pc = "editSelect"
    BY <2>3 DEF BeginEdit, TypeOK
  <2> QED
    BY <1>1, <2>1, <2>2, <2>3 DEF Begin
<1>2. CASE InsertComment(r) \/ EditSelect(r) \/ EditWrite(r) \/ RemoveComment(r) \/ EmitEvents(r)
  <2>3. CASE InsertComment(r)
    BY <2>3, IdleRequest DEF InsertComment, Return, TypeOK
  <2>4. CASE EditSelect(r)
    BY <2>4 DEF EditSelect, TypeOK
  <2>5. CASE EditWrite(r) \/ RemoveComment(r) \/ EmitEvents(r)
    BY <2>5, IdleRequest DEF EditWrite, RemoveComment, EmitEvents, Return, Emit, TypeOK
  <2> QED
    BY <1>2, <2>3, <2>4, <2>5
<1> QED
  BY <1>1, <1>2 DEF Step

LEMMA TellInvStep == TypeOK /\ TellInv /\ [Next]_vars => TellInv'
<1> SUFFICES ASSUME TypeOK, TellInv, [Next]_vars PROVE TellInv'
  OBVIOUS
<1>1. CASE UNCHANGED vars
  BY <1>1 DEF vars, history, TellInv, Claim, WillTell, Asked, Announcing
<1>2. ASSUME Next,
             ~\E r \in Requests :
                \/ \E t \in Tasks, actor \in Users, u \in UserOrNone :
                     \/ CreateTask(r, t, actor, u)
                     \/ \E st \in {"open", "DONE"} : BeginUpdate(r, t, actor, u, st)
                \/ SaveSelect(r) \/ SaveWrite(r)
      PROVE  TellInv'
  <2>1. UNCHANGED <<task, assigned>>
    <3>1. ASSUME NEW r \in Requests, Begin(r)
          PROVE  UNCHANGED <<task, assigned>>
      BY <1>2, <3>1 DEF Begin, BeginComment, BeginEdit, BeginRemove
    <3>2. ASSUME NEW r \in Requests, Step(r)
          PROVE  UNCHANGED <<task, assigned>>
      BY <1>2, <3>2 DEF Step, InsertComment, EditSelect, EditWrite, RemoveComment, EmitEvents
    <3> QED
      BY <1>2, <3>1, <3>2
      DEF Next, Listen, Deliver, Enqueue, Reject, Work, TakeJob, Process, CompleteJob, JobFails,
          Crash, ApiCrash, UnchangedRequests, UnchangedProducers
  <2>2. ASSUME NEW p \in Requests, req'[p].pc \in {"select", "write"}
        PROVE  req'[p] = req[p]
    <3>1. CASE UNCHANGED req
      BY <3>1
    <3>2. CASE ApiCrash
      BY <2>2, <3>2, IdleRequest DEF ApiCrash
    <3>3. ASSUME NEW r \in Requests, Begin(r) \/ Step(r)
          PROVE  req'[p] = req[p]
      <4>1. CASE p = r
        BY <1>2, <2>2, <3>3, <4>1, CommentStepPc
      <4>2. CASE p # r
        BY <3>3, <4>2, RequestStep DEF TypeOK
      <4> QED
        BY <4>1, <4>2
    <3> QED
      BY <1>2, <3>1, <3>2, <3>3
      DEF Next, Listen, Deliver, Enqueue, Reject, Work, TakeJob, Process, CompleteJob, JobFails,
          Crash, UnchangedRequests, UnchangedProducers
  <2> QED
    BY <1>2, <2>1, <2>2, QuietTell DEF TellInv
<1> QED
  BY <1>1, <1>2, CreateTells, BeginTells, SelectTells, WriteTells

\* Whoever another user makes the assignee of a task is told each time, unless
\* that was given up, for any number of overlapping updates, any queue and any
\* faults.
THEOREM AssigneeIsToldCorrect == Spec => []AssigneeIsTold
<1>1. Init => TellInv
  <2> SUFFICES ASSUME Init PROVE TellInv
    OBVIOUS
  <2>1. \A i \in Input : assigned[i] = 0 /\ Asked(i) = 0
    BY InitSilent DEF Init
  <2>2. \A t \in Tasks, u \in Users : assigned[Assigned(t, u)] <= Asked(Assigned(t, u))
    BY <2>1, AssignedInput
  <2>3. \A r \in Requests : req[r].pc = "idle"
    BY IdleRequest DEF Init
  <2>4. \A t \in Tasks : task[t].assignee \notin Users
    BY ConstantsAssumption DEF Init, ConstantsAssumption
  <2> QED
    BY <2>2, <2>3, <2>4 DEF TellInv, Claim
<1>2. TypeOK /\ RowsInv /\ SilentInv /\ TellInv => AssigneeIsTold
  <2> SUFFICES ASSUME TypeOK, RowsInv, SilentInv, TellInv, NEW t \in Tasks, NEW u \in Users
               PROVE  /\ assigned[Assigned(t, u)] <= Told(Assigned(t, u))
                      /\ task[t].assignee = u /\ task[t].setBy # u => assigned[Assigned(t, u)] > 0
    BY DEF AssigneeIsTold
  <2>1. PICK i \in Input : i = Assigned(t, u)
    BY AssignedInput
  <2>2. assigned[i] \in Nat /\ assigned[i] <= Asked(i) /\ Asked(i) \in Nat
    BY <2>1, AskedType DEF TellInv, TypeOK
  <2>3. Told(i) \in Nat /\ Asked(i) <= Told(i)
    BY AskedIsTold
  <2>4. assigned[i] <= Told(i)
    BY <2>2, <2>3
  <2>5. task[t].assignee = u /\ task[t].setBy # u => assigned[Assigned(t, u)] > 0
    BY DEF TellInv, Claim
  <2> QED
    BY <2>1, <2>4, <2>5
<1> QED
  BY <1>1, <1>2, InitSilent, QueueInvStep, RowsInvStep, SilentInvStep, TellInvStep, TypeCorrect,
     PTL DEF Spec

-----------------------------------------------------------------------------
(* The author of the parent.  A is who has written each comment there has    *)
(* been: it outlives the row, which an edit may bring back after a removal.  *)
(* Every row and every request that may still insert a row agrees with it.   *)

\* That c answers p is told to the author of p, who has written on the same task.
Answered(A, c, p) ==
  p # None => /\ A[p] \in Users
              /\ comment[p].task = comment[c].task
              /\ A[p] # A[c] => Asked(Replied(A[p], c)) > 0

RowAgrees(A, c) ==
  /\ comment[c].author = A[c]
  /\ comment[c].task # None
  /\ Answered(A, c, comment[c].parent)

RequestAgrees(A, q) ==
  /\ q.pc = "insert" =>
       /\ comment[q.comment].task = None
       /\ q.parent # None => /\ q.parentAuthor = A[q.parent] /\ A[q.parent] \in Users
                             /\ comment[q.parent].task = q.task
  /\ q.pc \in {"editSelect", "editWrite"} =>
       /\ q.row.author = A[q.comment] /\ q.row.author # None
       /\ q.row.task = comment[q.comment].task /\ q.row.task # None
       /\ Answered(A, q.comment, q.row.parent)

ReplyInv(A) ==
  /\ \A c \in Comments : Exists(c) => RowAgrees(A, c)
  /\ \A c \in Comments : Exists(c) => ParentExists(comment[c].parent)
  /\ \A r \in Requests : RequestAgrees(A, req[r])
  /\ \A r, s \in Requests :
       req[r].pc = "insert" /\ req[s].pc = "insert" /\ r # s => req[r].comment # req[s].comment

Authors == [Comments -> UserOrNone]

\* A step remembers the comments there have been, with their tasks and, from A
\* to B, their authors.
Remembered(A, B) ==
  \A c \in Comments : comment[c].task # None =>
    B[c] = A[c] /\ comment'[c].task = comment[c].task

LEMMA RepliedInput == \A c \in Comments, u \in Users : Replied(u, c) \in Input
  BY DEF Replied, Input

LEMMA AnsweredStays ==
  ASSUME TypeOK, Next, NEW A, NEW B, Remembered(A, B),
         NEW c \in Comments, NEW p \in Comments \cup {None},
         comment[c].task # None, Answered(A, c, p)
  PROVE  Answered(B, c, p)'
<1> SUFFICES ASSUME p # None
             PROVE  /\ B[p] \in Users
                    /\ comment'[p].task = comment'[c].task
                    /\ B[p] # B[c] => (Asked(Replied(B[p], c)) > 0)'
  BY DEF Answered
<1>1. /\ A[p] \in Users /\ comment[p].task = comment[c].task
      /\ A[p] # A[c] => Asked(Replied(A[p], c)) > 0
  BY DEF Answered
<1>2. /\ B[p] = A[p] /\ B[c] = A[c]
      /\ comment'[p].task = comment[p].task /\ comment'[c].task = comment[c].task
  BY <1>1 DEF Remembered
<1>3. A[p] # A[c] => (Asked(Replied(A[p], c)) > 0)'
  <2> SUFFICES ASSUME A[p] # A[c] PROVE (Asked(Replied(A[p], c)) > 0)'
    OBVIOUS
  <2>1. PICK i \in Input : i = Replied(A[p], c)
    BY <1>1, RepliedInput
  <2>2. Asked(i) > 0 /\ Asked(i) \in Nat /\ Asked(i)' \in Nat /\ Asked(i) <= Asked(i)'
    BY <1>1, <2>1, AskedStays
  <2>3. Asked(i)' > 0
    BY <2>2
  <2> QED
    BY <2>1, <2>3
<1> QED
  BY <1>1, <1>2, <1>3

LEMMA RowStays ==
  ASSUME TypeOK, Next, NEW A, ReplyInv(A), NEW B, Remembered(A, B),
         NEW c \in Comments, Exists(c), comment'[c] = comment[c]
  PROVE  RowAgrees(B, c)'
<1>1. RowAgrees(A, c)
  BY DEF ReplyInv
<1>2. PICK p \in Comments \cup {None} : p = comment[c].parent
  BY DEF TypeOK, CommentRow
<1>3. Answered(A, c, p) /\ comment[c].task # None
  BY <1>1, <1>2 DEF RowAgrees
<1>4. Answered(B, c, p)'
  BY <1>3, AnsweredStays
<1>5. comment'[c].author = B[c] /\ comment'[c].task # None /\ comment'[c].parent = p
  BY <1>1, <1>2 DEF RowAgrees, Remembered
<1> QED
  BY <1>4, <1>5 DEF RowAgrees

LEMMA RequestStays ==
  ASSUME TypeOK, Next, NEW A, NEW B, Remembered(A, B),
         NEW q \in RequestState, RequestAgrees(A, q),
         q.pc = "insert" => comment'[q.comment].task = None
  PROVE  RequestAgrees(B, q)'
<1>1. ASSUME q.pc = "insert", q.parent # None
      PROVE  /\ q.parentAuthor = B[q.parent] /\ B[q.parent] \in Users
             /\ comment'[q.parent].task = q.task
  <2>1. q.parent \in Comments /\ q.task \in Tasks
    BY <1>1, RequestFields
  <2>2. q.parentAuthor = A[q.parent] /\ A[q.parent] \in Users /\ comment[q.parent].task = q.task
    BY <1>1 DEF RequestAgrees
  <2> QED
    BY <2>1, <2>2, ConstantsAssumption DEF Remembered, ConstantsAssumption
<1>2. ASSUME q.pc \in {"editSelect", "editWrite"}
      PROVE  /\ q.row.author = B[q.comment] /\ q.row.author # None
             /\ q.row.task = comment'[q.comment].task /\ q.row.task # None
             /\ Answered(B, q.comment, q.row.parent)'
  <2>1. q.comment \in Comments /\ q.row \in CommentRow
    BY <1>2, RequestFields
  <2>2. /\ q.row.author = A[q.comment] /\ q.row.author # None
        /\ q.row.task = comment[q.comment].task /\ q.row.task # None
        /\ Answered(A, q.comment, q.row.parent)
    BY <1>2 DEF RequestAgrees
  <2>3. q.row.parent \in Comments \cup {None}
    BY <2>1 DEF CommentRow
  <2>4. Answered(B, q.comment, q.row.parent)'
    BY <2>1, <2>2, <2>3, AnsweredStays
  <2> QED
    BY <2>1, <2>2, <2>4 DEF Remembered
<1> QED
  BY <1>1, <1>2 DEF RequestAgrees

\* A comment whose parent is removed is removed with it.
LEMMA ThreadClosed ==
  ASSUME NEW c \in Comments, NEW d \in Thread(c), NEW e \in Comments, comment[e].parent = d
  PROVE  e \in Thread(c)
  BY DEF Thread

\* The steps that insert or remove no row.
LEMMA QuietReplies ==
  ASSUME TypeOK, Next, NEW A, ReplyInv(A), UNCHANGED comment,
         \A r \in Requests : \/ req'[r] = req[r]
                             \/ req'[r].pc \notin {"insert", "editSelect", "editWrite"}
  PROVE  ReplyInv(A)'
<1>1. Remembered(A, A)
  BY DEF Remembered
<1>2. \A c \in Comments : Exists(c)' => RowAgrees(A, c)'
  BY <1>1, RowStays DEF Exists
<1>3. \A c \in Comments : Exists(c)' => ParentExists(comment[c].parent)'
  BY DEF ReplyInv, ParentExists, Exists
<1>4. ASSUME NEW r \in Requests
      PROVE  RequestAgrees(A, req[r])'
  <2>1. CASE req'[r] = req[r]
    <3>1. PICK q \in RequestState : q = req[r]
      BY DEF TypeOK
    <3>2. RequestAgrees(A, q) /\ (q.pc = "insert" => comment'[q.comment].task = None)
      BY <3>1 DEF ReplyInv, RequestAgrees
    <3>3. RequestAgrees(A, q)' /\ req'[r] = q
      BY <1>1, <2>1, <3>1, <3>2, RequestStays
    <3> QED
      BY <3>3 DEF RequestAgrees
  <2>2. CASE req'[r].pc \notin {"insert", "editSelect", "editWrite"}
    BY <2>2 DEF RequestAgrees
  <2> QED
    BY <2>1, <2>2
<1>5. \A r, s \in Requests :
        req'[r].pc = "insert" /\ req'[s].pc = "insert" /\ r # s => req'[r].comment # req'[s].comment
  BY DEF ReplyInv
<1> QED
  BY <1>2, <1>3, <1>4, <1>5 DEF ReplyInv

LEMMA OtherRequestStays ==
  ASSUME TypeOK, Next, NEW A, ReplyInv(A), NEW B, Remembered(A, B),
         NEW r \in Requests, req'[r] = req[r],
         req[r].pc = "insert" => comment'[req[r].comment].task = None
  PROVE  RequestAgrees(B, req[r])'
<1>1. PICK q \in RequestState : q = req[r]
  BY DEF TypeOK
<1>2. RequestAgrees(A, q) /\ (q.pc = "insert" => comment'[q.comment].task = None)
  BY <1>1 DEF ReplyInv
<1>3. RequestAgrees(B, q)' /\ req'[r] = q
  BY <1>1, <1>2, RequestStays
<1> QED
  BY <1>3 DEF RequestAgrees

\* A step of a request that only changes where that request is.
LEMMA OneRequestReplies ==
  ASSUME TypeOK, Next, NEW A, ReplyInv(A), UNCHANGED comment,
         NEW r \in Requests, NEW q \in RequestState, req' = [req EXCEPT ![r] = q],
         RequestAgrees(A, q),
         q.pc = "insert" =>
           \A s \in Requests : req[s].pc = "insert" => req[s].comment # q.comment
  PROVE  ReplyInv(A)'
<1>1. Remembered(A, A)
  BY DEF Remembered
<1>2. /\ req'[r] = q
      /\ \A s \in Requests : s # r => req'[s] = req[s]
  BY DEF TypeOK
<1>3. \A c \in Comments : Exists(c)' => RowAgrees(A, c)'
  BY <1>1, RowStays DEF Exists
<1>4. \A c \in Comments : Exists(c)' => ParentExists(comment[c].parent)'
  BY DEF ReplyInv, ParentExists, Exists
<1>5. ASSUME NEW s \in Requests
      PROVE  RequestAgrees(A, req[s])'
  <2>1. CASE s = r
    <3>1. q.pc = "insert" => comment'[q.comment].task = None
      BY DEF RequestAgrees
    <3>2. RequestAgrees(A, q)'
      BY <1>1, <3>1, RequestStays
    <3> QED
      BY <1>2, <2>1, <3>2 DEF RequestAgrees
  <2>2. CASE s # r
    <3>1. req[s].pc = "insert" => comment'[req[s].comment].task = None
      BY DEF ReplyInv, RequestAgrees
    <3> QED
      BY <1>1, <1>2, <2>2, <3>1, OtherRequestStays
  <2> QED
    BY <2>1, <2>2
<1>6. \A s, x \in Requests :
        req'[s].pc = "insert" /\ req'[x].pc = "insert" /\ s # x => req'[s].comment # req'[x].comment
  BY <1>2 DEF ReplyInv
<1> QED
  BY <1>3, <1>4, <1>5, <1>6 DEF ReplyInv

LEMMA BeginCommentReplies ==
  ASSUME TypeOK, Next, NEW A, ReplyInv(A), NEW r \in Requests, NEW c \in Comments,
         NEW t \in Tasks, NEW author \in Users, NEW p \in Comments \cup {None},
         BeginComment(r, c, t, author, p)
  PROVE  ReplyInv(A)'
<1> DEFINE n == [pc |-> "insert", comment |-> c, author |-> author, parent |-> p, task |-> t,
                 parentAuthor |-> IF p = None THEN None ELSE comment[p].author,
                 assignee |-> task[t].assignee]
<1>1. /\ comment[c].task = None /\ UNCHANGED comment
      /\ \A q \in Requests : req[q].pc = "insert" => req[q].comment # c
      /\ p # None => Exists(p) /\ comment[p].task = t
      /\ req' = [req EXCEPT ![r] = n]
  BY DEF BeginComment
<1>2. PICK q \in RequestState : q = n
  <2>1. n = req'[r] /\ req' \in [Requests -> RequestState]
    BY <1>1, TypeStep DEF TypeOK
  <2> QED
    BY <2>1
<1>3. /\ q.pc = "insert" /\ q.comment = c /\ q.parent = p /\ q.task = t
      /\ q.parentAuthor = IF p = None THEN None ELSE comment[p].author
  BY <1>2
<1>4. p # None => comment[p].author = A[p] /\ A[p] \in Users
  BY <1>1 DEF ReplyInv, RowAgrees, Exists, TypeOK, CommentRow, UserOrNone
<1>5. RequestAgrees(A, q)
  BY <1>1, <1>3, <1>4 DEF RequestAgrees
<1> HIDE DEF n
<1>6. req' = [req EXCEPT ![r] = q]
  BY <1>1, <1>2
<1> QED
  BY <1>1, <1>3, <1>5, <1>6, OneRequestReplies

LEMMA EditReplies ==
  ASSUME TypeOK, Next, NEW A, ReplyInv(A), NEW r \in Requests,
         \/ \E c \in Comments, actor \in Users : BeginEdit(r, c, actor)
         \/ EditSelect(r)
  PROVE  ReplyInv(A)'
<1>0. req' \in [Requests -> RequestState]
  BY TypeStep DEF TypeOK
<1>1. ASSUME NEW c \in Comments, NEW actor \in Users, BeginEdit(r, c, actor)
      PROVE  ReplyInv(A)'
  <2> DEFINE n == [pc |-> "editSelect", comment |-> c, row |-> comment[c]]
  <2>1. Exists(c) /\ UNCHANGED comment /\ req' = [req EXCEPT ![r] = n]
    BY <1>1 DEF BeginEdit
  <2>2. PICK q \in RequestState : q = n
    BY <1>0, <2>1 DEF TypeOK
  <2>3. RowAgrees(A, c)
    BY <2>1 DEF ReplyInv
  <2>4. RequestAgrees(A, q)
    BY <2>1, <2>2, <2>3 DEF RequestAgrees, RowAgrees, Exists
  <2>5. req' = [req EXCEPT ![r] = q] /\ q.pc # "insert"
    BY <2>1, <2>2
  <2> QED
    BY <2>1, <2>4, <2>5, OneRequestReplies
<1>2. CASE EditSelect(r)
  <2> DEFINE o == req[r]
             n == [pc |-> "editWrite", comment |-> o.comment, row |-> o.row,
                   found |-> Exists(o.comment)]
  <2>1. o.pc = "editSelect" /\ UNCHANGED comment /\ req' = [req EXCEPT ![r] = n]
    BY <1>2 DEF EditSelect
  <2>2. PICK q \in RequestState : q = n
    BY <1>0, <2>1 DEF TypeOK
  <2>3. q.pc = "editWrite" /\ q.comment = o.comment /\ q.row = o.row
    BY <2>2
  <2>4. RequestAgrees(A, q)
    BY <2>1, <2>3 DEF ReplyInv, RequestAgrees
  <2>5. req' = [req EXCEPT ![r] = q] /\ q.pc # "insert"
    BY <2>1, <2>2
  <2> QED
    BY <2>1, <2>4, <2>5, OneRequestReplies
<1> QED
  BY <1>1, <1>2

\* The INSERT of create: its comment is new, and the author of the parent, who
\* was read before, is still the parent's author.
LEMMA InsertReplies ==
  ASSUME TypeOK, Next, NEW A \in Authors, ReplyInv(A), NEW r \in Requests,
         InsertComment(r)
  PROVE  \E B \in Authors : ReplyInv(B)'
<1>1. req[r].pc = "insert"
  BY DEF InsertComment
<1>2. PICK o \in RequestState : o = req[r]
  BY DEF TypeOK
<1>3. /\ o.pc = "insert" /\ o.comment \in Comments /\ o.author \in Users
      /\ o.parent \in Comments \cup {None} /\ o.task \in Tasks
      /\ o.parentAuthor \in UserOrNone /\ o.assignee \in UserOrNone
  BY <1>1, <1>2, RequestFields
<1>4. /\ comment[o.comment].task = None
      /\ o.parent # None => /\ o.parentAuthor = A[o.parent] /\ A[o.parent] \in Users
                            /\ comment[o.parent].task = o.task
  BY <1>2, <1>3 DEF ReplyInv, RequestAgrees
<1> DEFINE c == o.comment
           row == [author |-> o.author, task |-> o.task, parent |-> o.parent]
           is == MapCommentCreated(o.task, o.assignee, o.author)
                   \cup MapCommentReplied(c, o.parentAuthor, o.author)
<1>5. CASE ~ParentExists(o.parent)
  <2>1. UNCHANGED comment /\ req' = [req EXCEPT ![r] = Idle]
    BY <1>2, <1>5 DEF InsertComment, Return
  <2>2. \A s \in Requests : req'[s] = req[s] \/ req'[s].pc \notin {"insert", "editSelect", "editWrite"}
    BY <2>1, IdleRequest DEF TypeOK
  <2> QED
    BY <2>1, <2>2, QuietReplies
<1>6. CASE ParentExists(o.parent)
  <2>1. /\ comment' = [comment EXCEPT ![c] = row]
        /\ req' = [req EXCEPT ![r] = [pc |-> "emit", events |-> is]]
    BY <1>2, <1>6 DEF InsertComment
  <2>2. /\ comment'[c] = row
        /\ \A d \in Comments : d # c => comment'[d] = comment[d]
    BY <1>3, <2>1 DEF TypeOK
  <2>3. /\ req'[r] = [pc |-> "emit", events |-> is]
        /\ \A s \in Requests : s # r => req'[s] = req[s]
    BY <2>1 DEF TypeOK
  <2>4. PICK B \in Authors : B = [A EXCEPT ![c] = o.author]
    BY <1>3 DEF Authors, UserOrNone
  <2>5. B[c] = o.author /\ \A d \in Comments : d # c => B[d] = A[d]
    BY <1>3, <2>4 DEF Authors
  <2>6. Remembered(A, B)
    BY <1>4, <2>2, <2>5 DEF Remembered
  <2>7. o.parent # None => o.parent \in Comments /\ o.parent # c /\ comment[o.parent].author # None
    BY <1>3, <1>4, <1>6, ConstantsAssumption DEF ParentExists, Exists, ConstantsAssumption
  <2>8. ASSUME o.parent # None, B[o.parent] # o.author
        PROVE  (Asked(Replied(B[o.parent], o.comment)) > 0)'
    <3>1. B[o.parent] = o.parentAuthor /\ B[o.parent] \in Users
      BY <1>4, <2>5, <2>7, <2>8
    <3>2. Replied(B[o.parent], c) \in is
      BY <2>8, <3>1, ConstantsAssumption
      DEF ConstantsAssumption, MapCommentReplied, Notice, Replied
    <3>3. PICK i \in Input : i = Replied(B[o.parent], c)
      BY <1>3, <3>1, RepliedInput
    <3>4. Asks(r, i) /\ Step(r)
      BY <1>2, <1>3, <2>3, <3>2, <3>3 DEF Asks, Step
    <3>5. Asked(i)' = Asked(i) + 1 /\ Asked(i) \in Nat
      BY <3>4, AskedByRequest, AskedType
    <3>6. Asked(i)' > 0
      BY <3>5
    <3> QED
      BY <3>3, <3>6
  <2>9. RowAgrees(B, o.comment)'
    <3>1. Answered(B, o.comment, o.parent)'
      <4> SUFFICES ASSUME o.parent # None
                   PROVE  /\ B[o.parent] \in Users
                          /\ comment'[o.parent].task = comment'[o.comment].task
                          /\ B[o.parent] # B[o.comment] => (Asked(Replied(B[o.parent], o.comment)) > 0)'
        BY DEF Answered
      <4> QED
        BY <1>4, <2>2, <2>5, <2>7, <2>8
    <3> QED
      BY <1>3, <2>2, <2>5, <3>1, ConstantsAssumption DEF RowAgrees, ConstantsAssumption
  <2>10. ASSUME NEW d \in Comments, Exists(d)'
         PROVE  RowAgrees(B, d)' /\ ParentExists(comment[d].parent)'
    <3>1. CASE d = c
      <4>1. ParentExists(comment[d].parent)'
        BY <2>2, <2>7, <3>1 DEF ParentExists, Exists
      <4> QED
        BY <2>9, <3>1, <4>1
    <3>2. CASE d # c
      <4>1. comment'[d] = comment[d] /\ Exists(d)
        BY <2>2, <2>10, <3>2 DEF Exists
      <4>2. RowAgrees(B, d)'
        BY <2>6, <4>1, RowStays
      <4>3. ParentExists(comment[d].parent) /\ comment[d].parent \in Comments \cup {None}
        BY <4>1 DEF ReplyInv, TypeOK, CommentRow
      <4>4. o.author # None
        BY <1>3, ConstantsAssumption DEF ConstantsAssumption
      <4>5. ParentExists(comment[d].parent)'
        BY <2>2, <4>1, <4>3, <4>4 DEF ParentExists, Exists
      <4> QED
        BY <4>2, <4>5
    <3> QED
      BY <3>1, <3>2
  <2>11. ASSUME NEW s \in Requests
         PROVE  RequestAgrees(B, req[s])'
    <3>1. CASE s = r
      BY <2>3, <3>1 DEF RequestAgrees
    <3>2. CASE s # r
      <4>1. req[s].pc = "insert" => req[s].comment # c /\ req[s].comment \in Comments
        BY <1>1, <1>2, <3>2, RequestFields DEF ReplyInv, TypeOK
      <4>2. req[s].pc = "insert" => comment'[req[s].comment].task = None
        BY <2>2, <4>1 DEF ReplyInv, RequestAgrees
      <4> QED
        BY <2>3, <2>6, <3>2, <4>2, OtherRequestStays
    <3> QED
      BY <3>1, <3>2
  <2>12. \A s, x \in Requests :
           req'[s].pc = "insert" /\ req'[x].pc = "insert" /\ s # x => req'[s].comment # req'[x].comment
    BY <2>3 DEF ReplyInv
  <2> QED
    BY <2>10, <2>11, <2>12 DEF ReplyInv
<1> QED
  BY <1>5, <1>6

\* The steps that write rows back or remove some: every comment keeps its task,
\* and what remains keeps its author and its parent.
LEMMA RowsReplies ==
  ASSUME TypeOK, Next, NEW A, ReplyInv(A), NEW r \in Requests,
         req' = [req EXCEPT ![r] = Idle],
         \A c \in Comments : comment'[c].task = comment[c].task,
         \A c \in Comments : Exists(c)' => RowAgrees(A, c)' /\ ParentExists(comment[c].parent)'
  PROVE  ReplyInv(A)'
<1>1. Remembered(A, A)
  BY DEF Remembered
<1>2. /\ req'[r] = Idle
      /\ \A s \in Requests : s # r => req'[s] = req[s]
  BY DEF TypeOK
<1>3. ASSUME NEW s \in Requests
      PROVE  RequestAgrees(A, req[s])'
  <2>1. CASE s = r
    BY <1>2, <2>1, IdleRequest DEF RequestAgrees
  <2>2. CASE s # r
    <3>1. req[s].pc = "insert" => req[s].comment \in Comments /\ comment[req[s].comment].task = None
      BY RequestFields DEF ReplyInv, RequestAgrees, TypeOK
    <3>2. req[s].pc = "insert" => comment'[req[s].comment].task = None
      BY <3>1
    <3> QED
      BY <1>1, <1>2, <2>2, <3>2, OtherRequestStays
  <2> QED
    BY <2>1, <2>2
<1>4. \A s, x \in Requests :
        req'[s].pc = "insert" /\ req'[x].pc = "insert" /\ s # x => req'[s].comment # req'[x].comment
  BY <1>2, IdleRequest DEF ReplyInv
<1> QED
  BY <1>3, <1>4 DEF ReplyInv

\* save(comment) of an edit: where the row was removed meanwhile it comes back
\* as it was, and only under a parent that is there.
LEMMA EditWriteReplies ==
  ASSUME TypeOK, Next, NEW A, ReplyInv(A), NEW r \in Requests, EditWrite(r)
  PROVE  ReplyInv(A)'
<1>1. req[r].pc = "editWrite" /\ req' = [req EXCEPT ![r] = Idle]
  BY DEF EditWrite, Return
<1>2. PICK o \in RequestState : o = req[r]
  BY DEF TypeOK
<1>3. o.pc = "editWrite" /\ o.comment \in Comments /\ o.row \in CommentRow
  BY <1>1, <1>2, RequestFields
<1>4. /\ o.row.author = A[o.comment] /\ o.row.author # None
      /\ o.row.task = comment[o.comment].task /\ o.row.task # None
      /\ Answered(A, o.comment, o.row.parent)
  BY <1>2, <1>3 DEF ReplyInv, RequestAgrees
<1>5. \A s \in Requests : req'[s] = req[s] \/ req'[s].pc \notin {"insert", "editSelect", "editWrite"}
  BY <1>1, IdleRequest DEF TypeOK
<1>6. CASE UNCHANGED comment
  BY <1>5, <1>6, QuietReplies
<1>7. CASE ~Exists(o.comment) /\ ParentExists(o.row.parent)
           /\ comment' = [comment EXCEPT ![o.comment] = o.row]
  <2>1. /\ comment'[o.comment] = o.row
        /\ \A d \in Comments : d # o.comment => comment'[d] = comment[d]
    BY <1>3, <1>7 DEF TypeOK
  <2>2. \A d \in Comments : comment'[d].task = comment[d].task
    BY <1>4, <2>1
  <2>3. Remembered(A, A)
    BY <2>2 DEF Remembered
  <2>4. \A d \in Comments : Exists(d) => Exists(d)'
    BY <1>4, <2>1 DEF Exists
  <2>5. ASSUME NEW d \in Comments, Exists(d)'
        PROVE  RowAgrees(A, d)' /\ ParentExists(comment[d].parent)'
    <3>1. CASE d = o.comment
      <4>1. o.row.parent \in Comments \cup {None}
        BY <1>3 DEF CommentRow
      <4>2. Answered(A, o.comment, o.row.parent)'
        BY <1>3, <1>4, <2>3, <4>1, AnsweredStays
      <4>3. RowAgrees(A, d)'
        BY <1>4, <2>1, <3>1, <4>2 DEF RowAgrees
      <4>4. ParentExists(comment[d].parent)'
        BY <1>7, <2>1, <2>4, <3>1, <4>1 DEF ParentExists
      <4> QED
        BY <4>3, <4>4
    <3>2. CASE d # o.comment
      <4>1. comment'[d] = comment[d] /\ Exists(d)
        BY <2>1, <2>5, <3>2 DEF Exists
      <4>2. RowAgrees(A, d)'
        BY <2>3, <4>1, RowStays
      <4>3. ParentExists(comment[d].parent) /\ comment[d].parent \in Comments \cup {None}
        BY <4>1 DEF ReplyInv, TypeOK, CommentRow
      <4>4. ParentExists(comment[d].parent)'
        BY <2>4, <4>1, <4>3 DEF ParentExists
      <4> QED
        BY <4>2, <4>4
    <3> QED
      BY <3>1, <3>2
  <2> QED
    BY <1>1, <2>2, <2>5, RowsReplies
<1> QED
  BY <1>2, <1>6, <1>7 DEF EditWrite

\* remove(comment): the rows of its thread go, so no row loses its parent.
LEMMA RemoveReplies ==
  ASSUME TypeOK, Next, NEW A, ReplyInv(A), NEW r \in Requests, RemoveComment(r)
  PROVE  ReplyInv(A)'
<1>1. /\ req[r].pc = "remove" /\ req' = [req EXCEPT ![r] = Idle]
      /\ comment' = [d \in Comments |->
                       IF d \in Thread(req[r].comment)
                         THEN [comment[d] EXCEPT !.author = None, !.parent = None]
                         ELSE comment[d]]
  BY DEF RemoveComment, Return
<1>2. req[r].comment \in Comments
  BY <1>1, RequestFields DEF TypeOK
<1> DEFINE T == Thread(req[r].comment)
<1>3. ASSUME NEW d \in Comments
      PROVE  /\ d \notin T => comment'[d] = comment[d]
             /\ comment'[d].task = comment[d].task
             /\ Exists(d)' => d \notin T
  BY <1>1, <1>3 DEF Exists, TypeOK, CommentRow
<1>4. \A d \in Comments, e \in Comments : comment[e].parent = d /\ d \in T => e \in T
  BY <1>2, ThreadClosed
<1> HIDE DEF T
<1>5. Remembered(A, A)
  BY <1>3 DEF Remembered
<1>6. ASSUME NEW d \in Comments, Exists(d)'
      PROVE  RowAgrees(A, d)' /\ ParentExists(comment[d].parent)'
  <2>1. comment'[d] = comment[d] /\ Exists(d) /\ d \notin T
    BY <1>3, <1>6 DEF Exists
  <2>2. RowAgrees(A, d)'
    BY <1>5, <2>1, RowStays
  <2>3. ParentExists(comment[d].parent) /\ comment[d].parent \in Comments \cup {None}
    BY <2>1 DEF ReplyInv, TypeOK, CommentRow
  <2>4. comment[d].parent \in Comments => comment[d].parent \notin T
    BY <1>4, <2>1
  <2>5. ParentExists(comment[d].parent)'
    BY <1>3, <2>1, <2>3, <2>4 DEF ParentExists, Exists
  <2> QED
    BY <2>2, <2>5
<1> QED
  BY <1>1, <1>3, <1>6, RowsReplies

LEMMA ReplyInvStep ==
  TypeOK /\ (\E A \in Authors : ReplyInv(A)) /\ [Next]_vars
    => (\E A \in Authors : ReplyInv(A))'
<1> SUFFICES ASSUME TypeOK, NEW A \in Authors, ReplyInv(A), [Next]_vars
             PROVE  (\E B \in Authors : ReplyInv(B))'
  OBVIOUS
<1> SUFFICES \E B \in Authors : ReplyInv(B)'
  BY DEF Authors
<1>1. CASE UNCHANGED vars
  <2>1. ReplyInv(A)'
    BY <1>1
    DEF vars, ReplyInv, RowAgrees, Answered, Exists, ParentExists, RequestAgrees,
        history, Asked, Announcing
  <2> QED
    BY <2>1
<1>2. ASSUME Next, NEW r \in Requests, InsertComment(r)
      PROVE  \E B \in Authors : ReplyInv(B)'
  BY <1>2, InsertReplies
<1>3. ASSUME Next, NEW r \in Requests,
             \/ EditWrite(r) \/ RemoveComment(r) \/ EditSelect(r)
             \/ \E c \in Comments, author \in Users :
                  \/ BeginEdit(r, c, author)
                  \/ \E t \in Tasks, p \in Comments \cup {None} : BeginComment(r, c, t, author, p)
      PROVE  ReplyInv(A)'
  BY <1>3, EditWriteReplies, RemoveReplies, EditReplies, BeginCommentReplies
<1>4. ASSUME Next,
             ~\E r \in Requests :
                \/ InsertComment(r)
                \/ EditWrite(r) \/ RemoveComment(r) \/ EditSelect(r)
                \/ \E c \in Comments, author \in Users :
                     \/ BeginEdit(r, c, author)
                     \/ \E t \in Tasks, p \in Comments \cup {None} : BeginComment(r, c, t, author, p)
      PROVE  ReplyInv(A)'
  <2>1. ASSUME NEW r \in Requests, Begin(r) \/ Step(r)
        PROVE  UNCHANGED comment /\ req'[r].pc \notin {"insert", "editSelect", "editWrite"}
    <3>1. ASSUME NEW t \in Tasks, NEW actor \in Users, NEW u \in UserOrNone,
                 NEW st \in {"open", "DONE"},
                 CreateTask(r, t, actor, u) \/ BeginUpdate(r, t, actor, u, st)
          PROVE  UNCHANGED comment /\ req'[r].pc \in {"emit", "select"}
      BY <3>1 DEF CreateTask, BeginUpdate, TypeOK
    <3>2. ASSUME NEW c \in Comments, BeginRemove(r, c)
          PROVE  UNCHANGED comment /\ req'[r].pc = "remove"
      BY <3>2 DEF BeginRemove, TypeOK
    <3>3. CASE SaveSelect(r) \/ SaveWrite(r)
      BY <3>3 DEF SaveSelect, SaveWrite, TypeOK
    <3>4. CASE EmitEvents(r)
      BY <3>4, IdleRequest DEF EmitEvents, Emit, TypeOK
    <3>5. "open" \in {"open", "DONE"}
      OBVIOUS
    <3> QED
      BY <1>4, <2>1, <3>1, <3>2, <3>3, <3>4, <3>5 DEF Begin, Step
  <2>2. UNCHANGED comment
    BY <1>4, <2>1
    DEF Next, Listen, Deliver, Enqueue, Reject, Work, TakeJob, Process, CompleteJob, JobFails,
        Crash, ApiCrash, UnchangedRequests, UnchangedProducers
  <2>3. ASSUME NEW s \in Requests
        PROVE  req'[s] = req[s] \/ req'[s].pc \notin {"insert", "editSelect", "editWrite"}
    <3>1. CASE UNCHANGED req
      BY <3>1
    <3>2. CASE ApiCrash
      BY <3>2, IdleRequest DEF ApiCrash
    <3>3. ASSUME NEW r \in Requests, Begin(r) \/ Step(r)
          PROVE  req'[s] = req[s] \/ req'[s].pc \notin {"insert", "editSelect", "editWrite"}
      <4>1. CASE s = r
        BY <2>1, <3>3, <4>1
      <4>2. CASE s # r
        BY <3>3, <4>2, RequestStep DEF TypeOK
      <4> QED
        BY <4>1, <4>2
    <3> QED
      BY <1>4, <3>1, <3>2, <3>3
      DEF Next, Listen, Deliver, Enqueue, Reject, Work, TakeJob, Process, CompleteJob, JobFails,
          Crash, UnchangedRequests, UnchangedProducers
  <2> QED
    BY <1>4, <2>2, <2>3, QuietReplies
<1> QED
  BY <1>1, <1>2, <1>3, <1>4

\* Nobody is asked to be told of a reply that is not inserted.
NoReplyInv ==
  /\ \A c \in Comments, u \in Users : comment[c].task = None => Asked(Replied(u, c)) = 0
  /\ \A r \in Requests : req[r].pc \in {"select", "write"} =>
       \A c \in Comments, u \in Users : Replied(u, c) \notin req[r].events

\* The events of a task tell nobody of a reply.
LEMMA TaskEventsNoReply ==
  ASSUME NEW t, NEW prev, NEW entity, NEW actor, NEW u, NEW c
  PROVE  /\ Replied(u, c) \notin UpdateEvents(t, prev, entity, actor)
         /\ \A a : Replied(u, c) \notin MapTaskAssigned(t, a, actor)
<1>1. \A to, type, e : Replied(u, c) \in Notice(to, actor, type, e) => type = "COMMENT_REPLY"
  BY DEF Notice, Replied
<1> QED
  BY <1>1 DEF UpdateEvents, MapTaskAssigned, MapTaskCompleted

\* The row of a comment keeps its task, and so does the comment when it goes.
LEMMA TaskIsKept ==
  ASSUME TypeOK, NEW A, ReplyInv(A), Next, NEW c \in Comments
  PROVE  \/ comment'[c].task = comment[c].task
         \/ comment'[c].task # None /\ \E r \in Requests : InsertComment(r)
<1>1. CASE UNCHANGED comment
  BY <1>1
<1>2. ASSUME NEW r \in Requests, InsertComment(r), ~UNCHANGED comment
      PROVE  comment'[c].task = comment[c].task \/ comment'[c].task # None
  <2>1. req[r].pc = "insert" /\ comment' = [comment EXCEPT ![req[r].comment] =
          [author |-> req[r].author, task |-> req[r].task, parent |-> req[r].parent]]
    BY <1>2 DEF InsertComment
  <2>2. req[r].task # None
    BY <2>1, RequestFields, ConstantsAssumption DEF TypeOK, ConstantsAssumption
  <2> QED
    BY <2>1, <2>2 DEF TypeOK
<1>3. ASSUME NEW r \in Requests, EditWrite(r)
      PROVE  comment'[c].task = comment[c].task
  <2>1. req[r].pc = "editWrite" /\ req[r].row.task = comment[req[r].comment].task
    BY <1>3 DEF EditWrite, ReplyInv, RequestAgrees
  <2>2. comment' \in {comment, [comment EXCEPT ![req[r].comment] = req[r].row]}
    BY <1>3 DEF EditWrite
  <2> QED
    BY <2>1, <2>2 DEF TypeOK
<1>4. ASSUME NEW r \in Requests, RemoveComment(r)
      PROVE  comment'[c].task = comment[c].task
  BY <1>4 DEF RemoveComment, TypeOK, CommentRow
<1>5. ASSUME ~\E r \in Requests : InsertComment(r) \/ EditWrite(r) \/ RemoveComment(r)
      PROVE  UNCHANGED comment
  <2>1. ASSUME NEW r \in Requests, Begin(r) \/ Step(r)
        PROVE  UNCHANGED comment
    BY <1>5, <2>1, BeginsQuietly DEF Step, SaveSelect, SaveWrite, EditSelect, EmitEvents
  <2> QED
    BY <1>5, <2>1
    DEF Next, Listen, Deliver, Enqueue, Reject, Work, TakeJob, Process, CompleteJob, JobFails,
        Crash, ApiCrash, UnchangedRequests, UnchangedProducers
<1> QED
  BY <1>1, <1>2, <1>3, <1>4, <1>5

\* A request that goes on to tell of a reply has inserted it.
LEMMA ReplyIsInserted ==
  ASSUME TypeOK, NoReplyInv, NEW r \in Requests, Begin(r) \/ Step(r),
         NEW c \in Comments, NEW u \in Users, Asks(r, Replied(u, c))
  PROVE  comment'[c].task # None
<1>1. ASSUME NEW t \in Tasks, NEW actor \in Users, NEW a \in UserOrNone, CreateTask(r, t, actor, a)
      PROVE  FALSE
  <2>1. req'[r] = [pc |-> "emit", events |-> MapTaskAssigned(t, a, actor)]
    BY <1>1 DEF CreateTask, TypeOK
  <2> QED
    BY <2>1, TaskEventsNoReply DEF Asks
<1>2. CASE SaveWrite(r)
  <2>1. req[r].pc = "write" /\ req'[r] = [pc |-> "emit", events |-> req[r].events]
    BY <1>2 DEF SaveWrite, TypeOK
  <2> QED
    BY <2>1 DEF Asks, NoReplyInv
<1>3. CASE InsertComment(r)
  <2> DEFINE q == req[r]
  <2>1. q.pc = "insert" /\ q.comment \in Comments /\ q.task # None
    BY <1>3, RequestFields, ConstantsAssumption DEF InsertComment, TypeOK, ConstantsAssumption
  <2>2. /\ comment' = [comment EXCEPT ![q.comment] =
             [author |-> q.author, task |-> q.task, parent |-> q.parent]]
        /\ req' = [req EXCEPT ![r] =
             [pc |-> "emit",
              events |-> MapCommentCreated(q.task, q.assignee, q.author)
                           \cup MapCommentReplied(q.comment, q.parentAuthor, q.author)]]
    <3>1. req' # [req EXCEPT ![r] = Idle]
      BY IdleRequest DEF Asks, TypeOK
    <3> QED
      BY <1>3, <3>1 DEF InsertComment, Return
  <2>3. Replied(u, c) \in MapCommentCreated(q.task, q.assignee, q.author)
                            \cup MapCommentReplied(q.comment, q.parentAuthor, q.author)
    BY <2>2 DEF Asks, TypeOK
  <2>4. c = q.comment
    BY <2>3 DEF MapCommentCreated, MapCommentReplied, Notice, Replied
  <2> QED
    BY <2>1, <2>2, <2>4 DEF TypeOK
<1>4. ASSUME ~SaveWrite(r), ~InsertComment(r),
             ~\E t \in Tasks, actor \in Users, a \in UserOrNone : CreateTask(r, t, actor, a)
      PROVE  FALSE
  <2>1. CASE Begin(r)
    <3>1. ASSUME NEW t \in Tasks, NEW actor \in Users, NEW a \in UserOrNone,
                 NEW st \in {"open", "DONE"}, BeginUpdate(r, t, actor, a, st)
          PROVE  req'[r].pc = "select"
      BY <3>1 DEF BeginUpdate, TypeOK
    <3>2. ASSUME NEW t \in Tasks, NEW actor \in Users, NEW d \in Comments,
                 NEW p \in Comments \cup {None}, BeginComment(r, d, t, actor, p)
          PROVE  req'[r].pc = "insert"
      BY <3>2 DEF BeginComment, TypeOK
    <3>3. ASSUME NEW d \in Comments, BeginRemove(r, d)
          PROVE  req'[r].pc = "remove"
      BY <3>3 DEF BeginRemove, TypeOK
    <3>4. ASSUME NEW d \in Comments, NEW actor \in Users, BeginEdit(r, d, actor)
          PROVE  req'[r].pc = "editSelect"
      BY <3>4 DEF BeginEdit, TypeOK
    <3> QED
      BY <1>4, <2>1, <3>1, <3>2, <3>3, <3>4 DEF Begin, Asks
  <2>2. CASE SaveSelect(r) \/ EditSelect(r)
    BY <2>2 DEF SaveSelect, EditSelect, Asks, TypeOK
  <2>3. CASE EditWrite(r) \/ RemoveComment(r) \/ EmitEvents(r)
    BY <2>3, IdleRequest DEF EditWrite, RemoveComment, EmitEvents, Emit, Return, Asks, TypeOK
  <2> QED
    BY <1>4, <2>1, <2>2, <2>3 DEF Step
<1> QED
  BY <1>1, <1>2, <1>3, <1>4

LEMMA NoReplyInvStep ==
  TypeOK /\ (\E A \in Authors : ReplyInv(A)) /\ NoReplyInv /\ [Next]_vars => NoReplyInv'
<1> SUFFICES ASSUME TypeOK, NEW A \in Authors, ReplyInv(A), NoReplyInv, [Next]_vars
             PROVE  NoReplyInv'
  OBVIOUS
<1>1. CASE UNCHANGED vars
  BY <1>1 DEF vars, history, NoReplyInv, Asked, Announcing
<1>2. CASE Next
  <2>1. ASSUME NEW c \in Comments, NEW u \in Users, comment'[c].task = None
        PROVE  (Asked(Replied(u, c)) = 0)'
    <3>1. PICK i \in Input : i = Replied(u, c)
      BY RepliedInput
    <3>2. comment[c].task = None
      BY <1>2, <2>1, TaskIsKept
    <3>3. Asked(i) = 0
      BY <3>1, <3>2 DEF NoReplyInv
    <3>4. ASSUME NEW r \in Requests, Begin(r) \/ Step(r)
          PROVE  Asked(i)' = 0
      <4>1. ~Asks(r, i)
        BY <2>1, <3>1, <3>4, ReplyIsInserted
      <4> QED
        BY <3>3, <3>4, <4>1, AskedByRequest
    <3>5. ASSUME ~\E r \in Requests : Begin(r) \/ Step(r)
          PROVE  Asked(i)' = 0
      BY <1>2, <3>3, <3>5, AskedOtherwise
    <3> QED
      BY <3>1, <3>4, <3>5
  <2>2. ASSUME NEW r \in Requests, req'[r].pc \in {"select", "write"},
               NEW c \in Comments, NEW u \in Users
        PROVE  Replied(u, c) \notin req'[r].events
    <3>1. CASE req'[r] = req[r]
      BY <2>2, <3>1 DEF NoReplyInv
    <3>2. ASSUME NEW t \in Tasks, NEW actor \in Users, NEW a \in UserOrNone,
                 NEW st \in {"open", "DONE"}, BeginUpdate(r, t, actor, a, st)
          PROVE  Replied(u, c) \notin req'[r].events
      <4> DEFINE entity == [task[t] EXCEPT !.assignee = a, !.status = st,
                              !.setBy = IF a = task[t].assignee THEN @ ELSE actor]
      <4>1. req'[r].events = UpdateEvents(t, task[t], entity, actor)
        BY <3>2 DEF BeginUpdate, TypeOK
      <4> QED
        BY <4>1, TaskEventsNoReply
    <3>3. CASE SaveSelect(r)
      <4>1. req[r].pc = "select" /\ req'[r].events = req[r].events
        BY <3>3 DEF SaveSelect, TypeOK
      <4> QED
        BY <4>1 DEF NoReplyInv
    <3>4. CASE SaveWrite(r)
      BY <2>2, <3>4 DEF SaveWrite, TypeOK
    <3>5. ASSUME NEW t \in Tasks, NEW actor \in Users, NEW a \in UserOrNone,
                 CreateTask(r, t, actor, a)
          PROVE  FALSE
      BY <2>2, <3>5 DEF CreateTask, TypeOK
    <3>6. ASSUME Begin(r) \/ Step(r), ~SaveSelect(r), ~SaveWrite(r),
                 ~\E t \in Tasks, actor \in Users, a \in UserOrNone :
                    \/ CreateTask(r, t, actor, a)
                    \/ \E st \in {"open", "DONE"} : BeginUpdate(r, t, actor, a, st)
          PROVE  FALSE
      BY <2>2, <3>6, CommentStepPc
    <3>7. ASSUME NEW q \in Requests, q # r, Begin(q) \/ Step(q)
          PROVE  req'[r] = req[r]
      BY <3>7, RequestStep DEF TypeOK
    <3>8. ASSUME ~\E q \in Requests : Begin(q) \/ Step(q)
          PROVE  req'[r] = req[r]
      <4>1. ~ApiCrash
        BY <2>2, IdleRequest DEF ApiCrash
      <4> QED
        BY <1>2, <3>8, <4>1
        DEF Next, Listen, Deliver, Enqueue, Reject, Work, TakeJob, Process, CompleteJob, JobFails,
            Crash, UnchangedRequests, UnchangedProducers
    <3> QED
      BY <3>1, <3>2, <3>3, <3>4, <3>5, <3>6, <3>7, <3>8
  <2> QED
    BY <2>1, <2>2 DEF NoReplyInv
<1> QED
  BY <1>1, <1>2

\* The author of a comment somebody else has replied to is told of the reply or
\* about to be, and of none that is not there, however replies, edits and
\* removals of the thread overlap.
THEOREM ParentAuthorIsToldCorrect == Spec => []ParentAuthorIsTold
<1>1. Init => (\E A \in Authors : ReplyInv(A)) /\ NoReplyInv
  <2> SUFFICES ASSUME Init PROVE (\E A \in Authors : ReplyInv(A)) /\ NoReplyInv
    OBVIOUS
  <2>1. \A c \in Comments : ~Exists(c)
    BY DEF Init, Exists
  <2>2. \A r \in Requests : req[r].pc = "idle"
    BY IdleRequest DEF Init
  <2>3. [c \in Comments |-> None] \in Authors
    BY DEF Authors, UserOrNone
  <2>4. ReplyInv([c \in Comments |-> None])
    BY <2>1, <2>2 DEF ReplyInv, RequestAgrees
  <2>5. NoReplyInv
    BY <2>2, InitSilent, RepliedInput DEF NoReplyInv
  <2> QED
    BY <2>3, <2>4, <2>5
<1>2. TypeOK /\ RowsInv /\ SilentInv /\ (\E A \in Authors : ReplyInv(A)) /\ NoReplyInv
        => ParentAuthorIsTold
  <2> SUFFICES ASSUME TypeOK, RowsInv, SilentInv, NEW A \in Authors, ReplyInv(A), NoReplyInv,
                      NEW c \in Comments
               PROVE  LET p == comment[c].parent IN
                      /\ comment[c].task = None => \A u \in Users : Told(Replied(u, c)) = 0
                      /\ Exists(c) /\ p # None =>
                           /\ Exists(p) /\ comment[p].task = comment[c].task
                           /\ comment[p].author # comment[c].author =>
                                Told(Replied(comment[p].author, c)) > 0
    BY DEF ParentAuthorIsTold
  <2> DEFINE p == comment[c].parent
  <2>1. \A u \in Users : /\ Told(Replied(u, c)) \in Nat /\ Asked(Replied(u, c)) \in Nat
                         /\ Asked(Replied(u, c)) <= Told(Replied(u, c))
                         /\ Asked(Replied(u, c)) = 0 => Told(Replied(u, c)) = 0
    BY RepliedInput, AskedType, AskedIsTold
  <2>2. comment[c].task = None => \A u \in Users : Told(Replied(u, c)) = 0
    BY <2>1 DEF NoReplyInv
  <2>3. ASSUME Exists(c), p # None
        PROVE  /\ Exists(p) /\ comment[p].task = comment[c].task
               /\ comment[p].author # comment[c].author =>
                    Told(Replied(comment[p].author, c)) > 0
    <3>1. p \in Comments /\ Exists(p) /\ Answered(A, c, p) /\ comment[c].author = A[c]
      BY <2>3 DEF ReplyInv, RowAgrees, ParentExists, TypeOK, CommentRow
    <3>2. comment[p].author = A[p] /\ A[p] \in Users /\ comment[p].task = comment[c].task
      BY <2>3, <3>1 DEF ReplyInv, RowAgrees, Answered
    <3>3. ASSUME A[p] # A[c]
          PROVE  Told(Replied(A[p], c)) > 0
      <4>1. Asked(Replied(A[p], c)) > 0
        BY <2>3, <3>1, <3>3 DEF Answered
      <4>2. PICK n, m : n = Asked(Replied(A[p], c)) /\ m = Told(Replied(A[p], c))
        OBVIOUS
      <4>3. n \in Nat /\ m \in Nat /\ n <= m /\ n > 0
        BY <2>1, <3>2, <4>1, <4>2
      <4>4. m > 0
        BY <4>3
      <4> QED
        BY <4>2, <4>4
    <3> QED
      BY <3>1, <3>2, <3>3
  <2> QED
    BY <2>2, <2>3
<1> QED
  BY <1>1, <1>2, InitSilent, QueueInvStep, RowsInvStep, SilentInvStep, ReplyInvStep,
     NoReplyInvStep, TypeCorrect, PTL DEF Spec

=============================================================================
