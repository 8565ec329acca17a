---------------------------- MODULE Notifications ----------------------------
(***************************************************************************)
(* From a request to the recipient's inbox: TasksService.create and update *)
(* and CommentsService.create emit domain events (comments are also edited  *)
(* and removed, with their replies), the mappers of                        *)
(* notification-mapping.ts turn them into notifications, and either the    *)
(* listener inserts them (no queue) or they travel through the BullMQ      *)
(* queue "notifications" under a job id made of recipient, type and        *)
(* entity, which the queue keeps for a while after the job is done.        *)
(*                                                                         *)
(* Emitting is synchronous and nobody awaits what a listener starts, so    *)
(* the insert or the queue.add of an event outlives its request.           *)
(* Repository.save writes the columns that differ from the row it selects. *)
(***************************************************************************)
EXTENDS Integers, Sequences, FiniteSets

CONSTANTS
  Tasks,       \* task uuids
  Comments,    \* comment uuids
  Users,
  Requests,    \* requests that may be in progress at once
  Attempts,    \* the job option attempts
  Keep,        \* completed jobs the queue keeps (removeOnComplete)
  Modes,       \* the values QUEUE_ENABLED may have
  Budget,      \* how many times each kind of outside event may happen
  None

\* The outside events: requests to update a task or to comment, to edit or to
\* remove a comment, and faults, which are failing deliveries, rejected
\* listener calls and crashes.
Event == {"request", "edit", "removal", "fault"}

ASSUME ConstantsAssumption ==
  /\ Attempts \in Nat \ {0} /\ Keep \in Nat
  /\ Modes \subseteq BOOLEAN
  /\ Budget \in [Event -> Nat]
  /\ IsFiniteSet(Requests)
  /\ None \notin Users \cup Comments \cup Tasks

\* A notification to create, which is also what its job id tells apart.
Input ==
  [to : Users, type : {"TASK_ASSIGNED", "TASK_COMPLETED", "COMMENT_ADDED"}, entity : Tasks]
    \cup [to : Users, type : {"COMMENT_REPLY"}, entity : Comments]

VARIABLES
  queueEnabled,  \* QUEUE_ENABLED of this deployment
  task,          \* the table tasks
  comment,       \* the table comments
  req,           \* the requests in progress
  emitted,       \* how many events asked for each notification
  pending,       \* listener calls (insert or queue.add) not finished, per notification
  jobs,          \* the queue, by job id
  kept,          \* the completed jobs the queue holds, oldest first
  inbox,         \* notification rows, per notification
  budget,
  \* History, per notification:
  assigned,      \* how often a save has assigned the task to the recipient
  cut,           \* events of requests that died after their save, before the emit
  lost,          \* listener calls that were rejected or cut off
  swallowed      \* calls of queue.add that were ignored, for the queue holds the id

history == <<assigned, cut, lost, swallowed>>

vars == <<queueEnabled, task, comment, req, emitted, pending, jobs, kept, inbox, budget,
          history>>

UserOrNone == Users \cup {None}

\* setBy is who last changed the assignee.
TaskRow == [status : {"absent", "open", "DONE"}, assignee : UserOrNone,
            setBy : UserOrNone, creator : UserOrNone]

\* A comment that is not in the table has no author; one that was removed
\* keeps its task here, for its uuid is not given out again.
CommentRow == [author : UserOrNone, task : Tasks \cup {None}, parent : Comments \cup {None}]

Exists(c) == comment[c].author # None

Job == [state : {"none", "waiting", "active", "inserted", "completed", "failed"},
        attemptsMade : Nat]

NoJob == [state |-> "none", attemptsMade |-> 0]

\* A request: the entity it will save, which columns the UPDATE of save will
\* write, and the notifications its events will ask for when save is done;
\* assigns tells whether its dto changes the assignee.
RequestState ==
  [pc : {"idle"}]
    \cup [pc : {"select"}, task : Tasks, entity : TaskRow, events : SUBSET Input,
          assigns : BOOLEAN]
    \cup [pc : {"write"}, task : Tasks, entity : TaskRow, events : SUBSET Input,
          assigns : BOOLEAN, assignee : BOOLEAN, status : BOOLEAN]
    \cup [pc : {"insert"}, comment : Comments, author : Users, parent : Comments \cup {None},
          parentAuthor : UserOrNone, task : Tasks, assignee : UserOrNone]
    \cup [pc : {"editSelect"}, comment : Comments, row : CommentRow]
    \cup [pc : {"editWrite"}, comment : Comments, row : CommentRow, found : BOOLEAN]
    \cup [pc : {"remove"}, comment : Comments]
    \cup [pc : {"emit"}, events : SUBSET Input]

Idle == [pc |-> "idle"]

Init ==
  /\ queueEnabled \in Modes
  /\ task = [t \in Tasks |-> [status |-> "absent", assignee |-> None,
                              setBy |-> None, creator |-> None]]
  /\ comment = [c \in Comments |-> [author |-> None, task |-> None, parent |-> None]]
  /\ req = [r \in Requests |-> Idle]
  /\ emitted = [i \in Input |-> 0]
  /\ pending = [i \in Input |-> 0]
  /\ jobs = [i \in Input |-> NoJob]
  /\ kept = <<>>
  /\ inbox = [i \in Input |-> 0]
  /\ budget = Budget
  /\ assigned = [i \in Input |-> 0] /\ cut = [i \in Input |-> 0]
  /\ lost = [i \in Input |-> 0] /\ swallowed = [i \in Input |-> 0]

Spend(e) == budget[e] > 0 /\ budget' = [budget EXCEPT ![e] = @ - 1]

-----------------------------------------------------------------------------
(* The mappers: the notifications an event asks for, none for one's own    *)
(* action or without a recipient.                                          *)

NoticeWithoutRecipient(to, actor, type, entity) ==
  IF to = actor THEN {} ELSE {[to |-> to, type |-> type, entity |-> entity]}

Notice(to, actor, type, entity) ==
  IF to = None \/ to = actor THEN {} ELSE {[to |-> to, type |-> type, entity |-> entity]}

MapTaskAssigned(t, assignee, actor) == Notice(assignee, actor, "TASK_ASSIGNED", t)

MapTaskCompleted(t, creator, actor) == Notice(creator, actor, "TASK_COMPLETED", t)

MapCommentCreated(t, assignee, author) == Notice(assignee, author, "COMMENT_ADDED", t)

MapCommentReplied(c, parentAuthor, author) == Notice(parentAuthor, author, "COMMENT_REPLY", c)

\* The request emits its events and returns: each listener call is started.
Emit(r, is) ==
  /\ req' = [req EXCEPT ![r] = Idle]
  /\ emitted' = [i \in Input |-> emitted[i] + IF i \in is THEN 1 ELSE 0]
  /\ pending' = [i \in Input |-> pending[i] + IF i \in is THEN 1 ELSE 0]

\* The requests still to emit an event that asks for notification i.
Announcing(i) == {r \in Requests : req[r].pc = "emit" /\ i \in req[r].events}

UnchangedDelivery == UNCHANGED <<queueEnabled, jobs, kept, inbox, cut, lost, swallowed>>

Assigned(t, u) == [to |-> u, type |-> "TASK_ASSIGNED", entity |-> t]

\* A save has assigned task t to u; nobody has to be told of what he did himself.
CountAssignment(t, u, actor) ==
  assigned' = [i \in Input |-> IF i = Assigned(t, u) /\ u # actor THEN assigned[i] + 1
                               ELSE assigned[i]]

-----------------------------------------------------------------------------
(* TasksService.                                                           *)

\* create: the INSERT, then task.created and task.assigned.
CreateTask(r, t, actor, assignee) ==
  /\ req[r].pc = "idle"
  /\ task[t].status = "absent"
  /\ task' = [task EXCEPT ![t] = [status |-> "open", assignee |-> assignee,
                                  setBy |-> actor, creator |-> actor]]
  /\ req' = [req EXCEPT ![r] =
               [pc |-> "emit", events |-> MapTaskAssigned(t, assignee, actor)]]
  /\ CountAssignment(t, assignee, actor)
  /\ UNCHANGED <<comment, emitted, pending, budget>> /\ UnchangedDelivery

\* The events update emits once the entity is saved, with what it was loaded
\* as: for a dto that changes the assignee, and one that completes the task.
UpdateEventsElseIf(t, prev, entity, actor) ==
  IF entity.status # prev.status /\ entity.status = "DONE"
    THEN MapTaskCompleted(t, entity.creator, actor)
    ELSE IF entity.assignee # prev.assignee THEN MapTaskAssigned(t, entity.assignee, actor) ELSE {}

UpdateEvents(t, prev, entity, actor) ==
  (IF entity.assignee # prev.assignee THEN MapTaskAssigned(t, entity.assignee, actor) ELSE {})
    \cup
  (IF entity.status # prev.status /\ entity.status = "DONE"
     THEN MapTaskCompleted(t, entity.creator, actor) ELSE {})

\* update, with any dto: a column the dto leaves out keeps the loaded value.
BeginUpdate(r, t, actor, assignee, status) ==
  LET prev   == task[t]
      entity == [prev EXCEPT !.assignee = assignee, !.status = status,
                             !.setBy = IF assignee = prev.assignee THEN @ ELSE actor]
  IN
  /\ req[r].pc = "idle"
  /\ prev.status # "absent"
  /\ Spend("request")
  /\ req' = [req EXCEPT ![r] = [pc |-> "select", task |-> t, entity |-> entity,
                                events |-> UpdateEvents(t, prev, entity, actor),
                                assigns |-> assignee # prev.assignee]]
  /\ UNCHANGED <<task, comment, emitted, pending, assigned>> /\ UnchangedDelivery

\* save(task), its SELECT: the columns in which the entity differs.
SaveSelect(r) ==
  LET q == req[r] IN
  /\ q.pc = "select"
  /\ req' = [req EXCEPT ![r] =
       [pc |-> "write", task |-> q.task, entity |-> q.entity, events |-> q.events,
        assigns |-> q.assigns,
        assignee |-> q.entity.assignee # task[q.task].assignee,
        status |-> q.entity.status # task[q.task].status]]
  /\ UNCHANGED <<task, comment, emitted, pending, budget, assigned>> /\ UnchangedDelivery

\* save(task), its UPDATE.
SaveWrite(r) ==
  LET q == req[r]  t == q.task IN
  /\ q.pc = "write"
  /\ task' = [task EXCEPT
       ![t].assignee = IF q.assignee THEN q.entity.assignee ELSE @,
       ![t].setBy    = IF q.assignee THEN q.entity.setBy ELSE @,
       ![t].status   = IF q.status THEN q.entity.status ELSE @]
  /\ req' = [req EXCEPT ![r] = [pc |-> "emit", events |-> q.events]]
  /\ IF q.assigns THEN CountAssignment(t, q.entity.assignee, q.entity.setBy)
                  ELSE UNCHANGED assigned
  /\ UNCHANGED <<comment, emitted, pending, budget>> /\ UnchangedDelivery

-----------------------------------------------------------------------------
(* CommentsService.  create loads the task and the parent, inserts the      *)
(* comment, then emits comment.created and, for a reply, comment.replied.  *)

BeginComment(r, c, t, author, parent) ==
  /\ req[r].pc = "idle"
  /\ comment[c].task = None
  /\ \A q \in Requests : req[q].pc = "insert" => req[q].comment # c
  /\ task[t].status # "absent"
  /\ parent # None => Exists(parent) /\ comment[parent].task = t
  /\ Spend("request")
  /\ req' = [req EXCEPT ![r] =
       [pc |-> "insert", comment |-> c, author |-> author, parent |-> parent, task |-> t,
        parentAuthor |-> IF parent = None THEN None ELSE comment[parent].author,
        assignee |-> task[t].assignee]]
  /\ UNCHANGED <<task, comment, emitted, pending, assigned>> /\ UnchangedDelivery

\* The foreign key on the parent holds for a row to be inserted.
ParentExists(parent) == parent # None => Exists(parent)

\* The request ends without an event: it is done, or the statement has thrown.
Return(r) == req' = [req EXCEPT ![r] = Idle]

\* The INSERT of create, which throws where the parent was removed meanwhile.
InsertCommentOneEvent(r) ==
  LET q == req[r]  c == q.comment  added == MapCommentCreated(q.task, q.assignee, q.author) IN
  /\ q.pc = "insert"
  /\ IF ParentExists(q.parent)
       THEN /\ comment' = [comment EXCEPT ![c] = [author |-> q.author, task |-> q.task, parent |-> q.parent]]
            /\ req' = [req EXCEPT ![r] =
                 [pc |-> "emit",
                  events |-> IF added # {} THEN added
                             ELSE MapCommentReplied(c, q.parentAuthor, q.author)]]
       ELSE Return(r) /\ UNCHANGED comment
  /\ UNCHANGED <<task, emitted, pending, budget, assigned>> /\ UnchangedDelivery

InsertComment(r) ==
  LET q == req[r]  c == q.comment IN
  /\ q.pc = "insert"
  /\ IF ParentExists(q.parent)
       THEN /\ comment' = [comment EXCEPT ![c] = [author |-> q.author, task |-> q.task, parent |-> q.parent]]
            /\ req' = [req EXCEPT ![r] =
                 [pc |-> "emit",
                  events |-> MapCommentCreated(q.task, q.assignee, q.author)
                               \cup MapCommentReplied(c, q.parentAuthor, q.author)]]
       ELSE Return(r) /\ UNCHANGED comment
  /\ UNCHANGED <<task, emitted, pending, budget, assigned>> /\ UnchangedDelivery

\* update, with a new body: only the author may.
BeginEdit(r, c, actor) ==
  /\ req[r].pc = "idle"
  /\ Exists(c) /\ comment[c].author = actor
  /\ Spend("edit")
  /\ req' = [req EXCEPT ![r] = [pc |-> "editSelect", comment |-> c, row |-> comment[c]]]
  /\ UNCHANGED <<task, comment, emitted, pending, assigned>> /\ UnchangedDelivery

\* save(comment), its SELECT: whether the row is still there.
EditSelect(r) ==
  LET q == req[r] IN
  /\ q.pc = "editSelect"
  /\ req' = [req EXCEPT ![r] = [pc |-> "editWrite", comment |-> q.comment, row |-> q.row,
                                found |-> Exists(q.comment)]]
  /\ UNCHANGED <<task, comment, emitted, pending, budget, assigned>> /\ UnchangedDelivery

\* save(comment), its UPDATE of the body, which is not modelled; or, where the
\* SELECT found nothing, an INSERT of the row as it was loaded, which throws
\* without the parent and where another edit has inserted it again.
EditWrite(r) ==
  LET q == req[r]  c == q.comment IN
  /\ q.pc = "editWrite"
  /\ comment' = IF ~q.found /\ ~Exists(c) /\ ParentExists(q.row.parent)
                  THEN [comment EXCEPT ![c] = q.row] ELSE comment
  /\ Return(r)
  /\ UNCHANGED <<task, emitted, pending, budget, assigned>> /\ UnchangedDelivery

\* remove, by the author or an admin of the workspace, who may be anybody.
BeginRemove(r, c) ==
  /\ req[r].pc = "idle"
  /\ Exists(c)
  /\ Spend("removal")
  /\ req' = [req EXCEPT ![r] = [pc |-> "remove", comment |-> c]]
  /\ UNCHANGED <<task, comment, emitted, pending, assigned>> /\ UnchangedDelivery

\* A comment with its replies, their replies and so on.
Thread(c) ==
  {d \in Comments : \A S \in SUBSET Comments :
     c \in S /\ (\A e \in Comments : comment[e].parent \in S => e \in S) => d \in S}

\* remove(comment): a DELETE by id, which cascades.
RemoveComment(r) ==
  /\ req[r].pc = "remove"
  /\ comment' = [d \in Comments |->
                   IF d \in Thread(req[r].comment)
                     THEN [comment[d] EXCEPT !.author = None, !.parent = None] ELSE comment[d]]
  /\ Return(r)
  /\ UNCHANGED <<task, emitted, pending, budget, assigned>> /\ UnchangedDelivery

EmitEvents(r) ==
  /\ req[r].pc = "emit"
  /\ Emit(r, req[r].events)
  /\ UNCHANGED <<task, comment, budget, assigned>> /\ UnchangedDelivery

-----------------------------------------------------------------------------
(* The listeners.                                                          *)

UnchangedRequests == UNCHANGED <<queueEnabled, task, comment, req, emitted, assigned, cut>>

Finished(i) == pending' = [pending EXCEPT ![i] = @ - 1]

DeliverUnlessPresent(i) ==
  /\ ~queueEnabled
  /\ pending[i] > 0
  /\ inbox' = IF inbox[i] > 0 THEN inbox ELSE [inbox EXCEPT ![i] = @ + 1]
  /\ Finished(i)
  /\ UNCHANGED <<jobs, kept, budget, lost, swallowed>> /\ UnchangedRequests

\* NotificationListener.deliver: NotificationsService.create.
Deliver(i) ==
  /\ ~queueEnabled
  /\ pending[i] > 0
  /\ inbox' = [inbox EXCEPT ![i] = @ + 1]
  /\ Finished(i)
  /\ UNCHANGED <<jobs, kept, budget, lost, swallowed>> /\ UnchangedRequests

\* NotificationQueueListener.enqueue: queue.add ignores an id it holds.
Enqueue(i) ==
  /\ queueEnabled
  /\ pending[i] > 0
  /\ IF jobs[i].state = "none"
       THEN jobs' = [jobs EXCEPT ![i].state = "waiting"] /\ UNCHANGED swallowed
       ELSE swallowed' = [swallowed EXCEPT ![i] = @ + 1] /\ UNCHANGED jobs
  /\ Finished(i)
  /\ UNCHANGED <<kept, inbox, budget, lost>> /\ UnchangedRequests

\* The insert or queue.add of an event is rejected; nobody handles that.
Reject(i) ==
  /\ pending[i] > 0
  /\ Spend("fault")
  /\ lost' = [lost EXCEPT ![i] = @ + 1]
  /\ Finished(i)
  /\ UNCHANGED <<jobs, kept, inbox, swallowed>> /\ UnchangedRequests

\* The API process dies with its requests and listener calls, also where the
\* rows are written and the events are not emitted yet.
ApiCrash ==
  /\ Spend("fault")
  /\ cut' = [i \in Input |-> cut[i] + Cardinality(Announcing(i))]
  /\ lost' = [i \in Input |-> lost[i] + pending[i]]
  /\ req' = [r \in Requests |-> Idle]
  /\ pending' = [i \in Input |-> 0]
  /\ UNCHANGED <<queueEnabled, task, comment, emitted, jobs, kept, inbox, assigned, swallowed>>

-----------------------------------------------------------------------------
(* The worker: NotificationProcessor.process and its one channel.          *)

UnchangedProducers == UnchangedRequests /\ UNCHANGED <<pending, lost, swallowed>>

TakeJob(i) ==
  /\ jobs[i].state = "waiting"
  /\ jobs' = [jobs EXCEPT ![i].state = "active"]
  /\ UNCHANGED <<kept, inbox, budget>> /\ UnchangedProducers

\* InAppChannel.deliver: NotificationsService.create.
Process(i) ==
  /\ jobs[i].state = "active"
  /\ inbox' = [inbox EXCEPT ![i] = @ + 1]
  /\ jobs' = [jobs EXCEPT ![i].state = "inserted"]
  /\ UNCHANGED <<kept, budget>> /\ UnchangedProducers

\* The job is done; beyond removeOnComplete the oldest done job is forgotten.
CompleteJob(i) ==
  LET done == Append(kept, i) IN
  /\ jobs[i].state = "inserted"
  /\ IF Len(done) > Keep
       THEN /\ kept' = Tail(done)
            /\ jobs' = [j \in Input |-> IF j = Head(done) THEN NoJob
                                        ELSE IF j = i THEN [jobs[i] EXCEPT !.state = "completed"]
                                        ELSE jobs[j]]
       ELSE /\ kept' = done
            /\ jobs' = [jobs EXCEPT ![i].state = "completed"]
  /\ UNCHANGED <<inbox, budget>> /\ UnchangedProducers

\* process throws, before or after the row is inserted.
JobFails(i) ==
  LET made == jobs[i].attemptsMade + 1 IN
  /\ jobs[i].state \in {"active", "inserted"}
  /\ Spend("fault")
  /\ jobs' = [jobs EXCEPT ![i] = [state |-> IF made >= Attempts THEN "failed" ELSE "waiting",
                                  attemptsMade |-> made]]
  /\ UNCHANGED <<kept, inbox>> /\ UnchangedProducers

\* The worker process dies and restarts: its jobs stall and are taken back.
\* A job never stalls more often than the queue tolerates (Budget).
Crash ==
  /\ Spend("fault")
  /\ jobs' = [i \in Input |-> IF jobs[i].state \in {"active", "inserted"}
                                THEN [jobs[i] EXCEPT !.state = "waiting"] ELSE jobs[i]]
  /\ UNCHANGED <<kept, inbox>> /\ UnchangedProducers

-----------------------------------------------------------------------------

Begin(r) ==
  \/ \E t \in Tasks, actor \in Users :
       \/ \E u \in UserOrNone : CreateTask(r, t, actor, u)
       \/ \E u \in UserOrNone, st \in {"open", "DONE"} : BeginUpdate(r, t, actor, u, st)
       \/ \E c \in Comments, p \in Comments \cup {None} : BeginComment(r, c, t, actor, p)
  \/ \E c \in Comments : BeginRemove(r, c) \/ \E actor \in Users : BeginEdit(r, c, actor)

Step(r) ==
  \/ SaveSelect(r) \/ SaveWrite(r)
  \/ InsertComment(r) \/ EditSelect(r) \/ EditWrite(r) \/ RemoveComment(r)
  \/ EmitEvents(r)

Listen(i) == Deliver(i) \/ Enqueue(i)

Work(i) == TakeJob(i) \/ Process(i) \/ CompleteJob(i)

Next ==
  \/ \E r \in Requests : Begin(r) \/ Step(r)
  \/ \E i \in Input : Listen(i) \/ Reject(i) \/ Work(i) \/ JobFails(i)
  \/ ApiCrash \/ Crash

Spec == Init /\ [][Next]_vars

\* A request, a listener call and a job make progress; no request has to come
\* and nothing has to fail.
FairSpec ==
  /\ Spec
  /\ \A r \in Requests : WF_vars(Step(r))
  /\ \A i \in Input : WF_vars(Listen(i)) /\ WF_vars(Work(i))

-----------------------------------------------------------------------------
(* Properties.                                                             *)

TypeOK ==
  /\ queueEnabled \in BOOLEAN
  /\ task \in [Tasks -> TaskRow]
  /\ comment \in [Comments -> CommentRow]
  /\ req \in [Requests -> RequestState]
  /\ emitted \in [Input -> Nat] /\ pending \in [Input -> Nat] /\ inbox \in [Input -> Nat]
  /\ jobs \in [Input -> Job]
  /\ kept \in Seq(Input)
  /\ budget \in [Event -> Nat]
  /\ assigned \in [Input -> Nat] /\ cut \in [Input -> Nat]
  /\ lost \in [Input -> Nat] /\ swallowed \in [Input -> Nat]

Count(b) == IF b THEN 1 ELSE 0

\* The rows of a notification, with those still to come.
Rows(i) == inbox[i] + pending[i] + Count(jobs[i].state \in {"waiting", "active"})

\* The events that no row will come of: the listener call was lost, queue.add
\* was ignored, or the job is dead-lettered.
GivenUp(i) == lost[i] + swallowed[i] + Count(jobs[i].state = "failed")

\* No notification is invented and none goes missing unseen: every event that
\* asked for it has a row of its own, there or to come, or was given up, and
\* more rows there are only for deliveries that failed or were cut off by a
\* crash.  Without the queue no event is given up but for a lost insert.  What
\* queue.add ignores is a repeat of a notification that was delivered, is on
\* its way or is dead-lettered (the listeners, process, retries, job ids).
RowsAreAccounted ==
  \A i \in Input :
    /\ emitted[i] <= Rows(i) + GivenUp(i)
    /\ Rows(i) + GivenUp(i) <= emitted[i] + (Budget["fault"] - budget["fault"])
    /\ ~queueEnabled => Rows(i) + lost[i] = emitted[i]
    /\ swallowed[i] > 0 =>
         queueEnabled /\ (inbox[i] > 0 \/ jobs[i].state \in {"waiting", "active", "failed"})

\* How many rows of notification i are there or to come, events still to emit
\* included, or were given up, the requests that died before the emit included.
Told(i) == Cardinality(Announcing(i)) + cut[i] + Rows(i) + GivenUp(i)

\* Whoever another user makes the assignee of a task is told each time: every
\* assignment has a row of its own, there or to come, however updates overlap,
\* unless it was given up: its call or its job was lost to faults, or it is a
\* second assignment of the task to the same user while the queue holds the job
\* id of the first.  An update that writes a stale assignee back gives the task
\* to nobody who was not assigned it before (create, update, save, enqueue,
\* removeOnComplete).
AssigneeIsTold ==
  \A t \in Tasks, u \in Users :
    /\ assigned[Assigned(t, u)] <= Told(Assigned(t, u))
    /\ task[t].assignee = u /\ task[t].setBy # u => assigned[Assigned(t, u)] > 0

Replied(u, c) == [to |-> u, type |-> "COMMENT_REPLY", entity |-> c]

\* The author of a comment somebody else has replied to is told of the reply, is
\* about to be, or the notice was given up, also when the comment is removed
\* while the reply is written or an edit brings the reply back; and nobody is
\* told of a reply whose insert was refused or is still to come (create, its
\* foreign key, remove, update).
ParentAuthorIsTold ==
  \A c \in Comments :
    LET p == comment[c].parent IN
    /\ comment[c].task = None => \A u \in Users : Told(Replied(u, c)) = 0
    /\ Exists(c) /\ p # None =>
         /\ Exists(p) /\ comment[p].task = comment[c].task
         /\ comment[p].author # comment[c].author => Told(Replied(comment[p].author, c)) > 0

\* docs/ARCHITECTURE.md, notification triggers: "Comment / reply ... | task
\* assignee": every comment of somebody else notifies the assignee.
EveryCommentIsNotified ==
  \A i \in {j \in Input : j.type = "COMMENT_ADDED"}, n \in 1..2 :
    emitted[i] >= n ~> inbox[i] >= n
=============================================================================
