# Verification of the Task Scheduling Platform

TLA+ models of the platform's server (NestJS, PostgreSQL through TypeORM,
BullMQ on Redis), TLC configurations for them, and TLAPS proofs. Paths such as
`reminders.service.ts` are under `src/src/modules/<module>/`; documents are
under `src/docs/`.

## 1. The system

One image runs as the **API** (requests, event listeners, sockets) and, with
`RUN_MODE=worker`, as the **worker** (queue processors, cron). They share the
database and two BullMQ queues. `QUEUE_ENABLED` chooses between the queues and
in-process delivery. Almost no request opens a transaction, so every `await` of
a service is a point where other requests interleave.

| Component | State | Operations that change it | What makes it correct |
|---|---|---|---|
| Reminder engine (`reminders/`) | table `reminders` with its unique key, queue `reminders`, the flag `running` of each worker process | cron scan, manual scan, deliver, mark failed | a row of reminders is dispatched once; delivered at least once, with bounded duplicates; `SENT` and `FAILED` mean what they say; overdue tasks are reminded |
| Task hierarchy (`tasks/tasks.service.ts`) | `tasks.parent_task_id`, `project_id` | create, update, move, remove, remove project | no cycles but by overlapping moves; parents inside the project; depth limit |
| Task fields and events (`tasks/`) | status, assignee, due date | create, update, remove; emits `task.*` | every change somebody must hear of has its event |
| Comments (`comments/`) | table `comments` | create, update, remove; emits `comment.*` | replies stay on their task; assignee and parent author are notified |
| Notifications (`notifications/`) | table `notifications`, queue `notifications` | map, enqueue or insert, deliver, mark read | rows match events; every assignment and reply has its row |
| Realtime bridge (`realtime/`) | sockets in rooms per user, two Redis channels | connect, publish, re-emit, push | who is connected is pushed it, and how often |
| Sessions (`auth/`, `users/`, `public/index.html`) | accounts, table of refresh tokens, the token each tab keeps and the one in localStorage | signup, login, refresh, logout; a page is loaded | one live token per session; a closed session stays closed; a tab is not left with a spent token |
| Members (`workspaces/`) | memberships, a cache in front of them, invitations | invite, accept, revoke, change role, remove | a workspace keeps its owner; the cache follows changes; an invitation is used once |
| Projects, activity log | their tables | single inserts, updates, deletes | — |
| Pagination (`common/pagination`, the five lists) | the reader's cursor | encode, decode, page | pages neither repeat nor skip rows |

They interact by calls (comments and projects into tasks), by in-process events
which the notification, activity and realtime listeners receive, by the two
queues, and through foreign keys that cascade.

What is hard to test here, and drives the choice of properties: two statements
of one request with another request between them; a row written and a job not
yet added; an effect done and not yet recorded when the worker dies; a slot
that lost its lock and goes on; entities saved with columns that are out of
date; job ids that deduplicate more than was meant. `PROJECT.json` lists these
at their lines.

## 2. Modules

| Module | Models | Extended by |
|---|---|---|
| `ReminderLifecycle` | what the reminder engine promises of each row of reminders; implemented by `Reminders` | — |
| `Reminders` | `reminders.service.ts`, `reminder.processor.ts`, `scheduler.service.ts`, the scan route, what task requests change for them | `MCReminders`, `RemindersProofs`, `LifecycleProofs` |
| `TaskHierarchy` | what the tasks of a workspace promise to be, parent links inside projects that change by whole steps and hang a task below itself only where marked; implemented by `TaskTree` | — |
| `TaskTree` | `create`, `update`, `moveTask`, `remove` of `tasks.service.ts`, removal of a project | `MCTaskTree`, `TaskTreeProofs` |
| `Notifications` | events of `tasks.service.ts` and `comments.service.ts`, `notification-mapping.ts`, both listeners, the processor, the inbox rows | `MCNotifications`, `NotificationsProofs` |
| `Membership` | `workspaces.service.ts`, `invitations.service.ts`, the two guards, the cache of each API process | `MCMembership`, `MembershipProofs` |
| `Realtime` | `realtime/` (gateway, publisher, subscriber, Redis adapter), the emit of `notifications.service.ts`, `main.ts` as far as it installs the adapter | `MCRealtime`, `RealtimeProofs` |
| `Sessions` | `auth.service.ts`, `refresh-token.service.ts`, the accounts of `users.service.ts`, the session handling of `public/index.html` | `MCSessions`, `SessionsProofs` |
| `Feed` | `pagination.util.ts`, the list queries of projects, tasks, comments, activity and notifications, and the operations that insert into, remove from or change what matches those lists | `MCFeed`, `FeedProofs` |

Conventions. A handler is split exactly at its awaits; each SQL statement and
each queue operation is atomic. Faults, crashes and edits are **outside
events**, each with a budget (`Budget`), so that the state space is finite and a
property can refer to what has happened. Texts, titles and counters for logs are
left out. BullMQ and PostgreSQL are modelled from how the code uses them.

### Reminders
`tasks`, `reminders`, `inbox` are tables, `jobs` the queue (job id = reminder
id), `scan` the scans in progress, `worker` the processor slots. A scan reads its
clock once (`StartScan`), runs two queries, and per item inserts the row
(`CreateReminder`: `ON CONFLICT DO NOTHING`, a foreign key violation throws) and
then dispatches: `Enqueue` with a queue, `DispatchInProcess` and
`MarkSentInProcess` without. A slot runs `deliverReminder` as `FindReminder`,
`FindTask`, `Notify`, `UpdateSent`; `JobFails` and `OnFailed` are the retry and
the `failed` listener. External: taking a job, lost locks, stalled jobs (taken
back, and failed beyond `maxStalledCount` whatever attempts are left). `run`
numbers the delivery runs of a job and tags the notifications they create; it
exists only in the model. `queueEnabled` is chosen in the initial state and never
changes.

There may be several worker processes (`Hosts`), for the worker scales: `Host`
gives the process of each cron execution and each slot, `running` is a flag per
process, and `Crash(h)` ends one process with its scan, its slots and its flag. A
manual scan runs in the API. All processes read one clock.

A task can come back. `update` and `moveTask` load the task and save it in
statements of their own, so a removal in between makes the save insert it again,
with its id (`ReinsertTask`). The removal has deleted the reminders, so they are
created and told anew. Rows are therefore named by their unique key and the
*life* of the task they were inserted in (`ReminderKey`), which stands for the
row's uuid; `Conflict` is the unique key over all lives, and a scan that read the
task in an earlier life inserts rows of the present one (`NewRow`). `MaxLife`
bounds how often a task comes back.

`ReminderLifecycle` says the same of each row without scans, queue, retries
and crashes: `Create`, `Tell` (a delivery run notifies), `Send`, `GiveUp`,
`Delete`, `LoseLock`. `Lifecycle` in `Reminders` is the refinement mapping: the
state of a row is its status, or `"deleted"` once the life of its task is over
(`Gone`); its `Rivals` are the rows of the same unique key; the runs told are
those of the notifications in `inbox`; `lockLost` is whether a slot has lost its
lock. `ImplementsLifecycle` therefore says at once that a row is created once,
and never beside another one of its unique key, that each run notifies once, that
nobody is told of a settled row while every slot keeps its lock, and that a
deleted row stays deleted: what a task gets that comes back is another row. `SENT`
may still become `FAILED`: the run that recorded it can fail afterwards.

`NoDueSoonAfterOverdue` is about the creation of rows; which of two jobs is
delivered first is the queue's affair. `overlapped` is history: whether a scan has
overlapped one that is not of the same cron handler. Such a scan, next to a manual
one or one of another worker process, may have read an older clock, and is the
exception the property names. `reminders_live` has neither, so there the property
is checked without its exception; the theorem has both.

### TaskTree
A request loads its entity, performs the checks of `moveTask` one query at a
time, and saves. `Repository.save` is TypeORM's: a `SELECT`, then an `INSERT` if
the row was missing or an `UPDATE` of the columns that differ from the selected
row. So an update of a title may write a stale parent back, and may bring a task
back that was removed meanwhile. The recursive queries are least closed sets
(`Descendants`, `Ancestors`); one that would run in circles ends in the statement
timeout. Any number of requests of any kind may overlap.

Overlapping moves do make circles (`Acyclic`, violated in `tree_cycle`), so the
properties say which requests may and what the others keep. `overtaken` marks a
request during which another save has written a parent link, since it read the
subtree (`moveTask`) or loaded the entity (`update`); `torn` holds the tasks that
hang where such a save has put them. Both are history. `LoopsAreTorn`: every
circle runs through a torn task, so creates, removals, removals of projects and
saves that were not overtaken close none. `MoveRespectsDepth`: a move that was not
overtaken puts no row it has read below `MAX_DEPTH`. `ParentInProject` has no
exception.

`TaskHierarchy` knows no requests and no statements: `Add` hangs a task below an
existing one of its project, `Move` hangs one elsewhere, below itself only if it
is marked torn, `Remove` takes a subtree, `RemoveProject` a project. `Hierarchy` in
`TaskTree` maps the table's rows to it, column by column. `ImplementsHierarchy`
therefore says that each request takes effect at one statement, with whatever it
read before still good enough then, the new parent's place apart when the save was
overtaken.

### Notifications
`BeginUpdate` is the load with the dto applied and the events decided from what
was loaded; `SaveSelect` and `SaveWrite` are the save; `EmitEvents` starts one
listener call per notification (`pending`), which nobody awaits. `Deliver`
inserts the row; `Enqueue` adds a job under recipient, type and entity, which the
queue ignores while it holds that id, completed jobs included until `Keep` newer
ones push it out. `ApiCrash` takes requests and listener calls along, also
between a write and its events. Tasks are not removed in this module.

History counts, per notification, what became of what asked for it: `assigned` (a
save has assigned the task), `emitted`, `cut` (the request died before it emitted),
`lost` (a rejected or dying listener call) and `swallowed` (`queue.add` held the
id); `setBy` in a task is who assigned it last. `RowsAreAccounted` counts from both
sides: every event has a row of its own, there or to come, or was given up, and rows
beyond that come only from faults. `AssigneeIsTold` starts at the assignment: every
single one is accounted for like that, not merely some earlier one of the same user.
A second assignment that `queue.add` takes for a repeat counts as given up (see the
disagreements), and `RowsAreAccounted` says when that may happen.

A comment request reads its task and parent in one step (`BeginComment`) and
inserts in another (`InsertComment`), where the foreign keys decide: with the
parent removed meanwhile the insert fails and nothing is emitted
(`ParentAuthorIsTold` says both). `BeginEdit`,
`EditSelect` and `EditWrite` are `update` with its save, which inserts the comment
again where it was removed in between. `BeginRemove` and `RemoveComment` are
`remove`, with the cascade to all replies below (`Thread`).

### Membership
One workspace. `cache` is per process, since `CacheModule.register` is the
in-memory store. A request passes the guards (`CacheGet`, `FindMembership`,
`CacheSet`: the cache-aside read) and then runs its handler in the process it
came to; `Invalidate` clears that process's entry only. A row has an id, because
`save` looks rows up by id and inserts a row that was removed meanwhile, and the
unique key then decides. `accept` runs its reads and its commit as two steps of a
transaction. `Expire` is the time to live, as a step that may come at any time.
`current` is history: whether the read behind a cache entry overlapped a write,
or another process has written since. `Init` is an empty database, an established
workspace with its owner and one member, or an owner with a pending invitation.
`Invitations` bounds how many invitations are inserted. `CheckInvite` and
`LoadMember` each join reads that follow one another and whose order nothing
depends on.

### Sessions
A session is a family of rows in `refresh_tokens`, named by its first token. Each
call runs one step per statement: `FindToken`, `SpendToken`, `CreateToken`,
`RefreshUser` for a refresh, `RevokeFamily` when a revoked token comes back,
`RevokeToken` for a logout, which answers nobody since the page does not wait. A
call whose page is gone or whose connection broke goes on with `tab = None`. Rows
are numbered in the order of creation, so `expired` is a number: tokens live
equally long and expire in that order. The client side is the script of
`index.html`: `Refresh` may begin while another refresh of the same tab is under
way, since `api()` does not share one; `SetSession` writes memory and
localStorage; `Fail` logs the tab out, also when the repeated request fails;
`LoadPage` reads localStorage. `parent` and `mishap` are history: `mishap` is that
two requests of a tab used one token at once, two tabs took one token from
localStorage, or a page was reloaded during its refresh.

### Realtime
`row` is a notification with its progress in the process that created it:
inserted, emitted, and in the worker its `PUBLISH` under way. `channel` holds the
messages of `realtime:notifications` on their way to a replica, `broadcast` the
pushes the Redis adapter repeats to the other replicas; both are sets, so nothing
is ordered. Redis delivers to who is subscribed at that moment: `LoseConnection`
and `Resubscribe` are the gaps. `client` is one connection per browser, with how
often it was pushed each notification and which ones were inserted while it was
in its room; a new connection starts from zero. `HandleConnection`
joins the awaits in which a socket's token is checked and its room is joined: the
socket is in no room until then. `Restart` ends a process with its
sockets and everything it had still to send. What was lost on the way is in
`lost`, history the liveness property needs. Whether there is a queue
(`QUEUE_ENABLED`) and an adapter (`REDIS_URL`) is chosen initially.

### Feed
One reader goes through one list with `FirstPage` and `NextPage`, each the whole
of a list method: the query beyond the cursor, one row more than the limit,
`buildPage` and `encodeCursor`. Between pages rows are inserted, removed and
moved in and out of the filter by the operations which `feed`, the list being
read, has; only the notifications are marked as read, and the activity log is only
appended to. `created_at` is PostgreSQL's `now()`, the start of the
inserting transaction, so an older row may become visible after a newer one
(`BeginInsert`, `CommitInsert`). Time is counted in instants, `PerMilli` of them
in the millisecond a JavaScript `Date` and a cursor keep. `got`, `stayed` and
`ends` are history. A row that a save inserts again after its removal is left out:
its `created_at` would be cut to the millisecond, and it could be returned twice.

## 3. Runs

| Run | Instance | Shows |
|---|---|---|
| `reminders_delivery` | with and without the queue, 1 task that may come back once, 2 worker processes, a cron and a manual scan, 2 slots, 2 attempts, 1 of each outside event, two kinds of them in a behaviour | `SingleDispatch`, `DuplicateBound`, `FailedIsFinal`, `PendingIsCarried`, `ImplementsLifecycle` (the refinement) |
| `reminders_live` | fair, with and without the queue, 1 worker process, 2 executions of the cron handler, 1 slot, clock to 1, a scan fault, a crash, a lost lock and a failing `markFailed` | `NoDueSoonAfterOverdue`, `PendingIsResolved`, `OverdueIsReminded` |
| `reminders_lost` | fair, 1 scan fault | **violated**: `EveryReminderReachesQueue` |
| `tree_overlap` | 4 task ids, 2 projects, `MAX_DEPTH` 2, two requests of any kind | `LoopsAreTorn`, `ParentInProject`, `MoveRespectsDepth`, `ImplementsHierarchy` (the refinement) |
| `tree_cycle` | 2 task ids, 2 requests | **violated**: `Acyclic` |
| `notifications_inbox` | 1 task, 2 comments, 2 users, 2 overlapping requests, a removal of a comment, and an edit or 1 fault, with and without the queue | `RowsAreAccounted`, `AssigneeIsTold`, `ParentAuthorIsTold` |
| `notifications_comments` | fair, 2 comments, no fault | **violated**: `EveryCommentIsNotified` |
| `members_race` | fair, 2 users, 2 processes, 2 overlapping requests, 1 invitation | `OwnerIsAdmin`, `StaleOnlyByRace`, `SettledIsFinal`, `RemovedIsForgotten` |
| `sessions_rotate` | 1 account, 2 tabs, 2 overlapping calls, 3 tokens, any number of crashes, lost connections and reloads | `OneLiveToken`, `ClosedStaysClosed`, `TabKeepsItsSession` |
| `realtime_push` | fair, 3 replicas and the worker, 1 browser, 2 users, 2 faults, every combination of queue and adapter | `PushesAreBounded`, `DueIsOnItsWay`, `DueIsPushed` |
| `realtime_once` | 2 replicas, queue and adapter, no fault | **violated**: `PushedOnce` |
| `feed_pages` | 3 rows, pages of 1 and 2, 2 instants to a millisecond, clock to 3, four lists that together have every operation | `PagesDescend`, `SkipsOnlyWithinMillisecond` |

Every passing run also checks its module's `TypeOK`, except `reminders_live`.

Why these bounds. Reminders of different tasks share only the slots and the flags,
so one task with two overlapping scans and two slots contains every race over a
reminder; two attempts and a stalled limit of one tell a first, a middle and a last
run apart. The cron and the slots are in different processes in
`reminders_delivery`, so that one can crash without the other, and a manual scan
overlaps the cron there. Of the outside events, once each, two kinds may happen in
one behaviour, in every order (`TwoEvents`): a crash after a lost lock, an edit
before a failing scan. Once a task has come back, as an open one with a due date,
its removal is the only one of them, so that the races between the rows of two lives
are complete. In the fair run the due date passes during a scan or between two, so
the task is due soon and then overdue. A depth limit of 2 with four tasks is the
least that the depth of a new parent and the height of the moved subtree exceed
together and neither alone; both requests may be of any kind. A move below the
task's own child fails the depth check there too, with the rows of the query the
cycle check reads; larger limits, where it does not, are left to the proof. So that
the run ends in time, states with a torn task in which all four ids are used are not
followed further (`FewWhenTorn`); the proofs have no such bound. In the notification
run two requests are enough for every write of a stale column and for a second
assignment, and `Keep = 1` for a job that is still kept as well as one that was
pushed out; a comment and a reply to it are enough for a cascade. A fault and an
edit of a comment do not both happen (`FaultOrEdit`), since a fault concerns
deliveries and an edit a row. In the membership run two requests, from each of the
three initial states, are a change against a read or against another change; two
processes are one that serves a change and one that does not. Three tokens are a
login and two rotations, or two rotations of one token; two calls are a refresh
against a refresh, a logout or a login. Realtime connections do not influence each
other, so one browser, which may reconnect elsewhere as somebody else, stands for
all; with three replicas a broadcast has two addressees, and the number of copies
differs from the two paths a push can take. In a list, three rows are the last one
of a page, one it may hide and a later one; two instants in each of two milliseconds
give equal, hidden and distinct times. Symmetry is used only in runs that check
safety: slots, task ids, projects, users, processes and requests occur only
symmetrically, and so do tabs, calls and comments. Deadlock checking is off where
all requests may be done, all budgets spent or all rows used up (`TaskTree`,
`Notifications`, `Membership`, `Sessions`, `Feed`).

**Fairness** (`FairSpec` of `Reminders`, `Notifications`, `Membership` and
`Realtime`) is weak fairness of what runs without anybody's help: the clock, the
cron trigger (`@Cron`), the next statement of a started scan, request or listener
call, a slot that has something to do, the expiry of a cache entry, the emit of an
inserted notification, and the delivery of a message to a subscriber. No request,
no manual scan, no connection, no fault and no failing delivery has to happen, and
no lost connection has to come back.

### Disagreements with the documentation
* `reminders_lost`: `dispatch` inserts the row before it adds the job. A fault
  between the two leaves a `PENDING` row, and the unique key makes every later
  scan skip it, against "the queue guarantees delivery".
* `tree_cycle`: two moves that each pass the check make a cycle, against "a task
  cannot become its own ancestor". `LoopsAreTorn` says what the code keeps
  (`tree_overlap`, and proved): no circle without an overtaken save.
* `notifications_comments`: the second comment on a task has the job id of the
  first, so with the queue it is never delivered; without the queue it is.
* `realtime_once`: with the queue and `REDIS_URL`, the combination the README
  describes, every replica re-emits a notification and pushes it to a room the
  Redis adapter already shares, so a socket gets it once per replica, against "so
  this instance's gateway pushes it to the sockets it holds".

Smaller ones have no run.
* "never double-notifies, even on double cron-fire or worker restart"
  (`docs/ARCHITECTURE.md:246`) holds only as far as `DuplicateBound` and
  `ImplementsLifecycle` say: a restart between the notification and the `SENT`
  update notifies again, and so do the new reminders of a task that a save
  inserted again after its removal (`ReinsertTask`).
* `docs/ARCHITECTURE.md:277,289` scales the worker, and every replica has a cron and a
  flag of its own, as a manual scan has none. Such scans overlap: the unique key
  keeps rows single, but a due-soon reminder may be created after the overdue one
  (the exception of `NoDueSoonAfterOverdue`). In which order two jobs are delivered
  nothing in the code says.
* "Task assignment | `task.assigned` | assignee" (`docs/ARCHITECTURE.md:256`): a second
  assignment of a task to the same user has the job id of the first, and with the
  queue it is ignored while the first job is kept or dead-lettered. It counts as
  given up in `AssigneeIsTold`.
* "creator + workspace admins" hear of a completed task
  (`docs/ARCHITECTURE.md:258`); `mapTaskCompleted` notifies the creator alone.
* `docs/ARCHITECTURE.md:194,271` describe the membership cache as one in Redis. It is
  in the memory of each API process, as `docs/PERFORMANCE.md:71` says, so another
  process keeps a removed member or an old role until the entry expires
  (`StaleOnlyByRace`, `RemovedIsForgotten`).
* Without the queue the worker's cron creates notifications that have no path to a
  socket (`HasPath` in `Realtime`): they are seen when the inbox is next loaded.
* A cursor cuts `created_at` off to the millisecond, so rows of the same
  millisecond as a page's last row are on no page, against "stable under inserts"
  (`pagination.util.ts`). `SkipsOnlyWithinMillisecond` says nothing else is skipped.
* `create` checks no depth, so subtasks nest deeper than `MAX_DEPTH` when they are
  created one below the other; only moves are limited (`MoveRespectsDepth`).
* Two refreshes with one token that overlap between the read and the save of
  `rotate` both create a successor: the exception in `OneLiveToken`. A refresh that
  has passed the check also survives a logout and the revocation of its family,
  which is why `Closed` asks for no such refresh; `docs/ARCHITECTURE.md` has reuse
  revoke the whole family.
* `index.html` promises "one transparent refresh". Two requests of a page that are
  refused together refresh twice with one token, the second counts as reuse, and
  the session is revoked. A second tab, or a page reloaded during a refresh, goes
  on with a spent token. And the `catch` that logs out also covers the repeated
  request. These are the exceptions of `TabKeepsItsSession`.
* An edit that overlaps the removal of its comment inserts the comment again,
  without its replies (`EditWrite`).

## 4. Proofs

All for arbitrary constants satisfying `ConstantsAssumption` of the module
(natural bounds, at least one attempt, `None` a value of its own, finitely many
task ids, replicas, calls, requests and rows where they are counted).

`RemindersProofs`
* `TypeCorrect`: `TypeOK` is inductive.
* `SingleDispatchCorrect`: `SingleDispatch` is not inductive, since nothing in it
  says where jobs and notifications come from. `DispatchInv` adds that whatever
  has a job, a notification or a dispatching scan is *taken*: its row exists, or
  the life of its task is over (`Gone`), so `createReminder` cannot make it again. It
  rests on `RowLives`, no row belongs to a life still to come, and on `GoneStays`: a
  task comes back in a new life.
* `DuplicateBoundCorrect`: `JobInv` bounds `attemptsMade` and `stalled` by the
  job's state; `RunInv` says that a slot's run never exceeds the job's current
  one, that two slots have different runs of a job, and that every notification
  belongs to a run already started and, if its slot is still there, past the
  notification. Lost locks are included.
* `FailedIsFinalCorrect`: `FAILED` is written only by a slot at `markFailed`,
  which exists only after its job was dead-lettered with all attempts used, and a
  dead-lettered job never moves.
* `PendingIsCarriedCorrect`: nobody forgets a PENDING reminder. A scan is
  dispatching it, its job waits or is held by a slot (`Carried`), or a fault that
  has happened left it where it is (`Stuck`). `CarryInv` adds that a slot past the
  `SENT` update, or which skipped its job, has its reminder settled, so a job never
  completes with a PENDING one. What is stuck stays so (`StuckStays`), and whatever
  drops a job or a dispatch is told by the events that have happened (`Happened`).
  It is the safety core of `PendingIsResolved`: what is left to liveness is that
  what carries a reminder goes on.
* `NoDueSoonAfterOverdueCorrect`: for any processes and manual scans. `ClockInv`:
  the flag of a process is up during its cron scan (`Flagged`), so two scans in
  progress are of different handlers and marked (`Met`); what a scan has found is
  due after, or not after, the time it started at (`FoundAt`); and what has its
  overdue reminder was due when any scan in progress started, unless that scan is
  marked (`OverdueSince`).

`LifecycleProofs`
* `LifecycleImplemented`: `Spec => ImplementsLifecycle`, so in every behaviour of
  the engine each row goes through the abstract life cycle, however often its task
  is removed and inserted again. `Inv` gathers the invariants above, `LifeInv` adds
  that a row stays unsettled while a scan dispatches it and, as long as no lock was
  lost, that every working slot holds its job's lock and a slot past its check has
  an unsettled reminder. It holds because two slots in one run are the same slot
  (`OneHolder`), because a dispatching scan is alone and before any job, and because
  a dead-lettered job is not an active one. Each action is then mapped to one
  abstract step (`CreateReminderStep`, `InboxStep`, `SettleStep`, `RemoveTaskStep`,
  `LockLostStep`) or to none (`HiddenStep`).

`SessionsProofs`
* `TypeCorrect`; `OneLiveTokenCorrect` and `ClosedStaysClosedCorrect`, for any
  number of tabs, calls and tokens. `TypeInv` adds to the types which fields a
  call of each kind has. `OneLiveToken` counts live tokens and successors in the
  making; it rests on `RowsOK` (the parent of a token is an earlier one of its
  family, and revoked; a call that is to create a successor has revoked its token)
  and `ChainOK`: a family in which no token has two successors is a chain, whose
  last token alone may be live. A closed family has no call that could insert into
  it, since every insertion needs a refresh past the check of `rotate`.
* `TabKeepsItsSessionCorrect`: while there was no mishap, `TabInv` holds: a session is
  one tab's (`OneTab`), only that tab's refresh of that token is about it
  (`OwnRefresh`, `OneRefresh`), a token on its way to a tab is live (`OffersLive`),
  and a token being logged out is nobody's any more (`LogoutLeft`). So whatever
  revokes the token of a tab is the tab's own refresh. `StoredIsHeld` makes a page
  load without a mishap harmless: what it finds in `localStorage` it already had.

`TaskTreeProofs`
* `TypeCorrect`, `ParentInProjectCorrect`: for any number of overlapping
  requests. `IInv` needs `HomeInv`: there is an assignment of a project to every
  id ever used which both the rows and all that requests remember agree with, so
  a stale entity, even one saved after its removal, still names a parent of its
  own project.
* `LoopsAreTornCorrect`: for any number of requests in any overlap. `TreeInv` adds
  that while a save that was not overtaken is between the cycle check and its write,
  some set that is closed under children contains the moved task and not the new
  parent (`Apart`, `MoveSafe`); creations keep it closed, since a new id is nobody's
  parent, and removals only shrink it. A write of a parent link marks all others,
  which then owe nothing. `LoopsInsert`, `LoopsDelete` and `LoopsUpdate` say which
  circles a write leaves.
* `MoveRespectsDepthCorrect`: likewise. Descendants, ancestors and depth are least
  closed sets, not recursions, so lemmas about any parent links (`Below`, `Above`,
  `Depth`) suffice: a child is one deeper (`DepthOfChild`), and the depth of a task
  survives an insertion elsewhere, the removal of what is not above it, and the
  relinking of what is not (`DepthInsert`, `DepthDelete`, `DepthRelink`), also where
  there are circles. `DepthInv` is then inductive: from the depth check to the
  write, a new parent that still exists leaves room for the rows read, unless the
  save was overtaken (`DepthSafe`).
* `HierarchyImplemented`: `Spec => ImplementsHierarchy`, likewise.
  `InsertIsAdd`, `UpdateIsMove` and `RemoveIsRemove` map the statements that write;
  all others stutter (`UnchangedHierarchy`). `HomeInv` gives that the task's project is
  still the one the request has checked (`MayStillHang`), and `TreeInv` that the new
  parent is not below the task unless the save was overtaken (`ApartNotBelow`).

`NotificationsProofs`
* `TypeCorrect`; `RowsAreAccountedCorrect`, `AssigneeIsToldCorrect` and
  `ParentAuthorIsToldCorrect`, for any number of users, requests and faults.
  `RowsInv` adds that without the queue there is no job and nothing ignored: then
  every step leaves as many traces (`Traces`: rows, made or still to come, and
  events given up) as it emits events, and a fault at most one more (`Accounts`).
  `QueueInv` is why: a job that the queue holds as done has inserted its row.
  `SwallowedInv` says the same of what `queue.add` ignores.
* Both *told* properties count the events from before the emit on: what is asked for
  (`Asked`: emitted, still to be, or cut off by a crash) is never forgotten
  (`AskedStays`), so `RowsInv` gives each its trace (`AskedIsTold`), and without being
  asked for a notification has none (`SilentInv`).
* `AssigneeIsTold` speaks of saves, while a stale update may write any assignee it
  has loaded; `TellInv` says of a request in progress that the assignee it will
  write is its own assignment, which is among the events it will emit (`WillTell`),
  or one that was counted before (`Claim`).
* `ParentAuthorIsTold` depends on comments that are removed and inserted again.
  `ReplyInv(A)` says that there is an assignment `A` of an author to every
  comment ever written which the rows, the loaded parents of replies and the
  loaded rows of edits agree with; it grows with each new comment, whose uuid no
  row and no request knows yet. The foreign key keeps an inserted row below an
  existing parent, and `ThreadClosed` keeps a removal from leaving a reply behind.
  `NoReplyInv` says that of a reply not yet inserted nobody is asked to be told.

`MembershipProofs`
* `TypeCorrect`; and `OwnerIsAdminCorrect`, for any number of processes and
  overlapping requests. `OwnerInv` adds what the requests hold: a role read for
  the owner and not yet cached is ADMIN, and a role change or removal that has
  loaded a row has not loaded the owner's; before the workspace exists there are
  no requests and no cache entries.
* `StaleOnlyByRaceCorrect`: `CacheInv` adds that a read which is still current when
  it comes to fill the cache agrees with the table (`ReadsAgree`).
* `SettledIsFinalCorrect`: an invitation is written only by a request that *holds*
  it, having found it pending (`Holds`), and a request comes to hold only a pending
  one; commits are those of acceptances (`CommitsAccept`).

`RealtimeProofs`
* `TypeCorrect`; and `PushesAreBoundedCorrect`, for any number of replicas,
  browsers, notifications and faults. Pushes counted are not inductive alone:
  `PushInv` adds, for the replica a connection is at, the set `Ahead` of the
  replicas whose push may still reach it, and says that pushes made and `Ahead`
  together never exceed `Copies`. Each delivery takes a replica out of that set
  or moves it from the channel to the broadcast.
* `DueIsOnItsWayCorrect`: the safety core of `DueIsPushed`. `DueInv` adds that what is
  due to a socket is for the user whose room it is in, so a push of its replica
  reaches it (`PushReaches`); a push elsewhere is repeated to its replica, or the
  adapter misses one and the notification counts as lost (`ReplicaPushes`).

`FeedProofs`
* `TypeCorrect`; and `PagesDescendCorrect`, for any rows, page sizes and
  `PerMilli`. `PassedInv` says that whatever was returned is not beyond the
  cursor and keeps its `created_at`; it rests on `Milliseconds(t) <= t`: cutting
  off can only hide rows, never repeat them.
* `SkipsOnlyWithinMillisecondCorrect`: a page is a prefix of the rows fetched
  (`PageIsPrefix`), and full where it leaves one out (`FirstIsFull`: of the rows
  left out take one with the fewest rows above it, strict inclusion of finite sets
  being well-founded). So a row passed over lies between the last row of a page and its
  cursor, and `SameMillisecond` says that only a millisecond lies between these.

Only model-checked: liveness (`PendingIsResolved`, `OverdueIsReminded`,
`RemovedIsForgotten`, `DueIsPushed`), out of the prover's reach. Every invariant
and action property of a passing run is proved, and so are both refinements, from
`ConstantsAssumption` alone: no theorem assumes anything of how many requests,
scans or processes there are or of which of them overlap, but that there are
finitely many where they are counted.

## 5. Not modelled, and the plan

Left out for good: HTTP validation, throttling, logging, metrics, health, hashes
and signatures, the user interface (no protocol of their own); profiles of users,
names, texts and other columns no property is about.

Left out so far: what a removed task does to undelivered events and to its
comments; which events the activity listener records (its rows and their list are
in `Feed`); what marking a notification as read answers.

Next: the activity listener, which receives the same events as the notification
listener; the removal of a task under comments, replies and undelivered events.

A property of an existing module joins the run of that module, so that each run
keeps asking one question of one part of the system.
