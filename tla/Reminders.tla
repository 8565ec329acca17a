------------------------------ MODULE Reminders ------------------------------
(***************************************************************************)
(* The reminder engine: the scan over open tasks with a due date           *)
(* (reminders.service.ts), its cron driver (scheduler.service.ts) and      *)
(* manual trigger (reminders.controller.ts), and the worker that delivers  *)
(* the enqueued reminders (reminder.processor.ts), over the PostgreSQL     *)
(* tables tasks, reminders and notifications and the BullMQ queue          *)
(* "reminders".                                                            *)
(*                                                                         *)
(* Every await of the code is a boundary between two actions.  Each SQL    *)
(* statement is atomic and durable; so is each queue operation.            *)
(***************************************************************************)
EXTENDS Integers, FiniteSets

CONSTANTS
  Tasks,          \* task ids
  Users,          \* possible assignees
  DueDates,       \* due dates a request may set
  Hosts,          \* worker processes; every one runs the cron and some slots
  Cron,           \* executions of the cron handlers that may be alive at once
  Manual,         \* concurrent POST /reminders/scan requests
  Workers,        \* processor slots (concurrency: 5 in each worker process)
  Host,           \* the worker process of an execution or a slot
  MaxLife,        \* bound on how often one task is inserted again
  MaxTime,        \* bound on the clock
  Window,         \* DUE_SOON_WINDOW_MS
  Attempts,       \* the job option attempts: 5
  StalledLimit,   \* BullMQ's maxStalledCount (1 by default)
  Queues,         \* the values QUEUE_ENABLED may have
  Budget,         \* how many times each kind of outside event may happen
  None            \* SQL NULL / undefined

Scans == Cron \cup Manual

ReminderType == {"DUE_SOON", "OVERDUE"}

\* The unique key of the table reminders.
UniqueKey == [task : Tasks, type : ReminderType, scheduledFor : DueDates]

\* A save may insert a removed task again, with its id: its lives are counted.
Lives == 0 .. MaxLife

\* A row of reminders: its unique key, and in which life of its task it was
\* inserted.  This stands for the row's uuid: the unique index keeps out a
\* second row of one life, and a removal deletes the rows of the life it ends.
ReminderKey ==
  [task : Tasks, type : ReminderType, scheduledFor : DueDates, life : Lives]

\* A scanned task as RemindersService holds it: the unique key of its reminder
\* and its assignee; with the id createReminder returns, once it has inserted it.
Item == [unique : UniqueKey, to : Users \cup {None}]

Dispatch == [key : ReminderKey, to : Users \cup {None}]

\* The outside events: requests that change a task, exceptions in a scan,
\* crashes of the worker process, lost job locks, failing markFailed calls.
Event == {"edit", "scan", "crash", "lock", "mark"}

ASSUME ConstantsAssumption ==
  /\ DueDates \subseteq Nat /\ MaxTime \in Nat /\ Window \in Nat
  /\ Attempts \in Nat \ {0} /\ StalledLimit \in Nat
  /\ Queues \subseteq BOOLEAN
  /\ Budget \in [Event -> Nat]
  /\ None \notin Users \cup DueDates \cup ReminderKey \cup Dispatch
  /\ Cron \cap Manual = {}
  /\ Host \in [Cron \cup Workers -> Hosts]
  /\ MaxLife \in Nat

VARIABLES
  queueEnabled,  \* QUEUE_ENABLED: whether RemindersService has a queue
  now,        \* the wall clock
  tasks,      \* the table tasks: status, dueDate and assigneeId of each id, and
              \* how often the id was inserted again
  reminders,  \* the table reminders
  inbox,      \* notification rows created for a reminder, by delivery run
  jobs,       \* the queue: one job per reminder (jobId = reminderId)
  scan,       \* the scans in progress
  running,    \* SchedulerService.running of each worker process
  worker,     \* the processor slots
  budget      \* outside events left

vars == <<queueEnabled, now, tasks, reminders, inbox, jobs, scan, running, worker, budget>>

TaskRow == [status : {"absent", "open", "closed", "gone"},
            due : DueDates \cup {None}, assignee : Users \cup {None}, life : Lives]

ReminderRow == [status : {"none", "PENDING", "SENT", "FAILED"}, attempts : Nat]

Notification == [key : ReminderKey, run : Nat, to : Users]

Job == [state : {"none", "waiting", "active", "completed", "failed"},
        attemptsMade : Nat, stalled : Nat]

ScanState ==
  {c \in [pc : {"idle", "queryDueSoon", "queryOverdue", "loop", "dispatch", "markSent"},
          at : Nat, dueSoon : SUBSET Item, overdue : SUBSET Item,
          cur : Dispatch \cup {None}, overlapped : BOOLEAN] :
     c.pc \in {"dispatch", "markSent"} => c.cur # None}

WorkerState ==
  {c \in [pc : {"idle", "find", "task", "notify", "update", "skipped", "sent", "markFailed"},
          key : ReminderKey \cup {None}, run : Nat, attempts : Nat, to : Users \cup {None}] :
     (c.pc # "idle" => c.key # None) /\ (c.pc = "notify" => c.to # None)}

\* overlapped is a history variable: whether the scan has overlapped one that
\* is not of the same cron handler.
IdleScan == [pc |-> "idle", at |-> 0, dueSoon |-> {}, overdue |-> {}, cur |-> None,
             overlapped |-> FALSE]

Slot(pc, k, run) == [pc |-> pc, key |-> k, run |-> run, attempts |-> 0, to |-> None]

IdleWorker == Slot("idle", None, 0)

NoTask == [status |-> "absent", due |-> None, assignee |-> None, life |-> 0]

NoRow == [status |-> "none", attempts |-> 0]

NoJob == [state |-> "none", attemptsMade |-> 0, stalled |-> 0]

Init ==
  /\ queueEnabled \in Queues
  /\ now = 0
  /\ tasks = [t \in Tasks |-> NoTask]
  /\ reminders = [k \in ReminderKey |-> NoRow]
  /\ inbox = {}
  /\ jobs = [k \in ReminderKey |-> NoJob]
  /\ scan = [s \in Scans |-> IdleScan]
  /\ running = [h \in Hosts |-> FALSE]
  /\ worker = [w \in Workers |-> IdleWorker]
  /\ budget = Budget

Spend(e) == budget[e] > 0 /\ budget' = [budget EXCEPT ![e] = @ - 1]

-----------------------------------------------------------------------------
(* Time and the requests that change tasks.                                *)

Tick ==
  /\ now < MaxTime
  /\ now' = now + 1
  /\ UNCHANGED <<queueEnabled, tasks, reminders, inbox, jobs, scan, running, worker, budget>>

\* TasksService.create: a fresh id, status TODO.
CreateTask(t, due, assignee) ==
  /\ tasks[t].status = "absent"
  /\ tasks' = [tasks EXCEPT ![t] = [status |-> "open", due |-> due, assignee |-> assignee,
                                    life |-> @.life]]
  /\ UNCHANGED <<queueEnabled, now, reminders, inbox, jobs, scan, running, worker, budget>>

\* The save of TasksService.update or moveTask finds the task and writes the
\* columns that differ from the entity the request loaded and changed; that
\* may be an old one, so any values.  "closed" is DONE or CANCELLED.
UpdateTask(t, status, due, assignee) ==
  /\ tasks[t].status \in {"open", "closed"}
  /\ tasks' = [tasks EXCEPT ![t] = [status |-> status, due |-> due, assignee |-> assignee,
                                    life |-> @.life]]
  /\ Spend("edit")
  /\ UNCHANGED <<queueEnabled, now, reminders, inbox, jobs, scan, running, worker>>

\* The task was removed after the request loaded it: the save does not find
\* it, and inserts it again.
ReinsertTask(t, status, due, assignee) ==
  /\ tasks[t].status = "gone"
  /\ tasks[t].life < MaxLife
  /\ tasks' = [tasks EXCEPT ![t] = [status |-> status, due |-> due, assignee |-> assignee,
                                    life |-> @.life + 1]]
  /\ UNCHANGED <<queueEnabled, now, reminders, inbox, jobs, scan, running, worker, budget>>

\* TasksService.remove: the foreign key deletes the task's reminders too.
RemoveTask(t) ==
  /\ tasks[t].status \in {"open", "closed"}
  /\ tasks' = [tasks EXCEPT ![t] = [status |-> "gone", due |-> None, assignee |-> None,
                                    life |-> @.life]]
  /\ reminders' = [k \in ReminderKey |-> IF k.task = t THEN NoRow ELSE reminders[k]]
  /\ Spend("edit")
  /\ UNCHANGED <<queueEnabled, now, inbox, jobs, scan, running, worker>>

TaskRequest ==
  \E t \in Tasks :
    \/ \E due \in DueDates \cup {None}, u \in Users \cup {None} :
         \/ CreateTask(t, due, u)
         \/ \E st \in {"open", "closed"} : UpdateTask(t, st, due, u) \/ ReinsertTask(t, st, due, u)
    \/ RemoveTask(t)

-----------------------------------------------------------------------------
(* The scan.                                                               *)

\* Executions of one process's cron handler.
SameHandler(r, s) == r \in Cron /\ s \in Cron /\ Host[r] = Host[s]

InProgress(s) == scan[s].pc # "idle"

\* The start of RemindersService.scan: the clock is read once.
StartScan(s) ==
  scan' = [r \in Scans |->
    IF r = s
      THEN [IdleScan EXCEPT !.pc = "queryDueSoon", !.at = now,
              !.overlapped = \E q \in Scans : InProgress(q) /\ ~SameHandler(q, s)]
      ELSE [scan[r] EXCEPT !.overlapped = @ \/ (InProgress(r) /\ ~SameHandler(r, s))]]

HandleReminderScanUnguarded(s) ==
  /\ s \in Cron
  /\ ~InProgress(s)
  /\ running' = [running EXCEPT ![Host[s]] = TRUE]
  /\ StartScan(s)
  /\ UNCHANGED <<queueEnabled, now, tasks, reminders, inbox, jobs, worker, budget>>

\* SchedulerService.handleReminderScan: skipped while the previous one of the
\* same process runs.
HandleReminderScan(s) ==
  /\ s \in Cron
  /\ ~InProgress(s)
  /\ ~running[Host[s]]
  /\ running' = [running EXCEPT ![Host[s]] = TRUE]
  /\ StartScan(s)
  /\ UNCHANGED <<queueEnabled, now, tasks, reminders, inbox, jobs, worker, budget>>

\* RemindersController.scan: nothing keeps it from overlapping another scan.
ManualScan(s) ==
  /\ s \in Manual
  /\ ~InProgress(s)
  /\ StartScan(s)
  /\ UNCHANGED <<queueEnabled, now, tasks, reminders, inbox, jobs, running, worker, budget>>

\* openTasks: due_date IS NOT NULL and status not DONE or CANCELLED.
OpenTasks == {t \in Tasks : tasks[t].status = "open" /\ tasks[t].due # None}

ItemsOf(ts, type) ==
  {[unique |-> [task |-> t, type |-> type, scheduledFor |-> tasks[t].due],
    to     |-> tasks[t].assignee] : t \in ts}

QueryDueSoon(s) ==
  /\ scan[s].pc = "queryDueSoon"
  /\ scan' = [scan EXCEPT
       ![s].pc = "queryOverdue",
       ![s].dueSoon = ItemsOf({t \in OpenTasks : /\ tasks[t].due > scan[s].at
                                                 /\ tasks[t].due <= scan[s].at + Window},
                              "DUE_SOON")]
  /\ UNCHANGED <<queueEnabled, now, tasks, reminders, inbox, jobs, running, worker, budget>>

QueryOverdue(s) ==
  /\ scan[s].pc = "queryOverdue"
  /\ scan' = [scan EXCEPT
       ![s].pc = "loop",
       ![s].overdue = ItemsOf({t \in OpenTasks : tasks[t].due <= scan[s].at}, "OVERDUE")]
  /\ UNCHANGED <<queueEnabled, now, tasks, reminders, inbox, jobs, running, worker, budget>>

\* The scan returns or throws; the cron handler's finally clears its flag.
EndScan(s) ==
  /\ scan' = [scan EXCEPT ![s] = IdleScan]
  /\ running' = IF s \in Cron THEN [running EXCEPT ![Host[s]] = FALSE] ELSE running

\* The items the two for loops of scan may dispatch next: due soon first.
NextItems(s) == IF scan[s].dueSoon # {} THEN scan[s].dueSoon ELSE scan[s].overdue

Unique(k) == [task |-> k.task, type |-> k.type, scheduledFor |-> k.scheduledFor]

\* The row an INSERT of a unique key creates.
NewRow(u) == [task |-> u.task, type |-> u.type, scheduledFor |-> u.scheduledFor,
              life |-> tasks[u.task].life]

ConflictWithoutUniqueKey(u) == FALSE

\* The unique index on (taskId, type, scheduledFor).
Conflict(u) == \E k \in ReminderKey : Unique(k) = u /\ reminders[k].status # "none"

\* createReminder, called by dispatch: INSERT ... ON CONFLICT DO NOTHING.  A
\* task deleted since the query violates the foreign key, which ON CONFLICT
\* does not absorb: the scan throws.
CreateReminder(s) ==
  /\ scan[s].pc = "loop"
  /\ \E i \in NextItems(s) :
       \/ /\ tasks[i.unique.task].status = "gone"
          /\ EndScan(s)
          /\ UNCHANGED reminders
       \/ /\ tasks[i.unique.task].status # "gone"
          /\ Conflict(i.unique)
          /\ scan' = [scan EXCEPT ![s].dueSoon = @ \ {i}, ![s].overdue = @ \ {i}]
          /\ UNCHANGED <<reminders, running>>
       \/ /\ tasks[i.unique.task].status # "gone"
          /\ ~Conflict(i.unique)
          /\ reminders' = [reminders EXCEPT ![NewRow(i.unique)].status = "PENDING"]
          /\ scan' = [scan EXCEPT ![s].dueSoon = @ \ {i}, ![s].overdue = @ \ {i},
                                  ![s].cur = [key |-> NewRow(i.unique), to |-> i.to],
                                  ![s].pc = "dispatch"]
          /\ UNCHANGED running
  /\ UNCHANGED <<queueEnabled, now, tasks, inbox, jobs, worker, budget>>

\* dispatch with a queue: queue.add ignores a jobId it already holds.
Enqueue(s) ==
  LET k == scan[s].cur.key IN
  /\ queueEnabled
  /\ scan[s].pc = "dispatch"
  /\ jobs' = IF jobs[k].state = "none"
               THEN [jobs EXCEPT ![k].state = "waiting"] ELSE jobs
  /\ scan' = [scan EXCEPT ![s].pc = "loop", ![s].cur = None]
  /\ UNCHANGED <<queueEnabled, now, tasks, reminders, inbox, running, worker, budget>>

\* notifyAssignee: a notification row, here tagged with the delivery run that
\* created it (run 0 is the only one of the in-process path).
NotifyAssignee(k, run, to) == inbox' = inbox \cup {[key |-> k, run |-> run, to |-> to]}

\* dispatch without a queue: notify the assignee the scan has read ...
DispatchInProcess(s) ==
  /\ ~queueEnabled
  /\ scan[s].pc = "dispatch"
  /\ IF scan[s].cur.to # None
       THEN NotifyAssignee(scan[s].cur.key, 0, scan[s].cur.to)
       ELSE UNCHANGED inbox
  /\ scan' = [scan EXCEPT ![s].pc = "markSent"]
  /\ UNCHANGED <<queueEnabled, now, tasks, reminders, jobs, running, worker, budget>>

\* An UPDATE by id: nothing happens when the row is gone.
UpdateRow(k, row) ==
  reminders' = IF reminders[k].status = "none" THEN reminders
                                               ELSE [reminders EXCEPT ![k] = row]

\* ... then mark the reminder SENT.
MarkSentInProcess(s) ==
  LET k == scan[s].cur.key IN
  /\ scan[s].pc = "markSent"
  /\ UpdateRow(k, [reminders[k] EXCEPT !.status = "SENT"])
  /\ scan' = [scan EXCEPT ![s].pc = "loop", ![s].cur = None]
  /\ UNCHANGED <<queueEnabled, now, tasks, inbox, jobs, running, worker, budget>>

FinishScan(s) ==
  /\ scan[s].pc = "loop"
  /\ NextItems(s) = {}
  /\ EndScan(s)
  /\ UNCHANGED <<queueEnabled, now, tasks, reminders, inbox, jobs, worker, budget>>

ScanFaultWithoutFinally(s) ==
  /\ InProgress(s)
  /\ Spend("scan")
  /\ scan' = [scan EXCEPT ![s] = IdleScan]
  /\ UNCHANGED <<queueEnabled, now, tasks, reminders, inbox, jobs, running, worker>>

\* An exception in any step of a scan (the database or Redis unreachable), or
\* for a manual scan the API process dying.
ScanFault(s) ==
  /\ InProgress(s)
  /\ Spend("scan")
  /\ EndScan(s)
  /\ UNCHANGED <<queueEnabled, now, tasks, reminders, inbox, jobs, worker>>

ScanStep(s) ==
  \/ QueryDueSoon(s) \/ QueryOverdue(s) \/ CreateReminder(s) \/ Enqueue(s)
  \/ DispatchInProcess(s) \/ MarkSentInProcess(s) \/ FinishScan(s)

-----------------------------------------------------------------------------
(* The worker.  A job's delivery runs are numbered by how often it was     *)
(* retried or taken back, so a slot holds the job's lock iff the job is    *)
(* active in the slot's own run.                                           *)

Run(k) == jobs[k].attemptsMade + jobs[k].stalled

HoldsLock(w) ==
  jobs[worker[w].key].state = "active" /\ Run(worker[w].key) = worker[w].run

\* A job that stalled too often is not processed again.
Stalled(k) == jobs[k].stalled > StalledLimit

\* BullMQ hands a waiting job to an idle slot, which calls process(job).
TakeJob(w, k) ==
  /\ worker[w].pc = "idle"
  /\ jobs[k].state = "waiting"
  /\ ~Stalled(k)
  /\ jobs' = [jobs EXCEPT ![k].state = "active"]
  /\ worker' = [worker EXCEPT ![w] = Slot("find", k, Run(k))]
  /\ UNCHANGED <<queueEnabled, now, tasks, reminders, inbox, scan, running, budget>>

SettledIfGone(row) == row.status = "none"

\* deliverReminder has nothing to do for a missing or SENT reminder.
Settled(row) == row.status \in {"none", "SENT"}

FindReminder(w) ==
  LET row == reminders[worker[w].key] IN
  /\ worker[w].pc = "find"
  /\ worker' = IF Settled(row)
                 THEN [worker EXCEPT ![w].pc = "skipped"]
                 ELSE [worker EXCEPT ![w].pc = "task", ![w].attempts = row.attempts]
  /\ UNCHANGED <<queueEnabled, now, tasks, reminders, inbox, jobs, scan, running, budget>>

FindTaskUnchecked(w) ==
  /\ worker[w].pc = "task"
  /\ worker' = [worker EXCEPT ![w].pc = "notify",
                              ![w].to = tasks[worker[w].key.task].assignee]
  /\ UNCHANGED <<queueEnabled, now, tasks, reminders, inbox, jobs, scan, running, budget>>

\* task?.assigneeId: a missing or unassigned task skips the notification.
FindTask(w) ==
  LET to == tasks[worker[w].key.task].assignee IN
  /\ worker[w].pc = "task"
  /\ worker' = [worker EXCEPT ![w].pc = IF to = None THEN "update" ELSE "notify",
                              ![w].to = to]
  /\ UNCHANGED <<queueEnabled, now, tasks, reminders, inbox, jobs, scan, running, budget>>

Notify(w) ==
  /\ worker[w].pc = "notify"
  /\ NotifyAssignee(worker[w].key, worker[w].run, worker[w].to)
  /\ worker' = [worker EXCEPT ![w].pc = "update"]
  /\ UNCHANGED <<queueEnabled, now, tasks, reminders, jobs, scan, running, budget>>

UpdateSent(w) ==
  /\ worker[w].pc = "update"
  /\ UpdateRow(worker[w].key, [status |-> "SENT", attempts |-> worker[w].attempts + 1])
  /\ worker' = [worker EXCEPT ![w].pc = "sent"]
  /\ UNCHANGED <<queueEnabled, now, tasks, inbox, jobs, scan, running, budget>>

\* process returned: BullMQ completes the job, unless the lock is lost.
CompleteJob(w) ==
  /\ worker[w].pc \in {"skipped", "sent"}
  /\ jobs' = IF HoldsLock(w) THEN [jobs EXCEPT ![worker[w].key].state = "completed"]
                             ELSE jobs
  /\ worker' = [worker EXCEPT ![w] = IdleWorker]
  /\ UNCHANGED <<queueEnabled, now, tasks, reminders, inbox, scan, running, budget>>

ExhaustedOneLate(attemptsMade) == attemptsMade > Attempts

\* Whether a job has used the attempts dispatch gave it.
Exhausted(attemptsMade) == attemptsMade >= Attempts

OnFailedAlways(w, k, attemptsMade) ==
  worker' = [worker EXCEPT ![w] = Slot("markFailed", k, 0)]

OnFailedOneLate(w, k, attemptsMade) ==
  worker' = [worker EXCEPT ![w] =
    IF attemptsMade > Attempts THEN Slot("markFailed", k, 0) ELSE IdleWorker]

\* onFailed: only a job out of attempts goes on to markFailed.
OnFailed(w, k, attemptsMade) ==
  worker' = [worker EXCEPT ![w] =
    IF Exhausted(attemptsMade) THEN Slot("markFailed", k, 0) ELSE IdleWorker]

\* process threw, before or after the effect of the statement it was at: the
\* job is retried (after a backoff) or, out of attempts, dead-lettered, and
\* the failed event fires.  A slot without the lock changes nothing.
JobFails(w) ==
  LET k    == worker[w].key
      made == jobs[k].attemptsMade + 1
  IN
  /\ worker[w].pc \in {"find", "task", "notify", "update", "sent"}
  /\ IF HoldsLock(w)
       THEN /\ jobs' = [jobs EXCEPT ![k].attemptsMade = made,
                          ![k].state = IF Exhausted(made) THEN "failed" ELSE "waiting"]
            /\ OnFailed(w, k, made)
       ELSE /\ worker' = [worker EXCEPT ![w] = IdleWorker]
            /\ UNCHANGED jobs
  /\ UNCHANGED <<queueEnabled, now, tasks, reminders, inbox, scan, running, budget>>

\* A job over the stalled limit fails as soon as a slot picks it up, however
\* many attempts it has left.
FailStalled(w, k) ==
  LET made == jobs[k].attemptsMade + 1 IN
  /\ worker[w].pc = "idle"
  /\ jobs[k].state = "waiting"
  /\ Stalled(k)
  /\ jobs' = [jobs EXCEPT ![k].attemptsMade = made, ![k].state = "failed"]
  /\ OnFailed(w, k, made)
  /\ UNCHANGED <<queueEnabled, now, tasks, reminders, inbox, scan, running, budget>>

MarkFailed(w) ==
  LET k == worker[w].key IN
  /\ worker[w].pc = "markFailed"
  /\ UpdateRow(k, [status |-> "FAILED", attempts |-> jobs[k].attemptsMade])
  /\ worker' = [worker EXCEPT ![w] = IdleWorker]
  /\ UNCHANGED <<queueEnabled, now, tasks, inbox, jobs, scan, running, budget>>

\* markFailed itself throws: nobody calls it again.
MarkFailedFault(w) ==
  /\ worker[w].pc = "markFailed"
  /\ Spend("mark")
  /\ worker' = [worker EXCEPT ![w] = IdleWorker]
  /\ UNCHANGED <<queueEnabled, now, tasks, reminders, inbox, jobs, scan, running>>

\* The job is taken back from slots whose lock is not renewed.
StalledBack(j) == [j EXCEPT !.state = "waiting", !.stalled = @ + 1]

\* A live slot fails to renew its lock in time; it goes on all the same.
LockLost(w) ==
  /\ worker[w].pc \notin {"idle", "markFailed"}
  /\ HoldsLock(w)
  /\ Spend("lock")
  /\ jobs' = [jobs EXCEPT ![worker[w].key] = StalledBack(@)]
  /\ UNCHANGED <<queueEnabled, now, tasks, reminders, inbox, scan, running, worker>>

\* A worker process dies and restarts: its cron scan, its slots and its flag
\* running are lost, and the jobs its slots hold the locks of stall.
Crash(h) ==
  /\ Spend("crash")
  /\ worker' = [w \in Workers |-> IF Host[w] = h THEN IdleWorker ELSE worker[w]]
  /\ scan' = [s \in Scans |-> IF s \in Cron /\ Host[s] = h THEN IdleScan ELSE scan[s]]
  /\ running' = [running EXCEPT ![h] = FALSE]
  /\ jobs' = [k \in ReminderKey |->
                IF \E w \in Workers : Host[w] = h /\ worker[w].key = k /\ HoldsLock(w)
                  THEN StalledBack(jobs[k]) ELSE jobs[k]]
  /\ UNCHANGED <<queueEnabled, now, tasks, reminders, inbox>>

WorkerStep(w) ==
  \/ \E k \in ReminderKey : TakeJob(w, k) \/ FailStalled(w, k)
  \/ FindReminder(w) \/ FindTask(w) \/ Notify(w) \/ UpdateSent(w)
  \/ CompleteJob(w) \/ MarkFailed(w)

Next ==
  \/ Tick
  \/ TaskRequest
  \/ \E s \in Scans : HandleReminderScan(s) \/ ManualScan(s) \/ ScanStep(s) \/ ScanFault(s)
  \/ \E w \in Workers : WorkerStep(w) \/ JobFails(w) \/ MarkFailedFault(w) \/ LockLost(w)
  \/ \E h \in Hosts : Crash(h)

Spec == Init /\ [][Next]_vars

\* The clock advances, the cron keeps firing, a scan in progress and a slot
\* with something to do make progress.  No request, no manual scan, no fault
\* and no failing delivery has to happen.
Fairness ==
  /\ WF_vars(Tick)
  /\ \A s \in Cron : WF_vars(HandleReminderScan(s))
  /\ \A s \in Scans : WF_vars(ScanStep(s))
  /\ \A w \in Workers : WF_vars(WorkerStep(w))

FairSpec == Spec /\ Fairness

-----------------------------------------------------------------------------
(* Properties.                                                             *)

TypeOK ==
  /\ queueEnabled \in BOOLEAN
  /\ now \in Nat
  /\ tasks \in [Tasks -> TaskRow]
  /\ reminders \in [ReminderKey -> ReminderRow]
  /\ inbox \subseteq Notification
  /\ jobs \in [ReminderKey -> Job]
  /\ scan \in [Scans -> ScanState]
  /\ running \in [Hosts -> BOOLEAN]
  /\ worker \in [Workers -> WorkerState]
  /\ budget \in [Event -> Nat]

Dispatching(s, k) == scan[s].pc \in {"dispatch", "markSent"} /\ scan[s].cur.key = k

\* However scans overlap, crash or repeat, one row of reminders is dispatched
\* by at most one scan, and not again once it has a job or, in-process, a
\* notification: the unique key and the null check on the returned id
\* (dispatch and createReminder) make the scan idempotent.  A removal takes
\* the rows, so a task that a save inserts again gets new ones.
SingleDispatch ==
  \A s \in Scans, k \in ReminderKey :
    Dispatching(s, k) =>
      /\ \A r \in Scans \ {s} : ~Dispatching(r, k)
      /\ jobs[k].state = "none"
      /\ scan[s].pc = "dispatch" => \A n \in inbox : n.key # k

\* The duplicates at-least-once delivery may produce are bounded: a slot about
\* to notify is in a run that has not notified yet, two slots are never in the
\* same run of a job, and runs are limited by the attempts of dispatch and by
\* BullMQ's stalled limit -- with lost locks too.
DuplicateBound ==
  /\ \A n \in inbox : n.run < Attempts + StalledLimit
  /\ \A w \in Workers : worker[w].pc = "notify" =>
       \A n \in inbox : ~(n.key = worker[w].key /\ n.run = worker[w].run)
  /\ \A v, w \in Workers : v # w /\ {worker[v].pc, worker[w].pc} \cap {"idle", "markFailed"} = {}
       => ~(worker[v].key = worker[w].key /\ worker[v].run = worker[w].run)

\* The outside events e that have happened so far.
Happened(e) == budget[e] < Budget[e]

\* A reminder is deleted when the task is removed in whose life it belongs.
Gone(k) == \/ k.life < tasks[k.task].life
           \/ k.life = tasks[k.task].life /\ tasks[k.task].status = "gone"

\* Every row of reminders follows the abstract life cycle, whatever overlaps,
\* crashes and is retried: it is created once, and only when no other row of
\* its unique key exists; it is notified by distinct runs, never before it
\* exists nor, until some live slot loses its lock, once it is settled; once
\* deleted it stays so, and what a task gets that a save inserts again is
\* another row (createReminder, deliverReminder, the check that opens it,
\* markFailed).
Lifecycle == INSTANCE ReminderLifecycle WITH
  Keys     <- ReminderKey,
  Rivals   <- [k \in ReminderKey |-> {j \in ReminderKey : Unique(j) = Unique(k)}],
  Runs     <- 0 .. Attempts + StalledLimit - 1,
  state    <- [k \in ReminderKey |-> IF Gone(k) THEN "deleted" ELSE reminders[k].status],
  told     <- [k \in ReminderKey |-> {n.run : n \in {m \in inbox : m.key = k}}],
  lockLost <- Happened("lock")

ImplementsLifecycle == Lifecycle!Spec

\* A reminder is FAILED only when its job sits dead-lettered with every
\* attempt used (onFailed), so FAILED is never a transient state of a retry.
FailedIsFinal ==
  \A k \in ReminderKey : reminders[k].status = "FAILED" =>
    jobs[k].state = "failed" /\ jobs[k].attemptsMade >= Attempts

\* A task's DUE_SOON reminder is not created once it has the OVERDUE one for
\* the same due date, unless the scan that creates it has overlapped a manual
\* scan or one of another worker process: the flag running serialises the
\* scans of a process, finally and a restart clear it, and scan reads its clock
\* once.  What the assignee hears first is left to the queue.
NoDueSoonAfterOverdue ==
  [][\A soon, over \in ReminderKey :
       /\ soon = [over EXCEPT !.type = "DUE_SOON"]
       /\ over.type = "OVERDUE" /\ reminders[over].status # "none"
       /\ reminders[soon].status = "none" /\ reminders'[soon].status # "none"
       => \E s \in Scans : scan'[s].cur # None /\ scan'[s].cur.key = soon /\ scan[s].overlapped
    ]_vars

\* Nobody forgets a PENDING reminder, at any moment: a scan is dispatching it,
\* its job waits or is in a slot that holds its lock, or a slot is about to
\* mark it FAILED.  It is stuck only after a scan was cut short before
\* queue.add, after markFailed was, or with a job that BullMQ gave up as
\* stalled: that one fails with attempts left, so onFailed passes it over.
Carried(k) ==
  \/ \E s \in Scans : Dispatching(s, k)
  \/ jobs[k].state = "waiting"
  \/ \E w \in Workers : worker[w].key = k /\ (worker[w].pc = "markFailed" \/ HoldsLock(w))

Stuck(k) ==
  \/ jobs[k].state = "none" /\ (Happened("scan") \/ Happened("crash"))
  \/ jobs[k].state = "failed" /\ (Stalled(k) \/ Happened("crash") \/ Happened("mark"))

PendingIsCarried ==
  \A k \in ReminderKey : reminders[k].status = "PENDING" => Carried(k) \/ Stuck(k)

\* A created reminder does not stay PENDING for ever, however its deliveries
\* fail, unless it is stuck for one of these reasons: it becomes SENT or
\* FAILED, or is deleted (dispatch, deliverReminder, onFailed).
PendingIsResolved ==
  \A k \in ReminderKey :
    reminders[k].status = "PENDING" ~> reminders[k].status # "PENDING" \/ Stuck(k)

\* A task left open past its due date gets its OVERDUE reminder, whatever
\* faults interrupt the scans: the cron handler always clears its flag and
\* scans again.  That the reminder reaches its job is not part of it.
OverdueIsReminded ==
  \A t \in Tasks, d \in DueDates :
    LET late == tasks[t].status = "open" /\ tasks[t].due = d /\ now >= d
        made == \E k \in ReminderKey : /\ k.task = t /\ k.type = "OVERDUE" /\ k.scheduledFor = d
                                        /\ reminders[k].status # "none"
    IN  late ~> (~late \/ made)

\* docs/ARCHITECTURE.md: "At-least-once + dedup -- the queue guarantees
\* delivery": a reminder that was created reaches the queue, or is deleted
\* with its task.
EveryReminderReachesQueue ==
  \A k \in ReminderKey :
    reminders[k].status = "PENDING" ~> (jobs[k].state # "none" \/ reminders[k].status = "none")
=============================================================================
