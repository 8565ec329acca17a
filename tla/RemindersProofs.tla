--------------------------- MODULE RemindersProofs ---------------------------
(***************************************************************************)
(* Theorems about Reminders, for every value of its constants.             *)
(***************************************************************************)
EXTENDS Reminders, TLAPS

-----------------------------------------------------------------------------
(* Typing.                                                                 *)

\* The records the state starts with, and returns to, are of their types.
LEMMA RecordTypes ==
  /\ IdleScan \in ScanState /\ IdleWorker \in WorkerState
  /\ NoTask \in TaskRow /\ NoRow \in ReminderRow /\ NoJob \in Job
<1>1. IdleScan \in ScanState
  BY DEF IdleScan, ScanState
<1>2. IdleWorker \in WorkerState
  BY DEF IdleWorker, Slot, WorkerState
<1>3. NoTask \in TaskRow /\ NoRow \in ReminderRow /\ NoJob \in Job
  BY ConstantsAssumption
  DEF ConstantsAssumption, NoTask, TaskRow, Lives, NoRow, ReminderRow, NoJob, Job
<1> QED
  BY <1>1, <1>2, <1>3

LEMMA InitTypeOK == Init => TypeOK
<1> SUFFICES ASSUME Init PROVE TypeOK
  OBVIOUS
<1>1. /\ now \in Nat /\ running \in [Hosts -> BOOLEAN] /\ inbox \subseteq Notification
      /\ queueEnabled \in BOOLEAN
  BY ConstantsAssumption DEF ConstantsAssumption, Init
<1>2. tasks \in [Tasks -> TaskRow] /\ scan \in [Scans -> ScanState]
      /\ worker \in [Workers -> WorkerState]
  BY RecordTypes DEF Init
<1>3. reminders \in [ReminderKey -> ReminderRow] /\ jobs \in [ReminderKey -> Job]
  BY RecordTypes DEF Init
<1>4. budget \in [Event -> Nat]
  BY ConstantsAssumption DEF ConstantsAssumption, Init
<1> QED
  BY <1>1, <1>2, <1>3, <1>4 DEF TypeOK

\* Spending an outside event leaves the budget well typed.
LEMMA SpendType ==
  ASSUME NEW e \in Event, budget \in [Event -> Nat], Spend(e)
  PROVE  budget' \in [Event -> Nat]
  BY DEF Spend

\* The items of tasks that have a due date are items.
LEMMA ItemsOfType ==
  ASSUME TypeOK, NEW ts \in SUBSET OpenTasks, NEW type \in ReminderType
  PROVE  ItemsOf(ts, type) \subseteq Item
  BY ConstantsAssumption
  DEF ConstantsAssumption, TypeOK, ItemsOf, OpenTasks, Item, UniqueKey, TaskRow

\* A row that is inserted belongs to the task's life.
LEMMA NewRowType ==
  ASSUME TypeOK, NEW u \in UniqueKey
  PROVE  /\ NewRow(u) \in ReminderKey /\ Unique(NewRow(u)) = u
         /\ NewRow(u).life = tasks[u.task].life /\ NewRow(u).task = u.task
         /\ NewRow(u).type = u.type /\ NewRow(u).scheduledFor = u.scheduledFor
  BY DEF TypeOK, UniqueKey, NewRow, Unique, ReminderKey, TaskRow

LEMMA NextItemsType ==
  ASSUME TypeOK, NEW s \in Scans, NEW i \in NextItems(s)
  PROVE  i \in Item /\ i.unique \in UniqueKey /\ i.to \in Users \cup {None}
  BY DEF NextItems, TypeOK, ScanState, Item

\* What starting a scan leaves of another one: all but its history.
SameScan(r) ==
  /\ scan'[r].pc = scan[r].pc /\ scan'[r].at = scan[r].at /\ scan'[r].cur = scan[r].cur
  /\ scan'[r].dueSoon = scan[r].dueSoon /\ scan'[r].overdue = scan[r].overdue

LEMMA Started ==
  ASSUME TypeOK, NEW s \in Scans, StartScan(s)
  PROVE  /\ scan' \in [Scans -> ScanState]
         /\ scan'[s].pc = "queryDueSoon" /\ scan'[s].at = now
         /\ scan'[s].dueSoon = {} /\ scan'[s].overdue = {}
         /\ scan'[s].overlapped = \E q \in Scans : InProgress(q) /\ ~SameHandler(q, s)
         /\ \A r \in Scans \ {s} :
              /\ SameScan(r)
              /\ scan'[r].overlapped = (scan[r].overlapped \/ (InProgress(r) /\ ~SameHandler(r, s)))
<1> DEFINE met == \E q \in Scans : InProgress(q) /\ ~SameHandler(q, s)
           new == [IdleScan EXCEPT !.pc = "queryDueSoon", !.at = now, !.overlapped = met]
           old(r) == scan[r].overlapped \/ (InProgress(r) /\ ~SameHandler(r, s))
<1>1. met \in BOOLEAN /\ \A r \in Scans : old(r) \in BOOLEAN
  BY DEF TypeOK, ScanState
<1>2. scan' = [r \in Scans |-> IF r = s THEN new ELSE [scan[r] EXCEPT !.overlapped = old(r)]]
  BY DEF StartScan
<1> HIDE DEF met, old
<1>3. new \in ScanState /\ new.pc = "queryDueSoon" /\ new.at = now /\ new.dueSoon = {}
      /\ new.overdue = {} /\ new.overlapped = met
  BY <1>1 DEF IdleScan, ScanState, TypeOK
<1> HIDE DEF new
<1>4. ASSUME NEW r \in Scans
      PROVE  /\ [scan[r] EXCEPT !.overlapped = old(r)] \in ScanState
             /\ [scan[r] EXCEPT !.overlapped = old(r)].pc = scan[r].pc
             /\ [scan[r] EXCEPT !.overlapped = old(r)].at = scan[r].at
             /\ [scan[r] EXCEPT !.overlapped = old(r)].cur = scan[r].cur
             /\ [scan[r] EXCEPT !.overlapped = old(r)].dueSoon = scan[r].dueSoon
             /\ [scan[r] EXCEPT !.overlapped = old(r)].overdue = scan[r].overdue
             /\ [scan[r] EXCEPT !.overlapped = old(r)].overlapped = old(r)
  BY <1>1 DEF TypeOK, ScanState
<1>5. scan' \in [Scans -> ScanState] /\ scan'[s] = new
  BY <1>2, <1>3, <1>4
<1>6. ASSUME NEW r \in Scans \ {s}
      PROVE  SameScan(r) /\ scan'[r].overlapped = old(r)
  <2>1. scan'[r] = [scan[r] EXCEPT !.overlapped = old(r)]
    BY <1>2
  <2> QED
    BY <1>4, <2>1 DEF SameScan
<1> QED
  BY <1>3, <1>5, <1>6 DEF met, old

LEMMA TaskActionsType ==
  ASSUME TypeOK, Tick \/ TaskRequest
  PROVE  TypeOK'
<1>1. CASE Tick
  BY <1>1, ConstantsAssumption DEF ConstantsAssumption, Tick, TypeOK
<1>2. ASSUME NEW t \in Tasks, NEW due \in DueDates \cup {None}, NEW u \in Users \cup {None},
             CreateTask(t, due, u)
      PROVE  TypeOK'
  BY <1>2 DEF CreateTask, TypeOK, TaskRow
<1>3. ASSUME NEW t \in Tasks, NEW st \in {"open", "closed"}, NEW due \in DueDates \cup {None},
             NEW u \in Users \cup {None}, UpdateTask(t, st, due, u)
      PROVE  TypeOK'
  BY <1>3, SpendType DEF UpdateTask, TypeOK, Event, TaskRow
<1>4. ASSUME NEW t \in Tasks, NEW st \in {"open", "closed"}, NEW due \in DueDates \cup {None},
             NEW u \in Users \cup {None}, ReinsertTask(t, st, due, u)
      PROVE  TypeOK'
  <2>1. tasks[t].life + 1 \in Lives
    BY <1>4, ConstantsAssumption
    DEF ConstantsAssumption, ReinsertTask, TypeOK, TaskRow, Lives
  <2>2. tasks' \in [Tasks -> TaskRow]
    BY <1>4, <2>1 DEF ReinsertTask, TypeOK, TaskRow
  <2> QED
    BY <1>4, <2>2 DEF ReinsertTask, TypeOK
<1>5. ASSUME NEW t \in Tasks, RemoveTask(t)
      PROVE  TypeOK'
  <2>1. tasks' \in [Tasks -> TaskRow]
    BY <1>5 DEF RemoveTask, TypeOK, TaskRow
  <2> QED
    BY <1>5, <2>1, RecordTypes, SpendType DEF RemoveTask, TypeOK, Event
<1> QED
  BY <1>1, <1>2, <1>3, <1>4, <1>5 DEF TaskRequest

\* A running scan, started or moved on, stays a scan.
LEMMA ScanActionsType ==
  ASSUME TypeOK, NEW s \in Scans,
         HandleReminderScan(s) \/ ManualScan(s) \/ ScanStep(s) \/ ScanFault(s)
  PROVE  TypeOK'
<1>1. CASE HandleReminderScan(s)
  <2>1. scan' \in [Scans -> ScanState]
    BY <1>1, Started DEF HandleReminderScan
  <2> QED
    BY <1>1, <2>1 DEF HandleReminderScan, TypeOK
<1>2. CASE ManualScan(s)
  <2>1. scan' \in [Scans -> ScanState]
    BY <1>2, Started DEF ManualScan
  <2> QED
    BY <1>2, <2>1 DEF ManualScan, TypeOK
<1>3. CASE QueryDueSoon(s)
  <2>1. PICK items \in SUBSET Item :
          scan' = [scan EXCEPT ![s].pc = "queryOverdue", ![s].dueSoon = items]
    BY <1>3, ItemsOfType DEF QueryDueSoon, ReminderType
  <2>2. scan' \in [Scans -> ScanState]
    <3>1. scan[s] \in ScanState
      BY DEF TypeOK
    <3>2. [scan[s] EXCEPT !.pc = "queryOverdue", !.dueSoon = items] \in ScanState
      BY <3>1 DEF ScanState
    <3>3. scan' = [scan EXCEPT ![s] = [scan[s] EXCEPT !.pc = "queryOverdue", !.dueSoon = items]]
      BY <2>1 DEF TypeOK
    <3> QED
      BY <3>2, <3>3 DEF TypeOK
  <2> QED
    BY <1>3, <2>2 DEF QueryDueSoon, TypeOK
<1>4. CASE QueryOverdue(s)
  <2>1. PICK items \in SUBSET Item :
          scan' = [scan EXCEPT ![s].pc = "loop", ![s].overdue = items]
    BY <1>4, ItemsOfType DEF QueryOverdue, ReminderType
  <2>2. scan' \in [Scans -> ScanState]
    <3>1. scan[s] \in ScanState
      BY DEF TypeOK
    <3>2. [scan[s] EXCEPT !.pc = "loop", !.overdue = items] \in ScanState
      BY <3>1 DEF ScanState
    <3>3. scan' = [scan EXCEPT ![s] = [scan[s] EXCEPT !.pc = "loop", !.overdue = items]]
      BY <2>1 DEF TypeOK
    <3> QED
      BY <3>2, <3>3 DEF TypeOK
  <2> QED
    BY <1>4, <2>2 DEF QueryOverdue, TypeOK
<1>5. ASSUME EndScan(s)
      PROVE  scan' \in [Scans -> ScanState] /\ running' \in [Hosts -> BOOLEAN]
  BY <1>5, RecordTypes DEF EndScan, TypeOK
<1>6. CASE CreateReminder(s)
  <2>1. PICK i \in NextItems(s) :
          \/ EndScan(s) /\ UNCHANGED reminders
          \/ /\ scan' = [scan EXCEPT ![s].dueSoon = @ \ {i}, ![s].overdue = @ \ {i}]
             /\ UNCHANGED <<reminders, running>>
          \/ /\ reminders' = [reminders EXCEPT ![NewRow(i.unique)].status = "PENDING"]
             /\ scan' = [scan EXCEPT ![s].dueSoon = @ \ {i}, ![s].overdue = @ \ {i},
                                     ![s].cur = [key |-> NewRow(i.unique), to |-> i.to],
                                     ![s].pc = "dispatch"]
             /\ UNCHANGED running
    BY <1>6 DEF CreateReminder
  <2> DEFINE d == [key |-> NewRow(i.unique), to |-> i.to]
  <2>2. NewRow(i.unique) \in ReminderKey /\ d \in Dispatch
    BY NextItemsType, NewRowType DEF Dispatch
  <2>3. reminders' \in [ReminderKey -> ReminderRow]
    BY <2>1, <2>2 DEF TypeOK, ReminderRow
  <2>4. d # None
    BY <2>2, ConstantsAssumption DEF ConstantsAssumption
  <2>5. scan' \in [Scans -> ScanState]
    <3>1. \/ EndScan(s)
          \/ scan' = [scan EXCEPT ![s].dueSoon = @ \ {i}, ![s].overdue = @ \ {i}]
          \/ scan' = [scan EXCEPT ![s].dueSoon = @ \ {i}, ![s].overdue = @ \ {i},
                                  ![s].cur = d, ![s].pc = "dispatch"]
      BY <2>1
    <3> HIDE DEF d
    <3> QED
      BY <3>1, <2>2, <2>4, <1>5 DEF TypeOK, ScanState
  <2>6. running' \in [Hosts -> BOOLEAN]
    BY <2>1, <1>5 DEF TypeOK
  <2> QED
    BY <1>6, <2>3, <2>5, <2>6 DEF CreateReminder, TypeOK
<1>7. CASE Enqueue(s)
  BY <1>7 DEF Enqueue, TypeOK, ScanState, Job
<1>8. CASE DispatchInProcess(s)
  <2>1. scan' \in [Scans -> ScanState]
    BY <1>8 DEF DispatchInProcess, TypeOK, ScanState
  <2>2. scan[s].cur \in Dispatch
    BY <1>8 DEF DispatchInProcess, TypeOK, ScanState
  <2>3. inbox' \subseteq Notification
    BY <1>8, <2>2 DEF DispatchInProcess, NotifyAssignee, TypeOK, Notification, Dispatch
  <2> QED
    BY <1>8, <2>1, <2>3 DEF DispatchInProcess, TypeOK
<1>9. CASE MarkSentInProcess(s)
  BY <1>9 DEF MarkSentInProcess, UpdateRow, TypeOK, ScanState, ReminderRow
<1>10. CASE FinishScan(s)
  BY <1>10, <1>5 DEF FinishScan, TypeOK
<1>11. CASE ScanFault(s)
  BY <1>11, <1>5, SpendType DEF ScanFault, TypeOK, Event
<1> QED
  BY <1>1, <1>2, <1>3, <1>4, <1>6, <1>7, <1>8, <1>9, <1>10, <1>11 DEF ScanStep

LEMMA StalledBackType ==
  ASSUME NEW j \in Job
  PROVE  StalledBack(j) \in Job
<1>1. j.stalled + 1 \in Nat
  BY DEF Job
<1> QED
  BY <1>1 DEF StalledBack, Job

\* A slot that takes, works on or gives back a job stays a slot, and the job a
\* job.
LEMMA WorkerActionsType ==
  ASSUME TypeOK, NEW w \in Workers,
         WorkerStep(w) \/ JobFails(w) \/ MarkFailedFault(w) \/ LockLost(w)
  PROVE  TypeOK'
<1>1. ASSUME NEW k \in ReminderKey, TakeJob(w, k)
      PROVE  TypeOK'
  <2>1. k # None /\ Run(k) \in Nat
    BY ConstantsAssumption DEF ConstantsAssumption, Run, TypeOK, Job
  <2>2. Slot("find", k, Run(k)) \in WorkerState
    BY <2>1 DEF Slot, WorkerState
  <2> QED
    BY <1>1, <2>2 DEF TakeJob, TypeOK, Job
<1>2. ASSUME NEW k \in ReminderKey, NEW n \in Nat, OnFailed(w, k, n)
      PROVE  worker' \in [Workers -> WorkerState]
  <2>1. Slot("markFailed", k, 0) \in WorkerState
    BY ConstantsAssumption DEF ConstantsAssumption, Slot, WorkerState
  <2> QED
    BY <1>2, <2>1, RecordTypes DEF OnFailed, TypeOK
<1>3. ASSUME NEW k \in ReminderKey, FailStalled(w, k)
      PROVE  TypeOK'
  <2>1. worker' \in [Workers -> WorkerState]
    BY <1>2, <1>3 DEF FailStalled, TypeOK, Job
  <2> QED
    BY <1>3, <2>1 DEF FailStalled, TypeOK, Job
<1>4. worker[w].pc # "idle" => worker[w].key \in ReminderKey
  BY DEF TypeOK, WorkerState
<1>5. CASE FindReminder(w)
  <2>1. worker[w].key \in ReminderKey /\ worker[w].key # None
    BY <1>5, <1>4 DEF FindReminder, TypeOK, WorkerState
  <2>2. reminders[worker[w].key].attempts \in Nat
    BY <2>1 DEF TypeOK, ReminderRow
  <2>3. ASSUME worker' = [worker EXCEPT ![w].pc = "skipped"]
        PROVE  worker' \in [Workers -> WorkerState]
    BY <1>5, <2>3 DEF FindReminder, TypeOK, WorkerState
  <2>4. ASSUME NEW n \in Nat, worker' = [worker EXCEPT ![w].pc = "task", ![w].attempts = n]
        PROVE  worker' \in [Workers -> WorkerState]
    <3>1. [worker[w] EXCEPT !.pc = "task", !.attempts = n] \in WorkerState
      BY <2>1 DEF TypeOK, WorkerState
    <3>2. worker' = [worker EXCEPT ![w] = [worker[w] EXCEPT !.pc = "task", !.attempts = n]]
      BY <2>4 DEF TypeOK
    <3> QED
      BY <3>1, <3>2 DEF TypeOK
  <2>5. worker' \in [Workers -> WorkerState]
    BY <1>5, <2>2, <2>3, <2>4 DEF FindReminder
  <2> QED
    BY <1>5, <2>5 DEF FindReminder, TypeOK
<1>6. CASE FindTask(w)
  <2> DEFINE to == tasks[worker[w].key.task].assignee
  <2>1. worker[w].key \in ReminderKey /\ worker[w].key # None
    BY <1>6, <1>4 DEF FindTask, TypeOK, WorkerState
  <2>2. to \in Users \cup {None}
    BY <2>1 DEF TypeOK, TaskRow, ReminderKey
  <2>3. ASSUME NEW u \in Users \cup {None}, NEW pc \in {"update", "notify"},
               pc = "notify" => u # None,
               worker' = [worker EXCEPT ![w].pc = pc, ![w].to = u]
        PROVE  worker' \in [Workers -> WorkerState]
    BY <2>1, <2>3 DEF TypeOK, WorkerState
  <2>4. worker' = [worker EXCEPT ![w].pc = IF to = None THEN "update" ELSE "notify",
                                 ![w].to = to]
    BY <1>6 DEF FindTask
  <2> HIDE DEF to
  <2>5. worker' \in [Workers -> WorkerState]
    BY <2>2, <2>3, <2>4
  <2> QED
    BY <1>6, <2>5 DEF FindTask, TypeOK
<1>7. CASE Notify(w)
  <2>1. /\ worker[w].key \in ReminderKey /\ worker[w].run \in Nat
        /\ worker[w].to \in Users
    BY <1>7, <1>4 DEF Notify, TypeOK, WorkerState
  <2>2. inbox' \subseteq Notification
    BY <1>7, <2>1 DEF Notify, NotifyAssignee, TypeOK, Notification
  <2>3. worker' \in [Workers -> WorkerState]
    BY <1>7 DEF Notify, TypeOK, WorkerState
  <2> QED
    BY <1>7, <2>2, <2>3 DEF Notify, TypeOK
<1>8. CASE UpdateSent(w)
  <2>1. worker' \in [Workers -> WorkerState]
    BY <1>8 DEF UpdateSent, TypeOK, WorkerState
  <2>2. [status |-> "SENT", attempts |-> worker[w].attempts + 1] \in ReminderRow
    BY DEF TypeOK, WorkerState, ReminderRow
  <2>3. reminders' \in [ReminderKey -> ReminderRow]
    BY <1>8, <2>2 DEF UpdateSent, UpdateRow, TypeOK
  <2> QED
    BY <1>8, <2>1, <2>3 DEF UpdateSent, TypeOK
<1>9. CASE CompleteJob(w)
  BY <1>9, <1>4, RecordTypes DEF CompleteJob, TypeOK, Job
<1>10. CASE MarkFailed(w)
  BY <1>10, <1>4, RecordTypes DEF MarkFailed, UpdateRow, TypeOK, ReminderRow, Job
<1>11. CASE JobFails(w)
  <2> DEFINE k == worker[w].key
             made == jobs[k].attemptsMade + 1
  <2>1. k \in ReminderKey /\ made \in Nat
    BY <1>4, <1>11 DEF JobFails, TypeOK, Job
  <2>2. worker' \in [Workers -> WorkerState]
    BY <1>2, <1>11, <2>1, RecordTypes DEF JobFails, TypeOK
  <2>3. jobs' \in [ReminderKey -> Job]
    BY <1>11, <2>1 DEF JobFails, TypeOK, Job
  <2> QED
    BY <1>11, <2>2, <2>3 DEF JobFails, TypeOK
<1>12. CASE MarkFailedFault(w)
  BY <1>12, RecordTypes, SpendType DEF MarkFailedFault, TypeOK, Event
<1>13. CASE LockLost(w)
  <2>1. jobs' \in [ReminderKey -> Job]
    BY <1>13, StalledBackType DEF LockLost, TypeOK
  <2> QED
    BY <1>13, <2>1, SpendType DEF LockLost, TypeOK, Event
<1> QED
  BY <1>1, <1>3, <1>5, <1>6, <1>7, <1>8, <1>9, <1>10, <1>11, <1>12, <1>13 DEF WorkerStep

LEMMA CrashType ==
  ASSUME TypeOK, NEW h \in Hosts, Crash(h)
  PROVE  TypeOK'
<1>1. jobs' \in [ReminderKey -> Job]
  BY StalledBackType DEF Crash, TypeOK
<1>2. worker' \in [Workers -> WorkerState] /\ scan' \in [Scans -> ScanState]
  BY RecordTypes DEF Crash, TypeOK
<1>3. running' \in [Hosts -> BOOLEAN]
  BY DEF Crash, TypeOK
<1>4. budget' \in [Event -> Nat]
  BY SpendType DEF Crash, TypeOK, Event
<1> QED
  BY <1>1, <1>2, <1>3, <1>4 DEF Crash, TypeOK

\* Every state is well typed: the columns, the queue and the control states
\* of scans and slots only take the values the code gives them.
THEOREM TypeCorrect == Spec => []TypeOK
<1>1. TypeOK /\ [Next]_vars => TypeOK'
  <2> SUFFICES ASSUME TypeOK, [Next]_vars PROVE TypeOK'
    OBVIOUS
  <2>1. CASE UNCHANGED vars
    BY <2>1 DEF vars, TypeOK
  <2> QED
    BY <2>1, TaskActionsType, ScanActionsType, WorkerActionsType, CrashType DEF Next
<1> QED
  BY <1>1, InitTypeOK, PTL DEF Spec

-----------------------------------------------------------------------------
(* One dispatch per reminder.  A reminder is taken once its row exists, and *)
(* stays so: the row only goes with the life of its task it belongs to.     *)

Taken(k) == reminders[k].status # "none" \/ Gone(k)

\* A row belongs to no later life of its task.
RowLives == \A k \in ReminderKey : reminders[k].status # "none" => k.life <= tasks[k.task].life

\* Only createReminder creates a row.
LEMMA NoneStays ==
  ASSUME TypeOK, Next, \A s \in Scans : ~CreateReminder(s),
         NEW k \in ReminderKey, reminders[k].status = "none"
  PROVE  reminders'[k].status = "none"
<1>1. ASSUME NEW j, NEW row, UpdateRow(j, row) PROVE reminders'[k].status = "none"
  BY <1>1 DEF UpdateRow, TypeOK
<1>2. ASSUME NEW t \in Tasks, RemoveTask(t) PROVE reminders'[k].status = "none"
  BY <1>2 DEF RemoveTask, NoRow
<1>3. CASE UNCHANGED reminders
  BY <1>3
<1>4. ASSUME NEW s \in Scans, HandleReminderScan(s) \/ ManualScan(s) \/ ScanStep(s) \/ ScanFault(s)
      PROVE  reminders'[k].status = "none"
  BY <1>1, <1>3, <1>4 DEF HandleReminderScan, ManualScan, ScanStep, ScanFault, QueryDueSoon,
     QueryOverdue, Enqueue, DispatchInProcess, MarkSentInProcess, FinishScan
<1>5. ASSUME NEW w \in Workers, WorkerStep(w) \/ JobFails(w) \/ MarkFailedFault(w) \/ LockLost(w)
      PROVE  reminders'[k].status = "none"
  BY <1>1, <1>3, <1>5 DEF WorkerStep, TakeJob, FailStalled, FindReminder, FindTask, Notify, UpdateSent,
     CompleteJob, MarkFailed, JobFails, MarkFailedFault, LockLost
<1>6. CASE Tick \/ TaskRequest
  BY <1>2, <1>3, <1>6 DEF Tick, TaskRequest, CreateTask, UpdateTask, ReinsertTask
<1>7. ASSUME NEW h \in Hosts, Crash(h) PROVE reminders'[k].status = "none"
  BY <1>3, <1>7 DEF Crash
<1> QED
  BY <1>4, <1>5, <1>6, <1>7 DEF Next

\* A task's life ends with its removal.
LEMMA LifeStep ==
  ASSUME TypeOK, Next, NEW t \in Tasks
  PROVE  /\ tasks[t].life \in Nat /\ tasks'[t].life \in Nat
         /\ \/ tasks'[t].life = tasks[t].life
               /\ (tasks[t].status = "gone" => tasks'[t].status = "gone")
            \/ tasks'[t].life = tasks[t].life + 1
<1>1. tasks[t].life \in Nat
  BY ConstantsAssumption DEF ConstantsAssumption, TypeOK, TaskRow, Lives
<1>2. CASE UNCHANGED tasks
  BY <1>1, <1>2
<1>3. CASE TaskRequest
  BY <1>1, <1>3 DEF TaskRequest, CreateTask, UpdateTask, ReinsertTask, RemoveTask, TypeOK
<1> QED
  BY <1>1, <1>2, <1>3
  DEF Next, Tick, HandleReminderScan, ManualScan, ScanStep, QueryDueSoon, QueryOverdue,
      CreateReminder, Enqueue, DispatchInProcess, MarkSentInProcess, FinishScan, ScanFault,
      WorkerStep, TakeJob, FailStalled, FindReminder, FindTask, Notify, UpdateSent, CompleteJob,
      JobFails, MarkFailed, MarkFailedFault, LockLost, Crash

\* A reminder that is gone stays so.
LEMMA GoneStays ==
  ASSUME TypeOK, Next, NEW k \in ReminderKey, Gone(k)
  PROVE  Gone(k)'
<1>1. k.task \in Tasks /\ k.life \in Nat
  BY ConstantsAssumption DEF ConstantsAssumption, ReminderKey, Lives
<1> QED
  BY <1>1, LifeStep DEF Gone

\* What createReminder does to the table: nothing, or one new row.
LEMMA NewRows ==
  ASSUME TypeOK, NEW s \in Scans, CreateReminder(s)
  PROVE  \/ UNCHANGED reminders
         \/ \E u \in UniqueKey :
              /\ tasks[u.task].status # "gone" /\ ~Conflict(u)
              /\ reminders' = [reminders EXCEPT ![NewRow(u)].status = "PENDING"]
  BY NextItemsType DEF CreateReminder

LEMMA RowLivesStep == TypeOK /\ RowLives /\ [Next]_vars => RowLives'
<1> SUFFICES ASSUME TypeOK, RowLives, [Next]_vars PROVE RowLives'
  OBVIOUS
<1>1. CASE UNCHANGED vars
  BY <1>1 DEF vars, RowLives
<1>2. CASE Next
  <2> SUFFICES ASSUME NEW k \in ReminderKey, reminders'[k].status # "none"
               PROVE  k.life <= tasks'[k.task].life
    BY DEF RowLives
  <2>1. k.task \in Tasks /\ k.life \in Nat
    BY ConstantsAssumption DEF ConstantsAssumption, ReminderKey, Lives
  <2>2. CASE reminders[k].status # "none"
    <3>1. k.life <= tasks[k.task].life
      BY <2>2 DEF RowLives
    <3> QED
      BY <1>2, <2>1, <3>1, LifeStep
  <2>3. ASSUME reminders[k].status = "none", NEW s \in Scans, CreateReminder(s)
        PROVE  k.life <= tasks'[k.task].life
    <3>1. PICK u \in UniqueKey : reminders' = [reminders EXCEPT ![NewRow(u)].status = "PENDING"]
      BY <2>3, NewRows
    <3>2. k = NewRow(u)
      BY <2>3, <3>1 DEF TypeOK
    <3>3. k.life = tasks[k.task].life /\ UNCHANGED tasks
      BY <2>3, <3>2, NewRowType DEF CreateReminder
    <3> QED
      BY <2>1, <3>3
  <2> QED
    BY <1>2, <2>2, <2>3, NoneStays
<1> QED
  BY <1>1, <1>2

DispatchInv ==
  /\ \A s \in Scans, k \in ReminderKey : Dispatching(s, k) => Taken(k)
  /\ \A k \in ReminderKey : jobs[k].state # "none" => Taken(k)
  /\ \A n \in inbox : Taken(n.key)
  /\ \A w \in Workers : worker[w].pc # "idle" => jobs[worker[w].key].state # "none"
  /\ SingleDispatch

\* An UPDATE of a reminder leaves every existing row existing.
LEMMA UpdateRowKeeps ==
  ASSUME TypeOK, NEW k \in ReminderKey, NEW row \in ReminderRow, row.status # "none",
         UpdateRow(k, row), NEW j \in ReminderKey, reminders[j].status # "none"
  PROVE  reminders'[j].status # "none"
  BY DEF UpdateRow, TypeOK

LEMMA TakenStays ==
  ASSUME TypeOK, RowLives, Next, NEW j \in ReminderKey, Taken(j)
  PROVE  Taken(j)'
<1> USE DEF Taken
<1>1. CASE Gone(j)
  BY <1>1, GoneStays
<1>2. CASE reminders[j].status # "none"
  <2>1. CASE UNCHANGED reminders
    BY <1>2, <2>1
  <2>2. ASSUME NEW t \in Tasks, RemoveTask(t)
        PROVE  Taken(j)'
    <3>1. CASE j.task = t
      <4>1. tasks'[t].status = "gone" /\ tasks'[t].life = tasks[t].life
        BY <2>2 DEF RemoveTask, TypeOK
      <4>2. j.life <= tasks[t].life /\ j.life \in Nat /\ tasks[t].life \in Nat
        BY <1>2, <3>1, ConstantsAssumption
        DEF ConstantsAssumption, RowLives, ReminderKey, TypeOK, TaskRow, Lives
      <4> QED
        BY <3>1, <4>1, <4>2 DEF Gone
    <3>2. CASE j.task # t
      BY <1>2, <2>2, <3>2 DEF RemoveTask
    <3> QED
      BY <3>1, <3>2
  <2>3. ASSUME NEW s \in Scans, CreateReminder(s)
        PROVE  Taken(j)'
    BY <1>2, <2>3, NewRows DEF TypeOK, ReminderRow
  <2>4. ASSUME NEW s \in Scans, MarkSentInProcess(s)
        PROVE  Taken(j)'
    <3> DEFINE k == scan[s].cur.key
    <3>1. k \in ReminderKey
      BY <2>4 DEF MarkSentInProcess, TypeOK, ScanState, Dispatch
    <3>2. [reminders[k] EXCEPT !.status = "SENT"] \in ReminderRow
      BY <3>1 DEF TypeOK, ReminderRow
    <3>3. [reminders[k] EXCEPT !.status = "SENT"].status # "none"
      BY <3>1 DEF TypeOK, ReminderRow
    <3> QED
      BY <1>2, <2>4, <3>1, <3>2, <3>3, UpdateRowKeeps DEF MarkSentInProcess
  <2>5. ASSUME NEW w \in Workers, UpdateSent(w)
        PROVE  Taken(j)'
    <3>1. [status |-> "SENT", attempts |-> worker[w].attempts + 1] \in ReminderRow
          /\ worker[w].key \in ReminderKey
      BY <2>5 DEF UpdateSent, TypeOK, WorkerState, ReminderRow
    <3> QED
      BY <1>2, <2>5, <3>1, UpdateRowKeeps DEF UpdateSent
  <2>6. ASSUME NEW w \in Workers, MarkFailed(w)
        PROVE  Taken(j)'
    <3>1. worker[w].key \in ReminderKey
      BY <2>6 DEF MarkFailed, TypeOK, WorkerState
    <3>2. [status |-> "FAILED", attempts |-> jobs[worker[w].key].attemptsMade] \in ReminderRow
      BY <3>1 DEF TypeOK, Job, ReminderRow
    <3> QED
      BY <1>2, <2>6, <3>1, <3>2, UpdateRowKeeps DEF MarkFailed
  <2> QED
    BY <2>1, <2>2, <2>3, <2>4, <2>5, <2>6
    DEF Next, Tick, TaskRequest, CreateTask, UpdateTask, ReinsertTask, HandleReminderScan,
        ManualScan, ScanStep, QueryDueSoon, QueryOverdue, Enqueue, DispatchInProcess, FinishScan,
        ScanFault, WorkerStep, TakeJob, FailStalled, FindReminder, FindTask, Notify, CompleteJob,
        JobFails, MarkFailedFault, LockLost, Crash
<1> QED
  BY <1>1, <1>2

Dispatches(s) == scan[s].pc \in {"dispatch", "markSent"}

SameDispatch(s) == scan'[s].pc = scan[s].pc /\ scan'[s].cur = scan[s].cur

\* Steps that start no dispatch, give no reminder its job and create no
\* notification but for a job preserve DispatchInv.
LEMMA DispatchFrame ==
  ASSUME TypeOK, TypeOK', DispatchInv,
         \A k \in ReminderKey : Taken(k) => Taken(k)',
         \A s \in Scans : Dispatches(s)' => SameDispatch(s),
         \A k \in ReminderKey : jobs'[k].state = "none" <=> jobs[k].state = "none",
         \A w \in Workers : worker'[w].pc # "idle" => jobs[worker'[w].key].state # "none",
         \A n \in inbox' : n \in inbox \/ jobs[n.key].state # "none"
  PROVE  DispatchInv'
<1>1. \A s \in Scans, k \in ReminderKey : Dispatching(s, k)' => Dispatching(s, k)
  BY DEF Dispatching, Dispatches, SameDispatch
<1>2. \A n \in inbox' : n.key \in ReminderKey
  BY DEF TypeOK, Notification
<1>3. \A w \in Workers : worker'[w].pc # "idle" => worker'[w].key \in ReminderKey
  BY DEF TypeOK, WorkerState
<1>4. \A s \in Scans, k \in ReminderKey : Dispatching(s, k)' => Taken(k)'
  BY <1>1 DEF DispatchInv
<1>5. \A k \in ReminderKey : jobs'[k].state # "none" => Taken(k)'
  BY DEF DispatchInv
<1>6. \A n \in inbox' : Taken(n.key)'
  BY <1>2 DEF DispatchInv
<1>7. \A w \in Workers : worker'[w].pc # "idle" => jobs'[worker'[w].key].state # "none"
  BY <1>3
<1>8. SingleDispatch'
  <2> SUFFICES ASSUME NEW s \in Scans, NEW k \in ReminderKey, Dispatching(s, k)'
               PROVE  /\ \A r \in Scans \ {s} : ~Dispatching(r, k)'
                      /\ jobs'[k].state = "none"
                      /\ scan'[s].pc = "dispatch" => \A n \in inbox' : n.key # k
    BY DEF SingleDispatch
  <2>1. /\ \A r \in Scans \ {s} : ~Dispatching(r, k)
        /\ jobs[k].state = "none"
        /\ scan[s].pc = "dispatch" => \A n \in inbox : n.key # k
    BY <1>1 DEF DispatchInv, SingleDispatch
  <2>2. scan'[s].pc = "dispatch" => scan[s].pc = "dispatch"
    BY DEF Dispatches, SameDispatch
  <2> QED
    BY <1>1, <2>1, <2>2
<1> QED
  BY <1>4, <1>5, <1>6, <1>7, <1>8 DEF DispatchInv

LEMMA ScanDispatchInv ==
  ASSUME TypeOK, TypeOK', DispatchInv,
         \A k \in ReminderKey : Taken(k) => Taken(k)',
         NEW s \in Scans,
         HandleReminderScan(s) \/ ManualScan(s) \/ ScanStep(s) \/ ScanFault(s)
  PROVE  DispatchInv'
<1>1. CASE ~CreateReminder(s) /\ ~Enqueue(s) /\ ~DispatchInProcess(s)
  <2>1. /\ \A r \in Scans \ {s} : SameDispatch(r)
        /\ ~Dispatches(s)'
    <3> USE DEF SameDispatch
    <3>1. CASE HandleReminderScan(s) \/ ManualScan(s)
      BY <3>1, Started DEF HandleReminderScan, ManualScan, Dispatches, SameScan
    <3>2. CASE QueryDueSoon(s)
      BY <3>2 DEF QueryDueSoon, Dispatches, TypeOK, ScanState
    <3>3. CASE QueryOverdue(s)
      BY <3>3 DEF QueryOverdue, Dispatches, TypeOK, ScanState
    <3>4. CASE MarkSentInProcess(s)
      BY <3>4 DEF MarkSentInProcess, Dispatches, TypeOK, ScanState
    <3>5. CASE FinishScan(s) \/ ScanFault(s)
      BY <3>5 DEF FinishScan, ScanFault, EndScan, Dispatches, IdleScan, TypeOK
    <3> QED
      BY <1>1, <3>1, <3>2, <3>3, <3>4, <3>5 DEF ScanStep
  <2>2. UNCHANGED <<jobs, inbox, worker>>
    BY <1>1 DEF HandleReminderScan, ManualScan, ScanStep, ScanFault,
       QueryDueSoon, QueryOverdue, MarkSentInProcess, FinishScan
  <2> QED
    BY <2>1, <2>2, DispatchFrame DEF DispatchInv
<1>2. CASE CreateReminder(s)
  <2>1. UNCHANGED <<tasks, jobs, inbox, worker>>
    BY <1>2 DEF CreateReminder
  <2>2. CASE \A r \in Scans : Dispatches(r)' => SameDispatch(r)
    BY <2>1, <2>2, DispatchFrame DEF DispatchInv
  <2>3. CASE ~\A r \in Scans : Dispatches(r)' => SameDispatch(r)
    <3>1. PICK i \in NextItems(s) :
            /\ tasks[i.unique.task].status # "gone" /\ ~Conflict(i.unique)
            /\ reminders' = [reminders EXCEPT ![NewRow(i.unique)].status = "PENDING"]
            /\ scan' = [scan EXCEPT ![s].dueSoon = @ \ {i}, ![s].overdue = @ \ {i},
                                    ![s].cur = [key |-> NewRow(i.unique), to |-> i.to],
                                    ![s].pc = "dispatch"]
      <4>1. ASSUME EndScan(s) PROVE \A r \in Scans : Dispatches(r)' => SameDispatch(r)
        BY <4>1 DEF EndScan, IdleScan, Dispatches, SameDispatch, TypeOK
      <4>2. ASSUME NEW i, scan' = [scan EXCEPT ![s].dueSoon = @ \ {i}, ![s].overdue = @ \ {i}]
            PROVE  \A r \in Scans : Dispatches(r)' => SameDispatch(r)
        BY <4>2 DEF SameDispatch, TypeOK, ScanState
      <4> QED
        BY <1>2, <2>3, <4>1, <4>2 DEF CreateReminder
    <3>2. PICK new \in ReminderKey : new = NewRow(i.unique)
      BY NextItemsType, NewRowType
    <3>3. ~Taken(new) /\ Taken(new)'
      <4>1. reminders[new].status = "none" /\ reminders'[new].status = "PENDING"
        BY <3>1, <3>2, NextItemsType, NewRowType DEF Conflict, TypeOK, ReminderRow
      <4>2. ~Gone(new)
        <5>1. /\ new.task = i.unique.task /\ new.life = tasks[i.unique.task].life
              /\ new.life \in Nat
          BY <3>2, NextItemsType, NewRowType, ConstantsAssumption
          DEF ConstantsAssumption, ReminderKey, Lives
        <5> QED
          BY <3>1, <5>1 DEF Gone
      <4> QED
        BY <4>1, <4>2 DEF Taken
    <3>4. scan'[s].cur.key = new /\ \A r \in Scans \ {s} : scan'[r] = scan[r]
      BY <3>1, <3>2 DEF TypeOK, ScanState
    <3>5. \A r \in Scans, k \in ReminderKey :
            Dispatching(r, k)' => (r = s /\ k = new) \/ (r # s /\ Dispatching(r, k))
      BY <3>4 DEF Dispatching
    <3>6. /\ \A r \in Scans : ~Dispatching(r, new)
          /\ jobs[new].state = "none" /\ \A n \in inbox : n.key # new
      BY <3>2, <3>3 DEF DispatchInv
    <3>7. \A r \in Scans, k \in ReminderKey : Dispatching(r, k)' => Taken(k)'
      BY <3>3, <3>5 DEF DispatchInv
    <3>8. /\ \A k \in ReminderKey : jobs'[k].state # "none" => Taken(k)'
          /\ \A n \in inbox' : Taken(n.key)'
      BY <2>1 DEF DispatchInv, TypeOK, Notification
    <3>9. SingleDispatch'
      BY <2>1, <3>4, <3>5, <3>6 DEF DispatchInv, SingleDispatch
    <3> QED
      BY <2>1, <3>7, <3>8, <3>9 DEF DispatchInv
  <2> QED
    BY <2>2, <2>3
<1>3. CASE Enqueue(s)
  <2> DEFINE k == scan[s].cur.key
  <2>1. k \in ReminderKey /\ Dispatching(s, k)
    BY <1>3 DEF Enqueue, TypeOK, ScanState, Dispatch, Dispatching
  <2>2. jobs[k].state = "none" /\ Taken(k) /\ \A r \in Scans \ {s} : ~Dispatching(r, k)
    BY <2>1 DEF DispatchInv, SingleDispatch
  <2>3. UNCHANGED <<inbox, worker>> /\ jobs' = [jobs EXCEPT ![k].state = "waiting"]
    BY <1>3, <2>2 DEF Enqueue
  <2>4. /\ jobs'[k].state = "waiting"
        /\ \A j \in ReminderKey \ {k} : jobs'[j] = jobs[j]
    BY <2>1, <2>3 DEF TypeOK, Job
  <2>5. ~Dispatches(s)' /\ \A r \in Scans \ {s} : scan'[r] = scan[r]
    BY <1>3 DEF Enqueue, Dispatches, TypeOK, ScanState
  <2>6. \A r \in Scans, j \in ReminderKey : Dispatching(r, j)' => r # s /\ j # k /\ Dispatching(r, j)
    BY <2>2, <2>5 DEF Dispatching, Dispatches
  <2>7. /\ \A r \in Scans, j \in ReminderKey : Dispatching(r, j)' => Taken(j)'
        /\ \A j \in ReminderKey : jobs'[j].state # "none" => Taken(j)'
    BY <2>1, <2>2, <2>4, <2>6 DEF DispatchInv
  <2>8. \A n \in inbox' : Taken(n.key)'
    BY <2>3 DEF DispatchInv, TypeOK, Notification
  <2>9. \A w \in Workers : worker'[w].pc # "idle" => jobs'[worker'[w].key].state # "none"
    BY <2>1, <2>3, <2>4 DEF DispatchInv, TypeOK, WorkerState
  <2>10. SingleDispatch'
    BY <2>3, <2>4, <2>5, <2>6 DEF DispatchInv, SingleDispatch
  <2> QED
    BY <2>7, <2>8, <2>9, <2>10 DEF DispatchInv
<1>4. CASE DispatchInProcess(s)
  <2> DEFINE k == scan[s].cur.key
  <2>1. k \in ReminderKey /\ Dispatching(s, k)
    BY <1>4 DEF DispatchInProcess, TypeOK, ScanState, Dispatch, Dispatching
  <2>2. jobs[k].state = "none" /\ Taken(k) /\ \A r \in Scans \ {s} : ~Dispatching(r, k)
    BY <2>1 DEF DispatchInv, SingleDispatch
  <2>3. UNCHANGED <<jobs, worker>> /\ \A n \in inbox' : n \in inbox \/ n.key = k
    BY <1>4 DEF DispatchInProcess, NotifyAssignee
  <2>4. /\ scan'[s].pc = "markSent" /\ scan'[s].cur = scan[s].cur
        /\ \A r \in Scans \ {s} : scan'[r] = scan[r]
    BY <1>4 DEF DispatchInProcess, TypeOK, ScanState
  <2>5. \A r \in Scans, j \in ReminderKey : Dispatching(r, j)' <=> Dispatching(r, j)
    BY <1>4, <2>4 DEF Dispatching, DispatchInProcess
  <2>6. \A r \in Scans, j \in ReminderKey : Dispatching(r, j)' => Taken(j)'
    BY <2>5 DEF DispatchInv
  <2>7. \A n \in inbox' : Taken(n.key)'
    BY <2>1, <2>2, <2>3 DEF DispatchInv, TypeOK, Notification
  <2>8. SingleDispatch'
    BY <2>2, <2>3, <2>4, <2>5 DEF DispatchInv, SingleDispatch, Dispatching
  <2> QED
    BY <2>3, <2>6, <2>7, <2>8 DEF DispatchInv
<1> QED
  BY <1>1, <1>2, <1>3, <1>4

LEMMA OnFailedCases ==
  ASSUME NEW w, NEW k, NEW n, OnFailed(w, k, n)
  PROVE  \/ worker' = [worker EXCEPT ![w] = IdleWorker]
         \/ /\ Exhausted(n)
            /\ worker' = [worker EXCEPT ![w] = Slot("markFailed", k, 0)]
  BY DEF OnFailed

\* A slot works on no reminder that has no job, and gives none its job.
LEMMA WorkerKeepsNone ==
  ASSUME TypeOK, DispatchInv, NEW w \in Workers,
         WorkerStep(w) \/ JobFails(w) \/ MarkFailedFault(w) \/ LockLost(w)
  PROVE  \A k \in ReminderKey : jobs'[k].state = "none" <=> jobs[k].state = "none"
<1>0. worker[w].pc # "idle" => worker[w].key \in ReminderKey /\ jobs[worker[w].key].state # "none"
  BY DEF TypeOK, WorkerState, DispatchInv
<1>1. ASSUME NEW k \in ReminderKey, TakeJob(w, k) \/ FailStalled(w, k)
      PROVE  \A j \in ReminderKey : jobs'[j].state = "none" <=> jobs[j].state = "none"
  BY <1>1 DEF TakeJob, FailStalled, TypeOK, Job
<1>2. CASE CompleteJob(w)
  BY <1>0, <1>2 DEF CompleteJob, TypeOK, Job
<1>4. CASE JobFails(w)
  <2> DEFINE k == worker[w].key
  <2>1. k \in ReminderKey /\ jobs[k].state # "none"
    BY <1>0, <1>4 DEF JobFails
  <2> DEFINE made == jobs[k].attemptsMade + 1
             st == IF Exhausted(made) THEN "failed" ELSE "waiting"
  <2>2. UNCHANGED jobs \/ jobs' = [jobs EXCEPT ![k].attemptsMade = made, ![k].state = st]
    BY <1>4 DEF JobFails
  <2> QED
    BY <2>1, <2>2 DEF TypeOK, Job
<1>5. CASE LockLost(w)
  BY <1>0, <1>5 DEF LockLost, StalledBack, HoldsLock, TypeOK, Job
<1>3. CASE UNCHANGED jobs
  BY <1>3
<1> QED
  BY <1>1, <1>2, <1>3, <1>4, <1>5 DEF WorkerStep, FindReminder, FindTask, Notify, UpdateSent,
     MarkFailed, MarkFailedFault

LEMMA WorkerDispatchInv ==
  ASSUME TypeOK, TypeOK', DispatchInv,
         \A k \in ReminderKey : Taken(k) => Taken(k)',
         NEW w \in Workers,
         WorkerStep(w) \/ JobFails(w) \/ MarkFailedFault(w) \/ LockLost(w)
  PROVE  DispatchInv'
<1>1. UNCHANGED scan
  BY DEF WorkerStep, TakeJob, FailStalled, FindReminder, FindTask, Notify, UpdateSent,
     CompleteJob, JobFails, MarkFailed, MarkFailedFault, LockLost
<1>2. worker[w].pc # "idle" => worker[w].key \in ReminderKey /\ jobs[worker[w].key].state # "none"
  BY DEF TypeOK, WorkerState, DispatchInv
<1>3. \A k \in ReminderKey : jobs'[k].state = "none" <=> jobs[k].state = "none"
  BY WorkerKeepsNone
<1>4. \A v \in Workers : worker'[v].pc # "idle" => jobs[worker'[v].key].state # "none"
  <2>1. ASSUME NEW k \in ReminderKey, TakeJob(w, k) \/ FailStalled(w, k)
        PROVE  \A v \in Workers : worker'[v].pc # "idle" => jobs[worker'[v].key].state # "none"
    <3>1. jobs[k].state # "none"
      BY <2>1 DEF TakeJob, FailStalled
    <3>2. /\ worker'[w].pc = "idle" \/ worker'[w].key = k
          /\ \A v \in Workers \ {w} : worker'[v] = worker[v]
      <4>1. CASE TakeJob(w, k)
        BY <4>1 DEF TakeJob, IdleWorker, Slot, TypeOK
      <4>2. CASE FailStalled(w, k)
        <5>1. OnFailed(w, k, jobs[k].attemptsMade + 1)
          BY <4>2 DEF FailStalled
        <5> QED
          BY <5>1, OnFailedCases DEF IdleWorker, Slot, TypeOK
      <4> QED
        BY <2>1, <4>1, <4>2
    <3> QED
      BY <3>1, <3>2 DEF DispatchInv
  <2>2. CASE FindReminder(w) \/ FindTask(w) \/ Notify(w) \/ UpdateSent(w)
    <3>1. /\ worker[w].pc # "idle" /\ worker'[w].key = worker[w].key
          /\ \A v \in Workers \ {w} : worker'[v] = worker[v]
      BY <2>2 DEF FindReminder, FindTask, Notify, UpdateSent, TypeOK, WorkerState
    <3> QED
      BY <3>1, <1>2 DEF DispatchInv
  <2>3. CASE CompleteJob(w) \/ MarkFailed(w) \/ MarkFailedFault(w)
    BY <2>3 DEF CompleteJob, MarkFailed, MarkFailedFault, IdleWorker, Slot, TypeOK, DispatchInv
  <2>4. CASE JobFails(w)
    <3>1. /\ worker[w].pc # "idle"
          /\ worker'[w].pc = "idle" \/ worker'[w].key = worker[w].key
          /\ \A v \in Workers \ {w} : worker'[v] = worker[v]
      <4>1. worker[w].pc # "idle"
        BY <2>4 DEF JobFails
      <4>2. \/ worker' = [worker EXCEPT ![w] = IdleWorker]
            \/ worker' = [worker EXCEPT ![w] = Slot("markFailed", worker[w].key, 0)]
        <5>1. \/ OnFailed(w, worker[w].key, jobs[worker[w].key].attemptsMade + 1)
              \/ worker' = [worker EXCEPT ![w] = IdleWorker]
          BY <2>4 DEF JobFails
        <5> QED
          BY <5>1, OnFailedCases
      <4> QED
        BY <4>1, <4>2 DEF IdleWorker, Slot, TypeOK
    <3> QED
      BY <3>1, <1>2 DEF DispatchInv
  <2>5. CASE LockLost(w)
    BY <2>5 DEF LockLost, DispatchInv
  <2> QED
    BY <2>1, <2>2, <2>3, <2>4, <2>5 DEF WorkerStep
<1>5. \A n \in inbox' : n \in inbox \/ jobs[n.key].state # "none"
  <2>1. CASE Notify(w)
    BY <1>2, <2>1 DEF Notify, NotifyAssignee
  <2>2. CASE ~Notify(w)
    BY <2>2 DEF WorkerStep, TakeJob, FailStalled, FindReminder, FindTask, UpdateSent,
       CompleteJob, JobFails, MarkFailed, MarkFailedFault, LockLost
  <2> QED
    BY <2>1, <2>2
<1> QED
  BY <1>1, <1>3, <1>4, <1>5, DispatchFrame DEF SameDispatch

LEMMA DispatchInvStep ==
  TypeOK /\ TypeOK' /\ RowLives /\ DispatchInv /\ [Next]_vars => DispatchInv'
<1> SUFFICES ASSUME TypeOK, TypeOK', RowLives, DispatchInv, [Next]_vars PROVE DispatchInv'
  OBVIOUS
<1>1. CASE UNCHANGED vars
  BY <1>1 DEF vars, DispatchInv, SingleDispatch, Dispatching, Taken, Gone
<1>2. CASE Next
  <2>1. \A k \in ReminderKey : Taken(k) => Taken(k)'
    BY <1>2, TakenStays
  <2>2. CASE Tick \/ TaskRequest
    <3>1. UNCHANGED <<inbox, jobs, scan, worker>>
      BY <2>2 DEF Tick, TaskRequest, CreateTask, UpdateTask, ReinsertTask, RemoveTask
    <3> QED
      BY <2>1, <3>1, DispatchFrame DEF DispatchInv, SameDispatch
  <2>3. ASSUME NEW h \in Hosts, Crash(h)
        PROVE  DispatchInv'
    <3>1. \A s \in Scans : Dispatches(s)' => SameDispatch(s)
      BY <2>3 DEF Crash, Dispatches, SameDispatch, IdleScan
    <3>2. \A k \in ReminderKey : jobs'[k].state = "none" <=> jobs[k].state = "none"
      BY <2>3 DEF Crash, HoldsLock, StalledBack, TypeOK, Job
    <3>3. \A w \in Workers : worker'[w].pc # "idle" => jobs[worker'[w].key].state # "none"
      BY <2>3 DEF Crash, IdleWorker, Slot, DispatchInv
    <3>4. UNCHANGED inbox
      BY <2>3 DEF Crash
    <3> QED
      BY <2>1, <3>1, <3>2, <3>3, <3>4, DispatchFrame
  <2> QED
    BY <1>2, <2>1, <2>2, <2>3, ScanDispatchInv, WorkerDispatchInv DEF Next
<1> QED
  BY <1>1, <1>2

LEMMA InitDispatchInv == Init => DispatchInv /\ RowLives
  BY DEF Init, DispatchInv, RowLives, SingleDispatch, Dispatching, IdleScan, IdleWorker, Slot,
     NoJob, NoRow

\* Whatever scans, requests and faults do, one row of reminders is dispatched
\* by one scan only, and never again once it has its job or its notification,
\* also when its task is removed and inserted again meanwhile.
THEOREM SingleDispatchCorrect == Spec => []SingleDispatch
<1>1. DispatchInv => SingleDispatch
  BY DEF DispatchInv
<1> QED
  BY <1>1, InitDispatchInv, TypeCorrect, RowLivesStep, DispatchInvStep, PTL DEF Spec

-----------------------------------------------------------------------------
(* Delivery runs.  A job's runs are numbered upwards: no notification and no *)
(* slot is ahead of its job, and all are behind a job that waits.           *)

Working(w) == worker[w].pc \notin {"idle", "markFailed"}

\* The slots that may still notify in their run.
Fresh(w) == worker[w].pc \in {"find", "task", "notify"}

JobInv ==
  \A k \in ReminderKey :
    /\ jobs[k].state = "none" => jobs[k].attemptsMade = 0
    /\ jobs[k].state \in {"waiting", "active"} => jobs[k].attemptsMade < Attempts

Behind(k, run) ==
  /\ run < Attempts + StalledLimit
  /\ run <= Run(k)
  /\ jobs[k].state = "waiting" => run < Run(k)

RunInv ==
  /\ \A w \in Workers : Working(w) => Behind(worker[w].key, worker[w].run)
  /\ \A n \in inbox : Behind(n.key, n.run)
  /\ \A v, w \in Workers : v # w /\ Working(v) /\ Working(w)
       => ~(worker[v].key = worker[w].key /\ worker[v].run = worker[w].run)
  /\ \A w \in Workers : Fresh(w)
       => \A n \in inbox : ~(n.key = worker[w].key /\ n.run = worker[w].run)

\* Steps that start no run and create no notification, and that put a job back
\* only with a higher run, preserve RunInv.
LEMMA RunFrame ==
  ASSUME TypeOK, TypeOK', RunInv, inbox' = inbox,
         \A k \in ReminderKey : Run(k) <= Run(k)',
         \A k \in ReminderKey : jobs'[k].state = "waiting"
            => jobs[k].state = "waiting" \/ Run(k) < Run(k)',
         \A w \in Workers : Working(w)' => /\ Working(w)
                                           /\ Fresh(w)' => Fresh(w)
                                           /\ worker'[w].key = worker[w].key
                                           /\ worker'[w].run = worker[w].run
  PROVE  RunInv'
<1>1. \A k \in ReminderKey : Run(k) \in Int /\ Run(k)' \in Int
  BY DEF Run, TypeOK, Job
<1>2. ASSUME NEW k \in ReminderKey, NEW run \in Nat, Behind(k, run)
      PROVE  Behind(k, run)'
  BY <1>1, <1>2 DEF Behind
<1>3. \A w \in Workers : Working(w)' => worker[w].key \in ReminderKey /\ worker[w].run \in Nat
  BY DEF Working, TypeOK, WorkerState
<1>4. ASSUME NEW w \in Workers, Working(w)'
      PROVE  Behind(worker[w].key, worker[w].run)'
  <2> DEFINE k == worker[w].key
             run == worker[w].run
  <2>1. k \in ReminderKey /\ run \in Nat /\ Behind(k, run)
    BY <1>3, <1>4 DEF RunInv
  <2>2. /\ run < Attempts + StalledLimit
        /\ run <= jobs'[k].attemptsMade + jobs'[k].stalled
        /\ jobs'[k].state = "waiting" => run < jobs'[k].attemptsMade + jobs'[k].stalled
    BY <1>2, <2>1 DEF Behind, Run
  <2>3. worker'[w].key = k /\ worker'[w].run = run
    BY <1>4
  <2> QED
    BY <2>2, <2>3 DEF Behind, Run
<1>5. \A n \in inbox' : Behind(n.key, n.run)'
  BY <1>2 DEF RunInv, TypeOK, Notification
<1>6. \A v, w \in Workers : v # w /\ Working(v)' /\ Working(w)'
       => ~(worker'[v].key = worker'[w].key /\ worker'[v].run = worker'[w].run)
  BY DEF RunInv
<1>7. \A w \in Workers : Fresh(w)'
       => \A n \in inbox' : ~(n.key = worker'[w].key /\ n.run = worker'[w].run)
  BY DEF RunInv, Fresh, Working
<1> QED
  BY <1>4, <1>5, <1>6, <1>7 DEF RunInv

\* A crash takes back jobs in progress, and no others.
LEMMA CrashJob ==
  ASSUME TypeOK, NEW h \in Hosts, Crash(h), NEW k \in ReminderKey
  PROVE  \/ jobs'[k] = jobs[k]
         \/ /\ jobs[k].state = "active" /\ jobs'[k].state = "waiting"
            /\ jobs'[k].attemptsMade = jobs[k].attemptsMade
            /\ jobs'[k].stalled = jobs[k].stalled + 1
<1>1. jobs'[k] = IF \E w \in Workers : Host[w] = h /\ worker[w].key = k /\ HoldsLock(w)
                   THEN StalledBack(jobs[k]) ELSE jobs[k]
  BY DEF Crash
<1> QED
  BY <1>1 DEF HoldsLock, StalledBack, TypeOK, Job

\* What each step does to a job.
LEMMA JobStep ==
  ASSUME TypeOK, DispatchInv, JobInv, Next, NEW j \in ReminderKey
  PROVE  /\ Run(j) <= Run(j)'
         /\ jobs'[j].state = "waiting" =>
              \/ jobs[j].state \in {"none", "waiting"}
              \/ Run(j) < Run(j)'
         /\ jobs'[j].state = "none" => jobs'[j].attemptsMade = 0
         /\ jobs'[j].state \in {"waiting", "active"} => jobs'[j].attemptsMade < Attempts
<1> DEFINE Goal == /\ Run(j) <= Run(j)'
                   /\ jobs'[j].state = "waiting" =>
                        \/ jobs[j].state \in {"none", "waiting"}
                        \/ Run(j) < Run(j)'
                   /\ jobs'[j].state = "none" => jobs'[j].attemptsMade = 0
                   /\ jobs'[j].state \in {"waiting", "active"} => jobs'[j].attemptsMade < Attempts
<1> USE DEF Run
<1>1. jobs[j].attemptsMade \in Nat /\ jobs[j].stalled \in Nat /\ Attempts \in Nat \ {0}
  BY ConstantsAssumption DEF ConstantsAssumption, TypeOK, Job
<1>2. CASE UNCHANGED jobs
  BY <1>1, <1>2 DEF JobInv
<1>3. ASSUME NEW s \in Scans, Enqueue(s)
      PROVE  Goal
  BY <1>1, <1>3 DEF Enqueue, JobInv, TypeOK, Job
<1>4. ASSUME NEW w \in Workers, NEW k \in ReminderKey, TakeJob(w, k)
      PROVE  Goal
  BY <1>1, <1>4 DEF TakeJob, JobInv, TypeOK, Job
<1>5. ASSUME NEW w \in Workers, NEW k \in ReminderKey, FailStalled(w, k)
      PROVE  Goal
  BY <1>1, <1>5 DEF FailStalled, JobInv, TypeOK, Job
<1>6. ASSUME NEW w \in Workers, CompleteJob(w)
      PROVE  Goal
  BY <1>1, <1>6 DEF CompleteJob, JobInv, TypeOK, Job
<1>7. ASSUME NEW w \in Workers, JobFails(w)
      PROVE  Goal
  <2> DEFINE k == worker[w].key
             made == jobs[k].attemptsMade + 1
             st == IF Exhausted(made) THEN "failed" ELSE "waiting"
  <2>1. k \in ReminderKey
    BY <1>7 DEF JobFails, TypeOK, WorkerState
  <2>2. CASE jobs' = [jobs EXCEPT ![k].attemptsMade = made, ![k].state = st]
    BY <1>1, <2>1, <2>2 DEF JobInv, TypeOK, Job, Exhausted
  <2> QED
    BY <1>2, <1>7, <2>2 DEF JobFails
<1>8. ASSUME NEW w \in Workers, LockLost(w)
      PROVE  Goal
  <2> DEFINE k == worker[w].key
  <2>1. k \in ReminderKey /\ jobs[k].state = "active"
    BY <1>8 DEF LockLost, HoldsLock, TypeOK, WorkerState
  <2> QED
    BY <1>1, <1>8, <2>1 DEF LockLost, StalledBack, JobInv, TypeOK, Job
<1>9. ASSUME NEW h \in Hosts, Crash(h)
      PROVE  Goal
  BY <1>1, <1>9, CrashJob DEF JobInv
<1> QED
  BY <1>2, <1>3, <1>4, <1>5, <1>6, <1>7, <1>8, <1>9
  DEF Next, Tick, TaskRequest, CreateTask, UpdateTask, ReinsertTask, RemoveTask, HandleReminderScan,
      ManualScan, ScanStep, QueryDueSoon, QueryOverdue, CreateReminder, DispatchInProcess,
      MarkSentInProcess, FinishScan, ScanFault, WorkerStep, FindReminder, FindTask, Notify,
      UpdateSent, MarkFailed, MarkFailedFault

\* What a step that is no TakeJob does to a slot: it starts no run.
LEMMA SlotStep ==
  ASSUME TypeOK, NEW w \in Workers, NEW v \in Workers,
         JobFails(w) \/ MarkFailedFault(w) \/ LockLost(w)
         \/ (WorkerStep(w) /\ ~\E k \in ReminderKey : TakeJob(w, k)),
         Working(v)'
  PROVE  /\ Working(v) /\ worker'[v].key = worker[v].key /\ worker'[v].run = worker[v].run
         /\ Fresh(v)' => Fresh(v)
<1> USE DEF Working, Fresh
<1>1. CASE worker'[v] = worker[v]
  BY <1>1
<1>2. CASE v = w /\ (FindReminder(w) \/ FindTask(w) \/ Notify(w) \/ UpdateSent(w))
  BY <1>2 DEF FindReminder, FindTask, Notify, UpdateSent, TypeOK, WorkerState
<1>3. ASSUME NEW k, NEW n, OnFailed(w, k, n)
      PROVE  v = w => FALSE
  BY <1>3, OnFailedCases DEF IdleWorker, Slot, TypeOK
<1>4. CASE v = w /\ (CompleteJob(w) \/ MarkFailed(w) \/ MarkFailedFault(w))
  BY <1>4 DEF CompleteJob, MarkFailed, MarkFailedFault, IdleWorker, Slot, TypeOK
<1>5. CASE v = w /\ JobFails(w)
  <2>1. \/ OnFailed(w, worker[w].key, jobs[worker[w].key].attemptsMade + 1)
        \/ worker' = [worker EXCEPT ![w] = IdleWorker]
    BY <1>5 DEF JobFails
  <2>2. worker' # [worker EXCEPT ![w] = IdleWorker]
    BY <1>5 DEF IdleWorker, Slot, TypeOK
  <2> QED
    BY <1>3, <1>5, <2>1, <2>2
<1>6. ASSUME v = w, NEW k \in ReminderKey, FailStalled(w, k)
      PROVE  FALSE
  <2>1. OnFailed(w, k, jobs[k].attemptsMade + 1)
    BY <1>6 DEF FailStalled
  <2> QED
    BY <1>3, <1>6, <2>1
<1>7. CASE LockLost(w)
  BY <1>7 DEF LockLost
<1>8. ASSUME v # w
      PROVE  worker'[v] = worker[v]
  <2>1. CASE JobFails(w)
    <3>1. \/ OnFailed(w, worker[w].key, jobs[worker[w].key].attemptsMade + 1)
          \/ worker' = [worker EXCEPT ![w] = IdleWorker]
      BY <2>1 DEF JobFails
    <3> QED
      BY <1>8, <3>1, OnFailedCases DEF TypeOK
  <2>2. ASSUME NEW k \in ReminderKey, FailStalled(w, k)
        PROVE  worker'[v] = worker[v]
    <3>1. OnFailed(w, k, jobs[k].attemptsMade + 1)
      BY <2>2 DEF FailStalled
    <3> QED
      BY <1>8, <3>1, OnFailedCases DEF TypeOK
  <2>3. CASE FindReminder(w) \/ FindTask(w) \/ Notify(w) \/ UpdateSent(w) \/ CompleteJob(w)
             \/ MarkFailed(w) \/ MarkFailedFault(w) \/ LockLost(w)
    BY <1>8, <2>3 DEF FindReminder, FindTask, Notify, UpdateSent, CompleteJob, MarkFailed,
       MarkFailedFault, LockLost, TypeOK
  <2> QED
    BY <2>1, <2>2, <2>3 DEF WorkerStep
<1> QED
  BY <1>1, <1>2, <1>4, <1>5, <1>6, <1>7, <1>8 DEF WorkerStep

LEMMA TakeJobRunInv ==
  ASSUME TypeOK, TypeOK', DispatchInv, JobInv, RunInv,
         NEW w \in Workers, NEW k \in ReminderKey, TakeJob(w, k)
  PROVE  RunInv'
<1>1. /\ jobs[k].state = "waiting" /\ ~Stalled(k)
      /\ jobs' = [jobs EXCEPT ![k].state = "active"]
      /\ worker' = [worker EXCEPT ![w] = Slot("find", k, Run(k))]
      /\ UNCHANGED inbox
  BY DEF TakeJob
<1>2. \A j \in ReminderKey : /\ jobs'[j].attemptsMade = jobs[j].attemptsMade
                             /\ jobs'[j].stalled = jobs[j].stalled
                             /\ jobs'[j].state = "waiting" => jobs[j].state = "waiting"
  BY <1>1 DEF TypeOK, Job
<1>3. jobs'[k].state = "active"
  BY <1>1 DEF TypeOK, Job
<1>4. Run(k) < Attempts + StalledLimit /\ Run(k) \in Nat
  BY <1>1, ConstantsAssumption DEF ConstantsAssumption, JobInv, Stalled, Run, TypeOK, Job
<1>5. ASSUME NEW j \in ReminderKey, NEW run \in Nat, Behind(j, run)
      PROVE  Behind(j, run)'
  BY <1>2, <1>5 DEF Behind, Run
<1>6. /\ worker'[w].pc = "find" /\ worker'[w].key = k /\ worker'[w].run = Run(k)
      /\ \A v \in Workers \ {w} : worker'[v] = worker[v]
  BY <1>1 DEF Slot, TypeOK
<1>7. \A v \in Workers : Working(v) => worker[v].key \in ReminderKey /\ worker[v].run \in Nat
  BY DEF Working, TypeOK, WorkerState
<1>8. ASSUME NEW v \in Workers, Working(v)'
      PROVE  Behind(worker[v].key, worker[v].run)'
  <2>1. CASE v = w
    BY <1>2, <1>3, <1>4, <1>6, <2>1 DEF Behind, Run, TypeOK, Job
  <2>2. CASE v # w
    <3>1. Working(v) /\ worker'[v] = worker[v]
      BY <1>6, <1>8, <2>2 DEF Working
    <3> QED
      BY <1>2, <1>7, <3>1 DEF RunInv, Behind, Run
  <2> QED
    BY <2>1, <2>2
<1>9. \A n \in inbox' : Behind(n.key, n.run)'
  BY <1>1, <1>5 DEF RunInv, TypeOK, Notification
<1>10. \A v \in Workers \ {w} : Working(v)' =>
         ~(worker'[v].key = worker'[w].key /\ worker'[v].run = worker'[w].run)
  BY <1>1, <1>4, <1>6, <1>7 DEF RunInv, Behind, Working
<1>11. \A u, v \in Workers : u # v /\ Working(u)' /\ Working(v)'
         => ~(worker'[u].key = worker'[v].key /\ worker'[u].run = worker'[v].run)
  BY <1>6, <1>10 DEF RunInv, Working
<1>12. \A n \in inbox : n.key = k => n.run # Run(k)
  BY <1>1, <1>4 DEF RunInv, Behind, TypeOK, Notification
<1>13. \A v \in Workers : Fresh(v)'
         => \A n \in inbox' : ~(n.key = worker'[v].key /\ n.run = worker'[v].run)
  BY <1>1, <1>6, <1>12 DEF RunInv, Fresh
<1> QED
  BY <1>8, <1>9, <1>11, <1>13 DEF RunInv

LEMMA NotifyRunInv ==
  ASSUME TypeOK, TypeOK', RunInv, NEW w \in Workers, Notify(w)
  PROVE  RunInv'
<1> DEFINE new == [key |-> worker[w].key, run |-> worker[w].run, to |-> worker[w].to]
<1>1. Working(w) /\ Fresh(w) /\ UNCHANGED jobs /\ inbox' = inbox \cup {new}
  BY DEF Notify, NotifyAssignee, Working, Fresh
<1>2. /\ worker'[w].pc = "update" /\ worker'[w].key = worker[w].key
      /\ worker'[w].run = worker[w].run /\ \A v \in Workers \ {w} : worker'[v] = worker[v]
  BY DEF Notify, TypeOK, WorkerState
<1>3. \A v \in Workers : /\ Working(v)' <=> Working(v)
                         /\ worker'[v].key = worker[v].key /\ worker'[v].run = worker[v].run
                         /\ Fresh(v)' => Fresh(v) /\ v # w
  BY <1>1, <1>2 DEF Working, Fresh
<1>4. \A v \in Workers : Working(v)' => Behind(worker[v].key, worker[v].run)'
  BY <1>1, <1>3 DEF RunInv, Behind, Run
<1>5. \A n \in inbox' : Behind(n.key, n.run)'
  BY <1>1 DEF RunInv, Behind, Run
<1>6. \A u, v \in Workers : u # v /\ Working(u)' /\ Working(v)'
         => ~(worker'[u].key = worker'[v].key /\ worker'[u].run = worker'[v].run)
  BY <1>3 DEF RunInv
<1>7. \A v \in Workers : Fresh(v)'
         => \A n \in inbox' : ~(n.key = worker'[v].key /\ n.run = worker'[v].run)
  <2> SUFFICES ASSUME NEW v \in Workers, Fresh(v)', NEW n \in inbox'
               PROVE  ~(n.key = worker[v].key /\ n.run = worker[v].run)
    BY <1>3
  <2>1. Fresh(v) /\ v # w /\ Working(v)
    BY <1>3 DEF Fresh, Working
  <2>2. CASE n \in inbox
    BY <2>1, <2>2 DEF RunInv
  <2>3. CASE n = new
    BY <1>1, <2>1, <2>3 DEF RunInv
  <2> QED
    BY <1>1, <2>2, <2>3
<1> QED
  BY <1>4, <1>5, <1>6, <1>7 DEF RunInv

\* The first runs: nothing has worked on a reminder that is being dispatched.
LEMMA DispatchRunInv ==
  ASSUME TypeOK, TypeOK', DispatchInv, JobInv, RunInv, NEW s \in Scans,
         Enqueue(s) \/ DispatchInProcess(s)
  PROVE  RunInv'
<1> DEFINE k == scan[s].cur.key
<1>1. k \in ReminderKey /\ Dispatching(s, k) /\ scan[s].pc = "dispatch"
  BY DEF Enqueue, DispatchInProcess, TypeOK, ScanState, Dispatch, Dispatching
<1>2. jobs[k].state = "none" /\ (\A n \in inbox : n.key # k)
  BY <1>1 DEF DispatchInv, SingleDispatch
<1>3. \A w \in Workers : Working(w) => worker[w].key # k /\ worker[w].key \in ReminderKey
  BY <1>2 DEF DispatchInv, Working, TypeOK, WorkerState
<1>4. UNCHANGED worker
  BY DEF Enqueue, DispatchInProcess
<1>5. \A j \in ReminderKey \ {k} : jobs'[j] = jobs[j]
  BY <1>1 DEF Enqueue, DispatchInProcess, TypeOK
<1>6. \A w \in Workers : Working(w)' => Behind(worker[w].key, worker[w].run)'
  BY <1>3, <1>4, <1>5 DEF RunInv, Working, Behind, Run
<1>7. \A v, w \in Workers : v # w /\ Working(v)' /\ Working(w)'
         => ~(worker'[v].key = worker'[w].key /\ worker'[v].run = worker'[w].run)
  BY <1>4 DEF RunInv, Working
<1>8. \A n \in inbox' : n \in inbox \/ (n.key = k /\ n.run = 0 /\ UNCHANGED jobs)
  BY DEF Enqueue, DispatchInProcess, NotifyAssignee
<1>9. ASSUME NEW n \in inbox'
      PROVE  Behind(n.key, n.run)'
  <2>1. CASE n \in inbox
    <3>1. n.key \in ReminderKey \ {k}
      BY <1>2, <2>1 DEF TypeOK, Notification
    <3> QED
      BY <1>5, <2>1, <3>1 DEF RunInv, Behind, Run
  <2>2. CASE n.key = k /\ n.run = 0 /\ UNCHANGED jobs
    BY <1>1, <1>2, <2>2, ConstantsAssumption
    DEF ConstantsAssumption, Behind, Run, TypeOK, Job
  <2> QED
    BY <1>8, <2>1, <2>2
<1>10. \A w \in Workers : Fresh(w)'
         => \A n \in inbox' : ~(n.key = worker'[w].key /\ n.run = worker'[w].run)
  BY <1>3, <1>4, <1>8 DEF RunInv, Fresh, Working
<1> QED
  BY <1>6, <1>7, <1>9, <1>10 DEF RunInv

LEMMA RunInvStep ==
  TypeOK /\ TypeOK' /\ DispatchInv /\ JobInv /\ RunInv /\ [Next]_vars => JobInv' /\ RunInv'
<1> SUFFICES ASSUME TypeOK, TypeOK', DispatchInv, JobInv, RunInv, [Next]_vars
             PROVE  JobInv' /\ RunInv'
  OBVIOUS
<1>1. CASE UNCHANGED vars
  BY <1>1 DEF vars, JobInv, RunInv, Behind, Run, Working, Fresh
<1>2. CASE Next
  <2>1. JobInv'
    BY <1>2, JobStep DEF JobInv
  <2>2. ASSUME NEW s \in Scans, Enqueue(s) \/ DispatchInProcess(s)
        PROVE  RunInv'
    BY <2>2, DispatchRunInv
  <2>3. ASSUME NEW w \in Workers, NEW k \in ReminderKey, TakeJob(w, k)
        PROVE  RunInv'
    BY <2>3, TakeJobRunInv
  <2>4. ASSUME NEW w \in Workers, Notify(w)
        PROVE  RunInv'
    BY <2>4, NotifyRunInv
  <2>5. ASSUME UNCHANGED <<inbox, jobs, worker>>
        PROVE  RunInv'
    <3>1. \A k \in ReminderKey : Run(k)' = Run(k) /\ Run(k) \in Int
      BY <2>5 DEF Run, TypeOK, Job
    <3>2. \A w \in Workers : (Working(w)' <=> Working(w)) /\ (Fresh(w)' <=> Fresh(w))
      BY <2>5 DEF Working, Fresh
    <3> QED
      BY <2>5, <3>1, <3>2, RunFrame
  <2>6. ASSUME inbox' = inbox,
               \A w \in Workers : Working(w)' =>
                 /\ Working(w) /\ worker'[w].key = worker[w].key
                 /\ worker'[w].run = worker[w].run
                 /\ Fresh(w)' => Fresh(w),
               \A k \in ReminderKey : jobs[k].state = "none" => jobs'[k].state = "none"
        PROVE  RunInv'
    BY <1>2, <2>6, JobStep, RunFrame
  <2>7. ASSUME NEW h \in Hosts, Crash(h)
        PROVE  RunInv'
    <3>1. \A w \in Workers : worker'[w] = worker[w] \/ ~Working(w)'
      BY <2>7 DEF Crash, Working, IdleWorker, Slot
    <3>2. \A w \in Workers : Working(w)' =>
            /\ Working(w) /\ worker'[w].key = worker[w].key
            /\ worker'[w].run = worker[w].run
            /\ Fresh(w)' => Fresh(w)
      BY <3>1 DEF Working, Fresh
    <3>3. \A k \in ReminderKey : jobs[k].state = "none" => jobs'[k].state = "none"
      BY <2>7, CrashJob
    <3>4. inbox' = inbox
      BY <2>7 DEF Crash
    <3> QED
      BY <2>6, <3>2, <3>3, <3>4
  <2>8. ASSUME NEW w \in Workers, ~Notify(w),
               JobFails(w) \/ MarkFailedFault(w) \/ LockLost(w)
               \/ (WorkerStep(w) /\ ~\E k \in ReminderKey : TakeJob(w, k))
        PROVE  RunInv'
    <3>1. inbox' = inbox
      BY <2>8 DEF JobFails, MarkFailedFault, LockLost, WorkerStep, FailStalled, FindReminder,
         FindTask, UpdateSent, CompleteJob, MarkFailed
    <3>2. \A k \in ReminderKey : jobs[k].state = "none" => jobs'[k].state = "none"
      BY <2>8, WorkerKeepsNone
    <3>3. \A v \in Workers : Working(v)' =>
            /\ Working(v) /\ worker'[v].key = worker[v].key
            /\ worker'[v].run = worker[v].run
            /\ Fresh(v)' => Fresh(v)
      BY <2>8, SlotStep
    <3> QED
      BY <2>6, <3>1, <3>2, <3>3
  <2>9. CASE Tick \/ TaskRequest
    <3>1. UNCHANGED <<inbox, jobs, worker>>
      BY <2>9 DEF Tick, TaskRequest, CreateTask, UpdateTask, ReinsertTask, RemoveTask
    <3> QED
      BY <2>1, <2>5, <3>1
  <2>10. ASSUME NEW s \in Scans,
                HandleReminderScan(s) \/ ManualScan(s) \/ ScanStep(s) \/ ScanFault(s)
         PROVE  RunInv'
    BY <2>2, <2>5, <2>10 DEF HandleReminderScan, ManualScan, ScanStep, QueryDueSoon,
       QueryOverdue, CreateReminder, MarkSentInProcess, FinishScan, ScanFault
  <2>11. ASSUME NEW w \in Workers,
                WorkerStep(w) \/ JobFails(w) \/ MarkFailedFault(w) \/ LockLost(w)
         PROVE  RunInv'
    BY <2>3, <2>4, <2>8, <2>11
  <2> QED
    BY <1>2, <2>1, <2>7, <2>9, <2>10, <2>11 DEF Next
<1> QED
  BY <1>1, <1>2

\* At-least-once delivery repeats itself boundedly: a delivery run notifies
\* once, and a reminder has no more runs than its attempts and the stalled
\* limit allow, whatever crashes, fails, stalls or loses its lock.
THEOREM DuplicateBoundCorrect == Spec => []DuplicateBound
<1>1. Init => JobInv /\ RunInv
  BY DEF Init, JobInv, RunInv, Working, Fresh, IdleWorker, Slot, NoJob
<1>2. RunInv => DuplicateBound
  BY DEF RunInv, DuplicateBound, Behind, Working, Fresh
<1> QED
  BY <1>1, <1>2, TypeCorrect, InitDispatchInv, RowLivesStep, DispatchInvStep, RunInvStep,
     PTL DEF Spec

-----------------------------------------------------------------------------
(* FAILED.  A slot marks a reminder FAILED only for a job that has failed   *)
(* with its attempts used, and a failed job stays as it is.                 *)

DeadLettered(k) == jobs[k].state = "failed" /\ jobs[k].attemptsMade >= Attempts

FailedInv ==
  /\ FailedIsFinal
  /\ \A w \in Workers : worker[w].pc = "markFailed" => DeadLettered(worker[w].key)

LEMMA DeadLetteredStays ==
  ASSUME TypeOK, DispatchInv, Next, NEW j \in ReminderKey, DeadLettered(j)
  PROVE  DeadLettered(j)'
<1>1. jobs[j].state = "failed"
  BY DEF DeadLettered
<1>2. jobs'[j] = jobs[j]
  <2>1. CASE UNCHANGED jobs
    BY <2>1
  <2>2. ASSUME NEW s \in Scans, Enqueue(s)
        PROVE  jobs'[j] = jobs[j]
    BY <1>1, <2>2 DEF Enqueue, TypeOK
  <2>3. ASSUME NEW w \in Workers, NEW k \in ReminderKey, TakeJob(w, k) \/ FailStalled(w, k)
        PROVE  jobs'[j] = jobs[j]
    BY <1>1, <2>3 DEF TakeJob, FailStalled, TypeOK
  <2>4. ASSUME NEW w \in Workers, CompleteJob(w) \/ JobFails(w) \/ LockLost(w)
        PROVE  jobs'[j] = jobs[j]
    BY <1>1, <2>4 DEF CompleteJob, JobFails, LockLost, HoldsLock, TypeOK
  <2>5. ASSUME NEW h \in Hosts, Crash(h)
        PROVE  jobs'[j] = jobs[j]
    BY <1>1, <2>5, CrashJob
  <2> QED
    BY <2>1, <2>2, <2>3, <2>4, <2>5
    DEF Next, Tick, TaskRequest, CreateTask, UpdateTask, ReinsertTask, RemoveTask, HandleReminderScan,
        ManualScan, ScanStep, QueryDueSoon, QueryOverdue, CreateReminder, DispatchInProcess,
        MarkSentInProcess, FinishScan, ScanFault, WorkerStep, FindReminder, FindTask, Notify,
        UpdateSent, MarkFailed, MarkFailedFault
<1> QED
  BY <1>2 DEF DeadLettered

\* Only MarkFailed makes a reminder FAILED.
LEMMA FailedOnlyByMarkFailed ==
  ASSUME TypeOK, Next, NEW k \in ReminderKey, reminders'[k].status = "FAILED",
         reminders[k].status # "FAILED"
  PROVE  \E w \in Workers : MarkFailed(w) /\ worker[w].key = k
<1>1. CASE UNCHANGED reminders
  BY <1>1
<1>2. ASSUME NEW t \in Tasks, RemoveTask(t)
      PROVE  FALSE
  BY <1>2 DEF RemoveTask, NoRow
<1>3. ASSUME NEW s \in Scans, CreateReminder(s)
      PROVE  FALSE
  <2>1. PICK u \in UniqueKey : reminders' = [reminders EXCEPT ![NewRow(u)].status = "PENDING"]
    BY <1>1, <1>3, NewRows
  <2> QED
    BY <2>1 DEF TypeOK, ReminderRow
<1>4. ASSUME NEW s \in Scans, MarkSentInProcess(s)
      PROVE  FALSE
  <2> DEFINE j == scan[s].cur.key
  <2>1. j \in ReminderKey
    BY <1>4 DEF MarkSentInProcess, TypeOK, ScanState, Dispatch
  <2>2. \/ UNCHANGED reminders
        \/ reminders' = [reminders EXCEPT ![j] = [reminders[j] EXCEPT !.status = "SENT"]]
    BY <1>4 DEF MarkSentInProcess, UpdateRow
  <2> QED
    BY <2>1, <2>2 DEF TypeOK, ReminderRow
<1>5. ASSUME NEW w \in Workers, UpdateSent(w)
      PROVE  FALSE
  BY <1>5 DEF UpdateSent, UpdateRow, TypeOK, ReminderRow
<1>6. ASSUME NEW w \in Workers, MarkFailed(w)
      PROVE  worker[w].key = k
  BY <1>6 DEF MarkFailed, UpdateRow, TypeOK
<1> QED
  BY <1>1, <1>2, <1>3, <1>4, <1>5, <1>6
  DEF Next, Tick, TaskRequest, CreateTask, UpdateTask, ReinsertTask, HandleReminderScan, ManualScan, ScanStep,
      QueryDueSoon, QueryOverdue, Enqueue, DispatchInProcess, FinishScan, ScanFault, WorkerStep,
      TakeJob, FailStalled, FindReminder, FindTask, Notify, CompleteJob, JobFails,
      MarkFailedFault, LockLost, Crash

\* onFailed sends a slot to markFailed only with its job dead-lettered.
LEMMA MarkFailedAfterDeadLetter ==
  ASSUME TypeOK, TypeOK', DispatchInv, FailedInv, Next, NEW v \in Workers,
         worker'[v].pc = "markFailed"
  PROVE  DeadLettered(worker[v].key)'
<1>1. CASE worker'[v] = worker[v]
  <2>1. DeadLettered(worker[v].key) /\ worker[v].key \in ReminderKey
    BY <1>1 DEF FailedInv, TypeOK, WorkerState
  <2> DEFINE k == worker[v].key
  <2>2. jobs'[k].state = "failed" /\ jobs'[k].attemptsMade >= Attempts
    BY <2>1, DeadLetteredStays DEF DeadLettered
  <2> QED
    BY <1>1, <2>2 DEF DeadLettered
<1>2. ASSUME NEW k \in ReminderKey, NEW w \in Workers, OnFailed(w, k, jobs[k].attemptsMade + 1),
             jobs'[k].attemptsMade = jobs[k].attemptsMade + 1,
             Exhausted(jobs[k].attemptsMade + 1) => jobs'[k].state = "failed"
      PROVE  DeadLettered(worker[v].key)'
  <2>1. \/ worker' = [worker EXCEPT ![w] = IdleWorker]
        \/ /\ Exhausted(jobs[k].attemptsMade + 1)
           /\ worker' = [worker EXCEPT ![w] = Slot("markFailed", k, 0)]
    BY <1>2, OnFailedCases
  <2>2. CASE v # w
    <3>1. worker'[v] = worker[v]
      BY <2>1, <2>2 DEF TypeOK
    <3> QED
      BY <1>1, <3>1
  <2>3. CASE v = w
    <3>1. Exhausted(jobs[k].attemptsMade + 1) /\ worker'[v].key = k
      BY <2>1, <2>3 DEF IdleWorker, Slot, TypeOK
    <3> QED
      BY <1>2, <3>1 DEF DeadLettered, Exhausted
  <2> QED
    BY <2>2, <2>3
<1>3. ASSUME NEW w \in Workers, NEW k \in ReminderKey, FailStalled(w, k)
      PROVE  DeadLettered(worker[v].key)'
  BY <1>2, <1>3 DEF FailStalled, TypeOK, Job
<1>4. ASSUME NEW w \in Workers, JobFails(w)
      PROVE  DeadLettered(worker[v].key)'
  <2> DEFINE k == worker[w].key
             made == jobs[k].attemptsMade + 1
             st == IF Exhausted(made) THEN "failed" ELSE "waiting"
  <2>1. k \in ReminderKey
    BY <1>4 DEF JobFails, TypeOK, WorkerState
  <2>2. \/ OnFailed(w, k, made) /\ jobs' = [jobs EXCEPT ![k].attemptsMade = made, ![k].state = st]
        \/ worker' = [worker EXCEPT ![w] = IdleWorker]
    BY <1>4 DEF JobFails
  <2>3. CASE jobs' = [jobs EXCEPT ![k].attemptsMade = made, ![k].state = st] /\ OnFailed(w, k, made)
    <3>1. jobs'[k].attemptsMade = made /\ jobs'[k].state = st
      BY <2>1, <2>3 DEF TypeOK, Job
    <3> QED
      BY <1>2, <2>1, <2>3, <3>1
  <2>4. CASE worker' = [worker EXCEPT ![w] = IdleWorker]
    BY <1>1, <2>4 DEF IdleWorker, Slot, TypeOK
  <2> QED
    BY <2>2, <2>3, <2>4
<1>5. ASSUME NEW w \in Workers,
             LockLost(w) \/ MarkFailed(w) \/ MarkFailedFault(w) \/ CompleteJob(w) \/ FindReminder(w)
             \/ FindTask(w) \/ Notify(w) \/ UpdateSent(w) \/ \E k \in ReminderKey : TakeJob(w, k)
      PROVE  worker'[v] = worker[v]
  <2>1. CASE v # w
    BY <1>5, <2>1 DEF LockLost, MarkFailed, MarkFailedFault, CompleteJob, FindReminder, FindTask,
       Notify, UpdateSent, TakeJob, TypeOK
  <2>2. ASSUME v = w, ~LockLost(w)
        PROVE  worker'[v].pc # "markFailed"
    BY <1>5, <2>2 DEF MarkFailed, MarkFailedFault, CompleteJob, FindReminder, FindTask,
       Notify, UpdateSent, TakeJob, IdleWorker, Slot, TypeOK, WorkerState
  <2>3. CASE LockLost(w)
    BY <2>3 DEF LockLost
  <2> QED
    BY <2>1, <2>2, <2>3
<1>6. ASSUME NEW h \in Hosts, Crash(h)
      PROVE  worker'[v] = worker[v]
  BY <1>6 DEF Crash, IdleWorker, Slot
<1>7. ASSUME NEW s \in Scans,
             HandleReminderScan(s) \/ ManualScan(s) \/ ScanStep(s) \/ ScanFault(s)
      PROVE  worker'[v] = worker[v]
  BY <1>7 DEF HandleReminderScan, ManualScan, ScanStep, QueryDueSoon, QueryOverdue, CreateReminder,
     Enqueue, DispatchInProcess, MarkSentInProcess, FinishScan, ScanFault
<1>8. ASSUME Tick \/ TaskRequest
      PROVE  worker'[v] = worker[v]
  BY <1>8 DEF Tick, TaskRequest, CreateTask, UpdateTask, ReinsertTask, RemoveTask
<1> QED
  BY <1>1, <1>3, <1>4, <1>5, <1>6, <1>7, <1>8 DEF Next, WorkerStep

LEMMA FailedInvStep ==
  TypeOK /\ TypeOK' /\ DispatchInv /\ FailedInv /\ [Next]_vars => FailedInv'
<1> SUFFICES ASSUME TypeOK, TypeOK', DispatchInv, FailedInv, [Next]_vars PROVE FailedInv'
  OBVIOUS
<1>1. CASE UNCHANGED vars
  BY <1>1 DEF vars, FailedInv, FailedIsFinal, DeadLettered
<1>2. CASE Next
  <2>1. ASSUME NEW k \in ReminderKey, reminders'[k].status = "FAILED"
        PROVE  DeadLettered(k)'
    <3>1. DeadLettered(k)
      <4>1. CASE reminders[k].status = "FAILED"
        BY <4>1 DEF FailedInv, FailedIsFinal, DeadLettered
      <4>2. CASE reminders[k].status # "FAILED"
        <5>1. PICK w \in Workers : MarkFailed(w) /\ worker[w].key = k
          BY <1>2, <2>1, <4>2, FailedOnlyByMarkFailed
        <5> QED
          BY <5>1 DEF FailedInv, MarkFailed
      <4> QED
        BY <4>1, <4>2
    <3> QED
      BY <1>2, <3>1, DeadLetteredStays
  <2>2. \A v \in Workers : worker'[v].pc = "markFailed" => DeadLettered(worker[v].key)'
    BY <1>2, MarkFailedAfterDeadLetter
  <2> QED
    BY <2>1, <2>2 DEF FailedInv, FailedIsFinal, DeadLettered
<1> QED
  BY <1>1, <1>2

\* A reminder is FAILED only when its job is dead-lettered with every attempt
\* used, and it will not be delivered any more.
THEOREM FailedIsFinalCorrect == Spec => []FailedIsFinal
<1>1. Init => FailedInv
  BY DEF Init, FailedInv, FailedIsFinal, IdleWorker, Slot, NoRow
<1>2. FailedInv => FailedIsFinal
  BY DEF FailedInv
<1> QED
  BY <1>1, <1>2, TypeCorrect, InitDispatchInv, RowLivesStep, DispatchInvStep, FailedInvStep,
     PTL DEF Spec

-----------------------------------------------------------------------------
(* No due-soon reminder after an overdue one.  Scans of one cron handler do  *)
(* not overlap, so what is overdue for one of them is overdue for every      *)
(* later one; the other scans leave their mark in the history overlapped.    *)

\* The flag running of a process is up during its cron scan.
Flagged == \A s \in Cron : InProgress(s) => running[Host[s]]

\* Scans in progress at once are of different handlers, and marked.
Met ==
  \A r, s \in Scans : r # s /\ InProgress(r) /\ InProgress(s) =>
    ~SameHandler(r, s) /\ scan[r].overlapped

\* What a scan has found, as of the time it started at.
FoundAt(s) ==
  /\ scan[s].at <= now
  /\ \A i \in scan[s].dueSoon : i.unique.type = "DUE_SOON" /\ i.unique.scheduledFor > scan[s].at
  /\ \A i \in scan[s].overdue : i.unique.type = "OVERDUE" /\ i.unique.scheduledFor <= scan[s].at

\* An overdue reminder was created by a scan that started after its due date;
\* another scan still in progress may have started before, but is marked.
OverdueSince(k) ==
  /\ k.scheduledFor <= now
  /\ \A s \in Scans : InProgress(s) => k.scheduledFor <= scan[s].at \/ scan[s].overlapped

ClockInv ==
  /\ Flagged
  /\ Met
  /\ \A s \in Scans : InProgress(s) => FoundAt(s)
  /\ \A k \in ReminderKey : k.type = "OVERDUE" /\ reminders[k].status # "none" => OverdueSince(k)

LEMMA ClockTypes ==
  ASSUME TypeOK
  PROVE  /\ now \in Nat /\ \A s \in Scans : scan[s].at \in Nat
         /\ \A k \in ReminderKey : k.scheduledFor \in Nat
         /\ \A u \in UniqueKey : u.scheduledFor \in Nat
  BY ConstantsAssumption
  DEF ConstantsAssumption, TypeOK, ScanState, ReminderKey, UniqueKey

\* A step in which no scan starts or finds anything and no reminder is created.
LEMMA ClockFrame ==
  ASSUME TypeOK, TypeOK', ClockInv, now' >= now,
         \A s \in Scans : scan'[s].pc # "idle" =>
           /\ InProgress(s) /\ scan'[s].at = scan[s].at
           /\ scan'[s].overlapped = scan[s].overlapped
           /\ scan'[s].dueSoon \subseteq scan[s].dueSoon /\ scan'[s].overdue \subseteq scan[s].overdue
           /\ s \in Cron => running'[Host[s]] = running[Host[s]],
         \A k \in ReminderKey : reminders[k].status = "none" => reminders'[k].status = "none"
  PROVE  ClockInv'
<1>1. Flagged' /\ Met'
  BY DEF ClockInv, Flagged, Met, InProgress, SameHandler, Scans
<1>2. ASSUME NEW s \in Scans, scan'[s].pc # "idle" PROVE FoundAt(s)'
  BY <1>2, ClockTypes DEF ClockInv, FoundAt, TypeOK
<1>3. ASSUME NEW k \in ReminderKey, k.type = "OVERDUE", reminders'[k].status # "none"
      PROVE  OverdueSince(k)'
  <2>1. OverdueSince(k)
    BY <1>3 DEF ClockInv
  <2> QED
    BY <2>1, ClockTypes DEF OverdueSince, InProgress, TypeOK
<1> QED
  BY <1>1, <1>2, <1>3 DEF ClockInv, InProgress

\* A scan that starts reads a clock no overdue reminder is ahead of, and marks
\* the scans it overlaps.
LEMMA StartClock ==
  ASSUME TypeOK, TypeOK', ClockInv, NEW s \in Scans, HandleReminderScan(s) \/ ManualScan(s)
  PROVE  ClockInv'
<1>1. /\ ~InProgress(s) /\ StartScan(s) /\ now' = now /\ reminders' = reminders
      /\ \/ s \in Manual /\ running' = running
         \/ s \in Cron /\ ~running[Host[s]] /\ running' = [running EXCEPT ![Host[s]] = TRUE]
  BY DEF HandleReminderScan, ManualScan
<1>2. /\ scan'[s].at = now /\ scan'[s].dueSoon = {} /\ scan'[s].overdue = {}
      /\ scan'[s].overlapped = \E q \in Scans : InProgress(q) /\ ~SameHandler(q, s)
  BY <1>1, Started
<1>3. ASSUME NEW r \in Scans, r # s
      PROVE  /\ scan'[r].pc = scan[r].pc /\ scan'[r].at = scan[r].at
             /\ scan'[r].dueSoon = scan[r].dueSoon /\ scan'[r].overdue = scan[r].overdue
             /\ scan'[r].overlapped = (scan[r].overlapped \/ (InProgress(r) /\ ~SameHandler(r, s)))
  BY <1>1, <1>3, Started DEF SameScan
<1>4. ASSUME NEW r \in Scans, InProgress(r) PROVE r # s /\ ~SameHandler(r, s) /\ ~SameHandler(s, r)
  BY <1>1, <1>4, ConstantsAssumption
  DEF ConstantsAssumption, SameHandler, ClockInv, Flagged, Scans
<1>5. Flagged'
  BY <1>1, <1>3, ConstantsAssumption
  DEF ConstantsAssumption, ClockInv, Flagged, InProgress, Scans, TypeOK
<1>6. Met'
  <2> SUFFICES ASSUME NEW r \in Scans, NEW q \in Scans, r # q, InProgress(r)', InProgress(q)'
               PROVE  ~SameHandler(r, q) /\ scan'[r].overlapped
    BY DEF Met, SameHandler
  <2>1. CASE r # s /\ q # s
    <3>1. InProgress(r) /\ InProgress(q)
      BY <1>3, <2>1 DEF InProgress
    <3> QED
      BY <1>3, <2>1, <3>1 DEF ClockInv, Met
  <2>2. CASE r = s /\ q # s
    <3>1. InProgress(q)
      BY <1>3, <2>2 DEF InProgress
    <3> QED
      BY <1>2, <1>4, <2>2, <3>1
  <2>3. CASE q = s /\ r # s
    <3>1. InProgress(r)
      BY <1>3, <2>3 DEF InProgress
    <3> QED
      BY <1>3, <1>4, <2>3, <3>1
  <2> QED
    BY <2>1, <2>2, <2>3
<1>7. ASSUME NEW r \in Scans, InProgress(r)' PROVE FoundAt(r)'
  <2>1. CASE r = s
    BY <1>1, <1>2, <2>1, ClockTypes DEF FoundAt
  <2>2. CASE r # s
    <3>1. FoundAt(r)
      BY <1>3, <1>7, <2>2 DEF ClockInv, InProgress
    <3> QED
      BY <1>1, <1>3, <2>2, <3>1 DEF FoundAt
  <2> QED
    BY <2>1, <2>2
<1>8. ASSUME NEW k \in ReminderKey, k.type = "OVERDUE", reminders'[k].status # "none"
      PROVE  OverdueSince(k)'
  <2>1. OverdueSince(k)
    BY <1>1, <1>8 DEF ClockInv
  <2>2. ASSUME NEW r \in Scans, InProgress(r)'
        PROVE  k.scheduledFor <= scan'[r].at \/ scan'[r].overlapped
    <3>1. CASE r = s
      BY <1>2, <2>1, <3>1 DEF OverdueSince
    <3>2. CASE r # s
      BY <1>3, <2>1, <2>2, <3>2 DEF OverdueSince, InProgress
    <3> QED
      BY <3>1, <3>2
  <2> QED
    BY <1>1, <2>1, <2>2 DEF OverdueSince
<1> QED
  BY <1>5, <1>6, <1>7, <1>8 DEF ClockInv

\* The queries split the due dates at the scan's clock.
LEMMA QueryClock ==
  ASSUME TypeOK, TypeOK', ClockInv, NEW s \in Scans, QueryDueSoon(s) \/ QueryOverdue(s)
  PROVE  ClockInv'
<1>1. now' = now /\ running' = running /\ reminders' = reminders /\ InProgress(s)
  BY DEF QueryDueSoon, QueryOverdue, InProgress
<1>2. /\ \A r \in Scans : r # s => scan'[r] = scan[r]
      /\ scan'[s].at = scan[s].at /\ scan'[s].overlapped = scan[s].overlapped
      /\ \/ scan'[s].dueSoon = scan[s].dueSoon
         \/ scan'[s].dueSoon = ItemsOf({t \in OpenTasks : /\ tasks[t].due > scan[s].at
                                                          /\ tasks[t].due <= scan[s].at + Window},
                                       "DUE_SOON")
      /\ \/ scan'[s].overdue = scan[s].overdue
         \/ scan'[s].overdue = ItemsOf({t \in OpenTasks : tasks[t].due <= scan[s].at}, "OVERDUE")
  <2>1. scan[s] \in ScanState /\ DOMAIN scan = Scans
    BY DEF TypeOK
  <2> QED
    BY <2>1 DEF QueryDueSoon, QueryOverdue, TypeOK, ScanState
<1>3. ASSUME NEW r \in Scans, scan'[r].pc # "idle"
      PROVE  InProgress(r) /\ scan'[r].at = scan[r].at /\ scan'[r].overlapped = scan[r].overlapped
  BY <1>1, <1>2, <1>3 DEF InProgress
<1>4. Flagged' /\ Met'
  BY <1>1, <1>3 DEF ClockInv, Flagged, Met, InProgress, SameHandler, Scans
<1>5. FoundAt(s)'
  <2>1. FoundAt(s)
    BY <1>1 DEF ClockInv
  <2>2. \A i \in ItemsOf({t \in OpenTasks : tasks[t].due > scan[s].at /\ tasks[t].due <= scan[s].at + Window},
                         "DUE_SOON") :
          i.unique.type = "DUE_SOON" /\ i.unique.scheduledFor > scan[s].at
    BY DEF ItemsOf
  <2>3. \A i \in ItemsOf({t \in OpenTasks : tasks[t].due <= scan[s].at}, "OVERDUE") :
          i.unique.type = "OVERDUE" /\ i.unique.scheduledFor <= scan[s].at
    BY DEF ItemsOf
  <2>4. \A i \in scan'[s].dueSoon : i.unique.type = "DUE_SOON" /\ i.unique.scheduledFor > scan[s].at
    BY <1>2, <2>1, <2>2 DEF FoundAt
  <2>5. \A i \in scan'[s].overdue : i.unique.type = "OVERDUE" /\ i.unique.scheduledFor <= scan[s].at
    BY <1>2, <2>1, <2>3 DEF FoundAt
  <2> QED
    BY <1>1, <1>2, <2>1, <2>4, <2>5 DEF FoundAt
<1>6. ASSUME NEW r \in Scans, InProgress(r)' PROVE FoundAt(r)'
  <2>1. CASE r = s
    BY <1>5, <2>1
  <2>2. CASE r # s
    BY <1>1, <1>2, <1>3, <1>6, <2>2 DEF ClockInv, FoundAt, InProgress
  <2> QED
    BY <2>1, <2>2
<1>7. ASSUME NEW k \in ReminderKey, k.type = "OVERDUE", reminders'[k].status # "none"
      PROVE  OverdueSince(k)'
  BY <1>1, <1>3, <1>7 DEF ClockInv, OverdueSince, InProgress
<1> QED
  BY <1>4, <1>6, <1>7 DEF ClockInv

\* A scan that ends lowers no other scan's flag.
LEMMA EndKeepsFlags ==
  ASSUME TypeOK, ClockInv, NEW s \in Scans, InProgress(s), EndScan(s),
         NEW r \in Cron, InProgress(r), r # s
  PROVE  running'[Host[r]] = running[Host[r]]
<1>1. s \in Cron => Host[s] # Host[r]
  BY DEF ClockInv, Met, SameHandler, Scans
<1> QED
  BY <1>1, ConstantsAssumption DEF ConstantsAssumption, EndScan, TypeOK

\* What creating a reminder does to the rows and to the scan.
LEMMA Created ==
  ASSUME TypeOK, NEW s \in Scans, CreateReminder(s)
  PROVE  \/ EndScan(s) /\ reminders' = reminders
         \/ \E i \in NextItems(s), k \in ReminderKey :
              /\ k = NewRow(i.unique)
              /\ running' = running
              /\ \A j \in ReminderKey : j # k => reminders'[j] = reminders[j]
              /\ \A r \in Scans : r # s => scan'[r] = scan[r]
              /\ scan'[s].at = scan[s].at /\ scan'[s].overlapped = scan[s].overlapped
              /\ scan'[s].dueSoon \subseteq scan[s].dueSoon
              /\ scan'[s].overdue \subseteq scan[s].overdue
              /\ reminders' = reminders \/ (scan'[s].cur # None /\ scan'[s].cur.key = k)
<1>1. PICK i \in NextItems(s) :
        \/ EndScan(s) /\ UNCHANGED reminders
        \/ /\ scan' = [scan EXCEPT ![s].dueSoon = @ \ {i}, ![s].overdue = @ \ {i}]
           /\ UNCHANGED <<reminders, running>>
        \/ /\ reminders' = [reminders EXCEPT ![NewRow(i.unique)].status = "PENDING"]
           /\ scan' = [scan EXCEPT ![s].dueSoon = @ \ {i}, ![s].overdue = @ \ {i},
                                   ![s].cur = [key |-> NewRow(i.unique), to |-> i.to],
                                   ![s].pc = "dispatch"]
           /\ UNCHANGED running
  BY DEF CreateReminder
<1>2. PICK k \in ReminderKey : k = NewRow(i.unique)
  BY NextItemsType, NewRowType
<1>3. [key |-> k, to |-> i.to] # None
  BY NextItemsType, ConstantsAssumption DEF ConstantsAssumption, Dispatch
<1>4. scan[s] \in ScanState /\ scan \in [Scans -> ScanState]
  BY DEF TypeOK
<1> QED
  BY <1>1, <1>2, <1>3, <1>4 DEF TypeOK, ScanState

LEMMA CreateClock ==
  ASSUME TypeOK, TypeOK', ClockInv, NEW s \in Scans, CreateReminder(s)
  PROVE  ClockInv'
<1>1. InProgress(s) /\ now' = now /\ FoundAt(s)
  BY DEF CreateReminder, InProgress, ClockInv
<1>2. CASE EndScan(s) /\ reminders' = reminders
  <2>1. \A r \in Scans : scan'[r].pc # "idle" => r # s /\ scan'[r] = scan[r] /\ InProgress(r)
    BY <1>2 DEF EndScan, IdleScan, InProgress, TypeOK
  <2>2. \A r \in Scans : scan'[r].pc # "idle" /\ r \in Cron => running'[Host[r]] = running[Host[r]]
    BY <1>1, <1>2, <2>1, EndKeepsFlags
  <2> QED
    BY <1>1, <1>2, <2>1, <2>2, ClockTypes, ClockFrame
<1>3. ASSUME NEW i \in NextItems(s), NEW k \in ReminderKey, k = NewRow(i.unique),
             running' = running,
             \A j \in ReminderKey : j # k => reminders'[j] = reminders[j],
             \A r \in Scans : r # s => scan'[r] = scan[r],
             scan'[s].at = scan[s].at, scan'[s].overlapped = scan[s].overlapped,
             scan'[s].dueSoon \subseteq scan[s].dueSoon, scan'[s].overdue \subseteq scan[s].overdue
      PROVE  ClockInv'
  <2>1. ASSUME NEW r \in Scans, InProgress(r)'
        PROVE  /\ InProgress(r) /\ scan'[r].at = scan[r].at
               /\ scan'[r].overlapped = scan[r].overlapped
    BY <1>1, <1>3, <2>1 DEF InProgress
  <2>2. Flagged' /\ Met'
    BY <1>3, <2>1 DEF ClockInv, Flagged, Met, SameHandler, Scans
  <2>3. ASSUME NEW r \in Scans, InProgress(r)' PROVE FoundAt(r)'
    <3>1. FoundAt(r)
      BY <2>1, <2>3 DEF ClockInv
    <3>2. scan'[r].dueSoon \subseteq scan[r].dueSoon /\ scan'[r].overdue \subseteq scan[r].overdue
      BY <1>3
    <3> QED
      BY <1>1, <2>1, <2>3, <3>1, <3>2 DEF FoundAt
  <2>4. k.type = "OVERDUE" => OverdueSince(k)
    <3>1. k.type = "OVERDUE" => k.scheduledFor <= scan[s].at
      BY <1>1, <1>3, NextItemsType, NewRowType DEF NextItems, FoundAt
    <3>2. scan[s].at <= now
      BY <1>1 DEF FoundAt
    <3> QED
      BY <1>1, <3>1, <3>2, ClockTypes DEF OverdueSince, ClockInv, Met
  <2>5. ASSUME NEW j \in ReminderKey, j.type = "OVERDUE", reminders'[j].status # "none"
        PROVE  OverdueSince(j)'
    <3>1. OverdueSince(j)
      BY <1>3, <2>4, <2>5 DEF ClockInv
    <3> QED
      BY <1>1, <2>1, <3>1 DEF OverdueSince
  <2> QED
    BY <2>2, <2>3, <2>5 DEF ClockInv
<1> QED
  BY <1>2, <1>3, Created

\* The steps of a scan that find nothing, and its end.
LEMMA ScanClock ==
  ASSUME TypeOK, TypeOK', ClockInv, Next, \A r \in Scans : ~CreateReminder(r), NEW s \in Scans,
         Enqueue(s) \/ DispatchInProcess(s) \/ MarkSentInProcess(s) \/ FinishScan(s) \/ ScanFault(s)
  PROVE  ClockInv'
<1>1. InProgress(s) /\ now' = now
  BY DEF Enqueue, DispatchInProcess, MarkSentInProcess, FinishScan, ScanFault, InProgress
<1>2. \/ scan'[s] = IdleScan /\ EndScan(s)
      \/ /\ scan'[s].at = scan[s].at /\ scan'[s].overlapped = scan[s].overlapped
         /\ scan'[s].dueSoon = scan[s].dueSoon /\ scan'[s].overdue = scan[s].overdue
         /\ running' = running
  BY DEF Enqueue, DispatchInProcess, MarkSentInProcess, FinishScan, ScanFault, EndScan, TypeOK, ScanState
<1>3. \A r \in Scans : r # s => scan'[r] = scan[r]
  BY DEF Enqueue, DispatchInProcess, MarkSentInProcess, FinishScan, ScanFault, EndScan, TypeOK
<1>4. ASSUME NEW r \in Scans, scan'[r].pc # "idle"
      PROVE  /\ InProgress(r) /\ scan'[r].at = scan[r].at
             /\ scan'[r].overlapped = scan[r].overlapped
             /\ scan'[r].dueSoon \subseteq scan[r].dueSoon /\ scan'[r].overdue \subseteq scan[r].overdue
             /\ r \in Cron => running'[Host[r]] = running[Host[r]]
  BY <1>1, <1>2, <1>3, <1>4, EndKeepsFlags DEF InProgress, IdleScan
<1> QED
  BY <1>1, <1>4, ClockTypes, NoneStays, ClockFrame

\* The steps of everybody else leave the scans alone.
LEMMA OthersClock ==
  ASSUME TypeOK, TypeOK', ClockInv, Next, \A r \in Scans : ~CreateReminder(r),
         Tick \/ TaskRequest
           \/ \E w \in Workers : WorkerStep(w) \/ JobFails(w) \/ MarkFailedFault(w) \/ LockLost(w)
  PROVE  ClockInv'
<1>1. ASSUME now' >= now, UNCHANGED <<scan, running>>
      PROVE  ClockInv'
  BY <1>1, NoneStays, ClockFrame DEF InProgress
<1>2. CASE Tick
  BY <1>1, <1>2, ClockTypes DEF Tick
<1>3. CASE TaskRequest
  BY <1>1, <1>3, ClockTypes DEF TaskRequest, CreateTask, UpdateTask, ReinsertTask, RemoveTask
<1>4. ASSUME NEW w \in Workers, WorkerStep(w) \/ JobFails(w) \/ MarkFailedFault(w) \/ LockLost(w)
      PROVE  ClockInv'
  <2>1. UNCHANGED <<now, scan, running>>
    BY <1>4
    DEF WorkerStep, TakeJob, FailStalled, FindReminder, FindTask, Notify, UpdateSent,
        CompleteJob, MarkFailed, JobFails, MarkFailedFault, LockLost
  <2> QED
    BY <1>1, <2>1, ClockTypes
<1> QED
  BY <1>2, <1>3, <1>4

\* A crash ends the process's cron scan and lowers its flag.
LEMMA CrashClock ==
  ASSUME TypeOK, TypeOK', ClockInv, Next, \A r \in Scans : ~CreateReminder(r),
         NEW h \in Hosts, Crash(h)
  PROVE  ClockInv'
<1>1. \A s \in Scans : scan'[s].pc # "idle" => scan'[s] = scan[s] /\ InProgress(s)
  BY DEF Crash, IdleScan, InProgress
<1>2. \A s \in Cron : scan'[s].pc # "idle" => running'[Host[s]] = running[Host[s]]
  BY ConstantsAssumption DEF ConstantsAssumption, Crash, Scans, IdleScan, TypeOK
<1>3. now' = now
  BY DEF Crash
<1> QED
  BY <1>1, <1>2, <1>3, ClockTypes, NoneStays, ClockFrame

LEMMA ClockStep ==
  ASSUME TypeOK, TypeOK', ClockInv, [Next]_vars
  PROVE  ClockInv'
<1>1. CASE UNCHANGED vars
  BY <1>1 DEF vars, ClockInv, Flagged, Met, FoundAt, OverdueSince, InProgress, SameHandler
<1>2. ASSUME NEW s \in Scans, CreateReminder(s) PROVE ClockInv'
  BY <1>2, CreateClock
<1>3. CASE Next /\ \A s \in Scans : ~CreateReminder(s)
  <2>1. ASSUME NEW s \in Scans, HandleReminderScan(s) \/ ManualScan(s) \/ ScanStep(s) \/ ScanFault(s)
        PROVE  ClockInv'
    BY <1>3, <2>1, StartClock, QueryClock, ScanClock DEF ScanStep
  <2> QED
    BY <1>3, <2>1, CrashClock, OthersClock DEF Next
<1> QED
  BY <1>1, <1>2, <1>3

LEMMA ClockInit == Init => ClockInv
  BY DEF Init, ClockInv, Flagged, Met, InProgress, IdleScan, NoRow, Scans

\* A scan that creates a due-soon reminder started before the due date, and a
\* scan that started before an overdue reminder's due date is marked.
LEMMA SoonBeforeOverdue ==
  ASSUME TypeOK, ClockInv, [Next]_vars, NEW soon \in ReminderKey, NEW over \in ReminderKey,
         soon = [over EXCEPT !.type = "DUE_SOON"],
         over.type = "OVERDUE", reminders[over].status # "none",
         reminders[soon].status = "none", reminders'[soon].status # "none"
  PROVE  \E s \in Scans : scan'[s].cur # None /\ scan'[s].cur.key = soon /\ scan[s].overlapped
<1>1. soon.type = "DUE_SOON" /\ soon.scheduledFor = over.scheduledFor
  BY DEF ReminderKey
<1>2. PICK s \in Scans : CreateReminder(s)
  BY NoneStays DEF vars
<1>3. InProgress(s) /\ FoundAt(s)
  BY <1>2 DEF CreateReminder, InProgress, ClockInv
<1>4. PICK i \in NextItems(s), k \in ReminderKey :
        /\ k = NewRow(i.unique)
        /\ \A j \in ReminderKey : j # k => reminders'[j] = reminders[j]
        /\ reminders' = reminders \/ (scan'[s].cur # None /\ scan'[s].cur.key = k)
  BY <1>2, Created
<1>5. k = soon /\ scan'[s].cur # None /\ scan'[s].cur.key = soon
  BY <1>4
<1>6. soon.scheduledFor > scan[s].at
  <2>1. i.unique.type = soon.type /\ i.unique.scheduledFor = soon.scheduledFor
    <3>1. i.unique \in UniqueKey
      BY NextItemsType
    <3>2. k.type = i.unique.type /\ k.scheduledFor = i.unique.scheduledFor
      BY <1>4, <3>1, NewRowType
    <3> QED
      BY <1>5, <3>2
  <2>2. i \in scan[s].dueSoon \/ i \in scan[s].overdue
    BY DEF NextItems
  <2> QED
    BY <1>1, <1>3, <2>1, <2>2 DEF FoundAt
<1>7. over.scheduledFor <= scan[s].at \/ scan[s].overlapped
  BY <1>3 DEF ClockInv, OverdueSince
<1> QED
  BY <1>1, <1>5, <1>6, <1>7, ClockTypes

\* However edits, crashes and faults cut the scans short, no scan creates a
\* due-soon reminder of a task that has the overdue one for the same due date,
\* unless it has overlapped a manual scan or one of another worker process
\* (handleReminderScan, scan, createReminder).
THEOREM NoDueSoonAfterOverdueCorrect == Spec => NoDueSoonAfterOverdue
<1>1. TypeOK /\ TypeOK' /\ ClockInv /\ [Next]_vars => ClockInv'
  BY ClockStep
<1>2. TypeOK /\ ClockInv /\ [Next]_vars =>
        [\A soon, over \in ReminderKey :
           /\ soon = [over EXCEPT !.type = "DUE_SOON"]
           /\ over.type = "OVERDUE" /\ reminders[over].status # "none"
           /\ reminders[soon].status = "none" /\ reminders'[soon].status # "none"
           => \E s \in Scans : scan'[s].cur # None /\ scan'[s].cur.key = soon /\ scan[s].overlapped
        ]_vars
  BY SoonBeforeOverdue
<1>3. Spec => []ClockInv
  BY <1>1, ClockInit, TypeCorrect, PTL DEF Spec
<1> QED
  BY <1>2, <1>3, TypeCorrect, PTL DEF Spec, NoDueSoonAfterOverdue

-----------------------------------------------------------------------------
(* Nobody forgets a PENDING reminder.  A slot that is done with a job leaves *)
(* its reminder settled, so a job that completes carries no PENDING one; a   *)
(* job that is active has the slot of its run; and what a fault drops is      *)
(* told by the events that have happened.                                    *)

CarryInv ==
  /\ PendingIsCarried
  /\ \A w \in Workers : worker[w].pc \in {"skipped", "sent"} =>
       reminders[worker[w].key].status # "PENDING"
  /\ \A w \in Workers : worker[w].pc = "idle" => worker[w].key = None
  /\ \A e \in Event : budget[e] <= Budget[e]

LEMMA BudgetStep ==
  ASSUME TypeOK, Next, NEW e \in Event
  PROVE  budget'[e] \in Nat /\ budget'[e] <= budget[e]
<1>1. budget[e] \in Nat
  BY DEF TypeOK
<1>2. CASE UNCHANGED budget
  BY <1>1, <1>2
<1>3. ASSUME NEW f \in Event, Spend(f)
      PROVE  budget'[e] \in Nat /\ budget'[e] <= budget[e]
  BY <1>1, <1>3 DEF Spend, TypeOK
<1>4. UNCHANGED budget \/ \E f \in Event : Spend(f)
  BY DEF Next, Tick, TaskRequest, CreateTask, UpdateTask, ReinsertTask, RemoveTask, HandleReminderScan,
     ManualScan, ScanStep, QueryDueSoon, QueryOverdue, CreateReminder, Enqueue,
     DispatchInProcess, MarkSentInProcess, FinishScan, ScanFault, WorkerStep, TakeJob,
     FailStalled, FindReminder, FindTask, Notify, UpdateSent, CompleteJob, MarkFailed,
     JobFails, MarkFailedFault, LockLost, Crash, Event
<1> QED
  BY <1>2, <1>3, <1>4

\* An outside event, once it has happened, has happened.
LEMMA HappenedStays ==
  ASSUME TypeOK, Next, NEW e \in Event, Happened(e)
  PROVE  Happened(e)'
<1>1. budget[e] \in Nat /\ Budget[e] \in Nat
  BY ConstantsAssumption DEF ConstantsAssumption, TypeOK
<1> QED
  BY <1>1, BudgetStep DEF Happened

LEMMA SpentHappened ==
  ASSUME TypeOK, CarryInv, NEW e \in Event, Spend(e)
  PROVE  Happened(e)'
<1>1. budget[e] \in Nat /\ Budget[e] \in Nat /\ budget[e] <= Budget[e]
  BY ConstantsAssumption DEF ConstantsAssumption, TypeOK, CarryInv
<1>2. budget'[e] = budget[e] - 1
  BY DEF Spend, TypeOK
<1> QED
  BY <1>1, <1>2 DEF Happened

\* What is stuck stays stuck, or its job is enqueued after all.
LEMMA StuckStays ==
  ASSUME TypeOK, DispatchInv, Next, NEW k \in ReminderKey, Stuck(k)
  PROVE  Stuck(k)' \/ Carried(k)'
<1>1. \A e \in Event : Happened(e) => Happened(e)'
  BY HappenedStays
<1>2. jobs[k].state \in {"none", "failed"}
  BY DEF Stuck
<1>3. jobs'[k] = jobs[k] \/ jobs'[k].state = "waiting"
  <2>1. CASE UNCHANGED jobs
    BY <2>1
  <2>2. ASSUME NEW s \in Scans, Enqueue(s) PROVE jobs'[k] = jobs[k] \/ jobs'[k].state = "waiting"
    BY <2>2 DEF Enqueue, TypeOK, Job
  <2>3. ASSUME NEW w \in Workers, NEW j \in ReminderKey, TakeJob(w, j) \/ FailStalled(w, j)
        PROVE  jobs'[k] = jobs[k]
    BY <1>2, <2>3 DEF TakeJob, FailStalled, TypeOK
  <2>4. ASSUME NEW w \in Workers, CompleteJob(w) \/ JobFails(w) \/ LockLost(w)
        PROVE  jobs'[k] = jobs[k]
    BY <1>2, <2>4 DEF CompleteJob, JobFails, LockLost, HoldsLock, TypeOK
  <2>5. ASSUME NEW h \in Hosts, Crash(h)
        PROVE  jobs'[k] = jobs[k]
    BY <1>2, <2>5, CrashJob
  <2> QED
    BY <2>1, <2>2, <2>3, <2>4, <2>5
    DEF Next, Tick, TaskRequest, CreateTask, UpdateTask, ReinsertTask, RemoveTask, HandleReminderScan,
        ManualScan, ScanStep, QueryDueSoon, QueryOverdue, CreateReminder, DispatchInProcess,
        MarkSentInProcess, FinishScan, ScanFault, WorkerStep, FindReminder, FindTask, Notify,
        UpdateSent, MarkFailed, MarkFailedFault
<1> QED
  BY <1>1, <1>3 DEF Stuck, Stalled, Carried, Event

\* Only createReminder makes a reminder PENDING, and it goes on to dispatch it.
LEMMA PendingOnlyByCreate ==
  ASSUME TypeOK, Next, NEW k \in ReminderKey, reminders'[k].status = "PENDING",
         reminders[k].status # "PENDING"
  PROVE  \E s \in Scans : Dispatching(s, k)' /\ ~Taken(k)
<1>1. CASE UNCHANGED reminders
  BY <1>1
<1>2. ASSUME NEW j, NEW row, UpdateRow(j, row), row.status # "PENDING" PROVE FALSE
  BY <1>2 DEF UpdateRow, TypeOK
<1>3. ASSUME NEW t \in Tasks, RemoveTask(t) PROVE FALSE
  BY <1>3 DEF RemoveTask, NoRow
<1>4. ASSUME NEW s \in Scans, CreateReminder(s) PROVE Dispatching(s, k)' /\ ~Taken(k)
  <2>1. PICK i \in NextItems(s) :
          /\ tasks[i.unique.task].status # "gone" /\ ~Conflict(i.unique)
          /\ reminders' = [reminders EXCEPT ![NewRow(i.unique)].status = "PENDING"]
          /\ scan' = [scan EXCEPT ![s].dueSoon = @ \ {i}, ![s].overdue = @ \ {i},
                                  ![s].cur = [key |-> NewRow(i.unique), to |-> i.to],
                                  ![s].pc = "dispatch"]
    BY <1>1, <1>4 DEF CreateReminder
  <2>2. k = NewRow(i.unique)
    BY <2>1 DEF TypeOK
  <2>3. scan'[s].pc = "dispatch" /\ scan'[s].cur = [key |-> k, to |-> i.to]
    BY <2>1, <2>2 DEF TypeOK, ScanState
  <2>4. Unique(k) = i.unique /\ k.life = tasks[k.task].life /\ k.task = i.unique.task
    BY <2>2, NextItemsType, NewRowType
  <2>5. reminders[k].status = "none"
    BY <2>1, <2>4 DEF Conflict
  <2>6. ~Gone(k)
    BY <2>1, <2>4, ConstantsAssumption DEF ConstantsAssumption, Gone, ReminderKey, Lives
  <2> QED
    BY <2>3, <2>5, <2>6 DEF Dispatching, Taken
<1>5. ASSUME NEW s \in Scans, MarkSentInProcess(s) PROVE FALSE
  <2> DEFINE j == scan[s].cur.key
  <2>1. j \in ReminderKey
    BY <1>5 DEF MarkSentInProcess, TypeOK, ScanState, Dispatch
  <2>2. [reminders[j] EXCEPT !.status = "SENT"].status # "PENDING"
    BY <2>1 DEF TypeOK, ReminderRow
  <2> QED
    BY <1>2, <1>5, <2>2 DEF MarkSentInProcess
<1>6. ASSUME NEW w \in Workers, UpdateSent(w) \/ MarkFailed(w) PROVE FALSE
  BY <1>2, <1>6 DEF UpdateSent, MarkFailed
<1> QED
  BY <1>1, <1>3, <1>4, <1>5, <1>6
  DEF Next, Tick, TaskRequest, CreateTask, UpdateTask, ReinsertTask, HandleReminderScan, ManualScan, ScanStep,
      QueryDueSoon, QueryOverdue, Enqueue, DispatchInProcess, FinishScan, ScanFault, WorkerStep,
      TakeJob, FailStalled, FindReminder, FindTask, Notify, CompleteJob, JobFails,
      MarkFailedFault, LockLost, Crash

\* A dispatch ends with the job, with the reminder sent, or cut short.
LEMMA DispatchCarried ==
  ASSUME TypeOK, DispatchInv, CarryInv, Next, NEW k \in ReminderKey, NEW s \in Scans,
         Dispatching(s, k), reminders'[k].status = "PENDING"
  PROVE  Carried(k)' \/ Stuck(k)'
<1>1. jobs[k].state = "none" /\ scan[s].pc \in {"dispatch", "markSent"} /\ scan[s].cur.key = k
  BY DEF DispatchInv, SingleDispatch, Dispatching
<1>2. CASE SameDispatch(s)
  BY <1>1, <1>2 DEF SameDispatch, Carried, Dispatching
<1>3. CASE Enqueue(s)
  <2>1. jobs'[k].state = "waiting"
    BY <1>1, <1>3 DEF Enqueue, TypeOK, Job
  <2> QED
    BY <2>1 DEF Carried
<1>4. CASE DispatchInProcess(s)
  <2>1. scan'[s].pc = "markSent" /\ scan'[s].cur = scan[s].cur
    BY <1>4 DEF DispatchInProcess, TypeOK, ScanState
  <2> QED
    BY <1>1, <2>1 DEF Carried, Dispatching
<1>5. CASE MarkSentInProcess(s)
  <2>1. UpdateRow(k, [reminders[k] EXCEPT !.status = "SENT"])
    BY <1>1, <1>5 DEF MarkSentInProcess
  <2>2. reminders'[k].status \in {"none", "SENT"}
    BY <2>1 DEF UpdateRow, TypeOK, ReminderRow
  <2> QED
    BY <2>2
<1>6. CASE ScanFault(s)
  <2>1. Happened("scan")' /\ jobs'[k].state = "none"
    BY <1>1, <1>6, SpentHappened DEF ScanFault, Event
  <2> QED
    BY <2>1 DEF Stuck, Happened
<1>7. ASSUME NEW h \in Hosts, Crash(h) PROVE Stuck(k)'
  <2>1. Happened("crash")' /\ jobs'[k].state = "none"
    BY <1>1, <1>7, CrashJob, SpentHappened DEF Crash, Event
  <2> QED
    BY <2>1 DEF Stuck, Happened
<1>8. \/ SameDispatch(s) \/ Enqueue(s) \/ DispatchInProcess(s) \/ MarkSentInProcess(s)
      \/ ScanFault(s) \/ \E h \in Hosts : Crash(h)
  <2> USE DEF SameDispatch
  <2>1. ASSUME NEW r \in Scans, HandleReminderScan(r) \/ ManualScan(r)
        PROVE  SameDispatch(s)
    <3>1. StartScan(r) /\ r # s
      BY <1>1, <2>1 DEF HandleReminderScan, ManualScan, InProgress
    <3> QED
      BY <3>1, Started DEF SameScan
  <2>2. ASSUME NEW r \in Scans, r # s, ScanStep(r) \/ ScanFault(r)
        PROVE  SameDispatch(s)
    BY <2>2 DEF ScanStep, QueryDueSoon, QueryOverdue, CreateReminder, Enqueue,
       DispatchInProcess, MarkSentInProcess, FinishScan, ScanFault, EndScan, TypeOK
  <2>3. ~QueryDueSoon(s) /\ ~QueryOverdue(s) /\ ~CreateReminder(s) /\ ~FinishScan(s)
    BY <1>1 DEF QueryDueSoon, QueryOverdue, CreateReminder, FinishScan
  <2>4. CASE Tick \/ TaskRequest
    BY <2>4 DEF Tick, TaskRequest, CreateTask, UpdateTask, ReinsertTask, RemoveTask
  <2>5. ASSUME NEW w \in Workers,
               WorkerStep(w) \/ JobFails(w) \/ MarkFailedFault(w) \/ LockLost(w)
        PROVE  SameDispatch(s)
    BY <2>5 DEF WorkerStep, TakeJob, FailStalled, FindReminder, FindTask, Notify, UpdateSent,
       CompleteJob, MarkFailed, JobFails, MarkFailedFault, LockLost
  <2> QED
    BY <2>1, <2>2, <2>3, <2>4, <2>5 DEF Next, ScanStep
<1> QED
  BY <1>2, <1>3, <1>4, <1>5, <1>6, <1>7, <1>8

\* What becomes of the job of a PENDING reminder.
LEMMA CarriedJob ==
  ASSUME TypeOK, CarryInv, Next, NEW k \in ReminderKey,
         reminders[k].status = "PENDING", jobs[k].state \in {"waiting", "active"}
  PROVE  \/ jobs'[k] = jobs[k]
         \/ Carried(k)' \/ Stuck(k)'
<1>1. CASE jobs'[k].state = "waiting"
  BY <1>1 DEF Carried
<1>2. CASE UNCHANGED jobs
  BY <1>2
<1>3. ASSUME NEW s \in Scans, Enqueue(s) PROVE jobs'[k] = jobs[k]
  BY <1>3 DEF Enqueue, TypeOK
<1>4. ASSUME NEW w \in Workers, NEW j \in ReminderKey, TakeJob(w, j)
      PROVE  jobs'[k] = jobs[k] \/ Carried(k)'
  <2>1. CASE j = k
    <3>1. /\ worker'[w] = Slot("find", k, Run(k))
          /\ jobs'[k] = [jobs[k] EXCEPT !.state = "active"]
      BY <1>4, <2>1 DEF TakeJob, TypeOK
    <3>2. /\ worker'[w].key = k /\ worker'[w].run = Run(k)
          /\ jobs'[k].state = "active" /\ Run(k)' = Run(k)
      BY <3>1 DEF Slot, Run, TypeOK, Job
    <3> QED
      BY <3>2 DEF Carried, HoldsLock, Run
  <2>2. CASE j # k
    BY <1>4, <2>2 DEF TakeJob, TypeOK
  <2> QED
    BY <2>1, <2>2
<1>5. ASSUME NEW w \in Workers, NEW j \in ReminderKey, FailStalled(w, j)
      PROVE  jobs'[k] = jobs[k] \/ Stuck(k)'
  <2>1. CASE j = k
    <3>1. /\ jobs'[k].state = "failed" /\ jobs'[k].stalled = jobs[k].stalled
          /\ jobs[k].stalled > StalledLimit
      BY <1>5, <2>1 DEF FailStalled, Stalled, TypeOK, Job
    <3> QED
      BY <3>1 DEF Stuck, Stalled
  <2>2. CASE j # k
    BY <1>5, <2>2 DEF FailStalled, TypeOK
  <2> QED
    BY <2>1, <2>2
<1>6. ASSUME NEW w \in Workers, CompleteJob(w) PROVE jobs'[k] = jobs[k]
  <2>1. worker[w].key # k
    BY <1>6 DEF CompleteJob, CarryInv
  <2> QED
    BY <1>6, <2>1 DEF CompleteJob, TypeOK
<1>7. ASSUME NEW w \in Workers, JobFails(w) PROVE jobs'[k] = jobs[k] \/ Carried(k)'
  <2> DEFINE made == jobs[k].attemptsMade + 1
             st == IF Exhausted(made) THEN "failed" ELSE "waiting"
  <2>1. CASE worker[w].key # k \/ ~HoldsLock(w)
    BY <1>7, <2>1 DEF JobFails, TypeOK
  <2>2. CASE worker[w].key = k /\ HoldsLock(w)
    <3>1. /\ jobs' = [jobs EXCEPT ![k].attemptsMade = made, ![k].state = st]
          /\ OnFailed(w, k, made)
      BY <1>7, <2>2 DEF JobFails
    <3>2. CASE Exhausted(made)
      <4>1. worker'[w].pc = "markFailed" /\ worker'[w].key = k
        BY <3>1, <3>2 DEF OnFailed, Slot, TypeOK
      <4> QED
        BY <4>1 DEF Carried
    <3>3. CASE ~Exhausted(made)
      <4>1. jobs'[k].state = "waiting"
        BY <3>1, <3>3 DEF TypeOK, Job
      <4> QED
        BY <4>1 DEF Carried
    <3> QED
      BY <3>2, <3>3
  <2> QED
    BY <2>1, <2>2
<1>8. ASSUME NEW w \in Workers, LockLost(w) PROVE jobs'[k] = jobs[k] \/ jobs'[k].state = "waiting"
  BY <1>8 DEF LockLost, StalledBack, TypeOK, Job
<1>9. ASSUME NEW h \in Hosts, Crash(h) PROVE jobs'[k] = jobs[k] \/ jobs'[k].state = "waiting"
  BY <1>9, CrashJob
<1> QED
  BY <1>1, <1>2, <1>3, <1>4, <1>5, <1>6, <1>7, <1>8, <1>9
  DEF Next, Tick, TaskRequest, CreateTask, UpdateTask, ReinsertTask, RemoveTask, HandleReminderScan,
      ManualScan, ScanStep, QueryDueSoon, QueryOverdue, CreateReminder, DispatchInProcess,
      MarkSentInProcess, FinishScan, ScanFault, WorkerStep, FindReminder, FindTask, Notify,
      UpdateSent, MarkFailed, MarkFailedFault

\* A slot changes in its own steps and in a crash.
LEMMA SlotFrame ==
  ASSUME TypeOK, Next, NEW w \in Workers
  PROVE  \/ worker'[w] = worker[w] \/ Crash(Host[w])
         \/ WorkerStep(w) \/ JobFails(w) \/ MarkFailedFault(w)
<1>1. ASSUME NEW v \in Workers, v # w,
             WorkerStep(v) \/ JobFails(v) \/ MarkFailedFault(v) \/ LockLost(v)
      PROVE  worker'[w] = worker[w]
  <2>1. \A k, n : OnFailed(v, k, n) => worker'[w] = worker[w]
    BY <1>1 DEF OnFailed, TypeOK
  <2>2. \A k \in ReminderKey : FailStalled(v, k) => worker'[w] = worker[w]
    BY <2>1 DEF FailStalled
  <2>3. JobFails(v) => worker'[w] = worker[w]
    BY <1>1, <2>1 DEF JobFails, TypeOK
  <2> QED
    BY <1>1, <2>2, <2>3 DEF WorkerStep, TakeJob, FindReminder, FindTask, Notify, UpdateSent,
       CompleteJob, MarkFailed, MarkFailedFault, LockLost, TypeOK
<1>2. CASE LockLost(w)
  BY <1>2 DEF LockLost
<1>3. CASE Tick \/ TaskRequest
  BY <1>3 DEF Tick, TaskRequest, CreateTask, UpdateTask, ReinsertTask, RemoveTask
<1>4. ASSUME NEW s \in Scans,
             HandleReminderScan(s) \/ ManualScan(s) \/ ScanStep(s) \/ ScanFault(s)
      PROVE  worker'[w] = worker[w]
  BY <1>4 DEF HandleReminderScan, ManualScan, ScanStep, QueryDueSoon, QueryOverdue, CreateReminder,
     Enqueue, DispatchInProcess, MarkSentInProcess, FinishScan, ScanFault
<1>5. ASSUME NEW h \in Hosts, Crash(h), Host[w] # h
      PROVE  worker'[w] = worker[w]
  BY <1>5 DEF Crash
<1> QED
  BY <1>1, <1>2, <1>3, <1>4, <1>5 DEF Next

\* A slot goes on with its job until it is done with it or dies.
LEMMA SlotGoesOn ==
  ASSUME TypeOK, Next, NEW w \in Workers, worker[w].pc # "idle"
  PROVE  \/ CompleteJob(w) \/ JobFails(w) \/ MarkFailed(w) \/ MarkFailedFault(w)
         \/ Crash(Host[w])
         \/ /\ worker'[w].key = worker[w].key /\ worker'[w].run = worker[w].run
            /\ worker[w].pc = "markFailed" => worker'[w].pc = "markFailed"
<1>1. CASE FindReminder(w) \/ FindTask(w) \/ Notify(w) \/ UpdateSent(w)
  BY <1>1 DEF FindReminder, FindTask, Notify, UpdateSent, TypeOK, WorkerState
<1>2. \A k \in ReminderKey : ~TakeJob(w, k) /\ ~FailStalled(w, k)
  BY DEF TakeJob, FailStalled
<1> QED
  BY <1>1, <1>2, SlotFrame DEF WorkerStep

\* What a slot that has just become idle, or done, or has failed, looks like.
LEMMA SlotAfter ==
  ASSUME TypeOK, Next, NEW w \in Workers
  PROVE  /\ worker'[w].pc \in {"skipped", "sent"} =>
              worker'[w] = worker[w] \/ FindReminder(w) \/ UpdateSent(w)
         /\ worker'[w].pc = "idle" => worker'[w] = worker[w] \/ worker'[w] = IdleWorker
<1> DEFINE Goal == /\ worker'[w].pc \in {"skipped", "sent"} =>
                        worker'[w] = worker[w] \/ FindReminder(w) \/ UpdateSent(w)
                   /\ worker'[w].pc = "idle" => worker'[w] = worker[w] \/ worker'[w] = IdleWorker
<1>1. ASSUME worker' = [worker EXCEPT ![w] = IdleWorker] PROVE Goal
  BY <1>1 DEF TypeOK, IdleWorker, Slot
<1>2. ASSUME NEW k, NEW n, OnFailed(w, k, n) PROVE Goal
  <2>1. worker'[w] = IdleWorker \/ worker'[w] = Slot("markFailed", k, 0)
    BY <1>2, OnFailedCases DEF TypeOK
  <2> QED
    BY <2>1 DEF IdleWorker, Slot
<1>3. CASE JobFails(w)
  BY <1>1, <1>2, <1>3 DEF JobFails
<1>4. ASSUME NEW k \in ReminderKey, TakeJob(w, k) \/ FailStalled(w, k) PROVE Goal
  <2>1. CASE TakeJob(w, k)
    BY <2>1 DEF TakeJob, Slot, TypeOK
  <2>2. CASE FailStalled(w, k)
    BY <1>2, <2>2 DEF FailStalled
  <2> QED
    BY <1>4, <2>1, <2>2
<1>5. CASE FindReminder(w) \/ FindTask(w) \/ Notify(w) \/ UpdateSent(w)
  BY <1>5 DEF FindReminder, FindTask, Notify, UpdateSent, TypeOK, WorkerState
<1>6. CASE CompleteJob(w) \/ MarkFailed(w) \/ MarkFailedFault(w)
  BY <1>1, <1>6 DEF CompleteJob, MarkFailed, MarkFailedFault
<1>7. CASE Crash(Host[w])
  BY <1>7 DEF Crash, IdleWorker, Slot
<1> QED
  BY <1>3, <1>4, <1>5, <1>6, <1>7, SlotFrame DEF WorkerStep

\* A slot that holds the lock passes it on or settles the reminder; one that
\* is to mark it FAILED does, or the mark is lost.
LEMMA SlotCarried ==
  ASSUME TypeOK, DispatchInv, FailedInv, CarryInv, Next, NEW k \in ReminderKey,
         NEW w \in Workers, worker[w].key = k, worker[w].pc = "markFailed" \/ HoldsLock(w),
         reminders[k].status = "PENDING", reminders'[k].status = "PENDING"
  PROVE  Carried(k)' \/ Stuck(k)'
<1>1. worker[w].pc # "idle"
  BY ConstantsAssumption DEF ConstantsAssumption, CarryInv
<1>2. CASE worker[w].pc = "markFailed"
  <2>1. DeadLettered(k)
    BY <1>2 DEF FailedInv
  <2>2. jobs'[k].state = "failed"
    BY <2>1, DeadLetteredStays DEF DeadLettered
  <2>3. ~CompleteJob(w) /\ ~JobFails(w)
    BY <1>2 DEF CompleteJob, JobFails
  <2>4. ~MarkFailed(w)
    BY DEF MarkFailed, UpdateRow, TypeOK
  <2>5. ASSUME MarkFailedFault(w) \/ Crash(Host[w]) PROVE Stuck(k)'
    <3>1. Happened("mark")' \/ Happened("crash")'
      BY <2>5, SpentHappened DEF MarkFailedFault, Crash, Event
    <3> QED
      BY <2>2, <3>1 DEF Stuck, Happened
  <2>6. ASSUME worker'[w].key = k, worker'[w].pc = "markFailed" PROVE Carried(k)'
    BY <2>6 DEF Carried
  <2> QED
    BY <1>1, <1>2, <2>3, <2>4, <2>5, <2>6, SlotGoesOn
<1>3. CASE worker[w].pc # "markFailed" /\ HoldsLock(w)
  <2>1. jobs[k].state = "active" /\ Run(k) = worker[w].run
    BY <1>3 DEF HoldsLock
  <2>2. CASE jobs'[k] = jobs[k]
    <3>1. ~CompleteJob(w)
      BY DEF CompleteJob, CarryInv
    <3>2. ~JobFails(w)
      BY <1>3, <2>1, <2>2 DEF JobFails, TypeOK, Job
    <3>3. ~MarkFailed(w) /\ ~MarkFailedFault(w)
      BY <1>3 DEF MarkFailed, MarkFailedFault
    <3>4. ~Crash(Host[w])
      <4>1. ASSUME Crash(Host[w]) PROVE FALSE
        <5>1. jobs'[k] = StalledBack(jobs[k])
          BY <1>3, <4>1 DEF Crash
        <5>2. jobs'[k].state = "waiting"
          BY <5>1 DEF StalledBack, TypeOK, Job
        <5> QED
          BY <2>1, <2>2, <5>2
      <4> QED
        BY <4>1
    <3>5. worker'[w].key = k /\ worker'[w].run = worker[w].run
      BY <1>1, <3>1, <3>2, <3>3, <3>4, SlotGoesOn
    <3> QED
      BY <2>1, <2>2, <3>5 DEF Carried, HoldsLock, Run
  <2> QED
    BY <2>1, <2>2, CarriedJob
<1> QED
  BY <1>2, <1>3

\* A slot that is done with a job leaves a reminder that is not PENDING.
LEMMA DoneIsSettled ==
  ASSUME TypeOK, TypeOK', DispatchInv, CarryInv, Next, NEW w \in Workers,
         worker'[w].pc \in {"skipped", "sent"}
  PROVE  reminders'[worker'[w].key].status # "PENDING"
<1>1. CASE worker'[w] = worker[w]
  <2> DEFINE k == worker[w].key
  <2>1. k \in ReminderKey /\ reminders[k].status # "PENDING" /\ Taken(k)
    BY <1>1 DEF CarryInv, DispatchInv, TypeOK, WorkerState
  <2> HIDE DEF k
  <2>2. reminders'[k].status # "PENDING"
    BY <2>1, PendingOnlyByCreate
  <2> QED
    BY <1>1, <2>2 DEF k
<1>2. CASE FindReminder(w)
  BY <1>2 DEF FindReminder, Settled, TypeOK, WorkerState
<1>3. CASE UpdateSent(w)
  <2>1. UpdateRow(worker[w].key, [status |-> "SENT", attempts |-> worker[w].attempts + 1])
        /\ worker'[w].key = worker[w].key /\ worker[w].key \in ReminderKey
    BY <1>3 DEF UpdateSent, TypeOK, WorkerState
  <2> QED
    BY <2>1 DEF UpdateRow, TypeOK
<1> QED
  BY <1>1, <1>2, <1>3, SlotAfter

LEMMA CarryInvStep ==
  TypeOK /\ TypeOK' /\ DispatchInv /\ FailedInv /\ CarryInv /\ [Next]_vars => CarryInv'
<1> SUFFICES ASSUME TypeOK, TypeOK', DispatchInv, FailedInv, CarryInv, [Next]_vars
             PROVE  CarryInv'
  OBVIOUS
<1>1. CASE UNCHANGED vars
  BY <1>1 DEF vars, CarryInv, PendingIsCarried, Carried, Stuck, Dispatching, HoldsLock, Run,
     Stalled, Happened
<1>2. CASE Next
  <2>1. ASSUME NEW k \in ReminderKey, reminders'[k].status = "PENDING"
        PROVE  Carried(k)' \/ Stuck(k)'
    <3>1. CASE reminders[k].status # "PENDING"
      <4>1. \E s \in Scans : Dispatching(s, k)'
        BY <1>2, <2>1, <3>1, PendingOnlyByCreate
      <4> QED
        BY <4>1 DEF Carried, Dispatching
    <3>2. CASE reminders[k].status = "PENDING"
      <4>1. CASE \E s \in Scans : Dispatching(s, k)
        BY <1>2, <2>1, <4>1, DispatchCarried
      <4>2. CASE jobs[k].state = "waiting"
        <5>1. CASE jobs'[k] = jobs[k]
          BY <4>2, <5>1 DEF Carried
        <5> QED
          BY <1>2, <3>2, <4>2, <5>1, CarriedJob
      <4>3. ASSUME NEW w \in Workers, worker[w].key = k,
                   worker[w].pc = "markFailed" \/ HoldsLock(w)
            PROVE  Carried(k)' \/ Stuck(k)'
        BY <1>2, <2>1, <3>2, <4>3, SlotCarried
      <4>4. CASE Stuck(k)
        BY <1>2, <4>4, StuckStays
      <4> QED
        BY <3>2, <4>1, <4>2, <4>3, <4>4 DEF CarryInv, PendingIsCarried, Carried
    <3> QED
      BY <3>1, <3>2
  <2>2. PendingIsCarried'
    BY <2>1 DEF PendingIsCarried
  <2>3. \A w \in Workers : worker'[w].pc \in {"skipped", "sent"} =>
          reminders'[worker'[w].key].status # "PENDING"
    BY <1>2, DoneIsSettled
  <2>4. ASSUME NEW w \in Workers, worker'[w].pc = "idle" PROVE worker'[w].key = None
    <3>1. worker'[w] = worker[w] \/ worker'[w] = IdleWorker
      BY <1>2, <2>4, SlotAfter
    <3> QED
      BY <2>4, <3>1 DEF CarryInv, IdleWorker, Slot
  <2>5. ASSUME NEW e \in Event PROVE budget'[e] <= Budget[e]
    <3>1. budget[e] \in Nat /\ Budget[e] \in Nat /\ budget[e] <= Budget[e]
      BY ConstantsAssumption DEF ConstantsAssumption, TypeOK, CarryInv
    <3>2. budget'[e] \in Nat /\ budget'[e] <= budget[e]
      BY <1>2, BudgetStep
    <3> QED
      BY <3>1, <3>2
  <2> QED
    BY <2>2, <2>3, <2>4, <2>5 DEF CarryInv
<1> QED
  BY <1>1, <1>2

LEMMA InitCarryInv == Init => FailedInv /\ CarryInv
<1> SUFFICES ASSUME Init PROVE FailedInv /\ CarryInv
  OBVIOUS
<1>1. PendingIsCarried
  BY DEF Init, PendingIsCarried, NoRow
<1>2. \A e \in Event : budget[e] <= Budget[e]
  BY ConstantsAssumption DEF ConstantsAssumption, Init
<1> QED
  BY <1>1, <1>2 DEF Init, CarryInv, FailedInv, FailedIsFinal, IdleWorker, Slot, NoRow

\* Whatever overlaps, fails, crashes and is retried, a PENDING reminder is in
\* somebody's hands at every moment, or one of the faults that can leave it
\* stuck has happened to it.
THEOREM PendingIsCarriedCorrect == Spec => []PendingIsCarried
<1>1. Init => DispatchInv /\ RowLives /\ FailedInv /\ CarryInv
  BY InitDispatchInv, InitCarryInv
<1>2. CarryInv => PendingIsCarried
  BY DEF CarryInv
<1> QED
  BY <1>1, <1>2, TypeCorrect, RowLivesStep, DispatchInvStep, FailedInvStep, CarryInvStep,
     PTL DEF Spec
=============================================================================
