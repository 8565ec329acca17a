---------------------------- MODULE LifecycleProofs ----------------------------
(***************************************************************************)
(* Reminders implements ReminderLifecycle, for every value of its          *)
(* constants: each step of the engine is one step of the life cycle of one *)
(* reminder, or changes nothing of it.                                     *)
(***************************************************************************)
EXTENDS RemindersProofs

-----------------------------------------------------------------------------
(* What a step does to a row, to a scan that dispatches and to a slot.      *)

\* A row changes its status by one of five statements.
LEMMA RowChange ==
  ASSUME TypeOK, Next, NEW k \in ReminderKey
  PROVE  \/ reminders'[k].status = reminders[k].status
         \/ reminders'[k].status \in {"none", "PENDING"}
         \/ \E s \in Scans : MarkSentInProcess(s) /\ scan[s].cur.key = k
         \/ \E w \in Workers : (UpdateSent(w) \/ MarkFailed(w)) /\ worker[w].key = k
<1> DEFINE Goal == \/ reminders'[k].status = reminders[k].status
                   \/ reminders'[k].status \in {"none", "PENDING"}
                   \/ \E s \in Scans : MarkSentInProcess(s) /\ scan[s].cur.key = k
                   \/ \E w \in Workers : (UpdateSent(w) \/ MarkFailed(w)) /\ worker[w].key = k
<1>1. CASE UNCHANGED reminders
  BY <1>1
<1>2. ASSUME NEW t \in Tasks, RemoveTask(t)
      PROVE  Goal
  BY <1>2 DEF RemoveTask, NoRow
<1>3. ASSUME NEW s \in Scans, CreateReminder(s)
      PROVE  Goal
  <2>1. \/ UNCHANGED reminders
        \/ \E u \in UniqueKey : reminders' = [reminders EXCEPT ![NewRow(u)].status = "PENDING"]
    BY <1>3, NewRows
  <2> QED
    BY <2>1 DEF TypeOK, ReminderRow
<1>4. ASSUME NEW s \in Scans, MarkSentInProcess(s)
      PROVE  Goal
  BY <1>4 DEF MarkSentInProcess, UpdateRow, TypeOK
<1>5. ASSUME NEW w \in Workers, UpdateSent(w) \/ MarkFailed(w)
      PROVE  Goal
  BY <1>5 DEF UpdateSent, MarkFailed, UpdateRow, TypeOK
<1> QED
  BY <1>1, <1>2, <1>3, <1>4, <1>5
  DEF Next, Tick, TaskRequest, CreateTask, UpdateTask, ReinsertTask, HandleReminderScan, ManualScan, ScanStep,
      QueryDueSoon, QueryOverdue, Enqueue, DispatchInProcess, FinishScan, ScanFault, WorkerStep,
      TakeJob, FailStalled, FindReminder, FindTask, Notify, CompleteJob, JobFails,
      MarkFailedFault, LockLost, Crash

\* A scan comes to dispatch a reminder by creating it.
LEMMA DispatchMove ==
  ASSUME TypeOK, Next, NEW s \in Scans, NEW k \in ReminderKey, Dispatching(s, k)'
  PROVE  \/ Dispatching(s, k) /\ ~MarkSentInProcess(s)
         \/ reminders'[k].status = "PENDING"
<1> USE DEF Dispatching, SameDispatch
<1>1. CASE SameDispatch(s)
  <2>1. ~MarkSentInProcess(s)
    BY <1>1 DEF MarkSentInProcess, TypeOK, ScanState
  <2> QED
    BY <1>1, <2>1
<1>2. ASSUME NEW r \in Scans, HandleReminderScan(r) \/ ManualScan(r)
      PROVE  SameDispatch(s)
  BY <1>2, Started DEF HandleReminderScan, ManualScan, SameScan
<1>3. ASSUME NEW r \in Scans, QueryDueSoon(r) \/ QueryOverdue(r)
      PROVE  SameDispatch(s)
  BY <1>3 DEF QueryDueSoon, QueryOverdue, TypeOK, ScanState
<1>4. ASSUME NEW r \in Scans, FinishScan(r) \/ ScanFault(r)
      PROVE  SameDispatch(s)
  BY <1>4 DEF FinishScan, ScanFault, EndScan, IdleScan, TypeOK
<1>5. ASSUME NEW r \in Scans, Enqueue(r) \/ MarkSentInProcess(r)
      PROVE  SameDispatch(s)
  BY <1>5 DEF Enqueue, MarkSentInProcess, TypeOK, ScanState
<1>6. ASSUME NEW r \in Scans, DispatchInProcess(r)
      PROVE  Dispatching(s, k) /\ ~MarkSentInProcess(s)
  <2>1. scan' = [scan EXCEPT ![r].pc = "markSent"] /\ scan[r].pc = "dispatch"
    BY <1>6 DEF DispatchInProcess
  <2>2. Dispatching(s, k)
    BY <2>1 DEF TypeOK, ScanState
  <2>3. ~MarkSentInProcess(s)
    BY <2>1 DEF MarkSentInProcess, TypeOK, ScanState
  <2> QED
    BY <2>2, <2>3
<1>7. ASSUME NEW r \in Scans, CreateReminder(r)
      PROVE  SameDispatch(s) \/ reminders'[k].status = "PENDING"
  <2>1. PICK i \in NextItems(r) :
          \/ EndScan(r)
          \/ scan' = [scan EXCEPT ![r].dueSoon = @ \ {i}, ![r].overdue = @ \ {i}]
          \/ /\ reminders' = [reminders EXCEPT ![NewRow(i.unique)].status = "PENDING"]
             /\ scan' = [scan EXCEPT ![r].dueSoon = @ \ {i}, ![r].overdue = @ \ {i},
                                     ![r].cur = [key |-> NewRow(i.unique), to |-> i.to],
                                     ![r].pc = "dispatch"]
    BY <1>7 DEF CreateReminder
  <2>2. PICK new \in ReminderKey : new = NewRow(i.unique)
    BY NextItemsType, NewRowType
  <2>3. CASE EndScan(r)
    BY <2>3 DEF EndScan, IdleScan, TypeOK
  <2>4. CASE scan' = [scan EXCEPT ![r].dueSoon = @ \ {i}, ![r].overdue = @ \ {i}]
    BY <2>4 DEF TypeOK, ScanState
  <2>5. CASE /\ reminders' = [reminders EXCEPT ![NewRow(i.unique)].status = "PENDING"]
             /\ scan' = [scan EXCEPT ![r].dueSoon = @ \ {i}, ![r].overdue = @ \ {i},
                                     ![r].cur = [key |-> NewRow(i.unique), to |-> i.to],
                                     ![r].pc = "dispatch"]
    <3>1. CASE s # r
      BY <2>5, <3>1 DEF TypeOK
    <3>2. CASE s = r
      <4>1. scan'[s].cur = [key |-> new, to |-> i.to]
        BY <2>2, <2>5, <3>2 DEF TypeOK, ScanState
      <4> QED
        BY <2>2, <2>5, <4>1 DEF TypeOK, ReminderRow
    <3> QED
      BY <3>1, <3>2
  <2> QED
    BY <2>1, <2>3, <2>4, <2>5
<1>8. ASSUME NEW h \in Hosts, Crash(h)
      PROVE  SameDispatch(s)
  BY <1>8 DEF Crash, IdleScan
<1>9. CASE UNCHANGED scan
  BY <1>1, <1>9
<1> QED
  BY <1>1, <1>2, <1>3, <1>4, <1>5, <1>6, <1>7, <1>8, <1>9
  DEF Next, Tick, TaskRequest, CreateTask, UpdateTask, ReinsertTask, RemoveTask, ScanStep,
      WorkerStep, TakeJob, FailStalled, FindReminder, FindTask, Notify, UpdateSent, CompleteJob,
      JobFails, MarkFailed, MarkFailedFault, LockLost

\* A job in progress is taken from its slot by that slot, or by a crash.
LEMMA ActiveJobStays ==
  ASSUME TypeOK, Next, \A h \in Hosts : ~Crash(h), NEW j \in ReminderKey, jobs[j].state = "active"
  PROVE  \/ jobs'[j] = jobs[j]
         \/ \E v \in Workers : /\ CompleteJob(v) \/ JobFails(v) \/ LockLost(v)
                               /\ HoldsLock(v) /\ worker[v].key = j
<1>1. CASE UNCHANGED jobs
  BY <1>1
<1>2. ASSUME NEW s \in Scans, Enqueue(s)
      PROVE  jobs'[j] = jobs[j]
  BY <1>2 DEF Enqueue, TypeOK
<1>3. ASSUME NEW w \in Workers, NEW k \in ReminderKey, TakeJob(w, k) \/ FailStalled(w, k)
      PROVE  jobs'[j] = jobs[j]
  BY <1>3 DEF TakeJob, FailStalled, TypeOK
<1>4. ASSUME NEW v \in Workers, CompleteJob(v) \/ JobFails(v) \/ LockLost(v), jobs'[j] # jobs[j]
      PROVE  HoldsLock(v) /\ worker[v].key = j
  BY <1>4 DEF CompleteJob, JobFails, LockLost, TypeOK
<1> QED
  BY <1>1, <1>2, <1>3, <1>4
  DEF Next, Tick, TaskRequest, CreateTask, UpdateTask, ReinsertTask, RemoveTask, HandleReminderScan,
      ManualScan, ScanStep, QueryDueSoon, QueryOverdue, CreateReminder, DispatchInProcess,
      MarkSentInProcess, FinishScan, ScanFault, WorkerStep, FindReminder, FindTask, Notify,
      UpdateSent, MarkFailed, MarkFailedFault

-----------------------------------------------------------------------------
(* Who may change a row, and when.                                          *)

\* The slots that have found their reminder unsettled.
Delivers(w) == worker[w].pc \in {"task", "notify", "update"}

Open(k) == reminders[k].status \in {"none", "PENDING"}

\* A reminder stays unsettled until the scan that dispatches it is done and, as
\* long as no slot has lost its lock, until the slot that delivers it is done.
LifeInv ==
  /\ budget["lock"] <= Budget["lock"]
  /\ \A s \in Scans, k \in ReminderKey : Dispatching(s, k) => Open(k)
  /\ ~Happened("lock") =>
       \A w \in Workers : /\ Working(w) => HoldsLock(w)
                          /\ Delivers(w) => Open(worker[w].key)

Inv == TypeOK /\ RowLives /\ DispatchInv /\ JobInv /\ RunInv /\ FailedInv /\ CarryInv

\* Lost locks are never undone.
LEMMA LocksLeft ==
  ASSUME TypeOK, TypeOK', Next
  PROVE  /\ budget["lock"] \in Nat /\ budget'["lock"] \in Nat /\ Budget["lock"] \in Nat
         /\ budget'["lock"] <= budget["lock"]
<1> DEFINE left == budget["lock"]
           left2 == budget'["lock"]
           all == Budget["lock"]
<1>1. left \in Nat /\ left2 \in Nat /\ all \in Nat
  BY ConstantsAssumption DEF ConstantsAssumption, TypeOK, Event
<1>2. ASSUME NEW e \in Event, Spend(e)
      PROVE  left2 <= left
  BY <1>1, <1>2 DEF Spend, TypeOK, Event
<1>3. ASSUME UNCHANGED budget
      PROVE  left2 <= left
  BY <1>1, <1>3
<1> HIDE DEF left, left2
<1>4. left2 <= left
  BY <1>2, <1>3
  DEF Event, Next, Tick, TaskRequest, CreateTask, UpdateTask, ReinsertTask, RemoveTask, HandleReminderScan,
      ManualScan, ScanStep, QueryDueSoon, QueryOverdue, CreateReminder, Enqueue,
      DispatchInProcess, MarkSentInProcess, FinishScan, ScanFault, WorkerStep, TakeJob,
      FailStalled, FindReminder, FindTask, Notify, UpdateSent, CompleteJob, JobFails, MarkFailed,
      MarkFailedFault, LockLost, Crash
<1> QED
  BY <1>1, <1>4 DEF left, left2

LEMMA NoLockLost ==
  ASSUME TypeOK, TypeOK', Next, LifeInv, ~Happened("lock")'
  PROVE  ~Happened("lock") /\ \A w \in Workers : ~LockLost(w)
<1>1. budget["lock"] <= Budget["lock"] /\ ~(budget'["lock"] < Budget["lock"])
  BY DEF LifeInv, Happened
<1>2. ASSUME NEW w \in Workers, LockLost(w)
      PROVE  budget'["lock"] = budget["lock"] - 1
  BY <1>2 DEF LockLost, Spend, TypeOK, Event
<1>3. ~(budget["lock"] < Budget["lock"]) /\ budget'["lock"] # budget["lock"] - 1
  BY <1>1, LocksLeft
<1> QED
  BY <1>2, <1>3 DEF Happened

\* Two slots that hold the lock of one job are the same slot.
LEMMA OneHolder ==
  ASSUME RunInv, NEW v \in Workers, NEW w \in Workers, Working(v), Working(w),
         HoldsLock(v), HoldsLock(w), worker[v].key = worker[w].key
  PROVE  v = w
  BY DEF RunInv, HoldsLock

\* A slot with a reminder has a job that exists.
LEMMA SlotKey ==
  ASSUME TypeOK, DispatchInv, NEW w \in Workers, worker[w].pc # "idle"
  PROVE  /\ worker[w].key \in ReminderKey /\ jobs[worker[w].key].state # "none"
         /\ Taken(worker[w].key)
  BY DEF TypeOK, WorkerState, DispatchInv

LEMMA DispatchStaysOpen ==
  ASSUME Inv, Next, LifeInv, NEW s \in Scans, NEW k \in ReminderKey, Dispatching(s, k)'
  PROVE  Open(k)'
<1>1. CASE reminders'[k].status = "PENDING"
  BY <1>1 DEF Open
<1>2. CASE Dispatching(s, k) /\ ~MarkSentInProcess(s)
  <2>1. Open(k) /\ jobs[k].state = "none" /\ \A r \in Scans \ {s} : ~Dispatching(r, k)
    BY <1>2 DEF LifeInv, Inv, DispatchInv, SingleDispatch
  <2>2. \A r \in Scans : ~(MarkSentInProcess(r) /\ scan[r].cur.key = k)
    BY <1>2, <2>1 DEF MarkSentInProcess, Dispatching
  <2>3. \A w \in Workers : ~((UpdateSent(w) \/ MarkFailed(w)) /\ worker[w].key = k)
    <3>1. \A w \in Workers : UpdateSent(w) \/ MarkFailed(w) => worker[w].pc # "idle"
      BY DEF UpdateSent, MarkFailed
    <3> QED
      BY <2>1, <3>1, SlotKey DEF Inv
  <2>4. \/ reminders'[k].status = reminders[k].status
        \/ reminders'[k].status \in {"none", "PENDING"}
    BY <2>2, <2>3, RowChange DEF Inv
  <2> QED
    BY <2>1, <2>4 DEF Open
<1> QED
  BY <1>1, <1>2, DispatchMove DEF Inv

\* What a step leaves in a slot: a run just taken, or the run it had.
LEMMA SlotMove ==
  ASSUME TypeOK, Next, NEW w \in Workers, Working(w)'
  PROVE  \/ \E k \in ReminderKey : TakeJob(w, k)
         \/ /\ Working(w)
            /\ worker'[w].key = worker[w].key /\ worker'[w].run = worker[w].run
            /\ ~CompleteJob(w) /\ ~JobFails(w)
<1>1. ASSUME NEW v \in Workers, NEW k \in ReminderKey, TakeJob(v, k), v # w
      PROVE  worker'[w] = worker[w] /\ worker[w] # IdleWorker
  BY <1>1 DEF TakeJob, Slot, IdleWorker, Working, TypeOK
<1>2. ASSUME ~\E v \in Workers : WorkerStep(v) \/ JobFails(v) \/ MarkFailedFault(v) \/ LockLost(v)
      PROVE  worker'[w] = worker[w]
  <2>1. ASSUME NEW h \in Hosts, Crash(h) PROVE worker'[w] = worker[w]
    BY <2>1 DEF Crash, Working, IdleWorker, Slot
  <2> QED
    BY <1>2, <2>1
    DEF Next, Tick, TaskRequest, CreateTask, UpdateTask, ReinsertTask, RemoveTask, HandleReminderScan,
        ManualScan, ScanStep, QueryDueSoon, QueryOverdue, CreateReminder, Enqueue,
        DispatchInProcess, MarkSentInProcess, FinishScan, ScanFault
<1>3. ~CompleteJob(w)
  BY DEF CompleteJob, Working, IdleWorker, Slot, TypeOK
<1>4. ~JobFails(w)
  <2>1. SUFFICES ASSUME JobFails(w) PROVE FALSE
    OBVIOUS
  <2>2. \/ worker' = [worker EXCEPT ![w] = IdleWorker]
        \/ worker' = [worker EXCEPT ![w] = Slot("markFailed", worker[w].key, 0)]
    BY <2>1, OnFailedCases DEF JobFails
  <2> QED
    BY <2>2 DEF Working, IdleWorker, Slot, TypeOK
<1>5. ASSUME NEW v \in Workers,
             JobFails(v) \/ MarkFailedFault(v) \/ LockLost(v)
             \/ (WorkerStep(v) /\ ~\E k \in ReminderKey : TakeJob(v, k))
      PROVE  Working(w) /\ worker'[w].key = worker[w].key /\ worker'[w].run = worker[w].run
  BY <1>5, SlotStep
<1>6. ASSUME worker'[w] = worker[w]
      PROVE  Working(w) /\ worker'[w].key = worker[w].key /\ worker'[w].run = worker[w].run
  BY <1>6 DEF Working
<1> QED
  BY <1>1, <1>2, <1>3, <1>4, <1>5, <1>6

\* Until some lock is lost, a slot at work holds the lock of its job.
LEMMA LocksAreKept ==
  ASSUME Inv, TypeOK', Next, LifeInv, ~Happened("lock")', NEW w \in Workers, Working(w)'
  PROVE  HoldsLock(w)'
<1>1. /\ \A v \in Workers : ~LockLost(v)
      /\ \A v \in Workers : Working(v) => HoldsLock(v)
  BY NoLockLost DEF Inv, LifeInv
<1>2. ASSUME NEW h \in Hosts, Crash(h), Working(w), HoldsLock(w)
      PROVE  jobs'[worker[w].key] = jobs[worker[w].key]
  <2>1. Host[w] # h
    BY <1>2 DEF Crash, Working, IdleWorker, Slot
  <2>2. worker[w].key \in ReminderKey /\ jobs[worker[w].key].state = "active"
    BY <1>2, SlotKey DEF Inv, Working, HoldsLock
  <2>3. ASSUME NEW v \in Workers, Host[v] = h, worker[v].key = worker[w].key, HoldsLock(v)
        PROVE  FALSE
    <3>1. worker[v].pc # "idle"
      BY <2>2, <2>3, ConstantsAssumption DEF ConstantsAssumption, Inv, CarryInv
    <3>2. worker[v].pc # "markFailed"
      BY <2>2, <2>3 DEF Inv, FailedInv, DeadLettered
    <3> QED
      BY <1>2, <2>1, <2>3, <3>1, <3>2, OneHolder DEF Inv, Working
  <2> QED
    BY <1>2, <2>2, <2>3 DEF Crash
<1>3. ASSUME NEW k \in ReminderKey, TakeJob(w, k)
      PROVE  HoldsLock(w)'
  <2>1. jobs'[k].state = "active" /\ Run(k)' = Run(k)
    BY <1>3 DEF TakeJob, Run, Inv, TypeOK, Job
  <2>2. worker'[w].key = k /\ worker'[w].run = Run(k)
    BY <1>3 DEF TakeJob, Slot, Inv, TypeOK
  <2> QED
    BY <2>1, <2>2 DEF HoldsLock, Run
<1>4. ASSUME Working(w), worker'[w].key = worker[w].key, worker'[w].run = worker[w].run,
             ~CompleteJob(w), ~JobFails(w)
      PROVE  HoldsLock(w)'
  <2> DEFINE j == worker[w].key
  <2>1. j \in ReminderKey /\ jobs[j].state = "active" /\ HoldsLock(w)
    BY <1>1, <1>4, SlotKey DEF Inv, Working, HoldsLock
  <2>2. ASSUME NEW v \in Workers, CompleteJob(v) \/ JobFails(v), HoldsLock(v),
               worker[v].key = j
        PROVE  FALSE
    <3>1. Working(v)
      BY <2>2 DEF CompleteJob, JobFails, Working
    <3>2. v = w
      BY <1>4, <2>1, <2>2, <3>1, OneHolder DEF Inv
    <3> QED
      BY <1>4, <2>2, <3>2
  <2>3. jobs'[j] = jobs[j]
    BY <1>1, <1>2, <1>4, <2>1, <2>2, ActiveJobStays DEF Inv
  <2> QED
    BY <1>4, <2>1, <2>3 DEF HoldsLock, Run
<1> QED
  BY <1>3, <1>4, SlotMove DEF Inv

\* A slot comes to deliver a reminder by finding it unsettled, and delivers it
\* no more once it has marked it SENT.
LEMMA DeliveryMove ==
  ASSUME TypeOK, Next, NEW w \in Workers, Delivers(w)'
  PROVE  /\ worker'[w].key = worker[w].key
         /\ \/ Delivers(w) /\ ~UpdateSent(w)
            \/ FindReminder(w) /\ ~Settled(reminders[worker[w].key])
<1> USE DEF Delivers
<1>1. Working(w)'
  BY DEF Working
<1>2. ASSUME NEW k \in ReminderKey, TakeJob(w, k)
      PROVE  FALSE
  BY <1>2 DEF TakeJob, Slot, TypeOK
<1>3. Working(w) /\ worker'[w].key = worker[w].key /\ ~CompleteJob(w)
  BY <1>1, <1>2, SlotMove
<1>4. ~UpdateSent(w)
  BY DEF UpdateSent, TypeOK, WorkerState
<1>5. CASE FindReminder(w)
  BY <1>3, <1>5 DEF FindReminder, TypeOK
<1>6. CASE FindTask(w) \/ Notify(w)
  BY <1>3, <1>4, <1>6 DEF FindTask, Notify
<1>7. CASE worker'[w] = worker[w]
  BY <1>3, <1>4, <1>7
<1>8. ASSUME NEW v \in Workers, v # w,
             WorkerStep(v) \/ JobFails(v) \/ MarkFailedFault(v) \/ LockLost(v)
      PROVE  worker'[w] = worker[w]
  <2>1. ASSUME NEW k, NEW n, OnFailed(v, k, n)
        PROVE  worker'[w] = worker[w]
    BY <1>8, <2>1, OnFailedCases DEF TypeOK
  <2>2. ASSUME JobFails(v)
        PROVE  worker'[w] = worker[w]
    <3>1. \/ OnFailed(v, worker[v].key, jobs[worker[v].key].attemptsMade + 1)
          \/ worker' = [worker EXCEPT ![v] = IdleWorker]
      BY <2>2 DEF JobFails
    <3> QED
      BY <1>8, <2>1, <3>1 DEF TypeOK
  <2>3. ASSUME NEW k \in ReminderKey, FailStalled(v, k)
        PROVE  worker'[w] = worker[w]
    <3>1. OnFailed(v, k, jobs[k].attemptsMade + 1)
      BY <2>3 DEF FailStalled
    <3> QED
      BY <2>1, <3>1
  <2> QED
    BY <1>8, <2>2, <2>3
    DEF WorkerStep, TakeJob, FindReminder, FindTask, Notify, UpdateSent, CompleteJob, MarkFailed,
        MarkFailedFault, LockLost, TypeOK
<1>9. ~JobFails(w) /\ (MarkFailed(w) \/ MarkFailedFault(w) => FALSE)
      /\ \A k \in ReminderKey : ~FailStalled(w, k)
  BY <1>1, <1>2, <1>3, SlotMove DEF MarkFailed, MarkFailedFault, FailStalled, Working
<1>10. ASSUME ~\E v \in Workers :
               WorkerStep(v) \/ JobFails(v) \/ MarkFailedFault(v) \/ LockLost(v)
       PROVE  worker'[w] = worker[w]
  <2>1. ASSUME NEW h \in Hosts, Crash(h) PROVE worker'[w] = worker[w]
    BY <2>1 DEF Crash, IdleWorker, Slot
  <2> QED
    BY <1>10, <2>1
    DEF Next, Tick, TaskRequest, CreateTask, UpdateTask, ReinsertTask, RemoveTask, HandleReminderScan,
        ManualScan, ScanStep, QueryDueSoon, QueryOverdue, CreateReminder, Enqueue,
        DispatchInProcess, MarkSentInProcess, FinishScan, ScanFault
<1>11. CASE LockLost(w)
  BY <1>7, <1>11 DEF LockLost
<1> QED
  BY <1>2, <1>3, <1>4, <1>5, <1>6, <1>7, <1>8, <1>9, <1>10, <1>11 DEF WorkerStep

LEMMA DeliveryStaysOpen ==
  ASSUME Inv, TypeOK', Next, LifeInv, ~Happened("lock")', NEW w \in Workers, Delivers(w)'
  PROVE  Open(worker[w].key)'
<1> DEFINE k == worker[w].key
<1>1. /\ worker'[w].key = k
      /\ \/ Delivers(w) /\ ~UpdateSent(w)
         \/ FindReminder(w) /\ ~Settled(reminders[k])
  BY DeliveryMove DEF Inv
<1>2. Working(w) /\ ~UpdateSent(w)
  BY <1>1 DEF Delivers, Working, FindReminder, UpdateSent
<1>3. ~Happened("lock") /\ \A v \in Workers : Working(v) => HoldsLock(v)
  BY NoLockLost DEF Inv, LifeInv
<1>4. k \in ReminderKey /\ jobs[k].state = "active" /\ HoldsLock(w)
  BY <1>2, <1>3, SlotKey DEF Inv, Working, HoldsLock
<1>5. Open(k)
  <2>1. CASE Delivers(w)
    BY <1>3, <2>1 DEF LifeInv
  <2>2. CASE ~Settled(reminders[k])
    <3>1. reminders[k].status # "FAILED"
      BY <1>4 DEF Inv, FailedInv, FailedIsFinal
    <3> QED
      BY <1>4, <2>2, <3>1 DEF Settled, Open, Inv, TypeOK, ReminderRow
  <2> QED
    BY <1>1, <2>1, <2>2
<1>6. \A s \in Scans : ~(MarkSentInProcess(s) /\ scan[s].cur.key = k)
  BY <1>4 DEF MarkSentInProcess, Inv, DispatchInv, SingleDispatch, Dispatching
<1>7. ASSUME NEW v \in Workers, worker[v].key = k, UpdateSent(v)
      PROVE  FALSE
  <2>1. Working(v)
    BY <1>7 DEF UpdateSent, Working
  <2> QED
    BY <1>2, <1>3, <1>4, <1>7, <2>1, OneHolder DEF Inv
<1>8. ASSUME NEW v \in Workers, worker[v].key = k, MarkFailed(v)
      PROVE  FALSE
  BY <1>4, <1>8 DEF MarkFailed, Inv, FailedInv, DeadLettered
<1>9. reminders'[k].status = reminders[k].status \/ reminders'[k].status \in {"none", "PENDING"}
  BY <1>4, <1>6, <1>7, <1>8, RowChange DEF Inv
<1> QED
  BY <1>1, <1>5, <1>9 DEF Open

LEMMA InitLifeInv == Init => LifeInv /\ ~Happened("lock")
  BY ConstantsAssumption DEF ConstantsAssumption, Init, LifeInv, Dispatching, Working, Delivers,
     IdleScan, IdleWorker, Slot, Happened, Event

LEMMA LifeInvStep == Inv /\ TypeOK' /\ LifeInv /\ [Next]_vars => LifeInv'
<1> SUFFICES ASSUME Inv, TypeOK', LifeInv, [Next]_vars PROVE LifeInv'
  OBVIOUS
<1>1. CASE UNCHANGED vars
  BY <1>1 DEF vars, LifeInv, Dispatching, Open, Happened, Working, HoldsLock, Run, Delivers
<1>2. CASE Next
  <2>1. budget'["lock"] <= Budget["lock"]
    <3>1. /\ budget["lock"] \in Nat /\ budget'["lock"] \in Nat /\ Budget["lock"] \in Nat
          /\ budget'["lock"] <= budget["lock"] /\ budget["lock"] <= Budget["lock"]
      BY <1>2, LocksLeft DEF Inv, LifeInv
    <3> QED
      BY <3>1
  <2>2. \A s \in Scans, k \in ReminderKey : Dispatching(s, k)' => Open(k)'
    BY <1>2, DispatchStaysOpen
  <2>3. ~Happened("lock")' => \A w \in Workers : Working(w)' => HoldsLock(w)'
    BY <1>2, LocksAreKept
  <2>4. ASSUME ~Happened("lock")', NEW w \in Workers, Delivers(w)'
        PROVE  reminders'[worker'[w].key].status \in {"none", "PENDING"}
    <3>1. Open(worker[w].key)' /\ worker'[w].key = worker[w].key
      BY <1>2, <2>4, DeliveryStaysOpen, DeliveryMove DEF Inv
    <3> QED
      BY <3>1 DEF Open
  <2> QED
    BY <2>1, <2>2, <2>3, <2>4 DEF LifeInv, Open
<1> QED
  BY <1>1, <1>2

LEMMA InvStep == Inv /\ TypeOK' /\ [Next]_vars => Inv'
  BY RowLivesStep, DispatchInvStep, RunInvStep, FailedInvStep, CarryInvStep DEF Inv

LEMMA InitInv == Init => Inv
  BY InitTypeOK, InitDispatchInv, InitCarryInv
  DEF Init, Inv, JobInv, RunInv, Working, Fresh, IdleWorker, Slot, NoJob

-----------------------------------------------------------------------------
(* The abstract steps.                                                      *)

\* What the refinement mapping makes of one reminder.
StateOf(k) == IF Gone(k) THEN "deleted" ELSE reminders[k].status

ToldOf(k) == {n.run : n \in {m \in inbox : m.key = k}}

StatesStay(K) == \A k \in K : StateOf(k)' = StateOf(k)

ToldStays(K) == \A k \in K : ToldOf(k)' = ToldOf(k)

LockStays == Happened("lock")' = Happened("lock")

LEMMA StutterStep ==
  ASSUME StatesStay(ReminderKey), ToldStays(ReminderKey), LockStays
  PROVE  UNCHANGED Lifecycle!vars
<1>1. \A k \in ReminderKey : StateOf(k)' = StateOf(k) /\ ToldOf(k)' = ToldOf(k)
  BY DEF StatesStay, ToldStays
<1> QED
  BY <1>1 DEF Lifecycle!vars, StateOf, ToldOf, LockStays

\* One reminder changes its state as the life cycle allows.
LEMMA StateStep ==
  ASSUME NEW k \in ReminderKey, StatesStay(ReminderKey \ {k}), ToldStays(ReminderKey), LockStays,
         \/ /\ \A j \in ReminderKey : Unique(j) = Unique(k) => StateOf(j) \in {"none", "deleted"}
            /\ StateOf(k) = "none" /\ StateOf(k)' = "PENDING"
         \/ /\ StateOf(k) = "PENDING" \/ (StateOf(k) = "FAILED" /\ Happened("lock"))
            /\ StateOf(k)' = "SENT"
         \/ StateOf(k) \in {"PENDING", "SENT"} /\ StateOf(k)' = "FAILED"
  PROVE  Lifecycle!Next
<1> DEFINE state == [j \in ReminderKey |-> StateOf(j)]
           state2 == [j \in ReminderKey |-> StateOf(j)']
           told == [j \in ReminderKey |-> ToldOf(j)]
           told2 == [j \in ReminderKey |-> ToldOf(j)']
<1>1. state2 = [state EXCEPT ![k] = StateOf(k)']
  BY DEF StatesStay
<1>2. told2 = told
  BY DEF ToldStays
<1>3. state[k] = StateOf(k)
  OBVIOUS
<1>4. CASE /\ \A j \in ReminderKey : Unique(j) = Unique(k) => StateOf(j) \in {"none", "deleted"}
           /\ StateOf(k) = "none" /\ StateOf(k)' = "PENDING"
  <2>1. Lifecycle!Create(k)
    BY <1>1, <1>2, <1>3, <1>4 DEF Lifecycle!Create, StateOf, ToldOf, LockStays
  <2> QED
    BY <2>1 DEF Lifecycle!Next
<1>5. CASE /\ StateOf(k) = "PENDING" \/ (StateOf(k) = "FAILED" /\ Happened("lock"))
           /\ StateOf(k)' = "SENT"
  <2>1. Lifecycle!Send(k)
    BY <1>1, <1>2, <1>3, <1>5 DEF Lifecycle!Send, StateOf, ToldOf, LockStays
  <2> QED
    BY <2>1 DEF Lifecycle!Next
<1>6. CASE StateOf(k) \in {"PENDING", "SENT"} /\ StateOf(k)' = "FAILED"
  <2>1. Lifecycle!GiveUp(k)
    BY <1>1, <1>2, <1>3, <1>6 DEF Lifecycle!GiveUp, StateOf, ToldOf, LockStays
  <2> QED
    BY <2>1 DEF Lifecycle!Next
<1> QED
  BY <1>4, <1>5, <1>6

\* One run notifies of one reminder for the first time.
LEMMA TellStep ==
  ASSUME NEW k \in ReminderKey, NEW r \in 0 .. Attempts + StalledLimit - 1,
         StatesStay(ReminderKey), ToldStays(ReminderKey \ {k}), LockStays,
         r \notin ToldOf(k), ToldOf(k)' = ToldOf(k) \cup {r},
         StateOf(k) \in {"PENDING", "deleted"} \/ (StateOf(k) # "none" /\ Happened("lock"))
  PROVE  Lifecycle!Next
<1> DEFINE state == [j \in ReminderKey |-> StateOf(j)]
           state2 == [j \in ReminderKey |-> StateOf(j)']
           told == [j \in ReminderKey |-> ToldOf(j)]
           told2 == [j \in ReminderKey |-> ToldOf(j)']
<1>1. state2 = state
  BY DEF StatesStay
<1>2. told2 = [told EXCEPT ![k] = told[k] \cup {r}]
  BY DEF ToldStays
<1>3. state[k] = StateOf(k) /\ told[k] = ToldOf(k)
  OBVIOUS
<1>4. Lifecycle!Tell(k)
  BY <1>1, <1>2, <1>3 DEF Lifecycle!Tell, StateOf, ToldOf, LockStays
<1> QED
  BY <1>4 DEF Lifecycle!Next

-----------------------------------------------------------------------------
(* The steps of the engine.                                                 *)

LEMMA LockStep ==
  ASSUME TypeOK, Next
  PROVE  LockStays \/ \E w \in Workers : LockLost(w)
<1>1. ASSUME NEW e \in Event \ {"lock"}, Spend(e)
      PROVE  budget'["lock"] = budget["lock"]
  BY <1>1 DEF Spend, TypeOK, Event
<1>2. budget'["lock"] = budget["lock"] \/ \E w \in Workers : LockLost(w)
  BY <1>1
  DEF Event, Next, Tick, TaskRequest, CreateTask, UpdateTask, ReinsertTask, RemoveTask, HandleReminderScan,
      ManualScan, ScanStep, QueryDueSoon, QueryOverdue, CreateReminder, Enqueue,
      DispatchInProcess, MarkSentInProcess, FinishScan, ScanFault, WorkerStep, TakeJob,
      FailStalled, FindReminder, FindTask, Notify, UpdateSent, CompleteJob, JobFails, MarkFailed,
      MarkFailedFault, Crash
<1> QED
  BY <1>2 DEF LockStays, Happened

\* A row that stays, with its task as it is, leaves its reminder where it is.
LEMMA RowStays ==
  ASSUME NEW K \in SUBSET ReminderKey, UNCHANGED tasks,
         \A k \in K : reminders'[k].status = reminders[k].status
  PROVE  StatesStay(K)
  BY DEF StatesStay, StateOf, Gone

LEMMA InboxStays ==
  ASSUME UNCHANGED inbox
  PROVE  ToldStays(ReminderKey)
  BY DEF ToldStays, ToldOf

AbstractStep == Lifecycle!Next \/ UNCHANGED Lifecycle!vars

\* A job's lock is lost: the life cycle records that it may repeat itself.
LEMMA LockLostStep ==
  ASSUME Inv, TypeOK', LifeInv, NEW w \in Workers, LockLost(w)
  PROVE  AbstractStep
<1>1. budget'["lock"] < Budget["lock"]
  <2>1. /\ budget["lock"] \in Nat /\ budget'["lock"] = budget["lock"] - 1
        /\ Budget["lock"] \in Nat /\ budget["lock"] <= Budget["lock"]
    BY ConstantsAssumption
    DEF ConstantsAssumption, LockLost, Spend, Inv, TypeOK, LifeInv, Event
  <2> QED
    BY <2>1
<1>2. UNCHANGED <<tasks, reminders, inbox>>
  BY DEF LockLost
<1>3. Lifecycle!LoseLock
  BY <1>1, <1>2 DEF Lifecycle!LoseLock, Happened, Gone
<1> QED
  BY <1>3 DEF AbstractStep, Lifecycle!Next

LEMMA RemoveTaskStep ==
  ASSUME Inv, LockStays, NEW t \in Tasks, RemoveTask(t)
  PROVE  AbstractStep
<1>1. /\ reminders' = [k \in ReminderKey |-> IF k.task = t THEN NoRow ELSE reminders[k]]
      /\ UNCHANGED inbox
  BY DEF RemoveTask
<1>2. /\ tasks'[t].status = "gone" /\ tasks'[t].life = tasks[t].life
      /\ \A u \in Tasks \ {t} : tasks'[u] = tasks[u]
  BY DEF RemoveTask, Inv, TypeOK
<1>3. ASSUME NEW k \in ReminderKey
      PROVE  StateOf(k)' \in {StateOf(k), "deleted"}
  <2>1. k.task \in Tasks /\ k.life \in Nat /\ tasks[k.task].life \in Nat
    BY ConstantsAssumption DEF ConstantsAssumption, ReminderKey, Lives, Inv, TypeOK, TaskRow
  <2>2. CASE k.task # t
    BY <1>1, <1>2, <2>1, <2>2 DEF StateOf, Gone
  <2>3. CASE k.task = t /\ k.life <= tasks[t].life
    BY <1>2, <2>1, <2>3 DEF StateOf, Gone
  <2>4. CASE k.task = t /\ ~(k.life <= tasks[t].life)
    <3>1. StateOf(k) = "none"
      BY <2>1, <2>4 DEF StateOf, Gone, Inv, RowLives
    <3>2. StateOf(k)' = "none"
      BY <1>1, <1>2, <2>1, <2>4 DEF StateOf, Gone, NoRow
    <3> QED
      BY <3>1, <3>2
  <2> QED
    BY <2>2, <2>3, <2>4
<1>4. \A k \in ReminderKey : StateOf(k)' \in Lifecycle!State
  BY <1>3 DEF StateOf, Lifecycle!State, Inv, TypeOK, ReminderRow
<1>5. ToldStays(ReminderKey)
  BY <1>1, InboxStays
<1>6. Lifecycle!Delete
  BY <1>3, <1>4, <1>5 DEF Lifecycle!Delete, StateOf, ToldOf, ToldStays, LockStays
<1> QED
  BY <1>6 DEF AbstractStep, Lifecycle!Next

LEMMA CreateReminderStep ==
  ASSUME Inv, LockStays, NEW s \in Scans, CreateReminder(s)
  PROVE  AbstractStep
<1>1. UNCHANGED tasks /\ ToldStays(ReminderKey)
  BY InboxStays DEF CreateReminder
<1>2. CASE UNCHANGED reminders
  BY <1>1, <1>2, RowStays, StutterStep DEF AbstractStep
<1>3. ASSUME NEW u \in UniqueKey, tasks[u.task].status # "gone", ~Conflict(u),
             reminders' = [reminders EXCEPT ![NewRow(u)].status = "PENDING"]
      PROVE  AbstractStep
  <2>1. PICK k \in ReminderKey : k = NewRow(u)
    BY NewRowType DEF Inv
  <2>2. Unique(k) = u /\ k.task = u.task /\ k.life = tasks[k.task].life /\ k.life \in Nat
    BY <2>1, NewRowType, ConstantsAssumption DEF ConstantsAssumption, Inv, ReminderKey, Lives
  <2>3. ~Gone(k) /\ ~Gone(k)'
    BY <1>1, <1>3, <2>2 DEF Gone
  <2>4. \A j \in ReminderKey : Unique(j) = Unique(k) => reminders[j].status = "none"
    BY <1>3, <2>2 DEF Conflict
  <2>5. reminders'[k].status = "PENDING"
    BY <1>3, <2>1 DEF Inv, TypeOK, ReminderRow
  <2>6. /\ StateOf(k) = "none" /\ StateOf(k)' = "PENDING"
        /\ \A j \in ReminderKey : Unique(j) = Unique(k) => StateOf(j) \in {"none", "deleted"}
    BY <2>3, <2>4, <2>5 DEF StateOf
  <2>7. \A j \in ReminderKey \ {k} : reminders'[j].status = reminders[j].status
    BY <1>3, <2>1 DEF Inv, TypeOK
  <2>8. StatesStay(ReminderKey \ {k})
    BY <1>1, <2>7, RowStays
  <2> QED
    BY <1>1, <2>6, <2>8, StateStep DEF AbstractStep
<1> QED
  BY <1>2, <1>3, NewRows DEF Inv

\* An UPDATE of one row settles its reminder, or is lost with its row.
LEMMA UpdateRowStep ==
  ASSUME Inv, LockStays, UNCHANGED <<tasks, inbox>>, NEW k \in ReminderKey,
         NEW row \in ReminderRow, UpdateRow(k, row),
         \/ /\ row.status = "SENT"
            /\ reminders[k].status = "FAILED" => Happened("lock")
         \/ row.status = "FAILED"
  PROVE  AbstractStep
<1>1. ToldStays(ReminderKey)
  BY InboxStays
<1>2. StatesStay(ReminderKey \ {k})
  BY RowStays DEF UpdateRow, Inv, TypeOK
<1>3. CASE StateOf(k)' = StateOf(k)
  <2>1. StatesStay(ReminderKey)
    BY <1>2, <1>3 DEF StatesStay
  <2> QED
    BY <1>1, <2>1, StutterStep DEF AbstractStep
<1>4. CASE StateOf(k)' # StateOf(k)
  <2>1. /\ ~Gone(k) /\ ~Gone(k)' /\ reminders[k].status # "none"
        /\ reminders' = [reminders EXCEPT ![k] = row]
    BY <1>4 DEF StateOf, UpdateRow, Gone
  <2>2. StateOf(k) = reminders[k].status /\ StateOf(k)' = row.status
    BY <2>1 DEF StateOf, Inv, TypeOK
  <2>3. reminders[k].status \in {"PENDING", "SENT", "FAILED"}
    BY <2>1 DEF Inv, TypeOK, ReminderRow
  <2> QED
    BY <1>1, <1>2, <1>4, <2>2, <2>3, StateStep DEF AbstractStep
<1> QED
  BY <1>3, <1>4

LEMMA SettleStep ==
  ASSUME Inv, TypeOK', LifeInv, LockStays,
         \/ \E s \in Scans : MarkSentInProcess(s)
         \/ \E w \in Workers : UpdateSent(w) \/ MarkFailed(w)
  PROVE  AbstractStep
<1>1. ASSUME NEW s \in Scans, MarkSentInProcess(s)
      PROVE  AbstractStep
  <2> DEFINE k == scan[s].cur.key
             row == [reminders[k] EXCEPT !.status = "SENT"]
  <2>1. k \in ReminderKey /\ Dispatching(s, k)
    BY <1>1 DEF MarkSentInProcess, Dispatching, Inv, TypeOK, ScanState, Dispatch
  <2>2. Open(k)
    BY <2>1 DEF LifeInv
  <2>3. row \in ReminderRow /\ row.status = "SENT"
    BY <2>1 DEF Inv, TypeOK, ReminderRow
  <2>4. UpdateRow(k, row) /\ UNCHANGED <<tasks, inbox>>
    BY <1>1 DEF MarkSentInProcess
  <2>5. reminders[k].status # "FAILED"
    BY <2>2 DEF Open
  <2> HIDE DEF row, k
  <2> QED
    BY <2>1, <2>3, <2>4, <2>5, UpdateRowStep
<1>2. ASSUME NEW w \in Workers, UpdateSent(w)
      PROVE  AbstractStep
  <2> DEFINE k == worker[w].key
             row == [status |-> "SENT", attempts |-> worker[w].attempts + 1]
  <2>1. k \in ReminderKey /\ row \in ReminderRow /\ row.status = "SENT"
    BY <1>2 DEF UpdateSent, Inv, TypeOK, WorkerState, ReminderRow
  <2>2. UpdateRow(k, row) /\ UNCHANGED <<tasks, inbox>>
    BY <1>2 DEF UpdateSent
  <2>3. reminders[k].status = "FAILED" => Happened("lock")
    BY <1>2 DEF LifeInv, Delivers, Open, UpdateSent
  <2> HIDE DEF row, k
  <2> QED
    BY <2>1, <2>2, <2>3, UpdateRowStep
<1>3. ASSUME NEW w \in Workers, MarkFailed(w)
      PROVE  AbstractStep
  <2> DEFINE k == worker[w].key
             row == [status |-> "FAILED", attempts |-> jobs[k].attemptsMade]
  <2>1. k \in ReminderKey /\ row \in ReminderRow /\ row.status = "FAILED"
    BY <1>3 DEF MarkFailed, Inv, TypeOK, WorkerState, ReminderRow, Job
  <2>2. UpdateRow(k, row) /\ UNCHANGED <<tasks, inbox>>
    BY <1>3 DEF MarkFailed
  <2> HIDE DEF row, k
  <2> QED
    BY <2>1, <2>2, UpdateRowStep
<1> QED
  BY <1>1, <1>2, <1>3

\* A new notification is the first of its run, and not of a settled reminder.
LEMMA NotifyStep ==
  ASSUME Inv, LockStays, UNCHANGED <<tasks, reminders>>,
         NEW k \in ReminderKey, NEW r \in 0 .. Attempts + StalledLimit - 1, NEW to,
         NotifyAssignee(k, r, to),
         \A n \in inbox : ~(n.key = k /\ n.run = r),
         Taken(k), Open(k) \/ Happened("lock")
  PROVE  AbstractStep
<1> DEFINE new == [key |-> k, run |-> r, to |-> to]
<1>1. inbox' = inbox \cup {new} /\ new.key = k /\ new.run = r
  BY DEF NotifyAssignee
<1>2. StatesStay(ReminderKey)
  BY RowStays
<1>3. ToldStays(ReminderKey \ {k})
  BY <1>1 DEF ToldStays, ToldOf
<1>4. r \notin ToldOf(k)
  BY DEF ToldOf
<1>5. ToldOf(k)' = ToldOf(k) \cup {r}
  <2>1. {m \in inbox' : m.key = k} = {m \in inbox : m.key = k} \cup {new}
    BY <1>1
  <2> QED
    BY <1>1, <2>1 DEF ToldOf
<1>6. StateOf(k) \in {"PENDING", "deleted"} \/ (StateOf(k) # "none" /\ Happened("lock"))
  BY DEF Taken, Open, StateOf
<1> QED
  BY <1>2, <1>3, <1>4, <1>5, <1>6, TellStep DEF AbstractStep

LEMMA InboxStep ==
  ASSUME Inv, TypeOK', LifeInv, LockStays,
         \/ \E s \in Scans : DispatchInProcess(s)
         \/ \E w \in Workers : Notify(w)
  PROVE  AbstractStep
<1>1. ASSUME NEW s \in Scans, DispatchInProcess(s)
      PROVE  AbstractStep
  <2> DEFINE k == scan[s].cur.key
  <2>1. k \in ReminderKey /\ Dispatching(s, k) /\ scan[s].pc = "dispatch"
    BY <1>1 DEF DispatchInProcess, Dispatching, Inv, TypeOK, ScanState, Dispatch
  <2>2. Open(k) /\ Taken(k) /\ \A n \in inbox : n.key # k
    BY <2>1 DEF LifeInv, Inv, DispatchInv, SingleDispatch
  <2>3. 0 \in 0 .. Attempts + StalledLimit - 1
    BY ConstantsAssumption DEF ConstantsAssumption
  <2>4. UNCHANGED <<tasks, reminders>>
        /\ (NotifyAssignee(k, 0, scan[s].cur.to) \/ UNCHANGED inbox)
    BY <1>1 DEF DispatchInProcess
  <2>5. CASE UNCHANGED inbox
    BY <2>4, <2>5, RowStays, InboxStays, StutterStep DEF AbstractStep
  <2>6. CASE NotifyAssignee(k, 0, scan[s].cur.to)
    <3> HIDE DEF k
    <3> QED
      BY <2>1, <2>2, <2>3, <2>4, <2>6, NotifyStep
  <2> QED
    BY <2>4, <2>5, <2>6
<1>2. ASSUME NEW w \in Workers, Notify(w)
      PROVE  AbstractStep
  <2> DEFINE k == worker[w].key
             r == worker[w].run
  <2>1. Working(w) /\ Fresh(w) /\ Delivers(w)
    BY <1>2 DEF Notify, Working, Fresh, Delivers
  <2>2. k \in ReminderKey /\ Taken(k)
    BY <2>1, SlotKey DEF Inv, Working
  <2>3. r \in 0 .. Attempts + StalledLimit - 1
    BY <2>1, ConstantsAssumption
    DEF ConstantsAssumption, Inv, RunInv, Behind, TypeOK, WorkerState
  <2>4. \A n \in inbox : ~(n.key = k /\ n.run = r)
    BY <2>1 DEF Inv, RunInv
  <2>5. Open(k) \/ Happened("lock")
    BY <2>1 DEF LifeInv
  <2>6. UNCHANGED <<tasks, reminders>> /\ NotifyAssignee(k, r, worker[w].to)
    BY <1>2 DEF Notify
  <2> HIDE DEF k, r
  <2> QED
    BY <2>2, <2>3, <2>4, <2>5, <2>6, NotifyStep
<1> QED
  BY <1>1, <1>2

\* All other steps change nothing the life cycle shows.
LEMMA HiddenStep ==
  ASSUME Inv, TypeOK', LockStays, UNCHANGED <<reminders, inbox>>,
         UNCHANGED tasks
         \/ (TaskRequest /\ \A t \in Tasks : ~RemoveTask(t))
  PROVE  AbstractStep
<1>1. ASSUME NEW k \in ReminderKey
      PROVE  Gone(k)' <=> Gone(k)
  <2>1. k.task \in Tasks /\ k.life \in Nat /\ \A t \in Tasks : tasks[t].life \in Nat
    BY ConstantsAssumption DEF ConstantsAssumption, ReminderKey, Lives, Inv, TypeOK, TaskRow
  <2>2. CASE UNCHANGED tasks
    BY <2>2 DEF Gone
  <2>3. ASSUME NEW t \in Tasks, NEW due, NEW u, NEW st \in {"open", "closed"},
               CreateTask(t, due, u) \/ UpdateTask(t, st, due, u)
        PROVE  Gone(k)' <=> Gone(k)
    BY <2>1, <2>3 DEF CreateTask, UpdateTask, Gone, Inv, TypeOK
  <2>4. ASSUME NEW t \in Tasks, NEW due, NEW u, NEW st \in {"open", "closed"},
               ReinsertTask(t, st, due, u)
        PROVE  Gone(k)' <=> Gone(k)
    <3>1. /\ tasks[t].status = "gone" /\ tasks'[t].status # "gone"
          /\ tasks'[t].life = tasks[t].life + 1
          /\ \A v \in Tasks \ {t} : tasks'[v] = tasks[v]
      BY <2>4 DEF ReinsertTask, Inv, TypeOK
    <3> QED
      BY <2>1, <3>1 DEF Gone
  <2> QED
    BY <2>2, <2>3, <2>4 DEF TaskRequest
<1>2. StatesStay(ReminderKey)
  BY <1>1 DEF StatesStay, StateOf
<1> QED
  BY <1>2, InboxStays, StutterStep DEF AbstractStep

LEMMA LifecycleStep ==
  Inv /\ TypeOK' /\ LifeInv /\ [Next]_vars => [Lifecycle!Next]_(Lifecycle!vars)
<1> SUFFICES ASSUME Inv, TypeOK', LifeInv, [Next]_vars PROVE AbstractStep
  BY DEF AbstractStep
<1>1. CASE UNCHANGED vars
  <2>1. UNCHANGED <<tasks, reminders, inbox>> /\ LockStays
    BY <1>1 DEF vars, LockStays, Happened
  <2> QED
    BY <2>1, RowStays, InboxStays, StutterStep DEF AbstractStep
<1>2. CASE Next
  <2>1. CASE \E w \in Workers : LockLost(w)
    BY <2>1, LockLostStep
  <2>2. CASE LockStays
    <3>1. ASSUME NEW t \in Tasks, RemoveTask(t)
          PROVE  AbstractStep
      BY <2>2, <3>1, RemoveTaskStep
    <3>2. ASSUME NEW s \in Scans, CreateReminder(s)
          PROVE  AbstractStep
      BY <2>2, <3>2, CreateReminderStep
    <3>3. ASSUME NEW s \in Scans, DispatchInProcess(s)
          PROVE  AbstractStep
      BY <2>2, <3>3, InboxStep
    <3>4. ASSUME NEW w \in Workers, Notify(w)
          PROVE  AbstractStep
      BY <2>2, <3>4, InboxStep
    <3>5. ASSUME NEW s \in Scans, MarkSentInProcess(s)
          PROVE  AbstractStep
      BY <2>2, <3>5, SettleStep
    <3>6. ASSUME NEW w \in Workers, UpdateSent(w) \/ MarkFailed(w)
          PROVE  AbstractStep
      BY <2>2, <3>6, SettleStep
    <3>7. ASSUME UNCHANGED <<reminders, inbox>>,
                 UNCHANGED tasks \/ (TaskRequest /\ \A t \in Tasks : ~RemoveTask(t))
          PROVE  AbstractStep
      BY <2>2, <3>7, HiddenStep
    <3>8. CASE TaskRequest
      BY <3>1, <3>7, <3>8 DEF TaskRequest, CreateTask, UpdateTask, ReinsertTask
    <3>9. CASE Tick \/ \E h \in Hosts : Crash(h)
      BY <3>7, <3>9 DEF Tick, Crash
    <3>10. ASSUME NEW s \in Scans,
                  HandleReminderScan(s) \/ ManualScan(s) \/ ScanStep(s) \/ ScanFault(s)
           PROVE  AbstractStep
      BY <3>2, <3>3, <3>5, <3>7, <3>10
      DEF HandleReminderScan, ManualScan, ScanStep, QueryDueSoon, QueryOverdue, Enqueue,
          FinishScan, ScanFault
    <3>11. ASSUME NEW w \in Workers,
                  WorkerStep(w) \/ JobFails(w) \/ MarkFailedFault(w) \/ LockLost(w)
           PROVE  AbstractStep
      BY <2>1, <3>4, <3>6, <3>7, <3>11
      DEF WorkerStep, TakeJob, FailStalled, FindReminder, FindTask, CompleteJob, JobFails,
          MarkFailedFault
    <3> QED
      BY <1>2, <3>8, <3>9, <3>10, <3>11 DEF Next
  <2> QED
    BY <1>2, <2>1, <2>2, LockStep DEF Inv
<1> QED
  BY <1>1, <1>2

LEMMA InitLifecycle == Init => Lifecycle!Init
<1> SUFFICES ASSUME Init PROVE Lifecycle!Init
  OBVIOUS
<1>1. \A k \in ReminderKey : StateOf(k) = "none"
  BY ConstantsAssumption
  DEF ConstantsAssumption, Init, StateOf, Gone, NoTask, NoRow, ReminderKey, Lives
<1>2. \A k \in ReminderKey : ToldOf(k) = {}
  BY DEF Init, ToldOf
<1>3. Happened("lock") = FALSE
  BY InitLifeInv
<1> QED
  BY <1>1, <1>2, <1>3 DEF Lifecycle!Init, StateOf, ToldOf

\* The engine implements the life cycle: whatever scans overlap, deliveries
\* fail, processes crash and saves bring removed tasks back, a row of reminders
\* is created once and only when its unique key has no other, its assignee is
\* told by each run at most once and, until a live slot loses its lock, never
\* after the reminder is settled, and once deleted it stays so.
THEOREM LifecycleImplemented == Spec => ImplementsLifecycle
<1>1. Init => Inv /\ LifeInv /\ Lifecycle!Init
  BY InitInv, InitLifeInv, InitLifecycle
<1>2. Inv /\ TypeOK' /\ LifeInv /\ [Next]_vars => Inv' /\ LifeInv'
  BY InvStep, LifeInvStep
<1> QED
  BY <1>1, <1>2, LifecycleStep, TypeCorrect, PTL DEF Spec, ImplementsLifecycle, Lifecycle!Spec

=============================================================================
