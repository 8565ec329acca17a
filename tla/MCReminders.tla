----------------------------- MODULE MCReminders -----------------------------
(* Instances of Reminders for TLC: how many outside events each run allows. *)
(* The slots of the worker are interchangeable.                             *)
EXTENDS Reminders, TLC

EventBudget(edit, scanFault, crash, lock, mark) ==
  [e \in Event |-> CASE e = "edit"  -> edit
                     [] e = "scan"  -> scanFault
                     [] e = "crash" -> crash
                     [] e = "lock"  -> lock
                     [] e = "mark"  -> mark]

AllEvents  == EventBudget(1, 1, 1, 1, 1)
AllFaults  == EventBudget(0, 1, 1, 1, 1)
OneFault   == EventBudget(0, 1, 0, 0, 0)

AHost == CHOOSE h \in Hosts : TRUE

OneProcess == [x \in Cron \cup Workers |-> AHost]

\* The cron executions in one worker process, the slots in another.
TwoProcesses ==
  [x \in Cron \cup Workers |->
     IF x \in Cron THEN AHost ELSE CHOOSE h \in Hosts : h # AHost]

InsertedAgain == {t \in Tasks : tasks[t].life > 0}

\* At most two kinds of outside events happen, and none but the removal once a
\* task is inserted again, as one to be reminded of.
TwoEvents ==
  /\ Cardinality({e \in Event : Happened(e)}) <= IF InsertedAgain = {} THEN 2 ELSE 1
  /\ \A t \in InsertedAgain :
       tasks[t].status # "closed" /\ (tasks[t].status = "open" => tasks[t].due # None)

Symmetry == Permutations(Workers)
=============================================================================
