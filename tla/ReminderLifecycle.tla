--------------------------- MODULE ReminderLifecycle ---------------------------
(***************************************************************************)
(* What the reminder engine promises of each reminder, without its scans,  *)
(* queue, retries and crashes: it is created once, its assignee is told by *)
(* distinct delivery runs, of which there are few, it is then settled, and *)
(* nothing follows unless a job's lock was lost.  Reminders implements it. *)
(***************************************************************************)
CONSTANTS
  Keys,    \* the reminders that may exist
  Rivals,  \* of each, those that may not exist together with it
  Runs     \* the delivery runs one reminder may take

VARIABLES
  state,    \* of each reminder
  told,     \* the delivery runs that notified its assignee
  lockLost  \* some slot went on without the lock of its job

vars == <<state, told, lockLost>>

State == {"none", "PENDING", "SENT", "FAILED", "deleted"}

Init ==
  /\ state = [k \in Keys |-> "none"]
  /\ told = [k \in Keys |-> {}]
  /\ lockLost = FALSE

Create(k) ==
  /\ \A j \in Rivals[k] : state[j] \in {"none", "deleted"}
  /\ state[k] = "none"
  /\ state' = [state EXCEPT ![k] = "PENDING"]
  /\ UNCHANGED <<told, lockLost>>

\* A run that has loaded the reminder goes on when the task is removed.
Tell(k) ==
  /\ state[k] \in {"PENDING", "deleted"} \/ (state[k] # "none" /\ lockLost)
  /\ \E r \in Runs \ told[k] : told' = [told EXCEPT ![k] = @ \cup {r}]
  /\ UNCHANGED <<state, lockLost>>

Send(k) ==
  /\ state[k] = "PENDING" \/ (state[k] = "FAILED" /\ lockLost)
  /\ state' = [state EXCEPT ![k] = "SENT"]
  /\ UNCHANGED <<told, lockLost>>

\* Also after SENT: the run that recorded it may fail afterwards.
GiveUp(k) ==
  /\ state[k] \in {"PENDING", "SENT"}
  /\ state' = [state EXCEPT ![k] = "FAILED"]
  /\ UNCHANGED <<told, lockLost>>

\* A task is removed with all its reminders, also those never created.
Delete ==
  /\ \A k \in Keys : state'[k] \in {state[k], "deleted"}
  /\ state' \in [Keys -> State]
  /\ UNCHANGED <<told, lockLost>>

LoseLock == lockLost' = TRUE /\ UNCHANGED <<state, told>>

Next ==
  \/ Delete
  \/ LoseLock
  \/ \E k \in Keys : Create(k) \/ Tell(k) \/ Send(k) \/ GiveUp(k)

Spec == Init /\ [][Next]_vars
================================================================================
