---------------------------- MODULE TaskHierarchy ----------------------------
(***************************************************************************)
(* What TasksService and the foreign keys promise of a workspace's tasks,  *)
(* whatever statements a request is made of: a forest inside projects that *)
(* changes by one task added below an existing one, one subtree hung       *)
(* elsewhere, or one subtree or project removed.  A subtree hung below     *)
(* itself is marked: torn holds the tasks that were hung without regard to *)
(* what is below them, until they are hung anew or removed.                *)
(***************************************************************************)
CONSTANTS Ids, Projects, None

VARIABLES
  projects,   \* existing projects
  nodes,      \* existing tasks
  up,         \* the parent of each, None for a root and for no task
  home,       \* the project of each
  torn        \* the tasks that may hang below themselves

hierarchy == <<projects, nodes, up, home, torn>>

Init ==
  /\ projects = Projects
  /\ nodes = {}
  /\ up = [t \in Ids |-> None]
  /\ home = [t \in Ids |-> None]
  /\ torn = {}

\* The subtree of t: what every set holds that has t and the children of its
\* members.
Subtree(t) ==
  {d \in nodes : \A S \in SUBSET Ids : t \in S /\ (\A c \in nodes : up[c] \in S => c \in S)
                                         => d \in S}

MayHang(p, pr) == p = None \/ (p \in nodes /\ home[p] = pr)

\* A new task, or a removed one that save brings back.
Add(t, p, pr) ==
  /\ t \notin nodes
  /\ pr \in projects /\ MayHang(p, pr)
  /\ nodes' = nodes \cup {t}
  /\ up' = [up EXCEPT ![t] = p]
  /\ home' = [home EXCEPT ![t] = pr]
  /\ UNCHANGED <<projects, torn>>

Move(t, p) ==
  /\ UNCHANGED <<projects, nodes, home>>
  /\ up' = [up EXCEPT ![t] = p]
  /\ t \in nodes
  /\ MayHang(p, home[t])
  /\ \/ torn' = torn \cup {t}
     \/ torn' = torn \ {t} /\ p \notin Subtree(t)

Drop(S) ==
  /\ nodes' = nodes \ S
  /\ up' = [t \in Ids |-> IF t \in S THEN None ELSE up[t]]
  /\ home' = [t \in Ids |-> IF t \in S THEN None ELSE home[t]]
  /\ torn' = torn \ S

Remove(t) ==
  /\ UNCHANGED projects
  /\ t \in nodes
  /\ Drop(Subtree(t))

RemoveProject(pr) ==
  /\ pr \in projects
  /\ projects' = projects \ {pr}
  /\ Drop({t \in nodes : home[t] = pr})

Next ==
  \/ \E t \in Ids, p \in Ids \cup {None} : Move(t, p) \/ \E pr \in Projects : Add(t, p, pr)
  \/ \E t \in Ids : Remove(t)
  \/ \E pr \in Projects : RemoveProject(pr)

Spec == Init /\ [][Next]_hierarchy
=============================================================================
