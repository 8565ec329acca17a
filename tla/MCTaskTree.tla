------------------------------ MODULE MCTaskTree ------------------------------
(* Instances of TaskTree for TLC.  Task ids, projects and requests are      *)
(* interchangeable.                                                         *)
EXTENDS TaskTree, TLC

Symmetry == Permutations(TaskIds) \cup Permutations(Projects) \cup Permutations(Requests)

\* Once a task has been hung by an overtaken save, no step is followed from a
\* state in which more than three tasks have been created.
FewWhenTorn == torn # {} => Cardinality(used) <= 3
=============================================================================
