--------------------------- MODULE MCNotifications ---------------------------
(* Instances of Notifications for TLC: how many outside events each run      *)
(* allows.                                                                   *)
EXTENDS Notifications, TLC

RequestsAndFault == [request |-> 2, edit |-> 1, removal |-> 1, fault |-> 1]
TwoRequests      == [request |-> 2, edit |-> 0, removal |-> 0, fault |-> 0]

\* A fault and an edit of a comment do not both happen.
FaultOrEdit ==
  \E e \in {"fault", "edit"} : budget[e] = Budget[e]

Symmetry == Permutations(Users) \cup Permutations(Requests) \cup Permutations(Comments)
=============================================================================
