------------------------------ MODULE MCSessions ------------------------------
(* An instance of Sessions for TLC.                                          *)
EXTENDS Sessions, TLC

\* Tabs and calls are interchangeable.
Symmetry == Permutations(Tabs) \cup Permutations(Calls)
===============================================================================
