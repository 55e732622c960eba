----------------------------- MODULE MCIttTasks ------------------------------
(* IttTasks for TLC: domains and controllers are interchangeable.          *)
EXTENDS IttTasks, TLC

Symmetry == Permutations(Domains) \cup Permutations(Controllers)
================================================================================
