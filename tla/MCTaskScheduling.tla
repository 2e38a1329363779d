--------------------------- MODULE MCTaskScheduling ---------------------------
(* Small instances of TaskScheduling: the cfg files give the pipeline its      *)
(* shape.  Tasks are interchangeable, and so are workers.                      *)
EXTENDS TaskScheduling, TLC

Symmetry == Permutations(Task) \cup Permutations(Worker)
=============================================================================
