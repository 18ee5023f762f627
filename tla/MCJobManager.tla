------------------------------ MODULE MCJobManager ------------------------------
(* Small instances of JobManager for TLC. *)
EXTENDS JobManagerInv, TLC

\* Tasks are interchangeable; jobs are not (they are claimed in order).
TaskSymmetry == Permutations(Tasks)
=============================================================================
