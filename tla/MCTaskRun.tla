------------------------------ MODULE MCTaskRun ------------------------------
(* TaskRun under each condition; the bounds are given in the .cfg files.    *)
EXTENDS TaskRun
=============================================================================
