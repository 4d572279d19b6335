----------------------------- MODULE MCSharedRoot -----------------------------
(* SharedRoot with two commands, as one runs the conditions side by side.  *)
EXTENDS SharedRoot, TLC

CONSTANTS retry, single     \* the conditions of the two commands

MCWork == single :> 1 @@ retry :> 1
=============================================================================
