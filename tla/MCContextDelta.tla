---------------------------- MODULE MCContextDelta ----------------------------
(* ContextDelta over three files and one that cannot be read.              *)
EXTENDS ContextDelta

CONSTANTS long, fresh, other, missing

MCFiles == {long, fresh, other, missing}
MCLength == [f \in MCFiles |-> IF f = missing THEN 0 ELSE IF f = other THEN 1 ELSE 3]
=============================================================================
