---------------------------- MODULE MCModelClient ----------------------------
(* ModelClient on a small budget; the bounds are given in the .cfg files.  *)
EXTENDS ModelClient
=============================================================================
