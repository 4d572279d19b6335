----------------------------- MODULE MCAgentLoop -----------------------------
(* AgentLoop with a handful of actions of each kind.                       *)
EXTENDS AgentLoop

CONSTANTS read1, read2, search1, edit1, edit2, final1, unknown1

MCReads == {read1, read2}
MCSearches == {search1}
MCEdits == {edit1, edit2}
MCFinals == {final1}
MCUnknowns == {unknown1}
MCPreloaded == {read2}
=============================================================================
