----------------------------- MODULE MCFetchTool ----------------------------
(* FetchTool on small instances, see the cfg files.                          *)
EXTENDS FetchTool, TLC

Symmetry == Permutations(Caller) \cup Permutations(EntryId)
=============================================================================
