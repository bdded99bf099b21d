---------------------------- MODULE MCRenderPool ----------------------------
(* RenderPool on small instances, see the cfg files.                         *)
EXTENDS RenderPool, TLC

Symmetry == Permutations(Caller) \cup Permutations(Pid)
=============================================================================
