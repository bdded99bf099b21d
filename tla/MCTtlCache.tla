----------------------------- MODULE MCTtlCache -----------------------------
(* TtlCache on small instances, see the cfg files: more keys than places, a  *)
(* life of one instant and a clock that passes several lives.                *)
EXTENDS TtlCache
=============================================================================
