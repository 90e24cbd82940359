---------------------------- MODULE MCDominators ----------------------------
(* Dominators over every control flow graph of N blocks.  The predecessors   *)
(* of the entry are never read by the computation, so one choice is enough.  *)
EXTENDS Dominators

MCGraphs == { g \in [Ids -> SUBSET Ids] : g[0] = {} }
=============================================================================
