------------------------------ MODULE Dominance ------------------------------
(***************************************************************************)
(* What Contract::computeDominators promises: asked for the dominators of  *)
(* a control flow graph, it answers with them, and the answer stands until *)
(* it is asked again.  How it finds them is module Dominators.             *)
(***************************************************************************)
EXTENDS Integers

CONSTANTS
  N,         \* number of basic blocks
  Pending    \* the answer while there is none

Ids == 0 .. N - 1

VARIABLES
  graph,     \* predecessors of each block
  answer     \* dominators of each block

(***************************************************************************)
(* Dominance, without paths: S is closed under the edges that do not enter *)
(* d and holds the entry unless that is d, so it holds all that can be     *)
(* reached around d.  A block outside such a set can only be reached       *)
(* through d.                                                              *)
(***************************************************************************)
ReachesAround(d, S) ==
  /\ d \notin S
  /\ d # 0 => 0 \in S
  /\ \A b \in Ids : \A p \in graph[b] : p \in S /\ b # d => b \in S

Dominates(d, b) == \E S \in SUBSET Ids : ReachesAround(d, S) /\ b \notin S

Init == graph \in [Ids -> SUBSET Ids] /\ answer = Pending

Answer ==
  /\ answer = Pending
  /\ answer' = [ b \in Ids |-> { d \in Ids : Dominates(d, b) } ]
  /\ UNCHANGED graph

Ask ==
  /\ answer # Pending
  /\ answer' = Pending
  /\ UNCHANGED graph

Next == Answer \/ Ask

Spec == Init /\ [][Next]_<< graph, answer >>
=============================================================================
