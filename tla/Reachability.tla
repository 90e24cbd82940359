---------------------------- MODULE Reachability ----------------------------
(***************************************************************************)
(* What can be reached in a finite directed graph, for the properties that *)
(* speak of all the code behind a place in it.                             *)
(***************************************************************************)
EXTENDS Integers, FiniteSets

\* The nodes in S, and those that one edge of E leads to from there.
WithNext(E, S) == S \cup { e[2] : e \in { x \in E : x[1] \in S } }

\* The nodes of D that edges in E lead to from those in F: as many steps as
\* there are nodes come to all of them.
Reached(D, E, F) ==
  LET reach[n \in 0 .. Cardinality(D)] ==
        IF n = 0 THEN F \cap D ELSE WithNext(E, reach[n - 1])
  IN  reach[Cardinality(D)]
=============================================================================
