----------------------------- MODULE MCAnalysis ------------------------------
(* The whole analysis of the loop-free contracts of MCConnectNodes, each of  *)
(* which has ten blocks.                                                     *)
EXTENDS Analysis, MCConnectNodes
=============================================================================
