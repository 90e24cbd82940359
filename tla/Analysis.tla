------------------------------ MODULE Analysis -------------------------------
(***************************************************************************)
(* Contract::getBasicBlocks whole: the scan and the walks of ConnectNodes, *)
(* then computeDominators (module Dominators) on the blocks they leave,    *)
(* and again for each function that decompile is asked for.                *)
(*                                                                         *)
(* The two components meet in the xrefs of the blocks.  The walks read and *)
(* write successors only, the dominators follow xrefs only: what the       *)
(* second takes for the graph is what the scan found, not what the walks   *)
(* made of it.                                                             *)
(***************************************************************************)
EXTENDS ConnectNodes

CONSTANTS
  N,                  \* number of basic blocks the contracts have
  IntBits, WordBits,  \* widths, see Dominators
  Pending             \* no words yet

ASSUME BlocksAssumption ==
  N \in Nat /\ \A p \in Programs : Cardinality(BlockStarts(p.listing)) = N

ASSUME WidthAssumption ==
  /\ IntBits \in Nat \ {0} /\ WordBits \in Nat /\ IntBits <= WordBits
  /\ Pending \notin [ 0 .. N - 1 -> SUBSET (0 .. WordBits - 1) ]

VARIABLES dominators, pc, it, preds, changed

dvars == << dominators, pc, it, preds, changed >>

\* The blocks are numbered in the order of the map.
Id(b) == Cardinality({ a \in DOMAIN blocks : a < b })

Xrefs ==
  [ i \in 0 .. N - 1 |->
      UNION { { Id(r) : r \in blocks[b].references } :
                b \in { a \in DOMAIN blocks : Id(a) = i } } ]

Sweeps == INSTANCE Dominators
            WITH references <- Xrefs, Graphs <- [ 0 .. N - 1 -> SUBSET (0 .. N - 1) ]

AInit ==
  /\ CInit
  /\ dominators = [ i \in 0 .. N - 1 |-> {} ]
  /\ pc = "start" /\ it = 1 /\ preds = {} /\ changed = FALSE

FindBlocks == (ScanStep \/ Connect) /\ UNCHANGED dvars

ComputeDominators ==
  phase = "done" /\ UNCHANGED allVars /\ Sweeps!Compute

\* Contract::decompile, behind the execution of a function.
Decompile == phase = "done" /\ UNCHANGED allVars /\ Sweeps!Recompute

ANext == FindBlocks \/ ComputeDominators \/ Decompile

\* getBasicBlocks runs to its end; nothing obliges a decompilation.
ASpec == AInit /\ [][ANext]_<< allVars, dvars >>
               /\ WF_<< allVars, dvars >>(FindBlocks \/ ComputeDominators)

-----------------------------------------------------------------------------
\* The whole analysis comes to an end (Contract.cpp:269-284), and so does the
\* computation that each decompilation repeats.
AnalysisAnswers == []<>(pc = "done")

\* Where the code goes from one block to another, read off the instructions, with
\* falls as the scan takes them (FallsInto; EdgesExact says where that is what the
\* code does): no successor that the walks have written is looked at.
CodeEdges ==
  UNION { {a} \X UNION { DefaultTargets(i) \cup BranchTargets(i) : i \in Extent(a) } :
            a \in DOMAIN blocks }

\* All that the edges E reach from the start of the code without entering d.
ReachedAround(E, d) ==
  Reached(DOMAIN blocks, { e \in E : e[1] # d /\ e[2] \in DOMAIN blocks \ {d} }, {0})
    \ {d}

\* When jumps go to JUMPDESTs, the words are the dominators in the graph of the
\* code without the returns:
\* the edges that the walks add, from the blocks that leave a function to its
\* caller, are not among the xrefs, and the block a call returns to has the
\* dominators of a block that nothing reaches (Contract.cpp:281, 322, 398).
DominatorsOfCode ==
  pc = "done" /\ LabelsAreDests =>
    LET E == CodeEdges
    IN  \A d \in DOMAIN blocks :
          LET around == ReachedAround(E, d)
          IN  \A b \in DOMAIN blocks : Id(d) \in dominators[Id(b)] <=> b \notin around
=============================================================================
