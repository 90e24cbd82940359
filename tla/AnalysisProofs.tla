---------------------------- MODULE AnalysisProofs ----------------------------
(***************************************************************************)
(* Proofs about module Analysis: what the scan of BlockGraph and the walks *)
(* of ConnectNodes leave is a graph that module DominatorsProofs has       *)
(* something to say about, and what it says of xrefs and numbers is        *)
(* carried back to the code.                                               *)
(***************************************************************************)
EXTENDS Analysis, BlockGraphProofs

\* The proofs about the sweeps, on the xrefs of the blocks.
D == INSTANCE DominatorsProofs
       WITH references <- Xrefs, Graphs <- [ 0 .. N - 1 -> SUBSET (0 .. N - 1) ]

\* The steps that Analysis takes are those that the proofs are about.
LEMMA SameSweeps ==
  (Sweeps!Compute => D!Compute) /\ (Sweeps!Recompute => D!Recompute)
<1> USE DEF Sweeps!BeginSweep, D!BeginSweep, Sweeps!PredsAt, D!PredsAt,
            Sweeps!Shl1, D!Shl1, Sweeps!AllBits, D!AllBits, Sweeps!Ids, D!Ids
<1>1. Sweeps!InitDominators => D!InitDominators
  BY Zenon DEF Sweeps!InitDominators, D!InitDominators
<1>2. Sweeps!VisitPred => D!VisitPred
  BY Zenon DEF Sweeps!VisitPred, D!VisitPred
<1>3. Sweeps!NextBlock => D!NextBlock
  BY Zenon DEF Sweeps!NextBlock, D!NextBlock
<1>4. Sweeps!RepeatSweep => D!RepeatSweep
  BY Zenon DEF Sweeps!RepeatSweep, D!RepeatSweep
<1>5. Sweeps!Finish => D!Finish
  BY Zenon DEF Sweeps!Finish, D!Finish
<1>6. Sweeps!Recompute => D!Recompute
  BY Zenon DEF Sweeps!Recompute, D!Recompute
<1>7. QED
  BY <1>1, <1>2, <1>3, <1>4, <1>5, <1>6 DEF Sweeps!Compute, D!Compute

\* No contract is without a block, and no numbers are missing.
LEMMA SweepAssumptions ==
  ASSUME N # 0
  PROVE  /\ D!NAssumption /\ D!BitsAssumption
         /\ D!GraphsAssumption /\ D!PendingAssumption
  BY BlocksAssumption, WidthAssumption
  DEF D!NAssumption, D!BitsAssumption, D!GraphsAssumption, D!PendingAssumption,
      D!Ids, D!Word

LEMMA SweepKeeps ==
  ASSUME N # 0, N < IntBits, D!SettledInv,
         Sweeps!Compute \/ Sweeps!Recompute \/ UNCHANGED << Xrefs, dvars >>
  PROVE  D!SettledInv'
<1>1. [D!Next]_D!vars
  BY SameSweeps, Zenon DEF D!Next, D!vars, dvars
<1>2. QED
  BY <1>1, SweepAssumptions, D!SettledInvStep

-----------------------------------------------------------------------------
(***************************************************************************)
(* The numbers of the blocks.                                              *)
(***************************************************************************)
Numbered ==
  /\ IsFiniteSet(DOMAIN blocks) /\ DOMAIN blocks \subseteq Nat
  /\ 0 \in DOMAIN blocks /\ Cardinality(DOMAIN blocks) = N

\* The number of a block is its place in the map.
LEMMA IdsRise ==
  ASSUME Numbered
  PROVE  /\ N \in Nat \ {0} /\ Id(0) = 0
         /\ \A b \in DOMAIN blocks : Id(b) \in 0 .. N - 1
         /\ \A b, c \in DOMAIN blocks : Id(b) = Id(c) => b = c
<1> DEFINE below(b) == { a \in DOMAIN blocks : a < b }
<1>1. /\ IsFiniteSet(DOMAIN blocks) /\ DOMAIN blocks \subseteq Nat
      /\ 0 \in DOMAIN blocks /\ Cardinality(DOMAIN blocks) = N
  BY DEF Numbered
<1>2. \A b : below(b) \subseteq DOMAIN blocks /\ IsFiniteSet(below(b))
  BY <1>1, FS_Subset
<1>3. \A b : Cardinality(below(b)) \in Nat
  BY <1>2, FS_CardinalityType
<1>4. \A b \in DOMAIN blocks : b \notin below(b)
  BY <1>1
<1>5. N \in Nat
  BY <1>1, FS_CardinalityType
<1>6. \A b \in DOMAIN blocks : Cardinality(below(b)) < N
  <2> SUFFICES ASSUME NEW b \in DOMAIN blocks PROVE Cardinality(below(b)) < N
    OBVIOUS
  <2>1. below(b) \in SUBSET DOMAIN blocks /\ below(b) # DOMAIN blocks
    BY <1>2, <1>4
  <2> HIDE DEF below
  <2>2. Cardinality(below(b)) <= N /\ Cardinality(below(b)) # N
    BY <1>1, <2>1, FS_Subset
  <2>3. QED
    BY <1>3, <1>5, <2>2
<1>7. \A b, c \in DOMAIN blocks :
        b < c => Cardinality(below(b)) < Cardinality(below(c))
  <2> SUFFICES ASSUME NEW b \in DOMAIN blocks, NEW c \in DOMAIN blocks, b < c
               PROVE  Cardinality(below(b)) < Cardinality(below(c))
    OBVIOUS
  <2>1. below(b) \in SUBSET below(c) /\ b \in below(c) /\ b \notin below(b)
    BY <1>1
  <2> HIDE DEF below
  <2>2. /\ Cardinality(below(b)) <= Cardinality(below(c))
        /\ Cardinality(below(b)) # Cardinality(below(c))
    BY <1>2, <2>1, FS_Subset
  <2>3. QED
    BY <1>3, <2>2
<1>8. below(0) = {}
  BY <1>1
<1>9. Cardinality(below(0)) = 0
  BY <1>8, FS_EmptySet
<1>10. \A b : Id(b) = Cardinality(below(b))
  BY DEF Id
<1> HIDE DEF below
<1>11. \A b \in DOMAIN blocks : Id(b) \in 0 .. N - 1
  BY <1>3, <1>5, <1>6, <1>10
<1>12. \A b, c \in DOMAIN blocks : Id(b) = Id(c) => b = c
  <2> SUFFICES ASSUME NEW b \in DOMAIN blocks, NEW c \in DOMAIN blocks,
                      Id(b) = Id(c), b # c
               PROVE  FALSE
    OBVIOUS
  <2>1. b \in Nat /\ c \in Nat
    BY <1>1
  <2>2. b < c \/ c < b
    BY <2>1
  <2>3. QED
    BY <1>3, <1>7, <1>10, <2>2
<1>13. QED
  BY <1>1, <1>5, <1>9, <1>10, <1>11, <1>12

\* Block r is an xref of block b.
IsXref(r, b) == b \in DOMAIN blocks /\ r \in blocks[b].references

\* The xrefs of the numbers are the numbers of the xrefs.
LEMMA XrefsNumbered ==
  ASSUME NEW i \in 0 .. N - 1, NEW p
  PROVE  p \in Xrefs[i] <=> \E b, r : Id(b) = i /\ IsXref(r, b) /\ Id(r) = p
<1>1. Xrefs[i] = UNION { { Id(r) : r \in blocks[b].references } :
                           b \in { a \in DOMAIN blocks : Id(a) = i } }
  BY DEF Xrefs
<1>2. QED
  BY <1>1 DEF IsXref

XrefsInMap == \A r, b : IsXref(r, b) => r \in DOMAIN blocks

Untouched ==
  /\ dominators = [ i \in 0 .. N - 1 |-> {} ]
  /\ pc = "start" /\ it = 1 /\ preds = {} /\ changed = FALSE

\* computeDominators starts on a graph.
LEMMA SweepsBegin == Numbered /\ XrefsInMap /\ Untouched => D!SettledInv
<1> SUFFICES ASSUME Numbered, XrefsInMap, Untouched PROVE D!SettledInv
  OBVIOUS
<1>1. N \in Nat \ {0} /\ \A b \in DOMAIN blocks : Id(b) \in 0 .. N - 1
  BY IdsRise
<1>2. ASSUME NEW i \in 0 .. N - 1 PROVE Xrefs[i] \subseteq 0 .. N - 1
  BY <1>1, XrefsNumbered DEF XrefsInMap
<1>3. Xrefs \in [ 0 .. N - 1 -> SUBSET (0 .. N - 1) ]
  <2>1. Xrefs = [ i \in 0 .. N - 1 |-> Xrefs[i] ]
    BY DEF Xrefs
  <2>2. QED
    BY <1>2, <2>1
<1>4. D!Init
  BY <1>3 DEF Untouched, D!Init, D!Ids
<1>5. QED
  BY <1>1, <1>4, SweepAssumptions, D!SettledInit

-----------------------------------------------------------------------------
(***************************************************************************)
(* What dominates in the code.                                             *)
(***************************************************************************)
XrefsAreEdges ==
  \A r, b \in DOMAIN blocks : IsXref(r, b) <=> << r, b >> \in CodeEdges

EdgesAround(E, d) == { e \in E : e[1] # d /\ e[2] \in DOMAIN blocks \ {d} }

LEMMA EdgesArePairs ==
  ASSUME NEW e \in CodeEdges
  PROVE  e[1] \in DOMAIN blocks /\ e = << e[1], e[2] >>
  BY DEF CodeEdges

\* A set of blocks that is reached around d, by the numbers, holds what the code
\* reaches around it.
LEMMA AroundInside ==
  ASSUME Numbered, XrefsInMap, XrefsAreEdges, NEW d \in DOMAIN blocks,
         NEW S, D!ReachesAround(Id(d), S), NEW b \in ReachedAround(CodeEdges, d)
  PROVE  b \in DOMAIN blocks /\ Id(b) \in S
<1> DEFINE E == EdgesAround(CodeEdges, d)
           T == { x \in DOMAIN blocks : x = d \/ Id(x) \in S }
<1>1. /\ N \in Nat \ {0} /\ Id(0) = 0
      /\ \A x \in DOMAIN blocks : Id(x) \in 0 .. N - 1
      /\ \A x, y \in DOMAIN blocks : Id(x) = Id(y) => x = y
  BY IdsRise
<1>2. /\ Id(d) # 0 => 0 \in S
      /\ \A i \in 0 .. N - 1 : \A p \in Xrefs[i] : p \in S /\ i # Id(d) => i \in S
  BY <1>1, SweepAssumptions, D!ReachesAroundDef DEF D!Ids
<1>3. Closed(E, T)
  <2> SUFFICES ASSUME NEW e \in E, e[1] \in T PROVE e[2] \in T
    BY DEF Closed
  <2>1. /\ e \in CodeEdges /\ e = << e[1], e[2] >> /\ e[1] # d
        /\ e[1] \in DOMAIN blocks /\ e[2] \in DOMAIN blocks /\ e[2] # d
        /\ Id(e[1]) \in S
    BY EdgesArePairs DEF EdgesAround
  <2>2. IsXref(e[1], e[2])
    BY <2>1 DEF XrefsAreEdges
  <2>3. Id(e[1]) \in Xrefs[Id(e[2])] /\ Id(e[2]) # Id(d) /\ Id(e[2]) \in 0 .. N - 1
    BY <1>1, <2>1, <2>2, XrefsNumbered
  <2>4. QED
    BY <1>2, <2>1, <2>3
<1>4. {0} \cap DOMAIN blocks \subseteq T
  BY <1>1, <1>2 DEF Numbered
<1>5. ReachedAround(CodeEdges, d) = Reached(DOMAIN blocks, E, {0}) \ {d}
  BY DEF ReachedAround, EdgesAround
<1> HIDE DEF E, T
<1>6. Reached(DOMAIN blocks, E, {0}) \subseteq T
  BY <1>3, <1>4, ReachedLeast DEF Numbered
<1>7. QED
  BY <1>5, <1>6 DEF T

\* And what the code reaches around d is such a set.
LEMMA AroundNumbered ==
  ASSUME Numbered, XrefsInMap, XrefsAreEdges, NEW d \in DOMAIN blocks
  PROVE  D!ReachesAround(Id(d), { Id(x) : x \in ReachedAround(CodeEdges, d) })
<1> DEFINE E == EdgesAround(CodeEdges, d)
           R == ReachedAround(CodeEdges, d)
           S == { Id(x) : x \in R }
<1>1. /\ N \in Nat \ {0} /\ Id(0) = 0
      /\ \A x \in DOMAIN blocks : Id(x) \in 0 .. N - 1
      /\ \A x, y \in DOMAIN blocks : Id(x) = Id(y) => x = y
  BY IdsRise
<1>2. R = Reached(DOMAIN blocks, E, {0}) \ {d}
  BY DEF ReachedAround, EdgesAround
<1>3. /\ Reached(DOMAIN blocks, E, {0}) \subseteq DOMAIN blocks
      /\ {0} \cap DOMAIN blocks \subseteq Reached(DOMAIN blocks, E, {0})
      /\ Closed(E, Reached(DOMAIN blocks, E, {0}))
  <2>1. IsFiniteSet(DOMAIN blocks) /\ \A e \in E : e[2] \in DOMAIN blocks
    BY DEF Numbered, EdgesAround
  <2> HIDE DEF E
  <2>2. QED
    BY <2>1, ReachedClosed
<1>4. /\ R \subseteq DOMAIN blocks \ {d}
      /\ 0 # d => 0 \in R
      /\ \A e \in E : e[1] \in R => e[2] \in R
  BY <1>2, <1>3 DEF Numbered, Closed, EdgesAround
<1>10. \A e \in CodeEdges : e[1] # d /\ e[2] \in DOMAIN blocks \ {d} => e \in E
  BY DEF EdgesAround
<1> HIDE DEF E, R
<1>11. \A x \in DOMAIN blocks : Id(x) \in S <=> x \in R
  BY <1>1, <1>4
<1>12. \A x \in R : Id(x) \in S
  OBVIOUS
<1> HIDE DEF S
<1>5. ASSUME NEW i \in 0 .. N - 1, NEW p \in Xrefs[i], p \in S, i # Id(d)
      PROVE  i \in S
  <2>1. PICK b, r : Id(b) = i /\ IsXref(r, b) /\ Id(r) = p
    BY XrefsNumbered
  <2>2. b \in DOMAIN blocks /\ r \in DOMAIN blocks
    BY <2>1 DEF XrefsInMap, IsXref
  <2>3. r \in R /\ b # d
    BY <1>5, <1>11, <2>1, <2>2
  <2>4. << r, b >> \in E
    <3>1. << r, b >> \in CodeEdges
      BY <2>1, <2>2 DEF XrefsAreEdges
    <3>2. QED
      BY <1>4, <1>10, <2>2, <2>3, <3>1
  <2>5. b \in R
    BY <1>4, <2>3, <2>4
  <2>6. QED
    BY <1>12, <2>1, <2>5
<1>6. Id(d) # 0 => 0 \in S
  BY <1>1, <1>4, <1>12
<1>7. Id(d) \notin S
  BY <1>4, <1>11
<1>8. D!ReachesAround(Id(d), S)
  BY <1>1, <1>5, <1>6, <1>7, SweepAssumptions, D!ReachesAroundDef DEF D!Ids
<1>9. QED
  BY <1>8 DEF S, R

LEMMA DominatesInCode ==
  ASSUME Numbered, XrefsInMap, XrefsAreEdges,
         NEW d \in DOMAIN blocks, NEW b \in DOMAIN blocks
  PROVE  D!Dominates(Id(d), Id(b)) <=> b \notin ReachedAround(CodeEdges, d)
<1>1. /\ N \in Nat \ {0}
      /\ \A x \in DOMAIN blocks : Id(x) \in 0 .. N - 1
      /\ \A x, y \in DOMAIN blocks : Id(x) = Id(y) => x = y
  BY IdsRise
<1>2. D!Dominates(Id(d), Id(b)) <=>
        \E S \in SUBSET (0 .. N - 1) : D!ReachesAround(Id(d), S) /\ Id(b) \notin S
  BY <1>1, SweepAssumptions, D!DominatesDef DEF D!Ids
<1>3. ASSUME NEW S, D!ReachesAround(Id(d), S), Id(b) \notin S
      PROVE  b \notin ReachedAround(CodeEdges, d)
  BY <1>3, AroundInside
<1>4. ASSUME b \notin ReachedAround(CodeEdges, d)
      PROVE  D!Dominates(Id(d), Id(b))
  <2> DEFINE S == { Id(x) : x \in ReachedAround(CodeEdges, d) }
  <2>1. D!ReachesAround(Id(d), S)
    BY AroundNumbered
  <2>2. ReachedAround(CodeEdges, d) \subseteq DOMAIN blocks
    <3> DEFINE E == EdgesAround(CodeEdges, d)
    <3>1. IsFiniteSet(DOMAIN blocks) /\ \A e \in E : e[2] \in DOMAIN blocks
      BY DEF Numbered, EdgesAround
    <3>2. ReachedAround(CodeEdges, d) = Reached(DOMAIN blocks, E, {0}) \ {d}
      BY DEF ReachedAround, EdgesAround
    <3> HIDE DEF E
    <3>3. Reached(DOMAIN blocks, E, {0}) \subseteq DOMAIN blocks
      BY <3>1, ReachedClosed
    <3>4. QED
      BY <3>2, <3>3
  <2>3. S \in SUBSET (0 .. N - 1) /\ Id(b) \notin S
    BY <1>1, <1>4, <2>2
  <2> HIDE DEF S
  <2>4. QED
    BY <1>2, <2>1, <2>3
<1>5. QED
  BY <1>2, <1>3, <1>4

-----------------------------------------------------------------------------
(***************************************************************************)
(* What the scan leaves and the walks keep.                                *)
(***************************************************************************)
\* The exit node is none of them.
LEMMA StartsInCode ==
  ASSUME ListingOK
  PROVE  /\ IsFiniteSet(BlockStarts(listing)) /\ BlockStarts(listing) \subseteq Nat
         /\ 0 \in BlockStarts(listing) /\ NODE_DEADEND \notin BlockStarts(listing)
<1>1. /\ Len(listing) \in Nat
      /\ \A i \in 1 .. Len(listing) :
           listing[i].offset \in Nat /\ listing[i].offset < NODE_DEADEND
  BY OffsetsInCode DEF OffsetOf
<1>2. BlockStarts(listing) \in SUBSET (0 .. NODE_DEADEND - 1)
  BY <1>1, NodeAssumption DEF BlockStarts, JumpdestOffsets
<1>3. IsFiniteSet(0 .. NODE_DEADEND - 1)
  BY NodeAssumption, FS_Interval
<1>6. 0 \in BlockStarts(listing)
  BY DEF BlockStarts
<1> DEFINE B == BlockStarts(listing)
<1> HIDE DEF B
<1>7. B \in SUBSET (0 .. NODE_DEADEND - 1)
  BY <1>2 DEF B
<1>8. IsFiniteSet(B)
  BY <1>3, <1>7, FS_Subset
<1>4. IsFiniteSet(BlockStarts(listing))
  BY <1>8 DEF B
<1>5. QED
  BY <1>2, <1>4, <1>6, NodeAssumption

\* The xrefs are those of the code.
XrefsExact ==
  /\ \A b \in DOMAIN blocks :
       /\ "references" \in DOMAIN blocks[b]
       /\ blocks[b].references \subseteq DOMAIN blocks \ {NODE_DEADEND}
  /\ LabelsAreDests =>
       \A b \in DOMAIN blocks \ {NODE_DEADEND}, t \in DOMAIN blocks :
         b \in blocks[t].references <=> \E i \in Extent(b) : t \in Targets(i)

LEMMA ScanExact ==
  ASSUME GraphInv, Done
  PROVE  XrefsExact
<1>1. Typed(blocks) /\ Resolved(blocks)
  BY DEF GraphInv, ScanInv, Sound
<1>2. \A b \in DOMAIN blocks : blocks[b] \in Block
  BY <1>1 DEF Typed
<1>3. \A b \in DOMAIN blocks : "references" \in DOMAIN blocks[b]
  BY <1>2 DEF Block
<1>4. LabelsAreDests => RefsKnown(blocks, Settled)
  BY DEF GraphInv, Known
<1>5. \A b : Inside(blocks, Settled, b) = Extent(b)
  BY AllSettled
<1>6. QED
  BY <1>1, <1>3, <1>4, <1>5 DEF Resolved, RefsKnown, XrefsExact

\* Neither the successors of a block nor the exit node make a difference to them.
LEMMA KeepsExact ==
  ASSUME ListingOK, XrefsExact, UNCHANGED << listing, codeSize >>,
         DOMAIN blocks' \subseteq DOMAIN blocks,
         DOMAIN blocks \ {NODE_DEADEND} \subseteq DOMAIN blocks',
         \A b \in DOMAIN blocks' : /\ "references" \in DOMAIN blocks'[b]
                                   /\ blocks'[b].references = blocks[b].references
  PROVE  XrefsExact'
<1>1. \A i \in 1 .. Len(listing) : ~(NODE_DEADEND <= OffsetOf(i))
  BY OffsetsInCode, NodeAssumption
<1>2. \A b : Extent(b)' = Extent(b)
  <2>1. \A b, i : (\A k \in DOMAIN blocks' : k <= OffsetOf(i) => k <= b)
                    /\ ~(NODE_DEADEND <= OffsetOf(i))
                    => \A k \in DOMAIN blocks : k <= OffsetOf(i) => k <= b
    OBVIOUS
  <2>2. \A b, i : (\A k \in DOMAIN blocks : k <= OffsetOf(i) => k <= b)
                    => \A k \in DOMAIN blocks' : k <= OffsetOf(i) => k <= b
    OBVIOUS
  <2>3. \A i : OffsetOf(i)' = OffsetOf(i)
    BY TargetsSame
  <2>4. QED
    BY <1>1, <2>1, <2>2, <2>3 DEF Extent
<1>3. (\A i : Targets(i)' = Targets(i)) /\ (LabelsAreDests' <=> LabelsAreDests)
  BY TargetsSame
<1>4. QED
  BY <1>2, <1>3 DEF XrefsExact

KeepsXrefs(m, r) ==
  /\ DOMAIN r = DOMAIN m
  /\ \A b \in DOMAIN r : /\ "references" \in DOMAIN r[b]
                          /\ r[b].references = m[b].references

LEMMA PatchKeepsXrefs ==
  ASSUME NEW m, \A b \in DOMAIN m : "references" \in DOMAIN m[b],
         NEW c, NEW d, NEW n,
         NEW r, r = [m EXCEPT ![c].dstDefault = d, ![c].nextDefault = n]
  PROVE  KeepsXrefs(m, r)
  BY DEF KeepsXrefs

-----------------------------------------------------------------------------
(***************************************************************************)
(* The invariant: the scan's own while it runs, its graph while the walks  *)
(* do, and that of the sweeps once there is a graph to sweep.              *)
(***************************************************************************)
Scanning == phase = "scan" => GraphInv /\ BlocksBefore(instIndex)

Scanned ==
  phase # "scan" =>
    /\ ListingOK /\ XrefsExact
    /\ DOMAIN blocks =
         BlockStarts(listing) \cup (IF phase = "done" THEN {} ELSE {NODE_DEADEND})

Sweeping == IF phase = "done" THEN D!SettledInv ELSE Untouched

AnalysisInv ==
  /\ phase \in {"scan", "connect", "done"}
  /\ Cardinality(BlockStarts(listing)) = N
  /\ Scanning /\ Scanned /\ Sweeping

\* At its end the blocks have numbers.
LEMMA ScannedNumbered == AnalysisInv /\ phase = "done" => Numbered /\ XrefsInMap
<1> SUFFICES ASSUME AnalysisInv, phase = "done" PROVE Numbered /\ XrefsInMap
  OBVIOUS
<1>1. ListingOK /\ XrefsExact /\ DOMAIN blocks = BlockStarts(listing)
        /\ Cardinality(BlockStarts(listing)) = N
  BY DEF AnalysisInv, Scanned
<1>2. Numbered
  BY <1>1, StartsInCode DEF Numbered
<1>3. XrefsInMap
  BY <1>1 DEF XrefsExact, XrefsInMap, IsXref
<1>4. QED
  BY <1>2, <1>3

LEMMA AnalysisInit == AInit => AnalysisInv
<1> SUFFICES ASSUME AInit PROVE AnalysisInv
  OBVIOUS
<1>1. Init /\ phase = "scan" /\ Untouched
  BY DEF AInit, CInit, Untouched
<1>2. PICK p \in Programs :
        /\ listing = p.listing /\ instIndex = 1
        /\ DOMAIN blocks = {NODE_DEADEND, 0} \cup JumpdestOffsets(p.listing)
  BY <1>1 DEF Init
<1>3. Cardinality(BlockStarts(listing)) = N
  BY <1>2, BlocksAssumption
<1>4. BlocksBefore(instIndex)
  BY <1>2 DEF BlocksBefore, StartsBefore
<1>5. GraphInv
  BY <1>1, GraphInit
<1>6. QED
  BY <1>1, <1>3, <1>4, <1>5 DEF AnalysisInv, Scanning, Scanned, Sweeping

LEMMA UntouchedSame ==
  ASSUME Untouched, UNCHANGED dvars
  PROVE  Untouched'
  BY DEF Untouched, dvars

\* The scan (Contract.cpp:111-253) ...
LEMMA AnalysisScan ==
  ASSUME AnalysisInv, ScanStep, UNCHANGED dvars
  PROVE  AnalysisInv'
<1>1. phase = "scan" /\ phase' = "scan" /\ Scan
  BY DEF ScanStep, cvars
<1>2. GraphInv /\ BlocksBefore(instIndex) /\ ListingOK
  BY <1>1 DEF AnalysisInv, Scanning, GraphInv, ScanInv
<1>3. GraphInv'
  BY <1>1, <1>2, GraphStep DEF Next
<1>4. BlocksBefore(instIndex)'
  BY <1>1, <1>2, ScanStarts
<1>5. listing' = listing
  BY <1>1 DEF Scan, FunctionEntry, FallIntoBlock, EnterBlock, Halt, ConditionalJump,
              Jump, Skip, Step
<1>6. Untouched'
  BY <1>1, UntouchedSame DEF AnalysisInv, Sweeping
<1>7. QED
  BY <1>1, <1>3, <1>4, <1>5, <1>6
  DEF AnalysisInv, Scanning, Scanned, Sweeping

\* ... its end ...
LEMMA AnalysisBegin ==
  ASSUME AnalysisInv, BeginConnect, UNCHANGED dvars
  PROVE  AnalysisInv'
<1>1. phase = "scan" /\ phase' = "connect" /\ Done /\ UNCHANGED vars
  BY DEF BeginConnect
<1>2. GraphInv /\ BlocksBefore(instIndex) /\ ListingOK
  BY <1>1 DEF AnalysisInv, Scanning, GraphInv, ScanInv
<1>3. XrefsExact /\ DOMAIN blocks = BlockStarts(listing) \cup {NODE_DEADEND}
  BY <1>1, <1>2, ScanExact, StartsAtEnd DEF BlocksBefore
<1>4. listing' = listing /\ codeSize' = codeSize /\ instIndex' = instIndex
        /\ blocks' = blocks
  BY <1>1 DEF vars
<1>5. ListingOK'
  BY <1>2, <1>4 DEF ListingOK
<1>6. XrefsExact'
  BY <1>2, <1>3, <1>4, KeepsExact DEF XrefsExact
<1>7. Untouched'
  BY <1>1, UntouchedSame DEF AnalysisInv, Sweeping
<1>8. QED
  BY <1>1, <1>3, <1>4, <1>5, <1>6, <1>7
  DEF AnalysisInv, Scanning, Scanned, Sweeping

\* ... the steps of the walks, of which one writes a successor ...
LEMMA AnalysisWalk ==
  ASSUME AnalysisInv, phase = "connect", phase' = "connect",
         UNCHANGED << listing, codeSize, instIndex >>, UNCHANGED dvars,
         blocks' = blocks \/ ResolveExit
  PROVE  AnalysisInv'
<1>1. /\ ListingOK /\ XrefsExact
      /\ DOMAIN blocks = BlockStarts(listing) \cup {NODE_DEADEND}
  BY DEF AnalysisInv, Scanned
<1>2. /\ DOMAIN blocks' = DOMAIN blocks
      /\ \A b \in DOMAIN blocks' : /\ "references" \in DOMAIN blocks'[b]
                                   /\ blocks'[b].references = blocks[b].references
  <2>1. CASE blocks' = blocks
    BY <1>1, <2>1 DEF XrefsExact
  <2>2. CASE ResolveExit
    <3>1. PICK d, n : blocks' = [blocks EXCEPT ![Top.block].dstDefault = d,
                                               ![Top.block].nextDefault = n]
      BY <2>2 DEF ResolveExit
    <3>2. \A b \in DOMAIN blocks : "references" \in DOMAIN blocks[b]
      BY <1>1 DEF XrefsExact
    <3>3. KeepsXrefs(blocks, blocks')
      BY <3>1, <3>2, PatchKeepsXrefs, Zenon
    <3>4. QED
      BY <3>3 DEF KeepsXrefs
  <2>3. QED
    BY <2>1, <2>2
<1>3. ListingOK' /\ XrefsExact'
  BY <1>1, <1>2, KeepsExact DEF ListingOK
<1>4. Untouched'
  BY UntouchedSame DEF AnalysisInv, Sweeping
<1>5. QED
  BY <1>1, <1>2, <1>3, <1>4 DEF AnalysisInv, Scanning, Scanned, Sweeping

\* ... the erasure of the exit node, which begins the sweeps ...
LEMMA AnalysisErase ==
  ASSUME AnalysisInv, EraseExitNode, UNCHANGED dvars
  PROVE  AnalysisInv'
<1>1. /\ phase = "connect" /\ phase' = "done"
      /\ UNCHANGED << listing, codeSize, instIndex >>
      /\ blocks' = [ b \in DOMAIN blocks \ {NODE_DEADEND} |-> blocks[b] ]
  BY DEF EraseExitNode
<1>2. /\ ListingOK /\ XrefsExact /\ Untouched
      /\ DOMAIN blocks = BlockStarts(listing) \cup {NODE_DEADEND}
      /\ Cardinality(BlockStarts(listing)) = N
  BY <1>1 DEF AnalysisInv, Scanned, Sweeping
<1>3. DOMAIN blocks' = BlockStarts(listing)
  BY <1>1, <1>2, StartsInCode
<1>4. /\ DOMAIN blocks' = DOMAIN blocks \ {NODE_DEADEND}
      /\ \A b \in DOMAIN blocks' : blocks'[b] = blocks[b]
  BY <1>1
<1>5. ListingOK' /\ XrefsExact'
  <2>1. \A b \in DOMAIN blocks' : /\ "references" \in DOMAIN blocks'[b]
                                 /\ blocks'[b].references = blocks[b].references
    BY <1>2, <1>4 DEF XrefsExact
  <2>2. QED
    BY <1>1, <1>2, <1>4, <2>1, KeepsExact DEF ListingOK
<1>6. Untouched'
  BY <1>2, UntouchedSame
<1>7. Numbered' /\ XrefsInMap'
  <2>1. IsFiniteSet(DOMAIN blocks') /\ DOMAIN blocks' \subseteq Nat
          /\ 0 \in DOMAIN blocks' /\ Cardinality(DOMAIN blocks') = N
    BY <1>2, <1>3, StartsInCode
  <2>2. Numbered'
    BY <2>1 DEF Numbered
  <2>3. XrefsInMap'
    BY <1>5 DEF XrefsExact, XrefsInMap, IsXref
  <2>4. QED
    BY <2>2, <2>3
<1>8. (Numbered /\ XrefsInMap /\ Untouched => D!SettledInv)'
  BY SweepsBegin, PTL
<1>9. D!SettledInv'
  BY <1>6, <1>7, <1>8
<1>10. Cardinality(BlockStarts(listing))' = N
  BY <1>1, <1>2
<1>11. QED
  BY <1>1, <1>3, <1>5, <1>9, <1>10
  DEF AnalysisInv, Scanning, Scanned, Sweeping

\* ... and the sweeps (Contract.cpp:286-333, 1076).
LEMMA AnalysisSweep ==
  ASSUME N < IntBits, AnalysisInv, phase = "done", UNCHANGED allVars,
         Sweeps!Compute \/ Sweeps!Recompute \/ UNCHANGED dvars
  PROVE  AnalysisInv'
<1>1. /\ listing' = listing /\ codeSize' = codeSize /\ instIndex' = instIndex
      /\ blocks' = blocks /\ phase' = phase
  BY DEF allVars, vars, cvars
<1>2. /\ ListingOK /\ XrefsExact /\ DOMAIN blocks = BlockStarts(listing)
      /\ D!SettledInv
  BY DEF AnalysisInv, Scanned, Sweeping
<1>3. Xrefs' = Xrefs
  BY <1>1 DEF Xrefs, Id
<1>4. N # 0
  BY ScannedNumbered, IdsRise
<1>5. D!SettledInv'
  BY <1>2, <1>3, <1>4, SweepKeeps
<1>6. ListingOK' /\ XrefsExact'
  BY <1>1, <1>2, KeepsExact DEF ListingOK, XrefsExact
<1>7. QED
  BY <1>1, <1>2, <1>5, <1>6 DEF AnalysisInv, Scanning, Scanned, Sweeping

LEMMA AnalysisStep ==
  ASSUME N < IntBits, AnalysisInv, [ANext]_<< allVars, dvars >>
  PROVE  AnalysisInv'
<1>1. CASE ScanStep /\ UNCHANGED dvars
  BY <1>1, AnalysisScan
<1>2. CASE Connect /\ UNCHANGED dvars
  <2>1. CASE BeginConnect
    BY <1>2, <2>1, AnalysisBegin
  <2>2. CASE EraseExitNode
    BY <1>2, <2>2, AnalysisErase
  <2>3. CASE ResolveExit
    <3>1. /\ phase = "connect" /\ phase' = "connect"
          /\ UNCHANGED << listing, codeSize, instIndex >>
      BY <2>3 DEF ResolveExit, AtEnd
    <3>2. QED
      BY <1>2, <2>3, <3>1, AnalysisWalk
  <2>4. CASE WalkFunction \/ UnknownBlock \/ WalkedBefore \/ WalkBranch \/ WalkPlain
               \/ EndOfPath \/ WalkOn
    <3>1. /\ phase = "connect" /\ phase' = "connect"
          /\ UNCHANGED << listing, codeSize, instIndex >> /\ blocks' = blocks
      BY <2>4 DEF WalkFunction, UnknownBlock, WalkedBefore, WalkBranch, WalkPlain,
                  EndOfPath, WalkOn, AtEnd, AtLookup, AtNewBlock, vars
    <3>2. QED
      BY <1>2, <3>1, AnalysisWalk
  <2>5. QED
    BY <1>2, <2>1, <2>2, <2>3, <2>4 DEF Connect
<1>3. CASE ComputeDominators
  BY <1>3, AnalysisSweep DEF ComputeDominators
<1>4. CASE Decompile
  BY <1>4, AnalysisSweep DEF Decompile
<1>5. CASE UNCHANGED << allVars, dvars >>
  <2>1. CASE phase = "done"
    BY <1>5, <2>1, AnalysisSweep
  <2>2. CASE phase = "connect"
    BY <1>5, <2>2, AnalysisWalk DEF allVars, vars, cvars
  <2>3. CASE phase = "scan"
    <3>1. GraphInv /\ UNCHANGED vars /\ UNCHANGED dvars /\ phase' = phase
      BY <1>5, <2>3 DEF AnalysisInv, Scanning, allVars, cvars
    <3>2. GraphInv'
      BY <3>1, GraphStep
    <3>3. BlocksBefore(instIndex)'
      BY <2>3, <3>1 DEF AnalysisInv, Scanning, BlocksBefore, StartsBefore, OffsetOf, vars
    <3>4. Untouched'
      BY <2>3, <3>1, UntouchedSame DEF AnalysisInv, Sweeping
    <3>5. QED
      BY <2>3, <3>1, <3>2, <3>3, <3>4
      DEF AnalysisInv, Scanning, Scanned, Sweeping, vars
  <2>4. QED
    BY <2>1, <2>2, <2>3 DEF AnalysisInv
<1>6. QED
  BY <1>1, <1>2, <1>3, <1>4, <1>5 DEF ANext, FindBlocks

\* The words of the sweeps say what dominates in the code.
LEMMA WordsOfCode ==
  ASSUME N < IntBits, AnalysisInv
  PROVE  DominatorsOfCode
<1> SUFFICES ASSUME pc = "done", LabelsAreDests,
                    NEW d \in DOMAIN blocks, NEW b \in DOMAIN blocks
             PROVE  Id(d) \in dominators[Id(b)] <=> b \notin ReachedAround(CodeEdges, d)
  BY DEF DominatorsOfCode
<1>1. phase = "done"
  BY DEF AnalysisInv, Sweeping, Untouched
<1>2. /\ Numbered /\ XrefsInMap /\ XrefsExact /\ D!SettledInv
      /\ ListingOK /\ DOMAIN blocks = BlockStarts(listing)
  BY <1>1, ScannedNumbered DEF AnalysisInv, Scanned, Sweeping
<1>3. NODE_DEADEND \notin DOMAIN blocks
  BY <1>2, StartsInCode
<1>4. XrefsAreEdges
  <2> SUFFICES ASSUME NEW r \in DOMAIN blocks, NEW t \in DOMAIN blocks
               PROVE  IsXref(r, t) <=> << r, t >> \in CodeEdges
    BY DEF XrefsAreEdges
  <2>1. IsXref(r, t) <=> \E i \in Extent(r) : t \in Targets(i)
    BY <1>2, <1>3 DEF XrefsExact, IsXref
  <2>2. << r, t >> \in CodeEdges <=>
          \E i \in Extent(r) : t \in DefaultTargets(i) \cup BranchTargets(i)
    BY DEF CodeEdges
  <2>3. QED
    BY <2>1, <2>2 DEF Targets
<1>5. /\ N \in Nat \ {0} /\ Id(d) \in 0 .. N - 1 /\ Id(b) \in 0 .. N - 1
  BY <1>2, IdsRise
<1>6. D!DominatorsExact
  BY <1>2, <1>5, SweepAssumptions, D!SettledExact
<1>7. Id(d) \in dominators[Id(b)] <=> D!Dominates(Id(d), Id(b))
  BY <1>5, <1>6 DEF D!DominatorsExact, D!Ids
<1>8. QED
  BY <1>2, <1>4, <1>7, DominatesInCode

\* With fewer blocks than an int has bits, the words that the analysis of any
\* contract leaves, and each decompilation computes again, are exactly the
\* dominators in its code (Contract.cpp:269-333, 1076).
THEOREM WordsAreOfTheCode ==
  ASSUME N < IntBits
  PROVE  ASpec => []DominatorsOfCode
<1>1. AnalysisInv /\ [ANext]_<< allVars, dvars >> => AnalysisInv'
  BY AnalysisStep
<1>2. AnalysisInv => DominatorsOfCode
  BY WordsOfCode
<1>3. QED
  BY AnalysisInit, <1>1, <1>2, PTL DEF ASpec
=============================================================================
