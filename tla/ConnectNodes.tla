---------------------------- MODULE ConnectNodes ----------------------------
(***************************************************************************)
(* The rest of Contract::assignXrefToBlocks: when the scan of BlockGraph   *)
(* ends, walkAndConnectNodes walks each public function to give the blocks *)
(* that leave it the address its entry pushed, and the exit node is erased *)
(* from the map.                                                           *)
(***************************************************************************)
EXTENDS BlockGraph, Reachability

VARIABLES
  phase,     \* "scan", "connect" or "done"
  pending,   \* public functions the loop over the map has still to reach
  hash,      \* selector of the function being walked (_hash)
  stack,     \* calls of walkAndConnectNodes, innermost first
  walked     \* blocks whose walkedNode is set

cvars == << phase, pending, hash, stack, walked >>
allVars == << vars, cvars >>

\* A call holds the local `next', and the block whose branch or end it is at:
\* NULL while it is about to look `next' up.
Frame == [ next : Nat, block : Nat \cup {NULL} ]

CTypeOK ==
  /\ TypeOK
  /\ phase \in {"scan", "connect", "done"}
  /\ pending \subseteq DOMAIN blocks
  /\ hash \in Nat
  /\ stack \in Seq(Frame)
  /\ walked \subseteq DOMAIN blocks
  /\ NODE_DEADEND \in DOMAIN blocks <=> phase # "done"

CInit ==
  /\ Init
  /\ phase = "scan" /\ pending = {} /\ hash = 0 /\ stack = << >> /\ walked = {}

ScanStep == phase = "scan" /\ Scan /\ UNCHANGED cvars

Functions == { b \in DOMAIN blocks : blocks[b].fnAddrHash # 0 }

BeginConnect ==
  /\ phase = "scan" /\ Done
  /\ phase' = "connect"
  /\ pending' = Functions
  /\ UNCHANGED << vars, hash, stack, walked >>

\* Mutation: the last function is walked first.
WalkFunction_Backwards ==
  /\ phase = "connect" /\ stack = << >>
  /\ \E f \in pending :
       /\ \A g \in pending : g <= f
       /\ pending' = pending \ {f}
       /\ hash' = blocks[f].fnAddrHash
       /\ stack' = << [next |-> f, block |-> NULL] >>
  /\ UNCHANGED << vars, phase, walked >>

\* The functions, in the order of their offsets.
WalkFunction ==
  /\ phase = "connect" /\ stack = << >>
  /\ \E f \in pending :
       /\ \A g \in pending : f <= g
       /\ pending' = pending \ {f}
       /\ hash' = blocks[f].fnAddrHash
       /\ stack' = << [next |-> f, block |-> NULL] >>
  /\ UNCHANGED << vars, phase, walked >>

-----------------------------------------------------------------------------
(***************************************************************************)
(* One call of walkAndConnectNodes.                                        *)
(***************************************************************************)
Top == Head(stack)

AtLookup == phase = "connect" /\ stack # << >> /\ Top.block = NULL
AtEnd    == phase = "connect" /\ stack # << >> /\ Top.block # NULL

Return == stack' = Tail(stack)

UnknownBlock ==
  /\ AtLookup /\ Top.next \notin DOMAIN blocks
  /\ Return
  /\ UNCHANGED << vars, phase, pending, hash, walked >>

\* `continue': on with the default successor, even if there is none and its
\* offset 0 is that of the contract's first block.
WalkedBefore ==
  /\ AtLookup /\ Top.next \in walked
  /\ stack' = [stack EXCEPT ![1].next = blocks[Top.next].dstDefault]
  /\ UNCHANGED << vars, phase, pending, hash, walked >>

AtNewBlock == AtLookup /\ Top.next \in DOMAIN blocks \ walked

Caller == [next |-> blocks[Top.next].dstDefault, block |-> Top.next]

WalkBranch ==
  /\ AtNewBlock /\ blocks[Top.next].dstJUMPI # 0
  /\ walked' = walked \cup {Top.next}
  /\ stack' = << [next |-> blocks[Top.next].dstJUMPI, block |-> NULL], Caller >>
                \o Tail(stack)
  /\ UNCHANGED << vars, phase, pending, hash >>

WalkPlain ==
  /\ AtNewBlock /\ blocks[Top.next].dstJUMPI = 0
  /\ stack' = << Caller >> \o Tail(stack)
  /\ UNCHANGED << vars, phase, pending, hash, walked >>

EndOfPath ==
  /\ AtEnd /\ Top.next = 0
  /\ Return
  /\ UNCHANGED << vars, phase, pending, hash, walked >>

\* Mutation: only the offset is corrected, not the pointer.
ResolveExit_OffsetOnly ==
  /\ AtEnd /\ Top.next = NODE_DEADEND
  /\ LET dst == IF hash \in DOMAIN exitNodes THEN exitNodes[hash]
                                             ELSE blocks[Top.block].dstDefault
     IN  blocks' = [blocks EXCEPT ![Top.block].dstDefault = dst]
  /\ Return
  /\ UNCHANGED << listing, codeSize, instIndex, basicBlockOffset, exitNodes,
                  phase, pending, hash, walked >>

\* Mutation: the caller learns of the edge back to it.
ResolveExit_AddReferer ==
  /\ AtEnd /\ Top.next = NODE_DEADEND
  /\ LET dst == IF hash \in DOMAIN exitNodes THEN exitNodes[hash]
                                             ELSE blocks[Top.block].dstDefault
         m   == [blocks EXCEPT ![Top.block].dstDefault = dst,
                               ![Top.block].nextDefault = GetBlockAt(blocks, dst)]
     IN  blocks' = IF dst \in DOMAIN m
                     THEN [m EXCEPT ![dst].references = @ \cup {Top.block}]
                     ELSE m
  /\ Return
  /\ UNCHANGED << listing, codeSize, instIndex, basicBlockOffset, exitNodes,
                  phase, pending, hash, walked >>

\* Without a recorded exit the pointer is set to the exit node itself.
ResolveExit ==
  /\ AtEnd /\ Top.next = NODE_DEADEND
  /\ LET dst == IF hash \in DOMAIN exitNodes THEN exitNodes[hash]
                                             ELSE blocks[Top.block].dstDefault
     IN  blocks' = [blocks EXCEPT
                      ![Top.block].dstDefault = dst,
                      ![Top.block].nextDefault = GetBlockAt(blocks, dst)]
  /\ Return
  /\ UNCHANGED << listing, codeSize, instIndex, basicBlockOffset, exitNodes,
                  phase, pending, hash, walked >>

\* Mutation: a block without a successor does not end the walk.
WalkOn_FromNowhere ==
  /\ AtEnd /\ Top.next # NODE_DEADEND
  /\ stack' = [stack EXCEPT ![1].block = NULL]
  /\ UNCHANGED << vars, phase, pending, hash, walked >>

WalkOn ==
  /\ AtEnd /\ Top.next \notin {0, NODE_DEADEND}
  /\ stack' = [stack EXCEPT ![1].block = NULL]
  /\ UNCHANGED << vars, phase, pending, hash, walked >>

\* Mutation: the exit node stays in the map.
EraseExitNode_Keep ==
  /\ phase = "connect" /\ stack = << >> /\ pending = {}
  /\ phase' = "done"
  /\ UNCHANGED << vars, pending, hash, stack, walked >>

EraseExitNode ==
  /\ phase = "connect" /\ stack = << >> /\ pending = {}
  /\ blocks' = [ b \in DOMAIN blocks \ {NODE_DEADEND} |-> blocks[b] ]
  /\ phase' = "done"
  /\ UNCHANGED << listing, codeSize, instIndex, basicBlockOffset, exitNodes,
                  pending, hash, stack, walked >>

Connect == BeginConnect \/ WalkFunction \/ UnknownBlock \/ WalkedBefore
             \/ WalkBranch \/ WalkPlain \/ EndOfPath \/ ResolveExit \/ WalkOn
             \/ EraseExitNode

CNext == ScanStep \/ Connect \/ (phase = "done" /\ UNCHANGED allVars)

\* The constructor calls the analysis and waits for it: each step is taken.
CSpec == CInit /\ [][CNext]_allVars /\ WF_allVars(ScanStep \/ Connect)

-----------------------------------------------------------------------------
\* The blocks that the pointers of block b lead to, but for the exit node.
Successors(b) ==
  {blocks[b].nextDefault, blocks[b].nextJUMPI} \cap (DOMAIN blocks \ {NODE_DEADEND})

EdgesFrom(B) == UNION { {b} \X Successors(b) : b \in B }

\* All that can be reached from the blocks in B.
Body(B) == Reached(DOMAIN blocks, EdgesFrom(DOMAIN blocks), B)

\* Block b leaves its function: what goes anywhere last in it is a jump to wherever.
Leaves(b) ==
  LET E == Extent(b)
  IN  \E i \in E : /\ NODE_DEADEND \in DefaultTargets(i)
                   /\ \A j \in E : j > i => DefaultTargets(j) = {}

\* What is reached from the blocks in B before any block leaves a function.
OwnBody(B) ==
  Reached(DOMAIN blocks, EdgesFrom({ b \in DOMAIN blocks : ~Leaves(b) }), B)

\* The address the entry of function f pushed.
ExitOf(f) == exitNodes[blocks[f].fnAddrHash]

ExitsRecorded == \A f \in Functions : blocks[f].fnAddrHash \in DOMAIN exitNodes

\* Code as compilers write it: it jumps to JUMPDESTs, not to its start, and does
\* not end in a conditional jump.
CompilerMade ==
  /\ LabelsAreDests /\ 0 \notin JumpdestOffsets(listing)
  /\ \A i \in 1 .. Len(listing) : listing[i].op = "JUMPI" => i < Len(listing)

\* Every call of walkAndConnectNodes returns and the analysis ends, when no
\* block jumps back (Contract.cpp:382-404).
AnalysisEnds == <>(phase = "done")

\* When every function has pushed an address to return to, and the code there
\* leaves no function but one of those walked, no pointer that can be followed
\* from a function's entry leads to the erased exit node (Contract.cpp:386,
\* 395-401): the walk that stops at blocks it has seen misses none that leave.
NothingDangles ==
  /\ phase = "done" /\ CompilerMade /\ ExitsRecorded
  /\ \A b \in OwnBody({ ExitOf(f) : f \in Functions }) :
       Leaves(b) => b \in OwnBody(Functions)
  => \A b \in Body(Functions) :
       {blocks[b].nextDefault, blocks[b].nextJUMPI} \subseteq DOMAIN blocks \cup {NULL}

\* A walk only rewrites blocks that can be reached from the function whose
\* selector it carries, and only those that left it through the exit node.
WalkStaysInFunction ==
  [][phase = "connect" /\ phase' = "connect" =>
       \A b \in DOMAIN blocks : blocks'[b] # blocks[b] /\ CompilerMade =>
         /\ blocks[b].dstDefault = NODE_DEADEND
         /\ \E f \in Functions : blocks[f].fnAddrHash = hash /\ b \in Body({f})]_allVars

\* A block that several functions share goes back to the caller of the first of
\* them in the code, whichever function is decompiled: the walks of the later
\* ones find it connected (Contract.cpp:394-401).  The code they return to
\* belongs to no function that returns.
FirstFunctionKeepsExit ==
  /\ phase = "done" /\ CompilerMade /\ ExitsRecorded
  /\ \A b \in OwnBody({ ExitOf(f) : f \in Functions } \ {0}) : ~Leaves(b)
  => LET own == UNION { {f} \X OwnBody({f}) : f \in Functions }
     IN  \A e \in own :
           Leaves(e[2]) /\ (\A o \in own : o[2] = e[2] => e[1] <= o[1]) =>
             blocks[e[2]].dstDefault = ExitOf(e[1])

-----------------------------------------------------------------------------
\* "ExitNode to be resolved later" (Contract.cpp:73): once the analysis ends no
\* block of a function still goes to it.
ExitNodesResolved ==
  phase = "done" =>
    \A b \in Body(Functions) : blocks[b].dstDefault # NODE_DEADEND
=============================================================================
