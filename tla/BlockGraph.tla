----------------------------- MODULE BlockGraph -----------------------------
(***************************************************************************)
(* Contract::assignXrefToBlocks up to its reconnection loop: the single    *)
(* pass over the disassembled runtime code that finds the edges between    *)
(* basic blocks and marks the entries of public functions.                 *)
(*                                                                         *)
(* m_listbasicBlockInfo is `blocks', a function from the offset of a block *)
(* to its record; a pointer to a block is that offset, or NULL.  The kinds *)
(* of an xref and the names of the blocks are left out: nothing reads them.*)
(***************************************************************************)
EXTENDS Integers, Sequences

CONSTANTS
  Programs,       \* disassembled contracts: [listing, size]
  NODE_DEADEND,   \* offset that stands for `wherever this function returns'
  NULL            \* null pointer

\* Opcodes that something tells apart.  PUSH12 is PUSH1 or PUSH2, the pushes
\* taken for code addresses.  VALUE is an opcode that pushes; CALL and SSTORE
\* stand for the code that prepares and clears their operands, too, and OTHER
\* for code that leaves the addresses on the stack alone.
Ops == { "JUMPDEST", "JUMP", "JUMPI", "JUMPC", "JUMPCI", "STOP", "RETURN",
         "SUICIDE", "REVERT", "INVALID", "PUSH12", "PUSH4", "EQ",
         "VALUE", "CALL", "SSTORE", "OTHER" }

Instr == [offset : Nat, op : Ops, data : Nat]

\* A listing as Disassm leaves it: the offsets rise from 0 and stay inside the
\* code, and what a PUSH1 or PUSH2 pushes is far below the exit node's offset.
WellFormed(p) ==
  /\ p.listing \in Seq(Instr) /\ p.size \in Nat
  /\ \A i \in 1 .. Len(p.listing) :
       /\ p.listing[i].offset < p.size
       /\ i = 1 => p.listing[i].offset = 0
       /\ \A j \in 1 .. i - 1 : p.listing[j].offset < p.listing[i].offset
       /\ p.listing[i].op = "PUSH12" => p.listing[i].data < NODE_DEADEND

ASSUME NodeAssumption    == NODE_DEADEND \in Nat \ {0} /\ NULL \notin Nat
ASSUME ProgramAssumption ==
  \A p \in Programs : WellFormed(p) /\ p.size < NODE_DEADEND

VARIABLES
  listing,            \* m_instructions
  codeSize,           \* m_byteCodeRuntime.size()
  instIndex,          \* next instruction of the pass
  basicBlockOffset,   \* block the pass is in
  blocks,             \* m_listbasicBlockInfo
  exitNodes           \* m_exitNodesByHash

vars == << listing, codeSize, instIndex, basicBlockOffset, blocks, exitNodes >>

Block == [ references : SUBSET Nat, fnAddrHash : Nat, size : Nat,
           nextDefault : Nat \cup {NULL}, nextJUMPI : Nat \cup {NULL},
           dstDefault : Nat, dstJUMPI : Nat ]

TypeOK ==
  /\ WellFormed([listing |-> listing, size |-> codeSize])
  /\ instIndex \in 1 .. Len(listing) + 1
  /\ DOMAIN blocks \subseteq Nat /\ blocks \in [DOMAIN blocks -> Block]
  /\ basicBlockOffset \in DOMAIN blocks \ {NODE_DEADEND}
  /\ DOMAIN exitNodes \subseteq Nat /\ exitNodes \in [DOMAIN exitNodes -> Nat]

-----------------------------------------------------------------------------
(***************************************************************************)
(* The map of blocks.                                                      *)
(***************************************************************************)
NewBlock(s) ==
  [ references |-> {}, fnAddrHash |-> 0, size |-> s,
    nextDefault |-> NULL, nextJUMPI |-> NULL, dstDefault |-> 0, dstJUMPI |-> 0 ]

\* Mutation: the block behind a JUMPI is not made.
AddBasicBlock_Missing(m, offset, s) == m

\* map::insert: a block that is already there keeps its record.
AddBasicBlock(m, offset, s) ==
  [ o \in DOMAIN m \cup {offset} |->
      IF o \in DOMAIN m THEN m[o] ELSE NewBlock(s) ]

GetBlockAt(m, offset) == IF offset \in DOMAIN m THEN offset ELSE NULL

\* Mutation: a referer takes the place of the ones before it.
AddReferer_Overwrite(m, dest, src, hash) ==
  IF dest \in DOMAIN m
    THEN [m EXCEPT ![dest].references = {src}, ![dest].fnAddrHash = hash]
    ELSE m

\* Mutation: a reference without a hash leaves the hash alone.
AddReferer_KeepHash(m, dest, src, hash) ==
  IF dest \in DOMAIN m
    THEN [m EXCEPT ![dest].references = @ \cup {src},
                   ![dest].fnAddrHash = IF hash = 0 THEN @ ELSE hash]
    ELSE m

\* The destination learns its new referer and takes the hash it is given, be
\* it no hash at all; the source learns its successor and its size so far.
AddReferer(m, dest, src, hash) ==
  IF dest \in DOMAIN m
    THEN [m EXCEPT ![dest].references = @ \cup {src},
                   ![dest].fnAddrHash = hash]
    ELSE m

\* Mutation: the size goes to the destination.
AddBlockReference_SizeOfDest(m, dest, src, s, hash, conditional) ==
  LET r == AddReferer(m, dest, src, hash)
      n == GetBlockAt(m, dest)
      t == IF dest \in DOMAIN m THEN [r EXCEPT ![dest].size = s] ELSE r
  IN  IF src \notin DOMAIN m THEN t
      ELSE IF conditional
        THEN [t EXCEPT ![src].nextJUMPI = n, ![src].dstJUMPI = dest]
        ELSE [t EXCEPT ![src].nextDefault = n, ![src].dstDefault = dest]

AddBlockReference(m, dest, src, s, hash, conditional) ==
  LET r == AddReferer(m, dest, src, hash)
      n == GetBlockAt(m, dest)
  IN  IF src \notin DOMAIN m THEN r
      ELSE IF conditional
        THEN [r EXCEPT ![src].nextJUMPI = n, ![src].dstJUMPI = dest,
                       ![src].size = s]
        ELSE [r EXCEPT ![src].nextDefault = n, ![src].dstDefault = dest,
                       ![src].size = s]

SetBlockSize(m, offset, s) ==
  IF offset \in DOMAIN m THEN [m EXCEPT ![offset].size = s] ELSE m

-----------------------------------------------------------------------------
(***************************************************************************)
(* The pass, one instruction a step.                                       *)
(***************************************************************************)
JumpdestOffsets(l) ==
  { l[i].offset : i \in { j \in 1 .. Len(l) : l[j].op = "JUMPDEST" } }

\* enumerateInstructionsAndBlocks, then the locals of assignXrefToBlocks.
Init ==
  \E p \in Programs :
    /\ listing = p.listing /\ codeSize = p.size
    /\ blocks = [ o \in {NODE_DEADEND, 0} \cup JumpdestOffsets(p.listing) |->
                    NewBlock(0) ]
    /\ exitNodes = << >>
    /\ instIndex = 1 /\ basicBlockOffset = 0

Done == instIndex > Len(listing)

HasNext      == instIndex < Len(listing)
NextInstr    == listing[instIndex + 1]
PrevIs(S)    == instIndex > 1 /\ listing[instIndex - 1].op \in S
PrevData     == listing[instIndex - 1].data
CurrentOffset == listing[instIndex].offset
EndOffset    == IF HasNext THEN NextInstr.offset ELSE codeSize

currentBlockSize   == CurrentOffset - basicBlockOffset
nextInstrBlockSize == EndOffset - basicBlockOffset

Step(op) ==
  /\ ~Done /\ listing[instIndex].op = op
  /\ instIndex' = instIndex + 1
  /\ UNCHANGED << listing, codeSize >>

\* Opcodes behind which the pass expects no fall into the next JUMPDEST.
NoFall == { "STOP", "RETURN", "SUICIDE", "JUMP", "JUMPI", "JUMPC", "JUMPCI" }

EntersFunction == blocks[CurrentOffset].fnAddrHash # 0 /\ HasNext

\* The first push of a public function is taken for its return address.
FunctionEntry ==
  /\ Step("JUMPDEST") /\ EntersFunction
  /\ basicBlockOffset' = CurrentOffset
  /\ LET h == blocks[CurrentOffset].fnAddrHash
     IN  exitNodes' = IF NextInstr.op = "PUSH12" /\ h \notin DOMAIN exitNodes
                        THEN [ x \in DOMAIN exitNodes \cup {h} |->
                                 IF x = h THEN NextInstr.data ELSE exitNodes[x] ]
                        ELSE exitNodes
  /\ UNCHANGED blocks

\* Mutation: code falls into the next block behind a jump or halt, too.
FallIntoBlock_Always ==
  /\ Step("JUMPDEST") /\ ~EntersFunction
  /\ instIndex > 1
  /\ basicBlockOffset' = CurrentOffset
  /\ blocks' = AddBlockReference(blocks, CurrentOffset, basicBlockOffset,
                                 currentBlockSize, 0, FALSE)
  /\ UNCHANGED exitNodes

FallIntoBlock ==
  /\ Step("JUMPDEST") /\ ~EntersFunction
  /\ instIndex > 1 /\ ~PrevIs(NoFall)
  /\ basicBlockOffset' = CurrentOffset
  /\ blocks' = AddBlockReference(blocks, CurrentOffset, basicBlockOffset,
                                 currentBlockSize, 0, FALSE)
  /\ UNCHANGED exitNodes

\* Mutation: the pass stays in the block it was in.
EnterBlock_Stay ==
  /\ Step("JUMPDEST") /\ ~EntersFunction
  /\ instIndex = 1 \/ PrevIs(NoFall)
  /\ UNCHANGED << basicBlockOffset, blocks, exitNodes >>

EnterBlock ==
  /\ Step("JUMPDEST") /\ ~EntersFunction
  /\ instIndex = 1 \/ PrevIs(NoFall)
  /\ basicBlockOffset' = CurrentOffset
  /\ UNCHANGED << blocks, exitNodes >>

\* Mutation: the halt itself is left out of the size.
Halt_Short ==
  /\ Step("STOP") \/ Step("RETURN")
  /\ blocks' = SetBlockSize(blocks, basicBlockOffset, currentBlockSize)
  /\ UNCHANGED << basicBlockOffset, exitNodes >>

Halt ==
  /\ Step("STOP") \/ Step("RETURN")
  /\ blocks' = SetBlockSize(blocks, basicBlockOffset, nextInstrBlockSize)
  /\ UNCHANGED << basicBlockOffset, exitNodes >>

\* The PUSH4 farthest back in the five instructions that end at i, if any.
DispatchHash(i) ==
  LET W == { j \in 1 .. Len(listing) :
               i - 4 <= j /\ j <= i /\ listing[j].op = "PUSH4" }
  IN  IF W = {} THEN 0
      ELSE listing[CHOOSE j \in W : \A k \in W : j <= k].data

\* The branch taken, whose label the previous instruction pushed ...
BranchTaken ==
  IF PrevIs({"PUSH12"})
    THEN AddBlockReference(blocks, PrevData, basicBlockOffset,
                           nextInstrBlockSize, DispatchHash(instIndex), TRUE)
    ELSE blocks

\* ... and the code behind the JUMPI, which becomes a block of its own.
ConditionalJump ==
  /\ Step("JUMPI")
  /\ IF HasNext
       THEN /\ basicBlockOffset' = NextInstr.offset
            /\ blocks' = AddBlockReference(
                           AddBasicBlock(BranchTaken, NextInstr.offset,
                                         nextInstrBlockSize),
                           NextInstr.offset, basicBlockOffset,
                           nextInstrBlockSize, 0, FALSE)
       ELSE UNCHANGED basicBlockOffset /\ blocks' = BranchTaken
  /\ UNCHANGED exitNodes

\* A jump to an address that is not the last thing pushed leaves the function.
Jump ==
  /\ Step("JUMP")
  /\ blocks' =
       IF instIndex = 1 THEN blocks
       ELSE AddBlockReference(blocks,
              IF PrevIs({"PUSH12"}) THEN PrevData ELSE NODE_DEADEND,
              basicBlockOffset, nextInstrBlockSize, 0, FALSE)
  /\ UNCHANGED << basicBlockOffset, exitNodes >>

Skip ==
  /\ \E op \in Ops \ {"JUMPDEST", "STOP", "RETURN", "JUMPI", "JUMP"} : Step(op)
  /\ UNCHANGED << basicBlockOffset, blocks, exitNodes >>

Scan == FunctionEntry \/ FallIntoBlock \/ EnterBlock \/ Halt
          \/ ConditionalJump \/ Jump \/ Skip

Terminated == Done /\ UNCHANGED vars

Next == Scan \/ Terminated

Spec == Init /\ [][Next]_vars

-----------------------------------------------------------------------------
(***************************************************************************)
(* What links between blocks always satisfy.                               *)
(***************************************************************************)

\* A pointer to a block and the offset kept beside it agree, the block is in
\* the map, and it knows the block that points to it: the two directions of
\* each edge are written by two lookups (Contract.cpp:479-503).
LinksMutual ==
  \A b \in DOMAIN blocks :
    /\ blocks[b].nextDefault # NULL =>
         /\ blocks[b].nextDefault = blocks[b].dstDefault
         /\ blocks[b].dstDefault \in DOMAIN blocks
         /\ b \in blocks[blocks[b].dstDefault].references
    /\ blocks[b].nextJUMPI # NULL =>
         /\ blocks[b].nextJUMPI = blocks[b].dstJUMPI
         /\ blocks[b].dstJUMPI \in DOMAIN blocks
         /\ b \in blocks[blocks[b].dstJUMPI].references

\* Every xref names a block that is still there once the exit node is erased,
\* so computeDominators never leaves its loop over them early
\* (Contract.cpp:322-323), and the exit node itself goes nowhere.
ReferencesResolve ==
  /\ \A b \in DOMAIN blocks :
       blocks[b].references \subseteq DOMAIN blocks \ {NODE_DEADEND}
  /\ blocks[NODE_DEADEND].dstDefault = 0 /\ blocks[NODE_DEADEND].dstJUMPI = 0

\* The block the pass is in is always the last one that begins at or before
\* the next instruction, although blocks behind a JUMPI appear on the way
\* (Contract.cpp:132, 218-224): no write can go to a block already left.
InInnermostBlock ==
  ~Done =>
    /\ basicBlockOffset <= CurrentOffset
    /\ \A b \in DOMAIN blocks \ {NODE_DEADEND} :
         b < CurrentOffset => b <= basicBlockOffset

\* The successors and the size of a block never change once the pass has left
\* it (Contract.cpp:491-503), whatever jumps to it later.
LeftBlocksFrozen ==
  [][\A b \in DOMAIN blocks : b < basicBlockOffset =>
       /\ blocks'[b].dstDefault = blocks[b].dstDefault
       /\ blocks'[b].dstJUMPI = blocks[b].dstJUMPI
       /\ blocks'[b].size = blocks[b].size]_vars

-----------------------------------------------------------------------------
(***************************************************************************)
(* What the finished graph is, read off the listing and the final blocks.  *)
(***************************************************************************)
OffsetOf(i) == listing[i].offset
EndOf(i)    == IF i < Len(listing) THEN listing[i + 1].offset ELSE codeSize

\* Instructions between the start of a block and the start of the next.
Extent(b) ==
  { i \in 1 .. Len(listing) :
      /\ b <= OffsetOf(i)
      /\ \A k \in DOMAIN blocks : k <= OffsetOf(i) => k <= b }

Pushed(i) == i > 1 /\ listing[i - 1].op = "PUSH12"

\* Where instruction i goes when a condition holds, and where a jump goes else.
BranchTargets(i) ==
  IF listing[i].op = "JUMPI" /\ Pushed(i) THEN {listing[i - 1].data} ELSE {}

JumpTargets(i) ==
  IF listing[i].op = "JUMP" /\ i > 1
    THEN {IF Pushed(i) THEN listing[i - 1].data ELSE NODE_DEADEND}
  ELSE IF listing[i].op = "JUMPI" /\ i < Len(listing) THEN {OffsetOf(i + 1)}
  ELSE {}

\* The last jump before instruction k that goes to it is a dispatch: the pass
\* then takes it for the entry of a public function.
IsEntry(k) ==
  /\ k < Len(listing)
  /\ \E i \in 1 .. k - 1 :
       /\ OffsetOf(k) \in BranchTargets(i) \ JumpTargets(i) /\ DispatchHash(i) # 0
       /\ \A j \in i + 1 .. k - 1 :
            OffsetOf(k) \notin BranchTargets(j) \cup JumpTargets(j)

\* The falls the graph has: execution also falls into the entries of functions.
FallsInto(i) ==
  /\ i < Len(listing) /\ listing[i + 1].op = "JUMPDEST"
  /\ listing[i].op \notin NoFall /\ ~IsEntry(i + 1)

\* Where control may go next after instruction i, other than to i + 1 inside
\* the same block, unless a condition holds.
DefaultTargets(i) ==
  JumpTargets(i) \cup (IF FallsInto(i) THEN {OffsetOf(i + 1)} ELSE {})

IsFunction(i) == listing[i].op = "JUMPI" /\ Pushed(i) /\ DispatchHash(i) # 0

\* Compilers jump to JUMPDESTs.
LabelsAreDests ==
  \A i \in 1 .. Len(listing) :
    Pushed(i) /\ listing[i].op \in {"JUMP", "JUMPI"} =>
      listing[i - 1].data \in JumpdestOffsets(listing)

(***************************************************************************)
(* The edges of the code itself, from what its instructions do.  Where the *)
(* blocks begin is read off the listing, too.                              *)
(***************************************************************************)
\* Where blocks begin: at offset 0, at each JUMPDEST, and behind each JUMPI.
BlockStarts(l) ==
  {0} \cup JumpdestOffsets(l)
    \cup { l[i + 1].offset : i \in { j \in 1 .. Len(l) - 1 : l[j].op = "JUMPI" } }

CodeOf(b) ==
  { i \in 1 .. Len(listing) :
      /\ b <= OffsetOf(i)
      /\ \A k \in BlockStarts(listing) : k <= OffsetOf(i) => k <= b }

\* Nothing is executed behind these until something jumps there (Instruction.h:32,
\* 88, 221-227).
Stopping == { "STOP", "JUMP", "RETURN", "SUICIDE", "REVERT", "INVALID" }

\* Where execution goes from instruction i without a condition: to the next block,
\* or where a jump goes, which is back to the caller if its address was not pushed
\* just before it.
GoesOn(i) ==
  IF listing[i].op \in Stopping THEN JumpTargets(i)
  ELSE IF i < Len(listing) /\ OffsetOf(i + 1) \in BlockStarts(listing) THEN {OffsetOf(i + 1)}
  ELSE {}

Dispatched == { listing[i - 1].data : i \in { k \in 1 .. Len(listing) : IsFunction(k) } }

\* Blocks whose edges the scan can read: every branch has its address just before
\* it, no code is dead, and the last instruction is not one of the three whose
\* edge the scan gets wrong.  Those are REVERT and INVALID before a JUMPDEST (an
\* edge, where execution stops: Contract.cpp:163-169 does not list them), a fall
\* into the entry of a function (no edge, where execution goes on: 143-156), and
\* the branch of the interpreter, JUMPCI (no edge either).
Readable(b) ==
  \A i \in CodeOf(b) :
    /\ listing[i].op = "JUMPI" => Pushed(i)
    /\ listing[i].op \notin {"JUMPC", "JUMPCI"}
    /\ listing[i].op \in Stopping => \A j \in CodeOf(b) : j <= i
    /\ i < Len(listing) /\ listing[i + 1].op = "JUMPDEST" =>
         /\ listing[i].op \notin {"REVERT", "INVALID"}
         /\ listing[i].op \notin Stopping => OffsetOf(i + 1) \notin Dispatched

\* The blocks are those of the code, and each that can be read has the edges of
\* the code and no other: its successors are where its instructions go, by default
\* and on a condition (0 for nowhere), and its xrefs are in just those blocks
\* (Contract.cpp:111-253).
EdgesExact ==
  Done /\ LabelsAreDests =>
    /\ DOMAIN blocks = BlockStarts(listing) \cup {NODE_DEADEND}
    /\ \A b \in BlockStarts(listing) : Readable(b) =>
         LET on     == UNION { GoesOn(i) : i \in CodeOf(b) }
             branch == UNION { BranchTargets(i) : i \in CodeOf(b) }
         IN  /\ {blocks[b].dstDefault} \ {0} = on \ {0}
             /\ {blocks[b].dstJUMPI} \ {0} = branch \ {0}
             /\ { t \in DOMAIN blocks : b \in blocks[t].references } = on \cup branch

\* A block that ends in a jump, a halt or a fall has the size of the code
\* between its start and the end of its last such instruction, with dead code
\* or without (Contract.cpp:123-124, 179, 185, 501).
SizesExact ==
  Done =>
    \A b \in DOMAIN blocks \ {NODE_DEADEND} :
      LET enders == { i \in Extent(b) :
                        \/ listing[i].op \in {"STOP", "RETURN"}
                        \/ DefaultTargets(i) \cup BranchTargets(i) # {} }
      IN  enders # {} =>
            \E i \in enders : /\ \A j \in enders : j <= i
                              /\ blocks[b].size = EndOf(i) - b

\* Whether a block is taken for a public function, and for which selector, is
\* settled by the last reference to it in the code: a dispatch makes it one, and
\* any other branch, jump or fall makes it an ordinary block again
\* (Contract.cpp:157-171, 188-224, 484).
ListedByLastReference ==
  Done =>
    \A b \in JumpdestOffsets(listing) :
      LET refs == { i \in 1 .. Len(listing) :
                      b \in DefaultTargets(i) \cup BranchTargets(i) }
      IN  IF refs = {} THEN blocks[b].fnAddrHash = 0
          ELSE \E i \in refs :
                 /\ \A j \in refs : j <= i
                 /\ blocks[b].fnAddrHash =
                      IF b \in DefaultTargets(i) THEN 0 ELSE DispatchHash(i)

-----------------------------------------------------------------------------
(***************************************************************************)
(* What the documentation, and the comments in the code, say of the graph. *)
(***************************************************************************)

\* "You can get the list of all the functions from the dispatch routine using
\* the `--list' option" (README.md:92): printFunctions lists the blocks with a
\* hash, so each selector the dispatch compares must be the hash of a block.
AllFunctionsListed ==
  Done =>
    \A i \in 1 .. Len(listing) :
      /\ IsFunction(i) /\ i > 3
      /\ listing[i - 3].op = "PUSH4" /\ listing[i - 2].op = "EQ"
      /\ listing[i - 1].data \in JumpdestOffsets(listing)
      => \E b \in DOMAIN blocks : blocks[b].fnAddrHash = DispatchHash(i)
=============================================================================
