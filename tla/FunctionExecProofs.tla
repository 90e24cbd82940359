------------------------- MODULE FunctionExecProofs -------------------------
(***************************************************************************)
(* Proofs about the walks of module ConnectNodes and the executions of     *)
(* module FunctionExec, for every set of contracts: what the walks leave   *)
(* open the executions close, and what a CALL means reaches every block    *)
(* behind it.                                                              *)
(*                                                                         *)
(* A pointer that leads nowhere is one to the exit node, which is erased.  *)
(* In any contract only a block with a jump has it, the block is as long   *)
(* as to hold that jump, and executing the jump replaces it.  In code as   *)
(* compilers write it no function has one, for the walks miss none: each   *)
(* block that still has it can be reached from where the calls of the walk *)
(* stand, by a path that stops at the blocks walked before.                *)
(*                                                                         *)
(* Printing follows one chain of successors.  In structured code the next  *)
(* block on it has been executed: a call that came to a block leaves it    *)
(* behind its end, and its successor then is the one it went to.           *)
(***************************************************************************)
EXTENDS FunctionExec, BlockGraphProofs, SequenceTheorems

-----------------------------------------------------------------------------
(***************************************************************************)
(* More about the scan: where blocks begin, and which exits it records.    *)
(***************************************************************************)
BlocksAtInstructions ==
  \A b \in DOMAIN blocks \ {NODE_DEADEND} :
    b = 0 \/ \E i \in 1 .. Len(listing) : b = OffsetOf(i)

BlocksBehindJumpi ==
  \A i \in 1 .. Len(listing) :
    i < instIndex /\ i < Len(listing) /\ listing[i].op = "JUMPI" =>
      OffsetOf(i + 1) \in DOMAIN blocks

ExitsInCode == \A h \in DOMAIN exitNodes : exitNodes[h] # NODE_DEADEND

ScanMore == BlocksAtInstructions /\ BlocksBehindJumpi /\ ExitsInCode

LEMMA ScanMoreInit == Init => ScanMore
<1> SUFFICES ASSUME Init PROVE ScanMore
  OBVIOUS
<1>1. instIndex = 1 /\ exitNodes = << >>
  BY DEF Init
<1>2. DOMAIN blocks = {NODE_DEADEND, 0} \cup JumpdestOffsets(listing)
  BY DEF Init
<1>3. BlocksAtInstructions
  BY <1>2 DEF BlocksAtInstructions, JumpdestOffsets, OffsetOf
<1>4. QED
  BY <1>1, <1>3 DEF ScanMore, BlocksBehindJumpi, ExitsInCode

\* An address a function pushes is no exit node (Contract.cpp:147-150).
LEMMA ExitStep ==
  ASSUME ScanInv, ExitsInCode, Scan
  PROVE  ExitsInCode'
<1>1. CASE FunctionEntry
  <2>1. /\ instIndex \in 1 .. Len(listing) /\ Len(listing) \in Nat
        /\ instIndex + 1 \in 1 .. Len(listing)
    BY <1>1, AtInstruction DEF FunctionEntry, EntersFunction, HasNext
  <2>2. NextInstr.op = "PUSH12" => NextInstr.data # NODE_DEADEND
    <3> DEFINE p == [listing |-> listing, size |-> codeSize]
    <3>1. WellFormed(p) /\ p.listing = listing
      BY DEF ScanInv, ListingOK
    <3> HIDE DEF p
    <3>2. NextInstr.op = "PUSH12" => NextInstr.data < NODE_DEADEND
      BY <2>1, <3>1 DEF WellFormed, NextInstr
    <3>3. NextInstr.data \in Nat
      BY <2>1, Neighbours DEF ScanInv, NextInstr, Instr
    <3>4. QED
      BY <3>2, <3>3, NodeAssumption
  <2>3. QED
    BY <1>1, <2>2 DEF FunctionEntry, ExitsInCode
<1>2. CASE ~FunctionEntry
  <2>1. UNCHANGED exitNodes
    BY <1>2 DEF Scan, FallIntoBlock, EnterBlock, Halt, ConditionalJump, Jump, Skip
  <2>2. QED
    BY <2>1 DEF ExitsInCode
<1>3. QED
  BY <1>1, <1>2

LEMMA ScanMoreStep ==
  ASSUME ScanInv, ScanMore, Scan
  PROVE  ScanMore'
<1>1. PICK op : Step(op)
  BY DEF Scan, FunctionEntry, FallIntoBlock, EnterBlock, Halt, ConditionalJump,
         Jump, Skip
<1>2. /\ instIndex \in 1 .. Len(listing) /\ Len(listing) \in Nat
      /\ instIndex' = instIndex + 1 /\ listing' = listing
  BY <1>1, AtInstruction
<1>3. HasNext => NextInstr.offset = OffsetOf(instIndex + 1)
                 /\ instIndex + 1 \in 1 .. Len(listing)
  BY <1>2 DEF HasNext, NextInstr, OffsetOf
<1>4. BlocksAtInstructions'
  BY <1>2, <1>3, DomainStep DEF ScanMore, BlocksAtInstructions, OffsetOf
<1>5. BlocksBehindJumpi'
  <2> SUFFICES ASSUME NEW i \in 1 .. Len(listing), i < instIndex + 1,
                      i < Len(listing), listing[i].op = "JUMPI"
               PROVE  OffsetOf(i + 1) \in DOMAIN blocks'
    BY <1>2 DEF BlocksBehindJumpi, OffsetOf
  <2>1. CASE i < instIndex
    BY <2>1, DomainStep DEF ScanMore, BlocksBehindJumpi
  <2>2. CASE i = instIndex
    BY <1>3, <2>2, DomainStep DEF HasNext
  <2>3. QED
    BY <1>2, <2>1, <2>2
<1>6. QED
  BY <1>4, <1>5, ExitStep DEF ScanMore

-----------------------------------------------------------------------------
(***************************************************************************)
(* What the scan leaves behind.                                            *)
(***************************************************************************)
\* Instruction j jumps, and who enters a block at instruction from, which ends
\* before to, comes to it without leaving the block.
JumpsAt(from, to, j) ==
  /\ j \in from .. to - 1 /\ listing[j].op = "JUMP"
  /\ \A k \in from + 1 .. j : listing[k].op # "JUMPDEST" /\ listing[k - 1].op # "JUMPI"

HoldsJump(m, b) == \E j \in Nat : JumpsAt(IndexAt(b), IndexAt(b + m[b].size), j)

\* The pointers of block b in the map m: only that to the exit node may be without
\* its block, and then the block holds the jump that has it for a successor.
Linked(m, b) ==
  /\ m[b].nextDefault \in DOMAIN m \cup {NULL, NODE_DEADEND}
  /\ m[b].nextDefault = NODE_DEADEND =>
       m[b].dstDefault = NODE_DEADEND /\ HoldsJump(m, b)
  /\ m[b].nextJUMPI \in (DOMAIN m \ {NODE_DEADEND}) \cup {NULL}

\* getInstructionIndexAtOffset (Contract.cpp:358-372).
LEMMA IndexOfOffset ==
  ASSUME ListingOK, NEW i \in 1 .. Len(listing)
  PROVE  IndexAt(OffsetOf(i)) = i /\ IndexAt(EndOf(i)) = i + 1
<1>1. /\ Len(listing) \in Nat /\ codeSize \in Nat
      /\ \A k \in 1 .. Len(listing) : OffsetOf(k) \in Nat /\ OffsetOf(k) < codeSize
      /\ \A k, l \in 1 .. Len(listing) : l < k => OffsetOf(l) < OffsetOf(k)
  BY Neighbours DEF OffsetOf, Instr
<1>2. ASSUME NEW k \in 1 .. Len(listing) PROVE IndexAt(OffsetOf(k)) = k
  <2>1. ASSUME NEW l \in 1 .. Len(listing), OffsetOf(l) = OffsetOf(k) PROVE l = k
    <3>1. ~(l < k) /\ ~(k < l)
      BY <1>1, <2>1
    <3>2. QED
      BY <1>1, <3>1
  <2>2. (CHOOSE l \in 1 .. Len(listing) : OffsetOf(l) = OffsetOf(k)) = k
    BY <2>1
  <2>3. QED
    BY <2>2 DEF IndexAt
<1>3. CASE i < Len(listing)
  BY <1>1, <1>2, <1>3 DEF EndOf, OffsetOf
<1>4. CASE i = Len(listing)
  <2>1. EndOf(i) = codeSize /\ \A k \in 1 .. Len(listing) : OffsetOf(k) # codeSize
    BY <1>1, <1>4 DEF EndOf
  <2>2. IndexAt(EndOf(i)) = Len(listing) + 1
    BY <2>1 DEF IndexAt
  <2>3. QED
    BY <1>2, <1>4, <2>2
<1>5. QED
  BY <1>1, <1>3, <1>4

\* A block that leaves its function holds the jump by which it does.
LEMMA ScanHoldsJump ==
  ASSUME GraphInv, ScanMore, Done, NEW b \in DOMAIN blocks \ {NODE_DEADEND},
         blocks[b].dstDefault = NODE_DEADEND
  PROVE  HoldsJump(blocks, b)
<1>1. ScanInv /\ ListingOK /\ Len(listing) \in Nat /\ b \in Nat
  BY OffsetsRise DEF GraphInv, ScanInv
<1>2. \A i \in 1 .. Len(listing) :
        OffsetOf(i) \in Nat /\ OffsetOf(i) < NODE_DEADEND
  BY <1>1, OffsetsRise
<1>3. Inside(blocks, Settled, b) = Extent(b)
  BY AllSettled
<1>4. PICK i \in Extent(b) : NODE_DEADEND \in DefaultTargets(i)
  BY <1>3, NodeAssumption DEF GraphInv, Known, DefaultsKnown
<1>5. i \in 1 .. Len(listing) /\ b <= OffsetOf(i)
        /\ \A k \in DOMAIN blocks : k <= OffsetOf(i) => k <= b
  BY DEF Extent
<1>6. listing[i].op = "JUMP"
  <2>1. i < Len(listing) => OffsetOf(i + 1) # NODE_DEADEND
    BY <1>1, <1>2, <1>5
  <2>2. QED
    BY <1>4, <2>1 DEF DefaultTargets, JumpTargets, FallsInto
<1>7. Ender(i)
  BY <1>4 DEF Ender, Targets
<1>8. PICK e \in Extent(b) : i <= e /\ blocks[b].size = EndOf(e) - b
  BY <1>3, <1>7 DEF GraphInv, Known, SizesKnown
<1>9. e \in 1 .. Len(listing) /\ EndOf(e) \in Nat
  BY <1>1, <1>2, Neighbours DEF Extent, EndOf, OffsetOf
<1>10. PICK f \in 1 .. Len(listing) : b = OffsetOf(f)
  <2>1. CASE b = 0
    <3>1. 1 \in 1 .. Len(listing) /\ OffsetOf(1) = 0
      BY <1>1, <1>5, Neighbours DEF OffsetOf
    <3>2. QED
      BY <2>1, <3>1
  <2>2. QED
    BY <2>1 DEF ScanMore, BlocksAtInstructions
<1>11. IndexAt(b) = f /\ IndexAt(b + blocks[b].size) = e + 1
  <2>1. b + blocks[b].size = EndOf(e)
    BY <1>1, <1>8, <1>9
  <2>2. QED
    BY <1>1, <1>9, <1>10, <2>1, IndexOfOffset
<1>12. f <= i
  BY <1>1, <1>5, <1>10, OffsetsRise
<1>13. ASSUME NEW k \in f + 1 .. i
       PROVE  listing[k].op # "JUMPDEST" /\ listing[k - 1].op # "JUMPI"
  <2>1. k \in 1 .. Len(listing) /\ f < k /\ k - 1 \in 1 .. Len(listing) /\ k <= i
    BY <1>1, <1>5, <1>10, <1>13
  <2>2. OffsetOf(k) <= OffsetOf(i)
    BY <1>1, <1>2, <1>5, <2>1, OffsetsRise
  <2>3. OffsetOf(k) \notin DOMAIN blocks
    <3>1. OffsetOf(f) < OffsetOf(k)
      BY <1>1, <2>1, OffsetsRise
    <3>2. QED
      BY <1>2, <1>5, <1>10, <2>1, <2>2, <3>1
  <2>4. listing[k].op # "JUMPDEST"
    BY <2>1, <2>3 DEF GraphInv, ScanInv, PositionOK, JumpdestOffsets, OffsetOf
  <2>5. listing[k - 1].op # "JUMPI"
    <3>1. k - 1 < instIndex /\ k - 1 < Len(listing) /\ (k - 1) + 1 = k
      BY <1>1, <2>1 DEF Done, ListingOK
    <3>2. QED
      BY <2>1, <2>3, <3>1 DEF ScanMore, BlocksBehindJumpi
  <2>6. QED
    BY <2>4, <2>5
<1>14. JumpsAt(f, e + 1, i) /\ i \in Nat
  BY <1>5, <1>6, <1>8, <1>9, <1>12, <1>13 DEF JumpsAt
<1>15. QED
  BY <1>11, <1>14 DEF HoldsJump

LEMMA ScanLinked ==
  ASSUME GraphInv, ScanMore, Done, NEW b \in DOMAIN blocks
  PROVE  Linked(blocks, b)
<1>1. ScanInv /\ Typed(blocks) /\ Mutual(blocks) /\ Resolved(blocks)
  BY DEF GraphInv, ScanInv, Sound
<1>2. blocks[b] \in Block
  BY <1>1 DEF Typed
<1>3. /\ blocks[b].nextDefault # NULL =>
           /\ blocks[b].nextDefault = blocks[b].dstDefault
           /\ blocks[b].dstDefault \in DOMAIN blocks
      /\ blocks[b].nextJUMPI # NULL =>
           /\ blocks[b].nextJUMPI = blocks[b].dstJUMPI
           /\ blocks[b].dstJUMPI \in DOMAIN blocks
  BY <1>1 DEF Mutual
<1>4. blocks[b].dstDefault = NODE_DEADEND => HoldsJump(blocks, b)
  <2>1. b = NODE_DEADEND => blocks[b].dstDefault = 0
    BY <1>1 DEF Resolved
  <2>2. QED
    BY <2>1, ScanHoldsJump, NodeAssumption
<1>5. blocks[b].dstJUMPI # NODE_DEADEND
  <2>1. CASE b = NODE_DEADEND
    BY <1>1, <2>1, NodeAssumption DEF Resolved
  <2>2. CASE b # NODE_DEADEND
    <3>1. \/ blocks[b].dstJUMPI = 0
          \/ \E i \in 1 .. Len(listing) : blocks[b].dstJUMPI \in BranchTargets(i)
      BY <2>2 DEF GraphInv, Known, BranchesKnown, Inside, Settled
    <3>2. ASSUME NEW i \in 1 .. Len(listing), NEW t \in BranchTargets(i)
          PROVE  t # NODE_DEADEND
      <4> DEFINE p == [listing |-> listing, size |-> codeSize]
      <4>1. WellFormed(p) /\ p.listing = listing
        BY <1>1 DEF ScanInv, ListingOK
      <4> HIDE DEF p
      <4>2. i - 1 \in 1 .. Len(listing) /\ listing[i - 1].op = "PUSH12"
              /\ t = listing[i - 1].data
        BY <1>1, <3>2, OffsetsRise DEF BranchTargets, Pushed
      <4>3. t < NODE_DEADEND /\ t \in Nat
        BY <1>1, <4>1, <4>2, Neighbours DEF WellFormed, ScanInv, Instr
      <4>4. QED
        BY <4>3, NodeAssumption
    <3>3. QED
      BY <3>1, <3>2, NodeAssumption
  <2>3. QED
    BY <2>1, <2>2
<1>6. QED
  BY <1>2, <1>3, <1>4, <1>5, NodeAssumption DEF Linked

-----------------------------------------------------------------------------
(***************************************************************************)
(* The invariant of the walks.                                             *)
(***************************************************************************)
\* While exits are being connected.
Open ==
  /\ ExitsInCode /\ blocks[NODE_DEADEND].dstJUMPI = 0 /\ NODE_DEADEND \notin walked
  /\ \A b \in DOMAIN blocks : blocks[b].dstDefault = NODE_DEADEND => HoldsJump(blocks, b)

\* A call of the walk is at a block there is.
WalkFrame == [ next : Nat, block : DOMAIN blocks \cup {NULL} ]

CInv ==
  /\ CTypeOK /\ ListingOK /\ stack \in Seq(WalkFrame)
  /\ phase = "scan" =>
       GraphInv /\ ScanMore /\ pending = {} /\ stack = << >> /\ walked = {}
  /\ phase # "scan" => \A b \in DOMAIN blocks : Linked(blocks, b)
  /\ phase = "connect" => Open

\* Where the jumps are is a matter of the listing and of the sizes.
LEMMA JumpsSame ==
  ASSUME listing' = listing
  PROVE  /\ \A o : IndexAt(o)' = IndexAt(o)
         /\ \A f, t, j : JumpsAt(f, t, j)' <=> JumpsAt(f, t, j)
         /\ \A b : HoldsJump(blocks, b)' <=> HoldsJump(blocks', b)
         /\ \A b : Linked(blocks, b)' <=> Linked(blocks', b)
<1>1. \A o : IndexAt(o)' = IndexAt(o)
  BY DEF IndexAt, OffsetOf
<1>2. \A f, t, j : JumpsAt(f, t, j)' <=> JumpsAt(f, t, j)
  BY DEF JumpsAt
<1>3. \A b : HoldsJump(blocks, b)' <=> HoldsJump(blocks', b)
  BY <1>1, <1>2 DEF HoldsJump
<1>4. QED
  BY <1>1, <1>2, <1>3 DEF Linked

\* Block c of map m gets the default successor d, and the pointer n to it.
Patched(m, r, c, d, n) ==
  /\ DOMAIN r = DOMAIN m /\ Typed(r)
  /\ \A b \in DOMAIN m :
       /\ r[b].size = m[b].size /\ r[b].fnAddrHash = m[b].fnAddrHash
       /\ r[b].nextJUMPI = m[b].nextJUMPI /\ r[b].dstJUMPI = m[b].dstJUMPI
       /\ r[b].dstDefault = IF b = c THEN d ELSE m[b].dstDefault
       /\ r[b].nextDefault = IF b = c THEN n ELSE m[b].nextDefault

LEMMA PatchFields ==
  ASSUME NEW m, Typed(m), NEW c, NEW d \in Nat, NEW n \in Nat \cup {NULL},
         NEW r, r = [m EXCEPT ![c].dstDefault = d, ![c].nextDefault = n]
  PROVE  Patched(m, r, c, d, n)
<1>1. DOMAIN r = DOMAIN m
  OBVIOUS
<1>2. \A b \in DOMAIN m : b # c => r[b] = m[b]
  OBVIOUS
<1>3. c \in DOMAIN m => r[c] = [m[c] EXCEPT !.dstDefault = d, !.nextDefault = n]
  OBVIOUS
<1>4. \A b \in DOMAIN m : m[b] \in Block
  BY DEF Typed
<1>5. c \in DOMAIN m => /\ r[c] \in Block /\ r[c].size = m[c].size
                        /\ r[c].fnAddrHash = m[c].fnAddrHash
                        /\ r[c].nextJUMPI = m[c].nextJUMPI
                        /\ r[c].dstJUMPI = m[c].dstJUMPI
                        /\ r[c].dstDefault = d /\ r[c].nextDefault = n
  BY <1>3, <1>4 DEF Block
<1>6. Typed(r)
  <2>1. r = [b \in DOMAIN r |-> r[b]]
    OBVIOUS
  <2>2. \A b \in DOMAIN r : r[b] \in Block
    BY <1>1, <1>2, <1>4, <1>5
  <2>3. r \in [DOMAIN r -> Block]
    BY <2>1, <2>2
  <2>4. QED
    BY <1>1, <2>3 DEF Typed
<1>7. QED
  BY <1>1, <1>2, <1>5, <1>6 DEF Patched

LEMMA WalkInit == CInit => CInv
<1> SUFFICES ASSUME CInit PROVE CInv
  OBVIOUS
<1>1. Init /\ phase = "scan" /\ pending = {} /\ hash = 0 /\ stack = << >> /\ walked = {}
  BY DEF CInit
<1>2. GraphInv /\ ScanMore
  BY <1>1, GraphInit, ScanMoreInit
<1>3. ListingOK /\ TypeOK /\ NODE_DEADEND \in DOMAIN blocks
  BY <1>2 DEF GraphInv, ScanInv, ListingOK, Sound, Typed, Resolved, PositionOK,
              ExitsOK, TypeOK
<1>4. stack \in Seq(WalkFrame) /\ stack \in Seq(Frame)
  BY <1>1
<1>5. QED
  BY <1>1, <1>2, <1>3, <1>4 DEF CInv, CTypeOK

\* A step of the scan.
LEMMA ScanKeepsCInv ==
  ASSUME CInv, ScanStep
  PROVE  CInv'
<1>1. GraphInv /\ ScanMore /\ Scan /\ phase = "scan" /\ UNCHANGED cvars
        /\ pending = {} /\ stack = << >> /\ walked = {}
  BY DEF CInv, ScanStep
<1>2. GraphInv' /\ ScanMore'
  BY <1>1, GraphStep, ScanMoreStep DEF Next, GraphInv
<1>3. ListingOK' /\ TypeOK' /\ NODE_DEADEND \in DOMAIN blocks'
  BY <1>2 DEF GraphInv, ScanInv, ListingOK, Sound, Typed, Resolved, PositionOK,
              ExitsOK, TypeOK
<1>4. phase' = "scan" /\ pending' = {} /\ stack' = << >> /\ walked' = {} /\ hash' \in Nat
  BY <1>1 DEF cvars, CInv, CTypeOK
<1>5. (stack \in Seq(WalkFrame))' /\ (stack \in Seq(Frame))'
  BY <1>4
<1>6. QED
  BY <1>2, <1>3, <1>4, <1>5 DEF CInv, CTypeOK

\* The walks begin (Contract.cpp:253-258).
LEMMA BeginConnectKeeps ==
  ASSUME CInv, BeginConnect
  PROVE  CInv'
<1>1. /\ GraphInv /\ ScanMore /\ Done /\ phase = "scan" /\ UNCHANGED vars
      /\ stack = << >> /\ walked = {} /\ UNCHANGED << hash, stack, walked >>
      /\ phase' = "connect" /\ pending' = Functions
  BY DEF CInv, BeginConnect
<1>2. /\ listing' = listing /\ blocks' = blocks /\ exitNodes' = exitNodes
      /\ ListingOK' /\ TypeOK'
  BY <1>1 DEF vars, CInv, CTypeOK, ListingOK, TypeOK
<1>3. \A b \in DOMAIN blocks : Linked(blocks, b)
  BY <1>1, ScanLinked
<1>4. \A b \in DOMAIN blocks : blocks[b].dstDefault = NODE_DEADEND => HoldsJump(blocks, b)
  <2>1. blocks[NODE_DEADEND].dstDefault = 0
    BY <1>1 DEF GraphInv, ScanInv, Sound, Resolved
  <2>2. QED
    BY <1>1, <2>1, ScanHoldsJump, NodeAssumption
<1>5. blocks[NODE_DEADEND].dstJUMPI = 0 /\ ExitsInCode /\ NODE_DEADEND \in DOMAIN blocks
  BY <1>1 DEF GraphInv, ScanInv, Sound, Resolved, ScanMore
<1>6. Open'
  BY <1>1, <1>2, <1>4, <1>5, JumpsSame DEF Open, ExitsInCode
<1>7. \A b \in DOMAIN blocks' : Linked(blocks, b)'
  BY <1>2, <1>3, JumpsSame
<1>8. (stack \in Seq(WalkFrame))' /\ (stack \in Seq(Frame))'
  BY <1>1
<1>9. CTypeOK'
  BY <1>1, <1>2, <1>5, <1>8 DEF CTypeOK, CInv, Functions
<1>10. QED
  BY <1>1, <1>2, <1>6, <1>7, <1>8, <1>9 DEF CInv

\* A step of the walk that leaves the map alone.
LEMMA WalkKeeps ==
  ASSUME CInv, UNCHANGED vars, phase = "connect", phase' = "connect",
         pending' \subseteq pending, hash' \in Nat, stack' \in Seq(WalkFrame),
         walked' \subseteq DOMAIN blocks, NODE_DEADEND \notin walked'
  PROVE  CInv'
<1>1. /\ listing' = listing /\ blocks' = blocks /\ exitNodes' = exitNodes
      /\ ListingOK' /\ TypeOK'
  BY DEF vars, CInv, CTypeOK, ListingOK, TypeOK
<1>2. Open'
  BY <1>1, JumpsSame DEF CInv, Open, ExitsInCode
<1>3. \A b \in DOMAIN blocks' : Linked(blocks, b)'
  BY <1>1, JumpsSame DEF CInv
<1>4. (stack \in Seq(WalkFrame))' /\ (stack \in Seq(Frame))'
  <2>1. WalkFrame \subseteq Frame
    BY DEF CInv, CTypeOK, TypeOK, WalkFrame, Frame
  <2>2. stack' \in Seq(Frame)
    BY <2>1
  <2>3. WalkFrame' = WalkFrame
    BY <1>1 DEF WalkFrame
  <2>4. Frame' = Frame
    BY DEF Frame
  <2>5. QED
    BY <2>2, <2>3, <2>4
<1>5. CTypeOK'
  BY <1>1, <1>4 DEF CInv, CTypeOK
<1>6. QED
  BY <1>1, <1>2, <1>3, <1>4, <1>5 DEF CInv

\* The innermost call, and the calls around it.
LEMMA TopFrame ==
  ASSUME CInv, stack # << >>
  PROVE  /\ Top \in WalkFrame /\ Tail(stack) \in Seq(WalkFrame)
         /\ \A f, g \in WalkFrame : /\ << f >> \o Tail(stack) \in Seq(WalkFrame)
                                    /\ << f, g >> \o Tail(stack) \in Seq(WalkFrame)
         /\ \A n \in Nat : [stack EXCEPT ![1].next = n] \in Seq(WalkFrame)
         /\ [stack EXCEPT ![1].block = NULL] \in Seq(WalkFrame)
<1>1. stack \in Seq(WalkFrame)
  BY DEF CInv
<1>2. Top \in WalkFrame /\ Tail(stack) \in Seq(WalkFrame)
  BY <1>1, HeadTailProperties DEF Top
<1>3. ASSUME NEW f \in WalkFrame, NEW g \in WalkFrame
      PROVE  /\ << f >> \o Tail(stack) \in Seq(WalkFrame)
             /\ << f, g >> \o Tail(stack) \in Seq(WalkFrame)
  <2>1. << f >> \in Seq(WalkFrame) /\ << f, g >> \in Seq(WalkFrame)
    OBVIOUS
  <2>2. QED
    BY <1>2, <2>1, ConcatProperties
<1>4. stack[1] \in WalkFrame /\ 1 \in 1 .. Len(stack)
  BY <1>1
<1>5. ASSUME NEW n \in Nat PROVE [stack EXCEPT ![1].next = n] \in Seq(WalkFrame)
  <2>1. [stack[1] EXCEPT !.next = n] \in WalkFrame
    BY <1>4 DEF WalkFrame
  <2>2. [stack EXCEPT ![1] = [stack[1] EXCEPT !.next = n]] \in Seq(WalkFrame)
    BY <1>1, <1>4, <2>1, ExceptSeq
  <2>3. QED
    BY <2>2
<1>6. [stack EXCEPT ![1].block = NULL] \in Seq(WalkFrame)
  <2>1. [stack[1] EXCEPT !.block = NULL] \in WalkFrame
    BY <1>4 DEF WalkFrame
  <2>2. [stack EXCEPT ![1] = [stack[1] EXCEPT !.block = NULL]] \in Seq(WalkFrame)
    BY <1>1, <1>4, <2>1, ExceptSeq
  <2>3. QED
    BY <2>2
<1>7. QED
  BY <1>2, <1>3, <1>5, <1>6

\* The steps of a walk that only look at the map (Contract.cpp:258-264, 383-394,
\* 402-404).
LEMMA QuietWalk ==
  ASSUME CInv, WalkFunction \/ UnknownBlock \/ WalkedBefore \/ WalkBranch
                 \/ WalkPlain \/ EndOfPath \/ WalkOn
  PROVE  CInv'
<1>1. /\ hash \in Nat /\ pending \subseteq DOMAIN blocks /\ walked \subseteq DOMAIN blocks
      /\ DOMAIN blocks \subseteq Nat
      /\ \A b \in DOMAIN blocks : blocks[b] \in Block
      /\ phase = "connect" => NODE_DEADEND \notin walked /\ blocks[NODE_DEADEND].dstJUMPI = 0
      /\ stack \in Seq(WalkFrame)
  BY DEF CInv, CTypeOK, TypeOK, Open
<1>2. UNCHANGED vars /\ phase = "connect" /\ phase' = "connect"
  BY DEF WalkFunction, UnknownBlock, WalkedBefore, WalkBranch, WalkPlain,
         EndOfPath, WalkOn, AtLookup, AtEnd, AtNewBlock
<1>3. CASE WalkFunction
  <2>1. PICK f \in pending :
          /\ pending' = pending \ {f} /\ hash' = blocks[f].fnAddrHash
          /\ stack' = << [next |-> f, block |-> NULL] >>
    BY <1>3 DEF WalkFunction
  <2>2. hash' \in Nat /\ [next |-> f, block |-> NULL] \in WalkFrame
    BY <1>1, <2>1 DEF Block, WalkFrame
  <2>3. stack' \in Seq(WalkFrame)
    BY <2>1, <2>2
  <2>4. QED
    BY <1>1, <1>2, <1>3, <2>1, <2>2, <2>3, WalkKeeps DEF WalkFunction
<1>4. CASE UnknownBlock \/ EndOfPath
  BY <1>1, <1>2, <1>4, TopFrame, WalkKeeps DEF UnknownBlock, EndOfPath, Return, AtLookup, AtEnd
<1>5. CASE WalkedBefore
  <2>1. blocks[Top.next].dstDefault \in Nat
    BY <1>1, <1>5 DEF WalkedBefore, Block
  <2>2. stack' \in Seq(WalkFrame)
    BY <1>5, <2>1, TopFrame DEF WalkedBefore, AtLookup
  <2>3. QED
    BY <1>1, <1>2, <1>5, <2>2, WalkKeeps DEF WalkedBefore
<1>6. CASE WalkBranch \/ WalkPlain
  <2>1. Top.next \in DOMAIN blocks /\ stack # << >>
    BY <1>6 DEF WalkBranch, WalkPlain, AtNewBlock, AtLookup
  <2>2. Caller \in WalkFrame
        /\ [next |-> blocks[Top.next].dstJUMPI, block |-> NULL] \in WalkFrame
    BY <1>1, <2>1 DEF Caller, WalkFrame, Block
  <2>3. stack' \in Seq(WalkFrame)
    BY <1>6, <2>1, <2>2, TopFrame DEF WalkBranch, WalkPlain
  <2>4. walked' \subseteq DOMAIN blocks /\ NODE_DEADEND \notin walked'
    BY <1>1, <1>2, <1>6, <2>1 DEF WalkBranch, WalkPlain
  <2>5. QED
    BY <1>1, <1>2, <1>6, <2>3, <2>4, WalkKeeps DEF WalkBranch, WalkPlain
<1>7. CASE WalkOn
  BY <1>1, <1>2, <1>7, TopFrame, WalkKeeps DEF WalkOn, AtEnd
<1>8. QED
  BY <1>3, <1>4, <1>5, <1>6, <1>7

\* A block that leaves the function gets the address the function's entry pushed
\* (Contract.cpp:395-401).
LEMMA ResolveExitKeeps ==
  ASSUME CInv, ResolveExit
  PROVE  CInv'
<1> DEFINE c == Top.block
           d == IF hash \in DOMAIN exitNodes THEN exitNodes[hash] ELSE blocks[c].dstDefault
           n == GetBlockAt(blocks, d)
<1>1. /\ phase = "connect" /\ stack # << >> /\ c # NULL
      /\ blocks' = [blocks EXCEPT ![c].dstDefault = d, ![c].nextDefault = n]
      /\ stack' = Tail(stack)
      /\ UNCHANGED << listing, codeSize, instIndex, basicBlockOffset, exitNodes,
                      phase, pending, hash, walked >>
  BY DEF ResolveExit, AtEnd, Return
<1>2. Typed(blocks) /\ TypeOK /\ CTypeOK /\ Open /\ ListingOK
        /\ \A b \in DOMAIN blocks : Linked(blocks, b)
  BY <1>1 DEF CInv, CTypeOK, TypeOK, Typed
<1>3. c \in DOMAIN blocks /\ Tail(stack) \in Seq(WalkFrame)
  BY <1>1, TopFrame DEF WalkFrame
<1>4. d \in Nat /\ n \in Nat \cup {NULL}
  <2>1. hash \in DOMAIN exitNodes => exitNodes[hash] \in Nat
    BY <1>2 DEF TypeOK
  <2>2. blocks[c].dstDefault \in Nat
    BY <1>2, <1>3 DEF Typed, Block
  <2>3. QED
    BY <1>2, <2>1, <2>2 DEF GetBlockAt
<1>5. /\ n \in DOMAIN blocks \cup {NULL}
      /\ d = NODE_DEADEND => HoldsJump(blocks, c)
      /\ n = NODE_DEADEND => d = NODE_DEADEND
  BY <1>2, <1>3, NodeAssumption DEF Open, ExitsInCode, GetBlockAt
<1> HIDE DEF c, d, n
<1>6. Patched(blocks, blocks', c, d, n)
  BY <1>1, <1>2, <1>4, PatchFields
<1>7. \A b \in DOMAIN blocks : HoldsJump(blocks', b) <=> HoldsJump(blocks, b)
  BY <1>6 DEF Patched, HoldsJump
<1>8. \A b \in DOMAIN blocks : Linked(blocks', b)
  BY <1>2, <1>5, <1>6, <1>7 DEF Linked, Patched
<1>9. \A b \in DOMAIN blocks : blocks'[b].dstDefault = NODE_DEADEND => HoldsJump(blocks', b)
  BY <1>2, <1>5, <1>6, <1>7 DEF Open, Patched
<1>10. DOMAIN blocks' = DOMAIN blocks /\ Typed(blocks')
       /\ blocks'[NODE_DEADEND].dstJUMPI = 0
  BY <1>1, <1>2, <1>6 DEF Patched, Open, CTypeOK
<1>11. Open' /\ \A b \in DOMAIN blocks' : Linked(blocks, b)'
  BY <1>1, <1>2, <1>8, <1>9, <1>10, JumpsSame DEF Open, ExitsInCode
<1>12. (stack \in Seq(WalkFrame))' /\ (stack \in Seq(Frame))'
  <2>1. WalkFrame \subseteq Frame
    BY <1>2 DEF Typed, WalkFrame, Frame
  <2>2. stack' \in Seq(WalkFrame) /\ stack' \in Seq(Frame)
    BY <1>1, <1>3, <2>1
  <2>3. WalkFrame' = WalkFrame /\ Frame' = Frame
    BY <1>10 DEF WalkFrame, Frame
  <2>4. QED
    BY <2>2, <2>3
<1>13. TypeOK' /\ ListingOK'
  BY <1>1, <1>2, <1>10 DEF TypeOK, Typed, ListingOK
<1>14. CTypeOK'
  BY <1>1, <1>2, <1>10, <1>12, <1>13 DEF CTypeOK
<1>15. QED
  BY <1>1, <1>11, <1>12, <1>13, <1>14 DEF CInv

\* The exit node leaves the map (Contract.cpp:266).
LEMMA EraseExitNodeKeeps ==
  ASSUME CInv, EraseExitNode
  PROVE  CInv'
<1>1. /\ phase = "connect" /\ stack = << >> /\ pending = {} /\ phase' = "done"
      /\ blocks' = [ b \in DOMAIN blocks \ {NODE_DEADEND} |-> blocks[b] ]
      /\ UNCHANGED << listing, codeSize, instIndex, basicBlockOffset, exitNodes,
                      pending, hash, stack, walked >>
  BY DEF EraseExitNode
<1>2. /\ DOMAIN blocks' = DOMAIN blocks \ {NODE_DEADEND}
      /\ \A b \in DOMAIN blocks' : blocks'[b] = blocks[b]
  BY <1>1
<1>3. TypeOK /\ CTypeOK /\ Open /\ ListingOK /\ \A b \in DOMAIN blocks : Linked(blocks, b)
  BY <1>1 DEF CInv, CTypeOK
<1>4. blocks' \in [DOMAIN blocks' -> Block] /\ DOMAIN blocks' \subseteq Nat
  BY <1>1, <1>2, <1>3 DEF TypeOK
<1>5. TypeOK' /\ ListingOK'
  BY <1>1, <1>2, <1>3, <1>4 DEF TypeOK, ListingOK
<1>6. (stack \in Seq(WalkFrame))' /\ (stack \in Seq(Frame))'
  BY <1>1
<1>7. CTypeOK'
  BY <1>1, <1>2, <1>3, <1>5, <1>6 DEF CTypeOK, Open
<1>8. \A b \in DOMAIN blocks' : Linked(blocks', b)
  <2>1. \A b \in DOMAIN blocks' : HoldsJump(blocks', b) <=> HoldsJump(blocks, b)
    BY <1>2 DEF HoldsJump
  <2>2. QED
    BY <1>2, <1>3, <2>1 DEF Linked
<1>9. \A b \in DOMAIN blocks' : Linked(blocks, b)'
  BY <1>1, <1>8, JumpsSame
<1>10. QED
  BY <1>1, <1>5, <1>6, <1>7, <1>9 DEF CInv

LEMMA CInvSame ==
  ASSUME CInv, UNCHANGED vars, UNCHANGED cvars
  PROVE  CInv'
<1>1. GraphInv => GraphInv'
  BY GraphStep
<1>2. ScanMore => ScanMore'
  BY DEF vars, ScanMore, BlocksAtInstructions, BlocksBehindJumpi, ExitsInCode, OffsetOf
<1>3. /\ listing' = listing /\ blocks' = blocks /\ exitNodes' = exitNodes
      /\ codeSize' = codeSize /\ instIndex' = instIndex
      /\ basicBlockOffset' = basicBlockOffset
      /\ phase' = phase /\ pending' = pending /\ hash' = hash
      /\ stack' = stack /\ walked' = walked
  BY DEF vars, cvars
<1>4. ListingOK' /\ TypeOK' /\ CTypeOK'
  BY <1>3 DEF CInv, CTypeOK, TypeOK, ListingOK, Frame
<1>5. (stack \in Seq(WalkFrame))'
  BY <1>3 DEF CInv, WalkFrame
<1>6. Open => Open'
  BY <1>3, JumpsSame DEF Open, ExitsInCode
<1>7. (\A b \in DOMAIN blocks : Linked(blocks, b)) =>
        \A b \in DOMAIN blocks' : Linked(blocks, b)'
  BY <1>3, JumpsSame
<1>8. QED
  BY <1>1, <1>2, <1>3, <1>4, <1>5, <1>6, <1>7 DEF CInv

LEMMA WalkStep ==
  ASSUME CInv, ScanStep \/ Connect
  PROVE  CInv'
<1>1. CASE ScanStep
  BY <1>1, ScanKeepsCInv
<1>2. CASE Connect
  BY <1>2, BeginConnectKeeps, QuietWalk, ResolveExitKeeps, EraseExitNodeKeeps DEF Connect
<1>3. QED
  BY <1>1, <1>2

\* The walks keep their types, whatever the contract: a call of the walk is at a
\* block of the map, the exit node stays to the end of the walks and no longer
\* (Contract.cpp:253-266, 382-404).
THEOREM WalksTypeCorrect == CSpec => []CTypeOK
<1>1. CInv /\ [CNext]_allVars => CInv'
  <2> SUFFICES ASSUME CInv, [CNext]_allVars PROVE CInv'
    OBVIOUS
  <2>1. CASE UNCHANGED allVars
    BY <2>1, CInvSame DEF allVars
  <2>2. QED
    BY <2>1, WalkStep DEF CNext
<1>2. CInv => CTypeOK
  BY DEF CInv
<1>3. QED
  BY WalkInit, <1>1, <1>2, PTL DEF CSpec

-----------------------------------------------------------------------------
(***************************************************************************)
(* Code that jumps to JUMPDESTs only: each of its jumps finds its block.   *)
(***************************************************************************)
\* No block of the map m has a successor without a pointer to it, and those of
\* functions begin at the offsets in J.
Labelled(m, J) ==
  \A b \in DOMAIN m : /\ m[b].nextDefault = NULL => m[b].dstDefault = 0
                      /\ m[b].nextJUMPI = NULL => m[b].dstJUMPI = 0
                      /\ m[b].fnAddrHash # 0 => b \in J

LabelsFound == LabelsAreDests => Labelled(blocks, JumpdestOffsets(listing))

LEMMA LabelsFoundInit == Init => LabelsFound
  BY DEF Init, LabelsFound, Labelled, NewBlock

LEMMA ReferenceLabelled ==
  ASSUME NEW m, Typed(m), NEW J, Labelled(m, J), NEW d \in DOMAIN m,
         NEW src \in DOMAIN m, NEW s \in Nat, NEW h \in Nat, h # 0 => d \in J,
         NEW c \in BOOLEAN, NEW r, r = AddBlockReference(m, d, src, s, h, c)
  PROVE  Labelled(r, J)
<1>1. r = [ b \in DOMAIN m |-> Referred(m, d, src, s, h, c, b) ]
  BY ReferenceRecords
<1>2. GetBlockAt(m, d) # NULL
  BY NodeAssumption DEF Typed, GetBlockAt
<1>3. ASSUME NEW b \in DOMAIN m
      PROVE  /\ r[b].nextDefault = NULL => r[b].dstDefault = 0
             /\ r[b].nextJUMPI = NULL => r[b].dstJUMPI = 0
             /\ r[b].fnAddrHash # 0 => b \in J
  <2>1. r[b] = Referred(m, d, src, s, h, c, b)
    BY <1>1
  <2>2. QED
    BY <1>2, <2>1 DEF Referred, Labelled
<1>4. QED
  BY <1>1, <1>3 DEF Labelled

LEMMA AddedLabelled ==
  ASSUME NEW m, NEW J, Labelled(m, J), NEW o, NEW s
  PROVE  Labelled(AddBasicBlock(m, o, s), J)
  BY DEF Labelled, AddBasicBlock, NewBlock

\* The label that a jump has before it is the offset of a block.
LEMMA LabelIsBlock ==
  ASSUME ScanInv, LabelsAreDests, NEW op \in {"JUMP", "JUMPI"}, Step(op),
         PrevIs({"PUSH12"})
  PROVE  PrevData \in JumpdestOffsets(listing) /\ PrevData \in DOMAIN blocks
<1>1. instIndex \in 1 .. Len(listing) /\ listing[instIndex].op = op
  BY StepFacts
<1>2. Pushed(instIndex)
  BY DEF PrevIs, Pushed
<1>3. PrevData \in JumpdestOffsets(listing)
  BY <1>1, <1>2 DEF LabelsAreDests, PrevData
<1>4. QED
  BY <1>3 DEF ScanInv, PositionOK

LEMMA BranchLabelled ==
  ASSUME ScanInv, LabelsAreDests, Labelled(blocks, JumpdestOffsets(listing)),
         Step("JUMPI")
  PROVE  Labelled(BranchTaken, JumpdestOffsets(listing)) /\ Sound(BranchTaken)
         /\ DOMAIN BranchTaken = DOMAIN blocks
<1>1. CASE PrevIs({"PUSH12"})
  <2> DEFINE c == TRUE
             r == AddBlockReference(blocks, PrevData, basicBlockOffset,
                    nextInstrBlockSize, DispatchHash(instIndex), c)
  <2>1. c \in BOOLEAN /\ DispatchHash(instIndex) \in Nat /\ nextInstrBlockSize \in Nat
    BY StepFacts, HashNatural, SizesNatural
  <2>2. BranchTaken = r
    BY <1>1 DEF BranchTaken
  <2> HIDE DEF c
  <2>3. PrevData \in JumpdestOffsets(listing) /\ PrevData \in DOMAIN blocks
    BY <1>1, LabelIsBlock
  <2>4. Typed(blocks) /\ Sound(blocks) /\ PrevData \in Nat
    BY <2>3 DEF ScanInv, Sound, Typed
  <2>5. basicBlockOffset \in DOMAIN blocks \ {NODE_DEADEND}
    BY StepFacts
  <2>6. Labelled(r, JumpdestOffsets(listing))
    BY <2>1, <2>3, <2>4, <2>5, ReferenceLabelled
  <2>7. Sound(r) /\ DOMAIN r = DOMAIN blocks
    <3>1. Sound(blocks) /\ PrevData \in Nat
      BY <2>4
    <3>2. /\ Sound(r) /\ DOMAIN r = DOMAIN blocks
          /\ OnlyIn({basicBlockOffset}, blocks, r)
      BY <2>1, <2>5, <3>1, ReferenceSound
    <3>3. QED
      BY <3>2
  <2>8. QED
    BY <2>2, <2>6, <2>7
<1>2. CASE ~PrevIs({"PUSH12"})
  BY <1>2 DEF BranchTaken, ScanInv
<1>3. QED
  BY <1>1, <1>2

\* A reference by default is made by each of the steps (Contract.cpp:164-171,
\* 218-224, 236-246).
LEMMA DefaultLabelled ==
  ASSUME NEW m, Sound(m), NEW J, Labelled(m, J), NEW d \in DOMAIN m,
         NEW src \in DOMAIN m, NEW s \in Nat
  PROVE  Labelled(AddBlockReference(m, d, src, s, 0, FALSE), J)
<1> DEFINE c == FALSE
           r == AddBlockReference(m, d, src, s, 0, c)
<1>1. c \in BOOLEAN /\ 0 \in Nat /\ Typed(m)
  BY DEF Sound
<1> HIDE DEF c
<1>2. Labelled(r, J)
  BY <1>1, ReferenceLabelled
<1>3. QED
  BY <1>2 DEF c

LEMMA LabelsFoundStep ==
  ASSUME ScanInv, LabelsFound, Scan
  PROVE  LabelsFound'
<1> DEFINE J == JumpdestOffsets(listing)
<1>1. PICK op : Step(op)
  BY DEF Scan, FunctionEntry, FallIntoBlock, EnterBlock, Halt, ConditionalJump,
         Jump, Skip
<1>2. /\ instIndex \in 1 .. Len(listing) /\ listing' = listing
      /\ basicBlockOffset \in DOMAIN blocks \ {NODE_DEADEND}
      /\ JumpdestOffsets(listing)' = J /\ (LabelsAreDests' <=> LabelsAreDests)
  <2>1. /\ instIndex \in 1 .. Len(listing) /\ listing' = listing
        /\ basicBlockOffset \in DOMAIN blocks \ {NODE_DEADEND}
    BY <1>1, StepFacts
  <2>2. JumpdestOffsets(listing)' = J
    BY <2>1 DEF JumpdestOffsets
  <2>3. LabelsAreDests' <=> LabelsAreDests
    BY <2>1, <2>2 DEF LabelsAreDests, Pushed
  <2>4. QED
    BY <2>1, <2>2, <2>3
<1> SUFFICES ASSUME LabelsAreDests PROVE Labelled(blocks', J)
  <2>1. Labelled(blocks, JumpdestOffsets(listing))' <=> Labelled(blocks', J)
    BY <1>2 DEF Labelled
  <2>2. QED
    BY <1>2, <2>1 DEF LabelsFound
<1>3. Labelled(blocks, J) /\ Sound(blocks) /\ J \subseteq DOMAIN blocks
      /\ NODE_DEADEND \in DOMAIN blocks
  BY DEF LabelsFound, ScanInv, PositionOK, Sound, Resolved
<1>4. nextInstrBlockSize \in Nat /\ currentBlockSize \in Nat
  BY <1>2, <1>1, SizesNatural, StepFacts
<1>5. CASE FunctionEntry \/ EnterBlock \/ Skip
  BY <1>3, <1>5 DEF FunctionEntry, EnterBlock, Skip
<1>6. CASE FallIntoBlock
  <2>1. /\ blocks' = AddBlockReference(blocks, CurrentOffset, basicBlockOffset,
                                       currentBlockSize, 0, FALSE)
        /\ Step("JUMPDEST")
    BY <1>6 DEF FallIntoBlock
  <2>2. CurrentOffset \in DOMAIN blocks
    BY <1>2, <1>3, <2>1, StepFacts DEF JumpdestOffsets, CurrentOffset
  <2>3. QED
    BY <1>2, <1>3, <1>4, <2>1, <2>2, DefaultLabelled
<1>7. CASE Halt
  <2>1. blocks' = SetBlockSize(blocks, basicBlockOffset, nextInstrBlockSize)
    BY <1>7 DEF Halt
  <2>2. blocks' = [blocks EXCEPT ![basicBlockOffset].size = nextInstrBlockSize]
    BY <1>2, <2>1 DEF SetBlockSize
  <2>3. DOMAIN blocks' = DOMAIN blocks
    BY <2>2
  <2>4. ASSUME NEW b \in DOMAIN blocks
        PROVE  /\ blocks'[b].nextDefault = blocks[b].nextDefault
               /\ blocks'[b].dstDefault = blocks[b].dstDefault
               /\ blocks'[b].nextJUMPI = blocks[b].nextJUMPI
               /\ blocks'[b].dstJUMPI = blocks[b].dstJUMPI
               /\ blocks'[b].fnAddrHash = blocks[b].fnAddrHash
    <3>1. blocks[b] \in Block
      BY <1>3 DEF Sound, Typed
    <3>2. blocks'[b] = blocks[b] \/ blocks'[b] = [blocks[b] EXCEPT !.size = nextInstrBlockSize]
      BY <2>2
    <3>3. QED
      BY <3>1, <3>2 DEF Block
  <2>5. QED
    BY <1>3, <2>3, <2>4 DEF Labelled
<1>8. CASE ConditionalJump
  <2>1. Step("JUMPI")
    BY <1>8 DEF ConditionalJump
  <2>2. Labelled(BranchTaken, J) /\ Sound(BranchTaken) /\ DOMAIN BranchTaken = DOMAIN blocks
    BY <1>3, <2>1, BranchLabelled
  <2>3. CASE HasNext
    <3> DEFINE o == NextInstr.offset
               m == AddBasicBlock(BranchTaken, o, nextInstrBlockSize)
    <3>1. blocks' = AddBlockReference(m, o, basicBlockOffset, nextInstrBlockSize, 0, FALSE)
      BY <1>8, <2>3 DEF ConditionalJump
    <3>2. o \in Nat
      BY <2>1, <2>3, StepFacts, SizesNatural DEF Instr
    <3> HIDE DEF o
    <3>3. Labelled(m, J)
      BY <2>2, AddedLabelled
    <3>4. Sound(m) /\ DOMAIN m = DOMAIN blocks \cup {o}
      <4>1. Sound(m) /\ DOMAIN m = DOMAIN BranchTaken \cup {o}
        BY <1>4, <2>2, <3>2, AddBasicBlockSound
      <4>2. QED
        BY <2>2, <4>1
    <3> HIDE DEF m
    <3>5. QED
      BY <1>2, <1>4, <3>1, <3>3, <3>4, DefaultLabelled
  <2>4. CASE ~HasNext
    BY <1>8, <2>2, <2>4 DEF ConditionalJump
  <2>5. QED
    BY <2>3, <2>4
<1>9. CASE Jump
  <2>1. Step("JUMP")
    BY <1>9 DEF Jump
  <2> DEFINE d == IF PrevIs({"PUSH12"}) THEN PrevData ELSE NODE_DEADEND
  <2>2. \/ blocks' = blocks
        \/ blocks' = AddBlockReference(blocks, d, basicBlockOffset,
                                       nextInstrBlockSize, 0, FALSE)
    BY <1>9 DEF Jump
  <2>3. d \in DOMAIN blocks
    BY <1>3, <2>1, LabelIsBlock
  <2> HIDE DEF d
  <2>4. QED
    BY <1>2, <1>3, <1>4, <2>2, <2>3, DefaultLabelled
<1>10. QED
  BY <1>5, <1>6, <1>7, <1>8, <1>9 DEF Scan

-----------------------------------------------------------------------------
(***************************************************************************)
(* The graph the walks begin with, when the code is as compilers write it. *)
(***************************************************************************)
Node(o) == o \in DOMAIN blocks \ {0, NODE_DEADEND}

\* A pointer and the offset beside it lead to the same block, or nowhere.
Leads(next, dst) == (next = NULL /\ dst = 0) \/ (next = dst /\ Node(dst))

\* A block that branches goes on at the next instruction and does not leave its
\* function; one that leaves has no branch, and is the only one with a default
\* successor that a walk may change.
ShapeOf(b) ==
  /\ Leads(blocks[b].nextJUMPI, blocks[b].dstJUMPI)
  /\ blocks[b].dstJUMPI # 0 => ~Leaves(b) /\ blocks[b].dstDefault # 0
  /\ IF Leaves(b) THEN blocks[b].nextDefault = GetBlockAt(blocks, blocks[b].dstDefault)
                  ELSE Leads(blocks[b].nextDefault, blocks[b].dstDefault)

Shape ==
  /\ IsFiniteSet(DOMAIN blocks) /\ DOMAIN blocks \subseteq Nat
  /\ \A f \in Functions : Node(f)
  /\ \A b \in DOMAIN blocks : ShapeOf(b)

LEMMA TargetOfMade ==
  ASSUME ScanInv, CompilerMade, NEW i \in 1 .. Len(listing), NEW t \in Targets(i)
  PROVE  t # 0 /\ (t \in BranchTargets(i) => t # NODE_DEADEND)
<1>1. /\ \A k \in 1 .. Len(listing) : OffsetOf(k) \in Nat /\ OffsetOf(k) < NODE_DEADEND
      /\ \A k, l \in 1 .. Len(listing) : l < k => OffsetOf(l) < OffsetOf(k)
      /\ Len(listing) \in Nat
  BY OffsetsRise
<1>2. i < Len(listing) => OffsetOf(i + 1) # 0
  <2> SUFFICES ASSUME i < Len(listing) PROVE OffsetOf(i + 1) # 0
    OBVIOUS
  <2>1. i + 1 \in 1 .. Len(listing) /\ i < i + 1
    BY <1>1
  <2>2. QED
    BY <1>1, <2>1
<1>3. \A o \in JumpdestOffsets(listing) : o # 0 /\ o # NODE_DEADEND
  <2>1. \A o \in JumpdestOffsets(listing) : \E k \in 1 .. Len(listing) : o = OffsetOf(k)
    BY DEF JumpdestOffsets, OffsetOf
  <2>2. \A k \in 1 .. Len(listing) : OffsetOf(k) # NODE_DEADEND
    BY <1>1, NodeAssumption
  <2>3. QED
    BY <2>1, <2>2 DEF CompilerMade
<1>4. Pushed(i) /\ listing[i].op \in {"JUMP", "JUMPI"} =>
        listing[i - 1].data # 0 /\ listing[i - 1].data # NODE_DEADEND
  BY <1>3 DEF CompilerMade, LabelsAreDests
<1>5. t \in BranchTargets(i) => t # 0 /\ t # NODE_DEADEND
  BY <1>4 DEF BranchTargets
<1>6. t \in DefaultTargets(i) => t # 0
  BY <1>2, <1>4, NodeAssumption DEF DefaultTargets, JumpTargets, FallsInto
<1>7. QED
  BY <1>5, <1>6 DEF Targets

LEMMA OneDefault ==
  ASSUME NEW i, NEW t \in DefaultTargets(i), NEW u \in DefaultTargets(i)
  PROVE  t = u
  BY DEF DefaultTargets, JumpTargets, FallsInto, NoFall

\* The exit node stands outside of the code.
LEMMA ExitNodeStays ==
  ASSUME ListingOK
  PROVE  ~Leaves(NODE_DEADEND)
<1>1. \A i \in 1 .. Len(listing) : OffsetOf(i) \in Nat /\ OffsetOf(i) < NODE_DEADEND
  BY Neighbours, NodeAssumption DEF ListingOK, OffsetOf, Instr
<1>2. Extent(NODE_DEADEND) = {}
  BY <1>1, NodeAssumption DEF Extent
<1>3. QED
  BY <1>2 DEF Leaves

LEMMA FoundBlocks ==
  ASSUME GraphInv, ScanMore, Done
  PROVE  IsFiniteSet(DOMAIN blocks)
<1>1. \A i \in 1 .. Len(listing) : OffsetOf(i) \in Nat /\ OffsetOf(i) < NODE_DEADEND
  BY OffsetsRise DEF GraphInv
<1>2. DOMAIN blocks \subseteq 0 .. NODE_DEADEND
  BY <1>1, NodeAssumption DEF ScanMore, BlocksAtInstructions
<1>3. IsFiniteSet(0 .. NODE_DEADEND)
  BY NodeAssumption, FS_Interval
<1>4. QED
  BY <1>2, <1>3, FS_Subset

\* A block goes to the exit node when the last in it that goes anywhere is a jump
\* to wherever (Contract.cpp:229-246).
LEMMA LeavesToExitNode ==
  ASSUME GraphInv, Done, NEW b \in DOMAIN blocks
  PROVE  Leaves(b) <=> blocks[b].dstDefault = NODE_DEADEND
<1>1. ScanInv /\ ListingOK /\ Resolved(blocks) /\ Len(listing) \in Nat
  BY OffsetsRise DEF GraphInv, ScanInv, Sound
<1>2. CASE b = NODE_DEADEND
  BY <1>1, <1>2, ExitNodeStays, NodeAssumption DEF Resolved
<1>3. CASE b # NODE_DEADEND
  <2>1. Inside(blocks, Settled, b) = Extent(b)
    BY AllSettled
  <2>2. \/ /\ blocks[b].dstDefault = 0
           /\ \A i \in Extent(b) : DefaultTargets(i) = {}
        \/ \E i \in Extent(b) :
             /\ blocks[b].dstDefault \in DefaultTargets(i)
             /\ \A j \in Extent(b) : j > i => DefaultTargets(j) = {}
    BY <1>3, <2>1 DEF GraphInv, Known, DefaultsKnown
  <2>3. CASE \A i \in Extent(b) : DefaultTargets(i) = {}
    BY <2>2, <2>3, NodeAssumption DEF Leaves
  <2>4. CASE ~(\A i \in Extent(b) : DefaultTargets(i) = {})
    <3>1. PICK i \in Extent(b) :
            /\ blocks[b].dstDefault \in DefaultTargets(i)
            /\ \A j \in Extent(b) : j > i => DefaultTargets(j) = {}
      BY <2>2, <2>4
    <3>2. \A j \in Extent(b) : j \in Nat
      BY <1>1 DEF Extent
    <3>3. blocks[b].dstDefault = NODE_DEADEND => Leaves(b)
      BY <3>1 DEF Leaves
    <3>4. ASSUME Leaves(b) PROVE blocks[b].dstDefault = NODE_DEADEND
      <4>1. PICK j \in Extent(b) :
              /\ NODE_DEADEND \in DefaultTargets(j)
              /\ \A k \in Extent(b) : k > j => DefaultTargets(k) = {}
        BY <3>4 DEF Leaves
      <4>2. j = i
        BY <3>1, <3>2, <4>1
      <4>3. QED
        BY <3>1, <4>1, <4>2, OneDefault
    <3>5. QED
      BY <3>3, <3>4
  <2>5. QED
    BY <2>3, <2>4
<1>4. QED
  BY <1>2, <1>3

\* A JUMPI ends its block, so that what comes behind it is the default.
LEMMA BranchGoesOn ==
  ASSUME GraphInv, ScanMore, Done, CompilerMade, NEW b \in DOMAIN blocks,
         blocks[b].dstJUMPI # 0
  PROVE  blocks[b].dstDefault # 0 /\ blocks[b].dstDefault # NODE_DEADEND
<1>1. ScanInv /\ ListingOK /\ Resolved(blocks) /\ Len(listing) \in Nat
      /\ DOMAIN blocks \subseteq Nat
  BY OffsetsRise DEF GraphInv, ScanInv, Sound
<1>2. b # NODE_DEADEND
  BY <1>1 DEF Resolved
<1>3. Inside(blocks, Settled, b) = Extent(b)
  BY AllSettled
<1>4. PICK i \in Extent(b) : blocks[b].dstJUMPI \in BranchTargets(i)
  BY <1>2, <1>3 DEF GraphInv, Known, BranchesKnown
<1>5. /\ i \in 1 .. Len(listing) /\ listing[i].op = "JUMPI" /\ i < Len(listing)
      /\ b <= OffsetOf(i)
  BY <1>4 DEF BranchTargets, CompilerMade, Extent
<1>6. /\ \A k \in 1 .. Len(listing) : OffsetOf(k) \in Nat /\ OffsetOf(k) < NODE_DEADEND
      /\ \A k, l \in 1 .. Len(listing) : l < k => OffsetOf(l) < OffsetOf(k)
  BY <1>1, OffsetsRise
<1>7. i + 1 \in 1 .. Len(listing) /\ OffsetOf(i + 1) \in DOMAIN blocks
  BY <1>1, <1>5 DEF ScanMore, BlocksBehindJumpi, ListingOK, Done
<1>8. ASSUME NEW j \in Extent(b) PROVE ~(j > i)
  <2> SUFFICES ASSUME j > i PROVE FALSE
    OBVIOUS
  <2>1. j \in 1 .. Len(listing) /\ i < j /\ i + 1 <= j
    BY <1>5 DEF Extent
  <2>2. OffsetOf(i + 1) <= OffsetOf(j) /\ OffsetOf(i) < OffsetOf(i + 1)
    BY <1>5, <1>6, <1>7, <2>1
  <2>3. OffsetOf(i + 1) <= b
    BY <1>7, <2>2 DEF Extent
  <2>4. QED
    BY <1>1, <1>5, <1>6, <1>7, <2>2, <2>3
<1>9. DefaultTargets(i) = {OffsetOf(i + 1)}
  BY <1>5 DEF DefaultTargets, JumpTargets, FallsInto, NoFall
<1>10. \/ blocks[b].dstDefault = 0 /\ \A k \in Extent(b) : DefaultTargets(k) = {}
       \/ \E k \in Extent(b) :
            /\ blocks[b].dstDefault \in DefaultTargets(k)
            /\ \A j \in Extent(b) : j > k => DefaultTargets(j) = {}
  BY <1>2, <1>3 DEF GraphInv, Known, DefaultsKnown
<1>11. PICK k \in Extent(b) :
         /\ blocks[b].dstDefault \in DefaultTargets(k)
         /\ \A j \in Extent(b) : j > k => DefaultTargets(j) = {}
  BY <1>9, <1>10
<1>12. k = i
  <2>1. k \in 1 .. Len(listing) /\ ~(k > i) /\ ~(i > k)
    BY <1>8, <1>9, <1>11 DEF Extent
  <2>2. QED
    BY <1>1, <1>5, <2>1
<1>13. blocks[b].dstDefault = OffsetOf(i + 1)
  BY <1>9, <1>11, <1>12
<1>14. QED
  <2>1. i < i + 1 /\ OffsetOf(i) < OffsetOf(i + 1)
    BY <1>5, <1>6, <1>7
  <2>2. QED
    BY <1>5, <1>6, <1>7, <1>13, <2>1, NodeAssumption

\* No pointer leads to the start of the code.
LEMMA NoneToStart ==
  ASSUME GraphInv, Done, CompilerMade, NEW b \in DOMAIN blocks
  PROVE  /\ blocks[b].nextDefault # NULL =>
              /\ blocks[b].nextDefault = blocks[b].dstDefault
              /\ blocks[b].dstDefault \in DOMAIN blocks \ {0}
         /\ blocks[b].nextJUMPI # NULL =>
              /\ blocks[b].nextJUMPI = blocks[b].dstJUMPI
              /\ blocks[b].dstJUMPI \in DOMAIN blocks \ {0}
<1>1. ScanInv /\ Resolved(blocks) /\ Mutual(blocks) /\ 0 \in Nat
  BY DEF GraphInv, ScanInv, Sound
<1>2. 0 \in DOMAIN blocks => b \notin blocks[0].references
  <2> SUFFICES ASSUME 0 \in DOMAIN blocks, b \in blocks[0].references PROVE FALSE
    OBVIOUS
  <2>1. b # NODE_DEADEND
    BY <1>1 DEF Resolved
  <2>2. PICK i \in Inside(blocks, Settled, b) : 0 \in Targets(i)
    BY <2>1 DEF GraphInv, Known, RefsKnown, CompilerMade
  <2>3. i \in 1 .. Len(listing)
    BY <2>2 DEF Inside, Settled
  <2>4. QED
    BY <1>1, <2>2, <2>3, TargetOfMade
<1>3. QED
  BY <1>1, <1>2 DEF Mutual

LEMMA ShapeFound ==
  ASSUME GraphInv, ScanMore, LabelsFound, Done, CompilerMade
  PROVE  Shape
<1>1. ScanInv /\ ListingOK /\ Typed(blocks) /\ Labelled(blocks, JumpdestOffsets(listing))
  BY DEF GraphInv, ScanInv, Sound, LabelsFound, CompilerMade
<1>2. \A f \in Functions : Node(f)
  <2> SUFFICES ASSUME NEW f \in Functions PROVE Node(f)
    OBVIOUS
  <2>1. f \in DOMAIN blocks /\ f \in JumpdestOffsets(listing)
    BY <1>1 DEF Functions, Labelled
  <2>2. PICK k \in 1 .. Len(listing) : f = OffsetOf(k)
    BY <2>1 DEF JumpdestOffsets, OffsetOf
  <2>3. f # NODE_DEADEND
    BY <1>1, <2>2, OffsetsRise, NodeAssumption
  <2>4. QED
    BY <2>1, <2>3 DEF Node, CompilerMade
<1>3. ASSUME NEW b \in DOMAIN blocks PROVE ShapeOf(b)
  <2>1. Leads(blocks[b].nextJUMPI, blocks[b].dstJUMPI)
    <3>1. CASE blocks[b].nextJUMPI = NULL
      BY <1>1, <3>1 DEF Labelled, Leads
    <3>2. CASE blocks[b].nextJUMPI # NULL
      <4>1. blocks[b].nextJUMPI # NODE_DEADEND
        BY <3>2, ScanLinked DEF Linked
      <4>2. QED
        BY <3>2, <4>1, NoneToStart DEF Leads, Node
    <3>3. QED
      BY <3>1, <3>2
  <2>2. Leaves(b) <=> blocks[b].dstDefault = NODE_DEADEND
    BY LeavesToExitNode
  <2>3. blocks[b].dstJUMPI # 0 => ~Leaves(b) /\ blocks[b].dstDefault # 0
    BY <2>2, BranchGoesOn
  <2>4. CASE blocks[b].nextDefault = NULL
    <3>1. blocks[b].dstDefault = 0
      BY <1>1, <2>4 DEF Labelled
    <3>2. QED
      BY <2>1, <2>2, <2>3, <2>4, <3>1, NodeAssumption DEF ShapeOf, Leads
  <2>5. CASE blocks[b].nextDefault # NULL
    <3>1. /\ blocks[b].nextDefault = blocks[b].dstDefault
          /\ blocks[b].dstDefault \in DOMAIN blocks \ {0}
      BY <2>5, NoneToStart
    <3>2. QED
      BY <2>1, <2>2, <2>3, <3>1 DEF ShapeOf, Leads, Node, GetBlockAt
  <2>6. QED
    BY <2>4, <2>5
<1>4. QED
  BY <1>1, <1>2, <1>3, FoundBlocks DEF Shape, Typed

-----------------------------------------------------------------------------
(***************************************************************************)
(* What a walk has still to come to.                                       *)
(***************************************************************************)
\* The members of sequence s from the n-th on.
FromOn(s, n) == { s[k] : k \in n .. Len(s) }

FramesOf(s) == FromOn(s, 1)
BelowOf(s)  == FromOn(s, 2)

\* A call looks a block up, or is at the branch or the end of one.
FrameAt(r) ==
  IF r.block = NULL THEN r.next \notin {0, NODE_DEADEND}
                    ELSE Node(r.block) /\ r.next = blocks[r.block].dstDefault

\* The calls F, of which those in B wait for a branch to be walked, and the
\* marked blocks W.
CallsAt(F, B, W) ==
  /\ \A r \in F : FrameAt(r)
  /\ \A r \in B : r.block # NULL /\ blocks[r.block].dstJUMPI # 0
  /\ \A b \in W : Node(b) /\ blocks[b].dstJUMPI # 0

\* From where the calls go on: a block whose end is the exit node is itself what
\* its call will change.
Starts(F) ==
  { r.next : r \in { q \in F : q.next \notin {0, NODE_DEADEND} } }
    \cup { r.block : r \in { q \in F : q.next = NODE_DEADEND } }

WalkEdges(W) ==
  { e \in (DOMAIN blocks) \X (DOMAIN blocks) :
      \/ e[2] = blocks[e[1]].dstDefault /\ Node(e[2])
      \/ e[2] = blocks[e[1]].dstJUMPI /\ e[2] # 0 /\ e[1] \notin W }

Ahead(F, W) == Reached(DOMAIN blocks, WalkEdges(W), Starts(F))

Dangling == { b \in DOMAIN blocks : blocks[b].dstDefault = NODE_DEADEND }

\* The blocks without an exit behind a marked block, or behind a function in P, are
\* still to come.
NoneMissed(F, W, P) ==
  \A n \in W \cup P : Dangling \cap OwnBody({n}) \subseteq Ahead(F, W)

\* The blocks that a call is at or about to go to are in Z.
PlacedIn(F, Z) == \A r \in F : \A x \in {r.next, r.block} : Node(x) => x \in Z

\* No walk leads out of Z.
WalkClosed(Z) ==
  \A b \in Z \cap DOMAIN blocks :
    /\ Node(blocks[b].dstDefault) => blocks[b].dstDefault \in Z
    /\ blocks[b].dstJUMPI # 0 => blocks[b].dstJUMPI \in Z

LEMMA FirstOfThem ==
  ASSUME NEW s, Len(s) \in Nat, NEW n \in Nat, n <= Len(s), NEW m, m = n + 1
  PROVE  FromOn(s, n) = {s[n]} \cup FromOn(s, m)
<1>1. n .. Len(s) = {n} \cup m .. Len(s)
  OBVIOUS
<1>2. QED
  BY <1>1 DEF FromOn

LEMMA TheRest ==
  ASSUME NEW u, NEW t, Len(t) \in Nat, NEW n \in Nat, NEW m, m = n + 1,
         Len(u) = n + Len(t), \A k \in 1 .. Len(t) : u[n + k] = t[k]
  PROVE  FromOn(u, m) = FromOn(t, 1)
<1>1. ASSUME NEW x \in FromOn(u, m) PROVE x \in FromOn(t, 1)
  <2>1. PICK k \in m .. Len(u) : x = u[k]
    BY <1>1 DEF FromOn
  <2>2. k - n \in 1 .. Len(t) /\ n + (k - n) = k
    OBVIOUS
  <2>3. x = t[k - n]
    BY <2>1, <2>2
  <2>4. QED
    BY <2>2, <2>3 DEF FromOn
<1>2. ASSUME NEW x \in FromOn(t, 1) PROVE x \in FromOn(u, m)
  <2>1. PICK k \in 1 .. Len(t) : x = t[k]
    BY <1>2 DEF FromOn
  <2>2. n + k \in m .. Len(u) /\ x = u[n + k]
    BY <2>1
  <2>3. QED
    BY <2>2 DEF FromOn
<1>3. QED
  BY <1>1, <1>2

\* The calls after each thing that can happen to the stack of them.
LEMMA CallSets ==
  ASSUME NEW S, NEW s \in Seq(S), s # << >>
  PROVE  /\ FramesOf(s) = {Head(s)} \cup BelowOf(s)
         /\ FramesOf(Tail(s)) = BelowOf(s) /\ BelowOf(Tail(s)) \subseteq BelowOf(s)
         /\ \A x \in S : /\ FramesOf(<< x >> \o Tail(s)) = {x} \cup BelowOf(s)
                         /\ BelowOf(<< x >> \o Tail(s)) = BelowOf(s)
         /\ \A x, y \in S : /\ FramesOf(<< x, y >> \o Tail(s)) = {x, y} \cup BelowOf(s)
                            /\ BelowOf(<< x, y >> \o Tail(s)) = {y} \cup BelowOf(s)
         /\ \A r : /\ FramesOf([s EXCEPT ![1] = r]) = {r} \cup BelowOf(s)
                   /\ BelowOf([s EXCEPT ![1] = r]) = BelowOf(s)
<1> DEFINE t == Tail(s)
<1>1. /\ Len(s) \in Nat /\ Len(s) >= 1 /\ t \in Seq(S) /\ Len(t) = Len(s) - 1
      /\ \A k \in 1 .. Len(t) : t[k] = s[k + 1]
      /\ Head(s) = s[1] /\ DOMAIN s = 1 .. Len(s)
  BY EmptySeq, HeadTailProperties, LenProperties
<1>2. FramesOf(s) = {s[1]} \cup BelowOf(s)
  BY <1>1, FirstOfThem DEF FramesOf, BelowOf
<1>3. FramesOf(t) = BelowOf(s)
  <2>1. \A k \in 1 .. Len(t) : s[1 + k] = t[k]
    BY <1>1
  <2>2. Len(s) = 1 + Len(t) /\ 2 = 1 + 1 /\ Len(t) \in Nat
    BY <1>1
  <2> HIDE DEF t
  <2>3. FromOn(s, 2) = FromOn(t, 1)
    BY <2>1, <2>2, TheRest
  <2>4. QED
    BY <2>3 DEF FramesOf, BelowOf
<1>4. BelowOf(t) \subseteq FramesOf(t)
  BY DEF FramesOf, BelowOf, FromOn
<1>5. ASSUME NEW x \in S
      PROVE  /\ FramesOf(<< x >> \o t) = {x} \cup BelowOf(s)
             /\ BelowOf(<< x >> \o t) = BelowOf(s)
  <2> DEFINE u == << x >> \o t
  <2>1. << x >> \in Seq(S) /\ Len(<< x >>) = 1 /\ << x >>[1] = x
    OBVIOUS
  <2>2. u \in Seq(S) /\ Len(u) = 1 + Len(t) /\ u[1] = x
        /\ \A k \in 1 .. Len(t) : u[1 + k] = t[k]
    BY <1>1, <2>1, ConcatProperties
  <2> HIDE DEF u, t
  <2>3. Len(t) \in Nat /\ Len(u) \in Nat /\ Len(u) >= 1 /\ 2 = 1 + 1
    BY <1>1, <2>2
  <2>4. FromOn(u, 2) = FromOn(t, 1)
    BY <2>2, <2>3, TheRest
  <2>5. FromOn(u, 1) = {u[1]} \cup FromOn(u, 2)
    BY <2>3, FirstOfThem
  <2>6. QED
    BY <1>3, <2>2, <2>4, <2>5 DEF FramesOf, BelowOf, u
<1>6. ASSUME NEW x \in S, NEW y \in S
      PROVE  /\ FramesOf(<< x, y >> \o t) = {x, y} \cup BelowOf(s)
             /\ BelowOf(<< x, y >> \o t) = {y} \cup BelowOf(s)
  <2> DEFINE u == << x, y >> \o t
  <2>1. << x, y >> \in Seq(S) /\ Len(<< x, y >>) = 2
        /\ << x, y >>[1] = x /\ << x, y >>[2] = y
    OBVIOUS
  <2>2. u \in Seq(S) /\ Len(u) = 2 + Len(t) /\ u[1] = x /\ u[2] = y
        /\ \A k \in 1 .. Len(t) : u[2 + k] = t[k]
    BY <1>1, <2>1, ConcatProperties
  <2> HIDE DEF u, t
  <2>3. Len(t) \in Nat /\ Len(u) \in Nat /\ Len(u) >= 2 /\ 3 = 2 + 1 /\ 2 = 1 + 1
    BY <1>1, <2>2
  <2>4. FromOn(u, 3) = FromOn(t, 1)
    BY <2>2, <2>3, TheRest
  <2>5. FromOn(u, 1) = {u[1]} \cup FromOn(u, 2) /\ FromOn(u, 2) = {u[2]} \cup FromOn(u, 3)
    BY <2>3, FirstOfThem
  <2>6. QED
    BY <1>3, <2>2, <2>4, <2>5 DEF FramesOf, BelowOf, u
<1>7. ASSUME NEW r
      PROVE  /\ FramesOf([s EXCEPT ![1] = r]) = {r} \cup BelowOf(s)
             /\ BelowOf([s EXCEPT ![1] = r]) = BelowOf(s)
  <2> DEFINE u == [s EXCEPT ![1] = r]
  <2>1. Len(u) = Len(s) /\ u[1] = r /\ \A k \in 2 .. Len(s) : u[k] = s[k]
    BY <1>1
  <2> HIDE DEF u
  <2>2. BelowOf(u) = BelowOf(s)
    BY <2>1 DEF BelowOf, FromOn
  <2>3. Len(u) \in Nat /\ Len(u) >= 1 /\ 2 = 1 + 1
    BY <1>1, <2>1
  <2>4. FramesOf(u) = {u[1]} \cup BelowOf(u)
    BY <2>3, FirstOfThem DEF FramesOf, BelowOf
  <2>5. QED
    BY <2>1, <2>2, <2>4 DEF u
<1>8. QED
  BY <1>1, <1>2, <1>3, <1>4, <1>5, <1>6, <1>7

-----------------------------------------------------------------------------
(***************************************************************************)
(* The edges of the graph and of the walks.                                *)
(***************************************************************************)
OwnEdges == EdgesFrom({ b \in DOMAIN blocks : ~Leaves(b) })

AllEdges == EdgesFrom(DOMAIN blocks)

LEMMA EdgeOf ==
  ASSUME NEW B
  PROVE  \A e : e \in EdgesFrom(B) <=>
                  \E b \in B : \E t \in Successors(b) : e = << b, t >>
  BY DEF EdgesFrom

LEMMA EdgesInside ==
  /\ OwnEdges \subseteq AllEdges
  /\ \A e \in AllEdges : e[1] \in DOMAIN blocks /\ e[2] \in DOMAIN blocks \ {NODE_DEADEND}
  /\ \A e \in OwnEdges : e[1] \in DOMAIN blocks /\ e[2] \in DOMAIN blocks
<1>1. \A e \in AllEdges : e[1] \in DOMAIN blocks /\ e[2] \in DOMAIN blocks \ {NODE_DEADEND}
  BY EdgeOf DEF AllEdges, Successors
<1>2. OwnEdges \subseteq AllEdges
  BY DEF OwnEdges, AllEdges, EdgesFrom
<1>3. QED
  BY <1>1, <1>2

\* What is reached from F before any block leaves, and all that is.
LEMMA BodyFacts ==
  ASSUME IsFiniteSet(DOMAIN blocks), NEW F
  PROVE  /\ OwnBody(F) \subseteq DOMAIN blocks /\ F \cap DOMAIN blocks \subseteq OwnBody(F)
         /\ Closed(OwnEdges, OwnBody(F))
         /\ Body(F) \subseteq DOMAIN blocks /\ F \cap DOMAIN blocks \subseteq Body(F)
         /\ Closed(AllEdges, Body(F))
<1>1. OwnBody(F) = Reached(DOMAIN blocks, OwnEdges, F)
  BY DEF OwnBody, OwnEdges
<1>2. Body(F) = Reached(DOMAIN blocks, AllEdges, F)
  BY DEF Body, AllEdges
<1>3. QED
  BY <1>1, <1>2, EdgesInside, ReachedClosed

\* Where the pointers of a block lead, the offsets beside them lead.
LEMMA Steered ==
  ASSUME Shape, NEW b \in DOMAIN blocks, NEW t
  PROVE  /\ (blocks[b].dstDefault = t /\ Node(t)) \/ (blocks[b].dstJUMPI = t /\ t # 0)
              => t \in Successors(b)
         /\ t \in Successors(b) /\ ~Leaves(b) =>
              (blocks[b].dstDefault = t /\ Node(t)) \/ (blocks[b].dstJUMPI = t /\ t # 0)
<1>1. ShapeOf(b)
  BY DEF Shape
<1>2. NULL \notin DOMAIN blocks
  BY NodeAssumption DEF Shape
<1>3. CASE Leaves(b)
  BY <1>1, <1>3 DEF ShapeOf, Leads, Node, GetBlockAt, Successors
<1>4. CASE ~Leaves(b)
  <2>1. Leads(blocks[b].nextJUMPI, blocks[b].dstJUMPI)
        /\ Leads(blocks[b].nextDefault, blocks[b].dstDefault)
    BY <1>1, <1>4 DEF ShapeOf
  <2>2. QED
    BY <1>2, <2>1 DEF Leads, Node, Successors
<1>5. QED
  BY <1>3, <1>4

-----------------------------------------------------------------------------
(***************************************************************************)
(* The steps of a walk that only look.                                     *)
(***************************************************************************)
LEMMA AheadFacts ==
  ASSUME IsFiniteSet(DOMAIN blocks), NEW F, NEW W
  PROVE  /\ Ahead(F, W) \subseteq DOMAIN blocks
         /\ Starts(F) \cap DOMAIN blocks \subseteq Ahead(F, W)
         /\ Closed(WalkEdges(W), Ahead(F, W))
<1>1. \A e \in WalkEdges(W) : e[2] \in DOMAIN blocks
  <2>1. WalkEdges(W) \subseteq (DOMAIN blocks) \X (DOMAIN blocks)
    BY DEF WalkEdges
  <2>2. QED
    BY <2>1
<1>2. QED
  BY <1>1, ReachedClosed DEF Ahead

LEMMA AheadLeast ==
  ASSUME IsFiniteSet(DOMAIN blocks), NEW F, NEW W, NEW T,
         Closed(WalkEdges(W), T), Starts(F) \cap DOMAIN blocks \subseteq T
  PROVE  Ahead(F, W) \subseteq T
  BY ReachedLeast DEF Ahead

LEMMA WalkEdge ==
  ASSUME Shape, NEW W, NEW b \in DOMAIN blocks
  PROVE  /\ Node(blocks[b].dstDefault) => << b, blocks[b].dstDefault >> \in WalkEdges(W)
         /\ b \notin W /\ blocks[b].dstJUMPI # 0 => << b, blocks[b].dstJUMPI >> \in WalkEdges(W)
<1>1. blocks[b].dstJUMPI # 0 => Node(blocks[b].dstJUMPI)
  BY DEF Shape, ShapeOf, Leads
<1>2. ASSUME NEW t \in DOMAIN blocks
      PROVE  << b, t >> \in (DOMAIN blocks) \X (DOMAIN blocks)
             /\ << b, t >>[1] = b /\ << b, t >>[2] = t
  OBVIOUS
<1>3. Node(blocks[b].dstDefault) => << b, blocks[b].dstDefault >> \in WalkEdges(W)
  BY <1>2 DEF WalkEdges, Node
<1>4. b \notin W /\ blocks[b].dstJUMPI # 0 => << b, blocks[b].dstJUMPI >> \in WalkEdges(W)
  BY <1>1, <1>2 DEF WalkEdges, Node
<1>5. QED
  BY <1>3, <1>4

LEMMA Walkable ==
  ASSUME Shape, NEW F, NEW W, NEW b \in Ahead(F, W)
  PROVE  /\ Node(blocks[b].dstDefault) => blocks[b].dstDefault \in Ahead(F, W)
         /\ b \notin W /\ blocks[b].dstJUMPI # 0 => blocks[b].dstJUMPI \in Ahead(F, W)
<1>1. b \in DOMAIN blocks /\ Closed(WalkEdges(W), Ahead(F, W))
  BY AheadFacts DEF Shape
<1>2. ASSUME NEW t, << b, t >> \in WalkEdges(W) PROVE t \in Ahead(F, W)
  <2> DEFINE e == << b, t >>
  <2>1. e[1] = b /\ e[2] = t
    OBVIOUS
  <2>2. QED
    BY <1>1, <1>2, <2>1 DEF Closed
<1>3. QED
  BY <1>1, <1>2, WalkEdge

\* The calls F are about to go to block n, or past it: when those that take their
\* place, F2, still come to where n leads, no block without an exit is missed.
LEMMA StaysAhead ==
  ASSUME Shape, NEW F, NEW F2, NEW W, NEW W2, NEW P, NoneMissed(F, W, P),
         NEW n \in DOMAIN blocks, W2 \subseteq W \cup {n}, W \subseteq W2,
         Starts(F) \cap DOMAIN blocks \subseteq Ahead(F2, W2) \cup {n},
         Node(blocks[n].dstDefault) => blocks[n].dstDefault \in Ahead(F2, W2),
         n \notin W /\ blocks[n].dstJUMPI # 0 => blocks[n].dstJUMPI \in Ahead(F2, W2),
         n \in Dangling => n \in Ahead(F2, W2)
  PROVE  NoneMissed(F2, W2, P \cup {n})
<1> DEFINE A == Ahead(F2, W2)
           T == A \cup {n}
<1>1. IsFiniteSet(DOMAIN blocks) /\ A \subseteq DOMAIN blocks
  BY AheadFacts DEF Shape
<1>2. ASSUME NEW b \in T
      PROVE  /\ Node(blocks[b].dstDefault) => blocks[b].dstDefault \in A
             /\ b \notin W /\ blocks[b].dstJUMPI # 0 => blocks[b].dstJUMPI \in A
  <2>1. CASE b = n
    BY <2>1
  <2>2. CASE b # n
    <3>1. b \in A /\ (b \notin W => b \notin W2)
      BY <2>2
    <3>2. QED
      BY <3>1, Walkable
  <2>3. QED
    BY <2>1, <2>2
<1>3. Closed(WalkEdges(W), T)
  BY <1>2 DEF Closed, WalkEdges
<1>4. Ahead(F, W) \subseteq T
  <2> HIDE DEF A
  <2>1. Starts(F) \cap DOMAIN blocks \subseteq T
    BY DEF A
  <2> HIDE DEF T
  <2>2. QED
    BY <1>1, <1>3, <2>1, AheadLeast
<1>5. \A m \in W \cup P : Dangling \cap OwnBody({m}) \subseteq T
  BY <1>4 DEF NoneMissed
<1>6. Dangling \cap OwnBody({n}) \subseteq T
  <2>1. \A e \in OwnEdges : e[1] \in T => e[2] \in T \/ e[1] \in W
    <3> SUFFICES ASSUME NEW e \in OwnEdges, e[1] \in T, e[1] \notin W PROVE e[2] \in T
      OBVIOUS
    <3>1. PICK b \in DOMAIN blocks : ~Leaves(b) /\ \E t \in Successors(b) : e = << b, t >>
      BY EdgeOf DEF OwnEdges
    <3>2. e[1] = b /\ e[2] \in Successors(b)
      BY <3>1
    <3>3. \/ blocks[b].dstDefault = e[2] /\ Node(e[2])
          \/ blocks[b].dstJUMPI = e[2] /\ e[2] # 0
      BY <3>1, <3>2, Steered
    <3>4. QED
      BY <1>2, <3>2, <3>3
  <2>2. \A w \in W : Dangling \cap Reached(DOMAIN blocks, OwnEdges, {w}) \subseteq T
    BY <1>5 DEF OwnBody, OwnEdges
  <2>3. \A e \in OwnEdges : e[1] \in DOMAIN blocks /\ e[2] \in DOMAIN blocks
    BY EdgesInside
  <2>4. n \in T /\ T \subseteq DOMAIN blocks
    BY <1>1
  <2> HIDE DEF T
  <2>5. Searched(DOMAIN blocks, OwnEdges, Dangling, W, T)
    BY <2>1, <2>2, <2>4 DEF Searched
  <2>6. Dangling \cap Reached(DOMAIN blocks, OwnEdges, {n}) \subseteq T
    BY <1>1, <2>3, <2>4, <2>5, MarkedSearch
  <2>7. QED
    BY <2>6 DEF OwnBody, OwnEdges
<1>7. \A m \in W2 \cup (P \cup {n}) : Dangling \cap OwnBody({m}) \subseteq A
  BY <1>5, <1>6
<1>8. QED
  BY <1>7 DEF NoneMissed

\* A block that branches has an exit.
LEMMA BranchEnds ==
  ASSUME Shape, NEW b \in DOMAIN blocks, blocks[b].dstJUMPI # 0
  PROVE  b \notin Dangling /\ Node(blocks[b].dstDefault) /\ Node(blocks[b].dstJUMPI)
  BY DEF Shape, ShapeOf, Leads, Dangling, Node

LEMMA DanglingLeaves ==
  ASSUME Shape, NEW b \in Dangling
  PROVE  Leaves(b) /\ blocks[b].dstJUMPI = 0
  BY NodeAssumption DEF Shape, ShapeOf, Leads, Dangling, Node

\* The search of NoneMissed goes on with fewer calls that start at the same blocks.
LEMMA StartsLess ==
  ASSUME Shape, NEW F, NEW F2, NEW W, NEW P, NoneMissed(F, W, P),
         Starts(F) \cap DOMAIN blocks \subseteq Starts(F2)
  PROVE  NoneMissed(F2, W, P)
<1>1. Closed(WalkEdges(W), Ahead(F2, W))
      /\ Starts(F2) \cap DOMAIN blocks \subseteq Ahead(F2, W)
  BY AheadFacts DEF Shape
<1>2. Ahead(F, W) \subseteq Ahead(F2, W)
  BY <1>1, AheadLeast DEF Shape
<1>3. QED
  BY <1>2 DEF NoneMissed

\* A call ends because there is no block, or no successor (Contract.cpp:383-384, 404).
LEMMA ReturnStep ==
  ASSUME Shape, NEW r, NEW B, NEW B2, B2 \subseteq B, NEW W, NEW P,
         CallsAt({r} \cup B, B, W),
         \/ r.block = NULL /\ r.next \notin DOMAIN blocks
         \/ r.block # NULL /\ r.next = 0
  PROVE  /\ CallsAt(B, B2, W)
         /\ NoneMissed({r} \cup B, W, P) => NoneMissed(B, W, P)
<1>1. CallsAt(B, B2, W)
  BY DEF CallsAt
<1>2. r.next # NODE_DEADEND
  BY NodeAssumption DEF CallsAt, FrameAt
<1>3. Starts({r} \cup B) \cap DOMAIN blocks \subseteq Starts(B)
  BY <1>2 DEF Starts
<1>4. QED
  BY <1>1, <1>3, StartsLess

\* A marked block is passed by (Contract.cpp:387).
LEMMA PassStep ==
  ASSUME Shape, NEW r, NEW B, NEW W, NEW P, W \subseteq DOMAIN blocks,
         CallsAt({r} \cup B, B, W),
         r.block = NULL, r.next \in W,
         NEW q, q.next = blocks[r.next].dstDefault, q.block = NULL
  PROVE  /\ CallsAt({q} \cup B, B, W)
         /\ NoneMissed({r} \cup B, W, P) => NoneMissed({q} \cup B, W, P)
<1> DEFINE n == r.next
<1>1. n \in DOMAIN blocks /\ blocks[n].dstJUMPI # 0
  BY DEF CallsAt
<1>2. n \notin Dangling /\ Node(blocks[n].dstDefault)
  BY <1>1, BranchEnds
<1>3. CallsAt({q} \cup B, B, W)
  BY <1>2 DEF CallsAt, FrameAt, Node
<1>4. blocks[n].dstDefault \in Ahead({q} \cup B, W)
  <2>1. blocks[n].dstDefault \in Starts({q} \cup B)
    BY <1>2 DEF Starts, Node
  <2>2. QED
    BY <1>2, <2>1, AheadFacts DEF Shape, Node
<1>5. Starts({r} \cup B) \subseteq Starts({q} \cup B) \cup {n}
  BY DEF Starts, CallsAt, FrameAt
<1>6. Starts({r} \cup B) \cap DOMAIN blocks \subseteq Ahead({q} \cup B, W) \cup {n}
  BY <1>5, AheadFacts DEF Shape
<1>7. W \subseteq W \cup {n} /\ W \subseteq W
  OBVIOUS
<1> HIDE DEF n
<1>8. n \in W
  BY DEF n
<1>9. ASSUME NoneMissed({r} \cup B, W, P) PROVE NoneMissed({q} \cup B, W, P \cup {n})
  BY <1>1, <1>2, <1>4, <1>6, <1>7, <1>8, <1>9, StaysAhead
<1>10. QED
  BY <1>3, <1>9 DEF NoneMissed

\* A block that does not branch is walked to its end (Contract.cpp:391-394).
LEMMA PlainStep ==
  ASSUME Shape, NEW r, NEW B, NEW W, NEW P,
         CallsAt({r} \cup B, B, W),
         r.block = NULL, r.next \in DOMAIN blocks, blocks[r.next].dstJUMPI = 0,
         NEW q, q.next = blocks[r.next].dstDefault, q.block = r.next
  PROVE  /\ CallsAt({q} \cup B, B, W)
         /\ NoneMissed({r} \cup B, W, P) => NoneMissed({q} \cup B, W, P)
<1> DEFINE n == r.next
<1>1. Node(n) /\ n # NULL /\ r.next # NODE_DEADEND
  BY NodeAssumption DEF CallsAt, FrameAt, Node, Shape
<1>2. CallsAt({q} \cup B, B, W)
  BY <1>1 DEF CallsAt, FrameAt
<1>3. /\ Node(blocks[n].dstDefault) => blocks[n].dstDefault \in Starts({q} \cup B)
      /\ n \in Dangling => n \in Starts({q} \cup B)
  BY DEF Starts, Node, Dangling
<1>4. /\ Node(blocks[n].dstDefault) => blocks[n].dstDefault \in Ahead({q} \cup B, W)
      /\ n \in Dangling => n \in Ahead({q} \cup B, W)
  BY <1>3, AheadFacts DEF Shape, Node
<1>5. Starts({r} \cup B) \subseteq Starts({q} \cup B) \cup {n}
  BY <1>1 DEF Starts
<1>6. Starts({r} \cup B) \cap DOMAIN blocks \subseteq Ahead({q} \cup B, W) \cup {n}
  BY <1>5, AheadFacts DEF Shape
<1>7. W \subseteq W \cup {n} /\ W \subseteq W /\ n \in DOMAIN blocks /\ blocks[n].dstJUMPI = 0
  OBVIOUS
<1> HIDE DEF n
<1>8. ASSUME NoneMissed({r} \cup B, W, P) PROVE NoneMissed({q} \cup B, W, P \cup {n})
  BY <1>4, <1>6, <1>7, <1>8, StaysAhead
<1>9. QED
  BY <1>2, <1>8 DEF NoneMissed

\* A block that branches is marked and its branch walked first (Contract.cpp:388-390).
LEMMA BranchStep ==
  ASSUME Shape, NEW r, NEW B, NEW W, NEW P,
         CallsAt({r} \cup B, B, W),
         r.block = NULL, r.next \in DOMAIN blocks, blocks[r.next].dstJUMPI # 0,
         NEW q, q.next = blocks[r.next].dstDefault, q.block = r.next,
         NEW l, l.next = blocks[r.next].dstJUMPI, l.block = NULL
  PROVE  /\ CallsAt({l, q} \cup B, {q} \cup B, W \cup {r.next})
         /\ NoneMissed({r} \cup B, W, P) =>
              NoneMissed({l, q} \cup B, W \cup {r.next}, P)
<1> DEFINE n == r.next
           V == W \cup {n}
           G == {l, q} \cup B
<1>1. Node(n) /\ n # NULL /\ r.next # NODE_DEADEND
  BY NodeAssumption DEF CallsAt, FrameAt, Node, Shape
<1>2. n \notin Dangling /\ Node(blocks[n].dstDefault) /\ Node(blocks[n].dstJUMPI)
  BY BranchEnds
<1>3. CallsAt(G, {q} \cup B, V)
  BY <1>1, <1>2 DEF CallsAt, FrameAt, Node
<1>4. {blocks[n].dstDefault, blocks[n].dstJUMPI} \subseteq Starts(G)
  BY <1>2 DEF Starts, Node
<1>5. {blocks[n].dstDefault, blocks[n].dstJUMPI} \subseteq Ahead(G, V)
  <2> HIDE DEF V, G
  <2>1. QED
    BY <1>2, <1>4, AheadFacts DEF Shape, Node
<1>6. Starts({r} \cup B) \subseteq Starts(G) \cup {n}
  BY <1>1 DEF Starts
<1>7. Starts({r} \cup B) \cap DOMAIN blocks \subseteq Ahead(G, V) \cup {n}
  <2> HIDE DEF V, G
  <2>1. QED
    BY <1>6, AheadFacts DEF Shape
<1>8. V \subseteq W \cup {n} /\ W \subseteq V /\ n \in DOMAIN blocks
  OBVIOUS
<1>9. ASSUME NoneMissed({r} \cup B, W, P) PROVE NoneMissed(G, V, P \cup {n})
  <2> HIDE DEF V, G, n
  <2>1. NoneMissed({r} \cup B, W, P)
    BY <1>9
  <2>2. QED
    BY <1>2, <1>5, <1>7, <1>8, <2>1, StaysAhead
<1>10. QED
  BY <1>3, <1>9 DEF NoneMissed

\* The walk goes on behind a block (Contract.cpp:403).
LEMMA OnStep ==
  ASSUME Shape, NEW r, NEW B, NEW W, NEW P,
         CallsAt({r} \cup B, B, W),
         r.next \notin {0, NODE_DEADEND}, NEW q, q.next = r.next, q.block = NULL
  PROVE  /\ CallsAt({q} \cup B, B, W)
         /\ NoneMissed({r} \cup B, W, P) => NoneMissed({q} \cup B, W, P)
<1>1. CallsAt({q} \cup B, B, W)
  BY DEF CallsAt, FrameAt
<1>2. Starts({r} \cup B) \cap DOMAIN blocks \subseteq Starts({q} \cup B)
  BY DEF Starts
<1>3. QED
  BY <1>1, <1>2, StartsLess

\* The walk of function f begins, when all is done of those before
\* (Contract.cpp:258-263).
LEMMA FunctionStart ==
  ASSUME Shape, NEW W, NEW P, CallsAt({}, {}, W), NEW f, Node(f),
         NEW q, q.next = f, q.block = NULL
  PROVE  /\ CallsAt({q}, {}, W)
         /\ NoneMissed({}, W, P) =>
              /\ \A n \in W \cup P : Dangling \cap OwnBody({n}) = {}
              /\ NoneMissed({q}, W, P \cup {f})
<1>1. Ahead({}, W) \subseteq {}
  <2>1. Closed(WalkEdges(W), {}) /\ Starts({}) = {}
    BY DEF Closed, Starts
  <2>2. QED
    BY <2>1, AheadLeast DEF Shape
<1>2. CallsAt({q}, {}, W)
  BY DEF CallsAt, FrameAt, Node
<1>3. f \in Ahead({q}, W) /\ f \in DOMAIN blocks
  <2>1. f \in Starts({q}) /\ f \in DOMAIN blocks
    BY DEF Starts, Node
  <2>2. QED
    BY <2>1, AheadFacts DEF Shape
<1>4. ASSUME NoneMissed({}, W, P) PROVE NoneMissed({q}, W, P \cup {f})
  <2>1. Starts({}) = {} /\ W \subseteq W \cup {f} /\ W \subseteq W
    BY DEF Starts
  <2>2. QED
    BY <1>3, <1>4, <2>1, Walkable, StaysAhead
<1>5. QED
  BY <1>1, <1>2, <1>4 DEF NoneMissed

-----------------------------------------------------------------------------
(***************************************************************************)
(* Where a walk is.                                                        *)
(***************************************************************************)
\* The code that the functions return to, unless that is the start of the contract.
ReturnCode == OwnBody({ ExitOf(f) : f \in Functions } \ {0})

\* It leaves no function.
ReturnsEnd == ExitsRecorded /\ \A b \in ReturnCode : ~Leaves(b)

\* When the functions in Q have still to be walked, a block that has left the exit
\* node goes to the exit of a function walked before, which is the first to reach it.
Connected(Q) ==
  \A b \in DOMAIN blocks :
    Leaves(b) /\ blocks[b].dstDefault # NODE_DEADEND =>
      \E f \in Functions \ Q :
        /\ blocks[f].fnAddrHash \in DOMAIN exitNodes
        /\ blocks[b].dstDefault = ExitOf(f)
        /\ ReturnsEnd => /\ b \in OwnBody({f})
                         /\ \A g \in Functions : b \in OwnBody({g}) => f <= g

LEMMA BodyStep ==
  ASSUME IsFiniteSet(DOMAIN blocks), NEW F, NEW b, NEW t \in Successors(b)
  PROVE  /\ b \in Body(F) => t \in Body(F)
         /\ b \in OwnBody(F) /\ ~Leaves(b) => t \in OwnBody(F)
<1>1. b \in Body(F) \/ b \in OwnBody(F) => b \in DOMAIN blocks
  BY BodyFacts
<1> DEFINE e == << b, t >>
<1>2. e[1] = b /\ e[2] = t
  OBVIOUS
<1>3. /\ b \in DOMAIN blocks => e \in AllEdges
      /\ b \in DOMAIN blocks /\ ~Leaves(b) => e \in OwnEdges
  BY EdgeOf DEF AllEdges, OwnEdges
<1> HIDE DEF e
<1>4. Closed(AllEdges, Body(F)) /\ Closed(OwnEdges, OwnBody(F))
  BY BodyFacts
<1>5. QED
  BY <1>1, <1>2, <1>3, <1>4 DEF Closed

LEMMA BodyWalkClosed ==
  ASSUME Shape, NEW F
  PROVE  WalkClosed(Body(F))
<1> SUFFICES ASSUME NEW b \in Body(F), b \in DOMAIN blocks,
                    NEW t, \/ blocks[b].dstDefault = t /\ Node(t)
                           \/ blocks[b].dstJUMPI = t /\ t # 0
             PROVE  t \in Body(F)
  BY DEF WalkClosed
<1>1. t \in Successors(b)
  BY Steered
<1>2. QED
  BY <1>1, BodyStep DEF Shape

\* While the code returned to leaves nothing, a walk stays in the code of its
\* function and in that.
LEMMA OwnWalkClosed ==
  ASSUME Shape, NEW Q, Connected(Q), ReturnsEnd, NEW F
  PROVE  WalkClosed(OwnBody(F) \cup ReturnCode)
<1> SUFFICES ASSUME NEW b \in DOMAIN blocks, b \in OwnBody(F) \cup ReturnCode,
                    NEW t, \/ blocks[b].dstDefault = t /\ Node(t)
                           \/ blocks[b].dstJUMPI = t /\ t # 0
             PROVE  t \in OwnBody(F) \cup ReturnCode
  BY DEF WalkClosed
<1>1. CASE ~Leaves(b)
  <2>1. t \in Successors(b)
    BY Steered
  <2>2. QED
    BY <1>1, <2>1, BodyStep DEF Shape, ReturnCode
<1>2. CASE Leaves(b)
  <2>1. blocks[b].dstJUMPI = 0
    BY <1>2 DEF Shape, ShapeOf
  <2>2. blocks[b].dstDefault = t /\ Node(t)
    BY <2>1
  <2>3. PICK f \in Functions \ Q : t = ExitOf(f)
    BY <1>2, <2>2 DEF Connected, Node
  <2>4. t \in { ExitOf(g) : g \in Functions } \ {0} /\ t \in DOMAIN blocks
    BY <2>2, <2>3 DEF Node
  <2>5. QED
    BY <2>4, BodyFacts DEF Shape, ReturnCode
<1>3. QED
  BY <1>1, <1>2

LEMMA NullIsNoNode ==
  ASSUME Shape
  PROVE  ~Node(NULL)
  BY NodeAssumption DEF Shape, Node

\* A call that takes the place of call r, or is made by it, is where r leads.
LEMMA PlaceOn ==
  ASSUME Shape, NEW Z, WalkClosed(Z), NEW r, NEW B, PlacedIn({r} \cup B, Z),
         Node(r.next),
         NEW q, \/ q.next = blocks[r.next].dstDefault
                \/ q.next = blocks[r.next].dstJUMPI /\ q.next # 0
                \/ q.next = r.next,
         q.block \in {NULL, r.next}
  PROVE  PlacedIn({q} \cup B, Z)
<1>1. r.next \in Z /\ r.next \in DOMAIN blocks
  BY DEF PlacedIn, Node
<1>2. Node(q.next) => q.next \in Z
  BY <1>1 DEF WalkClosed
<1>3. Node(q.block) => q.block \in Z
  BY <1>1, NullIsNoNode
<1>4. QED
  BY <1>2, <1>3 DEF PlacedIn

LEMMA PlaceLess ==
  ASSUME NEW Z, NEW F, NEW G, PlacedIn(F, Z), G \subseteq F
  PROVE  PlacedIn(G, Z)
  BY DEF PlacedIn

-----------------------------------------------------------------------------
(***************************************************************************)
(* What the walks leave of the graph.                                      *)
(***************************************************************************)
\* Nothing but the default successors of blocks that leave changes.
Kept ==
  /\ UNCHANGED << listing, codeSize, exitNodes >> /\ DOMAIN blocks' = DOMAIN blocks
  /\ \A b \in DOMAIN blocks :
       /\ blocks'[b].fnAddrHash = blocks[b].fnAddrHash
       /\ blocks'[b].dstJUMPI = blocks[b].dstJUMPI
       /\ blocks'[b].nextJUMPI = blocks[b].nextJUMPI
       /\ ~Leaves(b) => /\ blocks'[b].dstDefault = blocks[b].dstDefault
                        /\ blocks'[b].nextDefault = blocks[b].nextDefault

LEMMA CodeSame ==
  ASSUME UNCHANGED << listing, codeSize >>, DOMAIN blocks' = DOMAIN blocks
  PROVE  /\ \A b : Leaves(b)' <=> Leaves(b)
         /\ \A o : Node(o)' <=> Node(o)
         /\ CompilerMade' <=> CompilerMade
<1>1. \A b : Extent(b)' = Extent(b)
  BY TargetsSame DEF Extent
<1>2. \A b : Leaves(b)' <=> Leaves(b)
  BY <1>1, TargetsSame DEF Leaves
<1>3. CompilerMade' <=> CompilerMade
  BY TargetsSame DEF CompilerMade
<1>4. QED
  BY <1>2, <1>3 DEF Node

LEMMA KeptSame ==
  ASSUME Kept
  PROVE  /\ Functions' = Functions /\ (ExitsRecorded' <=> ExitsRecorded)
         /\ \A f \in Functions : ExitOf(f)' = ExitOf(f)
         /\ \A F : OwnBody(F)' = OwnBody(F)
         /\ ReturnsEnd' <=> ReturnsEnd
         /\ ReturnCode' = ReturnCode
<1>1. /\ \A b : Leaves(b)' <=> Leaves(b)
      /\ DOMAIN blocks' = DOMAIN blocks /\ exitNodes' = exitNodes
  BY CodeSame DEF Kept
<1>2. Functions' = Functions
  BY DEF Kept, Functions
<1>3. \A f \in Functions : ExitOf(f)' = ExitOf(f)
  BY DEF Kept, Functions, ExitOf
<1>4. ExitsRecorded' <=> ExitsRecorded
  BY <1>2 DEF Kept, Functions, ExitsRecorded
<1>5. \A b \in DOMAIN blocks : ~Leaves(b) => Successors(b)' = Successors(b)
  BY DEF Kept, Successors
<1>6. OwnEdges' = OwnEdges
  <2>1. \A e : e \in OwnEdges' <=> \E b \in { a \in DOMAIN blocks' : ~Leaves(a)' } :
                                     \E t \in Successors(b)' : e = << b, t >>
    BY DEF OwnEdges, EdgesFrom
  <2>2. \A e : e \in OwnEdges <=> \E b \in { a \in DOMAIN blocks : ~Leaves(a) } :
                                     \E t \in Successors(b) : e = << b, t >>
    BY DEF OwnEdges, EdgesFrom
  <2>3. QED
    BY <1>1, <1>5, <2>1, <2>2
<1>7. \A F : OwnBody(F)' = OwnBody(F)
  <2>1. \A F : OwnBody(F) = Reached(DOMAIN blocks, OwnEdges, F)
    BY DEF OwnBody, OwnEdges
  <2>2. \A F : OwnBody(F)' = Reached(DOMAIN blocks', OwnEdges', F)
    BY DEF OwnBody, OwnEdges
  <2>3. QED
    BY <1>1, <1>6, <2>1, <2>2
<1>8. ReturnCode' = ReturnCode
  <2> DEFINE X == { ExitOf(f) : f \in Functions } \ {0}
  <2>1. X' = X
    BY <1>2, <1>3
  <2>2. ReturnCode = Reached(DOMAIN blocks, OwnEdges, X)
    BY DEF ReturnCode, OwnBody, OwnEdges
  <2>3. ReturnCode' = Reached(DOMAIN blocks', OwnEdges', X')
    BY DEF ReturnCode, OwnBody, OwnEdges
  <2> HIDE DEF X
  <2>4. QED
    BY <1>1, <1>6, <2>1, <2>2, <2>3
<1>9. ReturnsEnd' <=> ReturnsEnd
  BY <1>1, <1>4, <1>8 DEF ReturnsEnd
<1>10. QED
  BY <1>2, <1>3, <1>4, <1>7, <1>8, <1>9

-----------------------------------------------------------------------------
(***************************************************************************)
(* The invariant of the walks over code as compilers write it.             *)
(***************************************************************************)
InOrder(Q) == \A f \in Functions \ Q, g \in Q : f < g

\* The calls F walk function f, the last of those that are not in Q: the ones before
\* are through, so that no block of theirs goes to the exit node any more.
WalkOf(f, F, Q, h) ==
  /\ blocks[f].fnAddrHash = h
  /\ \A g \in Functions \ Q : g <= f
  /\ ExitsRecorded => \A g \in (Functions \ Q) \ {f} : Dangling \cap OwnBody({g}) = {}
  /\ PlacedIn(F, Body({f}))
  /\ ReturnsEnd => PlacedIn(F, OwnBody({f}) \cup ReturnCode)

\* The calls F, of which those in B wait; the marked blocks W; the functions Q to be
\* walked; and the selector h.
Walks(F, B, W, Q, h) ==
  /\ Q \subseteq Functions /\ CallsAt(F, B, W) /\ InOrder(Q) /\ Connected(Q)
  /\ ExitsRecorded => NoneMissed(F, W, Functions \ Q)
  /\ F # {} => \E f \in Functions \ Q : WalkOf(f, F, Q, h)

WalkInv ==
  /\ Shape
  /\ \E F, B, W, Q, h :
       /\ F = FramesOf(stack) /\ B = BelowOf(stack)
       /\ W = walked /\ Q = pending /\ h = hash
       /\ Walks(F, B, W, Q, h)

LEMMA ShapeSame ==
  ASSUME UNCHANGED vars
  PROVE  Kept /\ (Shape' <=> Shape)
<1>1. Kept /\ blocks' = blocks
  BY DEF vars, Kept
<1>2. \A b : Leaves(b)' <=> Leaves(b)
  BY <1>1, CodeSame DEF Kept
<1>3. \A o : Node(o)' <=> Node(o)
  BY <1>1, CodeSame DEF Kept
<1>4. \A b : ShapeOf(b)' <=> ShapeOf(b)
  BY <1>1, <1>2, <1>3 DEF ShapeOf, Leads
<1>5. Functions' = Functions
  BY <1>1, KeptSame
<1>6. QED
  BY <1>1, <1>3, <1>4, <1>5 DEF Shape

LEMMA GraphSame ==
  ASSUME UNCHANGED vars
  PROVE  /\ \A F : Body(F)' = Body(F) /\ OwnBody(F)' = OwnBody(F)
         /\ Dangling' = Dangling
         /\ \A F, W : Ahead(F, W)' = Ahead(F, W)
<1>1. Kept /\ blocks' = blocks
  BY DEF vars, Kept
<1>2. AllEdges' = AllEdges
  BY <1>1 DEF AllEdges, EdgesFrom, Successors
<1>3. \A F : Body(F)' = Body(F)
  <2>1. \A F : Body(F) = Reached(DOMAIN blocks, AllEdges, F)
    BY DEF Body, AllEdges
  <2>2. \A F : Body(F)' = Reached(DOMAIN blocks', AllEdges', F)
    BY DEF Body, AllEdges
  <2>3. QED
    BY <1>1, <1>2, <2>1, <2>2
<1>4. \A W : WalkEdges(W)' = WalkEdges(W)
  BY <1>1 DEF WalkEdges, Node
<1>5. \A F, W : Ahead(F, W)' = Ahead(F, W)
  <2>1. \A F : Starts(F)' = Starts(F)
    BY DEF Starts
  <2>2. \A F, W : Ahead(F, W)' = Reached(DOMAIN blocks', WalkEdges(W)', Starts(F)')
    BY DEF Ahead
  <2>3. \A F, W : Ahead(F, W) = Reached(DOMAIN blocks, WalkEdges(W), Starts(F))
    BY DEF Ahead
  <2>4. QED
    BY <1>1, <1>4, <2>1, <2>2, <2>3
<1>6. QED
  BY <1>1, <1>3, <1>5, KeptSame DEF Dangling

LEMMA WalksSame ==
  ASSUME UNCHANGED vars
  PROVE  \A F, B, W, Q, h : Walks(F, B, W, Q, h)' <=> Walks(F, B, W, Q, h)
<1>1. /\ Kept /\ blocks' = blocks /\ exitNodes' = exitNodes
      /\ \A b : Leaves(b)' <=> Leaves(b)
      /\ \A o : Node(o)' <=> Node(o)
  BY ShapeSame, CodeSame DEF vars, Kept
<1>2. \A F, B, W : CallsAt(F, B, W)' <=> CallsAt(F, B, W)
  <2>1. \A r : FrameAt(r)' <=> FrameAt(r)
    BY <1>1 DEF FrameAt
  <2>2. QED
    BY <1>1, <2>1 DEF CallsAt
<1>3. /\ Functions' = Functions /\ (ExitsRecorded' <=> ExitsRecorded)
      /\ \A f \in Functions : ExitOf(f)' = ExitOf(f)
      /\ (ReturnsEnd' <=> ReturnsEnd) /\ ReturnCode' = ReturnCode
  BY <1>1, KeptSame
<1>4. /\ \A F : Body(F)' = Body(F) /\ OwnBody(F)' = OwnBody(F)
      /\ Dangling' = Dangling
      /\ \A F, W : Ahead(F, W)' = Ahead(F, W)
  BY GraphSame
<1>5. \A Q : InOrder(Q)' <=> InOrder(Q)
  BY <1>3 DEF InOrder
<1>6. \A Q : Connected(Q)' <=> Connected(Q)
  <2>1. \A f \in Functions : blocks'[f].fnAddrHash = blocks[f].fnAddrHash
    BY <1>1
  <2>2. QED
    BY <1>1, <1>3, <1>4, <2>1 DEF Connected
<1>7. \A F, W, P : NoneMissed(F, W, P)' <=> NoneMissed(F, W, P)
  BY <1>4 DEF NoneMissed
<1>8. \A F, Z : PlacedIn(F, Z)' <=> PlacedIn(F, Z)
  BY <1>1 DEF PlacedIn
<1>9. \A f, F, Q, h : WalkOf(f, F, Q, h)' <=> WalkOf(f, F, Q, h)
  BY <1>1, <1>3, <1>4, <1>8 DEF WalkOf
<1>10. QED
  BY <1>2, <1>3, <1>5, <1>6, <1>7, <1>9 DEF Walks

\* Calls that have gone on where those before them were keep the invariant.
LEMMA WalksOn ==
  ASSUME NEW F, NEW B, NEW W, NEW Q, NEW h, Shape, Walks(F, B, W, Q, h), F # {},
         NEW G, NEW C, NEW V, CallsAt(G, C, V),
         NoneMissed(F, W, Functions \ Q) => NoneMissed(G, V, Functions \ Q),
         \A Z : WalkClosed(Z) /\ PlacedIn(F, Z) => PlacedIn(G, Z)
  PROVE  Walks(G, C, V, Q, h)
<1>1. PICK f \in Functions \ Q : WalkOf(f, F, Q, h)
  BY DEF Walks
<1>2. PlacedIn(G, Body({f}))
  BY <1>1, BodyWalkClosed DEF WalkOf
<1>3. ReturnsEnd => PlacedIn(G, OwnBody({f}) \cup ReturnCode)
  BY <1>1, OwnWalkClosed DEF WalkOf, Walks
<1>4. WalkOf(f, G, Q, h)
  BY <1>1, <1>2, <1>3 DEF WalkOf
<1>5. QED
  BY <1>4 DEF Walks

\* What the calls of the stack are.
LEMMA StackSets ==
  ASSUME CInv, stack # << >>
  PROVE  /\ Top \in WalkFrame /\ FramesOf(stack) = {Top} \cup BelowOf(stack)
         /\ FramesOf(Tail(stack)) = BelowOf(stack)
         /\ BelowOf(Tail(stack)) \subseteq BelowOf(stack)
<1>1. stack \in Seq(WalkFrame) /\ Top \in WalkFrame
  BY TopFrame DEF CInv
<1>2. QED
  BY <1>1, CallSets DEF Top

LEMMA ToWalkInv ==
  ASSUME WalkInv, UNCHANGED vars,
         NEW F, NEW B, NEW W, NEW Q, NEW h,
         F = FramesOf(stack'), B = BelowOf(stack'), W = walked', Q = pending', h = hash',
         Walks(F, B, W, Q, h)
  PROVE  WalkInv'
<1>1. Shape' /\ Walks(F, B, W, Q, h)'
  BY ShapeSame, WalksSame DEF WalkInv
<1>2. QED
  BY <1>1 DEF WalkInv

LEMMA WalkNow ==
  ASSUME CInv, WalkInv, stack # << >>, NEW B, B = BelowOf(stack)
  PROVE  /\ Shape /\ Walks({Top} \cup B, B, walked, pending, hash)
         /\ CallsAt({Top} \cup B, B, walked)
         /\ FramesOf(stack) = {Top} \cup B
  BY StackSets DEF WalkInv, Walks

\* The calls F of the stack give way to G, which have gone on.
LEMMA WalkGoesOn ==
  ASSUME CInv, WalkInv, stack # << >>, UNCHANGED << vars, pending, hash >>,
         NEW B, B = BelowOf(stack),
         NEW G, G = FramesOf(stack'), NEW C, C = BelowOf(stack'),
         NEW V, V = walked', CallsAt(G, C, V),
         NoneMissed({Top} \cup B, walked, Functions \ pending) =>
           NoneMissed(G, V, Functions \ pending),
         \A Z : WalkClosed(Z) /\ PlacedIn({Top} \cup B, Z) => PlacedIn(G, Z)
  PROVE  WalkInv'
<1> DEFINE F == {Top} \cup B
<1>1. Shape /\ Walks(F, B, walked, pending, hash) /\ F # {}
  BY WalkNow
<1> HIDE DEF F
<1>2. /\ NoneMissed(F, walked, Functions \ pending) => NoneMissed(G, V, Functions \ pending)
      /\ \A Z : WalkClosed(Z) /\ PlacedIn(F, Z) => PlacedIn(G, Z)
  BY DEF F
<1>3. ASSUME NEW W, W = walked, NEW Q, Q = pending, NEW h, h = hash
      PROVE  Walks(G, C, V, Q, h)
  <2>1. Walks(F, B, W, Q, h)
    BY <1>1, <1>3
  <2>2. /\ NoneMissed(F, W, Functions \ Q) => NoneMissed(G, V, Functions \ Q)
        /\ \A Z : WalkClosed(Z) /\ PlacedIn(F, Z) => PlacedIn(G, Z)
    BY <1>2, <1>3
  <2>3. QED
    BY <1>1, <2>1, <2>2, WalksOn
<1>4. Walks(G, C, V, pending, hash) /\ pending' = pending /\ hash' = hash
  BY <1>3
<1>5. ASSUME NEW Q, Q = pending, NEW h, h = hash PROVE WalkInv'
  <2>1. Walks(G, C, V, Q, h) /\ Q = pending' /\ h = hash'
    BY <1>4, <1>5
  <2>2. QED
    BY <2>1, ToWalkInv
<1>6. QED
  BY <1>5

\* No block at the offset, or none behind (Contract.cpp:383-384, 404).
LEMMA ReturnKeeps ==
  ASSUME CInv, WalkInv, UnknownBlock \/ EndOfPath
  PROVE  WalkInv'
<1> DEFINE B == BelowOf(stack)
           B2 == BelowOf(Tail(stack))
<1>1. /\ stack # << >> /\ stack' = Tail(stack) /\ walked' = walked
      /\ UNCHANGED << vars, pending, hash >>
      /\ \/ Top.block = NULL /\ Top.next \notin DOMAIN blocks
         \/ Top.block # NULL /\ Top.next = 0
  BY DEF UnknownBlock, EndOfPath, AtLookup, AtEnd, Return
<1>2. FramesOf(stack') = B /\ BelowOf(stack') = B2 /\ B2 \subseteq B
  BY <1>1, StackSets
<1> HIDE DEF B, B2
<1>3. Shape /\ CallsAt({Top} \cup B, B, walked)
  BY <1>1, WalkNow DEF B
<1>4. ASSUME NEW W, W = walked, NEW P, P = Functions \ pending, NEW r, r = Top
      PROVE  /\ CallsAt(B, B2, W)
             /\ NoneMissed({r} \cup B, W, P) => NoneMissed(B, W, P)
  <2>1. CallsAt({r} \cup B, B, W)
    BY <1>3, <1>4
  <2>2. \/ r.block = NULL /\ r.next \notin DOMAIN blocks
        \/ r.block # NULL /\ r.next = 0
    BY <1>1, <1>4
  <2>3. QED
    BY <1>2, <1>3, <2>1, <2>2, ReturnStep
<1>5. /\ CallsAt(B, B2, walked)
      /\ NoneMissed({Top} \cup B, walked, Functions \ pending) =>
           NoneMissed(B, walked, Functions \ pending)
  BY <1>4
<1>6. \A Z : PlacedIn({Top} \cup B, Z) => PlacedIn(B, Z)
  BY PlaceLess
<1>7. QED
  BY <1>1, <1>2, <1>5, <1>6, WalkGoesOn DEF B

LEMMA TopReplaced ==
  ASSUME CInv, stack # << >>
  PROVE  /\ \A n : \E q : /\ q.next = n /\ q.block = Top.block
                          /\ FramesOf([stack EXCEPT ![1].next = n]) = {q} \cup BelowOf(stack)
                          /\ BelowOf([stack EXCEPT ![1].next = n]) = BelowOf(stack)
         /\ \E q : /\ q.next = Top.next /\ q.block = NULL
                   /\ FramesOf([stack EXCEPT ![1].block = NULL]) = {q} \cup BelowOf(stack)
                   /\ BelowOf([stack EXCEPT ![1].block = NULL]) = BelowOf(stack)
<1>1. stack \in Seq(WalkFrame) /\ Top \in WalkFrame
  BY TopFrame DEF CInv
<1>2. stack[1] = Top
  BY <1>1 DEF Top
<1>3. \A r : /\ FramesOf([stack EXCEPT ![1] = r]) = {r} \cup BelowOf(stack)
             /\ BelowOf([stack EXCEPT ![1] = r]) = BelowOf(stack)
  BY <1>1, CallSets
<1>4. ASSUME NEW n
      PROVE  \E q : /\ q.next = n /\ q.block = Top.block
                    /\ FramesOf([stack EXCEPT ![1].next = n]) = {q} \cup BelowOf(stack)
                    /\ BelowOf([stack EXCEPT ![1].next = n]) = BelowOf(stack)
  <2> DEFINE q == [stack[1] EXCEPT !.next = n]
  <2>1. [stack EXCEPT ![1].next = n] = [stack EXCEPT ![1] = q]
    OBVIOUS
  <2>2. q.next = n /\ q.block = Top.block
    BY <1>1, <1>2 DEF WalkFrame
  <2> HIDE DEF q
  <2>3. QED
    BY <1>3, <2>1, <2>2
<1>5. \E q : /\ q.next = Top.next /\ q.block = NULL
             /\ FramesOf([stack EXCEPT ![1].block = NULL]) = {q} \cup BelowOf(stack)
             /\ BelowOf([stack EXCEPT ![1].block = NULL]) = BelowOf(stack)
  <2> DEFINE q == [stack[1] EXCEPT !.block = NULL]
  <2>1. [stack EXCEPT ![1].block = NULL] = [stack EXCEPT ![1] = q]
    OBVIOUS
  <2>2. q.next = Top.next /\ q.block = NULL
    BY <1>1, <1>2 DEF WalkFrame
  <2> HIDE DEF q
  <2>3. QED
    BY <1>3, <2>1, <2>2
<1>6. QED
  BY <1>4, <1>5

\* A marked block is passed by (Contract.cpp:387).
LEMMA WalkedBeforeKeeps ==
  ASSUME CInv, WalkInv, WalkedBefore
  PROVE  WalkInv'
<1> DEFINE B == BelowOf(stack)
           d == blocks[Top.next].dstDefault
<1>1. /\ stack # << >> /\ stack' = [stack EXCEPT ![1].next = d]
      /\ UNCHANGED << vars, pending, hash >> /\ walked' = walked
      /\ Top.block = NULL /\ Top.next \in walked
  BY DEF WalkedBefore, AtLookup
<1>2. PICK q : /\ q.next = d /\ q.block = NULL
               /\ FramesOf(stack') = {q} \cup B /\ BelowOf(stack') = B
  BY <1>1, TopReplaced
<1> HIDE DEF B
<1>3. Shape /\ CallsAt({Top} \cup B, B, walked) /\ walked \subseteq DOMAIN blocks
  BY <1>1, WalkNow DEF B, CInv, CTypeOK
<1>4. ASSUME NEW W, W = walked, NEW P, P = Functions \ pending, NEW r, r = Top
      PROVE  /\ CallsAt({q} \cup B, B, W)
             /\ NoneMissed({r} \cup B, W, P) => NoneMissed({q} \cup B, W, P)
             /\ \A Z : WalkClosed(Z) /\ PlacedIn({r} \cup B, Z) => PlacedIn({q} \cup B, Z)
  <2>1. CallsAt({r} \cup B, B, W) /\ W \subseteq DOMAIN blocks
    BY <1>3, <1>4
  <2>2. /\ r.block = NULL /\ r.next \in W
        /\ q.next = blocks[r.next].dstDefault /\ q.block = NULL
    BY <1>1, <1>2, <1>4
  <2>3. Node(r.next)
    BY <2>1, <2>2 DEF CallsAt
  <2>4. /\ CallsAt({q} \cup B, B, W)
        /\ NoneMissed({r} \cup B, W, P) => NoneMissed({q} \cup B, W, P)
    BY <1>3, <2>1, <2>2, PassStep
  <2>5. \A Z : WalkClosed(Z) /\ PlacedIn({r} \cup B, Z) => PlacedIn({q} \cup B, Z)
    BY <1>3, <2>2, <2>3, PlaceOn
  <2>6. QED
    BY <2>4, <2>5
<1> HIDE DEF d
<1> DEFINE G == {q} \cup B
<1>5. /\ CallsAt(G, B, walked)
      /\ NoneMissed({Top} \cup B, walked, Functions \ pending) =>
           NoneMissed(G, walked, Functions \ pending)
      /\ \A Z : WalkClosed(Z) /\ PlacedIn({Top} \cup B, Z) => PlacedIn(G, Z)
  BY <1>4
<1>6. G = FramesOf(stack') /\ B = BelowOf(stack')
  BY <1>2
<1> HIDE DEF G
<1>7. QED
  BY <1>1, <1>5, <1>6, WalkGoesOn DEF B

\* The walk goes on behind a block (Contract.cpp:403).
LEMMA WalkOnKeeps ==
  ASSUME CInv, WalkInv, WalkOn
  PROVE  WalkInv'
<1> DEFINE B == BelowOf(stack)
<1>1. /\ stack # << >> /\ stack' = [stack EXCEPT ![1].block = NULL]
      /\ UNCHANGED << vars, pending, hash >> /\ walked' = walked
      /\ Top.block # NULL /\ Top.next \notin {0, NODE_DEADEND}
  BY DEF WalkOn, AtEnd
<1>2. PICK q : /\ q.next = Top.next /\ q.block = NULL
               /\ FramesOf(stack') = {q} \cup B /\ BelowOf(stack') = B
  BY <1>1, TopReplaced
<1> HIDE DEF B
<1>3. Shape /\ CallsAt({Top} \cup B, B, walked)
  BY <1>1, WalkNow DEF B
<1>4. ASSUME NEW W, W = walked, NEW P, P = Functions \ pending, NEW r, r = Top
      PROVE  /\ CallsAt({q} \cup B, B, W)
             /\ NoneMissed({r} \cup B, W, P) => NoneMissed({q} \cup B, W, P)
             /\ \A Z : PlacedIn({r} \cup B, Z) => PlacedIn({q} \cup B, Z)
  <2>1. CallsAt({r} \cup B, B, W) /\ r.next \notin {0, NODE_DEADEND}
        /\ q.next = r.next /\ q.block = NULL
    BY <1>1, <1>2, <1>3, <1>4
  <2>2. /\ CallsAt({q} \cup B, B, W)
        /\ NoneMissed({r} \cup B, W, P) => NoneMissed({q} \cup B, W, P)
    BY <1>3, <2>1, OnStep
  <2>3. \A Z : PlacedIn({r} \cup B, Z) => PlacedIn({q} \cup B, Z)
    BY <1>3, <2>1, NullIsNoNode DEF PlacedIn
  <2>4. QED
    BY <2>2, <2>3
<1> DEFINE G == {q} \cup B
<1>5. /\ CallsAt(G, B, walked)
      /\ NoneMissed({Top} \cup B, walked, Functions \ pending) =>
           NoneMissed(G, walked, Functions \ pending)
      /\ \A Z : PlacedIn({Top} \cup B, Z) => PlacedIn(G, Z)
  BY <1>4
<1>6. G = FramesOf(stack') /\ B = BelowOf(stack')
  BY <1>2
<1> HIDE DEF G
<1>7. QED
  BY <1>1, <1>5, <1>6, WalkGoesOn DEF B

\* A block without a branch (Contract.cpp:391-394).
LEMMA WalkPlainKeeps ==
  ASSUME CInv, WalkInv, WalkPlain
  PROVE  WalkInv'
<1> DEFINE B == BelowOf(stack)
           q == Caller
<1>1. /\ stack # << >> /\ stack' = << q >> \o Tail(stack)
      /\ UNCHANGED << vars, pending, hash >> /\ walked' = walked
      /\ Top.block = NULL /\ Top.next \in DOMAIN blocks /\ blocks[Top.next].dstJUMPI = 0
  BY DEF WalkPlain, AtNewBlock, AtLookup
<1>2. q.next = blocks[Top.next].dstDefault /\ q.block = Top.next
  BY DEF Caller
<1>3. q \in WalkFrame
  BY <1>1, <1>2 DEF Caller, WalkFrame, CInv, CTypeOK, TypeOK, Block
<1>4. FramesOf(stack') = {q} \cup B /\ BelowOf(stack') = B
  BY <1>1, <1>3, CallSets DEF CInv
<1> HIDE DEF B, q
<1>5. Shape /\ CallsAt({Top} \cup B, B, walked)
  BY <1>1, WalkNow DEF B
<1>6. ASSUME NEW W, W = walked, NEW P, P = Functions \ pending, NEW r, r = Top
      PROVE  /\ CallsAt({q} \cup B, B, W)
             /\ NoneMissed({r} \cup B, W, P) => NoneMissed({q} \cup B, W, P)
             /\ \A Z : WalkClosed(Z) /\ PlacedIn({r} \cup B, Z) => PlacedIn({q} \cup B, Z)
  <2>1. CallsAt({r} \cup B, B, W)
    BY <1>5, <1>6
  <2>2. /\ r.block = NULL /\ r.next \in DOMAIN blocks /\ blocks[r.next].dstJUMPI = 0
        /\ q.next = blocks[r.next].dstDefault /\ q.block = r.next
    BY <1>1, <1>2, <1>6
  <2>3. Node(r.next)
    BY <2>1, <2>2 DEF CallsAt, FrameAt, Node
  <2>4. /\ CallsAt({q} \cup B, B, W)
        /\ NoneMissed({r} \cup B, W, P) => NoneMissed({q} \cup B, W, P)
    BY <1>5, <2>1, <2>2, PlainStep
  <2>5. \A Z : WalkClosed(Z) /\ PlacedIn({r} \cup B, Z) => PlacedIn({q} \cup B, Z)
    BY <1>5, <2>2, <2>3, PlaceOn
  <2>6. QED
    BY <2>4, <2>5
<1> DEFINE G == {q} \cup B
<1>7. /\ CallsAt(G, B, walked)
      /\ NoneMissed({Top} \cup B, walked, Functions \ pending) =>
           NoneMissed(G, walked, Functions \ pending)
      /\ \A Z : WalkClosed(Z) /\ PlacedIn({Top} \cup B, Z) => PlacedIn(G, Z)
  BY <1>6
<1>8. G = FramesOf(stack') /\ B = BelowOf(stack')
  BY <1>4
<1> HIDE DEF G
<1>9. QED
  BY <1>1, <1>7, <1>8, WalkGoesOn DEF B

\* A block with a branch (Contract.cpp:388-390).
LEMMA WalkBranchKeeps ==
  ASSUME CInv, WalkInv, WalkBranch
  PROVE  WalkInv'
<1> DEFINE B == BelowOf(stack)
           q == Caller
           l == [next |-> blocks[Top.next].dstJUMPI, block |-> NULL]
<1>1. /\ stack # << >> /\ stack' = << l, q >> \o Tail(stack)
      /\ UNCHANGED << vars, pending, hash >> /\ walked' = walked \cup {Top.next}
      /\ Top.block = NULL /\ Top.next \in DOMAIN blocks /\ blocks[Top.next].dstJUMPI # 0
  BY DEF WalkBranch, AtNewBlock, AtLookup
<1>2. /\ q.next = blocks[Top.next].dstDefault /\ q.block = Top.next
      /\ l.next = blocks[Top.next].dstJUMPI /\ l.block = NULL
  BY DEF Caller
<1>3. q \in WalkFrame /\ l \in WalkFrame
  BY <1>1, <1>2 DEF Caller, WalkFrame, CInv, CTypeOK, TypeOK, Block
<1>4. FramesOf(stack') = {l, q} \cup B /\ BelowOf(stack') = {q} \cup B
  BY <1>1, <1>3, CallSets DEF CInv
<1> HIDE DEF B, q, l
<1>5. Shape /\ CallsAt({Top} \cup B, B, walked)
  BY <1>1, WalkNow DEF B
<1>6. ASSUME NEW W, W = walked, NEW P, P = Functions \ pending, NEW r, r = Top
      PROVE  /\ CallsAt({l, q} \cup B, {q} \cup B, W \cup {r.next})
             /\ NoneMissed({r} \cup B, W, P) =>
                  NoneMissed({l, q} \cup B, W \cup {r.next}, P)
             /\ \A Z : WalkClosed(Z) /\ PlacedIn({r} \cup B, Z) =>
                         PlacedIn({l, q} \cup B, Z)
  <2>1. CallsAt({r} \cup B, B, W)
    BY <1>5, <1>6
  <2>2. /\ r.block = NULL /\ r.next \in DOMAIN blocks /\ blocks[r.next].dstJUMPI # 0
        /\ q.next = blocks[r.next].dstDefault /\ q.block = r.next
        /\ l.next = blocks[r.next].dstJUMPI /\ l.block = NULL
    BY <1>1, <1>2, <1>6
  <2>3. Node(r.next)
    BY <2>1, <2>2 DEF CallsAt, FrameAt, Node
  <2>4. /\ CallsAt({l, q} \cup B, {q} \cup B, W \cup {r.next})
        /\ NoneMissed({r} \cup B, W, P) => NoneMissed({l, q} \cup B, W \cup {r.next}, P)
    BY <1>5, <2>1, <2>2, BranchStep
  <2>5. ASSUME NEW Z, WalkClosed(Z), PlacedIn({r} \cup B, Z)
        PROVE  PlacedIn({l, q} \cup B, Z)
    <3>1. PlacedIn({q} \cup B, Z)
      BY <1>5, <2>2, <2>3, <2>5, PlaceOn
    <3>2. PlacedIn({l} \cup B, Z)
      BY <1>5, <2>2, <2>3, <2>5, PlaceOn
    <3>3. QED
      BY <3>1, <3>2 DEF PlacedIn
  <2>6. QED
    BY <2>4, <2>5
<1> DEFINE G == {l, q} \cup B
           C == {q} \cup B
           V == walked \cup {Top.next}
<1>7. /\ CallsAt(G, C, V)
      /\ NoneMissed({Top} \cup B, walked, Functions \ pending) =>
           NoneMissed(G, V, Functions \ pending)
      /\ \A Z : WalkClosed(Z) /\ PlacedIn({Top} \cup B, Z) => PlacedIn(G, Z)
  BY <1>6
<1>8. G = FramesOf(stack') /\ C = BelowOf(stack') /\ V = walked'
  BY <1>1, <1>4
<1> HIDE DEF G, C, V
<1>9. QED
  BY <1>1, <1>7, <1>8, WalkGoesOn DEF B

LEMMA FewCalls ==
  /\ FramesOf(<< >>) = {} /\ BelowOf(<< >>) = {}
  /\ \A q : FramesOf(<< q >>) = {q} /\ BelowOf(<< q >>) = {}
<1>1. /\ \A k : k \notin 1 .. 0 /\ k \notin 2 .. 0 /\ k \notin 2 .. 1
      /\ \A k : k \in 1 .. 1 <=> k = 1
  OBVIOUS
<1>2. Len(<< >>) = 0 /\ \A q : Len(<< q >>) = 1 /\ << q >>[1] = q
  OBVIOUS
<1>3. FramesOf(<< >>) = {} /\ BelowOf(<< >>) = {}
  BY <1>1, <1>2 DEF FramesOf, BelowOf, FromOn
<1>4. ASSUME NEW q PROVE FramesOf(<< q >>) = {q} /\ BelowOf(<< q >>) = {}
  BY <1>1, <1>2 DEF FramesOf, BelowOf, FromOn
<1>5. QED
  BY <1>3, <1>4

\* The walk of function f, the first of those still to come (Contract.cpp:258-263).
LEMMA WalksBegin ==
  ASSUME Shape, NEW W, NEW Q, NEW h, Walks({}, {}, W, Q, h),
         NEW f \in Q, \A g \in Q : f <= g, NEW q, q.next = f, q.block = NULL
  PROVE  Walks({q}, {}, W, Q \ {f}, blocks[f].fnAddrHash)
<1> DEFINE P == Functions \ Q
<1>1. /\ Q \subseteq Functions /\ InOrder(Q) /\ Connected(Q) /\ CallsAt({}, {}, W)
      /\ ExitsRecorded => NoneMissed({}, W, P)
      /\ Node(f) /\ \A g \in Functions : g \in Nat
      /\ IsFiniteSet(DOMAIN blocks)
  BY DEF Walks, Shape, Node
<1>2. Functions \ (Q \ {f}) = P \cup {f}
  BY <1>1
<1>3. InOrder(Q \ {f})
  <2> SUFFICES ASSUME NEW g \in P \cup {f}, NEW k \in Q, k # f PROVE g < k
    BY <1>2 DEF InOrder
  <2>1. f < k
    BY <1>1
  <2>2. QED
    BY <1>1, <2>1 DEF InOrder
<1>4. Connected(Q \ {f})
  BY <1>1, <1>2 DEF Connected
<1> HIDE DEF P
<1>5. /\ CallsAt({q}, {}, W)
      /\ NoneMissed({}, W, P) =>
           /\ \A n \in W \cup P : Dangling \cap OwnBody({n}) = {}
           /\ NoneMissed({q}, W, P \cup {f})
  BY <1>1, FunctionStart
<1>6. WalkOf(f, {q}, Q \ {f}, blocks[f].fnAddrHash)
  <2>1. \A g \in P \cup {f} : g <= f
    BY <1>1 DEF InOrder, P
  <2>2. ExitsRecorded => \A g \in (P \cup {f}) \ {f} : Dangling \cap OwnBody({g}) = {}
    BY <1>1, <1>5
  <2>3. f \in Body({f}) /\ f \in OwnBody({f})
    BY <1>1, BodyFacts DEF Node
  <2>4. \A Z : f \in Z => PlacedIn({q}, Z)
    BY NullIsNoNode DEF PlacedIn
  <2>5. QED
    BY <1>2, <2>1, <2>2, <2>3, <2>4 DEF WalkOf
<1>7. f \in Functions \ (Q \ {f}) /\ Q \ {f} \subseteq Functions
  BY <1>1
<1>8. QED
  BY <1>1, <1>2, <1>3, <1>4, <1>5, <1>6, <1>7 DEF Walks

LEMMA WalkFunctionKeeps ==
  ASSUME WalkInv, WalkFunction
  PROVE  WalkInv'
<1>1. PICK f \in pending :
        /\ \A g \in pending : f <= g
        /\ pending' = pending \ {f} /\ hash' = blocks[f].fnAddrHash
        /\ stack' = << [next |-> f, block |-> NULL] >>
  BY DEF WalkFunction
<1>2. stack = << >> /\ UNCHANGED vars /\ walked' = walked
  BY DEF WalkFunction
<1> DEFINE q == [next |-> f, block |-> NULL]
           h == blocks[f].fnAddrHash
<1>3. /\ FramesOf(stack') = {q} /\ BelowOf(stack') = {}
      /\ FramesOf(stack) = {} /\ BelowOf(stack) = {}
  BY <1>1, <1>2, FewCalls
<1>4. q.next = f /\ q.block = NULL
  OBVIOUS
<1> HIDE DEF q
<1>5. Shape /\ Walks({}, {}, walked, pending, hash)
  BY <1>3 DEF WalkInv
<1>6. ASSUME NEW W, W = walked, NEW Q, Q = pending PROVE Walks({q}, {}, W, Q \ {f}, h)
  <2>1. Walks({}, {}, W, Q, hash) /\ f \in Q /\ \A g \in Q : f <= g
    BY <1>1, <1>5, <1>6
  <2>2. ASSUME NEW k, k = hash PROVE Walks({q}, {}, W, Q \ {f}, h)
    <3>1. Walks({}, {}, W, Q, k)
      BY <2>1, <2>2
    <3>2. QED
      BY <1>4, <1>5, <2>1, <3>1, WalksBegin
  <2>3. QED
    BY <2>2
<1>7. h = hash'
  BY <1>1
<1> HIDE DEF h
<1>8. ASSUME NEW W, W = walked, NEW Q, Q = pending PROVE WalkInv'
  <2> DEFINE R == Q \ {f}
             E == {}
             F == {q}
  <2>1. Walks(F, E, W, R, h) /\ W = walked' /\ R = pending'
        /\ F = FramesOf(stack') /\ E = BelowOf(stack')
    BY <1>1, <1>2, <1>3, <1>6, <1>8
  <2> HIDE DEF R, E, F
  <2>2. QED
    BY <1>2, <1>7, <2>1, ToWalkInv
<1>9. QED
  BY <1>8

-----------------------------------------------------------------------------
(***************************************************************************)
(* A block that leaves gets its successor (Contract.cpp:395-401).          *)
(***************************************************************************)
\* Block c goes to the exit node, and learns the exit of selector h if there is one.
Resolves(c, h) ==
  /\ Node(c) /\ blocks[c].dstDefault = NODE_DEADEND /\ NODE_DEADEND \in DOMAIN blocks
  /\ UNCHANGED << listing, codeSize, exitNodes >>
  /\ \E d, n :
       /\ d = IF h \in DOMAIN exitNodes THEN exitNodes[h] ELSE NODE_DEADEND
       /\ n = GetBlockAt(blocks, d)
       /\ Patched(blocks, blocks', c, d, n)

LEMMA ResolveFields ==
  ASSUME Shape, NEW c, NEW h, Resolves(c, h)
  PROVE  /\ DOMAIN blocks' = DOMAIN blocks /\ c \in Dangling /\ Leaves(c)
         /\ blocks[c].dstJUMPI = 0 /\ blocks'[c].dstJUMPI = 0
         /\ blocks[c].nextJUMPI = NULL /\ blocks[c].nextDefault = NODE_DEADEND
         /\ blocks'[c].dstDefault =
              IF h \in DOMAIN exitNodes THEN exitNodes[h] ELSE NODE_DEADEND
         /\ blocks'[c].nextDefault = GetBlockAt(blocks, blocks'[c].dstDefault)
         /\ blocks'[c].nextJUMPI = NULL
         /\ \A b \in DOMAIN blocks : blocks'[b].fnAddrHash = blocks[b].fnAddrHash
         /\ \A b \in DOMAIN blocks \ {c} :
              /\ blocks'[b].nextJUMPI = blocks[b].nextJUMPI
              /\ blocks'[b].dstJUMPI = blocks[b].dstJUMPI
              /\ blocks'[b].dstDefault = blocks[b].dstDefault
              /\ blocks'[b].nextDefault = blocks[b].nextDefault
<1>1. c \in DOMAIN blocks /\ c \in Dangling
  BY DEF Resolves, Node, Dangling
<1>2. Leaves(c) /\ blocks[c].dstJUMPI = 0
  BY <1>1, DanglingLeaves
<1>3. blocks[c].nextJUMPI = NULL /\ blocks[c].nextDefault = NODE_DEADEND
  <2>1. ShapeOf(c)
    BY <1>1 DEF Shape
  <2>2. QED
    BY <1>2, <2>1 DEF ShapeOf, Leads, Node, GetBlockAt, Resolves
<1>4. PICK d, n :
         /\ d = IF h \in DOMAIN exitNodes THEN exitNodes[h] ELSE NODE_DEADEND
         /\ n = GetBlockAt(blocks, d)
         /\ Patched(blocks, blocks', c, d, n)
  BY DEF Resolves
<1>5. QED
  BY <1>1, <1>2, <1>3, <1>4 DEF Patched

LEMMA ResolveKept ==
  ASSUME Shape, NEW c, NEW h, Resolves(c, h)
  PROVE  Kept /\ Shape'
<1>1. Kept
  <2>1. \A b \in DOMAIN blocks : ~Leaves(b) => b # c
    BY ResolveFields
  <2>2. \A b \in DOMAIN blocks :
          /\ blocks'[b].dstJUMPI = blocks[b].dstJUMPI
          /\ blocks'[b].nextJUMPI = blocks[b].nextJUMPI
    BY ResolveFields
  <2>3. QED
    BY <2>1, <2>2, ResolveFields DEF Kept, Resolves
<1>2. /\ \A b : Leaves(b)' <=> Leaves(b)
      /\ \A o : Node(o)' <=> Node(o)
      /\ Functions' = Functions
  BY <1>1, CodeSame, KeptSame DEF Kept
<1>3. ASSUME NEW b \in DOMAIN blocks PROVE ShapeOf(b)'
  <2>1. CASE b = c
    BY <1>2, <2>1, ResolveFields DEF ShapeOf, Leads, GetBlockAt
  <2>2. CASE b # c
    <3>1. ShapeOf(b)
      BY DEF Shape
    <3>2. QED
      BY <1>2, <2>2, <3>1, ResolveFields DEF ShapeOf, Leads, GetBlockAt
  <2>3. QED
    BY <2>1, <2>2
<1>4. QED
  BY <1>1, <1>2, <1>3, ResolveFields DEF Shape

\* No less is reached than before, and of the blocks without an exit the one that
\* got it has gone.
LEMMA ResolveReach ==
  ASSUME Shape, NEW c, NEW h, Resolves(c, h)
  PROVE  /\ \A F : Body(F) \subseteq Body(F)'
         /\ Dangling' \subseteq Dangling
         /\ h \in DOMAIN exitNodes /\ ExitsInCode => c \notin Dangling'
<1>1. AllEdges \subseteq AllEdges'
  <2>1. \A b \in DOMAIN blocks : Successors(b) \subseteq Successors(b)'
    <3> SUFFICES ASSUME NEW b \in DOMAIN blocks, NEW t \in Successors(b)
                 PROVE  t \in Successors(b)'
      OBVIOUS
    <3>1. b # c
      BY ResolveFields, NodeAssumption DEF Successors, Shape
    <3>2. QED
      BY <3>1, ResolveFields DEF Successors
  <2>2. \A e : e \in AllEdges' <=> \E b \in DOMAIN blocks' :
                                      \E t \in Successors(b)' : e = << b, t >>
    BY DEF AllEdges, EdgesFrom
  <2>3. \A e : e \in AllEdges <=> \E b \in DOMAIN blocks :
                                      \E t \in Successors(b) : e = << b, t >>
    BY DEF AllEdges, EdgesFrom
  <2>4. QED
    BY <2>1, <2>2, <2>3, ResolveFields
<1>2. \A e \in AllEdges' : e[2] \in DOMAIN blocks
  <2>1. \A e : e \in AllEdges' <=> \E b \in DOMAIN blocks' :
                                      \E t \in Successors(b)' : e = << b, t >>
    BY DEF AllEdges, EdgesFrom
  <2>2. \A b : Successors(b)' \subseteq DOMAIN blocks
    BY ResolveFields DEF Successors
  <2>3. QED
    BY <2>1, <2>2
<1>3. \A F : Body(F) \subseteq Body(F)'
  <2>1. \A F : Body(F) = Reached(DOMAIN blocks, AllEdges, F)
    BY DEF Body, AllEdges
  <2>2. \A F : Body(F)' = Reached(DOMAIN blocks', AllEdges', F)
    BY DEF Body, AllEdges
  <2>3. \A F : Reached(DOMAIN blocks, AllEdges, F) \subseteq Reached(DOMAIN blocks, AllEdges', F)
    BY <1>1, <1>2, ReachedGrows DEF Shape
  <2>4. QED
    BY <2>1, <2>2, <2>3, ResolveFields
<1>4. Dangling' \subseteq Dangling
  BY ResolveFields DEF Dangling
<1>5. h \in DOMAIN exitNodes /\ ExitsInCode => c \notin Dangling'
  BY ResolveFields DEF Dangling, ExitsInCode
<1>6. QED
  BY <1>3, <1>4, <1>5

LEMMA ResolveCalls ==
  ASSUME Shape, NEW c, NEW h, Resolves(c, h), NEW r, NEW B, NEW B2, B2 \subseteq B,
         NEW W, CallsAt({r} \cup B, B, W)
  PROVE  CallsAt(B, B2, W)'
<1>1. \A o : Node(o)' <=> Node(o)
  BY ResolveKept, CodeSame DEF Kept
<1>2. \A b \in DOMAIN blocks : blocks'[b].dstJUMPI = blocks[b].dstJUMPI
  BY ResolveFields
<1>3. ASSUME NEW q \in B
      PROVE  /\ q.block # NULL /\ blocks'[q.block].dstJUMPI # 0
             /\ Node(q.block)' /\ q.next = blocks'[q.block].dstDefault
  <2>1. /\ q.block # NULL /\ blocks[q.block].dstJUMPI # 0 /\ Node(q.block)
        /\ q.next = blocks[q.block].dstDefault
    BY DEF CallsAt, FrameAt
  <2>2. q.block \in DOMAIN blocks /\ q.block # c
    BY <2>1, ResolveFields DEF Node
  <2>3. QED
    BY <1>1, <2>1, <2>2, ResolveFields
<1>4. \A b \in W : Node(b)' /\ blocks'[b].dstJUMPI # 0
  BY <1>1, <1>2 DEF CallsAt, Node
<1>5. QED
  BY <1>3, <1>4 DEF CallsAt, FrameAt

\* The block that has got its exit was all that its call had still to come to.
LEMMA ResolveMissesNone ==
  ASSUME Shape, NEW c, NEW h, Resolves(c, h), h \in DOMAIN exitNodes, ExitsInCode,
         NEW r, r.next = NODE_DEADEND, r.block = c, NEW B, NEW W, NEW P,
         NoneMissed({r} \cup B, W, P)
  PROVE  NoneMissed(B, W, P)'
<1> DEFINE N == WalkEdges(W)'
           A == Reached(DOMAIN blocks, N, Starts(B))
           T == A \cup {c}
<1>1. IsFiniteSet(DOMAIN blocks) /\ DOMAIN blocks' = DOMAIN blocks
  BY ResolveFields DEF Shape
<1>2. \A o : Node(o)' <=> Node(o)
  BY ResolveKept, CodeSame DEF Kept
<1>3. Ahead(B, W)' = A
  <2>1. Starts(B)' = Starts(B)
    BY DEF Starts
  <2>2. Ahead(B, W)' = Reached(DOMAIN blocks', WalkEdges(W)', Starts(B)')
    BY DEF Ahead
  <2>3. QED
    BY <1>1, <2>1, <2>2
<1>4. /\ \A e \in N : e[2] \in DOMAIN blocks
      /\ \A e \in WalkEdges(W) : e[1] # c => e \in N
      /\ \A e \in WalkEdges(W) : e[1] # c
  <2>1. \A e : e \in N <=>
          /\ e \in (DOMAIN blocks) \X (DOMAIN blocks)
          /\ \/ e[2] = blocks'[e[1]].dstDefault /\ Node(e[2])
             \/ e[2] = blocks'[e[1]].dstJUMPI /\ e[2] # 0 /\ e[1] \notin W
    BY <1>1, <1>2 DEF WalkEdges
  <2>2. \A e : e \in WalkEdges(W) <=>
          /\ e \in (DOMAIN blocks) \X (DOMAIN blocks)
          /\ \/ e[2] = blocks[e[1]].dstDefault /\ Node(e[2])
             \/ e[2] = blocks[e[1]].dstJUMPI /\ e[2] # 0 /\ e[1] \notin W
    BY DEF WalkEdges
  <2>3. \A e \in (DOMAIN blocks) \X (DOMAIN blocks) :
          e[1] \in DOMAIN blocks /\ e[2] \in DOMAIN blocks
    OBVIOUS
  <2> HIDE DEF N
  <2>4. \A e \in WalkEdges(W) : e[1] # c
    BY <2>2, ResolveFields DEF Resolves, Node
  <2>5. ASSUME NEW e \in WalkEdges(W), e[1] # c PROVE e \in N
    <3>1. /\ blocks'[e[1]].dstDefault = blocks[e[1]].dstDefault
          /\ blocks'[e[1]].dstJUMPI = blocks[e[1]].dstJUMPI
      BY <2>2, <2>3, <2>5, ResolveFields
    <3>2. QED
      BY <2>1, <2>2, <2>5, <3>1
  <2>6. QED
    BY <2>1, <2>3, <2>4, <2>5
<1> HIDE DEF N
<1>5. Closed(N, A) /\ Starts(B) \cap DOMAIN blocks \subseteq A
  BY <1>1, <1>4, ReachedClosed
<1> HIDE DEF A
<1>6. Ahead({r} \cup B, W) \subseteq T
  <2>1. Starts({r} \cup B) \subseteq Starts(B) \cup {c}
    BY NodeAssumption DEF Starts
  <2>2. Closed(WalkEdges(W), T)
    BY <1>4, <1>5 DEF Closed
  <2>3. Starts({r} \cup B) \cap DOMAIN blocks \subseteq T
    BY <1>5, <2>1
  <2> HIDE DEF T
  <2>4. QED
    BY <1>1, <2>2, <2>3, AheadLeast
<1>7. /\ Dangling' \subseteq Dangling /\ c \notin Dangling'
      /\ \A F : OwnBody(F)' = OwnBody(F)
  BY ResolveReach, ResolveKept, KeptSame
<1>8. \A m \in W \cup P : Dangling' \cap OwnBody({m})' \subseteq A
  BY <1>6, <1>7 DEF NoneMissed
<1>9. QED
  BY <1>3, <1>8 DEF NoneMissed

\* The block is the function's own, and no function before it has it.
LEMMA ResolvedBlockOwned ==
  ASSUME Shape, NEW c, NEW h, Resolves(c, h), NEW r, r.block = c,
         NEW B, NEW Q, NEW f \in Functions \ Q, WalkOf(f, {r} \cup B, Q, h),
         InOrder(Q)
  PROVE  ReturnsEnd => /\ c \in OwnBody({f})
                       /\ \A g \in Functions : c \in OwnBody({g}) => f <= g
<1>1. /\ ReturnsEnd => PlacedIn({r} \cup B, OwnBody({f}) \cup ReturnCode)
      /\ ExitsRecorded => \A g \in (Functions \ Q) \ {f} : Dangling \cap OwnBody({g}) = {}
  BY DEF WalkOf
<1>2. Node(c) /\ c \in Dangling /\ Leaves(c)
  BY ResolveFields DEF Resolves
<1>3. \A Z : PlacedIn({r} \cup B, Z) => c \in Z
  BY <1>2 DEF PlacedIn
<1>4. ASSUME ReturnsEnd PROVE c \in OwnBody({f})
  BY <1>1, <1>2, <1>3, <1>4 DEF ReturnsEnd
<1>5. ASSUME ReturnsEnd, NEW g \in Functions, c \in OwnBody({g}) PROVE f <= g
  <2>1. f \in Nat /\ g \in Nat
    BY DEF Shape, Node
  <2>2. CASE g \in Q
    BY <2>1, <2>2 DEF InOrder
  <2>3. CASE g \notin Q
    BY <1>1, <1>2, <1>5, <2>1, <2>3 DEF ReturnsEnd
  <2>4. QED
    BY <2>2, <2>3
<1>6. QED
  BY <1>4, <1>5

LEMMA ResolvedIn ==
  ASSUME Shape, NEW c, NEW h, Resolves(c, h), NEW r, r.block = c,
         NEW B, NEW W, NEW Q, Walks({r} \cup B, B, W, Q, h)
  PROVE  \E f \in Functions : blocks[f].fnAddrHash = h /\ c \in Body({f})
<1>1. PICK f \in Functions \ Q : WalkOf(f, {r} \cup B, Q, h)
  BY DEF Walks
<1>2. blocks[f].fnAddrHash = h /\ PlacedIn({r} \cup B, Body({f}))
  BY <1>1 DEF WalkOf
<1>3. c \in Body({f})
  BY <1>2 DEF PlacedIn, Resolves
<1>4. QED
  BY <1>2, <1>3

LEMMA ResolveConnects ==
  ASSUME Shape, NEW c, NEW h, Resolves(c, h), NEW r, r.block = c,
         NEW B, NEW Q, NEW f \in Functions \ Q, WalkOf(f, {r} \cup B, Q, h),
         InOrder(Q), Connected(Q)
  PROVE  Connected(Q)'
<1>1. /\ \A b : Leaves(b)' <=> Leaves(b)
      /\ Functions' = Functions /\ exitNodes' = exitNodes /\ DOMAIN blocks' = DOMAIN blocks
      /\ \A g \in Functions : ExitOf(g)' = ExitOf(g)
      /\ \A F : OwnBody(F)' = OwnBody(F)
      /\ ReturnsEnd' <=> ReturnsEnd
      /\ \A g \in Functions : blocks'[g].fnAddrHash = blocks[g].fnAddrHash
  BY ResolveKept, CodeSame, KeptSame DEF Kept, Functions
<1>2. ASSUME NEW b \in DOMAIN blocks, Leaves(b), blocks'[b].dstDefault # NODE_DEADEND
      PROVE  \E g \in Functions \ Q :
               /\ blocks[g].fnAddrHash \in DOMAIN exitNodes
               /\ blocks'[b].dstDefault = ExitOf(g)
               /\ ReturnsEnd => /\ b \in OwnBody({g})
                                /\ \A k \in Functions : b \in OwnBody({k}) => g <= k
  <2>1. CASE b = c
    <3>1. h \in DOMAIN exitNodes /\ blocks'[b].dstDefault = exitNodes[h]
      BY <1>2, <2>1, ResolveFields
    <3>2. blocks[f].fnAddrHash = h
      BY DEF WalkOf
    <3>3. /\ blocks[f].fnAddrHash \in DOMAIN exitNodes
          /\ blocks'[b].dstDefault = ExitOf(f)
      BY <3>1, <3>2 DEF ExitOf
    <3>4. ReturnsEnd => /\ b \in OwnBody({f})
                        /\ \A k \in Functions : b \in OwnBody({k}) => f <= k
      BY <2>1, ResolvedBlockOwned
    <3>5. QED
      BY <3>3, <3>4
  <2>2. CASE b # c
    <3>1. blocks'[b].dstDefault = blocks[b].dstDefault
      BY <2>2, ResolveFields
    <3>2. QED
      BY <1>2, <3>1 DEF Connected
  <2>3. QED
    BY <2>1, <2>2
<1>3. QED
  BY <1>1, <1>2 DEF Connected

LEMMA ResolveWalks ==
  ASSUME Shape, NEW c, NEW h, Resolves(c, h), ExitsInCode,
         NEW r, r.next = NODE_DEADEND, r.block = c,
         NEW B, NEW B2, B2 \subseteq B, NEW W, NEW Q,
         Walks({r} \cup B, B, W, Q, h)
  PROVE  Walks(B, B2, W, Q, h)'
<1> DEFINE F == {r} \cup B
<1>1. /\ Q \subseteq Functions /\ CallsAt(F, B, W) /\ InOrder(Q) /\ Connected(Q)
      /\ ExitsRecorded => NoneMissed(F, W, Functions \ Q)
      /\ F # {}
  BY DEF Walks
<1>2. PICK f \in Functions \ Q : WalkOf(f, F, Q, h)
  BY <1>1 DEF Walks
<1>3. /\ Functions' = Functions /\ (ExitsRecorded' <=> ExitsRecorded)
      /\ \A G : OwnBody(G)' = OwnBody(G)
      /\ (ReturnsEnd' <=> ReturnsEnd) /\ ReturnCode' = ReturnCode
      /\ blocks'[f].fnAddrHash = blocks[f].fnAddrHash
      /\ \A o : Node(o)' <=> Node(o)
  BY ResolveKept, KeptSame, CodeSame DEF Kept, Functions
<1>4. CallsAt(B, B2, W)'
  BY <1>1, ResolveCalls
<1>5. Connected(Q)'
  BY <1>1, <1>2, ResolveConnects
<1>6. InOrder(Q)'
  BY <1>1, <1>3 DEF InOrder
<1>7. ASSUME ExitsRecorded PROVE NoneMissed(B, W, Functions \ Q)'
  <2>1. h \in DOMAIN exitNodes
    BY <1>2, <1>7 DEF WalkOf, ExitsRecorded
  <2>2. ASSUME NEW P, P = Functions \ Q PROVE NoneMissed(B, W, P)'
    <3>1. NoneMissed({r} \cup B, W, P)
      BY <1>1, <1>7, <2>2
    <3>2. QED
      BY <2>1, <3>1, ResolveMissesNone
  <2>3. \A m \in W \cup (Functions \ Q) : (Dangling \cap OwnBody({m}) \subseteq Ahead(B, W))'
    BY <2>2 DEF NoneMissed
  <2>4. QED
    BY <1>3, <2>3 DEF NoneMissed
<1>8. WalkOf(f, B, Q, h)'
  <2>1. /\ blocks[f].fnAddrHash = h
        /\ \A g \in Functions \ Q : g <= f
        /\ ExitsRecorded => \A g \in (Functions \ Q) \ {f} : Dangling \cap OwnBody({g}) = {}
        /\ PlacedIn(F, Body({f}))
        /\ ReturnsEnd => PlacedIn(F, OwnBody({f}) \cup ReturnCode)
    BY <1>2 DEF WalkOf
  <2>2. Dangling' \subseteq Dangling /\ \A G : Body(G) \subseteq Body(G)'
    BY ResolveReach
  <2>3. \A Y, Z : PlacedIn(F, Y) /\ Y \subseteq Z =>
          \A q \in B : \A x \in {q.next, q.block} : Node(x)' => x \in Z
    BY <1>3 DEF PlacedIn
  <2>4. PlacedIn(B, Body({f}))'
    BY <2>1, <2>2, <2>3 DEF PlacedIn
  <2>5. ReturnsEnd' => PlacedIn(B, OwnBody({f}) \cup ReturnCode)'
    <3> DEFINE Z == OwnBody({f}) \cup ReturnCode
    <3>1. Z' = Z /\ (ReturnsEnd' => PlacedIn(F, Z))
      BY <1>3, <2>1
    <3> HIDE DEF Z
    <3>2. ReturnsEnd' => \A q \in B : \A x \in {q.next, q.block} : Node(x)' => x \in Z
      BY <2>3, <3>1
    <3>3. ReturnsEnd' => PlacedIn(B, Z)'
      BY <3>1, <3>2 DEF PlacedIn
    <3>4. QED
      BY <3>3 DEF Z
  <2>6. QED
    BY <1>3, <2>1, <2>2, <2>4, <2>5 DEF WalkOf
<1>9. QED
  BY <1>1, <1>2, <1>3, <1>4, <1>5, <1>6, <1>7, <1>8 DEF Walks

LEMMA ToResolves ==
  ASSUME CInv, WalkInv, ResolveExit, NEW c, c = Top.block, NEW h, h = hash
  PROVE  Resolves(c, h) /\ Top.next = NODE_DEADEND /\ stack # << >> /\ ExitsInCode
         /\ stack' = Tail(stack) /\ UNCHANGED << pending, hash, walked >>
<1> DEFINE d == IF hash \in DOMAIN exitNodes THEN exitNodes[hash]
                                             ELSE blocks[Top.block].dstDefault
           n == GetBlockAt(blocks, d)
<1>1. /\ phase = "connect" /\ stack # << >> /\ c # NULL /\ Top.next = NODE_DEADEND
      /\ blocks' = [blocks EXCEPT ![c].dstDefault = d, ![c].nextDefault = n]
      /\ stack' = Tail(stack)
      /\ UNCHANGED << listing, codeSize, instIndex, basicBlockOffset, exitNodes,
                      phase, pending, hash, walked >>
  BY DEF ResolveExit, AtEnd, Return
<1>2. Typed(blocks) /\ TypeOK /\ Open /\ NODE_DEADEND \in DOMAIN blocks
  BY <1>1 DEF CInv, CTypeOK, TypeOK, Typed
<1>3. FrameAt(Top)
  BY <1>1, WalkNow DEF CallsAt
<1>4. Node(c) /\ blocks[c].dstDefault = NODE_DEADEND
  BY <1>1, <1>3 DEF FrameAt
<1>5. d = IF h \in DOMAIN exitNodes THEN exitNodes[h] ELSE NODE_DEADEND
  BY <1>4
<1>6. d \in Nat /\ n \in Nat \cup {NULL}
  <2>1. h \in DOMAIN exitNodes => exitNodes[h] \in Nat
    BY <1>2 DEF TypeOK
  <2>2. d \in Nat
    BY <1>5, <2>1, NodeAssumption
  <2>3. QED
    BY <2>2 DEF GetBlockAt
<1> HIDE DEF d, n
<1>7. Patched(blocks, blocks', c, d, n)
  BY <1>1, <1>2, <1>6, PatchFields
<1>8. n = GetBlockAt(blocks, d)
  BY DEF n
<1>9. Resolves(c, h)
  BY <1>1, <1>2, <1>4, <1>5, <1>7, <1>8 DEF Resolves
<1>10. QED
  BY <1>1, <1>2, <1>9 DEF Open

LEMMA ResolveExitWalks ==
  ASSUME CInv, WalkInv, ResolveExit
  PROVE  WalkInv'
<1> DEFINE B == BelowOf(stack)
           B2 == BelowOf(Tail(stack))
<1>1. ASSUME NEW c, c = Top.block, NEW h, h = hash, NEW r, r = Top,
             NEW W, W = walked, NEW Q, Q = pending
      PROVE  WalkInv'
  <2>1. /\ Resolves(c, h) /\ r.next = NODE_DEADEND /\ r.block = c /\ stack # << >>
        /\ ExitsInCode /\ stack' = Tail(stack) /\ UNCHANGED << pending, hash, walked >>
    BY <1>1, ToResolves
  <2>2. FramesOf(stack') = B /\ BelowOf(stack') = B2 /\ B2 \subseteq B
    BY <2>1, StackSets
  <2>3. Shape /\ Walks({r} \cup B, B, W, Q, h)
    BY <1>1, <2>1, WalkNow
  <2>4. Shape'
    BY <2>1, <2>3, ResolveKept
  <2> HIDE DEF B, B2
  <2>5. ASSUME NEW F, F = B, NEW G, G = B2 PROVE Walks(F, G, W, Q, h)'
    <3>1. Walks({r} \cup F, F, W, Q, h) /\ G \subseteq F
      BY <2>2, <2>3, <2>5
    <3>2. QED
      BY <2>1, <2>3, <3>1, ResolveWalks
  <2>6. \E F, G : F = B /\ G = B2 /\ Walks(F, G, W, Q, h)'
    BY <2>5
  <2>7. W = walked' /\ Q = pending' /\ h = hash'
    BY <1>1, <2>1
  <2>8. QED
    BY <2>2, <2>4, <2>6, <2>7 DEF WalkInv
<1>2. QED
  BY <1>1

-----------------------------------------------------------------------------
(***************************************************************************)
(* The first and the last step of the connection.                          *)
(***************************************************************************)
LEMMA WalksFound ==
  ASSUME CInv, phase = "scan", LabelsFound, BeginConnect, CompilerMade
  PROVE  WalkInv'
<1>1. /\ GraphInv /\ ScanMore /\ Done /\ stack = << >> /\ walked = {}
      /\ UNCHANGED vars /\ stack' = stack /\ walked' = walked /\ pending' = Functions
  BY DEF CInv, BeginConnect
<1>2. Shape
  BY <1>1, ShapeFound
<1>3. ASSUME NEW E, E = {}, NEW Q, Q = Functions, NEW h PROVE Walks(E, E, E, Q, h)
  <2>1. CallsAt(E, E, E) /\ InOrder(Q) /\ NoneMissed(E, E, Functions \ Q)
    BY <1>3 DEF CallsAt, InOrder, NoneMissed
  <2>2. Connected(Q)
    BY <1>1, LeavesToExitNode DEF Connected
  <2>3. QED
    BY <1>3, <2>1, <2>2 DEF Walks
<1>4. FramesOf(stack') = {} /\ BelowOf(stack') = {}
  BY <1>1, FewCalls
<1>5. Shape'
  BY <1>1, <1>2, ShapeSame
<1>6. ASSUME NEW E, E = {}, NEW Q, Q = Functions, NEW h PROVE Walks(E, E, E, Q, h)'
  BY <1>1, <1>3, <1>6, WalksSame
<1>7. ASSUME NEW E, E = {}, NEW Q, Q = pending', NEW h, h = hash' PROVE WalkInv'
  <2>1. Walks(E, E, E, Q, h)' /\ E = walked'
        /\ E = FramesOf(stack') /\ E = BelowOf(stack')
    BY <1>1, <1>4, <1>6, <1>7
  <2>2. QED
    BY <1>5, <1>7, <2>1 DEF WalkInv
<1>8. QED
  BY <1>7

\* Nothing of the graph but the exit node goes with it.
LEMMA ErasedSame ==
  ASSUME Shape, ListingOK, NODE_DEADEND \in DOMAIN blocks,
         UNCHANGED << listing, codeSize, exitNodes >>,
         DOMAIN blocks' = DOMAIN blocks \ {NODE_DEADEND},
         \A b \in DOMAIN blocks' : blocks'[b] = blocks[b]
  PROVE  /\ \A b : Leaves(b)' <=> Leaves(b)
         /\ Functions' = Functions /\ (ExitsRecorded' <=> ExitsRecorded)
         /\ \A f \in Functions : ExitOf(f)' = ExitOf(f)
         /\ CompilerMade' <=> CompilerMade
         /\ \A F : NODE_DEADEND \notin F =>
                     /\ OwnBody(F)' = OwnBody(F) /\ Body(F)' = Body(F)
                     /\ OwnBody(F) \cup Body(F) \subseteq DOMAIN blocks'
<1>1. \A i \in 1 .. Len(listing) : OffsetOf(i) \in Nat /\ OffsetOf(i) < NODE_DEADEND
  BY Neighbours, NodeAssumption DEF ListingOK, OffsetOf, Instr
<1>2. \A b : Extent(b)' = Extent(b)
  <2>1. \A i \in 1 .. Len(listing) : ~(NODE_DEADEND <= OffsetOf(i))
    BY <1>1, NodeAssumption
  <2>2. \A b, i : (\A k \in DOMAIN blocks' : k <= OffsetOf(i) => k <= b)
                    /\ ~(NODE_DEADEND <= OffsetOf(i))
                    => \A k \in DOMAIN blocks : k <= OffsetOf(i) => k <= b
    OBVIOUS
  <2>3. \A i : OffsetOf(i)' = OffsetOf(i)
    BY TargetsSame DEF OffsetOf
  <2>4. QED
    BY <2>1, <2>2, <2>3 DEF Extent
<1>3. \A b : Leaves(b)' <=> Leaves(b)
  BY <1>2, TargetsSame DEF Leaves
<1>4. Functions' = Functions
  BY DEF Functions, Shape, Node
<1>5. /\ \A f \in Functions : f \in DOMAIN blocks'
      /\ \A f \in Functions : ExitOf(f)' = ExitOf(f)
      /\ ExitsRecorded' <=> ExitsRecorded
  <2>1. \A f \in Functions : f \in DOMAIN blocks'
    BY DEF Shape, Node
  <2>2. QED
    BY <1>4, <2>1 DEF ExitOf, ExitsRecorded
<1>6. CompilerMade' <=> CompilerMade
  BY TargetsSame DEF CompilerMade
<1>7. \A b \in DOMAIN blocks' : Successors(b)' = Successors(b)
  BY DEF Successors
<1>8. /\ \A e : e \in AllEdges' <=> \E b \in DOMAIN blocks' :
                                      \E t \in Successors(b)' : e = << b, t >>
      /\ \A e : e \in AllEdges <=> \E b \in DOMAIN blocks :
                                      \E t \in Successors(b) : e = << b, t >>
  BY DEF AllEdges, EdgesFrom
<1>9. /\ \A e : e \in OwnEdges' <=> \E b \in { a \in DOMAIN blocks' : ~Leaves(a)' } :
                                      \E t \in Successors(b)' : e = << b, t >>
      /\ \A e : e \in OwnEdges <=> \E b \in { a \in DOMAIN blocks : ~Leaves(a) } :
                                      \E t \in Successors(b) : e = << b, t >>
  BY DEF OwnEdges, EdgesFrom
<1>10. \A b : Successors(b) \subseteq DOMAIN blocks \ {NODE_DEADEND}
  BY DEF Successors
<1>11. /\ AllEdges' \subseteq AllEdges
       /\ \A e \in AllEdges : /\ e[2] \in DOMAIN blocks \ {NODE_DEADEND}
                              /\ e[1] # NODE_DEADEND => e \in AllEdges'
  BY <1>7, <1>8, <1>10
<1>12. /\ OwnEdges' \subseteq OwnEdges
       /\ \A e \in OwnEdges : /\ e[2] \in DOMAIN blocks \ {NODE_DEADEND}
                              /\ e[1] # NODE_DEADEND => e \in OwnEdges'
  BY <1>3, <1>7, <1>9, <1>10
<1>13. ASSUME NEW F, NODE_DEADEND \notin F
       PROVE  /\ OwnBody(F)' = OwnBody(F) /\ Body(F)' = Body(F)
              /\ OwnBody(F) \cup Body(F) \subseteq DOMAIN blocks'
  <2>1. /\ Body(F)' = Reached(DOMAIN blocks', AllEdges', F)
        /\ Body(F) = Reached(DOMAIN blocks, AllEdges, F)
    BY DEF Body, AllEdges
  <2>2. /\ OwnBody(F)' = Reached(DOMAIN blocks', OwnEdges', F)
        /\ OwnBody(F) = Reached(DOMAIN blocks, OwnEdges, F)
    BY DEF OwnBody, OwnEdges
  <2>3. Reached(DOMAIN blocks \ {NODE_DEADEND}, AllEdges', F) = Reached(DOMAIN blocks, AllEdges, F)
    BY <1>11, <1>13, ReachedWithout DEF Shape
  <2>4. Reached(DOMAIN blocks \ {NODE_DEADEND}, OwnEdges', F) = Reached(DOMAIN blocks, OwnEdges, F)
    BY <1>12, <1>13, ReachedWithout DEF Shape
  <2>5. IsFiniteSet(DOMAIN blocks \ {NODE_DEADEND})
    BY FS_Subset DEF Shape
  <2>6. Reached(DOMAIN blocks \ {NODE_DEADEND}, AllEdges', F) \subseteq DOMAIN blocks \ {NODE_DEADEND}
    BY <1>11, <2>5, ReachedClosed
  <2>7. Reached(DOMAIN blocks \ {NODE_DEADEND}, OwnEdges', F) \subseteq DOMAIN blocks \ {NODE_DEADEND}
    BY <1>12, <2>5, ReachedClosed
  <2>8. QED
    BY <2>1, <2>2, <2>3, <2>4, <2>6, <2>7
<1>14. QED
  BY <1>3, <1>4, <1>5, <1>6, <1>13

\* When all is walked no block of a function goes to the exit node.
LEMMA AllWalked ==
  ASSUME Shape, ExitsRecorded, NEW W, NEW h, Walks({}, {}, W, {}, h)
  PROVE  \A b \in OwnBody(Functions) : b \notin Dangling
<1>1. Ahead({}, W) \subseteq {}
  <2>1. Closed(WalkEdges(W), {}) /\ Starts({}) = {}
    BY DEF Closed, Starts
  <2>2. QED
    BY <2>1, AheadLeast DEF Shape
<1>2. \A f \in Functions : Dangling \cap OwnBody({f}) = {}
  BY <1>1 DEF Walks, NoneMissed
<1>3. ASSUME NEW b \in OwnBody(Functions) PROVE \E f \in Functions : b \in OwnBody({f})
  <2>1. \A F : OwnBody(F) = Reached(DOMAIN blocks, OwnEdges, F)
    BY DEF OwnBody, OwnEdges
  <2>2. \A e \in OwnEdges : e[2] \in DOMAIN blocks
    BY EdgesInside
  <2>3. IsFiniteSet(DOMAIN blocks)
    BY DEF Shape
  <2>4. b \in Reached(DOMAIN blocks, OwnEdges, Functions)
    BY <2>1
  <2>5. \E f \in Functions : b \in Reached(DOMAIN blocks, OwnEdges, {f})
    BY <2>2, <2>3, <2>4, ReachedFromOne
  <2>6. QED
    BY <2>1, <2>5
<1>4. QED
  BY <1>2, <1>3

\* The code that the functions return to, and no block of it leaves a function but
\* those of the functions.
Exits == { ExitOf(f) : f \in Functions }

ExitsEnd == \A b \in OwnBody(Exits) : Leaves(b) => b \in OwnBody(Functions)

LEMMA NoneDangles ==
  ASSUME Shape, ExitsRecorded, ExitsInCode, ExitsEnd, NEW W, NEW h,
         Walks({}, {}, W, {}, h)
  PROVE  \A b \in Body(Functions) :
           {blocks[b].nextDefault, blocks[b].nextJUMPI}
             \subseteq (DOMAIN blocks \ {NODE_DEADEND}) \cup {NULL}
<1> DEFINE Z == OwnBody(Functions) \cup OwnBody(Exits)
<1>1. /\ IsFiniteSet(DOMAIN blocks) /\ Z \subseteq DOMAIN blocks
      /\ Functions \subseteq DOMAIN blocks
      /\ Functions \cap DOMAIN blocks \subseteq Z
      /\ \A x \in Exits : x \in DOMAIN blocks => x \in Z
      /\ \A x \in Exits : x # NODE_DEADEND
  BY BodyFacts DEF Shape, Functions, Exits, ExitOf, ExitsRecorded, ExitsInCode
<1>2. ASSUME NEW b \in Z, Leaves(b)
      PROVE  /\ blocks[b].nextJUMPI = NULL
             /\ \E x \in Exits : blocks[b].nextDefault = GetBlockAt(blocks, x)
  <2>1. b \in OwnBody(Functions) /\ b \in DOMAIN blocks
    BY <1>1, <1>2 DEF ExitsEnd
  <2>2. blocks[b].dstDefault # NODE_DEADEND
    BY <2>1, AllWalked DEF Dangling
  <2>3. \E f \in Functions : blocks[b].dstDefault = ExitOf(f)
    BY <1>2, <2>1, <2>2 DEF Walks, Connected
  <2>4. ShapeOf(b)
    BY <2>1 DEF Shape
  <2>5. blocks[b].nextJUMPI = NULL /\ blocks[b].nextDefault = GetBlockAt(blocks, blocks[b].dstDefault)
    BY <1>2, <2>4 DEF ShapeOf, Leads, Node
  <2>6. QED
    BY <2>3, <2>5 DEF Exits
<1>3. Closed(AllEdges, Z)
  <2> SUFFICES ASSUME NEW e \in AllEdges, e[1] \in Z PROVE e[2] \in Z
    BY DEF Closed
  <2>1. PICK b \in DOMAIN blocks : \E t \in Successors(b) : e = << b, t >>
    BY EdgeOf DEF AllEdges
  <2>2. e[1] = b /\ e[2] \in Successors(b) /\ b \in Z
    BY <2>1
  <2>3. CASE ~Leaves(b)
    <3>1. ASSUME NEW F, b \in OwnBody(F) PROVE e[2] \in OwnBody(F)
      BY <1>1, <2>2, <2>3, <3>1, BodyStep
    <3>2. QED
      BY <2>2, <3>1
  <2>4. CASE Leaves(b)
    <3>1. PICK x \in Exits : blocks[b].nextDefault = GetBlockAt(blocks, x)
      BY <1>2, <2>2, <2>4
    <3>2. blocks[b].nextJUMPI = NULL /\ NULL \notin DOMAIN blocks
      BY <1>2, <2>2, <2>4, NodeAssumption DEF Shape
    <3>3. e[2] = x /\ x \in DOMAIN blocks
      BY <2>2, <3>1, <3>2 DEF Successors, GetBlockAt
    <3>4. QED
      BY <1>1, <3>3
  <2>5. QED
    BY <2>3, <2>4
<1>4. Body(Functions) \subseteq Z
  <2>1. Body(Functions) = Reached(DOMAIN blocks, AllEdges, Functions)
    BY DEF Body, AllEdges
  <2> HIDE DEF Z
  <2>2. QED
    BY <1>1, <1>3, <2>1, ReachedLeast
<1>5. ASSUME NEW b \in Z
      PROVE  {blocks[b].nextDefault, blocks[b].nextJUMPI}
               \subseteq (DOMAIN blocks \ {NODE_DEADEND}) \cup {NULL}
  <2>1. CASE Leaves(b)
    BY <1>1, <1>2, <1>5, <2>1 DEF GetBlockAt
  <2>2. CASE ~Leaves(b)
    <3>1. ShapeOf(b)
      BY <1>1, <1>5 DEF Shape
    <3>2. QED
      BY <2>2, <3>1 DEF ShapeOf, Leads, Node
  <2>3. QED
    BY <2>1, <2>2
<1> HIDE DEF Z
<1>6. QED
  BY <1>4, <1>5

LEMMA FirstKept ==
  ASSUME Shape, ReturnsEnd, NEW W, NEW h, Walks({}, {}, W, {}, h)
  PROVE  \A f \in Functions : \A b \in OwnBody({f}) :
           Leaves(b) /\ (\A g \in Functions : b \in OwnBody({g}) => f <= g) =>
             blocks[b].dstDefault = ExitOf(f)
<1> SUFFICES ASSUME NEW f \in Functions, NEW b \in OwnBody({f}), Leaves(b),
                    \A g \in Functions : b \in OwnBody({g}) => f <= g
             PROVE  blocks[b].dstDefault = ExitOf(f)
  OBVIOUS
<1>1. b \in DOMAIN blocks /\ ExitsRecorded
  BY BodyFacts DEF Shape, ReturnsEnd
<1>2. b \in OwnBody(Functions)
  <2>1. \A F : OwnBody(F) = Reached(DOMAIN blocks, OwnEdges, F)
    BY DEF OwnBody, OwnEdges
  <2>2. Reached(DOMAIN blocks, OwnEdges, {f}) \subseteq Reached(DOMAIN blocks, OwnEdges, Functions)
    <3>1. {f} \cap DOMAIN blocks \subseteq Reached(DOMAIN blocks, OwnEdges, Functions)
      BY <2>1, BodyFacts DEF Shape
    <3>2. QED
      BY <3>1, EdgesInside, ReachedOn DEF Shape
  <2>3. QED
    BY <2>1, <2>2
<1>3. blocks[b].dstDefault # NODE_DEADEND
  BY <1>1, <1>2, AllWalked DEF Dangling
<1>4. PICK g \in Functions :
        /\ blocks[b].dstDefault = ExitOf(g)
        /\ b \in OwnBody({g}) /\ \A k \in Functions : b \in OwnBody({k}) => g <= k
  BY <1>1, <1>3 DEF Walks, Connected
<1>5. f <= g /\ g <= f /\ f \in Nat /\ g \in Nat
  BY <1>4 DEF Shape, Node
<1>6. QED
  BY <1>4, <1>5

\* FirstFunctionKeepsExit, one function and one block at a time.
KeepsFirst ==
  phase = "done" /\ CompilerMade /\ ReturnsEnd =>
    \A f \in Functions : \A b \in OwnBody({f}) :
      Leaves(b) /\ (\A g \in Functions : b \in OwnBody({g}) => f <= g) =>
        blocks[b].dstDefault = ExitOf(f)

LEMMA KeepsEach == FirstFunctionKeepsExit <=> KeepsFirst
<1> DEFINE Pairs(k) == {k} \X OwnBody({k})
           own == UNION { Pairs(k) : k \in Functions }
<1>0. \A e : e \in own <=> \E k \in Functions : e \in Pairs(k)
  OBVIOUS
<1>1. \A f, b : << f, b >> \in own <=> f \in Functions /\ b \in OwnBody({f})
  <2>1. \A f, b, k : << f, b >> \in Pairs(k) <=> f = k /\ b \in OwnBody({k})
    OBVIOUS
  <2> HIDE DEF own, Pairs
  <2>2. ASSUME NEW f, NEW b, f \in Functions /\ b \in OwnBody({f})
        PROVE  << f, b >> \in own
    BY <1>0, <2>1, <2>2
  <2>3. ASSUME NEW f, NEW b, << f, b >> \in own
        PROVE  f \in Functions /\ b \in OwnBody({f})
    <3>1. PICK k \in Functions : << f, b >> \in Pairs(k)
      BY <1>0, <2>3
    <3>2. f = k /\ b \in OwnBody({k})
      BY <2>1, <3>1
    <3>3. QED
      BY <3>2
  <2>4. QED
    BY <2>2, <2>3
<1>2. \A e \in own : e = << e[1], e[2] >>
  <2>1. \A k : \A e \in Pairs(k) : e = << e[1], e[2] >>
    OBVIOUS
  <2> HIDE DEF own, Pairs
  <2>2. QED
    BY <1>0, <2>1
<1> HIDE DEF own
<1>3. (\A e \in own :
         Leaves(e[2]) /\ (\A o \in own : o[2] = e[2] => e[1] <= o[1]) =>
           blocks[e[2]].dstDefault = ExitOf(e[1]))
       <=> \A f \in Functions : \A b \in OwnBody({f}) :
             Leaves(b) /\ (\A g \in Functions : b \in OwnBody({g}) => f <= g) =>
               blocks[b].dstDefault = ExitOf(f)
  <2>1. ASSUME NEW e \in own
        PROVE  (\A o \in own : o[2] = e[2] => e[1] <= o[1])
                 <=> \A g \in Functions : e[2] \in OwnBody({g}) => e[1] <= g
    <3>1. ASSUME \A o \in own : o[2] = e[2] => e[1] <= o[1],
                 NEW g \in Functions, e[2] \in OwnBody({g})
          PROVE  e[1] <= g
      <4> DEFINE o == << g, e[2] >>
      <4>1. o \in own /\ o[1] = g /\ o[2] = e[2]
        BY <1>1, <3>1
      <4>2. QED
        BY <3>1, <4>1
    <3>2. ASSUME \A g \in Functions : e[2] \in OwnBody({g}) => e[1] <= g,
                 NEW o \in own, o[2] = e[2]
          PROVE  e[1] <= o[1]
      <4>1. o[1] \in Functions /\ o[2] \in OwnBody({o[1]})
        BY <1>1, <1>2
      <4>2. QED
        BY <3>2, <4>1
    <3>3. QED
      BY <3>1, <3>2
  <2>2. ASSUME NEW f \in Functions, NEW b \in OwnBody({f})
        PROVE  \E e \in own : e[1] = f /\ e[2] = b
    <3> DEFINE e == << f, b >>
    <3>1. e \in own /\ e[1] = f /\ e[2] = b
      BY <1>1
    <3>2. QED
      BY <3>1
  <2>3. \A e \in own : e[1] \in Functions /\ e[2] \in OwnBody({e[1]})
    BY <1>1, <1>2
  <2> DEFINE First(f, b) == \A g \in Functions : b \in OwnBody({g}) => f <= g
             Good(f, b) == Leaves(b) /\ First(f, b) => blocks[b].dstDefault = ExitOf(f)
  <2>4. (\A e \in own : Good(e[1], e[2]))
          <=> \A f \in Functions : \A b \in OwnBody({f}) : Good(f, b)
    <3> HIDE DEF Good
    <3>1. QED
      BY <2>2, <2>3
  <2>5. \A e \in own : Good(e[1], e[2]) <=>
          (Leaves(e[2]) /\ (\A o \in own : o[2] = e[2] => e[1] <= o[1]) =>
             blocks[e[2]].dstDefault = ExitOf(e[1]))
    BY <2>1
  <2>6. QED
    BY <2>4, <2>5
<1>4. ReturnsEnd <=> /\ ExitsRecorded
                    /\ \A b \in OwnBody({ ExitOf(f) : f \in Functions } \ {0}) : ~Leaves(b)
  BY DEF ReturnsEnd, ReturnCode
<1>5. QED
  BY <1>3, <1>4 DEF FirstFunctionKeepsExit, KeepsFirst, own

LEMMA EraseEnds ==
  ASSUME CInv, CompilerMade => WalkInv, EraseExitNode
  PROVE  NothingDangles' /\ FirstFunctionKeepsExit'
<1>1. /\ stack = << >> /\ pending = {} /\ phase = "connect"
      /\ DOMAIN blocks' = DOMAIN blocks \ {NODE_DEADEND}
      /\ \A b \in DOMAIN blocks' : blocks'[b] = blocks[b]
      /\ UNCHANGED << listing, codeSize, exitNodes >>
  BY DEF EraseExitNode
<1>2. ListingOK /\ NODE_DEADEND \in DOMAIN blocks /\ ExitsInCode
  BY <1>1 DEF CInv, CTypeOK, Open
<1>3. CompilerMade' <=> CompilerMade
  BY <1>1, TargetsSame DEF CompilerMade
<1>4. CASE ~CompilerMade'
  BY <1>4 DEF NothingDangles, FirstFunctionKeepsExit
<1>5. CASE CompilerMade
  <2>1. WalkInv
    BY <1>5
  <2>2. Shape /\ \E W, h : Walks({}, {}, W, {}, h)
    <3>1. FramesOf(stack) = {} /\ BelowOf(stack) = {}
      BY <1>1, FewCalls
    <3>2. PICK F, B, W, Q, h : /\ F = {} /\ B = {} /\ Q = {} /\ Walks(F, B, W, Q, h)
      BY <1>1, <2>1, <3>1 DEF WalkInv
    <3>3. QED
      BY <2>1, <3>2 DEF WalkInv
  <2>3. PICK W, h : Walks({}, {}, W, {}, h)
    BY <2>2
  <2>4. /\ \A b : Leaves(b)' <=> Leaves(b)
        /\ Functions' = Functions /\ (ExitsRecorded' <=> ExitsRecorded)
        /\ \A f \in Functions : ExitOf(f)' = ExitOf(f)
        /\ \A F : NODE_DEADEND \notin F =>
                    /\ OwnBody(F)' = OwnBody(F) /\ Body(F)' = Body(F)
                    /\ OwnBody(F) \cup Body(F) \subseteq DOMAIN blocks'
    BY <1>1, <1>2, <2>2, ErasedSame
  <2>5. NODE_DEADEND \notin Functions /\ \A f \in Functions : f # NODE_DEADEND
    BY <2>2 DEF Shape, Node
  <2>6. /\ Body(Functions)' = Body(Functions) /\ OwnBody(Functions)' = OwnBody(Functions)
        /\ \A f \in Functions : /\ OwnBody({f})' = OwnBody({f})
                                /\ OwnBody({f}) \subseteq DOMAIN blocks'
        /\ Body(Functions) \subseteq DOMAIN blocks'
    BY <2>4, <2>5
  <2>7. /\ Exits' = Exits
        /\ ExitsRecorded => NODE_DEADEND \notin Exits
    BY <1>2, <2>4 DEF Exits, ExitOf, ExitsRecorded, ExitsInCode
  <2>8. NothingDangles'
    <3> SUFFICES ASSUME ExitsRecorded',
                        \A b \in OwnBody(Exits)' : Leaves(b)' => b \in OwnBody(Functions)',
                        NEW b \in Body(Functions)'
                 PROVE  {blocks'[b].nextDefault, blocks'[b].nextJUMPI}
                          \subseteq DOMAIN blocks' \cup {NULL}
      BY DEF NothingDangles, Exits
    <3>1. OwnBody(Exits)' = OwnBody(Exits)
      BY <2>4, <2>7
    <3>2. ExitsEnd
      BY <2>4, <2>6, <3>1 DEF ExitsEnd
    <3>3. {blocks[b].nextDefault, blocks[b].nextJUMPI}
            \subseteq (DOMAIN blocks \ {NODE_DEADEND}) \cup {NULL}
      BY <1>2, <2>2, <2>3, <2>4, <2>6, <3>2, NoneDangles
    <3>4. b \in DOMAIN blocks'
      BY <2>6
    <3>5. QED
      BY <1>1, <3>3, <3>4
  <2>9. KeepsFirst'
    <3> SUFFICES ASSUME ReturnsEnd', NEW f \in Functions', NEW b \in OwnBody({f})',
                        Leaves(b)', \A g \in Functions' : b \in OwnBody({g})' => f <= g
                 PROVE  blocks'[b].dstDefault = ExitOf(f)'
      BY DEF KeepsFirst
    <3>1. OwnBody(Exits \ {0})' = OwnBody(Exits \ {0})
      BY <2>4, <2>7 DEF ReturnsEnd
    <3>2. ReturnsEnd
      BY <2>4, <3>1 DEF ReturnsEnd, ReturnCode, Exits
    <3>3. f \in Functions /\ b \in OwnBody({f}) /\ b \in DOMAIN blocks' /\ Leaves(b)
          /\ \A g \in Functions : b \in OwnBody({g}) => f <= g
      BY <2>4, <2>6
    <3>4. blocks[b].dstDefault = ExitOf(f)
      BY <2>2, <2>3, <3>2, <3>3, FirstKept
    <3>5. QED
      BY <1>1, <2>4, <3>3, <3>4
  <2>10. (FirstFunctionKeepsExit <=> KeepsFirst)'
    BY KeepsEach, PTL
  <2>11. QED
    BY <2>8, <2>9, <2>10
<1>6. QED
  BY <1>3, <1>4, <1>5

-----------------------------------------------------------------------------
(***************************************************************************)
(* The walks and the end of the analysis.                                  *)
(***************************************************************************)
WInv ==
  /\ CInv
  /\ phase = "scan" => LabelsFound
  /\ phase = "connect" /\ CompilerMade => WalkInv
  /\ NothingDangles /\ FirstFunctionKeepsExit

LEMMA WInvInit == CInit => WInv
  BY WalkInit, LabelsFoundInit
     DEF WInv, CInit, NothingDangles, FirstFunctionKeepsExit

\* The steps of a walk that leave the map alone.
OnlyLooks == \/ WalkFunction \/ UnknownBlock \/ WalkedBefore \/ WalkBranch
             \/ WalkPlain \/ EndOfPath \/ WalkOn

LEMMA QuietWalks ==
  ASSUME CInv, WalkInv, OnlyLooks
  PROVE  WalkInv'
  BY ReturnKeeps, WalkedBeforeKeeps, WalkOnKeeps, WalkPlainKeeps, WalkBranchKeeps,
     WalkFunctionKeeps DEF OnlyLooks

LEMMA QuietFrame ==
  ASSUME OnlyLooks
  PROVE  UNCHANGED vars /\ phase = "connect" /\ phase' = "connect"
  BY DEF OnlyLooks, WalkFunction, UnknownBlock, WalkedBefore, WalkBranch, WalkPlain,
         EndOfPath, WalkOn, AtLookup, AtEnd, AtNewBlock

\* The properties speak of the end of the analysis.
LEMMA BeforeEnd ==
  ASSUME phase' # "done"
  PROVE  NothingDangles' /\ FirstFunctionKeepsExit'
  BY DEF NothingDangles, FirstFunctionKeepsExit

LEMMA ConnectKeepsWInv ==
  ASSUME WInv, Connect
  PROVE  WInv'
<1>1. CInv /\ CInv'
  BY WalkStep DEF WInv
<1>2. UNCHANGED << listing, codeSize >> => (CompilerMade' <=> CompilerMade)
  BY TargetsSame DEF CompilerMade
<1>3. CASE BeginConnect
  <2>1. phase = "scan" /\ phase' = "connect" /\ UNCHANGED << listing, codeSize >>
    BY <1>3 DEF BeginConnect, vars
  <2>2. CompilerMade => WalkInv'
    BY <1>1, <1>3, <2>1, WalksFound DEF WInv
  <2>3. QED
    BY <1>1, <1>2, <2>1, <2>2, BeforeEnd DEF WInv
<1>4. CASE OnlyLooks
  <2>1. phase = "connect" /\ phase' = "connect" /\ UNCHANGED << listing, codeSize >>
    BY <1>4, QuietFrame DEF vars
  <2>2. WalkInv => WalkInv'
    BY <1>1, <1>4, QuietWalks
  <2>3. QED
    BY <1>1, <1>2, <2>1, <2>2, BeforeEnd DEF WInv
<1>5. CASE ResolveExit
  <2>1. phase = "connect" /\ phase' = "connect" /\ UNCHANGED << listing, codeSize >>
    BY <1>5 DEF ResolveExit, AtEnd
  <2>2. WalkInv => WalkInv'
    BY <1>1, <1>5, ResolveExitWalks
  <2>3. QED
    BY <1>1, <1>2, <2>1, <2>2, BeforeEnd DEF WInv
<1>6. CASE EraseExitNode
  <2>1. phase = "connect" /\ phase' = "done"
    BY <1>6 DEF EraseExitNode
  <2>2. NothingDangles' /\ FirstFunctionKeepsExit'
    BY <1>1, <1>6, <2>1, EraseEnds DEF WInv
  <2>3. QED
    BY <1>1, <2>1, <2>2 DEF WInv
<1>7. QED
  BY <1>3, <1>4, <1>5, <1>6 DEF Connect, OnlyLooks

LEMMA WInvSame ==
  ASSUME WInv, UNCHANGED allVars
  PROVE  WInv'
<1>1. UNCHANGED vars /\ UNCHANGED cvars
  BY DEF allVars
<1>2. /\ listing' = listing /\ codeSize' = codeSize /\ blocks' = blocks
      /\ exitNodes' = exitNodes /\ phase' = phase /\ pending' = pending
      /\ hash' = hash /\ stack' = stack /\ walked' = walked
  BY <1>1 DEF vars, cvars
<1>3. CInv'
  BY <1>1, CInvSame DEF WInv
<1>4. LabelsFound => LabelsFound'
  BY <1>2, TargetsSame DEF LabelsFound, Labelled
<1>5. CompilerMade' <=> CompilerMade
  BY <1>2, TargetsSame DEF CompilerMade
<1>6. WalkInv => WalkInv'
  <2>1. \A F, B, W, Q, h : Walks(F, B, W, Q, h)' <=> Walks(F, B, W, Q, h)
    BY <1>1, WalksSame
  <2>2. Shape => Shape'
    BY <1>1, ShapeSame
  <2>3. QED
    BY <1>2, <2>1, <2>2 DEF WalkInv
<1>7. /\ \A b : Leaves(b)' <=> Leaves(b)
      /\ Functions' = Functions /\ (ExitsRecorded' <=> ExitsRecorded)
      /\ \A f \in Functions : ExitOf(f)' = ExitOf(f)
      /\ \A F : Body(F)' = Body(F) /\ OwnBody(F)' = OwnBody(F)
  <2>1. Kept
    BY <1>1, ShapeSame
  <2>2. QED
    BY <1>1, <2>1, CodeSame, KeptSame, GraphSame DEF Kept
<1>8. Exits' = Exits
  BY <1>7 DEF Exits
<1>9. NothingDangles'
  <2>1. NothingDangles
    BY DEF WInv
  <2>2. /\ OwnBody(Exits)' = OwnBody(Exits)
        /\ OwnBody(Functions)' = OwnBody(Functions) /\ Body(Functions)' = Body(Functions)
    BY <1>7, <1>8
  <2>3. QED
    BY <1>2, <1>5, <1>7, <2>1, <2>2 DEF NothingDangles, Exits
<1>10. FirstFunctionKeepsExit'
  <2>1. KeepsFirst
    BY KeepsEach DEF WInv
  <2>2. OwnBody(Exits \ {0})' = OwnBody(Exits \ {0})
    BY <1>7, <1>8
  <2>3. ReturnsEnd' <=> ReturnsEnd
    BY <1>7, <2>2 DEF ReturnsEnd, ReturnCode, Exits
  <2>4. KeepsFirst'
    BY <1>2, <1>5, <1>7, <2>1, <2>3 DEF KeepsFirst
  <2>5. (FirstFunctionKeepsExit <=> KeepsFirst)'
    BY KeepsEach, PTL
  <2>6. QED
    BY <2>4, <2>5
<1>11. QED
  BY <1>2, <1>3, <1>4, <1>5, <1>6, <1>9, <1>10 DEF WInv

LEMMA WInvStep ==
  ASSUME WInv, [CNext]_allVars
  PROVE  WInv'
<1>1. CASE ScanStep
  <2>1. /\ phase = "scan" /\ phase' = "scan" /\ Scan
    BY <1>1 DEF ScanStep, cvars
  <2>2. CInv' /\ GraphInv
    BY <1>1, <2>1, WalkStep DEF WInv, CInv
  <2>3. LabelsFound'
    BY <2>1, <2>2, LabelsFoundStep DEF WInv, GraphInv
  <2>4. QED
    BY <2>1, <2>2, <2>3, BeforeEnd DEF WInv
<1>2. CASE Connect
  BY <1>2, ConnectKeepsWInv
<1>3. CASE UNCHANGED allVars
  BY <1>3, WInvSame
<1>4. QED
  BY <1>1, <1>2, <1>3 DEF CNext

LEMMA WalksInvariant == CSpec => []WInv
<1>1. WInv /\ [CNext]_allVars => WInv'
  BY WInvStep
<1>2. QED
  BY WInvInit, <1>1, PTL DEF CSpec

\* When every function has pushed an address to return to, and the code there leaves
\* no function but one of those walked, no pointer that can be followed from a
\* function's entry leads to the erased exit node, whatever the contract
\* (Contract.cpp:386, 395-401).
THEOREM NoPointerDangles == CSpec => []NothingDangles
<1>1. WInv => NothingDangles
  BY DEF WInv
<1>2. QED
  BY WalksInvariant, <1>1, PTL

\* A block that several functions share goes back to the caller of the first of them
\* in the code (Contract.cpp:258-264, 394-401).
THEOREM FirstExitKept == CSpec => []FirstFunctionKeepsExit
<1>1. WInv => FirstFunctionKeepsExit
  BY DEF WInv
<1>2. QED
  BY WalksInvariant, <1>1, PTL

LEMMA WalkRewrites ==
  ASSUME WInv, [CNext]_allVars, phase = "connect", phase' = "connect",
         NEW b \in DOMAIN blocks, blocks'[b] # blocks[b], CompilerMade
  PROVE  /\ blocks[b].dstDefault = NODE_DEADEND
         /\ \E f \in Functions : blocks[f].fnAddrHash = hash /\ b \in Body({f})
<1>1. CInv /\ WalkInv
  BY DEF WInv
<1>2. ResolveExit
  <2>1. CASE OnlyLooks
    BY <2>1, QuietFrame DEF vars
  <2>2. QED
    BY <2>1 DEF CNext, Connect, OnlyLooks, ScanStep, BeginConnect, EraseExitNode, allVars, vars
<1>3. b = Top.block
  BY <1>2 DEF ResolveExit
<1>4. ASSUME NEW r, r = Top, NEW h, h = hash, NEW Q, Q = pending, NEW B, B = BelowOf(stack)
      PROVE  /\ blocks[b].dstDefault = NODE_DEADEND
             /\ \E f \in Functions : blocks[f].fnAddrHash = h /\ b \in Body({f})
  <2>1. Resolves(b, h) /\ stack # << >>
    BY <1>1, <1>2, <1>3, <1>4, ToResolves
  <2>2. Shape /\ Walks({r} \cup B, B, walked, Q, h)
    BY <1>1, <1>4, <2>1, WalkNow
  <2>3. \E f \in Functions : blocks[f].fnAddrHash = h /\ b \in Body({f})
    <3>1. ASSUME NEW W, W = walked PROVE Walks({r} \cup B, B, W, Q, h) /\ r.block = b
      BY <1>3, <1>4, <2>2, <3>1
    <3>2. ASSUME NEW W, W = walked
          PROVE  \E f \in Functions : blocks[f].fnAddrHash = h /\ b \in Body({f})
      BY <2>1, <2>2, <3>1, <3>2, ResolvedIn
    <3>3. QED
      BY <3>2
  <2>4. QED
    BY <2>1, <2>3 DEF Resolves
<1>5. QED
  BY <1>4

\* A walk only rewrites blocks that can be reached from the function whose selector
\* it carries, and only those that left it through the exit node
\* (Contract.cpp:382-404).
THEOREM WalkStays == CSpec => WalkStaysInFunction
<1>1. WInv /\ [CNext]_allVars =>
        (phase = "connect" /\ phase' = "connect" =>
           \A b \in DOMAIN blocks : blocks'[b] # blocks[b] /\ CompilerMade =>
             /\ blocks[b].dstDefault = NODE_DEADEND
             /\ \E f \in Functions : blocks[f].fnAddrHash = hash /\ b \in Body({f}))
  BY WalkRewrites
<1>2. QED
  BY WalksInvariant, <1>1, PTL DEF CSpec, WalkStaysInFunction

-----------------------------------------------------------------------------
(***************************************************************************)
(* The invariant of the executions.                                        *)
(***************************************************************************)
\* What call f of executeFunction has done, with the map m, the flags fl and the
\* inherited ones ih: it is at an instruction of its block or behind; if the block
\* still goes to the erased exit node, the jump that mends it is ahead; and what
\* the CALLs before mean for it has been noted.
FrameOK(f, m, fl, ih) ==
  /\ extent[f.block].from <= f.at
  /\ f.pc = "run" =>
       /\ m[f.block].nextDefault = NODE_DEADEND =>
            \E j \in Nat : f.at <= j /\ JumpsAt(extent[f.block].from, extent[f.block].to, j)
       /\ f.afterCall => f.block \in fl /\ f.block \in ih
       /\ (\E i \in extent[f.block].from .. f.at - 1 : listing[i].op = "CALL") =>
            f.block \in ih
  /\ f.pc # "run" =>
       /\ m[f.block].nextDefault # NODE_DEADEND
       /\ f.afterCall \/ HasCall(f.block) => f.inh
       /\ f.inh => f.block \in ih

\* FlagsHaveCause of the flags fl and the edges fo.
Caused(fl, fo) ==
  \A B \in (SUBSET fl) \ {{}} :
    \E e \in fo : e[2] \in B /\ (HasCall(e[1]) \/ e[1] \in fl \ B)

ExtentsOK ==
  \A b \in DOMAIN blocks :
    extent[b] = [ from |-> IndexAt(b), to |-> IndexAt(b + blocks[b].size) ]

PathMended ==
  NoJumpBehindHalt => \A b \in path : blocks[b].nextDefault # NODE_DEADEND

FInv ==
  /\ CInv /\ FTypeOK /\ todo \subseteq Functions
  /\ mode = "off" => /\ frames = << >> /\ todo = {} /\ flags = {} /\ inherit = {}
                     /\ path = {} /\ followed = {}
  /\ mode # "off" => ExtentsOK
  /\ \A k \in 1 .. Len(frames) : FrameOK(frames[k], blocks, flags, inherit)
  /\ \A b \in inherit : HasCall(b) \/ b \in flags
  /\ Caused(flags, followed)
  /\ PathMended

\* From map m to r successors change, and none becomes the exit node.
Mends(m, r) ==
  /\ DOMAIN r = DOMAIN m /\ Typed(r)
  /\ \A b \in DOMAIN m :
       /\ r[b].size = m[b].size /\ r[b].fnAddrHash = m[b].fnAddrHash
       /\ r[b].nextDefault \in DOMAIN m \cup {NULL, NODE_DEADEND}
       /\ r[b].nextDefault = NODE_DEADEND =>
            m[b].nextDefault = NODE_DEADEND /\ r[b].dstDefault = NODE_DEADEND
       /\ r[b].nextJUMPI \in (DOMAIN m \ {NODE_DEADEND}) \cup {NULL}

\* Where the program and the extents stay, what depends on them does.
LEMMA SameProgram ==
  ASSUME listing' = listing, extent' = extent
  PROVE  /\ \A b : HasCall(b)' <=> HasCall(b)
         /\ \A k : FrameOK(frames[k], blocks, flags, inherit)'
                     <=> FrameOK(frames'[k], blocks', flags', inherit')
         /\ Caused(flags, followed)' <=> Caused(flags', followed')
         /\ NoJumpBehindHalt' <=> NoJumpBehindHalt
<1>1. \A b : HasCall(b)' <=> HasCall(b)
  BY DEF HasCall
<1>2. \A f, t, j : JumpsAt(f, t, j)' <=> JumpsAt(f, t, j)
  BY DEF JumpsAt
<1>3. \A k : FrameOK(frames[k], blocks, flags, inherit)'
               <=> FrameOK(frames'[k], blocks', flags', inherit')
  BY <1>1, <1>2 DEF FrameOK
<1>4. Caused(flags, followed)' <=> Caused(flags', followed')
  BY <1>1 DEF Caused
<1>5. NoJumpBehindHalt' <=> NoJumpBehindHalt
  BY DEF NoJumpBehindHalt
<1>6. QED
  BY <1>1, <1>3, <1>4, <1>5

\* A map that is mended keeps the invariant of the walks.
LEMMA MendedMap ==
  ASSUME FInv, mode # "off", Mends(blocks, blocks'),
         UNCHANGED << listing, codeSize, instIndex, basicBlockOffset, exitNodes, cvars >>
  PROVE  CInv'
<1>1. phase = "done" /\ phase' = "done" /\ UNCHANGED << pending, hash, stack, walked >>
  BY DEF FInv, FTypeOK, cvars
<1>2. CTypeOK /\ ListingOK /\ TypeOK /\ \A b \in DOMAIN blocks : Linked(blocks, b)
  BY <1>1 DEF FInv, CInv, CTypeOK
<1>3. DOMAIN blocks' = DOMAIN blocks /\ Typed(blocks')
  BY DEF Mends
<1>4. TypeOK' /\ ListingOK'
  BY <1>2, <1>3 DEF TypeOK, Typed, ListingOK
<1>5. (stack \in Seq(WalkFrame))' /\ (stack \in Seq(Frame))'
  <2>1. WalkFrame' = WalkFrame /\ Frame' = Frame
    BY <1>3 DEF WalkFrame, Frame
  <2>2. QED
    BY <1>1, <1>2, <2>1 DEF FInv, CInv, CTypeOK
<1>6. CTypeOK'
  BY <1>1, <1>2, <1>3, <1>4, <1>5 DEF CTypeOK
<1>7. \A b \in DOMAIN blocks : Linked(blocks', b)
  <2>1. \A b \in DOMAIN blocks : HoldsJump(blocks', b) <=> HoldsJump(blocks, b)
    BY DEF HoldsJump, Mends
  <2>2. QED
    BY <1>2, <2>1 DEF Linked, Mends
<1>8. \A b \in DOMAIN blocks' : Linked(blocks, b)'
  BY <1>3, <1>7, JumpsSame
<1>9. QED
  BY <1>1, <1>4, <1>5, <1>6, <1>8 DEF CInv

\* What a call has done remains done.
LEMMA FrameKeeps ==
  ASSUME NEW f, NEW m, NEW r, Mends(m, r), f.block \in DOMAIN m,
         NEW fl, NEW gl, fl \subseteq gl, NEW ih, NEW jh, ih \subseteq jh,
         FrameOK(f, m, fl, ih)
  PROVE  FrameOK(f, r, gl, jh)
  BY DEF FrameOK, Mends

\* The edges by which flagged blocks are explained explain one more flag.
LEMMA CauseGrows ==
  ASSUME NEW fl, NEW fo, Caused(fl, fo), NEW a, NEW b,
         HasCall(a) \/ a \in fl
  PROVE  Caused(fl \cup {b}, fo \cup {<< a, b >>})
<1> SUFFICES ASSUME NEW B \in (SUBSET (fl \cup {b})) \ {{}}
             PROVE  \E e \in fo \cup {<< a, b >>} :
                      e[2] \in B /\ (HasCall(e[1]) \/ e[1] \in (fl \cup {b}) \ B)
  BY DEF Caused
<1>1. CASE B \subseteq fl
  <2>1. PICK e \in fo : e[2] \in B /\ (HasCall(e[1]) \/ e[1] \in fl \ B)
    BY <1>1 DEF Caused
  <2>2. QED
    BY <2>1
<1>2. CASE b \in B /\ b \notin fl
  <2>1. CASE HasCall(a) \/ a \notin B
    <3> DEFINE e == << a, b >>
    <3>1. e[1] = a /\ e[2] = b
      OBVIOUS
    <3> HIDE DEF e
    <3>2. e[2] \in B /\ (HasCall(e[1]) \/ e[1] \in (fl \cup {b}) \ B)
      BY <1>2, <2>1, <3>1
    <3>3. QED
      BY <3>2 DEF e
  <2>2. CASE a \in B /\ a \in fl
    <3>1. B \ {b} \in (SUBSET fl) \ {{}}
      BY <1>2, <2>2
    <3>2. PICK e \in fo : e[2] \in B \ {b} /\ (HasCall(e[1]) \/ e[1] \in fl \ (B \ {b}))
      BY <3>1 DEF Caused
    <3>3. e[1] \in fl \ (B \ {b}) => e[1] \in (fl \cup {b}) \ B
      BY <1>2
    <3>4. QED
      BY <3>2, <3>3
  <2>3. QED
    BY <2>1, <2>2
<1>3. QED
  BY <1>1, <1>2

LEMMA CauseStays ==
  ASSUME NEW fl, NEW fo, NEW go, Caused(fl, fo), fo \subseteq go
  PROVE  Caused(fl, go)
  BY DEF Caused

\* The calls after a step that puts the calls new in place of the innermost one.
LEMMA FramesReplaced ==
  ASSUME FTypeOK, frames # << >>, NEW new \in Seq(CallFrame),
         frames' = new \o Tail(frames)
  PROVE  /\ frames' \in Seq(CallFrame)
         /\ \A k \in 1 .. Len(frames') :
              \/ \E n \in 1 .. Len(new) : frames'[k] = new[n]
              \/ \E n \in 1 .. Len(frames) : frames'[k] = frames[n]
<1>1. /\ frames \in Seq(CallFrame) /\ Tail(frames) \in Seq(CallFrame)
      /\ Len(Tail(frames)) = Len(frames) - 1
      /\ \A i \in 1 .. Len(Tail(frames)) : Tail(frames)[i] = frames[i + 1]
      /\ Len(frames) \in Nat /\ Len(new) \in Nat
  BY HeadTailProperties DEF FTypeOK
<1>2. /\ frames' \in Seq(CallFrame)
      /\ Len(frames') = Len(new) + Len(Tail(frames))
      /\ \A i \in 1 .. Len(new) + Len(Tail(frames)) :
           frames'[i] = IF i <= Len(new) THEN new[i] ELSE Tail(frames)[i - Len(new)]
  BY <1>1, ConcatProperties
<1>3. ASSUME NEW k \in 1 .. Len(frames')
      PROVE  \/ \E n \in 1 .. Len(new) : frames'[k] = new[n]
             \/ \E n \in 1 .. Len(frames) : frames'[k] = frames[n]
  <2>1. CASE k <= Len(new)
    BY <1>1, <1>2, <2>1
  <2>2. CASE ~(k <= Len(new))
    <3>1. k - Len(new) \in 1 .. Len(Tail(frames))
      BY <1>1, <1>2, <2>2
    <3>2. frames'[k] = frames[k - Len(new) + 1] /\ k - Len(new) + 1 \in 1 .. Len(frames)
      BY <1>1, <1>2, <2>2, <3>1
    <3>3. QED
      BY <3>2
  <2>3. QED
    BY <2>1, <2>2
<1>4. QED
  BY <1>2, <1>3

\* What a step of executeBlock or executeFunction has to show: its new calls and
\* flags are in order, and the map is mended at most.
LEMMA ExecKeeps ==
  ASSUME FInv, mode = "execute", frames # << >>, Stay,
         Mends(blocks, blocks'),
         NEW new \in Seq(CallFrame), frames' = new \o Tail(frames),
         \A k \in 1 .. Len(new) :
           new[k].block \in DOMAIN blocks /\ FrameOK(new[k], blocks', flags', inherit'),
         flags \subseteq flags', flags' \subseteq DOMAIN blocks,
         inherit \subseteq inherit', inherit' \subseteq DOMAIN blocks,
         \A b \in inherit' : HasCall(b) \/ b \in flags',
         followed' \subseteq (DOMAIN blocks) \X (DOMAIN blocks),
         Caused(flags', followed'),
         path' \subseteq DOMAIN blocks,
         NoJumpBehindHalt => \A b \in path' : blocks'[b].nextDefault # NODE_DEADEND
  PROVE  FInv'
<1>1. /\ listing' = listing /\ extent' = extent /\ mode' = mode /\ todo' = todo
      /\ UNCHANGED << codeSize, instIndex, basicBlockOffset, exitNodes, cvars >>
      /\ phase' = phase
  BY DEF Stay, cvars
<1>2. /\ DOMAIN blocks' = DOMAIN blocks /\ phase' = "done"
      /\ \A b \in DOMAIN blocks : blocks'[b].size = blocks[b].size
                                  /\ blocks'[b].fnAddrHash = blocks[b].fnAddrHash
  BY <1>1 DEF Mends, FInv, FTypeOK
<1>3. CInv'
  BY <1>1, MendedMap
<1>4. /\ frames' \in Seq(CallFrame)
      /\ \A k \in 1 .. Len(frames') :
           \/ \E n \in 1 .. Len(new) : frames'[k] = new[n]
           \/ \E n \in 1 .. Len(frames) : frames'[k] = frames[n]
  BY FramesReplaced DEF FInv
<1>5. ASSUME NEW k \in 1 .. Len(frames)
      PROVE  frames[k].block \in DOMAIN blocks /\ FrameOK(frames[k], blocks', flags', inherit')
  <2>1. frames[k].block \in DOMAIN blocks /\ FrameOK(frames[k], blocks, flags, inherit)
    BY DEF FInv, FTypeOK
  <2> DEFINE f == frames[k]
  <2> HIDE DEF f
  <2>2. f.block \in DOMAIN blocks /\ FrameOK(f, blocks, flags, inherit)
    BY <2>1 DEF f
  <2>3. FrameOK(f, blocks', flags', inherit')
    BY <2>2, FrameKeeps
  <2>4. QED
    BY <2>1, <2>3 DEF f
<1>6. \A k \in 1 .. Len(frames') :
        frames'[k].block \in DOMAIN blocks /\ FrameOK(frames'[k], blocks', flags', inherit')
  BY <1>4, <1>5
<1>7. (\A k \in 1 .. Len(frames) : FrameOK(frames[k], blocks, flags, inherit))'
  BY <1>1, <1>6, SameProgram
<1>8. FTypeOK'
  <2>1. (frames \in Seq(CallFrame))'
    BY <1>4 DEF CallFrame
  <2>2. QED
    BY <1>1, <1>2, <1>6, <2>1 DEF FInv, FTypeOK
<1>9. Functions' = Functions
  BY <1>2 DEF Functions
<1>10. ExtentsOK'
  BY <1>1, <1>2, JumpsSame DEF FInv, ExtentsOK
<1>11. Caused(flags, followed)' /\ (\A b \in inherit : HasCall(b) \/ b \in flags)'
  BY <1>1, SameProgram
<1>12. PathMended'
  BY <1>1, SameProgram DEF PathMended
<1>13. QED
  BY <1>1, <1>3, <1>7, <1>8, <1>9, <1>10, <1>11, <1>12 DEF FInv

\* The map stays.
LEMMA MapStays ==
  ASSUME FInv, mode # "off"
  PROVE  Mends(blocks, blocks)
<1>1. phase = "done" /\ Typed(blocks) /\ \A b \in DOMAIN blocks : Linked(blocks, b)
  BY DEF FInv, FTypeOK, CInv, CTypeOK, TypeOK, Typed
<1>2. QED
  BY <1>1 DEF Mends, Linked

\* The innermost call.
LEMMA InnermostCall ==
  ASSUME FInv, mode = "execute", frames # << >>
  PROVE  /\ Exec \in CallFrame /\ Here \in DOMAIN blocks /\ Here = Exec.block
         /\ FrameOK(Exec, blocks, flags, inherit)
         /\ phase = "done" /\ NODE_DEADEND \notin DOMAIN blocks /\ Linked(blocks, Here)
         /\ Typed(blocks) /\ blocks[Here] \in Block
         /\ extent[Here] = [from |-> IndexAt(Here), to |-> IndexAt(Here + blocks[Here].size)]
<1>1. /\ frames \in Seq(CallFrame) /\ phase = "done"
      /\ \A i \in 1 .. Len(frames) : frames[i].block \in DOMAIN blocks
  BY DEF FInv, FTypeOK
<1>2. Exec = frames[1] /\ 1 \in 1 .. Len(frames) /\ Exec \in CallFrame
  BY <1>1 DEF Exec
<1>3. Here \in DOMAIN blocks /\ Here = Exec.block
  BY <1>1, <1>2 DEF Here
<1>4. Typed(blocks) /\ Linked(blocks, Here) /\ NODE_DEADEND \notin DOMAIN blocks
  BY <1>1, <1>3 DEF FInv, CInv, CTypeOK, TypeOK, Typed
<1>5. blocks[Here] \in Block
  BY <1>3, <1>4 DEF Typed
<1>6. QED
  BY <1>1, <1>2, <1>3, <1>4, <1>5 DEF FInv, ExtentsOK

\* An extent is in the listing.
LEMMA ExtentsIndex ==
  ASSUME ListingOK, NEW o
  PROVE  IndexAt(o) \in 1 .. Len(listing) + 1 /\ Len(listing) \in Nat
<1>1. Len(listing) \in Nat
  BY Neighbours
<1>2. CASE \E i \in 1 .. Len(listing) : OffsetOf(i) = o
  <2>1. (CHOOSE i \in 1 .. Len(listing) : OffsetOf(i) = o) \in 1 .. Len(listing)
    BY <1>2
  <2>2. QED
    BY <1>1, <1>2, <2>1 DEF IndexAt
<1>3. QED
  BY <1>1, <1>2 DEF IndexAt

LEMMA ListingLength ==
  ASSUME FInv
  PROVE  ListingOK /\ Len(listing) \in Nat
<1>1. ListingOK
  BY DEF FInv, CInv
<1>2. QED
  BY <1>1, Neighbours

LEMMA DropTyped ==
  ASSUME NEW s \in Seq(Nat), NEW n \in Nat
  PROVE  Drop(s, n) \in Seq(Nat)
<1>1. \A i \in n + 1 .. Len(s) : s[i] \in Nat
  OBVIOUS
<1>2. QED
  BY <1>1, SubSeqProperties DEF Drop

\* The instruction a call is at, and the call behind it.
LEMMA ExecutedInstr ==
  ASSUME FInv, AtInstr
  PROVE  /\ mode = "execute" /\ frames # << >> /\ Exec.pc = "run"
         /\ Exec.at \in 1 .. Len(listing) /\ Exec.at < extent[Here].to
         /\ extent[Here].from \in 1 .. Exec.at
         /\ extent[Here].to \in Nat
         /\ StackAfter(Exec.vm, Exec.at) \in Seq(Nat)
         /\ [Exec EXCEPT !.at = @ + 1, !.vm = StackAfter(@, Exec.at)] \in CallFrame
<1>1. mode = "execute" /\ frames # << >> /\ Exec.pc = "run" /\ Exec.at < extent[Here].to
  BY DEF AtInstr, Running
<1>2. /\ Exec \in CallFrame /\ FrameOK(Exec, blocks, flags, inherit) /\ Here = Exec.block
      /\ extent[Here] = [from |-> IndexAt(Here), to |-> IndexAt(Here + blocks[Here].size)]
  BY <1>1, InnermostCall
<1>3. ListingOK /\ listing \in Seq(Instr)
  BY Neighbours DEF FInv, CInv
<1>4. /\ extent[Here].from \in 1 .. Len(listing) + 1
      /\ extent[Here].to \in 1 .. Len(listing) + 1 /\ Len(listing) \in Nat
  BY <1>2, <1>3, ExtentsIndex
<1>5. extent[Here].from <= Exec.at /\ Exec.at \in Nat /\ Exec.vm \in Seq(Nat)
  BY <1>2 DEF FrameOK, CallFrame
<1>6. Exec.at \in 1 .. Len(listing) /\ extent[Here].from \in 1 .. Exec.at
  BY <1>1, <1>4, <1>5
<1>7. StackAfter(Exec.vm, Exec.at) \in Seq(Nat)
  <2> DEFINE s == Exec.vm
             i == Exec.at
  <2>1. s \in Seq(Nat) /\ listing[i].data \in Nat
    <3>1. listing[i] \in Instr
      BY <1>3, <1>6
    <3>2. QED
      BY <1>5, <3>1 DEF Instr
  <2> HIDE DEF s, i
  <2>2. << listing[i].data >> \o s \in Seq(Nat) /\ << 0 >> \o s \in Seq(Nat)
    <3>1. << listing[i].data >> \in Seq(Nat) /\ << 0 >> \in Seq(Nat)
      BY <2>1
    <3>2. QED
      BY <2>1, <3>1, ConcatProperties
  <2>3. Drop(s, 1) \in Seq(Nat) /\ Drop(s, 2) \in Seq(Nat)
    BY <2>1, DropTyped
  <2>4. StackAfter(s, i) \in Seq(Nat)
    BY <2>1, <2>2, <2>3, Zenon DEF StackAfter
  <2>5. QED
    BY <2>4 DEF s, i
<1>8. [Exec EXCEPT !.at = @ + 1, !.vm = StackAfter(@, Exec.at)] \in CallFrame
  <2> DEFINE s == StackAfter(Exec.vm, Exec.at)
  <2>1. s \in Seq(Nat)
    BY <1>7
  <2> HIDE DEF s
  <2>2. ASSUME NEW e \in CallFrame
        PROVE  [e EXCEPT !.at = e.at + 1, !.vm = s] \in CallFrame
    <3> DEFINE n == e.at + 1
    <3>1. n \in Nat
      BY DEF CallFrame
    <3> HIDE DEF n
    <3>2. [e EXCEPT !.at = n, !.vm = s] \in CallFrame
      BY <2>1, <3>1, Zenon DEF CallFrame
    <3>3. QED
      BY <3>2 DEF n
  <2>3. QED
    BY <1>2, <2>2 DEF s
<1>9. QED
  BY <1>1, <1>4, <1>6, <1>7, <1>8

\* The call behind the instruction it was at.
Advanced == [Exec EXCEPT !.at = @ + 1, !.vm = StackAfter(@, Exec.at)]

LEMMA AdvancedOK ==
  ASSUME FInv, AtInstr, NEW r, Mends(blocks, r), NEW jh, inherit \subseteq jh,
         ExecOp = "JUMP" => r[Here].nextDefault # NODE_DEADEND,
         ExecOp = "CALL" => Here \in jh
  PROVE  << Advanced >> \in Seq(CallFrame) /\ Advanced.block \in DOMAIN blocks
         /\ FrameOK(Advanced, r, flags, jh)
<1>1. /\ mode = "execute" /\ frames # << >> /\ Exec.pc = "run"
      /\ Exec.at \in 1 .. Len(listing) /\ extent[Here].from \in 1 .. Exec.at
      /\ extent[Here].to \in Nat /\ Advanced \in CallFrame /\ Exec.at < extent[Here].to
  BY ExecutedInstr DEF Advanced
<1>2. /\ Exec \in CallFrame /\ Here \in DOMAIN blocks /\ Here = Exec.block
      /\ FrameOK(Exec, blocks, flags, inherit) /\ Len(listing) \in Nat
  BY <1>1, InnermostCall, ListingLength
<1> DEFINE a == Advanced
           from == extent[Here].from
           to == extent[Here].to
<1>3. /\ a.block = Here /\ a.at = Exec.at + 1 /\ a.pc = "run"
      /\ a.afterCall = Exec.afterCall
  BY <1>1, <1>2 DEF Advanced, CallFrame
<1>4. FrameOK(Exec, r, flags, jh)
  BY <1>2, FrameKeeps
<1>5. /\ r[Here].nextDefault = NODE_DEADEND =>
           \E j \in Nat : Exec.at <= j /\ JumpsAt(from, to, j)
      /\ Exec.afterCall => Here \in flags /\ Here \in jh
      /\ (\E i \in from .. Exec.at - 1 : listing[i].op = "CALL") => Here \in jh
  BY <1>1, <1>2, <1>4 DEF FrameOK
<1> HIDE DEF a, from, to
<1>6. from \in Nat /\ to \in Nat /\ Exec.at \in Nat /\ from <= Exec.at
  BY <1>1, <1>2 DEF from, to
<1>7. r[Here].nextDefault = NODE_DEADEND =>
        \E j \in Nat : Exec.at + 1 <= j /\ JumpsAt(from, to, j)
  <2> SUFFICES ASSUME r[Here].nextDefault = NODE_DEADEND
               PROVE  \E j \in Nat : Exec.at + 1 <= j /\ JumpsAt(from, to, j)
    OBVIOUS
  <2>1. PICK j \in Nat : Exec.at <= j /\ JumpsAt(from, to, j)
    BY <1>5
  <2>2. j # Exec.at
    BY <2>1 DEF JumpsAt, ExecOp
  <2>3. QED
    BY <1>6, <2>1, <2>2
<1>8. (\E i \in from .. (Exec.at + 1) - 1 : listing[i].op = "CALL") => Here \in jh
  <2> SUFFICES ASSUME NEW i \in from .. (Exec.at + 1) - 1, listing[i].op = "CALL"
               PROVE  Here \in jh
    OBVIOUS
  <2>1. CASE i = Exec.at
    BY <2>1 DEF ExecOp
  <2>2. CASE i # Exec.at
    BY <1>5, <1>6, <2>2
  <2>3. QED
    BY <2>1, <2>2
<1>9. FrameOK(a, r, flags, jh)
  BY <1>3, <1>5, <1>6, <1>7, <1>8 DEF FrameOK, from, to
<1>10. QED
  BY <1>1, <1>2, <1>3, <1>9 DEF a

\* A step that executes an instruction and goes on to the next.
LEMMA AdvanceKeeps ==
  ASSUME FInv, AtInstr, Advance, Stay, Mends(blocks, blocks'),
         ExecOp = "JUMP" => blocks'[Here].nextDefault # NODE_DEADEND,
         inherit' = IF ExecOp = "CALL" THEN inherit \cup {Here} ELSE inherit,
         UNCHANGED << flags, path, followed >>
  PROVE  FInv'
<1>1. /\ mode = "execute" /\ frames # << >>
      /\ Exec.at \in 1 .. Len(listing) /\ extent[Here].from \in 1 .. Exec.at
      /\ extent[Here].to \in Nat /\ Exec.at < extent[Here].to
      /\ frames' = << Advanced >> \o Tail(frames)
  BY ExecutedInstr DEF Advanced, Advance, Resume
<1>2. Here \in DOMAIN blocks /\ Len(listing) \in Nat
  BY <1>1, InnermostCall, ListingLength
<1>3. /\ inherit \subseteq inherit' /\ inherit' \subseteq DOMAIN blocks
      /\ ExecOp = "CALL" => Here \in inherit'
      /\ flags' = flags /\ path' = path /\ followed' = followed
      /\ flags \subseteq DOMAIN blocks /\ path \subseteq DOMAIN blocks
      /\ followed \subseteq (DOMAIN blocks) \X (DOMAIN blocks)
      /\ Caused(flags, followed)
  BY <1>2 DEF FInv, FTypeOK
<1>4. << Advanced >> \in Seq(CallFrame) /\ Advanced.block \in DOMAIN blocks
        /\ FrameOK(Advanced, blocks', flags', inherit')
  BY <1>3, AdvancedOK
<1>5. \A b \in inherit' : HasCall(b) \/ b \in flags'
  <2>1. ExecOp = "CALL" => HasCall(Here)
    BY <1>1 DEF HasCall, ExecOp
  <2>2. QED
    BY <1>3, <2>1 DEF FInv
<1>6. NoJumpBehindHalt => \A b \in path' : blocks'[b].nextDefault # NODE_DEADEND
  BY <1>3 DEF FInv, PathMended, Mends
<1> DEFINE new == << Advanced >>
<1>7. new \in Seq(CallFrame) /\ frames' = new \o Tail(frames)
      /\ \A k \in 1 .. Len(new) :
           new[k].block \in DOMAIN blocks /\ FrameOK(new[k], blocks', flags', inherit')
  BY <1>1, <1>4
<1> HIDE DEF new
<1>8. QED
  BY <1>1, <1>3, <1>5, <1>6, <1>7, ExecKeeps

\* JUMP puts the successor on the stack in place of the analysis' (VMState.cpp:
\* 778-791).
LEMMA ExecJumpKeeps ==
  ASSUME FInv, ExecJump
  PROVE  FInv'
<1> DEFINE v == Exec.vm[1]
           n == GetBlockAt(blocks, v)
<1>1. /\ AtInstr /\ ExecOp = "JUMP" /\ Advance /\ Stay
      /\ UNCHANGED << flags, inherit, path, followed >>
      /\ blocks[Here].dstDefault = NODE_DEADEND => Exec.vm # << >>
      /\ blocks' = IF Exec.vm # << >> /\ (v # blocks[Here].dstDefault
                                            \/ blocks[Here].dstDefault = NODE_DEADEND)
                     THEN [blocks EXCEPT ![Here].dstDefault = v, ![Here].nextDefault = n]
                     ELSE blocks
  BY DEF ExecJump
<1>2. mode = "execute" /\ frames # << >>
  BY <1>1, ExecutedInstr
<1>3. /\ Exec \in CallFrame /\ Here \in DOMAIN blocks /\ Typed(blocks)
      /\ NODE_DEADEND \notin DOMAIN blocks /\ Linked(blocks, Here)
  BY <1>2, InnermostCall
<1>4. Mends(blocks, blocks)
  BY <1>2, MapStays
<1>5. CASE blocks' = blocks /\ blocks[Here].dstDefault # NODE_DEADEND
  <2>1. blocks'[Here].nextDefault # NODE_DEADEND /\ Mends(blocks, blocks')
    BY <1>3, <1>4, <1>5 DEF Linked
  <2>2. QED
    BY <1>1, <2>1, AdvanceKeeps
<1>6. CASE /\ Exec.vm # << >>
           /\ blocks' = [blocks EXCEPT ![Here].dstDefault = v, ![Here].nextDefault = n]
  <2>1. v \in Nat
    BY <1>3, <1>6 DEF CallFrame
  <2>2. n \in DOMAIN blocks \cup {NULL} /\ n # NODE_DEADEND /\ n \in Nat \cup {NULL}
    BY <1>3, <2>1, NodeAssumption DEF GetBlockAt
  <2> HIDE DEF v, n
  <2>3. Patched(blocks, blocks', Here, v, n)
    BY <1>3, <1>6, <2>1, <2>2, PatchFields
  <2>4. Mends(blocks, blocks') /\ blocks'[Here].nextDefault # NODE_DEADEND
    BY <1>3, <1>4, <2>2, <2>3 DEF Patched, Mends
  <2>5. QED
    BY <1>1, <2>4, AdvanceKeeps
<1>7. QED
  BY <1>1, <1>5, <1>6

\* Block c of map m gets the successor d of its branch, and the pointer n to it.
LEMMA BranchMends ==
  ASSUME NEW m, Mends(m, m), NODE_DEADEND \notin DOMAIN m,
         NEW c \in DOMAIN m, NEW d \in Nat, NEW n \in DOMAIN m \cup {NULL},
         NEW r, r = [m EXCEPT ![c].dstJUMPI = d, ![c].nextJUMPI = n]
  PROVE  Mends(m, r)
<1>1. DOMAIN r = DOMAIN m /\ \A b \in DOMAIN m : b # c => r[b] = m[b]
  OBVIOUS
<1>2. r[c] = [m[c] EXCEPT !.dstJUMPI = d, !.nextJUMPI = n]
  OBVIOUS
<1>3. Typed(m) /\ \A b \in DOMAIN m : m[b] \in Block
  BY DEF Typed, Mends
<1>4. n \in Nat \cup {NULL}
  BY <1>3 DEF Typed
<1>5. /\ r[c] \in Block /\ r[c].size = m[c].size /\ r[c].fnAddrHash = m[c].fnAddrHash
      /\ r[c].nextJUMPI = n
      /\ r[c].dstDefault = m[c].dstDefault /\ r[c].nextDefault = m[c].nextDefault
  BY <1>2, <1>3, <1>4 DEF Block
<1>6. Typed(r)
  <2>1. r = [b \in DOMAIN r |-> r[b]]
    OBVIOUS
  <2>2. \A b \in DOMAIN r : r[b] \in Block
    BY <1>1, <1>3, <1>5
  <2>3. r \in [DOMAIN r -> Block]
    BY <2>1, <2>2
  <2>4. QED
    BY <1>1, <1>3, <2>3 DEF Typed
<1>7. n # NODE_DEADEND
  BY NodeAssumption
<1>8. QED
  BY <1>1, <1>5, <1>6, <1>7 DEF Mends

\* JUMPI does the same with the block's branch (VMState.cpp:792-804).
LEMMA ExecJumpiKeeps ==
  ASSUME FInv, ExecJumpi
  PROVE  FInv'
<1> DEFINE v == Exec.vm[1]
           n == GetBlockAt(blocks, v)
<1>1. /\ AtInstr /\ ExecOp = "JUMPI" /\ Advance /\ Stay
      /\ UNCHANGED << flags, inherit, path, followed >>
      /\ blocks' = IF Exec.vm # << >> /\ v # blocks[Here].dstJUMPI
                     THEN [blocks EXCEPT ![Here].dstJUMPI = v, ![Here].nextJUMPI = n]
                     ELSE blocks
  BY DEF ExecJumpi
<1>2. mode = "execute" /\ frames # << >>
  BY <1>1, ExecutedInstr
<1>3. Exec \in CallFrame /\ Here \in DOMAIN blocks /\ NODE_DEADEND \notin DOMAIN blocks
  BY <1>2, InnermostCall
<1>4. Mends(blocks, blocks)
  BY <1>2, MapStays
<1>5. Mends(blocks, blocks')
  <2>1. CASE blocks' = blocks
    BY <1>4, <2>1
  <2>2. CASE /\ Exec.vm # << >>
             /\ blocks' = [blocks EXCEPT ![Here].dstJUMPI = v, ![Here].nextJUMPI = n]
    <3>1. v \in Nat /\ n \in DOMAIN blocks \cup {NULL}
      BY <1>3, <2>2 DEF CallFrame, GetBlockAt
    <3> HIDE DEF v, n
    <3>2. QED
      BY <1>3, <1>4, <2>2, <3>1, BranchMends
  <2>3. QED
    BY <1>1, <2>1, <2>2
<1>6. QED
  BY <1>1, <1>5, AdvanceKeeps

\* Every other instruction; a CALL flags what its block leads to (VMState.cpp:
\* 813-817).
LEMMA ExecOtherKeeps ==
  ASSUME FInv, ExecOther
  PROVE  FInv'
<1>1. /\ AtInstr /\ ExecOp # "JUMP" /\ Advance /\ Stay /\ blocks' = blocks
      /\ UNCHANGED << flags, path, followed >>
      /\ inherit' = IF ExecOp = "CALL" THEN inherit \cup {Here} ELSE inherit
  BY DEF ExecOther
<1>2. Mends(blocks, blocks')
  BY <1>1, ExecutedInstr, MapStays
<1>3. QED
  BY <1>1, <1>2, AdvanceKeeps

\* What a step shows that puts the calls new in place of the innermost one and
\* changes neither map nor flags.
LEMMA CallsChange ==
  ASSUME FInv, mode = "execute", frames # << >>, Stay,
         UNCHANGED << blocks, flags, inherit, followed >>,
         NEW new \in Seq(CallFrame), frames' = new \o Tail(frames),
         \A k \in 1 .. Len(new) :
           new[k].block \in DOMAIN blocks /\ FrameOK(new[k], blocks, flags, inherit),
         path' = path \/ /\ path' = path \cup {Here}
                         /\ NoJumpBehindHalt => blocks[Here].nextDefault # NODE_DEADEND
  PROVE  FInv'
<1>1. /\ blocks' = blocks /\ flags' = flags /\ inherit' = inherit /\ followed' = followed
      /\ Mends(blocks, blocks')
  BY MapStays
<1>2. /\ flags \subseteq DOMAIN blocks /\ inherit \subseteq DOMAIN blocks
      /\ path \subseteq DOMAIN blocks /\ followed \subseteq (DOMAIN blocks) \X (DOMAIN blocks)
      /\ Caused(flags, followed) /\ \A b \in inherit : HasCall(b) \/ b \in flags
      /\ Here \in DOMAIN blocks
  BY InnermostCall DEF FInv, FTypeOK
<1>3. path' \subseteq DOMAIN blocks
  BY <1>2
<1>4. NoJumpBehindHalt => \A b \in path' : blocks'[b].nextDefault # NODE_DEADEND
  BY <1>1 DEF FInv, PathMended
<1>5. \A k \in 1 .. Len(new) :
        new[k].block \in DOMAIN blocks /\ FrameOK(new[k], blocks', flags', inherit')
  BY <1>1
<1>6. QED
  BY <1>1, <1>2, <1>3, <1>4, <1>5, ExecKeeps

LEMMA NoCalls ==
  ASSUME FInv, frames # << >>, Leave
  PROVE  << >> \in Seq(CallFrame) /\ frames' = << >> \o Tail(frames)
<1>1. Tail(frames) \in Seq(CallFrame)
  BY HeadTailProperties DEF FInv, FTypeOK
<1>2. QED
  BY <1>1, ConcatEmptySeq DEF Leave

\* No halt comes before the jump that mends its block.
LEMMA HaltMends ==
  ASSUME FInv, AtInstr, EndsFunction, NoJumpBehindHalt
  PROVE  blocks[Here].nextDefault # NODE_DEADEND
<1> SUFFICES ASSUME blocks[Here].nextDefault = NODE_DEADEND PROVE FALSE
  OBVIOUS
<1> DEFINE from == extent[Here].from
           to == extent[Here].to
<1>1. /\ mode = "execute" /\ frames # << >> /\ Exec.pc = "run"
      /\ Exec.at \in 1 .. Len(listing) /\ from \in 1 .. Exec.at /\ to \in Nat
  BY ExecutedInstr
<1>2. /\ Here = Exec.block /\ FrameOK(Exec, blocks, flags, inherit)
      /\ Linked(blocks, Here) /\ Len(listing) \in Nat
      /\ extent[Here] = [from |-> IndexAt(Here), to |-> IndexAt(Here + blocks[Here].size)]
  BY <1>1, InnermostCall, ListingLength
<1>3. PICK j \in Nat : Exec.at <= j /\ JumpsAt(from, to, j)
  BY <1>1, <1>2 DEF FrameOK
<1>4. to \in 1 .. Len(listing) + 1
  BY <1>2, ExtentsIndex DEF FInv, CInv
<1> HIDE DEF from, to
<1>5. /\ j \in 1 .. Len(listing) /\ listing[j].op = "JUMP" /\ j < to
      /\ \A k \in from + 1 .. j : listing[k].op # "JUMPDEST" /\ listing[k - 1].op # "JUMPI"
  BY <1>1, <1>2, <1>3, <1>4 DEF JumpsAt
<1>6. blocks[Here].dstDefault = NODE_DEADEND
  BY <1>2 DEF Linked
<1>7. CASE ExecOp \in Halts
  <2>1. Exec.at < j
    BY <1>1, <1>3, <1>5, <1>7 DEF ExecOp, Halts
  <2>2. PICK k \in Exec.at + 1 .. j : listing[k].op = "JUMPDEST"
    BY <1>1, <1>5, <1>7, <2>1 DEF NoJumpBehindHalt, ExecOp
  <2>3. k \in from + 1 .. j
    BY <1>1, <1>5
  <2>4. QED
    BY <1>5, <2>2, <2>3
<1>8. CASE ExecOp = "JUMP" /\ blocks[Here].dstDefault = 0
  BY <1>6, <1>8, NodeAssumption
<1>9. CASE ExecOp = "JUMPI"
  <2>1. Exec.at < j
    BY <1>1, <1>3, <1>5, <1>9 DEF ExecOp
  <2>2. Exec.at + 1 \in from + 1 .. j /\ (Exec.at + 1) - 1 = Exec.at
    BY <1>1, <1>5, <2>1
  <2>3. listing[Exec.at].op # "JUMPI"
    BY <1>5, <2>2
  <2>4. QED
    BY <1>9, <2>3 DEF ExecOp
<1>10. QED
  BY <1>7, <1>8, <1>9 DEF EndsFunction

\* An instruction that ends the function (VMState.cpp:777-809).
LEMMA ExecHaltKeeps ==
  ASSUME FInv, ExecHalt
  PROVE  FInv'
<1>1. /\ AtInstr /\ EndsFunction /\ Leave /\ VisitHere /\ Stay
      /\ UNCHANGED << blocks, flags, inherit, followed >>
  BY DEF ExecHalt
<1>2. mode = "execute" /\ frames # << >>
  BY <1>1, ExecutedInstr
<1>3. NoJumpBehindHalt => blocks[Here].nextDefault # NODE_DEADEND
  BY <1>1, HaltMends
<1> DEFINE new == << >>
<1>4. /\ new \in Seq(CallFrame) /\ frames' = new \o Tail(frames)
      /\ \A k \in 1 .. Len(new) :
           new[k].block \in DOMAIN blocks /\ FrameOK(new[k], blocks, flags, inherit)
  BY <1>1, <1>2, NoCalls
<1>5. path' = path \/ path' = path \cup {Here}
  BY <1>1 DEF VisitHere
<1> HIDE DEF new
<1>6. QED
  BY <1>1, <1>2, <1>3, <1>4, <1>5, CallsChange

\* The end of a block: what it inherits is looked up (VMState.cpp:826-841).
LEMMA EndBlockKeeps ==
  ASSUME FInv, EndBlock
  PROVE  FInv'
<1>1. /\ mode = "execute" /\ frames # << >> /\ Exec.pc = "run"
      /\ Exec.at >= extent[Here].to /\ VisitHere /\ Stay
      /\ UNCHANGED << blocks, flags, inherit, followed >>
  BY DEF EndBlock, Running
<1> DEFINE f == [Exec EXCEPT !.pc = "branch", !.inh = Here \in inherit]
<1>2. /\ Exec \in CallFrame /\ Here \in DOMAIN blocks /\ Here = Exec.block
      /\ FrameOK(Exec, blocks, flags, inherit)
      /\ extent[Here] = [from |-> IndexAt(Here), to |-> IndexAt(Here + blocks[Here].size)]
  BY <1>1, InnermostCall
<1>3. f \in CallFrame
  <2>1. (Here \in inherit) \in BOOLEAN
    OBVIOUS
  <2>2. QED
    BY <1>2, <2>1, Zenon DEF CallFrame
<1>4. /\ f.block = Here /\ f.at = Exec.at /\ f.pc = "branch"
      /\ f.afterCall = Exec.afterCall
  BY <1>2 DEF CallFrame
<1>5. f.inh <=> Here \in inherit
  BY <1>2, Zenon DEF CallFrame
<1> HIDE DEF f
<1>6. extent[Here].from \in Nat /\ extent[Here].to \in Nat /\ Exec.at \in Nat
  BY <1>2, ExtentsIndex DEF CallFrame, FInv, CInv
<1>7. blocks[Here].nextDefault # NODE_DEADEND
  BY <1>1, <1>2, <1>6 DEF FrameOK, JumpsAt
<1>8. HasCall(Here) => Here \in inherit
  <2> SUFFICES ASSUME NEW i \in extent[Here].from .. extent[Here].to - 1,
                      listing[i].op = "CALL"
               PROVE  Here \in inherit
    BY DEF HasCall
  <2>1. i \in extent[Here].from .. Exec.at - 1
    BY <1>1, <1>6
  <2>2. QED
    BY <1>1, <1>2, <2>1 DEF FrameOK
<1>9. Exec.afterCall => Here \in inherit
  BY <1>1, <1>2 DEF FrameOK
<1>10. FrameOK(f, blocks, flags, inherit)
  <2>1. extent[f.block].from <= f.at
    BY <1>2, <1>4 DEF FrameOK
  <2>2. f.pc # "run" /\ f.pc = "branch"
    BY <1>4
  <2>3. f.afterCall \/ HasCall(f.block) => f.inh
    BY <1>4, <1>5, <1>8, <1>9
  <2>4. QED
    BY <1>4, <1>5, <1>7, <2>1, <2>2, <2>3 DEF FrameOK
<1> DEFINE new == << f >>
<1>11. /\ new \in Seq(CallFrame) /\ frames' = new \o Tail(frames)
       /\ \A k \in 1 .. Len(new) :
            new[k].block \in DOMAIN blocks /\ FrameOK(new[k], blocks, flags, inherit)
  <2>1. frames' = << f >> \o Tail(frames)
    BY DEF EndBlock, Resume, f
  <2>2. QED
    BY <1>2, <1>3, <1>4, <1>10, <2>1
<1>12. path' = path \/ path' = path \cup {Here}
  BY <1>1 DEF VisitHere
<1> HIDE DEF new
<1>13. QED
  BY <1>1, <1>7, <1>11, <1>12, CallsChange

\* A call whose branch is done, or that has none, is as it was.
LEMMA NextOK ==
  ASSUME NEW e \in CallFrame, e.pc = "branch", NEW m, NEW fl, NEW ih,
         FrameOK(e, m, fl, ih)
  PROVE  /\ [e EXCEPT !.pc = "next"] \in CallFrame
         /\ [e EXCEPT !.pc = "next"].block = e.block
         /\ FrameOK([e EXCEPT !.pc = "next"], m, fl, ih)
<1> DEFINE f == [e EXCEPT !.pc = "next"]
<1>1. f \in CallFrame
  BY Zenon DEF CallFrame
<1>2. f.block = e.block /\ f.at = e.at /\ f.pc = "next"
  BY DEF CallFrame
<1>3. f.inh = e.inh /\ f.afterCall = e.afterCall
  BY Zenon DEF CallFrame
<1> HIDE DEF f
<1>4. FrameOK(f, m, fl, ih)
  <2>1. extent[e.block].from <= e.at /\ m[e.block].nextDefault # NODE_DEADEND
    BY DEF FrameOK
  <2>2. (e.afterCall \/ HasCall(e.block) => e.inh) /\ (e.inh => e.block \in ih)
    BY Zenon DEF FrameOK
  <2>3. f.pc # "run"
    BY <1>2
  <2>4. QED
    BY <1>2, <1>3, <2>1, <2>2, <2>3, Zenon DEF FrameOK
<1>5. QED
  BY <1>1, <1>2, <1>4 DEF f

LEMMA NoBranchKeeps ==
  ASSUME FInv, NoBranch
  PROVE  FInv'
<1>1. /\ mode = "execute" /\ frames # << >> /\ Exec.pc = "branch" /\ Stay
      /\ UNCHANGED << blocks, flags, inherit, path, followed >>
  BY DEF NoBranch, AtBranch
<1> DEFINE f == [Exec EXCEPT !.pc = "next"]
<1>2. /\ Exec \in CallFrame /\ Here \in DOMAIN blocks /\ Here = Exec.block
      /\ FrameOK(Exec, blocks, flags, inherit)
  BY <1>1, InnermostCall
<1>3. f \in CallFrame /\ f.block = Here /\ FrameOK(f, blocks, flags, inherit)
  BY <1>1, <1>2, NextOK
<1> HIDE DEF f
<1> DEFINE new == << f >>
<1>4. /\ new \in Seq(CallFrame) /\ frames' = new \o Tail(frames)
      /\ \A k \in 1 .. Len(new) :
           new[k].block \in DOMAIN blocks /\ FrameOK(new[k], blocks, flags, inherit)
  <2>1. frames' = << f >> \o Tail(frames)
    BY DEF NoBranch, Resume, f
  <2>2. QED
    BY <1>2, <1>3, <2>1
<1> HIDE DEF new
<1>5. QED
  BY <1>1, <1>4, CallsChange

LEMMA NoDefaultKeeps ==
  ASSUME FInv, NoDefault
  PROVE  FInv'
<1>1. /\ mode = "execute" /\ frames # << >> /\ Leave /\ Stay
      /\ UNCHANGED << blocks, flags, inherit, path, followed >>
  BY DEF NoDefault, AtNext
<1> DEFINE new == << >>
<1>2. /\ new \in Seq(CallFrame) /\ frames' = new \o Tail(frames)
      /\ \A k \in 1 .. Len(new) :
           new[k].block \in DOMAIN blocks /\ FrameOK(new[k], blocks, flags, inherit)
  BY <1>1, NoCalls
<1> HIDE DEF new
<1>3. QED
  BY <1>1, <1>2, CallsChange

\* A call that comes to block b.
LEMMA EnteredOK ==
  ASSUME FInv, mode # "off", NEW b \in DOMAIN blocks, NEW stk \in Seq(Nat),
         NEW after \in BOOLEAN, NEW fl, NEW ih, after => b \in fl /\ b \in ih
  PROVE  /\ CallOf(b, stk, after) \in CallFrame
         /\ CallOf(b, stk, after).block = b
         /\ FrameOK(CallOf(b, stk, after), blocks, fl, ih)
<1> DEFINE f == CallOf(b, stk, after)
<1>1. /\ extent[b] = [from |-> IndexAt(b), to |-> IndexAt(b + blocks[b].size)]
      /\ ListingOK /\ Linked(blocks, b) /\ b \in Nat
  BY DEF FInv, FTypeOK, ExtentsOK, CInv, CTypeOK, TypeOK
<1>2. extent[b].from \in Nat /\ extent[b].to \in Nat
  BY <1>1, ExtentsIndex
<1>3. f.block = b /\ f.at = extent[b].from /\ f.pc = "run" /\ f.afterCall = after
  BY Zenon DEF CallOf
<1>4. f \in CallFrame
  <2>1. FALSE \in BOOLEAN
    OBVIOUS
  <2>2. b \in Nat
    BY <1>1
  <2>3. QED
    BY <1>2, <2>1, <2>2, Zenon DEF CallFrame, CallOf
<1> HIDE DEF f
<1>5. blocks[b].nextDefault = NODE_DEADEND =>
        \E j \in Nat : extent[b].from <= j /\ JumpsAt(extent[b].from, extent[b].to, j)
  <2> SUFFICES ASSUME blocks[b].nextDefault = NODE_DEADEND
               PROVE  \E j \in Nat : extent[b].from <= j
                                     /\ JumpsAt(extent[b].from, extent[b].to, j)
    OBVIOUS
  <2>1. PICK j \in Nat : JumpsAt(extent[b].from, extent[b].to, j)
    BY <1>1 DEF Linked, HoldsJump
  <2>2. extent[b].from <= j
    BY <1>2, <2>1 DEF JumpsAt
  <2>3. QED
    BY <2>1, <2>2
<1>6. ~\E i \in extent[b].from .. extent[b].from - 1 : listing[i].op = "CALL"
  BY <1>2
<1>7. extent[b].from <= extent[b].from
  BY <1>2
<1>8. f.afterCall => b \in fl /\ b \in ih
  BY <1>3, Zenon
<1>9. FrameOK(f, blocks, fl, ih)
  BY <1>3, <1>5, <1>6, <1>7, <1>8, Zenon DEF FrameOK
<1>10. QED
  BY <1>3, <1>4, <1>9 DEF f

\* What a call hands on to the block it leads to.
LEMMA Inherits ==
  ASSUME FInv, mode = "execute", frames # << >>, Exec.pc # "run",
         NEW b \in DOMAIN blocks, Inherit(b)
  PROVE  /\ flags \subseteq flags' /\ flags' \subseteq DOMAIN blocks
         /\ inherit \subseteq inherit' /\ inherit' \subseteq DOMAIN blocks
         /\ \A c \in inherit' : HasCall(c) \/ c \in flags'
         /\ followed' \subseteq (DOMAIN blocks) \X (DOMAIN blocks)
         /\ Caused(flags', followed')
         /\ PastCall \in BOOLEAN
         /\ PastCall => b \in flags' /\ b \in inherit'
<1>1. /\ Exec \in CallFrame /\ Here \in DOMAIN blocks /\ Here = Exec.block
      /\ FrameOK(Exec, blocks, flags, inherit)
  BY InnermostCall
<1>2. /\ flags \subseteq DOMAIN blocks /\ inherit \subseteq DOMAIN blocks
      /\ followed \subseteq (DOMAIN blocks) \X (DOMAIN blocks)
      /\ Caused(flags, followed) /\ \A c \in inherit : HasCall(c) \/ c \in flags
  BY DEF FInv, FTypeOK
<1>3. /\ Exec.inh => Here \in inherit
      /\ PastCall => Exec.inh
  BY <1>1, Zenon DEF FrameOK, PastCall
<1>4. followed' = followed \cup {<< Here, b >>}
  BY DEF Inherit
<1>5. PastCall \in BOOLEAN
  <2>1. Exec.afterCall \in BOOLEAN
    BY <1>1, Zenon DEF CallFrame
  <2>2. HasCall(Here) \in BOOLEAN
    BY Zenon DEF HasCall
  <2>3. QED
    BY <2>1, <2>2, Zenon DEF PastCall
<1>6. CASE Exec.inh
  <2>1. flags' = flags \cup {b} /\ inherit' = inherit \cup {b}
    BY <1>6 DEF Inherit
  <2>2. HasCall(Here) \/ Here \in flags
    BY <1>2, <1>3, <1>6
  <2>3. Caused(flags', followed')
    BY <1>2, <1>4, <2>1, <2>2, CauseGrows
  <2>4. QED
    BY <1>1, <1>2, <1>4, <1>5, <2>1, <2>3
<1>7. CASE ~Exec.inh
  <2>1. flags' = flags /\ inherit' = inherit
    BY <1>7 DEF Inherit
  <2>2. Caused(flags', followed')
    BY <1>2, <1>4, <2>1, CauseStays
  <2>3. ~PastCall
    BY <1>3, <1>7
  <2>4. QED
    BY <1>1, <1>2, <1>4, <1>5, <2>1, <2>2, <2>3
<1>8. QED
  BY <1>6, <1>7

\* Follow a branch: a new call comes to it, and the old one waits (VMState.cpp:
\* 843-853).
LEMMA TakeBranchKeeps ==
  ASSUME FInv, TakeBranch
  PROVE  FInv'
<1> DEFINE b == blocks[Here].nextJUMPI
           e == CallOf(b, Exec.vm, PastCall)
           g == [Exec EXCEPT !.pc = "next"]
<1>1. /\ mode = "execute" /\ frames # << >> /\ Exec.pc = "branch" /\ Stay
      /\ UNCHANGED << blocks, path >> /\ Inherit(b) /\ b # NULL
      /\ frames' = << e, g >> \o Tail(frames)
  BY DEF TakeBranch, AtBranch, Branches
<1>2. /\ Exec \in CallFrame /\ Here \in DOMAIN blocks /\ Here = Exec.block
      /\ FrameOK(Exec, blocks, flags, inherit) /\ Linked(blocks, Here)
  BY <1>1, InnermostCall
<1>3. b \in DOMAIN blocks /\ Exec.vm \in Seq(Nat)
  BY <1>1, <1>2 DEF Linked, CallFrame
<1>4. /\ flags \subseteq flags' /\ flags' \subseteq DOMAIN blocks
      /\ inherit \subseteq inherit' /\ inherit' \subseteq DOMAIN blocks
      /\ \A c \in inherit' : HasCall(c) \/ c \in flags'
      /\ followed' \subseteq (DOMAIN blocks) \X (DOMAIN blocks)
      /\ Caused(flags', followed')
      /\ PastCall \in BOOLEAN
      /\ PastCall => b \in flags' /\ b \in inherit'
  BY <1>1, <1>3, Inherits
<1>5. e \in CallFrame /\ e.block = b /\ FrameOK(e, blocks, flags', inherit')
  BY <1>1, <1>3, <1>4, EnteredOK
<1>6. Mends(blocks, blocks) /\ blocks' = blocks
  BY <1>1, MapStays
<1>7. g \in CallFrame /\ g.block = Here /\ FrameOK(g, blocks, flags', inherit')
  <2>1. FrameOK(Exec, blocks, flags', inherit')
    BY <1>2, <1>4, <1>6, FrameKeeps
  <2>2. QED
    BY <1>1, <1>2, <2>1, NextOK
<1> HIDE DEF b, e, g
<1> DEFINE new == << e, g >>
<1>8. /\ new \in Seq(CallFrame) /\ frames' = new \o Tail(frames)
      /\ \A k \in 1 .. Len(new) :
           new[k].block \in DOMAIN blocks /\ FrameOK(new[k], blocks', flags', inherit')
  BY <1>1, <1>2, <1>3, <1>5, <1>6, <1>7
<1>9. /\ path' \subseteq DOMAIN blocks /\ Mends(blocks, blocks')
      /\ NoJumpBehindHalt => \A c \in path' : blocks'[c].nextDefault # NODE_DEADEND
  BY <1>1, <1>6 DEF FInv, FTypeOK, PathMended
<1> HIDE DEF new
<1>10. QED
  BY <1>1, <1>4, <1>8, <1>9, ExecKeeps

\* Go on with the default successor (VMState.cpp:859-863).
LEMMA TakeDefaultKeeps ==
  ASSUME FInv, TakeDefault
  PROVE  FInv'
<1> DEFINE b == blocks[Here].nextDefault
           e == CallOf(b, Exec.vm, PastCall)
<1>1. /\ mode = "execute" /\ frames # << >> /\ Exec.pc = "next" /\ Stay
      /\ UNCHANGED << blocks, path >> /\ Inherit(b) /\ b # NULL
      /\ frames' = << e >> \o Tail(frames)
  BY DEF TakeDefault, AtNext, Resume
<1>2. /\ Exec \in CallFrame /\ Here \in DOMAIN blocks /\ Here = Exec.block
      /\ FrameOK(Exec, blocks, flags, inherit) /\ Linked(blocks, Here)
  BY <1>1, InnermostCall
<1>3. b \in DOMAIN blocks /\ Exec.vm \in Seq(Nat)
  BY <1>1, <1>2 DEF Linked, CallFrame, FrameOK
<1>4. /\ flags \subseteq flags' /\ flags' \subseteq DOMAIN blocks
      /\ inherit \subseteq inherit' /\ inherit' \subseteq DOMAIN blocks
      /\ \A c \in inherit' : HasCall(c) \/ c \in flags'
      /\ followed' \subseteq (DOMAIN blocks) \X (DOMAIN blocks)
      /\ Caused(flags', followed')
      /\ PastCall \in BOOLEAN
      /\ PastCall => b \in flags' /\ b \in inherit'
  BY <1>1, <1>3, Inherits
<1>5. e \in CallFrame /\ e.block = b /\ FrameOK(e, blocks, flags', inherit')
  BY <1>1, <1>3, <1>4, EnteredOK
<1>6. Mends(blocks, blocks) /\ blocks' = blocks
  BY <1>1, MapStays
<1> HIDE DEF b, e
<1> DEFINE new == << e >>
<1>7. /\ new \in Seq(CallFrame) /\ frames' = new \o Tail(frames)
      /\ \A k \in 1 .. Len(new) :
           new[k].block \in DOMAIN blocks /\ FrameOK(new[k], blocks', flags', inherit')
  BY <1>1, <1>3, <1>5, <1>6
<1>8. /\ path' \subseteq DOMAIN blocks /\ Mends(blocks, blocks')
      /\ NoJumpBehindHalt => \A c \in path' : blocks'[c].nextDefault # NODE_DEADEND
  BY <1>1, <1>6 DEF FInv, FTypeOK, PathMended
<1> HIDE DEF new
<1>9. QED
  BY <1>1, <1>4, <1>7, <1>8, ExecKeeps

\* A step between executions.
LEMMA BetweenKeeps ==
  ASSUME FInv, mode # "off", mode' \in {"idle", "execute", "print", "end"},
         UNCHANGED << allVars, extent, flags, inherit, followed >>,
         todo' \subseteq todo, path' \subseteq path, frames' \in Seq(CallFrame),
         frames' # << >> => mode' = "execute",
         \A k \in 1 .. Len(frames') :
           frames'[k].block \in DOMAIN blocks
             /\ FrameOK(frames'[k], blocks, flags, inherit)
  PROVE  FInv'
<1>1. UNCHANGED vars /\ UNCHANGED cvars
  BY DEF allVars
<1>2. /\ listing' = listing /\ blocks' = blocks /\ extent' = extent
      /\ flags' = flags /\ inherit' = inherit /\ followed' = followed
      /\ phase' = phase
  BY <1>1 DEF vars, cvars
<1>3. CInv'
  BY <1>1, CInvSame DEF FInv
<1>4. FTypeOK'
  <2>1. (frames \in Seq(CallFrame))'
    BY DEF CallFrame
  <2>2. QED
    BY <1>2, <2>1 DEF FInv, FTypeOK
<1>5. Functions' = Functions /\ ExtentsOK'
  BY <1>2, JumpsSame DEF Functions, FInv, ExtentsOK
<1>6. (\A k \in 1 .. Len(frames) : FrameOK(frames[k], blocks, flags, inherit))'
  BY <1>2, SameProgram
<1>7. Caused(flags, followed)' /\ (\A b \in inherit : HasCall(b) \/ b \in flags)'
  BY <1>2, SameProgram DEF FInv
<1>8. PathMended'
  BY <1>2, SameProgram DEF FInv, PathMended
<1>9. QED
  BY <1>3, <1>4, <1>5, <1>6, <1>7, <1>8 DEF FInv

LEMMA QuietStepKeeps ==
  ASSUME FInv, ExecutionDone \/ AllDecompiled \/ PrintBlock \/ PrintDone
  PROVE  FInv'
<1>1. /\ mode # "off" /\ mode' \in {"idle", "execute", "print", "end"}
      /\ UNCHANGED << allVars, extent, flags, inherit, followed >>
      /\ todo' = todo /\ path' = path /\ frames' = frames
      /\ mode = "execute" => frames = << >>
  BY DEF ExecutionDone, AllDecompiled, PrintBlock, PrintDone
<1>2. /\ frames \in Seq(CallFrame) /\ frames = << >>
      /\ \A k \in 1 .. Len(frames) :
           frames[k].block \in DOMAIN blocks
             /\ FrameOK(frames[k], blocks, flags, inherit)
  BY <1>1 DEF FInv, FTypeOK
<1>3. QED
  BY <1>1, <1>2, BetweenKeeps

\* Every set of numbers that is not empty has a least one.
LEMMA LeastNumber ==
  ASSUME NEW T, T \subseteq Nat, T # {}
  PROVE  \E x \in T : \A y \in T : x <= y
<1>1. PICK x \in T : \A y \in T : ~(<< y, x >> \in OpToRel(<, Nat))
  BY NatLessThanWellFounded, WFMin
<1>2. ASSUME NEW y \in T PROVE x <= y
  <2>1. << y, x >> \in Nat \X Nat
    OBVIOUS
  <2>2. ~(y < x)
    BY <1>1, <2>1 DEF OpToRel
  <2>3. QED
    BY <2>2
<1>3. QED
  BY <1>2

\* The block a selector stands for (Contract.cpp:769-781).
LEMMA FunctionFound ==
  ASSUME DOMAIN blocks \subseteq Nat, NEW f \in Functions
  PROVE  FunctionOffset(blocks[f].fnAddrHash) \in Functions
<1> DEFINE h == blocks[f].fnAddrHash
           T == { b \in Functions : blocks[b].fnAddrHash = h }
<1>1. T \subseteq Nat /\ f \in T
  BY DEF Functions
<1>2. PICK b \in T : \A g \in T : b <= g
  BY <1>1, LeastNumber
<1>3. \E c \in Functions :
        /\ blocks[c].fnAddrHash = h
        /\ \A g \in Functions : blocks[g].fnAddrHash = h => c <= g
  BY <1>2
<1> HIDE DEF h
<1>4. FunctionOffset(h) \in Functions
  BY <1>3 DEF FunctionOffset
<1>5. QED
  BY <1>4 DEF h

\* The next function is executed, with an empty stack (Contract.cpp:1059-1076).
LEMMA DecompileKeeps ==
  ASSUME FInv, Decompile
  PROVE  FInv'
<1>1. PICK f \in todo : todo' = todo \ {f} /\ current' = FunctionOffset(blocks[f].fnAddrHash)
  BY DEF Decompile
<1>2. /\ mode = "idle" /\ path' = {} /\ UNCHANGED << allVars, extent, flags, inherit, followed >>
      /\ \/ UNCHANGED << mode, frames >>
         \/ mode' = "execute" /\ frames' = << CallOf(current', << >>, FALSE) >>
  BY DEF Decompile
<1>3. frames = << >> /\ todo \subseteq Functions /\ DOMAIN blocks \subseteq Nat
  BY <1>2 DEF FInv, FTypeOK, CInv, CTypeOK, TypeOK
<1>4. current' \in DOMAIN blocks
  BY <1>1, <1>3, FunctionFound DEF Functions
<1> DEFINE c == current'
           e == CallOf(c, << >>, FALSE)
<1>5. e \in CallFrame /\ e.block = c /\ FrameOK(e, blocks, flags, inherit)
  <2>1. << >> \in Seq(Nat) /\ FALSE \in BOOLEAN /\ mode # "off" /\ c \in DOMAIN blocks
    BY <1>2, <1>4
  <2> HIDE DEF c
  <2>2. QED
    BY <2>1, EnteredOK
<1> HIDE DEF e
<1>6. /\ frames' \in Seq(CallFrame)
      /\ frames' # << >> => mode' = "execute"
      /\ mode' \in {"idle", "execute", "print", "end"}
      /\ \A k \in 1 .. Len(frames') :
           frames'[k].block \in DOMAIN blocks
             /\ FrameOK(frames'[k], blocks, flags, inherit)
  <2>1. CASE UNCHANGED << mode, frames >>
    BY <1>2, <1>3, <2>1
  <2>2. CASE mode' = "execute" /\ frames' = << e >>
    BY <1>4, <1>5, <2>2
  <2>3. QED
    BY <1>2, <2>1, <2>2 DEF e
<1>7. QED
  BY <1>1, <1>2, <1>6, BetweenKeeps

\* addInstructionsToBlocks (Contract.cpp:335-356).
LEMMA ExtentsKeep ==
  ASSUME FInv, AddInstructionsToBlocks
  PROVE  FInv'
<1>1. /\ mode = "off" /\ phase = "done" /\ mode' = "idle" /\ todo' = Functions
      /\ extent' = [ b \in DOMAIN blocks |->
                       [ from |-> IndexAt(b), to |-> IndexAt(b + blocks[b].size) ] ]
      /\ UNCHANGED vars /\ UNCHANGED cvars
      /\ UNCHANGED << frames, flags, inherit, path, followed >>
  BY DEF AddInstructionsToBlocks, allVars
<1>2. /\ frames' = << >> /\ flags' = {} /\ inherit' = {} /\ path' = {} /\ followed' = {}
      /\ phase' = "done"
  BY <1>1 DEF FInv, cvars
<1>3. listing' = listing /\ blocks' = blocks
  BY <1>1 DEF vars
<1>4. CInv'
  BY <1>1, CInvSame DEF FInv
<1>5. Functions' = Functions /\ Functions \subseteq DOMAIN blocks
  BY <1>3 DEF Functions
<1>6. ExtentsOK'
  BY <1>1, <1>3, JumpsSame DEF ExtentsOK
<1>7. FTypeOK'
  <2>1. (frames \in Seq(CallFrame))'
    BY <1>2
  <2>2. QED
    BY <1>1, <1>2, <1>3, <1>5, <2>1 DEF FTypeOK
<1>8. Caused(flags, followed)' /\ PathMended'
  BY <1>2 DEF Caused, PathMended
<1>9. QED
  BY <1>1, <1>2, <1>4, <1>5, <1>6, <1>7, <1>8 DEF FInv

LEMMA AnalyseKeeps ==
  ASSUME FInv, Analyse
  PROVE  FInv'
<1>1. /\ mode' = mode /\ frames' = frames /\ flags' = flags /\ inherit' = inherit
      /\ path' = path /\ followed' = followed /\ todo' = todo
  BY DEF Analyse, fvars
<1>2. phase # "done"
  BY DEF Analyse, ScanStep, Connect, BeginConnect, WalkFunction, UnknownBlock,
         WalkedBefore, WalkBranch, WalkPlain, EndOfPath, ResolveExit, WalkOn,
         EraseExitNode, AtNewBlock, AtLookup, AtEnd
<1>3. mode = "off"
  BY <1>2 DEF FInv, FTypeOK
<1>4. /\ frames' = << >> /\ flags' = {} /\ inherit' = {} /\ path' = {} /\ followed' = {}
      /\ todo' = {} /\ mode' = "off"
  BY <1>1, <1>3 DEF FInv
<1>5. CInv'
  BY WalkStep DEF FInv, Analyse
<1>6. FTypeOK'
  <2>1. (frames \in Seq(CallFrame))'
    BY <1>4
  <2>2. QED
    BY <1>4, <2>1 DEF FTypeOK
<1>7. Caused(flags, followed)' /\ PathMended'
  BY <1>4 DEF Caused, PathMended
<1>8. QED
  BY <1>4, <1>5, <1>6, <1>7 DEF FInv

LEMMA FunctionInit == FInit => FInv
<1> SUFFICES ASSUME FInit PROVE FInv
  OBVIOUS
<1>1. /\ CInit /\ mode = "off" /\ todo = {} /\ frames = << >> /\ flags = {} /\ inherit = {}
      /\ path = {} /\ followed = {}
  BY DEF FInit
<1>2. CInv
  BY <1>1, WalkInit
<1>3. frames \in Seq(CallFrame)
  BY <1>1
<1>4. FTypeOK
  BY <1>1, <1>3 DEF FTypeOK
<1>5. Caused(flags, followed) /\ PathMended
  BY <1>1 DEF Caused, PathMended
<1>6. QED
  BY <1>1, <1>2, <1>4, <1>5 DEF FInv

LEMMA FunctionStep ==
  ASSUME FInv, [FNext]_pipelineVars
  PROVE  FInv'
<1>1. CASE Execute
  <2>1. CASE ExecutionDone
    BY <2>1, QuietStepKeeps
  <2>2. CASE ~ExecutionDone
    BY <1>1, <2>2, ExecHaltKeeps, ExecJumpKeeps, ExecJumpiKeeps, ExecOtherKeeps,
       EndBlockKeeps, TakeBranchKeeps, NoBranchKeeps, TakeDefaultKeeps, NoDefaultKeeps
       DEF Execute
  <2>3. QED
    BY <2>1, <2>2
<1>2. CASE UNCHANGED pipelineVars
  <2>1. UNCHANGED allVars /\ UNCHANGED fvars
    BY <1>2 DEF pipelineVars
  <2>2. CASE mode = "off"
    <3>1. UNCHANGED vars /\ UNCHANGED cvars
      BY <2>1 DEF allVars
    <3>2. CInv'
      BY <3>1, CInvSame DEF FInv
    <3>3. /\ frames' = << >> /\ flags' = {} /\ inherit' = {} /\ path' = {}
          /\ followed' = {} /\ todo' = {} /\ mode' = "off"
      BY <2>1, <2>2 DEF FInv, fvars
    <3>4. (frames \in Seq(CallFrame))'
      BY <3>3
    <3>5. FTypeOK'
      BY <3>3, <3>4 DEF FTypeOK
    <3>6. Caused(flags, followed)' /\ PathMended'
      BY <3>3 DEF Caused, PathMended
    <3>7. QED
      BY <3>2, <3>3, <3>5, <3>6 DEF FInv
  <2>3. CASE mode # "off"
    <3>1. /\ mode' = mode /\ extent' = extent /\ flags' = flags /\ inherit' = inherit
          /\ followed' = followed /\ todo' = todo /\ path' = path /\ frames' = frames
      BY <2>1 DEF fvars
    <3>2. /\ frames \in Seq(CallFrame) /\ (frames # << >> => mode = "execute")
          /\ mode \in {"idle", "execute", "print", "end"}
          /\ \A k \in 1 .. Len(frames) :
               frames[k].block \in DOMAIN blocks
                 /\ FrameOK(frames[k], blocks, flags, inherit)
      BY <2>3 DEF FInv, FTypeOK
    <3>3. UNCHANGED << allVars, extent, flags, inherit, followed >>
      BY <2>1, <3>1
    <3>4. mode' \in {"idle", "execute", "print", "end"} /\ frames' \in Seq(CallFrame)
            /\ (frames' # << >> => mode' = "execute")
      BY <3>1, <3>2
    <3>5. \A k \in 1 .. Len(frames') :
            frames'[k].block \in DOMAIN blocks
              /\ FrameOK(frames'[k], blocks, flags, inherit)
      BY <3>1, <3>2
    <3>6. QED
      BY <2>3, <3>1, <3>3, <3>4, <3>5, BetweenKeeps
  <2>4. QED
    BY <2>2, <2>3
<1>3. QED
  BY <1>1, <1>2, AnalyseKeeps, ExtentsKeep, DecompileKeeps, QuietStepKeeps DEF FNext, FStep

LEMMA FunctionInvariant == FSpec => []FInv
<1>1. FInv /\ [FNext]_pipelineVars => FInv'
  BY FunctionStep
<1>2. QED
  BY FunctionInit, <1>1, PTL DEF FSpec

-----------------------------------------------------------------------------
\* The executions keep their types, whatever the contracts: every call of
\* executeFunction is in a block of the map, and only such blocks are flagged,
\* executed or followed (VMState.cpp:833-863).
THEOREM ExecTypeCorrect == FSpec => []FTypeOK
<1>1. FInv => FTypeOK
  BY DEF FInv
<1>2. QED
  BY FunctionInvariant, <1>1, PTL

\* A store behind a call is flagged whatever the contract: every block an
\* execution comes to behind a block with a CALL has its flag when it is entered
\* (VMState.cpp:813-817, 841-862).
THEOREM StoresFlagged == FSpec => []FlaggedAfterCall
<1>1. FInv => FlaggedAfterCall
  <2> SUFFICES ASSUME FInv, Running, Exec.afterCall PROVE Here \in flags
    BY DEF FlaggedAfterCall
  <2>1. FrameOK(Exec, blocks, flags, inherit) /\ Here = Exec.block /\ Exec.pc = "run"
    BY InnermostCall DEF Running
  <2>2. QED
    BY <2>1, Zenon DEF FrameOK
<1>2. QED
  BY FunctionInvariant, <1>1, PTL

\* No flag comes from nowhere, whatever the contract: every set of flagged blocks
\* was entered from a block with a CALL or from a flagged block outside it
\* (VMState.cpp:841-862, Contract.cpp:1018).
THEOREM FlagsCaused == FSpec => []FlagsHaveCause
<1>1. FInv => FlagsHaveCause
  BY DEF FInv, Caused, FlagsHaveCause
<1>2. QED
  BY FunctionInvariant, <1>1, PTL

\* Execution settles every successor, whatever the contract: a block that has run
\* to its end has no pointer to the erased exit node, nor, in code without a jump
\* behind a halt, has a block of the path that is printed (VMState.cpp:785-790).
THEOREM PathIsLive == FSpec => []PathLinksLive
<1>1. FInv => PathLinksLive
  <2> SUFFICES ASSUME FInv PROVE PathLinksLive
    OBVIOUS
  <2>1. ASSUME phase = "done", NEW b \in DOMAIN blocks,
               blocks[b].nextDefault # NODE_DEADEND
        PROVE  LinksLive(b)
    <3>1. Linked(blocks, b)
      BY <2>1 DEF FInv, CInv
    <3>2. QED
      BY <2>1, <3>1 DEF Linked, LinksLive
  <2>2. ASSUME mode = "execute", frames # << >>, Exec.pc # "run"
        PROVE  LinksLive(Here)
    <3>1. /\ FrameOK(Exec, blocks, flags, inherit) /\ Here = Exec.block
          /\ phase = "done" /\ Here \in DOMAIN blocks
      BY <2>2, InnermostCall
    <3>2. blocks[Here].nextDefault # NODE_DEADEND
      BY <2>2, <3>1 DEF FrameOK
    <3>3. QED
      BY <2>1, <3>1, <3>2
  <2>3. ASSUME mode = "print", NoJumpBehindHalt, NEW b \in path
        PROVE  LinksLive(b)
    <3>1. phase = "done" /\ b \in DOMAIN blocks /\ blocks[b].nextDefault # NODE_DEADEND
      BY <2>3 DEF FInv, FTypeOK, PathMended
    <3>2. QED
      BY <2>1, <3>1
  <2>4. QED
    BY <2>2, <2>3 DEF PathLinksLive
<1>2. QED
  BY FunctionInvariant, <1>1, PTL

-----------------------------------------------------------------------------
(***************************************************************************)
(* What is printed: blocks of code whose dead parts go nowhere.            *)
(***************************************************************************)
\* The instructions of block b of the map m, from the first to before the last:
\* only the last goes anywhere, and it ends no function.
FirstIn(b) == IndexAt(b)
LastIn(m, b) == IndexAt(b + m[b].size) - 1

Straight(m, b) ==
  /\ FirstIn(b) <= LastIn(m, b)
  /\ \A i \in FirstIn(b) .. LastIn(m, b) - 1 : listing[i].op \notin Halts \cup {"JUMP", "JUMPI"}
  /\ listing[LastIn(m, b)].op \notin Halts

LastOp(m, b) == listing[LastIn(m, b)].op

\* A halt behind its jump ends block b, or one that falls into the next block.
Cut(m, b) ==
  /\ FirstIn(b) <= LastIn(m, b) /\ LastOp(m, b) \in Halts
  /\ \/ FallsInto(LastIn(m, b))
     \/ \E i \in FirstIn(b) .. LastIn(m, b) - 1 : listing[i].op = "JUMP"

\* A block that goes anywhere does so at its end, on a condition after a JUMPI only.
Fits(m, b) ==
  m[b].dstDefault # 0 \/ m[b].dstJUMPI # 0 =>
    /\ Straight(m, b) \/ Cut(m, b)
    /\ LastOp(m, b) = "JUMPI" <=> m[b].dstJUMPI # 0

\* Where the instructions of such a block end.
LEMMA BlockIndices ==
  ASSUME GraphInv, ScanMore, Done, NEW b \in DOMAIN blocks \ {NODE_DEADEND},
         NEW i \in Extent(b), Ender(i)
  PROVE  \E e \in Extent(b) :
           /\ Ender(e) /\ \A j \in Extent(b) : Ender(j) => j <= e
           /\ e \in 1 .. Len(listing) /\ FirstIn(b) \in 1 .. e
           /\ LastIn(blocks, b) = e
           /\ \A j \in Extent(b) : FirstIn(b) <= j
           /\ \A k \in FirstIn(b) + 1 .. e :
                listing[k].op # "JUMPDEST" /\ listing[k - 1].op # "JUMPI"
<1>1. ScanInv /\ ListingOK /\ Len(listing) \in Nat /\ b \in Nat
  BY OffsetsRise DEF GraphInv, ScanInv
<1>2. /\ \A k \in 1 .. Len(listing) : OffsetOf(k) \in Nat /\ OffsetOf(k) < NODE_DEADEND
      /\ \A k, l \in 1 .. Len(listing) : l < k => OffsetOf(l) < OffsetOf(k)
  BY <1>1, OffsetsRise
<1>3. Inside(blocks, Settled, b) = Extent(b)
  BY AllSettled
<1>4. PICK e \in Extent(b) :
        /\ Ender(e) /\ blocks[b].size = EndOf(e) - b
        /\ \A j \in Extent(b) : Ender(j) => j <= e
  BY <1>3 DEF GraphInv, Known, SizesKnown
<1>5. \A j \in Extent(b) : /\ j \in 1 .. Len(listing) /\ b <= OffsetOf(j)
                           /\ \A k \in DOMAIN blocks : k <= OffsetOf(j) => k <= b
  BY DEF Extent
<1>6. e \in 1 .. Len(listing) /\ EndOf(e) \in Nat
  BY <1>1, <1>2, <1>5, Neighbours DEF EndOf, OffsetOf
<1>7. PICK f \in 1 .. Len(listing) : b = OffsetOf(f)
  <2>1. CASE b = 0
    <3>1. 1 \in 1 .. Len(listing) /\ OffsetOf(1) = 0
      BY <1>1, <1>6, Neighbours DEF OffsetOf
    <3>2. QED
      BY <2>1, <3>1
  <2>2. QED
    BY <2>1 DEF ScanMore, BlocksAtInstructions
<1>8. FirstIn(b) = f /\ LastIn(blocks, b) = e
  <2>1. b + blocks[b].size = EndOf(e)
    BY <1>1, <1>4, <1>6
  <2>2. IndexAt(b) = f /\ IndexAt(b + blocks[b].size) = e + 1
    BY <1>1, <1>6, <1>7, <2>1, IndexOfOffset
  <2>3. QED
    BY <1>6, <2>2 DEF FirstIn, LastIn
<1>9. \A j \in Extent(b) : f <= j
  <2> SUFFICES ASSUME NEW j \in Extent(b), j < f PROVE FALSE
    BY <1>5, <1>7
  <2>1. OffsetOf(j) < OffsetOf(f) /\ b <= OffsetOf(j) /\ OffsetOf(j) \in Nat
    BY <1>2, <1>5, <1>7
  <2>2. QED
    BY <1>1, <1>7, <2>1
<1>10. ASSUME NEW k \in f + 1 .. e
       PROVE  listing[k].op # "JUMPDEST" /\ listing[k - 1].op # "JUMPI"
  <2>1. k \in 1 .. Len(listing) /\ f < k /\ k - 1 \in 1 .. Len(listing) /\ k <= e
    BY <1>1, <1>6, <1>7, <1>10
  <2>2. OffsetOf(k) <= OffsetOf(e) /\ OffsetOf(k) \in Nat
    BY <1>2, <1>6, <2>1
  <2>3. OffsetOf(k) \notin DOMAIN blocks
    <3>1. OffsetOf(f) < OffsetOf(k)
      BY <1>2, <2>1
    <3>2. OffsetOf(k) \in DOMAIN blocks => OffsetOf(k) <= b
      BY <1>5, <2>2
    <3>3. QED
      BY <1>1, <1>7, <2>2, <3>1, <3>2
  <2>4. listing[k].op # "JUMPDEST"
    BY <2>1, <2>3 DEF GraphInv, ScanInv, PositionOK, JumpdestOffsets, OffsetOf
  <2>5. listing[k - 1].op # "JUMPI"
    <3>1. k - 1 < instIndex /\ k - 1 < Len(listing) /\ (k - 1) + 1 = k
      BY <1>1, <2>1 DEF Done, ListingOK
    <3>2. QED
      BY <2>1, <2>3, <3>1 DEF ScanMore, BlocksBehindJumpi
  <2>6. QED
    BY <2>4, <2>5
<1>11. FirstIn(b) \in 1 .. e
  BY <1>6, <1>7, <1>8, <1>9
<1>12. QED
  BY <1>4, <1>6, <1>8, <1>9, <1>10, <1>11

\* In structured code each block that goes anywhere fits when the scan is done: what
\* goes somewhere without being the end of it stands before a halt.
LEMMA FitsFound ==
  ASSUME GraphInv, ScanMore, Done, Structured, NEW b \in DOMAIN blocks \ {NODE_DEADEND}
  PROVE  Fits(blocks, b)
<1> SUFFICES ASSUME blocks[b].dstDefault # 0 \/ blocks[b].dstJUMPI # 0
             PROVE  /\ Straight(blocks, b) \/ Cut(blocks, b)
                    /\ LastOp(blocks, b) = "JUMPI" <=> blocks[b].dstJUMPI # 0
  BY DEF Fits
<1>1. ScanInv /\ Len(listing) \in Nat /\ CompilerMade /\ BranchesLabelled /\ DeadCodeStays
  BY OffsetsRise DEF GraphInv, Structured
<1>2. Inside(blocks, Settled, b) = Extent(b)
  BY AllSettled
<1>3. \/ /\ blocks[b].dstJUMPI = 0
         /\ \A i \in Extent(b) : BranchTargets(i) = {}
      \/ \E i \in Extent(b) : blocks[b].dstJUMPI \in BranchTargets(i)
  BY <1>2 DEF GraphInv, Known, BranchesKnown
<1>4. PICK i \in Extent(b) : Targets(i) # {}
  <2>1. blocks[b].dstDefault # 0 => \E i \in Extent(b) : Targets(i) # {}
    BY <1>2 DEF GraphInv, Known, DefaultsKnown, Targets
  <2>2. QED
    BY <1>3, <2>1 DEF Targets
<1>5. PICK e \in Extent(b) :
        /\ Ender(e) /\ \A j \in Extent(b) : Ender(j) => j <= e
        /\ e \in 1 .. Len(listing) /\ FirstIn(b) \in 1 .. e
        /\ LastIn(blocks, b) = e
        /\ \A j \in Extent(b) : FirstIn(b) <= j
        /\ \A k \in FirstIn(b) + 1 .. e :
             listing[k].op # "JUMPDEST" /\ listing[k - 1].op # "JUMPI"
  BY <1>4, BlockIndices DEF Ender
<1> DEFINE f == FirstIn(b)
<1>6. \A j \in Extent(b) : j \in 1 .. Len(listing)
  BY DEF Extent
<1> HIDE DEF f
<1>7. ASSUME NEW k \in f .. e - 1
      PROVE  /\ k \in 1 .. Len(listing) /\ k < e
             /\ \A l \in k + 1 .. e : listing[l].op # "JUMPDEST"
             /\ listing[k].op # "JUMPI" /\ ~FallsInto(k)
             /\ listing[k].op \in Halts \cup {"JUMP"} =>
                  listing[e].op \notin {"JUMP", "JUMPI"} /\ ~FallsInto(e)
  <2>1. f \in 1 .. e /\ \A l \in f + 1 .. e : listing[l].op # "JUMPDEST"
                                              /\ listing[l - 1].op # "JUMPI"
    BY <1>5 DEF f
  <2>2. k \in 1 .. Len(listing) /\ k < e /\ k + 1 \in f + 1 .. e /\ (k + 1) - 1 = k
    BY <1>1, <1>5, <1>7, <2>1
  <2>3. \A l \in k + 1 .. e : listing[l].op # "JUMPDEST"
    BY <1>1, <1>5, <2>1, <2>2
  <2>4. listing[k].op # "JUMPI" /\ listing[k + 1].op # "JUMPDEST"
    <3>1. listing[(k + 1) - 1].op # "JUMPI" /\ listing[k + 1].op # "JUMPDEST"
      BY <2>1, <2>2
    <3>2. QED
      BY <2>2, <3>1
  <2>5. ~FallsInto(k)
    BY <2>4 DEF FallsInto
  <2>6. QED
    BY <1>1, <1>5, <2>2, <2>3, <2>4, <2>5 DEF DeadCodeStays
<1>8. ASSUME listing[e].op \in Halts
      PROVE  FallsInto(e) \/ \E k \in f .. e - 1 : listing[k].op = "JUMP"
  <2> SUFFICES ASSUME ~FallsInto(e) PROVE \E k \in f .. e - 1 : listing[k].op = "JUMP"
    OBVIOUS
  <2>1. Targets(e) = {}
    BY <1>8 DEF Targets, DefaultTargets, JumpTargets, BranchTargets, Halts
  <2>2. i # e /\ i <= e /\ f <= i /\ i \in 1 .. Len(listing)
    BY <1>4, <1>5, <1>6, <2>1 DEF Ender, f
  <2>3. i \in f .. e - 1
    BY <1>1, <1>5, <2>2 DEF f
  <2>4. listing[i].op # "JUMPI" /\ ~FallsInto(i)
    BY <1>7, <2>3
  <2>5. listing[i].op = "JUMP"
    BY <1>4, <2>4 DEF Targets, DefaultTargets, JumpTargets, BranchTargets
  <2>6. QED
    BY <2>3, <2>5
<1>9. ASSUME listing[e].op \in Halts PROVE Cut(blocks, b)
  BY <1>5, <1>8, <1>9 DEF Cut, LastOp, f
<1>10. ASSUME listing[e].op \notin Halts PROVE Straight(blocks, b)
  <2>1. listing[e].op \in {"JUMP", "JUMPI"} \/ FallsInto(e)
    BY <1>5, <1>10 DEF Ender, Targets, DefaultTargets, JumpTargets, BranchTargets, Halts
  <2>2. \A k \in f .. e - 1 : listing[k].op \notin Halts \cup {"JUMP", "JUMPI"}
    BY <1>7, <2>1
  <2>3. QED
    BY <1>5, <1>10, <2>2 DEF Straight, f
<1>11. Straight(blocks, b) \/ Cut(blocks, b)
  BY <1>9, <1>10
<1>12. ASSUME listing[e].op = "JUMPI" PROVE blocks[b].dstJUMPI # 0
  <2>1. BranchTargets(e) # {}
    BY <1>1, <1>5, <1>12 DEF BranchesLabelled, BranchTargets
  <2>2. PICK j \in Extent(b) : blocks[b].dstJUMPI \in BranchTargets(j)
    BY <1>3, <2>1
  <2>3. QED
    BY <1>1, <1>6, <2>2, TargetOfMade DEF Targets
<1>13. ASSUME blocks[b].dstJUMPI # 0 PROVE listing[e].op = "JUMPI"
  <2>1. PICK j \in Extent(b) : blocks[b].dstJUMPI \in BranchTargets(j)
    BY <1>3, <1>13
  <2>2. listing[j].op = "JUMPI" /\ Ender(j) /\ j \in 1 .. Len(listing)
    BY <1>6, <2>1 DEF BranchTargets, Ender, Targets
  <2>3. j <= e /\ f <= j
    BY <1>5, <2>2 DEF f
  <2>4. ~(j \in f .. e - 1)
    BY <1>7, <2>2
  <2>5. QED
    BY <1>1, <1>5, <2>2, <2>3, <2>4 DEF f
<1>14. QED
  BY <1>5, <1>11, <1>12, <1>13 DEF LastOp

-----------------------------------------------------------------------------
(***************************************************************************)
(* How far the executions have come with each block.                       *)
(***************************************************************************)
\* The blocks that executions came to.
Came(fo) == { e[2] : e \in fo }

\* A call of executeFunction is at block b; it is behind the instructions of b.
AtBlock(s, b) == \E k \in 1 .. Len(s) : s[k].block = b

Past(s, b) ==
  \E k \in 1 .. Len(s) :
    s[k].block = b /\ (s[k].pc # "run" \/ s[k].at >= extent[b].to)

\* A block that goes anywhere reaches its end, or is cut, and one with a branch goes on.
Orderly(m, b) ==
  /\ m[b].nextDefault # NULL \/ m[b].dstDefault # 0 \/ m[b].dstJUMPI # 0 =>
       Straight(m, b) \/ Cut(m, b)
  /\ m[b].dstJUMPI # 0 => LastOp(m, b) = "JUMPI" /\ m[b].nextDefault # NULL

\* The end of block b ends the function.
Blocked(m, b) ==
  \/ LastOp(m, b) = "JUMP" /\ m[b].dstDefault = 0
  \/ LastOp(m, b) = "JUMPI" /\ m[b].dstJUMPI = 0

\* The successor of a block b that is not cut was executed, or a call that has b behind it is about to
\* go there, or nothing keeps a call from it that has b before it; T are the blocks
\* that executions came to.
LeadsOn(m, s, T, fo, b) ==
  m[b].nextDefault # NULL /\ ~Cut(m, b) =>
    \/ m[b].nextDefault \in Came(fo)
    \/ Past(s, b)
    \/ ~Blocked(m, b) /\ (AtBlock(s, b) \/ b \notin Came(fo) \cup T)

\* The block that the execution or the printing of a function began with.
Begun == IF mode \in {"execute", "print"} THEN {current} ELSE {}

IsOutput == \E S : output \in Seq(S)

\* Nothing printed so far is of a block that a halt cuts.
NoneCut == \A n \in 1 .. Len(output) : ~CutOff(output[n].block)

Printable ==
  /\ phase = "connect" =>
       \A b \in DOMAIN blocks \ {NODE_DEADEND} :
         Fits(blocks, b) /\ (Leaves(b) => blocks[b].dstDefault # 0)
  /\ phase = "done" =>
       \A b \in DOMAIN blocks :
         Orderly(blocks, b) /\ LeadsOn(blocks, frames, Begun, followed, b)
  /\ mode = "print" /\ cursor # NULL /\ NoneCut => cursor \in Came(followed) \cup Begun

LEMMA StructuredSame ==
  ASSUME UNCHANGED << listing, codeSize, exitNodes >>
  PROVE  Structured' <=> Structured
<1>1. CompilerMade' <=> CompilerMade
  BY TargetsSame DEF CompilerMade
<1>2. \A i : Pushed(i)' <=> Pushed(i)
  BY DEF Pushed
<1>3. \A i : FallsInto(i)' <=> FallsInto(i)
  BY FallsSame
<1>4. DeadCodeStays' <=> DeadCodeStays
  BY <1>3 DEF DeadCodeStays
<1>5. BranchesLabelled' <=> BranchesLabelled
  BY <1>2 DEF BranchesLabelled
<1>6. NoExitToStart' <=> NoExitToStart
  BY DEF NoExitToStart
<1>7. QED
  BY <1>1, <1>4, <1>5, <1>6 DEF Structured

\* What a block's instructions do is a matter of the listing and of its size.
LEMMA MeasuresSame ==
  ASSUME listing' = listing
  PROVE  /\ \A b : Fits(blocks, b)' <=> Fits(blocks', b)
         /\ \A b : Cut(blocks, b)' <=> Cut(blocks', b)
         /\ \A b : Orderly(blocks, b)' <=> Orderly(blocks', b)
         /\ \A b : Blocked(blocks, b)' <=> Blocked(blocks', b)
<1>1. \A b : FirstIn(b)' = FirstIn(b) /\ LastIn(blocks, b)' = LastIn(blocks', b)
  BY JumpsSame DEF FirstIn, LastIn
<1>2. \A b : /\ Straight(blocks, b)' <=> Straight(blocks', b)
             /\ LastOp(blocks, b)' = LastOp(blocks', b)
  BY <1>1 DEF Straight, LastOp
<1>3. \A b : Cut(blocks, b)' <=> Cut(blocks', b)
  <2>1. \A i : FallsInto(i)' <=> FallsInto(i)
    BY FallsSame
  <2>2. \A b : FallsInto(LastIn(blocks, b))' <=> FallsInto(LastIn(blocks', b))
    BY <1>1, <2>1
  <2>3. QED
    BY <1>1, <1>2, <2>2 DEF Cut
<1>4. QED
  BY <1>2, <1>3 DEF Fits, Orderly, Blocked

LEMMA SameMeasures ==
  ASSUME NEW m, NEW r, NEW b, r[b].size = m[b].size
  PROVE  /\ (Straight(r, b) <=> Straight(m, b)) /\ LastOp(r, b) = LastOp(m, b)
         /\ Cut(r, b) <=> Cut(m, b)
  BY DEF Straight, LastOp, LastIn, Cut

LEMMA CallsSame ==
  ASSUME UNCHANGED << listing, extent >>
  PROVE  \A b, T : LeadsOn(blocks, frames, T, followed, b)'
                     <=> LeadsOn(blocks', frames', T', followed', b)
<1>1. \A b : Past(frames, b)' <=> Past(frames', b)
  BY DEF Past
<1>2. \A b : AtBlock(frames, b)' <=> AtBlock(frames', b)
  BY DEF AtBlock
<1>3. Came(followed)' = Came(followed')
  BY DEF Came
<1>4. QED
  BY <1>1, <1>2, <1>3, MeasuresSame DEF LeadsOn

\* All calls but the innermost remain, and the new ones are there.
LEMMA CallsRemain ==
  ASSUME FTypeOK, frames # << >>, NEW new \in Seq(CallFrame), frames' = new \o Tail(frames)
  PROVE  /\ \A n \in 1 .. Len(frames) :
              frames[n] = Exec \/ \E k \in 1 .. Len(frames') : frames'[k] = frames[n]
         /\ \A n \in 1 .. Len(new) : \E k \in 1 .. Len(frames') : frames'[k] = new[n]
<1>1. /\ frames \in Seq(CallFrame) /\ Tail(frames) \in Seq(CallFrame)
      /\ Len(Tail(frames)) = Len(frames) - 1
      /\ \A i \in 1 .. Len(Tail(frames)) : Tail(frames)[i] = frames[i + 1]
      /\ Len(frames) \in Nat /\ Len(new) \in Nat /\ Exec = frames[1]
  BY HeadTailProperties DEF FTypeOK, Exec
<1>2. /\ Len(frames') = Len(new) + Len(Tail(frames))
      /\ \A i \in 1 .. Len(new) + Len(Tail(frames)) :
           frames'[i] = IF i <= Len(new) THEN new[i] ELSE Tail(frames)[i - Len(new)]
  BY <1>1, ConcatProperties
<1>3. ASSUME NEW n \in 1 .. Len(frames), n # 1
      PROVE  \E k \in 1 .. Len(frames') : frames'[k] = frames[n]
  <2> DEFINE k == Len(new) + n - 1
  <2>1. k \in 1 .. Len(frames') /\ ~(k <= Len(new)) /\ k - Len(new) = n - 1
        /\ n - 1 \in 1 .. Len(Tail(frames)) /\ (n - 1) + 1 = n
    BY <1>1, <1>2, <1>3
  <2>2. frames'[k] = Tail(frames)[n - 1]
    BY <1>2, <2>1
  <2>3. QED
    BY <1>1, <2>1, <2>2
<1>4. ASSUME NEW n \in 1 .. Len(new)
      PROVE  \E k \in 1 .. Len(frames') : frames'[k] = new[n]
  <2>1. n \in 1 .. Len(frames') /\ n <= Len(new)
    BY <1>1, <1>2
  <2>2. QED
    BY <1>2, <2>1
<1>5. QED
  BY <1>1, <1>3, <1>4

\* A step of an execution changes nothing for the blocks it is not in.
LEMMA OthersLeadOn ==
  ASSUME FTypeOK, frames # << >>, NEW new \in Seq(CallFrame), frames' = new \o Tail(frames),
         followed \subseteq followed',
         Came(followed') \subseteq
           Came(followed) \cup { new[k].block : k \in 1 .. Len(new) },
         NEW b, b # Here, blocks'[b] = blocks[b], NEW T,
         LeadsOn(blocks, frames, T, followed, b)
  PROVE  LeadsOn(blocks', frames', T, followed', b)
<1>1. Cut(blocks', b) <=> Cut(blocks, b)
  BY SameMeasures
<1> SUFFICES ASSUME blocks[b].nextDefault # NULL, ~Cut(blocks, b)
             PROVE  \/ blocks'[b].nextDefault \in Came(followed')
                    \/ Past(frames', b)
                    \/ ~Blocked(blocks', b)
                         /\ (AtBlock(frames', b) \/ b \notin Came(followed') \cup T)
  BY <1>1 DEF LeadsOn
<1>2. /\ \A n \in 1 .. Len(frames) :
           frames[n].block = b => \E k \in 1 .. Len(frames') : frames'[k] = frames[n]
      /\ \A n \in 1 .. Len(new) : \E k \in 1 .. Len(frames') : frames'[k] = new[n]
  BY CallsRemain DEF Here
<1>3. Past(frames, b) => Past(frames', b)
  <2> SUFFICES ASSUME Past(frames, b) PROVE Past(frames', b)
    OBVIOUS
  <2>1. PICK n \in 1 .. Len(frames) :
          frames[n].block = b /\ (frames[n].pc # "run" \/ frames[n].at >= extent[b].to)
    BY DEF Past
  <2>2. PICK k \in 1 .. Len(frames') : frames'[k] = frames[n]
    BY <1>2, <2>1
  <2>3. QED
    BY <2>1, <2>2, Zenon DEF Past
<1>4. AtBlock(frames, b) => AtBlock(frames', b)
  BY <1>2 DEF AtBlock
<1>5. Came(followed) \subseteq Came(followed')
  BY DEF Came
<1>6. b \in Came(followed') => b \in Came(followed) \/ AtBlock(frames', b)
  BY <1>2 DEF AtBlock
<1>7. Blocked(blocks', b) => Blocked(blocks, b)
  BY SameMeasures DEF Blocked
<1>8. QED
  BY <1>3, <1>4, <1>5, <1>6, <1>7 DEF LeadsOn

\* What a step of an execution has to show: where its new calls are, and what holds
\* of the block it is in.
LEMMA ExecPrintable ==
  ASSUME FInv, Printable, mode = "execute", frames # << >>, Stay,
         NEW new \in Seq(CallFrame), frames' = new \o Tail(frames),
         DOMAIN blocks' = DOMAIN blocks,
         \A b \in DOMAIN blocks : b # Here => blocks'[b] = blocks[b],
         followed \subseteq followed',
         Came(followed') \subseteq
           Came(followed) \cup { new[k].block : k \in 1 .. Len(new) },
         Orderly(blocks', Here), LeadsOn(blocks', frames', {current}, followed', Here)
  PROVE  Printable'
<1>1. /\ listing' = listing /\ extent' = extent /\ mode' = "execute" /\ current' = current
      /\ phase' = "done" /\ phase = "done" /\ FTypeOK
  BY DEF Stay, cvars, FInv, FTypeOK
<1>2. Begun = {current} /\ Begun' = {current}
  BY <1>1 DEF Begun
<1>3. ASSUME NEW b \in DOMAIN blocks
      PROVE  Orderly(blocks', b) /\ LeadsOn(blocks', frames', {current}, followed', b)
  <2>1. CASE b # Here
    <3>1. Orderly(blocks, b) /\ LeadsOn(blocks, frames, {current}, followed, b)
      BY <1>1, <1>2 DEF Printable
    <3>2. blocks'[b] = blocks[b]
      BY <2>1
    <3>3. Orderly(blocks', b)
      BY <3>1, <3>2, SameMeasures DEF Orderly
    <3>4. LeadsOn(blocks', frames', {current}, followed', b)
      BY <1>1, <2>1, <3>1, <3>2, OthersLeadOn
    <3>5. QED
      BY <3>3, <3>4
  <2>2. QED
    BY <2>1
<1>4. \A b \in DOMAIN blocks' : Orderly(blocks, b)'
  BY <1>1, <1>3, MeasuresSame
<1>5. \A b \in DOMAIN blocks' : LeadsOn(blocks, frames, Begun, followed, b)'
  BY <1>1, <1>2, <1>3, CallsSame
<1>6. QED
  BY <1>1, <1>4, <1>5 DEF Printable

\* The block an execution is in.
LEMMA InBlock ==
  ASSUME FInv, Printable, mode = "execute", frames # << >>
  PROVE  /\ Exec \in CallFrame /\ Here \in DOMAIN blocks /\ Here = Exec.block
         /\ Orderly(blocks, Here) /\ LeadsOn(blocks, frames, {current}, followed, Here)
         /\ extent[Here].from = FirstIn(Here) /\ extent[Here].to = LastIn(blocks, Here) + 1
         /\ extent[Here].from \in Nat /\ extent[Here].to \in Nat
         /\ extent[Here].from <= Exec.at /\ Exec.at \in Nat
<1>1. /\ Exec \in CallFrame /\ Here \in DOMAIN blocks /\ Here = Exec.block
      /\ FrameOK(Exec, blocks, flags, inherit) /\ phase = "done"
      /\ extent[Here] = [from |-> IndexAt(Here), to |-> IndexAt(Here + blocks[Here].size)]
  BY InnermostCall
<1>2. Begun = {current}
  BY DEF Begun
<1>3. Orderly(blocks, Here) /\ LeadsOn(blocks, frames, {current}, followed, Here)
  BY <1>1, <1>2 DEF Printable
<1>4. extent[Here].from \in Nat /\ extent[Here].to \in Nat
  BY <1>1, ExtentsIndex DEF FInv, CInv
<1>5. extent[Here].from <= Exec.at /\ Exec.at \in Nat
  BY <1>1 DEF FrameOK, CallFrame
<1>6. extent[Here].from = FirstIn(Here) /\ extent[Here].to = LastIn(blocks, Here) + 1
  BY <1>1, <1>4 DEF FirstIn, LastIn
<1>7. QED
  BY <1>1, <1>3, <1>4, <1>5, <1>6

\* A call behind its block, or after it, remains so when it is the innermost one.
LEMMA NowPast ==
  ASSUME FTypeOK, frames # << >>, NEW new \in Seq(CallFrame), frames' = new \o Tail(frames),
         NEW n \in 1 .. Len(new), NEW b, new[n].block = b,
         new[n].pc # "run" \/ new[n].at >= extent[b].to
  PROVE  Past(frames', b)
<1>1. PICK k \in 1 .. Len(frames') : frames'[k] = new[n]
  BY CallsRemain
<1>2. frames'[k].block = b /\ (frames'[k].pc # "run" \/ frames'[k].at >= extent[b].to)
  BY <1>1
<1>3. QED
  BY <1>2, Zenon DEF Past

\* A block in which an execution jumps, or branches, does so at its end.
LEMMA AtLast ==
  ASSUME FInv, Printable, AtInstr, Straight(blocks, Here),
         ExecOp \in Halts \cup {"JUMP", "JUMPI"}
  PROVE  Exec.at = LastIn(blocks, Here) /\ ExecOp = LastOp(blocks, Here)
         /\ ExecOp \notin Halts
<1>1. mode = "execute" /\ frames # << >> /\ Exec.at < extent[Here].to
  BY ExecutedInstr
<1>2. /\ extent[Here].from = FirstIn(Here) /\ extent[Here].to = LastIn(blocks, Here) + 1
      /\ extent[Here].from \in Nat /\ extent[Here].to \in Nat
      /\ extent[Here].from <= Exec.at /\ Exec.at \in Nat
  BY <1>1, InBlock
<1> DEFINE f == FirstIn(Here)
           l == LastIn(blocks, Here)
<1>3. /\ \A i \in f .. l - 1 : listing[i].op \notin Halts \cup {"JUMP", "JUMPI"}
      /\ listing[l].op \notin Halts /\ f <= l
  BY DEF Straight
<1>4. f \in Nat /\ l + 1 \in Nat /\ f <= Exec.at /\ Exec.at < l + 1 /\ l \in Int
  <2>1. l \in Int
    <3>1. l = IndexAt(Here + blocks[Here].size) - 1
            /\ IndexAt(Here + blocks[Here].size) \in Nat
      BY <1>1, ExtentsIndex DEF LastIn, FInv, CInv
    <3>2. QED
      BY <3>1
  <2>2. QED
    BY <1>1, <1>2, <2>1
<1> HIDE DEF f, l
<1>5. Exec.at = l
  <2> SUFFICES ASSUME Exec.at # l PROVE FALSE
    OBVIOUS
  <2>1. Exec.at \in f .. l - 1
    BY <1>2, <1>4
  <2>2. QED
    BY <1>3, <2>1 DEF ExecOp
<1>6. QED
  BY <1>3, <1>5 DEF l, ExecOp, LastOp

\* A step to the next instruction.
LEMMA AdvancesTo ==
  ASSUME FInv, AtInstr, Advance
  PROVE  /\ mode = "execute" /\ frames # << >> /\ FTypeOK
         /\ << Advanced >> \in Seq(CallFrame) /\ frames' = << Advanced >> \o Tail(frames)
         /\ Advanced.block = Here /\ Advanced.at = Exec.at + 1
<1>1. /\ mode = "execute" /\ frames # << >> /\ Advanced \in CallFrame
  BY ExecutedInstr DEF Advanced
<1>2. Exec \in CallFrame /\ Here = Exec.block
  BY <1>1, InnermostCall
<1>3. Advanced.block = Here /\ Advanced.at = Exec.at + 1
  BY <1>2 DEF Advanced, CallFrame
<1>4. QED
  BY <1>1, <1>3 DEF Advance, Advanced, Resume, FInv

\* Behind a jump there is nothing left of the block but to go on.
LEMMA JumpedPast ==
  ASSUME FInv, Printable, AtInstr, Advance, Straight(blocks, Here),
         ExecOp \in {"JUMP", "JUMPI"}
  PROVE  Past(frames', Here)
<1>1. /\ mode = "execute" /\ frames # << >> /\ FTypeOK
      /\ << Advanced >> \in Seq(CallFrame) /\ frames' = << Advanced >> \o Tail(frames)
      /\ Advanced.block = Here /\ Advanced.at = Exec.at + 1
  BY AdvancesTo
<1>2. Exec.at = LastIn(blocks, Here)
  BY AtLast
<1>3. extent[Here].to = LastIn(blocks, Here) + 1 /\ extent[Here].to \in Nat
  BY <1>1, InBlock
<1>4. Advanced.at >= extent[Here].to
  BY <1>1, <1>2, <1>3
<1> DEFINE new == << Advanced >>
<1>5. 1 \in 1 .. Len(new) /\ new[1] = Advanced
  OBVIOUS
<1>6. new \in Seq(CallFrame) /\ frames' = new \o Tail(frames)
  BY <1>1
<1> HIDE DEF new
<1>7. QED
  BY <1>1, <1>4, <1>5, <1>6, NowPast

LEMMA ExecJumpPrints ==
  ASSUME FInv, Printable, ExecJump
  PROVE  Printable'
<1> DEFINE v == Exec.vm[1]
           n == GetBlockAt(blocks, v)
<1>1. /\ AtInstr /\ ExecOp = "JUMP" /\ Advance /\ Stay /\ ~EndsFunction
      /\ UNCHANGED << flags, inherit, path, followed >>
      /\ blocks' = IF Exec.vm # << >> /\ (v # blocks[Here].dstDefault
                                            \/ blocks[Here].dstDefault = NODE_DEADEND)
                     THEN [blocks EXCEPT ![Here].dstDefault = v, ![Here].nextDefault = n]
                     ELSE blocks
  BY DEF ExecJump
<1>2. /\ mode = "execute" /\ frames # << >>
      /\ << Advanced >> \in Seq(CallFrame) /\ frames' = << Advanced >> \o Tail(frames)
      /\ Advanced.block = Here
  BY <1>1, AdvancesTo
<1>3. Exec \in CallFrame /\ Here \in DOMAIN blocks /\ Orderly(blocks, Here)
  BY <1>2, InBlock
<1>4. Typed(blocks)
  BY <1>2, InnermostCall
<1>5. Straight(blocks, Here) \/ Cut(blocks, Here)
  BY <1>1, <1>3 DEF EndsFunction, Orderly
<1>6. blocks[Here].dstJUMPI = 0
  <2>1. Straight(blocks, Here) => LastOp(blocks, Here) = "JUMP"
    BY <1>1, AtLast
  <2>2. Cut(blocks, Here) => LastOp(blocks, Here) # "JUMPI"
    BY DEF Cut, Halts
  <2>3. QED
    BY <1>3, <1>5, <2>1, <2>2 DEF Orderly
<1>7. ~Cut(blocks, Here) => Past(frames', Here)
  BY <1>1, <1>5, JumpedPast
<1>8. \/ blocks' = blocks
      \/ /\ Exec.vm # << >>
         /\ blocks' = [blocks EXCEPT ![Here].dstDefault = v, ![Here].nextDefault = n]
  BY <1>1
<1>9. /\ DOMAIN blocks' = DOMAIN blocks
      /\ \A b \in DOMAIN blocks : b # Here => blocks'[b] = blocks[b]
  BY <1>8
<1>10. blocks'[Here].size = blocks[Here].size /\ blocks'[Here].dstJUMPI = 0
  <2>1. CASE blocks' = blocks
    BY <1>6, <2>1
  <2>2. CASE /\ Exec.vm # << >>
             /\ blocks' = [blocks EXCEPT ![Here].dstDefault = v, ![Here].nextDefault = n]
    <3>1. v \in Nat /\ n \in Nat \cup {NULL}
      BY <1>3, <2>2 DEF CallFrame, GetBlockAt
    <3> HIDE DEF v, n
    <3>2. Patched(blocks, blocks', Here, v, n)
      BY <1>4, <2>2, <3>1, PatchFields
    <3>3. QED
      BY <1>3, <1>6, <3>2 DEF Patched
  <2>3. QED
    BY <1>8, <2>1, <2>2
<1> HIDE DEF v, n
<1>11. Orderly(blocks', Here)
  BY <1>5, <1>10, SameMeasures DEF Orderly
<1>12. LeadsOn(blocks', frames', {current}, followed', Here)
  BY <1>7, <1>10, SameMeasures DEF LeadsOn
<1> DEFINE new == << Advanced >>
<1>13. new \in Seq(CallFrame) /\ frames' = new \o Tail(frames)
  BY <1>2
<1> HIDE DEF new
<1>14. followed \subseteq followed' /\ Came(followed') = Came(followed)
  BY <1>1
<1>15. QED
  BY <1>1, <1>2, <1>9, <1>11, <1>12, <1>13, <1>14, ExecPrintable

LEMMA ExecJumpiPrints ==
  ASSUME FInv, Printable, ExecJumpi
  PROVE  Printable'
<1> DEFINE v == Exec.vm[1]
           n == GetBlockAt(blocks, v)
<1>1. /\ AtInstr /\ ExecOp = "JUMPI" /\ Advance /\ Stay /\ ~EndsFunction
      /\ UNCHANGED << flags, inherit, path, followed >>
      /\ blocks' = IF Exec.vm # << >> /\ v # blocks[Here].dstJUMPI
                     THEN [blocks EXCEPT ![Here].dstJUMPI = v, ![Here].nextJUMPI = n]
                     ELSE blocks
  BY DEF ExecJumpi
<1>2. /\ mode = "execute" /\ frames # << >>
      /\ << Advanced >> \in Seq(CallFrame) /\ frames' = << Advanced >> \o Tail(frames)
      /\ Advanced.block = Here
  BY <1>1, AdvancesTo
<1>3. Exec \in CallFrame /\ Here \in DOMAIN blocks /\ Orderly(blocks, Here)
  BY <1>2, InBlock
<1>4. Typed(blocks) /\ blocks[Here] \in Block
  BY <1>2, InnermostCall
<1>5. /\ Straight(blocks, Here) /\ LastOp(blocks, Here) = "JUMPI"
      /\ blocks[Here].nextDefault # NULL
  BY <1>1, <1>3 DEF EndsFunction, Orderly, Cut, Halts
<1>6. Past(frames', Here)
  BY <1>1, <1>5, JumpedPast
<1>7. \/ blocks' = blocks
      \/ blocks' = [blocks EXCEPT ![Here].dstJUMPI = v, ![Here].nextJUMPI = n]
  BY <1>1
<1> HIDE DEF v, n
<1>8. /\ DOMAIN blocks' = DOMAIN blocks
      /\ \A b \in DOMAIN blocks : b # Here => blocks'[b] = blocks[b]
  BY <1>7
<1>9. /\ blocks'[Here].size = blocks[Here].size
      /\ blocks'[Here].nextDefault = blocks[Here].nextDefault
  BY <1>3, <1>4, <1>7 DEF Block
<1>10. Orderly(blocks', Here)
  BY <1>5, <1>9, SameMeasures DEF Orderly
<1>11. LeadsOn(blocks', frames', {current}, followed', Here)
  BY <1>6 DEF LeadsOn
<1> DEFINE new == << Advanced >>
<1>12. new \in Seq(CallFrame) /\ frames' = new \o Tail(frames)
  BY <1>2
<1> HIDE DEF new
<1>13. followed \subseteq followed' /\ Came(followed') = Came(followed)
  BY <1>1
<1>14. QED
  BY <1>1, <1>2, <1>8, <1>10, <1>11, <1>12, <1>13, ExecPrintable

\* A call that is behind a block is not the one that executes it.
LEMMA PastRemains ==
  ASSUME FInv, AtInstr, NEW new \in Seq(CallFrame), frames' = new \o Tail(frames),
         Past(frames, Here)
  PROVE  Past(frames', Here)
<1>1. /\ mode = "execute" /\ frames # << >> /\ Exec.pc = "run"
      /\ Exec.at < extent[Here].to /\ extent[Here].to \in Nat /\ FTypeOK
  BY ExecutedInstr DEF FInv
<1>2. Exec.at \in Nat
  BY <1>1, InnermostCall DEF CallFrame
<1>3. PICK n \in 1 .. Len(frames) :
        frames[n].block = Here /\ (frames[n].pc # "run" \/ frames[n].at >= extent[Here].to)
  BY DEF Past
<1>4. frames[n] # Exec
  BY <1>1, <1>2, <1>3
<1>5. PICK k \in 1 .. Len(frames') : frames'[k] = frames[n]
  BY <1>1, <1>4, CallsRemain
<1>6. frames'[k].block = Here /\ (frames'[k].pc # "run" \/ frames'[k].at >= extent[Here].to)
  BY <1>3, <1>5
<1>7. QED
  BY <1>6, Zenon DEF Past

LEMMA ExecOtherPrints ==
  ASSUME FInv, Printable, ExecOther
  PROVE  Printable'
<1>1. /\ AtInstr /\ Advance /\ Stay /\ UNCHANGED << blocks, followed >>
  BY DEF ExecOther
<1>2. /\ mode = "execute" /\ frames # << >> /\ FTypeOK
      /\ << Advanced >> \in Seq(CallFrame) /\ frames' = << Advanced >> \o Tail(frames)
      /\ Advanced.block = Here
  BY <1>1, AdvancesTo
<1>3. Orderly(blocks, Here) /\ LeadsOn(blocks, frames, {current}, followed, Here)
  BY <1>2, InBlock
<1> DEFINE new == << Advanced >>
<1>4. /\ new \in Seq(CallFrame) /\ frames' = new \o Tail(frames)
      /\ 1 \in 1 .. Len(new) /\ new[1].block = Here
  BY <1>2
<1> HIDE DEF new
<1>5. AtBlock(frames', Here)
  BY <1>2, <1>4, CallsRemain DEF AtBlock
<1>6. Past(frames, Here) => Past(frames', Here)
  BY <1>1, <1>4, PastRemains
<1>7. LeadsOn(blocks', frames', {current}, followed', Here)
  BY <1>1, <1>3, <1>5, <1>6 DEF LeadsOn
<1>8. QED
  BY <1>1, <1>2, <1>3, <1>4, <1>7, ExecPrintable

\* No call stops in a block that goes on, but where it ends the function.
LEMMA ExecHaltPrints ==
  ASSUME FInv, Printable, ExecHalt
  PROVE  Printable'
<1>1. /\ AtInstr /\ EndsFunction /\ Leave /\ Stay /\ UNCHANGED << blocks, followed >>
  BY DEF ExecHalt
<1>2. mode = "execute" /\ frames # << >>
  BY <1>1, ExecutedInstr
<1>3. Orderly(blocks, Here) /\ LeadsOn(blocks, frames, {current}, followed, Here)
  BY <1>2, InBlock
<1> DEFINE new == << >>
<1>4. new \in Seq(CallFrame) /\ frames' = new \o Tail(frames)
  BY <1>1, <1>2, NoCalls
<1> HIDE DEF new
<1>5. blocks[Here].nextDefault # NULL /\ ~Cut(blocks, Here) => Blocked(blocks, Here)
  <2> SUFFICES ASSUME blocks[Here].nextDefault # NULL, ~Cut(blocks, Here)
               PROVE  Blocked(blocks, Here)
    OBVIOUS
  <2>1. Straight(blocks, Here)
    BY <1>3 DEF Orderly
  <2>2. ExecOp \in Halts \cup {"JUMP", "JUMPI"}
    BY <1>1 DEF EndsFunction
  <2>3. ExecOp = LastOp(blocks, Here) /\ ExecOp \notin Halts
    BY <1>1, <2>1, <2>2, AtLast
  <2>4. QED
    BY <1>1, <2>3 DEF EndsFunction, Blocked
<1>6. Past(frames, Here) => Past(frames', Here)
  BY <1>1, <1>4, PastRemains
<1>7. LeadsOn(blocks', frames', {current}, followed', Here)
  BY <1>1, <1>3, <1>5, <1>6 DEF LeadsOn
<1>8. QED
  BY <1>1, <1>2, <1>3, <1>4, <1>7, ExecPrintable

\* A call that has come to the end of its block is past it until it goes on.
LEMMA PastPrints ==
  ASSUME FInv, Printable, mode = "execute", frames # << >>, Stay, blocks' = blocks,
         NEW new \in Seq(CallFrame), frames' = new \o Tail(frames),
         NEW n \in 1 .. Len(new), new[n].block = Here, new[n].pc # "run",
         followed \subseteq followed',
         Came(followed') \subseteq
           Came(followed) \cup { new[k].block : k \in 1 .. Len(new) }
  PROVE  Printable'
<1>1. Orderly(blocks, Here) /\ FTypeOK
  BY InBlock DEF FInv
<1>2. Past(frames', Here)
  BY <1>1, NowPast
<1>3. LeadsOn(blocks', frames', {current}, followed', Here)
  BY <1>2 DEF LeadsOn
<1>4. QED
  BY <1>1, <1>3, ExecPrintable

LEMMA EndBlockPrints ==
  ASSUME FInv, Printable, EndBlock
  PROVE  Printable'
<1> DEFINE f == [Exec EXCEPT !.pc = "branch", !.inh = Here \in inherit]
<1>1. /\ mode = "execute" /\ frames # << >> /\ Stay
      /\ UNCHANGED << blocks, followed >> /\ frames' = << f >> \o Tail(frames)
  BY DEF EndBlock, Running, Resume
<1>2. Exec \in CallFrame /\ Here = Exec.block
  BY <1>1, InBlock
<1>3. f \in CallFrame
  <2>1. (Here \in inherit) \in BOOLEAN
    OBVIOUS
  <2>2. QED
    BY <1>2, <2>1, Zenon DEF CallFrame
<1>4. f.block = Here /\ f.pc # "run"
  BY <1>2 DEF CallFrame
<1> HIDE DEF f
<1> DEFINE new == << f >>
<1>5. /\ new \in Seq(CallFrame) /\ frames' = new \o Tail(frames)
      /\ 1 \in 1 .. Len(new) /\ new[1].block = Here /\ new[1].pc # "run"
  BY <1>1, <1>3, <1>4
<1> HIDE DEF new
<1>6. followed \subseteq followed' /\ Came(followed') = Came(followed)
  BY <1>1
<1>7. QED
  BY <1>1, <1>5, <1>6, PastPrints

LEMMA NoBranchPrints ==
  ASSUME FInv, Printable, NoBranch
  PROVE  Printable'
<1> DEFINE f == [Exec EXCEPT !.pc = "next"]
<1>1. /\ mode = "execute" /\ frames # << >> /\ Stay
      /\ UNCHANGED << blocks, followed >> /\ frames' = << f >> \o Tail(frames)
  BY DEF NoBranch, AtBranch, Resume
<1>2. Exec \in CallFrame /\ Here = Exec.block
  BY <1>1, InBlock
<1>3. f \in CallFrame
  BY <1>2, Zenon DEF CallFrame
<1>4. f.block = Here /\ f.pc # "run"
  BY <1>2 DEF CallFrame
<1> HIDE DEF f
<1> DEFINE new == << f >>
<1>5. /\ new \in Seq(CallFrame) /\ frames' = new \o Tail(frames)
      /\ 1 \in 1 .. Len(new) /\ new[1].block = Here /\ new[1].pc # "run"
  BY <1>1, <1>3, <1>4
<1> HIDE DEF new
<1>6. followed \subseteq followed' /\ Came(followed') = Came(followed)
  BY <1>1
<1>7. QED
  BY <1>1, <1>5, <1>6, PastPrints

\* The call that a step enters a block with.
LEMMA EnteredCall ==
  ASSUME FInv, Printable, mode = "execute", frames # << >>, NEW b \in DOMAIN blocks
  PROVE  CallOf(b, Exec.vm, PastCall) \in CallFrame /\ CallOf(b, Exec.vm, PastCall).block = b
<1>1. Exec \in CallFrame /\ ListingOK /\ b \in Nat
      /\ extent[b] = [from |-> IndexAt(b), to |-> IndexAt(b + blocks[b].size)]
  BY InBlock DEF FInv, CInv, ExtentsOK, FTypeOK, CTypeOK, TypeOK
<1>2. extent[b].from \in Nat
  BY <1>1, ExtentsIndex
<1>3. PastCall \in BOOLEAN
  <2>1. Exec.afterCall \in BOOLEAN
    BY <1>1, Zenon DEF CallFrame
  <2>2. HasCall(Here) \in BOOLEAN
    BY Zenon DEF HasCall
  <2>3. QED
    BY <2>1, <2>2, Zenon DEF PastCall
<1>4. Exec.vm \in Seq(Nat) /\ FALSE \in BOOLEAN
  BY <1>1 DEF CallFrame
<1>5. QED
  BY <1>1, <1>2, <1>3, <1>4, Zenon DEF CallFrame, CallOf

LEMMA TakeBranchPrints ==
  ASSUME FInv, Printable, TakeBranch
  PROVE  Printable'
<1> DEFINE b == blocks[Here].nextJUMPI
           e == CallOf(b, Exec.vm, PastCall)
           f == [Exec EXCEPT !.pc = "next"]
<1>1. /\ mode = "execute" /\ frames # << >> /\ Stay /\ blocks' = blocks
      /\ followed' = followed \cup {<< Here, b >>} /\ b # NULL
      /\ frames' = << e, f >> \o Tail(frames)
  BY DEF TakeBranch, AtBranch, Branches, Inherit
<1>2. Exec \in CallFrame /\ Here = Exec.block
  BY <1>1, InBlock
<1>3. b \in DOMAIN blocks
  BY <1>1, InnermostCall DEF Linked
<1>4. f \in CallFrame
  BY <1>2, Zenon DEF CallFrame
<1>5. f.block = Here /\ f.pc # "run"
  BY <1>2 DEF CallFrame
<1> HIDE DEF b, f
<1>6. e \in CallFrame /\ e.block = b
  BY <1>1, <1>3, EnteredCall
<1> HIDE DEF e
<1> DEFINE new == << e, f >>
<1>7. /\ new \in Seq(CallFrame) /\ frames' = new \o Tail(frames)
      /\ 2 \in 1 .. Len(new) /\ new[2].block = Here /\ new[2].pc # "run"
      /\ 1 \in 1 .. Len(new) /\ new[1].block = b
  BY <1>1, <1>4, <1>5, <1>6
<1> HIDE DEF new
<1>8. /\ followed \subseteq followed'
      /\ Came(followed') \subseteq
           Came(followed) \cup { new[k].block : k \in 1 .. Len(new) }
  <2>1. << Here, b >>[2] = b
    OBVIOUS
  <2>2. QED
    BY <1>1, <1>7, <2>1 DEF Came
<1>9. QED
  BY <1>1, <1>7, <1>8, PastPrints

LEMMA TakeDefaultPrints ==
  ASSUME FInv, Printable, TakeDefault
  PROVE  Printable'
<1> DEFINE b == blocks[Here].nextDefault
           e == CallOf(b, Exec.vm, PastCall)
<1>1. /\ mode = "execute" /\ frames # << >> /\ Exec.pc = "next" /\ Stay /\ blocks' = blocks
      /\ followed' = followed \cup {<< Here, b >>} /\ b # NULL
      /\ frames' = << e >> \o Tail(frames)
  BY DEF TakeDefault, AtNext, Resume, Inherit
<1>2. b \in DOMAIN blocks
  BY <1>1, InnermostCall DEF Linked, FrameOK
<1>3. Orderly(blocks, Here)
  BY <1>1, InBlock
<1>4. b = blocks[Here].nextDefault
  OBVIOUS
<1> HIDE DEF b
<1>5. e \in CallFrame /\ e.block = b
  BY <1>1, <1>2, EnteredCall
<1> HIDE DEF e
<1> DEFINE new == << e >>
<1>6. /\ new \in Seq(CallFrame) /\ frames' = new \o Tail(frames)
      /\ 1 \in 1 .. Len(new) /\ new[1].block = b
  BY <1>1, <1>5
<1> HIDE DEF new
<1>7. << Here, b >>[2] = b
  OBVIOUS
<1>8. /\ followed \subseteq followed' /\ b \in Came(followed')
      /\ Came(followed') \subseteq
           Came(followed) \cup { new[k].block : k \in 1 .. Len(new) }
  BY <1>1, <1>6, <1>7 DEF Came
<1>9. LeadsOn(blocks', frames', {current}, followed', Here)
  BY <1>1, <1>4, <1>8 DEF LeadsOn
<1>10. QED
  BY <1>1, <1>3, <1>6, <1>8, <1>9, ExecPrintable

LEMMA NoDefaultPrints ==
  ASSUME FInv, Printable, NoDefault
  PROVE  Printable'
<1>1. /\ mode = "execute" /\ frames # << >> /\ Leave /\ Stay
      /\ UNCHANGED << blocks, followed >> /\ blocks[Here].nextDefault = NULL
  BY DEF NoDefault, AtNext
<1>2. Orderly(blocks, Here)
  BY <1>1, InBlock
<1> DEFINE new == << >>
<1>3. new \in Seq(CallFrame) /\ frames' = new \o Tail(frames)
  BY <1>1, NoCalls
<1> HIDE DEF new
<1>4. LeadsOn(blocks', frames', {current}, followed', Here)
  BY <1>1 DEF LeadsOn
<1>5. QED
  BY <1>1, <1>2, <1>3, <1>4, ExecPrintable

-----------------------------------------------------------------------------
(***************************************************************************)
(* The same through the walks, and from one function to the next.          *)
(***************************************************************************)
LEMMA BeginConnectPrints ==
  ASSUME WInv, Structured, BeginConnect, mode' = "off"
  PROVE  Printable'
<1>1. /\ phase = "scan" /\ Done /\ phase' = "connect" /\ UNCHANGED vars
      /\ blocks' = blocks /\ UNCHANGED << listing, codeSize >>
  BY DEF BeginConnect, vars
<1>2. GraphInv /\ ScanMore
  BY <1>1 DEF WInv, CInv
<1>3. ASSUME NEW b \in DOMAIN blocks \ {NODE_DEADEND}
      PROVE  Fits(blocks', b) /\ (Leaves(b) => blocks'[b].dstDefault # 0)
  BY <1>1, <1>2, FitsFound, LeavesToExitNode, NodeAssumption
<1>4. \A b : (Leaves(b)' <=> Leaves(b)) /\ (Fits(blocks, b)' <=> Fits(blocks', b))
  BY <1>1, CodeSame, MeasuresSame
<1>5. QED
  BY <1>1, <1>3, <1>4 DEF Printable

\* While walks only look, nothing changes.
LEMMA LooksPrint ==
  ASSUME Printable, OnlyLooks, mode' = "off"
  PROVE  Printable'
<1>1. /\ phase = "connect" /\ phase' = "connect" /\ UNCHANGED << listing, codeSize >>
      /\ blocks' = blocks
  BY QuietFrame DEF vars
<1>2. \A b : (Leaves(b)' <=> Leaves(b)) /\ (Fits(blocks, b)' <=> Fits(blocks', b))
  BY <1>1, CodeSame, MeasuresSame
<1>3. QED
  BY <1>1, <1>2 DEF Printable

\* A block that gets its function's exit goes somewhere before and after.
LEMMA ResolvePrints ==
  ASSUME WInv, Structured, Printable, ResolveExit, mode' = "off"
  PROVE  Printable'
<1>1. /\ phase = "connect" /\ phase' = "connect"
      /\ UNCHANGED << listing, codeSize, exitNodes >> /\ CInv /\ WalkInv
  BY DEF ResolveExit, AtEnd, WInv, Structured
<1>2. ASSUME NEW c, c = Top.block, NEW h, h = hash
      PROVE  /\ blocks[c].dstDefault = NODE_DEADEND
             /\ \E d, n : d # 0 /\ Patched(blocks, blocks', c, d, n)
  <2>1. Resolves(c, h)
    BY <1>1, <1>2, ToResolves
  <2>2. PICK d, n : /\ d = IF h \in DOMAIN exitNodes THEN exitNodes[h] ELSE NODE_DEADEND
                    /\ Patched(blocks, blocks', c, d, n)
    BY <2>1 DEF Resolves
  <2>3. d # 0
    BY <2>2, NodeAssumption DEF Structured, NoExitToStart
  <2>4. QED
    BY <2>1, <2>2, <2>3 DEF Resolves
<1>3. PICK c : /\ blocks[c].dstDefault = NODE_DEADEND
               /\ \E d, n : d # 0 /\ Patched(blocks, blocks', c, d, n)
  BY <1>2
<1>4. PICK d, n : d # 0 /\ Patched(blocks, blocks', c, d, n)
  BY <1>3
<1>5. DOMAIN blocks' = DOMAIN blocks
  BY <1>4 DEF Patched
<1>6. ASSUME NEW b \in DOMAIN blocks \ {NODE_DEADEND}
      PROVE  Fits(blocks', b) /\ (Leaves(b) => blocks'[b].dstDefault # 0)
  <2>1. Fits(blocks, b) /\ (Leaves(b) => blocks[b].dstDefault # 0)
    BY <1>1 DEF Printable
  <2>2. /\ blocks'[b].size = blocks[b].size /\ blocks'[b].dstJUMPI = blocks[b].dstJUMPI
        /\ blocks'[b].dstDefault # 0 <=> blocks[b].dstDefault # 0
    BY <1>3, <1>4, NodeAssumption DEF Patched
  <2>3. Fits(blocks', b)
    BY <2>1, <2>2, SameMeasures DEF Fits
  <2>4. QED
    BY <2>1, <2>2, <2>3
<1>7. \A b : (Leaves(b)' <=> Leaves(b)) /\ (Fits(blocks, b)' <=> Fits(blocks', b))
  BY <1>1, <1>5, CodeSame, MeasuresSame
<1>8. QED
  BY <1>1, <1>5, <1>6, <1>7 DEF Printable

\* When the exit node goes, pointer and offset agree, so that what a block goes to
\* does not depend on what its instructions find.
LEMMA ErasePrints ==
  ASSUME WInv, Structured, Printable, EraseExitNode, mode' = "off",
         frames' = << >>, followed' = {}, UNCHANGED extent
  PROVE  Printable'
<1>1. /\ phase = "connect" /\ phase' = "done" /\ UNCHANGED << listing, codeSize >>
      /\ DOMAIN blocks' = DOMAIN blocks \ {NODE_DEADEND}
      /\ \A b \in DOMAIN blocks' : blocks'[b] = blocks[b]
      /\ Shape
  BY DEF EraseExitNode, WInv, Structured, WalkInv
<1>2. ASSUME NEW b \in DOMAIN blocks'
      PROVE  Orderly(blocks', b) /\ LeadsOn(blocks', frames', {}, followed', b)
  <2>1. /\ blocks'[b] = blocks[b] /\ ShapeOf(b)
        /\ Fits(blocks, b) /\ (Leaves(b) => blocks[b].dstDefault # 0)
    BY <1>1 DEF Shape, Printable
  <2>2. blocks[b].nextDefault # NULL => blocks[b].dstDefault # 0
    BY <2>1 DEF ShapeOf, Leads, Node
  <2>3. blocks[b].dstJUMPI # 0 => blocks[b].dstDefault # 0 /\ blocks[b].nextDefault # NULL
    <3>1. blocks[b].dstDefault = blocks[b].nextDefault /\ Node(blocks[b].dstDefault)
            => blocks[b].nextDefault # NULL
      BY <1>1, NodeAssumption DEF Shape, Node
    <3>2. QED
      BY <2>1, <3>1 DEF ShapeOf, Leads
  <2>4. Orderly(blocks, b)
    BY <2>1, <2>2, <2>3 DEF Orderly, Fits
  <2>5. blocks[b].nextDefault # NULL => ~Blocked(blocks, b)
    BY <2>1, <2>2 DEF Fits, Blocked
  <2>6. Came(followed') = {}
    BY DEF Came
  <2>7. Orderly(blocks', b) /\ (Blocked(blocks', b) <=> Blocked(blocks, b))
    BY <2>1, <2>4, SameMeasures DEF Orderly, Blocked
  <2>8. QED
    BY <2>1, <2>5, <2>6, <2>7 DEF LeadsOn
<1>3. Begun' = {}
  BY DEF Begun
<1>4. \A b \in DOMAIN blocks' :
        Orderly(blocks, b)' /\ LeadsOn(blocks, frames, Begun, followed, b)'
  BY <1>1, <1>2, <1>3, MeasuresSame, CallsSame
<1>5. QED
  BY <1>1, <1>4 DEF Printable

LEMMA AnalysePrints ==
  ASSUME FInv, FInv', WInv, Structured => Printable, Analyse
  PROVE  (Structured => Printable)'
<1>1. /\ mode' = "off" /\ frames' = << >> /\ followed' = {} /\ UNCHANGED extent
  <2>1. phase # "done"
    BY DEF Analyse, ScanStep, Connect, BeginConnect, WalkFunction, UnknownBlock,
           WalkedBefore, WalkBranch, WalkPlain, EndOfPath, ResolveExit, WalkOn,
           EraseExitNode, AtNewBlock, AtLookup, AtEnd
  <2>2. mode = "off" /\ UNCHANGED fvars
    BY <2>1 DEF FInv, FTypeOK, Analyse
  <2>3. QED
    BY <2>2 DEF FInv, fvars
<1>2. CASE ScanStep
  <2>1. phase' = "scan"
    BY <1>2 DEF ScanStep, cvars
  <2>2. QED
    BY <1>1, <2>1 DEF Printable
<1>3. CASE Connect
  <2>1. UNCHANGED << listing, codeSize, exitNodes >>
    BY <1>3, QuietFrame DEF Connect, OnlyLooks, BeginConnect, ResolveExit, EraseExitNode, vars
  <2>2. Structured' <=> Structured
    BY <2>1, StructuredSame
  <2>3. QED
    BY <1>1, <1>3, <2>2, BeginConnectPrints, LooksPrint, ResolvePrints, ErasePrints
       DEF Connect, OnlyLooks
<1>4. QED
  BY <1>2, <1>3 DEF Analyse

\* The blocks of the map do not change between functions.
LEMMA BetweenPrints ==
  ASSUME FInv, mode # "off", Printable, UNCHANGED << allVars, extent, followed >>,
         \A b \in DOMAIN blocks :
           LeadsOn(blocks, frames, Begun, followed, b)
             => LeadsOn(blocks, frames', Begun', followed, b),
         mode' = "print" /\ cursor' # NULL /\ NoneCut' => cursor' \in Came(followed) \cup Begun'
  PROVE  Printable'
<1>1. /\ phase = "done" /\ phase' = "done" /\ listing' = listing /\ blocks' = blocks
      /\ extent' = extent /\ followed' = followed
  BY DEF FInv, FTypeOK, allVars, vars, cvars
<1>2. \A b \in DOMAIN blocks :
        Orderly(blocks', b) /\ LeadsOn(blocks', frames', Begun', followed', b)
  BY <1>1 DEF Printable
<1>3. \A b \in DOMAIN blocks' :
        Orderly(blocks, b)' /\ LeadsOn(blocks, frames, Begun, followed, b)'
  BY <1>1, <1>2, MeasuresSame, CallsSame
<1>4. Came(followed)' = Came(followed)
  BY <1>1 DEF Came
<1>5. QED
  BY <1>1, <1>3, <1>4 DEF Printable

\* With no call left, what a function began with has led on.
LEMMA ForgetStart ==
  ASSUME frames' = frames, Begun' \subseteq Begun, NEW b,
         LeadsOn(blocks, frames, Begun, followed, b)
  PROVE  LeadsOn(blocks, frames', Begun', followed, b)
<1>1. b \notin Came(followed) \cup Begun => b \notin Came(followed) \cup Begun'
  OBVIOUS
<1>2. QED
  BY <1>1 DEF LeadsOn

\* A block that is not cut off is not cut.
LEMMA CutIsCutOff ==
  ASSUME FInv, mode # "off", NEW b \in DOMAIN blocks, Cut(blocks, b)
  PROVE  CutOff(b)
<1>1. ListingOK /\ b \in Nat /\ b + blocks[b].size \in Nat
      /\ extent[b] = [from |-> IndexAt(b), to |-> IndexAt(b + blocks[b].size)]
  BY DEF FInv, CInv, ExtentsOK, FTypeOK, CTypeOK, TypeOK, Block
<1>2. extent[b].from = FirstIn(b) /\ extent[b].to = LastIn(blocks, b) + 1
      /\ FirstIn(b) \in Nat /\ LastIn(blocks, b) \in Int
  BY <1>1, ExtentsIndex DEF FirstIn, LastIn
<1> DEFINE f == FirstIn(b)
           l == LastIn(blocks, b)
<1>3. FallsInto(l) \/ \E i \in f .. l - 1 : listing[i].op = "JUMP"
  BY DEF Cut
<1>4. listing[l].op \in Halts
  BY DEF Cut, LastOp
<1>5. f \in Nat /\ l \in Int /\ extent[b].from = f /\ extent[b].to = l + 1
  BY <1>2 DEF f, l
<1>6. l \in extent[b].from .. extent[b].to - 1
  <2>1. f <= l
    BY DEF Cut
  <2> HIDE DEF f, l
  <2>2. QED
    BY <1>5, <2>1
<1> HIDE DEF f, l
<1>7. FallsInto(l) \/ \E i \in extent[b].from .. l - 1 : listing[i].op = "JUMP"
  BY <1>3, <1>5
<1>8. QED
  BY <1>4, <1>6, <1>7 DEF CutOff

\* The line of the cursor's block comes behind those that are there.
LEMMA PrintedBefore ==
  ASSUME IsOutput, PrintBlock, NoneCut'
  PROVE  NoneCut /\ ~CutOff(cursor)
<1> DEFINE a == Line(cursor)
           b == Line(blocks[cursor].nextJUMPI)
           more == IF IsIf(cursor) THEN << a, b >> ELSE << a >>
           T == {a, b}
<1>1. PICK S : output \in Seq(S)
  BY DEF IsOutput
<1>2. output' = output \o more /\ UNCHANGED << listing, extent >>
  BY DEF PrintBlock, allVars, vars
<1>3. a.block = cursor
  BY Zenon DEF Line
<1> HIDE DEF a, b
<1>4. more \in Seq(T) /\ Len(more) > 0 /\ more[1] = a
  <2>1. more = << a, b >> \/ more = << a >>
    BY Zenon
  <2> HIDE DEF more
  <2>2. CASE more = << a, b >>
    BY <2>2
  <2>3. CASE more = << a >>
    BY <2>3
  <2>4. QED
    BY <2>1, <2>2, <2>3
<1> HIDE DEF more, T
<1>5. /\ Len(output') = Len(output) + Len(more) /\ Len(output) \in Nat /\ Len(more) \in Nat
      /\ \A n \in 1 .. Len(output) : output'[n] = output[n]
      /\ output'[Len(output) + 1] = more[1]
  <2> DEFINE U == S \cup T
  <2>1. output \in Seq(U) /\ more \in Seq(U)
    BY <1>1, <1>4
  <2> HIDE DEF U
  <2>2. /\ Len(output \o more) = Len(output) + Len(more)
        /\ \A n \in 1 .. Len(output) + Len(more) : (output \o more)[n] =
             IF n <= Len(output) THEN output[n] ELSE more[n - Len(output)]
    BY <2>1, ConcatProperties
  <2>3. Len(output) \in Nat /\ Len(more) \in Nat
    BY <2>1
  <2>4. QED
    BY <1>2, <1>4, <2>2, <2>3
<1>6. \A n \in 1 .. Len(output') : ~CutOff(output'[n].block)
  BY <1>2, FallsSame DEF NoneCut, CutOff
<1>7. NoneCut
  BY <1>5, <1>6 DEF NoneCut
<1>8. ~CutOff(output'[Len(output) + 1].block)
  BY <1>4, <1>5, <1>6
<1>9. QED
  BY <1>3, <1>4, <1>5, <1>7, <1>8

LEMMA OutputStep ==
  ASSUME IsOutput, output' = << >> \/ output' = output \/ PrintBlock
  PROVE  IsOutput'
<1>1. CASE output' = << >>
  <2>1. output' \in Seq({})
    BY <1>1
  <2>2. QED
    BY <2>1 DEF IsOutput
<1>2. CASE output' = output
  BY <1>2 DEF IsOutput
<1>3. CASE PrintBlock
  <2> DEFINE a == Line(cursor)
             b == Line(blocks[cursor].nextJUMPI)
  <2>1. output' = output \o << a, b >> \/ output' = output \o << a >>
    BY <1>3 DEF PrintBlock
  <2> HIDE DEF a, b
  <2>2. PICK S : output \in Seq(S)
    BY DEF IsOutput
  <2> DEFINE T == S \cup {a, b}
  <2>3. output \in Seq(T) /\ << a, b >> \in Seq(T) /\ << a >> \in Seq(T)
    BY <2>2
  <2> HIDE DEF T
  <2>4. (output \o << a, b >>) \in Seq(T) /\ (output \o << a >>) \in Seq(T)
    BY <2>3, ConcatProperties
  <2>5. output' \in Seq(T)
    BY <2>1, <2>4
  <2>6. QED
    BY <2>5 DEF IsOutput
<1>4. QED
  BY <1>1, <1>2, <1>3

\* The block that the printing goes on with was executed.
LEMMA PrintBlockPrints ==
  ASSUME FInv, IsOutput, Printable, PrintBlock, current \in DOMAIN blocks
  PROVE  Printable'
<1>1. /\ mode = "print" /\ mode' = "print" /\ cursor # NULL
      /\ cursor' = blocks[cursor].nextDefault
      /\ frames' = frames /\ current' = current
      /\ UNCHANGED << allVars, extent, followed >>
  BY DEF PrintBlock
<1>2. frames = << >> /\ phase = "done" /\ followed \subseteq (DOMAIN blocks) \X (DOMAIN blocks)
  BY <1>1 DEF FInv, FTypeOK
<1>3. Begun' = Begun /\ Begun = {current}
  BY <1>1 DEF Begun
<1>4. NoneCut' => NoneCut /\ ~CutOff(cursor)
  BY <1>1, PrintedBefore
<1>5. NoneCut' /\ cursor' # NULL => cursor' \in Came(followed)
  <2> SUFFICES ASSUME NoneCut', cursor' # NULL
               PROVE  cursor' \in Came(followed)
    OBVIOUS
  <2>1. cursor \in Came(followed) \cup Begun /\ cursor \in DOMAIN blocks
    BY <1>1, <1>2, <1>3, <1>4 DEF Printable, Came
  <2>2. ~Cut(blocks, cursor)
    BY <1>1, <1>4, <2>1, CutIsCutOff
  <2>3. LeadsOn(blocks, frames, Begun, followed, cursor)
    BY <1>2, <2>1 DEF Printable
  <2>4. ~Past(frames, cursor) /\ ~AtBlock(frames, cursor)
    BY <1>2 DEF Past, AtBlock
  <2>5. QED
    BY <1>1, <2>1, <2>2, <2>3, <2>4 DEF LeadsOn
<1>6. \A b : LeadsOn(blocks, frames, Begun, followed, b)
               => LeadsOn(blocks, frames', Begun', followed, b)
  BY <1>1, <1>3, ForgetStart
<1>7. QED
  BY <1>1, <1>5, <1>6, BetweenPrints

\* The steps between executions that begin none.
LEMMA QuietStepPrints ==
  ASSUME FInv, Printable, mode = "execute" => cursor = current,
         ExecutionDone \/ AllDecompiled \/ PrintDone
  PROVE  Printable'
<1>1. /\ mode # "off" /\ UNCHANGED << allVars, extent, followed >>
      /\ frames' = frames /\ current' = current /\ cursor' = cursor
      /\ mode' = "print" => mode = "execute"
      /\ mode' # "execute"
  BY DEF ExecutionDone, AllDecompiled, PrintDone
<1>2. Begun' \subseteq Begun
  BY <1>1 DEF Begun
<1>3. mode' = "print" => cursor' \in Begun'
  BY <1>1 DEF Begun
<1>4. \A b : LeadsOn(blocks, frames, Begun, followed, b)
               => LeadsOn(blocks, frames', Begun', followed, b)
  BY <1>1, <1>2, ForgetStart
<1>5. QED
  BY <1>1, <1>3, <1>4, BetweenPrints

\* A block that the next function begins with has a call at it.
LEMMA DecompilePrints ==
  ASSUME FInv, Printable, Decompile
  PROVE  Printable'
<1>1. /\ mode = "idle" /\ UNCHANGED << allVars, extent, followed >>
      /\ \/ UNCHANGED << mode, frames >>
         \/ mode' = "execute" /\ frames' = << CallOf(current', << >>, FALSE) >>
  BY DEF Decompile
<1>2. frames = << >> /\ Begun = {} /\ mode' # "print"
  BY <1>1 DEF FInv, FTypeOK, Begun
<1>3. CASE UNCHANGED << mode, frames >>
  <2>1. Begun' \subseteq Begun /\ frames' = frames
    BY <1>1, <1>3 DEF Begun
  <2>2. \A b : LeadsOn(blocks, frames, Begun, followed, b)
                 => LeadsOn(blocks, frames', Begun', followed, b)
    BY <2>1, ForgetStart
  <2>3. QED
    BY <1>1, <1>2, <2>2, BetweenPrints
<1>4. CASE mode' = "execute" /\ frames' = << CallOf(current', << >>, FALSE) >>
  <2> DEFINE e == CallOf(current', << >>, FALSE)
  <2>1. e.block = current'
    BY Zenon DEF CallOf
  <2>2. frames' = << e >> /\ Begun' = {current'}
    BY <1>4 DEF Begun
  <2> HIDE DEF e
  <2>3. AtBlock(frames', current')
    BY <2>1, <2>2 DEF AtBlock
  <2>4. \A b : ~Past(frames, b) /\ ~AtBlock(frames, b)
    BY <1>2 DEF Past, AtBlock
  <2>5. ASSUME NEW b, LeadsOn(blocks, frames, Begun, followed, b)
        PROVE  LeadsOn(blocks, frames', Begun', followed, b)
    BY <2>2, <2>3, <2>4, <2>5 DEF LeadsOn
  <2>6. QED
    BY <1>1, <1>2, <2>5, BetweenPrints
<1>5. QED
  BY <1>1, <1>3, <1>4

LEMMA ExtentsPrint ==
  ASSUME FInv, Printable, AddInstructionsToBlocks
  PROVE  Printable'
<1>1. /\ mode = "off" /\ phase = "done" /\ mode' = "idle"
      /\ frames' = frames /\ followed' = followed /\ phase' = "done"
      /\ listing' = listing /\ blocks' = blocks
  BY DEF AddInstructionsToBlocks, allVars, vars, cvars
<1>2. frames = << >> /\ followed = {}
  BY <1>1 DEF FInv
<1>3. Begun = {} /\ Begun' = {}
  BY <1>1 DEF Begun
<1>4. ASSUME NEW b \in DOMAIN blocks
      PROVE  /\ Orderly(blocks, b)
             /\ blocks[b].nextDefault # NULL /\ ~Cut(blocks, b) => ~Blocked(blocks, b)
  <2>1. Orderly(blocks, b) /\ LeadsOn(blocks, frames, Begun, followed, b)
    BY <1>1 DEF Printable
  <2>2. ~Past(frames, b) /\ Came(followed) = {}
    BY <1>2 DEF Past, Came
  <2>3. QED
    BY <2>1, <2>2 DEF LeadsOn
<1>5. Came(followed)' = {}
  BY <1>1, <1>2 DEF Came
<1>6. ASSUME NEW b \in DOMAIN blocks'
      PROVE  Orderly(blocks, b)' /\ LeadsOn(blocks, frames, Begun, followed, b)'
  <2>1. /\ Orderly(blocks, b)' /\ (Blocked(blocks, b)' <=> Blocked(blocks, b))
        /\ Cut(blocks, b)' <=> Cut(blocks, b)
    BY <1>1, <1>4, MeasuresSame
  <2>2. b \notin Came(followed)' \cup Begun'
    BY <1>3, <1>5
  <2>3. (blocks[b].nextDefault # NULL)' /\ ~Cut(blocks, b)' => ~Blocked(blocks, b)'
    BY <1>1, <1>4, <2>1
  <2>4. QED
    BY <2>1, <2>2, <2>3 DEF LeadsOn
<1>7. QED
  BY <1>1, <1>6 DEF Printable

-----------------------------------------------------------------------------
PrintInv ==
  /\ FInv /\ (phase # "done" => WInv)
  /\ mode \in {"execute", "print"} => current \in DOMAIN blocks
  /\ mode = "execute" => cursor = current
  /\ IsOutput /\ (Structured => Printable)

LEMMA PrintInit == FInit => PrintInv
<1> SUFFICES ASSUME FInit PROVE PrintInv
  OBVIOUS
<1>1. CInit /\ mode = "off" /\ phase = "scan"
  BY DEF FInit, CInit
<1>2. FInv /\ WInv
  BY <1>1, FunctionInit, WInvInit
<1>3. IsOutput
  BY DEF FInit, IsOutput
<1>4. QED
  BY <1>1, <1>2, <1>3 DEF PrintInv, Printable

LEMMA ExecutePrints ==
  ASSUME FInv, Printable, Execute, mode = "execute" => cursor = current
  PROVE  Printable'
<1>1. CASE ExecHalt \/ ExecJump \/ ExecJumpi \/ ExecOther
  BY <1>1, ExecHaltPrints, ExecJumpPrints, ExecJumpiPrints, ExecOtherPrints
<1>2. CASE EndBlock \/ TakeBranch \/ NoBranch \/ TakeDefault \/ NoDefault
  BY <1>2, EndBlockPrints, TakeBranchPrints, NoBranchPrints, TakeDefaultPrints,
     NoDefaultPrints
<1>3. CASE ExecutionDone
  BY <1>3, QuietStepPrints
<1>4. QED
  BY <1>1, <1>2, <1>3 DEF Execute

\* What the steps of the execution leave alone.
LEMMA ExecuteFrame ==
  ASSUME FInv, Execute
  PROVE  /\ mode = "execute" /\ mode' \in {"execute", "print"}
         /\ phase' = phase /\ current' = current /\ cursor' = cursor
         /\ UNCHANGED << listing, codeSize, exitNodes >>
<1>1. mode = "execute"
  BY DEF Execute, ExecHalt, ExecJump, ExecJumpi, ExecOther, EndBlock, TakeBranch,
         NoBranch, TakeDefault, NoDefault, ExecutionDone, AtInstr, AtBranch, AtNext, Running
<1>2. CASE ExecutionDone
  BY <1>1, <1>2 DEF ExecutionDone, allVars, vars, cvars
<1>3. CASE ~ExecutionDone
  <2>1. Stay
    BY <1>3 DEF Execute, ExecHalt, ExecJump, ExecJumpi, ExecOther, EndBlock, TakeBranch,
                NoBranch, TakeDefault, NoDefault
  <2>2. QED
    BY <1>1, <2>1 DEF Stay, cvars
<1>4. QED
  BY <1>2, <1>3

LEMMA BlocksStay ==
  ASSUME FInv, FInv', Execute
  PROVE  DOMAIN blocks' = DOMAIN blocks
<1>1. mode = "execute"
  BY ExecuteFrame
<1>2. DOMAIN extent = DOMAIN blocks /\ DOMAIN extent' = DOMAIN blocks'
  BY <1>1, ExecuteFrame DEF FInv, FTypeOK
<1>3. extent' = extent
  BY DEF Execute, ExecHalt, ExecJump, ExecJumpi, ExecOther, EndBlock, TakeBranch,
         NoBranch, TakeDefault, NoDefault, ExecutionDone, Stay
<1>4. QED
  BY <1>2, <1>3

LEMMA PrintStep ==
  ASSUME PrintInv, [FNext]_pipelineVars
  PROVE  PrintInv'
<1>1. FInv /\ FInv'
  BY FunctionStep DEF PrintInv
<1>2. IsOutput'
  <2>1. output' = << >> \/ output' = output \/ PrintBlock
    BY DEF FNext, FStep, Analyse, AddInstructionsToBlocks, Decompile, AllDecompiled, PrintDone,
           Execute, ExecHalt, ExecJump, ExecJumpi, ExecOther, EndBlock, TakeBranch,
           NoBranch, TakeDefault, NoDefault, ExecutionDone, Stay, pipelineVars, fvars
  <2>2. QED
    BY <2>1, OutputStep DEF PrintInv
<1>3. CASE Analyse
  <2>1. phase # "done"
    BY <1>3 DEF Analyse, ScanStep, Connect, BeginConnect, WalkFunction, UnknownBlock,
                WalkedBefore, WalkBranch, WalkPlain, EndOfPath, ResolveExit, WalkOn,
                EraseExitNode, AtNewBlock, AtLookup, AtEnd
  <2>2. WInv /\ WInv'
    BY <1>3, <2>1, WInvStep DEF PrintInv, Analyse, CNext
  <2>3. mode' = "off"
    BY <1>1, <1>3, <2>1 DEF Analyse, fvars, FInv, FTypeOK
  <2>4. (Structured => Printable)'
    BY <1>1, <1>3, <2>2, AnalysePrints DEF PrintInv
  <2>5. QED
    BY <1>1, <1>2, <2>2, <2>3, <2>4 DEF PrintInv
<1>4. CASE Execute
  <2>1. /\ mode = "execute" /\ phase = "done" /\ phase' = "done"
        /\ current' = current /\ cursor' = cursor
        /\ UNCHANGED << listing, codeSize, exitNodes >>
    BY <1>1, <1>4, ExecuteFrame DEF FInv, FTypeOK
  <2>2. (Structured' <=> Structured) /\ DOMAIN blocks' = DOMAIN blocks
    BY <1>1, <1>4, <2>1, StructuredSame, BlocksStay
  <2>3. (Structured => Printable)'
    BY <1>1, <1>4, <2>2, ExecutePrints DEF PrintInv
  <2>4. QED
    BY <1>1, <1>2, <2>1, <2>2, <2>3 DEF PrintInv
<1>5. CASE AddInstructionsToBlocks \/ Decompile \/ AllDecompiled \/ PrintBlock
             \/ PrintDone \/ UNCHANGED pipelineVars
  <2>1. /\ UNCHANGED allVars /\ (mode' = "execute" => cursor' = current')
        /\ ~Decompile => current' = current
        /\ mode' \in {"execute", "print"} => mode \in {"execute", "print"} \/ Decompile
    BY <1>5 DEF AddInstructionsToBlocks, Decompile, AllDecompiled, PrintBlock,
                PrintDone, pipelineVars, fvars, PrintInv
  <2>2. UNCHANGED << listing, codeSize, exitNodes, blocks, phase >>
    BY <2>1 DEF allVars, vars, cvars
  <2>3. Structured' <=> Structured
    BY <2>2, StructuredSame
  <2>4. phase' # "done" => WInv'
    BY <2>1, <2>2, WInvSame DEF PrintInv
  <2>5. mode' \in {"execute", "print"} => current' \in DOMAIN blocks'
    <3>1. CASE Decompile
      <4>1. PICK f \in todo : current' = FunctionOffset(blocks[f].fnAddrHash)
        BY <3>1 DEF Decompile
      <4>2. f \in Functions /\ DOMAIN blocks \subseteq Nat
        BY <1>1 DEF FInv, CInv, CTypeOK, TypeOK
      <4>3. QED
        BY <2>2, <4>1, <4>2, FunctionFound DEF Functions
    <3>2. CASE ~Decompile
      BY <2>1, <2>2, <3>2 DEF PrintInv
    <3>3. QED
      BY <3>1, <3>2
  <2>6. Structured => Printable'
    <3> SUFFICES ASSUME Printable PROVE Printable'
      BY DEF PrintInv
    <3>1. CASE UNCHANGED pipelineVars
      <4>1. /\ frames' = frames /\ followed' = followed /\ mode' = mode
            /\ extent' = extent /\ cursor' = cursor /\ current' = current
        BY <3>1 DEF pipelineVars, fvars
      <4>2. /\ Begun' = Begun /\ Came(followed)' = Came(followed)
            /\ NoneCut' <=> NoneCut
        BY <2>2, <3>1, <4>1, FallsSame DEF Begun, Came, NoneCut, CutOff, pipelineVars, fvars
      <4>3. \A b : (Leaves(b)' <=> Leaves(b)) /\ (Fits(blocks, b)' <=> Fits(blocks, b))
        BY <2>2, CodeSame, MeasuresSame
      <4>4. \A b : /\ Orderly(blocks, b)' <=> Orderly(blocks, b)
                   /\ LeadsOn(blocks, frames, Begun, followed, b)'
                        <=> LeadsOn(blocks, frames, Begun, followed, b)
        BY <2>2, <4>1, <4>2, MeasuresSame, CallsSame
      <4>5. QED
        BY <2>2, <4>1, <4>2, <4>3, <4>4 DEF Printable
    <3>2. CASE AddInstructionsToBlocks \/ Decompile
      BY <1>1, <3>2, ExtentsPrint, DecompilePrints
    <3>3. CASE AllDecompiled \/ PrintDone
      BY <1>1, <3>3, QuietStepPrints DEF PrintInv
    <3>4. CASE PrintBlock
      BY <1>1, <3>4, PrintBlockPrints DEF PrintInv, PrintBlock
    <3>5. QED
      BY <1>5, <3>1, <3>2, <3>3, <3>4
  <2>7. QED
    BY <1>1, <1>2, <2>1, <2>3, <2>4, <2>5, <2>6 DEF PrintInv
<1>6. QED
  BY <1>3, <1>4, <1>5 DEF FNext, FStep

\* Where decompile prints a block, and where decompileBlock looks into the one behind
\* an `if', there is one, in every contract whose code is structured, until a block is
\* printed that is cut off (Contract.cpp:906-918, 1078-1082).
THEOREM PrintedAreBlocks == FSpec => []PrintedBlocksExist
<1>1. PrintInv => PrintedBlocksExist
  <2> SUFFICES ASSUME PrintInv, mode = "print", cursor # NULL, Structured, NoneCut
               PROVE  /\ cursor \in DOMAIN blocks
                      /\ SuccessorsCount(cursor) = 2 => blocks[cursor].nextDefault # NULL
    BY DEF PrintedBlocksExist, NoneCut
  <2>1. /\ cursor \in Came(followed) \cup {current} /\ current \in DOMAIN blocks
        /\ phase = "done" /\ followed \subseteq (DOMAIN blocks) \X (DOMAIN blocks)
    BY DEF PrintInv, Printable, Begun, FInv, FTypeOK
  <2>2. cursor \in DOMAIN blocks
    BY <2>1 DEF Came
  <2>3. Orderly(blocks, cursor)
    BY <2>1, <2>2 DEF PrintInv, Printable
  <2>4. SuccessorsCount(cursor) = 2 => blocks[cursor].dstJUMPI # 0
    BY DEF SuccessorsCount
  <2>5. QED
    BY <2>2, <2>3, <2>4 DEF Orderly
<1>2. PrintInv /\ [FNext]_pipelineVars => PrintInv'
  BY PrintStep
<1>3. QED
  BY PrintInit, <1>1, <1>2, PTL DEF FSpec
=============================================================================
