# Porosity in TLA+

TLA+ models of Porosity, the decompiler for Ethereum contracts (`porosity/porosity/`),
with TLC configurations that check them on small contracts and TLAPS proofs for
every value of the constants. Paths and lines below are relative to
`src/porosity/porosity/`.

## The system

Porosity is one sequential program. `main` (Porosity.cpp) builds a `Contract` from
byte code, whose constructor runs the whole analysis, and then prints a graph, a list
of functions, a disassembly or a decompilation. Nothing runs concurrently and nothing
is persisted. What is hard about it is that one record per basic block is written by
one pass after another, in an order that depends on the contract, and that the
later ones read what the earlier ones happened to leave.

| Component | State | Operations | Works with |
|---|---|---|---|
| Code loading (Contract.h:26-40, Contract.cpp:1091-1129, Instruction.cpp:215-244) | `m_byteCodeRuntime`, `m_runtimeOffset` | `IsRuntimeCode`, `eachInstruction` | gives the listing to the scan |
| Block graph (Contract.cpp:50-253, 464-553) | `m_instructions`, `m_listbasicBlockInfo` (a map from offset to block), `m_exitNodesByHash` | `enumerateInstructionsAndBlocks`, `assignXrefToBlocks`, `addBasicBlock`, `addBlockReference`, `setBlockSize` | reads the listing, writes edges, xrefs, sizes, selectors |
| Exit node (Contract.cpp:255-267, 374-405) | `walkedNode`, the C++ stack | `walkAndConnectNodes` | rewrites the successors of blocks that leave a function; erases the exit node |
| Instructions of blocks (Contract.cpp:335-372) | `instructions` | `addInstructionsToBlocks` | cuts the listing by the block sizes |
| Dominators (Contract.cpp:286-333) | `id`, `dominators` | `computeDominators` | reads the xrefs; run after the analysis and again by each `decompile` |
| Symbolic machine (VMState.cpp:117-720) | stack, memory, `m_eip` | `executeInstruction` | called for each instruction of a block |
| Execution of a function (VMState.cpp:745-864) | `Flags`, `InheritFlags`, the machine | `executeFunction`, `executeBlock` | copies the machine for a branch, rewrites successors, spreads flags |
| Byte-code execution (VMState.cpp:866-916, 565-607) | the machine, `m_depthLevel` | `executeByteCode` | calls itself through JUMPI; only `getFunction` and the debug driver use it |
| Decompilation (Contract.cpp:769-781, 822-829, 899-1089) | `SourceCode` | `forEachFunction`, `decompile`, `decompileBlock`, `StructureIfs` | executes a function, then prints along default successors |
| Texts (VMState.cpp:192-540, 940-1225) | `type`, `name`, `exp`, `value` of each register | `executeInstruction`, `getContextForInstruction`, `getDismangledRegisterName` | snapshots per instruction, read by the printing |
| Statements (Statement.h) | condition attribute, two registers | `setCondition`, `NegateCondition`, `getStatementStr` | called by `StructureIfs` with the snapshots of a block |
| ABI, command line, output, helpers (Contract.cpp:596-767, Porosity.cpp, Output.cpp, Utils.cpp) | a map of names, the options | `setABI`, `parse`, `getGraphviz`, `exp256` | read the finished graph |

What makes each part correct:

* **Code loading.** The listing is gapless, begins at offset 0 and never mistakes data
  of a push for an instruction; from creation code exactly the deployed code is taken.
* **Symbolic machine.** Each instruction does to the stack what the table of
  Instruction.cpp says, so that each jump finds its destination; no instruction looks at
  registers or memory elements that are not there.
* **Block graph.** The two directions of an edge agree; every xref names a block; the
  blocks, successors and sizes are those of the code; a block is a function exactly if the
  last reference to it is a dispatch.
* **Exit node.** The walks end, touch only the function they are for, connect each
  block that leaves it, and leave no pointer to the block that is erased.
* **Texts and statements.** What is printed means what the contract does: `if (c) {` stands
  around what runs when the contract's condition holds, `store[...] = e;` says what is stored.
* **Byte-code execution.** It returns, leaves the instructions of the code only where the code
  itself sends it, and sees all that a few forced branches can reach, each copy without
  disturbing the others.
* **Dominators.** No dominator is ever lost, the words shrink, the sweeps end with
  exactly the dominators as long as the blocks fit in an `int`, and a second run on old
  words gives the same.
* **Execution and printing.** Each block that can follow a call is flagged before it
  runs, and no other; the corrected successors lead to blocks; printing ends and shows
  the path.

What can go wrong in each is listed, at its line, under `hazards` in `PROJECT.json`.

## The modules

```
CodeLoader    BlockGraph <- ConnectNodes <- FunctionExec      VMStack      Conditions
                                 ^
Dominance <== Dominators <-- Analysis                         ForkExec

<-  EXTENDS      <--  INSTANCE (Analysis takes both)      <==  implements
```

Each has its MC module; CodeLoader, BlockGraph, Dominators, VMStack, ForkExec,
Conditions, Analysis and FunctionExec have a module `...Proofs`, that of FunctionExec with the
proofs about ConnectNodes. Reachability, which ConnectNodes extends, has what can be reached in a
finite graph. Assembler lays out contracts for the MC modules, and MCContracts holds a single
one.

The program runs them in the order CodeLoader, BlockGraph, ConnectNodes, Dominators,
FunctionExec. CodeLoader promises what BlockGraph assumes of a listing (its `WellFormed`);
VMStack is the machine that FunctionExec reduces to code addresses, and `AddressesKept`
is what that reduction rests on. Conditions is the same machine seen from the other side:
the values and texts of its registers, in code whose instructions have the stack effect that
VMStack shows.

### CodeLoader

The constructor up to the listing. `it` is the iterator of `eachInstruction`, and one
step is one call of its callback: `InConstructor` and `BehindReturn` are the two halves of
the one in `IsRuntimeCode`, `Load` is the one in `enumerateInstructionsAndBlocks`.
`TakeAll`, `TakeTail` and `TakeNothing` are what the constructor makes of the answer. A
byte is one of a set, the table of instructions a constant; data is the sequence of its
bytes, so that what a cut-off push is filled with can be told from what it holds. `seen`
is a history of the first disassembly, for comparing it with the second.

### Dominators

`Contract::computeDominators` over any graph. `references` is the xrefs of each
block, `dominators` the words as sets of bits, `it` the iterator of the inner loop,
`preds` the xrefs it has still to visit, `changed` the C++ local. One step is one
predecessor of one block (`VisitPred`); `RepeatSweep` and `Finish` are the two ways out
of `while (changed)`, and `Recompute` is a later call from `decompile`, on the words
that are there. `Shl1` is the C++ expression `1 << j`: an int of `IntBits` bits, the
shift count taken modulo the width (for a count that large the language leaves the
value undefined; the model takes what the shift instruction gives), converted to the
u256 word with its sign. The early exit for an xref without a block is left out:
`ReferencesResolve` of BlockGraph is the reason (theorem `XrefsResolve`).

### Dominance

What a call of `computeDominators` is to its callers: a question (`Ask`) and, some time
later, all dominators at once (`Answer`). Dominators implements it (`Abs`, property
`AnswersDominance`): the answer is its words once `pc` is `done`, and every sweep before
that is a stutter. It is a specification and translates no code; neither do `OnEthereum` of
VMStack and Conditions, nor `Says`, `ExpSays` and `NotSays`.

### Analysis

ConnectNodes to its end and Dominators on the blocks it leaves: `Xrefs` are the
`references` of the blocks, numbered by their place in the map (`Id`), and take the place of
the constant graph. `FindBlocks`, `ComputeDominators` and `Decompile` are the three callers.
`CodeEdges` is a reading of the code's edges from its instructions, for the property, with
falls as the scan takes them.

### BlockGraph

The loop of `assignXrefToBlocks` up to its end, on a listing. `blocks` is
`m_listbasicBlockInfo` as a function from offsets to records, and a pointer is the
offset it points to or `NULL`. One step is one instruction: `FunctionEntry`,
`FallIntoBlock` and `EnterBlock` are the three ways through the case of JUMPDEST, `Halt`
is STOP and RETURN, `ConditionalJump` and `Jump` their cases, `Skip` the default. The
other operators are the functions of the code with their names. Opcodes the code does
not tell apart share one (`OTHER`, `VALUE`; `PUSH12` is PUSH1 or PUSH2). Numbers are not
cut to 32 bits: offsets are far below that, and what `int(u256)` makes of larger constants
belongs to a library. `NoFall` is the pass's own list of opcodes that do not fall through.
What the code does is read off the listing apart from it, for `EdgesExact`: `BlockStarts` and
`CodeOf` cut the listing into blocks, and `GoesOn` is where an instruction goes, by what
Instruction.h says of it (`Stopping`).

### ConnectNodes

BlockGraph to its end, then the reconnection loop. The recursion of
`walkAndConnectNodes` is the explicit `stack` of calls: a frame is at the lookup of its
`next` or behind the branch of its `block`. `WalkedBefore` is the `continue`, and it goes
on with offset 0 where the code does. `EraseExitNode` is the last line.

### FunctionExec

ConnectNodes to its end, then `main`'s loop over the functions: `Decompile` starts
one, a frame of `frames` is a call of `executeFunction` with its own copy of the
machine, the `Exec...` actions are `executeBlock`, one instruction a step, and
`TakeBranch`, `TakeDefault` and their opposites the loop around it. `PrintBlock` is one
turn of the printing loop. The stack holds only the values that may be code addresses; a
line of output is the block it is from and whether a store in it is reported. `path`,
`followed` and a frame's `afterCall` are history variables for the properties.

### VMStack

`executeInstruction` with `executeBlock` around it, for one instruction of each kind.
`m_stack` (the top first), `m_memStorage` and `m_eip` are the machine; `evm` is the stack
the same code has on Ethereum, by the table of Instruction.cpp, where a computed word is
`COMPUTED` and a pushed one keeps its value. `Done` is a `break` out of the switch,
`Failed` a `return false`, which `executeBlock` ignores, and `Beyond` the access to a
register that is not there: it is undefined, and the run ends. `Touched` counts the registers an
instruction looks at, those of its `InstructionContext` included. The loop of `executeBlock`
does not end at a JUMP: behind one `status` is `dead`, the rest of the block is executed with
whatever the stack then holds, and `evm`, where none of it is executed, stays. `strayed` is
history: an instruction has had another effect than on Ethereum.
`int(u256)` is left out, as offsets are small. Other instructions begin only with their operands
on `evm`, as in valid code; a function that reaches below what its block sequence began
with is outside the model.

### ForkExec

`executeByteCode` over the listing of a contract and its size, from the `entry` of the function
that `getFunction` was asked for (which is not 0: there it gives up). `machines` is the C++ stack of
its calls, each with its own copy of the registers; a call is at its entry (where only the
level is tested) or behind an instruction (where only the end is). `Fork` puts the copy on
top with the outcome the values do not give, and leaves the machine where it goes on once
that has returned. A byte inside the data of a push may be no instruction, which ends the call
(`ReturnAtInvalid`), or may be one: the data is abstract, so both are possible. To execute it
and to read a byte behind the code is `RunBeyond`, to read a register that is not there is
`Underflow`: both end the model. `executed` is history: where an instruction was executed, with
which stack, on which level. One instruction of each kind that moves `m_eip`, ends
the call or changes the addresses on the stack stands for the rest; `VMStack` has those.

### Conditions

What is printed. A register is its `value`, `type`, `name` and `exp`, as in the code; a text
is a record of what it names instead of a string (`arg_k`, `store_k`, a constant in hex, or a
random name), an expression has one operator, since the code concatenates names only.
`Says` is the value a reader gives to a text, knowing the input and the storage. Next to the
machine runs `evm`, the words on Ethereum, from arguments (`calldata`) that differ from those
the decompiler was given (`m_data`). `Context` is `getContextForInstruction`, `Result` and the
actions are `executeInstruction`, `setCondition` to `StatementSays` is Statement.h, and
`Jumpi` and `SStore` print the lines of `decompileBlock`. The snapshot that `StructureIfs`
reads later is the one of the moment, so `ifStmt` is kept along; `Jumpdest` and `Jumpi` begin
a new block and so a new Statement. `from`, `id` and `slots` of a word, and `test`, are
history: how a word came to be, and which test decides. SLT stands for SGT in the way they
are passed over. A constant has `Width` bits, and the two masks are constants of the model.

### Assembler and the MC modules

Assembler lays out blocks written with labels as a listing: a head (a JUMPDEST, a
function's entry with its return address, ...), a body and a tail (halt, fall, jump,
branch, call, dispatch). MCBlockGraph, MCContracts, MCConnectNodes and MCFunctionExec
define the sets of contracts; MCDominators the graphs, MCCodeLoader the byte codes,
MCVMStack the instructions.

Operators whose comment begins with `Mutation:` are not part of the models. Each is a
definition with a plausible mistake in it; exchanging it for the original makes the
property it is paired with in `PROJECT.json` fail, which shows that the property depends
on that code.

## The runs

| Run | Contracts or graphs | Shows |
|---|---|---|
| `code_loader` | every byte code of up to 5 bytes over 7 kinds of byte | `ListingWellFormed` at each step, `ListingIsTail`, `DeployedCodeFound` |
| `vm_stack` | every 3 instructions, behind a JUMP too, stacks of 0, 5, 7 and 17 registers, blocks begun anywhere between | `AddressesKept`, `KnownFaults` |
| `conditions` | any two instructions; up to seven that end in an `if` or a store; five stacks that earlier blocks left; two inputs; 3-bit words | `NamesRight`, `ConditionFaithful`, `StoreFaithful` |
| `fork_exec` | chains of five branches; all flows of branches back and forth, calls and returns through four blocks; seven codes that end badly | `SeenExactly`, `WaysOut`, `Returns` |
| `dominators` | all graphs of 4 blocks, 5-bit int, 6-bit word | `DominatorsKept`, `AnswersDominance`, `Narrowing`, `Terminates`, on the first and on later computations |
| `block_graph` | every contract of three blocks over 30 shapes | `LinksMutual`, `ReferencesResolve`, `InInnermostBlock`, `LeftBlocksFrozen` during the pass; `EdgesExact`, `SizesExact`, `ListedByLastReference` at its end |
| `analysis` | a dispatch, two functions and three shared blocks without loops, to the dominators; none ends in a REVERT or falls into an entry | `NothingDangles`, `FirstFunctionKeepsExit`, `WalkStaysInFunction`, `DominatorsOfCode`, `AnalysisAnswers` |
| `function_exec` | the same frame with calls, stores and subroutines | `FlaggedAfterCall`, `FlagsHaveCause`, `PathLinksLive`, `PrintedBlocksExist`, `DecompilationEnds` |
| `shared_entry`, `loop`, `value_check`, `called_twice` | one contract each | what a document or comment says that the code does not do (below) |

**Why the bounds are enough.** Five bytes hold the shortest creation code (CODECOPY,
RETURN, STOP, an instruction) with one more byte anywhere, and a push cut off by the end at each
length; the theorems hold for every code and table. An instruction's effect depends on
the stack and one memory element, so one MSTORE, one SHA3 and a third instruction
are enough to see a wrong word used; 5 and 7 are the sides of CALL's test for six, which two
unimplemented instructions can reach from 5, and 17 is what SWAP16 takes. The dominator sweeps compare one block with one
predecessor; four blocks have every shape of join, loop, unreachable block and
irreducible region that two paths can make, and the theorems below hold for all
sizes. The scan looks one instruction back, one ahead and four back for a selector, so
three blocks put every pair of endings and beginnings side by side, with a block before
or behind, dead code and labels that are no JUMPDEST included. The walk and the execution need two
functions (the second finds what the first left) and three blocks behind them (a join, a
chain, a block both reach), each of which may leave, halt, branch or fall: 800 contracts in
`analysis`, where the second function may also push a constant that is no address before its
return address, and 2592 in `function_exec`, where the last block may have a STOP behind its jump,
as in front of a contract's metadata, or a block may end in INVALID. `NODE_DEADEND`
is any offset no code has. Five branches are one more than there are levels; a contract of four
blocks can return to each of them, branch back, and call a block from two places. The graphs of
`dominators` have fewer blocks than an int has bits, so no two blocks share bits there; for more
blocks there is only the theorem `NeverLosesADominator`. Three bits
hold a mask, a slot, an argument that differs from the one supposed, and room to wrap; the
longest code of `conditions` is the shortest in which an ISZERO chain, a copy, a swap and a
store come between a test and its JUMPI.

**Fairness.** The program is sequential and its constructor and `main` run to their
ends, so each specification with a liveness property has weak fairness of the whole
step relation (`Construct`, `Compute`, `ScanStep \/ Connect`, `FindBlocks \/ ComputeDominators`, `FStep`, `Step`) and none of single actions.
In Dominators nothing obliges a `Recompute`, nor in Analysis a `Decompile`. Conditions says
nothing of liveness.

**Hypotheses inside properties.** `AddressesKept` speaks of runs in which
no instruction has failed or had another effect than on Ethereum, because some do (below).
`KnownFaults` names the three
instructions that look beyond their operands even then. Behind a JUMP of the same block both
end: what is executed there is not executed on Ethereum. `DeployedCodeFound` is about
creation code that copies, returns once and STOPs. `WaysOut` has no premise. `Returns` is about
all code but a JUMP on an empty stack, and the contracts of its run have no loop that the
constants they push would repeat. `ConditionFaithful` and `StoreFaithful` speak of lines that are
`trusted`: the hypotheses are in `FromOf`, `IsZero` and `SStore`, and each of them stands for a
case in which the code prints something else (below); of a store, the right-hand side is modelled.
`DominatorsOfCode` has the edges of the listing as its graph, with falls as the scan takes them and
without the edges of returns, which are not among the xrefs, and is about code whose labels are
JUMPDESTs (`LabelsAreDests`): a jump to anything else is an edge that the scan has no xref for.
`SeenExactly` compares with a search of the code's configurations that looks `MaxDepth` times the
listing's length far, and has as premise that this search has come to its end. It has for every
contract of the run; but code may have longer paths than that without a loop, a subroutine
called many times for one, and there the search, not the program, would stop short. The theorem
`ExecutesTheReachable` compares with the full set and has no such premise.

`EdgesExact` reads the edges off the code by what its instructions do, not by the lists of the
pass, and so has to say where the pass is right. It assumes what compilers do: no jump to
anything but a JUMPDEST. It then says of every contract which blocks there are, and of each block
that is `Readable` all its edges. The others have dead code behind a jump or halt, a branch whose
address is not pushed just before it, JUMPC or JUMPCI, a REVERT or INVALID before a JUMPDEST (the
graph has an edge where execution stops), or a fall into a JUMPDEST that is dispatched to (the
graph has no edge where execution goes on): these last two are hazards that the property names
and does not catch. `SizesExact` and `ListedByLastReference` assume nothing, allow dead code, and
take falls as the pass does: a fall into a JUMPDEST counts unless the last jump to it further
up is a dispatch (`IsEntry`), for the code takes such a JUMPDEST for a function's entry and
then records no fall (Contract.cpp:143).
`NothingDangles` and `FirstFunctionKeepsExit` assume that each function has pushed a return
address (`value_check` shows the other case), that the code there belongs to no function that
returns unless it was walked, and, with `WalkStaysInFunction`, that the code is `CompilerMade`: it
jumps to JUMPDESTs, not to its start, and a JUMPI is not its last instruction. What `PathLinksLive` says of printed blocks is
about code that has no JUMP behind a STOP, RETURN, SUICIDE or INVALID without a JUMPDEST between
(`NoJumpBehindHalt`): such a JUMP is never executed, but the scan takes it for the end of the
block it is behind. `ExecJump` assumes that a function which
leaves has something on its stack; a violation would show as a deadlock.

`PrintedBlocksExist` is about code that is `Structured`, as all contracts of the run are: it is
`CompilerMade`, pushes a label before each JUMPI, has no function that returns to 0, and has no
code behind a jump or a halt that nothing enters and that yet jumps, branches or falls on. It
speaks of the output up to the first block that is `CutOff`, which may itself be printed. The
last four, and of `CompilerMade` that nothing jumps to offset 0, cannot be left out: in contracts
without any one of them the analysis gives a block a successor that its execution does not go to.
The printing loop goes there all the same, and comes to a block that no execution has mended,
whose pointer may be to the erased exit node. A JUMP behind a STOP is enough.

## Findings

| Run | The code | What is said |
|---|---|---|
| `shared_entry` | a second dispatch to the same entry overwrites the selector of the first (Contract.cpp:484), which is then not listed | README.md:92, `--list` gives all functions |
| `loop` | a walked cycle of default edges is followed for ever (Contract.cpp:385-386) | README.md:92, functions are listed |
| `value_check` | no exit recorded when the first instruction of a function is not a push (Contract.cpp:147) | Contract.cpp:73, the exit node is resolved later |
| `called_twice` | the successor of a shared subroutine is overwritten by each execution (VMState.cpp:788); the code between two calls is not printed | README.md:432, the function is decompiled |

The models also have what follows, without a run of its own:

* the block behind a JUMPI keeps the size of the block before it (Contract.cpp:222) when it
  ends in neither a jump nor a halt the code knows; it then ends where no instruction begins,
  although Contract.cpp:370 takes that for a sign of the last block;
* results of arithmetic keep the type and name of the top operand (VMState.cpp:446-449), so
  a sum of a constant and an argument is printed as a constant, and a comparison with
  `arg_4 + 1` as one with `arg_4`; ISZERO of arithmetic is printed as `!a + b`, without
  parentheses (Statement.h:149);
* ISZERO negates the last condition of the block whatever it is applied to (Statement.h:113-117),
  and loses the negations of earlier blocks; what is stored after an ISZERO is printed
  without the `!` (VMState.cpp:1054-1062);
* SLT and SGT are not implemented, and their `if` has an empty condition (Statement.h:132-155);
* SLOAD of a computed slot keeps the slot number's expression (VMState.cpp:271-286), and an
  `if` behind a store names slots as they were before it (Contract.cpp:1044);
* MOD by a value the decompiler takes for 0, such as an argument it was not given, throws an
  exception that nothing catches (VMState.cpp:472, `ModByZero`);
* a JUMP on an empty stack is repeated for ever (VMState.cpp:559, `ExecJump`), and the copy of
  a JUMPI at the end of the code reads behind it (VMState.cpp:876, `RunBeyond`);
* a reference without a selector, a jump, a branch or a fall, behind the dispatch to a block makes
  it an ordinary block again (Contract.cpp:484, `ListedByLastReference`);
* code behind the JUMP of a block is executed (VMState.cpp:768-824, `Jump` of VMStack), and takes
  registers off the stack that the next block then lacks;
* a STOP, RETURN, SUICIDE or INVALID behind the JUMP of a block ends the function there although the
  JUMP has gone on (VMState.cpp:768-808, `CutOff`), as does an INVALID before a JUMPDEST, which the
  graph has falling through, and the printing loop goes to a successor that was
  not executed; solc has such a STOP behind the last JUMP of a contract, before the metadata;
* a block that ends in REVERT or INVALID falls through (Contract.cpp:163-169, `NoFall`),
  where Instruction.h:225 says that REVERT stops execution (`Readable`);
* a block that falls into the entry of a public function gets no edge to it
  (Contract.cpp:143-157, `Readable`);
* deployed code with a CODECOPY before its first RETURN is taken for creation code and cut
  behind that RETURN (Contract.cpp:1128, `TakeTail`);
* PC writes over the top of the stack (VMState.cpp:626) and BLOCKHASH leaves its operand
  (VMState.cpp:649, both `Odd`), where the table (Instruction.cpp:80, 66) has a push and a
  pop; an instruction that is not implemented, CALLDATASIZE among them, is passed over
  without its effect (VMState.cpp:823, `Failed`);
* MSTORE names the register below its operands, be there one or not (VMState.cpp:248,
  `Mstore`), and SHA3 copies the memory element at its offset, be there one or not
  (VMState.cpp:295, `Sha3`).

## What is proved

`DominatorsProofs` proves, for every number of blocks, every graph and every width,
from the assumptions `NAssumption`, `BitsAssumption`, `GraphsAssumption` and
`PendingAssumption` alone:

* `TypeCorrect`: `Spec => []TypeOK`.
* `NeverLosesADominator`: `Spec => []DominatorsKept`. The invariant `KeptInv` is the
  property itself with the types: if `d` dominates `b` it dominates each
  predecessor of `b` or is `b` (`DominatesPred`), so intersecting with a predecessor's word
  and putting `b`'s own bits back loses nothing. It holds although the bits of several
  blocks may coincide.
* `SweepsNarrow`: `Spec => Narrowing`. Besides the types it needs `SelfKept`, that a word
  always holds its block's own bits, so that putting them back adds nothing.
* `WordsAreDominators`: with `N < IntBits`, `Spec => []DominatorsExact`, which the runs have
  as part of `AnswersDominance`. The inductive
  invariant `SettledInv` says that while `changed` is false, the predecessors visited in
  this sweep are already compatible with the word of their block, so at the end the blocks
  whose words lack `d` are closed under edges that do not enter `d` (`LackingReachesAround`),
  and that set is the witness that `d` does not dominate them.

* `ImplementsDominance`: with `N < IntBits`, `Spec => AnswersDominance`, the refinement. It
  follows from the last two: `Finish` is an `Answer` because the words are exact, `Recompute`
  an `Ask`, and every other step leaves the answer pending.

Dominance is defined without paths: `d` dominates `b` if some set that holds the
entry, is closed under the edges that do not enter `d` and does not hold `d` leaves `b`
out. No recursion and no induction over paths is needed.

`BlockGraphProofs` proves, for every set of contracts, from `NodeAssumption` (the exit
node and the null pointer are no offsets) and `ProgramAssumption` (a listing's offsets rise
from 0 and stay below the exit node's):

* `ScanTypeCorrect`: `Spec => []TypeOK`. The sizes the pass computes are differences of
  offsets; that none is negative needs that the pass is never in a block behind its
  instruction.
* `EdgesAgree`: `Spec => []LinksMutual`, and `XrefsResolve`: `Spec => []ReferencesResolve`.
* `PassInInnermostBlock`: `Spec => []InInnermostBlock`, and `PassNeverReturns`:
  `Spec => LeftBlocksFrozen`.

All five come from one inductive invariant, `ScanInv`. One half (`Sound`) is about the map
alone: typed, links agreeing in both directions, xrefs that resolve, an exit node that goes
nowhere; `AddBasicBlockSound`, `ReferenceSound` and `SetBlockSizeSound` show that each
operator of the code keeps it. The other half (`PositionOK`) is about the pass: its block
is in the map and begins at or before the instruction, and every other block begins at or
before that one or is a JUMPDEST still ahead. There is one lemma for each case of the
switch (`FunctionEntryStep` to `SkipStep`). Together with `BlocksStep`, that a step writes
successors and size of the current block only, the second half gives `LeftBlocksFrozen`.

The same module goes on to the end of the scan, for the same contracts and from the same
assumptions:

* `EdgesAreExact`: `Spec => []EdgesExact`, `SizesAreExact`: `Spec => []SizesExact`, and
  `LastReferenceDecides`: `Spec => []ListedByLastReference`. These speak of the end of the
  scan. The inductive invariant (`GraphInv`) says the same of the instructions that are
  `Settled`: all the pass is past, but for a fall into the JUMPDEST it is at, which the code
  records one step late (Contract.cpp:157-171). It needs `Behind`, that the instruction before
  is in the block the pass is in, for those falls. A step of the pass is either quiet
  (`Quiet`: nothing written, and nothing passed that goes anywhere) or settles one instruction
  (`Settles`); `QuietKeepsKnown` and `SettlesKeepsKnown` show that either kind keeps what is
  known, without a word about the switch, and one lemma per case of the switch
  (`FunctionEntrySettles` to `SkipSettles`) shows which kind it is. The code asks the
  block's record whether a JUMPDEST is an entry, the properties ask the listing (`IsEntry`);
  `EntryIsDispatch` shows from the invariant itself that the answers agree. A block that
  a JUMPI adds has no instruction and no xref yet (`Fresh`), as it begins behind all that is
  settled. All this is in terms of what the pass takes for an edge (`DefaultTargets`).
  For `EdgesAreExact` the blocks are shown to be those of the code (`BlocksOfCode`), and, where a
  block is `Readable`, what the pass takes for its edges to be what its instructions do
  (`ReadableTargets`, `ReadableEnds`).

`FunctionExecProofs` goes on to the walks and the executions, again for the same contracts
and from the same assumptions:

* `WalksTypeCorrect`: `CSpec => []CTypeOK`, and `ExecTypeCorrect`: `FSpec => []FTypeOK`.
* `StoresFlagged`: `FSpec => []FlaggedAfterCall`, `FlagsCaused`: `FSpec => []FlagsHaveCause`,
  and `PathIsLive`: `FSpec => []PathLinksLive`.

The scan's invariant gives, at its end, that a pointer to the exit node is in a block that
holds the JUMP it is from, and that who enters the block comes to that JUMP without leaving
it (`Linked`, `JumpsAt`): it needs `SizesKnown` of `GraphInv` and that every JUMPDEST
and every instruction behind a JUMPI begins a block (`ScanMore`). The walks replace some of
these pointers and make none (`CInv`). An execution replaces the pointer of a block when it comes
to that JUMP; until then `FrameOK` says that the JUMP is ahead of it. As other calls of
`executeFunction` only mend the map as well (`Mends`), what a waiting call has found remains. The
flags are in the same invariant (`FInv`): a call that has passed a CALL, in this block or
before, has a block that inherits the flag. One lemma, `ExecKeeps`, shows what a step has to
establish, and each of the nine actions of an execution has its lemma. That flags do not vouch
for each other in a circle is kept edge by edge (`CauseGrows`), without any notion of a path.

What the walks leave rests on an invariant of its own, in the same module:

* `NoPointerDangles`: `CSpec => []NothingDangles`, `FirstExitKept`:
  `CSpec => []FirstFunctionKeepsExit`, and `WalkStays`: `CSpec => WalkStaysInFunction`.

A walk is a depth-first search that marks only the blocks with a branch, and whose `continue`
leaves the rest of a path to an earlier walk. The invariant (`WalkInv`) says, of every function
walked so far, that each block it can reach before a block leaves (`OwnBody`) is connected, or
lies on the way of a call that is still on the stack (`CallsAt`, `NoneMissed`); that the
functions are walked in the order of their offsets (`InOrder`); and that a block which leaves has the exit of the
first function that reaches it (`Connected`). The step from there to the properties is a lemma
about graphs without a word on the walks: a set that holds the start, and holds with a node
either its successors or something from which they are searched, contains all that can be reached
(`MarkedSearch`). Paths do not occur: `Reached` is used through the facts that it is closed under
the edges (`ReachedClosed`) and is inside every closed set (`ReachedLeast`), whose proofs are
inductions on the number of steps.

That proof showed that `NothingDangles` needs its premises: a contract with a JUMPI as its last
instruction, with a jump to offset 0, or whose return addresses lead to code that itself leaves
through the exit node, does leave a pointer to it.

The printing loop follows the successors that the executions have mended, and does not look
whether they have. Once more in the same module:

* `PrintedAreBlocks`: `FSpec => []PrintedBlocksExist`.

The invariant (`PrintInv`) says that each block printed was executed, and what makes the next one
so (`Printable`). When the scan ends, a block that goes anywhere does so at its last instruction,
and on a condition exactly if that is a JUMPI, or it is cut off (`Fits`, `FitsFound`). The walks
keep that, and when the exit node is erased it becomes `Orderly`, which the executions keep.
`LeadsOn` is about a block with a successor: an execution came to the successor, or a call that
has the block behind it is about to go there, or nothing keeps a call from it that is in the block
or comes to it later. When no call is left, every block that was executed has led on, so the
chain from the first one never leaves what was executed. One lemma (`ExecPrintable`) shows that a
step of an execution has to establish this for its own block only, and each action has its lemma.
The property without `Structured` and `CutOff` is false, and TLC found the contracts that show it.

`AnalysisProofs` goes on to the dominators, for every set of contracts, from `BlocksAssumption`
and `WidthAssumption` besides those of the scan:

* `WordsAreOfTheCode`: with `N < IntBits`, `ASpec => []DominatorsOfCode`.

The graph that `computeDominators` reads is not the one the walks leave: they rewrite successors,
not xrefs. So what `GraphInv` says of the xrefs when the scan ends, that they are the edges of the
code, still holds. Dominators is instantiated on them, and its steps keep `SettledInv`, whose
proof is reused as it stands; the numbers (`Id`) rise with the offsets and so differ. What remains
is that dominance, which Dominators defines by closed sets, is about what `ReachedAround` reaches
(`DominatesInCode`): the set of what is reached is closed, and is inside every closed one.

`CodeLoaderProofs` proves, for every table of instructions and every set of codes, from
`TableAssumption` and `CodesAssumption`:

* `LoadTypeCorrect`: `Spec => []TypeOK`.
* `LoadsWellFormed`: `Spec => []ListingWellFormed`, the promise BlockGraph rests on.
* `ListingsAgree`: `Spec => []ListingIsTail`.
* `DeployedFound`: `Spec => []DeployedCodeFound`.

The invariant says that each of the two listings is a gapless listing of its code up to
the iterator, and, once the deployed code is cut off, that the second listing is the
first one's instructions from the cut on, moved to 0. Both are kept one instruction at a
time, so no induction over the code is needed: an instruction depends only on the bytes
behind its offset, and those are the same in the code and in its tail.

`DeployedCodeFound` speaks of the offsets at which instructions begin (`Starts`), a recursion over
the code. The least set that holds 0 and what comes after its members solves it (`StartsExist`),
and the first listing has all of these offsets as long as it goes (`StartsListed`). The invariant
of the search (`SearchInv`) says what its three variables are in terms of the listing so far:
whether a CODECOPY came before the first RETURN, whether that RETURN was met, and the first
instruction behind it that is not STOP.

`VMStackProofs` proves, for stacks of every depth, every set of instructions, every set of
values and every bound on the steps, from `OpsAssumption` and `ValuesAssumption`:

* `MachineTypeCorrect`: `Spec => []TypeOK`, `AddressesStay`: `Spec => []AddressesKept`,
  and `OnlyKnownFaults`: `Spec => []KnownFaults`.

The three together are the inductive invariant (`MachineInv`). `KnownFaults` needs
`AddressesKept`: an access is inside the machine's stack because that is as deep as
Ethereum's, on which valid code has its operands (`TouchedAreOperands`). The relation of the two stacks is `Kept`; `EffectKept` says that
taking the operands of the table and putting its result on what lies below them keeps it,
and each instruction is shown to do so, whatever way its case in the switch takes
(`PushStep` to `BeyondStep`). Behind a JUMP an instruction may do anything to the machine's stack:
`Follows` makes it stray.

`ForkExecProofs` proves, for every set of contracts and every limit, from `DepthAssumption`,
`ProgramAssumption` and `OffsetsAssumption` (which is CodeLoader's `ListingWellFormed`):

* `LevelsBounded`: `Spec => []TypeOK`, with the levels of the machines a gapless sequence
  that the limit bounds. The strengthening is that a machine that has executed something
  is not too deep, so a copy of it is too deep by one level at most.
* `OnlyThreeWaysOut`: `Spec => []WaysOut`, for every contract, whatever it pushes and however it
  ends. The invariant (`SafeInv`) says that every machine is at an instruction, or at the end of the
  code and about to test for it, until something of the three kinds is among what was executed.
* `ExecutesTheReachable`: once the call has returned, `executed` is all of `From(Start)` that is at
  an instruction, with stacks and numbers of forced outcomes. `SearchAgrees`, `Spec => []SeenExactly`,
  follows where the bounded search of the run has come to its end. A machine is seen as a configuration whose
  number of forced outcomes is its level less one, and what a configuration leads to is the least
  set that holds it and is closed under `Followers` (`From`). Nothing else is executed
  (`NothingElse`): every machine that is not too deep, and every instruction executed, is of
  `From(Start)`. Nothing is lost (`NothingLost`): an instruction of `From(Start)` is executed, or
  lies ahead of a machine that is alive and not too deep. A step of a machine hands what is ahead
  of it to what follows it (`WalkOn`), a fork to the machine and its copy, which are the two
  followers of a JUMPI, and a machine returns only when nothing is ahead of it.

`ConditionsProofs` proves, for words of every width, every code, every stack left by earlier
blocks, every argument and every storage, from `WidthAssumption`, `ConstantsAssumption` and
`NumbersAssumption`:

* `TextsTyped`: `Spec => []TypeOK`, `NamesAreRight`: `Spec => []NamesRight`,
  `ConditionsAreFaithful`: `Spec => []ConditionFaithful`, and `StoresAreFaithful`:
  `Spec => []StoreFaithful`.

The inductive invariant (`TextInv`) is about pairs of a register and the word it stands for.
A pair fits if the texts of the register say what the history of the word lets them say
(`Means`), and if the word, when it is the one the last test has made, has the value that the
statement says (`Agrees`); the stacks match (`Matched`) if all their pairs fit. The
strengthening that carries a condition over an ISZERO is `CleanTest`: the statement says 0 or 1,
asks about no arithmetic, and names no slot if the words it was made of named none. A step has
then to give only its new pair: for those that move, read or compute there is `QuietStep`, a
store keeps the pairs it does not make `Outdated` (`PairsAfterStore`), and no word is of a test
that has just been made (`PairsOfTest`). `ResultMeans`, `ComparisonSays`, `AskedSays` and
`NegationSays` are the cases of the code. `NumbersAssumption` has the facts whose proofs need
induction over the bits: that `exp256`'s squares make a power, and that bits of words and powers
make words. The run evaluates it for its width.

Only model-checked: liveness (`Terminates`, `AnalysisAnswers`, `DecompilationEnds`, `Returns`),
which the prover cannot do. Every other property of a passing run is stated by a theorem above.

## What is not modelled

The text of the lines other than conditions and stores, the printed disassembly included;
the texts of memory, SHA3, CALL and the environment, ADDMOD, MULMOD and the instructions
that are not implemented; ABI, command line, Graphviz; the vendored libraries and the build.
`PROJECT.json` has each with its reason.

Of the lines under `src/`, about two thirds are one vendored header (json/json.hpp, 13076
lines), and a further part is Ethereum's own library code (CommonData, FixedHash, SHA3,
Common.h). They are used as they are and have no part in what this program does
wrong or right; a model of them would be one of another system. Debug.cpp is sample byte code.

## Plan

Done: 1 Dominators, 2 BlockGraph, 3 ConnectNodes, 4 FunctionExec, 5 CodeLoader, 6 VMStack,
7 Dominance and the refinement, 8 Analysis, 9 ForkExec, 10 Conditions, with the proofs above,
11 the proofs that the scan ends with the exact edges, sizes and selectors, 12 the proofs
about the walks and the executions, 13 about what the walks leave, 14 that the dominators are
those of the code, 15 that the deployed code is found, 16 that forks see what can be reached,
17 that printing stays with what was executed.

18. Texts of memory and of calls in Conditions, with `getMemoryData` as in VMStack.
