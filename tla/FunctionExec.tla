---------------------------- MODULE FunctionExec ----------------------------
(***************************************************************************)
(* Contract::decompile for each public function in turn: VMState walks the *)
(* function's blocks with a symbolic stack (executeFunction, executeBlock),*)
(* corrects their successors from it and spreads the flag that says `a     *)
(* CALL came before'; then the chain of default successors is printed.     *)
(*                                                                         *)
(* The stack is reduced to the values that may be code addresses, and a    *)
(* line of the output to the block it came from.                           *)
(***************************************************************************)
EXTENDS ConnectNodes

VARIABLES
  mode,      \* "off", "idle", "execute", "print" or "end"
  extent,    \* instructions of each block: listing indices [from, to)
  todo,      \* public functions still to be decompiled
  current,   \* entry of the function being decompiled
  frames,    \* calls of executeFunction, innermost first
  flags,     \* blocks whose Flags has NoMoreSSTORE
  inherit,   \* blocks whose InheritFlags has it
  cursor,    \* block the printing loop stands on
  output,    \* blocks printed for this function, with what was flagged then
  path,      \* history: blocks this function executed on its own path
  followed   \* history: edges any execution followed

fvars == << mode, extent, todo, current, frames, flags, inherit, cursor,
            output, path, followed >>
pipelineVars == << allVars, fvars >>

\* A call has its own copy of the machine's stack, is in a block, at an
\* instruction of it (pc "run") or behind its last one, and has read the
\* block's InheritFlags then.  `afterCall' is history: an earlier block of this
\* path executed a CALL.
CallFrame == [ block : Nat, at : Nat, vm : Seq(Nat),
               pc : {"run", "branch", "next"}, inh : BOOLEAN,
               afterCall : BOOLEAN ]

FTypeOK ==
  /\ mode \in {"off", "idle", "execute", "print", "end"}
  /\ mode # "off" => phase = "done" /\ DOMAIN extent = DOMAIN blocks
  /\ todo \subseteq DOMAIN blocks
  /\ frames \in Seq(CallFrame) /\ (frames # << >> => mode = "execute")
  /\ \A i \in 1 .. Len(frames) : frames[i].block \in DOMAIN blocks
  /\ flags \cup inherit \cup path \subseteq DOMAIN blocks
  /\ followed \subseteq (DOMAIN blocks) \X (DOMAIN blocks)

FInit ==
  /\ CInit
  /\ mode = "off" /\ extent = << >> /\ todo = {} /\ current = 0
  /\ frames = << >> /\ flags = {} /\ inherit = {}
  /\ cursor = NULL /\ output = << >>
  /\ path = {} /\ followed = {}

Analyse == (ScanStep \/ Connect) /\ UNCHANGED fvars

\* The index of the instruction at an offset, or that behind the last one.
IndexAt(offset) ==
  IF \E i \in 1 .. Len(listing) : OffsetOf(i) = offset
    THEN CHOOSE i \in 1 .. Len(listing) : OffsetOf(i) = offset
    ELSE Len(listing) + 1

AddInstructionsToBlocks ==
  /\ mode = "off" /\ phase = "done"
  /\ extent' = [ b \in DOMAIN blocks |->
                   [ from |-> IndexAt(b), to |-> IndexAt(b + blocks[b].size) ] ]
  /\ mode' = "idle"
  /\ todo' = Functions
  /\ UNCHANGED << allVars, current, frames, flags, inherit, cursor, output,
                  path, followed >>

CallOf(b, stk, after) ==
  [ block |-> b, at |-> extent[b].from, vm |-> stk, pc |-> "run",
    inh |-> FALSE, afterCall |-> after ]

\* getFunctionOffset: the first block with the selector.
FunctionOffset(h) ==
  CHOOSE b \in Functions :
    /\ blocks[b].fnAddrHash = h
    /\ \A g \in Functions : blocks[g].fnAddrHash = h => b <= g

\* forEachFunction, in the order of the offsets, except that offset 0 counts as
\* not found.  The machine starts with an empty stack.
Decompile ==
  /\ mode = "idle"
  /\ \E f \in todo :
       /\ \A g \in todo : f <= g
       /\ todo' = todo \ {f}
       /\ current' = FunctionOffset(blocks[f].fnAddrHash)
  /\ IF current' = 0
       THEN UNCHANGED << mode, frames, cursor >>
       ELSE /\ mode' = "execute"
            /\ frames' = << CallOf(current', << >>, FALSE) >>
            /\ cursor' = current'
  /\ output' = << >> /\ path' = {}
  /\ UNCHANGED << allVars, extent, flags, inherit, followed >>

AllDecompiled ==
  /\ mode = "idle" /\ todo = {}
  /\ mode' = "end"
  /\ UNCHANGED << allVars, extent, todo, current, frames, flags, inherit,
                  cursor, output, path, followed >>

-----------------------------------------------------------------------------
(***************************************************************************)
(* VMState::executeBlock, one instruction a step.                          *)
(***************************************************************************)
Exec     == Head(frames)
Here     == Exec.block
ExecOp   == listing[Exec.at].op

Running == mode = "execute" /\ frames # << >> /\ Exec.pc = "run"
AtInstr == Running /\ Exec.at < extent[Here].to

Stay == UNCHANGED << listing, codeSize, instIndex, basicBlockOffset, exitNodes,
                     cvars, mode, extent, todo, current, cursor, output >>

Resume(f) == frames' = << f >> \o Tail(frames)
Leave     == frames' = Tail(frames)

Drop(stk, n) == SubSeq(stk, n + 1, Len(stk))

\* What an instruction does to the addresses on the stack.
StackAfter(stk, i) ==
  CASE listing[i].op \in {"PUSH12", "PUSH4"} -> << listing[i].data >> \o stk
    [] listing[i].op = "VALUE"               -> << 0 >> \o stk
    [] listing[i].op \in {"JUMP", "EQ"}      -> Drop(stk, 1)
    [] listing[i].op = "JUMPI"               -> Drop(stk, 2)
    [] OTHER                                 -> stk

VisitHere == path' = IF Len(frames) = 1 THEN path \cup {Here} ELSE path

Advance == Resume([Exec EXCEPT !.at = @ + 1, !.vm = StackAfter(@, Exec.at)])

Halts == {"STOP", "RETURN", "SUICIDE", "INVALID"}

\* A jump whose block has no successor, and every halt, end the function.
EndsFunction ==
  \/ ExecOp \in Halts
  \/ ExecOp = "JUMP" /\ blocks[Here].dstDefault = 0
  \/ ExecOp = "JUMPI" /\ blocks[Here].dstJUMPI = 0

ExecHalt ==
  /\ AtInstr /\ EndsFunction
  /\ Leave
  /\ VisitHere
  /\ UNCHANGED << blocks, flags, inherit, followed >> /\ Stay

\* Mutation: the successor found by the analysis is kept.
ExecJump_NoPatch ==
  /\ AtInstr /\ ~EndsFunction /\ ExecOp = "JUMP"
  /\ Advance
  /\ UNCHANGED << blocks, flags, inherit, path, followed >> /\ Stay

\* The successor the analysis found gives way to the one on the stack.  (With
\* the exit node for a successor and nothing on the stack, the code would read
\* past its end; no compiled function leaves without an address to go to.)
ExecJump ==
  /\ AtInstr /\ ~EndsFunction /\ ExecOp = "JUMP"
  /\ LET dst == blocks[Here].dstDefault
     IN  /\ dst = NODE_DEADEND => Exec.vm # << >>
         /\ blocks' =
              IF Exec.vm # << >> /\ (Exec.vm[1] # dst \/ dst = NODE_DEADEND)
                THEN [blocks EXCEPT
                        ![Here].dstDefault = Exec.vm[1],
                        ![Here].nextDefault = GetBlockAt(blocks, Exec.vm[1])]
                ELSE blocks
  /\ Advance
  /\ UNCHANGED << flags, inherit, path, followed >> /\ Stay

ExecJumpi ==
  /\ AtInstr /\ ~EndsFunction /\ ExecOp = "JUMPI"
  /\ blocks' =
       IF Exec.vm # << >> /\ Exec.vm[1] # blocks[Here].dstJUMPI
         THEN [blocks EXCEPT
                 ![Here].dstJUMPI = Exec.vm[1],
                 ![Here].nextJUMPI = GetBlockAt(blocks, Exec.vm[1])]
         ELSE blocks
  /\ Advance
  /\ UNCHANGED << flags, inherit, path, followed >> /\ Stay

ExecOther ==
  /\ AtInstr /\ ~EndsFunction /\ ExecOp \notin {"JUMP", "JUMPI"}
  /\ inherit' = IF ExecOp = "CALL" THEN inherit \cup {Here} ELSE inherit
  /\ Advance
  /\ UNCHANGED << blocks, flags, path, followed >> /\ Stay

-----------------------------------------------------------------------------
(***************************************************************************)
(* VMState::executeFunction around it.                                     *)
(***************************************************************************)
EndBlock ==
  /\ Running /\ Exec.at >= extent[Here].to
  /\ VisitHere
  /\ Resume([Exec EXCEPT !.pc = "branch", !.inh = Here \in inherit])
  /\ UNCHANGED << blocks, flags, inherit, followed >> /\ Stay

\* Mutation: every block a branch or jump leads to is flagged.
Inherit_Always(b) ==
  /\ flags' = flags \cup {b}
  /\ inherit' = inherit \cup {b}
  /\ followed' = followed \cup {<< Here, b >>}

\* Mutation: what a block inherits ends with it.
Inherit_OneBlock(b) ==
  /\ flags' = IF Exec.inh THEN flags \cup {b} ELSE flags
  /\ followed' = followed \cup {<< Here, b >>}
  /\ UNCHANGED inherit

Inherit(b) ==
  /\ flags' = IF Exec.inh THEN flags \cup {b} ELSE flags
  /\ inherit' = IF Exec.inh THEN inherit \cup {b} ELSE inherit
  /\ followed' = followed \cup {<< Here, b >>}

HasCall(b) ==
  \E i \in extent[b].from .. extent[b].to - 1 : listing[i].op = "CALL"

PastCall == Exec.afterCall \/ HasCall(Here)

AtBranch == mode = "execute" /\ frames # << >> /\ Exec.pc = "branch"
Branches == blocks[Here].dstJUMPI # 0 /\ blocks[Here].nextJUMPI # NULL

\* A copy of the machine executes the branch before the block's own path goes on.
TakeBranch ==
  /\ AtBranch /\ Branches
  /\ LET next == blocks[Here].nextJUMPI
     IN  /\ Inherit(next)
         /\ frames' = << CallOf(next, Exec.vm, PastCall),
                         [Exec EXCEPT !.pc = "next"] >> \o Tail(frames)
  /\ UNCHANGED << blocks, path >> /\ Stay

NoBranch ==
  /\ AtBranch /\ ~Branches
  /\ Resume([Exec EXCEPT !.pc = "next"])
  /\ UNCHANGED << blocks, flags, inherit, path, followed >> /\ Stay

AtNext == mode = "execute" /\ frames # << >> /\ Exec.pc = "next"

\* Mutation: the end of the path is not looked for.
TakeDefault_NoEnd ==
  /\ AtNext
  /\ LET next == blocks[Here].nextDefault
         first == IF next = NULL THEN 0 ELSE extent[next].from
     IN  /\ Inherit(next)
         /\ Resume([CallOf(Here, Exec.vm, PastCall) EXCEPT
                     !.block = next, !.at = first])
  /\ UNCHANGED << blocks, path >> /\ Stay

TakeDefault ==
  /\ AtNext /\ blocks[Here].nextDefault # NULL
  /\ LET next == blocks[Here].nextDefault
     IN  Inherit(next) /\ Resume(CallOf(next, Exec.vm, PastCall))
  /\ UNCHANGED << blocks, path >> /\ Stay

NoDefault ==
  /\ AtNext /\ blocks[Here].nextDefault = NULL
  /\ Leave
  /\ UNCHANGED << blocks, flags, inherit, path, followed >> /\ Stay

ExecutionDone ==
  /\ mode = "execute" /\ frames = << >>
  /\ mode' = "print"
  /\ UNCHANGED << allVars, extent, todo, current, frames, flags, inherit,
                  cursor, output, path, followed >>

-----------------------------------------------------------------------------
(***************************************************************************)
(* Contract::decompileBlock over the chain of default successors.          *)
(***************************************************************************)
SuccessorsCount(b) ==
  (IF blocks[b].dstDefault # 0 THEN 1 ELSE 0) + (IF blocks[b].dstJUMPI # 0 THEN 1 ELSE 0)

\* StructureIfs: a block with two successors that have one successor each
\* becomes an `if' around the block it branches to.
IsIf(b) ==
  LET t == GetBlockAt(blocks, blocks[b].dstJUMPI)
      f == GetBlockAt(blocks, blocks[b].dstDefault)
  IN  /\ SuccessorsCount(b) = 2
      /\ t # NULL /\ SuccessorsCount(t) = 1
      /\ f # NULL => SuccessorsCount(f) = 1

Stores(b) ==
  \E i \in extent[b].from .. extent[b].to - 1 : listing[i].op = "SSTORE"

Line(b) == [ block |-> b, warned |-> Stores(b) /\ b \in flags ]

\* Mutation: the printing loop does not go on to the next block.
PrintBlock_Stuck ==
  /\ mode = "print" /\ cursor # NULL
  /\ output' = << Line(cursor) >>
  /\ UNCHANGED << allVars, mode, extent, todo, current, frames, flags, inherit,
                  cursor, path, followed >>

PrintBlock ==
  /\ mode = "print" /\ cursor # NULL
  /\ output' = output \o
       (IF IsIf(cursor) THEN << Line(cursor), Line(blocks[cursor].nextJUMPI) >>
                        ELSE << Line(cursor) >>)
  /\ cursor' = blocks[cursor].nextDefault
  /\ UNCHANGED << allVars, mode, extent, todo, current, frames, flags, inherit,
                  path, followed >>

PrintDone ==
  /\ mode = "print" /\ cursor = NULL
  /\ mode' = "idle"
  /\ UNCHANGED << allVars, extent, todo, current, frames, flags, inherit,
                  cursor, output, path, followed >>

Execute == ExecHalt \/ ExecJump \/ ExecJumpi \/ ExecOther \/ EndBlock
             \/ TakeBranch \/ NoBranch \/ TakeDefault \/ NoDefault
             \/ ExecutionDone

FStep == Analyse \/ AddInstructionsToBlocks \/ Decompile \/ Execute
           \/ AllDecompiled \/ PrintBlock \/ PrintDone

FNext == FStep \/ (mode = "end" /\ UNCHANGED pipelineVars)

\* main runs the analysis and the decompilation to their end.
FSpec == FInit /\ [][FNext]_pipelineVars /\ WF_pipelineVars(FStep)

-----------------------------------------------------------------------------
\* No store after a call goes unflagged: every block an execution comes to
\* behind a block with a CALL has its flag when it is entered, however many
\* branches were explored in between (VMState.cpp:813-817, 841-862).
FlaggedAfterCall == Running /\ Exec.afterCall => Here \in flags

\* No flag comes from nowhere: flagged blocks do not vouch for each other in a
\* circle.  Of any of them, one was followed from a block with a CALL, or from a
\* flagged block that is not among them (VMState.cpp:841-862, Contract.cpp:1018).
FlagsHaveCause ==
  \A B \in (SUBSET flags) \ {{}} :
    \E e \in followed : e[2] \in B /\ (HasCall(e[1]) \/ e[1] \in flags \ B)

LinksLive(b) ==
  {blocks[b].nextDefault, blocks[b].nextJUMPI} \subseteq DOMAIN blocks \cup {NULL}

\* Behind the end of a function, code that nothing enters does not jump.
NoJumpBehindHalt ==
  \A i, j \in 1 .. Len(listing) :
    /\ i < j /\ listing[i].op \in Halts
    /\ listing[j].op = "JUMP"
    => \E k \in i + 1 .. j : listing[k].op = "JUMPDEST"

\* Execution settles every successor: when a block has run, and still when the
\* blocks of the path are printed, no pointer leads to the exit node, although
\* the analysis may have left it there (VMState.cpp:785-790).
PathLinksLive ==
  /\ mode = "execute" /\ frames # << >> /\ Exec.pc # "run" => LinksLive(Here)
  /\ mode = "print" /\ NoJumpBehindHalt => \A b \in path : LinksLive(b)

(***************************************************************************)
(* Code whose blocks do what their successors say.                         *)
(***************************************************************************)
\* Behind a jump or the end of a function, code that nothing enters goes nowhere.
DeadCodeStays ==
  \A i, j \in 1 .. Len(listing) :
    /\ i < j /\ (\A k \in i + 1 .. j : listing[k].op # "JUMPDEST")
    /\ listing[i].op \in Halts \cup {"JUMP"}
    => listing[j].op \notin {"JUMP", "JUMPI"} /\ ~FallsInto(j)

BranchesLabelled == \A i \in 1 .. Len(listing) : listing[i].op = "JUMPI" => Pushed(i)

NoExitToStart == \A h \in DOMAIN exitNodes : exitNodes[h] # 0

Structured == CompilerMade /\ BranchesLabelled /\ DeadCodeStays /\ NoExitToStart

\* A halt in block b ends the function, and a successor that the block has from a
\* jump before it, or from a fall behind an INVALID, is not executed
\* (VMState.cpp:768-808).
CutOff(b) ==
  \E j \in extent[b].from .. extent[b].to - 1 :
    /\ listing[j].op \in Halts
    /\ \/ FallsInto(j)
       \/ \E i \in extent[b].from .. j - 1 : listing[i].op = "JUMP"

\* Where decompile prints a block, and where decompileBlock looks into the one
\* behind an `if', there is one (Contract.cpp:906-918, 1078-1082), until it has
\* printed a block that is cut off.
PrintedBlocksExist ==
  /\ mode = "print" /\ cursor # NULL /\ Structured
  /\ \A n \in 1 .. Len(output) : ~CutOff(output[n].block)
  => /\ cursor \in DOMAIN blocks
     /\ (SuccessorsCount(cursor) = 2 => blocks[cursor].nextDefault # NULL)

\* A contract without loops is executed and printed to the end: neither the
\* recursion over branches nor the chain of corrected successors runs in a circle
\* (VMState.cpp:839-863, Contract.cpp:1078-1082).
DecompilationEnds == <>(mode = "end")

\* "The `--decompile` option will decompile the given function" (README.md:432):
\* each block on the function's own path, where no branch is taken, is printed.
PathPrinted ==
  mode = "print" /\ cursor = NULL =>
    path \subseteq { output[i].block : i \in 1 .. Len(output) }
=============================================================================
