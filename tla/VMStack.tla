------------------------------- MODULE VMStack -------------------------------
(***************************************************************************)
(* VMState's machine as executeBlock drives it: what each instruction does *)
(* to the stack, the memory elements and m_eip, beside the stack the same  *)
(* code has on Ethereum (`evm').                                           *)
(*                                                                         *)
(* Instructions with one effect share an op: ENV is CALLER, ADDRESS,       *)
(* CALLVALUE and GAS; BINARY is ADD, SUB, MUL, DIV, MOD, EXP, AND, OR, EQ, *)
(* LT and GT; UNARY is NOT, ISZERO, CALLDATALOAD, MLOAD and SLOAD; XOR and *)
(* CODECOPY stand for what else is not implemented; PUSH is PUSH2.  n is   *)
(* the number in the name of a DUP, SWAP or LOG.  STOP, RETURN and SUICIDE *)
(* end a block before the machine sees them.  A value that is computed is  *)
(* any of Results: the properties are about where addresses lie, not about *)
(* sums.  Names, expressions and types of registers are left out.          *)
(* Touching a register or memory element that is not there is undefined,   *)
(* and ends the run.                                                       *)
(*                                                                         *)
(* The loop of executeBlock does not end at a JUMP: what lies behind it in *)
(* the block is executed too, whatever it is, which Ethereum never does.   *)
(***************************************************************************)
EXTENDS Integers, Sequences

CONSTANTS
  Ops,         \* the instructions of the blocks, [inst, n]
  Depths,      \* of the stack at the start
  Results,     \* what may be pushed or computed
  Offsets,     \* where blocks begin
  COMPUTED,    \* a word of `evm' that is no address the code pushed
  MaxSteps     \* bound on the instructions executed

Insts == { "PUSH", "ENV", "DUP", "SWAP", "POP", "BINARY", "UNARY", "MSTORE",
           "SSTORE", "SHA3", "CALL", "LOG", "JUMP", "JUMPI", "JUMPDEST",
           "PC", "BLOCKHASH", "CALLDATASIZE", "XOR", "CODECOPY" }

ASSUME OpsAssumption ==
  /\ Ops \subseteq [inst : Insts, n : 0 .. 16]
  /\ \A op \in Ops : op.inst \in {"DUP", "SWAP"} => op.n # 0
ASSUME ValuesAssumption ==
  /\ Results \subseteq Nat /\ Offsets \subseteq Nat /\ Depths \subseteq Nat
  /\ COMPUTED \notin Nat /\ MaxSteps \in Nat

VARIABLES
  m_stack,        \* values, the top first
  m_eip,
  m_memStorage,
  status,         \* "run", "dead" behind a JUMP of the block, or "undefined"
  evm,            \* history: the stack on Ethereum
  strayed,        \* history: an instruction had another effect than there
  fault,          \* history: the instruction whose effect is undefined
  steps           \* instructions executed

vars == << m_stack, m_eip, m_memStorage, status, evm, strayed, fault, steps >>

TypeOK ==
  /\ m_stack \in Seq(Nat) /\ m_eip \in Nat
  /\ DOMAIN m_memStorage \subseteq Nat
  /\ m_memStorage \in [DOMAIN m_memStorage -> Nat]
  /\ status \in {"run", "dead", "undefined"}
  /\ evm \in Seq(Nat \cup {COMPUTED})
  /\ strayed \in BOOLEAN
  /\ fault \in Insts \cup {"none"} /\ steps \in 0 .. MaxSteps

-----------------------------------------------------------------------------
(***************************************************************************)
(* The table of instructions, and what Ethereum makes of a stack by it.    *)
(***************************************************************************)
Args(op) ==
  CASE op.inst \in {"PUSH", "ENV", "JUMPDEST", "PC", "CALLDATASIZE"} -> 0
    [] op.inst \in {"POP", "UNARY", "JUMP", "BLOCKHASH"}             -> 1
    [] op.inst \in {"BINARY", "MSTORE", "SSTORE", "SHA3", "JUMPI", "XOR"} -> 2
    [] op.inst = "CODECOPY" -> 3
    [] op.inst = "CALL"     -> 7
    [] op.inst = "DUP"      -> op.n
    [] op.inst = "SWAP"     -> op.n + 1
    [] op.inst = "LOG"      -> op.n + 2

Ret(op) ==
  IF op.inst \in { "ENV", "UNARY", "BINARY", "SHA3", "CALL", "PC",
                   "BLOCKHASH", "CALLDATASIZE", "XOR" } THEN 1 ELSE 0

Additional(op) == IF op.inst = "PUSH" THEN 2 ELSE 0

Pops(s, k) == SubSeq(s, k + 1, Len(s))      \* popStack, k times

Swapped(s, k) == [s EXCEPT ![1] = s[k + 1], ![k + 1] = s[1]]

OnEthereum(op, v) ==
  CASE op.inst = "PUSH" -> << v >> \o evm
    [] op.inst = "DUP"  -> << evm[op.n] >> \o evm
    [] op.inst = "SWAP" -> Swapped(evm, op.n)
    [] OTHER -> [ i \in 1 .. Ret(op) |-> COMPUTED ] \o Pops(evm, Args(op))

-----------------------------------------------------------------------------
(***************************************************************************)
(* executeBlock.                                                           *)
(***************************************************************************)
\* A block at 0 is begun with d registers that earlier pushes have left.
Init ==
  /\ \E d \in Depths : m_stack = [ i \in 1 .. d |-> i ]
  /\ evm = m_stack
  /\ m_memStorage = << >>
  /\ status = "run" /\ m_eip = 0
  /\ strayed = FALSE /\ fault = "none" /\ steps = 0

\* A block is left at its last instruction, or before a jump or halt that
\* executeBlock does not execute.
BeginBlock ==
  /\ status \in {"run", "dead"}
  /\ m_eip' \in Offsets /\ status' = "run"
  /\ UNCHANGED << m_stack, m_memStorage, evm, strayed, fault, steps >>

\* An instruction valid code can have here; v is what a PUSH pushes.  Behind a
\* JUMP there may be any.
Begin(op, v) ==
  /\ status \in {"run", "dead"} /\ op \in Ops
  /\ status = "run" => Len(evm) >= Args(op)
  /\ steps < MaxSteps /\ steps' = steps + 1
  /\ evm' = IF status = "run" THEN OnEthereum(op, v) ELSE evm

\* An instruction that Ethereum executes too does not make the machine stray.
Follows == strayed' = (strayed \/ status = "dead")

\* The registers the instruction or its InstructionContext looks into.
Touched(op) ==
  CASE op.inst \in {"UNARY", "MSTORE", "SSTORE", "PC"} ->
         IF op.inst = "MSTORE" THEN 2 ELSE 1
    [] op.inst \in {"BINARY", "SHA3", "JUMPI"} -> 2
    [] op.inst = "DUP"  -> op.n
    [] op.inst = "SWAP" -> op.n + 1
    [] op.inst = "LOG"  -> IF op.n = 0 THEN 0 ELSE op.n + 2
    [] OTHER -> 0

HasTouched(op) == Len(m_stack) >= Touched(op)

\* break: m_stack is s, and m_eip goes on.
Done(op, s) ==
  /\ m_stack' = s /\ m_eip' = m_eip + 1 + Additional(op)
  /\ UNCHANGED << status, fault >>

\* return false: executeBlock goes on with the next instruction.
Failed(op) ==
  /\ strayed' = TRUE
  /\ UNCHANGED << m_stack, m_eip, m_memStorage, status, fault >>

Undefined(op) ==
  /\ status' = "undefined" /\ fault' = op.inst /\ Follows
  /\ UNCHANGED << m_stack, m_eip, m_memStorage >>

Beyond ==
  \E op \in Ops : ~HasTouched(op) /\ Begin(op, 0) /\ Undefined(op)

-----------------------------------------------------------------------------
(***************************************************************************)
(* executeInstruction.                                                     *)
(***************************************************************************)
Exec(inst, op) == op.inst = inst /\ HasTouched(op)

Push ==
  \E op \in Ops, v \in Results :
    /\ op.inst \in {"PUSH", "ENV"} /\ Begin(op, v)
    /\ Done(op, << v >> \o m_stack)
    /\ Follows /\ UNCHANGED m_memStorage

\* Mutation: the registers are counted from 1.
Dup_OffByOne ==
  \E op \in Ops :
    /\ Exec("DUP", op) /\ Begin(op, 0)
    /\ Done(op, << m_stack[IF op.n < Len(m_stack) THEN op.n + 1 ELSE op.n] >>
                  \o m_stack)
    /\ Follows /\ UNCHANGED m_memStorage

Dup ==
  \E op \in Ops :
    /\ Exec("DUP", op) /\ Begin(op, 0)
    /\ Done(op, << m_stack[op.n] >> \o m_stack)
    /\ Follows /\ UNCHANGED m_memStorage

Swap ==
  \E op \in Ops :
    /\ Exec("SWAP", op) /\ Begin(op, 0)
    /\ Done(op, Swapped(m_stack, op.n))
    /\ Follows /\ UNCHANGED m_memStorage

\* POP and SSTORE; JUMPDEST, which pops nothing.
Discard ==
  \E op \in Ops :
    /\ op.inst \in {"POP", "SSTORE", "JUMPDEST"} /\ HasTouched(op)
    /\ Begin(op, 0)
    /\ Done(op, Pops(m_stack, Args(op)))
    /\ Follows /\ UNCHANGED m_memStorage

\* ADD, EQ and the like put the result below the top and pop once.
Binary ==
  \E op \in Ops, v \in Results :
    /\ Exec("BINARY", op) /\ Begin(op, v)
    /\ Done(op, Pops([m_stack EXCEPT ![2] = v], 1))
    /\ Follows /\ UNCHANGED m_memStorage

\* NOT, ISZERO and CALLDATALOAD change the top; MLOAD and SLOAD its name only.
Unary ==
  \E op \in Ops, v \in Results \cup {m_stack[i] : i \in {1} \cap DOMAIN m_stack} :
    /\ Exec("UNARY", op) /\ Begin(op, v)
    /\ Done(op, [m_stack EXCEPT ![1] = v])
    /\ Follows /\ UNCHANGED m_memStorage

\* The register below the two is given a name, be there one or not.
Mstore ==
  \E op \in Ops :
    /\ Exec("MSTORE", op) /\ Begin(op, 0)
    /\ IF Len(m_stack) > 2
         THEN /\ Done(op, Pops(m_stack, 2))
              /\ m_memStorage' =
                   [ o \in DOMAIN m_memStorage \cup {m_stack[1]} |->
                       IF o = m_stack[1] THEN m_stack[2] ELSE m_memStorage[o] ]
              /\ Follows
         ELSE Undefined(op)

\* The result is a copy of the memory element at the offset.
Sha3 ==
  \E op \in Ops :
    /\ Exec("SHA3", op) /\ Begin(op, 0)
    /\ IF m_stack[1] \in DOMAIN m_memStorage
         THEN /\ Done(op, [ Pops(m_stack, 1) EXCEPT
                              ![1] = m_memStorage[m_stack[1]] ])
              /\ Follows /\ UNCHANGED m_memStorage
         ELSE Undefined(op)

\* Mutation: all operands are popped before the result is written.
Call_PopAll ==
  \E op \in Ops, v \in Results :
    /\ Exec("CALL", op) /\ Begin(op, v)
    /\ IF Len(m_stack) < 6 THEN Failed(op)
       ELSE IF Len(m_stack) < 8 THEN Undefined(op)
       ELSE /\ Done(op, [ Pops(m_stack, 7) EXCEPT ![1] = v ])
            /\ Follows /\ UNCHANGED m_memStorage

\* The result takes the place of the seventh operand; six are asked for.
Call ==
  \E op \in Ops, v \in Results :
    /\ Exec("CALL", op) /\ Begin(op, v)
    /\ IF Len(m_stack) < 6 THEN Failed(op)
       ELSE IF Len(m_stack) < 7 THEN Undefined(op)
       ELSE /\ Done(op, [ Pops(m_stack, 6) EXCEPT ![1] = v ])
            /\ Follows /\ UNCHANGED m_memStorage

Log ==
  \E op \in Ops :
    /\ Exec("LOG", op) /\ Begin(op, 0)
    /\ Done(op, Pops(m_stack, op.n + 2))
    /\ Follows /\ UNCHANGED m_memStorage

\* Mutation: the machine stops one short of the destination.
Jump_Before ==
  \E op \in Ops :
    /\ Exec("JUMP", op) /\ Begin(op, 0)
    /\ m_eip' = IF m_stack = << >> THEN m_eip ELSE m_stack[1] - 1
    /\ m_stack' = Pops(m_stack, 1) /\ status' = "dead"
    /\ Follows /\ UNCHANGED << m_memStorage, fault >>

\* The block goes on with its dead code, m_eip counting from the destination.
Jump ==
  \E op \in Ops :
    /\ Exec("JUMP", op) /\ Begin(op, 0)
    /\ m_eip' = IF m_stack = << >> THEN m_eip ELSE m_stack[1]
    /\ m_stack' = Pops(m_stack, 1) /\ status' = "dead"
    /\ Follows /\ UNCHANGED << m_memStorage, fault >>

\* Without a fork: permission2Fork is FALSE in executeBlock.
Jumpi ==
  \E op \in Ops :
    /\ Exec("JUMPI", op) /\ Begin(op, 0)
    /\ Done(op, Pops(m_stack, 2))
    /\ Follows /\ UNCHANGED m_memStorage

\* PC writes over the top, BLOCKHASH leaves its operand.
Odd ==
  \E op \in Ops, v \in Results :
    /\ op.inst \in {"PC", "BLOCKHASH"} /\ HasTouched(op) /\ Begin(op, v)
    /\ Done(op, IF op.inst = "PC" THEN [m_stack EXCEPT ![1] = m_eip]
                                  ELSE << v >> \o m_stack)
    /\ strayed' = TRUE /\ UNCHANGED m_memStorage

\* What is not implemented.
NotImplemented ==
  \E op \in Ops :
    /\ op.inst \in {"CALLDATASIZE", "XOR", "CODECOPY"}
    /\ Begin(op, 0) /\ Failed(op)

Execute ==
  \/ Push \/ Dup \/ Swap \/ Discard \/ Binary \/ Unary \/ Mstore \/ Sha3
  \/ Call \/ Log \/ Jump \/ Jumpi \/ Odd \/ NotImplemented \/ Beyond

Stopped ==
  (status = "undefined" \/ steps = MaxSteps) /\ UNCHANGED vars

Next == BeginBlock \/ Execute \/ Stopped

Spec == Init /\ [][Next]_vars

-----------------------------------------------------------------------------
(***************************************************************************)
(* Properties.                                                             *)
(***************************************************************************)
\* As long as no instruction has failed, has another effect than the table
\* gives it or lies behind a JUMP of its block, every address the code pushed
\* lies where it lies on Ethereum, so a JUMP finds its destination
\* (VMState.cpp:786).  FunctionExec rests on it.
AddressesKept ==
  status # "undefined" /\ ~strayed =>
    /\ Len(m_stack) = Len(evm)
    /\ \A i \in 1 .. Len(evm) : evm[i] # COMPUTED => m_stack[i] = evm[i]

\* In that case too no instruction looks below the operands it takes, but for
\* MSTORE with nothing below them, SHA3 without a memory element and PC on an
\* empty stack (VMState.cpp:248, 295, 626).
KnownFaults ==
  status = "undefined" /\ ~strayed => fault \in {"MSTORE", "SHA3", "PC"}
=============================================================================
