----------------------------- MODULE CodeLoader -----------------------------
(***************************************************************************)
(* The constructor of Contract up to the listing: IsRuntimeCode searches   *)
(* the byte code for the code that is deployed, and the disassembly of     *)
(* that part becomes m_instructions.  Both passes are eachInstruction with *)
(* another callback; a step is one call of the callback.                   *)
(*                                                                         *)
(* A byte is a member of `Bytes'.  Valid and Additional are the table of   *)
(* instructions, STOP is the byte 0, and the data of an instruction is the *)
(* sequence of its bytes, most significant first.                          *)
(***************************************************************************)
EXTENDS Integers, Sequences

CONSTANTS
  Bytes,                     \* what a byte can be
  Valid,                     \* the bytes that are instructions
  Additional,                \* the bytes of data behind each of them
  STOP, CODECOPY, RETURN,    \* the instructions the search knows
  Codes                      \* the byte codes the program may be given

ASSUME TableAssumption ==
  /\ Valid \subseteq Bytes /\ Additional \in [Bytes -> Nat]
  /\ {STOP, CODECOPY, RETURN} \subseteq Valid
  /\ STOP # CODECOPY /\ STOP # RETURN /\ CODECOPY # RETURN
  /\ Additional[STOP] = 0 /\ Additional[CODECOPY] = 0 /\ Additional[RETURN] = 0
ASSUME CodesAssumption == Codes \subseteq Seq(Bytes)

VARIABLES
  m_byteCode,
  pc,                  \* "detect": IsRuntimeCode; "load": getBasicBlocks; "done"
  it,                  \* the iterator of eachInstruction
  hasCODECOPY, leaveFunction, m_runtimeOffset,
  m_byteCodeRuntime,
  m_instructions,
  seen                 \* history: the calls of IsRuntimeCode's callback

vars == << m_byteCode, pc, it, hasCODECOPY, leaveFunction, m_runtimeOffset,
           m_byteCodeRuntime, m_instructions, seen >>

OffsetInfo == [offset : Nat, inst : Valid, data : Seq(Bytes)]

TypeOK ==
  /\ m_byteCode \in Seq(Bytes)
  /\ pc \in {"detect", "load", "done"}
  /\ it \in Nat
  /\ hasCODECOPY \in BOOLEAN /\ leaveFunction \in BOOLEAN
  /\ m_runtimeOffset \in Nat
  /\ m_byteCodeRuntime \in Seq(Bytes)
  /\ m_instructions \in Seq(OffsetInfo) /\ seen \in Seq(OffsetInfo)

-----------------------------------------------------------------------------
(***************************************************************************)
(* eachInstruction: stops for good at the end or at a byte that is no      *)
(* instruction; data behind the end of the code reads as zero.             *)
(***************************************************************************)
isValidInstruction(b) == b \in Valid

\* Mutation: a byte that is no instruction is listed, too.
Ended_AtEnd(mem, i) == ~(i < Len(mem))

Ended(mem, i) == ~(i < Len(mem) /\ isValidInstruction(mem[i + 1]))

\* Mutation: data that the end of the code cuts off is dropped.
DataAt_Short(mem, i) ==
  [ k \in 1 .. (IF i + Additional[mem[i + 1]] < Len(mem)
                  THEN Additional[mem[i + 1]] ELSE 0) |-> mem[i + 1 + k] ]

DataAt(mem, i) ==
  [ k \in 1 .. Additional[mem[i + 1]] |->
      IF i + k < Len(mem) THEN mem[i + 1 + k] ELSE STOP ]

InstructionAt(mem, i) ==
  [ offset |-> i, inst |-> mem[i + 1], data |-> DataAt(mem, i) ]

\* Where the iterator goes on.
After(mem, i) == i + 1 + Additional[mem[i + 1]]

-----------------------------------------------------------------------------
(***************************************************************************)
(* IsRuntimeCode.                                                          *)
(***************************************************************************)
Init ==
  /\ m_byteCode \in Codes
  /\ pc = "detect" /\ it = 0
  /\ hasCODECOPY = FALSE /\ leaveFunction = FALSE /\ m_runtimeOffset = 0
  /\ m_byteCodeRuntime = << >>
  /\ m_instructions = << >> /\ seen = << >>

Callback ==
  /\ pc = "detect" /\ ~Ended(m_byteCode, it)
  /\ it' = After(m_byteCode, it)
  /\ seen' = Append(seen, InstructionAt(m_byteCode, it))
  /\ UNCHANGED << m_byteCode, pc, m_byteCodeRuntime, m_instructions >>

\* Before the first RETURN: remember what is there.
InConstructor ==
  /\ Callback /\ ~leaveFunction
  /\ hasCODECOPY' = (hasCODECOPY \/ m_byteCode[it + 1] = CODECOPY)
  /\ leaveFunction' = (m_byteCode[it + 1] = RETURN)
  /\ UNCHANGED m_runtimeOffset

\* Mutation: each instruction behind the RETURN moves the offset.
BehindReturn_Last ==
  /\ Callback /\ leaveFunction
  /\ m_runtimeOffset' =
       IF hasCODECOPY /\ m_byteCode[it + 1] # STOP THEN it ELSE m_runtimeOffset
  /\ UNCHANGED << hasCODECOPY, leaveFunction >>

\* Behind it: the first instruction but STOP begins the deployed code.
BehindReturn ==
  /\ Callback /\ leaveFunction
  /\ m_runtimeOffset' =
       IF hasCODECOPY /\ m_runtimeOffset = 0 /\ m_byteCode[it + 1] # STOP
         THEN it ELSE m_runtimeOffset
  /\ UNCHANGED << hasCODECOPY, leaveFunction >>

-----------------------------------------------------------------------------
(***************************************************************************)
(* The constructor: the code to load.                                      *)
(***************************************************************************)
Chosen(code) ==
  /\ pc = "detect" /\ Ended(m_byteCode, it)
  /\ m_byteCodeRuntime' = code /\ it' = 0
  /\ UNCHANGED << m_byteCode, hasCODECOPY, leaveFunction, m_runtimeOffset,
                  m_instructions, seen >>

TakeAll == ~hasCODECOPY /\ Chosen(m_byteCode) /\ pc' = "load"

\* Mutation: the deployed code begins one byte behind its offset.
TakeTail_OffByOne ==
  /\ hasCODECOPY /\ m_runtimeOffset # 0
  /\ Chosen(SubSeq(m_byteCode, m_runtimeOffset + 2, Len(m_byteCode)))
  /\ pc' = "load"

TakeTail ==
  /\ hasCODECOPY /\ m_runtimeOffset # 0
  /\ Chosen(SubSeq(m_byteCode, m_runtimeOffset + 1, Len(m_byteCode)))
  /\ pc' = "load"

\* No deployed code was found: the contract stays empty.
TakeNothing ==
  /\ hasCODECOPY /\ m_runtimeOffset = 0
  /\ Chosen(<< >>) /\ pc' = "done"

\* enumerateInstructionsAndBlocks: the listing.
Load ==
  /\ pc = "load" /\ ~Ended(m_byteCodeRuntime, it)
  /\ m_instructions' = Append(m_instructions, InstructionAt(m_byteCodeRuntime, it))
  /\ it' = After(m_byteCodeRuntime, it)
  /\ UNCHANGED << m_byteCode, pc, hasCODECOPY, leaveFunction, m_runtimeOffset,
                  m_byteCodeRuntime, seen >>

Loaded ==
  /\ pc = "load" /\ Ended(m_byteCodeRuntime, it) /\ pc' = "done"
  /\ UNCHANGED << m_byteCode, it, hasCODECOPY, leaveFunction, m_runtimeOffset,
                  m_byteCodeRuntime, m_instructions, seen >>

Construct ==
  \/ InConstructor \/ BehindReturn
  \/ TakeAll \/ TakeTail \/ TakeNothing
  \/ Load \/ Loaded

Terminated == pc = "done" /\ UNCHANGED vars

Next == Construct \/ Terminated

Spec == Init /\ [][Next]_vars /\ WF_vars(Construct)

-----------------------------------------------------------------------------
(***************************************************************************)
(* Properties.                                                             *)
(***************************************************************************)
\* What BlockGraph takes for granted of a listing (its WellFormed), and that
\* no byte is skipped: the instructions lie one behind the other from offset 0,
\* each begins inside the code, and each has all bytes of its data, also where
\* the code ends within them (Instruction.cpp:220-242).
ListingWellFormed ==
  \A i \in 1 .. Len(m_instructions) :
    /\ m_instructions[i].offset < Len(m_byteCodeRuntime)
    /\ m_instructions[i].offset =
         IF i = 1 THEN 0
         ELSE m_instructions[i - 1].offset + 1 + Len(m_instructions[i - 1].data)
    /\ Len(m_instructions[i].data) = Additional[m_instructions[i].inst]

\* The two disassemblies agree: the listing of the deployed code is the rest of
\* what IsRuntimeCode saw from the offset it found, moved to offset 0.  The cut
\* is never inside the data of a push (Contract.cpp:1107-1114, Contract.h:33-36).
ListingIsTail ==
  pc = "done" /\ m_runtimeOffset # 0 =>
    \E k \in 0 .. Len(seen) - 1 :
      /\ seen[k + 1].offset = m_runtimeOffset
      /\ Len(m_instructions) = Len(seen) - k
      /\ \A i \in 1 .. Len(m_instructions) :
           seen[k + i] =
             [m_instructions[i] EXCEPT !.offset = @ + m_runtimeOffset]

\* The offsets at which an instruction of code c begins, and where the
\* disassembly stops.
Starts(c) ==
  LET start[i \in 0 .. Len(c)] ==
        \/ i = 0
        \/ \E j \in 0 .. i - 1 : start[j] /\ ~Ended(c, j) /\ After(c, j) = i
  IN  { i \in 0 .. Len(c) : start[i] }

\* Creation code whose deployed part begins at offset n: code that copies and
\* returns once, STOPs, and then an instruction.
DeploysFrom(c, n) ==
  \E r, d \in Starts(c) :
    /\ d < r /\ r < n /\ n < Len(c)
    /\ c[d + 1] = CODECOPY /\ c[r + 1] = RETURN
    /\ \A i \in Starts(c) : i < r => c[i + 1] # RETURN
    /\ \A i \in r + 1 .. n - 1 : c[i + 1] = STOP
    /\ isValidInstruction(c[n + 1]) /\ c[n + 1] # STOP

\* From creation code exactly the deployed code is taken, whatever it holds,
\* further RETURNs and CODECOPYs included (Contract.cpp:1091-1129).
DeployedCodeFound ==
  pc # "detect" =>
    \A n \in 1 .. Len(m_byteCode) :
      DeploysFrom(m_byteCode, n) =>
        m_byteCodeRuntime = SubSeq(m_byteCode, n + 1, Len(m_byteCode))
=============================================================================
