------------------------------ MODULE ForkExec -------------------------------
(***************************************************************************)
(* VMState::executeByteCode: execution over the bytes of the contract, not *)
(* over its blocks.  At a JUMPI a copy of the machine, one level deeper,   *)
(* first runs on with the outcome the values do not give; then the machine *)
(* itself goes on with the one they do.  A copy on level 5 returns at once.*)
(*                                                                         *)
(* Calls of executeByteCode are `machines', the innermost first.  The code *)
(* is given by its listing and its size in bytes; PUSH12 stands for every  *)
(* push, STOP for all that makes executeInstruction return false, POP and  *)
(* ISZERO for what else changes the stack.  A byte of the data of a push   *)
(* that is executed may be no instruction, and ends the call, or may be    *)
(* one: the data is abstract.  To execute it, to run outside the code and  *)
(* to read a register that is not there ends the modelled execution: what  *)
(* follows depends on other bytes, or on the memory around.                *)
(***************************************************************************)
EXTENDS Integers, Sequences

CONSTANTS
  Programs,     \* contracts: [listing, size], see BlockGraph, and the entry
                \* of the function that is asked for
  MaxDepth      \* deepest level that executes anything (4 in the program)

Ops == {"PUSH12", "POP", "ISZERO", "JUMPDEST", "JUMP", "JUMPI", "STOP"}

Instr == [offset : Nat, op : Ops, data : Nat]

Size(op) == IF op = "PUSH12" THEN 2 ELSE 1

OffsetsOf(l) == { l[i].offset : i \in DOMAIN l }

ASSUME DepthAssumption == MaxDepth \in Nat \ {0}
\* A function does not begin at 0 (Contract.cpp:799).
ASSUME ProgramAssumption ==
  \A p \in Programs :
    /\ p.listing \in Seq(Instr) /\ p.size \in Nat
    /\ p.entry \in OffsetsOf(p.listing) \ {0}
\* The instructions of the listing lie one behind the other up to the last byte,
\* where a push may be cut off (CodeLoader's ListingWellFormed).
ASSUME OffsetsAssumption ==
  \A p \in Programs : \A i \in DOMAIN p.listing :
    LET behind == p.listing[i].offset + Size(p.listing[i].op)
    IN  /\ p.listing[i].offset < p.size
        /\ i < Len(p.listing) => behind = p.listing[i + 1].offset
        /\ i = Len(p.listing) =>
             IF p.listing[i].op = "PUSH12" THEN behind >= p.size
                                           ELSE behind = p.size
        /\ \A j \in DOMAIN p.listing :
             p.listing[j].offset = p.listing[i].offset => i = j

VARIABLES
  listing, codeSize, entry,
  machines,    \* calls of executeByteCode: registers, and how far the call is
  status,      \* "run", "done", "underflow" or "beyond"
  executed     \* history: where instructions were executed, with which stack,
               \* and on which level

vars == << listing, codeSize, entry, machines, status, executed >>

\* A call is at its entry, or behind an instruction.
Machine == [ m_eip : Nat, m_stack : Seq(Nat), m_depthLevel : Nat,
             at : {"entry", "behind"} ]

\* However many branches there are, at most MaxDepth + 1 machines are alive, and
\* each is one level deeper than the one it is a copy of (VMState.cpp:872).
TypeOK ==
  /\ listing \in Seq(Instr) /\ codeSize \in Nat /\ entry \in Nat
  /\ machines \in Seq(Machine)
  /\ \A k \in DOMAIN machines : machines[k].m_depthLevel = Len(machines) - k + 1
  /\ Len(machines) <= MaxDepth + 1
  /\ status \in {"run", "done", "underflow", "beyond"}
  /\ status = "run" <=> machines # << >>
  /\ executed \subseteq [ eip : OffsetsOf(listing), stack : Seq(Nat),
                          forced : 0 .. MaxDepth - 1 ]

\* Contract::getFunction clears the stack and sets m_eip.
Init ==
  \E p \in Programs :
    /\ listing = p.listing /\ codeSize = p.size /\ entry = p.entry
    /\ machines = << [ m_eip |-> p.entry, m_stack |-> << >>, m_depthLevel |-> 1,
                       at |-> "entry" ] >>
    /\ status = "run"
    /\ executed = {}

-----------------------------------------------------------------------------
Top == Head(machines)

\* Mutation: a machine behind the end of the code does not see that it is there.
Ended_Never == Top.at = "entry" /\ Top.m_depthLevel > MaxDepth

\* A call returns at its entry if it is too deep, and behind an instruction if
\* that was the last of the code.
Ended ==
  \/ Top.at = "entry"  /\ Top.m_depthLevel > MaxDepth
  \/ Top.at = "behind" /\ Top.m_eip = codeSize

Return ==
  /\ machines' = Tail(machines)
  /\ status' = IF Len(machines) = 1 THEN "done" ELSE "run"
  /\ UNCHANGED << listing, codeSize, entry >>

ReturnAtEnd == status = "run" /\ Ended /\ Return /\ UNCHANGED executed

\* The instruction under m_eip, if one begins there.
Current == { i \in DOMAIN listing : listing[i].offset = Top.m_eip }

Stray(s) ==
  status' = s /\ machines' = << >> /\ UNCHANGED << listing, codeSize, entry >>

\* A byte of the data of a push that is no instruction ends the call.
ReturnAtInvalid ==
  /\ status = "run" /\ ~Ended /\ Current = {} /\ Top.m_eip < codeSize
  /\ Return /\ UNCHANGED executed

RunBeyond ==
  /\ status = "run" /\ ~Ended /\ Current = {}
  /\ Stray("beyond") /\ UNCHANGED executed

\* The registers an instruction looks into.
Touched(op) == CASE op = "ISZERO" -> 1 [] op = "JUMPI" -> 2 [] OTHER -> 0

\* Instruction i is executed, and has the registers it needs.
Exec(op, i) ==
  /\ listing[i].op = op
  /\ status = "run" /\ ~Ended
  /\ listing[i].offset = Top.m_eip
  /\ executed' = executed \cup { [ eip |-> Top.m_eip, stack |-> Top.m_stack,
                                   forced |-> Top.m_depthLevel - 1 ] }

Underflow ==
  \E i \in DOMAIN listing :
    /\ Exec(listing[i].op, i) /\ Len(Top.m_stack) < Touched(listing[i].op)
    /\ Stray("underflow")

Behind(eip, s) ==
  [ m_eip |-> eip, m_stack |-> s, m_depthLevel |-> Top.m_depthLevel, at |-> "behind" ]

GoOn(eip, s) ==
  /\ machines' = << Behind(eip, s) >> \o Tail(machines)
  /\ UNCHANGED << listing, codeSize, entry, status >>

Pop(s, k) == SubSeq(s, k + 1, Len(s))

ExecPush ==
  \E i \in DOMAIN listing :
    /\ Exec("PUSH12", i)
    /\ GoOn(Top.m_eip + Size("PUSH12"), << listing[i].data >> \o Top.m_stack)

\* Mutation: a JUMPDEST returns before m_eip is moved.
ExecDiscard_Early ==
  \E i \in DOMAIN listing, op \in {"POP", "JUMPDEST"} :
    /\ Exec(op, i)
    /\ GoOn(Top.m_eip + IF op = "POP" THEN 1 ELSE 0,
            Pop(Top.m_stack, IF op = "POP" THEN 1 ELSE 0))

\* POP of nothing is reported, and does nothing; so is JUMPDEST.
ExecDiscard ==
  \E i \in DOMAIN listing, op \in {"POP", "JUMPDEST"} :
    /\ Exec(op, i)
    /\ GoOn(Top.m_eip + 1, Pop(Top.m_stack, IF op = "POP" THEN 1 ELSE 0))

ExecIsZero ==
  \E i \in DOMAIN listing :
    /\ Exec("ISZERO", i) /\ Top.m_stack # << >>
    /\ GoOn(Top.m_eip + 1,
            [Top.m_stack EXCEPT ![1] = IF Top.m_stack[1] = 0 THEN 1 ELSE 0])

\* Without a register m_eip stays where it is, and the JUMP is next again.
ExecJump ==
  \E i \in DOMAIN listing :
    /\ Exec("JUMP", i)
    /\ GoOn(IF Top.m_stack = << >> THEN Top.m_eip ELSE Top.m_stack[1],
            Pop(Top.m_stack, 1))

\* Mutation: the machine itself is put one level deeper.
Fork_Both(other, own) ==
  LET rest == Pop(Top.m_stack, 2)
      copy == [ m_eip |-> other, m_stack |-> rest,
                m_depthLevel |-> Top.m_depthLevel + 1, at |-> "entry" ]
  IN  /\ machines' = << copy, [Behind(own, rest) EXCEPT !.m_depthLevel = @ + 1] >>
                       \o Tail(machines)
      /\ UNCHANGED << listing, codeSize, entry, status >>

\* Mutation: the copy is as deep as the machine.
Fork_SameLevel(other, own) ==
  LET rest == Pop(Top.m_stack, 2)
      copy == [ m_eip |-> other, m_stack |-> rest,
                m_depthLevel |-> Top.m_depthLevel, at |-> "entry" ]
  IN  /\ machines' = << copy, Behind(own, rest) >> \o Tail(machines)
      /\ UNCHANGED << listing, codeSize, entry, status >>

\* The copy goes on at `other'; the machine, when that has returned, at `own'.
Fork(other, own) ==
  LET rest == Pop(Top.m_stack, 2)
      copy == [ m_eip |-> other, m_stack |-> rest,
                m_depthLevel |-> Top.m_depthLevel + 1, at |-> "entry" ]
  IN  /\ machines' = << copy, Behind(own, rest) >> \o Tail(machines)
      /\ UNCHANGED << listing, codeSize, entry, status >>

ExecJumpi ==
  \E i \in DOMAIN listing :
    /\ Exec("JUMPI", i) /\ Len(Top.m_stack) >= 2
    /\ LET jmpTarget == Top.m_stack[1]
           nextInstr == Top.m_eip + 1
       IN  IF Top.m_stack[2] # 0 THEN Fork(nextInstr, jmpTarget)
                                 ELSE Fork(jmpTarget, nextInstr)

ExecHalt == \E i \in DOMAIN listing : Exec("STOP", i) /\ Return

Step == ReturnAtEnd \/ ReturnAtInvalid \/ RunBeyond \/ Underflow \/ ExecPush \/ ExecDiscard
          \/ ExecIsZero \/ ExecJump \/ ExecJumpi \/ ExecHalt

Terminated == status # "run" /\ UNCHANGED vars

Next == Step \/ Terminated

\* executeByteCode is called and waited for.
Spec == Init /\ [][Next]_vars /\ WF_vars(Step)

-----------------------------------------------------------------------------
(***************************************************************************)
(* Properties.                                                             *)
(***************************************************************************)
\* Nothing checks a jump, and the end of the code is found by equality; still
\* there are three ways only by which a machine gets where no instruction
\* begins, on whatever level and whichever outcome it was forced to: a jump to
\* such an offset, a branch that is the last instruction, and a push whose data
\* is cut off (VMState.cpp:556-602, 876, 914).
WaysOut ==
  status = "beyond" =>
    \E c \in executed, i \in DOMAIN listing :
      /\ c.eip = listing[i].offset
      /\ \/ /\ listing[i].op \in {"JUMP", "JUMPI"} /\ c.stack # << >>
            /\ c.stack[1] \notin OffsetsOf(listing)
         \/ listing[i].op = "JUMPI" /\ i = Len(listing)
         \/ listing[i].op = "PUSH12" /\ c.eip + Size("PUSH12") > codeSize

(***************************************************************************)
(* What can be reached when an outcome may be forced: configurations of a  *)
(* single machine, without copies or calls, with the outcomes forced.      *)
(***************************************************************************)
Start == [eip |-> entry, stack |-> << >>, forced |-> 0]

Following(c, i) ==
  LET s    == c.stack
      next == [c EXCEPT !.eip = @ + Size(listing[i].op)]
  IN  CASE listing[i].op = "PUSH12" -> { [next EXCEPT !.stack = << listing[i].data >> \o s] }
        [] listing[i].op = "POP"    -> { [next EXCEPT !.stack = Pop(s, 1)] }
        [] listing[i].op = "ISZERO" /\ s # << >> ->
             { [next EXCEPT !.stack[1] = IF @ = 0 THEN 1 ELSE 0] }
        [] listing[i].op = "JUMPDEST" -> { next }
        [] listing[i].op = "JUMP" /\ s # << >> ->
             { [c EXCEPT !.eip = s[1], !.stack = Pop(s, 1)] }
        [] listing[i].op = "JUMPI" /\ Len(s) >= 2 ->
             { [eip |-> IF taken THEN s[1] ELSE c.eip + 1, stack |-> Pop(s, 2),
                forced |-> c.forced + IF taken = (s[2] # 0) THEN 0 ELSE 1] :
                 taken \in BOOLEAN }
        [] OTHER -> {}

\* The configurations that come next after those in C; a copy on the level
\* behind the last does nothing.
Followers(C) ==
  { d \in UNION { UNION { Following(c, i) : i \in { j \in DOMAIN listing :
                                                     listing[j].offset = c.eip } } : c \in C } :
      d.forced < MaxDepth }

\* The search for them, MaxDepth * Len(listing) instructions far.
Reachable ==
  LET reach[n \in 0 .. MaxDepth * Len(listing)] ==
        IF n = 0 THEN [all |-> {Start}, last |-> {Start}]
        ELSE LET r    == reach[n - 1]
                 last == Followers(r.last) \ r.all
             IN  [all |-> r.all \cup last, last |-> last]
  IN  reach[MaxDepth * Len(listing)].all

\* When the call returns, exactly what some path of the code reaches with at most
\* three outcomes forced has been executed, with the stacks it has there: no copy
\* stands in the way of another, and what lies behind a fourth forced outcome is
\* never seen, be it reachable or not (VMState.cpp:574-605, 872).  The search
\* above must have come to its end: paths may be longer than it looks.
SeenExactly ==
  status = "done" =>
    LET R == Reachable
    IN  Followers(R) \subseteq R =>
          executed = { c \in R : c.eip \in OffsetsOf(listing) }

\* The call returns, also from a loop that the forced copies could repeat for ever,
\* since copies are limited; the only thing that keeps code without a loop of its
\* own from it is a JUMP on an empty stack, which repeats itself
\* (VMState.cpp:559, 872).
Returns ==
  <>( \/ status # "run"
      \/ Top.m_stack = << >> /\ \E i \in Current : listing[i].op = "JUMP" )
=============================================================================
