----------------------------- MODULE Conditions -----------------------------
(***************************************************************************)
(* What the decompiler says: the types, names and expressions that         *)
(* executeInstruction and InstructionContext give to registers, the        *)
(* condition that Statement::setCondition collects from a block, and the   *)
(* two lines decompileBlock prints from them, `if (...) {' and             *)
(* `store[...] = ...;'.  Beside it runs what the same instructions compute *)
(* on Ethereum, from an input the decompiler does not know.                *)
(*                                                                         *)
(* A text is a record of what it names, and Says is its value: a constant  *)
(* in hex, argument arg_k, slot store_k, or the random name of a register  *)
(* that has none.  An expression has one operator, as in the code.  Words  *)
(* have Width bits.  SLT stands for SGT too.  Memory, and the sources that *)
(* are named like arguments (CALLVALUE, CALLER), are left out.             *)
(***************************************************************************)
EXTENDS Integers, Sequences

CONSTANTS
  Width,          \* bits of a u256
  address_mask,   \* 2^160 - 1 in the program
  endianMul,      \* 2^96 in the program
  Codes,          \* code: at each place, the instructions that may be there
  Pushes,         \* constants it pushes
  Stacks,         \* what earlier blocks have left to it: sequences of Atoms
  Worlds          \* arguments given to the decompiler, arguments and storage

Modulus == 2^Width

Word == 0 .. Modulus - 1

Arithmetic == {"ADD", "MUL", "SUB", "DIV", "MOD", "EXP"}
Logic      == {"AND", "OR"}
Comparison == {"LT", "GT", "SLT", "SGT", "EQ"}

Insts == Arithmetic \cup Logic \cup Comparison \cup
  { "PUSH", "CALLDATALOAD", "SLOAD", "SSTORE", "DUP", "SWAP", "POP", "NOT",
    "ISZERO", "JUMPI", "JUMPDEST" }

Atoms == [of : {"hex", "arg", "store"}, at : Word]

ASSUME WidthAssumption == Width \in Nat \ {0}
ASSUME ConstantsAssumption ==
  /\ address_mask \in Word /\ endianMul \in Word /\ Pushes \subseteq Word
  /\ Codes \subseteq Seq(SUBSET Insts) /\ Stacks \subseteq Seq(Atoms)
  /\ Worlds \subseteq [m_data : [Word -> Word], calldata : [Word -> Word],
                       storage : [Word -> Word]]

VARIABLES
  code,       \* what is still to be executed
  m_stack,    \* registers, the top first
  m_data,     \* arguments the decompiler was given
  ifStmt,     \* the Statement of the block
  status,     \* "run", or "thrown" when the process has ended
  printed,    \* the line printed last
  calldata,   \* arguments on Ethereum
  storage,    \* slots on Ethereum
  evm,        \* words on Ethereum, the top first
  test,       \* history: the last test of this block
  strayed,    \* history: an instruction was passed over
  steps       \* history: instructions executed

vars == << code, m_stack, m_data, ifStmt, status, printed, calldata, storage, evm,
           test, strayed, steps >>

-----------------------------------------------------------------------------
(***************************************************************************)
(* Texts and what they say.                                                *)
(***************************************************************************)
Text    == Atoms \cup [of : {"var"}, at : {0}]
Unnamed == [of |-> "var", at |-> 0]

NoExp   == [op |-> "", a |-> Unnamed, b |-> Unnamed]
Exp     == [op : Arithmetic \cup Comparison \cup {"", "is"}, a : Text, b : Text]

Register ==
  [ value : Word, name : Text, exp : Exp,
    type : {"Constant", "UserInput", "StorageType", "RegTypeFlag"} ]

IsConstant(r) == r.type = "Constant"
Tainted(r)    == r.type = "UserInput"

getDismangledRegisterName(r) ==
  IF IsConstant(r) THEN [of |-> "hex", at |-> r.value] ELSE r.name

Bit(b) == IF b THEN 1 ELSE 0

Wrap(n) == n % Modulus

Bits(n) == { i \in 0 .. Width - 1 : (n \div 2^i) % 2 = 1 }
WithBits(S) == CHOOSE n \in Word : Bits(n) = S

Signed(n) == IF n < 2^(Width - 1) THEN n ELSE n - 2^Width

Compare(op, a, b) ==
  CASE op = "LT"  -> a < b
    [] op = "GT"  -> a > b
    [] op = "SLT" -> Signed(a) < Signed(b)
    [] op = "SGT" -> Signed(a) > Signed(b)
    [] op = "EQ"  -> a = b

\* What an instruction with two operands means, a being the top.
OnEthereum(op, a, b) ==
  CASE op = "ADD" -> Wrap(a + b)
    [] op = "MUL" -> Wrap(a * b)
    [] op = "SUB" -> Wrap(a - b)
    [] op = "DIV" -> IF b = 0 THEN 0 ELSE a \div b
    [] op = "MOD" -> IF b = 0 THEN 0 ELSE a % b
    [] op = "EXP" -> IF b = 0 THEN 1 ELSE Wrap(a^b)
    [] op = "AND" -> WithBits(Bits(a) \cap Bits(b))
    [] op = "OR"  -> WithBits(Bits(a) \cup Bits(b))
    [] op \in Comparison -> Bit(Compare(op, a, b))

Nothing == -1       \* what a name that means nothing says

Says(t) ==
  CASE t.of = "hex"   -> t.at
    [] t.of = "arg"   -> calldata[t.at]
    [] t.of = "store" -> storage[t.at]
    [] t.of = "var"   -> Nothing

ExpSays(e) ==
  IF e.op = "" \/ Says(e.a) = Nothing THEN Nothing
  ELSE IF e.op = "is" THEN Says(e.a)
  ELSE IF Says(e.b) = Nothing THEN Nothing
  ELSE OnEthereum(e.op, Says(e.a), Says(e.b))

\* `!' before an expression: it binds tighter than arithmetic, but a comparison
\* is in parentheses.
NotSays(e) ==
  IF e.op \in Arithmetic /\ Nothing \notin {Says(e.a), Says(e.b)}
    THEN OnEthereum(e.op, Bit(Says(e.a) = 0), Says(e.b))
  ELSE IF ExpSays(e) = Nothing THEN Nothing ELSE Bit(ExpSays(e) = 0)

-----------------------------------------------------------------------------
(***************************************************************************)
(* Statement.                                                              *)
(***************************************************************************)
Undefined == "Undefined"

CondOf == [ LT  |-> "LessThan",       GT  |-> "GreaterThan",
            SLT |-> "SignedLessThan", SGT |-> "SignedGreaterThan",
            EQ  |-> "Equal" ]

Negations ==
  { << "Equal", "Different" >>, << "IsZero", "IsNotZero" >>,
    << "LessThan", "GreaterEqualThan" >>, << "GreaterThan", "LessEqualThan" >>,
    << "SignedLessThan", "SignedGreaterEqualThan" >>,
    << "SignedGreaterThan", "SignedLessEqualThan" >> }

Conds == {Undefined} \cup { p[1] : p \in Negations } \cup { p[2] : p \in Negations }

\* Mutation: the operator is turned around, not negated.
NegateCondition_Mirror(c) ==
  CASE c = "LessThan" -> "GreaterThan" [] c = "GreaterThan" -> "LessThan"
    [] c = "Equal" -> "Different"      [] c = "Different" -> "Equal"
    [] c = "IsZero" -> "IsNotZero"     [] c = "IsNotZero" -> "IsZero"
    [] OTHER -> c

NegateCondition(c) ==
  IF c = Undefined THEN Undefined
  ELSE CHOOSE d \in Conds : << c, d >> \in Negations \/ << d, c >> \in Negations

NoRegister ==
  [value |-> 0, name |-> Unnamed, exp |-> NoExp, type |-> "RegTypeFlag"]

NewStatement == [m_cond |-> Undefined, m_op1 |-> NoRegister, m_op2 |-> NoRegister]

\* The instruction is a test, and `stack' is what its context has made of it.
setCondition(op, stack) ==
  IF op # "ISZERO"
    THEN [m_cond |-> CondOf[op], m_op1 |-> stack[1], m_op2 |-> stack[2]]
  ELSE IF ifStmt.m_cond = Undefined
    THEN [m_cond |-> "IsZero", m_op1 |-> stack[1], m_op2 |-> ifStmt.m_op2]
  ELSE [ m_cond |-> NegateCondition(ifStmt.m_cond), m_op1 |-> ifStmt.m_op1,
         m_op2 |-> ifStmt.m_op2 ]

\* The operators of getStatementStr; a signed comparison prints `if ()'.
Holds(c, a, b) ==
  CASE c = "Equal"       -> a = b  [] c = "Different"        -> a # b
    [] c = "LessThan"    -> a < b  [] c = "GreaterEqualThan" -> a >= b
    [] c = "GreaterThan" -> a > b  [] c = "LessEqualThan"    -> a <= b

StatementSays(s) ==
  LET a == Says(getDismangledRegisterName(s.m_op1))
      b == Says(getDismangledRegisterName(s.m_op2))
  IN  CASE s.m_cond = "IsZero" -> NotSays(s.m_op1.exp)
        [] s.m_cond = "IsNotZero" ->
             IF ExpSays(s.m_op1.exp) = Nothing THEN Nothing
             ELSE Bit(ExpSays(s.m_op1.exp) # 0)
        [] s.m_cond \in { "Equal", "Different", "LessThan", "GreaterEqualThan",
                          "GreaterThan", "LessEqualThan" } ->
             IF Nothing \in {a, b} THEN Nothing ELSE Bit(Holds(s.m_cond, a, b))
        [] OTHER -> Nothing

-----------------------------------------------------------------------------
(***************************************************************************)
(* Words on Ethereum, and what the decompiler can know of them.            *)
(***************************************************************************)
\* `from' says how a word came to be, `id' at which step, `slots' whether its
\* text, or the condition it is, names a slot of the storage.
EvmWord == [ value : Word, id : Nat, slots : BOOLEAN,
             from : { "constant", "folded", "argument", "slot", "sum",
                      "compared", "other" } ]

Constants == {"constant", "folded"}
Reads     == {"argument", "slot"}
Named     == Constants \cup Reads

NewWord(v, f, sl) == [value |-> v, from |-> f, id |-> steps', slots |-> sl]

NoTest == [id |-> 0, clean |-> FALSE, slots |-> FALSE]

\* A sample value by which the decompiler does not take a register for a mask.
Ordinary(v) == v \notin {address_mask, endianMul}

\* The word at place j is the mask of addresses, and that at i an address under it,
\* as is the sample value the decompiler has for it.
Unmasks(i, j) ==
  /\ evm[j].value = address_mask /\ evm[i].from \in Reads
  /\ \A v \in {evm[i].value, m_stack[i].value} : OnEthereum("AND", address_mask, v) = v

\* What an instruction makes of the two words on top.
FromOf(op) ==
  LET a == evm[1].from  b == evm[2].from
  IN  CASE op \in Comparison ->
             IF {a, b} \subseteq Named THEN "compared" ELSE "other"
        [] op \notin Comparison /\ {a, b} \subseteq Constants -> "folded"
        [] op = "AND" /\ a = "constant" /\ Unmasks(2, 1)      -> b
        [] op = "AND" /\ b \in Constants /\ Unmasks(1, 2)     -> a
        [] /\ op \in Arithmetic /\ a \in Reads /\ b \in Named
           /\ b \in Constants => evm[2].value # endianMul     -> "sum"
        [] OTHER -> "other"

-----------------------------------------------------------------------------
(***************************************************************************)
(* executeBlock and executeInstruction.                                    *)
(***************************************************************************)
NoLine == [what |-> "none", says |-> Nothing, is |-> Nothing, trusted |-> FALSE]

RegisterOf(t, data) ==
  [ value |-> IF t.of = "arg" THEN data[t.at] ELSE t.at, exp |-> NoExp,
    name  |-> IF t.of = "hex" THEN Unnamed ELSE t,
    type  |-> CASE t.of = "hex" -> "Constant" [] t.of = "arg" -> "UserInput"
                [] t.of = "store" -> "StorageType" ]

WordOf(t, r) ==
  [ value |-> Says(t), id |-> 0, slots |-> t.of = "store",
    from  |-> CASE t.of = "hex" -> "constant"
                [] t.of = "arg" -> IF Ordinary(r.value) THEN "argument" ELSE "other"
                [] t.of = "store" -> IF Ordinary(r.value) THEN "slot" ELSE "other" ]

\* Earlier blocks have left constants, arguments and slots.
Init ==
  /\ code \in Codes
  /\ \E w \in Worlds :
       m_data = w.m_data /\ calldata = w.calldata /\ storage = w.storage
  /\ \E b \in Stacks :
       /\ m_stack = [ i \in 1 .. Len(b) |-> RegisterOf(b[i], m_data) ]
       /\ evm = [ i \in 1 .. Len(b) |-> WordOf(b[i], m_stack[i]) ]
  /\ ifStmt = NewStatement /\ status = "run" /\ printed = NoLine
  /\ test = NoTest /\ strayed = FALSE /\ steps = 0

\* An instruction that takes k operands.
Begin(op, k) ==
  /\ status = "run" /\ code # << >> /\ op \in Head(code) /\ Len(m_stack) >= k
  /\ code' = Tail(code) /\ steps' = steps + 1
  /\ UNCHANGED << m_data, calldata >>

Pops(s, k) == SubSeq(s, k + 1, Len(s))

\* Once an instruction was passed over, the stacks have nothing in common.
OnEvm(s) == evm' = IF strayed THEN evm ELSE s

Quiet == UNCHANGED << ifStmt, status, printed, storage, test, strayed >>

Push ==
  \E v \in Pushes :
    /\ Begin("PUSH", 0)
    /\ m_stack' = << RegisterOf([of |-> "hex", at |-> v], m_data) >> \o m_stack
    /\ OnEvm(<< NewWord(v, "constant", FALSE) >> \o evm)
    /\ Quiet

CallDataLoad ==
  /\ Begin("CALLDATALOAD", 1)
  /\ LET k == m_stack[1].value
     IN  /\ m_stack' = [m_stack EXCEPT ![1] =
                          RegisterOf([of |-> "arg", at |-> k], m_data)]
         /\ OnEvm([evm EXCEPT ![1] =
              NewWord(calldata[@.value],
                      IF @.from \in Constants /\ Ordinary(m_data[k])
                        THEN "argument" ELSE "other", FALSE)])
  /\ Quiet

\* The register keeps the number of the slot for its value, and its expression.
FromSlot(r) ==
  [ value |-> r.value, name |-> [of |-> "store", at |-> r.value], exp |-> r.exp,
    type |-> "StorageType" ]

SLoad ==
  /\ Begin("SLOAD", 1)
  /\ m_stack' = [m_stack EXCEPT ![1] = FromSlot(@)]
  /\ OnEvm([evm EXCEPT ![1] =
       NewWord(storage[@.value],
               IF @.from = "constant" /\ Ordinary(m_stack[1].value)
                 THEN "slot" ELSE "other", TRUE)])
  /\ Quiet

\* Mutation: a name comes before an expression.
StoreSays_NameFirst(r) ==
  IF IsConstant(r) THEN r.value
  ELSE IF r.name # Unnamed THEN Says(r.name) ELSE ExpSays(r.exp)

\* What is put behind `=': a constant in hex, otherwise an expression or the name.
StoreSays(r) ==
  IF IsConstant(r) THEN r.value
  ELSE IF r.exp # NoExp THEN ExpSays(r.exp) ELSE Says(r.name)

\* Words whose text names a slot say something else when the storage has changed.
Outdated(w) ==
  [ value |-> w.value, id |-> w.id, slots |-> w.slots,
    from |-> IF w.slots THEN "other" ELSE w.from ]

SStore ==
  /\ Begin("SSTORE", 2)
  /\ m_stack' = Pops(m_stack, 2)
  /\ printed' = [ what |-> "store", says |-> StoreSays(m_stack[2]),
                  is |-> IF strayed THEN Nothing ELSE evm[2].value,
                  trusted |-> ~strayed /\ evm[2].from # "other" ]
  /\ storage' = IF strayed THEN storage
                ELSE [storage EXCEPT ![evm[1].value] = evm[2].value]
  /\ OnEvm([ i \in 1 .. Len(evm) - 2 |-> Outdated(evm[i + 2]) ])
  /\ test' = [test EXCEPT !.clean = @ /\ ~test.slots]
  /\ UNCHANGED << ifStmt, status, strayed >>

Dup ==
  \E n \in 1 .. 16 :
    /\ Begin("DUP", n)
    /\ m_stack' = << m_stack[n] >> \o m_stack
    /\ OnEvm(<< evm[n] >> \o evm)
    /\ Quiet

Swapped(s, n) == [s EXCEPT ![1] = s[n + 1], ![n + 1] = s[1]]

Swap ==
  \E n \in 1 .. 16 :
    /\ Begin("SWAP", n + 1)
    /\ m_stack' = Swapped(m_stack, n)
    /\ OnEvm(Swapped(evm, n))
    /\ Quiet

Pop ==
  /\ Begin("POP", 1)
  /\ m_stack' = Pops(m_stack, 1)
  /\ OnEvm(Pops(evm, 1))
  /\ Quiet

-----------------------------------------------------------------------------
(***************************************************************************)
(* Arithmetic and tests.                                                   *)
(***************************************************************************)
\* Square and multiply: [n] is the state of the loop after n turns.
exp256(base, exponent) ==
  LET loop[n \in 0 .. Width] ==
        IF n = 0 THEN [result |-> 1, base |-> base, exponent |-> exponent]
        ELSE LET l == loop[n - 1]
             IN  IF l.exponent = 0 THEN l
                 ELSE [ result   |-> IF l.exponent % 2 = 1
                                       THEN Wrap(l.result * l.base) ELSE l.result,
                        base     |-> Wrap(l.base * l.base),
                        exponent |-> l.exponent \div 2 ]
  IN  loop[Width].result

\* The expression an instruction with two operands gives to the first.
Context(op, s) ==
  LET first  == getDismangledRegisterName(s[1])
      second == getDismangledRegisterName(s[2])
  IN  IF op \in Logic THEN s[1].exp
      ELSE IF op \in Arithmetic /\ s[1].value = endianMul /\ Tainted(s[2])
        THEN [op |-> "is", a |-> second, b |-> Unnamed]
      ELSE IF op \in Arithmetic /\ s[2].value = endianMul /\ Tainted(s[1])
        THEN [op |-> "is", a |-> first, b |-> Unnamed]
      ELSE [op |-> op, a |-> first, b |-> second]

WithExp(r, e) == [value |-> r.value, name |-> r.name, exp |-> e, type |-> r.type]

InContext(op) == [m_stack EXCEPT ![1] = WithExp(@, Context(op, m_stack))]

\* What the proofs take from arithmetic, and the run evaluates: exponentiation by
\* squares is exponentiation, and bits of words make words.
ASSUME NumbersAssumption ==
  /\ Modulus \in Nat /\ Modulus > 1
  /\ \A a, b \in Word :
       /\ { OnEthereum(op, a, b) : op \in {"EXP", "AND", "OR"} } \subseteq Word
       /\ exp256(a, b) = OnEthereum("EXP", a, b)

\* Mutation: the second operand comes first.
Computed_Swapped(op, a, b) ==
  IF op = "EXP" THEN exp256(b, a) ELSE OnEthereum(op, b, a)

Computed(op, a, b) == IF op = "EXP" THEN exp256(a, b) ELSE OnEthereum(op, a, b)

\* The result is the first operand with another value, and takes the place of the
\* second; a mask takes type and name of what it masks.
Masks(op, v) ==
  \/ op = "MUL" /\ v = endianMul
  \/ op = "AND" /\ v = address_mask

Result(op, s) ==
  LET named == IF Masks(op, s[1].value) THEN s[2] ELSE s[1]
  IN  [ value |-> Computed(op, s[1].value, s[2].value), exp |-> s[1].exp,
        type |-> named.type, name |-> named.name ]

EvmBinary(op) ==
  OnEvm(<< NewWord(OnEthereum(op, evm[1].value, evm[2].value),
                   FromOf(op), evm[1].slots \/ evm[2].slots) >>
        \o Pops(evm, 2))

Binary ==
  \E op \in Arithmetic \cup Logic :
    /\ Begin(op, 2)
    /\ ~(op = "MOD" /\ m_stack[2].value = 0)
    /\ LET s == InContext(op)
       IN  m_stack' = << Result(op, s) >> \o Pops(s, 2)
    /\ EvmBinary(op)
    /\ Quiet

\* Division by zero: the library throws, and nothing catches.
ModByZero ==
  /\ Begin("MOD", 2) /\ m_stack[2].value = 0
  /\ status' = "thrown"
  /\ UNCHANGED << m_stack, ifStmt, printed, storage, evm, test, strayed >>

\* Mutation: the complement of a signed number.
Complement_Signed(v) == -1 - v

Complement(v) == Modulus - 1 - v

WithValue(r, v) == [value |-> v, name |-> r.name, exp |-> r.exp, type |-> r.type]

Not ==
  /\ Begin("NOT", 1)
  /\ m_stack' = [m_stack EXCEPT ![1] = WithValue(@, Complement(@.value))]
  /\ OnEvm([evm EXCEPT ![1] =
       NewWord(Modulus - 1 - @.value,
               IF @.from \in Constants THEN "folded" ELSE "other", @.slots)])
  /\ Quiet

Flag(v, n, e) == [value |-> v, name |-> n, exp |-> e, type |-> "RegTypeFlag"]

\* The result of a comparison keeps the name of the second operand.
CompareTwo ==
  \E op \in {"LT", "GT", "EQ"} :
    /\ Begin(op, 2)
    /\ LET s == InContext(op)
       IN  /\ ifStmt' = setCondition(op, s)
           /\ m_stack' = << Flag(Bit(Compare(op, s[1].value, s[2].value)),
                                 s[2].name, s[1].exp) >> \o Pops(s, 2)
    /\ EvmBinary(op)
    /\ test' = IF strayed THEN test
               ELSE [ id |-> steps', slots |-> evm[1].slots \/ evm[2].slots,
                      clean |-> FromOf(op) # "other" ]
    /\ UNCHANGED << status, printed, storage, strayed >>

\* Not implemented, but setCondition takes them for tests.
CompareSigned ==
  \E op \in {"SLT", "SGT"} :
    /\ Begin(op, 2)
    /\ m_stack' = InContext(op)
    /\ ifStmt' = setCondition(op, InContext(op))
    /\ strayed' = TRUE
    /\ UNCHANGED << status, printed, storage, evm, test >>

Asked(r) ==
  IF r.exp # NoExp THEN r.exp
  ELSE [op |-> "is", a |-> getDismangledRegisterName(r), b |-> Unnamed]

IsZero ==
  /\ Begin("ISZERO", 1)
  /\ LET s == [m_stack EXCEPT ![1] = WithExp(@, Asked(@))]
     IN  /\ ifStmt' = setCondition("ISZERO", s)
         /\ m_stack' = [s EXCEPT ![1] = Flag(Bit(@.value = 0), @.name, @.exp)]
  /\ OnEvm([evm EXCEPT ![1] = NewWord(Bit(@.value = 0), "other", @.slots)])
  /\ test' = IF strayed THEN test
             ELSE [ id |-> steps', slots |-> evm[1].slots,
                    clean |-> IF test.id = 0
                      THEN evm[1].from \in {"constant", "argument", "slot", "compared"}
                      ELSE test.clean /\ evm[1].id = test.id ]
  /\ UNCHANGED << status, printed, storage, strayed >>

NewBlock == ifStmt' = NewStatement /\ test' = NoTest

\* The block is over and becomes an `if' around the block it branches to.
Jumpi ==
  /\ Begin("JUMPI", 2)
  /\ m_stack' = Pops(m_stack, 2)
  /\ printed' = [ what |-> "if", says |-> StatementSays(ifStmt),
                  is |-> IF strayed THEN Nothing ELSE Bit(evm[2].value # 0),
                  trusted |-> ~strayed /\ test.clean /\ evm[2].id = test.id ]
  /\ NewBlock
  /\ OnEvm(Pops(evm, 2))
  /\ UNCHANGED << status, storage, strayed >>

Jumpdest ==
  /\ Begin("JUMPDEST", 0)
  /\ NewBlock
  /\ UNCHANGED << m_stack, status, printed, storage, evm, strayed >>

Next ==
  \/ Push \/ CallDataLoad \/ SLoad \/ SStore \/ Dup \/ Swap \/ Pop \/ Binary
  \/ ModByZero \/ Not \/ CompareTwo \/ CompareSigned \/ IsZero \/ Jumpi
  \/ Jumpdest

Spec == Init /\ [][Next]_vars

-----------------------------------------------------------------------------
(***************************************************************************)
(* Properties.                                                             *)
(***************************************************************************)
Statement == [m_cond : Conds, m_op1 : Register, m_op2 : Register]

TypeOK ==
  /\ code \in Seq(SUBSET Insts)
  /\ m_stack \in Seq(Register) /\ ifStmt \in Statement
  /\ {m_data, calldata, storage} \subseteq [Word -> Word]
  /\ status \in {"run", "thrown"}
  /\ printed \in [ what : {"none", "if", "store"}, trusted : BOOLEAN,
                   says : Word \cup {Nothing}, is : Word \cup {Nothing} ]
  /\ evm \in Seq(EvmWord)
  /\ test \in [id : Nat, clean : BOOLEAN, slots : BOOLEAN]
  /\ strayed \in BOOLEAN /\ steps \in Nat

\* Whatever is computed on the way, also by EXP and by masks of addresses, the text
\* of a constant, of an argument and of a slot has the value the word has on
\* Ethereum (VMState.cpp:214-219, 258-268, 436-509, 1180-1200).
NamesRight ==
  ~strayed => /\ Len(m_stack) = Len(evm)
              /\ \A i \in 1 .. Len(evm) : evm[i].from \in Named =>
                   Says(getDismangledRegisterName(m_stack[i])) = evm[i].value

\* `if (c) {' is printed around what runs if the contract's condition holds, as long
\* as the block's last test decides, and is a comparison of constants, arguments
\* and slots not stored to since, or an ISZERO of those, of such a comparison
\* in an earlier block, or of the test before it (Statement.h:79-158).
ConditionFaithful ==
  printed.what = "if" /\ printed.trusted => printed.says = printed.is

\* What `store[...] = e;' says is stored there, if it is a constant, an argument,
\* a slot, one operation on the last two, or a comparison
\* (VMState.cpp:990-1009, Contract.cpp:992-1016).
StoreFaithful ==
  printed.what = "store" /\ printed.trusted => printed.says = printed.is
=============================================================================
