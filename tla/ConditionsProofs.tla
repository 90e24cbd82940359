-------------------------- MODULE ConditionsProofs ---------------------------
(***************************************************************************)
(* Proofs about Conditions, for words of every width, every code, every    *)
(* stack left by earlier blocks and every input.                           *)
(***************************************************************************)
EXTENDS Conditions, SequenceTheorems, TLAPS

-----------------------------------------------------------------------------
(***************************************************************************)
(* Sequences.                                                              *)
(***************************************************************************)
\* One element more in front.
LEMMA PushFacts ==
  ASSUME NEW S, NEW s \in Seq(S), NEW v \in S
  PROVE  /\ << v >> \o s \in Seq(S)
         /\ Len(<< v >> \o s) = Len(s) + 1
         /\ (<< v >> \o s)[1] = v
         /\ \A i \in 1 .. Len(s) : (<< v >> \o s)[i + 1] = s[i]
  BY SMT

\* popStack leaves a stack of what was there.
LEMMA PopFacts ==
  ASSUME NEW S, NEW s \in Seq(S), NEW k \in Nat, k <= Len(s)
  PROVE  /\ Pops(s, k) \in Seq(S)
         /\ Len(Pops(s, k)) = Len(s) - k
         /\ \A i \in 1 .. Len(s) - k : Pops(s, k)[i] = s[i + k]
  BY SMT DEF Pops

\* Another element on top.
LEMMA TopFacts ==
  ASSUME NEW S, NEW s \in Seq(S), NEW v \in S, Len(s) >= 1
  PROVE  /\ [s EXCEPT ![1] = v] \in Seq(S)
         /\ Len([s EXCEPT ![1] = v]) = Len(s)
         /\ [s EXCEPT ![1] = v][1] = v
         /\ \A i \in 2 .. Len(s) : [s EXCEPT ![1] = v][i] = s[i]
  BY SMT

\* Two elements changed places.
LEMMA SwappedFacts ==
  ASSUME NEW S, NEW s \in Seq(S), NEW n \in Nat, n >= 1, Len(s) >= n + 1
  PROVE  /\ Swapped(s, n) \in Seq(S)
         /\ Len(Swapped(s, n)) = Len(s)
         /\ Swapped(s, n)[1] = s[n + 1]
         /\ Swapped(s, n)[n + 1] = s[1]
         /\ \A i \in 2 .. Len(s) : i # n + 1 => Swapped(s, n)[i] = s[i]
  BY SMT DEF Swapped

\* An element of a sequence.
LEMMA ElementFacts ==
  ASSUME NEW S, NEW s \in Seq(S)
  PROVE  Len(s) \in Nat /\ \A i \in 1 .. Len(s) : s[i] \in S
  BY SMT

-----------------------------------------------------------------------------
(***************************************************************************)
(* Words.                                                                  *)
(***************************************************************************)
\* Zero and one are words, and nothing is none.
LEMMA WordFacts ==
  /\ Modulus \in Nat /\ Modulus > 1
  /\ 0 \in Word /\ 1 \in Word /\ Nothing \notin Word
  /\ \A v \in Word : v \in Nat /\ Complement(v) \in Word /\ Complement(v) = Modulus - 1 - v
  BY NumbersAssumption DEF Word, Nothing, Complement

\* A truth value is a word.
LEMMA BitFacts ==
  ASSUME NEW b
  PROVE  /\ Bit(b) \in Word /\ Bit(b) \in {0, 1}
         /\ b => Bit(b) = 1
         /\ ~b => Bit(b) = 0
  BY WordFacts DEF Bit

\* What is reduced is a word.
LEMMA WrapFacts ==
  ASSUME NEW n \in Int
  PROVE  Wrap(n) \in Word
  BY NumbersAssumption DEF Wrap, Word

\* What each operation does.
LEMMA OperationFacts ==
  ASSUME NEW a, NEW b
  PROVE  /\ OnEthereum("ADD", a, b) = Wrap(a + b)
         /\ OnEthereum("MUL", a, b) = Wrap(a * b)
         /\ OnEthereum("SUB", a, b) = Wrap(a - b)
         /\ OnEthereum("DIV", a, b) = IF b = 0 THEN 0 ELSE a \div b
         /\ OnEthereum("MOD", a, b) = IF b = 0 THEN 0 ELSE a % b
         /\ \A op \in Comparison : OnEthereum(op, a, b) = Bit(Compare(op, a, b))
<1>1. OnEthereum("ADD", a, b) = Wrap(a + b)
  BY Zenon DEF OnEthereum, Comparison
<1>2. OnEthereum("MUL", a, b) = Wrap(a * b)
  BY Zenon DEF OnEthereum, Comparison
<1>3. OnEthereum("SUB", a, b) = Wrap(a - b)
  BY Zenon DEF OnEthereum, Comparison
<1>4. OnEthereum("DIV", a, b) = IF b = 0 THEN 0 ELSE a \div b
  BY Zenon DEF OnEthereum, Comparison
<1>5. OnEthereum("MOD", a, b) = IF b = 0 THEN 0 ELSE a % b
  BY Zenon DEF OnEthereum, Comparison
<1>6. ASSUME NEW op \in Comparison
      PROVE  OnEthereum(op, a, b) = Bit(Compare(op, a, b))
  BY Zenon DEF OnEthereum, Comparison
<1>7. QED
  BY <1>1, <1>2, <1>3, <1>4, <1>5, <1>6

\* Every operation makes a word of words.
LEMMA WordsClosed ==
  ASSUME NEW op \in Arithmetic \cup Logic \cup Comparison,
         NEW a \in Word, NEW b \in Word
  PROVE  OnEthereum(op, a, b) \in Word
<1>0. a \in Nat /\ b \in Nat
  BY WordFacts
<1>1. CASE op \in {"EXP", "AND", "OR"}
  BY <1>1, NumbersAssumption
<1>2. CASE op = "ADD"
  BY <1>0, <1>2, WrapFacts, OperationFacts
<1>3. CASE op = "MUL"
  <2>1. a * b \in Int
    BY <1>0
  <2>2. QED
    BY <1>3, <2>1, WrapFacts, OperationFacts
<1>4. CASE op = "SUB"
  BY <1>0, <1>4, WrapFacts, OperationFacts
<1>5. CASE op = "DIV"
  <2>1. CASE b = 0
    BY <1>5, <2>1, WordFacts, OperationFacts
  <2>2. CASE b # 0
    <3>1. a \div b \in Nat /\ a \div b <= a
      BY <1>0, <2>2
    <3>2. a \div b \in Word
      BY <3>1, NumbersAssumption DEF Word
    <3>3. QED
      BY <1>5, <2>2, <3>2, OperationFacts
  <2>3. QED
    BY <2>1, <2>2
<1>6. CASE op = "MOD"
  <2>1. CASE b = 0
    BY <1>6, <2>1, WordFacts, OperationFacts
  <2>2. CASE b # 0
    <3>1. a % b \in Nat /\ a % b < b
      BY <1>0, <2>2
    <3>2. a % b \in Word
      BY <3>1, NumbersAssumption DEF Word
    <3>3. QED
      BY <1>6, <2>2, <3>2, OperationFacts
  <2>3. QED
    BY <2>1, <2>2
<1>7. CASE op \in Comparison
  <2>1. OnEthereum(op, a, b) = Bit(Compare(op, a, b))
    BY <1>7, OperationFacts
  <2>2. QED
    BY <2>1, BitFacts
<1>8. QED
  BY <1>1, <1>2, <1>3, <1>4, <1>5, <1>6, <1>7 DEF Arithmetic, Logic

-----------------------------------------------------------------------------
(***************************************************************************)
(* Texts, registers and statements are of their types.                     *)
(***************************************************************************)
Inputs == {m_data, calldata, storage} \subseteq [Word -> Word]

\* An atom is the text that its two parts make.
LEMMA AtomFacts ==
  ASSUME NEW k \in Word
  PROVE  /\ [of |-> "hex", at |-> k] \in Atoms /\ [of |-> "arg", at |-> k] \in Atoms
         /\ [of |-> "store", at |-> k] \in Atoms
         /\ Unnamed \in Text /\ Unnamed \notin Atoms /\ Atoms \subseteq Text
         /\ NoExp \in Exp
  BY SMT DEF Atoms, Text, Unnamed, NoExp, Exp

\* A register is printed as some text.
LEMMA DismangledTyped ==
  ASSUME NEW r \in Register
  PROVE  getDismangledRegisterName(r) \in Text
<1>1. r.value \in Word /\ r.name \in Text
  BY DEF Register
<1>2. QED
  BY <1>1, AtomFacts DEF getDismangledRegisterName

\* What a text says is a word, unless it says nothing.
LEMMA SaysTyped ==
  ASSUME Inputs, NEW t \in Text
  PROVE  /\ Says(t) \in Word \cup {Nothing}
         /\ t.of # "var" => Says(t) \in Word
<1>1. calldata \in [Word -> Word] /\ storage \in [Word -> Word]
  BY DEF Inputs
<1>2. t \in Atoms \/ (t.of = "var")
  BY DEF Text
<1>3. CASE t \in Atoms
  <2>1. t.of \in {"hex", "arg", "store"} /\ t.at \in Word
    BY <1>3 DEF Atoms
  <2>2. CASE t.of = "hex"
    BY <2>1, <2>2 DEF Says
  <2>3. CASE t.of = "arg"
    BY <1>1, <2>1, <2>3 DEF Says
  <2>4. CASE t.of = "store"
    BY <1>1, <2>1, <2>4 DEF Says
  <2>5. QED
    BY <2>1, <2>2, <2>3, <2>4
<1>4. CASE t.of = "var"
  BY <1>4 DEF Says
<1>5. QED
  BY <1>2, <1>3, <1>4

\* So is what an expression says.
LEMMA ExpSaysTyped ==
  ASSUME Inputs, NEW e \in Exp
  PROVE  ExpSays(e) \in Word \cup {Nothing}
<1>1. /\ e.a \in Text /\ e.b \in Text
      /\ e.op \in Arithmetic \cup Comparison \cup {"", "is"}
  BY DEF Exp
<1>2. Says(e.a) \in Word \cup {Nothing} /\ Says(e.b) \in Word \cup {Nothing}
  BY <1>1, SaysTyped
<1>3. CASE e.op \in {"", "is"}
  BY <1>2, <1>3 DEF ExpSays
<1>4. CASE e.op \notin {"", "is"} /\ Says(e.a) \in Word /\ Says(e.b) \in Word
  <2>1. OnEthereum(e.op, Says(e.a), Says(e.b)) \in Word
    BY <1>1, <1>4, WordsClosed
  <2>2. QED
    BY <1>4, <2>1 DEF ExpSays
<1>5. CASE e.op \notin {"", "is"} /\ ~(Says(e.a) \in Word /\ Says(e.b) \in Word)
  BY <1>2, <1>5 DEF ExpSays
<1>6. QED
  BY <1>1, <1>3, <1>4, <1>5

\* And what `!' before it does.
LEMMA NotSaysTyped ==
  ASSUME Inputs, NEW e \in Exp
  PROVE  NotSays(e) \in Word \cup {Nothing}
<1>1. /\ e.a \in Text /\ e.b \in Text
      /\ e.op \in Arithmetic \cup Comparison \cup {"", "is"}
  BY DEF Exp
<1>2. Says(e.a) \in Word \cup {Nothing} /\ Says(e.b) \in Word \cup {Nothing}
  BY <1>1, SaysTyped
<1>3. CASE e.op \in Arithmetic /\ Nothing \notin {Says(e.a), Says(e.b)}
  <2>1. Bit(Says(e.a) = 0) \in Word /\ Says(e.b) \in Word
    BY <1>2, <1>3, BitFacts
  <2>2. OnEthereum(e.op, Bit(Says(e.a) = 0), Says(e.b)) \in Word
    BY <1>3, <2>1, WordsClosed
  <2>3. QED
    BY <1>3, <2>2 DEF NotSays
<1>4. CASE ~(e.op \in Arithmetic /\ Nothing \notin {Says(e.a), Says(e.b)})
  <2>1. Bit(ExpSays(e) = 0) \in Word
    BY BitFacts
  <2>2. QED
    BY <1>4, <2>1 DEF NotSays
<1>5. QED
  BY <1>3, <1>4

\* The registers the instructions make.
LEMMA RegistersTyped ==
  ASSUME NEW r \in Register, NEW v \in Word, NEW n \in Text, NEW e \in Exp
  PROVE  /\ WithExp(r, e) \in Register /\ WithValue(r, v) \in Register
         /\ Flag(v, n, e) \in Register /\ FromSlot(r) \in Register
<1>1. /\ r.value \in Word /\ r.name \in Text /\ r.exp \in Exp
      /\ r.type \in {"Constant", "UserInput", "StorageType", "RegTypeFlag"}
  BY DEF Register
<1>2. [of |-> "store", at |-> r.value] \in Text
  BY <1>1, AtomFacts
<1>3. QED
  BY <1>1, <1>2 DEF WithExp, WithValue, Flag, FromSlot, Register

\* A register that is read.
LEMMA RegisterOfTyped ==
  ASSUME NEW t \in Atoms, NEW data \in [Word -> Word]
  PROVE  /\ RegisterOf(t, data) \in Register
         /\ RegisterOf(t, data).exp = NoExp
         /\ t.of = "hex" => /\ RegisterOf(t, data).value = t.at
                            /\ RegisterOf(t, data).type = "Constant"
         /\ t.of # "hex" => RegisterOf(t, data).name = t
         /\ t.of = "arg" => /\ RegisterOf(t, data).value = data[t.at]
                            /\ RegisterOf(t, data).type = "UserInput"
         /\ t.of = "store" => /\ RegisterOf(t, data).value = t.at
                              /\ RegisterOf(t, data).type = "StorageType"
<1>1. t.of \in {"hex", "arg", "store"} /\ t.at \in Word /\ t \in Text
  BY DEF Atoms, Text
<1>2. NoExp \in Exp /\ Unnamed \in Text
  BY <1>1, AtomFacts
<1>3. CASE t.of = "hex"
  BY <1>1, <1>2, <1>3 DEF RegisterOf, Register
<1>4. CASE t.of = "arg"
  BY <1>1, <1>2, <1>4 DEF RegisterOf, Register
<1>5. CASE t.of = "store"
  BY <1>1, <1>2, <1>5 DEF RegisterOf, Register
<1>6. QED
  BY <1>1, <1>3, <1>4, <1>5

Binaries == Arithmetic \cup Logic \cup Comparison

\* The expression of an instruction with two operands.
LEMMA ContextTyped ==
  ASSUME NEW op \in Binaries, NEW s \in Seq(Register), Len(s) >= 2
  PROVE  Context(op, s) \in Exp
<1>1. s[1] \in Register /\ s[2] \in Register
  BY ElementFacts
<1>2. /\ getDismangledRegisterName(s[1]) \in Text
      /\ getDismangledRegisterName(s[2]) \in Text
      /\ s[1].exp \in Exp /\ Unnamed \in Text
  BY <1>1, DismangledTyped, AtomFacts, WordFacts DEF Register
<1>3. op \notin Logic => op \in Arithmetic \cup Comparison \cup {"", "is"}
  BY DEF Binaries
<1>4. QED
  BY <1>2, <1>3 DEF Context, Exp

\* The values the decompiler computes are those of Ethereum.
LEMMA ComputedFacts ==
  ASSUME NEW op \in Binaries, NEW a \in Word, NEW b \in Word
  PROVE  Computed(op, a, b) = OnEthereum(op, a, b) /\ Computed(op, a, b) \in Word
<1>1. Computed(op, a, b) = OnEthereum(op, a, b)
  BY NumbersAssumption DEF Computed
<1>2. QED
  BY <1>1, WordsClosed DEF Binaries

\* The register of a result.
LEMMA ResultTyped ==
  ASSUME NEW op \in Arithmetic \cup Logic, NEW s \in Seq(Register), Len(s) >= 2
  PROVE  Result(op, s) \in Register
<1>1. s[1] \in Register /\ s[2] \in Register
  BY ElementFacts
<1>2. Computed(op, s[1].value, s[2].value) \in Word
  BY <1>1, ComputedFacts DEF Binaries, Register
<1>3. QED
  BY <1>1, <1>2 DEF Result, Register

\* The expression ISZERO asks about.
LEMMA AskedTyped ==
  ASSUME NEW r \in Register
  PROVE  Asked(r) \in Exp
<1>1. r.exp \in Exp /\ getDismangledRegisterName(r) \in Text /\ Unnamed \in Text
  BY DismangledTyped, AtomFacts, WordFacts DEF Register
<1>2. QED
  BY <1>1 DEF Asked, Exp

-----------------------------------------------------------------------------
(***************************************************************************)
(* Conditions.                                                             *)
(***************************************************************************)
Compared == { "Equal", "Different", "LessThan", "GreaterEqualThan",
              "GreaterThan", "LessEqualThan" }
Asking   == {"IsZero", "IsNotZero"}

\* The conditions there are.
LEMMA CondsAre ==
  Conds = {Undefined} \cup Compared \cup Asking \cup
            { "SignedLessThan", "SignedGreaterEqualThan", "SignedGreaterThan",
              "SignedLessEqualThan" }
  BY SMT DEF Conds, Negations, Compared, Asking

\* The negation of each condition.
LEMMA NegationFacts ==
  /\ \A c \in Conds : NegateCondition(c) \in Conds
  /\ \A c \in Conds \ {Undefined} : NegateCondition(c) # Undefined
  /\ NegateCondition("Equal") = "Different"
  /\ NegateCondition("Different") = "Equal"
  /\ NegateCondition("IsZero") = "IsNotZero"
  /\ NegateCondition("IsNotZero") = "IsZero"
  /\ NegateCondition("LessThan") = "GreaterEqualThan"
  /\ NegateCondition("GreaterEqualThan") = "LessThan"
  /\ NegateCondition("GreaterThan") = "LessEqualThan"
  /\ NegateCondition("LessEqualThan") = "GreaterThan"
<1>1. ASSUME NEW c \in Conds \ {Undefined}
      PROVE  \E d \in Conds : << c, d >> \in Negations \/ << d, c >> \in Negations
  <2>1. PICK p \in Negations : c = p[1] \/ c = p[2]
    BY <1>1 DEF Conds
  <2>2. p[1] \in Conds /\ p[2] \in Conds
    BY DEF Conds
  <2>3. << p[1], p[2] >> \in Negations
    BY DEF Negations
  <2>4. QED
    BY <2>1, <2>2, <2>3
<1>2. ASSUME NEW c \in Conds \ {Undefined}
      PROVE  /\ NegateCondition(c) \in Conds
             /\ << c, NegateCondition(c) >> \in Negations \/ << NegateCondition(c), c >> \in Negations
  BY <1>1, <1>2 DEF NegateCondition
<1>3. \A p \in Negations : p[1] # Undefined /\ p[2] # Undefined
  BY DEF Negations, Undefined
<1>4. \A c \in Conds : NegateCondition(c) \in Conds
  BY <1>2 DEF NegateCondition
<1>5. ASSUME NEW c \in Conds \ {Undefined}
      PROVE  NegateCondition(c) # Undefined
  <2>1. ASSUME NegateCondition(c) = Undefined PROVE FALSE
    BY <1>2, <1>3, <2>1
  <2>2. QED
    BY <2>1
<1>6. \A c \in Compared \cup Asking : c \in Conds \ {Undefined}
  BY CondsAre DEF Compared, Asking, Undefined
<1>7. /\ NegateCondition("Equal") = "Different"
      /\ NegateCondition("Different") = "Equal"
  BY <1>2, <1>6 DEF Compared, Negations
<1>8. /\ NegateCondition("IsZero") = "IsNotZero"
      /\ NegateCondition("IsNotZero") = "IsZero"
  BY <1>2, <1>6 DEF Asking, Negations
<1>9. /\ NegateCondition("LessThan") = "GreaterEqualThan"
      /\ NegateCondition("GreaterEqualThan") = "LessThan"
  BY <1>2, <1>6 DEF Compared, Negations
<1>10. /\ NegateCondition("GreaterThan") = "LessEqualThan"
       /\ NegateCondition("LessEqualThan") = "GreaterThan"
  BY <1>2, <1>6 DEF Compared, Negations
<1>11. QED
  BY <1>4, <1>5, <1>7, <1>8, <1>9, <1>10

\* A new statement has no condition.
LEMMA NewStatementTyped == NewStatement \in Statement /\ NewStatement.m_cond = Undefined
<1>1. NoRegister \in Register
  BY AtomFacts, WordFacts DEF NoRegister, Register
<1>2. Undefined \in Conds
  BY DEF Conds
<1>3. QED
  BY <1>1, <1>2 DEF NewStatement, Statement

\* What a test makes of the statement.
LEMMA ConditionTyped ==
  ASSUME ifStmt \in Statement, NEW s \in Seq(Register),
         NEW op \in {"LT", "GT", "EQ", "SLT", "SGT", "ISZERO"},
         Len(s) >= 1, op # "ISZERO" => Len(s) >= 2
  PROVE  /\ setCondition(op, s) \in Statement
         /\ setCondition(op, s).m_cond # Undefined
<1>1. s[1] \in Register /\ (op # "ISZERO" => s[2] \in Register)
  BY ElementFacts
<1>2. /\ ifStmt.m_cond \in Conds /\ ifStmt.m_op1 \in Register /\ ifStmt.m_op2 \in Register
  BY DEF Statement
<1>3. CASE op # "ISZERO"
  <2>1. CondOf[op] \in Conds /\ CondOf[op] # Undefined
    BY <1>3, CondsAre DEF CondOf, Compared, Undefined
  <2>2. QED
    BY <1>1, <1>3, <2>1 DEF setCondition, Statement
<1>4. CASE op = "ISZERO" /\ ifStmt.m_cond = Undefined
  <2>1. "IsZero" \in Conds /\ "IsZero" # Undefined
    BY CondsAre DEF Asking, Undefined
  <2>2. QED
    BY <1>1, <1>2, <1>4, <2>1 DEF setCondition, Statement
<1>5. CASE op = "ISZERO" /\ ifStmt.m_cond # Undefined
  <2>1. NegateCondition(ifStmt.m_cond) \in Conds /\ NegateCondition(ifStmt.m_cond) # Undefined
    BY <1>2, <1>5, NegationFacts
  <2>2. QED
    BY <1>2, <1>5, <2>1 DEF setCondition, Statement
<1>6. QED
  BY <1>3, <1>4, <1>5

\* The statement says a word or nothing.
LEMMA StatementSaysTyped ==
  ASSUME Inputs, NEW s \in Statement
  PROVE  StatementSays(s) \in Word \cup {Nothing}
<1>1. s.m_cond \in Conds /\ s.m_op1 \in Register /\ s.m_op2 \in Register
  BY DEF Statement
<1>2. s.m_op1.exp \in Exp
  BY <1>1 DEF Register
<1>3. NotSays(s.m_op1.exp) \in Word \cup {Nothing}
  BY <1>2, NotSaysTyped
<1>4. CASE s.m_cond = "IsZero"
  BY <1>3, <1>4 DEF StatementSays
<1>5. CASE s.m_cond = "IsNotZero"
  <2>1. Bit(ExpSays(s.m_op1.exp) # 0) \in Word
    BY BitFacts
  <2>2. StatementSays(s) = IF ExpSays(s.m_op1.exp) = Nothing THEN Nothing
                           ELSE Bit(ExpSays(s.m_op1.exp) # 0)
    BY <1>5 DEF StatementSays
  <2>3. QED
    BY <2>1, <2>2
<1>6. CASE s.m_cond \in Compared
  <2> DEFINE a == Says(getDismangledRegisterName(s.m_op1))
             b == Says(getDismangledRegisterName(s.m_op2))
  <2>1. Bit(Holds(s.m_cond, a, b)) \in Word
    BY BitFacts
  <2>2. StatementSays(s) = IF Nothing \in {a, b} THEN Nothing
                           ELSE Bit(Holds(s.m_cond, a, b))
    BY <1>6 DEF StatementSays, Compared
  <2>3. QED
    BY <2>1, <2>2
<1>7. CASE s.m_cond \notin Compared \cup Asking
  BY <1>7 DEF StatementSays, Compared, Asking
<1>8. QED
  BY <1>4, <1>5, <1>6, <1>7 DEF Asking

-----------------------------------------------------------------------------
(***************************************************************************)
(* The invariant.  A register and the word it stands for fit if the texts  *)
(* of the register say what the history of the word lets them say, and the *)
(* word, if it is the one the last test has made, has the value that the   *)
(* statement says.                                                         *)
(***************************************************************************)
Means(r, w) ==
  /\ w.from \in Constants => r.type = "Constant" /\ r.value = w.value
  /\ w.from = "constant" => r.exp = NoExp
  /\ w.from \in Reads =>
       /\ r.type \in {"UserInput", "StorageType"} /\ r.exp = NoExp
       /\ Ordinary(r.value)
       /\ r.name \in Atoms /\ Says(r.name) = w.value
       /\ r.name.of = "store" => w.slots
  /\ w.from \in {"sum", "compared"} =>
       /\ r.type # "Constant"
       /\ r.exp.op \in Arithmetic \cup Comparison /\ ExpSays(r.exp) = w.value
       /\ w.from = "compared" => r.exp.op \in Comparison
       /\ "store" \in {r.exp.a.of, r.exp.b.of} => w.slots

Agrees(w) ==
  test.clean /\ w.id = test.id => /\ w.value = StatementSays(ifStmt)
                                 /\ w.slots = test.slots

Fits(r, w) == Means(r, w) /\ w.id <= steps /\ Agrees(w)

Pairs == { p \in Register \X EvmWord : Fits(p[1], p[2]) }

Matched(s, e, R) ==
  /\ s \in Seq(Register) /\ e \in Seq(EvmWord) /\ Len(s) = Len(e)
  /\ \A i \in 1 .. Len(s) : << s[i], e[i] >> \in R

\* What the statement names, when it names no slot.
NoSlots(s) ==
  /\ s.m_cond \in Compared => "store" \notin { getDismangledRegisterName(s.m_op1).of,
                                               getDismangledRegisterName(s.m_op2).of }
  /\ s.m_cond \in Asking => "store" \notin {s.m_op1.exp.a.of, s.m_op1.exp.b.of}

\* A test that decides, as far as the code can follow it.
CleanTest ==
  /\ test.id # 0
  /\ ifStmt.m_cond \in Compared \cup Asking
  /\ ifStmt.m_cond \in Asking => ifStmt.m_op1.exp.op \notin Arithmetic
  /\ StatementSays(ifStmt) \in {0, 1}
  /\ ~test.slots => NoSlots(ifStmt)

TestFits ==
  /\ test.id <= steps
  /\ test.id = 0 <=> ifStmt.m_cond = Undefined
  /\ test.clean => CleanTest

TextInv ==
  /\ TypeOK
  /\ ~strayed => Matched(m_stack, evm, Pairs) /\ TestFits
  /\ ConditionFaithful /\ StoreFaithful

-----------------------------------------------------------------------------
(***************************************************************************)
(* Both stacks change together.                                            *)
(***************************************************************************)
\* A pair more in front.
LEMMA PushMatched ==
  ASSUME NEW R, NEW s, NEW e, Matched(s, e, R),
         NEW r \in Register, NEW w \in EvmWord, << r, w >> \in R
  PROVE  Matched(<< r >> \o s, << w >> \o e, R)
<1>1. s \in Seq(Register) /\ e \in Seq(EvmWord) /\ Len(s) = Len(e) /\ Len(s) \in Nat
  BY ElementFacts DEF Matched
<1> DEFINE a == << r >> \o s
           b == << w >> \o e
<1>2. /\ a \in Seq(Register) /\ Len(a) = Len(s) + 1 /\ a[1] = r
      /\ \A i \in 1 .. Len(s) : a[i + 1] = s[i]
  BY <1>1, PushFacts
<1>3. /\ b \in Seq(EvmWord) /\ Len(b) = Len(e) + 1 /\ b[1] = w
      /\ \A i \in 1 .. Len(e) : b[i + 1] = e[i]
  BY <1>1, PushFacts
<1> HIDE DEF a, b
<1>4. ASSUME NEW i \in 1 .. Len(a) PROVE << a[i], b[i] >> \in R
  <2>1. CASE i = 1
    BY <1>2, <1>3, <2>1
  <2>2. CASE i # 1
    <3>1. i - 1 \in 1 .. Len(s) /\ i = (i - 1) + 1
      BY <1>1, <1>2, <2>2
    <3>2. a[i] = s[i - 1] /\ b[i] = e[i - 1]
      BY <1>1, <1>2, <1>3, <3>1
    <3>3. QED
      BY <3>1, <3>2 DEF Matched
  <2>3. QED
    BY <2>1, <2>2
<1>5. QED
  BY <1>1, <1>2, <1>3, <1>4 DEF Matched, a, b

\* Pairs gone from the top.
LEMMA PopMatched ==
  ASSUME NEW R, NEW s, NEW e, Matched(s, e, R), NEW k \in Nat, k <= Len(s)
  PROVE  Matched(Pops(s, k), Pops(e, k), R)
<1>1. s \in Seq(Register) /\ e \in Seq(EvmWord) /\ Len(s) = Len(e) /\ Len(s) \in Nat
  BY ElementFacts DEF Matched
<1>2. /\ Pops(s, k) \in Seq(Register) /\ Len(Pops(s, k)) = Len(s) - k
      /\ \A i \in 1 .. Len(s) - k : Pops(s, k)[i] = s[i + k]
  BY <1>1, PopFacts
<1>3. /\ Pops(e, k) \in Seq(EvmWord) /\ Len(Pops(e, k)) = Len(e) - k
      /\ \A i \in 1 .. Len(e) - k : Pops(e, k)[i] = e[i + k]
  BY <1>1, PopFacts
<1>4. ASSUME NEW i \in 1 .. Len(s) - k PROVE << Pops(s, k)[i], Pops(e, k)[i] >> \in R
  <2>1. i + k \in 1 .. Len(s)
    BY <1>1
  <2>2. QED
    BY <1>1, <1>2, <1>3, <2>1 DEF Matched
<1>5. QED
  BY <1>1, <1>2, <1>3, <1>4 DEF Matched

\* Another pair on top.
LEMMA TopMatched ==
  ASSUME NEW R, NEW s, NEW e, Matched(s, e, R), Len(s) >= 1,
         NEW r \in Register, NEW w \in EvmWord, << r, w >> \in R
  PROVE  Matched([s EXCEPT ![1] = r], [e EXCEPT ![1] = w], R)
<1>1. s \in Seq(Register) /\ e \in Seq(EvmWord) /\ Len(s) = Len(e) /\ Len(s) \in Nat
  BY ElementFacts DEF Matched
<1> DEFINE a == [s EXCEPT ![1] = r]
           b == [e EXCEPT ![1] = w]
<1>2. /\ a \in Seq(Register) /\ Len(a) = Len(s) /\ a[1] = r
      /\ \A i \in 2 .. Len(s) : a[i] = s[i]
  BY <1>1, TopFacts
<1>3. /\ b \in Seq(EvmWord) /\ Len(b) = Len(e) /\ b[1] = w
      /\ \A i \in 2 .. Len(e) : b[i] = e[i]
  BY <1>1, TopFacts
<1> HIDE DEF a, b
<1>4. ASSUME NEW i \in 1 .. Len(s) PROVE << a[i], b[i] >> \in R
  <2>1. CASE i = 1
    BY <1>2, <1>3, <2>1
  <2>2. CASE i # 1
    BY <1>1, <1>2, <1>3, <2>2 DEF Matched
  <2>3. QED
    BY <2>1, <2>2
<1>5. QED
  BY <1>1, <1>2, <1>3, <1>4 DEF Matched, a, b

\* Two pairs changed places.
LEMMA SwapMatched ==
  ASSUME NEW R, NEW s, NEW e, Matched(s, e, R),
         NEW n \in Nat, n >= 1, Len(s) >= n + 1
  PROVE  Matched(Swapped(s, n), Swapped(e, n), R)
<1>1. s \in Seq(Register) /\ e \in Seq(EvmWord) /\ Len(s) = Len(e) /\ Len(s) \in Nat
  BY ElementFacts DEF Matched
<1> DEFINE a == Swapped(s, n)
           b == Swapped(e, n)
<1>2. /\ a \in Seq(Register) /\ Len(a) = Len(s) /\ a[1] = s[n + 1] /\ a[n + 1] = s[1]
      /\ \A i \in 2 .. Len(s) : i # n + 1 => a[i] = s[i]
  BY <1>1, SwappedFacts
<1>3. /\ b \in Seq(EvmWord) /\ Len(b) = Len(e) /\ b[1] = e[n + 1] /\ b[n + 1] = e[1]
      /\ \A i \in 2 .. Len(e) : i # n + 1 => b[i] = e[i]
  BY <1>1, SwappedFacts
<1> HIDE DEF a, b
<1>4. ASSUME NEW i \in 1 .. Len(s) PROVE << a[i], b[i] >> \in R
  <2>0. n + 1 \in 1 .. Len(s) /\ 1 \in 1 .. Len(s)
    BY <1>1
  <2>1. CASE i = 1
    BY <1>2, <1>3, <2>0, <2>1 DEF Matched
  <2>2. CASE i = n + 1
    BY <1>2, <1>3, <2>0, <2>2 DEF Matched
  <2>3. CASE i # 1 /\ i # n + 1
    BY <1>1, <1>2, <1>3, <2>3 DEF Matched
  <2>4. QED
    BY <2>1, <2>2, <2>3
<1>5. QED
  BY <1>1, <1>2, <1>3, <1>4 DEF Matched, a, b

\* What is true of more pairs.
LEMMA WiderMatched ==
  ASSUME NEW R, NEW Q, NEW s, NEW e, Matched(s, e, R), R \subseteq Q
  PROVE  Matched(s, e, Q)
  BY DEF Matched

-----------------------------------------------------------------------------
(***************************************************************************)
(* What stays true of a pair.                                              *)
(***************************************************************************)
\* Where nothing is stored, every text says what it said.
LEMMA SaysSame ==
  ASSUME UNCHANGED << calldata, storage >>
  PROVE  /\ \A t : Says(t)' = Says(t)
         /\ \A e : ExpSays(e)' = ExpSays(e)
         /\ \A e : NotSays(e)' = NotSays(e)
         /\ \A s : StatementSays(s)' = StatementSays(s)
<1>1. \A t : Says(t)' = Says(t)
  BY DEF Says
<1>2. \A e : ExpSays(e)' = ExpSays(e)
  BY <1>1 DEF ExpSays
<1>3. \A e : NotSays(e)' = NotSays(e)
  BY <1>1, <1>2 DEF NotSays
<1>4. \A s : StatementSays(s)' = StatementSays(s)
  BY <1>1, <1>2, <1>3 DEF StatementSays
<1>5. QED
  BY <1>1, <1>2, <1>3, <1>4

\* So every register means what it meant.
LEMMA MeansSame ==
  ASSUME UNCHANGED << calldata, storage >>
  PROVE  \A r, w : Means(r, w)' <=> Means(r, w)
  BY SaysSame DEF Means

\* As long as the statement does not change either, pairs go on to fit.
LEMMA PairsStay ==
  ASSUME steps \in Nat, steps' = steps + 1, UNCHANGED << calldata, storage, ifStmt, test >>
  PROVE  Pairs \subseteq Pairs'
<1>1. ASSUME NEW r \in Register, NEW w \in EvmWord, Fits(r, w)
      PROVE  Fits(r, w)'
  <2>1. Means(r, w)'
    BY <1>1, MeansSame DEF Fits
  <2>2. w.id <= steps'
    BY <1>1 DEF Fits, EvmWord
  <2>3. StatementSays(ifStmt)' = StatementSays(ifStmt)
    BY SaysSame
  <2>4. Agrees(w)'
    BY <1>1, <2>3 DEF Fits, Agrees
  <2>5. QED
    BY <2>1, <2>2, <2>4 DEF Fits
<1>2. QED
  BY <1>1 DEF Pairs

\* A statement says the same again.
LEMMA TestStays ==
  ASSUME UNCHANGED << calldata, storage, ifStmt, test >>, steps \in Nat, steps' = steps + 1,
         TestFits, test.id \in Nat
  PROVE  TestFits'
<1>1. StatementSays(ifStmt)' = StatementSays(ifStmt)
  BY SaysSame
<1>2. CleanTest => CleanTest'
  BY <1>1 DEF CleanTest, NoSlots
<1>3. QED
  BY <1>2 DEF TestFits

\* The instruction is taken from the code.
LEMMA BeginFacts ==
  ASSUME TypeOK, NEW op, NEW k \in Nat, Begin(op, k)
  PROVE  /\ code' \in Seq(SUBSET Insts) /\ steps \in Nat /\ steps' = steps + 1
         /\ m_data' = m_data /\ calldata' = calldata /\ Len(m_stack) >= k
         /\ Inputs
  BY HeadTailProperties DEF Begin, TypeOK, Inputs

\* The two on top of the stacks, and below, fit.
LEMMA FitsAt ==
  ASSUME TypeOK, Matched(m_stack, evm, Pairs)
  PROVE  /\ Len(m_stack) = Len(evm) /\ Len(evm) \in Nat
         /\ \A i \in 1 .. Len(evm) : /\ m_stack[i] \in Register /\ evm[i] \in EvmWord
                                     /\ Fits(m_stack[i], evm[i])
<1>1. /\ Len(m_stack) = Len(evm) /\ Len(evm) \in Nat
      /\ \A i \in 1 .. Len(evm) : << m_stack[i], evm[i] >> \in Pairs
  BY ElementFacts DEF Matched
<1>2. QED
  BY <1>1 DEF Pairs

\* A new word, if its register means it, fits: no test has made it.
LEMMA NewFits ==
  ASSUME TypeOK, TestFits, steps' = steps + 1, UNCHANGED << calldata, storage, test >>
  PROVE  \A r \in Register, w \in EvmWord :
           w.id = steps' /\ Means(r, w) => << r, w >> \in Pairs'
<1> SUFFICES ASSUME NEW r \in Register, NEW w \in EvmWord, w.id = steps', Means(r, w)
             PROVE  << r, w >> \in Pairs'
  OBVIOUS
<1>1. Means(r, w)'
  BY MeansSame
<1>2. test'.id <= steps /\ steps \in Nat /\ test'.id \in Nat
  BY DEF TestFits, TypeOK
<1>3. w.id # test'.id /\ w.id <= steps'
  BY <1>2
<1>4. Fits(r, w)'
  BY <1>1, <1>3 DEF Fits, Agrees
<1>5. QED
  BY <1>4 DEF Pairs

\* An instruction that neither prints nor tests nor stores has only to leave two
\* stacks that match.
LEMMA QuietStep ==
  ASSUME TextInv, NEW op, NEW k \in Nat, Begin(op, k), Quiet,
         m_stack' \in Seq(Register), strayed => evm' = evm,
         ~strayed => Matched(m_stack', evm', Pairs')
  PROVE  TextInv'
<1>1. TypeOK
  BY DEF TextInv
<1>2. /\ code' \in Seq(SUBSET Insts) /\ steps \in Nat /\ steps' = steps + 1
      /\ m_data' = m_data /\ calldata' = calldata
  BY <1>1, BeginFacts
<1>3. UNCHANGED << ifStmt, status, printed, storage, test, strayed >>
  BY DEF Quiet
<1>4. evm' \in Seq(EvmWord)
  BY <1>1 DEF TypeOK, Matched
<1>5. steps' \in Nat
  BY <1>2
<1>6. TypeOK'
  BY <1>1, <1>2, <1>3, <1>4, <1>5 DEF TypeOK
<1>7. ~strayed' => TestFits'
  <2>1. test.id \in Nat
    BY <1>1 DEF TypeOK
  <2>2. QED
    BY <1>2, <1>3, <2>1, TestStays DEF TextInv
<1>8. ConditionFaithful' /\ StoreFaithful'
  BY <1>3 DEF TextInv, ConditionFaithful, StoreFaithful
<1>9. ~strayed' => Matched(m_stack, evm, Pairs)'
  BY <1>3
<1>10. QED
  BY <1>6, <1>7, <1>8, <1>9 DEF TextInv

\* What it needs for that.
LEMMA QuietPairs ==
  ASSUME TextInv, NEW op, NEW k \in Nat, Begin(op, k), Quiet, ~strayed
  PROVE  /\ Matched(m_stack, evm, Pairs') /\ TypeOK /\ TestFits
         /\ steps \in Nat /\ steps' \in Nat /\ Inputs /\ evm \in Seq(EvmWord)
         /\ Len(m_stack) >= k /\ Len(m_stack) = Len(evm) /\ Len(evm) \in Nat
         /\ \A i \in 1 .. Len(evm) : /\ m_stack[i] \in Register /\ evm[i] \in EvmWord
                                     /\ Means(m_stack[i], evm[i])
         /\ \A r \in Register, w \in EvmWord :
              w.id = steps' /\ Means(r, w) => << r, w >> \in Pairs'
<1>1. TypeOK /\ TestFits /\ Matched(m_stack, evm, Pairs)
  BY DEF TextInv
<1>2. steps \in Nat /\ steps' = steps + 1 /\ calldata' = calldata /\ Inputs
      /\ Len(m_stack) >= k
  BY <1>1, BeginFacts
<1>3. UNCHANGED << ifStmt, storage, test >>
  BY DEF Quiet
<1>4. Pairs \subseteq Pairs'
  BY <1>2, <1>3, PairsStay
<1>5. Matched(m_stack, evm, Pairs')
  BY <1>1, <1>4, WiderMatched
<1>6. \A r \in Register, w \in EvmWord :
        w.id = steps' /\ Means(r, w) => << r, w >> \in Pairs'
  BY <1>1, <1>2, <1>3, NewFits
<1>7. /\ Len(m_stack) = Len(evm) /\ Len(evm) \in Nat
      /\ \A i \in 1 .. Len(evm) : /\ m_stack[i] \in Register /\ evm[i] \in EvmWord
                                  /\ Means(m_stack[i], evm[i])
  BY <1>1, FitsAt DEF Fits
<1>8. evm \in Seq(EvmWord)
  BY <1>1 DEF TypeOK
<1>9. QED
  BY <1>1, <1>2, <1>5, <1>6, <1>7, <1>8

-----------------------------------------------------------------------------
(***************************************************************************)
(* The instructions that move and read.                                    *)
(***************************************************************************)
\* PUSH.
LEMMA PushStep ==
  ASSUME TextInv, Push
  PROVE  TextInv'
<1>1. PICK v \in Pushes :
        /\ Begin("PUSH", 0)
        /\ m_stack' = << RegisterOf([of |-> "hex", at |-> v], m_data) >> \o m_stack
        /\ OnEvm(<< NewWord(v, "constant", FALSE) >> \o evm)
        /\ Quiet
  BY DEF Push
<1> DEFINE r == RegisterOf([of |-> "hex", at |-> v], m_data)
           w == NewWord(v, "constant", FALSE)
<1>2. v \in Word /\ m_data \in [Word -> Word] /\ m_stack \in Seq(Register)
  BY ConstantsAssumption DEF TextInv, TypeOK
<1>3. [of |-> "hex", at |-> v] \in Atoms
  BY <1>2, AtomFacts
<1>4. r \in Register /\ r.type = "Constant" /\ r.value = v /\ r.exp = NoExp
  BY <1>2, <1>3, RegisterOfTyped
<1>5. m_stack' = << r >> \o m_stack
  BY <1>1
<1>6. OnEvm(<< w >> \o evm)
  BY <1>1
<1> HIDE DEF r
<1>7. m_stack' \in Seq(Register)
  BY <1>2, <1>4, <1>5, PushFacts
<1>8. ASSUME ~strayed PROVE Matched(m_stack', evm', Pairs')
  <2>1. /\ Matched(m_stack, evm, Pairs') /\ steps' \in Nat
        /\ \A x \in Register, y \in EvmWord :
             y.id = steps' /\ Means(x, y) => << x, y >> \in Pairs'
    BY <1>1, <1>8, QuietPairs
  <2>2. w \in EvmWord /\ w.id = steps' /\ w.from = "constant" /\ w.value = v
    BY <1>2, <2>1 DEF NewWord, EvmWord
  <2>3. evm' = << w >> \o evm
    BY <1>6, <1>8 DEF OnEvm
  <2> HIDE DEF w
  <2>4. Means(r, w)
    BY <1>4, <2>2 DEF Means, Constants, Reads
  <2>5. << r, w >> \in Pairs'
    BY <1>4, <2>1, <2>2, <2>4
  <2>6. QED
    BY <1>4, <1>5, <2>1, <2>2, <2>3, <2>5, PushMatched
<1>9. strayed => evm' = evm
  BY <1>6 DEF OnEvm
<1>10. QED
  BY <1>1, <1>7, <1>8, <1>9, QuietStep

\* CALLDATALOAD: the text names the argument that Ethereum reads, if the offset is
\* a constant.
LEMMA CallDataLoadStep ==
  ASSUME TextInv, CallDataLoad
  PROVE  TextInv'
<1> DEFINE k == m_stack[1].value
           t == [of |-> "arg", at |-> k]
           r == RegisterOf(t, m_data)
           f == IF evm[1].from \in Constants /\ Ordinary(m_data[k])
                  THEN "argument" ELSE "other"
           w == NewWord(calldata[evm[1].value], f, FALSE)
<1>1. /\ Begin("CALLDATALOAD", 1) /\ Quiet /\ m_stack' = [m_stack EXCEPT ![1] = r]
  BY DEF CallDataLoad
<1>2. OnEvm([evm EXCEPT ![1] =
              NewWord(calldata[@.value],
                      IF @.from \in Constants /\ Ordinary(m_data[m_stack[1].value])
                        THEN "argument" ELSE "other", FALSE)])
  BY DEF CallDataLoad
<1>3. OnEvm([evm EXCEPT ![1] = w])
  BY <1>2
<1>4. /\ TypeOK /\ m_data \in [Word -> Word] /\ calldata \in [Word -> Word]
      /\ m_stack \in Seq(Register)
  BY DEF TextInv, TypeOK
<1>5. Len(m_stack) >= 1 /\ m_stack[1] \in Register
  BY <1>1, <1>4, BeginFacts, ElementFacts
<1>6. k \in Word
  BY <1>5 DEF Register
<1>7. t \in Atoms /\ t.of = "arg" /\ t.at = k
  BY <1>6, AtomFacts
<1> HIDE DEF t
<1>8. /\ r \in Register /\ r.exp = NoExp /\ r.name = t /\ r.value = m_data[k]
      /\ r.type = "UserInput"
  BY <1>4, <1>7, RegisterOfTyped
<1> HIDE DEF r
<1>9. m_stack' \in Seq(Register)
  BY <1>1, <1>4, <1>5, <1>8, TopFacts
<1>10. ASSUME ~strayed PROVE Matched(m_stack', evm', Pairs')
  <2>1. /\ Matched(m_stack, evm, Pairs') /\ steps' \in Nat
        /\ Len(m_stack) = Len(evm) /\ Len(evm) \in Nat
        /\ \A i \in 1 .. Len(evm) : /\ m_stack[i] \in Register /\ evm[i] \in EvmWord
                                    /\ Means(m_stack[i], evm[i])
        /\ \A x \in Register, y \in EvmWord :
             y.id = steps' /\ Means(x, y) => << x, y >> \in Pairs'
    BY <1>1, <1>10, QuietPairs
  <2>2. evm[1] \in EvmWord /\ Means(m_stack[1], evm[1])
    BY <1>5, <2>1
  <2>3. evm[1].value \in Word
    BY <2>2 DEF EvmWord
  <2>4. calldata[evm[1].value] \in Word /\ f \in {"argument", "other"}
    BY <1>4, <2>3
  <2>5. /\ w \in EvmWord /\ w.id = steps' /\ w.from = f /\ w.value = calldata[evm[1].value]
    BY <2>1, <2>4 DEF NewWord, EvmWord
  <2>6. evm' = [evm EXCEPT ![1] = w]
    BY <1>3, <1>10 DEF OnEvm
  <2>7. f = "argument" => Says(t) = calldata[evm[1].value] /\ Ordinary(m_data[k])
    BY <1>7, <2>2 DEF Means, Says
  <2> HIDE DEF w, f
  <2>8. Means(r, w)
    BY <1>7, <1>8, <2>4, <2>5, <2>7 DEF Means, Constants, Reads
  <2>9. << r, w >> \in Pairs'
    BY <1>8, <2>1, <2>5, <2>8
  <2>10. QED
    BY <1>1, <1>5, <1>8, <2>1, <2>5, <2>6, <2>9, TopMatched
<1>11. strayed => evm' = evm
  BY <1>3 DEF OnEvm
<1>12. QED
  BY <1>1, <1>9, <1>10, <1>11, QuietStep

\* SLOAD: the text names the slot that Ethereum reads, if its number is a constant.
LEMMA SLoadStep ==
  ASSUME TextInv, SLoad
  PROVE  TextInv'
<1> DEFINE r == FromSlot(m_stack[1])
           f == IF evm[1].from = "constant" /\ Ordinary(m_stack[1].value)
                  THEN "slot" ELSE "other"
           w == NewWord(storage[evm[1].value], f, TRUE)
<1>1. /\ Begin("SLOAD", 1) /\ Quiet /\ m_stack' = [m_stack EXCEPT ![1] = r]
  BY DEF SLoad
<1>2. OnEvm([evm EXCEPT ![1] =
       NewWord(storage[@.value],
               IF @.from = "constant" /\ Ordinary(m_stack[1].value)
                 THEN "slot" ELSE "other", TRUE)])
  BY DEF SLoad
<1>3. OnEvm([evm EXCEPT ![1] = w])
  BY <1>2
<1>4. /\ TypeOK /\ storage \in [Word -> Word] /\ m_stack \in Seq(Register)
  BY DEF TextInv, TypeOK
<1>5. Len(m_stack) >= 1 /\ m_stack[1] \in Register /\ m_stack[1].value \in Word
  <2>1. Len(m_stack) >= 1 /\ m_stack[1] \in Register
    BY <1>1, <1>4, BeginFacts, ElementFacts
  <2>2. QED
    BY <2>1 DEF Register
<1>6. r \in Register
  BY <1>5, RegistersTyped, AtomFacts
<1>7. /\ r.exp = m_stack[1].exp /\ r.value = m_stack[1].value /\ r.type = "StorageType"
      /\ r.name = [of |-> "store", at |-> m_stack[1].value]
  BY DEF FromSlot
<1>8. r.name \in Atoms
  BY <1>5, <1>7, AtomFacts
<1> HIDE DEF r
<1>9. m_stack' \in Seq(Register)
  BY <1>1, <1>4, <1>5, <1>6, TopFacts
<1>10. ASSUME ~strayed PROVE Matched(m_stack', evm', Pairs')
  <2>1. /\ Matched(m_stack, evm, Pairs') /\ steps' \in Nat
        /\ Len(m_stack) = Len(evm) /\ Len(evm) \in Nat
        /\ \A i \in 1 .. Len(evm) : /\ m_stack[i] \in Register /\ evm[i] \in EvmWord
                                    /\ Means(m_stack[i], evm[i])
        /\ \A x \in Register, y \in EvmWord :
             y.id = steps' /\ Means(x, y) => << x, y >> \in Pairs'
    BY <1>1, <1>10, QuietPairs
  <2>2. evm[1] \in EvmWord /\ Means(m_stack[1], evm[1])
    BY <1>5, <2>1
  <2>3. evm[1].value \in Word
    BY <2>2 DEF EvmWord
  <2>4. storage[evm[1].value] \in Word /\ f \in {"slot", "other"}
    BY <1>4, <2>3
  <2>5. /\ w \in EvmWord /\ w.id = steps' /\ w.from = f /\ w.slots = TRUE
        /\ w.value = storage[evm[1].value]
    BY <2>1, <2>4 DEF NewWord, EvmWord
  <2>6. evm' = [evm EXCEPT ![1] = w]
    BY <1>3, <1>10 DEF OnEvm
  <2>7. f = "slot" => /\ Ordinary(r.value) /\ r.exp = NoExp
                      /\ Says(r.name) = storage[evm[1].value]
    BY <1>7, <2>2 DEF Means, Says, Constants
  <2> HIDE DEF w, f
  <2>8. Means(r, w)
    BY <1>7, <1>8, <2>4, <2>5, <2>7 DEF Means, Constants, Reads
  <2>9. << r, w >> \in Pairs'
    BY <1>6, <2>1, <2>5, <2>8
  <2>10. QED
    BY <1>1, <1>5, <1>6, <2>1, <2>5, <2>6, <2>9, TopMatched
<1>11. strayed => evm' = evm
  BY <1>3 DEF OnEvm
<1>12. QED
  BY <1>1, <1>9, <1>10, <1>11, QuietStep

\* DUP.
LEMMA DupStep ==
  ASSUME TextInv, Dup
  PROVE  TextInv'
<1>1. PICK n \in 1 .. 16 :
        /\ Begin("DUP", n) /\ Quiet
        /\ m_stack' = << m_stack[n] >> \o m_stack
        /\ OnEvm(<< evm[n] >> \o evm)
  BY DEF Dup
<1>2. TypeOK /\ m_stack \in Seq(Register)
  BY DEF TextInv, TypeOK
<1>3. Len(m_stack) >= n /\ m_stack[n] \in Register
  BY <1>1, <1>2, BeginFacts, ElementFacts
<1>4. m_stack' \in Seq(Register)
  BY <1>1, <1>2, <1>3, PushFacts
<1>5. ASSUME ~strayed PROVE Matched(m_stack', evm', Pairs')
  <2>1. Matched(m_stack, evm, Pairs') /\ Len(m_stack) = Len(evm) /\ Len(evm) \in Nat
        /\ \A i \in 1 .. Len(evm) : evm[i] \in EvmWord
    BY <1>1, <1>5, QuietPairs
  <2>2. << m_stack[n], evm[n] >> \in Pairs' /\ evm[n] \in EvmWord
    BY <1>3, <2>1 DEF Matched
  <2>3. evm' = << evm[n] >> \o evm
    BY <1>1, <1>5 DEF OnEvm
  <2>4. QED
    BY <1>1, <1>3, <2>1, <2>2, <2>3, PushMatched
<1>6. strayed => evm' = evm
  BY <1>1 DEF OnEvm
<1>7. QED
  BY <1>1, <1>4, <1>5, <1>6, QuietStep

\* SWAP.
LEMMA SwapStep ==
  ASSUME TextInv, Swap
  PROVE  TextInv'
<1>1. PICK n \in 1 .. 16 :
        /\ Begin("SWAP", n + 1) /\ Quiet
        /\ m_stack' = Swapped(m_stack, n) /\ OnEvm(Swapped(evm, n))
  BY DEF Swap
<1>2. TypeOK /\ m_stack \in Seq(Register)
  BY DEF TextInv, TypeOK
<1>3. Len(m_stack) >= n + 1
  BY <1>1, <1>2, BeginFacts
<1>4. m_stack' \in Seq(Register)
  BY <1>1, <1>2, <1>3, SwappedFacts
<1>5. ASSUME ~strayed PROVE Matched(m_stack', evm', Pairs')
  <2>1. Matched(m_stack, evm, Pairs')
    BY <1>1, <1>5, QuietPairs
  <2>2. evm' = Swapped(evm, n)
    BY <1>1, <1>5 DEF OnEvm
  <2>3. QED
    BY <1>1, <1>3, <2>1, <2>2, SwapMatched
<1>6. strayed => evm' = evm
  BY <1>1 DEF OnEvm
<1>7. n + 1 \in Nat
  OBVIOUS
<1>8. QED
  BY <1>1, <1>4, <1>5, <1>6, <1>7, QuietStep

\* POP.
LEMMA PopStep ==
  ASSUME TextInv, Pop
  PROVE  TextInv'
<1>1. /\ Begin("POP", 1) /\ Quiet
      /\ m_stack' = Pops(m_stack, 1) /\ OnEvm(Pops(evm, 1))
  BY DEF Pop
<1>2. TypeOK /\ m_stack \in Seq(Register)
  BY DEF TextInv, TypeOK
<1>3. Len(m_stack) >= 1
  BY <1>1, <1>2, BeginFacts
<1>4. m_stack' \in Seq(Register)
  BY <1>1, <1>2, <1>3, PopFacts
<1>5. ASSUME ~strayed PROVE Matched(m_stack', evm', Pairs')
  <2>1. Matched(m_stack, evm, Pairs')
    BY <1>1, <1>5, QuietPairs
  <2>2. evm' = Pops(evm, 1)
    BY <1>1, <1>5 DEF OnEvm
  <2>3. QED
    BY <1>1, <1>3, <2>1, <2>2, PopMatched
<1>6. strayed => evm' = evm
  BY <1>1 DEF OnEvm
<1>7. QED
  BY <1>1, <1>4, <1>5, <1>6, QuietStep

-----------------------------------------------------------------------------
(***************************************************************************)
(* The instructions that compute.                                          *)
(***************************************************************************)
\* What an operation makes of two words, and why.
LEMMA FromFacts ==
  ASSUME NEW op \in Arithmetic \cup Logic
  PROVE  \/ /\ FromOf(op) = "folded"
            /\ {evm[1].from, evm[2].from} \subseteq Constants
         \/ /\ FromOf(op) = evm[2].from
            /\ op = "AND" /\ evm[1].from = "constant" /\ Unmasks(2, 1)
         \/ /\ FromOf(op) = evm[1].from
            /\ op = "AND" /\ evm[2].from \in Constants /\ Unmasks(1, 2)
         \/ /\ FromOf(op) = "sum"
            /\ op \in Arithmetic /\ evm[1].from \in Reads /\ evm[2].from \in Named
            /\ evm[2].from \in Constants => evm[2].value # endianMul
         \/ FromOf(op) = "other"
<1>1. op \notin Comparison
  BY DEF Arithmetic, Logic, Comparison
<1> DEFINE a == evm[1].from
           b == evm[2].from
           G1 == {a, b} \subseteq Constants
           G2 == op = "AND" /\ a = "constant" /\ Unmasks(2, 1)
           G3 == op = "AND" /\ b \in Constants /\ Unmasks(1, 2)
           G4 == /\ op \in Arithmetic /\ a \in Reads /\ b \in Named
                 /\ b \in Constants => evm[2].value # endianMul
<1>2. FromOf(op) = CASE op \in Comparison ->
                          IF {a, b} \subseteq Named THEN "compared" ELSE "other"
                     [] op \notin Comparison /\ G1 -> "folded"
                     [] G2 -> b
                     [] G3 -> a
                     [] G4 -> "sum"
                     [] OTHER -> "other"
  BY DEF FromOf
<1>3. \/ FromOf(op) = "folded" /\ G1
      \/ FromOf(op) = b /\ G2
      \/ FromOf(op) = a /\ G3
      \/ FromOf(op) = "sum" /\ G4
      \/ FromOf(op) = "other"
  <2> HIDE DEF a, b, G1, G2, G3, G4
  <2>1. QED
    BY <1>1, <1>2, Zenon
<1>4. QED
  BY <1>3

\* And a comparison.
LEMMA FromOfComparison ==
  ASSUME NEW op \in Comparison
  PROVE  \/ /\ FromOf(op) = "compared"
            /\ {evm[1].from, evm[2].from} \subseteq Named
         \/ FromOf(op) = "other"
<1>1. op \notin Arithmetic /\ op # "AND"
  BY DEF Arithmetic, Comparison
<1> DEFINE a == evm[1].from
           b == evm[2].from
           C == {a, b} \subseteq Named
           G1 == {a, b} \subseteq Constants
           G2 == a = "constant" /\ Unmasks(2, 1)
           G3 == b \in Constants /\ Unmasks(1, 2)
           G4 == /\ a \in Reads /\ b \in Named
                 /\ b \in Constants => evm[2].value # endianMul
<1>2. FromOf(op) = CASE op \in Comparison -> IF C THEN "compared" ELSE "other"
                     [] op \notin Comparison /\ G1 -> "folded"
                     [] op = "AND" /\ G2 -> b
                     [] op = "AND" /\ G3 -> a
                     [] op \in Arithmetic /\ G4 -> "sum"
                     [] OTHER -> "other"
  BY DEF FromOf
<1>3. FromOf(op) = IF C THEN "compared" ELSE "other"
  <2> HIDE DEF a, b, C, G1, G2, G3, G4
  <2>1. QED
    BY <1>1, <1>2, Zenon
<1>4. QED
  BY <1>3

\* A register with a name is printed as what its word is.
LEMMA NamedSays ==
  ASSUME NEW r \in Register, NEW w \in EvmWord, Means(r, w), w.from \in Named
  PROVE  /\ Says(getDismangledRegisterName(r)) = w.value
         /\ getDismangledRegisterName(r).of = "store" => w.slots
<1>1. CASE w.from \in Constants
  BY <1>1 DEF Means, getDismangledRegisterName, IsConstant, Says
<1>2. CASE w.from \in Reads
  BY <1>2 DEF Means, getDismangledRegisterName, IsConstant
<1>3. QED
  BY <1>1, <1>2 DEF Named

\* The order of the operands does not matter to AND.
LEMMA AndCommutes ==
  ASSUME NEW a, NEW b
  PROVE  OnEthereum("AND", a, b) = OnEthereum("AND", b, a)
<1>1. OnEthereum("AND", a, b) = WithBits(Bits(a) \cap Bits(b))
  BY Zenon DEF OnEthereum, Comparison
<1>2. OnEthereum("AND", b, a) = WithBits(Bits(b) \cap Bits(a))
  BY Zenon DEF OnEthereum, Comparison
<1>3. Bits(a) \cap Bits(b) = Bits(b) \cap Bits(a)
  BY Zenon
<1>4. QED
  BY <1>1, <1>2, <1>3

\* The first register with its expression.
LEMMA InContextFacts ==
  ASSUME NEW op \in Binaries, m_stack \in Seq(Register), Len(m_stack) >= 2
  PROVE  /\ InContext(op) \in Seq(Register) /\ Len(InContext(op)) = Len(m_stack)
         /\ InContext(op)[1] = WithExp(m_stack[1], Context(op, m_stack))
         /\ \A i \in 2 .. Len(m_stack) : InContext(op)[i] = m_stack[i]
         /\ m_stack[1] \in Register /\ m_stack[2] \in Register
         /\ Context(op, m_stack) \in Exp
<1>1. m_stack[1] \in Register /\ m_stack[2] \in Register
  BY ElementFacts
<1>2. Context(op, m_stack) \in Exp
  BY ContextTyped
<1>3. m_stack[1].value \in Word /\ m_stack[1].name \in Text
  BY <1>1 DEF Register
<1>4. WithExp(m_stack[1], Context(op, m_stack)) \in Register
  BY <1>1, <1>2, <1>3, RegistersTyped
<1>5. InContext(op) = [m_stack EXCEPT ![1] = WithExp(m_stack[1], Context(op, m_stack))]
  BY DEF InContext
<1>6. QED
  BY <1>1, <1>2, <1>4, <1>5, TopFacts

\* The two stacks below the operands still match.
LEMMA BelowMatched ==
  ASSUME NEW op \in Binaries, NEW R, Matched(m_stack, evm, R), Len(m_stack) >= 2
  PROVE  Matched(Pops(InContext(op), 2), Pops(evm, 2), R)
<1>1. m_stack \in Seq(Register)
  BY DEF Matched
<1>2. /\ InContext(op) \in Seq(Register) /\ Len(InContext(op)) = Len(m_stack)
      /\ \A i \in 2 .. Len(m_stack) : InContext(op)[i] = m_stack[i]
  BY <1>1, InContextFacts
<1>3. Len(m_stack) \in Nat
  BY <1>1, ElementFacts
<1>4. /\ Pops(InContext(op), 2) \in Seq(Register)
      /\ Len(Pops(InContext(op), 2)) = Len(m_stack) - 2
      /\ \A i \in 1 .. Len(m_stack) - 2 : Pops(InContext(op), 2)[i] = InContext(op)[i + 2]
  BY <1>2, PopFacts
<1>5. /\ Pops(m_stack, 2) \in Seq(Register) /\ Len(Pops(m_stack, 2)) = Len(m_stack) - 2
      /\ \A i \in 1 .. Len(m_stack) - 2 : Pops(m_stack, 2)[i] = m_stack[i + 2]
  <2>1. 2 <= Len(m_stack)
    BY <1>3
  <2>2. QED
    BY <1>1, <2>1, PopFacts
<1>6. ASSUME NEW i \in 1 .. Len(m_stack) - 2
      PROVE  Pops(InContext(op), 2)[i] = Pops(m_stack, 2)[i]
  <2>1. i + 2 \in 2 .. Len(m_stack)
    BY <1>3
  <2>2. QED
    BY <1>2, <1>4, <1>5, <2>1
<1>7. Matched(Pops(m_stack, 2), Pops(evm, 2), R)
  BY PopMatched
<1>8. QED
  BY <1>4, <1>5, <1>6, <1>7 DEF Matched

\* The result of an operation means the word it makes on Ethereum.
LEMMA ResultMeans ==
  ASSUME NEW op \in Arithmetic \cup Logic, Inputs,
         m_stack \in Seq(Register), Len(m_stack) >= 2,
         evm[1] \in EvmWord, evm[2] \in EvmWord,
         Means(m_stack[1], evm[1]), Means(m_stack[2], evm[2]),
         NEW w \in EvmWord, w.from = FromOf(op),
         w.value = OnEthereum(op, evm[1].value, evm[2].value),
         w.slots = (evm[1].slots \/ evm[2].slots)
  PROVE  Means(Result(op, InContext(op)), w)
<1> DEFINE x == m_stack[1]
           y == m_stack[2]
           a == evm[1]
           b == evm[2]
           e == Context(op, m_stack)
           named == IF Masks(op, x.value) THEN y ELSE x
           r == Result(op, InContext(op))
<1>0. op \in Binaries
  BY DEF Binaries
<1>1. /\ x \in Register /\ y \in Register /\ e \in Exp
      /\ InContext(op)[1] = WithExp(x, e) /\ InContext(op)[2] = y
  BY <1>0, InContextFacts
<1>2. /\ x.value \in Word /\ y.value \in Word /\ a.value \in Word /\ b.value \in Word
      /\ a.slots \in BOOLEAN /\ b.slots \in BOOLEAN
  BY <1>1 DEF Register, EvmWord
<1>3. Computed(op, x.value, y.value) = OnEthereum(op, x.value, y.value)
  BY <1>0, <1>2, ComputedFacts
<1>4. /\ r.value = OnEthereum(op, x.value, y.value) /\ r.exp = e
      /\ r.type = named.type /\ r.name = named.name
  BY <1>1, <1>3 DEF Result, WithExp
<1>5. Means(x, a) /\ Means(y, b) /\ a \in EvmWord /\ b \in EvmWord
  OBVIOUS
<1>6. w.slots = (a.slots \/ b.slots) /\ w.value = OnEthereum(op, a.value, b.value)
  OBVIOUS
<1>7. op = "AND" => e = x.exp
  BY DEF Context, Logic
<1>8. \/ w.from = "folded" /\ {a.from, b.from} \subseteq Constants
      \/ /\ w.from = b.from
         /\ op = "AND" /\ a.from = "constant" /\ Unmasks(2, 1)
      \/ /\ w.from = a.from
         /\ op = "AND" /\ b.from \in Constants /\ Unmasks(1, 2)
      \/ /\ w.from = "sum"
         /\ op \in Arithmetic /\ a.from \in Reads /\ b.from \in Named
         /\ b.from \in Constants => b.value # endianMul
      \/ w.from = "other"
  BY FromFacts
<1>u. /\ Unmasks(2, 1) => /\ a.value = address_mask /\ b.from \in Reads
                          /\ OnEthereum("AND", address_mask, b.value) = b.value
                          /\ OnEthereum("AND", address_mask, y.value) = y.value
      /\ Unmasks(1, 2) => /\ b.value = address_mask /\ a.from \in Reads
                          /\ OnEthereum("AND", address_mask, a.value) = a.value
                          /\ OnEthereum("AND", address_mask, x.value) = x.value
  BY DEF Unmasks
<1>n. /\ a.from \in Named => Says(getDismangledRegisterName(x)) = a.value
      /\ b.from \in Named => Says(getDismangledRegisterName(y)) = b.value
      /\ a.from \in Named /\ getDismangledRegisterName(x).of = "store" => a.slots
      /\ b.from \in Named /\ getDismangledRegisterName(y).of = "store" => b.slots
  BY <1>1, <1>5, NamedSays
<1> SUFFICES Means(r, w)
  OBVIOUS
<1> HIDE DEF x, y, a, b, e, r
<1>9. CASE w.from = "folded" /\ {a.from, b.from} \subseteq Constants
  <2>1. /\ x.type = "Constant" /\ y.type = "Constant"
        /\ x.value = a.value /\ y.value = b.value
    BY <1>5, <1>9 DEF Means
  <2>2. r.type = "Constant" /\ r.value = w.value
    BY <1>4, <1>6, <2>1
  <2>3. QED
    BY <1>9, <2>2 DEF Means, Constants, Reads
<1>10. CASE /\ w.from = b.from
            /\ op = "AND" /\ a.from = "constant" /\ Unmasks(2, 1)
  <2>1. x.value = address_mask /\ x.exp = NoExp
    BY <1>5, <1>10, <1>u DEF Means, Constants
  <2>2. /\ y.type \in {"UserInput", "StorageType"} /\ Ordinary(y.value)
        /\ y.name \in Atoms /\ Says(y.name) = b.value
        /\ y.name.of = "store" => b.slots
    BY <1>5, <1>10, <1>u DEF Means
  <2>3. Masks(op, x.value)
    BY <1>10, <2>1 DEF Masks
  <2>4. r.type = y.type /\ r.name = y.name /\ r.exp = NoExp /\ r.value = y.value
    BY <1>4, <1>7, <1>10, <1>u, <2>1, <2>3
  <2>5. w.value = b.value
    BY <1>6, <1>10, <1>u
  <2>6. w.from \in Reads /\ (b.slots => w.slots)
    BY <1>6, <1>10, <1>u
  <2>7. QED
    BY <2>2, <2>4, <2>5, <2>6 DEF Means, Constants, Reads
<1>11. CASE /\ w.from = a.from
            /\ op = "AND" /\ b.from \in Constants /\ Unmasks(1, 2)
  <2>1. y.value = address_mask
    BY <1>5, <1>11, <1>u DEF Means
  <2>2. /\ x.type \in {"UserInput", "StorageType"} /\ Ordinary(x.value)
        /\ x.name \in Atoms /\ Says(x.name) = a.value
        /\ x.name.of = "store" => a.slots
        /\ x.exp = NoExp
    BY <1>5, <1>11, <1>u DEF Means
  <2>3. ~Masks(op, x.value)
    BY <1>11, <2>2 DEF Masks, Ordinary
  <2>4. OnEthereum("AND", x.value, address_mask) = x.value
    BY <1>11, <1>u, AndCommutes
  <2>5. r.type = x.type /\ r.name = x.name /\ r.exp = NoExp /\ r.value = x.value
    BY <1>4, <1>7, <1>11, <2>1, <2>2, <2>3, <2>4
  <2>6. w.value = a.value
    BY <1>6, <1>11, <1>u, AndCommutes
  <2>7. w.from \in Reads /\ (a.slots => w.slots)
    BY <1>6, <1>11, <1>u
  <2>8. QED
    BY <2>2, <2>5, <2>6, <2>7 DEF Means, Constants, Reads
<1>12. CASE /\ w.from = "sum"
            /\ op \in Arithmetic /\ a.from \in Reads /\ b.from \in Named
            /\ b.from \in Constants => b.value # endianMul
  <2>1. x.type \in {"UserInput", "StorageType"} /\ Ordinary(x.value)
    BY <1>5, <1>12 DEF Means
  <2>2. y.value # endianMul
    <3>1. CASE b.from \in Constants
      BY <1>5, <1>12, <3>1 DEF Means
    <3>2. CASE b.from \in Reads
      BY <1>5, <1>12, <3>2 DEF Means, Ordinary
    <3>3. QED
      BY <1>12, <3>1, <3>2 DEF Named
  <2>3. x.value # endianMul /\ op \notin Logic /\ ~Masks(op, x.value)
    BY <1>12, <2>1 DEF Ordinary, Masks, Arithmetic, Logic
  <2>4. e = [ op |-> op, a |-> getDismangledRegisterName(x),
              b |-> getDismangledRegisterName(y) ]
    BY <2>2, <2>3 DEF Context, e, x, y
  <2>5. r.type = x.type /\ r.exp = e
    BY <1>4, <2>3
  <2>6. /\ Says(e.a) = a.value /\ Says(e.b) = b.value /\ e.op = op
        /\ "store" \in {e.a.of, e.b.of} => w.slots
    BY <1>6, <1>12, <1>n, <2>4 DEF Named
  <2>7. a.value # Nothing /\ b.value # Nothing /\ op \notin {"", "is"}
    BY <1>2, <1>12, WordFacts DEF Arithmetic
  <2>8. ExpSays(e) = w.value
    BY <1>6, <2>6, <2>7 DEF ExpSays
  <2>9. r.exp.op \in Arithmetic /\ r.type # "Constant"
    BY <1>12, <2>1, <2>5, <2>6
  <2>10. QED
    BY <1>12, <2>5, <2>6, <2>8, <2>9 DEF Means, Constants, Reads
<1>13. CASE w.from = "other"
  BY <1>13 DEF Means, Constants, Reads
<1>14. QED
  BY <1>8, <1>9, <1>10, <1>11, <1>12, <1>13

\* The operations with a result.
LEMMA BinaryStep ==
  ASSUME TextInv, Binary
  PROVE  TextInv'
<1>1. PICK op \in Arithmetic \cup Logic :
        /\ Begin(op, 2) /\ Quiet /\ EvmBinary(op)
        /\ m_stack' = << Result(op, InContext(op)) >> \o Pops(InContext(op), 2)
  BY DEF Binary
<1> DEFINE r == Result(op, InContext(op))
           v == OnEthereum(op, evm[1].value, evm[2].value)
           sl == evm[1].slots \/ evm[2].slots
           w == NewWord(v, FromOf(op), sl)
<1>2. TypeOK /\ m_stack \in Seq(Register)
  BY DEF TextInv, TypeOK
<1>3. Len(m_stack) >= 2
  BY <1>1, <1>2, BeginFacts
<1>4. op \in Binaries
  BY DEF Binaries
<1>5. InContext(op) \in Seq(Register) /\ Len(InContext(op)) = Len(m_stack)
  BY <1>2, <1>3, <1>4, InContextFacts
<1>6. r \in Register
  BY <1>3, <1>5, ResultTyped
<1>7. Pops(InContext(op), 2) \in Seq(Register)
  BY <1>3, <1>5, PopFacts
<1>8. m_stack' \in Seq(Register)
  BY <1>1, <1>6, <1>7, PushFacts
<1>9. OnEvm(<< w >> \o Pops(evm, 2))
  BY <1>1 DEF EvmBinary
<1>10. ASSUME ~strayed PROVE Matched(m_stack', evm', Pairs')
  <2>1. /\ Matched(m_stack, evm, Pairs') /\ steps' \in Nat /\ Inputs
        /\ Len(m_stack) = Len(evm) /\ Len(evm) \in Nat
        /\ \A i \in 1 .. Len(evm) : /\ m_stack[i] \in Register /\ evm[i] \in EvmWord
                                    /\ Means(m_stack[i], evm[i])
        /\ \A x \in Register, y \in EvmWord :
             y.id = steps' /\ Means(x, y) => << x, y >> \in Pairs'
    BY <1>1, <1>10, QuietPairs
  <2>2. /\ evm[1] \in EvmWord /\ Means(m_stack[1], evm[1])
        /\ evm[2] \in EvmWord /\ Means(m_stack[2], evm[2])
    BY <1>3, <2>1
  <2>3. evm[1].value \in Word /\ evm[2].value \in Word
    BY <2>2 DEF EvmWord
  <2>4. v \in Word
    BY <2>3, WordsClosed
  <2>5. sl \in BOOLEAN
    OBVIOUS
  <2>6. FromOf(op) \in { "constant", "folded", "argument", "slot", "sum", "compared", "other" }
    <3>1. /\ evm[1].from \in { "constant", "folded", "argument", "slot", "sum",
                               "compared", "other" }
          /\ evm[2].from \in { "constant", "folded", "argument", "slot", "sum",
                               "compared", "other" }
      BY <2>2 DEF EvmWord
    <3>2. QED
      BY <3>1, FromFacts
  <2> HIDE DEF v, sl
  <2>7. /\ w \in EvmWord /\ w.id = steps' /\ w.from = FromOf(op) /\ w.value = v
        /\ w.slots = sl
    BY <2>1, <2>4, <2>5, <2>6 DEF NewWord, EvmWord
  <2>8. evm' = << w >> \o Pops(evm, 2)
    BY <1>9, <1>10 DEF OnEvm
  <2> HIDE DEF w
  <2>9. w.value = OnEthereum(op, evm[1].value, evm[2].value)
    BY <2>7 DEF v
  <2>10. w.slots = (evm[1].slots \/ evm[2].slots)
    BY <2>7 DEF sl
  <2>11. Means(r, w)
    BY <1>2, <1>3, <2>1, <2>2, <2>7, <2>9, <2>10, ResultMeans
  <2> HIDE DEF r
  <2>12. << r, w >> \in Pairs'
    BY <1>6, <2>1, <2>7, <2>11
  <2>13. Matched(Pops(InContext(op), 2), Pops(evm, 2), Pairs')
    BY <1>3, <1>4, <2>1, BelowMatched
  <2>14. QED
    BY <1>1, <1>6, <2>7, <2>8, <2>12, <2>13, PushMatched DEF r
<1>11. strayed => evm' = evm
  BY <1>9 DEF OnEvm
<1>12. QED
  BY <1>1, <1>8, <1>10, <1>11, QuietStep

\* The process that has ended prints no more.
LEMMA ModByZeroStep ==
  ASSUME TextInv, ModByZero
  PROVE  TextInv'
<1>1. /\ Begin("MOD", 2) /\ status' = "thrown"
      /\ UNCHANGED << m_stack, ifStmt, printed, storage, evm, test, strayed >>
  BY DEF ModByZero
<1>2. TypeOK /\ (~strayed => Matched(m_stack, evm, Pairs) /\ TestFits)
  BY DEF TextInv
<1>3. /\ code' \in Seq(SUBSET Insts) /\ steps \in Nat /\ steps' = steps + 1
      /\ m_data' = m_data /\ calldata' = calldata
  BY <1>1, <1>2, BeginFacts
<1>4. TypeOK'
  BY <1>1, <1>2, <1>3 DEF TypeOK
<1>5. ASSUME ~strayed' PROVE Matched(m_stack, evm, Pairs)' /\ TestFits'
  <2>1. Pairs \subseteq Pairs'
    BY <1>1, <1>3, PairsStay
  <2>2. Matched(m_stack, evm, Pairs')
    BY <1>1, <1>2, <1>5, <2>1, WiderMatched
  <2>3. test.id \in Nat
    BY <1>2 DEF TypeOK
  <2>4. TestFits'
    BY <1>1, <1>2, <1>3, <1>5, <2>3, TestStays
  <2>5. QED
    BY <1>1, <2>2, <2>4
<1>6. ConditionFaithful' /\ StoreFaithful'
  BY <1>1 DEF TextInv, ConditionFaithful, StoreFaithful
<1>7. QED
  BY <1>4, <1>5, <1>6 DEF TextInv

\* NOT.
LEMMA NotStep ==
  ASSUME TextInv, Not
  PROVE  TextInv'
<1> DEFINE r == WithValue(m_stack[1], Complement(m_stack[1].value))
           f == IF evm[1].from \in Constants THEN "folded" ELSE "other"
           v == Modulus - 1 - evm[1].value
           w == NewWord(v, f, evm[1].slots)
<1>1. Begin("NOT", 1) /\ Quiet /\ m_stack' = [m_stack EXCEPT ![1] = r]
  BY DEF Not
<1>2. OnEvm([evm EXCEPT ![1] =
       NewWord(Modulus - 1 - @.value,
               IF @.from \in Constants THEN "folded" ELSE "other", @.slots)])
  BY DEF Not
<1>3. OnEvm([evm EXCEPT ![1] = w])
  BY <1>2
<1>4. TypeOK /\ m_stack \in Seq(Register)
  BY DEF TextInv, TypeOK
<1>5. Len(m_stack) >= 1 /\ m_stack[1] \in Register
  BY <1>1, <1>4, BeginFacts, ElementFacts
<1>6. /\ m_stack[1].value \in Word /\ m_stack[1].name \in Text /\ m_stack[1].exp \in Exp
  BY <1>5 DEF Register
<1>7. Complement(m_stack[1].value) \in Word
  BY <1>6, WordFacts
<1>8. r \in Register
  BY <1>5, <1>6, <1>7, RegistersTyped
<1>9. r.type = m_stack[1].type /\ r.value = Complement(m_stack[1].value)
  BY DEF WithValue
<1> HIDE DEF r
<1>10. m_stack' \in Seq(Register)
  BY <1>1, <1>4, <1>5, <1>8, TopFacts
<1>11. ASSUME ~strayed PROVE Matched(m_stack', evm', Pairs')
  <2>1. /\ Matched(m_stack, evm, Pairs') /\ steps' \in Nat
        /\ Len(m_stack) = Len(evm) /\ Len(evm) \in Nat
        /\ \A i \in 1 .. Len(evm) : /\ m_stack[i] \in Register /\ evm[i] \in EvmWord
                                    /\ Means(m_stack[i], evm[i])
        /\ \A x \in Register, y \in EvmWord :
             y.id = steps' /\ Means(x, y) => << x, y >> \in Pairs'
    BY <1>1, <1>11, QuietPairs
  <2>2. evm[1] \in EvmWord /\ Means(m_stack[1], evm[1])
    BY <1>5, <2>1
  <2>3. evm[1].value \in Word /\ evm[1].slots \in BOOLEAN
    BY <2>2 DEF EvmWord
  <2>4. v \in Word /\ v = Complement(evm[1].value) /\ f \in {"folded", "other"}
    BY <2>3, WordFacts
  <2>5. f = "folded" => r.type = "Constant" /\ r.value = v
    BY <1>9, <2>2, <2>4 DEF Means
  <2> HIDE DEF v, f
  <2>6. /\ w \in EvmWord /\ w.id = steps' /\ w.from = f /\ w.value = v
    BY <2>1, <2>3, <2>4 DEF NewWord, EvmWord
  <2>7. evm' = [evm EXCEPT ![1] = w]
    BY <1>3, <1>11 DEF OnEvm
  <2> HIDE DEF w
  <2>8. Means(r, w)
    BY <2>4, <2>5, <2>6 DEF Means, Constants, Reads
  <2>9. << r, w >> \in Pairs'
    BY <1>8, <2>1, <2>6, <2>8
  <2>10. QED
    BY <1>1, <1>5, <1>8, <2>1, <2>6, <2>7, <2>9, TopMatched
<1>12. strayed => evm' = evm
  BY <1>3 DEF OnEvm
<1>13. QED
  BY <1>1, <1>10, <1>11, <1>12, QuietStep

-----------------------------------------------------------------------------
(***************************************************************************)
(* The tests.                                                              *)
(***************************************************************************)
\* The words there are when a test is made are not of that test.
LEMMA PairsOfTest ==
  ASSUME steps \in Nat, steps' = steps + 1, UNCHANGED << calldata, storage >>,
         test'.id = steps' \/ ~test'.clean
  PROVE  Pairs \subseteq Pairs'
<1>1. ASSUME NEW r \in Register, NEW w \in EvmWord, Fits(r, w)
      PROVE  Fits(r, w)'
  <2>1. Means(r, w)'
    BY <1>1, MeansSame DEF Fits
  <2>2. w.id \in Nat /\ w.id <= steps
    BY <1>1 DEF Fits, EvmWord
  <2>3. w.id # steps' /\ w.id <= steps'
    BY <2>2
  <2>4. QED
    BY <2>1, <2>3 DEF Fits, Agrees
<1>2. QED
  BY <1>1 DEF Pairs

\* The operators of setCondition are those of the instructions.
LEMMA OperatorFacts ==
  ASSUME NEW op \in {"LT", "GT", "EQ"}, NEW a, NEW b
  PROVE  CondOf[op] \in Compared /\ (Holds(CondOf[op], a, b) <=> Compare(op, a, b))
<1>1. CASE op = "LT"
  <2>1. CondOf[op] = "LessThan"
    BY <1>1 DEF CondOf
  <2>2. Holds("LessThan", a, b) <=> a < b
    BY Zenon DEF Holds
  <2>3. Compare("LT", a, b) <=> a < b
    BY Zenon DEF Compare
  <2>4. QED
    BY <1>1, <2>1, <2>2, <2>3, Zenon DEF Compared
<1>2. CASE op = "GT"
  <2>1. CondOf[op] = "GreaterThan"
    BY <1>2 DEF CondOf
  <2>2. Holds("GreaterThan", a, b) <=> a > b
    BY Zenon DEF Holds
  <2>3. Compare("GT", a, b) <=> a > b
    BY Zenon DEF Compare
  <2>4. QED
    BY <1>2, <2>1, <2>2, <2>3, Zenon DEF Compared
<1>3. CASE op = "EQ"
  <2>1. CondOf[op] = "Equal"
    BY <1>3 DEF CondOf
  <2>2. Holds("Equal", a, b) <=> a = b
    BY Zenon DEF Holds
  <2>3. Compare("EQ", a, b) <=> a = b
    BY Zenon DEF Compare
  <2>4. QED
    BY <1>3, <2>1, <2>2, <2>3, Zenon DEF Compared
<1>4. QED
  BY <1>1, <1>2, <1>3

\* What LT, GT and EQ make of the statement and of the first register.
LEMMA ComparisonSays ==
  ASSUME NEW op \in {"LT", "GT", "EQ"}, Inputs,
         m_stack \in Seq(Register), Len(m_stack) >= 2,
         evm[1] \in EvmWord, evm[2] \in EvmWord,
         Means(m_stack[1], evm[1]), Means(m_stack[2], evm[2]),
         evm[1].from \in Named, evm[2].from \in Named
  PROVE  /\ setCondition(op, InContext(op)).m_cond \in Compared
         /\ StatementSays(setCondition(op, InContext(op)))
              = OnEthereum(op, evm[1].value, evm[2].value)
         /\ OnEthereum(op, evm[1].value, evm[2].value) \in {0, 1}
         /\ evm[1].slots \/ evm[2].slots \/ NoSlots(setCondition(op, InContext(op)))
         /\ Context(op, m_stack).op = op
         /\ ExpSays(Context(op, m_stack)) = OnEthereum(op, evm[1].value, evm[2].value)
         /\ "store" \in {Context(op, m_stack).a.of, Context(op, m_stack).b.of} =>
              evm[1].slots \/ evm[2].slots
<1> DEFINE x == m_stack[1]
           y == m_stack[2]
           a == evm[1]
           b == evm[2]
           e == Context(op, m_stack)
           st == setCondition(op, InContext(op))
           first == getDismangledRegisterName(x)
           second == getDismangledRegisterName(y)
<1>0. op \in Binaries /\ op \in Comparison /\ op \notin Arithmetic \cup Logic /\ op # "ISZERO"
  BY DEF Binaries, Arithmetic, Logic, Comparison
<1>1. /\ x \in Register /\ y \in Register /\ e \in Exp
      /\ InContext(op)[1] = WithExp(x, e) /\ InContext(op)[2] = y
  BY <1>0, InContextFacts
<1>2. a.value \in Word /\ b.value \in Word
  BY DEF EvmWord
<1>3. /\ Says(first) = a.value /\ Says(second) = b.value
  BY <1>1, NamedSays
<1>4. e = [op |-> op, a |-> first, b |-> second]
  BY <1>0 DEF Context
<1>5. st = [m_cond |-> CondOf[op], m_op1 |-> WithExp(x, e), m_op2 |-> y]
  BY <1>0, <1>1 DEF setCondition
<1>6. getDismangledRegisterName(WithExp(x, e)) = first
  BY DEF getDismangledRegisterName, WithExp, IsConstant
<1>7. OnEthereum(op, a.value, b.value) = Bit(Compare(op, a.value, b.value))
  BY <1>0, OperationFacts
<1>s. first.of = "store" => a.slots
  BY <1>1, NamedSays
<1>t. second.of = "store" => b.slots
  BY <1>1, NamedSays
<1> SUFFICES /\ st.m_cond \in Compared
             /\ StatementSays(st) = OnEthereum(op, a.value, b.value)
             /\ OnEthereum(op, a.value, b.value) \in {0, 1}
             /\ a.slots \/ b.slots \/ NoSlots(st)
             /\ e.op = op /\ ExpSays(e) = OnEthereum(op, a.value, b.value)
             /\ "store" \in {e.a.of, e.b.of} => a.slots \/ b.slots
  OBVIOUS
<1> HIDE DEF x, y, a, b, e, st, first, second
<1>8. st.m_cond \in Compared /\ st.m_cond \notin Asking
  BY <1>5, OperatorFacts DEF Compared, Asking
<1>9. StatementSays(st) = Bit(Holds(CondOf[op], a.value, b.value))
  <2>1. /\ Says(getDismangledRegisterName(st.m_op1)) = a.value
        /\ Says(getDismangledRegisterName(st.m_op2)) = b.value
    BY <1>3, <1>5, <1>6 DEF second
  <2>2. a.value # Nothing /\ b.value # Nothing
    BY <1>2, WordFacts
  <2>3. StatementSays(st)
          = IF Nothing \in { Says(getDismangledRegisterName(st.m_op1)),
                             Says(getDismangledRegisterName(st.m_op2)) }
              THEN Nothing
              ELSE Bit(Holds(st.m_cond, Says(getDismangledRegisterName(st.m_op1)),
                                        Says(getDismangledRegisterName(st.m_op2))))
    BY <1>8 DEF StatementSays, Compared
  <2>4. st.m_cond = CondOf[op]
    BY <1>5
  <2>5. QED
    BY <2>1, <2>2, <2>3, <2>4
<1>10. StatementSays(st) = OnEthereum(op, a.value, b.value)
  BY <1>7, <1>9, OperatorFacts DEF Bit
<1>11. OnEthereum(op, a.value, b.value) \in {0, 1}
  BY <1>7, BitFacts
<1>12. a.slots \/ b.slots \/ NoSlots(st)
  BY <1>s, <1>t, <1>5, <1>6, <1>8 DEF NoSlots, second
<1>13. e.op = op /\ ExpSays(e) = OnEthereum(op, a.value, b.value)
  <2>1. /\ e.op = op /\ e.op \notin {"", "is"}
        /\ Says(e.a) = a.value /\ Says(e.b) = b.value
        /\ Says(e.a) # Nothing /\ Says(e.b) # Nothing
    BY <1>2, <1>3, <1>4, WordFacts
  <2>2. QED
    BY <2>1 DEF ExpSays
<1>14. "store" \in {e.a.of, e.b.of} => a.slots \/ b.slots
  BY <1>s, <1>t, <1>4
<1>15. QED
  BY <1>8, <1>10, <1>11, <1>12, <1>13, <1>14

\* A test that its own word agrees with.
LEMMA NewTestFits ==
  ASSUME steps \in Nat, steps' = steps + 1, UNCHANGED << calldata, storage >>,
         test'.id = steps',
         NEW st \in Statement, ifStmt' = st, st.m_cond # Undefined,
         NEW r \in Register, NEW w \in EvmWord, w.id = steps', Means(r, w),
         test'.clean =>
           /\ w.value = StatementSays(st) /\ w.slots = test'.slots
           /\ st.m_cond \in Compared \cup Asking
           /\ st.m_cond \in Asking => st.m_op1.exp.op \notin Arithmetic
           /\ StatementSays(st) \in {0, 1}
           /\ test'.slots \/ NoSlots(st)
  PROVE  << r, w >> \in Pairs' /\ TestFits'
<1>1. Means(r, w)'
  BY MeansSame
<1>2. StatementSays(ifStmt)' = StatementSays(st)
  BY SaysSame
<1>3. Agrees(w)'
  BY <1>2 DEF Agrees
<1>4. w.id <= steps'
  OBVIOUS
<1>5. Fits(r, w)'
  BY <1>1, <1>3, <1>4 DEF Fits
<1>6. << r, w >> \in Pairs'
  BY <1>5 DEF Pairs
<1>7. NoSlots(ifStmt)' <=> NoSlots(st)
  BY DEF NoSlots
<1>8. test'.id # 0 /\ test'.id <= steps'
  OBVIOUS
<1>9. test'.clean => CleanTest'
  BY <1>2, <1>7, <1>8 DEF CleanTest
<1>10. TestFits'
  BY <1>8, <1>9 DEF TestFits
<1>11. QED
  BY <1>6, <1>10

\* LT, GT and EQ.
LEMMA CompareTwoStep ==
  ASSUME TextInv, CompareTwo
  PROVE  TextInv'
<1>1. PICK op \in {"LT", "GT", "EQ"} :
        /\ Begin(op, 2) /\ EvmBinary(op)
        /\ ifStmt' = setCondition(op, InContext(op))
        /\ m_stack' = << Flag(Bit(Compare(op, InContext(op)[1].value,
                                              InContext(op)[2].value)),
                              InContext(op)[2].name, InContext(op)[1].exp) >>
                        \o Pops(InContext(op), 2)
        /\ test' = IF strayed THEN test
                   ELSE [ id |-> steps', slots |-> evm[1].slots \/ evm[2].slots,
                          clean |-> FromOf(op) # "other" ]
        /\ UNCHANGED << status, printed, storage, strayed >>
  BY DEF CompareTwo
<1> DEFINE s == InContext(op)
           e == Context(op, m_stack)
           st == setCondition(op, s)
           r == Flag(Bit(Compare(op, s[1].value, s[2].value)), s[2].name, s[1].exp)
           v == OnEthereum(op, evm[1].value, evm[2].value)
           sl == evm[1].slots \/ evm[2].slots
           w == NewWord(v, FromOf(op), sl)
<1>2. TypeOK /\ m_stack \in Seq(Register) /\ ifStmt \in Statement
  BY DEF TextInv, TypeOK
<1>3. /\ Len(m_stack) >= 2 /\ Inputs
      /\ code' \in Seq(SUBSET Insts) /\ steps \in Nat /\ steps' = steps + 1
      /\ m_data' = m_data /\ calldata' = calldata
  BY <1>1, <1>2, BeginFacts
<1>4. op \in Binaries /\ op \in Comparison
  BY DEF Binaries, Comparison
<1>5. /\ s \in Seq(Register) /\ Len(s) = Len(m_stack)
      /\ s[1] = WithExp(m_stack[1], e) /\ s[2] = m_stack[2]
      /\ m_stack[1] \in Register /\ m_stack[2] \in Register /\ e \in Exp
  BY <1>2, <1>3, <1>4, InContextFacts
<1>6. /\ s[1].exp = e /\ s[2].name \in Text
      /\ Bit(Compare(op, s[1].value, s[2].value)) \in Word
  BY <1>5, BitFacts DEF WithExp, Register
<1>7. r \in Register
  BY <1>5, <1>6, RegistersTyped
<1>8. r.exp = e /\ r.type = "RegTypeFlag"
  BY <1>6 DEF Flag
<1>9. st \in Statement /\ st.m_cond # Undefined
  BY <1>2, <1>3, <1>5, ConditionTyped
<1>10. Pops(s, 2) \in Seq(Register)
  BY <1>3, <1>5, PopFacts
<1> HIDE DEF r
<1>11. m_stack' \in Seq(Register)
  BY <1>1, <1>7, <1>10, PushFacts DEF r
<1>12. OnEvm(<< w >> \o Pops(evm, 2))
  BY <1>1 DEF EvmBinary
<1>13. ASSUME ~strayed
       PROVE  /\ Matched(m_stack', evm', Pairs') /\ TestFits'
              /\ test' \in [id : Nat, clean : BOOLEAN, slots : BOOLEAN]
  <2>1. Matched(m_stack, evm, Pairs)
    BY <1>13 DEF TextInv
  <2>2. /\ Len(m_stack) = Len(evm) /\ Len(evm) \in Nat
        /\ \A i \in 1 .. Len(evm) : /\ m_stack[i] \in Register /\ evm[i] \in EvmWord
                                    /\ Means(m_stack[i], evm[i])
    BY <1>2, <2>1, FitsAt DEF Fits
  <2>3. /\ evm[1] \in EvmWord /\ Means(m_stack[1], evm[1])
        /\ evm[2] \in EvmWord /\ Means(m_stack[2], evm[2])
    BY <1>3, <2>2
  <2>4. evm[1].value \in Word /\ evm[2].value \in Word
    BY <2>3 DEF EvmWord
  <2>5. v \in Word
    BY <1>4, <2>4, WordsClosed
  <2>6. sl \in BOOLEAN
    OBVIOUS
  <2>7. FromOf(op) \in {"compared", "other"}
    BY <1>4, FromOfComparison
  <2>8. /\ test'.id = steps' /\ test'.slots = sl /\ test'.clean = (FromOf(op) # "other")
        /\ test' \in [id : Nat, clean : BOOLEAN, slots : BOOLEAN]
    <3>1. test' = [id |-> steps', slots |-> sl, clean |-> FromOf(op) # "other"]
      BY <1>1, <1>13
    <3>2. steps' \in Nat
      BY <1>3
    <3> DEFINE c == FromOf(op) # "other"
    <3>3. c \in BOOLEAN
      OBVIOUS
    <3>4. test' = [id |-> steps', slots |-> sl, clean |-> c]
      BY <3>1
    <3> HIDE DEF c, sl
    <3>5. /\ test'.id = steps' /\ test'.slots = sl /\ test'.clean = c
          /\ test' \in [id : Nat, clean : BOOLEAN, slots : BOOLEAN]
      BY <2>6, <3>2, <3>3, <3>4
    <3>6. QED
      BY <3>5 DEF c
  <2>9. CASE FromOf(op) = "compared"
    <3>1. evm[1].from \in Named /\ evm[2].from \in Named
      BY <1>4, <2>9, FromOfComparison
    <3>2. /\ st.m_cond \in Compared /\ StatementSays(st) = v /\ v \in {0, 1}
          /\ sl \/ NoSlots(st)
          /\ e.op = op /\ ExpSays(e) = v
          /\ "store" \in {e.a.of, e.b.of} => sl
      BY <1>2, <1>3, <2>3, <3>1, ComparisonSays
    <3>3. st.m_cond \notin Asking
      BY <3>2 DEF Compared, Asking
    <3> HIDE DEF v, sl, st, e
    <3>4. /\ w \in EvmWord /\ w.id = steps' /\ w.from = "compared" /\ w.value = v
          /\ w.slots = sl
      BY <1>3, <2>5, <2>6, <2>9 DEF NewWord, EvmWord
    <3>5. evm' = << w >> \o Pops(evm, 2)
      BY <1>12, <1>13 DEF OnEvm
    <3> HIDE DEF w
    <3>6. Means(r, w)
      <4>1. "store" \in {r.exp.a.of, r.exp.b.of} => w.slots
        BY <1>8, <3>2, <3>4, Zenon
      <4>2. r.exp.op \in Comparison /\ ExpSays(r.exp) = w.value /\ r.type # "Constant"
        BY <1>4, <1>8, <3>2, <3>4
      <4>3. QED
        BY <3>4, <4>1, <4>2 DEF Means, Constants, Reads
    <3>7. << r, w >> \in Pairs' /\ TestFits'
      <4>1. ifStmt' = st /\ calldata' = calldata /\ storage' = storage
        BY <1>1, <1>3 DEF st
      <4>2. test'.id = steps' /\ test'.slots = sl
        BY <2>8 DEF sl
      <4>3. st \in Statement /\ st.m_cond # Undefined
        BY <1>9 DEF st
      <4>4. QED
        BY <1>3, <1>7, <3>2, <3>3, <3>4, <3>6, <4>1, <4>2, <4>3, NewTestFits
    <3>8. Pairs \subseteq Pairs'
      BY <1>1, <1>3, <2>8, PairsOfTest
    <3>9. Matched(m_stack, evm, Pairs')
      BY <2>1, <3>8, WiderMatched
    <3>10. Matched(Pops(s, 2), Pops(evm, 2), Pairs')
      BY <1>3, <1>4, <3>9, BelowMatched
    <3>11. Matched(m_stack', evm', Pairs')
      BY <1>1, <1>7, <3>4, <3>5, <3>7, <3>10, PushMatched DEF r
    <3>12. QED
      BY <2>8, <3>7, <3>11
  <2>10. CASE FromOf(op) = "other"
    <3> HIDE DEF v, sl, st, e
    <3>1. /\ w \in EvmWord /\ w.id = steps' /\ w.from = "other" /\ w.value = v
          /\ w.slots = sl
      BY <1>3, <2>5, <2>6, <2>10 DEF NewWord, EvmWord
    <3>2. evm' = << w >> \o Pops(evm, 2)
      BY <1>12, <1>13 DEF OnEvm
    <3> HIDE DEF w
    <3>3. Means(r, w)
      BY <3>1 DEF Means, Constants, Reads
    <3>4. << r, w >> \in Pairs' /\ TestFits'
      <4>1. ifStmt' = st /\ calldata' = calldata /\ storage' = storage
        BY <1>1, <1>3 DEF st
      <4>2. test'.id = steps' /\ ~test'.clean
        BY <2>8, <2>10
      <4>3. st \in Statement /\ st.m_cond # Undefined
        BY <1>9 DEF st
      <4>4. QED
        BY <1>3, <1>7, <3>1, <3>3, <4>1, <4>2, <4>3, NewTestFits
    <3>5. Pairs \subseteq Pairs'
      BY <1>1, <1>3, <2>8, PairsOfTest
    <3>6. Matched(m_stack, evm, Pairs')
      BY <2>1, <3>5, WiderMatched
    <3>7. Matched(Pops(s, 2), Pops(evm, 2), Pairs')
      BY <1>3, <1>4, <3>6, BelowMatched
    <3>8. Matched(m_stack', evm', Pairs')
      BY <1>1, <1>7, <3>1, <3>2, <3>4, <3>7, PushMatched DEF r
    <3>9. QED
      BY <2>8, <3>4, <3>8
  <2>11. QED
    BY <2>7, <2>9, <2>10
<1>14. evm' \in Seq(EvmWord)
  BY <1>2, <1>12, <1>13 DEF TypeOK, OnEvm, Matched
<1>15. test' \in [id : Nat, clean : BOOLEAN, slots : BOOLEAN]
  BY <1>1, <1>2, <1>13 DEF TypeOK
<1>16. steps' \in Nat /\ ifStmt' \in Statement
  BY <1>1, <1>3, <1>9
<1>17. TypeOK'
  BY <1>1, <1>2, <1>3, <1>11, <1>14, <1>15, <1>16 DEF TypeOK
<1>18. ConditionFaithful' /\ StoreFaithful'
  BY <1>1 DEF TextInv, ConditionFaithful, StoreFaithful
<1>19. ~strayed' => Matched(m_stack, evm, Pairs)' /\ TestFits'
  BY <1>1, <1>13
<1>20. QED
  BY <1>17, <1>18, <1>19 DEF TextInv

\* An operator and its negation.
LEMMA NegatedOperators ==
  ASSUME NEW c \in Compared, NEW a \in Nat, NEW b \in Nat
  PROVE  /\ NegateCondition(c) \in Compared
         /\ Holds(NegateCondition(c), a, b) <=> ~Holds(c, a, b)
<1>1. /\ Holds("Equal", a, b) <=> a = b
      /\ Holds("Different", a, b) <=> a # b
      /\ Holds("LessThan", a, b) <=> a < b
      /\ Holds("GreaterEqualThan", a, b) <=> a >= b
      /\ Holds("GreaterThan", a, b) <=> a > b
      /\ Holds("LessEqualThan", a, b) <=> a <= b
  BY Zenon DEF Holds
<1>2. /\ a # b <=> ~(a = b)
      /\ a < b <=> ~(a >= b)
      /\ a > b <=> ~(a <= b)
  OBVIOUS
<1>3. CASE c \in {"Equal", "Different"}
  BY <1>1, <1>2, <1>3, NegationFacts, Zenon DEF Compared
<1>4. CASE c \in {"LessThan", "GreaterEqualThan"}
  BY <1>1, <1>2, <1>4, NegationFacts, Zenon DEF Compared
<1>5. CASE c \in {"GreaterThan", "LessEqualThan"}
  BY <1>1, <1>2, <1>5, NegationFacts, Zenon DEF Compared
<1>6. QED
  BY <1>3, <1>4, <1>5, Zenon DEF Compared

\* The statement with its condition negated.
Negated(st) ==
  [m_cond |-> NegateCondition(st.m_cond), m_op1 |-> st.m_op1, m_op2 |-> st.m_op2]

\* It says the contrary, and names the same.
LEMMA NegationSays ==
  ASSUME Inputs, NEW st \in Statement, st.m_cond \in Compared \cup Asking,
         st.m_cond \in Asking => st.m_op1.exp.op \notin Arithmetic,
         StatementSays(st) \in {0, 1}
  PROVE  /\ StatementSays(Negated(st)) = Bit(StatementSays(st) = 0)
         /\ Negated(st).m_cond \in Compared \cup Asking
         /\ Negated(st).m_cond \in Asking => Negated(st).m_op1.exp.op \notin Arithmetic
         /\ NoSlots(st) => NoSlots(Negated(st))
<1> DEFINE n == Negated(st)
           a == Says(getDismangledRegisterName(st.m_op1))
           b == Says(getDismangledRegisterName(st.m_op2))
           e == st.m_op1.exp
<1>1. /\ n.m_cond = NegateCondition(st.m_cond)
      /\ n.m_op1 = st.m_op1 /\ n.m_op2 = st.m_op2
  BY DEF Negated
<1>2. Compared \cap Asking = {} /\ Nothing \notin {0, 1}
  BY DEF Compared, Asking, Nothing
<1> HIDE DEF n
<1>3. CASE st.m_cond \in Compared
  <2>1. st.m_op1 \in Register /\ st.m_op2 \in Register
    BY DEF Statement
  <2>2. /\ getDismangledRegisterName(st.m_op1) \in Text
        /\ getDismangledRegisterName(st.m_op2) \in Text
    BY <2>1, DismangledTyped
  <2>3. a \in Word \cup {Nothing} /\ b \in Word \cup {Nothing}
    BY <2>2, SaysTyped
  <2>4. StatementSays(st) = IF Nothing \in {a, b} THEN Nothing
                            ELSE Bit(Holds(st.m_cond, a, b))
    BY <1>3 DEF StatementSays, Compared
  <2>5. a \in Nat /\ b \in Nat /\ Nothing \notin {a, b}
    BY <1>2, <2>3, <2>4, WordFacts
  <2>6. /\ n.m_cond \in Compared
        /\ Holds(n.m_cond, a, b) <=> ~Holds(st.m_cond, a, b)
    BY <1>1, <1>3, <2>5, NegatedOperators
  <2>7. StatementSays(n) = IF Nothing \in {a, b} THEN Nothing
                           ELSE Bit(Holds(n.m_cond, a, b))
    BY <1>1, <2>6 DEF StatementSays, Compared
  <2>8. /\ StatementSays(st) = Bit(Holds(st.m_cond, a, b))
        /\ StatementSays(n) = Bit(Holds(n.m_cond, a, b))
    BY <2>4, <2>5, <2>7
  <2>9. StatementSays(n) = Bit(StatementSays(st) = 0)
    BY <2>6, <2>8 DEF Bit
  <2>10. NoSlots(st) => NoSlots(n)
    BY <1>1, <1>2, <1>3, <2>6 DEF NoSlots
  <2>11. QED
    BY <1>2, <2>6, <2>9, <2>10 DEF n
<1>4. CASE st.m_cond \in Asking
  <2>1. n.m_cond \in Asking
    BY <1>1, <1>4, NegationFacts DEF Asking
  <2>2. e.op \notin Arithmetic
    BY <1>4
  <2>3. NotSays(e) = IF ExpSays(e) = Nothing THEN Nothing ELSE Bit(ExpSays(e) = 0)
    BY <2>2 DEF NotSays
  <2> DEFINE v == ExpSays(e)
  <2>4. /\ \A s : s.m_cond = "IsZero" => StatementSays(s) = NotSays(s.m_op1.exp)
        /\ \A s : s.m_cond = "IsNotZero" =>
             StatementSays(s) = IF ExpSays(s.m_op1.exp) = Nothing THEN Nothing
                                ELSE Bit(ExpSays(s.m_op1.exp) # 0)
    BY DEF StatementSays
  <2>5. ASSUME st.m_cond = "IsZero"
       PROVE  StatementSays(n) = Bit(StatementSays(st) = 0)
    <3>1. n.m_cond = "IsNotZero"
      BY <1>1, <2>5, NegationFacts
    <3>2. StatementSays(st) = IF v = Nothing THEN Nothing ELSE Bit(v = 0)
      BY <2>3, <2>4, <2>5
    <3>3. StatementSays(n) = IF v = Nothing THEN Nothing ELSE Bit(v # 0)
      BY <1>1, <2>4, <3>1
    <3> HIDE DEF v
    <3>4. QED
      BY <1>2, <3>2, <3>3 DEF Bit
  <2>6. ASSUME st.m_cond = "IsNotZero"
       PROVE  StatementSays(n) = Bit(StatementSays(st) = 0)
    <3>1. n.m_cond = "IsZero"
      BY <1>1, <2>6, NegationFacts
    <3>2. StatementSays(st) = IF v = Nothing THEN Nothing ELSE Bit(v # 0)
      BY <2>4, <2>6
    <3>3. StatementSays(n) = IF v = Nothing THEN Nothing ELSE Bit(v = 0)
      BY <1>1, <2>3, <2>4, <3>1
    <3> HIDE DEF v
    <3>4. QED
      BY <1>2, <3>2, <3>3 DEF Bit
  <2>7. StatementSays(n) = Bit(StatementSays(st) = 0)
    BY <1>4, <2>5, <2>6 DEF Asking
  <2>8. NoSlots(st) => NoSlots(n)
    BY <1>1, <1>2, <1>4, <2>1 DEF NoSlots
  <2>9. QED
    BY <1>1, <2>1, <2>2, <2>7, <2>8 DEF n
<1>5. QED
  BY <1>3, <1>4

\* What ISZERO asks about, when it comes first.
LEMMA AskedSays ==
  ASSUME Inputs, NEW x \in Register, NEW a \in EvmWord, Means(x, a),
         a.from \in {"constant", "argument", "slot", "compared"}
  PROVE  /\ Asked(x).op \notin Arithmetic
         /\ NotSays(Asked(x)) = Bit(a.value = 0)
         /\ "store" \in {Asked(x).a.of, Asked(x).b.of} => a.slots
<1> DEFINE e == Asked(x)
<1>1. a.value \in Word
  BY DEF EvmWord
<1>2. a.value # Nothing /\ "is" \notin Arithmetic /\ NoExp.op = ""
  BY <1>1, WordFacts DEF Arithmetic, NoExp
<1>3. CASE a.from \in Named
  <2>1. Says(getDismangledRegisterName(x)) = a.value
    BY <1>3, NamedSays
  <2>2. getDismangledRegisterName(x).of = "store" => a.slots
    BY <1>3, NamedSays
  <2>3. x.exp = NoExp
    BY <1>3 DEF Means, Named, Reads, Constants
  <2>4. e = [op |-> "is", a |-> getDismangledRegisterName(x), b |-> Unnamed]
    BY <2>3 DEF Asked
  <2>5. Unnamed.of = "var"
    BY DEF Unnamed
  <2> SUFFICES /\ e.op \notin Arithmetic /\ NotSays(e) = Bit(a.value = 0)
               /\ "store" \in {e.a.of, e.b.of} => a.slots
    OBVIOUS
  <2> HIDE DEF e
  <2>6. e.op = "is" /\ Says(e.a) = a.value
    BY <2>1, <2>4
  <2>7. "store" \in {e.a.of, e.b.of} => a.slots
    BY <2>2, <2>4, <2>5
  <2>8. ExpSays(e) = a.value
    BY <2>6 DEF ExpSays
  <2>9. NotSays(e) = Bit(a.value = 0)
    BY <1>2, <2>6, <2>8 DEF NotSays
  <2>10. QED
    BY <1>2, <2>6, <2>7, <2>9
<1>4. CASE a.from = "compared"
  <2>1. x.exp.op \in Comparison /\ ExpSays(x.exp) = a.value
    BY <1>4 DEF Means
  <2>2. "store" \in {x.exp.a.of, x.exp.b.of} => a.slots
    BY <1>4 DEF Means
  <2>3. x.exp # NoExp /\ x.exp.op \notin Arithmetic
    BY <1>2, <2>1 DEF Comparison, Arithmetic
  <2>4. e = x.exp
    BY <2>3 DEF Asked
  <2>5. NotSays(e) = Bit(a.value = 0)
    BY <1>2, <2>1, <2>3, <2>4 DEF NotSays
  <2>6. QED
    BY <2>2, <2>3, <2>4, <2>5
<1>5. QED
  BY <1>3, <1>4 DEF Named, Reads, Constants

\* ISZERO: a test of its own, or the contrary of the one before.
LEMMA IsZeroStep ==
  ASSUME TextInv, IsZero
  PROVE  TextInv'
<1> DEFINE x == m_stack[1]
           s == [m_stack EXCEPT ![1] = WithExp(x, Asked(x))]
           st == setCondition("ISZERO", s)
           r == Flag(Bit(x.value = 0), x.name, Asked(x))
           v == Bit(evm[1].value = 0)
           w == NewWord(v, "other", evm[1].slots)
           c == IF test.id = 0
                  THEN evm[1].from \in {"constant", "argument", "slot", "compared"}
                  ELSE test.clean /\ evm[1].id = test.id
<1>1. /\ Begin("ISZERO", 1) /\ ifStmt' = st
      /\ m_stack' = [s EXCEPT ![1] = Flag(Bit(@.value = 0), @.name, @.exp)]
      /\ test' = IF strayed THEN test
                 ELSE [id |-> steps', slots |-> evm[1].slots, clean |-> c]
      /\ UNCHANGED << status, printed, storage, strayed >>
  BY DEF IsZero
<1>2. OnEvm([evm EXCEPT ![1] = NewWord(Bit(@.value = 0), "other", @.slots)])
  BY DEF IsZero
<1>3. OnEvm([evm EXCEPT ![1] = w])
  BY <1>2
<1>4. TypeOK /\ m_stack \in Seq(Register) /\ ifStmt \in Statement
  BY DEF TextInv, TypeOK
<1>5. /\ Len(m_stack) >= 1 /\ Inputs
      /\ code' \in Seq(SUBSET Insts) /\ steps \in Nat /\ steps' = steps + 1
      /\ m_data' = m_data /\ calldata' = calldata
  BY <1>1, <1>4, BeginFacts
<1>6. x \in Register
  BY <1>4, <1>5, ElementFacts
<1>7. x.value \in Word /\ x.name \in Text /\ x.exp \in Exp /\ Asked(x) \in Exp
  BY <1>6, AskedTyped DEF Register
<1>8. WithExp(x, Asked(x)) \in Register
  BY <1>6, <1>7, RegistersTyped
<1>9. /\ s \in Seq(Register) /\ Len(s) = Len(m_stack) /\ s[1] = WithExp(x, Asked(x))
  BY <1>4, <1>5, <1>8, TopFacts
<1>10. r \in Register
  <2>1. Bit(x.value = 0) \in Word
    BY BitFacts
  <2>2. QED
    BY <1>6, <1>7, <2>1, RegistersTyped
<1>11. m_stack' = [m_stack EXCEPT ![1] = r]
  <2>1. m_stack' = [s EXCEPT ![1] = Flag(Bit(s[1].value = 0), s[1].name, s[1].exp)]
    BY <1>1
  <2>2. /\ s[1].value = x.value /\ s[1].name = x.name /\ s[1].exp = Asked(x)
    BY <1>9 DEF WithExp
  <2>3. m_stack' = [s EXCEPT ![1] = r]
    BY <2>1, <2>2
  <2> HIDE DEF r
  <2>4. QED
    BY <2>3
<1>12. st \in Statement /\ st.m_cond # Undefined
  BY <1>4, <1>5, <1>9, ConditionTyped
<1> HIDE DEF r
<1>13. m_stack' \in Seq(Register)
  BY <1>4, <1>5, <1>10, <1>11, TopFacts
<1>14. ASSUME ~strayed
       PROVE  /\ Matched(m_stack', evm', Pairs') /\ TestFits'
              /\ test' \in [id : Nat, clean : BOOLEAN, slots : BOOLEAN]
  <2>1. Matched(m_stack, evm, Pairs) /\ TestFits
    BY <1>14 DEF TextInv
  <2>2. /\ Len(m_stack) = Len(evm) /\ Len(evm) \in Nat
        /\ \A i \in 1 .. Len(evm) : /\ m_stack[i] \in Register /\ evm[i] \in EvmWord
                                    /\ Fits(m_stack[i], evm[i])
    BY <1>4, <2>1, FitsAt
  <2>3. evm[1] \in EvmWord /\ Means(x, evm[1]) /\ Agrees(evm[1])
    BY <1>5, <2>2 DEF Fits
  <2>4. evm[1].slots \in BOOLEAN
    BY <2>3 DEF EvmWord
  <2>5. v \in Word
    BY BitFacts
  <2>6. v \in {0, 1}
    BY BitFacts
  <2>7. /\ w \in EvmWord /\ w.id = steps' /\ w.from = "other" /\ w.value = v
        /\ w.slots = evm[1].slots
    <3> HIDE DEF v
    <3>1. QED
      BY <1>5, <2>4, <2>5 DEF NewWord, EvmWord
  <2>8. c \in BOOLEAN
    <3>1. CASE test.id = 0
      BY <3>1, SMT
    <3>2. CASE test.id # 0
      BY <3>2, Zenon
    <3>3. QED
      BY <3>1, <3>2
  <2>9. /\ test'.id = steps' /\ test'.slots = evm[1].slots /\ test'.clean = c
        /\ test' \in [id : Nat, clean : BOOLEAN, slots : BOOLEAN]
    <3>1. test' = [id |-> steps', slots |-> evm[1].slots, clean |-> c]
      BY <1>1, <1>14
    <3>2. steps' \in Nat
      BY <1>5
    <3> HIDE DEF c
    <3>3. QED
      BY <2>4, <2>8, <3>1, <3>2
  <2>10. ASSUME c
         PROVE  /\ v = StatementSays(st) /\ st.m_cond \in Compared \cup Asking
                /\ st.m_cond \in Asking => st.m_op1.exp.op \notin Arithmetic
                /\ evm[1].slots \/ NoSlots(st)
    <3>1. CASE test.id = 0
      <4>1. evm[1].from \in {"constant", "argument", "slot", "compared"}
        BY <2>10, <3>1
      <4>2. ifStmt.m_cond = Undefined
        BY <2>1, <3>1 DEF TestFits
      <4>3. st.m_cond = "IsZero" /\ st.m_op1 = WithExp(x, Asked(x))
        BY <1>9, <4>2 DEF setCondition
      <4>4. st.m_op1.exp = Asked(x)
        BY <4>3 DEF WithExp
      <4>5. /\ Asked(x).op \notin Arithmetic
            /\ NotSays(Asked(x)) = v
            /\ "store" \in {Asked(x).a.of, Asked(x).b.of} => evm[1].slots
        BY <1>5, <1>6, <2>3, <4>1, AskedSays
      <4>6. StatementSays(st) = NotSays(Asked(x))
        BY <4>3, <4>4 DEF StatementSays
      <4>7. st.m_cond \in Asking /\ st.m_cond \notin Compared
        BY <4>3 DEF Asking, Compared
      <4> HIDE DEF v, st, x
      <4>8. evm[1].slots \/ NoSlots(st)
        BY <4>4, <4>5, <4>7 DEF NoSlots
      <4>9. QED
        BY <4>4, <4>5, <4>6, <4>7, <4>8
    <3>2. CASE test.id # 0
      <4>1. test.clean /\ evm[1].id = test.id
        BY <2>10, <3>2
      <4>2. CleanTest
        BY <2>1, <4>1 DEF TestFits
      <4>3. evm[1].value = StatementSays(ifStmt) /\ evm[1].slots = test.slots
        BY <2>3, <4>1 DEF Agrees
      <4>4. ifStmt.m_cond # Undefined
        BY <2>1, <3>2 DEF TestFits
      <4>5. st = Negated(ifStmt)
        BY <4>4 DEF setCondition, Negated
      <4>6. /\ StatementSays(Negated(ifStmt)) = Bit(StatementSays(ifStmt) = 0)
            /\ Negated(ifStmt).m_cond \in Compared \cup Asking
            /\ Negated(ifStmt).m_cond \in Asking =>
                 Negated(ifStmt).m_op1.exp.op \notin Arithmetic
            /\ NoSlots(ifStmt) => NoSlots(Negated(ifStmt))
        BY <1>4, <1>5, <4>2, NegationSays DEF CleanTest
      <4>7. test.slots \/ NoSlots(ifStmt)
        BY <4>2 DEF CleanTest
      <4>8. QED
        BY <4>3, <4>5, <4>6, <4>7
    <3>3. QED
      BY <3>1, <3>2
  <2> HIDE DEF v, w, c
  <2>11. Means(r, w)
    BY <2>7 DEF Means, Constants, Reads
  <2>12. test'.clean =>
           /\ w.value = StatementSays(st) /\ w.slots = test'.slots
           /\ st.m_cond \in Compared \cup Asking
           /\ st.m_cond \in Asking => st.m_op1.exp.op \notin Arithmetic
           /\ StatementSays(st) \in {0, 1}
           /\ test'.slots \/ NoSlots(st)
    <3> HIDE DEF st
    <3>1. QED
      BY <2>6, <2>7, <2>9, <2>10
  <2>13. << r, w >> \in Pairs' /\ TestFits'
    <3> HIDE DEF st
    <3>1. QED
      BY <1>1, <1>5, <1>10, <1>12, <2>7, <2>9, <2>11, <2>12, NewTestFits
  <2>14. Pairs \subseteq Pairs'
    BY <1>1, <1>5, <2>9, PairsOfTest
  <2>15. Matched(m_stack, evm, Pairs')
    BY <2>1, <2>14, WiderMatched
  <2>16. evm' = [evm EXCEPT ![1] = w]
    BY <1>3, <1>14 DEF OnEvm
  <2>17. Matched(m_stack', evm', Pairs')
    BY <1>5, <1>10, <1>11, <2>7, <2>13, <2>15, <2>16, TopMatched
  <2>18. QED
    BY <2>9, <2>13, <2>17
<1>15. evm' \in Seq(EvmWord)
  BY <1>3, <1>4, <1>14 DEF TypeOK, OnEvm, Matched
<1>16. test' \in [id : Nat, clean : BOOLEAN, slots : BOOLEAN]
  BY <1>1, <1>4, <1>14 DEF TypeOK
<1>17. steps' \in Nat /\ ifStmt' \in Statement
  BY <1>1, <1>5, <1>12
<1>18. TypeOK'
  BY <1>1, <1>4, <1>5, <1>13, <1>15, <1>16, <1>17 DEF TypeOK
<1>19. ConditionFaithful' /\ StoreFaithful'
  BY <1>1 DEF TextInv, ConditionFaithful, StoreFaithful
<1>20. ~strayed' => Matched(m_stack, evm, Pairs)' /\ TestFits'
  BY <1>1, <1>14
<1>21. QED
  BY <1>18, <1>19, <1>20 DEF TextInv

\* SLT and SGT: the stacks have nothing in common from here on.
LEMMA CompareSignedStep ==
  ASSUME TextInv, CompareSigned
  PROVE  TextInv'
<1>1. PICK op \in {"SLT", "SGT"} :
        /\ Begin(op, 2) /\ m_stack' = InContext(op)
        /\ ifStmt' = setCondition(op, InContext(op)) /\ strayed' = TRUE
        /\ UNCHANGED << status, printed, storage, evm, test >>
  BY DEF CompareSigned
<1>2. TypeOK /\ m_stack \in Seq(Register) /\ ifStmt \in Statement
  BY DEF TextInv, TypeOK
<1>3. /\ Len(m_stack) >= 2
      /\ code' \in Seq(SUBSET Insts) /\ steps \in Nat /\ steps' = steps + 1
      /\ m_data' = m_data /\ calldata' = calldata
  BY <1>1, <1>2, BeginFacts
<1>4. op \in Binaries
  BY DEF Binaries, Comparison
<1>5. m_stack' \in Seq(Register) /\ Len(InContext(op)) = Len(m_stack)
  BY <1>1, <1>2, <1>3, <1>4, InContextFacts
<1>6. ifStmt' \in Statement
  BY <1>1, <1>2, <1>3, <1>5, ConditionTyped
<1>7. TypeOK'
  BY <1>1, <1>2, <1>3, <1>5, <1>6 DEF TypeOK
<1>8. ConditionFaithful' /\ StoreFaithful'
  BY <1>1 DEF TextInv, ConditionFaithful, StoreFaithful
<1>9. QED
  BY <1>1, <1>7, <1>8 DEF TextInv

-----------------------------------------------------------------------------
(***************************************************************************)
(* The instructions that end in a line.                                    *)
(***************************************************************************)
\* A text that names no slot says the same after a store.
LEMMA SaysKept ==
  ASSUME UNCHANGED calldata
  PROVE  /\ \A t : t.of # "store" => Says(t)' = Says(t)
         /\ \A e : "store" \notin {e.a.of, e.b.of} =>
              ExpSays(e)' = ExpSays(e) /\ NotSays(e)' = NotSays(e)
         /\ \A st : NoSlots(st) => StatementSays(st)' = StatementSays(st)
<1>1. \A t : t.of # "store" => Says(t)' = Says(t)
  BY DEF Says
<1>2. ASSUME NEW e, "store" \notin {e.a.of, e.b.of}
      PROVE  ExpSays(e)' = ExpSays(e)
  <2>1. Says(e.a)' = Says(e.a) /\ Says(e.b)' = Says(e.b)
    BY <1>1, <1>2
  <2>2. QED
    BY <2>1 DEF ExpSays
<1>3. ASSUME NEW e, "store" \notin {e.a.of, e.b.of}
      PROVE  NotSays(e)' = NotSays(e)
  <2>1. Says(e.a)' = Says(e.a) /\ Says(e.b)' = Says(e.b)
    BY <1>1, <1>3
  <2>2. ExpSays(e)' = ExpSays(e)
    BY <1>2, <1>3
  <2>3. QED
    BY <2>1, <2>2 DEF NotSays
<1>4. ASSUME NEW st, NoSlots(st)
      PROVE  StatementSays(st)' = StatementSays(st)
  <2>1. CASE st.m_cond \in Compared
    <3>1. /\ Says(getDismangledRegisterName(st.m_op1))'
               = Says(getDismangledRegisterName(st.m_op1))
          /\ Says(getDismangledRegisterName(st.m_op2))'
               = Says(getDismangledRegisterName(st.m_op2))
      BY <1>1, <1>4, <2>1 DEF NoSlots
    <3>2. st.m_cond # "IsZero" /\ st.m_cond # "IsNotZero"
      BY <2>1 DEF Compared
    <3>3. QED
      BY <3>1, <3>2 DEF StatementSays
  <2>2. CASE st.m_cond \in Asking
    <3>1. /\ ExpSays(st.m_op1.exp)' = ExpSays(st.m_op1.exp)
          /\ NotSays(st.m_op1.exp)' = NotSays(st.m_op1.exp)
      BY <1>2, <1>3, <1>4, <2>2 DEF NoSlots
    <3>2. st.m_cond = "IsZero" \/ st.m_cond = "IsNotZero"
      BY <2>2 DEF Asking
    <3>3. QED
      BY <3>1, <3>2 DEF StatementSays
  <2>3. CASE st.m_cond \notin Compared \cup Asking
    BY <2>3 DEF StatementSays, Compared, Asking
  <2>4. QED
    BY <2>1, <2>2, <2>3
<1>5. QED
  BY <1>1, <1>2, <1>3, <1>4

\* What a store says is stored.
LEMMA StoreSaysFacts ==
  ASSUME Inputs, NEW r \in Register
  PROVE  /\ StoreSays(r) \in Word \cup {Nothing}
         /\ \A w \in EvmWord : Means(r, w) /\ w.from # "other" => StoreSays(r) = w.value
<1>1. r.value \in Word /\ r.name \in Text /\ r.exp \in Exp
  BY DEF Register
<1>2. Says(r.name) \in Word \cup {Nothing} /\ ExpSays(r.exp) \in Word \cup {Nothing}
  BY <1>1, SaysTyped, ExpSaysTyped
<1>3. StoreSays(r) \in Word \cup {Nothing}
  BY <1>1, <1>2 DEF StoreSays
<1>4. ASSUME NEW w \in EvmWord, Means(r, w), w.from # "other"
      PROVE  StoreSays(r) = w.value
  <2>1. CASE w.from \in Constants
    BY <1>4, <2>1 DEF Means, StoreSays, IsConstant
  <2>2. CASE w.from \in Reads
    BY <1>4, <2>2 DEF Means, StoreSays, IsConstant
  <2>3. CASE w.from \in {"sum", "compared"}
    <3>1. /\ r.type # "Constant" /\ ExpSays(r.exp) = w.value
          /\ r.exp.op \in Arithmetic \cup Comparison
      BY <1>4, <2>3 DEF Means
    <3>2. r.exp # NoExp
      <4>1. NoExp.op = ""
        BY DEF NoExp
      <4>2. "" \notin Arithmetic \cup Comparison
        BY DEF Arithmetic, Comparison
      <4>3. QED
        BY <3>1, <4>1, <4>2
    <3>3. QED
      BY <3>1, <3>2 DEF StoreSays, IsConstant
  <2>4. QED
    BY <1>4, <2>1, <2>2, <2>3 DEF EvmWord, Constants, Reads
<1>5. QED
  BY <1>3, <1>4

\* Pairs fit again after a store, if what the word says of its text is forgotten.
LEMMA PairsAfterStore ==
  ASSUME steps \in Nat, steps' = steps + 1, UNCHANGED << calldata, ifStmt >>, TestFits,
         test'.id = test.id, test'.slots = test.slots,
         test'.clean => test.clean /\ ~test.slots
  PROVE  /\ \A r \in Register, w \in EvmWord :
              Fits(r, w) => << r, Outdated(w) >> \in Pairs'
         /\ test.id \in Nat => TestFits'
<1>1. /\ \A t : t.of # "store" => Says(t)' = Says(t)
      /\ \A e : "store" \notin {e.a.of, e.b.of} => ExpSays(e)' = ExpSays(e)
      /\ \A st : NoSlots(st) => StatementSays(st)' = StatementSays(st)
  BY SaysKept
<1>2. test'.clean => /\ CleanTest /\ NoSlots(ifStmt)
                     /\ StatementSays(ifStmt)' = StatementSays(ifStmt)
  <2>1. test'.clean => CleanTest /\ NoSlots(ifStmt)
    BY DEF TestFits, CleanTest
  <2>2. NoSlots(ifStmt) => StatementSays(ifStmt)' = StatementSays(ifStmt)
    BY <1>1
  <2>3. QED
    BY <2>1, <2>2
<1>3. ASSUME NEW r \in Register, NEW w \in EvmWord, Fits(r, w)
      PROVE  << r, Outdated(w) >> \in Pairs'
  <2> DEFINE o == Outdated(w)
  <2>1. /\ o.value = w.value /\ o.id = w.id /\ o.slots = w.slots
        /\ o.from = IF w.slots THEN "other" ELSE w.from
    BY DEF Outdated
  <2>2. o \in EvmWord
    BY DEF Outdated, EvmWord
  <2>3. w.id \in Nat /\ w.id <= steps /\ Means(r, w) /\ Agrees(w)
    BY <1>3 DEF Fits, EvmWord
  <2> HIDE DEF o
  <2>4. Means(r, o)'
    <3>1. CASE w.slots
      BY <2>1, <3>1 DEF Means, Constants, Reads
    <3>2. CASE ~w.slots
      <4>1. o.from = w.from
        BY <2>1, <3>2
      <4>2. CASE w.from \in Constants
        BY <2>1, <2>3, <4>1, <4>2 DEF Means, Constants, Reads
      <4>3. CASE w.from \in Reads
        <5>1. r.name.of # "store"
          BY <2>3, <3>2, <4>3 DEF Means
        <5>2. Says(r.name)' = Says(r.name)
          BY <1>1, <5>1
        <5>3. QED
          BY <2>1, <2>3, <4>1, <4>3, <5>1, <5>2 DEF Means, Constants, Reads
      <4>4. CASE w.from \in {"sum", "compared"}
        <5>1. "store" \notin {r.exp.a.of, r.exp.b.of}
          BY <2>3, <3>2, <4>4 DEF Means
        <5>2. ExpSays(r.exp)' = ExpSays(r.exp)
          BY <1>1, <5>1
        <5>3. QED
          BY <2>1, <2>3, <4>1, <4>4, <5>1, <5>2 DEF Means, Constants, Reads
      <4>5. CASE w.from = "other"
        BY <4>1, <4>5 DEF Means, Constants, Reads
      <4>6. QED
        BY <4>2, <4>3, <4>4, <4>5 DEF EvmWord, Constants, Reads
    <3>3. QED
      BY <3>1, <3>2
  <2>5. Agrees(o)'
    BY <1>2, <2>1, <2>3 DEF Agrees
  <2>6. o.id <= steps'
    BY <2>1, <2>3
  <2>7. Fits(r, o)'
    BY <2>4, <2>5, <2>6 DEF Fits
  <2>8. << r, o >> \in Pairs'
    BY <2>2, <2>7 DEF Pairs
  <2>9. QED
    BY <2>8 DEF o
<1>4. ASSUME test.id \in Nat PROVE TestFits'
  <2>1. test'.id <= steps'
    BY <1>4 DEF TestFits
  <2>2. NoSlots(ifStmt)' <=> NoSlots(ifStmt)
    BY DEF NoSlots
  <2>3. test'.clean => CleanTest'
    BY <1>2, <2>2 DEF CleanTest
  <2>4. QED
    BY <2>1, <2>3 DEF TestFits
<1>5. QED
  BY <1>3, <1>4

\* What is printed is a line.
LEMMA LineTyped ==
  ASSUME NEW what \in {"if", "store"}, NEW says \in Word \cup {Nothing},
         NEW is \in Word \cup {Nothing}, NEW b \in BOOLEAN
  PROVE  [what |-> what, says |-> says, is |-> is, trusted |-> b]
           \in [ what : {"none", "if", "store"}, trusted : BOOLEAN,
                 says : Word \cup {Nothing}, is : Word \cup {Nothing} ]
  OBVIOUS

\* SSTORE: the line says what is stored.
LEMMA SStoreStep ==
  ASSUME TextInv, SStore
  PROVE  TextInv'
<1> DEFINE says == StoreSays(m_stack[2])
           is == IF strayed THEN Nothing ELSE evm[2].value
           trusted == ~strayed /\ evm[2].from # "other"
           below == [ i \in 1 .. Len(evm) - 2 |-> Outdated(evm[i + 2]) ]
           clean == test.clean /\ ~test.slots
<1>1. /\ Begin("SSTORE", 2) /\ m_stack' = Pops(m_stack, 2)
      /\ printed' = [what |-> "store", says |-> says, is |-> is, trusted |-> trusted]
      /\ storage' = IF strayed THEN storage
                    ELSE [storage EXCEPT ![evm[1].value] = evm[2].value]
      /\ OnEvm(below) /\ test' = [test EXCEPT !.clean = clean]
      /\ UNCHANGED << ifStmt, status, strayed >>
  BY DEF SStore
<1>2. /\ TypeOK /\ m_stack \in Seq(Register) /\ storage \in [Word -> Word]
      /\ test \in [id : Nat, clean : BOOLEAN, slots : BOOLEAN]
  BY DEF TextInv, TypeOK
<1>3. /\ Len(m_stack) >= 2 /\ Inputs
      /\ code' \in Seq(SUBSET Insts) /\ steps \in Nat /\ steps' = steps + 1
      /\ m_data' = m_data /\ calldata' = calldata
  BY <1>1, <1>2, BeginFacts
<1>4. m_stack' \in Seq(Register)
  BY <1>1, <1>2, <1>3, PopFacts
<1>5. m_stack[2] \in Register
  BY <1>2, <1>3, ElementFacts
<1>6. says \in Word \cup {Nothing}
  BY <1>3, <1>5, StoreSaysFacts
<1>7. trusted \in BOOLEAN /\ clean \in BOOLEAN
  OBVIOUS
<1>8. /\ test' \in [id : Nat, clean : BOOLEAN, slots : BOOLEAN]
      /\ test'.id = test.id /\ test'.slots = test.slots /\ test'.clean = clean
  <2> HIDE DEF clean
  <2>1. QED
    BY <1>1, <1>2, <1>7
<1>9. ASSUME ~strayed
      PROVE  /\ Matched(m_stack, evm, Pairs) /\ TestFits /\ Len(m_stack) = Len(evm)
             /\ Len(evm) \in Nat
             /\ \A i \in 1 .. Len(evm) : /\ m_stack[i] \in Register /\ evm[i] \in EvmWord
                                         /\ Fits(m_stack[i], evm[i])
  BY <1>2, <1>9, FitsAt DEF TextInv
<1>10. ASSUME ~strayed
       PROVE  /\ evm[1].value \in Word /\ evm[2].value \in Word
              /\ evm[2].from # "other" => says = evm[2].value
  <2>1. /\ evm[1] \in EvmWord /\ evm[2] \in EvmWord /\ Means(m_stack[2], evm[2])
    BY <1>3, <1>9, <1>10 DEF Fits
  <2>2. evm[1].value \in Word /\ evm[2].value \in Word
    BY <2>1 DEF EvmWord
  <2>3. QED
    BY <1>3, <1>5, <2>1, <2>2, StoreSaysFacts
<1>11. is \in Word \cup {Nothing}
  BY <1>10
<1>12. storage' \in [Word -> Word]
  BY <1>1, <1>2, <1>10
<1>13. ASSUME ~strayed PROVE Matched(m_stack', evm', Pairs')
  <2>1. evm' = below
    BY <1>1, <1>13 DEF OnEvm
  <2>2. /\ Len(m_stack') = Len(m_stack) - 2
        /\ \A i \in 1 .. Len(m_stack) - 2 : m_stack'[i] = m_stack[i + 2]
    <3>1. 2 <= Len(m_stack)
      BY <1>3, <1>9, <1>13
    <3>2. /\ Len(Pops(m_stack, 2)) = Len(m_stack) - 2
          /\ \A i \in 1 .. Len(m_stack) - 2 : Pops(m_stack, 2)[i] = m_stack[i + 2]
      BY <1>2, <3>1, PopFacts
    <3>3. QED
      BY <1>1, <3>2
  <2>3. \A i \in 1 .. Len(evm) - 2 : Outdated(evm[i + 2]) \in EvmWord
    <3>1. ASSUME NEW i \in 1 .. Len(evm) - 2 PROVE Outdated(evm[i + 2]) \in EvmWord
      <4>1. i + 2 \in 1 .. Len(evm)
        BY <1>9, <1>13
      <4>2. evm[i + 2] \in EvmWord
        BY <1>9, <1>13, <4>1
      <4>3. QED
        BY <4>2 DEF Outdated, EvmWord
    <3>2. QED
      BY <3>1
  <2>4. Len(evm) - 2 \in Nat
    BY <1>3, <1>9, <1>13
  <2>5. below \in Seq(EvmWord) /\ Len(below) = Len(evm) - 2
    BY <2>3, <2>4
  <2>6. \A r \in Register, w \in EvmWord :
          Fits(r, w) => << r, Outdated(w) >> \in Pairs'
    BY <1>1, <1>3, <1>8, <1>9, <1>13, PairsAfterStore
  <2>7. ASSUME NEW i \in 1 .. Len(m_stack')
        PROVE  << m_stack'[i], evm'[i] >> \in Pairs'
    <3>1. i \in 1 .. Len(evm) - 2 /\ i + 2 \in 1 .. Len(evm)
      BY <1>9, <1>13, <2>2
    <3>2. m_stack'[i] = m_stack[i + 2] /\ evm'[i] = Outdated(evm[i + 2])
      BY <1>9, <1>13, <2>1, <2>2, <3>1
    <3>3. QED
      BY <1>9, <1>13, <2>6, <3>1, <3>2
  <2>8. QED
    BY <1>4, <1>9, <1>13, <2>1, <2>2, <2>5, <2>7 DEF Matched
<1>14. ASSUME ~strayed PROVE TestFits'
  BY <1>1, <1>2, <1>3, <1>8, <1>9, <1>14, PairsAfterStore
<1>15. evm' \in Seq(EvmWord)
  BY <1>1, <1>2, <1>13 DEF TypeOK, OnEvm, Matched
<1> HIDE DEF says, is, trusted, below
<1>16. printed' \in [ what : {"none", "if", "store"}, trusted : BOOLEAN,
                      says : Word \cup {Nothing}, is : Word \cup {Nothing} ]
  BY <1>1, <1>6, <1>7, <1>11, LineTyped
<1>17. steps' \in Nat
  BY <1>3
<1>18. TypeOK'
  BY <1>1, <1>2, <1>3, <1>4, <1>8, <1>12, <1>15, <1>16, <1>17 DEF TypeOK
<1>19. trusted => says = is
  BY <1>10 DEF trusted, is
<1>20. ConditionFaithful' /\ StoreFaithful'
  BY <1>1, <1>19 DEF ConditionFaithful, StoreFaithful
<1>21. ~strayed' => Matched(m_stack, evm, Pairs)' /\ TestFits'
  BY <1>1, <1>13, <1>14
<1>22. QED
  BY <1>18, <1>20, <1>21 DEF TextInv

\* A new block: no test, and so none that a word could be of.
LEMMA NewBlockFacts ==
  ASSUME NewBlock, steps \in Nat, steps' = steps + 1, UNCHANGED << calldata, storage >>
  PROVE  /\ ifStmt' \in Statement /\ test' \in [id : Nat, clean : BOOLEAN, slots : BOOLEAN]
         /\ TestFits' /\ Pairs \subseteq Pairs'
<1>1. /\ ifStmt' = NewStatement /\ test' = NoTest
  BY DEF NewBlock
<1>2. test'.id = 0 /\ ~test'.clean
      /\ test' \in [id : Nat, clean : BOOLEAN, slots : BOOLEAN]
  BY <1>1 DEF NoTest
<1>3. TestFits'
  BY <1>1, <1>2, NewStatementTyped DEF TestFits
<1>4. Pairs \subseteq Pairs'
  BY <1>2, PairsOfTest
<1>5. QED
  BY <1>1, <1>2, <1>3, <1>4, NewStatementTyped

\* JUMPI: the line says what is jumped on.
LEMMA JumpiStep ==
  ASSUME TextInv, Jumpi
  PROVE  TextInv'
<1> DEFINE says == StatementSays(ifStmt)
           is == IF strayed THEN Nothing ELSE Bit(evm[2].value # 0)
           trusted == ~strayed /\ test.clean /\ evm[2].id = test.id
<1>1. /\ Begin("JUMPI", 2) /\ m_stack' = Pops(m_stack, 2) /\ NewBlock
      /\ printed' = [what |-> "if", says |-> says, is |-> is, trusted |-> trusted]
      /\ OnEvm(Pops(evm, 2)) /\ UNCHANGED << status, storage, strayed >>
  BY DEF Jumpi
<1>2. TypeOK /\ m_stack \in Seq(Register) /\ ifStmt \in Statement /\ test.clean \in BOOLEAN
  BY DEF TextInv, TypeOK
<1>3. /\ Len(m_stack) >= 2 /\ Inputs
      /\ code' \in Seq(SUBSET Insts) /\ steps \in Nat /\ steps' = steps + 1
      /\ m_data' = m_data /\ calldata' = calldata
  BY <1>1, <1>2, BeginFacts
<1>4. m_stack' \in Seq(Register)
  BY <1>1, <1>2, <1>3, PopFacts
<1>5. /\ ifStmt' \in Statement /\ TestFits' /\ Pairs \subseteq Pairs'
      /\ test' \in [id : Nat, clean : BOOLEAN, slots : BOOLEAN]
  BY <1>1, <1>3, NewBlockFacts
<1>6. says \in Word \cup {Nothing}
  BY <1>2, <1>3, StatementSaysTyped
<1>7. is \in Word \cup {Nothing}
  <2>1. Bit(evm[2].value # 0) \in Word
    BY BitFacts
  <2>2. QED
    BY <2>1
<1>8. trusted \in BOOLEAN
  <2> DEFINE t == test.clean
  <2>1. t \in BOOLEAN
    BY <1>2
  <2> HIDE DEF t
  <2>2. QED
    BY <2>1 DEF t
<1>9. trusted => says = is
  <2> SUFFICES ASSUME trusted PROVE says = is
    OBVIOUS
  <2>1. Matched(m_stack, evm, Pairs) /\ TestFits
    BY DEF TextInv
  <2>2. Fits(m_stack[2], evm[2])
    BY <1>2, <1>3, <2>1, FitsAt
  <2>3. evm[2].value = says
    BY <2>2 DEF Fits, Agrees
  <2>4. says \in {0, 1}
    BY <2>1 DEF TestFits, CleanTest
  <2>5. is = Bit(says # 0)
    BY <2>3
  <2> HIDE DEF says, is
  <2>6. QED
    BY <2>4, <2>5 DEF Bit
<1>10. ASSUME ~strayed PROVE Matched(m_stack', evm', Pairs')
  <2>1. Matched(m_stack, evm, Pairs')
    BY <1>5, <1>10, WiderMatched DEF TextInv
  <2>2. evm' = Pops(evm, 2)
    BY <1>1, <1>10 DEF OnEvm
  <2>3. QED
    BY <1>1, <1>3, <2>1, <2>2, PopMatched
<1>11. evm' \in Seq(EvmWord)
  BY <1>1, <1>2, <1>10 DEF TypeOK, OnEvm, Matched
<1> HIDE DEF says, is, trusted
<1>12. printed' \in [ what : {"none", "if", "store"}, trusted : BOOLEAN,
                      says : Word \cup {Nothing}, is : Word \cup {Nothing} ]
  BY <1>1, <1>6, <1>7, <1>8, LineTyped
<1>13. steps' \in Nat
  BY <1>3
<1>14. TypeOK'
  BY <1>1, <1>2, <1>3, <1>4, <1>5, <1>11, <1>12, <1>13 DEF TypeOK
<1>15. ConditionFaithful' /\ StoreFaithful'
  BY <1>1, <1>9 DEF ConditionFaithful, StoreFaithful
<1>16. ~strayed' => Matched(m_stack, evm, Pairs)' /\ TestFits'
  BY <1>1, <1>5, <1>10
<1>17. QED
  BY <1>14, <1>15, <1>16 DEF TextInv

\* JUMPDEST.
LEMMA JumpdestStep ==
  ASSUME TextInv, Jumpdest
  PROVE  TextInv'
<1>1. /\ Begin("JUMPDEST", 0) /\ NewBlock
      /\ UNCHANGED << m_stack, status, printed, storage, evm, strayed >>
  BY DEF Jumpdest
<1>2. TypeOK
  BY DEF TextInv
<1>3. /\ code' \in Seq(SUBSET Insts) /\ steps \in Nat /\ steps' = steps + 1
      /\ m_data' = m_data /\ calldata' = calldata
  BY <1>1, <1>2, BeginFacts
<1>4. /\ ifStmt' \in Statement /\ TestFits' /\ Pairs \subseteq Pairs'
      /\ test' \in [id : Nat, clean : BOOLEAN, slots : BOOLEAN]
  BY <1>1, <1>3, NewBlockFacts
<1>5. steps' \in Nat
  BY <1>3
<1>6. TypeOK'
  BY <1>1, <1>2, <1>3, <1>4, <1>5 DEF TypeOK
<1>7. ConditionFaithful' /\ StoreFaithful'
  BY <1>1 DEF TextInv, ConditionFaithful, StoreFaithful
<1>8. ASSUME ~strayed PROVE Matched(m_stack, evm, Pairs')
  BY <1>4, <1>8, WiderMatched DEF TextInv
<1>9. ~strayed' => Matched(m_stack, evm, Pairs)' /\ TestFits'
  BY <1>1, <1>4, <1>8
<1>10. QED
  BY <1>6, <1>7, <1>9 DEF TextInv

-----------------------------------------------------------------------------
(***************************************************************************)
(* The invariant, and what follows.                                        *)
(***************************************************************************)
\* What earlier blocks have left fits.
LEMMA AtomFits ==
  ASSUME Inputs, steps = 0, test = NoTest, NEW t \in Atoms
  PROVE  << RegisterOf(t, m_data), WordOf(t, RegisterOf(t, m_data)) >> \in Pairs
<1> DEFINE r == RegisterOf(t, m_data)
           w == WordOf(t, r)
<1>1. t.of \in {"hex", "arg", "store"} /\ t.at \in Word /\ t \in Text
  BY DEF Atoms, Text
<1>2. m_data \in [Word -> Word]
  BY DEF Inputs
<1>3. /\ r \in Register /\ r.exp = NoExp
      /\ t.of = "hex" => r.value = t.at /\ r.type = "Constant"
      /\ t.of # "hex" => r.name = t
      /\ t.of = "arg" => r.value = m_data[t.at] /\ r.type = "UserInput"
      /\ t.of = "store" => r.value = t.at /\ r.type = "StorageType"
  BY <1>2, RegisterOfTyped
<1>4. Says(t) \in Word
  BY <1>1, SaysTyped
<1>5. t.of = "hex" => Says(t) = t.at
  BY DEF Says
<1> HIDE DEF r
<1> DEFINE from == w.from
<1> DEFINE sl == t.of = "store"
<1>6. /\ w.value = Says(t) /\ w.id = 0
      /\ sl => w.slots
      /\ w.slots \in BOOLEAN
      /\ w = [value |-> w.value, id |-> w.id, slots |-> w.slots, from |-> w.from]
  <2>1. sl \in BOOLEAN
    OBVIOUS
  <2>2. /\ w.value = Says(t) /\ w.id = 0 /\ w.slots = sl
        /\ w = [value |-> w.value, id |-> w.id, slots |-> w.slots, from |-> w.from]
    <3> DEFINE f == CASE t.of = "hex" -> "constant"
                      [] t.of = "arg" -> IF Ordinary(r.value) THEN "argument" ELSE "other"
                      [] t.of = "store" -> IF Ordinary(r.value) THEN "slot" ELSE "other"
    <3>1. w = [value |-> Says(t), id |-> 0, slots |-> sl, from |-> f]
      BY DEF WordOf
    <3> HIDE DEF f, sl, w
    <3>2. QED
      BY <3>1
  <2> HIDE DEF sl, w
  <2>3. QED
    BY <2>1, <2>2
<1>9. /\ t.of = "hex" => from = "constant"
      /\ t.of = "arg" => from = IF Ordinary(r.value) THEN "argument" ELSE "other"
      /\ t.of = "store" => from = IF Ordinary(r.value) THEN "slot" ELSE "other"
  BY DEF WordOf
<1> HIDE DEF w
<1>10. from \in {"constant", "argument", "slot", "other"}
  BY <1>1, <1>9
<1>11. w \in EvmWord
  BY <1>4, <1>6, <1>10 DEF EvmWord
<1>12. Means(r, w)
  <2>1. CASE t.of = "hex"
    BY <1>3, <1>5, <1>6, <1>9, <2>1 DEF Means, Constants, Reads
  <2>2. CASE t.of = "arg"
    BY <1>3, <1>6, <1>9, <2>2 DEF Means, Constants, Reads
  <2>3. CASE t.of = "store"
    BY <1>3, <1>6, <1>9, <2>3 DEF Means, Constants, Reads
  <2>4. QED
    BY <1>1, <2>1, <2>2, <2>3
<1>13. ~test.clean
  BY DEF NoTest
<1>14. Fits(r, w)
  BY <1>6, <1>12, <1>13 DEF Fits, Agrees
<1>15. << r, w >> \in Pairs
  BY <1>3, <1>11, <1>14 DEF Pairs
<1>16. QED
  BY <1>15 DEF r, w

\* The invariant holds at first.
LEMMA TextInit == Init => TextInv
<1> SUFFICES ASSUME Init PROVE TextInv
  OBVIOUS
<1>1. /\ code \in Codes /\ ifStmt = NewStatement /\ status = "run" /\ printed = NoLine
      /\ test = NoTest /\ strayed = FALSE /\ steps = 0
  BY DEF Init
<1>2. Inputs
  <2>1. PICK w \in Worlds : m_data = w.m_data /\ calldata = w.calldata /\ storage = w.storage
    BY DEF Init
  <2>2. w \in [m_data : [Word -> Word], calldata : [Word -> Word], storage : [Word -> Word]]
    BY ConstantsAssumption
  <2>3. QED
    BY <2>1, <2>2 DEF Inputs
<1>3. m_data \in [Word -> Word]
  BY <1>2 DEF Inputs
<1>4. PICK b \in Stacks :
        /\ m_stack = [ i \in 1 .. Len(b) |-> RegisterOf(b[i], m_data) ]
        /\ evm = [ i \in 1 .. Len(b) |-> WordOf(b[i], m_stack[i]) ]
  BY DEF Init
<1>5. b \in Seq(Atoms)
  BY ConstantsAssumption
<1>6. Len(b) \in Nat /\ \A i \in 1 .. Len(b) : b[i] \in Atoms
  BY <1>5, ElementFacts
<1>7. ASSUME NEW i \in 1 .. Len(b)
      PROVE  /\ m_stack[i] \in Register /\ evm[i] \in EvmWord
             /\ << m_stack[i], evm[i] >> \in Pairs
  <2>1. m_stack[i] = RegisterOf(b[i], m_data)
    BY <1>4
  <2>2. evm[i] = WordOf(b[i], RegisterOf(b[i], m_data))
    BY <1>4, <2>1
  <2>3. << m_stack[i], evm[i] >> \in Pairs
    BY <1>1, <1>2, <1>6, <2>1, <2>2, AtomFits
  <2>4. QED
    BY <2>3 DEF Pairs
<1>8. /\ m_stack \in Seq(Register) /\ Len(m_stack) = Len(b)
      /\ evm \in Seq(EvmWord) /\ Len(evm) = Len(b)
  <2> DEFINE n == Len(b)
             f == [i \in 1 .. n |-> RegisterOf(b[i], m_data)]
             g == [i \in 1 .. n |-> WordOf(b[i], m_stack[i])]
  <2>1. m_stack = f /\ evm = g
    BY <1>4
  <2>2. ASSUME NEW i \in 1 .. n
        PROVE  RegisterOf(b[i], m_data) \in Register /\ WordOf(b[i], m_stack[i]) \in EvmWord
    BY <1>7, <2>1
  <2> HIDE DEF n
  <2>3. n \in Nat
    BY <1>6 DEF n
  <2>4. f \in Seq(Register) /\ Len(f) = n
    BY <2>2, <2>3
  <2>5. g \in Seq(EvmWord) /\ Len(g) = n
    BY <2>2, <2>3
  <2>6. QED
    BY <2>1, <2>4, <2>5 DEF n
<1>9. Matched(m_stack, evm, Pairs)
  BY <1>7, <1>8 DEF Matched
<1>10. code \in Seq(SUBSET Insts)
  BY <1>1, ConstantsAssumption
<1>11. /\ test \in [id : Nat, clean : BOOLEAN, slots : BOOLEAN]
       /\ test.id = 0 /\ ~test.clean
  BY <1>1 DEF NoTest
<1>12. /\ printed \in [ what : {"none", "if", "store"}, trusted : BOOLEAN,
                       says : Word \cup {Nothing}, is : Word \cup {Nothing} ]
       /\ printed.what = "none"
  BY <1>1 DEF NoLine
<1>13. TypeOK
  BY <1>1, <1>2, <1>8, <1>10, <1>11, <1>12, NewStatementTyped DEF TypeOK, Inputs
<1>14. TestFits
  BY <1>1, <1>11, NewStatementTyped DEF TestFits
<1>15. ConditionFaithful /\ StoreFaithful
  BY <1>12 DEF ConditionFaithful, StoreFaithful
<1>16. QED
  BY <1>9, <1>13, <1>14, <1>15 DEF TextInv

\* Nothing happens.
LEMMA TextStutters ==
  ASSUME TextInv, UNCHANGED vars
  PROVE  TextInv'
<1>1. /\ UNCHANGED << calldata, storage, ifStmt, test, steps >>
  BY DEF vars
<1>2. \A r, w : Means(r, w)' <=> Means(r, w)
  BY <1>1, MeansSame
<1>3. StatementSays(ifStmt)' = StatementSays(ifStmt)
  BY <1>1, SaysSame
<1>4. \A w : Agrees(w)' <=> Agrees(w)
  BY <1>1, <1>3 DEF Agrees
<1>5. \A r, w : Fits(r, w)' <=> Fits(r, w)
  BY <1>1, <1>2, <1>4 DEF Fits
<1>6. Pairs' = Pairs
  BY <1>5 DEF Pairs
<1>7. TestFits' <=> TestFits
  BY <1>1, <1>3 DEF TestFits, CleanTest, NoSlots
<1>8. TypeOK' <=> TypeOK
  BY DEF vars, TypeOK
<1>9. (ConditionFaithful /\ StoreFaithful)' <=> ConditionFaithful /\ StoreFaithful
  BY DEF vars, ConditionFaithful, StoreFaithful
<1>10. m_stack' = m_stack /\ evm' = evm /\ strayed' = strayed
  BY DEF vars
<1>11. Matched(m_stack, evm, Pairs)' <=> Matched(m_stack, evm, Pairs)
  BY <1>6, <1>10
<1>12. QED
  BY <1>7, <1>8, <1>9, <1>10, <1>11 DEF TextInv

\* Every instruction keeps it.
LEMMA TextNext == TextInv /\ [Next]_vars => TextInv'
<1> SUFFICES ASSUME TextInv, [Next]_vars PROVE TextInv'
  OBVIOUS
<1>1. CASE UNCHANGED vars
  BY <1>1, TextStutters
<1>2. CASE Push \/ CallDataLoad \/ SLoad \/ SStore \/ Dup \/ Swap \/ Pop
  BY <1>2, PushStep, CallDataLoadStep, SLoadStep, SStoreStep, DupStep, SwapStep, PopStep
<1>3. CASE Binary \/ ModByZero \/ Not
  BY <1>3, BinaryStep, ModByZeroStep, NotStep
<1>4. CASE CompareTwo \/ CompareSigned \/ IsZero \/ Jumpi \/ Jumpdest
  BY <1>4, CompareTwoStep, CompareSignedStep, IsZeroStep, JumpiStep, JumpdestStep
<1>5. QED
  BY <1>1, <1>2, <1>3, <1>4 DEF Next

\* The invariant holds throughout.
LEMMA TextInvariant == Spec => []TextInv
  BY TextInit, TextNext, PTL DEF Spec

\* Every register is a register and every line a line (VMState.cpp:204-268): words
\* stay words, and no operand is missing.
THEOREM TextsTyped == Spec => []TypeOK
<1>1. TextInv => TypeOK
  BY DEF TextInv
<1>2. QED
  BY <1>1, TextInvariant, PTL

\* A constant, an argument or a slot that the decompiler prints is the word that is
\* there on Ethereum (VMState.cpp:214-219, 258-268, 436-509, 1180-1200).
THEOREM NamesAreRight == Spec => []NamesRight
<1>1. TextInv => NamesRight
  <2> SUFFICES ASSUME TextInv, ~strayed
               PROVE  /\ Len(m_stack) = Len(evm)
                      /\ \A i \in 1 .. Len(evm) : evm[i].from \in Named =>
                           Says(getDismangledRegisterName(m_stack[i])) = evm[i].value
    BY DEF NamesRight
  <2>1. TypeOK /\ Matched(m_stack, evm, Pairs)
    BY DEF TextInv
  <2>2. /\ Len(m_stack) = Len(evm)
        /\ \A i \in 1 .. Len(evm) : /\ m_stack[i] \in Register /\ evm[i] \in EvmWord
                                    /\ Means(m_stack[i], evm[i])
    BY <2>1, FitsAt DEF Fits
  <2>3. QED
    BY <2>2, NamedSays
<1>2. QED
  BY <1>1, TextInvariant, PTL

\* The condition of an `if' is that of the jump, as far as the statement can follow
\* the block (Statement.h:79-158).
THEOREM ConditionsAreFaithful == Spec => []ConditionFaithful
<1>1. TextInv => ConditionFaithful
  BY DEF TextInv
<1>2. QED
  BY <1>1, TextInvariant, PTL

\* What is printed behind `store[...] =' is what is stored, as far as one expression
\* can say it (VMState.cpp:990-1009, Contract.cpp:992-1016).
THEOREM StoresAreFaithful == Spec => []StoreFaithful
<1>1. TextInv => StoreFaithful
  BY DEF TextInv
<1>2. QED
  BY <1>1, TextInvariant, PTL
=============================================================================
