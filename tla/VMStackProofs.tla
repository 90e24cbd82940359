---------------------------- MODULE VMStackProofs ----------------------------
(***************************************************************************)
(* Proofs about VMStack, for stacks of every depth, every instruction set  *)
(* and executions of every length.                                         *)
(***************************************************************************)
EXTENDS VMStack, SequenceTheorems, TLAPS

-----------------------------------------------------------------------------
(***************************************************************************)
(* Stacks.                                                                 *)
(***************************************************************************)
\* popStack, called k times on any stack, leaves what lies below the top k.
LEMMA PopsFacts ==
  ASSUME NEW S, NEW s \in Seq(S), NEW k \in Nat
  PROVE  /\ Pops(s, k) \in Seq(S)
         /\ k <= Len(s) =>
              /\ Len(Pops(s, k)) = Len(s) - k
              /\ \A i \in 1 .. Len(s) - k : Pops(s, k)[i] = s[k + i]
  BY SMT DEF Pops

\* pushStack puts one register on top and moves the others down by one.
LEMMA PushFacts ==
  ASSUME NEW S, NEW s \in Seq(S), NEW v \in S
  PROVE  /\ << v >> \o s \in Seq(S)
         /\ Len(<< v >> \o s) = Len(s) + 1
         /\ (<< v >> \o s)[1] = v
         /\ \A i \in 1 .. Len(s) : (<< v >> \o s)[i + 1] = s[i]
  BY SMT

\* SWAPk exchanges the top with the register k below it and moves no other.
LEMMA SwappedFacts ==
  ASSUME NEW S, NEW s \in Seq(S), NEW k \in Nat, k + 1 <= Len(s)
  PROVE  /\ Swapped(s, k) \in Seq(S)
         /\ Len(Swapped(s, k)) = Len(s)
         /\ \A i \in 1 .. Len(s) :
              Swapped(s, k)[i] = IF i = k + 1 THEN s[1]
                                 ELSE IF i = 1 THEN s[k + 1] ELSE s[i]
  BY SMT DEF Swapped

\* Stack s with v written over the top.
Topped(s, v) == [s EXCEPT ![1] = v]

\* Writing the top changes nothing else.
LEMMA TopFacts ==
  ASSUME NEW S, NEW s \in Seq(S), NEW v \in S
  PROVE  /\ Topped(s, v) \in Seq(S)
         /\ Len(Topped(s, v)) = Len(s)
         /\ \A i \in 2 .. Len(s) : Topped(s, v)[i] = s[i]
<1> DEFINE t == Topped(s, v)
<1>1. t = [ i \in 1 .. Len(s) |-> IF i = 1 THEN v ELSE s[i] ]
  BY SMT DEF Topped
<1>2. \A i \in 1 .. Len(s) : s[i] \in S
  BY SMT
<1>3. t \in [ 1 .. Len(s) -> S ]
  BY <1>1, <1>2
<1>4. /\ Len(s) \in Nat /\ DOMAIN t = 1 .. Len(s)
  BY <1>1, SMT
<1>5. t \in Seq(S) /\ Len(t) = Len(s)
  BY <1>3, <1>4, LenProperties, SeqDef, SMT
<1>6. \A i \in 2 .. Len(s) : t[i] = s[i]
  BY <1>1, <1>4, SMT
<1> QED
  BY <1>5, <1>6

-----------------------------------------------------------------------------
(***************************************************************************)
(* The table of instructions.                                              *)
(***************************************************************************)
\* Every entry of the table is a small number.
LEMMA TableFacts ==
  ASSUME NEW op \in Ops
  PROVE  /\ op.inst \in Insts /\ op.n \in 0 .. 16
         /\ Args(op) \in Nat /\ Ret(op) \in {0, 1} /\ Additional(op) \in {0, 2}
         /\ Touched(op) \in Nat
  BY OpsAssumption, SMTT(30) DEF Args, Ret, Additional, Touched, Insts

\* No instruction but PC looks at more registers than it takes.
LEMMA TouchedAreOperands ==
  ASSUME NEW op \in Ops, op.inst # "PC"
  PROVE  Touched(op) <= Args(op)
  BY OpsAssumption, SMTT(30) DEF Args, Touched, Insts

-----------------------------------------------------------------------------
(***************************************************************************)
(* The machine's stack beside Ethereum's.                                  *)
(***************************************************************************)
Words == Nat \cup {COMPUTED}

\* Stack s of the machine has every address that stack e has, in its place.
Kept(s, e) ==
  /\ Len(s) = Len(e)
  /\ \A i \in 1 .. Len(e) : e[i] # COMPUTED => s[i] = e[i]

\* The words an instruction leaves on Ethereum, when they are computed.
LEMMA ComputedFacts ==
  ASSUME NEW r \in Nat
  PROVE  LET c == [ i \in 1 .. r |-> COMPUTED ]
         IN  c \in Seq(Words) /\ Len(c) = r /\ \A i \in 1 .. r : c[i] = COMPUTED
<1> DEFINE c == [ i \in 1 .. r |-> COMPUTED ]
<1>1. c \in [ 1 .. r -> Words ]
  BY DEF Words
<1>2. c \in Seq(Words)
  BY <1>1, SeqDef
<1>3. Len(c) = r
  BY <1>1, <1>2, LenProperties, SMT
<1> QED
  BY <1>2, <1>3

\* Ethereum's stack holds words, whatever is executed with its operands there.
LEMMA OnEthereumType ==
  ASSUME NEW op \in Ops, NEW v \in Nat,
         evm \in Seq(Words), Len(evm) >= Args(op)
  PROVE  OnEthereum(op, v) \in Seq(Words)
<1>1. CASE op.inst = "PUSH"
  <2>1. v \in Words
    BY DEF Words
  <2> QED
    BY <1>1, <2>1, PushFacts DEF OnEthereum
<1>2. CASE op.inst = "DUP"
  <2>1. op.n \in 1 .. Len(evm)
    BY <1>2, OpsAssumption, TableFacts, LenProperties, SMT DEF Args
  <2> QED
    BY <1>2, <2>1, ElementOfSeq, PushFacts, Zenon DEF OnEthereum
<1>3. CASE op.inst = "SWAP"
  <2>1. op.n \in Nat /\ op.n + 1 <= Len(evm)
    BY <1>3, TableFacts, LenProperties, SMT DEF Args
  <2> QED
    BY <1>3, <2>1, SwappedFacts DEF OnEthereum
<1>4. CASE op.inst \notin {"PUSH", "DUP", "SWAP"}
  <2> DEFINE c == [ i \in 1 .. Ret(op) |-> COMPUTED ]
  <2>1. Ret(op) \in Nat /\ Args(op) \in Nat
    BY TableFacts, SMT
  <2>2. c \in Seq(Words)
    BY <2>1, ComputedFacts, Zenon
  <2>3. Pops(evm, Args(op)) \in Seq(Words)
    BY <2>1, PopsFacts, Zenon
  <2>4. OnEthereum(op, v) = c \o Pops(evm, Args(op))
    BY <1>4 DEF OnEthereum
  <2> QED
    BY <2>2, <2>3, <2>4, ConcatProperties
<1> QED
  BY <1>1, <1>2, <1>3, <1>4

\* An instruction that computes keeps every address if it takes its operands
\* and puts its result, be there one, on what lies below them.
LEMMA EffectKept ==
  ASSUME NEW op \in Ops, NEW v \in Nat, op.inst \notin {"PUSH", "DUP", "SWAP"},
         m_stack \in Seq(Nat), evm \in Seq(Words), Len(evm) >= Args(op),
         Kept(m_stack, evm),
         NEW s \in Seq(Nat),
         Len(s) = Len(m_stack) - Args(op) + Ret(op),
         \A i \in 1 .. Len(m_stack) - Args(op) :
           s[Ret(op) + i] = m_stack[Args(op) + i]
  PROVE  Kept(s, OnEthereum(op, v))
<1>0. Args(op) \in Nat /\ Ret(op) \in {0, 1}
  BY TableFacts, Zenon
<1>a. \A n \in {0, 1} : n \in Nat
  OBVIOUS
<1> DEFINE a == Args(op)
           r == Ret(op)
           c == [ i \in 1 .. r |-> COMPUTED ]
           p == Pops(evm, a)
           e == OnEthereum(op, v)
<1>1. a \in Nat /\ r \in Nat
  BY <1>0, <1>a, Zenon
<1>2. c \in Seq(Words) /\ Len(c) = r /\ \A i \in 1 .. r : c[i] = COMPUTED
  BY <1>1, ComputedFacts, Zenon
<1>3. /\ p \in Seq(Words) /\ Len(p) = Len(evm) - a
      /\ \A i \in 1 .. Len(evm) - a : p[i] = evm[a + i]
  BY <1>1, PopsFacts, Zenon
<1>4. e = c \o p
  BY DEF OnEthereum
<1>5. /\ Len(e) = r + Len(evm) - a
      /\ \A i \in 1 .. Len(e) : e[i] = IF i <= r THEN c[i] ELSE p[i - r]
  <2>1. /\ Len(c \o p) = Len(c) + Len(p)
        /\ \A i \in 1 .. Len(c) + Len(p) :
             (c \o p)[i] = IF i <= Len(c) THEN c[i] ELSE p[i - Len(c)]
    <3>1. c \in Seq(Words) /\ p \in Seq(Words)
      BY <1>2, <1>3
    <3> HIDE DEF a, r, c, p, e
    <3> QED
      BY <3>1, ConcatProperties, Zenon
  <2>2. Len(evm) \in Nat
    BY LenProperties
  <2> HIDE DEF a, r, c, p, e
  <2> QED
    BY <1>1, <1>2, <1>3, <1>4, <2>1, <2>2, SMT
<1>6. Len(m_stack) = Len(evm) /\ Len(evm) \in Nat
  BY LenProperties DEF Kept
<1>7. /\ Len(s) = Len(m_stack) - a + r
      /\ \A i \in 1 .. Len(m_stack) - a : s[r + i] = m_stack[a + i]
  OBVIOUS
<1>8. \A i \in 1 .. Len(evm) : evm[i] # COMPUTED => m_stack[i] = evm[i]
  BY DEF Kept
<1>9. SUFFICES ASSUME NEW i \in 1 .. Len(e), e[i] # COMPUTED
               PROVE  s[i] = e[i]
  <2> HIDE DEF a, r, c, p, e
  <2>1. Len(s) = Len(e)
    BY <1>1, <1>5, <1>6, <1>7, SMT
  <2> QED
    BY <1>9, <2>1 DEF Kept, e
<1> HIDE DEF a, r, c, p, e
<1>10. ~(i <= r)
  BY <1>1, <1>2, <1>5, <1>6, <1>9, SMT
<1>11. i - r \in 1 .. Len(evm) - a
  BY <1>1, <1>5, <1>6, <1>9, <1>10, SMT
<1>12. e[i] = evm[a + (i - r)]
  BY <1>3, <1>5, <1>9, <1>10, <1>11, SMT
<1>13. s[r + (i - r)] = m_stack[a + (i - r)]
  BY <1>6, <1>7, <1>11, Zenon
<1>14. a + (i - r) \in 1 .. Len(evm) /\ r + (i - r) = i
  BY <1>1, <1>6, <1>11, SMT
<1> QED
  BY <1>8, <1>9, <1>12, <1>13, <1>14, Zenon

\* A register pushed on both stacks.
LEMMA PushKept ==
  ASSUME NEW s \in Seq(Nat), NEW e \in Seq(Words), Kept(s, e),
         NEW v \in Nat, NEW w \in Words, w # COMPUTED => v = w
  PROVE  Kept(<< v >> \o s, << w >> \o e)
<1>1. /\ Len(<< v >> \o s) = Len(s) + 1 /\ (<< v >> \o s)[1] = v
      /\ \A i \in 1 .. Len(s) : (<< v >> \o s)[i + 1] = s[i]
  BY PushFacts
<1>2. /\ Len(<< w >> \o e) = Len(e) + 1 /\ (<< w >> \o e)[1] = w
      /\ \A i \in 1 .. Len(e) : (<< w >> \o e)[i + 1] = e[i]
  BY PushFacts
<1>3. /\ Len(s) = Len(e) /\ Len(e) \in Nat
      /\ \A i \in 1 .. Len(e) : e[i] # COMPUTED => s[i] = e[i]
  BY LenProperties DEF Kept
<1> DEFINE t == << v >> \o s
           f == << w >> \o e
<1> SUFFICES ASSUME NEW i \in 1 .. Len(f), f[i] # COMPUTED
             PROVE  t[i] = f[i]
  BY <1>1, <1>2, <1>3 DEF Kept
<1> HIDE DEF t, f
<1>4. CASE i = 1
  BY <1>1, <1>2, <1>4 DEF t, f
<1>5. CASE i # 1
  <2>1. i - 1 \in 1 .. Len(e) /\ (i - 1) + 1 = i
    BY <1>2, <1>3, <1>5, SMT DEF f
  <2>2. f[i] = e[i - 1] /\ t[i] = s[i - 1]
    BY <1>1, <1>2, <1>3, <2>1, Zenon DEF t, f
  <2> QED
    BY <1>3, <2>1, <2>2
<1> QED
  BY <1>4, <1>5

\* The same exchange on both stacks.
LEMMA SwapKept ==
  ASSUME NEW s \in Seq(Nat), NEW e \in Seq(Words), Kept(s, e),
         NEW k \in Nat, k + 1 <= Len(e)
  PROVE  Kept(Swapped(s, k), Swapped(e, k))
<1>1. /\ Len(s) = Len(e) /\ Len(e) \in Nat
      /\ \A i \in 1 .. Len(e) : e[i] # COMPUTED => s[i] = e[i]
  BY LenProperties DEF Kept
<1>2. /\ Len(Swapped(s, k)) = Len(s)
      /\ \A i \in 1 .. Len(s) :
           Swapped(s, k)[i] = IF i = k + 1 THEN s[1]
                              ELSE IF i = 1 THEN s[k + 1] ELSE s[i]
  BY <1>1, SwappedFacts
<1>3. /\ Len(Swapped(e, k)) = Len(e)
      /\ \A i \in 1 .. Len(e) :
           Swapped(e, k)[i] = IF i = k + 1 THEN e[1]
                              ELSE IF i = 1 THEN e[k + 1] ELSE e[i]
  BY SwappedFacts
<1>4. 1 \in 1 .. Len(e) /\ k + 1 \in 1 .. Len(e)
  BY <1>1, SMT
<1> QED
  BY <1>1, <1>2, <1>3, <1>4 DEF Kept

\* popStack, k times, and a write to the top: what SHA3 and CALL do.
LEMMA PopsTop ==
  ASSUME NEW s \in Seq(Nat), NEW k \in Nat, k < Len(s), NEW v \in Nat
  PROVE  /\ Topped(Pops(s, k), v) \in Seq(Nat)
         /\ Len(Topped(Pops(s, k), v)) = Len(s) - k
         /\ \A i \in 1 .. Len(s) - (k + 1) :
              Topped(Pops(s, k), v)[1 + i] = s[(k + 1) + i]
<1> DEFINE p == Pops(s, k)
           t == Topped(p, v)
<1>1. /\ Len(s) \in Nat /\ k <= Len(s)
  BY LenProperties, SMT
<1>2. /\ p \in Seq(Nat) /\ Len(p) = Len(s) - k
      /\ \A i \in 1 .. Len(s) - k : p[i] = s[k + i]
  BY <1>1, PopsFacts
<1> HIDE DEF p
<1>4. /\ t \in Seq(Nat) /\ Len(t) = Len(p)
      /\ \A i \in 2 .. Len(p) : t[i] = p[i]
  BY <1>2, TopFacts
<1> HIDE DEF t
<1>5. ASSUME NEW i \in 1 .. Len(s) - (k + 1)
      PROVE  t[1 + i] = s[(k + 1) + i]
  <2>1. /\ 1 + i \in 2 .. Len(p) /\ 1 + i \in 1 .. Len(s) - k
        /\ k + (1 + i) = (k + 1) + i
    <3> DEFINE n == Len(s)
               m == Len(p)
    <3>1. n \in Nat /\ m = n - k /\ i \in 1 .. n - (k + 1)
      BY <1>1, <1>2, <1>5
    <3>2. SUFFICES 1 + i \in 2 .. m /\ 1 + i \in 1 .. n - k
                   /\ k + (1 + i) = (k + 1) + i
      OBVIOUS
    <3> HIDE DEF n, m
    <3> QED
      BY <3>1, SMT
  <2> QED
    BY <1>2, <1>4, <2>1
<1> QED
  BY <1>2, <1>4, <1>5 DEF p, t

-----------------------------------------------------------------------------
(***************************************************************************)
(* The invariant, and the three ways an instruction can end.               *)
(***************************************************************************)
MachineInv == TypeOK /\ AddressesKept /\ KnownFaults

\* Where AddressesKept is not about the whole state.
LEMMA KeptWhen ==
  AddressesKept <=> (status # "undefined" /\ ~strayed => Kept(m_stack, evm))
  BY DEF AddressesKept, Kept

\* An instruction begins on stacks of the right types and, unless a JUMP lies
\* before it in the block, with its operands.
LEMMA BeginFacts ==
  ASSUME TypeOK, NEW op \in Ops, NEW v \in Nat, Begin(op, v)
  PROVE  /\ m_stack \in Seq(Nat) /\ evm \in Seq(Words)
         /\ status \in {"run", "dead"}
         /\ status = "run" => Len(evm) >= Args(op) /\ evm' = OnEthereum(op, v)
         /\ evm' \in Seq(Words) /\ steps' \in 0 .. MaxSteps
<1>1. m_stack \in Seq(Nat) /\ evm \in Seq(Words)
  BY DEF TypeOK, Words
<1>2. /\ status \in {"run", "dead"}
      /\ status = "run" => Len(evm) >= Args(op)
      /\ evm' = IF status = "run" THEN OnEthereum(op, v) ELSE evm
      /\ steps < MaxSteps /\ steps' = steps + 1
  BY DEF Begin
<1>3. status = "run" => OnEthereum(op, v) \in Seq(Words)
  BY <1>1, <1>2, OnEthereumType
<1>4. steps \in 0 .. MaxSteps /\ MaxSteps \in Nat
  BY ValuesAssumption DEF TypeOK
<1>5. steps' \in 0 .. MaxSteps
  BY <1>2, <1>4, SMT
<1> QED
  BY <1>1, <1>2, <1>3, <1>5

\* Where nothing has strayed, the instruction is executed on Ethereum too.
LEMMA FollowsFacts ==
  ASSUME TypeOK, NEW op \in Ops, NEW v \in Nat, Begin(op, v), Follows
  PROVE  /\ strayed' \in BOOLEAN
         /\ ~strayed' => ~strayed /\ status = "run"
<1>1. strayed \in BOOLEAN /\ status \in {"run", "dead"}
  BY DEF TypeOK, Begin
<1>2. strayed' = (strayed \/ status = "dead")
  BY DEF Follows
<1> QED
  BY <1>1, <1>2

\* An instruction that is carried out, JUMP among them.
LEMMA DoneStep ==
  ASSUME MachineInv, NEW op \in Ops, NEW v \in Nat, Begin(op, v),
         NEW s \in Seq(Nat), m_stack' = s, m_eip' \in Nat,
         status' \in {"run", "dead"}, fault' = fault,
         /\ DOMAIN m_memStorage' \subseteq Nat
         /\ m_memStorage' \in [DOMAIN m_memStorage' -> Nat],
         \/ strayed' = TRUE
         \/ /\ Follows
            /\ status = "run" /\ Kept(m_stack, evm) => Kept(s, OnEthereum(op, v))
  PROVE  MachineInv'
<1>1. TypeOK /\ AddressesKept /\ KnownFaults
  BY DEF MachineInv
<1>2. /\ status \in {"run", "dead"} /\ evm' \in Seq(Words)
      /\ status = "run" => evm' = OnEthereum(op, v)
      /\ steps' \in 0 .. MaxSteps
  BY <1>1, BeginFacts
<1>3. strayed' \in BOOLEAN
  BY <1>1, FollowsFacts
<1>4. TypeOK'
  BY <1>1, <1>2, <1>3 DEF TypeOK, Words
<1>5. ASSUME ~strayed' PROVE Kept(m_stack', evm')
  <2>1. Follows /\ (status = "run" /\ Kept(m_stack, evm) =>
                      Kept(s, OnEthereum(op, v)))
    BY <1>5
  <2>2. ~strayed /\ status = "run"
    BY <1>1, <1>5, <2>1, FollowsFacts
  <2>3. Kept(m_stack, evm)
    BY <1>1, <2>2, KeptWhen
  <2> QED
    BY <1>2, <2>1, <2>2, <2>3
<1>6. AddressesKept'
  BY <1>5 DEF AddressesKept, Kept
<1>7. KnownFaults'
  BY DEF KnownFaults
<1> QED
  BY <1>4, <1>6, <1>7 DEF MachineInv

\* An instruction that fails is passed over.
LEMMA FailedStep ==
  ASSUME MachineInv, NEW op \in Ops, NEW v \in Nat, Begin(op, v), Failed(op)
  PROVE  MachineInv'
<1>1. TypeOK /\ status \in {"run", "dead"}
  BY DEF MachineInv, Begin
<1>2. evm' \in Seq(Words) /\ steps' \in 0 .. MaxSteps
  BY <1>1, BeginFacts
<1>3. TypeOK'
  BY <1>1, <1>2 DEF TypeOK, Failed, Words
<1>4. AddressesKept' /\ KnownFaults'
  BY DEF AddressesKept, KnownFaults, Failed
<1> QED
  BY <1>3, <1>4 DEF MachineInv

\* An access that is undefined ends the run.
LEMMA UndefinedStep ==
  ASSUME MachineInv, NEW op \in Ops, NEW v \in Nat, Begin(op, v), Undefined(op),
         status = "run" /\ Kept(m_stack, evm) =>
           op.inst \in {"MSTORE", "SHA3", "PC"}
  PROVE  MachineInv'
<1>1. TypeOK /\ AddressesKept /\ op.inst \in Insts
  BY TableFacts, Zenon DEF MachineInv
<1>2. /\ evm' \in Seq(Words) /\ steps' \in 0 .. MaxSteps
      /\ status \in {"run", "dead"}
  BY <1>1, BeginFacts
<1>3. strayed' \in BOOLEAN /\ (~strayed' => ~strayed /\ status = "run")
  BY <1>1, FollowsFacts DEF Undefined
<1>4. TypeOK'
  BY <1>1, <1>2, <1>3 DEF TypeOK, Undefined, Words
<1>5. AddressesKept'
  BY DEF AddressesKept, Undefined
<1>6. ~strayed' => status = "run" /\ Kept(m_stack, evm)
  BY <1>1, <1>3, KeptWhen
<1>7. KnownFaults'
  BY <1>6 DEF KnownFaults, Undefined
<1> QED
  BY <1>4, <1>5, <1>7 DEF MachineInv

-----------------------------------------------------------------------------
(***************************************************************************)
(* Each action keeps the invariant.                                        *)
(***************************************************************************)
\* What the steps below need of the state and of a set of results.
LEMMA StateFacts ==
  ASSUME MachineInv
  PROVE  /\ TypeOK /\ m_stack \in Seq(Nat) /\ m_eip \in Nat
         /\ DOMAIN m_memStorage \subseteq Nat
         /\ m_memStorage \in [DOMAIN m_memStorage -> Nat]
         /\ Len(m_stack) \in Nat /\ 0 \in Nat /\ Results \subseteq Nat
         /\ \A i \in 1 .. Len(m_stack) : m_stack[i] \in Nat
<1>1. TypeOK
  BY DEF MachineInv
<1>2. m_stack \in Seq(Nat)
  BY <1>1 DEF TypeOK
<1>3. \A i \in 1 .. Len(m_stack) : m_stack[i] \in Nat
  BY <1>2, ElementOfSeq
<1> QED
  BY <1>1, <1>2, <1>3, LenProperties, ValuesAssumption DEF TypeOK

\* What break leaves, beside the stack.
LEMMA DoneFacts ==
  ASSUME MachineInv, NEW op \in Ops, NEW v \in Nat, Begin(op, v),
         NEW s, Done(op, s)
  PROVE  /\ m_stack' = s /\ m_eip' \in Nat /\ status' \in {"run", "dead"}
         /\ fault' = fault
<1>1. m_eip \in Nat /\ Additional(op) \in {0, 2}
  BY StateFacts, TableFacts, Zenon
<1>2. m_stack' = s /\ m_eip' = m_eip + 1 + Additional(op)
  BY DEF Done
<1>3. status' \in {"run", "dead"} /\ fault' = fault
  BY DEF Done, Begin
<1>4. m_eip' \in Nat
  BY <1>1, <1>2, SMT
<1> QED
  BY <1>2, <1>3, <1>4

\* A new block: only m_eip moves.
LEMMA BeginBlockStep ==
  ASSUME MachineInv, BeginBlock
  PROVE  MachineInv'
<1>1. TypeOK /\ AddressesKept /\ KnownFaults
  BY DEF MachineInv
<1>2. m_eip' \in Nat /\ status # "undefined" /\ status' = "run"
  BY ValuesAssumption DEF BeginBlock
<1>3. TypeOK'
  BY <1>1, <1>2 DEF TypeOK, BeginBlock
<1>4. AddressesKept' /\ KnownFaults'
  BY <1>1, <1>2 DEF AddressesKept, KnownFaults, BeginBlock
<1> QED
  BY <1>3, <1>4 DEF MachineInv

\* Pops of an instruction that only takes its operands.
LEMMA PopsKept ==
  ASSUME NEW op \in Ops, NEW v \in Nat, op.inst \notin {"PUSH", "DUP", "SWAP"},
         m_stack \in Seq(Nat), evm \in Seq(Words), Ret(op) = 0
  PROVE  /\ Pops(m_stack, Args(op)) \in Seq(Nat)
         /\ Len(evm) >= Args(op) /\ Kept(m_stack, evm) =>
              Kept(Pops(m_stack, Args(op)), OnEthereum(op, v))
<1>1. Args(op) \in Nat
  BY TableFacts, Zenon
<1>2. /\ Pops(m_stack, Args(op)) \in Seq(Nat)
      /\ Args(op) <= Len(m_stack) =>
           /\ Len(Pops(m_stack, Args(op))) = Len(m_stack) - Args(op)
           /\ \A i \in 1 .. Len(m_stack) - Args(op) :
                Pops(m_stack, Args(op))[i] = m_stack[Args(op) + i]
  BY <1>1, PopsFacts, Zenon
<1> DEFINE s == Pops(m_stack, Args(op))
<1> SUFFICES ASSUME Len(evm) >= Args(op), Kept(m_stack, evm)
             PROVE  Kept(s, OnEthereum(op, v))
  BY <1>2
<1>3. Len(m_stack) = Len(evm) /\ Len(evm) \in Nat
  BY LenProperties DEF Kept
<1>4. /\ s \in Seq(Nat) /\ Len(s) = Len(m_stack) - Args(op) + Ret(op)
      /\ \A i \in 1 .. Len(m_stack) - Args(op) :
           s[Ret(op) + i] = m_stack[Args(op) + i]
  BY <1>1, <1>2, <1>3, SMT
<1> HIDE DEF s
<1> QED
  BY <1>4, EffectKept, Zenon

\* A PUSH puts the same value on both stacks; ENV, a computed one on Ethereum's.
LEMMA PushStep ==
  ASSUME MachineInv, Push
  PROVE  MachineInv'
<1>1. PICK op \in Ops, v \in Results :
        /\ op.inst \in {"PUSH", "ENV"} /\ Begin(op, v)
        /\ Done(op, << v >> \o m_stack) /\ Follows /\ UNCHANGED m_memStorage
  BY DEF Push
<1>2. /\ v \in Nat /\ m_stack \in Seq(Nat) /\ TypeOK
      /\ DOMAIN m_memStorage \subseteq Nat
      /\ m_memStorage \in [DOMAIN m_memStorage -> Nat]
  BY StateFacts
<1>3. evm \in Seq(Words) /\ (status = "run" => Len(evm) >= Args(op))
  BY <1>1, <1>2, BeginFacts
<1> DEFINE s == << v >> \o m_stack
<1>4. /\ s \in Seq(Nat) /\ Len(s) = Len(m_stack) + 1
      /\ \A i \in 1 .. Len(m_stack) : s[i + 1] = m_stack[i]
  BY <1>2, PushFacts
<1>5. ASSUME status = "run", Kept(m_stack, evm)
      PROVE  Kept(s, OnEthereum(op, v))
  <2>1. CASE op.inst = "PUSH"
    <3>1. v \in Words
      BY <1>2 DEF Words
    <3>2. OnEthereum(op, v) = << v >> \o evm
      BY <2>1 DEF OnEthereum
    <3> QED
      BY <1>2, <1>3, <1>5, <3>1, <3>2, PushKept
  <2>2. CASE op.inst = "ENV"
    <3>1. Args(op) = 0 /\ Ret(op) = 1
      BY <2>2 DEF Args, Ret
    <3>2. /\ Len(s) = Len(m_stack) - Args(op) + Ret(op)
          /\ \A i \in 1 .. Len(m_stack) - Args(op) :
               s[Ret(op) + i] = m_stack[Args(op) + i]
      BY <1>2, <1>4, <3>1, LenProperties, SMT
    <3> HIDE DEF s
    <3> QED
      BY <1>2, <1>3, <1>4, <1>5, <2>2, <3>2, EffectKept
  <2> QED
    BY <1>1, <2>1, <2>2
<1> HIDE DEF s
<1> QED
  BY <1>1, <1>2, <1>4, <1>5, DoneFacts, DoneStep DEF s

\* DUP copies the same register on both stacks (VMState.cpp:402).
LEMMA DupStep ==
  ASSUME MachineInv, Dup
  PROVE  MachineInv'
<1>1. PICK op \in Ops :
        /\ op.inst = "DUP" /\ HasTouched(op) /\ Begin(op, 0)
        /\ Done(op, << m_stack[op.n] >> \o m_stack)
        /\ Follows /\ UNCHANGED m_memStorage
  BY DEF Dup, Exec
<1>2. /\ m_stack \in Seq(Nat) /\ TypeOK /\ 0 \in Nat
      /\ DOMAIN m_memStorage \subseteq Nat
      /\ m_memStorage \in [DOMAIN m_memStorage -> Nat]
  BY StateFacts
<1>3. evm \in Seq(Words) /\ (status = "run" => Len(evm) >= Args(op))
  BY <1>1, <1>2, BeginFacts
<1>4. /\ op.n \in 1 .. Len(m_stack)
      /\ status = "run" => op.n \in 1 .. Len(evm)
  <2>1. op.n \in 0 .. 16 /\ op.n # 0
    BY <1>1, OpsAssumption, TableFacts
  <2>2. Len(m_stack) >= op.n /\ (status = "run" => Len(evm) >= op.n)
    BY <1>1, <1>3 DEF HasTouched, Touched, Args
  <2>3. Len(m_stack) \in Nat /\ Len(evm) \in Nat
    BY <1>2, <1>3, LenProperties
  <2> QED
    BY <2>1, <2>2, <2>3, SMT
<1> DEFINE v == m_stack[op.n]
           w == evm[op.n]
           s == << v >> \o m_stack
<1>5. v \in Nat /\ (status = "run" => w \in Words)
  BY <1>2, <1>3, <1>4, ElementOfSeq
<1>6. OnEthereum(op, 0) = << w >> \o evm
  BY <1>1 DEF OnEthereum
<1>7. status = "run" /\ Kept(m_stack, evm) => (w # COMPUTED => v = w)
  BY <1>4 DEF Kept
<1>8. s = << v >> \o m_stack
  OBVIOUS
<1>9. Done(op, s)
  BY <1>1
<1> HIDE DEF v, w, s
<1>10. s \in Seq(Nat)
  BY <1>2, <1>5, <1>8, PushFacts
<1>11. status = "run" /\ Kept(m_stack, evm) => Kept(s, OnEthereum(op, 0))
  BY <1>2, <1>3, <1>5, <1>6, <1>7, <1>8, PushKept
<1> QED
  BY <1>1, <1>2, <1>9, <1>10, <1>11, DoneFacts, DoneStep

\* SWAP exchanges the same registers on both stacks (VMState.cpp:423).
LEMMA SwapStep ==
  ASSUME MachineInv, Swap
  PROVE  MachineInv'
<1>1. PICK op \in Ops :
        /\ op.inst = "SWAP" /\ HasTouched(op) /\ Begin(op, 0)
        /\ Done(op, Swapped(m_stack, op.n))
        /\ Follows /\ UNCHANGED m_memStorage
  BY DEF Swap, Exec
<1>2. /\ m_stack \in Seq(Nat) /\ TypeOK /\ 0 \in Nat
      /\ DOMAIN m_memStorage \subseteq Nat
      /\ m_memStorage \in [DOMAIN m_memStorage -> Nat]
  BY StateFacts
<1>3. evm \in Seq(Words) /\ (status = "run" => Len(evm) >= Args(op))
  BY <1>1, <1>2, BeginFacts
<1>4. /\ op.n \in Nat /\ op.n + 1 <= Len(m_stack)
      /\ status = "run" => op.n + 1 <= Len(evm)
  <2>1. op.n \in 0 .. 16
    BY TableFacts
  <2>2. Len(m_stack) >= op.n + 1 /\ (status = "run" => Len(evm) >= op.n + 1)
    BY <1>1, <1>3 DEF HasTouched, Touched, Args
  <2>3. Len(m_stack) \in Nat /\ Len(evm) \in Nat
    BY <1>2, <1>3, LenProperties
  <2> QED
    BY <2>1, <2>2, <2>3, SMT
<1>5. OnEthereum(op, 0) = Swapped(evm, op.n)
  BY <1>1 DEF OnEthereum
<1>6. Swapped(m_stack, op.n) \in Seq(Nat)
  BY <1>2, <1>4, SwappedFacts
<1>7. status = "run" /\ Kept(m_stack, evm) =>
        Kept(Swapped(m_stack, op.n), OnEthereum(op, 0))
  BY <1>2, <1>3, <1>4, <1>5, SwapKept
<1> QED
  BY <1>1, <1>2, <1>6, <1>7, DoneFacts, DoneStep

\* POP, SSTORE and JUMPDEST only take their operands.
LEMMA DiscardStep ==
  ASSUME MachineInv, Discard
  PROVE  MachineInv'
<1>1. PICK op \in Ops :
        /\ op.inst \in {"POP", "SSTORE", "JUMPDEST"} /\ Begin(op, 0)
        /\ Done(op, Pops(m_stack, Args(op)))
        /\ Follows /\ UNCHANGED m_memStorage
  BY DEF Discard
<1>2. /\ m_stack \in Seq(Nat) /\ TypeOK /\ 0 \in Nat
      /\ DOMAIN m_memStorage \subseteq Nat
      /\ m_memStorage \in [DOMAIN m_memStorage -> Nat]
  BY StateFacts
<1>3. evm \in Seq(Words) /\ (status = "run" => Len(evm) >= Args(op))
  BY <1>1, <1>2, BeginFacts
<1>4. op.inst \notin {"PUSH", "DUP", "SWAP"} /\ Ret(op) = 0
  BY <1>1 DEF Ret
<1>5. /\ Pops(m_stack, Args(op)) \in Seq(Nat)
      /\ status = "run" /\ Kept(m_stack, evm) =>
           Kept(Pops(m_stack, Args(op)), OnEthereum(op, 0))
  BY <1>2, <1>3, <1>4, PopsKept, Zenon
<1> QED
  BY <1>1, <1>2, <1>5, DoneFacts, DoneStep

\* LOG takes its operands and topics (VMState.cpp:379).
LEMMA LogStep ==
  ASSUME MachineInv, Log
  PROVE  MachineInv'
<1>1. PICK op \in Ops :
        /\ op.inst = "LOG" /\ Begin(op, 0)
        /\ Done(op, Pops(m_stack, op.n + 2))
        /\ Follows /\ UNCHANGED m_memStorage
  BY DEF Log, Exec
<1>2. /\ m_stack \in Seq(Nat) /\ TypeOK /\ 0 \in Nat
      /\ DOMAIN m_memStorage \subseteq Nat
      /\ m_memStorage \in [DOMAIN m_memStorage -> Nat]
  BY StateFacts
<1>3. evm \in Seq(Words) /\ (status = "run" => Len(evm) >= Args(op))
  BY <1>1, <1>2, BeginFacts
<1>4. /\ op.inst \notin {"PUSH", "DUP", "SWAP"} /\ Ret(op) = 0
      /\ Args(op) = op.n + 2
  BY <1>1 DEF Ret, Args
<1>5. /\ Pops(m_stack, Args(op)) \in Seq(Nat)
      /\ status = "run" /\ Kept(m_stack, evm) =>
           Kept(Pops(m_stack, Args(op)), OnEthereum(op, 0))
  BY <1>2, <1>3, <1>4, PopsKept, Zenon
<1>6. Done(op, Pops(m_stack, Args(op)))
  BY <1>1, <1>4
<1> QED
  BY <1>1, <1>2, <1>5, <1>6, DoneFacts, DoneStep

\* An instruction that takes a operands and puts one result in their place.
LEMMA ResultStep ==
  ASSUME MachineInv, NEW op \in Ops, NEW v \in Nat, Begin(op, v),
         op.inst \notin {"PUSH", "DUP", "SWAP"}, Ret(op) = 1,
         NEW a \in Nat, Args(op) = a,
         NEW s \in Seq(Nat), Done(op, s),
         Len(s) = Len(m_stack) - a + 1,
         \A i \in 1 .. Len(m_stack) - a : s[1 + i] = m_stack[a + i],
         Follows, UNCHANGED m_memStorage
  PROVE  MachineInv'
<1>1. /\ m_stack \in Seq(Nat) /\ TypeOK
      /\ DOMAIN m_memStorage \subseteq Nat
      /\ m_memStorage \in [DOMAIN m_memStorage -> Nat]
  BY StateFacts
<1>2. evm \in Seq(Words) /\ (status = "run" => Len(evm) >= Args(op))
  BY <1>1, BeginFacts
<1>3. /\ Len(s) = Len(m_stack) - Args(op) + Ret(op)
      /\ \A i \in 1 .. Len(m_stack) - Args(op) :
           s[Ret(op) + i] = m_stack[Args(op) + i]
  OBVIOUS
<1>4. status = "run" /\ Kept(m_stack, evm) => Kept(s, OnEthereum(op, v))
  BY <1>1, <1>2, <1>3, EffectKept, Zenon
<1> QED
  BY <1>1, <1>4, DoneFacts, DoneStep

\* The result is written below the top, and the top popped (VMState.cpp:436).
LEMMA BinaryStep ==
  ASSUME MachineInv, Binary
  PROVE  MachineInv'
<1>1. PICK op \in Ops, v \in Results :
        /\ op.inst = "BINARY" /\ HasTouched(op) /\ Begin(op, v)
        /\ Done(op, Pops([m_stack EXCEPT ![2] = v], 1))
        /\ Follows /\ UNCHANGED m_memStorage
  BY DEF Binary, Exec
<1>2. v \in Nat /\ m_stack \in Seq(Nat) /\ Len(m_stack) \in Nat
  BY StateFacts
<1>3. Ret(op) = 1 /\ Args(op) = 2 /\ Len(m_stack) >= 2
  BY <1>1 DEF Ret, Args, HasTouched, Touched
<1> DEFINE t == [m_stack EXCEPT ![2] = v]
           s == Pops(t, 1)
<1>4. 2 \in 1 .. Len(m_stack)
  BY <1>2, <1>3, SMT
<1>5. /\ t \in Seq(Nat) /\ Len(t) = Len(m_stack)
      /\ \A j \in 1 .. Len(m_stack) : t[j] = IF j = 2 THEN v ELSE m_stack[j]
  BY <1>2, <1>4, ExceptSeq
<1> HIDE DEF t
<1>6. /\ s \in Seq(Nat) /\ Len(s) = Len(t) - 1
      /\ \A j \in 1 .. Len(t) - 1 : s[j] = t[1 + j]
  <2>1. 1 \in Nat /\ 1 <= Len(t)
    BY <1>2, <1>3, <1>5, SMT
  <2> QED
    <3> DEFINE k == 1
    <3>1. k \in Nat /\ k <= Len(t)
      BY <2>1
    <3> HIDE DEF k
    <3>2. /\ Pops(t, k) \in Seq(Nat) /\ Len(Pops(t, k)) = Len(t) - k
          /\ \A j \in 1 .. Len(t) - k : Pops(t, k)[j] = t[k + j]
      <4>1. t \in Seq(Nat)
        BY <1>5
      <4> QED
        BY <3>1, <4>1, PopsFacts, Zenon
    <3> QED
      BY <3>2 DEF k
<1>7. Done(op, s)
  BY <1>1 DEF t
<1> HIDE DEF s
<1>8. Len(s) = Len(m_stack) - 2 + 1
  BY <1>2, <1>5, <1>6, SMT
<1>9. ASSUME NEW i \in 1 .. Len(m_stack) - 2
      PROVE  s[1 + i] = m_stack[2 + i]
  <2>1. /\ 1 + i \in 1 .. Len(m_stack) - 1 /\ 1 + (1 + i) = 2 + i
        /\ 2 + i \in 1 .. Len(m_stack) /\ 2 + i # 2
    BY <1>2, SMT
  <2> QED
    BY <1>5, <1>6, <2>1
<1> QED
  BY <1>1, <1>2, <1>3, <1>6, <1>7, <1>8, <1>9, ResultStep

\* The result is written over the operand.
LEMMA UnaryStep ==
  ASSUME MachineInv, Unary
  PROVE  MachineInv'
<1>1. PICK op \in Ops,
           v \in Results \cup { m_stack[i] : i \in {1} \cap DOMAIN m_stack } :
        /\ op.inst = "UNARY" /\ HasTouched(op) /\ Begin(op, v)
        /\ Done(op, [m_stack EXCEPT ![1] = v])
        /\ Follows /\ UNCHANGED m_memStorage
  BY DEF Unary, Exec
<1>2. /\ m_stack \in Seq(Nat) /\ Len(m_stack) \in Nat
      /\ \A i \in 1 .. Len(m_stack) : m_stack[i] \in Nat
  BY StateFacts
<1>3. v \in Nat
  BY <1>2, LenProperties, StateFacts
<1>4. Ret(op) = 1 /\ Args(op) = 1 /\ Len(m_stack) >= 1
  BY <1>1 DEF Ret, Args, HasTouched, Touched
<1> DEFINE s == Topped(m_stack, v)
<1>5. /\ s \in Seq(Nat) /\ Len(s) = Len(m_stack)
      /\ \A i \in 2 .. Len(m_stack) : s[i] = m_stack[i]
  BY <1>2, <1>3, TopFacts
<1>6. Done(op, s)
  BY <1>1 DEF Topped
<1> HIDE DEF s
<1>7. Len(s) = Len(m_stack) - 1 + 1
  BY <1>2, <1>5, SMT
<1>8. \A i \in 1 .. Len(m_stack) - 1 : s[1 + i] = m_stack[1 + i]
  BY <1>2, <1>5, SMT
<1> QED
  BY <1>1, <1>3, <1>4, <1>5, <1>6, <1>7, <1>8, ResultStep

\* MSTORE with a register below its operands writes one memory element; it is
\* undefined without one.
LEMMA MstoreStep ==
  ASSUME MachineInv, Mstore
  PROVE  MachineInv'
<1>1. PICK op \in Ops :
        /\ op.inst = "MSTORE" /\ HasTouched(op) /\ Begin(op, 0)
        /\ IF Len(m_stack) > 2
             THEN /\ Done(op, Pops(m_stack, 2))
                  /\ m_memStorage' =
                       [ o \in DOMAIN m_memStorage \cup {m_stack[1]} |->
                           IF o = m_stack[1] THEN m_stack[2]
                           ELSE m_memStorage[o] ]
                  /\ Follows
             ELSE Undefined(op)
  BY DEF Mstore, Exec
<1>2. /\ m_stack \in Seq(Nat) /\ TypeOK /\ 0 \in Nat /\ Len(m_stack) \in Nat
      /\ DOMAIN m_memStorage \subseteq Nat
      /\ m_memStorage \in [DOMAIN m_memStorage -> Nat]
      /\ \A i \in 1 .. Len(m_stack) : m_stack[i] \in Nat
  BY StateFacts
<1>3. evm \in Seq(Words) /\ (status = "run" => Len(evm) >= Args(op))
  BY <1>1, <1>2, BeginFacts
<1>4. CASE Len(m_stack) > 2
  <2>1. /\ op.inst \notin {"PUSH", "DUP", "SWAP"} /\ Ret(op) = 0
        /\ Args(op) = 2
    BY <1>1 DEF Ret, Args
  <2>2. /\ Pops(m_stack, Args(op)) \in Seq(Nat)
        /\ status = "run" /\ Kept(m_stack, evm) =>
             Kept(Pops(m_stack, Args(op)), OnEthereum(op, 0))
    BY <1>2, <1>3, <2>1, PopsKept, Zenon
  <2>3. Done(op, Pops(m_stack, Args(op))) /\ Follows
    BY <1>1, <1>4, <2>1
  <2>4. m_stack[1] \in Nat /\ m_stack[2] \in Nat
    BY <1>2, <1>4, SMT
  <2>5. /\ DOMAIN m_memStorage' \subseteq Nat
        /\ m_memStorage' \in [DOMAIN m_memStorage' -> Nat]
    BY <1>1, <1>2, <1>4, <2>4
  <2> QED
    BY <1>1, <1>2, <2>2, <2>3, <2>5, DoneFacts, DoneStep
<1>5. CASE ~(Len(m_stack) > 2)
  BY <1>1, <1>2, <1>5, UndefinedStep
<1> QED
  BY <1>4, <1>5

\* SHA3 leaves the memory element; it is undefined without one.
LEMMA Sha3Step ==
  ASSUME MachineInv, Sha3
  PROVE  MachineInv'
<1>1. PICK op \in Ops :
        /\ op.inst = "SHA3" /\ HasTouched(op) /\ Begin(op, 0)
        /\ IF m_stack[1] \in DOMAIN m_memStorage
             THEN /\ Done(op, [ Pops(m_stack, 1) EXCEPT
                                  ![1] = m_memStorage[m_stack[1]] ])
                  /\ Follows /\ UNCHANGED m_memStorage
             ELSE Undefined(op)
  BY DEF Sha3, Exec
<1>2. /\ m_stack \in Seq(Nat) /\ Len(m_stack) \in Nat /\ 0 \in Nat
      /\ m_memStorage \in [DOMAIN m_memStorage -> Nat]
  BY StateFacts
<1>3. CASE m_stack[1] \in DOMAIN m_memStorage
  <2> DEFINE v == m_memStorage[m_stack[1]]
             s == [Pops(m_stack, 1) EXCEPT ![1] = v]
  <2>1. Ret(op) = 1 /\ Args(op) = 2 /\ Len(m_stack) >= 2
    BY <1>1 DEF Ret, Args, HasTouched, Touched
  <2>2. v \in Nat
    BY <1>2, <1>3
  <2>3. Done(op, s) /\ Follows /\ UNCHANGED m_memStorage
    BY <1>1, <1>3
  <2>4. s = Topped(Pops(m_stack, 1), v)
    BY DEF Topped
  <2> HIDE DEF v, s
  <2>5. 1 < Len(m_stack) /\ 2 \in Nat
    BY <1>2, <2>1, SMT
  <2>6. /\ s \in Seq(Nat) /\ Len(s) = Len(m_stack) - 1
        /\ \A i \in 1 .. Len(m_stack) - 2 : s[1 + i] = m_stack[2 + i]
    <3> DEFINE k == 1
    <3>1. k \in Nat /\ k < Len(m_stack)
      BY <2>5
    <3>2. s = Topped(Pops(m_stack, k), v)
      BY <2>4
    <3> HIDE DEF k
    <3>3. /\ s \in Seq(Nat) /\ Len(s) = Len(m_stack) - k
          /\ \A i \in 1 .. Len(m_stack) - (k + 1) :
               s[1 + i] = m_stack[(k + 1) + i]
      BY <1>2, <2>2, <3>1, <3>2, PopsTop
    <3> QED
      BY <1>2, <3>3, SMT DEF k
  <2>7. Len(s) = Len(m_stack) - 2 + 1
    BY <1>2, <2>6, SMT
  <2> QED
    BY <1>1, <1>2, <2>1, <2>3, <2>6, <2>7, ResultStep
<1>4. CASE m_stack[1] \notin DOMAIN m_memStorage
  BY <1>1, <1>2, <1>4, UndefinedStep
<1> QED
  BY <1>3, <1>4

\* CALL leaves its result in place of the seventh operand. With six registers
\* only it is undefined, but then the stacks have gone apart before.
LEMMA CallStep ==
  ASSUME MachineInv, Call
  PROVE  MachineInv'
<1>1. PICK op \in Ops, v \in Results :
        /\ op.inst = "CALL" /\ HasTouched(op) /\ Begin(op, v)
        /\ IF Len(m_stack) < 6 THEN Failed(op)
           ELSE IF Len(m_stack) < 7 THEN Undefined(op)
           ELSE /\ Done(op, [ Pops(m_stack, 6) EXCEPT ![1] = v ])
                /\ Follows /\ UNCHANGED m_memStorage
  BY DEF Call, Exec
<1>2. /\ v \in Nat /\ m_stack \in Seq(Nat) /\ Len(m_stack) \in Nat /\ TypeOK
  BY StateFacts
<1>3. Ret(op) = 1 /\ Args(op) = 7
  BY <1>1 DEF Ret, Args
<1>4. CASE Len(m_stack) < 6
  BY <1>1, <1>2, <1>4, FailedStep
<1>5. CASE ~(Len(m_stack) < 6) /\ Len(m_stack) < 7
  <2>1. Undefined(op)
    BY <1>1, <1>5
  <2>2. evm \in Seq(Words) /\ (status = "run" => Len(evm) >= 7)
    BY <1>1, <1>2, <1>3, BeginFacts
  <2>3. status = "run" => ~Kept(m_stack, evm)
    BY <1>2, <1>5, <2>2, LenProperties, SMT DEF Kept
  <2> QED
    BY <1>1, <1>2, <2>1, <2>3, UndefinedStep
<1>6. CASE ~(Len(m_stack) < 6) /\ ~(Len(m_stack) < 7)
  <2> DEFINE s == [Pops(m_stack, 6) EXCEPT ![1] = v]
  <2>1. Done(op, s) /\ Follows /\ UNCHANGED m_memStorage
    BY <1>1, <1>6
  <2>2. s = Topped(Pops(m_stack, 6), v)
    BY DEF Topped
  <2> HIDE DEF s
  <2>3. 6 < Len(m_stack) /\ 7 \in Nat
    BY <1>2, <1>6, SMT
  <2>4. /\ s \in Seq(Nat) /\ Len(s) = Len(m_stack) - 6
        /\ \A i \in 1 .. Len(m_stack) - 7 : s[1 + i] = m_stack[7 + i]
    <3> DEFINE k == 6
    <3>1. k \in Nat /\ k < Len(m_stack)
      BY <2>3
    <3>2. s = Topped(Pops(m_stack, k), v)
      BY <2>2
    <3> HIDE DEF k
    <3>3. /\ s \in Seq(Nat) /\ Len(s) = Len(m_stack) - k
          /\ \A i \in 1 .. Len(m_stack) - (k + 1) :
               s[1 + i] = m_stack[(k + 1) + i]
      BY <1>2, <3>1, <3>2, PopsTop
    <3> QED
      BY <1>2, <3>3, SMT DEF k
  <2>5. Len(s) = Len(m_stack) - 7 + 1
    BY <1>2, <2>4, SMT
  <2> QED
    BY <1>1, <1>2, <1>3, <2>1, <2>3, <2>4, <2>5, ResultStep
<1> QED
  BY <1>4, <1>5, <1>6

\* A jump takes its operands, and the block goes on.
LEMMA JumpStep ==
  ASSUME MachineInv, Jump \/ Jumpi
  PROVE  MachineInv'
<1>1. PICK op \in Ops :
        /\ op.inst \in {"JUMP", "JUMPI"} /\ Begin(op, 0)
        /\ \/ /\ m_eip' = IF m_stack = << >> THEN m_eip ELSE m_stack[1]
              /\ m_stack' = Pops(m_stack, Args(op)) /\ status' = "dead"
              /\ fault' = fault
           \/ Done(op, Pops(m_stack, Args(op)))
        /\ Follows /\ UNCHANGED m_memStorage
  BY DEF Jump, Jumpi, Exec, Args
<1>2. /\ m_stack \in Seq(Nat) /\ m_eip \in Nat /\ 0 \in Nat /\ TypeOK
      /\ DOMAIN m_memStorage \subseteq Nat
      /\ m_memStorage \in [DOMAIN m_memStorage -> Nat]
      /\ Len(m_stack) \in Nat
      /\ \A i \in 1 .. Len(m_stack) : m_stack[i] \in Nat
  BY StateFacts
<1>3. m_stack # << >> => m_stack[1] \in Nat
  BY <1>2, EmptySeq, SMT
<1>4. /\ m_stack' = Pops(m_stack, Args(op)) /\ m_eip' \in Nat
      /\ status' \in {"run", "dead"} /\ fault' = fault
  BY <1>1, <1>2, <1>3, DoneFacts
<1>5. evm \in Seq(Words) /\ (status = "run" => Len(evm) >= Args(op))
  BY <1>1, <1>2, BeginFacts
<1>6. op.inst \notin {"PUSH", "DUP", "SWAP"} /\ Ret(op) = 0
  BY <1>1 DEF Ret
<1>7. /\ Pops(m_stack, Args(op)) \in Seq(Nat)
      /\ status = "run" /\ Kept(m_stack, evm) =>
           Kept(Pops(m_stack, Args(op)), OnEthereum(op, 0))
  BY <1>2, <1>5, <1>6, PopsKept, Zenon
<1> QED
  BY <1>1, <1>2, <1>4, <1>7, DoneStep

\* PC and BLOCKHASH: the machine strays, and stays in its types.
LEMMA OddStep ==
  ASSUME MachineInv, Odd
  PROVE  MachineInv'
<1>1. PICK op \in Ops, v \in Results :
        /\ op.inst \in {"PC", "BLOCKHASH"} /\ Begin(op, v)
        /\ Done(op, IF op.inst = "PC" THEN [m_stack EXCEPT ![1] = m_eip]
                                      ELSE << v >> \o m_stack)
        /\ strayed' = TRUE /\ UNCHANGED m_memStorage
  BY DEF Odd
<1>2. /\ v \in Nat /\ m_stack \in Seq(Nat) /\ m_eip \in Nat
      /\ DOMAIN m_memStorage \subseteq Nat
      /\ m_memStorage \in [DOMAIN m_memStorage -> Nat]
  BY StateFacts
<1>3. /\ Topped(m_stack, m_eip) \in Seq(Nat)
      /\ << v >> \o m_stack \in Seq(Nat)
  BY <1>2, TopFacts, PushFacts
<1> DEFINE s == IF op.inst = "PC" THEN Topped(m_stack, m_eip)
                                  ELSE << v >> \o m_stack
<1>4. s \in Seq(Nat) /\ Done(op, s)
  BY <1>1, <1>3 DEF Topped
<1> HIDE DEF s
<1> QED
  BY <1>1, <1>2, <1>4, DoneFacts, DoneStep

\* An instruction that is not implemented fails.
LEMMA NotImplementedStep ==
  ASSUME MachineInv, NotImplemented
  PROVE  MachineInv'
BY FailedStep DEF NotImplemented

\* While the stacks agree, only PC looks where there is no operand.
LEMMA BeyondStep ==
  ASSUME MachineInv, Beyond
  PROVE  MachineInv'
<1>1. PICK op \in Ops : ~HasTouched(op) /\ Begin(op, 0) /\ Undefined(op)
  BY DEF Beyond
<1>2. m_stack \in Seq(Nat) /\ TypeOK /\ 0 \in Nat /\ Len(m_stack) \in Nat
  BY StateFacts
<1>3. status = "run" => Len(evm) >= Args(op)
  BY <1>1, <1>2, BeginFacts
<1>4. op.inst # "PC" => Touched(op) <= Args(op)
  BY TouchedAreOperands
<1>5. Args(op) \in Nat /\ Touched(op) \in Nat
  BY TableFacts, Zenon
<1>6. status = "run" /\ Kept(m_stack, evm) => op.inst = "PC"
  <2>1. Kept(m_stack, evm) => Len(m_stack) = Len(evm)
    BY DEF Kept
  <2> DEFINE n == Len(m_stack)
             a == Args(op)
             t == Touched(op)
  <2>2. ~(n >= t) /\ n \in Nat /\ a \in Nat /\ t \in Nat
    BY <1>1, <1>2, <1>5 DEF HasTouched
  <2>3. op.inst # "PC" => t <= a
    BY <1>4
  <2>4. status = "run" /\ Kept(m_stack, evm) => n >= a
    BY <1>3, <2>1
  <2> HIDE DEF n, a, t
  <2> QED
    BY <2>2, <2>3, <2>4, SMT
<1> QED
  BY <1>1, <1>2, <1>6, UndefinedStep

-----------------------------------------------------------------------------
(***************************************************************************)
(* The theorems.                                                           *)
(***************************************************************************)
\* Before the first block the two stacks are one.
LEMMA InitMachine == Init => MachineInv
<1> SUFFICES ASSUME Init PROVE MachineInv
  OBVIOUS
<1>1. PICK d \in Depths : m_stack = [ i \in 1 .. d |-> i ]
  BY DEF Init
<1>2. d \in Nat
  BY ValuesAssumption
<1>3. m_stack \in [ 1 .. d -> Nat ]
  BY <1>1, <1>2, SMT
<1>4. m_stack \in Seq(Nat)
  BY <1>2, <1>3, SeqDef
<1>5. evm = m_stack /\ evm \in Seq(Nat \cup {COMPUTED})
  BY <1>4, SeqMonotonic, Zenon DEF Init
<1>6. m_memStorage = << >> /\ DOMAIN m_memStorage = {}
  BY SMT DEF Init
<1>7. TypeOK
  <2>1. m_memStorage \in [DOMAIN m_memStorage -> Nat]
    BY <1>6, SMT
  <2>2. /\ status \in {"run", "dead", "undefined"} /\ m_eip \in Nat
        /\ strayed \in BOOLEAN
        /\ fault \in Insts \cup {"none"}
    BY DEF Init
  <2>3. steps \in 0 .. MaxSteps
    BY ValuesAssumption, SMT DEF Init
  <2> QED
    BY <1>4, <1>5, <1>6, <2>1, <2>2, <2>3, Zenon DEF TypeOK
<1>8. AddressesKept /\ KnownFaults
  BY <1>5 DEF Init, AddressesKept, KnownFaults
<1> QED
  BY <1>7, <1>8 DEF MachineInv

\* Every step keeps the invariant.
LEMMA NextMachine == MachineInv /\ [Next]_vars => MachineInv'
<1> SUFFICES ASSUME MachineInv, [Next]_vars PROVE MachineInv'
  OBVIOUS
<1>1. CASE BeginBlock
  BY <1>1, BeginBlockStep
<1>2. CASE Push \/ Dup \/ Swap \/ Discard
  BY <1>2, PushStep, DupStep, SwapStep, DiscardStep
<1>3. CASE Binary \/ Unary \/ Mstore \/ Sha3
  BY <1>3, BinaryStep, UnaryStep, MstoreStep, Sha3Step
<1>4. CASE Call \/ Log \/ Jump \/ Jumpi
  BY <1>4, CallStep, LogStep, JumpStep
<1>5. CASE Odd \/ NotImplemented \/ Beyond
  BY <1>5, OddStep, NotImplementedStep, BeyondStep
<1>6. CASE UNCHANGED vars
  BY <1>6 DEF vars, MachineInv, TypeOK, AddressesKept, KnownFaults
<1> QED
  BY <1>1, <1>2, <1>3, <1>4, <1>5, <1>6 DEF Next, Execute, Stopped

\* The invariant of every execution.
LEMMA MachineInvariant == Spec => []MachineInv
BY InitMachine, NextMachine, PTL DEF Spec

\* The machine stays in its types: memory is a map of what was stored, the
\* stack never holds anything but values (VMState.cpp:138-682).
THEOREM MachineTypeCorrect == Spec => []TypeOK
<1>1. MachineInv => TypeOK
  BY DEF MachineInv
<1> QED
  BY <1>1, MachineInvariant, PTL

\* Until an instruction fails, has another effect than on Ethereum or is
\* executed behind a JUMP of its block, every pushed address lies where it lies there, on stacks of every depth and in
\* executions of every length, so executeBlock patches a block's successor
\* with the address the contract means (VMState.cpp:785-789).
THEOREM AddressesStay == Spec => []AddressesKept
<1>1. MachineInv => AddressesKept
  BY DEF MachineInv
<1> QED
  BY <1>1, MachineInvariant, PTL

\* MSTORE, SHA3 and PC are the only instructions that valid code can make
\* look at a register or memory element that is not there, before an
\* instruction strays (VMState.cpp:248, 295, 626).
THEOREM OnlyKnownFaults == Spec => []KnownFaults
<1>1. MachineInv => KnownFaults
  BY DEF MachineInv
<1> QED
  BY <1>1, MachineInvariant, PTL
=============================================================================
