-------------------------- MODULE CodeLoaderProofs --------------------------
(***************************************************************************)
(* Proofs about module CodeLoader, for every table of instructions and     *)
(* every byte code.                                                        *)
(***************************************************************************)
EXTENDS CodeLoader, SequenceTheorems, WellFoundedInduction, TLAPS

(***************************************************************************)
(* s lists the code mem from its beginning, without a gap; Reached is      *)
(* where the pass that made s goes on.                                     *)
(***************************************************************************)
Listing(s, mem) ==
  \A j \in 1 .. Len(s) :
    /\ s[j].offset \in Nat /\ ~Ended(mem, s[j].offset)
    /\ s[j] = InstructionAt(mem, s[j].offset)
    /\ s[j].offset = IF j = 1 THEN 0 ELSE After(mem, s[j - 1].offset)

Reached(s, mem) == IF Len(s) = 0 THEN 0 ELSE After(mem, s[Len(s)].offset)

-----------------------------------------------------------------------------
\* What the table says of an instruction in the code (Instruction.cpp:222-237).
LEMMA InstructionTyped ==
  ASSUME NEW mem \in Seq(Bytes), NEW i \in Nat, ~Ended(mem, i)
  PROVE  /\ InstructionAt(mem, i) \in OffsetInfo
         /\ Len(InstructionAt(mem, i).data) = Additional[mem[i + 1]]
         /\ After(mem, i) \in Nat
<1>1. i + 1 \in 1 .. Len(mem) /\ mem[i + 1] \in Valid
  BY DEF Ended, isValidInstruction
<1>2. Additional[mem[i + 1]] \in Nat
  BY <1>1, TableAssumption
<1> DEFINE n == Additional[mem[i + 1]]
<1>3. DataAt(mem, i) \in [1 .. n -> Bytes]
  <2>1. STOP \in Bytes
    BY TableAssumption
  <2>2. ASSUME NEW k \in 1 .. n
        PROVE  (IF i + k < Len(mem) THEN mem[i + 1 + k] ELSE STOP) \in Bytes
    <3>1. CASE i + k < Len(mem)
      <4>1. i + 1 + k \in 1 .. Len(mem)
        BY <1>2, <3>1
      <4>2. QED
        BY <3>1, <4>1
    <3>2. CASE ~(i + k < Len(mem))
      BY <2>1, <3>2
    <3>3. QED
      BY <3>1, <3>2
  <2>3. QED
    BY <2>2 DEF DataAt
<1> HIDE DEF n
<1>4. DataAt(mem, i) \in Seq(Bytes) /\ Len(DataAt(mem, i)) = n
  BY <1>2, <1>3 DEF n
<1>5. QED
  BY <1>1, <1>2, <1>4 DEF InstructionAt, OffsetInfo, After, n

\* One call of the callback makes a listing longer (Instruction.cpp:220-242).
LEMMA ListOne ==
  ASSUME NEW mem \in Seq(Bytes), NEW s \in Seq(OffsetInfo), Listing(s, mem),
         NEW i \in Nat, i = Reached(s, mem), ~Ended(mem, i)
  PROVE  LET t == Append(s, InstructionAt(mem, i))
         IN  /\ t \in Seq(OffsetInfo) /\ Listing(t, mem)
             /\ After(mem, i) = Reached(t, mem) /\ After(mem, i) \in Nat
<1> DEFINE x == InstructionAt(mem, i)
           t == Append(s, x)
<1>1. x \in OffsetInfo /\ After(mem, i) \in Nat
  BY InstructionTyped
<1>2. x.offset = i
  BY DEF InstructionAt
<1> HIDE DEF x
<1>3. /\ t \in Seq(OffsetInfo) /\ Len(t) = Len(s) + 1 /\ Len(s) \in Nat
      /\ \A j \in 1 .. Len(s) : t[j] = s[j]
      /\ t[Len(s) + 1] = x
  BY <1>1
<1> HIDE DEF t
<1>4. ASSUME NEW j \in 1 .. Len(t)
      PROVE  /\ t[j].offset \in Nat /\ ~Ended(mem, t[j].offset)
             /\ t[j] = InstructionAt(mem, t[j].offset)
             /\ t[j].offset = IF j = 1 THEN 0 ELSE After(mem, t[j - 1].offset)
  <2>1. CASE j \in 1 .. Len(s)
    <3>1. j # 1 => j - 1 \in 1 .. Len(s)
      BY <2>1, <1>3
    <3>2. QED
      BY <1>3, <2>1, <3>1 DEF Listing
  <2>2. CASE j = Len(s) + 1
    <3>1. t[j] = x /\ (j # 1 => t[j - 1] = s[Len(s)])
      BY <1>3, <2>2
    <3>2. i = IF j = 1 THEN 0 ELSE After(mem, t[j - 1].offset)
      BY <1>3, <2>2, <3>1 DEF Reached
    <3>3. x = InstructionAt(mem, i)
      BY DEF x
    <3>4. QED
      BY <1>2, <3>1, <3>2, <3>3
  <2>3. QED
    BY <1>3, <2>1, <2>2
<1>5. After(mem, i) = Reached(t, mem)
  BY <1>2, <1>3 DEF Reached
<1>6. QED
  BY <1>1, <1>3, <1>4, <1>5 DEF Listing, t, x

\* The tail of a code reads as the code does (Contract.h:35).
LEMMA TailReads ==
  ASSUME NEW mem \in Seq(Bytes), NEW o \in 0 .. Len(mem), NEW i \in Nat
  PROVE  LET r == SubSeq(mem, o + 1, Len(mem))
         IN  /\ r \in Seq(Bytes)
             /\ Ended(r, i) <=> Ended(mem, o + i)
             /\ ~Ended(r, i) =>
                  /\ After(r, i) + o = After(mem, o + i)
                  /\ InstructionAt(mem, o + i) =
                       [InstructionAt(r, i) EXCEPT !.offset = @ + o]
<1> DEFINE r == SubSeq(mem, o + 1, Len(mem))
<1>1. /\ r \in Seq(Bytes) /\ Len(r) = Len(mem) - o
      /\ \A k \in 1 .. Len(mem) - o : r[k] = mem[o + k]
  <2>1. \A k \in o + 1 .. Len(mem) : mem[k] \in Bytes
    OBVIOUS
  <2>2. o + 1 \in Int /\ Len(mem) \in Int
    OBVIOUS
  <2>3. /\ r \in Seq(Bytes)
        /\ Len(r) = IF o + 1 <= Len(mem) THEN Len(mem) - (o + 1) + 1 ELSE 0
        /\ \A k \in 1 .. Len(mem) - (o + 1) + 1 : r[k] = mem[o + 1 + k - 1]
    BY <2>1, <2>2, SubSeqProperties
  <2> HIDE DEF r
  <2>4. QED
    BY <2>3
<1> HIDE DEF r
<1>2. i < Len(r) => r[i + 1] = mem[o + i + 1]
  BY <1>1
<1>3. Ended(r, i) <=> Ended(mem, o + i)
  BY <1>1, <1>2 DEF Ended
<1>4. ASSUME ~Ended(r, i)
      PROVE  /\ After(r, i) + o = After(mem, o + i)
             /\ InstructionAt(mem, o + i) =
                  [InstructionAt(r, i) EXCEPT !.offset = @ + o]
  <2>1. i < Len(r) /\ r[i + 1] = mem[o + i + 1] /\ r[i + 1] \in Valid
    BY <1>2, <1>4 DEF Ended, isValidInstruction
  <2>2. Additional[r[i + 1]] \in Nat
    BY <2>1, TableAssumption
  <2>3. DataAt(r, i) = DataAt(mem, o + i)
    <3> DEFINE n == Additional[r[i + 1]]
    <3>1. ASSUME NEW k \in 1 .. n
          PROVE  (IF i + k < Len(r) THEN r[i + 1 + k] ELSE STOP)
                   = (IF o + i + k < Len(mem) THEN mem[o + i + 1 + k] ELSE STOP)
      <4>1. i + k < Len(r) <=> o + i + k < Len(mem)
        BY <1>1, <2>2
      <4>2. CASE i + k < Len(r)
        <5>1. i + 1 + k \in 1 .. Len(mem) - o
          BY <1>1, <2>2, <4>2
        <5>2. o + (i + 1 + k) = o + i + 1 + k
          BY <2>2
        <5>3. QED
          BY <1>1, <4>1, <5>1, <5>2
      <4>3. QED
        BY <4>1, <4>2
    <3>2. QED
      BY <2>1, <3>1 DEF DataAt
  <2>4. After(r, i) + o = After(mem, o + i)
    <3> DEFINE n == Additional[mem[o + i + 1]]
    <3>1. After(r, i) = i + 1 + n /\ After(mem, o + i) = o + i + 1 + n
      BY <2>1 DEF After
    <3>2. n \in Nat /\ o \in Nat
      BY <2>1, <2>2
    <3> HIDE DEF n
    <3>3. QED
      BY <3>1, <3>2
  <2>5. InstructionAt(r, i) = [ offset |-> i, inst |-> mem[o + i + 1],
                                data |-> DataAt(mem, o + i) ]
    BY <2>1, <2>3 DEF InstructionAt
  <2>6. InstructionAt(mem, o + i) = [ offset |-> i + o, inst |-> mem[o + i + 1],
                                      data |-> DataAt(mem, o + i) ]
    BY DEF InstructionAt
  <2>7. QED
    BY <2>4, <2>5, <2>6
<1>5. QED
  BY <1>1, <1>3, <1>4 DEF r

-----------------------------------------------------------------------------
\* Instruction k + i of the first pass is instruction i of the second, moved.
TailOf(k) ==
  /\ k \in 0 .. Len(seen) - 1
  /\ seen[k + 1].offset = m_runtimeOffset
  /\ Len(m_instructions) <= Len(seen) - k
  /\ \A i \in 1 .. Len(m_instructions) :
       seen[k + i] = [m_instructions[i] EXCEPT !.offset = @ + m_runtimeOffset]

LoadInv ==
  /\ TypeOK
  /\ Listing(seen, m_byteCode)
  /\ Listing(m_instructions, m_byteCodeRuntime)
  /\ pc = "detect" => it = Reached(seen, m_byteCode) /\ m_instructions = << >>
  /\ pc # "detect" => Ended(m_byteCode, Reached(seen, m_byteCode))
  /\ pc = "load" => it = Reached(m_instructions, m_byteCodeRuntime)
  /\ pc = "done" /\ m_runtimeOffset # 0 =>
       Ended(m_byteCodeRuntime, Reached(m_instructions, m_byteCodeRuntime))
  /\ m_runtimeOffset # 0 => hasCODECOPY
  /\ m_runtimeOffset # 0 =>
       \E k \in 0 .. Len(seen) - 1 : seen[k + 1].offset = m_runtimeOffset
  /\ pc # "detect" /\ m_runtimeOffset # 0 =>
       /\ m_byteCodeRuntime = SubSeq(m_byteCode, m_runtimeOffset + 1, Len(m_byteCode))
       /\ \E k \in 0 .. Len(seen) - 1 : TailOf(k)

\* Before the first byte nothing is listed.
LEMMA LoadInit == Init => LoadInv
<1> SUFFICES ASSUME Init PROVE LoadInv
  OBVIOUS
<1>1. m_byteCode \in Seq(Bytes) /\ m_byteCodeRuntime \in Seq(Bytes)
  BY CodesAssumption DEF Init
<1>2. /\ seen = << >> /\ m_instructions = << >> /\ Len(seen) = 0
      /\ Len(m_instructions) = 0
      /\ seen \in Seq(OffsetInfo) /\ m_instructions \in Seq(OffsetInfo)
  BY DEF Init
<1>3. TypeOK
  <2>1. hasCODECOPY \in BOOLEAN /\ leaveFunction \in BOOLEAN
    BY Zenon DEF Init
  <2>2. QED
    BY <1>1, <1>2, <2>1 DEF Init, TypeOK
<1>4. Listing(seen, m_byteCode) /\ Listing(m_instructions, m_byteCodeRuntime)
  BY <1>2 DEF Listing
<1>5. it = Reached(seen, m_byteCode) /\ pc = "detect" /\ m_runtimeOffset = 0
  BY <1>2 DEF Init, Reached
<1>6. QED
  BY <1>2, <1>3, <1>4, <1>5 DEF LoadInv

\* The search lists the code it was given (Contract.cpp:1104-1126).
LEMMA CallbackStep ==
  ASSUME LoadInv, InConstructor \/ BehindReturn
  PROVE  LoadInv'
<1> USE DEF LoadInv, TypeOK
<1>1. /\ Callback /\ pc = "detect" /\ pc' = "detect" /\ ~Ended(m_byteCode, it)
      /\ seen' = Append(seen, InstructionAt(m_byteCode, it))
      /\ it' = After(m_byteCode, it)
      /\ UNCHANGED << m_byteCode, m_byteCodeRuntime, m_instructions >>
  BY DEF InConstructor, BehindReturn, Callback
<1>2. it \in Nat /\ it = Reached(seen, m_byteCode) /\ m_byteCode \in Seq(Bytes)
      /\ seen \in Seq(OffsetInfo) /\ Listing(seen, m_byteCode)
  BY <1>1
<1>3. /\ seen' \in Seq(OffsetInfo) /\ Listing(seen', m_byteCode')
      /\ it' = Reached(seen', m_byteCode') /\ it' \in Nat
  BY <1>1, <1>2, ListOne
<1>4. /\ Len(seen') = Len(seen) + 1 /\ Len(seen) \in Nat
      /\ \A j \in 1 .. Len(seen) : seen'[j] = seen[j]
      /\ seen'[Len(seen) + 1].offset = it
  <2>1. InstructionAt(m_byteCode, it) \in OffsetInfo
    BY <1>1, <1>2, InstructionTyped
  <2>2. InstructionAt(m_byteCode, it).offset = it
    BY DEF InstructionAt
  <2>3. QED
    BY <1>1, <1>2, <2>1, <2>2
<1>5. /\ hasCODECOPY' \in BOOLEAN /\ leaveFunction' \in BOOLEAN
  BY Zenon DEF InConstructor, BehindReturn
<1>6. /\ m_runtimeOffset' \in Nat /\ (m_runtimeOffset' # 0 => hasCODECOPY')
      /\ m_runtimeOffset' = m_runtimeOffset \/ m_runtimeOffset' = it
  BY <1>2 DEF InConstructor, BehindReturn
<1>7. m_runtimeOffset' # 0 =>
        \E k \in 0 .. Len(seen') - 1 : seen'[k + 1].offset = m_runtimeOffset'
  <2> SUFFICES ASSUME m_runtimeOffset' # 0
               PROVE  \E k \in 0 .. Len(seen') - 1 :
                         seen'[k + 1].offset = m_runtimeOffset'
    OBVIOUS
  <2>1. CASE m_runtimeOffset' = m_runtimeOffset
    <3>1. PICK k \in 0 .. Len(seen) - 1 : seen[k + 1].offset = m_runtimeOffset
      BY <2>1
    <3>2. k + 1 \in 1 .. Len(seen) /\ k \in 0 .. Len(seen') - 1
      BY <1>4, <3>1
    <3>3. QED
      BY <1>4, <2>1, <3>1, <3>2
  <2>2. CASE m_runtimeOffset' = it
    <3>1. Len(seen) \in 0 .. Len(seen') - 1
      BY <1>4
    <3>2. QED
      BY <1>4, <2>2, <3>1
  <2>3. QED
    BY <1>6, <2>1, <2>2
<1>8. QED
  BY <1>1, <1>2, <1>3, <1>5, <1>6, <1>7

\* The choice of the code to load (Contract.h:28-37).
LEMMA ChooseStep ==
  ASSUME LoadInv, TakeAll \/ TakeTail \/ TakeNothing
  PROVE  LoadInv'
<1> USE DEF LoadInv, TypeOK
<1>1. /\ pc = "detect" /\ pc' \in {"load", "done"} /\ it' = 0
      /\ Ended(m_byteCode, it) /\ it = Reached(seen, m_byteCode)
      /\ UNCHANGED << m_byteCode, hasCODECOPY, leaveFunction, m_runtimeOffset,
                      m_instructions, seen >>
      /\ m_instructions = << >>
  BY DEF TakeAll, TakeTail, TakeNothing, Chosen
<1>2. Len(m_instructions) = 0 /\ Len(seen) \in Nat
  BY <1>1
<1>3. Listing(m_instructions', m_byteCodeRuntime') /\ Listing(seen', m_byteCode')
  BY <1>1, <1>2 DEF Listing
<1>4. it' = Reached(m_instructions', m_byteCodeRuntime')
  BY <1>1, <1>2 DEF Reached
<1>5. m_byteCodeRuntime' \in Seq(Bytes)
  <2>1. CASE TakeTail
    <3> DEFINE o == m_runtimeOffset + 1
    <3>1. o \in Int /\ o >= 1 /\ Len(m_byteCode) \in Int
      OBVIOUS
    <3>2. \A i \in o .. Len(m_byteCode) : m_byteCode[i] \in Bytes
      BY <3>1
    <3> HIDE DEF o
    <3>3. SubSeq(m_byteCode, o, Len(m_byteCode)) \in Seq(Bytes)
      BY <3>1, <3>2, SubSeqProperties
    <3>4. QED
      BY <2>1, <3>3 DEF TakeTail, Chosen, o
  <2>2. CASE TakeAll
    BY <2>2 DEF TakeAll, Chosen
  <2>3. CASE TakeNothing
    BY <2>3 DEF TakeNothing, Chosen
  <2>4. QED
    BY <2>1, <2>2, <2>3
<1>6. m_runtimeOffset # 0 => TakeTail
  BY DEF TakeAll, TakeNothing
<1>7. ASSUME m_runtimeOffset # 0
      PROVE  /\ m_byteCodeRuntime' =
                  SubSeq(m_byteCode, m_runtimeOffset + 1, Len(m_byteCode))
             /\ pc' = "load"
             /\ \E k \in 0 .. Len(seen) - 1 : TailOf(k)'
  <2>1. PICK k \in 0 .. Len(seen) - 1 : seen[k + 1].offset = m_runtimeOffset
    BY <1>7
  <2>2. TailOf(k)'
    BY <1>1, <1>2, <2>1 DEF TailOf
  <2>3. QED
    BY <1>6, <1>7, <2>1, <2>2 DEF TakeTail, Chosen
<1>8. Ended(m_byteCode', Reached(seen', m_byteCode'))
  BY <1>1
<1>9. TypeOK'
  BY <1>1, <1>5
<1>10. m_runtimeOffset' # 0 =>
         \E k \in 0 .. Len(seen') - 1 : seen'[k + 1].offset = m_runtimeOffset'
  BY <1>1
<1>11. pc' # "detect" /\ m_runtimeOffset' # 0 =>
         /\ pc' = "load"
         /\ m_byteCodeRuntime' =
              SubSeq(m_byteCode', m_runtimeOffset' + 1, Len(m_byteCode'))
         /\ \E k \in 0 .. Len(seen') - 1 : TailOf(k)'
  BY <1>1, <1>7
<1>12. m_runtimeOffset' # 0 => hasCODECOPY'
  BY <1>1
<1>13. QED
  BY <1>1, <1>3, <1>4, <1>8, <1>9, <1>10, <1>11, <1>12

\* A moved listing goes on where the first pass went on.
LEMMA TailMeets ==
  ASSUME LoadInv, pc # "detect", m_runtimeOffset # 0,
         NEW k \in 0 .. Len(seen) - 1, TailOf(k)
  PROVE  /\ Reached(m_instructions, m_byteCodeRuntime) + m_runtimeOffset =
              IF Len(m_instructions) = Len(seen) - k
                THEN Reached(seen, m_byteCode)
                ELSE seen[k + Len(m_instructions) + 1].offset
         /\ m_runtimeOffset \in 0 .. Len(m_byteCode)
<1> DEFINE n == Len(m_instructions)
           e == Reached(m_instructions, m_byteCodeRuntime)
<1>1. /\ m_byteCode \in Seq(Bytes) /\ m_byteCodeRuntime \in Seq(Bytes)
      /\ seen \in Seq(OffsetInfo) /\ m_instructions \in Seq(OffsetInfo)
      /\ Listing(seen, m_byteCode) /\ Listing(m_instructions, m_byteCodeRuntime)
      /\ m_runtimeOffset \in Nat
  BY DEF LoadInv, TypeOK
<1>2. m_byteCodeRuntime = SubSeq(m_byteCode, m_runtimeOffset + 1, Len(m_byteCode))
  BY DEF LoadInv
<1>3. n \in Nat /\ Len(seen) \in Nat /\ k \in Nat /\ n <= Len(seen) - k
  BY <1>1 DEF TailOf
<1>4. k + 1 \in 1 .. Len(seen) /\ seen[k + 1].offset = m_runtimeOffset
  BY <1>3 DEF TailOf
<1>5. m_runtimeOffset \in 0 .. Len(m_byteCode)
  <2>1. ~Ended(m_byteCode, m_runtimeOffset)
    BY <1>1, <1>4 DEF Listing
  <2>2. QED
    BY <1>1, <2>1 DEF Ended
<1>6. CASE n = 0
  <2>1. e = 0 /\ k + n + 1 = k + 1 /\ n # Len(seen) - k
    BY <1>3, <1>4, <1>6 DEF Reached
  <2> HIDE DEF e
  <2>2. QED
    BY <1>1, <1>4, <1>5, <2>1 DEF e
<1>7. CASE n # 0
  <2> DEFINE x == m_instructions[n].offset
  <2>1. n \in 1 .. Len(m_instructions) /\ k + n \in 1 .. Len(seen)
    BY <1>3, <1>7
  <2>2. x \in Nat /\ ~Ended(m_byteCodeRuntime, x)
    BY <1>1, <2>1 DEF Listing
  <2>3. e = After(m_byteCodeRuntime, x)
    BY <1>7 DEF Reached
  <2>4. seen[k + n].offset = m_runtimeOffset + x
    <3>1. seen[k + n] = [m_instructions[n] EXCEPT !.offset = @ + m_runtimeOffset]
      BY <2>1 DEF TailOf
    <3>2. m_instructions[n] \in OffsetInfo
      BY <1>1, <2>1
    <3>3. QED
      BY <1>1, <2>2, <3>1, <3>2 DEF OffsetInfo
  <2> HIDE DEF x, n, e
  <2>5. e + m_runtimeOffset = After(m_byteCode, m_runtimeOffset + x)
    BY <1>1, <1>2, <1>5, <2>2, <2>3, TailReads
  <2>6. CASE k + n = Len(seen)
    <3>1. Reached(seen, m_byteCode) = After(m_byteCode, seen[k + n].offset)
      BY <1>3, <2>1, <2>6 DEF Reached
    <3>2. n = Len(seen) - k
      BY <1>3, <2>6
    <3>3. QED
      BY <1>5, <2>4, <2>5, <3>1, <3>2 DEF n, e
  <2>7. CASE k + n # Len(seen)
    <3>1. k + n + 1 \in 1 .. Len(seen) /\ k + n + 1 # 1 /\ (k + n + 1) - 1 = k + n
      BY <1>3, <2>1, <2>7
    <3>2. seen[k + n + 1].offset = After(m_byteCode, seen[k + n].offset)
      BY <1>1, <3>1 DEF Listing
    <3>3. n # Len(seen) - k
      BY <1>3, <2>7
    <3>4. QED
      BY <1>5, <2>4, <2>5, <3>2, <3>3 DEF n, e
  <2>8. QED
    BY <2>6, <2>7
<1>8. QED
  BY <1>6, <1>7

\* The listing of the code chosen grows (Contract.cpp:77-90).
LEMMA LoadStep ==
  ASSUME LoadInv, Load
  PROVE  LoadInv'
<1> USE DEF LoadInv, TypeOK
<1>1. /\ pc = "load" /\ ~Ended(m_byteCodeRuntime, it)
      /\ m_instructions' =
           Append(m_instructions, InstructionAt(m_byteCodeRuntime, it))
      /\ it' = After(m_byteCodeRuntime, it)
      /\ UNCHANGED << m_byteCode, pc, hasCODECOPY, leaveFunction,
                      m_runtimeOffset, m_byteCodeRuntime, seen >>
  BY DEF Load
<1>2. /\ it \in Nat /\ it = Reached(m_instructions, m_byteCodeRuntime)
      /\ m_byteCodeRuntime \in Seq(Bytes) /\ m_instructions \in Seq(OffsetInfo)
      /\ Listing(m_instructions, m_byteCodeRuntime)
  BY <1>1
<1>3. /\ m_instructions' \in Seq(OffsetInfo)
      /\ Listing(m_instructions', m_byteCodeRuntime')
      /\ it' = Reached(m_instructions', m_byteCodeRuntime') /\ it' \in Nat
  BY <1>1, <1>2, ListOne
<1>4. ASSUME m_runtimeOffset # 0
      PROVE  \E k \in 0 .. Len(seen) - 1 : TailOf(k)'
  <2>1. PICK k \in 0 .. Len(seen) - 1 : TailOf(k)
    BY <1>1, <1>4
  <2> DEFINE n == Len(m_instructions)
             x == InstructionAt(m_byteCodeRuntime, it)
  <2>2. n \in Nat /\ Len(seen) \in Nat /\ n <= Len(seen) - k
    <3>1. m_instructions \in Seq(OffsetInfo) /\ seen \in Seq(OffsetInfo)
      OBVIOUS
    <3>2. n \in Nat /\ Len(seen) \in Nat
      BY <3>1, LenProperties
    <3>3. n <= Len(seen) - k
      BY <2>1, Zenon DEF TailOf
    <3>4. QED
      BY <3>2, <3>3
  <2>3. /\ it + m_runtimeOffset =
             IF n = Len(seen) - k THEN Reached(seen, m_byteCode)
                                  ELSE seen[k + n + 1].offset
        /\ m_runtimeOffset \in 0 .. Len(m_byteCode)
    BY <1>1, <1>2, <1>4, <2>1, TailMeets
  <2>4. x \in OffsetInfo
    BY <1>1, <1>2, InstructionTyped
  <2> HIDE DEF x
  <2>5. /\ Len(m_instructions') = n + 1 /\ m_instructions'[n + 1] = x
        /\ \A i \in 1 .. n : m_instructions'[i] = m_instructions[i]
    BY <1>1, <1>2, <2>4 DEF x
  <2> HIDE DEF n
  <2>6. m_byteCodeRuntime =
          SubSeq(m_byteCode, m_runtimeOffset + 1, Len(m_byteCode))
    BY <1>1, <1>4
  <2>7. /\ ~Ended(m_byteCode, m_runtimeOffset + it)
        /\ InstructionAt(m_byteCode, m_runtimeOffset + it) =
             [x EXCEPT !.offset = @ + m_runtimeOffset]
    BY <1>1, <1>2, <2>3, <2>6, TailReads DEF x
  <2>8. n # Len(seen) - k
    <3>1. Ended(m_byteCode, Reached(seen, m_byteCode))
      BY <1>1
    <3>2. it + m_runtimeOffset = m_runtimeOffset + it
      BY <1>2, <2>3
    <3>3. QED
      BY <2>3, <2>7, <3>1, <3>2
  <2>9. seen[k + n + 1] = InstructionAt(m_byteCode, m_runtimeOffset + it)
    <3>1. k + n + 1 \in 1 .. Len(seen)
      BY <2>2, <2>8
    <3>2. seen[k + n + 1] = InstructionAt(m_byteCode, seen[k + n + 1].offset)
      BY <3>1 DEF Listing
    <3>3. seen[k + n + 1].offset = m_runtimeOffset + it
      BY <1>2, <2>3, <2>8
    <3>4. QED
      BY <3>2, <3>3
  <2>10. \A i \in 1 .. n + 1 :
           seen[k + i] = [m_instructions'[i] EXCEPT !.offset = @ + m_runtimeOffset]
    <3>1. ASSUME NEW i \in 1 .. n
          PROVE  seen[k + i] =
                   [m_instructions'[i] EXCEPT !.offset = @ + m_runtimeOffset]
      BY <2>1, <2>5 DEF TailOf, n
    <3>2. seen[k + (n + 1)] =
            [m_instructions'[n + 1] EXCEPT !.offset = @ + m_runtimeOffset]
      <4>1. k + (n + 1) = k + n + 1
        BY <2>2
      <4>2. QED
        BY <2>5, <2>7, <2>9, <4>1
    <3>3. \A i \in 1 .. n + 1 : i \in 1 .. n \/ i = n + 1
      BY <2>2
    <3>4. QED
      BY <3>1, <3>2, <3>3
  <2>11. n + 1 <= Len(seen) - k
    BY <2>2, <2>8
  <2>12. TailOf(k)'
    BY <1>1, <2>1, <2>5, <2>10, <2>11 DEF TailOf
  <2>13. QED
    BY <2>1, <2>12
<1>5. TypeOK'
  BY <1>1, <1>3
<1>6. QED
  BY <1>1, <1>3, <1>4, <1>5

\* Nothing changes at the end of the listing (Instruction.cpp:220-229).
LEMMA LoadedStep ==
  ASSUME LoadInv, Loaded
  PROVE  LoadInv'
<1> USE DEF LoadInv, TypeOK
<1>1. /\ pc = "load" /\ Ended(m_byteCodeRuntime, it) /\ pc' = "done"
      /\ UNCHANGED << m_byteCode, it, hasCODECOPY, leaveFunction,
                      m_runtimeOffset, m_byteCodeRuntime, m_instructions, seen >>
  BY DEF Loaded
<1>2. Listing(seen, m_byteCode)' /\ Listing(m_instructions, m_byteCodeRuntime)'
  BY <1>1
<1>3. \A k : TailOf(k) => TailOf(k)'
  BY <1>1 DEF TailOf
<1>4. TypeOK'
  BY <1>1
<1>5. Ended(m_byteCodeRuntime', Reached(m_instructions', m_byteCodeRuntime'))
  BY <1>1
<1>6. QED
  BY <1>1, <1>2, <1>3, <1>4, <1>5

\* The invariant of the loader holds throughout.
LEMMA LoadInvariant == Spec => []LoadInv
<1>1. ASSUME LoadInv, [Next]_vars PROVE LoadInv'
  <2>1. CASE UNCHANGED vars
    <3>1. \A k : TailOf(k) => TailOf(k)'
      BY <2>1 DEF vars, TailOf
    <3>2. QED
      BY <1>1, <2>1, <3>1 DEF vars, LoadInv, TypeOK
  <2>2. CASE Construct
    BY <1>1, <2>2, CallbackStep, ChooseStep, LoadStep, LoadedStep DEF Construct
  <2>3. QED
    BY <1>1, <2>1, <2>2 DEF Next, Terminated
<1>2. QED
  BY LoadInit, <1>1, PTL DEF Spec

-----------------------------------------------------------------------------
\* The state of the loader keeps its types, whatever bytes it is given.
THEOREM LoadTypeCorrect == Spec => []TypeOK
<1>1. LoadInv => TypeOK
  BY DEF LoadInv
<1>2. QED
  BY LoadInvariant, <1>1, PTL

\* The listing is what BlockGraph assumes of it, and skips no byte
\* (Instruction.cpp:215-244).
THEOREM LoadsWellFormed == Spec => []ListingWellFormed
<1>1. LoadInv => ListingWellFormed
  <2> SUFFICES ASSUME LoadInv, NEW i \in 1 .. Len(m_instructions)
               PROVE  /\ m_instructions[i].offset < Len(m_byteCodeRuntime)
                      /\ m_instructions[i].offset =
                           IF i = 1 THEN 0
                           ELSE m_instructions[i - 1].offset + 1
                                  + Len(m_instructions[i - 1].data)
                      /\ Len(m_instructions[i].data) =
                           Additional[m_instructions[i].inst]
    BY DEF ListingWellFormed
  <2>1. /\ Listing(m_instructions, m_byteCodeRuntime)
        /\ m_byteCodeRuntime \in Seq(Bytes)
    BY DEF LoadInv, TypeOK
  <2>2. \A j \in 1 .. Len(m_instructions) :
          LET o == m_instructions[j].offset
          IN  /\ o \in Nat /\ o < Len(m_byteCodeRuntime)
              /\ Len(m_instructions[j].data) = Additional[m_instructions[j].inst]
              /\ After(m_byteCodeRuntime, o) = o + 1 + Len(m_instructions[j].data)
    <3> SUFFICES ASSUME NEW j \in 1 .. Len(m_instructions)
                 PROVE  LET o == m_instructions[j].offset
                        IN  /\ o \in Nat /\ o < Len(m_byteCodeRuntime)
                            /\ Len(m_instructions[j].data) =
                                 Additional[m_instructions[j].inst]
                            /\ After(m_byteCodeRuntime, o) =
                                 o + 1 + Len(m_instructions[j].data)
      OBVIOUS
    <3> DEFINE o == m_instructions[j].offset
    <3>1. /\ o \in Nat /\ ~Ended(m_byteCodeRuntime, o)
          /\ m_instructions[j] = InstructionAt(m_byteCodeRuntime, o)
      BY <2>1 DEF Listing
    <3> HIDE DEF o
    <3>2. Len(InstructionAt(m_byteCodeRuntime, o).data) =
            Additional[m_byteCodeRuntime[o + 1]]
      BY <2>1, <3>1, InstructionTyped
    <3>3. m_instructions[j].inst = m_byteCodeRuntime[o + 1]
      BY <3>1 DEF InstructionAt
    <3>4. o < Len(m_byteCodeRuntime)
      BY <3>1 DEF Ended
    <3>5. QED
      BY <3>1, <3>2, <3>3, <3>4 DEF After, o
  <2>3. i # 1 => i - 1 \in 1 .. Len(m_instructions)
    OBVIOUS
  <2>4. m_instructions[i].offset =
          IF i = 1 THEN 0
          ELSE After(m_byteCodeRuntime, m_instructions[i - 1].offset)
    BY <2>1 DEF Listing
  <2>5. QED
    BY <2>2, <2>3, <2>4
<1>2. QED
  BY LoadInvariant, <1>1, PTL

\* Both disassemblies agree on every byte code: the deployed code is cut at an
\* instruction, and its listing is the rest of the first one
\* (Contract.cpp:1107-1114, Contract.h:33-36).
THEOREM ListingsAgree == Spec => []ListingIsTail
<1>1. LoadInv => ListingIsTail
  <2> SUFFICES ASSUME LoadInv, pc = "done", m_runtimeOffset # 0
               PROVE  \E k \in 0 .. Len(seen) - 1 :
                        /\ seen[k + 1].offset = m_runtimeOffset
                        /\ Len(m_instructions) = Len(seen) - k
                        /\ \A i \in 1 .. Len(m_instructions) :
                             seen[k + i] = [m_instructions[i] EXCEPT
                                              !.offset = @ + m_runtimeOffset]
    BY DEF ListingIsTail
  <2>1. PICK k \in 0 .. Len(seen) - 1 : TailOf(k)
    BY DEF LoadInv
  <2> DEFINE n == Len(m_instructions)
             e == Reached(m_instructions, m_byteCodeRuntime)
  <2>2. /\ m_byteCode \in Seq(Bytes) /\ n \in Nat /\ Len(seen) \in Nat
        /\ Listing(seen, m_byteCode) /\ e \in Nat
        /\ Ended(m_byteCodeRuntime, e)
        /\ m_byteCodeRuntime =
             SubSeq(m_byteCode, m_runtimeOffset + 1, Len(m_byteCode))
    <3>1. /\ m_byteCode \in Seq(Bytes) /\ m_byteCodeRuntime \in Seq(Bytes)
          /\ seen \in Seq(OffsetInfo) /\ m_instructions \in Seq(OffsetInfo)
          /\ Listing(seen, m_byteCode)
          /\ Listing(m_instructions, m_byteCodeRuntime)
          /\ Ended(m_byteCodeRuntime, e)
          /\ m_byteCodeRuntime =
               SubSeq(m_byteCode, m_runtimeOffset + 1, Len(m_byteCode))
      BY DEF LoadInv, TypeOK
    <3>2. n \in Nat /\ Len(seen) \in Nat
      BY <3>1
    <3>3. e \in Nat
      <4>1. CASE n = 0
        BY <4>1 DEF Reached
      <4>2. CASE n # 0
        <5>1. n \in 1 .. Len(m_instructions)
          BY <3>2, <4>2
        <5>2. m_instructions[n].offset \in Nat
              /\ ~Ended(m_byteCodeRuntime, m_instructions[n].offset)
          BY <3>1, <5>1 DEF Listing
        <5>3. After(m_byteCodeRuntime, m_instructions[n].offset) \in Nat
          BY <3>1, <5>2, InstructionTyped
        <5>4. QED
          BY <4>2, <5>3 DEF Reached
      <4>3. QED
        BY <4>1, <4>2
    <3>4. QED
      BY <3>1, <3>2, <3>3
  <2>3. /\ e + m_runtimeOffset =
             IF n = Len(seen) - k THEN Reached(seen, m_byteCode)
                                  ELSE seen[k + n + 1].offset
        /\ m_runtimeOffset \in 0 .. Len(m_byteCode)
    BY <2>1, TailMeets
  <2> HIDE DEF e
  <2>4. Ended(m_byteCode, m_runtimeOffset + e)
    BY <2>2, <2>3, TailReads
  <2>5. n = Len(seen) - k
    <3> SUFFICES ASSUME n # Len(seen) - k PROVE FALSE
      OBVIOUS
    <3>1. k + n + 1 \in 1 .. Len(seen)
      BY <2>1, <2>2 DEF TailOf
    <3>2. ~Ended(m_byteCode, seen[k + n + 1].offset)
      BY <2>2, <3>1 DEF Listing
    <3>3. seen[k + n + 1].offset = m_runtimeOffset + e
      BY <2>2, <2>3
    <3>4. QED
      BY <2>4, <3>2, <3>3
  <2>6. QED
    BY <2>1, <2>5 DEF TailOf
<1>2. QED
  BY LoadInvariant, <1>1, PTL
-----------------------------------------------------------------------------
\* A set of numbers that is not empty has a least member.
LEMMA LeastNumber ==
  ASSUME NEW S \in SUBSET Nat, S # {}
  PROVE  \E n \in S : \A m \in S : n <= m
<1>1. IsWellFoundedOn(OpToRel(<, Nat), Nat)
  BY NatLessThanWellFounded
<1>2. PICK n \in S : \A m \in S : ~(<< m, n >> \in OpToRel(<, Nat))
  BY <1>1, WFMin
<1>3. \A m \in S : m < n => << m, n >> \in OpToRel(<, Nat)
  BY DEF OpToRel
<1>4. \A m \in S : ~(m < n)
  BY <1>2, <1>3
<1>5. n \in Nat /\ \A m \in S : m \in Nat
  OBVIOUS
<1>6. \A m \in S : n <= m
  BY <1>4, <1>5
<1>7. QED
  BY <1>6

\* S has each offset of c at which an instruction begins when it has 0 and
\* goes on from each instruction to the next.
Covers(S, c) ==
  /\ 0 \in S
  /\ \A j \in S : ~Ended(c, j) /\ After(c, j) \in 0 .. Len(c) => After(c, j) \in S

\* An instruction has one before it, of which it is the next, or is the first.
StartOf(f, c) ==
  f = [ i \in 0 .. Len(c) |->
          \/ i = 0
          \/ \E j \in 0 .. i - 1 : f[j] /\ ~Ended(c, j) /\ After(c, j) = i ]

\* The least set that covers c is what the recursion of Starts asks for.
LEMMA StartsExist ==
  ASSUME NEW c \in Seq(Bytes)
  PROVE  \E f : StartOf(f, c)
<1> DEFINE I == 0 .. Len(c)
           S == { i \in I : \A T \in SUBSET I : Covers(T, c) => i \in T }
           f == [ i \in I |-> i \in S ]
<1>1. I \subseteq Nat /\ 0 \in I
  OBVIOUS
<1>2. Covers(S, c)
  <2>1. 0 \in S
    BY <1>1 DEF Covers
  <2>2. ASSUME NEW j \in S, ~Ended(c, j), After(c, j) \in I
        PROVE  After(c, j) \in S
    BY <2>2 DEF Covers
  <2>3. QED
    BY <2>1, <2>2 DEF Covers
<1>3. \A j \in S : ~Ended(c, j) => j < After(c, j)
  <2> SUFFICES ASSUME NEW j \in S, ~Ended(c, j) PROVE j < After(c, j)
    OBVIOUS
  <2>1. j \in Nat
    BY <1>1
  <2>2. c[j + 1] \in Valid
    BY DEF Ended, isValidInstruction
  <2>3. Additional[c[j + 1]] \in Nat
    BY <2>2, TableAssumption
  <2> DEFINE n == Additional[c[j + 1]]
  <2>4. After(c, j) = j + 1 + n
    BY DEF After
  <2> HIDE DEF n, S
  <2>5. n \in Nat
    BY <2>3 DEF n
  <2>6. QED
    BY <2>1, <2>4, <2>5
<1>4. ASSUME NEW i \in I
      PROVE  i \in S <=>
               \/ i = 0
               \/ \E j \in 0 .. i - 1 : j \in S /\ ~Ended(c, j) /\ After(c, j) = i
  <2>1. ASSUME NEW j \in 0 .. i - 1, j \in S, ~Ended(c, j), After(c, j) = i
        PROVE  i \in S
    BY <1>2, <2>1 DEF Covers
  <2>2. ASSUME i \in S, i # 0,
               \A j \in 0 .. i - 1 : ~(j \in S /\ ~Ended(c, j) /\ After(c, j) = i)
        PROVE  FALSE
    <3> DEFINE T == S \ {i}
    <3>1. 0 \in T
      BY <1>2, <2>2 DEF Covers
    <3>2. ASSUME NEW j \in T, ~Ended(c, j), After(c, j) \in I
          PROVE  After(c, j) \in T
      <4>1. j \in S /\ j < After(c, j) /\ j \in Nat
        BY <1>1, <1>3, <3>2
      <4>2. After(c, j) \in S
        BY <1>2, <3>2, <4>1 DEF Covers
      <4>3. After(c, j) # i
        <5> SUFFICES ASSUME After(c, j) = i PROVE FALSE
          OBVIOUS
        <5>1. j \in 0 .. i - 1
          BY <1>1, <4>1
        <5>2. QED
          BY <2>2, <3>2, <4>1, <5>1
      <4>4. QED
        BY <4>2, <4>3
    <3>3. Covers(T, c) /\ T \in SUBSET I
      BY <3>1, <3>2 DEF Covers
    <3>4. QED
      BY <2>2, <3>3
  <2>3. i = 0 => i \in S
    BY <1>2 DEF Covers
  <2>4. QED
    BY <2>1, <2>2, <2>3
<1>5. ASSUME NEW i \in I
      PROVE  f[i] = ( \/ i = 0
                      \/ \E j \in 0 .. i - 1 : f[j] /\ ~Ended(c, j) /\ After(c, j) = i )
  <2>1. \A j \in 0 .. i - 1 : f[j] = (j \in S)
    <3>1. \A j \in 0 .. i - 1 : j \in I
      OBVIOUS
    <3>2. QED
      BY <3>1
  <2>2. f[i] = (i \in S)
    OBVIOUS
  <2> HIDE DEF f, S
  <2>3. (\E j \in 0 .. i - 1 : f[j] /\ ~Ended(c, j) /\ After(c, j) = i) <=>
        (\E j \in 0 .. i - 1 : j \in S /\ ~Ended(c, j) /\ After(c, j) = i)
    BY <2>1, Zenon
  <2>4. (i \in S) = ( \/ i = 0
                     \/ \E j \in 0 .. i - 1 : f[j] /\ ~Ended(c, j) /\ After(c, j) = i )
    BY <1>4, <2>3
  <2>5. QED
    BY <2>2, <2>4
<1>6. StartOf(f, c)
  <2>1. \A i \in I : f[i] = (i \in S)
    OBVIOUS
  <2> DEFINE g == [ i \in I |->
                      \/ i = 0
                      \/ \E j \in 0 .. i - 1 : f[j] /\ ~Ended(c, j) /\ After(c, j) = i ]
  <2>2. DOMAIN f = I /\ f = [ i \in I |-> f[i] ]
    OBVIOUS
  <2> HIDE DEF f
  <2>3. [ i \in I |-> f[i] ] = g
    BY <1>5, Zenon
  <2>4. f = g
    BY <2>2, <2>3
  <2>5. QED
    BY <2>4 DEF StartOf
<1>7. QED
  BY <1>6

\* What Starts promises: the offsets of the instructions and of the end, each
\* but the first behind an earlier one.
StartsOf(S, c) ==
  /\ S \subseteq 0 .. Len(c) /\ Covers(S, c)
  /\ \A i \in S : i # 0 =>
       \E j \in S : j < i /\ ~Ended(c, j) /\ After(c, j) = i

LEMMA StartsCover ==
  ASSUME NEW c \in Seq(Bytes)
  PROVE  StartsOf(Starts(c), c)
<1> DEFINE f == CHOOSE g : StartOf(g, c)
<1>1. StartOf(f, c)
  <2>1. \E g : StartOf(g, c)
    BY StartsExist
  <2>2. QED
    BY <2>1, Zenon
<1>2. Starts(c) = { i \in 0 .. Len(c) : f[i] }
  BY Zenon DEF Starts, StartOf
<1> HIDE DEF f
<1>3. \A i \in 0 .. Len(c) :
        f[i] = ( \/ i = 0
                 \/ \E j \in 0 .. i - 1 : f[j] /\ ~Ended(c, j) /\ After(c, j) = i )
  BY <1>1, Zenon DEF StartOf
<1>4. 0 \in Starts(c)
  <2>1. 0 \in 0 .. Len(c)
    OBVIOUS
  <2>2. f[0]
    BY <1>3, <2>1
  <2>3. QED
    BY <1>2, <2>1, <2>2
<1>5. ASSUME NEW j \in Starts(c), ~Ended(c, j), After(c, j) \in 0 .. Len(c)
      PROVE  After(c, j) \in Starts(c)
  <2>1. j \in 0 .. Len(c) /\ f[j]
    BY <1>2
  <2>2. c[j + 1] \in Valid
    BY <1>5 DEF Ended, isValidInstruction
  <2>3. Additional[c[j + 1]] \in Nat
    BY <2>2, TableAssumption
  <2> DEFINE n == Additional[c[j + 1]]
             a == After(c, j)
  <2>4. a = j + 1 + n
    BY DEF After
  <2>5. j \in 0 .. a - 1
    <3> HIDE DEF n, a
    <3>1. n \in Nat
      BY <2>3 DEF n
    <3>2. QED
      BY <2>1, <2>4, <3>1
  <2>6. f[a]
    BY <1>3, <1>5, <2>1, <2>5
  <2>7. QED
    BY <1>2, <1>5, <2>6
<1>6. ASSUME NEW i \in Starts(c), i # 0
      PROVE  \E j \in Starts(c) : j < i /\ ~Ended(c, j) /\ After(c, j) = i
  <2>1. i \in 0 .. Len(c) /\ f[i]
    BY <1>2
  <2>2. PICK j \in 0 .. i - 1 : f[j] /\ ~Ended(c, j) /\ After(c, j) = i
    BY <1>3, <1>6, <2>1
  <2>3. j \in 0 .. Len(c) /\ j < i
    BY <2>1
  <2>4. QED
    BY <1>2, <2>2, <2>3
<1>7. Starts(c) \subseteq 0 .. Len(c)
  BY <1>2
<1>8. QED
  BY <1>4, <1>5, <1>6, <1>7 DEF StartsOf, Covers

\* A listing goes up, each instruction begins at one of the offsets of Starts,
\* and no such offset is left out before the place where the listing goes on.
LEMMA ListingStarts ==
  ASSUME NEW mem \in Seq(Bytes), NEW s \in Seq(OffsetInfo), Listing(s, mem)
  PROVE  /\ \A j \in 1 .. Len(s) : s[j].offset \in Starts(mem)
         /\ \A k \in 1 .. Len(s) : \A j \in 1 .. k - 1 : s[j].offset < s[k].offset
<1> DEFINE o(j) == s[j].offset
<1>1. \A j \in 1 .. Len(s) :
        /\ o(j) \in Nat /\ ~Ended(mem, o(j)) /\ o(j) < Len(mem)
        /\ o(j) < After(mem, o(j)) /\ After(mem, o(j)) \in Nat
  <2> SUFFICES ASSUME NEW j \in 1 .. Len(s)
               PROVE  /\ o(j) \in Nat /\ ~Ended(mem, o(j)) /\ o(j) < Len(mem)
                      /\ o(j) < After(mem, o(j)) /\ After(mem, o(j)) \in Nat
    OBVIOUS
  <2>1. o(j) \in Nat /\ ~Ended(mem, o(j))
    BY DEF Listing
  <2> DEFINE i == o(j)
  <2> HIDE DEF i
  <2>2. i < Len(mem) /\ mem[i + 1] \in Valid
    BY <2>1 DEF Ended, isValidInstruction, i
  <2>3. Additional[mem[i + 1]] \in Nat
    BY <2>2, TableAssumption
  <2> DEFINE n == Additional[mem[i + 1]]
  <2>4. After(mem, i) = i + 1 + n
    BY DEF After
  <2> HIDE DEF n
  <2>5. n \in Nat /\ i \in Nat
    BY <2>1, <2>3 DEF n, i
  <2>6. i < After(mem, i) /\ After(mem, i) \in Nat
    BY <2>4, <2>5
  <2>7. QED
    BY <2>1, <2>2, <2>6 DEF i
<1>2. \A j \in 1 .. Len(s) : o(j) = IF j = 1 THEN 0 ELSE After(mem, o(j - 1))
  BY DEF Listing
<1>3. StartsOf(Starts(mem), mem)
  BY StartsCover
<1> DEFINE Out == { j \in 1 .. Len(s) : o(j) \notin Starts(mem) }
<1>4. Out = {}
  <2> SUFFICES ASSUME Out # {} PROVE FALSE
    OBVIOUS
  <2>1. Out \in SUBSET Nat
    OBVIOUS
  <2>2. PICK j \in Out : \A i \in Out : j <= i
    BY <2>1, LeastNumber
  <2>3. j \in 1 .. Len(s) /\ o(j) \notin Starts(mem)
    BY <2>2
  <2>4. j # 1
    BY <1>2, <1>3, <2>3 DEF StartsOf, Covers
  <2>5. j - 1 \in 1 .. Len(s) /\ ~(j <= j - 1)
    BY <2>3, <2>4
  <2>6. o(j - 1) \in Starts(mem)
    BY <2>2, <2>5
  <2>7. o(j) = After(mem, o(j - 1)) /\ o(j) \in 0 .. Len(mem) /\ ~Ended(mem, o(j - 1))
    <3>1. o(j) = After(mem, o(j - 1))
      BY <1>2, <2>3, <2>4
    <3>2. o(j) \in Nat /\ o(j) < Len(mem) /\ Len(mem) \in Nat
      BY <1>1, <2>3
    <3>3. o(j) \in 0 .. Len(mem)
      BY <3>2
    <3>4. QED
      BY <1>1, <2>5, <3>1, <3>3
  <2> HIDE DEF o
  <2>8. QED
    BY <1>3, <2>3, <2>6, <2>7 DEF StartsOf, Covers
<1> DEFINE Down == { k \in 1 .. Len(s) : \E j \in 1 .. k - 1 : ~(o(j) < o(k)) }
<1>5. Down = {}
  <2> SUFFICES ASSUME Down # {} PROVE FALSE
    OBVIOUS
  <2>1. Down \in SUBSET Nat
    OBVIOUS
  <2>2. PICK k \in Down : \A i \in Down : k <= i
    BY <2>1, LeastNumber
  <2>3. PICK j \in 1 .. k - 1 : ~(o(j) < o(k))
    BY <2>2
  <2>4. /\ k \in 1 .. Len(s) /\ k # 1 /\ k - 1 \in 1 .. Len(s) /\ ~(k <= k - 1)
        /\ j \in 1 .. Len(s)
    BY <2>2, <2>3
  <2>5. o(k) = After(mem, o(k - 1)) /\ o(k - 1) < o(k)
    BY <1>1, <1>2, <2>4
  <2>6. j # k - 1
    BY <2>3, <2>5
  <2>7. j \in 1 .. (k - 1) - 1
    BY <2>4, <2>6
  <2>8. o(j) < o(k - 1)
    BY <2>2, <2>4, <2>7
  <2>9. o(j) \in Nat /\ o(k - 1) \in Nat /\ o(k) \in Nat
    BY <1>1, <2>4
  <2> HIDE DEF o
  <2>10. QED
    BY <2>3, <2>5, <2>8, <2>9
<1>6. QED
  BY <1>4, <1>5

\* At the end of the pass every instruction of the code is in the listing.
LEMMA StartsListed ==
  ASSUME NEW mem \in Seq(Bytes), NEW s \in Seq(OffsetInfo), Listing(s, mem),
         Ended(mem, Reached(s, mem)),
         NEW x \in Starts(mem), ~Ended(mem, x)
  PROVE  \E j \in 1 .. Len(s) : s[j].offset = x
<1> DEFINE Left == { i \in Starts(mem) :
                       /\ ~Ended(mem, i)
                       /\ \A j \in 1 .. Len(s) : s[j].offset # i }
<1>1. StartsOf(Starts(mem), mem)
  BY StartsCover
<1>2. Left = {}
  <2> SUFFICES ASSUME Left # {} PROVE FALSE
    OBVIOUS
  <2>1. Left \in SUBSET Nat
    BY <1>1 DEF StartsOf
  <2>2. PICK i \in Left : \A m \in Left : i <= m
    BY <2>1, LeastNumber
  <2>3. CASE i = 0
    <3>1. Len(s) # 0
      BY <2>2, <2>3 DEF Reached
    <3>2. 1 \in 1 .. Len(s)
      BY <3>1
    <3>3. s[1].offset = 0
      BY <3>2 DEF Listing
    <3>4. QED
      BY <2>2, <2>3, <3>2, <3>3
  <2>4. CASE i # 0
    <3>1. PICK h \in Starts(mem) : h < i /\ ~Ended(mem, h) /\ After(mem, h) = i
      BY <1>1, <2>2, <2>4 DEF StartsOf
    <3>2. h \in Nat /\ i \in Nat /\ ~(i <= h)
      BY <1>1, <2>1, <2>2, <3>1 DEF StartsOf
    <3>3. h \notin Left
      BY <2>2, <3>2
    <3>4. PICK j \in 1 .. Len(s) : s[j].offset = h
      BY <3>1, <3>3
    <3>5. CASE j = Len(s)
      <4>1. Reached(s, mem) = i
        BY <3>1, <3>4, <3>5 DEF Reached
      <4>2. QED
        BY <2>2, <4>1
    <3>6. CASE j # Len(s)
      <4>1. j + 1 \in 1 .. Len(s) /\ j + 1 # 1 /\ (j + 1) - 1 = j
        BY <3>4, <3>6
      <4>2. s[j + 1].offset = i
        BY <3>1, <3>4, <4>1 DEF Listing
      <4>3. QED
        BY <2>2, <4>1, <4>2
    <3>7. QED
      BY <3>5, <3>6
  <2>5. QED
    BY <2>3, <2>4
<1>3. QED
  BY <1>2

-----------------------------------------------------------------------------
\* An instruction behind the first RETURN that can begin the deployed code.
Behind(s, j) ==
  /\ j \in 1 .. Len(s) /\ s[j].inst # STOP
  /\ \E l \in 1 .. j - 1 : s[l].inst = RETURN

Returned(s) == \E l \in 1 .. Len(s) : s[l].inst = RETURN

CopiedFirst(s) ==
  \E d \in 1 .. Len(s) :
    /\ s[d].inst = CODECOPY
    /\ \A l \in 1 .. d : s[l].inst # RETURN

\* The three variables of the search say what was seen: a CODECOPY before the
\* first RETURN, a RETURN, and the first instruction but STOP behind it.
SearchInv ==
  /\ hasCODECOPY <=> CopiedFirst(seen)
  /\ leaveFunction <=> Returned(seen)
  /\ hasCODECOPY /\ m_runtimeOffset = 0 => \A j \in 1 .. Len(seen) : ~Behind(seen, j)
  /\ m_runtimeOffset # 0 =>
       \E j \in 1 .. Len(seen) :
         /\ Behind(seen, j) /\ seen[j].offset = m_runtimeOffset
         /\ \A l \in 1 .. j - 1 : ~Behind(seen, l)

LEMMA SearchInit == Init => SearchInv
<1> SUFFICES ASSUME Init PROVE SearchInv
  OBVIOUS
<1>1. Len(seen) = 0 /\ ~hasCODECOPY /\ ~leaveFunction /\ m_runtimeOffset = 0
  BY DEF Init
<1>2. QED
  BY <1>1 DEF SearchInv, CopiedFirst, Returned

\* What one more instruction does to the three of them.
LEMMA SeeOne ==
  ASSUME NEW s \in Seq(OffsetInfo), NEW x \in OffsetInfo
  PROVE  LET t == Append(s, x)
         IN  /\ Returned(t) <=> Returned(s) \/ x.inst = RETURN
             /\ CopiedFirst(t) <=>
                  CopiedFirst(s) \/ (~Returned(s) /\ x.inst = CODECOPY)
             /\ \A j \in 1 .. Len(s) : Behind(t, j) <=> Behind(s, j)
             /\ Behind(t, Len(s) + 1) <=> Returned(s) /\ x.inst # STOP
             /\ Len(t) = Len(s) + 1 /\ t[Len(s) + 1] = x
             /\ \A j \in 1 .. Len(s) : t[j] = s[j]
<1> DEFINE t == Append(s, x)
           n == Len(s)
<1>1. /\ Len(t) = n + 1 /\ n \in Nat /\ t[n + 1] = x
      /\ \A j \in 1 .. n : t[j] = s[j]
  OBVIOUS
<1> HIDE DEF t, n
<1>2. 1 .. Len(t) = 1 .. n \cup {n + 1} /\ n + 1 \notin 1 .. n
  BY <1>1
<1>3. Returned(t) <=> Returned(s) \/ x.inst = RETURN
  <2>1. Returned(t) <=> \/ \E l \in 1 .. n : t[l].inst = RETURN
                        \/ t[n + 1].inst = RETURN
    BY <1>2 DEF Returned
  <2>2. QED
    BY <1>1, <2>1 DEF Returned, n
<1>4. CopiedFirst(t) <=> CopiedFirst(s) \/ (~Returned(s) /\ x.inst = CODECOPY)
  <2>1. \A d \in 1 .. n : 1 .. d \subseteq 1 .. n
    BY <1>1
  <2>2. \A d \in 1 .. n :
          (\A l \in 1 .. d : t[l].inst # RETURN) <=> (\A l \in 1 .. d : s[l].inst # RETURN)
    BY <1>1, <2>1
  <2>3. (\A l \in 1 .. n + 1 : t[l].inst # RETURN) <=> ~Returned(s) /\ x.inst # RETURN
    <3>1. (\A l \in 1 .. n + 1 : t[l].inst # RETURN) <=>
            (\A l \in 1 .. n : t[l].inst # RETURN) /\ t[n + 1].inst # RETURN
      BY <1>1, <1>2
    <3>2. QED
      BY <1>1, <3>1 DEF Returned, n
  <2>4. CopiedFirst(t) <=>
          \/ \E d \in 1 .. n : /\ t[d].inst = CODECOPY
                               /\ \A l \in 1 .. d : t[l].inst # RETURN
          \/ /\ t[n + 1].inst = CODECOPY
             /\ \A l \in 1 .. n + 1 : t[l].inst # RETURN
    BY <1>2 DEF CopiedFirst
  <2>5. CopiedFirst(s) <=>
          \E d \in 1 .. n : /\ t[d].inst = CODECOPY
                            /\ \A l \in 1 .. d : t[l].inst # RETURN
    BY <1>1, <2>2 DEF CopiedFirst, n
  <2>6. CODECOPY # RETURN
    BY TableAssumption
  <2>7. QED
    BY <1>1, <2>3, <2>4, <2>5, <2>6
<1>5. ASSUME NEW j \in 1 .. n PROVE Behind(t, j) <=> Behind(s, j)
  <2>1. j \in 1 .. Len(t) /\ 1 .. j - 1 \subseteq 1 .. n
    BY <1>1
  <2>2. t[j] = s[j] /\ \A l \in 1 .. j - 1 : t[l] = s[l]
    BY <1>1, <2>1
  <2>3. QED
    BY <2>1, <2>2 DEF Behind, n
<1>6. Behind(t, n + 1) <=> Returned(s) /\ x.inst # STOP
  <2>1. (n + 1) - 1 = n /\ n + 1 \in 1 .. Len(t)
    BY <1>1
  <2>2. QED
    BY <1>1, <2>1 DEF Behind, Returned, n
<1>7. QED
  BY <1>1, <1>3, <1>4, <1>5, <1>6 DEF t, n

\* One call of the callback (Contract.cpp:1107-1125).
LEMMA SearchCall ==
  ASSUME LoadInv, SearchInv, InConstructor \/ BehindReturn
  PROVE  SearchInv'
<1> DEFINE x == InstructionAt(m_byteCode, it)
           b == m_byteCode[it + 1]
           n == Len(seen)
<1>1. /\ Callback /\ pc = "detect" /\ ~Ended(m_byteCode, it)
      /\ seen' = Append(seen, x)
  BY DEF InConstructor, BehindReturn, Callback
<1>2. /\ it \in Nat /\ it = Reached(seen, m_byteCode) /\ m_byteCode \in Seq(Bytes)
      /\ seen \in Seq(OffsetInfo) /\ Listing(seen, m_byteCode)
  BY <1>1 DEF LoadInv, TypeOK
<1>3. x \in OffsetInfo /\ x.inst = b /\ x.offset = it
  BY <1>1, <1>2, InstructionTyped DEF InstructionAt
<1> HIDE DEF x, b
<1>4. /\ Returned(seen') <=> Returned(seen) \/ b = RETURN
      /\ CopiedFirst(seen') <=>
           CopiedFirst(seen) \/ (~Returned(seen) /\ b = CODECOPY)
      /\ \A j \in 1 .. n : Behind(seen', j) <=> Behind(seen, j)
      /\ Behind(seen', n + 1) <=> Returned(seen) /\ b # STOP
      /\ Len(seen') = n + 1 /\ seen'[n + 1] = x
      /\ \A j \in 1 .. n : seen'[j] = seen[j]
  BY <1>1, <1>2, <1>3, SeeOne
<1>5. n \in Nat /\ 1 .. n + 1 = 1 .. n \cup {n + 1} /\ n + 1 \notin 1 .. n
  BY <1>2
<1>6. ASSUME m_runtimeOffset' = m_runtimeOffset, m_runtimeOffset # 0
      PROVE  \E j \in 1 .. Len(seen') :
               /\ Behind(seen', j) /\ seen'[j].offset = m_runtimeOffset'
               /\ \A l \in 1 .. j - 1 : ~Behind(seen', l)
  <2>1. PICK j \in 1 .. n : /\ Behind(seen, j) /\ seen[j].offset = m_runtimeOffset
                            /\ \A l \in 1 .. j - 1 : ~Behind(seen, l)
    BY <1>6 DEF SearchInv
  <2>2. j \in 1 .. Len(seen') /\ 1 .. j - 1 \subseteq 1 .. n
    BY <1>4, <1>5, <2>1
  <2>3. \A l \in 1 .. j - 1 : ~Behind(seen', l)
    BY <1>4, <2>1, <2>2
  <2>4. QED
    BY <1>4, <1>6, <2>1, <2>2, <2>3
<1>7. CASE InConstructor
  <2>1. /\ ~leaveFunction /\ m_runtimeOffset' = m_runtimeOffset
        /\ hasCODECOPY' <=> hasCODECOPY \/ b = CODECOPY
        /\ leaveFunction' <=> b = RETURN
    BY <1>7, Zenon DEF InConstructor, b
  <2>2. ~Returned(seen)
    BY <2>1, Zenon DEF SearchInv
  <2>3. \A j \in 1 .. n : ~Behind(seen, j)
    <3> SUFFICES ASSUME NEW j \in 1 .. n, Behind(seen, j) PROVE FALSE
      OBVIOUS
    <3>1. PICK l \in 1 .. j - 1 : seen[l].inst = RETURN
      BY DEF Behind
    <3>2. l \in 1 .. n
      BY <1>5
    <3>3. QED
      BY <2>2, <3>1, <3>2 DEF Returned
  <2>4. \A j \in 1 .. n + 1 : ~Behind(seen', j)
    BY <1>4, <1>5, <2>2, <2>3
  <2>5. hasCODECOPY' <=> CopiedFirst(seen')
    BY <1>4, <2>1, <2>2, Zenon DEF SearchInv
  <2>6. leaveFunction' <=> Returned(seen')
    BY <1>4, <2>1, <2>2, Zenon
  <2>7. m_runtimeOffset = 0
    <3> SUFFICES ASSUME m_runtimeOffset # 0 PROVE FALSE
      OBVIOUS
    <3>1. \E j \in 1 .. n : Behind(seen, j)
      BY DEF SearchInv
    <3>2. QED
      BY <2>3, <3>1
  <2>8. QED
    BY <1>4, <2>1, <2>4, <2>5, <2>6, <2>7 DEF SearchInv
<1>8. CASE BehindReturn
  <2>1. /\ leaveFunction
        /\ hasCODECOPY' = hasCODECOPY /\ leaveFunction' = leaveFunction
        /\ m_runtimeOffset' =
             IF hasCODECOPY /\ m_runtimeOffset = 0 /\ b # STOP
               THEN it ELSE m_runtimeOffset
    BY <1>8, Zenon DEF BehindReturn, b
  <2>2. Returned(seen)
    BY <2>1, Zenon DEF SearchInv
  <2>3. hasCODECOPY' <=> CopiedFirst(seen')
    BY <1>4, <2>1, <2>2, Zenon DEF SearchInv
  <2>4. leaveFunction' <=> Returned(seen')
    BY <1>4, <2>1, <2>2, Zenon
  <2>5. it # 0
    <3>1. n # 0
      BY <1>5, <2>2 DEF Returned
    <3> DEFINE y == seen[n].offset
    <3>2. n \in 1 .. Len(seen) /\ y \in Nat /\ ~Ended(m_byteCode, y)
      BY <1>2, <1>5, <3>1 DEF Listing
    <3>3. it = After(m_byteCode, y)
      BY <1>2, <3>1 DEF Reached
    <3> HIDE DEF y
    <3>4. m_byteCode[y + 1] \in Valid
      BY <3>2 DEF Ended, isValidInstruction
    <3>5. Additional[m_byteCode[y + 1]] \in Nat
      BY <3>4, TableAssumption
    <3>6. QED
      BY <3>2, <3>3, <3>5 DEF After
  <2>6. CASE hasCODECOPY /\ m_runtimeOffset = 0 /\ b # STOP
    <3>1. m_runtimeOffset' = it /\ Behind(seen', n + 1)
      BY <1>4, <2>1, <2>2, <2>6
    <3>2. \A l \in 1 .. (n + 1) - 1 : ~Behind(seen', l)
      <4>1. \A l \in 1 .. n : ~Behind(seen, l)
        BY <2>6 DEF SearchInv
      <4>2. (n + 1) - 1 = n
        BY <1>5
      <4>3. QED
        BY <1>4, <4>1, <4>2
    <3>3. n + 1 \in 1 .. Len(seen') /\ seen'[n + 1].offset = it
      BY <1>3, <1>4, <1>5
    <3>4. QED
      BY <2>3, <2>4, <2>5, <3>1, <3>2, <3>3 DEF SearchInv
  <2>7. CASE ~(hasCODECOPY /\ m_runtimeOffset = 0 /\ b # STOP)
    <3>1. m_runtimeOffset' = m_runtimeOffset
      BY <2>1, <2>7
    <3>2. ASSUME hasCODECOPY', m_runtimeOffset' = 0
          PROVE  \A j \in 1 .. Len(seen') : ~Behind(seen', j)
      <4>1. hasCODECOPY /\ m_runtimeOffset = 0
        BY <2>1, <3>1, <3>2
      <4>2. \A l \in 1 .. n : ~Behind(seen, l)
        BY <4>1 DEF SearchInv
      <4>3. ~Behind(seen', n + 1)
        BY <1>4, <2>7, <4>1
      <4>4. QED
        BY <1>4, <1>5, <4>2, <4>3
    <3>3. QED
      BY <1>6, <2>3, <2>4, <3>1, <3>2 DEF SearchInv
  <2>8. QED
    BY <2>6, <2>7
<1>9. QED
  BY <1>7, <1>8

\* Behind the search its variables stay.
LEMMA SearchInvariant == Spec => [](LoadInv /\ SearchInv)
<1>1. ASSUME LoadInv, SearchInv, [Next]_vars PROVE SearchInv'
  <2>1. CASE UNCHANGED << hasCODECOPY, leaveFunction, m_runtimeOffset, seen >>
    BY <1>1, <2>1 DEF SearchInv
  <2>2. CASE InConstructor \/ BehindReturn
    BY <1>1, <2>2, SearchCall
  <2>3. QED
    BY <1>1, <2>1, <2>2 DEF Next, Construct, Terminated, TakeAll, TakeTail,
       TakeNothing, Chosen, Load, Loaded, vars
<1>2. QED
  BY LoadInvariant, SearchInit, <1>1, PTL DEF Spec

\* Behind a RETURN each STOP is an instruction of its own, and so is what comes
\* behind the last of them.
LEMMA StopsAreStarts ==
  ASSUME NEW c \in Seq(Bytes), NEW r \in Starts(c), c[r + 1] = RETURN,
         NEW n \in Nat, r < n, n < Len(c),
         \A i \in r + 1 .. n - 1 : c[i + 1] = STOP
  PROVE  \A i \in r .. n : i \in Starts(c)
<1>1. StartsOf(Starts(c), c) /\ r \in Nat
  BY StartsCover DEF StartsOf
<1> DEFINE Bad == { i \in r .. n : i \notin Starts(c) }
<1>2. Bad = {}
  <2> SUFFICES ASSUME Bad # {} PROVE FALSE
    OBVIOUS
  <2>1. Bad \in SUBSET Nat
    BY <1>1
  <2>2. PICK i \in Bad : \A m \in Bad : i <= m
    BY <2>1, LeastNumber
  <2>3. i \in r .. n /\ i # r /\ i \notin Starts(c)
    BY <2>2
  <2> DEFINE j == i - 1
  <2>4. j \in r .. n /\ ~(i <= j) /\ j \in Nat /\ j < Len(c) /\ j + 1 = i
    BY <1>1, <2>3
  <2>5. j \in Starts(c)
    BY <2>2, <2>4
  <2>6. c[j + 1] = RETURN \/ c[j + 1] = STOP
    BY <1>1, <2>3
  <2> HIDE DEF j
  <2>7. c[j + 1] \in Valid /\ Additional[c[j + 1]] = 0
    BY <2>6, TableAssumption
  <2>8. ~Ended(c, j)
    BY <2>4, <2>7 DEF Ended, isValidInstruction
  <2>9. After(c, j) = i /\ i \in 0 .. Len(c)
    BY <1>1, <2>3, <2>4, <2>7 DEF After
  <2>10. QED
    BY <1>1, <2>3, <2>5, <2>8, <2>9 DEF StartsOf, Covers
<1>3. QED
  BY <1>2

\* From creation code exactly the deployed code is taken, whatever bytes either
\* of them holds (Contract.cpp:1091-1129).
THEOREM DeployedFound == Spec => []DeployedCodeFound
<1>1. LoadInv /\ SearchInv => DeployedCodeFound
  <2> DEFINE c == m_byteCode
  <2> SUFFICES ASSUME LoadInv, SearchInv, pc # "detect",
                      NEW n \in 1 .. Len(c), DeploysFrom(c, n)
               PROVE  m_byteCodeRuntime = SubSeq(c, n + 1, Len(c))
    BY DEF DeployedCodeFound
  <2>1. /\ c \in Seq(Bytes) /\ seen \in Seq(OffsetInfo) /\ Listing(seen, c)
        /\ Ended(c, Reached(seen, c)) /\ Len(c) \in Nat /\ Len(seen) \in Nat
    BY DEF LoadInv, TypeOK
  <2>2. m_runtimeOffset # 0 =>
          m_byteCodeRuntime = SubSeq(c, m_runtimeOffset + 1, Len(c))
    BY DEF LoadInv
  <2> HIDE DEF c
  <2>3. PICK r \in Starts(c), d \in Starts(c) :
          /\ d < r /\ r < n /\ n < Len(c)
          /\ c[d + 1] = CODECOPY /\ c[r + 1] = RETURN
          /\ \A i \in Starts(c) : i < r => c[i + 1] # RETURN
          /\ \A i \in r + 1 .. n - 1 : c[i + 1] = STOP
          /\ isValidInstruction(c[n + 1]) /\ c[n + 1] # STOP
    BY DEF DeploysFrom
  <2>4. d \in Nat /\ r \in Nat /\ n \in Nat
    BY <2>1, StartsCover DEF StartsOf
  <2>5. n \in Starts(c)
    <3>1. \A i \in r .. n : i \in Starts(c)
      BY <2>1, <2>3, <2>4, StopsAreStarts
    <3>2. n \in r .. n
      BY <2>3, <2>4
    <3>3. QED
      BY <3>1, <3>2
  <2>6. ~Ended(c, d) /\ ~Ended(c, r) /\ ~Ended(c, n)
    BY <2>1, <2>3, <2>4, TableAssumption DEF Ended, isValidInstruction
  <2>7. /\ \A j \in 1 .. Len(seen) :
             /\ seen[j].offset \in Starts(c) /\ seen[j].offset \in Nat
             /\ seen[j].inst = c[seen[j].offset + 1]
        /\ \A k \in 1 .. Len(seen) : \A j \in 1 .. k - 1 :
             seen[j].offset < seen[k].offset
    <3>1. \A j \in 1 .. Len(seen) : seen[j] = InstructionAt(c, seen[j].offset)
      BY <2>1 DEF Listing
    <3>2. ASSUME NEW j \in 1 .. Len(seen)
          PROVE  seen[j].inst = c[seen[j].offset + 1]
      <4> DEFINE o == seen[j].offset
      <4>1. seen[j] = InstructionAt(c, o)
        BY <3>1
      <4> HIDE DEF o
      <4>2. seen[j].inst = c[o + 1]
        BY <4>1 DEF InstructionAt
      <4>3. QED
        BY <4>2 DEF o
    <3>3. \A j \in 1 .. Len(seen) : seen[j].offset \in Nat
      BY <2>1 DEF Listing
    <3>4. QED
      BY <2>1, <3>2, <3>3, ListingStarts
  <2>8. PICK kd \in 1 .. Len(seen) : seen[kd].offset = d
    BY <2>1, <2>6, StartsListed
  <2>9. PICK kr \in 1 .. Len(seen) : seen[kr].offset = r
    BY <2>1, <2>6, StartsListed
  <2>10. PICK kn \in 1 .. Len(seen) : seen[kn].offset = n
    BY <2>1, <2>5, <2>6, StartsListed
  <2>11. \A j, k \in 1 .. Len(seen) : seen[j].offset < seen[k].offset => j < k
    <3> SUFFICES ASSUME NEW j \in 1 .. Len(seen), NEW k \in 1 .. Len(seen),
                        seen[j].offset < seen[k].offset, ~(j < k)
                 PROVE  FALSE
      OBVIOUS
    <3>1. j = k \/ k \in 1 .. j - 1
      BY <2>1
    <3>2. seen[j].offset \in Nat /\ seen[k].offset \in Nat
      BY <2>7
    <3>3. CASE j = k
      BY <3>2, <3>3
    <3>4. CASE k \in 1 .. j - 1
      <4>1. seen[k].offset < seen[j].offset
        BY <2>7, <3>4
      <4>2. QED
        BY <3>2, <4>1
    <3>5. QED
      BY <3>1, <3>3, <3>4
  <2>12. \A l \in 1 .. Len(seen) : seen[l].inst = RETURN => r <= seen[l].offset
    <3> SUFFICES ASSUME NEW l \in 1 .. Len(seen), seen[l].inst = RETURN
                 PROVE  r <= seen[l].offset
      OBVIOUS
    <3>1. ~(seen[l].offset < r)
      BY <2>3, <2>7
    <3>2. QED
      BY <2>4, <2>7, <3>1
  <2>13. CopiedFirst(seen)
    <3>1. seen[kd].inst = CODECOPY
      BY <2>3, <2>7, <2>8
    <3>2. ASSUME NEW l \in 1 .. kd, seen[l].inst = RETURN PROVE FALSE
      <4>1. l \in 1 .. Len(seen) /\ (l = kd \/ l \in 1 .. kd - 1)
        BY <2>1
      <4>2. r <= seen[l].offset
        BY <2>12, <3>2, <4>1
      <4>3. l = kd \/ seen[l].offset < d
        BY <2>7, <2>8, <4>1
      <4>4. seen[l].offset \in Nat
        BY <2>7, <4>1
      <4> DEFINE o == seen[l].offset
      <4>5. r <= o /\ (o = d \/ o < d) /\ o \in Nat
        BY <2>8, <4>2, <4>3, <4>4
      <4> HIDE DEF o
      <4>6. QED
        BY <2>3, <2>4, <4>5
    <3>3. QED
      BY <3>1, <3>2 DEF CopiedFirst
  <2>14. Behind(seen, kn)
    <3>1. kr \in 1 .. kn - 1 /\ seen[kr].inst = RETURN
      <4>1. kr < kn
        BY <2>3, <2>9, <2>10, <2>11
      <4>2. QED
        BY <2>1, <2>3, <2>7, <2>9, <4>1
    <3>2. seen[kn].inst # STOP
      BY <2>3, <2>7, <2>10
    <3>3. QED
      BY <3>1, <3>2 DEF Behind
  <2>15. m_runtimeOffset # 0
    BY <2>13, <2>14 DEF SearchInv
  <2>16. PICK j \in 1 .. Len(seen) :
           /\ Behind(seen, j) /\ seen[j].offset = m_runtimeOffset
           /\ \A l \in 1 .. j - 1 : ~Behind(seen, l)
    BY <2>15 DEF SearchInv
  <2>17. seen[j].offset <= n
    <3>1. kn \notin 1 .. j - 1
      BY <2>14, <2>16
    <3>2. j = kn \/ j \in 1 .. kn - 1
      BY <2>1, <3>1
    <3>3. j = kn \/ seen[j].offset < n
      BY <2>7, <2>10, <3>2
    <3>4. QED
      BY <2>4, <2>7, <2>10, <3>3
  <2>18. r < seen[j].offset
    <3>1. PICK l \in 1 .. j - 1 : seen[l].inst = RETURN
      BY <2>16 DEF Behind
    <3>2. l \in 1 .. Len(seen)
      BY <2>1
    <3> DEFINE o == seen[l].offset
               p == seen[j].offset
    <3>3. r <= o
      BY <2>12, <3>1, <3>2
    <3>4. o < p
      BY <2>7, <3>1
    <3>5. o \in Nat /\ p \in Nat
      BY <2>7, <3>2
    <3> HIDE DEF o, p
    <3>6. r < p
      BY <2>4, <3>3, <3>4, <3>5
    <3>7. QED
      BY <3>6 DEF p
  <2>19. seen[j].offset = n
    <3> SUFFICES ASSUME seen[j].offset # n PROVE FALSE
      OBVIOUS
    <3>1. seen[j].offset \in r + 1 .. n - 1
      BY <2>4, <2>7, <2>17, <2>18
    <3>2. seen[j].inst = STOP
      BY <2>3, <2>7, <3>1
    <3>3. QED
      BY <2>16, <3>2 DEF Behind
  <2>20. QED
    BY <2>2, <2>15, <2>16, <2>19 DEF c
<1>2. QED
  BY SearchInvariant, <1>1, PTL
=============================================================================
