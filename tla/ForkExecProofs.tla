--------------------------- MODULE ForkExecProofs ----------------------------
(***************************************************************************)
(* Proofs about ForkExec, for every contract and every limit on the depth. *)
(***************************************************************************)
EXTENDS ForkExec, SequenceTheorems, WellFoundedInduction, TLAPS

-----------------------------------------------------------------------------
(***************************************************************************)
(* Sequences.                                                              *)
(***************************************************************************)
\* One element more in front.
LEMMA PushFacts ==
  ASSUME NEW S, NEW s \in Seq(S), NEW v \in S
  PROVE  /\ << v >> \o s \in Seq(S)
         /\ Len(<< v >> \o s) = Len(s) + 1
         /\ (<< v >> \o s)[1] = v
         /\ \A i \in 1 .. Len(s) : (<< v >> \o s)[i + 1] = s[i]
  BY SMT

\* Two elements more in front.
LEMMA PushTwoFacts ==
  ASSUME NEW S, NEW s \in Seq(S), NEW v \in S, NEW w \in S
  PROVE  /\ << v, w >> \o s \in Seq(S)
         /\ Len(<< v, w >> \o s) = Len(s) + 2
         /\ (<< v, w >> \o s)[1] = v
         /\ (<< v, w >> \o s)[2] = w
         /\ \A i \in 1 .. Len(s) : (<< v, w >> \o s)[i + 2] = s[i]
  BY SMT

\* The first element gone.
LEMMA TailFacts ==
  ASSUME NEW S, NEW s \in Seq(S), s # << >>
  PROVE  /\ Tail(s) \in Seq(S) /\ Head(s) \in S /\ Head(s) = s[1]
         /\ Len(s) \in Nat /\ Len(s) >= 1 /\ Len(Tail(s)) = Len(s) - 1
         /\ \A i \in 1 .. Len(s) - 1 : Tail(s)[i] = s[i + 1]
  BY SMT

\* popStack leaves a stack of what was there.
LEMMA PopFacts ==
  ASSUME NEW S, NEW s \in Seq(S), NEW k \in Nat
  PROVE  Pop(s, k) \in Seq(S)
  BY SMT DEF Pop

-----------------------------------------------------------------------------
(***************************************************************************)
(* The calls: each machine on the stack of calls is one level deeper than  *)
(* the one below it, and one that has executed something is not too deep.  *)
(***************************************************************************)
Deep(ms) ==
  /\ ms \in Seq(Machine)
  /\ \A k \in 1 .. Len(ms) :
       /\ ms[k].m_depthLevel = Len(ms) - k + 1
       /\ ms[k].at = "behind" => ms[k].m_depthLevel <= MaxDepth
  /\ Len(ms) <= MaxDepth + 1

\* Where something can be executed.
Places ==
  [ eip : OffsetsOf(listing), stack : Seq(Nat), forced : 0 .. MaxDepth - 1 ]

DeepInv ==
  /\ listing \in Seq(Instr) /\ codeSize \in Nat /\ entry \in Nat
  /\ Deep(machines)
  /\ status \in {"run", "done", "underflow", "beyond"}
  /\ status = "run" <=> machines # << >>
  /\ executed \subseteq Places

\* The strengthened invariant has all the type invariant says.
LEMMA DeepIsTyped == DeepInv => TypeOK
<1> SUFFICES ASSUME DeepInv PROVE TypeOK
  OBVIOUS
<1>1. machines \in Seq(Machine) /\ DOMAIN machines = 1 .. Len(machines)
  BY LenProperties DEF DeepInv, Deep
<1>2. QED
  BY <1>1 DEF DeepInv, Deep, TypeOK, Places

\* A machine that executes something is on one of the levels that may.
LEMMA TopLevel ==
  ASSUME DeepInv, status = "run", ~Ended
  PROVE  /\ machines # << >> /\ Top \in Machine
         /\ Top.m_depthLevel = Len(machines)
         /\ Len(machines) \in 1 .. MaxDepth
<1>1. machines # << >> /\ machines \in Seq(Machine)
  BY DEF DeepInv, Deep
<1>2. /\ Top \in Machine /\ Top = machines[1]
      /\ Len(machines) \in Nat /\ Len(machines) >= 1
  BY <1>1, TailFacts DEF Top
<1>3. Top.m_depthLevel = Len(machines)
  BY <1>2 DEF DeepInv, Deep
<1>4. Top.m_depthLevel <= MaxDepth
  <2>1. CASE Top.at = "entry"
    BY <1>2, <1>3, <2>1, DepthAssumption DEF Ended
  <2>2. CASE Top.at = "behind"
    BY <1>2, <2>2 DEF DeepInv, Deep
  <2>3. QED
    BY <1>2, <2>1, <2>2 DEF Machine
<1>5. QED
  BY <1>1, <1>2, <1>3, <1>4, DepthAssumption

\* What a machine is when it goes on.
LEMMA BehindFacts ==
  ASSUME Top \in Machine, NEW eip \in Nat, NEW s \in Seq(Nat)
  PROVE  /\ Behind(eip, s) \in Machine
         /\ Behind(eip, s).m_eip = eip /\ Behind(eip, s).m_stack = s
         /\ Behind(eip, s).m_depthLevel = Top.m_depthLevel
         /\ Behind(eip, s).at = "behind"
  BY DEF Behind, Machine

Forked(other, rest) ==
  [ m_eip |-> other, m_stack |-> rest,
    m_depthLevel |-> Top.m_depthLevel + 1, at |-> "entry" ]

\* What its copy is.
LEMMA ForkedFacts ==
  ASSUME Top \in Machine, NEW eip \in Nat, NEW s \in Seq(Nat)
  PROVE  /\ Forked(eip, s) \in Machine
         /\ Forked(eip, s).m_eip = eip /\ Forked(eip, s).m_stack = s
         /\ Forked(eip, s).m_depthLevel = Top.m_depthLevel + 1
         /\ Forked(eip, s).at = "entry"
<1>1. Top.m_depthLevel \in Nat
  BY DEF Machine
<1>2. QED
  BY <1>1 DEF Forked, Machine

\* A machine that goes on leaves the levels as they are.
LEMMA GoOnDeep ==
  ASSUME DeepInv, status = "run", ~Ended,
         NEW eip \in Nat, NEW s \in Seq(Nat), GoOn(eip, s)
  PROVE  Deep(machines') /\ machines' # << >>
<1> DEFINE m == Behind(eip, s)
           t == Tail(machines)
<1>1. /\ machines # << >> /\ Top \in Machine /\ Top.m_depthLevel = Len(machines)
      /\ Len(machines) \in 1 .. MaxDepth
  BY TopLevel
<1>2. /\ machines \in Seq(Machine)
      /\ \A k \in 1 .. Len(machines) :
           /\ machines[k].m_depthLevel = Len(machines) - k + 1
           /\ machines[k].at = "behind" => machines[k].m_depthLevel <= MaxDepth
  BY DEF DeepInv, Deep
<1>3. /\ m \in Machine /\ m.m_depthLevel = Len(machines)
  BY <1>1, BehindFacts
<1>4. /\ t \in Seq(Machine) /\ Len(t) = Len(machines) - 1
      /\ \A i \in 1 .. Len(machines) - 1 : t[i] = machines[i + 1]
  BY <1>1, <1>2, TailFacts
<1>5. machines' = << m >> \o t
  BY DEF GoOn
<1> HIDE DEF m, t
<1>6. /\ machines' \in Seq(Machine) /\ Len(machines') = Len(machines)
      /\ machines'[1] = m
      /\ \A i \in 1 .. Len(machines) - 1 : machines'[i + 1] = machines[i + 1]
  BY <1>1, <1>3, <1>4, <1>5, PushFacts
<1>7. ASSUME NEW k \in 1 .. Len(machines')
      PROVE  /\ machines'[k].m_depthLevel = Len(machines') - k + 1
             /\ machines'[k].at = "behind" => machines'[k].m_depthLevel <= MaxDepth
  <2>1. CASE k = 1
    BY <1>1, <1>3, <1>6, <2>1
  <2>2. CASE k # 1
    <3>1. k - 1 \in 1 .. Len(machines) - 1 /\ k = (k - 1) + 1
      BY <1>1, <1>6, <2>2
    <3>2. machines'[k] = machines[k]
      BY <1>6, <3>1
    <3>3. QED
      BY <1>2, <1>6, <3>2
  <2>3. QED
    BY <2>1, <2>2
<1>8. QED
  BY <1>1, <1>6, <1>7, DepthAssumption DEF Deep

\* A fork adds one level, and only to a machine that is not too deep.
LEMMA ForkDeep ==
  ASSUME DeepInv, status = "run", ~Ended, Len(Top.m_stack) >= 2,
         NEW other \in Nat, NEW own \in Nat, Fork(other, own)
  PROVE  Deep(machines') /\ machines' # << >>
<1> DEFINE rest == Pop(Top.m_stack, 2)
           m == Behind(own, rest)
           c == Forked(other, rest)
           t == Tail(machines)
<1>1. /\ machines # << >> /\ Top \in Machine /\ Top.m_depthLevel = Len(machines)
      /\ Len(machines) \in 1 .. MaxDepth
  BY TopLevel
<1>2. /\ machines \in Seq(Machine)
      /\ \A k \in 1 .. Len(machines) :
           /\ machines[k].m_depthLevel = Len(machines) - k + 1
           /\ machines[k].at = "behind" => machines[k].m_depthLevel <= MaxDepth
  BY DEF DeepInv, Deep
<1>0. rest \in Seq(Nat)
  BY <1>1, PopFacts DEF Machine
<1>3. /\ m \in Machine /\ m.m_depthLevel = Len(machines)
      /\ c \in Machine /\ c.m_depthLevel = Len(machines) + 1 /\ c.at = "entry"
  BY <1>0, <1>1, BehindFacts, ForkedFacts
<1>4. /\ t \in Seq(Machine) /\ Len(t) = Len(machines) - 1
      /\ \A i \in 1 .. Len(machines) - 1 : t[i] = machines[i + 1]
  BY <1>1, <1>2, TailFacts
<1>5. machines' = << c, m >> \o t
  BY DEF Fork, Forked
<1> HIDE DEF m, t, c, rest
<1>6. /\ machines' \in Seq(Machine) /\ Len(machines') = Len(machines) + 1
      /\ machines'[1] = c /\ machines'[2] = m
      /\ \A i \in 1 .. Len(machines) - 1 : machines'[i + 2] = machines[i + 1]
  BY <1>1, <1>3, <1>4, <1>5, PushTwoFacts
<1>7. ASSUME NEW k \in 1 .. Len(machines')
      PROVE  /\ machines'[k].m_depthLevel = Len(machines') - k + 1
             /\ machines'[k].at = "behind" => machines'[k].m_depthLevel <= MaxDepth
  <2>1. CASE k = 1
    BY <1>1, <1>3, <1>6, <2>1
  <2>2. CASE k = 2
    BY <1>1, <1>3, <1>6, <2>2
  <2>3. CASE k > 2
    <3>1. PICK j \in 1 .. Len(machines) - 1 : k = j + 2
      BY <1>1, <1>6, <2>3
    <3>2. machines'[k] = machines[j + 1] /\ j + 1 = k - 1
      BY <1>1, <1>6, <3>1
    <3>4. k - 1 \in 1 .. Len(machines)
      BY <1>1, <3>1
    <3>3. QED
      BY <1>1, <1>2, <1>6, <3>2, <3>4
  <2>4. QED
    BY <1>1, <1>6, <2>1, <2>2, <2>3
<1>8. QED
  BY <1>1, <1>6, <1>7, DepthAssumption DEF Deep

\* A return takes the innermost level away.
LEMMA ReturnDeep ==
  ASSUME DeepInv, status = "run", Return
  PROVE  /\ Deep(machines')
         /\ status' \in {"run", "done"}
         /\ status' = "run" <=> machines' # << >>
<1>1. machines # << >> /\ machines \in Seq(Machine)
  BY DEF DeepInv, Deep
<1>2. /\ machines' \in Seq(Machine)
      /\ Len(machines) \in Nat /\ Len(machines) >= 1
      /\ Len(machines') = Len(machines) - 1
      /\ \A i \in 1 .. Len(machines) - 1 : machines'[i] = machines[i + 1]
  BY <1>1, TailFacts DEF Return
<1>3. Deep(machines')
  <2>1. ASSUME NEW k \in 1 .. Len(machines')
        PROVE  /\ machines'[k].m_depthLevel = Len(machines') - k + 1
               /\ machines'[k].at = "behind" => machines'[k].m_depthLevel <= MaxDepth
    <3>1. machines'[k] = machines[k + 1] /\ k + 1 \in 1 .. Len(machines)
      BY <1>2
    <3>2. machines[k + 1].m_depthLevel = Len(machines) - (k + 1) + 1
      BY <3>1 DEF DeepInv, Deep
    <3>3. machines[k + 1].at = "behind" => machines[k + 1].m_depthLevel <= MaxDepth
      BY <3>1 DEF DeepInv, Deep
    <3>4. QED
      BY <1>2, <3>1, <3>2, <3>3
  <2>2. QED
    BY <1>2, <2>1, DepthAssumption DEF DeepInv, Deep
<1>4. machines' = << >> <=> Len(machines) = 1
  BY <1>2, EmptySeq
<1>5. QED
  BY <1>3, <1>4 DEF Return

\* Every pushed constant, and every offset of an instruction, is a number.
LEMMA ListingFacts ==
  ASSUME listing \in Seq(Instr), NEW i \in DOMAIN listing
  PROVE  /\ listing[i] \in Instr
         /\ listing[i].offset \in Nat /\ listing[i].data \in Nat
         /\ listing[i].offset \in OffsetsOf(listing)
<1>1. listing[i] \in Instr
  BY ElementOfSeq, LenProperties
<1>2. QED
  BY <1>1 DEF Instr, OffsetsOf

\* What an execution adds to the history is a place in the code, with a stack.
LEMMA ExecutedKept ==
  ASSUME DeepInv, NEW op, NEW i \in DOMAIN listing, Exec(op, i)
  PROVE  executed' \subseteq Places
<1>1. /\ executed \subseteq Places /\ status = "run" /\ ~Ended
      /\ listing \in Seq(Instr) /\ listing[i].offset = Top.m_eip
      /\ executed' = executed \cup { [ eip |-> Top.m_eip, stack |-> Top.m_stack,
                                       forced |-> Top.m_depthLevel - 1 ] }
  BY DEF DeepInv, Exec
<1>2. /\ Top \in Machine /\ Top.m_depthLevel = Len(machines)
      /\ Len(machines) \in 1 .. MaxDepth
  BY <1>1, TopLevel
<1>3. Top.m_depthLevel - 1 \in 0 .. MaxDepth - 1
  BY <1>2, DepthAssumption
<1>4. Top.m_eip \in OffsetsOf(listing) /\ Top.m_stack \in Seq(Nat)
  BY <1>1, <1>2, ListingFacts DEF Machine
<1>5. QED
  BY <1>1, <1>3, <1>4 DEF Places

\* Each instruction that lets its machine go on, whatever it is, sets m_eip to a
\* number and leaves a stack of numbers.
LEMMA ExecGoesOn ==
  ASSUME DeepInv,
         ExecPush \/ ExecDiscard \/ ExecIsZero \/ ExecJump
  PROVE  \E eip \in Nat, s \in Seq(Nat), i \in DOMAIN listing :
           GoOn(eip, s) /\ Exec(listing[i].op, i)
<1>0. listing \in Seq(Instr)
  BY DEF DeepInv
<1>1. ASSUME NEW i \in DOMAIN listing, Exec(listing[i].op, i)
      PROVE  Top \in Machine /\ Top.m_eip \in Nat /\ Top.m_stack \in Seq(Nat)
             /\ Top.m_eip + 1 \in Nat /\ Top.m_eip + 2 \in Nat
  <2>1. Top \in Machine
    BY <1>1, TopLevel DEF Exec
  <2>2. QED
    BY <2>1 DEF Machine
<1>2. CASE ExecPush
  <2>1. PICK i \in DOMAIN listing :
          /\ Exec("PUSH12", i)
          /\ GoOn(Top.m_eip + Size("PUSH12"), << listing[i].data >> \o Top.m_stack)
    BY <1>2 DEF ExecPush
  <2>2. listing[i].op = "PUSH12" /\ listing[i].data \in Nat
    BY <1>0, <2>1, ListingFacts DEF Exec
  <2>3. << listing[i].data >> \o Top.m_stack \in Seq(Nat)
    BY <1>1, <2>1, <2>2, PushFacts
  <2>4. Top.m_eip + Size("PUSH12") \in Nat
    BY <1>1, <2>1, <2>2 DEF Size
  <2>5. QED
    BY <2>1, <2>2, <2>3, <2>4
<1>3. CASE ExecDiscard
  <2>1. PICK i \in DOMAIN listing, op \in {"POP", "JUMPDEST"} :
          /\ Exec(op, i)
          /\ GoOn(Top.m_eip + 1, Pop(Top.m_stack, IF op = "POP" THEN 1 ELSE 0))
    BY <1>3 DEF ExecDiscard
  <2>2. listing[i].op = op
    BY <2>1 DEF Exec
  <2>3. Pop(Top.m_stack, IF op = "POP" THEN 1 ELSE 0) \in Seq(Nat)
    BY <1>1, <2>1, <2>2, PopFacts
  <2>4. QED
    BY <1>1, <2>1, <2>2, <2>3
<1>4. CASE ExecIsZero
  <2> DEFINE s == [Top.m_stack EXCEPT ![1] = IF Top.m_stack[1] = 0 THEN 1 ELSE 0]
  <2>1. PICK i \in DOMAIN listing :
          /\ Exec("ISZERO", i) /\ Top.m_stack # << >>
          /\ GoOn(Top.m_eip + 1, s)
    BY <1>4 DEF ExecIsZero
  <2>2. listing[i].op = "ISZERO"
    BY <2>1 DEF Exec
  <2>3. s \in Seq(Nat)
    BY <1>1, <2>1, <2>2, SMT
  <2>4. QED
    BY <1>1, <2>1, <2>2, <2>3
<1>5. CASE ExecJump
  <2> DEFINE e == IF Top.m_stack = << >> THEN Top.m_eip ELSE Top.m_stack[1]
  <2>1. PICK i \in DOMAIN listing :
          /\ Exec("JUMP", i)
          /\ GoOn(e, Pop(Top.m_stack, 1))
    BY <1>5 DEF ExecJump
  <2>2. listing[i].op = "JUMP"
    BY <2>1 DEF Exec
  <2>3. e \in Nat
    BY <1>1, <2>1, <2>2, SMT
  <2>4. Pop(Top.m_stack, 1) \in Seq(Nat)
    BY <1>1, <2>1, <2>2, PopFacts
  <2>5. QED
    BY <2>1, <2>2, <2>3, <2>4
<1>6. QED
  BY <1>2, <1>3, <1>4, <1>5

\* A JUMPI forks with two numbers as the offsets to go on at.
LEMMA JumpiForks ==
  ASSUME DeepInv, ExecJumpi
  PROVE  /\ Len(Top.m_stack) >= 2
         /\ \E other, own \in Nat, i \in DOMAIN listing :
              /\ Fork(other, own) /\ Exec("JUMPI", i)
              /\ other \in {Top.m_stack[1], Top.m_eip + 1}
              /\ own \in {Top.m_stack[1], Top.m_eip + 1}
<1>1. PICK i \in DOMAIN listing :
        /\ Exec("JUMPI", i) /\ Len(Top.m_stack) >= 2
        /\ IF Top.m_stack[2] # 0 THEN Fork(Top.m_eip + 1, Top.m_stack[1])
                                 ELSE Fork(Top.m_stack[1], Top.m_eip + 1)
  BY DEF ExecJumpi
<1>2. Top \in Machine
  BY <1>1, TopLevel DEF Exec
<1>3. Top.m_stack[1] \in Nat /\ Top.m_eip + 1 \in Nat
  BY <1>1, <1>2 DEF Machine
<1>4. QED
  BY <1>1, <1>3

\* Every step keeps the levels and the types.
LEMMA DeepStep ==
  ASSUME DeepInv, [Next]_vars
  PROVE  DeepInv'
<1> USE DEF DeepInv
<1>0. (UNCHANGED listing) => Places' = Places
  BY DEF Places, OffsetsOf
<1>1. CASE ReturnAtEnd \/ ReturnAtInvalid
  BY <1>0, <1>1, ReturnDeep DEF ReturnAtEnd, ReturnAtInvalid, Return
<1>2. CASE RunBeyond \/ Underflow
  <2>1. /\ machines' = << >> /\ status' \in {"beyond", "underflow"}
        /\ UNCHANGED << listing, codeSize, entry >>
    BY <1>2 DEF RunBeyond, Underflow, Stray
  <2>2. executed' \subseteq Places
    BY <1>2, ExecutedKept DEF RunBeyond, Underflow
  <2>3. Deep(<< >>)
    BY EmptySeq, DepthAssumption, SMT DEF Deep
  <2>4. QED
    BY <1>0, <2>1, <2>2, <2>3
<1>3. CASE ExecPush \/ ExecDiscard \/ ExecIsZero \/ ExecJump
  <2>1. PICK eip \in Nat, s \in Seq(Nat), i \in DOMAIN listing :
          GoOn(eip, s) /\ Exec(listing[i].op, i)
    BY <1>3, ExecGoesOn
  <2>2. status = "run" /\ ~Ended
    BY <2>1 DEF Exec
  <2>3. Deep(machines') /\ machines' # << >>
    BY <2>1, <2>2, GoOnDeep
  <2>4. executed' \subseteq Places
    BY <2>1, ExecutedKept
  <2>5. QED
    BY <1>0, <2>1, <2>2, <2>3, <2>4 DEF GoOn
<1>4. CASE ExecJumpi
  <2>1. PICK other \in Nat, own \in Nat, i \in DOMAIN listing :
          Fork(other, own) /\ Exec("JUMPI", i)
    BY <1>4, JumpiForks
  <2>2. status = "run" /\ ~Ended
    BY <2>1 DEF Exec
  <2>3. Deep(machines') /\ machines' # << >>
    BY <1>4, <2>1, <2>2, JumpiForks, ForkDeep
  <2>4. executed' \subseteq Places
    BY <2>1, ExecutedKept
  <2>5. QED
    BY <1>0, <2>1, <2>2, <2>3, <2>4 DEF Fork
<1>5. CASE ExecHalt
  <2>1. PICK i \in DOMAIN listing : Exec("STOP", i) /\ Return
    BY <1>5 DEF ExecHalt
  <2>2. executed' \subseteq Places
    BY <2>1, ExecutedKept
  <2>3. QED
    BY <1>0, <2>1, <2>2, ReturnDeep DEF Exec, Return
<1>6. CASE UNCHANGED vars
  BY <1>0, <1>6 DEF vars, Deep
<1>7. QED
  BY <1>1, <1>2, <1>3, <1>4, <1>5, <1>6 DEF Next, Step, Terminated

\* The machine of a function that begins at e.
Called(e) ==
  [ m_eip |-> e, m_stack |-> << >>, m_depthLevel |-> 1, at |-> "entry" ]

LEMMA CalledFacts ==
  ASSUME NEW e \in Nat
  PROVE  /\ Called(e) \in Machine /\ Called(e).m_eip = e
         /\ Called(e).m_stack = << >> /\ Called(e).m_depthLevel = 1
         /\ Called(e).at = "entry"
  BY DEF Called, Machine

\* One machine, on the first level, at the function.
LEMMA DeepInit ==
  ASSUME Init
  PROVE  /\ DeepInv /\ machines = << Called(entry) >> /\ status = "run"
         /\ executed = {} /\ entry \in OffsetsOf(listing)
<1>1. PICK p \in Programs :
        /\ listing = p.listing /\ codeSize = p.size /\ entry = p.entry
        /\ machines = << Called(p.entry) >> /\ status = "run" /\ executed = {}
  BY DEF Init, Called
<1>2. /\ listing \in Seq(Instr) /\ codeSize \in Nat
      /\ entry \in OffsetsOf(listing)
  BY <1>1, ProgramAssumption
<1>3. entry \in Nat
  BY <1>2, ListingFacts DEF OffsetsOf
<1>4. Deep(<< Called(entry) >>)
  <2> DEFINE m == Called(entry)
  <2>1. m \in Machine /\ m.m_depthLevel = 1 /\ m.at = "entry"
    BY <1>3, CalledFacts
  <2> HIDE DEF m
  <2>2. << m >> \in Seq(Machine) /\ Len(<< m >>) = 1 /\ << m >>[1] = m
    BY <2>1
  <2>3. Deep(<< m >>)
    BY <2>1, <2>2, DepthAssumption DEF Deep
  <2>4. QED
    BY <2>3 DEF m
<1>5. DeepInv
  BY <1>1, <1>2, <1>3, <1>4 DEF DeepInv
<1>6. QED
  BY <1>1, <1>2, <1>5

\* However many branches the code has, executeByteCode never has more than
\* MaxDepth + 1 machines alive, each one level below the machine it copies
\* (VMState.cpp:580, 595, 872).
THEOREM LevelsBounded == Spec => []TypeOK
<1>1. DeepInv /\ [Next]_vars => DeepInv'
  BY DeepStep
<1>2. Init => DeepInv
  BY DeepInit
<1>3. QED
  BY <1>1, <1>2, DeepIsTyped, PTL DEF Spec

-----------------------------------------------------------------------------
(***************************************************************************)
(* The ways out of the code: until something has been executed that leads  *)
(* out, each machine stands at an instruction, or has just come to the end *)
(* of the code.                                                            *)
(***************************************************************************)
Starts == OffsetsOf(listing)

Safe(m) == m.m_eip \in Starts \/ (m.at = "behind" /\ m.m_eip = codeSize)

SafeMachines == { m \in Machine : Safe(m) }

AllSafe == machines \in Seq(SafeMachines) /\ status # "beyond"

\* The instruction at c, with the stack it has there, leads out of the code.
LeadsOut(c, i) ==
  /\ c.eip = listing[i].offset
  /\ \/ /\ listing[i].op \in {"JUMP", "JUMPI"} /\ c.stack # << >>
        /\ c.stack[1] \notin Starts
     \/ listing[i].op = "JUMPI" /\ i = Len(listing)
     \/ listing[i].op = "PUSH12" /\ c.eip + Size("PUSH12") > codeSize

Way == \E c \in executed, i \in DOMAIN listing : LeadsOut(c, i)

\* Instructions that lie one behind the other up to the last byte.
Gapless ==
  \A i \in DOMAIN listing :
    LET behind == listing[i].offset + Size(listing[i].op)
    IN  /\ i < Len(listing) => behind = listing[i + 1].offset
        /\ i = Len(listing) => IF listing[i].op = "PUSH12" THEN behind >= codeSize
                                                           ELSE behind = codeSize

SafeInv == DeepInv /\ Gapless /\ (AllSafe \/ Way)

\* The contract does not change, and what has been executed stays so.
LEMMA NextKeeps ==
  ASSUME [Next]_vars
  PROVE  /\ UNCHANGED << listing, codeSize, entry >> /\ executed \subseteq executed'
         /\ Starts' = Starts /\ (Gapless => Gapless') /\ (Way => Way')
<1>1. UNCHANGED << listing, codeSize, entry >>
  BY DEF Next, Step, Terminated, ReturnAtEnd, ReturnAtInvalid, Return, RunBeyond,
         Underflow, Stray, ExecPush, ExecDiscard, ExecIsZero, ExecJump, GoOn,
         ExecJumpi, Fork, ExecHalt, vars
<1>2. executed \subseteq executed'
  BY DEF Next, Step, Terminated, ReturnAtEnd, ReturnAtInvalid, RunBeyond,
         Underflow, ExecPush, ExecDiscard, ExecIsZero, ExecJump,
         ExecJumpi, ExecHalt, Exec, vars
<1>3. Starts' = Starts
  BY <1>1 DEF Starts, OffsetsOf
<1>4. \A c, i : LeadsOut(c, i)' <=> LeadsOut(c, i)
  BY <1>1, <1>3 DEF LeadsOut
<1>5. Way => Way'
  BY <1>1, <1>2, <1>4 DEF Way
<1>6. Gapless => Gapless'
  BY <1>1 DEF Gapless
<1>7. QED
  BY <1>1, <1>2, <1>3, <1>5, <1>6

\* What there is to say of the instruction under m_eip if it does not lead out.
LEMMA InstructionFacts ==
  ASSUME SafeInv, AllSafe, [Next]_vars, ~Way',
         NEW i \in DOMAIN listing, NEW op, Exec(op, i)
  PROVE  /\ Top \in SafeMachines /\ Top.m_eip \in Starts /\ Top.m_eip \in Nat
         /\ Top.m_stack \in Seq(Nat) /\ listing[i].op = op
         /\ Top.m_eip + Size(op) \in Starts \cup {codeSize}
         /\ op = "JUMPI" => Top.m_eip + Size(op) \in Starts
         /\ op \in {"JUMP", "JUMPI"} /\ Top.m_stack # << >> =>
              Top.m_stack[1] \in Starts
<1>1. /\ listing \in Seq(Instr) /\ i \in 1 .. Len(listing) /\ codeSize \in Nat
      /\ Len(listing) \in Nat
  BY LenProperties DEF SafeInv, DeepInv
<1>2. listing[i].op = op /\ listing[i].offset = Top.m_eip
  BY DEF Exec
<1>3. Top.m_eip \in Starts /\ Top.m_eip \in Nat
  BY <1>1, <1>2, ListingFacts DEF Starts
<1>4. Top \in SafeMachines
  <2>1. machines \in Seq(SafeMachines) /\ machines # << >>
    BY DEF SafeInv, AllSafe, DeepInv, Exec
  <2>2. QED
    BY <2>1, TailFacts DEF Top
<1>5. Top.m_stack \in Seq(Nat)
  BY <1>4 DEF SafeMachines, Machine
<1> DEFINE c == [ eip |-> Top.m_eip, stack |-> Top.m_stack,
                  forced |-> Top.m_depthLevel - 1 ]
<1>6. c \in executed' /\ c.eip = Top.m_eip /\ c.stack = Top.m_stack
  BY DEF Exec
<1>7. ~LeadsOut(c, i)
  <2> HIDE DEF c
  <2>1. UNCHANGED << listing, codeSize >> /\ Starts' = Starts
    BY NextKeeps
  <2>2. LeadsOut(c, i) => Way'
    BY <1>6, <2>1 DEF LeadsOut, Way
  <2>3. QED
    BY <2>2
<1> HIDE DEF c
<1>8. /\ op \in {"JUMP", "JUMPI"} /\ Top.m_stack # << >> => Top.m_stack[1] \in Starts
      /\ op = "JUMPI" => i # Len(listing)
      /\ op = "PUSH12" => ~(Top.m_eip + Size("PUSH12") > codeSize)
  BY <1>2, <1>6, <1>7 DEF LeadsOut
<1>9. /\ i < Len(listing) => Top.m_eip + Size(op) = listing[i + 1].offset
      /\ i = Len(listing) => IF op = "PUSH12" THEN Top.m_eip + Size(op) >= codeSize
                                              ELSE Top.m_eip + Size(op) = codeSize
  BY <1>2 DEF SafeInv, Gapless
<1>10. i < Len(listing) => listing[i + 1].offset \in Starts
  BY <1>1 DEF Starts, OffsetsOf
<1>11. i = Len(listing) => Top.m_eip + Size(op) = codeSize
  BY <1>1, <1>3, <1>8, <1>9 DEF Size
<1>12. i < Len(listing) \/ i = Len(listing)
  BY <1>1
<1>13. /\ Top.m_eip + Size(op) \in Starts \cup {codeSize}
       /\ op = "JUMPI" => Top.m_eip + Size(op) \in Starts
  BY <1>8, <1>9, <1>10, <1>11, <1>12
<1>14. QED
  BY <1>2, <1>3, <1>4, <1>5, <1>8, <1>13

\* Each instruction that lets its machine go on takes it to another, or to the end.
LEMMA GoesOnInCode ==
  ASSUME SafeInv, AllSafe, [Next]_vars, ~Way',
         ExecPush \/ ExecDiscard \/ ExecIsZero \/ ExecJump
  PROVE  \E eip \in Starts \cup {codeSize}, s \in Seq(Nat) : GoOn(eip, s)
<1>2. CASE ExecPush
  <2>1. PICK i \in DOMAIN listing :
          /\ Exec("PUSH12", i)
          /\ GoOn(Top.m_eip + Size("PUSH12"), << listing[i].data >> \o Top.m_stack)
    BY <1>2 DEF ExecPush
  <2>2. Top.m_stack \in Seq(Nat)
    BY <2>1, InstructionFacts
  <2>3. << listing[i].data >> \o Top.m_stack \in Seq(Nat)
    <3>1. listing[i].data \in Nat
      BY <2>1, ListingFacts DEF SafeInv, DeepInv
    <3>2. QED
      BY <2>2, <3>1, PushFacts
  <2>4. Top.m_eip + Size("PUSH12") \in Starts \cup {codeSize}
    BY <2>1, InstructionFacts
  <2>5. QED
    BY <2>1, <2>3, <2>4
<1>3. CASE ExecDiscard
  <2>1. PICK i \in DOMAIN listing, op \in {"POP", "JUMPDEST"} :
          /\ Exec(op, i)
          /\ GoOn(Top.m_eip + 1, Pop(Top.m_stack, IF op = "POP" THEN 1 ELSE 0))
    BY <1>3 DEF ExecDiscard
  <2>2. Pop(Top.m_stack, IF op = "POP" THEN 1 ELSE 0) \in Seq(Nat)
    <3>1. Top.m_stack \in Seq(Nat)
      BY <2>1, InstructionFacts
    <3>2. QED
      BY <3>1, PopFacts
  <2>3. Size(op) = 1
    BY DEF Size
  <2>4. Top.m_eip + 1 \in Starts \cup {codeSize}
    BY <2>1, <2>3, InstructionFacts
  <2>5. QED
    BY <2>1, <2>2, <2>4
<1>4. CASE ExecIsZero
  <2> DEFINE v == IF Top.m_stack[1] = 0 THEN 1 ELSE 0
  <2>1. PICK i \in DOMAIN listing :
          /\ Exec("ISZERO", i) /\ Top.m_stack # << >>
          /\ GoOn(Top.m_eip + 1, [Top.m_stack EXCEPT ![1] = v])
    BY <1>4 DEF ExecIsZero
  <2>2. v \in Nat
    OBVIOUS
  <2> HIDE DEF v
  <2>3. [Top.m_stack EXCEPT ![1] = v] \in Seq(Nat)
    <3>1. Top.m_stack \in Seq(Nat)
      BY <2>1, InstructionFacts
    <3>2. QED
      BY <2>1, <2>2, <3>1, SMT
  <2>4. Size("ISZERO") = 1
    BY DEF Size
  <2>5. Top.m_eip + 1 \in Starts \cup {codeSize}
    BY <2>1, <2>4, InstructionFacts
  <2>6. QED
    BY <2>1, <2>3, <2>5
<1>5. CASE ExecJump
  <2> DEFINE e == IF Top.m_stack = << >> THEN Top.m_eip ELSE Top.m_stack[1]
  <2>1. PICK i \in DOMAIN listing :
          /\ Exec("JUMP", i)
          /\ GoOn(e, Pop(Top.m_stack, 1))
    BY <1>5 DEF ExecJump
  <2>2. /\ Top.m_stack # << >> => Top.m_stack[1] \in Starts
        /\ Top.m_eip \in Starts /\ Top.m_stack \in Seq(Nat)
    BY <2>1, InstructionFacts
  <2>3. e \in Starts
    BY <2>2
  <2>4. Pop(Top.m_stack, 1) \in Seq(Nat)
    BY <2>2, PopFacts
  <2>5. QED
    BY <2>1, <2>3, <2>4
<1>6. QED
  BY <1>2, <1>3, <1>4, <1>5

\* A JUMPI starts its copy at an instruction, and goes on at one itself.
LEMMA ForksInCode ==
  ASSUME SafeInv, AllSafe, [Next]_vars, ~Way', ExecJumpi
  PROVE  \E other, own \in Starts :
           Fork(other, own) /\ Pop(Top.m_stack, 2) \in Seq(Nat)
<1>1. PICK other \in Nat, own \in Nat, i \in DOMAIN listing :
        /\ Fork(other, own) /\ Exec("JUMPI", i)
        /\ other \in {Top.m_stack[1], Top.m_eip + 1}
        /\ own \in {Top.m_stack[1], Top.m_eip + 1}
        /\ Len(Top.m_stack) >= 2
  BY JumpiForks DEF SafeInv
<1>2. /\ Top.m_stack \in Seq(Nat) /\ Top.m_eip + Size("JUMPI") \in Starts
      /\ Top.m_stack # << >> => Top.m_stack[1] \in Starts
  BY <1>1, InstructionFacts
<1>3. Top.m_eip + 1 \in Starts
  BY <1>2 DEF Size
<1>4. Top.m_stack[1] \in Starts
  BY <1>1, <1>2, EmptySeq, SMT
<1>5. Pop(Top.m_stack, 2) \in Seq(Nat)
  BY <1>2, PopFacts
<1>6. QED
  BY <1>1, <1>3, <1>4, <1>5

\* Offsets of instructions are numbers.
LEMMA StartsAreNumbers ==
  ASSUME DeepInv
  PROVE  Starts \subseteq Nat /\ codeSize \in Nat
  BY ListingFacts DEF DeepInv, Starts, OffsetsOf

\* No step takes a machine out of the code unless it executes what leads out.
LEMMA SafeStep ==
  ASSUME SafeInv, AllSafe, [Next]_vars, ~Way'
  PROVE  AllSafe'
<1> DEFINE S == SafeMachines
<1>1. UNCHANGED << listing, codeSize >> /\ Starts' = Starts
  BY NextKeeps
<1>2. S' = S
  <2>1. \A m \in Machine : Safe(m)' <=> Safe(m)
    BY <1>1 DEF Safe
  <2>2. QED
    BY <2>1 DEF SafeMachines
<1>3. /\ machines \in Seq(S) /\ status # "beyond"
      /\ DeepInv
  BY DEF SafeInv, AllSafe
<1>4. status = "run" => machines # << >> /\ Top \in S /\ Tail(machines) \in Seq(S)
  BY <1>3, TailFacts DEF DeepInv, Top
<1>5. CASE ReturnAtEnd \/ ReturnAtInvalid \/ ExecHalt
  <2>1. status = "run" /\ Return
    BY <1>5 DEF ReturnAtEnd, ReturnAtInvalid, ExecHalt, Exec
  <2>2. QED
    BY <1>2, <1>4, <2>1, ReturnDeep, <1>3 DEF Return, AllSafe
<1>6. CASE RunBeyond
  <2>1. status = "run" /\ ~Ended /\ Current = {}
    BY <1>6 DEF RunBeyond
  <2>2. Top.m_eip \in Starts \/ (Top.at = "behind" /\ Top.m_eip = codeSize)
    BY <1>4, <2>1 DEF SafeMachines, Safe
  <2>3. Top.m_eip \notin Starts
    BY <2>1 DEF Current, Starts, OffsetsOf
  <2>4. QED
    BY <2>1, <2>2, <2>3 DEF Ended
<1>7. CASE Underflow
  BY <1>7, EmptySeq DEF Underflow, Stray, AllSafe
<1>8. CASE ExecPush \/ ExecDiscard \/ ExecIsZero \/ ExecJump
  <2>1. PICK eip \in Starts \cup {codeSize}, s \in Seq(Nat) : GoOn(eip, s)
    BY <1>8, GoesOnInCode
  <2>2. status = "run" /\ ~Ended
    BY <1>8 DEF ExecPush, ExecDiscard, ExecIsZero, ExecJump, Exec
  <2>3. eip \in Nat /\ Top \in Machine
    BY <1>3, <1>4, <2>2, StartsAreNumbers DEF SafeMachines
  <2>4. Behind(eip, s) \in S
    BY <2>3, BehindFacts DEF SafeMachines, Safe
  <2>5. machines' = << Behind(eip, s) >> \o Tail(machines) /\ status' = status
    BY <2>1 DEF GoOn
  <2>6. machines' \in Seq(S)
    BY <1>4, <2>2, <2>4, <2>5, PushFacts
  <2>7. QED
    BY <1>2, <1>3, <2>5, <2>6 DEF AllSafe
<1>9. CASE ExecJumpi
  <2>1. PICK other \in Starts, own \in Starts :
          Fork(other, own) /\ Pop(Top.m_stack, 2) \in Seq(Nat)
    BY <1>9, ForksInCode
  <2> DEFINE rest == Pop(Top.m_stack, 2)
  <2>2. status = "run" /\ ~Ended
    BY <1>9 DEF ExecJumpi, Exec
  <2>3. other \in Nat /\ own \in Nat /\ rest \in Seq(Nat) /\ Top \in Machine
    BY <1>3, <1>4, <2>1, <2>2, StartsAreNumbers DEF SafeMachines
  <2>4. Behind(own, rest) \in S /\ Forked(other, rest) \in S
    BY <2>1, <2>3, BehindFacts, ForkedFacts DEF SafeMachines, Safe
  <2>5. /\ machines' = << Forked(other, rest), Behind(own, rest) >> \o Tail(machines)
        /\ status' = status
    BY <2>1 DEF Fork, Forked
  <2>6. machines' \in Seq(S)
    BY <1>4, <2>2, <2>4, <2>5, PushTwoFacts
  <2>7. QED
    BY <1>2, <1>3, <2>5, <2>6 DEF AllSafe
<1>10. CASE UNCHANGED vars
  BY <1>2, <1>3, <1>10 DEF vars, AllSafe
<1>11. QED
  BY <1>5, <1>6, <1>7, <1>8, <1>9, <1>10 DEF Next, Step, Terminated

\* The first machine stands at an instruction.
LEMMA SafeInit == Init => SafeInv
<1> SUFFICES ASSUME Init PROVE SafeInv
  OBVIOUS
<1> DEFINE m == Called(entry)
<1>1. /\ DeepInv /\ machines = << m >> /\ status = "run"
      /\ entry \in Starts /\ entry \in Nat
  BY DeepInit DEF Starts, DeepInv
<1>2. m \in SafeMachines
  BY <1>1, CalledFacts DEF SafeMachines, Safe
<1> HIDE DEF m
<1>3. << m >> \in Seq(SafeMachines)
  BY <1>2
<1>4. AllSafe
  BY <1>1, <1>3 DEF AllSafe
<1>5. Gapless
  BY OffsetsAssumption DEF Init, Gapless
<1>6. QED
  BY <1>1, <1>4, <1>5 DEF SafeInv

\* In every contract and on every level there are three ways out of the code: a
\* jump to where no instruction begins, a branch as the last instruction, and a
\* push that is cut off, although executeByteCode checks no jump and finds the
\* end of the code by equality (VMState.cpp:556-605, 876, 914).
THEOREM OnlyThreeWaysOut == Spec => []WaysOut
<1>1. SafeInv /\ [Next]_vars => SafeInv'
  <2> SUFFICES ASSUME SafeInv, [Next]_vars PROVE SafeInv'
    OBVIOUS
  <2>1. DeepInv' /\ Gapless' /\ (Way => Way')
    BY DeepStep, NextKeeps DEF SafeInv
  <2>2. QED
    BY <2>1, SafeStep DEF SafeInv
<1>2. SafeInv => WaysOut
  BY Zenon DEF SafeInv, AllSafe, WaysOut, Way, LeadsOut, Starts
<1>3. QED
  BY SafeInit, <1>1, <1>2, PTL DEF Spec
-----------------------------------------------------------------------------
(***************************************************************************)
(* What is executed: the configurations From(c) that some path leads to    *)
(* from c are the least set with c that nothing leads out of.              *)
(***************************************************************************)
Config == [ eip : Nat, stack : Seq(Nat), forced : Nat ]

From(c) ==
  { d \in Config :
      \A C \in SUBSET Config : c \in C /\ Followers(C) \subseteq C => d \in C }

Conf(e, s, f) == [ eip |-> e, stack |-> s, forced |-> f ]

LEMMA ConfFacts ==
  ASSUME NEW e \in Nat, NEW s \in Seq(Nat), NEW f \in Nat
  PROVE  /\ Conf(e, s, f) \in Config
         /\ Conf(e, s, f).eip = e /\ Conf(e, s, f).stack = s
         /\ Conf(e, s, f).forced = f
  BY DEF Conf, Config

\* Changes of a configuration.
LEMMA ConfSame ==
  ASSUME NEW c \in Config
  PROVE  c = Conf(c.eip, c.stack, c.forced)
  BY DEF Config, Conf

LEMMA ConfStack ==
  ASSUME NEW c \in Config, NEW x \in Seq(Nat)
  PROVE  [c EXCEPT !.stack = x] = Conf(c.eip, x, c.forced)
<1> DEFINE r == [c EXCEPT !.stack = x]
<1>1. r \in Config
  BY DEF Config
<1>2. r.eip = c.eip /\ r.stack = x /\ r.forced = c.forced
  BY DEF Config
<1> HIDE DEF r
<1>3. r = Conf(c.eip, x, c.forced)
  BY <1>1, <1>2, ConfSame
<1>4. QED
  BY <1>3 DEF r

LEMMA ConfEip ==
  ASSUME NEW c \in Config, NEW k \in Nat
  PROVE  [c EXCEPT !.eip = @ + k] = Conf(c.eip + k, c.stack, c.forced)
<1> DEFINE t == c.eip + k
           r == [c EXCEPT !.eip = t]
<1>0. t \in Nat
  BY DEF Config
<1> HIDE DEF t
<1>1. r \in Config
  BY <1>0 DEF Config
<1>2. r.eip = t /\ r.stack = c.stack /\ r.forced = c.forced
  BY DEF Config
<1> HIDE DEF r
<1>3. r = Conf(t, c.stack, c.forced)
  BY <1>1, <1>2, ConfSame
<1>4. QED
  BY <1>3 DEF r, t

LEMMA ConfJump ==
  ASSUME NEW c \in Config, NEW g \in Nat, NEW x \in Seq(Nat)
  PROVE  [c EXCEPT !.eip = g, !.stack = x] = Conf(g, x, c.forced)
<1> DEFINE r == [c EXCEPT !.eip = g, !.stack = x]
<1>1. r \in Config
  BY DEF Config
<1>2. r.eip = g /\ r.stack = x /\ r.forced = c.forced
  BY DEF Config
<1> HIDE DEF r
<1>3. r = Conf(g, x, c.forced)
  BY <1>1, <1>2, ConfSame
<1>4. QED
  BY <1>3 DEF r

\* What an instruction other than JUMPI makes of a configuration
\* (VMState.cpp:534-612).
After(c, i) ==
  LET s == c.stack
  IN  CASE listing[i].op = "PUSH12" ->
             Conf(c.eip + 2, << listing[i].data >> \o s, c.forced)
        [] listing[i].op = "POP" -> Conf(c.eip + 1, Pop(s, 1), c.forced)
        [] listing[i].op = "ISZERO" ->
             Conf(c.eip + 1, [s EXCEPT ![1] = IF s[1] = 0 THEN 1 ELSE 0], c.forced)
        [] listing[i].op = "JUMPDEST" -> Conf(c.eip + 1, s, c.forced)
        [] OTHER -> Conf(s[1], Pop(s, 1), c.forced)

\* The two that a JUMPI makes of it.
Branch(c, taken) ==
  Conf(IF taken THEN c.stack[1] ELSE c.eip + 1, Pop(c.stack, 2),
       c.forced + IF taken = (c.stack[2] # 0) THEN 0 ELSE 1)

GoesOn(c, i) ==
  \/ listing[i].op \in {"PUSH12", "POP", "JUMPDEST"}
  \/ listing[i].op \in {"ISZERO", "JUMP"} /\ c.stack # << >>

Branches(c, i) == listing[i].op = "JUMPI" /\ Len(c.stack) >= 2

LEMMA FollowingCases ==
  ASSUME listing \in Seq(Instr), NEW c \in Config, NEW i \in DOMAIN listing
  PROVE  /\ GoesOn(c, i) => Following(c, i) = {After(c, i)} /\ After(c, i) \in Config
         /\ Branches(c, i) =>
              /\ Following(c, i) = { Branch(c, taken) : taken \in BOOLEAN }
              /\ \A taken \in BOOLEAN : Branch(c, taken) \in Config
         /\ ~GoesOn(c, i) /\ ~Branches(c, i) => Following(c, i) = {}
<1> DEFINE op == listing[i].op
           e == c.eip
           s == c.stack
           f == c.forced
<1>1. /\ e \in Nat /\ s \in Seq(Nat) /\ f \in Nat /\ c = Conf(e, s, f)
      /\ listing[i].data \in Nat /\ op \in Ops
  <2>1. listing[i] \in Instr
    BY ListingFacts
  <2>2. QED
    BY <2>1 DEF Config, Conf, Instr
<1>2. /\ s # << >> => s[1] \in Nat /\ Len(s) >= 1
      /\ Len(s) >= 2 => s # << >> /\ s[1] \in Nat /\ s[2] \in Nat
      /\ Len(s) \in Nat
  <2> HIDE DEF s
  <2>1. s \in Seq(Nat)
    BY <1>1
  <2>2. QED
    BY <2>1
<1>3. Pop(s, 1) \in Seq(Nat) /\ Pop(s, 2) \in Seq(Nat)
  BY <1>1, PopFacts
<1>4. ASSUME NEW k \in Nat
      PROVE  /\ [c EXCEPT !.eip = @ + k] = Conf(e + k, s, f)
             /\ Conf(e + k, s, f) \in Config
  <2>1. e + k \in Nat
    BY <1>1
  <2>2. QED
    BY <1>1, <2>1, ConfEip, ConfFacts
<1>5. ASSUME NEW k \in Nat, NEW x \in Seq(Nat)
      PROVE  /\ [[c EXCEPT !.eip = @ + k] EXCEPT !.stack = x] = Conf(e + k, x, f)
             /\ Conf(e + k, x, f) \in Config
  <2> DEFINE g == e + k
             d == Conf(g, s, f)
  <2>1. g \in Nat
    BY <1>1
  <2>2. [c EXCEPT !.eip = @ + k] = d
    BY <1>4
  <2> HIDE DEF g
  <2>3. d \in Config /\ d.eip = g /\ d.forced = f
    BY <1>1, <2>1, ConfFacts
  <2>4. [d EXCEPT !.stack = x] = Conf(d.eip, x, d.forced)
    BY <2>3, ConfStack
  <2>5. Conf(g, x, f) \in Config
    BY <1>1, <2>1, ConfFacts
  <2> HIDE DEF d
  <2>6. QED
    BY <2>2, <2>3, <2>4, <2>5 DEF g
<1>6. /\ Size("PUSH12") = 2 /\ Size("POP") = 1 /\ Size("JUMPDEST") = 1
       /\ Size("ISZERO") = 1 /\ 1 \in Nat /\ 2 \in Nat
  BY DEF Size
<1>7. CASE op = "PUSH12"
  <2> DEFINE x == << listing[i].data >> \o s
  <2>1. x \in Seq(Nat)
    BY <1>1, PushFacts
  <2>2. Following(c, i) = { [[c EXCEPT !.eip = @ + Size(op)] EXCEPT !.stack = x] }
    BY <1>7 DEF Following
  <2>3. After(c, i) = Conf(e + 2, x, f)
    BY <1>7 DEF After
  <2> HIDE DEF x
  <2>4. Following(c, i) = {After(c, i)}
    BY <1>5, <1>6, <1>7, <2>1, <2>2, <2>3
  <2>5. After(c, i) \in Config
    BY <1>5, <1>6, <2>1, <2>3
  <2>6. QED
    BY <1>7, <2>4, <2>5 DEF GoesOn, Branches
<1>8. CASE op = "POP"
  <2> DEFINE x == Pop(s, 1)
  <2>1. x \in Seq(Nat)
    BY <1>3
  <2>2. Following(c, i) = { [[c EXCEPT !.eip = @ + Size(op)] EXCEPT !.stack = x] }
    BY <1>8 DEF Following
  <2>3. After(c, i) = Conf(e + 1, x, f)
    BY <1>8 DEF After
  <2> HIDE DEF x
  <2>4. Following(c, i) = {After(c, i)}
    BY <1>5, <1>6, <1>8, <2>1, <2>2, <2>3
  <2>5. After(c, i) \in Config
    BY <1>5, <1>6, <2>1, <2>3
  <2>6. QED
    BY <1>8, <2>4, <2>5 DEF GoesOn, Branches
<1>9. CASE op = "JUMPDEST"
  <2>1. Following(c, i) = { [c EXCEPT !.eip = @ + Size(op)] }
    BY <1>9 DEF Following
  <2>2. After(c, i) = Conf(e + 1, s, f)
    BY <1>9 DEF After
  <2>3. Following(c, i) = {After(c, i)}
    BY <1>4, <1>6, <1>9, <2>1, <2>2
  <2>4. After(c, i) \in Config
    BY <1>4, <1>6, <2>2
  <2>5. QED
    BY <1>9, <2>3, <2>4 DEF GoesOn, Branches
<1>10. CASE op = "ISZERO" /\ s # << >>
  <2> DEFINE n == [c EXCEPT !.eip = @ + Size(op)]
             x == [s EXCEPT ![1] = IF s[1] = 0 THEN 1 ELSE 0]
  <2>1. x \in Seq(Nat)
    BY <1>1, <1>2, <1>10
  <2>2. Following(c, i) = { [n EXCEPT !.stack[1] = IF @ = 0 THEN 1 ELSE 0] }
    BY <1>10 DEF Following
  <2>3. n = Conf(e + 1, s, f)
    BY <1>10, <1>4, <1>6
  <2> HIDE DEF n
  <2>4. [n EXCEPT !.stack[1] = IF @ = 0 THEN 1 ELSE 0] = Conf(e + 1, x, f)
    BY <2>3 DEF Conf
  <2>5. After(c, i) = Conf(e + 1, x, f)
    BY <1>10 DEF After
  <2> HIDE DEF x
  <2>6. After(c, i) \in Config
    BY <1>5, <1>6, <2>1, <2>5
  <2>7. QED
    BY <1>10, <2>2, <2>4, <2>5, <2>6 DEF GoesOn, Branches
<1>11. CASE op = "JUMP" /\ s # << >>
  <2> DEFINE x == Pop(s, 1)
             t == s[1]
  <2>1. x \in Seq(Nat) /\ t \in Nat
    BY <1>2, <1>3, <1>11
  <2>2. Following(c, i) = { [c EXCEPT !.eip = t, !.stack = x] }
    BY <1>11 DEF Following
  <2>3. After(c, i) = Conf(t, x, f)
    BY <1>11 DEF After
  <2> HIDE DEF x, t
  <2>4. [c EXCEPT !.eip = t, !.stack = x] = Conf(t, x, f)
    BY <2>1, ConfJump
  <2>5. After(c, i) \in Config
    BY <1>1, <2>1, <2>3, ConfFacts
  <2>6. QED
    BY <1>11, <2>2, <2>3, <2>4, <2>5 DEF GoesOn, Branches
<1>12. CASE op = "JUMPI" /\ Len(s) >= 2
  <2>1. Following(c, i) =
          { [eip |-> IF taken THEN s[1] ELSE c.eip + 1, stack |-> Pop(s, 2),
             forced |-> c.forced + IF taken = (s[2] # 0) THEN 0 ELSE 1] :
              taken \in BOOLEAN }
    BY <1>12 DEF Following
  <2>2. Following(c, i) = { Branch(c, taken) : taken \in BOOLEAN }
    BY <2>1 DEF Branch, Conf
  <2>3. ASSUME NEW taken \in BOOLEAN PROVE Branch(c, taken) \in Config
    <3>1. (IF taken THEN s[1] ELSE e + 1) \in Nat
      BY <1>1, <1>2, <1>12
    <3>2. f + (IF taken = (s[2] # 0) THEN 0 ELSE 1) \in Nat
      BY <1>1
    <3>3. QED
      BY <1>3, <3>1, <3>2, ConfFacts DEF Branch
  <2>4. QED
    BY <1>12, <2>2, <2>3 DEF GoesOn, Branches
<1>13. CASE /\ ~(op \in {"PUSH12", "POP", "JUMPDEST"})
            /\ ~(op = "ISZERO" /\ s # << >>) /\ ~(op = "JUMP" /\ s # << >>)
            /\ ~(op = "JUMPI" /\ Len(s) >= 2)
  <2>1. Following(c, i) = {}
    BY <1>13 DEF Following
  <2>2. QED
    BY <1>13, <2>1 DEF GoesOn, Branches
<1>14. QED
  BY <1>7, <1>8, <1>9, <1>10, <1>11, <1>12, <1>13

\* More configurations have no fewer followers, and each is that of one of them.
LEMMA FollowersFacts ==
  /\ \A X, Y : X \subseteq Y => Followers(X) \subseteq Followers(Y)
  /\ \A X : \A d \in Followers(X) : \E c \in X : d \in Followers({c})
  /\ \A X : \A d \in Followers(X) : d.forced < MaxDepth
  /\ \A c : \A d \in Followers({c}) :
       \E i \in DOMAIN listing : listing[i].offset = c.eip /\ d \in Following(c, i)
  /\ \A c : \A i \in DOMAIN listing : \A d \in Following(c, i) :
       listing[i].offset = c.eip /\ d.forced < MaxDepth => d \in Followers({c})
  BY DEF Followers

LEMMA FollowersTyped ==
  ASSUME listing \in Seq(Instr), NEW C \in SUBSET Config
  PROVE  Followers(C) \subseteq Config
<1> SUFFICES ASSUME NEW d \in Followers(C) PROVE d \in Config
  OBVIOUS
<1>1. PICK c \in C : d \in Followers({c})
  BY FollowersFacts
<1>2. PICK i \in DOMAIN listing : d \in Following(c, i)
  BY <1>1, FollowersFacts
<1>3. c \in Config
  OBVIOUS
<1>4. CASE GoesOn(c, i)
  BY <1>2, <1>3, <1>4, FollowingCases
<1>5. CASE Branches(c, i)
  BY <1>2, <1>3, <1>5, FollowingCases
<1>6. QED
  BY <1>2, <1>3, <1>4, <1>5, FollowingCases

\* From(c) is one of the sets it is the least of.
LEMMA FromFacts ==
  ASSUME listing \in Seq(Instr), NEW c \in Config
  PROVE  /\ From(c) \subseteq Config /\ c \in From(c)
         /\ Followers(From(c)) \subseteq From(c)
         /\ \A C \in SUBSET Config :
              c \in C /\ Followers(C) \subseteq C => From(c) \subseteq C
<1>1. /\ From(c) \subseteq Config /\ c \in From(c)
      /\ \A C \in SUBSET Config :
           c \in C /\ Followers(C) \subseteq C => From(c) \subseteq C
  BY DEF From
<1>2. Followers(From(c)) \subseteq Config
  BY <1>1, FollowersTyped
<1>3. ASSUME NEW d \in Followers(From(c)), NEW C \in SUBSET Config,
             c \in C, Followers(C) \subseteq C
      PROVE  d \in C
  <2>1. From(c) \subseteq C
    BY <1>1, <1>3
  <2>2. Followers(From(c)) \subseteq Followers(C)
    BY <2>1, FollowersFacts
  <2>3. QED
    BY <1>3, <2>2
<1>4. Followers(From(c)) \subseteq From(c)
  BY <1>2, <1>3 DEF From
<1>5. QED
  BY <1>1, <1>4

\* What is reached from c is c itself or reached from what comes next.
LEMMA FromStep ==
  ASSUME listing \in Seq(Instr), NEW c \in Config, NEW d \in From(c)
  PROVE  d = c \/ \E e \in Followers({c}) : e \in Config /\ d \in From(e)
<1> DEFINE C == {c} \cup { x \in Config :
                             \E e \in Followers({c}) : e \in Config /\ x \in From(e) }
<1>1. C \in SUBSET Config /\ c \in C
  OBVIOUS
<1>2. Followers({c}) \subseteq Config
  BY FollowersTyped
<1>3. ASSUME NEW x \in Followers(C) PROVE x \in C
  <2> HIDE DEF C
  <2>1. PICK y \in C : x \in Followers({y})
    BY FollowersFacts
  <2>2. x \in Config
    BY <1>1, FollowersTyped
  <2>3. CASE y = c
    <3>1. x \in Followers({c}) /\ x \in From(x)
      BY <2>1, <2>2, <2>3, FromFacts
    <3>2. QED
      BY <2>2, <3>1 DEF C
  <2>4. CASE y # c
    <3>1. PICK e \in Followers({c}) : e \in Config /\ y \in From(e)
      BY <2>1, <2>4 DEF C
    <3>2. {y} \subseteq From(e)
      BY <3>1
    <3>3. Followers({y}) \subseteq Followers(From(e))
      BY <3>2, FollowersFacts
    <3>4. x \in From(e)
      BY <2>1, <3>1, <3>3, FromFacts
    <3>5. QED
      BY <2>2, <3>1, <3>4 DEF C
  <2>5. QED
    BY <2>3, <2>4
<1>4. Followers(C) \subseteq C
  BY <1>3
<1>5. From(c) \subseteq C
  <2> HIDE DEF C
  <2>1. QED
    BY <1>1, <1>4, FromFacts
<1>6. d \in C
  BY <1>5
<1>7. QED
  BY <1>6

-----------------------------------------------------------------------------
(***************************************************************************)
(* The search of the property: its first n steps.                          *)
(***************************************************************************)
SearchOf(n, reach) ==
  reach = [ k \in 0 .. n |->
              IF k = 0 THEN [all |-> {Start}, last |-> {Start}]
              ELSE LET r    == reach[k - 1]
                       last == Followers(r.last) \ r.all
                   IN  [all |-> r.all \cup last, last |-> last] ]

\* A set of numbers that is not empty has a least member.
LEMMA LeastNumber ==
  ASSUME NEW S \in SUBSET Nat, S # {}
  PROVE  \E n \in S : \A m \in S : ~(m < n)
<1>1. IsWellFoundedOn(OpToRel(<, Nat), Nat)
  BY NatLessThanWellFounded
<1>2. PICK n \in S : \A m \in S : ~(<< m, n >> \in OpToRel(<, Nat))
  BY <1>1, WFMin
<1>3. \A m \in S : m < n => << m, n >> \in OpToRel(<, Nat)
  BY DEF OpToRel
<1>4. QED
  BY <1>2, <1>3

Found(r) ==
  LET last == Followers(r.last) \ r.all IN [all |-> r.all \cup last, last |-> last]

LEMMA SearchSteps ==
  ASSUME NEW n \in Nat, NEW f, SearchOf(n, f)
  PROVE  /\ DOMAIN f = 0 .. n
         /\ \A k \in 0 .. n : f[k] = IF k = 0 THEN [all |-> {Start}, last |-> {Start}]
                                               ELSE Found(f[k - 1])
<1>1. f = [ k \in 0 .. n |-> IF k = 0 THEN [all |-> {Start}, last |-> {Start}]
                                       ELSE Found(f[k - 1]) ]
  BY Zenon DEF SearchOf, Found
<1>2. QED
  BY <1>1, Zenon

\* The recursion has a solution: that for one step less, and one step more.
LEMMA SearchExists ==
  ASSUME NEW n \in Nat
  PROVE  \E f : SearchOf(n, f)
<1> DEFINE Bad == { k \in Nat : ~\E f : SearchOf(k, f) }
           First == [all |-> {Start}, last |-> {Start}]
<1>1. Bad = {}
  <2> SUFFICES ASSUME Bad # {} PROVE FALSE
    OBVIOUS
  <2>1. Bad \in SUBSET Nat
    OBVIOUS
  <2>2. PICK k \in Bad : \A m \in Bad : ~(m < k)
    BY <2>1, LeastNumber
  <2>3. \E f : SearchOf(k, f)
    <3>1. CASE k = 0
      <4> DEFINE f == [ i \in 0 .. 0 |-> First ]
      <4>1. f = [ i \in 0 .. 0 |-> IF i = 0 THEN First ELSE Found(f[i - 1]) ]
        <5> HIDE DEF First
        <5>1. \A i \in 0 .. 0 : i = 0
          OBVIOUS
        <5>2. QED
          BY <5>1
      <4> HIDE DEF f
      <4>2. SearchOf(0, f)
        BY <4>1, Zenon DEF SearchOf, Found, First
      <4>3. QED
        BY <3>1, <4>2
    <3>2. CASE k # 0
      <4>1. k - 1 \in Nat /\ k - 1 < k
        BY <2>1, <3>2
      <4>2. PICK g : SearchOf(k - 1, g)
        BY <2>2, <4>1
      <4>3. /\ DOMAIN g = 0 .. k - 1
            /\ \A i \in 0 .. k - 1 : g[i] = IF i = 0 THEN First ELSE Found(g[i - 1])
        BY <4>1, <4>2, SearchSteps
      <4> DEFINE f == [ i \in 0 .. k |-> IF i = k THEN Found(g[k - 1]) ELSE g[i] ]
      <4> HIDE DEF First
      <4>4. ASSUME NEW i \in 0 .. k
            PROVE  f[i] = IF i = 0 THEN First ELSE Found(f[i - 1])
        <5>1. CASE i = k
          <6>1. i # 0 /\ i - 1 \in 0 .. k /\ i - 1 # k /\ i - 1 = k - 1
            BY <3>2, <4>1, <5>1
          <6>2. f[i] = Found(g[k - 1]) /\ f[i - 1] = g[k - 1]
            BY <5>1, <6>1
          <6> HIDE DEF f
          <6>3. QED
            BY <6>1, <6>2
        <5>2. CASE i # k
          <6>1. i \in 0 .. k - 1 /\ (i # 0 => i - 1 \in 0 .. k /\ i - 1 # k)
            BY <4>1, <5>2
          <6>2. f[i] = g[i] /\ (i # 0 => f[i - 1] = g[i - 1])
            BY <5>2, <6>1
          <6> HIDE DEF f
          <6>3. QED
            BY <4>3, <6>1, <6>2
        <5>3. QED
          BY <5>1, <5>2
      <4>5. f = [ i \in 0 .. k |-> f[i] ]
        OBVIOUS
      <4> HIDE DEF f
      <4>6. [ i \in 0 .. k |-> f[i] ] =
              [ i \in 0 .. k |-> IF i = 0 THEN First ELSE Found(f[i - 1]) ]
        BY <4>4, Zenon
      <4>7. f = [ i \in 0 .. k |-> IF i = 0 THEN First ELSE Found(f[i - 1]) ]
        BY <4>5, <4>6, Zenon
      <4>8. SearchOf(k, f)
        BY <4>7, Zenon DEF SearchOf, Found, First
      <4>9. QED
        BY <4>8
    <3>3. QED
      BY <3>1, <3>2
  <2>4. QED
    BY <2>2, <2>3
<1>2. QED
  BY <1>1

LEMMA StartTyped ==
  ASSUME entry \in Nat
  PROVE  Start \in Config
<1>1. << >> \in Seq(Nat)
  OBVIOUS
<1>2. QED
  BY <1>1 DEF Start, Config

\* However far it looks, the search finds the start and nothing that no path
\* leads to.
LEMMA SearchSound ==
  ASSUME listing \in Seq(Instr), entry \in Nat
  PROVE  Start \in Reachable /\ Reachable \subseteq From(Start)
<1> DEFINE N == MaxDepth * Len(listing)
           g == CHOOSE f : SearchOf(N, f)
<1>1. N \in Nat
  <2>1. MaxDepth \in Nat /\ Len(listing) \in Nat
    BY DepthAssumption
  <2>2. \A a, b \in Nat : a * b \in Nat
    OBVIOUS
  <2>3. QED
    BY <2>1, <2>2
<1>2. Reachable = g[N].all
  BY Zenon DEF Reachable, SearchOf
<1>3. SearchOf(N, g)
  <2> HIDE DEF N
  <2>1. \E f : SearchOf(N, f)
    BY <1>1, SearchExists
  <2>2. QED
    BY <2>1, Zenon
<1> HIDE DEF N, g
<1>4. \A k \in 0 .. N : g[k] = IF k = 0 THEN [all |-> {Start}, last |-> {Start}]
                                        ELSE Found(g[k - 1])
  BY <1>1, <1>3, SearchSteps
<1> DEFINE Sound(r) == /\ Start \in r.all /\ r.all \subseteq From(Start)
                       /\ r.last \subseteq From(Start)
           Bad == { k \in 0 .. N : ~Sound(g[k]) }
<1>5. Bad = {}
  <2> SUFFICES ASSUME Bad # {} PROVE FALSE
    OBVIOUS
  <2>1. Bad \in SUBSET Nat
    BY <1>1
  <2>2. PICK k \in Bad : \A m \in Bad : ~(m < k)
    BY <2>1, LeastNumber
  <2>3. CASE k = 0
    <3>1. g[k].all = {Start} /\ g[k].last = {Start}
      BY <1>4, <2>2, <2>3
    <3>2. Start \in From(Start)
      BY StartTyped, FromFacts
    <3>3. QED
      BY <2>2, <3>1, <3>2
  <2>4. CASE k # 0
    <3>1. k \in 0 .. N /\ k - 1 \in 0 .. N /\ k - 1 < k
      BY <1>1, <2>2, <2>4
    <3>2. Sound(g[k - 1])
      BY <2>2, <3>1
    <3> DEFINE r == g[k - 1]
               last == Followers(r.last) \ r.all
    <3>3. g[k].all = r.all \cup last /\ g[k].last = last
      <4>1. g[k] = Found(r)
        BY <1>4, <2>4, <3>1
      <4> HIDE DEF r
      <4>2. Found(r).all = r.all \cup last /\ Found(r).last = last
        BY DEF Found
      <4>3. QED
        BY <4>1, <4>2
    <3>4. Followers(r.last) \subseteq From(Start)
      <4>1. Followers(r.last) \subseteq Followers(From(Start))
        BY <3>2, FollowersFacts
      <4>2. QED
        BY <4>1, StartTyped, FromFacts
    <3> HIDE DEF r
    <3>5. Sound(r)
      BY <3>2 DEF r
    <3>6. Sound(g[k])
      BY <3>3, <3>4, <3>5
    <3>7. QED
      BY <2>2, <3>6
  <2>5. QED
    BY <2>3, <2>4
<1>6. Sound(g[N])
  <2>1. N \in 0 .. N
    BY <1>1
  <2>2. QED
    BY <1>5, <2>1
<1>7. QED
  BY <1>2, <1>6

-----------------------------------------------------------------------------
(***************************************************************************)
(* Each machine on a level that executes anything stands for the           *)
(* configuration it is in, with one outcome forced for each level above    *)
(* the first.                                                              *)
(***************************************************************************)
Live(m) == m.m_depthLevel <= MaxDepth

AtConfig(m) == Conf(m.m_eip, m.m_stack, m.m_depthLevel - 1)

\* Configuration c is reached from where one of the machines is.
Ahead(ms, c) ==
  \E k \in 1 .. Len(ms) : Live(ms[k]) /\ c \in From(AtConfig(ms[k]))

OneEach ==
  \A i \in DOMAIN listing :
    /\ listing[i].offset < codeSize
    /\ \A j \in DOMAIN listing : listing[j].offset = listing[i].offset => i = j

\* Nothing is executed that no path leads to, and what a path leads to has been
\* executed or lies ahead of a machine.
NothingElse ==
  /\ executed \subseteq From(Start)
  /\ \A k \in 1 .. Len(machines) :
       Live(machines[k]) => AtConfig(machines[k]) \in From(Start)

NothingLost ==
  \A c \in From(Start) :
    c.eip \in OffsetsOf(listing) => c \in executed \/ Ahead(machines, c)

SeenInv ==
  /\ DeepInv /\ OneEach
  /\ status \in {"run", "done"} => NothingElse /\ NothingLost

\* The n machines in the place of the innermost one are where the code leads
\* from there, and they are all of it.
TookPlace(n) ==
  /\ Len(machines') = n + Len(machines) - 1
  /\ \A k \in 1 .. Len(machines) - 1 : machines'[n + k] = machines[k + 1]
  /\ n # 0 => Live(Top)
  /\ \A k \in 1 .. n : Live(machines'[k]) =>
       AtConfig(machines'[k]) \in {AtConfig(Top)} \cup Followers({AtConfig(Top)})
  /\ Live(Top) => \A d \in Followers({AtConfig(Top)}) :
       \E k \in 1 .. n : Live(machines'[k]) /\ AtConfig(machines'[k]) = d

\* What the innermost machine executed is in the history, and nothing else new.
Recorded ==
  /\ executed \subseteq executed'
  /\ \A c \in executed' : c \in executed \/ (Live(Top) /\ c = AtConfig(Top))
  /\ Live(Top) /\ Top.m_eip \in OffsetsOf(listing) => AtConfig(Top) \in executed'

LEMMA SameFrom ==
  ASSUME UNCHANGED << listing, entry >>
  PROVE  /\ \A C : Followers(C)' = Followers(C)
         /\ Start' = Start
         /\ \A c : From(c)' = From(c)
         /\ OffsetsOf(listing)' = OffsetsOf(listing)
<1>1. \A c, i : Following(c, i)' = Following(c, i)
  BY DEF Following
<1>2. \A C : Followers(C)' = Followers(C)
  BY <1>1 DEF Followers
<1>3. QED
  BY <1>2 DEF From, OffsetsOf, Start

LEMMA AtConfigTyped ==
  ASSUME NEW m \in Machine, m.m_depthLevel >= 1
  PROVE  /\ AtConfig(m) \in Config /\ AtConfig(m).eip = m.m_eip
         /\ AtConfig(m).stack = m.m_stack
         /\ AtConfig(m).forced = m.m_depthLevel - 1
<1>1. /\ m.m_eip \in Nat /\ m.m_stack \in Seq(Nat)
      /\ m.m_depthLevel - 1 \in Nat
  BY DEF Machine
<1>2. QED
  BY <1>1, ConfFacts DEF AtConfig

\* When machines take the place of another like that, nothing is lost.
LEMMA WalkOn ==
  ASSUME SeenInv, status = "run", UNCHANGED << listing, entry >>, NEW n \in Nat,
         TookPlace(n), Recorded
  PROVE  (NothingElse /\ NothingLost)'
<1> DEFINE c == AtConfig(Top)
<1>1. /\ NothingElse /\ NothingLost /\ listing \in Seq(Instr) /\ entry \in Nat
      /\ machines \in Seq(Machine) /\ machines # << >>
      /\ \A k \in 1 .. Len(machines) : machines[k].m_depthLevel = Len(machines) - k + 1
  BY DEF SeenInv, DeepInv, Deep
<1>2. /\ Len(machines) \in Nat /\ Len(machines) >= 1 /\ Top = machines[1]
      /\ Top \in Machine
  BY <1>1, TailFacts DEF Top
<1>3. c \in Config /\ c.eip = Top.m_eip
  <2>1. Top.m_depthLevel >= 1
    BY <1>1, <1>2
  <2>2. QED
    BY <1>2, <2>1, AtConfigTyped
<1>4. From(c) \subseteq Config /\ c \in From(c) /\ Followers(From(c)) \subseteq From(c)
  BY <1>1, <1>3, FromFacts
<1>5. Live(Top) => c \in From(Start)
  BY <1>1, <1>2 DEF NothingElse
<1>6. Live(Top) => Followers({c}) \subseteq From(Start)
  <2> SUFFICES ASSUME Live(Top) PROVE Followers({c}) \subseteq From(Start)
    OBVIOUS
  <2> HIDE DEF c
  <2>1. {c} \subseteq From(Start)
    BY <1>5
  <2>2. Followers({c}) \subseteq Followers(From(Start))
    BY <2>1, FollowersFacts
  <2>3. QED
    BY <1>1, <2>2, StartTyped, FromFacts
<1>7. /\ \A x : From(x)' = From(x)
      /\ Start' = Start
      /\ OffsetsOf(listing)' = OffsetsOf(listing)
  BY SameFrom
<1> HIDE DEF c
<1>8. executed' \subseteq From(Start)
  BY <1>1, <1>3, <1>5 DEF Recorded, NothingElse, c
<1>9. ASSUME NEW k \in 1 .. Len(machines'), Live(machines'[k])
      PROVE  AtConfig(machines'[k]) \in From(Start)
  <2>1. CASE k \in 1 .. n
    <3>1. Live(Top)
      BY <2>1 DEF TookPlace
    <3>2. AtConfig(machines'[k]) \in {c} \cup Followers({c})
      BY <1>9, <2>1 DEF TookPlace, c
    <3>3. QED
      BY <1>5, <1>6, <3>1, <3>2
  <2>2. CASE k \notin 1 .. n
    <3> DEFINE j == k - n
    <3>1. j \in 1 .. Len(machines) - 1 /\ n + j = k /\ j + 1 \in 1 .. Len(machines)
      BY <1>2, <2>2 DEF TookPlace
    <3>2. machines'[k] = machines[j + 1]
      <4> HIDE DEF j
      <4>1. machines'[n + j] = machines[j + 1]
        BY <3>1 DEF TookPlace
      <4>2. QED
        BY <3>1, <4>1
    <3>3. QED
      BY <1>1, <1>9, <3>1, <3>2 DEF NothingElse
  <2>3. QED
    BY <2>1, <2>2
<1>10. ASSUME NEW d, Ahead(machines, d), d.eip \in OffsetsOf(listing), d \notin executed'
       PROVE  \E k \in 1 .. Len(machines') :
                Live(machines'[k]) /\ d \in From(AtConfig(machines'[k]))
  <2>2. PICK k \in 1 .. Len(machines) :
          Live(machines[k]) /\ d \in From(AtConfig(machines[k]))
    BY <1>10 DEF Ahead
  <2>3. CASE k = 1
    <3>1. Live(Top) /\ d \in From(c)
      BY <1>2, <2>2, <2>3 DEF c
    <3>2. d # c
      BY <1>3, <1>10, <2>2, <3>1 DEF Recorded, c
    <3>3. PICK e \in Followers({c}) : e \in Config /\ d \in From(e)
      BY <1>1, <1>3, <3>1, <3>2, FromStep
    <3>4. PICK j \in 1 .. n : Live(machines'[j]) /\ AtConfig(machines'[j]) = e
      BY <3>1, <3>3 DEF TookPlace, c
    <3>5. j \in 1 .. Len(machines')
      BY <1>2, <3>4 DEF TookPlace
    <3>6. QED
      BY <2>2, <3>3, <3>4, <3>5
  <2>4. CASE k # 1
    <3> DEFINE j == k - 1
    <3>1. j \in 1 .. Len(machines) - 1 /\ j + 1 = k
      BY <1>2, <2>4
    <3>2. n + j \in 1 .. Len(machines')
      BY <1>2, <3>1 DEF TookPlace
    <3>3. machines'[n + j] = machines[k]
      <4> HIDE DEF j
      <4>1. machines'[n + j] = machines[j + 1]
        BY <3>1 DEF TookPlace
      <4>2. QED
        BY <3>1, <4>1
    <3>4. QED
      BY <2>2, <3>2, <3>3
  <2>5. QED
    BY <2>3, <2>4
<1>11. NothingElse'
  <2>1. \A k \in 1 .. Len(machines') :
          Live(machines'[k]) => AtConfig(machines'[k]) \in From(Start)
    BY <1>9
  <2>2. QED
    BY <1>7, <1>8, <2>1 DEF NothingElse, Live, AtConfig, Conf
<1>12. NothingLost'
  <2> SUFFICES ASSUME NEW x \in From(Start), x.eip \in OffsetsOf(listing),
                      x \notin executed'
               PROVE  Ahead(machines, x)'
    BY <1>7 DEF NothingLost
  <2>1. Ahead(machines, x)
    BY <1>1 DEF Recorded, NothingLost
  <2>2. PICK k \in 1 .. Len(machines') :
          Live(machines'[k]) /\ x \in From(AtConfig(machines'[k]))
    BY <1>10, <2>1
  <2>3. QED
    BY <1>7, <2>2 DEF Ahead, Live, AtConfig
<1>13. QED
  BY <1>11, <1>12

-----------------------------------------------------------------------------
\* The machine that executes an instruction, as a configuration.
LEMMA TopAtConfig ==
  ASSUME DeepInv, status = "run", ~Ended
  PROVE  /\ Live(Top) /\ Top \in Machine /\ AtConfig(Top) \in Config
         /\ AtConfig(Top).eip = Top.m_eip /\ AtConfig(Top).stack = Top.m_stack
         /\ AtConfig(Top).forced = Top.m_depthLevel - 1
         /\ Top.m_depthLevel - 1 \in Nat /\ Top.m_depthLevel - 1 < MaxDepth
         /\ Top.m_eip \in Nat /\ Top.m_stack \in Seq(Nat)
         /\ Top.m_depthLevel \in Nat
<1>1. /\ Top \in Machine /\ Top.m_depthLevel = Len(machines)
      /\ Len(machines) \in 1 .. MaxDepth
  BY TopLevel
<1>2. Top.m_depthLevel >= 1 /\ Live(Top) /\ Top.m_depthLevel - 1 \in Nat
      /\ Top.m_depthLevel - 1 < MaxDepth
  BY <1>1, DepthAssumption DEF Live
<1>3. Top.m_eip \in Nat /\ Top.m_stack \in Seq(Nat) /\ Top.m_depthLevel \in Nat
  BY <1>1 DEF Machine
<1>4. QED
  BY <1>1, <1>2, <1>3, AtConfigTyped

LEMMA OneFollowing ==
  ASSUME OneEach, NEW c, NEW i \in DOMAIN listing, listing[i].offset = c.eip
  PROVE  Followers({c}) = { d \in Following(c, i) : d.forced < MaxDepth }
<1>1. \A j \in DOMAIN listing : listing[j].offset = c.eip => i = j
  BY DEF OneEach
<1>2. QED
  BY <1>1, FollowersFacts

LEMMA GoOnTakesPlace ==
  ASSUME SeenInv, status = "run", ~Ended,
         NEW i \in DOMAIN listing, listing[i].offset = Top.m_eip,
         NEW eip \in Nat, NEW s \in Seq(Nat), GoOn(eip, s),
         \/ Following(AtConfig(Top), i) = {Conf(eip, s, Top.m_depthLevel - 1)}
         \/ /\ Following(AtConfig(Top), i) = {}
            /\ Conf(eip, s, Top.m_depthLevel - 1) = AtConfig(Top)
  PROVE  TookPlace(1)
<1> DEFINE c == AtConfig(Top)
           d == Conf(eip, s, Top.m_depthLevel - 1)
           m == Behind(eip, s)
           t == Tail(machines)
<1>1. /\ Live(Top) /\ Top \in Machine /\ c.eip = Top.m_eip
      /\ Top.m_depthLevel - 1 \in Nat /\ Top.m_depthLevel - 1 < MaxDepth
  BY TopAtConfig DEF SeenInv
<1>2. d.forced < MaxDepth
  BY <1>1, ConfFacts
<1>3. /\ m \in Machine /\ m.m_eip = eip /\ m.m_stack = s
      /\ m.m_depthLevel = Top.m_depthLevel
  BY <1>1, BehindFacts
<1>4. Live(m) /\ AtConfig(m) = d
  BY <1>1, <1>3 DEF Live, AtConfig
<1>5. Followers({c}) = { x \in Following(c, i) : x.forced < MaxDepth }
  BY <1>1, OneFollowing DEF SeenInv
<1>6. d \in {c} \cup Followers({c}) /\ \A x \in Followers({c}) : x = d
  BY <1>2, <1>5
<1>7. machines \in Seq(Machine) /\ machines # << >>
  BY DEF SeenInv, DeepInv, Deep
<1>8. /\ t \in Seq(Machine) /\ Len(t) = Len(machines) - 1 /\ Len(machines) \in Nat
      /\ \A k \in 1 .. Len(machines) - 1 : t[k] = machines[k + 1]
  BY <1>7, TailFacts
<1>9. machines' = << m >> \o t
  BY DEF GoOn
<1> HIDE DEF m, t, c, d
<1>10. /\ Len(machines') = Len(t) + 1 /\ machines'[1] = m
       /\ \A k \in 1 .. Len(t) : machines'[k + 1] = t[k]
  BY <1>3, <1>8, <1>9, PushFacts
<1>11. /\ Len(machines') = 1 + Len(machines) - 1
       /\ \A k \in 1 .. Len(machines) - 1 : machines'[1 + k] = machines[k + 1]
  <2>1. Len(machines') = 1 + Len(machines) - 1
    BY <1>8, <1>10
  <2>2. ASSUME NEW k \in 1 .. Len(machines) - 1 PROVE machines'[1 + k] = machines[k + 1]
    <3>1. k \in 1 .. Len(t) /\ 1 + k = k + 1
      BY <1>8
    <3>2. QED
      BY <1>8, <1>10, <3>1
  <2>3. QED
    BY <2>1, <2>2
<1>12. \A k \in 1 .. 1 : k = 1
  OBVIOUS
<1>13. \A k \in 1 .. 1 : Live(machines'[k]) =>
         AtConfig(machines'[k]) \in {c} \cup Followers({c})
  BY <1>4, <1>6, <1>10, <1>12
<1>14. \A x \in Followers({c}) :
         \E k \in 1 .. 1 : Live(machines'[k]) /\ AtConfig(machines'[k]) = x
  <2>1. 1 \in 1 .. 1
    OBVIOUS
  <2>2. QED
    BY <1>4, <1>6, <1>10, <2>1
<1>15. QED
  BY <1>1, <1>11, <1>13, <1>14 DEF TookPlace, c

LEMMA ForkTakesPlace ==
  ASSUME SeenInv, status = "run", ~Ended,
         NEW i \in DOMAIN listing, listing[i].offset = Top.m_eip,
         NEW other \in Nat, NEW own \in Nat, Fork(other, own),
         NEW rest \in Seq(Nat), rest = Pop(Top.m_stack, 2),
         Following(AtConfig(Top), i) =
           { Conf(own, rest, Top.m_depthLevel - 1), Conf(other, rest, Top.m_depthLevel) }
  PROVE  TookPlace(2)
<1> DEFINE c == AtConfig(Top)
           d == Conf(own, rest, Top.m_depthLevel - 1)
           e == Conf(other, rest, Top.m_depthLevel)
           m == Behind(own, rest)
           f == Forked(other, rest)
           t == Tail(machines)
<1>1. /\ Live(Top) /\ Top \in Machine /\ c.eip = Top.m_eip
      /\ Top.m_depthLevel - 1 \in Nat /\ Top.m_depthLevel - 1 < MaxDepth
      /\ Top.m_depthLevel \in Nat
  BY TopAtConfig DEF SeenInv
<1>2. d.forced < MaxDepth /\ e.forced = Top.m_depthLevel
  BY <1>1, ConfFacts
<1>3. /\ m \in Machine /\ m.m_eip = own /\ m.m_stack = rest
      /\ m.m_depthLevel = Top.m_depthLevel
      /\ f \in Machine /\ f.m_eip = other /\ f.m_stack = rest
      /\ f.m_depthLevel = Top.m_depthLevel + 1
  BY <1>1, BehindFacts, ForkedFacts
<1>4. /\ Live(m) /\ AtConfig(m) = d
      /\ Live(f) <=> e.forced < MaxDepth
      /\ AtConfig(f) = e
  <2>1. Live(m) /\ AtConfig(m) = d
    BY <1>1, <1>3 DEF Live, AtConfig
  <2>2. Live(f) <=> e.forced < MaxDepth
    BY <1>1, <1>2, <1>3, DepthAssumption DEF Live
  <2> HIDE DEF f
  <2>3. f.m_depthLevel - 1 = Top.m_depthLevel
    BY <1>1, <1>3
  <2>4. AtConfig(f) = e
    BY <1>3, <2>3 DEF AtConfig
  <2>5. QED
    BY <2>1, <2>2, <2>4
<1>5. Followers({c}) = { x \in Following(c, i) : x.forced < MaxDepth }
  BY <1>1, OneFollowing DEF SeenInv
<1>6. /\ d \in Followers({c}) /\ (e.forced < MaxDepth => e \in Followers({c}))
      /\ \A x \in Followers({c}) : x = d \/ (x = e /\ e.forced < MaxDepth)
  BY <1>2, <1>5
<1>7. machines \in Seq(Machine) /\ machines # << >>
  BY DEF SeenInv, DeepInv, Deep
<1>8. /\ t \in Seq(Machine) /\ Len(t) = Len(machines) - 1 /\ Len(machines) \in Nat
      /\ \A k \in 1 .. Len(machines) - 1 : t[k] = machines[k + 1]
  BY <1>7, TailFacts
<1>9. machines' = << f, m >> \o t
  BY DEF Fork, Forked
<1> HIDE DEF m, f, t, c, d, e
<1>10. /\ Len(machines') = Len(t) + 2 /\ machines'[1] = f /\ machines'[2] = m
       /\ \A k \in 1 .. Len(t) : machines'[k + 2] = t[k]
  BY <1>3, <1>8, <1>9, PushTwoFacts
<1>11. /\ Len(machines') = 2 + Len(machines) - 1
       /\ \A k \in 1 .. Len(machines) - 1 : machines'[2 + k] = machines[k + 1]
  <2>1. Len(machines') = 2 + Len(machines) - 1
    BY <1>8, <1>10
  <2>2. ASSUME NEW k \in 1 .. Len(machines) - 1 PROVE machines'[2 + k] = machines[k + 1]
    <3>1. k \in 1 .. Len(t) /\ 2 + k = k + 2
      BY <1>8
    <3>2. QED
      BY <1>8, <1>10, <3>1
  <2>3. QED
    BY <2>1, <2>2
<1>12. (\A k \in 1 .. 2 : k = 1 \/ k = 2) /\ 1 \in 1 .. 2 /\ 2 \in 1 .. 2
  OBVIOUS
<1>13. \A k \in 1 .. 2 : Live(machines'[k]) =>
         AtConfig(machines'[k]) \in {c} \cup Followers({c})
  BY <1>4, <1>6, <1>10, <1>12
<1>14. \A x \in Followers({c}) :
         \E k \in 1 .. 2 : Live(machines'[k]) /\ AtConfig(machines'[k]) = x
  BY <1>4, <1>6, <1>10, <1>12
<1>15. QED
  BY <1>1, <1>11, <1>13, <1>14 DEF TookPlace, c

LEMMA ReturnTakesPlace ==
  ASSUME SeenInv, status = "run", Return,
         Live(Top) => Followers({AtConfig(Top)}) = {}
  PROVE  TookPlace(0)
<1>1. machines \in Seq(Machine) /\ machines # << >>
  BY DEF SeenInv, DeepInv, Deep
<1>2. /\ Len(machines) \in Nat /\ Len(machines') = Len(machines) - 1
      /\ \A k \in 1 .. Len(machines) - 1 : machines'[k] = machines[k + 1]
  BY <1>1, TailFacts DEF Return
<1>3. \A k \in 1 .. Len(machines) - 1 : 0 + k = k
  BY <1>2
<1>4. /\ Len(machines') = 0 + Len(machines) - 1
      /\ \A k \in 1 .. Len(machines) - 1 : machines'[0 + k] = machines[k + 1]
  BY <1>2, <1>3
<1>5. \A k \in 1 .. 0 : FALSE
  OBVIOUS
<1>6. QED
  BY <1>4, <1>5 DEF TookPlace

-----------------------------------------------------------------------------
\* The whole stack is what is left when nothing is popped.
LEMMA PopNone ==
  ASSUME NEW s \in Seq(Nat)
  PROVE  Pop(s, 0) = s /\ (s = << >> => Pop(s, 1) = s)
<1>1. Pop(s, 0) = s
  <2>1. Len(s) \in Nat
    OBVIOUS
  <2>2. SubSeq(s, 1, Len(s)) = s
    BY SubSeqFull
  <2>3. QED
    BY <2>2 DEF Pop
<1>2. s = << >> => Pop(s, 1) = s
  BY DEF Pop
<1>3. QED
  BY <1>1, <1>2

\* What the machine does is what the configuration does, but that a JUMP
\* without a register repeats itself.
LEMMA GoesOnAlike ==
  ASSUME DeepInv, ExecPush \/ ExecDiscard \/ ExecIsZero \/ ExecJump
  PROVE  \E eip \in Nat, s \in Seq(Nat), i \in DOMAIN listing :
           /\ GoOn(eip, s) /\ Exec(listing[i].op, i)
           /\ \/ Following(AtConfig(Top), i) = {Conf(eip, s, Top.m_depthLevel - 1)}
              \/ /\ Following(AtConfig(Top), i) = {}
                 /\ Conf(eip, s, Top.m_depthLevel - 1) = AtConfig(Top)
<1> DEFINE c == AtConfig(Top)
           f == Top.m_depthLevel - 1
<1>0. listing \in Seq(Instr)
  BY DEF DeepInv
<1>1. status = "run" /\ ~Ended
  BY DEF ExecPush, ExecDiscard, ExecIsZero, ExecJump, Exec
<1>2. /\ c \in Config /\ c.eip = Top.m_eip /\ c.stack = Top.m_stack /\ c.forced = f
      /\ Top.m_eip \in Nat /\ Top.m_stack \in Seq(Nat)
      /\ Top.m_eip + 1 \in Nat /\ Top.m_eip + 2 \in Nat
  BY <1>1, TopAtConfig
<1> HIDE DEF c, f
<1>3. CASE ExecPush
  <2>1. PICK i \in DOMAIN listing :
          /\ Exec("PUSH12", i)
          /\ GoOn(Top.m_eip + Size("PUSH12"), << listing[i].data >> \o Top.m_stack)
    BY <1>3 DEF ExecPush
  <2>2. listing[i].op = "PUSH12" /\ listing[i].data \in Nat
    BY <1>0, <2>1, ListingFacts DEF Exec
  <2> DEFINE s == << listing[i].data >> \o Top.m_stack
  <2>3. s \in Seq(Nat)
    BY <1>2, <2>2, PushFacts
  <2>4. Top.m_eip + Size("PUSH12") = Top.m_eip + 2
    BY DEF Size
  <2>5. GoesOn(c, i) /\ After(c, i) = Conf(Top.m_eip + 2, s, f)
    BY <1>2, <2>2 DEF GoesOn, After
  <2>6. Following(c, i) = {Conf(Top.m_eip + 2, s, f)}
    BY <1>0, <1>2, <2>5, FollowingCases
  <2> HIDE DEF s
  <2>7. GoOn(Top.m_eip + 2, s)
    BY <2>1, <2>4 DEF s
  <2>8. QED
    BY <1>2, <2>1, <2>2, <2>3, <2>6, <2>7 DEF c, f
<1>4. CASE ExecDiscard
  <2>1. PICK i \in DOMAIN listing, op \in {"POP", "JUMPDEST"} :
          /\ Exec(op, i)
          /\ GoOn(Top.m_eip + 1, Pop(Top.m_stack, IF op = "POP" THEN 1 ELSE 0))
    BY <1>4 DEF ExecDiscard
  <2>2. listing[i].op = op
    BY <2>1 DEF Exec
  <2> DEFINE s == Pop(Top.m_stack, IF op = "POP" THEN 1 ELSE 0)
  <2>3. s \in Seq(Nat)
    BY <1>2, PopFacts
  <2>4. GoesOn(c, i)
    BY <2>1, <2>2 DEF GoesOn
  <2>5. After(c, i) = Conf(Top.m_eip + 1, s, f)
    <3>1. CASE op = "POP"
      BY <1>2, <2>2, <3>1 DEF After
    <3>2. CASE op = "JUMPDEST"
      <4>1. s = Top.m_stack
        BY <1>2, <3>2, PopNone
      <4>2. After(c, i) = Conf(c.eip + 1, c.stack, c.forced)
        BY <2>2, <3>2 DEF After
      <4>3. QED
        BY <1>2, <4>1, <4>2
    <3>3. QED
      BY <2>1, <3>1, <3>2
  <2>6. Following(c, i) = {Conf(Top.m_eip + 1, s, f)}
    BY <1>0, <1>2, <2>4, <2>5, FollowingCases
  <2> HIDE DEF s
  <2>7. GoOn(Top.m_eip + 1, s)
    BY <2>1 DEF s
  <2>8. QED
    BY <1>2, <2>1, <2>2, <2>3, <2>6, <2>7 DEF c, f
<1>5. CASE ExecIsZero
  <2> DEFINE s == [Top.m_stack EXCEPT ![1] = IF Top.m_stack[1] = 0 THEN 1 ELSE 0]
  <2>1. PICK i \in DOMAIN listing :
          /\ Exec("ISZERO", i) /\ Top.m_stack # << >> /\ GoOn(Top.m_eip + 1, s)
    BY <1>5 DEF ExecIsZero
  <2>2. listing[i].op = "ISZERO"
    BY <2>1 DEF Exec
  <2>3. s \in Seq(Nat)
    BY <1>2, <2>1, SMT
  <2>4. GoesOn(c, i) /\ After(c, i) = Conf(Top.m_eip + 1, s, f)
    BY <1>2, <2>1, <2>2 DEF GoesOn, After
  <2>5. Following(c, i) = {Conf(Top.m_eip + 1, s, f)}
    BY <1>0, <1>2, <2>4, FollowingCases
  <2> HIDE DEF s
  <2>6. QED
    BY <1>2, <2>1, <2>2, <2>3, <2>5 DEF c, f
<1>6. CASE ExecJump
  <2> DEFINE e == IF Top.m_stack = << >> THEN Top.m_eip ELSE Top.m_stack[1]
             s == Pop(Top.m_stack, 1)
  <2>1. PICK i \in DOMAIN listing : Exec("JUMP", i) /\ GoOn(e, s)
    BY <1>6 DEF ExecJump
  <2>2. listing[i].op = "JUMP"
    BY <2>1 DEF Exec
  <2>3. e \in Nat /\ s \in Seq(Nat)
    <3>1. Top.m_stack # << >> => Top.m_stack[1] \in Nat
      BY <1>2, TailFacts
    <3>2. e \in Nat
      BY <1>2, <3>1
    <3>3. s \in Seq(Nat)
      BY <1>2, PopFacts
    <3>4. QED
      BY <3>2, <3>3
  <2>4. CASE Top.m_stack = << >>
    <3>1. s = Top.m_stack /\ e = Top.m_eip
      BY <1>2, <2>4, PopNone
    <3>2. Following(c, i) = {}
      <4>1. ~GoesOn(c, i) /\ ~Branches(c, i)
        BY <1>2, <2>2, <2>4 DEF GoesOn, Branches
      <4>2. QED
        BY <1>0, <1>2, <4>1, FollowingCases
    <3> HIDE DEF s, e
    <3>3. Conf(e, s, f) = c
      BY <3>1 DEF c, f, AtConfig
    <3>4. QED
      BY <2>1, <2>2, <2>3, <3>2, <3>3 DEF c, f
  <2>5. CASE Top.m_stack # << >>
    <3>1. GoesOn(c, i) /\ After(c, i) = Conf(e, s, f)
      BY <1>2, <2>2, <2>5 DEF GoesOn, After
    <3>2. Following(c, i) = {Conf(e, s, f)}
      BY <1>0, <1>2, <3>1, FollowingCases
    <3> HIDE DEF s, e
    <3>3. QED
      BY <2>1, <2>2, <2>3, <3>2 DEF c, f
  <2>6. QED
    BY <2>4, <2>5
<1>7. QED
  BY <1>3, <1>4, <1>5, <1>6

LEMMA ForksAlike ==
  ASSUME DeepInv, ExecJumpi
  PROVE  \E other, own \in Nat, i \in DOMAIN listing :
           /\ Fork(other, own) /\ Exec("JUMPI", i)
           /\ Following(AtConfig(Top), i) =
                { Conf(own, Pop(Top.m_stack, 2), Top.m_depthLevel - 1),
                  Conf(other, Pop(Top.m_stack, 2), Top.m_depthLevel) }
<1> DEFINE c == AtConfig(Top)
           f == Top.m_depthLevel - 1
           rest == Pop(Top.m_stack, 2)
           to == Top.m_stack[1]
           next == Top.m_eip + 1
<1>1. PICK i \in DOMAIN listing :
        /\ Exec("JUMPI", i) /\ Len(Top.m_stack) >= 2
        /\ IF Top.m_stack[2] # 0 THEN Fork(next, to) ELSE Fork(to, next)
  BY DEF ExecJumpi
<1>2. /\ status = "run" /\ ~Ended /\ listing[i].op = "JUMPI"
      /\ listing \in Seq(Instr)
  BY <1>1 DEF Exec, DeepInv
<1>3. /\ c \in Config /\ c.eip = Top.m_eip /\ c.stack = Top.m_stack /\ c.forced = f
      /\ Top.m_eip \in Nat /\ Top.m_stack \in Seq(Nat) /\ Top.m_depthLevel \in Nat
  BY <1>2, TopAtConfig
<1>4. to \in Nat /\ next \in Nat
  <2>1. 1 \in 1 .. Len(Top.m_stack)
    BY <1>1, <1>3, LenProperties
  <2>2. to \in Nat
    BY <1>3, <2>1, ElementOfSeq
  <2>3. next \in Nat
    BY <1>3
  <2>4. QED
    BY <2>2, <2>3
<1>5. f + 0 = f /\ f + 1 = Top.m_depthLevel
  BY <1>3
<1> HIDE DEF c
<1>6. Following(c, i) = { Branch(c, TRUE), Branch(c, FALSE) }
  <2>1. Branches(c, i)
    BY <1>1, <1>2, <1>3 DEF Branches
  <2>2. Following(c, i) = { Branch(c, taken) : taken \in BOOLEAN }
    BY <1>2, <1>3, <2>1, FollowingCases
  <2>3. QED
    BY <2>2
<1> HIDE DEF f, rest, to, next
<1>7. CASE Top.m_stack[2] # 0
  <2>1. Branch(c, TRUE) = Conf(to, rest, f)
    BY <1>3, <1>5, <1>7 DEF Branch, to, rest
  <2>2. Branch(c, FALSE) = Conf(next, rest, Top.m_depthLevel)
    BY <1>3, <1>5, <1>7 DEF Branch, next, rest
  <2>3. QED
    BY <1>1, <1>4, <1>6, <1>7, <2>1, <2>2 DEF c, f, rest
<1>8. CASE Top.m_stack[2] = 0
  <2>1. Branch(c, TRUE) = Conf(to, rest, Top.m_depthLevel)
    BY <1>3, <1>5, <1>8 DEF Branch, to, rest
  <2>2. Branch(c, FALSE) = Conf(next, rest, f)
    BY <1>3, <1>5, <1>8 DEF Branch, next, rest
  <2>3. QED
    BY <1>1, <1>4, <1>6, <1>8, <2>1, <2>2 DEF c, f, rest
<1>9. QED
  BY <1>7, <1>8

-----------------------------------------------------------------------------
\* Every step records what it executes, and goes on where that leads.
LEMMA SeenStep ==
  ASSUME SeenInv, [Next]_vars
  PROVE  SeenInv'
<1>1. DeepInv /\ DeepInv'
  BY DeepStep DEF SeenInv
<1>2. UNCHANGED << listing, codeSize, entry >>
  BY NextKeeps
<1>3. OneEach'
  <2>1. OneEach
    BY DEF SeenInv
  <2>2. QED
    BY <1>2, <2>1 DEF OneEach
<1>4. listing \in Seq(Instr)
  BY <1>1 DEF DeepInv
<1>5. ASSUME NEW i \in DOMAIN listing, NEW op, Exec(op, i)
      PROVE  /\ Recorded /\ status = "run" /\ ~Ended /\ Live(Top)
             /\ listing[i].offset = Top.m_eip
  <2>1. /\ status = "run" /\ ~Ended /\ listing[i].offset = Top.m_eip
        /\ executed' = executed \cup {AtConfig(Top)}
    BY <1>5 DEF Exec, AtConfig, Conf
  <2>2. Live(Top)
    BY <1>1, <2>1, TopAtConfig
  <2>3. QED
    BY <2>1, <2>2 DEF Recorded
<1>6. CASE ReturnAtEnd
  <2>1. status = "run" /\ Ended /\ Return /\ executed' = executed
    BY <1>6 DEF ReturnAtEnd
  <2>2. ASSUME Live(Top)
        PROVE  Top.m_eip = codeSize /\ AtConfig(Top).eip = Top.m_eip
    <3>1. Top.m_depthLevel \in Nat /\ Top.m_depthLevel >= 1 /\ Top \in Machine
      <4>1. machines # << >> /\ machines \in Seq(Machine)
        BY <1>1, <2>1 DEF DeepInv, Deep
      <4>2. Top \in Machine /\ Top = machines[1] /\ Len(machines) \in Nat
            /\ Len(machines) >= 1
        BY <4>1, TailFacts DEF Top
      <4>3. Top.m_depthLevel = Len(machines)
        BY <1>1, <4>2 DEF DeepInv, Deep
      <4>4. QED
        BY <4>2, <4>3
    <3>2. ~(Top.m_depthLevel > MaxDepth)
      BY <2>2, <3>1, DepthAssumption DEF Live
    <3>3. QED
      BY <2>1, <3>1, <3>2, AtConfigTyped DEF Ended
  <2>3. codeSize \notin OffsetsOf(listing)
    <3>1. ASSUME NEW i \in DOMAIN listing PROVE listing[i].offset # codeSize
      <4>1. listing[i].offset \in Nat /\ listing[i].offset < codeSize
        BY <1>4, ListingFacts DEF SeenInv, OneEach
      <4>2. QED
        BY <4>1
    <3>2. QED
      BY <3>1 DEF OffsetsOf
  <2>4. Live(Top) => Followers({AtConfig(Top)}) = {}
    <3> SUFFICES ASSUME Live(Top), NEW d \in Followers({AtConfig(Top)}) PROVE FALSE
      OBVIOUS
    <3>1. PICK i \in DOMAIN listing : listing[i].offset = AtConfig(Top).eip
      BY FollowersFacts
    <3>2. QED
      BY <2>2, <2>3, <3>1 DEF OffsetsOf
  <2>5. TookPlace(0)
    BY <2>1, <2>4, ReturnTakesPlace
  <2>6. Recorded
    BY <2>1, <2>2, <2>3 DEF Recorded
  <2>7. (NothingElse /\ NothingLost)'
    BY <1>2, <2>1, <2>5, <2>6, WalkOn
  <2>8. QED
    BY <1>1, <1>3, <2>7 DEF SeenInv
<1>6a. CASE ReturnAtInvalid
  <2>1. /\ status = "run" /\ ~Ended /\ Current = {} /\ Return
        /\ executed' = executed
    BY <1>6a DEF ReturnAtInvalid
  <2>2. AtConfig(Top).eip = Top.m_eip
    BY <1>1, <2>1, TopAtConfig
  <2>3. \A i \in DOMAIN listing : listing[i].offset # Top.m_eip
    BY <2>1 DEF Current
  <2>4. Followers({AtConfig(Top)}) = {}
    BY <2>2, <2>3, FollowersFacts
  <2>5. TookPlace(0)
    BY <2>1, <2>4, ReturnTakesPlace
  <2>6. Recorded
    BY <2>1, <2>3 DEF Recorded, OffsetsOf
  <2>7. (NothingElse /\ NothingLost)'
    BY <1>2, <2>1, <2>5, <2>6, WalkOn
  <2>8. QED
    BY <1>1, <1>3, <2>7 DEF SeenInv
<1>7. CASE RunBeyond \/ Underflow
  <2>1. status' \in {"beyond", "underflow"}
    BY <1>7 DEF RunBeyond, Underflow, Stray
  <2>2. QED
    BY <1>1, <1>3, <2>1 DEF SeenInv
<1>8. CASE ExecPush \/ ExecDiscard \/ ExecIsZero \/ ExecJump
  <2>1. PICK eip \in Nat, s \in Seq(Nat), i \in DOMAIN listing :
          /\ GoOn(eip, s) /\ Exec(listing[i].op, i)
          /\ \/ Following(AtConfig(Top), i) = {Conf(eip, s, Top.m_depthLevel - 1)}
             \/ /\ Following(AtConfig(Top), i) = {}
                /\ Conf(eip, s, Top.m_depthLevel - 1) = AtConfig(Top)
    BY <1>1, <1>8, GoesOnAlike
  <2>2. Recorded /\ status = "run" /\ ~Ended /\ listing[i].offset = Top.m_eip
    BY <1>5, <2>1
  <2>3. TookPlace(1)
    BY <2>1, <2>2, GoOnTakesPlace
  <2>4. (NothingElse /\ NothingLost)'
    BY <1>2, <2>2, <2>3, WalkOn
  <2>5. QED
    BY <1>1, <1>3, <2>4 DEF SeenInv
<1>9. CASE ExecJumpi
  <2>1. PICK other \in Nat, own \in Nat, i \in DOMAIN listing :
          /\ Fork(other, own) /\ Exec("JUMPI", i)
          /\ Following(AtConfig(Top), i) =
               { Conf(own, Pop(Top.m_stack, 2), Top.m_depthLevel - 1),
                 Conf(other, Pop(Top.m_stack, 2), Top.m_depthLevel) }
    BY <1>1, <1>9, ForksAlike
  <2>2. Recorded /\ status = "run" /\ ~Ended /\ listing[i].offset = Top.m_eip
    BY <1>5, <2>1
  <2>3. Pop(Top.m_stack, 2) \in Seq(Nat)
    BY <1>1, <2>2, TopAtConfig, PopFacts
  <2>4. TookPlace(2)
    BY <2>1, <2>2, <2>3, ForkTakesPlace
  <2>5. (NothingElse /\ NothingLost)'
    BY <1>2, <2>2, <2>4, WalkOn
  <2>6. QED
    BY <1>1, <1>3, <2>5 DEF SeenInv
<1>10. CASE ExecHalt
  <2>1. PICK i \in DOMAIN listing : Exec("STOP", i) /\ Return
    BY <1>10 DEF ExecHalt
  <2>2. /\ Recorded /\ status = "run" /\ ~Ended /\ listing[i].offset = Top.m_eip
        /\ listing[i].op = "STOP"
    BY <1>5, <2>1 DEF Exec
  <2>3. AtConfig(Top) \in Config /\ AtConfig(Top).eip = Top.m_eip
    BY <1>1, <2>2, TopAtConfig
  <2>4. Followers({AtConfig(Top)}) = {}
    <3> DEFINE c == AtConfig(Top)
    <3> HIDE DEF c
    <3>1. ~GoesOn(c, i) /\ ~Branches(c, i)
      BY <2>2 DEF GoesOn, Branches
    <3>2. c \in Config /\ c.eip = listing[i].offset
      BY <2>2, <2>3 DEF c
    <3>3. Following(c, i) = {}
      BY <1>4, <3>1, <3>2, FollowingCases
    <3>4. OneEach
      BY DEF SeenInv
    <3>5. Followers({c}) = { d \in Following(c, i) : d.forced < MaxDepth }
      BY <3>2, <3>4, OneFollowing
    <3>6. QED
      BY <3>3, <3>5 DEF c
  <2>5. TookPlace(0)
    BY <2>1, <2>2, <2>4, ReturnTakesPlace
  <2>6. (NothingElse /\ NothingLost)'
    BY <1>2, <2>2, <2>5, WalkOn
  <2>7. QED
    BY <1>1, <1>3, <2>6 DEF SeenInv
<1>11. CASE UNCHANGED vars
  <2>1. UNCHANGED << listing, machines, status, executed >>
    BY <1>11 DEF vars
  <2>2. (\A c : From(c)' = From(c)) /\ Start' = Start
    BY <1>2, SameFrom
  <2>3. OffsetsOf(listing)' = OffsetsOf(listing)
    BY <1>2, SameFrom
  <2>4. NothingElse => NothingElse'
    BY <2>1, <2>2 DEF NothingElse, Live, AtConfig, Conf
  <2>5. NothingLost => NothingLost'
    BY <2>1, <2>2, <2>3 DEF NothingLost, Ahead, Live, AtConfig, Conf
  <2>6. QED
    BY <1>1, <1>3, <2>1, <2>4, <2>5 DEF SeenInv
<1>12. QED
  BY <1>6, <1>6a, <1>7, <1>8, <1>9, <1>10, <1>11 DEF Next, Step, Terminated

\* The first machine is at the start.
LEMMA SeenInit == Init => SeenInv
<1> SUFFICES ASSUME Init PROVE SeenInv
  OBVIOUS
<1> DEFINE m == Called(entry)
<1>1. DeepInv /\ machines = << m >> /\ executed = {} /\ entry \in Nat
  BY DeepInit DEF DeepInv
<1>3. OneEach
  BY OffsetsAssumption DEF Init, OneEach
<1>4. Len(machines) = 1 /\ machines[1] = m
  <2> HIDE DEF m
  <2>1. QED
    BY <1>1
<1>5. AtConfig(m) = Start
  BY DEF AtConfig, Conf, Start, Called
<1>6. Live(m)
  BY <1>1, CalledFacts, DepthAssumption DEF Live
<1>7. listing \in Seq(Instr) /\ Start \in From(Start)
  BY <1>1, StartTyped, FromFacts DEF DeepInv
<1> HIDE DEF m
<1>8. NothingElse
  BY <1>1, <1>4, <1>5, <1>7 DEF NothingElse
<1>9. NothingLost
  <2> SUFFICES ASSUME NEW c \in From(Start) PROVE Ahead(machines, c)
    BY DEF NothingLost
  <2>1. 1 \in 1 .. Len(machines)
    BY <1>4
  <2>2. QED
    BY <1>4, <1>5, <1>6, <2>1 DEF Ahead
<1>10. QED
  BY <1>1, <1>3, <1>8, <1>9 DEF SeenInv

\* Everything that some path leads to, with fewer than MaxDepth outcomes forced.
SeenAll ==
  status = "done" => executed = { c \in From(Start) : c.eip \in OffsetsOf(listing) }

LEMMA SeenSound == SeenInv => SeenAll
<1> SUFFICES ASSUME SeenInv, status = "done"
             PROVE  executed = { c \in From(Start) : c.eip \in OffsetsOf(listing) }
  BY DEF SeenAll
<1>1. /\ executed \subseteq Places /\ machines = << >>
      /\ NothingElse /\ NothingLost
  BY DEF SeenInv, DeepInv
<1>2. \A c : ~Ahead(machines, c)
  BY <1>1, EmptySeq, SMT DEF Ahead
<1>3. \A c \in executed : c.eip \in OffsetsOf(listing)
  BY <1>1 DEF Places
<1>4. QED
  BY <1>1, <1>2, <1>3 DEF NothingElse, NothingLost

\* Exactly what the paths with fewer than MaxDepth forced outcomes lead to is
\* executed, and with the stacks it has on them, whatever the contract, however
\* long its paths and whatever the limit (VMState.cpp:574-605, 872).
THEOREM ExecutesTheReachable ==
  Spec => [](status = "done" =>
               executed = { c \in From(Start) : c.eip \in OffsetsOf(listing) })
<1>1. Init => SeenInv
  BY SeenInit
<1>2. SeenInv /\ [Next]_vars => SeenInv'
  BY SeenStep
<1>3. SeenInv => (status = "done" =>
                    executed = { c \in From(Start) : c.eip \in OffsetsOf(listing) })
  BY SeenSound DEF SeenAll
<1>4. QED
  BY <1>1, <1>2, <1>3, PTL DEF Spec

\* So the search that the runs compare with finds it all, where it has come to
\* its end.
THEOREM SearchAgrees == Spec => []SeenExactly
<1>1. SeenInv => SeenExactly
  <2> SUFFICES ASSUME SeenInv, status = "done",
                      Followers(Reachable) \subseteq Reachable
               PROVE  executed = { c \in Reachable : c.eip \in OffsetsOf(listing) }
    BY Zenon DEF SeenExactly
  <2>1. listing \in Seq(Instr) /\ entry \in Nat
    BY DEF SeenInv, DeepInv
  <2>2. From(Start) = Reachable
    <3>1. Start \in Reachable /\ Reachable \subseteq From(Start)
      BY <2>1, SearchSound
    <3>2. From(Start) \subseteq Config
      BY <2>1, StartTyped, FromFacts
    <3>3. Reachable \in SUBSET Config
      BY <3>1, <3>2
    <3>4. From(Start) \subseteq Reachable
      BY <2>1, <3>1, <3>3, StartTyped, FromFacts
    <3>5. QED
      BY <3>1, <3>4
  <2>3. QED
    BY <2>2, SeenSound DEF SeenAll
<1>2. Init => SeenInv
  BY SeenInit
<1>3. SeenInv /\ [Next]_vars => SeenInv'
  BY SeenStep
<1>4. QED
  BY <1>1, <1>2, <1>3, PTL DEF Spec
=============================================================================
