-------------------------- MODULE DominatorsProofs --------------------------
(***************************************************************************)
(* Proofs about module Dominators, for every number of blocks, every graph *)
(* and every width of the int and of the word.                             *)
(***************************************************************************)
EXTENDS Dominators, TLAPS

ReachesAround(d, S) == Abs!ReachesAround(d, S)

\* What it means to dominate, in the terms of the algorithm's module.
LEMMA DominatesDef ==
  ASSUME NEW d, NEW b
  PROVE  Dominates(d, b) <=> \E S \in SUBSET Ids : ReachesAround(d, S) /\ b \notin S
  BY DEF Dominates, ReachesAround, Abs!Dominates, Abs!Ids, Ids

\* What it means to hold all that is reached around a block, likewise.
LEMMA ReachesAroundDef ==
  ASSUME NEW d, NEW S
  PROVE  ReachesAround(d, S) <=>
           /\ d \notin S
           /\ d # 0 => 0 \in S
           /\ \A b \in Ids : \A p \in references[b] : p \in S /\ b # d => b \in S
  BY DEF ReachesAround, Abs!ReachesAround, Abs!Ids, Ids

\* What `1 << j' can set stays inside the word (Contract.cpp:298).
LEMMA Shl1InWord ==
  ASSUME NEW j \in Nat
  PROVE  Shl1(j) \in SUBSET Word
<1>1. j % IntBits \in 0 .. IntBits - 1
  BY BitsAssumption
<1>2. QED
  BY <1>1, BitsAssumption DEF Shl1, Word

\* The words in use are the blocks' own numbers while the shift cannot wrap.
LEMMA Shl1Single ==
  ASSUME NEW j \in Ids, N < IntBits
  PROVE  Shl1(j) = {j}
<1>1. j \in 0 .. IntBits - 2
  BY NAssumption, BitsAssumption DEF Ids
<1>2. j % IntBits = j
  BY <1>1, BitsAssumption
<1>3. j # IntBits - 1
  BY <1>1, BitsAssumption
<1>4. QED
  BY <1>2, <1>3 DEF Shl1

\* The type invariant survives every step of the computation
\* (Contract.cpp:286-333).
LEMMA TypeStep ==
  ASSUME TypeOK, [Next]_vars
  PROVE  TypeOK'
<1> USE DEF TypeOK
<1>1. ASSUME NEW i \in 1 .. N
      PROVE  PredsAt(i) \subseteq Ids
  BY NAssumption DEF PredsAt, Ids
<1>2. CASE InitDominators
  <2>1. dominators' \in [Ids -> SUBSET Word]
    <3>1. AllBits \subseteq Word
      BY Shl1InWord DEF AllBits, Ids
    <3>2. Shl1(0) \subseteq Word
      BY Shl1InWord
    <3>3. QED
      BY <1>2, <3>1, <3>2 DEF InitDominators
  <2>2. it' \in 1 .. N /\ preds' \subseteq Ids
    BY <1>1, <1>2, NAssumption DEF InitDominators, BeginSweep
  <2>3. changed' \in BOOLEAN
    BY <1>2, Zenon DEF InitDominators, BeginSweep
  <2>4. references' \in [Ids -> SUBSET Ids] /\ pc' \in {"start", "sweep", "done"}
    BY <1>2 DEF InitDominators
  <2>5. QED
    BY <2>1, <2>2, <2>3, <2>4
<1>3. CASE VisitPred
  <2>1. PICK p \in preds :
          /\ dominators' = [dominators EXCEPT
                              ![it] = (@ \cap dominators[p]) \cup Shl1(it)]
          /\ changed' = (changed \/ dominators'[it] # dominators[it])
          /\ preds' = preds \ {p}
    BY <1>3 DEF VisitPred
  <2>2. Shl1(it) \subseteq Word
    BY Shl1InWord, NAssumption
  <2>3. dominators' \in [Ids -> SUBSET Word]
    BY <2>1, <2>2
  <2>4. changed' \in BOOLEAN
    BY <2>1
  <2>5. QED
    BY <1>3, <2>1, <2>3, <2>4 DEF VisitPred
<1>4. CASE NextBlock
  BY <1>1, <1>4, NAssumption DEF NextBlock
<1>5. CASE RepeatSweep
  <2>1. it' \in 1 .. N /\ preds' \subseteq Ids
    BY <1>1, <1>5, NAssumption DEF RepeatSweep, BeginSweep
  <2>2. changed' \in BOOLEAN
    BY <1>5, Zenon DEF RepeatSweep, BeginSweep
  <2>3. QED
    BY <1>5, <2>1, <2>2 DEF RepeatSweep
<1>6. CASE Finish
  BY <1>6 DEF Finish
<1>7. CASE Recompute
  BY <1>7 DEF Recompute
<1>8. CASE UNCHANGED vars
  BY <1>8 DEF vars
<1>9. QED
  BY <1>2, <1>3, <1>4, <1>5, <1>6, <1>7, <1>8 DEF Next, Compute

\* The state before the first computation is well typed.
LEMMA TypeInit == Init => TypeOK
<1> SUFFICES ASSUME Init PROVE TypeOK
  OBVIOUS
<1>1. changed \in BOOLEAN
  BY Zenon DEF Init
<1>2. references \in [Ids -> SUBSET Ids] /\ it \in 1 .. N
  BY NAssumption, GraphsAssumption DEF Init
<1>3. QED
  BY <1>1, <1>2 DEF Init, TypeOK

\* The state of Contract::computeDominators keeps its type.
THEOREM TypeCorrect == Spec => []TypeOK
  BY TypeInit, TypeStep, PTL DEF Spec

-----------------------------------------------------------------------------
(***************************************************************************)
(* DominatorsKept is inductive once the pending predecessors are known to  *)
(* be references of the block under the iterator.                          *)
(***************************************************************************)
PredsPending == preds \subseteq PredsAt(it)

KeptInv == TypeOK /\ PredsPending /\ DominatorsKept

\* The predecessors still to visit are xrefs of the block the iterator is at.
LEMMA PredsPendingStep ==
  ASSUME TypeOK, PredsPending, [Next]_vars
  PROVE  PredsPending'
<1> USE DEF PredsPending, PredsAt
<1>1. CASE InitDominators
  BY <1>1 DEF InitDominators, BeginSweep
<1>2. CASE VisitPred
  BY <1>2 DEF VisitPred
<1>3. CASE NextBlock
  BY <1>3 DEF NextBlock
<1>4. CASE RepeatSweep
  BY <1>4 DEF RepeatSweep, BeginSweep
<1>5. CASE Finish
  BY <1>5 DEF Finish
<1>6. CASE Recompute
  BY <1>6 DEF Recompute
<1>7. CASE UNCHANGED vars
  BY <1>7 DEF vars
<1>8. QED
  BY <1>1, <1>2, <1>3, <1>4, <1>5, <1>6, <1>7 DEF Next, Compute

\* Dominance is a fact about the references, which no step writes.
LEMMA SameDominance ==
  ASSUME NEW d \in Ids, NEW b \in Ids, [Next]_vars
  PROVE  Dominates(d, b)' <=> Dominates(d, b)
<1>1. references' = references
  BY DEF Next, Compute, InitDominators, BeginSweep, VisitPred, NextBlock,
         RepeatSweep, Finish, Recompute, vars
<1>2. QED
  BY <1>1 DEF Dominates, Abs!Dominates, Abs!ReachesAround, Abs!Ids, Ids

\* A block dominated by another has it as a dominator of each of its
\* predecessors, unless it is that block itself.
LEMMA DominatesPred ==
  ASSUME NEW d \in Ids, NEW b \in Ids, NEW p \in references[b], p \in Ids,
         Dominates(d, b), b # d
  PROVE  Dominates(d, p)
  BY DominatesDef, ReachesAroundDef

\* Nothing but the entry dominates the entry.
LEMMA DominatesEntry ==
  ASSUME NEW d \in Ids, Dominates(d, 0)
  PROVE  d = 0
  BY DominatesDef, ReachesAroundDef

\* No step takes the bits of a dominator out of a word (Contract.cpp:320-327).
LEMMA KeptStep ==
  ASSUME KeptInv, [Next]_vars
  PROVE  DominatorsKept'
<1> USE DEF KeptInv
<1> SUFFICES ASSUME pc' \in {"sweep", "done"},
                    NEW d \in Ids, NEW b \in Ids, Dominates(d, b)'
             PROVE  Shl1(d) \subseteq dominators'[b]
  BY DEF DominatorsKept
<1>1. Dominates(d, b)
  BY SameDominance
<1>2. CASE InitDominators
  <2>1. dominators' = [x \in Ids |-> IF x = 0 THEN Shl1(0)
                                     ELSE dominators[x] \cup AllBits]
    BY <1>2 DEF InitDominators
  <2>2. CASE b = 0
    BY <1>1, <2>1, <2>2, DominatesEntry
  <2>3. CASE b # 0
    BY <2>1, <2>3 DEF AllBits
  <2>4. QED
    BY <2>2, <2>3
<1>3. CASE VisitPred
  <2>1. PICK p \in preds :
          dominators' = [dominators EXCEPT
                           ![it] = (@ \cap dominators[p]) \cup Shl1(it)]
    BY <1>3 DEF VisitPred
  <2>2. Shl1(d) \subseteq dominators[b]
    BY <1>1, <1>3 DEF VisitPred, DominatorsKept
  <2>3. CASE b # it
    BY <2>1, <2>2, <2>3 DEF TypeOK
  <2>4. CASE b = it /\ b = d
    BY <2>1, <2>4 DEF TypeOK
  <2>5. CASE b = it /\ b # d
    <3>1. p \in references[b] /\ p \in Ids
      BY <2>5 DEF TypeOK, PredsPending, PredsAt, Ids
    <3>2. Dominates(d, p)
      BY <1>1, <2>5, <3>1, DominatesPred
    <3>3. Shl1(d) \subseteq dominators[p]
      BY <1>3, <3>1, <3>2 DEF VisitPred, DominatorsKept
    <3>4. dominators'[b] = (dominators[b] \cap dominators[p]) \cup Shl1(it)
      BY <2>1, <2>5 DEF TypeOK
    <3>5. QED
      BY <2>2, <3>3, <3>4
  <2>6. QED
    BY <2>3, <2>4, <2>5
<1>4. CASE NextBlock
  BY <1>1, <1>4 DEF NextBlock, DominatorsKept
<1>5. CASE RepeatSweep
  BY <1>1, <1>5 DEF RepeatSweep, DominatorsKept
<1>6. CASE Finish
  BY <1>1, <1>6 DEF Finish, DominatorsKept
<1>7. CASE Recompute
  BY <1>7 DEF Recompute
<1>8. CASE UNCHANGED vars
  BY <1>1, <1>8 DEF vars, DominatorsKept
<1>9. QED
  BY <1>2, <1>3, <1>4, <1>5, <1>6, <1>7, <1>8 DEF Next, Compute

\* Before the first computation there are no words that could lack a dominator.
LEMMA KeptInvInit == Init => KeptInv
  BY TypeInit DEF Init, KeptInv, PredsPending, DominatorsKept

\* Types and kept dominators hold throughout.
LEMMA KeptInvariant == Spec => []KeptInv
<1>1. KeptInv /\ [Next]_vars => KeptInv'
  BY TypeStep, PredsPendingStep, KeptStep DEF KeptInv
<1>2. QED
  BY KeptInvInit, <1>1, PTL DEF Spec

\* No word Contract::computeDominators ever holds, in any sweep, lacks the
\* bits of a block that dominates (Contract.cpp:306-332).
THEOREM NeverLosesADominator == Spec => []DominatorsKept
  BY KeptInvariant, PTL DEF KeptInv

-----------------------------------------------------------------------------
\* Each block is among the bits of its own word, so an or with `1 << id'
\* never widens a word again.
LEMMA SelfKept ==
  ASSUME KeptInv, pc = "sweep", NEW b \in Ids
  PROVE  Shl1(b) \subseteq dominators[b]
<1>1. ReachesAround(b, Ids \ {b})
  BY ReachesAroundDef, NAssumption DEF Ids
<1>2. Dominates(b, b)
  BY <1>1, DominatesDef
<1>3. QED
  BY <1>2 DEF KeptInv, DominatorsKept

\* While Contract::computeDominators sweeps, no word ever gains a bit.
THEOREM SweepsNarrow == Spec => Narrowing
<1>1. ASSUME KeptInv, [Next]_vars
      PROVE  [pc = "sweep" => \A b \in Ids : dominators'[b] \subseteq dominators[b]]_vars
  <2> SUFFICES ASSUME pc = "sweep", NEW b \in Ids
               PROVE  dominators'[b] \subseteq dominators[b]
    OBVIOUS
  <2>1. CASE VisitPred
    <3>1. PICK p \in preds :
            dominators' = [dominators EXCEPT
                             ![it] = (@ \cap dominators[p]) \cup Shl1(it)]
      BY <2>1 DEF VisitPred
    <3>2. Shl1(b) \subseteq dominators[b]
      BY <1>1, SelfKept
    <3>3. QED
      BY <1>1, <3>1, <3>2 DEF KeptInv, TypeOK
  <2>2. CASE dominators' = dominators
    BY <2>2
  <2>3. VisitPred \/ dominators' = dominators
    BY <1>1 DEF Next, Compute, InitDominators, NextBlock, RepeatSweep, Finish,
           Recompute, vars
  <2>4. QED
    BY <2>1, <2>2, <2>3
<1>2. QED
  BY KeptInvariant, <1>1, PTL DEF Spec, Narrowing

-----------------------------------------------------------------------------
(***************************************************************************)
(* Exactness needs what a sweep without a change leaves behind: each block *)
(* it has passed adds only itself to the word of each predecessor.         *)
(***************************************************************************)
Passed(b, p) == b < it \/ (b = it /\ p \notin preds)

Settled ==
  \A b \in Ids \ {0} : \A p \in references[b] :
    Passed(b, p) => dominators[b] \subseteq dominators[p] \cup {b}

EntryAlone == pc # "start" => dominators[0] = {0}

BlocksOnly == \A b \in Ids : dominators[b] \subseteq Ids

SettledInv ==
  /\ KeptInv
  /\ EntryAlone
  /\ BlocksOnly
  /\ pc # "start" /\ ~changed => Settled
  /\ pc = "done" => it = N /\ ~changed

\* Before the first visit there is nothing to be settled.
LEMMA SettledInit == Init => SettledInv
  BY KeptInvInit, NAssumption
  DEF Init, SettledInv, EntryAlone, BlocksOnly, Ids

\* A step leaves words that hold bits of blocks only.
LEMMA BlocksOnlyStep ==
  ASSUME N < IntBits, SettledInv, [Next]_vars
  PROVE  EntryAlone' /\ BlocksOnly'
<1> USE DEF SettledInv, KeptInv, TypeOK, EntryAlone, BlocksOnly
<1>0. 0 \in Ids /\ Shl1(0) = {0}
  BY Shl1Single, NAssumption DEF Ids
<1>1. CASE InitDominators
  <2>1. AllBits \subseteq Ids
    BY Shl1Single DEF AllBits
  <2>2. QED
    BY <1>0, <1>1, <2>1 DEF InitDominators
<1>2. CASE VisitPred
  <2>1. PICK p \in preds :
          dominators' = [dominators EXCEPT
                           ![it] = (@ \cap dominators[p]) \cup Shl1(it)]
    BY <1>2 DEF VisitPred
  <2>2. it \in Ids /\ it # 0
    BY <1>2, NAssumption DEF PredsPending, PredsAt, VisitPred, Ids
  <2>3. Shl1(it) = {it}
    BY <2>2, Shl1Single
  <2>4. QED
    BY <1>0, <1>2, <2>1, <2>2, <2>3 DEF VisitPred
<1>3. CASE pc # "start" /\ UNCHANGED dominators
  BY <1>3
<1>4. CASE UNCHANGED << pc, dominators >>
  BY <1>4
<1>5. CASE Recompute
  BY <1>5 DEF Recompute
<1>6. QED
  BY <1>1, <1>2, <1>3, <1>4, <1>5
  DEF Next, Compute, NextBlock, RepeatSweep, Finish, vars

\* While no word changed in a sweep, the predecessors visited stay compatible.
LEMMA SettledStep ==
  ASSUME N < IntBits, SettledInv, [Next]_vars, pc' # "start", ~changed'
  PROVE  Settled'
<1> USE DEF SettledInv, KeptInv, TypeOK
<1> SUFFICES ASSUME NEW b \in Ids \ {0}, NEW p \in references'[b], Passed(b, p)'
             PROVE  dominators'[b] \subseteq dominators'[p] \cup {b}
  BY DEF Settled
<1>1. b >= 1 /\ b \in Int /\ it \in Int /\ b < N
  BY NAssumption DEF Ids
<1>2. ASSUME BeginSweep, references' = references
      PROVE  FALSE
  BY <1>1, <1>2 DEF BeginSweep, Passed, PredsAt
<1>3. CASE InitDominators
  BY <1>2, <1>3 DEF InitDominators
<1>4. CASE RepeatSweep
  BY <1>2, <1>4 DEF RepeatSweep
<1>5. CASE VisitPred
  <2>1. PICK q \in preds :
          /\ dominators' = [dominators EXCEPT
                              ![it] = (@ \cap dominators[q]) \cup Shl1(it)]
          /\ changed' = (changed \/ dominators'[it] # dominators[it])
          /\ preds' = preds \ {q}
    BY <1>5 DEF VisitPred
  <2>2. it \in Ids /\ it # 0 /\ q \in Ids
    BY <1>5, NAssumption DEF PredsPending, PredsAt, VisitPred, Ids
  <2>3. ~changed /\ dominators'[it] = dominators[it]
    BY <2>1
  <2>4. dominators' = dominators
    BY <2>1, <2>3
  <2>5. dominators[it] \subseteq dominators[q] \cup {it}
    BY <2>1, <2>2, <2>3, Shl1Single
  <2>6. CASE b = it /\ p = q
    BY <2>4, <2>5, <2>6
  <2>7. CASE ~(b = it /\ p = q)
    <3>1. Passed(b, p)
      BY <1>5, <2>1, <2>7 DEF VisitPred, Passed
    <3>2. QED
      BY <1>5, <2>3, <2>4, <3>1 DEF VisitPred, Settled
  <2>8. QED
    BY <2>6, <2>7
<1>6. CASE NextBlock
  <2>1. Passed(b, p)
    BY <1>1, <1>6 DEF NextBlock, Passed, PredsAt
  <2>2. QED
    BY <1>6, <2>1 DEF NextBlock, Settled
<1>7. CASE Finish
  BY <1>7 DEF Finish, Settled, Passed
<1>8. CASE Recompute
  BY <1>8 DEF Recompute
<1>9. CASE UNCHANGED vars
  BY <1>9 DEF vars, Settled, Passed
<1>10. QED
  BY <1>3, <1>4, <1>5, <1>6, <1>7, <1>8, <1>9 DEF Next, Compute

\* The strengthened invariant is kept by every step.
LEMMA SettledInvStep ==
  ASSUME N < IntBits, SettledInv, [Next]_vars
  PROVE  SettledInv'
<1>1. KeptInv'
  BY TypeStep, PredsPendingStep, KeptStep DEF SettledInv, KeptInv
<1>2. pc' = "done" => it' = N /\ ~changed'
  BY DEF SettledInv, Next, Compute, InitDominators, VisitPred, NextBlock,
         RepeatSweep, Finish, Recompute, vars
<1>3. QED
  BY <1>1, <1>2, BlocksOnlyStep, SettledStep DEF SettledInv

\* The blocks whose word lacks d are a set that reaches around d.
LEMMA LackingReachesAround ==
  ASSUME N < IntBits, SettledInv, pc = "done", NEW d \in Ids
  PROVE  ReachesAround(d, {x \in Ids : d \notin dominators[x]})
<1> DEFINE S == {x \in Ids : d \notin dominators[x]}
<1> USE DEF SettledInv, KeptInv
<1>1. Dominates(d, d)
  <2>1. ReachesAround(d, Ids \ {d})
    BY ReachesAroundDef, NAssumption DEF Ids
  <2>2. QED
    BY <2>1, DominatesDef
<1>2. d \notin S
  BY <1>1, Shl1Single DEF DominatorsKept
<1>3. d # 0 => 0 \in S
  BY NAssumption DEF EntryAlone, Ids
<1>4. ASSUME NEW b \in Ids, NEW p \in references[b], p \in S, b # d
      PROVE  b \in S
  <2>1. CASE b = 0
    BY <1>3, <1>4, <2>1
  <2>2. CASE b # 0
    <3>1. Passed(b, p)
      BY NAssumption DEF Passed, Ids
    <3>2. dominators[b] \subseteq dominators[p] \cup {b}
      BY <2>2, <3>1 DEF Settled
    <3>3. QED
      BY <1>4, <3>2
  <2>3. QED
    BY <2>1, <2>2
<1>5. QED
  BY <1>2, <1>3, <1>4, ReachesAroundDef

\* What the settled words say of each block when the sweeps have ended.
LEMMA SettledExact ==
  ASSUME N < IntBits, SettledInv
  PROVE  DominatorsExact
<1> SUFFICES ASSUME pc = "done", NEW d \in Ids, NEW b \in Ids
             PROVE  d \in dominators[b] <=> Dominates(d, b)
  BY DEF DominatorsExact
<1>1. ASSUME Dominates(d, b)
      PROVE  d \in dominators[b]
  BY <1>1, Shl1Single DEF SettledInv, KeptInv, DominatorsKept
<1>2. ASSUME d \in dominators[b]
      PROVE  Dominates(d, b)
  BY <1>2, LackingReachesAround, DominatesDef
<1>3. QED
  BY <1>1, <1>2

\* With fewer blocks than the int has bits, the words that
\* Contract::computeDominators leaves are exactly the dominators of each block.
THEOREM WordsAreDominators ==
  ASSUME N < IntBits
  PROVE  Spec => []DominatorsExact
<1>1. SettledInv /\ [Next]_vars => SettledInv'
  BY SettledInvStep
<1>2. SettledInv => DominatorsExact
  BY SettledExact
<1>3. QED
  BY SettledInit, <1>1, <1>2, PTL DEF Spec

-----------------------------------------------------------------------------
(***************************************************************************)
(* The refinement: Finish is the step that answers, Recompute the one that *)
(* asks, and every other step is invisible from outside.                   *)
(***************************************************************************)

AnswerReady ==
  pc = "done" =>
    dominators = [ b \in Abs!Ids |-> { d \in Abs!Ids : Abs!Dominates(d, b) } ]

\* The words at the end are the answer the specification wants.
LEMMA WordsAnswer ==
  ASSUME N < IntBits, SettledInv
  PROVE  AnswerReady
<1> SUFFICES ASSUME pc = "done"
             PROVE  dominators =
                      [ b \in Abs!Ids |-> { d \in Abs!Ids : Abs!Dominates(d, b) } ]
  BY DEF AnswerReady
<1>1. Abs!Ids = Ids
  BY DEF Abs!Ids, Ids
<1>2. dominators \in [Ids -> SUBSET Ids]
  BY DEF SettledInv, KeptInv, TypeOK, BlocksOnly
<1>3. \A b, d \in Ids : d \in dominators[b] <=> Abs!Dominates(d, b)
  BY SettledExact DEF DominatorsExact, Dominates
<1>4. \A b \in Ids : dominators[b] = { d \in Ids : Abs!Dominates(d, b) }
  BY <1>2, <1>3
<1>5. QED
  BY <1>1, <1>2, <1>4

\* No word, and so no answer, is mistaken for one that is still pending.
LEMMA WordsNotPending ==
  ASSUME TypeOK
  PROVE  dominators # Pending
  BY PendingAssumption DEF TypeOK

\* Every step of the computation answers, asks, or changes nothing outside.
LEMMA RefinementStep ==
  ASSUME TypeOK, AnswerReady', [Next]_vars
  PROVE  [Abs!Next]_<< references, IF pc = "done" THEN dominators ELSE Pending >>
<1>1. references' = references
  BY DEF Next, Compute, InitDominators, BeginSweep, VisitPred, NextBlock,
         RepeatSweep, Finish, Recompute, vars
<1>2. CASE Finish
  <2>1. pc # "done" /\ pc' = "done" /\ dominators' = dominators
    BY <1>2 DEF Finish
  <2>2. QED
    BY <1>1, <2>1
    DEF AnswerReady, Abs!Next, Abs!Answer, Abs!Dominates, Abs!ReachesAround
<1>3. CASE Recompute
  <2>1. pc = "done" /\ pc' # "done"
    BY <1>3 DEF Recompute
  <2>2. dominators # Pending
    BY WordsNotPending
  <2>3. QED
    BY <1>1, <2>1, <2>2 DEF Abs!Next, Abs!Ask
<1>4. CASE pc # "done" /\ pc' # "done"
  BY <1>1, <1>4
<1>5. CASE UNCHANGED vars
  BY <1>1, <1>5 DEF vars
<1>6. QED
  BY <1>2, <1>3, <1>4, <1>5
  DEF Next, Compute, InitDominators, VisitPred, NextBlock, RepeatSweep

\* With fewer blocks than the int has bits, Contract::computeDominators does
\* what Dominance specifies: seen from outside, each call answers with the
\* dominators of the graph, and the answer stands until the next call.
THEOREM ImplementsDominance ==
  ASSUME N < IntBits
  PROVE  Spec => AnswersDominance
<1>1. SettledInv /\ [Next]_vars => SettledInv'
  BY SettledInvStep
<1>2. Init => Abs!Init
  BY GraphsAssumption DEF Init, Abs!Init, Abs!Ids, Ids
<1>3. SettledInv => TypeOK /\ AnswerReady
  BY WordsAnswer DEF SettledInv, KeptInv
<1>4. TypeOK /\ AnswerReady' /\ [Next]_vars =>
        [Abs!Next]_<< references, IF pc = "done" THEN dominators ELSE Pending >>
  BY RefinementStep
<1>5. QED
  BY SettledInit, <1>1, <1>2, <1>3, <1>4, PTL DEF Spec, AnswersDominance, Abs!Spec
=============================================================================
