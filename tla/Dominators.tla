----------------------------- MODULE Dominators -----------------------------
(***************************************************************************)
(* Contract::computeDominators: the iterative dominator computation over   *)
(* the basic blocks of a contract.                                         *)
(*                                                                         *)
(* Blocks are named by their `id', their rank in the ordered map           *)
(* m_listbasicBlockInfo; id 0 is the entry at offset 0.  A `dominators'    *)
(* word (a u256) is the set of its one bits.  The `references' of a block  *)
(* (the xrefs to it) are the predecessors the computation walks; they are  *)
(* fixed input here.  Module BlockGraph shows that each of them is a block *)
(* of the map, so the early exit for an unknown predecessor never fires.   *)
(***************************************************************************)
EXTENDS Integers

CONSTANTS
  N,          \* number of basic blocks
  Graphs,     \* the `references' maps the blocks may have
  IntBits,    \* width of the C++ int in `1 << j' (32 in the program)
  WordBits,   \* width of the dominators word (256 in the program)
  Pending     \* no words yet

ASSUME NAssumption    == N \in Nat \ {0}
ASSUME BitsAssumption == /\ IntBits \in Nat \ {0}
                         /\ WordBits \in Nat
                         /\ IntBits <= WordBits

Ids  == 0 .. N - 1
Word == 0 .. WordBits - 1

ASSUME GraphsAssumption  == Graphs \subseteq [Ids -> SUBSET Ids]
ASSUME PendingAssumption == Pending \notin [Ids -> SUBSET Word]

(***************************************************************************)
(* The bits of `1 << j' after the int is widened to the unsigned word.     *)
(* The shift count is taken modulo the width of the int (the outcome the   *)
(* shift instruction gives to an out-of-range count), and a result that    *)
(* reaches the sign bit is sign-extended by the conversion.                *)
(***************************************************************************)
Shl1(j) ==
  LET s == j % IntBits
  IN  IF s = IntBits - 1 THEN s .. WordBits - 1 ELSE {s}

AllBits == UNION { Shl1(j) : j \in Ids }

VARIABLES
  references,   \* predecessors of each block
  dominators,   \* dominators word of each block
  pc,           \* "start", "sweep" or "done"
  it,           \* block the sweep stands on; N is the end of the map
  preds,        \* references of that block still to be visited
  changed       \* did this sweep change some word?

vars == << references, dominators, pc, it, preds, changed >>

TypeOK ==
  /\ references \in [Ids -> SUBSET Ids]
  /\ dominators \in [Ids -> SUBSET Word]
  /\ pc \in {"start", "sweep", "done"}
  /\ it \in 1 .. N
  /\ preds \subseteq Ids
  /\ changed \in BOOLEAN

Init ==
  /\ references \in Graphs
  /\ dominators = [b \in Ids |-> {}]
  /\ pc = "start"
  /\ it = 1
  /\ preds = {}
  /\ changed = FALSE

-----------------------------------------------------------------------------
(***************************************************************************)
(* A sweep starts behind begin(): the entry keeps the word it was given.   *)
(***************************************************************************)
PredsAt(i) == IF i < N THEN references[i] ELSE {}

\* Mutation: a sweep does not forget that the one before it changed a word.
BeginSweep_Sticky ==
  /\ it' = 1
  /\ preds' = PredsAt(1)
  /\ changed' = changed

BeginSweep ==
  /\ it' = 1
  /\ preds' = PredsAt(1)
  /\ changed' = FALSE

\* Every word is set to all blocks, then the entry's word to itself alone.
InitDominators ==
  /\ pc = "start"
  /\ dominators' = [b \in Ids |-> IF b = 0 THEN Shl1(0)
                                           ELSE dominators[b] \cup AllBits]
  /\ BeginSweep
  /\ pc' = "sweep"
  /\ UNCHANGED references

\* Mutation: the block is not put back into its own word.
VisitPred_NotItself ==
  /\ pc = "sweep"
  /\ \E p \in preds :
       /\ \A q \in preds : p <= q
       /\ dominators' = [dominators EXCEPT ![it] = @ \cap dominators[p]]
       /\ changed' = (changed \/ dominators'[it] # dominators[it])
       /\ preds' = preds \ {p}
  /\ UNCHANGED << references, pc, it >>

\* Mutation: the word is assigned, not intersected.
VisitPred_Assign ==
  /\ pc = "sweep"
  /\ \E p \in preds :
       /\ \A q \in preds : p <= q
       /\ dominators' = [dominators EXCEPT ![it] = dominators[p] \cup Shl1(it)]
       /\ changed' = (changed \/ dominators'[it] # dominators[it])
       /\ preds' = preds \ {p}
  /\ UNCHANGED << references, pc, it >>

\* One predecessor of the block under the iterator, in ascending order.
VisitPred ==
  /\ pc = "sweep"
  /\ \E p \in preds :
       /\ \A q \in preds : p <= q
       /\ dominators' = [dominators EXCEPT
                           ![it] = (@ \cap dominators[p]) \cup Shl1(it)]
       /\ changed' = (changed \/ dominators'[it] # dominators[it])
       /\ preds' = preds \ {p}
  /\ UNCHANGED << references, pc, it >>

\* Mutation: the iterator runs past the end of the map.
NextBlock_PastEnd ==
  /\ pc = "sweep"
  /\ preds = {}
  /\ it' = it + 1
  /\ preds' = PredsAt(it + 1)
  /\ UNCHANGED << references, dominators, pc, changed >>

NextBlock ==
  /\ pc = "sweep"
  /\ it < N /\ preds = {}
  /\ it' = it + 1
  /\ preds' = PredsAt(it + 1)
  /\ UNCHANGED << references, dominators, pc, changed >>

RepeatSweep ==
  /\ pc = "sweep"
  /\ it = N /\ changed
  /\ BeginSweep
  /\ UNCHANGED << references, dominators, pc >>

\* Mutation: one sweep is taken to be enough.
Finish_OneSweep ==
  /\ pc = "sweep"
  /\ it = N
  /\ pc' = "done"
  /\ UNCHANGED << references, dominators, it, preds, changed >>

Finish ==
  /\ pc = "sweep"
  /\ it = N /\ ~changed
  /\ pc' = "done"
  /\ UNCHANGED << references, dominators, it, preds, changed >>

\* Contract::decompile runs the computation again on the words it left.
Recompute ==
  /\ pc = "done"
  /\ pc' = "start"
  /\ UNCHANGED << references, dominators, it, preds, changed >>

Compute == InitDominators \/ VisitPred \/ NextBlock \/ RepeatSweep \/ Finish

Next == Compute \/ Recompute

\* A called computation runs to its end; nothing obliges a second call.
Spec == Init /\ [][Next]_vars /\ WF_vars(Compute)

-----------------------------------------------------------------------------
\* The specification of the answer, read off the finished words.
Abs == INSTANCE Dominance
         WITH graph <- references,
              answer <- IF pc = "done" THEN dominators ELSE Pending

Dominates(d, b) == Abs!Dominates(d, b)

\* No intermediate word ever lacks the bits of a block that dominates: the
\* computation only narrows towards the answer, whatever the number of
\* blocks (Contract.cpp:306-332).
DominatorsKept ==
  pc \in {"sweep", "done"} =>
    \A d, b \in Ids : Dominates(d, b) => Shl1(d) \subseteq dominators[b]

\* When the sweeps end, the words are exactly the dominators, provided there
\* are fewer blocks than an int has bits (Contract.cpp:290-332).
DominatorsExact ==
  pc = "done" =>
    \A d, b \in Ids : d \in dominators[b] <=> Dominates(d, b)

\* Seen from outside, each call answers with the dominators of the graph in one
\* step, and the answer stands until the next call: decompile can print it after
\* every function it has executed (Contract.cpp:281, 1076).
AnswersDominance == Abs!Spec

\* The words only shrink while one computation runs, which is why it ends.
Narrowing ==
  [][pc = "sweep" => \A b \in Ids : dominators'[b] \subseteq dominators[b]]_vars

\* Every computation ends, also the one that starts from old words.
Terminates == pc = "start" ~> pc = "done"
=============================================================================
