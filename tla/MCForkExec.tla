----------------------------- MODULE MCForkExec ------------------------------
(***************************************************************************)
(* Contracts for ForkExec.  No loop among them is one that the constants   *)
(* they push would repeat: a branch back is on a condition that is 0.      *)
(***************************************************************************)
EXTENDS ForkExec, Assembler

If(c, t)    == << Push(c), Push(-t), I("JUMPI") >>
IfNot(c, t) == << Push(c), I("ISZERO"), Push(-t), I("JUMPI") >>
Goto(t)     == << Push(-t), I("JUMP") >>
Call(t, r)  == << Push(-r), Push(-t), I("JUMP") >>
Leave       == << I("JUMP") >>
Stop        == << I("STOP") >>

At(t) == << I("JUMPDEST") >> \o t

\* The contract whose blocks 2, 3, ... are bs; the first is a dispatcher's, and
\* the function begins behind it.
Contract(bs) ==
  LET p == Assemble(<< Stop >> \o bs)
  IN  [ listing |-> p.listing, size |-> p.size, entry |-> 1 ]

\* Five branches, one behind the other: more than there are levels.
Chains ==
  { Contract(<< At(If(c[1], t[1])), At(If(c[2], t[2])), At(If(c[3], t[3])),
                At(If(c[4], t[4])), At(If(c[5], t[5])), At(Stop), At(<< >>) >>) :
      c \in [1 .. 5 -> {0, 1}],
      t \in { f \in [1 .. 5 -> 4 .. 8] : \A k \in 1 .. 5 : f[k] \in {k + 3, 8} } }

\* Branches back and forth, calls and returns.
Tails(k) ==
  { If(0, 2), If(0, k), If(1, 5), IfNot(0, 5), Call(5, 4), << I("POP") >>,
    Stop, Leave }

Flows ==
  { Contract(<< At(t1), At(t2), At(t3), At(t4) >>) :
      t1 \in Tails(2), t2 \in Tails(3), t3 \in Tails(4) \ {Call(5, 4)},
      t4 \in {Leave, Stop, << I("POP") >>} }

\* A push without its data, a branch as the last instruction, a jump behind the
\* code or into the data of a push.
Cut == LET p == Contract(<< At(<< Push(0) >>) >>) IN [p EXCEPT !.size = @ - 1]

Ends ==
  {Cut} \cup
  { Contract(<< At(<< >>), At(e) >>) :
      e \in { If(0, 2), If(1, 2), << Push(9), I("JUMP") >>, << Push(4), I("JUMP") >>,
              << I("ISZERO") >>, << Push(2), I("JUMPI") >> } }

Contracts == Chains \cup Flows \cup Ends
=============================================================================
