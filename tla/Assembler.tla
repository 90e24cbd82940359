----------------------------- MODULE Assembler ------------------------------
(***************************************************************************)
(* Small contracts for the model-checking modules: blocks written with     *)
(* labels, assembled into the listing that Disassm makes of their code.    *)
(*                                                                         *)
(* An item is an opcode with what it pushes: a number, or a label (a       *)
(* negative number; label -k is the offset where block k starts).          *)
(***************************************************************************)
EXTENDS Integers, SequencesExt

I(op)       == << op, 0 >>
Push(arg)   == << "PUSH12", arg >>
Push4(hash) == << "PUSH4", hash >>

Width(item) ==
  CASE item[1] = "PUSH12" -> 2 [] item[1] = "PUSH4" -> 5 [] OTHER -> 1

Offsets(items) ==
  LET f[i \in 1 .. Len(items) + 1] ==
        IF i = 1 THEN 0 ELSE f[i - 1] + Width(items[i - 1])
  IN  f

\* The blocks one after the other, and their labels replaced by offsets.
Assemble(bs) ==
  LET items == FlattenSeq(bs)
      at    == Offsets(items)
      start == << >> \o
               [ k \in 1 .. Len(bs) |->
                   at[1 + Len(FlattenSeq(SubSeq(bs, 1, k - 1)))] ]
  IN  [ listing |-> << >> \o
                    [ i \in 1 .. Len(items) |->
                        [ offset |-> at[i], op |-> items[i][1],
                          data |-> IF items[i][2] < 0 THEN start[-items[i][2]]
                                                      ELSE items[i][2] ] ],
        size    |-> at[Len(items) + 1] ]

\* The beginning of a block: no JUMPDEST, one, the entry of a function that pushes
\* the block it returns to, at once or after a check, or that pushes a constant.
Head_(h) ==
  CASE h[1] = "plain"    -> << >>
    [] h[1] = "dest"     -> << I("JUMPDEST") >>
    [] h[1] = "checked"  -> << I("JUMPDEST"), I("OTHER"), Push(-h[2]) >>
    [] h[1] = "pushes"   -> << I("JUMPDEST"), Push(h[2]) >>
    [] h[1] = "function" -> << I("JUMPDEST"), Push(-h[2]) >>

\* The end of a block: a halt, a fall into the next, a jump back to the caller, one
\* with the STOP behind it that stands before a contract's metadata, a jump or a
\* branch to block t[2], the call of block t[2] that returns to block t[3], or the
\* dispatch of selector t[3] to block t[2].
Tail_(t) ==
  CASE t[1] = "stop"   -> << I("STOP") >>
    [] t[1] = "return" -> << I("RETURN") >>
    [] t[1] = "revert" -> << I("REVERT") >>
    [] t[1] = "invalid" -> << I("INVALID") >>
    [] t[1] = "fall"   -> << I("OTHER") >>
    [] t[1] = "leave"  -> << I("OTHER"), I("JUMP") >>
    [] t[1] = "last"   -> << I("OTHER"), I("JUMP"), I("STOP") >>
    [] t[1] = "goto"   -> << Push(-t[2]), I("JUMP") >>
    [] t[1] = "if"     -> << I("VALUE"), Push(-t[2]), I("JUMPI") >>
    [] t[1] = "invoke" -> << Push(-t[3]), Push(-t[2]), I("JUMP") >>
    [] t[1] = "select" -> << I("OTHER"), Push4(t[3]), I("EQ"), Push(-t[2]), I("JUMPI") >>

B(h, t) == Head_(h) \o Tail_(t)

\* A block with a body in between.
BB(h, ops, t) == Head_(h) \o [ k \in DOMAIN ops |-> I(ops[k]) ] \o Tail_(t)

Plain == << "plain" >>
Dest  == << "dest" >>
=============================================================================
