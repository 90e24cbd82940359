---------------------------- MODULE MCBlockGraph ----------------------------
(***************************************************************************)
(* Contracts for BlockGraph: every sequence of three blocks over a small   *)
(* set of shapes.                                                          *)
(***************************************************************************)
EXTENDS BlockGraph, Assembler

Heads == { Plain, Dest, << "function", 3 >> }
Tails == { << "stop" >>, << "revert" >>, << "fall" >>, << "leave" >>,
           << "return" >>, << "goto", 3 >>, << "if", 2 >>, << "if", 3 >>,
           << "select", 2, 7 >>, << "select", 3, 8 >> }
Shapes == { B(h, t) : h \in Heads, t \in Tails }

ThreeBlocks == { Assemble(bs) : bs \in [1 .. 3 -> Shapes] }
=============================================================================
