---------------------------- MODULE MCContracts -----------------------------
(* Single contracts for BlockGraph, each of which shows one thing.           *)
EXTENDS BlockGraph, Assembler

\* Two selectors whose functions have the same code share one entry: the second
\* dispatch overwrites the selector of the first.
SharedEntry ==
  { Assemble(<< B(Plain, << "select", 4, 7 >>), B(Plain, << "select", 4, 8 >>),
                B(Plain, << "stop" >>), B(Dest, << "stop" >>) >>) }
=============================================================================
