--------------------------- MODULE MCConnectNodes ---------------------------
(***************************************************************************)
(* Contracts for ConnectNodes: a dispatch of two selectors, the two        *)
(* functions, the block they return to and the blocks they may share.      *)
(***************************************************************************)
EXTENDS ConnectNodes, Assembler

Contract(entry1, entry2, shared) ==
  Assemble(<< B(Plain, << "select", 4, 7 >>), B(Plain, << "select", 6, 8 >>),
              B(Plain, << "stop" >>),
              entry1, B(Dest, << "stop" >>), entry2, B(Dest, << "stop" >>) >>
             \o shared)

Enter == { << "goto", 8 >>, << "if", 8 >>, << "if", 9 >> }
Ends  == { << "stop" >>, << "leave" >> }

\* Functions without a loop.  The second may push a constant first: an offset
\* inside the first instructions, or that of the contract's first block.
Entries ==
  { << t, << "function", 7 >> >> : t \in Enter }
    \cup { << << "if", 8 >>, << "pushes", o >> >> : o \in {0, 2} }

ForwardContracts ==
  { Contract(B(<< "function", 7 >>, e[1]), B(e[2], t2),
             << B(Dest, s1), B(Dest, s2), B(Dest, s3) >>) :
      e \in Entries, t2 \in Enter \cup {<< "leave" >>},
      s1 \in Ends \cup {<< "fall" >>, << "if", 9 >>, << "if", 10 >>},
      s2 \in Ends \cup {<< "fall" >>, << "if", 10 >>},
      s3 \in Ends }

\* while (c) ...: block 8 branches out of the loop, block 9 jumps back to it.
Loop ==
  { Contract(B(<< "function", 7 >>, << "goto", 8 >>),
             B(<< "function", 7 >>, << "stop" >>),
             << B(Dest, << "if", 7 >>), B(Plain, << "goto", 8 >>) >>) }

\* A function that checks the value it is sent before it pushes anything else.
ValueCheck ==
  { Contract(B(<< "checked", 7 >>, << "goto", 8 >>),
             B(<< "function", 7 >>, << "stop" >>),
             << B(Dest, << "leave" >>) >>) }
=============================================================================
