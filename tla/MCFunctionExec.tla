--------------------------- MODULE MCFunctionExec ---------------------------
(***************************************************************************)
(* Contracts for FunctionExec: two functions of a dispatch, with calls and *)
(* stores in their blocks, that may share a subroutine.                    *)
(***************************************************************************)
EXTENDS FunctionExec, Assembler

\* What follows a branch is not jumped to; what follows a jump is.
Behind(t) == IF t[1] = "if" THEN Plain ELSE Dest

\* Block 7 is where the functions return, 8 the shared block, 9 and 10 follow.
Contract(first, t1, second, rest) ==
  Assemble(<< B(Plain, << "select", 4, 7 >>), B(Plain, << "select", 6, 8 >>),
              B(Plain, << "stop" >>),
              first, B(Behind(t1), << "return" >>), second, B(Dest, << "stop" >>) >>
             \o rest)

Bodies == { << >>, << "CALL" >>, << "SSTORE" >> }

TwoFunctions ==
  { Contract(BB(h, b1, t1), t1, BB(<< "function", 7 >>, b2, t2),
             << BB(Dest, b3, t3), BB(Dest, b4, << "leave" >>),
                B(Dest, t5) >>) :
      h \in {<< "function", 7 >>, << "checked", 7 >>},
      b1, b2 \in {<< >>, << "CALL" >>}, b3 \in Bodies,
      b4 \in {<< >>, << "SSTORE" >>},
      t1 \in {<< "goto", 8 >>, << "if", 8 >>, << "invoke", 8, 9 >>},
      t2 \in {<< "if", 9 >>, << "invoke", 8, 10 >>},
      t3 \in {<< "leave" >>, << "invalid" >>, << "if", 9 >>},
      t5 \in {<< "leave" >>, << "revert" >>, << "last" >>} }

\* A subroutine called twice in a row: block 8, from blocks 4 and 9.
CalledTwice ==
  { Contract(B(<< "function", 7 >>, << "invoke", 8, 9 >>), << "invoke", 8, 9 >>,
             B(<< "function", 7 >>, << "stop" >>),
             << B(Dest, << "leave" >>),
                BB(Dest, << "SSTORE" >>, << "invoke", 8, 10 >>),
                B(Dest, << "leave" >>) >>) }
=============================================================================
