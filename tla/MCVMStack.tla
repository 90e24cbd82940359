----------------------------- MODULE MCVMStack ------------------------------
(* Instruction sets for VMStack.                                             *)
EXTENDS VMStack

Plain(S) == [inst : S, n : {0}]

\* Every instruction; the first and the last of a numbered family.
AllOps ==
  Plain(Insts \ {"DUP", "SWAP"})
    \cup [inst : {"DUP", "SWAP"}, n : {1, 16}]
    \cup [inst : {"LOG"}, n : {1, 4}]

\* Empty, one below what CALL asks for, what it takes, and enough for all.
SomeDepths == {0, 5, 7, 17}

TwoResults == {0, 40}
TwoOffsets == {0, 50}
=============================================================================
