---------------------------- MODULE MCConditions ----------------------------
(* Code, stacks and inputs for Conditions: words of three bits.              *)
EXTENDS Conditions

\* Any two instructions; what ends in an if; what ends in a store.
SomeCodes ==
  { << Insts, Insts >>,
    << Insts, Insts \ {"SLT", "SGT"}, {"LT", "GT", "EQ", "ISZERO", "JUMPDEST"},
       {"ISZERO", "SSTORE", "DUP", "SWAP"}, {"PUSH", "SSTORE"}, {"PUSH", "JUMPI"},
       {"JUMPI"} >>,
    << Insts, Insts \ {"SLT", "SGT"}, {"SWAP", "DUP", "PUSH"}, {"SSTORE"} >> }

Hex(v)   == [of |-> "hex", at |-> v]
Arg(k)   == [of |-> "arg", at |-> k]
Store(k) == [of |-> "store", at |-> k]

SomeStacks ==
  { << >>, << Arg(1), Hex(3) >>, << Hex(3), Store(0), Arg(1) >>,
    << Hex(0), Arg(1), Hex(2), Store(0) >>, << Hex(3), Arg(1), Arg(2) >> }

SomePushes == {0, 3, 5}

\* The arguments given, those of a call, and the storage differ.
TwoWorlds ==
  { [ m_data   |-> [ k \in Word |-> IF k = 1 THEN 4 ELSE 0 ],
      calldata |-> [ k \in Word |-> IF k = 1 THEN 3 ELSE 7 - k ],
      storage  |-> [ k \in Word |-> IF k = 0 THEN 5 ELSE 1 ] ],
    [ m_data   |-> [ k \in Word |-> 7 - k ],
      calldata |-> [ k \in Word |-> 0 ],
      storage  |-> [ k \in Word |-> k ] ] }
=============================================================================
