---------------------------- MODULE MCCodeLoader ----------------------------
(* All byte codes up to a length over one byte of each kind.                 *)
EXTENDS CodeLoader

CONSTANT MaxLen      \* bound on the length of the code

ByteKinds == { "STOP", "CODECOPY", "RETURN", "PUSH1", "PUSH2", "ADD", "0x0c" }
Instructions == ByteKinds \ {"0x0c"}
Operands == [ b \in ByteKinds |->
                CASE b = "PUSH1" -> 1 [] b = "PUSH2" -> 2 [] OTHER -> 0 ]

AllCodes == UNION { [1 .. n -> ByteKinds] : n \in 0 .. MaxLen }
=============================================================================
