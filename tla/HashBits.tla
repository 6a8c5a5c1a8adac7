------------------------------ MODULE HashBits ------------------------------
(* Blake3Hash (defs.hpp): bytes, and the order in which both consensus     *)
(* models count a byte's bits, from the least significant one.             *)
EXTENDS Integers, FiniteSets

CONSTANTS BitsPerByte,  \* 8 in the code
          BytesPerHash  \* 32 in the code

ASSUME HashBitsAssumption ==
  /\ BitsPerByte \in Nat \ {0}
  /\ BytesPerHash \in Nat \ {0}

\* 2^n, as a function that can be reasoned about.
Exp2[n \in Nat] == IF n = 0 THEN 1 ELSE 2 * Exp2[n - 1]

Byte == 0..Exp2[BitsPerByte] - 1
Hash == [1..BytesPerHash -> Byte]
Bits == BytesPerHash * BitsPerByte

NullHash == [i \in 1..BytesPerHash |-> 0]

\* The k-th bit of a hash, from 0.
Bit(h, k) == (h[k \div BitsPerByte + 1] \div Exp2[k % BitsPerByte]) % 2
=============================================================================
