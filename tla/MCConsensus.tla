---------------------------- MODULE MCConsensus ----------------------------
(* Consensus with hashes of two bytes of two bits.                         *)
EXTENDS Consensus

\* Hashes with no, one, two and all leading zeros.
FourDigests == {<<1, 0>>, <<2, 3>>, <<0, 1>>, <<0, 0>>}
=============================================================================
