------------------------------ MODULE MCWallet ------------------------------
(* Wallet with three commands, and a counter that begins at zero or just   *)
(* below what a uint32_t holds.                                            *)
EXTENDS Wallet, TLC

CONSTANTS c1, c2, c3

ThreeCommands == {c1, c2, c3}
SomeNonces == {0, Width - 1}
SomeCounts == {-1, 0, 1, 2}

\* Commands are alike; a key is renamed with the command that created it.
Symmetry == Permutations(ThreeCommands)
=============================================================================
