------------------------------ MODULE MCTxPool ------------------------------
(* TxPool with two validators competing over blocks of one batch slot and  *)
(* over blocks large enough for every transaction.                         *)
EXTENDS TxPool

CONSTANTS t1, t2, v1, v2

TwoKeys == {t1, t2}
TwoValidators == {v1, v2}
=============================================================================
