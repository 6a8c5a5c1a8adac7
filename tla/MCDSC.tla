------------------------------- MODULE MCDSC -------------------------------
(* DSC with two validators and one or two keys.                            *)
EXTENDS DSC

CONSTANTS t1, t2, v1, v2

OneKey == {t1}
TwoKeys == {t1, t2}
TwoValidators == {v1, v2}
=============================================================================
