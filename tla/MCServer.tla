------------------------------ MODULE MCServer ------------------------------
(* Server with three worker threads and three validators.                  *)
EXTENDS Server

CONSTANTS w1, w2, w3, v1, v2, v3

ThreeThreads == {w1, w2, w3}
ThreeValidators == {v1, v2, v3}
=============================================================================
