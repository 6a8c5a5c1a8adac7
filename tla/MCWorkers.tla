----------------------------- MODULE MCWorkers -----------------------------
(* Workers with two clients.                                               *)
EXTENDS Workers

CONSTANTS c1, c2

TwoClients == {c1, c2}
=============================================================================
