---------------------------- MODULE MCBlockChain ----------------------------
(* BlockChain with two accounts and balances modulo 4: rewards, transfers, *)
(* overdrafts, and an account that pays itself before it is known.         *)
EXTENDS BlockChain

CONSTANTS a, b

TwoAccounts == {a, b}

Pay(src, dest, amount) == [src |-> src, dest |-> dest, amount |-> amount]

\* genesis.yaml has an account pay itself, several times.
SelfPaid == <<Pay(a, a, 1), Pay(a, a, 2)>>

SomeBodies == {<<>>, <<Pay(Nobody, a, 3), Pay(b, b, 2)>>, <<Pay(b, a, 2)>>}
=============================================================================
