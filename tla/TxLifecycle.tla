---------------------------- MODULE TxLifecycle ----------------------------
(* What the pool promises a client about a transaction it posts: the       *)
(* status a query reports.                                                 *)
(*                                                                         *)
(*   UNKNOWN --> SUBMITTED <--> UNCONFIRMED --> CONFIRMED                  *)
(*                                                                         *)
(* It moves along these arrows only: it never becomes unknown again, it is *)
(* confirmed from a batch, and confirmed is final.  A key that was posted  *)
(* again may fall back from any status.                                    *)
CONSTANTS Tx

VARIABLES status,
          repeated   \* keys posted more than once

vars == <<status, repeated>>

Init ==
  /\ status = [tx \in Tx |-> "UNKNOWN"]
  /\ repeated = {}

Post(tx) ==
  /\ status' = [status EXCEPT ![tx] = "SUBMITTED"]
  /\ repeated' = IF status[tx] = "UNKNOWN" THEN repeated ELSE repeated \cup {tx}

MayMove(tx, from) == status[tx] = from \/ tx \in repeated

\* The keys `batch` are handed to a validator.
Take(batch) ==
  /\ \A tx \in batch : MayMove(tx, "SUBMITTED")
  /\ status' = [tx \in Tx |-> IF tx \in batch THEN "UNCONFIRMED" ELSE status[tx]]
  /\ UNCHANGED repeated

Return(tx) ==
  /\ MayMove(tx, "UNCONFIRMED")
  /\ status' = [status EXCEPT ![tx] = "SUBMITTED"]
  /\ UNCHANGED repeated

Settle(tx) ==
  /\ status[tx] = "UNCONFIRMED"
  /\ status' = [status EXCEPT ![tx] = "CONFIRMED"]
  /\ UNCHANGED repeated

Next ==
  \/ \E tx \in Tx : Post(tx) \/ Return(tx) \/ Settle(tx)
  \/ \E batch \in SUBSET Tx : Take(batch)

Spec == Init /\ [][Next]_vars
=============================================================================
