------------------------------ MODULE ChainLog ------------------------------
(* What the validators, the metronome and the blockchain promise together: *)
(* one append-only chain.  A block is only ever added behind the last one, *)
(* has the next id and names the last one's hash; no block is changed or   *)
(* taken back.                                                             *)
EXTENDS Naturals, Sequences, SequencesExt

CONSTANTS Block,   \* records with at least the fields id, hash and prev
          Genesis

VARIABLE log

Extends(b, tip) == b.id = tip.id + 1 /\ b.prev = tip.hash

Init == log = <<Genesis>>

AppendBlock(b) ==
  /\ b \in Block
  /\ Extends(b, Last(log))
  /\ log' = Append(log, b)

\* The block appended is the last one of the new log.
Next == AppendBlock(Last(log'))

Spec == Init /\ [][Next]_log
=============================================================================
