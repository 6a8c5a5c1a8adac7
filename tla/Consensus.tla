----------------------------- MODULE Consensus -----------------------------
(* A validator's round (validator.cpp) with the consensus model the        *)
(* configuration chooses (dsc.cpp): solve_hash of PowSearch or PomSearch,  *)
(* and what the validator makes of its answer.  An exception ends it.      *)
EXTENDS HashBits, Sequences

CONSTANTS MaxTable, Digests, NonceBytes, MaxNonce

ASSUME ConsensusAssumption ==
  /\ MaxTable \in Nat /\ MaxNonce \in Nat
  /\ NonceBytes \in 0..BytesPerHash
  /\ MaxNonce <= Exp2[BitsPerByte * NonceBytes]

VARIABLES model,                 \* the consensus model
          difficulty, pc,        \* of the search
          hashes, target, l, r, idx,
          base, input, nonce, hashed,
          outcome                \* of the round

pomVars == <<hashes, target, l, r, idx>>
powVars == <<base, input, nonce, hashed>>
vars    == <<model, difficulty, pc, pomVars, powVars, outcome>>

Pom == INSTANCE PomSearch
Pow == INSTANCE PowSearch

TypeOK ==
  /\ model \in {"pom", "pow"}
  /\ Pom!TypeOK
  /\ Pow!TypeOK
  /\ outcome \in {"none", "again", "block"}

\* The variables of the model that is not used have some value.
NoPom == hashes = <<>> /\ target = NullHash /\ l = 0 /\ r = -1 /\ idx = -1
NoPow == base = NullHash /\ input = NullHash /\ nonce = 0 /\ hashed = <<>>

Init ==
  /\ \/ model = "pom" /\ Pom!Init /\ NoPow
     \/ model = "pow" /\ Pow!Init /\ NoPom
  /\ outcome = "none"

-----------------------------------------------------------------------------
SolvePom ==
  /\ model = "pom"
  /\ Pom!Next
  /\ UNCHANGED <<model, powVars, outcome>>

SolvePow ==
  /\ model = "pow"
  /\ Pow!Next
  /\ UNCHANGED <<model, pomVars, outcome>>

Solution ==
  IF model = "pow" THEN input
  ELSE IF idx = -1 THEN NullHash ELSE hashes[idx + 1]

(* is_null_hash, then the next header or create_block and submit_block.    *)
Judge ==
  /\ pc = "done" /\ outcome = "none"
  /\ outcome' = IF Solution = NullHash THEN "again" ELSE "block"
  /\ UNCHANGED <<model, difficulty, pc, pomVars, powVars>>

Next == SolvePom \/ SolvePow \/ Judge

Spec == Init /\ [][Next]_vars

\* The validator's one thread runs.
FairSpec == Spec /\ WF_vars(Next)

-----------------------------------------------------------------------------
(* Every round ends, in a block, in another header or in the exception,    *)
(* for every difficulty the metronome may send.                            *)
RoundEnds == <>(outcome # "none" \/ pc = "thrown")

(* What is mined has the bits the difficulty asks for (with proof of work: *)
(* verify_solution accepts it), and a proof-of-work round gives up only if *)
(* no input it tried has, but for the one that looks like no solution.     *)
MinedIffSolved ==
  /\ outcome = "block" =>
       IF model = "pow" THEN Pow!VerifySolution(Solution)
       ELSE Pom!CheckPrefix(Solution, target, difficulty)
  /\ outcome = "again" /\ model = "pow" =>
       \A i \in DOMAIN hashed : Pow!VerifySolution(i) => i = NullHash

(* Proof of work tries no input twice, although the nonce's bytes are added*)
(* to the base without a carry.                                            *)
NoInputRepeated == model = "pow" => Pow!NoInputRepeated

(* Proof of memory may give up although there is a solution, but never if  *)
(* an entry agrees with the target in every byte the difficulty reaches.   *)
WholeBytesNotMissed == model = "pom" => Pom!WholeBytesNotMissed
=============================================================================
