----------------------------- MODULE PowSearch -----------------------------
(* Proof of work (pow.cpp): from a random base, inputs are tried until one *)
(* hashes to enough leading zeros or the block's time is over.  BLAKE3     *)
(* (external/) is an oracle: an input it has not seen has any hash of      *)
(* Digests, one it has seen the same as before.                            *)
EXTENDS HashBits

CONSTANTS Digests,    \* what BLAKE3 may return
          NonceBytes, \* 8 in the code
          MaxNonce    \* bound: the time is over after this many attempts

VARIABLES base, input,
          nonce,
          hashed,     \* the oracle's answers so far, a function
          difficulty,
          pc

vars == <<base, input, nonce, hashed, difficulty, pc>>

Init ==
  /\ base \in Hash
  /\ input = base
  /\ nonce = 0
  /\ hashed = <<>>
  /\ difficulty \in 0..Bits + 1
  /\ pc = "loop"

TypeOK ==
  /\ base \in Hash /\ input \in Hash
  /\ nonce \in 0..MaxNonce
  /\ DOMAIN hashed \subseteq Hash
  /\ difficulty \in 0..Bits + 1
  /\ pc \in {"loop", "done", "thrown"}

-----------------------------------------------------------------------------
\* Mutant: the nonce is a single byte.
NonceFirstByte(i) == IF i = 1 THEN nonce % Exp2[BitsPerByte] ELSE 0

\* The i-th byte of the nonce.
NonceByte(i) == (nonce \div Exp2[BitsPerByte * (i - 1)]) % Exp2[BitsPerByte]

\* Each byte is added on its own, without a carry.
NextInput ==
  [i \in 1..BytesPerHash |->
     IF i <= NonceBytes THEN (base[i] + NonceByte(i)) % Exp2[BitsPerByte] ELSE base[i]]

CheckLeadingZeros(h, d) == \A k \in 0..d - 1 : Bit(h, k) = 0

(* One turn of the loop: the next input has the hash `digest`.             *)
Try(digest) ==
  /\ pc = "loop"
  /\ nonce < MaxNonce
  /\ NextInput \in DOMAIN hashed => digest = hashed[NextInput]
  /\ input' = NextInput
  /\ hashed' = [x \in DOMAIN hashed \cup {NextInput} |->
                  IF x = NextInput THEN digest ELSE hashed[x]]
  /\ UNCHANGED <<base, difficulty>>

BadDifficulty(digest) ==
  /\ difficulty > Bits
  /\ Try(digest)
  /\ pc' = "thrown"
  /\ UNCHANGED nonce

Solved(digest) ==
  /\ difficulty <= Bits /\ CheckLeadingZeros(digest, difficulty)
  /\ Try(digest)
  /\ pc' = "done"
  /\ UNCHANGED nonce

Missed(digest) ==
  /\ difficulty <= Bits /\ ~CheckLeadingZeros(digest, difficulty)
  /\ Try(digest)
  /\ nonce' = nonce + 1
  /\ UNCHANGED pc

\* Mutant: the last input that was tried is returned.
LastInput == input

ExpiredInput == NullHash

(* The clock is past end_time, possibly before the first attempt.          *)
Expired ==
  /\ pc = "loop"
  /\ input' = ExpiredInput
  /\ pc' = "done"
  /\ UNCHANGED <<base, nonce, hashed, difficulty>>

Next ==
  \/ \E digest \in Digests : BadDifficulty(digest) \/ Solved(digest) \/ Missed(digest)
  \/ Expired

\* verify_solution hashes the input again.
VerifySolution(solution) ==
  solution \in DOMAIN hashed /\ CheckLeadingZeros(hashed[solution], difficulty)

\* As many inputs as attempts: adding byte by byte repeats none.
NoInputRepeated == pc = "loop" => Cardinality(DOMAIN hashed) = nonce
=============================================================================
