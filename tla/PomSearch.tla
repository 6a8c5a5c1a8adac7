----------------------------- MODULE PomSearch -----------------------------
(* Proof of memory (pom.cpp): a validator keeps a sorted table of hashes   *)
(* and answers a challenge with one that agrees with the target in the     *)
(* first `difficulty` bits.  prefix_binary_search looks for one with the   *)
(* comparison the table was sorted by, lexicographic by bytes, whereas     *)
(* check_prefix counts the bits of a byte from the least significant.      *)
(* BLAKE3 (external/) is left out: the table and the target are any.       *)
EXTENDS HashBits, Sequences, SequencesExt

CONSTANTS MaxTable \* bound: entries of the table

VARIABLES hashes,      \* the table, sorted
          target,      \* hash of the previous block's hash
          difficulty,
          l, r,        \* locals of the search, indices from 0
          idx,         \* its result, -1 for none
          pc

vars == <<hashes, target, difficulty, l, r, idx, pc>>

\* Mutant: bytes are compared from the last one.
LessFromLast(g, h) ==
  \E i \in 1..BytesPerHash : g[i] < h[i] /\ \A j \in i + 1..BytesPerHash : g[j] = h[j]

\* std::array's operator <.
Less(g, h) == \E i \in 1..BytesPerHash : g[i] < h[i] /\ \A j \in 1..i - 1 : g[j] = h[j]

Sorted(s) == \A i \in 1..Len(s) - 1 : ~Less(s[i + 1], s[i])

CheckPrefix(h, t, d) == \A k \in 0..d - 1 : Bit(h, k) = Bit(t, k)

(* hashes.resize and std::sort in gen_hashes; any difficulty may come back *)
(* from the metronome, which has no upper bound for it.                    *)
Init ==
  /\ hashes \in {s \in BoundedSeq(Hash, MaxTable) : Sorted(s)}
  /\ target \in Hash
  /\ difficulty \in 0..Bits + 1
  /\ l = 0 /\ r = Len(hashes) - 1
  /\ idx = -1
  /\ pc = "loop"

TypeOK ==
  /\ hashes \in Seq(Hash) /\ Len(hashes) <= MaxTable
  /\ target \in Hash
  /\ difficulty \in 0..Bits + 1
  /\ l \in 0..Len(hashes) /\ r \in -1..Len(hashes) - 1
  /\ idx \in -1..Len(hashes) - 1
  /\ pc \in {"loop", "done", "thrown"}

-----------------------------------------------------------------------------
Middle == l + (r - l) \div 2

\* Mutants of the next bounds: one too far, not far enough.
RightOfNext(i) == i + 2
LeftOfSame(i)  == i

RightOf(i) == i + 1
LeftOf(i)  == i - 1

Entry(i) == hashes[i + 1]

(* "Bad difficulty.": check_prefix throws, and the validator ends.         *)
BadDifficulty ==
  /\ pc = "loop" /\ l <= r
  /\ difficulty > Bits
  /\ pc' = "thrown"
  /\ UNCHANGED <<hashes, target, difficulty, l, r, idx>>

Found ==
  /\ pc = "loop" /\ l <= r
  /\ difficulty <= Bits
  /\ CheckPrefix(Entry(Middle), target, difficulty)
  /\ idx' = Middle
  /\ pc' = "done"
  /\ UNCHANGED <<hashes, target, difficulty, l, r>>

Narrow ==
  /\ pc = "loop" /\ l <= r
  /\ difficulty <= Bits
  /\ ~CheckPrefix(Entry(Middle), target, difficulty)
  /\ IF Less(Entry(Middle), target)
     THEN l' = RightOf(Middle) /\ UNCHANGED r
     ELSE r' = LeftOf(Middle) /\ UNCHANGED l
  /\ UNCHANGED <<hashes, target, difficulty, idx, pc>>

Exhausted ==
  /\ pc = "loop" /\ l > r
  /\ pc' = "done"
  /\ UNCHANGED <<hashes, target, difficulty, l, r, idx>>

Next == BadDifficulty \/ Found \/ Narrow \/ Exhausted

Spec == Init /\ [][Next]_vars

-----------------------------------------------------------------------------
\* The table's entries that agree with the target in the first d bits.
Matches(d) == {i \in 0..Len(hashes) - 1 : CheckPrefix(Entry(i), target, d)}

NoneFound == pc = "done" /\ idx = -1

\* d rounded up to whole bytes.
WholeBytes(d) == ((d + BitsPerByte - 1) \div BitsPerByte) * BitsPerByte

(* The two orders agree on whole bytes: the search may give up although    *)
(* there is a solution, but never past an entry that agrees with the target*)
(* in every byte the difficulty reaches into.                              *)
WholeBytesNotMissed == NoneFound => Matches(WholeBytes(difficulty)) = {}

(* "No solution found in %lu hashes." (pom.cpp:112) is printed only if     *)
(* none of them is one.  MIN_DIFFICULTY, 20, is no multiple of 8.          *)
MissesNothing == NoneFound => Matches(difficulty) = {}
=============================================================================
