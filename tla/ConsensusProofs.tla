-------------------------- MODULE ConsensusProofs --------------------------
(* Theorems about module Consensus: for every table, target, base, answer  *)
(* of BLAKE3 and difficulty, and hashes and nonces of any size.            *)
EXTENDS Consensus, FiniteSetTheorems, WellFoundedInduction, TLAPS

-----------------------------------------------------------------------------
(* Induction over the natural numbers, without an operator as a parameter: *)
(* a set of them that is not empty has a least element.                    *)
Below == {p \in Nat \X Nat : p[1] < p[2]}

LEMMA LeastNat ==
  ASSUME NEW T, T \subseteq Nat, T # {}
  PROVE  \E n \in T : \A m \in T : n <= m
<1>1. IsWellFoundedOn(Below, Nat) BY NatLessThanWellFounded DEF OpToRel, Below
<1>2. \E n \in T : \A m \in T : ~(<<m, n>> \in Below) BY <1>1, WFMin
<1>3. \A n, m \in Nat : <<m, n>> \in Below <=> m < n BY DEF Below
<1>4. \A n, m \in T : ~(m < n) => n <= m OBVIOUS
<1> QED BY <1>2, <1>3, <1>4

-----------------------------------------------------------------------------
(* The beginnings of the powers of two exist, agree, and so make up Exp2.  *)
Powers(g, n) == /\ g \in [0..n -> Nat \ {0}]
                /\ g[0] = 1 /\ \A i \in 1..n : g[i] = 2 * g[i - 1]

LEMMA PowersExist == ASSUME NEW n \in Nat PROVE \E g : Powers(g, n)
<1> DEFINE T == {m \in Nat : ~\E g : Powers(g, m)}
<1> SUFFICES ASSUME T # {} PROVE FALSE OBVIOUS
<1>1. PICK m \in T : \A k \in T : m <= k BY LeastNat
<1>2. CASE m = 0
  <2>1. Powers([i \in 0..0 |-> 1], 0) BY DEF Powers
  <2> QED BY <1>1, <1>2, <2>1
<1>3. CASE m # 0
  <2>1. m - 1 \in Nat /\ ~(m <= m - 1) BY <1>1, <1>3
  <2>2. PICK g : Powers(g, m - 1) BY <1>1, <2>1
  <2> DEFINE h == [i \in 0..m |-> IF i = m THEN 2 * g[m - 1] ELSE g[i]]
  <2>3. h \in [0..m -> Nat \ {0}] BY <2>1, <2>2 DEF Powers
  <2>4. h[0] = 1 BY <1>3, <2>1, <2>2 DEF Powers
  <2>5. ASSUME NEW i \in 1..m PROVE h[i] = 2 * h[i - 1]
    <3>1. i - 1 \in 0..m - 1 /\ h[i - 1] = g[i - 1] BY <2>1
    <3>2. CASE i = m BY <3>1, <3>2
    <3>3. CASE i # m
      <4>1. i \in 1..m - 1 /\ i \in 0..m /\ i # m BY <2>1, <3>3
      <4>2. g[i] = 2 * g[i - 1] BY <2>2, <4>1 DEF Powers
      <4>3. h[i] = g[i] BY <4>1
      <4> HIDE DEF h
      <4> QED BY <3>1, <4>2, <4>3
    <3> QED BY <3>2, <3>3
  <2> HIDE DEF h
  <2>6. Powers(h, m) BY <2>3, <2>4, <2>5 DEF Powers
  <2> QED BY <1>1, <2>6
<1> QED BY <1>2, <1>3

LEMMA PowersAgree ==
  ASSUME NEW n \in Nat, NEW m \in Nat, n <= m, NEW g, NEW h, Powers(g, n), Powers(h, m),
         NEW i \in 0..n
  PROVE  g[i] = h[i]
<1> DEFINE T == {k \in 0..n : g[k] # h[k]}
<1> SUFFICES ASSUME T # {} PROVE FALSE OBVIOUS
<1>0. T \subseteq Nat OBVIOUS
<1>1. PICK k \in T : \A j \in T : k <= j BY <1>0, LeastNat
<1>2. k # 0 BY <1>1 DEF Powers
<1>3. k - 1 \in 0..n /\ k \in 1..n /\ k \in 1..m /\ ~(k <= k - 1) BY <1>1, <1>2
<1>4. g[k - 1] = h[k - 1] BY <1>1, <1>3
<1> QED BY <1>1, <1>3, <1>4 DEF Powers

LEMMA Exp2Is ==
  /\ Exp2 \in [Nat -> Nat \ {0}]
  /\ Exp2[0] = 1 /\ \A n \in Nat : Exp2[n + 1] = 2 * Exp2[n]
<1> DEFINE P(n) == CHOOSE g : Powers(g, n)
           f == [n \in Nat |-> P(n)[n]]
<1>1. \A n \in Nat : Powers(P(n), n) BY PowersExist
<1> HIDE DEF P
<1>2. f \in [Nat -> Nat \ {0}]
  <2>1. \A n \in Nat : P(n)[n] \in Nat \ {0} BY <1>1 DEF Powers
  <2> QED BY <2>1
<1>3. ASSUME NEW n \in Nat PROVE f[n] = IF n = 0 THEN 1 ELSE 2 * f[n - 1]
  <2>1. CASE n = 0 BY <1>1, <2>1 DEF Powers
  <2>2. CASE n # 0
    <3>1. n - 1 \in Nat /\ n - 1 <= n /\ n - 1 \in 0..n - 1 /\ n \in 1..n BY <2>2
    <3>2. P(n)[n] = 2 * P(n)[n - 1] BY <1>1, <3>1 DEF Powers
    <3>3. P(n - 1)[n - 1] = P(n)[n - 1] BY <1>1, <3>1, PowersAgree
    <3> QED BY <2>2, <3>1, <3>2, <3>3
  <2> QED BY <2>1, <2>2
<1>4. f = [n \in Nat |-> IF n = 0 THEN 1 ELSE 2 * f[n - 1]] BY <1>3
<1> HIDE DEF f
<1> DEFINE Q(g) == g = [n \in Nat |-> IF n = 0 THEN 1 ELSE 2 * g[n - 1]]
<1>5. \E g : Q(g) BY <1>4
<1>6. Q(Exp2)
  <2>1. Exp2 = CHOOSE g : Q(g) BY DEF Exp2
  <2> HIDE DEF Q
  <2> QED BY <1>5, <2>1
<1>7. \A n \in Nat : Exp2[n] = IF n = 0 THEN 1 ELSE 2 * Exp2[n - 1] BY <1>6
<1> HIDE DEF Q
<1>8. Exp2 = f
  <2> DEFINE T == {k \in Nat : Exp2[k] # f[k]}
  <2>1. T = {}
    <3> SUFFICES ASSUME T # {} PROVE FALSE OBVIOUS
    <3>1. PICK k \in T : \A j \in T : k <= j BY LeastNat
    <3>2. k # 0 BY <1>3, <1>7, <3>1
    <3>3. k - 1 \in Nat /\ ~(k <= k - 1) BY <3>1, <3>2
    <3>4. Exp2[k - 1] = f[k - 1] BY <3>1, <3>3
    <3> QED BY <1>3, <1>7, <3>1, <3>2, <3>4
  <2>2. Exp2 = [n \in Nat |-> Exp2[n]] BY <1>6 DEF Q
  <2>3. f = [n \in Nat |-> f[n]] BY <1>2
  <2> QED BY <2>1, <2>2, <2>3
<1>9. \A n \in Nat : n + 1 \in Nat /\ n + 1 # 0 /\ (n + 1) - 1 = n OBVIOUS
<1> QED BY <1>2, <1>7, <1>8, <1>9

LEMMA Exp2Sum ==
  ASSUME NEW a \in Nat, NEW b \in Nat
  PROVE  Exp2[a + b] = Exp2[a] * Exp2[b]
<1> DEFINE T == {k \in Nat : Exp2[a + k] # Exp2[a] * Exp2[k]}
<1>1. T = {}
  <2> SUFFICES ASSUME T # {} PROVE FALSE OBVIOUS
  <2>1. PICK k \in T : \A j \in T : k <= j BY LeastNat
  <2>2. k # 0
    <3>1. Exp2[a] \in Nat /\ Exp2[0] = 1 /\ a + 0 = a BY Exp2Is
    <3> QED BY <2>1, <3>1
  <2>3. PICK n \in Nat : k = n + 1 /\ n \notin T
    <3>1. k - 1 \in Nat /\ k = (k - 1) + 1 /\ ~(k <= k - 1) BY <2>1, <2>2
    <3> QED BY <2>1, <3>1
  <2>4. /\ Exp2[a + n] = Exp2[a] * Exp2[n] /\ Exp2[n + 1] = 2 * Exp2[n]
        /\ Exp2[(a + n) + 1] = 2 * Exp2[a + n]
    BY <2>3, Exp2Is
  <2>5. a + (n + 1) = (a + n) + 1 OBVIOUS
  <2>6. 2 * (Exp2[a] * Exp2[n]) = Exp2[a] * (2 * Exp2[n])
    <3>1. Exp2[a] \in Nat /\ Exp2[n] \in Nat BY Exp2Is
    <3> QED BY <3>1, SMT
  <2> QED BY <2>1, <2>3, <2>4, <2>5, <2>6
<1> QED BY <1>1

-----------------------------------------------------------------------------
LEMMA DivIs ==
  ASSUME NEW a \in Nat \ {0}, NEW q \in Int, NEW k \in 0..a - 1
  PROVE  (a * q + k) \div a = q /\ (a * q + k) % a = k
OBVIOUS

LEMMA DivDiv ==
  ASSUME NEW n \in Nat, NEW a \in Nat \ {0}, NEW b \in Nat \ {0}
  PROVE  n \div (a * b) = (n \div a) \div b
<1> DEFINE q == n \div a
           p == q \div b
           u == n - a * q
           v == q - b * p
<1>1. q \in Nat /\ u \in 0..a - 1 OBVIOUS
<1>2. p \in Nat /\ v \in 0..b - 1 BY <1>1
<1> HIDE DEF q, p
<1>3. n - (a * b) * p = u + a * v BY <1>1, <1>2, SMT
<1> HIDE DEF u, v
<1>4. a * b \in Nat \ {0} /\ a * (b - 1) = a * b - a BY SMT
<1>5. a * v <= a * (b - 1) /\ a * v >= 0 BY <1>2, SMT
<1>6. u + a * v \in 0..(a * b) - 1 BY <1>1, <1>2, <1>4, <1>5, SMT
<1>7. n \div (a * b) = p BY <1>2, <1>3, <1>4, <1>6, SMT
<1> QED BY <1>7 DEF p, q

LEMMA DivLess ==
  ASSUME NEW a \in Nat \ {0}, NEW b \in Nat \ {0}, NEW n \in 0..(a * b) - 1
  PROVE  n \div a \in 0..b - 1
<1> DEFINE q == n \div a
<1>1. q \in Nat /\ a * q <= n /\ n \in Nat /\ n < a * b BY SMT
<1> HIDE DEF q
<1>2. ~(q >= b) BY <1>1, SMT
<1> QED BY <1>1, <1>2 DEF q

(* A number is its digits, of w bits each.                                 *)
Digit(n, w, i) == (n \div Exp2[w * i]) % Exp2[w]

SameDigits(n, m, w, len) == \A i \in 0..len - 1 : Digit(n, w, i) = Digit(m, w, i)

LEMMA NextDigit ==
  ASSUME NEW n \in Nat, NEW w \in Nat, NEW i \in Nat
  PROVE  Digit(n \div Exp2[w], w, i) = Digit(n, w, i + 1)
<1>1. w * i \in Nat /\ w + w * i = w * (i + 1) BY SMT
<1>2. Exp2[w * (i + 1)] = Exp2[w] * Exp2[w * i] BY <1>1, Exp2Sum
<1>3. Exp2[w] \in Nat \ {0} /\ Exp2[w * i] \in Nat \ {0} BY <1>1, Exp2Is
<1> QED BY <1>2, <1>3, DivDiv DEF Digit

LEMMA DigitsDetermine ==
  ASSUME NEW w \in Nat, NEW len \in Nat,
         NEW n \in 0..Exp2[w * len] - 1, NEW m \in 0..Exp2[w * len] - 1, SameDigits(n, m, w, len)
  PROVE  n = m
<1> DEFINE T == {k \in Nat : \E a, b \in 0..Exp2[w * k] - 1 : SameDigits(a, b, w, k) /\ a # b}
<1>1. T = {}
  <2> SUFFICES ASSUME T # {} PROVE FALSE OBVIOUS
  <2>1. PICK k \in T : \A j \in T : k <= j BY LeastNat
  <2>2. PICK a \in 0..Exp2[w * k] - 1, b \in 0..Exp2[w * k] - 1 : SameDigits(a, b, w, k) /\ a # b
    BY <2>1
  <2>3. k # 0
    <3>1. Exp2[0] = 1 /\ w * 0 = 0 BY Exp2Is
    <3> QED BY <2>2, <3>1
  <2>4. PICK j \in Nat : k = j + 1 /\ j \notin T
    <3>1. k - 1 \in Nat /\ k = (k - 1) + 1 /\ ~(k <= k - 1) BY <2>1, <2>3
    <3> QED BY <2>1, <3>1
  <2>5. w * j \in Nat /\ w * k \in Nat /\ w * k = w + w * j BY <2>4, SMT
  <2>6. /\ Exp2[w] \in Nat \ {0} /\ Exp2[w * j] \in Nat \ {0} /\ Exp2[w * k] \in Nat \ {0}
        /\ Exp2[w * k] = Exp2[w] * Exp2[w * j]
    <3>1. Exp2[w + w * j] = Exp2[w] * Exp2[w * j] BY <2>5, Exp2Sum
    <3>2. Exp2[w] \in Nat \ {0} BY Exp2Is
    <3>3. Exp2[w * j] \in Nat \ {0} BY <2>5, Exp2Is
    <3>4. Exp2[w * k] \in Nat \ {0} BY <2>5, Exp2Is
    <3> QED BY <2>5, <3>1, <3>2, <3>3, <3>4
  <2>7. a \in Nat /\ b \in Nat BY <2>2, <2>6
  <2> DEFINE x == a \div Exp2[w]
             y == b \div Exp2[w]
  <2>8. x \in 0..Exp2[w * j] - 1 /\ y \in 0..Exp2[w * j] - 1 BY <2>2, <2>6, DivLess
  <2>9. SameDigits(x, y, w, j)
    <3> SUFFICES ASSUME NEW i \in 0..j - 1 PROVE Digit(x, w, i) = Digit(y, w, i) BY DEF SameDigits
    <3>1. i \in Nat /\ i + 1 \in 0..k - 1 BY <2>4
    <3>2. Digit(a, w, i + 1) = Digit(b, w, i + 1) BY <2>2, <3>1 DEF SameDigits
    <3> QED BY <2>7, <3>1, <3>2, NextDigit
  <2> HIDE DEF x, y
  <2>10. x = y BY <2>4, <2>8, <2>9
  <2>11. a % Exp2[w] = b % Exp2[w]
    <3>1. 0 \in 0..k - 1 /\ w * 0 = 0 /\ Exp2[0] = 1 BY <2>4, Exp2Is
    <3>2. a \div 1 = a /\ b \div 1 = b BY <2>7
    <3>3. Digit(a, w, 0) = Digit(b, w, 0) BY <2>2, <3>1 DEF SameDigits
    <3> QED BY <3>1, <3>2, <3>3 DEF Digit
  <2>12. a = Exp2[w] * x + (a % Exp2[w]) /\ b = Exp2[w] * y + (b % Exp2[w])
    <3>1. \A c \in Nat, d \in Nat \ {0} : c = d * (c \div d) + (c % d) OBVIOUS
    <3> QED BY <2>6, <2>7, <3>1 DEF x, y
  <2> QED BY <2>2, <2>10, <2>11, <2>12
<1> QED BY <1>1

-----------------------------------------------------------------------------
(* Bytes and hashes, which are the same in the three modules.              *)
LEMMA Same ==
  /\ Pom!Exp2 = Exp2 /\ Pow!Exp2 = Exp2
  /\ Pom!Hash = Hash /\ Pow!Hash = Hash /\ Pow!NullHash = NullHash
BY DEF Pom!Exp2, Pow!Exp2, Exp2, Hash, Pom!Hash, Pow!Hash, Byte, Pom!Byte, Pow!Byte,
       NullHash, Pow!NullHash

LEMMA ByteIs ==
  /\ BitsPerByte \in Nat /\ Exp2[BitsPerByte] \in Nat \ {0}
  /\ Byte = 0..Exp2[BitsPerByte] - 1 /\ 0 \in Byte
<1>1. BitsPerByte \in Nat /\ Exp2[BitsPerByte] \in Nat \ {0} BY Exp2Is, HashBitsAssumption
<1> QED BY <1>1 DEF Byte

LEMMA NullIs == NullHash \in Hash
BY ByteIs DEF NullHash, Hash

LEMMA ByteAt ==
  ASSUME NEW h \in Hash, NEW i \in 1..BytesPerHash
  PROVE  h[i] \in Int /\ h[i] \in Nat /\ h[i] \in Byte
<1>1. h[i] \in Byte BY Zenon DEF Hash
<1> QED BY <1>1, ByteIs

(* A byte is its bits.                                                     *)
LEMMA ByteOfBits ==
  ASSUME NEW a \in Byte, NEW b \in Byte,
         \A k \in 0..BitsPerByte - 1 : (a \div Exp2[k]) % 2 = (b \div Exp2[k]) % 2
  PROVE  a = b
<1>1. 1 * BitsPerByte = BitsPerByte /\ \A k \in 0..BitsPerByte - 1 : 1 * k = k BY ByteIs
<1>2. Exp2[1] = 2
  <2>1. 0 + 1 = 1 OBVIOUS
  <2> QED BY <2>1, Exp2Is
<1>3. SameDigits(a, b, 1, BitsPerByte) BY <1>1, <1>2 DEF SameDigits, Digit
<1> QED BY <1>1, <1>3, ByteIs, DigitsDetermine

-----------------------------------------------------------------------------
(* The order of the table.                                                 *)
Agree(g, h, m) == \A i \in 1..m : g[i] = h[i]

NotLess(g, h) == ~Pom!Less(g, h)

(* Two hashes that differ do so in a first byte.                           *)
LEMMA FirstDifference ==
  ASSUME NEW m \in Nat, NEW g, NEW h, ~Agree(g, h, m)
  PROVE  \E i \in 1..m : g[i] # h[i] /\ \A j \in 1..i - 1 : g[j] = h[j]
<1> DEFINE T == {i \in 1..m : g[i] # h[i]}
<1>1. T \subseteq Nat /\ T # {} BY DEF Agree
<1>2. PICK i \in T : \A j \in T : i <= j BY <1>1, LeastNat
<1>3. \A j \in 1..i - 1 : j \in 1..m /\ ~(i <= j) BY <1>2
<1> QED BY <1>2, <1>3

LEMMA NotLessTransitive ==
  ASSUME NEW a \in Hash, NEW b \in Hash, NEW c \in Hash,
         NotLess(b, a), NotLess(c, b)
  PROVE  NotLess(c, a)
<1> SUFFICES ASSUME NEW i \in 1..BytesPerHash, c[i] < a[i], \A j \in 1..i - 1 : c[j] = a[j]
             PROVE  FALSE
  BY DEF NotLess, Pom!Less
<1>1. CASE Agree(a, b, i)
  <2>1. c[i] < b[i] /\ \A j \in 1..i - 1 : c[j] = b[j] BY <1>1 DEF Agree
  <2> QED BY <2>1 DEF NotLess, Pom!Less
<1>2. CASE ~Agree(a, b, i)
  <2>1. PICK j \in 1..i : a[j] # b[j] /\ \A k \in 1..j - 1 : a[k] = b[k]
    BY <1>2, FirstDifference
  <2>2. j \in 1..BytesPerHash /\ \A k \in 1..j - 1 : k \in 1..i - 1
    BY <2>1, HashBitsAssumption
  <2>3. ~(b[j] < a[j]) BY <2>1, <2>2 DEF NotLess, Pom!Less
  <2>4. c[j] <= a[j]
    <3>1. j = i \/ j \in 1..i - 1 BY <2>1
    <3>2. CASE j = i
      <4>1. a[j] \in Int /\ c[j] \in Int /\ c[j] < a[j] BY <2>2, <3>2, ByteAt
      <4> QED BY <4>1
    <3>3. CASE j \in 1..i - 1
      <4>1. a[j] \in Int /\ c[j] = a[j] BY <2>2, <3>3, ByteAt
      <4> QED BY <4>1
    <3> QED BY <3>1, <3>2, <3>3
  <2>5. c[j] < b[j]
    <3>1. a[j] \in Int /\ b[j] \in Int /\ c[j] \in Int BY <2>2, ByteAt
    <3> QED BY <2>1, <2>3, <2>4, <3>1
  <2>6. \A k \in 1..j - 1 : c[k] = b[k] BY <2>1, <2>2
  <2> QED BY <2>2, <2>5, <2>6 DEF NotLess, Pom!Less
<1> QED BY <1>1, <1>2

\* No later entry of a sorted table is less than an earlier one.
LEMMA SortedOrder ==
  ASSUME NEW s \in Seq(Hash), Pom!Sorted(s),
         NEW i \in 1..Len(s), NEW j \in 1..Len(s), i <= j
  PROVE  NotLess(s[j], s[i])
<1> DEFINE T == {k \in Nat : i + k <= Len(s) /\ ~NotLess(s[i + k], s[i])}
<1>1. T = {}
  <2> SUFFICES ASSUME T # {} PROVE FALSE OBVIOUS
  <2>1. PICK k \in T : \A m \in T : k <= m BY LeastNat
  <2>2. k # 0
    <3>1. i + 0 = i /\ s[i] \in Hash OBVIOUS
    <3>2. NotLess(s[i], s[i])
      <4>1. \A m \in 1..BytesPerHash : ~(s[i][m] < s[i][m])
        <5>1. \A m \in 1..BytesPerHash : s[i][m] \in Int BY <3>1, ByteAt
        <5> QED BY <5>1
      <4> QED BY <4>1 DEF NotLess, Pom!Less
    <3> QED BY <2>1, <3>1, <3>2
  <2>3. k - 1 \in Nat /\ k - 1 \notin T /\ i + (k - 1) <= Len(s)
    <3>1. k \in Nat /\ i + k <= Len(s) /\ i \in Nat /\ Len(s) \in Nat BY <2>1
    <3>2. k - 1 \in Nat /\ ~(k <= k - 1) /\ i + (k - 1) <= Len(s) BY <2>2, <3>1
    <3> QED BY <2>1, <3>2
  <2>4. NotLess(s[i + (k - 1)], s[i]) BY <2>3
  <2>5. /\ i + (k - 1) \in 1..Len(s) - 1 /\ (i + (k - 1)) + 1 = i + k
        /\ i + k \in 1..Len(s)
    BY <2>1, <2>3
  <2>6. NotLess(s[i + k], s[i + (k - 1)]) BY <2>5 DEF Pom!Sorted, NotLess
  <2>7. s[i] \in Hash /\ s[i + k] \in Hash /\ s[i + (k - 1)] \in Hash BY <2>5
  <2>8. NotLess(s[i + k], s[i]) BY <2>4, <2>6, <2>7, NotLessTransitive
  <2> QED BY <2>1, <2>8
<1>2. j - i \in Nat /\ i + (j - i) = j /\ j <= Len(s) OBVIOUS
<1> QED BY <1>1, <1>2

(* What lies between two hashes that agree in their first bytes agrees with*)
(* both.                                                                   *)
LEMMA AgreeBelow ==
  ASSUME NEW a \in Hash, NEW b \in Hash, NEW t \in Hash,
         NEW m \in 0..BytesPerHash, Agree(a, t, m), NotLess(b, a), Pom!Less(b, t)
  PROVE  Agree(b, t, m)
<1>1. PICK i \in 1..BytesPerHash : b[i] < t[i] /\ \A j \in 1..i - 1 : b[j] = t[j]
  BY DEF Pom!Less
<1>2. CASE i > m
  BY <1>1, <1>2, HashBitsAssumption DEF Agree
<1>3. CASE i <= m
  <2>1. b[i] < a[i] /\ \A j \in 1..i - 1 : b[j] = a[j]
    BY <1>1, <1>3, HashBitsAssumption DEF Agree
  <2> QED BY <2>1 DEF NotLess, Pom!Less
<1> QED BY <1>1, <1>2, <1>3, HashBitsAssumption

LEMMA AgreeAbove ==
  ASSUME NEW a \in Hash, NEW b \in Hash, NEW t \in Hash,
         NEW m \in 0..BytesPerHash, Agree(a, t, m), NotLess(a, b), NotLess(b, t)
  PROVE  Agree(b, t, m)
<1> SUFFICES ASSUME ~Agree(b, t, m) PROVE FALSE OBVIOUS
<1>1. PICK i \in 1..m : b[i] # t[i] /\ \A j \in 1..i - 1 : b[j] = t[j]
  BY FirstDifference
<1>2. i \in 1..BytesPerHash BY HashBitsAssumption
<1>3. ~(b[i] < t[i]) BY <1>1, <1>2 DEF NotLess, Pom!Less
<1>4. a[i] = t[i] /\ \A j \in 1..i - 1 : a[j] = b[j]
  BY <1>1 DEF Agree
<1>5. a[i] \in Int /\ b[i] \in Int /\ t[i] \in Int BY <1>2, ByteAt
<1>6. a[i] < b[i] BY <1>1, <1>3, <1>4, <1>5
<1> QED BY <1>2, <1>4, <1>6 DEF NotLess, Pom!Less

-----------------------------------------------------------------------------
\* The bytes that the first d bits reach into.
Reach(d) == (d + BitsPerByte - 1) \div BitsPerByte

LEMMA ReachRange ==
  ASSUME NEW d \in 0..Pom!Bits
  PROVE  /\ Reach(d) \in 0..BytesPerHash /\ Pom!WholeBytes(d) = BitsPerByte * Reach(d)
         /\ \A k \in 0..d - 1 : k \div BitsPerByte + 1 \in 1..Reach(d)
<1> DEFINE x == d + BitsPerByte - 1
<1>1. /\ BitsPerByte \in Nat \ {0} /\ BytesPerHash \in Nat \ {0}
      /\ d \in 0..BitsPerByte * BytesPerHash
  BY HashBitsAssumption DEF Pom!Bits
<1>2. BitsPerByte * (BytesPerHash + 1) = BitsPerByte * BytesPerHash + BitsPerByte
  BY <1>1, SMT
<1>3. x \in 0..BitsPerByte * (BytesPerHash + 1) - 1 /\ BytesPerHash + 1 \in Nat \ {0}
  BY <1>1, <1>2
<1>4. x \div BitsPerByte \in 0..BytesPerHash
  <2>1. x \div BitsPerByte \in 0..(BytesPerHash + 1) - 1 BY <1>1, <1>3, DivLess
  <2> QED BY <1>1, <2>1
<1>5. Reach(d) = x \div BitsPerByte BY DEF Reach
<1>6. Pom!WholeBytes(d) = BitsPerByte * Reach(d)
  <2>1. Reach(d) \in Nat BY <1>4, <1>5
  <2> QED BY <1>1, <2>1 DEF Pom!WholeBytes, Reach
<1>7. d <= BitsPerByte * Reach(d)
  <2>1. x < BitsPerByte * (x \div BitsPerByte) + BitsPerByte BY <1>1, <1>3, SMT
  <2> QED BY <1>1, <1>4, <1>5, <2>1
<1>8. ASSUME NEW k \in 0..d - 1 PROVE k \div BitsPerByte + 1 \in 1..Reach(d)
  <2>1. Reach(d) \in Nat \ {0} BY <1>1, <1>4, <1>5, <1>7
  <2>2. k \in 0..BitsPerByte * Reach(d) - 1 BY <1>1, <1>7, <2>1
  <2>3. k \div BitsPerByte \in 0..Reach(d) - 1 BY <1>1, <2>1, <2>2, DivLess
  <2> QED BY <2>1, <2>3
<1> QED BY <1>4, <1>5, <1>6, <1>8

\* To agree in all the bits of some bytes is to agree in the bytes ...
LEMMA WholeBytesAgree ==
  ASSUME NEW g \in Hash, NEW t \in Hash, NEW d \in 0..Pom!Bits,
         Pom!CheckPrefix(g, t, Pom!WholeBytes(d))
  PROVE  Agree(g, t, Reach(d))
<1> SUFFICES ASSUME NEW i \in 1..Reach(d) PROVE g[i] = t[i] BY DEF Agree
<1>1. Reach(d) \in 0..BytesPerHash /\ i \in 1..BytesPerHash BY ReachRange, HashBitsAssumption
<1>2. g[i] \in Byte /\ t[i] \in Byte BY <1>1, ByteAt
<1>3. ASSUME NEW k \in 0..BitsPerByte - 1
      PROVE  (g[i] \div Exp2[k]) % 2 = (t[i] \div Exp2[k]) % 2
  <2> DEFINE n == BitsPerByte * (i - 1) + k
  <2>1. /\ BitsPerByte \in Nat \ {0} /\ k \in 0..BitsPerByte - 1
        /\ Reach(d) \in Nat /\ i - 1 \in 0..Reach(d) - 1
    BY <1>1, HashBitsAssumption
  <2>2. n \in 0..BitsPerByte * Reach(d) - 1
    <3>1. /\ BitsPerByte * (i - 1) <= BitsPerByte * (Reach(d) - 1) /\ 0 <= BitsPerByte * (i - 1)
          /\ BitsPerByte * (Reach(d) - 1) = BitsPerByte * Reach(d) - BitsPerByte
      BY <2>1, SMT
    <3> QED BY <2>1, <3>1
  <2>3. n \div BitsPerByte + 1 = i /\ n % BitsPerByte = k
    <3>1. i - 1 \in Int /\ (i - 1) + 1 = i OBVIOUS
    <3>2. n \div BitsPerByte = i - 1 /\ n % BitsPerByte = k BY <2>1, <3>1, DivIs
    <3> QED BY <3>1, <3>2
  <2> HIDE DEF n
  <2>4. Pom!Bit(g, n) = Pom!Bit(t, n) BY <2>2, ReachRange DEF Pom!CheckPrefix
  <2>5. /\ Pom!Bit(g, n) = (g[i] \div Exp2[k]) % 2
        /\ Pom!Bit(t, n) = (t[i] \div Exp2[k]) % 2
    BY <2>3, Same, Zenon DEF Pom!Bit
  <2> QED BY <2>4, <2>5, Zenon
<1> QED BY <1>2, <1>3, ByteOfBits

\* ... and what agrees in the bytes passes the check.
LEMMA AgreePasses ==
  ASSUME NEW g \in Hash, NEW t \in Hash, NEW d \in 0..Pom!Bits,
         Agree(g, t, Reach(d))
  PROVE  Pom!CheckPrefix(g, t, d)
<1> SUFFICES ASSUME NEW k \in 0..d - 1 PROVE Pom!Bit(g, k) = Pom!Bit(t, k)
  BY DEF Pom!CheckPrefix
<1>1. k \div BitsPerByte + 1 \in 1..Reach(d) BY ReachRange
<1>2. g[k \div BitsPerByte + 1] = t[k \div BitsPerByte + 1] BY <1>1, Zenon DEF Agree
<1> QED BY <1>2, Zenon DEF Pom!Bit

-----------------------------------------------------------------------------
(* The search: its bounds never cross by more than one, a result passes the*)
(* check, and until there is one, the entries that agree in whole bytes are*)
(* all between the bounds.                                                 *)
PomInv ==
  /\ model = "pom" =>
       /\ Pom!Sorted(hashes)
       /\ l <= r + 1
       /\ pc = "loop" => idx = -1
       /\ pc = "done" /\ idx = -1 => l > r
       /\ idx # -1 => Pom!CheckPrefix(hashes[idx + 1], target, difficulty)
       /\ idx = -1 => Pom!Matches(Pom!WholeBytes(difficulty)) \subseteq l..r

(* A search step leaves no match outside the new bounds.                   *)
LEMMA NarrowKeepsMatches ==
  ASSUME TypeOK, PomInv, model = "pom", Pom!Narrow,
         NEW i \in Pom!Matches(Pom!WholeBytes(difficulty))
  PROVE  i \in l'..r'
<1> DEFINE m == Pom!Middle
           e == hashes[m + 1]
           g == hashes[i + 1]
           n == Reach(difficulty)
<1>1. /\ l \in Nat /\ r \in Int /\ Len(hashes) \in Nat /\ r <= Len(hashes) - 1 /\ l <= r
      /\ hashes \in Seq(Hash) /\ target \in Hash /\ difficulty \in 0..Pom!Bits
  BY Same, HashBitsAssumption DEF TypeOK, Pom!TypeOK, Pom!Narrow, Pom!Bits
<1>2. m \in l..r BY <1>1 DEF Pom!Middle
<1>3. i \in l..r /\ i \in 0..Len(hashes) - 1
      /\ Pom!CheckPrefix(g, target, Pom!WholeBytes(difficulty))
  BY DEF PomInv, Pom!Narrow, Pom!Matches, Pom!Entry
<1> HIDE DEF m
<1>4. /\ m + 1 \in 1..Len(hashes) /\ i + 1 \in 1..Len(hashes) BY <1>1, <1>2, <1>3
<1>5. e \in Hash /\ g \in Hash BY <1>1, <1>4
<1> HIDE DEF e, g
<1>6. ~Pom!CheckPrefix(e, target, difficulty) BY DEF Pom!Narrow, Pom!Entry, m, e
<1>7. n \in 0..BytesPerHash /\ Agree(g, target, n) BY <1>1, <1>3, <1>5, ReachRange, WholeBytesAgree
<1>8. ~Agree(e, target, n) BY <1>1, <1>5, <1>6, AgreePasses
<1> HIDE DEF n
<1>9. CASE Pom!Less(e, target)
  <2>1. l' = m + 1 /\ r' = r BY <1>9 DEF Pom!Narrow, Pom!Entry, Pom!RightOf, m, e
  <2>2. CASE i <= m
    <3>1. NotLess(e, g)
      BY <1>1, <1>2, <1>3, <1>4, <2>2, SortedOrder DEF PomInv, e, g
    <3> QED BY <1>1, <1>5, <1>7, <1>8, <1>9, <3>1, AgreeBelow
  <2>3. CASE i > m BY <1>1, <1>2, <1>3, <2>1, <2>3
  <2> QED BY <1>2, <1>3, <2>2, <2>3
<1>10. CASE NotLess(e, target)
  <2>1. r' = m - 1 /\ l' = l BY <1>10 DEF Pom!Narrow, Pom!Entry, Pom!LeftOf, NotLess, m, e
  <2>2. CASE i >= m
    <3>1. NotLess(g, e)
      BY <1>1, <1>2, <1>3, <1>4, <2>2, SortedOrder DEF PomInv, e, g
    <3> QED BY <1>1, <1>5, <1>7, <1>8, <1>10, <3>1, AgreeAbove
  <2>3. CASE i < m BY <1>1, <1>2, <1>3, <2>1, <2>3
  <2> QED BY <1>2, <1>3, <2>2, <2>3
<1> QED BY <1>9, <1>10 DEF NotLess

(* The attempts: none before the last has the bits, and what is returned   *)
(* has them, unless it looks like no solution.                             *)
PowInv ==
  model = "pow" =>
    /\ pc = "loop" => \A x \in DOMAIN hashed : ~Pow!VerifySolution(x)
    /\ pc = "done" =>
         IF input = NullHash THEN \A x \in DOMAIN hashed : Pow!VerifySolution(x) => x = NullHash
         ELSE Pow!VerifySolution(input)

OutcomeInv ==
  /\ outcome # "none" => pc = "done"
  /\ outcome = "block" => Solution # NullHash
  /\ outcome = "again" => Solution = NullHash

IInv == TypeOK /\ PomInv /\ PowInv /\ OutcomeInv

LEMMA InitIInv == ASSUME Init PROVE IInv
<1>1. TypeOK
  <2>1. CASE model = "pom" /\ Pom!Init /\ NoPow
    <3>1. hashes \in Seq(Hash) /\ Len(hashes) <= MaxTable /\ Len(hashes) \in Nat
      <4>1. PICK n \in 0..MaxTable : hashes \in [1..n -> Hash]
        BY <2>1, Same DEF Pom!Init, Pom!BoundedSeq, Pom!SeqOf
      <4> QED BY <4>1, ConsensusAssumption
    <3>2. Pom!TypeOK BY <2>1, <3>1, Same, NullIs DEF Pom!Init, Pom!TypeOK
    <3>3. Pow!TypeOK
      BY <2>1, Same, NullIs, ConsensusAssumption DEF Pom!Init, NoPow, Pow!TypeOK, Pow!Bits, Pom!Bits
    <3> QED BY <2>1, <3>2, <3>3 DEF TypeOK, Init
  <2>2. CASE model = "pow" /\ Pow!Init /\ NoPom
    <3>1. Pow!TypeOK BY <2>2, Same, NullIs, ConsensusAssumption DEF Pow!Init, Pow!TypeOK
    <3>2. Pom!TypeOK
      BY <2>2, Same, NullIs, ConsensusAssumption DEF Pow!Init, NoPom, Pom!TypeOK, Pow!Bits, Pom!Bits
    <3> QED BY <2>2, <3>1, <3>2 DEF TypeOK, Init
  <2> QED BY <2>1, <2>2 DEF Init
<1>2. PomInv
  <2> SUFFICES ASSUME model = "pom" PROVE PomInv BY DEF PomInv
  <2>1. Pom!Init BY DEF Init
  <2>2. Len(hashes) \in Nat BY <1>1 DEF TypeOK, Pom!TypeOK
  <2> QED BY <2>1, <2>2 DEF PomInv, Pom!Init, Pom!Matches
<1>3. PowInv BY DEF Init, PowInv, Pow!Init
<1>4. OutcomeInv BY DEF Init, OutcomeInv
<1> QED BY <1>1, <1>2, <1>3, <1>4 DEF IInv

LEMMA PomKeeps == ASSUME IInv, SolvePom PROVE IInv'
<1>1. /\ model = "pom" /\ model' = "pom" /\ pc = "loop" /\ outcome' = outcome
      /\ UNCHANGED <<hashes, target, difficulty, powVars>>
  BY DEF SolvePom, Pom!Next, Pom!BadDifficulty, Pom!Found, Pom!Narrow, Pom!Exhausted
<1>2. /\ l \in 0..Len(hashes) /\ r \in -1..Len(hashes) - 1 /\ Len(hashes) \in Nat
      /\ idx = -1 /\ Pom!Sorted(hashes) /\ l <= r + 1
      /\ Pom!Matches(Pom!WholeBytes(difficulty)) \subseteq l..r
  BY <1>1 DEF IInv, TypeOK, Pom!TypeOK, PomInv
<1>3. Pom!Matches(Pom!WholeBytes(difficulty))' = Pom!Matches(Pom!WholeBytes(difficulty))
  BY <1>1 DEF Pom!Matches, Pom!Entry, Pom!WholeBytes
<1>4. /\ outcome = "none" /\ outcome' = "none"
      /\ pc' \in {"loop", "done", "thrown"}
  BY <1>1 DEF IInv, TypeOK, OutcomeInv, SolvePom, Pom!Next, Pom!BadDifficulty, Pom!Found,
              Pom!Narrow, Pom!Exhausted
<1>5. PowInv' /\ OutcomeInv' BY <1>1, <1>4 DEF PowInv, OutcomeInv
<1>6. Pow!TypeOK' BY <1>1, <1>4 DEF IInv, TypeOK, Pow!TypeOK, powVars
<1>7. Pom!TypeOK' /\ PomInv'
  <2>1. CASE Pom!BadDifficulty
    BY <1>1, <1>2, <1>3, <2>1 DEF IInv, TypeOK, Pom!TypeOK, PomInv, Pom!BadDifficulty
  <2>2. CASE Pom!Exhausted
    BY <1>1, <1>2, <1>3, <2>2 DEF IInv, TypeOK, Pom!TypeOK, PomInv, Pom!Exhausted
  <2>3. CASE Pom!Found
    <3>1. Pom!Middle \in 0..Len(hashes) - 1 BY <1>2, <2>3 DEF Pom!Found, Pom!Middle
    <3>2. /\ idx' = Pom!Middle /\ pc' = "done" /\ UNCHANGED <<l, r>>
          /\ Pom!CheckPrefix(hashes[Pom!Middle + 1], target, difficulty)
      BY <2>3 DEF Pom!Found, Pom!Entry
    <3>3. Pom!TypeOK' BY <1>1, <3>1, <3>2 DEF IInv, TypeOK, Pom!TypeOK
    <3> HIDE DEF Pom!Middle
    <3>4. PomInv' BY <1>1, <1>2, <3>1, <3>2 DEF PomInv
    <3> QED BY <3>3, <3>4
  <2>4. CASE Pom!Narrow
    <3>1. Pom!Middle \in l..r /\ l <= r BY <1>2, <2>4 DEF Pom!Narrow, Pom!Middle
    <3>2. /\ \/ l' = Pom!Middle + 1 /\ r' = r
             \/ r' = Pom!Middle - 1 /\ l' = l
          /\ idx' = -1 /\ pc' = "loop"
      BY <1>1, <1>2, <2>4 DEF Pom!Narrow, Pom!RightOf, Pom!LeftOf
    <3>3. l' \in 0..Len(hashes) /\ r' \in -1..Len(hashes) - 1 /\ l' <= r' + 1
      BY <1>2, <3>1, <3>2
    <3>4. Pom!TypeOK' BY <1>1, <3>2, <3>3 DEF IInv, TypeOK, Pom!TypeOK
    <3>5. Pom!Matches(Pom!WholeBytes(difficulty)) \subseteq l'..r'
      BY <1>1, <2>4, NarrowKeepsMatches DEF IInv
    <3>6. PomInv' BY <1>1, <1>2, <1>3, <3>2, <3>3, <3>5 DEF PomInv
    <3> QED BY <3>4, <3>6
  <2> QED BY <2>1, <2>2, <2>3, <2>4 DEF SolvePom, Pom!Next
<1> QED BY <1>1, <1>4, <1>5, <1>6, <1>7 DEF IInv, TypeOK

-----------------------------------------------------------------------------
(* The n-th input: byte after byte the base's and the nonce's.             *)
InputAt(n) ==
  [i \in 1..BytesPerHash |->
     IF i <= NonceBytes
     THEN (base[i] + Digit(n, BitsPerByte, i - 1)) % Exp2[BitsPerByte] ELSE base[i]]

LEMMA NextInputIs == Pow!NextInput = InputAt(nonce)
BY Same DEF Pow!NextInput, Pow!NonceByte, InputAt, Digit

LEMMA DigitTyped ==
  ASSUME NEW n \in Nat, NEW j \in Nat
  PROVE  Digit(n, BitsPerByte, j) \in Byte
<1>1. BitsPerByte * j \in Nat BY ByteIs, SMT
<1>2. Exp2[BitsPerByte * j] \in Nat \ {0} BY <1>1, Exp2Is
<1>3. \A x \in Int, d \in Nat \ {0} : x % d \in 0..d - 1 /\ x \div d \in Int OBVIOUS
<1>4. n \in Int /\ n \div Exp2[BitsPerByte * j] \in Int BY <1>2, <1>3
<1> QED BY <1>3, <1>4, ByteIs DEF Digit

\* Every byte of an input is what a byte can hold.
LEMMA InputTyped ==
  ASSUME NEW n \in Nat, base \in Hash
  PROVE  InputAt(n) \in Hash
<1>1. ASSUME NEW i \in 1..BytesPerHash
      PROVE  (base[i] + Digit(n, BitsPerByte, i - 1)) % Exp2[BitsPerByte] \in Byte
  <2>1. \A x \in Int, d \in Nat \ {0} : x % d \in 0..d - 1 OBVIOUS
  <2>2. i - 1 \in Nat OBVIOUS
  <2>3. Digit(n, BitsPerByte, i - 1) \in Int /\ base[i] \in Int
    <3>1. Digit(n, BitsPerByte, i - 1) \in Byte BY <2>2, DigitTyped
    <3>2. Byte \subseteq Int BY ByteIs
    <3> QED BY <3>1, <3>2, ByteAt
  <2>4. base[i] + Digit(n, BitsPerByte, i - 1) \in Int BY <2>3
  <2> QED BY <2>1, <2>4, ByteIs
<1>2. \A i \in 1..BytesPerHash : base[i] \in Byte BY ByteAt
<1> QED BY <1>1, <1>2 DEF InputAt, Hash

LEMMA SumDistinct ==
  ASSUME NEW d \in Nat \ {0}, NEW b \in Nat, NEW x \in 0..d - 1, NEW y \in 0..d - 1,
         (b + x) % d = (b + y) % d
  PROVE  x = y
<1> DEFINE p == (b + x) \div d
           q == (b + y) \div d
<1>1. /\ p \in Int /\ q \in Int
      /\ b + x = d * p + ((b + x) % d) /\ b + y = d * q + ((b + y) % d)
  OBVIOUS
<1> HIDE DEF p, q
<1>2. x - y = d * p - d * q BY <1>1
<1>3. d * p - d * q = d * (p - q) BY <1>1, SMT
<1>4. ~(p - q >= 1)
  <2> SUFFICES ASSUME p - q >= 1 PROVE FALSE OBVIOUS
  <2>1. d * (p - q) >= d BY <1>1, SMT
  <2> QED BY <1>2, <1>3, <2>1
<1>5. ~(p - q <= -1)
  <2> SUFFICES ASSUME p - q <= -1 PROVE FALSE OBVIOUS
  <2>1. d * (p - q) <= -d BY <1>1, SMT
  <2> QED BY <1>2, <1>3, <2>1
<1>6. p = q BY <1>1, <1>4, <1>5
<1> QED BY <1>1, <1>2, <1>6

\* No two nonces make the same input: a sum without a carry tells them apart.
LEMMA InputsDiffer ==
  ASSUME base \in Hash, NEW n \in Nat, NEW m \in Nat,
         n < Exp2[BitsPerByte * NonceBytes], m < Exp2[BitsPerByte * NonceBytes],
         InputAt(n) = InputAt(m)
  PROVE  n = m
<1>1. NonceBytes \in Nat /\ BitsPerByte \in Nat /\ BitsPerByte * NonceBytes \in Nat
  BY ConsensusAssumption, HashBitsAssumption
<1>2. ASSUME NEW j \in 0..NonceBytes - 1
      PROVE  Digit(n, BitsPerByte, j) = Digit(m, BitsPerByte, j)
  <2>1. j + 1 \in 1..BytesPerHash /\ j + 1 <= NonceBytes /\ (j + 1) - 1 = j
    BY ConsensusAssumption, HashBitsAssumption
  <2>2. (base[j + 1] + Digit(n, BitsPerByte, j)) % Exp2[BitsPerByte]
          = (base[j + 1] + Digit(m, BitsPerByte, j)) % Exp2[BitsPerByte]
    <3>1. InputAt(n)[j + 1] = InputAt(m)[j + 1] OBVIOUS
    <3> QED BY <2>1, <3>1 DEF InputAt
  <2>3. Digit(n, BitsPerByte, j) \in Byte /\ Digit(m, BitsPerByte, j) \in Byte
    BY <2>1, DigitTyped
  <2>4. base[j + 1] \in Nat BY <2>1, ByteAt
  <2>5. \A d \in Nat \ {0} : \A b \in Nat : \A x, y \in 0..d - 1 : (b + x) % d = (b + y) % d => x = y
    BY SumDistinct
  <2> QED BY <2>2, <2>3, <2>4, <2>5, ByteIs
<1>3. SameDigits(n, m, BitsPerByte, NonceBytes) BY <1>2 DEF SameDigits
<1>4. Exp2[BitsPerByte * NonceBytes] \in Nat BY <1>1, Exp2Is
<1> QED BY <1>1, <1>3, <1>4, DigitsDetermine

-----------------------------------------------------------------------------
LEMMA PowKeeps == ASSUME IInv, SolvePow PROVE IInv'
<1>1. /\ model = "pow" /\ model' = "pow" /\ pc = "loop" /\ pc' \in {"loop", "done", "thrown"}
      /\ outcome' = outcome /\ UNCHANGED <<hashes, target, l, r, idx, base, difficulty>>
  BY DEF SolvePow, Pow!Next, Pow!BadDifficulty, Pow!Solved, Pow!Missed, Pow!Try, Pow!Expired,
         pomVars
<1>2. outcome = "none" BY <1>1 DEF IInv, TypeOK, OutcomeInv
<1>3. PomInv' /\ OutcomeInv' BY <1>1, <1>2 DEF PomInv, OutcomeInv
<1>4. Pom!TypeOK' BY <1>1 DEF IInv, TypeOK, Pom!TypeOK
<1>5. nonce \in Nat /\ base \in Hash /\ nonce \in 0..MaxNonce
  BY ConsensusAssumption, Same DEF IInv, TypeOK, Pow!TypeOK
<1>6. Pow!NextInput \in Hash BY <1>5, NextInputIs, InputTyped
<1>7. Pow!TypeOK' /\ PowInv'
  <2>1. CASE Pow!Expired
    <3>1. Pow!TypeOK'
      BY <1>1, <2>1, NullIs, Same DEF IInv, TypeOK, Pow!TypeOK, Pow!Expired, Pow!ExpiredInput
    <3>2. /\ input' = NullHash /\ pc' = "done" /\ hashed' = hashed
      BY <2>1, Same DEF Pow!Expired, Pow!ExpiredInput
    <3>3. \A x \in DOMAIN hashed : ~Pow!VerifySolution(x) BY <1>1 DEF IInv, PowInv
    <3> QED BY <1>1, <3>1, <3>2, <3>3 DEF PowInv, Pow!VerifySolution
  <2>2. ASSUME NEW digest, Pow!Try(digest), pc' \in {"loop", "done", "thrown"},
               nonce' \in 0..MaxNonce
        PROVE  /\ Pow!TypeOK'
               /\ input' = Pow!NextInput /\ input' \in DOMAIN hashed' /\ hashed'[input'] = digest
               /\ \A x \in DOMAIN hashed' : x # input' => x \in DOMAIN hashed /\ hashed'[x] = hashed[x]
    <3>1. /\ input' = Pow!NextInput /\ DOMAIN hashed' = DOMAIN hashed \cup {Pow!NextInput}
          /\ \A x \in DOMAIN hashed' : hashed'[x] = IF x = Pow!NextInput THEN digest ELSE hashed[x]
      BY <2>2 DEF Pow!Try
    <3>2. Pow!TypeOK' BY <1>1, <1>6, <2>2, <3>1, Same DEF IInv, TypeOK, Pow!TypeOK
    <3> HIDE DEF Pow!NextInput
    <3> QED BY <3>1, <3>2
  <2>3. ASSUME NEW digest \in Digests, Pow!BadDifficulty(digest) PROVE Pow!TypeOK' /\ PowInv'
    <3>1. Pow!Try(digest) /\ pc' = "thrown" /\ nonce' = nonce BY <2>3 DEF Pow!BadDifficulty
    <3> QED BY <1>5, <2>2, <3>1 DEF PowInv
  <2>4. ASSUME NEW digest \in Digests, Pow!Solved(digest) PROVE Pow!TypeOK' /\ PowInv'
    <3>1. /\ Pow!Try(digest) /\ pc' = "done" /\ nonce' = nonce
          /\ Pow!CheckLeadingZeros(digest, difficulty)
      BY <2>4 DEF Pow!Solved
    <3>2. Pow!TypeOK' /\ Pow!VerifySolution(input)'
      BY <1>1, <1>5, <2>2, <3>1 DEF Pow!VerifySolution, Pow!CheckLeadingZeros, Pow!Bit
    <3>3. \A x \in DOMAIN hashed' : x # input' => ~Pow!VerifySolution(x)'
      BY <1>1, <1>5, <2>2, <3>1
         DEF IInv, PowInv, Pow!VerifySolution, Pow!CheckLeadingZeros, Pow!Bit
    <3> QED BY <3>1, <3>2, <3>3 DEF PowInv
  <2>5. ASSUME NEW digest \in Digests, Pow!Missed(digest) PROVE Pow!TypeOK' /\ PowInv'
    <3>1. /\ Pow!Try(digest) /\ pc' = "loop" /\ nonce' = nonce + 1 /\ nonce < MaxNonce
          /\ ~Pow!CheckLeadingZeros(digest, difficulty)
      BY <1>1, <2>5 DEF Pow!Missed, Pow!Try
    <3>2. nonce' \in 0..MaxNonce BY <1>5, <3>1, ConsensusAssumption
    <3>3. Pow!TypeOK' /\ ~Pow!VerifySolution(input)'
      BY <1>1, <2>2, <3>1, <3>2 DEF Pow!VerifySolution, Pow!CheckLeadingZeros, Pow!Bit
    <3>4. \A x \in DOMAIN hashed' : x # input' => ~Pow!VerifySolution(x)'
      BY <1>1, <2>2, <3>1, <3>2
         DEF IInv, PowInv, Pow!VerifySolution, Pow!CheckLeadingZeros, Pow!Bit
    <3> QED BY <3>1, <3>3, <3>4 DEF PowInv
  <2> QED BY <2>1, <2>3, <2>4, <2>5 DEF SolvePow, Pow!Next
<1> QED BY <1>1, <1>3, <1>4, <1>7 DEF IInv, TypeOK

LEMMA JudgeKeeps == ASSUME IInv, Judge PROVE IInv'
<1>1. /\ pc = "done" /\ UNCHANGED <<model, difficulty, pc, pomVars, powVars>>
      /\ outcome' = IF Solution = NullHash THEN "again" ELSE "block"
  BY DEF Judge
<1>2. TypeOK' BY <1>1 DEF IInv, TypeOK, Pom!TypeOK, Pow!TypeOK, pomVars, powVars
<1>3. PomInv' BY <1>1 DEF IInv, PomInv, pomVars, Pom!Matches, Pom!Entry
<1>4. PowInv' BY <1>1 DEF IInv, PowInv, powVars, Pow!VerifySolution
<1>5. Solution' = Solution BY <1>1 DEF Solution, pomVars, powVars
<1>6. OutcomeInv' BY <1>1, <1>5 DEF OutcomeInv
<1> QED BY <1>2, <1>3, <1>4, <1>6 DEF IInv

LEMMA StutterKeeps == ASSUME IInv, UNCHANGED vars PROVE IInv'
<1>1. TypeOK' BY DEF IInv, TypeOK, Pom!TypeOK, Pow!TypeOK, vars, pomVars, powVars
<1>2. PomInv' BY DEF IInv, PomInv, vars, pomVars, Pom!Matches, Pom!Entry
<1>3. PowInv' BY DEF IInv, PowInv, vars, powVars, Pow!VerifySolution
<1>4. OutcomeInv' BY DEF IInv, OutcomeInv, Solution, vars, pomVars, powVars
<1> QED BY <1>1, <1>2, <1>3, <1>4 DEF IInv

\* The inductive invariant holds of every behaviour.
THEOREM ConsensusInvariance == Spec => []IInv
<1>1. IInv /\ [Next]_vars => IInv'
  BY PomKeeps, PowKeeps, JudgeKeeps, StutterKeeps DEF Next
<1> QED BY InitIInv, <1>1, PTL DEF Spec

(* The bounds of prefix_binary_search stay within the table, and every byte*)
(* and input of solve_hash is one.                                         *)
THEOREM ConsensusTypeCorrect == Spec => []TypeOK
BY ConsensusInvariance, PTL DEF IInv

(* A block is mined only from a solution, and proof of work gives up only  *)
(* if it tried none but the one that looks like none (Validator::start,    *)
(* ProofOfWork::solve_hash, prefix_binary_search).                         *)
THEOREM MinedSolutions == Spec => []MinedIffSolved
<1>1. ASSUME IInv PROVE MinedIffSolved
  <2>1. ASSUME outcome = "block"
        PROVE  IF model = "pow" THEN Pow!VerifySolution(Solution)
               ELSE Pom!CheckPrefix(Solution, target, difficulty)
    <3>1. pc = "done" /\ Solution # NullHash BY <1>1, <2>1 DEF IInv, OutcomeInv
    <3>2. CASE model = "pow"
      BY <1>1, <3>1, <3>2 DEF IInv, PowInv, Solution
    <3>3. CASE model = "pom"
      BY <1>1, <3>1, <3>3 DEF IInv, PomInv, Solution
    <3> QED BY <1>1, <3>2, <3>3 DEF IInv, TypeOK
  <2>2. ASSUME outcome = "again", model = "pow"
        PROVE  \A i \in DOMAIN hashed : Pow!VerifySolution(i) => i = NullHash
    <3>1. pc = "done" /\ input = NullHash BY <1>1, <2>2 DEF IInv, OutcomeInv, Solution
    <3> QED BY <1>1, <2>2, <3>1 DEF IInv, PowInv
  <2> QED BY <2>1, <2>2 DEF MinedIffSolved
<1> QED BY <1>1, ConsensusInvariance, PTL

(* The search of a sorted table by bytes (prefix_binary_search) never gives*)
(* up on an entry that agrees with the target in every byte the difficulty *)
(* reaches, although check_prefix counts a byte's bits from the other end. *)
THEOREM WholeBytesFound == Spec => []WholeBytesNotMissed
<1>1. ASSUME IInv PROVE WholeBytesNotMissed
  <2> SUFFICES ASSUME model = "pom", pc = "done", idx = -1
               PROVE  Pom!Matches(Pom!WholeBytes(difficulty)) = {}
    BY DEF WholeBytesNotMissed, Pom!WholeBytesNotMissed, Pom!NoneFound
  <2>1. Pom!Matches(Pom!WholeBytes(difficulty)) \subseteq l..r /\ l > r
    BY <1>1 DEF IInv, PomInv
  <2>2. l \in Int /\ r \in Int
    <3>1. Len(hashes) \in Nat BY <1>1 DEF IInv, TypeOK, Pom!TypeOK
    <3> QED BY <1>1, <3>1 DEF IInv, TypeOK, Pom!TypeOK
  <2>3. l..r = {} BY <2>1, <2>2
  <2> QED BY <2>1, <2>3
<1> QED BY <1>1, ConsensusInvariance, PTL

-----------------------------------------------------------------------------
(* The inputs so far are those of the nonces so far.                       *)
CountInv ==
  model = "pow" /\ pc = "loop" =>
    /\ IsFiniteSet(DOMAIN hashed) /\ Cardinality(DOMAIN hashed) = nonce
    /\ \A x \in DOMAIN hashed : \E n \in 0..nonce - 1 : x = InputAt(n)

LEMMA NextInputNew ==
  ASSUME TypeOK, CountInv, model = "pow", pc = "loop", nonce < MaxNonce
  PROVE  Pow!NextInput \notin DOMAIN hashed
<1> SUFFICES ASSUME Pow!NextInput \in DOMAIN hashed PROVE FALSE OBVIOUS
<1>1. nonce \in Nat /\ base \in Hash BY Same, ConsensusAssumption DEF TypeOK, Pow!TypeOK
<1>2. PICK n \in 0..nonce - 1 : InputAt(nonce) = InputAt(n) BY NextInputIs DEF CountInv
<1>3. Exp2[BitsPerByte * NonceBytes] \in Nat
  <2>1. BitsPerByte * NonceBytes \in Nat BY ByteIs, ConsensusAssumption, HashBitsAssumption, SMT
  <2> QED BY <2>1, Exp2Is
<1>4. n \in Nat /\ n < nonce /\ nonce < Exp2[BitsPerByte * NonceBytes]
  BY <1>1, <1>2, <1>3, ConsensusAssumption
<1>5. n < Exp2[BitsPerByte * NonceBytes] BY <1>1, <1>3, <1>4
<1>6. nonce = n BY <1>1, <1>2, <1>4, <1>5, InputsDiffer
<1> QED BY <1>1, <1>4, <1>6

LEMMA CountStep == IInv /\ CountInv /\ [Next]_vars => CountInv'
<1> SUFFICES ASSUME IInv, CountInv, [Next]_vars, model' = "pow", pc' = "loop" PROVE CountInv'
  BY DEF CountInv
<1>1. model = "pow"
  BY DEF Next, SolvePom, SolvePow, Judge, vars
<1>2. CASE \E digest \in Digests : Pow!Missed(digest)
  <2>1. /\ pc = "loop" /\ nonce < MaxNonce /\ nonce' = nonce + 1 /\ base' = base
        /\ DOMAIN hashed' = DOMAIN hashed \cup {InputAt(nonce)}
    BY <1>2, NextInputIs DEF Pow!Missed, Pow!Try
  <2>2. InputAt(nonce) \notin DOMAIN hashed
    BY <1>1, <2>1, NextInputNew, NextInputIs DEF IInv
  <2>3. IsFiniteSet(DOMAIN hashed) /\ Cardinality(DOMAIN hashed) = nonce
    BY <1>1, <2>1 DEF CountInv
  <2>4. IsFiniteSet(DOMAIN hashed') /\ Cardinality(DOMAIN hashed') = nonce'
    BY <2>1, <2>2, <2>3, FS_AddElement
  <2>5. nonce \in Nat BY ConsensusAssumption DEF IInv, TypeOK, Pow!TypeOK
  <2>6. ASSUME NEW x \in DOMAIN hashed' PROVE \E n \in 0..nonce' - 1 : x = InputAt(n)'
    <3>1. \A n \in Nat : InputAt(n)' = InputAt(n) BY <2>1 DEF InputAt
    <3>2. CASE x \in DOMAIN hashed
      <4>1. PICK n \in 0..nonce - 1 : x = InputAt(n) BY <1>1, <2>1, <3>2 DEF CountInv
      <4> QED BY <2>1, <2>5, <3>1, <4>1
    <3>3. CASE x = InputAt(nonce)
      <4>1. PICK n \in Nat : n = nonce BY <2>5
      <4>2. n \in 0..nonce' - 1 BY <2>1, <2>5, <4>1
      <4> QED BY <3>1, <3>3, <4>1, <4>2
    <3> QED BY <2>1, <3>2, <3>3
  <2> QED BY <2>4, <2>6 DEF CountInv
<1>3. CASE UNCHANGED <<base, hashed, nonce, pc>>
  BY <1>1, <1>3 DEF CountInv, InputAt
<1>4. \/ \E digest \in Digests : Pow!Missed(digest)
      \/ UNCHANGED <<base, hashed, nonce, pc>>
  BY <1>1 DEF Next, SolvePom, SolvePow, Judge, vars, powVars, Pow!Next, Pow!BadDifficulty,
              Pow!Solved, Pow!Expired
<1> QED BY <1>2, <1>3, <1>4

(* Proof of work tries no input twice (ProofOfWork::solve_hash), as long as*)
(* the attempts are not more than the nonce's bytes can count.             *)
THEOREM InputsAreNew == Spec => []NoInputRepeated
<1>1. Init => CountInv
  <2> SUFFICES ASSUME Init, model = "pow" PROVE CountInv BY DEF CountInv
  <2>1. DOMAIN hashed = {} /\ nonce = 0 BY DEF Init, Pow!Init
  <2> QED BY <2>1, FS_EmptySet DEF CountInv
<1>2. CountInv => NoInputRepeated
  BY DEF CountInv, NoInputRepeated, Pow!NoInputRepeated, Cardinality, Pow!Cardinality
<1> QED BY <1>1, <1>2, CountStep, ConsensusInvariance, PTL DEF Spec
=============================================================================
