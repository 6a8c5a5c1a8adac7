---------------------------- MODULE TxPoolProofs ----------------------------
(* Theorems about module TxPool for every set of keys and validators,      *)
(* every BLOCK_SIZE and any number of posts.                               *)
EXTENDS TxPool, TLAPS

-----------------------------------------------------------------------------
(* What the sequence operators used by the handlers do to the set of a     *)
(* sequence's elements, and to an element that is there once.              *)
LEMMA ToSetAppend ==
  ASSUME NEW S, NEW s \in Seq(S), NEW e \in S
  PROVE  /\ Append(s, e) \in Seq(S)
         /\ ToSet(Append(s, e)) = ToSet(s) \cup {e}
<1>1. /\ Append(s, e) \in Seq(S) /\ Len(s) \in Nat
      /\ DOMAIN s = 1..Len(s) /\ DOMAIN Append(s, e) = 1..Len(s) + 1
      /\ \A i \in 1..Len(s) : Append(s, e)[i] = s[i]
      /\ Append(s, e)[Len(s) + 1] = e
  OBVIOUS
<1>2. 1..Len(s) + 1 = (1..Len(s)) \cup {Len(s) + 1}
  BY <1>1
<1>3. ToSet(Append(s, e)) \subseteq ToSet(s) \cup {e}
  <2> SUFFICES ASSUME NEW i \in 1..Len(s) + 1 PROVE Append(s, e)[i] \in ToSet(s) \cup {e}
    BY <1>1 DEF ToSet
  <2> QED BY <1>1, <1>2 DEF ToSet
<1>4. ToSet(s) \subseteq ToSet(Append(s, e))
  BY <1>1, <1>2 DEF ToSet
<1>5. e \in ToSet(Append(s, e))
  BY <1>1, <1>2 DEF ToSet
<1> QED BY <1>1, <1>3, <1>4, <1>5

LEMMA ToSetTail ==
  ASSUME NEW S, NEW s \in Seq(S), s # <<>>
  PROVE  /\ Head(s) \in S
         /\ Tail(s) \in Seq(S)
         /\ ToSet(s) = {Head(s)} \cup ToSet(Tail(s))
<1>1. /\ Head(s) \in S /\ Tail(s) \in Seq(S) /\ Head(s) = s[1] /\ Len(s) \in Nat /\ Len(s) >= 1
      /\ DOMAIN s = 1..Len(s) /\ DOMAIN Tail(s) = 1..Len(s) - 1
      /\ \A i \in 1..Len(s) - 1 : Tail(s)[i] = s[i + 1]
  OBVIOUS
<1>2. ToSet(s) \subseteq {Head(s)} \cup ToSet(Tail(s))
  <2> SUFFICES ASSUME NEW i \in DOMAIN s PROVE s[i] \in {Head(s)} \cup ToSet(Tail(s))
    BY DEF ToSet
  <2>1. CASE i = 1 BY <1>1, <2>1
  <2>2. CASE i # 1
    <3>1. i - 1 \in 1..Len(s) - 1 /\ Tail(s)[i - 1] = s[i] BY <1>1, <2>2
    <3> QED BY <1>1, <3>1 DEF ToSet
  <2> QED BY <2>1, <2>2
<1>3. {Head(s)} \cup ToSet(Tail(s)) \subseteq ToSet(s)
  BY <1>1 DEF ToSet
<1> QED BY <1>1, <1>2, <1>3

LEMMA ToSetSplit ==
  ASSUME NEW S, NEW s \in Seq(S), NEW k \in 0..Len(s)
  PROVE  /\ SubSeq(s, 1, k) \in Seq(S)
         /\ SubSeq(s, k + 1, Len(s)) \in Seq(S)
         /\ ToSet(s) = ToSet(SubSeq(s, 1, k)) \cup ToSet(SubSeq(s, k + 1, Len(s)))
<1> DEFINE a == SubSeq(s, 1, k)
           b == SubSeq(s, k + 1, Len(s))
<1>1. /\ a \in Seq(S) /\ Len(a) = k /\ \A i \in 1..k : a[i] = s[i]
      /\ b \in Seq(S) /\ Len(b) = Len(s) - k /\ \A i \in 1..Len(s) - k : b[i] = s[i + k]
  OBVIOUS
<1>2. DOMAIN s = 1..Len(s) /\ DOMAIN a = 1..k /\ DOMAIN b = 1..Len(s) - k /\ Len(s) \in Nat
  BY <1>1
<1> HIDE DEF a, b
<1>3. ToSet(s) \subseteq ToSet(a) \cup ToSet(b)
  <2> SUFFICES ASSUME NEW i \in 1..Len(s) PROVE s[i] \in ToSet(a) \cup ToSet(b)
    BY <1>2 DEF ToSet
  <2>1. CASE i <= k
    <3>1. i \in DOMAIN a /\ a[i] = s[i] BY <1>1, <1>2, <2>1
    <3> QED BY <3>1 DEF ToSet
  <2>2. CASE i > k
    <3>1. i - k \in 1..Len(s) - k /\ b[i - k] = s[i] BY <1>1, <1>2, <2>2
    <3> QED BY <1>2, <3>1 DEF ToSet
  <2> QED BY <1>2, <2>1, <2>2
<1>4. ToSet(a) \subseteq ToSet(s)
  <2>1. \A i \in 1..k : i \in 1..Len(s) BY <1>2
  <2> QED BY <1>1, <1>2, <2>1 DEF ToSet
<1>5. ToSet(b) \subseteq ToSet(s)
  <2> SUFFICES ASSUME NEW i \in 1..Len(s) - k PROVE b[i] \in ToSet(s)
    BY <1>2 DEF ToSet
  <2>1. b[i] = s[i + k] /\ i + k \in 1..Len(s) BY <1>1, <1>2
  <2> QED BY <1>2, <2>1 DEF ToSet
<1> QED BY <1>1, <1>3, <1>4, <1>5 DEF a, b

LEMMA ToSetConcat ==
  ASSUME NEW S, NEW s \in Seq(S), NEW t \in Seq(S)
  PROVE  /\ s \o t \in Seq(S)
         /\ ToSet(s \o t) = ToSet(s) \cup ToSet(t)
<1>1. /\ s \o t \in Seq(S) /\ Len(s \o t) = Len(s) + Len(t)
      /\ \A i \in 1..Len(s) : (s \o t)[i] = s[i]
      /\ \A i \in 1..Len(t) : (s \o t)[i + Len(s)] = t[i]
      /\ Len(s) \in Nat /\ Len(t) \in Nat
  OBVIOUS
<1>2. DOMAIN s = 1..Len(s) /\ DOMAIN t = 1..Len(t) /\ DOMAIN (s \o t) = 1..Len(s) + Len(t)
  BY <1>1
<1>3. ASSUME NEW i \in 1..Len(s) + Len(t) PROVE (s \o t)[i] \in ToSet(s) \cup ToSet(t)
  <2>1. CASE i <= Len(s) BY <1>1, <1>2, <2>1 DEF ToSet
  <2>2. CASE i > Len(s)
    <3>1. i - Len(s) \in 1..Len(t) /\ (s \o t)[i] = t[i - Len(s)] BY <1>1, <2>2
    <3> QED BY <1>2, <3>1 DEF ToSet
  <2> QED BY <1>1, <2>1, <2>2
<1>4. ASSUME NEW i \in 1..Len(s) PROVE s[i] \in ToSet(s \o t)
  BY <1>1, <1>2 DEF ToSet
<1>5. ASSUME NEW i \in 1..Len(t) PROVE t[i] \in ToSet(s \o t)
  <2>1. i + Len(s) \in 1..Len(s) + Len(t) BY <1>1
  <2> QED BY <1>1, <1>2, <2>1 DEF ToSet
<1>6. ToSet(s \o t) \subseteq ToSet(s) \cup ToSet(t) BY <1>2, <1>3 DEF ToSet
<1>7. ToSet(s) \subseteq ToSet(s \o t) BY <1>2, <1>4 DEF ToSet
<1>8. ToSet(t) \subseteq ToSet(s \o t) BY <1>2, <1>5 DEF ToSet
<1> QED BY <1>1, <1>6, <1>7, <1>8
-----------------------------------------------------------------------------
\* x is not in the sequence twice.
Once(s, x) == \A i, j \in DOMAIN s : s[i] = x /\ s[j] = x => i = j

LEMMA OnceAppend ==
  ASSUME NEW S, NEW s \in Seq(S), NEW e \in S, NEW x, Once(s, x),
         e # x \/ x \notin ToSet(s)
  PROVE  Once(Append(s, e), x)
<1>1. /\ Len(s) \in Nat
      /\ DOMAIN s = 1..Len(s) /\ DOMAIN Append(s, e) = 1..Len(s) + 1
      /\ \A i \in 1..Len(s) : Append(s, e)[i] = s[i]
      /\ Append(s, e)[Len(s) + 1] = e
  OBVIOUS
<1>2. \A i \in 1..Len(s) : s[i] = x => e # x
  BY <1>1 DEF ToSet
<1>3. 1..Len(s) + 1 = (1..Len(s)) \cup {Len(s) + 1}
  BY <1>1
<1> QED BY <1>1, <1>2, <1>3 DEF Once

LEMMA OnceTail ==
  ASSUME NEW S, NEW s \in Seq(S), s # <<>>, NEW x, Once(s, x)
  PROVE  /\ Once(Tail(s), x)
         /\ Head(s) = x => x \notin ToSet(Tail(s))
<1>1. /\ Head(s) = s[1] /\ Len(s) \in Nat /\ Len(s) >= 1
      /\ DOMAIN s = 1..Len(s) /\ DOMAIN Tail(s) = 1..Len(s) - 1
      /\ \A i \in 1..Len(s) - 1 : Tail(s)[i] = s[i + 1]
  OBVIOUS
<1>2. \A i \in 1..Len(s) - 1 : i + 1 \in 1..Len(s) /\ i + 1 # 1
  BY <1>1
<1>3. Once(Tail(s), x)
  <2> SUFFICES ASSUME NEW i \in 1..Len(s) - 1, NEW j \in 1..Len(s) - 1,
                      Tail(s)[i] = x, Tail(s)[j] = x
               PROVE  i = j
    BY <1>1 DEF Once
  <2>1. i + 1 = j + 1 BY <1>1, <1>2 DEF Once
  <2> QED BY <2>1
<1>4. ASSUME Head(s) = x, NEW i \in 1..Len(s) - 1 PROVE Tail(s)[i] # x
  BY <1>1, <1>2, <1>4 DEF Once
<1> QED BY <1>1, <1>3, <1>4 DEF ToSet

LEMMA OnceSplit ==
  ASSUME NEW S, NEW s \in Seq(S), NEW k \in 0..Len(s), NEW x, Once(s, x)
  PROVE  /\ Once(SubSeq(s, 1, k), x)
         /\ Once(SubSeq(s, k + 1, Len(s)), x)
         /\ ~(x \in ToSet(SubSeq(s, 1, k)) /\ x \in ToSet(SubSeq(s, k + 1, Len(s))))
<1> DEFINE a == SubSeq(s, 1, k)
           b == SubSeq(s, k + 1, Len(s))
<1>1. /\ a \in Seq(S) /\ Len(a) = k /\ \A i \in 1..k : a[i] = s[i]
      /\ b \in Seq(S) /\ Len(b) = Len(s) - k /\ \A i \in 1..Len(s) - k : b[i] = s[i + k]
  OBVIOUS
<1>2. DOMAIN s = 1..Len(s) /\ DOMAIN a = 1..k /\ DOMAIN b = 1..Len(s) - k /\ Len(s) \in Nat
  BY <1>1
<1> HIDE DEF a, b
<1>3. \A i \in 1..k : i \in 1..Len(s)
  BY <1>2
<1>4. \A i \in 1..Len(s) - k : i + k \in 1..Len(s)
  BY <1>2
<1>5. Once(a, x)
  BY <1>1, <1>2, <1>3 DEF Once
<1>6. Once(b, x)
  <2> SUFFICES ASSUME NEW i \in 1..Len(s) - k, NEW j \in 1..Len(s) - k, b[i] = x, b[j] = x
               PROVE  i = j
    BY <1>2 DEF Once
  <2>1. /\ i + k \in DOMAIN s /\ s[i + k] = x
        /\ j + k \in DOMAIN s /\ s[j + k] = x
    BY <1>1, <1>2, <1>4
  <2>2. i + k = j + k BY <2>1 DEF Once
  <2> QED BY <2>2, <1>2
<1>7. ~(x \in ToSet(a) /\ x \in ToSet(b))
  <2> SUFFICES ASSUME NEW i \in 1..k, NEW j \in 1..Len(s) - k, a[i] = x, b[j] = x PROVE FALSE
    BY <1>2 DEF ToSet
  <2>1. i = j + k BY <1>1, <1>2, <1>3, <1>4 DEF Once
  <2> QED BY <2>1, <1>2
<1> QED BY <1>5, <1>6, <1>7 DEF a, b

LEMMA OnceConcat ==
  ASSUME NEW S, NEW s \in Seq(S), NEW t \in Seq(S), NEW x, Once(s, x), Once(t, x),
         ~(x \in ToSet(s) /\ x \in ToSet(t))
  PROVE  Once(s \o t, x)
<1>1. /\ Len(s \o t) = Len(s) + Len(t)
      /\ \A i \in 1..Len(s) : (s \o t)[i] = s[i]
      /\ \A i \in 1..Len(s) + Len(t) : i > Len(s) =>
            i - Len(s) \in 1..Len(t) /\ (s \o t)[i] = t[i - Len(s)]
      /\ Len(s) \in Nat /\ Len(t) \in Nat
  OBVIOUS
<1>2. DOMAIN s = 1..Len(s) /\ DOMAIN t = 1..Len(t) /\ DOMAIN (s \o t) = 1..Len(s) + Len(t)
  BY <1>1
<1> SUFFICES ASSUME NEW i \in 1..Len(s) + Len(t), NEW j \in 1..Len(s) + Len(t),
                    (s \o t)[i] = x, (s \o t)[j] = x
             PROVE  i = j
  BY <1>2 DEF Once
<1>3. CASE i <= Len(s) /\ j <= Len(s) BY <1>1, <1>2, <1>3 DEF Once
<1>4. CASE i > Len(s) /\ j > Len(s)
  <2>1. /\ i - Len(s) \in DOMAIN t /\ t[i - Len(s)] = x
        /\ j - Len(s) \in DOMAIN t /\ t[j - Len(s)] = x
    BY <1>1, <1>2, <1>4
  <2>2. i - Len(s) = j - Len(s)
    <3> DEFINE m == i - Len(s)
               n == j - Len(s)
    <3>1. m \in DOMAIN t /\ t[m] = x /\ n \in DOMAIN t /\ t[n] = x BY <2>1
    <3> HIDE DEF m, n
    <3>2. m = n BY <3>1 DEF Once
    <3> QED BY <3>2 DEF m, n
  <2> QED BY <2>2, <1>1
<1>5. ASSUME NEW m \in 1..Len(s) + Len(t), NEW n \in 1..Len(s) + Len(t),
             (s \o t)[m] = x, (s \o t)[n] = x, m <= Len(s), n > Len(s)
      PROVE  FALSE
  <2>1. m \in 1..Len(s) /\ s[m] = x BY <1>1, <1>5
  <2>2. n - Len(s) \in 1..Len(t) /\ t[n - Len(s)] = x BY <1>1, <1>5
  <2> QED BY <1>2, <2>1, <2>2 DEF ToSet
<1> QED BY <1>1, <1>3, <1>4, <1>5

-----------------------------------------------------------------------------
(* What the properties need about the two handlers that hold tx_lock over  *)
(* several steps.  ConfirmInv: the loop removes from confirmed_set only    *)
(* keys of pool transactions, so the reward stays and what is erased is on *)
(* the chain.  QueryInv: the key asked about stays out of both sets while  *)
(* the blockchain is asked.                                                *)
ConfirmInv ==
  /\ block # NoBatch => block \subseteq onchain
  /\ tx_lock = "confirm" =>
       /\ block # NoBatch
       /\ confirmed_set \subseteq block
       /\ Reward \in block => Reward \in confirmed_set

QueryInv ==
  tx_lock = "query" => asked \in Tx \ (submitted_set \cup unconfirmed_set)

IInv == TypeOK /\ SetsSound /\ Tracked /\ ConfirmInv /\ QueryInv

-----------------------------------------------------------------------------
LEMMA NoBatchIsNone == \A b \in SUBSET (Tx \cup {Reward}) : b # NoBatch
BY ConstantsAssumption DEF NoBatch

(* What Pop does to the queues and sets, in terms of their elements.       *)
LEMMA PopEffect ==
  ASSUME TypeOK, Pop
  PROVE  /\ submitted_queue' \in Seq(Tx) /\ unconfirmed_queue' \in Seq(Tx)
         /\ ToSet(Popped) \subseteq Tx
         /\ ToSet(submitted_queue) = ToSet(Popped) \cup ToSet(submitted_queue')
         /\ ToSet(unconfirmed_queue') = ToSet(unconfirmed_queue) \cup ToSet(Popped)
<1>1. PopCount \in 0..Len(submitted_queue)
  <2>1. Len(submitted_queue) \in Nat BY DEF TypeOK
  <2> QED BY <2>1, ConstantsAssumption DEF PopCount
<1>2. /\ Popped \in Seq(Tx) /\ Remaining \in Seq(Tx)
      /\ ToSet(submitted_queue) = ToSet(Popped) \cup ToSet(Remaining)
  BY <1>1, ToSetSplit DEF TypeOK, Popped, Remaining
<1>3. \A i \in DOMAIN Popped : Popped[i] \in Tx
  BY <1>2
<1>4. ToSet(Popped) \subseteq Tx
  BY <1>3 DEF ToSet
<1>5. /\ unconfirmed_queue \o Popped \in Seq(Tx)
      /\ ToSet(unconfirmed_queue \o Popped) = ToSet(unconfirmed_queue) \cup ToSet(Popped)
  BY <1>2, ToSetConcat DEF TypeOK
<1> QED BY <1>2, <1>4, <1>5 DEF Pop

(* One iteration of the confirmation: the head of the unconfirmed queue is *)
(* either in the block or resubmitted.                                     *)
LEMMA ConfirmStepEffect ==
  ASSUME TypeOK, ConfirmStep, NEW tx, tx = Head(unconfirmed_queue)
  PROVE  /\ submitted_queue' \in Seq(Tx) /\ submitted_set' \subseteq Tx
         /\ \/ /\ tx \in confirmed_set
               /\ submitted_set' = submitted_set
               /\ ToSet(submitted_queue') = ToSet(submitted_queue)
            \/ /\ tx \notin confirmed_set
               /\ submitted_set' = submitted_set \cup {tx}
               /\ ToSet(submitted_queue') = ToSet(submitted_queue) \cup {tx}
<1>1. tx \in Tx
  BY ToSetTail DEF TypeOK, ConfirmStep
<1>2. CASE tx \in confirmed_set
  BY <1>2 DEF ConfirmStep, TypeOK
<1>3. CASE tx \notin confirmed_set
  <2>1. submitted_queue' = Append(submitted_queue, tx) /\ submitted_set' = submitted_set \cup {tx}
    BY <1>3 DEF ConfirmStep, Resubmit
  <2>2. submitted_queue \in Seq(Tx) /\ submitted_set \subseteq Tx
    BY DEF TypeOK
  <2> QED BY <1>1, <1>3, <2>1, <2>2, ToSetAppend
<1> QED BY <1>2, <1>3

LEMMA InitIInv == Init => IInv
<1> SUFFICES ASSUME Init PROVE IInv OBVIOUS
<1>1. TypeOK
  BY ConstantsAssumption DEF Init, TypeOK
<1>2. SetsSound /\ Tracked
  BY DEF Init, SetsSound, Tracked
<1>3. ConfirmInv /\ QueryInv
  BY DEF Init, ConfirmInv, QueryInv
<1> QED BY <1>1, <1>2, <1>3 DEF IInv

LEMMA TypeStep == ASSUME IInv, [Next]_vars PROVE TypeOK'
<1> USE DEF IInv, env, queues
<1>1. CASE UNCHANGED vars BY <1>1 DEF vars, TypeOK
<1>2. ASSUME NEW tx \in Tx, AddTransaction(tx) PROVE TypeOK'
  <2>1. submitted_queue' \in Seq(Tx) BY <1>2, ToSetAppend DEF AddTransaction, TypeOK
  <2>2. posts' \in [Tx -> 0..MaxPosts]
    BY <1>2, ConstantsAssumption DEF AddTransaction, TypeOK
  <2>3. answer' \in Answers BY <1>2 DEF AddTransaction, Answers, Status
  <2> QED BY <1>2, <2>1, <2>2, <2>3 DEF AddTransaction, TypeOK
<1>3. ASSUME NEW tx \in Tx, RefuseTransaction(tx) PROVE TypeOK'
  BY <1>3 DEF RefuseTransaction, TypeOK, Answers, Status
<1>4. ASSUME NEW tx \in Tx, QueryKnown(tx) PROVE TypeOK'
  BY <1>4 DEF QueryKnown, TypeOK, Answers, Status, PoolStatus
<1>5. ASSUME NEW tx \in Tx, QueryChain(tx) PROVE TypeOK'
  BY <1>5 DEF QueryChain, TypeOK
<1>6. CASE QueryReply
  BY <1>6 DEF QueryReply, QueryInv, TypeOK, Answers, Status, ChainStatus
<1>7. CASE ConfirmBegin
  BY <1>7 DEF ConfirmBegin, BlockKeys, TypeOK
<1>8. CASE ConfirmStep
  <2>1. /\ Head(unconfirmed_queue) \in Tx /\ Tail(unconfirmed_queue) \in Seq(Tx)
    BY <1>8, ToSetTail DEF ConfirmStep, TypeOK
  <2>2. submitted_queue' \in Seq(Tx) /\ submitted_set' \subseteq Tx
    BY <1>8, ConfirmStepEffect
  <2> QED BY <1>8, <2>1, <2>2 DEF ConfirmStep, TypeOK
<1>9. CASE ConfirmEnd
  BY <1>9 DEF ConfirmEnd, TypeOK
<1>10. CASE EmptyBlockArrives
  BY <1>10 DEF EmptyBlockArrives, TypeOK
<1>11. ASSUME NEW v \in Validators, PopTransactions(v) PROVE TypeOK'
  BY <1>11, PopEffect DEF PopTransactions, Pop, TypeOK
<1>12. ASSUME NEW v \in Validators, BlockArrives(v) PROVE TypeOK'
  <2>1. held[v] \in SUBSET Tx BY <1>12 DEF BlockArrives, TypeOK
  <2>2. block' \in SUBSET (Tx \cup {Reward}) /\ onchain' \subseteq Tx \cup {Reward}
    BY <1>12, <2>1 DEF BlockArrives, TypeOK
  <2> QED BY <1>12, <2>2 DEF BlockArrives, TypeOK
<1>13. ASSUME NEW v \in Validators, BlockDropped(v) PROVE TypeOK'
  BY <1>13 DEF BlockDropped, TypeOK
<1> QED BY <1>1, <1>2, <1>3, <1>4, <1>5, <1>6, <1>7, <1>8, <1>9, <1>10, <1>11, <1>12, <1>13
        DEF Next, Client

LEMMA SetsSoundStep == ASSUME IInv, [Next]_vars PROVE SetsSound'
<1> USE DEF IInv, env, queues
<1>1. CASE UNCHANGED queues BY <1>1 DEF SetsSound
<1>2. ASSUME NEW tx \in Tx, AddTransaction(tx) PROVE SetsSound'
  BY <1>2, ToSetAppend DEF AddTransaction, SetsSound, TypeOK
<1>3. CASE ConfirmStep
  <2> DEFINE tx == Head(unconfirmed_queue)
  <2>1. tx \in Tx /\ ToSet(unconfirmed_queue) = {tx} \cup ToSet(unconfirmed_queue')
    BY <1>3, ToSetTail DEF ConfirmStep, TypeOK
  <2>2. unconfirmed_set' \subseteq ToSet(unconfirmed_queue')
    BY <1>3, <2>1 DEF ConfirmStep, SetsSound
  <2>3. submitted_set' \subseteq ToSet(submitted_queue')
    BY <1>3, ConfirmStepEffect DEF SetsSound
  <2> QED BY <2>2, <2>3 DEF SetsSound
<1>4. ASSUME NEW v \in Validators, PopTransactions(v) PROVE SetsSound'
  BY <1>4, PopEffect DEF PopTransactions, Pop, SetsSound
<1> QED BY <1>1, <1>2, <1>3, <1>4
        DEF Next, Client, vars, RefuseTransaction, QueryKnown, QueryChain, QueryReply,
            ConfirmBegin, ConfirmEnd, EmptyBlockArrives, BlockArrives, BlockDropped

LEMMA TrackedStep == ASSUME IInv, [Next]_vars PROVE Tracked'
<1> USE DEF IInv, env, queues
<1>1. CASE UNCHANGED <<submitted_set, unconfirmed_set, posts>> /\ onchain \subseteq onchain'
  BY <1>1 DEF Tracked
<1>2. ASSUME NEW tx \in Tx, AddTransaction(tx) PROVE Tracked'
  <2> SUFFICES ASSUME NEW t \in Tx, posts'[t] > 0
               PROVE  t \in submitted_set' \cup unconfirmed_set' \cup onchain'
    BY DEF Tracked
  <2>1. CASE t = tx BY <1>2, <2>1 DEF AddTransaction
  <2>2. CASE t # tx
    <3>1. posts'[t] = posts[t] BY <1>2, <2>2 DEF AddTransaction, TypeOK
    <3> QED BY <1>2, <3>1 DEF AddTransaction, Tracked
  <2> QED BY <2>1, <2>2
<1>3. CASE ConfirmStep
  <2> DEFINE tx == Head(unconfirmed_queue)
  <2>1. /\ submitted_set \subseteq submitted_set'
        /\ unconfirmed_set \ {tx} \subseteq unconfirmed_set'
        /\ UNCHANGED <<posts, onchain>>
    BY <1>3, ConfirmStepEffect DEF ConfirmStep
  <2>2. tx \in submitted_set' \cup onchain
    BY <1>3, ConfirmStepEffect DEF ConfirmStep, ConfirmInv
  <2> QED BY <2>1, <2>2 DEF Tracked
<1>4. ASSUME NEW v \in Validators, PopTransactions(v) PROVE Tracked'
  BY <1>4 DEF PopTransactions, Pop, Tracked
<1> QED BY <1>1, <1>2, <1>3, <1>4
        DEF Next, Client, vars, RefuseTransaction, QueryKnown, QueryChain, QueryReply,
            ConfirmBegin, ConfirmEnd, EmptyBlockArrives, BlockArrives, BlockDropped

LEMMA ConfirmInvStep == ASSUME IInv, [Next]_vars PROVE ConfirmInv'
<1> USE DEF IInv, env, queues
<1>1. CASE UNCHANGED <<tx_lock, confirmed_set, block, onchain>>
  BY <1>1 DEF ConfirmInv
<1>2. ASSUME NEW tx \in Tx, QueryChain(tx) PROVE ConfirmInv'
  BY <1>2 DEF QueryChain, ConfirmInv
<1>3. CASE QueryReply
  BY <1>3 DEF QueryReply, ConfirmInv
<1>4. CASE ConfirmBegin
  BY <1>4 DEF ConfirmBegin, BlockKeys, ConfirmInv
<1>5. CASE ConfirmStep
  <2>1. Head(unconfirmed_queue) # Reward
    BY <1>5, ToSetTail, ConstantsAssumption DEF ConfirmStep, TypeOK
  <2> QED BY <1>5, <2>1 DEF ConfirmStep, ConfirmInv
<1>6. CASE ConfirmEnd
  BY <1>6 DEF ConfirmEnd, ConfirmInv
<1>7. CASE EmptyBlockArrives
  BY <1>7 DEF EmptyBlockArrives, ConfirmInv
<1>8. ASSUME NEW v \in Validators, BlockArrives(v) PROVE ConfirmInv'
  BY <1>8 DEF BlockArrives, ConfirmInv
<1> QED BY <1>1, <1>2, <1>3, <1>4, <1>5, <1>6, <1>7, <1>8
        DEF Next, Client, vars, AddTransaction, RefuseTransaction, QueryKnown,
            PopTransactions, Pop, BlockDropped

LEMMA QueryInvStep == ASSUME IInv, [Next]_vars PROVE QueryInv'
<1> USE DEF IInv, env, queues
<1>1. CASE UNCHANGED <<tx_lock, asked, submitted_set, unconfirmed_set>>
  BY <1>1 DEF QueryInv
<1>2. CASE tx_lock' # "query"
  BY <1>2 DEF QueryInv
<1>3. ASSUME NEW tx \in Tx, QueryChain(tx) PROVE QueryInv'
  BY <1>3 DEF QueryChain, Known, QueryInv
<1> QED BY <1>1, <1>2, <1>3
        DEF Next, Client, vars, AddTransaction, RefuseTransaction, QueryKnown, QueryReply,
            ConfirmBegin, ConfirmStep, ConfirmEnd, EmptyBlockArrives,
            PopTransactions, Pop, BlockArrives, BlockDropped

THEOREM Invariance == Spec => []IInv
<1>1. IInv /\ [Next]_vars => IInv'
  BY TypeStep, SetsSoundStep, TrackedStep, ConfirmInvStep, QueryInvStep DEF IInv
<1> QED BY <1>1, InitIInv, PTL DEF Spec

-----------------------------------------------------------------------------
(* Every variable keeps its type.                                          *)
THEOREM TypeCorrect == Spec => []TypeOK
BY Invariance, PTL DEF IInv

(* A reported SUBMITTED or UNCONFIRMED transaction is in the queue named.  *)
THEOREM SetsAreSound == Spec => []SetsSound
BY Invariance, PTL DEF IInv

(* No accepted transaction is ever lost, for any batch size, any number of *)
(* validators failing, and any order of confirmations.                     *)
THEOREM NothingLost == Spec => []Tracked
BY Invariance, PTL DEF IInv

(* UNKNOWN is never answered about an accepted transaction.                *)
THEOREM UnknownMeansUnknown == Spec => UnknownOnlyIfNeverAccepted
<1>1. ASSUME IInv, [Next]_vars
      PROVE  [answer' # answer /\ answer'.status = "UNKNOWN" => posts[answer'.tx] = 0]_vars
  <2> SUFFICES ASSUME answer' # answer, answer'.status = "UNKNOWN"
               PROVE  posts[answer'.tx] = 0
    OBVIOUS
  <2> USE DEF IInv, env, queues
  <2>1. ASSUME NEW tx \in Tx, AddTransaction(tx) PROVE FALSE
    BY <2>1 DEF AddTransaction
  <2>2. ASSUME NEW tx \in Tx, RefuseTransaction(tx) PROVE FALSE
    BY <2>2 DEF RefuseTransaction
  <2>3. ASSUME NEW tx \in Tx, QueryKnown(tx) PROVE FALSE
    BY <2>3 DEF QueryKnown
  <2>4. CASE QueryReply
    <3>1. answer'.tx = asked /\ asked \notin onchain /\ asked \in Tx
      BY <1>1, <2>4 DEF QueryReply, QueryInv
    <3>2. ~(posts[asked] > 0)
      BY <1>1, <2>4, <3>1 DEF QueryReply, QueryInv, Tracked
    <3>3. posts[asked] \in Nat
      BY <1>1, <3>1, ConstantsAssumption DEF TypeOK
    <3> QED BY <3>1, <3>2, <3>3
  <2>5. CASE UNCHANGED answer BY <2>5
  <2> QED BY <1>1, <2>1, <2>2, <2>3, <2>4, <2>5
          DEF Next, Client, vars, QueryChain, ConfirmBegin, ConfirmStep, ConfirmEnd,
              EmptyBlockArrives, PopTransactions, Pop, BlockArrives, BlockDropped
<1> QED BY <1>1, Invariance, PTL DEF Spec, UnknownOnlyIfNeverAccepted

(* The confirmation of a block with a reward resolves every batch.         *)
THEOREM RewardDrains == Spec => RewardBlockDrains
<1>1. ASSUME IInv, [Next]_vars
      PROVE  [ConfirmEnd /\ Reward \in block => unconfirmed_queue' = <<>>]_vars
  <2> SUFFICES ASSUME ConfirmEnd, Reward \in block PROVE unconfirmed_queue' = <<>>
    OBVIOUS
  <2>1. confirmed_set # {} BY <1>1 DEF ConfirmEnd, IInv, ConfirmInv
  <2> QED BY <2>1 DEF ConfirmEnd, LoopDone, queues
<1> QED BY <1>1, Invariance, PTL DEF Spec, RewardBlockDrains
-----------------------------------------------------------------------------
(* Where a key posted once can be, and that one never posted is nowhere:   *)
(* beyond IInv this is what SingleCopy and the refinement of TxLifecycle   *)
(* need.                                                                   *)
CopyOf(tx) ==
  /\ Once(submitted_queue, tx) /\ Once(unconfirmed_queue, tx)
  /\ ~(tx \in ToSet(submitted_queue) /\ tx \in ToSet(unconfirmed_queue))
  /\ tx \in ToSet(submitted_queue) => tx \in submitted_set
  /\ tx \in ToSet(unconfirmed_queue) => tx \in unconfirmed_set

CopyInv == \A tx \in Tx : posts[tx] <= 1 => CopyOf(tx)

PostedInv ==
  \A tx \in Tx : posts[tx] = 0 =>
    /\ tx \notin ToSet(submitted_queue) \cup ToSet(unconfirmed_queue) \cup onchain
    /\ \A v \in Validators : held[v] # NoBatch => tx \notin held[v]

LInv == IInv /\ CopyInv /\ PostedInv

LEMMA InitLInv == Init => LInv
<1> SUFFICES ASSUME Init PROVE CopyInv /\ PostedInv
  BY InitIInv DEF LInv
<1>1. ToSet(submitted_queue) = {} /\ ToSet(unconfirmed_queue) = {}
  BY DEF Init, ToSet
<1>2. CopyInv
  BY <1>1 DEF Init, CopyInv, CopyOf, Once
<1>3. PostedInv
  BY <1>1 DEF Init, PostedInv
<1> QED BY <1>2, <1>3

(* Pop moves a prefix of the one queue to the end of the other.            *)
LEMMA PopCopies ==
  ASSUME TypeOK, Pop, NEW tx \in Tx, CopyOf(tx)
  PROVE  CopyOf(tx)'
<1>1. PopCount \in 0..Len(submitted_queue)
  <2>1. Len(submitted_queue) \in Nat BY DEF TypeOK
  <2> QED BY <2>1, ConstantsAssumption DEF PopCount
<1>2. /\ submitted_queue \in Seq(Tx) /\ unconfirmed_queue \in Seq(Tx)
      /\ Popped \in Seq(Tx) /\ Remaining \in Seq(Tx)
      /\ ToSet(submitted_queue) = ToSet(Popped) \cup ToSet(Remaining)
  BY <1>1, ToSetSplit DEF TypeOK, Popped, Remaining
<1>3. /\ Once(Popped, tx) /\ Once(Remaining, tx)
      /\ ~(tx \in ToSet(Popped) /\ tx \in ToSet(Remaining))
  BY <1>1, <1>2, OnceSplit DEF CopyOf, Popped, Remaining
<1>4. ToSet(unconfirmed_queue \o Popped) = ToSet(unconfirmed_queue) \cup ToSet(Popped)
  BY <1>2, ToSetConcat
<1>5. Once(unconfirmed_queue \o Popped, tx)
  BY <1>2, <1>3, OnceConcat DEF CopyOf
<1> QED BY <1>2, <1>3, <1>4, <1>5 DEF CopyOf, Pop

LEMMA ConfirmStepCopies ==
  ASSUME TypeOK, SetsSound, ConfirmStep, NEW tx \in Tx, CopyOf(tx)
  PROVE  CopyOf(tx)'
<1> DEFINE head == Head(unconfirmed_queue)
<1>1. /\ submitted_queue \in Seq(Tx) /\ unconfirmed_queue \in Seq(Tx)
      /\ unconfirmed_queue # <<>> /\ head \in Tx
      /\ ToSet(unconfirmed_queue) = {head} \cup ToSet(Tail(unconfirmed_queue))
  BY ToSetTail DEF ConfirmStep, TypeOK
<1>2. /\ Once(Tail(unconfirmed_queue), tx)
      /\ head = tx => tx \notin ToSet(Tail(unconfirmed_queue))
  BY <1>1, OnceTail DEF CopyOf
<1>3. UNCHANGED submitted_queue \/ submitted_queue' = Append(submitted_queue, head)
  BY DEF ConfirmStep, Resubmit
<1>4. Once(submitted_queue', tx)
  <2>1. Once(submitted_queue, tx) /\ (head = tx => tx \notin ToSet(submitted_queue))
    BY <1>1 DEF CopyOf
  <2>2. CASE UNCHANGED submitted_queue BY <2>1, <2>2
  <2>3. CASE submitted_queue' = Append(submitted_queue, head)
    BY <1>1, <2>1, <2>3, OnceAppend
  <2> QED BY <1>3, <2>2, <2>3
<1>5. /\ unconfirmed_queue' = Tail(unconfirmed_queue)
      /\ unconfirmed_set' = unconfirmed_set \ {head}
  BY DEF ConfirmStep
<1> QED BY <1>1, <1>2, <1>4, <1>5, ConfirmStepEffect DEF CopyOf

LEMMA CopyStep == ASSUME LInv, [Next]_vars PROVE CopyInv'
<1> USE DEF LInv, IInv, env, queues
<1>1. CASE UNCHANGED <<queues, posts>> BY <1>1 DEF CopyInv, CopyOf
<1>2. ASSUME NEW new \in Tx, AddTransaction(new) PROVE CopyInv'
  <2> SUFFICES ASSUME NEW tx \in Tx, posts'[tx] <= 1 PROVE CopyOf(tx)'
    BY DEF CopyInv
  <2>1. posts \in [Tx -> 0..MaxPosts] /\ submitted_queue \in Seq(Tx) /\ MaxPosts \in Nat
    BY ConstantsAssumption DEF TypeOK
  <2>2. /\ submitted_queue' = Append(submitted_queue, new)
        /\ submitted_set' = submitted_set \cup {new}
        /\ UNCHANGED <<unconfirmed_queue, unconfirmed_set>>
        /\ ToSet(submitted_queue') = ToSet(submitted_queue) \cup {new}
    BY <1>2, <2>1, ToSetAppend DEF AddTransaction
  <2>3. CASE tx = new
    <3>1. posts[tx] = 0
      BY <1>2, <2>1, <2>3 DEF AddTransaction
    <3>2. tx \notin ToSet(submitted_queue) /\ tx \notin ToSet(unconfirmed_queue) /\ CopyOf(tx)
      BY <3>1 DEF PostedInv, CopyInv
    <3>3. Once(submitted_queue', tx)
      BY <2>1, <2>2, <3>2, OnceAppend DEF CopyOf
    <3> QED BY <2>2, <2>3, <3>2, <3>3 DEF CopyOf
  <2>4. CASE tx # new
    <3>1. CopyOf(tx)
      BY <1>2, <2>1, <2>4 DEF AddTransaction, CopyInv
    <3>2. Once(submitted_queue', tx)
      BY <2>1, <2>2, <2>4, <3>1, OnceAppend DEF CopyOf
    <3> QED BY <2>2, <2>4, <3>1, <3>2 DEF CopyOf
  <2> QED BY <2>3, <2>4
<1>3. CASE ConfirmStep
  <2>1. UNCHANGED posts BY <1>3 DEF ConfirmStep
  <2> QED BY <1>3, <2>1, ConfirmStepCopies DEF CopyInv
<1>4. ASSUME NEW v \in Validators, PopTransactions(v) PROVE CopyInv'
  <2>1. UNCHANGED posts /\ Pop BY <1>4 DEF PopTransactions, Pop
  <2> QED BY <2>1, PopCopies DEF CopyInv
<1> QED BY <1>1, <1>2, <1>3, <1>4
        DEF Next, Client, vars, RefuseTransaction, QueryKnown, QueryChain, QueryReply,
            ConfirmBegin, ConfirmEnd, EmptyBlockArrives, BlockArrives, BlockDropped

LEMMA PostedStep == ASSUME LInv, [Next]_vars PROVE PostedInv'
<1> USE DEF LInv, IInv, env, queues
<1>1. CASE UNCHANGED <<queues, posts, held, onchain>> BY <1>1 DEF PostedInv
<1>2. ASSUME NEW new \in Tx, AddTransaction(new) PROVE PostedInv'
  <2>1. /\ submitted_queue \in Seq(Tx) /\ posts \in [Tx -> 0..MaxPosts] /\ MaxPosts \in Nat
    BY ConstantsAssumption DEF TypeOK
  <2>2. ToSet(submitted_queue') = ToSet(submitted_queue) \cup {new}
    BY <1>2, <2>1, ToSetAppend DEF AddTransaction
  <2>3. \A tx \in Tx : posts'[tx] = 0 => tx # new /\ posts[tx] = 0
    BY <1>2, <2>1 DEF AddTransaction
  <2> QED BY <1>2, <2>2, <2>3 DEF AddTransaction, PostedInv
<1>3. CASE ConfirmStep
  <2>1. /\ ToSet(unconfirmed_queue) = {Head(unconfirmed_queue)} \cup ToSet(unconfirmed_queue')
        /\ ToSet(submitted_queue') \subseteq ToSet(submitted_queue) \cup {Head(unconfirmed_queue)}
    BY <1>3, ToSetTail, ConfirmStepEffect DEF ConfirmStep, TypeOK
  <2> QED BY <1>3, <2>1 DEF ConfirmStep, PostedInv
<1>4. ASSUME NEW v \in Validators, PopTransactions(v) PROVE PostedInv'
  <2>1. /\ Pop /\ ToSet(Popped) \subseteq ToSet(submitted_queue)
        /\ ToSet(submitted_queue') \subseteq ToSet(submitted_queue)
        /\ ToSet(unconfirmed_queue') = ToSet(unconfirmed_queue) \cup ToSet(Popped)
    BY <1>4, PopEffect DEF PopTransactions
  <2>2. UNCHANGED <<posts, onchain>> /\ held' = [held EXCEPT ![v] = ToSet(Popped)]
        /\ held \in [Validators -> (SUBSET Tx) \cup {NoBatch}]
    BY <1>4 DEF PopTransactions, Pop, TypeOK
  <2> QED BY <2>1, <2>2 DEF PostedInv
<1>5. ASSUME NEW v \in Validators, BlockArrives(v) PROVE PostedInv'
  <2>1. /\ UNCHANGED <<queues, posts>> /\ onchain' = onchain \cup held[v] \cup {Reward}
        /\ held' = [held EXCEPT ![v] = NoBatch] /\ held[v] # NoBatch
        /\ held \in [Validators -> (SUBSET Tx) \cup {NoBatch}]
    BY <1>5 DEF BlockArrives, TypeOK
  <2> QED BY <2>1, ConstantsAssumption DEF PostedInv
<1>6. ASSUME NEW v \in Validators, BlockDropped(v) PROVE PostedInv'
  BY <1>6 DEF BlockDropped, PostedInv, TypeOK
<1> QED BY <1>1, <1>2, <1>3, <1>4, <1>5, <1>6
        DEF Next, Client, vars, RefuseTransaction, QueryKnown, QueryChain, QueryReply,
            ConfirmBegin, ConfirmEnd, EmptyBlockArrives

THEOREM CopyInvariance == Spec => []LInv
<1>1. LInv /\ [Next]_vars => IInv'
  BY TypeStep, SetsSoundStep, TrackedStep, ConfirmInvStep, QueryInvStep DEF IInv, LInv
<1>2. LInv /\ [Next]_vars => LInv'
  BY <1>1, CopyStep, PostedStep DEF LInv
<1> QED BY <1>2, InitLInv, PTL DEF Spec

(* A key posted once has one place at most, whatever is popped, confirmed  *)
(* and requeued in which order.                                            *)
THEOREM OneCopy == Spec => []SingleCopy
<1>1. ASSUME LInv PROVE SingleCopy
  <2> SUFFICES ASSUME NEW tx \in Tx, posts[tx] <= 1
               PROVE  \A p, q \in Places(tx) : p = q
    BY <1>1 DEF SingleCopy, LInv, CopyInv, CopyOf
  <2>1. CopyOf(tx) BY <1>1 DEF LInv, CopyInv
  <2>2. \A i \in DOMAIN submitted_queue, j \in DOMAIN unconfirmed_queue :
          ~(submitted_queue[i] = tx /\ unconfirmed_queue[j] = tx)
    BY <2>1 DEF CopyOf, ToSet
  <2> QED BY <2>1, <2>2 DEF CopyOf, Once, Places
<1> QED BY <1>1, CopyInvariance, PTL

-----------------------------------------------------------------------------
(* The pool implements TxLifecycle.                                        *)
StatusOf == [tx \in Tx |-> Reported(tx)]
Repeated == {tx \in Tx : posts[tx] > 1}

LEMMA LifecycleInit == Init => Lifecycle!Init
<1> SUFFICES ASSUME Init PROVE Lifecycle!Init OBVIOUS
<1>1. \A tx \in Tx : Reported(tx) = "UNKNOWN" /\ ~(posts[tx] > 1)
  BY DEF Init, Reported
<1> QED BY <1>1 DEF Lifecycle!Init

(* What a status says about a key that was posted once or not yet.         *)
LEMMA StatusMeans ==
  ASSUME LInv, NEW tx \in Tx
  PROVE  /\ posts[tx] \in Nat
         /\ Reported(tx) = "UNKNOWN" <=> posts[tx] = 0
         /\ tx \in ToSet(submitted_queue) => Reported(tx) = "SUBMITTED" \/ posts[tx] > 1
         /\ tx \in ToSet(unconfirmed_queue) => Reported(tx) = "UNCONFIRMED" \/ posts[tx] > 1
<1> USE DEF LInv, IInv
<1>1. posts[tx] \in Nat
  BY ConstantsAssumption DEF TypeOK
<1>2. posts[tx] = 0 => tx \notin submitted_set \cup unconfirmed_set \cup onchain
  BY DEF PostedInv, SetsSound
<1>3. posts[tx] > 0 => tx \in submitted_set \cup unconfirmed_set \cup onchain
  BY DEF Tracked
<1>4. Reported(tx) = "UNKNOWN" <=> posts[tx] = 0
  BY <1>1, <1>2, <1>3 DEF Reported
<1>5. CASE posts[tx] > 1 BY <1>1, <1>4, <1>5
<1>6. CASE posts[tx] <= 1
  <2>1. CopyOf(tx) BY <1>6 DEF CopyInv
  <2>2. tx \in submitted_set => tx \in ToSet(submitted_queue) BY DEF SetsSound
  <2> QED BY <1>1, <1>4, <2>1, <2>2 DEF CopyOf, Reported
<1> QED BY <1>1, <1>5, <1>6

LEMMA LifecycleStutters ==
  ASSUME UNCHANGED posts, \A tx \in Tx : Reported(tx)' = Reported(tx)
  PROVE  UNCHANGED Lifecycle!vars
BY DEF Lifecycle!vars

LEMMA AddIsPost ==
  ASSUME LInv, NEW new \in Tx, AddTransaction(new)
  PROVE  Lifecycle!Post(new)
<1> USE DEF LInv, IInv, env, queues
<1>1. /\ submitted_set' = submitted_set \cup {new}
      /\ UNCHANGED <<unconfirmed_set, onchain>>
      /\ posts' = [posts EXCEPT ![new] = @ + 1] /\ posts \in [Tx -> 0..MaxPosts]
  BY DEF AddTransaction, TypeOK
<1>2. StatusOf' = [StatusOf EXCEPT ![new] = "SUBMITTED"]
  BY <1>1 DEF StatusOf, Reported
<1>3. Repeated' = IF StatusOf[new] = "UNKNOWN" THEN Repeated ELSE Repeated \cup {new}
  <2>1. \A tx \in Tx : tx # new => (posts'[tx] > 1 <=> posts[tx] > 1) BY <1>1
  <2>2. posts'[new] = posts[new] + 1 BY <1>1
  <2>3. posts[new] \in Nat /\ (StatusOf[new] = "UNKNOWN" <=> posts[new] = 0)
    BY StatusMeans DEF StatusOf
  <2>4. posts'[new] > 1 <=> StatusOf[new] # "UNKNOWN" BY <2>2, <2>3
  <2>5. StatusOf[new] = "UNKNOWN" => ~(posts[new] > 1) BY <2>3
  <2> QED BY <2>1, <2>4, <2>5 DEF Repeated
<1> QED BY <1>2, <1>3 DEF Lifecycle!Post, StatusOf, Repeated

LEMMA PopIsTake ==
  ASSUME LInv, Pop, UNCHANGED onchain
  PROVE  Lifecycle!Take(ToSet(Popped)) /\ ToSet(Popped) \in SUBSET Tx
<1> USE DEF LInv, IInv
<1>1. /\ ToSet(Popped) \subseteq Tx /\ ToSet(Popped) \subseteq ToSet(submitted_queue)
      /\ submitted_set' = submitted_set \ ToSet(Popped)
      /\ unconfirmed_set' = unconfirmed_set \cup ToSet(Popped)
      /\ UNCHANGED posts
  BY PopEffect DEF Pop
<1>2. \A tx \in ToSet(Popped) : StatusOf[tx] = "SUBMITTED" \/ tx \in Repeated
  BY <1>1, StatusMeans DEF StatusOf, Repeated
<1>3. StatusOf' = [tx \in Tx |-> IF tx \in ToSet(Popped) THEN "UNCONFIRMED" ELSE StatusOf[tx]]
  BY <1>1 DEF StatusOf, Reported
<1> QED BY <1>1, <1>2, <1>3 DEF Lifecycle!Take, Lifecycle!MayMove, StatusOf, Repeated

LEMMA ConfirmStepMoves ==
  ASSUME LInv, ConfirmStep
  PROVE  [Lifecycle!Next]_(Lifecycle!vars)
<1> USE DEF LInv, IInv
<1> DEFINE tx == Head(unconfirmed_queue)
<1>1. /\ tx \in Tx /\ tx \in ToSet(unconfirmed_queue)
      /\ unconfirmed_set' = unconfirmed_set \ {tx}
      /\ UNCHANGED <<posts, onchain>>
      /\ confirmed_set \subseteq onchain
  BY ToSetTail DEF ConfirmStep, TypeOK, ConfirmInv, env
<1>2. StatusOf[tx] = "UNCONFIRMED" \/ tx \in Repeated
  BY <1>1, StatusMeans DEF StatusOf, Repeated
<1>3. CASE tx \in confirmed_set
  <2>1. submitted_set' = submitted_set /\ tx \in onchain
    BY <1>1, <1>3, ConfirmStepEffect
  <2>2. CASE StatusOf[tx] = "UNCONFIRMED"
    <3>1. StatusOf' = [StatusOf EXCEPT ![tx] = "CONFIRMED"]
      BY <1>1, <2>1, <2>2 DEF StatusOf, Reported
    <3> QED BY <1>1, <2>2, <3>1 DEF Lifecycle!Next, Lifecycle!Settle, StatusOf, Repeated
  <2>3. CASE StatusOf[tx] # "UNCONFIRMED"
    <3>1. \A t \in Tx : Reported(t)' = Reported(t)
      BY <1>1, <2>1, <2>3 DEF StatusOf, Reported
    <3> QED BY <1>1, <3>1, LifecycleStutters
  <2> QED BY <2>2, <2>3
<1>4. CASE tx \notin confirmed_set
  <2>1. submitted_set' = submitted_set \cup {tx}
    BY <1>4, ConfirmStepEffect
  <2>2. StatusOf' = [StatusOf EXCEPT ![tx] = "SUBMITTED"]
    BY <1>1, <2>1 DEF StatusOf, Reported
  <2> QED BY <1>1, <1>2, <2>2
          DEF Lifecycle!Next, Lifecycle!Return, Lifecycle!MayMove, StatusOf, Repeated
<1> QED BY <1>3, <1>4

LEMMA ArrivalIsSilent ==
  ASSUME LInv, NEW v \in Validators, BlockArrives(v)
  PROVE  UNCHANGED Lifecycle!vars
<1> USE DEF LInv, IInv, queues
<1>1. /\ UNCHANGED <<submitted_set, unconfirmed_set, posts>> /\ held[v] # NoBatch
      /\ onchain' = onchain \cup held[v] \cup {Reward}
  BY DEF BlockArrives
<1>2. ASSUME NEW tx \in Tx PROVE Reported(tx)' = Reported(tx)
  <2>1. tx \in held[v] => tx \in submitted_set \cup unconfirmed_set \cup onchain
    <3>1. tx \in held[v] => posts[tx] # 0 BY <1>1 DEF PostedInv
    <3>2. posts[tx] \in Nat BY StatusMeans
    <3> QED BY <3>1, <3>2 DEF Tracked
  <2> QED BY <1>1, <2>1, ConstantsAssumption DEF Reported
<1> QED BY <1>1, <1>2, LifecycleStutters

LEMMA LifecycleStep == ASSUME LInv, [Next]_vars PROVE [Lifecycle!Next]_(Lifecycle!vars)
<1>1. CASE UNCHANGED <<submitted_set, unconfirmed_set, onchain, posts>>
  BY <1>1, LifecycleStutters DEF Reported
<1>2. ASSUME NEW tx \in Tx, AddTransaction(tx) PROVE Lifecycle!Next
  BY <1>2, AddIsPost DEF Lifecycle!Next
<1>3. CASE ConfirmStep
  BY <1>3, ConfirmStepMoves
<1>4. ASSUME NEW v \in Validators, PopTransactions(v) PROVE Lifecycle!Next
  BY <1>4, PopIsTake DEF PopTransactions, Lifecycle!Next
<1>5. ASSUME NEW v \in Validators, BlockArrives(v) PROVE UNCHANGED Lifecycle!vars
  BY <1>5, ArrivalIsSilent
<1> QED BY <1>1, <1>2, <1>3, <1>4, <1>5
        DEF Next, Client, vars, env, queues, RefuseTransaction, QueryKnown, QueryChain,
            QueryReply, ConfirmBegin, ConfirmEnd, EmptyBlockArrives, BlockDropped

(* The statuses a client is told obey the life cycle.                      *)
THEOREM StatusesObeyLifecycle == Spec => LifecycleSpec
BY LifecycleInit, LifecycleStep, CopyInvariance, PTL DEF Spec, LifecycleSpec, Lifecycle!Spec
=============================================================================
