--------------------------- MODULE WorkersProofs ---------------------------
(* Theorems about module Workers for any number of workers on either       *)
(* server, of clients and of blocks.                                       *)
EXTENDS Workers, TLAPS

\* What appending to a queue and serving its head do to its entries.
LEMMA AppendEntries ==
  ASSUME NEW S, NEW s \in Seq(S), NEW e \in S, NEW i \in Nat
  PROVE  /\ Append(s, e) \in Seq(S) /\ Append(s, e) # <<>>
         /\ s # <<>> => Head(Append(s, e)) = Head(s)
         /\ i \in DOMAIN Append(s, e) <=> i \in DOMAIN s \/ i = Len(s) + 1
         /\ i \in DOMAIN s => Append(s, e)[i] = s[i] /\ i # Len(s) + 1
         /\ Append(s, e)[Len(s) + 1] = e
<1>1. /\ Append(s, e) \in Seq(S) /\ Len(s) \in Nat /\ Len(Append(s, e)) = Len(s) + 1
      /\ DOMAIN s = 1..Len(s) /\ DOMAIN Append(s, e) = 1..Len(s) + 1
      /\ \A k \in 1..Len(s) : Append(s, e)[k] = s[k]
      /\ Append(s, e)[Len(s) + 1] = e
  OBVIOUS
<1>2. Append(s, e) # <<>> /\ Head(Append(s, e)) = Append(s, e)[1]
  BY <1>1
<1>3. s # <<>> => 1 \in 1..Len(s) /\ Head(s) = s[1]
  BY <1>1
<1>4. i \in 1..Len(s) + 1 <=> i \in 1..Len(s) \/ i = Len(s) + 1
  BY <1>1
<1> QED BY <1>1, <1>2, <1>3, <1>4

LEMMA TailEntries ==
  ASSUME NEW S, NEW s \in Seq(S), s # <<>>, NEW i \in Nat
  PROVE  /\ Tail(s) \in Seq(S) /\ Head(s) \in S
         /\ 1 \in DOMAIN s /\ s[1] = Head(s)
         /\ i \in DOMAIN Tail(s) => i + 1 \in DOMAIN s /\ Tail(s)[i] = s[i + 1] /\ i + 1 # 1
<1>1. /\ Head(s) \in S /\ Tail(s) \in Seq(S) /\ Head(s) = s[1] /\ Len(s) \in Nat /\ Len(s) >= 1
      /\ DOMAIN s = 1..Len(s) /\ DOMAIN Tail(s) = 1..Len(s) - 1
      /\ \A k \in 1..Len(s) - 1 : Tail(s)[k] = s[k + 1]
  OBVIOUS
<1> QED BY <1>1

-----------------------------------------------------------------------------
IsType(queue, i, type) == i \in DOMAIN queue /\ queue[i].type = type

(* A worker that holds tx_lock has one query at the blockchain, and one    *)
(* that holds blockmutex one confirmation at the pool; the request each is *)
(* working on stays at the head of its own queue.                          *)
QueryInv ==
  /\ \A c \in ChainThreads, i \in Nat : IsType(chain_in[c], i, "QUERY_TX_STATUS") =>
       /\ tx_lock = chain_in[c][i].from
       /\ AtHead(pool_in[tx_lock], "QUERY_TX_STATUS")
  /\ \A c, d \in ChainThreads, i, j \in Nat :
       IsType(chain_in[c], i, "QUERY_TX_STATUS") /\ IsType(chain_in[d], j, "QUERY_TX_STATUS")
         => c = d /\ i = j

ConfirmInv ==
  /\ \A p \in PoolThreads, i \in Nat : IsType(pool_in[p], i, "CONFIRM_BLOCK") =>
       /\ blockmutex = pool_in[p][i].from
       /\ AtHead(chain_in[blockmutex], "SUBMIT_BLOCK")
  /\ \A p, q \in PoolThreads, i, j \in Nat :
       IsType(pool_in[p], i, "CONFIRM_BLOCK") /\ IsType(pool_in[q], j, "CONFIRM_BLOCK")
         => p = q /\ i = j

IInv == TypeOK /\ QueryInv /\ ConfirmInv

-----------------------------------------------------------------------------
LEMMA InitIInv == Init => IInv
<1> SUFFICES ASSUME Init PROVE IInv OBVIOUS
<1>1. TypeOK
  BY WorkersAssumption DEF Init, TypeOK, PoolThreads, ChainThreads
<1>2. QueryInv /\ ConfirmInv
  BY DEF Init, QueryInv, ConfirmInv, IsType
<1> QED BY <1>1, <1>2 DEF IInv

LEMMA NextTurn ==
  ASSUME TypeOK
  PROVE  (pool_next + 1) % PoolWorkers \in PoolThreads /\ (chain_next + 1) % ChainWorkers \in ChainThreads
BY WorkersAssumption DEF TypeOK, PoolThreads, ChainThreads

(* Dealing a request leaves every entry and every head where it is and     *)
(* adds one entry; serving a head moves the others up.                     *)
LEMMA DealtToPool ==
  ASSUME TypeOK, NEW type, NEW from, [type |-> type, from |-> from] \in PoolJobs,
         DealToPool(type, from)
  PROVE  /\ pool_in' \in [PoolThreads -> Seq(PoolJobs)] /\ pool_next' \in PoolThreads
         /\ \A p \in PoolThreads : \A t : AtHead(pool_in[p], t) => AtHead(pool_in'[p], t)
         /\ \A p \in PoolThreads, i \in Nat : i \in DOMAIN pool_in'[p] =>
              \/ i \in DOMAIN pool_in[p] /\ pool_in'[p][i] = pool_in[p][i]
              \/ /\ p = pool_next /\ i = Len(pool_in[p]) + 1
                 /\ pool_in'[p][i].type = type /\ pool_in'[p][i].from = from
<1> DEFINE job == [type |-> type, from |-> from]
           q == pool_in[pool_next]
<1>1. /\ pool_in' = [pool_in EXCEPT ![pool_next] = Append(q, job)]
      /\ pool_in \in [PoolThreads -> Seq(PoolJobs)] /\ pool_next \in PoolThreads
      /\ q \in Seq(PoolJobs) /\ job \in PoolJobs
      /\ job.type = type /\ job.from = from
  BY DEF DealToPool, TypeOK
<1>2. pool_next' \in PoolThreads
  BY NextTurn DEF DealToPool
<1> HIDE DEF job
<1>3. /\ Append(q, job) \in Seq(PoolJobs) /\ Append(q, job) # <<>>
      /\ q # <<>> => Head(Append(q, job)) = Head(q)
  BY <1>1, AppendEntries
<1>4. \A i \in Nat : i \in DOMAIN Append(q, job) =>
        (i \in DOMAIN q /\ Append(q, job)[i] = q[i]) \/ (i = Len(q) + 1 /\ Append(q, job)[i] = job)
  BY <1>1, AppendEntries
<1> HIDE DEF q
<1>5. \A p \in PoolThreads : \A t : AtHead(pool_in[p], t) => AtHead(pool_in'[p], t)
  BY <1>1, <1>3 DEF AtHead, q
<1>6. ASSUME NEW p \in PoolThreads, NEW i \in Nat, i \in DOMAIN pool_in'[p]
      PROVE  \/ i \in DOMAIN pool_in[p] /\ pool_in'[p][i] = pool_in[p][i]
             \/ /\ p = pool_next /\ i = Len(pool_in[p]) + 1
                /\ pool_in'[p][i].type = type /\ pool_in'[p][i].from = from
  <2>1. CASE p = pool_next
    <3>1. pool_in'[p] = Append(q, job) /\ pool_in[p] = q BY <1>1, <2>1 DEF q
    <3> QED BY <1>1, <1>4, <1>6, <2>1, <3>1
  <2>2. CASE p # pool_next
    <3>1. pool_in'[p] = pool_in[p] BY <1>1, <2>2
    <3> QED BY <1>6, <3>1
  <2> QED BY <2>1, <2>2
<1> QED BY <1>1, <1>2, <1>3, <1>5, <1>6

LEMMA DealtToChain ==
  ASSUME TypeOK, NEW type, NEW from, [type |-> type, from |-> from] \in ChainJobs,
         DealToChain(type, from)
  PROVE  /\ chain_in' \in [ChainThreads -> Seq(ChainJobs)] /\ chain_next' \in ChainThreads
         /\ \A c \in ChainThreads : \A t : AtHead(chain_in[c], t) => AtHead(chain_in'[c], t)
         /\ \A c \in ChainThreads, i \in Nat : i \in DOMAIN chain_in'[c] =>
              \/ i \in DOMAIN chain_in[c] /\ chain_in'[c][i] = chain_in[c][i]
              \/ /\ c = chain_next /\ i = Len(chain_in[c]) + 1
                 /\ chain_in'[c][i].type = type /\ chain_in'[c][i].from = from
<1> DEFINE job == [type |-> type, from |-> from]
           q == chain_in[chain_next]
<1>1. /\ chain_in' = [chain_in EXCEPT ![chain_next] = Append(q, job)]
      /\ chain_in \in [ChainThreads -> Seq(ChainJobs)] /\ chain_next \in ChainThreads
      /\ q \in Seq(ChainJobs) /\ job \in ChainJobs
      /\ job.type = type /\ job.from = from
  BY DEF DealToChain, TypeOK
<1>2. chain_next' \in ChainThreads
  BY NextTurn DEF DealToChain
<1> HIDE DEF job
<1>3. /\ Append(q, job) \in Seq(ChainJobs) /\ Append(q, job) # <<>>
      /\ q # <<>> => Head(Append(q, job)) = Head(q)
  BY <1>1, AppendEntries
<1>4. \A i \in Nat : i \in DOMAIN Append(q, job) =>
        (i \in DOMAIN q /\ Append(q, job)[i] = q[i]) \/ (i = Len(q) + 1 /\ Append(q, job)[i] = job)
  BY <1>1, AppendEntries
<1> HIDE DEF q
<1>5. \A c \in ChainThreads : \A t : AtHead(chain_in[c], t) => AtHead(chain_in'[c], t)
  BY <1>1, <1>3 DEF AtHead, q
<1>6. ASSUME NEW c \in ChainThreads, NEW i \in Nat, i \in DOMAIN chain_in'[c]
      PROVE  \/ i \in DOMAIN chain_in[c] /\ chain_in'[c][i] = chain_in[c][i]
             \/ /\ c = chain_next /\ i = Len(chain_in[c]) + 1
                /\ chain_in'[c][i].type = type /\ chain_in'[c][i].from = from
  <2>1. CASE c = chain_next
    <3>1. chain_in'[c] = Append(q, job) /\ chain_in[c] = q BY <1>1, <2>1 DEF q
    <3> QED BY <1>1, <1>4, <1>6, <2>1, <3>1
  <2>2. CASE c # chain_next
    <3>1. chain_in'[c] = chain_in[c] BY <1>1, <2>2
    <3> QED BY <1>6, <3>1
  <2> QED BY <2>1, <2>2
<1> QED BY <1>1, <1>2, <1>3, <1>5, <1>6

LEMMA ServedByPool ==
  ASSUME TypeOK, NEW p \in PoolThreads, pool_in[p] # <<>>,
         pool_in' = [pool_in EXCEPT ![p] = Tail(@)]
  PROVE  /\ pool_in' \in [PoolThreads -> Seq(PoolJobs)]
         /\ Head(pool_in[p]) \in PoolJobs /\ pool_in[p][1] = Head(pool_in[p])
         /\ \A t : AtHead(pool_in[p], t) => IsType(pool_in[p], 1, t)
         /\ \A i \in Nat : \A t : IsType(pool_in'[p], i, t) =>
              /\ i + 1 \in Nat /\ i + 1 # 1
              /\ IsType(pool_in[p], i + 1, t) /\ pool_in'[p][i] = pool_in[p][i + 1]
         /\ \A q \in PoolThreads : q # p => pool_in'[q] = pool_in[q]
<1>1. pool_in \in [PoolThreads -> Seq(PoolJobs)] /\ pool_in[p] \in Seq(PoolJobs)
  BY DEF TypeOK
<1>2. /\ Tail(pool_in[p]) \in Seq(PoolJobs) /\ Head(pool_in[p]) \in PoolJobs
      /\ 1 \in DOMAIN pool_in[p] /\ pool_in[p][1] = Head(pool_in[p])
      /\ \A i \in Nat : i \in DOMAIN Tail(pool_in[p]) =>
           i + 1 \in DOMAIN pool_in[p] /\ Tail(pool_in[p])[i] = pool_in[p][i + 1] /\ i + 1 # 1
  BY <1>1, TailEntries
<1>3. pool_in'[p] = Tail(pool_in[p]) /\ \A q \in PoolThreads \ {p} : pool_in'[q] = pool_in[q]
  BY <1>1
<1> QED BY <1>1, <1>2, <1>3 DEF IsType, AtHead

LEMMA ServedByChain ==
  ASSUME TypeOK, NEW c \in ChainThreads, chain_in[c] # <<>>,
         chain_in' = [chain_in EXCEPT ![c] = Tail(@)]
  PROVE  /\ chain_in' \in [ChainThreads -> Seq(ChainJobs)]
         /\ Head(chain_in[c]) \in ChainJobs /\ chain_in[c][1] = Head(chain_in[c])
         /\ \A t : AtHead(chain_in[c], t) => IsType(chain_in[c], 1, t)
         /\ \A i \in Nat : \A t : IsType(chain_in'[c], i, t) =>
              /\ i + 1 \in Nat /\ i + 1 # 1
              /\ IsType(chain_in[c], i + 1, t) /\ chain_in'[c][i] = chain_in[c][i + 1]
         /\ \A d \in ChainThreads : d # c => chain_in'[d] = chain_in[d]
<1>1. chain_in \in [ChainThreads -> Seq(ChainJobs)] /\ chain_in[c] \in Seq(ChainJobs)
  BY DEF TypeOK
<1>2. /\ Tail(chain_in[c]) \in Seq(ChainJobs) /\ Head(chain_in[c]) \in ChainJobs
      /\ 1 \in DOMAIN chain_in[c] /\ chain_in[c][1] = Head(chain_in[c])
      /\ \A i \in Nat : i \in DOMAIN Tail(chain_in[c]) =>
           i + 1 \in DOMAIN chain_in[c] /\ Tail(chain_in[c])[i] = chain_in[c][i + 1] /\ i + 1 # 1
  BY <1>1, TailEntries
<1>3. chain_in'[c] = Tail(chain_in[c]) /\ \A d \in ChainThreads \ {c} : chain_in'[d] = chain_in[d]
  BY <1>1
<1> QED BY <1>1, <1>2, <1>3 DEF IsType, AtHead

(* Without its mutex held, no call of the kind is under way.               *)
LEMMA NoCall ==
  ASSUME IInv
  PROVE  /\ \A c \in ChainThreads, i \in Nat :
              IsType(chain_in[c], i, "QUERY_TX_STATUS") => tx_lock \in PoolThreads
         /\ \A p \in PoolThreads, i \in Nat :
              IsType(pool_in[p], i, "CONFIRM_BLOCK") => blockmutex \in ChainThreads
         /\ None \notin PoolThreads /\ None \notin ChainThreads
<1>1. ASSUME NEW c \in ChainThreads, NEW i \in Nat, IsType(chain_in[c], i, "QUERY_TX_STATUS")
      PROVE  tx_lock \in PoolThreads
  <2>1. chain_in[c][i] \in ChainJobs /\ chain_in[c][i].type = "QUERY_TX_STATUS"
    BY <1>1 DEF IInv, TypeOK, IsType
  <2> QED BY <1>1, <2>1 DEF IInv, QueryInv, ChainJobs
<1>2. ASSUME NEW p \in PoolThreads, NEW i \in Nat, IsType(pool_in[p], i, "CONFIRM_BLOCK")
      PROVE  blockmutex \in ChainThreads
  <2>1. pool_in[p][i] \in PoolJobs /\ pool_in[p][i].type = "CONFIRM_BLOCK"
    BY <1>2 DEF IInv, TypeOK, IsType
  <2> QED BY <1>2, <2>1 DEF IInv, ConfirmInv, PoolJobs
<1>3. None \notin PoolThreads /\ None \notin ChainThreads
  BY WorkersAssumption DEF PoolThreads, ChainThreads
<1> QED BY <1>1, <1>2, <1>3

-----------------------------------------------------------------------------
LEMMA AskKeeps ==
  ASSUME IInv, NEW client \in Clients, NEW type \in {"QUERY_TX_STATUS", "POP_TX"},
         Ask(client, type)
  PROVE  IInv'
<1> USE DEF IInv
<1>1. /\ DealToPool(type, client) /\ waiting' = waiting \cup {client}
      /\ UNCHANGED <<chain_in, chain_next, tx_lock, blockmutex, submitted>>
      /\ [type |-> type, from |-> client] \in PoolJobs
  BY DEF Ask, PoolJobs
<1>2. TypeOK' BY <1>1, DealtToPool DEF TypeOK
<1>3. \A p \in PoolThreads : \A t : AtHead(pool_in[p], t) => AtHead(pool_in'[p], t)
  BY <1>1, DealtToPool
<1>4. \A p \in PoolThreads, i \in Nat : IsType(pool_in'[p], i, "CONFIRM_BLOCK") =>
        IsType(pool_in[p], i, "CONFIRM_BLOCK") /\ pool_in'[p][i] = pool_in[p][i]
  BY <1>1, DealtToPool DEF IsType
<1>5. QueryInv'
  <2>1. \A c \in ChainThreads, i \in Nat : IsType(chain_in[c], i, "QUERY_TX_STATUS") => tx_lock \in PoolThreads
    BY NoCall
  <2> QED BY <1>1, <1>3, <2>1 DEF QueryInv
<1>6. ConfirmInv'
  <2>1. \A p \in PoolThreads, i \in Nat : IsType(pool_in'[p], i, "CONFIRM_BLOCK") =>
          pool_in'[p][i].from = blockmutex' /\ AtHead(chain_in'[blockmutex'], "SUBMIT_BLOCK")
    BY <1>1, <1>4 DEF ConfirmInv
  <2>2. \A p, q \in PoolThreads, i, j \in Nat :
          IsType(pool_in'[p], i, "CONFIRM_BLOCK") /\ IsType(pool_in'[q], j, "CONFIRM_BLOCK")
            => p = q /\ i = j
    BY <1>4 DEF ConfirmInv
  <2> QED BY <2>1, <2>2 DEF ConfirmInv
<1> QED BY <1>2, <1>5, <1>6

LEMMA SubmitKeeps ==
  ASSUME IInv, SubmitBlock
  PROVE  IInv'
<1> USE DEF IInv
<1>1. /\ DealToChain("SUBMIT_BLOCK", Metronome) /\ waiting' = waiting \cup {Metronome}
      /\ submitted' \in 0..MaxBlocks
      /\ UNCHANGED <<pool_in, pool_next, tx_lock, blockmutex>>
      /\ [type |-> "SUBMIT_BLOCK", from |-> Metronome] \in ChainJobs
  BY WorkersAssumption DEF SubmitBlock, ChainJobs, TypeOK
<1>2. TypeOK' BY <1>1, DealtToChain DEF TypeOK
<1>3. \A c \in ChainThreads : \A t : AtHead(chain_in[c], t) => AtHead(chain_in'[c], t)
  BY <1>1, DealtToChain
<1>4. \A c \in ChainThreads, i \in Nat : IsType(chain_in'[c], i, "QUERY_TX_STATUS") =>
        IsType(chain_in[c], i, "QUERY_TX_STATUS") /\ chain_in'[c][i] = chain_in[c][i]
  BY <1>1, DealtToChain DEF IsType
<1>5. QueryInv'
  <2>1. \A c \in ChainThreads, i \in Nat : IsType(chain_in'[c], i, "QUERY_TX_STATUS") =>
          tx_lock = chain_in'[c][i].from /\ AtHead(pool_in[tx_lock], "QUERY_TX_STATUS")
    BY <1>4 DEF QueryInv
  <2>2. \A c, d \in ChainThreads, i, j \in Nat :
          IsType(chain_in'[c], i, "QUERY_TX_STATUS") /\ IsType(chain_in'[d], j, "QUERY_TX_STATUS")
            => c = d /\ i = j
    BY <1>4 DEF QueryInv
  <2> QED BY <1>1, <2>1, <2>2 DEF QueryInv
<1>6. ConfirmInv'
  <2>1. \A p \in PoolThreads, i \in Nat : IsType(pool_in[p], i, "CONFIRM_BLOCK") => blockmutex \in ChainThreads
    BY NoCall
  <2> QED BY <1>1, <1>3, <2>1 DEF ConfirmInv
<1> QED BY <1>2, <1>5, <1>6

LEMMA AddBlockKeeps ==
  ASSUME IInv, NEW c \in ChainThreads, AddBlock(c)
  PROVE  IInv'
<1> USE DEF IInv
<1>1. /\ AtHead(chain_in[c], "SUBMIT_BLOCK") /\ blockmutex = None /\ blockmutex' = c
      /\ DealToPool("CONFIRM_BLOCK", c) /\ waiting' \subseteq waiting
      /\ UNCHANGED <<chain_in, chain_next, tx_lock, submitted>>
      /\ [type |-> "CONFIRM_BLOCK", from |-> c] \in PoolJobs
  BY DEF AddBlock, PoolJobs
<1>2. TypeOK' BY <1>1, DealtToPool DEF TypeOK
<1>3. \A p \in PoolThreads : \A t : AtHead(pool_in[p], t) => AtHead(pool_in'[p], t)
  BY <1>1, DealtToPool
<1>4. QueryInv'
  <2>1. \A d \in ChainThreads, i \in Nat : IsType(chain_in[d], i, "QUERY_TX_STATUS") => tx_lock \in PoolThreads
    BY NoCall
  <2> QED BY <1>1, <1>3, <2>1 DEF QueryInv
<1>5. \A p \in PoolThreads, i \in Nat : IsType(pool_in'[p], i, "CONFIRM_BLOCK") =>
        p = pool_next /\ i = Len(pool_in[p]) + 1 /\ pool_in'[p][i].from = c
  BY <1>1, DealtToPool, NoCall DEF IsType
<1>6. AtHead(chain_in'[blockmutex'], "SUBMIT_BLOCK")
  BY <1>1
<1>7. \A p \in PoolThreads, i \in Nat : IsType(pool_in'[p], i, "CONFIRM_BLOCK") =>
        pool_in'[p][i].from = blockmutex'
  BY <1>1, <1>5
<1>8. \A p, q \in PoolThreads, i, j \in Nat :
        IsType(pool_in'[p], i, "CONFIRM_BLOCK") /\ IsType(pool_in'[q], j, "CONFIRM_BLOCK")
          => p = q /\ i = j
  BY <1>5
<1>9. ConfirmInv' BY <1>6, <1>7, <1>8 DEF ConfirmInv
<1> QED BY <1>2, <1>4, <1>9

LEMMA ConfirmKeeps ==
  ASSUME IInv, NEW p \in PoolThreads, Confirm(p)
  PROVE  IInv'
<1> USE DEF IInv
<1> DEFINE c == Head(pool_in[p]).from
<1>1. /\ AtHead(pool_in[p], "CONFIRM_BLOCK") /\ tx_lock = None /\ blockmutex' = None
      /\ pool_in[p] # <<>> /\ pool_in' = [pool_in EXCEPT ![p] = Tail(@)]
      /\ chain_in' = [chain_in EXCEPT ![c] = Tail(@)]
      /\ UNCHANGED <<pool_next, chain_next, tx_lock, waiting, submitted>>
  BY DEF Confirm, AtHead
<1>2. c \in ChainThreads /\ IsType(pool_in[p], 1, "CONFIRM_BLOCK") /\ blockmutex = c
  <2>1. /\ IsType(pool_in[p], 1, "CONFIRM_BLOCK")
        /\ Head(pool_in[p]) \in PoolJobs /\ pool_in[p][1] = Head(pool_in[p])
    BY <1>1, ServedByPool
  <2>2. Head(pool_in[p]).type = "CONFIRM_BLOCK" BY <1>1 DEF AtHead
  <2>3. c \in ChainThreads BY <2>1, <2>2 DEF PoolJobs
  <2> QED BY <2>1, <2>3 DEF ConfirmInv
<1>3. chain_in[c] # <<>> /\ AtHead(chain_in[c], "SUBMIT_BLOCK")
  BY <1>2 DEF ConfirmInv, AtHead
<1> HIDE DEF c
<1>4. TypeOK' BY <1>1, <1>2, <1>3, ServedByPool, ServedByChain DEF TypeOK
<1>5. \A d \in ChainThreads, i \in Nat : ~IsType(chain_in'[d], i, "QUERY_TX_STATUS")
  <2> SUFFICES ASSUME NEW d \in ChainThreads, NEW i \in Nat, IsType(chain_in'[d], i, "QUERY_TX_STATUS")
               PROVE  FALSE
    OBVIOUS
  <2>1. CASE d = c
    <3>1. IsType(chain_in[c], i + 1, "QUERY_TX_STATUS") /\ i + 1 \in Nat
      BY <1>1, <1>2, <1>3, <2>1, ServedByChain
    <3> QED BY <1>1, <1>2, <3>1, NoCall
  <2>2. CASE d # c
    <3>1. IsType(chain_in[d], i, "QUERY_TX_STATUS")
      BY <1>1, <1>2, <1>3, <2>2, ServedByChain
    <3> QED BY <1>1, <3>1, NoCall
  <2> QED BY <2>1, <2>2
<1>6. \A q \in PoolThreads, i \in Nat : ~IsType(pool_in'[q], i, "CONFIRM_BLOCK")
  <2> SUFFICES ASSUME NEW q \in PoolThreads, NEW i \in Nat, IsType(pool_in'[q], i, "CONFIRM_BLOCK")
               PROVE  FALSE
    OBVIOUS
  <2>1. CASE q = p
    <3>1. IsType(pool_in[p], i + 1, "CONFIRM_BLOCK") /\ i + 1 # 1 /\ i + 1 \in Nat
      BY <1>1, <2>1, ServedByPool
    <3> QED BY <1>2, <3>1 DEF ConfirmInv
  <2>2. CASE q # p
    <3>1. IsType(pool_in[q], i, "CONFIRM_BLOCK")
      BY <1>1, <1>2, <2>2, ServedByPool
    <3> QED BY <1>2, <2>2, <3>1 DEF ConfirmInv
  <2> QED BY <2>1, <2>2
<1> QED BY <1>4, <1>5, <1>6 DEF QueryInv, ConfirmInv

\* A worker of the pool that is done with a request other than a confirmation.
LEMMA ServedConfirms ==
  ASSUME IInv, NEW p \in PoolThreads, pool_in[p] # <<>>,
         pool_in' = [pool_in EXCEPT ![p] = Tail(@)]
  PROVE  /\ \A q \in PoolThreads, i \in Nat : IsType(pool_in'[q], i, "CONFIRM_BLOCK") =>
              pool_in'[q][i].from = blockmutex /\ AtHead(chain_in[blockmutex], "SUBMIT_BLOCK")
         /\ \A q, r \in PoolThreads, i, j \in Nat :
              IsType(pool_in'[q], i, "CONFIRM_BLOCK") /\ IsType(pool_in'[r], j, "CONFIRM_BLOCK")
                => q = r /\ i = j
<1> USE DEF IInv
<1> DEFINE was(q, i) == IF q = p THEN i + 1 ELSE i
<1>1. ASSUME NEW q \in PoolThreads, NEW i \in Nat, IsType(pool_in'[q], i, "CONFIRM_BLOCK")
      PROVE  /\ was(q, i) \in Nat /\ IsType(pool_in[q], was(q, i), "CONFIRM_BLOCK")
             /\ pool_in'[q][i] = pool_in[q][was(q, i)]
  <2>1. CASE q = p BY <1>1, <2>1, ServedByPool
  <2>2. CASE q # p BY <1>1, <2>2, ServedByPool
  <2> QED BY <2>1, <2>2
<1> HIDE DEF was
<1>2. ASSUME NEW q \in PoolThreads, NEW i \in Nat, IsType(pool_in'[q], i, "CONFIRM_BLOCK")
      PROVE  pool_in'[q][i].from = blockmutex /\ AtHead(chain_in[blockmutex], "SUBMIT_BLOCK")
  <2>1. /\ was(q, i) \in Nat /\ IsType(pool_in[q], was(q, i), "CONFIRM_BLOCK")
        /\ pool_in'[q][i] = pool_in[q][was(q, i)]
    BY <1>1, <1>2
  <2>2. ASSUME NEW k \in Nat, IsType(pool_in[q], k, "CONFIRM_BLOCK")
        PROVE  pool_in[q][k].from = blockmutex /\ AtHead(chain_in[blockmutex], "SUBMIT_BLOCK")
    BY <2>2 DEF ConfirmInv
  <2> QED BY <2>1, <2>2
<1>3. ASSUME NEW q \in PoolThreads, NEW r \in PoolThreads, NEW i \in Nat, NEW j \in Nat,
             IsType(pool_in'[q], i, "CONFIRM_BLOCK"), IsType(pool_in'[r], j, "CONFIRM_BLOCK")
      PROVE  q = r /\ i = j
  <2>1. /\ was(q, i) \in Nat /\ IsType(pool_in[q], was(q, i), "CONFIRM_BLOCK")
        /\ was(r, j) \in Nat /\ IsType(pool_in[r], was(r, j), "CONFIRM_BLOCK")
    BY <1>1, <1>3
  <2>2. q = r /\ was(q, i) = was(r, j)
    BY <2>1 DEF ConfirmInv
  <2> QED BY <2>2 DEF was
<1> QED BY <1>2, <1>3

LEMMA AnswerFromPoolKeeps ==
  ASSUME IInv, NEW p \in PoolThreads, AnswerFromPool(p)
  PROVE  IInv'
<1> USE DEF IInv
<1>1. /\ pool_in[p] # <<>> /\ tx_lock = None
      /\ pool_in' = [pool_in EXCEPT ![p] = Tail(@)] /\ waiting' \subseteq waiting
      /\ UNCHANGED <<chain_in, pool_next, chain_next, tx_lock, blockmutex, submitted>>
  BY DEF AnswerFromPool, AtHead
<1>2. TypeOK' BY <1>1, ServedByPool DEF TypeOK
<1>3. QueryInv' BY <1>1, NoCall DEF QueryInv
<1>4. ConfirmInv' BY <1>1, ServedConfirms DEF ConfirmInv
<1> QED BY <1>2, <1>3, <1>4

LEMMA AskChainKeeps ==
  ASSUME IInv, NEW p \in PoolThreads, AskChain(p)
  PROVE  IInv'
<1> USE DEF IInv
<1>1. /\ AtHead(pool_in[p], "QUERY_TX_STATUS") /\ tx_lock = None /\ tx_lock' = p
      /\ DealToChain("QUERY_TX_STATUS", p)
      /\ UNCHANGED <<pool_in, pool_next, blockmutex, waiting, submitted>>
      /\ [type |-> "QUERY_TX_STATUS", from |-> p] \in ChainJobs
  BY DEF AskChain, ChainJobs
<1>2. TypeOK' BY <1>1, DealtToChain DEF TypeOK
<1>3. \A c \in ChainThreads : \A t : AtHead(chain_in[c], t) => AtHead(chain_in'[c], t)
  BY <1>1, DealtToChain
<1>4. \A c \in ChainThreads, i \in Nat : IsType(chain_in'[c], i, "QUERY_TX_STATUS") =>
        c = chain_next /\ i = Len(chain_in[c]) + 1 /\ chain_in'[c][i].from = p
  BY <1>1, DealtToChain, NoCall DEF IsType
<1>5. QueryInv'
  <2>1. \A c \in ChainThreads, i \in Nat : IsType(chain_in'[c], i, "QUERY_TX_STATUS") =>
          chain_in'[c][i].from = tx_lock'
    BY <1>1, <1>4
  <2>2. \A c, d \in ChainThreads, i, j \in Nat :
          IsType(chain_in'[c], i, "QUERY_TX_STATUS") /\ IsType(chain_in'[d], j, "QUERY_TX_STATUS")
            => c = d /\ i = j
    BY <1>4
  <2>3. AtHead(pool_in'[tx_lock'], "QUERY_TX_STATUS") BY <1>1
  <2> QED BY <2>1, <2>2, <2>3 DEF QueryInv
<1>6. ConfirmInv'
  <2>1. \A q \in PoolThreads, i \in Nat : IsType(pool_in[q], i, "CONFIRM_BLOCK") => blockmutex \in ChainThreads
    BY NoCall
  <2> QED BY <1>1, <1>3, <2>1 DEF ConfirmInv
<1> QED BY <1>2, <1>5, <1>6

LEMMA AnswerFromChainKeeps ==
  ASSUME IInv, NEW c \in ChainThreads, AnswerFromChain(c)
  PROVE  IInv'
<1> USE DEF IInv
<1> DEFINE p == Head(chain_in[c]).from
<1>1. /\ AtHead(chain_in[c], "QUERY_TX_STATUS") /\ chain_in[c] # <<>>
      /\ chain_in' = [chain_in EXCEPT ![c] = Tail(@)]
      /\ pool_in' = [pool_in EXCEPT ![p] = Tail(@)]
      /\ waiting' \subseteq waiting /\ tx_lock' = None
      /\ UNCHANGED <<pool_next, chain_next, blockmutex, submitted>>
  BY DEF AnswerFromChain, ReleasesTxLock, AtHead
<1>2. p \in PoolThreads /\ IsType(chain_in[c], 1, "QUERY_TX_STATUS") /\ tx_lock = p
  <2>1. /\ IsType(chain_in[c], 1, "QUERY_TX_STATUS")
        /\ Head(chain_in[c]) \in ChainJobs /\ chain_in[c][1] = Head(chain_in[c])
    BY <1>1, ServedByChain
  <2>2. Head(chain_in[c]).type = "QUERY_TX_STATUS" BY <1>1 DEF AtHead
  <2>3. p \in PoolThreads BY <2>1, <2>2 DEF ChainJobs
  <2> QED BY <2>1, <2>3 DEF QueryInv
<1>3. pool_in[p] # <<>>
  BY <1>2 DEF QueryInv, AtHead
<1> HIDE DEF p
<1>4. TypeOK' BY <1>1, <1>2, <1>3, ServedByPool, ServedByChain DEF TypeOK
<1>5. \A d \in ChainThreads, i \in Nat : ~IsType(chain_in'[d], i, "QUERY_TX_STATUS")
  <2> SUFFICES ASSUME NEW d \in ChainThreads, NEW i \in Nat, IsType(chain_in'[d], i, "QUERY_TX_STATUS")
               PROVE  FALSE
    OBVIOUS
  <2>1. CASE d = c
    <3>1. IsType(chain_in[c], i + 1, "QUERY_TX_STATUS") /\ i + 1 # 1 /\ i + 1 \in Nat
      BY <1>1, <2>1, ServedByChain
    <3> QED BY <1>2, <3>1 DEF QueryInv
  <2>2. CASE d # c
    <3>1. IsType(chain_in[d], i, "QUERY_TX_STATUS")
      BY <1>1, <1>2, <2>2, ServedByChain
    <3> QED BY <1>2, <2>2, <3>1 DEF QueryInv
  <2> QED BY <2>1, <2>2
<1>6. ConfirmInv'
  <2>1. ASSUME blockmutex \in ChainThreads, AtHead(chain_in[blockmutex], "SUBMIT_BLOCK")
        PROVE  AtHead(chain_in'[blockmutex], "SUBMIT_BLOCK")
    BY <1>1, <2>1 DEF AtHead, TypeOK
  <2>2. \A q \in PoolThreads, i \in Nat : IsType(pool_in'[q], i, "CONFIRM_BLOCK") => blockmutex \in ChainThreads
    <3> SUFFICES ASSUME NEW q \in PoolThreads, NEW i \in Nat, IsType(pool_in'[q], i, "CONFIRM_BLOCK")
                 PROVE  blockmutex \in ChainThreads
      OBVIOUS
    <3>1. CASE q = p BY <1>1, <1>2, <1>3, <3>1, ServedByPool, NoCall
    <3>2. CASE q # p BY <1>1, <1>2, <1>3, <3>2, ServedByPool, NoCall
    <3> QED BY <3>1, <3>2
  <2> QED BY <1>1, <1>2, <1>3, <2>1, <2>2, ServedConfirms DEF ConfirmInv
<1> QED BY <1>4, <1>5, <1>6 DEF QueryInv

LEMMA IInvStep == ASSUME IInv, [Next]_vars PROVE IInv'
<1>1. CASE UNCHANGED vars
  BY <1>1 DEF vars, IInv, TypeOK, QueryInv, ConfirmInv, IsType, AtHead
<1> QED BY <1>1, AskKeeps, SubmitKeeps, AddBlockKeeps, ConfirmKeeps, AnswerFromPoolKeeps,
           AskChainKeeps, AnswerFromChainKeeps DEF Next, PoolThread, ChainThread

THEOREM WorkersInvariance == Spec => []IInv
BY InitIInv, IInvStep, PTL DEF Spec

(* Every variable keeps its type.                                          *)
THEOREM WorkersTypeCorrect == Spec => []TypeOK
BY WorkersInvariance, PTL DEF IInv

(* What a worker in the circle waits for is held by another worker in it   *)
(* or dealt to one.  The only query at the blockchain is the one in the    *)
(* circle, and it is behind a block, so no answer can come.                *)
LEMMA CircleStep ==
  ASSUME IInv, Circle, [Next]_vars
  PROVE  Circle'
<1> DEFINE query == [type |-> "QUERY_TX_STATUS", from |-> tx_lock]
<1>1. tx_lock # None /\ blockmutex # None
  BY DEF Circle
<1>2. PICK c \in ChainThreads : AtHead(chain_in[c], "SUBMIT_BLOCK") /\ query \in ToSet(chain_in[c])
  BY DEF Circle
<1>3. PICK i \in DOMAIN chain_in[c] : chain_in[c][i] = query
  BY <1>2 DEF ToSet
<1>4. /\ chain_in[c] \in Seq(ChainJobs) /\ i \in Nat /\ query.type = "QUERY_TX_STATUS"
  BY DEF IInv, TypeOK
<1>5. IsType(chain_in[c], i, "QUERY_TX_STATUS")
  BY <1>3, <1>4 DEF IsType
<1>6. ASSUME UNCHANGED <<chain_in, tx_lock, blockmutex>>
      PROVE  Circle'
  BY <1>6 DEF Circle
<1>7. ASSUME SubmitBlock PROVE Circle'
  <2> DEFINE job == [type |-> "SUBMIT_BLOCK", from |-> Metronome]
  <2>1. /\ job \in ChainJobs /\ DealToChain("SUBMIT_BLOCK", Metronome)
        /\ UNCHANGED <<tx_lock, blockmutex>>
    BY <1>7 DEF SubmitBlock, ChainJobs
  <2>2. AtHead(chain_in'[c], "SUBMIT_BLOCK")
    BY <1>2, <2>1, DealtToChain DEF IInv
  <2>3. chain_in'[c] = chain_in[c] \/ chain_in'[c] = Append(chain_in[c], job)
    BY <2>1 DEF DealToChain, IInv, TypeOK
  <2>4. query \in ToSet(chain_in'[c])
    <3> HIDE DEF query, job
    <3>1. i \in DOMAIN Append(chain_in[c], job) /\ Append(chain_in[c], job)[i] = query
      BY <1>3, <1>4, <2>1, AppendEntries
    <3>2. query \in ToSet(Append(chain_in[c], job)) BY <3>1 DEF ToSet
    <3> QED BY <1>2, <2>3, <3>2
  <2> QED BY <1>1, <2>1, <2>2, <2>4 DEF Circle
<1>8. ASSUME NEW d \in ChainThreads, AnswerFromChain(d) PROVE FALSE
  <2>1. AtHead(chain_in[d], "QUERY_TX_STATUS") /\ chain_in[d] \in Seq(ChainJobs)
    BY <1>8 DEF AnswerFromChain, IInv, TypeOK
  <2>2. IsType(chain_in[d], 1, "QUERY_TX_STATUS")
    BY <2>1 DEF IsType, AtHead
  <2>3. d = c BY <1>5, <2>2, <1>4 DEF IInv, QueryInv
  <2> QED BY <1>2, <2>1, <2>3 DEF AtHead
<1>9. CASE UNCHANGED vars BY <1>6, <1>9 DEF vars
<1>10. CASE \E client \in Clients, type \in {"QUERY_TX_STATUS", "POP_TX"} : Ask(client, type)
  BY <1>6, <1>10 DEF Ask
<1>11. CASE \E p \in PoolThreads : PoolThread(p)
  BY <1>1, <1>11 DEF PoolThread, Confirm, AnswerFromPool, AskChain
<1>12. CASE \E d \in ChainThreads : ChainThread(d)
  BY <1>1, <1>8, <1>12 DEF ChainThread, AddBlock
<1> QED BY <1>7, <1>9, <1>10, <1>11, <1>12 DEF Next

(* Once the workers of the two servers wait for each other, no interleaving*)
(* of whatever arrives later lets any of them go: the two hosts have to be *)
(* restarted.                                                              *)
THEOREM CircleNeverBreaks == Spec => CircleIsForever
<1>1. IInv /\ [Next]_vars => [Circle => Circle']_vars
  BY CircleStep
<1> QED BY <1>1, WorkersInvariance, PTL DEF Spec, CircleIsForever

-----------------------------------------------------------------------------
(* Nothing but the circle blocks.  A worker of the pool runs when it has a *)
(* request and tx_lock is free, one of the blockchain when it has a query  *)
(* or finds blockmutex free.                                               *)
SomeoneRuns ==
  \/ tx_lock = None /\ \E p \in PoolThreads : pool_in[p] # <<>>
  \/ \E c \in ChainThreads :
       /\ chain_in[c] # <<>>
       /\ AtHead(chain_in[c], "QUERY_TX_STATUS") \/ blockmutex = None

OnlyCircleBlocks == waiting # {} => SomeoneRuns \/ Circle

\* Who holds a mutex across a call has its call under way.
CallInv ==
  /\ tx_lock # None =>
       \E c \in ChainThreads, i \in Nat : IsType(chain_in[c], i, "QUERY_TX_STATUS")
  /\ blockmutex # None =>
       \E p \in PoolThreads, i \in Nat : IsType(pool_in[p], i, "CONFIRM_BLOCK")

(* Who waits has a request dealt to a worker; the metronome one whose      *)
(* add_block has not begun.                                                *)
Asks(queue, i, client) == i \in DOMAIN queue /\ queue[i].type # "CONFIRM_BLOCK" /\ queue[i].from = client

AskedInv ==
  /\ \A client \in Clients : client \in waiting =>
       \E p \in PoolThreads, i \in Nat : Asks(pool_in[p], i, client)
  /\ Metronome \in waiting =>
       \E c \in ChainThreads, i \in Nat :
         IsType(chain_in[c], i, "SUBMIT_BLOCK") /\ ~(c = blockmutex /\ i = 1)

WaitInv == CallInv /\ AskedInv

\* Dealing a request moves no entry of any queue.
LEMMA DealtStays ==
  ASSUME NEW S, NEW T, NEW q \in [T -> Seq(S)], NEW k \in T, NEW job \in S,
         NEW r, r = [q EXCEPT ![k] = Append(@, job)]
  PROVE  /\ \A t \in T, i \in Nat : i \in DOMAIN q[t] => i \in DOMAIN r[t] /\ r[t][i] = q[t][i]
         /\ \E i \in Nat : i \in DOMAIN r[k] /\ r[k][i] = job /\ (q[k] # <<>> => i # 1)
<1>1. q[k] \in Seq(S) /\ r[k] = Append(q[k], job) /\ \A t \in T \ {k} : r[t] = q[t]
  OBVIOUS
<1>2. \A i \in Nat : i \in DOMAIN q[k] => i \in DOMAIN r[k] /\ r[k][i] = q[k][i]
  BY <1>1, AppendEntries
<1>3. Len(q[k]) + 1 \in Nat /\ (q[k] # <<>> => Len(q[k]) + 1 # 1)
  BY <1>1
<1>4. Len(q[k]) + 1 \in DOMAIN r[k] /\ r[k][Len(q[k]) + 1] = job
  BY <1>1, <1>3, AppendEntries
<1> QED BY <1>1, <1>2, <1>3, <1>4

\* Serving a head takes that entry only: the others of its queue move up.
LEMMA ServedStays ==
  ASSUME NEW S, NEW T, NEW q \in [T -> Seq(S)], NEW k \in T, q[k] # <<>>,
         NEW r, r = [q EXCEPT ![k] = Tail(@)]
  PROVE  /\ \A t \in T : t # k => r[t] = q[t]
         /\ q[k][1] = Head(q[k])
         /\ \A i \in Nat : i \in DOMAIN q[k] /\ i # 1 =>
              i - 1 \in Nat /\ i - 1 \in DOMAIN r[k] /\ r[k][i - 1] = q[k][i]
<1> DEFINE s == q[k]
<1>1. s \in Seq(S) /\ s # <<>> /\ r[k] = Tail(s) /\ \A t \in T : t # k => r[t] = q[t]
  OBVIOUS
<1> HIDE DEF s
<1>2. s[1] = Head(s)
  BY <1>1
<1>3. \A i \in Nat : i \in DOMAIN s /\ i # 1 =>
        i - 1 \in Nat /\ i - 1 \in DOMAIN Tail(s) /\ Tail(s)[i - 1] = s[i]
  BY <1>1
<1> QED BY <1>1, <1>2, <1>3 DEF s

-----------------------------------------------------------------------------
LEMMA InitWaitInv == Init => WaitInv
BY WorkersAssumption DEF Init, WaitInv, CallInv, AskedInv

\* The worker that holds blockmutex across a call has the block at its head.
LEMMA HolderBusy ==
  ASSUME IInv, CallInv, blockmutex # None
  PROVE  blockmutex \in ChainThreads /\ chain_in[blockmutex] # <<>>
                                     /\ AtHead(chain_in[blockmutex], "SUBMIT_BLOCK")
<1>1. PICK p \in PoolThreads, i \in Nat : IsType(pool_in[p], i, "CONFIRM_BLOCK")
  BY DEF CallInv
<1> QED BY <1>1, NoCall DEF IInv, ConfirmInv, AtHead

LEMMA PoolDealtKeeps ==
  ASSUME TypeOK, NEW type, NEW from, [type |-> type, from |-> from] \in PoolJobs,
         DealToPool(type, from)
  PROVE  /\ \A p \in PoolThreads, i \in Nat : \A t :
              IsType(pool_in[p], i, t) => IsType(pool_in'[p], i, t)
         /\ \A p \in PoolThreads, i \in Nat : \A client :
              Asks(pool_in[p], i, client) => Asks(pool_in'[p], i, client)
         /\ \E p \in PoolThreads, i \in Nat :
              IsType(pool_in'[p], i, type) /\ (type # "CONFIRM_BLOCK" => Asks(pool_in'[p], i, from))
<1> DEFINE job == [type |-> type, from |-> from]
<1>1. /\ pool_in \in [PoolThreads -> Seq(PoolJobs)] /\ pool_next \in PoolThreads /\ job \in PoolJobs
      /\ pool_in' = [pool_in EXCEPT ![pool_next] = Append(@, job)]
      /\ job.type = type /\ job.from = from
  BY DEF TypeOK, DealToPool
<1> HIDE DEF job
<1>2. \A p \in PoolThreads, i \in Nat :
        i \in DOMAIN pool_in[p] => i \in DOMAIN pool_in'[p] /\ pool_in'[p][i] = pool_in[p][i]
  BY <1>1, DealtStays
<1>3. \E i \in Nat : i \in DOMAIN pool_in'[pool_next] /\ pool_in'[pool_next][i] = job
  BY <1>1, DealtStays
<1> QED BY <1>1, <1>2, <1>3 DEF IsType, Asks

LEMMA ChainDealtKeeps ==
  ASSUME TypeOK, NEW type, NEW from, [type |-> type, from |-> from] \in ChainJobs,
         DealToChain(type, from)
  PROVE  /\ \A c \in ChainThreads, i \in Nat : \A t :
              IsType(chain_in[c], i, t) => IsType(chain_in'[c], i, t)
         /\ \E c \in ChainThreads, i \in Nat :
              IsType(chain_in'[c], i, type) /\ (chain_in[c] # <<>> => i # 1)
<1> DEFINE job == [type |-> type, from |-> from]
<1>1. /\ chain_in \in [ChainThreads -> Seq(ChainJobs)] /\ chain_next \in ChainThreads /\ job \in ChainJobs
      /\ chain_in' = [chain_in EXCEPT ![chain_next] = Append(@, job)]
      /\ job.type = type
  BY DEF TypeOK, DealToChain
<1> HIDE DEF job
<1>2. \A c \in ChainThreads, i \in Nat :
        i \in DOMAIN chain_in[c] => i \in DOMAIN chain_in'[c] /\ chain_in'[c][i] = chain_in[c][i]
  BY <1>1, DealtStays
<1>3. \E i \in Nat : /\ i \in DOMAIN chain_in'[chain_next] /\ chain_in'[chain_next][i] = job
                     /\ chain_in[chain_next] # <<>> => i # 1
  BY <1>1, DealtStays
<1> QED BY <1>1, <1>2, <1>3 DEF IsType

\* A worker of the pool is done with its head: the other requests remain.
LEMMA PoolServedKeeps ==
  ASSUME TypeOK, NEW p \in PoolThreads, pool_in[p] # <<>>,
         pool_in' = [pool_in EXCEPT ![p] = Tail(@)]
  PROVE  /\ Head(pool_in[p]).type # "CONFIRM_BLOCK" =>
              \A q \in PoolThreads, i \in Nat : IsType(pool_in[q], i, "CONFIRM_BLOCK") =>
                \E j \in Nat : IsType(pool_in'[q], j, "CONFIRM_BLOCK")
         /\ \A client : Head(pool_in[p]).type = "CONFIRM_BLOCK" \/ Head(pool_in[p]).from # client =>
              \A q \in PoolThreads, i \in Nat : Asks(pool_in[q], i, client) =>
                \E j \in Nat : Asks(pool_in'[q], j, client)
<1>1. pool_in \in [PoolThreads -> Seq(PoolJobs)]
  BY DEF TypeOK
<1>2. /\ \A q \in PoolThreads : q # p => pool_in'[q] = pool_in[q]
      /\ pool_in[p][1] = Head(pool_in[p])
      /\ \A i \in Nat : i \in DOMAIN pool_in[p] /\ i # 1 =>
           i - 1 \in Nat /\ i - 1 \in DOMAIN pool_in'[p] /\ pool_in'[p][i - 1] = pool_in[p][i]
  BY <1>1, ServedStays
<1>3. ASSUME NEW q \in PoolThreads, NEW i \in Nat, i \in DOMAIN pool_in[q], ~(q = p /\ i = 1)
      PROVE  \E j \in Nat : j \in DOMAIN pool_in'[q] /\ pool_in'[q][j] = pool_in[q][i]
  <2>1. CASE q = p BY <1>2, <1>3, <2>1
  <2>2. CASE q # p BY <1>2, <1>3, <2>2
  <2> QED BY <2>1, <2>2
<1>4. ASSUME Head(pool_in[p]).type # "CONFIRM_BLOCK",
             NEW q \in PoolThreads, NEW i \in Nat, IsType(pool_in[q], i, "CONFIRM_BLOCK")
      PROVE  \E j \in Nat : IsType(pool_in'[q], j, "CONFIRM_BLOCK")
  <2>1. i \in DOMAIN pool_in[q] /\ ~(q = p /\ i = 1) BY <1>2, <1>4 DEF IsType
  <2>2. PICK j \in Nat : j \in DOMAIN pool_in'[q] /\ pool_in'[q][j] = pool_in[q][i]
    BY <1>3, <2>1
  <2> QED BY <1>4, <2>2 DEF IsType
<1>5. ASSUME NEW client,
             Head(pool_in[p]).type = "CONFIRM_BLOCK" \/ Head(pool_in[p]).from # client,
             NEW q \in PoolThreads, NEW i \in Nat, Asks(pool_in[q], i, client)
      PROVE  \E j \in Nat : Asks(pool_in'[q], j, client)
  <2>1. i \in DOMAIN pool_in[q] /\ ~(q = p /\ i = 1) BY <1>2, <1>5 DEF Asks
  <2>2. PICK j \in Nat : j \in DOMAIN pool_in'[q] /\ pool_in'[q][j] = pool_in[q][i]
    BY <1>3, <2>1
  <2> QED BY <1>5, <2>2 DEF Asks
<1> QED BY <1>4, <1>5

LEMMA ChainServedKeeps ==
  ASSUME TypeOK, NEW c \in ChainThreads, chain_in[c] # <<>>,
         chain_in' = [chain_in EXCEPT ![c] = Tail(@)]
  PROVE  \A d \in ChainThreads, i \in Nat :
           IsType(chain_in[d], i, "SUBMIT_BLOCK") /\ ~(d = c /\ i = 1) =>
             \E j \in Nat : IsType(chain_in'[d], j, "SUBMIT_BLOCK") /\ (d # c => j = i)
<1>1. chain_in \in [ChainThreads -> Seq(ChainJobs)]
  BY DEF TypeOK
<1>2. /\ \A d \in ChainThreads : d # c => chain_in'[d] = chain_in[d]
      /\ \A k \in Nat : k \in DOMAIN chain_in[c] /\ k # 1 =>
           k - 1 \in Nat /\ k - 1 \in DOMAIN chain_in'[c] /\ chain_in'[c][k - 1] = chain_in[c][k]
  BY <1>1, ServedStays
<1> SUFFICES ASSUME NEW d \in ChainThreads, NEW i \in Nat,
                    IsType(chain_in[d], i, "SUBMIT_BLOCK"), ~(d = c /\ i = 1)
             PROVE  \E j \in Nat : IsType(chain_in'[d], j, "SUBMIT_BLOCK") /\ (d # c => j = i)
  OBVIOUS
<1>3. CASE d # c BY <1>2, <1>3
<1>4. CASE d = c BY <1>2, <1>4 DEF IsType
<1> QED BY <1>3, <1>4

-----------------------------------------------------------------------------
LEMMA AskWaits ==
  ASSUME IInv, WaitInv, NEW client \in Clients, NEW type \in {"QUERY_TX_STATUS", "POP_TX"},
         Ask(client, type)
  PROVE  WaitInv'
<1>1. /\ DealToPool(type, client) /\ waiting' = waiting \cup {client}
      /\ UNCHANGED <<chain_in, chain_next, tx_lock, blockmutex, submitted>>
      /\ [type |-> type, from |-> client] \in PoolJobs /\ type # "CONFIRM_BLOCK"
      /\ client # Metronome
  BY WorkersAssumption DEF Ask, PoolJobs
<1>2. CallInv'
  BY <1>1, PoolDealtKeeps DEF IInv, WaitInv, CallInv
<1>3. ASSUME NEW other \in Clients, other \in waiting'
      PROVE  \E p \in PoolThreads, i \in Nat : Asks(pool_in'[p], i, other)
  <2>1. CASE other \in waiting
    <3>1. PICK p \in PoolThreads, i \in Nat : Asks(pool_in[p], i, other)
      BY <2>1 DEF WaitInv, AskedInv
    <3>2. Asks(pool_in'[p], i, other)
      BY <1>1, <3>1, PoolDealtKeeps DEF IInv
    <3> QED BY <3>2
  <2>2. CASE other = client
    BY <1>1, <2>2, PoolDealtKeeps DEF IInv
  <2> QED BY <1>1, <1>3, <2>1, <2>2
<1>4. AskedInv'
  BY <1>1, <1>3 DEF WaitInv, AskedInv
<1> QED BY <1>2, <1>4 DEF WaitInv

LEMMA SubmitWaits ==
  ASSUME IInv, WaitInv, SubmitBlock
  PROVE  WaitInv'
<1>1. /\ DealToChain("SUBMIT_BLOCK", Metronome) /\ waiting' = waiting \cup {Metronome}
      /\ UNCHANGED <<pool_in, pool_next, tx_lock, blockmutex>>
      /\ [type |-> "SUBMIT_BLOCK", from |-> Metronome] \in ChainJobs
  BY DEF SubmitBlock, ChainJobs
<1>2. CallInv'
  BY <1>1, ChainDealtKeeps DEF IInv, WaitInv, CallInv
<1>3. PICK c \in ChainThreads, i \in Nat :
        IsType(chain_in'[c], i, "SUBMIT_BLOCK") /\ (chain_in[c] # <<>> => i # 1)
  BY <1>1, ChainDealtKeeps DEF IInv
<1>4. ~(c = blockmutex /\ i = 1)
  BY <1>3, NoCall, HolderBusy DEF WaitInv
<1>5. \A client \in Clients : client \in waiting' => client \in waiting
  BY <1>1, WorkersAssumption
<1> QED BY <1>1, <1>2, <1>3, <1>4, <1>5 DEF WaitInv, AskedInv

LEMMA AddBlockWaits ==
  ASSUME IInv, WaitInv, NEW c \in ChainThreads, AddBlock(c)
  PROVE  WaitInv'
<1>1. /\ DealToPool("CONFIRM_BLOCK", c) /\ waiting' = waiting \ {Metronome}
      /\ UNCHANGED <<chain_in, chain_next, tx_lock, submitted>>
      /\ [type |-> "CONFIRM_BLOCK", from |-> c] \in PoolJobs
  BY DEF AddBlock, PoolJobs
<1>2. \E p \in PoolThreads, i \in Nat : IsType(pool_in'[p], i, "CONFIRM_BLOCK")
  BY <1>1, PoolDealtKeeps DEF IInv
<1>3. CallInv'
  BY <1>1, <1>2 DEF WaitInv, CallInv
<1>4. ASSUME NEW client \in Clients, client \in waiting'
      PROVE  \E p \in PoolThreads, i \in Nat : Asks(pool_in'[p], i, client)
  <2>1. PICK p \in PoolThreads, i \in Nat : Asks(pool_in[p], i, client)
    BY <1>1, <1>4 DEF WaitInv, AskedInv
  <2>2. Asks(pool_in'[p], i, client)
    BY <1>1, <2>1, PoolDealtKeeps DEF IInv
  <2> QED BY <2>2
<1>5. AskedInv'
  BY <1>1, <1>4 DEF AskedInv
<1> QED BY <1>3, <1>5 DEF WaitInv

LEMMA ConfirmWaits ==
  ASSUME IInv, WaitInv, NEW p \in PoolThreads, Confirm(p)
  PROVE  WaitInv'
<1> DEFINE c == Head(pool_in[p]).from
<1>1. /\ AtHead(pool_in[p], "CONFIRM_BLOCK") /\ tx_lock' = None /\ blockmutex' = None
      /\ pool_in[p] # <<>> /\ Head(pool_in[p]).type = "CONFIRM_BLOCK"
      /\ pool_in' = [pool_in EXCEPT ![p] = Tail(@)]
      /\ chain_in' = [chain_in EXCEPT ![c] = Tail(@)]
      /\ waiting' = waiting
  BY DEF Confirm, AtHead
<1>2. blockmutex = c
  <2>1. IsType(pool_in[p], 1, "CONFIRM_BLOCK") /\ pool_in[p][1] = Head(pool_in[p])
    BY <1>1, ServedByPool DEF IInv
  <2> QED BY <2>1 DEF IInv, ConfirmInv
<1>3. c \in ChainThreads /\ chain_in[c] # <<>>
  <2>1. IsType(pool_in[p], 1, "CONFIRM_BLOCK")
    BY <1>1, ServedByPool DEF IInv
  <2> QED BY <1>2, <2>1, NoCall, HolderBusy DEF WaitInv
<1> HIDE DEF c
<1>4. CallInv' BY <1>1 DEF CallInv
<1>5. ASSUME NEW client \in Clients, client \in waiting'
      PROVE  \E q \in PoolThreads, i \in Nat : Asks(pool_in'[q], i, client)
  <2>1. PICK q \in PoolThreads, i \in Nat : Asks(pool_in[q], i, client)
    BY <1>1, <1>5 DEF WaitInv, AskedInv
  <2>2. \E j \in Nat : Asks(pool_in'[q], j, client)
    BY <1>1, <2>1, PoolServedKeeps DEF IInv
  <2> QED BY <2>2
<1>6. ASSUME Metronome \in waiting'
      PROVE  \E d \in ChainThreads, i \in Nat :
               IsType(chain_in'[d], i, "SUBMIT_BLOCK") /\ ~(d = blockmutex' /\ i = 1)
  <2>1. PICK d \in ChainThreads, i \in Nat :
          IsType(chain_in[d], i, "SUBMIT_BLOCK") /\ ~(d = c /\ i = 1)
    BY <1>1, <1>2, <1>6 DEF WaitInv, AskedInv
  <2>2. \E j \in Nat : IsType(chain_in'[d], j, "SUBMIT_BLOCK")
    BY <1>1, <1>3, <2>1, ChainServedKeeps DEF IInv
  <2> QED BY <1>1, <2>2, NoCall
<1> QED BY <1>4, <1>5, <1>6 DEF WaitInv, AskedInv

LEMMA AnswerFromPoolWaits ==
  ASSUME IInv, WaitInv, NEW p \in PoolThreads, AnswerFromPool(p)
  PROVE  WaitInv'
<1>1. /\ pool_in[p] # <<>> /\ Head(pool_in[p]).type # "CONFIRM_BLOCK"
      /\ pool_in' = [pool_in EXCEPT ![p] = Tail(@)]
      /\ waiting' = waiting \ {Head(pool_in[p]).from}
      /\ UNCHANGED <<chain_in, chain_next, tx_lock, blockmutex>>
  BY DEF AnswerFromPool, AtHead
<1>2. CallInv'
  <2>1. ASSUME blockmutex # None
        PROVE  \E q \in PoolThreads, i \in Nat : IsType(pool_in'[q], i, "CONFIRM_BLOCK")
    <3>1. PICK q \in PoolThreads, i \in Nat : IsType(pool_in[q], i, "CONFIRM_BLOCK")
      BY <2>1 DEF WaitInv, CallInv
    <3>2. \E j \in Nat : IsType(pool_in'[q], j, "CONFIRM_BLOCK")
      BY <1>1, <3>1, PoolServedKeeps DEF IInv
    <3> QED BY <3>2
  <2> QED BY <1>1, <2>1 DEF WaitInv, CallInv
<1>3. ASSUME NEW client \in Clients, client \in waiting'
      PROVE  \E q \in PoolThreads, i \in Nat : Asks(pool_in'[q], i, client)
  <2>1. PICK q \in PoolThreads, i \in Nat : Asks(pool_in[q], i, client)
    BY <1>1, <1>3 DEF WaitInv, AskedInv
  <2>2. \E j \in Nat : Asks(pool_in'[q], j, client)
    BY <1>1, <1>3, <2>1, PoolServedKeeps DEF IInv
  <2> QED BY <2>2
<1>4. AskedInv'
  BY <1>1, <1>3 DEF WaitInv, AskedInv
<1> QED BY <1>2, <1>4 DEF WaitInv

LEMMA AskChainWaits ==
  ASSUME IInv, WaitInv, NEW p \in PoolThreads, AskChain(p)
  PROVE  WaitInv'
<1>1. /\ DealToChain("QUERY_TX_STATUS", p)
      /\ UNCHANGED <<pool_in, pool_next, blockmutex, waiting, submitted>>
      /\ [type |-> "QUERY_TX_STATUS", from |-> p] \in ChainJobs
  BY DEF AskChain, ChainJobs
<1>2. \E c \in ChainThreads, i \in Nat : IsType(chain_in'[c], i, "QUERY_TX_STATUS")
  BY <1>1, ChainDealtKeeps DEF IInv
<1>3. CallInv'
  BY <1>1, <1>2 DEF WaitInv, CallInv
<1>4. ASSUME Metronome \in waiting'
      PROVE  \E c \in ChainThreads, i \in Nat :
               IsType(chain_in'[c], i, "SUBMIT_BLOCK") /\ ~(c = blockmutex' /\ i = 1)
  <2>1. PICK c \in ChainThreads, i \in Nat :
          IsType(chain_in[c], i, "SUBMIT_BLOCK") /\ ~(c = blockmutex /\ i = 1)
    BY <1>1, <1>4 DEF WaitInv, AskedInv
  <2>2. IsType(chain_in'[c], i, "SUBMIT_BLOCK")
    BY <1>1, <2>1, ChainDealtKeeps DEF IInv
  <2> QED BY <1>1, <2>1, <2>2
<1>5. AskedInv'
  BY <1>1, <1>4 DEF WaitInv, AskedInv
<1> QED BY <1>3, <1>5 DEF WaitInv

LEMMA AnswerFromChainWaits ==
  ASSUME IInv, WaitInv, NEW c \in ChainThreads, AnswerFromChain(c)
  PROVE  WaitInv'
<1> DEFINE p == Head(chain_in[c]).from
<1>1. /\ chain_in[c] # <<>> /\ AtHead(chain_in[c], "QUERY_TX_STATUS")
      /\ chain_in' = [chain_in EXCEPT ![c] = Tail(@)]
      /\ pool_in' = [pool_in EXCEPT ![p] = Tail(@)]
      /\ waiting' = waiting \ {Head(pool_in[p]).from} /\ tx_lock' = None
      /\ blockmutex' = blockmutex
  BY DEF AnswerFromChain, ReleasesTxLock, AtHead
<1>2. IsType(chain_in[c], 1, "QUERY_TX_STATUS") /\ chain_in[c][1] = Head(chain_in[c])
  BY <1>1, ServedByChain DEF IInv
<1>3. p = tx_lock /\ tx_lock \in PoolThreads /\ AtHead(pool_in[p], "QUERY_TX_STATUS")
  BY <1>2, NoCall DEF IInv, QueryInv
<1>4. p \in PoolThreads /\ pool_in[p] # <<>> /\ Head(pool_in[p]).type # "CONFIRM_BLOCK"
  BY <1>3 DEF AtHead
<1>5. blockmutex # None => c # blockmutex
  BY <1>1, HolderBusy DEF WaitInv, AtHead
<1> HIDE DEF p
<1>6. CallInv'
  <2>1. ASSUME blockmutex # None
        PROVE  \E q \in PoolThreads, i \in Nat : IsType(pool_in'[q], i, "CONFIRM_BLOCK")
    <3>1. PICK q \in PoolThreads, i \in Nat : IsType(pool_in[q], i, "CONFIRM_BLOCK")
      BY <2>1 DEF WaitInv, CallInv
    <3>2. \E j \in Nat : IsType(pool_in'[q], j, "CONFIRM_BLOCK")
      BY <1>1, <1>4, <3>1, PoolServedKeeps DEF IInv
    <3> QED BY <3>2
  <2> QED BY <1>1, <2>1 DEF CallInv
<1>7. ASSUME NEW client \in Clients, client \in waiting'
      PROVE  \E q \in PoolThreads, i \in Nat : Asks(pool_in'[q], i, client)
  <2>1. PICK q \in PoolThreads, i \in Nat : Asks(pool_in[q], i, client)
    BY <1>1, <1>7 DEF WaitInv, AskedInv
  <2>2. \E j \in Nat : Asks(pool_in'[q], j, client)
    BY <1>1, <1>4, <1>7, <2>1, PoolServedKeeps DEF IInv
  <2> QED BY <2>2
<1>8. ASSUME Metronome \in waiting'
      PROVE  \E d \in ChainThreads, i \in Nat :
               IsType(chain_in'[d], i, "SUBMIT_BLOCK") /\ ~(d = blockmutex' /\ i = 1)
  <2>1. PICK d \in ChainThreads, i \in Nat :
          IsType(chain_in[d], i, "SUBMIT_BLOCK") /\ ~(d = blockmutex /\ i = 1)
    BY <1>1, <1>8 DEF WaitInv, AskedInv
  <2>2. ~(d = c /\ i = 1)
    BY <1>2, <2>1 DEF IsType
  <2>3. PICK j \in Nat : IsType(chain_in'[d], j, "SUBMIT_BLOCK") /\ (d # c => j = i)
    <3>1. TypeOK BY DEF IInv
    <3>2. \A e \in ChainThreads, k \in Nat :
            IsType(chain_in[e], k, "SUBMIT_BLOCK") /\ ~(e = c /\ k = 1) =>
              \E j \in Nat : IsType(chain_in'[e], j, "SUBMIT_BLOCK") /\ (e # c => j = k)
      BY <1>1, <3>1, ChainServedKeeps
    <3> QED BY <2>1, <2>2, <3>2
  <2>4. d = blockmutex => d # c
    BY <1>5, NoCall
  <2> QED BY <1>1, <2>1, <2>3, <2>4
<1> QED BY <1>6, <1>7, <1>8 DEF WaitInv, AskedInv

LEMMA WaitStep == ASSUME IInv, WaitInv, [Next]_vars PROVE WaitInv'
<1>1. CASE UNCHANGED vars
  BY <1>1 DEF vars, WaitInv, CallInv, AskedInv
<1> QED BY <1>1, AskWaits, SubmitWaits, AddBlockWaits, ConfirmWaits, AnswerFromPoolWaits,
           AskChainWaits, AnswerFromChainWaits DEF Next, PoolThread, ChainThread

LEMMA WaitersAsk == ASSUME IInv, WaitInv PROVE OnlyCircleBlocks
<1> SUFFICES ASSUME waiting # {}, ~SomeoneRuns PROVE Circle
  BY DEF OnlyCircleBlocks
<1>1. tx_lock # None
  <2> SUFFICES ASSUME tx_lock = None PROVE FALSE
    OBVIOUS
  <2>1. \A p \in PoolThreads : pool_in[p] = <<>>
    BY DEF SomeoneRuns
  <2>2. \A p \in PoolThreads, i \in Nat : i \notin DOMAIN pool_in[p]
    BY <2>1
  <2>3. blockmutex = None
    BY <2>2 DEF WaitInv, CallInv, IsType
  <2>4. Metronome \in waiting
    BY <2>2 DEF WaitInv, AskedInv, Asks, IInv, TypeOK
  <2>5. PICK c \in ChainThreads, i \in Nat : i \in DOMAIN chain_in[c]
    BY <2>4 DEF WaitInv, AskedInv, IsType
  <2>6. chain_in[c] # <<>>
    BY <2>5
  <2> QED BY <2>3, <2>6 DEF SomeoneRuns
<1>2. PICK c \in ChainThreads, i \in Nat : IsType(chain_in[c], i, "QUERY_TX_STATUS")
  BY <1>1 DEF WaitInv, CallInv
<1>3. chain_in[c] \in Seq(ChainJobs) /\ chain_in[c] # <<>> /\ i \in DOMAIN chain_in[c]
  BY <1>2 DEF IInv, TypeOK, IsType
<1>4. blockmutex # None /\ ~AtHead(chain_in[c], "QUERY_TX_STATUS")
  BY <1>3 DEF SomeoneRuns
<1>5. AtHead(chain_in[c], "SUBMIT_BLOCK")
  <2>1. Head(chain_in[c]) \in ChainJobs BY <1>3
  <2> QED BY <1>3, <1>4, <2>1 DEF AtHead, ChainJobs
<1>6. chain_in[c][i] = [type |-> "QUERY_TX_STATUS", from |-> tx_lock]
  <2>1. chain_in[c][i] \in ChainJobs BY <1>3
  <2>2. chain_in[c][i].type = "QUERY_TX_STATUS" /\ chain_in[c][i].from = tx_lock
    BY <1>2 DEF IsType, IInv, QueryInv
  <2> QED BY <2>1, <2>2 DEF ChainJobs
<1>7. [type |-> "QUERY_TX_STATUS", from |-> tx_lock] \in ToSet(chain_in[c])
  BY <1>3, <1>6 DEF ToSet
<1> QED BY <1>1, <1>4, <1>5, <1>7 DEF Circle

(* While anybody waits for a reply, a worker of one of the servers can go  *)
(* on, unless the circle is closed: no other combination of the two        *)
(* mutexes, the calls between the hosts and the queues of the workers      *)
(* stops them all, and no request is lost on its way.                      *)
THEOREM OnlyTheCircleBlocks == Spec => []OnlyCircleBlocks
<1>1. Init => IInv /\ WaitInv
  BY InitIInv, InitWaitInv
<1>2. IInv /\ WaitInv /\ [Next]_vars => IInv' /\ WaitInv'
  BY IInvStep, WaitStep
<1>3. IInv /\ WaitInv => OnlyCircleBlocks
  BY WaitersAsk
<1> QED BY <1>1, <1>2, <1>3, PTL DEF Spec
=============================================================================
