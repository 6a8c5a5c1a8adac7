------------------------------ MODULE Workers ------------------------------
(* The worker threads of the pool's and the blockchain's servers and the   *)
(* calls the two make to each other while they hold a mutex.               *)
(*   server.cpp      each worker has a REP socket of its own; the DEALER   *)
(*                   deals requests to them in turn, busy or not, and a    *)
(*                   worker serves those dealt to it in order              *)
(*   blockchain.cpp  add_block replies, then waits for the pool's          *)
(*                   CONFIRM_BLOCK, holding blockmutex                     *)
(*   tx_pool.cpp     query_tx_status may wait for the blockchain, holding  *)
(*                   tx_lock; every handler but the count takes tx_lock    *)
(* A request stays at the head of its worker's queue until it is done, so  *)
(* a worker that waits for a mutex or a reply has its request there.  What *)
(* the handlers do to the queues and the chain is in TxPool and BlockChain;*)
(* every client and the metronome have one request outstanding at most.    *)
EXTENDS Naturals, Sequences, SequencesExt

CONSTANTS PoolWorkers, ChainWorkers,  \* hardware_concurrency, on each host
          Clients,                    \* wallets and validators
          Metronome, None,
          MaxBlocks                   \* bound: blocks submitted

ASSUME WorkersAssumption ==
  /\ PoolWorkers \in Nat \ {0}
  /\ ChainWorkers \in Nat \ {0}
  /\ Metronome \notin Clients
  /\ None \notin Nat
  /\ MaxBlocks \in Nat

PoolThreads  == 0..PoolWorkers - 1
ChainThreads == 0..ChainWorkers - 1

VARIABLES pool_in, chain_in,      \* the requests dealt to each worker
          pool_next, chain_next,  \* whose turn it is
          tx_lock, blockmutex,    \* the worker that holds it across a call
          waiting,                \* the callers without a reply
          submitted               \* how many blocks were submitted

vars == <<pool_in, chain_in, pool_next, chain_next, tx_lock, blockmutex, waiting, submitted>>

PoolJobs  == [type : {"QUERY_TX_STATUS", "POP_TX"}, from : Clients]
               \cup [type : {"CONFIRM_BLOCK"}, from : ChainThreads]
ChainJobs == [type : {"SUBMIT_BLOCK"}, from : {Metronome}]
               \cup [type : {"QUERY_TX_STATUS"}, from : PoolThreads]

TypeOK ==
  /\ pool_in \in [PoolThreads -> Seq(PoolJobs)]
  /\ chain_in \in [ChainThreads -> Seq(ChainJobs)]
  /\ pool_next \in PoolThreads
  /\ chain_next \in ChainThreads
  /\ tx_lock \in PoolThreads \cup {None}
  /\ blockmutex \in ChainThreads \cup {None}
  /\ waiting \subseteq Clients \cup {Metronome}
  /\ submitted \in 0..MaxBlocks

Init ==
  /\ pool_in = [p \in PoolThreads |-> <<>>]
  /\ chain_in = [c \in ChainThreads |-> <<>>]
  /\ pool_next = 0
  /\ chain_next = 0
  /\ tx_lock = None
  /\ blockmutex = None
  /\ waiting = {}
  /\ submitted = 0

-----------------------------------------------------------------------------
DealToPool(type, from) ==
  /\ pool_in' = [pool_in EXCEPT ![pool_next] = Append(@, [type |-> type, from |-> from])]
  /\ pool_next' = (pool_next + 1) % PoolWorkers

DealToChain(type, from) ==
  /\ chain_in' = [chain_in EXCEPT ![chain_next] = Append(@, [type |-> type, from |-> from])]
  /\ chain_next' = (chain_next + 1) % ChainWorkers

AtHead(queue, type) == queue # <<>> /\ Head(queue).type = type

Ask(client, type) ==
  /\ client \notin waiting
  /\ waiting' = waiting \cup {client}
  /\ DealToPool(type, client)
  /\ UNCHANGED <<chain_in, chain_next, tx_lock, blockmutex, submitted>>

SubmitBlock ==
  /\ Metronome \notin waiting
  /\ submitted < MaxBlocks
  /\ submitted' = submitted + 1
  /\ waiting' = waiting \cup {Metronome}
  /\ DealToChain("SUBMIT_BLOCK", Metronome)
  /\ UNCHANGED <<pool_in, pool_next, tx_lock, blockmutex>>

(* add_block up to the request to the pool.                                *)
AddBlock(c) ==
  /\ AtHead(chain_in[c], "SUBMIT_BLOCK")
  /\ blockmutex = None
  /\ blockmutex' = c
  /\ waiting' = waiting \ {Metronome}
  /\ DealToPool("CONFIRM_BLOCK", c)
  /\ UNCHANGED <<chain_in, chain_next, tx_lock, submitted>>

\* Mutant: confirm_transactions takes no lock.
ConfirmUnlocked(p) ==
  /\ AtHead(pool_in[p], "CONFIRM_BLOCK")
  /\ pool_in' = [pool_in EXCEPT ![p] = Tail(@)]
  /\ LET c == Head(pool_in[p]).from
     IN  chain_in' = [chain_in EXCEPT ![c] = Tail(@)]
  /\ blockmutex' = None
  /\ UNCHANGED <<pool_next, chain_next, tx_lock, waiting, submitted>>

(* confirm_transactions, its reply, and the end of add_block.              *)
Confirm(p) ==
  /\ AtHead(pool_in[p], "CONFIRM_BLOCK")
  /\ tx_lock = None
  /\ pool_in' = [pool_in EXCEPT ![p] = Tail(@)]
  /\ LET c == Head(pool_in[p]).from
     IN  chain_in' = [chain_in EXCEPT ![c] = Tail(@)]
  /\ blockmutex' = None
  /\ UNCHANGED <<pool_next, chain_next, tx_lock, waiting, submitted>>

(* A request the pool answers by itself: a pop, or the status of a         *)
(* transaction it knows.                                                   *)
AnswerFromPool(p) ==
  /\ AtHead(pool_in[p], "POP_TX") \/ AtHead(pool_in[p], "QUERY_TX_STATUS")
  /\ tx_lock = None
  /\ pool_in' = [pool_in EXCEPT ![p] = Tail(@)]
  /\ waiting' = waiting \ {Head(pool_in[p]).from}
  /\ UNCHANGED <<chain_in, pool_next, chain_next, tx_lock, blockmutex, submitted>>

AskChain(p) ==
  /\ AtHead(pool_in[p], "QUERY_TX_STATUS")
  /\ tx_lock = None
  /\ tx_lock' = p
  /\ DealToChain("QUERY_TX_STATUS", p)
  /\ UNCHANGED <<pool_in, pool_next, blockmutex, waiting, submitted>>

\* Mutant: the pool's handler returns without releasing tx_lock.
KeepsTxLock == UNCHANGED tx_lock

ReleasesTxLock == tx_lock' = None

(* tx_status, its reply, and the end of query_tx_status.                   *)
AnswerFromChain(c) ==
  /\ AtHead(chain_in[c], "QUERY_TX_STATUS")
  /\ chain_in' = [chain_in EXCEPT ![c] = Tail(@)]
  /\ LET p == Head(chain_in[c]).from
     IN  /\ waiting' = waiting \ {Head(pool_in[p]).from}
         /\ pool_in' = [pool_in EXCEPT ![p] = Tail(@)]
  /\ ReleasesTxLock
  /\ UNCHANGED <<pool_next, chain_next, blockmutex, submitted>>

PoolThread(p) == Confirm(p) \/ AnswerFromPool(p) \/ AskChain(p)

ChainThread(c) == AddBlock(c) \/ AnswerFromChain(c)

Next ==
  \/ \E client \in Clients, type \in {"QUERY_TX_STATUS", "POP_TX"} : Ask(client, type)
  \/ SubmitBlock
  \/ \E p \in PoolThreads : PoolThread(p)
  \/ \E c \in ChainThreads : ChainThread(c)

Spec == Init /\ [][Next]_vars

(* Threads run, and one that keeps finding its mutex free gets it.         *)
Fairness ==
  /\ \A p \in PoolThreads : SF_vars(PoolThread(p))
  /\ \A c \in ChainThreads : SF_vars(ChainThread(c))

FairSpec == Spec /\ Fairness

-----------------------------------------------------------------------------
(* The circle: a worker of the pool holds tx_lock and waits for an answer  *)
(* that was dealt to a worker of the blockchain whose add_block waits, for *)
(* the pool to confirm its block or for the add_block that waits for that. *)
Circle ==
  /\ tx_lock # None
  /\ blockmutex # None
  /\ \E c \in ChainThreads :
       /\ AtHead(chain_in[c], "SUBMIT_BLOCK")
       /\ [type |-> "QUERY_TX_STATUS", from |-> tx_lock] \in ToSet(chain_in[c])

(* Once it is closed, nobody breaks it.                                    *)
CircleIsForever == [][Circle => Circle']_vars

(* It is the only way to hang: with any interleaving of queries, pops and  *)
(* blocks over the workers, every request is answered unless it closes.    *)
AnsweredUnlessCircle ==
  \A caller \in Clients \cup {Metronome} : caller \in waiting ~> caller \notin waiting \/ Circle
=============================================================================
