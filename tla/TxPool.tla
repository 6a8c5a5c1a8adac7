------------------------------- MODULE TxPool -------------------------------
(***************************************************************************)
(* The transaction pool (src/src/tx_pool.cpp).  Clients post transactions, *)
(* validators pop batches of them, and the blockchain confirms the blocks  *)
(* it has appended.  Every handler but query_tx_count holds tx_lock from   *)
(* its first line to its reply, so a handler is one action, except for two *)
(* that another process can observe in the middle:                         *)
(*   - confirm_transactions, whose loop is one action per iteration        *)
(*   - query_tx_status, which waits for the blockchain's answer with the   *)
(*     lock held.                                                          *)
(* A transaction is its (src, id) key: equality and TxHash ignore the rest.*)
(* `held', `onchain' and `block' are the pool's environment: the batch     *)
(* each validator is building a block from, the keys of the blocks the     *)
(* blockchain has appended, and the CONFIRM_BLOCK request it is sending.   *)
(***************************************************************************)
EXTENDS Naturals, Sequences, SequencesExt

CONSTANTS Tx,          \* transaction keys clients may post
          Reward,      \* the key every reward transaction has: src = 0, id = 0
          Validators,
          BLOCK_SIZE,
          MaxPosts,    \* bound: how often one key is posted
          None

ASSUME ConstantsAssumption ==
  /\ Reward \notin Tx
  /\ BLOCK_SIZE \in Nat \ {0}
  /\ MaxPosts \in Nat
  /\ None \notin Tx \cup {Reward}

VARIABLES submitted_queue, submitted_set,
          unconfirmed_queue, unconfirmed_set,
          tx_lock,        \* which multi-step handler holds the mutex
          confirmed_set,  \* local of confirm_transactions
          asked,          \* local of query_tx_status: the key it asks about
          answer,         \* the last reply about a key
          posts,          \* history: how often a key was accepted
          held, onchain, block

(* A batch is a set of keys, possibly empty; this one stands for no batch. *)
NoBatch == {None}

queues == <<submitted_queue, submitted_set, unconfirmed_queue, unconfirmed_set>>
env    == <<held, onchain, block>>
vars   == <<queues, tx_lock, confirmed_set, asked, answer, posts, env>>

PoolStatus  == {"SUBMITTED", "UNCONFIRMED"}
ChainStatus == {"CONFIRMED", "UNKNOWN"}
Status      == {"STATUS_GOOD", "STATUS_BAD"} \cup PoolStatus \cup ChainStatus
Answers     == [tx : Tx, status : Status]

TypeOK ==
  /\ submitted_queue \in Seq(Tx)
  /\ unconfirmed_queue \in Seq(Tx)
  /\ submitted_set \subseteq Tx
  /\ unconfirmed_set \subseteq Tx
  /\ tx_lock \in {"free", "confirm", "query"}
  /\ confirmed_set \subseteq Tx \cup {Reward}
  /\ asked \in Tx \cup {None}
  /\ answer \in Answers \cup {None}
  /\ posts \in [Tx -> 0..MaxPosts]
  /\ held \in [Validators -> (SUBSET Tx) \cup {NoBatch}]
  /\ onchain \subseteq Tx \cup {Reward}
  /\ block \in (SUBSET (Tx \cup {Reward})) \cup {NoBatch}

Init ==
  /\ submitted_queue = <<>> /\ submitted_set = {}
  /\ unconfirmed_queue = <<>> /\ unconfirmed_set = {}
  /\ tx_lock = "free"
  /\ confirmed_set = {}
  /\ asked = None
  /\ answer = None
  /\ posts = [t \in Tx |-> 0]
  /\ held = [v \in Validators |-> NoBatch]
  /\ onchain = {}
  /\ block = NoBatch

-----------------------------------------------------------------------------
(* POST_TX.  A bad signature is refused; a key already known is not.       *)
AddTransaction(tx) ==
  /\ tx_lock = "free"
  /\ posts[tx] < MaxPosts
  /\ submitted_queue' = Append(submitted_queue, tx)
  /\ submitted_set' = submitted_set \cup {tx}
  /\ posts' = [posts EXCEPT ![tx] = @ + 1]
  /\ answer' = [tx |-> tx, status |-> "STATUS_GOOD"]
  /\ UNCHANGED <<unconfirmed_queue, unconfirmed_set, tx_lock, confirmed_set, asked, env>>

RefuseTransaction(tx) ==
  /\ tx_lock = "free"
  /\ answer' = [tx |-> tx, status |-> "STATUS_BAD"]
  /\ UNCHANGED <<queues, tx_lock, confirmed_set, asked, posts, env>>

(* POP_TX.  One slot of the block is left for the reward.                  *)
PopCount == IF BLOCK_SIZE - 1 <= Len(submitted_queue)
            THEN BLOCK_SIZE - 1
            ELSE Len(submitted_queue)

Popped == SubSeq(submitted_queue, 1, PopCount)

\* Mutants: popping leaves the queue as it is, or takes one too many off it.
RemainingAll == submitted_queue
RemainingOffByOne == SubSeq(submitted_queue, PopCount + 2, Len(submitted_queue))

Remaining == SubSeq(submitted_queue, PopCount + 1, Len(submitted_queue))

Pop ==
  /\ tx_lock = "free"
  /\ submitted_queue' = Remaining
  /\ submitted_set' = submitted_set \ ToSet(Popped)
  /\ unconfirmed_queue' = unconfirmed_queue \o Popped
  /\ unconfirmed_set' = unconfirmed_set \cup ToSet(Popped)
  /\ UNCHANGED <<tx_lock, confirmed_set, asked, answer, posts>>

(* The validator pops only when it holds no batch; see BlockDropped.       *)
PopTransactions(v) ==
  /\ held[v] = NoBatch
  /\ Pop
  /\ held' = [held EXCEPT ![v] = ToSet(Popped)]
  /\ UNCHANGED <<onchain, block>>

\* Mutant: only the pool's own transactions are looked for.
PoolKeysOnly == block \ {Reward}

\* The TransactionSet made of the block's transactions.
BlockKeys == block

(* CONFIRM_BLOCK: the handler takes the lock, moves one transaction out of *)
(* the unconfirmed queue per iteration, and replies.                       *)
ConfirmBegin ==
  /\ tx_lock = "free"
  /\ block # NoBatch
  /\ tx_lock' = "confirm"
  /\ confirmed_set' = BlockKeys
  /\ UNCHANGED <<queues, asked, answer, posts, env>>

\* Mutant: a requeued transaction is not put back into the submitted set.
ResubmitToQueueOnly(tx) ==
  submitted_queue' = Append(submitted_queue, tx) /\ UNCHANGED submitted_set

Resubmit(tx) ==
  /\ submitted_queue' = Append(submitted_queue, tx)
  /\ submitted_set' = submitted_set \cup {tx}

ConfirmStep ==
  /\ tx_lock = "confirm"
  /\ confirmed_set # {}
  /\ unconfirmed_queue # <<>>
  /\ LET tx == Head(unconfirmed_queue)
     IN  /\ unconfirmed_queue' = Tail(unconfirmed_queue)
         /\ unconfirmed_set' = unconfirmed_set \ {tx}
         /\ confirmed_set' = confirmed_set \ {tx}
         /\ IF tx \in confirmed_set
            THEN UNCHANGED <<submitted_queue, submitted_set>>
            ELSE Resubmit(tx)
  /\ UNCHANGED <<tx_lock, asked, answer, posts, env>>

LoopDone == confirmed_set = {} \/ unconfirmed_queue = <<>>

ConfirmEnd ==
  /\ tx_lock = "confirm"
  /\ LoopDone
  /\ tx_lock' = "free"
  /\ confirmed_set' = {}
  /\ block' = NoBatch
  /\ UNCHANGED <<queues, asked, answer, posts, held, onchain>>

\* Mutant: the batches being mined are not looked at.
KnownSubmitted == submitted_set

Known == submitted_set \cup unconfirmed_set

(* QUERY_TX_STATUS: answered from the sets, or by the blockchain while     *)
(* tx_lock stays held.                                                     *)
QueryKnown(tx) ==
  /\ tx_lock = "free"
  /\ tx \in Known
  /\ answer' = [tx |-> tx, status |-> IF tx \in submitted_set THEN "SUBMITTED"
                                                              ELSE "UNCONFIRMED"]
  /\ UNCHANGED <<queues, tx_lock, confirmed_set, asked, posts, env>>

\* Mutant: the key asked about is not kept.
QueryChainLosesKey(tx) ==
  /\ tx_lock = "free"
  /\ tx \notin Known
  /\ tx_lock' = "query"
  /\ UNCHANGED <<queues, confirmed_set, asked, answer, posts, env>>

QueryChain(tx) ==
  /\ tx_lock = "free"
  /\ tx \notin Known
  /\ tx_lock' = "query"
  /\ asked' = tx
  /\ UNCHANGED <<queues, confirmed_set, answer, posts, env>>

QueryReply ==
  /\ tx_lock = "query"
  /\ answer' = [tx |-> asked, status |-> IF asked \in onchain THEN "CONFIRMED"
                                                              ELSE "UNKNOWN"]
  /\ tx_lock' = "free"
  /\ asked' = None
  /\ UNCHANGED <<queues, confirmed_set, posts, env>>

-----------------------------------------------------------------------------
(* The environment.  The blockchain appends a block, then asks the pool to *)
(* confirm it, one block at a time (add_block holds blockmutex for both).  *)
(* A validator's block is its batch and the reward; the metronome's is     *)
(* empty.  A batch is dropped when its block is refused or its validator   *)
(* stops.                                                                  *)
BlockArrives(v) ==
  /\ block = NoBatch
  /\ held[v] # NoBatch
  /\ block' = held[v] \cup {Reward}
  /\ onchain' = onchain \cup held[v] \cup {Reward}
  /\ held' = [held EXCEPT ![v] = NoBatch]
  /\ UNCHANGED <<queues, tx_lock, confirmed_set, asked, answer, posts>>

EmptyBlockArrives ==
  /\ block = NoBatch
  /\ block' = {}
  /\ UNCHANGED <<queues, tx_lock, confirmed_set, asked, answer, posts, held, onchain>>

BlockDropped(v) ==
  /\ held[v] # NoBatch
  /\ held' = [held EXCEPT ![v] = NoBatch]
  /\ UNCHANGED <<queues, tx_lock, confirmed_set, asked, answer, posts, onchain, block>>

-----------------------------------------------------------------------------
Client == \E tx \in Tx : \/ AddTransaction(tx) \/ RefuseTransaction(tx)
                         \/ QueryKnown(tx) \/ QueryChain(tx)

Next ==
  \/ Client
  \/ QueryReply
  \/ ConfirmBegin \/ ConfirmStep \/ ConfirmEnd
  \/ EmptyBlockArrives
  \/ \E v \in Validators : PopTransactions(v) \/ BlockArrives(v) \/ BlockDropped(v)

Spec == Init /\ [][Next]_vars

(* A handler that has the lock runs on, the blockchain answers, and a      *)
(* CONFIRM_BLOCK that keeps finding the mutex free takes it eventually.    *)
Fairness ==
  /\ WF_vars(QueryReply)
  /\ SF_vars(ConfirmBegin)
  /\ WF_vars(ConfirmStep)
  /\ WF_vars(ConfirmEnd)

FairSpec == Spec /\ Fairness
-----------------------------------------------------------------------------
(* Each set stays within its queue: a transaction reported SUBMITTED is    *)
(* still waiting to be popped, one reported UNCONFIRMED is still subject   *)
(* to the next confirmation, also in the middle of a confirmation and when *)
(* clients post one key several times.                                     *)
SetsSound ==
  /\ submitted_set \subseteq ToSet(submitted_queue)
  /\ unconfirmed_set \subseteq ToSet(unconfirmed_queue)

(* A transaction the pool has accepted is never lost: at every moment it   *)
(* is in one of the sets the status query looks at or in an appended block *)
(* (add_transaction, pop_transactions, confirm_transactions together).     *)
Tracked ==
  \A tx \in Tx : posts[tx] > 0 => tx \in submitted_set \cup unconfirmed_set \cup onchain

(* A key posted once occupies at most one place of the two queues, and the *)
(* sets say which: popping, confirming and requeueing never duplicate it.  *)
Places(tx) == {<<"submitted", i>> : i \in {j \in DOMAIN submitted_queue : submitted_queue[j] = tx}}
         \cup {<<"unconfirmed", i>> : i \in {j \in DOMAIN unconfirmed_queue : unconfirmed_queue[j] = tx}}

SingleCopy ==
  \A tx \in Tx : posts[tx] <= 1 =>
    /\ \A p, q \in Places(tx) : p = q
    /\ tx \in ToSet(submitted_queue) => tx \in submitted_set
    /\ tx \in ToSet(unconfirmed_queue) => tx \in unconfirmed_set

(* UNKNOWN is answered only about keys never accepted, although the pool   *)
(* looks at its sets first and the blockchain answers later: nothing can   *)
(* move between the two because query_tx_status keeps tx_lock across the   *)
(* call.                                                                   *)
UnknownOnlyIfNeverAccepted ==
  [][answer' # answer /\ answer'.status = "UNKNOWN" => posts[answer'.tx] = 0]_vars

(* A validator's block carries a reward, which no pool queue holds, so its *)
(* confirmation never stops early: when it ends, every batch popped before *)
(* has been confirmed or requeued and the unconfirmed queue is empty.      *)
RewardBlockDrains ==
  [][ConfirmEnd /\ Reward \in block => unconfirmed_queue' = <<>>]_vars

(* A batch whose validator fails is not stuck: as long as the chain keeps  *)
(* accepting validators' blocks, every unconfirmed transaction leaves the  *)
(* unconfirmed set, resubmitted or confirmed.                              *)
SomeBlockArrives == \E v \in Validators : BlockArrives(v)

BatchesResolved ==
  ([]<><<SomeBlockArrives>>_vars) =>
    \A tx \in Tx : tx \in unconfirmed_set ~> tx \notin unconfirmed_set

(* The status a query about a key would report at this moment.             *)
Reported(tx) ==
  IF tx \in submitted_set THEN "SUBMITTED"
  ELSE IF tx \in unconfirmed_set THEN "UNCONFIRMED"
  ELSE IF tx \in onchain THEN "CONFIRMED" ELSE "UNKNOWN"

Lifecycle == INSTANCE TxLifecycle
  WITH status <- [tx \in Tx |-> Reported(tx)], repeated <- {tx \in Tx : posts[tx] > 1}

(* Queues, sets and chain together keep the pool's promise about statuses  *)
(* through every interleaving: a transaction posted once never becomes     *)
(* unknown again, and never anything else once it is reported confirmed.   *)
LifecycleSpec == Lifecycle!Spec
=============================================================================
