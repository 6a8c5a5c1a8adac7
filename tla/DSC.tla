-------------------------------- MODULE DSC --------------------------------
(***************************************************************************)
(* The running system: validators mine blocks of popped transactions, the  *)
(* metronome admits one block per height and fills in an empty one when    *)
(* its timer runs out, the blockchain appends and asks the pool to confirm.*)
(*   validator.cpp   start, create_block, request_new_block_header         *)
(*   metronome.cpp   start, submit_empty_block, handle_block               *)
(*   blockchain.cpp  add_block, last_block                                 *)
(*   tx_pool.cpp     module TxPool, instantiated                           *)
(* Requests are synchronous REQ/REP calls.  block_mutex is held across the *)
(* metronome's SUBMIT_BLOCK call, so at most one is outstanding; add_block *)
(* replies to it BEFORE it asks the pool to confirm, and keeps blockmutex  *)
(* until the pool has answered.                                            *)
(* Time, difficulty and the timer's deadline are abstracted here (module   *)
(* Metronome has them): the timer may run out whenever it waits.  A stopped*)
(* validator stays stopped; one that is restarted is another member of     *)
(* Validators, since a validator keeps nothing across a restart.           *)
(***************************************************************************)
EXTENDS Naturals, Sequences, FiniteSets, SequencesExt

CONSTANTS Tx, Reward, Validators, BLOCK_SIZE, MaxPosts, None,
          Timer,      \* the metronome's timer thread
          MaxHeight   \* bound: no block is made with a higher id

ASSUME DSCAssumption ==
  /\ Timer \notin Validators \cup {None}
  /\ None \notin Validators
  /\ MaxHeight \in Nat
  /\ Reward \notin Tx
  /\ None \notin Tx \cup {Reward}
  /\ BLOCK_SIZE \in Nat \ {0}
  /\ MaxPosts \in Nat

VARIABLES blocks,       \* BlockChain: the chain, blocks[1] is genesis
          block,        \* BlockChain: the block it is asking the pool to confirm
          last_block,   \* Metronome: header of the last block it knows accepted
          block_mutex,  \* Metronome: who holds it, None if free
          rpc,          \* Metronome: its SUBMIT_BLOCK call to the blockchain
          sleeping,     \* Metronome: no block was accepted since the timer's last round
          timer,        \* Metronome: where the timer thread is
          vpc,          \* Validator: where each one is
          curr_block,   \* Validator: header of the block it mines on, None at first (UINT32_MAX)
          held,         \* Validator: its batch, until its block is appended or refused
          mail,         \* validators whose SUBMIT_BLOCK the metronome has not answered
          behind,       \* Server: the query tx_lock is held for was dealt behind a SUBMIT_BLOCK
          raced,        \* history: keys requeued while a live block carried them
          submitted_queue, submitted_set, unconfirmed_queue, unconfirmed_set,
          tx_lock, confirmed_set, asked, answer, posts

chainVars     == <<blocks, block>>
metronomeVars == <<last_block, block_mutex, rpc, sleeping, timer>>
validatorVars == <<vpc, curr_block, mail>>
poolVars      == <<submitted_queue, submitted_set, unconfirmed_queue, unconfirmed_set,
                   tx_lock, confirmed_set, asked, answer, posts>>
vars == <<chainVars, metronomeVars, validatorVars, behind, held, raced, poolVars>>

onchain == UNION {blocks[i].txs : i \in DOMAIN blocks}

Pool == INSTANCE TxPool

NoBatch == Pool!NoBatch

-----------------------------------------------------------------------------
(* A block's hash is its maker and its id: nobody makes two blocks of one  *)
(* height.                                                                 *)
Hash    == (Validators \cup {Timer, None}) \X Nat
Header  == [id : Nat, hash : Hash]
Block   == [id : Nat, hash : Hash, prev : Hash, txs : SUBSET (Tx \cup {Reward})]
Genesis == [id |-> 0, hash |-> <<None, 0>>, prev |-> <<None, 0>>, txs |-> {}]

HeaderOf(b) == [id |-> b.id, hash |-> b.hash]

\* Mutant: a block names its own hash as the previous one.
MakeUnlinkedBlock(maker, header, txs) ==
  [id |-> header.id + 1, hash |-> <<maker, header.id + 1>>,
   prev |-> <<maker, header.id + 1>>, txs |-> txs]

MakeBlock(maker, header, txs) ==
  [id |-> header.id + 1, hash |-> <<maker, header.id + 1>>, prev |-> header.hash, txs |-> txs]

\* The block v has created, the metronome's empty block.
BlockOf(v) == MakeBlock(v, curr_block[v], held[v] \cup {Reward})

\* Mutant: the empty block's id counts down.
EmptyBlockBelow ==
  [id |-> last_block.id - 1, hash |-> <<Timer, last_block.id>>, prev |-> last_block.hash, txs |-> {}]

EmptyBlock == MakeBlock(Timer, last_block, {})

TypeOK ==
  /\ blocks \in Seq(Block) /\ blocks # <<>>
  /\ last_block \in Header
  /\ block_mutex \in Validators \cup {Timer, None}
  /\ rpc \in {"none", "sent", "accepted"}
  /\ sleeping \in BOOLEAN
  /\ timer \in {"enter", "wait", "timed_out", "submit"}
  /\ vpc \in [Validators -> {"header", "solve", "pop", "submit", "submitted", "stopped"}]
  /\ curr_block \in [Validators -> Header \cup {None}]
  /\ mail \subseteq Validators
  /\ behind \in BOOLEAN
  /\ raced \subseteq Tx
  /\ Pool!TypeOK

Init ==
  /\ blocks = <<Genesis>>
  /\ last_block = HeaderOf(Genesis)
  /\ block_mutex = None
  /\ rpc = "none"
  /\ sleeping = TRUE
  /\ timer = "enter"
  /\ vpc = [v \in Validators |-> "header"]
  /\ curr_block = [v \in Validators |-> None]
  /\ mail = {}
  /\ behind = FALSE
  /\ raced = {}
  /\ Pool!Init

-----------------------------------------------------------------------------
(* Validators.                                                             *)

(* A header is taken when it is newer than the current one; until then the *)
(* validator polls.  The difficulty request that follows is not modelled.  *)
RequestHeader(v) ==
  /\ vpc[v] = "header"
  /\ curr_block[v] # None => Last(blocks).id > curr_block[v].id
  /\ curr_block' = [curr_block EXCEPT ![v] = HeaderOf(Last(blocks))]
  /\ vpc' = [vpc EXCEPT ![v] = "solve"]
  /\ UNCHANGED <<chainVars, metronomeVars, mail, behind, held, raced, poolVars>>

SolveFails(v) ==
  /\ vpc[v] = "solve"
  /\ vpc' = [vpc EXCEPT ![v] = "header"]
  /\ UNCHANGED <<chainVars, metronomeVars, curr_block, mail, behind, held, raced, poolVars>>

Solve(v) ==
  /\ vpc[v] = "solve"
  /\ curr_block[v].id < MaxHeight
  /\ vpc' = [vpc EXCEPT ![v] = "pop"]
  /\ UNCHANGED <<chainVars, metronomeVars, curr_block, mail, behind, held, raced, poolVars>>

\* create_block pops a batch.
CreateBlock(v) ==
  /\ vpc[v] = "pop"
  /\ vpc' = [vpc EXCEPT ![v] = "submit"]
  /\ UNCHANGED <<chainVars, metronomeVars, curr_block, mail, behind, raced>>
  /\ Pool!PopTransactions(v)

SubmitBlock(v) ==
  /\ vpc[v] = "submit"
  /\ vpc' = [vpc EXCEPT ![v] = "submitted"]
  /\ mail' = mail \cup {v}
  /\ UNCHANGED <<chainVars, metronomeVars, curr_block, behind, held, raced, poolVars>>

(* A validator process ends.  A block it has sent stays sent, a batch it   *)
(* has only popped is gone.                                                *)
Stop(v) ==
  /\ vpc[v] # "stopped"
  /\ vpc' = [vpc EXCEPT ![v] = "stopped"]
  /\ UNCHANGED <<chainVars, metronomeVars, curr_block, mail, behind, raced>>
  /\ IF vpc[v] = "submit" THEN Pool!BlockDropped(v) ELSE UNCHANGED <<held, poolVars>>

-----------------------------------------------------------------------------
(* The metronome.                                                          *)

\* Mutant: every block is admitted.
AdmitsAny(b) == TRUE

\* The only check of handle_block ("TODO: validate block").
Admits(b) == b.id = last_block.id + 1

\* Mutants: block_mutex is not released, last_block not updated; no reply.
CommitKeepsMutex(b) == last_block' = HeaderOf(b) /\ rpc' = "none" /\ UNCHANGED block_mutex
CommitNothing(b)    == block_mutex' = None /\ rpc' = "none" /\ UNCHANGED last_block
NotAnswered(v)      == UNCHANGED <<mail, vpc>>

Commit(b) == last_block' = HeaderOf(b) /\ rpc' = "none" /\ block_mutex' = None

Answered(v) ==
  /\ mail' = mail \ {v}
  /\ vpc' = [vpc EXCEPT ![v] = IF @ = "submitted" THEN "header" ELSE @]

RefuseBlock(v) ==
  /\ v \in mail
  /\ block_mutex = None
  /\ ~Admits(BlockOf(v))
  /\ Answered(v)
  /\ UNCHANGED <<chainVars, metronomeVars, curr_block, behind, raced>>
  /\ Pool!BlockDropped(v)

HandleBlock(v) ==
  /\ v \in mail
  /\ block_mutex = None
  /\ Admits(BlockOf(v))
  /\ block_mutex' = v
  /\ rpc' = "sent"
  /\ UNCHANGED <<chainVars, last_block, sleeping, timer, validatorVars, behind, held, raced, poolVars>>

HandleBlockAccepted(v) ==
  /\ block_mutex = v
  /\ rpc = "accepted"
  /\ Commit(BlockOf(v))
  /\ sleeping' = FALSE
  /\ Answered(v)
  /\ UNCHANGED <<chainVars, timer, curr_block, behind, held, raced, poolVars>>

\* The timer's round: wait unless a block was accepted meanwhile.
TimerEnter ==
  /\ timer = "enter"
  /\ block_mutex = None
  /\ timer' = IF sleeping THEN "wait" ELSE "enter"
  /\ sleeping' = TRUE
  /\ UNCHANGED <<chainVars, last_block, block_mutex, rpc, validatorVars, behind, held, raced, poolVars>>

TimerNotified ==
  /\ timer = "wait"
  /\ block_mutex = None
  /\ ~sleeping
  /\ timer' = "enter"
  /\ sleeping' = TRUE
  /\ UNCHANGED <<chainVars, last_block, block_mutex, rpc, validatorVars, behind, held, raced, poolVars>>

\* The clock decides, whether or not a block was accepted while it waited.
TimerTimeout ==
  /\ timer = "wait"
  /\ block_mutex = None
  /\ last_block.id < MaxHeight
  /\ timer' = "timed_out"
  /\ sleeping' = TRUE
  /\ UNCHANGED <<chainVars, last_block, block_mutex, rpc, validatorVars, behind, held, raced, poolVars>>

SubmitEmptyBlock ==
  /\ timer = "timed_out"
  /\ block_mutex = None
  /\ timer' = "submit"
  /\ block_mutex' = Timer
  /\ rpc' = "sent"
  /\ UNCHANGED <<chainVars, last_block, sleeping, validatorVars, behind, held, raced, poolVars>>

EmptyBlockAccepted ==
  /\ block_mutex = Timer
  /\ rpc = "accepted"
  /\ Commit(EmptyBlock)
  /\ timer' = "enter"
  /\ UNCHANGED <<chainVars, sleeping, validatorVars, behind, held, raced, poolVars>>

-----------------------------------------------------------------------------
(* The blockchain: add_block appends and replies, then waits for the pool  *)
(* to confirm; the next block finds blockmutex taken until then.  Nothing  *)
(* is checked and no block is ever refused.                                *)
AddBlock(v) ==
  /\ block_mutex = v
  /\ rpc = "sent"
  /\ block = NoBatch
  /\ blocks' = Append(blocks, BlockOf(v))
  /\ rpc' = "accepted"
  /\ UNCHANGED <<last_block, block_mutex, sleeping, timer, validatorVars, behind, raced>>
  /\ Pool!BlockArrives(v)

AddEmptyBlock ==
  /\ block_mutex = Timer
  /\ rpc = "sent"
  /\ block = NoBatch
  /\ blocks' = Append(blocks, EmptyBlock)
  /\ rpc' = "accepted"
  /\ UNCHANGED <<last_block, block_mutex, sleeping, timer, validatorVars, behind, raced>>
  /\ Pool!EmptyBlockArrives

-----------------------------------------------------------------------------
(* The pool.                                                               *)

\* A validator whose block, not yet appended, may still be accepted.
Live(v) == held[v] # NoBatch /\ curr_block[v].id >= Last(blocks).id

Requeued == submitted_set' \ submitted_set

PoolConfirm ==
  /\ UNCHANGED <<blocks, metronomeVars, validatorVars, behind>>
  /\ \/ Pool!ConfirmBegin /\ UNCHANGED raced
     \/ Pool!ConfirmEnd /\ UNCHANGED raced
     \/ /\ Pool!ConfirmStep
        /\ raced' = raced \cup {t \in Requeued : \E v \in Validators : Live(v) /\ t \in held[v]}

PostTransaction ==
  /\ UNCHANGED <<blocks, metronomeVars, validatorVars, behind, raced>>
  /\ \E tx \in Tx : Pool!AddTransaction(tx)

(* A SUBMIT_BLOCK a worker of the blockchain has taken and not finished: it*)
(* waits for blockmutex, or in add_block for the pool to confirm.          *)
AddingBlock == rpc = "sent" \/ block # NoBatch

(* query_tx_status of a key the pool does not know: tx_lock stays held     *)
(* while the blockchain is asked.  The DEALER deals the query to its       *)
(* workers in turn, busy or not (module Workers): maybe to one that is     *)
(* adding a block.  Queries the pool answers by itself move nothing and are*)
(* left to module TxPool.                                                  *)
QueryStatus ==
  /\ UNCHANGED <<blocks, metronomeVars, validatorVars, raced>>
  /\ behind' \in {FALSE, AddingBlock}
  /\ \E tx \in Tx : Pool!QueryChain(tx)

\* tx_status, unless its worker has a block to finish first.
TxStatus ==
  /\ ~behind
  /\ UNCHANGED <<blocks, metronomeVars, validatorVars, behind, raced>>
  /\ Pool!QueryReply

-----------------------------------------------------------------------------
Validator(v) ==
  \/ RequestHeader(v) \/ Solve(v) \/ SolveFails(v) \/ CreateBlock(v)
  \/ SubmitBlock(v) \/ Stop(v)

Metronome(v) == RefuseBlock(v) \/ HandleBlock(v) \/ HandleBlockAccepted(v)

TimerThread ==
  \/ TimerEnter \/ TimerNotified \/ TimerTimeout
  \/ SubmitEmptyBlock \/ EmptyBlockAccepted

\* The blockchain's thread: at most one block is sent at a time.
BlockAdder == AddEmptyBlock \/ \E v \in Validators : AddBlock(v)

Next ==
  \/ \E v \in Validators : Validator(v) \/ Metronome(v)
  \/ TimerThread
  \/ BlockAdder
  \/ PoolConfirm
  \/ PostTransaction
  \/ QueryStatus
  \/ TxStatus

Spec == Init /\ [][Next]_vars

(* Threads run; a request that keeps finding its mutex free gets it.  No   *)
(* validator is assumed to do anything, and no client to ask anything.     *)
Fairness ==
  /\ \A v \in Validators : SF_vars(Metronome(v))
  /\ SF_vars(TimerThread)
  /\ WF_vars(BlockAdder)
  /\ SF_vars(PoolConfirm)
  /\ WF_vars(TxStatus)

FairSpec == Spec /\ Fairness

-----------------------------------------------------------------------------
(* The chain is linked: ids count up from genesis and every block names    *)
(* the hash of the one before it, although the blockchain checks nothing,  *)
(* the metronome only compares ids, and validators and the timer race for  *)
(* each height.                                                            *)
ChainLinked ==
  \A i \in 1..Len(blocks) - 1 :
    /\ blocks[i + 1].id = blocks[i].id + 1
    /\ blocks[i + 1].prev = blocks[i].hash

(* The same as a refinement: the chain only ever grows, at its end.        *)
Log == INSTANCE ChainLog WITH log <- blocks

LogSpec == Log!Spec

(* What the metronome takes for the last block is the chain's last block,  *)
(* or the one before it while it waits for the reply to the block it       *)
(* admitted; it never runs ahead and never lags by two.                    *)
MetronomeTracksChain ==
  IF rpc = "accepted"
  THEN Len(blocks) > 1 /\ last_block = HeaderOf(blocks[Len(blocks) - 1])
  ELSE last_block = HeaderOf(Last(blocks))

(* The pool inside the system behaves as module TxPool says, so what is    *)
(* checked and proved of TxPool holds here.                                *)
PoolSpec == Pool!Spec

\* The blocks a transaction is in.
Inclusions(t) == {i \in DOMAIN blocks : t \in blocks[i].txs}

(* A transaction posted once is in two blocks only if the confirmation of  *)
(* an earlier block put it back into the submitted queue while a validator *)
(* that mines on that very block already carried it: no other interleaving *)
(* of pops, refused blocks, timeouts and confirmations includes it twice.  *)
TwiceOnlyIfRaced ==
  \A t \in Tx : posts[t] <= 1 /\ Cardinality(Inclusions(t)) > 1 => t \in raced

(* confirm_transactions resubmits a transaction only "if element was not   *)
(* in confirmed set" (tx_pool.cpp:86), and a pool transaction is an        *)
(* unconfirmed one (monitor.cpp:32): a transaction posted once ends up in  *)
(* one block.  The race above breaks it.                                   *)
NeverTwice == \A t \in Tx : posts[t] <= 1 => Cardinality(Inclusions(t)) <= 1

(* The circle of module Workers: a query holds tx_lock and waits behind a  *)
(* block of the blockchain, whose confirmation, or that of the block before*)
(* it, waits for tx_lock.                                                  *)
Circle == tx_lock = "query" /\ behind /\ block # NoBatch

(* The block of a validator is answered, whatever becomes of the validator,*)
(* the confirmations and the timer, unless the circle closes: then the next*)
(* SUBMIT_BLOCK waits for ever, and with it everybody for block_mutex.     *)
SubmitAnsweredUnlessCircle == \A v \in Validators : v \in mail ~> v \notin mail \/ Circle

(* With validators failing, stopping or being refused, the timer still adds*)
(* block after block, up to the bound, unless the circle closes.           *)
ChainGrowsUnlessCircle == <>(Last(blocks).id = MaxHeight \/ Circle)
=============================================================================
