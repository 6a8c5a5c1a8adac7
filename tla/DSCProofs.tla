----------------------------- MODULE DSCProofs -----------------------------
(* Theorems about module DSC for every set of validators and keys and any  *)
(* height: the chain is linked and append-only, the pool in the system is  *)
(* the pool of module TxPool, and how often a transaction is included.     *)
EXTENDS DSC, FiniteSetTheorems, TLAPS

\* The validators whose header matters: they mine on it, or a block they
\* made on it is under way.
Mining(v) == v \in mail \/ vpc[v] \in {"solve", "pop", "submit", "submitted"}

OnChain(h) == /\ h \in Header
              /\ h.id + 1 \in 1..Len(blocks)
              /\ h = HeaderOf(blocks[h.id + 1])

ChainInv ==
  /\ blocks \in Seq(Block)
  /\ Len(blocks) >= 1
  /\ \A i \in 1..Len(blocks) : blocks[i].id = i - 1
  /\ \A i \in 1..Len(blocks) - 1 : blocks[i + 1].prev = blocks[i].hash

(* Validators mine on blocks of the chain, and the header stays while the  *)
(* block made on it is under way, even if its validator has stopped.       *)
MiningInv ==
  \A v \in Validators :
    /\ Mining(v) => OnChain(curr_block[v])
    /\ v \in mail => vpc[v] \in {"submitted", "stopped"}

(* The call to the blockchain: who makes it, and what it adds.             *)
RpcInv ==
  /\ block_mutex = None <=> rpc = "none"
  /\ block_mutex \in Validators => block_mutex \in mail
  /\ rpc = "sent" /\ block_mutex \in Validators => Admits(BlockOf(block_mutex))
  /\ rpc = "accepted" =>
       /\ block_mutex \in Validators => HeaderOf(Last(blocks)) = HeaderOf(BlockOf(block_mutex))
       /\ block_mutex = Timer => HeaderOf(Last(blocks)) = HeaderOf(EmptyBlock)

(* A validator has its batch from the time it pops it until its block is   *)
(* appended or refused.                                                    *)
Accepted(v) == rpc = "accepted" /\ block_mutex = v

HeldInv ==
  \A v \in Validators :
    vpc[v] = "submit" \/ (v \in mail /\ ~Accepted(v)) => held[v] # NoBatch

\* The variables of this module; module TxPool types its own.
SysTypeOK ==
  /\ last_block \in Header
  /\ block_mutex \in Validators \cup {Timer, None}
  /\ rpc \in {"none", "sent", "accepted"}
  /\ sleeping \in BOOLEAN
  /\ timer \in {"enter", "wait", "timed_out", "submit"}
  /\ vpc \in [Validators -> {"header", "solve", "pop", "submit", "submitted", "stopped"}]
  /\ curr_block \in [Validators -> Header \cup {None}]
  /\ mail \subseteq Validators
  /\ raced \subseteq Tx
  /\ behind \in BOOLEAN

IInv == SysTypeOK /\ ChainInv /\ MiningInv /\ RpcInv /\ HeldInv /\ MetronomeTracksChain

-----------------------------------------------------------------------------
LEMMA LastOfChain ==
  ASSUME ChainInv
  PROVE  /\ Len(blocks) \in Nat \ {0}
         /\ Last(blocks) = blocks[Len(blocks)]
         /\ Last(blocks) \in Block
         /\ Last(blocks).id = Len(blocks) - 1
         /\ OnChain(HeaderOf(Last(blocks)))
<1>1. Len(blocks) \in Nat \ {0} /\ blocks[Len(blocks)] \in Block
  BY DEF ChainInv
<1>2. Last(blocks) = blocks[Len(blocks)]
  BY DEF Last
<1>3. Last(blocks).id = Len(blocks) - 1
  BY <1>1, <1>2 DEF ChainInv
<1>4. HeaderOf(Last(blocks)) \in Header /\ HeaderOf(Last(blocks)).id = Len(blocks) - 1
  BY <1>1, <1>2, <1>3 DEF HeaderOf, Header, Block
<1> QED BY <1>1, <1>2, <1>3, <1>4 DEF OnChain

(* Appending a block that extends the last one keeps the chain linked and  *)
(* every header where it is.                                               *)
LEMMA AppendToChain ==
  ASSUME ChainInv, NEW b \in Block, blocks' = Append(blocks, b),
         b.id = Last(blocks).id + 1, b.prev = Last(blocks).hash
  PROVE  /\ ChainInv'
         /\ Last(blocks)' = b
         /\ Len(blocks') = Len(blocks) + 1
         /\ \A i \in 1..Len(blocks) : blocks'[i] = blocks[i]
<1>1. /\ blocks' \in Seq(Block) /\ Len(blocks') = Len(blocks) + 1
      /\ \A i \in 1..Len(blocks) : blocks'[i] = blocks[i]
      /\ blocks'[Len(blocks) + 1] = b
      /\ Len(blocks) \in Nat
  BY DEF ChainInv
<1>2. Last(blocks)' = b
  BY <1>1 DEF Last
<1>3. \A i \in 1..Len(blocks') : blocks'[i].id = i - 1
  BY <1>1, LastOfChain DEF ChainInv
<1>4. \A i \in 1..Len(blocks') - 1 : blocks'[i + 1].prev = blocks'[i].hash
  <2> SUFFICES ASSUME NEW i \in 1..Len(blocks) PROVE blocks'[i + 1].prev = blocks'[i].hash
    BY <1>1
  <2>1. CASE i = Len(blocks) BY <1>1, <2>1, LastOfChain
  <2>2. CASE i # Len(blocks)
    <3>1. i \in 1..Len(blocks) - 1 /\ i + 1 \in 1..Len(blocks) BY <1>1, <2>2
    <3> QED BY <1>1, <3>1 DEF ChainInv
  <2> QED BY <2>1, <2>2
<1> QED BY <1>1, <1>2, <1>3, <1>4 DEF ChainInv

LEMMA InitIInv == Init => IInv
<1> SUFFICES ASSUME Init PROVE IInv OBVIOUS
<1>1. Genesis \in Block /\ HeaderOf(Genesis) = HeaderOf(Last(blocks))
  BY DEF Init, Genesis, Block, Hash, Last, HeaderOf
<1>2. ChainInv
  BY <1>1 DEF Init, ChainInv, Genesis
<1>3. MiningInv /\ HeldInv
  BY DEF Init, MiningInv, Mining, HeldInv
<1>4. RpcInv /\ MetronomeTracksChain
  BY <1>1, DSCAssumption DEF Init, RpcInv, MetronomeTracksChain
<1>5. SysTypeOK
  BY <1>1 DEF Init, SysTypeOK, HeaderOf, Header, Block
<1> QED BY <1>2, <1>3, <1>4, <1>5 DEF IInv

-----------------------------------------------------------------------------
(* Every step of the system is a step of the pool or leaves it alone.      *)
LEMMA PoolStep == [Next]_vars => [Pool!Next]_Pool!vars
<1> SUFFICES ASSUME [Next]_vars PROVE Pool!Next \/ UNCHANGED Pool!vars
  OBVIOUS
<1> USE DEF poolVars, chainVars, Pool!vars, Pool!queues, Pool!env
<1>1. ASSUME NEW v \in Validators, Validator(v) PROVE Pool!Next \/ UNCHANGED Pool!vars
  <2>1. CASE RequestHeader(v) \/ Solve(v) \/ SolveFails(v) \/ SubmitBlock(v)
    BY <2>1 DEF RequestHeader, Solve, SolveFails, SubmitBlock, onchain
  <2>2. CASE CreateBlock(v)
    BY <2>2 DEF CreateBlock, Pool!Next, Pool!Client
  <2>3. CASE Stop(v)
    BY <2>3 DEF Stop, Pool!Next, Pool!Client, onchain
  <2> QED BY <1>1, <2>1, <2>2, <2>3 DEF Validator
<1>2. ASSUME NEW v \in Validators, Metronome(v) PROVE Pool!Next \/ UNCHANGED Pool!vars
  <2>1. CASE RefuseBlock(v)
    BY <2>1 DEF RefuseBlock, Pool!Next, Pool!Client
  <2>2. CASE HandleBlock(v) \/ HandleBlockAccepted(v)
    BY <2>2 DEF HandleBlock, HandleBlockAccepted, onchain
  <2> QED BY <1>2, <2>1, <2>2 DEF Metronome
<1>3. ASSUME NEW v \in Validators, AddBlock(v) PROVE Pool!Next
  BY <1>3 DEF AddBlock, Pool!Next, Pool!Client
<1>4. CASE TimerThread
  BY <1>4 DEF TimerThread, TimerEnter, TimerNotified, TimerTimeout, SubmitEmptyBlock,
              EmptyBlockAccepted, onchain
<1>5. CASE AddEmptyBlock
  BY <1>5 DEF AddEmptyBlock, Pool!Next
<1>6. CASE PoolConfirm
  BY <1>6 DEF PoolConfirm, Pool!Next
<1>7. CASE PostTransaction
  BY <1>7 DEF PostTransaction, Pool!Next, Pool!Client
<1>8. CASE QueryStatus \/ TxStatus
  BY <1>8 DEF QueryStatus, TxStatus, Pool!Next, Pool!Client
<1>9. CASE UNCHANGED vars
  BY <1>9 DEF vars, onchain
<1> QED BY <1>1, <1>2, <1>3, <1>4, <1>5, <1>6, <1>7, <1>8, <1>9 DEF Next, BlockAdder

(* The system implements module TxPool: every theorem about the pool holds *)
(* of the pool inside the system.                                          *)
THEOREM SystemHasPool == Spec => PoolSpec
<1>1. Init => Pool!Init BY DEF Init
<1> QED BY <1>1, PoolStep, PTL DEF Spec, PoolSpec, Pool!Spec

PoolThms == INSTANCE TxPoolProofs

(* The two instances of TxPool are the same module.                        *)
LEMMA SamePool ==
  /\ Pool!Init => PoolThms!Init
  /\ [Pool!Next]_Pool!vars => [PoolThms!Next]_PoolThms!vars
  /\ PoolThms!TypeOK => Pool!TypeOK
  /\ PoolThms!Tracked => Pool!Tracked
<1> USE DEF Pool!NoBatch, PoolThms!NoBatch, Pool!ToSet, PoolThms!ToSet,
            Pool!queues, PoolThms!queues, Pool!env, PoolThms!env
<1>1. Pool!Init => PoolThms!Init
  BY DEF Pool!Init, PoolThms!Init
<1>2. PoolThms!TypeOK => Pool!TypeOK
  BY DEF Pool!TypeOK, PoolThms!TypeOK, Pool!Answers, PoolThms!Answers,
         Pool!Status, PoolThms!Status, Pool!PoolStatus, PoolThms!PoolStatus,
         Pool!ChainStatus, PoolThms!ChainStatus
<1>3. PoolThms!Tracked => Pool!Tracked
  BY DEF Pool!Tracked, PoolThms!Tracked, Pool!Known, PoolThms!Known
<1>4. UNCHANGED Pool!vars => UNCHANGED PoolThms!vars
  BY DEF Pool!vars, PoolThms!vars
<1>5. Pool!Client => PoolThms!Client
  BY DEF Pool!Client, PoolThms!Client, Pool!AddTransaction, PoolThms!AddTransaction,
         Pool!RefuseTransaction, PoolThms!RefuseTransaction,
         Pool!QueryKnown, PoolThms!QueryKnown, Pool!QueryChain, PoolThms!QueryChain,
         Pool!Known, PoolThms!Known
<1>6. Pool!QueryReply \/ Pool!ConfirmBegin \/ Pool!ConfirmStep \/ Pool!ConfirmEnd
        => PoolThms!QueryReply \/ PoolThms!ConfirmBegin \/ PoolThms!ConfirmStep
             \/ PoolThms!ConfirmEnd
  BY DEF Pool!QueryReply, PoolThms!QueryReply, Pool!ConfirmBegin, PoolThms!ConfirmBegin,
         Pool!ConfirmStep, PoolThms!ConfirmStep, Pool!ConfirmEnd, PoolThms!ConfirmEnd,
         Pool!Resubmit, PoolThms!Resubmit, Pool!LoopDone, PoolThms!LoopDone,
         Pool!BlockKeys, PoolThms!BlockKeys
<1>7. Pool!EmptyBlockArrives => PoolThms!EmptyBlockArrives
  BY DEF Pool!EmptyBlockArrives, PoolThms!EmptyBlockArrives
<1>8. ASSUME NEW v \in Validators
      PROVE  Pool!PopTransactions(v) \/ Pool!BlockArrives(v) \/ Pool!BlockDropped(v)
               => PoolThms!PopTransactions(v) \/ PoolThms!BlockArrives(v)
                    \/ PoolThms!BlockDropped(v)
  BY DEF Pool!PopTransactions, PoolThms!PopTransactions, Pool!Pop, PoolThms!Pop,
         Pool!Popped, PoolThms!Popped, Pool!PopCount, PoolThms!PopCount,
         Pool!Remaining, PoolThms!Remaining, Pool!BlockArrives, PoolThms!BlockArrives,
         Pool!BlockDropped, PoolThms!BlockDropped
<1>9. Pool!Next => PoolThms!Next
  BY <1>5, <1>6, <1>7, <1>8 DEF Pool!Next, PoolThms!Next
<1> QED BY <1>1, <1>2, <1>3, <1>4, <1>9

LEMMA SystemHasPoolThms == Spec => PoolThms!Spec
BY SamePool, SystemHasPool, PTL DEF PoolSpec, Pool!Spec, PoolThms!Spec

LEMMA PoolTyped == Spec => []Pool!TypeOK
<1>1. PoolThms!Spec => []PoolThms!TypeOK
  BY PoolThms!TypeCorrect, DSCAssumption
<1> QED BY <1>1, SamePool, SystemHasPoolThms, PTL

(* In the running system no accepted transaction is ever lost: it is in a  *)
(* queue of the pool, or in a block of the chain.                          *)
THEOREM NothingLostInSystem == Spec => []Pool!Tracked
<1>1. PoolThms!Spec => []PoolThms!Tracked
  BY PoolThms!NothingLost, DSCAssumption
<1> QED BY <1>1, SamePool, SystemHasPoolThms, PTL

(* In the running system what the pool answers about a transaction moves   *)
(* along the promised life cycle.                                          *)
THEOREM LifecycleInSystem == Spec => PoolThms!LifecycleSpec
BY PoolThms!StatusesObeyLifecycle, DSCAssumption, SystemHasPoolThms

-----------------------------------------------------------------------------
(* The invariant, action by action.                                        *)

LEMMA MadeBlock ==
  ASSUME NEW maker \in Validators \cup {Timer, None}, NEW h \in Header,
         NEW txs \in SUBSET (Tx \cup {Reward})
  PROVE  /\ MakeBlock(maker, h, txs) \in Block
         /\ MakeBlock(maker, h, txs).id = h.id + 1
         /\ MakeBlock(maker, h, txs).prev = h.hash
         /\ HeaderOf(MakeBlock(maker, h, txs)) \in Header
BY DEF MakeBlock, Block, Header, Hash, HeaderOf

\* What the metronome looks at in a validator's block.
LEMMA SameHeader ==
  ASSUME NEW v \in Validators, curr_block[v]' = curr_block[v]
  PROVE  /\ HeaderOf(BlockOf(v))' = HeaderOf(BlockOf(v))
         /\ BlockOf(v)'.id = BlockOf(v).id
BY DEF HeaderOf, BlockOf, MakeBlock

LEMMA ChainFrame ==
  ASSUME ChainInv, UNCHANGED blocks
  PROVE  ChainInv' /\ Last(blocks)' = Last(blocks) /\ \A h : OnChain(h) => OnChain(h)'
BY DEF ChainInv, OnChain, HeaderOf, Last

LEMMA ValidatorStep ==
  ASSUME IInv, Pool!TypeOK, NEW v \in Validators, Validator(v)
  PROVE  IInv'
<1> USE DEF IInv
<1>1. UNCHANGED <<blocks, metronomeVars>>
  BY DEF Validator, RequestHeader, Solve, SolveFails, CreateBlock, SubmitBlock, Stop, chainVars
<1>2. ChainInv' /\ MetronomeTracksChain' /\ \A h : OnChain(h) => OnChain(h)'
  BY <1>1, ChainFrame DEF MetronomeTracksChain, metronomeVars
<1>3. \A w \in Validators : w \in mail => curr_block'[w] = curr_block[w] /\ w \in mail'
  BY DEF Validator, RequestHeader, Solve, SolveFails, CreateBlock, SubmitBlock, Stop,
         SysTypeOK, MiningInv
<1>4. RpcInv'
  <2>1. ASSUME block_mutex \in Validators
        PROVE  /\ HeaderOf(BlockOf(block_mutex))' = HeaderOf(BlockOf(block_mutex))
               /\ BlockOf(block_mutex)'.id = BlockOf(block_mutex).id
    BY <1>1, <1>3, <2>1, SameHeader DEF RpcInv, metronomeVars, BlockOf, MakeBlock, HeaderOf
  <2> QED BY <1>1, <1>3, <2>1, ChainFrame
          DEF RpcInv, metronomeVars, Admits, EmptyBlock, MakeBlock, HeaderOf
<1>5. OnChain(HeaderOf(Last(blocks))) /\ HeaderOf(Last(blocks)) \in Header
  BY LastOfChain DEF OnChain
<1>6. CASE RequestHeader(v)
  <2>1. SysTypeOK' BY <1>5, <1>6 DEF SysTypeOK, RequestHeader, metronomeVars
  <2>2. MiningInv'
    <3>1. \A w \in Validators \ {v} : curr_block'[w] = curr_block[w] /\ Mining(w)' = Mining(w)
      BY <1>6 DEF SysTypeOK, Mining, RequestHeader
    <3>2. curr_block'[v] = HeaderOf(Last(blocks)) /\ v \notin mail'
      BY <1>6 DEF SysTypeOK, MiningInv, RequestHeader
    <3>3. OnChain(curr_block[v])'
      BY <1>1, <1>5, <3>2 DEF OnChain
    <3> QED BY <1>2, <1>6, <3>1, <3>2, <3>3 DEF MiningInv, OnChain, RequestHeader
  <2>3. HeldInv' BY <1>6 DEF SysTypeOK, HeldInv, Accepted, RequestHeader, metronomeVars
  <2> QED BY <1>2, <1>4, <2>1, <2>2, <2>3
<1>7. CASE Solve(v) \/ SolveFails(v) \/ SubmitBlock(v)
  <2>1. SysTypeOK' BY <1>7 DEF SysTypeOK, Solve, SolveFails, SubmitBlock, metronomeVars
  <2>2. MiningInv'
    BY <1>2, <1>7 DEF SysTypeOK, MiningInv, Mining, Solve, SolveFails, SubmitBlock
  <2>3. HeldInv'
    BY <1>7 DEF SysTypeOK, HeldInv, Accepted, Solve, SolveFails, SubmitBlock, metronomeVars
  <2> QED BY <1>2, <1>4, <2>1, <2>2, <2>3
<1>8. CASE CreateBlock(v)
  <2>1. SysTypeOK' BY <1>8 DEF SysTypeOK, CreateBlock, metronomeVars
  <2>2. MiningInv' BY <1>2, <1>8 DEF SysTypeOK, MiningInv, Mining, CreateBlock
  <2>3. ToSet(Pool!Popped) # NoBatch
    <3>1. \A i \in DOMAIN Pool!Popped : Pool!Popped[i] \in Tx
      BY DSCAssumption DEF Pool!TypeOK, Pool!Popped, Pool!PopCount
    <3> QED BY <3>1, DSCAssumption DEF ToSet, NoBatch, Pool!NoBatch
  <2>4. held' = [held EXCEPT ![v] = ToSet(Pool!Popped)]
    BY <1>8 DEF CreateBlock, Pool!PopTransactions, Pool!ToSet, ToSet
  <2>5. HeldInv'
    BY <1>8, <2>3, <2>4 DEF SysTypeOK, Pool!TypeOK, HeldInv, Accepted, CreateBlock,
                            metronomeVars, NoBatch, Pool!NoBatch
  <2> QED BY <1>2, <1>4, <2>1, <2>2, <2>5
<1>9. CASE Stop(v)
  <2>1. SysTypeOK' BY <1>9 DEF SysTypeOK, Stop, metronomeVars
  <2>2. MiningInv' BY <1>2, <1>9 DEF SysTypeOK, MiningInv, Mining, Stop
  <2>3. \A w \in Validators \ {v} : held'[w] = held[w]
    BY <1>9 DEF Stop, Pool!BlockDropped, Pool!TypeOK
  <2>4. v \in mail => held'[v] = held[v]
    BY <1>9 DEF Stop, MiningInv
  <2>5. HeldInv'
    BY <1>9, <2>3, <2>4 DEF SysTypeOK, HeldInv, Accepted, Stop, metronomeVars, NoBatch, Pool!NoBatch
  <2> QED BY <1>2, <1>4, <2>1, <2>2, <2>5
<1> QED BY <1>6, <1>7, <1>8, <1>9 DEF Validator

LEMMA MetronomeStep ==
  ASSUME IInv, Pool!TypeOK, NEW v \in Validators, Metronome(v)
  PROVE  IInv'
<1> USE DEF IInv
<1>1. UNCHANGED <<blocks, curr_block>> /\ mail' \in SUBSET mail
  BY DEF Metronome, RefuseBlock, HandleBlock, HandleBlockAccepted, chainVars, validatorVars,
         Answered
<1>2. ChainInv' /\ Last(blocks)' = Last(blocks) /\ \A h : OnChain(h) => OnChain(h)'
  BY <1>1, ChainFrame
<1>3. MiningInv'
  <2>1. \A w \in Validators : (Mining(w)' => Mining(w)) /\ (w \in mail' => vpc'[w] \in {"submitted", "stopped"})
    BY DEF Metronome, RefuseBlock, HandleBlock, HandleBlockAccepted, validatorVars, Answered,
           SysTypeOK, MiningInv, Mining
  <2> QED BY <1>1, <1>2, <2>1 DEF MiningInv
<1>4. \A w \in Validators : /\ HeaderOf(BlockOf(w))' = HeaderOf(BlockOf(w))
                            /\ BlockOf(w)'.id = BlockOf(w).id
  BY <1>1, SameHeader
<1>5. CASE RefuseBlock(v)
  <2>1. UNCHANGED metronomeVars /\ block_mutex = None
    BY <1>5 DEF RefuseBlock
  <2>2. SysTypeOK' BY <1>5, <2>1 DEF SysTypeOK, RefuseBlock, Answered, metronomeVars, validatorVars
  <2>3. RpcInv' BY <2>1, DSCAssumption DEF RpcInv, metronomeVars
  <2>4. MetronomeTracksChain' BY <1>1, <2>1 DEF MetronomeTracksChain, metronomeVars
  <2>5. HeldInv'
    <3>1. \A w \in Validators \ {v} : held'[w] = held[w] /\ vpc'[w] = vpc[w] /\ (w \in mail' <=> w \in mail)
      BY <1>5 DEF RefuseBlock, Answered, Pool!BlockDropped, SysTypeOK, Pool!TypeOK
    <3>2. v \notin mail' /\ vpc'[v] # "submit"
      BY <1>5 DEF RefuseBlock, Answered, SysTypeOK, MiningInv
    <3> QED BY <2>1, <3>1, <3>2 DEF HeldInv, Accepted, metronomeVars, NoBatch, Pool!NoBatch
  <2> QED BY <1>2, <1>3, <2>2, <2>3, <2>4, <2>5
<1>6. CASE HandleBlock(v)
  <2>1. block_mutex' = v /\ rpc' = "sent" /\ rpc = "none" /\ v # None /\ v # Timer
    BY <1>6, DSCAssumption DEF HandleBlock, RpcInv
  <2>2. SysTypeOK' BY <1>6 DEF SysTypeOK, HandleBlock, validatorVars
  <2>3. RpcInv'
    BY <1>4, <1>6, <2>1 DEF RpcInv, HandleBlock, validatorVars, Admits
  <2>4. MetronomeTracksChain'
    BY <1>1, <1>6, <2>1 DEF MetronomeTracksChain, HandleBlock
  <2>5. HeldInv' BY <1>6, <2>1 DEF HeldInv, Accepted, HandleBlock, validatorVars, NoBatch, Pool!NoBatch
  <2> QED BY <1>2, <1>3, <2>2, <2>3, <2>4, <2>5
<1>7. CASE HandleBlockAccepted(v)
  <2>1. /\ block_mutex = v /\ rpc = "accepted" /\ block_mutex' = None /\ rpc' = "none"
        /\ last_block' = HeaderOf(BlockOf(v)) /\ sleeping' = FALSE
        /\ UNCHANGED <<timer, held, raced, behind>>
    BY <1>7 DEF HandleBlockAccepted, Commit
  <2>2. last_block' = HeaderOf(Last(blocks)) /\ last_block' \in Header
    BY <2>1, LastOfChain DEF RpcInv, OnChain
  <2>3. SysTypeOK' BY <1>7, <2>1, <2>2 DEF SysTypeOK, HandleBlockAccepted, Answered
  <2>4. RpcInv' BY <2>1, DSCAssumption DEF RpcInv
  <2>5. MetronomeTracksChain' BY <1>2, <2>1, <2>2 DEF MetronomeTracksChain, HeaderOf
  <2>6. HeldInv'
    <3>1. \A w \in Validators \ {v} : vpc'[w] = vpc[w] /\ (w \in mail' <=> w \in mail)
      BY <1>7 DEF HandleBlockAccepted, Answered, SysTypeOK
    <3>2. v \notin mail' /\ vpc'[v] # "submit"
      BY <1>7, <2>1 DEF HandleBlockAccepted, Answered, SysTypeOK, MiningInv, RpcInv
    <3> QED BY <2>1, <3>1, <3>2 DEF HeldInv, Accepted, NoBatch, Pool!NoBatch
  <2> QED BY <1>2, <1>3, <2>3, <2>4, <2>5, <2>6
<1> QED BY <1>5, <1>6, <1>7 DEF Metronome

LEMMA TimerStep ==
  ASSUME IInv, TimerThread
  PROVE  IInv'
<1> USE DEF IInv
<1>1. UNCHANGED <<blocks, held, raced, behind, validatorVars>>
  BY DEF TimerThread, TimerEnter, TimerNotified, TimerTimeout, SubmitEmptyBlock,
         EmptyBlockAccepted, chainVars
<1>2. /\ ChainInv' /\ Last(blocks)' = Last(blocks) /\ MiningInv'
  BY <1>1, ChainFrame DEF MiningInv, Mining, validatorVars
<1>3. \A w \in Validators : /\ HeaderOf(BlockOf(w))' = HeaderOf(BlockOf(w))
                            /\ BlockOf(w)'.id = BlockOf(w).id
  BY <1>1, SameHeader DEF validatorVars
<1>4. CASE TimerEnter \/ TimerNotified \/ TimerTimeout
  <2>1. UNCHANGED <<last_block, block_mutex, rpc>> /\ block_mutex = None
    BY <1>4 DEF TimerEnter, TimerNotified, TimerTimeout
  <2>2. SysTypeOK'
    BY <1>1, <1>4 DEF SysTypeOK, TimerEnter, TimerNotified, TimerTimeout, validatorVars
  <2>3. RpcInv' BY <2>1, DSCAssumption DEF RpcInv
  <2>4. MetronomeTracksChain' BY <1>1, <2>1 DEF MetronomeTracksChain
  <2>5. HeldInv' BY <1>1, <2>1 DEF HeldInv, Accepted, validatorVars, NoBatch, Pool!NoBatch
  <2> QED BY <1>2, <2>2, <2>3, <2>4, <2>5
<1>5. CASE SubmitEmptyBlock
  <2>1. /\ block_mutex' = Timer /\ rpc' = "sent" /\ rpc = "none" /\ timer' = "submit"
        /\ UNCHANGED <<last_block, sleeping>> /\ Timer # None /\ Timer \notin Validators
    BY <1>5, DSCAssumption DEF SubmitEmptyBlock, RpcInv
  <2>2. SysTypeOK' BY <1>1, <2>1 DEF SysTypeOK, validatorVars
  <2>3. RpcInv' BY <2>1 DEF RpcInv
  <2>4. MetronomeTracksChain' BY <1>1, <2>1 DEF MetronomeTracksChain
  <2>5. HeldInv' BY <1>1, <2>1 DEF HeldInv, Accepted, validatorVars, NoBatch, Pool!NoBatch
  <2> QED BY <1>2, <2>2, <2>3, <2>4, <2>5
<1>6. CASE EmptyBlockAccepted
  <2>1. /\ block_mutex = Timer /\ rpc = "accepted" /\ block_mutex' = None /\ rpc' = "none"
        /\ last_block' = HeaderOf(EmptyBlock) /\ timer' = "enter" /\ UNCHANGED sleeping
    BY <1>6 DEF EmptyBlockAccepted, Commit
  <2>2. last_block' = HeaderOf(Last(blocks)) /\ last_block' \in Header
    BY <2>1, LastOfChain DEF RpcInv, OnChain
  <2>3. SysTypeOK' BY <1>1, <2>1, <2>2 DEF SysTypeOK, validatorVars
  <2>4. RpcInv' BY <2>1, DSCAssumption DEF RpcInv
  <2>5. MetronomeTracksChain' BY <1>2, <2>1, <2>2 DEF MetronomeTracksChain, HeaderOf
  <2>6. HeldInv'
    BY <1>1, <2>1, DSCAssumption DEF HeldInv, Accepted, validatorVars, NoBatch, Pool!NoBatch
  <2> QED BY <1>2, <2>3, <2>4, <2>5, <2>6
<1> QED BY <1>4, <1>5, <1>6 DEF TimerThread

(* The block the blockchain is about to append extends its last one,       *)
(* because the metronome compared it with the block it took for the last.  *)
LEMMA ValidatorBlockExtends ==
  ASSUME IInv, Pool!TypeOK, NEW v \in Validators, block_mutex = v, rpc = "sent"
  PROVE  BlockOf(v) \in Block /\ Log!Extends(BlockOf(v), Last(blocks))
<1> USE DEF IInv
<1>1. v \in mail /\ Admits(BlockOf(v)) /\ OnChain(curr_block[v])
  BY DEF RpcInv, MiningInv, Mining
<1>2. held[v] \in SUBSET Tx
  BY <1>1 DEF HeldInv, Accepted, Pool!TypeOK, NoBatch
<1>3. /\ BlockOf(v) \in Block /\ BlockOf(v).id = curr_block[v].id + 1
      /\ BlockOf(v).prev = curr_block[v].hash
  BY <1>1, <1>2, MadeBlock DEF BlockOf, OnChain
<1>4. curr_block[v].id = last_block.id /\ last_block = HeaderOf(Last(blocks))
  BY <1>1, <1>3 DEF Admits, MetronomeTracksChain, OnChain, SysTypeOK, Header
<1>5. curr_block[v].id = Len(blocks) - 1 /\ Last(blocks).id = Len(blocks) - 1
  BY <1>4, LastOfChain DEF HeaderOf
<1>6. curr_block[v] = HeaderOf(Last(blocks))
  BY <1>1, <1>5, LastOfChain DEF OnChain
<1> QED BY <1>3, <1>6 DEF Log!Extends, HeaderOf

LEMMA EmptyBlockExtends ==
  ASSUME IInv, rpc = "sent"
  PROVE  EmptyBlock \in Block /\ Log!Extends(EmptyBlock, Last(blocks))
<1>1. last_block = HeaderOf(Last(blocks)) /\ last_block \in Header
  BY DEF IInv, MetronomeTracksChain, SysTypeOK
<1>2. /\ EmptyBlock \in Block
      /\ EmptyBlock.id = last_block.id + 1 /\ EmptyBlock.prev = last_block.hash
  BY <1>1, MadeBlock DEF EmptyBlock
<1>3. last_block.id = Last(blocks).id /\ last_block.hash = Last(blocks).hash
  BY <1>1 DEF HeaderOf
<1> QED BY <1>2, <1>3 DEF Log!Extends

LEMMA AddBlockStep ==
  ASSUME IInv, Pool!TypeOK, NEW v \in Validators, AddBlock(v)
  PROVE  IInv'
<1> USE DEF IInv
<1>1. /\ block_mutex = v /\ rpc = "sent" /\ rpc' = "accepted"
      /\ blocks' = Append(blocks, BlockOf(v))
      /\ UNCHANGED <<last_block, block_mutex, sleeping, timer, validatorVars, raced, behind>>
      /\ v # Timer /\ v # None
  BY DSCAssumption DEF AddBlock
<1>2. BlockOf(v) \in Block /\ Log!Extends(BlockOf(v), Last(blocks))
  BY <1>1, ValidatorBlockExtends
<1>3. /\ ChainInv' /\ Last(blocks)' = BlockOf(v) /\ Len(blocks') = Len(blocks) + 1
      /\ \A i \in 1..Len(blocks) : blocks'[i] = blocks[i]
  BY <1>1, <1>2, AppendToChain DEF Log!Extends
<1>4. SysTypeOK' BY <1>1 DEF SysTypeOK, validatorVars
<1>5. MiningInv'
  <2>1. \A h : OnChain(h) => OnChain(h)'
    BY <1>3, LastOfChain DEF OnChain
  <2> QED BY <1>1, <2>1 DEF MiningInv, Mining, validatorVars
<1>6. RpcInv'
  <2>1. HeaderOf(BlockOf(v))' = HeaderOf(BlockOf(v))
    BY <1>1, SameHeader DEF validatorVars
  <2>2. HeaderOf(Last(blocks))' = HeaderOf(BlockOf(v))
    BY <1>3 DEF HeaderOf
  <2> QED BY <1>1, <2>1, <2>2 DEF RpcInv, validatorVars
<1>7. HeldInv'
  <2>1. \A w \in Validators \ {v} : held'[w] = held[w]
    BY DEF AddBlock, Pool!BlockArrives, Pool!TypeOK
  <2>2. vpc[v] # "submit"
    BY <1>1 DEF RpcInv, MiningInv
  <2> QED BY <1>1, <2>1, <2>2 DEF HeldInv, Accepted, validatorVars, NoBatch, Pool!NoBatch
<1>8. MetronomeTracksChain'
  <2>1. last_block = HeaderOf(blocks[Len(blocks)])
    BY <1>1, LastOfChain DEF MetronomeTracksChain
  <2>2. Len(blocks') - 1 = Len(blocks) /\ Len(blocks) \in 1..Len(blocks) /\ Len(blocks') > 1
    BY <1>3, LastOfChain
  <2>3. blocks'[Len(blocks') - 1] = blocks[Len(blocks)]
    BY <1>3, <2>2
  <2> QED BY <1>1, <2>1, <2>2, <2>3 DEF MetronomeTracksChain, HeaderOf
<1> QED BY <1>3, <1>4, <1>5, <1>6, <1>7, <1>8

LEMMA AddEmptyBlockStep ==
  ASSUME IInv, AddEmptyBlock
  PROVE  IInv'
<1> USE DEF IInv
<1>1. /\ block_mutex = Timer /\ rpc = "sent" /\ rpc' = "accepted"
      /\ blocks' = Append(blocks, EmptyBlock)
      /\ UNCHANGED <<last_block, block_mutex, sleeping, timer, validatorVars, raced, behind, held>>
      /\ Timer \notin Validators
  BY DSCAssumption DEF AddEmptyBlock, Pool!EmptyBlockArrives
<1>2. EmptyBlock \in Block /\ Log!Extends(EmptyBlock, Last(blocks))
  BY <1>1, EmptyBlockExtends
<1>3. /\ ChainInv' /\ Last(blocks)' = EmptyBlock /\ Len(blocks') = Len(blocks) + 1
      /\ \A i \in 1..Len(blocks) : blocks'[i] = blocks[i]
  BY <1>1, <1>2, AppendToChain DEF Log!Extends
<1>4. SysTypeOK' BY <1>1 DEF SysTypeOK, validatorVars
<1>5. MiningInv'
  <2>1. \A h : OnChain(h) => OnChain(h)'
    BY <1>3, LastOfChain DEF OnChain
  <2> QED BY <1>1, <2>1 DEF MiningInv, Mining, validatorVars
<1>6. RpcInv'
  <2>1. EmptyBlock' = EmptyBlock
    BY <1>1 DEF EmptyBlock
  <2> QED BY <1>1, <1>3, <2>1 DEF RpcInv, HeaderOf
<1>7. HeldInv'
  BY <1>1 DEF HeldInv, Accepted, validatorVars, NoBatch, Pool!NoBatch
<1>8. MetronomeTracksChain'
  <2>1. last_block = HeaderOf(blocks[Len(blocks)])
    BY <1>1, LastOfChain DEF MetronomeTracksChain
  <2>2. Len(blocks') - 1 = Len(blocks) /\ Len(blocks) \in 1..Len(blocks) /\ Len(blocks') > 1
    BY <1>3, LastOfChain
  <2>3. blocks'[Len(blocks') - 1] = blocks[Len(blocks)]
    BY <1>3, <2>2
  <2> QED BY <1>1, <2>1, <2>2, <2>3 DEF MetronomeTracksChain, HeaderOf
<1> QED BY <1>3, <1>4, <1>5, <1>6, <1>7, <1>8

(* What the pool does by itself.                                           *)
PoolAlone == PoolConfirm \/ PostTransaction \/ QueryStatus \/ TxStatus

(* Clients and confirmations leave the chain and the metronome alone.      *)
LEMMA PoolAloneStep ==
  ASSUME IInv, Pool!TypeOK, Pool!TypeOK', PoolAlone
  PROVE  IInv'
<1> USE DEF IInv
<1>1. UNCHANGED <<blocks, metronomeVars, validatorVars, held>>
  BY DEF PoolAlone, PoolConfirm, PostTransaction, QueryStatus, TxStatus, Pool!ConfirmBegin,
         Pool!ConfirmEnd, Pool!ConfirmStep, Pool!AddTransaction, Pool!QueryChain, Pool!QueryReply,
         Pool!env
<1>2. raced' \subseteq Tx /\ behind' \in BOOLEAN
  <2>1. raced' \subseteq Tx
    BY DEF PoolAlone, PoolConfirm, PostTransaction, QueryStatus, TxStatus, Requeued, Pool!TypeOK,
           SysTypeOK
  <2>2. AddingBlock \in BOOLEAN BY DEF AddingBlock
  <2>3. behind' = behind \/ behind' \in {FALSE, AddingBlock}
    BY DEF PoolAlone, PoolConfirm, PostTransaction, QueryStatus, TxStatus
  <2>4. behind' \in BOOLEAN BY <2>2, <2>3 DEF SysTypeOK
  <2> QED BY <2>1, <2>4
<1>3. SysTypeOK' BY <1>1, <1>2 DEF SysTypeOK, metronomeVars, validatorVars
<1>4. ChainInv' /\ Last(blocks)' = Last(blocks) /\ MiningInv' /\ MetronomeTracksChain'
  BY <1>1, ChainFrame DEF MiningInv, Mining, MetronomeTracksChain, metronomeVars, validatorVars
<1>5. HeldInv'
  BY <1>1 DEF HeldInv, Accepted, metronomeVars, validatorVars, NoBatch, Pool!NoBatch
<1>6. RpcInv'
  <2>1. \A w \in Validators : BlockOf(w)' = BlockOf(w)
    BY <1>1 DEF BlockOf, MakeBlock, validatorVars
  <2>2. EmptyBlock' = EmptyBlock
    BY <1>1 DEF EmptyBlock, MakeBlock, metronomeVars
  <2> QED BY <1>1, <1>4, <2>1, <2>2 DEF RpcInv, metronomeVars, validatorVars, Admits, HeaderOf
<1> QED BY <1>3, <1>4, <1>5, <1>6

LEMMA IInvStep ==
  ASSUME IInv, Pool!TypeOK, Pool!TypeOK', [Next]_vars
  PROVE  IInv'
<1>1. CASE UNCHANGED vars
  BY <1>1 DEF vars, chainVars, metronomeVars, validatorVars, IInv, SysTypeOK, ChainInv, MiningInv,
     Mining, OnChain, RpcInv, HeldInv, Accepted, MetronomeTracksChain, Admits, BlockOf,
     EmptyBlock, MakeBlock, NoBatch, Pool!NoBatch, HeaderOf, Last
<1> QED BY <1>1, ValidatorStep, MetronomeStep, TimerStep, AddBlockStep, AddEmptyBlockStep,
           PoolAloneStep DEF Next, BlockAdder, PoolAlone

THEOREM SystemInvariance == Spec => []IInv
<1>1. IInv /\ Pool!TypeOK /\ Pool!TypeOK' /\ [Next]_vars => IInv'
  BY IInvStep
<1> QED BY <1>1, InitIInv, PoolTyped, PTL DEF Spec

-----------------------------------------------------------------------------
(* Every variable keeps its type.                                          *)
THEOREM SystemTypeCorrect == Spec => []TypeOK
<1>1. IInv /\ Pool!TypeOK => TypeOK
  BY DEF IInv, ChainInv, SysTypeOK, TypeOK
<1> QED BY <1>1, SystemInvariance, PoolTyped, PTL

(* The chain is linked, whatever races for it.                             *)
THEOREM ChainIsLinked == Spec => []ChainLinked
<1>1. IInv => ChainLinked
  <2> SUFFICES ASSUME IInv, NEW i \in 1..Len(blocks) - 1
               PROVE  blocks[i + 1].id = blocks[i].id + 1 /\ blocks[i + 1].prev = blocks[i].hash
    BY DEF ChainLinked
  <2>1. Len(blocks) \in Nat /\ i \in 1..Len(blocks) /\ i + 1 \in 1..Len(blocks)
    BY DEF IInv, ChainInv
  <2> QED BY <2>1 DEF IInv, ChainInv
<1> QED BY <1>1, SystemInvariance, PTL

(* The metronome's last block is the chain's, or the one before it during  *)
(* the one call that adds it.                                              *)
THEOREM MetronomeFollows == Spec => []MetronomeTracksChain
BY SystemInvariance, PTL DEF IInv

(* The system implements the append-only log of module ChainLog.           *)
THEOREM ChainIsLog == Spec => LogSpec
<1>1. Init => Log!Init
  BY DEF Init, Log!Init
<1>2. IInv /\ Pool!TypeOK /\ [Next]_vars => [Log!Next]_blocks
  <2> SUFFICES ASSUME IInv, Pool!TypeOK, [Next]_vars
               PROVE  Log!Next \/ UNCHANGED blocks
    OBVIOUS
  <2>1. ASSUME NEW b \in Block, blocks' = Append(blocks, b), Log!Extends(b, Last(blocks))
        PROVE  Log!Next
    <3>1. Last(blocks') = b
      BY <2>1 DEF IInv, ChainInv, Last
    <3>2. Log!Last(blocks) = Last(blocks) /\ Log!Last(blocks') = Last(blocks')
      BY DEF Last, Log!Last
    <3> QED BY <2>1, <3>1, <3>2 DEF Log!Next, Log!AppendBlock, Log!Extends
  <2>2. ASSUME NEW v \in Validators, AddBlock(v) PROVE Log!Next
    BY <2>1, <2>2, ValidatorBlockExtends DEF AddBlock
  <2>3. CASE AddEmptyBlock
    BY <2>1, <2>3, EmptyBlockExtends DEF AddEmptyBlock
  <2>4. ASSUME NEW v \in Validators, Validator(v) \/ Metronome(v) PROVE UNCHANGED blocks
    BY <2>4 DEF Validator, RequestHeader, Solve, SolveFails, CreateBlock, SubmitBlock, Stop,
                Metronome, RefuseBlock, HandleBlock, HandleBlockAccepted, chainVars
  <2>5. CASE TimerThread \/ PoolAlone \/ UNCHANGED vars
    BY <2>5 DEF TimerThread, TimerEnter, TimerNotified, TimerTimeout, SubmitEmptyBlock,
                EmptyBlockAccepted, PoolAlone, PoolConfirm, PostTransaction, QueryStatus, TxStatus,
                chainVars, vars
  <2> QED BY <2>2, <2>3, <2>4, <2>5 DEF Next, BlockAdder, PoolAlone
<1> QED BY <1>1, <1>2, SystemInvariance, PoolTyped, PTL DEF Spec, LogSpec, Log!Spec

-----------------------------------------------------------------------------
(* How often the running system includes a transaction.  The elements of   *)
(* the pool's queues are as in module TxPoolProofs.                        *)
LEMMA ToSetAppend ==
  ASSUME NEW S, NEW s \in Seq(S), NEW e \in S
  PROVE  /\ Append(s, e) \in Seq(S)
         /\ ToSet(Append(s, e)) = ToSet(s) \cup {e}
BY PoolThms!ToSetAppend, DSCAssumption DEF PoolThms!ToSet, ToSet

LEMMA ToSetTail ==
  ASSUME NEW S, NEW s \in Seq(S), s # <<>>
  PROVE  /\ Head(s) \in S
         /\ Tail(s) \in Seq(S)
         /\ ToSet(s) = {Head(s)} \cup ToSet(Tail(s))
<1>1. \A x : PoolThms!ToSet(x) = ToSet(x) BY DEF PoolThms!ToSet, ToSet
<1> QED BY <1>1, PoolThms!ToSetTail, DSCAssumption, Zenon

LEMMA ToSetSplit ==
  ASSUME NEW S, NEW s \in Seq(S), NEW k \in 0..Len(s)
  PROVE  /\ SubSeq(s, 1, k) \in Seq(S)
         /\ SubSeq(s, k + 1, Len(s)) \in Seq(S)
         /\ ToSet(s) = ToSet(SubSeq(s, 1, k)) \cup ToSet(SubSeq(s, k + 1, Len(s)))
<1>1. \A x : PoolThms!ToSet(x) = ToSet(x) BY DEF PoolThms!ToSet, ToSet
<1> QED BY <1>1, PoolThms!ToSetSplit, DSCAssumption, Zenon

LEMMA ToSetConcat ==
  ASSUME NEW S, NEW s \in Seq(S), NEW t \in Seq(S)
  PROVE  /\ s \o t \in Seq(S)
         /\ ToSet(s \o t) = ToSet(s) \cup ToSet(t)
<1>1. \A x : PoolThms!ToSet(x) = ToSet(x) BY DEF PoolThms!ToSet, ToSet
<1>2. PoolThms!ToSet(s \o t) = PoolThms!ToSet(s) \cup PoolThms!ToSet(t)
  BY PoolThms!ToSetConcat, DSCAssumption
<1> QED BY <1>1, <1>2

\* The live blocks that carry a key.
Carriers(tx) == {v \in Validators : Live(v) /\ tx \in held[v]}

(* A key posted once and never requeued under a live block is in one place *)
(* of the system: waiting in the pool, in one live block, or in one block  *)
(* of the chain, where the pool may still have to confirm it.              *)
OnceOf(tx) ==
  /\ \A v, w \in Carriers(tx) : v = w
  /\ Carriers(tx) # {} => tx \notin ToSet(submitted_queue)
  /\ tx \in onchain =>
       /\ Carriers(tx) = {}
       /\ tx \notin ToSet(submitted_queue)
       /\ tx \in ToSet(unconfirmed_queue) =>
            tx \in block /\ (tx_lock = "confirm" => tx \in confirmed_set)
  /\ \A i, j \in DOMAIN blocks : tx \in blocks[i].txs /\ tx \in blocks[j].txs => i = j

OnceInv == \A tx \in Tx : posts[tx] <= 1 /\ tx \notin raced => OnceOf(tx)

(* The converse of HeldInv: a batch is held only while its block is under  *)
(* way, so a validator that takes a new header brings no old batch to it.  *)
BatchInv ==
  \A v \in Validators :
    held[v] # NoBatch => vpc[v] = "submit" \/ (v \in mail /\ ~Accepted(v))

\* What module TxPoolProofs knows of the pool.
PoolInv ==
  /\ Pool!TypeOK
  /\ submitted_set \subseteq ToSet(submitted_queue)
  /\ block = NoBatch => tx_lock # "confirm"
  /\ \A tx \in Tx : posts[tx] <= 1 =>
       /\ tx \in ToSet(submitted_queue) => tx \notin ToSet(unconfirmed_queue)
       /\ tx \in ToSet(unconfirmed_queue) => tx \in unconfirmed_set
  /\ \A tx \in Tx : posts[tx] = 0 =>
       /\ tx \notin ToSet(submitted_queue) \cup ToSet(unconfirmed_queue) \cup onchain
       /\ \A v \in Validators : held[v] # NoBatch => tx \notin held[v]

LEMMA PoolKnows == Spec => []PoolInv
<1>1. PoolThms!Spec => []PoolThms!LInv
  BY PoolThms!CopyInvariance, DSCAssumption
<1>2. PoolThms!LInv => PoolInv
  <2>1. PoolThms!LInv => Pool!TypeOK
    BY SamePool DEF PoolThms!LInv, PoolThms!IInv
  <2> QED
    BY <2>1 DEF PoolThms!LInv, PoolThms!IInv, PoolInv, PoolThms!SetsSound, PoolThms!ConfirmInv,
       PoolThms!CopyInv, PoolThms!CopyOf, PoolThms!PostedInv, PoolThms!ToSet, ToSet,
       PoolThms!NoBatch, NoBatch, Pool!NoBatch
<1> QED BY <1>1, <1>2, SystemHasPoolThms, PTL

-----------------------------------------------------------------------------
LEMMA BatchStep ==
  ASSUME IInv, PoolInv, BatchInv, [Next]_vars
  PROVE  BatchInv'
<1> USE DEF IInv, PoolInv, NoBatch, Pool!NoBatch
<1>1. CASE UNCHANGED <<held, vpc, mail, rpc, block_mutex>>
  BY <1>1 DEF BatchInv, Accepted
<1>2. ASSUME NEW v \in Validators, RequestHeader(v) \/ Solve(v) \/ SolveFails(v) PROVE BatchInv'
  BY <1>2 DEF BatchInv, Accepted, RequestHeader, Solve, SolveFails, metronomeVars, SysTypeOK
<1>3. ASSUME NEW v \in Validators, CreateBlock(v) PROVE BatchInv'
  <2>1. /\ vpc' = [vpc EXCEPT ![v] = "submit"]
        /\ UNCHANGED <<mail, rpc, block_mutex>>
        /\ \A w \in Validators \ {v} : held'[w] = held[w]
    BY <1>3 DEF CreateBlock, Pool!PopTransactions, metronomeVars, Pool!TypeOK
  <2> QED BY <2>1 DEF BatchInv, Accepted, SysTypeOK
<1>4. ASSUME NEW v \in Validators, SubmitBlock(v) PROVE BatchInv'
  <2>1. /\ vpc' = [vpc EXCEPT ![v] = "submitted"] /\ mail' = mail \cup {v}
        /\ UNCHANGED <<held, rpc, block_mutex>>
    BY <1>4 DEF SubmitBlock, metronomeVars
  <2>2. ~Accepted(v)
    BY <1>4 DEF SubmitBlock, Accepted, RpcInv, MiningInv
  <2> QED BY <2>1, <2>2 DEF BatchInv, Accepted, SysTypeOK
<1>5. ASSUME NEW v \in Validators, Stop(v) PROVE BatchInv'
  <2>1. /\ vpc' = [vpc EXCEPT ![v] = "stopped"]
        /\ UNCHANGED <<mail, rpc, block_mutex>>
        /\ \A w \in Validators \ {v} : held'[w] = held[w]
        /\ vpc[v] = "submit" => held'[v] = NoBatch
        /\ vpc[v] # "submit" => held'[v] = held[v]
    BY <1>5 DEF Stop, Pool!BlockDropped, metronomeVars, Pool!TypeOK
  <2> QED BY <2>1 DEF BatchInv, Accepted, SysTypeOK
<1>6. ASSUME NEW v \in Validators, RefuseBlock(v) PROVE BatchInv'
  <2>1. /\ \A w \in Validators \ {v} : held'[w] = held[w] /\ vpc'[w] = vpc[w]
                                       /\ (w \in mail' <=> w \in mail)
        /\ held'[v] = NoBatch
        /\ UNCHANGED <<rpc, block_mutex>>
    BY <1>6 DEF RefuseBlock, Answered, Pool!BlockDropped, metronomeVars, SysTypeOK, Pool!TypeOK
  <2> QED BY <2>1 DEF BatchInv, Accepted
<1>7. ASSUME NEW v \in Validators, HandleBlock(v) PROVE BatchInv'
  BY <1>7 DEF HandleBlock, BatchInv, Accepted, validatorVars
<1>8. ASSUME NEW v \in Validators, HandleBlockAccepted(v) PROVE BatchInv'
  <2>1. /\ \A w \in Validators \ {v} : vpc'[w] = vpc[w] /\ (w \in mail' <=> w \in mail)
        /\ rpc' = "none" /\ UNCHANGED held /\ Accepted(v) /\ v \in mail
    BY <1>8 DEF HandleBlockAccepted, Commit, Answered, SysTypeOK, Accepted, RpcInv
  <2>2. held[v] = NoBatch
    BY <2>1 DEF BatchInv, MiningInv
  <2> QED BY <2>1, <2>2 DEF BatchInv, Accepted
<1>9. ASSUME NEW v \in Validators, AddBlock(v) PROVE BatchInv'
  <2>1. /\ \A w \in Validators \ {v} : held'[w] = held[w]
        /\ held'[v] = NoBatch /\ block_mutex = v
        /\ UNCHANGED <<vpc, mail, block_mutex>>
    BY <1>9 DEF AddBlock, Pool!BlockArrives, validatorVars, Pool!TypeOK
  <2> QED BY <2>1 DEF BatchInv, Accepted
<1>10. CASE AddEmptyBlock
  BY <1>10, DSCAssumption
     DEF AddEmptyBlock, Pool!EmptyBlockArrives, BatchInv, Accepted, validatorVars
<1>11. CASE TimerThread
  <2>1. UNCHANGED <<held, vpc, mail>> /\ (rpc' = "accepted" => UNCHANGED <<rpc, block_mutex>>)
    BY <1>11 DEF TimerThread, TimerEnter, TimerNotified, TimerTimeout, SubmitEmptyBlock,
                 EmptyBlockAccepted, Commit, validatorVars
  <2> QED BY <2>1 DEF BatchInv, Accepted
<1>12. CASE PoolAlone
  <2>1. UNCHANGED <<held, vpc, mail, rpc, block_mutex>>
    BY <1>12 DEF PoolAlone, PoolConfirm, PostTransaction, QueryStatus, TxStatus,
                 Pool!ConfirmBegin, Pool!ConfirmStep, Pool!ConfirmEnd, Pool!AddTransaction,
                 Pool!QueryChain, Pool!QueryReply, Pool!env, metronomeVars, validatorVars
  <2> QED BY <1>1, <2>1
<1> QED BY <1>1, <1>2, <1>3, <1>4, <1>5, <1>6, <1>7, <1>8, <1>9, <1>10, <1>11, <1>12
        DEF Next, BlockAdder, PoolAlone, Validator, Metronome, vars, metronomeVars, validatorVars

-----------------------------------------------------------------------------
(* The old block is behind every header a validator mines on once another  *)
(* block is appended: no batch is live any more.                           *)
LEMMA AppendOutdates ==
  ASSUME IInv, BatchInv, PoolInv, NEW b \in Block, blocks' = Append(blocks, b),
         Log!Extends(b, Last(blocks)), UNCHANGED curr_block,
         NEW w \in Validators, held'[w] = held[w]
  PROVE  ~Live(w)'
<1>1. Last(blocks)' = b /\ b.id = Last(blocks).id + 1
  BY AppendToChain DEF IInv, Log!Extends
<1>2. Last(blocks).id = Len(blocks) - 1 /\ Len(blocks) \in Nat \ {0}
  BY LastOfChain DEF IInv
<1> SUFFICES ASSUME held[w] # NoBatch PROVE ~(curr_block[w].id >= b.id)
  BY <1>1 DEF Live, NoBatch, Pool!NoBatch
<1>3. OnChain(curr_block[w])
  BY DEF BatchInv, IInv, MiningInv, Mining
<1>4. curr_block[w].id \in Nat /\ curr_block[w].id + 1 <= Len(blocks)
  BY <1>2, <1>3 DEF OnChain, Header
<1> QED BY <1>1, <1>2, <1>4

(* A key whose places all stay as they were, or that leaves some of them.  *)
LEMMA OnceFrame ==
  ASSUME NEW tx, OnceOf(tx), UNCHANGED blocks,
         Carriers(tx)' \subseteq Carriers(tx),
         tx \in ToSet(submitted_queue') => tx \in ToSet(submitted_queue),
         tx \in ToSet(unconfirmed_queue') => tx \in ToSet(unconfirmed_queue),
         tx \in onchain /\ tx \in ToSet(unconfirmed_queue') =>
           /\ tx \in block => tx \in block'
           /\ tx_lock' = "confirm" => tx \in confirmed_set'
  PROVE  OnceOf(tx)'
<1>1. onchain' = onchain BY DEF onchain
<1> QED BY <1>1 DEF OnceOf

LEMMA CarriersFrame ==
  ASSUME UNCHANGED <<blocks, held, curr_block>>, NEW tx
  PROVE  Carriers(tx)' = Carriers(tx)
BY DEF Carriers, Live, Last, NoBatch, Pool!NoBatch

(* The pool's part of a batch: it leaves the queue and is unconfirmed.     *)
LEMMA PopMoves ==
  ASSUME Pool!TypeOK, Pool!Pop
  PROVE  /\ ToSet(Pool!Popped) \in SUBSET Tx
         /\ ToSet(submitted_queue) = ToSet(Pool!Popped) \cup ToSet(submitted_queue')
         /\ ToSet(unconfirmed_queue') = ToSet(unconfirmed_queue) \cup ToSet(Pool!Popped)
<1>1. /\ submitted_queue \in Seq(Tx) /\ unconfirmed_queue \in Seq(Tx)
      /\ Len(submitted_queue) \in Nat
  BY DEF Pool!TypeOK
<1>2. Pool!PopCount \in 0..Len(submitted_queue)
  BY <1>1, DSCAssumption DEF Pool!PopCount
<1>3. /\ Pool!Popped \in Seq(Tx)
      /\ ToSet(submitted_queue) = ToSet(Pool!Popped) \cup ToSet(Pool!Remaining)
  BY <1>1, <1>2, ToSetSplit DEF Pool!Popped, Pool!Remaining
<1>4. ToSet(unconfirmed_queue \o Pool!Popped) = ToSet(unconfirmed_queue) \cup ToSet(Pool!Popped)
  BY <1>1, <1>3, ToSetConcat
<1>5. \A i \in DOMAIN Pool!Popped : Pool!Popped[i] \in Tx
  BY <1>3
<1> QED BY <1>3, <1>4, <1>5 DEF Pool!Pop, ToSet

LEMMA CreateBlockOnce ==
  ASSUME PoolInv, PoolInv', NEW v \in Validators, CreateBlock(v), NEW tx \in Tx,
         posts[tx] <= 1, OnceOf(tx)
  PROVE  OnceOf(tx)'
<1> USE DEF PoolInv, NoBatch, Pool!NoBatch
<1>1. /\ UNCHANGED <<blocks, curr_block, tx_lock, confirmed_set, posts, block>>
      /\ held' = [held EXCEPT ![v] = ToSet(Pool!Popped)] /\ Pool!Pop
  BY DEF CreateBlock, Pool!PopTransactions, Pool!Pop, chainVars, Pool!ToSet, ToSet
<1>2. Carriers(tx)' \subseteq IF tx \in ToSet(Pool!Popped) THEN Carriers(tx) \cup {v}
                                                          ELSE Carriers(tx)
  BY <1>1 DEF Carriers, Live, Last, Pool!TypeOK
<1>3. CASE tx \in ToSet(Pool!Popped)
  <2>1. tx \in ToSet(submitted_queue) /\ tx \in ToSet(unconfirmed_queue')
    BY <1>1, <1>3, PopMoves
  <2>2. tx \notin ToSet(submitted_queue')
    BY <1>1, <2>1
  <2>3. Carriers(tx)' \subseteq {v} /\ tx \notin onchain /\ onchain' = onchain
    BY <1>1, <1>2, <1>3, <2>1 DEF OnceOf, onchain
  <2> QED BY <1>1, <2>2, <2>3 DEF OnceOf
<1>4. CASE tx \notin ToSet(Pool!Popped)
  BY <1>1, <1>2, <1>4, PopMoves, OnceFrame DEF OnceOf
<1> QED BY <1>3, <1>4

(* What the confirmation does not find in its block goes back to the       *)
(* queue; unless a live block carries it, that is its only place.          *)
LEMMA ConfirmStepOnce ==
  ASSUME PoolInv, PoolInv', PoolConfirm, Pool!ConfirmStep, NEW tx \in Tx,
         posts[tx] <= 1, tx \notin raced', OnceOf(tx)
  PROVE  OnceOf(tx)'
<1> USE DEF PoolInv
<1> DEFINE head == Head(unconfirmed_queue)
<1>1. /\ UNCHANGED <<blocks, curr_block, held, posts, block, tx_lock>>
      /\ tx_lock = "confirm"
      /\ confirmed_set' = confirmed_set \ {head} /\ unconfirmed_set' = unconfirmed_set \ {head}
  BY DEF PoolConfirm, Pool!ConfirmStep, validatorVars, Pool!env
<1>2. Carriers(tx)' = Carriers(tx)
  BY <1>1, CarriersFrame
<1>3. /\ head \in Tx /\ submitted_queue \in Seq(Tx)
      /\ ToSet(unconfirmed_queue) = {head} \cup ToSet(unconfirmed_queue')
  BY ToSetTail DEF Pool!ConfirmStep, Pool!TypeOK
<1>4. tx \in ToSet(submitted_queue') =>
        tx \in ToSet(submitted_queue) \/ (tx = head /\ head \notin confirmed_set)
  <2>1. ToSet(Append(submitted_queue, head)) = ToSet(submitted_queue) \cup {head}
    BY <1>3, ToSetAppend
  <2>2. \/ head \in confirmed_set /\ submitted_queue' = submitted_queue
        \/ head \notin confirmed_set /\ submitted_queue' = Append(submitted_queue, head)
    BY DEF Pool!ConfirmStep, Pool!Resubmit
  <2> QED BY <2>1, <2>2
<1>5. CASE tx # head
  BY <1>1, <1>2, <1>3, <1>4, <1>5, OnceFrame DEF OnceOf
<1>6. CASE tx = head /\ head \in confirmed_set
  <2>1. tx \notin ToSet(unconfirmed_queue')
    BY <1>1, <1>6
  <2> QED BY <1>1, <1>2, <1>4, <1>6, <2>1, OnceFrame
<1>7. CASE tx = head /\ head \notin confirmed_set
  <2>1. tx \in ToSet(unconfirmed_queue) /\ tx \notin onchain /\ onchain' = onchain
    BY <1>1, <1>3, <1>7 DEF OnceOf, onchain
  <2>2. tx \in submitted_set' \ submitted_set
    BY <1>7, <2>1 DEF Pool!ConfirmStep, Pool!Resubmit
  <2>3. raced' = raced \cup {t \in Requeued : \E v \in Validators : Live(v) /\ t \in held[v]}
    BY DEF PoolConfirm, Pool!ConfirmStep, Pool!ConfirmBegin, Pool!ConfirmEnd, Pool!LoopDone
  <2>4. Carriers(tx) = {}
    BY <2>2, <2>3 DEF Requeued, Carriers
  <2> QED BY <1>1, <1>2, <2>1, <2>4 DEF OnceOf
<1> QED BY <1>5, <1>6, <1>7

LEMMA AddBlockOnce ==
  ASSUME IInv, BatchInv, PoolInv, NEW v \in Validators, AddBlock(v), NEW tx \in Tx, OnceOf(tx)
  PROVE  OnceOf(tx)'
<1> USE DEF PoolInv
<1>1. /\ block_mutex = v /\ rpc = "sent" /\ block = NoBatch /\ held[v] # NoBatch
      /\ blocks' = Append(blocks, BlockOf(v))
      /\ block' = held[v] \cup {Reward}
      /\ held' = [held EXCEPT ![v] = NoBatch]
      /\ UNCHANGED <<curr_block, submitted_queue, unconfirmed_queue, tx_lock, confirmed_set>>
  BY DEF AddBlock, Pool!BlockArrives, validatorVars, Pool!queues, NoBatch, Pool!NoBatch
<1>2. /\ BlockOf(v) \in Block /\ Log!Extends(BlockOf(v), Last(blocks))
      /\ BlockOf(v).txs = held[v] \cup {Reward}
  BY <1>1, ValidatorBlockExtends DEF BlockOf, MakeBlock
<1>3. Carriers(tx)' = {}
  <2>1. \A w \in Validators \ {v} : ~Live(w)'
    BY <1>1, <1>2, AppendOutdates DEF Pool!TypeOK
  <2>2. ~Live(v)'
    BY <1>1 DEF Live, NoBatch, Pool!NoBatch, Pool!TypeOK
  <2> QED BY <2>1, <2>2 DEF Carriers
<1>4. Len(blocks) \in Nat /\ blocks \in Seq(Block)
  BY DEF IInv, ChainInv
<1>5. /\ DOMAIN blocks = 1..Len(blocks) /\ DOMAIN blocks' = 1..Len(blocks) + 1
      /\ \A i \in 1..Len(blocks) : blocks'[i] = blocks[i]
      /\ blocks'[Len(blocks) + 1].txs = held[v] \cup {Reward}
      /\ tx # Reward
  BY <1>1, <1>2, <1>4, DSCAssumption
<1>6. \A i \in DOMAIN blocks' : i \in DOMAIN blocks \/ i = Len(blocks) + 1
  BY <1>4, <1>5
<1>7. tx \in onchain' => tx \in onchain \/ tx \in held[v]
  BY <1>5, <1>6 DEF onchain
<1>8. CASE tx \in held[v]
  <2>1. v \in Carriers(tx)
    <3>1. HeaderOf(BlockOf(v)).id = curr_block[v].id + 1 /\ curr_block[v].id \in Nat
      BY <1>1 DEF HeaderOf, BlockOf, MakeBlock, IInv, RpcInv, MiningInv, Mining, OnChain, Header
    <3>2. BlockOf(v).id = Last(blocks).id + 1 /\ Last(blocks).id \in Nat
      BY <1>2, LastOfChain DEF Log!Extends, IInv
    <3>3. curr_block[v].id >= Last(blocks).id
      BY <3>1, <3>2 DEF HeaderOf
    <3> QED BY <1>1, <1>8, <3>3 DEF Carriers, Live
  <2>2. tx \notin onchain /\ tx \notin ToSet(submitted_queue)
    BY <2>1 DEF OnceOf
  <2>3. \A i \in DOMAIN blocks : tx \notin blocks[i].txs
    BY <2>2 DEF onchain
  <2>4. tx_lock # "confirm"
    BY <1>1
  <2> QED BY <1>1, <1>3, <1>5, <1>6, <1>8, <2>2, <2>3, <2>4 DEF OnceOf
<1>9. CASE tx \notin held[v]
  <2>1. \A i \in DOMAIN blocks' : tx \in blocks'[i].txs => i \in DOMAIN blocks /\ tx \in blocks[i].txs
    BY <1>5, <1>6, <1>9
  <2>2. tx \notin block
    BY <1>1, DSCAssumption DEF NoBatch, Pool!NoBatch
  <2> QED BY <1>1, <1>3, <1>7, <1>9, <2>1, <2>2 DEF OnceOf
<1> QED BY <1>8, <1>9

LEMMA AddEmptyBlockOnce ==
  ASSUME IInv, BatchInv, PoolInv, AddEmptyBlock, NEW tx \in Tx, OnceOf(tx)
  PROVE  OnceOf(tx)'
<1>1. /\ rpc = "sent" /\ block = NoBatch
      /\ blocks' = Append(blocks, EmptyBlock)
      /\ UNCHANGED <<curr_block, held, submitted_queue, unconfirmed_queue, tx_lock, confirmed_set>>
  BY DEF AddEmptyBlock, Pool!EmptyBlockArrives, validatorVars, Pool!queues, NoBatch, Pool!NoBatch
<1>2. /\ EmptyBlock \in Block /\ Log!Extends(EmptyBlock, Last(blocks)) /\ EmptyBlock.txs = {}
  BY <1>1, EmptyBlockExtends DEF EmptyBlock, MakeBlock
<1>3. Carriers(tx)' = {}
  BY <1>1, <1>2, AppendOutdates DEF Carriers
<1>4. Len(blocks) \in Nat /\ blocks \in Seq(Block)
  BY DEF IInv, ChainInv
<1>5. /\ DOMAIN blocks = 1..Len(blocks) /\ DOMAIN blocks' = 1..Len(blocks) + 1
      /\ \A i \in 1..Len(blocks) : blocks'[i] = blocks[i]
      /\ blocks'[Len(blocks) + 1].txs = {}
  BY <1>1, <1>2, <1>4
<1>6. \A i \in DOMAIN blocks' : tx \in blocks'[i].txs => i \in DOMAIN blocks /\ tx \in blocks[i].txs
  BY <1>4, <1>5
<1>7. tx \in onchain' => tx \in onchain
  BY <1>6 DEF onchain
<1>8. tx \notin block
  BY <1>1, DSCAssumption DEF NoBatch, Pool!NoBatch
<1> QED BY <1>1, <1>3, <1>6, <1>7, <1>8 DEF OnceOf

-----------------------------------------------------------------------------
LEMMA InitOnce == Init => OnceInv /\ BatchInv
<1> SUFFICES ASSUME Init PROVE OnceInv /\ BatchInv OBVIOUS
<1>1. \A tx : Carriers(tx) = {}
  BY DEF Init, Carriers, Live, Pool!Init, NoBatch, Pool!NoBatch
<1>2. onchain = {} /\ DOMAIN blocks = {1}
  BY DEF Init, onchain, Genesis
<1> QED BY <1>1, <1>2 DEF Init, OnceInv, OnceOf, BatchInv, Pool!Init, NoBatch, Pool!NoBatch

\* A history of posts and of races only grows.
LEMMA HistoryGrows ==
  ASSUME IInv, Pool!TypeOK, [Next]_vars, NEW tx \in Tx
  PROVE  posts[tx] <= posts'[tx] /\ raced \subseteq raced' /\ posts[tx] \in Nat
<1>1. posts \in [Tx -> 0..MaxPosts] /\ MaxPosts \in Nat
  BY DSCAssumption DEF Pool!TypeOK
<1>2. posts' = posts \/ \E t \in Tx : posts' = [posts EXCEPT ![t] = @ + 1]
  BY DEF Next, vars, chainVars, metronomeVars, validatorVars, poolVars, Validator, RequestHeader,
     Solve, SolveFails, CreateBlock, SubmitBlock, Stop, Metronome, RefuseBlock, HandleBlock,
     HandleBlockAccepted, AddBlock, TimerThread, TimerEnter, TimerNotified, TimerTimeout,
     SubmitEmptyBlock, EmptyBlockAccepted, BlockAdder, AddEmptyBlock, PoolConfirm,
     PostTransaction, QueryStatus, TxStatus, Pool!QueryChain, Pool!QueryReply, Pool!PopTransactions, Pool!Pop, Pool!BlockDropped, Pool!BlockArrives,
     Pool!EmptyBlockArrives, Pool!ConfirmBegin, Pool!ConfirmStep, Pool!ConfirmEnd,
     Pool!AddTransaction
<1>3. raced \subseteq raced'
  BY DEF Next, vars, Validator, RequestHeader, Solve, SolveFails, CreateBlock, SubmitBlock, Stop,
     Metronome, RefuseBlock, HandleBlock, HandleBlockAccepted, AddBlock, TimerThread, TimerEnter,
     TimerNotified, TimerTimeout, SubmitEmptyBlock, EmptyBlockAccepted, BlockAdder,
     AddEmptyBlock, PoolConfirm, PostTransaction, QueryStatus, TxStatus
<1> QED BY <1>1, <1>2, <1>3

LEMMA OnceStep ==
  ASSUME IInv, BatchInv, OnceInv, PoolInv, PoolInv', [Next]_vars
  PROVE  OnceInv'
<1> SUFFICES ASSUME NEW tx \in Tx, posts'[tx] <= 1, tx \notin raced' PROVE OnceOf(tx)'
  BY DEF OnceInv
<1>1. posts[tx] <= 1 /\ OnceOf(tx)
  BY HistoryGrows DEF OnceInv, PoolInv, Pool!TypeOK
<1> USE DEF PoolInv
<1>2. CASE UNCHANGED <<blocks, held, curr_block, submitted_queue, unconfirmed_queue, block,
                       tx_lock, confirmed_set>>
  BY <1>1, <1>2, CarriersFrame, OnceFrame DEF OnceOf
<1>3. ASSUME NEW v \in Validators, RequestHeader(v) PROVE OnceOf(tx)'
  <2>1. held[v] = NoBatch
    BY <1>3 DEF RequestHeader, BatchInv, IInv, MiningInv
  <2>2. /\ UNCHANGED <<blocks, held, submitted_queue, unconfirmed_queue, block, tx_lock, confirmed_set>>
        /\ \A w \in Validators \ {v} : curr_block'[w] = curr_block[w]
    BY <1>3 DEF RequestHeader, chainVars, poolVars, IInv, SysTypeOK
  <2>3. Carriers(tx)' \subseteq Carriers(tx)
    BY <2>1, <2>2 DEF Carriers, Live, Last, NoBatch, Pool!NoBatch
  <2> QED BY <1>1, <2>2, <2>3, OnceFrame DEF OnceOf
<1>4. ASSUME NEW v \in Validators, CreateBlock(v) PROVE OnceOf(tx)'
  BY <1>1, <1>4, CreateBlockOnce
<1>5. ASSUME NEW v \in Validators, Stop(v) \/ RefuseBlock(v) PROVE OnceOf(tx)'
  <2>1. /\ UNCHANGED <<blocks, curr_block, submitted_queue, unconfirmed_queue, block, tx_lock,
                       confirmed_set>>
        /\ \A w \in Validators : held'[w] = held[w] \/ held'[w] = NoBatch
    BY <1>5 DEF Stop, RefuseBlock, Pool!BlockDropped, Pool!queues, chainVars, poolVars,
                Pool!TypeOK, NoBatch, Pool!NoBatch
  <2>2. Carriers(tx)' \subseteq Carriers(tx)
    BY <2>1 DEF Carriers, Live, Last, NoBatch, Pool!NoBatch
  <2> QED BY <1>1, <2>1, <2>2, OnceFrame DEF OnceOf
<1>6. ASSUME NEW v \in Validators, AddBlock(v) PROVE OnceOf(tx)'
  BY <1>1, <1>6, AddBlockOnce
<1>7. CASE AddEmptyBlock
  BY <1>1, <1>7, AddEmptyBlockOnce
<1>8. CASE PoolConfirm /\ Pool!ConfirmStep
  BY <1>1, <1>8, ConfirmStepOnce
<1>9. CASE PoolConfirm /\ ~Pool!ConfirmStep
  <2>1. UNCHANGED <<blocks, held, curr_block, submitted_queue, unconfirmed_queue>>
    BY <1>9 DEF PoolConfirm, Pool!ConfirmBegin, Pool!ConfirmEnd, Pool!queues, Pool!env,
                validatorVars
  <2>2. CASE Pool!ConfirmBegin
    <3>1. UNCHANGED block /\ confirmed_set' = block
      BY <2>2 DEF Pool!ConfirmBegin, Pool!env, Pool!BlockKeys
    <3> QED BY <1>1, <2>1, <3>1, CarriersFrame, OnceFrame DEF OnceOf
  <2>3. CASE Pool!ConfirmEnd
    <3>1. tx \in onchain => tx \notin ToSet(unconfirmed_queue)
      BY <1>1, <2>3 DEF Pool!ConfirmEnd, Pool!LoopDone, OnceOf, ToSet
    <3> QED BY <1>1, <2>1, <3>1, CarriersFrame, OnceFrame
  <2> QED BY <1>9, <2>2, <2>3 DEF PoolConfirm
<1>10. CASE PostTransaction
  <2>1. PICK new \in Tx : Pool!AddTransaction(new)
    BY <1>10 DEF PostTransaction
  <2>2. /\ UNCHANGED <<blocks, held, curr_block, unconfirmed_queue, block, tx_lock, confirmed_set>>
        /\ submitted_queue' = Append(submitted_queue, new)
        /\ posts' = [posts EXCEPT ![new] = @ + 1]
    BY <1>10, <2>1 DEF PostTransaction, Pool!AddTransaction, Pool!env, validatorVars
  <2>3. ToSet(submitted_queue') = ToSet(submitted_queue) \cup {new}
    BY <2>2, ToSetAppend DEF Pool!TypeOK
  <2>4. CASE tx # new
    BY <1>1, <2>2, <2>3, <2>4, CarriersFrame, OnceFrame DEF OnceOf
  <2>5. CASE tx = new
    <3>1. posts[tx] = 0
      BY <2>2, <2>5, DSCAssumption DEF Pool!TypeOK
    <3>2. tx \notin onchain /\ Carriers(tx) = {}
      BY <3>1 DEF Carriers, Live
    <3> QED BY <1>1, <2>2, <3>2, CarriersFrame DEF OnceOf, onchain
  <2> QED BY <2>4, <2>5
<1>11. CASE QueryStatus \/ TxStatus
  <2>1. UNCHANGED <<blocks, held, curr_block, submitted_queue, unconfirmed_queue, block,
                    confirmed_set>> /\ tx_lock' # "confirm"
    BY <1>11 DEF QueryStatus, TxStatus, Pool!QueryChain, Pool!QueryReply, Pool!queues, Pool!env,
                 validatorVars
  <2> QED BY <1>1, <2>1, CarriersFrame, OnceFrame DEF OnceOf
<1> QED BY <1>2, <1>3, <1>4, <1>5, <1>6, <1>7, <1>8, <1>9, <1>10, <1>11
        DEF Next, BlockAdder, Validator, Metronome, Solve, SolveFails, SubmitBlock, HandleBlock,
            HandleBlockAccepted, TimerThread, TimerEnter, TimerNotified, TimerTimeout,
            SubmitEmptyBlock, EmptyBlockAccepted, vars, chainVars, validatorVars, poolVars

THEOREM InclusionInvariance == Spec => [](OnceInv /\ BatchInv)
<1>1. OnceInv /\ BatchInv /\ IInv /\ PoolInv /\ PoolInv' /\ [Next]_vars => (OnceInv /\ BatchInv)'
  BY BatchStep, OnceStep
<1> QED BY <1>1, InitOnce, SystemInvariance, PoolKnows, PTL DEF Spec

(* No interleaving of pops, refused blocks, timeouts, stops and            *)
(* confirmations includes a key posted once twice, except through a        *)
(* confirmation that requeues it while a live block carries it.            *)
THEOREM TwiceNeedsRace == Spec => []TwiceOnlyIfRaced
<1>1. OnceInv => TwiceOnlyIfRaced
  <2> SUFFICES ASSUME OnceInv, NEW t \in Tx, posts[t] <= 1, t \notin raced
               PROVE  ~(Cardinality(Inclusions(t)) > 1)
    BY DEF TwiceOnlyIfRaced
  <2>1. \A i, j \in Inclusions(t) : i = j
    BY DEF OnceInv, OnceOf, Inclusions
  <2>2. CASE Inclusions(t) = {}
    BY <2>2, FS_EmptySet
  <2>3. CASE Inclusions(t) # {}
    <3>1. PICK i \in Inclusions(t) : TRUE
      BY <2>3
    <3>2. Inclusions(t) = {i}
      BY <2>1, <3>1
    <3>3. Cardinality({i}) = 1
      BY FS_Singleton
    <3>4. Cardinality(Inclusions(t)) = 1
      BY <3>2, <3>3
    <3> QED BY <3>4
  <2> QED BY <2>2, <2>3
<1> QED BY <1>1, InclusionInvariance, PTL

-----------------------------------------------------------------------------
(* Who waits for whom.  A query behind a block keeps tx_lock, and the block*)
(* it waits for is still to be added or confirmed.                         *)
BehindInv == behind => tx_lock = "query" /\ AddingBlock

LEMMA BehindStep ==
  ASSUME IInv, BehindInv, [Next]_vars
  PROVE  BehindInv'
<1> USE DEF BehindInv, AddingBlock, NoBatch, Pool!NoBatch
<1>1. CASE UNCHANGED <<behind, tx_lock, rpc, block>>
  BY <1>1
<1>2. ASSUME NEW v \in Validators, Validator(v)
      PROVE  UNCHANGED <<behind, tx_lock, rpc, block>>
  BY <1>2 DEF Validator, RequestHeader, Solve, SolveFails, CreateBlock, SubmitBlock, Stop,
              Pool!PopTransactions, Pool!Pop, Pool!BlockDropped, poolVars, chainVars, metronomeVars
<1>3. ASSUME NEW v \in Validators, Metronome(v)
      PROVE  UNCHANGED <<behind, tx_lock, block>> /\ (rpc = "sent" => rpc' = "sent")
  BY <1>3 DEF Metronome, RefuseBlock, HandleBlock, HandleBlockAccepted, Commit, Pool!BlockDropped,
              poolVars, chainVars, metronomeVars
<1>4. CASE TimerThread
  <2>1. UNCHANGED <<behind, tx_lock, block>> /\ (rpc = "sent" => rpc' = "sent")
    BY <1>4 DEF TimerThread, TimerEnter, TimerNotified, TimerTimeout, SubmitEmptyBlock,
                EmptyBlockAccepted, Commit, poolVars, chainVars
  <2> QED BY <2>1
<1>5. CASE BlockAdder
  <2>1. UNCHANGED <<behind, tx_lock>>
    BY <1>5 DEF BlockAdder, AddBlock, AddEmptyBlock, Pool!BlockArrives, Pool!EmptyBlockArrives
  <2>2. block' # NoBatch
    <3>1. ASSUME NEW v \in Validators, AddBlock(v) PROVE block' # NoBatch
      <4>1. block' = held[v] \cup {Reward} BY <3>1 DEF AddBlock, Pool!BlockArrives
      <4> QED BY <4>1, DSCAssumption
    <3>2. CASE AddEmptyBlock
      <4>1. block' = {} BY <3>2 DEF AddEmptyBlock, Pool!EmptyBlockArrives
      <4> QED BY <4>1
    <3> QED BY <1>5, <3>1, <3>2 DEF BlockAdder
  <2> QED BY <2>1, <2>2
<1>6. CASE PoolConfirm
  <2>1. behind' = behind BY <1>6 DEF PoolConfirm
  <2>2. tx_lock # "query"
    BY <1>6 DEF PoolConfirm, Pool!ConfirmBegin, Pool!ConfirmStep, Pool!ConfirmEnd
  <2> QED BY <2>1, <2>2
<1>7. CASE PostTransaction
  BY <1>7 DEF PostTransaction, Pool!AddTransaction
<1>8. CASE QueryStatus
  <2>1. tx_lock' = "query" /\ UNCHANGED <<rpc, block>>
    BY <1>8 DEF QueryStatus, Pool!QueryChain, Pool!env, metronomeVars
  <2>2. behind' => AddingBlock
    BY <1>8 DEF QueryStatus
  <2> QED BY <2>1, <2>2
<1>9. CASE TxStatus
  BY <1>9 DEF TxStatus
<1>10. CASE UNCHANGED vars
  BY <1>1, <1>10 DEF vars, chainVars, metronomeVars, poolVars
<1> QED BY <1>1, <1>2, <1>3, <1>4, <1>5, <1>6, <1>7, <1>8, <1>9, <1>10 DEF Next

\* The block sent can be added: blockmutex is free, and its batch still there.
CanAdd ==
  /\ rpc = "sent" /\ block = NoBatch
  /\ block_mutex \in Validators => held[block_mutex] # NoBatch

(* As long as the circle is not closed, whoever holds block_mutex can be   *)
(* helped: it can take the reply; or its block can be added; or the        *)
(* confirmation that keeps blockmutex can go on; or the query that holds   *)
(* tx_lock can be answered.  And that query can be answered unless it waits*)
(* behind a block, which can be added if it has not closed the circle yet. *)
HolderGoesOn ==
  /\ block_mutex # None =>
       \/ rpc = "accepted"
       \/ CanAdd
       \/ rpc = "sent" /\ block # NoBatch /\ tx_lock \in {"free", "confirm"}
       \/ tx_lock = "query" /\ ~behind
       \/ Circle
  /\ tx_lock = "query" => ~behind \/ CanAdd \/ Circle

LEMMA BehindInvariance == Spec => []BehindInv
<1>1. Init => BehindInv BY DEF Init, BehindInv
<1>2. IInv /\ BehindInv /\ [Next]_vars => BehindInv' BY BehindStep
<1> QED BY <1>1, <1>2, SystemInvariance, PTL DEF Spec

(* Between accepting a block and the reply no interleaving with stops, the *)
(* timer, queries and the confirmation of the previous block leaves        *)
(* block_mutex with a holder whom nobody can help, but for the circle that *)
(* query_tx_status and add_block close (tx_pool.cpp, blockchain.cpp).      *)
THEOREM HolderGoesOnUnlessCircle == Spec => []HolderGoesOn
<1>1. IInv /\ rpc = "sent" /\ block = NoBatch => CanAdd
  BY DEF CanAdd, IInv, RpcInv, HeldInv, Accepted
<1>2. IInv /\ Pool!TypeOK /\ BehindInv => HolderGoesOn
  <2> SUFFICES ASSUME IInv, Pool!TypeOK, BehindInv, ~CanAdd, ~Circle
               PROVE  /\ block_mutex # None =>
                           \/ rpc = "accepted"
                           \/ rpc = "sent" /\ block # NoBatch /\ tx_lock \in {"free", "confirm"}
                           \/ tx_lock = "query" /\ ~behind
                      /\ tx_lock = "query" => ~behind
    BY DEF HolderGoesOn
  <2>1. block_mutex # None => rpc \in {"sent", "accepted"}
    BY DEF IInv, RpcInv, SysTypeOK
  <2>2. rpc = "sent" => block # NoBatch
    BY <1>1
  <2>3. tx_lock = "query" => ~behind
    BY <2>2 DEF BehindInv, AddingBlock, Circle
  <2>4. tx_lock \in {"free", "confirm", "query"}
    BY DEF Pool!TypeOK
  <2> QED BY <2>1, <2>2, <2>3, <2>4
<1> QED BY <1>2, SystemInvariance, PoolTyped, BehindInvariance, PTL

(* The circle is for ever, and with it the chain has ended: no step of a   *)
(* validator, the timer, a client or the pool opens it, and no block is    *)
(* added after it has closed.                                              *)
CircleStopsTheChain == [][Circle => Circle' /\ UNCHANGED blocks]_vars

THEOREM ChainEndsInCircle == Spec => CircleStopsTheChain
<1>1. IInv /\ [Next]_vars => (Circle => Circle' /\ UNCHANGED blocks)
  <2> SUFFICES ASSUME IInv, [Next]_vars, tx_lock = "query", behind, block # NoBatch
               PROVE  UNCHANGED <<behind, tx_lock, block, blocks>>
    BY DEF Circle, NoBatch, Pool!NoBatch
  <2>1. ASSUME NEW v \in Validators, Validator(v)
        PROVE  UNCHANGED <<behind, tx_lock, block, blocks>>
    BY <2>1 DEF Validator, RequestHeader, Solve, SolveFails, CreateBlock, SubmitBlock, Stop,
                Pool!PopTransactions, Pool!Pop, Pool!BlockDropped, poolVars, chainVars
  <2>2. ASSUME NEW v \in Validators, Metronome(v)
        PROVE  UNCHANGED <<behind, tx_lock, block, blocks>>
    BY <2>2 DEF Metronome, RefuseBlock, HandleBlock, HandleBlockAccepted, Pool!BlockDropped,
                poolVars, chainVars
  <2>3. CASE TimerThread
    BY <2>3 DEF TimerThread, TimerEnter, TimerNotified, TimerTimeout, SubmitEmptyBlock,
                EmptyBlockAccepted, poolVars, chainVars
  <2>4. ~BlockAdder
    BY DEF BlockAdder, AddBlock, AddEmptyBlock
  <2>5. ~PoolConfirm /\ ~PostTransaction /\ ~QueryStatus /\ ~TxStatus
    BY DEF PoolConfirm, Pool!ConfirmBegin, Pool!ConfirmStep, Pool!ConfirmEnd, PostTransaction,
           Pool!AddTransaction, QueryStatus, Pool!QueryChain, TxStatus
  <2>6. CASE UNCHANGED vars BY <2>6 DEF vars, chainVars, poolVars
  <2> QED BY <2>1, <2>2, <2>3, <2>4, <2>5, <2>6 DEF Next
<1> QED BY <1>1, SystemInvariance, PTL DEF Spec, CircleStopsTheChain
=============================================================================
