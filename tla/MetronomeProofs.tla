-------------------------- MODULE MetronomeProofs --------------------------
(* Theorems about module Metronome for any number of worker threads, every *)
(* block time, width of int and content of the uninitialised solved times, *)
(* and any pace of the clock.                                              *)
EXTENDS Metronome, TLAPS

\* Where the timer thread and a worker hold block_mutex.
TimerHolds     == timer \in {"rpc", "commit"}
WorkerHolds(h) == hpc[h] \in {"rpc", "commit", "commit2"}

(* block_mutex has one holder, and the block the holder has in hand goes   *)
(* on top of last_block, which nobody else may change meanwhile.           *)
MutexInv ==
  /\ TimerHolds <=> block_mutex = Timer
  /\ \A h \in Handlers : WorkerHolds(h) <=> block_mutex = h

InHand ==
  /\ TimerHolds => empty_block \in Header /\ empty_block.id = last_block.id + 1
  /\ \A h \in Handlers :
       /\ hpc[h] # "idle" => request[h] \in Header
       /\ WorkerHolds(h) => Admits(request[h])

IInv == TypeOK /\ MutexInv /\ InHand /\ ChainAgrees /\ NoLostWakeup /\ DifficultyBounded

-----------------------------------------------------------------------------
LEMMA InitIInv == Init => IInv
<1> SUFFICES ASSUME Init PROVE IInv OBVIOUS
<1>1. TypeOK
  <2>1. DOMAIN << >> = {} /\ 0 \in 0..MaxTime
    BY MetronomeAssumption
  <2>2. [id |-> 0, timestamp |-> 0] \in Header
    BY DEF Header
  <2> QED BY <2>1, <2>2, MetronomeAssumption DEF Init, TypeOK
<1>2. MutexInv /\ InHand
  BY MetronomeAssumption DEF Init, MutexInv, InHand, TimerHolds, WorkerHolds
<1>3. ChainAgrees
  <2>1. chain_id = last_block.id /\ last_block.id = 0 /\ timer # "commit"
    BY DEF Init
  <2>2. \A h \in Handlers : hpc[h] = "idle"
    BY DEF Init
  <2> QED BY <2>1, <2>2 DEF ChainAgrees
<1>4. NoLostWakeup /\ DifficultyBounded
  BY MetronomeAssumption DEF Init, NoLostWakeup, DifficultyBounded, RaisesOwed
<1> QED BY <1>1, <1>2, <1>3, <1>4 DEF IInv

LEMMA TimerKeeps ==
  ASSUME IInv, TimerStep \/ SpuriousWakeUp
  PROVE  IInv'
<1> USE DEF IInv, TypeOK, solvedTimes, timerVars, handlerVars
<1>1. UNCHANGED <<now, hpc, request, accepted>>
  BY DEF TimerStep, SpuriousWakeUp, TimerLock, WakeUp, Reacquire, DecreaseDifficulty,
     ReadSolvedTime, IncreaseDifficulty, SubmitEmptyBlock, EmptyBlockReply, CommitEmptyBlock
<1>2. CASE TimerLock
  <2>1. TypeOK'
    <3>1. last_block.timestamp + BLOCK_TIME \in Nat BY MetronomeAssumption DEF Header
    <3> QED BY <1>2, <3>1 DEF TimerLock
  <2>2. MutexInv' /\ InHand'
    BY <1>2 DEF TimerLock, MutexInv, InHand, TimerHolds, WorkerHolds, Admits
  <2>3. ChainAgrees' /\ NoLostWakeup' BY <1>2 DEF TimerLock, ChainAgrees, NoLostWakeup
  <2>4. DifficultyBounded' BY <1>2, MetronomeAssumption DEF TimerLock, DifficultyBounded, RaisesOwed
  <2> QED BY <2>1, <2>2, <2>3, <2>4
<1>3. CASE WakeUp \/ SpuriousWakeUp
  <2>1. Reacquire BY <1>3 DEF WakeUp, SpuriousWakeUp
  <2>2. TypeOK' BY <2>1 DEF Reacquire
  <2>3. MutexInv' /\ InHand'
    BY <2>1 DEF Reacquire, MutexInv, InHand, TimerHolds, WorkerHolds, Admits
  <2>4. ChainAgrees' /\ NoLostWakeup' BY <2>1 DEF Reacquire, WaitsOn, ChainAgrees, NoLostWakeup
  <2>5. DifficultyBounded'
    BY <2>1, MetronomeAssumption DEF Reacquire, WaitsOn, DifficultyBounded, RaisesOwed
  <2> QED BY <2>2, <2>3, <2>4, <2>5
<1>4. CASE DecreaseDifficulty
  <2>1. difficulty' \in Nat /\ difficulty' >= MIN_DIFFICULTY /\ difficulty' <= difficulty
    BY <1>4, MetronomeAssumption DEF DecreaseDifficulty, Lowered, DifficultyBounded
  <2>2. TypeOK' BY <1>4, <2>1 DEF DecreaseDifficulty
  <2>3. MutexInv' /\ InHand'
    BY <1>4 DEF DecreaseDifficulty, MutexInv, InHand, TimerHolds, WorkerHolds, Admits
  <2>4. ChainAgrees' /\ NoLostWakeup' BY <1>4 DEF DecreaseDifficulty, ChainAgrees, NoLostWakeup
  <2>5. DifficultyBounded'
    BY <1>4, <2>1, MetronomeAssumption DEF DecreaseDifficulty, DifficultyBounded, RaisesOwed
  <2> QED BY <2>2, <2>3, <2>4, <2>5
<1>5. ASSUME NEW which \in {"prev", "curr"}, ReadSolvedTime(which) PROVE IInv'
  <2>1. TypeOK' BY <1>5 DEF ReadSolvedTime
  <2>2. MutexInv' /\ InHand'
    BY <1>5 DEF ReadSolvedTime, MutexInv, InHand, TimerHolds, WorkerHolds, Admits
  <2>3. ChainAgrees' /\ NoLostWakeup' BY <1>5 DEF ReadSolvedTime, ChainAgrees, NoLostWakeup
  <2>4. DifficultyBounded' BY <1>5 DEF ReadSolvedTime, DifficultyBounded, RaisesOwed
  <2> QED BY <2>1, <2>2, <2>3, <2>4
<1>6. CASE IncreaseDifficulty
  <2>1. difficulty' = difficulty \/ difficulty' = difficulty + 1
    BY <1>6 DEF IncreaseDifficulty
  <2>2. TypeOK' BY <1>6, <2>1 DEF IncreaseDifficulty
  <2>3. MutexInv' /\ InHand'
    BY <1>6 DEF IncreaseDifficulty, MutexInv, InHand, TimerHolds, WorkerHolds, Admits
  <2>4. ChainAgrees' /\ NoLostWakeup' BY <1>6 DEF IncreaseDifficulty, ChainAgrees, NoLostWakeup
  <2>5. DifficultyBounded'
    <3>1. timer = "solved" /\ timer' = "lock" /\ UNCHANGED sleeping
      BY <1>6 DEF IncreaseDifficulty
    <3>2. accepted' = accepted /\ MIN_DIFFICULTY \in Nat
      BY <1>1, MetronomeAssumption
    <3>3. CASE sleeping
      BY <2>1, <3>1, <3>2, <3>3 DEF DifficultyBounded, RaisesOwed
    <3>4. CASE ~sleeping
      BY <2>1, <3>1, <3>2, <3>4 DEF DifficultyBounded, RaisesOwed
    <3> QED BY <3>3, <3>4
  <2> QED BY <2>2, <2>3, <2>4, <2>5
<1>7. CASE SubmitEmptyBlock
  <2>1. EmptyBlock \in Header /\ EmptyBlock.id = last_block.id + 1
    BY MetronomeAssumption DEF EmptyBlock, Header
  <2>2. TypeOK' BY <1>7, <2>1 DEF SubmitEmptyBlock
  <2>3. MutexInv'
    BY <1>7, MetronomeAssumption DEF SubmitEmptyBlock, MutexInv, TimerHolds, WorkerHolds
  <2>4. InHand'
    BY <1>7, <2>1 DEF SubmitEmptyBlock, InHand, TimerHolds, WorkerHolds, Admits
  <2>5. ChainAgrees' /\ NoLostWakeup' BY <1>7 DEF SubmitEmptyBlock, ChainAgrees, NoLostWakeup
  <2>6. DifficultyBounded' BY <1>7 DEF SubmitEmptyBlock, DifficultyBounded, RaisesOwed
  <2> QED BY <2>2, <2>3, <2>4, <2>5, <2>6
<1>8. ASSUME NEW status \in Replies, EmptyBlockReply(status) PROVE IInv'
  <2>1. /\ block_mutex = Timer /\ empty_block \in Header /\ empty_block.id = last_block.id + 1
        /\ \A h \in Handlers : ~WorkerHolds(h)
    BY <1>8, MetronomeAssumption DEF EmptyBlockReply, MutexInv, InHand, TimerHolds
  <2>2. TypeOK' BY <1>8, <2>1 DEF EmptyBlockReply, Header
  <2>3. MutexInv'
    BY <1>8, <2>1, MetronomeAssumption DEF EmptyBlockReply, MutexInv, TimerHolds, WorkerHolds
  <2>4. InHand'
    BY <1>8, <2>1 DEF EmptyBlockReply, InHand, TimerHolds, WorkerHolds, Admits
  <2>5. ChainAgrees'
    BY <1>8, <2>1 DEF EmptyBlockReply, ChainAgrees, WorkerHolds, Header
  <2>6. NoLostWakeup' /\ DifficultyBounded'
    BY <1>8 DEF EmptyBlockReply, NoLostWakeup, DifficultyBounded, RaisesOwed
  <2> QED BY <2>2, <2>3, <2>4, <2>5, <2>6
<1>9. CASE CommitEmptyBlock
  <2>1. /\ block_mutex = Timer /\ empty_block \in Header /\ empty_block.id = last_block.id + 1
        /\ \A h \in Handlers : ~WorkerHolds(h)
    BY <1>9, MetronomeAssumption DEF CommitEmptyBlock, MutexInv, InHand, TimerHolds
  <2>2. TypeOK' BY <1>9, <2>1 DEF CommitEmptyBlock, Header
  <2>3. MutexInv'
    BY <1>9, <2>1, MetronomeAssumption DEF CommitEmptyBlock, MutexInv, TimerHolds, WorkerHolds
  <2>4. InHand'
    BY <1>9, <2>1 DEF CommitEmptyBlock, InHand, TimerHolds, WorkerHolds
  <2>5. ChainAgrees'
    BY <1>9, <2>1 DEF CommitEmptyBlock, ChainAgrees, WorkerHolds, Header
  <2>6. NoLostWakeup' /\ DifficultyBounded'
    BY <1>9 DEF CommitEmptyBlock, NoLostWakeup, DifficultyBounded, RaisesOwed
  <2> QED BY <2>2, <2>3, <2>4, <2>5, <2>6
<1> QED BY <1>2, <1>3, <1>4, <1>5, <1>6, <1>7, <1>8, <1>9 DEF TimerStep

\* The holder of block_mutex is the only thread inside a call or a commit.
LEMMA OneHolder ==
  ASSUME MutexInv, NEW h \in Handlers, WorkerHolds(h)
  PROVE  /\ block_mutex = h /\ ~TimerHolds
         /\ \A g \in Handlers \ {h} : ~WorkerHolds(g)
BY MetronomeAssumption DEF MutexInv

LEMMA HandlerKeeps ==
  ASSUME IInv, NEW h \in Handlers, HandlerStep(h)
  PROVE  IInv'
<1> USE DEF IInv, TypeOK, solvedTimes, timerVars, handlerVars
<1>1. UNCHANGED <<now, difficulty, timer, deadline, seen, empty_block>>
      /\ \A g \in Handlers \ {h} : hpc'[g] = hpc[g] /\ request'[g] = request[g]
  BY DEF HandlerStep, RefuseBlock, ForwardBlock, BlockReply, CommitBlock, NotifyTimer, Done
<1>2. CASE RefuseBlock(h)
  <2>1. TypeOK' BY <1>2 DEF RefuseBlock, Done
  <2>2. MutexInv'
    BY <1>2, MetronomeAssumption DEF RefuseBlock, Done, MutexInv, TimerHolds, WorkerHolds
  <2>3. InHand' BY <1>2 DEF RefuseBlock, Done, InHand, TimerHolds, WorkerHolds, Admits
  <2>4. ChainAgrees' BY <1>2 DEF RefuseBlock, Done, ChainAgrees
  <2>5. NoLostWakeup' /\ DifficultyBounded'
    BY <1>2 DEF RefuseBlock, NoLostWakeup, DifficultyBounded, RaisesOwed
  <2> QED BY <2>1, <2>2, <2>3, <2>4, <2>5
<1>3. CASE ForwardBlock(h)
  <2>1. TypeOK' BY <1>3 DEF ForwardBlock
  <2>2. MutexInv'
    BY <1>3, MetronomeAssumption DEF ForwardBlock, MutexInv, TimerHolds, WorkerHolds
  <2>3. InHand' BY <1>3 DEF ForwardBlock, InHand, TimerHolds, WorkerHolds, Admits
  <2>4. ChainAgrees' BY <1>3 DEF ForwardBlock, ChainAgrees
  <2>5. NoLostWakeup' /\ DifficultyBounded'
    BY <1>3 DEF ForwardBlock, NoLostWakeup, DifficultyBounded, RaisesOwed
  <2> QED BY <2>1, <2>2, <2>3, <2>4, <2>5
<1>4. ASSUME NEW status \in Replies, BlockReply(h, status) PROVE IInv'
  <2>1. WorkerHolds(h) /\ request[h] \in Header /\ request[h].id = last_block.id + 1
    BY <1>4 DEF BlockReply, WorkerHolds, InHand, Admits
  <2>2. timer # "commit" /\ \A g \in Handlers : hpc[g] \notin {"commit", "commit2"}
    BY <1>4, <2>1, OneHolder DEF BlockReply, WorkerHolds, TimerHolds
  <2>3. TypeOK' BY <1>4, <2>1 DEF BlockReply, Done, Header
  <2>4. MutexInv'
    BY <1>4, <2>1, MetronomeAssumption DEF BlockReply, Done, MutexInv, TimerHolds, WorkerHolds
  <2>5. InHand' BY <1>4 DEF BlockReply, Done, InHand, TimerHolds, WorkerHolds, Admits
  <2>6. ChainAgrees'
    <3>1. CASE status = "STATUS_GOOD"
      BY <1>4, <2>1, <3>1 DEF BlockReply, ChainAgrees
    <3>2. CASE status # "STATUS_GOOD"
      BY <1>4, <2>2, <3>2 DEF BlockReply, Done, ChainAgrees
    <3> QED BY <3>1, <3>2
  <2>7. NoLostWakeup' /\ DifficultyBounded'
    BY <1>4 DEF BlockReply, NoLostWakeup, DifficultyBounded, RaisesOwed
  <2> QED BY <2>3, <2>4, <2>5, <2>6, <2>7
<1>5. CASE CommitBlock(h)
  <2>1. TypeOK' BY <1>5 DEF CommitBlock
  <2>2. MutexInv' /\ InHand'
    BY <1>5 DEF CommitBlock, MutexInv, InHand, TimerHolds, WorkerHolds, Admits
  <2>3. ChainAgrees'
    <3>1. hpc[h] = "commit" /\ hpc'[h] = "commit2" /\ UNCHANGED <<chain_id, last_block>>
      BY <1>5 DEF CommitBlock
    <3> QED BY <1>1, <3>1 DEF ChainAgrees
  <2>4. NoLostWakeup' /\ DifficultyBounded'
    BY <1>5 DEF CommitBlock, NoLostWakeup, DifficultyBounded, RaisesOwed
  <2> QED BY <2>1, <2>2, <2>3, <2>4
<1>6. CASE NotifyTimer(h)
  <2>1. WorkerHolds(h) /\ request[h] \in Header /\ request[h].id = last_block.id + 1
    BY <1>6 DEF NotifyTimer, WorkerHolds, InHand, Admits
  <2>2. ~TimerHolds /\ \A g \in Handlers \ {h} : ~WorkerHolds(g)
    BY <2>1, OneHolder
  <2>3. TypeOK'
    <3>1. signaled' \in BOOLEAN /\ accepted' \in Nat /\ curr_solved_time' \in Nat
      BY <1>6, <2>1 DEF NotifyTimer, Header, Notified
    <3> QED BY <1>6, <2>1, <3>1 DEF NotifyTimer, Done
  <2>4. MutexInv'
    BY <1>6, <2>1, <2>2, MetronomeAssumption
       DEF NotifyTimer, Done, MutexInv, TimerHolds, WorkerHolds
  <2>5. InHand'
    BY <1>6, <2>2 DEF NotifyTimer, Done, InHand, TimerHolds, WorkerHolds
  <2>6. ChainAgrees'
    <3>1. chain_id = last_block.id + 1 /\ chain_id' = chain_id /\ last_block' = request[h]
      BY <1>6 DEF NotifyTimer, ChainAgrees
    <3>2. timer' # "commit" /\ \A g \in Handlers : hpc'[g] \notin {"commit", "commit2"}
      BY <1>1, <1>6, <2>2 DEF NotifyTimer, Done, TimerHolds, WorkerHolds
    <3> QED BY <2>1, <3>1, <3>2 DEF ChainAgrees
  <2>7. NoLostWakeup' BY <1>6 DEF NotifyTimer, Notified, NoLostWakeup
  <2>8. DifficultyBounded'
    BY <1>6, MetronomeAssumption DEF NotifyTimer, DifficultyBounded, RaisesOwed
  <2> QED BY <2>3, <2>4, <2>5, <2>6, <2>7, <2>8
<1> QED BY <1>2, <1>3, <1>4, <1>5, <1>6 DEF HandlerStep

LEMMA ArrivalKeeps ==
  ASSUME IInv, NEW h \in Handlers, NEW id \in 0..MaxHeight, ReceiveBlock(h, id)
  PROVE  IInv'
<1> USE DEF IInv, TypeOK, solvedTimes, timerVars
<1>1. [id |-> id, timestamp |-> now] \in Header
  BY MetronomeAssumption DEF Header
<1>2. TypeOK' BY <1>1 DEF ReceiveBlock
<1>3. \A g \in Handlers : WorkerHolds(g)' = WorkerHolds(g)
  BY DEF ReceiveBlock, WorkerHolds
<1>4. MutexInv' BY <1>3 DEF ReceiveBlock, MutexInv, TimerHolds
<1>5. InHand' BY <1>1, <1>3 DEF ReceiveBlock, InHand, TimerHolds, WorkerHolds, Admits
<1>6. ChainAgrees'
  <2>1. \A g \in Handlers : hpc'[g] \in {"commit", "commit2"} <=> hpc[g] \in {"commit", "commit2"}
    BY DEF ReceiveBlock
  <2> QED BY <2>1 DEF ReceiveBlock, ChainAgrees
<1>7. NoLostWakeup' /\ DifficultyBounded'
  BY DEF ReceiveBlock, NoLostWakeup, DifficultyBounded, RaisesOwed
<1> QED BY <1>2, <1>4, <1>5, <1>6, <1>7

LEMMA IInvStep == ASSUME IInv, [Next]_vars PROVE IInv'
<1>1. CASE Tick \/ UNCHANGED vars
  <2>1. /\ UNCHANGED <<chain_id, last_block, sleeping, difficulty, block_mutex, solvedTimes,
                       timerVars, handlerVars, accepted>>
        /\ now' \in 0..MaxTime
    BY <1>1, MetronomeAssumption DEF Tick, vars, IInv, TypeOK
  <2>2. TypeOK' BY <2>1 DEF IInv, TypeOK, solvedTimes, timerVars, handlerVars
  <2>3. MutexInv' /\ InHand' /\ ChainAgrees' /\ NoLostWakeup' /\ DifficultyBounded'
    BY <2>1 DEF IInv, MutexInv, InHand, TimerHolds, WorkerHolds, Admits, ChainAgrees,
                NoLostWakeup, DifficultyBounded, RaisesOwed, timerVars, handlerVars
  <2> QED BY <2>2, <2>3 DEF IInv
<1> QED BY <1>1, TimerKeeps, HandlerKeeps, ArrivalKeeps DEF Next

THEOREM MetronomeInvariance == Spec => []IInv
BY InitIInv, IInvStep, PTL DEF Spec

-----------------------------------------------------------------------------
(* Every variable keeps its type.                                          *)
THEOREM MetronomeTypeCorrect == Spec => []TypeOK
BY MetronomeInvariance, PTL DEF IInv

(* The timer cannot sleep through an accepted block: sleeping and the      *)
(* condition variable change within one hold of block_mutex.               *)
THEOREM NoWakeupLost == Spec => []NoLostWakeup
BY MetronomeInvariance, PTL DEF IInv

(* Difficulty stays at or above its minimum, and every increase has an     *)
(* accepted block of its own to pay for it.                                *)
THEOREM DifficultyPaidFor == Spec => []DifficultyBounded
BY MetronomeInvariance, PTL DEF IInv

(* Timer and workers never disagree with the blockchain about the height.  *)
THEOREM HeightAgreed == Spec => []ChainAgrees
BY MetronomeInvariance, PTL DEF IInv

(* The chain gets one block per height, whoever makes it.                  *)
THEOREM HeightsInOrder == Spec => OneBlockPerHeight
<1>1. ASSUME IInv, [Next]_vars, chain_id' # chain_id PROVE chain_id' = chain_id + 1
  <2>1. CASE TimerStep
    <3>1. PICK status \in Replies : EmptyBlockReply(status) /\ status = "STATUS_GOOD"
      BY <1>1, <2>1 DEF TimerStep, TimerLock, WakeUp, Reacquire, DecreaseDifficulty,
         ReadSolvedTime, IncreaseDifficulty, SubmitEmptyBlock, EmptyBlockReply, CommitEmptyBlock
    <3>2. /\ timer = "rpc" /\ chain_id' = last_block.id + 1
          /\ \A h \in Handlers : ~WorkerHolds(h)
      BY <1>1, <3>1, MetronomeAssumption DEF EmptyBlockReply, IInv, MutexInv, InHand, TimerHolds
    <3>3. timer # "commit" /\ \A h \in Handlers : hpc[h] \notin {"commit", "commit2"}
      BY <3>2 DEF WorkerHolds
    <3> QED BY <1>1, <3>2, <3>3 DEF IInv, ChainAgrees, TypeOK, Header
  <2>2. ASSUME NEW h \in Handlers, HandlerStep(h) PROVE chain_id' = chain_id + 1
    <3>1. PICK status \in Replies : BlockReply(h, status) /\ status = "STATUS_GOOD"
      BY <1>1, <2>2 DEF HandlerStep, RefuseBlock, ForwardBlock, BlockReply, CommitBlock, NotifyTimer
    <3>2. WorkerHolds(h) /\ hpc[h] = "rpc" /\ chain_id' = last_block.id + 1
      BY <1>1, <3>1 DEF BlockReply, WorkerHolds, IInv, InHand, Admits
    <3>3. timer # "commit" /\ \A g \in Handlers : hpc[g] \notin {"commit", "commit2"}
      BY <1>1, <3>2, OneHolder DEF IInv, WorkerHolds, TimerHolds
    <3> QED BY <1>1, <3>2, <3>3 DEF IInv, ChainAgrees, TypeOK, Header
  <2> QED BY <1>1, <2>1, <2>2
          DEF Next, vars, Tick, SpuriousWakeUp, Reacquire, ReceiveBlock
<1> QED BY <1>1, MetronomeInvariance, PTL DEF Spec, OneBlockPerHeight
=============================================================================
