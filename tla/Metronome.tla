----------------------------- MODULE Metronome -----------------------------
(***************************************************************************)
(* The metronome by itself (src/src/metronome.cpp), with its clock: the    *)
(* timer thread of start(), the server's worker threads in handle_block,   *)
(* and what they share: last_block and sleeping under block_mutex, the     *)
(* condition variable block_timer, the two solved times, which             *)
(* handle_block writes under the mutex and update_difficulty reads without *)
(* it, and difficulty, which only the timer thread writes.                 *)
(* Time is counted in ticks; a thread may be arbitrarily slow.             *)
(***************************************************************************)
EXTENDS Integers, FiniteSets

CONSTANTS Handlers,        \* the server's worker threads
          None,
          Timer,           \* the thread that runs start()
          BLOCK_TIME,      \* ticks
          MIN_DIFFICULTY,
          INT_RANGE,       \* number of values of a C++ int (2^32)
          Garbage,         \* what an uninitialised solved time may hold
          MaxTime,         \* bound on the clock
          MaxHeight        \* bound on the ids of submitted blocks

ASSUME MetronomeAssumption ==
  /\ Timer \notin Handlers /\ None \notin Handlers \cup {Timer}
  /\ BLOCK_TIME \in Nat \ {0}
  /\ MIN_DIFFICULTY \in Nat
  /\ INT_RANGE \in Nat \ {0}
  /\ Garbage \subseteq Nat
  /\ MaxTime \in Nat /\ MaxHeight \in Nat

VARIABLES now,
          chain_id,          \* id of the blockchain's last block (its process)
          last_block, sleeping, difficulty, block_mutex,
          prev_solved_time, curr_solved_time,
          signaled,          \* block_timer was notified while the timer waited
          timer,             \* where the timer thread is
          deadline,          \* its block_deadline
          seen,              \* the solved times update_difficulty has read
          empty_block,       \* local of submit_empty_block
          hpc, request,      \* per worker: where it is, the block it handles
          accepted           \* history: validators' blocks accepted

solvedTimes == <<prev_solved_time, curr_solved_time>>
timerVars   == <<signaled, timer, deadline, seen, empty_block>>
handlerVars == <<hpc, request>>
vars == <<now, chain_id, last_block, sleeping, difficulty, block_mutex,
          solvedTimes, timerVars, handlerVars, accepted>>

Header == [id : Nat, timestamp : Nat]

TypeOK ==
  /\ now \in 0..MaxTime
  /\ chain_id \in Nat
  /\ last_block \in Header
  /\ sleeping \in BOOLEAN
  /\ difficulty \in Nat
  /\ block_mutex \in Handlers \cup {Timer, None}
  /\ prev_solved_time \in Nat /\ curr_solved_time \in Nat
  /\ signaled \in BOOLEAN
  /\ timer \in {"lock", "wait", "timed_out", "solved", "submit", "rpc", "commit"}
  /\ deadline \in Nat
  /\ DOMAIN seen \subseteq {"prev", "curr"} /\ \A w \in DOMAIN seen : seen[w] \in Nat
  /\ empty_block \in Header \cup {None}
  /\ hpc \in [Handlers -> {"idle", "queued", "rpc", "commit", "commit2"}]
  /\ request \in [Handlers -> Header \cup {None}]
  /\ accepted \in Nat

\* The constructor asks the blockchain for last_block; the solved times are
\* never initialised.
Init ==
  /\ now = 0
  /\ chain_id = 0
  /\ last_block = [id |-> 0, timestamp |-> 0]
  /\ sleeping = TRUE
  /\ difficulty = MIN_DIFFICULTY
  /\ block_mutex = None
  /\ prev_solved_time \in Garbage /\ curr_solved_time \in Garbage
  /\ signaled = FALSE
  /\ timer = "lock"
  /\ deadline = 0
  /\ seen = << >>
  /\ empty_block = None
  /\ hpc = [h \in Handlers |-> "idle"]
  /\ request = [h \in Handlers |-> None]
  /\ accepted = 0

Tick ==
  /\ now < MaxTime
  /\ now' = now + 1
  /\ UNCHANGED <<chain_id, last_block, sleeping, difficulty, block_mutex,
                 solvedTimes, timerVars, handlerVars, accepted>>

-----------------------------------------------------------------------------
(* The timer thread.                                                       *)

(* It takes the mutex and waits, which gives the mutex back, unless a      *)
(* block was accepted since its last round.                                *)
TimerLock ==
  /\ timer = "lock"
  /\ block_mutex = None
  /\ deadline' = last_block.timestamp + BLOCK_TIME
  /\ timer' = IF sleeping THEN "wait" ELSE "solved"
  /\ sleeping' = TRUE
  /\ signaled' = FALSE
  /\ UNCHANGED <<now, chain_id, last_block, difficulty, block_mutex, solvedTimes,
                 seen, empty_block, handlerVars, accepted>>

\* Mutant: an if instead of the loop around wait_until.
NeverWaitsOn == FALSE

WaitsOn == sleeping /\ now < deadline

(* wait_until returns with the mutex taken again and reports a timeout     *)
(* exactly if the clock is then past the deadline; the loop goes on while  *)
(* nothing was accepted and there is no timeout.                           *)
Reacquire ==
  /\ timer = "wait"
  /\ block_mutex = None
  /\ signaled' = FALSE
  /\ IF WaitsOn
     THEN UNCHANGED <<sleeping, timer>>
     ELSE /\ sleeping' = TRUE
          /\ timer' = IF now >= deadline THEN "timed_out" ELSE "solved"
  /\ UNCHANGED <<now, chain_id, last_block, difficulty, block_mutex, solvedTimes,
                 deadline, seen, empty_block, handlerVars, accepted>>

\* Mutant: a sleep that notifying does not end.
WokenByClock == now >= deadline

Woken == signaled \/ now >= deadline

WakeUp == Woken /\ Reacquire

SpuriousWakeUp == ~Woken /\ Reacquire

\* Mutant: no minimum.
LoweredAlways == difficulty - 1

Lowered == IF difficulty <= MIN_DIFFICULTY THEN difficulty ELSE difficulty - 1

(* update_difficulty(true)                                                 *)
DecreaseDifficulty ==
  /\ timer = "timed_out"
  /\ difficulty' = Lowered
  /\ timer' = "submit"
  /\ UNCHANGED <<now, chain_id, last_block, sleeping, block_mutex, solvedTimes,
                 signaled, deadline, seen, empty_block, handlerVars, accepted>>

(* update_difficulty(false): two unlocked reads, in either order ...       *)
ReadSolvedTime(which) ==
  /\ timer = "solved"
  /\ which \notin DOMAIN seen
  /\ seen' = [w \in DOMAIN seen \cup {which} |->
                IF w # which THEN seen[w]
                ELSE IF w = "prev" THEN prev_solved_time ELSE curr_solved_time]
  /\ UNCHANGED <<now, chain_id, last_block, sleeping, difficulty, block_mutex, solvedTimes,
                 signaled, timer, deadline, empty_block, handlerVars, accepted>>

\* ... and the difference of the two uint64_t kept in an int.
ToInt(x) == LET r == x % INT_RANGE IN IF 2 * r < INT_RANGE THEN r ELSE r - INT_RANGE

IncreaseDifficulty ==
  /\ timer = "solved"
  /\ DOMAIN seen = {"prev", "curr"}
  /\ difficulty' = IF ToInt(seen["curr"] - seen["prev"]) < BLOCK_TIME \div 2
                   THEN difficulty + 1 ELSE difficulty
  /\ seen' = << >>
  /\ timer' = "lock"
  /\ UNCHANGED <<now, chain_id, last_block, sleeping, block_mutex, solvedTimes,
                 signaled, deadline, empty_block, handlerVars, accepted>>

\* Mutant: the empty block repeats the last id.
EmptyBlockOfLastId == [id |-> last_block.id, timestamp |-> now]

EmptyBlock == [id |-> last_block.id + 1, timestamp |-> now]

(* submit_empty_block: the mutex is taken anew, so a worker may have had   *)
(* it since the timeout, and is kept across the call to the blockchain.    *)
SubmitEmptyBlock ==
  /\ timer = "submit"
  /\ block_mutex = None
  /\ block_mutex' = Timer
  /\ empty_block' = EmptyBlock
  /\ timer' = "rpc"
  /\ UNCHANGED <<now, chain_id, last_block, sleeping, difficulty, solvedTimes,
                 signaled, deadline, seen, handlerVars, accepted>>

EmptyBlockReply(status) ==
  /\ timer = "rpc"
  /\ IF status = "STATUS_GOOD"
     THEN /\ chain_id' = empty_block.id
          /\ timer' = "commit"
          /\ UNCHANGED <<block_mutex, empty_block>>
     ELSE /\ timer' = "lock"
          /\ block_mutex' = None
          /\ empty_block' = None
          /\ UNCHANGED chain_id
  /\ UNCHANGED <<now, last_block, sleeping, difficulty, solvedTimes,
                 signaled, deadline, seen, handlerVars, accepted>>

\* The timer thread is its own reader: one step is enough here.
CommitEmptyBlock ==
  /\ timer = "commit"
  /\ prev_solved_time' = curr_solved_time
  /\ curr_solved_time' = empty_block.timestamp
  /\ last_block' = empty_block
  /\ empty_block' = None
  /\ block_mutex' = None
  /\ timer' = "lock"
  /\ UNCHANGED <<now, chain_id, sleeping, difficulty, signaled, deadline, seen,
                 handlerVars, accepted>>

-----------------------------------------------------------------------------
(* A worker thread in handle_block.                                        *)

(* A SUBMIT_BLOCK arrives: its validator mined on the blockchain's last    *)
(* block or on the one before, which another block has extended since.     *)
ReceiveBlock(h, id) ==
  /\ hpc[h] = "idle"
  /\ id \in {chain_id, chain_id + 1} \cap 1..MaxHeight
  /\ hpc' = [hpc EXCEPT ![h] = "queued"]
  /\ request' = [request EXCEPT ![h] = [id |-> id, timestamp |-> now]]
  /\ UNCHANGED <<now, chain_id, last_block, sleeping, difficulty, block_mutex,
                 solvedTimes, timerVars, accepted>>

\* Mutant: no reply is sent.
NotDone(h) == UNCHANGED <<hpc, request>>

\* The only check of handle_block ("TODO: validate block").
Admits(b) == b.id = last_block.id + 1

Done(h) == /\ hpc' = [hpc EXCEPT ![h] = "idle"]
           /\ request' = [request EXCEPT ![h] = None]

RefuseBlock(h) ==
  /\ hpc[h] = "queued"
  /\ block_mutex = None
  /\ ~Admits(request[h])
  /\ Done(h)
  /\ UNCHANGED <<now, chain_id, last_block, sleeping, difficulty, block_mutex,
                 solvedTimes, timerVars, accepted>>

ForwardBlock(h) ==
  /\ hpc[h] = "queued"
  /\ block_mutex = None
  /\ Admits(request[h])
  /\ block_mutex' = h
  /\ hpc' = [hpc EXCEPT ![h] = "rpc"]
  /\ UNCHANGED <<now, chain_id, last_block, sleeping, difficulty,
                 solvedTimes, timerVars, request, accepted>>

BlockReply(h, status) ==
  /\ hpc[h] = "rpc"
  /\ IF status = "STATUS_GOOD"
     THEN /\ chain_id' = request[h].id
          /\ hpc' = [hpc EXCEPT ![h] = "commit"]
          /\ UNCHANGED <<block_mutex, request>>
     ELSE /\ Done(h)
          /\ block_mutex' = None
          /\ UNCHANGED chain_id
  /\ UNCHANGED <<now, last_block, sleeping, difficulty, solvedTimes, timerVars, accepted>>

\* The timer may read the solved times between these two steps.
CommitBlock(h) ==
  /\ hpc[h] = "commit"
  /\ prev_solved_time' = curr_solved_time
  /\ hpc' = [hpc EXCEPT ![h] = "commit2"]
  /\ UNCHANGED <<now, chain_id, last_block, sleeping, difficulty, block_mutex,
                 curr_solved_time, timerVars, request, accepted>>

\* Mutant: block_timer is not notified.
NotNotified == signaled

\* notify_one reaches the timer if it waits.
Notified == timer = "wait"

NotifyTimer(h) ==
  /\ hpc[h] = "commit2"
  /\ curr_solved_time' = request[h].timestamp
  /\ last_block' = request[h]
  /\ sleeping' = FALSE
  /\ signaled' = Notified
  /\ block_mutex' = None
  /\ Done(h)
  /\ accepted' = accepted + 1
  /\ UNCHANGED <<now, chain_id, difficulty, prev_solved_time, timer, deadline, seen,
                 empty_block>>

-----------------------------------------------------------------------------
Replies == {"STATUS_GOOD", "STATUS_BAD"}

TimerStep ==
  \/ TimerLock \/ WakeUp \/ DecreaseDifficulty
  \/ \E which \in {"prev", "curr"} : ReadSolvedTime(which)
  \/ IncreaseDifficulty \/ SubmitEmptyBlock
  \/ \E status \in Replies : EmptyBlockReply(status)
  \/ CommitEmptyBlock

HandlerStep(h) ==
  \/ RefuseBlock(h) \/ ForwardBlock(h)
  \/ \E status \in Replies : BlockReply(h, status)
  \/ CommitBlock(h) \/ NotifyTimer(h)

Next ==
  \/ Tick
  \/ TimerStep \/ SpuriousWakeUp
  \/ \E h \in Handlers : HandlerStep(h) \/ \E id \in 0..MaxHeight : ReceiveBlock(h, id)

Spec == Init /\ [][Next]_vars

(* Every thread gets to run, and a thread that keeps finding block_mutex   *)
(* free gets it.  Neither the clock nor any validator has to move.         *)
Fairness == SF_vars(TimerStep) /\ \A h \in Handlers : SF_vars(HandlerStep(h))

FairSpec == Spec /\ Fairness
-----------------------------------------------------------------------------
(* No wakeup is lost: if the timer waits and a block has been accepted, it *)
(* has been notified since it began to wait.  (sleeping is cleared and the *)
(* variable notified within one hold of block_mutex, and the timer tests   *)
(* sleeping and waits within another.)                                     *)
NoLostWakeup == timer = "wait" /\ ~sleeping => signaled

\* Accepted blocks the timer may still raise difficulty for.
RaisesOwed == (IF sleeping THEN 0 ELSE 1) + (IF timer = "solved" THEN 1 ELSE 0)

(* Difficulty never falls below its minimum and never rises more often     *)
(* than validators' blocks were accepted, whatever the timer wakes up for  *)
(* and however rounds and blocks are interleaved.                          *)
DifficultyBounded ==
  /\ difficulty >= MIN_DIFFICULTY
  /\ difficulty + RaisesOwed <= MIN_DIFFICULTY + accepted

(* The metronome and the blockchain agree on the last id, except while the *)
(* holder of block_mutex has not stored the block just accepted: no two    *)
(* threads, timer or worker, ever extend one height.                       *)
ChainAgrees ==
  chain_id = last_block.id +
    (IF timer = "commit" \/ \E h \in Handlers : hpc[h] \in {"commit", "commit2"} THEN 1 ELSE 0)

(* The blockchain never gets two blocks of one height or skips one.        *)
OneBlockPerHeight == [][chain_id' # chain_id => chain_id' = chain_id + 1]_vars

(* Every submitted block is answered, ...                                  *)
BlockAnswered == \A h \in Handlers : hpc[h] # "idle" ~> hpc[h] = "idle"

(* ... and the timer takes note of every accepted block.                   *)
AcceptedNoticed == ~sleeping ~> sleeping
=============================================================================
