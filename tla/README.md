# A TLA+ model of MEMO-coin (DSC)

DSC is a small centralised blockchain: four kinds of processes talk by synchronous
ZeroMQ REQ/REP calls. This directory holds TLA+ modules for its control logic, TLC
configurations that check them on small instances, and TLAPS proofs of the main
results for every value of the constants. File names below are under `src/src/`.

## The system

| component | state | operations | calls |
|---|---|---|---|
| transaction pool, `tx_pool.cpp` | submitted and unconfirmed queue, a set beside each, `tx_lock` | `POST_TX`, `POP_TX`, `CONFIRM_BLOCK`, `QUERY_TX_STATUS`, `QUERY_TX_COUNT` | the blockchain, from a status query, holding `tx_lock` |
| blockchain, `blockchain.cpp` | chain, ledger, YAML document and its file, `blockmutex` | `SUBMIT_BLOCK`, `QUERY_LAST_BLOCK`, `QUERY_TX_STATUS`, `QUERY_BAL`, `QUERY_NUM_ADDRS`, `QUERY_COINS` | the pool (`CONFIRM_BLOCK`), after its reply, holding `blockmutex` |
| metronome, `metronome.cpp` | last block, difficulty, `sleeping`, solved times, validator count, `block_mutex`, `diff_mutex`, a condition variable | `SUBMIT_BLOCK`, `QUERY_DIFFICULTY`, `REGISTER_VALIDATOR`, `QUERY_NUM_VALIDATORS`; a timer thread that submits empty blocks | the blockchain, holding `block_mutex` |
| validator, `validator.cpp` | header it mines on, its batch | take the newest header, solve, pop a batch, submit the block | blockchain, metronome, pool |
| consensus, `pow.cpp`, `pom.cpp` | (PoM) a sorted table of hashes | search for a solution before the round's time is over | |
| wallet commands, `dsc.cpp`, `config.cpp` | configuration file with public key, addresses and the id counter; key file with private key and fingerprint | create, key, balance, send, send multi, transaction; start of a validator | pool, blockchain |
| server, `server.cpp` | a ROUTER/DEALER proxy, one REP socket and one `server_loop` per worker thread, a stop flag | deal requests to the workers in turn, stop | |
| thread pool, `thread_pool.cpp` | job queue, `queue_lock`, a condition variable, an interrupt flag | queue a job, take one, shut down | |
| monitor, `monitor.cpp` | | print counts | all |

A block's way: a validator asks the blockchain for the last header, solves it, pops
transactions from the pool, and submits to the metronome. The metronome checks only
that the id is its last block's id plus one, and forwards to the blockchain, which
checks nothing: it appends, updates the ledger, rewrites the file, **replies**, and
only then has the pool confirm the block. If nothing is accepted within `BLOCK_TIME`
the metronome's timer thread submits an empty block.

What is hard here, and what each component has to get right:

- *Pool*: one confirmation walks over the batches of all validators and requeues those
  that are not in the block. No transaction may be lost or doubled by any sequence of
  pops, refused blocks and confirmations. The sets answer status queries and have to
  agree with the queues, at each step, since the count is read without the lock.
- *Blockchain*: the chain is linked and only grows; the ledger is what the chain says,
  with overdrafts, wrapping and self-payments; a restart brings the chain back.
- *Metronome*: one block per height although workers and the timer race; no lost
  wakeup; difficulty that follows the blocks; every request answered.
- *Validators*: they may stop, be refused or mine on an old header at any time.
- *Between processes*: the metronome's copy of the tip, the late confirmation, and the
  two calls in opposite directions that pool and blockchain make under a mutex.
- *Servers*: every worker gets its loop although notifications may find nobody waiting;
  flags and the count of validators are shared without a lock.
- *Consensus*: a round ends for every difficulty, and a solution is what it claims to be,
  although bytes are added without a carry and bits are counted in two orders.
- *Wallets*: source and id identify a transaction, so ids must not be used twice, by
  processes that share a counter in a file; two files have to hold one pair of keys.

`PROJECT.json` lists these hazards with their lines and the properties aimed at each.

## Modules

| module | models | run through |
|---|---|---|
| `TxPool` | the pool; validators' batches and appended blocks are its environment | `MCTxPool` |
| `TxLifecycle` | abstract: the status a client sees of a transaction | refined by `TxPool` |
| `ChainLog` | abstract: an append-only log of linked blocks | refined by `DSC` |
| `DSC` | validators, metronome, blockchain and `INSTANCE TxPool`, composed | `MCDSC` |
| `Metronome` | the metronome with its clock, condition variable and difficulty | `MCMetronome` |
| `BlockChain` | ledger, stored document, stop and restart | `MCBlockChain` |
| `Workers` | worker threads, dealing and the calls under mutexes | `MCWorkers` |
| `ThreadPool` | job queue, waiting threads, the destructor | extended by `Server` |
| `Server` | `server_loop` on the thread pool, its stop flag, registration of validators and their blocks | `MCServer` |
| `HashBits` | hashes as bytes, and the order of their bits | the next three |
| `PomSearch` | proof of memory: the search in the table of hashes | itself, `Consensus` |
| `PowSearch` | proof of work: attempts until the deadline | `Consensus` |
| `Consensus` | a validator's round with either search, and what it makes of the answer | `MCConsensus` |
| `Wallet` | the commands that change the wallet's two files | `MCWallet` |
| `TxPoolProofs`, `DSCProofs`, `MetronomeProofs`, `BlockChainProofs`, `WorkersProofs`, `ServerProofs`, `ConsensusProofs`, `WalletProofs` | theorems about the module in their name | |

How they correspond to the code:

**TxPool.** The four containers keep their names; a transaction is its (source, id)
pair, which is all that `operator==` and `TxHash` look at. Handlers hold `tx_lock` from
first line to reply and are single actions (`AddTransaction`, `RefuseTransaction`,
`Pop`, `QueryKnown`), except `confirm_transactions`, one action per iteration
(`ConfirmBegin`, `ConfirmStep`, `ConfirmEnd`), and the slow half of `query_tx_status`
(`QueryChain`, `QueryReply`), because other processes can act in between. `Pop`
is a single action: only `query_tx_count`, which is not modelled, could look into its
loop. Whether a signature is good is a choice. A key may be posted repeatedly, as
the pool accepts it. `TxLifecycle` is what the enumeration of statuses promises a client:
unknown, submitted, unconfirmed (and back), confirmed for good. The pool maps to it by
what a query would answer (`Reported`); only keys in `repeated` may move otherwise.

**DSC.** A validator's `vpc` is its place in `Validator::start`; `curr_block` is `None`
for `UINT32_MAX`; `held` is its batch. A call is in `mail` (to the metronome) or `rpc`
(from it) until answered. `block_mutex` names the holder. `AddBlock` appends and
replies; `Pool!ConfirmBegin` ... `ConfirmEnd` follow, and `block` is occupied until
then, as `blockmutex` is. A block's hash stands for (maker, id). Time is abstracted: the
timer may run out whenever it waits. Blocks are never refused by the blockchain.
`QueryStatus` and `TxStatus` are the two halves of a status query that goes on to the
blockchain: `tx_lock` is held in between, so no confirmation can begin. `behind` says
whether the query was dealt to a worker of the blockchain that is busy with a block
(`AddingBlock`); which worker that is, and how the dealer comes to it, is in `Workers`. Then
the query is not answered before the block is done, and the block, or the next one, waits
for the pool: `Circle`.

**Metronome.** `deadline`, `WakeUp` and `SpuriousWakeUp` are `wait_until`: it reports a
timeout iff the clock is past the deadline when the mutex has been taken again. The
critical section of `handle_block` is three actions because `update_difficulty` reads
the two solved times without the mutex; they start as any value of `Garbage`. `ToInt`
is the narrowing at line 93. A `STATUS_BAD` from the blockchain is modelled as the code
handles it, although this blockchain never sends one.

**BlockChain.** `CreditDest`/`DebitSrc` are the halves of one iteration of `sync_bal`,
`src_found` the iterator taken before the credit. `OpenFile` is the truncating
`ofstream`, `WriteFile` its flush; `Stop` in between leaves a prefix of the document,
block by block. `Restart` is constructor and `start`; ids read back are any value of
`Garbage`, the same for all blocks of the loop. `named` is whether the configuration
names a chain file: the shipped `dsc-config.yaml` does not, and the code then writes
`blockchain.yaml` and never reads it. `RestartMetronome` is the metronome's constructor.
`Stored` keeps a block's own hash under `prev`, as line 104 does; `loaded`
remembers how many blocks came from the file. What the ledger should hold is stated without
the fold: `AllTxs` has each transaction of the chain under its place (block and index), and
`Received` and `Sent` are sums over places.

**Workers.** A request stays at the head of its worker's queue until done. The DEALER's
round robin is `pool_next`, `chain_next`. What handlers do to data is left to the other
modules; what they block on is kept.

**ThreadPool, Server.** The owner is the thread that constructs the pool, queues one job
per thread (`QueueJob`, then `NotifyOne` without the lock) and may destroy it
(`SetInterrupt` without the lock, `NotifyAll`, `Join`). A thread that finds nothing to do
keeps `queue_lock` between `Test` and `Wait`; `missed` remembers who was there when all
were notified. As the jobs are all alike, the queue is their number. A job is a
`server_loop`, which reads the server's flag only between two requests. Of the handlers,
`register_validator` is here, as the read and the write of `active_validators`
(`RegisterRead`, `RegisterWrite`) that no mutex joins; `overlapped` remembers that two
threads were in it together. A validator that is registered submits blocks (`Request`), and
`HandleBlock` does what `handle_block` does to the count: nothing. The rest of
`handle_block` is in `Metronome`.

**HashBits, PomSearch, PowSearch, Consensus.** `Exp2` is `1 << n`; `Bit` is the order `check_prefix` and
`check_leading_zeros` count bits in; `Less` of `PomSearch` the order of `std::array`, by
which the table is sorted. Table, target, base and difficulty are arbitrary.
`NextInput` adds each byte of the nonce to a byte of the base, cut to a byte. BLAKE3 is an
oracle: a new input has any hash of `Digests`, a repeated one the hash it had. `Expired`
may come before any attempt. `Consensus` instances both searches on the same `pc` and
`difficulty`; `Judge` is `is_null_hash` with the branch after it. A difficulty beyond the
hash throws in both searches, which ends the validator.

**Wallet.** One action per read of a file, truncation, rewrite and post, for `send`,
`send multi`, `create` and the start of a validator that stores its fingerprint. An empty
set is an entry that is missing; a command that misses one ends, as the exception ends
it, except where the code would not notice. `id` of a multiple send is cut to `Width`, as
a `uint32_t` cuts it. Its `count` is any integer, as `std::stoi` yields it: a negative one
posts nothing and lets `set_tx_id` set the counter back. `Kill` ends a process anywhere, also
for a failed post; `cut` remembers a multiple send that ended between its second post and the
moment `set_tx_id` empties the file, the only time at which the file holds a counter that is
behind a posted id.

## Runs

Twelve runs, nine of which pass:

| run | question | instance |
|---|---|---|
| `txpool` | is anything lost, doubled or misreported; do statuses keep their order; are abandoned batches resolved? | 2 keys posted up to twice, 2 validators, batches of 1 |
| `dsc_safety` | linked append-only chain, correct tip, double inclusion only by the race | 1 key, 2 validators and timer, 3 heights |
| `dsc_liveness` | is every block answered and does the chain grow, but for the circle? | 2 validators and timer, 2 heights, status queries |
| `metronome` | lost wakeups, difficulty bounds, agreement on the height, answered and noticed blocks | 2 workers, 3 ticks, 3 heights, 8-valued int |
| `blockchain` | ledger = fold of the chain, file = chain, links across restarts, restarts invent nothing | 2 accounts, balances mod 4, 5 blocks, 3 stops |
| `workers` | is the circle the only way to hang? | 2 pool and 3 blockchain workers, 2 clients, 4 blocks |
| `server` | does every loop run, who is left behind by a shutdown, when is the count wrong? | 3 threads, 3 validators with any number of blocks, shutdown at any time |
| `consensus` | does a round end, is what is mined a solution, what can be missed? | all sorted tables of up to 3 hashes of 2 bytes of 2 bits; every base, up to 5 attempts, 4 digests; every difficulty |
| `wallet` | unique ids one by one, counter ahead, matching keys | 3 commands of any kind, multiple sends of -1 to 2 transactions, ids of 5 values |

Three state what a comment, a message or the README says, and TLC finds it violated;
`PROJECT.json` has a finding for each of them and one for `server` (below):

| run | what is said | what the code does |
|---|---|---|
| `dsc_twice` | a transaction is requeued "if element was not in confirmed set" (`tx_pool.cpp:86`) | a validator popped it under the new header before the late confirmation requeued it: included twice |
| `blockchain_ids` | "Make Blockchain Persistent" is ticked (README) | ids are not read back, the next block can take a stored block's name and replace it |
| `pom_bits` | "No solution found" (`pom.cpp:112`) | bits are counted from the other end than the table is sorted by |

Each of the three is the exception that a passing property names: `TwiceOnlyIfRaced`,
`FileIsChain` (`misled`) and `WholeBytesNotMissed` say that nothing *else* breaks the
claim. In `blockchain_ids` the shortest trace has its first stop in the write of the file
and its second between two blocks: what is lost is the block that was read back and then
overwritten.

Two more flaws are exceptions that passing properties name. The circle of `tx_lock` and
`blockmutex` is in `workers`, where `AnsweredUnlessCircle` fails when its last disjunct is
taken out, and in `dsc_liveness`: once it has closed the next `SUBMIT_BLOCK` waits for ever
with `block_mutex` taken, so `SubmitAnsweredUnlessCircle` and `ChainGrowsUnlessCircle`
fail without it too. And `UniqueOneByOne` and `CounterAhead` name the ways to repeat an id.

`metronome.cpp:174` and `monitor.cpp:48` say that the number of validators is reset at each
block. It is not: `CountExactUnlessOverlapped` of `server`, which holds, says that it is the
number of all validators registered since the start, through every block. Its mutant,
`CountReset`, is what the comments say.

What the properties say:

- `SetsSound`, `Tracked`, `SingleCopy`: sets within queues; no accepted transaction is
  nowhere; a key posted once has one place. `UnknownOnlyIfNeverAccepted`: the two-step
  status query never misses a transaction on the move. `RewardBlockDrains`: a block with
  a reward empties the unconfirmed queue, hence `BatchesResolved`. `LifecycleSpec`: the
  pool implements `TxLifecycle`.
- `LogSpec` (refinement of `ChainLog`), `MetronomeTracksChain`, `TwiceOnlyIfRaced`;
  `SubmitAnsweredUnlessCircle` and `ChainGrowsUnlessCircle`.
- `NoLostWakeup`, `DifficultyBounded` (it rises at most once per accepted block),
  `ChainAgrees`, `BlockAnswered`, `AcceptedNoticed`.
- `LedgerMatchesChain` holds through overdrafts, wrapping, restarts and, as the code has
  it, an account whose first transaction pays itself and only credits it (genesis does).
  `LinkedButForLoaded`: blocks made now continue the chain, those read back name
  themselves. `RestartInventsNothing`: a restart adds and repeats no block.
- `CircleIsForever`: once closed, the circle of the two mutexes never opens.
- `LeftBehindOnlyIfMissed`: a thread waits while it is joined only if it was between its
  test and its wait as all were notified. `EveryLoopRuns`: whatever order jobs are queued,
  announced and taken in, each thread ends up with a loop. `CountExactUnlessOverlapped`.
- `MinedIffSolved`: what is mined has the bits asked for, and a round of proof of work
  gives up only without a solution (but for the all-zero input). `NoInputRepeated`,
  `WholeBytesNotMissed`, `RoundEnds`.
- `UniqueOneByOne`, `CounterAhead`: up to overlapping commands, a multiple send cut
  off behind its second post, ids that did not fit, or a negative count (`NoneNegative`);
  without any one of these exceptions both fail. `KeysMatch`: wherever commands are killed,
  the files never hold keys that are no pair, unless commands overlapped, when they may.

Why the bounds are enough. Every run lets its hazard happen, which its mutant in
`PROJECT.json` shows: one plausible change of a definition, and TLC reports the
property. Two validators and the timer are the least with which a refused block, an
abandoned batch and a race of three for a height occur; three heights let a late
confirmation meet a pop two blocks later. Two keys let a confirmation find one and
requeue the other. Batches of one (`BLOCK_SIZE = 2`) split what one batch would hide.
Balances modulo 4 wrap by overdraft and by credit; three stops let a restart follow a
restart that was cut off in a write. A blockchain with three workers gives the dealer a
turn both on and off the blocked worker. Of three threads one may be testing, one waiting
and one taking a job. Five attempts of bytes of two bits bring the nonce to its second
byte. Three commands let two that overlap or are cut off be seen by a third, and a width of
5 with a first id of 4 lets ids wrap; a count of -1 sets the counter back by one id, which
is enough to repeat one. In `dsc_liveness` no key is posted (`MaxPosts = 0`), so that every
query is one that goes on to the blockchain; with keys the graph is too large for a liveness
check, and what a confirmation does with them is in `txpool`. The counters bounded are `MaxPosts`, `MaxHeight`,
`MaxTime`, `MaxBlocks`, `MaxStops`, `Counts`, `MaxTable`, `MaxNonce`; `Width`,
`Modulus`, `INT_RANGE`, `BitsPerByte` and `BytesPerHash` are sizes the code fixes.
Deadlock checking is off everywhere: models stop at these bounds, and a search, a
command or a destroyed pool ends. Hanging is instead ruled out by the liveness properties.

## Fairness

- `TxPool`: the holder of the lock runs on and the blockchain answers (weak); a
  confirmation that keeps finding the mutex free gets it (strong). Clients and
  validators need not act. `BatchesResolved` assumes explicitly that validators' blocks
  keep arriving, since an empty block may leave a batch where it is.
- `DSC`: the metronome's and the pool's threads as above, strong where a mutex is
  contended; the blockchain adds a block and answers a query when nothing blocks it (weak).
  No validator is assumed to do anything, and no client to ask. A blockchain that has died
  never answers, and as its callers have no timeout they wait for ever; it is in no model.
- `Metronome`: strong fairness of the timer and of each worker; the clock may stand still.
- `Workers`: strong fairness of each worker thread.
- `Server`: strong fairness of the owner and of each thread. Nobody has to register, to
  submit a block or to shut the server down.
- `Consensus`: the validator's one thread runs.
- `BlockChain`, `Wallet`: none; their properties are about safety.

The strong fairness is an assumption about `std::mutex`: C++ does not promise that a thread
contending for it is not overtaken for ever. Without it no request of this code, which
takes its mutexes in this way everywhere, would be sure of an answer. No fairness is
assumed of people, the network's ends, failures or spurious wakeups.

## Proofs

For any sets of keys, validators, clients, accounts, commands, worker numbers, hashes and
bounds (finite where a module says so), from the named assumption on its constants in each
module. **Every invariant and every action property that a passing run checks is also a
theorem**, and so are the refinements of `TxLifecycle` and `ChainLog`. Each module of proofs
has an inductive invariant with one lemma per action or group of actions, and the theorems
follow from it.

*TxPoolProofs.* `IInv` has the types, `SetsSound`, `Tracked`, and two strengthenings.
`ConfirmInv` says that while a confirmation runs, what is left of the local set is part of
the block being confirmed, and that block is on chain: without it a transaction dropped by
the loop could be nowhere. `QueryInv` says that a key the slow query has not found stays
unfound while the lock is held. From it follow `TypeCorrect`, `SetsAreSound`,
`NothingLost`, `UnknownMeansUnknown` and `RewardDrains`. The last needs that the reward is
in no queue, so the loop cannot end by emptying the block's set. `LInv` adds `CopyInv` (a
key posted once is once in at most one queue, and in the set beside it) and `PostedInv` (a
key never posted is nowhere). From `LInv` follow `OneCopy` and, by cases over the
actions, `StatusesObeyLifecycle`, the refinement of `TxLifecycle`. The lemmas on sequences
at its beginning say what elements `Append`, `Tail`, a split and a concatenation leave and
how often each occurs.

*DSCProofs.* `SystemHasPool` shows by cases over the system's actions that each is a
step of `TxPool` or leaves it alone, so every theorem about the pool holds in the system:
`NothingLostInSystem`, `LifecycleInSystem`. The system's own `IInv` has the chain's links (`ChainInv`), where
each validator's header can come from (`MiningInv`: an existing header of the chain),
who may have a call outstanding (`RpcInv`: exactly the holder of `block_mutex`, whose
block extends the tip while the call is under way), which validators hold a batch
(`HeldInv`), and `MetronomeTracksChain`. `RpcInv` is what links a check made before the
call to an append made after it. From these: `SystemTypeCorrect`, `ChainIsLinked`,
`MetronomeFollows`, and `ChainIsLog`, the refinement of `ChainLog`; and
`HolderGoesOnUnlessCircle`, the safety half of `SubmitAnsweredUnlessCircle` and
`ChainGrowsUnlessCircle`: while `block_mutex` is held, its holder, the blockchain, the
pool's confirmation or the status query that holds `tx_lock` can go on, unless that query
waits behind a block; a query is behind only while there is a block to be behind of
(`BehindInv`). The other side is `ChainEndsInCircle`: once the circle has closed, no step of
anybody opens it or appends a block.

`TwiceNeedsRace`: a key posted once is in the chain twice only after the
race that `dsc_twice` shows. `OnceInv` says where such a key is: in the submitted queue,
in the batch of one validator whose block can still be accepted, or in one block of the
chain. `BatchInv` is why a batch cannot be carried over to a later block: a validator holds
one only while its block is under way, and after an append no block under way can be
accepted. The pool's invariants are taken from `TxPoolProofs` through `SystemHasPool`.

*MetronomeProofs.* `MutexInv` (one holder of `block_mutex`, and where it is) and `InHand`
(the holder's block goes on top of `last_block`) give `NoWakeupLost`, `DifficultyPaidFor`,
`HeightAgreed`, `MetronomeTypeCorrect` and `HeightsInOrder`: the blockchain gets one block
per height, in order (`OneBlockPerHeight`, which is proved and not run).

*WorkersProofs.* `QueryInv` and `ConfirmInv`: there is at most one status query at the
blockchain and one confirmation at the pool, and its sender holds the mutex while its own
request stays at the head of its queue. Hence `CircleNeverBreaks`: the two requests that
could free the mutexes wait behind the two workers that hold them. `WaitInv` is the other
side: a mutex is held only while its call is dealt to a worker, and whoever waits has a
request in a queue, the metronome one whose `add_block` has not begun. Hence
`OnlyTheCircleBlocks`: while anybody waits, some worker can go on unless the circle is
closed. It is the safety half of `AnsweredUnlessCircle`.

*ServerProofs.* `LeftInv`: after the notification a thread tests or waits only if it is in
`missed`, as the flag is up. `InboxInv`: a validator's request is in one place. `CountInv`:
what a handler has read is no more than were registered, and exactly that unless another was
between read and write; a block in between changes neither. From these `ServerTypeCorrect` (with it, that no job is queued too
many), `OnlyMissedAreLeft`, `CountIsExact`. `WakeInv` counts: while a thread waits there are
as many at the lock as jobs, but for the one whose notification is still to come, since a
thread that has tested holds the lock and nothing can be queued before it waits. This is
`NoJobIsForgotten`, what `EveryLoopRuns` rests on.

*BlockChainProofs.* `DocInv`: the document has each block once under a name of its own.
`KeptInv`: while the metronome counts on from ids that were written, the document is the
chain block by block under its heights, and the file is the document or, after a stop in a
write, its beginning. From these `FileHoldsChain`, `ChainStaysLinked`, `NothingInvented`.
`LedgerFollowsChain` is about the fold. `LedgerInv` says what the ledger is at each point of
`add_block`: that of the chain up to the transaction `nt` (`Upto`), and between the two
halves of an iteration that ledger with the credit made, `src_found` being the lookup before
it; without this the debit would not know whose absence it stands for. `MatchesWith` is the
step: one transaction does to the balances, modulo the width, what it does to the sums, in
each of the cases known or unknown source, reward, payment to oneself. A restart is the same
step once per transaction of each block read back (`ReplayMatches`). `BlockChainTypeCorrect`
has a pigeonhole argument: hashes are distinct, so no restart loads more than was made.

*WalletProofs.* `OpInv`: at which steps each command can be. `AloneInv`: unless commands
overlapped, one is active. `KeysInv`: what a command is about to write to either file fits
what the other holds or is about to hold, for `KeysAlwaysMatch`. `IdsInv`: while commands run
one by one, whole, with ids that fit and counts that are not negative, the id in hand and every counter that is or will be in
the file are beyond all ids posted, but for a multiple send that still has its `set_tx_id` to
do; for `IdsUnique` and `CounterIsAhead`.

*ConsensusProofs.* The search in the table rests on the order of hashes: `Less` is a strict
order, and between two entries of a sorted table that agree with the target in their first
bytes every entry does. `PomInv`: until one is found, every entry that agrees in whole bytes
lies between the bounds. `PowInv`: no input tried before the last was a solution, but for the
all-zero one. `CountInv`: as many inputs were tried as the nonce says, each from an earlier nonce.
`DigitsDetermine`: a number below a power is determined by its
digits, so bytes added without a carry repeat no input as long as the nonce itself does not
wrap. That is `MaxNonce <= Exp2[BitsPerByte * NonceBytes]` in the assumption: no round makes
2^64 attempts. From these `ConsensusTypeCorrect`, `MinedSolutions`, `WholeBytesFound`,
`InputsAreNew`.

*Recursion in BlockChainProofs and ConsensusProofs.* `Exp2`, and the folds of the community modules behind
`SyncBal`, the replay and the sums, are functions defined by recursion, of which TLA+
only says that they are equal to their definition if something is. So the proofs first show that
something is (`PowersExist`, `FoldExists`): the smallest set, or number, on which such a function
did not exist could be built from the next smaller ones. The same least-element argument
(`LeastNat`, `LeastSet`, from the library's well-founded orders) stands in for induction
throughout, as the library's induction theorems take an operator as a parameter, which the
provers cannot instantiate. It also gives that a sum does not depend on the order in which it is
taken (`SumTakes`), so a transaction can be added to it last.

Only model-checked: the liveness properties (`BatchesResolved`, `SubmitAnsweredUnlessCircle`,
`ChainGrowsUnlessCircle`, `BlockAnswered`, `AcceptedNoticed`, `AnsweredUnlessCircle`, `EveryLoopRuns`,
`RoundEnds`), since these provers have neither ENABLED nor fairness; and the three violated
claims, each of which TLC refutes by an example.

## Not modelled

- Requests that only read: in `DSC` the status queries that the pool answers itself (they are
  in `TxPool`), the difficulty, balances, and the counts the monitor prints (transactions, coins,
  addresses), some of which are read without a mutex. `query_tx_count` reads two sizes
  while a pop moves transactions between the queues: following the pop element by element
  for it makes the pool too large to check together with the rest.
- Hashing, Ed25519, base58, alpaca, ZeroMQ framing: libraries, or a choice of outcome. A
  signature also covers struct padding that is not sent; any post may be refused for it.
- The memory effects of unlocked readers of the vector and the ledger (`last_block`,
  `tx_status`, `get_balance`): undefined behaviour with no small set of outcomes.
- A file cut inside a block, and stored transaction ids above 2^32: both make `start` throw.
- Malformed requests: `request_handler` throws and the process ends.
- How a running program would stop: `Server::start` never returns, so the destructor that
  `Server` models runs only when it throws. It is modelled as the classes define it.
- How the table of proof of memory is made (`gen_hashes`): any sorted table. The size in GB
  overflows an `int` from 3 on; the table's size is arbitrary anyway.
- `verify_solution` of proof of memory, which nothing calls.
- The monitor, printing, build files, scripts and vendored code.

## Plan

Done, in this order: `TxPool`, `ChainLog`, `DSC`, `Metronome`, `BlockChain`, `Workers`,
`Wallet`, `PomSearch`; `TxPoolProofs`, `DSCProofs`; then `TxLifecycle`, `ThreadPool`,
`Server`, `PowSearch`, `Consensus`, the wallet's key file and the remaining commands, the
links across restarts; `TwiceNeedsRace`, `MetronomeProofs`, `WorkersProofs`, `ServerProofs`,
`BlockChainProofs`; then `WalletProofs`, `ConsensusProofs` and the ledger.

To model:
1. A restart of the whole system: blockchain, metronome and validators restarted in any
   order, with validators that wait for a newer id than the chain has.
2. `query_tx_count` and `get_total_coins` as their separate reads.
3. Claims that these models already show to be doubtful, each to be settled by a run:
   that difficulty is lowered only for a block not solved in time and raised only after a
   fast one (`metronome.cpp:98`, `:112`), that a stop between truncating and flushing the
   chain file loses nothing (`blockchain.cpp:120`), that stored blocks name their
   predecessor (`:104`), that a source always has a ledger entry (`:89`).

To prove: of what the runs check only liveness is left, which stays with TLC. Three further
invariants, `OnlyTheCircleBlocks`, `NoJobIsForgotten` and `HolderGoesOnUnlessCircle`, prove the
safety that three of those liveness properties rest on; the same for the validator's
rounds (`RoundEnds`) and the metronome's timer would be next.
