----------------------------- MODULE BlockChain -----------------------------
(* The blockchain process (blockchain.cpp): the chain in memory, the ledger*)
(* folded from it, the YAML document it stores, and restarts.              *)
(*   start      loads genesis, then replays the stored blocks, if a file is*)
(*              named; otherwise it will write to blockchain.yaml, which it*)
(*              never reads                                                *)
(*   add_block  appends, updates the ledger account by account (sync_bal), *)
(*              rewrites the whole file (write_block), replies             *)
(* add_block runs under blockmutex, so one block is added at a time.  The  *)
(* process may stop at any point; memory is then lost, the file stays as   *)
(* far as it was written, and a metronome that was waiting for the reply   *)
(* waits for ever (its REQ socket has no timeout) until it is restarted.   *)
(* The block's confirmation by the pool, after the reply, is in module DSC.*)
(* A transaction is [src, dest, amount]; base58, signatures, timestamps and*)
(* ids, which the ledger does not look at, are left out.                   *)
EXTENDS Naturals, Sequences, SequencesExt, FiniteSetsExt

CONSTANTS Acc,          \* accounts
          Nobody,       \* the all-zero key, the source of rewards
          Modulus,      \* balances wrap: 2^32 in the code
          Bodies,       \* the transaction lists a new block may have
          GenesisBody,  \* the transactions of genesis.yaml
          Garbage,      \* what an uninitialised id may hold
          MaxBlocks,    \* bound: blocks made
          MaxStops      \* bound: how often the process stops

Transactions == [src : Acc \cup {Nobody}, dest : Acc, amount : 0..Modulus - 1]

ASSUME BlockChainAssumption ==
  /\ Nobody \notin Acc
  /\ Modulus \in Nat \ {0}
  /\ Bodies \subseteq Seq(Transactions)
  /\ GenesisBody \in Seq(Transactions)
  /\ Garbage \subseteq Nat /\ Garbage # {}
  /\ MaxBlocks \in Nat
  /\ MaxStops \in Nat

VARIABLES blocks,        \* the chain
          ledger,        \* balances of the accounts seen
          stored_chain,  \* the YAML document, in its order
          file,          \* its last contents on disk
          named,         \* blockchain.file in the configuration is not empty
          step,          \* where add_block is
          nt,            \* sync_bal: the transaction it is at
          src_found,     \* sync_bal: what find(t.src) returned
          tip,           \* the metronome's last block
          hung,          \* the metronome waits for a reply that was lost
          misled,        \* history: the metronome took an id nobody wrote
          loaded,        \* length of the chain when the process started
          made,          \* number of blocks made, the hash of the newest
          stops

memory == <<blocks, ledger, stored_chain>>
local  == <<step, nt, src_found>>
bounds == <<loaded, made, stops>>
vars   == <<memory, file, named, local, tip, hung, misled, bounds>>

Genesis == [id |-> 0, hash |-> 0, prev |-> 0, txs |-> GenesisBody]

Hashes(chain) == {chain[i].hash : i \in DOMAIN chain}

TypeOK ==
  /\ blocks \in Seq([id : Nat, hash : 0..MaxBlocks, prev : 0..MaxBlocks, txs : Bodies \cup {GenesisBody}])
  /\ DOMAIN ledger \subseteq Acc /\ \A a \in DOMAIN ledger : ledger[a] \in 0..Modulus - 1
  /\ \A doc \in {stored_chain, file} :
       doc \in Seq([name : Nat, hash : 1..MaxBlocks, prev : 0..MaxBlocks, txs : Bodies])
  /\ named \in BOOLEAN
  /\ step \in {"down", "idle", "credit", "debit", "write", "flush", "reply"}
  /\ nt \in Nat
  /\ src_found \in BOOLEAN
  /\ tip \in [id : Nat, hash : 0..MaxBlocks]
  /\ hung \in BOOLEAN
  /\ misled \in BOOLEAN
  /\ loaded \in 1..MaxBlocks + 1
  /\ made \in 0..MaxBlocks
  /\ stops \in 0..MaxStops

-----------------------------------------------------------------------------
(* sync_bal.  Both accounts are looked up before either balance changes,   *)
(* and the source only by that lookup: when an account not seen before pays*)
(* itself, it is credited and not debited.                                 *)
Credit(l, t) ==
  [a \in DOMAIN l \cup {t.dest} |->
     IF a # t.dest THEN l[a]
     ELSE IF a \in DOMAIN l THEN (l[a] + t.amount) % Modulus ELSE t.amount]

\* Mutants: balances are signed; an account never seen is not debited.
DebitSigned(l, t, found) ==
  IF t.src = Nobody THEN l
  ELSE [a \in DOMAIN l \cup {t.src} |->
          IF a # t.src THEN l[a] ELSE IF found THEN l[a] - t.amount ELSE 0 - t.amount]
DebitKnownOnly(l, t, found) ==
  IF ~found THEN l
  ELSE [l EXCEPT ![t.src] = (@ + Modulus - t.amount) % Modulus]

\* "this should never happend" is the emplace, which keeps an entry there is.
Debit(l, t, found) ==
  IF t.src = Nobody THEN l
  ELSE IF found THEN [l EXCEPT ![t.src] = (@ + Modulus - t.amount) % Modulus]
  ELSE [a \in DOMAIN l \cup {t.src} |->
          IF a \in DOMAIN l THEN l[a] ELSE (Modulus - t.amount) % Modulus]

SyncBal(l, txs) ==
  FoldLeft(LAMBDA acc, t : Debit(Credit(acc, t), t, t.src \in DOMAIN acc), l, txs)

NoAccounts == [a \in {} |-> 0]

(* write_block.  A block whose name is in the document already replaces    *)
(* the one there, in its place.                                            *)
\* prev_hash is written from b.header.hash.
Stored(b) == [name |-> b.id, hash |-> b.hash, prev |-> b.hash, txs |-> b.txs]

Put(doc, b) ==
  IF \E i \in DOMAIN doc : doc[i].name = b.id
  THEN [i \in DOMAIN doc |-> IF doc[i].name = b.id THEN Stored(b) ELSE doc[i]]
  ELSE Append(doc, Stored(b))

(* start.  A stored block's id is not read back: the header keeps whatever *)
(* is in that place of the stack, the same for every block of the loop.    *)
\* Mutant: the loop reads the first block every time.
LoadedFirst(doc, g) ==
  [i \in DOMAIN doc |-> [id |-> g, hash |-> doc[1].hash, prev |-> doc[1].prev, txs |-> doc[1].txs]]

\* Mutant: the document is read from its end.
LoadedBackwards(doc, g) ==
  [i \in DOMAIN doc |->
     LET e == Reverse(doc)[i] IN [id |-> g, hash |-> e.hash, prev |-> e.prev, txs |-> e.txs]]

Loaded(doc, g) ==
  [i \in DOMAIN doc |-> [id |-> g, hash |-> doc[i].hash, prev |-> doc[i].prev, txs |-> doc[i].txs]]

-----------------------------------------------------------------------------
Init ==
  /\ blocks = <<Genesis>>
  /\ ledger = SyncBal(NoAccounts, GenesisBody)
  /\ stored_chain = <<>>
  /\ file = <<>>
  /\ named \in BOOLEAN
  /\ step = "idle"
  /\ nt = 1
  /\ src_found = FALSE
  /\ tip = [id |-> 0, hash |-> 0]
  /\ hung = FALSE
  /\ misled = FALSE
  /\ loaded = 1
  /\ made = 0
  /\ stops = 0

(* SUBMIT_BLOCK, from a metronome that has no other call outstanding.      *)
AddBlock(txs) ==
  /\ step = "idle"
  /\ ~hung
  /\ made < MaxBlocks
  /\ made' = made + 1
  /\ blocks' = Append(blocks, [id |-> tip.id + 1, hash |-> made + 1, prev |-> tip.hash, txs |-> txs])
  /\ step' = "credit"
  /\ nt' = 1
  /\ UNCHANGED <<ledger, stored_chain, file, named, src_found, tip, hung, misled, loaded, stops>>

Block == Last(blocks)

CreditDest ==
  /\ step = "credit"
  /\ nt <= Len(Block.txs)
  /\ src_found' = (Block.txs[nt].src \in DOMAIN ledger)
  /\ ledger' = Credit(ledger, Block.txs[nt])
  /\ step' = "debit"
  /\ UNCHANGED <<blocks, stored_chain, file, named, nt, tip, hung, misled, bounds>>

DebitSrc ==
  /\ step = "debit"
  /\ ledger' = Debit(ledger, Block.txs[nt], src_found)
  /\ nt' = nt + 1
  /\ step' = "credit"
  /\ UNCHANGED <<blocks, stored_chain, file, named, src_found, tip, hung, misled, bounds>>

SyncDone ==
  /\ step = "credit"
  /\ nt > Len(Block.txs)
  /\ step' = "write"
  /\ UNCHANGED <<memory, file, named, nt, src_found, tip, hung, misled, bounds>>

\* Opening the file for writing empties it.
OpenFile ==
  /\ step = "write"
  /\ stored_chain' = Put(stored_chain, Block)
  /\ file' = <<>>
  /\ step' = "flush"
  /\ UNCHANGED <<blocks, ledger, named, nt, src_found, tip, hung, misled, bounds>>

\* Mutant: the document is written as it was before the block.
FlushedTooEarly == Front(stored_chain)

Flushed == stored_chain

WriteFile ==
  /\ step = "flush"
  /\ file' = Flushed
  /\ step' = "reply"
  /\ UNCHANGED <<memory, named, nt, src_found, tip, hung, misled, bounds>>

(* The metronome gets its STATUS_GOOD and takes the block for the last.    *)
Reply ==
  /\ step = "reply"
  /\ tip' = [id |-> Block.id, hash |-> Block.hash]
  /\ step' = "idle"
  /\ UNCHANGED <<memory, file, named, nt, src_found, hung, misled, bounds>>

(* The process stops.  The output is flushed piece by piece: what is on    *)
(* disk is then the beginning of the document.                             *)
Stop ==
  /\ step # "down"
  /\ stops < MaxStops
  /\ stops' = stops + 1
  /\ file' \in IF step = "flush"
               THEN {SubSeq(stored_chain, 1, n) : n \in 0..Len(stored_chain)}
               ELSE {file}
  /\ hung' = (hung \/ step # "idle")
  /\ step' = "down"
  /\ UNCHANGED <<memory, named, nt, src_found, tip, misled, loaded, made>>

Restart ==
  /\ step = "down"
  /\ LET doc == IF named THEN file ELSE <<>>
     IN  /\ \E g \in Garbage : blocks' = <<Genesis>> \o Loaded(doc, g)
         /\ stored_chain' = doc
  /\ ledger' = FoldLeft(LAMBDA l, b : SyncBal(l, b.txs), NoAccounts, blocks')
  /\ loaded' = Len(blocks')
  /\ step' = "idle"
  /\ UNCHANGED <<file, named, nt, src_found, tip, hung, misled, made, stops>>

(* A metronome that starts asks for the last block.                        *)
RestartMetronome ==
  /\ step = "idle"
  /\ tip' = [id |-> Block.id, hash |-> Block.hash]
  /\ hung' = FALSE
  /\ misled' = (misled \/ \E i \in DOMAIN stored_chain :
                             stored_chain[i].hash = Block.hash /\ stored_chain[i].name # Block.id)
  /\ UNCHANGED <<memory, file, named, local, bounds>>

Next ==
  \/ \E txs \in Bodies : AddBlock(txs)
  \/ CreditDest \/ DebitSrc \/ SyncDone
  \/ OpenFile \/ WriteFile \/ Reply
  \/ Stop \/ Restart \/ RestartMetronome

Spec == Init /\ [][Next]_vars

-----------------------------------------------------------------------------
(* What the balances should be, from the chain alone: each transaction by  *)
(* its block and its place there.                                          *)
Places(chain) == UNION {{i} \X DOMAIN chain[i].txs : i \in DOMAIN chain}

AllTxs == [p \in Places(blocks) |-> blocks[p[1]].txs[p[2]]]

Earlier(p, q) == p[1] < q[1] \/ (p[1] = q[1] /\ p[2] < q[2])

Touches(t, a) == t.dest = a \/ t.src = a

\* An account's first transaction, if it pays itself, only credits it.
Minted(txs, p) ==
  /\ txs[p].src = txs[p].dest
  /\ \A q \in DOMAIN txs : Earlier(q, p) => ~Touches(txs[q], txs[p].src)

Amounts(txs, S) == MapThenSumSet(LAMBDA p : txs[p].amount, S)

Received(txs, a) == Amounts(txs, {p \in DOMAIN txs : txs[p].dest = a})
Sent(txs, a) == Amounts(txs, {p \in DOMAIN txs : txs[p].src = a /\ ~Minted(txs, p)})

\* get_balance: an account without an entry has 0.
Balance(l, a) == IF a \in DOMAIN l THEN l[a] ELSE 0

Matches(l, txs) ==
  /\ \A a \in Acc : (Balance(l, a) + Sent(txs, a)) % Modulus = Received(txs, a) % Modulus
  /\ DOMAIN l = {a \in Acc : \E p \in DOMAIN txs : Touches(txs[p], a)}

Synced == step \in {"idle", "write", "flush", "reply"}

(* The ledger says what the chain says: an account has what it received    *)
(* minus what it sent, modulo the width, however the accounts were met     *)
(* first, after overdrafts and after any number of restarts; and every     *)
(* account of the chain, and no other, has an entry (get_num_addr).        *)
LedgerMatchesChain == Synced => Matches(ledger, AllTxs)

(* Nothing is ever lost from the file of a running blockchain that has     *)
(* a file, unless the metronome was started on an id nobody wrote: after   *)
(* each reply the file holds the whole chain, in order.                    *)
FileIsChain ==
  named /\ ~misled /\ step \in {"idle", "reply"} =>
    [i \in DOMAIN file |-> file[i].hash] = [i \in DOMAIN file |-> blocks[i + 1].hash]
    /\ Len(file) = Len(blocks) - 1

(* A block made after a restart continues the chain that was read back, and*)
(* the chain in memory is linked but for the blocks read back, each of     *)
(* which names itself as its predecessor.                                  *)
LinkedButForLoaded ==
  named /\ ~misled =>
    \A i \in 2..Len(blocks) :
      blocks[i].prev = (IF i <= loaded THEN blocks[i] ELSE blocks[i - 1]).hash

(* Whatever stops when, and whatever ids are made up, a restart invents no *)
(* block and repeats none.                                                 *)
RestartInventsNothing ==
  [][Restart => /\ Hashes(blocks') \subseteq Hashes(blocks)
                /\ \A i, j \in DOMAIN blocks' : blocks'[i].hash = blocks'[j].hash => i = j]_vars

(* README.md:52 has "[x] Make Blockchain Persistent".                      *)
(* A blockchain that has a file and is stopped while it waits for a block  *)
(* comes back with the chain it had, wherever earlier stops fell.          *)
KeepsChain == [][Restart /\ named /\ ~hung => Hashes(blocks') = Hashes(blocks)]_vars
=============================================================================
