------------------------------- MODULE Wallet -------------------------------
(* The commands that change the wallet's two files (dsc.cpp, config.cpp):  *)
(* the configuration file, with the public key, the addresses and the      *)
(* nonce that ids come from, and the key file with the private key.  Each  *)
(* command is a process; they share the files, without a lock, and every   *)
(* update reads a whole file, truncates it and writes it back:             *)
(*   send       takes an id and stores the next; one post                  *)
(*   multi      takes an id, count posts under consecutive ids as a        *)
(*              uint32_t, then stores the id after them; count is any int  *)
(*   create     puts a new pair of keys into the two files                 *)
(*   validator  with proof of memory: stores a fingerprint in the key file *)
(* A command may be killed at any point, and one that does not find what it*)
(* looks for in a file ends with an exception.  Ed25519 (keys.cpp) is left *)
(* out: a signature is good if the two keys are a pair.                    *)
EXTENDS Integers, Sequences, SequencesExt

CONSTANTS Commands,  \* the processes
          FirstKey,  \* the pair of keys at the beginning
          Counts,    \* bound: the counts a send multi may be given
          Width,     \* 2^32 in the code: what a uint32_t holds
          Nonces     \* the nonces the file may begin with

ASSUME WalletAssumption ==
  /\ FirstKey \notin Commands
  /\ Counts \subseteq Int /\ 0 \in Counts
  /\ Width \in Nat \ {0}
  /\ Nonces \subseteq Nat

VARIABLES config,      \* the configuration file; an empty set is a missing entry
          keyfile,     \* the private key in the key file, likewise
          op, count,   \* per command: what it does, how many posts
          pc,
          pub, priv,   \* locals: the keys of the loaded or created wallet
          doc,         \* local: the configuration to be written
          id, sent,    \* locals: the first id, how many are posted
          posted,      \* history: <<source, id>> of what the pool accepted
          overlapped,  \* history: two commands ran at the same time
          cut,         \* history: a send multi ended between its second post and set_tx_id
          wrapped      \* history: an id of a send multi did not fit

files == <<config, keyfile>>
locals == <<op, count, pub, priv, doc, id, sent>>
history == <<posted, overlapped, cut, wrapped>>
vars == <<files, pc, locals, history>>

\* A pair of keys is named for the command that created it.
Keys == Commands \cup {FirstKey}

Empty == [pub |-> {}, addresses |-> FALSE, nonce |-> {}]
Config == [pub : SUBSET Keys, addresses : BOOLEAN, nonce : SUBSET Nat]

\* Where a command goes from a step that cannot fail.
After == [open |-> "write", write |-> "post", reread |-> "reopen",
          reopen |-> "rewrite", rewrite |-> "ended",
          create |-> "clear", clear |-> "openkey", openkey |-> "newkey",
          newkey |-> "fill", fill |-> "ended",
          fingerprint |-> "tear", tear |-> "mend", mend |-> "ended"]

Running == DOMAIN After \cup {"load", "loadkey", "address", "read", "post"}

TypeOK ==
  /\ config \in Config /\ keyfile \subseteq Keys
  /\ op \in [Commands -> {"send", "multi", "create", "validator"}]
  /\ pc \in [Commands -> Running \cup {"new", "ended"}]
  /\ count \in [Commands -> Counts]
  /\ pub \in [Commands -> SUBSET Keys] /\ priv \in [Commands -> SUBSET Keys]
  /\ doc \in [Commands -> Config]
  /\ id \in [Commands -> Nat]
  /\ sent \in [Commands -> Nat]
  /\ \A c \in Commands : sent[c] > 0 => sent[c] <= count[c]
  /\ posted \in Seq(Keys \X Nat)
  /\ overlapped \in BOOLEAN /\ cut \in BOOLEAN /\ wrapped \in BOOLEAN

Init ==
  /\ \E n \in Nonces : config = [pub |-> {FirstKey}, addresses |-> TRUE, nonce |-> {n}]
  /\ keyfile = {FirstKey}
  /\ pc = [c \in Commands |-> "new"]
  /\ op = [c \in Commands |-> "send"] /\ count = [c \in Commands |-> 0]
  /\ pub = [c \in Commands |-> {}] /\ priv = [c \in Commands |-> {}]
  /\ doc = [c \in Commands |-> Empty]
  /\ id = [c \in Commands |-> 0] /\ sent = [c \in Commands |-> 0]
  /\ posted = <<>>
  /\ overlapped = FALSE /\ cut = FALSE /\ wrapped = FALSE

-----------------------------------------------------------------------------
Active == {c \in Commands : pc[c] \in Running}

Goto(c, label) == pc' = [pc EXCEPT ![c] = label]

(* The words of the command line; std::stoi may yield any count, also a    *)
(* negative one.                                                           *)
Start(c, o, n) ==
  /\ pc[c] = "new"
  /\ o # "multi" => n = 0
  /\ op' = [op EXCEPT ![c] = o]
  /\ count' = [count EXCEPT ![c] = n]
  /\ Goto(c, IF o = "create" THEN o ELSE "load")
  /\ overlapped' = (overlapped \/ Active # {})
  /\ UNCHANGED <<files, pub, priv, doc, id, sent, posted, cut, wrapped>>

(* load_wallet reads the one file; a validator has read its addresses ...  *)
LoadConfig(c) ==
  /\ pc[c] = "load"
  /\ pub' = [pub EXCEPT ![c] = config.pub]
  /\ Goto(c, IF op[c] = "validator" /\ ~config.addresses THEN "ended" ELSE "loadkey")
  /\ UNCHANGED <<files, op, count, priv, doc, id, sent, history>>

\* ... and then the other.
LoadKey(c) ==
  /\ pc[c] = "loadkey"
  /\ priv' = [priv EXCEPT ![c] = keyfile]
  /\ Goto(c, CASE pub[c] = {} \/ keyfile = {} -> "ended"
               [] op[c] = "send" -> "read"
               [] op[c] = "multi" -> "address"
               [] OTHER -> "fingerprint")
  /\ UNCHANGED <<files, op, count, pub, doc, id, sent, history>>

(* A send multi reads the pool's address before it takes an id.            *)
GetAddress(c) ==
  /\ pc[c] = "address"
  /\ Goto(c, IF config.addresses THEN "read" ELSE "ended")
  /\ UNCHANGED <<files, locals, history>>

\* Mutant: the next id is not counted up.
NextIdSame(n) == n

NextId(n) == n + 1

\* The id as the command holds it, a uint32_t in a send multi.
Held(c, n) == IF op[c] = "multi" THEN n % Width ELSE n

GetTxId(c) ==
  /\ pc[c] = "read"
  /\ IF config.nonce = {}
     THEN Goto(c, "ended") /\ UNCHANGED <<doc, id, wrapped>>
     ELSE \E n \in config.nonce :
            /\ id' = [id EXCEPT ![c] = Held(c, n)]
            /\ doc' = [doc EXCEPT ![c] = [config EXCEPT !.nonce = {NextId(n)}]]
            /\ wrapped' = (wrapped \/ (op[c] = "multi" /\ n + count[c] >= Width))
            /\ Goto(c, "open")
  /\ UNCHANGED <<files, op, count, pub, priv, sent, posted, overlapped, cut>>

\* Mutant: the old contents stay until the new ones are written.
OpenedKept == config

\* Opening an ofstream truncates the file.
Opened == Empty

OpenConfig(c) ==
  /\ pc[c] \in {"open", "reopen", "clear"}
  /\ config' = Opened
  /\ Goto(c, After[pc[c]])
  /\ UNCHANGED <<keyfile, locals, history>>

WriteConfig(c) ==
  /\ pc[c] \in {"write", "rewrite", "fill"}
  /\ config' = doc[c]
  /\ Goto(c, After[pc[c]])
  /\ UNCHANGED <<keyfile, locals, history>>

OpenKeyFile(c) ==
  /\ pc[c] \in {"openkey", "tear"}
  /\ keyfile' = {}
  /\ Goto(c, After[pc[c]])
  /\ UNCHANGED <<config, locals, history>>

WriteKeyFile(c) ==
  /\ pc[c] \in {"newkey", "mend"}
  /\ keyfile' = priv[c]
  /\ Goto(c, After[pc[c]])
  /\ UNCHANGED <<config, locals, history>>

-----------------------------------------------------------------------------
\* Mutant: one transaction too many.
MoreOffByOne(n, c) == n <= count[c]

More(n, c) == n < count[c]

IdAt(c) == Held(c, id[c] + sent[c])

(* One transaction is posted.  A plain send reads the pool's address only  *)
(* now.  The pool refuses it if the keys are no pair, or if the padding    *)
(* that is signed but not sent differs; then the command ends.             *)
Post(c) ==
  /\ pc[c] = "post"
  /\ op[c] = "send" => config.addresses
  /\ op[c] = "multi" => More(sent[c], c)
  /\ pub[c] = priv[c]
  /\ \E key \in pub[c] : posted' = Append(posted, <<key, IdAt(c)>>)
  /\ IF op[c] = "send" THEN Goto(c, "ended") /\ UNCHANGED sent
     ELSE sent' = [sent EXCEPT ![c] = @ + 1] /\ UNCHANGED pc
  /\ UNCHANGED <<files, op, count, pub, priv, doc, id, overlapped, cut, wrapped>>

PostedAll(c) ==
  /\ pc[c] = "post" /\ op[c] = "multi"
  /\ ~More(sent[c], c)
  /\ Goto(c, "reread")
  /\ UNCHANGED <<files, locals, history>>

\* Mutant: the counter is set back to the first id.
AfterFirst(c) == id[c] + 1

AfterLast(c) == Held(c, id[c] + count[c])

(* What set_tx_id reads it writes back, with the nonce; nothing is missed  *)
(* if the file is empty just then.                                         *)
SetTxId(c) ==
  /\ pc[c] = "reread"
  /\ doc' = [doc EXCEPT ![c] = [config EXCEPT !.nonce = {AfterLast(c)}]]
  /\ Goto(c, After[pc[c]])
  /\ UNCHANGED <<files, op, count, pub, priv, id, sent, history>>

(* create_wallet and the reads of store_wallet.  The key file's buffer is  *)
(* flushed first, as its stream is destroyed first.                        *)
CreateWallet(c) ==
  /\ pc[c] = "create"
  /\ doc' = [doc EXCEPT ![c] = [config EXCEPT !.pub = {c}]]
  /\ pub' = [pub EXCEPT ![c] = {c}]
  /\ priv' = [priv EXCEPT ![c] = {c}]
  /\ Goto(c, After[pc[c]])
  /\ UNCHANGED <<files, op, count, id, sent, history>>

(* set_validator_fingerprint is given the key file, and so is              *)
(* get_validator_memory, which finds no memory there and throws.           *)
SetFingerprint(c) ==
  /\ pc[c] = "fingerprint"
  /\ priv' = [priv EXCEPT ![c] = keyfile]
  /\ Goto(c, After[pc[c]])
  /\ UNCHANGED <<files, op, count, pub, doc, id, sent, history>>

(* The process is killed, it throws, or a post is refused or fails.  The   *)
(* ids of a multiple send after its first are in no file until set_tx_id   *)
(* has written; once that has emptied the file there is no counter at all. *)
Kill(c) ==
  /\ pc[c] \in Running
  /\ Goto(c, "ended")
  /\ cut' = (cut \/ (sent[c] > 1 /\ pc[c] # "rewrite"))
  /\ UNCHANGED <<files, locals, posted, overlapped, wrapped>>

Send(c) == GetAddress(c) \/ GetTxId(c) \/ Post(c) \/ PostedAll(c) \/ SetTxId(c)

Command(c) ==
  \/ \E o \in {"send", "multi", "create", "validator"}, n \in Counts : Start(c, o, n)
  \/ LoadConfig(c) \/ LoadKey(c) \/ Send(c) \/ CreateWallet(c) \/ SetFingerprint(c)
  \/ OpenConfig(c) \/ WriteConfig(c) \/ OpenKeyFile(c) \/ WriteKeyFile(c)
  \/ Kill(c)

Next == \E c \in Commands : Command(c)

Spec == Init /\ [][Next]_vars

-----------------------------------------------------------------------------
(* A negative count posts nothing, and set_tx_id(id + count) then sets the *)
(* counter back behind ids that were posted.                               *)
NoneNegative == \A c \in Commands : count[c] >= 0

(* One after the other, commands never post a source and id twice, whatever*)
(* their mixture and wherever they are killed, but for three ways in which *)
(* the code does repeat ids: a multiple send that is cut off behind its    *)
(* second post, one whose ids do not fit, one with a negative count.       *)
UniqueOneByOne == ~overlapped /\ ~cut /\ ~wrapped /\ NoneNegative => IsInjective(posted)

(* The counter is never behind an id that was posted, unless commands      *)
(* overlapped or one of the same three happened.                           *)
CounterAhead ==
  ~overlapped /\ ~cut /\ ~wrapped /\ NoneNegative /\ Active = {} =>
    \A n \in config.nonce : \A i \in DOMAIN posted : posted[i][2] < n

(* Unless commands overlapped, the two files never hold keys that are no   *)
(* pair, wherever a command was killed: store_wallet empties both before it*)
(* fills either.  A wallet can be lost, but what it signs is accepted.     *)
KeysMatch == ~overlapped => \A key \in config.pub, secret \in keyfile : key = secret
=============================================================================
