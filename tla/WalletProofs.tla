---------------------------- MODULE WalletProofs ----------------------------
(* Theorems about module Wallet for any number of commands, any width of   *)
(* an id and any nonces the file may begin with.                           *)
EXTENDS Wallet, TLAPS

\* The steps from the read of the id on, and those of a create.
Posting  == {"post", "reread", "reopen", "rewrite"}
Sending  == {"open", "write"} \cup Posting
Creating == {"clear", "openkey", "newkey", "fill"}

(* What a command is doing at a step tells which command it is; only a     *)
(* multiple send posts more than once.                                     *)
OpInv ==
  \A c \in Commands :
    /\ pc[c] \in {"read", "open", "write", "post"} => op[c] \in {"send", "multi"}
    /\ pc[c] \in {"address", "reread", "reopen", "rewrite"} => op[c] = "multi"
    /\ pc[c] \in Running \ Posting => sent[c] = 0
    /\ pc[c] = "new" \/ op[c] # "multi" => sent[c] = 0
    /\ pc[c] = "new" => count[c] = 0

\* Unless commands overlapped, there is one at a time.
AloneInv == ~overlapped => \A c, d \in Active : c = d

(* Whatever a command is about to write to one file fits what the other    *)
(* file holds, or will hold when it is written.                            *)
Pair(public, secret) == \A key \in public, k \in secret : key = k

KeysOf(c) ==
  /\ pc[c] \in {"open", "write", "reopen", "rewrite"} => Pair(doc[c].pub, keyfile)
  /\ pc[c] \in Creating => doc[c].pub = {c} /\ priv[c] = {c}
  /\ pc[c] \in Creating \ {"clear"} => config.pub = {}
  /\ pc[c] = "fill" => keyfile = {c}
  /\ pc[c] \in {"tear", "mend"} => Pair(config.pub, priv[c])

KeysInv == ~overlapped => Pair(config.pub, keyfile) /\ \A c \in Commands : KeysOf(c)

(* As long as commands run one by one, whole, with ids that fit and counts *)
(* that are not negative, the next id of the one that posts is beyond      *)
(* every id posted, and so is each counter that is or will be in the file, *)
(* unless a multiple send is still to write it.                            *)
Counted == ~overlapped /\ ~cut /\ ~wrapped /\ NoneNegative

Beyond(n) == \A i \in DOMAIN posted : posted[i][2] < n

IdsOf(c) ==
  /\ pc[c] \in Sending => Beyond(id[c] + sent[c])
  /\ pc[c] \in Sending /\ op[c] = "multi" => id[c] + count[c] < Width
  /\ pc[c] \in {"open", "write"} => doc[c].nonce = {id[c] + 1}
  /\ pc[c] \in Posting \ {"rewrite"} => config.nonce = {id[c] + 1}
  /\ pc[c] = "rewrite" => config.nonce = {}
  /\ pc[c] \in Posting \ {"post"} => sent[c] = count[c]
  /\ pc[c] \in {"reopen", "rewrite"} => doc[c].nonce = {id[c] + count[c]}
  /\ pc[c] \in Creating => \A n \in doc[c].nonce : Beyond(n)

IdsInv ==
  Counted =>
    /\ IsInjective(posted)
    /\ \A c \in Commands : IdsOf(c)
    /\ (\A c \in Commands : op[c] = "multi" => pc[c] \notin Posting) =>
         \A n \in config.nonce : Beyond(n)

IInv == TypeOK /\ OpInv /\ AloneInv /\ KeysInv /\ IdsInv

-----------------------------------------------------------------------------
LEMMA Labels ==
  /\ Running = {"open", "write", "reread", "reopen", "rewrite", "create", "clear", "openkey",
                "newkey", "fill", "fingerprint", "tear", "mend",
                "load", "loadkey", "address", "read", "post"}
  /\ After["open"] = "write" /\ After["write"] = "post" /\ After["reread"] = "reopen"
  /\ After["reopen"] = "rewrite" /\ After["rewrite"] = "ended"
  /\ After["create"] = "clear" /\ After["clear"] = "openkey" /\ After["openkey"] = "newkey"
  /\ After["newkey"] = "fill" /\ After["fill"] = "ended"
  /\ After["fingerprint"] = "tear" /\ After["tear"] = "mend" /\ After["mend"] = "ended"
BY DEF Running, After

\* What fits a uint32_t is not cut.
LEMMA SmallMod == ASSUME NEW w \in Nat \ {0}, NEW n \in Nat, n < w PROVE n % w = n
OBVIOUS

\* A uint32_t holds no negative number.
LEMMA IntMod == ASSUME NEW w \in Nat \ {0}, NEW n \in Int PROVE n % w \in Nat
OBVIOUS

\* An id beyond every one posted is new, and the next one is beyond it.
LEMMA NewIsNew ==
  ASSUME NEW n \in Nat, NEW key, NEW len \in Nat,
         DOMAIN posted = 1..len, DOMAIN posted' = 1..len + 1,
         \A i \in DOMAIN posted : posted'[i] = posted[i] /\ posted[i][2] \in Nat,
         posted'[len + 1] = <<key, n>>,
         IsInjective(posted), Beyond(n)
  PROVE  IsInjective(posted)' /\ Beyond(n + 1)'
<1>1. \A i \in 1..len + 1 : i \in 1..len \/ i = len + 1 OBVIOUS
<1>2. \A i \in 1..len : posted'[i][2] < n /\ posted'[i][2] < n + 1 BY DEF Beyond
<1>3. posted'[len + 1][2] = n /\ n < n + 1 BY <1>1
<1>4. Beyond(n + 1)' BY <1>1, <1>2, <1>3 DEF Beyond
<1>5. \A i \in 1..len : posted'[i] # posted'[len + 1] BY <1>2, <1>3
<1>6. IsInjective(posted)' BY <1>1, <1>5 DEF IsInjective
<1> QED BY <1>4, <1>6

LEMMA InitIInv == Init => IInv
<1> SUFFICES ASSUME Init PROVE IInv OBVIOUS
<1>1. TypeOK
  <2>1. config \in Config BY WalletAssumption DEF Init, Keys, Config
  <2>2. Empty \in Config BY DEF Empty, Config
  <2>3. 0 \in Counts BY WalletAssumption
  <2>4. posted \in Seq(Keys \X Nat) BY DEF Init
  <2>5. keyfile \subseteq Keys BY DEF Init, Keys
  <2>6. /\ op \in [Commands -> {"send", "multi", "create", "validator"}]
        /\ pc \in [Commands -> Running \cup {"new", "ended"}]
    BY DEF Init
  <2>7. /\ count \in [Commands -> Counts] /\ sent \in [Commands -> Nat]
        /\ \A c \in Commands : sent[c] > 0 => sent[c] <= count[c]
        /\ id \in [Commands -> Nat]
    BY <2>3 DEF Init
  <2>8. pub \in [Commands -> SUBSET Keys] /\ priv \in [Commands -> SUBSET Keys]
    BY DEF Init
  <2>9. doc \in [Commands -> Config] BY <2>2 DEF Init
  <2>10. overlapped \in BOOLEAN /\ cut \in BOOLEAN /\ wrapped \in BOOLEAN BY DEF Init
  <2> QED BY <2>1, <2>4, <2>5, <2>6, <2>7, <2>8, <2>9, <2>10 DEF TypeOK
<1>2. OpInv /\ AloneInv BY <1>1, Labels DEF Init, OpInv, AloneInv, Active, TypeOK
<1>3. KeysInv BY DEF Init, KeysInv, KeysOf, Pair, Creating
<1>4. IdsInv
  BY DEF Init, IdsInv, IdsOf, Beyond, Sending, Posting, Creating, IsInjective
<1> QED BY <1>1, <1>2, <1>3, <1>4 DEF IInv

(* A step of a running command, if commands did not overlap: all others are*)
(* at rest, before and after.                                              *)
LEMMA Others ==
  ASSUME IInv, NEW c \in Commands, pc[c] \in Running, NEW label, pc' = [pc EXCEPT ![c] = label],
         overlapped' = overlapped
  PROVE  /\ AloneInv'
         /\ ~overlapped => \A d \in Commands \ {c} :
              /\ pc[d] \notin Running /\ pc'[d] = pc[d]
              /\ KeysOf(d)' /\ IdsOf(d)'
<1>1. \A d \in Commands \ {c} : pc'[d] = pc[d]
  BY DEF IInv, TypeOK
<1>2. ASSUME ~overlapped, NEW d \in Commands \ {c} PROVE pc[d] \notin Running
  BY <1>2 DEF IInv, AloneInv, Active
<1>3. AloneInv' BY <1>1, <1>2 DEF AloneInv, Active
<1>4. ASSUME NEW d \in Commands \ {c}, pc'[d] \notin Running PROVE KeysOf(d)' /\ IdsOf(d)'
  BY <1>4, Labels DEF KeysOf, IdsOf, Sending, Posting, Creating
<1> QED BY <1>1, <1>2, <1>3, <1>4

LEMMA StartKeeps ==
  ASSUME IInv, NEW c \in Commands, NEW o \in {"send", "multi", "create", "validator"},
         NEW n \in Counts, Start(c, o, n)
  PROVE  IInv'
<1> USE DEF IInv
<1>1. /\ pc[c] = "new" /\ sent[c] = 0 /\ count[c] = 0
      /\ pc' = [pc EXCEPT ![c] = IF o = "create" THEN o ELSE "load"]
      /\ op' = [op EXCEPT ![c] = o] /\ count' = [count EXCEPT ![c] = n]
      /\ UNCHANGED <<files, pub, priv, doc, id, sent, posted, cut, wrapped>>
  BY DEF Start, Goto, OpInv
<1>2. ~overlapped' => ~overlapped /\ \A d \in Commands : pc[d] \notin Running
  BY DEF Start, Active
<1>3. TypeOK' BY <1>1, Labels DEF Start, TypeOK, files
<1>4. OpInv' BY <1>1, Labels DEF OpInv, TypeOK, Posting, files
<1>5. AloneInv' BY <1>1, <1>2 DEF AloneInv, Active, TypeOK
<1>6. KeysInv' BY <1>1, <1>2, Labels DEF KeysInv, KeysOf, Creating, TypeOK, files
<1>7. IdsInv'
  <2> SUFFICES ASSUME Counted' PROVE IdsInv' BY DEF IdsInv
  <2>1. Counted
    <3>1. ~overlapped' /\ ~cut' /\ ~wrapped' BY DEF Counted
    <3>2. NoneNegative BY <1>1 DEF Counted, NoneNegative, TypeOK
    <3> QED BY <1>1, <1>2, <3>1, <3>2 DEF Counted
  <2>2. ASSUME NEW d \in Commands PROVE IdsOf(d)'
    <3>1. pc'[d] \notin Sending \cup Creating
      BY <1>1, <1>2, <2>1, Labels DEF Counted, NoneNegative, Sending, Posting, Creating, TypeOK
    <3> QED BY <3>1 DEF IdsOf, Sending, Posting, Creating
  <2>3. \A d \in Commands : pc[d] \notin Posting
    BY <1>2, <2>1, Labels DEF Counted, NoneNegative, Posting
  <2> QED BY <1>1, <2>1, <2>2, <2>3 DEF IdsInv, Beyond, files
<1> QED BY <1>3, <1>4, <1>5, <1>6, <1>7

\* So what a step of c has to keep is what IInv says of c and of the files.
LEMMA StepOf ==
  ASSUME IInv, NEW c \in Commands, pc[c] \in Running, NEW label, pc' = [pc EXCEPT ![c] = label],
         overlapped' = overlapped, TypeOK', OpInv',
         ~overlapped => Pair(config.pub, keyfile)' /\ KeysOf(c)',
         Counted' => /\ IsInjective(posted)' /\ IdsOf(c)'
                     /\ (op'[c] = "multi" => label \notin Posting) => \A n \in config'.nonce : Beyond(n)'
  PROVE  IInv'
<1>1. KeysInv' BY Others DEF KeysInv
<1>2. IdsInv'
  <2>1. pc'[c] = label BY DEF IInv, TypeOK
  <2> SUFFICES ASSUME Counted' PROVE IdsInv' BY DEF IdsInv
  <2>2. \A d \in Commands : IdsOf(d)' BY Others DEF Counted, NoneNegative
  <2> QED BY <2>1, <2>2 DEF IdsInv
<1> QED BY <1>1, <1>2, Others DEF IInv

LEMMA FilesBefore ==
  ASSUME IInv, NEW c \in Commands, pc[c] \in Running
  PROVE  /\ ~overlapped => Pair(config.pub, keyfile) /\ KeysOf(c)
         /\ Counted => /\ IsInjective(posted) /\ IdsOf(c)
                       /\ (op[c] = "multi" => pc[c] \notin Posting) => \A n \in config.nonce : Beyond(n)
<1>1. ~overlapped => Pair(config.pub, keyfile) /\ KeysOf(c) BY DEF IInv, KeysInv
<1>2. ASSUME Counted, op[c] = "multi" => pc[c] \notin Posting
      PROVE  \A d \in Commands : op[d] = "multi" => pc[d] \notin Posting
  BY <1>2, Labels DEF IInv, Counted, NoneNegative, AloneInv, Active, Posting
<1> QED BY <1>1, <1>2 DEF IInv, IdsInv

-----------------------------------------------------------------------------
(* Reads, which change what the command holds and nothing else.            *)
LEMMA LoadConfigKeeps == ASSUME IInv, NEW c \in Commands, LoadConfig(c) PROVE IInv'
<1> DEFINE label == IF op[c] = "validator" /\ ~config.addresses THEN "ended" ELSE "loadkey"
<1>1. /\ pc[c] = "load" /\ pc[c] \in Running /\ pc' = [pc EXCEPT ![c] = label]
      /\ pub' = [pub EXCEPT ![c] = config.pub]
      /\ UNCHANGED <<config, keyfile, op, count, priv, doc, id, sent, posted, overlapped, cut, wrapped>>
  BY Labels DEF LoadConfig, Goto, files, history
<1>2. label \in {"ended", "loadkey"} OBVIOUS
<1> HIDE DEF label
<1>3. TypeOK' BY <1>1, <1>2, Labels DEF IInv, TypeOK, Config
<1>4. OpInv' BY <1>1, <1>2, Labels DEF IInv, TypeOK, OpInv, Posting
<1>5. ~overlapped => Pair(config.pub, keyfile)' /\ KeysOf(c)'
  BY <1>1, <1>2, FilesBefore DEF IInv, TypeOK, KeysOf, Pair, Creating
<1>6. Counted' => /\ IsInjective(posted)' /\ IdsOf(c)'
                  /\ (op'[c] = "multi" => label \notin Posting) => \A n \in config'.nonce : Beyond(n)'
  BY <1>1, <1>2, FilesBefore DEF IInv, TypeOK, IdsOf, Counted, NoneNegative, Beyond, Sending, Posting, Creating
<1> QED BY <1>1, <1>3, <1>4, <1>5, <1>6, StepOf

LEMMA LoadKeyKeeps == ASSUME IInv, NEW c \in Commands, LoadKey(c) PROVE IInv'
<1> DEFINE label == CASE pub[c] = {} \/ keyfile = {} -> "ended"
                      [] op[c] = "send" -> "read"
                      [] op[c] = "multi" -> "address"
                      [] OTHER -> "fingerprint"
<1>1. /\ pc[c] = "loadkey" /\ pc[c] \in Running /\ pc' = [pc EXCEPT ![c] = label]
      /\ priv' = [priv EXCEPT ![c] = keyfile]
      /\ UNCHANGED <<config, keyfile, op, count, pub, doc, id, sent, posted, overlapped, cut, wrapped>>
  BY Labels DEF LoadKey, Goto, files, history
<1>2. /\ label \in {"ended", "read", "address", "fingerprint"}
      /\ label = "read" => op[c] = "send"
      /\ label = "address" => op[c] = "multi"
  OBVIOUS
<1> HIDE DEF label
<1>3. TypeOK' BY <1>1, <1>2, Labels DEF IInv, TypeOK, Config
<1>4. OpInv' BY <1>1, <1>2, Labels DEF IInv, TypeOK, OpInv, Posting
<1>5. ~overlapped => Pair(config.pub, keyfile)' /\ KeysOf(c)'
  BY <1>1, <1>2, FilesBefore DEF IInv, TypeOK, KeysOf, Pair, Creating
<1>6. Counted' => /\ IsInjective(posted)' /\ IdsOf(c)'
                  /\ (op'[c] = "multi" => label \notin Posting) => \A n \in config'.nonce : Beyond(n)'
  BY <1>1, <1>2, FilesBefore DEF IInv, TypeOK, IdsOf, Counted, NoneNegative, Beyond, Sending, Posting, Creating
<1> QED BY <1>1, <1>3, <1>4, <1>5, <1>6, StepOf

LEMMA GetAddressKeeps == ASSUME IInv, NEW c \in Commands, GetAddress(c) PROVE IInv'
<1> DEFINE label == IF config.addresses THEN "read" ELSE "ended"
<1>1. /\ pc[c] = "address" /\ pc[c] \in Running /\ pc' = [pc EXCEPT ![c] = label]
      /\ UNCHANGED <<config, keyfile, op, count, pub, priv, doc, id, sent, posted, overlapped, cut, wrapped>>
  BY Labels DEF GetAddress, Goto, files, locals, history
<1>2. label \in {"ended", "read"} OBVIOUS
<1> HIDE DEF label
<1>3. TypeOK' BY <1>1, <1>2, Labels DEF IInv, TypeOK, Config
<1>4. OpInv' BY <1>1, <1>2, Labels DEF IInv, TypeOK, OpInv, Posting
<1>5. ~overlapped => Pair(config.pub, keyfile)' /\ KeysOf(c)'
  BY <1>1, <1>2, FilesBefore DEF IInv, TypeOK, KeysOf, Pair, Creating
<1>6. Counted' => /\ IsInjective(posted)' /\ IdsOf(c)'
                  /\ (op'[c] = "multi" => label \notin Posting) => \A n \in config'.nonce : Beyond(n)'
  BY <1>1, <1>2, FilesBefore DEF IInv, TypeOK, IdsOf, Counted, NoneNegative, Beyond, Sending, Posting, Creating
<1> QED BY <1>1, <1>3, <1>4, <1>5, <1>6, StepOf

\* The id is taken from the file: it is the next one, unless it was cut.
LEMMA GetTxIdKeeps == ASSUME IInv, NEW c \in Commands, GetTxId(c) PROVE IInv'
<1>1. /\ pc[c] = "read" /\ pc[c] \in Running /\ op[c] \in {"send", "multi"} /\ sent[c] = 0
      /\ UNCHANGED <<config, keyfile, op, count, pub, priv, sent, posted, overlapped, cut>>
  BY Labels DEF IInv, OpInv, Posting, GetTxId, files
<1>2. CASE config.nonce = {} /\ Goto(c, "ended") /\ UNCHANGED <<doc, id, wrapped>>
  <2>1. pc' = [pc EXCEPT ![c] = "ended"] BY <1>2 DEF Goto
  <2>2. TypeOK' BY <1>1, <1>2, <2>1 DEF IInv, TypeOK
  <2>3. OpInv' BY <1>1, <1>2, <2>1, Labels DEF IInv, TypeOK, OpInv, Posting
  <2>4. ~overlapped => Pair(config.pub, keyfile)' /\ KeysOf(c)'
    BY <1>1, <1>2, <2>1, FilesBefore DEF IInv, TypeOK, KeysOf, Pair, Creating
  <2>5. Counted' => /\ IsInjective(posted)' /\ IdsOf(c)' /\ \A n \in config'.nonce : Beyond(n)'
    BY <1>1, <1>2, <2>1, FilesBefore DEF IInv, TypeOK, IdsOf, Counted, NoneNegative, Sending, Posting, Creating
  <2> QED BY <1>1, <2>1, <2>2, <2>3, <2>4, <2>5, StepOf
<1>3. ASSUME NEW n \in config.nonce,
             id' = [id EXCEPT ![c] = Held(c, n)],
             doc' = [doc EXCEPT ![c] = [config EXCEPT !.nonce = {NextId(n)}]],
             wrapped' = (wrapped \/ (op[c] = "multi" /\ n + count[c] >= Width)),
             Goto(c, "open")
      PROVE  IInv'
  <2>1. /\ pc' = [pc EXCEPT ![c] = "open"] /\ n \in Nat /\ count[c] \in Int /\ config \in Config
        /\ doc'[c] = [config EXCEPT !.nonce = {n + 1}] /\ doc' \in [Commands -> Config]
        /\ doc'[c].pub = config.pub /\ doc'[c].nonce = {n + 1}
    <3>1. n \in Nat /\ count[c] \in Int /\ config \in Config
      BY <1>3, WalletAssumption DEF IInv, TypeOK, Config
    <3> DEFINE new == [config EXCEPT !.nonce = {n + 1}]
    <3>2. new \in Config /\ new.pub = config.pub /\ new.nonce = {n + 1}
      BY <3>1 DEF Config
    <3>3. doc' = [doc EXCEPT ![c] = new] BY <1>3 DEF NextId
    <3> HIDE DEF new
    <3>4. doc' \in [Commands -> Config] /\ doc'[c] = new BY <3>2, <3>3 DEF IInv, TypeOK
    <3> QED BY <1>3, <3>1, <3>2, <3>4 DEF Goto, new
  <2>2. Held(c, n) \in Nat /\ id'[c] = Held(c, n)
    BY <1>3, <2>1, WalletAssumption DEF IInv, TypeOK, Held
  <2>3. ~wrapped' /\ count[c] >= 0 => id'[c] = n /\ (op[c] = "multi" => n + count[c] < Width)
    <3> SUFFICES ASSUME ~wrapped', count[c] >= 0 PROVE id'[c] = n /\ (op[c] = "multi" => n + count[c] < Width)
      OBVIOUS
    <3>1. CASE op[c] = "multi"
      <4>1. n + count[c] < Width
        <5>1. ~(n + count[c] >= Width) BY <1>3, <3>1, Zenon
        <5> QED BY <2>1, <5>1, WalletAssumption
      <4>2. n % Width = n BY <2>1, <4>1, WalletAssumption, SmallMod
      <4> QED BY <2>2, <3>1, <4>1, <4>2 DEF Held
    <3>2. CASE op[c] # "multi" BY <2>2, <3>2 DEF Held
    <3> QED BY <3>1, <3>2
  <2>4. TypeOK' BY <1>1, <1>3, <2>1, <2>2, Labels DEF IInv, TypeOK
  <2>5. OpInv' BY <1>1, <2>1, Labels DEF IInv, TypeOK, OpInv, Posting
  <2>6. ~overlapped => Pair(config.pub, keyfile)' /\ KeysOf(c)'
    BY <1>1, <2>1, FilesBefore DEF IInv, TypeOK, KeysOf, Pair, Creating
  <2>7. ASSUME Counted' PROVE IsInjective(posted)' /\ IdsOf(c)' /\ \A m \in config'.nonce : Beyond(m)'
    <3>1. Counted BY <1>1, <1>3, <2>7 DEF Counted, NoneNegative
    <3>2. IsInjective(posted) /\ \A m \in config.nonce : Beyond(m)
      BY <1>1, <3>1, FilesBefore DEF Posting
    <3>3. Beyond(n) /\ id'[c] = n /\ sent'[c] = 0 /\ n + 0 = n /\ (op[c] = "multi" => n + count[c] < Width)
      <4>1. ~wrapped' /\ count[c] >= 0 BY <1>1, <2>7 DEF Counted, NoneNegative
      <4> QED BY <1>1, <2>1, <2>3, <3>2, <4>1
    <3>4. IdsOf(c)'
      BY <1>1, <2>1, <3>3 DEF IInv, TypeOK, IdsOf, Beyond, Sending, Posting, Creating
    <3> QED BY <1>1, <3>2, <3>4 DEF Beyond
  <2> QED BY <1>1, <2>1, <2>4, <2>5, <2>6, <2>7, StepOf
<1> QED BY <1>2, <1>3 DEF GetTxId

-----------------------------------------------------------------------------
(* The files are emptied and written.                                      *)
LEMMA OpenConfigKeeps == ASSUME IInv, NEW c \in Commands, OpenConfig(c) PROVE IInv'
<1> DEFINE label == After[pc[c]]
<1>1. /\ pc[c] \in {"open", "reopen", "clear"} /\ pc[c] \in Running
      /\ pc' = [pc EXCEPT ![c] = label] /\ config' = Empty
      /\ UNCHANGED <<keyfile, op, count, pub, priv, doc, id, sent, posted, overlapped, cut, wrapped>>
  BY Labels DEF OpenConfig, Opened, Goto, locals, history
<1>2. /\ pc[c] = "open" => label = "write"
      /\ pc[c] = "reopen" => label = "rewrite"
      /\ pc[c] = "clear" => label = "openkey"
  BY Labels
<1>3. Empty \in Config /\ Empty.pub = {} /\ Empty.nonce = {} BY DEF Empty, Config
<1> HIDE DEF label
<1>4. TypeOK' BY <1>1, <1>2, <1>3, Labels DEF IInv, TypeOK
<1>5. OpInv' BY <1>1, <1>2, Labels DEF IInv, TypeOK, OpInv, Posting
<1>6. ~overlapped => Pair(config.pub, keyfile)' /\ KeysOf(c)'
  BY <1>1, <1>2, <1>3, FilesBefore DEF IInv, TypeOK, KeysOf, Pair, Creating
<1>7. Counted' => /\ IsInjective(posted)' /\ IdsOf(c)'
                  /\ (op'[c] = "multi" => label \notin Posting) => \A n \in config'.nonce : Beyond(n)'
  BY <1>1, <1>2, <1>3, FilesBefore DEF IInv, TypeOK, IdsOf, Counted, NoneNegative, Beyond, Sending, Posting, Creating
<1> QED BY <1>1, <1>4, <1>5, <1>6, <1>7, StepOf

LEMMA WriteConfigKeeps == ASSUME IInv, NEW c \in Commands, WriteConfig(c) PROVE IInv'
<1> DEFINE label == After[pc[c]]
<1>1. /\ pc[c] \in {"write", "rewrite", "fill"} /\ pc[c] \in Running
      /\ pc' = [pc EXCEPT ![c] = label] /\ config' = doc[c]
      /\ UNCHANGED <<keyfile, op, count, pub, priv, doc, id, sent, posted, overlapped, cut, wrapped>>
  BY Labels DEF WriteConfig, Goto, locals, history
<1>2. /\ pc[c] = "write" => label = "post"
      /\ pc[c] = "rewrite" => label = "ended"
      /\ pc[c] = "fill" => label = "ended"
  BY Labels
<1> HIDE DEF label
<1>3. /\ id[c] \in Nat /\ sent[c] \in Nat /\ count[c] \in Int
      /\ pc[c] = "write" => op[c] \in {"send", "multi"} /\ sent[c] = 0
  BY <1>1, Labels, WalletAssumption DEF IInv, TypeOK, OpInv, Posting
<1>4. TypeOK' BY <1>1, <1>2, Labels DEF IInv, TypeOK
<1>5. OpInv' BY <1>1, <1>2, Labels DEF IInv, TypeOK, OpInv, Posting
<1>6. ~overlapped => Pair(config.pub, keyfile)' /\ KeysOf(c)'
  BY <1>1, <1>2, FilesBefore DEF IInv, TypeOK, KeysOf, Pair, Creating
<1>7. ASSUME Counted'
      PROVE  /\ IsInjective(posted)' /\ IdsOf(c)'
             /\ (op'[c] = "multi" => label \notin Posting) => \A n \in config'.nonce : Beyond(n)'
  <2>1. IsInjective(posted) /\ IdsOf(c) BY <1>1, <1>7, FilesBefore DEF Counted, NoneNegative
  <2>2. IdsOf(c)'
    BY <1>1, <1>2, <1>3, <2>1 DEF IInv, TypeOK, IdsOf, Beyond, Sending, Posting, Creating
  <2>3. CASE pc[c] = "write"
    <3>1. config'.nonce = {id[c] + 1} /\ Beyond(id[c])
      BY <1>1, <1>3, <2>1, <2>3 DEF IdsOf, Sending
    <3>2. Beyond(id[c] + 1) BY <1>3, <3>1 DEF IInv, TypeOK, Beyond
    <3> QED BY <1>1, <2>1, <2>2, <3>1, <3>2 DEF Beyond
  <2>4. CASE pc[c] = "rewrite"
    BY <1>1, <2>1, <2>2, <2>4 DEF IdsOf, Beyond, Sending, Posting
  <2>5. CASE pc[c] = "fill" BY <1>1, <2>1, <2>2, <2>5 DEF IdsOf, Beyond, Creating
  <2> QED BY <1>1, <2>3, <2>4, <2>5
<1> QED BY <1>1, <1>4, <1>5, <1>6, <1>7, StepOf

LEMMA OpenKeyFileKeeps == ASSUME IInv, NEW c \in Commands, OpenKeyFile(c) PROVE IInv'
<1> DEFINE label == After[pc[c]]
<1>1. /\ pc[c] \in {"openkey", "tear"} /\ pc[c] \in Running
      /\ pc' = [pc EXCEPT ![c] = label] /\ keyfile' = {}
      /\ UNCHANGED <<config, op, count, pub, priv, doc, id, sent, posted, overlapped, cut, wrapped>>
  BY Labels DEF OpenKeyFile, Goto, locals, history
<1>2. (pc[c] = "openkey" => label = "newkey") /\ (pc[c] = "tear" => label = "mend")
  BY Labels
<1> HIDE DEF label
<1>3. TypeOK' BY <1>1, <1>2, Labels DEF IInv, TypeOK
<1>4. OpInv' BY <1>1, <1>2, Labels DEF IInv, TypeOK, OpInv, Posting
<1>5. ASSUME ~overlapped PROVE Pair(config.pub, keyfile)' /\ KeysOf(c)'
  <2>1. pc'[c] = label BY <1>1 DEF IInv, TypeOK
  <2>2. Pair(config.pub, keyfile)' BY <1>1 DEF Pair
  <2>3. CASE pc[c] = "openkey"
    <3>1. config.pub = {} /\ doc[c].pub = {c} /\ priv[c] = {c}
      BY <1>1, <1>5, <2>3, FilesBefore DEF KeysOf, Creating
    <3>2. pc'[c] = "newkey" /\ config'.pub = {} /\ doc'[c].pub = {c} /\ priv'[c] = {c}
      BY <1>1, <1>2, <2>1, <2>3, <3>1
    <3> QED BY <2>2, <3>2 DEF KeysOf, Creating
  <2>4. CASE pc[c] = "tear"
    BY <1>1, <1>2, <1>5, <2>1, <2>4, FilesBefore DEF KeysOf, Creating, Pair
  <2> QED BY <1>1, <2>2, <2>3, <2>4
<1>6. Counted' => /\ IsInjective(posted)' /\ IdsOf(c)'
                  /\ (op'[c] = "multi" => label \notin Posting) => \A n \in config'.nonce : Beyond(n)'
  BY <1>1, <1>2, FilesBefore DEF IInv, TypeOK, IdsOf, Counted, NoneNegative, Beyond, Sending, Posting, Creating
<1> QED BY <1>1, <1>3, <1>4, <1>5, <1>6, StepOf

LEMMA WriteKeyFileKeeps == ASSUME IInv, NEW c \in Commands, WriteKeyFile(c) PROVE IInv'
<1> DEFINE label == After[pc[c]]
<1>1. /\ pc[c] \in {"newkey", "mend"} /\ pc[c] \in Running
      /\ pc' = [pc EXCEPT ![c] = label] /\ keyfile' = priv[c]
      /\ UNCHANGED <<config, op, count, pub, priv, doc, id, sent, posted, overlapped, cut, wrapped>>
  BY Labels DEF WriteKeyFile, Goto, locals, history
<1>2. (pc[c] = "newkey" => label = "fill") /\ (pc[c] = "mend" => label = "ended")
  BY Labels
<1> HIDE DEF label
<1>3. TypeOK' BY <1>1, <1>2, Labels DEF IInv, TypeOK
<1>4. OpInv' BY <1>1, <1>2, Labels DEF IInv, TypeOK, OpInv, Posting
<1>5. ASSUME ~overlapped PROVE Pair(config.pub, keyfile)' /\ KeysOf(c)'
  <2>1. pc'[c] = label BY <1>1 DEF IInv, TypeOK
  <2>2. CASE pc[c] = "newkey"
    <3>1. config.pub = {} /\ doc[c].pub = {c} /\ priv[c] = {c}
      BY <1>1, <1>5, <2>2, FilesBefore DEF KeysOf, Creating
    <3>2. Pair(config.pub, keyfile)' BY <1>1, <3>1 DEF Pair
    <3>3. /\ pc'[c] = "fill" /\ config'.pub = {} /\ doc'[c].pub = {c} /\ priv'[c] = {c}
          /\ keyfile' = {c}
      BY <1>1, <1>2, <2>1, <2>2, <3>1
    <3> QED BY <3>2, <3>3 DEF KeysOf, Creating
  <2>3. CASE pc[c] = "mend"
    BY <1>1, <1>2, <1>5, <2>1, <2>3, FilesBefore DEF KeysOf, Creating, Pair
  <2> QED BY <1>1, <2>2, <2>3
<1>6. Counted' => /\ IsInjective(posted)' /\ IdsOf(c)'
                  /\ (op'[c] = "multi" => label \notin Posting) => \A n \in config'.nonce : Beyond(n)'
  BY <1>1, <1>2, FilesBefore DEF IInv, TypeOK, IdsOf, Counted, NoneNegative, Beyond, Sending, Posting, Creating
<1> QED BY <1>1, <1>3, <1>4, <1>5, <1>6, StepOf

-----------------------------------------------------------------------------
LEMMA PostKeeps == ASSUME IInv, NEW c \in Commands, Post(c) PROVE IInv'
<1>1. /\ pc[c] = "post" /\ pc[c] \in Running /\ op[c] \in {"send", "multi"}
      /\ pc[c] \in Sending /\ pc[c] \in Posting
      /\ op[c] = "multi" => sent[c] < count[c]
      /\ op[c] = "send" => sent[c] = 0
      /\ id[c] \in Nat /\ sent[c] \in Nat /\ count[c] \in Int
      /\ UNCHANGED <<config, keyfile, op, count, pub, priv, doc, id, overlapped, cut, wrapped>>
  BY Labels, WalletAssumption DEF IInv, TypeOK, OpInv, Post, More, files, Sending, Posting
<1>2. PICK key \in pub[c] : posted' = Append(posted, <<key, IdAt(c)>>)
  BY DEF Post
<1>3. key \in Keys /\ IdAt(c) \in Nat
  BY <1>1, WalletAssumption DEF IInv, TypeOK, IdAt, Held
<1>4. /\ posted \in Seq(Keys \X Nat) /\ posted' \in Seq(Keys \X Nat)
      /\ DOMAIN posted = 1..Len(posted) /\ Len(posted) \in Nat
      /\ DOMAIN posted' = 1..Len(posted) + 1
      /\ \A i \in DOMAIN posted : posted'[i] = posted[i] /\ posted[i][2] \in Nat
      /\ posted'[Len(posted) + 1] = <<key, IdAt(c)>>
  BY <1>2, <1>3 DEF IInv, TypeOK
<1>5. CASE op[c] = "send" /\ Goto(c, "ended") /\ UNCHANGED sent
  <2>1. pc' = [pc EXCEPT ![c] = "ended"] BY <1>5 DEF Goto
  <2>2. TypeOK' BY <1>1, <1>4, <1>5, <2>1 DEF IInv, TypeOK
  <2>3. OpInv' BY <1>1, <1>5, <2>1, Labels DEF IInv, TypeOK, OpInv, Posting
  <2>4. ~overlapped => Pair(config.pub, keyfile)' /\ KeysOf(c)'
    BY <1>1, <2>1, FilesBefore DEF IInv, TypeOK, KeysOf, Pair, Creating
  <2>5. ASSUME Counted' PROVE IsInjective(posted)' /\ IdsOf(c)' /\ \A n \in config'.nonce : Beyond(n)'
    <3>1. IsInjective(posted) /\ Beyond(id[c] + sent[c]) /\ config.nonce = {id[c] + 1}
      BY <1>1, <2>5, FilesBefore DEF Counted, NoneNegative, IdsOf
    <3>2. IdAt(c) = id[c] /\ id[c] + sent[c] = id[c] BY <1>1, <1>5 DEF IdAt, Held
    <3>3. IsInjective(posted)' /\ Beyond(id[c] + 1)'
      BY <1>1, <1>3, <1>4, <3>1, <3>2, NewIsNew, Zenon
    <3>4. IdsOf(c)' BY <1>1, <2>1 DEF IInv, TypeOK, IdsOf, Sending, Posting, Creating
    <3> QED BY <1>1, <3>1, <3>3, <3>4 DEF Beyond
  <2> QED BY <1>1, <2>1, <2>2, <2>3, <2>4, <2>5, StepOf
<1>6. CASE op[c] = "multi" /\ sent' = [sent EXCEPT ![c] = @ + 1] /\ UNCHANGED pc
  <2>1. pc' = [pc EXCEPT ![c] = "post"] BY <1>1, <1>6 DEF IInv, TypeOK
  <2>2. sent'[c] = sent[c] + 1 /\ sent[c] + 1 \in Nat /\ sent[c] + 1 <= count[c]
    BY <1>1, <1>6 DEF IInv, TypeOK
  <2>3. TypeOK' BY <1>1, <1>4, <1>6, <2>2 DEF IInv, TypeOK
  <2>4. OpInv' BY <1>1, <1>6, <2>2, Labels DEF IInv, TypeOK, OpInv, Posting
  <2>5. ~overlapped => Pair(config.pub, keyfile)' /\ KeysOf(c)'
    BY <1>1, <1>6, FilesBefore DEF IInv, TypeOK, KeysOf, Pair, Creating
  <2>6. ASSUME Counted' PROVE IsInjective(posted)' /\ IdsOf(c)'
    <3>1. /\ IsInjective(posted) /\ Beyond(id[c] + sent[c]) /\ config.nonce = {id[c] + 1}
          /\ id[c] + count[c] < Width
      BY <1>1, <1>6, <2>6, FilesBefore DEF Counted, NoneNegative, IdsOf
    <3>2. IdAt(c) = id[c] + sent[c]
      <4>1. id[c] + sent[c] < Width BY <1>1, <1>6, <3>1, WalletAssumption
      <4>2. (id[c] + sent[c]) % Width = id[c] + sent[c]
        <5>1. id[c] + sent[c] \in Nat BY <1>1
        <5>2. Width \in Nat \ {0} BY WalletAssumption
        <5> QED BY <4>1, <5>1, <5>2, SmallMod
      <4> QED BY <1>6, <4>2 DEF IdAt, Held
    <3>3. PICK n \in Nat : n = id[c] + sent[c] BY <1>1
    <3>4. IsInjective(posted)' /\ Beyond(n + 1)'
      BY <1>4, <3>1, <3>2, <3>3, NewIsNew, Zenon
    <3>5. n + 1 = id'[c] + sent'[c] BY <1>1, <2>2, <3>3
    <3>6. Beyond(id[c] + sent[c])' BY <3>4, <3>5
    <3>7. pc'[c] = "post" /\ config'.nonce = {id'[c] + 1} /\ id'[c] + count'[c] < Width
      BY <1>1, <1>6, <3>1
    <3>8. IdsOf(c)' BY <3>6, <3>7 DEF IdsOf, Sending, Posting, Creating
    <3> QED BY <3>4, <3>8
  <2> QED BY <1>1, <1>6, <2>1, <2>3, <2>4, <2>5, <2>6, StepOf
<1> QED BY <1>1, <1>5, <1>6 DEF Post

LEMMA PostedAllKeeps == ASSUME IInv, NEW c \in Commands, PostedAll(c) PROVE IInv'
<1>1. /\ pc[c] = "post" /\ pc[c] \in Running /\ op[c] = "multi" /\ ~(sent[c] < count[c])
      /\ pc' = [pc EXCEPT ![c] = "reread"]
      /\ UNCHANGED <<config, keyfile, op, count, pub, priv, doc, id, sent, posted, overlapped, cut, wrapped>>
  BY Labels DEF PostedAll, More, Goto, files, locals, history
<1>2. NoneNegative => sent[c] = count[c]
  <2>1. /\ sent[c] \in Nat /\ count[c] \in Int
        /\ sent[c] > 0 => sent[c] <= count[c]
    BY WalletAssumption DEF IInv, TypeOK
  <2> QED BY <1>1, <2>1 DEF NoneNegative
<1>3. TypeOK' BY <1>1, Labels DEF IInv, TypeOK
<1>4. OpInv' BY <1>1, Labels DEF IInv, TypeOK, OpInv, Posting
<1>5. ~overlapped => Pair(config.pub, keyfile)' /\ KeysOf(c)'
  BY <1>1, FilesBefore DEF IInv, TypeOK, KeysOf, Pair, Creating
<1>6. Counted' => IsInjective(posted)' /\ IdsOf(c)'
  BY <1>1, <1>2, FilesBefore DEF IInv, TypeOK, IdsOf, Counted, NoneNegative, Beyond, Sending, Posting, Creating
<1> QED BY <1>1, <1>3, <1>4, <1>5, <1>6, StepOf DEF Posting

LEMMA SetTxIdKeeps == ASSUME IInv, NEW c \in Commands, SetTxId(c) PROVE IInv'
<1> DEFINE new == [config EXCEPT !.nonce = {AfterLast(c)}]
<1>1. /\ pc[c] = "reread" /\ pc[c] \in Running /\ op[c] = "multi"
      /\ pc' = [pc EXCEPT ![c] = "reopen"] /\ doc' = [doc EXCEPT ![c] = new]
      /\ id[c] \in Nat /\ count[c] \in Int /\ config \in Config
      /\ UNCHANGED <<config, keyfile, op, count, pub, priv, id, sent, posted, overlapped, cut, wrapped>>
  BY Labels, WalletAssumption DEF IInv, TypeOK, OpInv, SetTxId, Goto, files, history
<1>2. AfterLast(c) \in Nat
  <2>1. id[c] + count[c] \in Int BY <1>1
  <2>2. (id[c] + count[c]) % Width \in Nat BY <2>1, WalletAssumption, IntMod
  <2> QED BY <1>1, <2>2 DEF AfterLast, Held
<1>3. new \in Config /\ new.pub = config.pub /\ new.nonce = {AfterLast(c)}
  BY <1>1, <1>2 DEF Config
<1> HIDE DEF new
<1>4. doc'[c] = new BY <1>1 DEF IInv, TypeOK
<1>5. TypeOK' BY <1>1, <1>3, Labels DEF IInv, TypeOK
<1>6. OpInv' BY <1>1, Labels DEF IInv, TypeOK, OpInv, Posting
<1>7. ~overlapped => Pair(config.pub, keyfile)' /\ KeysOf(c)'
  BY <1>1, <1>3, <1>4, FilesBefore DEF IInv, TypeOK, KeysOf, Pair, Creating
<1>8. ASSUME Counted' PROVE IsInjective(posted)' /\ IdsOf(c)'
  <2>1. IsInjective(posted) /\ IdsOf(c) BY <1>1, <1>8, FilesBefore DEF Counted, NoneNegative
  <2>2. id[c] + count[c] < Width BY <1>1, <2>1 DEF IdsOf, Sending, Posting
  <2>3. AfterLast(c) = id[c] + count[c]
    <3>1. id[c] + count[c] \in Nat
      <4>1. count[c] >= 0 BY <1>1, <1>8 DEF Counted, NoneNegative
      <4> QED BY <1>1, <4>1
    <3>2. (id[c] + count[c]) % Width = id[c] + count[c]
      BY <2>2, <3>1, WalletAssumption, SmallMod
    <3> QED BY <1>1, <3>2 DEF AfterLast, Held
  <2> QED BY <1>1, <1>3, <1>4, <2>1, <2>3 DEF IInv, TypeOK, IdsOf, Beyond, Sending, Posting, Creating
<1> QED BY <1>1, <1>5, <1>6, <1>7, <1>8, StepOf DEF Posting

LEMMA CreateWalletKeeps == ASSUME IInv, NEW c \in Commands, CreateWallet(c) PROVE IInv'
<1> DEFINE new == [config EXCEPT !.pub = {c}]
<1>1. /\ pc[c] = "create" /\ pc[c] \in Running
      /\ pc' = [pc EXCEPT ![c] = "clear"] /\ doc' = [doc EXCEPT ![c] = new]
      /\ pub' = [pub EXCEPT ![c] = {c}] /\ priv' = [priv EXCEPT ![c] = {c}]
      /\ config \in Config
      /\ UNCHANGED <<config, keyfile, op, count, id, sent, posted, overlapped, cut, wrapped>>
  BY Labels DEF IInv, TypeOK, CreateWallet, Goto, files, history
<1>2. new \in Config /\ new.pub = {c} /\ new.nonce = config.nonce
  BY <1>1 DEF Config, Keys
<1> HIDE DEF new
<1>3. doc'[c] = new /\ priv'[c] = {c} BY <1>1 DEF IInv, TypeOK
<1>4. {c} \in SUBSET Keys BY DEF Keys
<1>5. TypeOK' BY <1>1, <1>2, <1>4, Labels DEF IInv, TypeOK
<1>6. OpInv' BY <1>1, Labels DEF IInv, TypeOK, OpInv, Posting
<1>7. ~overlapped => Pair(config.pub, keyfile)' /\ KeysOf(c)'
  BY <1>1, <1>2, <1>3, FilesBefore DEF IInv, TypeOK, KeysOf, Pair, Creating
<1>8. Counted' => IsInjective(posted)' /\ IdsOf(c)' /\ \A n \in config'.nonce : Beyond(n)'
  BY <1>1, <1>2, <1>3, FilesBefore DEF IInv, TypeOK, IdsOf, Counted, NoneNegative, Beyond, Sending, Posting, Creating
<1> QED BY <1>1, <1>5, <1>6, <1>7, <1>8, StepOf

LEMMA SetFingerprintKeeps == ASSUME IInv, NEW c \in Commands, SetFingerprint(c) PROVE IInv'
<1>1. /\ pc[c] = "fingerprint" /\ pc[c] \in Running
      /\ pc' = [pc EXCEPT ![c] = "tear"] /\ priv' = [priv EXCEPT ![c] = keyfile]
      /\ UNCHANGED <<config, keyfile, op, count, pub, doc, id, sent, posted, overlapped, cut, wrapped>>
  BY Labels DEF SetFingerprint, Goto, files, history
<1>2. TypeOK' BY <1>1, Labels DEF IInv, TypeOK
<1>3. OpInv' BY <1>1, Labels DEF IInv, TypeOK, OpInv, Posting
<1>4. ~overlapped => Pair(config.pub, keyfile)' /\ KeysOf(c)'
  BY <1>1, FilesBefore DEF IInv, TypeOK, KeysOf, Pair, Creating
<1>5. Counted' => IsInjective(posted)' /\ IdsOf(c)' /\ \A n \in config'.nonce : Beyond(n)'
  BY <1>1, FilesBefore DEF IInv, TypeOK, IdsOf, Counted, NoneNegative, Beyond, Sending, Posting, Creating
<1> QED BY <1>1, <1>2, <1>3, <1>4, <1>5, StepOf

(* A command that is killed leaves the files as they are; a multiple send  *)
(* that has posted more than once leaves the counter behind its ids, which *)
(* is why cut is raised.                                                   *)
LEMMA KillKeeps == ASSUME IInv, NEW c \in Commands, Kill(c) PROVE IInv'
<1>1. /\ pc[c] \in Running /\ pc' = [pc EXCEPT ![c] = "ended"]
      /\ cut' = (cut \/ (sent[c] > 1 /\ pc[c] # "rewrite"))
      /\ UNCHANGED <<config, keyfile, op, count, pub, priv, doc, id, sent, posted, overlapped, wrapped>>
  BY DEF Kill, Goto, files, locals
<1>2. cut' \in BOOLEAN BY <1>1 DEF IInv, TypeOK
<1>3. TypeOK' BY <1>1, <1>2 DEF IInv, TypeOK
<1>4. OpInv' BY <1>1, Labels DEF IInv, TypeOK, OpInv, Posting
<1>5. ~overlapped => Pair(config.pub, keyfile)' /\ KeysOf(c)'
  BY <1>1, FilesBefore DEF IInv, TypeOK, KeysOf, Pair, Creating
<1>6. ASSUME Counted'
      PROVE  IsInjective(posted)' /\ IdsOf(c)' /\ \A n \in config'.nonce : Beyond(n)'
  <2>1. ~cut' BY <1>6 DEF Counted
  <2>2. Counted BY <1>1, <1>6 DEF Counted, NoneNegative
  <2>3. pc[c] # "rewrite" => sent[c] <= 1
    <3>1. ~(sent[c] > 1 /\ pc[c] # "rewrite") BY <1>1, <2>1, Zenon
    <3> QED BY <3>1 DEF IInv, TypeOK
  <2>4. /\ IsInjective(posted) /\ IdsOf(c)
        /\ pc[c] \notin Posting => \A n \in config.nonce : Beyond(n)
    BY <1>1, <2>2, FilesBefore
  <2>5. \A n \in config.nonce : Beyond(n)
    <3>1. CASE pc[c] \notin Posting BY <2>4, <3>1
    <3>2. CASE pc[c] = "rewrite" BY <2>4, <3>2 DEF IdsOf
    <3>3. CASE pc[c] \in Posting \ {"rewrite"}
      <4>1. config.nonce = {id[c] + 1} /\ Beyond(id[c] + sent[c])
        BY <2>4, <3>3 DEF IdsOf, Sending
      <4>2. id[c] \in Nat /\ sent[c] \in Nat /\ sent[c] <= 1
        BY <2>3, <3>3 DEF IInv, TypeOK
      <4>3. Beyond(id[c] + 1) BY <4>1, <4>2 DEF IInv, TypeOK, Beyond
      <4> QED BY <4>1, <4>3
    <3> QED BY <3>1, <3>2, <3>3
  <2>6. IdsOf(c)' BY <1>1 DEF IInv, TypeOK, IdsOf, Sending, Posting, Creating
  <2> QED BY <1>1, <2>4, <2>5, <2>6 DEF Beyond
<1> QED BY <1>1, <1>3, <1>4, <1>5, <1>6, StepOf

-----------------------------------------------------------------------------
LEMMA StutterKeeps == ASSUME IInv, UNCHANGED vars PROVE IInv'
<1>1. TypeOK' BY DEF IInv, vars, files, locals, history, TypeOK
<1>2. OpInv' /\ AloneInv'
  BY DEF IInv, vars, files, locals, history, OpInv, AloneInv, Active
<1>3. KeysInv' BY DEF IInv, vars, files, locals, history, KeysInv, KeysOf, Pair
<1>4. IdsInv'
  BY DEF IInv, vars, files, locals, history, IdsInv, IdsOf, Beyond, Counted, NoneNegative, IsInjective
<1> QED BY <1>1, <1>2, <1>3, <1>4 DEF IInv

LEMMA IInvStep == IInv /\ [Next]_vars => IInv'
<1> SUFFICES ASSUME IInv, [Next]_vars PROVE IInv' OBVIOUS
<1>1. CASE UNCHANGED vars BY <1>1, StutterKeeps
<1>2. ASSUME NEW c \in Commands, Command(c) PROVE IInv'
  <2>1. ASSUME NEW o \in {"send", "multi", "create", "validator"}, NEW n \in Counts,
               Start(c, o, n)
        PROVE  IInv'
    BY <2>1, StartKeeps
  <2>2. ASSUME LoadConfig(c) \/ LoadKey(c) PROVE IInv'
    BY <2>2, LoadConfigKeeps, LoadKeyKeeps
  <2>3. ASSUME Send(c) PROVE IInv'
    BY <2>3, GetAddressKeeps, GetTxIdKeeps, PostKeeps, PostedAllKeeps, SetTxIdKeeps DEF Send
  <2>4. ASSUME CreateWallet(c) \/ SetFingerprint(c) PROVE IInv'
    BY <2>4, CreateWalletKeeps, SetFingerprintKeeps
  <2>5. ASSUME OpenConfig(c) \/ WriteConfig(c) \/ OpenKeyFile(c) \/ WriteKeyFile(c) PROVE IInv'
    BY <2>5, OpenConfigKeeps, WriteConfigKeeps, OpenKeyFileKeeps, WriteKeyFileKeeps
  <2>6. ASSUME Kill(c) PROVE IInv' BY <2>6, KillKeeps
  <2> QED BY <1>2, <2>1, <2>2, <2>3, <2>4, <2>5, <2>6 DEF Command
<1> QED BY <1>1, <1>2 DEF Next

\* The inductive invariant holds of every behaviour.
THEOREM WalletInvariance == Spec => []IInv
BY InitIInv, IInvStep, PTL DEF Spec

(* Every variable of the wallet's commands keeps its type: in particular,  *)
(* every id that a command holds or posts is a natural number, and the     *)
(* loop of a multiple send stays within its bound (dsc.cpp, the send       *)
(* commands).                                                              *)
THEOREM WalletTypeCorrect == Spec => []TypeOK
BY WalletInvariance, PTL DEF IInv

(* Unless commands overlapped, the public key in the configuration file    *)
(* and the private one in the key file are a pair, wherever a command was  *)
(* killed (create_wallet, store_wallet and set_validator_fingerprint).     *)
THEOREM KeysAlwaysMatch == Spec => []KeysMatch
<1>1. IInv => KeysMatch BY DEF IInv, KeysInv, KeysMatch, Pair
<1> QED BY <1>1, WalletInvariance, PTL

(* Commands that run one after the other never post an id twice (get_tx_id *)
(* and set_tx_id), whatever their number, mixture, counts and width and    *)
(* wherever they are killed, unless a multiple send was cut off behind its *)
(* second post, its ids did not fit or its count was negative.             *)
THEOREM IdsUnique == Spec => []UniqueOneByOne
<1>1. IInv => UniqueOneByOne BY DEF IInv, IdsInv, Counted, NoneNegative, UniqueOneByOne
<1> QED BY <1>1, WalletInvariance, PTL

(* When no command runs, the stored counter is beyond every id that was    *)
(* posted, unless commands overlapped or a multiple send was cut, wrapped  *)
(* or given a negative count.                                              *)
THEOREM CounterIsAhead == Spec => []CounterAhead
<1>1. ASSUME IInv, Counted, Active = {} PROVE \A n \in config.nonce : Beyond(n)
  <2>1. \A c \in Commands : pc[c] \notin Posting BY <1>1, Labels DEF Active, Posting
  <2> QED BY <1>1, <2>1 DEF IInv, IdsInv
<1>2. IInv => CounterAhead BY <1>1 DEF Counted, NoneNegative, CounterAhead, Beyond
<1> QED BY <1>2, WalletInvariance, PTL
=============================================================================
