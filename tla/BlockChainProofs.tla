-------------------------- MODULE BlockChainProofs --------------------------
(* Theorems about module BlockChain for any accounts, block contents and   *)
(* made-up ids: first the chain and its file, then the ledger folded from  *)
(* it, then types and bounds.                                              *)
EXTENDS BlockChain, FiniteSetTheorems, WellFoundedInduction, TLAPS

Bodied  == Bodies \cup {GenesisBody}
Blocks  == [id : Nat, hash : Nat, prev : Nat, txs : Bodied]
Entries == [name : Nat, hash : Nat, prev : Nat, txs : Bodied]

TypeInv ==
  /\ blocks \in Seq(Blocks)
  /\ stored_chain \in Seq(Entries) /\ file \in Seq(Entries)
  /\ named \in BOOLEAN /\ hung \in BOOLEAN /\ misled \in BOOLEAN
  /\ step \in {"down", "idle", "credit", "debit", "write", "flush", "reply"}
  /\ tip.id \in Nat /\ tip.hash \in Nat
  /\ made \in Nat

BlocksInv ==
  /\ blocks # <<>> /\ blocks[1] = Genesis
  /\ \A i \in DOMAIN blocks : blocks[i].hash <= made
  /\ \A i, j \in DOMAIN blocks : blocks[i].hash = blocks[j].hash => i = j

(* A document has a block once, under a name of its own, and names it as   *)
(* its predecessor; its blocks are in the chain.                           *)
Sound(doc) ==
  /\ \A i \in DOMAIN doc : doc[i].hash > 0 /\ doc[i].hash <= made /\ doc[i].prev = doc[i].hash
  /\ \A i, j \in DOMAIN doc : doc[i].hash = doc[j].hash \/ doc[i].name = doc[j].name => i = j

OnChain(doc) == \A i \in DOMAIN doc : \E k \in DOMAIN blocks : blocks[k].hash = doc[i].hash

DocInv ==
  /\ Sound(stored_chain) /\ OnChain(stored_chain)
  /\ named => Sound(file) /\ OnChain(file)

\* The newest block is not in the document yet.
Fresh == step \in {"credit", "debit", "write"}

FreshInv ==
  Fresh => /\ made > 0 /\ Block.hash = made
           /\ \A i \in DOMAIN stored_chain : stored_chain[i].hash < made

(* While the metronome counts on from ids that were written, the document  *)
(* is the chain, block by block under its height, and the file is the      *)
(* document, or the beginning of it after a stop in a write.               *)
KeptInv ==
  named /\ ~misled =>
    /\ \A i \in DOMAIN stored_chain :
         /\ stored_chain[i].name = i
         /\ i + 1 \in DOMAIN blocks /\ blocks[i + 1].hash = stored_chain[i].hash
    /\ step # "down" => Len(blocks) = Len(stored_chain) + (IF Fresh THEN 2 ELSE 1)
    /\ step \notin {"flush", "down"} => file = stored_chain
    /\ step = "down" => \E n \in 0..Len(stored_chain) : file = SubSeq(stored_chain, 1, n)
    /\ step = "down" /\ ~hung => file = stored_chain /\ Len(blocks) = Len(stored_chain) + 1
    /\ step \in {"idle", "down"} /\ ~hung => tip.hash = Block.hash /\ tip.id = Len(blocks) - 1
    /\ step \notin {"idle", "down"} => Block.id = Len(blocks) - 1

LinkedInv == loaded \in 1..Len(blocks) /\ LinkedButForLoaded

IInv == TypeInv /\ BlocksInv /\ DocInv /\ FreshInv /\ KeptInv /\ LinkedInv

-----------------------------------------------------------------------------
(* Sequences.                                                              *)
LEMMA SeqDomain ==
  ASSUME NEW S, NEW s \in Seq(S)
  PROVE  Len(s) \in Nat /\ DOMAIN s = 1..Len(s) /\ \A i \in DOMAIN s : s[i] \in S /\ i \in Nat
OBVIOUS

LEMMA Appended ==
  ASSUME NEW S, NEW s \in Seq(S), NEW e \in S
  PROVE  /\ Append(s, e) \in Seq(S) /\ Append(s, e) # <<>>
         /\ Len(Append(s, e)) = Len(s) + 1 /\ DOMAIN Append(s, e) = 1..Len(s) + 1
         /\ Append(s, e)[Len(s) + 1] = e
         /\ \A i \in DOMAIN s : Append(s, e)[i] = s[i]
         /\ \A i \in DOMAIN Append(s, e) : i \in DOMAIN s \/ i = Len(s) + 1
OBVIOUS

LEMMA Prefix ==
  ASSUME NEW S, NEW s \in Seq(S), NEW n \in 0..Len(s)
  PROVE  /\ SubSeq(s, 1, n) \in Seq(S) /\ Len(SubSeq(s, 1, n)) = n
         /\ DOMAIN SubSeq(s, 1, n) = 1..n /\ 1..n \subseteq DOMAIN s
         /\ \A i \in 1..n : SubSeq(s, 1, n)[i] = s[i]
OBVIOUS

LEMMA WholePrefix ==
  ASSUME NEW S, NEW s \in Seq(S)
  PROVE  Len(s) \in 0..Len(s) /\ SubSeq(s, 1, Len(s)) = s
OBVIOUS

LEMMA FunctionSeq ==
  ASSUME NEW S, NEW n \in Nat, NEW f \in [1..n -> S]
  PROVE  f \in Seq(S) /\ Len(f) = n /\ DOMAIN f = 1..n
OBVIOUS

LEMMA AfterGenesis ==
  ASSUME NEW S, NEW g \in S, NEW s \in Seq(S)
  PROVE  /\ <<g>> \o s \in Seq(S) /\ <<g>> \o s # <<>> /\ (<<g>> \o s)[1] = g
         /\ Len(<<g>> \o s) = Len(s) + 1 /\ DOMAIN (<<g>> \o s) = 1..Len(s) + 1
         /\ \A i \in DOMAIN s : (<<g>> \o s)[i + 1] = s[i]
         /\ \A i \in DOMAIN (<<g>> \o s) : i # 1 => i - 1 \in DOMAIN s /\ (<<g>> \o s)[i] = s[i - 1]
OBVIOUS

-----------------------------------------------------------------------------
(* The operators of the code.                                              *)
LEMMA GenesisType == Genesis \in Blocks /\ Genesis.hash = 0 /\ Genesis.id = 0
BY DEF Genesis, Blocks, Bodied

LEMMA LoadedEntries ==
  ASSUME NEW doc \in Seq(Entries), NEW g \in Nat
  PROVE  /\ Loaded(doc, g) \in Seq(Blocks) /\ Len(Loaded(doc, g)) = Len(doc)
         /\ DOMAIN Loaded(doc, g) = DOMAIN doc
         /\ \A i \in DOMAIN doc :
              Loaded(doc, g)[i].hash = doc[i].hash /\ Loaded(doc, g)[i].prev = doc[i].prev
<1>1. Len(doc) \in Nat /\ DOMAIN doc = 1..Len(doc) /\ \A i \in DOMAIN doc : doc[i] \in Entries
  BY SeqDomain
<1>2. Loaded(doc, g) \in [1..Len(doc) -> Blocks]
  BY <1>1 DEF Loaded, Entries, Blocks
<1> QED BY <1>1, <1>2, FunctionSeq DEF Loaded

LEMMA StoredEntry ==
  ASSUME NEW b \in Blocks
  PROVE  /\ Stored(b) \in Entries /\ Stored(b).name = b.id
         /\ Stored(b).hash = b.hash /\ Stored(b).prev = b.hash
BY DEF Stored, Blocks, Entries

LEMMA Fields ==
  /\ \A b \in Blocks : b.id \in Nat /\ b.hash \in Nat /\ b.prev \in Nat
  /\ \A e \in Entries : e.name \in Nat /\ e.hash \in Nat /\ e.prev \in Nat
BY DEF Blocks, Entries

LEMMA Types ==
  ASSUME TypeInv
  PROVE  /\ Len(blocks) \in Nat /\ DOMAIN blocks = 1..Len(blocks)
         /\ \A i \in DOMAIN blocks : blocks[i] \in Blocks /\ blocks[i].hash \in Nat /\ blocks[i].id \in Nat
         /\ Len(stored_chain) \in Nat /\ DOMAIN stored_chain = 1..Len(stored_chain)
         /\ \A i \in DOMAIN stored_chain : stored_chain[i] \in Entries /\ stored_chain[i].hash \in Nat
         /\ Len(file) \in Nat /\ DOMAIN file = 1..Len(file)
         /\ \A i \in DOMAIN file : file[i] \in Entries /\ file[i].hash \in Nat
<1>1. blocks \in Seq(Blocks) /\ stored_chain \in Seq(Entries) /\ file \in Seq(Entries)
  BY DEF TypeInv
<1> QED BY <1>1, SeqDomain, Fields

(* A block with a new hash is written once, in the place of its name.      *)
LEMMA PutSound ==
  ASSUME NEW doc \in Seq(Entries), NEW b \in Blocks,
         Sound(doc), made \in Nat, b.hash = made, made > 0,
         \A i \in DOMAIN doc : doc[i].hash < made
  PROVE  /\ Put(doc, b) \in Seq(Entries) /\ Sound(Put(doc, b))
         /\ \A i \in DOMAIN Put(doc, b) :
              Put(doc, b)[i].hash = b.hash \/ (i \in DOMAIN doc /\ Put(doc, b)[i] = doc[i])
<1> DEFINE new == Put(doc, b)
<1>1. Len(doc) \in Nat /\ DOMAIN doc = 1..Len(doc) /\ \A i \in DOMAIN doc : doc[i] \in Entries
  BY SeqDomain
<1>2. \A e \in Entries : e.hash \in Nat BY DEF Entries
<1>3. CASE \E i \in DOMAIN doc : doc[i].name = b.id
  <2>1. new = [i \in DOMAIN doc |-> IF doc[i].name = b.id THEN Stored(b) ELSE doc[i]]
    BY <1>3 DEF Put
  <2>2. new \in [1..Len(doc) -> Entries] BY <1>1, <2>1, StoredEntry
  <2>3. new \in Seq(Entries) /\ DOMAIN new = DOMAIN doc BY <1>1, <2>2, FunctionSeq
  <2>4. \A i \in DOMAIN doc :
          \/ doc[i].name = b.id /\ new[i] = Stored(b)
          \/ doc[i].name # b.id /\ new[i] = doc[i]
    BY <2>1
  <2> HIDE DEF new
  <2>5. ASSUME NEW i \in DOMAIN new
        PROVE  new[i].hash > 0 /\ new[i].hash <= made /\ new[i].prev = new[i].hash
    <3>1. i \in DOMAIN doc BY <2>3
    <3>2. doc[i].hash > 0 /\ doc[i].hash <= made /\ doc[i].prev = doc[i].hash BY <3>1 DEF Sound
    <3>3. CASE new[i] = Stored(b) BY <3>3, StoredEntry
    <3>4. CASE new[i] = doc[i] BY <3>2, <3>4
    <3> QED BY <2>4, <3>1, <3>3, <3>4
  <2>6. ASSUME NEW i \in DOMAIN new, NEW j \in DOMAIN new,
               new[i].hash = new[j].hash \/ new[i].name = new[j].name
        PROVE  i = j
    <3>1. doc[i].hash < made /\ doc[j].hash < made /\ doc[i].hash \in Nat /\ doc[j].hash \in Nat
      BY <1>1, <1>2, <2>3
    <3>2. doc[i].name = doc[j].name \/ doc[i].hash = doc[j].hash
      BY <2>3, <2>4, <2>6, <3>1, StoredEntry
    <3> QED BY <2>3, <3>2 DEF Sound
  <2>7. Sound(new) BY <2>5, <2>6 DEF Sound
  <2>8. \A i \in DOMAIN new : new[i].hash = b.hash \/ (i \in DOMAIN doc /\ new[i] = doc[i])
    BY <2>3, <2>4, StoredEntry
  <2> QED BY <2>3, <2>7, <2>8 DEF new
<1>4. CASE \A i \in DOMAIN doc : doc[i].name # b.id
  <2>1. new = Append(doc, Stored(b)) BY <1>4 DEF Put
  <2>2. /\ new \in Seq(Entries) /\ DOMAIN new = 1..Len(doc) + 1
        /\ new[Len(doc) + 1] = Stored(b)
        /\ \A i \in DOMAIN doc : new[i] = doc[i]
        /\ \A i \in DOMAIN new : i \in DOMAIN doc \/ i = Len(doc) + 1
    BY <2>1, StoredEntry, Appended
  <2> HIDE DEF new
  <2>3. \A i \in DOMAIN new : new[i].hash > 0 /\ new[i].hash <= made /\ new[i].prev = new[i].hash
    BY <1>1, <1>2, <2>2, StoredEntry DEF Sound
  <2>4. ASSUME NEW i \in DOMAIN new, NEW j \in DOMAIN new,
               new[i].hash = new[j].hash \/ new[i].name = new[j].name
        PROVE  i = j
    <3>1. \A k \in DOMAIN doc : doc[k].hash # made /\ doc[k].name # b.id
      BY <1>1, <1>2, <1>4
    <3>2. CASE i \in DOMAIN doc /\ j \in DOMAIN doc BY <2>2, <2>4, <3>2 DEF Sound
    <3>3. CASE i \in DOMAIN doc /\ j = Len(doc) + 1 BY <2>2, <2>4, <3>1, <3>3, StoredEntry
    <3>4. CASE i = Len(doc) + 1 /\ j \in DOMAIN doc BY <2>2, <2>4, <3>1, <3>4, StoredEntry
    <3> QED BY <2>2, <3>2, <3>3, <3>4
  <2>5. Sound(new) BY <2>3, <2>4 DEF Sound
  <2>6. \A i \in DOMAIN new : new[i].hash = b.hash \/ (i \in DOMAIN doc /\ new[i] = doc[i])
    BY <2>2, StoredEntry
  <2> QED BY <2>2, <2>5, <2>6 DEF new
<1> QED BY <1>3, <1>4

-----------------------------------------------------------------------------
LEMMA InitIInv == Init => IInv
<1> SUFFICES ASSUME Init PROVE IInv OBVIOUS
<1>1. blocks = <<Genesis>> /\ Len(blocks) = 1 /\ DOMAIN blocks = {1} /\ blocks[1] = Genesis
  BY DEF Init
<1>2. TypeInv
  <2>1. blocks \in Seq(Blocks) BY <1>1, GenesisType
  <2>2. tip.id = 0 /\ tip.hash = 0 BY DEF Init
  <2>3. stored_chain \in Seq(Entries) /\ file \in Seq(Entries) BY DEF Init
  <2>4. named \in BOOLEAN /\ hung \in BOOLEAN /\ misled \in BOOLEAN BY DEF Init
  <2>5. made \in Nat /\ step = "idle" BY DEF Init
  <2> QED BY <2>1, <2>2, <2>3, <2>4, <2>5 DEF TypeInv
<1>3. BlocksInv BY <1>1, GenesisType DEF Init, BlocksInv
<1>4. DocInv BY DEF Init, DocInv, Sound, OnChain
<1>5. FreshInv BY DEF Init, FreshInv, Fresh
<1>6. KeptInv BY <1>1, GenesisType DEF Init, KeptInv, Fresh, Block, Last
<1>7. LinkedInv BY <1>1 DEF Init, LinkedInv, LinkedButForLoaded
<1> QED BY <1>2, <1>3, <1>4, <1>5, <1>6, <1>7 DEF IInv

(* Steps that leave the chain, the documents and the metronome alone.      *)
chainVars == <<blocks, stored_chain, file, named, tip, hung, misled, loaded, made>>

LEMMA QuietKeeps ==
  ASSUME IInv, UNCHANGED chainVars, step' = step \/ (Fresh /\ Fresh' /\ step' \in {"credit", "debit", "write"})
  PROVE  IInv'
<1> USE DEF chainVars
<1>1. /\ Fresh' <=> Fresh
      /\ \A s \in {"idle", "down", "flush"} : step' = s <=> step = s
  BY DEF Fresh
<1>2. TypeInv' BY DEF IInv, TypeInv, Fresh
<1>3. BlocksInv' /\ DocInv' BY DEF IInv, BlocksInv, DocInv, Sound, OnChain
<1>4. FreshInv' BY <1>1 DEF IInv, FreshInv, Block, Last
<1>5. KeptInv' BY <1>1 DEF IInv, KeptInv, Block, Last, Fresh
<1>6. LinkedInv' BY DEF IInv, LinkedInv, LinkedButForLoaded
<1> QED BY <1>2, <1>3, <1>4, <1>5, <1>6 DEF IInv

LEMMA AddBlockKeeps ==
  ASSUME IInv, NEW txs \in Bodies, AddBlock(txs)
  PROVE  IInv'
<1> DEFINE b == [id |-> tip.id + 1, hash |-> made + 1, prev |-> tip.hash, txs |-> txs]
           n == Len(blocks)
<1>1. /\ step = "idle" /\ ~hung /\ step' = "credit" /\ made' = made + 1
      /\ blocks' = Append(blocks, b)
      /\ UNCHANGED <<stored_chain, file, named, tip, hung, misled, loaded>>
  BY DEF AddBlock
<1>2. /\ made \in Nat /\ tip.id \in Nat /\ tip.hash \in Nat
      /\ blocks \in Seq(Blocks) /\ n \in Nat /\ DOMAIN blocks = 1..n
      /\ \A i \in DOMAIN blocks : blocks[i] \in Blocks /\ blocks[i].hash \in Nat
  BY Types DEF IInv, TypeInv
<1>3. b \in Blocks /\ b.hash = made + 1 /\ b.id = tip.id + 1 /\ b.prev = tip.hash
  BY <1>2 DEF Blocks, Bodied
<1> HIDE DEF b
<1>4. /\ blocks' \in Seq(Blocks) /\ blocks' # <<>>
      /\ Len(blocks') = n + 1 /\ DOMAIN blocks' = 1..n + 1 /\ blocks'[n + 1] = b
      /\ \A i \in DOMAIN blocks : blocks'[i] = blocks[i]
      /\ \A i \in DOMAIN blocks' : i \in DOMAIN blocks \/ i = n + 1
  BY <1>1, <1>2, <1>3, Appended
<1>5. blocks # <<>> /\ n >= 1 /\ 1 \in DOMAIN blocks
  BY <1>2 DEF IInv, BlocksInv
<1> HIDE DEF n
<1>6. Block' = b /\ Block = blocks[n]
  BY <1>4 DEF Block, Last, n
<1>7. TypeInv' BY <1>1, <1>2, <1>4 DEF IInv, TypeInv
<1>8. BlocksInv'
  <2>1. \A i \in DOMAIN blocks : blocks'[i].hash <= made /\ blocks'[i].hash # made + 1
    BY <1>2, <1>4 DEF IInv, BlocksInv
  <2>2. \A i \in DOMAIN blocks' : blocks'[i].hash <= made + 1
    BY <1>2, <1>3, <1>4, <2>1
  <2>3. ASSUME NEW i \in DOMAIN blocks', NEW j \in DOMAIN blocks', blocks'[i].hash = blocks'[j].hash
        PROVE  i = j
    <3>1. CASE i \in DOMAIN blocks /\ j \in DOMAIN blocks
      BY <1>4, <2>3, <3>1 DEF IInv, BlocksInv
    <3>2. CASE i = n + 1 \/ j = n + 1
      BY <1>3, <1>4, <2>1, <2>3, <3>2
    <3> QED BY <1>4, <3>1, <3>2
  <2>4. blocks'[1] = Genesis BY <1>4, <1>5 DEF IInv, BlocksInv
  <2> QED BY <1>1, <1>4, <2>2, <2>3, <2>4 DEF BlocksInv
<1>9. /\ stored_chain \in Seq(Entries) /\ file \in Seq(Entries)
      /\ \A i \in DOMAIN stored_chain : stored_chain[i].hash \in Nat
      /\ \A i \in DOMAIN file : file[i].hash \in Nat
  BY Types DEF IInv, TypeInv
<1>10. ASSUME NEW doc \in {stored_chain, file}, Sound(doc), OnChain(doc)
       PROVE  Sound(doc)' /\ OnChain(doc)'
  <2>1. doc' = doc BY <1>1, <1>10
  <2>2. \A i \in DOMAIN doc : doc[i].hash <= made => doc[i].hash <= made + 1
    BY <1>2, <1>9, <1>10
  <2> QED BY <1>1, <1>4, <1>10, <2>1, <2>2 DEF Sound, OnChain
<1>11. DocInv' BY <1>1, <1>10 DEF IInv, DocInv
<1>12. FreshInv'
  BY <1>1, <1>2, <1>3, <1>6, <1>9 DEF IInv, DocInv, Sound, FreshInv
<1>13. KeptInv'
  <2> SUFFICES ASSUME named, ~misled PROVE KeptInv' BY <1>1 DEF KeptInv
  <2>1. /\ \A i \in DOMAIN stored_chain :
             /\ stored_chain[i].name = i
             /\ i + 1 \in DOMAIN blocks /\ blocks[i + 1].hash = stored_chain[i].hash
        /\ n = Len(stored_chain) + 1 /\ file = stored_chain /\ tip.id = n - 1
    BY <1>1 DEF IInv, KeptInv, Fresh, n
  <2>2. Fresh' /\ n + 1 = Len(stored_chain) + 2 /\ b.id = n
    BY <1>1, <1>2, <1>3, <2>1 DEF Fresh
  <2>3. \A i \in DOMAIN stored_chain :
             i + 1 \in DOMAIN blocks' /\ blocks'[i + 1].hash = stored_chain[i].hash
    BY <1>2, <1>4, <2>1
  <2> QED BY <1>1, <1>2, <1>4, <1>6, <2>1, <2>2, <2>3 DEF KeptInv
<1>14. LinkedInv'
  <2>1. loaded \in 1..n BY DEF IInv, LinkedInv, n
  <2>2. ASSUME named, ~misled, NEW i \in 2..n + 1
        PROVE  blocks'[i].prev = (IF i <= loaded THEN blocks'[i] ELSE blocks'[i - 1]).hash
    <3>1. CASE i = n + 1
      <4>1. tip.hash = blocks[n].hash BY <1>1, <1>6, <2>2 DEF IInv, KeptInv
      <4>2. n \in DOMAIN blocks /\ i - 1 = n /\ ~(i <= loaded) BY <1>2, <1>5, <2>1, <3>1
      <4> QED BY <1>3, <1>4, <3>1, <4>1, <4>2
    <3>2. CASE i \in 2..n
      <4>1. blocks[i].prev = (IF i <= loaded THEN blocks[i] ELSE blocks[i - 1]).hash
        BY <2>2, <3>2 DEF IInv, LinkedInv, LinkedButForLoaded, n
      <4>2. i \in DOMAIN blocks /\ i - 1 \in DOMAIN blocks BY <1>2, <3>2
      <4> QED BY <1>4, <4>1, <4>2
    <3> QED BY <1>2, <3>1, <3>2
  <2>3. loaded \in 1..n + 1 BY <1>2, <2>1
  <2> QED BY <1>1, <1>4, <2>2, <2>3 DEF LinkedInv, LinkedButForLoaded
<1> QED BY <1>7, <1>8, <1>11, <1>12, <1>13, <1>14 DEF IInv

LEMMA OpenFileKeeps == ASSUME IInv, OpenFile PROVE IInv'
<1> DEFINE b == Block
           n == Len(blocks)
           m == Len(stored_chain)
<1>1. /\ step = "write" /\ step' = "flush" /\ Fresh /\ ~Fresh'
      /\ stored_chain' = Put(stored_chain, b) /\ file' = <<>>
      /\ UNCHANGED <<blocks, named, tip, hung, misled, loaded, made>>
  BY DEF OpenFile, Fresh, memory, bounds
<1>2. /\ n \in Nat /\ DOMAIN blocks = 1..n /\ n \in DOMAIN blocks
      /\ b = blocks[n] /\ b \in Blocks /\ b.id \in Nat
  BY Types DEF IInv, BlocksInv, Block, Last
<1>3. /\ stored_chain \in Seq(Entries) /\ m \in Nat /\ DOMAIN stored_chain = 1..m
      /\ Sound(stored_chain) /\ OnChain(stored_chain)
  BY Types DEF IInv, TypeInv, DocInv
<1>4. /\ made \in Nat /\ made > 0 /\ b.hash = made
      /\ \A i \in DOMAIN stored_chain : stored_chain[i].hash < made
  BY <1>1 DEF IInv, TypeInv, FreshInv
<1>5. Block' = b BY <1>1 DEF Block
<1> HIDE DEF b, n, m
<1>6. /\ stored_chain' \in Seq(Entries) /\ Sound(stored_chain')
      /\ \A i \in DOMAIN stored_chain' :
           stored_chain'[i].hash = b.hash \/ (i \in DOMAIN stored_chain /\ stored_chain'[i] = stored_chain[i])
  BY <1>1, <1>2, <1>3, <1>4, PutSound
<1>7. TypeInv' BY <1>1, <1>6 DEF IInv, TypeInv
<1>8. BlocksInv' BY <1>1 DEF IInv, BlocksInv
<1>9. Sound(stored_chain)' /\ Sound(file)' /\ OnChain(file)'
  BY <1>1, <1>6 DEF Sound, OnChain
<1>10. OnChain(stored_chain)' BY <1>1, <1>2, <1>3, <1>6 DEF OnChain
<1>11. DocInv' BY <1>9, <1>10 DEF DocInv
<1>12. FreshInv' BY <1>1 DEF FreshInv
<1>13. KeptInv'
  <2> SUFFICES ASSUME named, ~misled PROVE KeptInv' BY <1>1 DEF KeptInv
  <2>1. /\ \A i \in DOMAIN stored_chain :
             /\ stored_chain[i].name = i
             /\ i + 1 \in DOMAIN blocks /\ blocks[i + 1].hash = stored_chain[i].hash
        /\ n = m + 2 /\ b.id = n - 1
    BY <1>1 DEF IInv, KeptInv, n, m, b
  <2>2. \A i \in DOMAIN stored_chain : stored_chain[i].name # b.id
    BY <1>3, <2>1
  <2>3. stored_chain' = Append(stored_chain, Stored(b))
    BY <1>1, <2>2 DEF Put
  <2>4. /\ Len(stored_chain') = m + 1
        /\ stored_chain'[m + 1] = Stored(b)
        /\ \A i \in DOMAIN stored_chain : stored_chain'[i] = stored_chain[i]
        /\ \A i \in DOMAIN stored_chain' : i \in DOMAIN stored_chain \/ i = m + 1
    BY <1>2, <1>3, <2>3, StoredEntry, Appended DEF m
  <2>5. ASSUME NEW i \in DOMAIN stored_chain'
        PROVE  /\ stored_chain'[i].name = i
               /\ i + 1 \in DOMAIN blocks /\ blocks[i + 1].hash = stored_chain'[i].hash
    <3>1. CASE i \in DOMAIN stored_chain BY <2>1, <2>4, <3>1
    <3>2. CASE i = m + 1 BY <1>2, <1>3, <2>1, <2>4, <3>2, StoredEntry
    <3> QED BY <2>4, <3>1, <3>2
  <2> QED BY <1>1, <1>3, <1>5, <2>1, <2>4, <2>5 DEF KeptInv, n
<1>14. LinkedInv' BY <1>1 DEF IInv, LinkedInv, LinkedButForLoaded
<1> QED BY <1>7, <1>8, <1>11, <1>12, <1>13, <1>14 DEF IInv

LEMMA WriteFileKeeps == ASSUME IInv, WriteFile PROVE IInv'
<1>1. /\ step = "flush" /\ step' = "reply" /\ ~Fresh /\ ~Fresh' /\ file' = stored_chain
      /\ UNCHANGED <<blocks, stored_chain, named, tip, hung, misled, loaded, made>>
  BY DEF WriteFile, Flushed, Fresh, memory, bounds
<1>2. TypeInv' BY <1>1 DEF IInv, TypeInv
<1>3. BlocksInv' BY <1>1 DEF IInv, BlocksInv
<1>4. DocInv' BY <1>1 DEF IInv, DocInv, Sound, OnChain
<1>5. FreshInv' BY <1>1 DEF FreshInv
<1>6. KeptInv' BY <1>1 DEF IInv, KeptInv, Block
<1>7. LinkedInv' BY <1>1 DEF IInv, LinkedInv, LinkedButForLoaded
<1> QED BY <1>2, <1>3, <1>4, <1>5, <1>6, <1>7 DEF IInv

LEMMA ReplyKeeps == ASSUME IInv, Reply PROVE IInv'
<1>1. /\ step = "reply" /\ step' = "idle" /\ ~Fresh /\ ~Fresh'
      /\ tip' = [id |-> Block.id, hash |-> Block.hash]
      /\ UNCHANGED <<blocks, stored_chain, file, named, hung, misled, loaded, made>>
  BY DEF Reply, Fresh, memory, bounds
<1>2. Block.id \in Nat /\ Block.hash \in Nat
  BY Types DEF IInv, BlocksInv, Block, Last
<1>3. TypeInv' BY <1>1, <1>2 DEF IInv, TypeInv
<1>4. BlocksInv' BY <1>1 DEF IInv, BlocksInv
<1>5. DocInv' BY <1>1 DEF IInv, DocInv, Sound, OnChain
<1>6. FreshInv' BY <1>1 DEF FreshInv
<1>7. KeptInv' BY <1>1 DEF IInv, KeptInv, Block
<1>8. LinkedInv' BY <1>1 DEF IInv, LinkedInv, LinkedButForLoaded
<1> QED BY <1>3, <1>4, <1>5, <1>6, <1>7, <1>8 DEF IInv

LEMMA StopKeeps == ASSUME IInv, Stop PROVE IInv'
<1>1. /\ step # "down" /\ step' = "down" /\ ~Fresh'
      /\ file' \in IF step = "flush"
                   THEN {SubSeq(stored_chain, 1, n) : n \in 0..Len(stored_chain)} ELSE {file}
      /\ hung' = (hung \/ step # "idle")
      /\ UNCHANGED <<blocks, stored_chain, named, tip, misled, loaded, made>>
  BY DEF Stop, Fresh, memory, bounds
<1>2. stored_chain \in Seq(Entries) /\ file \in Seq(Entries) /\ hung \in BOOLEAN
  BY DEF IInv, TypeInv
<1>3. \/ step # "flush" /\ file' = file
      \/ step = "flush" /\ \E n \in 0..Len(stored_chain) : file' = SubSeq(stored_chain, 1, n)
  BY <1>1
<1>4. file' \in Seq(Entries) BY <1>2, <1>3, Prefix
<1>5. TypeInv' BY <1>1, <1>2, <1>4 DEF IInv, TypeInv
<1>6. BlocksInv' BY <1>1 DEF IInv, BlocksInv
<1>7. Sound(stored_chain)' /\ OnChain(stored_chain)'
  BY <1>1 DEF IInv, DocInv, Sound, OnChain
<1>8. ASSUME named PROVE Sound(file)' /\ OnChain(file)'
  <2>1. CASE file' = file
    BY <1>1, <1>8, <2>1 DEF IInv, DocInv, Sound, OnChain
  <2>2. ASSUME NEW n \in 0..Len(stored_chain), file' = SubSeq(stored_chain, 1, n)
        PROVE  Sound(file)' /\ OnChain(file)'
    <3>1. \A i \in DOMAIN file' : i \in DOMAIN stored_chain /\ file'[i] = stored_chain[i]
      BY <1>2, <2>2, Prefix
    <3> QED BY <1>1, <3>1 DEF IInv, DocInv, Sound, OnChain
  <2> QED BY <1>3, <2>1, <2>2
<1>9. DocInv' BY <1>1, <1>7, <1>8 DEF DocInv
<1>10. FreshInv' BY <1>1 DEF FreshInv
<1>11. KeptInv'
  <2> SUFFICES ASSUME named, ~misled PROVE KeptInv' BY <1>1 DEF KeptInv
  <2>1. \E n \in 0..Len(stored_chain) : file' = SubSeq(stored_chain, 1, n)
    <3>1. CASE step # "flush"
      <4>1. file' = stored_chain BY <1>1, <1>3, <3>1 DEF IInv, KeptInv
      <4> QED BY <1>2, <4>1, WholePrefix
    <3> QED BY <1>3, <3>1
  <2>2. ASSUME ~hung'
        PROVE  /\ file' = stored_chain /\ Len(blocks) = Len(stored_chain) + 1
               /\ tip.hash = Block.hash /\ tip.id = Len(blocks) - 1
    BY <1>1, <1>3, <2>2 DEF IInv, KeptInv, Fresh
  <2> QED BY <1>1, <2>1, <2>2 DEF IInv, KeptInv, Block
<1>12. LinkedInv' BY <1>1 DEF IInv, LinkedInv, LinkedButForLoaded
<1> QED BY <1>5, <1>6, <1>9, <1>10, <1>11, <1>12 DEF IInv

(* The chain after a restart: genesis and what the document has.           *)
LEMMA RestartChain ==
  ASSUME IInv, Restart
  PROVE  LET doc == IF named THEN file ELSE <<>>
         IN  /\ stored_chain' = doc /\ doc \in Seq(Entries) /\ Sound(doc) /\ OnChain(doc)
             /\ Len(doc) \in Nat /\ DOMAIN doc = 1..Len(doc)
             /\ blocks' \in Seq(Blocks) /\ blocks' # <<>> /\ blocks'[1] = Genesis
             /\ Len(blocks') = Len(doc) + 1 /\ DOMAIN blocks' = 1..Len(doc) + 1
             /\ \A i \in DOMAIN doc : blocks'[i + 1].hash = doc[i].hash /\ blocks'[i + 1].prev = doc[i].prev
             /\ \A i \in DOMAIN blocks' : i # 1 =>
                  /\ i - 1 \in DOMAIN doc
                  /\ blocks'[i].hash = doc[i - 1].hash /\ blocks'[i].prev = doc[i - 1].prev
<1> DEFINE doc == IF named THEN file ELSE <<>>
<1>1. PICK g \in Garbage : blocks' = <<Genesis>> \o Loaded(doc, g)
  BY Zenon DEF Restart
<1>2. g \in Nat BY BlockChainAssumption
<1>3. stored_chain' = doc BY Zenon DEF Restart
<1>4. doc \in Seq(Entries) /\ Sound(doc) /\ OnChain(doc)
  <2>1. CASE named BY <2>1 DEF IInv, TypeInv, DocInv
  <2>2. CASE ~named BY <2>2 DEF Sound, OnChain
  <2> QED BY <2>1, <2>2
<1> HIDE DEF doc
<1>5. Len(doc) \in Nat /\ DOMAIN doc = 1..Len(doc) BY <1>4, SeqDomain
<1> DEFINE rest == Loaded(doc, g)
<1>6. /\ rest \in Seq(Blocks) /\ Len(rest) = Len(doc) /\ DOMAIN rest = DOMAIN doc
      /\ \A i \in DOMAIN doc : rest[i].hash = doc[i].hash /\ rest[i].prev = doc[i].prev
  BY <1>2, <1>4, LoadedEntries
<1> HIDE DEF rest
<1>7. /\ blocks' \in Seq(Blocks) /\ blocks' # <<>> /\ blocks'[1] = Genesis
      /\ Len(blocks') = Len(doc) + 1 /\ DOMAIN blocks' = 1..Len(doc) + 1
      /\ \A i \in DOMAIN rest : blocks'[i + 1] = rest[i]
      /\ \A i \in DOMAIN blocks' : i # 1 => i - 1 \in DOMAIN rest /\ blocks'[i] = rest[i - 1]
  BY <1>1, <1>6, GenesisType, AfterGenesis DEF rest
<1> QED BY <1>3, <1>4, <1>5, <1>6, <1>7 DEF doc

LEMMA RestartKeeps == ASSUME IInv, Restart PROVE IInv'
<1> DEFINE doc == IF named THEN file ELSE <<>>
<1>1. /\ stored_chain' = doc /\ doc \in Seq(Entries) /\ Sound(doc) /\ OnChain(doc)
      /\ Len(doc) \in Nat /\ DOMAIN doc = 1..Len(doc)
      /\ blocks' \in Seq(Blocks) /\ blocks' # <<>> /\ blocks'[1] = Genesis
      /\ Len(blocks') = Len(doc) + 1 /\ DOMAIN blocks' = 1..Len(doc) + 1
  BY RestartChain
<1>2. /\ \A i \in DOMAIN doc : blocks'[i + 1].hash = doc[i].hash /\ blocks'[i + 1].prev = doc[i].prev
      /\ \A i \in DOMAIN blocks' : i # 1 =>
           /\ i - 1 \in DOMAIN doc
           /\ blocks'[i].hash = doc[i - 1].hash /\ blocks'[i].prev = doc[i - 1].prev
  BY RestartChain
<1>3. /\ step = "down" /\ step' = "idle" /\ ~Fresh' /\ loaded' = Len(blocks')
      /\ UNCHANGED <<file, named, tip, hung, misled, made>>
  BY Zenon DEF Restart, Fresh
<1>4. made \in Nat BY DEF IInv, TypeInv
<1>5. named => doc = file OBVIOUS
<1> HIDE DEF doc
<1>6. TypeInv' BY <1>1, <1>3 DEF IInv, TypeInv
<1>7. BlocksInv'
  <2>1. ASSUME NEW i \in DOMAIN blocks' PROVE blocks'[i].hash <= made
    <3>1. CASE i = 1 BY <1>1, <1>4, <3>1, GenesisType
    <3>2. CASE i # 1 BY <1>1, <1>2, <3>2 DEF Sound
    <3> QED BY <3>1, <3>2
  <2>2. ASSUME NEW i \in DOMAIN blocks', NEW j \in DOMAIN blocks', blocks'[i].hash = blocks'[j].hash
        PROVE  i = j
    <3>1. \A k \in DOMAIN doc : doc[k].hash > 0 BY <1>1 DEF Sound
    <3>2. CASE i # 1 /\ j # 1
      <4>1. i - 1 = j - 1 BY <1>1, <1>2, <2>2, <3>2 DEF Sound
      <4> QED BY <1>1, <4>1
    <3>3. CASE i = 1 /\ j # 1 BY <1>1, <1>2, <2>2, <3>1, <3>3, GenesisType
    <3>4. CASE i # 1 /\ j = 1 BY <1>1, <1>2, <2>2, <3>1, <3>4, GenesisType
    <3> QED BY <3>2, <3>3, <3>4
  <2> QED BY <1>1, <1>3, <2>1, <2>2 DEF BlocksInv
<1>8. OnChain(stored_chain)'
  <2> SUFFICES ASSUME NEW i \in DOMAIN doc
               PROVE  \E k \in DOMAIN blocks' : blocks'[k].hash = doc[i].hash
    BY <1>1 DEF OnChain
  <2>1. i + 1 \in DOMAIN blocks' BY <1>1
  <2> QED BY <1>2, <2>1
<1>9. Sound(stored_chain)' BY <1>1, <1>3 DEF Sound
<1>10. DocInv' BY <1>1, <1>3, <1>5, <1>8, <1>9 DEF DocInv
<1>11. FreshInv' BY <1>3 DEF FreshInv
<1>12. KeptInv'
  <2> SUFFICES ASSUME named, ~misled PROVE KeptInv' BY <1>3 DEF KeptInv
  <2>1. PICK n \in 0..Len(stored_chain) : file = SubSeq(stored_chain, 1, n)
    BY <1>3 DEF IInv, KeptInv
  <2>2. /\ Len(doc) = n /\ DOMAIN doc = 1..n /\ 1..n \subseteq DOMAIN stored_chain
        /\ \A i \in 1..n : doc[i] = stored_chain[i]
    BY <1>5, <2>1, Prefix DEF IInv, TypeInv
  <2>3. \A i \in DOMAIN doc :
          /\ doc[i].name = i
          /\ i + 1 \in DOMAIN blocks' /\ blocks'[i + 1].hash = doc[i].hash
    <3>1. ASSUME NEW i \in DOMAIN doc
          PROVE  /\ doc[i].name = i
                 /\ i + 1 \in DOMAIN blocks /\ blocks[i + 1].hash = doc[i].hash
      <4>1. i \in DOMAIN stored_chain /\ doc[i] = stored_chain[i] BY <2>2
      <4> QED BY <1>3, <4>1 DEF IInv, KeptInv
    <3> SUFFICES ASSUME NEW i \in DOMAIN doc
                 PROVE  /\ doc[i].name = i
                        /\ i + 1 \in DOMAIN blocks' /\ blocks'[i + 1].hash = doc[i].hash
      OBVIOUS
    <3> QED BY <1>1, <1>2, <3>1
  <2>4. ASSUME ~hung PROVE tip.hash = Block'.hash /\ tip.id = Len(blocks') - 1
    <3>1. /\ Len(blocks) = Len(stored_chain) + 1 /\ doc = stored_chain
          /\ tip.hash = Block.hash /\ tip.id = Len(blocks) - 1
      BY <1>3, <1>5, <2>4 DEF IInv, KeptInv
    <3>2. Len(blocks') = Len(blocks) BY <1>1, <3>1
    <3>3. Block'.hash = Block.hash
      <4>1. Block = blocks[Len(doc) + 1] /\ Block' = blocks'[Len(doc) + 1]
        BY <1>1, <3>1 DEF Block, Last
      <4>2. CASE Len(doc) = 0 BY <1>1, <4>1, <4>2 DEF IInv, BlocksInv
      <4>3. CASE Len(doc) # 0
        <5>1. Len(doc) \in DOMAIN doc BY <1>1, <4>3
        <5>2. blocks[Len(doc) + 1].hash = doc[Len(doc)].hash
          BY <1>3, <3>1, <5>1 DEF IInv, KeptInv
        <5> QED BY <1>2, <4>1, <5>1, <5>2
      <4> QED BY <4>2, <4>3
    <3> QED BY <3>1, <3>2, <3>3
  <2> QED BY <1>1, <1>3, <1>5, <2>3, <2>4 DEF KeptInv
<1>13. LinkedInv'
  <2>1. \A i \in 2..Len(blocks') : i \in DOMAIN blocks' /\ i # 1 /\ i <= loaded'
    BY <1>1, <1>3
  <2>2. ASSUME NEW i \in 2..Len(blocks') PROVE blocks'[i].prev = blocks'[i].hash
    <3>1. /\ i - 1 \in DOMAIN doc
          /\ blocks'[i].hash = doc[i - 1].hash /\ blocks'[i].prev = doc[i - 1].prev
      BY <1>2, <2>1
    <3> QED BY <1>1, <3>1 DEF Sound
  <2>3. loaded' \in 1..Len(blocks') BY <1>1, <1>3
  <2> QED BY <2>1, <2>2, <2>3 DEF LinkedInv, LinkedButForLoaded
<1> QED BY <1>6, <1>7, <1>10, <1>11, <1>12, <1>13 DEF IInv

LEMMA RestartMetronomeKeeps == ASSUME IInv, RestartMetronome PROVE IInv'
<1> DEFINE n == Len(blocks)
<1>1. /\ step = "idle" /\ ~Fresh /\ ~Fresh' /\ hung' = FALSE
      /\ tip' = [id |-> Block.id, hash |-> Block.hash]
      /\ misled' = (misled \/ \E i \in DOMAIN stored_chain :
                                stored_chain[i].hash = Block.hash /\ stored_chain[i].name # Block.id)
      /\ UNCHANGED <<blocks, stored_chain, file, named, step, loaded, made>>
  BY DEF RestartMetronome, Fresh, memory, local, bounds
<1>2. /\ n \in Nat /\ n >= 1 /\ DOMAIN blocks = 1..n /\ Block = blocks[n]
      /\ Block.id \in Nat /\ Block.hash \in Nat
  BY Types DEF IInv, BlocksInv, Block, Last
<1>3. TypeInv' BY <1>1, <1>2 DEF IInv, TypeInv
<1>4. BlocksInv' BY <1>1 DEF IInv, BlocksInv
<1>5. DocInv' BY <1>1 DEF IInv, DocInv, Sound, OnChain
<1>6. FreshInv' BY <1>1 DEF FreshInv
<1>7. KeptInv'
  <2> SUFFICES ASSUME named, ~misled' PROVE KeptInv' BY <1>1 DEF KeptInv
  <2>1. ~misled BY <1>1
  <2>2. n = Len(stored_chain) + 1 BY <1>1, <2>1 DEF IInv, KeptInv
  <2>3. Block.id = n - 1
    <3>1. CASE n = 1 BY <1>2, <3>1, GenesisType DEF IInv, BlocksInv
    <3>2. CASE n # 1
      <4>1. n - 1 \in DOMAIN stored_chain BY <1>2, <2>2, <3>2, Types DEF IInv
      <4>2. stored_chain[n - 1].name = n - 1 /\ stored_chain[n - 1].hash = Block.hash
        <5>1. (n - 1) + 1 = n BY <1>2
        <5>2. \A i \in DOMAIN stored_chain :
                stored_chain[i].name = i /\ blocks[i + 1].hash = stored_chain[i].hash
          BY <2>1 DEF IInv, KeptInv
        <5> QED BY <1>2, <4>1, <5>1, <5>2
      <4>3. ~(stored_chain[n - 1].hash = Block.hash /\ stored_chain[n - 1].name # Block.id)
        BY <1>1, <4>1
      <4> QED BY <4>2, <4>3
    <3> QED BY <3>1, <3>2
  <2> QED BY <1>1, <2>1, <2>3 DEF IInv, KeptInv, Block
<1>8. LinkedInv' BY <1>1 DEF IInv, LinkedInv, LinkedButForLoaded
<1> QED BY <1>3, <1>4, <1>5, <1>6, <1>7, <1>8 DEF IInv

LEMMA IInvStep == ASSUME IInv, [Next]_vars PROVE IInv'
<1>1. ASSUME UNCHANGED vars \/ CreditDest \/ DebitSrc \/ SyncDone PROVE IInv'
  <2>1. UNCHANGED chainVars /\ (step' = step \/ (Fresh /\ Fresh' /\ step' \in {"credit", "debit", "write"}))
    BY <1>1 DEF vars, CreditDest, DebitSrc, SyncDone, chainVars, memory, local, bounds, Fresh
  <2> QED BY <2>1, QuietKeeps
<1> QED BY <1>1, AddBlockKeeps, OpenFileKeeps, WriteFileKeeps, ReplyKeeps, StopKeeps,
           RestartKeeps, RestartMetronomeKeeps DEF Next

THEOREM BlockChainInvariance == Spec => []IInv
BY InitIInv, IInvStep, PTL DEF Spec

-----------------------------------------------------------------------------
(* After each reply the file is the chain, through any number of stops at  *)
(* any point, unless the metronome counts on from an id nobody wrote.      *)
THEOREM FileHoldsChain == Spec => []FileIsChain
<1>1. IInv => FileIsChain
  <2> SUFFICES ASSUME IInv, named, ~misled, step \in {"idle", "reply"}
               PROVE  /\ [i \in DOMAIN file |-> file[i].hash] = [i \in DOMAIN file |-> blocks[i + 1].hash]
                      /\ Len(file) = Len(blocks) - 1
    BY DEF FileIsChain
  <2>1. /\ file = stored_chain /\ Len(blocks) = Len(stored_chain) + 1
        /\ \A i \in DOMAIN stored_chain : blocks[i + 1].hash = stored_chain[i].hash
    BY DEF IInv, KeptInv, Fresh
  <2>2. Len(file) = Len(blocks) - 1 BY <2>1, Types DEF IInv
  <2> QED BY <2>1, <2>2
<1> QED BY <1>1, BlockChainInvariance, PTL

(* Blocks made after a restart continue the chain that was read back.      *)
THEOREM ChainStaysLinked == Spec => []LinkedButForLoaded
BY BlockChainInvariance, PTL DEF IInv, LinkedInv

(* No restart invents or repeats a block, whatever the file was left with. *)
THEOREM NothingInvented == Spec => RestartInventsNothing
<1>1. ASSUME IInv, Restart
      PROVE  /\ Hashes(blocks') \subseteq Hashes(blocks)
             /\ \A i, j \in DOMAIN blocks' : blocks'[i].hash = blocks'[j].hash => i = j
  <2> DEFINE doc == IF named THEN file ELSE <<>>
  <2>1. /\ OnChain(doc) /\ blocks'[1] = Genesis
        /\ \A i \in DOMAIN blocks' : i # 1 => i - 1 \in DOMAIN doc /\ blocks'[i].hash = doc[i - 1].hash
    BY <1>1, RestartChain
  <2> HIDE DEF doc
  <2>2. 1 \in DOMAIN blocks /\ blocks[1] = Genesis
    BY <1>1, Types DEF IInv, BlocksInv
  <2>3. ASSUME NEW i \in DOMAIN blocks' PROVE blocks'[i].hash \in Hashes(blocks)
    <3>1. CASE i = 1 BY <2>1, <2>2, <3>1 DEF Hashes
    <3>2. CASE i # 1 BY <2>1, <3>2 DEF Hashes, OnChain
    <3> QED BY <3>1, <3>2
  <2>4. BlocksInv' BY <1>1, RestartKeeps DEF IInv
  <2> QED BY <2>3, <2>4 DEF Hashes, BlocksInv
<1>2. IInv /\ [Next]_vars => [Restart => /\ Hashes(blocks') \subseteq Hashes(blocks)
          /\ \A i, j \in DOMAIN blocks' : blocks'[i].hash = blocks'[j].hash => i = j]_vars
  BY <1>1
<1> QED BY <1>2, BlockChainInvariance, PTL DEF Spec, RestartInventsNothing

-----------------------------------------------------------------------------
(* Induction over numbers and over finite sets, without an operator as a   *)
(* parameter: what is not empty has a least element.                       *)
Below == {p \in Nat \X Nat : p[1] < p[2]}

LEMMA LeastNat ==
  ASSUME NEW T, T \subseteq Nat, T # {}
  PROVE  \E n \in T : \A m \in T : n <= m
<1>1. IsWellFoundedOn(Below, Nat) BY NatLessThanWellFounded DEF OpToRel, Below
<1>2. \E n \in T : \A m \in T : ~(<<m, n>> \in Below) BY <1>1, WFMin
<1>3. \A n, m \in Nat : <<m, n>> \in Below <=> m < n BY DEF Below
<1>4. \A n, m \in T : ~(m < n) => n <= m OBVIOUS
<1> QED BY <1>2, <1>3, <1>4

LEMMA LeastSet ==
  ASSUME NEW S, IsFiniteSet(S), NEW T, T \subseteq SUBSET S, T # {}
  PROVE  \E t \in T : \A u \in T : u \subseteq t => u = t
<1>1. T \subseteq FiniteSubsetsOf(S) BY FS_Subset DEF FiniteSubsetsOf
<1>2. IsWellFoundedOn(StrictSubsetOrdering(S), FiniteSubsetsOf(S))
  BY FS_StrictSubsetOrderingWellFounded
<1>3. PICK t \in T : \A u \in T : ~(<<u, t>> \in StrictSubsetOrdering(S))
  BY <1>1, <1>2, WFMin
<1> QED BY <1>3 DEF StrictSubsetOrdering

(* The last of finitely many numbers.                                      *)
LEMMA MaxIs ==
  ASSUME NEW n \in Nat, NEW s \in SUBSET (1..n), s # {}
  PROVE  Max(s) \in s /\ \A i \in s : i <= Max(s)
<1> DEFINE T == {n - i : i \in s}
<1>1. T \subseteq Nat /\ T # {} OBVIOUS
<1>2. PICK k \in T : \A j \in T : k <= j BY <1>1, LeastNat
<1>3. PICK m \in s : k = n - m BY <1>2
<1>4. \A i \in s : i <= m
  <2> SUFFICES ASSUME NEW i \in s PROVE i <= m OBVIOUS
  <2>1. n - m <= n - i BY <1>2, <1>3
  <2>2. i \in 1..n /\ m \in 1..n OBVIOUS
  <2> QED BY <2>1, <2>2
<1> QED BY <1>3, <1>4 DEF Max

-----------------------------------------------------------------------------
(* The folds of the community modules are a function on the subsets of a   *)
(* set, defined by recursion.  Such a function exists for finite sets.     *)
Fold(g, S, base, c, F) ==
  g = [s \in SUBSET S |-> IF s = {} THEN base ELSE F[<<c[s], g[s \ {c[s]}]>>]]

Picks(c, S) == \A s \in SUBSET S : s # {} => c[s] \in s

LEMMA FoldsAgree ==
  ASSUME NEW S, IsFiniteSet(S), NEW T, NEW base, NEW c, NEW F, Picks(c, S),
         NEW g, NEW h, Fold(g, S, base, c, F), Fold(h, T, base, c, F), NEW u, u \subseteq S, u \subseteq T
  PROVE  g[u] = h[u]
<1> DEFINE W == {s \in SUBSET u : g[s] # h[s]}
<1> SUFFICES ASSUME W # {} PROVE FALSE OBVIOUS
<1>0. \E s \in W : \A t \in W : t \subseteq s => t = s
  <2>1. W \subseteq SUBSET S OBVIOUS
  <2> HIDE DEF W
  <2> QED BY <2>1, LeastSet
<1>1. PICK s \in W : \A t \in W : t \subseteq s => t = s BY <1>0
<1>2. /\ g[s] = IF s = {} THEN base ELSE F[<<c[s], g[s \ {c[s]}]>>]
      /\ h[s] = IF s = {} THEN base ELSE F[<<c[s], h[s \ {c[s]}]>>]
  BY <1>1 DEF Fold
<1>3. s # {} BY <1>1, <1>2
<1>4. c[s] \in s BY <1>1, <1>3 DEF Picks
<1>5. g[s \ {c[s]}] = h[s \ {c[s]}] BY <1>1, <1>4
<1> QED BY <1>1, <1>2, <1>5

LEMMA FoldExists ==
  ASSUME NEW S, IsFiniteSet(S), NEW base, NEW c, NEW F, Picks(c, S)
  PROVE  \E g : Fold(g, S, base, c, F)
<1> DEFINE W == {s \in SUBSET S : ~\E g : Fold(g, s, base, c, F)}
<1> SUFFICES ASSUME W # {} PROVE FALSE OBVIOUS
<1>0. \E s \in W : \A t \in W : t \subseteq s => t = s
  <2>1. W \subseteq SUBSET S OBVIOUS
  <2> HIDE DEF W
  <2> QED BY <2>1, LeastSet
<1>1. PICK s \in W : \A t \in W : t \subseteq s => t = s BY <1>0
<1> DEFINE P(t) == CHOOSE g : Fold(g, t, base, c, F)
<1>2. \A t \in SUBSET s : t # s => Fold(P(t), t, base, c, F) BY <1>1
<1>3. s \in SUBSET S OBVIOUS
<1> HIDE DEF P, W
<1> DEFINE
      G == [t \in SUBSET s |->
              IF t = s /\ s # {} THEN F[<<c[s], P(s \ {c[s]})[s \ {c[s]}]>>]
              ELSE IF t = {} THEN base ELSE P(t)[t]]
<1>4. ASSUME NEW t \in SUBSET s
      PROVE  G[t] = IF t = {} THEN base ELSE F[<<c[t], G[t \ {c[t]}]>>]
  <2>1. CASE t = {} BY <2>1
  <2>2. CASE t # {}
    <3>1. c[t] \in t BY <1>3, <2>2 DEF Picks
    <3> DEFINE u == t \ {c[t]}
    <3>2. u \in SUBSET s /\ u # s BY <3>1
    <3>3. G[u] = P(u)[u]
      <4>1. CASE u = {}
        <5>1. Fold(P(u), u, base, c, F) BY <1>2, <3>2
        <5>2. P(u)[u] = base BY <4>1, <5>1 DEF Fold
        <5> QED BY <3>2, <4>1, <5>2
      <4>2. CASE u # {} BY <3>2, <4>2
      <4> QED BY <4>1, <4>2
    <3>4. CASE t = s BY <2>2, <3>3, <3>4
    <3>5. CASE t # s
      <4>1. Fold(P(t), t, base, c, F) /\ Fold(P(u), u, base, c, F) BY <1>2, <3>2, <3>5
      <4>2. P(t)[t] = F[<<c[t], P(t)[u]>>] BY <2>2, <4>1 DEF Fold
      <4>3. P(t)[u] = P(u)[u]
        <5>1. IsFiniteSet(t) /\ Picks(c, t) BY <1>3, FS_Subset DEF Picks
        <5>2. u \subseteq t OBVIOUS
        <5> HIDE DEF u
        <5> QED BY <4>1, <5>1, <5>2, FoldsAgree
      <4> QED BY <2>2, <3>3, <3>5, <4>2, <4>3
    <3> QED BY <3>4, <3>5
  <2> QED BY <2>1, <2>2
<1>5. G = [t \in SUBSET s |-> IF t = {} THEN base ELSE F[<<c[t], G[t \ {c[t]}]>>]]
  BY <1>4
<1> HIDE DEF G
<1>6. Fold(G, s, base, c, F) BY <1>5 DEF Fold
<1> QED BY <1>1, <1>6 DEF W

LEMMA FoldTyped ==
  ASSUME NEW S, IsFiniteSet(S), NEW X, NEW base \in X, NEW c, NEW F \in [S \X X -> X], Picks(c, S),
         NEW g, Fold(g, S, base, c, F)
  PROVE  \A s \in SUBSET S : g[s] \in X
<1> DEFINE W == {s \in SUBSET S : g[s] \notin X}
<1> SUFFICES ASSUME W # {} PROVE FALSE OBVIOUS
<1>0. \E s \in W : \A t \in W : t \subseteq s => t = s
  <2>1. W \subseteq SUBSET S OBVIOUS
  <2> HIDE DEF W
  <2> QED BY <2>1, LeastSet
<1>1. PICK s \in W : \A t \in W : t \subseteq s => t = s BY <1>0
<1>2. g[s] = IF s = {} THEN base ELSE F[<<c[s], g[s \ {c[s]}]>>] BY <1>1 DEF Fold
<1>3. s # {} BY <1>1, <1>2
<1>4. c[s] \in s /\ c[s] \in S BY <1>1, <1>3 DEF Picks
<1>5. g[s \ {c[s]}] \in X BY <1>1, <1>4
<1> QED BY <1>1, <1>2, <1>3, <1>4, <1>5

-----------------------------------------------------------------------------
(* Balances.                                                               *)
Ledgers == UNION {[D -> 0..Modulus - 1] : D \in SUBSET Acc}

(* Remainders.                                                             *)
LEMMA ModIs ==
  ASSUME NEW w \in Nat \ {0}, NEW q \in Nat, NEW r \in 0..w - 1
  PROVE  (w * q + r) % w = r
BY SMT

LEMMA SumMod ==
  ASSUME NEW w \in Nat \ {0}, NEW x \in Nat, NEW y \in Nat
  PROVE  ((x % w) + y) % w = (x + y) % w
<1> DEFINE q == x \div w
           r == x % w
           p == (r + y) \div w
           v == (r + y) % w
<1>1. q \in Nat /\ r \in Nat /\ x = w * q + r BY SMT
<1> HIDE DEF q, r
<1>2. p \in Nat /\ v \in 0..w - 1 /\ r + y = w * p + v BY <1>1, SMT
<1> HIDE DEF p, v
<1>3. w * (q + p) = w * q + w * p /\ q + p \in Nat BY <1>1, <1>2, SMT
<1>4. x + y = w * (q + p) + v BY <1>1, <1>2, <1>3, SMT
<1>5. (x + y) % w = v BY <1>2, <1>3, <1>4, ModIs
<1> QED BY <1>5 DEF v, r

LEMMA ModSelf == ASSUME NEW w \in Nat \ {0}, NEW x \in Nat PROVE (x + w) % w = x % w
<1> DEFINE q == x \div w
           r == x % w
<1>1. q \in Nat /\ r \in 0..w - 1 /\ x = w * q + r BY SMT
<1> HIDE DEF q, r
<1>2. w * (q + 1) = w * q + w /\ q + 1 \in Nat BY <1>1, SMT
<1>3. x + w = w * (q + 1) + r BY <1>1, <1>2, SMT
<1>4. (x + w) % w = r BY <1>1, <1>2, <1>3, ModIs
<1> QED BY <1>4 DEF r

LEMMA Mod ==
  ASSUME NEW x \in Nat
  PROVE  /\ x % Modulus \in 0..Modulus - 1
         /\ x < Modulus => x % Modulus = x
         /\ (x + Modulus) % Modulus = x % Modulus
<1>1. Modulus \in Nat \ {0} BY BlockChainAssumption
<1>2. x % Modulus \in 0..Modulus - 1 BY <1>1, SMT
<1>3. x < Modulus => x % Modulus = x BY <1>1, SMT
<1> QED BY <1>1, <1>2, <1>3, ModSelf

LEMMA LedgerIs ==
  /\ \A l \in Ledgers : /\ DOMAIN l \subseteq Acc /\ l \in [DOMAIN l -> 0..Modulus - 1]
                        /\ \A a \in DOMAIN l : l[a] \in 0..Modulus - 1 /\ l[a] \in Nat
  /\ \A D \in SUBSET Acc : [D -> 0..Modulus - 1] \subseteq Ledgers
<1>1. ASSUME NEW l \in Ledgers
      PROVE  /\ DOMAIN l \subseteq Acc /\ l \in [DOMAIN l -> 0..Modulus - 1]
             /\ \A a \in DOMAIN l : l[a] \in 0..Modulus - 1 /\ l[a] \in Nat
  <2>1. PICK D \in SUBSET Acc : l \in [D -> 0..Modulus - 1] BY DEF Ledgers
  <2>2. Modulus \in Nat BY BlockChainAssumption
  <2> QED BY <2>1, <2>2
<1> QED BY <1>1 DEF Ledgers

LEMMA TransactionIs ==
  ASSUME NEW t \in Transactions
  PROVE  /\ t.dest \in Acc /\ t.src \in Acc \cup {Nobody} /\ Nobody \notin Acc
         /\ t.amount \in 0..Modulus - 1 /\ t.amount \in Nat /\ Modulus - t.amount \in Nat
         /\ Modulus \in Nat \ {0}
BY BlockChainAssumption DEF Transactions

Sync(l, t) == Debit(Credit(l, t), t, t.src \in DOMAIN l)

LEMMA CreditIs ==
  ASSUME NEW l \in Ledgers, NEW t \in Transactions
  PROVE  /\ Credit(l, t) \in Ledgers /\ DOMAIN Credit(l, t) = DOMAIN l \cup {t.dest}
         /\ \A a \in Acc : Balance(Credit(l, t), a) =
              IF a = t.dest THEN (Balance(l, a) + t.amount) % Modulus ELSE Balance(l, a)
<1> DEFINE D == DOMAIN l \cup {t.dest}
<1>1. /\ t.dest \in Acc /\ t.amount \in 0..Modulus - 1 /\ t.amount \in Nat /\ D \in SUBSET Acc
      /\ Modulus \in Nat \ {0}
  BY TransactionIs, LedgerIs
<1>2. \A a \in DOMAIN l : l[a] \in 0..Modulus - 1 /\ l[a] \in Nat BY LedgerIs
<1>3. ASSUME NEW a \in D
      PROVE  /\ Credit(l, t)[a] = IF a # t.dest THEN l[a]
                                  ELSE IF a \in DOMAIN l THEN (l[a] + t.amount) % Modulus ELSE t.amount
             /\ Credit(l, t)[a] \in 0..Modulus - 1
  <2>1. Credit(l, t)[a] = IF a # t.dest THEN l[a]
                          ELSE IF a \in DOMAIN l THEN (l[a] + t.amount) % Modulus ELSE t.amount
    BY DEF Credit
  <2>2. a \in DOMAIN l => (l[a] + t.amount) % Modulus \in 0..Modulus - 1
    <3> SUFFICES ASSUME a \in DOMAIN l PROVE (l[a] + t.amount) % Modulus \in 0..Modulus - 1
      OBVIOUS
    <3>1. l[a] + t.amount \in Nat BY <1>1, <1>2
    <3> QED BY <3>1, Mod
  <2> QED BY <1>1, <1>2, <2>1, <2>2
<1>4. Credit(l, t) \in [D -> 0..Modulus - 1]
  <2>1. Credit(l, t) = [a \in D |-> Credit(l, t)[a]] BY DEF Credit
  <2> HIDE DEF D
  <2> QED BY <1>3, <2>1
<1>5. ASSUME NEW a \in Acc
      PROVE  Balance(Credit(l, t), a) =
               IF a = t.dest THEN (Balance(l, a) + t.amount) % Modulus ELSE Balance(l, a)
  <2>1. DOMAIN Credit(l, t) = D BY <1>4
  <2>2. CASE a \notin DOMAIN l /\ a = t.dest
    <3>1. t.amount % Modulus = t.amount
      <4>1. t.amount < Modulus BY <1>1
      <4> QED BY <1>1, <4>1, Mod
    <3>2. Balance(l, a) + t.amount = t.amount BY <1>1, <2>2 DEF Balance
    <3> QED BY <1>3, <2>1, <2>2, <3>1, <3>2 DEF Balance
  <2>3. CASE a \in DOMAIN l \/ a # t.dest
    BY <1>3, <2>1, <2>3 DEF Balance
  <2> QED BY <2>2, <2>3
<1> QED BY <1>1, <1>4, <1>5, LedgerIs

LEMMA DebitIs ==
  ASSUME NEW l \in Ledgers, NEW t \in Transactions, NEW found \in BOOLEAN,
         found => t.src \in DOMAIN l
  PROVE  /\ Debit(l, t, found) \in Ledgers
         /\ DOMAIN Debit(l, t, found) = DOMAIN l \cup ({t.src} \ {Nobody})
         /\ \A a \in Acc : Balance(Debit(l, t, found), a) =
              IF a = t.src /\ (found \/ a \notin DOMAIN l)
              THEN (Balance(l, a) + (Modulus - t.amount)) % Modulus ELSE Balance(l, a)
<1>1. /\ t.src \in Acc \cup {Nobody} /\ Nobody \notin Acc /\ Modulus - t.amount \in Nat
      /\ t.amount \in Nat /\ Modulus \in Nat
  BY TransactionIs
<1>2. \A a \in DOMAIN l : l[a] \in 0..Modulus - 1 /\ l[a] \in Nat BY LedgerIs
<1>3. DOMAIN l \subseteq Acc /\ l \in [DOMAIN l -> 0..Modulus - 1] BY LedgerIs
<1>4. CASE t.src = Nobody
  BY <1>1, <1>3, <1>4 DEF Debit, Balance
<1>5. CASE t.src # Nobody /\ found
  <2> DEFINE v == (l[t.src] + Modulus - t.amount) % Modulus
  <2>1. l[t.src] + Modulus - t.amount = l[t.src] + (Modulus - t.amount) BY <1>1, <1>2, <1>5
  <2>2. v \in 0..Modulus - 1
    <3>1. l[t.src] + (Modulus - t.amount) \in Nat BY <1>1, <1>2, <1>5
    <3> QED BY <2>1, <3>1, Mod
  <2>3. v = (l[t.src] + (Modulus - t.amount)) % Modulus BY <2>1
  <2>4. Debit(l, t, found) = [l EXCEPT ![t.src] = v] BY <1>5 DEF Debit
  <2> HIDE DEF v
  <2>5. Debit(l, t, found) \in [DOMAIN l -> 0..Modulus - 1] BY <1>3, <2>2, <2>4
  <2>6. Debit(l, t, found) \in Ledgers BY <1>3, <2>5, LedgerIs
  <2>7. DOMAIN Debit(l, t, found) = DOMAIN l \cup ({t.src} \ {Nobody}) BY <1>5, <2>4
  <2>8. ASSUME NEW a \in Acc
        PROVE  Balance(Debit(l, t, found), a) =
                 IF a = t.src /\ (found \/ a \notin DOMAIN l)
                 THEN (Balance(l, a) + (Modulus - t.amount)) % Modulus ELSE Balance(l, a)
    BY <1>5, <2>3, <2>4 DEF Balance
  <2> QED BY <2>6, <2>7, <2>8
<1>6. CASE t.src # Nobody /\ ~found
  <2> DEFINE D == DOMAIN l \cup {t.src}
             v == (Modulus - t.amount) % Modulus
  <2>1. v \in 0..Modulus - 1 /\ v = (0 + (Modulus - t.amount)) % Modulus
    <3>1. 0 + (Modulus - t.amount) = Modulus - t.amount BY <1>1
    <3> QED BY <1>1, <3>1, Mod
  <2>2. Debit(l, t, found) = [a \in D |-> IF a \in DOMAIN l THEN l[a] ELSE v]
    BY <1>6 DEF Debit
  <2> HIDE DEF v
  <2>3. Debit(l, t, found) \in [D -> 0..Modulus - 1] BY <1>2, <2>1, <2>2
  <2>4. D \in SUBSET Acc BY <1>1, <1>3, <1>6
  <2>5. DOMAIN Debit(l, t, found) = DOMAIN l \cup ({t.src} \ {Nobody}) BY <1>6, <2>2
  <2>6. ASSUME NEW a \in Acc
        PROVE  Balance(Debit(l, t, found), a) =
                 IF a = t.src /\ (found \/ a \notin DOMAIN l)
                 THEN (Balance(l, a) + (Modulus - t.amount)) % Modulus ELSE Balance(l, a)
    BY <1>6, <2>1, <2>2 DEF Balance
  <2> QED BY <2>3, <2>4, <2>5, <2>6, LedgerIs
<1> QED BY <1>4, <1>5, <1>6

LEMMA SyncTyped == ASSUME NEW l \in Ledgers, NEW t \in Transactions PROVE Sync(l, t) \in Ledgers
<1>1. Credit(l, t) \in Ledgers /\ (t.src \in DOMAIN l => t.src \in DOMAIN Credit(l, t))
  BY CreditIs
<1>2. (t.src \in DOMAIN l) \in BOOLEAN OBVIOUS
<1> QED BY <1>1, <1>2, DebitIs DEF Sync

-----------------------------------------------------------------------------
(* sync_bal and the loading loop go through their lists from the first to  *)
(* the last.                                                               *)
LEMMA LastOfPrefix ==
  ASSUME NEW n \in Nat, NEW k \in 1..n
  PROVE  /\ k - 1 \in 0..n - 1 /\ 1..k # {} /\ 1..k \subseteq 1..n
         /\ Max(1..k) = k /\ (1..k) \ {Max(1..k)} = 1..k - 1
<1>1. 1..k # {} /\ 1..k \in SUBSET (1..n) BY SMT
<1>2. Max(1..k) \in 1..k /\ k <= Max(1..k)
  <2> DEFINE s == 1..k
  <2>1. s \in SUBSET (1..n) /\ s # {} /\ k \in s BY <1>1
  <2> HIDE DEF s
  <2> QED BY <2>1, MaxIs DEF s
<1>3. Max(1..k) = k BY <1>2
<1> QED BY <1>1, <1>3

SyncIter(g, l, txs) ==
  g = [s \in SUBSET DOMAIN txs |-> IF s = {} THEN l ELSE Sync(g[s \ {Max(s)}], txs[Max(s)])]

LEMMA SyncBalSteps ==
  ASSUME NEW l \in Ledgers, NEW txs \in Seq(Transactions)
  PROVE  \E G \in [0..Len(txs) -> Ledgers] :
           /\ G[0] = l /\ SyncBal(l, txs) = G[Len(txs)]
           /\ \A k \in 1..Len(txs) : G[k] = Sync(G[k - 1], txs[k])
<1> DEFINE n == Len(txs)
<1>1. n \in Nat /\ DOMAIN txs = 1..n /\ \A k \in 1..n : txs[k] \in Transactions OBVIOUS
<1> HIDE DEF n
<1>2. SyncBal(l, txs) = (CHOOSE g : SyncIter(g, l, txs))[1..n]
  BY <1>1 DEF SyncBal, FoldLeft, MapThenFoldSet, SyncIter, Sync
<1>3. \E g : SyncIter(g, l, txs)
  <2> DEFINE c == [s \in SUBSET (1..n) |-> Max(s)]
             F == [p \in (1..n) \X Ledgers |-> Sync(p[2], txs[p[1]])]
  <2>1. IsFiniteSet(1..n) BY <1>1, FS_Interval
  <2>2. Picks(c, 1..n) BY <1>1, MaxIs DEF Picks
  <2>3. F \in [(1..n) \X Ledgers -> Ledgers] BY <1>1, SyncTyped
  <2>4. PICK g : Fold(g, 1..n, l, c, F)
    <3> HIDE DEF c, F
    <3> QED BY <2>1, <2>2, FoldExists
  <2>5. \A s \in SUBSET (1..n) : g[s] \in Ledgers
    <3> HIDE DEF c, F
    <3> QED BY <2>1, <2>2, <2>3, <2>4, FoldTyped
  <2>6. ASSUME NEW s \in SUBSET (1..n), s # {}
        PROVE  F[<<c[s], g[s \ {c[s]}]>>] = Sync(g[s \ {Max(s)}], txs[Max(s)])
    <3>1. c[s] = Max(s) /\ Max(s) \in 1..n BY <1>1, <2>6, MaxIs
    <3>2. g[s \ {Max(s)}] \in Ledgers BY <2>5
    <3> HIDE DEF c
    <3> QED BY <3>1, <3>2
  <2>7. g = [s \in SUBSET (1..n) |-> IF s = {} THEN l ELSE Sync(g[s \ {Max(s)}], txs[Max(s)])]
    <3> HIDE DEF c, F
    <3>1. g = [s \in SUBSET (1..n) |-> IF s = {} THEN l ELSE F[<<c[s], g[s \ {c[s]}]>>]]
      BY <2>4 DEF Fold
    <3> QED BY <2>6, <3>1
  <2> QED BY <1>1, <2>7 DEF SyncIter
<1>4. PICK g : SyncIter(g, l, txs) /\ SyncBal(l, txs) = g[1..n]
  <2> DEFINE Q(g) == SyncIter(g, l, txs)
  <2>1. \E g : Q(g) BY <1>3
  <2>2. SyncBal(l, txs) = (CHOOSE g : Q(g))[1..n] BY <1>2
  <2> HIDE DEF Q
  <2>3. Q(CHOOSE g : Q(g)) BY <2>1
  <2>4. \E g : Q(g) /\ SyncBal(l, txs) = g[1..n] BY <2>2, <2>3
  <2> QED BY <2>4 DEF Q
<1> DEFINE G == [k \in 0..n |-> g[1..k]]
<1>5. G[0] = l
  <2>1. 1..0 = {} /\ 0 \in 0..n BY <1>1
  <2> QED BY <1>1, <1>4, <2>1 DEF SyncIter
<1>6. ASSUME NEW k \in 1..n PROVE G[k] = Sync(G[k - 1], txs[k])
  <2>1. k \in 0..n /\ k - 1 \in 0..n BY <1>1
  <2>2. g[1..k] = Sync(g[1..k - 1], txs[k])
    BY <1>1, <1>4, LastOfPrefix DEF SyncIter
  <2> QED BY <2>1, <2>2
<1>7. G \in [0..n -> Ledgers]
  <2> DEFINE W == {k \in 0..n : G[k] \notin Ledgers}
  <2>1. W = {}
    <3> SUFFICES ASSUME W # {} PROVE FALSE OBVIOUS
    <3>1. W \subseteq Nat BY <1>1
    <3>2. PICK k \in W : \A j \in W : k <= j
      <4> HIDE DEF W
      <4> QED BY <3>1, LeastNat
    <3>3. k # 0 /\ k \in 0..n BY <1>5, <3>2
    <3>4. k \in 1..n /\ k - 1 \in 0..n /\ ~(k <= k - 1) BY <1>1, <3>3
    <3>5. G[k - 1] \in Ledgers BY <3>2, <3>4
    <3> HIDE DEF G
    <3> QED BY <1>1, <1>6, <3>2, <3>4, <3>5, SyncTyped
  <2> QED BY <2>1
<1>8. SyncBal(l, txs) = G[n] BY <1>1, <1>4
<1> HIDE DEF G
<1> QED BY <1>5, <1>6, <1>7, <1>8 DEF n

-----------------------------------------------------------------------------
(* Sums of amounts do not depend on the order.                             *)
AnyOf(s) == CHOOSE x \in s : TRUE

SumIter(g, h, S) ==
  g = [s \in SUBSET S |-> IF s = {} THEN 0 ELSE h[AnyOf(s)].amount + g[s \ {AnyOf(s)}]]

LEMMA AmountsIs ==
  ASSUME NEW S, IsFiniteSet(S), NEW h, \A p \in S : h[p].amount \in Nat
  PROVE  \E g : /\ SumIter(g, h, S) /\ Amounts(h, S) = g[S]
                /\ \A s \in SUBSET S : g[s] \in Nat
<1>1. Amounts(h, S) = (CHOOSE g : SumIter(g, h, S))[S]
  BY DEF Amounts, MapThenSumSet, MapThenFoldSet, SumIter, AnyOf
<1>2. \E g : SumIter(g, h, S)
  <2> DEFINE c == [s \in SUBSET S |-> AnyOf(s)]
             F == [p \in S \X Nat |-> h[p[1]].amount + p[2]]
  <2>1. Picks(c, S) BY DEF Picks, AnyOf
  <2>2. F \in [S \X Nat -> Nat] OBVIOUS
  <2>3. PICK g : Fold(g, S, 0, c, F)
    <3> HIDE DEF c, F
    <3> QED BY <2>1, FoldExists
  <2>4. \A s \in SUBSET S : g[s] \in Nat
    <3> HIDE DEF c, F
    <3> QED BY <2>1, <2>2, <2>3, FoldTyped
  <2>5. ASSUME NEW s \in SUBSET S, s # {}
        PROVE  F[<<c[s], g[s \ {c[s]}]>>] = h[AnyOf(s)].amount + g[s \ {AnyOf(s)}]
    <3>1. c[s] = AnyOf(s) /\ AnyOf(s) \in S BY <2>5 DEF AnyOf
    <3>2. g[s \ {AnyOf(s)}] \in Nat BY <2>4
    <3> HIDE DEF c
    <3> QED BY <3>1, <3>2
  <2>6. g = [s \in SUBSET S |-> IF s = {} THEN 0 ELSE h[AnyOf(s)].amount + g[s \ {AnyOf(s)}]]
    <3> HIDE DEF c, F
    <3>1. g = [s \in SUBSET S |-> IF s = {} THEN 0 ELSE F[<<c[s], g[s \ {c[s]}]>>]]
      BY <2>3 DEF Fold
    <3> QED BY <2>5, <3>1
  <2> QED BY <2>6 DEF SumIter
<1>3. PICK g : SumIter(g, h, S) /\ Amounts(h, S) = g[S]
  <2> DEFINE Q(g) == SumIter(g, h, S)
  <2>1. \E g : Q(g) BY <1>2
  <2>2. Amounts(h, S) = (CHOOSE g : Q(g))[S] BY <1>1
  <2> HIDE DEF Q
  <2>3. Q(CHOOSE g : Q(g)) BY <2>1
  <2>4. \E g : Q(g) /\ Amounts(h, S) = g[S] BY <2>2, <2>3
  <2> QED BY <2>4 DEF Q
<1>4. \A s \in SUBSET S : g[s] \in Nat
  <2> DEFINE W == {s \in SUBSET S : g[s] \notin Nat}
  <2> SUFFICES ASSUME W # {} PROVE FALSE OBVIOUS
  <2>1. \E s \in W : \A t \in W : t \subseteq s => t = s
    <3>1. W \subseteq SUBSET S OBVIOUS
    <3> HIDE DEF W
    <3> QED BY <3>1, LeastSet
  <2>2. PICK s \in W : \A t \in W : t \subseteq s => t = s BY <2>1
  <2>3. g[s] = IF s = {} THEN 0 ELSE h[AnyOf(s)].amount + g[s \ {AnyOf(s)}]
    BY <1>3, <2>2 DEF SumIter
  <2>4. s # {} BY <2>2, <2>3
  <2>5. AnyOf(s) \in s BY <2>4 DEF AnyOf
  <2>6. g[s \ {AnyOf(s)}] \in Nat BY <2>2, <2>5
  <2> QED BY <2>2, <2>3, <2>4, <2>5, <2>6
<1> QED BY <1>3, <1>4

LEMMA SumsAgree ==
  ASSUME NEW S, IsFiniteSet(S), NEW T, NEW h, NEW k, NEW g, NEW f,
         SumIter(g, h, S), SumIter(f, k, T), NEW u, u \subseteq S, u \subseteq T,
         \A p \in u : h[p].amount = k[p].amount
  PROVE  g[u] = f[u]
<1> DEFINE W == {s \in SUBSET u : g[s] # f[s]}
<1> SUFFICES ASSUME W # {} PROVE FALSE OBVIOUS
<1>0. \E s \in W : \A t \in W : t \subseteq s => t = s
  <2>1. W \subseteq SUBSET S OBVIOUS
  <2> HIDE DEF W
  <2> QED BY <2>1, LeastSet
<1>1. PICK s \in W : \A t \in W : t \subseteq s => t = s BY <1>0
<1>2. /\ g[s] = IF s = {} THEN 0 ELSE h[AnyOf(s)].amount + g[s \ {AnyOf(s)}]
      /\ f[s] = IF s = {} THEN 0 ELSE k[AnyOf(s)].amount + f[s \ {AnyOf(s)}]
  BY <1>1 DEF SumIter
<1>3. s # {} BY <1>1, <1>2
<1>4. AnyOf(s) \in s BY <1>3 DEF AnyOf
<1>5. g[s \ {AnyOf(s)}] = f[s \ {AnyOf(s)}] /\ h[AnyOf(s)].amount = k[AnyOf(s)].amount
  BY <1>1, <1>4
<1> QED BY <1>1, <1>2, <1>3, <1>5

LEMMA SumTakes ==
  ASSUME NEW S, IsFiniteSet(S), NEW h, \A p \in S : h[p].amount \in Nat, NEW g, SumIter(g, h, S),
         \A s \in SUBSET S : g[s] \in Nat, NEW u \in SUBSET S, NEW x \in u
  PROVE  g[u] = g[u \ {x}] + h[x].amount
<1> DEFINE W == {s \in SUBSET S : \E y \in s : g[s] # g[s \ {y}] + h[y].amount}
<1> SUFFICES ASSUME W # {} PROVE FALSE OBVIOUS
<1>0. \E s \in W : \A t \in W : t \subseteq s => t = s
  <2>1. W \subseteq SUBSET S OBVIOUS
  <2> HIDE DEF W
  <2> QED BY <2>1, LeastSet
<1>1. PICK s \in W : \A t \in W : t \subseteq s => t = s BY <1>0
<1>2. PICK y \in s : g[s] # g[s \ {y}] + h[y].amount BY <1>1
<1> DEFINE z == AnyOf(s)
<1>3. z \in s BY <1>2 DEF AnyOf
<1>4. g[s] = h[z].amount + g[s \ {z}] BY <1>1, <1>2 DEF SumIter
<1> HIDE DEF z
<1>5. y \in S /\ z \in S /\ s \in SUBSET S BY <1>1, <1>2, <1>3
<1>6. /\ h[y].amount \in Nat /\ h[z].amount \in Nat
      /\ g[s] \in Nat /\ g[s \ {y}] \in Nat /\ g[s \ {z}] \in Nat /\ g[(s \ {y}) \ {z}] \in Nat
  BY <1>5
<1>7. y # z
  <2>1. ASSUME y = z PROVE g[s] = h[y].amount + g[s \ {y}] BY <1>4, <2>1
  <2> DEFINE m == h[y].amount
             n == g[s \ {y}]
  <2>2. m \in Nat /\ n \in Nat /\ g[s] # n + m BY <1>2, <1>6
  <2>3. y = z => g[s] = m + n BY <2>1
  <2> HIDE DEF m, n
  <2> QED BY <2>2, <2>3
<1>8. s \ {y} \notin W /\ s \ {z} \notin W BY <1>1, <1>2, <1>3
<1>9. g[s \ {y}] = g[(s \ {y}) \ {z}] + h[z].amount BY <1>3, <1>5, <1>7, <1>8
<1>10. g[s \ {z}] = g[(s \ {z}) \ {y}] + h[y].amount BY <1>2, <1>5, <1>7, <1>8
<1>11. (s \ {z}) \ {y} = (s \ {y}) \ {z} OBVIOUS
<1> HIDE DEF W
<1> DEFINE m == h[y].amount
           n == h[z].amount
           rest == g[(s \ {y}) \ {z}]
<1>12. /\ m \in Nat /\ n \in Nat /\ rest \in Nat
       /\ g[s] = n + g[s \ {z}] /\ g[s \ {z}] = rest + m
       /\ g[s \ {y}] = rest + n /\ g[s] # g[s \ {y}] + m
  BY <1>2, <1>4, <1>6, <1>9, <1>10, <1>11
<1> HIDE DEF m, n, rest
<1> QED BY <1>12

LEMMA AmountsType ==
  ASSUME NEW S, IsFiniteSet(S), NEW h, \A p \in S : h[p].amount \in Nat
  PROVE  Amounts(h, S) \in Nat
<1>1. PICK g : /\ SumIter(g, h, S) /\ Amounts(h, S) = g[S]
               /\ \A s \in SUBSET S : g[s] \in Nat
  BY AmountsIs
<1>2. S \in SUBSET S OBVIOUS
<1> QED BY <1>1, <1>2

LEMMA AmountsOfNone == ASSUME NEW h PROVE Amounts(h, {}) = 0
<1>1. PICK g : SumIter(g, h, {}) /\ Amounts(h, {}) = g[{}]
  <2>1. IsFiniteSet({}) BY FS_EmptySet
  <2> QED BY <2>1, AmountsIs
<1> QED BY <1>1 DEF SumIter

LEMMA AmountsSame ==
  ASSUME NEW S, IsFiniteSet(S), NEW h, NEW k, \A p \in S : h[p].amount \in Nat,
         \A p \in S : k[p].amount = h[p].amount
  PROVE  Amounts(k, S) = Amounts(h, S)
<1>1. PICK g : SumIter(g, h, S) /\ Amounts(h, S) = g[S] BY AmountsIs
<1>2. PICK f : SumIter(f, k, S) /\ Amounts(k, S) = f[S] BY AmountsIs
<1> QED BY <1>1, <1>2, SumsAgree

LEMMA AmountsAdd ==
  ASSUME NEW S, IsFiniteSet(S), NEW h, NEW k, NEW x, x \notin S,
         \A p \in S : h[p].amount \in Nat, \A p \in S : k[p].amount = h[p].amount,
         k[x].amount \in Nat
  PROVE  Amounts(k, S \cup {x}) = Amounts(h, S) + k[x].amount
<1> DEFINE T == S \cup {x}
<1>1. IsFiniteSet(T) BY FS_AddElement
<1>2. \A p \in T : k[p].amount \in Nat OBVIOUS
<1>3. x \in T /\ T \ {x} = S /\ T \in SUBSET T OBVIOUS
<1> HIDE DEF T
<1>4. PICK g : SumIter(g, h, S) /\ Amounts(h, S) = g[S] BY AmountsIs
<1>5. PICK f : /\ SumIter(f, k, T) /\ Amounts(k, T) = f[T] /\ \A s \in SUBSET T : f[s] \in Nat
  BY <1>1, <1>2, AmountsIs
<1>6. f[T] = f[S] + k[x].amount
  <2>1. f[T] = f[T \ {x}] + k[x].amount BY <1>1, <1>2, <1>3, <1>5, SumTakes
  <2> QED BY <1>3, <2>1
<1>7. g[S] = f[S]
  <2>1. S \subseteq T BY <1>3
  <2> QED BY <1>4, <1>5, <2>1, SumsAgree
<1> QED BY <1>4, <1>5, <1>6, <1>7 DEF T

-----------------------------------------------------------------------------
(* One transaction more: what it does to a ledger is what it does to the   *)
(* sums.                                                                   *)
IsHistory(h) ==
  /\ IsFiniteSet(DOMAIN h) /\ DOMAIN h \subseteq Nat \X Nat
  /\ \A p \in DOMAIN h : h[p] \in Transactions

With(h, p, t) == [q \in DOMAIN h \cup {p} |-> IF q = p THEN t ELSE h[q]]

Rem(x) == x % Modulus

Same(x, y) == Rem(x) = Rem(y)

LEMMA Balanced ==
  ASSUME NEW b \in Nat, NEW sent \in Nat, NEW received \in Nat, NEW amount \in Nat,
         amount <= Modulus, Same(b + sent, received)
  PROVE  /\ Same(Rem(b + amount) + sent, received + amount)
         /\ Same(Rem(b + (Modulus - amount)) + (sent + amount), received)
<1> USE DEF Same
<1>0. Modulus \in Nat \ {0} BY BlockChainAssumption
<1>1. \A x, y \in Nat : Rem(Rem(x) + y) = Rem(x + y) BY <1>0, SumMod DEF Rem
<1>2. \A x \in Nat : Rem(x + Modulus) = Rem(x) BY <1>0, ModSelf DEF Rem
<1>3. Rem(Rem(b + amount) + sent) = Rem(received + amount)
  <2>1. (b + amount) + sent = (b + sent) + amount OBVIOUS
  <2>2. Rem(Rem(b + amount) + sent) = Rem((b + amount) + sent)
    <3>1. b + amount \in Nat OBVIOUS
    <3> QED BY <1>1, <3>1
  <2>3. Rem(Rem(b + sent) + amount) = Rem((b + sent) + amount)
    <3>1. b + sent \in Nat OBVIOUS
    <3> QED BY <1>1, <3>1
  <2>4. Rem(Rem(received) + amount) = Rem(received + amount) BY <1>1
  <2> QED BY <2>1, <2>2, <2>3, <2>4
<1>4. Rem(Rem(b + (Modulus - amount)) + (sent + amount)) = Rem(received)
  <2> DEFINE rest == Modulus - amount
  <2>1. rest \in Nat /\ rest + amount = Modulus BY <1>0
  <2> HIDE DEF rest
  <2>2. b + rest \in Nat /\ sent + amount \in Nat /\ b + sent \in Nat BY <2>1
  <2>3. Rem(Rem(b + rest) + (sent + amount)) = Rem((b + rest) + (sent + amount)) BY <1>1, <2>2
  <2>4. (b + rest) + (sent + amount) = (b + sent) + Modulus BY <2>1
  <2>5. Rem((b + sent) + Modulus) = Rem(b + sent) BY <1>2, <2>2
  <2> QED BY <2>3, <2>4, <2>5 DEF rest
<1> QED BY <1>3, <1>4

LEMMA AmountsWith ==
  ASSUME NEW h, IsHistory(h), NEW p, p \notin DOMAIN h, NEW t \in Transactions,
         NEW S \in SUBSET DOMAIN h
  PROVE  /\ Amounts(h, S) \in Nat /\ Amounts(With(h, p, t), S) = Amounts(h, S)
         /\ Amounts(With(h, p, t), S \cup {p}) = Amounts(h, S) + t.amount
<1> DEFINE k == With(h, p, t)
<1>1. IsFiniteSet(S) BY FS_Subset DEF IsHistory
<1>2. \A q \in S : h[q].amount \in Nat /\ k[q].amount = h[q].amount
  BY TransactionIs DEF IsHistory, With
<1>3. k[p] = t /\ t.amount \in Nat /\ p \notin S BY TransactionIs DEF With
<1> HIDE DEF k
<1>4. Amounts(h, S) \in Nat BY <1>1, <1>2, AmountsType
<1>5. Amounts(k, S) = Amounts(h, S) BY <1>1, <1>2, AmountsSame
<1>6. Amounts(k, S \cup {p}) = Amounts(h, S) + k[p].amount
  <2>1. k[p].amount \in Nat BY <1>3
  <2> QED BY <1>1, <1>2, <1>3, <2>1, AmountsAdd
<1> QED BY <1>3, <1>4, <1>5, <1>6 DEF k

LEMMA MatchesWith ==
  ASSUME NEW h, IsHistory(h), NEW p \in Nat \X Nat, NEW t \in Transactions, NEW l \in Ledgers,
         Matches(l, h), \A q \in DOMAIN h : Earlier(q, p)
  PROVE  IsHistory(With(h, p, t)) /\ Matches(Sync(l, t), With(h, p, t))
<1> DEFINE k == With(h, p, t)
           new == t.src = t.dest /\ t.src \notin DOMAIN l
<1>1. /\ t.dest \in Acc /\ t.src \in Acc \cup {Nobody} /\ Nobody \notin Acc
      /\ t.amount \in Nat /\ Modulus - t.amount \in Nat /\ Modulus \in Nat \ {0}
      /\ t.amount <= Modulus
  BY TransactionIs
<1>2. /\ p \notin DOMAIN h /\ ~Earlier(p, p)
      /\ \A q \in DOMAIN h : ~Earlier(p, q)
  BY DEF Earlier, IsHistory
<1>3. /\ DOMAIN k = DOMAIN h \cup {p} /\ k[p] = t
      /\ \A q \in DOMAIN h : q # p /\ k[q] = h[q]
  BY <1>2 DEF With
<1>4. IsHistory(k)
  BY <1>3, FS_AddElement DEF IsHistory
<1> HIDE DEF k
<1>5. \A q \in DOMAIN h : Minted(k, q) <=> Minted(h, q)
  BY <1>2, <1>3 DEF Minted
<1>6. DOMAIN l = {a \in Acc : \E q \in DOMAIN h : Touches(h[q], a)} BY DEF Matches
<1>7. Minted(k, p) <=> new
  <2>1. Minted(k, p) <=> t.src = t.dest /\ \A q \in DOMAIN h : ~Touches(h[q], t.src)
    BY <1>2, <1>3 DEF Minted
  <2> QED BY <1>1, <1>6, <2>1
<1>8. ASSUME NEW a \in Acc
      PROVE  /\ Received(h, a) \in Nat
             /\ Received(k, a) = Received(h, a) + (IF a = t.dest THEN t.amount ELSE 0)
  <2> DEFINE S == {q \in DOMAIN h : h[q].dest = a}
  <2>1. S \in SUBSET DOMAIN h OBVIOUS
  <2>2. {q \in DOMAIN k : k[q].dest = a} = IF a = t.dest THEN S \cup {p} ELSE S BY <1>3
  <2> HIDE DEF S
  <2>3. Amounts(h, S) \in Nat /\ Amounts(k, S) = Amounts(h, S)
        /\ Amounts(k, S \cup {p}) = Amounts(h, S) + t.amount
    BY <1>2, <2>1, AmountsWith DEF k
  <2>4. Received(h, a) = Amounts(h, S) BY DEF Received, S
  <2>5. Received(k, a) = IF a = t.dest THEN Amounts(k, S \cup {p}) ELSE Amounts(k, S)
    BY <2>2 DEF Received
  <2> QED BY <2>3, <2>4, <2>5
<1>9. ASSUME NEW a \in Acc
      PROVE  /\ Sent(h, a) \in Nat
             /\ Sent(k, a) = Sent(h, a) + (IF a = t.src /\ ~new THEN t.amount ELSE 0)
  <2> DEFINE S == {q \in DOMAIN h : h[q].src = a /\ ~Minted(h, q)}
  <2>1. S \in SUBSET DOMAIN h OBVIOUS
  <2>2. {q \in DOMAIN k : k[q].src = a /\ ~Minted(k, q)} = IF a = t.src /\ ~new THEN S \cup {p} ELSE S
    BY <1>3, <1>5, <1>7
  <2> HIDE DEF S
  <2>3. Amounts(h, S) \in Nat /\ Amounts(k, S) = Amounts(h, S)
        /\ Amounts(k, S \cup {p}) = Amounts(h, S) + t.amount
    BY <1>2, <2>1, AmountsWith DEF k
  <2>4. Sent(h, a) = Amounts(h, S) BY DEF Sent, S
  <2>5. Sent(k, a) = IF a = t.src /\ ~new THEN Amounts(k, S \cup {p}) ELSE Amounts(k, S)
    BY <2>2 DEF Sent
  <2> QED BY <2>3, <2>4, <2>5
<1> DEFINE m == Credit(l, t)
           found == t.src \in DOMAIN l
<1>10. /\ m \in Ledgers /\ DOMAIN m = DOMAIN l \cup {t.dest}
       /\ \A a \in Acc : Balance(m, a) =
            IF a = t.dest THEN Rem(Balance(l, a) + t.amount) ELSE Balance(l, a)
  BY CreditIs DEF Rem
<1> HIDE DEF m
<1>11. /\ DOMAIN Sync(l, t) = DOMAIN m \cup ({t.src} \ {Nobody})
       /\ \A a \in Acc : Balance(Sync(l, t), a) =
            IF a = t.src /\ (found \/ a \notin DOMAIN m)
            THEN Rem(Balance(m, a) + (Modulus - t.amount)) ELSE Balance(m, a)
  <2>1. found \in BOOLEAN /\ (found => t.src \in DOMAIN m) BY <1>10
  <2>2. Sync(l, t) = Debit(m, t, found) BY DEF Sync, m
  <2> HIDE DEF found
  <2>3. /\ DOMAIN Debit(m, t, found) = DOMAIN m \cup ({t.src} \ {Nobody})
        /\ \A a \in Acc : Balance(Debit(m, t, found), a) =
             IF a = t.src /\ (found \/ a \notin DOMAIN m)
             THEN Rem(Balance(m, a) + (Modulus - t.amount)) ELSE Balance(m, a)
    BY <1>10, <2>1, DebitIs DEF Rem
  <2> QED BY <2>2, <2>3
<1>12. DOMAIN Sync(l, t) = {a \in Acc : \E q \in DOMAIN k : Touches(k[q], a)}
  BY <1>1, <1>3, <1>6, <1>10, <1>11 DEF Touches
<1>13. ASSUME NEW a \in Acc
       PROVE  Same(Balance(Sync(l, t), a) + Sent(k, a), Received(k, a))
  <2>1. a = t.src => (found \/ a \notin DOMAIN m <=> ~new) BY <1>10
  <2>2. /\ Balance(m, a) \in Nat /\ Balance(l, a) \in Nat
        /\ Sent(h, a) \in Nat /\ Received(h, a) \in Nat /\ Received(k, a) \in Nat
    <3>1. \A x \in Ledgers : Balance(x, a) \in Nat BY LedgerIs DEF Balance
    <3> QED BY <1>1, <1>8, <1>9, <1>10, <3>1
  <2>3. Same(Balance(l, a) + Sent(h, a), Received(h, a)) BY DEF Matches, Rem, Same
  <2>4. Same(Balance(m, a) + Sent(h, a), Received(k, a))
    <3>1. CASE a = t.dest
      <4>1. Balance(m, a) = Rem(Balance(l, a) + t.amount)
            /\ Received(k, a) = Received(h, a) + t.amount
        BY <1>8, <1>10, <3>1
      <4>2. Same(Rem(Balance(l, a) + t.amount) + Sent(h, a), Received(h, a) + t.amount)
        BY <1>1, <2>2, <2>3, Balanced, Zenon
      <4> QED BY <4>1, <4>2
    <3>2. CASE a # t.dest
      <4>1. Balance(m, a) = Balance(l, a) /\ Received(k, a) = Received(h, a)
        BY <1>8, <1>10, <3>2
      <4> QED BY <2>3, <4>1
    <3> QED BY <3>1, <3>2
  <2>5. CASE a = t.src /\ ~new
    <3>1. Balance(Sync(l, t), a) = Rem(Balance(m, a) + (Modulus - t.amount))
          /\ Sent(k, a) = Sent(h, a) + t.amount
      BY <1>9, <1>11, <2>1, <2>5
    <3>2. Same(Rem(Balance(m, a) + (Modulus - t.amount)) + (Sent(h, a) + t.amount),
               Received(k, a))
      BY <1>1, <2>2, <2>4, Balanced, Zenon
    <3> QED BY <3>1, <3>2
  <2>6. CASE ~(a = t.src /\ ~new)
    <3>1. Balance(Sync(l, t), a) = Balance(m, a) /\ Sent(k, a) = Sent(h, a)
      BY <1>9, <1>11, <2>1, <2>6
    <3> QED BY <2>4, <3>1
  <2> QED BY <2>5, <2>6
<1> QED BY <1>4, <1>12, <1>13 DEF Matches, Rem, Same, k

-----------------------------------------------------------------------------
(* The transactions of a chain up to a place.                              *)
Upto(chain, i, n) ==
  [p \in {p \in Places(chain) : p[1] < i \/ (p[1] = i /\ p[2] < n)} |-> chain[p[1]].txs[p[2]]]

LEMMA BodyIs ==
  ASSUME NEW b \in Blocks
  PROVE  /\ b.txs \in Seq(Transactions) /\ Len(b.txs) \in Nat /\ DOMAIN b.txs = 1..Len(b.txs)
         /\ \A n \in DOMAIN b.txs : b.txs[n] \in Transactions /\ n \in Nat
<1>1. b.txs \in Seq(Transactions) BY BlockChainAssumption DEF Blocks, Bodied
<1> QED BY <1>1

LEMMA PlaceIs ==
  ASSUME NEW chain \in Seq(Blocks)
  PROVE  /\ \A p \in Places(chain) :
              /\ p = <<p[1], p[2]>> /\ p \in Nat \X Nat
              /\ p[1] \in DOMAIN chain /\ p[2] \in DOMAIN chain[p[1]].txs
              /\ chain[p[1]].txs[p[2]] \in Transactions
         /\ \A i \in DOMAIN chain : \A n \in DOMAIN chain[i].txs : <<i, n>> \in Places(chain)
<1>1. \A i \in DOMAIN chain : chain[i] \in Blocks /\ i \in Nat OBVIOUS
<1>2. ASSUME NEW p \in Places(chain)
      PROVE  /\ p = <<p[1], p[2]>> /\ p \in Nat \X Nat
             /\ p[1] \in DOMAIN chain /\ p[2] \in DOMAIN chain[p[1]].txs
             /\ chain[p[1]].txs[p[2]] \in Transactions
  <2>1. PICK i \in DOMAIN chain : p \in {i} \X DOMAIN chain[i].txs BY DEF Places
  <2>2. p[1] = i /\ p[2] \in DOMAIN chain[i].txs /\ p = <<p[1], p[2]>> BY <2>1
  <2>3. p[2] \in Nat /\ chain[i].txs[p[2]] \in Transactions BY <1>1, <2>2, BodyIs
  <2> QED BY <1>1, <2>1, <2>2, <2>3
<1>3. ASSUME NEW i \in DOMAIN chain, NEW n \in DOMAIN chain[i].txs PROVE <<i, n>> \in Places(chain)
  BY DEF Places
<1> QED BY <1>2, <1>3

LEMMA UptoNone ==
  ASSUME NEW chain \in Seq(Blocks)
  PROVE  DOMAIN Upto(chain, 1, 1) = {} /\ IsHistory(Upto(chain, 1, 1))
<1>1. \A p \in Places(chain) : ~(p[1] < 1 \/ (p[1] = 1 /\ p[2] < 1))
  <2> SUFFICES ASSUME NEW p \in Places(chain) PROVE ~(p[1] < 1 \/ (p[1] = 1 /\ p[2] < 1))
    OBVIOUS
  <2>1. p[1] \in DOMAIN chain /\ p[2] \in DOMAIN chain[p[1]].txs BY PlaceIs
  <2>2. chain[p[1]] \in Blocks BY <2>1
  <2>3. p[1] \in 1..Len(chain) /\ p[2] \in 1..Len(chain[p[1]].txs) BY <2>1, <2>2, BodyIs
  <2>4. Len(chain) \in Nat /\ Len(chain[p[1]].txs) \in Nat BY <2>2, BodyIs
  <2> QED BY <2>3, <2>4
<1>2. DOMAIN Upto(chain, 1, 1) = {} BY <1>1 DEF Upto
<1> QED BY <1>2, FS_EmptySet DEF IsHistory

LEMMA UptoNext ==
  ASSUME NEW chain \in Seq(Blocks), NEW i \in DOMAIN chain, NEW n \in DOMAIN chain[i].txs
  PROVE  /\ Upto(chain, i, n + 1) = With(Upto(chain, i, n), <<i, n>>, chain[i].txs[n])
         /\ \A q \in DOMAIN Upto(chain, i, n) : Earlier(q, <<i, n>>)
<1> DEFINE D == {p \in Places(chain) : p[1] < i \/ (p[1] = i /\ p[2] < n)}
           E == {p \in Places(chain) : p[1] < i \/ (p[1] = i /\ p[2] < n + 1)}
<1>1. i \in Nat /\ n \in Nat /\ <<i, n>> \in Places(chain)
  <2>1. chain[i] \in Blocks /\ i \in Nat OBVIOUS
  <2> QED BY <2>1, BodyIs, PlaceIs
<1>2. \A p \in Places(chain) : p = <<p[1], p[2]>> /\ p[1] \in Nat /\ p[2] \in Nat
  BY PlaceIs
<1>3. E = D \cup {<<i, n>>}
  <2>1. ASSUME NEW p \in E PROVE p \in D \/ p = <<i, n>>
    <3>1. p[1] \in Nat /\ p[2] \in Nat /\ p = <<p[1], p[2]>> BY <1>2
    <3> QED BY <1>1, <3>1
  <2>2. D \subseteq E
    <3> SUFFICES ASSUME NEW p \in D PROVE p \in E OBVIOUS
    <3>1. p[1] \in Nat /\ p[2] \in Nat BY <1>2
    <3> QED BY <1>1, <3>1
  <2>3. <<i, n>> \in E BY <1>1
  <2> HIDE DEF D, E
  <2> QED BY <2>1, <2>2, <2>3
<1>4. Upto(chain, i, n) = [p \in D |-> chain[p[1]].txs[p[2]]]
      /\ Upto(chain, i, n + 1) = [p \in E |-> chain[p[1]].txs[p[2]]]
  BY DEF Upto
<1>5. \A q \in D : Earlier(q, <<i, n>>) BY DEF Earlier
<1> HIDE DEF D, E
<1>6. With(Upto(chain, i, n), <<i, n>>, chain[i].txs[n]) = [p \in E |-> chain[p[1]].txs[p[2]]]
  <2>1. With(Upto(chain, i, n), <<i, n>>, chain[i].txs[n])
        = [q \in D \cup {<<i, n>>} |-> IF q = <<i, n>> THEN chain[i].txs[n] ELSE chain[q[1]].txs[q[2]]]
    BY <1>4 DEF With
  <2>2. <<i, n>>[1] = i /\ <<i, n>>[2] = n OBVIOUS
  <2>3. \A q \in E : (IF q = <<i, n>> THEN chain[i].txs[n] ELSE chain[q[1]].txs[q[2]])
                     = chain[q[1]].txs[q[2]]
    BY <2>2
  <2> QED BY <1>3, <2>1, <2>3
<1> QED BY <1>4, <1>5, <1>6

LEMMA UptoBlock ==
  ASSUME NEW chain \in Seq(Blocks), NEW i \in DOMAIN chain
  PROVE  Upto(chain, i, Len(chain[i].txs) + 1) = Upto(chain, i + 1, 1)
<1>1. chain[i] \in Blocks /\ i \in Nat OBVIOUS
<1>2. ASSUME NEW p \in Places(chain)
      PROVE  (p[1] < i \/ (p[1] = i /\ p[2] < Len(chain[i].txs) + 1))
             <=> (p[1] < i + 1 \/ (p[1] = i + 1 /\ p[2] < 1))
  <2>1. p[1] \in DOMAIN chain /\ p[2] \in DOMAIN chain[p[1]].txs /\ p[1] \in Nat BY PlaceIs
  <2>2. chain[p[1]] \in Blocks BY <2>1
  <2>3. /\ p[2] \in 1..Len(chain[p[1]].txs) /\ Len(chain[p[1]].txs) \in Nat
        /\ Len(chain[i].txs) \in Nat
    BY <1>1, <2>1, <2>2, BodyIs
  <2> QED BY <1>1, <2>1, <2>3
<1> DEFINE D == {p \in Places(chain) : p[1] < i \/ (p[1] = i /\ p[2] < Len(chain[i].txs) + 1)}
           E == {p \in Places(chain) : p[1] < i + 1 \/ (p[1] = i + 1 /\ p[2] < 1)}
<1>3. D = E BY <1>2
<1>4. /\ Upto(chain, i, Len(chain[i].txs) + 1) = [p \in D |-> chain[p[1]].txs[p[2]]]
      /\ Upto(chain, i + 1, 1) = [p \in E |-> chain[p[1]].txs[p[2]]]
  BY DEF Upto
<1> HIDE DEF D, E
<1> QED BY <1>3, <1>4

LEMMA UptoAll ==
  ASSUME NEW chain \in Seq(Blocks)
  PROVE  Upto(chain, Len(chain) + 1, 1) = [p \in Places(chain) |-> chain[p[1]].txs[p[2]]]
<1>1. \A p \in Places(chain) : p[1] < Len(chain) + 1
  <2>1. \A p \in Places(chain) : p[1] \in DOMAIN chain BY PlaceIs
  <2> QED BY <2>1
<1> DEFINE D == {p \in Places(chain) :
                    p[1] < Len(chain) + 1 \/ (p[1] = Len(chain) + 1 /\ p[2] < 1)}
<1>2. D = Places(chain) BY <1>1
<1>3. Upto(chain, Len(chain) + 1, 1) = [p \in D |-> chain[p[1]].txs[p[2]]] BY DEF Upto
<1> HIDE DEF D
<1> QED BY <1>2, <1>3

LEMMA UptoAppended ==
  ASSUME NEW chain \in Seq(Blocks), NEW b \in Blocks
  PROVE  Upto(Append(chain, b), Len(chain) + 1, 1) = Upto(chain, Len(chain) + 1, 1)
<1> DEFINE longer == Append(chain, b)
           len == Len(chain)
<1>1. /\ len \in Nat /\ longer \in Seq(Blocks) /\ Len(longer) = len + 1
      /\ DOMAIN chain = 1..len /\ DOMAIN longer = 1..len + 1
      /\ \A i \in DOMAIN chain : longer[i] = chain[i]
  OBVIOUS
<1> HIDE DEF longer, len
<1> DEFINE D == {p \in Places(longer) : p[1] < len + 1 \/ (p[1] = len + 1 /\ p[2] < 1)}
           E == {p \in Places(chain) : p[1] < len + 1 \/ (p[1] = len + 1 /\ p[2] < 1)}
<1>2. ASSUME NEW p \in D PROVE p \in E
  <2>1. /\ p[1] \in DOMAIN longer /\ p[2] \in DOMAIN longer[p[1]].txs /\ p[1] \in Nat /\ p[2] \in Nat
        /\ p = <<p[1], p[2]>>
    BY <1>1, PlaceIs
  <2>2. p[2] # 0
    <3>1. longer[p[1]] \in Blocks BY <1>1, <2>1
    <3>2. p[2] \in 1..Len(longer[p[1]].txs) /\ Len(longer[p[1]].txs) \in Nat BY <2>1, <3>1, BodyIs
    <3> QED BY <3>2
  <2>3. p[1] \in DOMAIN chain BY <1>1, <2>1, <2>2
  <2>4. longer[p[1]] = chain[p[1]] BY <1>1, <2>3
  <2>5. p \in Places(chain)
    <3>1. <<p[1], p[2]>> \in Places(chain) BY <2>1, <2>3, <2>4, PlaceIs
    <3> QED BY <2>1, <3>1
  <2> QED BY <2>5
<1>3. ASSUME NEW p \in E PROVE p \in D
  <2>1. /\ p[1] \in DOMAIN chain /\ p[2] \in DOMAIN chain[p[1]].txs /\ p = <<p[1], p[2]>>
    BY PlaceIs
  <2>2. p[1] \in DOMAIN longer /\ longer[p[1]] = chain[p[1]] BY <1>1, <2>1
  <2>3. p \in Places(longer)
    <3>1. <<p[1], p[2]>> \in Places(longer) BY <1>1, <2>1, <2>2, PlaceIs
    <3> QED BY <2>1, <3>1
  <2> QED BY <2>3
<1>4. D = E BY <1>2, <1>3
<1>5. \A p \in E : longer[p[1]].txs[p[2]] = chain[p[1]].txs[p[2]]
  <2>1. \A p \in E : p[1] \in DOMAIN chain BY PlaceIs
  <2> QED BY <1>1, <2>1
<1>6. /\ Upto(longer, len + 1, 1) = [p \in D |-> longer[p[1]].txs[p[2]]]
      /\ Upto(chain, len + 1, 1) = [p \in E |-> chain[p[1]].txs[p[2]]]
  BY DEF Upto
<1> HIDE DEF D, E
<1>7. Upto(longer, len + 1, 1) = Upto(chain, len + 1, 1) BY <1>4, <1>5, <1>6
<1> QED BY <1>7 DEF longer, len

LEMMA SyncBalTyped ==
  ASSUME NEW l \in Ledgers, NEW txs \in Seq(Transactions)
  PROVE  SyncBal(l, txs) \in Ledgers
<1>1. PICK G \in [0..Len(txs) -> Ledgers] : SyncBal(l, txs) = G[Len(txs)] BY SyncBalSteps
<1>2. Len(txs) \in 0..Len(txs) OBVIOUS
<1> QED BY <1>1, <1>2

LEMMA SyncBalMatches ==
  ASSUME NEW chain \in Seq(Blocks), NEW i \in DOMAIN chain, NEW l \in Ledgers,
         IsHistory(Upto(chain, i, 1)), Matches(l, Upto(chain, i, 1))
  PROVE  /\ IsHistory(Upto(chain, i + 1, 1))
         /\ Matches(SyncBal(l, chain[i].txs), Upto(chain, i + 1, 1))
<1> DEFINE txs == chain[i].txs
           n == Len(txs)
<1>1. /\ txs \in Seq(Transactions) /\ n \in Nat /\ DOMAIN txs = 1..n /\ i \in Nat
      /\ \A k \in 1..n : txs[k] \in Transactions
  <2>1. chain[i] \in Blocks /\ i \in Nat OBVIOUS
  <2> QED BY <2>1, BodyIs
<1>2. PICK G \in [0..n -> Ledgers] :
        /\ G[0] = l /\ SyncBal(l, txs) = G[n]
        /\ \A k \in 1..n : G[k] = Sync(G[k - 1], txs[k])
  BY <1>1, SyncBalSteps
<1> DEFINE Done(k) == IsHistory(Upto(chain, i, k + 1)) /\ Matches(G[k], Upto(chain, i, k + 1))
           W == {k \in 0..n : ~Done(k)}
<1>3. W = {}
  <2> SUFFICES ASSUME W # {} PROVE FALSE OBVIOUS
  <2>1. W \subseteq Nat BY <1>1
  <2>2. PICK k \in W : \A j \in W : k <= j
    <3> HIDE DEF W
    <3> QED BY <2>1, LeastNat
  <2>3. k \in 0..n /\ ~Done(k) OBVIOUS
  <2>4. Done(0)
    <3>1. 0 + 1 = 1 OBVIOUS
    <3> QED BY <1>2, <3>1
  <2>5. k # 0 BY <2>3, <2>4
  <2>6. k \in 1..n /\ k - 1 \in 0..n /\ ~(k <= k - 1) /\ (k - 1) + 1 = k BY <1>1, <2>3, <2>5
  <2>7. Done(k - 1) BY <2>2, <2>6
  <2> DEFINE h == Upto(chain, i, k)
  <2>8. IsHistory(h) /\ Matches(G[k - 1], h) BY <2>6, <2>7
  <2>9. k \in DOMAIN txs /\ <<i, k>> \in Nat \X Nat /\ txs[k] \in Transactions /\ G[k - 1] \in Ledgers
    <3>1. k \in Nat /\ k \in DOMAIN txs BY <1>1, <2>6
    <3>2. txs[k] \in Transactions BY <1>1, <2>6
    <3> HIDE DEF txs
    <3>3. G[k - 1] \in Ledgers BY <1>2, <2>6
    <3> QED BY <1>1, <3>1, <3>2, <3>3
  <2>10. /\ Upto(chain, i, k + 1) = With(h, <<i, k>>, txs[k])
         /\ \A q \in DOMAIN h : Earlier(q, <<i, k>>)
    BY <2>9, UptoNext
  <2>11. G[k] = Sync(G[k - 1], txs[k]) BY <1>2, <2>6
  <2> HIDE DEF h, txs
  <2>12. IsHistory(With(h, <<i, k>>, txs[k])) /\ Matches(Sync(G[k - 1], txs[k]), With(h, <<i, k>>, txs[k]))
    BY <2>8, <2>9, <2>10, MatchesWith
  <2> QED BY <2>3, <2>10, <2>11, <2>12
<1>4. Done(n)
  <2>1. n \in 0..n BY <1>1
  <2> QED BY <1>3, <2>1
<1>5. Upto(chain, i, n + 1) = Upto(chain, i + 1, 1) BY UptoBlock
<1> QED BY <1>2, <1>4, <1>5

LEMMA NoAccountsMatch ==
  ASSUME NEW chain \in Seq(Blocks)
  PROVE  NoAccounts \in Ledgers /\ Matches(NoAccounts, Upto(chain, 1, 1))
<1> DEFINE h == Upto(chain, 1, 1)
<1>1. DOMAIN h = {} BY UptoNone
<1> HIDE DEF h
<1>2. NoAccounts \in [{} -> 0..Modulus - 1] /\ DOMAIN NoAccounts = {} BY DEF NoAccounts
<1>3. NoAccounts \in Ledgers BY <1>2, LedgerIs
<1>4. ASSUME NEW a \in Acc PROVE Balance(NoAccounts, a) = 0 /\ Sent(h, a) = 0 /\ Received(h, a) = 0
  <2>1. /\ {p \in DOMAIN h : h[p].dest = a} = {}
        /\ {p \in DOMAIN h : h[p].src = a /\ ~Minted(h, p)} = {}
    BY <1>1
  <2> QED BY <1>2, <2>1, AmountsOfNone DEF Balance, Sent, Received
<1>5. 0 + 0 = 0 OBVIOUS
<1>6. DOMAIN NoAccounts = {a \in Acc : \E p \in DOMAIN h : Touches(h[p], a)} BY <1>1, <1>2
<1>7. Matches(NoAccounts, h) BY <1>4, <1>5, <1>6 DEF Matches
<1> QED BY <1>3, <1>7 DEF h

Replayed(chain) == FoldLeft(LAMBDA l, b : SyncBal(l, b.txs), NoAccounts, chain)

ReplayIter(g, chain) ==
  g = [s \in SUBSET DOMAIN chain |->
         IF s = {} THEN NoAccounts ELSE SyncBal(g[s \ {Max(s)}], chain[Max(s)].txs)]

LEMMA ReplaySteps ==
  ASSUME NEW chain \in Seq(Blocks)
  PROVE  \E G \in [0..Len(chain) -> Ledgers] :
           /\ G[0] = NoAccounts /\ Replayed(chain) = G[Len(chain)]
           /\ \A k \in 1..Len(chain) : G[k] = SyncBal(G[k - 1], chain[k].txs)
<1> DEFINE n == Len(chain)
<1>1. n \in Nat /\ DOMAIN chain = 1..n /\ \A k \in 1..n : chain[k] \in Blocks OBVIOUS
<1>2. \A k \in 1..n : chain[k].txs \in Seq(Transactions) BY <1>1, BodyIs
<1> HIDE DEF n
<1>3. NoAccounts \in Ledgers BY NoAccountsMatch
<1>4. Replayed(chain) = (CHOOSE g : ReplayIter(g, chain))[1..n]
  BY <1>1 DEF Replayed, FoldLeft, MapThenFoldSet, ReplayIter
<1>5. \E g : ReplayIter(g, chain)
  <2> DEFINE c == [s \in SUBSET (1..n) |-> Max(s)]
             F == [p \in (1..n) \X Ledgers |-> SyncBal(p[2], chain[p[1]].txs)]
  <2>1. IsFiniteSet(1..n) BY <1>1, FS_Interval
  <2>2. Picks(c, 1..n) BY <1>1, MaxIs DEF Picks
  <2>3. F \in [(1..n) \X Ledgers -> Ledgers] BY <1>2, SyncBalTyped
  <2>4. PICK g : Fold(g, 1..n, NoAccounts, c, F)
    <3> HIDE DEF c, F
    <3> QED BY <2>1, <2>2, FoldExists
  <2>5. \A s \in SUBSET (1..n) : g[s] \in Ledgers
    <3> HIDE DEF c, F
    <3> QED BY <1>3, <2>1, <2>2, <2>3, <2>4, FoldTyped
  <2>6. ASSUME NEW s \in SUBSET (1..n), s # {}
        PROVE  F[<<c[s], g[s \ {c[s]}]>>] = SyncBal(g[s \ {Max(s)}], chain[Max(s)].txs)
    <3>1. c[s] = Max(s) /\ Max(s) \in 1..n BY <1>1, <2>6, MaxIs
    <3>2. g[s \ {Max(s)}] \in Ledgers BY <2>5
    <3> HIDE DEF c
    <3> QED BY <3>1, <3>2
  <2>7. g = [s \in SUBSET (1..n) |->
               IF s = {} THEN NoAccounts ELSE SyncBal(g[s \ {Max(s)}], chain[Max(s)].txs)]
    <3> HIDE DEF c, F
    <3>1. g = [s \in SUBSET (1..n) |-> IF s = {} THEN NoAccounts ELSE F[<<c[s], g[s \ {c[s]}]>>]]
      BY <2>4 DEF Fold
    <3> QED BY <2>6, <3>1
  <2> QED BY <1>1, <2>7 DEF ReplayIter
<1>6. PICK g : ReplayIter(g, chain) /\ Replayed(chain) = g[1..n]
  <2> DEFINE Q(g) == ReplayIter(g, chain)
  <2>1. \E g : Q(g) BY <1>5
  <2>2. Replayed(chain) = (CHOOSE g : Q(g))[1..n] BY <1>4
  <2> HIDE DEF Q
  <2>3. Q(CHOOSE g : Q(g)) BY <2>1
  <2>4. \E g : Q(g) /\ Replayed(chain) = g[1..n] BY <2>2, <2>3
  <2> QED BY <2>4 DEF Q
<1> DEFINE G == [k \in 0..n |-> g[1..k]]
<1>7. G[0] = NoAccounts
  <2>1. 1..0 = {} /\ 0 \in 0..n BY <1>1
  <2> QED BY <1>1, <1>6, <2>1 DEF ReplayIter
<1>8. ASSUME NEW k \in 1..n PROVE G[k] = SyncBal(G[k - 1], chain[k].txs)
  <2>1. k \in 0..n /\ k - 1 \in 0..n BY <1>1
  <2>2. g[1..k] = SyncBal(g[1..k - 1], chain[k].txs)
    BY <1>1, <1>6, LastOfPrefix DEF ReplayIter
  <2> QED BY <2>1, <2>2
<1>9. G \in [0..n -> Ledgers]
  <2> DEFINE W == {k \in 0..n : G[k] \notin Ledgers}
  <2>1. W = {}
    <3> SUFFICES ASSUME W # {} PROVE FALSE OBVIOUS
    <3>1. W \subseteq Nat BY <1>1
    <3>2. PICK k \in W : \A j \in W : k <= j
      <4> HIDE DEF W
      <4> QED BY <3>1, LeastNat
    <3>3. k # 0 /\ k \in 0..n BY <1>3, <1>7, <3>2
    <3>4. k \in 1..n /\ k - 1 \in 0..n /\ ~(k <= k - 1) BY <1>1, <3>3
    <3>5. G[k - 1] \in Ledgers BY <3>2, <3>4
    <3> HIDE DEF G
    <3> QED BY <1>2, <1>8, <3>2, <3>4, <3>5, SyncBalTyped
  <2> QED BY <2>1
<1>10. Replayed(chain) = G[n] BY <1>1, <1>6
<1> HIDE DEF G
<1> QED BY <1>7, <1>8, <1>9, <1>10 DEF n

LEMMA ReplayMatches ==
  ASSUME NEW chain \in Seq(Blocks)
  PROVE  /\ Replayed(chain) \in Ledgers /\ IsHistory(Upto(chain, Len(chain) + 1, 1))
         /\ Matches(Replayed(chain), Upto(chain, Len(chain) + 1, 1))
<1> DEFINE n == Len(chain)
<1>1. n \in Nat /\ DOMAIN chain = 1..n OBVIOUS
<1>2. PICK G \in [0..n -> Ledgers] :
        /\ G[0] = NoAccounts /\ Replayed(chain) = G[n]
        /\ \A k \in 1..n : G[k] = SyncBal(G[k - 1], chain[k].txs)
  BY ReplaySteps
<1> HIDE DEF n
<1> DEFINE Done(k) == IsHistory(Upto(chain, k + 1, 1)) /\ Matches(G[k], Upto(chain, k + 1, 1))
           W == {k \in 0..n : ~Done(k)}
<1>3. W = {}
  <2> SUFFICES ASSUME W # {} PROVE FALSE OBVIOUS
  <2>1. W \subseteq Nat BY <1>1
  <2>2. PICK k \in W : \A j \in W : k <= j
    <3> HIDE DEF W
    <3> QED BY <2>1, LeastNat
  <2>3. k \in 0..n /\ ~Done(k) OBVIOUS
  <2>4. Done(0)
    <3>1. 0 + 1 = 1 OBVIOUS
    <3> QED BY <1>2, <3>1, UptoNone, NoAccountsMatch
  <2>5. k # 0 BY <2>3, <2>4
  <2>6. k \in 1..n /\ k - 1 \in 0..n /\ ~(k <= k - 1) /\ (k - 1) + 1 = k BY <1>1, <2>3, <2>5
  <2>7. Done(k - 1) BY <2>2, <2>6
  <2>8. IsHistory(Upto(chain, k, 1)) /\ Matches(G[k - 1], Upto(chain, k, 1)) BY <2>6, <2>7
  <2>9. k \in DOMAIN chain /\ G[k - 1] \in Ledgers /\ G[k] = SyncBal(G[k - 1], chain[k].txs)
    BY <1>1, <1>2, <2>6
  <2>10. Done(k) BY <2>8, <2>9, SyncBalMatches
  <2> QED BY <2>3, <2>10
<1>4. Done(n) /\ G[n] \in Ledgers
  <2>1. n \in 0..n BY <1>1
  <2> QED BY <1>2, <1>3, <2>1
<1> QED BY <1>2, <1>4 DEF n

-----------------------------------------------------------------------------
(* The ledger at each point of add_block.                                  *)
Agrees(l, chain, i, n) == IsHistory(Upto(chain, i, n)) /\ Matches(l, Upto(chain, i, n))

(* Between two transactions of sync_bal the ledger is that of the chain up *)
(* to there; between the credit and the debit of one it is that with the   *)
(* credit made, and src_found is the lookup made before it.                *)
LedgerInv ==
  /\ ledger \in Ledgers /\ nt \in Nat /\ src_found \in BOOLEAN
  /\ Synced => Agrees(ledger, blocks, Len(blocks) + 1, 1)
  /\ step = "credit" =>
       nt \in 1..Len(Block.txs) + 1 /\ Agrees(ledger, blocks, Len(blocks), nt)
  /\ step = "debit" =>
       /\ nt \in DOMAIN Block.txs
       /\ \E l \in Ledgers : /\ Agrees(l, blocks, Len(blocks), nt)
                             /\ ledger = Credit(l, Block.txs[nt])
                             /\ src_found = (Block.txs[nt].src \in DOMAIN l)

LEMMA InitLedger == Init => LedgerInv
<1> SUFFICES ASSUME Init PROVE LedgerInv OBVIOUS
<1>1. /\ blocks = <<Genesis>> /\ ledger = SyncBal(NoAccounts, GenesisBody)
      /\ step = "idle" /\ nt = 1 /\ src_found = FALSE
  BY DEF Init
<1>2. /\ blocks \in Seq(Blocks) /\ Len(blocks) = 1 /\ 1 \in DOMAIN blocks
      /\ blocks[1].txs = GenesisBody
  BY <1>1, GenesisType DEF Genesis
<1>3. NoAccounts \in Ledgers /\ Matches(NoAccounts, Upto(blocks, 1, 1)) /\ IsHistory(Upto(blocks, 1, 1))
  BY <1>2, UptoNone, NoAccountsMatch
<1>4. Agrees(ledger, blocks, 1 + 1, 1)
  BY <1>1, <1>2, <1>3, SyncBalMatches DEF Agrees
<1>5. ledger \in Ledgers BY <1>1, <1>3, SyncBalTyped, BlockChainAssumption
<1> QED BY <1>1, <1>2, <1>4, <1>5 DEF LedgerInv

(* Where add_block is in the chain.                                        *)
LEMMA Here ==
  ASSUME IInv
  PROVE  /\ blocks \in Seq(Blocks) /\ Len(blocks) \in Nat /\ Len(blocks) \in DOMAIN blocks
         /\ Block = blocks[Len(blocks)] /\ Block \in Blocks
         /\ Block.txs \in Seq(Transactions) /\ Len(Block.txs) \in Nat
         /\ DOMAIN Block.txs = 1..Len(Block.txs)
         /\ \A n \in DOMAIN Block.txs : Block.txs[n] \in Transactions
<1>1. /\ blocks \in Seq(Blocks) /\ Len(blocks) \in Nat /\ Len(blocks) \in DOMAIN blocks
      /\ Block = blocks[Len(blocks)] /\ Block \in Blocks
  BY Types DEF IInv, TypeInv, BlocksInv, Block, Last
<1> QED BY <1>1, BodyIs

LEMMA AddBlockLedger ==
  ASSUME IInv, LedgerInv, NEW txs \in Bodies, AddBlock(txs)
  PROVE  LedgerInv'
<1> DEFINE b == [id |-> tip.id + 1, hash |-> made + 1, prev |-> tip.hash, txs |-> txs]
<1>1. /\ step = "idle" /\ step' = "credit" /\ blocks' = Append(blocks, b)
      /\ nt' = 1 /\ UNCHANGED <<ledger, src_found>>
  BY DEF AddBlock
<1>2. b \in Blocks BY DEF IInv, TypeInv, Blocks, Bodied
<1> HIDE DEF b
<1>3. blocks \in Seq(Blocks) /\ Len(blocks) \in Nat BY Here
<1>4. blocks' \in Seq(Blocks) /\ Len(blocks') = Len(blocks) + 1 /\ Block' = b
  BY <1>1, <1>2, <1>3, Appended DEF Block, Last
<1>5. Len(b.txs) \in Nat BY <1>2, BodyIs
<1>6. Agrees(ledger, blocks, Len(blocks) + 1, 1) BY <1>1 DEF LedgerInv, Synced
<1>7. Agrees(ledger, blocks', Len(blocks) + 1, 1)
  BY <1>1, <1>2, <1>3, <1>6, UptoAppended DEF Agrees
<1> QED BY <1>1, <1>4, <1>5, <1>7 DEF LedgerInv, Synced

LEMMA CreditLedger == ASSUME IInv, LedgerInv, CreditDest PROVE LedgerInv'
<1>1. /\ step = "credit" /\ step' = "debit" /\ nt <= Len(Block.txs)
      /\ src_found' = (Block.txs[nt].src \in DOMAIN ledger)
      /\ ledger' = Credit(ledger, Block.txs[nt])
      /\ UNCHANGED <<blocks, nt>>
  BY DEF CreditDest
<1>2. /\ nt \in Nat /\ nt \in DOMAIN Block.txs /\ ledger \in Ledgers
      /\ Agrees(ledger, blocks, Len(blocks), nt)
  BY <1>1, Here DEF LedgerInv
<1>3. Block.txs[nt] \in Transactions BY <1>2, Here
<1>4. ledger' \in Ledgers BY <1>1, <1>2, <1>3, CreditIs
<1>5. Block' = Block BY <1>1 DEF Block, Last
<1> QED BY <1>1, <1>2, <1>4, <1>5 DEF LedgerInv, Synced

LEMMA DebitLedger == ASSUME IInv, LedgerInv, DebitSrc PROVE LedgerInv'
<1> DEFINE n == Len(blocks)
           t == Block.txs[nt]
<1>1. /\ step = "debit" /\ step' = "credit" /\ nt' = nt + 1
      /\ ledger' = Debit(ledger, t, src_found)
      /\ UNCHANGED <<blocks, src_found>>
  BY DEF DebitSrc
<1>2. PICK l \in Ledgers : /\ Agrees(l, blocks, n, nt) /\ ledger = Credit(l, t)
                           /\ src_found = (t.src \in DOMAIN l)
  BY <1>1 DEF LedgerInv
<1>3. /\ n \in DOMAIN blocks /\ nt \in DOMAIN blocks[n].txs /\ nt \in Nat /\ n \in Nat
      /\ t = blocks[n].txs[nt] /\ t \in Transactions /\ blocks \in Seq(Blocks)
  BY <1>1, Here DEF LedgerInv
<1>4. ledger' = Sync(l, t) BY <1>1, <1>2 DEF Sync
<1>5. Block' = Block BY <1>1 DEF Block, Last
<1> HIDE DEF n, t
<1>6. ledger' \in Ledgers
  <2>1. ledger \in Ledgers /\ DOMAIN ledger = DOMAIN l \cup {t.dest} BY <1>2, <1>3, CreditIs
  <2>2. src_found \in BOOLEAN BY DEF LedgerInv
  <2>3. src_found => t.src \in DOMAIN ledger BY <1>2, <2>1
  <2> QED BY <1>1, <1>3, <2>1, <2>2, <2>3, DebitIs
<1> DEFINE h == Upto(blocks, n, nt)
<1>7. /\ Upto(blocks, n, nt + 1) = With(h, <<n, nt>>, t)
      /\ \A q \in DOMAIN h : Earlier(q, <<n, nt>>)
  BY <1>3, UptoNext
<1>8. IsHistory(h) /\ Matches(l, h) BY <1>2 DEF Agrees
<1> HIDE DEF h
<1>9. <<n, nt>> \in Nat \X Nat BY <1>3
<1>10. IsHistory(With(h, <<n, nt>>, t)) /\ Matches(Sync(l, t), With(h, <<n, nt>>, t))
  BY <1>3, <1>7, <1>8, <1>9, MatchesWith
<1>11. Agrees(ledger', blocks, n, nt + 1) BY <1>4, <1>7, <1>10 DEF Agrees
<1>12. nt + 1 \in 1..Len(Block.txs) + 1 /\ nt + 1 \in Nat
  BY <1>1, <1>3, Here DEF LedgerInv
<1> QED BY <1>1, <1>5, <1>6, <1>11, <1>12 DEF LedgerInv, Synced, n

LEMMA DoneLedger == ASSUME IInv, LedgerInv, SyncDone PROVE LedgerInv'
<1>1. /\ step = "credit" /\ step' = "write" /\ nt > Len(Block.txs)
      /\ UNCHANGED <<blocks, ledger, nt, src_found>>
  BY DEF SyncDone, memory
<1>2. nt = Len(Block.txs) + 1 /\ Agrees(ledger, blocks, Len(blocks), nt)
  BY <1>1, Here DEF LedgerInv
<1>3. Upto(blocks, Len(blocks), Len(Block.txs) + 1) = Upto(blocks, Len(blocks) + 1, 1)
  BY Here, UptoBlock
<1>4. Agrees(ledger, blocks, Len(blocks) + 1, 1) BY <1>2, <1>3 DEF Agrees
<1> QED BY <1>1, <1>4 DEF LedgerInv, Synced

LEMMA RestartLedger == ASSUME IInv, LedgerInv, Restart PROVE LedgerInv'
<1>1. /\ step' = "idle" /\ ledger' = Replayed(blocks') /\ UNCHANGED <<nt, src_found>>
  BY Zenon DEF Restart, Replayed
<1>2. blocks' \in Seq(Blocks) BY RestartChain
<1>3. ledger' \in Ledgers /\ Agrees(ledger', blocks', Len(blocks') + 1, 1)
  BY <1>1, <1>2, ReplayMatches DEF Agrees
<1> QED BY <1>1, <1>3 DEF LedgerInv, Synced

(* The other steps leave the chain and the ledger alone.                   *)
LEMMA OtherLedger ==
  ASSUME LedgerInv, UNCHANGED <<blocks, ledger, nt, src_found>>,
         step' = step \/ step' = "down" \/ (Synced /\ Synced')
  PROVE  LedgerInv'
<1>1. Block' = Block BY DEF Block, Last
<1>2. CASE step' = step BY <1>1, <1>2 DEF LedgerInv, Synced
<1>3. CASE step' = "down" BY <1>3 DEF LedgerInv, Synced
<1>4. CASE Synced /\ Synced' BY <1>4 DEF LedgerInv, Synced
<1> QED BY <1>2, <1>3, <1>4

LEMMA LedgerStep == ASSUME IInv, LedgerInv, [Next]_vars PROVE LedgerInv'
<1>1. ASSUME UNCHANGED vars \/ OpenFile \/ WriteFile \/ Reply \/ Stop \/ RestartMetronome
      PROVE  LedgerInv'
  <2>1. UNCHANGED <<blocks, ledger, nt, src_found>>
        /\ (step' = step \/ step' = "down" \/ (Synced /\ Synced'))
    BY <1>1 DEF vars, memory, local, bounds, OpenFile, WriteFile, Reply, Stop, RestartMetronome, Synced
  <2> QED BY <2>1, OtherLedger
<1> QED BY <1>1, AddBlockLedger, CreditLedger, DebitLedger, DoneLedger, RestartLedger DEF Next

(* The ledger says what the chain says: whatever the accounts, overdrafts  *)
(* and payments to oneself, after any number of stops and restarts.        *)
THEOREM LedgerFollowsChain == Spec => []LedgerMatchesChain
<1>1. IInv /\ LedgerInv => LedgerMatchesChain
  <2> SUFFICES ASSUME IInv, LedgerInv, Synced PROVE Matches(ledger, AllTxs)
    BY DEF LedgerMatchesChain
  <2>1. AllTxs = Upto(blocks, Len(blocks) + 1, 1)
    BY Here, UptoAll DEF AllTxs
  <2> QED BY <2>1 DEF LedgerInv, Agrees
<1>2. LedgerInv /\ IInv /\ [Next]_vars => LedgerInv' BY LedgerStep
<1> QED BY <1>1, <1>2, InitLedger, BlockChainInvariance, PTL DEF Spec

-----------------------------------------------------------------------------
(* Bounds.                                                                 *)
TightBlocks ==
  {b \in [id : Nat, hash : 0..MaxBlocks, prev : 0..MaxBlocks, txs : Bodied] :
     b.hash > 0 => b.txs \in Bodies}
TightEntries == [name : Nat, hash : 1..MaxBlocks, prev : 0..MaxBlocks, txs : Bodies]

BoundsInv ==
  /\ blocks \in Seq(TightBlocks)
  /\ stored_chain \in Seq(TightEntries) /\ file \in Seq(TightEntries)
  /\ tip \in [id : Nat, hash : 0..MaxBlocks]
  /\ made \in 0..MaxBlocks /\ stops \in 0..MaxStops

LEMMA TightGenesis == Genesis \in TightBlocks
BY BlockChainAssumption DEF Genesis, TightBlocks, Bodied

LEMMA PutTyped ==
  ASSUME NEW S, NEW doc \in Seq(S), NEW b, Stored(b) \in S
  PROVE  Put(doc, b) \in Seq(S)
<1>1. CASE \E i \in DOMAIN doc : doc[i].name = b.id
  <2>1. Put(doc, b) = [i \in DOMAIN doc |-> IF doc[i].name = b.id THEN Stored(b) ELSE doc[i]]
    BY <1>1 DEF Put
  <2>2. Len(doc) \in Nat /\ DOMAIN doc = 1..Len(doc) /\ \A i \in DOMAIN doc : doc[i] \in S
    BY SeqDomain
  <2>3. Put(doc, b) \in [1..Len(doc) -> S] BY <2>1, <2>2
  <2> QED BY <2>2, <2>3, FunctionSeq
<1>2. CASE ~\E i \in DOMAIN doc : doc[i].name = b.id
  <2>1. Put(doc, b) = Append(doc, Stored(b)) BY <1>2 DEF Put
  <2> QED BY <2>1, Appended
<1> QED BY <1>1, <1>2

LEMMA LoadedTight ==
  ASSUME NEW doc \in Seq(TightEntries), NEW g \in Nat
  PROVE  <<Genesis>> \o Loaded(doc, g) \in Seq(TightBlocks)
<1>1. Len(doc) \in Nat /\ DOMAIN doc = 1..Len(doc) /\ \A i \in DOMAIN doc : doc[i] \in TightEntries
  BY SeqDomain
<1>2. Loaded(doc, g) \in [1..Len(doc) -> TightBlocks]
  <2> SUFFICES ASSUME NEW i \in 1..Len(doc)
               PROVE  [id |-> g, hash |-> doc[i].hash, prev |-> doc[i].prev, txs |-> doc[i].txs]
                      \in TightBlocks
    BY <1>1 DEF Loaded
  <2>1. doc[i] \in TightEntries BY <1>1
  <2> QED BY <2>1, BlockChainAssumption DEF TightBlocks, TightEntries, Bodied
<1>3. Loaded(doc, g) \in Seq(TightBlocks) BY <1>1, <1>2, FunctionSeq
<1> QED BY <1>3, TightGenesis, AfterGenesis

LEMMA InitBounds == Init => BoundsInv
<1> SUFFICES ASSUME Init PROVE BoundsInv OBVIOUS
<1>1. blocks \in Seq(TightBlocks) BY TightGenesis DEF Init
<1>2. tip \in [id : Nat, hash : 0..MaxBlocks] BY BlockChainAssumption DEF Init
<1>3. made \in 0..MaxBlocks /\ stops \in 0..MaxStops BY BlockChainAssumption DEF Init
<1> QED BY <1>1, <1>2, <1>3 DEF Init, BoundsInv

LEMMA BlockTight ==
  ASSUME IInv, BoundsInv
  PROVE  Block \in TightBlocks /\ [id |-> Block.id, hash |-> Block.hash] \in [id : Nat, hash : 0..MaxBlocks]
<1>1. blocks \in Seq(TightBlocks) /\ Len(blocks) \in DOMAIN blocks /\ Block = blocks[Len(blocks)]
  BY Here DEF BoundsInv
<1>2. Block \in TightBlocks BY <1>1
<1> QED BY <1>2 DEF TightBlocks

LEMMA BoundsStep == ASSUME IInv, BoundsInv, [Next]_vars PROVE BoundsInv'
<1>1. ASSUME NEW txs \in Bodies, AddBlock(txs) PROVE BoundsInv'
  <2> DEFINE b == [id |-> tip.id + 1, hash |-> made + 1, prev |-> tip.hash, txs |-> txs]
  <2>1. /\ made < MaxBlocks /\ made' = made + 1 /\ blocks' = Append(blocks, b)
        /\ UNCHANGED <<stored_chain, file, tip, stops>>
    BY <1>1 DEF AddBlock
  <2>2. made + 1 \in 0..MaxBlocks /\ tip.id + 1 \in Nat /\ tip.hash \in 0..MaxBlocks
    BY <2>1, BlockChainAssumption DEF BoundsInv
  <2>3. b \in TightBlocks BY <2>2 DEF TightBlocks, Bodied
  <2> HIDE DEF b
  <2>4. blocks' \in Seq(TightBlocks) BY <2>1, <2>3, Appended DEF BoundsInv
  <2> QED BY <2>1, <2>2, <2>4 DEF BoundsInv
<1>2. ASSUME OpenFile PROVE BoundsInv'
  <2>1. /\ step = "write" /\ stored_chain' = Put(stored_chain, Block) /\ file' = <<>>
        /\ UNCHANGED <<blocks, tip, made, stops>>
    BY <1>2 DEF OpenFile, bounds
  <2>2. Block.hash > 0 BY <2>1 DEF IInv, FreshInv, Fresh
  <2>3. Stored(Block) \in TightEntries
    BY <2>2, BlockTight, BlockChainAssumption DEF Stored, TightBlocks, TightEntries
  <2>4. stored_chain' \in Seq(TightEntries) BY <2>1, <2>3, PutTyped DEF BoundsInv
  <2>5. file' \in Seq(TightEntries) BY <2>1
  <2> QED BY <2>1, <2>4, <2>5 DEF BoundsInv
<1>3. ASSUME WriteFile PROVE BoundsInv'
  BY <1>3 DEF WriteFile, Flushed, BoundsInv, memory, bounds
<1>4. ASSUME Reply \/ RestartMetronome PROVE BoundsInv'
  <2>1. /\ tip' = [id |-> Block.id, hash |-> Block.hash]
        /\ UNCHANGED <<blocks, stored_chain, file, made, stops>>
    BY <1>4 DEF Reply, RestartMetronome, memory, bounds
  <2> QED BY <2>1, BlockTight DEF BoundsInv
<1>5. ASSUME Stop PROVE BoundsInv'
  <2>1. /\ stops < MaxStops /\ stops' = stops + 1
        /\ file' \in IF step = "flush"
                     THEN {SubSeq(stored_chain, 1, n) : n \in 0..Len(stored_chain)} ELSE {file}
        /\ UNCHANGED <<blocks, stored_chain, tip, made>>
    BY <1>5 DEF Stop, memory
  <2>2. stops' \in 0..MaxStops BY <2>1, BlockChainAssumption DEF BoundsInv
  <2>3. file' = file \/ \E n \in 0..Len(stored_chain) : file' = SubSeq(stored_chain, 1, n)
    BY <2>1
  <2>4. file' \in Seq(TightEntries) BY <2>3, Prefix DEF BoundsInv
  <2> QED BY <2>1, <2>2, <2>4 DEF BoundsInv
<1>6. ASSUME Restart PROVE BoundsInv'
  <2> DEFINE doc == IF named THEN file ELSE <<>>
  <2>1. PICK g \in Garbage : blocks' = <<Genesis>> \o Loaded(doc, g)
    BY <1>6, Zenon DEF Restart
  <2>2. stored_chain' = doc /\ UNCHANGED <<file, tip, made, stops>>
    BY <1>6, Zenon DEF Restart
  <2>3. doc \in Seq(TightEntries) BY DEF BoundsInv
  <2> HIDE DEF doc
  <2>4. g \in Nat BY BlockChainAssumption
  <2>5. blocks' \in Seq(TightBlocks) BY <2>1, <2>3, <2>4, LoadedTight
  <2> QED BY <2>2, <2>3, <2>5 DEF BoundsInv
<1>7. ASSUME CreditDest \/ DebitSrc \/ SyncDone \/ UNCHANGED vars PROVE BoundsInv'
  <2>1. UNCHANGED <<blocks, stored_chain, file, tip, made, stops>>
    BY <1>7 DEF CreditDest, DebitSrc, SyncDone, vars, memory, bounds
  <2> QED BY <2>1 DEF BoundsInv
<1> QED BY <1>1, <1>2, <1>3, <1>4, <1>5, <1>6, <1>7 DEF Next

(* No two blocks of the chain have the same hash: it is no longer than the *)
(* number of blocks made, genesis included.                                *)
LEMMA ChainBounded == ASSUME IInv PROVE Len(blocks) <= made + 1
<1> DEFINE n == Len(blocks)
<1>1. n \in Nat /\ made \in Nat /\ DOMAIN blocks = 1..n
      /\ \A i \in DOMAIN blocks : blocks[i].hash \in Nat
  BY Types DEF IInv, TypeInv
<1>2. /\ \A i \in DOMAIN blocks : blocks[i].hash <= made
      /\ \A i, j \in DOMAIN blocks : blocks[i].hash = blocks[j].hash => i = j
  BY DEF IInv, BlocksInv
<1> HIDE DEF n
<1> DEFINE H == [i \in 1..n |-> blocks[i].hash]
<1>3. H \in Injection(1..n, 0..made)
  <2>1. H \in [1..n -> 0..made] BY <1>1, <1>2
  <2>2. \A i, j \in 1..n : H[i] = H[j] => i = j BY <1>1, <1>2
  <2> QED BY <2>1, <2>2 DEF Injection, IsInjective
<1>4. /\ IsFiniteSet(0..made) /\ Cardinality(0..made) = made + 1 /\ Cardinality(1..n) = n
  <2>1. 0 \in Int /\ 1 \in Int /\ made \in Int /\ n \in Int BY <1>1
  <2>2. IsFiniteSet(0..made) /\ Cardinality(0..made) = IF 0 > made THEN 0 ELSE made - 0 + 1
    BY <2>1, FS_Interval
  <2>3. Cardinality(1..n) = IF 1 > n THEN 0 ELSE n - 1 + 1 BY <2>1, FS_Interval
  <2> QED BY <1>1, <2>2, <2>3
<1> HIDE DEF H
<1>5. Cardinality(1..n) <= Cardinality(0..made) BY <1>3, <1>4, FS_Injection
<1> QED BY <1>4, <1>5 DEF n

(* Types and bounds; a restart never loads more blocks than were made.     *)
THEOREM BlockChainTypeCorrect == Spec => []TypeOK
<1>1. ASSUME IInv, LedgerInv, BoundsInv PROVE TypeOK
  <2>1. loaded \in 1..MaxBlocks + 1
    <3>1. loaded \in 1..Len(blocks) /\ Len(blocks) \in Nat BY <1>1, Here DEF IInv, LinkedInv
    <3>2. Len(blocks) <= made + 1 /\ made \in 0..MaxBlocks BY <1>1, ChainBounded DEF BoundsInv
    <3> QED BY <3>1, <3>2, BlockChainAssumption
  <2>2. blocks \in Seq([id : Nat, hash : 0..MaxBlocks, prev : 0..MaxBlocks, txs : Bodied])
    <3>1. Len(blocks) \in Nat /\ DOMAIN blocks = 1..Len(blocks)
          /\ \A i \in DOMAIN blocks : blocks[i] \in TightBlocks
      BY <1>1, SeqDomain DEF BoundsInv
    <3> DEFINE S == [id : Nat, hash : 0..MaxBlocks, prev : 0..MaxBlocks, txs : Bodied]
    <3>2. TightBlocks \subseteq S BY DEF TightBlocks
    <3> HIDE DEF S
    <3>3. blocks \in [1..Len(blocks) -> S]
      <4>1. blocks = [i \in 1..Len(blocks) |-> blocks[i]] BY <1>1, <3>1 DEF BoundsInv
      <4> QED BY <3>1, <3>2, <4>1
    <3> QED BY <3>1, <3>3, FunctionSeq DEF S
  <2>3. DOMAIN ledger \subseteq Acc /\ \A a \in DOMAIN ledger : ledger[a] \in 0..Modulus - 1
    BY <1>1, LedgerIs DEF LedgerInv
  <2>4. stored_chain \in Seq(TightEntries) /\ file \in Seq(TightEntries)
        /\ tip \in [id : Nat, hash : 0..MaxBlocks] /\ made \in 0..MaxBlocks /\ stops \in 0..MaxStops
    BY <1>1 DEF BoundsInv
  <2>5. /\ named \in BOOLEAN /\ hung \in BOOLEAN /\ misled \in BOOLEAN
        /\ step \in {"down", "idle", "credit", "debit", "write", "flush", "reply"}
    BY <1>1 DEF IInv, TypeInv
  <2>6. nt \in Nat /\ src_found \in BOOLEAN BY <1>1 DEF LedgerInv
  <2> QED BY <2>1, <2>2, <2>3, <2>4, <2>5, <2>6, Zenon DEF TypeOK, TightEntries, Bodied
<1>2. ASSUME IInv, LedgerInv, BoundsInv, [Next]_vars PROVE LedgerInv' /\ BoundsInv'
  BY <1>2, LedgerStep, BoundsStep
<1> QED BY <1>1, <1>2, InitLedger, InitBounds, BlockChainInvariance, PTL DEF Spec
=============================================================================
