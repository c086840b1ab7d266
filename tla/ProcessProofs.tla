---------------------------- MODULE ProcessProofs ----------------------------
(***************************************************************************)
(* Proofs about two long-running processes: the consumer of                *)
(* blockchain-postgres-sync, and the pairs daemon of data-service.         *)
(*                                                                         *)
(* Consumer.  PathInv says of the node's chain, the index and everything   *)
(* that is in flight between them (the batch handed over, the batch in the *)
(* making, the stream) that each element continues the one before it; the  *)
(* first continues the newest row, and the last is the node's tip.         *)
(* StoredPath and NeverFails follow.  RedisInv adds what Redis holds, or   *)
(* will hold once the committed batch is published: RedisIsNewest.         *)
(***************************************************************************)
EXTENDS Consumer, PairsDaemon, TableProofs, SequenceTheorems

-----------------------------------------------------------------------------
(* The types of the consumer.                                              *)

-----------------------------------------------------------------------------
(* What the parts of a step return, by type. *)
LEMMA UpdateTyped ==
  ASSUME NEW kind \in Kinds, NEW id \in BlockIds, NEW height \in Nat
  PROVE  /\ Update(kind, id, height) \in StreamUpdates
         /\ Update(kind, id, height).kind = kind
         /\ Update(kind, id, height).id = id
         /\ Update(kind, id, height).height = height
  BY DEF Update, StreamUpdates

LEMMA UpsertTyped ==
  ASSUME NEW Ids, NEW rows \in SUBSET BlockRows(Ids), NEW bs, Batch(bs, Ids), NEW seq \in Nat,
         \A b \in rows : b.uid < seq
  PROVE  /\ Upsert(rows, bs, seq) \in SUBSET BlockRows(Ids)
         /\ \A b \in Upsert(rows, bs, seq) : b.uid < seq + Len(bs)
<1>1. ASSUME NEW b \in Upsert(rows, bs, seq) PROVE b \in BlockRows(Ids) /\ b.uid < seq + Len(bs)
  <2>1. Len(bs) \in Nat
    BY DEF Batch
  <2>2. CASE b \in rows
    BY <2>1, <2>2 DEF BlockRows
  <2>3. CASE b \notin rows
    <3>1. PICK i \in DOMAIN bs : b = Appended(bs, seq, i)
      BY <2>3 DEF Upsert, Appended
    <3>. QED BY <3>1, AppendedFields
  <2>. QED BY <2>2, <2>3
<1>. QED BY <1>1

LEMMA SquashTyped ==
  ASSUME NEW Ids, NEW rows \in SUBSET BlockRows(Ids), NEW seq \in Nat, \A b \in rows : b.uid < seq
  PROVE  /\ Squash(rows) \in SUBSET BlockRows(Ids)
         /\ \A b \in Squash(rows) : b.uid < seq
<1>1. CASE Micros(rows) = {}
  BY <1>1 DEF Squash
<1>2. CASE Micros(rows) # {}
  <2>1. LastMicro(rows).id \in Ids
    <3>1. LastMicro(rows) \in Micros(rows)
      BY <1>2, LastMicroStored
    <3>. QED BY <3>1 DEF Micros, BlockRows
  <2>2. ASSUME NEW b \in Squash(rows) PROVE b \in BlockRows(Ids) /\ b.uid < seq
    <3>1. PICK c \in Keys(rows) :
            b = IF c.uid = KeyUid(rows) THEN [c EXCEPT !.id = LastMicro(rows).id] ELSE c
      BY <1>2 DEF Squash
    <3>2. c \in BlockRows(Ids) /\ c.uid < seq
      BY DEF Keys
    <3>. QED BY <2>1, <3>1, <3>2 DEF BlockRows
  <2>. QED BY <2>2
<1>. QED BY <1>1, <1>2

(* The appends of the blocks of a batch. *)
LEMMA AppendsAreBatch ==
  ASSUME NEW n \in Nat, NEW batch \in Seq(StreamUpdates), n <= Len(batch)
  PROVE  LET bs == [i \in 1..n |-> BlockMicroblock(batch[i])]
         IN  Batch(bs, BlockIds) /\ Len(bs) = n /\ DOMAIN bs = 1..n
<1>. DEFINE bs == [i \in 1..n |-> BlockMicroblock(batch[i])]
<1>1. Len(bs) = n /\ DOMAIN bs = 1..n
  OBVIOUS
<1>2. ASSUME NEW i \in 1..n
      PROVE  bs[i].id \in BlockIds /\ bs[i].height \in Nat /\ bs[i].key \in BOOLEAN
  <2>1. batch[i] \in StreamUpdates
    BY ElementOfSeq
  <2>. QED BY <2>1 DEF BlockMicroblock, StreamUpdates
<1>. QED BY <1>1, <1>2 DEF Batch

LEMMA AppendIsBatch ==
  ASSUME NEW update \in StreamUpdates
  PROVE  LET bs == <<BlockMicroblock(update)>>
         IN  Batch(bs, BlockIds) /\ Len(bs) = 1 /\ bs[1] = BlockMicroblock(update)
<1>. DEFINE a == BlockMicroblock(update)
            bs == <<a>>
<1>1. a.id \in BlockIds /\ a.height \in Nat /\ a.key \in BOOLEAN
  BY DEF BlockMicroblock, StreamUpdates
<1>. HIDE DEF a
<1>2. Len(bs) = 1 /\ DOMAIN bs = 1..1 /\ bs[1] = a
  OBVIOUS
<1>3. Batch(bs, BlockIds)
  BY <1>1, <1>2 DEF Batch
<1>. QED BY <1>2, <1>3 DEF a

(* What a subscriber from a height of the chain is sent. *)
Sent(height, i) ==
  LET liquid == [Tip EXCEPT !.micros = 0]
  IN  IF i <= Height - height THEN Update("block", node[height + i - 1], height + i - 1)
      ELSE IF i = Height - height + 1 THEN Update("block", liquid, Height)
      ELSE Update("micro", [liquid EXCEPT !.micros = i - (Height - height) - 1], Height)

LEMMA HistoryIs ==
  ASSUME node \in Seq(BlockIds), NEW height \in 1..Height
  PROVE  /\ History(height) \in Seq(StreamUpdates)
         /\ Len(History(height)) = Height - height + 1 + Tip.micros
         /\ \A i \in 1..Len(History(height)) : History(height)[i] = Sent(height, i)
<1>. DEFINE liquid == [Tip EXCEPT !.micros = 0]
            n      == Height - height
            Solid(i) == Update("block", node[height + i - 1], height + i - 1)
            Micro(i) == Update("micro", [liquid EXCEPT !.micros = i], Height)
            A == [i \in 1..n |-> Solid(i)]
            B == <<Update("block", liquid, Height)>>
            C == [i \in 1..Tip.micros |-> Micro(i)]
<1>1. Height \in Nat /\ n \in Nat /\ Height = Len(node) /\ Height >= 1
  BY DEF Height
<1>2. Tip \in BlockIds /\ Tip.micros \in Nat /\ Tip.micros <= MaxMicros /\ MaxMicros \in Nat
  <2>1. Height \in 1..Len(node)
    BY <1>1
  <2>2. Tip \in BlockIds
    BY <2>1, ElementOfSeq DEF Tip
  <2>. QED BY <2>2, ConsumerAssumption DEF BlockIds
<1>3. liquid \in BlockIds /\ liquid.micros = 0
  BY <1>2, ConsumerAssumption DEF BlockIds
<1>4. A \in Seq(StreamUpdates) /\ Len(A) = n /\ \A i \in 1..n : A[i] = Solid(i)
  <2>1. \A i \in 1..n : Solid(i) \in StreamUpdates
    <3>. TAKE i \in 1..n
    <3>1. height + i - 1 \in 1..Len(node) /\ height + i - 1 \in Nat
      BY <1>1
    <3>2. node[height + i - 1] \in BlockIds
      BY <3>1, ElementOfSeq
    <3>. QED BY <3>1, <3>2, UpdateTyped DEF Kinds
  <2>. HIDE DEF Solid
  <2>. QED BY <1>1, <2>1
<1>5. B \in Seq(StreamUpdates) /\ Len(B) = 1 /\ B[1] = Update("block", liquid, Height)
  <2>1. Update("block", liquid, Height) \in StreamUpdates
    BY <1>1, <1>3, UpdateTyped DEF Kinds
  <2>. QED BY <2>1
<1>6. C \in Seq(StreamUpdates) /\ Len(C) = Tip.micros /\ \A i \in 1..Tip.micros : C[i] = Micro(i)
  <2>1. \A i \in 1..Tip.micros : Micro(i) \in StreamUpdates
    <3>. TAKE i \in 1..Tip.micros
    <3>1. [liquid EXCEPT !.micros = i] \in BlockIds
      <4>. HIDE DEF liquid
      <4>. QED BY <1>2, <1>3 DEF BlockIds
    <3>. QED BY <1>1, <3>1, UpdateTyped DEF Kinds
  <2>. HIDE DEF Micro
  <2>. QED BY <1>2, <2>1
<1>7. History(height) = A \o (B \o C)
  <2>1. ~(height > Height)
    BY <1>1
  <2>. QED BY <2>1 DEF History
<1>. HIDE DEF A, B, C
<1>8. B \o C \in Seq(StreamUpdates) /\ Len(B \o C) = 1 + Tip.micros
      /\ \A i \in 1..(1 + Tip.micros) : (B \o C)[i] = IF i <= 1 THEN B[i] ELSE C[i - 1]
  <2>1. /\ B \o C \in Seq(StreamUpdates) /\ Len(B \o C) = Len(B) + Len(C)
        /\ \A i \in 1..(Len(B) + Len(C)) : (B \o C)[i] = IF i <= Len(B) THEN B[i] ELSE C[i - Len(B)]
    BY <1>5, <1>6, ConcatProperties
  <2>. QED BY <1>5, <1>6, <2>1
<1>9. A \o (B \o C) \in Seq(StreamUpdates) /\ Len(A \o (B \o C)) = n + (1 + Tip.micros)
      /\ \A i \in 1..(n + (1 + Tip.micros)) :
           (A \o (B \o C))[i] = IF i <= n THEN A[i] ELSE (B \o C)[i - n]
  <2>. DEFINE D == B \o C
  <2>1. D \in Seq(StreamUpdates) /\ Len(D) = 1 + Tip.micros
    BY <1>8
  <2>. HIDE DEF D
  <2>2. /\ A \o D \in Seq(StreamUpdates) /\ Len(A \o D) = Len(A) + Len(D)
        /\ \A i \in 1..(Len(A) + Len(D)) : (A \o D)[i] = IF i <= Len(A) THEN A[i] ELSE D[i - Len(A)]
    BY <1>4, <2>1, ConcatProperties
  <2>. QED BY <1>4, <2>1, <2>2 DEF D
<1>. DEFINE whole == A \o (B \o C)
<1>. HIDE DEF whole
<1>10. /\ History(height) = whole /\ whole \in Seq(StreamUpdates)
       /\ Len(whole) = n + (1 + Tip.micros)
       /\ \A i \in 1..(n + (1 + Tip.micros)) : whole[i] = IF i <= n THEN A[i] ELSE (B \o C)[i - n]
  BY <1>7, <1>9 DEF whole
<1>11. ASSUME NEW i \in 1..(n + (1 + Tip.micros))
       PROVE  whole[i] = Sent(height, i)
  <2>1. CASE i <= n
    <3>1. i \in 1..n /\ whole[i] = A[i]
      BY <1>1, <1>10, <2>1
    <3>. QED BY <1>4, <2>1, <3>1 DEF Sent
  <2>2. CASE i = n + 1
    <3>1. ~(i <= n) /\ i - n = 1 /\ 1 \in 1..(1 + Tip.micros)
      BY <1>1, <1>2, <2>2
    <3>2. whole[i] = (B \o C)[1]
      BY <1>10, <3>1
    <3>3. (B \o C)[1] = B[1]
      BY <1>8, <3>1
    <3>. QED BY <1>5, <2>2, <3>1, <3>2, <3>3 DEF Sent
  <2>3. CASE i > n + 1
    <3>1. /\ i - n \in 1..(1 + Tip.micros) /\ ~(i - n <= 1) /\ ~(i <= n) /\ i # n + 1
          /\ i - n - 1 \in 1..Tip.micros
      BY <1>1, <1>2, <2>3
    <3>2. whole[i] = (B \o C)[i - n]
      BY <1>10, <3>1
    <3>3. (B \o C)[i - n] = C[i - n - 1]
      BY <1>8, <3>1
    <3>4. C[i - n - 1] = Micro(i - n - 1)
      BY <1>6, <3>1
    <3>. QED BY <3>1, <3>2, <3>3, <3>4 DEF Sent
  <2>. QED BY <1>1, <1>2, <2>1, <2>2, <2>3
<1>12. n + (1 + Tip.micros) = Height - height + 1 + Tip.micros
  BY <1>1, <1>2
<1>. QED BY <1>10, <1>11, <1>12

(* The types need that no list is empty where the code takes its last      *)
(* element, and that a batch is as long as the configuration allows.       *)
TypeInv ==
  /\ TypeOK
  /\ node # <<>>
  /\ from >= 1
  /\ \A b \in blocks : b.uid < blockSeq
  /\ channel # <<>> => channel[1] # <<>> /\ Len(channel[1]) <= UpdatesPerRequest

LEMMA TypeInit == Init => TypeInv
<1>. SUFFICES ASSUME Init PROVE TypeInv
  OBVIOUS
<1>. USE ConsumerAssumption DEF Init
<1>1. Nothing \in BlockIds /\ [block |-> 1, micros |-> 0] \in BlockIds
  BY DEF Nothing, BlockIds
<1>2. node \in Seq(BlockIds) /\ parents \in Seq(BlockIds) /\ node # <<>>
  BY <1>1
<1>3. /\ queue \in Seq(StreamUpdates) /\ pending \in Seq(StreamUpdates)
      /\ Len(pending) = 0 /\ channel \in Seq(Seq(StreamUpdates)) /\ Len(channel) = 0
  OBVIOUS
<1>4. unpublished \in [height : Nat, ids : UNION {[S -> BlockIds] : S \in SUBSET (1..UpdatesPerRequest)}]
  <2>1. {} \in SUBSET (1..UpdatesPerRequest) /\ <<>> \in [{} -> BlockIds]
    OBVIOUS
  <2>2. <<>> \in UNION {[S -> BlockIds] : S \in SUBSET (1..UpdatesPerRequest)}
    BY <2>1
  <2>. QED BY <2>2 DEF Unsent
<1>5. /\ phase \in Phases /\ open \in BOOLEAN /\ blocks \subseteq BlockRows(BlockIds)
      /\ redis \in BlockIds /\ Len(pending) < UpdatesPerRequest /\ Len(channel) <= 1
      /\ {blockSeq, from, synced, lost, crashes} \subseteq Nat /\ from >= 1
  <2>1. /\ StartingHeight \in Nat /\ StartingHeight >= 1
        /\ UpdatesPerRequest \in Nat /\ UpdatesPerRequest >= 1
    OBVIOUS
  <2>2. phase = "down" /\ open = FALSE /\ blocks = {} /\ blockSeq = 1 /\ from = StartingHeight
        /\ redis = Nothing /\ synced = 0 /\ lost = 0 /\ crashes = 0
    OBVIOUS
  <2>3. phase \in Phases
    BY <2>2 DEF Phases
  <2>4. {blockSeq, from, synced, lost, crashes} \subseteq Nat /\ from >= 1
    BY <2>1, <2>2
  <2>5. Len(pending) < UpdatesPerRequest /\ Len(channel) <= 1
    BY <1>3, <2>1
  <2>6. open \in BOOLEAN /\ blocks \subseteq BlockRows(BlockIds) /\ redis \in BlockIds
    BY <1>1, <2>2
  <2>. QED BY <2>3, <2>4, <2>5, <2>6
<1>6. channel = <<>> /\ blocks = {}
  OBVIOUS
<1>. QED BY <1>2, <1>3, <1>4, <1>5, <1>6 DEF TypeInv, TypeOK

(* The node's chain. *)
LEMMA NodeTyped ==
  ASSUME node \in Seq(BlockIds), node # <<>>
  PROVE  /\ Height = Len(node) /\ Height \in Nat /\ Height >= 1
         /\ Tip = node[Height] /\ Tip \in BlockIds
         /\ Tip.block \in 0..MaxForged /\ Tip.micros \in 0..MaxMicros
         /\ \A i \in 1..Height : node[i] \in BlockIds
<1>1. Height = Len(node) /\ Height \in Nat /\ Height >= 1 /\ Tip = node[Height]
  BY EmptySeq DEF Height, Tip
<1>2. \A i \in 1..Height : node[i] \in BlockIds
  BY <1>1, ElementOfSeq
<1>3. Tip \in BlockIds
  BY <1>1, <1>2
<1>. QED BY <1>1, <1>2, <1>3 DEF BlockIds

LEMMA SendTyped ==
  ASSUME TypeInv, NEW updates \in Seq(StreamUpdates), Send(updates),
         node' \in Seq(BlockIds), node' # <<>>, parents' \in Seq(BlockIds)
  PROVE  TypeInv'
<1>1. queue' \in Seq(StreamUpdates)
  BY ConcatProperties DEF Send, TypeInv, TypeOK
<1>. QED BY <1>1 DEF TypeInv, TypeOK, Send, database, counters

LEMMA ForgedTyped ==
  ASSUME TypeInv, NEW parent \in BlockIds, Forged(parent)
  PROVE  /\ parents' \in Seq(BlockIds)
         /\ Len(parents') = Len(parents) + 1
         /\ parents'[Len(parents) + 1] = parent
         /\ \A i \in 1..Len(parents) : parents'[i] = parents[i]
         /\ NewBlock \in BlockIds
<1>1. parents \in Seq(BlockIds) /\ parents' = Append(parents, parent) /\ Len(parents) < MaxForged
  BY DEF TypeInv, TypeOK, Forged
<1>2. NewBlock \in BlockIds
  BY <1>1, ConsumerAssumption DEF NewBlock, BlockIds
<1>. QED BY <1>1, <1>2, AppendProperties

LEMMA TypeForge == TypeInv /\ Forge => TypeInv'
<1>. SUFFICES ASSUME TypeInv, Forge PROVE TypeInv'
  OBVIOUS
<1>1. node \in Seq(BlockIds) /\ node # <<>>
  BY DEF TypeInv, TypeOK
<1>2. parents' \in Seq(BlockIds) /\ NewBlock \in BlockIds
  BY <1>1, NodeTyped, ForgedTyped DEF Forge
<1>3. node' \in Seq(BlockIds) /\ node' # <<>>
  BY <1>1, <1>2, AppendProperties DEF Forge
<1>4. <<Update("block", NewBlock, Height + 1)>> \in Seq(StreamUpdates)
  <2>1. Update("block", NewBlock, Height + 1) \in StreamUpdates
    BY <1>1, <1>2, NodeTyped, UpdateTyped DEF Kinds
  <2>. QED BY <2>1
<1>. QED BY <1>2, <1>3, <1>4, SendTyped DEF Forge

LEMMA TypeForgeMicro == TypeInv /\ ForgeMicro => TypeInv'
<1>. SUFFICES ASSUME TypeInv, ForgeMicro PROVE TypeInv'
  OBVIOUS
<1>. DEFINE id == [Tip EXCEPT !.micros = @ + 1]
<1>1. node \in Seq(BlockIds) /\ node # <<>> /\ parents' \in Seq(BlockIds)
  BY DEF TypeInv, TypeOK, ForgeMicro
<1>2. id \in BlockIds
  <2>1. Tip \in BlockIds /\ Tip.micros < MaxMicros
    BY <1>1, NodeTyped DEF ForgeMicro
  <2>. QED BY <2>1, ConsumerAssumption DEF BlockIds
<1>. HIDE DEF id
<1>3. node' \in Seq(BlockIds) /\ node' # <<>>
  <2>1. Height \in 1..Len(node) /\ node' = [node EXCEPT ![Height] = id]
    BY <1>1, NodeTyped DEF ForgeMicro, id
  <2>2. node' \in Seq(BlockIds) /\ Len(node') = Len(node)
    BY <1>1, <1>2, <2>1, ExceptSeq
  <2>. QED BY <1>1, <2>2, EmptySeq
<1>4. <<Update("micro", id, Height)>> \in Seq(StreamUpdates)
  <2>1. Update("micro", id, Height) \in StreamUpdates
    BY <1>1, <1>2, NodeTyped, UpdateTyped DEF Kinds
  <2>. QED BY <2>1
<1>5. Send(<<Update("micro", id, Height)>>)
  BY DEF ForgeMicro, id
<1>. QED BY <1>1, <1>3, <1>4, <1>5, SendTyped

(* A reorganisation replaces the blocks above its base. *)
LEMMA ReorgIs ==
  ASSUME TypeInv, NEW n \in Nat, NEW m \in 0..MaxMicros, n < Height, Reorg(n, m)
  PROVE  LET h    == Height - n
             base == [node[h] EXCEPT !.micros = m]
         IN  /\ h \in 1..Height /\ base \in BlockIds /\ NewBlock \in BlockIds
             /\ Forged(base) /\ parents' \in Seq(BlockIds)
             /\ node' \in Seq(BlockIds) /\ Len(node') = h + 1
             /\ \A i \in 1..(h - 1) : node'[i] = node[i]
             /\ node'[h] = base /\ node'[h + 1] = NewBlock
             /\ Send(<<Update("rollback", base, h), Update("block", NewBlock, h + 1)>>)
             /\ IF n = 0 THEN m < Tip.micros ELSE m = node[h].micros
<1>. DEFINE h    == Height - n
            base == [node[h] EXCEPT !.micros = m]
            kept == [SubSeq(node, 1, h) EXCEPT ![h] = base]
<1>1. node \in Seq(BlockIds) /\ node # <<>>
  BY DEF TypeInv, TypeOK
<1>2. Height = Len(node) /\ Height \in Nat /\ h \in 1..Height /\ h \in Nat
  BY <1>1, NodeTyped
<1>3. base \in BlockIds
  <2>1. node[h] \in BlockIds
    BY <1>1, <1>2, NodeTyped
  <2>. QED BY <2>1, ConsumerAssumption DEF BlockIds
<1>4. /\ Forged(base) /\ node' = Append(kept, NewBlock)
      /\ Send(<<Update("rollback", base, h), Update("block", NewBlock, h + 1)>>)
      /\ IF n = 0 THEN m < Tip.micros ELSE m = node[h].micros
  BY DEF Reorg
<1>. HIDE DEF base, h
<1>5. parents' \in Seq(BlockIds) /\ NewBlock \in BlockIds
  BY <1>3, <1>4, ForgedTyped
<1>6. /\ SubSeq(node, 1, h) \in Seq(BlockIds) /\ Len(SubSeq(node, 1, h)) = h
      /\ \A i \in 1..h : SubSeq(node, 1, h)[i] = node[i]
  BY <1>1, <1>2, NodeTyped, SubSeqProperties
<1>7. /\ kept \in Seq(BlockIds) /\ Len(kept) = h
      /\ \A i \in 1..h : kept[i] = IF i = h THEN base ELSE node[i]
  <2>. DEFINE below == SubSeq(node, 1, h)
  <2>1. below \in Seq(BlockIds) /\ Len(below) = h /\ h \in 1..Len(below)
    BY <1>2, <1>6
  <2>. HIDE DEF below
  <2>2. LET s == [below EXCEPT ![h] = base]
        IN  /\ s \in Seq(BlockIds) /\ Len(s) = Len(below)
            /\ \A i \in 1..Len(below) : s[i] = IF i = h THEN base ELSE below[i]
    BY <1>3, <2>1, ExceptSeq
  <2>. QED BY <1>6, <2>1, <2>2 DEF below
<1>. HIDE DEF kept
<1>8. /\ node' \in Seq(BlockIds) /\ Len(node') = h + 1 /\ node'[h + 1] = NewBlock
      /\ \A i \in 1..h : node'[i] = kept[i]
  <2>1. /\ Append(kept, NewBlock) \in Seq(BlockIds) /\ Len(Append(kept, NewBlock)) = Len(kept) + 1
        /\ \A i \in 1..Len(kept) : Append(kept, NewBlock)[i] = kept[i]
        /\ Append(kept, NewBlock)[Len(kept) + 1] = NewBlock
    BY <1>5, <1>7, AppendProperties
  <2>. QED BY <1>4, <1>7, <2>1
<1>9. node'[h] = base /\ \A i \in 1..(h - 1) : node'[i] = node[i]
  BY <1>2, <1>7, <1>8
<1>. QED BY <1>2, <1>3, <1>4, <1>5, <1>8, <1>9 DEF base, h

LEMMA TypeReorg ==
  ASSUME TypeInv, NEW n \in Nat, NEW m \in 0..MaxMicros, n < Height, Reorg(n, m)
  PROVE  TypeInv'
<1>. DEFINE h    == Height - n
            base == [node[h] EXCEPT !.micros = m]
            sent == <<Update("rollback", base, h), Update("block", NewBlock, h + 1)>>
<1>1. /\ h \in 1..Height /\ base \in BlockIds /\ NewBlock \in BlockIds
      /\ parents' \in Seq(BlockIds) /\ node' \in Seq(BlockIds) /\ Len(node') = h + 1
      /\ Send(sent)
  BY ReorgIs
<1>. HIDE DEF base
<1>2. Height \in Nat /\ h \in Nat
  BY NodeTyped DEF TypeInv, TypeOK
<1>. HIDE DEF h
<1>3. Update("rollback", base, h) \in StreamUpdates /\ Update("block", NewBlock, h + 1) \in StreamUpdates
  BY <1>1, <1>2, UpdateTyped DEF Kinds
<1>4. sent \in Seq(StreamUpdates)
  BY <1>3
<1>5. node' # <<>>
  BY <1>1, <1>2, EmptySeq
<1>. QED BY <1>1, <1>4, <1>5, SendTyped

LEMMA TypeVerify == TypeInv /\ Verify => TypeInv'
  BY DEF TypeInv, TypeOK, Phases, Verify, nodeVars, database, stream, counters

LEMMA TypeResume == TypeInv /\ Resume => TypeInv'
<1>. SUFFICES ASSUME TypeInv, Resume PROVE TypeInv'
  OBVIOUS
<1>1. /\ phase' = "resumed"
      /\ UNCHANGED <<nodeVars, blockSeq, redis, stream, unpublished, synced, counters>>
  BY DEF Resume
<1>2. blocks' \subseteq blocks /\ from' \in Nat /\ from' >= 1
  <2>1. CASE ResumeRows(blocks, Depth, Step) = {}
    BY <2>1, ConsumerAssumption DEF Resume
  <2>2. CASE ResumeRows(blocks, Depth, Step) # {}
    <3>. DEFINE row == ResumeRow(blocks, Depth, Step)
    <3>1. row \in blocks
      BY <2>2, ResumeRowStored DEF TypeInv, TypeOK
    <3>2. row.height \in Nat
      BY <3>1 DEF TypeInv, TypeOK, BlockRows
    <3>3. from' = row.height + 1 /\ blocks' = CutAbove(blocks, row.uid)
      BY <2>2 DEF Resume
    <3>. QED BY <3>2, <3>3 DEF CutAbove
  <2>. QED BY <2>1, <2>2
<1>. QED BY <1>1, <1>2 DEF TypeInv, TypeOK, Phases, nodeVars, stream, counters

LEMMA TypeSubscribe == TypeInv /\ Subscribe => TypeInv'
<1>. SUFFICES ASSUME TypeInv, Subscribe PROVE TypeInv'
  OBVIOUS
<1>1. History(from) \in Seq(StreamUpdates)
  <2>1. node \in Seq(BlockIds) /\ node # <<>> /\ from \in Nat /\ from >= 1 /\ from <= Height + 1
    BY DEF TypeInv, TypeOK, Subscribe
  <2>2. Height \in Nat
    BY <2>1, NodeTyped
  <2>3. CASE from <= Height
    <3>1. from \in 1..Height
      BY <2>1, <2>2, <2>3
    <3>. QED BY <2>1, <3>1, HistoryIs
  <2>4. CASE from > Height
    <3>1. 1..(Height - from) = {}
      BY <2>1, <2>2, <2>4
    <3>2. [i \in 1..(Height - from) |-> Update("block", node[from + i - 1], from + i - 1)] = <<>>
      BY <3>1
    <3>3. History(from) = <<>> \o <<>>
      BY <2>4, <3>2 DEF History
    <3>4. <<>> \in Seq(StreamUpdates)
      OBVIOUS
    <3>. QED BY <3>3, <3>4, ConcatProperties
  <2>. QED BY <2>1, <2>2, <2>3, <2>4
<1>. QED BY <1>1 DEF TypeInv, TypeOK, Phases, Subscribe, nodeVars, database, counters

LEMMA TypeSubscribeFails == TypeInv /\ SubscribeFails => TypeInv'
  BY DEF TypeInv, TypeOK, Phases, SubscribeFails, nodeVars, database, stream

LEMMA TypeReceive == ASSUME NEW flush \in BOOLEAN PROVE TypeInv /\ Receive(flush) => TypeInv'
<1>. SUFFICES ASSUME TypeInv, Receive(flush) PROVE TypeInv'
  OBVIOUS
<1>. DEFINE update == Head(queue)
            batch  == Append(pending, update)
<1>1. /\ queue \in Seq(StreamUpdates) /\ queue # <<>> /\ pending \in Seq(StreamUpdates)
      /\ Len(pending) \in Nat /\ Len(pending) < UpdatesPerRequest /\ UpdatesPerRequest \in Nat
      /\ channel \in Seq(Seq(StreamUpdates)) /\ Len(channel) <= 1
  BY ConsumerAssumption DEF TypeInv, TypeOK, Receive
<1>2. update \in StreamUpdates /\ Tail(queue) \in Seq(StreamUpdates)
  BY <1>1, HeadTailProperties
<1>3. batch \in Seq(StreamUpdates) /\ Len(batch) = Len(pending) + 1 /\ batch # <<>>
  BY <1>1, <1>2, AppendProperties
<1>4. Len(batch) < UpdatesPerRequest \/ flush
  <2>1. Len(batch) >= UpdatesPerRequest => flush
    BY DEF Receive
  <2>. QED BY <1>1, <1>3, <2>1
<1>5. /\ queue' = Tail(queue)
      /\ pending' = IF flush THEN <<>> ELSE batch
      /\ channel' = IF flush THEN <<batch>> ELSE channel
      /\ UNCHANGED <<nodeVars, database, redis, phase, from, open, unpublished, synced, counters>>
  BY DEF Receive
<1>. HIDE DEF batch
<1>6. pending' \in Seq(StreamUpdates) /\ Len(pending') < UpdatesPerRequest
  BY <1>1, <1>3, <1>4, <1>5
<1>7. /\ channel' \in Seq(Seq(StreamUpdates)) /\ Len(channel') <= 1
      /\ channel' # <<>> => channel'[1] # <<>> /\ Len(channel'[1]) <= UpdatesPerRequest
  <2>1. CASE flush
    <3>1. channel' = <<batch>> /\ <<batch>> \in Seq(Seq(StreamUpdates)) /\ Len(<<batch>>) = 1
          /\ <<batch>>[1] = batch
      BY <1>3, <1>5, <2>1
    <3>. QED BY <1>1, <1>3, <3>1
  <2>2. CASE ~flush
    BY <1>1, <1>5, <2>2 DEF TypeInv
  <2>. QED BY <2>1, <2>2
<1>8. queue' \in Seq(StreamUpdates)
  BY <1>2, <1>5
<1>. QED BY <1>5, <1>6, <1>7, <1>8 DEF TypeInv, TypeOK, nodeVars, database, counters

LEMMA TypeStreamLost == TypeInv /\ StreamLost => TypeInv'
<1>. SUFFICES ASSUME TypeInv, StreamLost PROVE TypeInv'
  OBVIOUS
<1>1. /\ <<>> \in Seq(StreamUpdates) /\ Len(<<>>) = 0 /\ UpdatesPerRequest > 0
      /\ lost' \in Nat
  <2>1. UpdatesPerRequest > 0
    BY ConsumerAssumption
  <2>2. lost' \in Nat
    BY DEF TypeInv, TypeOK, StreamLost
  <2>3. <<>> \in Seq(StreamUpdates) /\ Len(<<>>) = 0
    OBVIOUS
  <2>. QED BY <2>1, <2>2, <2>3
<1>. QED BY <1>1 DEF TypeInv, TypeOK, StreamLost, nodeVars, database

(* The batch that is handed over. *)
LEMMA BatchTyped ==
  ASSUME TypeInv, channel # <<>>
  PROVE  LET batch == channel[1]
         IN  /\ batch \in Seq(StreamUpdates) /\ batch # <<>>
             /\ Len(batch) \in Nat /\ Len(batch) >= 1 /\ Len(batch) <= UpdatesPerRequest
             /\ Last(batch) = batch[Len(batch)] /\ Last(batch) \in StreamUpdates
             /\ \A i \in 1..Len(batch) : batch[i] \in StreamUpdates
             /\ LeadingBlocks(batch) \in 0..Len(batch)
             /\ Last(batch).kind = "block" => LeadingBlocks(batch) = Len(batch)
             /\ Last(batch).kind # "block" => LeadingBlocks(batch) = Len(batch) - 1
<1>. DEFINE batch == channel[1]
<1>1. channel \in Seq(Seq(StreamUpdates)) /\ batch # <<>> /\ Len(batch) <= UpdatesPerRequest
  BY DEF TypeInv, TypeOK
<1>2. batch \in Seq(StreamUpdates)
  <2>1. 1 \in 1..Len(channel)
    BY <1>1, EmptySeq
  <2>. QED BY <1>1, <2>1, ElementOfSeq
<1>. HIDE DEF batch
<1>3. Len(batch) \in Nat /\ Len(batch) >= 1 /\ \A i \in 1..Len(batch) : batch[i] \in StreamUpdates
  BY <1>1, <1>2, EmptySeq, ElementOfSeq
<1>4. Last(batch) = batch[Len(batch)] /\ Last(batch) \in StreamUpdates
  BY <1>3 DEF Last
<1>5. /\ Last(batch).kind = "block" => LeadingBlocks(batch) = Len(batch)
      /\ Last(batch).kind # "block" => LeadingBlocks(batch) = Len(batch) - 1
  BY DEF LeadingBlocks
<1>6. LeadingBlocks(batch) \in 0..Len(batch)
  BY <1>3, <1>5
<1>. QED BY <1>1, <1>2, <1>3, <1>4, <1>5, <1>6 DEF batch

LEMMA WritesTyped ==
  ASSUME NEW batch \in Seq(StreamUpdates), Len(batch) <= UpdatesPerRequest
  PROVE  /\ Writes(batch) \in UNION {[S -> BlockIds] : S \in SUBSET (1..UpdatesPerRequest)}
         /\ DOMAIN Writes(batch) =
              {j \in 1..Len(batch) : batch[j].kind # "rollback" /\ batch[j].id.block \notin Silent}
         /\ \A i \in DOMAIN Writes(batch) : Writes(batch)[i] = batch[i].id
<1>. DEFINE S == {j \in 1..Len(batch) : batch[j].kind # "rollback" /\ batch[j].id.block \notin Silent}
<1>1. Writes(batch) = [i \in S |-> batch[i].id]
  BY DEF Writes
<1>2. S \in SUBSET (1..UpdatesPerRequest)
  <2>1. Len(batch) \in Nat /\ UpdatesPerRequest \in Nat
    BY ConsumerAssumption
  <2>. QED BY <2>1
<1>3. \A i \in S : batch[i].id \in BlockIds
  <2>. TAKE i \in S
  <2>1. batch[i] \in StreamUpdates
    BY ElementOfSeq
  <2>. QED BY <2>1 DEF StreamUpdates
<1>4. Writes(batch) \in [S -> BlockIds]
  BY <1>1, <1>3
<1>. QED BY <1>1, <1>2, <1>4

LEMMA AppendBlocksTyped ==
  ASSUME TypeInv, channel # <<>>
  PROVE  LET rows == AppendBlocks(channel[1])
         IN  /\ rows \in SUBSET BlockRows(BlockIds)
             /\ \A b \in rows : b.uid < blockSeq + LeadingBlocks(channel[1])
<1>. DEFINE batch == channel[1]
            n     == LeadingBlocks(batch)
            bs    == [i \in 1..n |-> BlockMicroblock(batch[i])]
<1>1. blocks \in SUBSET BlockRows(BlockIds) /\ blockSeq \in Nat /\ \A b \in blocks : b.uid < blockSeq
  BY DEF TypeInv, TypeOK
<1>2. batch \in Seq(StreamUpdates) /\ n \in Nat /\ n <= Len(batch)
  BY BatchTyped
<1>3. CASE n = 0
  BY <1>1, <1>3 DEF AppendBlocks
<1>4. CASE n # 0
  <2>1. Batch(bs, BlockIds) /\ Len(bs) = n
    BY <1>2, AppendsAreBatch
  <2>2. AppendBlocks(batch) = Upsert(Squash(blocks), bs, blockSeq)
    BY <1>4 DEF AppendBlocks
  <2>3. Squash(blocks) \in SUBSET BlockRows(BlockIds) /\ \A b \in Squash(blocks) : b.uid < blockSeq
    BY <1>1, SquashTyped
  <2>. HIDE DEF bs, n
  <2>4. /\ Upsert(Squash(blocks), bs, blockSeq) \in SUBSET BlockRows(BlockIds)
        /\ \A b \in Upsert(Squash(blocks), bs, blockSeq) : b.uid < blockSeq + Len(bs)
    BY <1>1, <2>1, <2>3, UpsertTyped
  <2>. QED BY <2>1, <2>2, <2>4 DEF n
<1>. QED BY <1>3, <1>4

LEMMA HandleLastTyped ==
  ASSUME NEW rows \in SUBSET BlockRows(BlockIds), NEW update \in StreamUpdates, NEW seq \in Nat,
         \A b \in rows : b.uid < seq
  PROVE  /\ HandleLast(rows, update, seq) \in SUBSET BlockRows(BlockIds)
         /\ \A b \in HandleLast(rows, update, seq) :
              b.uid < IF update.kind = "micro" THEN seq + 1 ELSE seq
<1>1. CASE update.kind = "block"
  BY <1>1 DEF HandleLast
<1>2. CASE update.kind = "micro"
  <2>. DEFINE bs == <<BlockMicroblock(update)>>
  <2>1. Batch(bs, BlockIds) /\ Len(bs) = 1
    BY AppendIsBatch
  <2>2. HandleLast(rows, update, seq) = Upsert(rows, bs, seq)
    BY <1>2 DEF HandleLast
  <2>. HIDE DEF bs
  <2>3. /\ Upsert(rows, bs, seq) \in SUBSET BlockRows(BlockIds)
        /\ \A b \in Upsert(rows, bs, seq) : b.uid < seq + Len(bs)
    BY <2>1, UpsertTyped
  <2>. QED BY <1>2, <2>1, <2>2, <2>3
<1>3. CASE update.kind = "rollback"
  <2>1. HandleLast(rows, update, seq) \subseteq rows
    BY <1>3 DEF HandleLast, CutAbove
  <2>. QED BY <1>3, <2>1
<1>. QED BY <1>1, <1>2, <1>3 DEF StreamUpdates, Kinds

LEMMA TypeHandleBatch == TypeInv /\ HandleBatch => TypeInv'
<1>. SUFFICES ASSUME TypeInv, HandleBatch PROVE TypeInv'
  OBVIOUS
<1>. DEFINE batch == channel[1]
            n     == LeadingBlocks(batch)
            rows  == AppendBlocks(batch)
<1>1. /\ channel # <<>> /\ channel' = <<>>
      /\ UNCHANGED <<nodeVars, redis, from, open, queue, pending, synced, counters>>
  BY DEF HandleBatch
<1>2. /\ batch \in Seq(StreamUpdates) /\ Len(batch) \in Nat /\ Len(batch) <= UpdatesPerRequest
      /\ Last(batch) \in StreamUpdates /\ n \in Nat
      /\ n <= Len(batch) /\ (n = Len(batch) \/ n + 1 = Len(batch))
      /\ (Last(batch).kind # "block" \/ n = Len(batch))
  BY <1>1, BatchTyped
<1>2a. Last(batch).kind = "micro" => n + 1 = Len(batch)
  <2>1. SUFFICES ASSUME Last(batch).kind = "micro" PROVE n + 1 = Len(batch)
    OBVIOUS
  <2>. QED BY <1>2, <2>1 DEF LeadingBlocks
<1>3. rows \in SUBSET BlockRows(BlockIds) /\ \A b \in rows : b.uid < blockSeq + n
  BY <1>1, AppendBlocksTyped
<1>4. blockSeq \in Nat /\ <<>> \in Seq(Seq(StreamUpdates)) /\ Len(<<>>) = 0
  BY DEF TypeInv, TypeOK
<1>5. CASE Known(rows, Last(batch))
  <2>1. /\ blocks' = HandleLast(rows, Last(batch), blockSeq + n)
        /\ blockSeq' = blockSeq + Len(batch)
        /\ unpublished' = [height |-> Last(batch).height, ids |-> Writes(batch)]
        /\ phase' = "committed"
    BY <1>5 DEF HandleBatch
  <2>2. Writes(batch) \in UNION {[S -> BlockIds] : S \in SUBSET (1..UpdatesPerRequest)}
    BY <1>2, WritesTyped
  <2>. HIDE DEF n, rows, batch
  <2>3. /\ blocks' \in SUBSET BlockRows(BlockIds)
        /\ \A b \in blocks' : b.uid < IF Last(batch).kind = "micro" THEN blockSeq + n + 1 ELSE blockSeq + n
    BY <1>2, <1>3, <1>4, <2>1, HandleLastTyped
  <2>4. blockSeq' \in Nat /\ blockSeq' >= blockSeq + n
        /\ (Last(batch).kind = "micro" => blockSeq' = blockSeq + n + 1)
    BY <1>2, <1>2a, <1>4, <2>1
  <2>5. \A b \in blocks' : b.uid < blockSeq'
    <3>. TAKE b \in blocks'
    <3>1. b.uid \in Nat
      BY <2>3 DEF BlockRows
    <3>. QED BY <1>2, <1>4, <2>3, <2>4, <3>1
  <2>6. unpublished' \in [height : Nat, ids : UNION {[S -> BlockIds] : S \in SUBSET (1..UpdatesPerRequest)}]
    BY <1>2, <2>1, <2>2 DEF StreamUpdates
  <2>. QED BY <1>1, <1>4, <2>1, <2>3, <2>4, <2>5, <2>6 DEF TypeInv, TypeOK, Phases, nodeVars, counters
<1>6. CASE ~Known(rows, Last(batch))
  <2>1. phase' = "failed" /\ UNCHANGED <<database, unpublished>>
    BY <1>6 DEF HandleBatch
  <2>. QED BY <1>1, <1>4, <2>1 DEF TypeInv, TypeOK, Phases, nodeVars, counters, database
<1>. QED BY <1>5, <1>6

LEMMA LastWrittenTyped ==
  ASSUME NEW ids \in UNION {[S -> BlockIds] : S \in SUBSET (1..UpdatesPerRequest)}, DOMAIN ids # {}
  PROVE  /\ Max(DOMAIN ids) \in DOMAIN ids
         /\ \A i \in DOMAIN ids : i <= Max(DOMAIN ids)
         /\ LastWritten(ids) = ids[Max(DOMAIN ids)]
         /\ LastWritten(ids) \in BlockIds
<1>1. PICK S \in SUBSET (1..UpdatesPerRequest) : ids \in [S -> BlockIds]
  OBVIOUS
<1>2. UpdatesPerRequest \in Nat
  BY ConsumerAssumption
<1>3. DOMAIN ids = S /\ S \subseteq Nat /\ S # {} /\ \A x \in S : x <= UpdatesPerRequest
  BY <1>1, <1>2
<1>4. Max(S) \in S /\ \A y \in S : y <= Max(S)
  BY <1>2, <1>3, MaxIsGreatest
<1>. QED BY <1>1, <1>3, <1>4 DEF LastWritten

LEMMA TypeAfterCommit == TypeInv /\ AfterCommit => TypeInv'
<1>. SUFFICES ASSUME TypeInv, AfterCommit PROVE TypeInv'
  OBVIOUS
<1>1. redis' \in BlockIds
  <2>1. redis \in BlockIds /\ unpublished.ids \in UNION {[S -> BlockIds] : S \in SUBSET (1..UpdatesPerRequest)}
    BY DEF TypeInv, TypeOK
  <2>2. \/ redis' = redis
        \/ DOMAIN unpublished.ids # {} /\ redis' = LastWritten(unpublished.ids)
    BY DEF AfterCommit
  <2>. QED BY <2>1, <2>2, LastWrittenTyped
<1>2. unpublished' \in [height : Nat, ids : UNION {[S -> BlockIds] : S \in SUBSET (1..UpdatesPerRequest)}]
  <2>1. {} \in SUBSET (1..UpdatesPerRequest) /\ <<>> \in [{} -> BlockIds]
    OBVIOUS
  <2>2. <<>> \in UNION {[S -> BlockIds] : S \in SUBSET (1..UpdatesPerRequest)}
    BY <2>1
  <2>. QED BY <2>2 DEF Unsent, AfterCommit
<1>3. synced' \in Nat
  BY DEF AfterCommit, TypeInv, TypeOK
<1>. QED BY <1>1, <1>2, <1>3 DEF TypeInv, TypeOK, Phases, AfterCommit, nodeVars, database, stream, counters

LEMMA TypeStreamClosed == TypeInv /\ StreamClosed => TypeInv'
  BY DEF TypeInv, TypeOK, Phases, StreamClosed, nodeVars, database, stream, counters

LEMMA TypeCrash == TypeInv /\ Crash => TypeInv'
<1>. SUFFICES ASSUME TypeInv, Crash PROVE TypeInv'
  OBVIOUS
<1>1. unpublished' \in [height : Nat, ids : UNION {[S -> BlockIds] : S \in SUBSET (1..UpdatesPerRequest)}]
  <2>1. {} \in SUBSET (1..UpdatesPerRequest) /\ <<>> \in [{} -> BlockIds]
    OBVIOUS
  <2>2. <<>> \in UNION {[S -> BlockIds] : S \in SUBSET (1..UpdatesPerRequest)}
    BY <2>1
  <2>. QED BY <2>2 DEF Unsent, Crash
<1>2. /\ queue' \in Seq(StreamUpdates) /\ pending' \in Seq(StreamUpdates)
      /\ channel' \in Seq(Seq(StreamUpdates)) /\ channel' = <<>> /\ Len(channel') = 0
      /\ Len(pending') = 0
  BY DEF Crash
<1>3. UpdatesPerRequest > 0 /\ UpdatesPerRequest \in Nat /\ StartingHeight \in Nat /\ StartingHeight >= 1
  BY ConsumerAssumption
<1>4. {blockSeq, from, synced, lost, crashes}' \subseteq Nat /\ from' >= 1
  BY <1>3 DEF Crash, TypeInv, TypeOK, database
<1>5. Len(pending') < UpdatesPerRequest /\ Len(channel') <= 1
  BY <1>2, <1>3
<1>6. phase' \in Phases /\ open' \in BOOLEAN
  BY DEF Crash, Phases
<1>. QED BY <1>1, <1>2, <1>4, <1>5, <1>6 DEF TypeInv, TypeOK, Crash, nodeVars, database

LEMMA TypeUnchanged == TypeInv /\ UNCHANGED vars => TypeInv'
  BY DEF TypeInv, TypeOK, vars, nodeVars, database, stream, counters

LEMMA TypeStep == TypeInv /\ [Next]_vars => TypeInv'
<1>. SUFFICES ASSUME TypeInv, [Next]_vars PROVE TypeInv'
  OBVIOUS
<1>1. ASSUME NEW n \in Reorgs, NEW m \in 0..MaxMicros, n < Height, Reorg(n, m) PROVE TypeInv'
  <2>1. n \in Nat
    BY ConsumerAssumption
  <2>. QED BY <1>1, <2>1, TypeReorg
<1>2. CASE NodeSteps
  BY <1>1, <1>2, TypeForge, TypeForgeMicro DEF NodeSteps
<1>3. CASE ProcessSteps
  BY <1>3, TypeVerify, TypeResume, TypeSubscribe, TypeReceive, TypeHandleBatch, TypeAfterCommit,
     TypeStreamClosed DEF ProcessSteps
<1>. QED BY <1>2, <1>3, TypeSubscribeFails, TypeStreamLost, TypeCrash, TypeUnchanged DEF Next

(* The chain, the rows, the stream and its batches keep their types for    *)
(* every value of the constants: a batch in the making is shorter than the *)
(* longest batch, and at most one is handed over.                          *)
THEOREM ConsumerTypeCorrect == Spec => []TypeOK
<1>1. TypeInv => TypeOK
  BY DEF TypeInv
<1>. QED BY TypeInit, TypeStep, <1>1, PTL DEF Spec

-----------------------------------------------------------------------------
(* What continues what.                                                    *)

(* A chain of ids is a path of the tree from the root block. *)
Root == [block |-> 1, micros |-> 0]

NodePath(chain, tree) ==
  /\ chain \in Seq(BlockIds) /\ tree \in Seq(BlockIds)
  /\ Len(chain) >= 1 /\ chain[1] = Root
  /\ \A i \in 1..Len(chain) : chain[i].block \in 1..Len(tree)
  /\ \A i \in 2..Len(chain) : tree[chain[i].block] = chain[i - 1]
  /\ \A x \in 1..Len(tree) : tree[x].block < x

(* A row or an update names a block of the tree whose parent is on the     *)
(* chain, and below its tip.                                               *)
Settled(chain, tree, x) ==
  /\ x.id.block \in 1..Len(tree)
  /\ x.height \in 1..Len(chain)
  /\ IF x.height = 1 THEN x.id = Root ELSE tree[x.id.block] = chain[x.height - 1]

(* An update continues what the one before it leaves on top. *)
Joins(tree, p, u) ==
  \/ /\ u.kind = "block"
     /\ u.height = p.height + 1
     /\ tree[u.id.block] = p.id
  \/ /\ u.kind = "micro" /\ p.kind # "rollback"
     /\ u.height = p.height
     /\ u.id.block = p.id.block /\ u.id.micros = p.id.micros + 1
     /\ p.kind = "block" => p.id.micros = 0
  \/ /\ u.kind = "rollback" /\ p.kind = "micro"
     /\ u.height = p.height
     /\ u.id.block = p.id.block /\ u.id.micros < p.id.micros
  \/ /\ u.kind = "rollback" /\ p.kind # "rollback"
     /\ u.height = p.height - 1
     /\ u.id = tree[p.id.block]

AtTip(chain, p) ==
  /\ p.id = chain[Len(chain)] /\ p.height = Len(chain)
  /\ p.kind # "rollback"
  /\ p.kind = "block" => p.id.micros = 0

(* The newest row, as the update it came from. *)
IsTop(rows, r) == r \in rows /\ \A b \in rows : b.uid <= r.uid
AsUpdate(r) == Update(IF r.key THEN "block" ELSE "micro", r.id, r.height)

(* The first update continues the index, or the index begins again. *)
Begins(rows, u) == u.kind = "block" /\ u.height = 1 /\ \A b \in rows : b.height = 1
Continues(rows, tree, u) ==
  Begins(rows, u) \/ \E r \in rows : IsTop(rows, r) /\ Joins(tree, AsUpdate(r), u)

Streamed(s, rows, chain, tree) ==
  /\ \A i \in 1..Len(s) : Settled(chain, tree, s[i])
  /\ s # <<>> => Continues(rows, tree, s[1])
  /\ \A i \in 2..Len(s) : Joins(tree, s[i - 1], s[i])

(* The node's tip is the last update, or the newest row. *)
UpToDate(s, rows, chain) ==
  IF s # <<>> THEN AtTip(chain, s[Len(s)])
  ELSE \E r \in rows : IsTop(rows, r) /\ AtTip(chain, AsUpdate(r))

(* The node replaces its tip at most. *)
Advances(c, t, d, u) ==
  /\ Len(c) <= Len(d) /\ \A i \in 1..(Len(c) - 1) : d[i] = c[i]
  /\ Len(t) <= Len(u) /\ \A x \in 1..Len(t) : u[x] = t[x]

-----------------------------------------------------------------------------
LEMMA SettledStays ==
  ASSUME NEW c, NEW t, NEW d, NEW u, NEW x,
         Len(c) \in Nat, Len(t) \in Nat, Len(d) \in Nat, Len(u) \in Nat,
         Settled(c, t, x), Advances(c, t, d, u)
  PROVE  Settled(d, u, x)
<1>1. x.id.block \in 1..Len(u) /\ u[x.id.block] = t[x.id.block]
  BY DEF Settled, Advances
<1>2. x.height \in 1..Len(d)
  BY DEF Settled, Advances
<1>3. x.height # 1 => d[x.height - 1] = c[x.height - 1]
  BY DEF Settled, Advances
<1>. QED BY <1>1, <1>2, <1>3 DEF Settled

LEMMA JoinsStays ==
  ASSUME NEW c, NEW t, NEW d, NEW u, NEW p, NEW x, Advances(c, t, d, u),
         Joins(t, p, x), p.id.block \in 1..Len(t), x.id.block \in 1..Len(t)
  PROVE  Joins(u, p, x)
  BY DEF Joins, Advances

LEMMA AsUpdateIs ==
  ASSUME NEW r
  PROVE  /\ AsUpdate(r).kind = IF r.key THEN "block" ELSE "micro"
         /\ AsUpdate(r).id = r.id /\ AsUpdate(r).height = r.height
  BY DEF AsUpdate, Update

LEMMA ContinuesStays ==
  ASSUME NEW c, NEW t, NEW d, NEW u, NEW rows, NEW x, Advances(c, t, d, u),
         \A r \in rows : Settled(c, t, r),
         Continues(rows, t, x), x.id.block \in 1..Len(t)
  PROVE  Continues(rows, u, x)
<1>1. ASSUME NEW r \in rows, IsTop(rows, r), Joins(t, AsUpdate(r), x) PROVE Joins(u, AsUpdate(r), x)
  BY <1>1, JoinsStays, AsUpdateIs DEF Settled
<1>. QED BY <1>1 DEF Continues

(* What is in flight stays in order when the node moves on. *)
LEMMA StreamedStays ==
  ASSUME NEW c, NEW t, NEW d, NEW u, NEW rows, NEW s,
         Len(c) \in Nat, Len(t) \in Nat, Len(d) \in Nat, Len(u) \in Nat, Len(s) \in Nat,
         s # <<>> => Len(s) >= 1,
         Advances(c, t, d, u), \A r \in rows : Settled(c, t, r), Streamed(s, rows, c, t)
  PROVE  Streamed(s, rows, d, u)
<1>1. \A i \in 1..Len(s) : Settled(c, t, s[i]) /\ s[i].id.block \in 1..Len(t)
  BY DEF Streamed, Settled
<1>2. \A i \in 1..Len(s) : Settled(d, u, s[i])
  BY <1>1, SettledStays
<1>3. s # <<>> => Continues(rows, u, s[1])
  <2>. SUFFICES ASSUME s # <<>> PROVE Continues(rows, u, s[1])
    OBVIOUS
  <2>1. Continues(rows, t, s[1]) /\ s[1].id.block \in 1..Len(t)
    BY <1>1 DEF Streamed
  <2>. QED BY <2>1, ContinuesStays
<1>4. ASSUME NEW i \in 2..Len(s) PROVE Joins(u, s[i - 1], s[i])
  <2>1. Joins(t, s[i - 1], s[i]) /\ i - 1 \in 1..Len(s) /\ i \in 1..Len(s)
    BY DEF Streamed
  <2>. QED BY <1>1, <2>1, JoinsStays
<1>. QED BY <1>2, <1>3, <1>4 DEF Streamed

(* ... and so does one more update at its end. *)
LEMMA StreamedAppend ==
  ASSUME NEW d, NEW u, NEW rows, NEW s \in Seq(StreamUpdates), NEW x \in StreamUpdates,
         Streamed(s, rows, d, u), Settled(d, u, x),
         IF s # <<>> THEN Joins(u, s[Len(s)], x) ELSE Continues(rows, u, x)
  PROVE  Streamed(Append(s, x), rows, d, u)
<1>. DEFINE z == Append(s, x)
<1>1. /\ z \in Seq(StreamUpdates) /\ Len(z) = Len(s) + 1 /\ z[Len(s) + 1] = x
      /\ \A i \in 1..Len(s) : z[i] = s[i]
      /\ Len(s) \in Nat /\ (s = <<>> <=> Len(s) = 0)
  BY AppendProperties, EmptySeq
<1>. HIDE DEF z
<1>2. \A i \in 1..Len(z) : Settled(d, u, z[i])
  BY <1>1 DEF Streamed
<1>3. Continues(rows, u, z[1])
  BY <1>1 DEF Streamed
<1>4. ASSUME NEW i \in 2..Len(z) PROVE Joins(u, z[i - 1], z[i])
  <2>1. CASE i <= Len(s)
    BY <1>1, <2>1 DEF Streamed
  <2>2. CASE i = Len(s) + 1
    <3>1. Len(s) \in 1..Len(s) /\ s # <<>> /\ z[i - 1] = s[Len(s)] /\ z[i] = x
      BY <1>1, <2>2
    <3>. QED BY <3>1
  <2>. QED BY <1>1, <2>1, <2>2
<1>. QED BY <1>2, <1>3, <1>4 DEF Streamed, z

LEMMA TipIsJoined ==
  ASSUME NEW c, NEW u, NEW rows, NEW s \in Seq(StreamUpdates), NEW x,
         rows \subseteq BlockRows(BlockIds), UpToDate(s, rows, c),
         \A p \in StreamUpdates : AtTip(c, p) => Joins(u, p, x)
  PROVE  IF s # <<>> THEN Joins(u, s[Len(s)], x) ELSE Continues(rows, u, x)
<1>1. CASE s # <<>>
  <2>1. Len(s) \in 1..Len(s)
    BY <1>1, EmptySeq
  <2>2. s[Len(s)] \in StreamUpdates
    BY <2>1, ElementOfSeq
  <2>. QED BY <1>1, <2>2 DEF UpToDate
<1>2. CASE s = <<>>
  <2>1. PICK r \in rows : IsTop(rows, r) /\ AtTip(c, AsUpdate(r))
    BY <1>2 DEF UpToDate
  <2>2. AsUpdate(r) \in StreamUpdates
    BY UpdateTyped DEF AsUpdate, BlockRows, Kinds
  <2>. QED BY <1>2, <2>1, <2>2 DEF Continues
<1>. QED BY <1>1, <1>2

(* Everything between the node and the index, in order. *)
Handed == IF channel = <<>> THEN <<>> ELSE channel[1]
Flight == (Handed \o pending) \o queue

(* What is stored is a path of the tree: one key row per height, from the  *)
(* root on, and above the last one its microblocks, each on the one below. *)
IndexPath(rows, chain, tree) ==
  /\ InChainOrder(rows)
  /\ \A b \in rows : Settled(chain, tree, b)
  /\ \A b \in Keys(rows) : b.height = 1 \/ \E c \in Keys(rows) : c.height = b.height - 1
  /\ \A b, c \in Keys(rows) : c.height = b.height + 1 => tree[c.id.block] = b.id
  /\ \A b, c \in rows : b.height < c.height => b.id.block < c.id.block
  /\ \A m \in Micros(rows) :
       /\ m.id.micros >= 1
       /\ \A j \in 0..(m.id.micros - 1) :
            \E r \in rows : /\ r.id.block = m.id.block /\ r.id.micros = j
                            /\ r.height = m.height /\ r.uid < m.uid
  /\ \A m, n \in Micros(rows) : m.uid < n.uid => m.id.micros < n.id.micros

(* A batch is key blocks that follow each other, and at most one other     *)
(* update after them.                                                      *)
IsBatch(s) ==
  \A i, j \in 1..Len(s) : i < j =>
    /\ s[i].kind = "block"
    /\ s[j].kind = "block" => /\ s[j].height = s[i].height + (j - i)
                              /\ s[i].id.block < s[j].id.block

AllBlocks(s) == \A i \in 1..Len(s) : s[i].kind = "block"

(* Where the process is. *)
Resumed ==
  /\ from \in 1..Height
  /\ IF from = 1 THEN \A b \in blocks : b.height = 1
     ELSE \E r \in blocks : /\ IsTop(blocks, r) /\ r.key
                            /\ r.height = from - 1 /\ r.id = node[from - 1]

Steps ==
  /\ phase # "failed"
  /\ phase \notin {"streaming", "committed"} => ~open /\ channel = <<>>
  /\ ~open => pending = <<>> /\ queue = <<>>
  /\ phase = "resumed" => Resumed

PathInv ==
  /\ TypeInv
  /\ NodePath(node, parents)
  /\ IndexPath(blocks, node, parents)
  /\ Streamed(Flight, blocks, node, parents)
  /\ open => UpToDate(Flight, blocks, node)
  /\ IsBatch(Handed) /\ IsBatch(pending) /\ AllBlocks(pending)
  /\ Steps

(* The code's defaults, and a node that replaces its tip at most. *)
Shallow ==
  /\ StartingHeight = 1
  /\ Reorgs \subseteq {0, 1}
  /\ Depth = 1 \/ Step = 1

LEMMA PathTyped ==
  ASSUME TypeInv
  PROVE  /\ node \in Seq(BlockIds) /\ node # <<>> /\ parents \in Seq(BlockIds)
         /\ Height = Len(node) /\ Len(node) \in Nat /\ Len(node) >= 1 /\ Len(parents) \in Nat
         /\ Tip = node[Len(node)] /\ Tip \in BlockIds
         /\ blocks \in SUBSET BlockRows(BlockIds) /\ blockSeq \in Nat
         /\ queue \in Seq(StreamUpdates) /\ pending \in Seq(StreamUpdates)
         /\ Handed \in Seq(StreamUpdates) /\ Flight \in Seq(StreamUpdates)
         /\ Len(queue) \in Nat /\ Len(pending) \in Nat /\ Len(Handed) \in Nat /\ Len(Flight) \in Nat
<1>1. /\ node \in Seq(BlockIds) /\ node # <<>> /\ parents \in Seq(BlockIds)
      /\ blocks \in SUBSET BlockRows(BlockIds) /\ blockSeq \in Nat
      /\ queue \in Seq(StreamUpdates) /\ pending \in Seq(StreamUpdates)
  BY DEF TypeInv, TypeOK
<1>2. Height = Len(node) /\ Len(node) >= 1 /\ Tip = node[Len(node)] /\ Tip \in BlockIds
  BY <1>1, NodeTyped
<1>3. Handed \in Seq(StreamUpdates)
  BY BatchTyped DEF Handed
<1>4. Handed \o pending \in Seq(StreamUpdates)
  BY <1>1, <1>3, ConcatProperties
<1>5. Flight \in Seq(StreamUpdates)
  BY <1>1, <1>4, ConcatProperties DEF Flight
<1>. QED BY <1>1, <1>2, <1>3, <1>5

LEMMA IndexPathStays ==
  ASSUME NEW c, NEW t, NEW d, NEW u, NEW rows,
         Len(c) \in Nat, Len(t) \in Nat, Len(d) \in Nat, Len(u) \in Nat,
         Advances(c, t, d, u), IndexPath(rows, c, t)
  PROVE  IndexPath(rows, d, u)
<1>1. \A b \in rows : Settled(d, u, b)
  BY SettledStays DEF IndexPath
<1>2. ASSUME NEW b \in Keys(rows), NEW k \in Keys(rows), k.height = b.height + 1
      PROVE  u[k.id.block] = b.id
  <2>1. t[k.id.block] = b.id /\ k.id.block \in 1..Len(t)
    BY <1>2 DEF IndexPath, Settled, Keys
  <2>. QED BY <2>1 DEF Advances
<1>. QED BY <1>1, <1>2 DEF IndexPath

(* A step of the node: the tree and the chain grow, subscribers hear of it. *)
LEMMA SendKeepsPath ==
  ASSUME PathInv, TypeInv', Advances(node, parents, node', parents'), NodePath(node', parents'),
         NEW updates \in Seq(StreamUpdates), Send(updates),
         open => /\ Streamed(Flight \o updates, blocks, node', parents')
                 /\ UpToDate(Flight \o updates, blocks, node')
  PROVE  PathInv'
<1>1. /\ queue' = IF open THEN queue \o updates ELSE queue
      /\ UNCHANGED <<blocks, blockSeq, redis, phase, from, open, pending, channel, unpublished>>
  BY DEF Send, database
<1>2. Handed' = Handed
  BY <1>1 DEF Handed
<1>3. Flight' = IF open THEN Flight \o updates ELSE Flight
  <2>1. CASE open
    <3>1. Handed \o pending \in Seq(StreamUpdates)
      BY PathTyped, ConcatProperties DEF PathInv
    <3>2. queue \in Seq(StreamUpdates)
      BY PathTyped DEF PathInv
    <3>3. (Handed \o pending) \o (queue \o updates) = ((Handed \o pending) \o queue) \o updates
      <4>. DEFINE front == Handed \o pending
      <4>1. front \in Seq(StreamUpdates)
        BY <3>1
      <4>. HIDE DEF front
      <4>2. (front \o queue) \o updates = front \o (queue \o updates)
        BY <3>2, <4>1, ConcatAssociative
      <4>. QED BY <4>2 DEF front
    <3>. QED BY <1>1, <1>2, <2>1, <3>3 DEF Flight
  <2>2. CASE ~open
    BY <1>1, <1>2, <2>2 DEF Flight
  <2>. QED BY <2>1, <2>2
<1>4. /\ Len(node) \in Nat /\ Len(parents) \in Nat /\ Len(Flight) \in Nat
      /\ Len(node') \in Nat /\ Len(parents') \in Nat /\ Height = Len(node) /\ Height' = Len(node')
      /\ (Flight # <<>> => Len(Flight) >= 1)
  <2>1. (node \in Seq(BlockIds) /\ node # <<>> /\ parents \in Seq(BlockIds))'
    BY DEF TypeInv, TypeOK
  <2>. QED BY <2>1, PathTyped, EmptySeq DEF PathInv, Height
<1>5. IndexPath(blocks', node', parents')
  BY <1>1, <1>4, IndexPathStays DEF PathInv
<1>6. Streamed(Flight', blocks', node', parents')
  <2>1. CASE open
    BY <1>1, <1>3, <2>1
  <2>2. CASE ~open
    <3>1. Streamed(Flight, blocks, node', parents')
      BY <1>4, StreamedStays DEF PathInv, IndexPath
    <3>. QED BY <1>1, <1>3, <2>2, <3>1
  <2>. QED BY <2>1, <2>2
<1>7. open' => UpToDate(Flight', blocks', node')
  BY <1>1, <1>3
<1>8. Steps'
  <2>1. (phase = "resumed" => Resumed)'
    <3>. SUFFICES ASSUME phase = "resumed" PROVE Resumed'
      BY <1>1
    <3>1. Resumed
      BY DEF PathInv, Steps
    <3>2. from' \in 1..Height'
      BY <1>1, <1>4, <3>1 DEF Resumed, Advances
    <3>3. from # 1 => node'[from - 1] = node[from - 1]
      BY <1>4, <3>1 DEF Resumed, Advances
    <3>. QED BY <1>1, <3>1, <3>2, <3>3 DEF Resumed
  <2>2. (~open => pending = <<>> /\ queue = <<>>)'
    BY <1>1 DEF PathInv, Steps
  <2>. QED BY <1>1, <2>1, <2>2 DEF PathInv, Steps
<1>9. (IsBatch(Handed) /\ IsBatch(pending) /\ AllBlocks(pending))'
  BY <1>1, <1>2 DEF PathInv
<1>. QED BY <1>5, <1>6, <1>7, <1>8, <1>9 DEF PathInv

-----------------------------------------------------------------------------
(* The node.                                                               *)

LEMMA PathForge == PathInv /\ Forge => PathInv'
<1>. SUFFICES ASSUME PathInv, Forge PROVE PathInv'
  OBVIOUS
<1>. DEFINE x == Update("block", NewBlock, Height + 1)
<1>1. /\ TypeInv /\ node \in Seq(BlockIds) /\ node # <<>> /\ parents \in Seq(BlockIds)
      /\ Height = Len(node) /\ Len(node) \in Nat /\ Len(node) >= 1 /\ Len(parents) \in Nat
      /\ Tip = node[Len(node)] /\ Tip \in BlockIds
      /\ Flight \in Seq(StreamUpdates) /\ blocks \subseteq BlockRows(BlockIds)
  BY PathTyped DEF PathInv
<1>2. /\ parents' \in Seq(BlockIds) /\ Len(parents') = Len(parents) + 1
      /\ parents'[Len(parents) + 1] = Tip /\ \A i \in 1..Len(parents) : parents'[i] = parents[i]
      /\ NewBlock \in BlockIds /\ NewBlock.block = Len(parents) + 1 /\ NewBlock.micros = 0
  BY <1>1, ForgedTyped DEF Forge, NewBlock
<1>. HIDE DEF NewBlock
<1>3. /\ node' \in Seq(BlockIds) /\ Len(node') = Len(node) + 1 /\ node'[Len(node) + 1] = NewBlock
      /\ \A i \in 1..Len(node) : node'[i] = node[i]
  BY <1>1, <1>2, AppendProperties DEF Forge
<1>4. Advances(node, parents, node', parents')
  BY <1>1, <1>2, <1>3 DEF Advances
<1>5. NodePath(node', parents')
  <2>. USE DEF NodePath
  <2>1. NodePath(node, parents)
    BY DEF PathInv
  <2>2. \A i \in 1..Len(node') : node'[i].block \in 1..Len(parents')
    <3>. TAKE i \in 1..Len(node')
    <3>1. CASE i \in 1..Len(node)
      BY <1>2, <1>3, <2>1, <3>1
    <3>2. CASE i = Len(node) + 1
      BY <1>2, <1>3, <3>2
    <3>. QED BY <1>1, <1>3, <3>1, <3>2
  <2>3. \A i \in 2..Len(node') : parents'[node'[i].block] = node'[i - 1]
    <3>. TAKE i \in 2..Len(node')
    <3>1. CASE i \in 2..Len(node)
      <4>1. i \in 1..Len(node) /\ i - 1 \in 1..Len(node)
        BY <1>1, <3>1
      <4>2. node'[i] = node[i] /\ node'[i - 1] = node[i - 1] /\ node[i].block \in 1..Len(parents)
        BY <1>3, <2>1, <4>1
      <4>. QED BY <1>2, <2>1, <3>1, <4>2
    <3>2. CASE i = Len(node) + 1
      BY <1>1, <1>2, <1>3, <3>2
    <3>. QED BY <1>1, <1>3, <3>1, <3>2
  <2>4. \A i \in 1..Len(parents') : parents'[i].block < i
    <3>. TAKE i \in 1..Len(parents')
    <3>1. CASE i \in 1..Len(parents)
      BY <1>2, <2>1, <3>1
    <3>2. CASE i = Len(parents) + 1
      BY <1>1, <1>2, <2>1, <3>2
    <3>. QED BY <1>1, <1>2, <3>1, <3>2
  <2>. QED BY <1>1, <1>2, <1>3, <2>1, <2>2, <2>3, <2>4
<1>6. /\ x \in StreamUpdates /\ x.kind = "block" /\ x.id = NewBlock /\ x.height = Len(node) + 1
  BY <1>1, <1>2, UpdateTyped DEF Kinds
<1>7. Send(<<x>>)
  BY DEF Forge
<1>. HIDE DEF x
<1>8. ASSUME open
      PROVE  /\ Streamed(Flight \o <<x>>, blocks, node', parents')
             /\ UpToDate(Flight \o <<x>>, blocks, node')
  <2>1. Flight \o <<x>> = Append(Flight, x)
    BY <1>1, <1>6, AppendIsConcat
  <2>2. Streamed(Flight, blocks, node', parents')
    <3>1. /\ Len(node') \in Nat /\ Len(parents') \in Nat /\ Len(Flight) \in Nat
          /\ (Flight # <<>> => Len(Flight) >= 1)
      BY <1>1, <1>2, <1>3, EmptySeq
    <3>. QED BY <1>1, <1>4, <3>1, StreamedStays DEF PathInv, IndexPath
  <2>3. \A p \in StreamUpdates : AtTip(node, p) => Joins(parents', p, x)
    BY <1>1, <1>2, <1>6 DEF AtTip, Joins
  <2>4. Settled(node', parents', x)
    BY <1>1, <1>2, <1>3, <1>6 DEF Settled
  <2>5. IF Flight # <<>> THEN Joins(parents', Flight[Len(Flight)], x) ELSE Continues(blocks, parents', x)
    BY <1>1, <1>8, <2>3, TipIsJoined DEF PathInv
  <2>6. Streamed(Append(Flight, x), blocks, node', parents')
    BY <1>1, <1>6, <2>2, <2>4, <2>5, StreamedAppend
  <2>7. UpToDate(Append(Flight, x), blocks, node')
    <3>1. Append(Flight, x) # <<>> /\ Append(Flight, x)[Len(Append(Flight, x))] = x
      BY <1>1, <1>6, AppendProperties, EmptySeq
    <3>. QED BY <1>1, <1>2, <1>3, <1>6, <3>1 DEF UpToDate, AtTip
  <2>. QED BY <2>1, <2>6, <2>7
<1>9. TypeInv' /\ <<x>> \in Seq(StreamUpdates)
  BY <1>1, <1>6, TypeForge
<1>. QED BY <1>4, <1>5, <1>7, <1>8, <1>9, SendKeepsPath

LEMMA PathForgeMicro == PathInv /\ ForgeMicro => PathInv'
<1>. SUFFICES ASSUME PathInv, ForgeMicro PROVE PathInv'
  OBVIOUS
<1>. DEFINE id == [Tip EXCEPT !.micros = @ + 1]
            x  == Update("micro", id, Height)
<1>1. /\ TypeInv /\ node \in Seq(BlockIds) /\ node # <<>> /\ parents \in Seq(BlockIds)
      /\ Height = Len(node) /\ Len(node) \in Nat /\ Len(node) > 1 /\ Len(parents) \in Nat
      /\ Tip = node[Len(node)] /\ Tip \in BlockIds
      /\ Flight \in Seq(StreamUpdates) /\ blocks \subseteq BlockRows(BlockIds)
  BY PathTyped DEF PathInv, ForgeMicro
<1>2. /\ parents' = parents /\ node' = [node EXCEPT ![Height] = id] /\ Send(<<x>>)
  BY DEF ForgeMicro
<1>3. id \in BlockIds /\ id.block = Tip.block /\ id.micros = Tip.micros + 1
  <2>1. Tip \in BlockIds /\ Tip.micros < MaxMicros
    BY <1>1 DEF ForgeMicro
  <2>2. id \in BlockIds
    BY <2>1, ConsumerAssumption DEF BlockIds
  <2>3. id.block = Tip.block /\ id.micros = Tip.micros + 1
    BY <2>1 DEF BlockIds
  <2>. QED BY <2>2, <2>3
<1>. HIDE DEF id
<1>4. /\ node' \in Seq(BlockIds) /\ Len(node') = Len(node) /\ node'[Len(node)] = id
      /\ \A i \in 1..(Len(node) - 1) : node'[i] = node[i]
  <2>1. Height \in 1..Len(node)
    BY <1>1
  <2>2. LET s == [node EXCEPT ![Height] = id]
        IN  /\ s \in Seq(BlockIds) /\ Len(s) = Len(node)
            /\ \A i \in 1..Len(node) : s[i] = IF i = Height THEN id ELSE node[i]
    BY <1>1, <1>3, <2>1, ExceptSeq
  <2>. QED BY <1>1, <1>2, <2>2
<1>5. Advances(node, parents, node', parents')
  BY <1>1, <1>2, <1>4 DEF Advances
<1>6. NodePath(node', parents')
  <2>. USE DEF NodePath
  <2>1. NodePath(node, parents)
    BY DEF PathInv
  <2>2. \A i \in 1..Len(node') : node'[i].block = node[i].block
    <3>. TAKE i \in 1..Len(node')
    <3>1. i \in 1..(Len(node) - 1) \/ i = Len(node)
      BY <1>1, <1>4
    <3>. QED BY <1>1, <1>3, <1>4, <3>1
  <2>3. \A i \in 2..Len(node') : parents'[node'[i].block] = node'[i - 1]
    <3>. TAKE i \in 2..Len(node')
    <3>1. i \in 2..Len(node) /\ i \in 1..Len(node') /\ i - 1 \in 1..(Len(node) - 1)
      BY <1>1, <1>4
    <3>2. node'[i].block = node[i].block /\ node'[i - 1] = node[i - 1]
      BY <1>4, <2>2, <3>1
    <3>. QED BY <1>2, <2>1, <3>1, <3>2
  <2>4. node'[1] = node[1]
    BY <1>1, <1>4
  <2>. QED BY <1>1, <1>2, <1>4, <2>1, <2>2, <2>3, <2>4
<1>7. /\ x \in StreamUpdates /\ x.kind = "micro" /\ x.id = id /\ x.height = Len(node)
  BY <1>1, <1>3, UpdateTyped DEF Kinds
<1>. HIDE DEF x
<1>8. ASSUME open
      PROVE  /\ Streamed(Flight \o <<x>>, blocks, node', parents')
             /\ UpToDate(Flight \o <<x>>, blocks, node')
  <2>1. Flight \o <<x>> = Append(Flight, x)
    BY <1>1, <1>7, AppendIsConcat
  <2>2. Streamed(Flight, blocks, node', parents')
    <3>1. /\ Len(node') \in Nat /\ Len(parents') \in Nat /\ Len(Flight) \in Nat
          /\ (Flight # <<>> => Len(Flight) >= 1)
      BY <1>1, <1>2, <1>4, EmptySeq
    <3>. QED BY <1>1, <1>5, <3>1, StreamedStays DEF PathInv, IndexPath
  <2>3. \A p \in StreamUpdates : AtTip(node, p) => Joins(parents', p, x)
    BY <1>1, <1>3, <1>7 DEF AtTip, Joins
  <2>4. Settled(node', parents', x)
    <3>1. id.block \in 1..Len(parents) /\ parents[id.block] = node[Len(node) - 1]
      BY <1>1, <1>3 DEF PathInv, NodePath
    <3>2. node'[Len(node) - 1] = node[Len(node) - 1]
      BY <1>1, <1>4
    <3>. QED BY <1>1, <1>2, <1>4, <1>7, <3>1, <3>2 DEF Settled
  <2>5. IF Flight # <<>> THEN Joins(parents', Flight[Len(Flight)], x) ELSE Continues(blocks, parents', x)
    BY <1>1, <1>8, <2>3, TipIsJoined DEF PathInv
  <2>6. Streamed(Append(Flight, x), blocks, node', parents')
    BY <1>1, <1>7, <2>2, <2>4, <2>5, StreamedAppend
  <2>7. UpToDate(Append(Flight, x), blocks, node')
    <3>1. Append(Flight, x) # <<>> /\ Append(Flight, x)[Len(Append(Flight, x))] = x
      BY <1>1, <1>7, AppendProperties, EmptySeq
    <3>. QED BY <1>1, <1>3, <1>4, <1>7, <3>1 DEF UpToDate, AtTip
  <2>. QED BY <2>1, <2>6, <2>7
<1>9. TypeInv' /\ <<x>> \in Seq(StreamUpdates)
  BY <1>1, <1>7, TypeForgeMicro
<1>. QED BY <1>2, <1>5, <1>6, <1>8, <1>9, SendKeepsPath

LEMMA PathReorg ==
  ASSUME PathInv, NEW n \in {0, 1}, NEW m \in 0..MaxMicros, n < Height, Reorg(n, m)
  PROVE  PathInv'
<1>. DEFINE h    == Height - n
            base == [node[h] EXCEPT !.micros = m]
            r    == Update("rollback", base, h)
            x    == Update("block", NewBlock, h + 1)
<1>1. /\ TypeInv /\ node \in Seq(BlockIds) /\ node # <<>> /\ parents \in Seq(BlockIds)
      /\ Height = Len(node) /\ Len(node) \in Nat /\ Len(node) >= 1 /\ Len(parents) \in Nat
      /\ Tip = node[Len(node)] /\ Tip \in BlockIds
      /\ Flight \in Seq(StreamUpdates) /\ blocks \subseteq BlockRows(BlockIds)
  BY PathTyped DEF PathInv
<1>2. /\ h \in 1..Height /\ base \in BlockIds /\ NewBlock \in BlockIds
      /\ Forged(base)
      /\ node' \in Seq(BlockIds) /\ Len(node') = h + 1
      /\ \A i \in 1..(h - 1) : node'[i] = node[i]
      /\ node'[h] = base /\ node'[h + 1] = NewBlock
      /\ Send(<<r, x>>)
      /\ IF n = 0 THEN m < Tip.micros ELSE m = node[h].micros
  BY <1>1, ReorgIs, SMTT(30)
<1>3. /\ parents' \in Seq(BlockIds) /\ Len(parents') = Len(parents) + 1
      /\ parents'[Len(parents) + 1] = base /\ \A i \in 1..Len(parents) : parents'[i] = parents[i]
      /\ NewBlock.block = Len(parents) + 1 /\ NewBlock.micros = 0
  BY <1>1, <1>2, ForgedTyped DEF NewBlock
<1>4. NodePath(node, parents)
  BY DEF PathInv
<1>5. base.block = node[h].block /\ base.micros = m /\ base.block \in 1..Len(parents)
  <2>1. node[h] \in BlockIds /\ node[h].block \in 1..Len(parents)
    BY <1>1, <1>2, <1>4, NodeTyped DEF NodePath
  <2>2. base.block = node[h].block /\ base.micros = m
    BY <2>1 DEF BlockIds
  <2>. QED BY <2>1, <2>2
<1>6. /\ n = 0 => h = Len(node) /\ m < Tip.micros /\ h # 1
      /\ n = 1 => h = Len(node) - 1 /\ base = node[h]
  <2>1. n = 0 => h = Len(node) /\ m < Tip.micros
    BY <1>1, <1>2
  <2>2. ~(n = 0 /\ h = 1)
    <3>. SUFFICES ASSUME n = 0, h = 1 PROVE FALSE
      OBVIOUS
    <3>1. Tip = Root /\ m < Tip.micros /\ m \in Nat
      BY <1>1, <1>4, <2>1 DEF NodePath
    <3>. QED BY <3>1 DEF Root
  <2>3. ASSUME n = 1 PROVE h = Len(node) - 1 /\ base = node[h]
    <3>1. m = node[h].micros /\ h = Len(node) - 1 /\ node[h] \in BlockIds
      BY <1>1, <1>2, <2>3, NodeTyped
    <3>. QED BY <3>1 DEF BlockIds
  <2>. QED BY <2>1, <2>2, <2>3
<1>. HIDE DEF base, h, NewBlock
<1>7. Advances(node, parents, node', parents')
  <2>1. Len(node) <= Len(node')
    BY <1>1, <1>2, <1>6
  <2>2. ASSUME NEW i \in 1..(Len(node) - 1) PROVE node'[i] = node[i]
    <3>1. i \in 1..(h - 1) \/ (n = 1 /\ i = h)
      BY <1>1, <1>2, <1>6
    <3>. QED BY <1>2, <1>6, <3>1
  <2>. QED BY <1>1, <1>3, <2>1, <2>2 DEF Advances
<1>8. h # 1 => /\ h - 1 \in 1..(h - 1) /\ node'[h - 1] = node[h - 1]
               /\ parents'[base.block] = node[h - 1]
  <2>. SUFFICES ASSUME h # 1
                PROVE  h - 1 \in 1..(h - 1) /\ node'[h - 1] = node[h - 1]
                       /\ parents'[base.block] = node[h - 1]
    OBVIOUS
  <2>1. h - 1 \in 1..(h - 1) /\ h \in 2..Len(node)
    BY <1>1, <1>2
  <2>2. parents[base.block] = node[h - 1]
    BY <1>4, <1>5, <2>1 DEF NodePath
  <2>. QED BY <1>2, <1>3, <1>5, <2>1, <2>2
<1>9. h = 1 => base = Root
  BY <1>4, <1>6 DEF NodePath
<1>10. NodePath(node', parents')
  <2>. USE DEF NodePath
  <2>1. \A i \in 1..Len(node') : node'[i].block \in 1..Len(parents')
    <3>. TAKE i \in 1..Len(node')
    <3>1. CASE i \in 1..(h - 1)
      <4>1. i \in 1..Len(node) /\ node'[i] = node[i]
        BY <1>1, <1>2, <3>1
      <4>. QED BY <1>1, <1>3, <1>4, <4>1
    <3>2. CASE i = h
      BY <1>1, <1>2, <1>3, <1>5, <3>2
    <3>3. CASE i = h + 1
      BY <1>1, <1>2, <1>3, <3>3
    <3>. QED BY <1>1, <1>2, <3>1, <3>2, <3>3
  <2>2. \A i \in 2..Len(node') : parents'[node'[i].block] = node'[i - 1]
    <3>. TAKE i \in 2..Len(node')
    <3>1. CASE i \in 2..(h - 1)
      <4>1. i \in 2..Len(node) /\ i \in 1..Len(node) /\ node'[i] = node[i] /\ node'[i - 1] = node[i - 1]
        BY <1>1, <1>2, <3>1
      <4>2. node[i].block \in 1..Len(parents) /\ parents[node[i].block] = node[i - 1]
        BY <1>4, <4>1
      <4>. QED BY <1>3, <4>1, <4>2
    <3>2. CASE i = h
      BY <1>2, <1>8, <3>2
    <3>3. CASE i = h + 1
      <4>1. i - 1 = h
        BY <1>1, <1>2, <3>3
      <4>. QED BY <1>2, <1>3, <3>3, <4>1
    <3>. QED BY <1>1, <1>2, <3>1, <3>2, <3>3
  <2>3. \A i \in 1..Len(parents') : parents'[i].block < i
    <3>. TAKE i \in 1..Len(parents')
    <3>1. CASE i \in 1..Len(parents)
      BY <1>3, <1>4, <3>1
    <3>2. CASE i = Len(parents) + 1
      BY <1>1, <1>3, <1>5, <3>2
    <3>. QED BY <1>1, <1>3, <3>1, <3>2
  <2>4. node'[1] = Root /\ Len(node') >= 1
    <3>1. CASE h = 1
      BY <1>2, <1>9, <3>1
    <3>2. CASE h # 1
      BY <1>1, <1>2, <1>4, <3>2
    <3>. QED BY <3>1, <3>2
  <2>. QED BY <1>2, <1>3, <2>1, <2>2, <2>3, <2>4
<1>11. /\ r \in StreamUpdates /\ r.kind = "rollback" /\ r.id = base /\ r.height = h
       /\ x \in StreamUpdates /\ x.kind = "block" /\ x.id = NewBlock /\ x.height = h + 1
  <2>1. h \in Nat /\ h + 1 \in Nat
    BY <1>1, <1>2
  <2>. QED BY <1>2, <2>1, UpdateTyped DEF Kinds
<1>. HIDE DEF r, x
<1>12. ASSUME open
       PROVE  /\ Streamed(Flight \o <<r, x>>, blocks, node', parents')
              /\ UpToDate(Flight \o <<r, x>>, blocks, node')
  <2>. DEFINE one == Append(Flight, r)
              two == Append(one, x)
  <2>1. Flight \o <<r, x>> = two
    BY <1>1, <1>11
  <2>2. Streamed(Flight, blocks, node', parents')
    <3>1. /\ Len(node') \in Nat /\ Len(parents') \in Nat /\ Len(Flight) \in Nat
          /\ (Flight # <<>> => Len(Flight) >= 1)
      BY <1>1, <1>2, <1>3, EmptySeq
    <3>. QED BY <1>1, <1>7, <3>1, StreamedStays DEF PathInv, IndexPath
  <2>3. \A p \in StreamUpdates : AtTip(node, p) => Joins(parents', p, r)
    <3>. SUFFICES ASSUME NEW p \in StreamUpdates, AtTip(node, p) PROVE Joins(parents', p, r)
      OBVIOUS
    <3>1. /\ p.id = Tip /\ p.height = Len(node) /\ p.kind # "rollback"
          /\ p.kind = "block" => Tip.micros = 0
          /\ p.kind \in Kinds
      BY <1>1 DEF AtTip, StreamUpdates
    <3>2. CASE n = 0
      <4>1. p.kind = "micro"
        <5>1. Tip.micros # 0
          BY <1>1, <1>6, <3>2 DEF BlockIds
        <5>. QED BY <3>1, <5>1 DEF Kinds
      <4>2. r.id.block = p.id.block /\ r.id.micros < p.id.micros /\ r.height = p.height
        BY <1>1, <1>5, <1>6, <1>11, <3>1, <3>2
      <4>. QED BY <1>11, <4>1, <4>2 DEF Joins
    <3>3. CASE n = 1
      <4>1. Len(node) \in 2..Len(node) /\ Len(node) \in 1..Len(node)
        BY <1>1, <1>2, <1>6, <3>3
      <4>2. parents[Tip.block] = node[h] /\ Tip.block \in 1..Len(parents)
        BY <1>1, <1>4, <1>6, <3>3, <4>1 DEF NodePath
      <4>3. r.id = parents'[p.id.block] /\ r.height = p.height - 1
        BY <1>3, <1>6, <1>11, <3>1, <3>3, <4>2
      <4>. QED BY <1>11, <3>1, <4>3 DEF Joins
    <3>. QED BY <3>2, <3>3
  <2>4. Settled(node', parents', r) /\ Settled(node', parents', x)
    <3>1. Settled(node', parents', r)
      <4>1. base.block \in 1..Len(parents') /\ h \in 1..Len(node')
        BY <1>1, <1>2, <1>3, <1>5
      <4>. QED BY <1>8, <1>9, <1>11, <4>1 DEF Settled
    <3>2. Settled(node', parents', x)
      <4>1. /\ Len(parents) + 1 \in 1..Len(parents') /\ h + 1 \in 1..Len(node')
            /\ h + 1 # 1 /\ (h + 1) - 1 = h
        BY <1>1, <1>2, <1>3
      <4>. QED BY <1>2, <1>3, <1>11, <4>1 DEF Settled
    <3>. QED BY <3>1, <3>2
  <2>5. IF Flight # <<>> THEN Joins(parents', Flight[Len(Flight)], r) ELSE Continues(blocks, parents', r)
    BY <1>1, <1>12, <2>3, TipIsJoined DEF PathInv
  <2>6. Streamed(one, blocks, node', parents')
    BY <1>1, <1>11, <2>2, <2>4, <2>5, StreamedAppend
  <2>7. one \in Seq(StreamUpdates) /\ one # <<>> /\ one[Len(one)] = r
    BY <1>1, <1>11, AppendProperties, EmptySeq
  <2>8. Joins(parents', r, x)
    BY <1>3, <1>11 DEF Joins
  <2>. HIDE DEF one
  <2>9. Streamed(two, blocks, node', parents')
    BY <1>11, <2>4, <2>6, <2>7, <2>8, StreamedAppend
  <2>10. UpToDate(two, blocks, node')
    <3>1. two # <<>> /\ two[Len(two)] = x
      BY <1>11, <2>7, AppendProperties, EmptySeq
    <3>. HIDE DEF two
    <3>. QED BY <1>2, <1>3, <1>11, <3>1 DEF UpToDate, AtTip
  <2>. QED BY <2>1, <2>9, <2>10
<1>13. TypeInv' /\ <<r, x>> \in Seq(StreamUpdates)
  <2>1. n \in Nat
    OBVIOUS
  <2>. QED BY <1>1, <1>11, <2>1, TypeReorg
<1>. QED BY <1>2, <1>7, <1>10, <1>12, <1>13, SendKeepsPath

-----------------------------------------------------------------------------
(* The rows of a path.                                                     *)

(* What every index on a path has: one key row per height, one at the      *)
(* height of every row, and only the last height has microblocks.          *)
LEMMA PathRows ==
  ASSUME NEW rows \in SUBSET BlockRows(BlockIds), NEW c, NEW t, IndexPath(rows, c, t)
  PROVE  /\ \A a, b \in Keys(rows) : a.height = b.height => a = b
         /\ \A b \in rows : \E k \in Keys(rows) : k.height = b.height
         /\ \A m \in Micros(rows), b \in rows : b.height <= m.height
         /\ \A m \in Micros(rows), k \in Keys(rows) : k.uid < m.uid
         /\ \A a, b \in rows : a.uid = b.uid \/ a.id = b.id => a = b
         /\ \A b \in rows : b.height \in Nat /\ b.uid \in Nat /\ b.id \in BlockIds /\ b.key \in BOOLEAN
<1>1. \A b \in rows : b.height \in Nat /\ b.uid \in Nat /\ b.id \in BlockIds /\ b.key \in BOOLEAN
  BY DEF BlockRows
<1>2. InChainOrder(rows)
  BY DEF IndexPath
<1>3. ASSUME NEW a \in Keys(rows), NEW b \in Keys(rows), a.height = b.height PROVE a = b
  <2>1. a \in rows /\ b \in rows
    BY DEF Keys
  <2>2. ~(a.uid < b.uid) /\ ~(b.uid < a.uid)
    BY <1>1, <1>2, <1>3, <2>1 DEF InChainOrder
  <2>. QED BY <1>1, <1>2, <2>1, <2>2 DEF InChainOrder
<1>4. ASSUME NEW b \in rows PROVE \E k \in Keys(rows) : k.height = b.height
  BY <1>2 DEF InChainOrder, Keys, Micros
<1>5. ASSUME NEW m \in Micros(rows), NEW b \in rows PROVE b.height <= m.height
  BY <1>2, <1>4 DEF InChainOrder
<1>6. \A m \in Micros(rows), k \in Keys(rows) : k.uid < m.uid
  BY <1>2 DEF InChainOrder
<1>7. \A a, b \in rows : a.uid = b.uid \/ a.id = b.id => a = b
  BY <1>2 DEF InChainOrder
<1>. QED BY <1>1, <1>3, <1>4, <1>5, <1>6, <1>7

(* The newest row has the greatest height, and its newest microblock.      *)
LEMMA TopRows ==
  ASSUME NEW rows \in SUBSET BlockRows(BlockIds), NEW c, NEW t, IndexPath(rows, c, t),
         NEW r, IsTop(rows, r)
  PROVE  /\ \A b \in rows : b.height <= r.height
         /\ r.key => Micros(rows) = {}
<1>1. r \in rows /\ \A b \in rows : b.uid <= r.uid
  BY DEF IsTop
<1>2. r.key => Micros(rows) = {}
  <2>. SUFFICES ASSUME r.key, NEW m \in Micros(rows) PROVE FALSE
    OBVIOUS
  <2>1. r \in Keys(rows) /\ m \in rows
    BY <1>1 DEF Keys, Micros
  <2>2. r.uid < m.uid /\ m.uid <= r.uid /\ r.uid \in Nat /\ m.uid \in Nat
    BY <1>1, <2>1, PathRows
  <2>. QED BY <2>2
<1>3. ASSUME NEW b \in rows PROVE b.height <= r.height
  <2>1. CASE ~r.key
    <3>1. r \in Micros(rows)
      BY <1>1, <2>1 DEF Micros
    <3>. QED BY <3>1, PathRows
  <2>2. CASE r.key
    <3>1. r \in Keys(rows) /\ b \in Keys(rows)
      BY <1>1, <1>2, <2>2 DEF Keys, Micros
    <3>2. b.uid <= r.uid /\ b.uid \in Nat /\ r.uid \in Nat /\ b.height \in Nat /\ r.height \in Nat
      BY <1>1, PathRows
    <3>3. b.uid < r.uid => b.height < r.height
      BY <3>1 DEF IndexPath, InChainOrder
    <3>4. b.uid = r.uid => b = r
      BY <1>1, PathRows
    <3>. QED BY <3>2, <3>3, <3>4
  <2>. QED BY <2>1, <2>2
<1>. QED BY <1>2, <1>3

(* The key row of a height below the last one is on the chain. *)
LEMMA RowBelowIsOnChain ==
  ASSUME NEW rows \in SUBSET BlockRows(BlockIds), NEW c, NEW t, IndexPath(rows, c, t),
         NEW k \in Keys(rows), NEW b \in rows, k.height < b.height, k.height >= 1
  PROVE  k.id = c[k.height] /\ k.height + 1 \in 1..Len(c)
<1>. DEFINE S == {q.height : q \in {p \in Keys(rows) : k.height < p.height}}
<1>1. k \in rows /\ k.height \in Nat
  BY PathRows DEF Keys
<1>2. S \subseteq Nat /\ S # {}
  <2>1. PICK q \in Keys(rows) : q.height = b.height
    BY PathRows
  <2>2. \A p \in Keys(rows) : p.height \in Nat
    BY PathRows DEF Keys
  <2>. QED BY <2>1, <2>2
<1>3. PICK h \in S : \A g \in S : h <= g
  BY <1>2, LeastExists
<1>4. PICK q \in Keys(rows) : q.height = h /\ k.height < h
  OBVIOUS
<1>4a. h \in Nat /\ k.height \in Nat
  BY <1>1, <1>2
<1>5. h = k.height + 1
  <2>1. PICK p \in Keys(rows) : p.height = h - 1
    BY <1>1, <1>2, <1>4 DEF IndexPath
  <2>2. ~(k.height < h - 1)
    <3>. SUFFICES ASSUME k.height < h - 1 PROVE FALSE
      OBVIOUS
    <3>1. h - 1 \in S
      BY <2>1
    <3>2. h <= h - 1
      BY <1>3, <3>1
    <3>. QED BY <1>4a, <3>2
  <2>. HIDE DEF S
  <2>. QED BY <1>4, <1>4a, <2>2
<1>6. t[q.id.block] = k.id
  BY <1>4, <1>5 DEF IndexPath
<1>7. Settled(c, t, q)
  BY <1>4 DEF IndexPath, Keys
<1>8. q.height \in 1..Len(c) /\ q.height # 1 /\ q.height - 1 = k.height
  BY <1>1, <1>4, <1>5, <1>7 DEF Settled
<1>. QED BY <1>4, <1>5, <1>6, <1>7, <1>8 DEF Settled

(* Rows cut off above one of them leave a path. *)
LEMMA CutKeepsPath ==
  ASSUME NEW rows \in SUBSET BlockRows(BlockIds), NEW c, NEW t, IndexPath(rows, c, t),
         NEW r \in rows
  PROVE  /\ IndexPath(CutAbove(rows, r.uid), c, t)
         /\ IsTop(CutAbove(rows, r.uid), r)
<1>. DEFINE cut == CutAbove(rows, r.uid)
<1>1. /\ cut \subseteq rows /\ \A b \in rows : b \in cut <=> b.uid <= r.uid
      /\ Keys(cut) = {k \in Keys(rows) : k.uid <= r.uid}
      /\ Micros(cut) = {k \in Micros(rows) : k.uid <= r.uid}
      /\ \A b \in cut : b.uid <= r.uid
  BY DEF CutAbove, Keys, Micros
<1>2. InChainOrder(rows) /\ InChainOrder(cut)
  BY CutAboveInOrder DEF IndexPath
<1>. HIDE DEF cut
<1>3. r \in cut /\ r.uid \in Nat
  BY <1>1, PathRows
<1>4. ASSUME NEW b \in Keys(cut), b.height # 1 PROVE \E k \in Keys(cut) : k.height = b.height - 1
  <2>1. b \in Keys(rows) /\ b.uid <= r.uid /\ b \in rows
    BY <1>1 DEF Keys
  <2>2. PICK k \in Keys(rows) : k.height = b.height - 1
    BY <1>4, <2>1 DEF IndexPath
  <2>3. k \in rows /\ k.uid \in Nat /\ b.uid \in Nat /\ k.height \in Nat /\ b.height \in Nat
    BY <2>1, PathRows DEF Keys
  <2>4. ~(b.uid < k.uid)
    BY <1>2, <2>1, <2>2, <2>3 DEF InChainOrder
  <2>5. k.uid <= r.uid
    BY <1>3, <2>1, <2>3, <2>4
  <2>. QED BY <1>1, <2>2, <2>5
<1>5. ASSUME NEW m \in Micros(cut)
      PROVE  /\ m.id.micros >= 1
             /\ \A j \in 0..(m.id.micros - 1) :
                  \E q \in cut : /\ q.id.block = m.id.block /\ q.id.micros = j
                                 /\ q.height = m.height /\ q.uid < m.uid
  <2>1. m \in Micros(rows) /\ m.uid <= r.uid /\ m.uid \in Nat
    BY <1>1, PathRows DEF Micros
  <2>2. m.id.micros >= 1
    BY <2>1 DEF IndexPath
  <2>3. ASSUME NEW j \in 0..(m.id.micros - 1)
        PROVE  \E q \in cut : /\ q.id.block = m.id.block /\ q.id.micros = j
                              /\ q.height = m.height /\ q.uid < m.uid
    <3>1. PICK q \in rows : /\ q.id.block = m.id.block /\ q.id.micros = j
                            /\ q.height = m.height /\ q.uid < m.uid
      BY <2>1 DEF IndexPath
    <3>2. q.uid \in Nat /\ q.uid <= r.uid
      <4>1. q.uid \in Nat
        BY PathRows
      <4>. QED BY <1>3, <2>1, <3>1, <4>1
    <3>. QED BY <1>1, <3>1, <3>2
  <2>. QED BY <2>2, <2>3
<1>6. \A b \in cut : Settled(c, t, b)
  BY <1>1 DEF IndexPath
<1>7. \A b, d \in Keys(cut) : d.height = b.height + 1 => t[d.id.block] = b.id
  BY <1>1 DEF IndexPath
<1>8. \A b, d \in cut : b.height < d.height => b.id.block < d.id.block
  BY <1>1 DEF IndexPath
<1>9. \A m, d \in Micros(cut) : m.uid < d.uid => m.id.micros < d.id.micros
  BY <1>1 DEF IndexPath
<1>10. IndexPath(cut, c, t)
  BY <1>2, <1>4, <1>5, <1>6, <1>7, <1>8, <1>9 DEF IndexPath
<1>11. IsTop(cut, r)
  BY <1>1, <1>3 DEF IsTop
<1>. QED BY <1>10, <1>11 DEF cut

(* The parts of what is in order are in order. *)
LEMMA StreamedSplit ==
  ASSUME NEW rows, NEW d, NEW u, NEW s \in Seq(StreamUpdates), NEW z \in Seq(StreamUpdates),
         Streamed(s \o z, rows, d, u)
  PROVE  /\ Streamed(s, rows, d, u)
         /\ \A i \in 1..Len(z) : Settled(d, u, z[i])
         /\ \A i \in 2..Len(z) : Joins(u, z[i - 1], z[i])
         /\ s # <<>> /\ z # <<>> => Joins(u, s[Len(s)], z[1])
<1>. DEFINE w == s \o z
<1>1. /\ w \in Seq(StreamUpdates) /\ Len(w) = Len(s) + Len(z) /\ Len(s) \in Nat /\ Len(z) \in Nat
      /\ \A i \in 1..(Len(s) + Len(z)) : w[i] = IF i <= Len(s) THEN s[i] ELSE z[i - Len(s)]
      /\ (s = <<>> <=> Len(s) = 0) /\ (z = <<>> <=> Len(z) = 0)
  BY ConcatProperties, EmptySeq
<1>2. Streamed(w, rows, d, u)
  OBVIOUS
<1>. HIDE DEF w
<1>3. \A i \in 1..Len(s) : i \in 1..Len(w) /\ w[i] = s[i]
  BY <1>1
<1>4. \A i \in 1..Len(z) : Len(s) + i \in 1..Len(w) /\ w[Len(s) + i] = z[i]
  BY <1>1
<1>5. Streamed(s, rows, d, u)
  <2>1. \A i \in 1..Len(s) : Settled(d, u, s[i])
    BY <1>2, <1>3 DEF Streamed
  <2>2. s # <<>> => Continues(rows, u, s[1])
    <3>. SUFFICES ASSUME s # <<>> PROVE Continues(rows, u, s[1])
      OBVIOUS
    <3>1. 1 \in 1..Len(s) /\ Len(w) # 0
      BY <1>1
    <3>2. w # <<>> /\ w[1] = s[1]
      BY <1>1, <1>3, <3>1, EmptySeq
    <3>. QED BY <1>2, <3>2 DEF Streamed
  <2>3. ASSUME NEW i \in 2..Len(s) PROVE Joins(u, s[i - 1], s[i])
    <3>1. i \in 2..Len(w) /\ w[i] = s[i] /\ w[i - 1] = s[i - 1]
      BY <1>1, <1>3
    <3>. QED BY <1>2, <3>1 DEF Streamed
  <2>. QED BY <2>1, <2>2, <2>3 DEF Streamed
<1>6. \A i \in 1..Len(z) : Settled(d, u, z[i])
  BY <1>2, <1>4 DEF Streamed
<1>7. ASSUME NEW i \in 2..Len(z) PROVE Joins(u, z[i - 1], z[i])
  <2>1. i \in 1..Len(z) /\ i - 1 \in 1..Len(z) /\ Len(s) + i \in 2..Len(w)
    BY <1>1
  <2>2. w[Len(s) + i] = z[i] /\ w[(Len(s) + i) - 1] = z[i - 1]
    <3>1. (Len(s) + i) - 1 = Len(s) + (i - 1)
      BY <1>1
    <3>. QED BY <1>4, <2>1, <3>1
  <2>. QED BY <1>2, <2>1, <2>2 DEF Streamed
<1>8. ASSUME s # <<>>, z # <<>> PROVE Joins(u, s[Len(s)], z[1])
  <2>1. Len(s) \in 1..Len(s) /\ 1 \in 1..Len(z) /\ Len(s) + 1 \in 2..Len(w) /\ (Len(s) + 1) - 1 = Len(s)
    BY <1>1, <1>8
  <2>2. w[Len(s)] = s[Len(s)] /\ w[Len(s) + 1] = z[1]
    BY <1>3, <1>4, <2>1
  <2>. QED BY <1>2, <2>1, <2>2 DEF Streamed
<1>. QED BY <1>5, <1>6, <1>7, <1>8

-----------------------------------------------------------------------------
(* start().                                                                *)

LEMMA NoneStreamed == ASSUME NEW rows, NEW c, NEW t PROVE Streamed(<<>>, rows, c, t)
<1>1. 1..Len(<<>>) = {} /\ 2..Len(<<>>) = {}
  OBVIOUS
<1>. QED BY <1>1 DEF Streamed

LEMMA NoneInFlight ==
  ASSUME channel = <<>>, pending = <<>>, queue = <<>> PROVE Flight = <<>> /\ Handed = <<>>
  BY DEF Flight, Handed

(* Steps that touch neither the index nor the stream. *)
LEMMA PathBesides ==
  ASSUME PathInv, TypeInv', UNCHANGED <<nodeVars, blocks, stream>>, Steps'
  PROVE  PathInv'
<1>1. UNCHANGED <<node, parents, blocks, open, queue, pending, channel>>
  BY DEF nodeVars, stream
<1>2. Handed' = Handed
  BY <1>1 DEF Handed
<1>3. Flight' = Flight
  BY <1>1, <1>2 DEF Flight
<1>. QED BY <1>1, <1>2, <1>3 DEF PathInv

LEMMA PathVerify == PathInv /\ Verify => PathInv'
<1>. SUFFICES ASSUME PathInv, Verify PROVE PathInv'
  OBVIOUS
<1>. DEFINE lastHeight == CurrentHeight(blocks)
            heights == {h \in HeightsToCheck(lastHeight) : KeyRowsAt(h) # {}}
<1>1. /\ phase = "down" /\ \A h \in heights : h <= Height
      /\ phase' = IF \A h \in heights : StoredAt(h).id = node[h] THEN "verified" ELSE "failed"
      /\ UNCHANGED <<nodeVars, database, redis, from, stream, unpublished, synced, counters>>
  BY DEF Verify
<1>2. /\ blocks \in SUBSET BlockRows(BlockIds) /\ IndexPath(blocks, node, parents)
      /\ NodePath(node, parents) /\ Len(node) \in Nat
  BY PathTyped DEF PathInv
<1>3. /\ lastHeight \in Nat /\ \A b \in blocks : b.height <= lastHeight
      /\ blocks # {} => \E b \in blocks : b.height = lastHeight
  <2>1. \A b \in blocks : b.height < Len(node) + 1
    BY <1>2 DEF IndexPath, Settled
  <2>. QED BY <1>2, <2>1, CurrentHeightIsGreatest
<1>. HIDE DEF lastHeight
<1>4. ASSUME NEW h \in heights PROVE StoredAt(h).id = node[h]
  <2>1. KeyRowsAt(h) # {} /\ h \in HeightsToCheck(lastHeight)
    OBVIOUS
  <2>2. StoredAt(h) \in Keys(blocks) /\ StoredAt(h).height = h
    <3>1. PICK b \in KeyRowsAt(h) : TRUE
      BY <2>1
    <3>2. \A k \in KeyRowsAt(h) : k = b
      BY <1>2, PathRows DEF KeyRowsAt
    <3>3. b.uid <= b.uid
      <4>1. b \in blocks
        BY DEF KeyRowsAt, Keys
      <4>2. b.uid \in Nat
        BY <1>2, <4>1, PathRows
      <4>. QED BY <4>2
    <3>4. StoredAt(h) \in KeyRowsAt(h)
      BY <3>1, <3>2, <3>3 DEF StoredAt
    <3>. QED BY <3>4 DEF KeyRowsAt
  <2>. DEFINE k == StoredAt(h)
  <2>. HIDE DEF k
  <2>3. k \in Keys(blocks) /\ k \in blocks /\ k.height = h
    BY <2>2 DEF k, Keys
  <2>4. Settled(node, parents, k)
    BY <1>2, <2>3 DEF IndexPath
  <2>5. CASE h = 1
    <3>1. k.id = Root /\ node[1] = Root
      BY <1>2, <2>3, <2>4, <2>5 DEF Settled, NodePath
    <3>. QED BY <2>5, <3>1 DEF k
  <2>6. CASE h # 1
    <3>1. h = SatSub(lastHeight, 2) + 1 /\ h >= 1
      BY <2>1, <2>3, <2>4, <2>6 DEF HeightsToCheck, Settled
    <3>2. h = lastHeight - 1
      BY <1>3, <2>6, <3>1 DEF SatSub
    <3>3. PICK b \in blocks : b.height = lastHeight
      BY <1>3, <2>3
    <3>4. k.height < b.height /\ k.height >= 1
      BY <1>3, <2>3, <3>1, <3>2, <3>3
    <3>5. k.id = node[k.height]
      BY <1>2, <2>3, <3>3, <3>4, RowBelowIsOnChain
    <3>. QED BY <2>3, <3>5 DEF k
  <2>. QED BY <2>5, <2>6
<1>5. phase' = "verified"
  BY <1>1, <1>4
<1>6. Steps'
  BY <1>1, <1>5 DEF PathInv, Steps, stream
<1>7. TypeInv' /\ blocks' = blocks
  BY <1>1, TypeVerify DEF PathInv, database
<1>. QED BY <1>1, <1>6, <1>7, PathBesides

(* With the code's defaults the start rolls the index back to a key block  *)
(* below its last one, or leaves an index of one block alone.              *)
LEMMA ResumeHeightsAre ==
  ASSUME Shallow, NEW rows \in SUBSET BlockRows(BlockIds), CurrentHeight(rows) \in Nat
  PROVE  LET lastHeight == CurrentHeight(rows)
         IN  /\ SatSub(lastHeight, 1) \in ResumeHeights(rows, Depth, Step)
             /\ \A h \in ResumeHeights(rows, Depth, Step) : h <= SatSub(lastHeight, 1)
<1>. DEFINE lastHeight == CurrentHeight(rows)
            by      == IF Step < Depth THEN Step ELSE Depth
            final   == SatSub(lastHeight, Depth)
            start   == SatSub(lastHeight, by)
<1>1. Depth \in Nat /\ Depth >= 1 /\ Step \in Nat /\ Step >= 1
  BY ConsumerAssumption
<1>2. by = 1
  BY <1>1 DEF Shallow
<1>3. ResumeHeights(rows, Depth, Step) = {final} \cup {h \in (final + 1)..start : (start - h) % by = 0}
  BY DEF ResumeHeights
<1>4. lastHeight \in Nat
  OBVIOUS
<1>. HIDE DEF lastHeight
<1>5. start = SatSub(lastHeight, 1) /\ final \in Nat /\ start \in Nat /\ final <= start
  BY <1>1, <1>2, <1>4 DEF SatSub
<1>. HIDE DEF final, start, by
<1>6. final = start \/ start \in (final + 1)..start
  BY <1>5
<1>7. (start - start) % by = 0
  BY <1>2, <1>5
<1>8. start \in ResumeHeights(rows, Depth, Step)
  BY <1>3, <1>6, <1>7
<1>9. \A h \in ResumeHeights(rows, Depth, Step) : h <= start
  BY <1>3, <1>5
<1>. QED BY <1>5, <1>8, <1>9 DEF lastHeight

LEMMA PathResume == ASSUME Shallow PROVE PathInv /\ Resume => PathInv'
<1>. SUFFICES ASSUME PathInv, Resume PROVE PathInv'
  OBVIOUS
<1>. DEFINE lastHeight == CurrentHeight(blocks)
            found   == ResumeRows(blocks, Depth, Step)
            row     == ResumeRow(blocks, Depth, Step)
<1>1. /\ phase = "verified" /\ phase' = "resumed"
      /\ UNCHANGED <<nodeVars, blockSeq, redis, stream, unpublished, synced, counters>>
      /\ UNCHANGED <<node, parents, open, queue, pending, channel>>
  BY DEF Resume, nodeVars, stream
<1>2. /\ blocks \in SUBSET BlockRows(BlockIds) /\ IndexPath(blocks, node, parents)
      /\ NodePath(node, parents) /\ Len(node) \in Nat /\ Len(node) >= 1 /\ Height = Len(node)
  BY PathTyped DEF PathInv
<1>3. /\ lastHeight \in Nat /\ \A b \in blocks : b.height <= lastHeight
      /\ blocks # {} => \E b \in blocks : b.height = lastHeight
  <2>1. \A b \in blocks : b.height < Len(node) + 1
    BY <1>2 DEF IndexPath, Settled
  <2>. QED BY <1>2, <2>1, CurrentHeightIsGreatest
<1>4. /\ ~open /\ open' = open
      /\ Flight = <<>> /\ Handed = <<>> /\ Flight' = <<>> /\ Handed' = <<>>
      /\ pending = <<>> /\ pending' = <<>> /\ queue = <<>> /\ channel = <<>>
  <2>1. ~open /\ channel = <<>> /\ pending = <<>> /\ queue = <<>>
    BY <1>1 DEF PathInv, Steps
  <2>. QED BY <1>1, <2>1, NoneInFlight DEF Handed, Flight
<1>5. /\ SatSub(lastHeight, 1) \in ResumeHeights(blocks, Depth, Step)
      /\ \A h \in ResumeHeights(blocks, Depth, Step) : h <= SatSub(lastHeight, 1)
  BY <1>2, <1>3, ResumeHeightsAre
<1>. HIDE DEF lastHeight
<1>6. IndexPath(blocks', node, parents) /\ Resumed'
  <2>1. CASE found = {}
    <3>1. blocks' = blocks /\ from' = 1
      BY <2>1 DEF Resume, Shallow
    <3>2. ASSUME NEW b \in blocks, b.height # 1 PROVE FALSE
      <4>1. b.height \in Nat /\ b.height >= 1 /\ b.height <= lastHeight
        BY <1>2, <1>3, <3>2 DEF IndexPath, Settled
      <4>2. PICK a \in blocks : a.height = lastHeight
        BY <1>3, <3>2
      <4>3. PICK k \in Keys(blocks) : k.height = lastHeight
        BY <1>2, <4>2, PathRows
      <4>4. PICK p \in Keys(blocks) : p.height = lastHeight - 1
        BY <1>2, <1>3, <3>2, <4>1, <4>3 DEF IndexPath
      <4>5. p.height = SatSub(lastHeight, 1)
        BY <1>3, <3>2, <4>1, <4>4 DEF SatSub
      <4>. QED BY <1>5, <2>1, <4>4, <4>5 DEF ResumeRows, Keys
    <3>3. Resumed'
      <4>1. 1 \in 1..Height'
        BY <1>1, <1>2 DEF Height
      <4>. QED BY <3>1, <3>2, <4>1 DEF Resumed
    <3>. QED BY <1>2, <3>1, <3>3
  <2>2. CASE found # {}
    <3>1. row \in found
      BY <1>2, <2>2, ResumeRowStored
    <3>2. row \in blocks /\ row.height <= SatSub(lastHeight, 1)
      BY <1>5, <3>1 DEF ResumeRows
    <3>3. blocks' = CutAbove(blocks, row.uid) /\ from' = row.height + 1
      BY <2>2 DEF Resume
    <3>. HIDE DEF row, found
    <3>4. row.height \in Nat /\ row.height >= 1 /\ Settled(node, parents, row)
      BY <1>2, <3>2 DEF IndexPath, Settled
    <3>5. PICK b \in blocks : b.height = lastHeight
      BY <1>3, <3>2
    <3>6. row.height < b.height
      BY <1>3, <3>2, <3>4, <3>5 DEF SatSub
    <3>7. row \in Keys(blocks)
      <4>1. row \notin Micros(blocks)
        <5>. SUFFICES ASSUME row \in Micros(blocks) PROVE FALSE
          OBVIOUS
        <5>1. b.height <= row.height /\ b.height \in Nat
          BY <1>2, PathRows
        <5>. QED BY <3>4, <3>6, <5>1
      <4>. QED BY <3>2, <4>1 DEF Keys, Micros
    <3>8. row.id = node[row.height] /\ row.height + 1 \in 1..Len(node)
      BY <1>2, <3>4, <3>6, <3>7, RowBelowIsOnChain
    <3>9. IndexPath(blocks', node, parents) /\ IsTop(blocks', row)
      BY <1>2, <3>2, <3>3, CutKeepsPath
    <3>10. Resumed'
      <4>1. from' \in 1..Height' /\ from' # 1 /\ from' - 1 = row.height
        BY <1>1, <1>2, <3>3, <3>4, <3>8 DEF Height
      <4>2. row \in blocks' /\ row.key
        BY <3>7, <3>9 DEF IsTop, Keys
      <4>. QED BY <1>1, <3>8, <3>9, <4>1, <4>2 DEF Resumed
    <3>. QED BY <3>9, <3>10
  <2>. QED BY <2>1, <2>2
<1>7. Steps'
  BY <1>1, <1>4, <1>6 DEF Steps
<1>8. TypeInv'
  BY TypeResume DEF PathInv
<1>9. Streamed(Flight', blocks', node', parents')
  BY <1>4, NoneStreamed
<1>10. (IsBatch(Handed) /\ IsBatch(pending) /\ AllBlocks(pending))'
  BY <1>1, <1>4 DEF PathInv
<1>. QED BY <1>1, <1>2, <1>4, <1>6, <1>7, <1>8, <1>9, <1>10 DEF PathInv

(* What a subscriber is sent follows the chain up to its tip. *)
LEMMA SentIs ==
  ASSUME node \in Seq(BlockIds), node # <<>>, NEW h \in 1..Height,
         NEW i \in 1..(Height - h + 1 + Tip.micros)
  PROVE  /\ i <= Height - h =>
              /\ Sent(h, i).kind = "block" /\ Sent(h, i).height = h + i - 1
              /\ Sent(h, i).id = node[h + i - 1] /\ h + i - 1 \in 1..(Height - 1)
         /\ i = Height - h + 1 =>
              /\ Sent(h, i).kind = "block" /\ Sent(h, i).height = Height
              /\ Sent(h, i).id.block = Tip.block /\ Sent(h, i).id.micros = 0
         /\ i > Height - h + 1 =>
              /\ Sent(h, i).kind = "micro" /\ Sent(h, i).height = Height
              /\ Sent(h, i).id.block = Tip.block
              /\ Sent(h, i).id.micros = i - (Height - h) - 1
<1>1. /\ Height \in Nat /\ Height >= 1 /\ Tip \in BlockIds /\ Tip.micros \in Nat
      /\ Tip.micros <= MaxMicros
  BY NodeTyped, ConsumerAssumption
<1>. DEFINE liquid == [Tip EXCEPT !.micros = 0]
<1>2. liquid \in BlockIds /\ liquid.block = Tip.block /\ liquid.micros = 0
  <2>1. Tip \in BlockIds /\ MaxMicros \in Nat
    BY <1>1, ConsumerAssumption
  <2>2. liquid \in BlockIds
    <3>1. 0 \in 0..MaxMicros
      BY <2>1
    <3>. QED BY <2>1, <3>1 DEF BlockIds
  <2>3. liquid.block = Tip.block /\ liquid.micros = 0
    BY <2>1 DEF BlockIds
  <2>. QED BY <2>2, <2>3
<1>3. CASE i <= Height - h
  <2>1. Sent(h, i) = Update("block", node[h + i - 1], h + i - 1)
    BY <1>3 DEF Sent
  <2>2. h + i - 1 \in 1..(Height - 1)
    BY <1>1, <1>3
  <2>. QED BY <1>1, <1>3, <2>1, <2>2 DEF Update
<1>4. CASE i = Height - h + 1
  <2>1. Sent(h, i) = Update("block", liquid, Height)
    BY <1>1, <1>4 DEF Sent
  <2>. HIDE DEF liquid
  <2>. QED BY <1>1, <1>2, <1>4, <2>1 DEF Update
<1>5. CASE i > Height - h + 1
  <2>1. ~(i <= Height - h) /\ i # Height - h + 1
    BY <1>1, <1>5
  <2>2. Sent(h, i) = Update("micro", [liquid EXCEPT !.micros = i - (Height - h) - 1], Height)
    BY <2>1 DEF Sent
  <2>. HIDE DEF liquid
  <2>. DEFINE id == [liquid EXCEPT !.micros = i - (Height - h) - 1]
  <2>3. id.block = Tip.block /\ id.micros = i - (Height - h) - 1
    BY <1>2 DEF BlockIds
  <2>4. Sent(h, i) = Update("micro", id, Height)
    BY <2>2
  <2>. HIDE DEF id
  <2>5. Sent(h, i).kind = "micro" /\ Sent(h, i).height = Height /\ Sent(h, i).id = id
    BY <2>4 DEF Update
  <2>. QED BY <2>1, <2>3, <2>5
<1>. QED BY <1>1, <1>3, <1>4, <1>5

LEMMA SentSettled ==
  ASSUME node \in Seq(BlockIds), node # <<>>, NodePath(node, parents), NEW h \in 1..Height,
         NEW i \in 1..(Height - h + 1 + Tip.micros)
  PROVE  Settled(node, parents, Sent(h, i))
<1>1. Height \in Nat /\ Height >= 1 /\ Tip \in BlockIds /\ Tip.micros \in Nat
      /\ Height = Len(node) /\ Tip = node[Height]
  BY NodeTyped DEF BlockIds
<1>. DEFINE x == Sent(h, i)
<1>1a. /\ i <= Height - h =>
              /\ x.height = h + i - 1
              /\ x.id = node[h + i - 1] /\ h + i - 1 \in 1..(Height - 1)
       /\ i = Height - h + 1 =>
              x.height = Height /\ x.id.block = Tip.block /\ x.id.micros = 0
       /\ i > Height - h + 1 => x.height = Height /\ x.id.block = Tip.block
  BY SentIs
<1>. HIDE DEF x
<1>1b. i \in Nat /\ i >= 1 /\ h \in Nat /\ h >= 1 /\ h <= Height
       /\ i <= Height - h + 1 + Tip.micros
  BY <1>1
<1>2. PICK k \in 1..Len(node) : x.height = k /\ x.id.block = node[k].block
  <2>1. CASE i <= Height - h
    <3>1. h + i - 1 \in 1..Len(node)
      BY <1>1, <1>1b, <2>1
    <3>. QED BY <1>1a, <2>1, <3>1
  <2>2. CASE i > Height - h
    <3>1. Height \in 1..Len(node) /\ (i = Height - h + 1 \/ i > Height - h + 1)
      BY <1>1, <1>1b, <2>2
    <3>. QED BY <1>1, <1>1a, <3>1
  <2>. QED BY <1>1, <1>1b, <2>1, <2>2
<1>3. k = 1 => x.id = Root
  <2>. SUFFICES ASSUME k = 1 PROVE x.id = Root
    OBVIOUS
  <2>1. CASE i <= Height - h
    <3>1. x.height = h + i - 1 /\ x.id = node[h + i - 1]
      BY <1>1a, <2>1
    <3>. QED BY <1>2, <3>1 DEF NodePath
  <2>2. CASE i > Height - h
    <3>1. x.height = Height /\ Height = 1
      <4>1. i = Height - h + 1 \/ i > Height - h + 1
        BY <1>1, <1>1b, <2>2
      <4>. QED BY <1>1a, <1>2, <4>1
    <3>2. Tip = Root
      BY <1>1, <3>1 DEF NodePath
    <3>3. i = Height - h + 1
      BY <1>1, <1>1b, <2>2, <3>2 DEF Root
    <3>4. x.id.block = 1 /\ x.id.micros = 0
      BY <1>1a, <3>2, <3>3 DEF Root
    <3>5. x.id \in BlockIds
      <4>1. x = Update("block", [Tip EXCEPT !.micros = 0], Height)
        BY <1>1, <1>1b, <3>3 DEF Sent, x
      <4>2. [Tip EXCEPT !.micros = 0] \in BlockIds
        <5>1. Tip \in BlockIds /\ MaxMicros \in Nat
          BY <1>1, ConsumerAssumption
        <5>. QED BY <5>1 DEF BlockIds
      <4>. QED BY <4>1, <4>2 DEF Update
    <3>. QED BY <3>4, <3>5 DEF BlockIds, Root
  <2>. QED BY <1>1, <1>1b, <2>1, <2>2
<1>4. x.id.block \in 1..Len(parents) /\ (k # 1 => parents[x.id.block] = node[k - 1])
  BY <1>1, <1>2 DEF NodePath
<1>5. Settled(node, parents, x)
  BY <1>1, <1>2, <1>3, <1>4 DEF Settled
<1>. QED BY <1>5 DEF x

LEMMA SentJoins ==
  ASSUME node \in Seq(BlockIds), node # <<>>, NodePath(node, parents), NEW h \in 1..Height,
         NEW i \in 2..(Height - h + 1 + Tip.micros)
  PROVE  Joins(parents, Sent(h, i - 1), Sent(h, i))
<1>1. /\ Height \in Nat /\ Height >= 1 /\ Tip \in BlockIds /\ Tip.micros \in Nat
      /\ Height = Len(node) /\ Tip = node[Height]
  BY NodeTyped DEF BlockIds
<1>2. i \in 1..(Height - h + 1 + Tip.micros) /\ i - 1 \in 1..(Height - h + 1 + Tip.micros)
  BY <1>1
<1>. DEFINE p == Sent(h, i - 1)
            x == Sent(h, i)
<1>3. CASE i <= Height - h + 1
  <2>1. i - 1 <= Height - h
    BY <1>1, <1>3
  <2>2. /\ p.kind = "block" /\ p.height = h + i - 2 /\ p.id = node[h + i - 2]
        /\ h + (i - 1) - 1 = h + i - 2
    BY <1>1, <1>2, <2>1, SentIs
  <2>3. x.kind = "block" /\ x.height = h + i - 1 /\ x.id.block = node[h + i - 1].block
    <3>1. CASE i <= Height - h
      BY <1>2, <3>1, SentIs
    <3>2. CASE i = Height - h + 1
      <4>1. h + i - 1 = Height
        BY <1>1, <3>2
      <4>. QED BY <1>1, <1>2, <3>2, <4>1, SentIs
    <3>. QED BY <1>1, <1>3, <3>1, <3>2
  <2>4. h + i - 1 \in 2..Len(node) /\ (h + i - 1) - 1 = h + i - 2
    BY <1>1, <1>3
  <2>5. parents[node[h + i - 1].block] = node[h + i - 2]
    BY <2>4 DEF NodePath
  <2>6. x.height = p.height + 1
    BY <1>1, <2>2, <2>3
  <2>. HIDE DEF p, x
  <2>7. Joins(parents, p, x)
    BY <2>2, <2>3, <2>5, <2>6 DEF Joins
  <2>. QED BY <2>7 DEF p, x
<1>4. CASE i > Height - h + 1
  <2>1. /\ x.kind = "micro" /\ x.height = Height /\ x.id.block = Tip.block
        /\ x.id.micros = i - (Height - h) - 1
    BY <1>2, <1>4, SentIs
  <2>2. /\ p.kind \in {"block", "micro"} /\ p.height = Height /\ p.id.block = Tip.block
        /\ p.id.micros = i - (Height - h) - 2
        /\ p.kind = "block" => p.id.micros = 0
    <3>1. CASE i - 1 = Height - h + 1
      <4>1. i - (Height - h) - 2 = 0
        BY <1>1, <3>1
      <4>. QED BY <1>2, <3>1, <4>1, SentIs
    <3>2. CASE i - 1 > Height - h + 1
      <4>1. (i - 1) - (Height - h) - 1 = i - (Height - h) - 2
        BY <1>1
      <4>. QED BY <1>2, <3>2, <4>1, SentIs
    <3>. QED BY <1>1, <1>4, <3>1, <3>2
  <2>3. x.id.micros = p.id.micros + 1
    BY <1>1, <2>1, <2>2
  <2>. HIDE DEF p, x
  <2>4. Joins(parents, p, x)
    BY <2>1, <2>2, <2>3 DEF Joins
  <2>. QED BY <2>4 DEF p, x
<1>. QED BY <1>1, <1>3, <1>4

LEMMA PathSubscribe == PathInv /\ Subscribe => PathInv'
<1>. SUFFICES ASSUME PathInv, Subscribe PROVE PathInv'
  OBVIOUS
<1>1. /\ phase = "resumed" /\ phase' = "streaming" /\ open' = TRUE /\ queue' = History(from)
      /\ UNCHANGED <<node, parents, blocks, pending, channel>>
  BY DEF Subscribe, nodeVars, database
<1>2. /\ TypeInv /\ node \in Seq(BlockIds) /\ node # <<>> /\ NodePath(node, parents)
      /\ IndexPath(blocks, node, parents) /\ blocks \in SUBSET BlockRows(BlockIds)
  BY PathTyped DEF PathInv
<1>3. pending = <<>> /\ channel = <<>> /\ Resumed
  BY <1>1 DEF PathInv, Steps
<1>4. /\ Height \in Nat /\ Height >= 1 /\ Tip \in BlockIds /\ Tip.micros \in Nat
      /\ Height = Len(node) /\ Tip = node[Height] /\ from \in 1..Height
  BY <1>2, <1>3, NodeTyped DEF BlockIds, Resumed
<1>. DEFINE s == History(from)
            n == Height - from + 1 + Tip.micros
<1>5. s \in Seq(StreamUpdates) /\ Len(s) = n /\ \A i \in 1..n : s[i] = Sent(from, i)
  BY <1>2, <1>4, HistoryIs
<1>. HIDE DEF s
<1>6. Flight' = s /\ Handed' = <<>>
  <2>1. Handed' = <<>>
    BY <1>1, <1>3 DEF Handed
  <2>2. Flight' = (<<>> \o <<>>) \o s
    BY <1>1, <1>3, <2>1 DEF Flight, s
  <2>. QED BY <1>5, <2>1, <2>2
<1>7. n \in Nat /\ n >= 1 /\ 1 \in 1..n
  BY <1>4
<1>8. Streamed(s, blocks, node, parents)
  <2>1. \A i \in 1..Len(s) : Settled(node, parents, s[i])
    BY <1>2, <1>4, <1>5, SentSettled
  <2>2. \A i \in 2..Len(s) : Joins(parents, s[i - 1], s[i])
    <3>. TAKE i \in 2..Len(s)
    <3>1. i \in 2..n /\ i \in 1..n /\ i - 1 \in 1..n
      BY <1>5, <1>7
    <3>. QED BY <1>2, <1>4, <1>5, <3>1, SentJoins
  <2>3. Continues(blocks, parents, s[1])
    <3>1. s[1].kind = "block" /\ s[1].height = from
      <4>1. s[1] = Sent(from, 1)
        BY <1>5, <1>7
      <4>2. CASE 1 <= Height - from
        BY <1>2, <1>4, <1>7, <4>1, <4>2, SentIs
      <4>3. CASE 1 = Height - from + 1
        BY <1>2, <1>4, <1>7, <4>1, <4>3, SentIs
      <4>. QED BY <1>4, <4>2, <4>3
    <3>2. CASE from = 1
      BY <1>3, <3>1, <3>2 DEF Continues, Begins, Resumed
    <3>3. CASE from # 1
      <4>1. PICK r \in blocks : /\ IsTop(blocks, r) /\ r.key
                                /\ r.height = from - 1 /\ r.id = node[from - 1]
        BY <1>3, <3>3 DEF Resumed
      <4>2. Settled(node, parents, s[1])
        BY <1>5, <1>7, <2>1
      <4>3. parents[s[1].id.block] = r.id /\ s[1].height = r.height + 1
        BY <1>4, <3>1, <3>3, <4>1, <4>2 DEF Settled
      <4>4. Joins(parents, AsUpdate(r), s[1])
        BY <3>1, <4>3, AsUpdateIs DEF Joins
      <4>. QED BY <4>1, <4>4 DEF Continues
    <3>. QED BY <3>2, <3>3
  <2>. QED BY <2>1, <2>2, <2>3 DEF Streamed
<1>9. UpToDate(s, blocks, node)
  <2>1. s # <<>> /\ s[Len(s)] = Sent(from, n) /\ n \in 1..n
    BY <1>5, <1>7
  <2>2. Sent(from, n).id \in BlockIds
    <3>1. n \in 1..Len(s) /\ s[n] = Sent(from, n)
      BY <1>5, <2>1
    <3>2. s[n] \in StreamUpdates
      BY <1>5, <3>1, ElementOfSeq
    <3>. QED BY <3>1, <3>2 DEF StreamUpdates
  <2>. DEFINE x == Sent(from, n)
  <2>3. /\ x.kind # "rollback" /\ x.height = Height /\ x.id.block = Tip.block
        /\ x.id.micros = Tip.micros /\ (x.kind = "block" => x.id.micros = 0)
    <3>1. CASE Tip.micros = 0
      <4>1. n = Height - from + 1
        BY <1>4, <3>1
      <4>. QED BY <1>2, <1>4, <2>1, <3>1, <4>1, SentIs
    <3>2. CASE Tip.micros # 0
      <4>1. n > Height - from + 1 /\ n - (Height - from) - 1 = Tip.micros
        BY <1>4, <3>2
      <4>. QED BY <1>2, <1>4, <2>1, <4>1, SentIs
    <3>. QED BY <3>1, <3>2
  <2>. HIDE DEF x
  <2>4. x.id = Tip
    <3>1. x.id \in BlockIds
      BY <2>2 DEF x
    <3>. QED BY <1>4, <2>3, <3>1 DEF BlockIds
  <2>. QED BY <1>4, <2>1, <2>3, <2>4 DEF UpToDate, AtTip, x
<1>10. TypeInv'
  BY <1>2, TypeSubscribe
<1>11. Steps'
  BY <1>1 DEF Steps
<1>12. (IsBatch(Handed) /\ IsBatch(pending) /\ AllBlocks(pending))'
  <2>1. IsBatch(<<>>)
    BY DEF IsBatch
  <2>. QED BY <1>1, <1>6, <2>1 DEF PathInv
<1>13. NodePath(node', parents') /\ IndexPath(blocks', node', parents')
  BY <1>1, <1>2
<1>14. Streamed(Flight', blocks', node', parents') /\ UpToDate(Flight', blocks', node')
  BY <1>1, <1>6, <1>8, <1>9
<1>. QED BY <1>10, <1>11, <1>12, <1>13, <1>14 DEF PathInv

-----------------------------------------------------------------------------
(* The stream and its end.                                                 *)

LEMMA PathSubscribeFails == PathInv /\ SubscribeFails => PathInv'
<1>. SUFFICES ASSUME PathInv, SubscribeFails PROVE PathInv'
  OBVIOUS
<1>1. UNCHANGED <<nodeVars, blocks, stream>> /\ TypeInv'
  BY TypeSubscribeFails DEF PathInv, SubscribeFails, database
<1>2. Steps'
  BY DEF PathInv, Steps, SubscribeFails, stream
<1>. QED BY <1>1, <1>2, PathBesides

LEMMA PathAfterCommit == PathInv /\ AfterCommit => PathInv'
<1>. SUFFICES ASSUME PathInv, AfterCommit PROVE PathInv'
  OBVIOUS
<1>1. UNCHANGED <<nodeVars, blocks, stream>> /\ TypeInv'
  BY TypeAfterCommit DEF PathInv, AfterCommit, database
<1>2. Steps'
  BY DEF PathInv, Steps, AfterCommit, stream
<1>. QED BY <1>1, <1>2, PathBesides

LEMMA PathStreamClosed == PathInv /\ StreamClosed => PathInv'
<1>. SUFFICES ASSUME PathInv, StreamClosed PROVE PathInv'
  OBVIOUS
<1>1. UNCHANGED <<nodeVars, blocks, stream>> /\ TypeInv'
  BY TypeStreamClosed DEF PathInv, StreamClosed, database
<1>2. Steps'
  BY DEF PathInv, Steps, StreamClosed, stream
<1>. QED BY <1>1, <1>2, PathBesides

LEMMA PathUnchanged == PathInv /\ UNCHANGED vars => PathInv'
<1>. SUFFICES ASSUME PathInv, UNCHANGED vars PROVE PathInv'
  OBVIOUS
<1>1. UNCHANGED <<nodeVars, blocks, stream>> /\ TypeInv' /\ UNCHANGED <<phase, from>>
  BY TypeUnchanged DEF PathInv, vars, database
<1>2. Steps'
  <2>1. Resumed => Resumed'
    BY <1>1 DEF Resumed, nodeVars, Height
  <2>. QED BY <1>1, <2>1 DEF PathInv, Steps, stream
<1>. QED BY <1>1, <1>2, PathBesides

LEMMA PathCrash == PathInv /\ Crash => PathInv'
<1>. SUFFICES ASSUME PathInv, Crash PROVE PathInv'
  OBVIOUS
<1>1. /\ UNCHANGED <<node, parents, blocks>> /\ phase' = "down" /\ open' = FALSE
      /\ queue' = <<>> /\ pending' = <<>> /\ channel' = <<>>
  BY DEF Crash, nodeVars, database
<1>2. Handed' = <<>>
  BY <1>1 DEF Handed
<1>3. Flight' = <<>>
  BY <1>1, <1>2 DEF Flight
<1>4. TypeInv'
  BY TypeCrash DEF PathInv
<1>5. Steps'
  BY <1>1 DEF Steps
<1>6. (IsBatch(Handed) /\ IsBatch(pending) /\ AllBlocks(pending))'
  BY <1>1, <1>2 DEF IsBatch, AllBlocks
<1>7. (NodePath(node, parents) /\ IndexPath(blocks, node, parents))'
  BY <1>1 DEF PathInv
<1>8. Streamed(Flight', blocks', node', parents')
  BY <1>3, NoneStreamed
<1>. QED BY <1>1, <1>4, <1>5, <1>6, <1>7, <1>8 DEF PathInv

LEMMA PathStreamLost == PathInv /\ StreamLost => PathInv'
<1>. SUFFICES ASSUME PathInv, StreamLost PROVE PathInv'
  OBVIOUS
<1>1. /\ open /\ open' = FALSE /\ queue' = <<>> /\ pending' = <<>>
      /\ UNCHANGED <<node, parents, blocks, phase, from, channel>>
  BY DEF StreamLost, nodeVars, database
<1>2. /\ Handed \in Seq(StreamUpdates) /\ pending \in Seq(StreamUpdates)
      /\ queue \in Seq(StreamUpdates)
  BY PathTyped DEF PathInv
<1>3. Handed' = Handed
  BY <1>1 DEF Handed
<1>4. Flight' = Handed
  <2>1. Flight' = (Handed \o <<>>) \o <<>>
    BY <1>1, <1>3 DEF Flight
  <2>. QED BY <1>2, <2>1, ConcatEmptySeq
<1>5. Streamed(Handed, blocks, node, parents)
  <2>. DEFINE rest == pending \o queue
  <2>1. rest \in Seq(StreamUpdates) /\ Flight = Handed \o rest
    <3>1. rest \in Seq(StreamUpdates)
      BY <1>2, ConcatProperties
    <3>2. (Handed \o pending) \o queue = Handed \o (pending \o queue)
      BY <1>2, ConcatAssociative
    <3>. QED BY <3>1, <3>2 DEF Flight
  <2>. HIDE DEF rest
  <2>2. Streamed(Handed \o rest, blocks, node, parents)
    BY <2>1 DEF PathInv
  <2>. QED BY <1>2, <2>1, <2>2, StreamedSplit
<1>6. TypeInv'
  BY TypeStreamLost DEF PathInv
<1>7. phase \in {"streaming", "committed"}
  BY <1>1 DEF PathInv, Steps
<1>8. Steps'
  BY <1>1, <1>7 DEF Steps
<1>9. (IsBatch(Handed) /\ IsBatch(pending) /\ AllBlocks(pending))'
  <2>1. IsBatch(<<>>) /\ AllBlocks(<<>>)
    BY DEF IsBatch, AllBlocks
  <2>. QED BY <1>1, <1>3, <2>1 DEF PathInv
<1>10. (NodePath(node, parents) /\ IndexPath(blocks, node, parents))'
  BY <1>1 DEF PathInv
<1>11. Streamed(Flight', blocks', node', parents')
  BY <1>1, <1>4, <1>5
<1>. QED BY <1>1, <1>6, <1>8, <1>9, <1>10, <1>11 DEF PathInv

(* One update moves from the stream into the batch in the making. *)
LEMMA MoveOne ==
  ASSUME NEW a \in Seq(StreamUpdates), NEW p \in Seq(StreamUpdates), NEW q \in Seq(StreamUpdates), q # <<>>
  PROVE  (a \o p) \o q = (a \o Append(p, Head(q))) \o Tail(q)
<1>. DEFINE u == Head(q)
            one == <<u>>
            rest == Tail(q)
<1>1. /\ u \in StreamUpdates /\ u = q[1] /\ rest \in Seq(StreamUpdates) /\ Len(rest) = Len(q) - 1
      /\ \A i \in 1..Len(rest) : rest[i] = q[i + 1]
  BY HeadTailProperties
<1>2. one \in Seq(StreamUpdates) /\ Len(one) = 1 /\ one[1] = u
  BY <1>1
<1>3. Append(p, u) = p \o one
  BY <1>1, AppendIsConcat
<1>. HIDE DEF u, one, rest
<1>4. q = one \o rest
  <2>1. /\ one \o rest \in Seq(StreamUpdates) /\ Len(one \o rest) = Len(one) + Len(rest)
        /\ \A i \in 1..(Len(one) + Len(rest)) :
             (one \o rest)[i] = IF i <= Len(one) THEN one[i] ELSE rest[i - Len(one)]
    <3>1. one \in Seq(StreamUpdates) /\ rest \in Seq(StreamUpdates)
      BY <1>1, <1>2
    <3>. QED BY <3>1, ConcatProperties
  <2>. DEFINE w == one \o rest
  <2>. HIDE DEF w
  <2>2. w \in Seq(StreamUpdates) /\ Len(w) = Len(q)
    BY <1>1, <1>2, <2>1 DEF w
  <2>3. \A i \in 1..Len(q) : w[i] = q[i]
    <3>. TAKE i \in 1..Len(q)
    <3>1. CASE i = 1
      <4>1. 1 \in 1..(Len(one) + Len(rest)) /\ 1 <= Len(one)
        BY <1>1, <1>2
      <4>2. w[1] = one[1]
        BY <2>1, <4>1 DEF w
      <4>3. one[1] = q[1]
        BY <1>1, <1>2
      <4>. QED BY <3>1, <4>2, <4>3
    <3>2. CASE i # 1
      <4>1. ~(i <= Len(one)) /\ i - 1 \in 1..Len(rest) /\ i \in 1..(Len(one) + Len(rest))
        BY <1>1, <1>2, <3>2
      <4>2. w[i] = rest[i - 1]
        BY <1>2, <2>1, <4>1 DEF w
      <4>3. rest[i - 1] = q[(i - 1) + 1]
        BY <1>1, <4>1
      <4>. QED BY <4>2, <4>3
    <3>. QED BY <3>1, <3>2
  <2>. QED BY <2>2, <2>3, SeqEqual DEF w
<1>5. \E o, r \in Seq(StreamUpdates) : q = o \o r /\ Append(p, Head(q)) = p \o o /\ Tail(q) = r
  <2>1. one \in Seq(StreamUpdates) /\ rest \in Seq(StreamUpdates)
    BY <1>1, <1>2
  <2>. QED BY <1>3, <1>4, <2>1 DEF u, rest
<1>6. PICK o \in Seq(StreamUpdates), r \in Seq(StreamUpdates) :
        q = o \o r /\ Append(p, Head(q)) = p \o o /\ Tail(q) = r
  BY <1>5
<1>7. (a \o p) \o (o \o r) = (a \o (p \o o)) \o r
  <2>1. a \o p \in Seq(StreamUpdates) /\ (a \o p) \o o = a \o (p \o o)
    BY ConcatProperties, ConcatAssociative, SMTT(30)
  <2>2. ASSUME NEW f \in Seq(StreamUpdates) PROVE (f \o o) \o r = f \o (o \o r)
    BY ConcatAssociative, SMTT(30)
  <2>. QED BY <2>1, <2>2
<1>. QED BY <1>6, <1>7

LEMMA BatchGrows ==
  ASSUME NEW t, NEW s \in Seq(StreamUpdates), NEW x \in StreamUpdates, IsBatch(s), AllBlocks(s),
         \A i \in 1..Len(s) : s[i].id.block \in Nat,
         s # <<>> => Joins(t, s[Len(s)], x),
         t[x.id.block].block < x.id.block
  PROVE  IsBatch(Append(s, x))
<1>. DEFINE z == Append(s, x)
<1>1. /\ z \in Seq(StreamUpdates) /\ Len(z) = Len(s) + 1 /\ z[Len(s) + 1] = x
      /\ \A i \in 1..Len(s) : z[i] = s[i]
      /\ Len(s) \in Nat /\ (s = <<>> <=> Len(s) = 0)
  BY AppendProperties, EmptySeq
<1>. HIDE DEF z
<1>2. ASSUME NEW i \in 1..Len(z), NEW j \in 1..Len(z), i < j
      PROVE  /\ z[i].kind = "block"
             /\ z[j].kind = "block" => /\ z[j].height = z[i].height + (j - i)
                                       /\ z[i].id.block < z[j].id.block
  <2>1. i \in 1..Len(s) /\ z[i] = s[i] /\ s[i].kind = "block"
    BY <1>1, <1>2 DEF AllBlocks
  <2>2. CASE j <= Len(s)
    BY <1>1, <1>2, <2>1, <2>2 DEF IsBatch
  <2>3. CASE j = Len(s) + 1
    <3>. SUFFICES ASSUME x.kind = "block"
                  PROVE  x.height = s[i].height + (j - i) /\ s[i].id.block < x.id.block
      BY <1>1, <2>1, <2>3
    <3>. DEFINE l == Len(s)
                p == s[l]
    <3>1. l \in 1..Len(s) /\ s # <<>> /\ p.kind = "block"
      BY <1>1, <2>1 DEF AllBlocks
    <3>2. x.height = p.height + 1 /\ t[x.id.block] = p.id
      BY <3>1 DEF Joins
    <3>3. p.id.block < x.id.block
      BY <3>2
    <3>4. i # l => p.height = s[i].height + (l - i) /\ s[i].id.block < p.id.block
      BY <1>1, <2>1, <3>1 DEF IsBatch
    <3>5. /\ s[i].height \in Nat /\ s[i].id.block \in Nat /\ p.height \in Nat /\ p.id.block \in Nat
          /\ x.id.block \in Nat
      <4>1. s[i] \in StreamUpdates /\ p \in StreamUpdates
        BY <2>1, <3>1, ElementOfSeq
      <4>. HIDE DEF l, p
      <4>2. \A y \in StreamUpdates : y.height \in Nat /\ y.id.block \in Nat
        BY ConsumerAssumption DEF StreamUpdates, BlockIds
      <4>. QED BY <4>1, <4>2
    <3>. HIDE DEF l, p
    <3>6. j = l + 1 /\ l \in Nat /\ i \in Nat
      BY <1>1, <2>3 DEF l
    <3>7. CASE i = l
      BY <2>1, <3>2, <3>3, <3>6, <3>7 DEF p
    <3>8. CASE i # l
      <4>1. p.height = s[i].height + (l - i) /\ s[i].id.block < p.id.block
        BY <3>4, <3>8
      <4>2. x.height = s[i].height + (j - i)
        BY <3>2, <3>5, <3>6, <4>1
      <4>3. s[i].id.block < x.id.block
        BY <3>3, <3>5, <4>1
      <4>. QED BY <4>2, <4>3
    <3>. QED BY <3>7, <3>8
  <2>. QED BY <1>1, <2>2, <2>3
<1>. QED BY <1>2 DEF IsBatch, z

LEMMA PathReceive == ASSUME NEW flush \in BOOLEAN PROVE PathInv /\ Receive(flush) => PathInv'
<1>. SUFFICES ASSUME PathInv, Receive(flush) PROVE PathInv'
  OBVIOUS
<1>. DEFINE update == Head(queue)
            batch  == Append(pending, update)
            rest   == Tail(queue)
            front  == Handed \o pending
<1>1. /\ queue # <<>> /\ phase \in {"streaming", "committed"}
      /\ update.kind # "block" => flush
      /\ flush => channel = <<>>
      /\ queue' = rest
      /\ pending' = IF flush THEN <<>> ELSE batch
      /\ channel' = IF flush THEN <<batch>> ELSE channel
      /\ UNCHANGED <<node, parents, blocks, phase, open>>
  BY DEF Receive, nodeVars, database
<1>2. /\ Handed \in Seq(StreamUpdates) /\ pending \in Seq(StreamUpdates)
      /\ queue \in Seq(StreamUpdates) /\ Len(queue) \in Nat /\ Len(queue) >= 1 /\ update = queue[1]
      /\ NodePath(node, parents) /\ IndexPath(blocks, node, parents)
  BY <1>1, PathTyped, EmptySeq DEF PathInv
<1>3. update \in StreamUpdates /\ rest \in Seq(StreamUpdates)
  BY <1>1, <1>2, HeadTailProperties
<1>4. batch \in Seq(StreamUpdates) /\ Len(batch) = Len(pending) + 1 /\ Len(pending) \in Nat
      /\ batch[Len(pending) + 1] = update /\ \A i \in 1..Len(pending) : batch[i] = pending[i]
  BY <1>2, <1>3, AppendProperties
<1>5. Flight = (Handed \o batch) \o rest
  BY <1>1, <1>2, MoveOne DEF Flight
<1>6. /\ front \in Seq(StreamUpdates) /\ Flight = front \o queue
      /\ pending # <<>> => front # <<>> /\ front[Len(front)] = pending[Len(pending)]
  <2>1. /\ front \in Seq(StreamUpdates) /\ Len(front) = Len(Handed) + Len(pending)
        /\ \A i \in 1..(Len(Handed) + Len(pending)) :
             front[i] = IF i <= Len(Handed) THEN Handed[i] ELSE pending[i - Len(Handed)]
    BY <1>2, ConcatProperties
  <2>2. Flight = front \o queue
    BY DEF Flight
  <2>. HIDE DEF front
  <2>3. ASSUME pending # <<>> PROVE front # <<>> /\ front[Len(front)] = pending[Len(pending)]
    <3>1. Len(Handed) \in Nat /\ Len(pending) \in Nat /\ Len(pending) >= 1
      BY <1>2, <2>3, EmptySeq
    <3>. QED BY <2>1, <3>1, EmptySeq
  <2>. QED BY <2>1, <2>2, <2>3
<1>. HIDE DEF update, batch, rest, front
<1>7. /\ front # <<>> => Joins(parents, front[Len(front)], update)
      /\ Settled(node, parents, update)
      /\ \A i \in 1..Len(front) : Settled(node, parents, front[i])
  <2>1. Streamed(front \o queue, blocks, node, parents)
    BY <1>6 DEF PathInv
  <2>2. /\ Streamed(front, blocks, node, parents)
        /\ \A i \in 1..Len(queue) : Settled(node, parents, queue[i])
        /\ front # <<>> /\ queue # <<>> => Joins(parents, front[Len(front)], queue[1])
    BY <1>2, <1>6, <2>1, StreamedSplit
  <2>3. 1 \in 1..Len(queue)
    BY <1>2
  <2>. QED BY <1>1, <1>2, <2>2, <2>3 DEF Streamed
<1>8. IsBatch(batch)
  <2>1. IsBatch(pending) /\ AllBlocks(pending)
    BY DEF PathInv
  <2>2. pending # <<>> => Joins(parents, pending[Len(pending)], update)
    BY <1>6, <1>7
  <2>3. parents[update.id.block].block < update.id.block
    BY <1>2, <1>7 DEF Settled, NodePath
  <2>4. \A i \in 1..Len(pending) : pending[i].id.block \in Nat
    <3>. TAKE i \in 1..Len(pending)
    <3>1. pending[i] \in StreamUpdates
      BY <1>2, ElementOfSeq
    <3>. QED BY <3>1 DEF StreamUpdates, BlockIds
  <2>. QED BY <1>2, <1>3, <2>1, <2>2, <2>3, <2>4, BatchGrows DEF batch
<1>9. Flight' = Flight
  <2>1. CASE flush
    <3>1. Handed = <<>> /\ Handed' = batch /\ pending' = <<>>
      BY <1>1, <2>1 DEF Handed
    <3>2. Flight' = (batch \o <<>>) \o rest
      BY <1>1, <3>1 DEF Flight
    <3>3. batch \o <<>> = batch /\ <<>> \o batch = batch
      BY <1>4, ConcatEmptySeq
    <3>. QED BY <1>5, <3>1, <3>2, <3>3
  <2>2. CASE ~flush
    <3>1. Handed' = Handed /\ pending' = batch
      BY <1>1, <2>2 DEF Handed
    <3>. QED BY <1>1, <1>5, <3>1 DEF Flight
  <2>. QED BY <2>1, <2>2
<1>10. (IsBatch(Handed) /\ IsBatch(pending) /\ AllBlocks(pending))'
  <2>1. CASE flush
    <3>1. Handed' = batch /\ pending' = <<>>
      BY <1>1, <2>1 DEF Handed
    <3>2. IsBatch(<<>>) /\ AllBlocks(<<>>)
      BY DEF IsBatch, AllBlocks
    <3>. QED BY <1>8, <3>1, <3>2
  <2>2. CASE ~flush
    <3>1. Handed' = Handed /\ pending' = batch /\ update.kind = "block"
      BY <1>1, <2>2 DEF Handed
    <3>2. AllBlocks(batch)
      BY <1>4, <3>1 DEF PathInv, AllBlocks
    <3>. QED BY <1>8, <3>1, <3>2 DEF PathInv
  <2>. QED BY <2>1, <2>2
<1>11. TypeInv'
  BY TypeReceive DEF PathInv
<1>12. Steps'
  <2>1. open
    BY <1>1 DEF PathInv, Steps
  <2>. QED BY <1>1, <2>1 DEF Steps
<1>. QED BY <1>1, <1>9, <1>10, <1>11, <1>12 DEF PathInv

-----------------------------------------------------------------------------
(* The rows a batch leaves.                                                *)

(* Squashing keeps the path: its top is the same block, all of it a key row. *)
LEMMA SquashKeepsPath ==
  ASSUME NEW rows \in SUBSET BlockRows(BlockIds), NEW seq \in Nat, \A b \in rows : b.uid < seq,
         NEW c, NEW t, IndexPath(rows, c, t)
  PROVE  /\ IndexPath(Squash(rows), c, t)
         /\ Micros(Squash(rows)) = {}
         /\ \A b \in Squash(rows) : \E x \in rows : x.id = b.id /\ x.height = b.height
         /\ \A r : IsTop(rows, r) =>
              \E q : /\ IsTop(Squash(rows), q) /\ q.key
                     /\ q.id = r.id /\ q.height = r.height
<1>. DEFINE sq == Squash(rows)
<1>1. /\ InChainOrder(rows) /\ sq \in SUBSET BlockRows(BlockIds) /\ InChainOrder(sq) /\ Micros(sq) = {}
      /\ \A b \in rows : Settled(c, t, b)
  BY SquashInOrder DEF IndexPath
<1>2. CASE Micros(rows) = {}
  <2>1. sq = rows /\ \A r \in rows : r.key
    BY <1>2 DEF Squash, Micros
  <2>. QED BY <1>1, <2>1 DEF IsTop
<1>3. CASE Micros(rows) # {}
  <2>. DEFINE m == LastMicro(rows)
              S(k) == IF k.uid = KeyUid(rows) THEN [k EXCEPT !.id = m.id] ELSE k
  <2>1. m \in Micros(rows) /\ m \in rows /\ ~m.key /\ \A n \in Micros(rows) : n.uid <= m.uid
    BY <1>3, LastMicroStored DEF Micros
  <2>2. sq = {S(k) : k \in Keys(rows)}
    BY <1>3 DEF Squash
  <2>3. PICK top \in Keys(rows) : top.uid = KeyUid(rows)
    <3>1. PICK k \in Keys(rows) : k.height = m.height
      BY <2>1, PathRows
    <3>2. KeyUid(rows) \in Uids(Keys(rows))
      BY <3>1, KeyUidIsGreatest
    <3>. QED BY <3>2 DEF Uids
  <2>4. \A k \in Keys(rows) : k \in rows /\ k.uid <= top.uid
    <3>1. \A k \in Keys(rows) : k.uid <= KeyUid(rows)
      BY <2>3, KeyUidIsGreatest
    <3>. QED BY <2>3, <3>1 DEF Keys
  <2>5. top.height = m.height
    <3>1. PICK k \in Keys(rows) : k.height = m.height
      BY <2>1, PathRows
    <3>2. k.uid <= top.uid /\ k \in rows /\ top \in rows
      BY <2>3, <2>4
    <3>3. k.uid < top.uid => k.height < top.height
      BY <1>1, <2>3 DEF InChainOrder
    <3>4. k.uid = top.uid => k = top
      BY <3>2, PathRows
    <3>5. top.height <= m.height
      BY <2>1, <3>2, PathRows
    <3>6. k.height \in Nat /\ top.height \in Nat /\ k.uid \in Nat /\ top.uid \in Nat /\ m.height \in Nat
      BY <2>1, <3>2, PathRows
    <3>. QED BY <3>1, <3>2, <3>3, <3>4, <3>5, <3>6
  <2>6. ASSUME NEW k \in Keys(rows)
        PROVE  /\ S(k).uid = k.uid /\ S(k).height = k.height /\ S(k).key
               /\ S(k).id = IF k = top THEN m.id ELSE k.id
    <3>1. k.uid = KeyUid(rows) <=> k = top
      BY <2>3, <2>4, PathRows
    <3>2. k \in BlockRows(BlockIds) /\ k.key
      BY DEF Keys
    <3>. QED BY <3>1, <3>2 DEF BlockRows
  <2>. HIDE DEF S, m, sq
  <2>7. ASSUME NEW b \in sq PROVE \E x \in rows : x.id = b.id /\ x.height = b.height
    <3>1. PICK k \in Keys(rows) : b = S(k)
      BY <2>2
    <3>. QED BY <2>1, <2>4, <2>5, <2>6, <3>1
  <2>8. \A b \in sq : Settled(c, t, b)
    BY <1>1, <2>7 DEF Settled
  <2>9. \A b, d \in sq : b.height < d.height => b.id.block < d.id.block
    <3>. TAKE b, d \in sq
    <3>1. PICK x \in rows, y \in rows :
            x.id = b.id /\ x.height = b.height /\ y.id = d.id /\ y.height = d.height
      BY <2>7
    <3>2. x.height < y.height => x.id.block < y.id.block
      BY DEF IndexPath
    <3>. QED BY <3>1, <3>2
  <2>10. Keys(sq) = sq
    BY <1>1 DEF Keys, Micros, sq
  <2>11. ASSUME NEW b \in sq, b.height # 1 PROVE \E d \in sq : d.height = b.height - 1
    <3>1. PICK k \in Keys(rows) : b = S(k)
      BY <2>2
    <3>2. PICK l \in Keys(rows) : l.height = k.height - 1
      BY <2>6, <2>11, <3>1 DEF IndexPath
    <3>3. S(l) \in sq
      BY <2>2
    <3>. QED BY <2>6, <3>1, <3>2, <3>3
  <2>12. ASSUME NEW b \in sq, NEW d \in sq, d.height = b.height + 1 PROVE t[d.id.block] = b.id
    <3>1. PICK k \in Keys(rows), l \in Keys(rows) : b = S(k) /\ d = S(l)
      BY <2>2
    <3>2. l.height = k.height + 1 /\ k \in rows /\ l \in rows
      BY <2>4, <2>6, <2>12, <3>1
    <3>3. k # top
      <4>1. l.height <= top.height /\ k.height \in Nat /\ l.height \in Nat /\ top.height \in Nat
        BY <2>1, <2>3, <2>4, <2>5, <3>2, PathRows
      <4>. QED BY <3>2, <4>1
    <3>4. b.id = k.id /\ t[l.id.block] = k.id
      BY <2>6, <3>1, <3>2, <3>3 DEF IndexPath
    <3>5. CASE l # top
      BY <2>6, <3>1, <3>4, <3>5
    <3>6. CASE l = top
      <4>1. d.id = m.id
        BY <2>6, <3>1, <3>6
      <4>2. Settled(c, t, m) /\ Settled(c, t, l) /\ Settled(c, t, k)
        BY <1>1, <2>1, <3>2
      <4>3. m.height = l.height /\ l.height # 1
        BY <2>5, <3>2, <3>6, <4>2 DEF Settled
      <4>4. t[m.id.block] = t[l.id.block]
        BY <4>2, <4>3 DEF Settled
      <4>. QED BY <3>4, <4>1, <4>4
    <3>. QED BY <3>5, <3>6
  <2>13. IndexPath(sq, c, t)
    <3>1. Micros(sq) = {} /\ InChainOrder(sq)
      BY <1>1 DEF sq
    <3>. QED BY <2>8, <2>9, <2>10, <2>11, <2>12, <3>1 DEF IndexPath
  <2>14. ASSUME NEW r, IsTop(rows, r)
         PROVE  \E q : IsTop(sq, q) /\ q.key /\ q.id = r.id /\ q.height = r.height
    <3>1. r = m
      <4>1. r \in rows /\ m.uid <= r.uid
        BY <2>1, <2>14 DEF IsTop
      <4>2. r \in Micros(rows)
        <5>1. r \notin Keys(rows)
          <6>. SUFFICES ASSUME r \in Keys(rows) PROVE FALSE
            OBVIOUS
          <6>1. r.uid < m.uid /\ r.uid \in Nat /\ m.uid \in Nat
            BY <2>1, <4>1, PathRows
          <6>. QED BY <4>1, <6>1
        <5>. QED BY <4>1, <5>1 DEF Keys, Micros
      <4>3. r.uid <= m.uid /\ r.uid \in Nat /\ m.uid \in Nat
        BY <2>1, <4>1, <4>2, PathRows
      <4>4. r.uid = m.uid
        BY <4>1, <4>3
      <4>. QED BY <2>1, <4>1, <4>4, PathRows
    <3>2. S(top) \in sq
      BY <2>2
    <3>3. \A b \in sq : b.uid <= S(top).uid
      BY <2>2, <2>4, <2>6
    <3>4. S(top).key /\ S(top).id = m.id /\ S(top).height = m.height
      BY <2>5, <2>6
    <3>. QED BY <3>1, <3>2, <3>3, <3>4 DEF IsTop
  <2>. QED BY <1>1, <2>7, <2>13, <2>14 DEF sq
<1>. QED BY <1>2, <1>3

(* Key rows on top of a path without microblocks, each on the one below.   *)
LEMMA KeysOnTop ==
  ASSUME NEW rows \in SUBSET BlockRows(BlockIds), NEW c, NEW t, IndexPath(rows, c, t),
         Micros(rows) = {}, \A b \in rows : b.id.block \in Nat,
         NEW new \in SUBSET BlockRows(BlockIds),
         \A a \in new : a.key /\ Settled(c, t, a),
         \A a \in new, b \in rows :
           b.uid < a.uid /\ b.height < a.height /\ b.id.block < a.id.block,
         \A a, b \in new : a.uid < b.uid => a.height < b.height /\ a.id.block < b.id.block,
         \A a, b \in new : a.uid = b.uid => a = b,
         \A a \in new : a.height = 1 \/ \E b \in rows \cup new : b.height = a.height - 1
                                                         /\ b.id = t[a.id.block]
  PROVE  /\ IndexPath(rows \cup new, c, t) /\ Micros(rows \cup new) = {}
<1>. DEFINE all == rows \cup new
<1>1. /\ \A a \in all : a.uid \in Nat /\ a.height \in Nat /\ a.id \in BlockIds /\ a.id.block \in Nat
      /\ \A a \in all : a.key
      /\ \A a \in all : Settled(c, t, a)
  BY DEF BlockRows, BlockIds, IndexPath, Micros
<1>2. Keys(all) = all /\ Micros(all) = {} /\ Keys(rows) = rows
  BY <1>1 DEF Keys, Micros
<1>3. /\ \A a, b \in rows : a.uid = b.uid \/ a.id = b.id => a = b
      /\ \A a, b \in rows : a.uid < b.uid => a.height < b.height
  BY <1>2 DEF IndexPath, InChainOrder
<1>4. ASSUME NEW a \in all, NEW b \in all, a.uid = b.uid \/ a.id = b.id PROVE a = b
  <2>1. CASE a \in rows /\ b \in rows
    BY <1>3, <1>4, <2>1
  <2>2. CASE a \in rows /\ b \in new
    BY <1>1, <1>4, <2>2
  <2>3. CASE a \in new /\ b \in rows
    BY <1>1, <1>4, <2>3
  <2>4. CASE a \in new /\ b \in new
    <3>1. ~(a.uid < b.uid) /\ ~(b.uid < a.uid)
      <4>1. a.uid < b.uid => a.id.block < b.id.block
        BY <2>4
      <4>2. b.uid < a.uid => b.id.block < a.id.block
        BY <2>4
      <4>. QED BY <1>1, <1>4, <4>1, <4>2
    <3>2. a.uid = b.uid
      BY <1>1, <3>1
    <3>. QED BY <2>4, <3>2
  <2>. QED BY <2>1, <2>2, <2>3, <2>4
<1>5. ASSUME NEW a \in all, NEW b \in all, a.uid < b.uid PROVE a.height < b.height
  <2>1. CASE a \in rows /\ b \in rows
    BY <1>3, <1>5, <2>1
  <2>2. CASE b \in new
    BY <1>5, <2>2
  <2>3. CASE a \in new /\ b \in rows
    <3>1. b.uid < a.uid
      BY <2>3
    <3>. QED BY <1>1, <1>5, <3>1
  <2>. QED BY <2>1, <2>2, <2>3
<1>6. ASSUME NEW a \in all, NEW b \in all, a.height < b.height PROVE a.id.block < b.id.block
  <2>1. CASE a \in rows /\ b \in rows
    BY <1>6, <2>1 DEF IndexPath
  <2>2. CASE a \in rows /\ b \in new
    BY <2>2
  <2>3. CASE a \in new /\ b \in rows
    <3>1. b.height < a.height
      BY <2>3
    <3>. QED BY <1>1, <1>6, <3>1
  <2>4. CASE a \in new /\ b \in new
    <3>1. ~(b.uid < a.uid)
      <4>1. b.uid < a.uid => b.height < a.height
        BY <2>4
      <4>. QED BY <1>1, <1>6, <4>1
    <3>2. a.uid # b.uid
      <4>1. a.uid = b.uid => a = b
        BY <2>4
      <4>. QED BY <1>1, <1>6, <4>1
    <3>3. a.uid < b.uid
      BY <1>1, <3>1, <3>2
    <3>. QED BY <2>4, <3>3
  <2>. QED BY <2>1, <2>2, <2>3, <2>4
<1>7. InChainOrder(all)
  BY <1>2, <1>4, <1>5 DEF InChainOrder
<1>8. ASSUME NEW a \in all, a.height # 1 PROVE \E b \in all : b.height = a.height - 1
  BY <1>2, <1>8 DEF IndexPath
<1>9. ASSUME NEW a \in all, NEW b \in all, b.height = a.height + 1 PROVE t[b.id.block] = a.id
  <2>1. CASE b \in rows
    <3>1. a \in rows
      <4>1. a \in new => b.height < a.height
        BY <2>1
      <4>. QED BY <1>1, <1>9, <4>1
    <3>. QED BY <1>2, <1>9, <2>1, <3>1 DEF IndexPath
  <2>2. CASE b \in new
    <3>1. a.height >= 1 /\ b.height # 1
      BY <1>1, <1>9 DEF Settled
    <3>2. PICK d \in all : d.height = b.height - 1 /\ d.id = t[b.id.block]
      BY <2>2, <3>1
    <3>3. d.height = a.height
      BY <1>1, <1>9, <3>2
    <3>4. a = d
      <4>1. ~(a.uid < d.uid) /\ ~(d.uid < a.uid)
        BY <1>1, <1>5, <3>3
      <4>. QED BY <1>1, <1>4, <4>1
    <3>. QED BY <3>2, <3>4
  <2>. QED BY <2>1, <2>2
<1>. HIDE DEF all
<1>10. IndexPath(all, c, t)
  BY <1>1, <1>2, <1>6, <1>7, <1>8, <1>9 DEF IndexPath
<1>. QED BY <1>2, <1>10 DEF all

(* A row stands for an update of a batch. *)
Stands(r, u) == r.id = u.id /\ r.height = u.height

(* The newest row and what the last update of a batch says of it. *)
TopStands(rows, u) ==
  \E q : /\ IsTop(rows, q) /\ Stands(q, u)
         /\ u.kind = "block" => q.key
         /\ u.kind = "micro" => ~q.key

(* Key blocks are stored above the rows that were there, and nothing else. *)
BlocksStored(before, after, s, n) ==
  /\ before \subseteq after /\ Micros(after) = {}
  /\ \A i \in 1..n : \E b \in after : Stands(b, s[i])
  /\ \A b \in after : b \in before \/ \E i \in 1..n : Stands(b, s[i])
  /\ \A i, j \in 1..n : i < j => s[i].height < s[j].height
  /\ \A b \in before, i \in 1..n : b.height <= s[i].height

(* The ids of a path are told apart by their blocks. *)
LEMMA BlocksOnTop ==
  ASSUME NEW rows \in SUBSET BlockRows(BlockIds), NEW seq \in Nat, \A b \in rows : b.uid < seq,
         NEW c, NEW t, NodePath(c, t), IndexPath(rows, c, t), Micros(rows) = {},
         NEW s \in Seq(StreamUpdates), NEW n \in 1..Len(s), IsBatch(s),
         \A i \in 1..n : s[i].kind = "block" /\ Settled(c, t, s[i]),
         \A i \in 2..n : Joins(t, s[i - 1], s[i]),
         \/ s[1].height = 1 /\ \A b \in rows : b.height = 1
         \/ \E r : /\ IsTop(rows, r) /\ s[1].height = r.height + 1
                   /\ t[s[1].id.block] = r.id,
         NEW bs, Batch(bs, BlockIds), Len(bs) = n,
         \A i \in 1..n : bs[i] = BlockMicroblock(s[i])
  PROVE  LET all == Upsert(rows, bs, seq)
         IN  /\ IndexPath(all, c, t) /\ TopStands(all, s[n])
             /\ BlocksStored(rows, all, s, n)
<1>. DEFINE fresh == {i \in 1..n : IsNew(rows, bs, i)}
            new   == {Appended(bs, seq, i) : i \in fresh}
            all   == rows \cup new
<1>1. /\ Batch(bs, BlockIds) /\ Len(bs) = n /\ DOMAIN bs = 1..n /\ n \in Nat /\ n >= 1
      /\ Len(s) \in Nat
  BY DEF Batch
<1>2. \A i \in 1..n : /\ bs[i].id = s[i].id /\ bs[i].height = s[i].height /\ bs[i].key
  <2>. TAKE i \in 1..n
  <2>1. bs[i] = BlockMicroblock(s[i]) /\ s[i].kind = "block"
    OBVIOUS
  <2>2. bs[i].id = s[i].id /\ bs[i].height = s[i].height
    BY <2>1 DEF BlockMicroblock
  <2>3. bs[i].key = (s[i].kind = "block")
    BY <2>1 DEF BlockMicroblock
  <2>. QED BY <2>1, <2>2, <2>3
<1>3. Upsert(rows, bs, seq) = all
  BY <1>1 DEF Upsert, Appended
<1>4. \A i \in 1..n : /\ s[i].id \in BlockIds /\ s[i].id.block \in Nat /\ s[i].height \in Nat
                      /\ s[i].id.block \in 1..Len(t)
  <2>. TAKE i \in 1..n
  <2>1. s[i] \in StreamUpdates
    <3>1. i \in 1..Len(s)
      BY <1>1
    <3>. QED BY <3>1, ElementOfSeq
  <2>. QED BY <2>1 DEF StreamUpdates, BlockIds, Settled
<1>5. \A i \in 1..n : /\ Appended(bs, seq, i) \in BlockRows(BlockIds)
                      /\ Appended(bs, seq, i).uid = seq + i - 1
                      /\ Appended(bs, seq, i).id = s[i].id
                      /\ Appended(bs, seq, i).height = s[i].height
                      /\ Appended(bs, seq, i).key
  <2>1. ASSUME NEW i \in DOMAIN bs
        PROVE  /\ Appended(bs, seq, i) \in BlockRows(BlockIds)
               /\ Appended(bs, seq, i).uid = seq + i - 1
               /\ Appended(bs, seq, i).id = bs[i].id
               /\ Appended(bs, seq, i).height = bs[i].height
               /\ Appended(bs, seq, i).key = bs[i].key
    <3>1. Appended(bs, seq, i) \in BlockRows(BlockIds)
      BY AppendedFields
    <3>2. Appended(bs, seq, i).uid = seq + i - 1
      BY DEF Appended
    <3>3. Appended(bs, seq, i).id = bs[i].id
      BY DEF Appended
    <3>4. Appended(bs, seq, i).height = bs[i].height
      BY DEF Appended
    <3>5. Appended(bs, seq, i).key = bs[i].key
      BY DEF Appended
    <3>. QED BY <3>1, <3>2, <3>3, <3>4, <3>5
  <2>. QED BY <1>1, <1>2, <2>1
<1>6. \A i, j \in 1..n : i < j => s[i].height < s[j].height /\ s[i].id.block < s[j].id.block
  <2>. SUFFICES ASSUME NEW i \in 1..n, NEW j \in 1..n, i < j
                PROVE  s[i].height < s[j].height /\ s[i].id.block < s[j].id.block
    OBVIOUS
  <2>1. i \in 1..Len(s) /\ j \in 1..Len(s)
    BY <1>1
  <2>2. s[j].height = s[i].height + (j - i) /\ s[i].id.block < s[j].id.block
    BY <2>1 DEF IsBatch
  <2>. QED BY <1>4, <2>2
<1>7. \A b \in rows : /\ b.uid \in Nat /\ b.height \in Nat /\ b.id \in BlockIds /\ b.id.block \in Nat
                      /\ b.key /\ Settled(c, t, b)
  BY DEF BlockRows, BlockIds, Micros, IndexPath
<1>8. 1 \in 1..n
  BY <1>1
(* Every row lies below the first block, or is the first block. *)
<1>9. \/ \A b \in rows : b.height < s[1].height /\ b.id.block < s[1].id.block
      \/ \E b \in rows : rows = {b} /\ Stands(b, s[1]) /\ s[1].height = 1
  <2>1. CASE s[1].height = 1 /\ \A b \in rows : b.height = 1
    <3>1. CASE rows = {}
      BY <3>1
    <3>2. CASE rows # {}
      <4>1. PICK b \in rows : TRUE
        BY <3>2
      <4>2. \A a \in rows : a = b
        <5>1. \A a \in rows : a \in Keys(rows) /\ a.height = b.height
          BY <1>7, <2>1, <4>1 DEF Keys
        <5>. QED BY <4>1, <5>1, PathRows
      <4>3. b.id = Root /\ s[1].id = Root
        BY <1>7, <1>8, <2>1 DEF Settled
      <4>. QED BY <2>1, <4>1, <4>2, <4>3 DEF Stands
    <3>. QED BY <3>1, <3>2
  <2>2. ASSUME NEW r, IsTop(rows, r), s[1].height = r.height + 1, t[s[1].id.block] = r.id
        PROVE  \A b \in rows : b.height < s[1].height /\ b.id.block < s[1].id.block
    <3>. TAKE b \in rows
    <3>1. r \in rows /\ b.height <= r.height
      BY <2>2, TopRows DEF IsTop
    <3>2. r.id.block < s[1].id.block
      BY <1>4, <1>8, <2>2 DEF NodePath
    <3>3. b.height < r.height => b.id.block < r.id.block
      BY <3>1 DEF IndexPath
    <3>4. b.height = r.height => b = r
      BY <1>7, <3>1, PathRows DEF Keys
    <3>5. b.height < s[1].height
      BY <1>7, <2>2, <3>1
    <3>6. b.id.block < s[1].id.block
      <4>1. CASE b.height < r.height
        BY <1>4, <1>7, <1>8, <3>1, <3>2, <3>3, <4>1
      <4>2. CASE b.height = r.height
        BY <3>2, <3>4, <4>2
      <4>. QED BY <1>7, <3>1, <4>1, <4>2
    <3>. QED BY <3>5, <3>6
  <2>. QED BY <2>1, <2>2
<1>. HIDE DEF new, fresh
<1>10. \A i \in fresh, b \in rows :
         /\ i \in 1..n /\ b.height < s[i].height /\ b.id.block < s[i].id.block
  <2>. SUFFICES ASSUME NEW i \in fresh, NEW b \in rows
                PROVE  i \in 1..n /\ b.height < s[i].height /\ b.id.block < s[i].id.block
    OBVIOUS
  <2>1. i \in 1..n /\ s[i].id # b.id
    BY <1>2 DEF fresh, IsNew, StoredIds
  <2>2. i # 1 => s[1].height < s[i].height /\ s[1].id.block < s[i].id.block
    BY <1>1, <1>6, <1>8, <2>1, SMTT(30)
  <2>3. CASE \A d \in rows : d.height < s[1].height /\ d.id.block < s[1].id.block
    <3>1. b.height < s[1].height /\ b.id.block < s[1].id.block
      BY <2>3
    <3>2. /\ b.height \in Nat /\ b.id.block \in Nat
          /\ s[1].height \in Nat /\ s[1].id.block \in Nat
          /\ s[i].height \in Nat /\ s[i].id.block \in Nat
      BY <1>4, <1>7, <1>8, <2>1
    <3>3. CASE i = 1
      BY <2>1, <3>1, <3>3
    <3>4. CASE i # 1
      <4>1. b.height < s[i].height
        BY <2>2, <3>1, <3>2, <3>4
      <4>2. b.id.block < s[i].id.block
        BY <2>2, <3>1, <3>2, <3>4
      <4>. QED BY <2>1, <4>1, <4>2
    <3>. QED BY <3>3, <3>4
  <2>4. CASE \E d \in rows : rows = {d} /\ Stands(d, s[1]) /\ s[1].height = 1
    <3>1. b.id = s[1].id /\ b.height = s[1].height
      BY <2>4 DEF Stands
    <3>2. i # 1
      BY <2>1, <3>1
    <3>. QED BY <2>1, <2>2, <3>1, <3>2
  <2>. QED BY <1>9, <2>3, <2>4
<1>11. \A i \in 1..n : \E b \in all : Stands(b, s[i]) /\ (i \in fresh => b = Appended(bs, seq, i))
                                      /\ (i \notin fresh => rows = {b} /\ i = 1)
  <2>. SUFFICES ASSUME NEW i \in 1..n
                PROVE  \E b \in all : Stands(b, s[i]) /\ (i \in fresh => b = Appended(bs, seq, i))
                                      /\ (i \notin fresh => rows = {b} /\ i = 1)
    OBVIOUS
  <2>1. CASE i \in fresh
    <3>1. Appended(bs, seq, i) \in all
      BY <2>1 DEF new
    <3>. QED BY <1>5, <2>1, <3>1 DEF Stands
  <2>2. CASE i \notin fresh
    <3>1. ~IsNew(rows, bs, i)
      BY <2>2 DEF fresh
    <3>2. \A j \in 1..n : j < i => bs[j].id # bs[i].id
      <4>. SUFFICES ASSUME NEW j \in 1..n, j < i PROVE bs[j].id # bs[i].id
        OBVIOUS
      <4>1. s[j].id.block < s[i].id.block
        BY <1>6
      <4>. QED BY <1>2, <1>4, <4>1
    <3>3. PICK b \in rows : b.id = s[i].id
      BY <1>1, <1>2, <3>1, <3>2 DEF IsNew, StoredIds
    <3>4. i # 1 => s[1].height < s[i].height /\ s[1].id.block < s[i].id.block
      BY <1>1, <1>6, <1>8
    <3>5. CASE \A d \in rows : d.height < s[1].height /\ d.id.block < s[1].id.block
      BY <1>4, <1>7, <1>8, <3>3, <3>4, <3>5
    <3>6. CASE \E d \in rows : rows = {d} /\ Stands(d, s[1]) /\ s[1].height = 1
      <4>1. rows = {b} /\ b.id = s[1].id /\ b.height = s[1].height
        BY <3>3, <3>6 DEF Stands
      <4>2. i = 1
        BY <1>4, <1>8, <3>3, <3>4, <4>1
      <4>. QED BY <2>2, <4>1, <4>2 DEF Stands
    <3>. QED BY <1>9, <3>5, <3>6
  <2>. QED BY <2>1, <2>2
<1>12. /\ new \in SUBSET BlockRows(BlockIds)
       /\ \A a \in new : \E i \in fresh : a = Appended(bs, seq, i) /\ i \in 1..n
  BY <1>5 DEF new, fresh
<1>13. \A a \in new : a.key /\ Settled(c, t, a)
  <2>. TAKE a \in new
  <2>1. PICK i \in fresh : a = Appended(bs, seq, i) /\ i \in 1..n
    BY <1>12
  <2>. QED BY <1>5, <2>1 DEF Settled
<1>14. \A a \in new, b \in rows : b.uid < a.uid /\ b.height < a.height /\ b.id.block < a.id.block
  <2>. TAKE a \in new, b \in rows
  <2>1. PICK i \in fresh : a = Appended(bs, seq, i) /\ i \in 1..n
    BY <1>12
  <2>2. b.uid < a.uid
    BY <1>5, <1>7, <2>1
  <2>3. b.height < a.height /\ b.id.block < a.id.block
    BY <1>5, <1>10, <2>1
  <2>. QED BY <2>2, <2>3
<1>15. \A a, b \in new : /\ a.uid < b.uid => a.height < b.height /\ a.id.block < b.id.block
                         /\ a.uid = b.uid => a = b
  <2>. TAKE a, b \in new
  <2>1. PICK i \in fresh : a = Appended(bs, seq, i) /\ i \in 1..n
    BY <1>12
  <2>2. PICK j \in fresh : b = Appended(bs, seq, j) /\ j \in 1..n
    BY <1>12
  <2>3. /\ a.uid = seq + i - 1 /\ b.uid = seq + j - 1
        /\ a.height = s[i].height /\ b.height = s[j].height /\ a.id = s[i].id /\ b.id = s[j].id
    BY <1>5, <2>1, <2>2
  <2>4. (a.uid < b.uid => i < j) /\ (a.uid = b.uid => i = j)
    BY <2>1, <2>2, <2>3
  <2>. QED BY <1>6, <2>1, <2>2, <2>3, <2>4
<1>16. \A a \in new : a.height = 1 \/ \E b \in all : b.height = a.height - 1 /\ b.id = t[a.id.block]
  <2>. SUFFICES ASSUME NEW a \in new, a.height # 1
                PROVE  \E b \in all : b.height = a.height - 1 /\ b.id = t[a.id.block]
    OBVIOUS
  <2>1. PICK i \in fresh : a = Appended(bs, seq, i) /\ i \in 1..n
    BY <1>12
  <2>2. a.height = s[i].height /\ a.id = s[i].id
    BY <1>5, <2>1
  <2>3. CASE i = 1
    <3>1. PICK r : IsTop(rows, r) /\ s[1].height = r.height + 1 /\ t[s[1].id.block] = r.id
      BY <2>2, <2>3
    <3>2. r \in all /\ r.height \in Nat
      BY <1>7, <3>1 DEF IsTop
    <3>. QED BY <2>2, <2>3, <3>1, <3>2
  <2>4. CASE i # 1
    <3>1. i \in 2..n /\ i - 1 \in 1..n
      BY <2>1, <2>4
    <3>2. PICK b \in all : Stands(b, s[i - 1])
      BY <1>11, <3>1
    <3>3. s[i].height = s[i - 1].height + 1 /\ t[s[i].id.block] = s[i - 1].id
      BY <2>1, <3>1 DEF Joins
    <3>4. b.height = a.height - 1 /\ b.id = t[a.id.block]
      BY <1>4, <2>2, <3>1, <3>2, <3>3 DEF Stands
    <3>. QED BY <3>4
  <2>. QED BY <2>3, <2>4
<1>17. IndexPath(all, c, t) /\ Micros(all) = {}
  <2>1. \A b \in rows : b.id.block \in Nat
    BY <1>7
  <2>2. \A a, b \in new : a.uid < b.uid => a.height < b.height /\ a.id.block < b.id.block
    BY <1>15
  <2>3. \A a, b \in new : a.uid = b.uid => a = b
    BY <1>15
  <2>4. new \in SUBSET BlockRows(BlockIds)
    BY <1>12
  <2>. QED BY <1>13, <1>14, <1>16, <2>1, <2>2, <2>3, <2>4, KeysOnTop
<1>18. TopStands(all, s[n])
  <2>1. n \in 1..n
    BY <1>1
  <2>2. PICK q \in all : /\ Stands(q, s[n]) /\ (n \in fresh => q = Appended(bs, seq, n))
                         /\ (n \notin fresh => rows = {q} /\ n = 1)
    BY <1>11, <2>1
  <2>3. q.key
    <3>1. q \in Keys(all)
      BY <1>17 DEF Keys, Micros
    <3>. QED BY <3>1 DEF Keys
  <2>4. \A b \in all : b.uid <= q.uid
    <3>1. CASE n \in fresh
      <4>1. q.uid = seq + n - 1
        BY <1>5, <2>1, <2>2, <3>1
      <4>2. \A b \in rows : b.uid <= q.uid
        BY <1>1, <1>7, <4>1
      <4>3. ASSUME NEW b \in new PROVE b.uid <= q.uid
        <5>1. PICK i \in fresh : b = Appended(bs, seq, i) /\ i \in 1..n
          BY <1>12
        <5>2. b.uid = seq + i - 1
          BY <1>5, <5>1
        <5>. QED BY <1>1, <4>1, <5>1, <5>2
      <4>. QED BY <4>2, <4>3
    <3>2. CASE n \notin fresh
      <4>1. rows = {q} /\ n = 1
        BY <2>2, <3>2
      <4>2. new = {}
        <5>. SUFFICES ASSUME NEW a \in new PROVE FALSE
          OBVIOUS
        <5>1. PICK i \in fresh : i \in 1..n
          BY <1>12
        <5>2. i = 1
          BY <4>1, <5>1
        <5>. QED BY <3>2, <4>1, <5>2
      <4>3. all = {q}
        BY <4>1, <4>2
      <4>4. q.uid \in Nat
        BY <1>7, <4>1
      <4>. QED BY <4>3, <4>4
    <3>. QED BY <3>1, <3>2
  <2>5. s[n].kind = "block"
    BY <2>1
  <2>. QED BY <2>2, <2>3, <2>4, <2>5 DEF TopStands, IsTop
<1>19. BlocksStored(rows, all, s, n)
  <2>1. \A i \in 1..n : \E b \in all : Stands(b, s[i])
    BY <1>11
  <2>2. \A b \in all : b \in rows \/ \E i \in 1..n : Stands(b, s[i])
    <3>. SUFFICES ASSUME NEW b \in new PROVE \E i \in 1..n : Stands(b, s[i])
      OBVIOUS
    <3>1. PICK i \in fresh : b = Appended(bs, seq, i) /\ i \in 1..n
      BY <1>12
    <3>. QED BY <1>5, <3>1 DEF Stands
  <2>3. ASSUME NEW b \in rows, NEW i \in 1..n PROVE b.height <= s[i].height
    <3>1. b.height <= s[1].height
      BY <1>4, <1>7, <1>8, <1>9 DEF Stands
    <3>2. i = 1 \/ s[1].height < s[i].height
      BY <1>6, <1>8
    <3>3. b.height \in Nat /\ s[1].height \in Nat /\ s[i].height \in Nat
      BY <1>4, <1>7, <1>8
    <3>. QED BY <3>1, <3>2, <3>3
  <2>4. \A i, j \in 1..n : i < j => s[i].height < s[j].height
    BY <1>6
  <2>. QED BY <1>17, <2>1, <2>2, <2>3, <2>4 DEF BlocksStored
<1>. QED BY <1>3, <1>17, <1>18, <1>19

(* A microblock on top of the last block. *)
LEMMA MicroOnTop ==
  ASSUME NEW rows \in SUBSET BlockRows(BlockIds), NEW seq \in Nat, \A b \in rows : b.uid < seq,
         NEW c, NEW t, IndexPath(rows, c, t),
         NEW u \in StreamUpdates, u.kind = "micro", Settled(c, t, u),
         NEW r, IsTop(rows, r), Joins(t, AsUpdate(r), u)
  PROVE  LET all == HandleLast(rows, u, seq)
         IN  IndexPath(all, c, t) /\ TopStands(all, u)
<1>. DEFINE bs  == <<BlockMicroblock(u)>>
            a   == Appended(bs, seq, 1)
            all == rows \cup {a}
<1>1. Batch(bs, BlockIds) /\ Len(bs) = 1 /\ bs[1] = BlockMicroblock(u)
  BY AppendIsBatch
<1>2. bs[1].id = u.id /\ bs[1].height = u.height /\ ~bs[1].key
  BY <1>1 DEF BlockMicroblock
<1>3. DOMAIN bs = {1} /\ 1 \in DOMAIN bs
  BY <1>1 DEF Batch
<1>4. HandleLast(rows, u, seq) = Upsert(rows, bs, seq)
  BY DEF HandleLast
<1>. HIDE DEF bs
<1>5. a.uid = seq /\ a.id = bs[1].id /\ a.height = bs[1].height /\ a.key = bs[1].key
  BY DEF Appended
<1>6. a.uid = seq /\ a.id = u.id /\ a.height = u.height /\ ~a.key
  BY <1>2, <1>5
<1>7. /\ r \in rows /\ r.id \in BlockIds /\ r.id.block \in Nat /\ r.id.micros \in Nat
      /\ r.key \in BOOLEAN
      /\ u.id \in BlockIds /\ u.id.block = r.id.block /\ u.id.micros = r.id.micros + 1
      /\ u.height = r.height /\ u.height \in Nat
      /\ r.key => r.id.micros = 0
  <2>1. r \in rows /\ r.id \in BlockIds /\ r.key \in BOOLEAN
    BY PathRows DEF IsTop
  <2>2. u.id \in BlockIds /\ u.height \in Nat
    BY DEF StreamUpdates
  <2>3. /\ u.id.block = r.id.block /\ u.id.micros = r.id.micros + 1 /\ u.height = r.height
        /\ r.key => r.id.micros = 0
    BY AsUpdateIs DEF Joins
  <2>. QED BY <2>1, <2>2, <2>3 DEF BlockIds
<1>8. \A b \in rows : /\ b.uid \in Nat /\ b.height \in Nat /\ b.id \in BlockIds /\ b.id.block \in Nat
                      /\ b.id.micros \in Nat /\ b.height <= r.height /\ b.uid <= r.uid
                      /\ b.height < r.height => b.id.block < r.id.block
                      /\ Settled(c, t, b)
  <2>1. \A b \in rows : b.height <= r.height
    BY TopRows
  <2>. QED BY <1>7, <2>1 DEF IsTop, IndexPath, BlockRows, BlockIds
<1>9. \A m \in Micros(rows) : ~r.key /\ m \in rows /\ m.id.micros <= r.id.micros /\ m.id.micros >= 1
  <2>. TAKE m \in Micros(rows)
  <2>1. ~r.key /\ m \in rows
    BY TopRows DEF Micros
  <2>2. r \in Micros(rows)
    BY <1>7, <2>1 DEF Micros
  <2>3. m.uid = r.uid => m = r
    BY <1>7, <2>1, PathRows
  <2>4. m.uid < r.uid => m.id.micros < r.id.micros
    BY <2>2 DEF IndexPath
  <2>5. m.id.micros >= 1
    BY DEF IndexPath
  <2>. QED BY <1>7, <1>8, <2>1, <2>3, <2>4, <2>5
<1>10. \A k \in Keys(rows) : k.height = r.height => k.id.micros = 0
  <2>. SUFFICES ASSUME NEW k \in Keys(rows), k.height = r.height PROVE k.id.micros = 0
    OBVIOUS
  <2>1. CASE r.key
    <3>1. r \in Keys(rows)
      BY <1>7, <2>1 DEF Keys
    <3>. QED BY <1>7, <2>1, <3>1, PathRows
  <2>2. CASE ~r.key
    <3>1. r \in Micros(rows)
      BY <1>7, <2>2 DEF Micros
    <3>2. r.id.micros >= 1 /\ 0 \in 0..(r.id.micros - 1)
      BY <1>7, <1>9, <3>1
    <3>3. PICK q \in rows : /\ q.id.block = r.id.block /\ q.id.micros = 0
                            /\ q.height = r.height /\ q.uid < r.uid
      BY <3>1, <3>2 DEF IndexPath
    <3>4. q \in Keys(rows)
      <4>1. q \in Micros(rows) => q.id.micros >= 1
        BY DEF IndexPath
      <4>. QED BY <3>3, <4>1 DEF Keys, Micros
    <3>. QED BY <3>3, <3>4, PathRows
  <2>. QED BY <1>7, <2>1, <2>2
<1>11. \A b \in rows : b.id # u.id
  <2>. TAKE b \in rows
  <2>1. CASE b.height < r.height
    BY <1>7, <1>8, <2>1
  <2>2. CASE b.height = r.height /\ b.key
    <3>1. b.id.micros = 0
      BY <1>10, <2>2 DEF Keys
    <3>. QED BY <1>7, <3>1
  <2>3. CASE ~b.key
    <3>1. b.id.micros <= r.id.micros
      BY <1>9, <2>3 DEF Micros
    <3>. QED BY <1>7, <1>8, <3>1
  <2>. QED BY <1>7, <1>8, <2>1, <2>2, <2>3
<1>12. NewIds(rows, bs)
  BY <1>2, <1>3, <1>11 DEF NewIds, StoredIds
<1>13. HandleLast(rows, u, seq) = all
  <2>1. Upsert(rows, bs, seq) = rows \cup {Appended(bs, seq, i) : i \in DOMAIN bs}
    BY <1>1, <1>12, UpsertRows
  <2>. QED BY <1>3, <1>4, <2>1
<1>14. InChainOrder(all)
  <2>1. \A b \in rows : b.uid < seq /\ b.height <= bs[1].height
    BY <1>2, <1>7, <1>8
  <2>2. \E b \in rows : b.height = bs[1].height
    BY <1>2, <1>7
  <2>3. InChainOrder(rows)
    BY DEF IndexPath
  <2>4. InChainOrder(Upsert(rows, bs, seq))
    BY <1>1, <1>2, <1>12, <2>1, <2>2, <2>3, UpsertMicroInOrder
  <2>. QED BY <1>4, <1>13, <2>4
<1>. HIDE DEF a, all
<1>15. /\ Keys(all) = Keys(rows) /\ Micros(all) = Micros(rows) \cup {a} /\ rows \subseteq all
       /\ \A b \in all : b \in rows \/ b = a
       /\ a \in all
  BY <1>6 DEF all, Keys, Micros
<1>16. \A b \in all : Settled(c, t, b)
  <2>1. Settled(c, t, a)
    BY <1>6 DEF Settled
  <2>. QED BY <1>8, <1>15, <2>1
<1>17. \A b, d \in all : b.height < d.height => b.id.block < d.id.block
  <2>. SUFFICES ASSUME NEW b \in all, NEW d \in all, b.height < d.height
                PROVE  b.id.block < d.id.block
    OBVIOUS
  <2>1. CASE b \in rows /\ d \in rows
    BY <2>1 DEF IndexPath
  <2>2. CASE b \in rows /\ d = a
    BY <1>6, <1>7, <1>8, <2>2
  <2>3. CASE b = a
    BY <1>6, <1>7, <1>8, <1>15, <2>3
  <2>. QED BY <1>15, <2>1, <2>2, <2>3
<1>18. ASSUME NEW m \in Micros(all)
       PROVE  /\ m.id.micros >= 1
              /\ \A j \in 0..(m.id.micros - 1) :
                   \E q \in all : /\ q.id.block = m.id.block /\ q.id.micros = j
                                  /\ q.height = m.height /\ q.uid < m.uid
  <2>1. CASE m \in Micros(rows)
    BY <1>15, <2>1 DEF IndexPath
  <2>2. CASE m = a
    <3>1. m.id.micros >= 1
      BY <1>6, <1>7, <2>2
    <3>2. ASSUME NEW j \in 0..(m.id.micros - 1)
          PROVE  \E q \in rows : /\ q.id.block = m.id.block /\ q.id.micros = j
                                 /\ q.height = m.height /\ q.uid < m.uid
      <4>1. CASE j = r.id.micros
        BY <1>6, <1>7, <2>2, <4>1
      <4>2. CASE j # r.id.micros
        <5>1. j \in 0..(r.id.micros - 1) /\ r.id.micros # 0
          BY <1>6, <1>7, <2>2, <4>2
        <5>2. r \in Micros(rows)
          BY <1>7, <5>1 DEF Micros
        <5>3. PICK q \in rows : /\ q.id.block = r.id.block /\ q.id.micros = j
                                /\ q.height = r.height /\ q.uid < r.uid
          BY <5>1, <5>2 DEF IndexPath
        <5>. QED BY <1>6, <1>7, <2>2, <5>3
      <4>. QED BY <4>1, <4>2
    <3>. QED BY <1>15, <3>1, <3>2
  <2>. QED BY <1>15, <2>1, <2>2
<1>19. \A m, n \in Micros(all) : m.uid < n.uid => m.id.micros < n.id.micros
  <2>. SUFFICES ASSUME NEW m \in Micros(all), NEW n \in Micros(all), m.uid < n.uid
                PROVE  m.id.micros < n.id.micros
    OBVIOUS
  <2>1. CASE m \in Micros(rows) /\ n \in Micros(rows)
    BY <2>1 DEF IndexPath
  <2>2. CASE m \in Micros(rows) /\ n = a
    BY <1>6, <1>7, <1>8, <1>9, <2>2
  <2>3. CASE m = a
    <3>1. n = a \/ n \in rows
      BY <1>15 DEF Micros
    <3>2. n \in rows => n.uid < seq /\ n.uid \in Nat
      BY <1>8
    <3>. QED BY <1>6, <2>3, <3>1, <3>2
  <2>. QED BY <1>15, <2>1, <2>2, <2>3
<1>20. IndexPath(all, c, t)
  <2>1. \A b \in Keys(all) : b.height = 1 \/ \E d \in Keys(all) : d.height = b.height - 1
    BY <1>15 DEF IndexPath
  <2>2. \A b, d \in Keys(all) : d.height = b.height + 1 => t[d.id.block] = b.id
    BY <1>15 DEF IndexPath
  <2>. QED BY <1>14, <1>16, <1>17, <1>18, <1>19, <2>1, <2>2 DEF IndexPath
<1>21. IsTop(all, a)
  BY <1>6, <1>8, <1>15 DEF IsTop
<1>22. TopStands(all, u)
  BY <1>6, <1>21 DEF TopStands, Stands
<1>. QED BY <1>13, <1>20, <1>22

(* What a rollback names is stored, and all of it is a block of the path.  *)
LEMMA RollbackIsKnown ==
  ASSUME NEW rows \in SUBSET BlockRows(BlockIds), NEW c, NEW t, IndexPath(rows, c, t),
         NEW u \in StreamUpdates, u.kind = "rollback", Settled(c, t, u), NEW seq,
         NEW r, IsTop(rows, r), Joins(t, AsUpdate(r), u)
  PROVE  LET all == HandleLast(rows, u, seq)
         IN  Known(rows, u) /\ IndexPath(all, c, t) /\ TopStands(all, u)
<1>1. /\ r \in rows /\ r.id \in BlockIds /\ r.id.block \in Nat /\ r.id.micros \in Nat
      /\ r.height \in Nat /\ r.key \in BOOLEAN /\ Settled(c, t, r)
  BY DEF IsTop, IndexPath, BlockRows, BlockIds
<1>2. /\ u.id \in BlockIds /\ u.id.block \in Nat /\ u.id.micros \in Nat /\ u.height \in Nat
  BY DEF StreamUpdates, BlockIds
<1>3. \/ ~r.key /\ u.height = r.height /\ u.id.block = r.id.block /\ u.id.micros < r.id.micros
      \/ u.height = r.height - 1 /\ u.id = t[r.id.block]
  BY <1>1, AsUpdateIs DEF Joins
<1>4. \E q \in rows : q.id = u.id /\ q.height = u.height
  <2>1. CASE ~r.key /\ u.height = r.height /\ u.id.block = r.id.block /\ u.id.micros < r.id.micros
    <3>1. r \in Micros(rows) /\ u.id.micros \in 0..(r.id.micros - 1)
      BY <1>1, <1>2, <2>1 DEF Micros
    <3>2. PICK q \in rows : /\ q.id.block = r.id.block /\ q.id.micros = u.id.micros
                            /\ q.height = r.height
      BY <3>1 DEF IndexPath
    <3>3. q.id \in BlockIds
      BY PathRows
    <3>4. q.id = u.id
      BY <1>2, <2>1, <3>2, <3>3 DEF BlockIds
    <3>. QED BY <2>1, <3>2, <3>4
  <2>2. CASE u.height = r.height - 1 /\ u.id = t[r.id.block]
    <3>1. PICK k \in Keys(rows) : k.height = r.height
      BY <1>1, PathRows
    <3>2. r.height # 1
      BY <1>1, <2>2 DEF Settled
    <3>3. PICK q \in Keys(rows) : q.height = k.height - 1
      BY <3>1, <3>2 DEF IndexPath
    <3>4. q \in rows /\ k \in rows /\ k.height = q.height + 1
      <4>1. q \in rows /\ k \in rows
        BY DEF Keys
      <4>2. q.height \in Nat /\ k.height \in Nat
        BY <4>1, PathRows
      <4>. QED BY <3>3, <4>1, <4>2
    <3>5. t[k.id.block] = q.id
      BY <3>4 DEF IndexPath
    <3>6. Settled(c, t, k)
      BY <3>4 DEF IndexPath
    <3>7. t[k.id.block] = t[r.id.block]
      BY <1>1, <3>1, <3>2, <3>6 DEF Settled
    <3>. QED BY <2>2, <3>1, <3>3, <3>4, <3>5, <3>7
  <2>. QED BY <1>3, <2>1, <2>2
<1>5. PICK q \in rows : q.id = u.id /\ q.height = u.height
  BY <1>4
<1>6. RowOf(rows, u.id) = q
  BY <1>5, PathRows DEF RowOf
<1>7. HandleLast(rows, u, seq) = CutAbove(rows, q.uid)
  BY <1>6 DEF HandleLast
<1>8. IndexPath(CutAbove(rows, q.uid), c, t) /\ IsTop(CutAbove(rows, q.uid), q)
  BY CutKeepsPath
<1>9. TopStands(CutAbove(rows, q.uid), u)
  BY <1>5, <1>8 DEF TopStands, Stands
<1>10. Known(rows, u)
  BY <1>5 DEF Known, StoredIds
<1>. QED BY <1>7, <1>8, <1>9, <1>10

-----------------------------------------------------------------------------
(* A batch, and what is stored.                                            *)

(* What is in flight once a batch was handed over. *)
LEMMA FlightIs ==
  ASSUME PathInv, channel # <<>>
  PROVE  /\ Handed = channel[1]
         /\ pending \o queue \in Seq(StreamUpdates)
         /\ Flight = channel[1] \o (pending \o queue)
<1>1. /\ Handed \in Seq(StreamUpdates) /\ pending \in Seq(StreamUpdates)
      /\ queue \in Seq(StreamUpdates)
  BY PathTyped DEF PathInv
<1>2. Handed = channel[1]
  BY DEF Handed
<1>3. pending \o queue \in Seq(StreamUpdates)
  BY <1>1, ConcatProperties
<1>4. (Handed \o pending) \o queue = Handed \o (pending \o queue)
  BY <1>1, ConcatAssociative
<1>. QED BY <1>2, <1>3, <1>4 DEF Flight

(* What joins an update joins the row that stands for it. *)
LEMMA JoinsRow ==
  ASSUME NEW t, NEW rows, NEW u \in StreamUpdates, NEW x, TopStands(rows, u), Joins(t, u, x)
  PROVE  \E q : IsTop(rows, q) /\ Joins(t, AsUpdate(q), x)
<1>1. PICK q : /\ IsTop(rows, q) /\ q.id = u.id /\ q.height = u.height
               /\ u.kind = "block" => q.key
               /\ u.kind = "micro" => ~q.key
  BY DEF TopStands, Stands
<1>2. u.kind # "rollback" => AsUpdate(q).kind = u.kind
  BY <1>1, AsUpdateIs DEF StreamUpdates, Kinds
<1>3. AsUpdate(q).id = u.id /\ AsUpdate(q).height = u.height
  BY <1>1, AsUpdateIs
<1>4. Joins(t, AsUpdate(q), x)
  <2>1. CASE u.kind = "rollback"
    <3>1. x.kind = "block" /\ x.height = u.height + 1 /\ t[x.id.block] = u.id
      BY <2>1 DEF Joins
    <3>. QED BY <1>3, <3>1 DEF Joins
  <2>2. CASE u.kind # "rollback"
    BY <1>2, <1>3, <2>2 DEF Joins
  <2>. QED BY <2>1, <2>2
<1>. QED BY <1>1, <1>4

(* The blocks of a batch keep the path, and what is left of the batch      *)
(* continues it.                                                           *)
LEMMA BlocksKeepPath ==
  ASSUME PathInv, channel # <<>>
  PROVE  LET batch == channel[1]
             u     == Last(batch)
             rows  == AppendBlocks(batch)
         IN  /\ IndexPath(rows, node, parents)
             /\ u.kind = "block" => TopStands(rows, u)
             /\ u.kind # "block" => \E r : IsTop(rows, r) /\ Joins(parents, AsUpdate(r), u)
             /\ LeadingBlocks(batch) # 0 =>
                  BlocksStored(Squash(blocks), rows, batch, LeadingBlocks(batch))
<1>. DEFINE batch == channel[1]
            u     == Last(batch)
            n     == LeadingBlocks(batch)
            sq    == Squash(blocks)
            bs    == [i \in 1..n |-> BlockMicroblock(batch[i])]
            rest  == pending \o queue
<1>1. /\ TypeInv /\ NodePath(node, parents) /\ IndexPath(blocks, node, parents)
      /\ blocks \in SUBSET BlockRows(BlockIds) /\ blockSeq \in Nat
      /\ \A b \in blocks : b.uid < blockSeq
      /\ pending \in Seq(StreamUpdates) /\ queue \in Seq(StreamUpdates)
  BY PathTyped DEF PathInv, TypeInv
<1>2. /\ batch \in Seq(StreamUpdates) /\ batch # <<>> /\ Len(batch) \in Nat /\ Len(batch) >= 1
      /\ u = batch[Len(batch)] /\ u \in StreamUpdates /\ n \in 0..Len(batch)
      /\ u.kind = "block" => n = Len(batch)
      /\ u.kind # "block" => n = Len(batch) - 1
  BY <1>1, BatchTyped
<1>3. Handed = batch /\ IsBatch(batch)
  BY DEF Handed, PathInv
<1>4. rest \in Seq(StreamUpdates) /\ Flight = batch \o rest
  BY FlightIs
<1>5. /\ \A i \in 1..Len(batch) : Settled(node, parents, batch[i])
      /\ Continues(blocks, parents, batch[1])
      /\ \A i \in 2..Len(batch) : Joins(parents, batch[i - 1], batch[i])
  <2>. HIDE DEF rest, batch
  <2>1. Streamed(batch \o rest, blocks, node, parents)
    BY <1>4 DEF PathInv
  <2>2. Streamed(batch, blocks, node, parents)
    BY <1>2, <1>4, <2>1, StreamedSplit
  <2>. QED BY <1>2, <2>2 DEF Streamed
<1>. HIDE DEF batch, u, n, rest
<1>6. CASE n = 0
  <2>1. AppendBlocks(batch) = blocks
    BY <1>6 DEF AppendBlocks, n
  <2>2. u.kind # "block" /\ u = batch[1]
    <3>1. Len(batch) = 1
      BY <1>2, <1>6
    <3>. QED BY <1>2, <1>6, <3>1
  <2>3. \E r : IsTop(blocks, r) /\ Joins(parents, AsUpdate(r), u)
    BY <1>5, <2>2 DEF Continues, Begins
  <2>. QED BY <1>1, <1>6, <2>1, <2>2, <2>3 DEF batch, u, n
<1>7. CASE n # 0
  <2>1. n \in 1..Len(batch) /\ n \in Nat /\ n <= Len(batch) /\ 1 \in 1..n
    BY <1>2, <1>7
  <2>2. AppendBlocks(batch) = Upsert(sq, bs, blockSeq)
    BY <1>7 DEF AppendBlocks, n
  <2>3. Batch(bs, BlockIds) /\ Len(bs) = n
    BY <1>2, <2>1, AppendsAreBatch
  <2>4. \A i \in 1..n : bs[i] = BlockMicroblock(batch[i])
    OBVIOUS
  <2>. HIDE DEF bs
  <2>5. \A i \in 1..n : batch[i].kind = "block" /\ Settled(node, parents, batch[i])
    <3>. SUFFICES ASSUME NEW i \in 1..n
                  PROVE  batch[i].kind = "block" /\ Settled(node, parents, batch[i])
      OBVIOUS
    <3>1. i \in 1..Len(batch) /\ Len(batch) \in 1..Len(batch)
      BY <1>2, <2>1
    <3>2. CASE i < Len(batch)
      BY <1>3, <1>5, <3>1, <3>2 DEF IsBatch
    <3>3. CASE i = Len(batch)
      BY <1>2, <1>5, <2>1, <3>1, <3>3
    <3>. QED BY <3>1, <3>2, <3>3
  <2>6. \A i \in 2..n : Joins(parents, batch[i - 1], batch[i])
    BY <1>2, <1>5, <2>1
  <2>7. /\ IndexPath(sq, node, parents) /\ Micros(sq) = {}
        /\ \A b \in sq : \E x \in blocks : x.id = b.id /\ x.height = b.height
        /\ \A r : IsTop(blocks, r) =>
             \E q : IsTop(sq, q) /\ q.key /\ q.id = r.id /\ q.height = r.height
    BY <1>1, SquashKeepsPath
  <2>8. sq \in SUBSET BlockRows(BlockIds) /\ \A b \in sq : b.uid < blockSeq
    BY <1>1, SquashTyped
  <2>. HIDE DEF sq
  <2>9. \/ batch[1].height = 1 /\ \A b \in sq : b.height = 1
        \/ \E r : /\ IsTop(sq, r) /\ batch[1].height = r.height + 1
                  /\ parents[batch[1].id.block] = r.id
    <3>1. CASE Begins(blocks, batch[1])
      <4>1. \A b \in sq : b.height = 1
        BY <2>7, <3>1 DEF Begins
      <4>. QED BY <3>1, <4>1 DEF Begins
    <3>2. ASSUME NEW r \in blocks, IsTop(blocks, r), Joins(parents, AsUpdate(r), batch[1])
          PROVE  \E q : /\ IsTop(sq, q) /\ batch[1].height = q.height + 1
                        /\ parents[batch[1].id.block] = q.id
      <4>1. batch[1].kind = "block"
        BY <2>1, <2>5
      <4>2. batch[1].height = r.height + 1 /\ parents[batch[1].id.block] = r.id
        BY <3>2, <4>1, AsUpdateIs DEF Joins
      <4>3. PICK q : IsTop(sq, q) /\ q.id = r.id /\ q.height = r.height
        BY <2>7, <3>2
      <4>. QED BY <4>2, <4>3
    <3>. QED BY <1>5, <3>1, <3>2 DEF Continues
  <2>. DEFINE all == Upsert(sq, bs, blockSeq)
  <2>10. /\ IndexPath(all, node, parents) /\ TopStands(all, batch[n])
         /\ BlocksStored(sq, all, batch, n)
    BY <1>1, <1>2, <1>3, <2>1, <2>3, <2>4, <2>5, <2>6, <2>7, <2>8, <2>9, BlocksOnTop
  <2>. HIDE DEF all
  <2>11. u.kind = "block" => TopStands(all, u)
    BY <1>2, <2>10
  <2>12. ASSUME u.kind # "block" PROVE \E r : IsTop(all, r) /\ Joins(parents, AsUpdate(r), u)
    <3>1. n + 1 = Len(batch) /\ Len(batch) \in 2..Len(batch) /\ Len(batch) - 1 = n
      BY <1>2, <2>1, <2>12
    <3>2. Joins(parents, batch[n], u)
      BY <1>2, <1>5, <3>1
    <3>3. batch[n] \in StreamUpdates
      BY <1>2, <2>1, ElementOfSeq
    <3>. QED BY <2>10, <3>2, <3>3, JoinsRow
  <2>. QED BY <2>2, <2>10, <2>11, <2>12 DEF all, batch, u, n, sq
<1>. QED BY <1>6, <1>7

(* A batch that is handled: no rollback of it names an unknown row, and    *)
(* the newest row is what its last update left.                            *)
LEMMA BatchKeepsPath ==
  ASSUME PathInv, channel # <<>>
  PROVE  LET batch == channel[1]
             u     == Last(batch)
             rows  == AppendBlocks(batch)
             all   == HandleLast(rows, u, blockSeq + LeadingBlocks(batch))
         IN  Known(rows, u) /\ IndexPath(all, node, parents) /\ TopStands(all, u)
<1>. DEFINE batch == channel[1]
            u     == Last(batch)
            n     == LeadingBlocks(batch)
            rows  == AppendBlocks(batch)
            all   == HandleLast(rows, u, blockSeq + n)
            rest  == pending \o queue
<1>1. TypeInv /\ blockSeq \in Nat
  BY PathTyped DEF PathInv
<1>2. /\ batch \in Seq(StreamUpdates) /\ batch # <<>> /\ u = batch[Len(batch)]
      /\ u \in StreamUpdates /\ n \in Nat /\ Len(batch) \in 1..Len(batch)
  <2>1. /\ batch \in Seq(StreamUpdates) /\ batch # <<>> /\ u = batch[Len(batch)]
        /\ u \in StreamUpdates /\ n \in 0..Len(batch) /\ Len(batch) \in Nat /\ Len(batch) >= 1
    BY <1>1, BatchTyped
  <2>. QED BY <2>1
<1>3. rows \in SUBSET BlockRows(BlockIds) /\ \A b \in rows : b.uid < blockSeq + n
  BY <1>1, AppendBlocksTyped
<1>4. /\ IndexPath(rows, node, parents)
      /\ u.kind = "block" => TopStands(rows, u)
      /\ u.kind # "block" => \E r : IsTop(rows, r) /\ Joins(parents, AsUpdate(r), u)
  BY BlocksKeepPath
<1>5. Settled(node, parents, u)
  <2>1. rest \in Seq(StreamUpdates) /\ Flight = batch \o rest
    BY FlightIs
  <2>. HIDE DEF batch, rest, u
  <2>2. Streamed(batch \o rest, blocks, node, parents)
    BY <2>1 DEF PathInv
  <2>3. Streamed(batch, blocks, node, parents)
    BY <1>2, <2>1, <2>2, StreamedSplit
  <2>. QED BY <1>2, <2>3 DEF Streamed
<1>. HIDE DEF batch, u, n, rows
<1>6. CASE u.kind = "block"
  <2>1. all = rows /\ Known(rows, u)
    BY <1>6 DEF HandleLast, Known
  <2>. QED BY <1>4, <1>6, <2>1 DEF batch, u, n, rows
<1>7. CASE u.kind = "micro"
  <2>1. PICK r : IsTop(rows, r) /\ Joins(parents, AsUpdate(r), u)
    BY <1>4, <1>7
  <2>2. IndexPath(all, node, parents) /\ TopStands(all, u)
    <3>1. blockSeq + n \in Nat
      BY <1>1, <1>2
    <3>. QED BY <1>2, <1>3, <1>4, <1>5, <1>7, <2>1, <3>1, MicroOnTop
  <2>3. Known(rows, u)
    BY <1>7 DEF Known
  <2>. QED BY <2>2, <2>3 DEF batch, u, n, rows
<1>8. CASE u.kind = "rollback"
  <2>1. PICK r : IsTop(rows, r) /\ Joins(parents, AsUpdate(r), u)
    BY <1>4, <1>8
  <2>2. Known(rows, u) /\ IndexPath(all, node, parents) /\ TopStands(all, u)
    BY <1>2, <1>3, <1>4, <1>5, <1>8, <2>1, RollbackIsKnown
  <2>. QED BY <2>2 DEF batch, u, n, rows
<1>. QED BY <1>2, <1>6, <1>7, <1>8 DEF StreamUpdates, Kinds

LEMMA PathHandleBatch == PathInv /\ HandleBatch => PathInv'
<1>. SUFFICES ASSUME PathInv, HandleBatch PROVE PathInv'
  OBVIOUS
<1>. DEFINE batch == channel[1]
            u     == Last(batch)
            rest  == pending \o queue
<1>1. /\ phase = "streaming" /\ channel # <<>> /\ channel' = <<>>
      /\ UNCHANGED <<node, parents, open, queue, pending>>
  BY DEF HandleBatch, nodeVars
<1>2. /\ phase' = "committed"
      /\ IndexPath(blocks', node, parents) /\ TopStands(blocks', u)
  BY <1>1, BatchKeepsPath DEF HandleBatch
<1>3. /\ batch \in Seq(StreamUpdates) /\ batch # <<>> /\ u = batch[Len(batch)]
      /\ u \in StreamUpdates
      /\ pending \in Seq(StreamUpdates) /\ queue \in Seq(StreamUpdates)
  BY <1>1, BatchTyped, PathTyped DEF PathInv
<1>4. rest \in Seq(StreamUpdates) /\ Flight = batch \o rest
  BY <1>1, FlightIs
<1>5. Handed' = <<>> /\ Flight' = rest
  <2>1. Handed' = <<>>
    BY <1>1 DEF Handed
  <2>2. Flight' = (<<>> \o pending) \o queue
    BY <1>1, <2>1 DEF Flight
  <2>3. <<>> \o pending = pending
    BY <1>3, ConcatEmptySeq
  <2>. QED BY <2>1, <2>2, <2>3
<1>. HIDE DEF batch, u, rest
<1>6. /\ \A i \in 1..Len(rest) : Settled(node, parents, rest[i])
      /\ \A i \in 2..Len(rest) : Joins(parents, rest[i - 1], rest[i])
      /\ rest # <<>> => Joins(parents, u, rest[1])
  <2>1. Streamed(batch \o rest, blocks, node, parents)
    BY <1>4 DEF PathInv
  <2>2. /\ \A i \in 1..Len(rest) : Settled(node, parents, rest[i])
        /\ \A i \in 2..Len(rest) : Joins(parents, rest[i - 1], rest[i])
        /\ batch # <<>> /\ rest # <<>> => Joins(parents, batch[Len(batch)], rest[1])
    BY <1>3, <1>4, <2>1, StreamedSplit
  <2>. QED BY <1>3, <2>2
<1>7. Streamed(rest, blocks', node, parents)
  <2>1. ASSUME rest # <<>> PROVE Continues(blocks', parents, rest[1])
    <3>1. PICK q : IsTop(blocks', q) /\ Joins(parents, AsUpdate(q), rest[1])
      BY <1>2, <1>3, <1>6, <2>1, JoinsRow
    <3>. QED BY <3>1 DEF Continues, IsTop
  <2>. QED BY <1>6, <2>1 DEF Streamed
<1>8. ASSUME open PROVE UpToDate(rest, blocks', node)
  <2>1. UpToDate(batch \o rest, blocks, node)
    BY <1>4, <1>8 DEF PathInv
  <2>. DEFINE w == batch \o rest
  <2>2. /\ Len(w) = Len(batch) + Len(rest) /\ Len(batch) \in Nat /\ Len(rest) \in Nat /\ w # <<>>
        /\ rest # <<>> => w[Len(w)] = rest[Len(rest)]
        /\ rest = <<>> => w[Len(w)] = u
    <3>1. /\ w \in Seq(StreamUpdates) /\ Len(w) = Len(batch) + Len(rest)
          /\ \A i \in 1..(Len(batch) + Len(rest)) :
               w[i] = IF i <= Len(batch) THEN batch[i] ELSE rest[i - Len(batch)]
      BY <1>3, <1>4, ConcatProperties
    <3>. HIDE DEF w
    <3>2. Len(batch) \in Nat /\ Len(batch) >= 1 /\ Len(rest) \in Nat /\ (rest = <<>> <=> Len(rest) = 0)
      BY <1>3, <1>4, EmptySeq
    <3>3. w # <<>>
      BY <3>1, <3>2, EmptySeq
    <3>4. rest # <<>> => w[Len(w)] = rest[Len(rest)]
      BY <3>1, <3>2
    <3>5. rest = <<>> => w[Len(w)] = u
      BY <1>3, <3>1, <3>2
    <3>. QED BY <3>1, <3>2, <3>3, <3>4, <3>5
  <2>. HIDE DEF w
  <2>3. AtTip(node, w[Len(w)])
    BY <2>1, <2>2 DEF UpToDate, w
  <2>4. CASE rest # <<>>
    BY <2>2, <2>3, <2>4 DEF UpToDate
  <2>5. CASE rest = <<>>
    <3>1. AtTip(node, u)
      BY <2>2, <2>3, <2>5
    <3>2. PICK q : /\ IsTop(blocks', q) /\ q.id = u.id /\ q.height = u.height
                   /\ u.kind = "block" => q.key
                   /\ u.kind = "micro" => ~q.key
      BY <1>2 DEF TopStands, Stands
    <3>3. AsUpdate(q).kind = u.kind
      BY <1>3, <3>1, <3>2, AsUpdateIs DEF AtTip, StreamUpdates, Kinds
    <3>4. AsUpdate(q).id = u.id /\ AsUpdate(q).height = u.height
      BY <3>2, AsUpdateIs
    <3>5. AtTip(node, AsUpdate(q))
      BY <3>1, <3>3, <3>4 DEF AtTip
    <3>. QED BY <2>5, <3>2, <3>5 DEF UpToDate, IsTop
  <2>. QED BY <2>4, <2>5
<1>9. TypeInv'
  BY TypeHandleBatch DEF PathInv
<1>10. Steps'
  BY <1>1, <1>2 DEF PathInv, Steps
<1>11. (IsBatch(Handed) /\ IsBatch(pending) /\ AllBlocks(pending))'
  <2>1. IsBatch(<<>>)
    BY DEF IsBatch
  <2>. QED BY <1>1, <1>5, <2>1 DEF PathInv
<1>12. (NodePath(node, parents) /\ IndexPath(blocks, node, parents))'
  BY <1>1, <1>2 DEF PathInv
<1>13. Streamed(Flight', blocks', node', parents') /\ (open' => UpToDate(Flight', blocks', node'))
  BY <1>1, <1>5, <1>7, <1>8
<1>. QED BY <1>9, <1>10, <1>11, <1>12, <1>13 DEF PathInv

LEMMA PathInit == Init => PathInv
<1>. SUFFICES ASSUME Init PROVE PathInv
  OBVIOUS
<1>1. /\ node = <<Root>> /\ parents = <<Nothing>> /\ blocks = {} /\ phase = "down" /\ open = FALSE
      /\ queue = <<>> /\ pending = <<>> /\ channel = <<>>
  BY DEF Init, Root
<1>2. NodePath(node, parents)
  <2>1. node \in Seq(BlockIds) /\ parents \in Seq(BlockIds)
    BY TypeInit DEF TypeInv, TypeOK
  <2>. QED BY <1>1, <2>1 DEF NodePath, Root, Nothing
<1>3. IndexPath(blocks, node, parents)
  BY <1>1 DEF IndexPath, InChainOrder, Keys, Micros
<1>4. Handed = <<>> /\ Flight = <<>>
  BY <1>1, NoneInFlight
<1>5. Streamed(Flight, blocks, node, parents)
  BY <1>4, NoneStreamed
<1>6. IsBatch(Handed) /\ IsBatch(pending) /\ AllBlocks(pending)
  <2>1. IsBatch(<<>>) /\ AllBlocks(<<>>)
    BY DEF IsBatch, AllBlocks
  <2>. QED BY <1>1, <1>4, <2>1
<1>7. Steps
  BY <1>1 DEF Steps
<1>. QED BY <1>1, <1>2, <1>3, <1>5, <1>6, <1>7, TypeInit DEF PathInv

LEMMA PathStep == ASSUME Shallow PROVE PathInv /\ [Next]_vars => PathInv'
<1>. SUFFICES ASSUME PathInv, [Next]_vars PROVE PathInv'
  OBVIOUS
<1>1. ASSUME NEW n \in Reorgs, NEW m \in 0..MaxMicros, n < Height, Reorg(n, m) PROVE PathInv'
  <2>1. n \in {0, 1}
    BY DEF Shallow
  <2>. QED BY <1>1, <2>1, PathReorg
<1>2. CASE NodeSteps
  BY <1>1, <1>2, PathForge, PathForgeMicro DEF NodeSteps
<1>3. CASE ProcessSteps
  BY <1>3, PathVerify, PathResume, PathSubscribe, PathReceive, PathHandleBatch, PathAfterCommit,
     PathStreamClosed DEF ProcessSteps
<1>. QED BY <1>2, <1>3, PathSubscribeFails, PathStreamLost, PathCrash, PathUnchanged DEF Next

(* What is stored is a path of the node's block tree. *)
LEMMA PathIsStored == ASSUME Shallow PROVE PathInv => StoredPath
<1>. SUFFICES ASSUME PathInv PROVE StoredPath
  OBVIOUS
<1>1. blocks \in SUBSET BlockRows(BlockIds) /\ IndexPath(blocks, node, parents)
      /\ TypeInv /\ Len(node) \in Nat
  BY PathTyped DEF PathInv
<1>2. \A b, c \in Keys(blocks) :
        /\ c.height = b.height + 1 => parents[c.id.block] = b.id
        /\ c.height = b.height => c = b
  <2>1. \A b, c \in Keys(blocks) : c.height = b.height + 1 => parents[c.id.block] = b.id
    BY <1>1 DEF IndexPath
  <2>2. \A b, c \in Keys(blocks) : c.height = b.height => c = b
    BY <1>1, PathRows
  <2>. QED BY <2>1, <2>2
<1>3. \A b \in Keys(blocks) :
        b.height = StartingHeight \/ \E c \in Keys(blocks) : c.height = b.height - 1
  BY <1>1 DEF IndexPath, Shallow
<1>4. ASSUME NEW m \in Micros(blocks)
      PROVE  m.id.block = RowOf(blocks, [m.id EXCEPT !.micros = @ - 1]).id.block
  <2>1. m \in blocks /\ m.id \in BlockIds /\ m.id.micros \in Nat /\ m.id.micros >= 1
    <3>1. m \in blocks
      BY DEF Micros
    <3>2. m.id \in BlockIds
      BY <1>1, <3>1, PathRows
    <3>3. m.id.micros \in Nat
      BY <3>2, ConsumerAssumption DEF BlockIds
    <3>4. m.id.micros >= 1
      BY <1>1 DEF IndexPath
    <3>. QED BY <3>1, <3>2, <3>3, <3>4
  <2>. DEFINE j == m.id.micros - 1
  <2>2. j \in 0..(m.id.micros - 1)
    BY <2>1
  <2>3. PICK q \in blocks : q.id.block = m.id.block /\ q.id.micros = j
    BY <1>1, <2>2 DEF IndexPath
  <2>4. q.id \in BlockIds
    BY <1>1, PathRows
  <2>5. q.id = [m.id EXCEPT !.micros = @ - 1]
    BY <2>1, <2>3, <2>4 DEF BlockIds
  <2>6. RowOf(blocks, q.id) = q
    BY <1>1, PathRows DEF RowOf
  <2>. QED BY <2>3, <2>5, <2>6
<1>5. ASSUME NEW m \in Micros(blocks) PROVE m.height = CurrentHeight(Keys(blocks))
  <2>. DEFINE keys == Keys(blocks)
  <2>1. keys \in SUBSET BlockRows(BlockIds) /\ \A b \in keys : b.height < Len(node) + 1
    BY <1>1 DEF IndexPath, Settled, Keys
  <2>2. PICK k \in keys : k.height = m.height
    BY <1>1, PathRows DEF Micros
  <2>. HIDE DEF keys
  <2>3. /\ CurrentHeight(keys) \in Nat /\ \A b \in keys : b.height <= CurrentHeight(keys)
        /\ \E b \in keys : b.height = CurrentHeight(keys)
    <3>1. keys # {} /\ Len(node) + 1 \in Nat
      BY <1>1, <2>2
    <3>. QED BY <2>1, <3>1, CurrentHeightIsGreatest
  <2>4. \A b \in keys : b.height <= m.height
    BY <1>1, PathRows DEF keys, Keys
  <2>5. m.height \in Nat
    BY <1>1, PathRows DEF Micros
  <2>. QED BY <2>2, <2>3, <2>4, <2>5 DEF keys
<1>. QED BY <1>2, <1>3, <1>4, <1>5 DEF StoredPath

(* When the node replaces at most its liquid tip, what is stored is a path *)
(* of its block tree at every step, however blocks, microblocks, rollbacks,*)
(* batches, lost streams, resubscriptions and crashes interleave.          *)
THEOREM StoredPathHolds == ASSUME Shallow PROVE Spec => []StoredPath
<1>. QED BY PathInit, PathStep, PathIsStored, PTL DEF Spec

(* Under the same condition the process never ends in an error: ancestry   *)
(* is never refused, and every rollback names a stored row.                *)
THEOREM NeverFailsHolds == ASSUME Shallow PROVE Spec => []NeverFails
<1>1. PathInv => NeverFails
  BY DEF PathInv, Steps, NeverFails
<1>. QED BY PathInit, PathStep, <1>1, PTL DEF Spec

-----------------------------------------------------------------------------
(* What Redis holds.                                                       *)

(* The value in Redis was written by the newest writing row, or by a block *)
(* that is no longer stored.                                               *)
Writers(rows) == {b \in rows : b.id.block \notin Silent}

LastWrote(rows, p) ==
  \/ p = Nothing /\ Writers(rows) = {}
  \/ \E w \in Writers(rows) : w.id = p /\ \A x \in Writers(rows) : x.uid <= w.uid

StoredIn(rows, p) == \E b \in rows : b.id.block = p.block /\ b.id.micros >= p.micros

Published(p, rows) ==
  /\ p = Nothing \/ p.block \notin Silent
  /\ LastWrote(rows, p) \/ (p # Nothing /\ ~StoredIn(rows, p))

(* What a batch leaves in Redis. *)
Writing(u) == u.kind # "rollback" /\ u.id.block \notin Silent

Wrote(s, n, before, p) ==
  \/ p = before /\ \A i \in 1..n : ~Writing(s[i])
  \/ \E k \in 1..n : Writing(s[k]) /\ p = s[k].id /\ \A i \in (k + 1)..n : ~Writing(s[i])

-----------------------------------------------------------------------------
(* The microblocks are of one block, and more microblocks are newer. *)
LEMMA SameBlockOrder ==
  ASSUME NEW rows \in SUBSET BlockRows(BlockIds), NEW c, NEW t, IndexPath(rows, c, t)
  PROVE  /\ \A m, n \in Micros(rows) : m.id.block = n.id.block
         /\ \A a, b \in rows : a.id.block = b.id.block /\ a.id.micros <= b.id.micros => a.uid <= b.uid
<1>1. \A b \in rows : /\ b.height \in Nat /\ b.uid \in Nat /\ b.id \in BlockIds /\ b.key \in BOOLEAN
                      /\ b.id.block \in Nat /\ b.id.micros \in Nat
  <2>1. \A b \in rows : b.height \in Nat /\ b.uid \in Nat /\ b.id \in BlockIds /\ b.key \in BOOLEAN
    BY PathRows
  <2>. QED BY <2>1 DEF BlockIds
<1>2. \A a, b \in rows : a.id.block = b.id.block => a.height = b.height
  <2>1. \A a, b \in rows : a.height < b.height => a.id.block < b.id.block
    BY DEF IndexPath
  <2>. QED BY <1>1, <2>1
<1>3. ASSUME NEW m \in Micros(rows)
      PROVE  \E k \in Keys(rows) : k.id.block = m.id.block /\ k.id.micros = 0 /\ k.height = m.height
  <2>1. m \in rows /\ m.id.micros >= 1
    BY DEF Micros, IndexPath
  <2>2. 0 \in 0..(m.id.micros - 1)
    BY <1>1, <2>1
  <2>3. PICK r \in rows : r.id.block = m.id.block /\ r.id.micros = 0 /\ r.height = m.height
    BY <2>2 DEF IndexPath
  <2>4. r \notin Micros(rows)
    BY <2>3 DEF IndexPath
  <2>. QED BY <2>3, <2>4 DEF Keys, Micros
<1>4. ASSUME NEW m \in Micros(rows), NEW n \in Micros(rows) PROVE m.id.block = n.id.block
  <2>1. PICK k \in Keys(rows) : k.id.block = m.id.block /\ k.height = m.height
    BY <1>3
  <2>2. PICK l \in Keys(rows) : l.id.block = n.id.block /\ l.height = n.height
    BY <1>3
  <2>3. m \in rows /\ n \in rows
    BY DEF Micros
  <2>4. m.height <= n.height /\ n.height <= m.height /\ m.height \in Nat /\ n.height \in Nat
    BY <1>1, <2>3, PathRows
  <2>5. k = l
    BY <2>1, <2>2, <2>4, PathRows
  <2>. QED BY <2>1, <2>2, <2>5
<1>5. ASSUME NEW a \in rows, NEW b \in rows,
             a.id.block = b.id.block, a.id.micros <= b.id.micros
      PROVE  a.uid <= b.uid
  <2>1. CASE a \in Micros(rows) /\ b \in Micros(rows)
    <3>1. b.uid < a.uid => b.id.micros < a.id.micros
      BY <2>1 DEF IndexPath
    <3>. QED BY <1>1, <1>5, <3>1
  <2>2. CASE a \in Keys(rows) /\ b \in Micros(rows)
    <3>1. a.uid < b.uid
      BY <2>2, PathRows
    <3>. QED BY <1>1, <3>1
  <2>3. CASE a \in Micros(rows) /\ b \in Keys(rows)
    <3>1. PICK k \in Keys(rows) : k.id.block = a.id.block /\ k.id.micros = 0 /\ k.height = a.height
      BY <1>3, <2>3
    <3>2. b = k
      BY <1>2, <1>5, <2>3, <3>1, PathRows
    <3>3. a.id.micros >= 1
      BY <2>3 DEF IndexPath
    <3>. QED BY <1>1, <1>5, <3>1, <3>2, <3>3
  <2>4. CASE a \in Keys(rows) /\ b \in Keys(rows)
    <3>1. a = b
      BY <1>2, <1>5, <2>4, PathRows
    <3>. QED BY <1>1, <3>1
  <2>. QED BY <1>1, <2>1, <2>2, <2>3, <2>4 DEF Keys, Micros
<1>. QED BY <1>4, <1>5

LEMMA PublishedCut ==
  ASSUME NEW rows \in SUBSET BlockRows(BlockIds), NEW c, NEW t, IndexPath(rows, c, t),
         NEW p, Published(p, rows), NEW uid \in Nat
  PROVE  Published(p, CutAbove(rows, uid))
<1>. DEFINE cut == CutAbove(rows, uid)
<1>1. cut \subseteq rows /\ \A b \in cut : b.uid <= uid
  BY DEF CutAbove
<1>2. CASE p = Nothing /\ Writers(rows) = {}
  <2>1. Writers(cut) = {}
    BY <1>1, <1>2 DEF Writers
  <2>. QED BY <1>2, <2>1 DEF Published, LastWrote
<1>3. ASSUME NEW w \in Writers(rows), w.id = p, \A x \in Writers(rows) : x.uid <= w.uid
      PROVE  Published(p, cut)
  <2>1. w \in rows /\ w.uid \in Nat /\ p.block \notin Silent
    BY <1>3, PathRows DEF Writers
  <2>2. CASE w.uid <= uid
    <3>1. w \in Writers(cut) /\ \A x \in Writers(cut) : x.uid <= w.uid
      BY <1>1, <1>3, <2>1, <2>2 DEF Writers, CutAbove
    <3>. QED BY <1>3, <2>1, <3>1 DEF Published, LastWrote
  <2>3. CASE ~(w.uid <= uid)
    <3>1. p # Nothing
      <4>1. Settled(c, t, w)
        BY <2>1 DEF IndexPath
      <4>2. w.id.block >= 1
        BY <4>1 DEF Settled
      <4>3. Nothing.block = 0
        BY DEF Nothing
      <4>. QED BY <1>3, <4>2, <4>3
    <3>2. ASSUME StoredIn(cut, p) PROVE FALSE
      <4>1. PICK b \in cut : b.id.block = p.block /\ b.id.micros >= p.micros
        BY <3>2 DEF StoredIn
      <4>2. b \in rows /\ b.uid <= uid
        BY <1>1, <4>1
      <4>3. w.id.micros \in Nat /\ b.id.micros \in Nat /\ b.uid \in Nat
        BY <2>1, <4>2 DEF BlockRows, BlockIds
      <4>4. w.uid <= b.uid
        BY <1>3, <2>1, <4>1, <4>2, <4>3, SameBlockOrder
      <4>. QED BY <2>1, <2>3, <4>2, <4>3, <4>4
    <3>. QED BY <2>1, <3>1, <3>2 DEF Published
  <2>. QED BY <2>2, <2>3
<1>4. CASE p # Nothing /\ ~StoredIn(rows, p)
  <2>1. ~StoredIn(cut, p)
    BY <1>1, <1>4 DEF StoredIn
  <2>. QED BY <1>4, <2>1 DEF Published
<1>. QED BY <1>2, <1>3, <1>4 DEF Published, LastWrote

(* Rows of blocks that write nothing change nothing. *)
LEMMA PublishedSilent ==
  ASSUME NEW rows, NEW more, NEW p, Published(p, rows), rows \subseteq more,
         \A b \in more : b \in rows \/ b.id.block \in Silent
  PROVE  Published(p, more)
<1>1. Writers(more) = Writers(rows)
  BY DEF Writers
<1>2. ASSUME p # Nothing, ~StoredIn(rows, p), StoredIn(more, p) PROVE FALSE
  <2>1. PICK b \in more : b.id.block = p.block /\ b.id.micros >= p.micros
    BY <1>2 DEF StoredIn
  <2>2. p.block \notin Silent
    BY <1>2 DEF Published
  <2>. QED BY <1>2, <2>1, <2>2 DEF StoredIn
<1>. QED BY <1>1, <1>2 DEF Published, LastWrote

(* Squashing, row by row. *)
LEMMA SquashIs ==
  ASSUME NEW rows \in SUBSET BlockRows(BlockIds), NEW c, NEW t, IndexPath(rows, c, t),
         NEW seq \in Nat, \A b \in rows : b.uid < seq, Micros(rows) # {}
  PROVE  \E m \in Micros(rows), top \in Keys(rows) :
           /\ \A n \in Micros(rows) : n.uid <= m.uid
           /\ \A k \in Keys(rows) : k.uid <= top.uid
           /\ \A b \in Squash(rows) : \E k \in Keys(rows) :
                b.uid = k.uid /\ b.id = IF k = top THEN m.id ELSE k.id
           /\ \A k \in Keys(rows) : \E b \in Squash(rows) :
                b.uid = k.uid /\ b.id = IF k = top THEN m.id ELSE k.id
<1>. DEFINE m == LastMicro(rows)
            S(k) == IF k.uid = KeyUid(rows) THEN [k EXCEPT !.id = m.id] ELSE k
<1>1. m \in Micros(rows) /\ m \in rows /\ \A n \in Micros(rows) : n.uid <= m.uid
  BY LastMicroStored DEF Micros
<1>2. Squash(rows) = {S(k) : k \in Keys(rows)}
  BY DEF Squash
<1>3. PICK top \in Keys(rows) : top.uid = KeyUid(rows)
  <2>1. PICK k \in Keys(rows) : k.height = m.height
    BY <1>1, PathRows
  <2>2. KeyUid(rows) \in Uids(Keys(rows))
    BY <2>1, KeyUidIsGreatest
  <2>. QED BY <2>2 DEF Uids
<1>4. \A k \in Keys(rows) : k \in rows /\ k.uid <= top.uid
  <2>1. \A k \in Keys(rows) : k.uid <= KeyUid(rows)
    BY <1>3, KeyUidIsGreatest
  <2>. QED BY <1>3, <2>1 DEF Keys
<1>5. ASSUME NEW k \in Keys(rows)
      PROVE  S(k).uid = k.uid /\ S(k).id = IF k = top THEN m.id ELSE k.id
  <2>1. k.uid = KeyUid(rows) <=> k = top
    BY <1>3, <1>4, PathRows
  <2>2. k \in BlockRows(BlockIds)
    BY DEF Keys
  <2>. QED BY <2>1, <2>2 DEF BlockRows
<1>. HIDE DEF S, m
<1>6. \A b \in Squash(rows) : \E k \in Keys(rows) :
        b.uid = k.uid /\ b.id = IF k = top THEN m.id ELSE k.id
  BY <1>2, <1>5
<1>7. \A k \in Keys(rows) : \E b \in Squash(rows) :
        b.uid = k.uid /\ b.id = IF k = top THEN m.id ELSE k.id
  BY <1>2, <1>5
<1>. QED BY <1>1, <1>3, <1>4, <1>6, <1>7

LEMMA PublishedSquash ==
  ASSUME NEW rows \in SUBSET BlockRows(BlockIds), NEW seq \in Nat, \A b \in rows : b.uid < seq,
         NEW c, NEW t, IndexPath(rows, c, t), NEW p, Published(p, rows)
  PROVE  Published(p, Squash(rows))
<1>. DEFINE sq == Squash(rows)
<1>1. CASE Micros(rows) = {}
  BY <1>1 DEF Squash
<1>2. CASE Micros(rows) # {}
  <2>1. PICK m \in Micros(rows), top \in Keys(rows) :
          /\ \A n \in Micros(rows) : n.uid <= m.uid
          /\ \A k \in Keys(rows) : k.uid <= top.uid
          /\ \A b \in sq : \E k \in Keys(rows) :
               b.uid = k.uid /\ b.id = IF k = top THEN m.id ELSE k.id
          /\ \A k \in Keys(rows) : \E b \in sq :
               b.uid = k.uid /\ b.id = IF k = top THEN m.id ELSE k.id
    BY <1>2, SquashIs
  <2>2. \A b \in sq : \E x \in rows : x.id = b.id
    BY SquashKeepsPath
  <2>. HIDE DEF sq
  <2>3. m \in rows /\ m.uid \in Nat /\ \A k \in Keys(rows) : k \in rows /\ k.uid \in Nat /\ k.uid < m.uid
    <3>1. m \in rows /\ \A k \in Keys(rows) : k \in rows
      BY DEF Micros, Keys
    <3>. QED BY <3>1, PathRows
  <2>4. CASE p = Nothing /\ Writers(rows) = {}
    <3>1. Writers(sq) = {}
      BY <2>2, <2>4 DEF Writers
    <3>. QED BY <2>4, <3>1 DEF Published, LastWrote, sq
  <2>5. CASE p # Nothing /\ ~StoredIn(rows, p)
    <3>1. ~StoredIn(sq, p)
      BY <2>2, <2>5 DEF StoredIn
    <3>. QED BY <2>5, <3>1 DEF Published, sq
  <2>6. ASSUME NEW w \in Writers(rows), w.id = p, \A x \in Writers(rows) : x.uid <= w.uid
        PROVE  Published(p, sq)
    <3>1. w \in rows /\ w.uid \in Nat /\ p.block \notin Silent
      BY <2>6, PathRows DEF Writers
    <3>2. CASE w \in Micros(rows)
      <4>1. m.id.block = w.id.block
        BY <3>2, SameBlockOrder
      <4>2. m \in Writers(rows)
        BY <2>3, <4>1 DEF Writers
      <4>3. w = m
        <5>1. w.uid <= m.uid /\ m.uid <= w.uid
          BY <2>1, <2>6, <3>2, <4>2
        <5>. QED BY <2>3, <3>1, <5>1, PathRows
      <4>4. PICK b \in sq : b.uid = top.uid /\ b.id = m.id
        BY <2>1
      <4>5. \A x \in sq : x.uid <= b.uid
        BY <2>1, <4>4
      <4>6. b \in Writers(sq)
        BY <2>6, <3>1, <4>3, <4>4 DEF Writers
      <4>7. \A x \in Writers(sq) : x.uid <= b.uid
        BY <4>5 DEF Writers
      <4>. QED BY <2>6, <3>1, <4>3, <4>4, <4>6, <4>7 DEF Published, LastWrote
    <3>3. CASE w \in Keys(rows)
      <4>1. w.uid < m.uid /\ m \notin Writers(rows)
        BY <2>3, <2>6, <3>1, <3>3
      <4>2. m.id.block \in Silent
        BY <2>3, <4>1 DEF Writers
      <4>3. w # top
        <5>. SUFFICES ASSUME w = top PROVE FALSE
          OBVIOUS
        <5>1. PICK r \in rows : r.id.block = m.id.block /\ r.id.micros = 0 /\ r.height = m.height
          <6>1. m.id.micros \in Nat /\ m.id.micros >= 1
            BY <2>3 DEF IndexPath, BlockRows, BlockIds
          <6>2. 0 \in 0..(m.id.micros - 1)
            BY <6>1
          <6>. QED BY <6>2 DEF IndexPath
        <5>2. r \in Keys(rows)
          <6>1. r \notin Micros(rows)
            BY <5>1 DEF IndexPath
          <6>. QED BY <6>1 DEF Keys, Micros
        <5>3. top.height = m.height
          <6>1. r.uid <= top.uid /\ (r.uid < top.uid => r.height < top.height)
            BY <2>1, <5>2 DEF IndexPath, InChainOrder
          <6>2. top.height <= m.height
            BY <2>3, PathRows
          <6>3. r.uid = top.uid => r = top
            BY <2>3, <5>2, PathRows
          <6>4. r.uid \in Nat /\ top.uid \in Nat /\ r.height \in Nat /\ top.height \in Nat /\ m.height \in Nat
            BY <2>3, PathRows
          <6>. QED BY <5>1, <6>1, <6>2, <6>3, <6>4
        <5>4. r = top
          BY <5>1, <5>2, <5>3, PathRows
        <5>. QED BY <4>2, <5>1, <5>4 DEF Writers
      <4>4. PICK b \in sq : b.uid = w.uid /\ b.id = w.id
        BY <2>1, <3>3, <4>3
      <4>5. b \in Writers(sq)
        BY <2>6, <3>1, <4>4 DEF Writers
      <4>6. ASSUME NEW x \in Writers(sq) PROVE x.uid <= b.uid
        <5>1. x \in sq /\ x.id.block \notin Silent
          BY DEF Writers
        <5>2. PICK k \in Keys(rows) : x.uid = k.uid /\ x.id = IF k = top THEN m.id ELSE k.id
          BY <2>1, <5>1
        <5>3. k # top
          BY <4>2, <5>1, <5>2
        <5>4. k \in Writers(rows)
          BY <2>3, <5>1, <5>2, <5>3 DEF Writers
        <5>. QED BY <2>6, <4>4, <5>2, <5>4
      <4>. QED BY <2>6, <3>1, <4>4, <4>5, <4>6 DEF Published, LastWrote
    <3>. QED BY <3>1, <3>2, <3>3 DEF Keys, Micros
  <2>. QED BY <2>4, <2>5, <2>6 DEF Published, LastWrote, sq
<1>. QED BY <1>1, <1>2

(* The key blocks of a batch. *)
LEMMA PublishedBlocks ==
  ASSUME NEW sq, NEW after \in SUBSET BlockRows(BlockIds), NEW c, NEW t, IndexPath(after, c, t),
         NEW s, NEW n \in Nat, n >= 1, BlocksStored(sq, after, s, n),
         \A i \in 1..n : s[i].kind = "block" /\ s[i].height \in Nat,
         NEW q, Published(q, sq), NEW p, Wrote(s, n, q, p)
  PROVE  Published(p, after)
<1>1. CASE p = q /\ \A i \in 1..n : ~Writing(s[i])
  <2>1. \A b \in after : b \in sq \/ b.id.block \in Silent
    <3>. TAKE b \in after
    <3>1. ASSUME NEW i \in 1..n, Stands(b, s[i]) PROVE b.id.block \in Silent
      BY <1>1, <3>1 DEF Stands, Writing
    <3>. QED BY <3>1 DEF BlocksStored
  <2>2. sq \subseteq after
    BY DEF BlocksStored
  <2>. QED BY <1>1, <2>1, <2>2, PublishedSilent
<1>2. ASSUME NEW k \in 1..n, Writing(s[k]), p = s[k].id, \A i \in (k + 1)..n : ~Writing(s[i])
      PROVE  Published(p, after)
  <2>1. PICK w \in after : Stands(w, s[k])
    BY DEF BlocksStored
  <2>2. w \in Writers(after) /\ w.id = p /\ p.block \notin Silent
    BY <1>2, <2>1 DEF Writers, Stands, Writing
  <2>3. ASSUME NEW x \in Writers(after) PROVE x.uid <= w.uid
    <3>1. x \in after /\ x.id.block \notin Silent
      BY DEF Writers
    <3>2. x.height <= w.height
      <4>1. CASE x \in sq
        BY <2>1, <4>1 DEF BlocksStored, Stands
      <4>2. ASSUME NEW i \in 1..n, Stands(x, s[i]) PROVE x.height <= w.height
        <5>1. Writing(s[i])
          BY <3>1, <4>2 DEF Stands, Writing
        <5>2. ~(k < i)
          BY <1>2, <5>1
        <5>3. i = k \/ s[i].height < s[k].height
          BY <5>2 DEF BlocksStored
        <5>4. s[i].height \in Nat /\ s[k].height \in Nat
          OBVIOUS
        <5>. QED BY <2>1, <4>2, <5>3, <5>4 DEF Stands
      <4>. QED BY <3>1, <4>1, <4>2 DEF BlocksStored
    <3>3. x \in Keys(after) /\ w \in Keys(after)
      BY <3>1 DEF BlocksStored, Keys, Micros
    <3>4. w.uid < x.uid => w.height < x.height
      BY <3>3 DEF IndexPath, InChainOrder
    <3>5. w.uid \in Nat /\ x.uid \in Nat /\ w.height \in Nat /\ x.height \in Nat
      BY <3>1 DEF BlockRows
    <3>. QED BY <3>2, <3>4, <3>5
  <2>. QED BY <2>2, <2>3 DEF Published, LastWrote
<1>. QED BY <1>1, <1>2 DEF Wrote

(* What Redis will hold once the batch that is committed is published. *)
ToPublish ==
  IF phase = "committed" /\ DOMAIN unpublished.ids # {}
    THEN LastWritten(unpublished.ids) ELSE redis

RedisInv == PathInv /\ (crashes = 0 => Published(ToPublish, blocks))

(* Nothing that Redis holds or will hold changes, and no row. *)
LEMMA PublishedBesides ==
  ASSUME RedisInv, PathInv', UNCHANGED <<blocks, crashes>>, ToPublish' = ToPublish
  PROVE  RedisInv'
  BY DEF RedisInv

LEMMA WroteIs ==
  ASSUME NEW s \in Seq(StreamUpdates), Len(s) <= UpdatesPerRequest, NEW q
  PROVE  Wrote(s, Len(s), q,
               IF DOMAIN Writes(s) = {} THEN q ELSE LastWritten(Writes(s)))
<1>. DEFINE ids == Writes(s)
            k   == Max(DOMAIN ids)
<1>1. /\ ids \in UNION {[S -> BlockIds] : S \in SUBSET (1..UpdatesPerRequest)}
      /\ DOMAIN ids = {j \in 1..Len(s) : Writing(s[j])}
      /\ \A i \in DOMAIN ids : ids[i] = s[i].id
  BY WritesTyped DEF Writing
<1>. HIDE DEF ids
<1>2. CASE DOMAIN ids = {}
  BY <1>1, <1>2 DEF Wrote, ids
<1>3. CASE DOMAIN ids # {}
  <2>1. /\ k \in DOMAIN ids /\ \A i \in DOMAIN ids : i <= k
        /\ LastWritten(ids) = ids[k]
    BY <1>1, <1>3, LastWrittenTyped
  <2>. HIDE DEF k
  <2>2. k \in 1..Len(s) /\ Writing(s[k]) /\ LastWritten(ids) = s[k].id
    BY <1>1, <2>1
  <2>3. \A i \in (k + 1)..Len(s) : ~Writing(s[i])
    <3>. SUFFICES ASSUME NEW i \in (k + 1)..Len(s), Writing(s[i]) PROVE FALSE
      OBVIOUS
    <3>1. i \in 1..Len(s) /\ ~(i <= k)
      BY <2>2
    <3>. QED BY <1>1, <2>1, <3>1
  <2>. QED BY <1>3, <2>2, <2>3 DEF Wrote, ids
<1>. QED BY <1>2, <1>3

(* The whole batch. *)
LEMMA PublishedBatch ==
  ASSUME PathInv, channel # <<>>, NEW q, Published(q, blocks),
         NEW p, Wrote(channel[1], Len(channel[1]), q, p)
  PROVE  LET batch == channel[1]
             u     == Last(batch)
         IN  Published(p, HandleLast(AppendBlocks(batch), u, blockSeq + LeadingBlocks(batch)))
<1>. DEFINE batch == channel[1]
            u     == Last(batch)
            n     == LeadingBlocks(batch)
            rows  == AppendBlocks(batch)
            seq   == blockSeq + n
            all   == HandleLast(rows, u, seq)
<1>1. /\ TypeInv /\ IndexPath(blocks, node, parents)
      /\ blocks \in SUBSET BlockRows(BlockIds) /\ blockSeq \in Nat
      /\ \A b \in blocks : b.uid < blockSeq
  BY PathTyped DEF PathInv, TypeInv
<1>2. /\ batch \in Seq(StreamUpdates) /\ batch # <<>> /\ Len(batch) \in Nat /\ Len(batch) >= 1
      /\ u = batch[Len(batch)] /\ u \in StreamUpdates /\ n \in 0..Len(batch)
      /\ u.kind = "block" => n = Len(batch)
      /\ u.kind # "block" => n = Len(batch) - 1
  BY <1>1, BatchTyped
<1>3. rows \in SUBSET BlockRows(BlockIds)
  BY <1>1, AppendBlocksTyped
<1>4. /\ IndexPath(rows, node, parents)
      /\ u.kind = "block" => TopStands(rows, u)
      /\ n # 0 => BlocksStored(Squash(blocks), rows, batch, n)
  BY BlocksKeepPath
<1>5. IsBatch(batch)
  BY FlightIs DEF PathInv
<1>6. /\ IndexPath(all, node, parents) /\ TopStands(all, u) /\ Known(rows, u)
  BY BatchKeepsPath
<1>7. n = 0 => rows = blocks
  BY DEF AppendBlocks
<1>. HIDE DEF batch, u, n, rows, seq
<1>8. ASSUME Wrote(batch, n, q, p) PROVE Published(p, rows)
  <2>1. CASE n = 0
    BY <1>7, <1>8, <2>1 DEF Wrote
  <2>2. CASE n # 0
    <3>1. Published(q, Squash(blocks))
      BY <1>1, PublishedSquash
    <3>2. ASSUME NEW i \in 1..n PROVE batch[i].kind = "block" /\ batch[i].height \in Nat
      <4>1. i \in 1..Len(batch) /\ Len(batch) \in 1..Len(batch)
        BY <1>2
      <4>2. batch[i] \in StreamUpdates
        BY <1>2, <4>1, ElementOfSeq
      <4>3. CASE i < Len(batch)
        BY <1>5, <4>1, <4>2, <4>3 DEF IsBatch, StreamUpdates
      <4>4. CASE i = Len(batch)
        BY <1>2, <4>2, <4>4 DEF StreamUpdates
      <4>. QED BY <4>1, <4>3, <4>4
    <3>3. n \in Nat /\ n >= 1
      BY <1>2, <2>2
    <3>. QED BY <1>3, <1>4, <1>8, <2>2, <3>1, <3>2, <3>3, PublishedBlocks
  <2>. QED BY <2>1, <2>2
<1>9. CASE u.kind = "block"
  <2>1. all = rows /\ n = Len(batch)
    BY <1>2, <1>9 DEF HandleLast
  <2>. QED BY <1>8, <2>1 DEF batch, u, n, rows, seq
<1>10. ASSUME u.kind # "block", ~Writing(u) PROVE Wrote(batch, n, q, p)
  <2>1. Len(batch) = n + 1 /\ n \in Nat /\ u = batch[n + 1]
    BY <1>2, <1>10
  <2>2. Wrote(batch, n + 1, q, p)
    BY <2>1 DEF batch
  <2>3. CASE p = q /\ \A i \in 1..(n + 1) : ~Writing(batch[i])
    BY <2>1, <2>3 DEF Wrote
  <2>4. ASSUME NEW k \in 1..(n + 1), Writing(batch[k]), p = batch[k].id,
               \A i \in (k + 1)..(n + 1) : ~Writing(batch[i])
        PROVE  Wrote(batch, n, q, p)
    <3>1. k # n + 1
      BY <1>10, <2>1, <2>4
    <3>2. k \in 1..n /\ \A i \in (k + 1)..n : ~Writing(batch[i])
      BY <2>1, <2>4, <3>1
    <3>. QED BY <2>4, <3>2 DEF Wrote
  <2>. QED BY <2>2, <2>3, <2>4 DEF Wrote
<1>11. CASE u.kind = "micro" /\ Writing(u)
  <2>1. p = u.id
    <3>1. Len(batch) \in 1..Len(batch) /\ Wrote(batch, Len(batch), q, p)
      BY <1>2 DEF batch
    <3>2. ASSUME NEW k \in 1..Len(batch), \A i \in (k + 1)..Len(batch) : ~Writing(batch[i])
          PROVE  k = Len(batch)
      BY <1>2, <1>11, <3>1, <3>2
    <3>. QED BY <1>2, <1>11, <3>1, <3>2 DEF Wrote
  <2>2. PICK w : IsTop(all, w) /\ w.id = u.id
    BY <1>6 DEF TopStands, Stands
  <2>3. w \in Writers(all) /\ \A x \in Writers(all) : x.uid <= w.uid
    BY <1>11, <2>2 DEF IsTop, Writers, Writing
  <2>4. p.block \notin Silent
    BY <1>11, <2>1 DEF Writing
  <2>5. Published(p, all)
    BY <2>1, <2>2, <2>3, <2>4 DEF Published, LastWrote
  <2>. QED BY <2>5 DEF batch, u, n, rows, seq
<1>12. CASE u.kind = "micro" /\ ~Writing(u)
  <2>1. Published(p, rows)
    BY <1>8, <1>10, <1>12
  <2>2. u.id.block \in Silent
    BY <1>12 DEF Writing
  <2>3. rows \subseteq all /\ \A b \in all : b \in rows \/ b.id = u.id
    <3>1. all = Upsert(rows, <<BlockMicroblock(u)>>, seq)
      BY <1>12 DEF HandleLast
    <3>. QED BY <3>1 DEF Upsert, BlockMicroblock
  <2>4. Published(p, all)
    BY <2>1, <2>2, <2>3, PublishedSilent
  <2>. QED BY <2>4 DEF batch, u, n, rows, seq
<1>13. CASE u.kind = "rollback"
  <2>1. Published(p, rows)
    BY <1>8, <1>10, <1>13 DEF Writing
  <2>2. RowOf(rows, u.id) \in rows
    BY <1>6, <1>13 DEF Known, StoredIds, RowOf
  <2>3. RowOf(rows, u.id).uid \in Nat
    BY <1>3, <2>2 DEF BlockRows
  <2>4. all = CutAbove(rows, RowOf(rows, u.id).uid)
    BY <1>13 DEF HandleLast
  <2>5. Published(p, all)
    BY <1>3, <1>4, <2>1, <2>3, <2>4, PublishedCut
  <2>. QED BY <2>5 DEF batch, u, n, rows, seq
<1>. QED BY <1>2, <1>9, <1>11, <1>12, <1>13 DEF StreamUpdates, Kinds

LEMMA RedisNodeSteps == ASSUME RedisInv, NodeSteps, PathInv' PROVE RedisInv'
<1>1. UNCHANGED <<blocks, crashes, redis, phase, unpublished>>
  BY DEF NodeSteps, Forge, ForgeMicro, Reorg, Send, database, counters
<1>. QED BY <1>1, PublishedBesides DEF ToPublish

LEMMA RedisResume == ASSUME RedisInv, Resume, PathInv' PROVE RedisInv'
<1>1. crashes' = crashes /\ redis' = redis /\ phase = "verified" /\ phase' = "resumed"
  BY DEF Resume, counters
<1>2. ToPublish = redis /\ ToPublish' = redis
  BY <1>1 DEF ToPublish
<1>3. blocks \in SUBSET BlockRows(BlockIds) /\ IndexPath(blocks, node, parents)
  BY PathTyped DEF RedisInv, PathInv
<1>4. blocks' = blocks \/ \E uid \in Nat : blocks' = CutAbove(blocks, uid)
  <2>. DEFINE found == ResumeRows(blocks, Depth, Step)
              row   == ResumeRow(blocks, Depth, Step)
  <2>1. CASE found = {}
    BY <2>1 DEF Resume
  <2>2. CASE found # {}
    <3>1. row \in blocks
      BY <1>3, <2>2, ResumeRowStored
    <3>2. row.uid \in Nat
      BY <1>3, <3>1, PathRows
    <3>3. blocks' = CutAbove(blocks, row.uid)
      BY <2>2 DEF Resume
    <3>. QED BY <3>2, <3>3
  <2>. QED BY <2>1, <2>2
<1>5. ASSUME crashes' = 0 PROVE Published(redis, blocks')
  <2>1. Published(redis, blocks)
    BY <1>1, <1>2, <1>5 DEF RedisInv
  <2>. QED BY <1>3, <1>4, <2>1, PublishedCut
<1>. QED BY <1>2, <1>5 DEF RedisInv

LEMMA RedisHandleBatch == ASSUME RedisInv, HandleBatch, PathInv' PROVE RedisInv'
<1>. DEFINE batch == channel[1]
<1>1. /\ phase = "streaming" /\ channel # <<>> /\ crashes' = crashes /\ redis' = redis /\ PathInv
  BY DEF HandleBatch, counters, RedisInv
<1>2. Known(AppendBlocks(batch), Last(batch))
  BY <1>1, BatchKeepsPath
<1>3. /\ blocks' = HandleLast(AppendBlocks(batch), Last(batch), blockSeq + LeadingBlocks(batch))
      /\ unpublished' = [height |-> Last(batch).height, ids |-> Writes(batch)]
      /\ phase' = "committed"
  BY <1>2 DEF HandleBatch
<1>4. ToPublish = redis
  BY <1>1 DEF ToPublish
<1>5. ToPublish' = IF DOMAIN Writes(batch) = {} THEN redis ELSE LastWritten(Writes(batch))
  BY <1>1, <1>3 DEF ToPublish
<1>6. batch \in Seq(StreamUpdates) /\ Len(batch) <= UpdatesPerRequest
  BY <1>1, BatchTyped DEF PathInv
<1>7. Wrote(batch, Len(batch), redis, ToPublish')
  BY <1>5, <1>6, WroteIs
<1>8. ASSUME crashes' = 0 PROVE Published(ToPublish', blocks')
  <2>1. Published(redis, blocks)
    BY <1>1, <1>4, <1>8 DEF RedisInv
  <2>. QED BY <1>1, <1>3, <1>7, <2>1, PublishedBatch
<1>. QED BY <1>8 DEF RedisInv

LEMMA RedisAfterCommit == ASSUME RedisFails = FALSE, RedisInv, AfterCommit, PathInv' PROVE RedisInv'
<1>1. UNCHANGED <<blocks, crashes>> /\ phase = "committed" /\ phase' = "streaming"
  BY DEF AfterCommit, database, counters
<1>2. redis' = IF DOMAIN unpublished.ids = {} THEN redis ELSE LastWritten(unpublished.ids)
  BY DEF AfterCommit
<1>3. ToPublish' = redis' /\ ToPublish = redis'
  BY <1>1, <1>2 DEF ToPublish
<1>. QED BY <1>1, <1>3, PublishedBesides

(* The other steps of the process touch no row and nothing to publish. *)
LEMMA RedisBesides ==
  ASSUME RedisInv, PathInv', UNCHANGED <<blocks, crashes, redis>>,
         \/ phase' = phase /\ unpublished' = unpublished
         \/ phase # "committed" /\ phase' # "committed"
  PROVE  RedisInv'
<1>1. ToPublish' = ToPublish
  BY DEF ToPublish
<1>. QED BY <1>1, PublishedBesides

LEMMA RedisCrash == ASSUME RedisInv, Crash, PathInv' PROVE RedisInv'
<1>1. crashes' = crashes + 1 /\ crashes \in Nat
  BY DEF Crash, RedisInv, PathInv, TypeInv, TypeOK
<1>. QED BY <1>1 DEF RedisInv

LEMMA RedisStep ==
  ASSUME Shallow, RedisFails = FALSE PROVE RedisInv /\ [Next]_vars => RedisInv'
<1>. SUFFICES ASSUME RedisInv, [Next]_vars PROVE RedisInv'
  OBVIOUS
<1>1. PathInv'
  BY PathStep DEF RedisInv
<1>2. CASE ProcessSteps
  <2>1. CASE Verify
    BY <1>1, <2>1, RedisBesides DEF Verify, database, counters
  <2>2. CASE Subscribe
    BY <1>1, <2>2, RedisBesides DEF Subscribe, database, counters
  <2>3. ASSUME NEW flush \in BOOLEAN, Receive(flush) PROVE RedisInv'
    <3>1. UNCHANGED <<blocks, crashes, redis, phase, unpublished>>
      BY <2>3 DEF Receive, database, counters
    <3>. QED BY <1>1, <3>1, RedisBesides
  <2>4. CASE StreamClosed
    BY <1>1, <2>4, RedisBesides DEF StreamClosed, database, counters
  <2>. QED BY <1>1, <1>2, <2>1, <2>2, <2>3, <2>4, RedisResume, RedisHandleBatch, RedisAfterCommit
         DEF ProcessSteps
<1>3. CASE SubscribeFails
  BY <1>1, <1>3, RedisBesides DEF SubscribeFails, database
<1>4. CASE StreamLost
  <2>1. UNCHANGED <<blocks, crashes, redis, phase, unpublished>>
    BY <1>4 DEF StreamLost, database
  <2>. QED BY <1>1, <2>1, RedisBesides
<1>5. CASE UNCHANGED vars
  <2>1. UNCHANGED <<blocks, crashes, redis, phase, unpublished>>
    BY <1>5 DEF vars, database, counters
  <2>. QED BY <1>1, <2>1, RedisBesides
<1>. QED BY <1>1, <1>2, <1>3, <1>4, <1>5, RedisNodeSteps, RedisCrash DEF Next

LEMMA RedisInit == Init => RedisInv
<1>. SUFFICES ASSUME Init PROVE RedisInv
  OBVIOUS
<1>1. ToPublish = Nothing /\ blocks = {}
  BY DEF Init, ToPublish
<1>. QED BY <1>1, PathInit DEF RedisInv, Published, LastWrote, Writers

(* With nothing under way, what will be published is what Redis holds. *)
LEMMA PublishedIsNewest == RedisInv => RedisIsNewest
<1>. SUFFICES ASSUME RedisInv, Idle, crashes = 0
              PROVE  redis = LastWriter \/ (redis # Nothing /\ ~Stored(redis))
  BY DEF RedisIsNewest
<1>1. Published(redis, blocks)
  BY DEF RedisInv, Idle, ToPublish
<1>2. CASE redis # Nothing /\ ~StoredIn(blocks, redis)
  BY <1>2 DEF StoredIn, Stored
<1>3. CASE redis = Nothing /\ Writers(blocks) = {}
  BY <1>3 DEF LastWriter, Writers
<1>4. ASSUME NEW w \in Writers(blocks), w.id = redis, \A x \in Writers(blocks) : x.uid <= w.uid
      PROVE  redis = LastWriter
  <2>. DEFINE W == Writers(blocks)
              v == CHOOSE b \in W : \A x \in W : x.uid <= b.uid
  <2>1. v \in W /\ \A x \in W : x.uid <= v.uid
    BY <1>4
  <2>2. LastWriter = v.id
    BY <1>4 DEF LastWriter, Writers
  <2>3. blocks \in SUBSET BlockRows(BlockIds) /\ IndexPath(blocks, node, parents)
    BY PathTyped DEF RedisInv, PathInv
  <2>4. W \subseteq blocks
    BY DEF Writers
  <2>. HIDE DEF v, W
  <2>5. v \in blocks /\ w \in blocks /\ v.uid <= w.uid /\ w.uid <= v.uid
    BY <1>4, <2>1, <2>4 DEF W
  <2>6. v = w
    <3>1. v.uid \in Nat /\ w.uid \in Nat
      BY <2>3, <2>5, PathRows
    <3>. QED BY <2>3, <2>5, <3>1, PathRows
  <2>. QED BY <1>4, <2>2, <2>6
<1>. QED BY <1>1, <1>2, <1>3, <1>4 DEF Published, LastWrote

(* As long as no publication is lost, neither in Redis nor in a crash, the *)
(* value that SET leaves behind was written by the newest writing block of *)
(* the index, or by a block that was rolled back.                          *)
THEOREM RedisHoldsNewest == ASSUME Shallow, RedisFails = FALSE PROVE Spec => []RedisIsNewest
<1>. QED BY RedisInit, RedisStep, PublishedIsNewest, PTL DEF Spec

-----------------------------------------------------------------------------
(* The pairs daemon. *)

Stopping ==
  /\ stopping <=> shutdown # "no"
  /\ grace => stopping
  /\ stopping => loop # "sleeping"
  /\ awaited => shutdown \in {"draining", "finished"}
  /\ shutdown = "draining" => (awaited <=> loop = "iterating")
  /\ shutdown = "closing" => loop = "over"
  /\ exit = "running" <=> shutdown # "finished"

DaemonInv == DaemonTypeOK /\ Stopping /\ PoolOutlivesLoop

USE DEF Running, ScheduleNext, ClearTimer, InFlight, TimedOut, Settle, Finish

LEMMA DaemonInitInv == DaemonInit => DaemonInv
  BY DaemonAssumption DEF DaemonInit, DaemonInv, DaemonTypeOK, Stopping, PoolOutlivesLoop

LEMMA DaemonStepInv == DaemonInv /\ [DaemonNext]_daemonVars => DaemonInv'
<1> SUFFICES ASSUME DaemonInv, [DaemonNext]_daemonVars PROVE DaemonInv'
  OBVIOUS
<1> USE DaemonAssumption DEF DaemonInv, DaemonTypeOK, Stopping, PoolOutlivesLoop
<1>1. CASE NextIteration
  BY <1>1 DEF NextIteration
<1>2. CASE IterationTimeout
  BY <1>2 DEF IterationTimeout
<1>3. ASSUME NEW t \in Transactions, TransactionEnds(t) PROVE DaemonInv'
  <2>1. CASE t = current
    BY <1>3, <2>1 DEF TransactionEnds
  <2>2. CASE t # current
    BY <1>3, <2>2 DEF TransactionEnds
  <2> QED
    BY <2>1, <2>2
<1>4. ASSUME NEW s \in Signals, Signal(s) PROVE DaemonInv'
  <2>1. CASE stopping
    BY <1>4, <2>1 DEF Signal
  <2>2. CASE ~stopping
    BY <1>4, <2>2 DEF Signal
  <2> QED
    BY <2>1, <2>2
<1>5. CASE CloseResources
  BY <1>5 DEF CloseResources, loopVars
<1>6. CASE PoolEnds
  BY <1>6 DEF PoolEnds
<1>7. CASE PoolEndFails
  BY <1>7 DEF PoolEndFails, loopVars
<1>8. CASE GraceExpires
  BY <1>8 DEF GraceExpires, loopVars
<1>9. CASE UNCHANGED daemonVars
  BY <1>9 DEF daemonVars, loopVars
<1> QED
  BY <1>1, <1>2, <1>3, <1>4, <1>5, <1>6, <1>7, <1>8, <1>9 DEF DaemonNext

(* The state of the daemon keeps its shape: an iteration in flight waits   *)
(* for one open transaction, and nothing else does.                        *)
THEOREM DaemonTypeCorrect == DaemonSpec => []DaemonTypeOK
<1>1. DaemonInv => DaemonTypeOK
  BY DEF DaemonInv
<1> QED
  BY DaemonInitInv, DaemonStepInv, <1>1, PTL DEF DaemonSpec

(* The pool is never closed under a running iteration.                     *)
THEOREM PoolClosedLast == DaemonSpec => []PoolOutlivesLoop
<1>1. DaemonInv => PoolOutlivesLoop
  BY DEF DaemonInv
<1> QED
  BY DaemonInitInv, DaemonStepInv, <1>1, PTL DEF DaemonSpec

(* After stop() no iteration begins.                                       *)
THEOREM NothingAfterStop == DaemonSpec => StopIsFinal
<1> DEFINE Final == stopping /\ current # current' => current' = None
<1>1. DaemonInv /\ [DaemonNext]_daemonVars => [Final]_daemonVars
  <2> SUFFICES ASSUME DaemonInv, DaemonNext, stopping, current # current' PROVE current' = None
    OBVIOUS
  <2> USE DaemonAssumption DEF DaemonInv, DaemonTypeOK, Stopping
  <2>1. CASE NextIteration
    BY <2>1 DEF NextIteration
  <2>2. CASE IterationTimeout
    BY <2>2 DEF IterationTimeout
  <2>3. ASSUME NEW t \in Transactions, TransactionEnds(t) PROVE current' = None
    BY <2>3 DEF TransactionEnds
  <2>4. ASSUME NEW s \in Signals, Signal(s) PROVE FALSE
    BY <2>4 DEF Signal
  <2>5. CASE CloseResources \/ PoolEnds \/ PoolEndFails \/ GraceExpires
    BY <2>5 DEF CloseResources, PoolEnds, PoolEndFails, GraceExpires, loopVars
  <2> QED
    BY <2>1, <2>2, <2>3, <2>4, <2>5 DEF DaemonNext
<1> QED
  BY DaemonInitInv, DaemonStepInv, <1>1, PTL DEF DaemonSpec, StopIsFinal

=============================================================================
