--------------------------- MODULE BlockTrackerProofs ---------------------------
(***************************************************************************)
(* Proofs about BlockTracker for every chain, every reorganisation depth   *)
(* and every block.  new_block takes a prefix off the pool's history and   *)
(* leaves the rest as it is; everything TxExecution promises about the     *)
(* history survives that.                                                  *)
(***************************************************************************)
EXTENDS BlockTracker, LedgerProofs

USE DEF setupVars, execVars, vars, chainVars, trackVars, blockVars, MayReport

-------------------------------------------------------------------------------
(* What new_block does to the pool.                                        *)

\* The k oldest states go; at least one stays if there was one.
Cut(k) ==
  /\ k \in Nat
  /\ k = 0 \/ k < Len(states)
  /\ states' \in Seq(PoolStateType)
  /\ Len(states') = Len(states) - k
  /\ \A i \in 1 .. Len(states') : states'[i] = states[k + i]

LEMMA NewBlockCuts ==
  ASSUME TypeOK, NEW h, NEW hash, NEW txs, NewBlock(h, hash, txs)
  PROVE  /\ \E k \in Nat : Cut(k)
         /\ UNCHANGED <<runeName, address, gameStatus, keyCalls,
                        gamers, principals, calls>>
<1>1. UNCHANGED <<runeName, address, gameStatus, keyCalls, gamers, principals, calls>>
  BY DEF NewBlock
<1>2. PICK settled : \/ UNCHANGED states
                     \/ /\ \A t \in settled : HasTx(states, t)
                        /\ states' = FinalizeAll(states, settled)
  BY DEF NewBlock, CanProcess, CanFinalizeAll
<1>3. states \in Seq(PoolStateType) /\ Len(states) \in Nat
  BY LenProperties DEF TypeOK
<1>4. CASE UNCHANGED states
  <2>1. \A i \in 1 .. Len(states) : 0 + i = i
    BY <1>3
  <2>. QED BY <1>1, <1>3, <1>4, <2>1 DEF Cut
<1>5. CASE ~UNCHANGED states
  <2>1. settled # {}
    BY <1>2, <1>5 DEF FinalizeAll
  <2>2. PICK t \in settled : states' = Finalize(states, t) /\ HasTx(states, t)
    BY <1>2, <1>3, <1>5, <2>1, FinalizeAllIs
  <2> DEFINE p == Position(states, t)
  <2>3. p \in 1 .. Len(states)
    BY <1>3, <2>2, PositionIsFirst
  <2>4. /\ states' \in Seq(PoolStateType) /\ Len(states') = Len(states) - p + 1
        /\ \A i \in 1 .. Len(states') : states'[i] = states[p + i - 1]
    BY <1>3, <2>2, FinalizeIsSuffix
  <2>. HIDE DEF p
  <2>5. /\ p - 1 \in Nat /\ p - 1 < Len(states) /\ Len(states') = Len(states) - (p - 1)
        /\ \A i \in 1 .. Len(states') : p + i - 1 = (p - 1) + i
    BY <1>3, <2>3, <2>4
  <2>6. Cut(p - 1)
    BY <2>4, <2>5 DEF Cut
  <2>. QED BY <1>1, <2>5, <2>6
<1>. QED BY <1>4, <1>5

LEMMA CutFacts ==
  ASSUME TypeOK, NEW k \in Nat, Cut(k)
  PROVE  /\ Len(states) \in Nat /\ DOMAIN states = 1 .. Len(states)
         /\ Len(states') \in Nat /\ DOMAIN states' = 1 .. Len(states')
         /\ states' = <<>> <=> states = <<>>
         /\ \A i \in DOMAIN states' : k + i \in DOMAIN states /\ states'[i] = states[k + i]
         /\ LastOf(states)' = LastOf(states)
<1>1. /\ Len(states) \in Nat /\ DOMAIN states = 1 .. Len(states)
      /\ Len(states') \in Nat /\ DOMAIN states' = 1 .. Len(states')
  BY LenProperties DEF TypeOK, Cut
<1>2. Len(states') = Len(states) - k /\ (k = 0 \/ k < Len(states))
  BY DEF Cut
<1>3. states' = <<>> <=> states = <<>>
  <2>1. ASSUME NEW m \in Nat, NEW n \in Nat, n = m - k, k = 0 \/ k < m
        PROVE  n = 0 <=> m = 0
    BY <2>1
  <2>. QED BY <1>1, <1>2, <2>1, EmptySeq DEF TypeOK, Cut
<1>4. \A i \in DOMAIN states' : k + i \in DOMAIN states /\ states'[i] = states[k + i]
  <2>1. ASSUME NEW m \in Nat, NEW n \in Nat, n = m - k, NEW i \in 1 .. n
        PROVE  k + i \in 1 .. m
    BY <2>1
  <2>2. ASSUME NEW i \in 1 .. Len(states') PROVE k + i \in 1 .. Len(states)
    BY <1>1, <1>2, <2>1
  <2>3. \A i \in 1 .. Len(states') : states'[i] = states[k + i]
    BY Zenon DEF Cut
  <2>. QED BY <1>1, <2>2, <2>3
<1>5. LastOf(states)' = LastOf(states)
  <2>1. CASE states = <<>>
    BY <1>3, <2>1 DEF LastOf
  <2>2. CASE states # <<>>
    <3>1. Len(states') \in DOMAIN states'
      BY <1>1, <1>3, <2>2, EmptySeq DEF Cut
    <3>2. k + Len(states') = Len(states)
      BY <1>1, <1>2
    <3>. QED BY <1>4, <3>1, <3>2 DEF LastOf
  <2>. QED BY <2>1, <2>2
<1>. QED BY <1>1, <1>3, <1>4, <1>5

(* A cut keeps the invariants of TxExecution.                              *)
LEMMA CutKeepsSetupInv ==
  ASSUME TypeOK, SetupInv, NEW k \in Nat, Cut(k),
         UNCHANGED <<runeName, address, gameStatus, keyCalls, calls>>
  PROVE  SetupInv'
<1>1. StatusInv' /\ KeyInv'
  BY CutFacts DEF SetupInv, StatusInv, KeyInv
<1>2. QuietInv'
  BY CutFacts DEF SetupInv, QuietInv, InFlight, IsRegister
<1>3. InitsFirst'
  <2>1. ASSUME NEW i \in DOMAIN states', NEW j \in DOMAIN states', i < j,
               IsRegister(states'[i])
        PROVE  IsRegister(states'[j])
    <3>1. /\ k + i \in DOMAIN states /\ k + j \in DOMAIN states
          /\ states'[i] = states[k + i] /\ states'[j] = states[k + j]
      BY CutFacts
    <3>2. k + i < k + j
      BY CutFacts, <2>1
    <3>. QED BY <2>1, <3>1, <3>2 DEF SetupInv, InitsFirst
  <2>. QED BY <2>1 DEF InitsFirst, IsRegister
<1>4. CallInv'
  BY DEF SetupInv, CallInv, InFlight
<1>. QED BY <1>1, <1>2, <1>3, <1>4 DEF SetupInv

LEMMA CutKeepsHistory ==
  ASSUME TypeOK, HistoryInv, NEW k \in Nat, Cut(k), UNCHANGED <<gamers, calls>>
  PROVE  HistoryInv'
<1>1. FitInv'
  BY CutFacts DEF HistoryInv, FitInv, Fits, InFlight
<1>2. StatesChained'
  <2>1. ASSUME NEW i \in 2 .. Len(states'), IsRegister(states'[i])
        PROVE  /\ Spends[states'[i].id] = states'[i - 1].outpoint
               /\ states'[i].nonce = states'[i - 1].nonce + 1
               /\ states'[i].sats = states'[i - 1].sats + Fee
    <3>1. i \in DOMAIN states' /\ i - 1 \in DOMAIN states'
      BY CutFacts, <2>1
    <3>2. states'[i] = states[k + i] /\ states'[i - 1] = states[k + (i - 1)]
      BY CutFacts, <3>1
    <3>3. k + i \in 2 .. Len(states) /\ k + (i - 1) = (k + i) - 1
      <4>1. k + i \in 1 .. Len(states) /\ i \in Int /\ i >= 2
        BY CutFacts, <2>1, <3>1
      <4>. QED BY <4>1
    <3>. QED BY <2>1, <3>2, <3>3 DEF HistoryInv, StatesChained
  <2>. QED BY <2>1 DEF StatesChained, IsRegister
<1>3. OneStatePerGamer'
  <2>1. ASSUME NEW i \in DOMAIN states', IsRegister(states'[i])
        PROVE  /\ states'[i].gamer \in DOMAIN gamers
               /\ \A j \in DOMAIN states' :
                    IsRegister(states'[j]) /\ states'[j].gamer = states'[i].gamer => i = j
    <3>1. k + i \in DOMAIN states /\ states'[i] = states[k + i]
      BY CutFacts
    <3>2. ASSUME NEW j \in DOMAIN states', IsRegister(states'[j]),
                 states'[j].gamer = states'[i].gamer
          PROVE  i = j
      <4>1. k + j \in DOMAIN states /\ states'[j] = states[k + j]
        BY CutFacts
      <4>2. k + i = k + j
        BY <2>1, <3>1, <3>2, <4>1 DEF HistoryInv, OneStatePerGamer
      <4>3. i \in 1 .. Len(states') /\ j \in 1 .. Len(states')
        BY CutFacts
      <4>. QED BY <4>2, <4>3
    <3>. QED BY <2>1, <3>1, <3>2 DEF HistoryInv, OneStatePerGamer
  <2>. QED BY <2>1 DEF OneStatePerGamer, IsRegister
<1>. QED BY <1>1, <1>2, <1>3 DEF HistoryInv

LEMMA CutKeepsFund ==
  ASSUME TypeOK, FundInv, NEW k \in Nat, Cut(k), UNCHANGED gamers
  PROVE  FundInv'
<1>1. ChainInv'
  <2>1. ASSUME NEW i \in DOMAIN states', NEW j \in DOMAIN states', i < j,
               IsRegister(states'[i + 1])
        PROVE  /\ states'[j].nonce = states'[i].nonce + (j - i)
               /\ states'[j].sats = states'[i].sats + Fee * (j - i)
    <3>1. i + 1 \in DOMAIN states' /\ i \in Int /\ j \in Int
      BY CutFacts, <2>1
    <3>2. /\ k + i \in DOMAIN states /\ states'[i] = states[k + i]
          /\ k + j \in DOMAIN states /\ states'[j] = states[k + j]
          /\ states'[i + 1] = states[k + (i + 1)]
      BY CutFacts, <3>1
    <3>3. /\ k + i < k + j /\ k + (i + 1) = (k + i) + 1
          /\ (k + j) - (k + i) = j - i
      BY <2>1, <3>1
    <3>. QED BY <2>1, <3>2, <3>3 DEF FundInv, ChainInv
  <2>. QED BY <2>1 DEF ChainInv, IsRegister
<1>2. OriginInv'
  BY CutFacts DEF FundInv, OriginInv, IsRegister
<1>3. CountInv'
  BY CutFacts DEF FundInv, CountInv, PoolHoldsFees
<1>. QED BY <1>1, <1>2, <1>3 DEF FundInv

-------------------------------------------------------------------------------
(* The heights of the chain.                                               *)

HeightInv ==
  /\ \/ chain = << >> /\ DOMAIN chain = {} /\ Tip = 0
     \/ /\ chain # << >> /\ Tip \in FirstHeight .. MaxHeight
        /\ DOMAIN chain = FirstHeight .. Tip
  /\ peak \in {0} \cup FirstHeight .. MaxHeight
  /\ peak >= Tip

LEMMA MaxOfInterval ==
  ASSUME NEW a \in Nat, NEW b \in Nat, a <= b
  PROVE  Max(a .. b) = b
<1>1. IsFiniteSet(a .. b)
  BY FS_Interval
<1>2. a .. b \in SUBSET Int /\ a .. b # {} /\ b \in a .. b
  OBVIOUS
<1>3. Max(a .. b) \in a .. b /\ \A y \in a .. b : y <= Max(a .. b)
  BY <1>1, <1>2, MaxIsGreatest
<1>. QED BY <1>2, <1>3

LEMMA MaxOfTwo ==
  ASSUME NEW a \in Nat, NEW b \in Nat
  PROVE  Max({a, b}) \in {a, b} /\ Max({a, b}) >= a /\ Max({a, b}) >= b
<1>1. {a, b} \in SUBSET Int /\ {a, b} # {}
  OBVIOUS
<1>2. IsFiniteSet({a, b})
  <2>1. IsFiniteSet({a} \cup {b})
    BY FS_Singleton, FS_AddElement
  <2>2. {a, b} = {a} \cup {b}
    OBVIOUS
  <2>. QED BY <2>1, <2>2
<1>3. Max({a, b}) \in {a, b} /\ \A y \in {a, b} : y <= Max({a, b})
  BY <1>1, <1>2, MaxIsGreatest
<1>. QED BY <1>3

Block(hash, txs) == [hash |-> hash, txs |-> txs]

(* A block ends the chain, one higher than before or where it was.         *)
LEMMA MineFacts ==
  ASSUME HeightInv, NEW h \in FirstHeight .. MaxHeight, NEW hash, NEW txs,
         h = NextHeight \/ h \in DOMAIN chain, MineAt(h, hash, txs)
  PROVE  /\ HeightInv'
         /\ DOMAIN chain' = FirstHeight .. h /\ Tip' = h /\ peak' >= peak
         /\ chain'[h] = Block(hash, txs)
         /\ \A g \in FirstHeight .. h - 1 : g \in DOMAIN chain /\ chain'[g] = chain[g]
<1>1. /\ FirstHeight \in Nat \ {0} /\ MaxHeight \in Nat /\ h \in Nat
      /\ FirstHeight <= h /\ h <= MaxHeight
  BY HeightAssumption
<1>2. \/ chain = << >> /\ DOMAIN chain = {} /\ h = FirstHeight
      \/ /\ Tip \in FirstHeight .. MaxHeight /\ DOMAIN chain = FirstHeight .. Tip
         /\ h \in FirstHeight .. Tip + 1
  BY <1>1 DEF HeightInv, NextHeight
<1>3. DOMAIN chain' = {f \in DOMAIN chain : f < h} \cup {h}
  BY DEF MineAt
<1>4. DOMAIN chain' = FirstHeight .. h
  <2>1. CASE chain = << >> /\ DOMAIN chain = {} /\ h = FirstHeight
    BY <1>1, <1>3, <2>1
  <2>2. CASE /\ Tip \in FirstHeight .. MaxHeight /\ DOMAIN chain = FirstHeight .. Tip
             /\ h \in FirstHeight .. Tip + 1
    <3>1. Tip \in Nat
      BY <1>1, <2>2
    <3>2. \A g : g \in {f \in FirstHeight .. Tip : f < h} \cup {h} <=> g \in FirstHeight .. h
      <4>. HIDE DEF Tip
      <4>. QED BY <1>1, <2>2, <3>1
    <3>. QED BY <1>3, <2>2, <3>2
  <2>. QED BY <1>2, <2>1, <2>2
<1>5. chain' # << >> /\ Tip' = h
  <2>1. h \in DOMAIN chain'
    BY <1>3
  <2>2. chain' # << >>
    BY <2>1
  <2>. QED BY <1>1, <1>4, <2>2, MaxOfInterval DEF Tip
<1>6. peak' \in {peak, h} /\ peak' >= peak /\ peak' >= h
  <2>1. peak \in Nat
    BY <1>1 DEF HeightInv
  <2>. QED BY <1>1, <2>1, MaxOfTwo DEF MineAt
<1>7. HeightInv'
  <2>1. peak' \in {0} \cup FirstHeight .. MaxHeight
    BY <1>6 DEF HeightInv
  <2>. QED BY <1>4, <1>5, <1>6, <2>1 DEF HeightInv
<1>8. chain'[h] = Block(hash, txs)
  BY DEF MineAt, Block
<1>9. ASSUME NEW g \in FirstHeight .. h - 1
      PROVE  g \in DOMAIN chain /\ chain'[g] = chain[g]
  <2>1. g < h /\ g # h /\ g \in DOMAIN chain'
    BY <1>1, <1>4, <1>9
  <2>. QED BY <1>3, <2>1 DEF MineAt
<1>. QED BY <1>4, <1>5, <1>6, <1>7, <1>8, <1>9

-------------------------------------------------------------------------------
(* The steps of BlockNext: one of TxExecution, a reset, or a block.        *)

\* A new block: the next one, or one that replaces a block of the chain.
Mining(h, hash, txs) ==
  /\ \/ h = NextHeight
     \/ h \in DOMAIN chain /\ (h \in DOMAIN blocks \/ h > ConfirmedHeight(peak))
  /\ h \in DOMAIN chain => hash # chain[h].hash
  /\ Mineable(txs, h)
  /\ MineAt(h, hash, txs)
  /\ reorgs' \in 0 .. MaxReorgs

\* A block of the chain again.
Repeating(h, hash, txs) ==
  /\ h \in DOMAIN chain /\ Block(hash, txs) = chain[h]
  /\ h \in DOMAIN blocks \/ h > ConfirmedHeight(peak)
  /\ UNCHANGED chainVars

Reported(h, hash, txs) ==
  /\ NewBlock(h, hash, txs)
  /\ Mining(h, hash, txs) \/ Repeating(h, hash, txs)
  /\ UNCHANGED resets

TrackInv == BlockTypeOK /\ HeightInv

LEMMA TxListsAreSeqs == ASSUME NEW txs \in TxLists PROVE txs \in Seq(Txids)
<1>1. MaxTxs \in Nat /\ txs \in UNION {[1 .. n -> Txids] : n \in 0 .. MaxTxs}
  BY HeightAssumption DEF TxLists
<1>. QED BY <1>1

LEMMA BlockReported ==
  ASSUME TrackInv,
         \/ Extend
         \/ \E h \in DOMAIN chain, hash \in Hashes, txs \in TxLists :
              ReplaceBlock(h, hash, txs)
         \/ \E h \in DOMAIN chain : RepeatBlock(h)
  PROVE  \E h \in FirstHeight .. MaxHeight, hash \in Hashes, txs \in Seq(Txids) :
           Reported(h, hash, txs)
<1> DEFINE AnyReport ==
             \E h \in FirstHeight .. MaxHeight, hash \in Hashes, txs \in Seq(Txids) :
               Reported(h, hash, txs)
<1>1. /\ FirstHeight \in Nat \ {0} /\ MaxHeight \in Nat /\ MaxReorgs \in Nat
      /\ reorgs \in 0 .. MaxReorgs
      /\ DOMAIN chain \subseteq FirstHeight .. MaxHeight
  BY HeightAssumption DEF TrackInv, BlockTypeOK, HeightInv
<1>2. ASSUME NEW hash \in Hashes, NEW txs \in TxLists, ExtendChain(hash, txs)
      PROVE  AnyReport
  <2>1. NextHeight \in FirstHeight .. MaxHeight /\ NextHeight \notin DOMAIN chain
    BY <1>1, <1>2 DEF ExtendChain, NextHeight, TrackInv, HeightInv
  <2>2. PICK h \in FirstHeight .. MaxHeight : h = NextHeight
    BY <2>1
  <2>3. /\ Mineable(txs, NextHeight) /\ NewBlock(NextHeight, hash, txs)
        /\ MineAt(NextHeight, hash, txs) /\ UNCHANGED <<reorgs, resets>>
    BY <1>2 DEF ExtendChain
  <2>4. Mineable(txs, h)
    BY <2>2, <2>3
  <2>5. MineAt(h, hash, txs)
    BY <2>2, <2>3 DEF MineAt
  <2>6. NewBlock(h, hash, txs)
    BY <2>2, <2>3 DEF NewBlock
  <2>7. h \notin DOMAIN chain /\ reorgs' \in 0 .. MaxReorgs /\ UNCHANGED resets
    BY <1>1, <2>1, <2>2, <2>3
  <2>8. Mining(h, hash, txs)
    BY <2>2, <2>4, <2>5, <2>7 DEF Mining
  <2>9. Reported(h, hash, txs)
    BY <2>6, <2>7, <2>8 DEF Reported
  <2>. QED BY <2>9, TxListsAreSeqs
<1>3. ASSUME NEW h \in DOMAIN chain, NEW hash \in Hashes, NEW txs \in TxLists,
             ReplaceBlock(h, hash, txs)
      PROVE  AnyReport
  <2>1. reorgs' \in 0 .. MaxReorgs
    BY <1>1, <1>3 DEF ReplaceBlock
  <2>2. Reported(h, hash, txs)
    BY <1>3, <2>1 DEF ReplaceBlock, Reported, Mining
  <2>. QED BY <1>1, <2>2, TxListsAreSeqs
<1>4. ASSUME NEW h \in DOMAIN chain, RepeatBlock(h) PROVE AnyReport
  <2>1. chain[h] \in BlockType
    BY DEF TrackInv, BlockTypeOK
  <2>2. PICK hash \in Hashes, txs \in Seq(Txids) :
          hash = chain[h].hash /\ txs = chain[h].txs /\ chain[h] = Block(hash, txs)
    BY <2>1 DEF BlockType, Block
  <2>3. Reported(h, hash, txs)
    BY <1>4, <2>2 DEF RepeatBlock, Reported, Repeating, Block
  <2>. QED BY <1>1, <2>3
<1>. QED BY <1>2, <1>3, <1>4 DEF Extend

LEMMA BlockNextCases ==
  ASSUME TrackInv, [BlockNext]_blockVars
  PROVE  \/ [Next]_vars /\ UNCHANGED trackVars
         \/ ResetBlocks
         \/ \E h \in FirstHeight .. MaxHeight, hash \in Hashes, txs \in Seq(Txids) :
              Reported(h, hash, txs)
BY BlockReported DEF BlockNext, TrackNext, RollbackUnmined, Next, Execute

-------------------------------------------------------------------------------
(* What new_block does to the stored blocks and to the records.            *)

\* The heights of the stored blocks that stay as they are.
KeptHeights(h, hash) ==
  IF Replaces(h, hash) THEN {g \in DOMAIN blocks : g < h} ELSE DOMAIN blocks \ {h}

TxSet(txs) == {txs[i] : i \in DOMAIN txs}

LEMMA StoredBlocksAre ==
  ASSUME NEW h, NEW hash, NEW txs
  PROVE  StoredBlocks(h, hash, txs) =
           [g \in KeptHeights(h, hash) \cup {h} |->
              IF g = h THEN Block(hash, txs) ELSE blocks[g]]
<1>1. CASE Replaces(h, hash)
  <2>1. DOMAIN ReorgBlocks(h) = {g \in DOMAIN blocks : g < h}
    BY DEF ReorgBlocks, Keep
  <2>2. \A g \in DOMAIN ReorgBlocks(h) : ReorgBlocks(h)[g] = blocks[g]
    BY DEF ReorgBlocks, Keep
  <2>. QED BY <1>1, <2>1, <2>2 DEF Insert, StoredBlocks, KeptHeights, Block
<1>2. CASE ~Replaces(h, hash)
  BY <1>2 DEF Insert, StoredBlocks, KeptHeights, Block
<1>. QED BY <1>1, <1>2

\* The transactions that new_block finalizes.
LoopTxs(h, hash, txs) ==
  Settling(Deep(StoredBlocks(h, hash, txs), ConfirmedHeight(h)), NewRecords(h, hash, txs))

LEMMA LoopTxsAre ==
  ASSUME NEW h, NEW hash, NEW txs, NEW t \in LoopTxs(h, hash, txs)
  PROVE  /\ <<t, TRUE>> \in NewRecords(h, hash, txs)
         /\ \E g \in DOMAIN StoredBlocks(h, hash, txs) :
              g <= ConfirmedHeight(h) /\ t \in TxSet(StoredBlocks(h, hash, txs)[g].txs)
<1> DEFINE stored == StoredBlocks(h, hash, txs)
           deep   == Deep(stored, ConfirmedHeight(h))
<1>1. t \in TxsOf(deep, DOMAIN deep) /\ <<t, TRUE>> \in NewRecords(h, hash, txs)
  BY DEF LoopTxs, Settling
<1>2. PICK g \in DOMAIN deep : t \in TxSet(deep[g].txs)
  BY <1>1 DEF TxsOf, TxSet
<1>3. g \in DOMAIN stored /\ g <= ConfirmedHeight(h) /\ deep[g] = stored[g]
  BY DEF Deep, Keep
<1>. QED BY <1>1, <1>2, <1>3

LEMMA NewBlockIs ==
  ASSUME NEW h, NEW hash, NEW txs, NewBlock(h, hash, txs)
  PROVE  LET stored  == StoredBlocks(h, hash, txs)
             settled == LoopTxs(h, hash, txs)
         IN  /\ Accepted(h)
             /\ txRecords' = NewRecords(h, hash, txs)
             /\ \/ address = None /\ blocks' = stored /\ UNCHANGED states
                \/ /\ address # None
                   /\ CanFinalizeAll(states, Deep(stored, ConfirmedHeight(h)), settled)
                   /\ states' = FinalizeAll(states, settled)
                   /\ blocks' = Prune(stored, ConfirmedHeight(h))
BY DEF NewBlock, CanProcess, LoopTxs

(* A pruned block is gone for good: it has MaxDepth confirmations.         *)
LEMMA BlocksAfter ==
  ASSUME NEW h, NEW hash, NEW txs, NewBlock(h, hash, txs)
  PROVE  /\ \A g \in DOMAIN blocks' : g = h \/ g \in KeptHeights(h, hash)
         /\ h \in DOMAIN blocks' => blocks'[h] = Block(hash, txs)
         /\ \A g \in DOMAIN blocks' : g # h => blocks'[g] = blocks[g]
         /\ \/ h \in DOMAIN blocks' /\ \A g \in KeptHeights(h, hash) : g \in DOMAIN blocks'
            \/ /\ \A g \in DOMAIN blocks' : g > ConfirmedHeight(h)
               /\ h > ConfirmedHeight(h) => h \in DOMAIN blocks'
               /\ \A g \in KeptHeights(h, hash) : g > ConfirmedHeight(h) => g \in DOMAIN blocks'
<1>1. DOMAIN StoredBlocks(h, hash, txs) = KeptHeights(h, hash) \cup {h}
  BY StoredBlocksAre
<1>2. /\ StoredBlocks(h, hash, txs)[h] = Block(hash, txs)
      /\ \A g \in KeptHeights(h, hash) : g # h => StoredBlocks(h, hash, txs)[g] = blocks[g]
  BY StoredBlocksAre
<1>3. CASE blocks' = StoredBlocks(h, hash, txs)
  BY <1>1, <1>2, <1>3
<1>4. CASE blocks' = Prune(StoredBlocks(h, hash, txs), ConfirmedHeight(h))
  <2>1. /\ DOMAIN blocks' = {g \in KeptHeights(h, hash) \cup {h} : g > ConfirmedHeight(h)}
        /\ \A g \in DOMAIN blocks' : blocks'[g] = StoredBlocks(h, hash, txs)[g]
    BY <1>1, <1>4 DEF Prune, Keep
  <2>. QED BY <1>2, <2>1
<1>. QED BY <1>3, <1>4, NewBlockIs

-------------------------------------------------------------------------------
(* Types.                                                                  *)

LEMMA RecordsAfterTyped ==
  ASSUME BlockTypeOK, NEW h, NEW hash, NEW txs \in Seq(Txids)
  PROVE  NewRecords(h, hash, txs) \subseteq Txids \X BOOLEAN
<1>1. txRecords \subseteq Txids \X BOOLEAN
  BY DEF BlockTypeOK, TypeOK
<1>2. ASSUME NEW base, base \subseteq Txids \X BOOLEAN
      PROVE  ConfirmRecords(base, TxSet(txs)) \subseteq Txids \X BOOLEAN
  <2>1. TxSet(txs) \subseteq Txids
    BY DEF TxSet
  <2>2. {u \in TxSet(txs) : <<u, FALSE>> \in base} \subseteq Txids
    BY <2>1
  <2>3. \A t \in {u \in TxSet(txs) : <<u, FALSE>> \in base} : <<t, TRUE>> \in Txids \X BOOLEAN
    BY <2>2
  <2>. QED BY <1>2, <2>3, Zenon DEF ConfirmRecords
<1>3. ReorgRecords(h) \subseteq Txids \X BOOLEAN
  <2> DEFINE undone == {t \in TxsOf(blocks, {g \in DOMAIN blocks : g >= h}) :
                          <<t, TRUE>> \in txRecords}
  <2>1. undone \subseteq Txids
    BY <1>1
  <2>2. ReorgRecords(h) = (txRecords \ (undone \X {TRUE})) \cup (undone \X {FALSE})
    BY DEF ReorgRecords
  <2>. HIDE DEF undone
  <2>. QED BY <1>1, <2>1, <2>2
<1>. QED BY <1>1, <1>2, <1>3 DEF NewRecords, TxSet

LEMMA ReportKeepsTypes ==
  ASSUME TypeOK, TrackInv, NEW h \in FirstHeight .. MaxHeight, NEW hash \in Hashes,
         NEW txs \in Seq(Txids), Reported(h, hash, txs)
  PROVE  TrackInv'
<1>1. NewBlock(h, hash, txs) /\ UNCHANGED resets
  BY DEF Reported
<1>2. TypeOK'
  <2>1. states' \in Seq(PoolStateType)
    BY <1>1, NewBlockCuts DEF Cut
  <2>2. txRecords' \subseteq Txids \X BOOLEAN
    BY <1>1, NewBlockIs, RecordsAfterTyped DEF TrackInv
  <2>. QED BY <1>1, <2>1, <2>2, NewBlockCuts DEF TypeOK
<1>3. /\ DOMAIN blocks' \subseteq FirstHeight .. MaxHeight
      /\ blocks' \in [DOMAIN blocks' -> BlockType]
  <2>1. KeptHeights(h, hash) \subseteq DOMAIN blocks
    BY DEF KeptHeights
  <2>2. /\ DOMAIN blocks \subseteq FirstHeight .. MaxHeight
        /\ \A g \in DOMAIN blocks : blocks[g] \in BlockType
    BY DEF TrackInv, BlockTypeOK
  <2>3. Block(hash, txs) \in BlockType
    BY DEF BlockType, Block
  <2>6. /\ \A g \in DOMAIN blocks' : g = h \/ g \in KeptHeights(h, hash)
        /\ h \in DOMAIN blocks' => blocks'[h] = Block(hash, txs)
        /\ \A g \in DOMAIN blocks' : g # h => blocks'[g] = blocks[g]
    BY <1>1, BlocksAfter
  <2>4. DOMAIN blocks' \subseteq FirstHeight .. MaxHeight
    BY <2>1, <2>2, <2>6
  <2>5. ASSUME NEW g \in DOMAIN blocks' PROVE blocks'[g] \in BlockType
    <3>1. g = h \/ g \in DOMAIN blocks
      BY <2>1, <2>6
    <3>. QED BY <2>2, <2>3, <2>6, <3>1
  <2>7. blocks' = [g \in DOMAIN blocks' |-> blocks'[g]]
    BY <1>1, NewBlockIs, StoredBlocksAre DEF Prune, Keep
  <2>. QED BY <2>4, <2>5, <2>7
<1>4. CASE Repeating(h, hash, txs)
  <2>1. UNCHANGED chainVars /\ Tip' = Tip
    BY <1>4 DEF Repeating, Tip
  <2>. QED BY <1>1, <1>2, <1>3, <2>1 DEF TrackInv, BlockTypeOK, HeightInv
<1>5. CASE Mining(h, hash, txs)
  <2>1. /\ HeightInv' /\ DOMAIN chain' = FirstHeight .. h /\ Tip' = h
        /\ chain'[h] = Block(hash, txs)
        /\ \A g \in FirstHeight .. h - 1 : g \in DOMAIN chain /\ chain'[g] = chain[g]
    BY <1>5, MineFacts DEF Mining, TrackInv
  <2>2. ASSUME NEW g \in DOMAIN chain' PROVE chain'[g] \in BlockType
    <3>1. g = h \/ g \in FirstHeight .. h - 1
      BY <2>1, HeightAssumption
    <3>2. \A f \in DOMAIN chain : chain[f] \in BlockType
      BY DEF TrackInv, BlockTypeOK
    <3>. QED BY <2>1, <3>1, <3>2 DEF BlockType, Block
  <2>3. chain' = [g \in DOMAIN chain' |-> chain'[g]]
    BY <1>5 DEF Mining, MineAt
  <2>4. chain' \in [DOMAIN chain' -> BlockType]
    BY <2>2, <2>3
  <2>5. reorgs' \in 0 .. MaxReorgs /\ resets' \in 0 .. MaxResets
    BY <1>1, <1>5 DEF Mining, TrackInv, BlockTypeOK
  <2>. QED BY <1>2, <1>3, <2>1, <2>4, <2>5 DEF TrackInv, BlockTypeOK, HeightInv
<1>. QED BY <1>4, <1>5 DEF Reported

LEMMA ResetKeepsTypes ==
  ASSUME TrackInv, ResetBlocks
  PROVE  TrackInv'
<1>1. TypeOK' /\ Tip' = Tip
  BY DEF ResetBlocks, TrackInv, BlockTypeOK, TypeOK, Tip
<1>2. resets' \in 0 .. MaxResets
  BY HeightAssumption DEF ResetBlocks, TrackInv, BlockTypeOK
<1>3. /\ DOMAIN blocks' \subseteq FirstHeight .. MaxHeight
      /\ blocks' \in [DOMAIN blocks' -> BlockType]
  BY DEF ResetBlocks
<1>4. UNCHANGED chainVars
  BY DEF ResetBlocks
<1>. QED BY <1>1, <1>2, <1>3, <1>4 DEF TrackInv, BlockTypeOK, HeightInv

LEMMA BlockStepKeepsTypes ==
  ASSUME TrackInv, [BlockNext]_blockVars
  PROVE  TrackInv'
<1>1. TypeOK
  BY DEF TrackInv, BlockTypeOK
<1>2. CASE [Next]_vars /\ UNCHANGED trackVars
  <2>1. TypeOK'
    BY <1>1, <1>2, StepKeepsTypes
  <2>2. Tip' = Tip
    BY <1>2 DEF Tip
  <2>. QED BY <1>2, <2>1, <2>2 DEF TrackInv, BlockTypeOK, HeightInv
<1>3. CASE ResetBlocks
  BY <1>3, ResetKeepsTypes
<1>4. ASSUME NEW h \in FirstHeight .. MaxHeight, NEW hash \in Hashes,
             NEW txs \in Seq(Txids), Reported(h, hash, txs)
      PROVE  TrackInv'
  BY <1>1, <1>4, ReportKeepsTypes
<1>. QED BY <1>2, <1>3, <1>4, BlockNextCases

LEMMA BlockInitTypes ==
  ASSUME BlockInit
  PROVE  TrackInv
<1>1. TypeOK
  BY InitTypes DEF BlockInit
<1>2. /\ blocks = << >> /\ chain = << >> /\ DOMAIN blocks = {} /\ DOMAIN chain = {}
      /\ peak = 0 /\ reorgs = 0 /\ resets = 0 /\ Tip = 0
  BY DEF BlockInit, TrackInit, Tip
<1>3. FirstHeight .. 0 = {} /\ 0 \in 0 .. MaxReorgs /\ 0 \in 0 .. MaxResets /\ 0 >= 0
  BY HeightAssumption
<1>4. HeightInv
  BY <1>2, <1>3 DEF HeightInv
<1>. QED BY <1>1, <1>2, <1>3, <1>4 DEF TrackInv, BlockTypeOK

(* Every variable of the block tracker keeps its type.                     *)
THEOREM BlockTypeCorrect == BlockSpec => []BlockTypeOK
<1>1. BlockInit => TrackInv
  BY BlockInitTypes
<1>2. TrackInv /\ [BlockNext]_blockVars => TrackInv'
  BY BlockStepKeepsTypes
<1>3. TrackInv => BlockTypeOK
  BY DEF TrackInv
<1>. QED BY <1>1, <1>2, <1>3, PTL DEF BlockSpec

-------------------------------------------------------------------------------
(* The pool under new_block, rollbacks of what is not mined and resets.    *)

LEMMA ReportKeepsPool ==
  ASSUME TypeOK, SetupInv, NEW h, NEW hash, NEW txs, Reported(h, hash, txs)
  PROVE  /\ SetupInv'
         /\ HistoryInv => HistoryInv'
         /\ FundInv => FundInv'
<1>1. NewBlock(h, hash, txs)
  BY DEF Reported
<1>2. PICK k \in Nat : Cut(k)
  BY <1>1, NewBlockCuts
<1>3. UNCHANGED <<runeName, address, gameStatus, keyCalls, gamers, principals, calls>>
  BY <1>1, NewBlockCuts
<1>. QED BY <1>2, <1>3, CutKeepsSetupInv, CutKeepsHistory, CutKeepsFund

LEMMA BlockStepKeepsSetupInv ==
  ASSUME TrackInv, SetupInv, [BlockNext]_blockVars
  PROVE  SetupInv'
<1>1. TypeOK
  BY DEF TrackInv, BlockTypeOK
<1>2. CASE ResetBlocks
  BY <1>2 DEF ResetBlocks, SetupInv, StatusInv, KeyInv, QuietInv, InitsFirst, CallInv,
     InFlight
<1>. QED BY <1>1, <1>2, BlockNextCases, StepKeepsSetupInv, ReportKeepsPool

LEMMA BlockInvariants == BlockSpec => [](TrackInv /\ SetupInv)
<1>1. BlockInit => TrackInv /\ SetupInv
  BY BlockInitTypes, InitSetup DEF BlockInit
<1>2. TrackInv /\ SetupInv /\ [BlockNext]_blockVars => (TrackInv /\ SetupInv)'
  BY BlockStepKeepsTypes, BlockStepKeepsSetupInv
<1>. QED BY <1>1, <1>2, PTL DEF BlockSpec

\* The pool's invariant when the orchestrator waits for each answer.
PoolInv == TypeOK /\ SetupInv /\ HistoryInv /\ FundInv

LEMMA BlockStepKeepsPool ==
  ASSUME Serial, TrackInv, PoolInv, [BlockNext]_blockVars
  PROVE  PoolInv'
<1>1. TypeOK'
  BY BlockStepKeepsTypes DEF TrackInv, BlockTypeOK
<1>2. CASE [Next]_vars
  BY <1>1, <1>2, StepKeepsSetupInv, StepKeepsHistory, StepKeepsFund DEF PoolInv
<1>3. CASE ResetBlocks
  <2>1. UNCHANGED vars
    BY <1>3 DEF ResetBlocks
  <2>2. SetupInv'
    BY <2>1 DEF PoolInv, SetupInv, StatusInv, KeyInv, QuietInv, InitsFirst, CallInv,
       InFlight, IsRegister
  <2>3. HistoryInv'
    BY <2>1 DEF PoolInv, HistoryInv, FitInv, Fits, StatesChained, OneStatePerGamer,
       InFlight, IsRegister, LastOf
  <2>4. FundInv'
    BY <2>1 DEF PoolInv, FundInv, ChainInv, OriginInv, CountInv, PoolHoldsFees,
       IsRegister, LastOf
  <2>. QED BY <1>1, <2>2, <2>3, <2>4 DEF PoolInv
<1>4. ASSUME NEW h, NEW hash, NEW txs, Reported(h, hash, txs)
      PROVE  PoolInv'
  BY <1>1, <1>4, ReportKeepsPool DEF PoolInv
<1>. QED BY <1>2, <1>3, <1>4, BlockNextCases

LEMMA BlockPoolInvariant ==
  ASSUME Serial
  PROVE  BlockSpec => []PoolInv
<1>1. BlockInit => PoolInv
  BY InitTypes, InitSetup, InitHistory, InitFund DEF BlockInit, PoolInv
<1>2. Serial /\ TrackInv /\ PoolInv /\ [BlockNext]_blockVars => PoolInv'
  BY BlockStepKeepsPool
<1>. QED BY <1>1, <1>2, BlockInvariants, PTL DEF BlockSpec

(* Blocks, reorganisations and resets leave the pool's history a chain.    *)
THEOREM BlockChain ==
  ASSUME Serial
  PROVE  BlockSpec => []StatesChained
<1>1. PoolInv => StatesChained
  BY DEF PoolInv, HistoryInv
<1>. QED BY <1>1, BlockPoolInvariant, PTL

(* Nor do they give a gamer two states of the history, or take the gamer   *)
(* of a registration in it out of GAMER.                                   *)
THEOREM BlockGamers ==
  ASSUME Serial
  PROVE  BlockSpec => []OneStatePerGamer
<1>1. PoolInv => OneStatePerGamer
  BY DEF PoolInv, HistoryInv
<1>. QED BY <1>1, BlockPoolInvariant, PTL

(* The pool's utxo holds a fee for each gamer, whatever is settled.        *)
THEOREM BlockFees ==
  ASSUME Serial
  PROVE  BlockSpec => []PoolHoldsFees
<1>1. PoolInv => PoolHoldsFees
  BY DEF PoolInv, FundInv, CountInv
<1>. QED BY <1>1, BlockPoolInvariant, PTL

-------------------------------------------------------------------------------
(* new_block settles registrations of the ledger.                          *)
LEMMA CutIsSettle ==
  ASSUME TypeOK, TypeOK', NEW k \in Nat, Cut(k), UNCHANGED gamers
  PROVE  [Ledger!Next]_(Ledger!vars)
<1> DEFINE n == Len(states)
           m == Len(states')
           f == Fixed(states)
           r == Fixed(states')
<1>1. /\ states \in Seq(PoolStateType) /\ states' \in Seq(PoolStateType)
      /\ n \in Nat /\ m \in Nat /\ m = n - k /\ (k = 0 \/ k < n)
      /\ \A i \in 1 .. m : k + i \in 1 .. n /\ states'[i] = states[k + i]
      /\ states' = <<>> <=> states = <<>>
      /\ LastOf(states)' = LastOf(states)
  BY CutFacts DEF Cut, TypeOK
<1>2. /\ f \in 0 .. n /\ (f \notin {0, 1} => ~IsRegister(states[f]))
      /\ \A i \in f + 1 .. n : i # 1 /\ IsRegister(states[i])
  BY <1>1, FixedSplits DEF SplitsAt
<1>3. UNCHANGED <<IF states = <<>> THEN None ELSE LastOf(states).outpoint,
                  IF states = <<>> THEN 0 ELSE LastOf(states).sats, DOMAIN gamers>>
  BY <1>1
<1>4. /\ LedgerPending = PendingIds(states) /\ LedgerPending' = PendingIds(states')
      /\ PendingIds(states) \in Seq(Txids \cup {NoTx}) /\ Len(PendingIds(states)) = n - f
      /\ PendingIds(states') \in Seq(Txids \cup {NoTx}) /\ Len(PendingIds(states')) = m - r
      /\ \A i \in 1 .. n - f : PendingIds(states)[i] = states[f + i].id
      /\ \A i \in 1 .. m - r : PendingIds(states')[i] = states'[r + i].id
  BY <1>1, LedgerPendingIs, PendingFacts DEF PendingIds
<1>5. CASE k = 0
  <2>1. states' = states
    <3>1. \A i \in 1 .. n : 0 + i = i
      BY <1>1
    <3>2. m = n /\ \A i \in 1 .. n : states'[i] = states[i]
      BY <1>1, <1>5, <3>1
    <3>. QED BY <1>1, <3>2, SeqEqual
  <2>2. LedgerPending' = LedgerPending
    BY <1>4, <2>1
  <2>. QED BY <1>3, <2>2 DEF Ledger!vars, LedgerPending
<1>6. CASE k > 0 /\ k + 1 <= f
  <2>1. SplitsAt(states', f - k)
    <3>1. f - k \in 0 .. m /\ f - k \in 1 .. m /\ k + (f - k) = f /\ f \notin {0, 1}
      BY <1>1, <1>2, <1>6
    <3>2. ~IsRegister(states'[f - k])
      BY <1>1, <1>2, <3>1
    <3>3. ASSUME NEW i \in f - k + 1 .. m PROVE i # 1 /\ IsRegister(states'[i])
      <4>1. i \in 1 .. m /\ k + i \in f + 1 .. n /\ i # 1
        BY <1>1, <1>2, <1>6
      <4>. QED BY <1>1, <1>2, <4>1
    <3>. QED BY <3>1, <3>2, <3>3 DEF SplitsAt
  <2>2. r = f - k
    BY <1>1, <2>1, FixedSplits
  <2>. HIDE DEF n, m, f, r
  <2>3. m - r = n - f /\ \A i \in 1 .. m - r : r + i \in 1 .. m /\ k + (r + i) = f + i
    BY <1>1, <1>2, <1>6, <2>2
  <2>4. \A i \in 1 .. m - r : states'[r + i] = states[f + i]
    BY <1>1, <2>3
  <2>5. PendingIds(states') = PendingIds(states)
    BY <1>4, <2>3, <2>4, SeqEqual
  <2>. QED BY <1>3, <1>4, <2>5 DEF Ledger!vars, LedgerPending
<1>7. CASE k > 0 /\ ~(k + 1 <= f)
  <2> DEFINE s == (k + 1) - f
  <2>1. m \in Nat \ {0} /\ s \in Nat \ {0} /\ s <= n - f /\ k + 1 \in Nat
    BY <1>1, <1>2, <1>7
  <2>2. SplitsAt(states', 1)
    <3>1. ASSUME NEW i \in 1 + 1 .. m PROVE i # 1 /\ IsRegister(states'[i])
      <4>1. i \in 1 .. m /\ k + i \in f + 1 .. n /\ i # 1
        BY <1>1, <1>2, <1>7
      <4>. QED BY <1>1, <1>2, <4>1
    <3>2. 1 \in 0 .. m
      BY <2>1
    <3>. QED BY <3>1, <3>2 DEF SplitsAt
  <2>3. r = 1
    BY <1>1, <2>2, FixedSplits
  <2> DEFINE P == PendingIds(states)
             Q == PendingIds(states')
  <2>4. SubSeq(P, s + 1, Len(P)) \in Seq(Txids \cup {NoTx})
        /\ Len(SubSeq(P, s + 1, Len(P))) = m - r
        /\ \A i \in 1 .. m - r : SubSeq(P, s + 1, Len(P))[i] = P[s + i]
    <3>1. s + 1 \in Int /\ Len(P) \in Int
      BY <1>1, <1>2, <1>4, <2>1
    <3>2. \A i \in s + 1 .. Len(P) : P[i] \in Txids \cup {NoTx}
      <4>1. \A i \in s + 1 .. Len(P) : i \in 1 .. Len(P)
        BY <2>1, <3>1
      <4>. HIDE DEF P, s
      <4>. QED BY <1>4, <4>1, ElementOfSeq DEF P
    <3>3. /\ SubSeq(P, s + 1, Len(P)) \in Seq(Txids \cup {NoTx})
          /\ Len(SubSeq(P, s + 1, Len(P))) =
               IF s + 1 <= Len(P) THEN Len(P) - (s + 1) + 1 ELSE 0
          /\ \A i \in 1 .. Len(P) - (s + 1) + 1 :
               SubSeq(P, s + 1, Len(P))[i] = P[s + 1 + i - 1]
      <4>. HIDE DEF P, s
      <4>. QED BY <3>1, <3>2, SubSeqProperties
    <3>4. Len(P) = n - f
      BY <1>4
    <3>. HIDE DEF n, m, f, r, P
    <3>5. /\ Len(P) - (s + 1) + 1 = m - r
          /\ (IF s + 1 <= Len(P) THEN Len(P) - (s + 1) + 1 ELSE 0) = m - r
          /\ \A i \in 1 .. m - r : s + 1 + i - 1 = s + i
      BY <1>1, <1>2, <2>1, <2>3, <3>4
    <3>. HIDE DEF s
    <3>. QED BY <3>3, <3>5
  <2>5. ASSUME NEW i \in 1 .. m - r PROVE Q[i] = P[s + i]
    <3>. HIDE DEF n, m, f, r
    <3>1. /\ r + i \in 1 .. m /\ s + i \in 1 .. n - f
          /\ k + (r + i) = f + (s + i)
      BY <1>1, <1>2, <2>1, <2>3
    <3>. HIDE DEF s
    <3>2. states'[r + i] = states[f + (s + i)]
      BY <1>1, <3>1
    <3>. QED BY <1>4, <3>1, <3>2
  <2>6. Q = SubSeq(P, s + 1, Len(P))
    <3>. HIDE DEF s, n, m, f, r
    <3>. QED BY <1>4, <2>4, <2>5, SeqEqual
  <2>7. s \in 1 .. Len(P)
    BY <1>1, <1>2, <1>4, <2>1
  <2>. HIDE DEF s, n, m, f, r
  <2>8. PICK z \in 1 .. Len(P) : z = s
    BY <2>7
  <2>9. Ledger!Settle(z)
    BY <1>3, <1>4, <2>6, <2>8 DEF Ledger!Settle, LedgerPending
  <2>. QED BY <1>4, <2>8, <2>9 DEF Ledger!Next, LedgerPending
<1>. QED BY <1>5, <1>6, <1>7

LEMMA BlockStepIsLedgerStep ==
  ASSUME Serial, TrackInv, TrackInv', PoolInv, [BlockNext]_blockVars
  PROVE  [Ledger!Next]_(Ledger!vars)
<1>1. TypeOK /\ TypeOK'
  BY DEF TrackInv, BlockTypeOK
<1>2. CASE [Next]_vars
  BY <1>2, StepIsLedgerStep DEF PoolInv
<1>3. CASE ResetBlocks
  BY <1>3 DEF ResetBlocks, Ledger!vars, LastOf, PendingStates, FixedLength, IsRegister
<1>4. ASSUME NEW h, NEW hash, NEW txs, Reported(h, hash, txs)
      PROVE  [Ledger!Next]_(Ledger!vars)
  BY <1>1, <1>4, NewBlockCuts, CutIsSettle DEF Reported
<1>. QED BY <1>2, <1>3, <1>4, BlockNextCases

(* The exchange that follows the chain still implements the ledger: what   *)
(* new_block forgets of the history are registrations that are settled,    *)
(* oldest first.                                                           *)
THEOREM BlockLedgerImplemented ==
  ASSUME Serial
  PROVE  BlockSpec => ImplementsLedger
<1>1. BlockInit => Ledger!Init
  BY InitIsLedgerInit DEF BlockInit
<1>2. Serial /\ TrackInv /\ TrackInv' /\ PoolInv /\ [BlockNext]_blockVars
        => [Ledger!Next]_(Ledger!vars)
  BY BlockStepIsLedgerStep
<1>. QED BY <1>1, <1>2, BlockInvariants, BlockPoolInvariant, PTL
         DEF BlockSpec, ImplementsLedger, Ledger!Spec

-------------------------------------------------------------------------------
(* The stored blocks and the chain.  Any two stored blocks have all blocks *)
(* between them stored, and each is the block of the chain at its height.  *)

GapInv == \A f, g \in DOMAIN blocks : \A e \in f .. g : e \in DOMAIN blocks

CopyInv == \A g \in DOMAIN blocks : g \in DOMAIN chain /\ blocks[g] = chain[g]

LEMMA AcceptedFacts ==
  ASSUME TrackInv, NEW h \in FirstHeight .. MaxHeight, Accepted(h)
  PROVE  \/ DOMAIN blocks = {}
         \/ h \in DOMAIN blocks
         \/ h - 1 \in DOMAIN blocks /\ \A g \in DOMAIN blocks : g <= h - 1
<1> DEFINE top == Max(DOMAIN blocks)
<1>1. CASE DOMAIN blocks # {}
  <2>1. DOMAIN blocks \in SUBSET (FirstHeight .. MaxHeight)
    BY DEF TrackInv, BlockTypeOK
  <2>2. DOMAIN blocks \in SUBSET Int /\ IsFiniteSet(DOMAIN blocks)
    <3>1. FirstHeight \in Nat /\ MaxHeight \in Nat
      BY HeightAssumption
    <3>2. IsFiniteSet(FirstHeight .. MaxHeight)
      BY <3>1, FS_Interval
    <3>. QED BY <2>1, <3>1, <3>2, FS_Subset
  <2>3. top \in DOMAIN blocks /\ \A g \in DOMAIN blocks : g <= top
    BY <1>1, <2>2, MaxIsGreatest
  <2>4. h = top + 1 \/ h \in DOMAIN blocks
    BY <1>1 DEF Accepted
  <2>5. top \in Int
    BY <2>2, <2>3
  <2>. HIDE DEF top
  <2>6. h = top + 1 => h - 1 = top
    BY <2>5
  <2>. QED BY <2>3, <2>4, <2>6
<1>. QED BY <1>1

LEMMA KeptIs ==
  ASSUME NEW h, NEW hash, NEW g
  PROVE  g \in KeptHeights(h, hash) <=>
           /\ g \in DOMAIN blocks
           /\ Replaces(h, hash) => g < h
           /\ ~Replaces(h, hash) => g # h
BY DEF KeptHeights

(* What a reported block does to the chain and to the blocks it finds      *)
(* stored.                                                                 *)
LEMMA ReportFacts ==
  ASSUME TrackInv, CopyInv, NEW h \in FirstHeight .. MaxHeight, NEW hash \in Hashes,
         NEW txs \in Seq(Txids), Reported(h, hash, txs)
  PROVE  /\ NewBlock(h, hash, txs) /\ UNCHANGED resets
         /\ h \in DOMAIN chain' /\ chain'[h] = Block(hash, txs)
         /\ HeightInv' /\ peak' >= peak /\ Tip' >= h
         /\ \A g \in DOMAIN chain : g < h => g \in DOMAIN chain' /\ chain'[g] = chain[g]
         /\ \A g \in KeptHeights(h, hash) :
              g \in DOMAIN blocks /\ g # h /\ g \in DOMAIN chain' /\ chain'[g] = chain[g]
         /\ \/ /\ Repeating(h, hash, txs) /\ ~Replaces(h, hash) /\ UNCHANGED <<chain, peak>>
            \/ /\ Mining(h, hash, txs) /\ Tip' = h
               /\ \A g \in DOMAIN chain' : g <= h
               /\ \A g \in KeptHeights(h, hash) : g < h
<1>1. /\ NewBlock(h, hash, txs) /\ UNCHANGED resets /\ Accepted(h)
      /\ Mining(h, hash, txs) \/ Repeating(h, hash, txs)
  BY DEF Reported, NewBlock
<1>2. /\ DOMAIN blocks \subseteq FirstHeight .. MaxHeight /\ HeightInv
      /\ DOMAIN chain \subseteq FirstHeight .. MaxHeight
      /\ FirstHeight \in Nat /\ MaxHeight \in Nat
  BY HeightAssumption DEF TrackInv, BlockTypeOK, HeightInv
<1>3. h \in Int /\ (\A g \in DOMAIN blocks : g \in Int) /\ (\A g \in DOMAIN chain : g \in Int)
  BY <1>2
<1>4. CASE Repeating(h, hash, txs)
  <2>1. /\ h \in DOMAIN chain /\ chain[h] = Block(hash, txs)
        /\ UNCHANGED <<chain, peak>> /\ Tip' = Tip
    BY <1>4 DEF Repeating, Tip
  <2>2. ~Replaces(h, hash)
    BY <2>1 DEF CopyInv, Replaces, Block
  <2>3. Tip >= h
    BY <1>2, <1>3, <2>1 DEF HeightInv
  <2>4. HeightInv' /\ peak' >= peak
    <3>1. peak \in Int
      BY <1>2 DEF HeightInv
    <3>. QED BY <1>2, <2>1, <3>1 DEF HeightInv
  <2>5. \A g \in KeptHeights(h, hash) : g \in DOMAIN blocks /\ g # h /\ g \in DOMAIN chain
    BY <2>2, KeptIs DEF CopyInv
  <2>. QED BY <1>1, <1>4, <2>1, <2>2, <2>3, <2>4, <2>5
<1>5. CASE Mining(h, hash, txs)
  <2>1. /\ HeightInv' /\ Tip' = h /\ peak' >= peak /\ DOMAIN chain' = FirstHeight .. h
        /\ chain'[h] = Block(hash, txs)
        /\ \A g \in FirstHeight .. h - 1 : g \in DOMAIN chain /\ chain'[g] = chain[g]
    BY <1>2, <1>5, MineFacts DEF Mining
  <2>2. /\ h \in DOMAIN chain' /\ h >= h
        /\ \A g \in DOMAIN chain' : g <= h
        /\ \A g \in DOMAIN chain : g < h => g \in FirstHeight .. h - 1 /\ g \in DOMAIN chain'
    BY <1>2, <1>3, <2>1
  <2>3. \A g \in DOMAIN blocks : Replaces(h, hash) \/ g < h
    <3>1. CASE h \in DOMAIN blocks
      <4>1. h \in DOMAIN chain /\ hash # chain[h].hash /\ blocks[h] = chain[h]
        BY <1>5, <3>1 DEF Mining, CopyInv
      <4>. QED BY <3>1, <4>1 DEF Replaces
    <3>2. CASE h \notin DOMAIN blocks
      BY <1>1, <1>3, <3>2, AcceptedFacts
    <3>. QED BY <3>1, <3>2
  <2>4. \A g \in KeptHeights(h, hash) : g \in DOMAIN blocks /\ g < h /\ g \in DOMAIN chain
    BY <2>3, KeptIs DEF CopyInv
  <2>5. \A g \in KeptHeights(h, hash) : g # h /\ g \in DOMAIN chain' /\ chain'[g] = chain[g]
    BY <1>3, <2>1, <2>2, <2>4
  <2>. QED BY <1>1, <1>5, <2>1, <2>2, <2>4, <2>5
<1>. QED BY <1>1, <1>4, <1>5

LEMMA ReportKeepsBlocks ==
  ASSUME TrackInv, CopyInv, GapInv, NEW h \in FirstHeight .. MaxHeight,
         NEW hash \in Hashes, NEW txs \in Seq(Txids), Reported(h, hash, txs)
  PROVE  CopyInv' /\ GapInv'
<1>1. NewBlock(h, hash, txs) /\ Accepted(h)
  BY ReportFacts DEF NewBlock
<1>2. /\ \A g \in DOMAIN blocks' : g = h \/ g \in KeptHeights(h, hash)
      /\ h \in DOMAIN blocks' => blocks'[h] = Block(hash, txs)
      /\ \A g \in DOMAIN blocks' : g # h => blocks'[g] = blocks[g]
  BY <1>1, BlocksAfter
<1>3. /\ h \in DOMAIN chain' /\ chain'[h] = Block(hash, txs)
      /\ \A g \in KeptHeights(h, hash) :
           g \in DOMAIN blocks /\ g # h /\ g \in DOMAIN chain' /\ chain'[g] = chain[g]
  BY ReportFacts
<1>4. CopyInv'
  BY <1>2, <1>3 DEF CopyInv
<1>5. h \in Int /\ \A g \in DOMAIN blocks : g \in Int
  BY HeightAssumption DEF TrackInv, BlockTypeOK
<1>6. ASSUME NEW f, NEW g, f = h \/ f \in KeptHeights(h, hash),
             g = h \/ g \in KeptHeights(h, hash), NEW e \in f .. g
      PROVE  e = h \/ e \in KeptHeights(h, hash)
  <2>1. f \in Int /\ g \in Int /\ e \in Int /\ f <= e /\ e <= g
    BY <1>3, <1>5, <1>6
  <2>2. CASE f = h /\ g = h
    BY <1>5, <2>1, <2>2
  <2>3. CASE f \in DOMAIN blocks /\ g \in DOMAIN blocks
    <3>1. e \in DOMAIN blocks
      BY <2>3 DEF GapInv
    <3>2. Replaces(h, hash) => g <= h
      BY <1>5, <1>6, <2>1, KeptIs
    <3>3. Replaces(h, hash) => e = h \/ e < h
      BY <1>5, <2>1, <3>2
    <3>. QED BY <3>1, <3>3, KeptIs
  <2>4. CASE h \notin DOMAIN blocks /\ f \in DOMAIN blocks /\ g = h
    <3>1. h - 1 \in DOMAIN blocks
      BY <1>1, <2>4, AcceptedFacts
    <3>2. e = h \/ e \in f .. h - 1
      BY <1>5, <2>1, <2>4
    <3>3. e = h \/ e \in DOMAIN blocks
      BY <2>4, <3>1, <3>2 DEF GapInv
    <3>. QED BY <2>4, <3>3, KeptIs DEF Replaces
  <2>5. CASE h \notin DOMAIN blocks /\ f = h /\ g \in DOMAIN blocks
    <3>1. g <= h - 1
      BY <1>1, <2>5, AcceptedFacts
    <3>. QED BY <1>5, <2>1, <2>5, <3>1
  <2>. QED BY <1>3, <1>6, <2>2, <2>3, <2>4, <2>5
<1>7. GapInv'
  <2>1. ASSUME NEW f \in DOMAIN blocks', NEW g \in DOMAIN blocks', NEW e \in f .. g
        PROVE  e \in DOMAIN blocks'
    <3>1. e = h \/ e \in KeptHeights(h, hash)
      BY <1>2, <1>6
    <3>2. f \in Int /\ g \in Int /\ ConfirmedHeight(h) \in Int
      BY <1>2, <1>3, <1>5, HeightAssumption DEF ConfirmedHeight
    <3>3. f > ConfirmedHeight(h) => e > ConfirmedHeight(h)
      BY <3>2
    <3>. QED BY <1>1, <3>1, <3>3, BlocksAfter
  <2>. QED BY <2>1 DEF GapInv
<1>. QED BY <1>4, <1>7

\* What is known of blocks and chain in every state.
FollowInv == TrackInv /\ CopyInv /\ GapInv

LEMMA BlockStepKeepsFollow ==
  ASSUME FollowInv, [BlockNext]_blockVars
  PROVE  FollowInv'
<1>1. TrackInv'
  BY BlockStepKeepsTypes DEF FollowInv
<1>2. CASE UNCHANGED trackVars
  BY <1>1, <1>2 DEF FollowInv, CopyInv, GapInv
<1>3. CASE ResetBlocks
  BY <1>1, <1>3 DEF ResetBlocks, FollowInv, CopyInv, GapInv
<1>4. ASSUME NEW h \in FirstHeight .. MaxHeight, NEW hash \in Hashes,
             NEW txs \in Seq(Txids), Reported(h, hash, txs)
      PROVE  FollowInv'
  BY <1>1, <1>4, ReportKeepsBlocks DEF FollowInv
<1>. QED BY <1>2, <1>3, <1>4, BlockNextCases DEF FollowInv

LEMMA FollowInvariant == BlockSpec => []FollowInv
<1>1. BlockInit => FollowInv
  <2>1. BlockInit => DOMAIN blocks = {}
    BY DEF BlockInit, TrackInit
  <2>. QED BY <2>1, BlockInitTypes DEF FollowInv, CopyInv, GapInv
<1>2. FollowInv /\ [BlockNext]_blockVars => FollowInv'
  BY BlockStepKeepsFollow
<1>. QED BY <1>1, <1>2, PTL DEF BlockSpec

LEMMA FollowIsContiguous ==
  ASSUME FollowInv
  PROVE  BlocksContiguous
<1>1. SUFFICES ASSUME NEW h \in DOMAIN blocks
               PROVE  h .. Max(DOMAIN blocks) \subseteq DOMAIN blocks
  BY DEF FollowInv, CopyInv, BlocksContiguous
<1>2. DOMAIN blocks \in SUBSET (FirstHeight .. MaxHeight)
  BY DEF FollowInv, TrackInv, BlockTypeOK
<1>3. DOMAIN blocks \in SUBSET Int /\ IsFiniteSet(DOMAIN blocks)
  <2>1. FirstHeight \in Nat /\ MaxHeight \in Nat
    BY HeightAssumption
  <2>2. IsFiniteSet(FirstHeight .. MaxHeight)
    BY <2>1, FS_Interval
  <2>. QED BY <1>2, <2>1, <2>2, FS_Subset
<1>4. Max(DOMAIN blocks) \in DOMAIN blocks
  BY <1>1, <1>3, MaxIsGreatest
<1>. QED BY <1>1, <1>4 DEF FollowInv, GapInv

(* The stored blocks are blocks of the chain without a gap, whatever order *)
(* of new blocks, reorganisations, resets and blocks reported again:       *)
(* handle_reorg never unwraps a block that is not there.                   *)
THEOREM BlocksStayContiguous == BlockSpec => []BlocksContiguous
<1>1. FollowInv => BlocksContiguous
  BY FollowIsContiguous
<1>. QED BY <1>1, FollowInvariant, PTL

-------------------------------------------------------------------------------
(* What is mined where.                                                    *)

Holds(bs, t, g) == g \in DOMAIN bs /\ t \in TxSet(bs[g].txs)

LEMMA HoldsFacts ==
  ASSUME NEW bs, NEW heights, NEW t
  PROVE  t \in TxsOf(bs, heights) <=> \E g \in heights : t \in TxSet(bs[g].txs)
BY DEF TxsOf, TxSet

LEMMA MinedFacts ==
  ASSUME NEW t
  PROVE  /\ t \in Mined <=> \E g \in DOMAIN chain : Holds(chain, t, g)
         /\ t \in Mined' <=> \E g \in DOMAIN chain' : Holds(chain', t, g)
BY HoldsFacts DEF Mined, Holds, TxsOf, TxSet

\* No transaction is mined twice.
UniqueInv ==
  \A t \in Txids : \A g, h \in DOMAIN chain :
    Holds(chain, t, g) /\ Holds(chain, t, h) => g = h

(* Unless the exchange was made to forget blocks, it still has every block *)
(* of the chain that was never settled, and the newest if it has any.      *)
StoredInv ==
  resets = 0 =>
    /\ \A g \in DOMAIN chain : g \in DOMAIN blocks \/ g <= ConfirmedHeight(peak)
    /\ DOMAIN blocks # {} => Tip \in DOMAIN blocks

MinedInv == UniqueInv /\ StoredInv /\ ConfirmedIsMined

LEMMA MiningFacts ==
  ASSUME NEW h, NEW hash, NEW txs \in Seq(Txids), Mining(h, hash, txs),
         NEW t \in TxSet(txs)
  PROVE  /\ t \in Txids
         /\ \A g \in DOMAIN chain : g < h => ~Holds(chain, t, g)
         /\ \E confirmed \in BOOLEAN : <<t, confirmed>> \in txRecords
         /\ LateConfirm \/ HasTx(states, t)
<1>1. PICK i \in DOMAIN txs : t = txs[i]
  BY DEF TxSet
<1>2. /\ t \notin MinedBelow(h)
      /\ \E confirmed \in BOOLEAN : <<t, confirmed>> \in txRecords
      /\ LateConfirm \/ HasTx(states, t)
  BY <1>1 DEF Mining, Mineable
<1>3. \A g \in DOMAIN chain : g < h => ~Holds(chain, t, g)
  BY <1>2, HoldsFacts DEF MinedBelow, Holds
<1>. QED BY <1>1, <1>2, <1>3

(* Where a transaction of the new chain is mined: in the reported block or *)
(* where it was.                                                           *)
LEMMA HoldsAfter ==
  ASSUME FollowInv, NEW h \in FirstHeight .. MaxHeight, NEW hash \in Hashes,
         NEW txs \in Seq(Txids), Reported(h, hash, txs), NEW t
  PROVE  /\ Holds(chain', t, h) <=> t \in TxSet(txs)
         /\ \A g : g < h => (Holds(chain', t, g) <=> Holds(chain, t, g))
         /\ \A g : Holds(chain', t, g) => (g <= h /\ g \in Int) \/ Repeating(h, hash, txs)
<1>1. /\ h \in DOMAIN chain' /\ chain'[h] = Block(hash, txs)
      /\ \A g \in DOMAIN chain : g < h => g \in DOMAIN chain' /\ chain'[g] = chain[g]
      /\ HeightInv' /\ HeightInv /\ Tip' >= h
  BY ReportFacts DEF FollowInv, TrackInv
<1>2. CASE Repeating(h, hash, txs)
  <2>1. chain' = chain
    BY <1>2 DEF Repeating
  <2>. QED BY <1>1, <1>2, <2>1 DEF Holds, Block
<1>3. CASE ~Repeating(h, hash, txs)
  <2>1. Mining(h, hash, txs) /\ \A g \in DOMAIN chain' : g <= h
    BY <1>3, ReportFacts DEF FollowInv
  <2>2. \A g \in DOMAIN chain' : g \in Int /\ (g < h => g \in DOMAIN chain)
    <3>1. FirstHeight \in Nat /\ MaxHeight \in Nat
      BY HeightAssumption
    <3>2. \A g \in DOMAIN chain' : g \in Int
      BY <1>1, <3>1 DEF HeightInv
    <3>3. \A g \in DOMAIN chain' : g < h => g \in {f \in DOMAIN chain : f < h}
      BY <2>1, <3>2 DEF Mining, MineAt
    <3>. QED BY <3>2, <3>3
  <2>. QED BY <1>1, <2>1, <2>2 DEF Holds, Block
<1>. QED BY <1>2, <1>3

LEMMA ReportKeepsUnique ==
  ASSUME FollowInv, UniqueInv, NEW h \in FirstHeight .. MaxHeight, NEW hash \in Hashes,
         NEW txs \in Seq(Txids), Reported(h, hash, txs)
  PROVE  UniqueInv'
<1>1. CASE Repeating(h, hash, txs)
  BY <1>1 DEF Repeating, UniqueInv
<1>2. CASE Mining(h, hash, txs) /\ ~Repeating(h, hash, txs)
  <2>1. ASSUME NEW t \in Txids, NEW f, NEW g, Holds(chain', t, f), Holds(chain', t, g),
               f < h
        PROVE  g < h /\ Holds(chain, t, f) /\ Holds(chain, t, g)
    <3>1. Holds(chain, t, f) /\ g <= h /\ g \in Int /\ h \in Int
      BY <1>2, <2>1, HoldsAfter
    <3>2. g # h
      BY <1>2, <2>1, <3>1, HoldsAfter, MiningFacts DEF Holds
    <3>3. g < h
      BY <3>1, <3>2
    <3>. QED BY <2>1, <3>1, <3>3, HoldsAfter
  <2>2. ASSUME NEW t \in Txids, NEW f, NEW g, Holds(chain', t, f), Holds(chain', t, g)
        PROVE  f = g
    <3>1. f <= h /\ f \in Int /\ g <= h /\ g \in Int /\ h \in Int
      <4>1. h \in Int
        BY HeightAssumption
      <4>2. f <= h /\ f \in Int
        BY <1>2, <2>2, HoldsAfter
      <4>3. g <= h /\ g \in Int
        BY <1>2, <2>2, HoldsAfter
      <4>. QED BY <4>1, <4>2, <4>3
    <3>2. CASE f < h \/ g < h
      BY <2>1, <2>2, <3>2 DEF UniqueInv, Holds
    <3>. QED BY <3>1, <3>2
  <2>. QED BY <2>2 DEF UniqueInv
<1>. QED BY <1>1, <1>2 DEF Reported

\* handle_reorg unconfirms this transaction.
Undoes(h, hash, t) ==
  Replaces(h, hash) /\ \E g \in DOMAIN blocks : g >= h /\ Holds(blocks, t, g)

Recorded(records, t) == \E confirmed \in BOOLEAN : <<t, confirmed>> \in records

LEMMA RecordsAfter ==
  ASSUME NEW h, NEW hash, NEW txs, NEW t
  PROVE  /\ <<t, TRUE>> \in NewRecords(h, hash, txs) <=>
              \/ t \in TxSet(txs) /\ Recorded(txRecords, t)
              \/ <<t, TRUE>> \in txRecords /\ ~Undoes(h, hash, t)
         /\ Recorded(txRecords, t) => Recorded(NewRecords(h, hash, txs), t)
<1> DEFINE undone == {u \in TxsOf(blocks, {g \in DOMAIN blocks : g >= h}) :
                        <<u, TRUE>> \in txRecords}
           base == IF Replaces(h, hash) THEN ReorgRecords(h) ELSE txRecords
<1>1. t \in undone <=>
        <<t, TRUE>> \in txRecords /\ \E g \in DOMAIN blocks : g >= h /\ Holds(blocks, t, g)
  BY HoldsFacts DEF Holds
<1>2. ReorgRecords(h) = (txRecords \ (undone \X {TRUE})) \cup (undone \X {FALSE})
  BY DEF ReorgRecords
<1>. HIDE DEF undone
<1>3. /\ <<t, TRUE>> \in ReorgRecords(h) <=> <<t, TRUE>> \in txRecords /\ t \notin undone
      /\ <<t, FALSE>> \in ReorgRecords(h) <=> <<t, FALSE>> \in txRecords \/ t \in undone
  BY <1>2
<1>4. /\ <<t, TRUE>> \in base <=> <<t, TRUE>> \in txRecords /\ ~Undoes(h, hash, t)
      /\ <<t, FALSE>> \in base <=>
           <<t, FALSE>> \in txRecords \/ (<<t, TRUE>> \in txRecords /\ Undoes(h, hash, t))
  BY <1>1, <1>3 DEF Undoes
<1>5. NewRecords(h, hash, txs) =
        base \cup {<<u, TRUE>> : u \in {v \in TxSet(txs) : <<v, FALSE>> \in base}}
  BY DEF NewRecords, ConfirmRecords, TxSet
<1>. HIDE DEF base
<1>6. /\ <<t, TRUE>> \in NewRecords(h, hash, txs) <=>
           <<t, TRUE>> \in base \/ (t \in TxSet(txs) /\ <<t, FALSE>> \in base)
      /\ <<t, FALSE>> \in NewRecords(h, hash, txs) <=> <<t, FALSE>> \in base
  BY <1>5
<1>. QED BY <1>4, <1>6 DEF Recorded

LEMMA ConfirmedHeightGrows ==
  ASSUME NEW a \in Int, NEW b \in Int, a <= b
  PROVE  ConfirmedHeight(a) <= ConfirmedHeight(b) /\ ConfirmedHeight(a) \in Int
BY HeightAssumption DEF ConfirmedHeight

(* Reported blocks keep what is stored in step with the chain.             *)
LEMMA ReportKeepsStored ==
  ASSUME FollowInv, StoredInv, NEW h \in FirstHeight .. MaxHeight, NEW hash \in Hashes,
         NEW txs \in Seq(Txids), Reported(h, hash, txs)
  PROVE  StoredInv'
<1>1. SUFFICES ASSUME resets = 0 PROVE StoredInv'
  BY ReportFacts DEF FollowInv, StoredInv
<1>2. /\ \A g \in DOMAIN chain : g \in DOMAIN blocks \/ g <= ConfirmedHeight(peak)
      /\ DOMAIN blocks # {} => Tip \in DOMAIN blocks
  BY <1>1 DEF StoredInv
<1>3. /\ NewBlock(h, hash, txs) /\ HeightInv /\ HeightInv' /\ h \in DOMAIN chain'
      /\ peak' >= peak /\ Tip' >= h
      /\ \/ /\ Repeating(h, hash, txs) /\ ~Replaces(h, hash) /\ UNCHANGED <<chain, peak>>
         \/ /\ Mining(h, hash, txs) /\ Tip' = h
            /\ \A g \in DOMAIN chain' : g <= h
            /\ \A g \in KeptHeights(h, hash) : g < h
  BY ReportFacts DEF FollowInv, TrackInv
<1>4. /\ MaxDepth \in Nat \ {0} /\ FirstHeight \in Nat /\ MaxHeight \in Nat /\ h \in Int
      /\ peak \in Int /\ peak' \in Int /\ Tip' \in Int /\ peak' >= Tip'
      /\ (\A g \in DOMAIN chain : g \in Int) /\ (\A g \in DOMAIN chain' : g \in Int)
      /\ \A g \in DOMAIN blocks : g \in Int
  <2>1. MaxDepth \in Nat \ {0} /\ FirstHeight \in Nat /\ MaxHeight \in Nat
    BY HeightAssumption
  <2>. QED BY <1>3, <2>1 DEF HeightInv, FollowInv, TrackInv, BlockTypeOK
<1>5. ConfirmedHeight(h) <= ConfirmedHeight(peak')
      /\ ConfirmedHeight(peak) <= ConfirmedHeight(peak')
  <2>1. peak' >= h
    BY <1>3, <1>4
  <2>. QED BY <1>3, <1>4, <2>1, ConfirmedHeightGrows
<1>6. ASSUME NEW g \in DOMAIN chain'
      PROVE  g \in DOMAIN blocks' \/ g <= ConfirmedHeight(peak')
  <2>1. g \in KeptHeights(h, hash) \/ g = h => g \in DOMAIN blocks' \/ g <= ConfirmedHeight(h)
    BY <1>3, <1>4, BlocksAfter DEF ConfirmedHeight
  <2>2. g \in KeptHeights(h, hash) \/ g = h \/ g <= ConfirmedHeight(peak)
    <3>1. CASE Repeating(h, hash, txs) /\ ~Replaces(h, hash) /\ UNCHANGED <<chain, peak>>
      BY <1>2, <3>1, KeptIs
    <3>2. CASE Mining(h, hash, txs) /\ g < h
      <4>1. g \in DOMAIN chain
        BY <3>2 DEF Mining, MineAt
      <4>. QED BY <1>2, <1>4, <3>2, <4>1, KeptIs
    <3>. QED BY <1>3, <1>4, <3>1, <3>2
  <2>3. ConfirmedHeight(h) \in Int /\ ConfirmedHeight(peak) \in Int
        /\ ConfirmedHeight(peak') \in Int
    BY <1>4 DEF ConfirmedHeight
  <2>. QED BY <1>4, <1>5, <2>1, <2>2, <2>3
<1>7. ASSUME DOMAIN blocks' # {}
      PROVE  Tip' \in DOMAIN blocks'
  <2>1. PICK b \in DOMAIN blocks' : b = h \/ b \in KeptHeights(h, hash)
    BY <1>3, <1>7, BlocksAfter
  <2>2. Tip' = h \/ Tip' \in KeptHeights(h, hash)
    <3>1. CASE Repeating(h, hash, txs) /\ ~Replaces(h, hash) /\ UNCHANGED <<chain, peak>>
      <4>1. Tip' = Tip /\ h \in DOMAIN chain
        BY <3>1 DEF Repeating, Tip
      <4>2. DOMAIN blocks # {}
        <5>1. h \in DOMAIN blocks \/ h > ConfirmedHeight(peak)
          BY <3>1 DEF Repeating
        <5>2. ConfirmedHeight(peak) \in Int
          BY <1>4 DEF ConfirmedHeight
        <5>. QED BY <1>2, <1>4, <4>1, <5>1, <5>2
      <4>. QED BY <1>2, <3>1, <4>1, <4>2, KeptIs
    <3>. QED BY <1>3, <3>1
  <2>3. b <= Tip' /\ b \in Int
    <3>1. b \in DOMAIN chain'
      BY <1>3, <2>1, ReportFacts DEF FollowInv
    <3>2. DOMAIN chain' = FirstHeight .. Tip' \/ DOMAIN chain' = {}
      BY <1>3 DEF HeightInv
    <3>. QED BY <1>4, <3>1, <3>2
  <2>4. ConfirmedHeight(h) \in Int
    BY <1>4 DEF ConfirmedHeight
  <2>5. b > ConfirmedHeight(h) => Tip' > ConfirmedHeight(h)
    BY <1>4, <2>3, <2>4
  <2>. QED BY <1>3, <2>2, <2>5, BlocksAfter
<1>. QED BY <1>6, <1>7, ReportFacts DEF StoredInv, ConfirmedHeight

LEMMA ReportKeepsConfirmed ==
  ASSUME FollowInv, MinedInv, NEW h \in FirstHeight .. MaxHeight, NEW hash \in Hashes,
         NEW txs \in Seq(Txids), Reported(h, hash, txs)
  PROVE  ConfirmedIsMined'
<1>1. /\ NewBlock(h, hash, txs) /\ resets' = resets
      /\ \/ /\ Repeating(h, hash, txs) /\ ~Replaces(h, hash) /\ UNCHANGED <<chain, peak>>
         \/ Mining(h, hash, txs) /\ \A g \in DOMAIN chain' : g <= h
  BY ReportFacts DEF FollowInv
<1>2. /\ h \in Int /\ (\A g \in DOMAIN chain : g \in Int /\ g <= Tip)
      /\ (\A g \in DOMAIN blocks : g \in Int) /\ Tip \in Int
      /\ ConfirmedHeight(peak) \in Int
  <2>1. FirstHeight \in Nat /\ MaxHeight \in Nat /\ MaxDepth \in Nat
    BY HeightAssumption
  <2>. QED BY <2>1 DEF FollowInv, TrackInv, BlockTypeOK, HeightInv, ConfirmedHeight
<1>3. txRecords' = NewRecords(h, hash, txs)
  BY <1>1, NewBlockIs
<1>4. \A t, g : Holds(blocks, t, g) => Holds(chain, t, g)
  BY DEF FollowInv, CopyInv, Holds
<1>5. ASSUME NEW t \in Txids, t \in Mined' PROVE <<t, TRUE>> \in txRecords'
  <2>1. PICK g : Holds(chain', t, g)
    BY <1>5, MinedFacts
  <2>2. CASE Holds(chain, t, g) /\ ~Undoes(h, hash, t)
    <3>1. t \in Mined
      BY <2>2, MinedFacts DEF Holds
    <3>2. <<t, TRUE>> \in txRecords
      BY <3>1 DEF MinedInv, ConfirmedIsMined
    <3>. QED BY <1>3, <2>2, <3>2, RecordsAfter
  <2>3. CASE Repeating(h, hash, txs) /\ ~Replaces(h, hash) /\ UNCHANGED <<chain, peak>>
    BY <2>1, <2>2, <2>3 DEF Undoes
  <2>4. CASE Mining(h, hash, txs) /\ t \in TxSet(txs)
    BY <1>3, <2>4, MiningFacts, RecordsAfter DEF Recorded
  <2>5. CASE /\ Mining(h, hash, txs) /\ t \notin TxSet(txs)
             /\ \A f \in DOMAIN chain' : f <= h
    <3>1. g <= h /\ g # h
      BY <2>1, <2>5, HoldsAfter DEF Holds
    <3>2. g < h
      <4>1. HeightInv' /\ FirstHeight \in Nat /\ MaxHeight \in Nat
        BY ReportFacts, HeightAssumption DEF FollowInv
      <4>2. g \in Int
        BY <2>1, <4>1 DEF HeightInv, Holds
      <4>. QED BY <1>2, <3>1, <4>2
    <3>3. Holds(chain, t, g)
      BY <2>1, <3>2, HoldsAfter
    <3>4. ASSUME NEW f \in DOMAIN blocks, f >= h, Holds(blocks, t, f) PROVE FALSE
      <4>1. Holds(chain, t, f)
        BY <1>4, <3>4
      <4>2. f = g
        BY <3>3, <4>1 DEF MinedInv, UniqueInv, Holds
      <4>. QED BY <1>2, <3>2, <3>4, <4>2
    <3>. QED BY <2>2, <3>3, <3>4 DEF Undoes
  <2>. QED BY <1>1, <2>3, <2>4, <2>5
<1>6. ASSUME NEW t \in Txids, <<t, TRUE>> \in txRecords', resets = 0 PROVE t \in Mined'
  <2>1. CASE t \in TxSet(txs)
    <3>1. Holds(chain', t, h)
      BY <2>1, HoldsAfter
    <3>. QED BY <3>1, MinedFacts DEF Holds
  <2>2. CASE <<t, TRUE>> \in txRecords /\ ~Undoes(h, hash, t)
    <3>5. t \in Mined
      <4>1. ~(resets > 0)
        BY <1>6
      <4>. QED BY <2>2, <4>1, Zenon DEF MinedInv, ConfirmedIsMined
    <3>1. PICK g : Holds(chain, t, g)
      BY <3>5, MinedFacts
    <3>2. CASE UNCHANGED <<chain, peak>>
      BY <3>1, <3>2, MinedFacts DEF Holds
    <3>3. CASE g < h
      <4>1. Holds(chain', t, g)
        BY <3>1, <3>3, HoldsAfter
      <4>. QED BY <4>1, MinedFacts DEF Holds
    <3>4. CASE Mining(h, hash, txs) /\ ~(g < h)
      <4>1. g \in DOMAIN chain /\ g \in Int /\ h <= g /\ g <= Tip
        BY <1>2, <3>1, <3>4 DEF Holds
      <4>2. h # NextHeight
        BY <1>2, <4>1 DEF NextHeight
      <4>3. h \in DOMAIN chain /\ (h \in DOMAIN blocks \/ h > ConfirmedHeight(peak))
            /\ hash # chain[h].hash
        BY <3>4, <4>2 DEF Mining
      <4>4. h \in DOMAIN blocks
        BY <1>2, <1>6, <4>3 DEF MinedInv, StoredInv
      <4>5. Replaces(h, hash)
        BY <4>3, <4>4 DEF Replaces, FollowInv, CopyInv
      <4>6. Tip \in DOMAIN blocks
        BY <1>6, <4>4 DEF MinedInv, StoredInv
      <4>7. g \in DOMAIN blocks
        <5>1. g \in h .. Tip
          BY <1>2, <4>1
        <5>. QED BY <4>4, <4>6, <5>1 DEF FollowInv, GapInv
      <4>8. Holds(blocks, t, g)
        BY <3>1, <4>7 DEF FollowInv, CopyInv, Holds
      <4>. QED BY <2>2, <4>1, <4>5, <4>7, <4>8 DEF Undoes
    <3>. QED BY <1>1, <3>2, <3>3, <3>4
  <2>. QED BY <1>3, <1>6, <2>1, <2>2, RecordsAfter
<1>7. resets' > 0 \/ resets = 0
  BY <1>1, HeightAssumption DEF FollowInv, TrackInv, BlockTypeOK
<1>. QED BY <1>5, <1>6, <1>7 DEF ConfirmedIsMined

LEMMA BlockStepKeepsMined ==
  ASSUME FollowInv, SetupInv, MinedInv, [BlockNext]_blockVars
  PROVE  MinedInv'
<1>1. CASE [Next]_vars /\ UNCHANGED trackVars
  <2>1. \A t \in Txids : <<t, TRUE>> \in txRecords' <=> <<t, TRUE>> \in txRecords
    <3>1. txRecords' = txRecords \/ \E u : txRecords' = txRecords \cup {<<u, FALSE>>}
      BY <1>1 DEF Next, SetupNext, Upgrade, Execute, ExecuteRegister, SignReply,
         CommitRegister, ExecuteFails, RollbackTx, RecordTx
    <3>2. ASSUME NEW u, txRecords' = txRecords \cup {<<u, FALSE>>}, NEW t
          PROVE  <<t, TRUE>> \in txRecords' <=> <<t, TRUE>> \in txRecords
      <4>1. <<t, TRUE>> # <<u, FALSE>>
        OBVIOUS
      <4>. QED BY <3>2, <4>1
    <3>. QED BY <3>1, <3>2
  <2>2. Mined' = Mined /\ Tip' = Tip
    BY <1>1 DEF Mined, TxsOf, Tip
  <2>3. ConfirmedIsMined'
    BY <1>1, <2>1, <2>2 DEF MinedInv, ConfirmedIsMined
  <2>. QED BY <1>1, <2>2, <2>3 DEF MinedInv, UniqueInv, StoredInv, Holds
<1>2. CASE ResetBlocks
  <2>1. resets' = resets + 1 /\ resets \in Nat /\ UNCHANGED <<chain, txRecords>>
    BY <1>2, HeightAssumption DEF ResetBlocks, FollowInv, TrackInv, BlockTypeOK
  <2>2. resets' > 0 /\ resets' # 0 /\ Mined' = Mined
    BY <2>1 DEF Mined, TxsOf
  <2>. QED BY <2>1, <2>2 DEF MinedInv, UniqueInv, StoredInv, ConfirmedIsMined, Holds
<1>3. ASSUME NEW h \in FirstHeight .. MaxHeight, NEW hash \in Hashes,
             NEW txs \in Seq(Txids), Reported(h, hash, txs)
      PROVE  MinedInv'
  BY <1>3, ReportKeepsUnique, ReportKeepsStored, ReportKeepsConfirmed DEF MinedInv
<1>. QED BY <1>1, <1>2, <1>3, BlockNextCases DEF FollowInv

LEMMA MinedInvariant == BlockSpec => []MinedInv
<1>1. BlockInit => MinedInv
  <2>1. SUFFICES ASSUME BlockInit PROVE MinedInv
    OBVIOUS
  <2>2. DOMAIN blocks = {} /\ DOMAIN chain = {} /\ txRecords = {}
    BY <2>1 DEF BlockInit, TrackInit, Init
  <2>3. \A t : t \notin Mined
    BY <2>2, MinedFacts
  <2>. QED BY <2>2, <2>3 DEF MinedInv, UniqueInv, StoredInv, ConfirmedIsMined
<1>2. FollowInv /\ SetupInv /\ MinedInv /\ [BlockNext]_blockVars => MinedInv'
  BY BlockStepKeepsMined
<1>. QED BY <1>1, <1>2, FollowInvariant, BlockInvariants, PTL DEF BlockSpec

(* The records follow the chain through every reorganisation: what is      *)
(* mined is confirmed and, if the exchange was never made to forget a      *)
(* block, what is confirmed is mined.                                      *)
THEOREM RecordsFollowChain == BlockSpec => []ConfirmedIsMined
<1>1. MinedInv => ConfirmedIsMined
  BY DEF MinedInv
<1>. QED BY <1>1, MinedInvariant, PTL

-------------------------------------------------------------------------------
(* The oldest state of the history.                                        *)

(* Only new_block removes it.                                              *)
LEMMA OldestStays ==
  ASSUME TypeOK, SetupInv, [Next]_vars
  PROVE  /\ states # <<>> => states' # <<>> /\ states'[1] = states[1]
         /\ states = <<>> /\ states' # <<>> => ~IsRegister(states'[1])
<1>1. states \in Seq(PoolStateType) /\ states' \in Seq(PoolStateType)
  BY StepKeepsTypes DEF TypeOK
<1>2. /\ Len(states) \in Nat /\ DOMAIN states = 1 .. Len(states)
      /\ Len(states') \in Nat /\ DOMAIN states' = 1 .. Len(states')
      /\ states = <<>> <=> Len(states) = 0
      /\ states' = <<>> <=> Len(states') = 0
  BY <1>1, LenProperties, EmptySeq
<1>3. ASSUME NEW utxo \in InitUtxos, InitBtcUtxo(utxo)
      PROVE  /\ states' # <<>>
             /\ states # <<>> => states'[1] = states[1]
             /\ states = <<>> => ~IsRegister(states'[1])
  <2>1. utxo.sats \in Nat /\ utxo.outpoint \in Outpoints
    BY SatsAssumption DEF Outpoints
  <2>2. InitState(utxo) \in PoolStateType /\ ~IsRegister(InitState(utxo))
    BY <2>1 DEF InitState, PoolStateType, IsRegister
  <2>3. states' = Append(states, InitState(utxo))
    BY <1>3 DEF InitBtcUtxo
  <2>4. /\ states' # <<>>
        /\ \A i \in 1 .. Len(states) : states'[i] = states[i]
        /\ states'[Len(states) + 1] = InitState(utxo)
    BY <1>1, <2>2, <2>3, AppendFacts
  <2>5. states # <<>> => 1 \in 1 .. Len(states)
    BY <1>2
  <2>6. states = <<>> => Len(states) + 1 = 1
    BY <1>2
  <2>. QED BY <2>2, <2>4, <2>5, <2>6
<1>4. ASSUME NEW c \in Calls, CommitRegister(c)
      PROVE  states # <<>> /\ states' # <<>> /\ states'[1] = states[1]
  <2>1. states # <<>>
    BY <1>4, CommitFacts, StartedFacts DEF SetupInv, QuietInv
  <2>2. 1 \in DOMAIN states
    BY <1>2, <2>1
  <2>. QED BY <1>4, <2>1, <2>2, CommitFacts
<1>5. ASSUME NEW t \in Txids, RollbackTx(t)
      PROVE  states # <<>> /\ states' # <<>> /\ states'[1] = states[1]
  <2>1. states # <<>> /\ states' # <<>>
    BY <1>5, RollbackFacts
  <2>2. 1 \in DOMAIN states'
    BY <1>2, <2>1
  <2>. QED BY <1>5, <2>1, <2>2, RollbackFacts
<1>. QED BY <1>3, <1>4, <1>5 DEF Next, SetupNext, InitKeyCall, InitKeyReply,
            InitKeyFails, Upgrade, PostUpgrade, Execute, ExecuteRegister, SignReply,
            ExecuteFails

(* If new_block removes it, the new one is mined as deep as it should, and *)
(* the blocks that are left are above it.                                  *)
LEMMA SettledFacts ==
  ASSUME FollowInv, NEW h \in FirstHeight .. MaxHeight, NEW hash \in Hashes,
         NEW txs \in Seq(Txids), Reported(h, hash, txs)
  PROVE  \/ states' = states
         \/ /\ states # <<>> /\ states' # <<>>
            /\ \E g : Holds(chain', states'[1].id, g) /\ g <= ConfirmedHeight(h)
            /\ \A b \in DOMAIN blocks' : b > ConfirmedHeight(h)
<1> DEFINE stored == StoredBlocks(h, hash, txs)
           settled == LoopTxs(h, hash, txs)
<1>1. states \in Seq(PoolStateType) /\ Len(states) \in Nat /\ DOMAIN states = 1 .. Len(states)
  BY LenProperties DEF FollowInv, TrackInv, BlockTypeOK, TypeOK
<1>2. NewBlock(h, hash, txs)
  BY DEF Reported
<1>3. SUFFICES ASSUME states' # states
               PROVE  /\ states # <<>> /\ states' # <<>>
                      /\ \E g : Holds(chain', states'[1].id, g) /\ g <= ConfirmedHeight(h)
                      /\ \A b \in DOMAIN blocks' : b > ConfirmedHeight(h)
  OBVIOUS
<1>4. /\ \A t \in settled : HasTx(states, t)
      /\ states' = FinalizeAll(states, settled)
      /\ blocks' = Prune(stored, ConfirmedHeight(h))
  BY <1>2, <1>3, NewBlockIs DEF CanFinalizeAll
<1>5. settled # {}
  BY <1>3, <1>4 DEF FinalizeAll
<1>6. PICK t \in settled : states' = Finalize(states, t) /\ HasTx(states, t)
  BY <1>1, <1>4, <1>5, FinalizeAllIs
<1> DEFINE p == Position(states, t)
<1>7. p \in 1 .. Len(states) /\ states[p].id = t
  BY <1>1, <1>6, PositionIsFirst
<1>8. /\ states' \in Seq(PoolStateType) /\ Len(states') = Len(states) - p + 1
      /\ \A i \in 1 .. Len(states') : states'[i] = states[p + i - 1]
  BY <1>1, <1>6, FinalizeIsSuffix
<1>9. states # <<>> /\ states' # <<>> /\ states'[1].id = t
  <2>. HIDE DEF p
  <2>1. 1 \in 1 .. Len(states') /\ p + 1 - 1 = p /\ Len(states) # 0 /\ Len(states') # 0
    BY <1>1, <1>7, <1>8
  <2>. QED BY <1>1, <1>7, <1>8, <2>1, EmptySeq
<1>10. PICK g \in DOMAIN stored : g <= ConfirmedHeight(h) /\ t \in TxSet(stored[g].txs)
  BY <1>6, LoopTxsAre
<1>11. Holds(chain', t, g)
  <2>1. g = h \/ g \in KeptHeights(h, hash)
    BY StoredBlocksAre
  <2>2. stored[g] = IF g = h THEN Block(hash, txs) ELSE blocks[g]
    BY StoredBlocksAre
  <2>3. /\ h \in DOMAIN chain' /\ chain'[h] = Block(hash, txs)
        /\ \A f \in KeptHeights(h, hash) :
             f \in DOMAIN blocks /\ f # h /\ f \in DOMAIN chain' /\ chain'[f] = chain[f]
    BY ReportFacts DEF FollowInv
  <2>. QED BY <1>10, <2>1, <2>2, <2>3 DEF Holds, FollowInv, CopyInv
<1>12. \A b \in DOMAIN blocks' : b > ConfirmedHeight(h)
  BY <1>4 DEF Prune, Keep
<1>. QED BY <1>9, <1>10, <1>11, <1>12

(* The oldest state, if a registration made it, is mined below every       *)
(* stored block and as deep as no reorganisation reaches.                  *)
OldestInv ==
  states # <<>> /\ IsRegister(states[1]) =>
    \E g \in DOMAIN chain : /\ Holds(chain, states[1].id, g)
                            /\ g <= ConfirmedHeight(peak)
                            /\ \A b \in DOMAIN blocks : g < b

LEMMA ReportKeepsOldest ==
  ASSUME FollowInv, OldestInv, NEW h \in FirstHeight .. MaxHeight, NEW hash \in Hashes,
         NEW txs \in Seq(Txids), Reported(h, hash, txs)
  PROVE  OldestInv'
<1>1. /\ NewBlock(h, hash, txs) /\ h \in DOMAIN chain' /\ chain'[h] = Block(hash, txs)
      /\ HeightInv' /\ peak' >= peak /\ Tip' >= h
      /\ \A g \in DOMAIN chain : g < h => g \in DOMAIN chain' /\ chain'[g] = chain[g]
      /\ Repeating(h, hash, txs) \/ Mining(h, hash, txs)
  BY ReportFacts DEF FollowInv
<1>2. /\ h \in Int /\ peak \in Int /\ peak' \in Int /\ peak' >= h
      /\ (\A g \in DOMAIN chain : g \in Int /\ g <= Tip) /\ Tip \in Int
      /\ (\A g \in DOMAIN blocks : g \in Int)
  <2>1. FirstHeight \in Nat /\ MaxHeight \in Nat
    BY HeightAssumption
  <2>. QED BY <1>1, <2>1 DEF FollowInv, TrackInv, BlockTypeOK, HeightInv
<1>3. /\ ConfirmedHeight(h) <= ConfirmedHeight(peak')
      /\ ConfirmedHeight(peak) <= ConfirmedHeight(peak')
      /\ ConfirmedHeight(h) \in Int /\ ConfirmedHeight(peak) \in Int
      /\ ConfirmedHeight(peak') \in Int
  BY <1>1, <1>2, ConfirmedHeightGrows
<1>4. CASE states' = states
  <2>1. SUFFICES ASSUME states # <<>>, IsRegister(states[1]) PROVE OldestInv'
    BY <1>4 DEF OldestInv, IsRegister
  <2>2. PICK g \in DOMAIN chain : /\ Holds(chain, states[1].id, g)
                                  /\ g <= ConfirmedHeight(peak)
                                  /\ \A b \in DOMAIN blocks : g < b
    BY <2>1 DEF OldestInv
  <2>3. g < h
    <3>1. CASE h = NextHeight
      BY <1>2, <3>1 DEF NextHeight
    <3>2. CASE h \in DOMAIN blocks \/ h > ConfirmedHeight(peak)
      BY <1>2, <1>3, <2>2, <3>2
    <3>. QED BY <1>1, <3>1, <3>2 DEF Repeating, Mining
  <2>4. g \in DOMAIN chain' /\ Holds(chain', states'[1].id, g)
    BY <1>1, <1>4, <2>2, <2>3 DEF Holds
  <2>5. g <= ConfirmedHeight(peak')
    BY <1>2, <1>3, <2>2
  <2>6. \A b \in DOMAIN blocks' : g < b
    BY <1>1, <2>2, <2>3, BlocksAfter, KeptIs
  <2>. QED BY <2>4, <2>5, <2>6 DEF OldestInv
<1>5. CASE states' # states
  <2>1. PICK g : Holds(chain', states'[1].id, g) /\ g <= ConfirmedHeight(h)
    BY <1>5, SettledFacts
  <2>2. \A b \in DOMAIN blocks' : b > ConfirmedHeight(h)
    BY <1>5, SettledFacts
  <2>3. g \in DOMAIN chain' /\ g \in Int
    <3>1. FirstHeight \in Nat /\ MaxHeight \in Nat
      BY HeightAssumption
    <3>. QED BY <1>1, <2>1, <3>1 DEF Holds, HeightInv
  <2>4. \A b \in DOMAIN blocks' : b \in Int
    <3>1. \A b \in DOMAIN blocks' : b = h \/ b \in DOMAIN blocks
      BY <1>1, BlocksAfter, KeptIs
    <3>. QED BY <1>2, <3>1
  <2>5. g <= ConfirmedHeight(peak') /\ \A b \in DOMAIN blocks' : g < b
    BY <1>3, <2>1, <2>2, <2>3, <2>4
  <2>. QED BY <2>1, <2>3, <2>5 DEF OldestInv
<1>. QED BY <1>4, <1>5

LEMMA BlockStepKeepsOldest ==
  ASSUME FollowInv, SetupInv, OldestInv, [BlockNext]_blockVars
  PROVE  OldestInv'
<1>1. CASE [Next]_vars /\ UNCHANGED trackVars
  <2>1. TypeOK
    BY DEF FollowInv, TrackInv, BlockTypeOK
  <2>2. CASE states # <<>>
    <3>1. states' # <<>> /\ states'[1] = states[1]
      BY <1>1, <2>1, <2>2, OldestStays
    <3>. QED BY <1>1, <2>2, <3>1 DEF OldestInv, Holds, IsRegister
  <2>3. CASE states = <<>>
    BY <1>1, <2>1, <2>3, OldestStays DEF OldestInv, IsRegister
  <2>. QED BY <2>2, <2>3
<1>2. CASE ResetBlocks
  BY <1>2 DEF ResetBlocks, OldestInv, Holds, IsRegister
<1>3. ASSUME NEW h \in FirstHeight .. MaxHeight, NEW hash \in Hashes,
             NEW txs \in Seq(Txids), Reported(h, hash, txs)
      PROVE  OldestInv'
  BY <1>3, ReportKeepsOldest
<1>. QED BY <1>1, <1>2, <1>3, BlockNextCases DEF FollowInv

LEMMA OldestInvariant == BlockSpec => []OldestInv
<1>1. BlockInit => OldestInv
  BY DEF BlockInit, Init, SetupInit, OldestInv
<1>2. FollowInv /\ SetupInv /\ OldestInv /\ [BlockNext]_blockVars => OldestInv'
  BY BlockStepKeepsOldest
<1>. QED BY <1>1, <1>2, FollowInvariant, BlockInvariants, PTL DEF BlockSpec

(* The state no rollback reaches was made by a transaction that stays in   *)
(* the chain, whatever reorganisations and resets follow.                  *)
THEOREM OldestStaysMined == BlockSpec => []OldestIsFinal
<1>1. OldestInv => OldestIsFinal
  BY MinedFacts DEF OldestInv, OldestIsFinal
<1>. QED BY <1>1, OldestInvariant, PTL

\* What becomes the oldest state is mined under MaxDepth confirmations.
LEMMA StepFinalizesDeep ==
  ASSUME FollowInv, FollowInv', SetupInv, MinedInv', [BlockNext]_blockVars,
         NEW t \in Txids, states # <<>>, states[1].id # t, states'[1].id = t
  PROVE  t \in Mined' /\ HeightOf(t)' <= Tip' - MaxDepth + 1
<1>1. TypeOK
  BY DEF FollowInv, TrackInv, BlockTypeOK
<1>2. PICK h \in FirstHeight .. MaxHeight, hash \in Hashes, txs \in Seq(Txids) :
        Reported(h, hash, txs)
  BY <1>1, BlockNextCases, OldestStays DEF ResetBlocks, FollowInv
<1>3. PICK g : Holds(chain', t, g) /\ g <= ConfirmedHeight(h)
  BY <1>2, SettledFacts
<1>4. g \in DOMAIN chain' /\ t \in Mined'
  BY <1>3, MinedFacts DEF Holds
<1>5. HeightOf(t)' = g
  <2>1. HeightOf(t)' = CHOOSE f \in DOMAIN chain' : t \in TxsOf(chain', {f})
    BY DEF HeightOf, TxsOf
  <2>2. \A f \in DOMAIN chain' : t \in TxsOf(chain', {f}) <=> Holds(chain', t, f)
    BY HoldsFacts DEF Holds
  <2>3. \A f \in DOMAIN chain' : Holds(chain', t, f) => f = g
    BY <1>3, <1>4 DEF MinedInv, UniqueInv, Holds
  <2>. QED BY <1>3, <1>4, <2>1, <2>2, <2>3
<1>6. /\ Tip' >= h /\ Tip' \in Int /\ h \in Int /\ g \in Int /\ MaxDepth \in Nat
  <2>1. FirstHeight \in Nat /\ MaxHeight \in Nat /\ MaxDepth \in Nat
    BY HeightAssumption
  <2>2. HeightInv' /\ Tip' >= h
    BY <1>2, ReportFacts DEF FollowInv
  <2>. QED BY <1>4, <2>1, <2>2 DEF HeightInv
<1>7. ASSUME NEW a \in Int, NEW b \in Int, NEW c \in Int, a >= b,
             c <= ConfirmedHeight(b)
      PROVE  c <= a - MaxDepth + 1
  BY <1>6, <1>7 DEF ConfirmedHeight
<1>8. g <= Tip' - MaxDepth + 1
  BY <1>3, <1>6, <1>7
<1>. QED BY <1>4, <1>5, <1>8

(* A step finalizes a transaction only under MaxDepth confirmations.       *)
THEOREM FinalizedDeep == BlockSpec => FinalizesDeep
<1>1. FollowInv /\ FollowInv' /\ SetupInv /\ MinedInv' /\ [BlockNext]_blockVars
        => [\A t \in Txids :
              states # <<>> /\ states[1].id # t /\ states'[1].id = t =>
                t \in Mined' /\ HeightOf(t)' <= Tip' - MaxDepth + 1]_blockVars
  BY StepFinalizesDeep
<1>. QED BY <1>1, FollowInvariant, BlockInvariants, MinedInvariant, PTL
         DEF BlockSpec, FinalizesDeep

\* Every block with fewer than MaxDepth confirmations is stored.
ShallowKept ==
  resets = 0 => \A h \in DOMAIN chain : peak - h + 1 < MaxDepth => h \in DOMAIN blocks

LEMMA StoredIsKept ==
  ASSUME FollowInv, StoredInv
  PROVE  ShallowKept
<1>1. \A h \in DOMAIN chain : h \in Int /\ peak \in Int /\ MaxDepth \in Int
  BY HeightAssumption DEF FollowInv, TrackInv, HeightInv
<1>. QED BY <1>1 DEF StoredInv, ConfirmedHeight, ShallowKept

(* What holds of the promise that detect_reorg follows a reorganisation of *)
(* up to MaxDepth blocks (RecoverableKept): unless reset_blocks made the   *)
(* exchange forget it, a block is stored while it has fewer than MaxDepth  *)
(* confirmations on the longest chain so far.                              *)
THEOREM ShallowStayStored == BlockSpec => []ShallowKept
<1>1. FollowInv /\ MinedInv => ShallowKept
  BY StoredIsKept DEF MinedInv
<1>. QED BY <1>1, FollowInvariant, MinedInvariant, PTL

-------------------------------------------------------------------------------
(* The order of the chain.                                                 *)

\* The transaction is the i-th of the block at this height.
At(ch, t, g, i) == g \in DOMAIN ch /\ i \in DOMAIN ch[g].txs /\ ch[g].txs[i] = t

OnePlace(ch) ==
  /\ \A t, g, i : At(ch, t, g, i) => g \in Int /\ i \in Int
  /\ \A t, g, h, i, j : At(ch, t, g, i) /\ At(ch, t, h, j) => g = h /\ i = j

\* What a transaction spends was made before it, unless it is the pool's first utxo.
Parents(ch) ==
  \A t \in Txids : \A g, i :
    At(ch, t, g, i) /\ Spends[t] \in Txids => Before(ch, Spends[t], t)

LEMMA BeforeIs ==
  ASSUME NEW ch, NEW t, NEW u
  PROVE  Before(ch, t, u) <=>
           \E g, h, i, j : /\ At(ch, t, g, i) /\ At(ch, u, h, j)
                           /\ g < h \/ (g = h /\ i < j)
BY DEF Before, At

LEMMA HoldsIsAt ==
  ASSUME NEW ch, NEW t, NEW g
  PROVE  Holds(ch, t, g) <=> \E i : At(ch, t, g, i)
BY DEF Holds, At, TxSet

(* Before is a strict order on the transactions of a chain.                *)
LEMMA BeforeTransitive ==
  ASSUME NEW ch, OnePlace(ch), NEW t, NEW u, NEW v, Before(ch, t, u), Before(ch, u, v)
  PROVE  Before(ch, t, v)
<1>1. PICK g, h, i, j : At(ch, t, g, i) /\ At(ch, u, h, j) /\ (g < h \/ (g = h /\ i < j))
  BY BeforeIs
<1>2. PICK f, e, k, l : At(ch, u, f, k) /\ At(ch, v, e, l) /\ (f < e \/ (f = e /\ k < l))
  BY BeforeIs
<1>3. f = h /\ k = j
  BY <1>1, <1>2 DEF OnePlace
<1>4. /\ g \in Int /\ h \in Int /\ e \in Int /\ i \in Int /\ j \in Int /\ l \in Int
  BY <1>1, <1>2 DEF OnePlace
<1>5. g < e \/ (g = e /\ i < l)
  BY <1>1, <1>2, <1>3, <1>4
<1>. QED BY <1>1, <1>2, <1>5, BeforeIs

LEMMA BeforeAsymmetric ==
  ASSUME NEW ch, OnePlace(ch), NEW t, NEW u, Before(ch, t, u)
  PROVE  ~Before(ch, u, t)
<1>1. SUFFICES ASSUME Before(ch, u, t) PROVE FALSE
  OBVIOUS
<1>2. PICK g, h, i, j : At(ch, t, g, i) /\ At(ch, u, h, j) /\ (g < h \/ (g = h /\ i < j))
  BY BeforeIs
<1>3. PICK f, e, k, l : At(ch, u, f, k) /\ At(ch, t, e, l) /\ (f < e \/ (f = e /\ k < l))
  BY <1>1, BeforeIs
<1>4. f = h /\ k = j /\ e = g /\ l = i
  BY <1>2, <1>3 DEF OnePlace
<1>5. g \in Int /\ h \in Int /\ i \in Int /\ j \in Int
  BY <1>2 DEF OnePlace
<1>. QED BY <1>2, <1>3, <1>4, <1>5

(* The history is in the order of the chain: what a mined state was built  *)
(* on is mined before it.  A first state for which this fails would be     *)
(* mined, and so would be the one before it, which it spends.              *)
LEMMA HistoryInOrder ==
  ASSUME TypeOK, InitsFirst, StatesChained, OriginInv,
         NEW ch, OnePlace(ch), Parents(ch),
         NEW i \in DOMAIN states, IsRegister(states[i]),
         NEW j \in DOMAIN states, i < j, NEW g, Holds(ch, states[j].id, g)
  PROVE  Before(ch, states[i].id, states[j].id)
<1> DEFINE n == Len(states)
           Mines(k) == \E f : Holds(ch, states[k].id, f)
           Bad == {k \in 1 .. n : /\ i < k /\ Mines(k)
                                  /\ ~Before(ch, states[i].id, states[k].id)}
<1>1. n \in Nat /\ DOMAIN states = 1 .. n /\ i \in 1 .. n /\ j \in 1 .. n
  BY LenProperties DEF TypeOK
<1>2. SUFFICES ASSUME Bad # {} PROVE FALSE
  BY <1>1
<1>3. PICK k \in Bad : \A m \in Bad : k <= m
  BY <1>1, <1>2, FirstPosition
<1>4. k \in 2 .. n /\ k - 1 \in 1 .. n /\ k - 1 >= i /\ k \in 1 .. n /\ k - 1 < k
  <2>. HIDE DEF n, Mines
  <2>. QED BY <1>1, <1>3
<1>5. /\ IsRegister(states[k]) /\ IsRegister(states[k - 1])
      /\ states[k].id \in Txids /\ states[k - 1].id \in Txids
      /\ states[k - 1].outpoint = states[k - 1].id
  <2>1. IsRegister(states[k]) /\ IsRegister(states[k - 1])
    <3>1. k - 1 = i \/ i < k - 1
      BY <1>1, <1>4
    <3>. QED BY <1>1, <1>3, <1>4, <3>1 DEF InitsFirst
  <2>. QED BY <1>1, <1>4, <2>1 DEF OriginInv
<1>6. Spends[states[k].id] = states[k - 1].id
  BY <1>4, <1>5 DEF StatesChained
<1>7. PICK f, a : At(ch, states[k].id, f, a)
  BY <1>3, HoldsIsAt
<1>8. Before(ch, states[k - 1].id, states[k].id)
  BY <1>5, <1>6, <1>7 DEF Parents
<1>9. Mines(k - 1)
  BY <1>8, BeforeIs, HoldsIsAt
<1>10. k - 1 # i
  BY <1>3, <1>8
<1>11. k - 1 \notin Bad
  <2>. HIDE DEF Bad
  <2>1. k \in Int
    BY <1>1, <1>4
  <2>. QED BY <1>3, <2>1
<1>12. Before(ch, states[i].id, states[k - 1].id)
  <2>1. i < k - 1
    BY <1>1, <1>4, <1>10
  <2>. QED BY <1>4, <1>9, <1>11, <2>1
<1>. QED BY <1>3, <1>8, <1>12, BeforeTransitive

\* The chain becomes ch when a block with these transactions ends it.
GrowsTo(ch, h, txs) ==
  \A t, g, i : At(ch, t, g, i) <=> \/ g < h /\ At(chain, t, g, i)
                                   \/ g = h /\ i \in DOMAIN txs /\ txs[i] = t

LEMMA ReportGrows ==
  ASSUME FollowInv, NEW h \in FirstHeight .. MaxHeight, NEW hash \in Hashes,
         NEW txs \in Seq(Txids), Reported(h, hash, txs), ~UNCHANGED chain,
         NEW ch, ch = chain'
  PROVE  Mineable(txs, h) /\ GrowsTo(ch, h, txs)
<1>2. /\ Mining(h, hash, txs) /\ h \in DOMAIN chain' /\ chain'[h] = Block(hash, txs)
      /\ HeightInv'
      /\ \A f \in DOMAIN chain : f < h => f \in DOMAIN chain' /\ chain'[f] = chain[f]
      /\ \A f \in DOMAIN chain' : f <= h
  BY ReportFacts DEF FollowInv
<1>3. \A f \in DOMAIN chain' : f = h \/ (f < h /\ f \in DOMAIN chain)
  <2>1. \A f \in DOMAIN chain' : f \in Int
    BY <1>2, HeightAssumption DEF HeightInv
  <2>2. h \in Int
    BY <1>2, <2>1
  <2>3. \A f \in DOMAIN chain' : f < h => f \in DOMAIN chain
    BY <1>2, <2>2 DEF Mining, MineAt
  <2>. QED BY <1>2, <2>1, <2>2, <2>3
<1>4. Block(hash, txs).txs = txs
  BY DEF Block
<1>5. Mineable(txs, h)
  BY <1>2 DEF Mining
<1>6. \A f : f \in DOMAIN ch <=> f = h \/ (f < h /\ f \in DOMAIN chain)
  <2>1. ~(h < h)
    BY HeightAssumption
  <2>. QED BY <1>2, <1>3, <2>1
<1>7. ch[h].txs = txs /\ \A f \in DOMAIN chain : f < h => ch[f] = chain[f]
  BY <1>2, <1>4
<1>8. ~(h < h)
  BY HeightAssumption
<1>. QED BY <1>5, <1>6, <1>7, <1>8 DEF At, GrowsTo

LEMMA MineableFacts ==
  ASSUME NEW h, NEW txs \in Seq(Txids), Mineable(txs, h), NEW i \in DOMAIN txs
  PROVE  /\ txs[i] \in Txids /\ i \in Int
         /\ \A j \in DOMAIN txs : j < i => txs[j] # txs[i]
         /\ \A g, b : g < h => ~At(chain, txs[i], g, b)
         /\ Spends[txs[i]] \in Txids =>
              \/ \E g, b : g < h /\ At(chain, Spends[txs[i]], g, b)
              \/ \E j \in DOMAIN txs : j < i /\ txs[j] = Spends[txs[i]]
<1>1. PICK earlier : earlier = MinedBelow(h) \cup {txs[j] : j \in 1 .. i - 1}
  OBVIOUS
<1>2. /\ txs[i] \notin earlier
      /\ Spends[txs[i]] \in earlier \cup {u.outpoint : u \in InitUtxos}
  BY <1>1 DEF Mineable
<1>3. Len(txs) \in Nat /\ DOMAIN txs = 1 .. Len(txs) /\ txs[i] \in Txids
  BY LenProperties
<1>4. \A t : t \in MinedBelow(h) <=> \E g, b : g < h /\ At(chain, t, g, b)
  <2>1. ASSUME NEW t
        PROVE  t \in MinedBelow(h) <=> \E g : g < h /\ Holds(chain, t, g)
    BY HoldsFacts DEF MinedBelow, Holds
  <2>2. ASSUME NEW t, NEW g
        PROVE  Holds(chain, t, g) <=> \E b : At(chain, t, g, b)
    BY HoldsIsAt
  <2>. QED BY <2>1, <2>2
<1>5. \A t : t \in earlier <=>
        \/ \E g, b : g < h /\ At(chain, t, g, b)
        \/ \E j \in DOMAIN txs : j < i /\ txs[j] = t
  <2>1. \A j : j \in 1 .. i - 1 <=> j \in DOMAIN txs /\ j < i
    BY <1>3
  <2>. QED BY <1>1, <1>4, <2>1
<1>. QED BY <1>2, <1>3, <1>5, OutpointAssumption

OrderInv == OnePlace(chain) /\ Parents(chain)

LEMMA GrowthKeepsPlaces ==
  ASSUME OnePlace(chain), NEW h \in FirstHeight .. MaxHeight, NEW txs \in Seq(Txids),
         Mineable(txs, h), NEW ch, GrowsTo(ch, h, txs)
  PROVE  OnePlace(ch)
<1>1. \A t, g, i : At(ch, t, g, i) => \/ g < h /\ At(chain, t, g, i)
                                      \/ g = h /\ i \in DOMAIN txs /\ txs[i] = t
  BY DEF GrowsTo
<1>2. Mineable(txs, h)
  OBVIOUS
<1>3. h \in Int /\ \A i \in DOMAIN txs : i \in Int
  BY HeightAssumption, <1>2, MineableFacts
<1>4. ASSUME NEW t, NEW g, NEW i, At(ch, t, g, i) PROVE g \in Int /\ i \in Int
  BY <1>1, <1>3, <1>4 DEF OnePlace
<1>5. ASSUME NEW t, NEW g, NEW f, NEW i, NEW j,
             At(ch, t, g, i), At(ch, t, f, j)
      PROVE  g = f /\ i = j
  <2>1. CASE g < h /\ f < h /\ At(chain, t, g, i) /\ At(chain, t, f, j)
    BY <2>1 DEF OnePlace
  <2>2. CASE g = h /\ f = h /\ i \in DOMAIN txs /\ j \in DOMAIN txs /\ txs[i] = t /\ txs[j] = t
    <3>1. i = j \/ i < j \/ j < i
      BY <1>3, <2>2
    <3>. QED BY <1>2, <2>2, <3>1, MineableFacts
  <2>3. CASE g < h /\ At(chain, t, g, i) /\ f = h /\ j \in DOMAIN txs /\ txs[j] = t
    BY <1>2, <2>3, MineableFacts
  <2>4. CASE f < h /\ At(chain, t, f, j) /\ g = h /\ i \in DOMAIN txs /\ txs[i] = t
    BY <1>2, <2>4, MineableFacts
  <2>. QED BY <1>1, <1>5, <2>1, <2>2, <2>3, <2>4
<1>. QED BY <1>4, <1>5 DEF OnePlace

(* A block's transactions spend what is below or before them.              *)
LEMMA GrowthKeepsParents ==
  ASSUME OrderInv, NEW h \in FirstHeight .. MaxHeight, NEW txs \in Seq(Txids),
         Mineable(txs, h), NEW ch, GrowsTo(ch, h, txs)
  PROVE  Parents(ch)
<1>2. /\ \A t, g, i : At(ch, t, g, i) =>
           \/ g < h /\ At(chain, t, g, i)
           \/ g = h /\ i \in DOMAIN txs /\ txs[i] = t
      /\ \A t, g, i : g < h /\ At(chain, t, g, i) => At(ch, t, g, i)
      /\ \A t, i : i \in DOMAIN txs /\ txs[i] = t => At(ch, t, h, i)
  BY DEF GrowsTo
<1>3. SUFFICES ASSUME NEW t \in Txids, NEW g, NEW i, At(ch, t, g, i), Spends[t] \in Txids
               PROVE  Before(ch, Spends[t], t)
  BY DEF Parents
<1>4. CASE g < h /\ At(chain, t, g, i)
  <2>1. Before(chain, Spends[t], t)
    BY <1>3, <1>4 DEF OrderInv, Parents
  <2>2. PICK f, e, k, l : /\ At(chain, Spends[t], f, k) /\ At(chain, t, e, l)
                          /\ f < e \/ (f = e /\ k < l)
    BY <2>1, BeforeIs
  <2>3. e = g /\ f \in Int /\ g \in Int /\ h \in Int
    BY <1>4, <2>2, HeightAssumption DEF OrderInv, OnePlace
  <2>4. f < h /\ e < h
    BY <1>4, <2>2, <2>3
  <2>. QED BY <1>2, <2>2, <2>4, BeforeIs
<1>5. CASE g = h /\ i \in DOMAIN txs /\ txs[i] = t
  <2>1. \/ \E f, b : f < h /\ At(chain, Spends[t], f, b)
        \/ \E j \in DOMAIN txs : j < i /\ txs[j] = Spends[t]
    BY <1>2, <1>3, <1>5, MineableFacts
  <2>2. At(ch, t, h, i)
    BY <1>3, <1>5
  <2>. QED BY <1>2, <2>1, <2>2, BeforeIs
<1>. QED BY <1>2, <1>3, <1>4, <1>5

LEMMA BlockStepKeepsOrder ==
  ASSUME FollowInv, OrderInv, [BlockNext]_blockVars
  PROVE  OrderInv'
<1>1. CASE UNCHANGED chain
  BY <1>1 DEF OrderInv
<1>2. ASSUME NEW h \in FirstHeight .. MaxHeight, NEW hash \in Hashes,
             NEW txs \in Seq(Txids), Reported(h, hash, txs)
      PROVE  OrderInv'
  <2>1. PICK ch : ch = chain'
    OBVIOUS
  <2>2. SUFFICES ASSUME ~UNCHANGED chain PROVE OrderInv'
    BY <1>1
  <2>3. OnePlace(ch) /\ Parents(ch)
    BY <1>2, <2>1, <2>2, ReportGrows, GrowthKeepsPlaces, GrowthKeepsParents DEF OrderInv
  <2>. QED BY <2>1, <2>3 DEF OrderInv
<1>. QED BY <1>1, <1>2, BlockNextCases DEF ResetBlocks, FollowInv

LEMMA OrderInvariant == BlockSpec => []OrderInv
<1>1. BlockInit => OrderInv
  <2>1. BlockInit => DOMAIN chain = {}
    BY DEF BlockInit, TrackInit
  <2>. QED BY <2>1 DEF OrderInv, OnePlace, Parents, At
<1>2. FollowInv /\ OrderInv /\ [BlockNext]_blockVars => OrderInv'
  BY BlockStepKeepsOrder
<1>. QED BY <1>1, <1>2, FollowInvariant, PTL DEF BlockSpec

-------------------------------------------------------------------------------
(* What is confirmed can be finalized.  LiveInv: the transactions of every *)
(* block that is stored, or may be reported again, are in the history.  A  *)
(* rollback cannot take one out of it, for what it pops with a transaction *)
(* was built on that and is not mined either; nor can new_block, for what  *)
(* it forgets with a settled transaction is mined below the stored blocks. *)

LiveInv ==
  \A g \in DOMAIN chain : g \in DOMAIN blocks \/ g > ConfirmedHeight(peak) =>
    \A t : Holds(chain, t, g) => HasTx(states, t)

\* Only registrations have an id.
IdInv == \A i \in DOMAIN states : ~IsRegister(states[i]) => states[i].id = NoTx

LEMMA StepKeepsIds ==
  ASSUME TypeOK, SetupInv, IdInv, [Next]_vars
  PROVE  IdInv'
<1>1. ASSUME NEW utxo \in InitUtxos, InitBtcUtxo(utxo) PROVE IdInv'
  <2>1. utxo.sats \in Nat /\ utxo.outpoint \in Outpoints
    BY SatsAssumption DEF Outpoints
  <2>2. InitState(utxo) \in PoolStateType /\ InitState(utxo).id = NoTx
    BY <2>1 DEF InitState, PoolStateType
  <2>3. states \in Seq(PoolStateType) /\ states' = Append(states, InitState(utxo))
    BY <1>1 DEF InitBtcUtxo, TypeOK
  <2>4. ASSUME NEW i \in DOMAIN states'
        PROVE  states'[i] = InitState(utxo) \/ (i \in DOMAIN states /\ states'[i] = states[i])
    BY <2>2, <2>3, AppendFacts
  <2>. QED BY <2>2, <2>4 DEF IdInv, IsRegister
<1>2. ASSUME NEW c \in Calls, CommitRegister(c) PROVE IdInv'
  <2>1. \A i \in DOMAIN states' :
          (i \in DOMAIN states /\ states'[i] = states[i]) \/ states'[i] = calls[c].state
    BY <1>2, CommitFacts
  <2>2. IsRegister(calls[c].state)
    BY <1>2, CommitFacts
  <2>. QED BY <2>1, <2>2 DEF IdInv, IsRegister
<1>3. ASSUME NEW t \in Txids, RollbackTx(t) PROVE IdInv'
  BY <1>3, RollbackFacts DEF IdInv, IsRegister
<1>4. CASE UNCHANGED states
  BY <1>4 DEF IdInv, IsRegister
<1>. QED BY <1>1, <1>2, <1>3, <1>4 DEF Next, SetupNext, InitKeyCall, InitKeyReply,
            InitKeyFails, Upgrade, PostUpgrade, Execute, ExecuteRegister, SignReply,
            ExecuteFails

LEMMA ReportKeepsIds ==
  ASSUME TypeOK, IdInv, NEW h, NEW hash, NEW txs, Reported(h, hash, txs)
  PROVE  IdInv'
<1>1. PICK k \in Nat : Cut(k)
  BY NewBlockCuts DEF Reported
<1>2. \A i \in DOMAIN states' : k + i \in DOMAIN states /\ states'[i] = states[k + i]
  BY <1>1, CutFacts
<1>. QED BY <1>2 DEF IdInv, IsRegister

(* A transaction in the history belongs to a registration.                 *)
LEMMA TxIsRegister ==
  ASSUME IdInv, NEW i \in DOMAIN states, states[i].id \in Txids
  PROVE  IsRegister(states[i])
BY TxAssumption DEF IdInv

LEMMA ChainTyped ==
  ASSUME FollowInv, NEW t, NEW g, Holds(chain, t, g)
  PROVE  t \in Txids
<1>1. chain[g].txs \in Seq(Txids)
  BY DEF FollowInv, TrackInv, BlockTypeOK, BlockType, Holds
<1>2. \A i \in DOMAIN chain[g].txs : chain[g].txs[i] \in Txids
  BY <1>1, LenProperties
<1>. QED BY <1>2 DEF Holds, TxSet

(* Without a rollback or a new block the history only grows.               *)
LEMMA BlockHistoryCases ==
  ASSUME TrackInv, SetupInv, [BlockNext]_blockVars
  PROVE  \/ \E t \in Txids : RollbackUnmined(t)
         \/ /\ UNCHANGED trackVars
            /\ \A i \in DOMAIN states : i \in DOMAIN states' /\ states'[i] = states[i]
         \/ ResetBlocks
         \/ \E h \in FirstHeight .. MaxHeight, hash \in Hashes, txs \in Seq(Txids) :
              Reported(h, hash, txs)
<1>1. TypeOK
  BY DEF TrackInv, BlockTypeOK
<1>2. ASSUME NEW utxo \in InitUtxos, InitBtcUtxo(utxo)
      PROVE  \A i \in DOMAIN states : i \in DOMAIN states' /\ states'[i] = states[i]
  <2>1. utxo.sats \in Nat /\ utxo.outpoint \in Outpoints
    BY SatsAssumption DEF Outpoints
  <2>2. InitState(utxo) \in PoolStateType
    BY <2>1 DEF InitState, PoolStateType
  <2>3. states \in Seq(PoolStateType) /\ states' = Append(states, InitState(utxo))
    BY <1>1, <1>2 DEF InitBtcUtxo, TypeOK
  <2>. QED BY <2>2, <2>3, AppendFacts
<1>3. ASSUME NEW c \in Calls, CommitRegister(c)
      PROVE  \A i \in DOMAIN states : i \in DOMAIN states' /\ states'[i] = states[i]
  BY <1>1, <1>3, CommitFacts
<1>4. CASE \/ SetupNext /\ UNCHANGED <<execVars, trackVars>>
           \/ Upgrade /\ UNCHANGED trackVars
           \/ Execute /\ UNCHANGED trackVars
           \/ UNCHANGED blockVars
  BY <1>2, <1>3, <1>4 DEF SetupNext, InitKeyCall, InitKeyReply, InitKeyFails, Upgrade,
     PostUpgrade, Execute, ExecuteRegister, SignReply, ExecuteFails
<1>5. CASE TrackNext
  BY <1>5, BlockReported DEF TrackNext
<1>. QED BY <1>4, <1>5 DEF BlockNext

(* What a rollback pops with a transaction that is not mined is not mined. *)
LEMMA RollbackKeepsMined ==
  ASSUME PoolInv, IdInv, OrderInv, NEW t \in Txids, RollbackUnmined(t),
         NEW u \in Txids, NEW g, Holds(chain, u, g), HasTx(states, u)
  PROVE  HasTx(states', u)
<1> DEFINE p == Position(states, t)
<1>1. /\ states \in Seq(PoolStateType) /\ Len(states) \in Nat
      /\ DOMAIN states = 1 .. Len(states)
  BY LenProperties DEF PoolInv, TypeOK
<1>2. TypeOK /\ RollbackTx(t) /\ t \notin Mined /\ CanRollback(states, gamers, t)
  BY DEF PoolInv, RollbackUnmined, RollbackTx
<1>3. p \in 1 .. Len(states) /\ states[p].id = t
  BY <1>1, <1>2, PositionIsFirst DEF CanRollback
<1>4. DOMAIN states' = 1 .. p - 1 /\ \A i \in DOMAIN states' : states'[i] = states[i]
  <2>1. states' = Rollback(states, t)
    BY <1>2 DEF RollbackTx
  <2>2. states' \in Seq(PoolStateType) /\ Len(states') = p - 1
    BY <1>1, <1>2, <2>1, RollbackIsPrefix
  <2>3. DOMAIN states' = 1 .. Len(states')
    BY <2>2, LenProperties
  <2>. QED BY <1>2, <2>2, <2>3, RollbackFacts
<1>5. PICK j \in DOMAIN states : states[j].id = u
  BY DEF HasTx
<1>6. t \in Mined => FALSE
  BY <1>2
<1>7. u # t
  BY <1>6, MinedFacts DEF Holds
<1>. HIDE DEF p
<1>8. CASE j < p
  <2>1. j \in DOMAIN states'
    BY <1>1, <1>3, <1>4, <1>8
  <2>. QED BY <1>4, <1>5, <2>1 DEF HasTx
<1>9. CASE ~(j < p)
  <2>1. p < j
    BY <1>1, <1>3, <1>5, <1>7, <1>9
  <2>2. p \in DOMAIN states /\ IsRegister(states[p])
    BY <1>1, <1>3, TxIsRegister
  <2>3. PICK ch : ch = chain
    OBVIOUS
  <2>4. OnePlace(ch) /\ Parents(ch) /\ Holds(ch, states[j].id, g)
    BY <1>5, <2>3 DEF OrderInv
  <2>5. InitsFirst /\ StatesChained /\ OriginInv
    BY DEF PoolInv, SetupInv, HistoryInv, FundInv
  <2>6. Before(ch, t, u)
    BY <1>2, <1>3, <1>5, <2>1, <2>2, <2>4, <2>5, HistoryInOrder
  <2>7. PICK f, i : At(ch, t, f, i)
    BY <2>6, BeforeIs
  <2>8. Holds(chain, t, f) /\ f \in DOMAIN chain
    BY <2>3, <2>7, HoldsIsAt DEF At
  <2>. QED BY <1>6, <2>8, MinedFacts
<1>. QED BY <1>8, <1>9

(* What new_block forgets is mined no higher than what it settles.         *)
LEMMA ForgottenIsDeep ==
  ASSUME PoolInv, IdInv, OrderInv', FollowInv, FollowInv', NEW h \in FirstHeight .. MaxHeight,
         NEW hash \in Hashes, NEW txs \in Seq(Txids), Reported(h, hash, txs),
         NEW t \in Txids, NEW g, Holds(chain', t, g), HasTx(states, t), ~HasTx(states', t)
  PROVE  /\ g <= ConfirmedHeight(h) /\ g \in Int
         /\ \A b \in DOMAIN blocks' : b > ConfirmedHeight(h)
<1>1. PICK j \in DOMAIN states : states[j].id = t
  BY DEF HasTx
<1>2. PICK k \in Nat : Cut(k)
  BY NewBlockCuts DEF Reported, PoolInv
<1>3. /\ Len(states) \in Nat /\ DOMAIN states = 1 .. Len(states)
      /\ Len(states') = Len(states) - k /\ DOMAIN states' = 1 .. Len(states')
      /\ \A i \in DOMAIN states' : k + i \in DOMAIN states /\ states'[i] = states[k + i]
  BY <1>2, CutFacts DEF PoolInv, Cut
<1>4. j <= k
  <2>1. ASSUME j > k PROVE FALSE
    <3>1. j - k \in DOMAIN states' /\ k + (j - k) = j
      BY <1>3, <2>1
    <3>. QED BY <1>1, <1>3, <3>1 DEF HasTx
  <2>. QED BY <1>3, <2>1
<1>5. states' # states
  BY <1>1 DEF HasTx
<1>6. PICK e : Holds(chain', states'[1].id, e) /\ e <= ConfirmedHeight(h)
  BY <1>5, SettledFacts
<1>7. \A b \in DOMAIN blocks' : b > ConfirmedHeight(h)
  BY <1>5, SettledFacts
<1>8. 1 \in DOMAIN states' /\ k + 1 \in DOMAIN states /\ states'[1] = states[k + 1]
  <2>1. 1 \in DOMAIN states'
    BY <1>3, <1>4, <1>2 DEF Cut
  <2>. QED BY <1>3, <2>1
<1>9. j < k + 1
  BY <1>3, <1>4
<1>10. PICK ch : ch = chain'
  OBVIOUS
<1>11. OnePlace(ch) /\ Parents(ch) /\ Holds(ch, states[k + 1].id, e) /\ Holds(ch, t, g)
  BY <1>6, <1>8, <1>10 DEF OrderInv
<1>12. Before(ch, t, states[k + 1].id)
  <2>1. IsRegister(states[j])
    BY <1>1, TxIsRegister DEF PoolInv
  <2>. QED BY <1>1, <1>8, <1>9, <1>11, <2>1, HistoryInOrder
         DEF PoolInv, SetupInv, HistoryInv, FundInv
<1>13. PICK f, d, a, b : /\ At(ch, t, f, a) /\ At(ch, states[k + 1].id, d, b)
                         /\ f < d \/ (f = d /\ a < b)
  BY <1>12, BeforeIs
<1>14. /\ f = g /\ d = e /\ g \in Int /\ e \in Int
  BY <1>11, <1>13, HoldsIsAt DEF OnePlace
<1>15. ConfirmedHeight(h) \in Int
  BY HeightAssumption DEF ConfirmedHeight
<1>16. g <= ConfirmedHeight(h)
  BY <1>6, <1>13, <1>14, <1>15
<1>. QED BY <1>7, <1>14, <1>16

LEMMA ReportKeepsLive ==
  ASSUME ~LateConfirm, PoolInv, IdInv, OrderInv', FollowInv, FollowInv', LiveInv,
         NEW h \in FirstHeight .. MaxHeight, NEW hash \in Hashes,
         NEW txs \in Seq(Txids), Reported(h, hash, txs)
  PROVE  LiveInv'
<1>1. /\ NewBlock(h, hash, txs) /\ peak' >= peak
      /\ \/ /\ Repeating(h, hash, txs) /\ UNCHANGED <<chain, peak>>
         \/ Mining(h, hash, txs) /\ \A g \in DOMAIN chain' : g <= h
      /\ \A g \in KeptHeights(h, hash) : g \in DOMAIN blocks
  BY ReportFacts DEF FollowInv
<1>2. /\ h \in Int /\ peak \in Int /\ peak' \in Int /\ peak' >= h
      /\ (\A g \in DOMAIN chain' : g \in Int)
      /\ (\A g \in DOMAIN chain : g \in Int)
  <2>1. FirstHeight \in Nat /\ MaxHeight \in Nat
    BY HeightAssumption
  <2>2. HeightInv /\ HeightInv' /\ Tip' >= h
    BY ReportFacts DEF FollowInv, TrackInv
  <2>. QED BY <2>1, <2>2 DEF HeightInv
<1>3. /\ ConfirmedHeight(h) <= ConfirmedHeight(peak')
      /\ ConfirmedHeight(peak) <= ConfirmedHeight(peak')
      /\ ConfirmedHeight(h) \in Int /\ ConfirmedHeight(peak) \in Int
      /\ ConfirmedHeight(peak') \in Int
  <2>1. ASSUME NEW a \in Int PROVE ConfirmedHeight(a) \in Int
    BY HeightAssumption DEF ConfirmedHeight
  <2>2. h <= peak' /\ peak <= peak'
    BY <1>1, <1>2
  <2>. QED BY <1>2, <2>1, <2>2, ConfirmedHeightGrows
<1>4. SUFFICES ASSUME NEW g \in DOMAIN chain',
                      g \in DOMAIN blocks' \/ g > ConfirmedHeight(peak'),
                      NEW t, Holds(chain', t, g)
               PROVE  HasTx(states', t)
  BY DEF LiveInv, ConfirmedHeight
<1>5. t \in Txids
  <2>1. chain'[g].txs \in Seq(Txids)
    BY DEF FollowInv, TrackInv, BlockTypeOK, BlockType
  <2>2. \A i \in DOMAIN chain'[g].txs : chain'[g].txs[i] \in Txids
    BY <2>1, LenProperties
  <2>. QED BY <1>4, <2>2 DEF Holds, TxSet
<1>6. HasTx(states, t)
  <2>1. g = h \/ g \in DOMAIN blocks \/ g > ConfirmedHeight(peak)
    BY <1>1, <1>2, <1>3, <1>4, BlocksAfter
  <2>2. CASE Repeating(h, hash, txs) /\ UNCHANGED <<chain, peak>>
    BY <1>4, <2>1, <2>2 DEF Repeating, LiveInv
  <2>3. CASE Mining(h, hash, txs) /\ g = h
    BY <1>4, <2>3, HoldsAfter, MiningFacts
  <2>4. CASE Mining(h, hash, txs) /\ g # h /\ g <= h
    <3>1. g < h
      BY <1>2, <2>4
    <3>2. Holds(chain, t, g)
      BY <1>4, <3>1, HoldsAfter
    <3>. QED BY <2>1, <2>4, <3>2 DEF LiveInv, Holds
  <2>. QED BY <1>1, <2>2, <2>3, <2>4
<1>7. ASSUME ~HasTx(states', t) PROVE FALSE
  <2>1. /\ g <= ConfirmedHeight(h) /\ g \in Int
        /\ \A b \in DOMAIN blocks' : b > ConfirmedHeight(h)
    BY <1>4, <1>5, <1>6, <1>7, ForgottenIsDeep
  <2>. QED BY <1>3, <1>4, <2>1
<1>. QED BY <1>7

LEMMA BlockStepKeepsLive ==
  ASSUME ~LateConfirm, PoolInv, IdInv, OrderInv, OrderInv', FollowInv, FollowInv', LiveInv,
         [BlockNext]_blockVars
  PROVE  LiveInv'
<1>1. CASE /\ UNCHANGED trackVars
           /\ \A i \in DOMAIN states : i \in DOMAIN states' /\ states'[i] = states[i]
  <2>1. \A t : HasTx(states, t) => HasTx(states', t)
    BY <1>1 DEF HasTx
  <2>. QED BY <1>1, <2>1 DEF LiveInv, Holds, ConfirmedHeight
<1>2. ASSUME NEW t \in Txids, RollbackUnmined(t) PROVE LiveInv'
  <2>1. UNCHANGED trackVars
    BY <1>2 DEF RollbackUnmined
  <2>2. ASSUME NEW g \in DOMAIN chain, g \in DOMAIN blocks \/ g > ConfirmedHeight(peak),
               NEW u, Holds(chain, u, g)
        PROVE  HasTx(states', u)
    <3>1. u \in Txids /\ HasTx(states, u)
      BY <2>2, ChainTyped DEF LiveInv
    <3>. QED BY <1>2, <2>2, <3>1, RollbackKeepsMined
  <2>. QED BY <2>1, <2>2 DEF LiveInv, Holds, ConfirmedHeight
<1>3. CASE ResetBlocks
  <2>1. UNCHANGED <<states, chain, peak>> /\ DOMAIN blocks' = {}
    BY <1>3 DEF ResetBlocks
  <2>. QED BY <2>1 DEF LiveInv, Holds, HasTx, ConfirmedHeight
<1>4. ASSUME NEW h \in FirstHeight .. MaxHeight, NEW hash \in Hashes,
             NEW txs \in Seq(Txids), Reported(h, hash, txs)
      PROVE  LiveInv'
  BY <1>4, ReportKeepsLive
<1>. QED BY <1>1, <1>2, <1>3, <1>4, BlockHistoryCases DEF FollowInv, PoolInv

LEMMA BlockStepKeepsIds ==
  ASSUME TrackInv, SetupInv, IdInv, [BlockNext]_blockVars
  PROVE  IdInv'
<1>1. TypeOK
  BY DEF TrackInv, BlockTypeOK
<1>2. CASE ResetBlocks
  BY <1>2 DEF ResetBlocks, IdInv, IsRegister
<1>. QED BY <1>1, <1>2, BlockNextCases, StepKeepsIds, ReportKeepsIds

LEMMA IdInvariant == BlockSpec => []IdInv
<1>1. BlockInit => IdInv
  BY DEF BlockInit, Init, SetupInit, IdInv
<1>2. TrackInv /\ SetupInv /\ IdInv /\ [BlockNext]_blockVars => IdInv'
  BY BlockStepKeepsIds
<1>. QED BY <1>1, <1>2, BlockInvariants, PTL DEF BlockSpec

LEMMA LiveInvariant ==
  ASSUME Serial, ~LateConfirm
  PROVE  BlockSpec => []LiveInv
<1>1. BlockInit => LiveInv
  <2>1. BlockInit => DOMAIN chain = {}
    BY DEF BlockInit, TrackInit
  <2>. QED BY <2>1 DEF LiveInv
<1>2. ~LateConfirm /\ PoolInv /\ IdInv /\ OrderInv /\ OrderInv' /\ FollowInv /\ FollowInv'
        /\ LiveInv /\ [BlockNext]_blockVars => LiveInv'
  BY BlockStepKeepsLive
<1>. QED BY <1>1, <1>2, BlockPoolInvariant, IdInvariant, OrderInvariant, FollowInvariant,
         PTL DEF BlockSpec

(* finalize finds what is mined in the order of the history, as long as    *)
(* all of it is there.                                                     *)
LEMMA MinedCanFinalize ==
  ASSUME PoolInv, IdInv, NEW ch, OnePlace(ch), Parents(ch),
         NEW bs, \A t, g, i : At(bs, t, g, i) => At(ch, t, g, i),
         NEW settled,
         \A t \in settled : t \in Txids /\ HasTx(states, t) /\ \E g : Holds(bs, t, g)
  PROVE  CanFinalizeAll(states, bs, settled)
<1>1. states \in Seq(PoolStateType) /\ DOMAIN states = 1 .. Len(states)
  BY LenProperties DEF PoolInv, TypeOK
<1>2. ASSUME NEW t \in settled, NEW u \in settled, Before(bs, t, u)
      PROVE  Position(states, t) <= Position(states, u)
  <2>1. PICK p \in DOMAIN states : p = Position(states, t) /\ states[p].id = t
    BY <1>1, PositionIsFirst
  <2>2. PICK q \in DOMAIN states : q = Position(states, u) /\ states[q].id = u
    BY <1>1, PositionIsFirst
  <2>3. Before(ch, t, u)
    BY <1>2, BeforeIs
  <2>4. ASSUME q < p PROVE FALSE
    <3>1. PICK g : Holds(ch, states[p].id, g)
      <4>1. PICK g, i : At(bs, t, g, i)
        BY HoldsIsAt
      <4>2. Holds(ch, t, g)
        BY <4>1, HoldsIsAt
      <4>. QED BY <2>1, <4>2
    <3>2. IsRegister(states[q])
      BY <2>2, TxIsRegister
    <3>3. Before(ch, u, t)
      BY <2>1, <2>2, <2>4, <3>1, <3>2, HistoryInOrder
         DEF PoolInv, SetupInv, HistoryInv, FundInv
    <3>. QED BY <2>3, <3>3, BeforeAsymmetric
  <2>. QED BY <1>1, <2>1, <2>2, <2>4
<1>. QED BY <1>2 DEF CanFinalizeAll

LEMMA LiveCanFinalize ==
  ASSUME PoolInv, IdInv, OrderInv, FollowInv, LiveInv
  PROVE  ConfirmedCanFinalize
<1> DEFINE settled == Settling(blocks, txRecords)
<1>1. ASSUME NEW t \in settled
      PROVE  t \in Txids /\ HasTx(states, t) /\ \E g : Holds(blocks, t, g)
  <2>1. PICK g \in DOMAIN blocks : t \in TxSet(blocks[g].txs)
    <3>1. t \in TxsOf(blocks, DOMAIN blocks)
      BY DEF Settling
    <3>. QED BY <3>1, HoldsFacts
  <2>2. Holds(blocks, t, g) /\ Holds(chain, t, g)
    BY <2>1 DEF FollowInv, CopyInv, Holds
  <2>. QED BY <2>1, <2>2, ChainTyped DEF LiveInv, Holds
<1>2. PICK ch : ch = chain
  OBVIOUS
<1>3. OnePlace(ch) /\ Parents(ch)
  BY <1>2 DEF OrderInv
<1>4. \A t, g, i : At(blocks, t, g, i) => At(ch, t, g, i)
  BY <1>2 DEF FollowInv, CopyInv, At
<1>5. PICK bs : bs = blocks
  OBVIOUS
<1>6. CanFinalizeAll(states, bs, settled)
  <2>. HIDE DEF settled
  <2>. QED BY <1>1, <1>3, <1>4, <1>5, MinedCanFinalize
<1>. QED BY <1>5, <1>6 DEF ConfirmedCanFinalize

(* Whatever is confirmed in a stored block can be finalized when its turn  *)
(* comes, if the orchestrator waits for each answer and no transaction is  *)
(* mined that it made the exchange roll back: new_block never panics on a  *)
(* block it has stored, through every order of registrations, rollbacks,   *)
(* reorganisations, resets and blocks reported again.                      *)
THEOREM ConfirmedStaysFinalizable ==
  ASSUME Serial, ~LateConfirm
  PROVE  BlockSpec => []ConfirmedCanFinalize
<1>1. PoolInv /\ IdInv /\ OrderInv /\ FollowInv /\ LiveInv => ConfirmedCanFinalize
  BY LiveCanFinalize
<1>. QED BY <1>1, BlockPoolInvariant, IdInvariant, OrderInvariant, FollowInvariant,
         LiveInvariant, PTL

-------------------------------------------------------------------------------
(* new_block never panics.  With the block bitcoin brings, what is stored  *)
(* is part of one chain, the reported one or what it grows to, and all     *)
(* that is mined in the stored blocks is in the history.                   *)

\* The chain with this block at its end.
Grown(h, hash, txs) ==
  [g \in {f \in DOMAIN chain : f < h} \cup {h} |->
     IF g = h THEN Block(hash, txs) ELSE chain[g]]

\* A stored block is the new one or was stored before.
LEMMA StoredIsAt ==
  ASSUME NEW h, NEW hash, NEW txs, NEW t, NEW g, NEW i,
         At(StoredBlocks(h, hash, txs), t, g, i)
  PROVE  \/ g = h /\ i \in DOMAIN txs /\ txs[i] = t
         \/ g \in KeptHeights(h, hash) /\ g # h /\ At(blocks, t, g, i)
<1>1. /\ DOMAIN StoredBlocks(h, hash, txs) = KeptHeights(h, hash) \cup {h}
      /\ StoredBlocks(h, hash, txs)[h] = Block(hash, txs)
      /\ \A f \in KeptHeights(h, hash) :
           f \in DOMAIN blocks /\ (f # h => StoredBlocks(h, hash, txs)[f] = blocks[f])
  BY StoredBlocksAre, KeptIs
<1>2. Block(hash, txs).txs = txs
  BY DEF Block
<1>. QED BY <1>1, <1>2 DEF At

LEMMA RepeatedBlockFits ==
  ASSUME FollowInv, OrderInv, LiveInv, NEW h \in DOMAIN chain, MayReport(h),
         NEW hash, hash = chain[h].hash, NEW txs, txs = chain[h].txs
  PROVE  \E ch : /\ OnePlace(ch) /\ Parents(ch)
                 /\ \A t, g, i : At(StoredBlocks(h, hash, txs), t, g, i) =>
                      t \in Txids /\ HasTx(states, t) /\ At(ch, t, g, i)
<1>1. ASSUME NEW t, NEW g, NEW i, At(StoredBlocks(h, hash, txs), t, g, i)
      PROVE  t \in Txids /\ HasTx(states, t) /\ At(chain, t, g, i)
  <2>1. \/ g = h /\ i \in DOMAIN txs /\ txs[i] = t
        \/ g \in KeptHeights(h, hash) /\ g # h /\ At(blocks, t, g, i)
    BY <1>1, StoredIsAt
  <2>2. At(chain, t, g, i) /\ (g \in DOMAIN blocks \/ g > ConfirmedHeight(peak))
    <3>1. CASE g = h /\ i \in DOMAIN txs /\ txs[i] = t
      BY <3>1 DEF At
    <3>2. CASE At(blocks, t, g, i)
      BY <3>2 DEF At, FollowInv, CopyInv
    <3>. QED BY <2>1, <3>1, <3>2
  <2>3. Holds(chain, t, g)
    BY <2>2 DEF Holds, At, TxSet
  <2>. QED BY <2>2, <2>3, ChainTyped DEF LiveInv, Holds
<1>2. PICK ch : ch = chain
  OBVIOUS
<1>. QED BY <1>1, <1>2 DEF OrderInv

LEMMA MinedBlockFits ==
  ASSUME ~LateConfirm, FollowInv, OrderInv, LiveInv,
         NEW h \in FirstHeight .. MaxHeight, Accepted(h), NEW hash,
         h \in DOMAIN chain => hash # chain[h].hash,
         NEW txs \in Seq(Txids), Mineable(txs, h)
  PROVE  \E ch : /\ OnePlace(ch) /\ Parents(ch)
                 /\ \A t, g, i : At(StoredBlocks(h, hash, txs), t, g, i) =>
                      t \in Txids /\ HasTx(states, t) /\ At(ch, t, g, i)
<1>1. PICK ch : ch = Grown(h, hash, txs)
  OBVIOUS
<1>2. GrowsTo(ch, h, txs)
  <2>1. ~(h < h)
    BY HeightAssumption
  <2>2. /\ DOMAIN ch = {f \in DOMAIN chain : f < h} \cup {h}
        /\ ch[h].txs = txs /\ \A f \in DOMAIN chain : f < h => ch[f] = chain[f]
    BY <1>1, <2>1 DEF Grown, Block
  <2>. QED BY <2>1, <2>2 DEF GrowsTo, At
<1>3. OnePlace(ch) /\ Parents(ch)
  BY <1>2, GrowthKeepsPlaces, GrowthKeepsParents DEF OrderInv
<1>4. \A g \in KeptHeights(h, hash) : g \in DOMAIN blocks /\ g < h
  <2>1. CASE h \in DOMAIN blocks
    <3>1. Replaces(h, hash)
      BY <2>1 DEF Replaces, FollowInv, CopyInv
    <3>. QED BY <3>1, KeptIs
  <2>2. CASE h \notin DOMAIN blocks
    <3>1. \A g \in DOMAIN blocks : g <= h - 1 /\ g \in Int
      <4>1. TrackInv /\ DOMAIN blocks \subseteq FirstHeight .. MaxHeight
        BY DEF FollowInv, TrackInv, BlockTypeOK
      <4>2. \A g \in DOMAIN blocks : g <= h - 1
        BY <2>2, <4>1, AcceptedFacts
      <4>. QED BY <4>1, <4>2, HeightAssumption
    <3>2. h \in Int
      BY HeightAssumption
    <3>. QED BY <3>1, <3>2, KeptIs
  <2>. QED BY <2>1, <2>2
<1>5. ASSUME NEW t, NEW g, NEW i, At(StoredBlocks(h, hash, txs), t, g, i)
      PROVE  t \in Txids /\ HasTx(states, t) /\ At(ch, t, g, i)
  <2>1. CASE g = h /\ i \in DOMAIN txs /\ txs[i] = t
    <3>1. At(ch, t, g, i)
      BY <1>2, <2>1 DEF GrowsTo
    <3>2. t \in Txids /\ HasTx(states, t)
      BY <2>1, MineableFacts DEF Mineable
    <3>. QED BY <3>1, <3>2
  <2>2. CASE g \in KeptHeights(h, hash) /\ g # h /\ At(blocks, t, g, i)
    <3>1. At(chain, t, g, i) /\ g < h /\ g \in DOMAIN blocks
      BY <1>4, <2>2 DEF At, FollowInv, CopyInv
    <3>2. Holds(chain, t, g)
      BY <3>1 DEF Holds, At, TxSet
    <3>3. t \in Txids /\ HasTx(states, t)
      BY <3>1, <3>2, ChainTyped DEF LiveInv, Holds
    <3>. QED BY <1>2, <3>1, <3>3 DEF GrowsTo
  <2>. QED BY <1>5, <2>1, <2>2, StoredIsAt
<1>. QED BY <1>3, <1>5

LEMMA BroughtCanProcess ==
  ASSUME ~LateConfirm, PoolInv, IdInv, OrderInv, FollowInv, LiveInv,
         NEW h \in FirstHeight .. MaxHeight, Accepted(h), NEW hash \in Hashes,
         NEW txs \in Seq(Txids), MayBring(h, hash, txs)
  PROVE  CanProcess(h, hash, txs)
<1>1. PICK ch : /\ OnePlace(ch) /\ Parents(ch)
                /\ \A t, g, i : At(StoredBlocks(h, hash, txs), t, g, i) =>
                     t \in Txids /\ HasTx(states, t) /\ At(ch, t, g, i)
  <2>1. CASE h \in DOMAIN chain /\ MayReport(h) /\ hash = chain[h].hash /\ txs = chain[h].txs
    BY <2>1, RepeatedBlockFits
  <2>2. CASE Mineable(txs, h) /\ (h \in DOMAIN chain => hash # chain[h].hash)
    BY <2>2, MinedBlockFits
  <2>3. h = NextHeight => h \notin DOMAIN chain
    BY HeightAssumption DEF NextHeight, FollowInv, TrackInv, HeightInv
  <2>. QED BY <2>1, <2>2, <2>3 DEF MayBring
<1>2. PICK deep : deep = Deep(StoredBlocks(h, hash, txs), ConfirmedHeight(h))
  OBVIOUS
<1>3. PICK settled : settled = Settling(deep, NewRecords(h, hash, txs))
  OBVIOUS
<1>4. \A t, g, i : At(deep, t, g, i) => At(StoredBlocks(h, hash, txs), t, g, i)
  BY <1>2 DEF Deep, Keep, At
<1>5. ASSUME NEW t \in settled
      PROVE  t \in Txids /\ HasTx(states, t) /\ \E g : Holds(deep, t, g)
  <2>1. t \in TxsOf(deep, DOMAIN deep)
    BY <1>3 DEF Settling
  <2>2. PICK g : Holds(deep, t, g)
    BY <2>1, HoldsFacts DEF Holds
  <2>3. PICK i : At(deep, t, g, i)
    BY <2>2, HoldsIsAt
  <2>. QED BY <1>1, <1>4, <2>2, <2>3
<1>6. CanFinalizeAll(states, deep, settled)
  BY <1>1, <1>4, <1>5, MinedCanFinalize
<1>7. Replaces(h, hash) => CanHandleReorg(h)
  BY FollowIsContiguous DEF BlocksContiguous, CanHandleReorg, Replaces
<1>. QED BY <1>2, <1>3, <1>6, <1>7 DEF CanProcess

(* new_block never panics, whatever block bitcoin may bring: neither the   *)
(* unwrap of handle_reorg nor that of finalize fails, through every order  *)
(* of registrations, rollbacks, reorganisations, resets and blocks         *)
(* reported again, if the orchestrator waits for each answer and no        *)
(* transaction is mined that it made the exchange roll back.               *)
THEOREM NewBlockNeverFails ==
  ASSUME Serial, ~LateConfirm
  PROVE  BlockSpec => []NewBlockNeverPanics
<1>1. ~LateConfirm /\ PoolInv /\ IdInv /\ OrderInv /\ FollowInv /\ LiveInv
        => NewBlockNeverPanics
  BY BroughtCanProcess, TxListsAreSeqs DEF NewBlockNeverPanics
<1>. QED BY <1>1, BlockPoolInvariant, IdInvariant, OrderInvariant, FollowInvariant,
         LiveInvariant, PTL

-------------------------------------------------------------------------------
(* What is mined is settled in time.                                       *)

(* What the steps do to the history, told apart by how they reach it.      *)
LEMMA BlockHistorySteps ==
  ASSUME TrackInv, SetupInv, [BlockNext]_blockVars
  PROVE  \/ \E t \in Txids : RollbackUnmined(t)
         \/ UNCHANGED trackVars /\ \E c \in Calls : CommitRegister(c)
         \/ /\ UNCHANGED trackVars /\ UNCHANGED gamers
            /\ \A i \in DOMAIN states' : IsRegister(states'[i]) =>
                 i \in DOMAIN states /\ states'[i] = states[i]
         \/ ResetBlocks
         \/ \E h \in FirstHeight .. MaxHeight, hash \in Hashes, txs \in Seq(Txids) :
              Reported(h, hash, txs)
<1>1. TypeOK
  BY DEF TrackInv, BlockTypeOK
<1>2. CASE SetupNext /\ UNCHANGED <<execVars, trackVars>>
  BY <1>1, <1>2, SetupFacts
<1>3. CASE Upgrade /\ UNCHANGED trackVars
  BY <1>3 DEF Upgrade, PostUpgrade
<1>4. CASE Execute /\ UNCHANGED trackVars
  BY <1>4 DEF Execute, ExecuteRegister, SignReply, ExecuteFails
<1>5. CASE UNCHANGED blockVars
  BY <1>5
<1>6. CASE TrackNext
  BY <1>6, BlockReported DEF TrackNext
<1>. QED BY <1>2, <1>3, <1>4, <1>5, <1>6 DEF BlockNext

(* The gamer of a transaction that is mined is in GAMER, and no other      *)
(* registration of his is in the history: so the transaction cannot be     *)
(* committed again after it was settled and forgotten.                     *)
MinedGamersInv ==
  \A t \in Txids : t \in Mined =>
    /\ Sender[t] \in DOMAIN gamers
    /\ \A i \in DOMAIN states :
         IsRegister(states[i]) /\ states[i].gamer = Sender[t] => states[i].id = t

\* The one state of the history that a transaction made.
LEMMA OwnState ==
  ASSUME PoolInv, IdInv, NEW t \in Txids, NEW j \in DOMAIN states, states[j].id = t
  PROVE  /\ IsRegister(states[j]) /\ states[j].gamer = Sender[t]
         /\ Sender[t] \in DOMAIN gamers
         /\ \A i \in DOMAIN states :
              IsRegister(states[i]) /\ states[i].gamer = Sender[t] => i = j
<1>1. IsRegister(states[j])
  BY TxIsRegister
<1>2. states[j].gamer = Sender[t]
  BY <1>1 DEF PoolInv, FundInv, OriginInv
<1>. QED BY <1>1, <1>2 DEF PoolInv, HistoryInv, OneStatePerGamer

LEMMA RollbackKeepsGamers ==
  ASSUME PoolInv, IdInv, OrderInv, MinedGamersInv, NEW u \in Txids, RollbackUnmined(u)
  PROVE  MinedGamersInv'
<1>1. TypeOK /\ RollbackTx(u) /\ Mined' = Mined
  BY DEF PoolInv, RollbackUnmined, Mined, TxsOf
<1>2. /\ DOMAIN states' \subseteq DOMAIN states
      /\ \A i \in DOMAIN states' : states'[i] = states[i]
      /\ Len(states') = Position(states, u) - 1
      /\ Position(states, u) \in 2 .. Len(states)
  BY <1>1, RollbackFacts
<1>3. /\ Len(states) \in Nat /\ DOMAIN states = 1 .. Len(states)
      /\ Len(states') \in Nat /\ DOMAIN states' = 1 .. Len(states')
  <2>1. TypeOK'
    BY <1>1, RollbackKeepsTypes
  <2>. QED BY <1>1, <2>1, LenProperties DEF TypeOK
<1>4. DOMAIN gamers' = DOMAIN gamers \ PoppedGamers(states, u, "Register")
  BY <1>1 DEF RollbackTx, RollbackGamers
<1>5. ASSUME NEW t \in Txids, t \in Mined, Sender[t] \in PoppedGamers(states, u, "Register")
      PROVE  FALSE
  <2>1. PICK i \in Position(states, u) .. Len(states) :
          IsRegister(states[i]) /\ states[i].gamer = Sender[t]
    BY <1>5 DEF PoppedGamers, Popped, IsRegister
  <2>2. i \in DOMAIN states
    BY <1>2, <1>3
  <2>3. states[i].id = t
    BY <1>5, <2>1, <2>2 DEF MinedGamersInv
  <2>4. HasTx(states, t) /\ \E g : Holds(chain, t, g)
    BY <1>5, <2>2, <2>3, MinedFacts DEF HasTx
  <2>5. PICK j \in DOMAIN states' : states'[j].id = t
    <3>1. HasTx(states', t)
      BY <2>4, RollbackKeepsMined
    <3>. QED BY <3>1 DEF HasTx
  <2>6. j \in DOMAIN states /\ states[j].id = t
    BY <1>2, <2>5
  <2>7. i = j
    BY <2>1, <2>2, <2>6, OwnState
  <2>. QED BY <1>2, <1>3, <2>5, <2>7
<1>. QED BY <1>1, <1>2, <1>4, <1>5 DEF MinedGamersInv, IsRegister

LEMMA ReportKeepsGamers ==
  ASSUME ~LateConfirm, PoolInv, IdInv, FollowInv, MinedGamersInv,
         NEW h \in FirstHeight .. MaxHeight, NEW hash \in Hashes,
         NEW txs \in Seq(Txids), Reported(h, hash, txs)
  PROVE  MinedGamersInv'
<1>1. PICK k \in Nat : Cut(k)
  BY NewBlockCuts DEF Reported, PoolInv
<1>2. gamers' = gamers
  BY DEF Reported, NewBlock
<1>3. \A i \in DOMAIN states' : k + i \in DOMAIN states /\ states'[i] = states[k + i]
  BY <1>1, CutFacts DEF PoolInv
<1>4. ASSUME NEW t \in Txids, t \in Mined'
      PROVE  t \in Mined \/ HasTx(states, t)
  <2>1. PICK g \in DOMAIN chain' : Holds(chain', t, g)
    BY <1>4, MinedFacts
  <2>2. CASE Repeating(h, hash, txs)
    BY <2>1, <2>2, MinedFacts DEF Repeating
  <2>3. CASE Mining(h, hash, txs) /\ g = h
    BY <2>1, <2>3, HoldsAfter, MiningFacts
  <2>4. CASE Mining(h, hash, txs) /\ ~Repeating(h, hash, txs) /\ g # h
    <3>1. g < h
      <4>1. FirstHeight \in Nat /\ MaxHeight \in Nat
        BY HeightAssumption
      <4>2. Repeating(h, hash, txs) \/ (g <= h /\ g \in Int)
        BY <2>1, HoldsAfter
      <4>. QED BY <2>4, <4>1, <4>2
    <3>2. Holds(chain, t, g)
      BY <2>1, <3>1, HoldsAfter
    <3>. QED BY <3>2, MinedFacts DEF Holds
  <2>. QED BY <2>2, <2>3, <2>4 DEF Reported
<1>5. ASSUME NEW t \in Txids, HasTx(states, t)
      PROVE  /\ Sender[t] \in DOMAIN gamers
             /\ \A i \in DOMAIN states :
                  IsRegister(states[i]) /\ states[i].gamer = Sender[t] => states[i].id = t
  <2>1. PICK j \in DOMAIN states : states[j].id = t
    BY <1>5 DEF HasTx
  <2>. QED BY <2>1, OwnState
<1>. QED BY <1>2, <1>3, <1>4, <1>5 DEF MinedGamersInv, IsRegister

\* The call in flight registers a gamer who is not in GAMER.
LEMMA CommitIsNew ==
  ASSUME PoolInv, MinedGamersInv, NEW c \in Calls, CommitRegister(c)
  PROVE  /\ Sender[calls[c].tx] \notin DOMAIN gamers
         /\ calls[c].tx \in Txids /\ calls[c].tx \notin Mined
<1>1. TypeOK /\ SetupInv
  BY DEF PoolInv
<1>2. c \in InFlight /\ calls[c].tx \in Txids
  BY <1>1, CommitFacts
<1>3. Sender[calls[c].tx] \notin DOMAIN gamers
  BY <1>2 DEF PoolInv, HistoryInv, FitInv, Fits
<1>. QED BY <1>2, <1>3 DEF MinedGamersInv

LEMMA BlockStepKeepsGamers ==
  ASSUME ~LateConfirm, PoolInv, IdInv, OrderInv, FollowInv, MinedGamersInv,
         [BlockNext]_blockVars
  PROVE  MinedGamersInv'
<1>1. ASSUME NEW c \in Calls, CommitRegister(c), UNCHANGED trackVars PROVE MinedGamersInv'
  <2>1. TypeOK /\ SetupInv
    BY DEF PoolInv
  <2>2. Sender[calls[c].tx] \notin DOMAIN gamers
    BY <1>1, CommitIsNew
  <2>3. DOMAIN gamers \subseteq DOMAIN gamers'
    BY <1>1 DEF CommitRegister, Insert
  <2>4. \A i \in DOMAIN states' :
          (i \in DOMAIN states /\ states'[i] = states[i]) \/ states'[i] = calls[c].state
    BY <1>1, <2>1, CommitFacts
  <2>5. calls[c].state.gamer = Sender[calls[c].tx]
    BY <1>1, <2>1, CommitFacts
  <2>6. Mined' = Mined
    BY <1>1 DEF Mined, TxsOf
  <2>. QED BY <2>2, <2>3, <2>4, <2>5, <2>6 DEF MinedGamersInv, IsRegister
<1>2. CASE UNCHANGED <<chain, gamers, states>>
  BY <1>2 DEF MinedGamersInv, IsRegister, Mined, TxsOf
<1>3. CASE /\ UNCHANGED trackVars /\ UNCHANGED gamers
           /\ \A i \in DOMAIN states' : IsRegister(states'[i]) =>
                i \in DOMAIN states /\ states'[i] = states[i]
  <2>1. Mined' = Mined
    BY <1>3 DEF Mined, TxsOf
  <2>. QED BY <1>3, <2>1 DEF MinedGamersInv, IsRegister
<1>4. ResetBlocks => UNCHANGED <<chain, gamers, states>>
  BY DEF ResetBlocks
<1>. QED BY <1>1, <1>2, <1>3, <1>4, BlockHistorySteps, RollbackKeepsGamers,
         ReportKeepsGamers DEF FollowInv, PoolInv

LEMMA MinedGamersInvariant ==
  ASSUME Serial, ~LateConfirm
  PROVE  BlockSpec => []MinedGamersInv
<1>1. BlockInit => MinedGamersInv
  <2>1. BlockInit => DOMAIN chain = {}
    BY DEF BlockInit, TrackInit
  <2>. QED BY <2>1, MinedFacts DEF MinedGamersInv
<1>2. ~LateConfirm /\ PoolInv /\ IdInv /\ OrderInv /\ FollowInv /\ MinedGamersInv
        /\ [BlockNext]_blockVars => MinedGamersInv'
  BY BlockStepKeepsGamers
<1>. QED BY <1>1, <1>2, BlockPoolInvariant, IdInvariant, OrderInvariant, FollowInvariant,
         PTL DEF BlockSpec

(* PromptInv: a mined registration is settled as soon as its block is no   *)
(* longer stored or has MaxDepth confirmations, and stays so.              *)
PromptInv ==
  resets = 0 =>
    \A t \in Txids : \A g \in DOMAIN chain :
      Holds(chain, t, g) /\ (g \notin DOMAIN blocks \/ g <= ConfirmedHeight(Tip)) =>
        ~IsPending(t)

\* Nothing a block does makes a state pending.
LEMMA ReportAddsNoPending ==
  ASSUME PoolInv, NEW h, NEW hash, NEW txs, Reported(h, hash, txs),
         NEW t, ~IsPending(t)
  PROVE  ~IsPending(t)'
<1>1. PICK k \in Nat : Cut(k)
  BY NewBlockCuts DEF Reported, PoolInv
<1>2. /\ Len(states) \in Nat /\ DOMAIN states = 1 .. Len(states)
      /\ Len(states') \in Nat /\ DOMAIN states' = 1 .. Len(states')
      /\ \A i \in DOMAIN states' : k + i \in DOMAIN states /\ states'[i] = states[k + i]
  BY <1>1, CutFacts DEF PoolInv
<1>3. SUFFICES ASSUME NEW i \in 2 .. Len(states'), states'[i].id = t PROVE FALSE
  BY DEF IsPending
<1>4. i \in DOMAIN states'
  BY <1>2
<1>5. k + i \in DOMAIN states /\ states[k + i].id = t
  BY <1>2, <1>3, <1>4
<1>6. k + i \in 2 .. Len(states)
  BY <1>2, <1>5
<1>. QED BY <1>5, <1>6 DEF IsPending

\* What the loop goes through is not pending afterwards.
LEMMA LoopSettles ==
  ASSUME PoolInv, IdInv, NEW h, NEW hash, NEW txs, Reported(h, hash, txs),
         address # None, NEW t \in Txids, t \in LoopTxs(h, hash, txs)
  PROVE  ~IsPending(t)'
<1>1. PICK settled : settled = LoopTxs(h, hash, txs)
  OBVIOUS
<1>2. /\ \A u \in settled : HasTx(states, u)
      /\ states' = FinalizeAll(states, settled)
  BY <1>1, NewBlockIs DEF Reported, CanFinalizeAll
<1>3. states \in Seq(PoolStateType) /\ Len(states) \in Nat /\ DOMAIN states = 1 .. Len(states)
  BY LenProperties DEF PoolInv, TypeOK
<1>4. PICK u \in settled : /\ FinalizeAll(states, settled) = Finalize(states, u)
                           /\ Position(states, t) <= Position(states, u)
  BY <1>1, <1>2, <1>3, FinalizeAllIs
<1>5. PICK p \in DOMAIN states : p = Position(states, t) /\ states[p].id = t
  BY <1>1, <1>2, <1>3, PositionIsFirst
<1>6. PICK q \in DOMAIN states : q = Position(states, u)
  BY <1>2, <1>3, PositionIsFirst
<1>7. /\ Len(states') = Len(states) - q + 1
      /\ \A i \in 1 .. Len(states') : states'[i] = states[q + i - 1]
  BY <1>2, <1>3, <1>4, <1>6, FinalizeIsSuffix
<1>8. SUFFICES ASSUME NEW i \in 2 .. Len(states'), states'[i].id = t PROVE FALSE
  BY DEF IsPending
<1>9. i \in 1 .. Len(states') /\ q + i - 1 \in DOMAIN states /\ q + i - 1 > q
  BY <1>3, <1>7
<1>10. states[q + i - 1].id = t
  BY <1>7, <1>8, <1>9
<1>11. q + i - 1 = p
  BY <1>5, <1>9, <1>10, OwnState
<1>. QED BY <1>3, <1>4, <1>5, <1>6, <1>9, <1>11

\* A mined transaction of a block the loop goes through is one of the loop's.
LEMMA DeepIsInLoop ==
  ASSUME FollowInv, ConfirmedIsMined', NEW h \in FirstHeight .. MaxHeight,
         NEW hash \in Hashes, NEW txs \in Seq(Txids), Reported(h, hash, txs),
         NEW t \in Txids, NEW g, Holds(chain', t, g), g <= ConfirmedHeight(h),
         g = h \/ g \in KeptHeights(h, hash)
  PROVE  t \in LoopTxs(h, hash, txs)
<1> DEFINE stored == StoredBlocks(h, hash, txs)
           deep   == Deep(stored, ConfirmedHeight(h))
<1>1. g \in DOMAIN stored /\ stored[g] = chain'[g]
  <2>1. /\ chain'[h] = Block(hash, txs)
        /\ \A f \in KeptHeights(h, hash) : f \in DOMAIN blocks /\ f # h /\ chain'[f] = chain[f]
    BY ReportFacts DEF FollowInv
  <2>. QED BY <2>1, StoredBlocksAre DEF FollowInv, CopyInv
<1>2. g \in DOMAIN deep /\ deep[g] = chain'[g]
  BY <1>1 DEF Deep, Keep
<1>3. t \in TxsOf(deep, DOMAIN deep)
  BY <1>2, HoldsFacts DEF Holds
<1>4. <<t, TRUE>> \in NewRecords(h, hash, txs)
  <2>1. t \in Mined'
    BY MinedFacts DEF Holds
  <2>2. txRecords' = NewRecords(h, hash, txs)
    BY NewBlockIs DEF Reported
  <2>. QED BY <2>1, <2>2 DEF ConfirmedIsMined
<1>. QED BY <1>3, <1>4 DEF LoopTxs, Settling

LEMMA ReportKeepsPrompt ==
  ASSUME PoolInv, IdInv, FollowInv, ConfirmedIsMined', PromptInv,
         NEW h \in FirstHeight .. MaxHeight, NEW hash \in Hashes,
         NEW txs \in Seq(Txids), Reported(h, hash, txs)
  PROVE  PromptInv'
<1>1. /\ NewBlock(h, hash, txs) /\ UNCHANGED <<resets, address>>
      /\ HeightInv' /\ HeightInv
      /\ \/ /\ Repeating(h, hash, txs) /\ ~Replaces(h, hash) /\ UNCHANGED chain /\ Tip' = Tip
            /\ Tip >= h
         \/ /\ Mining(h, hash, txs) /\ ~Repeating(h, hash, txs) /\ Tip' = h
  <2>1. /\ NewBlock(h, hash, txs) /\ UNCHANGED resets
        /\ HeightInv' /\ Tip' >= h
        /\ \/ Repeating(h, hash, txs) /\ ~Replaces(h, hash) /\ UNCHANGED chain
           \/ Mining(h, hash, txs) /\ Tip' = h
    BY ReportFacts DEF FollowInv
  <2>2. UNCHANGED address
    BY <2>1 DEF NewBlock
  <2>3. UNCHANGED chain => Tip' = Tip
    BY DEF Tip
  <2>4. Repeating(h, hash, txs) => ~Replaces(h, hash)
    BY DEF FollowInv, CopyInv, Repeating, Replaces, Block
  <2>5. Repeating(h, hash, txs) => UNCHANGED chain
    BY DEF Repeating
  <2>. QED BY <2>1, <2>2, <2>3, <2>4, <2>5 DEF FollowInv, TrackInv
<1>2. SUFFICES ASSUME resets = 0, NEW t \in Txids, NEW g \in DOMAIN chain',
                      Holds(chain', t, g),
                      g \notin DOMAIN blocks' \/ g <= ConfirmedHeight(Tip')
               PROVE  ~IsPending(t)'
  BY <1>1 DEF PromptInv, ConfirmedHeight
<1>3. /\ h \in Int /\ g \in Int /\ Tip \in Int
      /\ ConfirmedHeight(h) \in Int /\ ConfirmedHeight(Tip) \in Int
  <2>1. FirstHeight \in Nat /\ MaxHeight \in Nat /\ MaxDepth \in Nat
    BY HeightAssumption
  <2>. QED BY <1>1, <1>2, <2>1 DEF HeightInv, ConfirmedHeight
<1>4. CASE Holds(chain, t, g) /\ (g \notin DOMAIN blocks \/ g <= ConfirmedHeight(Tip))
  <2>1. ~IsPending(t)
    BY <1>2, <1>4 DEF PromptInv, Holds
  <2>. QED BY <2>1, ReportAddsNoPending
<1>5. CASE address = None
  <2>1. IsInitialize(gameStatus)
    BY <1>5, StatusFacts DEF PoolInv, SetupInv, StatusInv
  <2>2. \A i \in DOMAIN states : ~IsRegister(states[i])
    BY <2>1 DEF PoolInv, SetupInv, QuietInv
  <2>3. DOMAIN states = 1 .. Len(states) /\ Len(states) \in Nat
    BY LenProperties DEF PoolInv, TypeOK
  <2>4. ~IsPending(t)
    BY <2>2, <2>3, TxIsRegister DEF PoolInv, IsPending
  <2>. QED BY <2>4, ReportAddsNoPending
<1>6. CASE /\ address # None /\ g <= ConfirmedHeight(h)
           /\ g = h \/ g \in KeptHeights(h, hash)
  BY <1>2, <1>6, DeepIsInLoop, LoopSettles
\* A stored block is forgotten only when it has MaxDepth confirmations.
<1>7. CASE /\ g > ConfirmedHeight(h) /\ g \notin DOMAIN blocks'
           /\ g = h \/ g \in KeptHeights(h, hash)
  BY <1>1, <1>3, <1>7, BlocksAfter
<1>8. CASE Repeating(h, hash, txs) /\ ~Replaces(h, hash) /\ UNCHANGED chain /\ Tip' = Tip
  <2>1. Holds(chain, t, g)
    BY <1>2, <1>8
  <2>2. g <= ConfirmedHeight(Tip') => g <= ConfirmedHeight(Tip)
    BY <1>8
  <2>3. g \in DOMAIN blocks => g = h \/ g \in KeptHeights(h, hash)
    BY <1>8, KeptIs
  <2>4. g <= ConfirmedHeight(h) \/ g > ConfirmedHeight(h)
    BY <1>3
  <2>. QED BY <1>2, <1>4, <1>5, <1>6, <1>7, <2>1, <2>2, <2>3, <2>4
<1>9. CASE Mining(h, hash, txs) /\ ~Repeating(h, hash, txs) /\ Tip' = h
  <2>1. g <= h
    BY <1>2, <1>9, HoldsAfter
  <2>2. g <= ConfirmedHeight(Tip') => g <= ConfirmedHeight(h)
    BY <1>9
  <2>3. g < h => Holds(chain, t, g)
    BY <1>2, HoldsAfter
  <2>4. g < h /\ g \in DOMAIN blocks => g \in KeptHeights(h, hash)
    BY <1>3, KeptIs
  <2>5. g = h \/ g < h
    BY <1>3, <2>1
  <2>6. g <= ConfirmedHeight(h) \/ g > ConfirmedHeight(h)
    BY <1>3
  <2>. QED BY <1>2, <1>4, <1>5, <1>6, <1>7, <2>2, <2>3, <2>4, <2>5, <2>6
<1>. QED BY <1>1, <1>8, <1>9

LEMMA BlockStepKeepsPrompt ==
  ASSUME PoolInv, PoolInv', IdInv, IdInv', FollowInv, ConfirmedIsMined', MinedGamersInv,
         PromptInv, [BlockNext]_blockVars
  PROVE  PromptInv'
<1>1. /\ Len(states) \in Nat /\ DOMAIN states = 1 .. Len(states) /\ TypeOK /\ SetupInv
      /\ Len(states') \in Nat /\ DOMAIN states' = 1 .. Len(states')
  BY LenProperties DEF PoolInv, TypeOK
<1>2. ASSUME UNCHANGED trackVars,
             \A t \in Txids : t \in Mined /\ IsPending(t)' => IsPending(t)
      PROVE  PromptInv'
  <2>1. \A t \in Txids : \A g \in DOMAIN chain : Holds(chain, t, g) => t \in Mined
    BY MinedFacts
  <2>. QED BY <1>2, <2>1 DEF PromptInv, Holds, ConfirmedHeight, Tip
<1>3. ASSUME NEW t \in Txids, IsPending(t)',
             \A i \in DOMAIN states' : states'[i].id = t =>
               i \in DOMAIN states /\ states'[i] = states[i]
      PROVE  IsPending(t)
  <2>1. PICK i \in 2 .. Len(states') : states'[i].id = t
    BY <1>3 DEF IsPending
  <2>2. i \in DOMAIN states' /\ i >= 2
    BY <1>1, <2>1
  <2>3. i \in DOMAIN states /\ states[i].id = t
    BY <1>3, <2>1, <2>2
  <2>4. i \in 2 .. Len(states)
    BY <1>1, <2>2, <2>3
  <2>. QED BY <2>3, <2>4 DEF IsPending
<1>4. CASE resets' # 0
  BY <1>4 DEF PromptInv
<1>5. ASSUME NEW u \in Txids, RollbackUnmined(u) PROVE PromptInv'
  <2>1. \A i \in DOMAIN states' : i \in DOMAIN states /\ states'[i] = states[i]
    BY <1>1, <1>5, RollbackFacts DEF RollbackUnmined
  <2>. QED BY <1>2, <1>3, <1>5, <2>1 DEF RollbackUnmined
\* The registration that a call commits is of a transaction not mined.
<1>6. ASSUME NEW c \in Calls, CommitRegister(c), UNCHANGED trackVars PROVE PromptInv'
  <2>1. calls[c].tx \notin Mined
    BY <1>6, CommitIsNew
  <2>2. TypeOK /\ SetupInv
    BY <1>1
  <2>3. \A i \in DOMAIN states' :
          (i \in DOMAIN states /\ states'[i] = states[i]) \/ states'[i] = calls[c].state
    BY <1>6, <2>2, CommitFacts
  <2>4. calls[c].state.id = calls[c].tx
    BY <1>6, <2>2, CommitFacts
  <2>. QED BY <1>2, <1>3, <1>6, <2>1, <2>3, <2>4
<1>7. CASE /\ UNCHANGED trackVars
           /\ \A i \in DOMAIN states' : IsRegister(states'[i]) =>
                i \in DOMAIN states /\ states'[i] = states[i]
  <2>1. \A t \in Txids, i \in DOMAIN states' : states'[i].id = t => IsRegister(states'[i])
    BY TxAssumption DEF IdInv, IsRegister
  <2>. QED BY <1>2, <1>3, <1>7, <2>1
<1>8. ResetBlocks => resets' # 0
  <2>1. resets \in Nat
    BY HeightAssumption DEF FollowInv, TrackInv, BlockTypeOK
  <2>. QED BY <2>1 DEF ResetBlocks
<1>. QED BY <1>1, <1>4, <1>5, <1>6, <1>7, <1>8, BlockHistorySteps, ReportKeepsPrompt
         DEF FollowInv

LEMMA PromptInvariant ==
  ASSUME Serial, ~LateConfirm
  PROVE  BlockSpec => []PromptInv
<1>1. BlockInit => PromptInv
  <2>1. BlockInit => DOMAIN chain = {}
    BY DEF BlockInit, TrackInit
  <2>. QED BY <2>1 DEF PromptInv
<1>2. MinedInv => ConfirmedIsMined
  BY DEF MinedInv
<1>3. PoolInv /\ PoolInv' /\ IdInv /\ IdInv' /\ FollowInv /\ ConfirmedIsMined'
        /\ MinedGamersInv /\ PromptInv /\ [BlockNext]_blockVars => PromptInv'
  BY BlockStepKeepsPrompt
<1>. QED BY <1>1, <1>2, <1>3, BlockPoolInvariant, IdInvariant, FollowInvariant,
         MinedInvariant, MinedGamersInvariant, PTL DEF BlockSpec

LEMMA PromptIsInTime ==
  ASSUME FollowInv, PromptInv
  PROVE  SettledInTime
<1>1. SUFFICES ASSUME resets = 0, NEW t \in Txids,
                      NEW h \in FirstHeight .. Tip - MaxDepth + 1, MinedAt(t, h)
               PROVE  ~IsPending(t)
  BY DEF SettledInTime
<1>2. h \in DOMAIN chain /\ Holds(chain, t, h)
  BY <1>1, HoldsFacts DEF MinedAt, Holds
<1>3. h <= Tip - MaxDepth + 1
  OBVIOUS
<1>. QED BY <1>1, <1>2, <1>3 DEF PromptInv, ConfirmedHeight

(* The exchange never falls behind the chain: while reset_blocks was not   *)
(* called, a registration that is mined under MaxDepth confirmations is    *)
(* settled and no rollback can reach it, whatever order of registrations,  *)
(* rollbacks, reorganisations and blocks reported again led there, if the  *)
(* orchestrator waits for each answer and no transaction is mined that it  *)
(* made the exchange roll back.  What is left to TLC of MinedIsFinalized   *)
(* is that blocks keep coming.                                             *)
THEOREM SettledPromptly ==
  ASSUME Serial, ~LateConfirm
  PROVE  BlockSpec => []SettledInTime
<1>1. FollowInv /\ PromptInv => SettledInTime
  BY PromptIsInTime
<1>. QED BY <1>1, FollowInvariant, PromptInvariant, PTL

\* A transaction made at most one state of the history.
IdsUnique ==
  \A i, j \in DOMAIN states :
    states[i].id = states[j].id => i = j \/ states[i].id \notin Txids

LEMMA OwnIdsUnique ==
  ASSUME PoolInv, IdInv
  PROVE  IdsUnique
<1>1. ASSUME NEW i \in DOMAIN states, NEW j \in DOMAIN states,
             states[i].id = states[j].id, states[i].id \in Txids
      PROVE  i = j
  <2>1. PICK t \in Txids : t = states[i].id /\ t = states[j].id
    BY <1>1
  <2>2. IsRegister(states[i]) /\ states[i].gamer = Sender[t]
    BY <2>1, OwnState
  <2>. QED BY <2>1, <2>2, OwnState
<1>. QED BY <1>1 DEF IdsUnique

(* Every history that new_block meets is one that SettlementLoop starts    *)
(* from: LoopIsClosedForm speaks of all of them.                           *)
THEOREM HistoryIdsUnique ==
  ASSUME Serial
  PROVE  BlockSpec => []IdsUnique
<1>1. PoolInv /\ IdInv => IdsUnique
  BY OwnIdsUnique
<1>. QED BY <1>1, BlockPoolInvariant, IdInvariant, PTL
===============================================================================
