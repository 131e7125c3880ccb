----------------------------- MODULE BlockTracker -----------------------------
(***************************************************************************)
(* Following the bitcoin chain: `new_block` and `reset_blocks` of          *)
(* src/src/canister.rs and detect_reorg and handle_reorg of                *)
(* src/src/reorg.rs, on top of TxExecution.  new_block stores the block,   *)
(* undoes the confirmations of blocks a reorganisation replaced, marks the *)
(* block's transactions confirmed, finalizes those that are deep enough in *)
(* the pool's history and forgets their blocks, all in one message.  A     *)
(* panic (the unwrap of finalize) undoes the message: no step is taken.    *)
(*                                                                         *)
(* The orchestrator follows bitcoin: `chain` is the chain it has reported. *)
(* A block's transactions spend outputs that exist and are unspent,        *)
(* parents come first, and only transactions that execute_tx signed are    *)
(* listed (new_block ignores the others).  After reset_blocks the          *)
(* orchestrator goes on at the tip or reports blocks of the chain again,   *)
(* from the lowest that is not settled.                                    *)
(***************************************************************************)
EXTENDS TxExecution, Settlement

CONSTANTS
  MaxDepth,     \* get_max_recoverable_reorg_depth: 64 on testnet4
  Hashes,       \* block hashes; they tell apart two blocks of one height
  FirstHeight,  \* the first block the orchestrator reports
  MaxHeight,    \* bound: the last block
  MaxTxs,       \* bound: transactions in one block
  MaxReorgs,    \* bound: reorganisations
  MaxResets,    \* bound: calls of reset_blocks
  LateConfirm   \* may a transaction be mined that was rolled back?

\* The u32 subtraction in new_block does not wrap.
ASSUME HeightAssumption ==
  /\ MaxDepth \in Nat \ {0}
  /\ FirstHeight \in Nat /\ FirstHeight >= MaxDepth
  /\ MaxHeight \in Nat /\ MaxTxs \in Nat
  /\ MaxReorgs \in Nat /\ MaxResets \in Nat
  /\ LateConfirm \in BOOLEAN

\* No transaction of the exchange made a utxo that init_btc_utxo brings in.
ASSUME OutpointAssumption == \A u \in InitUtxos : u.outpoint \notin Txids

VARIABLES
  blocks,   \* BLOCKS: hash and confirmed txids by height
  chain,    \* the chain the orchestrator reported, in the same form
  peak,     \* the height of the longest chain so far, 0 at first
  reorgs,   \* how many reorganisations so far
  resets    \* how many resets so far

chainVars == <<chain, peak, reorgs>>
trackVars == <<blocks, chainVars, resets>>
blockVars == <<vars, trackVars>>

TrackInit ==
  /\ blocks = << >>
  /\ chain = << >>
  /\ peak = 0
  /\ reorgs = 0
  /\ resets = 0

BlockInit == Init /\ TrackInit

Keep(bs, heights) == [h \in DOMAIN bs \cap heights |-> bs[h]]

-------------------------------------------------------------------------------
(* detect_reorg: the block is accepted if it is the first, the next, one   *)
(* already stored, or one that replaces a stored block near the top.       *)
Replaces(h, hash) == h \in DOMAIN blocks /\ blocks[h].hash # hash

Accepted(h) ==
  DOMAIN blocks # {} =>
    LET current == Max(DOMAIN blocks) IN
    \/ h = current + 1
    \/ h \in DOMAIN blocks /\ current - h + 1 <= MaxDepth

(* handle_reorg: the block replaced and all above it go, and transactions  *)
(* confirmed in them are unconfirmed.  A missing block would panic.        *)
CanHandleReorg(h) == h .. Max(DOMAIN blocks) \subseteq DOMAIN blocks

\* Mutant: only the replaced block goes.
ReorgBlocksOne(h) == Keep(blocks, DOMAIN blocks \ {h})

ReorgBlocks(h) == Keep(blocks, {g \in DOMAIN blocks : g < h})

\* Mutant: the replaced blocks' transactions stay confirmed.
ReorgRecordsKept(h) == txRecords

ReorgRecords(h) ==
  LET undone == {t \in TxsOf(blocks, {g \in DOMAIN blocks : g >= h}) :
                   <<t, TRUE>> \in txRecords}
  IN  (txRecords \ (undone \X {TRUE})) \cup (undone \X {FALSE})

\* The records with those of a block's transactions confirmed as well.
ConfirmRecords(records, txs) ==
  records \cup {<<t, TRUE>> : t \in {u \in txs : <<u, FALSE>> \in records}}

-------------------------------------------------------------------------------
\* Mutant: one height too many.
ConfirmedHeightShallow(h) == h - MaxDepth + 2

ConfirmedHeight(h) == h - MaxDepth + 1

\* Mutants: the last settled block stays; all stay; one more goes.
PruneBelow(bs, top) == Keep(bs, {g \in DOMAIN bs : g >= top})
PruneNothing(bs, top) == bs
PruneEarly(bs, top) == Keep(bs, {g \in DOMAIN bs : g > top + 1})

\* The settled blocks are forgotten.
Prune(bs, top) == Keep(bs, {g \in DOMAIN bs : g > top})

\* Mutant: the block is stored one height above its own.
StoredBlocksAbove(h, hash, txs) ==
  Insert(IF Replaces(h, hash) THEN ReorgBlocks(h) ELSE blocks,
         h + 1, [hash |-> hash, txs |-> txs])

\* What the message has stored when its loop begins.
StoredBlocks(h, hash, txs) ==
  Insert(IF Replaces(h, hash) THEN ReorgBlocks(h) ELSE blocks,
         h, [hash |-> hash, txs |-> txs])

NewRecords(h, hash, txs) ==
  ConfirmRecords(IF Replaces(h, hash) THEN ReorgRecords(h) ELSE txRecords,
                 {txs[i] : i \in DOMAIN txs})

\* The blocks the loop goes through.
Deep(bs, top) == Keep(bs, {g \in DOMAIN bs : g <= top})

\* Neither handle_reorg nor finalize meets something it must find and does not.
CanProcess(h, hash, txs) ==
  LET deep == Deep(StoredBlocks(h, hash, txs), ConfirmedHeight(h)) IN
  /\ Replaces(h, hash) => CanHandleReorg(h)
  /\ address # None =>
       CanFinalizeAll(states, deep, Settling(deep, NewRecords(h, hash, txs)))

(* new_block.  Before init_key the block and the records are kept although *)
(* the call returns the error "pool address not init".                     *)
NewBlock(h, hash, txs) ==
  LET stored == StoredBlocks(h, hash, txs)
      top    == ConfirmedHeight(h)
  IN  /\ Accepted(h)
      /\ CanProcess(h, hash, txs)
      /\ txRecords' = NewRecords(h, hash, txs)
      /\ IF address = None
         THEN blocks' = stored /\ UNCHANGED states
         ELSE /\ states' = FinalizeAll(states, Settling(Deep(stored, top), txRecords'))
              /\ blocks' = Prune(stored, top)
      /\ UNCHANGED <<runeName, address, gameStatus, keyCalls,
                     gamers, principals, calls>>

(* reset_blocks, called by a controller.                                   *)
ResetBlocks ==
  /\ resets < MaxResets
  /\ resets' = resets + 1
  /\ blocks' = << >>
  /\ UNCHANGED <<vars, chainVars>>

-------------------------------------------------------------------------------
(* The chain.  A block at height h may hold these transactions: signed,    *)
(* not yet mined below, spending an output that is there and unspent.      *)
Tip == IF chain = << >> THEN 0 ELSE Max(DOMAIN chain)

MinedBelow(h) == TxsOf(chain, {g \in DOMAIN chain : g < h})

Mined == TxsOf(chain, DOMAIN chain)

HeightOf(t) == CHOOSE h \in DOMAIN chain : t \in TxsOf(chain, {h})

Mineable(txs, h) ==
  \A i \in DOMAIN txs :
    LET earlier == MinedBelow(h) \cup {txs[j] : j \in 1 .. i - 1} IN
    /\ txs[i] \notin earlier
    /\ Spends[txs[i]] \in earlier \cup {u.outpoint : u \in InitUtxos}
    /\ \A t \in earlier : Spends[t] # Spends[txs[i]]
    /\ \E confirmed \in BOOLEAN : <<txs[i], confirmed>> \in txRecords
    /\ LateConfirm \/ HasTx(states, txs[i])

TxLists == UNION {[1 .. n -> Txids] : n \in 0 .. MaxTxs}

NextHeight == IF chain = << >> THEN FirstHeight ELSE Tip + 1

\* The block ends the chain: whatever was at its height or above is gone.
MineAt(h, hash, txs) ==
  /\ peak' = Max({peak, h})
  /\ chain' = [g \in {f \in DOMAIN chain : f < h} \cup {h} |->
                 IF g = h THEN [hash |-> hash, txs |-> txs] ELSE chain[g]]

\* The chain grows by one block and the orchestrator reports it.
ExtendChain(hash, txs) ==
  /\ NextHeight <= MaxHeight
  /\ Mineable(txs, NextHeight)
  /\ NewBlock(NextHeight, hash, txs)
  /\ MineAt(NextHeight, hash, txs)
  /\ UNCHANGED <<reorgs, resets>>

(* A block of the chain is reported again, or one in its place, while the  *)
(* exchange has it or has forgotten it in a reset, but not a block that    *)
(* ever had MaxDepth confirmations and was forgotten.                      *)
MayReport(h) == h \in DOMAIN blocks \/ h > ConfirmedHeight(peak)

\* Another branch wins: its lowest block replaces one that was reported.
ReplaceBlock(h, hash, txs) ==
  /\ reorgs < MaxReorgs
  /\ hash # chain[h].hash
  /\ MayReport(h)
  /\ Mineable(txs, h)
  /\ NewBlock(h, hash, txs)
  /\ MineAt(h, hash, txs)
  /\ reorgs' = reorgs + 1
  /\ UNCHANGED resets

(* A block of the chain is reported again: a duplicate, or one that was    *)
(* forgotten in a reset, from the lowest that is not settled upwards.      *)
RepeatBlock(h) ==
  /\ MayReport(h)
  /\ NewBlock(h, chain[h].hash, chain[h].txs)
  /\ UNCHANGED <<chainVars, resets>>

\* The orchestrator rolls back a transaction that is not in the chain.
RollbackUnmined(t) ==
  /\ t \notin Mined
  /\ RollbackTx(t)
  /\ UNCHANGED trackVars

Extend == \E hash \in Hashes, txs \in TxLists : ExtendChain(hash, txs)

TrackNext ==
  \/ \E t \in Txids : RollbackUnmined(t)
  \/ Extend
  \/ \E h \in DOMAIN chain, hash \in Hashes, txs \in TxLists :
       ReplaceBlock(h, hash, txs)
  \/ \E h \in DOMAIN chain : RepeatBlock(h)
  \/ ResetBlocks

BlockNext ==
  \/ SetupNext /\ UNCHANGED <<execVars, trackVars>>
  \/ Upgrade /\ UNCHANGED trackVars
  \/ Execute /\ UNCHANGED trackVars
  \/ TrackNext

BlockSpec == BlockInit /\ [][BlockNext]_blockVars

(* Bitcoin never stops and the orchestrator reports every block.           *)
FairBlockSpec == BlockSpec /\ WF_blockVars(Extend)

-------------------------------------------------------------------------------
BlockType == [hash : Hashes, txs : Seq(Txids)]

(* Every variable holds a value the code's types allow.                    *)
BlockTypeOK ==
  /\ TypeOK
  /\ DOMAIN blocks \subseteq FirstHeight .. MaxHeight
  /\ blocks \in [DOMAIN blocks -> BlockType]
  /\ DOMAIN chain = FirstHeight .. Tip
  /\ chain \in [DOMAIN chain -> BlockType]
  /\ peak \in {0} \cup FirstHeight .. MaxHeight
  /\ reorgs \in 0 .. MaxReorgs
  /\ resets \in 0 .. MaxResets

(* The stored blocks are blocks of the chain without a gap, through        *)
(* reorganisations, resets and blocks reported again: handle_reorg unwraps *)
(* every block from the newest down to the one it replaces, and what it    *)
(* unconfirms is what was in them.                                         *)
BlocksContiguous ==
  \A h \in DOMAIN blocks :
    /\ h .. Max(DOMAIN blocks) \subseteq DOMAIN blocks
    /\ h \in DOMAIN chain /\ blocks[h] = chain[h]

(* Whatever is confirmed in a stored block can be finalized when its turn  *)
(* comes: it is still in the pool's history, in the order of the chain.    *)
(* Otherwise finalize's unwrap would panic in this and every later         *)
(* new_block.                                                              *)
ConfirmedCanFinalize ==
  CanFinalizeAll(states, blocks, Settling(blocks, txRecords))

\* The next block, one in place of a block of the chain, or that block again.
MayBring(h, hash, txs) ==
  \/ h = NextHeight /\ h <= MaxHeight /\ Mineable(txs, h)
  \/ /\ h \in DOMAIN chain /\ MayReport(h)
     /\ IF hash = chain[h].hash THEN txs = chain[h].txs ELSE Mineable(txs, h)

(* new_block never panics: whatever block bitcoin may bring next, if       *)
(* detect_reorg accepts it, handle_reorg finds the blocks it undoes and    *)
(* finalize every transaction.  A panic would come back with each further  *)
(* block and leave the exchange stuck.                                     *)
NewBlockNeverPanics ==
  \A h \in {g \in FirstHeight .. MaxHeight : Accepted(g)} :
    \A hash \in Hashes, txs \in TxLists :
      MayBring(h, hash, txs) => CanProcess(h, hash, txs)

(* The records follow the chain: what is mined is confirmed, and a         *)
(* reorganisation unconfirms what it unmines, unless reset_blocks has      *)
(* made the exchange forget where it was mined.                            *)
ConfirmedIsMined ==
  \A t \in Txids :
    /\ t \in Mined => <<t, TRUE>> \in txRecords
    /\ <<t, TRUE>> \in txRecords => t \in Mined \/ resets > 0

(* The oldest state of the history is an Init state or made by a           *)
(* transaction that stays in the chain: no reorganisation the exchange     *)
(* follows unmines it, so "the rollback should be impossible to rollback   *)
(* index 0 state".                                                         *)
OldestIsFinal ==
  states # <<>> /\ IsRegister(states[1]) => states[1].id \in Mined

(* A step finalizes a transaction only under MaxDepth confirmations.       *)
FinalizesDeep ==
  [][\A t \in Txids :
       states # <<>> /\ states[1].id # t /\ states'[1].id = t =>
         t \in Mined' /\ HeightOf(t)' <= Tip' - MaxDepth + 1]_blockVars

(* Every block a reorganisation of at most MaxDepth blocks would replace   *)
(* is still stored, so that detect_reorg can recognise it.                 *)
RecoverableKept ==
  \A h \in DOMAIN chain : Tip - h + 1 <= MaxDepth => h \in DOMAIN blocks

\* The transaction made a state that could still be rolled back.
IsPending(t) == \E i \in 2 .. Len(states) : states[i].id = t

\* The transaction is mined at this height.
MinedAt(t, h) == h \in DOMAIN chain /\ t \in TxsOf(chain, {h})

(* The exchange never falls behind the chain: a registration that is mined *)
(* under MaxDepth confirmations is settled, and no rollback can reach it,  *)
(* unless reset_blocks made the exchange forget its block before.          *)
SettledInTime ==
  resets = 0 =>
    \A t \in Txids : \A h \in FirstHeight .. Tip - MaxDepth + 1 :
      MinedAt(t, h) => ~IsPending(t)

(* A transaction that is mined, and stays so while the chain grows by      *)
(* MaxDepth blocks, is finalized: the exchange never gets stuck on a block *)
(* it cannot process.                                                      *)
MinedIsFinalized ==
  \A t \in Txids : \A h \in FirstHeight .. MaxHeight - MaxDepth + 1 :
    MinedAt(t, h) ~> (~MinedAt(t, h) \/ ~IsPending(t))
===============================================================================
