---------------------------- MODULE SettlementLoop ----------------------------
(***************************************************************************)
(* The finalizing loop of new_block as it is written, one transaction a    *)
(* step, for every small history, every content of the blocks and every    *)
(* set of confirmed records, reachable or not.                             *)
(***************************************************************************)
EXTENDS Settlement

CONSTANTS
  Txids,
  Heights,    \* the heights at which there may be a block to settle
  MaxStates,  \* bound: the length of the history
  MaxTxs      \* bound: transactions in one block

ASSUME HeightsAssumption == Heights \subseteq Nat

VARIABLES
  given,    \* what the loop starts from: history, blocks, records
  rest,     \* the heights of the blocks the loop is not through with
  seen,     \* how many transactions it has visited of the lowest of them
  left,     \* what is left of the history
  trapped   \* has finalize failed, and its unwrap panicked?

loopVars == <<given, rest, seen, left, trapped>>

\* A transaction makes one state; init_btc_utxo may make several.
Histories ==
  {ss \in UNION {[1 .. n -> [id : Txids \cup {NoTx}]] : n \in 0 .. MaxStates} :
     \A i, j \in DOMAIN ss : ss[i].id = ss[j].id => i = j \/ ss[i].id \notin Txids}

Lists == UNION {[1 .. n -> Txids] : n \in 0 .. MaxTxs}

LoopInit ==
  /\ given \in [states : Histories,
                blocks : UNION {[hs -> [txs : Lists]] : hs \in SUBSET Heights},
                records : {S \X {TRUE} : S \in SUBSET Txids}]
  /\ rest = DOMAIN given.blocks
  /\ seen = 0
  /\ left = given.states
  /\ trapped = FALSE

\* The loop is in this block, the lowest it is not through with.
IsIn(h) == h \in rest /\ \A g \in rest : h <= g

NextBlock(h) ==
  /\ IsIn(h)
  /\ seen = Len(given.blocks[h].txs)
  /\ rest' = rest \ {h}
  /\ seen' = 0
  /\ UNCHANGED <<given, left, trapped>>

\* The loop visits this transaction next.
Visits(t) ==
  \E h \in rest :
    IsIn(h) /\ seen < Len(given.blocks[h].txs) /\ t = given.blocks[h].txs[seen + 1]

\* The transaction has no confirmed record: it is not one of the exchange.
PassBy(t) ==
  /\ Visits(t)
  /\ <<t, TRUE>> \notin given.records
  /\ seen' = seen + 1
  /\ UNCHANGED <<given, rest, left, trapped>>

FinalizeNext(t) ==
  /\ Visits(t)
  /\ <<t, TRUE>> \in given.records
  /\ HasTx(left, t)
  /\ left' = Finalize(left, t)
  /\ seen' = seen + 1
  /\ UNCHANGED <<given, rest, trapped>>

FinalizeTraps(t) ==
  /\ Visits(t)
  /\ <<t, TRUE>> \in given.records
  /\ ~HasTx(left, t)
  /\ trapped' = TRUE
  /\ rest' = {}
  /\ UNCHANGED <<given, seen, left>>

LoopNext ==
  \/ \E h \in rest : NextBlock(h)
  \/ \E t \in Txids : PassBy(t) \/ FinalizeNext(t) \/ FinalizeTraps(t)

LoopSpec == LoopInit /\ [][LoopNext]_loopVars

(* The loop panics exactly when CanFinalizeAll is false, and otherwise     *)
(* leaves of the history what FinalizeAll says: a transaction listed twice *)
(* or before its parent, an empty history and foreign transactions too.    *)
LoopAgrees ==
  rest = {} =>
    LET settled == Settling(given.blocks, given.records) IN
    /\ trapped <=> ~CanFinalizeAll(given.states, given.blocks, settled)
    /\ ~trapped => left = FinalizeAll(given.states, settled)
===============================================================================
