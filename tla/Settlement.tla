------------------------------ MODULE Settlement ------------------------------
(***************************************************************************)
(* The finalizing loop of new_block (src/src/canister.rs) in closed form.  *)
(* The loop goes through the stored blocks up to confirmed_height from the *)
(* lowest, through each one's transactions in order, and finalizes those   *)
(* with a confirmed record.  Each must be found in what the ones before it *)
(* left of the history, or finalize's unwrap panics.                       *)
(* A block is a record of its hash and txs, blocks a function from heights.*)
(***************************************************************************)
EXTENDS PoolStates

TxsOf(bs, heights) == UNION {{bs[h].txs[i] : i \in DOMAIN bs[h].txs} : h \in heights}

\* The transactions the loop finalizes, in blocks that are deep enough.
Settling(bs, records) == {t \in TxsOf(bs, DOMAIN bs) : <<t, TRUE>> \in records}

Before(bs, t, u) ==
  \E g, h \in DOMAIN bs : \E i \in DOMAIN bs[g].txs, j \in DOMAIN bs[h].txs :
    /\ t = bs[g].txs[i] /\ u = bs[h].txs[j]
    /\ g < h \/ (g = h /\ i < j)

\* Mutant: the order within the chain does not matter.
CanFinalizeAnyOrder(ss, bs, txs) == \A t \in txs : HasTx(ss, t)

CanFinalizeAll(ss, bs, txs) ==
  /\ \A t \in txs : HasTx(ss, t)
  /\ \A t, u \in txs : Before(bs, t, u) => Position(ss, t) <= Position(ss, u)

FinalizeAll(ss, txs) ==
  IF txs = {} THEN ss
  ELSE Finalize(ss, CHOOSE t \in txs : \A u \in txs : Position(ss, u) <= Position(ss, t))
===============================================================================
