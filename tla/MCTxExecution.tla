----------------------------- MODULE MCTxExecution -----------------------------
(***************************************************************************)
(* Instances of TxExecution for TLC.  Five transactions of three gamers    *)
(* make the interesting shapes: t2 builds on t1 and t5 on t2, t3 competes  *)
(* with t1 for the first utxo, and t4 is a second transaction of alice, on *)
(* top of t3.                                                              *)
(***************************************************************************)
EXTENDS TxExecution, TLC

CONSTANTS t1, t2, t3, t4, t5, alice, bob, carol,
          aliceII, bobII, carolII, u1, u2

MCTxids == {t1, t2, t3, t4, t5}
MCAddresses == {alice, bob, carol}

MCSender == t1 :> alice @@ t2 :> bob @@ t3 :> bob @@ t4 :> alice @@ t5 :> carol
MCSpends == t1 :> u1 @@ t2 :> t1 @@ t3 :> u1 @@ t4 :> t3 @@ t5 :> t2

MCPrincipalOf == alice :> aliceII @@ bob :> bobII @@ carol :> carolII

MCInitUtxos == {[outpoint |-> u1, sats |-> 3], [outpoint |-> u2, sats |-> 4]}
===============================================================================
