----------------------------- MODULE MCReeCookie -----------------------------
(***************************************************************************)
(* An instance of ReeCookie for TLC: bob's t2 builds on alice's t1, and t3 *)
(* is a second registration of alice on top of both.                       *)
(***************************************************************************)
EXTENDS ReeCookie, TLC

CONSTANTS t1, t2, t3, alice, bob, aliceII, bobII, u1

MCTxids == {t1, t2, t3}
MCAddresses == {alice, bob}

MCSender == t1 :> alice @@ t2 :> bob @@ t3 :> alice
MCSpends == t1 :> u1 @@ t2 :> t1 @@ t3 :> t2

MCPrincipalOf == alice :> aliceII @@ bob :> bobII

MCInitUtxos == {[outpoint |-> u1, sats |-> 3]}

Symmetry == Permutations(Hashes)
===============================================================================
