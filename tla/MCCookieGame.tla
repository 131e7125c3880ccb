----------------------------- MODULE MCCookieGame -----------------------------
(***************************************************************************)
(* Instances of CookieGame for TLC: t2 builds on t1, and t3 is a second    *)
(* registration of alice, for after the first was rolled back.             *)
(***************************************************************************)
EXTENDS CookieGame, TLC

CONSTANTS t1, t2, t3, alice, bob, aliceII, bobII, u1

MCTxids == {t1, t2, t3}
MCAddresses == {alice, bob}

MCSender == t1 :> alice @@ t2 :> bob @@ t3 :> alice
MCSpends == t1 :> u1 @@ t2 :> t1 @@ t3 :> u1

MCPrincipalOf == alice :> aliceII @@ bob :> bobII

MCInitUtxos == {[outpoint |-> u1, sats |-> 3]}
===============================================================================
