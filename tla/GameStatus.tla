------------------------------ MODULE GameStatus ------------------------------
(***************************************************************************)
(* The life-cycle enum of the exchange, `GameStatus` in src/src/state.rs,  *)
(* and the methods that move it.  Each method panics outside the status it *)
(* expects; on the Internet Computer a panic undoes the whole message, so  *)
(* a caller's action is enabled only where the method does not panic.      *)
(***************************************************************************)

Initialize(key, btc) ==
  [tag |-> "Initialize", init_key |-> key, init_btc |-> btc]

Play        == [tag |-> "Play"]
Ended       == [tag |-> "Ended"]
RunesMinted == [tag |-> "RunesMinted"]

\* LiquidityAdded and Withdrawable are never reached by the code as it is.
Statuses ==
  [tag : {"Initialize"}, init_key : BOOLEAN, init_btc : BOOLEAN]
    \cup {Play, Ended, RunesMinted}

IsInitialize(status) == status.tag = "Initialize"

\* finish_init_key: the schnorr key is known; play starts if the pool is funded.
FinishInitKey(status) ==
  IF status.init_btc THEN Play ELSE Initialize(TRUE, FALSE)

\* finish_init_btc: the pool is funded; play starts if the key is known.
FinishInitBtc(status) ==
  IF status.init_key THEN Play ELSE Initialize(FALSE, TRUE)
===============================================================================
