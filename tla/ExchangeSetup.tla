----------------------------- MODULE ExchangeSetup -----------------------------
(***************************************************************************)
(* Bringing the exchange up: `init`, `init_key`, `init_btc_utxo` and       *)
(* `post_upgrade` of src/src/canister.rs.  init_key awaits the management  *)
(* canister, so several calls may be in flight; each reads the state       *)
(* before the await and writes it after.  The canister's messages run one  *)
(* at a time, an action is the code between two awaits, and a panic undoes *)
(* its message: a step that would panic is not taken.                      *)
(***************************************************************************)
EXTENDS GameStatus, PoolStates

CONSTANTS
  None,             \* an Option that is None
  InitRuneName,     \* the rune name given to init
  UpgradeRuneName,  \* the rune name post_upgrade writes
  KeyCalls,         \* init_key calls that may be in flight at once
  InitUtxos,        \* the utxos init_btc_utxo may be called with
  MaxInitUtxos      \* bound: how often init_btc_utxo may be called

RuneNames == {InitRuneName, UpgradeRuneName}

ASSUME NoneAssumption == None \notin RuneNames
ASSUME MaxInitUtxosAssumption == MaxInitUtxos \in Nat

VARIABLES
  runeName,    \* rune_name: also the derivation path of the pool key
  address,     \* key and address, by the path they derive from; None before
  gameStatus,  \* game_status
  states,      \* states, the pool's history
  keyCalls     \* for each init_key call its path while it awaits, else None

setupVars == <<runeName, address, gameStatus, states, keyCalls>>

SetupInit ==
  /\ runeName = InitRuneName
  /\ address = None
  /\ gameStatus = Initialize(FALSE, FALSE)
  /\ states = <<>>
  /\ keyCalls = [k \in KeyCalls |-> None]

InitState(utxo) ==
  [id |-> NoTx, nonce |-> 0, outpoint |-> utxo.outpoint, sats |-> utxo.sats,
   rune_balance |-> 0, action |-> "Init", gamer |-> NoGamer]

-------------------------------------------------------------------------------
\* Mutant: no early return for an address that is there.
InitKeyCallAgain(k) ==
  /\ keyCalls[k] = None
  /\ keyCalls' = [keyCalls EXCEPT ![k] = runeName]
  /\ UNCHANGED <<runeName, address, gameStatus, states>>

(* init_key up to its await: an address already there is just returned.    *)
InitKeyCall(k) ==
  /\ keyCalls[k] = None
  /\ address = None
  /\ keyCalls' = [keyCalls EXCEPT ![k] = runeName]
  /\ UNCHANGED <<runeName, address, gameStatus, states>>

(* init_key after its await: finish_init_key panics once play has started. *)
InitKeyReply(k) ==
  /\ keyCalls[k] # None
  /\ IsInitialize(gameStatus)
  /\ address' = keyCalls[k]
  /\ gameStatus' = FinishInitKey(gameStatus)
  /\ keyCalls' = [keyCalls EXCEPT ![k] = None]
  /\ UNCHANGED <<runeName, states>>

(* The management canister rejects the call, or the reply panics.          *)
InitKeyFails(k) ==
  /\ keyCalls[k] # None
  /\ keyCalls' = [keyCalls EXCEPT ![k] = None]
  /\ UNCHANGED <<runeName, address, gameStatus, states>>

\* Mutant: a utxo is accepted in any status.
InitBtcUtxoAnytime(utxo) ==
  /\ Len(states) < MaxInitUtxos
  /\ states' = Append(states, InitState(utxo))
  /\ gameStatus' = IF IsInitialize(gameStatus) THEN FinishInitBtc(gameStatus)
                   ELSE gameStatus
  /\ UNCHANGED <<runeName, address, keyCalls>>

(* init_btc_utxo has no await, and nothing refuses a second call while the *)
(* key is missing.                                                         *)
InitBtcUtxo(utxo) ==
  /\ IsInitialize(gameStatus)
  /\ Len(states) < MaxInitUtxos
  /\ states' = Append(states, InitState(utxo))
  /\ gameStatus' = FinishInitBtc(gameStatus)
  /\ UNCHANGED <<runeName, address, keyCalls>>

(* An upgrade of the stopped canister: nothing is in flight, everything is *)
(* in stable memory, and post_upgrade replaces the rune name.              *)
PostUpgrade ==
  /\ \A k \in KeyCalls : keyCalls[k] = None
  /\ runeName' = UpgradeRuneName
  /\ UNCHANGED <<address, gameStatus, states, keyCalls>>

SetupNext ==
  \/ \E k \in KeyCalls : InitKeyCall(k) \/ InitKeyReply(k) \/ InitKeyFails(k)
  \/ \E utxo \in InitUtxos : InitBtcUtxo(utxo)

===============================================================================
