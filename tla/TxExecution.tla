------------------------------ MODULE TxExecution ------------------------------
(***************************************************************************)
(* The exchange half of a REE transaction: `execute_tx` with the intention *)
(* "register", and `rollback_tx`, of src/src/canister.rs.  execute_tx      *)
(* validates a registration against the newest pool state, awaits a        *)
(* signature, awaits the gamer's principal, and only then commits the pool *)
(* state it computed before the first await.  The intentions "withdraw"    *)
(* and "add_liquidity" end in an error or a panic before any await (their  *)
(* validation is todo!()) and change nothing, so they have no action.      *)
(*                                                                         *)
(* The orchestrator is the only caller.  It passes transactions that       *)
(* really spend the outpoint they name and pay to the output they name, so *)
(* a transaction is its id, its sender and the outpoint it spends.         *)
(***************************************************************************)
EXTENDS ExchangeSetup, FiniteSetsExt

CONSTANTS
  Txids,        \* transaction ids
  Addresses,    \* gamer addresses
  Sender,       \* the initiator of each transaction
  Spends,       \* the pool outpoint each transaction spends
  PrincipalOf,  \* the principal get_principal answers for an address
  Fee,          \* gamer_register_fee
  MaxU64,       \* the largest u64
  Calls,        \* execute_tx calls that may be in flight at once
  Serial        \* does the orchestrator wait for an answer before it calls?

Outpoints == {u.outpoint : u \in InitUtxos} \cup Txids

ASSUME TxAssumption ==
  /\ NoTx \notin Txids
  /\ NoGamer \notin Addresses
  /\ Sender \in [Txids -> Addresses]
  /\ Spends \in [Txids -> Outpoints]
  /\ Serial \in BOOLEAN

\* The identity canister answers each address with a principal of its own.
ASSUME PrincipalAssumption ==
  \A a, b \in Addresses : PrincipalOf[a] = PrincipalOf[b] => a = b

ASSUME SatsAssumption ==
  /\ Fee \in Nat
  /\ MaxU64 \in Nat
  /\ \A u \in InitUtxos : u.sats \in 0 .. MaxU64

VARIABLES
  gamers,      \* GAMER: the registered gamers by address
  principals,  \* ADDRESS_PRINCIPLE_MAP: address by principal
  txRecords,   \* the keys (txid, confirmed) of TX_RECORDS
  calls        \* the execute_tx calls that await an answer

execVars == <<gamers, principals, txRecords, calls>>
vars == <<setupVars, execVars>>

Idle == [phase |-> "idle"]

InFlight == {c \in Calls : calls[c] # Idle}

NewGamer == [cookies |-> 0, last_click_time |-> 0, is_withdrawn |-> FALSE]

\* What inserting a key does to a stable map.
Insert(map, key, value) ==
  [x \in DOMAIN map \cup {key} |-> IF x = key THEN value ELSE map[x]]

Init ==
  /\ SetupInit
  /\ gamers = << >>
  /\ principals = << >>
  /\ txRecords = {}
  /\ calls = [c \in Calls |-> Idle]

\* The orchestrator starts a call on the pool.
MayCall == address # None /\ (Serial => InFlight = {})

-------------------------------------------------------------------------------
\* Mutant: the spent outpoint is not compared with the newest state's.
ValidRegisterAnyUtxo(t, nonce) ==
  /\ Sender[t] \notin DOMAIN gamers
  /\ states # <<>>
  /\ LastOf(states).nonce = nonce

\* Mutant: a gamer who is registered may register again.
ValidRegisterTwice(t, nonce) ==
  /\ states # <<>>
  /\ LastOf(states).nonce = nonce
  /\ LastOf(states).outpoint = Spends[t]

(* validate_register: the gamer is new, and nonce and spent outpoint are   *)
(* those of the newest pool state.                                         *)
ValidRegister(t, nonce) ==
  /\ Sender[t] \notin DOMAIN gamers
  /\ states # <<>>
  /\ LastOf(states).nonce = nonce
  /\ LastOf(states).outpoint = Spends[t]
  /\ LastOf(states).sats + Fee <= MaxU64
  /\ LastOf(states).nonce + 1 <= MaxU64

\* Mutant: the runes of the state before are not carried over.
RegisterStateNoRunes(t) ==
  [id |-> t, nonce |-> LastOf(states).nonce + 1, outpoint |-> t,
   sats |-> LastOf(states).sats + Fee, rune_balance |-> 0,
   action |-> "Register", gamer |-> Sender[t]]

RegisterState(t) ==
  [id |-> t, nonce |-> LastOf(states).nonce + 1, outpoint |-> t,
   sats |-> LastOf(states).sats + Fee,
   rune_balance |-> LastOf(states).rune_balance,
   action |-> "Register", gamer |-> Sender[t]]

(* execute_tx up to the await in psbt::sign.                               *)
ExecuteRegister(c, t, nonce) ==
  /\ MayCall
  /\ calls[c] = Idle
  /\ ValidRegister(t, nonce)
  /\ calls' = [calls EXCEPT ![c] = [phase |-> "sign", tx |-> t,
                                    state |-> RegisterState(t)]]
  /\ UNCHANGED <<setupVars, gamers, principals, txRecords>>

(* The signature arrives: execute_tx goes on to await get_principal.       *)
SignReply(c) ==
  /\ calls[c].phase = "sign"
  /\ calls' = [calls EXCEPT ![c].phase = "principal"]
  /\ UNCHANGED <<setupVars, gamers, principals, txRecords>>

\* Mutant: the transaction is not recorded.
RecordNothing(t) == txRecords

\* execute_tx records its transaction as unconfirmed; all records name this pool.
RecordTx(t) == txRecords \cup {<<t, FALSE>>}

\* Mutant: key and value of the principal map are swapped.
CommitSwapped(c) ==
  LET t == calls[c].tx IN
  /\ calls[c].phase = "principal"
  /\ gamers' = Insert(gamers, Sender[t], NewGamer)
  /\ states' = Commit(states, calls[c].state)
  /\ principals' = Insert(principals, Sender[t], PrincipalOf[Sender[t]])
  /\ txRecords' = RecordTx(t)
  /\ calls' = [calls EXCEPT ![c] = Idle]
  /\ UNCHANGED <<runeName, address, gameStatus, keyCalls>>

\* Mutant: the principal is not mapped to the gamer.
CommitUnmapped(c) ==
  LET t == calls[c].tx IN
  /\ calls[c].phase = "principal"
  /\ gamers' = Insert(gamers, Sender[t], NewGamer)
  /\ states' = Commit(states, calls[c].state)
  /\ txRecords' = RecordTx(t)
  /\ calls' = [calls EXCEPT ![c] = Idle]
  /\ UNCHANGED <<runeName, address, gameStatus, keyCalls, principals>>

(* The principal arrives: the rest of execute_tx, in one message.  Nothing *)
(* of what was validated is looked at again.                               *)
CommitRegister(c) ==
  LET t == calls[c].tx IN
  /\ calls[c].phase = "principal"
  /\ gamers' = Insert(gamers, Sender[t], NewGamer)
  /\ states' = Commit(states, calls[c].state)
  /\ principals' = Insert(principals, PrincipalOf[Sender[t]], Sender[t])
  /\ txRecords' = RecordTx(t)
  /\ calls' = [calls EXCEPT ![c] = Idle]
  /\ UNCHANGED <<runeName, address, gameStatus, keyCalls>>

(* Signing or get_principal fails: execute_tx returns the error.           *)
ExecuteFails(c) ==
  /\ calls[c].phase \in {"sign", "principal"}
  /\ calls' = [calls EXCEPT ![c] = Idle]
  /\ UNCHANGED <<setupVars, gamers, principals, txRecords>>

(* rollback_tx: the record must exist, and every record names this pool.   *)
RollbackTx(t) ==
  /\ MayCall
  /\ \E confirmed \in BOOLEAN : <<t, confirmed>> \in txRecords
  /\ CanRollback(states, gamers, t)
  /\ states' = Rollback(states, t)
  /\ gamers' = RollbackGamers(states, gamers, t)
  /\ UNCHANGED <<runeName, address, gameStatus, keyCalls,
                 principals, txRecords, calls>>

-------------------------------------------------------------------------------
\* The canister is stopped for an upgrade, so no call of any kind is in flight.
Upgrade == InFlight = {} /\ PostUpgrade /\ UNCHANGED execVars

Execute ==
  \/ \E c \in Calls, t \in Txids, nonce \in 0 .. Cardinality(Txids) :
       ExecuteRegister(c, t, nonce)
  \/ \E c \in Calls : SignReply(c) \/ CommitRegister(c) \/ ExecuteFails(c)

Next ==
  \/ SetupNext /\ UNCHANGED execVars
  \/ Upgrade
  \/ Execute
  \/ \E t \in Txids : RollbackTx(t)

Spec == Init /\ [][Next]_vars

-------------------------------------------------------------------------------
(* Every variable holds a value the code's types allow.                    *)
PoolStateType ==
  [id : Txids \cup {NoTx}, nonce : Nat, outpoint : Outpoints, sats : Nat,
   rune_balance : Nat, action : {"Init", "Register"},
   gamer : Addresses \cup {NoGamer}]

CallType ==
  {Idle} \cup [phase : {"sign", "principal"}, tx : Txids,
               state : PoolStateType]

GamerType == [cookies : Nat, last_click_time : Nat, is_withdrawn : BOOLEAN]

TypeOK ==
  /\ runeName \in RuneNames
  /\ address \in RuneNames \cup {None}
  /\ gameStatus \in Statuses
  /\ states \in Seq(PoolStateType)
  /\ keyCalls \in [KeyCalls -> RuneNames \cup {None}]
  /\ DOMAIN gamers \subseteq Addresses
  /\ gamers \in [DOMAIN gamers -> GamerType]
  /\ principals \in [DOMAIN principals -> Addresses]
  /\ txRecords \subseteq Txids \X BOOLEAN
  /\ calls \in [Calls -> CallType]

IsRegister(state) == state.action = "Register"

(* Each registration in the pool's history spends exactly the utxo of the  *)
(* state before it, counts one more registration and adds one fee.  The    *)
(* code checks nonce and outpoint before it awaits the signature and the   *)
(* principal, and pushes the state after.                                  *)
StatesChained ==
  \A i \in 2 .. Len(states) : IsRegister(states[i]) =>
    /\ Spends[states[i].id] = states[i - 1].outpoint
    /\ states[i].nonce = states[i - 1].nonce + 1
    /\ states[i].sats = states[i - 1].sats + Fee

(* A gamer whose registration is in the pool's history is in GAMER, and    *)
(* owns only one state of it, so that rolling back one registration never  *)
(* removes the gamer of another that stays.                                *)
OneStatePerGamer ==
  \A i \in DOMAIN states : IsRegister(states[i]) =>
    /\ states[i].gamer \in DOMAIN gamers
    /\ \A j \in DOMAIN states :
         IsRegister(states[j]) /\ states[j].gamer = states[i].gamer => i = j

(* The pool's utxo holds what the first one held and one registration fee  *)
(* per gamer in GAMER: the bitcoin that validate_add_liquidity pays out    *)
(* (gamer count times fee) is there, through every order of registrations, *)
(* failures and rollbacks.                                                 *)
PoolHoldsFees ==
  states # <<>> =>
    /\ LastOf(states).nonce = Cardinality(DOMAIN gamers)
    /\ \E u \in InitUtxos :
         LastOf(states).sats = u.sats + Fee * Cardinality(DOMAIN gamers)

(* Play has started exactly when the key and a first utxo are there,       *)
(* whatever the order of the two calls and of init_key's late replies; and *)
(* the states init_btc_utxo pushed are the oldest of the history, so that  *)
(* a rollback never meets one ("impossible to rollback init state").       *)
PlayIsFunded ==
  /\ gameStatus = Play <=> address # None /\ states # <<>>
  /\ \A i, j \in DOMAIN states :
       i < j /\ IsRegister(states[i]) => IsRegister(states[j])

(* Every registration in the history has its record in TX_RECORDS: without *)
(* it new_block never finalizes the transaction and rollback_tx traps.     *)
RegistersRecorded ==
  \A i \in DOMAIN states : IsRegister(states[i]) =>
    \E confirmed \in BOOLEAN : <<states[i].id, confirmed>> \in txRecords

(* Every gamer in GAMER is the one his principal is mapped to, so that his *)
(* calls to claim find him; also after rollbacks, which leave the mapping. *)
GamersCanClaim ==
  \A a \in DOMAIN gamers :
    /\ PrincipalOf[a] \in DOMAIN principals
    /\ principals[PrincipalOf[a]] = a

(* The pool's address never changes once it is set, though several         *)
(* init_key calls may be in flight when the first reply arrives and an     *)
(* upgrade may change the derivation path between calls.                   *)
AddressStable == [][address # None => address' = address]_vars

(* What execute_tx asks the management canister to sign is signed with the *)
(* key that the pool's address was derived from: the path is rune_name in  *)
(* psbt::sign and in init_key, but it is read again for every signature.   *)
SignsForItsAddress ==
  \A c \in Calls : calls[c].phase = "sign" => runeName = address

-------------------------------------------------------------------------------
(* What no rollback undoes: the oldest state, which is the settled one,    *)
(* and those made by init_btc_utxo.  The registrations after it are pending.*)
FixedLength ==
  Max({0} \cup {i \in DOMAIN states : i = 1 \/ ~IsRegister(states[i])})

PendingStates == SubSeq(states, FixedLength + 1, Len(states))

Ledger == INSTANCE PoolLedger WITH
  tip <- IF states = <<>> THEN None ELSE LastOf(states).outpoint,
  pot <- IF states = <<>> THEN 0 ELSE LastOf(states).sats,
  members <- DOMAIN gamers,
  pending <- [i \in DOMAIN PendingStates |-> PendingStates[i].id]

(* A registration takes effect at one moment, or not at all: the exchange  *)
(* with its calls in flight implements the ledger.                         *)
ImplementsLedger == Ledger!Spec
===============================================================================
