--------------------------- MODULE TxExecutionProofs ---------------------------
(***************************************************************************)
(* Proofs about TxExecution for every set of transactions, gamers, utxos   *)
(* and calls.  Type correctness comes first; the rest of the invariants    *)
(* are proved inductive relative to the ones before them.                  *)
(***************************************************************************)
EXTENDS TxExecution, PoolStatesProofs

USE DEF setupVars, execVars, vars

(* What the types of a call in flight give.                                *)
LEMMA CallFacts ==
  ASSUME TypeOK, NEW c \in Calls, calls[c].phase # "idle"
  PROVE  /\ calls[c].phase \in {"sign", "principal"}
         /\ calls[c].tx \in Txids
         /\ calls[c].state \in PoolStateType
         /\ calls[c] # Idle
         /\ calls[c] \in [phase : {"sign", "principal"}, tx : Txids,
                          state : PoolStateType]
BY DEF TypeOK, CallType, Idle

LEMMA LastStateType ==
  ASSUME TypeOK, states # <<>>
  PROVE  LastOf(states) \in PoolStateType /\ Len(states) \in Nat \ {0}
<1>1. Len(states) \in Nat \ {0}
  BY LenProperties, EmptySeq DEF TypeOK
<1>2. states[Len(states)] \in PoolStateType
  BY <1>1, ElementOfSeq DEF TypeOK
<1>. QED BY <1>1, <1>2 DEF LastOf

(* The state a registration computes is a pool state.                      *)
LEMMA RegisterStateType ==
  ASSUME TypeOK, NEW t \in Txids, states # <<>>
  PROVE  RegisterState(t) \in PoolStateType
<1>1. LastOf(states) \in PoolStateType
  BY LastStateType
<1>2. Sender[t] \in Addresses /\ t \in Outpoints
  BY TxAssumption DEF Outpoints
<1>3. Fee \in Nat
  BY SatsAssumption
<1>. QED BY <1>1, <1>2, <1>3 DEF RegisterState, PoolStateType

(* Setting up keeps the types.                                             *)
LEMMA SetupKeepsTypes ==
  ASSUME TypeOK, SetupNext, UNCHANGED execVars
  PROVE  TypeOK'
<1>1. ASSUME NEW k \in KeyCalls, InitKeyCall(k) PROVE TypeOK'
  BY <1>1 DEF TypeOK, InitKeyCall
<1>2. ASSUME NEW k \in KeyCalls, InitKeyReply(k) PROVE TypeOK'
  <2>1. address' \in RuneNames \cup {None}
    BY <1>2 DEF TypeOK, InitKeyReply
  <2>2. gameStatus' \in Statuses
    BY <1>2 DEF InitKeyReply, FinishInitKey, Statuses, Initialize, Play
  <2>. QED BY <1>2, <2>1, <2>2 DEF TypeOK, InitKeyReply
<1>3. ASSUME NEW k \in KeyCalls, InitKeyFails(k) PROVE TypeOK'
  BY <1>3 DEF TypeOK, InitKeyFails
<1>4. ASSUME NEW utxo \in InitUtxos, InitBtcUtxo(utxo) PROVE TypeOK'
  <2>1. utxo.sats \in Nat /\ utxo.outpoint \in Outpoints
    BY SatsAssumption DEF Outpoints
  <2>2. InitState(utxo) \in PoolStateType
    BY <2>1 DEF InitState, PoolStateType
  <2>3. states' \in Seq(PoolStateType)
    BY <1>4, <2>2, AppendProperties DEF TypeOK, InitBtcUtxo
  <2>4. gameStatus' \in Statuses
    BY <1>4 DEF InitBtcUtxo, FinishInitBtc, Statuses, Initialize, Play
  <2>. QED BY <1>4, <2>3, <2>4 DEF TypeOK, InitBtcUtxo
<1>. QED BY <1>1, <1>2, <1>3, <1>4 DEF SetupNext

(* The end of execute_tx keeps the types.                                  *)
LEMMA CommitKeepsTypes ==
  ASSUME TypeOK, NEW c \in Calls, CommitRegister(c)
  PROVE  TypeOK'
<1> DEFINE t == calls[c].tx
<1>1. t \in Txids /\ calls[c].state \in PoolStateType
  BY CallFacts DEF CommitRegister
<1>2. Sender[t] \in Addresses
  BY <1>1, TxAssumption
<1>3. /\ DOMAIN gamers' \subseteq Addresses
      /\ gamers' \in [DOMAIN gamers' -> GamerType]
  BY <1>2 DEF TypeOK, CommitRegister, Insert, NewGamer, GamerType
<1>4. principals' \in [DOMAIN principals' -> Addresses]
  BY <1>2 DEF TypeOK, CommitRegister, Insert
<1>5. states' \in Seq(PoolStateType)
  BY <1>1, AppendProperties DEF TypeOK, CommitRegister, Commit
<1>6. calls' \in [Calls -> CallType]
  BY DEF TypeOK, CommitRegister, CallType
<1>7. txRecords' \subseteq Txids \X BOOLEAN
  <2>1. txRecords \subseteq Txids \X BOOLEAN
    BY DEF TypeOK
  <2>2. <<t, FALSE>> \in Txids \X BOOLEAN
    BY <1>1
  <2>3. txRecords' = txRecords \cup {<<t, FALSE>>}
    BY DEF CommitRegister, RecordTx
  <2>. QED BY <2>1, <2>2, <2>3
<1>. QED BY <1>3, <1>4, <1>5, <1>6, <1>7 DEF TypeOK, CommitRegister

(* rollback_tx keeps the types.                                            *)
LEMMA RollbackKeepsTypes ==
  ASSUME TypeOK, NEW t \in Txids, RollbackTx(t)
  PROVE  TypeOK'
<1>1. states' \in Seq(PoolStateType)
  <2>1. states \in Seq(PoolStateType)
    BY DEF TypeOK
  <2>2. CanRollback(states, gamers, t) /\ states' = Rollback(states, t)
    BY DEF RollbackTx
  <2>. QED BY <2>1, <2>2, RollbackIsPrefix
<1>2. /\ DOMAIN gamers' \subseteq Addresses
      /\ gamers' \in [DOMAIN gamers' -> GamerType]
  <2>1. DOMAIN gamers' \subseteq DOMAIN gamers
    BY DEF RollbackTx, RollbackGamers
  <2>2. ASSUME NEW a \in DOMAIN gamers' PROVE gamers'[a] \in GamerType
    <3>1. gamers[a] \in GamerType
      BY <2>1, <2>2 DEF TypeOK
    <3>2. [gamers[a] EXCEPT !.is_withdrawn = FALSE] \in GamerType
      BY <3>1 DEF GamerType
    <3>. QED BY <2>2, <3>1, <3>2 DEF RollbackTx, RollbackGamers
  <2>3. gamers' = [a \in DOMAIN gamers' |-> gamers'[a]]
    BY DEF RollbackTx, RollbackGamers
  <2>. QED BY <2>1, <2>2, <2>3 DEF TypeOK
<1>. QED BY <1>1, <1>2 DEF TypeOK, RollbackTx

(* Every step keeps the types.                                             *)
LEMMA StepKeepsTypes ==
  ASSUME TypeOK, [Next]_vars
  PROVE  TypeOK'
<1>1. CASE SetupNext /\ UNCHANGED execVars
  BY <1>1, SetupKeepsTypes
<1>2. CASE Upgrade
  BY <1>2 DEF TypeOK, Upgrade, PostUpgrade, RuneNames
<1>3. ASSUME NEW c \in Calls, NEW t \in Txids,
             NEW nonce \in 0 .. Cardinality(Txids), ExecuteRegister(c, t, nonce)
      PROVE  TypeOK'
  <2>1. RegisterState(t) \in PoolStateType
    BY <1>3, RegisterStateType DEF ExecuteRegister, ValidRegister
  <2>2. calls' \in [Calls -> CallType]
    BY <1>3, <2>1 DEF TypeOK, ExecuteRegister, CallType
  <2>. QED BY <1>3, <2>2 DEF TypeOK, ExecuteRegister
<1>4. ASSUME NEW c \in Calls, SignReply(c) PROVE TypeOK'
  <2>1. [calls[c] EXCEPT !.phase = "principal"] \in CallType
    BY <1>4, CallFacts DEF SignReply, CallType
  <2>2. calls' \in [Calls -> CallType]
    BY <1>4, <2>1 DEF TypeOK, SignReply
  <2>. QED BY <1>4, <2>2 DEF TypeOK, SignReply
<1>5. ASSUME NEW c \in Calls, CommitRegister(c) PROVE TypeOK'
  BY <1>5, CommitKeepsTypes
<1>6. ASSUME NEW c \in Calls, ExecuteFails(c) PROVE TypeOK'
  BY <1>6 DEF TypeOK, ExecuteFails, CallType
<1>7. ASSUME NEW t \in Txids, RollbackTx(t) PROVE TypeOK'
  BY <1>7, RollbackKeepsTypes
<1>8. CASE UNCHANGED vars
  BY <1>8 DEF TypeOK
<1>. QED BY <1>1, <1>2, <1>3, <1>4, <1>5, <1>6, <1>7, <1>8 DEF Next, Execute

LEMMA InitTypes == Init => TypeOK
BY EmptySeq DEF Init, SetupInit, TypeOK, RuneNames, Statuses, Initialize,
   CallType, PoolStateType, GamerType

(* Every variable keeps the values the code's types allow.                 *)
THEOREM TypeCorrect == Spec => []TypeOK
<1>1. Init => TypeOK
  BY InitTypes
<1>2. TypeOK /\ [Next]_vars => TypeOK'
  BY StepKeepsTypes
<1>. QED BY <1>1, <1>2, PTL DEF Spec

-------------------------------------------------------------------------------
(* The inductive invariant behind PlayIsFunded and AddressStable.  The     *)
(* status says which of key and utxo are there; a call of init_key that is *)
(* in flight was given today's derivation path, which is the address's if  *)
(* there is one; before play there is no registration anywhere; and a call *)
(* in flight carries a registration of its own transaction.  The statuses  *)
(* after Play are those of the game, which is built on these steps.        *)

StatusInv ==
  \/ gameStatus = Initialize(FALSE, FALSE) /\ address = None /\ states = <<>>
  \/ gameStatus = Initialize(TRUE, FALSE) /\ address # None /\ states = <<>>
  \/ gameStatus = Initialize(FALSE, TRUE) /\ address = None /\ states # <<>>
  \/ /\ gameStatus \in {Play, Ended, RunesMinted}
     /\ address # None /\ states # <<>>

KeyInv ==
  \A k \in KeyCalls : keyCalls[k] # None =>
    keyCalls[k] = runeName /\ address \in {None, runeName}

QuietInv ==
  IsInitialize(gameStatus) =>
    InFlight = {} /\ \A i \in DOMAIN states : ~IsRegister(states[i])

InitsFirst ==
  \A i, j \in DOMAIN states :
    i < j /\ IsRegister(states[i]) => IsRegister(states[j])

CallInv ==
  \A c \in InFlight :
    /\ calls[c].state.id = calls[c].tx
    /\ calls[c].state.outpoint = calls[c].tx
    /\ calls[c].state.gamer = Sender[calls[c].tx]
    /\ IsRegister(calls[c].state)

SetupInv == StatusInv /\ KeyInv /\ QuietInv /\ InitsFirst /\ CallInv

(* The statuses are told apart by their tags.                              *)
LEMMA StatusFacts ==
  /\ \A key, btc : IsInitialize(Initialize(key, btc))
  /\ ~IsInitialize(Play) /\ ~IsInitialize(Ended) /\ ~IsInitialize(RunesMinted)
  /\ Play # Ended /\ Ended # RunesMinted /\ RunesMinted # Play
BY DEF IsInitialize, Initialize, Play, Ended, RunesMinted

LEMMA StartedFacts ==
  ASSUME SetupInv, ~IsInitialize(gameStatus)
  PROVE  /\ gameStatus \in {Play, Ended, RunesMinted}
         /\ address # None /\ states # <<>>
BY StatusFacts DEF SetupInv, StatusInv

(* Appending a state keeps the ones before it.                             *)
LEMMA AppendFacts ==
  ASSUME NEW S, NEW ss \in Seq(S), NEW s \in S
  PROVE  /\ Append(ss, s) # <<>>
         /\ DOMAIN Append(ss, s) = 1 .. Len(ss) + 1
         /\ \A i \in 1 .. Len(ss) : Append(ss, s)[i] = ss[i]
         /\ Append(ss, s)[Len(ss) + 1] = s
         /\ Len(ss) \in Nat /\ DOMAIN ss = 1 .. Len(ss)
BY AppendProperties, LenProperties

(* What a transaction that is rolled back leaves of the history.           *)
LEMMA RollbackFacts ==
  ASSUME TypeOK, NEW t \in Txids, RollbackTx(t)
  PROVE  /\ states' # <<>> /\ states # <<>>
         /\ DOMAIN states' \subseteq DOMAIN states
         /\ \A i \in DOMAIN states' : states'[i] = states[i]
         /\ Len(states') = Position(states, t) - 1
         /\ Position(states, t) \in 2 .. Len(states)
<1>1. states \in Seq(PoolStateType)
  BY DEF TypeOK
<1>2. CanRollback(states, gamers, t) /\ states' = Rollback(states, t)
  BY DEF RollbackTx
<1>3. /\ states' \in Seq(PoolStateType)
      /\ Len(states') = Position(states, t) - 1
      /\ Position(states, t) \in 2 .. Len(states)
      /\ \A i \in 1 .. Len(states') : states'[i] = states[i]
      /\ states' # <<>>
  BY <1>1, <1>2, RollbackIsPrefix
<1>4. DOMAIN states' = 1 .. Len(states') /\ DOMAIN states = 1 .. Len(states)
  BY <1>1, <1>3, LenProperties
<1>. QED BY <1>1, <1>3, <1>4, EmptySeq

(* init_btc_utxo is only taken before play, when nothing is registered.    *)
LEMMA UtxoKeepsSetupInv ==
  ASSUME TypeOK, SetupInv, NEW utxo \in InitUtxos, InitBtcUtxo(utxo),
         UNCHANGED execVars
  PROVE  SetupInv'
<1>1. /\ IsInitialize(gameStatus)
      /\ states \in Seq(PoolStateType)
      /\ InitState(utxo) \in PoolStateType
      /\ ~IsRegister(InitState(utxo))
      /\ states' = Append(states, InitState(utxo))
  <2>1. utxo.sats \in Nat /\ utxo.outpoint \in Outpoints
    BY SatsAssumption DEF Outpoints
  <2>. QED BY <2>1 DEF InitBtcUtxo, TypeOK, InitState, PoolStateType, IsRegister,
              IsInitialize, Play
<1>2. InFlight' = {} /\ \A i \in DOMAIN states' : ~IsRegister(states'[i])
  <2>1. InFlight = {} /\ \A i \in DOMAIN states : ~IsRegister(states[i])
    BY <1>1 DEF SetupInv, QuietInv
  <2>2. ASSUME NEW i \in DOMAIN states' PROVE ~IsRegister(states'[i])
    BY <1>1, <2>1, AppendFacts DEF IsRegister
  <2>. QED BY <2>1, <2>2 DEF InFlight
<1>3. StatusInv'
  BY <1>1, AppendFacts, StatusFacts DEF SetupInv, StatusInv, InitBtcUtxo,
     FinishInitBtc, Initialize
<1>4. KeyInv'
  BY DEF SetupInv, KeyInv, InitBtcUtxo
<1>. QED BY <1>2, <1>3, <1>4 DEF SetupInv, QuietInv, InitsFirst, CallInv

(* init_key: its replies set the address only to what it already is.       *)
LEMMA KeyKeepsSetupInv ==
  ASSUME TypeOK, SetupInv, NEW k \in KeyCalls, UNCHANGED execVars,
         InitKeyCall(k) \/ InitKeyReply(k) \/ InitKeyFails(k)
  PROVE  SetupInv' /\ (address # None => address' = address)
<1>1. states' = states /\ runeName' = runeName /\ InFlight' = InFlight
  BY DEF InitKeyCall, InitKeyReply, InitKeyFails, InFlight
<1>2. InitsFirst' /\ CallInv'
  BY <1>1 DEF SetupInv, InitsFirst, CallInv
<1>3. CASE InitKeyCall(k)
  <2>1. KeyInv'
    BY <1>3 DEF TypeOK, SetupInv, KeyInv, InitKeyCall
  <2>. QED BY <1>1, <1>2, <1>3, <2>1 DEF SetupInv, StatusInv, QuietInv, InitKeyCall
<1>4. CASE InitKeyReply(k)
  <2>1. keyCalls[k] = runeName /\ address \in {None, runeName}
    BY <1>4 DEF SetupInv, KeyInv, InitKeyReply
  <2>2. address' = runeName /\ runeName # None
    BY <1>4, <2>1, NoneAssumption DEF InitKeyReply, TypeOK
  <2>3. KeyInv'
    BY <1>1, <1>4, <2>2 DEF TypeOK, SetupInv, KeyInv, InitKeyReply
  <2>4. IsInitialize(gameStatus)
    BY <1>4 DEF InitKeyReply, IsInitialize, Play
  <2>5. StatusInv'
    BY <1>1, <1>4, <2>2, <2>4, StatusFacts DEF SetupInv, StatusInv, InitKeyReply,
       FinishInitKey, Initialize
  <2>6. QuietInv'
    BY <1>1, <2>4 DEF SetupInv, QuietInv
  <2>. QED BY <1>2, <2>1, <2>2, <2>3, <2>5, <2>6 DEF SetupInv
<1>5. CASE InitKeyFails(k)
  <2>1. KeyInv'
    BY <1>1, <1>5 DEF TypeOK, SetupInv, KeyInv, InitKeyFails
  <2>. QED BY <1>1, <1>2, <1>5, <2>1 DEF SetupInv, StatusInv, QuietInv, InitKeyFails
<1>. QED BY <1>3, <1>4, <1>5
(* Whoever calls execute_tx or rollback_tx plays: the address is set and,  *)
(* if there is a state to build on or to roll back, so is the status.      *)
LEMMA CallsOnlyInPlay ==
  ASSUME SetupInv, address # None, states # <<>>
  PROVE  ~IsInitialize(gameStatus)
BY StatusFacts DEF SetupInv, StatusInv

(* The steps of execute_tx before the commit change only the call.         *)
LEMMA WaitingKeepsSetupInv ==
  ASSUME TypeOK, SetupInv, NEW c \in Calls,
         \/ \E t \in Txids, nonce \in 0 .. Cardinality(Txids) :
              ExecuteRegister(c, t, nonce)
         \/ SignReply(c)
         \/ ExecuteFails(c)
  PROVE  SetupInv'
<1>1. UNCHANGED <<runeName, address, gameStatus, states, keyCalls>>
  BY DEF ExecuteRegister, SignReply, ExecuteFails
<1>2. ~IsInitialize(gameStatus)
  <2>1. CASE \E t \in Txids, nonce \in 0 .. Cardinality(Txids) :
               ExecuteRegister(c, t, nonce)
    BY <2>1, CallsOnlyInPlay DEF ExecuteRegister, MayCall, ValidRegister
  <2>2. CASE SignReply(c) \/ ExecuteFails(c)
    <3>1. c \in InFlight
      BY <2>2 DEF SignReply, ExecuteFails, InFlight, Idle
    <3>. QED BY <3>1 DEF SetupInv, QuietInv
  <2>. QED BY <2>1, <2>2
<1>3. CallInv'
  <2>1. ASSUME NEW t \in Txids, NEW nonce \in 0 .. Cardinality(Txids),
               ExecuteRegister(c, t, nonce)
        PROVE  CallInv'
    <3>1. calls' = [calls EXCEPT ![c] = [phase |-> "sign", tx |-> t,
                                         state |-> RegisterState(t)]]
      BY <2>1 DEF ExecuteRegister
    <3>2. /\ RegisterState(t).id = t
          /\ RegisterState(t).outpoint = t
          /\ RegisterState(t).gamer = Sender[t]
          /\ RegisterState(t).action = "Register"
      BY DEF RegisterState
    <3>. QED BY <3>1, <3>2 DEF TypeOK, SetupInv, CallInv, InFlight, IsRegister
  <2>2. CASE SignReply(c)
    <3>1. c \in InFlight
      BY <2>2 DEF SignReply, InFlight, Idle
    <3>2. /\ calls'[c].tx = calls[c].tx /\ calls'[c].state = calls[c].state
          /\ \A d \in Calls \ {c} : calls'[d] = calls[d]
      BY <2>2, CallFacts DEF SignReply, TypeOK
    <3>. QED BY <3>1, <3>2 DEF SetupInv, CallInv, InFlight, IsRegister
  <2>3. CASE ExecuteFails(c)
    BY <2>3 DEF TypeOK, SetupInv, CallInv, InFlight, ExecuteFails
  <2>. QED BY <2>1, <2>2, <2>3
<1>. QED BY <1>1, <1>2, <1>3 DEF SetupInv, StatusInv, KeyInv, QuietInv, InitsFirst

(* A commit appends a registration.                                        *)
LEMMA CommitFacts ==
  ASSUME TypeOK, SetupInv, NEW c \in Calls, CommitRegister(c)
  PROVE  /\ c \in InFlight /\ InFlight' = InFlight \ {c}
         /\ \A d \in InFlight' : calls'[d] = calls[d]
         /\ Len(states) \in Nat /\ DOMAIN states = 1 .. Len(states)
         /\ states' # <<>> /\ DOMAIN states' = 1 .. Len(states) + 1
         /\ \A i \in DOMAIN states : states'[i] = states[i]
         /\ states'[Len(states) + 1] = calls[c].state
         /\ calls[c].tx \in Txids
         /\ calls[c].state.id = calls[c].tx
         /\ calls[c].state.outpoint = calls[c].tx
         /\ calls[c].state.gamer = Sender[calls[c].tx]
         /\ IsRegister(calls[c].state)
<1>1. c \in InFlight
  BY DEF CommitRegister, InFlight, Idle
<1>2. InFlight' = InFlight \ {c} /\ \A d \in InFlight' : calls'[d] = calls[d]
  BY DEF TypeOK, CommitRegister, InFlight
<1>3. calls[c].state \in PoolStateType /\ calls[c].tx \in Txids
  BY CallFacts DEF CommitRegister
<1>4. states \in Seq(PoolStateType) /\ states' = Append(states, calls[c].state)
  BY DEF TypeOK, CommitRegister, Commit
<1>5. /\ calls[c].state.id = calls[c].tx
      /\ calls[c].state.outpoint = calls[c].tx
      /\ calls[c].state.gamer = Sender[calls[c].tx]
      /\ IsRegister(calls[c].state)
  BY <1>1 DEF SetupInv, CallInv
<1>. QED BY <1>1, <1>2, <1>3, <1>4, <1>5, AppendFacts

LEMMA CommitKeepsSetupInv ==
  ASSUME TypeOK, SetupInv, NEW c \in Calls, CommitRegister(c)
  PROVE  SetupInv'
<1>1. UNCHANGED <<runeName, address, gameStatus, keyCalls>>
  BY DEF CommitRegister
<1>2. ~IsInitialize(gameStatus)
  BY CommitFacts DEF SetupInv, QuietInv
<1>3. StatusInv'
  BY <1>1, <1>2, CommitFacts, StartedFacts DEF StatusInv
<1>4. InitsFirst'
  BY CommitFacts DEF SetupInv, InitsFirst, IsRegister
<1>5. CallInv'
  BY CommitFacts DEF SetupInv, CallInv, IsRegister
<1>. QED BY <1>1, <1>2, <1>3, <1>4, <1>5 DEF SetupInv, KeyInv, QuietInv

LEMMA RollbackKeepsSetupInv ==
  ASSUME TypeOK, SetupInv, NEW t \in Txids, RollbackTx(t)
  PROVE  SetupInv'
<1>1. UNCHANGED <<runeName, address, gameStatus, keyCalls, calls>>
  BY DEF RollbackTx
<1>2. ~IsInitialize(gameStatus)
  BY RollbackFacts, CallsOnlyInPlay DEF RollbackTx, MayCall
<1>3. StatusInv'
  BY <1>1, <1>2, RollbackFacts, StartedFacts DEF StatusInv
<1>4. InitsFirst'
  BY RollbackFacts DEF SetupInv, InitsFirst, IsRegister
<1>5. CallInv'
  BY <1>1 DEF SetupInv, CallInv, InFlight
<1>. QED BY <1>1, <1>2, <1>3, <1>4, <1>5 DEF SetupInv, KeyInv, QuietInv

(* Every step keeps the invariant and, once it is set, the address.        *)
LEMMA StepKeepsSetupInv ==
  ASSUME TypeOK, SetupInv, [Next]_vars
  PROVE  SetupInv' /\ (address # None => address' = address)
<1>1. CASE SetupNext /\ UNCHANGED execVars
  <2>1. ASSUME NEW utxo \in InitUtxos, InitBtcUtxo(utxo)
        PROVE  SetupInv' /\ address' = address
    BY <1>1, <2>1, UtxoKeepsSetupInv DEF InitBtcUtxo
  <2>. QED BY <1>1, <2>1, KeyKeepsSetupInv DEF SetupNext
<1>2. CASE Upgrade
  <2>1. UNCHANGED <<address, gameStatus, states, keyCalls, calls>>
    BY <1>2 DEF Upgrade, PostUpgrade
  <2>2. KeyInv'
    BY <1>2, <2>1 DEF Upgrade, PostUpgrade, KeyInv
  <2>. QED BY <2>1, <2>2 DEF SetupInv, StatusInv, QuietInv, InitsFirst, CallInv,
              InFlight
<1>3. ASSUME NEW c \in Calls,
             \/ \E t \in Txids, nonce \in 0 .. Cardinality(Txids) :
                  ExecuteRegister(c, t, nonce)
             \/ SignReply(c)
             \/ ExecuteFails(c)
      PROVE  SetupInv' /\ address' = address
  BY <1>3, WaitingKeepsSetupInv DEF ExecuteRegister, SignReply, ExecuteFails
<1>4. ASSUME NEW c \in Calls, CommitRegister(c)
      PROVE  SetupInv' /\ address' = address
  BY <1>4, CommitKeepsSetupInv DEF CommitRegister
<1>5. ASSUME NEW t \in Txids, RollbackTx(t)
      PROVE  SetupInv' /\ address' = address
  BY <1>5, RollbackKeepsSetupInv DEF RollbackTx
<1>6. CASE UNCHANGED vars
  BY <1>6 DEF SetupInv, StatusInv, KeyInv, QuietInv, InitsFirst, CallInv, InFlight
<1>. QED BY <1>1, <1>2, <1>3, <1>4, <1>5, <1>6 DEF Next, Execute

LEMMA InitSetup ==
  ASSUME Init
  PROVE  SetupInv
<1>1. states = <<>> /\ DOMAIN states = {}
  BY DEF Init, SetupInit
<1>2. InFlight = {}
  BY DEF Init, InFlight
<1>3. StatusInv /\ KeyInv
  BY DEF Init, SetupInit, StatusInv, KeyInv
<1>. QED BY <1>1, <1>2, <1>3 DEF SetupInv, QuietInv, InitsFirst, CallInv

(* The invariant holds in every reachable state.                           *)
THEOREM SetupInvariant == Spec => []SetupInv
<1>1. Init => SetupInv
  BY InitSetup
<1>2. TypeOK /\ SetupInv /\ [Next]_vars => SetupInv'
  BY StepKeepsSetupInv
<1>. QED BY <1>1, <1>2, TypeCorrect, PTL DEF Spec

(* None of these steps moves a status that is past set-up.                 *)
LEMMA StepKeepsStatus ==
  ASSUME [Next]_vars
  PROVE  /\ ~IsInitialize(gameStatus) => gameStatus' = gameStatus
         /\ gameStatus' # gameStatus => gameStatus' \notin {Ended, RunesMinted}
<1>1. ASSUME NEW k \in KeyCalls, InitKeyReply(k)
      PROVE  IsInitialize(gameStatus) /\ gameStatus' \notin {Ended, RunesMinted}
  BY <1>1, StatusFacts DEF InitKeyReply, FinishInitKey
<1>2. ASSUME NEW utxo \in InitUtxos, InitBtcUtxo(utxo)
      PROVE  IsInitialize(gameStatus) /\ gameStatus' \notin {Ended, RunesMinted}
  BY <1>2, StatusFacts DEF InitBtcUtxo, FinishInitBtc
<1>. QED BY <1>1, <1>2 DEF Next, SetupNext, InitKeyCall, InitKeyFails, Upgrade,
            PostUpgrade, Execute, ExecuteRegister, SignReply, CommitRegister,
            ExecuteFails, RollbackTx

(* Play has started exactly when the address and a first utxo are there,   *)
(* and the states init_btc_utxo pushed stay the oldest, for every order of *)
(* the calls and replies and every overlap of execute_tx calls.            *)
THEOREM PlayFunded == Spec => []PlayIsFunded
<1> DEFINE NotEnded == gameStatus \notin {Ended, RunesMinted}
<1>1. Init => NotEnded
  BY StatusFacts DEF Init, SetupInit
<1>2. NotEnded /\ [Next]_vars => NotEnded'
  BY StepKeepsStatus
<1>3. SetupInv /\ NotEnded => PlayIsFunded
  BY StatusFacts DEF SetupInv, StatusInv, InitsFirst, PlayIsFunded
<1>. QED BY <1>1, <1>2, <1>3, SetupInvariant, PTL DEF Spec

(* The pool's address is never replaced by another one.                    *)
THEOREM AddressNeverChanges == Spec => AddressStable
<1>1. TypeOK /\ SetupInv /\ [Next]_vars
        => [address # None => address' = address]_vars
  BY StepKeepsSetupInv
<1>. QED BY <1>1, TypeCorrect, SetupInvariant, PTL DEF Spec, AddressStable

(* The rune name is the one of init or the one post_upgrade writes, and as *)
(* long as it is that of init the address was derived from it.             *)
NameInv ==
  /\ runeName \in {InitRuneName, UpgradeRuneName}
  /\ runeName = InitRuneName => address \in {None, InitRuneName}

LEMMA StepKeepsName ==
  ASSUME SetupInv, NameInv, [Next]_vars
  PROVE  NameInv'
<1>1. CASE UNCHANGED <<runeName, address>>
  BY <1>1 DEF NameInv
<1>2. ASSUME NEW k \in KeyCalls, InitKeyReply(k) PROVE NameInv'
  BY <1>2 DEF InitKeyReply, SetupInv, KeyInv, NameInv
<1>3. CASE Upgrade
  <2>1. runeName' = UpgradeRuneName /\ address' = address
    BY <1>3 DEF Upgrade, PostUpgrade
  <2>. QED BY <2>1 DEF NameInv
<1>. QED BY <1>1, <1>2, <1>3 DEF Next, SetupNext, InitKeyCall, InitKeyFails, InitBtcUtxo,
            Execute, ExecuteRegister, SignReply, CommitRegister, ExecuteFails, RollbackTx

\* A call that asks for a signature finds the address set.
LEMMA NameSigns ==
  ASSUME SetupInv, NameInv, runeName = InitRuneName
  PROVE  SignsForItsAddress
<1>1. ASSUME NEW c \in Calls, calls[c].phase = "sign" PROVE address # None
  <2>1. c \in InFlight
    BY <1>1 DEF InFlight, Idle
  <2>2. ~IsInitialize(gameStatus)
    BY <2>1 DEF SetupInv, QuietInv
  <2>. QED BY <2>2, StatusFacts DEF SetupInv, StatusInv
<1>. QED BY <1>1 DEF NameInv, SignsForItsAddress

(* Only the rename of post_upgrade makes execute_tx sign with a key that   *)
(* is not its address's: until then, however init_key, upgrades and calls  *)
(* follow on each other, each signature is by the key of the address.      *)
THEOREM SignsUntilRenamed == Spec => [](runeName = InitRuneName => SignsForItsAddress)
<1>1. Init => NameInv
  BY DEF Init, SetupInit, NameInv
<1>2. SetupInv /\ NameInv /\ [Next]_vars => NameInv'
  BY StepKeepsName
<1>3. SetupInv /\ NameInv => (runeName = InitRuneName => SignsForItsAddress)
  BY NameSigns
<1>. QED BY <1>1, <1>2, <1>3, SetupInvariant, PTL DEF Spec

(* So a canister made with the name that post_upgrade writes always signs  *)
(* for its address.                                                        *)
THEOREM SameNameSigns ==
  ASSUME InitRuneName = UpgradeRuneName
  PROVE  Spec => []SignsForItsAddress
<1>1. Init => NameInv
  BY DEF Init, SetupInit, NameInv
<1>2. SetupInv /\ NameInv /\ [Next]_vars => NameInv'
  BY StepKeepsName
<1>3. InitRuneName = UpgradeRuneName /\ SetupInv /\ NameInv => SignsForItsAddress
  BY NameSigns DEF NameInv
<1>. QED BY <1>1, <1>2, <1>3, SetupInvariant, PTL DEF Spec
-------------------------------------------------------------------------------
(* Setting up neither touches what execute_tx keeps nor adds a registration.*)
LEMMA SetupFacts ==
  ASSUME TypeOK, SetupInv, SetupNext, UNCHANGED execVars
  PROVE  /\ InFlight' = InFlight
         /\ states' # states => IsInitialize(gameStatus)
         /\ \A i \in DOMAIN states' : IsRegister(states'[i]) =>
              i \in DOMAIN states /\ states'[i] = states[i]
<1>1. InFlight' = InFlight
  BY DEF InFlight
<1>2. ASSUME NEW k \in KeyCalls, InitKeyCall(k) \/ InitKeyReply(k) \/ InitKeyFails(k)
      PROVE  states' = states
  BY <1>2 DEF InitKeyCall, InitKeyReply, InitKeyFails
<1>3. ASSUME NEW utxo \in InitUtxos, InitBtcUtxo(utxo)
      PROVE  /\ IsInitialize(gameStatus)
             /\ \A i \in DOMAIN states' : IsRegister(states'[i]) =>
                  i \in DOMAIN states /\ states'[i] = states[i]
  <2>1. utxo.sats \in Nat /\ utxo.outpoint \in Outpoints
    BY SatsAssumption DEF Outpoints
  <2>2. InitState(utxo) \in PoolStateType /\ ~IsRegister(InitState(utxo))
    BY <2>1 DEF InitState, PoolStateType, IsRegister
  <2>3. states \in Seq(PoolStateType) /\ states' = Append(states, InitState(utxo))
    BY <1>3 DEF InitBtcUtxo, TypeOK
  <2>4. IsInitialize(gameStatus)
    BY <1>3 DEF InitBtcUtxo
  <2>. QED BY <2>2, <2>3, <2>4, AppendFacts DEF IsRegister
<1>. QED BY <1>1, <1>2, <1>3 DEF SetupNext

(* What a step does to the history and its records, whatever it is: it     *)
(* keeps registrations, commits one of a call in flight, or rolls back.    *)
LEMMA StepFacts ==
  ASSUME TypeOK, SetupInv, [Next]_vars
  PROVE  \/ \E c \in Calls : CommitRegister(c)
         \/ \E t \in Txids : RollbackTx(t)
         \/ /\ UNCHANGED <<gamers, principals, txRecords>>
            /\ \A i \in DOMAIN states' : IsRegister(states'[i]) =>
                 i \in DOMAIN states /\ states'[i] = states[i]
<1>1. CASE SetupNext /\ UNCHANGED execVars
  BY <1>1, SetupFacts
<1>2. CASE Upgrade
  BY <1>2 DEF Upgrade, PostUpgrade
<1>3. CASE Execute
  BY <1>3 DEF Execute, ExecuteRegister, SignReply, ExecuteFails
<1>4. CASE UNCHANGED vars
  BY <1>4
<1>. QED BY <1>1, <1>2, <1>3, <1>4 DEF Next

(* Every step keeps the registrations of the history recorded.             *)
LEMMA StepKeepsRecords ==
  ASSUME TypeOK, SetupInv, RegistersRecorded, [Next]_vars
  PROVE  RegistersRecorded'
<1>1. ASSUME NEW c \in Calls, CommitRegister(c) PROVE RegistersRecorded'
  <2>1. txRecords' = txRecords \cup {<<calls[c].tx, FALSE>>}
    BY <1>1 DEF CommitRegister, RecordTx
  <2>2. ASSUME NEW i \in DOMAIN states', IsRegister(states'[i])
        PROVE  \E confirmed \in BOOLEAN : <<states'[i].id, confirmed>> \in txRecords'
    <3>1. CASE i \in DOMAIN states
      <4>1. states'[i] = states[i]
        BY <1>1, <3>1, CommitFacts
      <4>. QED BY <2>1, <2>2, <3>1, <4>1 DEF RegistersRecorded, IsRegister
    <3>2. CASE i \notin DOMAIN states
      <4>1. states'[i].id = calls[c].tx
        BY <1>1, <2>2, <3>2, CommitFacts
      <4>. QED BY <2>1, <4>1
    <3>. QED BY <3>1, <3>2
  <2>. QED BY <2>2 DEF RegistersRecorded, IsRegister
<1>2. ASSUME NEW t \in Txids, RollbackTx(t) PROVE RegistersRecorded'
  <2>1. txRecords' = txRecords
    BY <1>2 DEF RollbackTx
  <2>. QED BY <1>2, <2>1, RollbackFacts DEF RegistersRecorded, IsRegister
<1>3. ASSUME UNCHANGED <<gamers, principals, txRecords>>,
             \A i \in DOMAIN states' : IsRegister(states'[i]) =>
               i \in DOMAIN states /\ states'[i] = states[i]
      PROVE  RegistersRecorded'
  BY <1>3 DEF RegistersRecorded, IsRegister
<1>. QED BY <1>1, <1>2, <1>3, StepFacts

(* Every registration in the history has its record in TX_RECORDS, also    *)
(* when calls overlap and registrations are rolled back.                   *)
THEOREM RecordsComplete == Spec => []RegistersRecorded
<1>1. ASSUME Init PROVE RegistersRecorded
  BY <1>1 DEF Init, SetupInit, RegistersRecorded
<1>2. TypeOK /\ SetupInv /\ RegistersRecorded /\ [Next]_vars => RegistersRecorded'
  BY StepKeepsRecords
<1>. QED BY <1>1, <1>2, TypeCorrect, SetupInvariant, PTL DEF Spec

(* Every step keeps the gamers reachable by their principals.               *)
LEMMA StepKeepsPrincipals ==
  ASSUME TypeOK, SetupInv, GamersCanClaim, [Next]_vars
  PROVE  GamersCanClaim'
<1>1. ASSUME NEW c \in Calls, CommitRegister(c) PROVE GamersCanClaim'
  <2> DEFINE me == Sender[calls[c].tx]
  <2>1. /\ gamers' = Insert(gamers, me, NewGamer)
        /\ principals' = Insert(principals, PrincipalOf[me], me)
    BY <1>1 DEF CommitRegister
  <2>2. me \in Addresses /\ DOMAIN gamers \subseteq Addresses
    BY <1>1, CommitFacts, TxAssumption DEF TypeOK
  <2>3. ASSUME NEW a \in DOMAIN gamers'
        PROVE  PrincipalOf[a] \in DOMAIN principals' /\ principals'[PrincipalOf[a]] = a
    <3>1. a \in DOMAIN gamers \/ a = me
      BY <2>1, <2>3 DEF Insert
    <3>2. CASE a = me
      BY <2>1, <3>2 DEF Insert
    <3>3. CASE a # me
      <4>1. PrincipalOf[a] # PrincipalOf[me]
        BY <2>2, <3>1, <3>3, PrincipalAssumption
      <4>2. PrincipalOf[a] \in DOMAIN principals /\ principals[PrincipalOf[a]] = a
        BY <3>1, <3>3 DEF GamersCanClaim
      <4>3. /\ PrincipalOf[a] \in DOMAIN principals'
            /\ principals'[PrincipalOf[a]] = principals[PrincipalOf[a]]
        <5>1. principals' = [x \in DOMAIN principals \cup {PrincipalOf[me]} |->
                               IF x = PrincipalOf[me] THEN me ELSE principals[x]]
          BY <2>1 DEF Insert
        <5>. QED BY <4>1, <4>2, <5>1
      <4>. QED BY <4>2, <4>3
    <3>. QED BY <3>2, <3>3
  <2>. QED BY <2>3 DEF GamersCanClaim
<1>2. ASSUME NEW t \in Txids, RollbackTx(t) PROVE GamersCanClaim'
  BY <1>2 DEF RollbackTx, RollbackGamers, GamersCanClaim
<1>3. ASSUME UNCHANGED <<gamers, principals, txRecords>> PROVE GamersCanClaim'
  BY <1>3 DEF GamersCanClaim
<1>. QED BY <1>1, <1>2, <1>3, StepFacts

(* Every gamer is the one his principal is mapped to, so that claim finds  *)
(* him, also when calls overlap and registrations are rolled back.         *)
THEOREM GamersFound == Spec => []GamersCanClaim
<1>1. ASSUME Init PROVE GamersCanClaim
  BY <1>1 DEF Init, GamersCanClaim
<1>2. TypeOK /\ SetupInv /\ GamersCanClaim /\ [Next]_vars => GamersCanClaim'
  BY StepKeepsPrincipals
<1>. QED BY <1>1, <1>2, TypeCorrect, SetupInvariant, PTL DEF Spec
-------------------------------------------------------------------------------
(* An orchestrator that waits for each answer.  The only call in flight    *)
(* carries a registration that still fits: nothing changed since it was    *)
(* validated.  This is the strengthening that makes the two properties of  *)
(* the history inductive; without Serial it is false.                      *)

Fits(state, t) ==
  /\ Spends[t] = LastOf(states).outpoint
  /\ state.nonce = LastOf(states).nonce + 1
  /\ state.sats = LastOf(states).sats + Fee
  /\ Sender[t] \notin DOMAIN gamers

FitInv ==
  /\ \A c, d \in InFlight : c = d
  /\ \A c \in InFlight : Fits(calls[c].state, calls[c].tx)

HistoryInv == FitInv /\ StatesChained /\ OneStatePerGamer

(* A step that starts a call validates it.                                 *)
LEMMA ExecuteKeepsFit ==
  ASSUME Serial, TypeOK, SetupInv, HistoryInv, NEW c \in Calls, NEW t \in Txids,
         NEW nonce \in 0 .. Cardinality(Txids), ExecuteRegister(c, t, nonce)
  PROVE  FitInv'
<1>1. InFlight = {} /\ UNCHANGED <<states, gamers>>
  BY DEF ExecuteRegister, MayCall
<1>2. /\ calls' = [calls EXCEPT ![c] = [phase |-> "sign", tx |-> t,
                                       state |-> RegisterState(t)]]
      /\ Spends[t] = LastOf(states).outpoint
      /\ Sender[t] \notin DOMAIN gamers
  BY DEF ExecuteRegister, ValidRegister
<1>3. /\ InFlight' \subseteq {c}
      /\ c \in InFlight' =>
           calls'[c].state = RegisterState(t) /\ calls'[c].tx = t
  BY <1>1, <1>2 DEF InFlight, TypeOK
<1>4. /\ RegisterState(t).nonce = LastOf(states).nonce + 1
      /\ RegisterState(t).sats = LastOf(states).sats + Fee
  BY DEF RegisterState
<1>5. ASSUME NEW d \in InFlight'
      PROVE  d = c /\ Fits(calls[d].state, calls[d].tx)'
  BY <1>1, <1>2, <1>3, <1>4, <1>5 DEF Fits, LastOf
<1>. QED BY <1>5 DEF FitInv

(* The two other steps of a call that waits keep what fits.                *)
LEMMA WaitingKeepsFit ==
  ASSUME TypeOK, FitInv, NEW c \in Calls, SignReply(c) \/ ExecuteFails(c)
  PROVE  FitInv'
<1>1. UNCHANGED <<states, gamers>>
  BY DEF SignReply, ExecuteFails
<1>2. \A d \in InFlight' : /\ d \in InFlight
                           /\ calls'[d].state = calls[d].state
                           /\ calls'[d].tx = calls[d].tx
  <2>1. CASE SignReply(c)
    <3>1. c \in InFlight
      BY <2>1 DEF SignReply, InFlight, Idle
    <3>2. /\ calls'[c].tx = calls[c].tx /\ calls'[c].state = calls[c].state
          /\ \A d \in Calls \ {c} : calls'[d] = calls[d]
      BY <2>1, CallFacts DEF SignReply, TypeOK
    <3>. QED BY <3>1, <3>2 DEF InFlight
  <2>2. CASE ExecuteFails(c)
    BY <2>2 DEF TypeOK, InFlight, ExecuteFails
  <2>. QED BY <2>1, <2>2
<1>. QED BY <1>1, <1>2 DEF FitInv, Fits

(* The commit of a registration that fits extends the chain by one link    *)
(* and the gamers by a new one.                                            *)
LEMMA CommitKeepsHistory ==
  ASSUME TypeOK, SetupInv, HistoryInv, NEW c \in Calls, CommitRegister(c)
  PROVE  HistoryInv'
<1> DEFINE new == calls[c].state
           n == Len(states)
           me == Sender[calls[c].tx]
<1>1. /\ c \in InFlight /\ Fits(new, calls[c].tx)
      /\ \A d \in InFlight : d = c
  BY CommitFacts DEF HistoryInv, FitInv
<1>2. FitInv'
  BY <1>1, CommitFacts DEF FitInv
<1>3. n \in Nat \ {0}
  <2>1. states # <<>> /\ states \in Seq(PoolStateType)
    BY CommitFacts, StartedFacts DEF SetupInv, QuietInv, TypeOK
  <2>. QED BY <2>1, EmptySeq, LenProperties
<1>4. /\ DOMAIN states' = 1 .. n + 1 /\ DOMAIN states = 1 .. n
      /\ \A i \in 1 .. n : states'[i] = states[i]
      /\ states'[n + 1] = new
      /\ new.id = calls[c].tx /\ new.gamer = me
  BY CommitFacts
<1>5. StatesChained'
  <2>1. Len(states') = n + 1
    <3>1. states' \in Seq(PoolStateType)
      BY CommitKeepsTypes DEF TypeOK
    <3>. QED BY <1>3, <1>4, <3>1, LenProperties
  <2>2. ASSUME NEW i \in 2 .. n + 1, IsRegister(states'[i])
        PROVE  /\ Spends[states'[i].id] = states'[i - 1].outpoint
               /\ states'[i].nonce = states'[i - 1].nonce + 1
               /\ states'[i].sats = states'[i - 1].sats + Fee
    <3>1. CASE i <= n
      <4>1. i \in 2 .. n /\ states'[i] = states[i] /\ states'[i - 1] = states[i - 1]
        BY <1>3, <1>4, <2>2, <3>1
      <4>. QED BY <2>2, <4>1 DEF HistoryInv, StatesChained, IsRegister
    <3>2. CASE i = n + 1
      <4>1. states'[i] = new /\ states'[i - 1] = LastOf(states)
        BY <1>3, <1>4, <3>2 DEF LastOf
      <4>. QED BY <1>1, <1>4, <4>1 DEF Fits
    <3>. QED BY <1>3, <3>1, <3>2
  <2>. QED BY <2>1, <2>2 DEF StatesChained, IsRegister
<1>6. OneStatePerGamer'
  <2>1. /\ DOMAIN gamers' = DOMAIN gamers \cup {me}
        /\ me \notin DOMAIN gamers
    BY <1>1 DEF CommitRegister, Insert, Fits
  <2>2. ASSUME NEW i \in 1 .. n, IsRegister(states[i])
        PROVE  states[i].gamer \in DOMAIN gamers /\ states[i].gamer # me
    BY <1>4, <2>1, <2>2 DEF HistoryInv, OneStatePerGamer
  <2>3. ASSUME NEW i \in 1 .. n + 1, IsRegister(states'[i])
        PROVE  /\ states'[i].gamer \in DOMAIN gamers'
               /\ i \in 1 .. n <=> states'[i].gamer # me
    BY <1>3, <1>4, <2>1, <2>2, <2>3 DEF IsRegister
  <2>4. ASSUME NEW i \in 1 .. n + 1, NEW j \in 1 .. n + 1,
               IsRegister(states'[i]), IsRegister(states'[j]),
               states'[j].gamer = states'[i].gamer
        PROVE  i = j
    <3>1. CASE i \in 1 .. n /\ j \in 1 .. n
      BY <1>4, <2>4, <3>1 DEF HistoryInv, OneStatePerGamer, IsRegister
    <3>2. CASE i = n + 1 /\ j = n + 1
      BY <3>2
    <3>. QED BY <1>3, <2>3, <2>4, <3>1, <3>2
  <2>. QED BY <1>4, <2>3, <2>4 DEF OneStatePerGamer, IsRegister
<1>. QED BY <1>2, <1>5, <1>6 DEF HistoryInv

(* A rollback cuts the chain and removes exactly the gamers it cuts off.   *)
LEMMA RollbackKeepsHistory ==
  ASSUME Serial, TypeOK, SetupInv, HistoryInv, NEW t \in Txids, RollbackTx(t)
  PROVE  HistoryInv'
<1> DEFINE p == Position(states, t)
<1>1. /\ \A i \in DOMAIN states' : i \in DOMAIN states /\ states'[i] = states[i]
      /\ DOMAIN states' = 1 .. p - 1 /\ Len(states') = p - 1
      /\ DOMAIN states = 1 .. Len(states) /\ Len(states) \in Nat
      /\ p \in 2 .. Len(states)
  <2>1. states \in Seq(PoolStateType) /\ states' \in Seq(PoolStateType)
    BY RollbackKeepsTypes DEF TypeOK
  <2>. QED BY <2>1, RollbackFacts, LenProperties
<1>2. FitInv'
  BY DEF RollbackTx, MayCall, FitInv, InFlight
<1>3. StatesChained'
  <2>1. ASSUME NEW i \in 2 .. p - 1
        PROVE  /\ i \in 2 .. Len(states)
               /\ states'[i] = states[i] /\ states'[i - 1] = states[i - 1]
    <3>1. i \in 1 .. p - 1 /\ i - 1 \in 1 .. p - 1
      BY <1>1, <2>1
    <3>. QED BY <1>1, <2>1, <3>1
  <2>. QED BY <1>1, <2>1 DEF HistoryInv, StatesChained, IsRegister
<1>4. OneStatePerGamer'
  <2>1. DOMAIN gamers' = DOMAIN gamers \ PoppedGamers(states, t, "Register")
    BY DEF RollbackTx, RollbackGamers
  <2>2. ASSUME NEW i \in DOMAIN states', IsRegister(states[i])
        PROVE  states[i].gamer \notin PoppedGamers(states, t, "Register")
    <3>1. ASSUME NEW j \in p .. Len(states), IsRegister(states[j]),
                 states[j].gamer = states[i].gamer
          PROVE  FALSE
      <4>1. i \in DOMAIN states /\ j \in DOMAIN states /\ i # j
        BY <1>1, <2>2, <3>1
      <4>. QED BY <2>2, <3>1, <4>1 DEF HistoryInv, OneStatePerGamer
    <3>. QED BY <3>1 DEF PoppedGamers, Popped, IsRegister
  <2>. QED BY <1>1, <2>1, <2>2 DEF HistoryInv, OneStatePerGamer, IsRegister
<1>. QED BY <1>2, <1>3, <1>4 DEF HistoryInv

(* Setting up never changes a history that has a call or a registration.   *)
LEMMA SetupKeepsHistory ==
  ASSUME TypeOK, SetupInv, HistoryInv, SetupNext, UNCHANGED execVars
  PROVE  HistoryInv'
<1>1. CASE states' = states
  BY <1>1, SetupFacts DEF HistoryInv, FitInv, Fits, StatesChained, OneStatePerGamer,
     IsRegister, InFlight, LastOf
<1>2. CASE states' # states
  <2>1. /\ InFlight' = {}
        /\ \A i \in DOMAIN states' : ~IsRegister(states'[i])
    BY <1>2, SetupFacts DEF SetupInv, QuietInv, IsRegister
  <2>2. states' \in Seq(PoolStateType)
    BY SetupKeepsTypes DEF TypeOK
  <2>3. DOMAIN states' = 1 .. Len(states') /\ Len(states') \in Nat
    BY <2>2, LenProperties
  <2>. QED BY <2>1, <2>3 DEF HistoryInv, FitInv, StatesChained, OneStatePerGamer,
              IsRegister
<1>. QED BY <1>1, <1>2

(* Every step of an orchestrator that waits keeps the history a chain.     *)
LEMMA StepKeepsHistory ==
  ASSUME Serial, TypeOK, SetupInv, HistoryInv, [Next]_vars
  PROVE  HistoryInv'
<1>1. CASE SetupNext /\ UNCHANGED execVars
  BY <1>1, SetupKeepsHistory
<1>2. CASE Upgrade \/ UNCHANGED vars
  BY <1>2 DEF Upgrade, PostUpgrade, HistoryInv, FitInv, Fits, StatesChained,
     OneStatePerGamer, IsRegister, InFlight, LastOf
<1>3. ASSUME NEW c \in Calls, NEW t \in Txids,
             NEW nonce \in 0 .. Cardinality(Txids), ExecuteRegister(c, t, nonce)
      PROVE  HistoryInv'
  BY <1>3, ExecuteKeepsFit DEF HistoryInv, ExecuteRegister, StatesChained,
     OneStatePerGamer, IsRegister
<1>4. ASSUME NEW c \in Calls, SignReply(c) \/ ExecuteFails(c)
      PROVE  HistoryInv'
  BY <1>4, WaitingKeepsFit DEF HistoryInv, SignReply, ExecuteFails,
     StatesChained, OneStatePerGamer, IsRegister
<1>5. ASSUME NEW c \in Calls, CommitRegister(c) PROVE HistoryInv'
  BY <1>5, CommitKeepsHistory
<1>6. ASSUME NEW t \in Txids, RollbackTx(t) PROVE HistoryInv'
  BY <1>6, RollbackKeepsHistory
<1>. QED BY <1>1, <1>2, <1>3, <1>4, <1>5, <1>6 DEF Next, Execute

LEMMA InitHistory ==
  ASSUME Init
  PROVE  HistoryInv
<1>1. InFlight = {} /\ DOMAIN states = {} /\ Len(states) = 0
  BY EmptySeq DEF Init, SetupInit, InFlight
<1>. QED BY <1>1 DEF HistoryInv, FitInv, StatesChained, OneStatePerGamer

THEOREM HistoryInvariant ==
  ASSUME Serial
  PROVE  Spec => []HistoryInv
<1>1. Init => HistoryInv
  BY InitHistory
<1>2. Serial /\ TypeOK /\ SetupInv /\ HistoryInv /\ [Next]_vars => HistoryInv'
  BY StepKeepsHistory
<1>. QED BY <1>1, <1>2, TypeCorrect, SetupInvariant, PTL DEF Spec

(* If the orchestrator waits for each answer, the pool's history is a      *)
(* chain: each registration spends the utxo of the state before it.        *)
THEOREM SerialChain ==
  ASSUME Serial
  PROVE  Spec => []StatesChained
<1>1. HistoryInv => StatesChained
  BY DEF HistoryInv
<1>. QED BY <1>1, HistoryInvariant, PTL

(* If the orchestrator waits for each answer, no rollback removes a gamer  *)
(* whose registration stays.                                               *)
THEOREM SerialGamers ==
  ASSUME Serial
  PROVE  Spec => []OneStatePerGamer
<1>1. HistoryInv => OneStatePerGamer
  BY DEF HistoryInv
<1>. QED BY <1>1, HistoryInvariant, PTL
===============================================================================
