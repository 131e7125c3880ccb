----------------------------- MODULE LedgerProofs -----------------------------
(***************************************************************************)
(* The pool's money, for an orchestrator that waits for each answer: the   *)
(* newest utxo holds one fee per gamer, and the exchange with its calls in *)
(* flight implements the ledger of PoolLedger.                             *)
(***************************************************************************)
EXTENDS TxExecutionProofs, FiniteSums

USE DEF setupVars, execVars, vars

(* The inductive invariant.  StatesChained compares neighbours; ChainInv   *)
(* compares any two states, so that a rollback of several needs no         *)
(* induction.  OriginInv says what each state was made from, CountInv adds *)
(* to PoolHoldsFees that nobody is in GAMER before the pool is funded.     *)

ChainInv ==
  \A i, j \in DOMAIN states : i < j /\ IsRegister(states[i + 1]) =>
    /\ states[j].nonce = states[i].nonce + (j - i)
    /\ states[j].sats = states[i].sats + Fee * (j - i)

OriginInv ==
  \A i \in DOMAIN states :
    /\ IsRegister(states[i]) =>
         /\ states[i].id \in Txids
         /\ states[i].outpoint = states[i].id
         /\ states[i].gamer = Sender[states[i].id]
    /\ ~IsRegister(states[i]) =>
         states[i].nonce = 0 /\ \E u \in InitUtxos : states[i].sats = u.sats

CountInv ==
  /\ IsFiniteSet(DOMAIN gamers)
  /\ states = <<>> => DOMAIN gamers = {}
  /\ PoolHoldsFees

FundInv == ChainInv /\ OriginInv /\ CountInv

LEMMA InitFund ==
  ASSUME Init
  PROVE  FundInv
<1>1. states = <<>> /\ DOMAIN states = {} /\ DOMAIN gamers = {}
  BY DEF Init, SetupInit
<1>. QED BY <1>1, FS_EmptySet DEF FundInv, ChainInv, OriginInv, CountInv,
            PoolHoldsFees

(* The pool's first utxos come before its first gamer.                     *)
LEMMA UtxoKeepsFund ==
  ASSUME TypeOK, SetupInv, FundInv, NEW utxo \in InitUtxos, InitBtcUtxo(utxo),
         UNCHANGED execVars
  PROVE  FundInv'
<1> DEFINE n == Len(states)
           new == InitState(utxo)
<1>1. /\ n \in Nat /\ DOMAIN states = 1 .. n
      /\ DOMAIN states' = 1 .. n + 1 /\ Len(states') = n + 1
      /\ \A i \in 1 .. n : states'[i] = states[i]
      /\ states'[n + 1] = new /\ states' # <<>>
  <2>1. utxo.sats \in Nat /\ utxo.outpoint \in Outpoints
    BY SatsAssumption DEF Outpoints
  <2>2. new \in PoolStateType
    BY <2>1 DEF InitState, PoolStateType
  <2>3. states \in Seq(PoolStateType) /\ states' = Append(states, new)
    BY DEF InitBtcUtxo, TypeOK
  <2>. QED BY <2>2, <2>3, AppendFacts, AppendProperties
<1>2. /\ ~IsRegister(new) /\ new.nonce = 0 /\ new.sats = utxo.sats
      /\ utxo.sats \in Nat
  BY SatsAssumption DEF InitState, IsRegister
<1>3. \A i \in DOMAIN states : ~IsRegister(states[i])
  BY DEF SetupInv, QuietInv, InitBtcUtxo
<1>4. ChainInv'
  <2>1. \A i \in DOMAIN states' : ~IsRegister(states'[i])
    BY <1>1, <1>2, <1>3 DEF IsRegister
  <2>. QED BY <1>1, <2>1 DEF ChainInv, IsRegister
<1>5. OriginInv'
  <2>1. ASSUME NEW i \in DOMAIN states'
        PROVE  /\ ~IsRegister(states'[i]) /\ states'[i].nonce = 0
               /\ \E u \in InitUtxos : states'[i].sats = u.sats
    <3>1. CASE i \in 1 .. n
      BY <1>1, <1>3, <3>1 DEF FundInv, OriginInv, IsRegister
    <3>2. CASE i = n + 1
      BY <1>1, <1>2, <3>2 DEF IsRegister
    <3>. QED BY <1>1, <3>1, <3>2
  <2>. QED BY <2>1 DEF OriginInv, IsRegister
<1>6. CountInv'
  <2>1. DOMAIN gamers = {} /\ UNCHANGED gamers
    <3>1. CASE states = <<>>
      BY <3>1 DEF FundInv, CountInv
    <3>2. CASE states # <<>>
      <4>1. n \in DOMAIN states
        BY <3>2, <1>1, EmptySeq DEF TypeOK
      <4>2. LastOf(states).nonce = 0
        BY <4>1, <1>3 DEF FundInv, OriginInv, LastOf
      <4>. QED BY <3>2, <4>2, FS_EmptySet DEF FundInv, CountInv, PoolHoldsFees
    <3>. QED BY <3>1, <3>2
  <2>2. Cardinality(DOMAIN gamers) = 0 /\ IsFiniteSet(DOMAIN gamers)
    BY <2>1, FS_EmptySet
  <2>3. LastOf(states)' = new
    BY <1>1 DEF LastOf
  <2>4. new.sats = utxo.sats + Fee * 0
    BY <1>2, SatsAssumption
  <2>. QED BY <1>1, <1>2, <2>1, <2>2, <2>3, <2>4 DEF CountInv, PoolHoldsFees
<1>. QED BY <1>4, <1>5, <1>6 DEF FundInv

(* A registration that fits adds one to the nonce, one fee and one gamer.  *)
LEMMA CommitKeepsFund ==
  ASSUME TypeOK, SetupInv, HistoryInv, FundInv, NEW c \in Calls, CommitRegister(c)
  PROVE  FundInv'
<1> DEFINE n == Len(states)
           new == calls[c].state
           me == Sender[calls[c].tx]
<1>1. /\ n \in Nat \ {0} /\ DOMAIN states = 1 .. n
      /\ DOMAIN states' = 1 .. n + 1 /\ Len(states') = n + 1
      /\ \A i \in 1 .. n : states'[i] = states[i]
      /\ states'[n + 1] = new /\ states' # <<>>
      /\ states # <<>>
  <2>1. states # <<>> /\ states \in Seq(PoolStateType)
    BY CommitFacts, StartedFacts DEF SetupInv, QuietInv, TypeOK
  <2>2. states' \in Seq(PoolStateType)
    BY CommitKeepsTypes DEF TypeOK
  <2>. QED BY <2>1, <2>2, CommitFacts, EmptySeq, LenProperties
<1>2. /\ IsRegister(new) /\ new.id = calls[c].tx /\ new.outpoint = new.id
      /\ new.gamer = me /\ calls[c].tx \in Txids
  BY CommitFacts
<1>3. /\ new.nonce = LastOf(states).nonce + 1
      /\ new.sats = LastOf(states).sats + Fee
      /\ me \notin DOMAIN gamers
  BY CommitFacts DEF HistoryInv, FitInv, Fits
<1>4. \A i \in 1 .. n : states[i].nonce \in Nat /\ states[i].sats \in Nat
  <2>1. \A i \in 1 .. n : states[i] \in PoolStateType
    BY ElementOfSeq DEF TypeOK
  <2>. QED BY <2>1 DEF PoolStateType
<1>5. Fee \in Nat
  BY SatsAssumption
<1>6. ChainInv'
  <2>1. ASSUME NEW i \in 1 .. n + 1, NEW j \in 1 .. n + 1, i < j,
               IsRegister(states'[i + 1])
        PROVE  /\ states'[j].nonce = states'[i].nonce + (j - i)
               /\ states'[j].sats = states'[i].sats + Fee * (j - i)
    <3>1. CASE j <= n
      <4>1. i \in 1 .. n /\ j \in 1 .. n /\ i + 1 \in 1 .. n
        BY <1>1, <2>1, <3>1
      <4>. QED BY <1>1, <2>1, <4>1 DEF FundInv, ChainInv, IsRegister
    <3>2. CASE j = n + 1 /\ i = n
      BY <1>1, <1>3, <1>4, <1>5, <3>2 DEF LastOf
    <3>3. CASE j = n + 1 /\ i < n
      <4>1. i \in 1 .. n /\ n \in 1 .. n /\ i + 1 \in 1 .. n
        BY <1>1, <2>1, <3>3
      <4>2. /\ states[n].nonce = states[i].nonce + (n - i)
            /\ states[n].sats = states[i].sats + Fee * (n - i)
        BY <1>1, <2>1, <3>3, <4>1 DEF FundInv, ChainInv, IsRegister
      <4>3. /\ states'[j].nonce = states[n].nonce + 1
            /\ states'[j].sats = states[n].sats + Fee
            /\ states'[i] = states[i]
        BY <1>1, <1>3, <3>3, <4>1 DEF LastOf
      <4>4. Fee * (n - i) + Fee = Fee * (j - i)
        BY <1>1, <1>5, <3>3, <4>1
      <4>5. Fee * (n - i) \in Int
        BY <1>1, <1>5, <4>1
      <4>6. states[i].nonce \in Nat /\ states[i].sats \in Nat
        BY <1>4, <4>1
      <4>7. states'[j].nonce = states'[i].nonce + (j - i)
        <5>1. states'[j].nonce = (states[i].nonce + (n - i)) + 1
          BY <4>2, <4>3
        <5>2. ASSUME NEW x \in Int PROVE (x + (n - i)) + 1 = x + (j - i)
          <6>1. n \in Int /\ i \in Int /\ j = n + 1
            BY <1>1, <3>3, <4>1
          <6>. HIDE DEF n
          <6>. QED BY <6>1
        <5>3. (states[i].nonce + (n - i)) + 1 = states[i].nonce + (j - i)
          <6>1. states[i].nonce \in Int
            BY <4>6
          <6>. QED BY <5>2, <6>1, Zenon
        <5>. QED BY <4>3, <5>1, <5>3, Zenon
      <4>8. states'[j].sats = states'[i].sats + Fee * (j - i)
        <5>1. states'[j].sats = (states[i].sats + Fee * (n - i)) + Fee
          BY <4>2, <4>3
        <5>2. ASSUME NEW x \in Int, NEW y \in Int, y = Fee * (n - i)
              PROVE  (x + y) + Fee = x + Fee * (j - i)
          <6>1. y + Fee = Fee * (j - i)
            BY <4>4, <5>2
          <6>2. (x + y) + Fee = x + (y + Fee)
            BY <1>5
          <6>. QED BY <6>1, <6>2
        <5>3. (states[i].sats + Fee * (n - i)) + Fee = states[i].sats + Fee * (j - i)
          <6>1. states[i].sats \in Int
            BY <4>6
          <6>. QED BY <4>5, <5>2, <6>1, Zenon
        <5>. QED BY <4>3, <5>1, <5>3, Zenon
      <4>. QED BY <4>7, <4>8
    <3>4. \/ j <= n
          \/ j = n + 1 /\ i = n
          \/ j = n + 1 /\ i < n
      <4>1. n \in Nat /\ i \in 1 .. n + 1 /\ j \in 1 .. n + 1 /\ i < j
        BY <1>1, <2>1
      <4>. HIDE DEF n
      <4>. QED BY <4>1
    <3>. QED BY <3>1, <3>2, <3>3, <3>4
  <2>. QED BY <1>1, <2>1 DEF ChainInv, IsRegister
<1>7. OriginInv'
  <2>1. ASSUME NEW i \in 1 .. n + 1
        PROVE  /\ IsRegister(states'[i]) =>
                    /\ states'[i].id \in Txids
                    /\ states'[i].outpoint = states'[i].id
                    /\ states'[i].gamer = Sender[states'[i].id]
               /\ ~IsRegister(states'[i]) =>
                    /\ states'[i].nonce = 0
                    /\ \E u \in InitUtxos : states'[i].sats = u.sats
    <3>1. CASE i \in 1 .. n
      BY <1>1, <3>1 DEF FundInv, OriginInv, IsRegister
    <3>2. CASE i = n + 1
      BY <1>1, <1>2, <3>2
    <3>. QED BY <1>1, <3>1, <3>2
  <2>. QED BY <1>1, <2>1 DEF OriginInv, IsRegister
<1>8. CountInv'
  <2>1. DOMAIN gamers' = DOMAIN gamers \cup {me}
    BY DEF CommitRegister, Insert
  <2>2. IsFiniteSet(DOMAIN gamers)
    BY DEF FundInv, CountInv
  <2>3. /\ IsFiniteSet(DOMAIN gamers')
        /\ Cardinality(DOMAIN gamers') = Cardinality(DOMAIN gamers) + 1
        /\ Cardinality(DOMAIN gamers) \in Nat
    BY <1>3, <2>1, <2>2, FS_AddElement, FS_CardinalityType
  <2>4. LastOf(states)' = new
    BY <1>1 DEF LastOf
  <2>5. LastOf(states).nonce = Cardinality(DOMAIN gamers)
    BY <1>1 DEF FundInv, CountInv, PoolHoldsFees
  <2>6. PICK u \in InitUtxos :
          LastOf(states).sats = u.sats + Fee * Cardinality(DOMAIN gamers)
    BY <1>1 DEF FundInv, CountInv, PoolHoldsFees
  <2>7. u.sats \in Nat
    BY SatsAssumption
  <2>8. new.sats = u.sats + Fee * Cardinality(DOMAIN gamers')
    <3>1. Fee * Cardinality(DOMAIN gamers) + Fee = Fee * Cardinality(DOMAIN gamers')
      BY <1>5, <2>3
    <3>2. Fee * Cardinality(DOMAIN gamers) \in Nat
      BY <1>5, <2>3
    <3>. QED BY <1>3, <1>5, <2>6, <2>7, <3>1, <3>2
  <2>. QED BY <1>1, <1>3, <2>3, <2>4, <2>5, <2>8 DEF CountInv, PoolHoldsFees
<1>. QED BY <1>6, <1>7, <1>8 DEF FundInv

(* A rollback takes as many gamers out of GAMER as states off the history, *)
(* for each registration it undoes has a gamer of its own.                 *)
LEMMA RollbackMembers ==
  ASSUME TypeOK, SetupInv, HistoryInv, IsFiniteSet(DOMAIN gamers),
         NEW t \in Txids, RollbackTx(t)
  PROVE  LET p == Position(states, t)
             n == Len(states)
         IN  /\ n \in Nat /\ p \in 2 .. n
             /\ DOMAIN states = 1 .. n /\ DOMAIN states' = 1 .. p - 1
             /\ Len(states') = p - 1
             /\ \A i \in 1 .. p - 1 : states'[i] = states[i]
             /\ \A i \in p .. n : IsRegister(states[i])
             /\ DOMAIN gamers' = DOMAIN gamers \ {states[i].gamer : i \in p .. n}
             /\ IsFiniteSet(DOMAIN gamers')
             /\ Cardinality(DOMAIN gamers') \in Nat
             /\ Cardinality(DOMAIN gamers) =
                  Cardinality(DOMAIN gamers') + (n - p + 1)
<1> DEFINE p == Position(states, t)
           n == Len(states)
           gone == {states[i].gamer : i \in p .. n}
<1>1. /\ n \in Nat /\ p \in 2 .. n
      /\ DOMAIN states = 1 .. n /\ DOMAIN states' = 1 .. p - 1
      /\ Len(states') = p - 1
      /\ \A i \in 1 .. p - 1 : states'[i] = states[i]
  <2>1. states \in Seq(PoolStateType) /\ states' \in Seq(PoolStateType)
    BY RollbackKeepsTypes DEF TypeOK
  <2>. QED BY <2>1, RollbackFacts, LenProperties
<1>2. \A i \in p .. n : i \in 1 .. n
  BY <1>1
<1>3. \A i \in p .. n : IsRegister(states[i])
  <2>1. ASSUME NEW i \in p .. n PROVE states[i].action = "Register"
    <3>1. states[i] \in PoolStateType
      BY <1>2, ElementOfSeq DEF TypeOK
    <3>2. states[i].action # "Init"
      BY DEF RollbackTx, CanRollback, Popped
    <3>. QED BY <3>1, <3>2 DEF PoolStateType
  <2>. QED BY <2>1 DEF IsRegister
<1>4. PoppedGamers(states, t, "Register") = gone
  BY <1>3 DEF PoppedGamers, Popped, IsRegister
<1>5. DOMAIN gamers' = DOMAIN gamers \ gone
  BY <1>4 DEF RollbackTx, RollbackGamers
<1>6. gone \subseteq DOMAIN gamers
  BY <1>1, <1>2, <1>3 DEF HistoryInv, OneStatePerGamer
<1>7. IsFiniteSet(gone) /\ Cardinality(gone) = n - p + 1
  <2> DEFINE f == [i \in p .. n |-> states[i].gamer]
  <2>1. f \in Bijection(p .. n, gone)
    <3>1. ASSUME NEW i \in p .. n, NEW j \in p .. n, f[i] = f[j] PROVE i = j
      <4>1. i \in DOMAIN states /\ j \in DOMAIN states
        BY <1>1, <1>2
      <4>2. states[j].gamer = states[i].gamer
        BY <3>1
      <4>. QED BY <1>3, <4>1, <4>2 DEF HistoryInv, OneStatePerGamer
    <3>2. f \in [p .. n -> gone]
      OBVIOUS
    <3>3. \A g \in gone : \E i \in p .. n : f[i] = g
      OBVIOUS
    <3>. QED BY <3>1, <3>2, <3>3 DEF Bijection, Injection, Surjection, IsInjective
  <2>2. ExistsBijection(p .. n, gone)
    BY <2>1 DEF ExistsBijection
  <2>3. IsFiniteSet(p .. n) /\ Cardinality(p .. n) = n - p + 1
    <3>1. p \in Int /\ n \in Int /\ ~(p > n)
      BY <1>1
    <3>. HIDE DEF p, n
    <3>. QED BY <3>1, FS_Interval
  <2>. HIDE DEF gone, p, n
  <2>. QED BY <2>2, <2>3, FS_Bijection
<1>8. /\ IsFiniteSet(DOMAIN gamers') /\ Cardinality(DOMAIN gamers') \in Nat
      /\ Cardinality(DOMAIN gamers') = Cardinality(DOMAIN gamers) - (n - p + 1)
      /\ Cardinality(DOMAIN gamers) \in Nat
  <2>1. DOMAIN gamers \cap gone = gone
    BY <1>6
  <2>2. n - p + 1 \in Int
    BY <1>1
  <2>. HIDE DEF gone, p, n
  <2>3. /\ IsFiniteSet(DOMAIN gamers \ gone)
        /\ Cardinality(DOMAIN gamers \ gone) =
             Cardinality(DOMAIN gamers) - Cardinality(DOMAIN gamers \cap gone)
    BY FS_Difference
  <2>4. /\ Cardinality(DOMAIN gamers \ gone) \in Nat
        /\ Cardinality(DOMAIN gamers) \in Nat
    BY <2>3, FS_CardinalityType
  <2>. QED BY <1>5, <1>7, <2>1, <2>3, <2>4
<1>9. Cardinality(DOMAIN gamers) = Cardinality(DOMAIN gamers') + (n - p + 1)
  <2>1. n - p + 1 \in Int
    BY <1>1
  <2>. HIDE DEF p, n
  <2>. QED BY <1>8, <2>1
<1>. QED BY <1>1, <1>3, <1>5, <1>8, <1>9

LEMMA RollbackKeepsFund ==
  ASSUME TypeOK, SetupInv, HistoryInv, FundInv, NEW t \in Txids, RollbackTx(t)
  PROVE  FundInv'
<1> DEFINE p == Position(states, t)
           n == Len(states)
<1>1. /\ n \in Nat /\ p \in 2 .. n
      /\ DOMAIN states = 1 .. n /\ DOMAIN states' = 1 .. p - 1
      /\ Len(states') = p - 1
      /\ \A i \in 1 .. p - 1 : states'[i] = states[i]
      /\ \A i \in p .. n : IsRegister(states[i])
      /\ IsFiniteSet(DOMAIN gamers')
      /\ Cardinality(DOMAIN gamers') \in Nat
      /\ Cardinality(DOMAIN gamers) = Cardinality(DOMAIN gamers') + (n - p + 1)
  BY RollbackMembers DEF FundInv, CountInv
<1>2. states # <<>> /\ states' # <<>>
  BY RollbackFacts
<1>3. ChainInv'
  <2>1. ASSUME NEW i \in 1 .. p - 1, NEW j \in 1 .. p - 1, i < j
        PROVE  i \in 1 .. n /\ j \in 1 .. n /\ i + 1 \in 1 .. p - 1
    BY <1>1, <2>1
  <2>2. ASSUME NEW i \in 1 .. p - 1, NEW j \in 1 .. p - 1, i < j,
               IsRegister(states'[i + 1])
        PROVE  /\ states'[j].nonce = states'[i].nonce + (j - i)
               /\ states'[j].sats = states'[i].sats + Fee * (j - i)
    <3>1. /\ i \in DOMAIN states /\ j \in DOMAIN states
          /\ states'[i + 1] = states[i + 1]
          /\ states'[i] = states[i] /\ states'[j] = states[j]
      BY <1>1, <2>1, <2>2
    <3>. QED BY <2>2, <3>1 DEF FundInv, ChainInv
  <2>. QED BY <1>1, <2>2 DEF ChainInv, IsRegister
<1>4. OriginInv'
  <2>1. ASSUME NEW i \in 1 .. p - 1
        PROVE  i \in DOMAIN states /\ states'[i] = states[i]
    BY <1>1, <2>1
  <2>. QED BY <1>1, <2>1 DEF FundInv, OriginInv, IsRegister
<1>5. /\ states[n].nonce = states[p - 1].nonce + (n - (p - 1))
      /\ states[n].sats = states[p - 1].sats + Fee * (n - (p - 1))
  <2>1. /\ p - 1 \in 1 .. n /\ n \in 1 .. n /\ p - 1 < n
        /\ (p - 1) + 1 = p /\ p \in p .. n
    BY <1>1
  <2>. HIDE DEF p, n
  <2>. QED BY <1>1, <2>1 DEF FundInv, ChainInv
<1>6. states[p - 1].nonce \in Nat /\ states[p - 1].sats \in Nat
  <2>1. p - 1 \in 1 .. n
    BY <1>1
  <2>2. states[p - 1] \in PoolStateType
    BY <2>1, ElementOfSeq DEF TypeOK
  <2>. QED BY <2>2 DEF PoolStateType
<1>7. states[n].nonce = Cardinality(DOMAIN gamers)
  BY <1>2 DEF FundInv, CountInv, PoolHoldsFees, LastOf
<1>8. PICK u \in InitUtxos : states[n].sats = u.sats + Fee * Cardinality(DOMAIN gamers)
  BY <1>2 DEF FundInv, CountInv, PoolHoldsFees, LastOf
<1>9. LastOf(states)' = states[p - 1]
  <2>1. p - 1 \in 1 .. p - 1
    BY <1>1
  <2>. QED BY <1>1, <2>1 DEF LastOf
<1>10. states[p - 1].nonce = Cardinality(DOMAIN gamers')
  <2>. HIDE DEF p, n
  <2>. QED BY <1>1, <1>5, <1>6, <1>7
<1>11. states[p - 1].sats = u.sats + Fee * Cardinality(DOMAIN gamers')
  <2> DEFINE m == n - (p - 1)
             k == Cardinality(DOMAIN gamers')
  <2>1. m \in Nat /\ k \in Nat /\ Cardinality(DOMAIN gamers) = k + m
    BY <1>1
  <2>2. u.sats \in Nat /\ Fee \in Nat
    BY SatsAssumption
  <2>3. states[p - 1].sats + Fee * m = u.sats + Fee * (k + m)
    BY <1>5, <1>8, <2>1
  <2>. HIDE DEF m, k, p, n
  <2>4. Fee * (k + m) = Fee * k + Fee * m /\ Fee * k \in Nat /\ Fee * m \in Nat
    BY <2>1, <2>2
  <2>5. states[p - 1].sats = u.sats + Fee * k
    BY <1>6, <2>2, <2>3, <2>4
  <2>. QED BY <2>5 DEF k
<1>12. CountInv'
  BY <1>1, <1>2, <1>9, <1>10, <1>11 DEF CountInv, PoolHoldsFees
<1>. QED BY <1>3, <1>4, <1>12 DEF FundInv

(* Every step keeps the pool funded.                                       *)
LEMMA StepKeepsFund ==
  ASSUME Serial, TypeOK, SetupInv, HistoryInv, FundInv, [Next]_vars
  PROVE  FundInv'
<1>1. ASSUME NEW utxo \in InitUtxos, InitBtcUtxo(utxo), UNCHANGED execVars
      PROVE  FundInv'
  BY <1>1, UtxoKeepsFund
<1>2. ASSUME NEW c \in Calls, CommitRegister(c) PROVE FundInv'
  BY <1>2, CommitKeepsFund
<1>3. ASSUME NEW t \in Txids, RollbackTx(t) PROVE FundInv'
  BY <1>3, RollbackKeepsFund
<1>4. ASSUME UNCHANGED <<states, gamers>> PROVE FundInv'
  BY <1>4 DEF FundInv, ChainInv, OriginInv, CountInv, PoolHoldsFees, IsRegister,
     LastOf
<1>. QED BY <1>1, <1>2, <1>3, <1>4 DEF Next, SetupNext, InitKeyCall, InitKeyReply,
            InitKeyFails, Upgrade, PostUpgrade, Execute, ExecuteRegister, SignReply,
            ExecuteFails

THEOREM FundInvariant ==
  ASSUME Serial
  PROVE  Spec => []FundInv
<1>1. Init => FundInv
  BY InitFund
<1>2. Serial /\ TypeOK /\ SetupInv /\ HistoryInv /\ FundInv /\ [Next]_vars => FundInv'
  BY StepKeepsFund
<1>. QED BY <1>1, <1>2, TypeCorrect, SetupInvariant, HistoryInvariant, PTL DEF Spec

(* If the orchestrator waits for each answer, the pool's utxo holds what   *)
(* the first one held and a fee for each gamer in GAMER.                   *)
THEOREM SerialFees ==
  ASSUME Serial
  PROVE  Spec => []PoolHoldsFees
<1>1. FundInv => PoolHoldsFees
  BY DEF FundInv, CountInv
<1>. QED BY <1>1, FundInvariant, PTL

-------------------------------------------------------------------------------
(* The refinement.  FixedLength and PendingStates as operators on any      *)
(* history, so that they can be taken of the one before a step and of the  *)
(* one after it.                                                           *)

Fixed(ss) == Max({0} \cup {i \in DOMAIN ss : i = 1 \/ ~IsRegister(ss[i])})

PendingIds(ss) == [i \in 1 .. Len(ss) - Fixed(ss) |-> ss[Fixed(ss) + i].id]

\* After k come registrations only, and k is not one that could be reverted.
SplitsAt(ss, k) ==
  /\ k \in 0 .. Len(ss)
  /\ k \notin {0, 1} => ~IsRegister(ss[k])
  /\ \A i \in k + 1 .. Len(ss) : i # 1 /\ IsRegister(ss[i])

(* A history splits in one place, at Fixed.                                *)
LEMMA FixedSplits ==
  ASSUME NEW ss \in Seq(PoolStateType)
  PROVE  /\ Len(ss) \in Nat /\ DOMAIN ss = 1 .. Len(ss)
         /\ SplitsAt(ss, Fixed(ss))
         /\ \A k : SplitsAt(ss, k) => Fixed(ss) = k
<1> DEFINE n == Len(ss)
           S == {0} \cup {i \in DOMAIN ss : i = 1 \/ ~IsRegister(ss[i])}
<1>1. n \in Nat /\ DOMAIN ss = 1 .. n
  BY LenProperties
<1>2. S \in SUBSET (0 .. n) /\ S # {}
  BY <1>1
<1>3. IsFiniteSet(S) /\ S \in SUBSET Int
  <2>1. IsFiniteSet(0 .. n)
    BY <1>1, FS_Interval
  <2>. QED BY <1>1, <1>2, <2>1, FS_Subset
<1>4. Max(S) \in S /\ \A y \in S : y <= Max(S)
  <2>. HIDE DEF S
  <2>. QED BY <1>2, <1>3, MaxIsGreatest
<1>5. Fixed(ss) = Max(S)
  BY DEF Fixed
<1>6. SplitsAt(ss, Fixed(ss))
  <2>1. Fixed(ss) \in 0 .. n
    BY <1>2, <1>4, <1>5
  <2>2. Fixed(ss) \notin {0, 1} => ~IsRegister(ss[Fixed(ss)])
    BY <1>4, <1>5
  <2>3. ASSUME NEW i \in Fixed(ss) + 1 .. n PROVE i # 1 /\ IsRegister(ss[i])
    <3>1. i \in 1 .. n /\ ~(i <= Fixed(ss))
      BY <1>1, <2>1
    <3>. QED BY <1>1, <1>4, <1>5, <3>1
  <2>. QED BY <2>1, <2>2, <2>3 DEF SplitsAt
<1>7. ASSUME NEW k, SplitsAt(ss, k) PROVE Fixed(ss) = k
  <2>1. k \in 0 .. n /\ Fixed(ss) \in 0 .. n
    BY <1>6, <1>7 DEF SplitsAt
  <2>2. ~(Fixed(ss) < k)
    <3>1. Fixed(ss) < k => k \in Fixed(ss) + 1 .. n /\ k \notin {0}
      BY <1>1, <2>1
    <3>. QED BY <1>6, <1>7, <3>1 DEF SplitsAt
  <2>3. ~(k < Fixed(ss))
    <3>1. k < Fixed(ss) => Fixed(ss) \in k + 1 .. n /\ Fixed(ss) # 0
      BY <1>1, <2>1
    <3>. QED BY <1>6, <1>7, <3>1 DEF SplitsAt
  <2>. QED BY <1>1, <2>1, <2>2, <2>3
<1>. QED BY <1>1, <1>6, <1>7

LEMMA PendingFacts ==
  ASSUME NEW ss \in Seq(PoolStateType)
  PROVE  LET P == SubSeq(ss, Fixed(ss) + 1, Len(ss))
         IN  /\ [i \in DOMAIN P |-> P[i].id] = PendingIds(ss)
             /\ PendingIds(ss) \in Seq(Txids \cup {NoTx})
             /\ Len(PendingIds(ss)) = Len(ss) - Fixed(ss)
             /\ Len(ss) - Fixed(ss) \in Nat
<1> DEFINE n == Len(ss)
           f == Fixed(ss)
           P == SubSeq(ss, f + 1, n)
<1>1. n \in Nat /\ f \in 0 .. n
  BY FixedSplits DEF SplitsAt
<1>2. \A i \in f + 1 .. n : ss[i] \in PoolStateType
  BY <1>1, ElementOfSeq
<1>3. /\ P \in Seq(PoolStateType)
      /\ Len(P) = n - f
      /\ \A i \in 1 .. n - f : P[i] = ss[f + i]
  <2>1. f + 1 \in Int /\ n \in Int
    BY <1>1
  <2>2. /\ P \in Seq(PoolStateType)
        /\ Len(P) = IF f + 1 <= n THEN n - (f + 1) + 1 ELSE 0
        /\ \A i \in 1 .. n - (f + 1) + 1 : P[i] = ss[f + 1 + i - 1]
    <3>. HIDE DEF n, f
    <3>. QED BY <1>2, <2>1, SubSeqProperties
  <2>. HIDE DEF P, n, f
  <2>3. Len(P) = n - f /\ n - (f + 1) + 1 = n - f
    BY <1>1, <2>2
  <2>4. ASSUME NEW i \in 1 .. n - f PROVE f + 1 + i - 1 = f + i
    BY <1>1
  <2>. QED BY <2>2, <2>3, <2>4
<1>4. DOMAIN P = 1 .. n - f
  BY <1>3, LenProperties
<1>5. [i \in DOMAIN P |-> P[i].id] = PendingIds(ss)
  BY <1>3, <1>4 DEF PendingIds
<1>6. \A i \in 1 .. n - f : f + i \in 1 .. n
  BY <1>1
<1>7. \A i \in 1 .. n - f : ss[f + i].id \in Txids \cup {NoTx}
  <2>1. \A i \in 1 .. n - f : ss[f + i] \in PoolStateType
    BY <1>6, ElementOfSeq
  <2>. QED BY <2>1 DEF PoolStateType
<1>8. n - f \in Nat
  BY <1>1
<1>9. /\ PendingIds(ss) \in Seq(Txids \cup {NoTx})
      /\ Len(PendingIds(ss)) = n - f
  BY <1>7, <1>8 DEF PendingIds
<1>. QED BY <1>5, <1>8, <1>9

(* The ledger's variables, in terms of the history.                        *)
LedgerPending == [i \in DOMAIN PendingStates |-> PendingStates[i].id]

LEMMA LedgerPendingIs ==
  /\ TypeOK => LedgerPending = PendingIds(states)
  /\ TypeOK' => LedgerPending' = PendingIds(states')
<1>1. PendingStates = SubSeq(states, Fixed(states) + 1, Len(states))
  BY DEF PendingStates, FixedLength, Fixed
<1>2. PendingStates' = SubSeq(states', Fixed(states') + 1, Len(states'))
  BY DEF PendingStates, FixedLength, Fixed, IsRegister
<1>. QED BY <1>1, <1>2, PendingFacts DEF LedgerPending, TypeOK

(* init_btc_utxo funds the ledger while nothing is pending.                *)
LEMMA UtxoIsFund ==
  ASSUME TypeOK, SetupInv, FundInv, NEW utxo \in InitUtxos, InitBtcUtxo(utxo),
         UNCHANGED execVars
  PROVE  Ledger!Fund(utxo)
<1> DEFINE n == Len(states)
<1>1. /\ states \in Seq(PoolStateType) /\ states' \in Seq(PoolStateType)
      /\ DOMAIN states = 1 .. n /\ n \in Nat
      /\ DOMAIN states' = 1 .. n + 1 /\ Len(states') = n + 1
      /\ \A i \in 1 .. n : states'[i] = states[i]
      /\ states'[n + 1] = InitState(utxo) /\ states' # <<>>
  <2>1. utxo.sats \in Nat /\ utxo.outpoint \in Outpoints
    BY SatsAssumption DEF Outpoints
  <2>2. InitState(utxo) \in PoolStateType
    BY <2>1 DEF InitState, PoolStateType
  <2>3. states \in Seq(PoolStateType) /\ states' = Append(states, InitState(utxo))
    BY DEF InitBtcUtxo, TypeOK
  <2>. QED BY <2>2, <2>3, AppendFacts, AppendProperties
<1>2. TypeOK'
  BY SetupKeepsTypes DEF SetupNext
<1>3. \A i \in 1 .. n : ~IsRegister(states[i])
  BY <1>1 DEF SetupInv, QuietInv, InitBtcUtxo
<1>4. ~IsRegister(InitState(utxo))
  BY DEF InitState, IsRegister
<1>5. SplitsAt(states, n)
  BY <1>1, <1>3 DEF SplitsAt
<1>6. SplitsAt(states', n + 1)
  BY <1>1, <1>4 DEF SplitsAt, IsRegister
<1>7. Fixed(states) = n /\ Fixed(states') = n + 1
  BY <1>1, <1>5, <1>6, FixedSplits
<1>8. Len(PendingIds(states)) = 0 /\ Len(PendingIds(states')) = 0
  BY <1>1, <1>7, PendingFacts
<1>9. PendingIds(states) = <<>> /\ PendingIds(states') = <<>>
  <2>1. /\ PendingIds(states) \in Seq(Txids \cup {NoTx})
        /\ PendingIds(states') \in Seq(Txids \cup {NoTx})
    BY <1>1, PendingFacts
  <2>. QED BY <1>8, <2>1, EmptySeq
<1>10. LedgerPending = <<>> /\ LedgerPending' = <<>>
  BY <1>2, <1>9, LedgerPendingIs
<1>11. DOMAIN gamers = {} /\ UNCHANGED gamers
  <2>1. CASE states = <<>>
    BY <2>1 DEF FundInv, CountInv
  <2>2. CASE states # <<>>
    <3>1. n \in DOMAIN states
      BY <1>1, <2>2, EmptySeq
    <3>2. LastOf(states).nonce = 0
      BY <1>1, <3>1, <1>3 DEF FundInv, OriginInv, LastOf
    <3>. QED BY <2>2, <3>2, FS_EmptySet DEF FundInv, CountInv, PoolHoldsFees
  <2>. QED BY <2>1, <2>2
<1>12. LastOf(states)' = InitState(utxo)
  BY <1>1 DEF LastOf
<1>13. /\ InitState(utxo).outpoint = utxo.outpoint
       /\ InitState(utxo).sats = utxo.sats
  BY DEF InitState
<1>. QED BY <1>1, <1>10, <1>11, <1>12, <1>13 DEF Ledger!Fund, LedgerPending

(* The end of execute_tx is the whole registration.                        *)
LEMMA CommitIsRegister ==
  ASSUME TypeOK, SetupInv, HistoryInv, NEW c \in Calls, CommitRegister(c),
         NEW t \in Txids, calls[c].tx = t
  PROVE  Ledger!Register(t)
<1> DEFINE n == Len(states)
           new == calls[c].state
           f == Fixed(states)
<1>1. /\ states \in Seq(PoolStateType) /\ states' \in Seq(PoolStateType)
      /\ n \in Nat \ {0} /\ DOMAIN states = 1 .. n
      /\ DOMAIN states' = 1 .. n + 1 /\ Len(states') = n + 1
      /\ \A i \in 1 .. n : states'[i] = states[i]
      /\ states'[n + 1] = new /\ states' # <<>> /\ states # <<>>
  <2>1. states # <<>> /\ states \in Seq(PoolStateType)
    BY CommitFacts, StartedFacts DEF SetupInv, QuietInv, TypeOK
  <2>2. states' \in Seq(PoolStateType)
    BY CommitKeepsTypes DEF TypeOK
  <2>. QED BY <2>1, <2>2, CommitFacts, EmptySeq, LenProperties
<1>2. /\ IsRegister(new) /\ new.id = t /\ new.outpoint = t
  BY CommitFacts
<1>3. Fits(new, t)
  BY CommitFacts DEF HistoryInv, FitInv
<1>4. TypeOK'
  BY CommitKeepsTypes
<1>5. f \in 0 .. n /\ SplitsAt(states, f)
  BY <1>1, FixedSplits DEF SplitsAt
<1>6. SplitsAt(states', f)
  <2>1. f \in 0 .. n + 1
    BY <1>1, <1>5
  <2>2. f \notin {0, 1} => ~IsRegister(states'[f])
    BY <1>1, <1>5 DEF SplitsAt
  <2>3. ASSUME NEW i \in f + 1 .. n + 1 PROVE i # 1 /\ IsRegister(states'[i])
    <3>1. CASE i = n + 1
      BY <1>1, <1>2, <3>1
    <3>2. CASE i # n + 1
      <4>1. i \in f + 1 .. n /\ i \in 1 .. n
        BY <1>1, <1>5, <2>3, <3>2
      <4>. QED BY <1>1, <1>5, <4>1 DEF SplitsAt
    <3>. QED BY <3>1, <3>2
  <2>. HIDE DEF f, n
  <2>. QED BY <1>1, <2>1, <2>2, <2>3 DEF SplitsAt
<1>7. Fixed(states') = f
  BY <1>1, <1>6, FixedSplits
<1>8. PendingIds(states') = Append(PendingIds(states), t)
  <2> DEFINE old == PendingIds(states)
             T == Txids \cup {NoTx}
             m == n - f
  <2>1. /\ old \in Seq(T) /\ Len(old) = m /\ m \in Nat
        /\ PendingIds(states') \in Seq(T)
        /\ Len(PendingIds(states')) = (n + 1) - f
    BY <1>1, <1>7, PendingFacts
  <2>2. (n + 1) - f = m + 1
    BY <1>1, <1>5
  <2>3. /\ Append(old, t) \in Seq(T) /\ Len(Append(old, t)) = m + 1
        /\ \A i \in 1 .. m : Append(old, t)[i] = old[i]
        /\ Append(old, t)[m + 1] = t
    <3>1. t \in T
      OBVIOUS
    <3>. HIDE DEF old, T, m
    <3>. QED BY <2>1, <3>1, AppendProperties
  <2>4. ASSUME NEW i \in 1 .. m + 1
        PROVE  PendingIds(states')[i] = Append(old, t)[i]
    <3>1. PendingIds(states')[i] = states'[f + i].id
      BY <1>1, <1>7, <2>2 DEF PendingIds
    <3>2. CASE i = m + 1
      <4>1. f + i = n + 1
        BY <1>1, <1>5, <3>2
      <4>. QED BY <1>1, <1>2, <2>3, <3>1, <3>2, <4>1
    <3>3. CASE i \in 1 .. m
      <4>1. f + i \in 1 .. n
        BY <1>1, <1>5, <3>3
      <4>2. old[i] = states[f + i].id
        BY <3>3 DEF PendingIds
      <4>. QED BY <1>1, <2>3, <3>1, <3>3, <4>1, <4>2
    <3>4. i = m + 1 \/ i \in 1 .. m
      <4>. HIDE DEF m
      <4>. QED BY <2>1, <2>4
    <3>. QED BY <3>2, <3>3, <3>4
  <2>5. /\ Len(PendingIds(states')) = Len(Append(old, t))
        /\ \A i \in 1 .. Len(PendingIds(states')) :
             PendingIds(states')[i] = Append(old, t)[i]
    <3>. HIDE DEF old, T, m, n, f
    <3>. QED BY <2>1, <2>2, <2>3, <2>4
  <2>6. PendingIds(states') = Append(old, t)
    <3>. HIDE DEF old, T
    <3>. QED BY <2>1, <2>3, <2>5, SeqEqual
  <2>. QED BY <2>6
<1>9. LedgerPending' = Append(LedgerPending, t)
  BY <1>4, <1>8, LedgerPendingIs
<1>10. LastOf(states)' = new
  BY <1>1 DEF LastOf
<1>11. DOMAIN gamers' = DOMAIN gamers \cup {Sender[t]}
  BY DEF CommitRegister, Insert
<1>. QED BY <1>1, <1>2, <1>3, <1>9, <1>10, <1>11
         DEF Ledger!Register, LedgerPending, Fits

(* rollback_tx reverts the transaction's registration and all later ones.  *)
LEMMA RollbackIsRevert ==
  ASSUME TypeOK, SetupInv, HistoryInv, FundInv, NEW t \in Txids, RollbackTx(t)
  PROVE  \E r \in 1 .. Len(LedgerPending) : Ledger!Revert(r)
<1> DEFINE p == Position(states, t)
           n == Len(states)
           f == Fixed(states)
           r == p - f
           T == Txids \cup {NoTx}
<1>1. /\ n \in Nat /\ p \in 2 .. n
      /\ DOMAIN states = 1 .. n /\ DOMAIN states' = 1 .. p - 1
      /\ Len(states') = p - 1
      /\ \A i \in 1 .. p - 1 : states'[i] = states[i]
      /\ \A i \in p .. n : IsRegister(states[i])
      /\ DOMAIN gamers' = DOMAIN gamers \ {states[i].gamer : i \in p .. n}
  BY RollbackMembers DEF FundInv, CountInv
<1>2. /\ states # <<>> /\ states' # <<>> /\ TypeOK'
      /\ states \in Seq(PoolStateType) /\ states' \in Seq(PoolStateType)
  BY RollbackFacts, RollbackKeepsTypes DEF TypeOK
<1>3. SplitsAt(states, f) /\ f \in 0 .. n
  BY <1>2, FixedSplits DEF SplitsAt
<1>4. f <= p - 1
  <2>1. f \in p .. n => IsRegister(states[f]) /\ f \notin {0, 1}
    BY <1>1
  <2>2. f \notin p .. n
    BY <1>3, <2>1 DEF SplitsAt
  <2>. QED BY <1>1, <1>3, <2>2
<1>5. SplitsAt(states', f)
  <2>1. f \in 0 .. p - 1
    BY <1>1, <1>3, <1>4
  <2>2. f \notin {0, 1} => ~IsRegister(states'[f])
    <3>1. f \notin {0, 1} => f \in 1 .. p - 1
      BY <2>1
    <3>. QED BY <1>1, <1>3, <3>1 DEF SplitsAt
  <2>3. ASSUME NEW i \in f + 1 .. p - 1 PROVE i # 1 /\ IsRegister(states'[i])
    <3>1. i \in f + 1 .. n /\ i \in 1 .. p - 1
      BY <1>1, <1>3, <2>3
    <3>. QED BY <1>1, <1>3, <3>1 DEF SplitsAt
  <2>. HIDE DEF f, p, n
  <2>. QED BY <1>1, <2>1, <2>2, <2>3 DEF SplitsAt
<1>6. Fixed(states') = f
  BY <1>2, <1>5, FixedSplits
<1>7. /\ LedgerPending = PendingIds(states) /\ LedgerPending' = PendingIds(states')
      /\ PendingIds(states) \in Seq(T) /\ Len(PendingIds(states)) = n - f
      /\ PendingIds(states') \in Seq(T) /\ Len(PendingIds(states')) = (p - 1) - f
  BY <1>1, <1>2, <1>6, LedgerPendingIs, PendingFacts
<1>8. r \in 1 .. n - f /\ r - 1 = (p - 1) - f /\ (n - f) - r + 1 = n - (p - 1)
  BY <1>1, <1>3, <1>4
<1>9. \A i \in 1 .. n - f : PendingIds(states)[i] = states[f + i].id
  BY DEF PendingIds
<1>10. \A i \in 1 .. (p - 1) - f : PendingIds(states')[i] = states'[f + i].id
  BY <1>1, <1>6 DEF PendingIds
<1>11. LedgerPending' = SubSeq(LedgerPending, 1, r - 1)
  <2> DEFINE old == PendingIds(states)
             new == PendingIds(states')
             m == r - 1
  <2>1. m \in Nat /\ \A i \in 1 .. m : i \in 1 .. n - f
    <3>1. r \in 1 .. n - f /\ n - f \in Int
      BY <1>1, <1>3, <1>8
    <3>. HIDE DEF r, n, f
    <3>. QED BY <3>1
  <2>2. \A i \in 1 .. m : old[i] \in T
    <3>. HIDE DEF old, m, T
    <3>. QED BY <1>7, <2>1, ElementOfSeq DEF old
  <2>3. /\ SubSeq(old, 1, m) \in Seq(T) /\ Len(SubSeq(old, 1, m)) = m
        /\ \A i \in 1 .. m : SubSeq(old, 1, m)[i] = old[i]
    <3>. HIDE DEF old, m, T
    <3>1. /\ SubSeq(old, 1, m) \in Seq(T)
          /\ Len(SubSeq(old, 1, m)) = IF 1 <= m THEN m - 1 + 1 ELSE 0
          /\ \A i \in 1 .. m - 1 + 1 : SubSeq(old, 1, m)[i] = old[1 + i - 1]
      BY <2>1, <2>2, SubSeqProperties
    <3>. QED BY <2>1, <3>1
  <2>4. ASSUME NEW i \in 1 .. m PROVE new[i] = SubSeq(old, 1, m)[i]
    <3>1. /\ i \in 1 .. (p - 1) - f /\ i \in 1 .. n - f
          /\ f + i \in 1 .. p - 1
      <4>1. n \in Nat /\ p \in 2 .. n /\ f \in 0 .. n /\ i \in 1 .. (p - 1) - f
        BY <1>1, <1>3, <1>8, <2>4
      <4>. HIDE DEF p, n, f, r
      <4>. QED BY <4>1
    <3>2. new[i] = states'[f + i].id /\ old[i] = states[f + i].id
      BY <1>9, <1>10, <3>1
    <3>. QED BY <1>1, <2>3, <3>1, <3>2
  <2>5. /\ new \in Seq(T) /\ Len(new) = m
    BY <1>7, <1>8
  <2>6. new = SubSeq(old, 1, m)
    <3>. HIDE DEF old, new, m, T
    <3>. QED BY <2>3, <2>4, <2>5, SeqEqual
  <2>. QED BY <1>7, <2>6
<1>12. LastOf(states)' = states[p - 1] /\ LastOf(states) = states[n]
  <2>1. p - 1 \in 1 .. p - 1
    BY <1>1
  <2>. QED BY <1>1, <2>1 DEF LastOf
<1>13. Spends[LedgerPending[r]] = states[p - 1].outpoint
  <2>1. f + r = p
    BY <1>1, <1>3
  <2>2. LedgerPending[r] = states[p].id
    BY <1>7, <1>8, <1>9, <2>1
  <2>3. IsRegister(states[p])
    BY <1>1
  <2>. QED BY <1>1, <2>2, <2>3 DEF HistoryInv, StatesChained
<1>14. states[p - 1].sats = states[n].sats - Fee * (Len(LedgerPending) - r + 1)
  <2>1. Len(LedgerPending) - r + 1 = n - (p - 1)
    BY <1>7, <1>8
  <2>2. states[n].sats = states[p - 1].sats + Fee * (n - (p - 1))
    <3>1. /\ p - 1 \in 1 .. n /\ n \in 1 .. n /\ p - 1 < n
          /\ (p - 1) + 1 = p /\ p \in p .. n
      BY <1>1
    <3>. HIDE DEF p, n
    <3>. QED BY <1>1, <3>1 DEF FundInv, ChainInv
  <2>3. states[p - 1].sats \in Nat /\ Fee * (n - (p - 1)) \in Int
    <3>1. p - 1 \in 1 .. n /\ n - (p - 1) \in Int /\ Fee \in Int
      BY <1>1, SatsAssumption
    <3>2. states[p - 1] \in PoolStateType
      BY <1>2, <3>1, ElementOfSeq
    <3>3. Fee * (n - (p - 1)) \in Int
      <4>. HIDE DEF p, n
      <4>. QED BY <3>1
    <3>. QED BY <3>2, <3>3 DEF PoolStateType
  <2>. QED BY <2>1, <2>2, <2>3
<1>15. {Sender[LedgerPending[i]] : i \in r .. Len(LedgerPending)}
         = {states[i].gamer : i \in p .. n}
  <2>1. ASSUME NEW i \in r .. n - f
        PROVE  f + i \in p .. n /\ Sender[LedgerPending[i]] = states[f + i].gamer
    <3>1. i \in 1 .. n - f /\ f + i \in p .. n /\ f + i \in 1 .. n
      <4>1. /\ n \in Nat /\ p \in 2 .. n /\ f \in 0 .. n /\ f <= p - 1
            /\ i \in p - f .. n - f
        BY <1>1, <1>3, <1>4, <2>1
      <4>. HIDE DEF p, n, f, r
      <4>. QED BY <4>1
    <3>2. LedgerPending[i] = states[f + i].id /\ IsRegister(states[f + i])
      BY <1>1, <1>7, <1>9, <3>1
    <3>. QED BY <1>1, <3>1, <3>2 DEF FundInv, OriginInv
  <2>2. ASSUME NEW j \in p .. n
        PROVE  /\ j - f \in r .. n - f
               /\ Sender[LedgerPending[j - f]] = states[j].gamer
    <3>1. j - f \in r .. n - f /\ f + (j - f) = j
      BY <1>1, <1>3, <2>2
    <3>. QED BY <2>1, <3>1
  <2>3. Len(LedgerPending) = n - f
    BY <1>7
  <2>. HIDE DEF f, p, n, r
  <2>. QED BY <2>1, <2>2, <2>3
<1>16. PICK q \in 1 .. Len(LedgerPending) : q = r
  BY <1>7, <1>8
<1>17. Ledger!Revert(q)
  <2>. HIDE DEF r, f, p, n
  <2>. QED BY <1>1, <1>2, <1>11, <1>12, <1>13, <1>14, <1>15, <1>16
           DEF Ledger!Revert, LedgerPending
<1>. QED BY <1>17

(* Every step of the exchange is a step of the ledger or none at all.      *)
LEMMA StepIsLedgerStep ==
  ASSUME Serial, TypeOK, SetupInv, HistoryInv, FundInv, [Next]_vars
  PROVE  [Ledger!Next]_(Ledger!vars)
<1>1. ASSUME NEW utxo \in InitUtxos, InitBtcUtxo(utxo), UNCHANGED execVars
      PROVE  Ledger!Next
  BY <1>1, UtxoIsFund DEF Ledger!Next
<1>2. ASSUME NEW c \in Calls, CommitRegister(c) PROVE Ledger!Next
  <2>1. PICK t \in Txids : calls[c].tx = t
    BY <1>2, CommitFacts
  <2>2. Ledger!Register(t)
    BY <1>2, <2>1, CommitIsRegister
  <2>. QED BY <2>1, <2>2 DEF Ledger!Next
<1>3. ASSUME NEW t \in Txids, RollbackTx(t) PROVE Ledger!Next
  BY <1>3, RollbackIsRevert DEF Ledger!Next, LedgerPending
<1>4. ASSUME UNCHANGED <<states, gamers>> PROVE UNCHANGED Ledger!vars
  BY <1>4 DEF Ledger!vars, LastOf, PendingStates, FixedLength, IsRegister
<1>. QED BY <1>1, <1>2, <1>3, <1>4 DEF Next, SetupNext, InitKeyCall, InitKeyReply,
            InitKeyFails, Upgrade, PostUpgrade, Execute, ExecuteRegister, SignReply,
            ExecuteFails

LEMMA InitIsLedgerInit ==
  ASSUME Init
  PROVE  Ledger!Init
<1>1. states = <<>> /\ DOMAIN gamers = {} /\ TypeOK
  BY InitTypes DEF Init, SetupInit
<1>2. LedgerPending = <<>>
  <2>1. Len(PendingIds(states)) = 0
    <3>1. states \in Seq(PoolStateType) /\ Len(states) = 0
      BY <1>1, EmptySeq DEF TypeOK
    <3>2. Fixed(states) \in 0 .. Len(states)
      BY <3>1, FixedSplits DEF SplitsAt
    <3>3. /\ Len(PendingIds(states)) = Len(states) - Fixed(states)
          /\ Len(states) - Fixed(states) \in Nat
      BY <3>1, PendingFacts
    <3>. QED BY <3>1, <3>2, <3>3
  <2>2. PendingIds(states) \in Seq(Txids \cup {NoTx})
    BY <1>1, PendingFacts DEF TypeOK
  <2>. QED BY <1>1, <2>1, <2>2, LedgerPendingIs, EmptySeq
<1>. QED BY <1>1, <1>2 DEF Ledger!Init, LedgerPending

(* If the orchestrator waits for each answer, the exchange with its calls  *)
(* in flight, their failures and their rollbacks implements the ledger of  *)
(* PoolLedger: a registration takes effect at one moment or not at all.    *)
THEOREM LedgerImplemented ==
  ASSUME Serial
  PROVE  Spec => ImplementsLedger
<1>1. Init => Ledger!Init
  BY InitIsLedgerInit
<1>2. Serial /\ TypeOK /\ SetupInv /\ HistoryInv /\ FundInv /\ [Next]_vars
        => [Ledger!Next]_(Ledger!vars)
  BY StepIsLedgerStep
<1>. QED BY <1>1, <1>2, TypeCorrect, SetupInvariant, HistoryInvariant, FundInvariant,
            PTL DEF Spec, ImplementsLedger, Ledger!Spec
===============================================================================
