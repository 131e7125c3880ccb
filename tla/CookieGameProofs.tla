---------------------------- MODULE CookieGameProofs ----------------------------
(***************************************************************************)
(* Proofs about CookieGame for every number of gamers, every cooldown and  *)
(* amount.  A step of the game either is one of TxExecution, about which   *)
(* the lemmas of TxExecutionProofs and LedgerProofs speak, or a GameStep,  *)
(* which leaves the pool's history as it is but for its runes.             *)
(***************************************************************************)
EXTENDS CookieGame, LedgerProofs

USE DEF setupVars, execVars, vars, gameVars, cookieVars

LEMMA GameNextCases ==
  ASSUME [GameNext]_cookieVars
  PROVE  ([Next]_vars /\ UNCHANGED gameVars) \/ GameStep
BY DEF GameNext, Next, Execute

(* What a step of the game leaves alone.                                   *)
LEMMA GameStepFacts ==
  ASSUME TypeOK, GameStep
  PROVE  /\ UNCHANGED <<runeName, address, keyCalls, principals, txRecords, calls>>
         /\ DOMAIN gamers' = DOMAIN gamers
         /\ DOMAIN states' = DOMAIN states /\ Len(states') = Len(states)
         /\ states' = <<>> <=> states = <<>>
         /\ \A i \in DOMAIN states :
              /\ states'[i].id = states[i].id
              /\ states'[i].nonce = states[i].nonce
              /\ states'[i].outpoint = states[i].outpoint
              /\ states'[i].sats = states[i].sats
              /\ states'[i].action = states[i].action
              /\ states'[i].gamer = states[i].gamer
<1>1. ASSUME NEW p \in DOMAIN principals, Claim(p)
      PROVE  /\ UNCHANGED <<setupVars, principals, txRecords, calls>>
             /\ DOMAIN gamers' = DOMAIN gamers
  BY <1>1 DEF Claim
<1>2. ASSUME Mint
      PROVE  /\ UNCHANGED <<runeName, address, keyCalls, execVars>>
             /\ DOMAIN states' = DOMAIN states /\ Len(states') = Len(states)
             /\ states # <<>> /\ states' # <<>>
             /\ \A i \in DOMAIN states :
                  /\ states'[i].id = states[i].id
                  /\ states'[i].nonce = states[i].nonce
                  /\ states'[i].outpoint = states[i].outpoint
                  /\ states'[i].sats = states[i].sats
                  /\ states'[i].action = states[i].action
                  /\ states'[i].gamer = states[i].gamer
  <2>. PICK runes \in {etched} \cup OtherRunes : UpdateRuneInfo(runes)
    BY <1>2 DEF Mint
  <2> DEFINE n == Len(states)
             new == [states[n] EXCEPT !.rune_balance = runes]
  <2>1. /\ states' = [states EXCEPT ![n] = new] /\ states # <<>>
        /\ UNCHANGED <<runeName, address, keyCalls, execVars>>
    BY DEF UpdateRuneInfo
  <2>2. states \in Seq(PoolStateType) /\ n \in Nat \ {0} /\ DOMAIN states = 1 .. n
    BY <2>1, EmptySeq, LenProperties DEF TypeOK
  <2>3. states[n] \in PoolStateType
    BY <2>2, ElementOfSeq
  <2>4. /\ new.id = states[n].id /\ new.nonce = states[n].nonce
        /\ new.outpoint = states[n].outpoint /\ new.sats = states[n].sats
        /\ new.action = states[n].action /\ new.gamer = states[n].gamer
    BY <2>3 DEF PoolStateType
  <2>5. /\ DOMAIN states' = DOMAIN states
        /\ \A i \in DOMAIN states : states'[i] = IF i = n THEN new ELSE states[i]
    BY <2>1
  <2>6. Len(states') = n /\ states' # <<>>
    BY <2>1, <2>2
  <2>. QED BY <2>1, <2>2, <2>4, <2>5, <2>6
<1>. QED BY <1>1, <1>2 DEF GameStep, EndGame, StartEtching, EtchRuneCall,
            EtchRuneReply, EtchRuneFails, Tick

LEMMA PremineNat == ASSUME NEW k \in Nat PROVE Premine(k) \in Nat
<1> DEFINE m == (k * 120) % (MaxU128 + 1)
<1>1. k * 120 \in Nat /\ MaxU128 + 1 \in Nat /\ MaxU128 + 1 > 0
  BY GameAssumption
<1>2. m \in Nat
  BY <1>1
<1>3. m \div 100 \in Nat
  <2>. HIDE DEF m
  <2>. QED BY <1>2
<1>. QED BY <1>3 DEF Premine

LEMMA GameStepKeepsTypes ==
  ASSUME GameTypeOK, GameStep
  PROVE  GameTypeOK'
<1>1. /\ TypeOK /\ claimedCookies \in Nat /\ claimedCookies <= MaxU128
      /\ CookiesPerClaim \in Nat /\ MaxU128 \in Nat /\ MaxClaimed \in 0 .. MaxU128
      /\ now \in Nat /\ MaxTime \in Nat
  BY GameAssumption DEF GameTypeOK
<1>2. ASSUME NEW p \in DOMAIN principals, Claim(p) PROVE GameTypeOK'
  <2> DEFINE a == principals[p]
             total == gamers[a].cookies + CookiesPerClaim
  <2>1. a \in DOMAIN gamers /\ gamers[a] \in GamerType
    BY <1>1, <1>2 DEF Claim, AbleClaim, TypeOK
  <2>2. total \in Nat
    BY <1>1, <2>1 DEF GamerType
  <2>3. [gamers[a] EXCEPT !.cookies = total, !.last_click_time = now] \in GamerType
    BY <1>1, <2>1, <2>2 DEF GamerType
  <2>4. \/ gamers' = gamers
        \/ gamers' = [gamers EXCEPT ![a] =
                       [gamers[a] EXCEPT !.cookies = total, !.last_click_time = now]]
    BY <1>2, <2>1 DEF Claim, TypeOK
  <2>5. /\ DOMAIN gamers' \subseteq Addresses
        /\ gamers' \in [DOMAIN gamers' -> GamerType]
    BY <1>1, <2>1, <2>3, <2>4 DEF TypeOK
  <2>6. claimedCookies' \in 0 .. MaxU128
    BY <1>1, <1>2 DEF Claim
  <2>. QED BY <1>1, <1>2, <2>5, <2>6 DEF Claim, GameTypeOK, TypeOK
<1>3. CASE EndGame
  BY <1>3 DEF EndGame, GameTypeOK, TypeOK, Statuses
<1>4. ASSUME NEW e \in EtchCalls,
             StartEtching(e) \/ EtchRuneReply(e) \/ EtchRuneFails(e)
      PROVE  GameTypeOK'
  <2>1. Premine(claimedCookies) \in Nat
    BY <1>1, PremineNat
  <2>2. /\ etchCalls' \in [EtchCalls -> Nat \cup {None}]
        /\ etched' \in Nat \cup {None}
    BY <1>4, <2>1 DEF GameTypeOK, StartEtching, EtchRuneCall, EtchRuneReply,
       EtchRuneFails
  <2>. QED BY <1>4, <2>2 DEF GameTypeOK, TypeOK, StartEtching, EtchRuneCall,
              EtchRuneReply, EtchRuneFails
<1>5. CASE Mint
  <2>. PICK runes \in {etched} \cup OtherRunes : UpdateRuneInfo(runes)
    BY <1>5 DEF Mint
  <2> DEFINE n == Len(states)
             new == [states[n] EXCEPT !.rune_balance = runes]
  <2>1. /\ states' = [states EXCEPT ![n] = new] /\ states # <<>>
        /\ gameStatus' = RunesMinted /\ runes # None
        /\ UNCHANGED <<runeName, address, keyCalls, execVars, gameVars>>
    BY DEF UpdateRuneInfo
  <2>2. states \in Seq(PoolStateType) /\ n \in 1 .. n /\ states[n] \in PoolStateType
    BY <1>1, <2>1, LastStateType DEF TypeOK, LastOf
  <2>3. new \in PoolStateType
    <3>1. runes \in Nat
      BY <2>1, GameAssumption DEF GameTypeOK
    <3>. QED BY <2>2, <3>1 DEF PoolStateType
  <2>4. states' \in Seq(PoolStateType)
    <3>. HIDE DEF n, new
    <3>. QED BY <2>1, <2>2, <2>3, ExceptSeq DEF n
  <2>. QED BY <2>1, <2>4 DEF GameTypeOK, TypeOK, Statuses
<1>6. CASE Tick
  BY <1>1, <1>6 DEF Tick, GameTypeOK, TypeOK
<1>. QED BY <1>2, <1>3, <1>4, <1>5, <1>6 DEF GameStep

LEMMA GameInitTypes == GameInit => GameTypeOK
<1>. SUFFICES ASSUME GameInit PROVE GameTypeOK
  OBVIOUS
<1>1. TypeOK
  BY InitTypes DEF GameInit
<1>2. 0 \in 0 .. MaxU128 /\ 1 \in 1 .. MaxTime
  BY GameAssumption
<1>. QED BY <1>1, <1>2 DEF GameInit, GameTypeOK

(* Every variable of the game keeps the values the code's types allow.     *)
THEOREM GameTypeCorrect == GameSpec => []GameTypeOK
<1>1. GameTypeOK /\ [GameNext]_cookieVars => GameTypeOK'
  <2>1. ASSUME GameTypeOK, [Next]_vars, UNCHANGED gameVars PROVE GameTypeOK'
    BY <2>1, StepKeepsTypes DEF GameTypeOK
  <2>. QED BY <2>1, GameNextCases, GameStepKeepsTypes
<1>. QED BY <1>1, GameInitTypes, PTL DEF GameSpec

-------------------------------------------------------------------------------
(* The life cycle: set-up, as before, and then the game.                   *)

EndInv == isEnd <=> gameStatus \in {Ended, RunesMinted}

LEMMA GameStepKeepsSetup ==
  ASSUME TypeOK, SetupInv, GameStep
  PROVE  SetupInv'
<1>1. /\ UNCHANGED <<runeName, address, keyCalls, calls>>
      /\ DOMAIN states' = DOMAIN states
      /\ states' = <<>> <=> states = <<>>
      /\ \A i \in DOMAIN states : states'[i].action = states[i].action
  BY GameStepFacts
<1>2. KeyInv' /\ InitsFirst' /\ CallInv' /\ InFlight' = InFlight
  BY <1>1 DEF SetupInv, KeyInv, InitsFirst, CallInv, InFlight, IsRegister
<1>3. \/ gameStatus' = gameStatus
      \/ gameStatus \in {Play, Ended} /\ gameStatus' \in {Ended, RunesMinted}
  BY DEF GameStep, Claim, EndGame, StartEtching, EtchRuneCall, EtchRuneReply,
     EtchRuneFails, Mint, UpdateRuneInfo, Tick
<1>4. CASE gameStatus' = gameStatus
  BY <1>1, <1>2, <1>4 DEF SetupInv, StatusInv, QuietInv, IsRegister
<1>5. CASE gameStatus \in {Play, Ended} /\ gameStatus' \in {Ended, RunesMinted}
  <2>1. address # None /\ states # <<>>
    BY <1>5, StartedFacts, StatusFacts
  <2>. QED BY <1>1, <1>2, <1>5, <2>1, StatusFacts DEF SetupInv, StatusInv, QuietInv
<1>. QED BY <1>3, <1>4, <1>5

LEMMA GameStepKeepsEnd ==
  ASSUME EndInv, GameStep
  PROVE  EndInv'
BY DEF EndInv, GameStep, Claim, EndGame, StartEtching, EtchRuneCall, EtchRuneReply,
   EtchRuneFails, Mint, UpdateRuneInfo, Tick

LEMMA StepKeepsEnd ==
  ASSUME EndInv, [Next]_vars, UNCHANGED gameVars
  PROVE  EndInv'
BY StepKeepsStatus, StatusFacts DEF EndInv

LEMMA GameInitInvs == GameInit => SetupInv /\ EndInv
<1>1. GameInit => EndInv
  BY StatusFacts DEF GameInit, Init, SetupInit, EndInv
<1>. QED BY <1>1, InitSetup DEF GameInit

(* What the lemmas above add up to: types, set-up and end of the game.     *)
LifeInv == GameTypeOK /\ SetupInv /\ EndInv

LEMMA GameKeepsLife ==
  ASSUME LifeInv, [GameNext]_cookieVars
  PROVE  LifeInv'
<1>1. TypeOK
  BY DEF LifeInv, GameTypeOK
<1>2. CASE [Next]_vars /\ UNCHANGED gameVars
  <2>1. GameTypeOK'
    BY <1>2, StepKeepsTypes DEF LifeInv, GameTypeOK
  <2>. QED BY <1>1, <1>2, <2>1, StepKeepsSetupInv, StepKeepsEnd DEF LifeInv
<1>3. CASE GameStep
  BY <1>1, <1>3, GameStepKeepsTypes, GameStepKeepsSetup, GameStepKeepsEnd DEF LifeInv
<1>. QED BY <1>2, <1>3, GameNextCases

THEOREM LifeInvariant == GameSpec => []LifeInv
<1>1. GameInit => LifeInv
  BY GameInitTypes, GameInitInvs DEF LifeInv
<1>2. LifeInv /\ [GameNext]_cookieVars => LifeInv'
  BY GameKeepsLife
<1>. QED BY <1>1, <1>2, PTL DEF GameSpec

LEMMA LifeAgrees ==
  ASSUME LifeInv
  PROVE  EndAgrees
BY StartedFacts DEF LifeInv, EndInv, EndAgrees

(* The flag that stops claims and the status agree, whatever late replies  *)
(* of init_key and second calls of init_btc_utxo write.                    *)
THEOREM EndFlagAgrees == GameSpec => []EndAgrees
BY LifeInvariant, LifeAgrees, PTL

\* After the end nothing is claimed and the status goes only to RunesMinted.
CountIsFinal ==
  gameStatus.tag \in {"Ended", "RunesMinted"} =>
    /\ claimedCookies' = claimedCookies
    /\ gameStatus' \in {gameStatus, RunesMinted}

LEMMA StepKeepsCount ==
  ASSUME LifeInv, [GameNext]_cookieVars
  PROVE  CountIsFinal
<1>. SUFFICES ASSUME gameStatus.tag \in {"Ended", "RunesMinted"}
              PROVE  /\ claimedCookies' = claimedCookies
                     /\ gameStatus' \in {gameStatus, RunesMinted}
  BY DEF CountIsFinal
<1>1. gameStatus \in {Ended, RunesMinted} /\ isEnd /\ ~IsInitialize(gameStatus)
  <2>1. gameStatus \in Statuses
    BY DEF LifeInv, GameTypeOK, TypeOK
  <2>2. gameStatus \in {Ended, RunesMinted}
    BY <2>1 DEF Statuses, Play, Ended, RunesMinted
  <2>. QED BY <2>2, StatusFacts DEF LifeInv, EndInv
<1>2. CASE [Next]_vars /\ UNCHANGED gameVars
  BY <1>1, <1>2, StepKeepsStatus
<1>3. CASE GameStep
  BY <1>1, <1>3, StatusFacts DEF GameStep, Claim, AbleClaim, EndGame, StartEtching,
     EtchRuneCall, EtchRuneReply, EtchRuneFails, Mint, UpdateRuneInfo, Tick
<1>. QED BY <1>2, <1>3, GameNextCases

(* From the end of the game on the number of cookies is final.             *)
THEOREM CountStaysFinal == GameSpec => FinalCount
<1>1. LifeInv /\ [GameNext]_cookieVars => [CountIsFinal]_cookieVars
  BY StepKeepsCount
<1>2. GameSpec => [][CountIsFinal]_cookieVars
  BY <1>1, LifeInvariant, PTL DEF GameSpec
<1>. QED BY <1>2 DEF FinalCount, CountIsFinal

-------------------------------------------------------------------------------
(* Etchings that wait for the end of the game: each one under way, and the *)
(* one that was made, is sized by the final count.                         *)
EtchInv ==
  /\ \A e \in EtchCalls :
       etchCalls[e] # None => isEnd /\ etchCalls[e] = Premine(claimedCookies)
  /\ etched # None => isEnd /\ etched = Premine(claimedCookies)

LEMMA GameStepKeepsEtch ==
  ASSUME ~EtchEarly, GameTypeOK, EtchInv, GameStep
  PROVE  EtchInv'
<1>1. ASSUME NEW p \in DOMAIN principals, Claim(p) PROVE EtchInv'
  <2>1. ~isEnd /\ UNCHANGED <<isEnd, etchCalls, etched>>
    BY <1>1 DEF Claim, AbleClaim
  <2>. QED BY <2>1 DEF EtchInv
<1>2. ASSUME NEW e \in EtchCalls,
             StartEtching(e) \/ EtchRuneReply(e) \/ EtchRuneFails(e)
      PROVE  EtchInv'
  <2>1. Premine(claimedCookies)' = Premine(claimedCookies) /\ isEnd' = isEnd
    BY <1>2 DEF StartEtching, EtchRuneCall, EtchRuneReply, EtchRuneFails, Premine
  <2>2. CASE StartEtching(e)
    BY <2>1, <2>2 DEF EtchInv, GameTypeOK, StartEtching, EtchRuneCall
  <2>3. CASE EtchRuneReply(e)
    BY <2>1, <2>3 DEF EtchInv, GameTypeOK, EtchRuneReply
  <2>4. CASE EtchRuneFails(e)
    BY <2>1, <2>4 DEF EtchInv, GameTypeOK, EtchRuneFails
  <2>. QED BY <1>2, <2>2, <2>3, <2>4
<1>3. CASE EndGame
  BY <1>3 DEF EndGame, EtchInv, Premine
<1>4. CASE Mint \/ Tick
  BY <1>4 DEF Mint, UpdateRuneInfo, Tick, EtchInv, Premine
<1>. QED BY <1>1, <1>2, <1>3, <1>4 DEF GameStep

(* If etch_rune is only called after the end of the game, the rune that is *)
(* etched has the premine that update_rune_info asserts.                   *)
THEOREM LateEtchFits ==
  ASSUME ~EtchEarly
  PROVE  GameSpec => []EtchedFits
<1>1. GameInit => EtchInv
  BY DEF GameInit, EtchInv
<1>2. ~EtchEarly /\ GameTypeOK /\ EtchInv /\ [GameNext]_cookieVars => EtchInv'
  <2>1. ASSUME EtchInv, UNCHANGED gameVars PROVE EtchInv'
    BY <2>1 DEF EtchInv, Premine
  <2>. QED BY <2>1, GameNextCases, GameStepKeepsEtch
<1>3. EtchInv => EtchedFits
  BY DEF EtchInv, EtchedFits
<1>. QED BY <1>1, <1>2, <1>3, GameTypeCorrect, PTL DEF GameSpec

-------------------------------------------------------------------------------
(* What the commits and rollbacks of TxExecution do to the gamers: a new   *)
(* one comes with nothing, others keep all but is_withdrawn or go.         *)
LEMMA StepFromGamers ==
  ASSUME TypeOK, SetupInv, [Next]_vars
  PROVE  \/ /\ DOMAIN gamers' \subseteq DOMAIN gamers
            /\ \A a \in DOMAIN gamers' :
                 /\ gamers'[a].cookies = gamers[a].cookies
                 /\ gamers'[a].last_click_time = gamers[a].last_click_time
         \/ \E me \in Addresses : gamers' = Insert(gamers, me, NewGamer)
<1>1. ASSUME NEW c \in Calls, CommitRegister(c)
      PROVE  \E me \in Addresses : gamers' = Insert(gamers, me, NewGamer)
  BY <1>1, CommitFacts, TxAssumption DEF CommitRegister
<1>2. ASSUME NEW t \in Txids, RollbackTx(t)
      PROVE  /\ DOMAIN gamers' \subseteq DOMAIN gamers
             /\ \A a \in DOMAIN gamers' :
                  /\ gamers'[a].cookies = gamers[a].cookies
                  /\ gamers'[a].last_click_time = gamers[a].last_click_time
  <2>1. /\ DOMAIN gamers' = DOMAIN gamers \ PoppedGamers(states, t, "Register")
        /\ \A a \in DOMAIN gamers' :
             gamers'[a] = gamers[a] \/ gamers'[a] = [gamers[a] EXCEPT !.is_withdrawn = FALSE]
    BY <1>2 DEF RollbackTx, RollbackGamers
  <2>2. ASSUME NEW a \in DOMAIN gamers'
        PROVE  /\ gamers'[a].cookies = gamers[a].cookies
               /\ gamers'[a].last_click_time = gamers[a].last_click_time
    <3>1. gamers[a] \in GamerType
      BY <2>1 DEF TypeOK
    <3>. QED BY <2>1, <3>1 DEF GamerType
  <2>. QED BY <2>1, <2>2
<1>. QED BY <1>1, <1>2, StepFacts

(* What the steps of the game do to them: nothing, or one of them claims.  *)
LEMMA GameStepGamers ==
  ASSUME GameTypeOK, GameStep
  PROVE  \/ UNCHANGED <<gamers, claimedCookies>>
         \/ gamers' = gamers /\ claimedCookies' = claimedCookies + CookiesPerClaim
         \/ \E a \in DOMAIN gamers :
              /\ now > gamers[a].last_click_time + CoolingDown
              /\ claimedCookies' = claimedCookies + CookiesPerClaim
              /\ now' = now
              /\ DOMAIN gamers' = DOMAIN gamers
              /\ gamers'[a].cookies = gamers[a].cookies + CookiesPerClaim
              /\ gamers'[a].last_click_time = now
              /\ \A b \in DOMAIN gamers \ {a} : gamers'[b] = gamers[b]
<1>1. ASSUME NEW p \in DOMAIN principals, Claim(p),
             ~UNCHANGED gamers
      PROVE  \E a \in DOMAIN gamers :
              /\ now > gamers[a].last_click_time + CoolingDown
              /\ claimedCookies' = claimedCookies + CookiesPerClaim
              /\ now' = now
              /\ DOMAIN gamers' = DOMAIN gamers
              /\ gamers'[a].cookies = gamers[a].cookies + CookiesPerClaim
              /\ gamers'[a].last_click_time = now
              /\ \A b \in DOMAIN gamers \ {a} : gamers'[b] = gamers[b]
  <2> DEFINE a == principals[p]
             mine == [gamers[a] EXCEPT !.cookies = gamers[a].cookies + CookiesPerClaim,
                                       !.last_click_time = now]
  <2>1. /\ a \in DOMAIN gamers /\ now > gamers[a].last_click_time + CoolingDown
        /\ claimedCookies' = claimedCookies + CookiesPerClaim /\ now' = now
    BY <1>1 DEF Claim, AbleClaim
  <2>2. gamers' = [gamers EXCEPT ![a] = mine]
    BY <1>1 DEF Claim
  <2>3. gamers[a] \in GamerType
    BY <2>1 DEF GameTypeOK, TypeOK
  <2>4. /\ mine.cookies = gamers[a].cookies + CookiesPerClaim
        /\ mine.last_click_time = now
    BY <2>3 DEF GamerType
  <2>. HIDE DEF a, mine
  <2>. QED BY <2>1, <2>2, <2>4
<1>2. ASSUME NEW p \in DOMAIN principals, Claim(p)
      PROVE  claimedCookies' = claimedCookies + CookiesPerClaim
  BY <1>2 DEF Claim
<1>. QED BY <1>1, <1>2 DEF GameStep, EndGame, StartEtching, EtchRuneCall,
            EtchRuneReply, EtchRuneFails, Mint, UpdateRuneInfo, Tick

-------------------------------------------------------------------------------
(* Cookies.  The sum over GAMER never exceeds the total, whoever overlaps  *)
(* with whom: a claim adds the same to both, a registration adds nothing   *)
(* (and erases what its gamer had if it overlaps with an earlier one of    *)
(* his), and a rollback only takes away.                                   *)

CookiesIn(gs) == [a \in DOMAIN gs |-> gs[a].cookies]

SumIn(gs) == SumFunctionOnSet(CookiesIn(gs), DOMAIN gs)

CoverInv == IsFiniteSet(DOMAIN gamers) /\ SumIn(gamers) <= claimedCookies

LEMMA CoverGivesCovered ==
  ASSUME CoverInv
  PROVE  CookiesCovered
<1>1. SumFunction([a \in DOMAIN gamers |-> gamers[a].cookies]) = SumIn(gamers)
  BY DEF SumIn, CookiesIn, SumFunction
<1>. QED BY <1>1 DEF CoverInv, CookiesCovered

\* A map of gamers, as far as its cookies are concerned.
HasCookies(gs) == IsFiniteSet(DOMAIN gs) /\ \A a \in DOMAIN gs : gs[a].cookies \in Nat

LEMMA CookiesTyped ==
  /\ TypeOK => \A a \in DOMAIN gamers : gamers[a].cookies \in Nat
  /\ TypeOK' => \A a \in DOMAIN gamers' : gamers'[a].cookies \in Nat
BY DEF TypeOK, GamerType

LEMMA SumInFacts ==
  ASSUME NEW gs, HasCookies(gs)
  PROVE  /\ SumIn(gs) \in Nat
         /\ \A a \in DOMAIN gs : CookiesIn(gs)[a] = gs[a].cookies
         /\ \A a \in DOMAIN gs : CookiesIn(gs)[a] \in Nat
<1>1. \A a \in DOMAIN gs : CookiesIn(gs)[a] = gs[a].cookies /\ CookiesIn(gs)[a] \in Nat
  BY DEF CookiesIn, HasCookies
<1>2. SumFunctionOnSet(CookiesIn(gs), DOMAIN gs) \in Nat
  <2>. HIDE DEF CookiesIn
  <2>. QED BY <1>1, SumNat DEF HasCookies
<1>. QED BY <1>1, <1>2 DEF SumIn

(* Gamers that go take their part of the sum with them.                    *)
LEMMA SumInLess ==
  ASSUME NEW gs, HasCookies(gs), NEW hs, DOMAIN hs \subseteq DOMAIN gs,
         \A a \in DOMAIN hs : hs[a].cookies = gs[a].cookies
  PROVE  HasCookies(hs) /\ SumIn(hs) <= SumIn(gs)
<1>1. HasCookies(hs)
  BY FS_Subset DEF HasCookies
<1>2. \A a \in DOMAIN hs : CookiesIn(hs)[a] = CookiesIn(gs)[a]
  BY <1>1, SumInFacts
<1>3. SumFunctionOnSet(CookiesIn(hs), DOMAIN hs) = SumFunctionOnSet(CookiesIn(gs), DOMAIN hs)
  BY <1>1, <1>2, SumSame DEF HasCookies
<1>4. SumFunctionOnSet(CookiesIn(gs), DOMAIN hs) <= SumFunctionOnSet(CookiesIn(gs), DOMAIN gs)
  BY SumInFacts, SumPart DEF HasCookies
<1>. QED BY <1>1, <1>3, <1>4 DEF SumIn

(* The sum with one gamer more, who has nothing, does not grow.            *)
LEMMA SumInNew ==
  ASSUME NEW gs, HasCookies(gs), NEW me
  PROVE  LET hs == Insert(gs, me, NewGamer)
         IN  HasCookies(hs) /\ SumIn(hs) <= SumIn(gs)
<1> DEFINE hs == Insert(gs, me, NewGamer)
           D == DOMAIN hs
           rest == [a \in DOMAIN gs \ {me} |-> gs[a]]
<1>1. /\ D = DOMAIN gs \cup {me} /\ hs[me].cookies = 0
      /\ \A a \in DOMAIN gs \ {me} : hs[a] = gs[a]
  BY DEF Insert, NewGamer
<1>2. HasCookies(hs)
  <2>1. IsFiniteSet(D)
    BY <1>1, FS_AddElement DEF HasCookies
  <2>2. ASSUME NEW a \in D PROVE hs[a].cookies \in Nat
    BY <1>1 DEF HasCookies
  <2>. QED BY <2>1, <2>2 DEF HasCookies
<1>3. DOMAIN rest \subseteq DOMAIN gs /\ \A a \in DOMAIN rest : rest[a] = gs[a]
  OBVIOUS
<1>4. HasCookies(rest) /\ SumIn(rest) <= SumIn(gs)
  <2>. HIDE DEF rest
  <2>. QED BY <1>3, SumInLess
<1>5. SumIn(hs) = CookiesIn(hs)[me] + SumFunctionOnSet(CookiesIn(hs), D \ {me})
  <2>1. me \in D /\ IsFiniteSet(D) /\ \A a \in D : CookiesIn(hs)[a] \in Nat
    BY <1>1, <1>2, SumInFacts DEF HasCookies
  <2>. HIDE DEF hs
  <2>. QED BY <2>1, SumRemove DEF SumIn
<1>6. CookiesIn(hs)[me] = 0
  BY <1>1, <1>2, SumInFacts
<1>7. D \ {me} = DOMAIN rest
  BY <1>1
<1>8. SumFunctionOnSet(CookiesIn(hs), DOMAIN rest) = SumIn(rest)
  <2>1. ASSUME NEW a \in DOMAIN rest PROVE CookiesIn(hs)[a] = CookiesIn(rest)[a]
    <3>1. a \in D /\ hs[a] = rest[a]
      BY <1>1, <2>1
    <3>. HIDE DEF hs, rest, D
    <3>. QED BY <1>2, <1>4, <2>1, <3>1, SumInFacts DEF D
  <2>. HIDE DEF hs, rest
  <2>. QED BY <1>4, <2>1, SumSame DEF SumIn, HasCookies
<1>9. SumIn(hs) = SumIn(rest)
  <2>1. SumIn(rest) \in Nat
    <3>. HIDE DEF rest
    <3>. QED BY <1>4, SumInFacts
  <2>. HIDE DEF hs, rest, D
  <2>. QED BY <1>5, <1>6, <1>7, <1>8, <2>1
<1>. QED BY <1>2, <1>4, <1>9

(* A claim adds to the sum what it adds to its gamer.                      *)
LEMMA SumInClaim ==
  ASSUME NEW gs, HasCookies(gs), NEW hs, DOMAIN hs = DOMAIN gs,
         NEW a \in DOMAIN gs, NEW more \in Nat,
         hs[a].cookies = gs[a].cookies + more,
         \A b \in DOMAIN gs \ {a} : hs[b] = gs[b]
  PROVE  HasCookies(hs) /\ SumIn(hs) = SumIn(gs) + more
<1> DEFINE D == DOMAIN gs
<1>1. HasCookies(hs)
  <2>1. ASSUME NEW b \in D PROVE hs[b].cookies \in Nat
    BY DEF HasCookies
  <2>. QED BY <2>1 DEF HasCookies
<1>2. /\ SumIn(gs) = CookiesIn(gs)[a] + SumFunctionOnSet(CookiesIn(gs), D \ {a})
      /\ SumIn(hs) = CookiesIn(hs)[a] + SumFunctionOnSet(CookiesIn(hs), D \ {a})
  <2>1. /\ IsFiniteSet(D) /\ DOMAIN hs = D
        /\ \A b \in D : CookiesIn(gs)[b] \in Nat
        /\ \A b \in D : CookiesIn(hs)[b] \in Nat
    BY <1>1, SumInFacts DEF HasCookies
  <2>. QED BY <2>1, SumRemove DEF SumIn
<1>3. SumFunctionOnSet(CookiesIn(hs), D \ {a}) = SumFunctionOnSet(CookiesIn(gs), D \ {a})
  <2>1. \A b \in D \ {a} : CookiesIn(hs)[b] = CookiesIn(gs)[b]
    BY <1>1, SumInFacts
  <2>2. IsFiniteSet(D \ {a})
    BY FS_Subset DEF HasCookies
  <2>. QED BY <2>1, <2>2, SumSame
<1>4. CookiesIn(hs)[a] = CookiesIn(gs)[a] + more /\ CookiesIn(gs)[a] \in Nat
  BY <1>1, SumInFacts
<1>5. SumFunctionOnSet(CookiesIn(gs), D \ {a}) \in Nat
  <2>1. IsFiniteSet(D \ {a}) /\ \A b \in D \ {a} : CookiesIn(gs)[b] \in Nat
    BY FS_Subset, SumInFacts DEF HasCookies
  <2>. QED BY <2>1, SumNat
<1>. QED BY <1>1, <1>2, <1>3, <1>4, <1>5

LEMMA StepKeepsCover ==
  ASSUME TypeOK, SetupInv, claimedCookies \in Nat, CoverInv,
         [Next]_vars, UNCHANGED gameVars
  PROVE  CoverInv'
<1>1. HasCookies(gamers) /\ SumIn(gamers) <= claimedCookies
  BY CookiesTyped DEF CoverInv, HasCookies
<1>2. HasCookies(gamers') /\ SumIn(gamers') <= SumIn(gamers)
  BY <1>1, SumInLess, SumInNew, StepFromGamers
<1>3. SumIn(gamers) \in Nat /\ SumIn(gamers') \in Nat
  BY <1>1, <1>2, SumInFacts
<1>4. SumIn(gamers') <= claimedCookies'
  BY <1>1, <1>2, <1>3
<1>. QED BY <1>2, <1>4 DEF CoverInv, HasCookies, SumIn, CookiesIn

LEMMA GameStepKeepsCover ==
  ASSUME GameTypeOK, CoverInv, GameStep
  PROVE  CoverInv'
<1>1. HasCookies(gamers) /\ SumIn(gamers) <= claimedCookies /\ SumIn(gamers) \in Nat
  BY CookiesTyped, SumInFacts DEF CoverInv, HasCookies, GameTypeOK
<1>2. claimedCookies \in Nat /\ CookiesPerClaim \in Nat
  BY GameAssumption DEF GameTypeOK
<1>3. HasCookies(gamers') /\ SumIn(gamers') <= claimedCookies'
  <2>1. CASE gamers' = gamers /\ claimedCookies' \in {claimedCookies, claimedCookies + CookiesPerClaim}
    BY <1>1, <1>2, <2>1
  <2>2. ASSUME NEW a \in DOMAIN gamers,
               claimedCookies' = claimedCookies + CookiesPerClaim,
               DOMAIN gamers' = DOMAIN gamers,
               gamers'[a].cookies = gamers[a].cookies + CookiesPerClaim,
               \A b \in DOMAIN gamers \ {a} : gamers'[b] = gamers[b]
        PROVE  HasCookies(gamers') /\ SumIn(gamers') <= claimedCookies'
    <3>1. HasCookies(gamers') /\ SumIn(gamers') = SumIn(gamers) + CookiesPerClaim
      BY <1>1, <1>2, <2>2, SumInClaim
    <3>. QED BY <1>1, <1>2, <2>2, <3>1
  <2>. QED BY <2>1, <2>2, GameStepGamers
<1>. QED BY <1>3 DEF CoverInv, HasCookies, SumIn, CookiesIn

LEMMA InitCover ==
  ASSUME GameInit
  PROVE  CoverInv
<1>1. DOMAIN gamers = {} /\ claimedCookies = 0
  BY DEF GameInit, Init
<1>. QED BY <1>1, SumEmpty, FS_EmptySet DEF CoverInv, SumIn

LEMMA GameKeepsCover ==
  ASSUME LifeInv, CoverInv, [GameNext]_cookieVars
  PROVE  CoverInv'
<1>1. GameTypeOK /\ TypeOK /\ SetupInv /\ claimedCookies \in Nat
  BY GameAssumption DEF LifeInv, GameTypeOK
<1>. QED BY <1>1, StepKeepsCover, GameStepKeepsCover, GameNextCases

(* What the gamers own together never exceeds what was counted as claimed. *)
THEOREM CookiesStayCovered == GameSpec => []CookiesCovered
<1>1. LifeInv /\ CoverInv /\ [GameNext]_cookieVars => CoverInv'
  BY GameKeepsCover
<1>2. CoverInv => CookiesCovered
  BY CoverGivesCovered
<1>. QED BY <1>1, <1>2, InitCover, LifeInvariant, PTL DEF GameSpec

-------------------------------------------------------------------------------
(* The cooldown.                                                           *)

(* In time for one more cooldown and one second, one more claim is due.    *)
LEMMA OneMoreClaim ==
  ASSUME NEW x \in Nat, NEW y \in Nat, NEW d \in Nat, d > 0, y >= x + d
  PROVE  /\ x \div d \in Nat /\ y \div d \in Nat
         /\ y \div d >= x \div d + 1
<1>1. /\ x \div d \in Int /\ x \div d >= 0
      /\ y \div d \in Int /\ y \div d >= 0
  OBVIOUS
<1>2. y \div d >= x \div d + 1
  OBVIOUS
<1>. QED BY <1>1, <1>2

\* What one gamer may own, and when he may last have claimed.
Spaced(cookies, last, time) ==
  last <= time /\ cookies <= CookiesPerClaim * (last \div (CoolingDown + 1))

LEMMA NewIsSpaced ==
  ASSUME NEW time \in Nat
  PROVE  Spaced(0, 0, time)
<1>1. 0 \div (CoolingDown + 1) \in Nat
  <2>1. /\ CoolingDown + 1 \in Nat /\ CoolingDown + 1 > 0
        /\ CoolingDown + 1 >= 0 + (CoolingDown + 1)
    BY GameAssumption
  <2>. QED BY <2>1, OneMoreClaim
<1>2. \A k \in Nat : 0 <= CookiesPerClaim * k
  BY GameAssumption
<1>. QED BY <1>1, <1>2 DEF Spaced

LEMMA ClaimIsSpaced ==
  ASSUME NEW cookies \in Nat, NEW last \in Nat, NEW time \in Nat,
         Spaced(cookies, last, time), time > last + CoolingDown
  PROVE  Spaced(cookies + CookiesPerClaim, time, time)
<1> DEFINE d == CoolingDown + 1
           k == CookiesPerClaim
           p == last \div d
           q == time \div d
<1>1. k \in Nat /\ d \in Nat /\ d > 0 /\ time >= last + d
  BY GameAssumption
<1>2. p \in Nat /\ q \in Nat /\ q >= p + 1
  <2>. HIDE DEF d
  <2>. QED BY <1>1, OneMoreClaim DEF p, q
<1>3. cookies <= k * p
  BY DEF Spaced
<1>. HIDE DEF k, d, p, q
<1>4. k * p + k = k * (p + 1) /\ k * (p + 1) <= k * q
  BY <1>1, <1>2
<1>5. k * p \in Nat /\ k * (p + 1) \in Nat /\ k * q \in Nat
  BY <1>1, <1>2
<1>6. cookies + k <= k * q
  BY <1>1, <1>3, <1>4, <1>5
<1>. QED BY <1>6 DEF Spaced, k, d, p, q

LEMMA SpacedIs ==
  /\ ClaimsAreSpaced <=>
       \A a \in DOMAIN gamers : Spaced(gamers[a].cookies, gamers[a].last_click_time, now)
  /\ ClaimsAreSpaced' <=>
       \A a \in DOMAIN gamers' :
         Spaced(gamers'[a].cookies, gamers'[a].last_click_time, now')
BY DEF ClaimsAreSpaced, Spaced

LEMMA StepKeepsSpaced ==
  ASSUME TypeOK, SetupInv, now \in Nat, ClaimsAreSpaced, [Next]_vars, UNCHANGED gameVars
  PROVE  ClaimsAreSpaced'
<1>1. ASSUME NEW me \in Addresses, gamers' = Insert(gamers, me, NewGamer)
      PROVE  ClaimsAreSpaced'
  <2>1. ASSUME NEW a \in DOMAIN gamers'
        PROVE  Spaced(gamers'[a].cookies, gamers'[a].last_click_time, now)
    <3>1. CASE a = me
      BY <1>1, <3>1, NewIsSpaced DEF Insert, NewGamer
    <3>2. CASE a # me
      BY <1>1, <2>1, <3>2, SpacedIs DEF Insert
    <3>. QED BY <3>1, <3>2
  <2>. QED BY <2>1, SpacedIs
<1>2. ASSUME DOMAIN gamers' \subseteq DOMAIN gamers,
             \A a \in DOMAIN gamers' :
               /\ gamers'[a].cookies = gamers[a].cookies
               /\ gamers'[a].last_click_time = gamers[a].last_click_time
      PROVE  ClaimsAreSpaced'
  BY <1>2, SpacedIs
<1>. QED BY <1>1, <1>2, StepFromGamers

LEMMA GameStepKeepsSpaced ==
  ASSUME GameTypeOK, ClaimsAreSpaced, GameStep
  PROVE  ClaimsAreSpaced'
<1>1. /\ now \in Nat /\ now' \in Nat
      /\ \A a \in DOMAIN gamers :
           gamers[a].cookies \in Nat /\ gamers[a].last_click_time \in Nat
  <2>1. /\ now \in 1 .. MaxTime /\ now' \in 1 .. MaxTime /\ MaxTime \in Nat
    BY GameStepKeepsTypes, GameAssumption DEF GameTypeOK
  <2>2. \A a \in DOMAIN gamers :
          gamers[a].cookies \in Nat /\ gamers[a].last_click_time \in Nat
    BY DEF GameTypeOK, TypeOK, GamerType
  <2>. QED BY <2>1, <2>2
<1>2. now' >= now
  <2>1. now' = now \/ now' = now + 1
    BY DEF GameStep, Claim, EndGame, StartEtching, EtchRuneCall, EtchRuneReply,
       EtchRuneFails, Mint, UpdateRuneInfo, Tick
  <2>. QED BY <1>1, <2>1
<1>3. CASE gamers' = gamers
  <2>1. ASSUME NEW a \in DOMAIN gamers
        PROVE  Spaced(gamers[a].cookies, gamers[a].last_click_time, now')
    BY <1>1, <1>2, SpacedIs DEF Spaced
  <2>. QED BY <1>3, <2>1, SpacedIs
<1>4. ASSUME NEW a \in DOMAIN gamers,
             now > gamers[a].last_click_time + CoolingDown, now' = now,
             DOMAIN gamers' = DOMAIN gamers,
             gamers'[a].cookies = gamers[a].cookies + CookiesPerClaim,
             gamers'[a].last_click_time = now,
             \A b \in DOMAIN gamers \ {a} : gamers'[b] = gamers[b]
      PROVE  ClaimsAreSpaced'
  <2>1. Spaced(gamers'[a].cookies, gamers'[a].last_click_time, now')
    BY <1>1, <1>4, ClaimIsSpaced, SpacedIs
  <2>2. \A b \in DOMAIN gamers \ {a} :
          Spaced(gamers'[b].cookies, gamers'[b].last_click_time, now')
    BY <1>4, SpacedIs
  <2>. QED BY <1>4, <2>1, <2>2, SpacedIs
<1>. QED BY <1>3, <1>4, GameStepGamers

(* Nobody has more cookies than the cooldown allows, and nobody's last     *)
(* claim is in the future.                                                 *)
THEOREM ClaimsStaySpaced == GameSpec => []ClaimsAreSpaced
<1>1. GameInit => ClaimsAreSpaced
  BY DEF GameInit, Init, ClaimsAreSpaced
<1>2. LifeInv /\ ClaimsAreSpaced /\ [GameNext]_cookieVars => ClaimsAreSpaced'
  <2>1. LifeInv => GameTypeOK /\ TypeOK /\ SetupInv /\ now \in Nat
    BY GameAssumption DEF LifeInv, GameTypeOK
  <2>. QED BY <2>1, StepKeepsSpaced, GameStepKeepsSpaced, GameNextCases
<1>. QED BY <1>1, <1>2, LifeInvariant, PTL DEF GameSpec

-------------------------------------------------------------------------------
(* What TxExecution promises holds with the game on top of it.             *)

LEMMA GameStepKeepsRecords ==
  ASSUME TypeOK, RegistersRecorded, GameStep
  PROVE  RegistersRecorded'
BY GameStepFacts DEF RegistersRecorded, IsRegister

(* Every registration in the history has its record, while the game goes on.*)
THEOREM GameRecordsComplete == GameSpec => []RegistersRecorded
<1>1. GameInit => RegistersRecorded
  BY DEF GameInit, Init, SetupInit, RegistersRecorded
<1>2. LifeInv /\ RegistersRecorded /\ [GameNext]_cookieVars => RegistersRecorded'
  BY StepKeepsRecords, GameStepKeepsRecords, GameNextCases DEF LifeInv, GameTypeOK
<1>. QED BY <1>1, <1>2, LifeInvariant, PTL DEF GameSpec

LEMMA GameStepKeepsPrincipals ==
  ASSUME TypeOK, GamersCanClaim, GameStep
  PROVE  GamersCanClaim'
BY GameStepFacts DEF GamersCanClaim

(* Every gamer is found by his principal, while he claims.                 *)
THEOREM GameGamersFound == GameSpec => []GamersCanClaim
<1>1. GameInit => GamersCanClaim
  BY DEF GameInit, Init, GamersCanClaim
<1>2. LifeInv /\ GamersCanClaim /\ [GameNext]_cookieVars => GamersCanClaim'
  BY StepKeepsPrincipals, GameStepKeepsPrincipals, GameNextCases DEF LifeInv, GameTypeOK
<1>. QED BY <1>1, <1>2, LifeInvariant, PTL DEF GameSpec

LEMMA GameStepKeepsHistory ==
  ASSUME TypeOK, HistoryInv, GameStep
  PROVE  HistoryInv'
<1>1. /\ UNCHANGED calls /\ DOMAIN gamers' = DOMAIN gamers
      /\ DOMAIN states' = DOMAIN states /\ Len(states') = Len(states)
      /\ states' = <<>> <=> states = <<>>
      /\ \A i \in DOMAIN states :
           /\ states'[i].id = states[i].id /\ states'[i].nonce = states[i].nonce
           /\ states'[i].outpoint = states[i].outpoint
           /\ states'[i].sats = states[i].sats
           /\ states'[i].action = states[i].action
           /\ states'[i].gamer = states[i].gamer
  BY GameStepFacts
<1>. QED BY <1>1 DEF HistoryInv, FitInv, Fits, StatesChained, OneStatePerGamer,
            InFlight, IsRegister, LastOf

LEMMA GameStepKeepsFund ==
  ASSUME TypeOK, FundInv, GameStep
  PROVE  FundInv'
<1>1. /\ DOMAIN gamers' = DOMAIN gamers
      /\ DOMAIN states' = DOMAIN states /\ Len(states') = Len(states)
      /\ states' = <<>> <=> states = <<>>
      /\ \A i \in DOMAIN states :
           /\ states'[i].id = states[i].id /\ states'[i].nonce = states[i].nonce
           /\ states'[i].outpoint = states[i].outpoint
           /\ states'[i].sats = states[i].sats
           /\ states'[i].action = states[i].action
           /\ states'[i].gamer = states[i].gamer
  BY GameStepFacts
<1>2. DOMAIN states = 1 .. Len(states) /\ Len(states) \in Nat
  BY LenProperties DEF TypeOK
<1>3. \A i, j \in DOMAIN states : i < j => i + 1 \in DOMAIN states
  BY <1>2
<1>4. ChainInv'
  <2>1. ASSUME NEW i \in DOMAIN states, NEW j \in DOMAIN states, i < j,
               IsRegister(states'[i + 1])
        PROVE  /\ states'[j].nonce = states'[i].nonce + (j - i)
               /\ states'[j].sats = states'[i].sats + Fee * (j - i)
    <3>1. IsRegister(states[i + 1])
      BY <1>1, <1>3, <2>1 DEF IsRegister
    <3>. QED BY <1>1, <2>1, <3>1 DEF FundInv, ChainInv
  <2>. QED BY <1>1, <2>1 DEF ChainInv, IsRegister
<1>5. OriginInv'
  BY <1>1 DEF FundInv, OriginInv, IsRegister
<1>6. CountInv'
  <2>1. states # <<>> => Len(states) \in DOMAIN states
    BY <1>2, EmptySeq DEF TypeOK
  <2>. QED BY <1>1, <2>1 DEF FundInv, CountInv, PoolHoldsFees, LastOf
<1>. QED BY <1>4, <1>5, <1>6 DEF FundInv

(* The three invariants of an orchestrator that waits, with the game.      *)
WaitInv == HistoryInv /\ FundInv

LEMMA GameKeepsWait ==
  ASSUME Serial, LifeInv, WaitInv, [GameNext]_cookieVars
  PROVE  WaitInv'
<1>1. TypeOK /\ SetupInv
  BY DEF LifeInv, GameTypeOK
<1>2. CASE [Next]_vars
  BY <1>1, <1>2, StepKeepsHistory, StepKeepsFund DEF WaitInv
<1>3. CASE GameStep
  BY <1>1, <1>3, GameStepKeepsHistory, GameStepKeepsFund DEF WaitInv
<1>. QED BY <1>2, <1>3, GameNextCases

-------------------------------------------------------------------------------
(* The runes.  Before they are received no pool state and no call in       *)
(* flight has any.  If they are received when nothing is pending, all of   *)
(* them have the premine from then on: what a call computes before its     *)
(* first await it takes from the newest state, and a rollback can only     *)
(* bring back a state that has it too.                                     *)

RunesOfNow == IF gameStatus = RunesMinted THEN Premine(claimedCookies) ELSE 0

AllHave(runes) ==
  /\ \A i \in DOMAIN states : states[i].rune_balance = runes
  /\ \A c \in InFlight : calls[c].state.rune_balance = runes

RunesInv == AllHave(RunesOfNow)

LEMMA StepKeepsAllHave ==
  ASSUME TypeOK, SetupInv, NEW runes, AllHave(runes), [Next]_vars,
         IsInitialize(gameStatus) => runes = 0
  PROVE  AllHave(runes)'
<1>1. ASSUME NEW utxo \in InitUtxos, InitBtcUtxo(utxo), UNCHANGED execVars
      PROVE  AllHave(runes)'
  <2>1. utxo.sats \in Nat /\ utxo.outpoint \in Outpoints
    BY SatsAssumption DEF Outpoints
  <2>2. InitState(utxo) \in PoolStateType
    BY <2>1 DEF InitState, PoolStateType
  <2>3. /\ states \in Seq(PoolStateType) /\ states' = Append(states, InitState(utxo))
        /\ runes = 0
    BY <1>1 DEF InitBtcUtxo, TypeOK
  <2>4. InitState(utxo).rune_balance = 0
    BY DEF InitState
  <2>. QED BY <1>1, <2>2, <2>3, <2>4, AppendFacts DEF AllHave, InFlight
<1>2. ASSUME NEW c \in Calls, NEW t \in Txids,
             NEW nonce \in 0 .. Cardinality(Txids), ExecuteRegister(c, t, nonce)
      PROVE  AllHave(runes)'
  <2>1. /\ UNCHANGED states /\ states # <<>>
        /\ calls' = [calls EXCEPT ![c] = [phase |-> "sign", tx |-> t,
                                         state |-> RegisterState(t)]]
    BY <1>2 DEF ExecuteRegister, ValidRegister
  <2>2. RegisterState(t).rune_balance = runes
    <3>1. Len(states) \in DOMAIN states
      BY <2>1, EmptySeq, LenProperties DEF TypeOK
    <3>2. LastOf(states).rune_balance = runes
      BY <3>1 DEF AllHave, LastOf
    <3>. QED BY <3>2 DEF RegisterState
  <2>3. ASSUME NEW d \in InFlight' PROVE calls'[d].state.rune_balance = runes
    <3>1. CASE d = c
      BY <2>1, <2>2, <3>1 DEF TypeOK
    <3>2. CASE d # c
      BY <2>1, <2>3, <3>2 DEF TypeOK, AllHave, InFlight
    <3>. QED BY <3>1, <3>2
  <2>. QED BY <2>1, <2>3 DEF AllHave
<1>3. ASSUME NEW c \in Calls, SignReply(c) \/ ExecuteFails(c)
      PROVE  AllHave(runes)'
  <2>1. UNCHANGED states
    BY <1>3 DEF SignReply, ExecuteFails
  <2>2. \A d \in InFlight' : d \in InFlight /\ calls'[d].state = calls[d].state
    <3>1. CASE SignReply(c)
      <4>1. c \in InFlight
        BY <3>1 DEF SignReply, InFlight, Idle
      <4>2. /\ calls'[c].state = calls[c].state
            /\ \A d \in Calls \ {c} : calls'[d] = calls[d]
        BY <3>1, CallFacts DEF SignReply, TypeOK
      <4>. QED BY <4>1, <4>2 DEF InFlight
    <3>2. CASE ExecuteFails(c)
      BY <3>2 DEF TypeOK, InFlight, ExecuteFails
    <3>. QED BY <1>3, <3>1, <3>2
  <2>. QED BY <2>1, <2>2 DEF AllHave
<1>4. ASSUME NEW c \in Calls, CommitRegister(c) PROVE AllHave(runes)'
  <2>1. ASSUME NEW i \in DOMAIN states' PROVE states'[i].rune_balance = runes
    <3>1. CASE i \in DOMAIN states
      BY <1>4, <3>1, CommitFacts DEF AllHave
    <3>2. CASE i \notin DOMAIN states
      <4>1. states'[i] = calls[c].state /\ c \in InFlight
        BY <1>4, <2>1, <3>2, CommitFacts
      <4>. QED BY <4>1 DEF AllHave
    <3>. QED BY <3>1, <3>2
  <2>2. \A d \in InFlight' : d \in InFlight /\ calls'[d] = calls[d]
    BY <1>4, CommitFacts
  <2>. QED BY <2>1, <2>2 DEF AllHave
<1>5. ASSUME NEW t \in Txids, RollbackTx(t) PROVE AllHave(runes)'
  <2>1. UNCHANGED calls
    BY <1>5 DEF RollbackTx
  <2>. QED BY <1>5, <2>1, RollbackFacts DEF AllHave, InFlight
<1>6. ASSUME UNCHANGED <<states, calls>> PROVE AllHave(runes)'
  BY <1>6 DEF AllHave, InFlight
<1>. QED BY <1>1, <1>2, <1>3, <1>4, <1>5, <1>6 DEF Next, SetupNext, InitKeyCall,
            InitKeyReply, InitKeyFails, Upgrade, PostUpgrade, Execute

LEMMA StepKeepsRunes ==
  ASSUME TypeOK, SetupInv, RunesInv, [Next]_vars, UNCHANGED gameVars
  PROVE  RunesInv'
<1>1. PICK runes : runes = RunesOfNow
  OBVIOUS
<1>2. RunesOfNow' = runes
  <2>1. gameStatus' = RunesMinted <=> gameStatus = RunesMinted
    BY StepKeepsStatus, StatusFacts
  <2>. QED BY <1>1, <2>1 DEF RunesOfNow, Premine
<1>3. AllHave(runes)
  BY <1>1 DEF RunesInv
<1>4. IsInitialize(gameStatus) => runes = 0
  BY <1>1, StatusFacts DEF RunesOfNow
<1>5. AllHave(runes)'
  BY <1>3, <1>4, StepKeepsAllHave
<1>. QED BY <1>2, <1>5 DEF RunesInv, AllHave

LEMMA GameStepKeepsRunes ==
  ASSUME QuietMint, GameTypeOK, SetupInv, EndInv, RunesInv, GameStep
  PROVE  RunesInv'
<1>1. CASE Mint
  <2>. PICK runes \in {etched} \cup OtherRunes : UpdateRuneInfo(runes)
    BY <1>1 DEF Mint
  <2>1. /\ Len(states) = 1 /\ InFlight = {} /\ UNCHANGED <<calls, claimedCookies>>
        /\ states' = [states EXCEPT ![1].rune_balance = runes]
        /\ runes = Premine(claimedCookies) /\ gameStatus' = RunesMinted
    BY <1>1 DEF Mint, UpdateRuneInfo
  <2>2. states \in Seq(PoolStateType) /\ DOMAIN states = 1 .. 1
    BY <2>1, LenProperties DEF GameTypeOK, TypeOK
  <2>3. states[1] \in PoolStateType
    BY <2>1, <2>2, ElementOfSeq
  <2>4. states'[1].rune_balance = runes /\ DOMAIN states' = 1 .. 1
    BY <2>1, <2>2, <2>3 DEF PoolStateType
  <2>5. RunesOfNow' = runes /\ InFlight' = {}
    BY <2>1 DEF RunesOfNow, Premine, InFlight
  <2>. QED BY <2>4, <2>5 DEF RunesInv, AllHave
<1>2. CASE ~Mint
  <2>1. UNCHANGED <<states, calls>>
    BY <1>2 DEF GameStep, Claim, EndGame, StartEtching, EtchRuneCall, EtchRuneReply,
       EtchRuneFails, Tick
  <2>2. RunesOfNow' = RunesOfNow
    <3>1. \/ gameStatus' = gameStatus
          \/ gameStatus = Play /\ gameStatus' = Ended
      BY <1>2 DEF GameStep, Claim, EndGame, StartEtching, EtchRuneCall, EtchRuneReply,
         EtchRuneFails, Tick
    <3>2. gameStatus = RunesMinted => claimedCookies' = claimedCookies
      BY <1>2 DEF EndInv, GameStep, Claim, AbleClaim, EndGame, StartEtching,
         EtchRuneCall, EtchRuneReply, EtchRuneFails, Tick
    <3>. QED BY <3>1, <3>2, StatusFacts DEF RunesOfNow, Premine
  <2>. QED BY <2>1, <2>2 DEF RunesInv, AllHave, InFlight
<1>. QED BY <1>1, <1>2

LEMMA InitRunes ==
  ASSUME GameInit
  PROVE  RunesInv
BY DEF GameInit, Init, SetupInit, RunesInv, AllHave, InFlight

LEMMA RunesGiveKept ==
  ASSUME LifeInv, RunesInv
  PROVE  RunesKept
<1>. SUFFICES ASSUME gameStatus = RunesMinted
              PROVE  LastOf(states).rune_balance = Premine(claimedCookies)
  BY DEF RunesKept
<1>1. states # <<>>
  BY StartedFacts, StatusFacts DEF LifeInv
<1>2. Len(states) \in DOMAIN states
  BY <1>1, EmptySeq, LenProperties DEF LifeInv, GameTypeOK, TypeOK
<1>. QED BY <1>2 DEF RunesInv, AllHave, RunesOfNow, LastOf

THEOREM RunesInvariant ==
  ASSUME QuietMint
  PROVE  GameSpec => []RunesInv
<1>1. QuietMint /\ LifeInv /\ RunesInv /\ [GameNext]_cookieVars => RunesInv'
  BY StepKeepsRunes, GameStepKeepsRunes, GameNextCases DEF LifeInv, GameTypeOK
<1>. QED BY <1>1, InitRunes, LifeInvariant, PTL DEF GameSpec

(* If the runes are received when nothing is pending, no registration and  *)
(* no rollback after that loses them.                                      *)
THEOREM QuietRunesKept ==
  ASSUME QuietMint
  PROVE  GameSpec => []RunesKept
BY RunesInvariant, LifeInvariant, RunesGiveKept, PTL

-------------------------------------------------------------------------------
(* What the pool would pay: the fees are in its utxo, and the runes of the *)
(* gamers and of the liquidity are the premine or less.                    *)
LEMMA PayoutsFollow ==
  ASSUME LifeInv, FundInv, CoverInv, RunesInv
  PROVE  PayoutsCovered
<1>. SUFFICES ASSUME gameStatus = RunesMinted
              PROVE  /\ LiquidityBtc <= LastOf(states).sats
                     /\ LiquidityRunes + SumFunction([a \in DOMAIN gamers |-> WithdrawRunes(a)])
                          <= LastOf(states).rune_balance
  BY DEF PayoutsCovered
<1>1. states # <<>>
  BY StartedFacts, StatusFacts DEF LifeInv
<1>2. LiquidityBtc <= LastOf(states).sats
  <2>1. IsFiniteSet(DOMAIN gamers)
    BY DEF CoverInv
  <2>2. Cardinality(DOMAIN gamers) \in Nat /\ Fee \in Nat
    BY <2>1, FS_CardinalityType, SatsAssumption
  <2>3. Fee * Cardinality(DOMAIN gamers) \in Nat
    BY <2>2
  <2>4. PICK u \in InitUtxos : LastOf(states).sats = u.sats + Fee * Cardinality(DOMAIN gamers)
    BY <1>1 DEF FundInv, CountInv, PoolHoldsFees
  <2>5. u.sats \in Nat
    BY SatsAssumption
  <2>. QED BY <2>3, <2>4, <2>5 DEF LiquidityBtc
<1>3. LastOf(states).rune_balance = Premine(claimedCookies)
  BY RunesGiveKept DEF RunesKept
<1>4. claimedCookies \in Nat /\ Premine(claimedCookies) \in Nat
  BY PremineNat, GameAssumption DEF LifeInv, GameTypeOK
<1>5. SumFunction([a \in DOMAIN gamers |-> WithdrawRunes(a)]) = SumIn(gamers)
  BY DEF SumIn, CookiesIn, SumFunction, WithdrawRunes
<1>6. SumIn(gamers) \in Nat /\ SumIn(gamers) <= claimedCookies
  BY CookiesTyped, SumInFacts DEF CoverInv, HasCookies, LifeInv, GameTypeOK
<1>. QED BY <1>2, <1>3, <1>4, <1>5, <1>6 DEF LiquidityRunes

(* If the orchestrator waits for each answer and the runes are received    *)
(* when nothing is pending, the pool owns what it would pay.               *)
THEOREM QuietPayoutsCovered ==
  ASSUME Serial, QuietMint
  PROVE  GameSpec => []PayoutsCovered
<1>1. GameInit => CoverInv /\ WaitInv
  BY InitCover, InitHistory, InitFund DEF GameInit, WaitInv
<1>2. Serial /\ LifeInv /\ CoverInv /\ WaitInv /\ [GameNext]_cookieVars
        => CoverInv' /\ WaitInv'
  BY GameKeepsCover, GameKeepsWait
<1>3. LifeInv /\ WaitInv /\ CoverInv /\ RunesInv => PayoutsCovered
  BY PayoutsFollow DEF WaitInv
<1>. QED BY <1>1, <1>2, <1>3, LifeInvariant, RunesInvariant, PTL DEF GameSpec
===============================================================================
