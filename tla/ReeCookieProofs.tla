---------------------------- MODULE ReeCookieProofs ----------------------------
(***************************************************************************)
(* Proofs about the whole exchange.  A step of ReeCookie is one of         *)
(* BlockTracker, which leaves the game alone, or one of the game, which    *)
(* leaves the chain alone; the lemmas about the two parts are put together.*)
(***************************************************************************)
EXTENDS ReeCookie, CookieGameProofs, BlockTrackerProofs

USE DEF setupVars, execVars, vars, chainVars, trackVars, blockVars, gameVars,
        cookieVars, reeVars

LEMMA ReeNextCases ==
  ASSUME [ReeNext]_reeVars
  PROVE  \/ [BlockNext]_blockVars /\ UNCHANGED gameVars
         \/ GameStep /\ UNCHANGED trackVars
BY DEF ReeNext, ReeUpgrade, BlockNext

LEMMA GameStepKeepsTrack ==
  ASSUME TrackInv, GameTypeOK, GameStep, UNCHANGED trackVars
  PROVE  TrackInv'
<1>1. TypeOK'
  BY GameStepKeepsTypes DEF GameTypeOK
<1>2. Tip' = Tip
  BY DEF Tip
<1>. QED BY <1>1, <1>2 DEF TrackInv, BlockTypeOK, HeightInv

(* Blocks and rollbacks leave the end of the game and the count alone, and *)
(* a cut of the history keeps the runes of what stays.                     *)
LEMMA BlockKeepsStatus ==
  ASSUME TrackInv, [BlockNext]_blockVars
  PROVE  /\ ~IsInitialize(gameStatus) => gameStatus' = gameStatus
         /\ gameStatus' # gameStatus => gameStatus' \notin {Ended, RunesMinted}
<1>1. CASE [Next]_vars
  BY <1>1, StepKeepsStatus
<1>2. CASE ResetBlocks
  BY <1>2 DEF ResetBlocks
<1>3. ASSUME NEW h, NEW hash, NEW txs, Reported(h, hash, txs)
      PROVE  gameStatus' = gameStatus
  BY <1>3 DEF Reported, NewBlock
<1>. QED BY <1>1, <1>2, <1>3, BlockNextCases

(* What the whole exchange keeps whoever calls it: types, blocks, set-up,  *)
(* the end of the game and the cover of the cookies.                       *)
ReeInv == TrackInv /\ LifeInv /\ CoverInv

LEMMA BlockKeepsLife ==
  ASSUME TrackInv, LifeInv, [BlockNext]_blockVars, UNCHANGED gameVars
  PROVE  TrackInv' /\ LifeInv'
<1>1. TrackInv' /\ SetupInv'
  BY BlockStepKeepsTypes, BlockStepKeepsSetupInv DEF LifeInv
<1>2. GameTypeOK'
  BY <1>1 DEF LifeInv, GameTypeOK, TrackInv, BlockTypeOK
<1>3. EndInv'
  BY BlockKeepsStatus, StatusFacts DEF LifeInv, EndInv
<1>. QED BY <1>1, <1>2, <1>3 DEF LifeInv

LEMMA BlockKeepsCover ==
  ASSUME TrackInv, LifeInv, CoverInv, [BlockNext]_blockVars, UNCHANGED gameVars
  PROVE  CoverInv'
<1>1. TypeOK /\ SetupInv /\ claimedCookies \in Nat
  BY GameAssumption DEF LifeInv, GameTypeOK
<1>2. CASE [Next]_vars
  BY <1>1, <1>2, StepKeepsCover
<1>3. CASE UNCHANGED gamers
  BY <1>3 DEF CoverInv, SumIn, CookiesIn
<1>4. ResetBlocks => UNCHANGED gamers
  BY DEF ResetBlocks
<1>5. ASSUME NEW h, NEW hash, NEW txs, Reported(h, hash, txs)
      PROVE  UNCHANGED gamers
  BY <1>5 DEF Reported, NewBlock
<1>. QED BY <1>2, <1>3, <1>4, <1>5, BlockNextCases

LEMMA ReeStepKeepsInv ==
  ASSUME ReeInv, [ReeNext]_reeVars
  PROVE  ReeInv'
<1>1. CASE [BlockNext]_blockVars /\ UNCHANGED gameVars
  BY <1>1, BlockKeepsLife, BlockKeepsCover DEF ReeInv
<1>2. CASE GameStep /\ UNCHANGED trackVars
  <2>1. GameTypeOK /\ TypeOK /\ SetupInv /\ EndInv
    BY DEF ReeInv, LifeInv, GameTypeOK
  <2>. QED BY <1>2, <2>1, GameStepKeepsTrack, GameStepKeepsTypes, GameStepKeepsSetup,
              GameStepKeepsEnd, GameStepKeepsCover DEF ReeInv, LifeInv
<1>. QED BY <1>1, <1>2, ReeNextCases

LEMMA ReeInvariant == ReeSpec => []ReeInv
<1>1. ReeInit => ReeInv
  <2>1. ReeInit => GameInit /\ BlockInit
    BY DEF ReeInit, GameInit, BlockInit
  <2>. QED BY <2>1, BlockInitTypes, GameInitTypes, GameInitInvs, InitCover
           DEF ReeInv, LifeInv
<1>2. ReeInv /\ [ReeNext]_reeVars => ReeInv'
  BY ReeStepKeepsInv
<1>. QED BY <1>1, <1>2, PTL DEF ReeSpec

-------------------------------------------------------------------------------
(* An orchestrator that waits for each answer.                             *)
LEMMA ReeStepKeepsWait ==
  ASSUME Serial, ReeInv, WaitInv, [ReeNext]_reeVars
  PROVE  WaitInv'
<1>1. TrackInv /\ GameTypeOK /\ TypeOK /\ SetupInv /\ HistoryInv /\ FundInv
  BY DEF ReeInv, LifeInv, GameTypeOK, WaitInv
<1>2. CASE [BlockNext]_blockVars
  BY <1>1, <1>2, BlockStepKeepsPool DEF PoolInv, WaitInv
<1>3. CASE GameStep
  BY <1>1, <1>3, GameStepKeepsHistory, GameStepKeepsFund DEF WaitInv
<1>. QED BY <1>2, <1>3, ReeNextCases

LEMMA ReeWaitInvariant ==
  ASSUME Serial
  PROVE  ReeSpec => []WaitInv
<1>1. ReeInit => WaitInv
  BY InitHistory, InitFund DEF ReeInit, GameInit, WaitInv
<1>2. Serial /\ ReeInv /\ WaitInv /\ [ReeNext]_reeVars => WaitInv'
  BY ReeStepKeepsWait
<1>. QED BY <1>1, <1>2, ReeInvariant, PTL DEF ReeSpec

-------------------------------------------------------------------------------
(* The runes.  A block takes pool states away and adds none.               *)
LEMMA BlockKeepsRunes ==
  ASSUME TrackInv, LifeInv, RunesInv, [BlockNext]_blockVars, UNCHANGED gameVars
  PROVE  RunesInv'
<1>1. GameTypeOK /\ TypeOK /\ SetupInv
  BY DEF LifeInv, GameTypeOK
<1>2. CASE [Next]_vars
  BY <1>1, <1>2, StepKeepsRunes
<1>3. CASE UNCHANGED <<states, calls, gameStatus>>
  BY <1>3 DEF RunesInv, AllHave, RunesOfNow, InFlight, Premine
<1>4. ResetBlocks => UNCHANGED <<states, calls, gameStatus>>
  BY DEF ResetBlocks
<1>5. ASSUME NEW h, NEW hash, NEW txs, Reported(h, hash, txs)
      PROVE  RunesInv'
  <2>1. UNCHANGED <<calls, gameStatus>> /\ \E k \in Nat : Cut(k)
    BY <1>1, <1>5, NewBlockCuts DEF Reported
  <2>2. \A i \in DOMAIN states' : \E j \in DOMAIN states : states'[i] = states[j]
    BY <1>1, <2>1, CutFacts
  <2>3. RunesOfNow' = RunesOfNow /\ InFlight' = InFlight
    BY <2>1 DEF RunesOfNow, InFlight, Premine
  <2>. QED BY <2>1, <2>2, <2>3 DEF RunesInv, AllHave
<1>. QED BY <1>2, <1>3, <1>4, <1>5, BlockNextCases

LEMMA ReeStepKeepsRunes ==
  ASSUME QuietMint, ReeInv, RunesInv, [ReeNext]_reeVars
  PROVE  RunesInv'
<1>1. CASE [BlockNext]_blockVars /\ UNCHANGED gameVars
  BY <1>1, BlockKeepsRunes DEF ReeInv
<1>2. CASE GameStep
  BY <1>2, GameStepKeepsRunes DEF ReeInv, LifeInv
<1>. QED BY <1>1, <1>2, ReeNextCases

LEMMA ReeRunesInvariant ==
  ASSUME QuietMint
  PROVE  ReeSpec => []RunesInv
<1>1. ReeInit => RunesInv
  BY InitRunes DEF ReeInit
<1>2. QuietMint /\ ReeInv /\ RunesInv /\ [ReeNext]_reeVars => RunesInv'
  BY ReeStepKeepsRunes
<1>. QED BY <1>1, <1>2, ReeInvariant, PTL DEF ReeSpec

(* If the runes are received when nothing is pending, the newest pool      *)
(* state keeps them through every later registration, rollback, block,     *)
(* reorganisation and reset.                                               *)
THEOREM WholeRunesKept ==
  ASSUME QuietMint
  PROVE  ReeSpec => []RunesKept
<1>1. ReeInv /\ RunesInv => RunesKept
  BY RunesGiveKept DEF ReeInv
<1>. QED BY <1>1, ReeInvariant, ReeRunesInvariant, PTL

(* If also the orchestrator waits for each answer, the pool owns the       *)
(* bitcoin and the runes that it would pay to its gamers and as liquidity. *)
THEOREM WholePayoutsCovered ==
  ASSUME Serial, QuietMint
  PROVE  ReeSpec => []PayoutsCovered
<1>1. ReeInv /\ WaitInv /\ RunesInv => PayoutsCovered
  BY PayoutsFollow DEF ReeInv, WaitInv
<1>. QED BY <1>1, ReeInvariant, ReeWaitInvariant, ReeRunesInvariant, PTL

-------------------------------------------------------------------------------
(* Who stays in GAMER.                                                     *)

\* The gamers who are settled stay and keep their cookies.
SettledStay ==
  \A a \in DOMAIN gamers :
    ~IsUnsettled(a) => a \in DOMAIN gamers' /\ gamers'[a].cookies >= gamers[a].cookies

\* The gamers who stay keep their cookies.
CookiesStay ==
  \A a \in DOMAIN gamers : a \in DOMAIN gamers' => gamers'[a].cookies >= gamers[a].cookies

(* A commit that fits is of a new gamer; a rollback pops states that are   *)
(* not the oldest.                                                         *)
LEMMA PoolKeepsSettled ==
  ASSUME Serial, TypeOK, SetupInv, HistoryInv, [Next]_vars
  PROVE  SettledStay /\ CookiesStay
<1>1. \A a \in DOMAIN gamers : gamers[a].cookies \in Nat
  BY DEF TypeOK, GamerType
<1>2. CASE UNCHANGED gamers
  BY <1>1, <1>2 DEF SettledStay, CookiesStay
<1>3. ASSUME NEW c \in Calls, CommitRegister(c) PROVE SettledStay /\ CookiesStay
  <2>1. Sender[calls[c].tx] \notin DOMAIN gamers
    BY <1>3, CommitFacts DEF HistoryInv, FitInv, Fits
  <2>2. gamers' = Insert(gamers, Sender[calls[c].tx], NewGamer)
    BY <1>3 DEF CommitRegister
  <2>3. \A a \in DOMAIN gamers : a \in DOMAIN gamers' /\ gamers'[a] = gamers[a]
    BY <2>1, <2>2 DEF Insert
  <2>. QED BY <1>1, <2>3 DEF SettledStay, CookiesStay
<1>4. ASSUME NEW t \in Txids, RollbackTx(t) PROVE SettledStay /\ CookiesStay
  <2>1. /\ DOMAIN gamers' = DOMAIN gamers \ PoppedGamers(states, t, "Register")
        /\ \A a \in DOMAIN gamers' :
             gamers'[a] = gamers[a] \/ gamers'[a] = [gamers[a] EXCEPT !.is_withdrawn = FALSE]
    BY <1>4 DEF RollbackTx, RollbackGamers
  <2>2. \A a \in DOMAIN gamers' : gamers'[a].cookies = gamers[a].cookies
    BY <2>1 DEF TypeOK, GamerType
  <2>3. Position(states, t) \in 2 .. Len(states)
    BY <1>4, RollbackFacts
  <2>4. ASSUME NEW a \in PoppedGamers(states, t, "Register") PROVE IsUnsettled(a)
    <3>1. PICK i \in Position(states, t) .. Len(states) : states[i].gamer = a
      BY DEF PoppedGamers, Popped
    <3>2. i \in 2 .. Len(states)
      BY <2>3, LenProperties DEF TypeOK
    <3>. QED BY <3>1, <3>2 DEF IsUnsettled
  <2>. QED BY <1>1, <2>1, <2>2, <2>4 DEF SettledStay, CookiesStay
<1>. QED BY <1>2, <1>3, <1>4, StepFacts

LEMMA GameKeepsSettled ==
  ASSUME GameTypeOK, GameStep
  PROVE  SettledStay /\ CookiesStay
<1>1. \A a \in DOMAIN gamers : gamers[a].cookies \in Nat
  BY DEF GameTypeOK, TypeOK, GamerType
<1>2. CookiesPerClaim \in Nat
  BY GameAssumption
<1>3. CASE UNCHANGED gamers
  BY <1>1, <1>3 DEF SettledStay, CookiesStay
<1>4. ASSUME NEW a \in DOMAIN gamers, DOMAIN gamers' = DOMAIN gamers,
             gamers'[a].cookies = gamers[a].cookies + CookiesPerClaim,
             \A b \in DOMAIN gamers \ {a} : gamers'[b] = gamers[b]
      PROVE  SettledStay /\ CookiesStay
  <2>1. gamers'[a].cookies >= gamers[a].cookies
    BY <1>1, <1>2, <1>4
  <2>2. \A b \in DOMAIN gamers \ {a} : gamers'[b].cookies >= gamers[b].cookies
    BY <1>1, <1>4
  <2>. QED BY <1>4, <2>1, <2>2 DEF SettledStay, CookiesStay
<1>. QED BY <1>3, <1>4, GameStepGamers

LEMMA ReeKeepsSettled ==
  ASSUME Serial, ReeInv, WaitInv, [ReeNext]_reeVars
  PROVE  SettledStay /\ CookiesStay
<1>1. TrackInv /\ GameTypeOK /\ TypeOK /\ SetupInv /\ HistoryInv
  BY DEF ReeInv, LifeInv, GameTypeOK, WaitInv
<1>2. CASE [BlockNext]_blockVars
  <2>1. UNCHANGED gamers => SettledStay /\ CookiesStay
    BY <1>1 DEF SettledStay, CookiesStay, TypeOK, GamerType
  <2>2. ResetBlocks => UNCHANGED gamers
    BY DEF ResetBlocks
  <2>3. ASSUME NEW h, NEW hash, NEW txs, Reported(h, hash, txs)
        PROVE  UNCHANGED gamers
    BY <2>3 DEF Reported, NewBlock
  <2>. QED BY <1>1, <1>2, <2>1, <2>2, <2>3, PoolKeepsSettled, BlockNextCases
<1>3. CASE GameStep
  BY <1>1, <1>3, GameKeepsSettled
<1>. QED BY <1>2, <1>3, ReeNextCases

(* If the orchestrator waits for each answer, what a gamer owns after his  *)
(* registration is settled is his for good.                                *)
THEOREM SettledStayForGood ==
  ASSUME Serial
  PROVE  ReeSpec => SettledGamersStay
<1>1. Serial /\ ReeInv /\ WaitInv /\ [ReeNext]_reeVars
        => [\A a \in DOMAIN gamers :
              ~IsUnsettled(a) =>
                /\ a \in DOMAIN gamers'
                /\ gamers'[a].cookies >= gamers[a].cookies]_reeVars
  BY ReeKeepsSettled DEF SettledStay
<1>. QED BY <1>1, ReeInvariant, ReeWaitInvariant, PTL DEF ReeSpec, SettledGamersStay

-------------------------------------------------------------------------------
(* The refinement: the exchange keeps the promise of CookiePurse.          *)

PurseRunes == IF states = <<>> THEN 0 ELSE LastOf(states).rune_balance

Purses == [a \in DOMAIN gamers |-> gamers[a].cookies]

\* The runes the refinement shows are the runes of now.
PurseInv == PurseRunes = RunesOfNow

LEMMA PurseRunesAre ==
  ASSUME LifeInv, RunesInv
  PROVE  PurseInv
<1>1. CASE states = <<>>
  <2>1. gameStatus # RunesMinted
    BY <1>1, StartedFacts, StatusFacts DEF LifeInv
  <2>. QED BY <1>1, <2>1 DEF PurseInv, PurseRunes, RunesOfNow
<1>2. CASE states # <<>>
  <2>1. Len(states) \in DOMAIN states
    BY <1>2, EmptySeq, LenProperties DEF LifeInv, GameTypeOK, TypeOK
  <2>. QED BY <1>2, <2>1 DEF PurseInv, PurseRunes, RunesInv, AllHave, LastOf
<1>. QED BY <1>1, <1>2

(* The end of execute_tx lets its gamer join: he is new.                   *)
LEMMA CommitIsJoin ==
  ASSUME TypeOK, SetupInv, HistoryInv, NEW c \in Calls, CommitRegister(c),
         UNCHANGED gameVars, PurseRunes' = PurseRunes
  PROVE  Purse!Next
<1>1. PICK me \in Addresses :
        me \notin DOMAIN gamers /\ gamers' = Insert(gamers, me, NewGamer)
  BY CommitFacts, TxAssumption DEF HistoryInv, FitInv, Fits, CommitRegister
<1>2. Purses' = [b \in DOMAIN gamers \cup {me} |-> IF b = me THEN 0 ELSE gamers[b].cookies]
  BY <1>1 DEF Purses, Insert, NewGamer
<1>3. Purse!Join(me)
  BY <1>1, <1>2 DEF Purse!Join, Purses, PurseRunes
<1>. QED BY <1>3 DEF Purse!Next

(* rollback_tx lets the gamers go whose registrations it undoes.           *)
LEMMA RollbackIsLeave ==
  ASSUME TypeOK, NEW t \in Txids, RollbackTx(t),
         UNCHANGED gameVars, PurseRunes' = PurseRunes
  PROVE  Purse!Next
<1>1. PICK group : group = DOMAIN gamers \cap PoppedGamers(states, t, "Register")
  OBVIOUS
<1>2. /\ DOMAIN gamers' = DOMAIN gamers \ group
      /\ \A a \in DOMAIN gamers' :
           gamers'[a] = gamers[a] \/ gamers'[a] = [gamers[a] EXCEPT !.is_withdrawn = FALSE]
  BY <1>1 DEF RollbackTx, RollbackGamers
<1>3. \A a \in DOMAIN gamers' : gamers'[a].cookies = gamers[a].cookies
  BY <1>2 DEF TypeOK, GamerType
<1>4. Purses' = [a \in DOMAIN gamers \ group |-> gamers[a].cookies]
  BY <1>2, <1>3 DEF Purses
<1>5. Purse!Leave(group)
  BY <1>2, <1>4 DEF Purse!Leave, Purses, PurseRunes
<1>6. group \in SUBSET DOMAIN Purses
  BY <1>1 DEF Purses
<1>. QED BY <1>5, <1>6 DEF Purse!Next, Purses

LEMMA PoolStepIsPurseStep ==
  ASSUME Serial, TypeOK, SetupInv, HistoryInv, [Next]_vars, UNCHANGED gameVars,
         PurseRunes' = PurseRunes
  PROVE  [Purse!Next]_(Purse!purseVars)
<1>1. CASE UNCHANGED gamers
  BY <1>1 DEF Purse!purseVars, PurseRunes
<1>. QED BY <1>1, StepFacts, CommitIsJoin, RollbackIsLeave

(* claim: nobody's own cookies overflow before the total does, so that the *)
(* total is never written without them.                                    *)
LEMMA ClaimIsClaim ==
  ASSUME GameTypeOK, CoverInv, NEW p \in DOMAIN principals, Claim(p),
         PurseRunes' = PurseRunes
  PROVE  Purse!Next
<1>1. PICK a : a = principals[p]
  OBVIOUS
<1>2. /\ a \in DOMAIN gamers /\ ~isEnd /\ isEnd' = isEnd
      /\ claimedCookies' = claimedCookies + CookiesPerClaim
      /\ claimedCookies + CookiesPerClaim <= MaxClaimed
      /\ gamers' = IF gamers[a].cookies + CookiesPerClaim <= MaxU128
                   THEN [gamers EXCEPT
                           ![a].cookies = gamers[a].cookies + CookiesPerClaim,
                           ![a].last_click_time = now]
                   ELSE gamers
  BY <1>1 DEF Claim, AbleClaim
<1>3. /\ claimedCookies \in Nat /\ CookiesPerClaim \in Nat
      /\ MaxClaimed \in Nat /\ MaxU128 \in Nat /\ MaxClaimed <= MaxU128
      /\ \A b \in DOMAIN gamers : gamers[b] \in GamerType /\ gamers[b].cookies \in Nat
  BY GameAssumption DEF GameTypeOK, TypeOK, GamerType
<1>4. gamers[a].cookies <= claimedCookies
  <2>1. HasCookies(gamers) /\ SumIn(gamers) <= claimedCookies
    BY <1>3 DEF CoverInv, HasCookies
  <2>2. /\ SumIn(gamers) \in Nat /\ CookiesIn(gamers)[a] = gamers[a].cookies
        /\ IsFiniteSet(DOMAIN gamers)
        /\ \A b \in DOMAIN gamers : CookiesIn(gamers)[b] \in Nat
    BY <1>2, <2>1, SumInFacts DEF HasCookies
  <2>3. SumIn(gamers) = CookiesIn(gamers)[a]
                          + SumFunctionOnSet(CookiesIn(gamers), DOMAIN gamers \ {a})
    BY <1>2, <2>2, SumRemove DEF SumIn
  <2>4. SumFunctionOnSet(CookiesIn(gamers), DOMAIN gamers \ {a}) \in Nat
    <3>1. IsFiniteSet(DOMAIN gamers \ {a})
      BY <2>2, FS_Subset
    <3>. QED BY <2>2, <3>1, SumNat
  <2>. QED BY <1>2, <1>3, <2>1, <2>2, <2>3, <2>4
<1>5. gamers[a].cookies + CookiesPerClaim <= MaxU128
  BY <1>2, <1>3, <1>4
<1>6. Purses' = [Purses EXCEPT ![a] = Purses[a] + CookiesPerClaim]
  <2>1. PICK mine : mine = [gamers[a] EXCEPT !.cookies = gamers[a].cookies + CookiesPerClaim,
                                             !.last_click_time = now]
    OBVIOUS
  <2>2. mine.cookies = gamers[a].cookies + CookiesPerClaim
    BY <1>2, <1>3, <2>1 DEF GamerType
  <2>3. gamers' = [gamers EXCEPT ![a] = mine]
    BY <1>2, <1>5, <2>1
  <2>. QED BY <1>2, <2>2, <2>3 DEF Purses
<1>7. Purse!Claim(a)
  BY <1>2, <1>6 DEF Purse!Claim, Purses, PurseRunes
<1>. QED BY <1>2, <1>7 DEF Purse!Next

(* The steps of the game: claim, end_game, the receipt of the runes; the   *)
(* clock and the etchings do not show.                                     *)
LEMMA GameStepIsPurseStep ==
  ASSUME GameTypeOK, SetupInv, EndInv, CoverInv, PurseInv, PurseInv', GameStep
  PROVE  [Purse!Next]_(Purse!purseVars)
<1>1. ASSUME NEW p \in DOMAIN principals, Claim(p) PROVE Purse!Next
  <2>1. PurseRunes' = PurseRunes
    BY <1>1 DEF Claim, PurseRunes
  <2>. QED BY <1>1, <2>1, ClaimIsClaim
<1>2. CASE EndGame
  <2>1. gameStatus = Play /\ isEnd' = TRUE
        /\ UNCHANGED <<gamers, states, claimedCookies>>
    BY <1>2 DEF EndGame
  <2>2. ~isEnd
    BY <2>1, StatusFacts DEF EndInv
  <2>3. Purses' = Purses /\ PurseRunes' = PurseRunes
    BY <2>1 DEF Purses, PurseRunes
  <2>4. Purse!Close
    BY <2>1, <2>2, <2>3 DEF Purse!Close, Purses, PurseRunes
  <2>. QED BY <2>4 DEF Purse!Next
<1>3. CASE Mint
  <2>1. /\ gameStatus = Ended /\ gameStatus' = RunesMinted
        /\ UNCHANGED <<gamers, claimedCookies, isEnd>>
    BY <1>3 DEF Mint, UpdateRuneInfo
  <2>2. isEnd
    BY <2>1 DEF EndInv
  <2>3. PurseRunes = 0 /\ PurseRunes' = Premine(claimedCookies)
    BY <2>1, StatusFacts DEF PurseInv, RunesOfNow, Premine
  <2>4. Purses' = Purses
    BY <2>1 DEF Purses
  <2>5. Purse!Mint
    BY <2>1, <2>2, <2>3, <2>4 DEF Purse!Mint, Purses, PurseRunes
  <2>. QED BY <2>5 DEF Purse!Next
<1>4. CASE UNCHANGED <<gamers, states, claimedCookies, isEnd>>
  <2>1. Purses' = Purses /\ PurseRunes' = PurseRunes
    BY <1>4 DEF Purses, PurseRunes
  <2>. QED BY <1>4, <2>1 DEF Purse!purseVars, Purses, PurseRunes
<1>. QED BY <1>1, <1>2, <1>3, <1>4 DEF GameStep, StartEtching, EtchRuneCall,
            EtchRuneReply, EtchRuneFails, Tick

LEMMA BlockStepIsPurseStep ==
  ASSUME Serial, ReeInv, WaitInv, PurseInv, PurseInv',
         [BlockNext]_blockVars, UNCHANGED gameVars
  PROVE  [Purse!Next]_(Purse!purseVars)
<1>1. TrackInv /\ GameTypeOK /\ TypeOK /\ SetupInv /\ HistoryInv
  BY DEF ReeInv, LifeInv, GameTypeOK, WaitInv
<1>2. PurseRunes' = PurseRunes
  <2>1. gameStatus' = RunesMinted <=> gameStatus = RunesMinted
    BY <1>1, BlockKeepsStatus, StatusFacts
  <2>. QED BY <2>1 DEF PurseInv, RunesOfNow, Premine
<1>3. CASE UNCHANGED gamers
  <2>1. Purses' = Purses
    BY <1>3 DEF Purses
  <2>. QED BY <1>2, <2>1 DEF Purse!purseVars, Purses, PurseRunes
<1>4. ResetBlocks => UNCHANGED gamers
  BY DEF ResetBlocks
<1>5. ASSUME NEW h, NEW hash, NEW txs, Reported(h, hash, txs)
      PROVE  UNCHANGED gamers
  BY <1>5 DEF Reported, NewBlock
<1>. QED BY <1>1, <1>2, <1>3, <1>4, <1>5, BlockNextCases, PoolStepIsPurseStep

LEMMA ReeStepIsPurseStep ==
  ASSUME Serial, ReeInv, WaitInv, PurseInv, PurseInv', [ReeNext]_reeVars
  PROVE  [Purse!Next]_(Purse!purseVars)
<1>1. GameTypeOK /\ SetupInv /\ EndInv /\ CoverInv
  BY DEF ReeInv, LifeInv
<1>. QED BY <1>1, ReeNextCases, BlockStepIsPurseStep, GameStepIsPurseStep

LEMMA InitIsPurseInit ==
  ASSUME ReeInit
  PROVE  Purse!Init
<1>1. gamers = << >> /\ claimedCookies = 0 /\ isEnd = FALSE /\ states = <<>>
  BY DEF ReeInit, GameInit, Init, SetupInit
<1>2. Purses = << >>
  BY <1>1 DEF Purses
<1>. QED BY <1>1, <1>2 DEF Purse!Init, Purses, PurseRunes

(* If the orchestrator waits for each answer and the runes are received    *)
(* when nothing is pending, the exchange with its registrations, blocks    *)
(* and rollbacks keeps the promise of CookiePurse: nobody loses cookies    *)
(* unless he leaves, all that were claimed are counted, and they become    *)
(* runes once.                                                             *)
THEOREM PurseImplemented ==
  ASSUME Serial, QuietMint
  PROVE  ReeSpec => ImplementsPurse
<1>1. ReeInv /\ RunesInv => PurseInv
  BY PurseRunesAre DEF ReeInv
<1>2. ReeInit => Purse!Init
  BY InitIsPurseInit
<1>3. Serial /\ ReeInv /\ WaitInv /\ PurseInv /\ PurseInv' /\ [ReeNext]_reeVars
        => [Purse!Next]_(Purse!purseVars)
  BY ReeStepIsPurseStep
<1>. QED BY <1>1, <1>2, <1>3, ReeInvariant, ReeWaitInvariant, ReeRunesInvariant, PTL
         DEF ReeSpec, ImplementsPurse, Purse!Spec

-------------------------------------------------------------------------------
(* The chain.  The game touches neither blocks nor records, nor which      *)
(* registration a pool state belongs to, so that it keeps what is known of *)
(* the chain, the blocks and the order of the history.                     *)

BitcoinInv == FollowInv /\ MinedInv /\ OldestInv /\ OrderInv /\ IdInv

LEMMA GameStepKeepsFollow ==
  ASSUME FollowInv, GameTypeOK, GameStep, UNCHANGED trackVars
  PROVE  FollowInv'
<1>1. TrackInv'
  BY GameStepKeepsTrack DEF FollowInv
<1>. QED BY <1>1 DEF FollowInv, CopyInv, GapInv

LEMMA GameStepKeepsMined ==
  ASSUME MinedInv, TypeOK, GameStep, UNCHANGED trackVars
  PROVE  MinedInv'
<1>1. txRecords' = txRecords
  BY GameStepFacts
<1>2. Mined' = Mined /\ Tip' = Tip
  BY DEF Mined, TxsOf, Tip
<1>. QED BY <1>1, <1>2 DEF MinedInv, UniqueInv, StoredInv, ConfirmedIsMined, Holds

LEMMA GameStepKeepsOldest ==
  ASSUME OldestInv, TypeOK, GameStep, UNCHANGED trackVars
  PROVE  OldestInv'
<1>1. states # <<>> => 1 \in DOMAIN states
  BY EmptySeq, LenProperties DEF TypeOK
<1>2. /\ states' = <<>> <=> states = <<>>
      /\ \A i \in DOMAIN states : /\ states'[i].id = states[i].id
                                  /\ states'[i].action = states[i].action
  BY GameStepFacts
<1>. QED BY <1>1, <1>2 DEF OldestInv, Holds, IsRegister

LEMMA GameStepKeepsIds ==
  ASSUME IdInv, TypeOK, GameStep
  PROVE  IdInv'
BY GameStepFacts DEF IdInv, IsRegister

LEMMA GameStepKeepsLive ==
  ASSUME LiveInv, TypeOK, GameStep, UNCHANGED trackVars
  PROVE  LiveInv'
<1>1. \A t : HasTx(states, t) => HasTx(states', t)
  BY GameStepFacts DEF HasTx
<1>. QED BY <1>1 DEF LiveInv, Holds, ConfirmedHeight

LEMMA ReeStepKeepsChain ==
  ASSUME ReeInv, BitcoinInv, [ReeNext]_reeVars
  PROVE  BitcoinInv'
<1>1. TrackInv /\ GameTypeOK /\ TypeOK /\ SetupInv
  BY DEF ReeInv, LifeInv, GameTypeOK
<1>2. CASE [BlockNext]_blockVars
  BY <1>1, <1>2, BlockStepKeepsFollow, BlockStepKeepsMined, BlockStepKeepsOldest,
     BlockStepKeepsOrder, BlockStepKeepsIds DEF BitcoinInv
<1>3. CASE GameStep /\ UNCHANGED trackVars
  <2>1. OrderInv'
    BY <1>3 DEF BitcoinInv, OrderInv
  <2>. QED BY <1>1, <1>3, <2>1, GameStepKeepsFollow, GameStepKeepsMined,
              GameStepKeepsOldest, GameStepKeepsIds DEF BitcoinInv
<1>. QED BY <1>2, <1>3, ReeNextCases

LEMMA InitChain ==
  ASSUME ReeInit
  PROVE  BitcoinInv /\ LiveInv
<1>1. BlockInit
  BY DEF ReeInit, GameInit, BlockInit
<1>2. DOMAIN blocks = {} /\ DOMAIN chain = {} /\ txRecords = {} /\ states = <<>>
  BY <1>1 DEF BlockInit, TrackInit, Init, SetupInit
<1>3. \A t : t \notin Mined
  BY <1>2, MinedFacts
<1>4. FollowInv
  BY <1>1, <1>2, BlockInitTypes DEF FollowInv, CopyInv, GapInv
<1>. QED BY <1>2, <1>3, <1>4 DEF BitcoinInv, MinedInv, UniqueInv, StoredInv,
            ConfirmedIsMined, OldestInv, OrderInv, OnePlace, Parents, At, IdInv, LiveInv

LEMMA ReeChainInvariant == ReeSpec => []BitcoinInv
<1>1. ReeInit => BitcoinInv
  BY InitChain
<1>2. ReeInv /\ BitcoinInv /\ [ReeNext]_reeVars => BitcoinInv'
  BY ReeStepKeepsChain
<1>. QED BY <1>1, <1>2, ReeInvariant, PTL DEF ReeSpec

LEMMA ReeLiveInvariant ==
  ASSUME Serial, ~LateConfirm
  PROVE  ReeSpec => []LiveInv
<1>1. ReeInit => LiveInv
  BY InitChain
<1>2. ~LateConfirm /\ ReeInv /\ WaitInv /\ BitcoinInv /\ BitcoinInv' /\ LiveInv
        /\ [ReeNext]_reeVars => LiveInv'
  <2>1. ReeInv /\ WaitInv => PoolInv /\ TypeOK
    BY DEF ReeInv, LifeInv, GameTypeOK, WaitInv, PoolInv
  <2>. QED BY <2>1, ReeNextCases, BlockStepKeepsLive, GameStepKeepsLive DEF BitcoinInv
<1>. QED BY <1>1, <1>2, ReeInvariant, ReeWaitInvariant, ReeChainInvariant, PTL DEF ReeSpec

(* While the game goes on, the stored blocks stay blocks of the chain      *)
(* without a gap.                                                          *)
THEOREM WholeBlocksContiguous == ReeSpec => []BlocksContiguous
<1>1. BitcoinInv => BlocksContiguous
  BY FollowIsContiguous DEF BitcoinInv
<1>. QED BY <1>1, ReeChainInvariant, PTL

(* The records follow the chain: what is mined is confirmed, and what is   *)
(* confirmed is mined unless the exchange was made to forget a block.      *)
THEOREM WholeRecordsFollow == ReeSpec => []ConfirmedIsMined
<1>1. BitcoinInv => ConfirmedIsMined
  BY DEF BitcoinInv, MinedInv
<1>. QED BY <1>1, ReeChainInvariant, PTL

(* The state no rollback reaches stays mined.                              *)
THEOREM WholeOldestMined == ReeSpec => []OldestIsFinal
<1>1. BitcoinInv => OldestIsFinal
  BY MinedFacts DEF BitcoinInv, OldestInv, OldestIsFinal
<1>. QED BY <1>1, ReeChainInvariant, PTL

(* If the orchestrator waits for each answer and no transaction is mined   *)
(* that it made the exchange roll back, whatever is confirmed in a stored  *)
(* block can be finalized, and new_block never panics on the next one.     *)
LEMMA WholeCanFinalize ==
  ASSUME ~LateConfirm, ReeInv, WaitInv, BitcoinInv, LiveInv
  PROVE  ConfirmedCanFinalize /\ NewBlockNeverPanics
<1>1. PoolInv
  BY DEF ReeInv, LifeInv, GameTypeOK, WaitInv, PoolInv
<1>2. ConfirmedCanFinalize
  BY <1>1, LiveCanFinalize DEF BitcoinInv
<1>3. NewBlockNeverPanics
  BY <1>1, BroughtCanProcess, TxListsAreSeqs DEF BitcoinInv, NewBlockNeverPanics
<1>. QED BY <1>2, <1>3

THEOREM WholeStaysFinalizable ==
  ASSUME Serial, ~LateConfirm
  PROVE  ReeSpec => [](ConfirmedCanFinalize /\ NewBlockNeverPanics)
<1>1. ~LateConfirm /\ ReeInv /\ WaitInv /\ BitcoinInv /\ LiveInv
        => ConfirmedCanFinalize /\ NewBlockNeverPanics
  BY WholeCanFinalize
<1>. QED BY <1>1, ReeInvariant, ReeWaitInvariant, ReeChainInvariant, ReeLiveInvariant, PTL

-------------------------------------------------------------------------------
(* The game.  new_block takes states off the history and changes neither   *)
(* gamers nor principals, and a rollback or a commit is one that           *)
(* CookieGameProofs knows.                                                 *)

\* What the game promises a gamer and the exchange, whoever calls it.
ServiceInv == RegistersRecorded /\ GamersCanClaim /\ ClaimsAreSpaced

\* A confirmed record replaces an unconfirmed one of the same transaction.
LEMMA NewBlockKeepsRecords ==
  ASSUME TypeOK, RegistersRecorded, NEW h, NEW hash, NEW txs, NewBlock(h, hash, txs)
  PROVE  RegistersRecorded'
<1>1. PICK k \in Nat : Cut(k)
  BY NewBlockCuts
<1>2. \A i \in DOMAIN states' : k + i \in DOMAIN states /\ states'[i] = states[k + i]
  BY <1>1, CutFacts
<1>3. txRecords' = NewRecords(h, hash, txs)
  BY DEF NewBlock
<1>4. ASSUME NEW t, NEW confirmed \in BOOLEAN, <<t, confirmed>> \in txRecords
      PROVE  \E c \in BOOLEAN : <<t, c>> \in NewRecords(h, hash, txs)
  <2> DEFINE undone == {u \in TxsOf(blocks, {g \in DOMAIN blocks : g >= h}) :
                          <<u, TRUE>> \in txRecords}
  <2>1. ReorgRecords(h) = (txRecords \ (undone \X {TRUE})) \cup (undone \X {FALSE})
    BY DEF ReorgRecords
  <2>. HIDE DEF undone
  <2>2. \E c \in BOOLEAN : <<t, c>> \in ReorgRecords(h)
    <3>1. CASE t \in undone
      BY <2>1, <3>1
    <3>2. CASE t \notin undone
      BY <1>4, <2>1, <3>2
    <3>. QED BY <3>1, <3>2
  <2>3. ASSUME NEW base, NEW done, NEW c \in BOOLEAN, <<t, c>> \in base
        PROVE  <<t, c>> \in ConfirmRecords(base, done)
    BY <2>3 DEF ConfirmRecords
  <2>. QED BY <1>4, <2>2, <2>3 DEF NewRecords
<1>. QED BY <1>2, <1>3, <1>4 DEF RegistersRecorded, IsRegister

LEMMA ReeStepKeepsService ==
  ASSUME ReeInv, ServiceInv, [ReeNext]_reeVars
  PROVE  ServiceInv'
<1>1. TrackInv /\ GameTypeOK /\ TypeOK /\ SetupInv /\ now \in Nat
  BY GameAssumption DEF ReeInv, LifeInv, GameTypeOK
<1>2. CASE [Next]_vars /\ UNCHANGED gameVars
  BY <1>1, <1>2, StepKeepsRecords, StepKeepsPrincipals, StepKeepsSpaced DEF ServiceInv
<1>3. CASE ResetBlocks /\ UNCHANGED gameVars
  BY <1>3 DEF ResetBlocks, ServiceInv, RegistersRecorded, GamersCanClaim,
     ClaimsAreSpaced, IsRegister
<1>4. ASSUME NEW h, NEW hash, NEW txs, Reported(h, hash, txs), UNCHANGED gameVars
      PROVE  ServiceInv'
  <2>1. NewBlock(h, hash, txs) /\ UNCHANGED <<gamers, principals>>
    BY <1>4 DEF Reported, NewBlock
  <2>2. RegistersRecorded'
    BY <1>1, <2>1, NewBlockKeepsRecords DEF ServiceInv
  <2>. QED BY <1>4, <2>1, <2>2 DEF ServiceInv, GamersCanClaim, ClaimsAreSpaced
<1>5. CASE GameStep
  BY <1>1, <1>5, GameStepKeepsRecords, GameStepKeepsPrincipals, GameStepKeepsSpaced
     DEF ServiceInv
<1>. QED BY <1>1, <1>2, <1>3, <1>4, <1>5, ReeNextCases, BlockNextCases

LEMMA ReeServiceInvariant == ReeSpec => []ServiceInv
<1>1. ReeInit => ServiceInv
  BY DEF ReeInit, GameInit, Init, SetupInit, ServiceInv, RegistersRecorded,
     GamersCanClaim, ClaimsAreSpaced
<1>2. ReeInv /\ ServiceInv /\ [ReeNext]_reeVars => ServiceInv'
  BY ReeStepKeepsService
<1>. QED BY <1>1, <1>2, ReeInvariant, PTL DEF ReeSpec

(* Every registration in the history has its record in TX_RECORDS, through *)
(* reorganisations that unconfirm it and blocks that confirm it again.     *)
THEOREM WholeRecordsComplete == ReeSpec => []RegistersRecorded
<1>1. ServiceInv => RegistersRecorded
  BY DEF ServiceInv
<1>. QED BY <1>1, ReeServiceInvariant, PTL

(* Every gamer is found by his principal.                                  *)
THEOREM WholeGamersFound == ReeSpec => []GamersCanClaim
<1>1. ServiceInv => GamersCanClaim
  BY DEF ServiceInv
<1>. QED BY <1>1, ReeServiceInvariant, PTL

(* Nobody gets more cookies than the cooldown allows.                      *)
THEOREM WholeClaimsSpaced == ReeSpec => []ClaimsAreSpaced
<1>1. ServiceInv => ClaimsAreSpaced
  BY DEF ServiceInv
<1>. QED BY <1>1, ReeServiceInvariant, PTL

(* What the gamers own together was counted as claimed.                    *)
THEOREM WholeCookiesCovered == ReeSpec => []CookiesCovered
<1>1. ReeInv => CookiesCovered
  BY CoverGivesCovered DEF ReeInv, LifeInv
<1>. QED BY <1>1, ReeInvariant, PTL

(* The flag that stops claims and the status agree.                        *)
THEOREM WholeEndAgrees == ReeSpec => []EndAgrees
<1>1. ReeInv => EndAgrees
  BY LifeAgrees DEF ReeInv
<1>. QED BY <1>1, ReeInvariant, PTL

(* From the end of the game on the number of cookies is final.             *)
THEOREM WholeCountFinal == ReeSpec => FinalCount
<1>1. ReeInv /\ [ReeNext]_reeVars
        => [gameStatus.tag \in {"Ended", "RunesMinted"} =>
              /\ claimedCookies' = claimedCookies
              /\ gameStatus' \in {gameStatus, RunesMinted}]_cookieVars
  <2>1. ASSUME ReeInv, [BlockNext]_blockVars, UNCHANGED gameVars PROVE CountIsFinal
    <3>1. gameStatus.tag \in {"Ended", "RunesMinted"} => ~IsInitialize(gameStatus)
      BY DEF IsInitialize
    <3>. QED BY <2>1, <3>1, BlockKeepsStatus DEF ReeInv, CountIsFinal
  <2>2. ASSUME ReeInv, GameStep PROVE CountIsFinal
    BY <2>2, StepKeepsCount DEF GameNext, ReeInv
  <2>. QED BY <2>1, <2>2, ReeNextCases DEF CountIsFinal
<1>. QED BY <1>1, ReeInvariant, PTL DEF ReeSpec, FinalCount

-------------------------------------------------------------------------------
(* The ledger.  It does not see the runes and the cookies.                 *)
LEMMA GameStepIsLedgerStutter ==
  ASSUME TypeOK, TypeOK', GameStep
  PROVE  UNCHANGED Ledger!vars
<1>1. /\ DOMAIN gamers' = DOMAIN gamers
      /\ DOMAIN states' = DOMAIN states /\ Len(states') = Len(states)
      /\ states' = <<>> <=> states = <<>>
      /\ \A i \in DOMAIN states :
           /\ states'[i].id = states[i].id
           /\ states'[i].outpoint = states[i].outpoint
           /\ states'[i].sats = states[i].sats
           /\ states'[i].action = states[i].action
  BY GameStepFacts
<1>2. Len(states) \in Nat /\ DOMAIN states = 1 .. Len(states)
  BY LenProperties DEF TypeOK
<1>3. states # <<>> => Len(states) \in DOMAIN states
  BY <1>2, EmptySeq DEF TypeOK
<1>4. Fixed(states') = Fixed(states) /\ Fixed(states) \in 0 .. Len(states)
  <2>1. {i \in DOMAIN states' : i = 1 \/ ~IsRegister(states'[i])} =
          {i \in DOMAIN states : i = 1 \/ ~IsRegister(states[i])}
    BY <1>1 DEF IsRegister
  <2>. QED BY <2>1, FixedSplits DEF Fixed, SplitsAt, TypeOK
<1>5. PendingIds(states') = PendingIds(states)
  <2>1. \A i \in 1 .. Len(states) - Fixed(states) : Fixed(states) + i \in DOMAIN states
    BY <1>2, <1>4
  <2>. QED BY <1>1, <1>4, <2>1 DEF PendingIds
<1>6. LedgerPending' = LedgerPending
  BY <1>5, LedgerPendingIs
<1>7. UNCHANGED <<IF states = <<>> THEN None ELSE LastOf(states).outpoint,
                  IF states = <<>> THEN 0 ELSE LastOf(states).sats, DOMAIN gamers>>
  BY <1>1, <1>3 DEF LastOf
<1>. QED BY <1>6, <1>7 DEF Ledger!vars, LedgerPending

(* If the orchestrator waits for each answer, the whole exchange           *)
(* implements the ledger: a registration takes effect at one moment or not *)
(* at all, and leaves what is pending by a rollback or by being settled.   *)
THEOREM WholeLedgerImplemented ==
  ASSUME Serial
  PROVE  ReeSpec => ImplementsLedger
<1>1. ReeInit => Ledger!Init
  BY InitIsLedgerInit DEF ReeInit, GameInit
<1>2. Serial /\ ReeInv /\ ReeInv' /\ WaitInv /\ [ReeNext]_reeVars
        => [Ledger!Next]_(Ledger!vars)
  <2>1. ReeInv => TrackInv /\ TypeOK
    BY DEF ReeInv, LifeInv, GameTypeOK
  <2>2. ReeInv' => TrackInv' /\ TypeOK'
    BY DEF ReeInv, LifeInv, GameTypeOK
  <2>3. ReeInv /\ WaitInv => PoolInv
    BY DEF ReeInv, LifeInv, GameTypeOK, WaitInv, PoolInv
  <2>. QED BY <2>1, <2>2, <2>3, ReeNextCases, BlockStepIsLedgerStep, GameStepIsLedgerStutter
<1>. QED BY <1>1, <1>2, ReeInvariant, ReeWaitInvariant, PTL
         DEF ReeSpec, ImplementsLedger, Ledger!Spec

-------------------------------------------------------------------------------
(* What is mined is settled in time, and its gamers stay.                  *)

LEMMA GameStepKeepsGamers ==
  ASSUME MinedGamersInv, TypeOK, GameStep, UNCHANGED trackVars
  PROVE  MinedGamersInv'
<1>1. Mined' = Mined
  BY DEF Mined, TxsOf
<1>. QED BY <1>1, GameStepFacts DEF MinedGamersInv, IsRegister

LEMMA GameStepKeepsPrompt ==
  ASSUME PromptInv, TypeOK, GameStep, UNCHANGED trackVars
  PROVE  PromptInv'
<1>1. \A t : IsPending(t)' => IsPending(t)
  <2>1. /\ DOMAIN states = 1 .. Len(states) /\ Len(states) \in Nat
        /\ Len(states') = Len(states)
        /\ \A i \in DOMAIN states : states'[i].id = states[i].id
    BY GameStepFacts, LenProperties DEF TypeOK
  <2>. QED BY <2>1 DEF IsPending
<1>. QED BY <1>1 DEF PromptInv, Holds, ConfirmedHeight, Tip

\* What is known of mined registrations if none comes late.
PromptlyInv == MinedGamersInv /\ PromptInv

LEMMA ReeStepKeepsPrompt ==
  ASSUME ~LateConfirm, ReeInv, WaitInv, ReeInv', WaitInv', BitcoinInv, BitcoinInv',
         PromptlyInv, [ReeNext]_reeVars
  PROVE  PromptlyInv'
<1>1. PoolInv /\ PoolInv' /\ TypeOK
  BY DEF ReeInv, LifeInv, GameTypeOK, WaitInv, PoolInv
<1>2. CASE [BlockNext]_blockVars
  <2>1. MinedGamersInv'
    BY <1>1, <1>2, BlockStepKeepsGamers DEF BitcoinInv, PromptlyInv
  <2>2. PromptInv'
    BY <1>1, <1>2, BlockStepKeepsPrompt DEF BitcoinInv, MinedInv, PromptlyInv
  <2>. QED BY <2>1, <2>2 DEF PromptlyInv
<1>3. CASE GameStep /\ UNCHANGED trackVars
  BY <1>1, <1>3, GameStepKeepsGamers, GameStepKeepsPrompt DEF PromptlyInv
<1>. QED BY <1>2, <1>3, ReeNextCases

LEMMA ReePromptInvariant ==
  ASSUME Serial, ~LateConfirm
  PROVE  ReeSpec => []PromptlyInv
<1>1. ReeInit => PromptlyInv
  <2>1. ReeInit => DOMAIN chain = {}
    BY DEF ReeInit, TrackInit
  <2>. QED BY <2>1, MinedFacts DEF PromptlyInv, MinedGamersInv, PromptInv
<1>2. ~LateConfirm /\ ReeInv /\ ReeInv' /\ WaitInv /\ WaitInv' /\ BitcoinInv /\ BitcoinInv'
        /\ PromptlyInv /\ [ReeNext]_reeVars => PromptlyInv'
  BY ReeStepKeepsPrompt
<1>. QED BY <1>1, <1>2, ReeInvariant, ReeWaitInvariant, ReeChainInvariant, PTL DEF ReeSpec

(* While the game goes on, the exchange never falls behind the chain: what *)
(* is mined under MaxDepth confirmations is settled.                       *)
THEOREM WholeSettledPromptly ==
  ASSUME Serial, ~LateConfirm
  PROVE  ReeSpec => []SettledInTime
<1>1. BitcoinInv /\ PromptlyInv => SettledInTime
  BY PromptIsInTime DEF BitcoinInv, PromptlyInv
<1>. QED BY <1>1, ReeChainInvariant, ReePromptInvariant, PTL

\* A gamer who is in GAMER before and after a step keeps his cookies.
LEMMA ReeKeepsMinedGamers ==
  ASSUME Serial, ReeInv, WaitInv, BitcoinInv, PromptlyInv, PromptlyInv', [ReeNext]_reeVars,
         NEW t \in Mined
  PROVE  /\ Sender[t] \in DOMAIN gamers \cap DOMAIN gamers'
         /\ gamers'[Sender[t]].cookies >= gamers[Sender[t]].cookies
<1>1. t \in Txids /\ Sender[t] \in DOMAIN gamers
  <2>1. t \in Txids
    BY MinedFacts, ChainTyped DEF BitcoinInv
  <2>. QED BY <2>1 DEF PromptlyInv, MinedGamersInv
<1>2. Sender[t] \in DOMAIN gamers'
  <2>1. CASE UNCHANGED trackVars
    <3>1. Mined' = Mined
      BY <2>1 DEF Mined, TxsOf
    <3>. QED BY <1>1, <3>1 DEF PromptlyInv, MinedGamersInv
  <2>2. CASE ResetBlocks
    BY <1>1, <2>2 DEF ResetBlocks
  <2>3. ASSUME NEW h, NEW hash, NEW txs, Reported(h, hash, txs)
        PROVE  Sender[t] \in DOMAIN gamers'
    BY <1>1, <2>3 DEF Reported, NewBlock
  <2>4. TrackInv
    BY DEF ReeInv
  <2>. QED BY <2>1, <2>2, <2>3, <2>4, ReeNextCases, BlockNextCases
<1>3. CookiesStay
  BY ReeKeepsSettled
<1>. QED BY <1>1, <1>2, <1>3 DEF CookiesStay

(* If the orchestrator waits for each answer and no transaction is mined   *)
(* that it made the exchange roll back, whoever has a mined registration   *)
(* stays in GAMER and keeps his cookies, however shallow it is mined.      *)
THEOREM MinedStayForGood ==
  ASSUME Serial, ~LateConfirm
  PROVE  ReeSpec => MinedGamersStay
<1>1. Serial /\ ReeInv /\ WaitInv /\ BitcoinInv /\ PromptlyInv /\ PromptlyInv'
        /\ [ReeNext]_reeVars
        => [\A t \in Mined :
              /\ Sender[t] \in DOMAIN gamers \cap DOMAIN gamers'
              /\ gamers'[Sender[t]].cookies >= gamers[Sender[t]].cookies]_reeVars
  BY ReeKeepsMinedGamers
<1>. QED BY <1>1, ReeInvariant, ReeWaitInvariant, ReeChainInvariant, ReePromptInvariant, PTL
         DEF ReeSpec, MinedGamersStay

-------------------------------------------------------------------------------
(* What the parts promise of the pool, the blocks and the set-up, with all *)
(* of them at work.                                                        *)

(* If the orchestrator waits for each answer, the pool states follow on    *)
(* each other, the gamer of one is in GAMER and has no other, and the pool *)
(* holds a fee for each gamer: with claims, the end of the game and the    *)
(* runes received in between.                                              *)
THEOREM WholePoolConsistent ==
  ASSUME Serial
  PROVE  ReeSpec => [](StatesChained /\ OneStatePerGamer /\ PoolHoldsFees)
<1>1. WaitInv => StatesChained /\ OneStatePerGamer /\ PoolHoldsFees
  BY DEF WaitInv, HistoryInv, FundInv, CountInv
<1>. QED BY <1>1, ReeWaitInvariant, PTL

(* Every history that new_block meets is one that SettlementLoop starts    *)
(* from.                                                                   *)
THEOREM WholeIdsUnique ==
  ASSUME Serial
  PROVE  ReeSpec => []IdsUnique
<1>1. ReeInv /\ WaitInv /\ BitcoinInv => IdsUnique
  BY OwnIdsUnique DEF ReeInv, LifeInv, GameTypeOK, WaitInv, PoolInv, BitcoinInv
<1>. QED BY <1>1, ReeInvariant, ReeWaitInvariant, ReeChainInvariant, PTL

(* A block is stored while it has fewer than MaxDepth confirmations.       *)
THEOREM WholeShallowStored == ReeSpec => []ShallowKept
<1>1. BitcoinInv => ShallowKept
  BY StoredIsKept DEF BitcoinInv, MinedInv
<1>. QED BY <1>1, ReeChainInvariant, PTL

LEMMA ReeStepFinalizesDeep ==
  ASSUME ReeInv, BitcoinInv, BitcoinInv', [ReeNext]_reeVars,
         NEW t \in Txids, states # <<>>, states[1].id # t, states'[1].id = t
  PROVE  t \in Mined' /\ HeightOf(t)' <= Tip' - MaxDepth + 1
<1>1. TypeOK /\ SetupInv
  BY DEF ReeInv, LifeInv, GameTypeOK
<1>2. CASE [BlockNext]_blockVars
  BY <1>1, <1>2, StepFinalizesDeep DEF BitcoinInv
<1>3. CASE GameStep
  <2>1. 1 \in DOMAIN states
    BY <1>1, EmptySeq, LenProperties DEF TypeOK
  <2>. QED BY <1>1, <1>3, <2>1, GameStepFacts
<1>. QED BY <1>2, <1>3, ReeNextCases

(* A step finalizes a transaction only under MaxDepth confirmations: the   *)
(* game finalizes none.                                                    *)
THEOREM WholeFinalizedDeep == ReeSpec => FinalizesDeep
<1>1. ReeInv /\ BitcoinInv /\ BitcoinInv' /\ [ReeNext]_reeVars
        => [\A t \in Txids :
              states # <<>> /\ states[1].id # t /\ states'[1].id = t =>
                t \in Mined' /\ HeightOf(t)' <= Tip' - MaxDepth + 1]_blockVars
  BY ReeStepFinalizesDeep
<1>. QED BY <1>1, ReeInvariant, ReeChainInvariant, PTL DEF ReeSpec, FinalizesDeep

LEMMA ReeStepKeepsName ==
  ASSUME ReeInv, NameInv, [ReeNext]_reeVars
  PROVE  NameInv' /\ (address # None => address' = address)
<1>1. TrackInv /\ TypeOK /\ SetupInv
  BY DEF ReeInv, LifeInv, GameTypeOK
<1>2. CASE [Next]_vars
  BY <1>1, <1>2, StepKeepsName, StepKeepsSetupInv
<1>3. CASE UNCHANGED <<runeName, address>>
  BY <1>3 DEF NameInv
<1>4. ResetBlocks => UNCHANGED <<runeName, address>>
  BY DEF ResetBlocks
<1>5. ASSUME NEW h, NEW hash, NEW txs, Reported(h, hash, txs)
      PROVE  UNCHANGED <<runeName, address>>
  BY <1>5 DEF Reported, NewBlock
<1>6. GameStep => UNCHANGED <<runeName, address>>
  BY <1>1, GameStepFacts
<1>. QED BY <1>1, <1>2, <1>3, <1>4, <1>5, <1>6, ReeNextCases, BlockNextCases

LEMMA ReeNameInvariant == ReeSpec => []NameInv
<1>1. ReeInit => NameInv
  BY DEF ReeInit, GameInit, Init, SetupInit, NameInv
<1>2. ReeInv /\ NameInv /\ [ReeNext]_reeVars => NameInv'
  BY ReeStepKeepsName
<1>. QED BY <1>1, <1>2, ReeInvariant, PTL DEF ReeSpec

(* The pool's address is never replaced by another one.                    *)
THEOREM WholeAddressStable == ReeSpec => AddressStable
<1>1. ReeInv /\ NameInv /\ [ReeNext]_reeVars => [address # None => address' = address]_vars
  BY ReeStepKeepsName
<1>. QED BY <1>1, ReeInvariant, ReeNameInvariant, PTL DEF ReeSpec, AddressStable

(* Only the rename of post_upgrade makes execute_tx sign with a key that   *)
(* is not its address's.                                                   *)
THEOREM WholeSignsUntilRenamed == ReeSpec => [](runeName = InitRuneName => SignsForItsAddress)
<1>1. ReeInv /\ NameInv => (runeName = InitRuneName => SignsForItsAddress)
  BY NameSigns DEF ReeInv, LifeInv
<1>. QED BY <1>1, ReeInvariant, ReeNameInvariant, PTL

(* If etch_rune is only called after the end of the game, the rune that is *)
(* etched has the premine that update_rune_info asserts: no block, reset   *)
(* or rollback comes between.                                              *)
THEOREM WholeEtchFits ==
  ASSUME ~EtchEarly
  PROVE  ReeSpec => []EtchedFits
<1>1. ReeInit => EtchInv
  BY DEF ReeInit, GameInit, EtchInv
<1>2. ~EtchEarly /\ ReeInv /\ EtchInv /\ [ReeNext]_reeVars => EtchInv'
  <2>1. ASSUME EtchInv, UNCHANGED gameVars PROVE EtchInv'
    BY <2>1 DEF EtchInv, Premine
  <2>2. ReeInv => GameTypeOK
    BY DEF ReeInv, LifeInv
  <2>. QED BY <2>1, <2>2, ReeNextCases, GameStepKeepsEtch
<1>3. EtchInv => EtchedFits
  BY DEF EtchInv, EtchedFits
<1>. QED BY <1>1, <1>2, <1>3, ReeInvariant, PTL DEF ReeSpec
===============================================================================
