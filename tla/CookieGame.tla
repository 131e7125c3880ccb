------------------------------ MODULE CookieGame ------------------------------
(***************************************************************************)
(* The game on top of TxExecution: `claim`, `end_game`, `etch_rune` and    *)
(* `update_rune_info` of src/src/canister.rs with claim of src/src/game.   *)
(* Registered gamers claim cookies, each after a cooldown; when the game   *)
(* has ended the cookies become a rune, whose premine (120% of what was    *)
(* claimed) the pool receives.  etch_rune reads what was claimed so far,   *)
(* awaits the bitcoin customs canister, and may be called at any time.     *)
(*                                                                         *)
(* Everybody may call all four.  A rune's name can be etched only once.    *)
(* update_rune_info is called with the premine utxo of that rune or, where *)
(* OtherRunes has any, with one that holds another: it asserts the amount  *)
(* and does not look at the rune.                                          *)
(***************************************************************************)
EXTENDS TxExecution

CONSTANTS
  CookiesPerClaim,  \* cookie_amount_per_claim
  CoolingDown,      \* claim_cooling_down, in seconds
  MaxU128,          \* the largest u128
  EtchCalls,        \* etch_rune calls that may be in flight at once
  EtchEarly,        \* may etch_rune be called before the game has ended?
  QuietMint,        \* is update_rune_info only called when all is settled?
  OtherRunes,       \* amounts of other runes that it may be called with
  MaxClaimed,       \* bound: the cookies ever claimed
  MaxTime           \* bound: the last second

ASSUME GameAssumption ==
  /\ CookiesPerClaim \in Nat /\ CoolingDown \in Nat
  /\ MaxU128 \in Nat /\ MaxTime \in Nat \ {0}
  /\ MaxClaimed \in 0 .. MaxU128
  /\ EtchEarly \in BOOLEAN /\ QuietMint \in BOOLEAN
  /\ OtherRunes \subseteq Nat

VARIABLES
  claimedCookies,  \* game.claimed_cookies
  isEnd,           \* game.is_end
  now,             \* the time in seconds
  etchCalls,       \* for each etch_rune call its premine while it awaits
  etched           \* the premine of the rune on bitcoin, None before

gameVars == <<claimedCookies, isEnd, now, etchCalls, etched>>
cookieVars == <<vars, gameVars>>

GameInit ==
  /\ Init
  /\ claimedCookies = 0
  /\ isEnd = FALSE
  /\ now = 1
  /\ etchCalls = [e \in EtchCalls |-> None]
  /\ etched = None

\* calculate_premine_rune_amount; the product wraps, for release builds do not check.
Premine(cookies) == ((cookies * 120) % (MaxU128 + 1)) \div 100

-------------------------------------------------------------------------------
\* Mutant: the cooldown is over one second too early.
AbleClaimEarly(a) ==
  /\ ~isEnd
  /\ a \in DOMAIN gamers
  /\ now >= gamers[a].last_click_time + CoolingDown

\* Mutant: the end of the game is not looked at.
AbleClaimAfterEnd(a) ==
  /\ a \in DOMAIN gamers
  /\ now > gamers[a].last_click_time + CoolingDown

\* able_claim
AbleClaim(a) ==
  /\ ~isEnd
  /\ a \in DOMAIN gamers
  /\ now > gamers[a].last_click_time + CoolingDown

\* Mutant: the sum of the total is checked but not assigned.
ClaimUncounted(p) ==
  /\ p \in DOMAIN principals
  /\ AbleClaim(principals[p])
  /\ claimedCookies + CookiesPerClaim <= MaxClaimed
  /\ gamers' = [gamers EXCEPT ![principals[p]].cookies = @ + CookiesPerClaim,
                              ![principals[p]].last_click_time = now]
  /\ UNCHANGED <<setupVars, principals, txRecords, calls, gameVars>>

(* claim.  The total is written first; if then the gamer's own cookies     *)
(* overflowed, the error would leave it written.  MaxClaimed keeps the     *)
(* total below its own overflow, which is an error without effect.         *)
Claim(p) ==
  /\ p \in DOMAIN principals
  /\ AbleClaim(principals[p])
  /\ claimedCookies + CookiesPerClaim <= MaxClaimed
  /\ claimedCookies' = claimedCookies + CookiesPerClaim
  /\ LET a     == principals[p]
         total == gamers[a].cookies + CookiesPerClaim
     IN  gamers' = IF total <= MaxU128
                   THEN [gamers EXCEPT ![a].cookies = total,
                                       ![a].last_click_time = now]
                   ELSE gamers
  /\ UNCHANGED <<setupVars, principals, txRecords, calls>>
  /\ UNCHANGED <<isEnd, now, etchCalls, etched>>

\* Mutant: the game may be ended whatever its status.
EndGameAnytime ==
  /\ isEnd' = TRUE
  /\ gameStatus' = Ended
  /\ UNCHANGED <<runeName, address, states, keyCalls, execVars>>
  /\ UNCHANGED <<claimedCookies, now, etchCalls, etched>>

(* end_game: game_status.end() panics unless the game is being played.     *)
EndGame ==
  /\ gameStatus = Play
  /\ isEnd' = TRUE
  /\ gameStatus' = Ended
  /\ UNCHANGED <<runeName, address, states, keyCalls, execVars>>
  /\ UNCHANGED <<claimedCookies, now, etchCalls, etched>>

(* etch_rune up to its await.                                              *)
EtchRuneCall(e) ==
  /\ etchCalls[e] = None
  /\ address # None
  /\ etchCalls' = [etchCalls EXCEPT ![e] = Premine(claimedCookies)]
  /\ UNCHANGED <<vars, claimedCookies, isEnd, now, etched>>

(* The customs canister has etched the rune.                               *)
EtchRuneReply(e) ==
  /\ etchCalls[e] # None
  /\ etched = None
  /\ etched' = etchCalls[e]
  /\ etchCalls' = [etchCalls EXCEPT ![e] = None]
  /\ UNCHANGED <<vars, claimedCookies, isEnd, now>>

EtchRuneFails(e) ==
  /\ etchCalls[e] # None
  /\ etchCalls' = [etchCalls EXCEPT ![e] = None]
  /\ UNCHANGED <<vars, claimedCookies, isEnd, now, etched>>

\* Mutant: the amount is compared with the cookies, not with the premine.
UpdateRuneInfoCookies(runes) ==
  /\ runes # None
  /\ states # <<>>
  /\ runes = claimedCookies
  /\ gameStatus = Ended
  /\ states' = [states EXCEPT ![Len(states)].rune_balance = runes]
  /\ gameStatus' = RunesMinted
  /\ UNCHANGED <<runeName, address, keyCalls, execVars, gameVars>>

\* Mutant: neither are runes expected in the utxo nor their amount asserted.
UpdateRuneInfoUnchecked(runes) ==
  /\ states # <<>>
  /\ gameStatus = Ended
  /\ states' = [states EXCEPT ![Len(states)].rune_balance = runes]
  /\ gameStatus' = RunesMinted
  /\ UNCHANGED <<runeName, address, keyCalls, execVars, gameVars>>

\* Mutant: whatever amount was received is accepted.
UpdateRuneInfoAnyAmount(runes) ==
  /\ runes # None
  /\ states # <<>>
  /\ gameStatus = Ended
  /\ states' = [states EXCEPT ![Len(states)].rune_balance = runes]
  /\ gameStatus' = RunesMinted
  /\ UNCHANGED <<runeName, address, keyCalls, execVars, gameVars>>

(* update_rune_info with a utxo that holds this many runes, None for one   *)
(* with no rune: they become the balance of the newest pool state; no      *)
(* rune, a wrong amount or a wrong status panics.                          *)
UpdateRuneInfo(runes) ==
  /\ runes # None
  /\ states # <<>>
  /\ runes = Premine(claimedCookies)
  /\ gameStatus = Ended
  /\ states' = [states EXCEPT ![Len(states)].rune_balance = runes]
  /\ gameStatus' = RunesMinted
  /\ UNCHANGED <<runeName, address, keyCalls, execVars, gameVars>>

\* The clock that get_chain_second_timestamp reads.
Tick ==
  /\ now < MaxTime
  /\ now' = now + 1
  /\ UNCHANGED <<vars, claimedCookies, isEnd, etchCalls, etched>>

-------------------------------------------------------------------------------
(* Nothing in the code says when etch_rune and update_rune_info may be     *)
(* called, nor with which utxo; EtchEarly, QuietMint and OtherRunes do.    *)
StartEtching(e) == (EtchEarly \/ isEnd) /\ EtchRuneCall(e)

Mint ==
  /\ QuietMint => Len(states) = 1 /\ InFlight = {}
  /\ \E runes \in {etched} \cup OtherRunes : UpdateRuneInfo(runes)

EtchIdle == \A e \in EtchCalls : etchCalls[e] = None

GameStep ==
  \/ \E p \in DOMAIN principals : Claim(p)
  \/ EndGame
  \/ \E e \in EtchCalls : StartEtching(e) \/ EtchRuneReply(e) \/ EtchRuneFails(e)
  \/ Mint
  \/ Tick

GameNext ==
  \/ SetupNext /\ UNCHANGED <<execVars, gameVars>>
  \/ Upgrade /\ EtchIdle /\ UNCHANGED gameVars
  \/ Execute /\ UNCHANGED gameVars
  \/ \E t \in Txids : RollbackTx(t) /\ UNCHANGED gameVars
  \/ GameStep

GameSpec == GameInit /\ [][GameNext]_cookieVars

(* Whoever runs the game keeps calling etch_rune, which the customs        *)
(* canister does not refuse for ever, and then update_rune_info.           *)
FairGameSpec ==
  /\ GameSpec
  /\ \A e \in EtchCalls : WF_cookieVars(StartEtching(e)) /\ SF_cookieVars(EtchRuneReply(e))
  /\ WF_cookieVars(Mint)

-------------------------------------------------------------------------------
(* Every variable holds a value the code's types allow.                    *)
GameTypeOK ==
  /\ TypeOK
  /\ claimedCookies \in 0 .. MaxU128
  /\ isEnd \in BOOLEAN
  /\ now \in 1 .. MaxTime
  /\ etchCalls \in [EtchCalls -> Nat \cup {None}]
  /\ etched \in Nat \cup {None}

(* What the gamers own together never exceeds what was counted as claimed  *)
(* and is later turned into runes: through rollbacks that remove gamers,   *)
(* gamers who register again, overlapping registrations of one gamer.      *)
CookiesCovered ==
  SumFunction([a \in DOMAIN gamers |-> gamers[a].cookies]) <= claimedCookies

(* Nobody has more cookies than the cooldown allows until the last claim   *)
(* of his present registration, and that was not in the future.  A gamer   *)
(* who was rolled back and registers again starts without a cooldown.      *)
ClaimsAreSpaced ==
  \A a \in DOMAIN gamers :
    /\ gamers[a].last_click_time <= now
    /\ gamers[a].cookies <=
         CookiesPerClaim * (gamers[a].last_click_time \div (CoolingDown + 1))

(* The flag that stops claims and the status agree, although late replies  *)
(* of init_key and second calls of init_btc_utxo write the status too.     *)
EndAgrees ==
  /\ isEnd <=> gameStatus \in {Ended, RunesMinted}
  /\ ~IsInitialize(gameStatus) => address # None /\ states # <<>>

(* From the end of the game on the number of cookies is final: the premine *)
(* that update_rune_info asserts is the one a later etching is sized by.   *)
FinalCount ==
  [][gameStatus.tag \in {"Ended", "RunesMinted"} =>
       /\ claimedCookies' = claimedCookies
       /\ gameStatus' \in {gameStatus, RunesMinted}]_cookieVars

(* The newest pool state holds the premine once it was received, for the   *)
(* gamers and the liquidity pool are paid from it.                         *)
RunesKept ==
  gameStatus = RunesMinted =>
    LastOf(states).rune_balance = Premine(claimedCookies)

(* When the game has ended, the rune that was etched has the premine that  *)
(* update_rune_info asserts, so that its runes can be received.            *)
EtchedFits ==
  gameStatus = Ended /\ etched # None => etched = Premine(claimedCookies)

(* A game that has ended gets its runes, through etchings that fail and    *)
(* are tried again, registrations and rollbacks.                           *)
EndedIsMinted == isEnd ~> gameStatus = RunesMinted

-------------------------------------------------------------------------------
(* What validate_add_liquidity and query_add_liquidity_info say the pool   *)
(* pays into the liquidity pool, and validate_withdraw a gamer.  Neither   *)
(* intention gets past its validation so far.                              *)
LiquidityBtc == Fee * Cardinality(DOMAIN gamers)

LiquidityRunes == Premine(claimedCookies) - claimedCookies

WithdrawRunes(a) == gamers[a].cookies

(* Once the runes are minted the pool owns what it would pay: all gamers'  *)
(* cookies and both parts of the liquidity.                                *)
PayoutsCovered ==
  gameStatus = RunesMinted =>
    /\ LiquidityBtc <= LastOf(states).sats
    /\ LiquidityRunes + SumFunction([a \in DOMAIN gamers |-> WithdrawRunes(a)])
         <= LastOf(states).rune_balance
===============================================================================
