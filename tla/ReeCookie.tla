------------------------------ MODULE ReeCookie ------------------------------
(***************************************************************************)
(* The whole exchange: the game (CookieGame) and the bitcoin chain         *)
(* (BlockTracker) act on one pool.  Registrations are mined, settled or    *)
(* rolled back while their gamers claim, the game ends, its rune is etched *)
(* and the premine received, and registrations go on after that.           *)
(***************************************************************************)
EXTENDS BlockTracker, CookieGame

reeVars == <<vars, trackVars, gameVars>>

ReeInit == GameInit /\ TrackInit

\* post_upgrade, of a canister that is stopped: no call is in flight.
ReeUpgrade == Upgrade /\ EtchIdle /\ UNCHANGED <<trackVars, gameVars>>

ReeNext ==
  \/ SetupNext /\ UNCHANGED <<execVars, trackVars, gameVars>>
  \/ ReeUpgrade
  \/ Execute /\ UNCHANGED <<trackVars, gameVars>>
  \/ TrackNext /\ UNCHANGED gameVars
  \/ GameStep /\ UNCHANGED trackVars

ReeSpec == ReeInit /\ [][ReeNext]_reeVars

-------------------------------------------------------------------------------
\* A registration of this gamer could still be rolled back.
IsUnsettled(a) == \E i \in 2 .. Len(states) : states[i].gamer = a

(* What a gamer owns after his registration is settled is his for good: no *)
(* rollback of later registrations, no reorganisation, reset or second     *)
(* registration takes him out of GAMER or takes cookies from him.          *)
SettledGamersStay ==
  [][\A a \in DOMAIN gamers :
       ~IsUnsettled(a) =>
         /\ a \in DOMAIN gamers'
         /\ gamers'[a].cookies >= gamers[a].cookies]_reeVars

(* Whoever has a mined registration is in GAMER, and no step takes him out *)
(* or takes cookies from him: what a rollback pops with a transaction that *)
(* is not mined is not mined either, and nobody registers twice.           *)
MinedGamersStay ==
  [][\A t \in Mined :
       /\ Sender[t] \in DOMAIN gamers \cap DOMAIN gamers'
       /\ gamers'[Sender[t]].cookies >= gamers[Sender[t]].cookies]_reeVars

Purse == INSTANCE CookiePurse WITH
  purses <- [a \in DOMAIN gamers |-> gamers[a].cookies],
  total  <- claimedCookies,
  open   <- ~isEnd,
  runes  <- IF states = <<>> THEN 0 ELSE LastOf(states).rune_balance

(* The game keeps its promise on a pool whose registrations are mined,     *)
(* settled and rolled back.                                                *)
ImplementsPurse == Purse!Spec
===============================================================================
