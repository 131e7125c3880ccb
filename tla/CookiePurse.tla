----------------------------- MODULE CookiePurse -----------------------------
(***************************************************************************)
(* What the game promises its gamers, with neither transactions nor blocks *)
(* nor a clock: a purse of cookies for each gamer and a count of all that  *)
(* were ever claimed, which is closed once and then turned into runes.     *)
(***************************************************************************)
EXTENDS Naturals

CONSTANTS
  Addresses,        \* who may play
  CookiesPerClaim,  \* what a claim adds
  Premine(_)        \* the runes made for a count of cookies

VARIABLES
  purses,  \* the cookies of each gamer
  total,   \* the cookies ever claimed
  open,    \* may cookies still be claimed?
  runes    \* the runes the pool owns, 0 before they are minted

purseVars == <<purses, total, open, runes>>

Init ==
  /\ purses = << >>
  /\ total = 0
  /\ open = TRUE
  /\ runes = 0

\* A new gamer starts with an empty purse.
Join(a) ==
  /\ a \notin DOMAIN purses
  /\ purses' = [b \in DOMAIN purses \cup {a} |-> IF b = a THEN 0 ELSE purses[b]]
  /\ UNCHANGED <<total, open, runes>>

\* Gamers whose registrations never happened leave; what they claimed stays counted.
Leave(group) ==
  /\ purses' = [a \in DOMAIN purses \ group |-> purses[a]]
  /\ UNCHANGED <<total, open, runes>>

Claim(a) ==
  /\ open
  /\ purses' = [purses EXCEPT ![a] = @ + CookiesPerClaim]
  /\ total' = total + CookiesPerClaim
  /\ UNCHANGED <<open, runes>>

Close ==
  /\ open
  /\ open' = FALSE
  /\ UNCHANGED <<purses, total, runes>>

Mint ==
  /\ ~open
  /\ runes = 0
  /\ runes' = Premine(total)
  /\ UNCHANGED <<purses, total, open>>

Next ==
  \/ \E a \in Addresses : Join(a)
  \/ \E group \in SUBSET DOMAIN purses : Leave(group)
  \/ \E a \in DOMAIN purses : Claim(a)
  \/ Close
  \/ Mint

Spec == Init /\ [][Next]_purseVars
===============================================================================
