------------------------------ MODULE PoolLedger ------------------------------
(***************************************************************************)
(* What the pool promises, with neither calls in flight nor bookkeeping: a *)
(* ledger of registrations.  A registration spends the pool's tip, makes a *)
(* new tip worth one fee more and makes its sender a member, all at once.  *)
(* Registrations are pending until the ledger settles them, oldest first;  *)
(* a pending one may be reverted, and every later one goes with it.        *)
(***************************************************************************)
EXTENDS Naturals, Sequences, FiniteSets

CONSTANTS Txids, Sender, Spends, Fee, InitUtxos, None

VARIABLES
  tip,      \* the outpoint that holds the pool's bitcoin, None at first
  pot,      \* its value
  members,  \* the registered addresses
  pending   \* the unsettled registrations, oldest first

vars == <<tip, pot, members, pending>>

Init ==
  /\ tip = None
  /\ pot = 0
  /\ members = {}
  /\ pending = <<>>

\* The pool gets the utxo it starts from, while nobody is a member.
Fund(utxo) ==
  /\ members = {}
  /\ pending = <<>>
  /\ tip' = utxo.outpoint
  /\ pot' = utxo.sats
  /\ UNCHANGED <<members, pending>>

Register(t) ==
  /\ Spends[t] = tip
  /\ Sender[t] \notin members
  /\ tip' = t
  /\ pot' = pot + Fee
  /\ members' = members \cup {Sender[t]}
  /\ pending' = Append(pending, t)

\* The n oldest pending registrations are final.
Settle(n) ==
  /\ pending' = SubSeq(pending, n + 1, Len(pending))
  /\ UNCHANGED <<tip, pot, members>>

\* The n-th pending registration and all later ones never happened.
Revert(n) ==
  /\ tip' = Spends[pending[n]]
  /\ pot' = pot - Fee * (Len(pending) - n + 1)
  /\ members' = members \ {Sender[pending[i]] : i \in n .. Len(pending)}
  /\ pending' = SubSeq(pending, 1, n - 1)

Next ==
  \/ \E utxo \in InitUtxos : Fund(utxo)
  \/ \E t \in Txids : Register(t)
  \/ \E n \in 1 .. Len(pending) : Settle(n) \/ Revert(n)

Spec == Init /\ [][Next]_vars
===============================================================================
