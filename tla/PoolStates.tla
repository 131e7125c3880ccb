------------------------------ MODULE PoolStates ------------------------------
(***************************************************************************)
(* The list of pool states that ExchangeState keeps (field `states`), and  *)
(* the three methods that change it: commit, finalize and rollback of      *)
(* src/src/state.rs.  A pool state is a record                             *)
(*    id            the transaction that made it, NoTx for the first one   *)
(*    nonce         the number of registrations it holds                   *)
(*    outpoint      the name of the pool's one bitcoin utxo                *)
(*    sats          the value of that utxo                                 *)
(*    rune_balance  the runes the pool holds                               *)
(*    action, gamer the UserAction: "Init", "Register" or "Withdraw", and  *)
(*                  the address it carries (NoGamer for "Init")            *)
(* `rune_utxo` is never anything but None in the code and is left out.     *)
(***************************************************************************)
EXTENDS Naturals, Sequences

CONSTANTS NoTx, NoGamer

LastOf(ss) == ss[Len(ss)]

HasTx(ss, t) == \E i \in DOMAIN ss : ss[i].id = t

\* `states.iter().position(|s| s.id == Some(txid))`, counted from 1.
Position(ss, t) ==
  CHOOSE i \in DOMAIN ss : ss[i].id = t /\ \A j \in 1 .. i - 1 : ss[j].id # t

Commit(ss, state) == Append(ss, state)

-------------------------------------------------------------------------------
(* finalize: everything before the state of txid is forgotten.  The code   *)
(* rotates the vector left by the position and truncates the wrapped part. *)

\* Mutant: the vector is rotated but not truncated.
FinalizeUntruncated(ss, t) ==
  SubSeq(ss, Position(ss, t), Len(ss)) \o SubSeq(ss, 1, Position(ss, t) - 1)

\* Mutant: the wrong end is truncated.
FinalizeKeepsOld(ss, t) == SubSeq(ss, 1, Position(ss, t))

Finalize(ss, t) == SubSeq(ss, Position(ss, t), Len(ss))

-------------------------------------------------------------------------------
(* rollback: the state of txid and all later ones are popped and their     *)
(* user actions undone.  It fails, and its caller's unwrap traps, if txid  *)
(* is unknown or oldest, if it pops an Init state, or if it pops the       *)
(* withdrawal of a gamer who is gone.                                      *)

\* Mutant: the user action before the transaction's is undone as well.
PoppedOneMore(ss, t) == {ss[i] : i \in Position(ss, t) - 1 .. Len(ss)}

Popped(ss, t) == {ss[i] : i \in Position(ss, t) .. Len(ss)}

PoppedGamers(ss, t, action) ==
  {s.gamer : s \in {p \in Popped(ss, t) : p.action = action}}

CanRollback(ss, gs, t) ==
  /\ HasTx(ss, t)
  /\ Position(ss, t) > 1
  /\ \A s \in Popped(ss, t) : s.action # "Init"
  /\ PoppedGamers(ss, t, "Withdraw") \subseteq DOMAIN gs

\* Mutant: the loop stops one state early.
RollbackKeepsOne(ss, t) == SubSeq(ss, 1, Position(ss, t))

Rollback(ss, t) == SubSeq(ss, 1, Position(ss, t) - 1)

\* Mutant: the registrations popped stay in GAMER.
RollbackNoGamers(ss, gs, t) == gs

RollbackGamers(ss, gs, t) ==
  [a \in DOMAIN gs \ PoppedGamers(ss, t, "Register") |->
     IF a \in PoppedGamers(ss, t, "Withdraw")
     THEN [gs[a] EXCEPT !.is_withdrawn = FALSE]
     ELSE gs[a]]
===============================================================================
