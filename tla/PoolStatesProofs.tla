--------------------------- MODULE PoolStatesProofs ---------------------------
(***************************************************************************)
(* What finalize, the finalizing loop and rollback return, for every       *)
(* history of pool states: the lemmas the proofs about the modules above   *)
(* PoolStates and Settlement rest on.                                      *)
(***************************************************************************)
EXTENDS Settlement, TLAPS, FiniteSetTheorems, SequenceTheorems,
        WellFoundedInduction

(* A set of positions that is not empty has a first one.  Induction is not *)
(* needed: the intervals 1 .. n are well-founded under strict inclusion.   *)
LEMMA FirstPosition ==
  ASSUME NEW k \in Nat, NEW S \in SUBSET (1 .. k), S # {}
  PROVE  \E n \in S : \A m \in S : n <= m
<1> DEFINE T == {1 .. n : n \in S}
           R == StrictSubsetOrdering(1 .. k)
<1>1. IsWellFoundedOn(R, SUBSET (1 .. k))
  <2>1. IsFiniteSet(1 .. k)
    BY FS_Interval
  <2>2. FiniteSubsetsOf(1 .. k) = SUBSET (1 .. k)
    BY <2>1, FS_FiniteSubsetsOfFinite
  <2>. QED BY <2>2, FS_StrictSubsetOrderingWellFounded
<1>2. T \subseteq SUBSET (1 .. k) /\ T # {}
  <2>1. PICK m \in S : TRUE
    OBVIOUS
  <2>2. 1 .. m \in T
    OBVIOUS
  <2>3. ASSUME NEW n \in S PROVE 1 .. n \in SUBSET (1 .. k)
    BY n \in 1 .. k
  <2>. QED BY <2>2, <2>3
<1>3. PICK X \in T : \A Y \in T : <<Y, X>> \notin R
  <2>. HIDE DEF T, R
  <2>. QED BY <1>1, <1>2, WFMin
<1>4. PICK n \in S : X = 1 .. n
  BY <1>3
<1>5. ASSUME NEW m \in S, m < n PROVE FALSE
  <2>1. /\ 1 .. m \in T
        /\ 1 .. m \subseteq 1 .. n
        /\ n \in 1 .. n /\ n \notin 1 .. m
    BY <1>5
  <2>2. <<1 .. m, X>> \in R
    BY <2>1, <1>2, <1>4 DEF StrictSubsetOrdering
  <2>. QED BY <2>1, <2>2, <1>3
<1>. QED BY <1>4, <1>5

LEMMA LastPosition ==
  ASSUME NEW k \in Nat, NEW S \in SUBSET (1 .. k), S # {}
  PROVE  \E n \in S : \A m \in S : m <= n
<1> DEFINE T == {k + 1 - n : n \in S}
<1>1. T \in SUBSET (1 .. k) /\ T # {}
  <2>1. \A n \in 1 .. k : k + 1 - n \in 1 .. k
    OBVIOUS
  <2>2. \A n \in S : k + 1 - n \in 1 .. k
    BY <2>1
  <2>. QED BY <2>2
<1>2. PICK x \in T : \A y \in T : x <= y
  <2>. HIDE DEF T
  <2>. QED BY <1>1, FirstPosition
<1>3. PICK n \in S : x = k + 1 - n
  BY <1>2
<1>4. ASSUME NEW m \in S PROVE m <= n
  <2>1. k + 1 - n <= k + 1 - m /\ m \in 1 .. k /\ n \in 1 .. k
    BY <1>2, <1>3
  <2>. QED BY <2>1
<1>. QED BY <1>4

(* Position is the first place of a transaction in the history.            *)
LEMMA PositionIsFirst ==
  ASSUME NEW S, NEW ss \in Seq(S), NEW t, HasTx(ss, t)
  PROVE  /\ Position(ss, t) \in 1 .. Len(ss)
         /\ ss[Position(ss, t)].id = t
         /\ \A j \in 1 .. Position(ss, t) - 1 : ss[j].id # t
<1> DEFINE P == {i \in 1 .. Len(ss) : ss[i].id = t}
<1>1. /\ Len(ss) \in Nat /\ DOMAIN ss = 1 .. Len(ss)
      /\ P \in SUBSET (1 .. Len(ss)) /\ P # {}
  BY DEF HasTx
<1>2. PICK n \in P : \A m \in P : n <= m
  BY <1>1, FirstPosition
<1>3. \A j \in 1 .. n - 1 : ss[j].id # t
  BY <1>1, <1>2
<1>4. /\ n \in DOMAIN ss /\ ss[n].id = t
      /\ \A j \in 1 .. n - 1 : ss[j].id # t
  BY <1>1, <1>2, <1>3
<1>. QED BY <1>1, <1>4 DEF Position

(* A rollback that does not fail keeps a prefix of the history, and never  *)
(* its oldest state: "the rollback should be impossible to rollback index  *)
(* 0 state".                                                               *)
LEMMA RollbackIsPrefix ==
  ASSUME NEW S, NEW ss \in Seq(S), NEW gs, NEW t, CanRollback(ss, gs, t)
  PROVE  /\ Rollback(ss, t) \in Seq(S)
         /\ Len(Rollback(ss, t)) = Position(ss, t) - 1
         /\ Position(ss, t) \in 2 .. Len(ss)
         /\ \A i \in 1 .. Len(Rollback(ss, t)) : Rollback(ss, t)[i] = ss[i]
         /\ Rollback(ss, t) # <<>>
<1>1. Position(ss, t) \in 2 .. Len(ss)
  BY PositionIsFirst DEF CanRollback
<1>2. \A i \in 1 .. Position(ss, t) - 1 : ss[i] \in S
  BY <1>1, ElementOfSeq
<1>3. /\ Rollback(ss, t) \in Seq(S)
      /\ Len(Rollback(ss, t)) = Position(ss, t) - 1
      /\ \A i \in 1 .. Position(ss, t) - 1 : Rollback(ss, t)[i] = ss[1 + i - 1]
  BY <1>1, <1>2, SubSeqProperties DEF Rollback
<1>. QED BY <1>1, <1>3

(* finalize keeps a suffix of the history that starts at the transaction   *)
(* and ends where the history ended: the pool's newest state never changes.*)
LEMMA FinalizeIsSuffix ==
  ASSUME NEW S, NEW ss \in Seq(S), NEW t, HasTx(ss, t)
  PROVE  /\ Finalize(ss, t) \in Seq(S)
         /\ Len(Finalize(ss, t)) = Len(ss) - Position(ss, t) + 1
         /\ \A i \in 1 .. Len(Finalize(ss, t)) :
              Finalize(ss, t)[i] = ss[Position(ss, t) + i - 1]
         /\ Finalize(ss, t)[1].id = t
         /\ LastOf(Finalize(ss, t)) = LastOf(ss)
<1> DEFINE p == Position(ss, t)
<1>1. p \in 1 .. Len(ss) /\ ss[p].id = t
  BY PositionIsFirst
<1>2. \A i \in p .. Len(ss) : ss[i] \in S
  BY <1>1, ElementOfSeq
<1>3. /\ Finalize(ss, t) \in Seq(S)
      /\ Len(Finalize(ss, t)) = Len(ss) - p + 1
      /\ \A i \in 1 .. Len(ss) - p + 1 : Finalize(ss, t)[i] = ss[p + i - 1]
  BY <1>1, <1>2, SubSeqProperties DEF Finalize
<1>4. Finalize(ss, t)[1] = ss[p]
  BY <1>1, <1>3
<1>5. LastOf(Finalize(ss, t)) = LastOf(ss)
  <2> DEFINE n == Len(ss) - p + 1
  <2>1. Finalize(ss, t)[n] = ss[p + n - 1]
    <3>1. n \in 1 .. n
      BY <1>1
    <3>. QED BY <1>3, <3>1
  <2>2. p + n - 1 = Len(ss)
    <3>1. Len(ss) \in Nat /\ p \in Nat
      BY <1>1, LenProperties
    <3>. HIDE DEF p
    <3>. QED BY <3>1
  <2>. QED BY <1>3, <2>1, <2>2 DEF LastOf
<1>. QED BY <1>1, <1>3, <1>4, <1>5

(* Of the transactions that the loop finalizes the one deepest in the      *)
(* history decides.                                                        *)
LEMMA FinalizeAllIs ==
  ASSUME NEW S, NEW ss \in Seq(S), NEW txs, txs # {}, \A t \in txs : HasTx(ss, t)
  PROVE  \E t \in txs : /\ FinalizeAll(ss, txs) = Finalize(ss, t)
                        /\ \A u \in txs : Position(ss, u) <= Position(ss, t)
<1> DEFINE P == {Position(ss, t) : t \in txs}
           Deepest(t) == \A u \in txs : Position(ss, u) <= Position(ss, t)
<1>1. P \in SUBSET (1 .. Len(ss)) /\ P # {} /\ Len(ss) \in Nat
  <2>1. Len(ss) \in Nat
    BY LenProperties
  <2>2. ASSUME NEW t \in txs PROVE Position(ss, t) \in 1 .. Len(ss)
    BY PositionIsFirst
  <2>. QED BY <2>1, <2>2
<1>2. PICK n \in P : \A m \in P : m <= n
  <2>. HIDE DEF P
  <2>. QED BY <1>1, LastPosition
<1>3. PICK t \in txs : n = Position(ss, t)
  BY <1>2
<1>4. Deepest(t)
  BY <1>2, <1>3
<1>5. \E u \in txs : Deepest(u)
  BY <1>4
<1>6. /\ (CHOOSE u \in txs : Deepest(u)) \in txs
      /\ Deepest(CHOOSE u \in txs : Deepest(u))
  <2>. HIDE DEF Deepest
  <2>. QED BY <1>5
<1>. QED BY <1>6 DEF FinalizeAll
===============================================================================
