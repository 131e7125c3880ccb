------------------------- MODULE SettlementLoopProofs -------------------------
(***************************************************************************)
(* The closed form of Settlement is the loop of new_block, for every       *)
(* history, every blocks and every records: what lies before the loop's    *)
(* place is settled as CanFinalizeAll and FinalizeAll say.                 *)
(***************************************************************************)
EXTENDS SettlementLoop, PoolStatesProofs

-------------------------------------------------------------------------------
(* A history in which a transaction makes one state.                       *)
OnceEach(ss) ==
  \A i, j \in DOMAIN ss : ss[i].id = ss[j].id => i = j \/ ss[i].id \notin Txids

LEMMA PositionOnce ==
  ASSUME NEW S, NEW ss \in Seq(S), OnceEach(ss), NEW t \in Txids, NEW k \in DOMAIN ss,
         ss[k].id = t
  PROVE  HasTx(ss, t) /\ Position(ss, t) = k
<1>1. HasTx(ss, t)
  BY DEF HasTx
<1>2. Position(ss, t) \in DOMAIN ss /\ ss[Position(ss, t)].id = t
  BY <1>1, PositionIsFirst, LenProperties
<1>. QED BY <1>1, <1>2 DEF OnceEach

(* What finalize leaves has the transactions from the finalized one on.    *)
LEMMA FinalizeHas ==
  ASSUME NEW S, NEW ss \in Seq(S), OnceEach(ss), NEW t \in Txids, HasTx(ss, t), NEW u \in Txids
  PROVE  /\ HasTx(Finalize(ss, t), u) <=> HasTx(ss, u) /\ Position(ss, t) <= Position(ss, u)
         /\ HasTx(Finalize(ss, t), u) => Finalize(Finalize(ss, t), u) = Finalize(ss, u)
<1> DEFINE cut == Finalize(ss, t)
           p == Position(ss, t)
           n == Len(ss)
<1>1. p \in 1 .. n /\ n \in Nat /\ DOMAIN ss = 1 .. n
  BY PositionIsFirst, LenProperties
<1>2. /\ cut \in Seq(S) /\ Len(cut) = n - p + 1
      /\ \A i \in 1 .. n - p + 1 : cut[i] = ss[p + i - 1]
  BY FinalizeIsSuffix
<1>3. DOMAIN cut = 1 .. n - p + 1
  BY <1>2, LenProperties
<1>. HIDE DEF cut, p, n
<1>4. ASSUME NEW k \in DOMAIN cut, cut[k].id = u
      PROVE  HasTx(ss, u) /\ Position(ss, u) = p + k - 1
  <2>1. p + k - 1 \in 1 .. n
    BY <1>1, <1>3
  <2>2. ss[p + k - 1].id = u
    BY <1>2, <1>3, <1>4
  <2>. QED BY <1>1, <2>1, <2>2, PositionOnce
<1>5. ASSUME HasTx(cut, u) PROVE HasTx(ss, u) /\ p <= Position(ss, u)
  <2>1. PICK k \in DOMAIN cut : cut[k].id = u
    BY <1>5 DEF HasTx
  <2>2. HasTx(ss, u) /\ Position(ss, u) = p + k - 1
    BY <1>4, <2>1
  <2>. QED BY <1>1, <1>3, <2>2
<1>6. ASSUME HasTx(ss, u), p <= Position(ss, u) PROVE HasTx(cut, u)
  <2>1. PICK q : q = Position(ss, u)
    OBVIOUS
  <2>2. q \in 1 .. n /\ ss[q].id = u
    BY <1>6, <2>1, PositionIsFirst DEF n
  <2>3. q - p + 1 \in 1 .. n - p + 1 /\ p + (q - p + 1) - 1 = q
    BY <1>1, <1>6, <2>1, <2>2
  <2>4. cut[q - p + 1] = ss[q]
    BY <1>2, <2>3
  <2>. QED BY <1>3, <2>2, <2>3, <2>4 DEF HasTx
<1>7. ASSUME HasTx(cut, u) PROVE Finalize(cut, u) = Finalize(ss, u)
  <2> DEFINE a == Finalize(cut, u)
             b == Finalize(ss, u)
             k == Position(cut, u)
             q == Position(ss, u)
  <2>1. k \in 1 .. n - p + 1 /\ cut[k].id = u
    BY <1>2, <1>7, PositionIsFirst
  <2>2. HasTx(ss, u) /\ q = p + k - 1
    BY <1>3, <1>4, <2>1
  <2>3. /\ a \in Seq(S) /\ Len(a) = Len(cut) - k + 1
        /\ \A i \in 1 .. Len(a) : a[i] = cut[k + i - 1]
    BY <1>2, <1>7, FinalizeIsSuffix
  <2>4. /\ b \in Seq(S) /\ Len(b) = n - q + 1
        /\ \A i \in 1 .. Len(b) : b[i] = ss[q + i - 1]
    BY <2>2, FinalizeIsSuffix DEF n
  <2>. HIDE DEF a, b, k, q
  <2>5. Len(a) = Len(b)
    <3>1. Len(a) = Len(cut) - k + 1 /\ Len(cut) = n - p + 1
      BY <1>2, <2>3
    <3>2. Len(b) = n - q + 1 /\ q = p + k - 1
      BY <2>2, <2>4
    <3>3. n \in Int /\ p \in Int /\ k \in Int
      BY <1>1, <2>1
    <3>. QED BY <3>1, <3>2, <3>3
  <2>6. ASSUME NEW i \in 1 .. Len(a) PROVE a[i] = b[i]
    <3>1. k + i - 1 \in 1 .. n - p + 1 /\ p + (k + i - 1) - 1 = q + i - 1
      BY <1>1, <1>2, <2>1, <2>2, <2>3
    <3>2. a[i] = cut[k + i - 1] /\ cut[k + i - 1] = ss[p + (k + i - 1) - 1]
      BY <1>2, <2>3, <3>1
    <3>3. b[i] = ss[q + i - 1]
      BY <2>4, <2>5
    <3>. QED BY <3>1, <3>2, <3>3
  <2>7. a = b
    BY <2>3, <2>4, <2>5, <2>6, SeqEqual
  <2>. QED BY <2>7 DEF a, b
<1>. QED BY <1>5, <1>6, <1>7 DEF cut, p

-------------------------------------------------------------------------------
(* The invariant.                                                          *)

\* The i-th transaction of the block at height h is one the loop finalizes.
Due(h, i, t) ==
  /\ h \in DOMAIN given.blocks /\ i \in DOMAIN given.blocks[h].txs
  /\ t = given.blocks[h].txs[i] /\ <<t, TRUE>> \in given.records

\* The loop has been there.
Passed(h, i) == h \notin rest \/ (IsIn(h) /\ i <= seen)

Reached(h, i, t) == Due(h, i, t) /\ Passed(h, i)

Settled(t) == \E h, i : Reached(h, i, t)

Earlier(h, i, g, j) == h < g \/ (h = g /\ i < j)

InOrder ==
  \A h, i, t, g, j, u :
    Reached(h, i, t) /\ Reached(g, j, u) /\ Earlier(h, i, g, j) =>
      Position(given.states, t) <= Position(given.states, u)

\* The history from the deepest of the settled transactions on.
LeftInv ==
  \/ left = given.states /\ \A t : ~Settled(t)
  \/ \E t : /\ Settled(t) /\ left = Finalize(given.states, t)
            /\ \A u : Settled(u) => Position(given.states, u) <= Position(given.states, t)

ToSettle == Settling(given.blocks, given.records)

DoneInv ==
  /\ trapped \in BOOLEAN
  /\ trapped => rest = {} /\ ~CanFinalizeAll(given.states, given.blocks, ToSettle)
  /\ ~trapped => /\ \A t : Settled(t) => HasTx(given.states, t)
                 /\ InOrder
                 /\ LeftInv

GivenInv ==
  /\ given.states \in Seq([id : Txids \cup {NoTx}])
  /\ OnceEach(given.states)
  /\ DOMAIN given.blocks \subseteq Nat
  /\ \A h \in DOMAIN given.blocks : given.blocks[h].txs \in Seq(Txids)

PlaceInv ==
  /\ rest \subseteq DOMAIN given.blocks /\ seen \in Nat
  /\ \A h \in rest : \A g \in DOMAIN given.blocks : h < g => g \in rest

LoopInv == GivenInv /\ PlaceInv /\ DoneInv

LEMMA DueFacts ==
  ASSUME GivenInv, NEW h, NEW i, NEW t, Due(h, i, t)
  PROVE  h \in Nat /\ i \in Nat /\ i >= 1 /\ t \in Txids /\ t \in ToSettle
<1>1. given.blocks[h].txs \in Seq(Txids) /\ h \in Nat
  BY DEF GivenInv, Due
<1>2. i \in 1 .. Len(given.blocks[h].txs) /\ Len(given.blocks[h].txs) \in Nat
  BY <1>1, LenProperties DEF Due
<1>3. t \in Txids
  BY <1>1, <1>2, ElementOfSeq DEF Due
<1>4. t \in ToSettle
  <2>1. \E g \in DOMAIN given.blocks :
          t \in {given.blocks[g].txs[j] : j \in DOMAIN given.blocks[g].txs}
    BY DEF Due
  <2>2. t \in TxsOf(given.blocks, DOMAIN given.blocks)
    BY <2>1 DEF TxsOf
  <2>. QED BY <2>2 DEF Due, ToSettle, Settling
<1>. QED BY <1>1, <1>2, <1>3, <1>4

LEMMA ToSettleIsDue ==
  ASSUME NEW t \in ToSettle
  PROVE  \E h, i : Due(h, i, t)
BY DEF Due, ToSettle, Settling, TxsOf

LEMMA BeforeIsEarlier ==
  ASSUME NEW t, NEW u, <<t, TRUE>> \in given.records, <<u, TRUE>> \in given.records
  PROVE  Before(given.blocks, t, u) <=>
           \E h, i, g, j : Due(h, i, t) /\ Due(g, j, u) /\ Earlier(h, i, g, j)
BY DEF Before, Due, Earlier

(* What has been reached lies before the loop's place.                     *)
LEMMA ReachedIsEarlier ==
  ASSUME GivenInv, PlaceInv, NEW h, IsIn(h), NEW g, NEW j, NEW u, Reached(g, j, u)
  PROVE  Earlier(g, j, h, seen + 1)
<1>1. g \in DOMAIN given.blocks /\ g \in Nat /\ j \in Nat /\ h \in Nat /\ h \in rest
  BY DueFacts DEF Reached, Due, IsIn, PlaceInv, GivenInv
<1>2. CASE g \notin rest
  <2>1. ~(h < g) /\ g # h
    BY <1>1, <1>2 DEF PlaceInv
  <2>. QED BY <1>1, <2>1 DEF Earlier
<1>3. CASE IsIn(g) /\ j <= seen
  <2>1. g <= h /\ h <= g
    BY <1>1, <1>3 DEF IsIn
  <2>. QED BY <1>1, <1>3, <2>1 DEF Earlier, PlaceInv
<1>. QED BY <1>2, <1>3 DEF Reached, Passed

\* The loop's place.
Place(h, i, t) ==
  /\ h \in DOMAIN given.blocks /\ IsIn(h) /\ i = seen + 1
  /\ i \in DOMAIN given.blocks[h].txs /\ t = given.blocks[h].txs[i]

LEMMA VisitIsPlace ==
  ASSUME GivenInv, PlaceInv, NEW t, Visits(t)
  PROVE  \E h : Place(h, seen + 1, t)
<1>1. PICK h \in rest : /\ IsIn(h) /\ seen < Len(given.blocks[h].txs)
                        /\ t = given.blocks[h].txs[seen + 1]
  BY DEF Visits
<1>2. h \in DOMAIN given.blocks /\ seen \in Nat /\ given.blocks[h].txs \in Seq(Txids)
  BY DEF PlaceInv, GivenInv
<1>3. /\ DOMAIN given.blocks[h].txs = 1 .. Len(given.blocks[h].txs)
      /\ Len(given.blocks[h].txs) \in Nat
  BY <1>2, LenProperties
<1>4. seen + 1 \in DOMAIN given.blocks[h].txs
  BY <1>1, <1>2, <1>3
<1>. QED BY <1>1, <1>2, <1>4 DEF Place

(* A step past the place reaches what is there and nothing else.           *)
LEMMA StepReaches ==
  ASSUME GivenInv, PlaceInv, NEW h, NEW t, Place(h, seen + 1, t),
         seen' = seen + 1, UNCHANGED <<given, rest>>,
         NEW g, NEW j, NEW u
  PROVE  Reached(g, j, u)' <=>
           Reached(g, j, u) \/ (g = h /\ j = seen + 1 /\ u = t /\ <<t, TRUE>> \in given.records)
<1>1. Due(g, j, u)' <=> Due(g, j, u)
  BY DEF Due
<1>2. ASSUME Due(g, j, u)
      PROVE  Passed(g, j)' <=> Passed(g, j) \/ (g = h /\ j = seen + 1)
  <2>1. g \in Nat /\ j \in Nat /\ seen \in Nat /\ h \in Nat /\ h \in rest
    BY <1>2, DueFacts DEF PlaceInv, GivenInv, Place, IsIn
  <2>2. IsIn(g)' <=> IsIn(g)
    BY DEF IsIn
  <2>3. IsIn(h)
    BY DEF Place
  <2>4. IsIn(g) => g = h
    <3>1. IsIn(g) => g <= h /\ h <= g
      BY <2>1, <2>3 DEF IsIn
    <3>. QED BY <2>1, <3>1
  <2>5. j <= seen + 1 <=> j <= seen \/ j = seen + 1
    BY <2>1
  <2>. QED BY <2>2, <2>3, <2>4, <2>5 DEF Passed
<1>3. g = h /\ j = seen + 1 => (Due(g, j, u) <=> u = t /\ <<t, TRUE>> \in given.records)
  BY DEF Due, Place
<1>. QED BY <1>1, <1>2, <1>3 DEF Reached

LEMMA InitLoopInv ==
  ASSUME HeightsAssumption, LoopInit
  PROVE  LoopInv
<1>1. GivenInv
  <2> DEFINE R == [id : Txids \cup {NoTx}]
             B == [txs : Lists]
  <2>1. /\ given.states \in Histories
        /\ given.blocks \in UNION {[hs -> B] : hs \in SUBSET Heights}
    BY DEF LoopInit
  <2>2. PICK n \in 0 .. MaxStates : given.states \in [1 .. n -> R]
    BY <2>1 DEF Histories
  <2>3. given.states \in Seq(R)
    <3>1. n \in Nat
      BY <2>2
    <3>. HIDE DEF R
    <3>. QED BY <2>2, <3>1
  <2>4. OnceEach(given.states)
    BY <2>1 DEF Histories, OnceEach
  <2>5. PICK hs \in SUBSET Heights : given.blocks \in [hs -> B]
    BY <2>1
  <2>6. DOMAIN given.blocks \subseteq Nat
    BY <2>5 DEF HeightsAssumption
  <2>7. ASSUME NEW h \in DOMAIN given.blocks PROVE given.blocks[h].txs \in Seq(Txids)
    <3>1. given.blocks[h].txs \in Lists
      BY <2>5
    <3>2. PICK m \in 0 .. MaxTxs : given.blocks[h].txs \in [1 .. m -> Txids]
      BY <3>1 DEF Lists
    <3>3. m \in Nat
      BY <3>2
    <3>. QED BY <3>2, <3>3
  <2>. QED BY <2>3, <2>4, <2>6, <2>7 DEF GivenInv
<1>2. PlaceInv
  BY DEF LoopInit, PlaceInv
<1>3. \A h, i, t : ~Reached(h, i, t)
  <2>1. ASSUME NEW h, NEW i, NEW t, Reached(h, i, t) PROVE FALSE
    <3>1. i >= 1 /\ i \in Nat /\ h \in rest
      BY <1>1, <2>1, DueFacts DEF Reached, Due, LoopInit
    <3>. QED BY <2>1, <3>1 DEF Reached, Passed, LoopInit
  <2>. QED BY <2>1
<1>4. DoneInv
  BY <1>3 DEF DoneInv, Settled, InOrder, LeftInv, LoopInit
<1>. QED BY <1>1, <1>2, <1>4 DEF LoopInv

LEMMA StepKeepsPlace ==
  ASSUME GivenInv, PlaceInv, [LoopNext]_loopVars
  PROVE  GivenInv' /\ PlaceInv'
<1>1. given' = given
  BY DEF LoopNext, loopVars, NextBlock, PassBy, FinalizeNext, FinalizeTraps
<1>2. GivenInv'
  BY <1>1 DEF GivenInv
<1>3. CASE UNCHANGED <<rest, seen>>
  BY <1>1, <1>2, <1>3 DEF PlaceInv
<1>4. CASE rest' = rest /\ seen' = seen + 1
  BY <1>1, <1>2, <1>4 DEF PlaceInv
<1>5. CASE rest' = {} /\ seen' = seen
  BY <1>2, <1>5 DEF PlaceInv
<1>6. ASSUME NEW h \in rest, NextBlock(h) PROVE PlaceInv'
  <2>1. rest' = rest \ {h} /\ seen' = 0 /\ IsIn(h)
    BY <1>6 DEF NextBlock
  <2>2. \A k \in rest' : k \in rest /\ k \in Nat /\ h <= k /\ h < k
    BY <2>1 DEF IsIn, PlaceInv, GivenInv
  <2>3. ASSUME NEW k \in rest', NEW g \in DOMAIN given.blocks, k < g PROVE g \in rest'
    <3>1. g \in rest /\ g \in Nat /\ h \in Nat /\ h < k /\ k \in Nat
      BY <2>2, <2>3 DEF PlaceInv, GivenInv
    <3>2. g # h
      BY <2>3, <3>1
    <3>. QED BY <2>1, <3>1, <3>2
  <2>. QED BY <1>1, <2>1, <2>3 DEF PlaceInv
<1>. QED BY <1>2, <1>3, <1>4, <1>5, <1>6
         DEF LoopNext, loopVars, PassBy, FinalizeNext, FinalizeTraps

(* A step that reaches nothing more.                                       *)
LEMMA SameReached ==
  ASSUME DoneInv, UNCHANGED <<given, left, trapped>>, trapped => rest' = rest,
         \A h, i, t : Reached(h, i, t)' <=> Reached(h, i, t)
  PROVE  DoneInv'
<1>1. \A t : Settled(t)' <=> Settled(t)
  BY DEF Settled
<1>2. InOrder' <=> InOrder
  BY DEF InOrder
<1>3. LeftInv' <=> LeftInv
  BY <1>1 DEF LeftInv
<1>4. ToSettle' = ToSettle
  BY DEF ToSettle
<1>. QED BY <1>1, <1>2, <1>3, <1>4 DEF DoneInv

LEMMA NextBlockKeepsDone ==
  ASSUME GivenInv, PlaceInv, DoneInv, NEW h \in rest, NextBlock(h)
  PROVE  DoneInv'
<1>1. /\ rest' = rest \ {h} /\ seen' = 0 /\ IsIn(h) /\ seen = Len(given.blocks[h].txs)
      /\ UNCHANGED <<given, left, trapped>>
  BY DEF NextBlock
<1>2. ASSUME NEW g, NEW j, NEW u PROVE Reached(g, j, u)' <=> Reached(g, j, u)
  <2>1. Due(g, j, u)' <=> Due(g, j, u)
    BY <1>1 DEF Due
  <2>2. ASSUME Due(g, j, u) PROVE Passed(g, j)' <=> Passed(g, j)
    <3>1. g \in Nat /\ j \in Nat /\ j >= 1
      BY <2>2, DueFacts
    <3>2. Passed(g, j)' <=> g \notin rest'
      BY <1>1, <3>1 DEF Passed
    <3>3. g = h => j <= seen
      <4>1. given.blocks[h].txs \in Seq(Txids)
        BY DEF GivenInv, PlaceInv
      <4>. QED BY <1>1, <2>2, <4>1, LenProperties DEF Due
    <3>4. IsIn(g) => g = h
      <4>1. IsIn(g) => g <= h /\ h <= g /\ h \in Nat
        BY <1>1 DEF IsIn, PlaceInv, GivenInv
      <4>. QED BY <3>1, <4>1
    <3>. QED BY <1>1, <3>2, <3>3, <3>4 DEF Passed
  <2>. QED BY <2>1, <2>2 DEF Reached
<1>3. ~trapped
  BY DEF DoneInv
<1>. QED BY <1>1, <1>2, <1>3, SameReached

LEMMA PassByKeepsDone ==
  ASSUME GivenInv, PlaceInv, DoneInv, NEW t, PassBy(t)
  PROVE  DoneInv'
<1>1. /\ Visits(t) /\ <<t, TRUE>> \notin given.records
      /\ seen' = seen + 1 /\ UNCHANGED <<given, rest, left, trapped>>
  BY DEF PassBy
<1>2. PICK h : Place(h, seen + 1, t)
  BY <1>1, VisitIsPlace
<1>3. \A g, j, u : Reached(g, j, u)' <=> Reached(g, j, u)
  BY <1>1, <1>2, StepReaches
<1>4. ~trapped
  BY <1>2 DEF DoneInv, Place, IsIn
<1>. QED BY <1>1, <1>3, <1>4, SameReached

LEMMA FinalizeNextKeepsDone ==
  ASSUME GivenInv, PlaceInv, DoneInv, NEW t, FinalizeNext(t)
  PROVE  DoneInv'
<1>1. /\ Visits(t) /\ <<t, TRUE>> \in given.records /\ HasTx(left, t)
      /\ left' = Finalize(left, t) /\ seen' = seen + 1
      /\ UNCHANGED <<given, rest, trapped>>
  BY DEF FinalizeNext
<1>2. PICK h : Place(h, seen + 1, t)
  BY <1>1, VisitIsPlace
<1>3. \A g, j, u : Reached(g, j, u)' <=> Reached(g, j, u) \/ (g = h /\ j = seen + 1 /\ u = t)
  <2>1. \A g, j, u : Reached(g, j, u)' <=>
                       \/ Reached(g, j, u)
                       \/ g = h /\ j = seen + 1 /\ u = t /\ <<t, TRUE>> \in given.records
    BY <1>1, <1>2, StepReaches
  <2>. QED BY <1>1, <2>1, Zenon
<1>4. \A u : Settled(u)' <=> Settled(u) \/ u = t
  BY <1>3 DEF Settled
<1>5. ~trapped /\ (\A u : Settled(u) => HasTx(given.states, u)) /\ InOrder /\ LeftInv
  BY <1>2 DEF DoneInv, Place, IsIn
<1>6. Due(h, seen + 1, t) /\ t \in Txids /\ \A u : Settled(u) => u \in Txids
  <2>1. Due(h, seen + 1, t)
    BY <1>1, <1>2 DEF Due, Place
  <2>. QED BY <2>1, DueFacts DEF Settled, Reached
<1> DEFINE ss == given.states
<1>7. /\ HasTx(ss, t) /\ left' = Finalize(ss, t)
      /\ \A u : Settled(u) => Position(ss, u) <= Position(ss, t)
  <2>1. CASE left = ss /\ \A u : ~Settled(u)
    BY <1>1, <2>1
  <2>2. ASSUME NEW d, Settled(d), left = Finalize(ss, d),
               \A u : Settled(u) => Position(ss, u) <= Position(ss, d)
        PROVE  /\ HasTx(ss, t) /\ left' = Finalize(ss, t)
               /\ \A u : Settled(u) => Position(ss, u) <= Position(ss, t)
    <3>1. /\ HasTx(ss, t) /\ Position(ss, d) <= Position(ss, t)
          /\ left' = Finalize(ss, t)
      BY <1>1, <1>5, <1>6, <2>2, FinalizeHas DEF GivenInv
    <3>2. \A u : Settled(u) => Position(ss, u) \in 1 .. Len(ss)
      BY <1>5, PositionIsFirst DEF GivenInv
    <3>3. Position(ss, t) \in 1 .. Len(ss) /\ Len(ss) \in Nat
      BY <3>1, PositionIsFirst, LenProperties DEF GivenInv
    <3>4. ASSUME NEW u, Settled(u) PROVE Position(ss, u) <= Position(ss, t)
      <4>1. Position(ss, u) <= Position(ss, d)
        BY <2>2, <3>4
      <4>2. Position(ss, u) \in Nat /\ Position(ss, d) \in Nat /\ Position(ss, t) \in Nat
        BY <2>2, <3>2, <3>3, <3>4
      <4>. HIDE DEF ss
      <4>. QED BY <3>1, <4>1, <4>2
    <3>. QED BY <3>1, <3>4
  <2>. QED BY <1>5, <2>1, <2>2 DEF LeftInv
<1>8. InOrder'
  <2>1. SUFFICES ASSUME NEW g, NEW i, NEW u, NEW k, NEW j, NEW v,
                        Reached(g, i, u)', Reached(k, j, v)', Earlier(g, i, k, j)
                 PROVE  Position(ss, u) <= Position(ss, v)
    BY <1>1 DEF InOrder, Earlier
  <2>2. Position(ss, t) <= Position(ss, t)
    BY <1>7, PositionIsFirst DEF GivenInv
  <2>3. CASE Reached(g, i, u) /\ Reached(k, j, v)
    BY <1>5, <2>1, <2>3 DEF InOrder
  <2>4. CASE v = t
    BY <1>4, <1>7, <2>1, <2>2, <2>4 DEF Settled
  <2>5. CASE g = h /\ i = seen + 1 /\ Reached(k, j, v)
    <3>1. Earlier(k, j, h, seen + 1) /\ Earlier(h, seen + 1, k, j)
      BY <1>2, <2>1, <2>5, ReachedIsEarlier DEF Place
    <3>2. h \in Nat /\ k \in Nat /\ j \in Nat /\ seen \in Nat
      BY <1>6, <2>5, DueFacts DEF Reached, PlaceInv
    <3>. QED BY <3>1, <3>2 DEF Earlier
  <2>. QED BY <1>3, <2>1, <2>3, <2>4, <2>5
<1>9. LeftInv'
  <2>1. Position(ss, t) <= Position(ss, t)
    BY <1>7, PositionIsFirst DEF GivenInv
  <2>2. \A u : Settled(u)' => Position(ss, u) <= Position(ss, t)
    BY <1>4, <1>7, <2>1
  <2>. QED BY <1>1, <1>4, <1>7, <2>2 DEF LeftInv
<1>10. \A u : Settled(u)' => HasTx(ss, u)
  BY <1>4, <1>5, <1>7
<1>. QED BY <1>1, <1>5, <1>8, <1>9, <1>10 DEF DoneInv

(* The loop traps on a transaction that is not in the history, or that one *)
(* deeper in the history, but earlier in the chain, has taken along.       *)
LEMMA FinalizeTrapsKeepsDone ==
  ASSUME GivenInv, PlaceInv, DoneInv, NEW t, FinalizeTraps(t)
  PROVE  DoneInv'
<1>1. /\ Visits(t) /\ <<t, TRUE>> \in given.records /\ ~HasTx(left, t)
      /\ trapped' = TRUE /\ rest' = {} /\ UNCHANGED <<given, seen, left>>
  BY DEF FinalizeTraps
<1>2. PICK h : Place(h, seen + 1, t)
  BY <1>1, VisitIsPlace
<1>3. (\A u : Settled(u) => HasTx(given.states, u)) /\ LeftInv
  BY <1>2 DEF DoneInv, Place, IsIn
<1>4. Due(h, seen + 1, t) /\ t \in Txids /\ t \in ToSettle
  <2>1. Due(h, seen + 1, t)
    BY <1>1, <1>2 DEF Due, Place
  <2>. QED BY <2>1, DueFacts
<1> DEFINE ss == given.states
<1>5. ~CanFinalizeAll(ss, given.blocks, ToSettle)
  <2>1. CASE ~HasTx(ss, t)
    BY <1>4, <2>1 DEF CanFinalizeAll
  <2>2. CASE HasTx(ss, t)
    <3>1. PICK d : Settled(d) /\ left = Finalize(ss, d)
      BY <1>1, <1>3, <2>2 DEF LeftInv
    <3>2. PICK g, j : Reached(g, j, d)
      BY <3>1 DEF Settled
    <3>3. Due(g, j, d) /\ d \in Txids /\ d \in ToSettle
      BY <3>2, DueFacts DEF Reached
    <3>4. Earlier(g, j, h, seen + 1)
      BY <1>2, <3>2, ReachedIsEarlier DEF Place
    <3>5. Before(given.blocks, d, t)
      BY <1>4, <3>3, <3>4, BeforeIsEarlier DEF Due
    <3>6. ~(Position(ss, d) <= Position(ss, t))
      BY <1>1, <1>3, <1>4, <2>2, <3>1, <3>3, FinalizeHas DEF GivenInv
    <3>. QED BY <1>4, <3>3, <3>5, <3>6 DEF CanFinalizeAll
  <2>. QED BY <2>1, <2>2
<1>6. ToSettle' = ToSettle
  BY <1>1 DEF ToSettle
<1>. QED BY <1>1, <1>5, <1>6 DEF DoneInv

LEMMA StepKeepsLoop ==
  ASSUME LoopInv, [LoopNext]_loopVars
  PROVE  LoopInv'
<1>1. GivenInv' /\ PlaceInv'
  BY StepKeepsPlace DEF LoopInv
<1>2. CASE UNCHANGED loopVars
  <2>1. /\ given' = given /\ rest' = rest /\ seen' = seen
        /\ left' = left /\ trapped' = trapped
    BY <1>2 DEF loopVars
  <2>2. \A h, i, t : Reached(h, i, t)' <=> Reached(h, i, t)
    BY <2>1 DEF Reached, Due, Passed, IsIn
  <2>3. DoneInv'
    BY <2>1, <2>2, SameReached DEF LoopInv
  <2>. QED BY <1>1, <2>3 DEF LoopInv
<1>3. CASE LoopNext
  BY <1>1, <1>3, NextBlockKeepsDone, PassByKeepsDone, FinalizeNextKeepsDone,
     FinalizeTrapsKeepsDone DEF LoopInv, LoopNext
<1>. QED BY <1>2, <1>3

(* When the loop is through with all blocks, what it has reached is what   *)
(* there is to settle.                                                     *)
LEMMA LoopInvAgrees ==
  ASSUME LoopInv
  PROVE  LoopAgrees
<1> DEFINE ss == given.states
<1>1. SUFFICES ASSUME rest = {}, ~trapped
               PROVE  /\ CanFinalizeAll(ss, given.blocks, ToSettle)
                      /\ left = FinalizeAll(ss, ToSettle)
  BY DEF LoopInv, DoneInv, LoopAgrees, ToSettle
<1>2. /\ \A t : Settled(t) => HasTx(ss, t)
      /\ InOrder /\ LeftInv /\ GivenInv
  BY <1>1 DEF LoopInv, DoneInv
<1>3. \A h, i, t : Reached(h, i, t) <=> Due(h, i, t)
  BY <1>1 DEF Reached, Passed
<1>4. \A t : Settled(t) <=> t \in ToSettle
  <2>1. ASSUME NEW t \in ToSettle PROVE Settled(t)
    BY <1>3, ToSettleIsDue DEF Settled
  <2>2. ASSUME NEW t, Settled(t) PROVE t \in ToSettle
    BY <1>2, <1>3, <2>2, DueFacts DEF Settled
  <2>. QED BY <2>1, <2>2
<1>5. CanFinalizeAll(ss, given.blocks, ToSettle)
  <2>1. ASSUME NEW t \in ToSettle, NEW u \in ToSettle, Before(given.blocks, t, u)
        PROVE  Position(ss, t) <= Position(ss, u)
    <3>1. \E h, i, g, j : Due(h, i, t) /\ Due(g, j, u) /\ Earlier(h, i, g, j)
      <4>1. <<t, TRUE>> \in given.records /\ <<u, TRUE>> \in given.records
        BY DEF ToSettle, Settling
      <4>. QED BY <2>1, <4>1, BeforeIsEarlier
    <3>. QED BY <1>2, <1>3, <3>1 DEF InOrder
  <2>. QED BY <1>2, <1>4, <2>1 DEF CanFinalizeAll
<1>6. left = FinalizeAll(ss, ToSettle)
  <2>1. CASE ToSettle = {}
    BY <1>2, <1>4, <2>1 DEF LeftInv, FinalizeAll
  <2>2. CASE ToSettle # {}
    <3>1. PICK t \in ToSettle :
            /\ left = Finalize(ss, t)
            /\ \A u \in ToSettle : Position(ss, u) <= Position(ss, t)
      BY <1>2, <1>4, <2>2 DEF LeftInv
    <3>2. PICK d \in ToSettle :
            /\ FinalizeAll(ss, ToSettle) = Finalize(ss, d)
            /\ \A u \in ToSettle : Position(ss, u) <= Position(ss, d)
      BY <1>2, <1>4, <2>2, FinalizeAllIs DEF GivenInv
    <3>3. /\ Position(ss, t) <= Position(ss, d) /\ Position(ss, d) <= Position(ss, t)
          /\ Position(ss, t) \in Nat /\ Position(ss, d) \in Nat
      BY <1>2, <1>4, <3>1, <3>2, PositionIsFirst DEF GivenInv
    <3>4. Position(ss, t) = Position(ss, d)
      <4>. HIDE DEF ss
      <4>. QED BY <3>3
    <3>. QED BY <3>1, <3>2, <3>4 DEF Finalize
  <2>. QED BY <2>1, <2>2
<1>. QED BY <1>5, <1>6

(* On every history in which a transaction makes one state, all blocks and *)
(* all records the finalizing loop of new_block panics exactly when        *)
(* CanFinalizeAll is false, and otherwise leaves of the history what       *)
(* FinalizeAll says: NewBlock of BlockTracker may take them for the loop.  *)
THEOREM LoopIsClosedForm == LoopSpec => []LoopAgrees
<1>1. LoopInit => LoopInv
  BY HeightsAssumption, InitLoopInv
<1>2. LoopInv /\ [LoopNext]_loopVars => LoopInv'
  BY StepKeepsLoop
<1>3. LoopInv => LoopAgrees
  BY LoopInvAgrees
<1>. QED BY <1>1, <1>2, <1>3, PTL DEF LoopSpec
===============================================================================
