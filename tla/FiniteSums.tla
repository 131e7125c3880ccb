------------------------------ MODULE FiniteSums ------------------------------
(***************************************************************************)
(* Facts about finite sets that the proofs about the game and the blocks   *)
(* need: induction over the subsets of a finite set, the sum of a function *)
(* over a finite set, and the greatest of a finite set of heights.         *)
(*                                                                         *)
(* The library states induction for an operator P(_).  Here what is proved *)
(* by induction is a set of sets, so that the lemma is first-order.        *)
(***************************************************************************)
EXTENDS FiniteSetsExt, TLAPS, FiniteSetTheorems, WellFoundedInduction

(* What holds for a subset as soon as it holds for all smaller ones holds  *)
(* for all: strict inclusion is well-founded on the subsets of S.          *)
LEMMA SubsetInduction ==
  ASSUME NEW S, IsFiniteSet(S), NEW P,
         \A T \in SUBSET S : (\A U \in SUBSET T : U # T => U \in P) => T \in P
  PROVE  \A T \in SUBSET S : T \in P
<1> DEFINE Bad == {T \in SUBSET S : T \notin P}
           R == StrictSubsetOrdering(S)
<1>1. IsWellFoundedOn(R, SUBSET S)
  BY FS_FiniteSubsetsOfFinite, FS_StrictSubsetOrderingWellFounded
<1>2. ASSUME Bad # {} PROVE FALSE
  <2>1. PICK T \in Bad : \A U \in Bad : <<U, T>> \notin R
    <3>1. Bad \subseteq SUBSET S
      OBVIOUS
    <3>. HIDE DEF Bad, R
    <3>. QED BY <1>1, <1>2, <3>1, WFMin
  <2>2. ASSUME NEW U \in SUBSET T, U # T PROVE U \in P
    <3>1. U \in SUBSET S
      BY <2>2
    <3>2. <<U, T>> \in R
      BY <2>2, <3>1 DEF StrictSubsetOrdering
    <3>. QED BY <2>1, <3>1, <3>2
  <2>. QED BY <2>1, <2>2
<1>. QED BY <1>2

-------------------------------------------------------------------------------
(* The sum of f over a set S is defined by a recursive function on the     *)
(* subsets of S.  IsSum says that F is that function.                      *)
Some(S) == CHOOSE x \in S : TRUE

IsSum(F, f, S) ==
  F = [s \in SUBSET S |-> IF s = {} THEN 0
                          ELSE f[Some(s)] + F[s \ {Some(s)}]]

LEMMA SomeIn == ASSUME NEW S, S # {} PROVE Some(S) \in S
BY DEF Some

(* Two such functions agree where both are defined.                        *)
LEMMA SumUnique ==
  ASSUME NEW f, NEW S, IsFiniteSet(S), NEW T \in SUBSET S,
         NEW F, NEW G, IsSum(F, f, S), IsSum(G, f, T)
  PROVE  \A s \in SUBSET T : F[s] = G[s]
<1> DEFINE P == {s \in SUBSET T : F[s] = G[s]}
<1>1. IsFiniteSet(T)
  BY FS_Subset
<1>2. ASSUME NEW s \in SUBSET T, \A U \in SUBSET s : U # s => U \in P
      PROVE  s \in P
  <2>1. s \in SUBSET S
    OBVIOUS
  <2>2. /\ F[s] = IF s = {} THEN 0 ELSE f[Some(s)] + F[s \ {Some(s)}]
        /\ G[s] = IF s = {} THEN 0 ELSE f[Some(s)] + G[s \ {Some(s)}]
    BY <2>1 DEF IsSum
  <2>3. s # {} => s \ {Some(s)} \in P
    BY <1>2, SomeIn
  <2>. QED BY <2>2, <2>3
<1>3. \A s \in SUBSET T : s \in P
  <2>. HIDE DEF P
  <2>. QED BY <1>1, <1>2, SubsetInduction
<1>. QED BY <1>3

(* There is one for every finite set.                                      *)
LEMMA SumExists ==
  ASSUME NEW f, NEW S, IsFiniteSet(S)
  PROVE  \E F : IsSum(F, f, S)
<1> DEFINE P == {T \in SUBSET S : \E F : IsSum(F, f, T)}
           The(T) == CHOOSE F : IsSum(F, f, T)
<1>1. ASSUME NEW T \in SUBSET S, \A U \in SUBSET T : U # T => U \in P
      PROVE  T \in P
  <2> DEFINE G == [s \in SUBSET T |->
                     IF s = {} THEN 0
                     ELSE f[Some(s)] + The(s \ {Some(s)})[s \ {Some(s)}]]
  <2>1. ASSUME NEW U \in SUBSET T, U # T
        PROVE  IsSum(The(U), f, U) /\ IsFiniteSet(U)
    <3>1. U \in P
      BY <1>1, <2>1
    <3>2. U \in SUBSET S
      BY <2>1
    <3>. QED BY <3>1, <3>2, FS_Subset
  <2>2. ASSUME NEW U \in SUBSET T, U # T PROVE G[U] = The(U)[U]
    <3>1. IsSum(The(U), f, U)
      BY <2>1, <2>2
    <3>2. The(U)[U] = IF U = {} THEN 0
                      ELSE f[Some(U)] + The(U)[U \ {Some(U)}]
      BY <3>1 DEF IsSum
    <3>3. ASSUME U # {} PROVE The(U)[U \ {Some(U)}] = The(U \ {Some(U)})[U \ {Some(U)}]
      <4> DEFINE V == U \ {Some(U)}
      <4>1. V \in SUBSET U /\ V \in SUBSET T /\ V # T
        BY <2>2, <3>3, SomeIn
      <4>2. IsSum(The(V), f, V) /\ IsFiniteSet(U)
        BY <2>1, <2>2, <4>1
      <4>. HIDE DEF V, The
      <4>3. The(U)[V] = The(V)[V]
        BY <3>1, <4>1, <4>2, SumUnique
      <4>. QED BY <4>3 DEF V
    <3>4. G[U] = IF U = {} THEN 0
                 ELSE f[Some(U)] + The(U \ {Some(U)})[U \ {Some(U)}]
      OBVIOUS
    <3>. HIDE DEF G, The
    <3>. QED BY <3>2, <3>3, <3>4
  <2>3. ASSUME NEW s \in SUBSET T, s # {}
        PROVE  G[s] = f[Some(s)] + G[s \ {Some(s)}]
    <3>1. s \ {Some(s)} \in SUBSET T /\ s \ {Some(s)} # T
      BY <2>3, SomeIn
    <3>2. G[s] = f[Some(s)] + The(s \ {Some(s)})[s \ {Some(s)}]
      BY <2>3
    <3>3. G[s \ {Some(s)}] = The(s \ {Some(s)})[s \ {Some(s)}]
      BY <2>2, <3>1
    <3>. HIDE DEF G, The
    <3>. QED BY <3>2, <3>3
  <2>4. G[{}] = 0
    OBVIOUS
  <2>5. G = [s \in SUBSET T |-> G[s]]
    OBVIOUS
  <2>6. IsSum(G, f, T)
    <3>. HIDE DEF G
    <3>. QED BY <2>3, <2>4, <2>5 DEF IsSum
  <2>. QED BY <2>6
<1>2. \A T \in SUBSET S : T \in P
  <2>. HIDE DEF P
  <2>. QED BY <1>1, SubsetInduction
<1>. QED BY <1>2

(* The library's sum is that function.                                     *)
LEMMA SumIsSum ==
  ASSUME NEW f, NEW S, IsFiniteSet(S)
  PROVE  \E F : IsSum(F, f, S) /\ SumFunctionOnSet(f, S) = F[S]
<1> DEFINE F == CHOOSE G : IsSum(G, f, S)
<1>1. IsSum(F, f, S)
  BY SumExists
<1>2. SumFunctionOnSet(f, S) = F[S]
  BY DEF SumFunctionOnSet, FoldFunctionOnSet, MapThenFoldSet, IsSum, Some
<1>. QED BY <1>1, <1>2

LEMMA SumEmpty ==
  ASSUME NEW f
  PROVE  SumFunctionOnSet(f, {}) = 0
<1>1. IsFiniteSet({})
  BY FS_EmptySet
<1>2. PICK F : IsSum(F, f, {}) /\ SumFunctionOnSet(f, {}) = F[{}]
  BY <1>1, SumIsSum
<1>. QED BY <1>2 DEF IsSum

LEMMA SumSome ==
  ASSUME NEW f, NEW S, IsFiniteSet(S), S # {}
  PROVE  /\ Some(S) \in S
         /\ SumFunctionOnSet(f, S) =
              f[Some(S)] + SumFunctionOnSet(f, S \ {Some(S)})
<1> DEFINE T == S \ {Some(S)}
<1>1. Some(S) \in S /\ T \in SUBSET S /\ IsFiniteSet(T)
  BY SomeIn, FS_Subset
<1>2. PICK F : IsSum(F, f, S) /\ SumFunctionOnSet(f, S) = F[S]
  BY SumIsSum
<1>3. PICK G : IsSum(G, f, T) /\ SumFunctionOnSet(f, T) = G[T]
  BY <1>1, SumIsSum
<1>4. F[T] = G[T]
  <2>. HIDE DEF T
  <2>. QED BY <1>1, <1>2, <1>3, SumUnique
<1>5. F[S] = f[Some(S)] + F[T]
  BY <1>2 DEF IsSum
<1>. QED BY <1>1, <1>2, <1>3, <1>4, <1>5

(* A sum of natural numbers is one.                                        *)
LEMMA SumNat ==
  ASSUME NEW f, NEW S, IsFiniteSet(S), \A x \in S : f[x] \in Nat
  PROVE  SumFunctionOnSet(f, S) \in Nat
<1> DEFINE P == {T \in SUBSET S : SumFunctionOnSet(f, T) \in Nat}
<1>1. ASSUME NEW T \in SUBSET S, \A U \in SUBSET T : U # T => U \in P
      PROVE  T \in P
  <2>1. CASE T = {}
    BY <2>1, SumEmpty
  <2>2. CASE T # {}
    <3>1. IsFiniteSet(T)
      BY FS_Subset
    <3>2. /\ Some(T) \in T
          /\ SumFunctionOnSet(f, T) =
               f[Some(T)] + SumFunctionOnSet(f, T \ {Some(T)})
      BY <2>2, <3>1, SumSome
    <3>3. SumFunctionOnSet(f, T \ {Some(T)}) \in Nat /\ f[Some(T)] \in Nat
      BY <1>1, <3>2
    <3>. QED BY <3>2, <3>3
  <2>. QED BY <2>1, <2>2
<1>2. \A T \in SUBSET S : T \in P
  <2>. HIDE DEF P
  <2>. QED BY <1>1, SubsetInduction
<1>. QED BY <1>2

(* Functions that agree on the set have the same sum over it.              *)
LEMMA SumSame ==
  ASSUME NEW f, NEW g, NEW S, IsFiniteSet(S), \A x \in S : f[x] = g[x]
  PROVE  SumFunctionOnSet(f, S) = SumFunctionOnSet(g, S)
<1> DEFINE P == {T \in SUBSET S : SumFunctionOnSet(f, T) = SumFunctionOnSet(g, T)}
<1>1. ASSUME NEW T \in SUBSET S, \A U \in SUBSET T : U # T => U \in P
      PROVE  T \in P
  <2>1. CASE T = {}
    BY <2>1, SumEmpty
  <2>2. CASE T # {}
    <3>1. IsFiniteSet(T)
      BY FS_Subset
    <3>2. /\ Some(T) \in T
          /\ SumFunctionOnSet(f, T) =
               f[Some(T)] + SumFunctionOnSet(f, T \ {Some(T)})
          /\ SumFunctionOnSet(g, T) =
               g[Some(T)] + SumFunctionOnSet(g, T \ {Some(T)})
      BY <2>2, <3>1, SumSome
    <3>3. T \ {Some(T)} \in P /\ f[Some(T)] = g[Some(T)]
      BY <1>1, <3>2
    <3>. QED BY <3>2, <3>3
  <2>. QED BY <2>1, <2>2
<1>2. \A T \in SUBSET S : T \in P
  <2>. HIDE DEF P
  <2>. QED BY <1>1, SubsetInduction
<1>. QED BY <1>2

(* The sum does not depend on the order: any element may be taken out.     *)
LEMMA SumRemove ==
  ASSUME NEW f, NEW S, IsFiniteSet(S), \A x \in S : f[x] \in Nat, NEW e \in S
  PROVE  SumFunctionOnSet(f, S) = f[e] + SumFunctionOnSet(f, S \ {e})
<1> DEFINE Sum(T) == SumFunctionOnSet(f, T)
           P == {T \in SUBSET S : \A x \in T : Sum(T) = f[x] + Sum(T \ {x})}
<1>1. \A T \in SUBSET S : IsFiniteSet(T) /\ Sum(T) \in Nat
  BY FS_Subset, SumNat
<1>2. ASSUME NEW T \in SUBSET S, \A U \in SUBSET T : U # T => U \in P,
             NEW x \in T
      PROVE  Sum(T) = f[x] + Sum(T \ {x})
  <2> DEFINE c == Some(T)
  <2>1. c \in T /\ Sum(T) = f[c] + Sum(T \ {c})
    BY <1>1, SumSome
  <2>2. CASE x = c
    BY <2>1, <2>2
  <2>3. CASE x # c
    <3>1. T \ {c} \in P /\ T \ {x} \in P
      BY <1>2, <2>1
    <3>2. (T \ {c}) \ {x} = (T \ {x}) \ {c}
      OBVIOUS
    <3>3. /\ Sum(T \ {c}) = f[x] + Sum((T \ {c}) \ {x})
          /\ Sum(T \ {x}) = f[c] + Sum((T \ {x}) \ {c})
      BY <2>1, <2>3, <3>1
    <3>4. f[x] \in Nat /\ f[c] \in Nat /\ Sum((T \ {c}) \ {x}) \in Nat
      BY <1>1, <2>1
    <3>. HIDE DEF Sum, c
    <3>. QED BY <2>1, <3>2, <3>3, <3>4
  <2>. QED BY <2>2, <2>3
<1>3. \A T \in SUBSET S : T \in P
  <2>1. ASSUME NEW T \in SUBSET S, \A U \in SUBSET T : U # T => U \in P
        PROVE  T \in P
    BY <1>2, <2>1
  <2>. HIDE DEF P
  <2>. QED BY <2>1, SubsetInduction
<1>. QED BY <1>3

(* A part of the set has no greater sum.                                   *)
LEMMA SumPart ==
  ASSUME NEW f, NEW S, IsFiniteSet(S), \A x \in S : f[x] \in Nat,
         NEW T \in SUBSET S
  PROVE  SumFunctionOnSet(f, T) <= SumFunctionOnSet(f, S)
<1> DEFINE Sum(U) == SumFunctionOnSet(f, U)
           P == {U \in SUBSET S : Sum(T \cap U) <= Sum(U)}
<1>1. \A U \in SUBSET S : IsFiniteSet(U) /\ Sum(U) \in Nat
  BY FS_Subset, SumNat
<1>2. ASSUME NEW U \in SUBSET S, \A V \in SUBSET U : V # U => V \in P
      PROVE  U \in P
  <2>1. CASE U = {}
    <3>1. T \cap U = U
      BY <2>1
    <3>. QED BY <1>1, <3>1
  <2>2. ASSUME NEW x \in U PROVE U \in P
    <3>1. U \ {x} \in P /\ f[x] \in Nat
      BY <1>2
    <3>2. Sum(U) = f[x] + Sum(U \ {x})
      BY <1>1, SumRemove
    <3>3. Sum(T \cap (U \ {x})) <= Sum(U \ {x})
      BY <3>1
    <3>4. CASE x \in T
      <4>1. /\ x \in T \cap U /\ T \cap U \in SUBSET S
            /\ (T \cap U) \ {x} = T \cap (U \ {x})
        BY <3>4
      <4>2. Sum(T \cap U) = f[x] + Sum((T \cap U) \ {x})
        <5>1. IsFiniteSet(T \cap U) /\ \A y \in T \cap U : f[y] \in Nat
          BY <1>1, <4>1
        <5>. QED BY <4>1, <5>1, SumRemove
      <4>3. Sum(T \cap (U \ {x})) \in Nat /\ Sum(U \ {x}) \in Nat
        BY <1>1
      <4>4. Sum(T \cap U) <= Sum(U)
        <5>. HIDE DEF Sum, P
        <5>. QED BY <3>1, <3>2, <3>3, <4>1, <4>2, <4>3
      <4>. QED BY <4>4
    <3>5. CASE x \notin T
      <4>1. Sum(T \cap U) = Sum(T \cap (U \ {x}))
        <5>1. T \cap U = T \cap (U \ {x})
          BY <3>5
        <5>. QED BY <5>1
      <4>2. Sum(T \cap U) \in Nat /\ Sum(U \ {x}) \in Nat
        BY <1>1
      <4>3. Sum(T \cap U) <= Sum(U)
        <5>. HIDE DEF Sum, P
        <5>. QED BY <3>1, <3>2, <3>3, <4>1, <4>2
      <4>. QED BY <4>3
    <3>. QED BY <3>4, <3>5
  <2>. QED BY <2>1, <2>2
<1>3. \A U \in SUBSET S : U \in P
  <2>. HIDE DEF P
  <2>. QED BY <1>2, SubsetInduction
<1>4. T \cap S = T
  OBVIOUS
<1>. QED BY <1>3, <1>4

-------------------------------------------------------------------------------
(* A finite set of numbers that is not empty has a greatest one.           *)
LEMMA MaxIsGreatest ==
  ASSUME NEW S \in SUBSET Int, IsFiniteSet(S), S # {}
  PROVE  Max(S) \in S /\ \A y \in S : y <= Max(S)
<1> DEFINE P == {T \in SUBSET S : T # {} => \E x \in T : \A y \in T : x >= y}
<1>1. ASSUME NEW T \in SUBSET S, \A U \in SUBSET T : U # T => U \in P, T # {}
      PROVE  \E x \in T : \A y \in T : x >= y
  <2>1. PICK z \in T : TRUE
    BY <1>1
  <2>2. T \ {z} \in P
    BY <1>1
  <2>3. CASE T \ {z} = {}
    BY <2>1, <2>3
  <2>4. CASE T \ {z} # {}
    <3>1. PICK x \in T \ {z} : \A y \in T \ {z} : x >= y
      BY <2>2, <2>4
    <3>2. CASE x >= z
      BY <3>1, <3>2
    <3>3. CASE ~(x >= z)
      <4>1. \A y \in T : z >= y
        BY <3>1, <3>3
      <4>. QED BY <2>1, <4>1
    <3>. QED BY <3>2, <3>3
  <2>. QED BY <2>3, <2>4
<1>2. \A T \in SUBSET S : T \in P
  <2>1. ASSUME NEW T \in SUBSET S, \A U \in SUBSET T : U # T => U \in P
        PROVE  T \in P
    BY <1>1, <2>1
  <2>. HIDE DEF P
  <2>. QED BY <2>1, SubsetInduction
<1>3. \E x \in S : \A y \in S : x >= y
  BY <1>2
<1>4. Max(S) \in S /\ \A y \in S : Max(S) >= y
  BY <1>3 DEF Max
<1>. QED BY <1>4
===============================================================================
