--------------------------------- MODULE Sums ---------------------------------
(***************************************************************************)
(* What the proofs need of sums over finite sets: SumFunctionOnSet adds    *)
(* naturals in an order that CHOOSE picks, which does not matter.  An      *)
(* induction is over the subsets of a finite set, with the set of those    *)
(* that have the property in the place of the property.                    *)
(***************************************************************************)
EXTENDS Naturals, FiniteSets, Functions, FiniteSetTheorems, WellFoundedInduction, TLAPS

\* What holds of a subset when it holds of all smaller ones holds of the set.
LEMMA SubsetInduction ==
  ASSUME NEW S, IsFiniteSet(S), NEW P,
         \A T \in SUBSET S :
           (\A U \in SUBSET T : U # T => U \in P) => T \in P
  PROVE  \A T \in SUBSET S : T \in P
  <1>. DEFINE Bad == {T \in SUBSET S : T \notin P}
  <1>1. Bad \subseteq FiniteSubsetsOf(S)
    BY FS_Subset DEF FiniteSubsetsOf
  <1>2. ASSUME Bad # {}
        PROVE  FALSE
    <2>1. IsWellFoundedOn(StrictSubsetOrdering(S), FiniteSubsetsOf(S))
      BY FS_StrictSubsetOrderingWellFounded
    <2>2. PICK T \in Bad : \A U \in Bad : ~ (<<U, T>> \in StrictSubsetOrdering(S))
      <3>. HIDE DEF Bad
      <3>. QED
        BY <1>1, <1>2, <2>1, WFMin
    <2>3. \A U \in SUBSET T : U # T => <<U, T>> \in StrictSubsetOrdering(S)
      BY <2>2 DEF StrictSubsetOrdering
    <2>4. ASSUME NEW U \in SUBSET T, U # T, U \notin P
          PROVE  FALSE
      <3>1. U \in Bad
        BY <2>4
      <3>2. <<U, T>> \in StrictSubsetOrdering(S)
        BY <2>3, <2>4
      <3>. HIDE DEF Bad
      <3>. QED
        BY <2>2, <3>1, <3>2
    <2>. QED
      BY <2>2, <2>4
  <1>. QED
    BY <1>2

\* A set of numbers has a least one.
LEMMA LeastNumber ==
  ASSUME NEW S \in SUBSET Nat, S # {}
  PROVE  \E x \in S : \A y \in S : x <= y
  <1>1. PICK x \in S : \A y \in S : ~(<<y, x>> \in OpToRel(<, Nat))
    BY WFMin, NatLessThanWellFounded
  <1>2. \A y \in S : ~(y < x)
    BY <1>1 DEF OpToRel
  <1>3. \A y \in S : x <= y
    BY <1>2
  <1>. QED
    BY <1>3

\* The element that comes next, and the partial sums over the subsets of S.
Pick(s) == CHOOSE x \in s : TRUE

Adds(g, f, S) ==
  g = [s \in SUBSET S |-> IF s = {} THEN 0 ELSE f[Pick(s)] + g[s \ {Pick(s)}]]

\* SumFunctionOnSet is the last partial sum.
LEMMA SumDef ==
  ASSUME NEW S, NEW f
  PROVE  SumFunctionOnSet(f, S) = (CHOOSE g : Adds(g, f, S))[S]
  BY DEF SumFunctionOnSet, FoldFunctionOnSet, MapThenFoldSet, Adds, Pick

\* Partial sums are determined.
LEMMA AddsUnique ==
  ASSUME NEW S, IsFiniteSet(S), NEW f, NEW g, NEW h, Adds(g, f, S), Adds(h, f, S)
  PROVE  \A s \in SUBSET S : g[s] = h[s]
  <1>. DEFINE P == {T \in SUBSET S : g[T] = h[T]}
  <1>1. ASSUME NEW T \in SUBSET S, \A U \in SUBSET T : U # T => U \in P
        PROVE  T \in P
    <2>1. CASE T = {}
      BY <2>1 DEF Adds
    <2>2. CASE T # {}
      <3>1. Pick(T) \in T
        BY <2>2 DEF Pick
      <3>2. g[T \ {Pick(T)}] = h[T \ {Pick(T)}]
        BY <1>1, <3>1
      <3>3. /\ g[T] = f[Pick(T)] + g[T \ {Pick(T)}]
            /\ h[T] = f[Pick(T)] + h[T \ {Pick(T)}]
        BY <2>2 DEF Adds
      <3>. QED
        BY <3>2, <3>3
    <2>. QED
      BY <2>1, <2>2
  <1>. HIDE DEF P
  <1>2. \A T \in SUBSET S : T \in P
    BY <1>1, SubsetInduction
  <1>. QED
    BY <1>2 DEF P

\* Those of S are also those of a subset.
LEMMA AddsWithin ==
  ASSUME NEW S, NEW f, NEW g, Adds(g, f, S), NEW T \in SUBSET S
  PROVE  Adds([s \in SUBSET T |-> g[s]], f, T)
  <1>. DEFINE h == [s \in SUBSET T |-> g[s]]
  <1>1. ASSUME NEW s \in SUBSET T
        PROVE  h[s] = IF s = {} THEN 0 ELSE f[Pick(s)] + h[s \ {Pick(s)}]
    <2>1. h[s] = IF s = {} THEN 0 ELSE f[Pick(s)] + g[s \ {Pick(s)}]
      BY DEF Adds
    <2>2. h[s \ {Pick(s)}] = g[s \ {Pick(s)}]
      OBVIOUS
    <2>. QED
      BY <2>1, <2>2
  <1>. QED
    BY <1>1 DEF Adds

\* There are partial sums.
LEMMA AddsExists ==
  ASSUME NEW S, IsFiniteSet(S), NEW f
  PROVE  \E g : Adds(g, f, S)
  <1>. DEFINE P == {T \in SUBSET S : \E g : Adds(g, f, T)}
              H(T) == CHOOSE g : Adds(g, f, T)
  <1>1. ASSUME NEW T \in SUBSET S, \A U \in SUBSET T : U # T => U \in P
        PROVE  T \in P
    <2>. DEFINE g == [s \in SUBSET T |->
                        IF s # T THEN H(s)[s]
                        ELSE IF T = {} THEN 0
                        ELSE f[Pick(T)] + H(T \ {Pick(T)})[T \ {Pick(T)}]]
    <2>1. ASSUME NEW s \in SUBSET T, s # {}
          PROVE  s \ {Pick(s)} \in SUBSET T /\ s \ {Pick(s)} # T /\ Pick(s) \in s
      BY <2>1 DEF Pick
    <2>2. ASSUME NEW s \in SUBSET T, s # T
          PROVE  Adds(H(s), f, s)
      BY <1>1, <2>2
    <2>3. ASSUME NEW s \in SUBSET T, s # {}, s # T
          PROVE  H(s)[s] = f[Pick(s)] + H(s \ {Pick(s)})[s \ {Pick(s)}]
      <3>. DEFINE u == s \ {Pick(s)}
                  k == [x \in SUBSET u |-> H(s)[x]]
      <3>1. Adds(H(s), f, s) /\ Adds(H(u), f, u) /\ u \in SUBSET s
        BY <2>1, <2>2, <2>3
      <3>2. Adds(k, f, u)
        BY <3>1, AddsWithin
      <3>3. IsFiniteSet(u)
        BY <2>3, FS_Subset
      <3>4. k[u] = H(u)[u]
        <4>. HIDE DEF k, u, H
        <4>. QED
          BY <3>1, <3>2, <3>3, AddsUnique
      <3>5. k[u] = H(s)[u]
        OBVIOUS
      <3>6. H(s)[s] = f[Pick(s)] + H(s)[u]
        <4>. HIDE DEF H
        <4>. QED
          BY <2>3, <3>1 DEF Adds
      <3>. QED
        BY <3>4, <3>5, <3>6
    <2>4. ASSUME NEW s \in SUBSET T
          PROVE  g[s] = IF s = {} THEN 0 ELSE f[Pick(s)] + g[s \ {Pick(s)}]
      <3>1. CASE s # {}
        <4>1. g[s \ {Pick(s)}] = H(s \ {Pick(s)})[s \ {Pick(s)}]
          <5>. HIDE DEF H
          <5>. QED
            BY <2>1, <3>1
        <4>2. g[s] = f[Pick(s)] + H(s \ {Pick(s)})[s \ {Pick(s)}]
          <5>. HIDE DEF H
          <5>. QED
            BY <2>3, <3>1
        <4>. QED
          BY <3>1, <4>1, <4>2
      <3>2. CASE s = {}
        <4>1. s # T => H(s)[s] = 0
          <5>. HIDE DEF H
          <5>. QED
            BY <2>2, <3>2 DEF Adds
        <4>2. g[s] = 0
          <5>. HIDE DEF H
          <5>. QED
            BY <3>2, <4>1
        <4>. QED
          BY <3>2, <4>2
      <3>. QED
        BY <3>1, <3>2
    <2>5. Adds(g, f, T)
      <3>1. g = [s \in SUBSET T |-> g[s]]
        OBVIOUS
      <3>. HIDE DEF g
      <3>. QED
        BY <2>4, <3>1 DEF Adds
    <2>. QED
      BY <2>5
  <1>. HIDE DEF P
  <1>2. \A T \in SUBSET S : T \in P
    BY <1>1, SubsetInduction
  <1>. QED
    BY <1>2 DEF P
-----------------------------------------------------------------------------
\* A sum is its next element and the sum of the rest.
LEMMA SumUnfold ==
  ASSUME NEW S, IsFiniteSet(S), NEW f
  PROVE  /\ S = {} => SumFunctionOnSet(f, S) = 0
         /\ S # {} => /\ Pick(S) \in S
                      /\ SumFunctionOnSet(f, S) =
                           f[Pick(S)] + SumFunctionOnSet(f, S \ {Pick(S)})
  <1>. DEFINE G(T) == CHOOSE g : Adds(g, f, T)
  <1>1. \A T \in SUBSET S : Adds(G(T), f, T) /\ SumFunctionOnSet(f, T) = G(T)[T]
    BY AddsExists, SumDef, FS_Subset
  <1>2. CASE S = {}
    <2>. HIDE DEF G
    <2>. QED
      BY <1>1, <1>2 DEF Adds
  <1>3. CASE S # {}
    <2>. DEFINE u == S \ {Pick(S)}
                k == [x \in SUBSET u |-> G(S)[x]]
    <2>1. Pick(S) \in S /\ IsFiniteSet(u) /\ u \in SUBSET S
      BY <1>3, FS_Subset DEF Pick
    <2>2. Adds(k, f, u) /\ Adds(G(u), f, u)
      <3>1. Adds(G(S), f, S) /\ Adds(G(u), f, u)
        BY <1>1, <2>1
      <3>. HIDE DEF G, u
      <3>. QED
        BY <2>1, <3>1, AddsWithin
    <2>3. k[u] = G(u)[u]
      <3>. HIDE DEF k, u, G
      <3>. QED
        BY <2>1, <2>2, AddsUnique
    <2>4. k[u] = G(S)[u]
      OBVIOUS
    <2>5. G(S)[S] = f[Pick(S)] + G(S)[u]
      <3>. HIDE DEF G
      <3>. QED
        BY <1>1, <1>3 DEF Adds
    <2>6. SumFunctionOnSet(f, S) = G(S)[S] /\ SumFunctionOnSet(f, u) = G(u)[u]
      BY <1>1, <2>1
    <2>. QED
      BY <1>3, <2>1, <2>3, <2>4, <2>5, <2>6
  <1>. QED
    BY <1>2, <1>3

\* A sum of naturals is a natural.
LEMMA SumNat ==
  ASSUME NEW S, IsFiniteSet(S), NEW f, \A x \in S : f[x] \in Nat
  PROVE  SumFunctionOnSet(f, S) \in Nat
  <1>. DEFINE P == {T \in SUBSET S : SumFunctionOnSet(f, T) \in Nat}
  <1>1. ASSUME NEW T \in SUBSET S, \A U \in SUBSET T : U # T => U \in P
        PROVE  T \in P
    <2>1. IsFiniteSet(T)
      BY FS_Subset
    <2>2. CASE T = {}
      BY <2>1, <2>2, SumUnfold
    <2>3. CASE T # {}
      <3>1. /\ Pick(T) \in T
            /\ SumFunctionOnSet(f, T) = f[Pick(T)] + SumFunctionOnSet(f, T \ {Pick(T)})
        BY <2>1, <2>3, SumUnfold
      <3>2. SumFunctionOnSet(f, T \ {Pick(T)}) \in Nat
        BY <1>1, <3>1
      <3>. QED
        BY <3>1, <3>2
    <2>. QED
      BY <2>2, <2>3
  <1>. HIDE DEF P
  <1>2. \A T \in SUBSET S : T \in P
    BY <1>1, SubsetInduction
  <1>. QED
    BY <1>2 DEF P

\* Equal summands have equal sums.
LEMMA SumSame ==
  ASSUME NEW S, IsFiniteSet(S), NEW f, NEW g, \A x \in S : f[x] = g[x]
  PROVE  SumFunctionOnSet(f, S) = SumFunctionOnSet(g, S)
  <1>. DEFINE P == {T \in SUBSET S : SumFunctionOnSet(f, T) = SumFunctionOnSet(g, T)}
  <1>1. ASSUME NEW T \in SUBSET S, \A U \in SUBSET T : U # T => U \in P
        PROVE  T \in P
    <2>1. IsFiniteSet(T)
      BY FS_Subset
    <2>2. CASE T = {}
      BY <2>1, <2>2, SumUnfold
    <2>3. CASE T # {}
      <3>1. /\ Pick(T) \in T
            /\ SumFunctionOnSet(f, T) = f[Pick(T)] + SumFunctionOnSet(f, T \ {Pick(T)})
            /\ SumFunctionOnSet(g, T) = g[Pick(T)] + SumFunctionOnSet(g, T \ {Pick(T)})
        BY <2>1, <2>3, SumUnfold
      <3>2. SumFunctionOnSet(f, T \ {Pick(T)}) = SumFunctionOnSet(g, T \ {Pick(T)})
        BY <1>1, <3>1
      <3>. QED
        BY <3>1, <3>2
    <2>. QED
      BY <2>2, <2>3
  <1>. HIDE DEF P
  <1>2. \A T \in SUBSET S : T \in P
    BY <1>1, SubsetInduction
  <1>. QED
    BY <1>2 DEF P

\* The order of summation does not matter: any element can be taken out.
LEMMA SumRemove ==
  ASSUME NEW S, IsFiniteSet(S), NEW f, \A x \in S : f[x] \in Nat, NEW x \in S
  PROVE  SumFunctionOnSet(f, S) = f[x] + SumFunctionOnSet(f, S \ {x})
  <1>. DEFINE P == {T \in SUBSET S :
                      \A y \in T : SumFunctionOnSet(f, T) =
                                     f[y] + SumFunctionOnSet(f, T \ {y})}
  <1>1. ASSUME NEW T \in SUBSET S, \A U \in SUBSET T : U # T => U \in P
        PROVE  T \in P
    <2>1. IsFiniteSet(T)
      BY FS_Subset
    <2>2. SUFFICES ASSUME NEW y \in T
                   PROVE  SumFunctionOnSet(f, T) = f[y] + SumFunctionOnSet(f, T \ {y})
      OBVIOUS
    <2>. DEFINE p == Pick(T)
    <2>3. p \in T /\ SumFunctionOnSet(f, T) = f[p] + SumFunctionOnSet(f, T \ {p})
      BY <2>1, SumUnfold
    <2>4. CASE y # p
      <3>1. /\ T \ {p} \in SUBSET T /\ T \ {p} # T /\ y \in T \ {p}
            /\ T \ {y} \in SUBSET T /\ T \ {y} # T /\ p \in T \ {y}
            /\ (T \ {p}) \ {y} = (T \ {y}) \ {p}
        BY <2>3, <2>4
      <3>. DEFINE r == (T \ {p}) \ {y}
      <3>2. SumFunctionOnSet(f, T \ {p}) = f[y] + SumFunctionOnSet(f, r)
        BY <1>1, <3>1
      <3>3. SumFunctionOnSet(f, T \ {y}) = f[p] + SumFunctionOnSet(f, r)
        BY <1>1, <3>1
      <3>4. IsFiniteSet(r) /\ r \subseteq S
        BY <2>1, FS_Subset
      <3>5. SumFunctionOnSet(f, r) \in Nat /\ f[p] \in Nat /\ f[y] \in Nat
        <4>. HIDE DEF r, p
        <4>. QED
          BY <2>3, <3>4, SumNat
      <3>. HIDE DEF r, p
      <3>. QED
        BY <2>3, <3>2, <3>3, <3>5
    <2>. QED
      BY <2>3, <2>4
  <1>. HIDE DEF P
  <1>2. \A T \in SUBSET S : T \in P
    BY <1>1, SubsetInduction
  <1>. QED
    BY <1>2 DEF P

\* Smaller summands have a smaller sum.
LEMMA SumMonotone ==
  ASSUME NEW S, IsFiniteSet(S), NEW f, NEW g,
         \A x \in S : f[x] \in Nat /\ g[x] \in Nat /\ f[x] <= g[x]
  PROVE  SumFunctionOnSet(f, S) <= SumFunctionOnSet(g, S)
  <1>. DEFINE P == {T \in SUBSET S : SumFunctionOnSet(f, T) <= SumFunctionOnSet(g, T)}
  <1>1. ASSUME NEW T \in SUBSET S, \A U \in SUBSET T : U # T => U \in P
        PROVE  T \in P
    <2>1. IsFiniteSet(T)
      BY FS_Subset
    <2>2. CASE T = {}
      BY <2>1, <2>2, SumUnfold
    <2>3. CASE T # {}
      <3>. DEFINE p == Pick(T)
      <3>1. /\ p \in T
            /\ SumFunctionOnSet(f, T) = f[p] + SumFunctionOnSet(f, T \ {p})
            /\ SumFunctionOnSet(g, T) = g[p] + SumFunctionOnSet(g, T \ {p})
        BY <2>1, <2>3, SumUnfold
      <3>2. SumFunctionOnSet(f, T \ {p}) <= SumFunctionOnSet(g, T \ {p})
        BY <1>1, <3>1
      <3>3. IsFiniteSet(T \ {p})
        BY <2>1, FS_Subset
      <3>4. SumFunctionOnSet(f, T \ {p}) \in Nat /\ SumFunctionOnSet(g, T \ {p}) \in Nat
        <4>. HIDE DEF p
        <4>. QED
          BY <3>3, SumNat
      <3>. HIDE DEF p
      <3>. QED
        BY <3>1, <3>2, <3>4
    <2>. QED
      BY <2>2, <2>3
  <1>. HIDE DEF P
  <1>2. \A T \in SUBSET S : T \in P
    BY <1>1, SubsetInduction
  <1>. QED
    BY <1>2 DEF P

\* Leaving summands out makes a sum no larger.
LEMMA SumSubset ==
  ASSUME NEW S, IsFiniteSet(S), NEW f, \A x \in S : f[x] \in Nat, NEW T \in SUBSET S
  PROVE  SumFunctionOnSet(f, T) <= SumFunctionOnSet(f, S)
  <1>. DEFINE P == {A \in SUBSET S : \A B \in SUBSET A :
                      SumFunctionOnSet(f, B) <= SumFunctionOnSet(f, A)}
  <1>1. ASSUME NEW A \in SUBSET S, \A U \in SUBSET A : U # A => U \in P
        PROVE  A \in P
    <2>1. SUFFICES ASSUME NEW B \in SUBSET A
                   PROVE  SumFunctionOnSet(f, B) <= SumFunctionOnSet(f, A)
      OBVIOUS
    <2>2. /\ IsFiniteSet(A) /\ IsFiniteSet(B)
          /\ SumFunctionOnSet(f, A) \in Nat /\ SumFunctionOnSet(f, B) \in Nat
      BY FS_Subset, SumNat
    <2>3. CASE B # A
      <3>1. PICK x \in A : x \notin B
        BY <2>3
      <3>2. SumFunctionOnSet(f, A) = f[x] + SumFunctionOnSet(f, A \ {x})
        BY <2>2, SumRemove
      <3>3. SumFunctionOnSet(f, B) <= SumFunctionOnSet(f, A \ {x})
        BY <1>1, <3>1
      <3>4. IsFiniteSet(A \ {x})
        BY <2>2, FS_Subset
      <3>5. SumFunctionOnSet(f, A \ {x}) \in Nat
        BY <3>4, SumNat
      <3>. QED
        BY <2>2, <3>2, <3>3, <3>5
    <2>. QED
      BY <2>2, <2>3
  <1>. HIDE DEF P
  <1>2. \A A \in SUBSET S : A \in P
    BY <1>1, SubsetInduction
  <1>. QED
    BY <1>2 DEF P

\* Nothing adds up to nothing.
LEMMA SumZero ==
  ASSUME NEW S, IsFiniteSet(S), NEW f, \A x \in S : f[x] = 0
  PROVE  SumFunctionOnSet(f, S) = 0
  <1>. DEFINE P == {T \in SUBSET S : SumFunctionOnSet(f, T) = 0}
  <1>1. ASSUME NEW T \in SUBSET S, \A U \in SUBSET T : U # T => U \in P
        PROVE  T \in P
    <2>1. IsFiniteSet(T)
      BY FS_Subset
    <2>2. CASE T = {}
      BY <2>1, <2>2, SumUnfold
    <2>3. CASE T # {}
      <3>1. /\ Pick(T) \in T
            /\ SumFunctionOnSet(f, T) = f[Pick(T)] + SumFunctionOnSet(f, T \ {Pick(T)})
        BY <2>1, <2>3, SumUnfold
      <3>2. SumFunctionOnSet(f, T \ {Pick(T)}) = 0 /\ f[Pick(T)] = 0
        BY <1>1, <3>1
      <3>. QED
        BY <3>1, <3>2
    <2>. QED
      BY <2>2, <2>3
  <1>. HIDE DEF P
  <1>2. \A T \in SUBSET S : T \in P
    BY <1>1, SubsetInduction
  <1>. QED
    BY <1>2 DEF P

\* One more of the same.
LEMMA OneMore == \A n \in Nat, c \in Nat : n * c \in Nat /\ (n + 1) * c = n * c + c
  OBVIOUS

\* Summands that are at most those of g, on A, and c, on B, add up to no more than
\* those of g and as many c as B has elements.
LEMMA SumBelow ==
  ASSUME NEW S, IsFiniteSet(S), NEW f, NEW g, NEW A, NEW B, NEW c \in Nat,
         \A x \in S : f[x] \in Nat /\ (x \in A => g[x] \in Nat),
         \A x \in S :
           f[x] <= (IF x \in A THEN g[x] ELSE 0) + (IF x \in B THEN c ELSE 0)
  PROVE  SumFunctionOnSet(f, S) <=
           SumFunctionOnSet(g, A \cap S) + Cardinality(B \cap S) * c
  <1>. DEFINE Bound(T) == SumFunctionOnSet(g, A \cap T) + Cardinality(B \cap T) * c
              P == {T \in SUBSET S : SumFunctionOnSet(f, T) <= Bound(T)}
  <1>1. ASSUME NEW T \in SUBSET S, \A U \in SUBSET T : U # T => U \in P
        PROVE  T \in P
    <2>1. IsFiniteSet(T) /\ IsFiniteSet(A \cap T) /\ IsFiniteSet(B \cap T)
      BY FS_Subset
    <2>2. CASE T = {}
      <3>1. SumFunctionOnSet(f, T) = 0
        BY <2>1, <2>2, SumUnfold
      <3>2. A \cap T = {} /\ B \cap T = {}
        BY <2>2
      <3>3. SumFunctionOnSet(g, A \cap T) = 0
        BY <2>1, <3>2, SumUnfold
      <3>4. Cardinality(B \cap T) = 0
        BY <3>2, FS_EmptySet
      <3>5. 0 * c = 0
        OBVIOUS
      <3>. QED
        BY <3>1, <3>3, <3>4, <3>5
    <2>3. CASE T # {}
      <3>1. PICK x \in T : TRUE
        BY <2>3
      <3>. DEFINE U == T \ {x}
      <3>2. SumFunctionOnSet(f, T) = f[x] + SumFunctionOnSet(f, U)
        BY <2>1, SumRemove
      <3>3. SumFunctionOnSet(f, U) <= Bound(U)
        <4>1. U \in SUBSET T /\ U # T
          OBVIOUS
        <4>. QED
          BY <1>1, <4>1
      <3>4. /\ IsFiniteSet(U) /\ IsFiniteSet(A \cap U) /\ IsFiniteSet(B \cap U)
            /\ Cardinality(B \cap U) \in Nat
        <4>1. IsFiniteSet(U)
          BY <2>1, FS_Subset
        <4>2. IsFiniteSet(A \cap U)
          BY <4>1, FS_Subset
        <4>3. IsFiniteSet(B \cap U)
          BY <4>1, FS_Subset
        <4>. QED
          BY <4>1, <4>2, <4>3, FS_CardinalityType
      <3>5. SumFunctionOnSet(f, U) \in Nat /\ SumFunctionOnSet(g, A \cap U) \in Nat
        <4>1. (\A y \in U : f[y] \in Nat) /\ \A y \in A \cap U : g[y] \in Nat
          OBVIOUS
        <4>. QED
          BY <3>4, <4>1, SumNat
      <3>6. SumFunctionOnSet(g, A \cap T) =
              (IF x \in A THEN g[x] ELSE 0) + SumFunctionOnSet(g, A \cap U)
        <4>1. CASE x \in A
          <5>1. x \in A \cap T /\ A \cap U = (A \cap T) \ {x}
            BY <4>1
          <5>2. \A y \in A \cap T : g[y] \in Nat
            OBVIOUS
          <5>. HIDE DEF U
          <5>. QED
            BY <2>1, <4>1, <5>1, <5>2, SumRemove
        <4>2. CASE x \notin A
          <5>1. A \cap U = A \cap T
            BY <4>2
          <5>. HIDE DEF U
          <5>. QED
            BY <3>5, <4>2, <5>1
        <4>. QED
          BY <4>1, <4>2
      <3>7. Cardinality(B \cap T) = Cardinality(B \cap U) + (IF x \in B THEN 1 ELSE 0)
        <4>1. CASE x \in B
          <5>1. B \cap T = (B \cap U) \cup {x} /\ x \notin B \cap U
            BY <3>1, <4>1
          <5>. HIDE DEF U
          <5>. QED
            BY <3>4, <4>1, <5>1, FS_AddElement
        <4>2. CASE x \notin B
          <5>1. B \cap T = B \cap U
            BY <4>2
          <5>. HIDE DEF U
          <5>. QED
            BY <3>4, <4>2, <5>1
        <4>. QED
          BY <4>1, <4>2
      <3>8. Cardinality(B \cap T) * c =
              Cardinality(B \cap U) * c + (IF x \in B THEN c ELSE 0)
              /\ Cardinality(B \cap U) * c \in Nat
        <4>. HIDE DEF U
        <4>. QED
          BY <3>4, <3>7, OneMore
      <3>9. PICK fu \in Nat, gu \in Nat, n \in Nat, fx \in Nat, a \in Nat, b \in Nat :
              /\ fu = SumFunctionOnSet(f, U) /\ gu = SumFunctionOnSet(g, A \cap U)
              /\ n = Cardinality(B \cap U) * c /\ fx = f[x]
              /\ a = (IF x \in A THEN g[x] ELSE 0) /\ b = (IF x \in B THEN c ELSE 0)
        <4>. HIDE DEF U
        <4>. QED
          BY <3>1, <3>5, <3>8
      <3>10. fu <= gu + n /\ fx <= a + b
        BY <3>1, <3>3, <3>9
      <3>11. fx + fu <= (a + gu) + (n + b)
        BY <3>10
      <3>12. SumFunctionOnSet(f, T) <= Bound(T)
        BY <3>2, <3>6, <3>8, <3>9, <3>11
      <3>. QED
        BY <3>12
    <2>. QED
      BY <2>2, <2>3
  <1>. HIDE DEF P
  <1>2. \A T \in SUBSET S : T \in P
    BY <1>1, SubsetInduction
  <1>3. S \in P
    BY <1>2
  <1>. QED
    BY <1>3 DEF P
=============================================================================
