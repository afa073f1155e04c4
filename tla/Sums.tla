-------------------------------- MODULE Sums --------------------------------
(* Facts about SumFunctionOnSet(f, S), the sum of f[x] for x in a finite    *)
(* set S, which the models use for bytes, packets and hits.                 *)
(*                                                                          *)
(* It is defined by a recursive function that takes the elements in an      *)
(* order which CHOOSE leaves open.  So the function is first shown to       *)
(* exist, then the sum to depend on nothing but the values of f on S, and   *)
(* then to take in any element at any time.  Induction is over sets of      *)
(* numbers, from the least number of a set that is not empty.               *)
EXTENDS Functions, FiniteSetTheorems, WellFoundedInduction, TLAPS

Pick(S) == CHOOSE x \in S : TRUE

\* g is the recursive function of the definition.
Summing(g, f, S) ==
    g = [T \in SUBSET S |-> IF T = {} THEN 0 ELSE f[Pick(T)] + g[T \ {Pick(T)}]]

UpTo(S, m) == {T \in SUBSET S : Cardinality(T) <= m}

\* g is that function on the sets of at most m elements.
SummingUpTo(g, f, S, m) ==
    g = [T \in UpTo(S, m) |-> IF T = {} THEN 0 ELSE f[Pick(T)] + g[T \ {Pick(T)}]]

-----------------------------------------------------------------------------
(* Induction *)

LEMMA LeastNumber ==
    ASSUME NEW A \in SUBSET Nat, A # {}
    PROVE  \E m \in A : \A k \in A : m <= k
<1>1. \E m \in A : \A k \in A : ~(<<k, m>> \in OpToRel(<, Nat))
      BY WFMin, NatLessThanWellFounded
<1>2. \A k, m \in A : ~(<<k, m>> \in OpToRel(<, Nat)) => m <= k
      BY DEF OpToRel
<1> QED  BY <1>1, <1>2

LEMMA Induction ==
    ASSUME NEW A \in SUBSET Nat, 0 \in A, \A n \in A : n + 1 \in A
    PROVE  A = Nat
<1> SUFFICES ASSUME Nat \ A # {} PROVE FALSE
    OBVIOUS
<1>1. PICK m \in Nat \ A : \A k \in Nat \ A : m <= k
      BY LeastNumber
<1>2. m - 1 \in Nat /\ m - 1 \notin Nat \ A
      BY <1>1
<1> QED  BY <1>1, <1>2

\* A family of subsets of S that has the empty set, and with a set any set of
\* one more element, has S.
LEMMA SetInduction ==
    ASSUME NEW S, IsFiniteSet(S), NEW F, {} \in F,
           \A T \in SUBSET S : \A x \in S \ T : T \in F => T \cup {x} \in F
    PROVE  S \in F
<1> DEFINE A == {n \in Nat : \A T \in SUBSET S : Cardinality(T) = n => T \in F}
<1>1. \A T \in SUBSET S : IsFiniteSet(T) /\ Cardinality(T) \in Nat
      BY FS_Subset, FS_CardinalityType
<1>2. 0 \in A
      BY <1>1, FS_EmptySet
<1>3. ASSUME NEW n \in A PROVE n + 1 \in A
      <2> SUFFICES ASSUME NEW T \in SUBSET S, Cardinality(T) = n + 1 PROVE T \in F
          OBVIOUS
      <2>1. PICK x \in T : TRUE
            BY FS_EmptySet
      <2>2. Cardinality(T \ {x}) = n
            BY <1>1, <2>1, FS_RemoveElement
      <2>3. T \ {x} \in F /\ T = (T \ {x}) \cup {x}
            BY <2>1, <2>2
      <2> QED  BY <2>1, <2>3
<1> HIDE DEF A
<1>4. A = Nat
      BY <1>2, <1>3, Induction DEF A
<1> QED  BY <1>1, <1>4 DEF A

-----------------------------------------------------------------------------
(* The function exists *)

LEMMA PickIsElement == ASSUME NEW S, S # {} PROVE Pick(S) \in S
  BY DEF Pick

LEMMA SmallerSet ==
    ASSUME NEW S, IsFiniteSet(S), NEW T \in SUBSET S, T # {}
    PROVE  /\ Cardinality(T) \in Nat
           /\ T \ {Pick(T)} \in SUBSET S
           /\ Cardinality(T \ {Pick(T)}) = Cardinality(T) - 1
<1>1. IsFiniteSet(T)
      BY FS_Subset
<1> QED  BY <1>1, PickIsElement, FS_RemoveElement, FS_CardinalityType

LEMMA SummingUpToExists ==
    ASSUME NEW f, NEW S, IsFiniteSet(S), NEW m \in Nat
    PROVE  \E g : SummingUpTo(g, f, S, m)
<1> DEFINE A == {n \in Nat : \E g : SummingUpTo(g, f, S, n)}
<1>1. 0 \in A
      <2>1. \A T \in UpTo(S, 0) : T = {}
            BY FS_Subset, FS_CardinalityType, FS_EmptySet DEF UpTo
      <2>2. SummingUpTo([T \in UpTo(S, 0) |-> 0], f, S, 0)
            BY <2>1 DEF SummingUpTo
      <2> QED  BY <2>2
<1>2. ASSUME NEW n \in A PROVE n + 1 \in A
      <2>1. PICK g : SummingUpTo(g, f, S, n)
            OBVIOUS
      <2> DEFINE h == [T \in UpTo(S, n + 1) |->
                         IF T = {} THEN 0 ELSE f[Pick(T)] + g[T \ {Pick(T)}]]
      <2>2. \A T \in UpTo(S, n) : T \in UpTo(S, n + 1)
            BY FS_Subset, FS_CardinalityType DEF UpTo
      <2>3. \A T \in UpTo(S, n) : h[T] = g[T]
            BY <2>1, <2>2 DEF SummingUpTo
      <2>4. \A T \in UpTo(S, n + 1) : T # {} => T \ {Pick(T)} \in UpTo(S, n)
            BY SmallerSet DEF UpTo
      <2>5. SummingUpTo(h, f, S, n + 1)
            BY <2>3, <2>4 DEF SummingUpTo
      <2> QED  BY <2>5
<1> HIDE DEF A
<1>3. A = Nat
      BY <1>1, <1>2, Induction DEF A
<1> QED  BY <1>3 DEF A

LEMMA SummingExists ==
    ASSUME NEW f, NEW S, IsFiniteSet(S)
    PROVE  \E g : Summing(g, f, S)
<1>1. UpTo(S, Cardinality(S)) = SUBSET S /\ Cardinality(S) \in Nat
      BY FS_Subset, FS_CardinalityType DEF UpTo
<1>2. PICK g : SummingUpTo(g, f, S, Cardinality(S))
      BY <1>1, SummingUpToExists
<1> QED  BY <1>1, <1>2 DEF Summing, SummingUpTo

LEMMA SumUnfolds ==
    ASSUME NEW f, NEW S, IsFiniteSet(S)
    PROVE  \E g : Summing(g, f, S) /\ SumFunctionOnSet(f, S) = g[S]
<1>1. SumFunctionOnSet(f, S) = (CHOOSE g : Summing(g, f, S))[S]
      BY DEF SumFunctionOnSet, FoldFunctionOnSet, MapThenFoldSet, Summing, Pick
<1> QED  BY <1>1, SummingExists

\* Two such functions agree on the sets on which what they add up agrees.
LEMMA SummingAgree ==
    ASSUME NEW S, IsFiniteSet(S), NEW R, NEW f, NEW h, NEW U,
           \A x \in U : x \in S /\ x \in R /\ f[x] = h[x],
           NEW a, Summing(a, f, S), NEW b, Summing(b, h, R)
    PROVE  a[U] = b[U]
<1> DEFINE A == {n \in Nat : \A T \in SUBSET U : Cardinality(T) = n => a[T] = b[T]}
<1>. U \subseteq S /\ U \subseteq R
      OBVIOUS
<1>0. /\ a[{}] = 0 /\ b[{}] = 0
      /\ \A T \in SUBSET U : T # {} => /\ a[T] = f[Pick(T)] + a[T \ {Pick(T)}]
                                       /\ b[T] = h[Pick(T)] + b[T \ {Pick(T)}]
      BY DEF Summing
<1>1. \A T \in SUBSET U : IsFiniteSet(T) /\ Cardinality(T) \in Nat
      BY FS_Subset, FS_CardinalityType
<1>2. 0 \in A
      BY <1>0, <1>1, FS_EmptySet
<1>3. ASSUME NEW n \in A PROVE n + 1 \in A
      <2> SUFFICES ASSUME NEW T \in SUBSET U, Cardinality(T) = n + 1 PROVE a[T] = b[T]
          OBVIOUS
      <2>1. T # {} /\ IsFiniteSet(U)
            BY <1>1, FS_EmptySet
      <2>2. T \ {Pick(T)} \in SUBSET U /\ Cardinality(T \ {Pick(T)}) = n
            BY <2>1, SmallerSet
      <2>3. Pick(T) \in U
            BY <2>1, PickIsElement
      <2> QED  BY <1>0, <2>1, <2>2, <2>3
<1> HIDE DEF A
<1>4. A = Nat
      BY <1>2, <1>3, Induction DEF A
<1> QED  BY <1>1, <1>4 DEF A

-----------------------------------------------------------------------------
(* What a sum is *)

LEMMA SumOfSame ==
    ASSUME NEW f, NEW S, NEW R, \A x : x \in S <=> x \in R
    PROVE  SumFunctionOnSet(f, S) = SumFunctionOnSet(f, R)
<1>1. S = R
      OBVIOUS
<1> QED  BY <1>1, Zenon

\* The sum depends on the values that are added, and on nothing else.
LEMMA SumAgrees ==
    ASSUME NEW S, IsFiniteSet(S), NEW f, NEW h, \A x \in S : f[x] = h[x]
    PROVE  SumFunctionOnSet(f, S) = SumFunctionOnSet(h, S)
<1>1. PICK a : Summing(a, f, S) /\ SumFunctionOnSet(f, S) = a[S]
      BY SumUnfolds
<1>2. PICK b : Summing(b, h, S) /\ SumFunctionOnSet(h, S) = b[S]
      BY SumUnfolds
<1>3. a[S] = b[S]
      BY <1>1, <1>2, SummingAgree
<1> QED  BY <1>1, <1>2, <1>3

LEMMA SumEmpty == ASSUME NEW f PROVE SumFunctionOnSet(f, {}) = 0
<1>1. PICK g : Summing(g, f, {}) /\ SumFunctionOnSet(f, {}) = g[{}]
      BY SumUnfolds, FS_EmptySet
<1> QED  BY <1>1 DEF Summing

LEMMA SumPicks ==
    ASSUME NEW S, IsFiniteSet(S), S # {}, NEW f
    PROVE  SumFunctionOnSet(f, S) = f[Pick(S)] + SumFunctionOnSet(f, S \ {Pick(S)})
<1> DEFINE T == S \ {Pick(S)}
<1>1. PICK a : Summing(a, f, S) /\ SumFunctionOnSet(f, S) = a[S]
      BY SumUnfolds
<1>2. IsFiniteSet(T)
      BY FS_Subset
<1>3. PICK b : Summing(b, f, T) /\ SumFunctionOnSet(f, T) = b[T]
      BY <1>2, SumUnfolds
<1>4. a[T] = b[T]
      BY <1>1, <1>3, SummingAgree
<1>5. a[S] = f[Pick(S)] + a[T]
      BY <1>1 DEF Summing
<1> QED  BY <1>1, <1>3, <1>4, <1>5

LEMMA SumIsInt ==
    ASSUME NEW S, IsFiniteSet(S), NEW f, \A x \in S : f[x] \in Int
    PROVE  SumFunctionOnSet(f, S) \in Int
<1> DEFINE A == {n \in Nat : \A T \in SUBSET S :
                   Cardinality(T) = n => SumFunctionOnSet(f, T) \in Int}
<1>1. \A T \in SUBSET S : IsFiniteSet(T) /\ Cardinality(T) \in Nat
      BY FS_Subset, FS_CardinalityType
<1>2. 0 \in A
      BY <1>1, FS_EmptySet, SumEmpty
<1>3. ASSUME NEW n \in A PROVE n + 1 \in A
      <2> SUFFICES ASSUME NEW T \in SUBSET S, Cardinality(T) = n + 1
                   PROVE  SumFunctionOnSet(f, T) \in Int
          OBVIOUS
      <2>1. T # {} /\ IsFiniteSet(T)
            BY <1>1, FS_EmptySet
      <2>2. SumFunctionOnSet(f, T \ {Pick(T)}) \in Int
            BY <2>1, SmallerSet
      <2>3. f[Pick(T)] \in Int
            BY <2>1, PickIsElement
      <2>4. SumFunctionOnSet(f, T) = f[Pick(T)] + SumFunctionOnSet(f, T \ {Pick(T)})
            BY <2>1, SumPicks
      <2> QED  BY <2>2, <2>3, <2>4
<1> HIDE DEF A
<1>4. A = Nat
      BY <1>2, <1>3, Induction DEF A
<1> QED  BY <1>1, <1>4 DEF A

\* Any element may be taken out, not only the one that CHOOSE would take.
LEMMA SumRemoves ==
    ASSUME NEW S, IsFiniteSet(S), NEW f, \A x \in S : f[x] \in Int, NEW e \in S
    PROVE  SumFunctionOnSet(f, S) = f[e] + SumFunctionOnSet(f, S \ {e})
<1> DEFINE Sum(T) == SumFunctionOnSet(f, T)
           A == {n \in Nat : \A T \in SUBSET S : Cardinality(T) = n =>
                   \A x \in T : Sum(T) = f[x] + Sum(T \ {x})}
<1>1. \A T \in SUBSET S : IsFiniteSet(T) /\ Cardinality(T) \in Nat
      BY FS_Subset, FS_CardinalityType
<1>2. 0 \in A
      BY <1>1, FS_EmptySet
<1>3. ASSUME NEW n \in A PROVE n + 1 \in A
      <2> SUFFICES ASSUME NEW T \in SUBSET S, Cardinality(T) = n + 1, NEW x \in T
                   PROVE  Sum(T) = f[x] + Sum(T \ {x})
          OBVIOUS
      <2> DEFINE p == Pick(T)
      <2>1. IsFiniteSet(T) /\ p \in T
            BY <1>1, PickIsElement
      <2>2. Sum(T) = f[p] + Sum(T \ {p})
            BY <2>1, SumPicks
      <2> HIDE DEF p
      <2>3. CASE x = p
            BY <2>2, <2>3
      <2>4. CASE x # p
            <3>1. /\ Cardinality(T \ {p}) = n /\ x \in T \ {p}
                  /\ Cardinality(T \ {x}) = n /\ p \in T \ {x}
                  <4>1. n \in Nat
                        OBVIOUS
                  <4>2. \A y \in T : Cardinality(T \ {y}) = Cardinality(T) - 1
                        BY <2>1, FS_RemoveElement
                  <4> HIDE DEF A
                  <4>3. \A y \in T : Cardinality(T \ {y}) = n
                        BY <4>1, <4>2
                  <4> QED  BY <2>1, <2>4, <4>3
            <3>2. Sum(T \ {p}) = f[x] + Sum((T \ {p}) \ {x})
                  BY <3>1
            <3>3. Sum(T \ {x}) = f[p] + Sum((T \ {x}) \ {p})
                  BY <3>1
            <3>4. Sum((T \ {p}) \ {x}) = Sum((T \ {x}) \ {p})
                  BY SumOfSame
            <3>5. Sum((T \ {x}) \ {p}) \in Int
                  BY <1>1, SumIsInt
            <3>6. f[x] \in Int /\ f[p] \in Int
                  BY <2>1
            <3> QED  BY <2>2, <3>2, <3>3, <3>4, <3>5, <3>6
      <2> QED  BY <2>3, <2>4
<1> HIDE DEF A
<1>4. A = Nat
      BY <1>2, <1>3, Induction DEF A
<1> QED  BY <1>1, <1>4 DEF A

LEMMA SumAdds ==
    ASSUME NEW S, IsFiniteSet(S), NEW f, NEW e, e \notin S, \A x \in S \cup {e} : f[x] \in Int
    PROVE  SumFunctionOnSet(f, S \cup {e}) = f[e] + SumFunctionOnSet(f, S)
<1>1. IsFiniteSet(S \cup {e}) /\ (S \cup {e}) \ {e} = S
      BY FS_AddElement
<1>2. SumFunctionOnSet(f, S \cup {e}) = f[e] + SumFunctionOnSet(f, (S \cup {e}) \ {e})
      BY <1>1, SumRemoves
<1> QED  BY <1>1, <1>2

\* One value changes.
LEMMA SumChanges ==
    ASSUME NEW S, IsFiniteSet(S), NEW f, NEW h, NEW e \in S,
           \A x \in S : f[x] \in Int /\ h[x] \in Int,
           \A x \in S \ {e} : h[x] = f[x]
    PROVE  SumFunctionOnSet(h, S) = SumFunctionOnSet(f, S) - f[e] + h[e]
<1>1. IsFiniteSet(S \ {e})
      BY FS_Subset
<1>2. SumFunctionOnSet(f, S \ {e}) = SumFunctionOnSet(h, S \ {e})
      BY <1>1, SumAgrees
<1>3. SumFunctionOnSet(f, S \ {e}) \in Int
      BY <1>1, SumIsInt
<1>4. /\ SumFunctionOnSet(f, S) = f[e] + SumFunctionOnSet(f, S \ {e})
      /\ SumFunctionOnSet(h, S) = h[e] + SumFunctionOnSet(h, S \ {e})
      BY SumRemoves
<1> QED  BY <1>2, <1>3, <1>4

LEMMA SumIsZero ==
    ASSUME NEW S, IsFiniteSet(S), NEW f, \A x \in S : f[x] = 0
    PROVE  SumFunctionOnSet(f, S) = 0
<1> DEFINE F == {T \in SUBSET S : SumFunctionOnSet(f, T) = 0}
<1>1. {} \in F
      BY SumEmpty
<1>2. ASSUME NEW T \in SUBSET S, NEW x \in S \ T, T \in F PROVE T \cup {x} \in F
      <2>1. IsFiniteSet(T) /\ \A y \in T \cup {x} : f[y] \in Int
            BY FS_Subset
      <2>2. SumFunctionOnSet(f, T \cup {x}) = f[x] + SumFunctionOnSet(f, T)
            BY <2>1, SumAdds
      <2> QED  BY <1>2, <2>2
<1> HIDE DEF F
<1>3. S \in F
      BY <1>1, <1>2, SetInduction
<1> QED  BY <1>3 DEF F

LEMMA SumIsNat ==
    ASSUME NEW S, IsFiniteSet(S), NEW f, \A x \in S : f[x] \in Nat
    PROVE  SumFunctionOnSet(f, S) \in Nat
<1> DEFINE F == {T \in SUBSET S : SumFunctionOnSet(f, T) \in Nat}
<1>1. {} \in F
      BY SumEmpty
<1>2. ASSUME NEW T \in SUBSET S, NEW x \in S \ T, T \in F PROVE T \cup {x} \in F
      <2>1. IsFiniteSet(T)
            BY FS_Subset
      <2>2. SumFunctionOnSet(f, T \cup {x}) = f[x] + SumFunctionOnSet(f, T)
            BY <2>1, SumAdds
      <2> QED  BY <1>2, <2>2
<1> HIDE DEF F
<1>3. S \in F
      BY <1>1, <1>2, SetInduction
<1> QED  BY <1>3 DEF F

\* The sum over a set is the sum over a part of it and over the rest.
LEMMA SumSplits ==
    ASSUME NEW S, IsFiniteSet(S), NEW R \in SUBSET S, NEW f, \A x \in S : f[x] \in Int
    PROVE  SumFunctionOnSet(f, S) = SumFunctionOnSet(f, R) + SumFunctionOnSet(f, S \ R)
<1> DEFINE Sum(T) == SumFunctionOnSet(f, T)
           F == {T \in SUBSET R : Sum(S) = Sum(T) + Sum(S \ T)}
<1>1. \A T \in SUBSET S : IsFiniteSet(T) /\ Sum(T) \in Int
      BY FS_Subset, SumIsInt
<1>2. {} \in F
      BY <1>1, SumEmpty
<1>3. ASSUME NEW T \in SUBSET R, NEW x \in R \ T, T \in F PROVE T \cup {x} \in F
      <2>1. Sum(T \cup {x}) = f[x] + Sum(T)
            BY <1>1, SumAdds
      <2>2. Sum(S \ T) = f[x] + Sum((S \ T) \ {x})
            BY <1>1, SumRemoves
      <2>3. Sum((S \ T) \ {x}) = Sum(S \ (T \cup {x}))
            BY SumOfSame
      <2>4. f[x] \in Int /\ Sum(T) \in Int /\ Sum(S \ (T \cup {x})) \in Int
            BY <1>1
      <2>5. Sum(S) = Sum(T) + Sum(S \ T)
            BY <1>3
      <2>6. Sum(S) = Sum(T \cup {x}) + Sum(S \ (T \cup {x}))
            BY <2>1, <2>2, <2>3, <2>4, <2>5
      <2> QED  BY <2>6
<1> HIDE DEF F
<1>4. R \in F
      BY <1>1, <1>2, <1>3, SetInduction
<1> QED  BY <1>4 DEF F

=============================================================================
