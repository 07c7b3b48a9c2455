----------------------------- MODULE MoneyProofs -----------------------------
(***************************************************************************)
(* What the proofs about money use of finite sums (Sums) and of shares     *)
(* rounded down (CoachShare), for every set of rows and every amount.      *)
(***************************************************************************)
EXTENDS CoachShare, Sums, FiniteSets, FiniteSetTheorems, WellFoundedInduction, TLAPS

\* A nonempty set of numbers has a least one.
LEMMA LeastNumber ==
    ASSUME NEW S, S \subseteq Nat, S # {} PROVE \E m \in S : \A n \in S : m <= n
<1>1. \E m \in S : \A n \in S : ~ (<<n, m>> \in OpToRel(<, Nat))
  BY NatLessThanWellFounded, WFMin
<1>2. PICK m \in S : \A n \in S : ~ (<<n, m>> \in OpToRel(<, Nat))
  BY <1>1
<1>3. m \in Nat /\ \A n \in S : n \in Nat /\ ~ (n < m)
  BY <1>2 DEF OpToRel
<1>4. \A n \in S : m <= n
  BY <1>3
<1> QED
  BY <1>4

-------------------------------------------------------------------------------
(***************************************************************************)
(* Sums.  A statement about all finite sets is shown of a smallest exception. *)
(***************************************************************************)
Pick(s) == CHOOSE x \in s : TRUE
Unfolded(f, g, s) == IF s = {} THEN 0 ELSE f[Pick(s)] + g[s \ {Pick(s)}]
Iterates(f, g, S) == g = [s \in SUBSET S |-> Unfolded(f, g, s)]
\* What the recursive function of the fold says of SumOver.
Body(f, s) == IF s = {} THEN 0 ELSE f[Pick(s)] + SumOver(f, s \ {Pick(s)})

LEMMA SumDefined == ASSUME NEW f, NEW S
                    PROVE SumOver(f, S) = (CHOOSE g : Iterates(f, g, S))[S]
BY DEF SumOver, FoldFunctionOnSet, MapThenFoldSet, Iterates, Unfolded, Pick

LEMMA Picked == ASSUME NEW s, s # {} PROVE Pick(s) \in s
BY DEF Pick

\* A nonempty set of subsets of a finite set has a smallest member.
LEMMA Smallest ==
    ASSUME NEW S, IsFiniteSet(S), NEW T, T \subseteq SUBSET S, T # {}
    PROVE \E s \in T : \A t \in T : ~ (t \subseteq s /\ t # s)
<1>1. IsWellFoundedOn(StrictSubsetOrdering(S), FiniteSubsetsOf(S))
  BY FS_StrictSubsetOrderingWellFounded
<1>2. T \subseteq FiniteSubsetsOf(S)
  BY FS_FiniteSubsetsOfFinite
<1>3. PICK s \in T : \A t \in T : ~ (<<t, s>> \in StrictSubsetOrdering(S))
  BY <1>1, <1>2, WFMin
<1> QED
  BY <1>3 DEF StrictSubsetOrdering

LEMMA IteratesOnce ==
    ASSUME NEW f, NEW S, IsFiniteSet(S), NEW g, NEW k,
           Iterates(f, g, S), Iterates(f, k, S), NEW s \in SUBSET S
    PROVE g[s] = k[s]
<1> DEFINE T == {t \in SUBSET S : g[t] # k[t]}
<1> SUFFICES ASSUME T # {} PROVE FALSE
  OBVIOUS
<1>1. PICK t \in T : \A u \in T : ~ (u \subseteq t /\ u # t)
  <2> HIDE DEF T
  <2>1. T \subseteq SUBSET S
    BY DEF T
  <2> QED
    BY <2>1, Smallest
<1>2. g[t] = Unfolded(f, g, t) /\ k[t] = Unfolded(f, k, t)
  BY DEF Iterates
<1>3. t # {}
  BY <1>2 DEF Unfolded
<1>4. Pick(t) \in t
  BY <1>3, Picked
<1>5. t \ {Pick(t)} \notin T
  BY <1>1, <1>4
<1>6. g[t \ {Pick(t)}] = k[t \ {Pick(t)}]
  BY <1>5
<1> QED
  BY <1>2, <1>3, <1>6 DEF Unfolded

\* The fold is well defined: SumOver satisfies its own recursion.
LEMMA SumUnfolds ==
    ASSUME NEW f, NEW S, IsFiniteSet(S)
    PROVE SumOver(f, S) = Body(f, S)
<1> DEFINE T == {t \in SUBSET S : SumOver(f, t) # Body(f, t)}
<1> SUFFICES ASSUME T # {} PROVE FALSE
  OBVIOUS
<1>1. PICK t \in T : \A u \in T : ~ (u \subseteq t /\ u # t)
  <2> HIDE DEF T
  <2>1. T \subseteq SUBSET S
    BY DEF T
  <2> QED
    BY <2>1, Smallest
<1>2. IsFiniteSet(t)
  BY FS_Subset
<1>3. ASSUME NEW u, u \subseteq t, u # t PROVE SumOver(f, u) = Body(f, u)
  BY <1>1, <1>3
<1> DEFINE g == [u \in SUBSET t |-> Body(f, u)]
<1>4. Iterates(f, g, t)
  <2>1. ASSUME NEW u \in SUBSET t PROVE Body(f, u) = Unfolded(f, g, u)
    <3>1. CASE u = {}
      BY <3>1 DEF Body, Unfolded
    <3>2. CASE u # {}
      <4>1. Pick(u) \in u
        BY <3>2, Picked
      <4>2. u \ {Pick(u)} \subseteq t /\ u \ {Pick(u)} # t
        BY <4>1
      <4>3. g[u \ {Pick(u)}] = SumOver(f, u \ {Pick(u)})
        BY <4>2, <1>3
      <4> QED
        BY <3>2, <4>3 DEF Body, Unfolded
    <3> QED
      BY <3>1, <3>2
  <2> QED
    BY <2>1 DEF Iterates
<1> DEFINE k == CHOOSE h : Iterates(f, h, t)
<1>5. Iterates(f, k, t)
  BY <1>4
<1>6. SumOver(f, t) = k[t]
  BY SumDefined
<1>7. k[t] = g[t]
  <2> HIDE DEF g, k
  <2> QED
    BY <1>2, <1>4, <1>5, IteratesOnce
<1> QED
  BY <1>6, <1>7

\* Nothing selected sums to nothing.
THEOREM SumEmpty == ASSUME NEW f PROVE SumOver(f, {}) = 0
BY SumUnfolds, FS_EmptySet DEF Body

\* The order in which a finite sum is taken does not matter.
THEOREM SumRemove ==
    ASSUME NEW S, IsFiniteSet(S), NEW f, \A x \in S : f[x] \in Int
    PROVE /\ SumOver(f, S) \in Int
          /\ \A x \in S : SumOver(f, S) = f[x] + SumOver(f, S \ {x})
<1> DEFINE Fine(t) == SumOver(f, t) \in Int /\ \A x \in t : SumOver(f, t) = f[x] + SumOver(f, t \ {x})
           T == {t \in SUBSET S : ~ Fine(t)}
<1> SUFFICES ASSUME T # {} PROVE FALSE
  OBVIOUS
<1>1. PICK t \in T : \A u \in T : ~ (u \subseteq t /\ u # t)
  <2> HIDE DEF T
  <2>1. T \subseteq SUBSET S
    BY DEF T
  <2> QED
    BY <2>1, Smallest
<1>2. IsFiniteSet(t)
  BY FS_Subset
<1>3. ASSUME NEW u, u \subseteq t, u # t PROVE Fine(u)
  BY <1>1, <1>3
<1>4. t # {}
  BY SumEmpty
<1> DEFINE y == Pick(t)
<1>5. y \in t
  BY <1>4, Picked
<1> HIDE DEF y
<1>6. SumOver(f, t) = f[y] + SumOver(f, t \ {y})
  BY <1>2, <1>4, SumUnfolds DEF Body, y
<1>7. Fine(t \ {y})
  BY <1>3, <1>5
<1>8. SumOver(f, t) \in Int
  BY <1>5, <1>6, <1>7
<1>9. ASSUME NEW x \in t PROVE SumOver(f, t) = f[x] + SumOver(f, t \ {x})
  <2>1. CASE x = y
    BY <2>1, <1>6
  <2>2. CASE x # y
    <3>1. Fine(t \ {x})
      BY <1>3
    <3>2. Fine((t \ {x}) \ {y})
      BY <1>3
    <3>3. (t \ {x}) \ {y} = (t \ {y}) \ {x}
      OBVIOUS
    <3>4. SumOver(f, t \ {y}) = f[x] + SumOver(f, (t \ {x}) \ {y})
      BY <1>7, <2>2, <3>3
    <3>5. SumOver(f, t \ {x}) = f[y] + SumOver(f, (t \ {x}) \ {y})
      BY <3>1, <2>2, <1>5
    <3>6. f[x] \in Int /\ f[y] \in Int /\ SumOver(f, (t \ {x}) \ {y}) \in Int
      BY <3>2, <1>5
    <3> QED
      BY <1>6, <3>4, <3>5, <3>6
  <2> QED
    BY <2>1, <2>2
<1> QED
  BY <1>8, <1>9

\* A finite sum of integers is an integer.
THEOREM SumInt == ASSUME NEW S, IsFiniteSet(S), NEW f, \A x \in S : f[x] \in Int
                  PROVE SumOver(f, S) \in Int
BY SumRemove

\* One row more adds its amount.
THEOREM SumAdd ==
    ASSUME NEW S, IsFiniteSet(S), NEW y, y \notin S,
           NEW f, \A x \in S \cup {y} : f[x] \in Int
    PROVE SumOver(f, S \cup {y}) = f[y] + SumOver(f, S)
<1>1. IsFiniteSet(S \cup {y}) /\ (S \cup {y}) \ {y} = S
  BY FS_AddElement
<1> QED
  BY <1>1, SumRemove

\* Two functions that agree on a set have the same sum over it.
THEOREM SumSame ==
    ASSUME NEW S, IsFiniteSet(S), NEW f, NEW g,
           \A x \in S : f[x] \in Int /\ f[x] = g[x]
    PROVE SumOver(f, S) = SumOver(g, S)
<1> DEFINE T == {t \in SUBSET S : SumOver(f, t) # SumOver(g, t)}
<1> SUFFICES ASSUME T # {} PROVE FALSE
  OBVIOUS
<1>1. PICK t \in T : \A u \in T : ~ (u \subseteq t /\ u # t)
  <2> HIDE DEF T
  <2>1. T \subseteq SUBSET S
    BY DEF T
  <2> QED
    BY <2>1, Smallest
<1>2. IsFiniteSet(t)
  BY FS_Subset
<1>3. PICK y : y \in t
  BY SumEmpty
<1>4. SumOver(f, t \ {y}) = SumOver(g, t \ {y})
  BY <1>1, <1>3
<1>5. SumOver(f, t) = f[y] + SumOver(f, t \ {y}) /\ SumOver(g, t) = g[y] + SumOver(g, t \ {y})
  BY <1>2, <1>3, SumRemove
<1> QED
  BY <1>3, <1>4, <1>5

\* One element changes.
THEOREM SumChange ==
    ASSUME NEW S, IsFiniteSet(S), NEW f, NEW g, NEW y \in S,
           \A x \in S : f[x] \in Int /\ g[x] \in Int,
           \A x \in S \ {y} : f[x] = g[x]
    PROVE SumOver(g, S) = SumOver(f, S) - f[y] + g[y]
<1>1. IsFiniteSet(S \ {y})
  BY FS_RemoveElement
<1>2. SumOver(f, S \ {y}) = SumOver(g, S \ {y})
  BY <1>1, SumSame
<1>3. SumOver(f, S) = f[y] + SumOver(f, S \ {y}) /\ SumOver(g, S) = g[y] + SumOver(g, S \ {y})
  BY SumRemove
<1>4. SumOver(f, S \ {y}) \in Int
  BY <1>1, SumInt
<1> QED
  BY <1>2, <1>3, <1>4

\* A sum grows with its terms.
THEOREM SumGrows ==
    ASSUME NEW S, IsFiniteSet(S), NEW f, NEW g,
           \A x \in S : f[x] \in Int /\ g[x] \in Int /\ f[x] <= g[x]
    PROVE SumOver(f, S) <= SumOver(g, S)
<1> DEFINE T == {t \in SUBSET S : ~ (SumOver(f, t) <= SumOver(g, t))}
<1> SUFFICES ASSUME T # {} PROVE FALSE
  OBVIOUS
<1>1. PICK t \in T : \A u \in T : ~ (u \subseteq t /\ u # t)
  <2> HIDE DEF T
  <2>1. T \subseteq SUBSET S
    BY DEF T
  <2> QED
    BY <2>1, Smallest
<1>2. IsFiniteSet(t)
  BY FS_Subset
<1>3. PICK y : y \in t
  <2>1. SumOver(f, {}) = 0 /\ SumOver(g, {}) = 0
    BY SumEmpty
  <2>2. ~ (SumOver(f, t) <= SumOver(g, t))
    OBVIOUS
  <2> QED
    BY <2>1, <2>2
<1>4. SumOver(f, t \ {y}) <= SumOver(g, t \ {y})
  BY <1>1, <1>3
<1>5. SumOver(f, t) = f[y] + SumOver(f, t \ {y}) /\ SumOver(g, t) = g[y] + SumOver(g, t \ {y})
  BY <1>2, <1>3, SumRemove
<1>6. SumOver(f, t \ {y}) \in Int /\ SumOver(g, t \ {y}) \in Int
  BY <1>2, FS_RemoveElement, SumInt
<1> QED
  BY <1>3, <1>4, <1>5, <1>6

\* A sum over two disjoint sets is the sum of the sums.
THEOREM SumUnion ==
    ASSUME NEW S, IsFiniteSet(S), NEW R, IsFiniteSet(R), S \cap R = {},
           NEW f, \A x \in S \cup R : f[x] \in Int
    PROVE SumOver(f, S \cup R) = SumOver(f, S) + SumOver(f, R)
<1> DEFINE T == {t \in SUBSET R : SumOver(f, S \cup t) # SumOver(f, S) + SumOver(f, t)}
<1> SUFFICES ASSUME T # {} PROVE FALSE
  OBVIOUS
<1>1. PICK t \in T : \A u \in T : ~ (u \subseteq t /\ u # t)
  <2> HIDE DEF T
  <2>1. T \subseteq SUBSET R
    BY DEF T
  <2> QED
    BY <2>1, Smallest
<1>2. IsFiniteSet(t) /\ IsFiniteSet(S \cup t)
  BY FS_Subset, FS_Union
<1>3. SumOver(f, S) \in Int
  BY SumInt
<1>4. PICK y : y \in t
  <2>1. SumOver(f, S \cup t) # SumOver(f, S) + SumOver(f, t)
    OBVIOUS
  <2>2. ASSUME t = {} PROVE FALSE
    <3>1. SumOver(f, S \cup t) = SumOver(f, S) /\ SumOver(f, t) = 0
      BY <2>2, SumEmpty
    <3>2. SumOver(f, S) + 0 = SumOver(f, S)
      BY <1>3
    <3> QED
      BY <2>1, <3>1, <3>2
  <2> QED
    BY <2>2
<1>5. SumOver(f, S \cup (t \ {y})) = SumOver(f, S) + SumOver(f, t \ {y})
  BY <1>1, <1>4
<1>6. (S \cup t) \ {y} = S \cup (t \ {y})
  BY <1>4
<1>7. SumOver(f, t) = f[y] + SumOver(f, t \ {y})
  BY <1>2, <1>4, SumRemove
<1>8. SumOver(f, S \cup t) = f[y] + SumOver(f, (S \cup t) \ {y})
  BY <1>2, <1>4, SumRemove
<1>9. SumOver(f, t \ {y}) \in Int /\ f[y] \in Int
  BY <1>2, <1>4, FS_RemoveElement, SumInt
<1>10. SumOver(f, S \cup t) = f[y] + (SumOver(f, S) + SumOver(f, t \ {y}))
  BY <1>5, <1>6, <1>8
<1>11. SumOver(f, S \cup t) = SumOver(f, S) + SumOver(f, t)
  BY <1>3, <1>7, <1>9, <1>10
<1> QED
  BY <1>11

\* A sum of natural numbers is one.
THEOREM SumNat == ASSUME NEW S, IsFiniteSet(S), NEW f, \A x \in S : f[x] \in Nat
                  PROVE SumOver(f, S) \in Nat
<1> DEFINE T == {t \in SUBSET S : SumOver(f, t) \notin Nat}
<1> SUFFICES ASSUME T # {} PROVE FALSE
  OBVIOUS
<1>1. PICK t \in T : \A u \in T : ~ (u \subseteq t /\ u # t)
  <2> HIDE DEF T
  <2>1. T \subseteq SUBSET S
    BY DEF T
  <2> QED
    BY <2>1, Smallest
<1>2. IsFiniteSet(t)
  BY FS_Subset
<1>3. PICK y : y \in t
  BY SumEmpty
<1>4. SumOver(f, t \ {y}) \in Nat
  BY <1>1, <1>3
<1>5. SumOver(f, t) = f[y] + SumOver(f, t \ {y})
  BY <1>2, <1>3, SumRemove
<1> QED
  BY <1>3, <1>4, <1>5

\* More rows, more money: no term is negative.
THEOREM SumSubset ==
    ASSUME NEW S, IsFiniteSet(S), NEW R \in SUBSET S, NEW f, \A x \in S : f[x] \in Nat
    PROVE SumOver(f, R) <= SumOver(f, S)
<1>1. IsFiniteSet(R) /\ IsFiniteSet(S \ R)
  BY FS_Subset
<1>2. S = R \cup (S \ R) /\ R \cap (S \ R) = {}
  OBVIOUS
<1>3. SumOver(f, R \cup (S \ R)) = SumOver(f, R) + SumOver(f, S \ R)
  BY <1>1, <1>2, SumUnion
<1>4. SumOver(f, R) \in Nat /\ SumOver(f, S \ R) \in Nat
  BY <1>1, SumNat
<1>5. SumOver(f, S) = SumOver(f, R) + SumOver(f, S \ R)
  BY <1>2, <1>3
<1> QED
  BY <1>4, <1>5

\* A sum of natural numbers is at least each of them.
THEOREM SumMember ==
    ASSUME NEW S, IsFiniteSet(S), NEW f, \A x \in S : f[x] \in Nat, NEW y \in S
    PROVE f[y] <= SumOver(f, S)
<1>1. SumOver(f, S) = f[y] + SumOver(f, S \ {y})
  BY SumRemove
<1>2. SumOver(f, S \ {y}) \in Nat
  BY FS_RemoveElement, SumNat
<1> QED
  BY <1>1, <1>2

\* Rows worth nothing sum to nothing.
THEOREM SumZero == ASSUME NEW S, IsFiniteSet(S), NEW f, \A x \in S : f[x] = 0
                   PROVE SumOver(f, S) = 0
<1> DEFINE T == {t \in SUBSET S : SumOver(f, t) # 0}
<1> SUFFICES ASSUME T # {} PROVE FALSE
  OBVIOUS
<1>1. PICK t \in T : \A u \in T : ~ (u \subseteq t /\ u # t)
  <2> HIDE DEF T
  <2>1. T \subseteq SUBSET S
    BY DEF T
  <2> QED
    BY <2>1, Smallest
<1>2. IsFiniteSet(t)
  BY FS_Subset
<1>3. PICK y : y \in t
  BY SumEmpty
<1>4. SumOver(f, t \ {y}) = 0
  BY <1>1, <1>3
<1>5. SumOver(f, t) = f[y] + SumOver(f, t \ {y})
  BY <1>2, <1>3, SumRemove
<1> QED
  BY <1>3, <1>4, <1>5

\* Rows worth one each are counted.
THEOREM SumOnes == ASSUME NEW S, IsFiniteSet(S), NEW f, \A x \in S : f[x] = 1
                   PROVE SumOver(f, S) = Cardinality(S)
<1> DEFINE T == {t \in SUBSET S : SumOver(f, t) # Cardinality(t)}
<1> SUFFICES ASSUME T # {} PROVE FALSE
  OBVIOUS
<1>1. PICK t \in T : \A u \in T : ~ (u \subseteq t /\ u # t)
  <2> HIDE DEF T
  <2>1. T \subseteq SUBSET S
    BY DEF T
  <2> QED
    BY <2>1, Smallest
<1>2. IsFiniteSet(t)
  BY FS_Subset
<1>3. PICK y : y \in t
  BY SumEmpty, FS_EmptySet
<1>4. SumOver(f, t \ {y}) = Cardinality(t \ {y})
  BY <1>1, <1>3
<1>5. SumOver(f, t) = f[y] + SumOver(f, t \ {y})
  BY <1>2, <1>3, SumRemove
<1>6. Cardinality(t \ {y}) = Cardinality(t) - 1 /\ Cardinality(t) \in Nat
  BY <1>2, <1>3, FS_RemoveElement, FS_CardinalityType
<1> QED
  BY <1>3, <1>4, <1>5, <1>6

\* Selecting rows is the same as counting the others as nothing.
THEOREM SumFilter ==
    ASSUME NEW S, IsFiniteSet(S), NEW R \in SUBSET S, NEW f, NEW g,
           \A x \in S : f[x] \in Int,
           \A x \in S : g[x] = IF x \in R THEN f[x] ELSE 0
    PROVE SumOver(f, R) = SumOver(g, S)
<1>1. IsFiniteSet(R) /\ IsFiniteSet(S \ R)
  BY FS_Subset
<1>2. S = R \cup (S \ R) /\ R \cap (S \ R) = {}
  OBVIOUS
<1>3. \A x \in S : g[x] \in Int
  OBVIOUS
<1>4. SumOver(g, R \cup (S \ R)) = SumOver(g, R) + SumOver(g, S \ R)
  BY <1>1, <1>2, <1>3, SumUnion
<1>5. SumOver(f, R) = SumOver(g, R)
  BY <1>1, SumSame
<1>6. SumOver(g, S \ R) = 0
  BY <1>1, SumZero
<1>7. SumOver(g, R) \in Int
  BY <1>1, <1>3, SumInt
<1>8. SumOver(g, S) = SumOver(g, R) + 0
  BY <1>2, <1>4, <1>6
<1> QED
  BY <1>5, <1>7, <1>8

\* Sums are linear in their terms.
THEOREM SumPlus ==
    ASSUME NEW S, IsFiniteSet(S), NEW f, NEW g, NEW h,
           \A x \in S : f[x] \in Int /\ g[x] \in Int /\ h[x] = f[x] + g[x]
    PROVE SumOver(h, S) = SumOver(f, S) + SumOver(g, S)
<1> DEFINE T == {t \in SUBSET S : SumOver(h, t) # SumOver(f, t) + SumOver(g, t)}
<1> SUFFICES ASSUME T # {} PROVE FALSE
  OBVIOUS
<1>1. PICK t \in T : \A u \in T : ~ (u \subseteq t /\ u # t)
  <2> HIDE DEF T
  <2>1. T \subseteq SUBSET S
    BY DEF T
  <2> QED
    BY <2>1, Smallest
<1>2. IsFiniteSet(t)
  BY FS_Subset
<1>3. PICK y : y \in t
  <2>1. SumOver(f, {}) = 0 /\ SumOver(g, {}) = 0 /\ SumOver(h, {}) = 0
    BY SumEmpty
  <2>2. SumOver(h, {}) = SumOver(f, {}) + SumOver(g, {})
    BY <2>1
  <2>3. SumOver(h, t) # SumOver(f, t) + SumOver(g, t)
    OBVIOUS
  <2>4. t # {}
    BY <2>2, <2>3
  <2> QED
    BY <2>4
<1>4. SumOver(h, t \ {y}) = SumOver(f, t \ {y}) + SumOver(g, t \ {y})
  BY <1>1, <1>3
<1>5. /\ SumOver(f, t) = f[y] + SumOver(f, t \ {y})
      /\ SumOver(g, t) = g[y] + SumOver(g, t \ {y})
  BY <1>2, <1>3, SumRemove
<1>6. SumOver(h, t) = h[y] + SumOver(h, t \ {y})
  <2>1. \A x \in t : h[x] \in Int
    OBVIOUS
  <2> QED
    BY <2>1, <1>2, <1>3, SumRemove
<1>7. SumOver(f, t \ {y}) \in Int /\ SumOver(g, t \ {y}) \in Int
  BY <1>2, FS_RemoveElement, SumInt
<1> QED
  BY <1>3, <1>4, <1>5, <1>6, <1>7

-------------------------------------------------------------------------------
(***************************************************************************)
(* Shares                                                                  *)
(***************************************************************************)
\* The arithmetic of a share stays within the integers.
LEMMA CoachPartType ==
    ASSUME NEW sale \in Nat, NEW fee \in Nat, NEW bps \in Nat
    PROVE  CoachPart(sale, fee, bps) \in Int
  BY DEF CoachPart, BpsBase

LEMMA ProportionalShareType ==
    ASSUME NEW part \in Int, NEW refunded \in Nat, NEW sale \in Nat \ {0}
    PROVE  ProportionalShare(part, refunded, sale) \in Int
  BY DEF ProportionalShare

LEMMA DivMonotone ==
    ASSUME NEW a \in Nat, NEW b \in Nat, a <= b, NEW n \in Nat \ {0}
    PROVE  a \div n <= b \div n
  <1> DEFINE p == a \div n
             q == b \div n
  <1>1. p \in Int /\ q \in Int /\ n * p <= a /\ b < n * q + n
    OBVIOUS
  <1> HIDE DEF p, q
  <1>2. ASSUME p > q
        PROVE  FALSE
    <2>1. n * p >= n * (q + 1)
      BY <1>1, <1>2
    <2>2. n * (q + 1) = n * q + n
      BY <1>1
    <2>3. QED
      BY <1>1, <2>1, <2>2
  <1>3. QED
    BY <1>1, <1>2 DEF p, q

\* The coach's part is neither negative nor above the capped share of the net.
LEMMA CoachPartBounds ==
    ASSUME NEW sale \in Nat, NEW fee \in 0..sale, NEW bps \in 0..MaxCoachShareBps
    PROVE  /\ CoachPart(sale, fee, bps) \in Nat
           /\ BpsBase * CoachPart(sale, fee, bps) <= MaxCoachShareBps * (sale - fee)
  <1> DEFINE net == sale - fee
             c == (net * bps) \div 10000
  <1>1. net \in Nat /\ net * bps \in Nat /\ net * bps <= net * 8000
    <2>1. net \in Nat /\ bps \in Nat /\ bps <= 8000
      BY DEF MaxCoachShareBps
    <2> HIDE DEF net
    <2>2. net * bps \in Nat
      BY <2>1
    <2>3. net * bps <= net * 8000
      BY <2>1
    <2>4. QED
      BY <2>1, <2>2, <2>3
  <1>2. c \in Nat /\ 10000 * c <= net * bps
    <2> HIDE DEF net
    <2> DEFINE m == net * bps
    <2>1. m \in Nat
      BY <1>1
    <2> HIDE DEF m
    <2>2. m \div 10000 \in Nat /\ 10000 * (m \div 10000) <= m
      BY <2>1
    <2>3. QED
      BY <2>2 DEF m
  <1>3. CoachPart(sale, fee, bps) = c
    BY DEF CoachPart, BpsBase
  <1> HIDE DEF c, net
  <1>4. QED
    BY <1>1, <1>2, <1>3 DEF BpsBase, MaxCoachShareBps, net

\* A share of a refund lies between nothing and the whole part, and does not
\* shrink as more is refunded.
LEMMA ShareBounds ==
    ASSUME NEW part \in Nat, NEW sale \in Nat \ {0}, NEW r \in Nat
    PROVE  ProportionalShare(part, r, sale) \in 0..part
  <1>1. CASE r >= sale
    BY <1>1 DEF ProportionalShare
  <1>2. CASE r < sale
    <2>1. part * r \in Nat /\ part * sale \in Nat /\ part * r <= part * sale
      BY <1>2
    <2>2. (part * r) \div sale <= (part * sale) \div sale
      BY <2>1, DivMonotone
    <2>3. (part * sale) \div sale = part
      OBVIOUS
    <2>4. (part * r) \div sale \in Nat
      BY <2>1
    <2>5. QED
      BY <1>2, <2>2, <2>3, <2>4 DEF ProportionalShare
  <1>3. QED
    BY <1>1, <1>2

LEMMA ShareMonotone ==
    ASSUME NEW part \in Nat, NEW sale \in Nat \ {0}, NEW r \in Nat, NEW q \in Nat,
           r <= q
    PROVE  ProportionalShare(part, r, sale) <= ProportionalShare(part, q, sale)
  <1>1. CASE q >= sale
    <2>1. ProportionalShare(part, q, sale) = part
      BY <1>1 DEF ProportionalShare
    <2>2. QED
      BY <2>1, ShareBounds
  <1>2. CASE q < sale
    <2>1. part * r \in Nat /\ part * q \in Nat /\ part * r <= part * q
      OBVIOUS
    <2>2. (part * r) \div sale <= (part * q) \div sale
      BY <2>1, DivMonotone
    <2>3. QED
      BY <1>2, <2>2 DEF ProportionalShare
  <1>3. QED
    BY <1>1, <1>2

LEMMA ZeroShare ==
    ASSUME NEW sale \in Nat \ {0}, NEW part \in Nat, NEW refunded \in Nat
    PROVE  /\ ProportionalShare(part, 0, sale) = 0
           /\ ProportionalShare(0, refunded, sale) = 0
  <1>1. part * 0 = 0 /\ 0 * refunded = 0 /\ 0 \div sale = 0
    OBVIOUS
  <1>2. QED
    BY <1>1 DEF ProportionalShare
===============================================================================
