----------------------------- MODULE SumsProofs -----------------------------
(***************************************************************************)
(* Sums of finitely many numbers, for every finite set, and lists put one  *)
(* after the other.  The induction theorems of the library take an         *)
(* operator as a parameter, which the provers cannot instantiate; here a   *)
(* counterexample that is minimal stands in for the induction.             *)
(***************************************************************************)
EXTENDS Sums, Integers, SequencesExt, FiniteSetTheorems, SequenceTheorems,
        WellFoundedInduction, TLAPS

\* A non-empty set of subsets of a finite set has a minimal member: the form that
\* induction over finite sets takes here.
LEMMA SmallestSubset ==
    ASSUME NEW S, IsFiniteSet(S), NEW B \in SUBSET (SUBSET S), B # {}
    PROVE  \E T \in B : \A U \in B : U \subseteq T => U = T
<1>1. IsWellFoundedOn(StrictSubsetOrdering(S), SUBSET S)
    BY FS_StrictSubsetOrderingWellFounded, FS_FiniteSubsetsOfFinite
<1>2. PICK T \in B : \A U \in B : ~(<<U, T>> \in StrictSubsetOrdering(S))
    BY <1>1, WFMin
<1> QED
    BY <1>2 DEF StrictSubsetOrdering

\* A non-empty set of naturals has a least member.
LEMMA LeastNatural ==
    ASSUME NEW B \in SUBSET Nat, B # {}
    PROVE  \E n \in B : \A m \in B : n <= m
<1>1. IsWellFoundedOn(OpToRel(<, Nat), Nat)
    BY NatLessThanWellFounded
<1>2. PICK n \in B : \A m \in B : ~(<<m, n>> \in OpToRel(<, Nat))
    BY <1>1, WFMin
<1>4. ASSUME NEW m \in B PROVE n <= m
    <2>1. m \in Nat /\ n \in Nat
        OBVIOUS
    <2>2. ~(m < n)
        BY <1>2, <2>1 DEF OpToRel
    <2> QED
        BY <2>1, <2>2
<1> QED
    BY <1>4

\* Induction over the naturals, for a set in the place of a predicate.
LEMMA AllNaturals ==
    ASSUME NEW P, 0 \in P, \A k \in Nat : k \in P => k + 1 \in P
    PROVE  \A k \in Nat : k \in P
<1> DEFINE B == {k \in Nat : k \notin P}
<1> SUFFICES ASSUME B # {} PROVE FALSE
    OBVIOUS
<1>1. PICK n \in B : \A m \in B : n <= m
    <2>1. B \in SUBSET Nat
        OBVIOUS
    <2> HIDE DEF B
    <2> QED
        BY <2>1, LeastNatural
<1>2. n \in Nat /\ n # 0 /\ n \notin P
    BY <1>1
<1>3. n - 1 \in Nat /\ n - 1 \notin B
    BY <1>1, <1>2
<1>4. n - 1 \in P
    BY <1>3
<1>5. (n - 1) + 1 = n
    BY <1>2
<1> QED
    BY <1>2, <1>3, <1>4, <1>5

Pick(S) == CHOOSE x \in S : TRUE
Summing(S, f, g) ==
    g = [s \in SUBSET S |-> IF s = {} THEN 0
                            ELSE f[Pick(s)] + g[s \ {Pick(s)}]]

\* The sum as the recursive function it is defined by.
LEMMA SumAsFunction ==
    ASSUME NEW S, NEW f
    PROVE  SumOver(S, f) = (CHOOSE g : Summing(S, f, g))[S]
BY DEF SumOver, MapThenSumSet, MapThenFoldSet, Summing, Pick

LEMMA PickIn ==
    ASSUME NEW S, S # {}
    PROVE  Pick(S) \in S
    BY DEF Pick

\* Two recursive functions for the same f agree where both are defined.
LEMMA SummingUnique ==
    ASSUME NEW S, IsFiniteSet(S), NEW T, S \subseteq T, NEW f, NEW g, NEW h,
           Summing(S, f, g), Summing(T, f, h)
    PROVE  \A s \in SUBSET S : g[s] = h[s]
<1> DEFINE B == {s \in SUBSET S : g[s] # h[s]}
<1> SUFFICES ASSUME B # {} PROVE FALSE
    OBVIOUS
<1>1. PICK s \in B : \A r \in B : r \subseteq s => r = s
    <2>1. B \in SUBSET (SUBSET S)
        OBVIOUS
    <2> HIDE DEF B
    <2> QED
        BY <2>1, SmallestSubset
<1>2. s \in SUBSET S /\ s \in SUBSET T /\ g[s] # h[s]
    BY <1>1
<1>3. /\ g[s] = IF s = {} THEN 0 ELSE f[Pick(s)] + g[s \ {Pick(s)}]
      /\ h[s] = IF s = {} THEN 0 ELSE f[Pick(s)] + h[s \ {Pick(s)}]
    BY <1>2 DEF Summing
<1>4. s # {} /\ Pick(s) \in s
    BY <1>2, <1>3, PickIn
<1>5. s \ {Pick(s)} \notin B /\ s \ {Pick(s)} \in SUBSET S
    BY <1>1, <1>2, <1>4
<1>6. g[s \ {Pick(s)}] = h[s \ {Pick(s)}]
    BY <1>5
<1> QED
    BY <1>2, <1>3, <1>4, <1>6

\* The recursive function exists.
LEMMA SummingExists ==
    ASSUME NEW S, IsFiniteSet(S), NEW f
    PROVE  \E g : Summing(S, f, g)
<1> DEFINE B == {s \in SUBSET S : ~ \E g : Summing(s, f, g)}
<1> SUFFICES ASSUME B # {} PROVE FALSE
    OBVIOUS
<1>1. PICK s \in B : \A r \in B : r \subseteq s => r = s
    <2>1. B \in SUBSET (SUBSET S)
        OBVIOUS
    <2> HIDE DEF B
    <2> QED
        BY <2>1, SmallestSubset
<1>2. s \in SUBSET S /\ IsFiniteSet(s) /\ ~ \E g : Summing(s, f, g)
    BY <1>1, FS_Subset
<1> DEFINE V(r) == (CHOOSE g : Summing(r, f, g))[r]
<1>3. \A r \in SUBSET s : r # s => Summing(r, f, CHOOSE g : Summing(r, f, g))
    BY <1>1, <1>2
<1>4. \A r \in SUBSET s : r # s =>
          V(r) = IF r = {} THEN 0 ELSE f[Pick(r)] + V(r \ {Pick(r)})
    <2> SUFFICES ASSUME NEW r \in SUBSET s, r # s
                 PROVE  V(r) = IF r = {} THEN 0
                               ELSE f[Pick(r)] + V(r \ {Pick(r)})
        OBVIOUS
    <2> DEFINE g == CHOOSE x : Summing(r, f, x)
               q == r \ {Pick(r)}
               h == CHOOSE x : Summing(q, f, x)
    <2>1. Summing(r, f, g) /\ IsFiniteSet(r)
        BY <1>2, <1>3, FS_Subset
    <2>2. g[r] = IF r = {} THEN 0 ELSE f[Pick(r)] + g[q]
        BY <2>1 DEF Summing
    <2>3. CASE r = {}
        BY <2>2, <2>3
    <2>4. CASE r # {}
        <3>1. q \in SUBSET s /\ q # s /\ q \subseteq r /\ IsFiniteSet(q)
            BY <1>2, <2>4, PickIn, FS_Subset
        <3>2. Summing(q, f, h)
            BY <1>3, <3>1
        <3> HIDE DEF g, h, q
        <3>3. h[q] = g[q]
            BY <2>1, <3>1, <3>2, SummingUnique
        <3>4. V(r) = g[r] /\ V(q) = h[q]
            BY DEF g, h
        <3> QED
            BY <2>2, <2>4, <3>3, <3>4 DEF q
    <2> QED
        BY <2>3, <2>4
<1> DEFINE G == [r \in SUBSET s |-> IF r = {} THEN 0
                                    ELSE f[Pick(r)] + V(r \ {Pick(r)})]
<1> HIDE DEF V
<1>5. \A r \in SUBSET s : r # {} =>
          /\ r \ {Pick(r)} \in SUBSET s /\ r \ {Pick(r)} # s
          /\ G[r \ {Pick(r)}] = V(r \ {Pick(r)})
    <2> SUFFICES ASSUME NEW r \in SUBSET s, r # {}
                 PROVE  /\ r \ {Pick(r)} \in SUBSET s /\ r \ {Pick(r)} # s
                        /\ G[r \ {Pick(r)}] = V(r \ {Pick(r)})
        OBVIOUS
    <2>1. r \ {Pick(r)} \in SUBSET s /\ r \ {Pick(r)} # s
        BY PickIn
    <2> QED
        BY <1>4, <2>1
<1>6. Summing(s, f, G)
    BY <1>5 DEF Summing
<1> QED
    BY <1>2, <1>6

\* The recursive function that SumOver picks, and its value on each subset.
LEMMA SumValue ==
    ASSUME NEW S, IsFiniteSet(S), NEW T \in SUBSET S, NEW f, NEW g, Summing(S, f, g)
    PROVE  SumOver(T, f) = g[T]
<1> DEFINE h == CHOOSE x : Summing(T, f, x)
<1>1. IsFiniteSet(T)
    BY FS_Subset
<1>2. Summing(T, f, h)
    BY <1>1, SummingExists
<1>3. SumOver(T, f) = h[T]
    BY SumAsFunction
<1> HIDE DEF h
<1> QED
    BY <1>1, <1>2, <1>3, SummingUnique

\* The sum of nothing.
LEMMA SumEmpty ==
    ASSUME NEW f
    PROVE  SumOver({}, f) = 0
<1>1. PICK g : Summing({}, f, g)
    BY SummingExists, FS_EmptySet
<1>2. g[{}] = 0
    BY <1>1 DEF Summing
<1> QED
    BY <1>1, <1>2, SumValue, FS_EmptySet

LEMMA SumPick ==
    ASSUME NEW S, IsFiniteSet(S), S # {}, NEW f
    PROVE  SumOver(S, f) = f[Pick(S)] + SumOver(S \ {Pick(S)}, f)
<1>1. PICK g : Summing(S, f, g)
    BY SummingExists
<1>2. g[S] = f[Pick(S)] + g[S \ {Pick(S)}]
    BY <1>1 DEF Summing
<1>3. SumOver(S, f) = g[S]
    BY <1>1, SumValue
<1>4. SumOver(S \ {Pick(S)}, f) = g[S \ {Pick(S)}]
    BY <1>1, SumValue
<1> QED
    BY <1>2, <1>3, <1>4

\* A sum of integers is an integer, ...
LEMMA SumInt ==
    ASSUME NEW S, IsFiniteSet(S), NEW f, \A x \in S : f[x] \in Int
    PROVE  SumOver(S, f) \in Int
<1> DEFINE B == {s \in SUBSET S : SumOver(s, f) \notin Int}
<1> SUFFICES ASSUME B # {} PROVE FALSE
    OBVIOUS
<1>1. PICK s \in B : \A r \in B : r \subseteq s => r = s
    <2>1. B \in SUBSET (SUBSET S)
        OBVIOUS
    <2> HIDE DEF B
    <2> QED
        BY <2>1, SmallestSubset
<1>2. s \in SUBSET S /\ IsFiniteSet(s) /\ SumOver(s, f) \notin Int
    BY <1>1, FS_Subset
<1>3. s # {}
    BY <1>2, SumEmpty
<1>4. Pick(s) \in s /\ f[Pick(s)] \in Int
    BY <1>2, <1>3, PickIn
<1>5. SumOver(s \ {Pick(s)}, f) \in Int
    BY <1>1, <1>2, <1>4
<1>6. SumOver(s, f) = f[Pick(s)] + SumOver(s \ {Pick(s)}, f)
    BY <1>2, <1>3, SumPick
<1> QED
    BY <1>2, <1>4, <1>5, <1>6

\* ... and a sum of naturals a natural.
LEMMA SumNat ==
    ASSUME NEW S, IsFiniteSet(S), NEW f, \A x \in S : f[x] \in Nat
    PROVE  SumOver(S, f) \in Nat
<1> DEFINE B == {s \in SUBSET S : SumOver(s, f) \notin Nat}
<1> SUFFICES ASSUME B # {} PROVE FALSE
    OBVIOUS
<1>1. PICK s \in B : \A r \in B : r \subseteq s => r = s
    <2>1. B \in SUBSET (SUBSET S)
        OBVIOUS
    <2> HIDE DEF B
    <2> QED
        BY <2>1, SmallestSubset
<1>2. s \in SUBSET S /\ IsFiniteSet(s) /\ SumOver(s, f) \notin Nat
    BY <1>1, FS_Subset
<1>3. s # {}
    BY <1>2, SumEmpty
<1>4. Pick(s) \in s /\ f[Pick(s)] \in Nat
    BY <1>2, <1>3, PickIn
<1>5. SumOver(s \ {Pick(s)}, f) \in Nat
    BY <1>1, <1>2, <1>4
<1>6. SumOver(s, f) = f[Pick(s)] + SumOver(s \ {Pick(s)}, f)
    BY <1>2, <1>3, SumPick
<1> QED
    BY <1>2, <1>4, <1>5, <1>6

\* A sum may take its elements in any order.
LEMMA SumRemove ==
    ASSUME NEW S, IsFiniteSet(S), NEW f, \A x \in S : f[x] \in Int, NEW y \in S
    PROVE  SumOver(S, f) = f[y] + SumOver(S \ {y}, f)
<1> DEFINE Bad(s) == \E x \in s : SumOver(s, f) # f[x] + SumOver(s \ {x}, f)
           B == {s \in SUBSET S : Bad(s)}
<1> SUFFICES ASSUME B # {} PROVE FALSE
    OBVIOUS
<1>1. PICK s \in B : \A r \in B : r \subseteq s => r = s
    <2>1. B \in SUBSET (SUBSET S)
        OBVIOUS
    <2> HIDE DEF B
    <2> QED
        BY <2>1, SmallestSubset
<1>2. s \in SUBSET S /\ IsFiniteSet(s)
    BY <1>1, FS_Subset
<1>3. PICK x \in s : SumOver(s, f) # f[x] + SumOver(s \ {x}, f)
    BY <1>1
<1> DEFINE p == Pick(s)
           r == s \ {x, p}
<1>4. p \in s
    BY <1>3, PickIn
<1>5. SumOver(s, f) = f[p] + SumOver(s \ {p}, f)
    BY <1>2, <1>3, SumPick
<1>6. x # p
    BY <1>3, <1>5
<1>7. IsFiniteSet(r) /\ r \in SUBSET S
    BY <1>2, FS_Subset
<1>8. SumOver(r, f) \in Int /\ f[x] \in Int /\ f[p] \in Int
    BY <1>2, <1>4, <1>7, SumInt
<1>9. SumOver(s \ {p}, f) = f[x] + SumOver(r, f)
    <2>1. s \ {p} \notin B /\ s \ {p} \in SUBSET S
        BY <1>1, <1>2, <1>4
    <2>2. x \in s \ {p} /\ (s \ {p}) \ {x} = r
        BY <1>6
    <2> QED
        BY <2>1, <2>2
<1>10. SumOver(s \ {x}, f) = f[p] + SumOver(r, f)
    <2>1. s \ {x} \notin B /\ s \ {x} \in SUBSET S
        BY <1>1, <1>2, <1>3
    <2>2. p \in s \ {x} /\ (s \ {x}) \ {p} = r
        BY <1>4, <1>6
    <2> QED
        BY <2>1, <2>2
<1> HIDE DEF p, r
<1> QED
    BY <1>3, <1>5, <1>8, <1>9, <1>10

\* ... and a new one put in.
LEMMA SumAdd ==
    ASSUME NEW S, IsFiniteSet(S), NEW y, y \notin S, NEW f,
           \A x \in S \cup {y} : f[x] \in Int
    PROVE  SumOver(S \cup {y}, f) = f[y] + SumOver(S, f)
<1>1. IsFiniteSet(S \cup {y}) /\ (S \cup {y}) \ {y} = S
    BY FS_AddElement
<1> DEFINE T == S \cup {y}
<1>2. y \in T /\ IsFiniteSet(T) /\ \A x \in T : f[x] \in Int
    BY <1>1
<1>3. T \ {y} = S
    BY <1>1
<1> HIDE DEF T
<1>4. SumOver(T, f) = f[y] + SumOver(T \ {y}, f)
    BY <1>2, SumRemove
<1> QED
    BY <1>3, <1>4 DEF T

\* Larger terms, larger sum.
LEMMA SumMonotone ==
    ASSUME NEW S, IsFiniteSet(S), NEW f, NEW g,
           \A x \in S : f[x] \in Int /\ g[x] \in Int /\ f[x] <= g[x]
    PROVE  SumOver(S, f) <= SumOver(S, g)
<1> DEFINE B == {s \in SUBSET S : ~(SumOver(s, f) <= SumOver(s, g))}
<1> SUFFICES ASSUME B # {} PROVE FALSE
    OBVIOUS
<1>1. PICK s \in B : \A r \in B : r \subseteq s => r = s
    <2>1. B \in SUBSET (SUBSET S)
        OBVIOUS
    <2> HIDE DEF B
    <2> QED
        BY <2>1, SmallestSubset
<1>2. s \in SUBSET S /\ IsFiniteSet(s) /\ ~(SumOver(s, f) <= SumOver(s, g))
    BY <1>1, FS_Subset
<1>3. s # {}
    BY <1>2, SumEmpty
<1> DEFINE p == Pick(s)
           r == s \ {p}
<1>4. p \in s /\ f[p] \in Int /\ g[p] \in Int /\ f[p] <= g[p]
    BY <1>2, <1>3, PickIn
<1>5. SumOver(r, f) <= SumOver(r, g)
    BY <1>1, <1>2, <1>4
<1>6. SumOver(s, f) = f[p] + SumOver(r, f) /\ SumOver(s, g) = g[p] + SumOver(r, g)
    BY <1>2, <1>3, SumPick
<1>7. SumOver(r, f) \in Int /\ SumOver(r, g) \in Int
    <2>1. r \in SUBSET S /\ IsFiniteSet(r)
        BY <1>2, FS_Subset
    <2> QED
        BY <2>1, SumInt
<1> HIDE DEF p, r
<1> QED
    BY <1>2, <1>4, <1>5, <1>6, <1>7

\* Equal terms, equal sum.
LEMMA SumSame ==
    ASSUME NEW S, IsFiniteSet(S), NEW f, NEW g,
           \A x \in S : f[x] \in Int /\ g[x] = f[x]
    PROVE  SumOver(S, g) = SumOver(S, f)
<1>1. SumOver(S, f) <= SumOver(S, g) /\ SumOver(S, g) <= SumOver(S, f)
    BY SumMonotone
<1>2. SumOver(S, f) \in Int /\ SumOver(S, g) \in Int
    BY SumInt
<1> QED
    BY <1>1, <1>2

\* One term changes.
LEMMA SumChange ==
    ASSUME NEW S, IsFiniteSet(S), NEW f, NEW g, NEW y \in S,
           \A x \in S : f[x] \in Int, g[y] \in Int,
           \A x \in S \ {y} : g[x] = f[x]
    PROVE  SumOver(S, g) = SumOver(S, f) + g[y] - f[y]
<1>1. \A x \in S : g[x] \in Int
    OBVIOUS
<1>2. /\ SumOver(S, f) = f[y] + SumOver(S \ {y}, f)
      /\ SumOver(S, g) = g[y] + SumOver(S \ {y}, g)
    BY <1>1, SumRemove
<1>3. IsFiniteSet(S \ {y})
    BY FS_RemoveElement
<1>4. SumOver(S \ {y}, g) = SumOver(S \ {y}, f) /\ SumOver(S \ {y}, f) \in Int
    BY <1>3, SumSame, SumInt
<1>5. f[y] \in Int
    OBVIOUS
<1> QED
    BY <1>2, <1>4, <1>5

\* A common factor.
LEMMA SumScale ==
    ASSUME NEW S, IsFiniteSet(S), NEW c \in Int, NEW f, NEW g,
           \A x \in S : f[x] \in Int /\ g[x] = c * f[x]
    PROVE  SumOver(S, g) = c * SumOver(S, f)
<1> DEFINE B == {s \in SUBSET S : SumOver(s, g) # c * SumOver(s, f)}
<1> SUFFICES ASSUME B # {} PROVE FALSE
    OBVIOUS
<1>1. PICK s \in B : \A r \in B : r \subseteq s => r = s
    <2>1. B \in SUBSET (SUBSET S)
        OBVIOUS
    <2> HIDE DEF B
    <2> QED
        BY <2>1, SmallestSubset
<1>2. s \in SUBSET S /\ IsFiniteSet(s) /\ SumOver(s, g) # c * SumOver(s, f)
    BY <1>1, FS_Subset
<1>3. s # {}
    <2>1. SumOver({}, f) = 0 /\ SumOver({}, g) = 0 /\ c * 0 = 0
        BY SumEmpty
    <2> QED
        BY <1>2, <2>1
<1> DEFINE p == Pick(s)
           r == s \ {p}
<1>4. p \in s /\ f[p] \in Int /\ g[p] = c * f[p]
    BY <1>2, <1>3, PickIn
<1>5. SumOver(r, g) = c * SumOver(r, f)
    BY <1>1, <1>2, <1>4
<1>6. SumOver(s, f) = f[p] + SumOver(r, f) /\ SumOver(s, g) = g[p] + SumOver(r, g)
    BY <1>2, <1>3, SumPick
<1>7. SumOver(r, f) \in Int
    <2>1. r \in SUBSET S /\ IsFiniteSet(r)
        BY <1>2, FS_Subset
    <2> QED
        BY <2>1, SumInt
<1> HIDE DEF p, r
<1>8. \A a, b \in Int : c * (a + b) = c * a + c * b
    OBVIOUS
<1>9. SumOver(s, g) = c * SumOver(s, f)
    BY <1>4, <1>5, <1>6, <1>7, <1>8
<1> QED
    BY <1>2, <1>9

\* Term by term.
LEMMA SumPlus ==
    ASSUME NEW S, IsFiniteSet(S), NEW f, NEW g, NEW h,
           \A x \in S : f[x] \in Int /\ g[x] \in Int /\ h[x] = f[x] + g[x]
    PROVE  SumOver(S, h) = SumOver(S, f) + SumOver(S, g)
<1> DEFINE B == {s \in SUBSET S : SumOver(s, h) # SumOver(s, f) + SumOver(s, g)}
<1> SUFFICES ASSUME B # {} PROVE FALSE
    OBVIOUS
<1>1. PICK s \in B : \A r \in B : r \subseteq s => r = s
    <2>1. B \in SUBSET (SUBSET S)
        OBVIOUS
    <2> HIDE DEF B
    <2> QED
        BY <2>1, SmallestSubset
<1>2. /\ s \in SUBSET S /\ IsFiniteSet(s)
      /\ SumOver(s, h) # SumOver(s, f) + SumOver(s, g)
    BY <1>1, FS_Subset
<1>3. s # {}
    <2>1. SumOver({}, f) = 0 /\ SumOver({}, g) = 0 /\ SumOver({}, h) = 0
        BY SumEmpty
    <2>2. SumOver({}, h) = SumOver({}, f) + SumOver({}, g)
        BY <2>1
    <2> QED
        BY <1>2, <2>2, Zenon
<1> DEFINE p == Pick(s)
           r == s \ {p}
<1>4. p \in s /\ f[p] \in Int /\ g[p] \in Int /\ h[p] = f[p] + g[p]
    BY <1>2, <1>3, PickIn
<1>5. SumOver(r, h) = SumOver(r, f) + SumOver(r, g)
    BY <1>1, <1>2, <1>4
<1>6. /\ SumOver(s, f) = f[p] + SumOver(r, f)
      /\ SumOver(s, g) = g[p] + SumOver(r, g)
      /\ SumOver(s, h) = h[p] + SumOver(r, h)
    BY <1>2, <1>3, SumPick
<1>7. SumOver(r, f) \in Int /\ SumOver(r, g) \in Int
    <2>1. r \in SUBSET S /\ IsFiniteSet(r)
        BY <1>2, FS_Subset
    <2> QED
        BY <2>1, SumInt
<1> HIDE DEF p, r
<1> QED
    BY <1>2, <1>4, <1>5, <1>6, <1>7

\* As many terms as the set has members, each at most c.
LEMMA SumBound ==
    ASSUME NEW S, IsFiniteSet(S), NEW c \in Int, NEW f,
           \A x \in S : f[x] \in Int /\ f[x] <= c
    PROVE  SumOver(S, f) <= c * Cardinality(S)
<1> DEFINE one == [x \in S |-> 1]
           B == {s \in SUBSET S : SumOver(s, one) # Cardinality(s)}
<1>1. B = {}
    <2> SUFFICES ASSUME B # {} PROVE FALSE
        OBVIOUS
    <2>1. PICK s \in B : \A r \in B : r \subseteq s => r = s
        <3>1. B \in SUBSET (SUBSET S)
            OBVIOUS
        <3> HIDE DEF B
        <3> QED
            BY <3>1, SmallestSubset
    <2>2. s \in SUBSET S /\ IsFiniteSet(s) /\ SumOver(s, one) # Cardinality(s)
        BY <2>1, FS_Subset
    <2>3. s # {}
        BY <2>2, SumEmpty, FS_EmptySet
    <2> DEFINE p == Pick(s)
               r == s \ {p}
    <2>4. p \in s /\ one[p] = 1
        BY <2>2, <2>3, PickIn
    <2>5. SumOver(r, one) = Cardinality(r)
        BY <2>1, <2>2, <2>4
    <2>6. SumOver(s, one) = one[p] + SumOver(r, one)
        BY <2>2, <2>3, SumPick
    <2>7. Cardinality(r) = Cardinality(s) - 1 /\ Cardinality(s) \in Nat
        BY <2>2, <2>4, FS_RemoveElement, FS_CardinalityType
    <2> HIDE DEF p, r, one
    <2> QED
        BY <2>2, <2>4, <2>5, <2>6, <2>7
<1>2. SumOver(S, one) = Cardinality(S)
    BY <1>1
<1> DEFINE most == [x \in S |-> c]
<1>3. SumOver(S, most) = c * SumOver(S, one)
    <2>1. \A x \in S : one[x] \in Int /\ most[x] = c * one[x]
        OBVIOUS
    <2> HIDE DEF one, most
    <2> QED
        BY <2>1, SumScale
<1>4. SumOver(S, f) <= SumOver(S, most)
    <2>1. \A x \in S : f[x] \in Int /\ most[x] \in Int /\ f[x] <= most[x]
        OBVIOUS
    <2> HIDE DEF most
    <2> QED
        BY <2>1, SumMonotone
<1> QED
    BY <1>2, <1>3, <1>4

\* A part of the terms, none of them negative.
LEMMA SumPart ==
    ASSUME NEW S, IsFiniteSet(S), NEW T \in SUBSET S, NEW f,
           \A x \in S : f[x] \in Nat
    PROVE  SumOver(T, f) <= SumOver(S, f)
<1> DEFINE B == {s \in SUBSET S : T \subseteq s /\ ~(SumOver(T, f) <= SumOver(s, f))}
<1> SUFFICES ASSUME B # {} PROVE FALSE
    OBVIOUS
<1>1. PICK s \in B : \A r \in B : r \subseteq s => r = s
    <2>1. B \in SUBSET (SUBSET S)
        OBVIOUS
    <2> HIDE DEF B
    <2> QED
        BY <2>1, SmallestSubset
<1>2. /\ s \in SUBSET S /\ IsFiniteSet(s) /\ T \subseteq s
      /\ ~(SumOver(T, f) <= SumOver(s, f))
    BY <1>1, FS_Subset
<1>3. SumOver(T, f) \in Nat
    <2>1. IsFiniteSet(T) /\ \A x \in T : f[x] \in Nat
        BY FS_Subset
    <2> QED
        BY <2>1, SumNat
<1>4. PICK y \in s : y \notin T
    <2>1. s # T
        BY <1>2, <1>3
    <2> QED
        BY <1>2, <2>1
<1> DEFINE r == s \ {y}
<1>5. SumOver(T, f) <= SumOver(r, f)
    BY <1>1, <1>2, <1>4
<1>6. SumOver(s, f) = f[y] + SumOver(r, f) /\ f[y] \in Nat
    <2>1. \A x \in s : f[x] \in Int
        BY <1>2
    <2> QED
        BY <1>2, <2>1, SumRemove
<1>7. SumOver(r, f) \in Nat
    <2>1. r \in SUBSET S /\ IsFiniteSet(r)
        BY <1>2, FS_Subset
    <2> QED
        BY <2>1, SumNat
<1> HIDE DEF r
<1> QED
    BY <1>2, <1>3, <1>5, <1>6, <1>7

\* No term above zero.
LEMMA SumZero ==
    ASSUME NEW S, IsFiniteSet(S), NEW f, \A x \in S : f[x] = 0
    PROVE  SumOver(S, f) = 0
<1> DEFINE B == {s \in SUBSET S : SumOver(s, f) # 0}
<1> SUFFICES ASSUME B # {} PROVE FALSE
    OBVIOUS
<1>1. PICK s \in B : \A r \in B : r \subseteq s => r = s
    <2>1. B \in SUBSET (SUBSET S)
        OBVIOUS
    <2> HIDE DEF B
    <2> QED
        BY <2>1, SmallestSubset
<1>2. s \in SUBSET S /\ IsFiniteSet(s) /\ SumOver(s, f) # 0
    BY <1>1, FS_Subset
<1>3. s # {}
    BY <1>2, SumEmpty
<1>4. Pick(s) \in s /\ f[Pick(s)] = 0
    BY <1>2, <1>3, PickIn
<1>5. SumOver(s \ {Pick(s)}, f) = 0
    BY <1>1, <1>2, <1>4
<1>6. SumOver(s, f) = f[Pick(s)] + SumOver(s \ {Pick(s)}, f)
    BY <1>2, <1>3, SumPick
<1> QED
    BY <1>2, <1>4, <1>5, <1>6

\* Terms matched one to one with larger ones.
LEMMA SumMatched ==
    ASSUME NEW S, IsFiniteSet(S), NEW T, IsFiniteSet(T), NEW f, NEW g, NEW j,
           \A x \in S : f[x] \in Nat /\ j[x] \in T /\ f[x] <= g[j[x]],
           \A x \in T : g[x] \in Nat,
           \A x, y \in S : j[x] = j[y] => x = y
    PROVE  SumOver(S, f) <= SumOver(T, g)
<1> DEFINE Image(s) == {j[x] : x \in s}
           B == {s \in SUBSET S : ~(SumOver(s, f) <= SumOver(Image(s), g))}
<1>1. Image(S) \in SUBSET T
    OBVIOUS
<1>2. SumOver(Image(S), g) <= SumOver(T, g)
    BY <1>1, SumPart
<1>3. B = {}
    <2> SUFFICES ASSUME B # {} PROVE FALSE
        OBVIOUS
    <2>1. PICK s \in B : \A r \in B : r \subseteq s => r = s
        <3>1. B \in SUBSET (SUBSET S)
            OBVIOUS
        <3> HIDE DEF B
        <3> QED
            BY <3>1, SmallestSubset
    <2>2. /\ s \in SUBSET S /\ IsFiniteSet(s)
          /\ ~(SumOver(s, f) <= SumOver(Image(s), g))
        BY <2>1, FS_Subset
    <2>3. s # {}
        <3> SUFFICES ASSUME s = {} PROVE FALSE
            OBVIOUS
        <3>1. Image(s) = {}
            OBVIOUS
        <3>2. SumOver({}, f) = 0 /\ SumOver({}, g) = 0
            BY SumEmpty
        <3> HIDE DEF Image
        <3>3. SumOver(s, f) = 0 /\ SumOver(Image(s), g) = 0
            BY <3>1, <3>2
        <3> QED
            BY <2>2, <3>3
    <2> DEFINE p == Pick(s)
               r == s \ {p}
    <2>4. p \in s /\ f[p] \in Nat /\ j[p] \in T /\ f[p] <= g[j[p]]
        BY <2>2, <2>3, PickIn
    <2>5. SumOver(r, f) <= SumOver(Image(r), g)
        BY <2>1, <2>2, <2>4
    <2>6. SumOver(s, f) = f[p] + SumOver(r, f)
        BY <2>2, <2>3, SumPick
    <2>7. Image(s) \in SUBSET T /\ j[p] \in Image(s)
        BY <2>2, <2>4
    <2>8. Image(s) \ {j[p]} = Image(r)
        BY <2>2, <2>4
    <2>9. IsFiniteSet(Image(s)) /\ \A x \in Image(s) : g[x] \in Int
        BY <2>7, FS_Subset
    <2> HIDE DEF Image
    <2>10. SumOver(Image(s), g) = g[j[p]] + SumOver(Image(r), g)
        <3> DEFINE i == Image(s)
        <3>1. IsFiniteSet(i) /\ j[p] \in i /\ \A x \in i : g[x] \in Int
            BY <2>7, <2>9
        <3> HIDE DEF i
        <3>2. SumOver(i, g) = g[j[p]] + SumOver(i \ {j[p]}, g)
            BY <3>1, SumRemove
        <3> QED
            BY <2>8, <3>2 DEF i
    <2>11. SumOver(r, f) \in Nat
        <3>1. IsFiniteSet(r) /\ \A x \in r : f[x] \in Nat
            BY <2>2, FS_Subset
        <3> QED
            BY <3>1, SumNat
    <2>12. SumOver(Image(r), g) \in Nat /\ g[j[p]] \in Nat
        <3>1. Image(r) \in SUBSET T
            BY <2>7, <2>8
        <3>2. IsFiniteSet(Image(r)) /\ \A x \in Image(r) : g[x] \in Nat
            BY <3>1, FS_Subset
        <3> QED
            BY <2>4, <3>2, SumNat
    <2> HIDE DEF r, p
    <2> QED
        BY <2>2, <2>4, <2>5, <2>6, <2>10, <2>11, <2>12
<1>4. SumOver(S, f) <= SumOver(Image(S), g)
    BY <1>3
<1>5. SumOver(S, f) \in Nat /\ SumOver(T, g) \in Nat
    BY SumNat
<1>6. SumOver(Image(S), g) \in Nat
    <2>1. IsFiniteSet(Image(S)) /\ \A x \in Image(S) : g[x] \in Nat
        BY <1>1, FS_Subset
    <2> HIDE DEF Image
    <2> QED
        BY <2>1, SumNat
<1> QED
    BY <1>2, <1>4, <1>5, <1>6

\* The recursive function of FlattenSeq.
Flattening(seqs, n, g) ==
    g = [i \in 1 .. n |-> IF i = 1 THEN seqs[i] ELSE g[i - 1] \o seqs[i]]

\* The function exists for every length.
LEMMA FlatteningExists ==
    ASSUME NEW seqs, NEW n \in Nat
    PROVE  \E g : Flattening(seqs, n, g)
<1> DEFINE B == {m \in Nat : ~ \E g : Flattening(seqs, m, g)}
<1> SUFFICES ASSUME B # {} PROVE FALSE
    OBVIOUS
<1>1. PICK m \in B : \A k \in B : m <= k
    <2>1. B \in SUBSET Nat
        OBVIOUS
    <2> HIDE DEF B
    <2> QED
        BY <2>1, LeastNatural
<1>2. m \in Nat /\ ~ \E g : Flattening(seqs, m, g)
    BY <1>1
<1>3. m # 0
    <2> SUFFICES ASSUME m = 0 PROVE FALSE
        OBVIOUS
    <2> DEFINE g == [i \in {} |-> 0]
    <2>1. 1 .. m = {}
        OBVIOUS
    <2>2. Flattening(seqs, m, g)
        BY <2>1 DEF Flattening
    <2> QED
        BY <1>2, <2>2
<1>4. m - 1 \in Nat /\ m - 1 \notin B
    BY <1>1, <1>2, <1>3
<1>5. PICK g : Flattening(seqs, m - 1, g)
    BY <1>4
<1> DEFINE h == [i \in 1 .. m |-> IF i # m THEN g[i]
                                  ELSE IF i = 1 THEN seqs[i]
                                  ELSE g[i - 1] \o seqs[i]]
<1>6. \A i \in 1 .. m - 1 :
          g[i] = IF i = 1 THEN seqs[i] ELSE g[i - 1] \o seqs[i]
    BY <1>5 DEF Flattening
<1>7. \A i \in 1 .. m :
          h[i] = IF i = 1 THEN seqs[i] ELSE h[i - 1] \o seqs[i]
    <2> SUFFICES ASSUME NEW i \in 1 .. m
                 PROVE  h[i] = IF i = 1 THEN seqs[i] ELSE h[i - 1] \o seqs[i]
        OBVIOUS
    <2>1. CASE i = m
        <3>1. i # 1 => i - 1 \in 1 .. m /\ i - 1 # m
            BY <1>2, <2>1
        <3> QED
            BY <2>1, <3>1
    <2>2. CASE i # m
        <3>1. i \in 1 .. m - 1 /\ (i # 1 => i - 1 \in 1 .. m /\ i - 1 # m)
            BY <1>2, <2>2
        <3> QED
            BY <1>6, <2>2, <3>1
    <2> QED
        BY <2>1, <2>2
<1>8. Flattening(seqs, m, h)
    <2>1. h = [i \in 1 .. m |-> h[i]]
        OBVIOUS
    <2> HIDE DEF h
    <2> QED
        BY <1>7, <2>1 DEF Flattening
<1> QED
    BY <1>2, <1>8

\* Lists of members of S, one after the other, are a list of members of S.
LEMMA FlattenType ==
    ASSUME NEW S, NEW seqs \in Seq(Seq(S))
    PROVE  FlattenSeq(seqs) \in Seq(S)
<1> DEFINE n == Len(seqs)
           g == CHOOSE x : Flattening(seqs, n, x)
<1>1. n \in Nat /\ \A i \in 1 .. n : seqs[i] \in Seq(S)
    OBVIOUS
<1>2. FlattenSeq(seqs) = IF n = 0 THEN seqs ELSE g[n]
    BY DEF FlattenSeq, Flattening
<1>3. Flattening(seqs, n, g)
    BY <1>1, FlatteningExists
<1> HIDE DEF g, n
<1>4. \A i \in 1 .. n : g[i] = IF i = 1 THEN seqs[i] ELSE g[i - 1] \o seqs[i]
    BY <1>3 DEF Flattening
<1>5. \A i \in 1 .. n : g[i] \in Seq(S)
    <2> DEFINE B == {i \in 1 .. n : g[i] \notin Seq(S)}
    <2> SUFFICES ASSUME B # {} PROVE FALSE
        OBVIOUS
    <2>1. PICK i \in B : \A k \in B : i <= k
        <3>1. B \in SUBSET Nat
            OBVIOUS
        <3> HIDE DEF B
        <3> QED
            BY <3>1, LeastNatural
    <2>2. i \in 1 .. n /\ g[i] \notin Seq(S)
        BY <2>1
    <2>3. i # 1
        BY <1>1, <1>4, <2>2
    <2>4. i - 1 \in 1 .. n /\ g[i - 1] \in Seq(S)
        BY <1>1, <2>1, <2>2, <2>3
    <2>5. seqs[i] \in Seq(S)
        BY <1>1, <2>2
    <2>6. g[i] = g[i - 1] \o seqs[i]
        BY <1>4, <2>2, <2>3
    <2> HIDE DEF B
    <2> QED
        BY <2>2, <2>4, <2>5, <2>6, ConcatProperties
<1>6. CASE n = 0
    <2>1. seqs = <<>>
        BY <1>6 DEF n
    <2> QED
        BY <1>2, <1>6, <2>1
<1>7. CASE n # 0
    BY <1>1, <1>2, <1>5, <1>7
<1> QED
    BY <1>6, <1>7

\* The terms of a part, and the terms of the rest.
LEMMA SumSplit ==
    ASSUME NEW S, IsFiniteSet(S), NEW T \in SUBSET S, NEW f, \A x \in S : f[x] \in Int
    PROVE  SumOver(S, f) = SumOver(T, f) + SumOver(S \ T, f)
<1> DEFINE B == {s \in SUBSET T : SumOver(S, f) # SumOver(s, f) + SumOver(S \ s, f)}
<1> SUFFICES ASSUME B # {} PROVE FALSE
    OBVIOUS
<1>0. IsFiniteSet(T)
    BY FS_Subset
<1>1. PICK s \in B : \A r \in B : r \subseteq s => r = s
    <2>1. B \in SUBSET (SUBSET T)
        OBVIOUS
    <2> HIDE DEF B
    <2> QED
        BY <1>0, <2>1, SmallestSubset
<1>2. /\ s \in SUBSET T /\ IsFiniteSet(s)
      /\ SumOver(S, f) # SumOver(s, f) + SumOver(S \ s, f)
    BY <1>0, <1>1, FS_Subset
<1>3. SumOver(S, f) \in Int
    BY SumInt
<1>4. s # {}
    <2> SUFFICES ASSUME s = {} PROVE FALSE
        OBVIOUS
    <2>1. SumOver(s, f) = 0
        BY SumEmpty
    <2>2. S \ s = S
        OBVIOUS
    <2> QED
        BY <1>2, <1>3, <2>1, <2>2
<1>5. PICK y \in s : TRUE
    BY <1>4
<1>6. PICK r \in SUBSET T : r = s \ {y}
    BY <1>2
<1>7. SumOver(S, f) = SumOver(r, f) + SumOver(S \ r, f)
    BY <1>1, <1>2, <1>5, <1>6
<1>8. SumOver(s, f) = f[y] + SumOver(r, f)
    <2>1. \A x \in s : f[x] \in Int
        BY <1>2
    <2> QED
        BY <1>2, <1>5, <1>6, <2>1, SumRemove
<1>9. SumOver(S \ r, f) = f[y] + SumOver(S \ s, f)
    <2>1. PICK q \in SUBSET S : q = S \ r
        OBVIOUS
    <2>2. IsFiniteSet(q) /\ y \in q /\ q \ {y} = S \ s /\ \A x \in q : f[x] \in Int
        BY <1>2, <1>5, <1>6, <2>1, FS_Subset
    <2> QED
        BY <2>1, <2>2, SumRemove
<1>10. f[y] \in Int /\ SumOver(r, f) \in Int /\ SumOver(S \ s, f) \in Int
    <2>1. r \in SUBSET S /\ IsFiniteSet(r) /\ S \ s \in SUBSET S /\ IsFiniteSet(S \ s)
        BY <1>0, <1>6, FS_Subset
    <2>2. (\A x \in r : f[x] \in Int) /\ (\A x \in S \ s : f[x] \in Int)
        BY <2>1
    <2> QED
        BY <1>2, <1>5, <2>1, <2>2, SumInt
<1> QED
    BY <1>2, <1>7, <1>8, <1>9, <1>10

\* Terms that are zero outside a part.
LEMMA SumWhere ==
    ASSUME NEW S, IsFiniteSet(S), NEW T \in SUBSET S, NEW f, NEW g,
           \A x \in T : f[x] \in Int /\ g[x] = f[x],
           \A x \in S \ T : g[x] = 0
    PROVE  SumOver(S, g) = SumOver(T, f)
<1>1. \A x \in S : g[x] \in Int
    OBVIOUS
<1>2. SumOver(S, g) = SumOver(T, g) + SumOver(S \ T, g)
    BY <1>1, SumSplit
<1>3. IsFiniteSet(T) /\ IsFiniteSet(S \ T)
    BY FS_Subset
<1>4. SumOver(T, g) = SumOver(T, f) /\ SumOver(T, f) \in Int
    BY <1>3, SumSame, SumInt
<1>5. SumOver(S \ T, g) = 0
    BY <1>3, SumZero
<1> QED
    BY <1>2, <1>4, <1>5

\* The same number, as often as the set has members.
LEMMA SumConstant ==
    ASSUME NEW S, IsFiniteSet(S), NEW c \in Int, NEW f, \A x \in S : f[x] = c
    PROVE  SumOver(S, f) = c * Cardinality(S)
<1>1. SumOver(S, f) <= c * Cardinality(S) /\ SumOver(S, f) \in Int
    <2>1. \A x \in S : f[x] \in Int /\ f[x] <= c
        OBVIOUS
    <2> QED
        BY <2>1, SumBound, SumInt
<1>2. PICK g : g = [x \in S |-> -c]
    OBVIOUS
<1>3. -c \in Int /\ -1 \in Int /\ (-1) * c = -c
    OBVIOUS
<1>4. SumOver(S, g) <= (-c) * Cardinality(S)
    BY <1>2, <1>3, SumBound
<1>5. SumOver(S, g) = (-1) * SumOver(S, f)
    <2>1. \A x \in S : f[x] \in Int /\ g[x] = (-1) * f[x]
        BY <1>2, <1>3
    <2> QED
        BY <1>3, <2>1, SumScale
<1>6. Cardinality(S) \in Nat
    BY FS_CardinalityType
<1>7. PICK n \in Int : n = c * Cardinality(S) /\ (-c) * Cardinality(S) = -n
    BY <1>6
<1> QED
    BY <1>1, <1>4, <1>5, <1>7

(***************************************************************************)
(* What the members of a list weigh together.                              *)
(***************************************************************************)

Weight(s, w) == SumOver(DOMAIN s, [i \in DOMAIN s |-> w[s[i]]])

LEMMA WeightNat ==
    ASSUME NEW S, NEW w \in [S -> Nat], NEW s \in Seq(S)
    PROVE  Weight(s, w) \in Nat
<1>1. PICK f : f = [i \in DOMAIN s |-> w[s[i]]]
    OBVIOUS
<1>2. DOMAIN s = 1 .. Len(s) /\ Len(s) \in Nat
    OBVIOUS
<1>3. IsFiniteSet(DOMAIN s)
    BY <1>2, FS_Interval
<1>4. \A i \in DOMAIN s : f[i] \in Nat
    BY <1>1
<1>5. SumOver(DOMAIN s, f) \in Nat
    BY <1>3, <1>4, SumNat
<1> QED
    BY <1>1, <1>5 DEF Weight

LEMMA WeightEmpty == ASSUME NEW w PROVE Weight(<<>>, w) = 0
<1>1. DOMAIN <<>> = {}
    OBVIOUS
<1> QED
    BY <1>1, SumEmpty DEF Weight

LEMMA WeightAppend ==
    ASSUME NEW S, NEW w \in [S -> Nat], NEW s \in Seq(S), NEW x \in S
    PROVE  Weight(Append(s, x), w) = Weight(s, w) + w[x]
<1>1. PICK t \in Seq(S) : t = Append(s, x)
    BY AppendProperties
<1>2. PICK n \in Nat : n = Len(s)
    OBVIOUS
<1>3. /\ DOMAIN s = 1 .. n /\ DOMAIN t = (1 .. n) \cup {n + 1} /\ n + 1 \notin 1 .. n
      /\ t[n + 1] = x /\ \A i \in 1 .. n : t[i] = s[i]
    BY <1>1, <1>2
<1>4. PICK f, g : /\ f = [i \in DOMAIN s |-> w[s[i]]]
                  /\ g = [i \in DOMAIN t |-> w[t[i]]]
    OBVIOUS
<1>5. IsFiniteSet(1 .. n)
    BY FS_Interval
<1>6. /\ \A i \in 1 .. n : f[i] \in Nat /\ g[i] = f[i]
      /\ g[n + 1] = w[x] /\ w[x] \in Nat
    BY <1>3, <1>4
<1>7. SumOver((1 .. n) \cup {n + 1}, g) = g[n + 1] + SumOver(1 .. n, g)
    <2>1. \A i \in (1 .. n) \cup {n + 1} : g[i] \in Int
        BY <1>6
    <2> QED
        BY <1>3, <1>5, <2>1, SumAdd
<1>8. SumOver(1 .. n, g) = SumOver(1 .. n, f) /\ SumOver(1 .. n, f) \in Int
    <2>1. \A i \in 1 .. n : f[i] \in Int /\ g[i] = f[i]
        BY <1>6
    <2> QED
        BY <1>5, <2>1, SumSame, SumInt
<1>9. Weight(s, w) = SumOver(1 .. n, f) /\ Weight(t, w) = SumOver((1 .. n) \cup {n + 1}, g)
    BY <1>3, <1>4 DEF Weight
<1> QED
    BY <1>1, <1>6, <1>7, <1>8, <1>9

LEMMA WeightConcat ==
    ASSUME NEW S, NEW w \in [S -> Nat], NEW s \in Seq(S), NEW t \in Seq(S)
    PROVE  Weight(s \o t, w) = Weight(s, w) + Weight(t, w)
<1> DEFINE Good(r) == Weight(s \o r, w) = Weight(s, w) + Weight(r, w)
           P == {k \in Nat : \A r \in Seq(S) : Len(r) = k => Good(r)}
<1>1. 0 \in P
    <2> SUFFICES ASSUME NEW r \in Seq(S), Len(r) = 0 PROVE Good(r)
        OBVIOUS
    <2>1. r = <<>>
        BY EmptySeq
    <2>2. s \o r = s
        BY <2>1, ConcatEmptySeq
    <2>3. Weight(s, w) \in Nat
        BY WeightNat
    <2> QED
        BY <2>1, <2>2, <2>3, WeightEmpty
<1>2. ASSUME NEW k \in Nat, k \in P PROVE k + 1 \in P
    <2> SUFFICES ASSUME NEW r \in Seq(S), Len(r) = k + 1 PROVE Good(r)
        OBVIOUS
    <2>1. PICK q \in Seq(S), x \in S : r = Append(q, x) /\ Len(q) = k
        <3>1. r # <<>>
            BY EmptySeq
        <3>2. PICK q \in Seq(S), x \in S : r = Append(q, x)
            BY <3>1, SequenceEmptyOrAppend
        <3>3. PICK m \in Nat : m = Len(q) /\ k + 1 = m + 1
            BY <3>2, AppendProperties
        <3>4. Len(q) = k
            BY <3>3
        <3> QED
            BY <3>2, <3>4
    <2>2. Good(q)
        BY <1>2, <2>1
    <2>3. PICK p \in Seq(S) : p = s \o q
        BY ConcatProperties
    <2>4. s \o r = Append(p, x)
        <3>1. r = q \o <<x>> /\ p \in Seq(S) /\ <<x>> \in Seq(S)
            BY <2>1, AppendIsConcat
        <3>2. s \o (q \o <<x>>) = (s \o q) \o <<x>>
            BY <3>1, ConcatAssociative
        <3> QED
            BY <2>3, <3>1, <3>2, AppendIsConcat
    <2>5. Weight(r, w) = Weight(q, w) + w[x] /\ Weight(Append(p, x), w) = Weight(p, w) + w[x]
        BY <2>1, WeightAppend
    <2>6. Weight(q, w) \in Nat /\ Weight(s, w) \in Nat /\ w[x] \in Nat
        BY WeightNat
    <2> QED
        BY <2>2, <2>3, <2>4, <2>5, <2>6
<1>3. \A k \in Nat : k \in P
    <2> HIDE DEF P
    <2> QED
        BY <1>1, <1>2, AllNaturals
<1>4. Len(t) \in Nat
    OBVIOUS
<1> QED
    BY <1>3, <1>4

\* The members all weigh the same.
LEMMA WeightEven ==
    ASSUME NEW S, NEW w \in [S -> Nat], NEW s \in Seq(S), NEW c \in Nat,
           \A i \in DOMAIN s : w[s[i]] = c
    PROVE  Weight(s, w) = c * Len(s)
<1>1. PICK f : f = [i \in DOMAIN s |-> w[s[i]]]
    OBVIOUS
<1>2. DOMAIN s = 1 .. Len(s) /\ Len(s) \in Nat
    OBVIOUS
<1>3. PICK n \in Nat : n = Len(s)
    BY <1>2
<1>4. IsFiniteSet(1 .. n) /\ Cardinality(1 .. n) = n
    <2>1. IsFiniteSet(1 .. n) /\ Cardinality(1 .. n) = IF 1 > n THEN 0 ELSE n - 1 + 1
        BY FS_Interval
    <2> QED
        BY <2>1
<1>5. SumOver(1 .. n, f) = c * Cardinality(1 .. n)
    <2>1. c \in Int /\ \A i \in 1 .. n : f[i] = c
        BY <1>1, <1>2, <1>3
    <2> QED
        BY <1>4, <2>1, SumConstant
<1> QED
    BY <1>1, <1>2, <1>3, <1>4, <1>5 DEF Weight

\* What lists weigh one after the other.
LEMMA WeightFlatten ==
    ASSUME NEW S, NEW w \in [S -> Nat], NEW seqs \in Seq(Seq(S))
    PROVE  Weight(FlattenSeq(seqs), w)
             = SumOver(DOMAIN seqs, [i \in DOMAIN seqs |-> Weight(seqs[i], w)])
<1> DEFINE n == Len(seqs)
           g == CHOOSE x : Flattening(seqs, n, x)
           f == [i \in DOMAIN seqs |-> Weight(seqs[i], w)]
<1>1. n \in Nat /\ DOMAIN seqs = 1 .. n /\ \A i \in 1 .. n : seqs[i] \in Seq(S)
    OBVIOUS
<1>2. FlattenSeq(seqs) = IF n = 0 THEN seqs ELSE g[n]
    BY DEF FlattenSeq, Flattening
<1>3. Flattening(seqs, n, g)
    BY <1>1, FlatteningExists
<1>4. \A i \in 1 .. n : f[i] = Weight(seqs[i], w) /\ f[i] \in Nat
    BY <1>1, WeightNat
<1> HIDE DEF g, n, f
<1>5. \A i \in 1 .. n : g[i] = IF i = 1 THEN seqs[i] ELSE g[i - 1] \o seqs[i]
    BY <1>3 DEF Flattening
<1>6. \A i \in 1 .. n : g[i] \in Seq(S) /\ Weight(g[i], w) = SumOver(1 .. i, f)
    <2> DEFINE B == {i \in 1 .. n : ~(g[i] \in Seq(S) /\ Weight(g[i], w) = SumOver(1 .. i, f))}
    <2> SUFFICES ASSUME B # {} PROVE FALSE
        OBVIOUS
    <2>1. PICK i \in B : \A k \in B : i <= k
        <3>1. B \in SUBSET Nat
            OBVIOUS
        <3> HIDE DEF B
        <3> QED
            BY <3>1, LeastNatural
    <2>2. i \in 1 .. n /\ i \in Nat /\ ~(g[i] \in Seq(S) /\ Weight(g[i], w) = SumOver(1 .. i, f))
        BY <2>1
    <2>3. PICK j \in Nat : i = j + 1 /\ j = i - 1
        BY <2>2
    <2>4. SumOver(1 .. i, f) = f[i] + SumOver(1 .. j, f) /\ SumOver(1 .. j, f) \in Nat
        <3>1. IsFiniteSet(1 .. j) /\ i \notin 1 .. j /\ 1 .. i = (1 .. j) \cup {i}
            <4>1. IsFiniteSet(1 .. j)
                BY FS_Interval
            <4>2. j + 1 \notin 1 .. j /\ 1 .. (j + 1) = (1 .. j) \cup {j + 1}
                OBVIOUS
            <4> QED
                BY <2>3, <4>1, <4>2
        <3>2. /\ \A x \in (1 .. j) \cup {i} : f[x] \in Int
              /\ \A x \in 1 .. j : f[x] \in Nat
            BY <1>1, <1>4, <2>2, <2>3
        <3> QED
            BY <3>1, <3>2, SumAdd, SumNat
    <2>5. CASE i = 1
        <3>1. 1 .. j = {}
            BY <2>3, <2>5
        <3>2. SumOver(1 .. j, f) = 0
            BY <3>1, SumEmpty
        <3>3. g[i] = seqs[i]
            BY <1>5, <2>2, <2>5
        <3> QED
            BY <1>1, <1>4, <2>2, <2>4, <3>2, <3>3
    <2>6. CASE i # 1
        <3>1. j \in 1 .. n /\ j \notin B
            BY <1>1, <2>1, <2>2, <2>3, <2>6
        <3>2. g[j] \in Seq(S) /\ Weight(g[j], w) = SumOver(1 .. j, f)
            BY <3>1
        <3>3. g[i] = g[j] \o seqs[i] /\ seqs[i] \in Seq(S)
            BY <1>1, <1>5, <2>2, <2>3, <2>6
        <3> HIDE DEF B
        <3>4. g[j] \o seqs[i] \in Seq(S) /\ Weight(g[j] \o seqs[i], w) = Weight(g[j], w) + Weight(seqs[i], w)
            BY <3>2, <3>3, WeightConcat, ConcatProperties
        <3> QED
            BY <1>4, <2>2, <2>4, <3>2, <3>3, <3>4
    <2> QED
        BY <2>5, <2>6
<1>7. CASE n = 0
    <2>1. seqs = <<>> /\ DOMAIN seqs = {}
        BY <1>1, <1>7 DEF n
    <2>2. SumOver(DOMAIN seqs, f) = 0 /\ Weight(seqs, w) = 0
        BY <2>1, SumEmpty, WeightEmpty
    <2> QED
        BY <1>2, <1>7, <2>2 DEF f
<1>8. CASE n # 0
    <2>1. n \in 1 .. n
        BY <1>1, <1>8
    <2> QED
        BY <1>1, <1>2, <1>6, <1>8, <2>1 DEF f
<1> QED
    BY <1>7, <1>8
=============================================================================
