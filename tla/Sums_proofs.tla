------------------------------ MODULE Sums_proofs ------------------------------
(* The sums of MapThenSumSet and SumFunction over any finite set.  Both are    *)
(* recursive functions on its subsets, that take any element first; what they  *)
(* satisfy is proved by taking a smallest number for which it fails.           *)
EXTENDS Integers, FiniteSets, FiniteSetsExt, TLAPS, FiniteSetTheorems, WellFoundedInduction

\* Any numbers have a smallest one.
LEMMA Smallest ==
  ASSUME NEW T \in SUBSET Nat, T # {}
  PROVE  \E n \in T : \A k \in Nat : k < n => k \notin T
<1>1. PICK n \in T : \A k \in T : ~ (<<k, n>> \in OpToRel(<, Nat))
  BY WFMin, NatLessThanWellFounded
<1>2. \A k \in Nat : k < n => k \notin T
  BY <1>1 DEF OpToRel
<1> QED
  BY <1>2

-----------------------------------------------------------------------------
\* The element that a sum takes first, and what is left then.
TakenFirst(s) == CHOOSE x \in s : TRUE
Others(s)  == s \ {TakenFirst(s)}

\* h gives each subset in D its sum of m.
Sums(h, m, D) == h = [s \in D |-> IF s = {} THEN 0 ELSE m[TakenFirst(s)] + h[Others(s)]]

\* The sum of m over S.
Total(m, S) == (CHOOSE h : Sums(h, m, SUBSET S))[S]

\* It is what MapThenSumSet computes, which the invariant on listcount uses,
LEMMA TotalIsMapThenSumSet ==
  ASSUME NEW S, NEW m
  PROVE  MapThenSumSet(LAMBDA q : m[q], S) = Total(m, S)
BY DEF MapThenSumSet, MapThenFoldSet, Total, Sums, TakenFirst, Others

\* and SumFunction, which adds up the entries of a directory block.
LEMMA TotalIsSumFunction ==
  ASSUME NEW m
  PROVE  SumFunction(m) = Total(m, DOMAIN m)
BY DEF SumFunction, SumFunctionOnSet, FoldFunctionOnSet, MapThenFoldSet, Total, Sums, TakenFirst, Others

\* The subsets with at most n elements.
UpTo(n, S) == {s \in SUBSET S : Cardinality(s) <= n}

\* What taking one element leaves of a finite set.
LEMMA SubsetFacts ==
  ASSUME NEW S, IsFiniteSet(S), NEW s \in SUBSET S
  PROVE  /\ IsFiniteSet(s) /\ Cardinality(s) \in Nat
         /\ Cardinality(s) <= Cardinality(S) /\ Cardinality(S) \in Nat
         /\ s # {} => /\ TakenFirst(s) \in s /\ Others(s) \in SUBSET S
                      /\ Cardinality(Others(s)) = Cardinality(s) - 1
         /\ s = {} <=> Cardinality(s) = 0
<1>1. IsFiniteSet(s) /\ Cardinality(s) <= Cardinality(S)
  BY FS_Subset
<1>2. Cardinality(s) \in Nat /\ Cardinality(S) \in Nat
  BY <1>1, FS_CardinalityType
<1>3. s # {} => TakenFirst(s) \in s
  BY DEF TakenFirst
<1>4. s # {} => Others(s) \in SUBSET S /\ Cardinality(Others(s)) = Cardinality(s) - 1
  BY <1>1, <1>3, FS_RemoveElement DEF Others
<1>5. s = {} <=> Cardinality(s) = 0
  BY <1>1, FS_EmptySet
<1> QED
  BY <1>1, <1>2, <1>3, <1>4, <1>5

\* There is such a function on the subsets with at most n elements, for every n.
LEMMA SumsUpTo ==
  ASSUME NEW S, IsFiniteSet(S), NEW m \in [S -> Int], NEW n \in Nat
  PROVE  \E h \in [UpTo(n, S) -> Int] : Sums(h, m, UpTo(n, S))
<1> DEFINE Bad == {k \in Nat : ~ \E h \in [UpTo(k, S) -> Int] : Sums(h, m, UpTo(k, S))}
<1> SUFFICES ASSUME Bad # {} PROVE FALSE
  OBVIOUS
<1>1. PICK k \in Bad : \A j \in Nat : j < k => j \notin Bad
  BY Smallest
<1>2. CASE k = 0
  <2> DEFINE h == [s \in UpTo(0, S) |-> 0]
  <2>1. \A s \in UpTo(0, S) : s = {}
    BY SubsetFacts DEF UpTo
  <2>2. h \in [UpTo(0, S) -> Int]
    OBVIOUS
  <2>3. Sums(h, m, UpTo(0, S))
    BY <2>1 DEF Sums
  <2> QED
    BY <1>2, <2>2, <2>3
<1>3. CASE k # 0
  <2>1. k - 1 \in Nat /\ k - 1 < k
    BY <1>3
  <2>2. PICK h \in [UpTo(k - 1, S) -> Int] : Sums(h, m, UpTo(k - 1, S))
    BY <1>1, <2>1
  <2> DEFINE g == [s \in UpTo(k, S) |-> IF s = {} THEN 0 ELSE m[TakenFirst(s)] + h[Others(s)]]
  <2>3. ASSUME NEW s \in UpTo(k, S), s # {}
        PROVE  Others(s) \in UpTo(k - 1, S) /\ Others(s) \in UpTo(k, S) /\ m[TakenFirst(s)] \in Int
    BY <2>3, SubsetFacts DEF UpTo
  <2>4. g \in [UpTo(k, S) -> Int]
    BY <2>3
  <2>5. ASSUME NEW s \in UpTo(k - 1, S) PROVE s \in UpTo(k, S) /\ g[s] = h[s]
    <3>1. s \in UpTo(k, S)
      BY SubsetFacts DEF UpTo
    <3>2. h[s] = IF s = {} THEN 0 ELSE m[TakenFirst(s)] + h[Others(s)]
      BY <2>2 DEF Sums
    <3> QED
      BY <3>1, <3>2
  <2>6. \A s \in UpTo(k, S) : g[s] = IF s = {} THEN 0 ELSE m[TakenFirst(s)] + g[Others(s)]
    BY <2>3, <2>5
  <2>7. g = [s \in UpTo(k, S) |-> g[s]]
    OBVIOUS
  <2> HIDE DEF g
  <2>8. Sums(g, m, UpTo(k, S))
    BY <2>6, <2>7 DEF Sums
  <2> QED
    BY <2>4, <2>8
<1> QED
  BY <1>2, <1>3

\* So there is one on all subsets.
LEMMA SumsExist ==
  ASSUME NEW S, IsFiniteSet(S), NEW m \in [S -> Int]
  PROVE  \E h : Sums(h, m, SUBSET S)
<1> DEFINE n == Cardinality(S)
<1>1. n \in Nat /\ UpTo(n, S) = SUBSET S
  BY SubsetFacts DEF UpTo
<1>2. \E h \in [UpTo(n, S) -> Int] : Sums(h, m, UpTo(n, S))
  BY <1>1, SumsUpTo
<1> QED
  BY <1>1, <1>2
\* The sums over the subsets of S that the recursion passes through.
Part(m, S, s) == (CHOOSE h : Sums(h, m, SUBSET S))[s]

\* The last of them is the sum itself.
LEMMA PartTotal ==
  ASSUME NEW S, NEW m
  PROVE  Total(m, S) = Part(m, S, S)
BY DEF Total, Part

\* Each is the number taken first and the sum of the others,
LEMMA PartStep ==
  ASSUME NEW S, IsFiniteSet(S), NEW m \in [S -> Int], NEW s \in SUBSET S, s # {}
  PROVE  Part(m, S, s) = m[TakenFirst(s)] + Part(m, S, Others(s))
<1> DEFINE h == CHOOSE g : Sums(g, m, SUBSET S)
<1>1. Sums(h, m, SUBSET S)
  BY SumsExist
<1>2. \A t : Part(m, S, t) = h[t]
  BY DEF Part
<1> HIDE DEF h
<1>3. h[s] = m[TakenFirst(s)] + h[Others(s)]
  BY <1>1 DEF Sums
<1> QED
  BY <1>2, <1>3

\* or 0 when there is none.
LEMMA PartOfEmpty ==
  ASSUME NEW S, IsFiniteSet(S), NEW m \in [S -> Int]
  PROVE  Part(m, S, {}) = 0
<1> DEFINE h == CHOOSE g : Sums(g, m, SUBSET S)
<1>1. Sums(h, m, SUBSET S)
  BY SumsExist
<1>2. \A t : Part(m, S, t) = h[t]
  BY DEF Part
<1> HIDE DEF h
<1>3. h[{}] = 0
  BY <1>1 DEF Sums
<1> QED
  BY <1>2, <1>3

\* They are numbers.
LEMMA PartIsInt ==
  ASSUME NEW S, IsFiniteSet(S), NEW m \in [S -> Int]
  PROVE  \A s \in SUBSET S : Part(m, S, s) \in Int
<1> DEFINE Bad == {Cardinality(s) : s \in {t \in SUBSET S : Part(m, S, t) \notin Int}}
<1> SUFFICES ASSUME Bad # {} PROVE FALSE
  OBVIOUS
<1>1. Bad \in SUBSET Nat
  BY SubsetFacts
<1>2. PICK k \in Bad : \A j \in Nat : j < k => j \notin Bad
  BY <1>1, Smallest
<1>3. PICK s \in SUBSET S : k = Cardinality(s) /\ Part(m, S, s) \notin Int
  OBVIOUS
<1>4. s # {}
  <2>1. Part(m, S, {}) = 0
    BY PartOfEmpty
  <2> QED
    BY <1>3, <2>1
<1>5. Others(s) \in SUBSET S /\ Cardinality(Others(s)) \in Nat /\ Cardinality(Others(s)) < k /\ TakenFirst(s) \in S
  BY <1>3, <1>4, SubsetFacts
<1>6. Part(m, S, Others(s)) \in Int
  BY <1>2, <1>5
<1>7. m[TakenFirst(s)] \in Int
  BY <1>5
<1>8. Part(m, S, s) = m[TakenFirst(s)] + Part(m, S, Others(s))
  BY <1>3, <1>4, PartStep
<1>9. Part(m, S, s) \in Int
  BY <1>6, <1>7, <1>8
<1> QED
  BY <1>3, <1>9

\* Any element may be taken first.
LEMMA PartTakesAny ==
  ASSUME NEW S, IsFiniteSet(S), NEW m \in [S -> Int]
  PROVE  \A s \in SUBSET S : \A x \in s : Part(m, S, s) = m[x] + Part(m, S, s \ {x})
<1> DEFINE Fails(s) == \E x \in s : Part(m, S, s) # m[x] + Part(m, S, s \ {x})
           Bad == {Cardinality(s) : s \in {t \in SUBSET S : Fails(t)}}
<1> SUFFICES ASSUME Bad # {} PROVE FALSE
  OBVIOUS
<1>1. Bad \in SUBSET Nat
  BY SubsetFacts
<1>2. PICK k \in Bad : \A j \in Nat : j < k => j \notin Bad
  BY <1>1, Smallest
<1>3. PICK s \in SUBSET S : k = Cardinality(s) /\ Fails(s)
  OBVIOUS
<1>4. PICK x \in s : Part(m, S, s) # m[x] + Part(m, S, s \ {x})
  BY <1>3
<1> DEFINE c == TakenFirst(s)
<1>5. s # {} /\ c \in s /\ Others(s) = s \ {c} /\ Others(s) \in SUBSET S
  BY <1>4, SubsetFacts DEF Others
<1>9. Part(m, S, s) = m[c] + Part(m, S, s \ {c})
  <2>1. Part(m, S, s) = m[TakenFirst(s)] + Part(m, S, Others(s))
    BY <1>5, PartStep
  <2> QED
    BY <2>1 DEF Others
<1> HIDE DEF c, Fails
<1>6. IsFiniteSet(s) /\ Cardinality(s) \in Nat
  BY SubsetFacts
<1>7. \A y \in s : s \ {y} \in SUBSET S /\ Cardinality(s \ {y}) = k - 1 /\ k - 1 \in Nat /\ k - 1 < k
  <2> TAKE y \in s
  <2>1. Cardinality(s \ {y}) = k - 1
    BY <1>3, <1>6, FS_RemoveElement
  <2>2. Cardinality(s \ {y}) \in Nat
    BY SubsetFacts
  <2> QED
    BY <1>3, <1>6, <2>1, <2>2
<1>8. \A y \in s : ~ Fails(s \ {y})
  BY <1>2, <1>7
<1>10. CASE x = c
  BY <1>4, <1>9, <1>10
<1>11. CASE x # c
  <2> DEFINE t == s \ {c, x}
  <2>1. x \in s \ {c} /\ c \in s \ {x} /\ (s \ {c}) \ {x} = t /\ (s \ {x}) \ {c} = t
    BY <1>5, <1>11
  <2> HIDE DEF t
  <2>2. Part(m, S, s \ {c}) = m[x] + Part(m, S, t)
    BY <1>5, <1>8, <2>1 DEF Fails
  <2>3. Part(m, S, s \ {x}) = m[c] + Part(m, S, t)
    BY <1>8, <2>1 DEF Fails
  <2>4. t \in SUBSET S /\ Part(m, S, t) \in Int /\ m[x] \in Int /\ m[c] \in Int
    BY <1>5, PartIsInt DEF t
  <2> QED
    BY <1>4, <1>9, <2>2, <2>3, <2>4
<1> QED
  BY <1>10, <1>11

\* Equal numbers have equal sums.
LEMMA PartSame ==
  ASSUME NEW S, IsFiniteSet(S), NEW m \in [S -> Int], NEW n \in [S -> Int]
  PROVE  \A s \in SUBSET S : (\A x \in s : m[x] = n[x]) => Part(m, S, s) = Part(n, S, s)
<1> DEFINE Fails(s) == (\A x \in s : m[x] = n[x]) /\ Part(m, S, s) # Part(n, S, s)
           Bad == {Cardinality(s) : s \in {t \in SUBSET S : Fails(t)}}
<1> SUFFICES ASSUME Bad # {} PROVE FALSE
  OBVIOUS
<1>1. Bad \in SUBSET Nat
  BY SubsetFacts
<1>2. PICK k \in Bad : \A j \in Nat : j < k => j \notin Bad
  BY <1>1, Smallest
<1>3. PICK s \in SUBSET S : k = Cardinality(s) /\ Fails(s)
  OBVIOUS
<1>4. s # {}
  <2>1. Part(m, S, {}) = 0 /\ Part(n, S, {}) = 0
    BY PartOfEmpty
  <2> QED
    BY <1>3, <2>1
<1>5. /\ Others(s) \in SUBSET S /\ Cardinality(Others(s)) \in Nat /\ Cardinality(Others(s)) < k
      /\ TakenFirst(s) \in s /\ Others(s) \subseteq s
  BY <1>3, <1>4, SubsetFacts DEF Others
<1>6. ~ Fails(Others(s))
  BY <1>2, <1>5
<1>7. Part(m, S, Others(s)) = Part(n, S, Others(s)) /\ m[TakenFirst(s)] = n[TakenFirst(s)]
  BY <1>3, <1>5, <1>6
<1>8. /\ Part(m, S, s) = m[TakenFirst(s)] + Part(m, S, Others(s))
      /\ Part(n, S, s) = n[TakenFirst(s)] + Part(n, S, Others(s))
  BY <1>3, <1>4, PartStep
<1> QED
  BY <1>3, <1>7, <1>8

-----------------------------------------------------------------------------
(* What is used of sums elsewhere. *)

\* A sum is a number,
LEMMA TotalIsInt ==
  ASSUME NEW S, IsFiniteSet(S), NEW m \in [S -> Int]
  PROVE  Total(m, S) \in Int
BY PartIsInt, PartTotal

\* and nothing adds up to 0.
LEMMA TotalOfEmpty ==
  ASSUME NEW m \in [{} -> Int]
  PROVE  Total(m, {}) = 0
BY FS_EmptySet, PartTotal, PartOfEmpty, m \in [{} -> Int]

\* A number that changes changes the sum by as much.
LEMMA TotalChanges ==
  ASSUME NEW S, IsFiniteSet(S), NEW m \in [S -> Int], NEW n \in [S -> Int], NEW q \in S,
         \A x \in S \ {q} : n[x] = m[x]
  PROVE  Total(n, S) = Total(m, S) - m[q] + n[q]
<1>1. /\ Part(m, S, S) = m[q] + Part(m, S, S \ {q})
      /\ Part(n, S, S) = n[q] + Part(n, S, S \ {q})
  BY PartTakesAny
<1>2. Part(m, S, S \ {q}) = Part(n, S, S \ {q})
  BY PartSame
<1>3. Part(m, S, S \ {q}) \in Int /\ m[q] \in Int /\ n[q] \in Int
  BY PartIsInt
<1> QED
  BY <1>1, <1>2, <1>3, PartTotal

\* Nothing negative adds up to nothing negative,
LEMMA PartBounds ==
  ASSUME NEW S, IsFiniteSet(S), NEW m \in [S -> Nat]
  PROVE  \A s \in SUBSET S : Part(m, S, s) >= 0
<1> DEFINE Bad == {Cardinality(s) : s \in {t \in SUBSET S : ~ (Part(m, S, t) >= 0)}}
<1> SUFFICES ASSUME Bad # {} PROVE FALSE
  OBVIOUS
<1>1. Bad \in SUBSET Nat
  BY SubsetFacts
<1>2. PICK k \in Bad : \A j \in Nat : j < k => j \notin Bad
  BY <1>1, Smallest
<1>3. PICK s \in SUBSET S : k = Cardinality(s) /\ ~ (Part(m, S, s) >= 0)
  OBVIOUS
<1>4. m \in [S -> Int]
  OBVIOUS
<1>5. s # {}
  <2>1. Part(m, S, {}) = 0
    BY <1>4, PartOfEmpty
  <2> QED
    BY <1>3, <2>1
<1>6. Others(s) \in SUBSET S /\ Cardinality(Others(s)) \in Nat /\ Cardinality(Others(s)) < k /\ TakenFirst(s) \in S
  BY <1>3, <1>5, SubsetFacts
<1>7. Part(m, S, Others(s)) >= 0 /\ Part(m, S, Others(s)) \in Int /\ m[TakenFirst(s)] \in Nat
  BY <1>2, <1>4, <1>6, PartIsInt
<1>8. Part(m, S, s) = m[TakenFirst(s)] + Part(m, S, Others(s))
  BY <1>4, <1>5, PartStep
<1> QED
  BY <1>3, <1>7, <1>8

\* and to no less than each of the numbers.
LEMMA TotalBounds ==
  ASSUME NEW S, IsFiniteSet(S), NEW m \in [S -> Nat]
  PROVE  Total(m, S) >= 0 /\ \A q \in S : Total(m, S) >= m[q]
<1>1. m \in [S -> Int]
  OBVIOUS
<1>2. Part(m, S, S) >= 0
  BY PartBounds
<1>3. ASSUME NEW q \in S PROVE Part(m, S, S) >= m[q]
  <2>1. Part(m, S, S) = m[q] + Part(m, S, S \ {q})
    BY <1>1, PartTakesAny
  <2>2. Part(m, S, S \ {q}) >= 0 /\ Part(m, S, S \ {q}) \in Int
    BY <1>1, PartBounds, PartIsInt
  <2> QED
    BY <2>1, <2>2
<1> QED
  BY <1>2, <1>3, PartTotal

\* Zeros add up to 0.
LEMMA TotalOfZeros ==
  ASSUME NEW S, IsFiniteSet(S)
  PROVE  Total([q \in S |-> 0], S) = 0
<1> DEFINE m == [q \in S |-> 0]
           Bad == {Cardinality(s) : s \in {t \in SUBSET S : Part(m, S, t) # 0}}
<1>1. m \in [S -> Int] /\ \A q \in S : m[q] = 0
  OBVIOUS
<1> HIDE DEF m
<1> SUFFICES ASSUME Bad # {} PROVE FALSE
  BY PartTotal DEF m
<1>2. Bad \in SUBSET Nat
  BY SubsetFacts
<1>3. PICK k \in Bad : \A j \in Nat : j < k => j \notin Bad
  BY <1>2, Smallest
<1>4. PICK s \in SUBSET S : k = Cardinality(s) /\ Part(m, S, s) # 0
  OBVIOUS
<1>5. s # {}
  <2>1. Part(m, S, {}) = 0
    BY <1>1, PartOfEmpty
  <2> QED
    BY <1>4, <2>1
<1>6. Others(s) \in SUBSET S /\ Cardinality(Others(s)) \in Nat /\ Cardinality(Others(s)) < k /\ TakenFirst(s) \in S
  BY <1>4, <1>5, SubsetFacts
<1>7. Part(m, S, Others(s)) = 0
  BY <1>3, <1>6
<1>8. Part(m, S, s) = m[TakenFirst(s)] + Part(m, S, Others(s)) /\ m[TakenFirst(s)] = 0
  BY <1>1, <1>5, <1>6, PartStep DEF m
<1> QED
  BY <1>4, <1>7, <1>8

\* A part of a set has the same sum in the set and alone,
LEMMA PartOfLess ==
  ASSUME NEW S, IsFiniteSet(S), NEW m \in [S -> Int], NEW T \in SUBSET S, NEW n \in [T -> Int],
         \A x \in T : m[x] = n[x]
  PROVE  Part(m, S, T) = Total(n, T)
<1> DEFINE Fails(s) == Part(m, S, s) # Part(n, T, s)
           Bad == {Cardinality(s) : s \in {t \in SUBSET T : Fails(t)}}
<1>0. IsFiniteSet(T)
  BY FS_Subset
<1>a. \A s \in SUBSET T : ~ Fails(s)
  <2> SUFFICES ASSUME Bad # {} PROVE FALSE
    OBVIOUS
  <2>1. Bad \in SUBSET Nat
    BY <1>0, SubsetFacts
  <2>2. PICK k \in Bad : \A j \in Nat : j < k => j \notin Bad
    BY <2>1, Smallest
  <2>3. PICK s \in SUBSET T : k = Cardinality(s) /\ Fails(s)
    OBVIOUS
  <2>4. s # {}
    <3>1. Part(m, S, {}) = 0 /\ Part(n, T, {}) = 0
      BY <1>0, PartOfEmpty
    <3> QED
      BY <2>3, <3>1
  <2>5. /\ Others(s) \in SUBSET T /\ Cardinality(Others(s)) \in Nat /\ Cardinality(Others(s)) < k
        /\ TakenFirst(s) \in s
    BY <1>0, <2>3, <2>4, SubsetFacts
  <2>6. ~ Fails(Others(s))
    BY <2>2, <2>5
  <2>7. /\ Part(m, S, s) = m[TakenFirst(s)] + Part(m, S, Others(s))
        /\ Part(n, T, s) = n[TakenFirst(s)] + Part(n, T, Others(s))
    <3>1. s \in SUBSET S /\ s \in SUBSET T
      BY <2>3
    <3> QED
      BY <1>0, <2>4, <3>1, PartStep
  <2> QED
    BY <2>3, <2>5, <2>6, <2>7
<1> QED
  BY <1>a, PartTotal

\* so that a number more adds itself,
LEMMA TotalGrows ==
  ASSUME NEW S, IsFiniteSet(S), NEW x, x \notin S, NEW n \in [S -> Int], NEW m \in [S \cup {x} -> Int],
         \A y \in S : m[y] = n[y]
  PROVE  Total(m, S \cup {x}) = Total(n, S) + m[x]
<1> DEFINE T == S \cup {x}
<1>1. IsFiniteSet(T)
  BY FS_AddElement
<1>2. m \in [T -> Int] /\ x \in T /\ T \in SUBSET T /\ T \ {x} = S /\ S \in SUBSET T
  OBVIOUS
<1> HIDE DEF T
<1>3. Part(m, T, T) = m[x] + Part(m, T, T \ {x})
  BY <1>1, <1>2, PartTakesAny
<1>4. Part(m, T, S) = Total(n, S)
  BY <1>1, <1>2, PartOfLess
<1>5. Total(m, T) = m[x] + Total(n, S)
  BY <1>2, <1>3, <1>4, PartTotal
<1>6. Total(n, S) \in Int /\ m[x] \in Int
  BY <1>2, TotalIsInt
<1> QED
  BY <1>5, <1>6 DEF T

\* and that numbers of 8 and more add up to 8 for each.
LEMMA TotalAtLeast ==
  ASSUME NEW S, IsFiniteSet(S), NEW m \in [S -> Int], \A x \in S : m[x] >= 8
  PROVE  Total(m, S) >= 8 * Cardinality(S)
<1> DEFINE Fails(s) == ~ (Part(m, S, s) >= 8 * Cardinality(s))
           Bad == {Cardinality(s) : s \in {t \in SUBSET S : Fails(t)}}
<1>1. \A s \in SUBSET S : ~ Fails(s)
  <2> SUFFICES ASSUME Bad # {} PROVE FALSE
    OBVIOUS
  <2>1. Bad \in SUBSET Nat
    BY SubsetFacts
  <2>2. PICK k \in Bad : \A j \in Nat : j < k => j \notin Bad
    BY <2>1, Smallest
  <2>3. PICK s \in SUBSET S : k = Cardinality(s) /\ Fails(s)
    OBVIOUS
  <2>4. s # {}
    <3> SUFFICES ASSUME s = {} PROVE FALSE
      OBVIOUS
    <3>1. Part(m, S, s) = 0
      BY PartOfEmpty
    <3>2. Cardinality(s) = 0
      BY FS_EmptySet
    <3> QED
      BY <2>3, <3>1, <3>2
  <2>5. /\ Others(s) \in SUBSET S /\ Cardinality(Others(s)) \in Nat /\ Cardinality(Others(s)) = k - 1
        /\ TakenFirst(s) \in S /\ k \in Nat
    BY <2>3, <2>4, SubsetFacts
  <2>6. ~ Fails(Others(s))
    BY <2>2, <2>5
  <2>7. Part(m, S, s) = m[TakenFirst(s)] + Part(m, S, Others(s))
    BY <2>4, PartStep
  <2>8. Part(m, S, Others(s)) \in Int /\ m[TakenFirst(s)] \in Int /\ m[TakenFirst(s)] >= 8
    BY <2>5, PartIsInt
  <2> QED
    BY <2>3, <2>5, <2>6, <2>7, <2>8
<1> QED
  BY <1>1, PartTotal

\* A term split in two leaves the sum as it was.
LEMMA TotalSplitIn ==
  ASSUME NEW S, IsFiniteSet(S), NEW x, x \notin S, NEW y \in S,
         NEW m \in [S -> Int], NEW v \in [S \cup {x} -> Int],
         \A k \in S \ {y} : v[k] = m[k], v[y] + v[x] = m[y]
  PROVE  Total(v, S \cup {x}) = Total(m, S)
<1> DEFINE u == [k \in S |-> v[k]]
<1>1. u \in [S -> Int] /\ (\A k \in S : u[k] = v[k]) /\ v[x] \in Int /\ v[y] \in Int
  OBVIOUS
<1>2. (\A k \in S : v[k] = u[k]) /\ (\A k \in S \ {y} : u[k] = m[k])
  BY <1>1
<1> HIDE DEF u
<1>3. Total(v, S \cup {x}) = Total(u, S) + v[x]
  BY <1>1, <1>2, TotalGrows
<1>4. Total(u, S) = Total(m, S) - m[y] + u[y]
  BY <1>1, <1>2, TotalChanges
<1>5. Total(m, S) \in Int /\ m[y] \in Int /\ u[y] = v[y]
  BY <1>1, TotalIsInt
<1> QED
  BY <1>1, <1>3, <1>4, <1>5

\* In the first terms, the one after them being new.
LEMMA TotalSplit ==
  ASSUME NEW n \in Nat, n >= 1, NEW m \in [1 .. n -> Int], NEW v \in [1 .. n + 1 -> Int],
         \A k \in 1 .. n : k # n => v[k] = m[k], v[n] + v[n + 1] = m[n]
  PROVE  Total(v, 1 .. n + 1) = Total(m, 1 .. n)
<1>1. 1 .. n + 1 = (1 .. n) \cup {n + 1} /\ n + 1 \notin 1 .. n /\ n \in 1 .. n
  OBVIOUS
<1>2. IsFiniteSet(1 .. n)
  BY FS_Interval
<1>3. v \in [(1 .. n) \cup {n + 1} -> Int] /\ \A k \in (1 .. n) \ {n} : v[k] = m[k]
  BY <1>1
<1>4. Total(v, (1 .. n) \cup {n + 1}) = Total(m, 1 .. n)
  BY <1>1, <1>2, <1>3, TotalSplitIn, SMTT(30)
<1> QED
  BY <1>1, <1>4
================================================================================
