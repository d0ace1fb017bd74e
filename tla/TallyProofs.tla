---------------------------- MODULE TallyProofs ----------------------------
(***************************************************************************)
(* Sums over finite sets, for the theorems about what the restaurant       *)
(* counts: persons at tables, dishes on bills, dishes on the belt.  A sum  *)
(* is the number of members of a set, in which every addend stands for as  *)
(* many numbered places, so that what is known of finite sets says what    *)
(* becomes of a sum; the sums of the models, which are folds, are such     *)
(* numbers (FoldCounted, proved by minimality of a counterexample).        *)
(***************************************************************************)
EXTENDS FiniteSetsExt, FiniteSetTheorems, TLAPS

---------------------------------------------------------------------------
(* Places numbered from 1 for every member of a set, as the seats of a     *)
(* table or the persons of a group.                                        *)
Numbered(S, n) == UNION {{x} \X (1 .. n[x]) : x \in S}

LEMMA FirstNumbers ==
  ASSUME NEW k \in Nat
  PROVE  IsFiniteSet(1 .. k) /\ Cardinality(1 .. k) = k
<1>1. IsFiniteSet(1 .. k) /\ Cardinality(1 .. k) = IF 1 > k THEN 0 ELSE k - 1 + 1
  BY FS_Interval
<1>2. QED
  BY <1>1

LEMMA OnesPlaces ==
  ASSUME NEW x, NEW k \in Nat
  PROVE  IsFiniteSet({x} \X (1 .. k)) /\ Cardinality({x} \X (1 .. k)) = k
<1>1. IsFiniteSet({x}) /\ Cardinality({x}) = 1
  BY FS_Singleton
<1>2. IsFiniteSet(1 .. k) /\ Cardinality(1 .. k) = k
  BY FirstNumbers
<1>3. IsFiniteSet({x} \X (1 .. k)) /\ Cardinality({x} \X (1 .. k)) = Cardinality({x}) * Cardinality(1 .. k)
  BY <1>1, <1>2, FS_Product
<1>4. QED
  BY <1>1, <1>2, <1>3

LEMMA NumberedFinite ==
  ASSUME NEW S, IsFiniteSet(S), NEW n, \A x \in S : n[x] \in Nat
  PROVE  IsFiniteSet(Numbered(S, n)) /\ Cardinality(Numbered(S, n)) \in Nat
<1> DEFINE T == {{x} \X (1 .. n[x]) : x \in S}
           f == [x \in S |-> {x} \X (1 .. n[x])]
<1>1. f \in Surjection(S, T)
  BY DEF Surjection
<1>2. IsFiniteSet(T)
  <2> HIDE DEF f, T
  <2> QED
    BY <1>1, FS_Surjection
<1>3. \A t \in T : IsFiniteSet(t)
  <2>1. \A x \in S : IsFiniteSet({x} \X (1 .. n[x]))
    <3>1. SUFFICES ASSUME NEW x \in S PROVE IsFiniteSet({x} \X (1 .. n[x]))
      OBVIOUS
    <3>2. n[x] \in Nat
      OBVIOUS
    <3>3. QED
      BY <3>2, OnesPlaces
  <2>2. QED
    BY <2>1
<1>4. IsFiniteSet(UNION T)
  <2> HIDE DEF T
  <2> QED
    BY <1>2, <1>3, FS_UNION
<1>5. QED
  BY <1>4, FS_CardinalityType DEF Numbered

LEMMA NumberedMore ==
  ASSUME NEW S, IsFiniteSet(S), NEW n, \A x \in S : n[x] \in Nat, NEW y \in S
  PROVE  /\ Cardinality(Numbered(S, n)) = Cardinality(Numbered(S \ {y}, n)) + n[y]
         /\ n[y] <= Cardinality(Numbered(S, n))
<1> DEFINE Y == {y} \X (1 .. n[y])
           R == Numbered(S \ {y}, n)
<1>1. IsFiniteSet(Y) /\ Cardinality(Y) = n[y]
  BY OnesPlaces
<1>2. IsFiniteSet(S \ {y})
  BY FS_RemoveElement
<1>3. IsFiniteSet(R) /\ Cardinality(R) \in Nat
  <2>1. \A x \in S \ {y} : n[x] \in Nat
    OBVIOUS
  <2>2. QED
    BY <1>2, <2>1, NumberedFinite
<1>4. Numbered(S, n) = R \cup Y /\ R \cap Y = {}
  BY DEF Numbered
<1>5. Cardinality(R \cup Y) = Cardinality(R) + Cardinality(Y) - Cardinality(R \cap Y)
  <2> HIDE DEF R, Y
  <2> QED
    BY <1>1, <1>3, FS_Union
<1>6. Cardinality(R \cap Y) = 0
  BY <1>4, FS_EmptySet
<1>7. QED
  BY <1>1, <1>3, <1>4, <1>5, <1>6

LEMMA NumberedNone ==
  ASSUME NEW n
  PROVE  Cardinality(Numbered({}, n)) = 0
<1>1. Numbered({}, n) = {}
  BY DEF Numbered
<1>2. QED
  BY <1>1, FS_EmptySet

(* One addend changes, and the sum by the same amount.                     *)
LEMMA NumberedChange ==
  ASSUME NEW S, IsFiniteSet(S), NEW y \in S, NEW n, NEW m,
         \A x \in S : n[x] \in Nat /\ m[x] \in Nat /\ (x # y => m[x] = n[x])
  PROVE  Cardinality(Numbered(S, m)) = Cardinality(Numbered(S, n)) + m[y] - n[y]
<1>1. Numbered(S \ {y}, m) = Numbered(S \ {y}, n)
  BY DEF Numbered
<1>2. Cardinality(Numbered(S, n)) = Cardinality(Numbered(S \ {y}, n)) + n[y]
  BY NumberedMore
<1>3. Cardinality(Numbered(S, m)) = Cardinality(Numbered(S \ {y}, m)) + m[y]
  BY NumberedMore
<1>4. Cardinality(Numbered(S \ {y}, n)) \in Nat
  <2>1. IsFiniteSet(S \ {y}) /\ \A x \in S \ {y} : n[x] \in Nat
    BY FS_RemoveElement
  <2>2. QED
    BY <2>1, NumberedFinite
<1>5. QED
  BY <1>1, <1>2, <1>3, <1>4

(* What holds of a set unless it holds not of a smaller one holds of every *)
(* subset of a finite set: there is no least exception.                    *)
LEMMA LeastException ==
  ASSUME NEW S, IsFiniteSet(S), NEW E \in SUBSET (SUBSET S), E # {}
  PROVE  \E s \in E : \A t \in E : ~ (t \subseteq s /\ t # s)
<1> DEFINE R == StrictSubsetOrdering(S)
<1>1. IsWellFoundedOn(R, FiniteSubsetsOf(S)) /\ FiniteSubsetsOf(S) = SUBSET S
  BY FS_StrictSubsetOrderingWellFounded, FS_FiniteSubsetsOfFinite
<1>2. \A s, t \in SUBSET S : t \subseteq s /\ t # s => <<t, s>> \in R
  BY DEF StrictSubsetOrdering
<1> HIDE DEF R
<1>3. IsWellFoundedOn(R, SUBSET S)
  BY <1>1
<1>4. PICK s \in E : \A t \in E : ~ (<<t, s>> \in R)
  BY <1>3, WFMin
<1>5. QED
  BY <1>2, <1>4

(* The equation by which a fold adds up n over the subsets of S.           *)
AddsUp(it, S, n) ==
  it = [s \in SUBSET S |-> IF s = {} THEN 0
                           ELSE n[CHOOSE x \in s : TRUE] + it[s \ {CHOOSE x \in s : TRUE}]]

(* It has a solution, and any solution counts the numbered places.         *)
LEMMA FoldExists ==
  ASSUME NEW S, IsFiniteSet(S), NEW n, \A x \in S : n[x] \in Nat
  PROVE  \E it : AddsUp(it, S, n)
<1> DEFINE it == [s \in SUBSET S |-> Cardinality(Numbered(s, n))]
<1>1. ASSUME NEW s \in SUBSET S, s # {}
      PROVE  it[s] = n[CHOOSE x \in s : TRUE] + it[s \ {CHOOSE x \in s : TRUE}]
  <2> DEFINE y == CHOOSE x \in s : TRUE
  <2>1. y \in s
    BY <1>1
  <2> HIDE DEF y
  <2>2. IsFiniteSet(s) /\ \A x \in s : n[x] \in Nat
    BY FS_Subset
  <2>3. Cardinality(Numbered(s, n)) = Cardinality(Numbered(s \ {y}, n)) + n[y]
    BY <2>1, <2>2, NumberedMore
  <2>4. Cardinality(Numbered(s \ {y}, n)) \in Nat
    BY <2>2, FS_RemoveElement, NumberedFinite
  <2>5. it[s] = n[y] + it[s \ {y}]
    BY <2>1, <2>2, <2>3, <2>4
  <2>6. QED
    BY <2>5 DEF y
<1>2. it[{}] = 0
  BY NumberedNone
<1>3. AddsUp(it, S, n)
  <2> HIDE DEF it
  <2>1. it = [s \in SUBSET S |-> it[s]]
    BY DEF it
  <2>2. QED
    BY <1>1, <1>2, <2>1 DEF AddsUp
<1>4. QED
  BY <1>3

LEMMA FoldCounted ==
  ASSUME NEW S, IsFiniteSet(S), NEW n, \A x \in S : n[x] \in Nat, NEW it, AddsUp(it, S, n)
  PROVE  it[S] = Cardinality(Numbered(S, n))
<1> DEFINE E == {s \in SUBSET S : it[s] # Cardinality(Numbered(s, n))}
<1> SUFFICES ASSUME E # {} PROVE FALSE
  OBVIOUS
<1>1. PICK s \in E : \A t \in E : ~ (t \subseteq s /\ t # s)
  <2>1. E \in SUBSET (SUBSET S)
    OBVIOUS
  <2> HIDE DEF E
  <2>2. QED
    BY <2>1, LeastException
<1>2. s \in SUBSET S /\ IsFiniteSet(s) /\ \A x \in s : n[x] \in Nat
  BY FS_Subset
<1>3. CASE s = {}
  BY <1>3, NumberedNone DEF AddsUp
<1>4. CASE s # {}
  <2> DEFINE y == CHOOSE x \in s : TRUE
  <2>1. y \in s
    BY <1>4
  <2>2. it[s] = n[y] + it[s \ {y}]
    BY <1>2, <1>4 DEF AddsUp
  <2> HIDE DEF y
  <2>3. it[s \ {y}] = Cardinality(Numbered(s \ {y}, n))
    BY <1>1, <1>2, <2>1
  <2>4. Cardinality(Numbered(s, n)) = Cardinality(Numbered(s \ {y}, n)) + n[y]
    BY <1>2, <2>1, NumberedMore
  <2>5. Cardinality(Numbered(s \ {y}, n)) \in Nat
    BY <1>2, FS_RemoveElement, NumberedFinite
  <2>6. n[y] \in Nat
    BY <1>2, <2>1
  <2>7. QED
    BY <1>1, <2>2, <2>3, <2>4, <2>5, <2>6
<1>5. QED
  BY <1>3, <1>4

(* MapThenSumSet adds up.                                                  *)
LEMMA SumCounted ==
  ASSUME NEW S, IsFiniteSet(S), NEW n, \A x \in S : n[x] \in Nat
  PROVE  MapThenSumSet(LAMBDA x : n[x], S) = Cardinality(Numbered(S, n))
<1>1. AddsUp(CHOOSE it : AddsUp(it, S, n), S, n)
  BY FoldExists
<1>2. MapThenSumSet(LAMBDA x : n[x], S) = (CHOOSE it : AddsUp(it, S, n))[S]
  BY DEF AddsUp, MapThenSumSet, MapThenFoldSet
<1>3. QED
  BY <1>1, <1>2, FoldCounted

(* Sums are added term by term.                                            *)
LEMMA NumberedSum ==
  ASSUME NEW S, IsFiniteSet(S), NEW a, NEW b, NEW n,
         \A x \in S : a[x] \in Nat /\ b[x] \in Nat /\ n[x] = a[x] + b[x]
  PROVE  Cardinality(Numbered(S, n)) = Cardinality(Numbered(S, a)) + Cardinality(Numbered(S, b))
<1> DEFINE Add(s) == Cardinality(Numbered(s, n)) = Cardinality(Numbered(s, a)) + Cardinality(Numbered(s, b))
           E == {s \in SUBSET S : ~Add(s)}
<1> SUFFICES ASSUME E # {} PROVE FALSE
  OBVIOUS
<1>1. PICK s \in E : \A t \in E : ~ (t \subseteq s /\ t # s)
  <2>1. E \in SUBSET (SUBSET S)
    OBVIOUS
  <2> HIDE DEF E
  <2>2. QED
    BY <2>1, LeastException
<1>2. /\ s \in SUBSET S /\ IsFiniteSet(s)
      /\ (\A x \in s : a[x] \in Nat) /\ (\A x \in s : b[x] \in Nat) /\ (\A x \in s : n[x] \in Nat)
  BY FS_Subset
<1>3. CASE s = {}
  BY <1>3, NumberedNone
<1>4. CASE s # {}
  <2>1. PICK y : y \in s
    BY <1>4
  <2>2. Add(s \ {y})
    BY <1>1, <1>2, <2>1
  <2>3. Cardinality(Numbered(s, a)) = Cardinality(Numbered(s \ {y}, a)) + a[y]
    BY <1>2, <2>1, NumberedMore
  <2>4. Cardinality(Numbered(s, b)) = Cardinality(Numbered(s \ {y}, b)) + b[y]
    BY <1>2, <2>1, NumberedMore
  <2>5. Cardinality(Numbered(s, n)) = Cardinality(Numbered(s \ {y}, n)) + n[y]
    BY <1>2, <2>1, NumberedMore
  <2>6. Cardinality(Numbered(s \ {y}, a)) \in Nat /\ Cardinality(Numbered(s \ {y}, b)) \in Nat
    BY <1>2, FS_RemoveElement, NumberedFinite
  <2>7. a[y] \in Nat /\ b[y] \in Nat /\ n[y] = a[y] + b[y]
    BY <1>2, <2>1
  <2>8. Add(s)
    BY <2>2, <2>3, <2>4, <2>5, <2>6, <2>7
  <2>9. QED
    BY <1>1, <2>8
<1>5. QED
  BY <1>3, <1>4

(* Things sorted by kind are as many as they were.                         *)
OfKind(S, kind, k) == {x \in S : kind[x] = k}

LEMMA CountedByKind ==
  ASSUME NEW S, IsFiniteSet(S), NEW K, NEW kind, \A x \in S : kind[x] \in K, NEW n,
         \A k \in K : n[k] = Cardinality(OfKind(S, kind, k))
  PROVE  Cardinality(Numbered(K, n)) = Cardinality(S)
<1> DEFINE Of(k) == {x \in S : kind[x] = k}
           rank == [k \in K |-> CHOOSE f : f \in Bijection(Of(k), 1 .. n[k])]
           place == [x \in S |-> <<kind[x], rank[kind[x]][x]>>]
<1>1. ASSUME NEW k \in K
      PROVE  rank[k] \in Bijection(Of(k), 1 .. n[k])
  <2>1. IsFiniteSet(Of(k)) /\ n[k] = Cardinality(Of(k))
    BY FS_Subset DEF OfKind
  <2>2. n[k] \in Nat /\ ExistsBijection(1 .. n[k], Of(k))
    BY <2>1, FS_CardinalityType
  <2>3. IsFiniteSet(1 .. n[k]) /\ Cardinality(1 .. n[k]) = n[k]
    BY <2>2, FirstNumbers
  <2>4. ExistsBijection(Of(k), 1 .. n[k])
    BY <2>1, <2>3, FS_SameCardinalityBij
  <2>5. QED
    BY <2>4 DEF ExistsBijection
<1>2. \A k \in K : /\ rank[k] \in [Of(k) -> 1 .. n[k]]
                   /\ \A x, y \in Of(k) : rank[k][x] = rank[k][y] => x = y
                   /\ \A i \in 1 .. n[k] : \E x \in Of(k) : rank[k][x] = i
  <2> HIDE DEF Of, rank
  <2> SUFFICES ASSUME NEW k \in K
               PROVE  /\ rank[k] \in [Of(k) -> 1 .. n[k]]
                      /\ \A x, y \in Of(k) : rank[k][x] = rank[k][y] => x = y
                      /\ \A i \in 1 .. n[k] : \E x \in Of(k) : rank[k][x] = i
    OBVIOUS
  <2>1. rank[k] \in Injection(Of(k), 1 .. n[k]) /\ rank[k] \in Surjection(Of(k), 1 .. n[k])
    BY <1>1 DEF Bijection
  <2>2. QED
    BY <2>1 DEF Injection, Surjection, IsInjective
<1> HIDE DEF rank
<1>3. ASSUME NEW x \in S
      PROVE  x \in Of(kind[x]) /\ rank[kind[x]][x] \in 1 .. n[kind[x]]
  <2>1. x \in Of(kind[x]) /\ kind[x] \in K
    OBVIOUS
  <2> HIDE DEF Of
  <2>2. QED
    BY <1>2, <2>1
<1>4. \A k : \A x \in Of(k) : x \in S /\ kind[x] = k
  OBVIOUS
<1> HIDE DEF Of
<1>5. place \in [S -> Numbered(K, n)]
  <2>1. ASSUME NEW x \in S
        PROVE  place[x] \in {kind[x]} \X (1 .. n[kind[x]])
    BY <1>3
  <2>2. \A x \in S : place[x] \in Numbered(K, n)
    BY <2>1 DEF Numbered
  <2>3. QED
    BY <2>2
<1>6. ASSUME NEW x \in S, NEW y \in S, place[x] = place[y]
      PROVE  x = y
  <2>1. kind[x] = kind[y] /\ rank[kind[x]][x] = rank[kind[x]][y]
    BY <1>6
  <2>2. QED
    BY <1>2, <1>3, <2>1
<1>7. ASSUME NEW p \in Numbered(K, n)
      PROVE  \E x \in S : place[x] = p
  <2>1. PICK k \in K : p \in {k} \X (1 .. n[k])
    BY DEF Numbered
  <2>2. PICK i \in 1 .. n[k] : p = <<k, i>>
    BY <2>1
  <2>3. PICK x \in Of(k) : rank[k][x] = i
    BY <1>2
  <2>4. QED
    BY <1>4, <2>2, <2>3
<1>8. place \in Bijection(S, Numbered(K, n))
  <2> HIDE DEF place
  <2>1. QED
    BY <1>5, <1>6, <1>7 DEF Bijection, Injection, Surjection, IsInjective
<1>9. QED
  BY <1>8, FS_Bijection DEF ExistsBijection
============================================================================
