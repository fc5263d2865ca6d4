----------------------------- MODULE ListProofs -----------------------------
(***************************************************************************)
(* What a selection from a list keeps: the elements at the places it is    *)
(* made of, each once, in their order, and the number of those with any    *)
(* property; what a concatenation and the maximum of a set of numbers are. *)
(***************************************************************************)
EXTENDS Lists, Functions, TLAPS, FiniteSetTheorems, SequenceTheorems

Indices(S) == S \subseteq Nat /\ IsFiniteSet(S)

UpTo(I, i) == {k \in I : k <= i}

LEMMA PlaceType ==
    ASSUME NEW I, Indices(I), NEW i \in I
    PROVE  /\ IsFiniteSet(UpTo(I, i))
           /\ Place(I, i) \in Nat
           /\ Place(I, i) \in 1 .. Cardinality(I)
<1>1. UpTo(I, i) \in SUBSET I /\ i \in UpTo(I, i)
  <2>1. i \in Nat
    BY DEF Indices
  <2> QED BY <2>1 DEF UpTo
<1>2. IsFiniteSet(UpTo(I, i)) /\ Cardinality(UpTo(I, i)) <= Cardinality(I)
  BY <1>1, FS_Subset DEF Indices
<1>3. Cardinality(UpTo(I, i)) # 0
  BY <1>1, <1>2, FS_EmptySet
<1>4. Cardinality(UpTo(I, i)) \in Nat /\ Cardinality(I) \in Nat
  BY <1>2, FS_CardinalityType DEF Indices
<1>5. Place(I, i) = Cardinality(UpTo(I, i))
  BY DEF Place, UpTo
<1> QED BY <1>2, <1>3, <1>4, <1>5

\* Greater numbers have later places.
LEMMA PlaceRises ==
    ASSUME NEW I, Indices(I), NEW i \in I, NEW j \in I, i < j
    PROVE  Place(I, i) < Place(I, j)
<1>1. UpTo(I, i) \in SUBSET UpTo(I, j) /\ j \in UpTo(I, j) \ UpTo(I, i)
  <2>1. \A k \in I : k \in Nat
    BY DEF Indices
  <2>2. \A k \in I : k <= i => k <= j
    BY <2>1
  <2>3. j <= j /\ ~ (j <= i)
    BY <2>1
  <2> QED BY <2>2, <2>3 DEF UpTo
<1>2. /\ IsFiniteSet(UpTo(I, j))
      /\ Place(I, i) \in Nat /\ Place(I, j) \in Nat
      /\ Place(I, i) = Cardinality(UpTo(I, i))
      /\ Place(I, j) = Cardinality(UpTo(I, j))
  BY PlaceType DEF Place, UpTo
<1>3. /\ Place(I, i) <= Place(I, j)
      /\ Place(I, i) = Place(I, j) => UpTo(I, i) = UpTo(I, j)
  BY <1>1, <1>2, FS_Subset
<1> QED BY <1>1, <1>2, <1>3

LEMMA PlaceOrders ==
    ASSUME NEW I, Indices(I), NEW i \in I, NEW j \in I
    PROVE  /\ Place(I, i) = Place(I, j) <=> i = j
           /\ Place(I, i) < Place(I, j) <=> i < j
<1>1. /\ i \in Nat /\ j \in Nat
      /\ Place(I, i) \in Nat /\ Place(I, j) \in Nat
  BY PlaceType DEF Indices
<1>2. i < j \/ i = j \/ j < i
  BY <1>1
<1> QED BY <1>1, <1>2, PlaceRises

\* Every place is taken.
LEMMA NthIsThere ==
    ASSUME NEW I, Indices(I), NEW n \in 1 .. Cardinality(I)
    PROVE  Nth(I, n) \in I /\ Place(I, Nth(I, n)) = n
<1> DEFINE c == Cardinality(I)
           f == [i \in I |-> Place(I, i)]
<1>1. c \in Nat
  BY FS_CardinalityType DEF Indices
<1>2. IsFiniteSet(1 .. c) /\ Cardinality(1 .. c) = c
  <2>1. 1 \in Int /\ c \in Int /\ (1 > c => c = 0) /\ c - 1 + 1 = c
    BY <1>1
  <2> QED BY <2>1, FS_Interval
<1>3. f \in Injection(I, 1 .. c)
  <2>1. f \in [I -> 1 .. c]
    BY PlaceType
  <2>2. \A i, j \in I : f[i] = f[j] => i = j
    BY PlaceOrders
  <2> QED BY <2>1, <2>2 DEF Injection, IsInjective
<1>4. f \in Surjection(I, 1 .. c)
  BY <1>2, <1>3, FS_Injection DEF Indices
<1>5. \E i \in I : Place(I, i) = n
  BY <1>4 DEF Surjection
<1> QED BY <1>5 DEF Nth

LEMMA NthOfPlace ==
    ASSUME NEW I, Indices(I), NEW i \in I
    PROVE  Nth(I, Place(I, i)) = i
<1>1. Place(I, i) \in 1 .. Cardinality(I)
  BY PlaceType
<1>2. Nth(I, Place(I, i)) \in I /\ Place(I, Nth(I, Place(I, i))) = Place(I, i)
  BY <1>1, NthIsThere
<1> QED BY <1>2, PlaceOrders

-----------------------------------------------------------------------------
(***************************************************************************)
(* A selection: its elements, and how many of them have a property.        *)
(***************************************************************************)
LEMMA SelectionHolds ==
    ASSUME NEW s, NEW I, Indices(I)
    PROVE  /\ DOMAIN SelectAt(s, I) = 1 .. Cardinality(I)
           /\ Cardinality(I) \in Nat
           /\ \A n \in 1 .. Cardinality(I) :
                 /\ Nth(I, n) \in I
                 /\ SelectAt(s, I)[n] = s[Nth(I, n)]
           /\ \A i \in I : /\ Place(I, i) \in 1 .. Cardinality(I)
                           /\ SelectAt(s, I)[Place(I, i)] = s[i]
<1>1. /\ DOMAIN SelectAt(s, I) = 1 .. Cardinality(I)
      /\ \A n \in 1 .. Cardinality(I) : SelectAt(s, I)[n] = s[Nth(I, n)]
  BY DEF SelectAt
<1>2. Cardinality(I) \in Nat
  BY FS_CardinalityType DEF Indices
<1> QED BY <1>1, <1>2, NthIsThere, NthOfPlace, PlaceType

LEMMA SelectionIsSeq ==
    ASSUME NEW s, NEW I, Indices(I), NEW T, \A i \in I : s[i] \in T
    PROVE  /\ SelectAt(s, I) \in Seq(T)
           /\ Len(SelectAt(s, I)) = Cardinality(I)
           /\ Range(SelectAt(s, I)) = {s[i] : i \in I}
<1> DEFINE r == SelectAt(s, I)
           c == Cardinality(I)
<1>1. /\ DOMAIN r = 1 .. c /\ c \in Nat
      /\ \A n \in 1 .. c : Nth(I, n) \in I /\ r[n] = s[Nth(I, n)]
      /\ \A i \in I : Place(I, i) \in 1 .. c /\ r[Place(I, i)] = s[i]
  BY SelectionHolds
<1>2. r = [n \in 1 .. c |-> s[Nth(I, n)]]
  BY DEF SelectAt
<1> HIDE DEF r, c
<1>3. r \in [1 .. c -> T]
  BY <1>1, <1>2
<1>4. r \in Seq(T) /\ Len(r) = c
  BY <1>1, <1>3, SeqDef, LenProperties
<1>5. Range(r) = {s[i] : i \in I}
  BY <1>1 DEF Range
<1> QED BY <1>4, <1>5 DEF r, c

\* How many elements of s, or of those at the indices in I, are in G.
CountIn(s, G) == Cardinality({i \in DOMAIN s : s[i] \in G})

CountAt(s, I, G) == Cardinality({i \in I : s[i] \in G})

\* The elements of a selection that are in G, counted where they came from.
LEMMA SelectionCounts ==
    ASSUME NEW s, NEW I, Indices(I), NEW G
    PROVE  CountIn(SelectAt(s, I), G) = CountAt(s, I, G)
<1> DEFINE r == SelectAt(s, I)
           there == {i \in I : s[i] \in G}
           here == {n \in DOMAIN r : r[n] \in G}
           f == [i \in there |-> Place(I, i)]
<1>1. /\ DOMAIN r = 1 .. Cardinality(I)
      /\ \A n \in 1 .. Cardinality(I) : Nth(I, n) \in I /\ r[n] = s[Nth(I, n)]
      /\ \A i \in I : Place(I, i) \in 1 .. Cardinality(I) /\ r[Place(I, i)] = s[i]
  BY SelectionHolds
<1>2. IsFiniteSet(there)
  <2>1. there \in SUBSET I
    OBVIOUS
  <2> QED BY <2>1, FS_Subset DEF Indices
<1>3. f \in Bijection(there, here)
  <2>1. f \in [there -> here]
    BY <1>1
  <2>2. \A i, j \in there : f[i] = f[j] => i = j
    BY PlaceOrders
  <2>3. ASSUME NEW n \in here PROVE \E i \in there : f[i] = n
    <3>1. Nth(I, n) \in there
      BY <1>1
    <3>2. Place(I, Nth(I, n)) = n
      BY <1>1, NthIsThere
    <3> QED BY <3>1, <3>2
  <2> QED BY <2>1, <2>2, <2>3 DEF Bijection, Injection, Surjection, IsInjective
<1>4. ExistsBijection(there, here)
  BY <1>3 DEF ExistsBijection
<1> HIDE DEF here, there
<1>5. Cardinality(here) = Cardinality(there)
  BY <1>2, <1>4, FS_Bijection
<1> QED BY <1>5 DEF here, there, CountIn, CountAt

\* Elements that differ where they came from differ in a selection.
LEMMA SelectionKeepsDistinct ==
    ASSUME NEW s, NEW I, Indices(I),
           \A i, j \in I : s[i] = s[j] => i = j
    PROVE  \A m, n \in DOMAIN SelectAt(s, I) :
              SelectAt(s, I)[m] = SelectAt(s, I)[n] => m = n
<1> SUFFICES ASSUME NEW m \in DOMAIN SelectAt(s, I),
                    NEW n \in DOMAIN SelectAt(s, I),
                    SelectAt(s, I)[m] = SelectAt(s, I)[n]
             PROVE  m = n
  OBVIOUS
<1>1. m \in 1 .. Cardinality(I) /\ n \in 1 .. Cardinality(I)
  BY SelectionHolds
<1>2. Nth(I, m) = Nth(I, n)
  BY <1>1, SelectionHolds
<1> QED BY <1>1, <1>2, NthIsThere

\* The greatest of some numbers is one of them.
LEMMA GreatestIsThere ==
    ASSUME NEW I, Indices(I), I # {}
    PROVE  \E x \in I : \A y \in I : x >= y
<1>1. Cardinality(I) \in Nat /\ Cardinality(I) # 0
  BY FS_EmptySet, FS_CardinalityType DEF Indices
<1>2. PICK x \in I : Place(I, x) = Cardinality(I)
  BY <1>1, NthIsThere
<1>3. \A y \in I : ~ (x < y)
  <2> SUFFICES ASSUME NEW y \in I, x < y PROVE FALSE
    OBVIOUS
  <2>1. Place(I, x) < Place(I, y) /\ Place(I, y) \in 1 .. Cardinality(I)
    BY PlaceRises, PlaceType
  <2> QED BY <1>1, <1>2, <2>1
<1> QED BY <1>3 DEF Indices

\* The least of some numbers is one of them.
LEMMA LeastIsThere ==
    ASSUME NEW I, Indices(I), I # {}
    PROVE  \E x \in I : \A y \in I : x <= y
<1>1. 1 \in 1 .. Cardinality(I)
  BY FS_EmptySet, FS_CardinalityType DEF Indices
<1>2. PICK x \in I : Place(I, x) = 1
  BY <1>1, NthIsThere
<1>3. \A y \in I : ~ (y < x)
  <2> SUFFICES ASSUME NEW y \in I, y < x PROVE FALSE
    OBVIOUS
  <2>1. Place(I, y) < Place(I, x) /\ Place(I, y) \in 1 .. Cardinality(I)
    BY PlaceRises, PlaceType
  <2> QED BY <1>2, <2>1, FS_CardinalityType DEF Indices
<1> QED BY <1>3 DEF Indices

\* The indices of a list, or some of them.
LEMMA SomeIndices ==
    ASSUME NEW n \in Nat, NEW I \in SUBSET (1 .. n)
    PROVE  Indices(I)
<1>1. IsFiniteSet(1 .. n)
  BY FS_Interval
<1>2. IsFiniteSet(I)
  BY <1>1, FS_Subset
<1> QED BY <1>2 DEF Indices

=============================================================================
