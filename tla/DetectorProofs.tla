--------------------------- MODULE DetectorProofs ---------------------------
(***************************************************************************)
(* Theorems about Streaks, and so about the triggers of FailureDetector,   *)
(* for any steps, thresholds, bound of the history and number of steps,    *)
(* and about what the model is told of the step a trigger fired on.        *)
(***************************************************************************)
EXTENDS Briefing, ListProofs

-----------------------------------------------------------------------------
(***************************************************************************)
(* Places in a finite set of indices, counted from its end.                *)
(***************************************************************************)
Later(S, i) == {j \in S : i < j}

\* How many elements of S come after i; LastOf(S, n) are those with less
\* than n behind them.
Since(S, i) == Cardinality(Later(S, i))

LEMMA LastAreLate ==
    ASSUME NEW S, NEW n
    PROVE  LastOf(S, n) = {i \in S : Since(S, i) < n}
BY DEF LastOf, Since, Later

LEMMA SinceType ==
    ASSUME NEW S, Indices(S), NEW i \in S
    PROVE  /\ IsFiniteSet(Later(S, i))
           /\ Since(S, i) \in Nat /\ Since(S, i) < Cardinality(S)
<1>1. Later(S, i) \in SUBSET (S \ {i})
  BY DEF Later, Indices
<1>2. IsFiniteSet(S \ {i}) /\ Cardinality(S \ {i}) = Cardinality(S) - 1
  BY FS_RemoveElement DEF Indices
<1>3. /\ IsFiniteSet(Later(S, i))
      /\ Since(S, i) <= Cardinality(S) - 1
  BY <1>1, <1>2, FS_Subset DEF Since
<1>4. Since(S, i) \in Nat /\ Cardinality(S) \in Nat
  BY <1>3, FS_CardinalityType DEF Since, Indices
<1> QED BY <1>3, <1>4

\* Later elements have less behind them.
LEMMA SinceFalls ==
    ASSUME NEW S, Indices(S), NEW i \in S, NEW j \in S, i < j
    PROVE  Since(S, j) < Since(S, i)
<1>1. Later(S, j) \in SUBSET Later(S, i) /\ j \in Later(S, i) \ Later(S, j)
  <2>1. \A k \in S : k \in Nat
    BY DEF Indices
  <2>2. \A k \in S : j < k => i < k
    BY <2>1
  <2>3. ~ (j < j)
    BY <2>1
  <2> QED BY <2>2, <2>3 DEF Later
<1>2. /\ IsFiniteSet(Later(S, i))
      /\ Since(S, i) \in Nat /\ Since(S, j) \in Nat
  BY SinceType
<1>3. /\ Since(S, j) <= Since(S, i)
      /\ Since(S, i) = Since(S, j) => Later(S, i) = Later(S, j)
  BY <1>1, <1>2, FS_Subset DEF Since
<1> QED BY <1>1, <1>2, <1>3

LEMMA SinceOrders ==
    ASSUME NEW S, Indices(S), NEW i \in S, NEW j \in S
    PROVE  /\ Since(S, i) = Since(S, j) <=> i = j
           /\ Since(S, j) < Since(S, i) <=> i < j
<1>1. i \in Nat /\ j \in Nat /\ Since(S, i) \in Nat /\ Since(S, j) \in Nat
  BY SinceType DEF Indices
<1>2. i < j \/ i = j \/ j < i
  BY <1>1
<1> QED BY <1>1, <1>2, SinceFalls

\* Every place is taken.
LEMMA PlacesAreTaken ==
    ASSUME NEW S, Indices(S), NEW n \in Nat, n < Cardinality(S)
    PROVE  \E i \in S : Since(S, i) = n
<1> DEFINE c == Cardinality(S)
           places == 0 .. c - 1
           f == [i \in S |-> Since(S, i)]
<1>1. c \in Nat /\ c > 0
  BY FS_CardinalityType DEF Indices
<1>2. IsFiniteSet(places) /\ Cardinality(places) = c
  <2>1. 0 \in Int /\ c - 1 \in Int /\ ~ (0 > c - 1) /\ (c - 1) - 0 + 1 = c
    BY <1>1
  <2> QED BY <2>1, FS_Interval
<1>3. \A i \in S : Since(S, i) \in places
  BY <1>1, SinceType
<1>4. f \in Injection(S, places)
  <2>1. f \in [S -> places]
    BY <1>3
  <2>2. \A i, j \in S : f[i] = f[j] => i = j
    BY SinceOrders
  <2> QED BY <2>1, <2>2 DEF Injection, IsInjective
<1>5. f \in Surjection(S, places)
  BY <1>2, <1>4, FS_Injection
<1>6. n \in places
  BY <1>1
<1> QED BY <1>5, <1>6 DEF Surjection

-----------------------------------------------------------------------------
(***************************************************************************)
(* Streaks: k elements at the end of S are in G and, if there is one       *)
(* before them, that one is not.                                           *)
(***************************************************************************)
StreakIs(S, G, k) ==
    /\ k \in Nat /\ k <= Cardinality(S)
    /\ \A i \in S : Since(S, i) < k => i \in G
    /\ \A i \in S : Since(S, i) = k => i \notin G

\* The last n of S are in G exactly when the streak is that long.
LEMMA StreakSays ==
    ASSUME NEW S, Indices(S), NEW G, NEW k, StreakIs(S, G, k),
           NEW n \in Nat, n <= Cardinality(S)
    PROVE  LastOf(S, n) \subseteq G <=> n <= k
<1>0. k \in Nat /\ Cardinality(S) \in Nat /\ \A i \in S : Since(S, i) \in Nat
  BY SinceType, FS_CardinalityType DEF StreakIs, Indices
<1>1. ASSUME n <= k PROVE LastOf(S, n) \subseteq G
  <2>1. \A i \in S : Since(S, i) < n => Since(S, i) < k
    BY <1>0, <1>1
  <2> QED BY <2>1, LastAreLate DEF StreakIs
<1>2. ASSUME k < n PROVE ~ (LastOf(S, n) \subseteq G)
  <2>1. PICK i \in S : Since(S, i) = k
    BY <1>0, <1>2, PlacesAreTaken
  <2>2. i \in LastOf(S, n) /\ i \notin G
    BY <1>2, <2>1, LastAreLate DEF StreakIs
  <2> QED BY <2>2
<1> QED BY <1>0, <1>1, <1>2

\* What a new last element changes.
LEMMA NewestIsLast ==
    ASSUME NEW S, Indices(S), NEW m \in Nat, \A i \in S : i < m
    PROVE  /\ Indices(S \cup {m}) /\ m \notin S
           /\ Cardinality(S \cup {m}) = Cardinality(S) + 1
           /\ Since(S \cup {m}, m) = 0
           /\ \A i \in S : Since(S \cup {m}, i) = Since(S, i) + 1
<1>1. \A i \in S : i \in Nat /\ ~ (m < i) /\ i # m
  BY DEF Indices
<1>2. m \notin S
  BY <1>1
<1>3. Indices(S \cup {m}) /\ Cardinality(S \cup {m}) = Cardinality(S) + 1
  BY <1>2, FS_AddElement DEF Indices
<1>4. Later(S \cup {m}, m) = {}
  BY <1>1 DEF Later
<1>5. Since(S \cup {m}, m) = 0
  BY <1>4, FS_EmptySet DEF Since
<1>6. ASSUME NEW i \in S PROVE Since(S \cup {m}, i) = Since(S, i) + 1
  <2>1. Later(S \cup {m}, i) = Later(S, i) \cup {m} /\ m \notin Later(S, i)
    BY <1>2 DEF Later
  <2>2. IsFiniteSet(Later(S, i))
    BY SinceType
  <2> QED BY <2>1, <2>2, FS_AddElement DEF Since
<1> QED BY <1>2, <1>3, <1>5, <1>6

\* A streak goes on or breaks with a new element.
LEMMA StreakIsCounted ==
    ASSUME NEW S, Indices(S), NEW m \in Nat, \A i \in S : i < m,
           NEW G, NEW H, \A i \in S : i \in G <=> i \in H,
           NEW k, StreakIs(S, G, k)
    PROVE  StreakIs(S \cup {m}, H, Counted(k, m \in H))
<1>0. k \in Nat /\ Cardinality(S) \in Nat /\ k <= Cardinality(S)
  BY FS_CardinalityType DEF StreakIs, Indices
<1>1. \A i \in S : Since(S, i) \in Nat
  BY SinceType
<1>2. /\ Cardinality(S \cup {m}) = Cardinality(S) + 1
      /\ Since(S \cup {m}, m) = 0
      /\ \A i \in S : Since(S \cup {m}, i) = Since(S, i) + 1
  BY NewestIsLast
<1>3. CASE m \in H
  <2>1. Counted(k, m \in H) = k + 1
    BY <1>3 DEF Counted
  <2>2. \A i \in S \cup {m} : Since(S \cup {m}, i) < k + 1 => i \in H
    BY <1>0, <1>1, <1>2, <1>3 DEF StreakIs
  <2>3. \A i \in S \cup {m} : Since(S \cup {m}, i) = k + 1 => i \notin H
    BY <1>0, <1>1, <1>2 DEF StreakIs
  <2> QED BY <1>0, <1>2, <2>1, <2>2, <2>3 DEF StreakIs
<1>4. CASE m \notin H
  <2>1. Counted(k, m \in H) = 0
    BY <1>4 DEF Counted
  <2>2. \A i \in S \cup {m} : ~ (Since(S \cup {m}, i) < 0)
    BY <1>1, <1>2
  <2>3. \A i \in S \cup {m} : Since(S \cup {m}, i) = 0 => i \notin H
    BY <1>1, <1>2, <1>4
  <2> QED BY <1>0, <1>2, <2>1, <2>2, <2>3 DEF StreakIs
<1> QED BY <1>3, <1>4

\* A streak does not depend on what is not in S.
LEMMA StreakStays ==
    ASSUME NEW S, NEW G, NEW H, \A i \in S : i \in G <=> i \in H,
           NEW k, StreakIs(S, G, k)
    PROVE  StreakIs(S, H, k)
BY DEF StreakIs

LEMMA NoStreak == ASSUME NEW G PROVE Indices({}) /\ StreakIs({}, G, 0)
BY FS_EmptySet DEF Indices, StreakIs

-----------------------------------------------------------------------------
(***************************************************************************)
(* A truncated list: the elements of S above d, counted from d on.         *)
(***************************************************************************)
Above(S, d) == {i \in S : d < i}

From(S, d) == {i - d : i \in Above(S, d)}

LEMMA ShiftKeepsCardinality ==
    ASSUME NEW A, Indices(A), NEW d \in Nat, \A i \in A : d < i
    PROVE  LET B == {i - d : i \in A}
           IN  Indices(B) /\ Cardinality(B) = Cardinality(A)
<1> DEFINE B == {i - d : i \in A}
           f == [i \in A |-> i - d]
<1>1. \A i \in A : i \in Nat /\ i - d \in Nat
  BY DEF Indices
<1>2. \A i, j \in A : i - d = j - d => i = j
  BY <1>1
<1>3. f \in [A -> B] /\ \A b \in B : \E i \in A : f[i] = b
  OBVIOUS
<1>4. f \in Bijection(A, B)
  BY <1>2, <1>3 DEF Bijection, Injection, Surjection, IsInjective
<1>5. IsFiniteSet(B) /\ Cardinality(B) = Cardinality(A)
  BY <1>4, FS_Bijection DEF ExistsBijection, Indices
<1> QED BY <1>1, <1>5 DEF Indices

LEMMA TruncationKeepsPlaces ==
    ASSUME NEW S, Indices(S), NEW d \in Nat
    PROVE  /\ Indices(From(S, d)) /\ Indices(Above(S, d))
           /\ Cardinality(From(S, d)) = Cardinality(Above(S, d))
           /\ \A i \in Above(S, d) : Since(From(S, d), i - d) = Since(S, i)
<1>1. Above(S, d) \in SUBSET S /\ \A i \in Above(S, d) : d < i
  BY DEF Above
<1>2. Indices(Above(S, d)) /\ \A i \in Above(S, d) : i \in Nat
  BY <1>1, FS_Subset DEF Indices
<1>3. /\ Indices(From(S, d))
      /\ Cardinality(From(S, d)) = Cardinality(Above(S, d))
  BY <1>1, <1>2, ShiftKeepsCardinality DEF From
<1>4. ASSUME NEW i \in Above(S, d)
      PROVE  Since(From(S, d), i - d) = Since(S, i)
  <2>1. i \in S /\ i \in Nat /\ d < i
    BY <1>1, <1>2
  <2>2. /\ Indices(Later(S, i)) /\ \A j \in Later(S, i) : d < j
        /\ Later(S, i) = {j \in Above(S, d) : i < j}
    <3>1. \A j \in S : j \in Nat
      BY DEF Indices
    <3>2. \A j \in S : i < j => d < j
      BY <2>1, <3>1
    <3>3. Later(S, i) \in SUBSET S
      BY DEF Later
    <3> QED BY <3>1, <3>2, <3>3, FS_Subset DEF Later, Above, Indices
  <2>3. Later(From(S, d), i - d) = {j - d : j \in Later(S, i)}
    <3>1. \A j \in Above(S, d) : i - d < j - d <=> i < j
      BY <1>2, <2>1
    <3> QED BY <2>2, <3>1 DEF From, Later
  <2> QED BY <2>2, <2>3, ShiftKeepsCardinality DEF Since
<1> QED BY <1>2, <1>3, <1>4

\* As long as n elements are left, the last n are the same ones.
LEMMA TruncationKeepsLast ==
    ASSUME NEW S, Indices(S), NEW d \in Nat, NEW n \in Nat,
           n <= Cardinality(From(S, d))
    PROVE  /\ n <= Cardinality(S)
           /\ LastOf(S, n) \subseteq Above(S, d)
           /\ LastOf(From(S, d), n) = {i - d : i \in LastOf(S, n)}
<1>1. /\ Above(S, d) \in SUBSET S
      /\ \A i \in S : i \in Nat /\ Since(S, i) \in Nat
      /\ Cardinality(S) \in Nat
  BY SinceType, FS_CardinalityType DEF Above, Indices
<1>2. /\ Cardinality(Above(S, d)) = Cardinality(From(S, d))
      /\ Cardinality(Above(S, d)) \in Nat
      /\ Cardinality(Above(S, d)) <= Cardinality(S)
  BY <1>1, TruncationKeepsPlaces, FS_CardinalityType, FS_Subset DEF Indices
<1>3. ASSUME NEW i \in LastOf(S, n) PROVE i \in Above(S, d)
  <2>1. i \in S /\ Since(S, i) < n
    BY <1>3, LastAreLate
  <2>2. SUFFICES ASSUME i <= d PROVE FALSE
    BY <1>1, <2>1 DEF Above
  <2>3. Above(S, d) \in SUBSET Later(S, i)
    BY <1>1, <2>1, <2>2 DEF Above, Later
  <2>4. Cardinality(Above(S, d)) <= Since(S, i)
    BY <2>1, <2>3, SinceType, FS_Subset DEF Since
  <2> QED BY <1>1, <1>2, <2>1, <2>4
<1>4. LastOf(From(S, d), n) = {i - d : i \in LastOf(S, n)}
  <2>1. \A i \in Above(S, d) : Since(From(S, d), i - d) < n <=> Since(S, i) < n
    BY TruncationKeepsPlaces
  <2>2. LastOf(From(S, d), n) = {j \in From(S, d) : Since(From(S, d), j) < n}
    BY LastAreLate
  <2>3. LastOf(S, n) = {i \in Above(S, d) : Since(S, i) < n}
    BY <1>1, <1>3, LastAreLate
  <2> QED BY <2>1, <2>2, <2>3 DEF From
<1> QED BY <1>1, <1>2, <1>3, <1>4

-----------------------------------------------------------------------------
(***************************************************************************)
(* What each counter counts: at which places of a list its streak goes on. *)
(***************************************************************************)
WithError(steps, e) == {i \in DOMAIN steps : steps[i].error = e}

WithFailed(steps, x) == {i \in WithTests(steps) : Failed(steps[i].tests, x)}

WithFlip(steps, x) ==
    {i \in WithTests(steps) :
        \E p \in WithTests(steps) :
            /\ Adjacent(WithTests(steps), p, i)
            /\ Flipped(steps[p].tests, steps[i].tests, x)}

WithInvalid(steps) == {i \in WithSchema(steps) : steps[i].schema = FALSE}

\* The results that were reported last.
LastResults(steps, results) ==
    /\ WithTests(steps) = {} => results = None
    /\ \A i \in WithTests(steps) :
          Since(WithTests(steps), i) = 0 => results = steps[i].tests

CountsErrors(steps, k) ==
    \A e \in Errors :
        StreakIs(DOMAIN steps, WithError(steps, e), k.errors[e])

CountsFailures(steps, k) ==
    \A x \in TestNames :
        StreakIs(WithTests(steps), WithFailed(steps, x), k.failures[x])

CountsFlips(steps, k) ==
    /\ LastResults(steps, k.results)
    /\ \A x \in TestNames :
          StreakIs(WithTests(steps), WithFlip(steps, x), k.flips[x])

CountsInvalid(steps, k) ==
    StreakIs(WithSchema(steps), WithInvalid(steps), k.invalid)

CountsStreaks(steps, k) ==
    /\ k \in StreakCounts
    /\ k.tested = Cardinality(WithTests(steps))
    /\ CountsErrors(steps, k) /\ CountsFailures(steps, k)
    /\ CountsFlips(steps, k) /\ CountsInvalid(steps, k)

\* The sets of places of a list are indices.
LEMMA PlacesType ==
    ASSUME NEW steps \in Seq(StepRecord)
    PROVE  /\ Len(steps) \in Nat /\ DOMAIN steps = 1 .. Len(steps)
           /\ Indices(DOMAIN steps) /\ Indices(WithTests(steps))
           /\ Indices(WithSchema(steps))
           /\ WithTests(steps) \subseteq DOMAIN steps
           /\ WithSchema(steps) \subseteq DOMAIN steps
           /\ \A i \in DOMAIN steps : steps[i] \in StepRecord
           /\ Cardinality(DOMAIN steps) = Len(steps)
<1>1. /\ Len(steps) \in Nat /\ DOMAIN steps = 1 .. Len(steps)
      /\ \A i \in DOMAIN steps : steps[i] \in StepRecord
  BY LenProperties, ElementOfSeq
<1>2. /\ WithTests(steps) \in SUBSET (DOMAIN steps)
      /\ WithSchema(steps) \in SUBSET (DOMAIN steps)
  BY DEF WithTests, WithSchema
<1>3. IsFiniteSet(DOMAIN steps) /\ Cardinality(DOMAIN steps) = Len(steps)
  <2>1. 1 \in Int /\ Len(steps) \in Int
    BY <1>1
  <2>2. /\ IsFiniteSet(1 .. Len(steps))
        /\ Cardinality(1 .. Len(steps)) =
              IF 1 > Len(steps) THEN 0 ELSE Len(steps) - 1 + 1
    BY <2>1, FS_Interval
  <2>3. (IF 1 > Len(steps) THEN 0 ELSE Len(steps) - 1 + 1) = Len(steps)
    BY <1>1
  <2> QED BY <1>1, <2>2, <2>3
<1>4. DOMAIN steps \subseteq Nat
  BY <1>1
<1> QED BY <1>1, <1>2, <1>3, <1>4, FS_Subset DEF Indices

\* One more step, under the number m.
LEMMA OneMore ==
    ASSUME NEW steps \in Seq(StepRecord), NEW r \in StepRecord
    PROVE  LET more == Append(steps, r)
               m == Len(steps) + 1
           IN  /\ more \in Seq(StepRecord) /\ Len(more) = m /\ m \in Nat
               /\ DOMAIN more = DOMAIN steps \cup {m}
               /\ \A i \in DOMAIN steps : i < m /\ more[i] = steps[i]
               /\ more[m] = r
               /\ WithTests(more) = IF r.tests = None THEN WithTests(steps)
                                    ELSE WithTests(steps) \cup {m}
               /\ WithSchema(more) = IF r.schema = None THEN WithSchema(steps)
                                     ELSE WithSchema(steps) \cup {m}
<1> DEFINE more == Append(steps, r)
           m == Len(steps) + 1
<1>1. /\ Len(steps) \in Nat /\ DOMAIN steps = 1 .. Len(steps)
  BY PlacesType
<1>2. /\ more \in Seq(StepRecord) /\ Len(more) = m /\ m \in Nat
      /\ DOMAIN more = 1 .. m
      /\ \A i \in 1 .. Len(steps) : more[i] = steps[i]
      /\ more[m] = r
  BY <1>1, AppendProperties, LenProperties
<1>3. /\ DOMAIN more = DOMAIN steps \cup {m}
      /\ \A i \in DOMAIN steps : i < m /\ more[i] = steps[i]
  BY <1>1, <1>2
<1> HIDE DEF more, m
<1>4. WithTests(more) = IF r.tests = None THEN WithTests(steps)
                        ELSE WithTests(steps) \cup {m}
  BY <1>2, <1>3 DEF WithTests
<1>5. WithSchema(more) = IF r.schema = None THEN WithSchema(steps)
                         ELSE WithSchema(steps) \cup {m}
  BY <1>2, <1>3 DEF WithSchema
<1> QED BY <1>2, <1>3, <1>4, <1>5 DEF more, m

LEMMA ErrorsAreCounted ==
    ASSUME NEW steps \in Seq(StepRecord), NEW r \in StepRecord, NEW k,
           CountsErrors(steps, k)
    PROVE  CountsErrors(Append(steps, r), Count(k, r))
<1> SUFFICES ASSUME NEW e \in Errors
             PROVE  StreakIs(DOMAIN Append(steps, r),
                             WithError(Append(steps, r), e),
                             Count(k, r).errors[e])
  BY DEF CountsErrors
<1>1. PICK more, m : more = Append(steps, r) /\ m = Len(steps) + 1
  OBVIOUS
<1>2. /\ m \in Nat /\ more[m] = r
      /\ DOMAIN more = DOMAIN steps \cup {m}
      /\ \A i \in DOMAIN steps : i < m /\ more[i] = steps[i]
  BY <1>1, OneMore
<1>3. m \in WithError(more, e) <=> r.error = e
  BY <1>2 DEF WithError
<1>4. \A i \in DOMAIN steps : i \in WithError(steps, e) <=> i \in WithError(more, e)
  BY <1>2 DEF WithError
<1>5. Count(k, r).errors[e] = Counted(k.errors[e], m \in WithError(more, e))
  BY <1>3 DEF Count, Counted
<1>6. StreakIs(DOMAIN steps, WithError(steps, e), k.errors[e])
  BY DEF CountsErrors
<1>7. Indices(DOMAIN steps)
  BY PlacesType
<1> HIDE DEF CountsErrors
<1>8. StreakIs(DOMAIN steps \cup {m}, WithError(more, e),
               Counted(k.errors[e], m \in WithError(more, e)))
  BY <1>2, <1>4, <1>6, <1>7, StreakIsCounted
<1> QED BY <1>1, <1>2, <1>5, <1>8

LEMMA FailuresAreCounted ==
    ASSUME NEW steps \in Seq(StepRecord), NEW r \in StepRecord, NEW k,
           CountsFailures(steps, k)
    PROVE  CountsFailures(Append(steps, r), Count(k, r))
<1> SUFFICES ASSUME NEW x \in TestNames
             PROVE  StreakIs(WithTests(Append(steps, r)),
                             WithFailed(Append(steps, r), x),
                             Count(k, r).failures[x])
  BY DEF CountsFailures
<1>1. PICK more, m : more = Append(steps, r) /\ m = Len(steps) + 1
  OBVIOUS
<1>2. /\ m \in Nat /\ more[m] = r
      /\ \A i \in DOMAIN steps : i < m /\ more[i] = steps[i]
      /\ WithTests(more) = IF r.tests = None THEN WithTests(steps)
                           ELSE WithTests(steps) \cup {m}
  BY <1>1, OneMore
<1>3. Indices(WithTests(steps)) /\ WithTests(steps) \subseteq DOMAIN steps
  BY PlacesType
<1>4. \A i \in WithTests(steps) :
         i \in WithFailed(steps, x) <=> i \in WithFailed(more, x)
  BY <1>2, <1>3 DEF WithFailed
<1>5. StreakIs(WithTests(steps), WithFailed(steps, x), k.failures[x])
  BY DEF CountsFailures
<1>6. CASE r.tests = None
  <2>1. Count(k, r).failures[x] = k.failures[x]
    BY <1>6 DEF Count
  <2> QED BY <1>1, <1>2, <1>4, <1>5, <1>6, <2>1, StreakStays
<1>7. CASE r.tests # None
  <2>1. m \in WithFailed(more, x) <=> Failed(r.tests, x)
    BY <1>2, <1>7 DEF WithFailed
  <2>2. Count(k, r).failures[x] =
           Counted(k.failures[x], m \in WithFailed(more, x))
    BY <1>7, <2>1 DEF Count, Counted
  <2>3. StreakIs(WithTests(steps) \cup {m}, WithFailed(more, x),
                 Counted(k.failures[x], m \in WithFailed(more, x)))
    BY <1>2, <1>3, <1>4, <1>5, StreakIsCounted
  <2> QED BY <1>1, <1>2, <1>7, <2>2, <2>3
<1> QED BY <1>6, <1>7

LEMMA InvalidAreCounted ==
    ASSUME NEW steps \in Seq(StepRecord), NEW r \in StepRecord, NEW k,
           CountsInvalid(steps, k)
    PROVE  CountsInvalid(Append(steps, r), Count(k, r))
<1>1. PICK more, m : more = Append(steps, r) /\ m = Len(steps) + 1
  OBVIOUS
<1>2. /\ m \in Nat /\ more[m] = r
      /\ \A i \in DOMAIN steps : i < m /\ more[i] = steps[i]
      /\ WithSchema(more) = IF r.schema = None THEN WithSchema(steps)
                            ELSE WithSchema(steps) \cup {m}
  BY <1>1, OneMore
<1>3. Indices(WithSchema(steps)) /\ WithSchema(steps) \subseteq DOMAIN steps
  BY PlacesType
<1>4. \A i \in WithSchema(steps) :
         i \in WithInvalid(steps) <=> i \in WithInvalid(more)
  BY <1>2, <1>3 DEF WithInvalid
<1>5. StreakIs(WithSchema(steps), WithInvalid(steps), k.invalid)
  BY DEF CountsInvalid
<1>6. CASE r.schema = None
  <2>1. Count(k, r).invalid = k.invalid
    BY <1>6 DEF Count
  <2> QED BY <1>1, <1>2, <1>4, <1>5, <1>6, <2>1, StreakStays DEF CountsInvalid
<1>7. CASE r.schema # None
  <2>1. m \in WithInvalid(more) <=> r.schema = FALSE
    BY <1>2, <1>7 DEF WithInvalid
  <2>2. r.schema \in BOOLEAN
    BY <1>7 DEF StepRecord
  <2>3. Count(k, r).invalid = Counted(k.invalid, m \in WithInvalid(more))
    BY <1>7, <2>1, <2>2 DEF Count, Counted
  <2>4. StreakIs(WithSchema(steps) \cup {m}, WithInvalid(more),
                 Counted(k.invalid, m \in WithInvalid(more)))
    BY <1>2, <1>3, <1>4, <1>5, StreakIsCounted
  <2> QED BY <1>1, <1>2, <1>7, <2>3, <2>4 DEF CountsInvalid
<1> QED BY <1>6, <1>7

\* Neighbours stay neighbours, and the last element gets one.
LEMMA NeighboursStay ==
    ASSUME NEW S, Indices(S), NEW m \in Nat, \A i \in S : i < m
    PROVE  /\ \A p, i \in S : Adjacent(S \cup {m}, p, i) <=> Adjacent(S, p, i)
           /\ \A p \in S : ~ Adjacent(S \cup {m}, m, p)
           /\ ~ Adjacent(S \cup {m}, m, m)
           /\ \A p \in S : Adjacent(S \cup {m}, p, m) <=> Since(S, p) = 0
<1>1. \A i \in S : i \in Nat /\ i <= m /\ ~ (m < i)
  BY DEF Indices
<1>2. ASSUME NEW p \in S PROVE Adjacent(S \cup {m}, p, m) <=> Since(S, p) = 0
  <2>1. Since(S, p) = 0 <=> Later(S, p) = {}
    BY SinceType, FS_EmptySet DEF Since
  <2>2. Later(S, p) = {} <=> \A k \in S : k <= p
    BY <1>1 DEF Later
  <2>3. Adjacent(S \cup {m}, p, m) <=> \A k \in S : k <= p
    BY <1>1 DEF Adjacent
  <2> QED BY <2>1, <2>2, <2>3
<1>3. \A p, i \in S : Adjacent(S \cup {m}, p, i) <=> Adjacent(S, p, i)
  BY <1>1 DEF Adjacent
<1>4. (\A p \in S : ~ Adjacent(S \cup {m}, m, p)) /\ ~ Adjacent(S \cup {m}, m, m)
  BY <1>1 DEF Adjacent
<1> QED BY <1>2, <1>3, <1>4

LEMMA FlipsAreCounted ==
    ASSUME NEW steps \in Seq(StepRecord), NEW r \in StepRecord, NEW k,
           CountsFlips(steps, k)
    PROVE  CountsFlips(Append(steps, r), Count(k, r))
<1>1. PICK more, m : more = Append(steps, r) /\ m = Len(steps) + 1
  OBVIOUS
<1> DEFINE S == WithTests(steps)
<1>2. /\ m \in Nat /\ more[m] = r
      /\ \A i \in DOMAIN steps : i < m /\ more[i] = steps[i]
      /\ WithTests(more) = IF r.tests = None THEN S ELSE S \cup {m}
  BY <1>1, OneMore
<1>3. Indices(S) /\ S \subseteq DOMAIN steps
  BY PlacesType
<1>4. LastResults(steps, k.results)
  BY DEF CountsFlips
<1> HIDE DEF S
<1>5. \A i \in S : i < m /\ more[i] = steps[i]
  BY <1>2, <1>3
<1>6. CASE r.tests = None
  <2>1. WithTests(more) = S /\ Count(k, r).results = k.results
        /\ Count(k, r).flips = k.flips
    BY <1>2, <1>6 DEF Count
  <2>2. LastResults(more, k.results)
    BY <1>4, <1>5, <2>1 DEF LastResults, S
  <2>3. ASSUME NEW x \in TestNames
        PROVE  StreakIs(S, WithFlip(more, x), k.flips[x])
    <3>1. WithFlip(more, x) = WithFlip(steps, x)
      BY <1>5, <2>1 DEF WithFlip, S
    <3> QED BY <3>1 DEF CountsFlips, S
  <2> QED BY <1>1, <2>1, <2>2, <2>3 DEF CountsFlips
<1>7. CASE r.tests # None
  <2>1. WithTests(more) = S \cup {m} /\ Count(k, r).results = r.tests
    BY <1>2, <1>7 DEF Count
  <2>2. /\ Since(S \cup {m}, m) = 0 /\ m \notin S
        /\ \A i \in S : Since(S \cup {m}, i) = Since(S, i) + 1
        /\ \A i \in S : Since(S, i) \in Nat
    BY <1>2, <1>3, <1>5, NewestIsLast, SinceType
  <2>3. LastResults(more, r.tests)
    <3>1. \A i \in S \cup {m} : Since(S \cup {m}, i) = 0 => i = m
      BY <2>2
    <3> QED BY <1>2, <2>1, <3>1 DEF LastResults
  <2>4. ASSUME NEW x \in TestNames
        PROVE  StreakIs(S \cup {m}, WithFlip(more, x), Count(k, r).flips[x])
    <3>1. \A i \in S : i \in WithFlip(steps, x) <=> i \in WithFlip(more, x)
      <4> SUFFICES ASSUME NEW i \in S
                   PROVE  i \in WithFlip(steps, x) <=> i \in WithFlip(more, x)
        OBVIOUS
      <4>1. \A p \in S : Adjacent(S \cup {m}, p, i) <=> Adjacent(S, p, i)
        BY <1>2, <1>3, <1>5, NeighboursStay
      <4>2. ~ Adjacent(S \cup {m}, m, i)
        BY <1>2, <1>3, <1>5, NeighboursStay
      <4> QED BY <1>5, <2>1, <4>1, <4>2 DEF WithFlip, S
    <3>2. m \in WithFlip(more, x) <=> Flipped(k.results, r.tests, x)
      <4>1. /\ \A p \in S : Adjacent(S \cup {m}, p, m) <=> Since(S, p) = 0
            /\ ~ Adjacent(S \cup {m}, m, m)
        BY <1>2, <1>3, <1>5, NeighboursStay
      <4>2. m \in WithFlip(more, x) <=>
               \E p \in S : Since(S, p) = 0 /\ Flipped(steps[p].tests, r.tests, x)
        BY <1>2, <1>5, <2>1, <4>1 DEF WithFlip
      <4>3. CASE S = {}
        BY <1>4, <4>2, <4>3 DEF LastResults, Flipped, S
      <4>4. CASE S # {}
        <5>1. Cardinality(S) \in Nat /\ Cardinality(S) # 0
          BY <1>3, <4>4, FS_EmptySet, FS_CardinalityType DEF Indices
        <5>2. PICK p \in S : Since(S, p) = 0
          BY <1>3, <5>1, PlacesAreTaken
        <5>3. \A q \in S : Since(S, q) = 0 => q = p
          BY <1>3, <5>2, SinceOrders
        <5>4. k.results = steps[p].tests
          BY <1>4, <5>2 DEF LastResults, S
        <5> QED BY <4>2, <5>2, <5>3, <5>4
      <4> QED BY <4>3, <4>4
    <3>3. Count(k, r).flips[x] = Counted(k.flips[x], m \in WithFlip(more, x))
      BY <1>7, <3>2 DEF Count, Counted
    <3>4. StreakIs(S, WithFlip(steps, x), k.flips[x])
      BY DEF CountsFlips, S
    <3>5. StreakIs(S \cup {m}, WithFlip(more, x),
                   Counted(k.flips[x], m \in WithFlip(more, x)))
      BY <1>2, <1>3, <1>5, <3>1, <3>4, StreakIsCounted
    <3> QED BY <3>3, <3>5
  <2> QED BY <1>1, <2>1, <2>3, <2>4 DEF CountsFlips
<1> QED BY <1>6, <1>7

LEMMA CountType ==
    ASSUME NEW k \in StreakCounts, NEW r \in StepRecord
    PROVE  Count(k, r) \in StreakCounts
<1>1. \A n \in Nat, goes \in BOOLEAN : Counted(n, goes) \in Nat
  BY DEF Counted
<1>2. \A e \in Errors : Counted(k.errors[e], r.error = e) \in Nat
  BY DEF StreakCounts, Counted
<1>3. \A x \in TestNames : Counted(k.failures[x], Failed(r.tests, x)) \in Nat
  BY DEF StreakCounts, Counted
<1>4. \A x \in TestNames :
         Counted(k.flips[x], Flipped(k.results, r.tests, x)) \in Nat
  BY DEF StreakCounts, Counted
<1>5. Counted(k.invalid, ~ r.schema) \in Nat
  BY DEF StreakCounts, Counted
<1>6. r.tests \in TestInputs \cup {None}
  BY DEF StepRecord
<1> HIDE DEF Counted
<1> QED BY <1>2, <1>3, <1>4, <1>5, <1>6 DEF Count, StreakCounts

\* One more step is counted right.
LEMMA StepsAreCounted ==
    ASSUME NEW steps \in Seq(StepRecord), NEW r \in StepRecord, NEW k,
           CountsStreaks(steps, k)
    PROVE  CountsStreaks(Append(steps, r), Count(k, r))
<1>1. Count(k, r).tested = Cardinality(WithTests(Append(steps, r)))
  <2>1. PICK more, m : more = Append(steps, r) /\ m = Len(steps) + 1
    OBVIOUS
  <2>2. /\ m \in Nat
        /\ \A i \in DOMAIN steps : i < m
        /\ WithTests(more) = IF r.tests = None THEN WithTests(steps)
                             ELSE WithTests(steps) \cup {m}
    BY <2>1, OneMore
  <2>3. Indices(WithTests(steps)) /\ WithTests(steps) \subseteq DOMAIN steps
    BY PlacesType
  <2>4. Cardinality(WithTests(steps) \cup {m}) = Cardinality(WithTests(steps)) + 1
    BY <2>2, <2>3, NewestIsLast
  <2> QED BY <2>1, <2>2, <2>4 DEF CountsStreaks, Count
<1> QED
  BY <1>1, CountType, ErrorsAreCounted, FailuresAreCounted, FlipsAreCounted,
     InvalidAreCounted
  DEF CountsStreaks

-----------------------------------------------------------------------------
(***************************************************************************)
(* The triggers on a list whose first d steps were dropped.                *)
(***************************************************************************)
Truncated(steps, short, d) ==
    /\ d \in 0 .. Len(steps)
    /\ short \in Seq(StepRecord) /\ Len(short) = Len(steps) - d
    /\ \A i \in DOMAIN short : short[i] = steps[i + d]

LEMMA TruncatedPlaces ==
    ASSUME NEW steps \in Seq(StepRecord), NEW short, NEW d,
           Truncated(steps, short, d)
    PROVE  /\ \A i \in Above(DOMAIN steps, d) : short[i - d] = steps[i]
           /\ DOMAIN short = From(DOMAIN steps, d)
           /\ WithTests(short) = From(WithTests(steps), d)
           /\ WithSchema(short) = From(WithSchema(steps), d)
<1>1. /\ d \in Nat /\ d <= Len(steps) /\ Len(short) = Len(steps) - d
      /\ Len(steps) \in Nat /\ DOMAIN steps = 1 .. Len(steps)
      /\ DOMAIN short = 1 .. Len(short)
      /\ \A i \in DOMAIN short : short[i] = steps[i + d]
  BY PlacesType DEF Truncated
<1>2. /\ \A i \in DOMAIN short : i + d \in Above(DOMAIN steps, d) /\ (i + d) - d = i
      /\ \A i \in Above(DOMAIN steps, d) : i - d \in DOMAIN short /\ (i - d) + d = i
  BY <1>1 DEF Above
<1>3. \A i \in Above(DOMAIN steps, d) : short[i - d] = steps[i]
  BY <1>1, <1>2
<1>4. \A S \in SUBSET (DOMAIN steps), T \in SUBSET (DOMAIN short) :
         (\A i \in Above(DOMAIN steps, d) : i \in S <=> i - d \in T)
            => T = From(S, d)
  BY <1>2 DEF From, Above
<1>5. \A i \in Above(DOMAIN steps, d) : i \in DOMAIN steps
  BY DEF Above
<1>6. DOMAIN short = From(DOMAIN steps, d)
  BY <1>2, <1>4, <1>5
<1>7. WithTests(short) = From(WithTests(steps), d)
  <2>1. \A i \in Above(DOMAIN steps, d) :
           i \in WithTests(steps) <=> i - d \in WithTests(short)
    BY <1>2, <1>3, <1>5 DEF WithTests
  <2>2. /\ WithTests(steps) \in SUBSET (DOMAIN steps)
        /\ WithTests(short) \in SUBSET (DOMAIN short)
    BY DEF WithTests
  <2> QED BY <1>4, <2>1, <2>2
<1>8. WithSchema(short) = From(WithSchema(steps), d)
  <2>1. \A i \in Above(DOMAIN steps, d) :
           i \in WithSchema(steps) <=> i - d \in WithSchema(short)
    BY <1>2, <1>3, <1>5 DEF WithSchema
  <2>2. /\ WithSchema(steps) \in SUBSET (DOMAIN steps)
        /\ WithSchema(short) \in SUBSET (DOMAIN short)
    BY DEF WithSchema
  <2> QED BY <1>4, <2>1, <2>2
<1> QED BY <1>3, <1>6, <1>7, <1>8

\* The last n places of a set, in both lists.
LEMMA TruncatedLast ==
    ASSUME NEW steps \in Seq(StepRecord), NEW short, NEW d,
           Truncated(steps, short, d), NEW S \in SUBSET (DOMAIN steps),
           NEW n \in Nat, n <= Cardinality(From(S, d))
    PROVE  /\ n <= Cardinality(S)
           /\ LastOf(From(S, d), n) = {i - d : i \in LastOf(S, n)}
           /\ \A i \in LastOf(S, n) : i \in S /\ short[i - d] = steps[i]
<1>1. Indices(S) /\ d \in Nat
  BY PlacesType, FS_Subset DEF Indices, Truncated
<1>2. \A i \in LastOf(S, n) : i \in S /\ i \in Above(DOMAIN steps, d)
  BY <1>1, TruncationKeepsLast DEF LastOf, Above
<1> QED BY <1>1, <1>2, TruncationKeepsLast, TruncatedPlaces

LEMMA RepeatedErrorSays ==
    ASSUME NEW steps \in Seq(StepRecord), NEW k, CountsStreaks(steps, k),
           NEW short, NEW d, Truncated(steps, short, d), NEW n \in Nat
    PROVE  RepeatedError(short, n) <=>
              n <= Len(short) /\ \E e \in Errors : k.errors[e] >= n
<1>0. Len(short) \in Nat
  BY PlacesType DEF Truncated
<1>1. SUFFICES ASSUME n <= Len(short), NEW e \in Errors
               PROVE  (\A i \in LastOf(DOMAIN short, n) : short[i].error = e)
                         <=> n <= k.errors[e]
  BY <1>0 DEF RepeatedError, CountsStreaks, StreakCounts
<1> DEFINE S == DOMAIN steps
<1>2. DOMAIN short = From(S, d) /\ Cardinality(From(S, d)) = Len(short)
  BY TruncatedPlaces, PlacesType DEF Truncated
<1>3. /\ n <= Cardinality(S)
      /\ LastOf(DOMAIN short, n) = {i - d : i \in LastOf(S, n)}
      /\ \A i \in LastOf(S, n) : i \in S /\ short[i - d] = steps[i]
  BY <1>1, <1>2, TruncatedLast
<1>4. (\A i \in LastOf(DOMAIN short, n) : short[i].error = e)
         <=> LastOf(S, n) \subseteq WithError(steps, e)
  BY <1>3 DEF WithError
<1>5. StreakIs(S, WithError(steps, e), k.errors[e]) /\ Indices(S)
  BY PlacesType DEF CountsStreaks, CountsErrors
<1> QED BY <1>3, <1>4, <1>5, StreakSays

LEMMA SchemaInvalidSays ==
    ASSUME NEW steps \in Seq(StepRecord), NEW k, CountsStreaks(steps, k),
           NEW short, NEW d, Truncated(steps, short, d), NEW n \in Nat
    PROVE  SchemaInvalid(short, n) <=>
              Cardinality(WithSchema(short)) >= n /\ k.invalid >= n
<1> DEFINE S == WithSchema(steps)
<1>1. /\ WithSchema(short) = From(S, d) /\ S \in SUBSET (DOMAIN steps)
      /\ Indices(S) /\ StreakIs(S, WithInvalid(steps), k.invalid)
  BY TruncatedPlaces, PlacesType DEF CountsStreaks, CountsInvalid
<1>2. /\ Len(short) \in Nat /\ Cardinality(WithSchema(short)) \in Nat
      /\ Cardinality(WithSchema(short)) <= Len(short)
  BY PlacesType, FS_Subset, FS_CardinalityType DEF Truncated, Indices
<1>3. SUFFICES ASSUME n <= Cardinality(WithSchema(short))
               PROVE  (\A i \in LastOf(WithSchema(short), n) :
                          short[i].schema = FALSE) <=> n <= k.invalid
  <2>1. k.invalid \in Nat
    BY DEF CountsStreaks, StreakCounts
  <2>2. Cardinality(WithSchema(short)) >= n => Len(short) >= n
    BY <1>2
  <2> HIDE DEF CountsStreaks
  <2> QED BY <1>2, <2>1, <2>2 DEF SchemaInvalid
<1>4. /\ n <= Cardinality(S)
      /\ LastOf(WithSchema(short), n) = {i - d : i \in LastOf(S, n)}
      /\ \A i \in LastOf(S, n) : i \in S /\ short[i - d] = steps[i]
  BY <1>1, <1>3, TruncatedLast
<1>5. (\A i \in LastOf(WithSchema(short), n) : short[i].schema = FALSE)
         <=> LastOf(S, n) \subseteq WithInvalid(steps)
  BY <1>4 DEF WithInvalid
<1> QED BY <1>1, <1>4, <1>5, StreakSays

\* Results of steps are results of tests that have names.
LEMMA ResultsType ==
    ASSUME NEW steps \in Seq(StepRecord), NEW i \in WithTests(steps)
    PROVE  /\ steps[i].tests # None /\ DOMAIN steps[i].tests \subseteq TestNames
           /\ \A x \in DOMAIN steps[i].tests : steps[i].tests[x] \in BOOLEAN
<1>1. steps[i].tests \in TestInputs /\ steps[i].tests # None
  BY PlacesType DEF WithTests, StepRecord
<1>2. steps[i].tests \in [DOMAIN steps[i].tests -> BOOLEAN]
  BY <1>1, HistoryAssumption
<1> QED BY <1>1, <1>2 DEF TestNames

LEMMA ConsecutiveFailureSays ==
    ASSUME NEW steps \in Seq(StepRecord), NEW k, CountsStreaks(steps, k),
           NEW short, NEW d, Truncated(steps, short, d), NEW n \in Nat \ {0}
    PROVE  ConsecutiveFailure(short, n) <=>
              /\ Cardinality(WithTests(short)) >= n
              /\ \E x \in TestNames : k.failures[x] >= n
<1> DEFINE S == WithTests(steps)
           W == LastOf(WithTests(short), n)
<1>1. /\ WithTests(short) = From(S, d) /\ S \in SUBSET (DOMAIN steps)
      /\ Indices(S)
  BY TruncatedPlaces, PlacesType
<1>2. Cardinality(WithTests(short)) \in Nat
  BY PlacesType, FS_CardinalityType DEF Truncated, Indices
<1>3. SUFFICES ASSUME n <= Cardinality(WithTests(short))
               PROVE  (\E x \in CommonTests(short, W) :
                          \A i \in W : short[i].tests[x] = FALSE)
                         <=> \E x \in TestNames : n <= k.failures[x]
  BY <1>2 DEF ConsecutiveFailure, CountsStreaks, StreakCounts
<1>4. /\ n <= Cardinality(S)
      /\ W = {i - d : i \in LastOf(S, n)}
      /\ \A i \in LastOf(S, n) : i \in S /\ short[i - d] = steps[i]
  BY <1>1, <1>3, TruncatedLast
<1>5. \A i \in LastOf(S, n) : /\ DOMAIN steps[i].tests \subseteq TestNames
                              /\ \A x \in DOMAIN steps[i].tests :
                                    steps[i].tests[x] \in BOOLEAN
  BY <1>4, ResultsType
<1>6. PICK last \in LastOf(S, n) : TRUE
  <2>1. 0 < n /\ 0 < Cardinality(S)
    BY <1>1, <1>4, FS_CardinalityType DEF Indices
  <2> QED BY <1>1, <2>1, PlacesAreTaken, LastAreLate
<1> HIDE DEF S
<1>7. ASSUME NEW x
      PROVE  (x \in CommonTests(short, W)
                 /\ \A i \in W : short[i].tests[x] = FALSE)
                <=> x \in TestNames /\ LastOf(S, n) \subseteq WithFailed(steps, x)
  <2>1. LastOf(S, n) \subseteq WithFailed(steps, x)
           <=> \A i \in LastOf(S, n) : Failed(steps[i].tests, x)
    BY <1>4 DEF WithFailed, S
  <2>2. x \in CommonTests(short, W)
           <=> x \in TestNames /\ \A i \in LastOf(S, n) : x \in DOMAIN steps[i].tests
    BY <1>4, <1>5, <1>6 DEF CommonTests
  <2>3. (\A i \in W : short[i].tests[x] = FALSE)
           <=> \A i \in LastOf(S, n) : steps[i].tests[x] = FALSE
    BY <1>4
  <2> HIDE DEF W
  <2> QED BY <1>5, <2>1, <2>2, <2>3 DEF Failed
<1>8. ASSUME NEW x \in TestNames
      PROVE  LastOf(S, n) \subseteq WithFailed(steps, x) <=> n <= k.failures[x]
  <2>1. StreakIs(S, WithFailed(steps, x), k.failures[x])
    BY DEF CountsStreaks, CountsFailures, S
  <2> QED BY <1>1, <1>4, <2>1, StreakSays
<1> HIDE DEF W
<1> QED BY <1>7, <1>8

-----------------------------------------------------------------------------
\* Of neighbours, the first has one more element behind it.
LEMMA NeighboursCount ==
    ASSUME NEW S, Indices(S), NEW p \in S, NEW i \in S
    PROVE  Adjacent(S, p, i) <=> Since(S, p) = Since(S, i) + 1
<1>1. /\ \A j \in S : j \in Nat /\ Since(S, j) \in Nat
      /\ IsFiniteSet(Later(S, i))
  BY SinceType DEF Indices
<1>2. ASSUME Adjacent(S, p, i) PROVE Since(S, p) = Since(S, i) + 1
  <2>1. Later(S, p) = Later(S, i) \cup {i} /\ i \notin Later(S, i)
    BY <1>1, <1>2 DEF Adjacent, Later
  <2> QED BY <1>1, <2>1, FS_AddElement DEF Since
<1>3. ASSUME Since(S, p) = Since(S, i) + 1 PROVE Adjacent(S, p, i)
  <2>1. p < i
    BY <1>1, <1>3, SinceOrders
  <2>2. ASSUME NEW j \in S, p < j, j < i PROVE FALSE
    <3>1. Since(S, i) < Since(S, j) /\ Since(S, j) < Since(S, p)
      BY <2>2, SinceOrders
    <3> QED BY <1>1, <1>3, <3>1
  <2> QED BY <1>1, <2>1, <2>2 DEF Adjacent
<1> QED BY <1>2, <1>3

\* In the last n elements, neighbours are those of S.
LEMMA NeighboursInWindow ==
    ASSUME NEW S, Indices(S), NEW n \in Nat,
           NEW p \in LastOf(S, n), NEW i \in LastOf(S, n)
    PROVE  Adjacent(LastOf(S, n), p, i) <=> Adjacent(S, p, i)
<1>1. /\ \A j \in S : j \in Nat /\ Since(S, j) \in Nat
      /\ \A j \in S : j \in LastOf(S, n) <=> Since(S, j) < n
      /\ \A j \in LastOf(S, n) : j \in S
  BY SinceType, LastAreLate DEF Indices
<1>2. ASSUME NEW j \in S, p < j PROVE j \in LastOf(S, n)
  <2>1. Since(S, j) < Since(S, p)
    BY <1>1, <1>2, SinceOrders
  <2> QED BY <1>1, <2>1
<1> QED BY <1>1, <1>2 DEF Adjacent

\* A test alternates over a window exactly when each of its steps but the
\* first one is a flip.
LEMMA WindowAlternates ==
    ASSUME NEW steps \in Seq(StepRecord), NEW x,
           Cardinality(WithTests(steps)) >= OscillationWindow
    PROVE  LET W == LastOf(WithTests(steps), OscillationWindow)
           IN  (/\ \A i \in W : x \in DOMAIN steps[i].tests
                /\ \A i, j \in W :
                      Adjacent(W, i, j) => steps[i].tests[x] # steps[j].tests[x])
                  <=> LastOf(WithTests(steps), 3) \subseteq WithFlip(steps, x)
<1> DEFINE S == WithTests(steps)
           W == LastOf(S, 4)
<1>1. Indices(S) /\ Cardinality(S) \in Nat /\ Cardinality(S) >= 4
  BY PlacesType, FS_CardinalityType DEF Indices, OscillationWindow
<1>2. \A i \in S : steps[i].tests # None
  BY DEF WithTests
<1>3. /\ \A i \in S : Since(S, i) \in Nat /\ i \in Nat
      /\ \A i \in S : i \in W <=> Since(S, i) < 4
      /\ \A i \in S : i \in LastOf(S, 3) <=> Since(S, i) < 3
      /\ \A i \in W : i \in S
      /\ \A i \in LastOf(S, 3) : i \in S
  BY <1>1, SinceType, LastAreLate DEF Indices
<1> HIDE DEF S
<1>4. \A i, j \in W : Adjacent(W, i, j) <=> Since(S, i) = Since(S, j) + 1
  BY <1>1, <1>3, NeighboursCount, NeighboursInWindow
<1>5. \A i \in S : i \in WithFlip(steps, x) <=>
         \E p \in S : /\ Since(S, p) = Since(S, i) + 1
                      /\ Flipped(steps[p].tests, steps[i].tests, x)
  BY <1>1, NeighboursCount DEF WithFlip, S
<1>6. \A p, i \in S : Since(S, p) = Since(S, i) <=> p = i
  BY <1>1, SinceOrders
<1> HIDE DEF W
<1>7. ASSUME \A i \in W : x \in DOMAIN steps[i].tests,
             \A i, j \in W :
                Adjacent(W, i, j) => steps[i].tests[x] # steps[j].tests[x],
             NEW i \in LastOf(S, 3)
      PROVE  i \in WithFlip(steps, x)
  <2>1. /\ i \in S /\ i \in W
        /\ Since(S, i) + 1 \in Nat /\ Since(S, i) + 1 < Cardinality(S)
        /\ Since(S, i) + 1 < 4
    BY <1>1, <1>3
  <2>2. PICK p \in S : Since(S, p) = Since(S, i) + 1
    BY <1>1, <2>1, PlacesAreTaken
  <2>3. p \in W /\ Adjacent(W, p, i)
    BY <1>3, <1>4, <2>1, <2>2
  <2>4. Flipped(steps[p].tests, steps[i].tests, x)
    BY <1>2, <1>7, <2>1, <2>3 DEF Flipped
  <2> QED BY <1>5, <2>1, <2>2, <2>4
<1>8. ASSUME LastOf(S, 3) \subseteq WithFlip(steps, x)
      PROVE  /\ \A i \in W : x \in DOMAIN steps[i].tests
             /\ \A i, j \in W :
                   Adjacent(W, i, j) => steps[i].tests[x] # steps[j].tests[x]
  <2>1. ASSUME NEW i \in S, Since(S, i) < 3
        PROVE  \E p \in S : /\ Since(S, p) = Since(S, i) + 1
                            /\ Flipped(steps[p].tests, steps[i].tests, x)
    BY <1>3, <1>5, <1>8, <2>1
  <2>2. ASSUME NEW i \in W PROVE x \in DOMAIN steps[i].tests
    <3>1. i \in S /\ Since(S, i) < 4 /\ Since(S, i) \in Nat
      BY <1>3
    <3>2. CASE Since(S, i) < 3
      BY <2>1, <3>1, <3>2 DEF Flipped
    <3>3. CASE Since(S, i) = 3
      <4>1. PICK j \in S : Since(S, j) = 2
        BY <1>1, PlacesAreTaken
      <4>2. PICK p \in S : /\ Since(S, p) = 3
                           /\ Flipped(steps[p].tests, steps[j].tests, x)
        BY <2>1, <4>1
      <4>3. p = i
        BY <1>6, <3>1, <3>3, <4>2
      <4> QED BY <4>2, <4>3 DEF Flipped
    <3> QED BY <3>1, <3>2, <3>3
  <2>3. ASSUME NEW i \in W, NEW j \in W, Adjacent(W, i, j)
        PROVE  steps[i].tests[x] # steps[j].tests[x]
    <3>1. /\ i \in S /\ j \in S /\ Since(S, i) = Since(S, j) + 1
          /\ Since(S, j) < 3
      BY <1>3, <1>4, <2>3
    <3>2. PICK p \in S : /\ Since(S, p) = Since(S, j) + 1
                         /\ Flipped(steps[p].tests, steps[j].tests, x)
      BY <2>1, <3>1
    <3>3. p = i
      BY <1>6, <3>1, <3>2
    <3> QED BY <3>2, <3>3 DEF Flipped
  <2> QED BY <2>2, <2>3
<1>9. W = LastOf(WithTests(steps), OscillationWindow) /\ S = WithTests(steps)
  BY DEF W, S, OscillationWindow
<1> QED BY <1>7, <1>8, <1>9

LEMMA OscillationSays ==
    ASSUME NEW steps \in Seq(StepRecord), NEW k, CountsStreaks(steps, k),
           NEW short, NEW d, Truncated(steps, short, d), NEW n \in Nat
    PROVE  Oscillation(short, n) <=>
              /\ Cardinality(WithTests(short)) >= n
              /\ Cardinality(WithTests(short)) >= OscillationWindow
              /\ \E x \in TestNames : k.flips[x] >= 3
<1> DEFINE S == WithTests(steps)
           T == WithTests(short)
           V == LastOf(S, OscillationWindow)
           W == LastOf(T, OscillationWindow)
           Differ(list, win, x) ==
              \A i, j \in win :
                 Adjacent(win, i, j) => list[i].tests[x] # list[j].tests[x]
<1>1. /\ T = From(S, d) /\ S \in SUBSET (DOMAIN steps) /\ Indices(S)
      /\ d \in Nat /\ OscillationWindow \in Nat /\ 3 \in Nat
  <2>1. T = From(S, d) /\ S \in SUBSET (DOMAIN steps) /\ Indices(S)
    BY TruncatedPlaces, PlacesType
  <2>2. d \in Nat
    BY PlacesType DEF Truncated
  <2>3. OscillationWindow \in Nat /\ 3 \in Nat
    BY DEF OscillationWindow
  <2> HIDE DEF S, T
  <2> QED BY <2>1, <2>2, <2>3
<1>2. Cardinality(T) \in Nat
  BY PlacesType, FS_CardinalityType DEF Truncated, Indices
<1>3. SUFFICES ASSUME OscillationWindow <= Cardinality(T)
               PROVE  (\E x \in CommonTests(short, W) : Differ(short, W, x))
                         <=> \E x \in TestNames : k.flips[x] >= 3
  BY <1>1, <1>2 DEF Oscillation
<1>4. /\ OscillationWindow <= Cardinality(S)
      /\ W = {i - d : i \in V}
      /\ \A i \in V : i \in S /\ short[i - d] = steps[i]
  BY <1>1, <1>3, TruncatedLast
<1>5. \A i \in V : i \in Nat /\ d < i /\ DOMAIN steps[i].tests \subseteq TestNames
  BY <1>1, <1>3, <1>4, TruncationKeepsLast, ResultsType DEF Above, Indices
<1>6. PICK last \in V : TRUE
  <2>1. 0 < OscillationWindow /\ 0 < Cardinality(S)
    BY <1>1, <1>4, FS_CardinalityType DEF Indices, OscillationWindow
  <2>2. PICK i \in S : Since(S, i) = 0
    BY <1>1, <2>1, PlacesAreTaken
  <2>3. i \in V
    BY <2>1, <2>2, LastAreLate
  <2> QED BY <2>3
<1> HIDE DEF S, T, V
<1>7. \A i, j \in V : Adjacent(W, i - d, j - d) <=> Adjacent(V, i, j)
  <2>1. \A i, j \in V : /\ i - d < j - d <=> i < j
                        /\ i - d <= j - d <=> i <= j
    BY <1>1, <1>5
  <2> QED BY <1>4, <2>1 DEF Adjacent
<1>8. ASSUME NEW x PROVE Differ(short, W, x) <=> Differ(steps, V, x)
  <2> HIDE DEF W
  <2>1. ASSUME Differ(steps, V, x), NEW i \in W, NEW j \in W, Adjacent(W, i, j)
        PROVE  short[i].tests[x] # short[j].tests[x]
    <3>1. PICK a \in V, b \in V : i = a - d /\ j = b - d
      BY <1>4
    <3> QED BY <1>4, <1>7, <2>1, <3>1
  <2>2. ASSUME Differ(short, W, x), NEW i \in V, NEW j \in V, Adjacent(V, i, j)
        PROVE  steps[i].tests[x] # steps[j].tests[x]
    <3>1. i - d \in W /\ j - d \in W /\ Adjacent(W, i - d, j - d)
      BY <1>4, <1>7, <2>2
    <3>2. short[i - d].tests[x] # short[j - d].tests[x]
      BY <2>2, <3>1
    <3>3. short[i - d] = steps[i] /\ short[j - d] = steps[j]
      BY <1>4
    <3> QED BY <3>2, <3>3
  <2> QED BY <2>1, <2>2
<1>9. ASSUME NEW x
      PROVE  x \in CommonTests(short, W) <=>
                x \in TestNames /\ \A i \in V : x \in DOMAIN steps[i].tests
  BY <1>4, <1>5, <1>6 DEF CommonTests
<1>10. ASSUME NEW x \in TestNames
       PROVE  (\A i \in V : x \in DOMAIN steps[i].tests) /\ Differ(steps, V, x)
                 <=> k.flips[x] >= 3
  <2>1. Cardinality(WithTests(steps)) >= OscillationWindow
    BY <1>1, <1>4, FS_CardinalityType DEF S, Indices
  <2>2. (\A i \in V : x \in DOMAIN steps[i].tests) /\ Differ(steps, V, x)
           <=> LastOf(S, 3) \subseteq WithFlip(steps, x)
    BY <2>1, WindowAlternates DEF S, V
  <2>3. StreakIs(S, WithFlip(steps, x), k.flips[x])
    BY DEF CountsStreaks, CountsFlips, S
  <2>4. 3 <= Cardinality(S)
    BY <1>1, <1>4, FS_CardinalityType DEF Indices, OscillationWindow
  <2>5. k.flips[x] \in Nat
    BY DEF CountsStreaks, StreakCounts
  <2> QED BY <1>1, <2>2, <2>3, <2>4, <2>5, StreakSays
<1> HIDE DEF W, Differ
<1> QED BY <1>8, <1>9, <1>10

-----------------------------------------------------------------------------
(***************************************************************************)
(* The invariant: the counters are right, the list that is kept is the end *)
(* of the whole one, as long as the bound allows, and the steps are        *)
(* numbered until it is reached.                                           *)
(***************************************************************************)
Dropped == Len(full) - Len(kept)

KeptIsTheEnd ==
    /\ Truncated(full, kept, Dropped)
    /\ Len(kept) = IF Len(full) <= MaxHistory THEN Len(full) ELSE MaxHistory

IsNumbered ==
    \A j \in DOMAIN full :
        full[j].num = IF j <= MaxHistory THEN j - 1 ELSE MaxHistory

StreakInv ==
    /\ full \in Seq(StepRecord)
    /\ CountsStreaks(full, streaks)
    /\ KeptIsTheEnd
    /\ IsNumbered

\* A list is what is left of it when nothing was dropped.
LEMMA NothingDropped ==
    ASSUME NEW steps \in Seq(StepRecord) PROVE Truncated(steps, steps, 0)
<1>1. /\ Len(steps) \in Nat /\ 0 \in 0 .. Len(steps)
      /\ \A i \in DOMAIN steps : i \in Nat /\ i + 0 = i
  BY PlacesType
<1> QED BY <1>1 DEF Truncated

\* add_step keeps the end of the list, one step further on.
LEMMA AddStepKeepsTheEnd ==
    ASSUME NEW r \in StepRecord, full \in Seq(StepRecord), KeptIsTheEnd,
           full' = Append(full, r), kept' = AddStep(kept, r)
    PROVE  KeptIsTheEnd'
<1> DEFINE n == Len(kept)
           longer == Append(kept, r)
<1>0. /\ n \in Nat /\ Len(full) \in Nat
      /\ MaxHistory \in Nat /\ MaxHistory # 0
      /\ n <= MaxHistory
      /\ n = Len(full) \/ (n = MaxHistory /\ n < Len(full))
      /\ Dropped \in Nat /\ Dropped + n = Len(full)
  <2>1. /\ kept \in Seq(StepRecord) /\ Dropped \in 0 .. Len(full)
        /\ n = IF Len(full) <= MaxHistory THEN Len(full) ELSE MaxHistory
    BY DEF KeptIsTheEnd, Truncated
  <2>2. n \in Nat /\ Len(full) \in Nat /\ MaxHistory \in Nat /\ MaxHistory # 0
    BY <2>1, HistoryAssumption, PlacesType
  <2>3. Dropped \in Nat /\ Dropped + n = Len(full)
    BY <2>1, <2>2 DEF Dropped
  <2>4. n <= MaxHistory /\ (n = Len(full) \/ (n = MaxHistory /\ n < Len(full)))
    <3>1. CASE Len(full) <= MaxHistory
      BY <2>1, <2>2, <3>1
    <3>2. CASE ~ (Len(full) <= MaxHistory)
      <4>1. n = MaxHistory
        BY <2>1, <3>2
      <4> QED BY <2>2, <3>2, <4>1
    <3> QED BY <3>1, <3>2
  <2> QED BY <2>2, <2>3, <2>4
<1>1. /\ kept \in Seq(StepRecord)
      /\ \A i \in 1 .. n : kept[i] = full[i + Dropped]
  BY PlacesType DEF KeptIsTheEnd, Truncated
<1>2. /\ longer \in Seq(StepRecord) /\ Len(longer) = n + 1
      /\ \A i \in 1 .. n : longer[i] = kept[i]
      /\ longer[n + 1] = r
  BY <1>1, AppendProperties
<1>3. /\ full' \in Seq(StepRecord) /\ Len(full') = Len(full) + 1
      /\ \A i \in 1 .. Len(full) : full'[i] = full[i]
      /\ full'[Len(full) + 1] = r
  BY <1>1, AppendProperties
<1>4. \A i \in 1 .. n + 1 : longer[i] = full'[i + Dropped]
  <2> SUFFICES ASSUME NEW i \in 1 .. n + 1 PROVE longer[i] = full'[i + Dropped]
    OBVIOUS
  <2>1. CASE i \in 1 .. n
    <3>1. i + Dropped \in 1 .. Len(full)
      BY <1>0, <2>1
    <3> QED BY <1>1, <1>2, <1>3, <2>1, <3>1
  <2>2. CASE i = n + 1
    <3>1. i + Dropped = Len(full) + 1
      BY <1>0, <2>2
    <3> QED BY <1>2, <1>3, <2>2, <3>1
  <2>3. i \in 1 .. n \/ i = n + 1
    BY <1>0
  <2> QED BY <2>1, <2>2, <2>3
<1> HIDE DEF longer
<1>10. AddStep(kept, r) = IF Len(longer) > MaxHistory
                          THEN SubSeq(longer, Len(longer) - MaxHistory + 1,
                                      Len(longer))
                          ELSE longer
  BY DEF AddStep, longer
<1>11. Dropped' = Len(full') - Len(kept')
  BY DEF Dropped
<1>5. CASE n + 1 <= MaxHistory
  <2>1. kept' = longer
    BY <1>0, <1>2, <1>5, <1>10
  <2>2. Dropped' = Dropped /\ Dropped = 0
    BY <1>0, <1>2, <1>3, <1>5, <1>11, <2>1
  <2>3. DOMAIN kept' = 1 .. n + 1 /\ Len(kept') = n + 1
    BY <1>2, <2>1, LenProperties
  <2>4. \A i \in DOMAIN kept' : kept'[i] = full'[i + Dropped']
    BY <1>4, <2>1, <2>2, <2>3
  <2>5. Dropped' \in 0 .. Len(full') /\ Len(kept') = Len(full') - Dropped'
    BY <1>0, <1>3, <2>2, <2>3
  <2>6. Len(kept') = IF Len(full') <= MaxHistory THEN Len(full') ELSE MaxHistory
    BY <1>0, <1>3, <1>5, <2>2, <2>3
  <2> QED BY <1>2, <2>1, <2>4, <2>5, <2>6 DEF KeptIsTheEnd, Truncated
<1>6. CASE ~ (n + 1 <= MaxHistory)
  <2>1. n = MaxHistory /\ n \in Nat \ {0}
    BY <1>0, <1>6
  <2>2. kept' = SubSeq(longer, 2, n + 1)
    BY <1>0, <1>2, <1>6, <1>10, <2>1
  <2>3. /\ Len(kept') = n /\ kept' \in Seq(StepRecord)
        /\ \A i \in 1 .. n : kept'[i] = longer[i + 1]
    <3>1. \A i \in 2 .. n + 1 : longer[i] \in StepRecord
      BY <1>0, <1>2, ElementOfSeq, LenProperties
    <3>2. 2 \in Int /\ n + 1 \in Int
      BY <1>0
    <3>3. /\ SubSeq(longer, 2, n + 1) \in Seq(StepRecord)
          /\ Len(SubSeq(longer, 2, n + 1)) =
                IF 2 <= n + 1 THEN (n + 1) - 2 + 1 ELSE 0
          /\ \A i \in 1 .. (n + 1) - 2 + 1 :
                SubSeq(longer, 2, n + 1)[i] = longer[2 + i - 1]
      BY <3>1, <3>2, SubSeqProperties
    <3>4. (n + 1) - 2 + 1 = n /\ 2 <= n + 1 /\ \A i \in 1 .. n : 2 + i - 1 = i + 1
      BY <2>1
    <3> QED BY <2>2, <3>3, <3>4
  <2>4. Dropped' = Dropped + 1
    <3>1. Len(full') = Len(full) + 1 /\ Len(kept') = n
      BY <1>3, <2>3
    <3>2. Dropped' = (Len(full) + 1) - n
      BY <1>11, <3>1
    <3> QED BY <1>0, <3>2
  <2>5. DOMAIN kept' = 1 .. n
    BY <2>3, LenProperties
  <2>6. \A i \in DOMAIN kept' : kept'[i] = full'[i + Dropped']
    <3> SUFFICES ASSUME NEW i \in 1 .. n PROVE kept'[i] = full'[i + Dropped']
      BY <2>5
    <3>1. i + 1 \in 1 .. n + 1 /\ (i + 1) + Dropped = i + Dropped'
      BY <1>0, <2>4
    <3> QED BY <1>4, <2>3, <3>1
  <2>7. Dropped' \in 0 .. Len(full') /\ Len(kept') = Len(full') - Dropped'
    <3>1. Len(full') = Len(full) + 1 /\ Len(kept') = n
      BY <1>3, <2>3
    <3>2. Dropped' \in Nat /\ Dropped' <= Len(full) + 1
          /\ n = (Len(full) + 1) - Dropped'
      BY <1>0, <2>4
    <3>3. Dropped' \in 0 .. (Len(full) + 1)
      BY <1>0, <3>2
    <3> QED BY <3>1, <3>2, <3>3
  <2>8. Len(kept') = IF Len(full') <= MaxHistory THEN Len(full') ELSE MaxHistory
    BY <1>0, <1>3, <2>1, <2>3
  <2> QED BY <2>3, <2>6, <2>7, <2>8 DEF KeptIsTheEnd, Truncated
<1> QED BY <1>5, <1>6

-----------------------------------------------------------------------------
LEMMA NothingCounted == StreakInit => StreakInv
<1> SUFFICES ASSUME StreakInit PROVE StreakInv
  OBVIOUS
<1>1. /\ full = <<>> /\ kept = <<>> /\ <<>> \in Seq(StepRecord)
      /\ Len(<<>>) = 0 /\ DOMAIN <<>> = {}
  BY EmptySeq DEF StreakInit
<1>2. WithTests(<<>>) = {} /\ WithSchema(<<>>) = {}
  BY <1>1 DEF WithTests, WithSchema
<1>3. NoStreaks \in StreakCounts
  BY DEF NoStreaks, StreakCounts
<1>4. CountsErrors(<<>>, NoStreaks) /\ CountsFailures(<<>>, NoStreaks)
      /\ CountsInvalid(<<>>, NoStreaks)
  BY <1>1, <1>2, NoStreak
  DEF NoStreaks, CountsErrors, CountsFailures, CountsInvalid
<1>5. CountsFlips(<<>>, NoStreaks)
  BY <1>2, NoStreak DEF NoStreaks, CountsFlips, LastResults
<1>6. CountsStreaks(<<>>, NoStreaks)
  BY <1>2, <1>3, <1>4, <1>5, FS_EmptySet DEF CountsStreaks, NoStreaks
<1>7. KeptIsTheEnd
  <2>1. Truncated(<<>>, <<>>, 0)
    BY <1>1, NothingDropped
  <2>2. Dropped = 0 /\ 0 <= MaxHistory
    BY <1>1, HistoryAssumption DEF Dropped
  <2> QED BY <1>1, <2>1, <2>2 DEF KeptIsTheEnd
<1>8. IsNumbered
  BY <1>1 DEF IsNumbered
<1> QED BY <1>1, <1>6, <1>7, <1>8 DEF StreakInv, StreakInit

LEMMA AddCounts ==
    ASSUME StreakInv, NEW s \in StepRecord, Add(s)
    PROVE  StreakInv'
<1>1. PICK r : /\ r = [s EXCEPT !.num = Len(kept)]
               /\ full' = Append(full, r) /\ kept' = AddStep(kept, r)
               /\ streaks' = Count(streaks, r)
  BY DEF Add
<1>2. r \in StepRecord
  <2>1. Len(kept) \in Nat
    BY PlacesType DEF StreakInv, KeptIsTheEnd, Truncated
  <2> QED BY <1>1, <2>1 DEF StepRecord
<1>3. full \in Seq(StepRecord) /\ CountsStreaks(full, streaks) /\ KeptIsTheEnd
  BY DEF StreakInv
<1>4. full' \in Seq(StepRecord)
  BY <1>1, <1>2, <1>3, AppendProperties
<1>5. CountsStreaks(full', streaks')
  BY <1>1, <1>2, <1>3, StepsAreCounted
<1>6. KeptIsTheEnd'
  BY <1>1, <1>2, <1>3, AddStepKeepsTheEnd
<1>7. IsNumbered'
  <2>1. /\ Len(full) \in Nat /\ MaxHistory \in Nat
        /\ r.num = IF Len(full) <= MaxHistory THEN Len(full) ELSE MaxHistory
    <3>1. r.num = Len(kept)
      BY <1>1 DEF StepRecord
    <3> QED BY <1>3, <3>1, HistoryAssumption, PlacesType DEF KeptIsTheEnd
  <2>2. /\ DOMAIN full' = 1 .. Len(full) + 1 /\ DOMAIN full = 1 .. Len(full)
        /\ \A j \in 1 .. Len(full) : full'[j] = full[j]
        /\ full'[Len(full) + 1] = r
    BY <1>1, <1>2, <1>3, AppendProperties, LenProperties
  <2>3. ASSUME NEW j \in DOMAIN full'
        PROVE  full'[j].num = IF j <= MaxHistory THEN j - 1 ELSE MaxHistory
    <3>1. CASE j \in DOMAIN full
      BY <2>2, <3>1 DEF StreakInv, IsNumbered
    <3>2. CASE j = Len(full) + 1
      BY <2>1, <2>2, <3>2
    <3> QED BY <2>1, <2>2, <2>3, <3>1, <3>2
  <2> QED BY <2>3 DEF IsNumbered
<1> QED BY <1>4, <1>5, <1>6, <1>7 DEF StreakInv

LEMMA StreakStep == StreakInv /\ [StreakNext]_svars => StreakInv'
<1> SUFFICES ASSUME StreakInv, [StreakNext]_svars PROVE StreakInv'
  OBVIOUS
<1>1. CASE StreakNext
  BY <1>1, AddCounts DEF StreakNext
<1>2. CASE UNCHANGED svars
  BY <1>2 DEF svars, StreakInv, KeptIsTheEnd, Dropped, IsNumbered
<1> QED BY <1>1, <1>2

LEMMA StreakCorrect == StreakSpec => []StreakInv
BY NothingCounted, StreakStep, PTL DEF StreakSpec

(***************************************************************************)
(* The history is a list of step records that never exceeds its bound,     *)
(* however many steps are added.                                           *)
(***************************************************************************)
THEOREM HistoryIsBounded == StreakSpec => []StreakTypeOK
<1>1. StreakInv => StreakTypeOK
  <2> SUFFICES ASSUME StreakInv PROVE StreakTypeOK
    OBVIOUS
  <2>1. Len(kept) <= MaxHistory
    <3>1. Len(full) \in Nat /\ MaxHistory \in Nat
      BY HistoryAssumption, PlacesType DEF StreakInv
    <3>2. CASE Len(full) <= MaxHistory
      <4>1. Len(kept) = Len(full)
        BY <3>2 DEF StreakInv, KeptIsTheEnd
      <4> QED BY <3>2, <4>1
    <3>3. CASE ~ (Len(full) <= MaxHistory)
      <4>1. Len(kept) = MaxHistory
        BY <3>3 DEF StreakInv, KeptIsTheEnd
      <4> QED BY <3>1, <4>1
    <3> QED BY <3>2, <3>3
  <2> QED
    BY <2>1 DEF StreakInv, KeptIsTheEnd, Truncated, CountsStreaks, StreakTypeOK
<1> QED BY <1>1, StreakCorrect, PTL

-----------------------------------------------------------------------------
\* No streak is longer than the list; three flips take four results.
LEMMA StreaksFit ==
    ASSUME NEW steps \in Seq(StepRecord), NEW k, CountsStreaks(steps, k)
    PROVE  /\ \A e \in Errors : k.errors[e] \in Nat /\ k.errors[e] <= Len(steps)
           /\ \A x \in TestNames :
                 k.failures[x] \in Nat /\ k.failures[x] <= k.tested
           /\ \A x \in TestNames :
                 k.flips[x] >= 3 => k.tested >= OscillationWindow
           /\ k.invalid \in Nat /\ k.invalid <= Cardinality(WithSchema(steps))
           /\ k.tested \in Nat /\ k.tested = Cardinality(WithTests(steps))
<1>1. /\ \A e \in Errors : k.errors[e] \in Nat /\ k.errors[e] <= Len(steps)
      /\ \A x \in TestNames :
            k.failures[x] \in Nat /\ k.failures[x] <= k.tested
      /\ k.invalid \in Nat /\ k.invalid <= Cardinality(WithSchema(steps))
      /\ k.tested \in Nat /\ k.tested = Cardinality(WithTests(steps))
  <2>1. Cardinality(DOMAIN steps) = Len(steps)
    BY PlacesType
  <2> QED
    BY <2>1 DEF CountsStreaks, StreakCounts, CountsErrors, CountsFailures,
                CountsInvalid, StreakIs
<1>2. ASSUME NEW x \in TestNames, k.flips[x] >= 3
      PROVE  k.tested >= OscillationWindow
  <2> DEFINE S == WithTests(steps)
             G == WithFlip(steps, x)
  <2>1. /\ StreakIs(S, G, k.flips[x]) /\ Indices(S) /\ k.tested = Cardinality(S)
        /\ k.flips[x] \in Nat
    BY PlacesType DEF CountsStreaks, CountsFlips, StreakIs
  <2> HIDE DEF S
  <2>2. k.flips[x] <= Cardinality(S)
    BY <2>1 DEF StreakIs
  <2>3. SUFFICES ASSUME Cardinality(S) = 3 PROVE FALSE
    BY <1>1, <1>2, <2>1, <2>2 DEF OscillationWindow
  <2>4. PICK i \in S : Since(S, i) = 2
    BY <2>1, <2>3, PlacesAreTaken
  <2>5. i \in G
    BY <1>2, <2>1, <2>4 DEF StreakIs
  <2>6. PICK p \in S : Adjacent(S, p, i)
    BY <2>5 DEF WithFlip, S
  <2>7. Since(S, p) = 3
    BY <2>1, <2>4, <2>6, NeighboursCount
  <2> QED BY <2>1, <2>3, <2>7, SinceType
<1> QED BY <1>1, <1>2

(***************************************************************************)
(* The triggers find exactly the streaks that counting step by step finds, *)
(* in histories of any length and for any threshold; of the oscillation    *)
(* that holds for thresholds up to its window.                             *)
(***************************************************************************)
THEOREM TriggersFindStreaks == StreakSpec => []TriggersAreStreaks
<1>1. StreakInv => TriggersAreStreaks
  <2> SUFFICES ASSUME StreakInv, NEW n \in Thresholds
               PROVE  /\ RepeatedError(full, n) <=> ErrorRepeats(n)
                      /\ ConsecutiveFailure(full, n) <=> TestFails(n)
                      /\ n <= OscillationWindow
                            => (Oscillation(full, n) <=> TestFlips)
                      /\ SchemaInvalid(full, n) <=> SchemaFails(n)
    BY DEF TriggersAreStreaks
  <2>1. n \in Nat /\ n \in Nat \ {0}
    BY StreakAssumption
  <2>2. /\ full \in Seq(StepRecord) /\ CountsStreaks(full, streaks)
        /\ Truncated(full, full, 0)
    BY NothingDropped DEF StreakInv
  <2>3. /\ Len(full) \in Nat /\ Cardinality(WithSchema(full)) \in Nat
        /\ streaks.tested \in Nat
        /\ streaks.tested = Cardinality(WithTests(full))
    BY <2>2, PlacesType, StreaksFit, FS_CardinalityType DEF Indices
  <2>4. RepeatedError(full, n) <=> ErrorRepeats(n)
    <3>1. RepeatedError(full, n) <=>
             n <= Len(full) /\ \E e \in Errors : streaks.errors[e] >= n
      BY <2>1, <2>2, RepeatedErrorSays
    <3>2. \A e \in Errors : streaks.errors[e] >= n => n <= Len(full)
      BY <2>1, <2>2, <2>3, StreaksFit
    <3> QED BY <3>1, <3>2 DEF ErrorRepeats
  <2>5. ConsecutiveFailure(full, n) <=> TestFails(n)
    <3>1. ConsecutiveFailure(full, n) <=>
             /\ Cardinality(WithTests(full)) >= n
             /\ \E x \in TestNames : streaks.failures[x] >= n
      BY <2>1, <2>2, ConsecutiveFailureSays
    <3>2. \A x \in TestNames : streaks.failures[x] >= n => streaks.tested >= n
      BY <2>1, <2>2, <2>3, StreaksFit
    <3> QED BY <2>3, <3>1, <3>2 DEF TestFails
  <2>6. ASSUME n <= OscillationWindow
        PROVE  Oscillation(full, n) <=> TestFlips
    <3>1. Oscillation(full, n) <=>
             /\ Cardinality(WithTests(full)) >= n
             /\ Cardinality(WithTests(full)) >= OscillationWindow
             /\ \E x \in TestNames : streaks.flips[x] >= 3
      BY <2>1, <2>2, OscillationSays
    <3>2. \A x \in TestNames :
             streaks.flips[x] >= 3 => streaks.tested >= OscillationWindow
      BY <2>2, StreaksFit
    <3>3. streaks.tested >= OscillationWindow => streaks.tested >= n
      BY <2>1, <2>3, <2>6 DEF OscillationWindow
    <3> QED BY <2>3, <3>1, <3>2, <3>3 DEF TestFlips
  <2>7. SchemaInvalid(full, n) <=> SchemaFails(n)
    <3>1. SchemaInvalid(full, n) <=>
             Cardinality(WithSchema(full)) >= n /\ streaks.invalid >= n
      BY <2>1, <2>2, SchemaInvalidSays
    <3>2. streaks.invalid >= n => Cardinality(WithSchema(full)) >= n
      BY <2>1, <2>2, <2>3, StreaksFit
    <3> QED BY <3>1, <3>2 DEF SchemaFails
  <2> QED BY <2>4, <2>5, <2>6, <2>7
<1> QED BY <1>1, StreakCorrect, PTL

\* What the triggers say of the list that is kept.
LEMMA KeptTriggers ==
    ASSUME StreakInv, NEW n \in Nat \ {0}
    PROVE  /\ RepeatedError(kept, n) <=> n <= MaxHistory /\ ErrorRepeats(n)
           /\ ConsecutiveFailure(kept, n) <=> HeldTests >= n /\ TestFails(n)
           /\ Oscillation(kept, n) <=>
                 HeldTests >= n /\ HeldTests >= OscillationWindow /\ TestFlips
           /\ SchemaInvalid(kept, n) <=> HeldSchemas >= n /\ SchemaFails(n)
<1>1. /\ full \in Seq(StepRecord) /\ CountsStreaks(full, streaks)
      /\ Truncated(full, kept, Dropped) /\ n \in Nat
  BY DEF StreakInv, KeptIsTheEnd
<1>2. RepeatedError(kept, n) <=> n <= MaxHistory /\ ErrorRepeats(n)
  <2>1. RepeatedError(kept, n) <=>
           n <= Len(kept) /\ \E e \in Errors : streaks.errors[e] >= n
    BY <1>1, RepeatedErrorSays
  <2>2. Len(full) \in Nat /\ MaxHistory \in Nat
    BY <1>1, PlacesType, HistoryAssumption
  <2>3. \A e \in Errors : streaks.errors[e] >= n => n <= Len(full)
    BY <1>1, <2>2, StreaksFit
  <2>4. n <= Len(full) => (n <= Len(kept) <=> n <= MaxHistory)
    <3>1. CASE Len(full) <= MaxHistory
      <4>1. Len(kept) = Len(full)
        BY <3>1 DEF StreakInv, KeptIsTheEnd
      <4> QED BY <1>1, <2>2, <3>1, <4>1
    <3>2. CASE ~ (Len(full) <= MaxHistory)
      <4>1. Len(kept) = MaxHistory
        BY <3>2 DEF StreakInv, KeptIsTheEnd
      <4> QED BY <4>1
    <3> QED BY <3>1, <3>2
  <2> QED BY <2>1, <2>3, <2>4 DEF ErrorRepeats
<1>3. ConsecutiveFailure(kept, n) <=> HeldTests >= n /\ TestFails(n)
  BY <1>1, ConsecutiveFailureSays DEF HeldTests, TestFails
<1>4. Oscillation(kept, n) <=>
         HeldTests >= n /\ HeldTests >= OscillationWindow /\ TestFlips
  BY <1>1, OscillationSays DEF HeldTests, TestFlips
<1>5. SchemaInvalid(kept, n) <=> HeldSchemas >= n /\ SchemaFails(n)
  BY <1>1, SchemaInvalidSays DEF HeldSchemas, SchemaFails
<1> QED BY <1>2, <1>3, <1>4, <1>5

(***************************************************************************)
(* The bound of the history makes no trigger fire, and keeps one from      *)
(* firing only where too few of the steps that count for it are held: for  *)
(* any bound, any threshold, below or above it, and any number of steps.   *)
(***************************************************************************)
THEOREM BoundHidesNothingElse == StreakSpec => []TruncationIsExact
<1>1. StreakInv => TruncationIsExact
  BY StreakAssumption, KeptTriggers DEF TruncationIsExact
<1> QED BY <1>1, StreakCorrect, PTL

-----------------------------------------------------------------------------
\* check() returns the first trigger of its order that fires.
LEMMA CheckIsFirst ==
    ASSUME NEW steps, NEW verdict
    PROVE  LET F(kind) == Fires(kind, steps, verdict)
           IN  Check(steps, verdict) =
                  IF F("custom") THEN "custom"
                  ELSE IF F("repeated_error") THEN "repeated_error"
                  ELSE IF F("consecutive_failure") THEN "consecutive_failure"
                  ELSE IF F("oscillation") THEN "oscillation"
                  ELSE IF F("schema_invalid") THEN "schema_invalid"
                  ELSE None
<1> DEFINE F(kind) == Fires(kind, steps, verdict)
           hits == {i \in DOMAIN TriggerOrder : F(TriggerOrder[i])}
           first == CHOOSE i \in hits : \A j \in hits : i <= j
<1>1. /\ DOMAIN TriggerOrder = 1 .. 5
      /\ TriggerOrder[1] = "custom" /\ TriggerOrder[2] = "repeated_error"
      /\ TriggerOrder[3] = "consecutive_failure"
      /\ TriggerOrder[4] = "oscillation" /\ TriggerOrder[5] = "schema_invalid"
  BY DEF TriggerOrder
<1>2. Check(steps, verdict) = IF hits = {} THEN None ELSE TriggerOrder[first]
  BY DEF Check
<1> HIDE DEF F
<1>3. /\ \A i \in hits : i \in Nat
      /\ 1 \in hits <=> F("custom")
      /\ 2 \in hits <=> F("repeated_error")
      /\ 3 \in hits <=> F("consecutive_failure")
      /\ 4 \in hits <=> F("oscillation")
      /\ 5 \in hits <=> F("schema_invalid")
      /\ hits \subseteq 1 .. 5
  BY <1>1
<1> HIDE DEF hits
<1>4. ASSUME NEW m \in hits, \A j \in hits : m <= j PROVE first = m
  <2>1. first \in hits /\ \A j \in hits : first <= j
    BY <1>4
  <2>2. first <= m /\ m <= first /\ first \in Nat /\ m \in Nat
    BY <1>3, <1>4, <2>1
  <2> HIDE DEF first
  <2> QED BY <2>2
<1> HIDE DEF first
<1>5. CASE F("custom")
  <2>1. 1 \in hits /\ \A j \in hits : 1 <= j
    BY <1>3, <1>5
  <2> QED BY <1>1, <1>2, <1>4, <1>5, <2>1 DEF F
<1>6. CASE ~ F("custom") /\ F("repeated_error")
  <2>1. 2 \in hits /\ \A j \in hits : 2 <= j
    BY <1>3, <1>6
  <2> QED BY <1>1, <1>2, <1>4, <1>6, <2>1 DEF F
<1>7. CASE /\ ~ F("custom") /\ ~ F("repeated_error")
           /\ F("consecutive_failure")
  <2>1. 3 \in hits /\ \A j \in hits : 3 <= j
    BY <1>3, <1>7
  <2> QED BY <1>1, <1>2, <1>4, <1>7, <2>1 DEF F
<1>8. CASE /\ ~ F("custom") /\ ~ F("repeated_error")
           /\ ~ F("consecutive_failure") /\ F("oscillation")
  <2>1. 4 \in hits /\ \A j \in hits : 4 <= j
    BY <1>3, <1>8
  <2> QED BY <1>1, <1>2, <1>4, <1>8, <2>1 DEF F
<1>9. CASE /\ ~ F("custom") /\ ~ F("repeated_error")
           /\ ~ F("consecutive_failure") /\ ~ F("oscillation")
  <2>1. CASE F("schema_invalid")
    <3>1. 5 \in hits /\ \A j \in hits : 5 <= j
      BY <1>3, <1>9, <2>1
    <3> QED BY <1>1, <1>2, <1>4, <1>9, <2>1, <3>1 DEF F
  <2>2. CASE ~ F("schema_invalid")
    <3>1. hits = {}
      BY <1>3, <1>9, <2>2
    <3> QED BY <1>2, <1>9, <2>2, <3>1 DEF F
  <2> QED BY <2>1, <2>2
<1> QED BY <1>5, <1>6, <1>7, <1>8, <1>9

(***************************************************************************)
(* The trigger that is reported is the first of the documented order whose *)
(* streak is complete and still held, for any thresholds, any bound and    *)
(* any set of enabled triggers.                                            *)
(***************************************************************************)
THEOREM ReportIsInOrder == StreakSpec => []ReportedInOrder
<1>1. StreakInv => ReportedInOrder
  <2> SUFFICES ASSUME StreakInv PROVE ReportedInOrder
    OBVIOUS
  <2> DEFINE n == MaxRetries
             F(kind, verdict) == Fires(kind, kept, verdict)
             custom(verdict) == "custom" \in Enabled /\ verdict = "true"
             errors == /\ "repeated_error" \in Enabled
                       /\ n["repeated_error"] <= MaxHistory
                       /\ ErrorRepeats(n["repeated_error"])
             held == /\ "test_failure" \in Enabled
                     /\ HeldTests >= n["test_failure"]
             failing == held /\ TestFails(n["test_failure"])
             flipping == held /\ HeldTests >= OscillationWindow /\ TestFlips
             schemas == /\ "schema_invalid" \in Enabled
                        /\ HeldSchemas >= n["schema_invalid"]
                        /\ SchemaFails(n["schema_invalid"])
  <2>1. \A name \in CountingTriggers : n[name] \in Nat \ {0}
    BY DetectorAssumption
  <2>2. /\ n["repeated_error"] \in Nat \ {0} /\ n["test_failure"] \in Nat \ {0}
        /\ n["schema_invalid"] \in Nat \ {0}
    BY <2>1 DEF CountingTriggers
  <2>3. ASSUME NEW v
        PROVE  /\ F("custom", v) <=> custom(v)
               /\ F("repeated_error", v) <=> errors
               /\ F("consecutive_failure", v) <=> failing
               /\ F("oscillation", v) <=> flipping
               /\ F("schema_invalid", v) <=> schemas
    <3>1. F("custom", v) <=> custom(v)
      BY DEF Fires
    <3>2. F("repeated_error", v) <=> errors
      BY <2>2, KeptTriggers DEF Fires
    <3>3. F("consecutive_failure", v) <=> failing
      BY <2>2, KeptTriggers DEF Fires
    <3>4. F("oscillation", v) <=> flipping
      BY <2>2, KeptTriggers DEF Fires
    <3>5. F("schema_invalid", v) <=> schemas
      BY <2>2, KeptTriggers DEF Fires
    <3> HIDE DEF F, custom, errors, failing, flipping, schemas
    <3> QED BY <3>1, <3>2, <3>3, <3>4, <3>5
  <2>4. ASSUME NEW v
        PROVE  Check(kept, v) =
                  IF F("custom", v) THEN "custom"
                  ELSE IF F("repeated_error", v) THEN "repeated_error"
                  ELSE IF F("consecutive_failure", v) THEN "consecutive_failure"
                  ELSE IF F("oscillation", v) THEN "oscillation"
                  ELSE IF F("schema_invalid", v) THEN "schema_invalid"
                  ELSE None
    BY CheckIsFirst
  <2>5. None \notin {"custom", "repeated_error", "consecutive_failure",
                     "oscillation", "schema_invalid"}
    BY DetectorAssumption DEF TriggerKinds
  <2> HIDE DEF F, custom, errors, failing, flipping, schemas
  <2>6. ASSUME NEW v
        PROVE  LET kind == Check(kept, v)
               IN  /\ (kind = "custom") <=> custom(v)
                   /\ (kind = "repeated_error") <=> (~ custom(v) /\ errors)
                   /\ (kind = "consecutive_failure") <=>
                         (~ custom(v) /\ ~ errors /\ failing)
                   /\ (kind = "oscillation") <=>
                         (~ custom(v) /\ ~ errors /\ ~ failing /\ flipping)
                   /\ (kind = "schema_invalid") <=>
                         (/\ ~ custom(v) /\ ~ errors /\ ~ failing /\ ~ flipping
                          /\ schemas)
                   /\ (kind = None) <=>
                         ~ (custom(v) \/ errors \/ failing \/ flipping \/ schemas)
    <3> DEFINE kind == Check(kept, v)
    <3>1. kind = IF custom(v) THEN "custom"
                 ELSE IF errors THEN "repeated_error"
                 ELSE IF failing THEN "consecutive_failure"
                 ELSE IF flipping THEN "oscillation"
                 ELSE IF schemas THEN "schema_invalid" ELSE None
      BY <2>3, <2>4
    <3> HIDE DEF kind
    <3>2. /\ (kind = "custom") <=> custom(v)
          /\ (kind = "repeated_error") <=> (~ custom(v) /\ errors)
          /\ (kind = "consecutive_failure") <=>
                (~ custom(v) /\ ~ errors /\ failing)
          /\ (kind = "oscillation") <=>
                (~ custom(v) /\ ~ errors /\ ~ failing /\ flipping)
          /\ (kind = "schema_invalid") <=>
                (/\ ~ custom(v) /\ ~ errors /\ ~ failing /\ ~ flipping
                 /\ schemas)
          /\ (kind = None) <=>
                ~ (custom(v) \/ errors \/ failing \/ flipping \/ schemas)
      BY <2>5, <3>1
    <3> QED BY <3>2 DEF kind
  <2> QED BY <2>6
    DEF ReportedInOrder, custom, errors, failing, flipping, schemas
<1> QED BY <1>1, StreakCorrect, PTL

-----------------------------------------------------------------------------
(***************************************************************************)
(* What the model is told.  A text that is delimited n times, or no text.  *)
(***************************************************************************)
IsText(t, n) ==
    t = None \/ t = [of |-> t.of, delimited |-> n, redacted |-> t.redacted]

LEMMA TextIsText == ASSUME NEW x PROVE IsText(Text(x), 0)
BY DEF Text, Plain, IsText

LEMMA DelimitDelimits ==
    ASSUME NEW t, IsText(t, 0)
    PROVE  IsText(Delimit(t), 1)
BY DEF Delimit, IsText

LEMMA DelimitOnce ==
    ASSUME NEW t, NEW x, t # None,
           t = [of |-> x, delimited |-> 0, redacted |-> FALSE]
    PROVE  Delimit(t) = [of |-> x, delimited |-> 1, redacted |-> FALSE]
<1>1. Delimit(t) = [t EXCEPT !.delimited = t.delimited + 1]
  BY DEF Delimit
<1>2. t.delimited + 1 = 1
  OBVIOUS
<1>3. Delimit(t) = [t EXCEPT !.delimited = 1]
  BY <1>1, <1>2
<1> QED BY <1>3

LEMMA CleanKeepsDelimiter ==
    ASSUME NEW t, NEW n, IsText(t, n)
    PROVE  IsText(Clean(t), n)
<1>1. CASE t = None
  BY <1>1 DEF Clean, IsText
<1>2. CASE t # None
  <2>1. PICK x, r : t = [of |-> x, delimited |-> n, redacted |-> r]
    BY <1>2 DEF IsText
  <2>2. Clean(t) = [of |-> x, delimited |-> n, redacted |-> TRUE]
    BY <1>2, <2>1 DEF Clean
  <2> QED BY <2>2 DEF IsText
<1> QED BY <1>1, <1>2

\* The texts of the agent in a list of attempts.
AreDelimited(attempts, n) ==
    \A i \in DOMAIN attempts :
        \A k \in DOMAIN attempts[i] \cap AgentKeys : IsText(attempts[i][k], n)

LEMMA PackagedIsPlain ==
    ASSUME NEW steps \in Seq(StepRecord)
    PROVE  AreDelimited(Package(steps).attempts, 0)
<1> DEFINE attempts == [i \in DOMAIN steps |-> StepToSummary(steps[i])]
           summary(m) == [x \in {"_summary"} |-> Plain(SummarizeMiddle(m))]
<1>1. AreDelimited(attempts, 0)
  <2>1. ASSUME NEW i \in DOMAIN attempts, NEW k \in AgentKeys,
               k \in DOMAIN attempts[i]
        PROVE  IsText(attempts[i][k], 0)
    <3>1. attempts[i] = StepToSummary(steps[i])
      OBVIOUS
    <3>2. \/ k = "output" /\ attempts[i][k] = Text(steps[i].output)
          \/ k = "error_message" /\ attempts[i][k] = Text(steps[i].error)
      BY <2>1, <3>1 DEF StepToSummary, AgentKeys
    <3> QED BY <3>2, TextIsText
  <2> QED BY <2>1 DEF AreDelimited
<1>2. Len(steps) \in Nat /\ DOMAIN attempts = 1 .. Len(steps)
      /\ Len(attempts) = Len(steps)
  BY LenProperties
<1> HIDE DEF attempts
<1>3. ASSUME Len(attempts) > 2 PROVE AreDelimited(Ends(attempts), 0)
  <2>1. Ends(attempts) = <<attempts[1], attempts[Len(attempts)]>>
    BY DEF Ends, Last
  <2>2. {1, Len(attempts)} \subseteq DOMAIN attempts
    BY <1>2, <1>3
  <2> QED BY <1>1, <2>1, <2>2 DEF AreDelimited
<1>4. ASSUME Len(attempts) > 2, NEW m
      PROVE  AreDelimited(EndsAndSummary(attempts, m), 0)
  <2>1. EndsAndSummary(attempts, m)
           = <<attempts[1], summary(m), attempts[Len(attempts)]>>
    BY DEF EndsAndSummary, Last
  <2>2. {1, Len(attempts)} \subseteq DOMAIN attempts
    BY <1>2, <1>4
  <2>3. \A k \in DOMAIN summary(m) : IsText(summary(m)[k], 0)
    BY DEF Plain, IsText
  <2> HIDE DEF summary
  <2> QED BY <1>1, <2>1, <2>2, <2>3 DEF AreDelimited
<1>5. AreDelimited(Compress(attempts), 0)
  BY <1>1, <1>2, <1>3, <1>4 DEF Compress
<1>6. Package(steps).attempts \in {attempts, Compress(attempts)}
  BY DEF Package, attempts
<1> QED BY <1>1, <1>5, <1>6

LEMMA SanitizedIsDelimited ==
    ASSUME NEW context, AreDelimited(context.attempts, 0),
           IsText(context.lastError, 0)
    PROVE  /\ AreDelimited(Sanitize(context).attempts, 1)
           /\ IsText(Sanitize(context).lastError, 1)
<1> DEFINE Wrapped(a) == [k \in DOMAIN a |->
                            IF k \in AgentKeys THEN Delimit(a[k]) ELSE a[k]]
           attempts == context.attempts
           done == [i \in DOMAIN attempts |-> Wrapped(attempts[i])]
<1>1. Sanitize(context).attempts = done
      /\ Sanitize(context).lastError = Delimit(context.lastError)
  BY DEF Sanitize
<1>2. AreDelimited(done, 1)
  BY DelimitDelimits DEF AreDelimited
<1> QED BY <1>1, <1>2, DelimitDelimits

LEMMA RedactedStaysDelimited ==
    ASSUME NEW context, NEW n, AreDelimited(context.attempts, n),
           IsText(context.lastError, n)
    PROVE  /\ AreDelimited(Redact(context).attempts, n)
           /\ IsText(Redact(context).lastError, n)
<1> DEFINE Cleaned(a) == [k \in DOMAIN a \ RedactFields |->
                            IF k \in TextKeys THEN Clean(a[k]) ELSE a[k]]
           attempts == context.attempts
           done == [i \in DOMAIN attempts |-> Cleaned(attempts[i])]
<1>1. Redact(context).attempts = done
      /\ Redact(context).lastError = Clean(context.lastError)
  BY DEF Redact
<1>2. AreDelimited(done, n)
  BY CleanKeepsDelimiter DEF AreDelimited, TextKeys
<1> QED BY <1>1, <1>2, CleanKeepsDelimiter

\* A context whose texts are delimited makes a prompt whose texts are.
LEMMA PromptIsDelimited ==
    ASSUME NEW steps \in Seq(StepRecord), SanitizeContext
    PROVE  /\ AreDelimited(PackageContext(steps).attempts, 1)
           /\ IsText(PackageContext(steps).lastError, 1)
<1>1. IsText(Package(steps).lastError, 0)
  BY TextIsText DEF Package, LastErrorSent
<1>2. /\ AreDelimited(Sanitize(Package(steps)).attempts, 1)
      /\ IsText(Sanitize(Package(steps)).lastError, 1)
  BY <1>1, PackagedIsPlain, SanitizedIsDelimited
<1>3. PackageContext(steps) \in
         {Sanitize(Package(steps)), Redact(Sanitize(Package(steps)))}
  BY DEF PackageContext
<1> QED BY <1>2, <1>3, RedactedStaysDelimited

\* An error of the last step is sent, whatever is done to its text; it is not
\* empty when it is delimited.
LEMMA LastErrorIsSent ==
    ASSUME NEW steps \in Seq(StepRecord), LastError(steps) \in Errors
    PROVE  LET sent == PackageContext(steps).lastError
           IN  /\ sent # None
               /\ sent.of = LastError(steps)
               /\ SanitizeContext => sent.delimited = 1
<1> DEFINE e == LastError(steps)
           Sent == [of : {e}, delimited : {0, 1}, redacted : BOOLEAN]
           Delimited == [of : {e}, delimited : {1}, redacted : BOOLEAN]
           packaged == Package(steps)
<1>1. e \in Errors /\ None \notin Errors
  BY HistoryAssumption
<1>2. packaged.lastError = [of |-> e, delimited |-> 0, redacted |-> FALSE]
  BY <1>1 DEF Package, LastErrorSent, Text, Plain
<1>3. None \notin Sent
  BY <1>1, ContextAssumption
<1> HIDE DEF e, packaged
<1>4. /\ packaged.lastError \in Sent
      /\ Sanitize(packaged).lastError \in Delimited
  <2>1. packaged.lastError \in Sent
    BY <1>2
  <2>2. packaged.lastError # None
    BY <1>3, <2>1
  <2>3. Delimit(packaged.lastError)
           = [of |-> e, delimited |-> 1, redacted |-> FALSE]
    BY <1>2, <2>2, DelimitOnce
  <2>4. Sanitize(packaged).lastError = Delimit(packaged.lastError)
    BY DEF Sanitize
  <2> QED BY <2>1, <2>3, <2>4
<1>5. /\ \A t \in Sent : Clean(t) \in Sent
      /\ \A t \in Delimited : Clean(t) \in Delimited
  <2>1. \A t \in Sent : Clean(t) = [t EXCEPT !.redacted = TRUE]
    BY <1>3 DEF Clean
  <2>2. Delimited \subseteq Sent
    OBVIOUS
  <2>3. \A t \in Sent : [t EXCEPT !.redacted = TRUE] \in Sent
    OBVIOUS
  <2>4. \A t \in Delimited : [t EXCEPT !.redacted = TRUE] \in Delimited
    OBVIOUS
  <2> HIDE DEF Sent, Delimited
  <2> QED BY <2>1, <2>2, <2>3, <2>4
<1>6. /\ Redact(packaged).lastError \in Sent
      /\ Redact(Sanitize(packaged)).lastError \in Delimited
  BY <1>4, <1>5 DEF Redact
<1>7. /\ SanitizeContext => PackageContext(steps).lastError \in Delimited
      /\ ~ SanitizeContext => PackageContext(steps).lastError \in Sent
  BY <1>4, <1>6 DEF PackageContext, packaged
<1>8. /\ Delimited \subseteq Sent
      /\ \A t \in Sent : t.of = e
      /\ \A t \in Delimited : t.delimited = 1
  OBVIOUS
<1> QED BY <1>3, <1>7, <1>8 DEF e

\* When repeated_error is reported the last step failed.
LEMMA ReportedErrorIsLast ==
    ASSUME NEW steps \in Seq(StepRecord), Check(steps, "false") = "repeated_error"
    PROVE  steps # <<>> /\ LastError(steps) \in Errors
<1> DEFINE n == MaxRetries["repeated_error"]
           S == DOMAIN steps
<1>1. n \in Nat \ {0}
  BY DetectorAssumption DEF CountingTriggers
<1>2. RepeatedError(steps, n)
  <2>1. Fires("repeated_error", steps, "false")
    BY CheckIsFirst, DetectorAssumption DEF TriggerKinds
  <2> QED BY <2>1 DEF Fires
<1>3. Len(steps) \in Nat /\ S = 1 .. Len(steps) /\ Len(steps) >= n
  BY <1>2, LenProperties DEF RepeatedError
<1>4. Len(steps) \in S /\ Later(S, Len(steps)) = {}
  BY <1>1, <1>3 DEF Later
<1>5. Len(steps) \in LastOf(S, n)
  <2>1. Since(S, Len(steps)) = 0
    BY <1>4, FS_EmptySet DEF Since
  <2>2. Since(S, Len(steps)) < n
    BY <1>1, <2>1
  <2> QED BY <1>4, <2>2, LastAreLate
<1>6. steps[Len(steps)].error \in Errors
  BY <1>2, <1>5 DEF RepeatedError
<1>7. steps # <<>>
  BY <1>1, <1>3, EmptySeq
<1> QED BY <1>6, <1>7 DEF LastError

(***************************************************************************)
(* However the history is compressed, delimited, redacted and stripped of  *)
(* fields, the model and the user are told the message that                *)
(* repeated_error fired for, if it is not empty or is delimited, and every *)
(* text of the agent is delimited exactly once.                            *)
(***************************************************************************)
THEOREM ModelIsToldTheError == StreakSpec => []PromptCarriesTriggerError
<1>1. ASSUME kept \in Seq(StepRecord) PROVE PromptCarriesTriggerError
  <2> DEFINE prompt == Prompt(kept)
             context == PackageContext(kept)
             Once(text) == text # None => text.delimited = 1
  <2>1. prompt.lastError = Shown(context.lastError)
        /\ SummaryForUser(context).lastError = Shown(context.lastError)
    BY DEF Prompt, BuildPrompt, SummaryForUser
  <2>2. ASSUME Check(kept, "false") = "repeated_error",
               SanitizeContext \/ LengthOf[Last(kept).error] > 0
        PROVE  /\ prompt.lastError # None
               /\ prompt.lastError.of = Last(kept).error
               /\ SummaryForUser(context).lastError = prompt.lastError
    <3>1. kept # <<>> /\ LastError(kept) \in Errors
      BY <1>1, <2>2, ReportedErrorIsLast
    <3>2. LastError(kept) = Last(kept).error
      BY <3>1 DEF LastError, Last
    <3>3. /\ context.lastError # None
          /\ context.lastError.of = Last(kept).error
          /\ SanitizeContext => context.lastError.delimited = 1
      BY <1>1, <3>1, <3>2, LastErrorIsSent
    <3>4. Truthy(context.lastError)
      BY <2>2, <3>3 DEF Truthy
    <3> QED BY <2>1, <3>3, <3>4 DEF Shown
  <2>3. ASSUME SanitizeContext
        PROVE  /\ Once(prompt.lastError)
               /\ \A i \in DOMAIN prompt.attempts :
                     LET line == prompt.attempts[i]
                     IN  IF "summary" \in DOMAIN line THEN Once(line.summary)
                         ELSE Once(line.message) /\ Once(line.output)
    <3>1. \A t : IsText(t, 1) => Once(t)
      BY DEF IsText
    <3>2. AreDelimited(context.attempts, 1) /\ IsText(context.lastError, 1)
      BY <1>1, <2>3, PromptIsDelimited
    <3> HIDE DEF context
    <3>3. ASSUME NEW i \in DOMAIN prompt.attempts
          PROVE  LET line == prompt.attempts[i]
                 IN  IF "summary" \in DOMAIN line THEN Once(line.summary)
                     ELSE Once(line.message) /\ Once(line.output)
      <4> DEFINE attempt == context.attempts[i]
      <4>1. /\ i \in DOMAIN context.attempts
            /\ prompt.attempts[i] = AttemptLine(attempt)
        BY <3>3 DEF Prompt, BuildPrompt, context
      <4>2. \A k \in DOMAIN attempt \cap AgentKeys : IsText(attempt[k], 1)
        BY <3>2, <4>1 DEF AreDelimited
      <4> HIDE DEF attempt
      <4>3. CASE Summarizes(attempt)
        <5>1. AttemptLine(attempt) = [summary |-> attempt["_summary"]]
          BY <4>3 DEF AttemptLine
        <5>2. IsText(attempt["_summary"], 1)
          BY <4>2, <4>3 DEF Summarizes, AgentKeys
        <5> QED BY <3>1, <4>1, <5>1, <5>2
      <4>4. CASE ~ Summarizes(attempt)
        <5>1. /\ IsText(Shown(Unless(attempt, "error_message", None)), 1)
              /\ IsText(Unless(attempt, "output", None), 1)
          BY <4>2 DEF Unless, AgentKeys, IsText, Shown
        <5>2. /\ "summary" \notin DOMAIN AttemptLine(attempt)
              /\ AttemptLine(attempt).message
                    = Shown(Unless(attempt, "error_message", None))
              /\ AttemptLine(attempt).output = Unless(attempt, "output", None)
          BY <4>4 DEF AttemptLine
        <5> QED BY <3>1, <4>1, <5>1, <5>2
      <4> QED BY <4>3, <4>4
    <3>4. IsText(Shown(context.lastError), 1)
      BY <3>2 DEF Shown, IsText
    <3> QED BY <2>1, <3>1, <3>3, <3>4
  <2> QED BY <2>2, <2>3 DEF PromptCarriesTriggerError
<1>2. StreakTypeOK => PromptCarriesTriggerError
  BY <1>1 DEF StreakTypeOK
<1> QED BY <1>2, HistoryIsBounded, PTL

-----------------------------------------------------------------------------
(***************************************************************************)
(* What is told of the steps between the first and the last one.           *)
(***************************************************************************)
Attempts(steps) == [i \in DOMAIN steps |-> StepToSummary(steps[i])]

Middle(steps) == SubSeq(Attempts(steps), 2, Len(steps) - 1)

LEMMA AttemptsTell ==
    ASSUME NEW steps \in Seq(StepRecord)
    PROVE  /\ Len(steps) \in Nat /\ DOMAIN steps = 1 .. Len(steps)
           /\ DOMAIN Attempts(steps) = 1 .. Len(steps)
           /\ Len(Attempts(steps)) = Len(steps)
           /\ Attempts(steps) \in Seq({StepToSummary(s) : s \in StepRecord})
           /\ \A i \in 1 .. Len(steps) :
                 Attempts(steps)[i] = StepToSummary(steps[i])
<1>1. /\ Len(steps) \in Nat /\ DOMAIN steps = 1 .. Len(steps)
      /\ \A i \in 1 .. Len(steps) : steps[i] \in StepRecord
  BY LenProperties, ElementOfSeq
<1>2. Attempts(steps) \in [1 .. Len(steps) -> {StepToSummary(s) : s \in StepRecord}]
  BY <1>1 DEF Attempts
<1>3. Attempts(steps) \in Seq({StepToSummary(s) : s \in StepRecord})
      /\ Len(Attempts(steps)) = Len(steps)
  BY <1>1, <1>2, SeqDef, LenProperties
<1> QED BY <1>1, <1>3 DEF Attempts

LEMMA MiddleTells ==
    ASSUME NEW steps \in Seq(StepRecord), Len(steps) > 2
    PROVE  /\ Middle(steps) \in Seq({StepToSummary(s) : s \in StepRecord})
           /\ Len(Middle(steps)) = Len(steps) - 2
           /\ DOMAIN Middle(steps) = 1 .. Len(steps) - 2
           /\ \A i \in 1 .. Len(steps) - 2 :
                 Middle(steps)[i] = StepToSummary(steps[i + 1])
<1> DEFINE T == {StepToSummary(s) : s \in StepRecord}
           a == Attempts(steps)
           n == Len(steps)
<1>1. /\ n \in Nat /\ Len(a) = n /\ a \in Seq(T)
      /\ \A i \in 1 .. n : a[i] = StepToSummary(steps[i])
  BY AttemptsTell
<1>2. \A i \in 1 .. n : a[i] \in T
  BY <1>1, ElementOfSeq
<1> HIDE DEF T, a, n
<1>3. 2 \in Int /\ n - 1 \in Int /\ n > 2
  BY <1>1 DEF n
<1>4. \A i \in 2 .. n - 1 : a[i] \in T
  BY <1>1, <1>2
<1>5. /\ SubSeq(a, 2, n - 1) \in Seq(T)
      /\ Len(SubSeq(a, 2, n - 1)) = IF 2 <= n - 1 THEN (n - 1) - 2 + 1 ELSE 0
      /\ \A i \in 1 .. (n - 1) - 2 + 1 :
            SubSeq(a, 2, n - 1)[i] = a[2 + i - 1]
  BY <1>3, <1>4, SubSeqProperties
<1>6. /\ (n - 1) - 2 + 1 = n - 2 /\ 2 <= n - 1 /\ n - 2 \in Nat
      /\ \A i \in 1 .. n - 2 : 2 + i - 1 = i + 1 /\ i + 1 \in 1 .. n
  BY <1>1, <1>3
<1>7. /\ SubSeq(a, 2, n - 1) \in Seq(T)
      /\ Len(SubSeq(a, 2, n - 1)) = n - 2
      /\ \A i \in 1 .. n - 2 : SubSeq(a, 2, n - 1)[i] = StepToSummary(steps[i + 1])
  BY <1>1, <1>5, <1>6
<1>8. DOMAIN SubSeq(a, 2, n - 1) = 1 .. n - 2
  BY <1>7, LenProperties
<1> QED BY <1>7, <1>8 DEF Middle, T, a, n

\* The places that ValuesOf takes its values from.
FirstTruthy(values) ==
    {i \in DOMAIN values : /\ Truthy(values[i])
                           /\ \A j \in 1 .. i - 1 : values[j] # values[i]}

\* Every truthy value has a first place, and so is told.
LEMMA TruthyIsTold ==
    ASSUME NEW n \in Nat, NEW a, DOMAIN a = 1 .. n, NEW key,
           NEW T, \A i \in 1 .. n : a[i][key] \in T
    PROVE  /\ ValuesOf(a, key) \in Seq(T)
           /\ \A j \in 1 .. n :
                 Truthy(a[j][key]) => a[j][key] \in Range(ValuesOf(a, key))
<1> DEFINE values == [i \in DOMAIN a |-> a[i][key]]
           I == FirstTruthy(values)
<1>1. /\ DOMAIN values = 1 .. n
      /\ \A i \in 1 .. n : values[i] = a[i][key]
  OBVIOUS
<1>2. ValuesOf(a, key) = SelectAt(values, I)
  BY DEF ValuesOf, FirstTruthy
<1>3. I \in SUBSET (1 .. n) /\ \A i \in I : values[i] \in T
  BY <1>1 DEF FirstTruthy
<1> HIDE DEF values
<1>4. Indices(I)
  BY <1>3, SomeIndices
<1>5. /\ SelectAt(values, I) \in Seq(T)
      /\ Range(SelectAt(values, I)) = {values[i] : i \in I}
  BY <1>3, <1>4, SelectionIsSeq
<1>6. ASSUME NEW j \in 1 .. n, Truthy(values[j])
      PROVE  \E i \in I : values[i] = values[j]
  <2> DEFINE J == {k \in 1 .. n : values[k] = values[j]}
  <2>1. J \in SUBSET (1 .. n) /\ j \in J
    OBVIOUS
  <2>2. Indices(J)
    BY <2>1, SomeIndices
  <2>3. PICK k \in J : \A l \in J : k <= l
    BY <2>1, <2>2, LeastIsThere
  <2>4. k \in 1 .. n /\ values[k] = values[j]
    BY <2>3
  <2>5. \A l \in 1 .. k - 1 : l \in 1 .. n /\ ~ (k <= l)
    BY <2>4
  <2>6. \A l \in 1 .. k - 1 : values[l] # values[k]
    BY <2>3, <2>4, <2>5
  <2>7. k \in I
    BY <1>1, <1>6, <2>4, <2>6 DEF FirstTruthy
  <2> QED BY <2>4, <2>7
<1> QED BY <1>1, <1>2, <1>5, <1>6

\* As long as less values are told than may be, none is left out.
LEMMA FewAreAllTold ==
    ASSUME NEW T, NEW s \in Seq(T), NEW m \in Nat,
           Len(SubSeq(s, 1, Min({m, Len(s)}))) < m
    PROVE  SubSeq(s, 1, Min({m, Len(s)})) = s
<1> DEFINE n == Len(s)
           k == Min({m, n})
<1>1. n \in Nat /\ \A i \in 1 .. n : s[i] \in T
  BY LenProperties, ElementOfSeq
<1>2. k \in {m, n} /\ k <= m /\ k <= n
  <2>1. \E x \in {m, n} : \A y \in {m, n} : x <= y
    BY <1>1
  <2>2. k \in {m, n} /\ \A y \in {m, n} : k <= y
    BY <2>1 DEF Min
  <2> QED BY <2>2
<1> HIDE DEF n, k
<1>3. 1 \in Int /\ k \in Int /\ \A i \in 1 .. k : s[i] \in T
  BY <1>1, <1>2
<1>4. /\ SubSeq(s, 1, k) \in Seq(T)
      /\ Len(SubSeq(s, 1, k)) = IF 1 <= k THEN k - 1 + 1 ELSE 0
      /\ \A i \in 1 .. k - 1 + 1 : SubSeq(s, 1, k)[i] = s[1 + i - 1]
  BY <1>3, SubSeqProperties
<1>5. Len(SubSeq(s, 1, k)) = k /\ \A i \in 1 .. k : SubSeq(s, 1, k)[i] = s[i]
  BY <1>1, <1>2, <1>4
<1>6. k = n
  BY <1>1, <1>2, <1>5 DEF k, n
<1>7. SubSeq(s, 1, k) = s
  BY <1>4, <1>5, <1>6, SeqEqual DEF n
<1> QED BY <1>7 DEF k, n

-----------------------------------------------------------------------------
(***************************************************************************)
(* The summary of the middle, and what Compress makes of the attempts.     *)
(***************************************************************************)
\* What SummarizeMiddle says of steps whose middle is m.
Tells(steps, told) ==
    /\ told.total + 2 = Len(steps)
    /\ \A j \in 2 .. Len(steps) - 1 :
          TypeText(steps[j].error) \in Range(told.errors) \cup {None}
    /\ Len(told.outputs) < MaxOutputs =>
          \A j \in 2 .. Len(steps) - 1 :
             Truthy(Text(steps[j].output))
                => Text(steps[j].output) \in Range(told.outputs)

\* The name of the type of an error is not empty.
LEMMA ErrorsAreTruthy ==
    ASSUME NEW e \in Errors
    PROVE  Truthy(TypeText(e)) /\ TypeText(e) # None
<1>1. TypeText(e) = [of |-> TypeOf[e], delimited |-> 0, redacted |-> FALSE]
  BY HistoryAssumption DEF TypeText, Plain
<1>2. TypeOf[e] \in ErrorTypes
  BY DEF ErrorTypes
<1>3. TypeText(e) \in [of : Errors \cup ErrorTypes, delimited : {0, 1},
                       redacted : BOOLEAN]
  BY <1>1, <1>2
<1>4. TypeText(e) # None
  BY <1>3, ContextAssumption
<1>5. TypeText(e).of = TypeOf[e]
  BY <1>1
<1>6. ErrorTypes \cap (Errors \cup Outputs) = {}
  BY ContextAssumption
<1>7. TypeOf[e] \notin Outputs \cup Errors
  BY <1>2, <1>6
<1> QED BY <1>4, <1>5, <1>7 DEF Truthy

LEMMA SummaryTells ==
    ASSUME NEW steps \in Seq(StepRecord), Len(steps) > 2
    PROVE  /\ Tells(steps, SummarizeMiddle(Middle(steps)))
           /\ SummarizeMiddle(Middle(steps)).first = steps[2].num
           /\ SummarizeMiddle(Middle(steps)).last = steps[Len(steps) - 1].num
<1> DEFINE m == Middle(steps)
           n == Len(steps) - 2
           told == SummarizeMiddle(m)
           outputs == ValuesOf(m, "output")
           T(key) == {m[i][key] : i \in 1 .. n}
<1>1. /\ n \in Nat /\ n > 0 /\ Len(steps) = n + 2
      /\ DOMAIN m = 1 .. n /\ Len(m) = n
      /\ \A i \in 1 .. n : m[i] = StepToSummary(steps[i + 1])
      /\ \A j \in 2 .. n + 1 : j - 1 \in 1 .. n /\ (j - 1) + 1 = j
                               /\ j \in 1 .. Len(steps)
  <2>1. /\ DOMAIN m = 1 .. n /\ Len(m) = n
        /\ \A i \in 1 .. n : m[i] = StepToSummary(steps[i + 1])
    BY MiddleTells
  <2>2. n \in Nat /\ n > 0 /\ Len(steps) = n + 2
    BY AttemptsTell
  <2> HIDE DEF m, n
  <2>3. \A j \in 2 .. n + 1 : j - 1 \in 1 .. n /\ (j - 1) + 1 = j
                             /\ j \in 1 .. Len(steps)
    BY <2>2
  <2> QED BY <2>1, <2>2, <2>3
<1>2. /\ told.first = Head(m).step /\ told.last = Last(m).step
      /\ told.errors = ValuesOf(m, "error")
      /\ told.outputs = SubSeq(outputs, 1, Min({MaxOutputs, Len(outputs)}))
      /\ told.total = Len(m)
  BY DEF SummarizeMiddle
<1> HIDE DEF m, n, told
<1>3. \A j \in 2 .. n + 1 : m[j - 1] = StepToSummary(steps[j])
  BY <1>1
<1>4. \A j \in 2 .. n + 1 : /\ m[j - 1].step = steps[j].num
                            /\ m[j - 1]["error"] = TypeText(steps[j].error)
                            /\ m[j - 1]["output"] = Text(steps[j].output)
  <2>1. \A s : /\ StepToSummary(s).step = s.num
               /\ StepToSummary(s)["error"] = TypeText(s.error)
               /\ StepToSummary(s)["output"] = Text(s.output)
    BY DEF StepToSummary
  <2> QED BY <1>3, <2>1
<1>5. told.first = steps[2].num /\ told.last = steps[n + 1].num
  <2>1. 2 \in 2 .. n + 1 /\ n + 1 \in 2 .. n + 1 /\ 2 - 1 = 1 /\ (n + 1) - 1 = n
    BY <1>1
  <2>2. Head(m) = m[1] /\ Last(m) = m[n]
    <3>1. m \in Seq({StepToSummary(s) : s \in StepRecord}) /\ m # <<>>
      BY <1>1, MiddleTells, EmptySeq DEF m
    <3> QED BY <1>1, <3>1, HeadTailProperties DEF Last
  <2>3. m[1].step = steps[2].num /\ m[n].step = steps[n + 1].num
    BY <1>4, <2>1
  <2> QED BY <1>2, <2>2, <2>3
<1>6. ASSUME NEW j \in 2 .. n + 1
      PROVE  TypeText(steps[j].error) \in Range(told.errors) \cup {None}
  <2>1. steps[j].error \in Errors \cup {None}
    <3>1. steps[j] \in StepRecord
      BY <1>1, <1>6, ElementOfSeq
    <3> QED BY <3>1 DEF StepRecord
  <2>2. CASE steps[j].error = None
    BY <2>2 DEF TypeText
  <2>3. CASE steps[j].error \in Errors
    <3>1. j - 1 \in 1 .. n /\ m[j - 1]["error"] = TypeText(steps[j].error)
      BY <1>1, <1>4, <1>6
    <3>2. Truthy(m[j - 1]["error"])
      BY <2>3, <3>1, ErrorsAreTruthy
    <3>3. \A i \in 1 .. n : m[i]["error"] \in T("error")
      OBVIOUS
    <3> HIDE DEF T
    <3>4. m[j - 1]["error"] \in Range(ValuesOf(m, "error"))
      BY <1>1, <3>1, <3>2, <3>3, TruthyIsTold
    <3> QED BY <1>2, <3>1, <3>4
  <2> QED BY <2>1, <2>2, <2>3
<1>7. ASSUME Len(told.outputs) < MaxOutputs,
             NEW j \in 2 .. n + 1, Truthy(Text(steps[j].output))
      PROVE  Text(steps[j].output) \in Range(told.outputs)
  <2>1. \A i \in 1 .. n : m[i]["output"] \in T("output")
    OBVIOUS
  <2> HIDE DEF T
  <2>2. j - 1 \in 1 .. n /\ m[j - 1]["output"] = Text(steps[j].output)
    BY <1>1, <1>4, <1>7
  <2>3. /\ outputs \in Seq(T("output"))
        /\ m[j - 1]["output"] \in Range(outputs)
    BY <1>1, <1>7, <2>1, <2>2, TruthyIsTold
  <2>4. told.outputs = outputs
    <3> HIDE DEF outputs
    <3>1. MaxOutputs \in Nat
      BY DEF MaxOutputs
    <3>2. Len(SubSeq(outputs, 1, Min({MaxOutputs, Len(outputs)}))) < MaxOutputs
      BY <1>2, <1>7
    <3> QED BY <1>2, <2>3, <3>1, <3>2, FewAreAllTold
  <2> QED BY <2>2, <2>3, <2>4
<1>8. n + 1 = Len(steps) - 1 /\ told.total + 2 = Len(steps)
  BY <1>1, <1>2
<1>9. Tells(steps, told)
  BY <1>6, <1>7, <1>8 DEF Tells
<1> QED BY <1>5, <1>8, <1>9 DEF told, m

\* What is sent of two steps or more: all of them, the ends with a summary,
\* or the ends alone.
LEMMA WhatIsSent ==
    ASSUME NEW steps \in Seq(StepRecord), steps # <<>>
    PROVE  LET a == Attempts(steps)
               n == Len(steps)
               sent == Package(steps).attempts
               summary == [x \in {"_summary"} |->
                             Plain(SummarizeMiddle(Middle(steps)))]
           IN  \/ sent = a /\ (CompressContext => n <= 2)
               \/ /\ n > 2 /\ FitsBudget(sent)
                  /\ sent = <<a[1], summary, a[n]>>
               \/ n > 2 /\ sent = <<a[1], a[n]>>
<1> DEFINE a == Attempts(steps)
           n == Len(steps)
<1>1. n \in Nat /\ Len(a) = n /\ n # 0
  BY AttemptsTell, EmptySeq
<1>2. Head(a) = a[1] /\ Last(a) = a[n]
  <2>1. a \in Seq({StepToSummary(s) : s \in StepRecord}) /\ a # <<>>
    BY <1>1, AttemptsTell, EmptySeq
  <2> QED BY <1>1, <2>1, HeadTailProperties DEF Last
<1>3. Package(steps).attempts = IF CompressContext THEN Compress(a) ELSE a
  BY DEF Package, Attempts
<1>4. /\ Ends(a) = <<a[1], a[n]>>
      /\ EndsAndSummary(a, Middle(steps))
            = <<a[1], [x \in {"_summary"} |->
                          Plain(SummarizeMiddle(Middle(steps)))], a[n]>>
  BY <1>2 DEF Ends, EndsAndSummary
<1>5. Compress(a) = IF n <= 2 THEN a
                    ELSE IF FitsBudget(EndsAndSummary(a, Middle(steps)))
                         THEN EndsAndSummary(a, Middle(steps)) ELSE Ends(a)
  BY <1>1 DEF Compress, Middle
<1>6. n <= 2 \/ n > 2
  BY <1>1
<1> QED BY <1>3, <1>4, <1>5, <1>6

-----------------------------------------------------------------------------
(***************************************************************************)
(* Numbered steps are covered by what is sent of them.                     *)
(***************************************************************************)
LEMMA HistoryIsCovered ==
    ASSUME NEW steps \in Seq(StepRecord), steps # <<>>, NEW d \in Nat,
           Len(full) <= MaxHistory + 1 =>
              \A j \in DOMAIN steps : steps[j].num = (j + d) - 1
    PROVE  CoversHistory(steps)
<1> DEFINE a == Attempts(steps)
           n == Len(steps)
           sent == Package(steps).attempts
           tale == SummarizeMiddle(Middle(steps))
           summary == [x \in {"_summary"} |-> Plain(tale)]
           Covers(told) ==
              /\ told.total + 2 = n
              /\ \A j \in DOMAIN steps :
                    TypeText(steps[j].error) \in
                       {Head(sent).error, Last(sent).error}
                          \cup Range(told.errors) \cup {None}
              /\ Len(told.outputs) < MaxOutputs =>
                    \A j \in 2 .. n - 1 :
                       Truthy(Text(steps[j].output))
                          => Text(steps[j].output) \in Range(told.outputs)
              /\ Len(full) <= MaxHistory + 1 =>
                    told.last - told.first + 1 = told.total
<1>1. /\ n \in Nat /\ n # 0 /\ DOMAIN steps = 1 .. n
      /\ DOMAIN a = 1 .. n /\ Len(a) = n
      /\ \A i \in 1 .. n : a[i] = StepToSummary(steps[i])
      /\ a \in Seq({StepToSummary(s) : s \in StepRecord})
  BY AttemptsTell, EmptySeq
<1>2. \/ sent = a /\ (CompressContext => n <= 2)
      \/ n > 2 /\ FitsBudget(sent) /\ sent = <<a[1], summary, a[n]>>
      \/ n > 2 /\ sent = <<a[1], a[n]>>
  BY WhatIsSent
<1>3. \A s \in StepRecord : ~ Summarizes(StepToSummary(s))
  BY DEF Summarizes, StepToSummary
<1>4. ~ Summarizes(a[1]) /\ ~ Summarizes(a[n])
      /\ \A i \in 1 .. n : ~ Summarizes(a[i])
  <2>1. 1 \in 1 .. n /\ n \in 1 .. n
    BY <1>1
  <2>2. \A i \in 1 .. n : steps[i] \in StepRecord
    BY <1>1, ElementOfSeq
  <2> QED BY <1>1, <1>3, <2>1, <2>2
<1>5. Head(steps) = steps[1] /\ Last(steps) = steps[n]
      /\ a[1] = StepToSummary(steps[1]) /\ a[n] = StepToSummary(steps[n])
  BY <1>1, HeadTailProperties DEF Last
<1>6. n > 2 => tale.total + 2 = n /\ Tells(steps, tale)
              /\ tale.first = steps[2].num /\ tale.last = steps[n - 1].num
  BY SummaryTells DEF Tells
<1>7. summary["_summary"].of = tale
  BY DEF Plain
<1>8. CoversHistory(steps) <=>
         /\ Head(sent) = StepToSummary(Head(steps))
         /\ Last(sent) = StepToSummary(Last(steps))
         /\ CompressContext /\ ~ FitsBudget(sent) => sent = Ends(sent) \/ n = 1
         /\ \A i \in Summarized(sent) : Covers(sent[i]["_summary"].of)
  BY DEF CoversHistory
<1> HIDE DEF sent, a, n, tale, summary
<1>10. CASE sent = a /\ (CompressContext => n <= 2)
  <2>1. Head(sent) = a[1] /\ Last(sent) = a[n]
    <3>1. a # <<>>
      BY <1>1, EmptySeq
    <3> QED BY <1>1, <1>10, <3>1, HeadTailProperties DEF Last
  <2>2. Summarized(sent) = {}
    BY <1>1, <1>4, <1>10 DEF Summarized
  <2>3. CompressContext => sent = Ends(sent) \/ n = 1
    <3> SUFFICES ASSUME n = 2 PROVE sent = Ends(sent)
      BY <1>1, <1>10
    <3>1. Ends(sent) = <<a[1], a[2]>>
      BY <2>1 DEF Ends
    <3>2. a = <<a[1], a[2]>>
      BY <1>1
    <3> QED BY <1>10, <3>1, <3>2
  <2> QED BY <1>5, <1>8, <2>1, <2>2, <2>3
<1>11. CASE n > 2 /\ FitsBudget(sent) /\ sent = <<a[1], summary, a[n]>>
  <2>1. Head(sent) = a[1] /\ Last(sent) = a[n] /\ sent[2] = summary
        /\ DOMAIN sent = {1, 2, 3} /\ sent[1] = a[1] /\ sent[3] = a[n]
    BY <1>11 DEF Last
  <2>2. \A i \in Summarized(sent) : sent[i] = summary
    BY <1>4, <2>1 DEF Summarized
  <2>3. ASSUME NEW j \in 1 .. n
        PROVE  TypeText(steps[j].error) \in
                  {Head(sent).error, Last(sent).error}
                     \cup Range(tale.errors) \cup {None}
    <3>1. /\ Head(sent).error = TypeText(steps[1].error)
          /\ Last(sent).error = TypeText(steps[n].error)
      BY <1>5, <2>1 DEF StepToSummary
    <3>2. CASE j \in 2 .. n - 1
      BY <1>6, <1>11, <3>2 DEF Tells, n
    <3>3. j = 1 \/ j = n \/ j \in 2 .. n - 1
      BY <1>1
    <3> QED BY <3>1, <3>2, <3>3
  <2>4. Len(full) <= MaxHistory + 1 => tale.last - tale.first + 1 = tale.total
    <3> SUFFICES ASSUME Len(full) <= MaxHistory + 1
                 PROVE  tale.last - tale.first + 1 = tale.total
      OBVIOUS
    <3>1. 2 \in DOMAIN steps /\ n - 1 \in DOMAIN steps
      BY <1>1, <1>11
    <3>2. tale.first = (2 + d) - 1 /\ tale.last = ((n - 1) + d) - 1
      BY <1>6, <1>11, <3>1
    <3>3. tale.total = n - 2
      <4>1. tale.total = Len(Middle(steps))
        BY DEF tale, SummarizeMiddle
      <4> QED BY <1>11, <4>1, MiddleTells DEF n
    <3> QED BY <1>1, <3>2, <3>3
  <2>5. Covers(tale)
    BY <1>1, <1>6, <1>11, <2>3, <2>4 DEF Tells, n
  <2> HIDE DEF Covers
  <2>6. \A i \in Summarized(sent) : Covers(sent[i]["_summary"].of)
    BY <1>7, <2>2, <2>5
  <2> QED BY <1>5, <1>8, <1>11, <2>1, <2>6
<1>12. CASE n > 2 /\ sent = <<a[1], a[n]>>
  <2>1. Head(sent) = a[1] /\ Last(sent) = a[n]
        /\ DOMAIN sent = {1, 2} /\ sent[1] = a[1] /\ sent[2] = a[n]
    BY <1>12 DEF Last
  <2>2. Summarized(sent) = {}
    BY <1>4, <2>1 DEF Summarized
  <2>3. sent = Ends(sent)
    BY <1>12, <2>1 DEF Ends
  <2> QED BY <1>5, <1>8, <2>1, <2>2, <2>3
<1> QED BY <1>2, <1>10, <1>11, <1>12

(***************************************************************************)
(* Whatever the budget, the model is told the first and the last step and, *)
(* unless only they are sent, every type of error and the number of the    *)
(* steps between them: of the history that is kept, and of the whole one.  *)
(***************************************************************************)
THEOREM ModelIsToldTheHistory == StreakSpec => []ContextCoversHistory
<1>1. StreakInv => ContextCoversHistory
  <2> SUFFICES ASSUME StreakInv, full # <<>>
               PROVE  CoversHistory(full) /\ CoversHistory(kept)
    BY DEF ContextCoversHistory
  <2>1. /\ full \in Seq(StepRecord) /\ kept \in Seq(StepRecord)
        /\ Len(full) \in Nat /\ DOMAIN full = 1 .. Len(full)
        /\ DOMAIN kept = 1 .. Len(kept) /\ Len(kept) \in Nat
        /\ MaxHistory \in Nat /\ MaxHistory # 0
        /\ Dropped \in 0 .. Len(full) /\ Len(kept) = Len(full) - Dropped
        /\ \A i \in DOMAIN kept : kept[i] = full[i + Dropped]
    BY HistoryAssumption, PlacesType DEF StreakInv, KeptIsTheEnd, Truncated
  <2>2. Len(full) <= MaxHistory + 1 =>
           \A j \in DOMAIN full : full[j].num = j - 1
    <3> SUFFICES ASSUME Len(full) <= MaxHistory + 1, NEW j \in DOMAIN full
                 PROVE  full[j].num = j - 1
      OBVIOUS
    <3>1. full[j].num = IF j <= MaxHistory THEN j - 1 ELSE MaxHistory
      BY DEF StreakInv, IsNumbered
    <3>2. j \in Nat /\ j <= MaxHistory + 1
      BY <2>1
    <3> QED BY <2>1, <3>1, <3>2
  <2>3. CoversHistory(full)
    <3>1. \A j \in DOMAIN full : j + 0 = j
      BY <2>1
    <3>2. Len(full) <= MaxHistory + 1 =>
             \A j \in DOMAIN full : full[j].num = (j + 0) - 1
      BY <2>2, <3>1
    <3> QED BY <2>1, <3>2, HistoryIsCovered
  <2>4. CoversHistory(kept)
    <3>1. kept # <<>>
      <4>1. Len(full) # 0
        BY <2>1, EmptySeq
      <4>2. Len(kept) # 0
        BY <2>1, <4>1 DEF StreakInv, KeptIsTheEnd
      <4> QED BY <4>2, EmptySeq
    <3>2. \A j \in DOMAIN kept : j + Dropped \in DOMAIN full
      BY <2>1
    <3>3. Len(full) <= MaxHistory + 1 =>
             \A j \in DOMAIN kept : kept[j].num = (j + Dropped) - 1
      BY <2>1, <2>2, <3>2
    <3>4. Dropped \in Nat
      BY <2>1
    <3> QED BY <2>1, <3>1, <3>3, <3>4, HistoryIsCovered
  <2> QED BY <2>3, <2>4
<1> QED BY <1>1, StreakCorrect, PTL

=============================================================================
