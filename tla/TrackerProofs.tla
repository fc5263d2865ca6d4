---------------------------- MODULE TrackerProofs ----------------------------
(***************************************************************************)
(* Theorems about the tracker and the bounds of EscalationLog.  Both are   *)
(* about sums over sets of any size.  A fold is a function that is         *)
(* recursive over the subsets of its indices; what holds of all of them is *)
(* shown by looking at a smallest set of which it does not.                *)
(***************************************************************************)
EXTENDS LogProofs, WellFoundedInduction

\* Every set of numbers has a least element.
LEMMA LeastNumber ==
    ASSUME NEW T \in SUBSET Nat, T # {}
    PROVE  \E n \in T : \A m \in T : n <= m
<1> DEFINE R == {ss \in Nat \X Nat : ss[1] < ss[2]}
<1>1. IsWellFoundedOn(R, Nat)
  BY NatLessThanWellFounded, Zenon DEF OpToRel
<1> HIDE DEF R
<1>2. PICK n \in T : \A m \in T : <<m, n>> \notin R
  BY <1>1, WFMin, Zenon
<1>3. \A m \in T : ~ (m < n)
  BY <1>2 DEF R
<1> QED BY <1>3

\* Among subsets of a finite set there is one of which none is a part.
LEMMA SmallestSet ==
    ASSUME NEW S, IsFiniteSet(S), NEW T \in SUBSET (SUBSET S), T # {}
    PROVE  \E s \in T : \A r \in T : r \subseteq s => r = s
<1> DEFINE Sizes == {Cardinality(s) : s \in T}
<1>1. \A s \in T : IsFiniteSet(s) /\ Cardinality(s) \in Nat
  BY FS_Subset, FS_CardinalityType
<1>2. Sizes \in SUBSET Nat /\ Sizes # {}
  BY <1>1
<1>3. PICK n \in Sizes : \A m \in Sizes : n <= m
  BY <1>2, LeastNumber
<1>4. PICK s \in T : n = Cardinality(s)
  BY <1>3
<1>5. ASSUME NEW r \in T, r \subseteq s PROVE r = s
  <2>1. Cardinality(s) <= Cardinality(r)
    BY <1>3, <1>4
  <2>2. Cardinality(r) <= Cardinality(s)
    BY <1>1, <1>5, FS_Subset
  <2> QED BY <1>1, <1>5, <2>1, <2>2, FS_Subset
<1> QED BY <1>5

\* If all subsets of a finite set are to be good, the empty one must be, and
\* one must be that is good without one of its elements.
LEMMA AllSubsets ==
    ASSUME NEW S, IsFiniteSet(S), NEW Good, {} \in Good,
           \A s \in SUBSET S : \A x \in s : s \ {x} \in Good => s \in Good
    PROVE  \A s \in SUBSET S : s \in Good
<1> DEFINE Bad == {s \in SUBSET S : s \notin Good}
<1>1. CASE Bad # {}
  <2>1. Bad \in SUBSET (SUBSET S)
    OBVIOUS
  <2> HIDE DEF Bad
  <2>2. PICK s \in Bad : \A r \in Bad : r \subseteq s => r = s
    BY <1>1, <2>1, SmallestSet
  <2> USE DEF Bad
  <2>3. PICK x \in s : TRUE
    BY <2>2
  <2>4. s \ {x} \in SUBSET S /\ s \ {x} # s /\ s \ {x} \subseteq s
    BY <2>2
  <2> QED BY <2>2, <2>4
<1> QED BY <1>1

-----------------------------------------------------------------------------
(***************************************************************************)
(* Sums.  What is counted x times is counted one by one, so the order in   *)
(* which a fold chooses the elements does not matter.                      *)
(***************************************************************************)
Total(f, S) == MapThenSumSet(LAMBDA x : f[x], S)

Units(f, s) == UNION {{x} \X (1 .. f[x]) : x \in s}

LEMMA UnitsRemove ==
    ASSUME NEW f, NEW s, IsFiniteSet(s), NEW x \in s, f[x] \in Nat,
           IsFiniteSet(Units(f, s \ {x}))
    PROVE  /\ IsFiniteSet(Units(f, s))
           /\ Cardinality(Units(f, s)) = f[x] + Cardinality(Units(f, s \ {x}))
<1> DEFINE P == {x} \X (1 .. f[x])
           Q == Units(f, s \ {x})
<1>1. Units(f, s) = P \cup Q
  BY DEF Units
<1>2. P \cap Q = {}
  BY DEF Units
<1>3. IsFiniteSet(P) /\ Cardinality(P) = f[x]
  <2>1. IsFiniteSet(1 .. f[x]) /\ Cardinality(1 .. f[x]) = f[x]
    BY FS_Interval
  <2>2. IsFiniteSet({x}) /\ Cardinality({x}) = 1
    BY FS_Singleton
  <2>3. /\ IsFiniteSet({x} \X (1 .. f[x]))
        /\ Cardinality({x} \X (1 .. f[x]))
              = Cardinality({x}) * Cardinality(1 .. f[x])
    BY <2>1, <2>2, FS_Product, Zenon
  <2> QED BY <2>1, <2>2, <2>3
<1>4. /\ IsFiniteSet(P \cup Q)
      /\ Cardinality(P \cup Q) = Cardinality(P) + Cardinality(Q) - Cardinality(P \cap Q)
  BY <1>3, FS_Union
<1>5. Cardinality({}) = 0 /\ Cardinality(Q) \in Nat
  BY FS_EmptySet, FS_CardinalityType
<1>6. Cardinality(P \cap Q) = 0
  BY <1>2, <1>5
<1> HIDE DEF P, Q
<1>7. Cardinality(P \cup Q) = f[x] + Cardinality(Q)
  BY <1>3, <1>4, <1>5, <1>6
<1> QED BY <1>1, <1>4, <1>7 DEF Q

LEMMA UnitsFinite ==
    ASSUME NEW S, IsFiniteSet(S), NEW f, \A x \in S : f[x] \in Nat
    PROVE  \A s \in SUBSET S : /\ IsFiniteSet(Units(f, s))
                               /\ Cardinality(Units(f, s)) \in Nat
<1> DEFINE Good == {s \in SUBSET S : IsFiniteSet(Units(f, s))}
<1>1. {} \in Good
  <2>1. Units(f, {}) = {}
    BY DEF Units
  <2> QED BY <2>1, FS_EmptySet
<1>2. ASSUME NEW s \in SUBSET S, NEW x \in s, s \ {x} \in Good PROVE s \in Good
  <2>1. IsFiniteSet(s) /\ f[x] \in Nat
    BY FS_Subset
  <2> QED BY <1>2, <2>1, UnitsRemove
<1>3. \A s \in SUBSET S : s \in Good
  <2> HIDE DEF Good
  <2> QED BY <1>1, <1>2, AllSubsets
<1> QED BY <1>3, FS_CardinalityType

LEMMA TotalIsCount ==
    ASSUME NEW S, IsFiniteSet(S), NEW f, \A x \in S : f[x] \in Nat
    PROVE  Total(f, S) = Cardinality(Units(f, S))
<1> DEFINE C(s) == CHOOSE x \in s : TRUE
           Sum(g, s) == IF s = {} THEN 0 ELSE f[C(s)] + g[s \ {C(s)}]
           Sums(g) == g = [s \in SUBSET S |-> Sum(g, s)]
           h == [s \in SUBSET S |-> Cardinality(Units(f, s))]
           iter == CHOOSE g : Sums(g)
<1>1. Total(f, S) = iter[S]
  BY DEF Total, MapThenSumSet, MapThenFoldSet
<1>2. \A s \in SUBSET S : s # {} => C(s) \in s
  OBVIOUS
<1>3. Sums(h)
  <2>1. ASSUME NEW s \in SUBSET S PROVE h[s] = Sum(h, s)
    <3>1. CASE s = {}
      BY <3>1, FS_EmptySet DEF Units
    <3>2. CASE s # {}
      <4>1. C(s) \in s /\ s \ {C(s)} \in SUBSET S /\ f[C(s)] \in Nat /\ IsFiniteSet(s)
        BY <1>2, <3>2, FS_Subset
      <4> HIDE DEF C
      <4>2. IsFiniteSet(Units(f, s \ {C(s)}))
        BY <4>1, UnitsFinite
      <4>3. Cardinality(Units(f, s)) = f[C(s)] + Cardinality(Units(f, s \ {C(s)}))
        BY <4>1, <4>2, UnitsRemove
      <4> QED BY <3>2, <4>1, <4>3
    <3> QED BY <3>1, <3>2
  <2> QED BY <2>1
<1>4. Sums(iter)
  BY <1>3
<1> DEFINE Good == {s \in SUBSET S : iter[s] = h[s]}
<1>5. \A s \in SUBSET S : s \in Good
  <2> HIDE DEF iter, h, C
  <2>1. \A s \in SUBSET S : iter[s] = Sum(iter, s) /\ h[s] = Sum(h, s)
    BY <1>3, <1>4
  <2>2. {} \in Good
    BY <2>1
  <2>3. ASSUME NEW s \in SUBSET S, s # {}, s \ {C(s)} \in Good PROVE s \in Good
    BY <2>1, <2>3
  <2> DEFINE Bad == {s \in SUBSET S : s \notin Good}
  <2>4. CASE Bad # {}
    <3>1. PICK s \in Bad : \A r \in Bad : r \subseteq s => r = s
      <4>1. Bad \in SUBSET (SUBSET S) /\ Bad # {}
        BY <2>4
      <4> HIDE DEF Bad
      <4> QED BY <4>1, SmallestSet
    <3>2. s \in SUBSET S /\ s \notin Good /\ s # {}
      BY <2>2, <3>1
    <3>3. C(s) \in s
      BY <1>2, <3>2
    <3>4. s \ {C(s)} \in SUBSET S /\ s \ {C(s)} # s /\ s \ {C(s)} \subseteq s
      BY <3>2, <3>3
    <3>5. s \ {C(s)} \in Good
      BY <3>1, <3>4
    <3> QED BY <2>3, <3>2, <3>5
  <2> QED BY <2>4
<1> QED BY <1>1, <1>5

\* A sum is its part at x and the rest.
LEMMA TotalAt ==
    ASSUME NEW S, IsFiniteSet(S), NEW f, \A x \in S : f[x] \in Nat
    PROVE  /\ Total(f, S) \in Nat
           /\ S = {} => Total(f, S) = 0
           /\ \A x \in S : Total(f, S) = f[x] + Total(f, S \ {x})
<1>1. Total(f, S) = Cardinality(Units(f, S))
  BY TotalIsCount
<1>2. S = {} => Units(f, S) = {}
  BY DEF Units
<1>3. ASSUME NEW x \in S PROVE Total(f, S) = f[x] + Total(f, S \ {x})
  <2>1. IsFiniteSet(S \ {x}) /\ \A y \in S \ {x} : f[y] \in Nat
    BY FS_Subset
  <2>2. Total(f, S \ {x}) = Cardinality(Units(f, S \ {x}))
    BY <2>1, TotalIsCount
  <2> QED BY <1>1, <2>1, <2>2, UnitsFinite, UnitsRemove
<1> QED BY <1>1, <1>2, <1>3, UnitsFinite, FS_EmptySet

LEMMA TotalOfNothing ==
    ASSUME NEW S, IsFiniteSet(S), NEW f, \A x \in S : f[x] = 0
    PROVE  Total(f, S) = 0
<1>1. Units(f, S) = {}
  BY DEF Units
<1>2. IsFiniteSet(S) /\ \A x \in S : f[x] \in Nat
  OBVIOUS
<1>3. Total(f, S) = Cardinality(Units(f, S))
  BY <1>2, TotalIsCount
<1> QED BY <1>1, <1>3, FS_EmptySet

LEMMA TotalSame ==
    ASSUME NEW S, IsFiniteSet(S), NEW f, NEW g,
           \A x \in S : f[x] \in Nat /\ g[x] = f[x]
    PROVE  Total(g, S) = Total(f, S)
<1>1. Units(g, S) = Units(f, S)
  BY DEF Units
<1> QED BY <1>1, TotalIsCount

\* One summand grows, or is new.
GrowsAt(f, g, S, x, d) ==
    /\ \A y \in S : f[y] \in Nat
    /\ \A y \in S \ {x} : g[y] = f[y]
    /\ g[x] = IF x \in S THEN f[x] + d ELSE d

LEMMA TotalWith ==
    ASSUME NEW S, IsFiniteSet(S), NEW f, NEW g, NEW x, NEW d \in Nat,
           GrowsAt(f, g, S, x, d)
    PROVE  Total(g, S \cup {x}) = Total(f, S) + d
<1> USE DEF GrowsAt
<1> DEFINE rest == S \ {x}
<1>1. IsFiniteSet(S \cup {x}) /\ IsFiniteSet(rest) /\ (S \cup {x}) \ {x} = rest
  BY FS_AddElement, FS_Subset
<1>2. \A y \in S \cup {x} : g[y] \in Nat
  OBVIOUS
<1>3. Total(g, S \cup {x}) = g[x] + Total(g, rest)
  BY <1>1, <1>2, TotalAt
<1>4. Total(g, rest) = Total(f, rest) /\ Total(f, rest) \in Nat
  BY <1>1, TotalSame, TotalAt
<1>5. CASE x \in S
  <2>1. Total(f, S) = f[x] + Total(f, rest)
    BY <1>5, TotalAt
  <2> QED BY <1>3, <1>4, <1>5, <2>1
<1>6. CASE x \notin S
  <2>1. rest = S /\ g[x] = d
    BY <1>6
  <2> HIDE DEF rest
  <2>2. Total(f, rest) = Total(f, S)
    BY <2>1
  <2> QED BY <1>3, <1>4, <2>1, <2>2
<1> QED BY <1>5, <1>6

\* The sum of sums.
LEMMA TotalAdds ==
    ASSUME NEW S, IsFiniteSet(S), NEW f, NEW g, NEW h,
           \A x \in S : f[x] \in Nat /\ g[x] \in Nat /\ h[x] = f[x] + g[x]
    PROVE  Total(h, S) = Total(f, S) + Total(g, S)
<1> DEFINE Good == {s \in SUBSET S : Total(h, s) = Total(f, s) + Total(g, s)}
<1>1. ASSUME NEW s \in SUBSET S
      PROVE  /\ IsFiniteSet(s)
             /\ Total(f, s) \in Nat /\ Total(g, s) \in Nat /\ Total(h, s) \in Nat
             /\ s = {} => Total(f, s) = 0 /\ Total(g, s) = 0 /\ Total(h, s) = 0
             /\ \A x \in s : /\ Total(f, s) = f[x] + Total(f, s \ {x})
                             /\ Total(g, s) = g[x] + Total(g, s \ {x})
                             /\ Total(h, s) = h[x] + Total(h, s \ {x})
  <2>1. /\ IsFiniteSet(s) /\ \A x \in s : f[x] \in Nat
        /\ \A x \in s : g[x] \in Nat
        /\ \A x \in s : h[x] \in Nat
    BY FS_Subset
  <2> QED BY <2>1, TotalAt
<1>2. {} \in Good
  BY <1>1
<1>3. ASSUME NEW s \in SUBSET S, NEW x \in s, s \ {x} \in Good PROVE s \in Good
  <2>1. s \ {x} \in SUBSET S
    OBVIOUS
  <2>2. /\ Total(f, s \ {x}) \in Nat /\ Total(g, s \ {x}) \in Nat
        /\ f[x] \in Nat /\ g[x] \in Nat /\ h[x] = f[x] + g[x]
    BY <1>1, <2>1
  <2>3. Total(h, s \ {x}) = Total(f, s \ {x}) + Total(g, s \ {x})
    BY <1>3
  <2>4. /\ Total(f, s) = f[x] + Total(f, s \ {x})
        /\ Total(g, s) = g[x] + Total(g, s \ {x})
        /\ Total(h, s) = h[x] + Total(h, s \ {x})
    BY <1>1
  <2>5. Total(h, s) = Total(f, s) + Total(g, s)
    BY <2>2, <2>3, <2>4
  <2> QED BY <2>5
<1>4. \A s \in SUBSET S : s \in Good
  <2> HIDE DEF Good
  <2> QED BY <1>2, <1>3, AllSubsets
<1> QED BY <1>4

\* A sum of shares in a set of events that have one owner each.
LEMMA TotalOfShares ==
    ASSUME NEW S, IsFiniteSet(S), NEW f, NEW W, IsFiniteSet(W),
           \A x \in S : /\ f[x] \in Nat
                        /\ f[x] <= Cardinality({e \in W : e.by = x})
    PROVE  Total(f, S) <= Cardinality(W)
<1> DEFINE Owned(s) == {e \in W : e.by \in s}
           Good == {s \in SUBSET S : Total(f, s) <= Cardinality(Owned(s))}
<1>1. ASSUME NEW s \in SUBSET S
      PROVE  /\ Total(f, s) \in Nat
             /\ s = {} => Total(f, s) = 0
             /\ \A x \in s : Total(f, s) = f[x] + Total(f, s \ {x})
             /\ Cardinality(Owned(s)) \in Nat
  <2>1. IsFiniteSet(s) /\ (\A x \in s : f[x] \in Nat) /\ IsFiniteSet(Owned(s))
    BY FS_Subset
  <2> QED BY <2>1, TotalAt, FS_CardinalityType
<1>2. {} \in Good
  BY <1>1
<1>3. ASSUME NEW s \in SUBSET S, NEW x \in s, s \ {x} \in Good PROVE s \in Good
  <2> DEFINE mine == {e \in W : e.by = x}
             others == Owned(s \ {x})
  <2>1. IsFiniteSet(mine) /\ IsFiniteSet(others)
    BY FS_Subset
  <2>2. Owned(s) = mine \cup others /\ mine \cap others = {}
    OBVIOUS
  <2>3. /\ Cardinality(mine) \in Nat /\ Cardinality(others) \in Nat
        /\ Cardinality(mine \cap others) = 0
    BY <2>1, <2>2, FS_CardinalityType, FS_EmptySet
  <2>4. Cardinality(mine \cup others)
           = Cardinality(mine) + Cardinality(others) - Cardinality(mine \cap others)
    BY <2>1, FS_Union
  <2>5. /\ f[x] \in Nat /\ f[x] <= Cardinality(mine)
        /\ Total(f, s \ {x}) \in Nat
        /\ Total(f, s \ {x}) <= Cardinality(others)
    BY <1>1, <1>3
  <2>6. Total(f, s) = f[x] + Total(f, s \ {x})
    BY <1>1
  <2>7. Cardinality(Owned(s)) = Cardinality(mine) + Cardinality(others)
    <3> HIDE DEF mine, others, Owned
    <3> QED BY <2>2, <2>3, <2>4
  <2> HIDE DEF mine, others, Owned
  <2>8. Total(f, s) <= Cardinality(Owned(s))
    BY <2>3, <2>5, <2>6, <2>7
  <2> QED BY <2>8
<1>4. \A s \in SUBSET S : s \in Good
  <2> HIDE DEF Good
  <2> QED BY <1>2, <1>3, AllSubsets
<1>5. Owned(S) \in SUBSET W /\ Cardinality(Owned(S)) <= Cardinality(W)
  BY FS_Subset
<1> QED BY <1>1, <1>4, <1>5, FS_CardinalityType

-----------------------------------------------------------------------------
(***************************************************************************)
(* The value of a tracker.                                                 *)
(***************************************************************************)
EscalationsOf(tr) == [t \in DOMAIN tr.tasks |-> tr.tasks[t].escalations]
CategoryOf(tr, c) == [t \in DOMAIN tr.tasks |-> tr.tasks[t].categories[c]]

LEMMA EscalationsAreTotal ==
    ASSUME NEW tr
    PROVE  TotalEscalations(tr) = Total(EscalationsOf(tr), DOMAIN tr.tasks)
BY DEF TotalEscalations, EscalationsOf, Total, MapThenSumSet, MapThenFoldSet

LEMMA CategoriesAreTotal ==
    ASSUME NEW tr, NEW c \in Categories
    PROVE  RoutingVsFailover(tr)[c] = Total(CategoryOf(tr, c), DOMAIN tr.tasks)
<1>1. MapThenSumSet(LAMBDA t : tr.tasks[t].categories[c], DOMAIN tr.tasks)
         = Total(CategoryOf(tr, c), DOMAIN tr.tasks)
  BY DEF CategoryOf, Total, MapThenSumSet, MapThenFoldSet
<1> QED BY <1>1 DEF RoutingVsFailover

IsKept(tr) ==
    /\ tr = [calls |-> tr.calls, tasks |-> tr.tasks]
    /\ IsTracker(tr, Loggers)

LEMMA KeptIsFinite ==
    ASSUME NEW tr, IsKept(tr)
    PROVE  IsFiniteSet(DOMAIN tr.tasks)
BY LogAssumption, FS_Subset DEF IsKept, IsTracker

LEMMA NewTrackerIsKept ==
    /\ IsKept(NewTracker) /\ DOMAIN NewTracker.tasks = {}
    /\ \A t : TaskOf(NewTracker, t) = NewTaskCost
BY DEF IsKept, IsTracker, NewTracker, TaskOf

LEMMA TaskType ==
    ASSUME NEW tr, IsKept(tr), NEW t
    PROVE  TaskOf(tr, t) \in TaskCost
BY DEF IsKept, IsTracker, TaskOf, NewTaskCost, TaskCost

\* The record of one task is replaced, or is new.
LEMMA WithTaskKept ==
    ASSUME NEW tr, IsKept(tr), NEW t \in Loggers, NEW cost \in TaskCost,
           NEW new, new = WithTask(tr, t, cost)
    PROVE  /\ IsKept(new) /\ new.calls = tr.calls
           /\ DOMAIN new.tasks = DOMAIN tr.tasks \cup {t}
           /\ new.tasks[t] = cost /\ TaskOf(new, t) = cost
           /\ \A u \in DOMAIN tr.tasks \ {t} : new.tasks[u] = tr.tasks[u]
           /\ \A u : u # t => TaskOf(new, u) = TaskOf(tr, u)
<1> DEFINE tasks == [u \in DOMAIN tr.tasks \cup {t} |->
                        IF u = t THEN cost ELSE tr.tasks[u]]
<1>1. new = [calls |-> tr.calls, tasks |-> tasks]
  BY DEF WithTask, IsKept
<1>2. new.calls = tr.calls /\ new.tasks = tasks
  BY <1>1
<1> QED BY <1>1, <1>2 DEF IsKept, IsTracker, TaskOf
LEMMA BeginRecorded ==
    ASSUME NEW tr, IsKept(tr), NEW l \in Loggers, NEW new,
           new = RecordStep(RecordGuardedCall(tr), l)
    PROVE  /\ IsKept(new)
           /\ TaskOf(new, l)
                 = [TaskOf(tr, l) EXCEPT !.retries = TaskOf(tr, l).retries + 1]
           /\ \A u : u # l => TaskOf(new, u) = TaskOf(tr, u)
<1> DEFINE mid == RecordGuardedCall(tr)
           old == TaskOf(tr, l)
           cost == [old EXCEPT !.retries = old.retries + 1]
<1>1. /\ mid = [calls |-> tr.calls + 1, tasks |-> tr.tasks]
      /\ tr.calls \in Nat
  BY DEF RecordGuardedCall, IsKept, IsTracker
<1>2. /\ mid.tasks = tr.tasks /\ IsKept(mid)
      /\ \A u : TaskOf(mid, u) = TaskOf(tr, u)
  BY <1>1 DEF IsKept, IsTracker, TaskOf
<1>3. old \in TaskCost
  BY TaskType
<1>4. cost \in TaskCost /\ RecordStep(mid, l) = WithTask(mid, l, cost)
  BY <1>2, <1>3 DEF TaskCost, RecordStep
<1> HIDE DEF cost, old, mid
<1>5. new = WithTask(mid, l, cost)
  BY <1>4 DEF mid
<1>6. /\ IsKept(new) /\ TaskOf(new, l) = cost
      /\ \A u : u # l => TaskOf(new, u) = TaskOf(mid, u)
  BY <1>2, <1>4, <1>5, WithTaskKept
<1> QED BY <1>2, <1>6 DEF cost, old

LEMMA EscalationRecorded ==
    ASSUME NEW tr, IsKept(tr), NEW l \in Loggers,
           NEW c \in Categories, NEW new, new = RecordEscalation(tr, l, c)
    PROVE  /\ IsKept(new)
           /\ TaskOf(new, l).escalations = TaskOf(tr, l).escalations + 1
           /\ TaskOf(new, l).categories
                 = [TaskOf(tr, l).categories EXCEPT
                       ![c] = TaskOf(tr, l).categories[c] + 1]
           /\ \A u : u # l => TaskOf(new, u) = TaskOf(tr, u)
<1> DEFINE old == TaskOf(tr, l)
           shares == [old.categories EXCEPT ![c] = old.categories[c] + 1]
           n == old.escalations + 1
           cost == [old EXCEPT !.escalations = n, !.categories = shares]
<1>1. old \in TaskCost /\ old.categories[c] \in Nat
  BY TaskType DEF TaskCost
<1>2. shares \in [Categories -> Nat]
  BY <1>1 DEF TaskCost
<1>3. new = WithTask(tr, l, cost)
  BY <1>1 DEF RecordEscalation, TaskCost
<1>4. n \in Nat
  BY <1>1 DEF TaskCost
<1> HIDE DEF old, shares, n
<1>5. cost \in TaskCost /\ cost.escalations = n /\ cost.categories = shares
  BY <1>1, <1>2, <1>4 DEF TaskCost
<1> HIDE DEF cost
<1>6. /\ IsKept(new) /\ TaskOf(new, l) = cost
      /\ \A u : u # l => TaskOf(new, u) = TaskOf(tr, u)
  BY <1>3, <1>5, WithTaskKept
<1> QED BY <1>5, <1>6 DEF old, shares, n

-----------------------------------------------------------------------------
(***************************************************************************)
(* A step of one logger is of one of four kinds; the proofs below are      *)
(* about these.                                                            *)
(***************************************************************************)
Alone(l) ==
    \A k \in Loggers \ {l} : logger'[k] = logger[k] /\ seen'[k] = seen[k]

HooksGrow(l) ==
    \/ logger'[l].hooks = logger[l].hooks
    \/ \E h \in Hooks : /\ MayRegister(l, h)
                        /\ logger'[l].hooks = Append(logger[l].hooks, h)

\* It is closed, or given a hook.
StaysIdle(l) ==
    /\ logger[l].phase = "idle" /\ logger'[l].phase = "idle"
    /\ logger'[l].next = logger[l].next
    /\ logger'[l].left = logger[l].left
    /\ logger'[l].escalations = logger[l].escalations
    /\ HooksGrow(l)
    /\ UNCHANGED <<seen, tracker, clock, counted, torn>>

\* Its guard begins a call.
Begins(l) ==
    /\ logger[l].phase = "idle" /\ logger'[l].phase = "idle"
    /\ logger'[l].next = logger[l].next
    /\ logger'[l].left = 2
    /\ logger'[l].escalations = logger[l].escalations
    /\ logger'[l].hooks = logger[l].hooks
    /\ tracker' = RecordStep(RecordGuardedCall(tracker), l)
    /\ UNCHANGED <<seen, clock, counted, torn>>

\* An event is created; only an escalation is counted.
Creates(l, e) ==
    /\ MoreEvents /\ logger[l].phase # "dispatch"
    /\ e \in Event /\ e.by = l /\ e.at = clock + 1
    /\ clock' = clock + 1
    /\ \/ /\ e.kind = "escalation" /\ e.category \in Categories
          /\ counted' = counted \cup {e}
          /\ logger'[l].escalations = logger[l].escalations + 1
       \/ /\ e.kind # "escalation" /\ counted' = counted
          /\ logger'[l].escalations = logger[l].escalations
    /\ logger'[l].left <= logger[l].left
    /\ logger'[l].hooks = logger[l].hooks
    /\ logger'[l].phase = "dispatch" =>
          logger'[l].event = e /\ logger'[l].next = 1
    /\ logger'[l].phase # "dispatch" => logger'[l].next = 0
    /\ torn' = torn \/ (torn < MaxTorn /\ torn' = torn + 1)
    /\ UNCHANGED <<seen, tracker>>

\* A hook has its turn.
Turned(l) ==
    /\ logger[l].phase = "dispatch"
    /\ Receive(l) \/ UNCHANGED <<seen, tracker>>
    /\ HooksGrow(l)
    /\ logger'[l].left <= logger[l].left
    /\ logger'[l].escalations = logger[l].escalations
    /\ logger'[l].phase = "dispatch" =>
          /\ Receive(l)
          /\ logger'[l].event = logger[l].event
          /\ logger'[l].next = logger[l].next + 1
    /\ logger'[l].phase # "dispatch" => logger'[l].next = 0
    /\ UNCHANGED <<clock, counted, torn>>

\* The process has died, perhaps with a new event.
Dead ==
    /\ Restarts /\ tracker' = NewTracker
    /\ torn < MaxTorn /\ torn' = torn + 1

DeadWith(e) ==
    /\ Dead /\ MoreEvents /\ e \in Event /\ clock' = clock + 1
    /\ counted' \in {counted, counted \cup {e}}

OneLogger(l) ==
    /\ Alone(l)
    /\ StaysIdle(l) \/ Begins(l) \/ (\E e : Creates(l, e)) \/ Turned(l)

\* What is left of a logger's state when the event at hand goes on.
LEMMA EndKeeps ==
    ASSUME NEW self \in LoggerRecord, NEW d,
           d = Raised(self) \/ d = Dispatching(self)
    PROVE  /\ d.hooks = self.hooks
           /\ d.left \in {self.left, 0} /\ d.left <= self.left
           /\ d.escalations = self.escalations
           /\ d.phase = "dispatch" =>
                 /\ d.event = self.event /\ d.next = self.next
                 /\ d # Raised(self)
           /\ d.phase # "dispatch" => d.next = 0
<1>1. /\ Settled(self) \in LoggerRecord /\ Settled(self).hooks = self.hooks
      /\ Settled(self).left = self.left /\ Settled(self).next = 0
      /\ Settled(self).escalations = self.escalations
      /\ Settled(self).phase = "idle"
  BY DEF Settled, LoggerRecord
<1>2. /\ Raised(self).hooks = self.hooks /\ Raised(self).left = self.left
      /\ Raised(self).escalations = self.escalations
      /\ Raised(self).phase # "dispatch" /\ Raised(self).next = 0
  BY <1>1 DEF Raised, LoggerRecord
<1>3. self.left \in Nat /\ self.left <= self.left /\ 0 <= self.left
  BY DEF LoggerRecord
<1>4. /\ Finished(self).hooks = self.hooks
      /\ Finished(self).left \in {self.left, 0}
      /\ Finished(self).escalations = self.escalations
      /\ Finished(self).phase = "idle" /\ Finished(self).next = 0
  BY <1>1 DEF Finished, LoggerRecord
<1>5. CASE d = Raised(self)
  BY <1>2, <1>3, <1>5
<1>6. CASE d = Finished(self)
  BY <1>3, <1>4, <1>6
<1>7. CASE d = [self EXCEPT !.phase = "dispatch"]
  <2>1. /\ d.hooks = self.hooks /\ d.left = self.left
        /\ d.escalations = self.escalations /\ d.phase = "dispatch"
        /\ d.event = self.event /\ d.next = self.next
    BY <1>7 DEF LoggerRecord
  <2> QED BY <1>2, <1>3, <2>1
<1> QED BY <1>5, <1>6, <1>7 DEF Dispatching

LEMMA OneBecomes ==
    ASSUME LogInv, NEW l \in Loggers, NEW self, Become(l, self)
    PROVE  logger'[l] = self /\ \A k \in Loggers \ {l} : logger'[k] = logger[k]
BY DEF LogInv, LogTypes, Become

Submitted(l, e, self) ==
    /\ Alone(l) /\ UNCHANGED <<seen, tracker>>
    /\ logger'[l].hooks = self.hooks /\ logger'[l].left \in {self.left, 0}
    /\ logger'[l].escalations = self.escalations
    /\ logger'[l].phase = "dispatch" =>
          logger'[l].event = e /\ logger'[l].next = 1
    /\ logger'[l].phase # "dispatch" => logger'[l].next = 0
    /\ torn' = torn \/ (torn < MaxTorn /\ torn' = torn + 1)

LEMMA SubmitMoves ==
    ASSUME LogInv, NEW l \in Loggers, NEW e \in Event,
           NEW self \in LoggerRecord, Submit(l, e, self)
    PROVE  clock' = clock + 1 /\ (Dead \/ Submitted(l, e, self))
<1> DEFINE text == self.buffer \o Line(e)
           with == [self EXCEPT !.event = e]
<1>1. /\ with \in LoggerRecord /\ with.hooks = self.hooks /\ with.event = e
      /\ with.left = self.left /\ with.escalations = self.escalations
      /\ self.buffer \in Seq(Piece)
  BY DEF LoggerRecord
<1>2. Line(e) \in Seq(Piece)
  BY DEF Line, Piece
<1>3. text \in Seq(Piece) /\ Len(text) \in Nat
  BY <1>1, <1>2, ConcatProperties, LenProperties
<1>4. clock' = clock + 1
  BY DEF Submit
<1>5. \/ Dies(text)
      \/ /\ UNCHANGED <<seen, tracker>>
         /\ \/ Flushed(l, with, text) \/ FlushFailed(l, with, text)
            \/ Become(l, Raised(with)) /\ UNCHANGED torn
  BY DEF Submit
<1> HIDE DEF with, text
<1>6. CASE Flushed(l, with, text) /\ UNCHANGED <<seen, tracker>>
  <2> DEFINE sent == [with EXCEPT !.buffer = <<>>, !.next = 1]
  <2>1. /\ sent \in LoggerRecord /\ sent.next = 1 /\ sent.hooks = with.hooks
        /\ sent.left = with.left /\ sent.escalations = with.escalations
        /\ sent.event = e
    BY <1>1, EmptySeq DEF LoggerRecord
  <2>2. Become(l, Dispatching(sent)) /\ UNCHANGED torn
    BY <1>6 DEF Flushed
  <2> HIDE DEF sent
  <2> QED BY <1>1, <1>4, <1>6, <2>1, <2>2, EndKeeps, OneBecomes DEF Alone, Submitted
<1>7. CASE FlushFailed(l, with, text) /\ UNCHANGED <<seen, tracker>>
  <2>1. PICK n \in 0 .. Len(text) - 1 :
           Become(l, Raised([with EXCEPT
                        !.buffer = SubSeq(text, n + 1, Len(text))]))
    BY <1>7 DEF FlushFailed
  <2> DEFINE left == [with EXCEPT !.buffer = SubSeq(text, n + 1, Len(text))]
  <2>2. n + 1 \in 1 .. Len(text) + 1 /\ Len(text) \in 0 .. Len(text)
    BY <1>3
  <2>3. SubSeq(text, n + 1, Len(text)) \in Seq(Piece)
    BY <1>3, <2>2, PartOfText
  <2>4. /\ left \in LoggerRecord /\ left.hooks = with.hooks
        /\ left.left = with.left /\ left.escalations = with.escalations
    BY <1>1, <2>3 DEF LoggerRecord
  <2>5. Become(l, Raised(left)) /\ torn < MaxTorn /\ torn' = torn + 1
    BY <1>7, <2>1 DEF FlushFailed
  <2> HIDE DEF left
  <2> QED BY <1>1, <1>4, <1>7, <2>4, <2>5, EndKeeps, OneBecomes DEF Alone, Submitted
<1>8. CASE Become(l, Raised(with)) /\ UNCHANGED <<seen, tracker, torn>>
  BY <1>1, <1>4, <1>8, EndKeeps, OneBecomes DEF Alone, Submitted
<1>9. CASE Dies(text)
  BY <1>4, <1>9 DEF Dies, Restarts, Dead
<1> QED BY <1>5, <1>6, <1>7, <1>8, <1>9

LEMMA DispatchMoves ==
    ASSUME LogInv, NEW l \in Loggers, HookReturns(l) \/ HookRaises(l)
    PROVE  Alone(l) /\ Turned(l)
<1>0. PICK old \in LoggerRecord : old = logger[l]
  BY DEF LogInv, LogTypes
<1> DEFINE next == [old EXCEPT !.next = old.next + 1]
<1>1. /\ old.phase = "dispatch" /\ UNCHANGED <<clock, counted, torn>>
      /\ Receive(l) \/ UNCHANGED <<seen, tracker>>
  BY <1>0 DEF HookReturns, HookRaises
<1>2. \A k \in Loggers \ {l} : seen'[k] = seen[k]
  BY <1>0, <1>1, ReceiveGets
<1>3. old.next + 1 \in Nat
  BY DEF LoggerRecord
<1>4. /\ next \in LoggerRecord /\ next.next = old.next + 1
      /\ next.hooks = old.hooks /\ next.event = old.event
      /\ next.left = old.left /\ next.escalations = old.escalations
  BY <1>3 DEF LoggerRecord
<1> HIDE DEF next
<1>5. CASE Become(l, Raised(old))
  BY <1>0, <1>1, <1>2, <1>5, EndKeeps, OneBecomes DEF Alone, Turned, HooksGrow
<1>6. CASE Receive(l) /\ Become(l, Dispatching(next))
  BY <1>0, <1>1, <1>2, <1>4, <1>6, EndKeeps, OneBecomes
  DEF Alone, Turned, HooksGrow
<1>7. ASSUME NEW h \in Hooks, MayRegister(l, h), Receive(l),
             Become(l, Dispatching([next EXCEPT !.hooks = Append(next.hooks, h)]))
      PROVE  Alone(l) /\ Turned(l)
  <2> DEFINE more == [next EXCEPT !.hooks = Append(next.hooks, h)]
  <2>1. Append(next.hooks, h) \in Seq(Hooks)
    BY <1>4, AppendProperties DEF LoggerRecord
  <2>2. /\ more \in LoggerRecord /\ more.event = next.event
        /\ more.next = next.next /\ more.hooks = Append(next.hooks, h)
        /\ more.left = next.left /\ more.escalations = next.escalations
    BY <1>4, <2>1 DEF LoggerRecord
  <2>3. Become(l, Dispatching(more))
    BY <1>7
  <2> HIDE DEF more
  <2> QED BY <1>0, <1>1, <1>2, <1>4, <1>7, <2>2, <2>3, EndKeeps, OneBecomes
      DEF Alone, Turned, HooksGrow
<1>8. \/ Become(l, Raised(old))
      \/ Receive(l) /\ Become(l, Dispatching(next))
      \/ \E h \in Hooks :
            /\ MayRegister(l, h) /\ Receive(l)
            /\ Become(l, Dispatching([next EXCEPT !.hooks = Append(@, h)]))
  BY <1>0 DEF HookReturns, HookRaises, next
<1> QED BY <1>5, <1>6, <1>7, <1>8

LEMMA EventMoves ==
    ASSUME LogInv, NEW l \in Loggers,
           \/ \E t \in TriggersOf[l] :
                 Escalate(l, t) \/ HandleCap(l, t) \/ ModelFailure(l, t)
           \/ HandleFailure(l)
    PROVE  \E e : DeadWith(e) \/ (Alone(l) /\ Creates(l, e))
<1>1. PICK old \in LoggerRecord : old = logger[l]
  BY DEF LogInv, LogTypes
<1>2. ASSUME NEW t \in Triggers, MoreEvents, NEW kind \in Kinds
      PROVE  /\ EventOf(l, kind, t) \in Event /\ EventOf(l, kind, t).by = l
             /\ EventOf(l, kind, t).at = clock + 1
             /\ EventOf(l, kind, t).kind = kind
             /\ kind = "escalation" => EventOf(l, kind, t).category \in Categories
  BY <1>2, EventType DEF EventOf, Category, Categories
<1>3. ASSUME NEW t \in TriggersOf[l],
             Escalate(l, t) \/ HandleCap(l, t) \/ ModelFailure(l, t)
      PROVE  \E e : DeadWith(e) \/ (Alone(l) /\ Creates(l, e))
  <2>1. /\ t \in Triggers /\ MoreEvents /\ old.left > 0 /\ old.phase = "idle"
    BY <1>1, <1>3
    DEF Triggers, Escalate, HandleCap, ModelFailure, MayLog, Idle
  <2> DEFINE once == [old EXCEPT !.left = old.left - 1]
             twice == [old EXCEPT !.left = old.left - 1,
                                  !.escalations = old.escalations + 1]
  <2>2. /\ old.left - 1 \in Nat /\ old.escalations + 1 \in Nat
        /\ old.left - 1 <= old.left /\ 0 <= old.left
    BY <2>1 DEF LoggerRecord
  <2>3. /\ once \in LoggerRecord /\ once.hooks = old.hooks
        /\ once.left = old.left - 1 /\ once.escalations = old.escalations
    BY <2>2 DEF LoggerRecord
  <2>4. /\ twice \in LoggerRecord /\ twice.hooks = old.hooks
        /\ twice.left = old.left - 1 /\ twice.escalations = old.escalations + 1
    BY <2>2 DEF LoggerRecord
  <2>5. \/ /\ Submit(l, EventOf(l, "escalation", t), twice)
           /\ counted' = counted \cup {EventOf(l, "escalation", t)}
        \/ /\ \/ Submit(l, EventOf(l, "capped", t), once)
              \/ Submit(l, EventOf(l, "failopen", t), once)
           /\ counted' = counted
    BY <1>1, <1>3 DEF Escalate, HandleCap, ModelFailure
  <2> HIDE DEF once, twice
  <2>6. CASE /\ Submit(l, EventOf(l, "escalation", t), twice)
             /\ counted' = counted \cup {EventOf(l, "escalation", t)}
    <3> DEFINE e == EventOf(l, "escalation", t)
    <3>1. /\ e \in Event /\ e.by = l /\ e.at = clock + 1
          /\ e.kind = "escalation" /\ e.category \in Categories
      BY <1>2, <2>1 DEF Kinds
    <3>2. Submit(l, e, twice) /\ counted' = counted \cup {e}
      BY <2>6
    <3> HIDE DEF e
    <3>3. CASE Dead
      BY <2>1, <2>4, <3>1, <3>2, <3>3, SubmitMoves DEF DeadWith
    <3>4. CASE Submitted(l, e, twice)
      <4>1. logger'[l].left <= old.left
        BY <2>2, <2>4, <3>4 DEF Submitted
      <4>2. clock' = clock + 1
        BY <2>4, <3>1, <3>2, SubmitMoves
      <4> QED BY <1>1, <2>1, <2>4, <3>1, <3>2, <3>4, <4>1, <4>2
          DEF Creates, Submitted
    <3> QED BY <2>4, <3>1, <3>2, <3>3, <3>4, SubmitMoves
  <2>7. ASSUME NEW kind \in {"capped", "failopen"},
               Submit(l, EventOf(l, kind, t), once), counted' = counted
        PROVE  \E e : DeadWith(e) \/ (Alone(l) /\ Creates(l, e))
    <3> DEFINE e == EventOf(l, kind, t)
    <3>1. /\ e \in Event /\ e.by = l /\ e.at = clock + 1
          /\ e.kind # "escalation"
      BY <1>2, <2>1, <2>7 DEF Kinds
    <3>2. Submit(l, e, once)
      BY <2>7
    <3> HIDE DEF e
    <3>3. CASE Dead
      BY <2>1, <2>3, <2>7, <3>1, <3>2, <3>3, SubmitMoves DEF DeadWith
    <3>4. CASE Submitted(l, e, once)
      <4>1. logger'[l].left <= old.left
        BY <2>2, <2>3, <3>4 DEF Submitted
      <4>2. clock' = clock + 1
        BY <2>3, <3>1, <3>2, SubmitMoves
      <4> QED BY <1>1, <2>1, <2>3, <2>7, <3>1, <3>4, <4>1, <4>2
          DEF Creates, Submitted
    <3> QED BY <2>3, <3>1, <3>2, <3>3, <3>4, SubmitMoves
  <2> QED BY <2>5, <2>6, <2>7
<1>4. CASE HandleFailure(l)
  <2>1. /\ old.event \in Event /\ MoreEvents /\ old.phase = "raised"
        /\ counted' = counted
    BY <1>1, <1>4 DEF HandleFailure, LogInv, AtHand
  <2>2. old.event.trigger \in Triggers
    BY <2>1 DEF Event
  <2> DEFINE e == EventOf(l, "failopen", old.event.trigger)
  <2>3. /\ e \in Event /\ e.by = l /\ e.at = clock + 1
        /\ e.kind # "escalation"
    BY <1>2, <2>1, <2>2 DEF Kinds
  <2>4. Submit(l, e, old)
    BY <1>1, <1>4 DEF HandleFailure
  <2> HIDE DEF e
  <2>5. CASE Dead
    BY <2>1, <2>3, <2>4, <2>5, SubmitMoves DEF DeadWith
  <2>6. CASE Submitted(l, e, old)
    <3>1. old.left \in Nat /\ old.left <= old.left /\ 0 <= old.left
      BY DEF LoggerRecord
    <3>2. logger'[l].left <= old.left
      BY <2>6, <3>1 DEF Submitted
    <3>3. clock' = clock + 1
      BY <2>3, <2>4, SubmitMoves
    <3> QED BY <1>1, <2>1, <2>3, <2>6, <3>2, <3>3 DEF Creates, Submitted
  <2> QED BY <2>3, <2>4, <2>5, <2>6, SubmitMoves
<1> QED BY <1>3, <1>4

LEMMA IdleMoves ==
    ASSUME LogInv, NEW l \in Loggers,
           BeginCall(l) \/ Close(l) \/ \E h \in Hooks : RegisterHook(l, h)
    PROVE  Alone(l) /\ (StaysIdle(l) \/ Begins(l))
<1>1. PICK old \in LoggerRecord : old = logger[l]
  BY DEF LogInv, LogTypes
<1>2. CASE BeginCall(l)
  <2> DEFINE self == [old EXCEPT !.left = 2]
  <2>1. /\ Become(l, self) /\ old.phase = "idle"
        /\ tracker' = RecordStep(RecordGuardedCall(tracker), l)
        /\ UNCHANGED <<seen, clock, counted, torn>>
    BY <1>1, <1>2 DEF BeginCall, Idle
  <2>2. /\ self.phase = old.phase /\ self.next = old.next /\ self.left = 2
        /\ self.escalations = old.escalations /\ self.hooks = old.hooks
    BY DEF LoggerRecord
  <2> HIDE DEF self
  <2> QED BY <1>1, <2>1, <2>2, OneBecomes DEF Alone, Begins
<1>3. CASE Close(l)
  <2> DEFINE self == [old EXCEPT !.open = FALSE, !.buffer = <<>>]
  <2>1. /\ Become(l, self) /\ old.phase = "idle"
        /\ UNCHANGED <<seen, tracker, clock, counted, torn>>
    BY <1>1, <1>3 DEF Close, Idle
  <2>2. /\ self.phase = old.phase /\ self.next = old.next
        /\ self.left = old.left
        /\ self.escalations = old.escalations /\ self.hooks = old.hooks
    BY DEF LoggerRecord
  <2> HIDE DEF self
  <2> QED BY <1>1, <2>1, <2>2, OneBecomes DEF Alone, StaysIdle, HooksGrow
<1>4. ASSUME NEW h \in Hooks, RegisterHook(l, h)
      PROVE  Alone(l) /\ StaysIdle(l)
  <2> DEFINE self == [old EXCEPT !.hooks = Append(old.hooks, h)]
  <2>1. /\ Become(l, self) /\ old.phase = "idle" /\ MayRegister(l, h)
        /\ UNCHANGED <<seen, tracker, clock, counted, torn>>
    BY <1>1, <1>4 DEF RegisterHook, Idle
  <2>2. /\ self.phase = old.phase /\ self.next = old.next
        /\ self.left = old.left
        /\ self.escalations = old.escalations
        /\ self.hooks = Append(old.hooks, h)
    BY DEF LoggerRecord
  <2> HIDE DEF self
  <2> QED BY <1>1, <2>1, <2>2, OneBecomes DEF Alone, StaysIdle, HooksGrow
<1> QED BY <1>2, <1>3, <1>4

LEMMA StepIsOfOneLogger ==
    ASSUME LogInv, [LogNext]_lvars
    PROVE  \/ UNCHANGED lvars \/ ClearTracker \/ \E e : DeadWith(e)
           \/ Dead /\ UNCHANGED <<clock, counted>>
           \/ \E l \in Loggers : OneLogger(l)
<1>1. CASE Crash
  BY <1>1 DEF Crash, Dies, Dead, Restarts
<1>2. ASSUME NEW l \in Loggers,
             \/ \E t \in TriggersOf[l] :
                   Escalate(l, t) \/ HandleCap(l, t) \/ ModelFailure(l, t)
             \/ HandleFailure(l)
      PROVE  (\E e : DeadWith(e)) \/ OneLogger(l)
  BY <1>2, EventMoves DEF OneLogger
<1>3. ASSUME NEW l \in Loggers,
             \/ BeginCall(l) \/ Close(l) \/ HookReturns(l) \/ HookRaises(l)
             \/ \E h \in Hooks : RegisterHook(l, h)
      PROVE  OneLogger(l)
  BY <1>3, IdleMoves, DispatchMoves DEF OneLogger
<1> QED BY <1>1, <1>2, <1>3 DEF LogNext
-----------------------------------------------------------------------------
(***************************************************************************)
(* What the tracker has of a task, and what its hook has seen.             *)
(***************************************************************************)
EventsKnown(l) ==
    \A h \in Hooks : \A e \in EventsSeen(l, h) :
        /\ e \in Event /\ e.by = l /\ e.at <= clock
        /\ e.kind = "escalation" => e \in counted

\* The event at hand was counted, and is new to the hooks still to come.
HandKnown(l) ==
    logger[l].phase = "dispatch" =>
        LET e == logger[l].event
        IN  /\ e.by = l /\ e.at <= clock
            /\ e.kind = "escalation" => e \in counted /\ e.category \in Categories
            /\ \A i \in DOMAIN logger[l].hooks :
                  logger[l].next <= i => e \notin EventsSeen(l, logger[l].hooks[i])

SeenAs(l, c) ==
    {e \in EventsSeen(l, TrackerHook) : e.kind = "escalation" /\ e.category = c}

SharesSeen(l) ==
    \A c \in Categories :
        TaskOf(tracker, l).categories[c] <= Cardinality(SeenAs(l, c))

SharesAdd(l) ==
    TaskOf(tracker, l).escalations
       = TaskOf(tracker, l).categories["routing"]
            + TaskOf(tracker, l).categories["failover"]

TaskInv(l) ==
    /\ EventsKnown(l) /\ HandKnown(l)
    /\ SharesSeen(l) /\ SharesAdd(l)

TrackInv ==
    /\ OrderInv
    /\ IsKept(tracker)
    /\ counted \subseteq Event /\ IsFiniteSet(counted)
    /\ \A l \in Loggers : TaskInv(l)

LEMMA TrackTypes ==
    ASSUME TrackInv, NEW l \in Loggers
    PROVE  /\ logger[l] \in LoggerRecord /\ AtHand(logger[l]) /\ clock \in Nat
           /\ logger[l].hooks \in Seq(Hooks) /\ HooksInOrder(l) /\ TaskInv(l)
           /\ TaskOf(tracker, l).escalations \in Nat
           /\ \A c \in Categories : TaskOf(tracker, l).categories[c] \in Nat
<1>1. TaskOf(tracker, l) \in TaskCost
  BY TaskType DEF TrackInv
<1> QED
  BY <1>1 DEF TrackInv, OrderInv, LogInv, LogTypes, LoggerRecord, TaskCost

LEMMA SharesFinite ==
    ASSUME TrackInv, NEW l \in Loggers, NEW c
    PROVE  IsFiniteSet(SeenAs(l, c)) /\ Cardinality(SeenAs(l, c)) \in Nat
<1>1. SeenAs(l, c) \subseteq counted
  BY LogAssumption DEF TrackInv, TaskInv, EventsKnown, SeenAs
<1> QED BY <1>1, FS_Subset, FS_CardinalityType DEF TrackInv

\* A logger that another one's step, or none, leaves alone.
LEMMA OthersKeep ==
    ASSUME TrackInv, NEW k \in Loggers, logger'[k] = logger[k],
           seen'[k] = seen[k], TaskOf(tracker', k) = TaskOf(tracker, k),
           clock' \in Nat, clock <= clock', counted \subseteq counted'
    PROVE  TaskInv(k)'
<1>1. \A h : EventsSeen(k, h)' = EventsSeen(k, h)
  BY DEF EventsSeen
<1>2. clock \in Nat /\ AtHand(logger[k]) /\ TaskInv(k)
  BY TrackTypes
<1>3. \A e \in Event : e.at \in Nat
  BY LogAssumption DEF Event
<1>4. EventsKnown(k)'
  BY <1>1, <1>2, <1>3 DEF TaskInv, EventsKnown
<1>5. HandKnown(k)'
  BY <1>1, <1>2, <1>3 DEF TaskInv, HandKnown, AtHand
<1>6. SharesSeen(k)' /\ SharesAdd(k)'
  BY <1>1, <1>2 DEF TaskInv, SharesSeen, SeenAs, SharesAdd
<1> QED BY <1>4, <1>5, <1>6 DEF TaskInv

LEMMA IdleTracks ==
    ASSUME TrackInv, NEW l \in Loggers, StaysIdle(l)
    PROVE  TaskInv(l)' /\ tracker' = tracker
<1>1. \A h : EventsSeen(l, h)' = EventsSeen(l, h)
  BY DEF EventsSeen, StaysIdle
<1>2. TaskInv(l)
  BY TrackTypes
<1>3. UNCHANGED <<tracker, clock, counted>> /\ logger'[l].phase = "idle"
  BY DEF StaysIdle
<1>4. EventsKnown(l)' /\ HandKnown(l)'
  BY <1>1, <1>2, <1>3 DEF TaskInv, EventsKnown, HandKnown
<1>5. SharesSeen(l)' /\ SharesAdd(l)'
  BY <1>1, <1>2, <1>3 DEF TaskInv, SharesSeen, SeenAs, SharesAdd
<1> QED BY <1>3, <1>4, <1>5 DEF TaskInv

LEMMA BeginTracks ==
    ASSUME TrackInv, NEW l \in Loggers, Begins(l)
    PROVE  /\ TaskInv(l)' /\ IsKept(tracker')
           /\ \A k : k # l => TaskOf(tracker', k) = TaskOf(tracker, k)
<1> DEFINE cost == TaskOf(tracker, l)
           then == TaskOf(tracker', l)
<1>1. /\ IsKept(tracker')
      /\ then = [cost EXCEPT !.retries = cost.retries + 1]
      /\ \A k : k # l => TaskOf(tracker', k) = TaskOf(tracker, k)
  BY BeginRecorded DEF TrackInv, Begins
<1>2. cost \in TaskCost
  BY TaskType DEF TrackInv
<1>3. /\ then.escalations = cost.escalations
      /\ then.categories = cost.categories
  BY <1>1, <1>2 DEF TaskCost
<1>4. \A h : EventsSeen(l, h)' = EventsSeen(l, h)
  BY DEF EventsSeen, Begins
<1>5. /\ TaskInv(l)
      /\ UNCHANGED <<clock, counted>> /\ logger'[l].phase = "idle"
  BY TrackTypes DEF Begins
<1>6. EventsKnown(l)' /\ HandKnown(l)'
  BY <1>4, <1>5 DEF TaskInv, EventsKnown, HandKnown
<1>7. SharesSeen(l)' /\ SharesAdd(l)'
  BY <1>3, <1>4, <1>5 DEF TaskInv, SharesSeen, SeenAs, SharesAdd
<1> QED BY <1>1, <1>6, <1>7 DEF TaskInv

LEMMA CreateTracks ==
    ASSUME TrackInv, LogInv', NEW l \in Loggers, NEW e, Creates(l, e)
    PROVE  /\ TaskInv(l)' /\ tracker' = tracker
           /\ clock' \in Nat /\ clock <= clock' /\ counted \subseteq counted'
           /\ counted' \subseteq Event /\ IsFiniteSet(counted')
<1>1. \A h : EventsSeen(l, h)' = EventsSeen(l, h)
  BY DEF EventsSeen, Creates
<1>2. /\ TaskInv(l) /\ clock \in Nat
      /\ logger[l].hooks \in Seq(Hooks)
  BY TrackTypes DEF Creates
<1>3. \A x \in Event : x.at \in Nat
  BY LogAssumption DEF Event
<1>4. tracker' = tracker /\ clock' = clock + 1 /\ e \in Event
  BY DEF Creates
<1>5. counted' \in {counted, counted \cup {e}}
  BY DEF Creates
<1>6. counted \subseteq counted' /\ counted' \subseteq Event /\ IsFiniteSet(counted')
  BY <1>4, <1>5, FS_AddElement DEF TrackInv
<1>7. EventsKnown(l)'
  BY <1>1, <1>2, <1>3, <1>4, <1>6 DEF TaskInv, EventsKnown
<1>8. \A h \in Hooks : e \notin EventsSeen(l, h)
  <2> SUFFICES ASSUME NEW h \in Hooks, e \in EventsSeen(l, h) PROVE FALSE
    OBVIOUS
  <2>1. e.at <= clock /\ e.at = clock + 1
    BY <1>2 DEF TaskInv, EventsKnown, Creates
  <2> QED BY <1>2, <2>1
<1>9. HandKnown(l)'
  <2> SUFFICES ASSUME logger'[l].phase = "dispatch" PROVE HandKnown(l)'
    BY DEF HandKnown
  <2>1. /\ logger'[l].event = e /\ e.by = l /\ e.at = clock + 1
        /\ e.kind = "escalation" => e \in counted' /\ e.category \in Categories
        /\ logger'[l].hooks = logger[l].hooks
    BY DEF Creates
  <2>2. \A i \in DOMAIN logger[l].hooks : logger[l].hooks[i] \in Hooks
    BY <1>2, ElementOfSeq, LenProperties
  <2> QED BY <1>1, <1>2, <1>4, <1>8, <2>1, <2>2 DEF HandKnown
<1>10. SharesSeen(l)' /\ SharesAdd(l)'
  BY <1>1, <1>2, <1>4 DEF TaskInv, SharesSeen, SeenAs, SharesAdd
<1> QED BY <1>2, <1>4, <1>6, <1>7, <1>9, <1>10 DEF TaskInv

\* What the hook that has its turn is added to.
LEMMA TurnSees ==
    ASSUME TrackInv, NEW l \in Loggers, Turned(l)
    PROVE  \E h \in Hooks, i \in DOMAIN logger[l].hooks :
              /\ h = logger[l].hooks[i] /\ i = logger[l].next
              /\ \A g \in Hooks \ {h} : EventsSeen(l, g)' = EventsSeen(l, g)
              /\ Receive(l) => EventsSeen(l, h)'
                                  = EventsSeen(l, h) \cup {logger[l].event}
              /\ ~ Receive(l) => EventsSeen(l, h)' = EventsSeen(l, h)
<1>1. LogInv /\ logger[l].phase = "dispatch" /\ AtHand(logger[l])
      /\ logger[l].hooks \in Seq(Hooks)
  BY TrackTypes DEF TrackInv, OrderInv, Turned
<1>2. PICK i \in DOMAIN logger[l].hooks : i = logger[l].next
  BY <1>1, LenProperties DEF AtHand
<1>3. PICK h \in Hooks : h = logger[l].hooks[i]
  BY <1>1, <1>2, ElementOfSeq, LenProperties
<1>4. CASE Receive(l)
  <2>1. Got(l)' = [Got(l) EXCEPT ![h] = @ \cup {logger[l].event}]
    BY <1>1, <1>2, <1>3, <1>4, ReceiveGets
  <2>2. /\ Got(l)'[h] = Got(l)[h] \cup {logger[l].event}
        /\ \A g \in Hooks \ {h} : Got(l)'[g] = Got(l)[g]
    BY <2>1 DEF Got
  <2>3. \A g \in Hooks : /\ Got(l)[g] = EventsSeen(l, g)
                         /\ Got(l)'[g] = EventsSeen(l, g)'
    BY DEF Got
  <2> QED BY <1>2, <1>3, <1>4, <2>2, <2>3
<1>5. CASE ~ Receive(l)
  <2>1. \A g : EventsSeen(l, g)' = EventsSeen(l, g)
    BY <1>5 DEF Turned, EventsSeen
  <2> QED BY <1>2, <1>3, <1>5, <2>1
<1> QED BY <1>4, <1>5

LEMMA TurnKnows ==
    ASSUME TrackInv, LogInv', NEW l \in Loggers, Turned(l)
    PROVE  EventsKnown(l)' /\ HandKnown(l)'
<1>1. /\ TaskInv(l) /\ AtHand(logger[l]) /\ HooksInOrder(l)
      /\ logger[l].phase = "dispatch"
  BY TrackTypes DEF Turned
<1>2. PICK hooks \in Seq(Hooks) : hooks = logger[l].hooks
  BY TrackTypes
<1>3. PICK e \in Event : e = logger[l].event
  BY <1>1 DEF AtHand
<1>4. PICK h \in Hooks, n \in DOMAIN hooks :
         /\ h = hooks[n] /\ n = logger[l].next
         /\ \A g \in Hooks \ {h} : EventsSeen(l, g)' = EventsSeen(l, g)
         /\ Receive(l) => EventsSeen(l, h)' = EventsSeen(l, h) \cup {e}
         /\ ~ Receive(l) => EventsSeen(l, h)' = EventsSeen(l, h)
  BY <1>2, <1>3, TurnSees
<1>5. /\ e.by = l /\ e.at <= clock
      /\ e.kind = "escalation" => e \in counted /\ e.category \in Categories
  BY <1>1, <1>3 DEF TaskInv, HandKnown
<1>6. UNCHANGED <<clock, counted>>
  BY DEF Turned
<1>7. EventsKnown(l)'
  BY <1>1, <1>4, <1>5, <1>6 DEF TaskInv, EventsKnown
<1>8. HandKnown(l)'
  <2> SUFFICES ASSUME logger'[l].phase = "dispatch" PROVE HandKnown(l)'
    BY DEF HandKnown
  <2>1. Receive(l) /\ logger'[l].event = e /\ logger'[l].next = n + 1
    BY <1>3, <1>4 DEF Turned
  <2>2. /\ DOMAIN hooks = 1 .. Len(hooks) /\ Len(hooks) \in Nat /\ n \in Nat
        /\ \A i \in DOMAIN hooks : hooks[i] \in Hooks
    BY <1>4, LenProperties, ElementOfSeq
  <2>3. PICK more \in Seq(Hooks) : more = logger'[l].hooks
    BY DEF LogInv, LogTypes, LoggerRecord
  <2>4. ASSUME NEW i \in DOMAIN hooks, n + 1 <= i
        PROVE  e \notin EventsSeen(l, hooks[i])'
    <3>1. i # n /\ n <= i
      BY <2>2, <2>4
    <3>2. hooks[i] # h
      BY <1>1, <1>2, <1>4, <3>1 DEF HooksInOrder, InOrder
    <3>3. e \notin EventsSeen(l, hooks[i])
      BY <1>1, <1>2, <1>3, <1>4, <3>1 DEF TaskInv, HandKnown
    <3> QED BY <1>4, <2>2, <3>2, <3>3
  <2>5. ASSUME NEW g \in Hooks, MayRegister(l, g)
        PROVE  e \notin EventsSeen(l, g)'
    <3>1. g \notin Range(hooks)
      BY <1>2, <2>5 DEF MayRegister
    <3>2. g # h
      BY <1>4, <3>1 DEF Range
    <3>3. Got(l)[g] = {}
      BY <1>1, <1>2, <3>1 DEF HooksInOrder, InOrder
    <3> QED BY <1>4, <3>2, <3>3 DEF Got
  <2>6. ASSUME NEW i \in DOMAIN more, n + 1 <= i
        PROVE  e \notin EventsSeen(l, more[i])'
    <3>1. CASE more = hooks
      BY <2>4, <2>6, <3>1
    <3>2. ASSUME NEW g \in Hooks, MayRegister(l, g), more = Append(hooks, g)
          PROVE  e \notin EventsSeen(l, more[i])'
      <4>1. /\ DOMAIN more = 1 .. Len(hooks) + 1
            /\ \A j \in DOMAIN hooks : more[j] = hooks[j]
            /\ more[Len(hooks) + 1] = g
        BY <2>2, <3>2, AppendProperties, LenProperties
      <4>2. i \in DOMAIN hooks \/ i = Len(hooks) + 1
        BY <2>2, <4>1
      <4> QED BY <2>4, <2>5, <2>6, <3>2, <4>1, <4>2
    <3> QED BY <1>2, <2>3, <3>1, <3>2 DEF Turned, HooksGrow
  <2> QED BY <1>5, <1>6, <2>1, <2>3, <2>6 DEF HandKnown
<1> QED BY <1>7, <1>8

LEMMA TurnTracks ==
    ASSUME TrackInv, LogInv', NEW l \in Loggers, Turned(l)
    PROVE  /\ TaskInv(l)' /\ IsKept(tracker')
           /\ \A k : k # l => TaskOf(tracker', k) = TaskOf(tracker, k)
<1>1. /\ TaskInv(l) /\ AtHand(logger[l]) /\ logger[l].phase = "dispatch"
  BY TrackTypes DEF Turned
<1>2. PICK hooks \in Seq(Hooks) : hooks = logger[l].hooks
  BY TrackTypes
<1>3. PICK e \in Event : e = logger[l].event
  BY <1>1 DEF AtHand
<1>4. PICK h \in Hooks, n \in DOMAIN hooks :
         /\ h = hooks[n] /\ n = logger[l].next
         /\ \A g \in Hooks \ {h} : EventsSeen(l, g)' = EventsSeen(l, g)
         /\ Receive(l) => EventsSeen(l, h)' = EventsSeen(l, h) \cup {e}
         /\ ~ Receive(l) => EventsSeen(l, h)' = EventsSeen(l, h)
  BY <1>2, <1>3, TurnSees
<1>5. EventsKnown(l)' /\ HandKnown(l)'
  BY TurnKnows
<1>6. /\ TaskOf(tracker, l).escalations \in Nat
      /\ \A c \in Categories : TaskOf(tracker, l).categories[c] \in Nat
      /\ TaskOf(tracker, l) \in TaskCost
  BY TrackTypes, TaskType DEF TrackInv
<1>7. TrackerHook \in Hooks
  BY LogAssumption
<1>8. Receive(l) => tracker' = IF h = TrackerHook /\ e.kind = "escalation"
                               THEN RecordEscalation(tracker, l, e.category)
                               ELSE tracker
  BY <1>2, <1>3, <1>4 DEF Receive
<1>9. CASE Receive(l) /\ h = TrackerHook /\ e.kind = "escalation"
  <2>1. /\ e.category \in Categories
        /\ e \notin EventsSeen(l, TrackerHook)
    <3>1. n <= n
      BY <1>2, <1>4, LenProperties
    <3> QED BY <1>1, <1>2, <1>3, <1>4, <1>9, <3>1 DEF TaskInv, HandKnown
  <2>2. EventsSeen(l, TrackerHook)' = EventsSeen(l, TrackerHook) \cup {e}
    BY <1>4, <1>9
  <2>3. PICK c \in Categories : c = e.category
    BY <2>1
  <2> DEFINE old == TaskOf(tracker, l)
             new == TaskOf(tracker', l)
  <2>4. /\ IsKept(tracker')
        /\ new.escalations = old.escalations + 1
        /\ new.categories = [old.categories EXCEPT ![c] = old.categories[c] + 1]
        /\ \A k : k # l => TaskOf(tracker', k) = TaskOf(tracker, k)
    <3>1. tracker' = RecordEscalation(tracker, l, c)
      BY <1>8, <1>9, <2>3
    <3>2. IsKept(tracker)
      BY DEF TrackInv
    <3> QED BY <3>1, <3>2, EscalationRecorded
  <2>5. /\ new.categories[c] = old.categories[c] + 1
        /\ \A d \in Categories \ {c} : new.categories[d] = old.categories[d]
        /\ \A d \in Categories : old.categories[d] \in Nat
    BY <1>6, <2>4 DEF TaskCost
  <2>6. /\ SeenAs(l, c)' = SeenAs(l, c) \cup {e} /\ e \notin SeenAs(l, c)
        /\ \A d \in Categories \ {c} : SeenAs(l, d)' = SeenAs(l, d)
    BY <1>9, <2>1, <2>2, <2>3 DEF SeenAs
  <2>7. /\ Cardinality(SeenAs(l, c)') = Cardinality(SeenAs(l, c)) + 1
        /\ Cardinality(SeenAs(l, c)) \in Nat
    BY <2>6, SharesFinite, FS_AddElement
  <2>8. /\ old.categories[c] <= Cardinality(SeenAs(l, c))
        /\ \A d \in Categories :
              old.categories[d] <= Cardinality(SeenAs(l, d))
    BY <1>1 DEF TaskInv, SharesSeen
  <2>9. SharesAdd(l)'
    <3>1. /\ old.escalations
                = old.categories["routing"] + old.categories["failover"]
          /\ old.escalations \in Nat
      BY <1>1, <1>6 DEF TaskInv, SharesAdd
    <3>2. "routing" \in Categories /\ "failover" \in Categories
          /\ c \in {"routing", "failover"}
      BY DEF Categories
    <3>3. new.escalations
             = new.categories["routing"] + new.categories["failover"]
      <4> HIDE DEF old, new
      <4> DEFINE r == "routing"
                 f == "failover"
      <4>1. /\ r \in Categories /\ f \in Categories /\ r # f /\ c \in {r, f}
            /\ old.escalations = old.categories[r] + old.categories[f]
        BY <3>1, <3>2
      <4> HIDE DEF r, f
      <4>2. \/ /\ new.categories[r] = old.categories[r] + 1
               /\ new.categories[f] = old.categories[f]
            \/ /\ new.categories[r] = old.categories[r]
               /\ new.categories[f] = old.categories[f] + 1
        BY <2>5, <4>1
      <4>3. old.categories[r] \in Nat /\ old.categories[f] \in Nat
        BY <2>5, <4>1
      <4>4. new.escalations = old.escalations + 1
        BY <2>4
      <4>5. new.escalations = new.categories[r] + new.categories[f]
        BY <4>1, <4>2, <4>3, <4>4
      <4> QED BY <4>5 DEF r, f
    <3> QED BY <3>3 DEF SharesAdd
  <2>10. SharesSeen(l)'
    <3> SUFFICES ASSUME NEW d \in Categories
                 PROVE  new.categories[d] <= Cardinality(SeenAs(l, d)')
      BY DEF SharesSeen
    <3> HIDE DEF old, new
    <3>1. CASE d = c
      <4>1. /\ old.categories[c] \in Nat
            /\ old.categories[c] + 1 <= Cardinality(SeenAs(l, c)) + 1
        BY <2>5, <2>7, <2>8
      <4> QED BY <2>5, <2>7, <3>1, <4>1
    <3>2. CASE d # c
      BY <2>5, <2>6, <2>8, <3>2
    <3> QED BY <3>1, <3>2
  <2> QED BY <1>5, <2>4, <2>9, <2>10 DEF TaskInv
<1>10. CASE ~ (Receive(l) /\ h = TrackerHook /\ e.kind = "escalation")
  <2>1. tracker' = tracker
    BY <1>8, <1>10 DEF Turned
  <2>2. \/ EventsSeen(l, TrackerHook)' = EventsSeen(l, TrackerHook)
        \/ /\ EventsSeen(l, TrackerHook)' = EventsSeen(l, TrackerHook) \cup {e}
           /\ e.kind # "escalation"
    BY <1>4, <1>7, <1>10
  <2>3. \A c : SeenAs(l, c)' = SeenAs(l, c)
    BY <2>2 DEF SeenAs
  <2>4. SharesSeen(l)' /\ SharesAdd(l)'
    BY <1>1, <2>1, <2>3 DEF TaskInv, SharesSeen, SharesAdd
  <2> QED BY <1>5, <2>1, <2>4 DEF TaskInv, TrackInv
<1> QED BY <1>9, <1>10

\* A step of one logger.
LEMMA OneTracks ==
    ASSUME TrackInv, OrderInv', NEW l \in Loggers, OneLogger(l)
    PROVE  TrackInv'
<1>1. LogInv' /\ clock' \in Nat /\ clock \in Nat
  BY DEF OrderInv, TrackInv, LogInv, LogTypes
<1>2. /\ TaskInv(l)' /\ IsKept(tracker')
      /\ \A k : k # l => TaskOf(tracker', k) = TaskOf(tracker, k)
      /\ clock <= clock' /\ counted \subseteq counted'
      /\ counted' \subseteq Event /\ IsFiniteSet(counted')
  <2>1. CASE StaysIdle(l)
    BY <1>1, <2>1, IdleTracks DEF StaysIdle, TrackInv
  <2>2. CASE Begins(l)
    BY <1>1, <2>2, BeginTracks DEF Begins, TrackInv
  <2>3. CASE \E e : Creates(l, e)
    BY <1>1, <2>3, CreateTracks DEF TrackInv
  <2>4. CASE Turned(l)
    BY <1>1, <2>4, TurnTracks DEF Turned, TrackInv
  <2> QED BY <2>1, <2>2, <2>3, <2>4 DEF OneLogger
<1>3. ASSUME NEW k \in Loggers \ {l} PROVE TaskInv(k)'
  BY <1>1, <1>2, OthersKeep DEF OneLogger, Alone
<1> QED BY <1>2, <1>3 DEF TrackInv

LEMMA NewTrackerAdds ==
    ASSUME NEW l \in Loggers, tracker = NewTracker
    PROVE  SharesAdd(l)
BY NewTrackerIsKept DEF SharesAdd, NewTaskCost, Categories

LEMMA TrackStep ==
    ASSUME TrackInv, [LogNext]_lvars
    PROVE  TrackInv'
<1>1. OrderInv' /\ LogInv
  BY OrderStep DEF TrackInv, OrderInv
<1>2. CASE UNCHANGED lvars
  <2>1. UNCHANGED <<logger, seen, tracker, clock, counted>>
    BY <1>2 DEF lvars
  <2>2. \A k \in Loggers : TaskInv(k)'
    BY <1>1, <2>1, TrackTypes, OthersKeep
  <2> QED BY <1>1, <2>1, <2>2 DEF TrackInv
<1>3. CASE ClearTracker
  <2>1. /\ UNCHANGED <<seen, clock, counted>> /\ tracker' = NewTracker
        /\ logger' = [k \in Loggers |-> [logger[k] EXCEPT !.left = 0]]
        /\ \A k \in Loggers : logger[k].phase = "idle"
    BY <1>3 DEF ClearTracker, Clear, Idle
  <2>2. ASSUME NEW k \in Loggers PROVE TaskInv(k)'
    <3>1. logger'[k].phase = "idle" /\ TaskInv(k)
      BY <2>1, TrackTypes DEF LoggerRecord
    <3>2. \A h : EventsSeen(k, h)' = EventsSeen(k, h)
      BY <2>1 DEF EventsSeen
    <3>3. EventsKnown(k)' /\ HandKnown(k)'
      BY <2>1, <3>1, <3>2 DEF TaskInv, EventsKnown, HandKnown
    <3>4. SharesSeen(k)'
      <4>1. ASSUME NEW c \in Categories
            PROVE  TaskOf(tracker', k).categories[c] = 0
        BY <2>1, NewTrackerIsKept DEF NewTaskCost
      <4>2. \A c : SeenAs(k, c)' = SeenAs(k, c)
        BY <3>2 DEF SeenAs
      <4> QED BY <4>1, <4>2, SharesFinite DEF SharesSeen
    <3>5. SharesAdd(k)'
      BY <2>1, NewTrackerIsKept DEF SharesAdd, NewTaskCost, Categories
    <3> QED BY <3>3, <3>4, <3>5 DEF TaskInv
  <2> QED BY <1>1, <2>1, <2>2, NewTrackerIsKept DEF TrackInv
<1>4. ASSUME Dead, counted' \subseteq Event, IsFiniteSet(counted')
      PROVE  TrackInv'
  <2>1. /\ tracker' = NewTracker /\ seen' = NothingSeen
        /\ logger' = [k \in Loggers |-> NewLogger]
    BY <1>4 DEF Dead, Restarts
  <2>2. ASSUME NEW k \in Loggers PROVE TaskInv(k)'
    <3>1. logger'[k].phase = "idle"
      BY <2>1 DEF NewLogger
    <3>2. \A h \in Hooks : EventsSeen(k, h)' = {}
      BY <2>1 DEF EventsSeen, NothingSeen
    <3>3. EventsKnown(k)' /\ HandKnown(k)'
      BY <3>1, <3>2 DEF EventsKnown, HandKnown
    <3>4. SharesSeen(k)'
      <4>1. ASSUME NEW c \in Categories
            PROVE  TaskOf(tracker', k).categories[c] = 0
        BY <2>1, NewTrackerIsKept DEF NewTaskCost
      <4>2. \A c : SeenAs(k, c)' = {}
        BY <3>2, LogAssumption DEF SeenAs
      <4> QED BY <4>1, <4>2, FS_EmptySet DEF SharesSeen
    <3>5. SharesAdd(k)'
      BY <2>1, NewTrackerIsKept DEF SharesAdd, NewTaskCost, Categories
    <3> QED BY <3>3, <3>4, <3>5 DEF TaskInv
  <2> QED BY <1>1, <1>4, <2>1, <2>2, NewTrackerIsKept DEF TrackInv
<1>5. ASSUME NEW l \in Loggers, OneLogger(l) PROVE TrackInv'
  BY <1>1, <1>5, OneTracks
<1>6. counted \subseteq Event /\ IsFiniteSet(counted)
  BY DEF TrackInv
<1>7. ASSUME NEW e, DeadWith(e) PROVE TrackInv'
  <2>1. counted' \subseteq Event /\ IsFiniteSet(counted')
    BY <1>6, <1>7, FS_AddElement DEF DeadWith
  <2> QED BY <1>4, <1>7, <2>1 DEF DeadWith
<1>8. CASE Dead /\ UNCHANGED <<clock, counted>>
  BY <1>4, <1>6, <1>8
<1> QED BY <1>1, <1>2, <1>3, <1>5, <1>7, <1>8, StepIsOfOneLogger

LEMMA TrackInitial == LogInit => TrackInv
<1> SUFFICES ASSUME LogInit PROVE TrackInv
  OBVIOUS
<1>1. OrderInv
  BY LogInitial, NewInOrder DEF LogInit, OrderInv
<1>2. ASSUME NEW k \in Loggers PROVE TaskInv(k)
  <2>1. /\ logger[k].phase = "idle"
        /\ tracker = NewTracker /\ seen = NothingSeen
    BY DEF LogInit, NewLogger
  <2>2. \A h \in Hooks : EventsSeen(k, h) = {}
    BY <2>1 DEF EventsSeen, NothingSeen
  <2>3. EventsKnown(k) /\ HandKnown(k)
    BY <2>1, <2>2 DEF EventsKnown, HandKnown
  <2>4. SharesSeen(k)
    <3>1. ASSUME NEW c \in Categories
          PROVE  TaskOf(tracker, k).categories[c] = 0
      BY <2>1, NewTrackerIsKept DEF NewTaskCost
    <3>2. \A c : SeenAs(k, c) = {}
      BY <2>2, LogAssumption DEF SeenAs
    <3> QED BY <3>1, <3>2, FS_EmptySet DEF SharesSeen
  <2> QED BY <2>1, <2>3, <2>4, NewTrackerAdds DEF TaskInv
<1>3. /\ tracker = NewTracker /\ counted = {}
  BY DEF LogInit
<1> QED BY <1>1, <1>2, <1>3, NewTrackerIsKept, FS_EmptySet DEF TrackInv

THEOREM TrackerCorrect == LogSpec => []TrackInv
BY TrackInitial, TrackStep, PTL DEF LogSpec

-----------------------------------------------------------------------------
\* What the tracker shows follows from what it has of the tasks.
LEMMA TrackingAgrees == TrackInv => TrackerAgrees
<1> SUFFICES ASSUME TrackInv PROVE TrackerAgrees
  OBVIOUS
<1> DEFINE D == DOMAIN tracker.tasks
           all == EscalationsOf(tracker)
           part(c) == CategoryOf(tracker, c)
<1>1. IsFiniteSet(D) /\ D \subseteq Loggers /\ IsKept(tracker)
  BY KeptIsFinite DEF TrackInv, IsKept, IsTracker
<1>2. ASSUME NEW t \in D
      PROVE  /\ all[t] \in Nat
             /\ part("routing")[t] \in Nat /\ part("failover")[t] \in Nat
             /\ all[t] = part("routing")[t] + part("failover")[t]
             /\ \A c \in Categories :
                   /\ part(c)[t] \in Nat
                   /\ part(c)[t] <= Cardinality(SeenAs(t, c))
  <2> DEFINE cost == TaskOf(tracker, t)
  <2>1. /\ TaskInv(t) /\ cost.escalations \in Nat
        /\ \A c \in Categories : cost.categories[c] \in Nat
    BY <1>1, <1>2, TrackTypes
  <2>2. /\ cost.escalations = cost.categories["routing"] + cost.categories["failover"]
        /\ \A c \in Categories : cost.categories[c] <= Cardinality(SeenAs(t, c))
    BY <2>1 DEF TaskInv, SharesAdd, SharesSeen
  <2>3. /\ all[t] = cost.escalations
        /\ \A c : part(c)[t] = cost.categories[c]
    BY <1>2 DEF EscalationsOf, CategoryOf, TaskOf
  <2>4. "routing" \in Categories /\ "failover" \in Categories
    BY DEF Categories
  <2> HIDE DEF cost, all, part
  <2> QED BY <2>1, <2>2, <2>3, <2>4
<1>3. TotalEscalations(tracker) = Total(all, D)
  BY EscalationsAreTotal
<1>4. \A c \in Categories : RoutingVsFailover(tracker)[c] = Total(part(c), D)
  BY CategoriesAreTotal
<1> HIDE DEF D, all, part
<1>5. \A c \in Categories : Total(part(c), D) \in Nat
  BY <1>1, <1>2, TotalAt
<1>7. MapThenSumSet(LAMBDA c : RoutingVsFailover(tracker)[c], Categories)
         = TotalEscalations(tracker)
  <2> DEFINE R == RoutingVsFailover(tracker)
             r == "routing"
             f == "failover"
  <2>1. /\ IsFiniteSet(Categories) /\ Categories \ {r} = {f}
        /\ r \in Categories /\ f \in Categories
    <3>1. Categories = {r} \cup {f}
      BY DEF Categories
    <3>2. IsFiniteSet({r})
      BY FS_Singleton
    <3>3. IsFiniteSet({r} \cup {f})
      BY <3>2, FS_AddElement
    <3>4. ({r} \cup {f}) \ {r} = {f}
      OBVIOUS
    <3> QED BY <3>1, <3>3, <3>4
  <2>2. Total(R, Categories) = R[r] + Total(R, {f})
    BY <1>4, <1>5, <2>1, TotalAt
  <2>3. IsFiniteSet({f}) /\ IsFiniteSet({}) /\ {f} \ {f} = {}
    BY FS_Singleton, FS_EmptySet
  <2>4. Total(R, {f}) = R[f] + Total(R, {}) /\ Total(R, {}) = 0
    BY <1>4, <1>5, <2>1, <2>3, TotalAt
  <2>5. R[r] = Total(part(r), D) /\ R[f] = Total(part(f), D)
        /\ R[f] \in Nat /\ R[r] \in Nat
    BY <1>4, <1>5, <2>1
  <2>6. Total(all, D) = Total(part(r), D) + Total(part(f), D)
    BY <1>1, <1>2, TotalAdds
  <2> HIDE DEF R, r, f
  <2>7. Total(R, Categories) = Total(all, D)
    BY <2>2, <2>4, <2>5, <2>6
  <2> QED BY <1>3, <2>7 DEF Total, R
<1>8. ASSUME NEW c \in Categories
      PROVE  RoutingVsFailover(tracker)[c] <=
                Cardinality({e \in counted : Logged(e) /\ e.category = c})
  <2> DEFINE W == {e \in counted : Logged(e) /\ e.category = c}
             mine(t) == {e \in W : e.by = t}
  <2>1. IsFiniteSet(W)
    BY FS_Subset DEF TrackInv
  <2>2. ASSUME NEW t \in D
        PROVE  part(c)[t] \in Nat /\ part(c)[t] <= Cardinality(mine(t))
    <3>1. t \in Loggers /\ TaskInv(t) /\ TrackerHook \in Hooks
      BY <1>1, LogAssumption DEF TrackInv
    <3>2. HooksSeeLoggedEvents
      BY DEF TrackInv, OrderInv, LogInv, HooksKnow
    <3>3. SeenAs(t, c) \subseteq mine(t)
      BY <3>1, <3>2 DEF TaskInv, EventsKnown, SeenAs, HooksSeeLoggedEvents
    <3>4. IsFiniteSet(mine(t))
      BY <2>1, FS_Subset
    <3>5. /\ Cardinality(SeenAs(t, c)) <= Cardinality(mine(t))
          /\ Cardinality(SeenAs(t, c)) \in Nat /\ Cardinality(mine(t)) \in Nat
      BY <3>3, <3>4, FS_Subset, FS_CardinalityType
    <3>6. part(c)[t] \in Nat /\ part(c)[t] <= Cardinality(SeenAs(t, c))
      BY <1>2
    <3> HIDE DEF mine
    <3> QED BY <3>5, <3>6
  <2>3. Total(part(c), D) <= Cardinality(W)
    <3>1. \A t \in D : /\ part(c)[t] \in Nat
                       /\ part(c)[t] <= Cardinality({e \in W : e.by = t})
      BY <2>2
    <3> HIDE DEF W
    <3> QED BY <1>1, <2>1, <3>1, TotalOfShares
  <2> QED BY <1>4, <2>3
<1> QED BY <1>7, <1>8 DEF TrackerAgrees

(***************************************************************************)
(* Whichever hooks raise, with or without their work done, whatever is     *)
(* lost, cleared or registered in between: the categories of the tracker   *)
(* add up to its escalations, and it has no more of a category than the    *)
(* file.                                                                   *)
(***************************************************************************)
THEOREM TrackerShowsTheLog == LogSpec => []TrackerAgrees
BY TrackerCorrect, TrackingAgrees, PTL

-----------------------------------------------------------------------------
(***************************************************************************)
(* The bounds: a call has at most two steps left, a guard has counted no   *)
(* more escalations than there are events, and all loggers together have   *)
(* no more hooks than may be registered.                                   *)
(***************************************************************************)
WithinBounds(l) ==
    /\ logger[l].left \in 0 .. 2
    /\ logger[l].escalations <= clock
    /\ logger[l].phase # "dispatch" => logger[l].next = 0

HookCounts == [k \in Loggers |-> Len(logger[k].hooks)]

Bounded ==
    /\ \A l \in Loggers : WithinBounds(l)
    /\ Total(HookCounts, Loggers) <= MaxHooks
    /\ clock <= MaxEvents
    /\ torn \in 0 .. MaxTorn

LEMMA HookCountsAreTotal ==
    ASSUME NEW state
    PROVE  MapThenSumSet(LAMBDA k : Len(state[k].hooks), Loggers)
              = Total([k \in Loggers |-> Len(state[k].hooks)], Loggers)
BY DEF Total, MapThenSumSet, MapThenFoldSet

LEMMA HookCountsTypes ==
    ASSUME LogInv
    PROVE  /\ \A k \in Loggers : HookCounts[k] \in Nat
           /\ Total(HookCounts, Loggers) \in Nat
<1>1. \A k \in Loggers : HookCounts[k] \in Nat
  BY LenProperties DEF LogInv, LogTypes, LoggerRecord, HookCounts
<1>2. IsFiniteSet(Loggers)
  BY LogAssumption
<1> QED BY <1>1, <1>2, TotalAt

\* No logger has more hooks than all of them together.
LEMMA HooksOfOne ==
    ASSUME LogInv, Total(HookCounts, Loggers) <= MaxHooks, NEW l \in Loggers
    PROVE  Len(logger[l].hooks) <= MaxHooks
<1>1. /\ IsFiniteSet(Loggers) /\ IsFiniteSet(Loggers \ {l}) /\ MaxHooks \in Nat
  BY LogAssumption, FS_Subset
<1>2. Total(HookCounts, Loggers) = HookCounts[l] + Total(HookCounts, Loggers \ {l})
  BY <1>1, HookCountsTypes, TotalAt
<1>3. Total(HookCounts, Loggers \ {l}) \in Nat /\ HookCounts[l] \in Nat
  BY <1>1, HookCountsTypes, TotalAt
<1>4. HookCounts[l] = Len(logger[l].hooks)
  BY DEF HookCounts
<1> QED BY <1>1, <1>2, <1>3, <1>4

LEMMA HooksStayBounded ==
    ASSUME LogInv, NEW l \in Loggers, Alone(l), HooksGrow(l),
           Total(HookCounts, Loggers) <= MaxHooks
    PROVE  Total(HookCounts', Loggers) <= MaxHooks
<1>1. IsFiniteSet(Loggers) /\ Loggers \cup {l} = Loggers /\ MaxHooks \in Nat
  BY LogAssumption
<1>2. /\ \A k \in Loggers : HookCounts[k] \in Nat
      /\ Total(HookCounts, Loggers) \in Nat
  BY HookCountsTypes
<1>3. \A k \in Loggers \ {l} : HookCounts'[k] = HookCounts[k]
  BY DEF Alone, HookCounts
<1>4. CASE logger'[l].hooks = logger[l].hooks
  <2>1. HookCounts'[l] = HookCounts[l]
    BY <1>4 DEF HookCounts
  <2>2. Total(HookCounts', Loggers) = Total(HookCounts, Loggers)
    BY <1>1, <1>2, <1>3, <2>1, TotalSame
  <2> QED BY <2>2
<1>5. ASSUME NEW h \in Hooks, MayRegister(l, h),
             logger'[l].hooks = Append(logger[l].hooks, h)
      PROVE  Total(HookCounts', Loggers) <= MaxHooks
  <2>1. logger[l].hooks \in Seq(Hooks)
    BY DEF LogInv, LogTypes, LoggerRecord
  <2>2. Len(logger'[l].hooks) = Len(logger[l].hooks) + 1
    BY <1>5, <2>1, AppendProperties
  <2>3. HookCounts'[l] = HookCounts[l] + 1
    BY <2>2 DEF HookCounts
  <2>4. GrowsAt(HookCounts, HookCounts', Loggers, l, 1)
    BY <1>2, <1>3, <2>3 DEF GrowsAt
  <2>5. Total(HookCounts', Loggers) = Total(HookCounts, Loggers) + 1
    BY <1>1, <2>4, TotalWith
  <2>6. Total(HookCounts, Loggers)
           = MapThenSumSet(LAMBDA k : Len(logger[k].hooks), Loggers)
    BY HookCountsAreTotal DEF HookCounts
  <2>7. Total(HookCounts, Loggers) < MaxHooks
    BY <1>5, <2>6 DEF MayRegister
  <2> QED BY <1>1, <1>2, <2>5, <2>7
<1> QED BY <1>4, <1>5 DEF HooksGrow

LEMMA OneStaysBounded ==
    ASSUME LogInv, LogInv', Bounded, NEW l \in Loggers, OneLogger(l)
    PROVE  Bounded'
<1>1. /\ logger[l] \in LoggerRecord /\ logger[l].left \in Nat
      /\ \A k \in Loggers : logger[k].escalations \in Nat
      /\ clock \in Nat /\ torn \in Nat /\ {MaxEvents, MaxTorn} \subseteq Nat
      /\ WithinBounds(l) /\ logger'[l].left \in Nat
  <2>1. /\ \A k \in Loggers : logger[k] \in LoggerRecord
        /\ logger'[l] \in LoggerRecord /\ clock \in Nat
    BY DEF LogInv, LogTypes
  <2>2. logger'[l].left \in Nat /\ logger[l].left \in Nat
    BY <2>1 DEF LoggerRecord
  <2>3. \A k \in Loggers : logger[k].escalations \in Nat
    BY <2>1 DEF LoggerRecord
  <2>4. WithinBounds(l) /\ torn \in Nat /\ {MaxEvents, MaxTorn} \subseteq Nat
    BY LogAssumption DEF Bounded
  <2> QED BY <2>1, <2>2, <2>3, <2>4
<1>2. Alone(l) /\ HooksGrow(l)
  BY DEF OneLogger, StaysIdle, Begins, Creates, Turned, HooksGrow
<1>3. Total(HookCounts', Loggers) <= MaxHooks
  BY <1>2, HooksStayBounded DEF Bounded
<1>4. /\ WithinBounds(l)' /\ clock' \in Nat /\ clock <= clock'
      /\ clock' <= MaxEvents /\ torn' \in 0 .. MaxTorn
  <2>1. CASE StaysIdle(l)
    BY <1>1, <2>1 DEF StaysIdle, WithinBounds, Bounded
  <2>2. CASE Begins(l)
    BY <1>1, <2>2 DEF Begins, WithinBounds, Bounded
  <2>3. ASSUME NEW e, Creates(l, e)
        PROVE  /\ WithinBounds(l)' /\ clock' \in Nat /\ clock <= clock'
               /\ clock' <= MaxEvents /\ torn' \in 0 .. MaxTorn
    <3>1. logger'[l].left \in 0 .. 2
      <4>1. logger'[l].left <= logger[l].left
        BY <2>3 DEF Creates
      <4>2. logger[l].left \in 0 .. 2
        BY <1>1 DEF WithinBounds
      <4> QED BY <1>1, <4>1, <4>2
    <3>2. /\ logger'[l].escalations <= clock'
          /\ logger'[l].phase # "dispatch" => logger'[l].next = 0
      BY <1>1, <2>3 DEF Creates, WithinBounds, LoggerRecord
    <3>3. clock' \in Nat /\ clock <= clock' /\ clock' <= MaxEvents
      BY <1>1, <2>3 DEF Creates, MoreEvents
    <3>4. torn' \in 0 .. MaxTorn
      BY <1>1, <2>3 DEF Creates, Bounded
    <3> QED BY <3>1, <3>2, <3>3, <3>4 DEF WithinBounds
  <2>4. CASE Turned(l)
    BY <1>1, <2>4 DEF Turned, WithinBounds, Bounded
  <2> QED BY <2>1, <2>2, <2>3, <2>4 DEF OneLogger
<1>5. \A k \in Loggers \ {l} : WithinBounds(k)'
  BY <1>1, <1>2, <1>4 DEF Alone, WithinBounds, Bounded
<1> QED BY <1>3, <1>4, <1>5 DEF Bounded

LEMMA BoundStep ==
    ASSUME LogInv, Bounded, [LogNext]_lvars
    PROVE  Bounded'
<1>1. \A k \in Loggers :
         /\ logger[k] \in LoggerRecord /\ logger[k].hooks \in Seq(Hooks)
         /\ logger \in [Loggers -> LoggerRecord]
  BY DEF LogInv, LogTypes, LoggerRecord
<1>2. /\ {MaxEvents, MaxTorn, MaxHooks} \subseteq Nat /\ IsFiniteSet(Loggers)
      /\ clock \in Nat
  BY LogAssumption DEF LogInv, LogTypes
<1>3. CASE UNCHANGED lvars
  <2>1. UNCHANGED <<logger, clock, torn>>
    BY <1>3 DEF lvars
  <2>2. HookCounts' = HookCounts
    BY <2>1 DEF HookCounts
  <2> QED BY <2>1, <2>2 DEF Bounded, WithinBounds
<1>4. CASE ClearTracker
  <2>1. /\ UNCHANGED <<clock, torn>>
        /\ logger' = [k \in Loggers |-> [logger[k] EXCEPT !.left = 0]]
    BY <1>4 DEF ClearTracker
  <2>2. \A k \in Loggers :
           /\ logger'[k].hooks = logger[k].hooks /\ logger'[k].left = 0
           /\ logger'[k].escalations = logger[k].escalations
           /\ logger'[k].phase = logger[k].phase
           /\ logger'[k].next = logger[k].next
    BY <1>1, <2>1 DEF LoggerRecord
  <2>3. HookCounts' = HookCounts
    BY <2>2 DEF HookCounts
  <2> QED BY <2>1, <2>2, <2>3 DEF Bounded, WithinBounds
<1>5. ASSUME Dead, clock' = clock \/ (MoreEvents /\ clock' = clock + 1)
      PROVE  Bounded'
  <2>1. /\ torn < MaxTorn /\ torn' = torn + 1
        /\ logger' = [k \in Loggers |-> NewLogger]
        /\ clock' \in Nat /\ clock' <= MaxEvents
    BY <1>2, <1>5 DEF Dead, Restarts, MoreEvents, Bounded
  <2>2. \A k \in Loggers : HookCounts'[k] = 0
    BY <2>1, EmptySeq DEF HookCounts, NewLogger
  <2>3. Total(HookCounts', Loggers) = 0
    BY <1>2, <2>2, TotalOfNothing
  <2>4. \A k \in Loggers : WithinBounds(k)'
    BY <1>2, <2>1 DEF WithinBounds, NewLogger
  <2>5. torn' \in 0 .. MaxTorn
    BY <1>2, <2>1 DEF Bounded
  <2> QED BY <1>2, <2>1, <2>3, <2>4, <2>5 DEF Bounded
<1>6. ASSUME NEW e, DeadWith(e) PROVE Bounded'
  BY <1>5, <1>6 DEF DeadWith
<1> QED BY <1>3, <1>4, <1>5, <1>6, LogStep, OneStaysBounded, StepIsOfOneLogger

LEMMA BoundInitial == LogInit => Bounded
<1> SUFFICES ASSUME LogInit PROVE Bounded
  OBVIOUS
<1>1. \A k \in Loggers : HookCounts[k] = 0
  BY EmptySeq DEF LogInit, NewLogger, HookCounts
<1>2. Total(HookCounts, Loggers) = 0
  BY <1>1, LogAssumption, TotalOfNothing
<1> QED BY <1>2, LogAssumption DEF LogInit, NewLogger, Bounded, WithinBounds

\* What the bounds and the tracker's invariant say of the types.
LEMMA BoundedTypes == TrackInv /\ Bounded => LogTypeOK
<1> SUFFICES ASSUME TrackInv, Bounded PROVE LogTypeOK
  OBVIOUS
<1>1. LogInv /\ {MaxEvents, MaxHooks, MaxTorn} \subseteq Nat /\ clock \in Nat
  BY LogAssumption DEF TrackInv, OrderInv, LogInv, LogTypes
<1>2. Piece = {NewLine} \cup ({"head", "tail"} \X Event)
  BY DEF Piece, Head1, Tail2
<1>3. ASSUME NEW l \in Loggers
      PROVE  logger[l] \in LoggerState /\ Len(logger[l].hooks) <= MaxHooks
  <2>1. PICK self \in LoggerRecord : self = logger[l]
    BY <1>1 DEF LogInv, LogTypes
  <2>2. Len(self.hooks) <= MaxHooks /\ Len(self.hooks) \in Nat
    BY <1>1, <2>1, HooksOfOne, LenProperties DEF Bounded, LoggerRecord
  <2>3. self.next \in 0 .. MaxHooks + 1
    BY <1>1, <2>1, <2>2
    DEF Bounded, WithinBounds, LogInv, AtHand, LoggerRecord
  <2>4. self.left \in 0 .. 2 /\ self.escalations \in 0 .. MaxEvents
    BY <1>1, <2>1 DEF Bounded, WithinBounds, LoggerRecord
  <2>5. self.buffer \in Seq({NewLine} \cup ({"head", "tail"} \X Event))
    BY <1>2 DEF LoggerRecord
  <2>6. self \in LoggerState
    BY <2>3, <2>4, <2>5 DEF LoggerRecord, LoggerState
  <2> QED BY <2>1, <2>2, <2>6
<1>4. logger \in [Loggers -> LoggerState]
  BY <1>1, <1>3 DEF LogInv, LogTypes
<1>5. IsTracker(tracker, Loggers) /\ counted \subseteq Event
  BY DEF TrackInv, IsKept
<1>6. clock \in 0 .. MaxEvents /\ torn \in 0 .. MaxTorn
  BY <1>1 DEF Bounded
<1> QED BY <1>3, <1>4, <1>5, <1>6 DEF LogTypeOK

(***************************************************************************)
(* Every variable keeps its type and its bounds; among others no guard     *)
(* resolves more than two steps of a call, and the next hook of a dispatch *)
(* is never more than one behind the last.                                 *)
(***************************************************************************)
THEOREM LogTypesAndBounds == LogSpec => []LogTypeOK
<1>1. TrackInv /\ Bounded /\ [LogNext]_lvars => Bounded'
  BY BoundStep DEF TrackInv, OrderInv
<1> QED
  BY <1>1, BoundInitial, BoundedTypes, TrackerCorrect, PTL DEF LogSpec

=============================================================================
