---------------------------- MODULE GuardProofs ----------------------------
(***************************************************************************)
(* Theorems about Guard, for every value of its constants: its types and   *)
(* phases, the triggers of its steps, and its escalation budget.           *)
(***************************************************************************)
EXTENDS Guard, TLAPS, FiniteSetTheorems, SequenceTheorems

-----------------------------------------------------------------------------
(***************************************************************************)
(* Lemmas about lists of steps and about the triggers.                     *)
(***************************************************************************)

\* add_step returns a list of step records.
LEMMA AddStepType ==
    ASSUME NEW s \in Seq(StepRecord), NEW r \in StepRecord
    PROVE  AddStep(s, r) \in Seq(StepRecord)
<1> DEFINE longer == Append(s, r)
<1>1. longer \in Seq(StepRecord) /\ Len(longer) = Len(s) + 1
  BY AppendProperties
<1>2. CASE Len(longer) > MaxHistory
  <2>1. Len(longer) - MaxHistory + 1 \in 1 .. Len(longer) + 1
    BY <1>1, <1>2, HistoryAssumption, LenProperties
  <2>2. SubSeq(longer, Len(longer) - MaxHistory + 1, Len(longer))
           \in Seq(StepRecord)
    BY <1>1, <2>1, SubSeqProperties, LenProperties
  <2> QED BY <1>2, <2>2 DEF AddStep
<1>3. CASE ~ (Len(longer) > MaxHistory)
  BY <1>1, <1>3 DEF AddStep
<1> QED BY <1>2, <1>3

\* A list that fits the bound still fits it after add_step.
LEMMA AddStepBounded ==
    ASSUME NEW s \in Seq(StepRecord), NEW r \in StepRecord,
           Len(s) <= MaxHistory
    PROVE  Len(AddStep(s, r)) <= MaxHistory
<1> DEFINE longer == Append(s, r)
<1>1. longer \in Seq(StepRecord) /\ Len(longer) = Len(s) + 1
  BY AppendProperties
<1>2. CASE Len(longer) > MaxHistory
  <2>1. Len(s) = MaxHistory
    BY <1>1, <1>2, HistoryAssumption, LenProperties
  <2>2. Len(SubSeq(longer, Len(longer) - MaxHistory + 1, Len(longer)))
           = MaxHistory
    BY <1>1, <2>1, SubSeqProperties, HistoryAssumption, LenProperties
  <2> QED BY <1>2, <2>2, HistoryAssumption DEF AddStep
<1>3. CASE ~ (Len(longer) > MaxHistory)
  BY <1>1, <1>3, HistoryAssumption, LenProperties DEF AddStep
<1> QED BY <1>2, <1>3

\* The patches of the last step keep the list a list of step records.
LEMMA PatchType ==
    ASSUME NEW s \in Seq(StepRecord)
    PROVE  /\ \A r \in TestInputs : PatchTests(s, r) \in Seq(StepRecord)
           /\ \A v \in BOOLEAN : PatchSchema(s, v) \in Seq(StepRecord)
<1>1. CASE s = <<>>
  BY <1>1 DEF PatchTests, PatchSchema
<1>2. CASE s # <<>>
  <2>1. Len(s) \in 1 .. Len(s) /\ s[Len(s)] \in StepRecord
    BY <1>2, EmptySeq, LenProperties, ElementOfSeq
  <2>2. ASSUME NEW r \in TestInputs
        PROVE  PatchTests(s, r) \in Seq(StepRecord)
    <3>1. [s[Len(s)] EXCEPT !.tests = r] \in StepRecord
      BY <2>1 DEF StepRecord
    <3> QED BY <1>2, <2>1, <3>1, ExceptSeq DEF PatchTests
  <2>3. ASSUME NEW v \in BOOLEAN
        PROVE  PatchSchema(s, v) \in Seq(StepRecord)
    <3>1. [s[Len(s)] EXCEPT !.schema = v] \in StepRecord
      BY <2>1 DEF StepRecord
    <3> QED BY <1>2, <2>1, <3>1, ExceptSeq DEF PatchSchema
  <2> QED BY <2>2, <2>3
<1> QED BY <1>1, <1>2

\* What the guard reads off the last step.
LEMMA LastStepType ==
    ASSUME NEW s \in Seq(StepRecord)
    PROVE  /\ LastOutput(s) \in Outputs \cup {None}
           /\ LastError(s) \in Errors \cup {None}
<1>1. CASE s = <<>>
  BY <1>1 DEF LastOutput, LastError
<1>2. CASE s # <<>>
  <2>1. s[Len(s)] \in StepRecord
    BY <1>2, EmptySeq, LenProperties, ElementOfSeq
  <2> QED BY <1>2, <2>1 DEF LastOutput, LastError, StepRecord
<1> QED BY <1>1, <1>2

\* check() reports None or one of the kinds of triggers.
LEMMA CheckType ==
    ASSUME NEW s, NEW c
    PROVE  /\ Check(s, c) \in TriggerKinds \cup {None}
           /\ Check(s, c) # None => Fires(Check(s, c), s, c)
<1> DEFINE hits == {i \in DOMAIN TriggerOrder : Fires(TriggerOrder[i], s, c)}
<1>1. DOMAIN TriggerOrder = 1 .. 5
  BY DEF TriggerOrder
<1>2. \A i \in 1 .. 5 : TriggerOrder[i] \in TriggerKinds
  BY DEF TriggerOrder, TriggerKinds
<1>3. CASE hits = {}
  BY <1>3, DetectorAssumption DEF Check
<1>4. CASE hits # {}
  <2>1. \E i \in hits : \A j \in hits : i <= j
    <3>1. hits \subseteq {1, 2, 3, 4, 5}
      BY <1>1
    <3> HIDE DEF hits
    <3>2. CASE 1 \in hits
      BY <3>1, <3>2
    <3>3. CASE 1 \notin hits /\ 2 \in hits
      BY <3>1, <3>3
    <3>4. CASE {1, 2} \cap hits = {} /\ 3 \in hits
      BY <3>1, <3>4
    <3>5. CASE {1, 2, 3} \cap hits = {} /\ 4 \in hits
      BY <3>1, <3>5
    <3>6. CASE {1, 2, 3, 4} \cap hits = {}
      <4>1. hits = {5}
        BY <1>4, <3>1, <3>6
      <4> QED BY <4>1
    <3> QED BY <3>2, <3>3, <3>4, <3>5, <3>6
  <2>2. (CHOOSE i \in hits : \A j \in hits : i <= j) \in hits
    BY <2>1
  <2>3. Check(s, c) = TriggerOrder[CHOOSE i \in hits : \A j \in hits : i <= j]
    BY <1>4 DEF Check
  <2>4. PICK i \in hits : Check(s, c) = TriggerOrder[i]
    BY <2>2, <2>3
  <2> QED BY <1>1, <1>2, <2>4
<1> QED BY <1>3, <1>4

-----------------------------------------------------------------------------
(***************************************************************************)
(* Why an oscillation is never seen: the last two steps with results agree.*)
(***************************************************************************)

\* At most one step bears results, or the last two that do bear the same.
AtMostOne(s) == \E i \in Int : WithTests(s) \subseteq {i}

LastTwo(s, i, j) ==
    /\ i < j
    /\ s[i].tests = s[j].tests
    /\ \A k \in WithTests(s) : k <= i \/ k = j

Settled(s) ==
    \/ AtMostOne(s)
    \/ \E i, j \in WithTests(s) : LastTwo(s, i, j)

\* A settled list shows no oscillation.
LEMMA SettledMeansSteady ==
    ASSUME NEW s \in Seq(StepRecord), NEW n, Settled(s)
    PROVE  ~ Oscillation(s, n)
<1> DEFINE B == WithTests(s)
<1> DEFINE W == LastOf(B, OscillationWindow)
<1>1. SUFFICES ASSUME Oscillation(s, n) PROVE FALSE
  OBVIOUS
<1>2. B \subseteq 1 .. Len(s) /\ Len(s) \in Nat
  BY LenProperties DEF WithTests
<1>3. CASE AtMostOne(s)
  <2>1. PICK i \in Int : B \subseteq {i}
    BY <1>3 DEF AtMostOne
  <2>2. Cardinality(B) <= 1
    <3>1. IsFiniteSet({i}) /\ Cardinality({i}) = 1
      BY FS_Singleton
    <3> QED BY <2>1, <3>1, FS_Subset
  <2>3. IsFiniteSet(B)
    BY <2>1, FS_Singleton, FS_Subset
  <2>4. Cardinality(B) \in Nat
    BY <2>3, FS_CardinalityType
  <2>5. Cardinality(B) >= 4
    BY <1>1 DEF Oscillation, OscillationWindow
  <2> QED BY <2>2, <2>4, <2>5
<1>4. CASE \E i, j \in B : LastTwo(s, i, j)
  <2>1. PICK i \in B, j \in B : LastTwo(s, i, j)
    BY <1>4
  <2>2. i \in Nat /\ j \in Nat /\ i < j
    BY <1>2, <2>1 DEF LastTwo
  <2>3. {k \in B : j < k} = {} /\ {k \in B : i < k} = {j}
    BY <1>2, <2>1, <2>2 DEF LastTwo
  <2>4. i \in W /\ j \in W
    <3>1. Cardinality({k \in B : j < k}) = 0
      BY <2>3, FS_EmptySet
    <3>2. Cardinality({k \in B : i < k}) = 1
      BY <2>3, FS_Singleton
    <3>3. W = {x \in B : Cardinality({k \in B : x < k}) < 4}
      BY DEF LastOf, OscillationWindow
    <3> HIDE DEF B, W
    <3> QED BY <3>1, <3>2, <3>3, <2>1
  <2>5. Adjacent(W, i, j)
    <3>1. \A k \in W : k \in B
      BY DEF LastOf
    <3>2. \A k \in W : k <= i \/ j <= k
      BY <1>2, <2>1, <2>2, <3>1 DEF LastTwo
    <3> QED BY <2>2, <3>2 DEF Adjacent
  <2>6. \E x \in CommonTests(s, W) : s[i].tests[x] # s[j].tests[x]
    BY <1>1, <2>4, <2>5 DEF Oscillation
  <2> QED BY <2>1, <2>6 DEF LastTwo
<1> QED BY <1>3, <1>4 DEF Settled

\* Dropping the oldest steps of a settled list leaves it settled.
LEMMA SettledSuffix ==
    ASSUME NEW s \in Seq(StepRecord), Settled(s), NEW m \in 1 .. Len(s)
    PROVE  Settled(SubSeq(s, m, Len(s)))
<1> DEFINE r == SubSeq(s, m, Len(s))
<1>1. Len(s) \in Nat /\ m \in Nat /\ m >= 1 /\ m <= Len(s)
  BY LenProperties
<1>2. /\ r \in Seq(StepRecord)
      /\ Len(r) = Len(s) - m + 1
      /\ \A k \in 1 .. Len(r) : r[k] = s[m + k - 1]
  <2>1. \A k \in m .. Len(s) : s[k] \in StepRecord
    BY <1>1, ElementOfSeq
  <2> QED BY <1>1, <2>1, SubSeqProperties
<1>3. DOMAIN r = 1 .. Len(r) /\ DOMAIN s = 1 .. Len(s)
  BY <1>2, LenProperties
<1>4. \A k \in 1 .. Len(r) :
         k \in WithTests(r) <=> m + k - 1 \in WithTests(s)
  BY <1>1, <1>2, <1>3 DEF WithTests
<1>5. WithTests(r) \subseteq 1 .. Len(r)
  BY <1>3 DEF WithTests
<1> HIDE DEF r
<1>6. CASE AtMostOne(s)
  <2>1. PICK i \in Int : WithTests(s) \subseteq {i}
    BY <1>6 DEF AtMostOne
  <2>2. i - m + 1 \in Int
    BY <1>1, <2>1
  <2>3. \A k \in WithTests(r) : k = i - m + 1
    BY <1>1, <1>4, <1>5, <2>1
  <2> QED BY <2>2, <2>3 DEF AtMostOne, Settled, r
<1>7. CASE \E i, j \in WithTests(s) : LastTwo(s, i, j)
  <2>1. PICK i \in WithTests(s), j \in WithTests(s) : LastTwo(s, i, j)
    BY <1>7
  <2>2. i \in 1 .. Len(s) /\ j \in 1 .. Len(s) /\ i < j
    BY <1>3, <2>1 DEF WithTests, LastTwo
  <2>3. CASE m <= i
    <3> DEFINE i2 == i - m + 1
    <3> DEFINE j2 == j - m + 1
    <3>1. /\ i2 \in 1 .. Len(r) /\ j2 \in 1 .. Len(r) /\ i2 < j2
          /\ m + i2 - 1 = i /\ m + j2 - 1 = j
      BY <1>1, <1>2, <2>2, <2>3
    <3>2. i2 \in WithTests(r) /\ j2 \in WithTests(r)
      BY <1>4, <2>1, <3>1
    <3>3. r[i2].tests = r[j2].tests
      BY <1>2, <2>1, <3>1 DEF LastTwo
    <3>4. \A k \in WithTests(r) : k <= i2 \/ k = j2
      <4>1. TAKE k \in WithTests(r)
      <4>2. k \in 1 .. Len(r) /\ m + k - 1 \in WithTests(s)
        BY <1>4, <1>5
      <4>3. m + k - 1 <= i \/ m + k - 1 = j
        BY <2>1, <4>2 DEF LastTwo
      <4> QED BY <1>1, <1>2, <2>2, <4>2, <4>3
    <3> QED BY <3>1, <3>2, <3>3, <3>4 DEF LastTwo, Settled, r
  <2>4. CASE ~ (m <= i)
    <3>1. j - m + 1 \in Int
      BY <1>1, <2>2
    <3>2. \A k \in WithTests(r) : k = j - m + 1
      <4>1. TAKE k \in WithTests(r)
      <4>2. k \in 1 .. Len(r) /\ m + k - 1 \in WithTests(s)
        BY <1>4, <1>5
      <4>3. m + k - 1 <= i \/ m + k - 1 = j
        BY <2>1, <4>2 DEF LastTwo
      <4> QED BY <1>1, <1>2, <2>2, <2>4, <4>2, <4>3
    <3> QED BY <3>1, <3>2 DEF AtMostOne, Settled, r
  <2> QED BY <2>3, <2>4
<1> QED BY <1>6, <1>7 DEF Settled

\* A new step keeps a list settled if it bears no results, or the results
\* that the step before it bears.
LEMMA SettledAddStep ==
    ASSUME NEW s \in Seq(StepRecord), NEW r \in StepRecord,
           \/ r.tests = None /\ Settled(s)
           \/ r.tests # None /\ (s = <<>> \/ s[Len(s)].tests = r.tests)
    PROVE  Settled(AddStep(s, r))
<1> DEFINE a == Append(s, r)
<1> DEFINE n == Len(s)
<1>1. /\ a \in Seq(StepRecord) /\ n \in Nat /\ Len(a) = n + 1
      /\ \A k \in 1 .. n : a[k] = s[k]
      /\ a[n + 1] = r
      /\ DOMAIN a = 1 .. n + 1 /\ DOMAIN s = 1 .. n
  <2>1. a \in Seq(StepRecord) /\ Len(a) = n + 1
    BY AppendProperties
  <2> QED BY <2>1, AppendProperties, LenProperties
<1> HIDE DEF a, n
<1>2. Settled(a)
  <2>1. CASE r.tests = None /\ Settled(s)
    <3>1. WithTests(a) = WithTests(s)
      BY <1>1, <2>1 DEF WithTests
    <3>2. \A k \in WithTests(s) : a[k].tests = s[k].tests
      BY <1>1 DEF WithTests
    <3>3. CASE AtMostOne(s)
      BY <3>1, <3>3 DEF Settled, AtMostOne
    <3>4. CASE \E i, j \in WithTests(s) : LastTwo(s, i, j)
      BY <3>1, <3>2, <3>4 DEF Settled, LastTwo
    <3> QED BY <2>1, <3>3, <3>4 DEF Settled
  <2>2. CASE r.tests # None /\ s = <<>>
    <3>1. n = 0
      BY <2>2 DEF n
    <3>2. WithTests(a) \subseteq {1}
      BY <1>1, <3>1 DEF WithTests
    <3> QED BY <3>2 DEF Settled, AtMostOne
  <2>3. CASE r.tests # None /\ s # <<>> /\ s[n].tests = r.tests
    <3>1. n >= 1
      BY <2>3, EmptySeq DEF n
    <3>2. n \in WithTests(a) /\ n + 1 \in WithTests(a)
      BY <1>1, <2>3, <3>1 DEF WithTests
    <3>3. \A k \in WithTests(a) : k <= n \/ k = n + 1
      BY <1>1 DEF WithTests
    <3>4. LastTwo(a, n, n + 1)
      BY <1>1, <2>3, <3>1, <3>3 DEF LastTwo
    <3> QED BY <3>2, <3>4 DEF Settled
  <2> QED BY <2>1, <2>2, <2>3 DEF n
<1>3. CASE Len(a) > MaxHistory
  <2>1. Len(a) - MaxHistory + 1 \in 1 .. Len(a)
    BY <1>1, <1>3, HistoryAssumption
  <2>2. Settled(SubSeq(a, Len(a) - MaxHistory + 1, Len(a)))
    BY <1>1, <1>2, <2>1, SettledSuffix
  <2> QED BY <1>3, <2>2 DEF AddStep, a
<1>4. CASE ~ (Len(a) > MaxHistory)
  BY <1>2, <1>4 DEF AddStep, a
<1> QED BY <1>3, <1>4

\* Patching the last step: the results it then bears, and that a validation
\* leaves the results of all steps alone.
LEMMA PatchEffect ==
    ASSUME NEW s \in Seq(StepRecord), s # <<>>
    PROVE  /\ \A r \in TestInputs :
                 /\ PatchTests(s, r) # <<>>
                 /\ PatchTests(s, r)[Len(PatchTests(s, r))].tests = r
           /\ \A v \in BOOLEAN :
                 /\ PatchSchema(s, v) # <<>>
                 /\ Len(PatchSchema(s, v)) = Len(s)
                 /\ DOMAIN PatchSchema(s, v) = DOMAIN s
                 /\ \A i \in DOMAIN s :
                       PatchSchema(s, v)[i].tests = s[i].tests
<1>1. Len(s) \in 1 .. Len(s) /\ s[Len(s)] \in StepRecord /\ Len(s) \in Nat
  BY EmptySeq, LenProperties, ElementOfSeq
<1>2. DOMAIN s = 1 .. Len(s)
  BY LenProperties
<1>3. ASSUME NEW r \in TestInputs
      PROVE  /\ PatchTests(s, r) # <<>>
             /\ PatchTests(s, r)[Len(PatchTests(s, r))].tests = r
  <2> DEFINE e == [s[Len(s)] EXCEPT !.tests = r]
  <2>1. e \in StepRecord /\ e.tests = r
    BY <1>1 DEF StepRecord
  <2>2. PatchTests(s, r) = [s EXCEPT ![Len(s)] = e]
    BY DEF PatchTests
  <2> HIDE DEF e
  <2>3. /\ Len([s EXCEPT ![Len(s)] = e]) = Len(s)
        /\ [s EXCEPT ![Len(s)] = e][Len(s)] = e
    BY <1>1, <2>1, ExceptSeq
  <2>4. PatchTests(s, r) # <<>>
    BY <1>1, <2>2, <2>3
  <2> QED BY <2>1, <2>2, <2>3, <2>4
<1>4. ASSUME NEW v \in BOOLEAN
      PROVE  /\ PatchSchema(s, v) # <<>>
             /\ Len(PatchSchema(s, v)) = Len(s)
             /\ DOMAIN PatchSchema(s, v) = DOMAIN s
             /\ \A i \in DOMAIN s :
                   PatchSchema(s, v)[i].tests = s[i].tests
  <2> DEFINE e == [s[Len(s)] EXCEPT !.schema = v]
  <2>1. e \in StepRecord /\ e.tests = s[Len(s)].tests
    BY <1>1 DEF StepRecord
  <2>2. PatchSchema(s, v) = [s EXCEPT ![Len(s)] = e]
    BY DEF PatchSchema
  <2> HIDE DEF e
  <2>3. /\ Len([s EXCEPT ![Len(s)] = e]) = Len(s)
        /\ DOMAIN [s EXCEPT ![Len(s)] = e] = DOMAIN s
        /\ \A j \in 1 .. Len(s) :
              [s EXCEPT ![Len(s)] = e][j] = IF j = Len(s) THEN e ELSE s[j]
    BY <1>1, <2>1, ExceptSeq
  <2>4. PatchSchema(s, v) # <<>>
    BY <1>1, <2>2, <2>3
  <2> QED BY <1>2, <2>1, <2>2, <2>3, <2>4
<1> QED BY <1>3, <1>4

LEMMA SettledPatchSchema ==
    ASSUME NEW s \in Seq(StepRecord), NEW v \in BOOLEAN, Settled(s)
    PROVE  Settled(PatchSchema(s, v))
<1>1. CASE s = <<>>
  BY <1>1 DEF PatchSchema
<1>2. CASE s # <<>>
  <2> DEFINE p == PatchSchema(s, v)
  <2>1. DOMAIN p = DOMAIN s /\ \A i \in DOMAIN s : p[i].tests = s[i].tests
    BY <1>2, PatchEffect
  <2> HIDE DEF p
  <2>2. WithTests(p) = WithTests(s)
    BY <2>1 DEF WithTests
  <2>3. CASE AtMostOne(s)
    BY <2>2, <2>3 DEF Settled, AtMostOne, p
  <2>4. CASE \E i, j \in WithTests(s) : LastTwo(s, i, j)
    <3>1. \A k \in WithTests(s) : p[k].tests = s[k].tests
      BY <2>1 DEF WithTests
    <3> QED BY <2>2, <2>4, <3>1 DEF Settled, LastTwo, p
  <2> QED BY <2>3, <2>4 DEF Settled
<1> QED BY <1>1, <1>2

-----------------------------------------------------------------------------
(***************************************************************************)
(* Type correctness, and the managers a guard keeps.                       *)
(***************************************************************************)
TypeInv == TypeOK /\ CachedManagerIsCurrent

\* The state a call's manager works on.
LEMMA ManagedType ==
    ASSUME TypeInv, NEW t \in Tasks, call[t].phase # "idle"
    PROVE  /\ call[t].manager \in Runs
           /\ Managed(t) \in StateObject
           /\ LastOutput(Managed(t).steps) \in Outputs \cup {None}
           /\ LastError(Managed(t).steps) \in Errors \cup {None}
<1>1. call[t].manager \in Runs
  <2>1. call[t].manager \in 1 .. cur
    BY DEF TypeInv, CachedManagerIsCurrent
  <2>2. cur \in 1 .. MaxRuns /\ MaxRuns \in Nat
    BY GuardAssumption DEF TypeInv, TypeOK, Runs
  <2> QED BY <2>1, <2>2 DEF Runs
<1>2. Managed(t) \in StateObject
  BY <1>1 DEF TypeInv, TypeOK, Managed
<1>3. Managed(t).steps \in Seq(StepRecord)
  BY <1>2 DEF StateObject
<1> QED BY <1>1, <1>2, <1>3, LastStepType

\* Recording a step.
LEMMA RecordType ==
    ASSUME TypeInv, NEW o \in Outputs \cup {None},
           NEW e \in Errors \cup {None}, Record(o, e)
    PROVE  /\ NewStep(o, e) \in StepRecord
           /\ states' \in [Runs -> StateObject]
           /\ pending' = NoPending
           /\ cur' = cur /\ cached' = cached
           /\ states'[cur].steps = AddStep(states[cur].steps, NewStep(o, e))
           /\ \A r \in Runs : states'[r].escalations = states[r].escalations
<1>1. states[cur] \in StateObject /\ cur \in Runs
  BY DEF TypeInv, TypeOK
<1>2. states[cur].steps \in Seq(StepRecord)
  BY <1>1 DEF StateObject
<1>3. NewStep(o, e) \in StepRecord
  <2>1. Len(states[cur].steps) \in Nat
    BY <1>2, LenProperties
  <2> QED BY <2>1 DEF NewStep, StepRecord, TypeInv, TypeOK
<1>4. AddStep(states[cur].steps, NewStep(o, e)) \in Seq(StepRecord)
  BY <1>2, <1>3, AddStepType
<1> QED BY <1>1, <1>3, <1>4 DEF Record, TypeInv, TypeOK, StateObject

\* Finishing a call.
LEMMA FinishType ==
    ASSUME TypeInv, NEW t \in Tasks, NEW r \in Result, Finish(t, r)
    PROVE  /\ running' = None
           /\ call' \in [Tasks -> Call]
           /\ call'[t] = IdleCall(r)
           /\ \A u \in Tasks \ {t} : call'[u] = call[u]
<1>1. IdleCall(r) \in Call
  BY DEF IdleCall, Call, Phases, NoRun
<1> QED BY <1>1 DEF Finish, TypeInv, TypeOK

\* A call that finishes, the guard's own state left alone.
LEMMA FinishKeeps ==
    ASSUME TypeInv, NEW t \in Tasks, NEW r \in Result, Finish(t, r),
           KeepState
    PROVE  TypeInv'
<1>1. /\ running' = None /\ call' \in [Tasks -> Call]
      /\ call'[t] = IdleCall(r)
      /\ \A u \in Tasks \ {t} : call'[u] = call[u]
  BY FinishType
<1>2. call'[t].phase = "idle"
  BY <1>1 DEF IdleCall
<1>3. TypeOK'
  BY <1>1 DEF TypeInv, TypeOK, KeepState
<1>4. \A u \in Tasks : call'[u].phase # "idle" => call'[u] = call[u]
  BY <1>1, <1>2
<1>5. CachedManagerIsCurrent'
  BY <1>4 DEF TypeInv, CachedManagerIsCurrent, KeepState
<1> QED BY <1>3, <1>5 DEF TypeInv

LEMMA CallType ==
    ASSUME TypeInv, NEW t \in Tasks
    PROVE  call \in [Tasks -> Call] /\ call[t] \in Call
BY DEF TypeInv, TypeOK

\* A call that goes on with another phase.
LEMMA PhaseChange ==
    ASSUME NEW c \in Call, NEW p \in {"resolve", "escalate"},
           NEW h \in BOOLEAN, NEW o \in Outputs \cup {None},
           NEW k \in TriggerKinds \cup {None}
    PROVE  /\ [c EXCEPT !.phase = p, !.handling = h, !.output = o, !.trigger = k]
                 \in Call
           /\ [c EXCEPT !.phase = p, !.output = o] \in Call
           /\ [c EXCEPT !.phase = p, !.handling = h] \in Call
           /\ [c EXCEPT !.phase = p, !.trigger = k] \in Call
<1>1. p \in Phases
  BY DEF Phases
<1>2. [c EXCEPT !.phase = p, !.handling = h, !.output = o, !.trigger = k] \in Call
  BY <1>1 DEF Call
<1>3. /\ [c EXCEPT !.phase = p, !.output = o] \in Call
      /\ [c EXCEPT !.phase = p, !.handling = h] \in Call
  BY <1>1 DEF Call
<1>4. [c EXCEPT !.phase = p, !.trigger = k] \in Call
  BY <1>1 DEF Call
<1> QED BY <1>2, <1>3, <1>4

\* A change of one call that keeps its manager.
LEMMA CallUpdate ==
    ASSUME TypeInv, NEW t \in Tasks, call[t].phase # "idle",
           NEW c \in Call, c.manager = call[t].manager,
           call' = [call EXCEPT ![t] = c],
           running' \in Tasks \cup {None},
           states' \in [Runs -> StateObject], UNCHANGED <<cur, cached>>,
           pending' \in {pending, NoPending}
    PROVE  TypeInv'
<1>1. call'[t] = c /\ \A u \in Tasks \ {t} : call'[u] = call[u]
  BY DEF TypeInv, TypeOK
<1>2. call' \in [Tasks -> Call]
  BY DEF TypeInv, TypeOK
<1>3. NoPending \in [tests : TestInputs \cup {None},
                     schema : BOOLEAN \cup {None}]
  BY DEF NoPending
<1>4. TypeOK'
  BY <1>2, <1>3 DEF TypeInv, TypeOK
<1>5. CachedManagerIsCurrent'
  BY <1>1 DEF TypeInv, CachedManagerIsCurrent
<1> QED BY <1>4, <1>5 DEF TypeInv

\* A call that goes on or waits in another phase, the rest left alone.
LEMMA MoveKeeps ==
    ASSUME TypeInv, NEW t \in Tasks, call[t].phase # "idle",
           NEW p \in Phases, Goto(t, p) \/ Await(t, p),
           states' \in [Runs -> StateObject],
           UNCHANGED <<cur, pending, cached>>
    PROVE  TypeInv'
<1> DEFINE c == [call[t] EXCEPT !.phase = p]
<1>1. running' \in Tasks \cup {None} /\ call' = [call EXCEPT ![t] = c]
  BY DEF Goto, Await
<1>2. c \in Call /\ c.manager = call[t].manager
  BY DEF TypeInv, TypeOK, Call
<1> HIDE DEF c
<1> QED BY <1>1, <1>2, CallUpdate

\* An exception that leaves the resolution of a step.
LEMMA EscapeType ==
    ASSUME TypeInv, NEW t \in Tasks, call[t].phase # "idle",
           NEW e \in Errors, Escape(t, e)
    PROVE  TypeInv'
<1>1. CASE /\ Record(None, e) /\ running' = t
           /\ call' = [call EXCEPT ![t].phase = "resolve",
                 ![t].handling = TRUE, ![t].output = None, ![t].trigger = None]
  <2> DEFINE c == [call[t] EXCEPT !.phase = "resolve", !.handling = TRUE,
                                  !.output = None, !.trigger = None]
  <2>1. c \in Call /\ c.manager = call[t].manager
    <3>1. c \in Call
      BY CallType, PhaseChange
    <3>2. c.manager = call[t].manager
      BY CallType DEF Call
    <3> QED BY <3>1, <3>2
  <2>2. call' = [call EXCEPT ![t] = c]
    BY <1>1 DEF TypeInv, TypeOK, Call
  <2>3. /\ states' \in [Runs -> StateObject]
        /\ pending' = NoPending /\ cur' = cur /\ cached' = cached
    BY <1>1, RecordType
  <2> HIDE DEF c
  <2> QED BY <1>1, <2>1, <2>2, <2>3, CallUpdate
<1>2. CASE Finish(t, Raised(e)) /\ KeepState
  <2>1. Raised(e) \in Result
    BY DEF Raised, Result, ResultKinds, ResultValues
  <2> QED BY <1>2, <2>1, FinishKeeps
<1> QED BY <1>1, <1>2 DEF Escape

LEMMA GuardErrorsAreErrors ==
    /\ "EscalationError" \in Errors /\ "TriggerError" \in Errors
    /\ "HookError" \in Errors /\ "ContextError" \in Errors
    /\ "PromptError" \in Errors
BY GuardAssumption DEF GuardErrors

\* What a call returns or raises is a result.
LEMMA ResultType ==
    /\ \A v \in ResultValues : Returned(v) \in Result
    /\ \A e \in Errors : Raised(e) \in Result
    /\ Cancelled \in Result /\ NoResult \in Result
BY DEF Returned, Raised, Cancelled, NoResult, Result, ResultKinds, ResultValues

(***************************************************************************)
(* One lemma per group of actions: what they preserve.                     *)
(***************************************************************************)
LEMMA AgentCodeKeepsTypes ==
    ASSUME TypeInv
    PROVE  /\ \A r \in TestInputs : RecordTestResults(r) => TypeInv'
           /\ \A v \in SchemaInputs : RecordSchemaValid(v) => TypeInv'
           /\ Reset => TypeInv'
<1>1. states[cur] \in StateObject /\ cur \in Runs
      /\ states[cur].steps \in Seq(StepRecord)
  BY DEF TypeInv, TypeOK, StateObject
<1>2. ASSUME NEW r \in TestInputs, RecordTestResults(r) PROVE TypeInv'
  <2>1. PatchTests(states[cur].steps, r) \in Seq(StepRecord)
    BY <1>1, PatchType
  <2>2. states' \in [Runs -> StateObject]
    BY <1>1, <1>2, <2>1 DEF RecordTestResults, TypeInv, TypeOK, StateObject
  <2>3. TypeOK'
    BY <1>2, <2>2 DEF RecordTestResults, TypeInv, TypeOK
  <2> QED BY <1>2, <2>3 DEF RecordTestResults, TypeInv, CachedManagerIsCurrent
<1>3. ASSUME NEW v \in SchemaInputs, RecordSchemaValid(v) PROVE TypeInv'
  <2>1. v \in BOOLEAN
    BY GuardAssumption
  <2>2. PatchSchema(states[cur].steps, v) \in Seq(StepRecord)
    BY <1>1, <2>1, PatchType
  <2>3. states' \in [Runs -> StateObject]
    BY <1>1, <1>3, <2>2 DEF RecordSchemaValid, TypeInv, TypeOK, StateObject
  <2>4. TypeOK'
    BY <1>3, <2>1, <2>3 DEF RecordSchemaValid, TypeInv, TypeOK
  <2> QED BY <1>3, <2>4 DEF RecordSchemaValid, TypeInv, CachedManagerIsCurrent
<1>4. ASSUME Reset PROVE TypeInv'
  <2>1. cur + 1 \in Runs /\ cur \in Nat
    BY <1>1, <1>4, GuardAssumption DEF Reset, Runs
  <2>2. NewState \in StateObject
    BY EmptySeq DEF NewState, StateObject
  <2>3. TypeOK'
    BY <1>4, <2>1, <2>2 DEF Reset, TypeInv, TypeOK, NoPending
  <2>4. CachedManagerIsCurrent'
    <3>1. \A u \in Tasks :
            call[u].phase # "idle" => call[u].manager \in 1 .. cur + 1
      BY <2>1 DEF TypeInv, CachedManagerIsCurrent
    <3> QED BY <1>4, <3>1 DEF Reset, CachedManagerIsCurrent
  <2> QED BY <2>3, <2>4 DEF TypeInv
<1> QED BY <1>2, <1>3, <1>4

LEMMA BeginKeepsTypes ==
    ASSUME TypeInv, NEW t \in Tasks, Begin(t)
    PROVE  TypeInv'
<1> DEFINE c == [IdleCall(NoResult) EXCEPT
                   !.phase = "body", !.manager = EnsuredComponents.manager]
<1>1. cur \in Runs /\ cur \in Nat \ {0}
  BY DEF TypeInv, TypeOK, Runs
<1>2. EnsuredComponents.manager = cur /\ EnsuredComponents.detector = TRUE
  BY DEF EnsuredComponents, TypeInv, CachedManagerIsCurrent
<1>3. c \in Call /\ c.manager = cur
  BY <1>1, <1>2, ResultType DEF IdleCall, Call, Phases
<1>4. call' = [call EXCEPT ![t] = c]
  BY DEF Begin
<1> HIDE DEF c
<1>5. /\ call' \in [Tasks -> Call] /\ call'[t] = c
      /\ \A u \in Tasks \ {t} : call'[u] = call[u]
  BY <1>3, <1>4 DEF TypeInv, TypeOK
<1>6. cached' \in [detector : BOOLEAN, manager : Runs \cup {NoRun}]
      /\ cached'.manager = cur
  BY <1>1, <1>2 DEF Begin, EnsuredComponents
<1>7. TypeOK'
  BY <1>5, <1>6 DEF Begin, TypeInv, TypeOK
<1>8. CachedManagerIsCurrent'
  BY <1>1, <1>3, <1>5, <1>6 DEF Begin, TypeInv, CachedManagerIsCurrent
<1> QED BY <1>7, <1>8 DEF TypeInv

LEMMA ResumeKeepsTypes ==
    ASSUME TypeInv, NEW t \in Tasks, Resume(t)
    PROVE  TypeInv'
<1>1. ASSUME NEW v \in Outputs, FunctionReturns(t, v) PROVE TypeInv'
  <2> DEFINE c == [call[t] EXCEPT !.phase = "resolve", !.output = v]
  <2>1. c \in Call /\ c.manager = call[t].manager
    <3>1. c \in Call
      BY CallType, PhaseChange
    <3>2. c.manager = call[t].manager
      BY CallType DEF Call
    <3> QED BY <3>1, <3>2
  <2>2. call' = [call EXCEPT ![t] = c]
    BY <1>1 DEF FunctionReturns, TypeInv, TypeOK, Call
  <2>3. states' \in [Runs -> StateObject] /\ pending' = NoPending
        /\ cur' = cur /\ cached' = cached
    BY <1>1, RecordType DEF FunctionReturns
  <2> HIDE DEF c
  <2> QED BY <1>1, <2>1, <2>2, <2>3, CallUpdate DEF FunctionReturns
<1>2. ASSUME NEW e \in AgentErrors, FunctionRaises(t, e) PROVE TypeInv'
  <2> DEFINE c == [call[t] EXCEPT !.phase = "resolve", !.handling = TRUE]
  <2>1. c \in Call /\ c.manager = call[t].manager
    <3>1. c \in Call
      BY CallType, PhaseChange
    <3>2. c.manager = call[t].manager
      BY CallType DEF Call
    <3> QED BY <3>1, <3>2
  <2>2. call' = [call EXCEPT ![t] = c]
    BY <1>2 DEF FunctionRaises, TypeInv, TypeOK, Call
  <2>3. states' \in [Runs -> StateObject] /\ pending' = NoPending
        /\ cur' = cur /\ cached' = cached
    BY <1>2, RecordType DEF FunctionRaises, AgentErrors
  <2> HIDE DEF c
  <2> QED BY <1>2, <2>1, <2>2, <2>3, CallUpdate DEF FunctionRaises
<1>3. CASE Approved(t)
  BY <1>3, MoveKeeps DEF Approved, KeepState, Phases, TypeInv, TypeOK
<1>4. CASE Declined(t)
  <2>1. call[t].phase # "idle"
    BY <1>4 DEF Declined
  <2>2. Returned(LastOutput(Managed(t).steps)) \in Result
    BY <2>1, ManagedType, ResultType DEF ResultValues
  <2> QED BY <1>4, <2>2, FinishKeeps DEF Declined
<1>5. CASE PromptFails(t)
  BY <1>5, EscapeType, GuardErrorsAreErrors DEF PromptFails
<1>6. CASE ModelAnswers(t)
  <2>1. call[t].phase # "idle"
    BY <1>6 DEF ModelAnswers
  <2>2. states' \in [Runs -> StateObject]
    <3>1. call[t].manager \in Runs
      BY <2>1, ManagedType
    <3>2. /\ states \in [Runs -> StateObject]
          /\ states[call[t].manager] \in StateObject
      BY <3>1 DEF TypeInv, TypeOK
    <3>3. [states[call[t].manager] EXCEPT !.escalations = @ + 1]
             \in StateObject
      BY <3>2 DEF StateObject
    <3> QED BY <1>6, <3>1, <3>2, <3>3 DEF ModelAnswers
  <2>3. CASE Finish(t, Returned(Advice))
    <3>1. Returned(Advice) \in Result
      BY ResultType DEF ResultValues
    <3>2. /\ running' = None /\ call' \in [Tasks -> Call]
          /\ call'[t] = IdleCall(Returned(Advice))
          /\ \A u \in Tasks \ {t} : call'[u] = call[u]
      BY <2>3, <3>1, FinishType
    <3>3. \A u \in Tasks : call'[u].phase # "idle" => call'[u] = call[u]
      BY <3>2 DEF IdleCall
    <3>4. TypeOK'
      BY <1>6, <2>2, <3>2 DEF ModelAnswers, TypeInv, TypeOK
    <3>5. CachedManagerIsCurrent'
      BY <1>6, <3>3 DEF ModelAnswers, TypeInv, CachedManagerIsCurrent
    <3> QED BY <3>4, <3>5 DEF TypeInv
  <2>4. CASE Goto(t, "failopen")
    BY <1>6, <2>1, <2>2, <2>4, MoveKeeps DEF ModelAnswers, Phases
  <2> QED BY <1>6, <2>3, <2>4 DEF ModelAnswers
<1>7. CASE ModelFails(t)
  BY <1>7, MoveKeeps DEF ModelFails, KeepState, Phases, TypeInv, TypeOK
<1> QED BY <1>1, <1>2, <1>3, <1>4, <1>5, <1>6, <1>7 DEF Resume

LEMMA ProceedKeepsTypes ==
    ASSUME TypeInv, NEW t \in Tasks, Proceed(t)
    PROVE  TypeInv'
<1>1. ASSUME NEW c \in CallbackResults, CallbackFails(t, c) PROVE TypeInv'
  BY <1>1, EscapeType, GuardErrorsAreErrors DEF CallbackFails, Resolving
<1>2. ASSUME NEW c \in CallbackResults, NoTrigger(t, c) PROVE TypeInv'
  <2>1. Returned(call[t].output) \in Result
    BY ResultType DEF TypeInv, TypeOK, Call, ResultValues
  <2> QED BY <1>2, <2>1, FinishKeeps DEF NoTrigger
<1>3. ASSUME NEW c \in CallbackResults, DetectOnly(t, c) PROVE TypeInv'
  <2>1. LastOutput(states[cur].steps) \in Outputs \cup {None}
    BY LastStepType DEF TypeInv, TypeOK, StateObject
  <2>2. Returned(LastOutput(states[cur].steps)) \in Result
    BY <2>1, ResultType DEF ResultValues
  <2> QED BY <1>3, <2>2, FinishKeeps DEF DetectOnly
<1>4. ASSUME NEW c \in CallbackResults, Triggered(t, c) PROVE TypeInv'
  <2> DEFINE d == [call[t] EXCEPT !.phase = "escalate", !.trigger = Verdict(c)]
  <2>1. Verdict(c) \in TriggerKinds \cup {None}
    BY CheckType DEF Verdict
  <2>2. d \in Call /\ d.manager = call[t].manager
    <3>1. d \in Call
      BY <2>1, CallType, PhaseChange
    <3>2. d.manager = call[t].manager
      BY CallType DEF Call
    <3> QED BY <3>1, <3>2
  <2>3. call' = [call EXCEPT ![t] = d]
    BY <1>4 DEF Triggered, TypeInv, TypeOK, Call
  <2> HIDE DEF d
  <2> QED
    BY <1>4, <2>2, <2>3, CallUpdate
    DEF Triggered, Resolving, KeepState, TypeInv, TypeOK
<1>5. CASE Capped(t)
  <2>1. call[t].phase # "idle"
    BY <1>5 DEF Capped, Escalating
  <2>2. Returned(LastOutput(Managed(t).steps)) \in Result
    BY <2>1, ManagedType, ResultType DEF ResultValues
  <2> QED
    BY <1>5, <2>1, <2>2, FinishKeeps, EscapeType, GuardErrorsAreErrors
    DEF Capped
<1>6. CASE AskUser(t)
  <2>1. call[t].phase # "idle"
    BY <1>6 DEF AskUser, Escalating
  <2>2. CASE Await(t, "prompt") /\ KeepState
    BY <2>1, <2>2, MoveKeeps DEF KeepState, Phases, TypeInv, TypeOK
  <2>3. CASE Escape(t, "ContextError")
    BY <2>1, <2>3, EscapeType, GuardErrorsAreErrors
  <2> QED BY <1>6, <2>2, <2>3 DEF AskUser
<1>7. CASE SkipPrompt(t)
  BY <1>7, MoveKeeps
  DEF SkipPrompt, Escalating, KeepState, Phases, TypeInv, TypeOK
<1>8. CASE Invoke(t)
  BY <1>8, MoveKeeps DEF Invoke, KeepState, Phases, TypeInv, TypeOK
<1>9. CASE FailOpenLogFails(t)
  BY <1>9, EscapeType, GuardErrorsAreErrors DEF FailOpenLogFails, Failing
<1>10. CASE RaiseOriginal(t)
  <2>1. call[t].phase # "idle"
    BY <1>10 DEF RaiseOriginal, Failing
  <2>2. OriginalError(t) \in Errors
    BY <2>1, ManagedType, GuardErrorsAreErrors DEF OriginalError
  <2> QED BY <1>10, <2>1, <2>2, EscapeType DEF RaiseOriginal
<1>11. CASE ReturnFallback(t)
  <2>1. call[t].phase # "idle"
    BY <1>11 DEF ReturnFallback, Failing
  <2>2. Returned(IF OnGuardError = "return_last_output"
                 THEN LastOutput(Managed(t).steps) ELSE Sentinel) \in Result
    BY <2>1, ManagedType, ResultType DEF ResultValues
  <2> QED BY <1>11, <2>2, FinishKeeps DEF ReturnFallback
<1> QED
  BY <1>1, <1>2, <1>3, <1>4, <1>5, <1>6, <1>7, <1>8, <1>9, <1>10, <1>11
  DEF Proceed

LEMMA TypeInvInductive == TypeInv /\ [Next]_vars => TypeInv'
<1> SUFFICES ASSUME TypeInv, [Next]_vars PROVE TypeInv'
  OBVIOUS
<1>1. CASE UNCHANGED vars
  BY <1>1 DEF vars, TypeInv, TypeOK, CachedManagerIsCurrent
<1>2. ASSUME NEW t \in Tasks, Interrupted(t) PROVE TypeInv'
  BY <1>2, FinishKeeps, ResultType DEF Interrupted
<1>3. CASE Next
  BY <1>2, <1>3, AgentCodeKeepsTypes, BeginKeepsTypes, ResumeKeepsTypes,
     ProceedKeepsTypes DEF Next
<1> QED BY <1>1, <1>3

LEMMA TypeInvInitial == Init => TypeInv
<1> SUFFICES ASSUME Init PROVE TypeInv
  OBVIOUS
<1>1. NewState \in StateObject
  BY EmptySeq DEF NewState, StateObject
<1>2. IdleCall(NoResult) \in Call
  BY ResultType DEF IdleCall, Call, Phases
<1>3. 1 \in Runs
  BY GuardAssumption DEF Runs
<1>4. TypeOK
  BY <1>1, <1>2, <1>3 DEF Init, TypeOK, NoPending
<1>5. CachedManagerIsCurrent
  BY DEF Init, CachedManagerIsCurrent, IdleCall
<1> QED BY <1>4, <1>5 DEF TypeInv

LEMMA TypeInvHolds == Spec => []TypeInv
BY TypeInvInitial, TypeInvInductive, PTL DEF Spec

(***************************************************************************)
(* Every variable keeps its type.                                          *)
(***************************************************************************)
THEOREM TypeCorrect == Spec => []TypeOK
<1>1. TypeInv => TypeOK
  BY DEF TypeInv
<1> QED BY <1>1, TypeInvHolds, PTL

(***************************************************************************)
(* The cached manager never belongs to a run before the latest reset, and  *)
(* a call never holds a manager of a run that has not begun.               *)
(***************************************************************************)
THEOREM ManagerCurrent == Spec => []CachedManagerIsCurrent
<1>1. TypeInv => CachedManagerIsCurrent
  BY DEF TypeInv
<1> QED BY <1>1, TypeInvHolds, PTL

-----------------------------------------------------------------------------
(***************************************************************************)
(* Why OscillationIsDetected (module TestHistory) fails, for every value   *)
(* of the constants: record_test_results overwrites the last step with the *)
(* results that the next step will also carry (guard.py:169-171), so the   *)
(* last two steps with results agree at every check.                       *)
(***************************************************************************)
OscillationNeverFires ==
    \A t \in Tasks : call[t].trigger # "oscillation"

(***************************************************************************)
(* No check sees an oscillation.  A step is recorded together with the     *)
(* clearing of what was pending and resolved before anything else can be   *)
(* recorded; and while results are pending the last step bears them too.   *)
(***************************************************************************)
ResolvingIsClean ==
    \A t \in Tasks :
        call[t].phase = "resolve" => running = t /\ pending.tests = None

AgreesWith(s, p) ==
    IF p = None THEN Settled(s) ELSE s = <<>> \/ s[Len(s)].tests = p

Agreement == AgreesWith(states[cur].steps, pending.tests)

SteadyInv == ResolvingIsClean /\ Agreement /\ OscillationNeverFires

\* A step of a call that records, and one that does not.
RecordsStep(t) ==
    /\ call'[t].phase = "resolve" /\ running' = t
    /\ \E o \in Outputs \cup {None}, e \in Errors \cup {None} : Record(o, e)

LeavesSteps(t) ==
    /\ call'[t].phase # "resolve"
    /\ cur' = cur /\ pending' = pending
    /\ \A r \in Runs : states'[r].steps = states[r].steps

StepOf(t) ==
    /\ running \in {None, t}
    /\ \A u \in Tasks \ {t} : call'[u] = call[u]
    /\ call'[t].trigger # "oscillation"
    /\ RecordsStep(t) \/ LeavesSteps(t)

LEMMA VerdictNotOscillation ==
    ASSUME TypeInv, SteadyInv, NEW t \in Tasks, Resolving(t), NEW c
    PROVE  Verdict(c) # "oscillation"
<1>1. states[cur].steps \in Seq(StepRecord)
  BY DEF TypeInv, TypeOK, StateObject
<1>2. Settled(states[cur].steps)
  BY DEF SteadyInv, ResolvingIsClean, Resolving, Agreement, AgreesWith
<1>3. ~ Oscillation(states[cur].steps, MaxRetries["test_failure"])
  BY <1>1, <1>2, SettledMeansSteady
<1>4. ~ Fires("oscillation", states[cur].steps, c)
  BY <1>3 DEF Fires
<1>5. None # "oscillation"
  BY DetectorAssumption DEF TriggerKinds
<1> QED BY <1>4, <1>5, CheckType DEF Verdict

LEMMA FinishIsStep ==
    ASSUME TypeInv, NEW t \in Tasks, running \in {None, t},
           NEW r, Finish(t, r), UNCHANGED <<cur, pending>>,
           \A q \in Runs : states'[q].steps = states[q].steps
    PROVE  StepOf(t)
<1>1. call'[t] = IdleCall(r) /\ \A u \in Tasks \ {t} : call'[u] = call[u]
  BY DEF Finish, TypeInv, TypeOK
<1>2. call'[t].trigger # "oscillation" /\ call'[t].phase # "resolve"
  BY <1>1, DetectorAssumption DEF IdleCall, TriggerKinds
<1> QED BY <1>1, <1>2 DEF StepOf, LeavesSteps

LEMMA MoveIsStep ==
    ASSUME TypeInv, SteadyInv, NEW t \in Tasks, running \in {None, t},
           NEW p \in Phases \ {"resolve"}, Goto(t, p) \/ Await(t, p),
           UNCHANGED <<cur, pending>>,
           \A q \in Runs : states'[q].steps = states[q].steps
    PROVE  StepOf(t)
<1>1. call' = [call EXCEPT ![t].phase = p]
  BY DEF Goto, Await
<1>2. /\ call'[t].phase = p /\ call'[t].trigger = call[t].trigger
      /\ \A u \in Tasks \ {t} : call'[u] = call[u]
  BY <1>1 DEF TypeInv, TypeOK, Call
<1> QED BY <1>2 DEF StepOf, LeavesSteps, SteadyInv, OscillationNeverFires

LEMMA EscapeIsStep ==
    ASSUME TypeInv, NEW t \in Tasks, running \in {None, t},
           NEW e \in Errors, Escape(t, e)
    PROVE  StepOf(t)
<1>1. CASE /\ Record(None, e) /\ running' = t
           /\ call' = [call EXCEPT ![t].phase = "resolve",
                 ![t].handling = TRUE, ![t].output = None, ![t].trigger = None]
  <2>1. /\ call'[t].phase = "resolve" /\ call'[t].trigger = None
        /\ \A u \in Tasks \ {t} : call'[u] = call[u]
    BY <1>1 DEF TypeInv, TypeOK, Call
  <2>2. None # "oscillation"
    BY DetectorAssumption DEF TriggerKinds
  <2> QED BY <1>1, <2>1, <2>2 DEF StepOf, RecordsStep
<1>2. CASE Finish(t, Raised(e)) /\ KeepState
  BY <1>2, FinishIsStep DEF KeepState
<1> QED BY <1>1, <1>2 DEF Escape

LEMMA ResumeIsStep ==
    ASSUME TypeInv, SteadyInv, NEW t \in Tasks, Resume(t)
    PROVE  StepOf(t)
<1>1. ASSUME NEW v \in Outputs, FunctionReturns(t, v) PROVE StepOf(t)
  <2>1. /\ call'[t].phase = "resolve" /\ call'[t].trigger = call[t].trigger
        /\ \A u \in Tasks \ {t} : call'[u] = call[u]
    BY <1>1 DEF FunctionReturns, TypeInv, TypeOK, Call
  <2> QED
    BY <1>1, <2>1
    DEF FunctionReturns, StepOf, RecordsStep, SteadyInv, OscillationNeverFires
<1>2. ASSUME NEW e \in AgentErrors, FunctionRaises(t, e) PROVE StepOf(t)
  <2>1. /\ call'[t].phase = "resolve" /\ call'[t].trigger = call[t].trigger
        /\ \A u \in Tasks \ {t} : call'[u] = call[u]
    BY <1>2 DEF FunctionRaises, TypeInv, TypeOK, Call
  <2> QED
    BY <1>2, <2>1
    DEF FunctionRaises, StepOf, RecordsStep, AgentErrors, SteadyInv,
        OscillationNeverFires
<1>3. CASE Approved(t)
  BY <1>3, MoveIsStep DEF Approved, KeepState, Phases
<1>4. CASE Declined(t)
  BY <1>4, FinishIsStep DEF Declined, KeepState
<1>5. CASE PromptFails(t)
  BY <1>5, EscapeIsStep, GuardErrorsAreErrors DEF PromptFails
<1>6. CASE ModelAnswers(t)
  <2>1. /\ running = None /\ cur' = cur /\ pending' = pending
        /\ \A q \in Runs : states'[q].steps = states[q].steps
    BY <1>6 DEF ModelAnswers, TypeInv, TypeOK, StateObject
  <2> QED BY <1>6, <2>1, FinishIsStep, MoveIsStep DEF ModelAnswers, Phases
<1>7. CASE ModelFails(t)
  BY <1>7, MoveIsStep DEF ModelFails, KeepState, Phases
<1> QED BY <1>1, <1>2, <1>3, <1>4, <1>5, <1>6, <1>7 DEF Resume

LEMMA ProceedIsStep ==
    ASSUME TypeInv, SteadyInv, NEW t \in Tasks, Proceed(t)
    PROVE  StepOf(t)
<1>1. ASSUME NEW c \in CallbackResults, CallbackFails(t, c) PROVE StepOf(t)
  BY <1>1, EscapeIsStep, GuardErrorsAreErrors DEF CallbackFails, Resolving
<1>2. ASSUME NEW c \in CallbackResults, NoTrigger(t, c) PROVE StepOf(t)
  BY <1>2, FinishIsStep DEF NoTrigger, Resolving, KeepState
<1>3. ASSUME NEW c \in CallbackResults, DetectOnly(t, c) PROVE StepOf(t)
  BY <1>3, FinishIsStep DEF DetectOnly, Resolving, KeepState
<1>4. ASSUME NEW c \in CallbackResults, Triggered(t, c) PROVE StepOf(t)
  <2>1. /\ call'[t].phase = "escalate" /\ call'[t].trigger = Verdict(c)
        /\ \A u \in Tasks \ {t} : call'[u] = call[u]
    BY <1>4 DEF Triggered, TypeInv, TypeOK, Call
  <2>2. Verdict(c) # "oscillation"
    BY <1>4, VerdictNotOscillation DEF Triggered
  <2> QED
    BY <1>4, <2>1, <2>2 DEF Triggered, Resolving, KeepState, StepOf, LeavesSteps
<1>5. CASE Capped(t)
  BY <1>5, FinishIsStep, EscapeIsStep, GuardErrorsAreErrors
  DEF Capped, Escalating, KeepState
<1>6. CASE AskUser(t)
  BY <1>6, MoveIsStep, EscapeIsStep, GuardErrorsAreErrors
  DEF AskUser, Escalating, KeepState, Phases
<1>7. CASE SkipPrompt(t)
  BY <1>7, MoveIsStep DEF SkipPrompt, Escalating, KeepState, Phases
<1>8. CASE Invoke(t)
  BY <1>8, MoveIsStep DEF Invoke, KeepState, Phases
<1>9. CASE FailOpenLogFails(t)
  BY <1>9, EscapeIsStep, GuardErrorsAreErrors DEF FailOpenLogFails, Failing
<1>10. CASE RaiseOriginal(t)
  <2>1. OriginalError(t) \in Errors
    BY <1>10, ManagedType, GuardErrorsAreErrors
    DEF OriginalError, RaiseOriginal, Failing
  <2> QED BY <1>10, <2>1, EscapeIsStep DEF RaiseOriginal, Failing
<1>11. CASE ReturnFallback(t)
  BY <1>11, FinishIsStep DEF ReturnFallback, Failing, KeepState
<1> QED
  BY <1>1, <1>2, <1>3, <1>4, <1>5, <1>6, <1>7, <1>8, <1>9, <1>10, <1>11
  DEF Proceed

LEMMA StepKeepsSteady ==
    ASSUME TypeInv, SteadyInv, NEW t \in Tasks, StepOf(t)
    PROVE  SteadyInv'
<1>1. \A u \in Tasks \ {t} : call'[u] = call[u] /\ call[u].phase # "resolve"
  BY GuardAssumption DEF StepOf, SteadyInv, ResolvingIsClean
<1>2. OscillationNeverFires'
  BY <1>1 DEF StepOf, SteadyInv, OscillationNeverFires
<1>3. CASE RecordsStep(t)
  <2>1. PICK o \in Outputs \cup {None}, e \in Errors \cup {None} : Record(o, e)
    BY <1>3 DEF RecordsStep
  <2>2. /\ pending' = NoPending /\ cur' = cur
        /\ states'[cur].steps = AddStep(states[cur].steps, NewStep(o, e))
        /\ NewStep(o, e) \in StepRecord
    BY <2>1, RecordType
  <2>3. ResolvingIsClean'
    BY <1>1, <1>3, <2>2 DEF RecordsStep, ResolvingIsClean, NoPending
  <2>4. states[cur].steps \in Seq(StepRecord)
    BY DEF TypeInv, TypeOK, StateObject
  <2>5. NewStep(o, e).tests = pending.tests
    BY DEF NewStep
  <2>6. \/ /\ NewStep(o, e).tests = None
           /\ Settled(states[cur].steps)
        \/ /\ NewStep(o, e).tests # None
           /\ \/ states[cur].steps = <<>>
              \/ states[cur].steps[Len(states[cur].steps)].tests
                    = NewStep(o, e).tests
    BY <2>5 DEF SteadyInv, Agreement, AgreesWith
  <2>7. Settled(states'[cur].steps)
    BY <2>2, <2>4, <2>6, SettledAddStep
  <2>8. Agreement'
    BY <2>2, <2>7 DEF Agreement, AgreesWith, NoPending
  <2> QED BY <1>2, <2>3, <2>8 DEF SteadyInv
<1>4. CASE LeavesSteps(t)
  <2>1. ResolvingIsClean'
    BY <1>1, <1>4 DEF LeavesSteps, ResolvingIsClean
  <2>2. Agreement'
    BY <1>4 DEF LeavesSteps, SteadyInv, Agreement, TypeInv, TypeOK
  <2> QED BY <1>2, <2>1, <2>2 DEF SteadyInv
<1> QED BY <1>3, <1>4 DEF StepOf

LEMMA AgentCodeKeepsSteady ==
    ASSUME TypeInv, SteadyInv
    PROVE  /\ \A r \in TestInputs : RecordTestResults(r) => SteadyInv'
           /\ \A v \in SchemaInputs : RecordSchemaValid(v) => SteadyInv'
           /\ Reset => SteadyInv'
<1> DEFINE s == states[cur].steps
<1>1. s \in Seq(StepRecord) /\ cur \in Runs
  BY DEF TypeInv, TypeOK, StateObject
<1>2. ASSUME running = None, UNCHANGED call
      PROVE  ResolvingIsClean' /\ OscillationNeverFires'
  BY <1>2, GuardAssumption
  DEF SteadyInv, ResolvingIsClean, OscillationNeverFires
<1>3. ASSUME NEW r \in TestInputs, RecordTestResults(r) PROVE SteadyInv'
  <2>1. /\ pending'.tests = r /\ cur' = cur
        /\ states'[cur].steps = PatchTests(s, r)
    BY <1>1, <1>3 DEF RecordTestResults, TypeInv, TypeOK, StateObject
  <2>2. r # None
    BY HistoryAssumption
  <2>3. PatchTests(s, r) = <<>>
        \/ PatchTests(s, r)[Len(PatchTests(s, r))].tests = r
    <3>1. CASE s = <<>>
      BY <3>1 DEF PatchTests
    <3>2. CASE s # <<>>
      BY <1>1, <3>2, PatchEffect
    <3> QED BY <3>1, <3>2
  <2>4. Agreement'
    BY <2>1, <2>2, <2>3 DEF Agreement, AgreesWith
  <2> QED
    BY <1>2, <1>3, <2>4 DEF RecordTestResults, AgentCodeRuns, SteadyInv
<1>4. ASSUME NEW v \in SchemaInputs, RecordSchemaValid(v) PROVE SteadyInv'
  <2>1. /\ pending'.tests = pending.tests /\ cur' = cur
        /\ states'[cur].steps = PatchSchema(s, v)
    BY <1>1, <1>4 DEF RecordSchemaValid, TypeInv, TypeOK, StateObject
  <2>2. v \in BOOLEAN
    BY GuardAssumption
  <2>3. ASSUME pending.tests = None PROVE Agreement'
    <3>1. Settled(PatchSchema(s, v))
      BY <1>1, <2>2, <2>3, SettledPatchSchema
      DEF SteadyInv, Agreement, AgreesWith
    <3> QED BY <2>1, <2>3, <3>1 DEF Agreement, AgreesWith
  <2>4. ASSUME pending.tests # None PROVE Agreement'
    <3>1. CASE s = <<>>
      <4>1. PatchSchema(s, v) = <<>>
        BY <3>1 DEF PatchSchema
      <4> QED BY <2>1, <2>4, <4>1 DEF Agreement, AgreesWith
    <3>2. CASE s # <<>>
      <4>1. /\ Len(PatchSchema(s, v)) = Len(s)
            /\ Len(s) \in DOMAIN s
            /\ PatchSchema(s, v)[Len(s)].tests = s[Len(s)].tests
        BY <1>1, <2>2, <3>2, PatchEffect, EmptySeq, LenProperties
      <4>2. s[Len(s)].tests = pending.tests
        BY <2>4, <3>2 DEF SteadyInv, Agreement, AgreesWith
      <4> QED BY <2>1, <2>4, <4>1, <4>2 DEF Agreement, AgreesWith
    <3> QED BY <3>1, <3>2
  <2>5. Agreement'
    BY <2>3, <2>4
  <2> QED
    BY <1>2, <1>4, <2>5 DEF RecordSchemaValid, AgentCodeRuns, SteadyInv
<1>5. ASSUME Reset PROVE SteadyInv'
  <2>1. cur + 1 \in Runs
    BY <1>1, <1>5, GuardAssumption DEF Reset, Runs
  <2>2. states'[cur'].steps = <<>> /\ pending'.tests = None
    BY <1>5, <2>1 DEF Reset, TypeInv, TypeOK, NewState, NoPending
  <2>3. Settled(<<>>)
    <3>1. WithTests(<<>>) \subseteq {1}
      BY DEF WithTests
    <3> QED BY <3>1 DEF Settled, AtMostOne
  <2>4. Agreement'
    BY <2>2, <2>3 DEF Agreement, AgreesWith
  <2> QED BY <1>2, <1>5, <2>4 DEF Reset, AgentCodeRuns, SteadyInv
<1> QED BY <1>3, <1>4, <1>5

LEMMA SteadyInductive == TypeInv /\ SteadyInv /\ [Next]_vars => SteadyInv'
<1> SUFFICES ASSUME TypeInv, SteadyInv, [Next]_vars PROVE SteadyInv'
  OBVIOUS
<1>1. CASE UNCHANGED vars
  BY <1>1
  DEF vars, SteadyInv, ResolvingIsClean, Agreement, OscillationNeverFires
<1>2. ASSUME NEW t \in Tasks, Begin(t) PROVE SteadyInv'
  <2>1. /\ call'[t].phase = "body" /\ call'[t].trigger = None
        /\ \A u \in Tasks \ {t} : call'[u] = call[u]
    BY <1>2 DEF Begin, TypeInv, TypeOK, IdleCall
  <2>2. None # "oscillation"
    BY DetectorAssumption DEF TriggerKinds
  <2>3. OscillationNeverFires' /\ ResolvingIsClean' /\ Agreement'
    BY <1>2, <2>1, <2>2
    DEF Begin, SteadyInv, ResolvingIsClean, Agreement, OscillationNeverFires
  <2> QED BY <2>3 DEF SteadyInv
<1>3. ASSUME NEW t \in Tasks, Interrupted(t) PROVE SteadyInv'
  BY <1>3, FinishIsStep, StepKeepsSteady DEF Interrupted, KeepState
<1>4. CASE Next
  BY <1>2, <1>3, <1>4, AgentCodeKeepsSteady, ResumeIsStep, ProceedIsStep,
     StepKeepsSteady DEF Next
<1> QED BY <1>1, <1>4

LEMMA SteadyInitial == Init => SteadyInv
<1> SUFFICES ASSUME Init PROVE SteadyInv
  OBVIOUS
<1>1. 1 \in Runs
  BY GuardAssumption DEF Runs
<1>2. states[cur].steps = <<>> /\ pending.tests = None
  BY <1>1 DEF Init, NewState, NoPending
<1>3. WithTests(<<>>) \subseteq {1}
  BY DEF WithTests
<1>4. Agreement
  BY <1>2, <1>3 DEF Agreement, AgreesWith, Settled, AtMostOne
<1>5. ResolvingIsClean /\ OscillationNeverFires
  BY DetectorAssumption
  DEF Init, IdleCall, ResolvingIsClean, OscillationNeverFires, TriggerKinds
<1> QED BY <1>4, <1>5 DEF SteadyInv

(***************************************************************************)
(* The oscillation mode of test_failure never starts an escalation,        *)
(* whatever the callers record and in whatever order: what docs/triggers.md*)
(* says of it cannot be had from record_test_results.                      *)
(***************************************************************************)
THEOREM NoOscillation == Spec => []OscillationNeverFires
<1>1. SteadyInv => OscillationNeverFires
  BY DEF SteadyInv
<1>2. Spec => []SteadyInv
  BY TypeInvHolds, SteadyInitial, SteadyInductive, PTL DEF Spec
<1> QED BY <1>1, <1>2, PTL

-----------------------------------------------------------------------------
(***************************************************************************)
(* The escalation budget.  The bound on the counters alone is not          *)
(* inductive: a call that has passed the cap check adds one later, however *)
(* far the counter has got in the meantime.  Counting those calls as spent *)
(* already makes it so.                                                    *)
(***************************************************************************)
Owing == {"prompt", "package", "invoke"}

InFlight(r) == {t \in Tasks : call[t].phase \in Owing /\ call[t].manager = r}

Ceiling == MaxEscalations + Cardinality(Tasks) - 1

BudgetInv ==
    \A r \in Runs : states[r].escalations + Cardinality(InFlight(r)) <= Ceiling

\* What a step of task t does to the budget: nothing, ...
CountsKept ==
    /\ cur' = cur
    /\ \A r \in Runs : states'[r].escalations = states[r].escalations

OthersKept(t) == \A u \in Tasks \ {t} : call'[u] = call[u]

Quiet(t) ==
    /\ CountsKept /\ OthersKept(t)
    /\ \/ call'[t].phase \notin Owing
       \/ call[t].phase \in Owing /\ call'[t].manager = call[t].manager

\* ... passing the cap check, ...
Admission(t) ==
    /\ CountsKept /\ OthersKept(t)
    /\ call[t].phase # "idle" /\ call'[t].manager = call[t].manager
    /\ states[call[t].manager].escalations < MaxEscalations

\* ... or counting the answer of the model.
Answer(t) ==
    /\ cur' = cur /\ OthersKept(t)
    /\ call[t].phase = "invoke" /\ call'[t].phase \notin Owing
    /\ states' = [states EXCEPT ![call[t].manager].escalations = @ + 1]

BudgetStep(t) == Quiet(t) \/ Admission(t) \/ Answer(t)

-----------------------------------------------------------------------------
\* The sizes and counts of the invariant are numbers.
LEMMA BudgetTypes ==
    ASSUME TypeInv
    PROVE  /\ Cardinality(Tasks) \in Nat \ {0}
           /\ Ceiling \in Nat
           /\ \A r \in Runs : /\ states[r].escalations \in Nat
                              /\ IsFiniteSet(InFlight(r))
                              /\ Cardinality(InFlight(r)) \in Nat
                              /\ Cardinality(InFlight(r)) <= Cardinality(Tasks)
<1>1. IsFiniteSet(Tasks) /\ Tasks # {} /\ MaxEscalations \in Nat \ {0}
  BY GuardAssumption
<1>2. Cardinality(Tasks) \in Nat \ {0}
  BY <1>1, FS_CardinalityType, FS_EmptySet
<1>3. Ceiling \in Nat
  BY <1>1, <1>2 DEF Ceiling
<1>4. ASSUME NEW r \in Runs
      PROVE  /\ states[r].escalations \in Nat
             /\ IsFiniteSet(InFlight(r))
             /\ Cardinality(InFlight(r)) \in Nat
             /\ Cardinality(InFlight(r)) <= Cardinality(Tasks)
  <2>1. states[r].escalations \in Nat
    BY DEF TypeInv, TypeOK, StateObject
  <2>2. InFlight(r) \subseteq Tasks
    BY DEF InFlight
  <2>3. /\ IsFiniteSet(InFlight(r))
        /\ Cardinality(InFlight(r)) <= Cardinality(Tasks)
    BY <1>1, <2>2, FS_Subset
  <2> QED BY <2>1, <2>3, FS_CardinalityType
<1> QED BY <1>2, <1>3, <1>4

\* The calls in flight for r do not increase, and its count does not either.
LEMMA ShrinkingKeepsBudget ==
    ASSUME TypeInv, TypeInv', BudgetInv, NEW r \in Runs,
           states'[r].escalations <= states[r].escalations,
           InFlight(r)' \subseteq InFlight(r)
    PROVE  states'[r].escalations + Cardinality(InFlight(r)') <= Ceiling
<1>1. /\ states[r].escalations \in Nat /\ states'[r].escalations \in Nat
      /\ IsFiniteSet(InFlight(r))
      /\ Cardinality(InFlight(r)) \in Nat
      /\ Ceiling \in Nat
  BY BudgetTypes DEF TypeInv, TypeOK, StateObject
<1>2. /\ IsFiniteSet(InFlight(r)')
      /\ Cardinality(InFlight(r)') <= Cardinality(InFlight(r))
  BY <1>1, FS_Subset
<1>3. Cardinality(InFlight(r)') \in Nat
  BY <1>2, FS_CardinalityType
<1>4. states[r].escalations + Cardinality(InFlight(r)) <= Ceiling
  BY DEF BudgetInv
<1> QED BY <1>1, <1>2, <1>3, <1>4

LEMMA StepKeepsBudget ==
    ASSUME TypeInv, TypeInv', BudgetInv, NEW t \in Tasks, BudgetStep(t)
    PROVE  BudgetInv'
<1> SUFFICES ASSUME NEW r \in Runs
             PROVE  states'[r].escalations + Cardinality(InFlight(r)')
                       <= Ceiling
  BY DEF BudgetInv, Ceiling
<1>1. CASE Quiet(t)
  <2>1. InFlight(r)' \subseteq InFlight(r)
    BY <1>1 DEF Quiet, OthersKept, InFlight
  <2>2. states'[r].escalations <= states[r].escalations
    BY <1>1, BudgetTypes DEF Quiet, CountsKept
  <2> QED BY <2>1, <2>2, ShrinkingKeepsBudget
<1>2. CASE Admission(t)
  <2>1. states'[r].escalations = states[r].escalations
    BY <1>2 DEF Admission, CountsKept
  <2>2. CASE r = call[t].manager
    <3>1. states[r].escalations < MaxEscalations /\ MaxEscalations \in Nat
      BY <1>2, <2>2, GuardAssumption DEF Admission
    <3>2. InFlight(r)' \subseteq Tasks
      BY DEF InFlight
    <3>3. /\ IsFiniteSet(InFlight(r)')
          /\ Cardinality(InFlight(r)') <= Cardinality(Tasks)
      BY <3>2, FS_Subset, GuardAssumption
    <3>4. Cardinality(InFlight(r)') \in Nat
      BY <3>3, FS_CardinalityType
    <3> QED BY <2>1, <3>1, <3>3, <3>4, BudgetTypes DEF Ceiling
  <2>3. CASE r # call[t].manager
    <3>1. InFlight(r)' \subseteq InFlight(r)
      BY <1>2, <2>3 DEF Admission, OthersKept, InFlight
    <3>2. states'[r].escalations <= states[r].escalations
      BY <2>1, BudgetTypes
    <3> QED BY <3>1, <3>2, ShrinkingKeepsBudget
  <2> QED BY <2>2, <2>3
<1>3. CASE Answer(t)
  <2>1. CASE r = call[t].manager
    <3>1. states'[r].escalations = states[r].escalations + 1
      BY <1>3, <2>1 DEF Answer, TypeInv, TypeOK, StateObject
    <3>2. t \in InFlight(r) /\ InFlight(r)' \subseteq InFlight(r) \ {t}
      BY <1>3, <2>1 DEF Answer, OthersKept, InFlight, Owing
    <3>3. /\ IsFiniteSet(InFlight(r) \ {t})
          /\ Cardinality(InFlight(r) \ {t}) = Cardinality(InFlight(r)) - 1
      BY <3>2, BudgetTypes, FS_RemoveElement
    <3>4. /\ IsFiniteSet(InFlight(r)')
          /\ Cardinality(InFlight(r)') <= Cardinality(InFlight(r)) - 1
      BY <3>2, <3>3, FS_Subset
    <3>5. Cardinality(InFlight(r)') \in Nat
      BY <3>4, FS_CardinalityType
    <3>6. states[r].escalations + Cardinality(InFlight(r)) <= Ceiling
      BY DEF BudgetInv
    <3> QED BY <3>1, <3>4, <3>5, <3>6, BudgetTypes
  <2>2. CASE r # call[t].manager
    <3>1. states'[r].escalations <= states[r].escalations
      BY <1>3, <2>2, BudgetTypes DEF Answer, TypeInv, TypeOK
    <3>2. InFlight(r)' \subseteq InFlight(r)
      BY <1>3, <2>2 DEF Answer, OthersKept, InFlight
    <3> QED BY <3>1, <3>2, ShrinkingKeepsBudget
  <2> QED BY <2>1, <2>2
<1> QED BY <1>1, <1>2, <1>3 DEF BudgetStep

-----------------------------------------------------------------------------
(***************************************************************************)
(* Every step of a call is one of the three kinds.                         *)
(***************************************************************************)
LEMMA FinishIsQuiet ==
    ASSUME TypeInv, NEW t \in Tasks, NEW x, Finish(t, x), CountsKept
    PROVE  Quiet(t)
<1>1. call'[t] = IdleCall(x) /\ OthersKept(t)
  BY DEF Finish, TypeInv, TypeOK, OthersKept
<1> QED BY <1>1 DEF Quiet, IdleCall, Owing

LEMMA MoveEffect ==
    ASSUME TypeInv, NEW t \in Tasks, NEW p, Goto(t, p) \/ Await(t, p)
    PROVE  /\ call'[t].phase = p /\ call'[t].manager = call[t].manager
           /\ OthersKept(t)
<1>1. call' = [call EXCEPT ![t].phase = p]
  BY DEF Goto, Await
<1> QED BY <1>1 DEF TypeInv, TypeOK, Call, OthersKept

LEMMA EscapeIsQuiet ==
    ASSUME TypeInv, NEW t \in Tasks, NEW e \in Errors, Escape(t, e)
    PROVE  Quiet(t)
<1>1. CASE /\ Record(None, e)
           /\ call' = [call EXCEPT ![t].phase = "resolve",
                 ![t].handling = TRUE, ![t].output = None, ![t].trigger = None]
  <2>1. call'[t].phase = "resolve" /\ OthersKept(t)
    BY <1>1 DEF TypeInv, TypeOK, Call, OthersKept
  <2>2. CountsKept
    BY <1>1, RecordType DEF CountsKept
  <2> QED BY <2>1, <2>2 DEF Quiet, Owing
<1>2. CASE Finish(t, Raised(e)) /\ KeepState
  BY <1>2, FinishIsQuiet DEF KeepState, CountsKept
<1> QED BY <1>1, <1>2 DEF Escape

LEMMA ResumeIsBudgetStep ==
    ASSUME TypeInv, NEW t \in Tasks, Resume(t)
    PROVE  BudgetStep(t)
<1>1. ASSUME NEW v \in Outputs, FunctionReturns(t, v) PROVE Quiet(t)
  <2>1. call'[t].phase = "resolve" /\ OthersKept(t)
    BY <1>1 DEF FunctionReturns, TypeInv, TypeOK, Call, OthersKept
  <2>2. CountsKept
    BY <1>1, RecordType DEF FunctionReturns, CountsKept
  <2> QED BY <2>1, <2>2 DEF Quiet, Owing
<1>2. ASSUME NEW e \in AgentErrors, FunctionRaises(t, e) PROVE Quiet(t)
  <2>1. call'[t].phase = "resolve" /\ OthersKept(t)
    BY <1>2 DEF FunctionRaises, TypeInv, TypeOK, Call, OthersKept
  <2>2. CountsKept
    BY <1>2, RecordType DEF FunctionRaises, AgentErrors, CountsKept
  <2> QED BY <2>1, <2>2 DEF Quiet, Owing
<1>3. ASSUME Approved(t) PROVE Quiet(t)
  BY <1>3, MoveEffect DEF Approved, KeepState, Quiet, CountsKept, Owing
<1>4. ASSUME Declined(t) PROVE Quiet(t)
  BY <1>4, FinishIsQuiet DEF Declined, KeepState, CountsKept
<1>5. ASSUME PromptFails(t) PROVE Quiet(t)
  BY <1>5, EscapeIsQuiet, GuardErrorsAreErrors DEF PromptFails
<1>6. CASE ModelAnswers(t)
  <2>1. call'[t].phase \notin Owing /\ OthersKept(t)
    <3>1. CASE Finish(t, Returned(Advice))
      BY <3>1 DEF Finish, IdleCall, TypeInv, TypeOK, OthersKept, Owing
    <3>2. CASE Goto(t, "failopen")
      BY <3>2, MoveEffect DEF Owing
    <3> QED BY <1>6, <3>1, <3>2 DEF ModelAnswers
  <2> QED BY <1>6, <2>1 DEF ModelAnswers, BudgetStep, Answer
<1>7. ASSUME ModelFails(t) PROVE Quiet(t)
  BY <1>7, MoveEffect DEF ModelFails, KeepState, Quiet, CountsKept, Owing
<1> QED
  BY <1>1, <1>2, <1>3, <1>4, <1>5, <1>6, <1>7 DEF Resume, BudgetStep

LEMMA ProceedIsBudgetStep ==
    ASSUME TypeInv, NEW t \in Tasks, Proceed(t)
    PROVE  BudgetStep(t)
<1>1. ASSUME NEW c \in CallbackResults, CallbackFails(t, c) PROVE Quiet(t)
  BY <1>1, EscapeIsQuiet, GuardErrorsAreErrors DEF CallbackFails
<1>2. ASSUME NEW c \in CallbackResults, NoTrigger(t, c) PROVE Quiet(t)
  BY <1>2, FinishIsQuiet DEF NoTrigger, KeepState, CountsKept
<1>3. ASSUME NEW c \in CallbackResults, DetectOnly(t, c) PROVE Quiet(t)
  BY <1>3, FinishIsQuiet DEF DetectOnly, KeepState, CountsKept
<1>4. ASSUME NEW c \in CallbackResults, Triggered(t, c) PROVE Quiet(t)
  <2>1. call'[t].phase = "escalate" /\ OthersKept(t)
    BY <1>4 DEF Triggered, TypeInv, TypeOK, Call, OthersKept
  <2> QED BY <1>4, <2>1 DEF Triggered, KeepState, CountsKept, Quiet, Owing
<1>5. ASSUME Capped(t) PROVE Quiet(t)
  BY <1>5, FinishIsQuiet, EscapeIsQuiet, GuardErrorsAreErrors
  DEF Capped, KeepState, CountsKept
<1>6. ASSUME Escalating(t), ~ CapReached(t)
      PROVE  states[call[t].manager].escalations < MaxEscalations
  <2>1. Managed(t) \in StateObject
    BY <1>6, ManagedType DEF Escalating
  <2>2. Managed(t).escalations \in Nat /\ MaxEscalations \in Nat
    BY <2>1, GuardAssumption DEF StateObject
  <2> QED BY <1>6, <2>2 DEF CapReached, Managed
<1>7. CASE AskUser(t)
  <2>1. CASE Await(t, "prompt") /\ KeepState
    BY <1>6, <1>7, <2>1, MoveEffect
    DEF AskUser, Escalating, KeepState, CountsKept, Admission, BudgetStep
  <2>2. CASE Escape(t, "ContextError")
    BY <2>2, EscapeIsQuiet, GuardErrorsAreErrors DEF BudgetStep
  <2> QED BY <1>7, <2>1, <2>2 DEF AskUser
<1>8. CASE SkipPrompt(t)
  BY <1>6, <1>8, MoveEffect
  DEF SkipPrompt, Escalating, KeepState, CountsKept, Admission, BudgetStep
<1>9. ASSUME Invoke(t) PROVE Quiet(t)
  BY <1>9, MoveEffect DEF Invoke, KeepState, CountsKept, Quiet, Owing
<1>10. ASSUME FailOpenLogFails(t) PROVE Quiet(t)
  BY <1>10, EscapeIsQuiet, GuardErrorsAreErrors DEF FailOpenLogFails
<1>11. ASSUME RaiseOriginal(t) PROVE Quiet(t)
  <2>1. OriginalError(t) \in Errors
    BY <1>11, ManagedType, GuardErrorsAreErrors
    DEF OriginalError, RaiseOriginal, Failing
  <2> QED BY <1>11, <2>1, EscapeIsQuiet DEF RaiseOriginal
<1>12. ASSUME ReturnFallback(t) PROVE Quiet(t)
  BY <1>12, FinishIsQuiet DEF ReturnFallback, KeepState, CountsKept
<1> QED
  BY <1>1, <1>2, <1>3, <1>4, <1>5, <1>7, <1>8, <1>9, <1>10, <1>11, <1>12
  DEF Proceed, BudgetStep

-----------------------------------------------------------------------------
LEMMA BudgetInductive ==
    TypeInv /\ BudgetInv /\ [Next]_vars => BudgetInv'
<1> SUFFICES ASSUME TypeInv, BudgetInv, [Next]_vars PROVE BudgetInv'
  OBVIOUS
<1>1. TypeInv'
  BY TypeInvInductive
<1>2. ASSUME UNCHANGED call,
             \A r \in Runs : states'[r].escalations <= states[r].escalations
      PROVE  BudgetInv'
  <2> SUFFICES ASSUME NEW r \in Runs
               PROVE  states'[r].escalations + Cardinality(InFlight(r)')
                         <= Ceiling
    BY DEF BudgetInv, Ceiling
  <2>1. InFlight(r)' \subseteq InFlight(r)
    BY <1>2 DEF InFlight
  <2> QED BY <1>1, <1>2, <2>1, ShrinkingKeepsBudget
<1>3. CASE UNCHANGED vars
  BY <1>2, <1>3, BudgetTypes DEF vars
<1>4. ASSUME NEW r \in TestInputs, RecordTestResults(r) PROVE BudgetInv'
  <2>1. \A q \in Runs : states'[q].escalations = states[q].escalations
    BY <1>4 DEF RecordTestResults, TypeInv, TypeOK, StateObject
  <2> QED BY <1>2, <1>4, <2>1, BudgetTypes DEF RecordTestResults
<1>5. ASSUME NEW v \in SchemaInputs, RecordSchemaValid(v) PROVE BudgetInv'
  <2>1. \A q \in Runs : states'[q].escalations = states[q].escalations
    BY <1>5 DEF RecordSchemaValid, TypeInv, TypeOK, StateObject
  <2> QED BY <1>2, <1>5, <2>1, BudgetTypes DEF RecordSchemaValid
<1>6. CASE Reset
  <2>1. \A q \in Runs : states'[q].escalations \in {states[q].escalations, 0}
    BY <1>6 DEF Reset, TypeInv, TypeOK, NewState
  <2> QED BY <1>2, <1>6, <2>1, BudgetTypes DEF Reset
<1>7. ASSUME NEW t \in Tasks, Begin(t) PROVE BudgetStep(t)
  <2>1. call'[t].phase = "body" /\ OthersKept(t)
    BY <1>7 DEF Begin, IdleCall, TypeInv, TypeOK, OthersKept
  <2> QED BY <1>7, <2>1 DEF Begin, CountsKept, Quiet, BudgetStep, Owing
<1>8. ASSUME NEW t \in Tasks, Interrupted(t) PROVE BudgetStep(t)
  BY <1>8, FinishIsQuiet DEF Interrupted, KeepState, CountsKept, BudgetStep
<1>9. CASE Next
  BY <1>1, <1>4, <1>5, <1>6, <1>7, <1>8, <1>9, ResumeIsBudgetStep,
     ProceedIsBudgetStep, StepKeepsBudget DEF Next
<1> QED BY <1>3, <1>9

LEMMA BudgetInitial == Init => BudgetInv
<1> SUFFICES ASSUME Init, NEW r \in Runs
             PROVE  states[r].escalations + Cardinality(InFlight(r))
                       <= Ceiling
  BY DEF BudgetInv
<1>1. states[r].escalations = 0
  BY DEF Init, NewState
<1>2. InFlight(r) = {}
  BY DEF Init, IdleCall, InFlight, Owing
<1>3. Cardinality(InFlight(r)) = 0
  BY <1>2, FS_EmptySet
<1>4. Ceiling \in Nat
  BY TypeInvInitial, BudgetTypes
<1> QED BY <1>1, <1>3, <1>4

LEMMA BudgetHolds == Spec => []BudgetInv
BY TypeInvHolds, BudgetInitial, BudgetInductive, PTL DEF Spec

(***************************************************************************)
(* However many callers there are and however they interleave, no run      *)
(* counts more than n - 1 escalations above the cap.                       *)
(***************************************************************************)
THEOREM OvershootBounded == Spec => []CapOvershootBounded
<1>1. TypeInv /\ BudgetInv => CapOvershootBounded
  BY BudgetTypes DEF BudgetInv, CapOvershootBounded, Ceiling
<1> QED BY <1>1, TypeInvHolds, BudgetHolds, PTL

(***************************************************************************)
(* With a single caller (the synchronous decorator) the check and the      *)
(* increment cannot be separated by another call: the cap holds.           *)
(***************************************************************************)
THEOREM CapHoldsForOneCaller ==
    Cardinality(Tasks) = 1 => (Spec => []CapRespected)
<1> SUFFICES ASSUME Cardinality(Tasks) = 1 PROVE Spec => []CapRespected
  OBVIOUS
<1>1. CapOvershootBounded => CapRespected
  BY GuardAssumption DEF CapOvershootBounded, CapRespected
<1> QED BY <1>1, OvershootBounded, PTL

-----------------------------------------------------------------------------
(***************************************************************************)
(* Refinement.                                                             *)
(***************************************************************************)
LEMMA BudgetStepRefines ==
    ASSUME TypeInv, TypeInv', BudgetInv, BudgetInv',
           NEW t \in Tasks, BudgetStep(t)
    PROVE  [Budget!BudgetNext]_(Budget!budgetVars)
<1>1. cur \in Runs
  BY DEF TypeInv, TypeOK
<1>2. CASE CountsKept
  BY <1>1, <1>2 DEF CountsKept, Budget!budgetVars
<1>3. CASE Answer(t) /\ call[t].manager = cur
  <2>1. cur' = cur /\ states'[cur].escalations = states[cur].escalations + 1
    BY <1>1, <1>3 DEF Answer, TypeInv, TypeOK, StateObject
  <2>2. ASSUME NEW r \in Runs PROVE states'[r].escalations <= Ceiling
    <3>1. /\ states'[r].escalations \in Nat
          /\ states'[r].escalations + Cardinality(InFlight(r)') <= Ceiling
      BY DEF BudgetInv, Ceiling, TypeInv, TypeOK, StateObject
    <3>2. Cardinality(InFlight(r)') \in Nat
      <4>1. InFlight(r)' \subseteq Tasks
        BY DEF InFlight
      <4> QED BY <4>1, FS_Subset, FS_CardinalityType, GuardAssumption
    <3> QED BY <3>1, <3>2, BudgetTypes
  <2> QED
    BY <1>1, <2>1, <2>2, BudgetTypes
    DEF Ceiling, Budget!BudgetNext, Budget!Spend
<1>4. CASE Answer(t) /\ call[t].manager # cur
  BY <1>1, <1>4 DEF Answer, TypeInv, TypeOK, Budget!budgetVars
<1> QED BY <1>2, <1>3, <1>4 DEF BudgetStep, Quiet, Admission

(***************************************************************************)
(* The guard implements the escalation budget.                             *)
(***************************************************************************)
THEOREM GuardImplementsBudget == Spec => ImplementsBudget
<1>1. Init => Budget!BudgetInit
  <2>1. 1 \in Runs
    BY GuardAssumption DEF Runs
  <2> QED BY <2>1 DEF Init, NewState, Budget!BudgetInit
<1>2. ASSUME TypeInv, TypeInv', BudgetInv, BudgetInv', [Next]_vars
      PROVE  [Budget!BudgetNext]_(Budget!budgetVars)
  <2>1. CASE UNCHANGED vars
    BY <2>1 DEF vars, Budget!budgetVars
  <2>2. ASSUME NEW r \in TestInputs, RecordTestResults(r)
        PROVE  UNCHANGED Budget!budgetVars
    BY <1>2, <2>2
    DEF RecordTestResults, TypeInv, TypeOK, StateObject, Budget!budgetVars
  <2>3. ASSUME NEW v \in SchemaInputs, RecordSchemaValid(v)
        PROVE  UNCHANGED Budget!budgetVars
    BY <1>2, <2>3
    DEF RecordSchemaValid, TypeInv, TypeOK, StateObject, Budget!budgetVars
  <2>4. ASSUME Reset PROVE Budget!Renew
    <3>1. cur + 1 \in Runs
      BY <1>2, <2>4, GuardAssumption DEF Reset, Runs, TypeInv, TypeOK
    <3> QED BY <1>2, <2>4, <3>1 DEF Reset, TypeInv, TypeOK, NewState,
               Budget!Renew
  <2>5. ASSUME NEW t \in Tasks, Begin(t) PROVE UNCHANGED Budget!budgetVars
    BY <2>5 DEF Begin, Budget!budgetVars
  <2>6. ASSUME NEW t \in Tasks, Interrupted(t)
        PROVE  UNCHANGED Budget!budgetVars
    BY <2>6 DEF Interrupted, KeepState, Budget!budgetVars
  <2>7. ASSUME NEW t \in Tasks, Resume(t) \/ Proceed(t)
        PROVE  [Budget!BudgetNext]_(Budget!budgetVars)
    BY <1>2, <2>7, ResumeIsBudgetStep, ProceedIsBudgetStep, BudgetStepRefines
  <2>8. CASE Next
    BY <2>2, <2>3, <2>4, <2>5, <2>6, <2>7, <2>8 DEF Next, Budget!BudgetNext
  <2> QED BY <1>2, <2>1, <2>8
<1> QED
  BY <1>1, <1>2, TypeInvHolds, BudgetHolds, PTL
  DEF Spec, ImplementsBudget, Budget!BudgetSpec

=============================================================================
