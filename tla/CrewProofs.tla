----------------------------- MODULE CrewProofs -----------------------------
(***************************************************************************)
(* Theorems about CrewAIWrapper, for any agents, any depth of delegation   *)
(* and any number of resets.                                               *)
(***************************************************************************)
EXTENDS CrewAIWrapper, TLAPS, SequenceTheorems, FiniteSetTheorems

(***************************************************************************)
(* The stack of wrapped steps.  Lends(f, l, r): at level l of the frames f *)
(* a step escalates with the manager of run r.  Holder(f, r, l, x): seen   *)
(* from above the first l levels, that manager works on the state of x,    *)
(* the agent of the topmost such step, or on its own if there is none.     *)
(***************************************************************************)
Lends(f, l, r) == Swapped(f[l]) /\ f[l].manager = r

Holder(f, r, l, x) ==
    \/ x = r /\ \A k \in 1 .. l : ~ Lends(f, k, r)
    \/ \E k \in 1 .. l :
          /\ Lends(f, k, r) /\ f[k].agent = x
          /\ \A j \in k + 1 .. l : ~ Lends(f, j, r)

Shape ==
    /\ states = [o \in Owners |-> states[o]]
    /\ cur \in Runs
    /\ cached \in Runs \cup {NoRun}
    /\ target \in [Runs -> Owners]
    /\ depth \in 0 .. MaxDepth
    /\ frames \in [Levels -> Frame]
    /\ \A l \in 1 .. depth :
          /\ frames[l].agent \in Agents
          /\ frames[l].phase \in {"body", "resolve"} \/ Swapped(frames[l])
          /\ frames[l].phase # "body" => frames[l].manager \in Runs

Borrowing ==
    /\ \A r \in Runs : Holder(frames, r, depth, target[r])
    /\ \A l \in 1 .. depth :
          Swapped(frames[l])
             => Holder(frames, frames[l].manager, l - 1, frames[l].saved)

StackInv == Shape /\ Borrowing

\* Only the levels up to l matter.
LEMMA HolderLocal ==
    ASSUME NEW f, NEW g, NEW l \in Nat, \A k \in 1 .. l : f[k] = g[k],
           NEW r, NEW x, Holder(f, r, l, x)
    PROVE  Holder(g, r, l, x)
<1>1. \A k \in 1 .. l : Lends(f, k, r) <=> Lends(g, k, r)
  BY DEF Lends
<1>2. CASE x = r /\ \A k \in 1 .. l : ~ Lends(f, k, r)
  BY <1>1, <1>2 DEF Holder
<1>3. CASE \E k \in 1 .. l :
              /\ Lends(f, k, r) /\ f[k].agent = x
              /\ \A j \in k + 1 .. l : ~ Lends(f, j, r)
  <2>1. PICK k \in 1 .. l :
              /\ Lends(f, k, r) /\ f[k].agent = x
              /\ \A j \in k + 1 .. l : ~ Lends(f, j, r)
    BY <1>3
  <2>2. \A j \in k + 1 .. l : j \in 1 .. l
    OBVIOUS
  <2>3. Lends(g, k, r) /\ g[k].agent = x
    BY <1>1, <2>1
  <2>4. \A j \in k + 1 .. l : ~ Lends(g, j, r)
    BY <1>1, <2>1, <2>2
  <2> QED BY <2>3, <2>4 DEF Holder
<1> QED BY <1>2, <1>3 DEF Holder

\* A level that does not lend the manager of r may be left out or added.
LEMMA HolderSkips ==
    ASSUME NEW f, NEW l \in Nat \ {0}, NEW r, NEW x, ~ Lends(f, l, r)
    PROVE  Holder(f, r, l, x) <=> Holder(f, r, l - 1, x)
<1>1. 1 .. l = (1 .. l - 1) \cup {l}
  OBVIOUS
<1>2. \A k \in 1 .. l - 1 : k + 1 .. l = (k + 1 .. l - 1) \cup {l}
  OBVIOUS
<1>3. (\A k \in 1 .. l : ~ Lends(f, k, r)) <=> \A k \in 1 .. l - 1 : ~ Lends(f, k, r)
  BY <1>1
<1>4. \A k \in 1 .. l - 1 :
         (\A j \in k + 1 .. l : ~ Lends(f, j, r))
            <=> \A j \in k + 1 .. l - 1 : ~ Lends(f, j, r)
  BY <1>2
<1> QED BY <1>1, <1>3, <1>4 DEF Holder

\* The topmost step that lends the manager determines whose state it has.
LEMMA HolderTop ==
    ASSUME NEW f, NEW l \in Nat \ {0}, NEW r, NEW x, Lends(f, l, r)
    PROVE  Holder(f, r, l, x) <=> f[l].agent = x
<1>1. l + 1 .. l = {} /\ l \in 1 .. l
  OBVIOUS
<1>2. \A k \in 1 .. l : k # l => l \in k + 1 .. l
  OBVIOUS
<1> QED BY <1>1, <1>2 DEF Holder

\* Nobody has borrowed the manager.
LEMMA HolderHome ==
    ASSUME NEW f, NEW l \in Nat, NEW r, NEW x, Holder(f, r, l, x),
           \A k \in 1 .. l : ~ Lends(f, k, r)
    PROVE  x = r
BY DEF Holder

-----------------------------------------------------------------------------
(***************************************************************************)
(* What the helpers of the actions do to the stack.                        *)
(***************************************************************************)
\* What top may be depends on its phase.
LEMMA TopShape ==
    ASSUME Shape, depth > 0
    PROVE  /\ depth \in Levels /\ depth \in 1 .. depth /\ depth - 1 \in 0 .. MaxDepth
           /\ top = frames[depth] /\ top \in Frame /\ top.agent \in Agents
           /\ top.phase # "body" => top.manager \in Runs
           /\ target \in [Runs -> Owners]
BY CrewAssumption DEF Shape, top, Levels

\* A step that is over leaves the manager to whom it had it from.
LEMMA EndedKeeps ==
    ASSUME StackInv, depth > 0, NEW how, NEW value, Ended(how, value),
           states' = [o \in Owners |-> states'[o]],
           UNCHANGED <<cur, cached>>
    PROVE  StackInv'
<1> USE DEF StackInv
<1>1. /\ depth \in Levels /\ depth - 1 \in 0 .. MaxDepth /\ depth' = depth - 1
      /\ frames' = [frames EXCEPT ![depth] = NoFrame]
      /\ top = frames[depth]
  BY TopShape DEF Ended
<1>2. Swapped(top) => /\ top.manager \in Runs
                      /\ Holder(frames, top.manager, depth - 1, top.saved)
                      /\ target' = [target EXCEPT ![top.manager] = top.saved]
  BY TopShape, <1>1 DEF Ended, Borrowing, Swapped
<1>3. ~ Swapped(top) => target' = target
  BY DEF Ended
<1>4. \A k \in 1 .. depth - 1 : frames'[k] = frames[k] /\ k \in 1 .. depth
  BY <1>1 DEF Shape, Levels
<1>5. NoFrame \in Frame
  BY DEF NoFrame, Frame
<1>6. \A r \in Runs : Holder(frames, r, depth - 1, target'[r])
  <2> SUFFICES ASSUME NEW r \in Runs
               PROVE  Holder(frames, r, depth - 1, target'[r])
    OBVIOUS
  <2>1. CASE Lends(frames, depth, r)
    BY <1>1, <1>2, <2>1 DEF Lends, Shape
  <2>2. CASE ~ Lends(frames, depth, r)
    <3>1. target'[r] = target[r]
      BY <1>1, <1>2, <1>3, <2>2 DEF Lends, Shape
    <3>2. Holder(frames, r, depth, target[r]) /\ depth \in Nat \ {0}
      BY <1>1 DEF Borrowing, Levels
    <3> QED BY <2>2, <3>1, <3>2, HolderSkips
  <2> QED BY <2>1, <2>2
<1>7. \A r \in Runs : target'[r] \in Owners
  <2> SUFFICES ASSUME NEW r \in Runs PROVE target'[r] \in Owners
    OBVIOUS
  <2>1. PICK x : x = target'[r] /\ Holder(frames, r, depth - 1, x)
    BY <1>6
  <2>2. x = r \/ \E k \in 1 .. depth : frames[k].agent = x
    BY <1>4, <2>1 DEF Holder
  <2> QED BY <2>1, <2>2 DEF Shape, Owners
<1>8. target' \in [Runs -> Owners]
  BY <1>2, <1>3, <1>7 DEF Shape
<1>9. Shape'
  <2>1. frames' \in [Levels -> Frame]
    BY <1>1, <1>5 DEF Shape
  <2>2. \A l \in 1 .. depth' : frames'[l] = frames[l] /\ l \in 1 .. depth
    BY <1>1, <1>4
  <2> QED BY <1>1, <1>8, <2>1, <2>2 DEF Shape, Swapped
<1>10. Borrowing'
  <2>1. ASSUME NEW r \in Runs PROVE Holder(frames', r, depth', target'[r])
    <3>1. depth - 1 \in Nat /\ depth' = depth - 1
      BY <1>1
    <3>2. Holder(frames, r, depth - 1, target'[r])
      BY <1>6
    <3>3. \A k \in 1 .. depth - 1 : frames[k] = frames'[k]
      BY <1>4
    <3>4. Holder(frames', r, depth - 1, target'[r])
      BY <3>1, <3>2, <3>3, HolderLocal
    <3> QED BY <3>1, <3>4
  <2>2. ASSUME NEW l \in 1 .. depth', Swapped(frames'[l])
        PROVE  Holder(frames', frames'[l].manager, l - 1, frames'[l].saved)
    <3>1. frames'[l] = frames[l] /\ l \in 1 .. depth /\ l - 1 \in Nat
      BY <1>1, <1>4
    <3>2. Holder(frames, frames[l].manager, l - 1, frames[l].saved)
      BY <2>2, <3>1 DEF Borrowing
    <3>3. \A k \in 1 .. l - 1 : frames[k] = frames'[k]
      BY <1>1, <1>4, <3>1
    <3> QED BY <3>1, <3>2, <3>3, HolderLocal
  <2> QED BY <2>1, <2>2 DEF Borrowing
<1> QED BY <1>9, <1>10

\* A step that goes on neither borrows nor returns the manager, unless it is
\* the first step of an escalation; the frame below stays what it is.
LEMMA TopChanges ==
    ASSUME StackInv, depth > 0, NEW f \in Frame,
           frames' = [frames EXCEPT ![depth] = f],
           f.agent = top.agent,
           f.phase \in {"body", "resolve"} \/ Swapped(f),
           f.phase # "body" => f.manager \in Runs,
           Swapped(f) <=> Swapped(top),
           Swapped(f) => f.manager = top.manager /\ f.saved = top.saved,
           states' = [o \in Owners |-> states'[o]],
           cached' \in Runs \cup {NoRun},
           UNCHANGED <<cur, target, depth>>
    PROVE  StackInv'
<1> USE DEF StackInv
<1>1. /\ depth \in Levels /\ depth \in 1 .. depth /\ top = frames[depth]
      /\ top.agent \in Agents
  BY TopShape
<1>2. /\ \A k \in 1 .. depth : k \in Levels /\ (k # depth => frames'[k] = frames[k])
      /\ frames'[depth] = f
  BY <1>1, CrewAssumption DEF Shape, Levels
<1>3. Shape'
  BY <1>1, <1>2 DEF Shape, Swapped
<1>4. \A k \in 1 .. depth, r \in Runs : Lends(frames', k, r) <=> Lends(frames, k, r)
  BY <1>1, <1>2 DEF Lends
<1>5. \A k \in 1 .. depth : frames'[k].agent = frames[k].agent
  BY <1>1, <1>2
<1>6. ASSUME NEW l \in 0 .. depth, NEW r \in Runs, NEW x, Holder(frames, r, l, x)
      PROVE  Holder(frames', r, l, x)
  <2>1. \A k \in 1 .. l : k \in 1 .. depth /\ \A j \in k + 1 .. l : j \in 1 .. depth
    BY <1>1 DEF Levels
  <2> QED BY <1>4, <1>5, <1>6, <2>1 DEF Holder
<1>7. Borrowing'
  <2>1. ASSUME NEW r \in Runs PROVE Holder(frames', r, depth', target'[r])
    <3>1. depth \in 0 .. depth /\ Holder(frames, r, depth, target[r])
      BY <1>1, CrewAssumption DEF Borrowing, Levels
    <3>2. Holder(frames', r, depth, target[r])
      BY <1>6, <3>1
    <3> QED BY <3>2
  <2>2. ASSUME NEW l \in 1 .. depth', Swapped(frames'[l])
        PROVE  Holder(frames', frames'[l].manager, l - 1, frames'[l].saved)
    <3>1. /\ frames'[l].manager = frames[l].manager
          /\ frames'[l].saved = frames[l].saved
          /\ Swapped(frames[l])
          /\ l \in 1 .. depth /\ l - 1 \in 0 .. depth
      BY <1>1, <1>2, <2>2 DEF Levels
    <3>2. frames[l].manager \in Runs
      BY <3>1 DEF Shape, Swapped
    <3> QED BY <1>6, <3>1, <3>2 DEF Borrowing
  <2> QED BY <2>1, <2>2 DEF Borrowing
<1> QED BY <1>3, <1>7

\* The step goes to its next phase.
LEMMA GotoKeeps ==
    ASSUME StackInv, depth > 0,
           NEW phase \in {"prompt", "package", "invoke", "failopen"},
           Swapped(top), Goto(phase),
           states' = [o \in Owners |-> states'[o]],
           UNCHANGED <<cur, cached>>
    PROVE  StackInv'
<1> DEFINE f == [top EXCEPT !.phase = phase]
<1>1. Shape
  BY DEF StackInv
<1>2. top = frames[depth] /\ depth \in Levels /\ top \in Frame /\ top.manager \in Runs
  BY <1>1, TopShape DEF Swapped
<1>3. /\ f \in Frame /\ f.agent = top.agent /\ f.manager = top.manager
      /\ f.saved = top.saved /\ f.phase = phase
  BY <1>2 DEF Frame
<1>4. frames' = [frames EXCEPT ![depth] = f] /\ UNCHANGED <<target, depth>>
  BY <1>2 DEF Goto
<1>5. Swapped(f)
  BY <1>3 DEF Swapped
<1>6. cached' \in Runs \cup {NoRun}
  BY <1>1 DEF Shape
<1> HIDE DEF f
<1> QED BY <1>2, <1>3, <1>4, <1>5, <1>6, TopChanges

\* execute_task is over.
LEMMA RecordedKeeps ==
    ASSUME StackInv, In("body"), NEW output \in Outputs \cup {None},
           NEW error \in Errors \cup {None}, Recorded(output, error)
    PROVE  StackInv'
<1> DEFINE mgr == IF cached = NoRun THEN cur ELSE cached
           f == [top EXCEPT !.phase = "resolve", !.manager = mgr,
                            !.output = output, !.error = error]
<1>1. Shape /\ depth > 0 /\ top.phase = "body"
  BY DEF StackInv, In
<1>2. top = frames[depth] /\ depth \in Levels /\ top \in Frame
  BY <1>1, TopShape
<1>3. mgr \in Runs
  BY <1>1 DEF Shape
<1>4. /\ frames' = [frames EXCEPT ![depth] = f]
      /\ cached' = mgr
      /\ UNCHANGED <<cur, target, depth>>
  BY <1>2 DEF Recorded
<1> HIDE DEF mgr
<1>5. f \in Frame /\ f.agent = top.agent /\ f.phase = "resolve" /\ f.manager = mgr
  BY <1>2, <1>3 DEF Frame
<1>6. ~ Swapped(f) /\ ~ Swapped(top)
  BY <1>1, <1>5 DEF Swapped
<1>7. states' = [o \in Owners |-> states'[o]]
  BY <1>1 DEF Recorded, Shape
<1> HIDE DEF f
<1> QED BY <1>1, <1>3, <1>4, <1>5, <1>6, <1>7, TopChanges

\* The step borrows the manager from whoever has it.
LEMMA SwappingKeeps ==
    ASSUME StackInv, In("resolve"), Swapping, UNCHANGED <<states, cur, cached, depth>>
    PROVE  StackInv'
<1> USE DEF StackInv
<1> DEFINE m == top.manager
           f == [top EXCEPT !.phase = "escalate", !.saved = target[m],
                            !.output = None, !.error = None]
<1>1. Shape /\ depth > 0 /\ top.phase = "resolve"
  BY DEF In
<1>2. /\ top = frames[depth] /\ depth \in Levels /\ top \in Frame /\ m \in Runs
      /\ top.agent \in Agents /\ target \in [Runs -> Owners]
      /\ depth \in Nat \ {0} /\ depth - 1 \in Nat /\ depth \in 1 .. depth
  BY <1>1, TopShape, CrewAssumption DEF Levels
<1>3. /\ f \in Frame /\ f.agent = top.agent /\ f.phase = "escalate"
      /\ f.manager = m /\ f.saved = target[m]
  BY <1>2 DEF Frame
<1>4. /\ frames' = [frames EXCEPT ![depth] = f]
      /\ target' = [target EXCEPT ![m] = top.agent]
  BY <1>2 DEF Swapping
<1>5. Swapped(f) /\ ~ Swapped(top)
  BY <1>1, <1>3 DEF Swapped
<1> HIDE DEF f
<1>6. /\ \A k \in 1 .. depth : k \in Levels /\ (k # depth => frames'[k] = frames[k])
      /\ frames'[depth] = f
  BY <1>2, <1>4, CrewAssumption DEF Shape, Levels
<1>7. Shape'
  BY <1>1, <1>2, <1>3, <1>4, <1>5, <1>6 DEF Shape, Swapped, Owners
<1>8. ASSUME NEW r \in Runs PROVE Holder(frames, r, depth - 1, target[r])
  <2>1. ~ Lends(frames, depth, r) /\ Holder(frames, r, depth, target[r])
    BY <1>2, <1>5 DEF Lends, Borrowing
  <2> QED BY <1>2, <2>1, HolderSkips
<1>9. ASSUME NEW r \in Runs PROVE Holder(frames', r, depth - 1, target[r])
  <2>1. \A k \in 1 .. depth - 1 : frames[k] = frames'[k]
    BY <1>2, <1>6
  <2> QED BY <1>2, <1>8, <2>1, HolderLocal
<1>10. ASSUME NEW r \in Runs PROVE Holder(frames', r, depth, target'[r])
  <2>1. CASE r = m
    <3>1. Lends(frames', depth, r) /\ frames'[depth].agent = target'[r]
      BY <1>2, <1>3, <1>4, <1>5, <1>6, <2>1 DEF Lends
    <3> QED BY <1>2, <3>1, HolderTop
  <2>2. CASE r # m
    <3>1. ~ Lends(frames', depth, r) /\ target'[r] = target[r]
      BY <1>2, <1>3, <1>4, <1>6, <2>2 DEF Lends
    <3> QED BY <1>2, <1>9, <3>1, HolderSkips
  <2> QED BY <2>1, <2>2
<1>11. ASSUME NEW l \in 1 .. depth, Swapped(frames'[l])
       PROVE  Holder(frames', frames'[l].manager, l - 1, frames'[l].saved)
  <2>1. CASE l = depth
    BY <1>2, <1>3, <1>6, <1>9, <2>1
  <2>2. CASE l # depth
    <3>1. frames'[l] = frames[l] /\ l - 1 \in Nat
      BY <1>6, <2>2
    <3>2. Holder(frames, frames[l].manager, l - 1, frames[l].saved)
      BY <1>11, <3>1 DEF Borrowing
    <3>3. \A k \in 1 .. l - 1 : frames[k] = frames'[k]
      BY <1>2, <1>6, <2>2
    <3> QED BY <3>1, <3>2, <3>3, HolderLocal
  <2> QED BY <2>1, <2>2
<1> QED BY <1>7, <1>10, <1>11 DEF Borrowing

\* A new step is on top and has borrowed nothing.
LEMMA BeginKeeps ==
    ASSUME StackInv, NEW a \in Agents, Begin(a)
    PROVE  StackInv'
<1> USE DEF StackInv
<1> DEFINE f == [NoFrame EXCEPT !.phase = "body", !.agent = a]
<1>1. /\ Shape /\ depth \in Nat /\ depth' = depth + 1 /\ depth + 1 \in Levels
      /\ frames' = [frames EXCEPT ![depth + 1] = f]
      /\ UNCHANGED <<cur, cached, target>>
  BY CrewAssumption DEF Begin, Shape, Levels
<1>2. f \in Frame /\ f.phase = "body" /\ f.agent = a /\ ~ Swapped(f)
  BY DEF NoFrame, Frame, Swapped
<1> HIDE DEF f
<1>3. /\ \A k \in 1 .. depth : frames'[k] = frames[k]
      /\ frames'[depth + 1] = f
  BY <1>1 DEF Shape, Levels
<1>4. states' = [o \in Owners |-> states'[o]]
  BY <1>1 DEF Begin, Shape
<1>5. \A l \in 1 .. depth + 1 : l \in 1 .. depth \/ l = depth + 1
  BY <1>1
<1>6. Shape'
  <2>1. depth' \in 0 .. MaxDepth
    BY <1>1, CrewAssumption DEF Levels
  <2>2. frames' \in [Levels -> Frame]
    BY <1>1, <1>2 DEF Shape
  <2>3. \A l \in 1 .. depth' :
           /\ frames'[l].agent \in Agents
           /\ frames'[l].phase \in {"body", "resolve"} \/ Swapped(frames'[l])
           /\ frames'[l].phase # "body" => frames'[l].manager \in Runs
    BY <1>1, <1>2, <1>3, <1>5 DEF Shape
  <2> QED BY <1>1, <1>4, <2>1, <2>2, <2>3 DEF Shape, Swapped
<1>7. ASSUME NEW r \in Runs PROVE Holder(frames', r, depth + 1, target[r])
  <2>1. Holder(frames, r, depth, target[r])
    BY DEF Borrowing
  <2>2. Holder(frames', r, depth, target[r])
    BY <1>1, <1>3, <2>1, HolderLocal
  <2>3. ~ Lends(frames', depth + 1, r) /\ depth + 1 \in Nat \ {0}
        /\ (depth + 1) - 1 = depth
    BY <1>1, <1>2, <1>3 DEF Lends
  <2>4. Holder(frames', r, depth + 1, target[r])
           <=> Holder(frames', r, (depth + 1) - 1, target[r])
    BY <2>3, HolderSkips
  <2> QED BY <2>2, <2>3, <2>4
<1>8. ASSUME NEW l \in 1 .. depth + 1, Swapped(frames'[l])
      PROVE  Holder(frames', frames'[l].manager, l - 1, frames'[l].saved)
  <2>1. l \in 1 .. depth
    BY <1>2, <1>3, <1>5, <1>8
  <2>2. frames'[l] = frames[l] /\ l - 1 \in Nat
    BY <1>3, <2>1
  <2>3. Holder(frames, frames[l].manager, l - 1, frames[l].saved)
    BY <1>8, <2>1, <2>2 DEF Borrowing
  <2>4. \A k \in 1 .. l - 1 : frames[k] = frames'[k]
    BY <1>1, <1>3, <2>1
  <2> QED BY <2>2, <2>3, <2>4, HolderLocal
<1> QED BY <1>1, <1>6, <1>7, <1>8 DEF Borrowing

-----------------------------------------------------------------------------
(***************************************************************************)
(* The inductive invariant.                                                *)
(***************************************************************************)
LEMMA StackInit == Init => StackInv
<1> SUFFICES ASSUME Init PROVE StackInv
  OBVIOUS
<1>1. 1 .. depth = {} /\ depth \in 0 .. MaxDepth
  BY CrewAssumption DEF Init
<1>2. NoFrame \in Frame
  BY DEF NoFrame, Frame
<1>3. Shape
  <2>1. cur \in Runs /\ cached = NoRun
    BY CrewAssumption DEF Init, Runs
  <2>2. target \in [Runs -> Owners] /\ frames \in [Levels -> Frame]
    BY <1>2 DEF Init, Owners
  <2>3. states = [o \in Owners |-> states[o]]
    BY DEF Init
  <2> QED BY <1>1, <2>1, <2>2, <2>3 DEF Shape
<1>4. Borrowing
  BY <1>1 DEF Init, Borrowing, Holder
<1> QED BY <1>3, <1>4 DEF StackInv

\* Steps of the application between, or inside, wrapped steps.
LEMMA StackApplication ==
    ASSUME StackInv,
           \/ \E r \in TestInputs : RecordTestResults(r)
           \/ \E v \in SchemaInputs : RecordSchemaValid(v)
           \/ Reset
    PROVE  StackInv'
<1>1. /\ states' = [o \in Owners |-> states'[o]]
      /\ cur' \in Runs /\ cached' \in Runs \cup {NoRun}
      /\ UNCHANGED <<target, depth, frames>>
  BY CrewAssumption
     DEF StackInv, Shape, RecordTestResults, RecordSchemaValid, Reset, Runs
<1> QED BY <1>1 DEF StackInv, Shape, Borrowing, Holder, Lends, Swapped

LEMMA StackStep == StackInv /\ [Next]_vars => StackInv'
<1> SUFFICES ASSUME StackInv, [Next]_vars PROVE StackInv'
  OBVIOUS
<1>1. states = [o \in Owners |-> states[o]]
  BY DEF StackInv, Shape
<1>2. KeepGuard => /\ states' = [o \in Owners |-> states'[o]]
                   /\ UNCHANGED <<cur, cached>>
  BY <1>1 DEF KeepGuard
<1>3. ASSUME depth > 0, KeepGuard, \E how, value : Ended(how, value)
      PROVE  StackInv'
  BY <1>2, <1>3, EndedKeeps
<1>4. ASSUME depth > 0, KeepGuard, Swapped(top),
             \E p \in {"prompt", "package", "invoke", "failopen"} : Goto(p)
      PROVE  StackInv'
  BY <1>2, <1>4, GotoKeeps
<1>5. CASE \/ \E r \in TestInputs : RecordTestResults(r)
           \/ \E v \in SchemaInputs : RecordSchemaValid(v)
           \/ Reset
  BY <1>5, StackApplication
<1>6. CASE \E a \in Agents : Begin(a)
  BY <1>6, BeginKeeps
<1>7. CASE OriginalReturns
  <2>1. top.agent \in Agents
    BY <1>7, TopShape DEF StackInv, OriginalReturns, In
  <2>2. PICK v \in OutputsOf[top.agent] : Recorded(v, None)
    BY <1>7 DEF OriginalReturns
  <2>3. v \in Outputs
    BY <2>1, <2>2, CrewAssumption
  <2> QED BY <1>7, <2>2, <2>3, RecordedKeeps DEF OriginalReturns
<1>8. CASE OriginalRaises
  BY <1>8, RecordedKeeps DEF OriginalRaises, AgentErrors
<1>9. CASE Cancelled
  BY <1>3, <1>9 DEF Cancelled
<1>10. ASSUME NEW c \in CallbackResults, CallbackFails(c) PROVE StackInv'
  BY <1>3, <1>10 DEF CallbackFails, In
<1>11. ASSUME NEW c \in CallbackResults, NoTrigger(c) PROVE StackInv'
  BY <1>3, <1>11 DEF NoTrigger, In
<1>12. ASSUME NEW c \in CallbackResults, Triggered(c) PROVE StackInv'
  BY <1>12, SwappingKeeps DEF Triggered, KeepGuard
<1>13. CASE Capped
  BY <1>3, <1>13 DEF Capped, In
<1>14. CASE Admitted
  BY <1>3, <1>4, <1>14 DEF Admitted, In, Swapped
<1>15. CASE Approved
  BY <1>4, <1>15 DEF Approved, In, Swapped
<1>16. CASE Declined
  BY <1>3, <1>16 DEF Declined, In
<1>17. CASE PromptFails
  BY <1>3, <1>17 DEF PromptFails, In
<1>18. CASE Invoke
  BY <1>4, <1>18 DEF Invoke, In, Swapped
<1>19. CASE ModelAnswers
  <2>1. /\ states' = [o \in Owners |-> states'[o]]
        /\ UNCHANGED <<cur, cached>>
        /\ depth > 0 /\ Swapped(top)
    BY <1>1, <1>19 DEF ModelAnswers, In, Swapped
  <2>2. CASE Ended("returned", Advice)
    BY <2>1, <2>2, EndedKeeps
  <2>3. CASE Goto("failopen")
    BY <2>1, <2>3, GotoKeeps
  <2> QED BY <1>19, <2>2, <2>3 DEF ModelAnswers
<1>20. CASE ModelFails
  BY <1>4, <1>20 DEF ModelFails, In, Swapped
<1>21. CASE FailOpen
  BY <1>3, <1>21 DEF FailOpen, In
<1>22. CASE UNCHANGED vars
  BY <1>22 DEF vars, StackInv, Shape, Borrowing, Holder, Lends, Swapped
<1> QED
  BY <1>5, <1>6, <1>7, <1>8, <1>9, <1>10, <1>11, <1>12, <1>13, <1>14, <1>15,
     <1>16, <1>17, <1>18, <1>19, <1>20, <1>21, <1>22 DEF Next

\* The invariant of the stack holds for ever.
THEOREM StackCorrect == Spec => []StackInv
<1>1. Init => StackInv
  BY StackInit
<1>2. StackInv /\ [Next]_vars => StackInv'
  BY StackStep
<1> QED BY <1>1, <1>2, PTL DEF Spec

-----------------------------------------------------------------------------
(***************************************************************************)
(* However a borrowing step ends, also when steps nest or a reset brings   *)
(* in another manager, the manager has its own state back when the last    *)
(* step that borrowed it is over (crewai.py:215-222).                      *)
(***************************************************************************)
THEOREM ManagerComesHome == Spec => []ManagerAtHome
<1>1. ASSUME StackInv PROVE ManagerAtHome
  <2>1. ASSUME NEW r \in Runs,
               \A l \in 1 .. depth : Swapped(frames[l]) => frames[l].manager # r
        PROVE  target[r] = r
    <3>1. Holder(frames, r, depth, target[r]) /\ depth \in Nat
      BY <1>1 DEF StackInv, Shape, Borrowing
    <3>2. \A k \in 1 .. depth : ~ Lends(frames, k, r)
      BY <2>1 DEF Lends
    <3> QED BY <3>1, <3>2, HolderHome
  <2> QED BY <2>1 DEF ManagerAtHome
<1> QED BY <1>1, StackCorrect, PTL

LEMMA TopHasOwn ==
    ASSUME StackInv, depth > 0, Swapped(top) PROVE target[top.manager] = top.agent
<1>1. Shape
  BY DEF StackInv
<1>2. /\ depth \in Levels /\ top = frames[depth] /\ top.manager \in Runs
      /\ depth \in Nat \ {0}
  BY <1>1, TopShape DEF Swapped, Levels
<1>3. Lends(frames, depth, top.manager)
  BY <1>2 DEF Lends
<1>4. Holder(frames, top.manager, depth, target[top.manager])
  BY <1>2 DEF StackInv, Borrowing
<1> QED BY <1>2, <1>3, <1>4, HolderTop

(***************************************************************************)
(* Whatever nests in whatever, the innermost escalation works on the state *)
(* of the agent whose step it is (crewai.py:209-218).                      *)
(***************************************************************************)
THEOREM EscalationOnOwnAgent == Spec => []EscalatesOwnAgent
<1>1. StackInv => EscalatesOwnAgent
  BY TopHasOwn DEF EscalatesOwnAgent, Lent
<1> QED BY <1>1, StackCorrect, PTL

(***************************************************************************)
(* An agent's history and count change by that agent's own steps only: no  *)
(* other agent's escalation reaches them, and no call of the guard.  So it *)
(* is that reset() never clears an agent, and ResetClearsAgents, which the *)
(* documentation promises, does not hold (guard.py:133-157, crewai.py:142).*)
(***************************************************************************)
AgentChangesByOwnStepsOnly ==
    [][ \A a \in Agents :
          states'[a] # states[a] =>
             \/ states[a] = None /\ states'[a] = NewState
             \/ depth > 0 /\ top.agent = a ]_vars

THEOREM OnlyOwnSteps == Spec => AgentChangesByOwnStepsOnly
<1> DEFINE Own(a) == \/ states[a] = None /\ states'[a] = NewState
                     \/ depth > 0 /\ top.agent = a
           A == \A a \in Agents : states'[a] # states[a] => Own(a)
<1>1. ASSUME StackInv, [Next]_vars, NEW a \in Agents, states'[a] # states[a]
      PROVE  Own(a)
  <2>1. /\ states = [o \in Owners |-> states[o]] /\ a \in Owners
        /\ cur \in Runs /\ a \notin Runs
    BY <1>1, CrewAssumption DEF StackInv, Shape, Owners
  <2>2. ~ KeepGuard /\ ~ UNCHANGED vars
    BY <1>1 DEF KeepGuard, vars
  <2>3. CASE \E r \in TestInputs : RecordTestResults(r)
    BY <1>1, <2>1, <2>3 DEF RecordTestResults
  <2>4. CASE \E v \in SchemaInputs : RecordSchemaValid(v)
    BY <1>1, <2>1, <2>4 DEF RecordSchemaValid
  <2>5. CASE Reset
    BY <1>1, <2>1, <2>5, CrewAssumption DEF Reset, Runs
  <2>6. CASE \E b \in Agents : Begin(b)
    BY <1>1, <2>1, <2>6 DEF Begin
  <2>7. CASE OriginalReturns \/ OriginalRaises
    <3>1. /\ depth > 0
          /\ \E s : states' = [states EXCEPT ![top.agent].steps = s]
      BY <2>7 DEF OriginalReturns, OriginalRaises, Recorded, In
    <3> QED BY <1>1, <2>1, <3>1
  <2>8. CASE ModelAnswers
    <3>1. depth > 0 /\ Lent = top.agent
      BY <1>1, <2>8, TopHasOwn DEF ModelAnswers, In, Swapped, Lent
    <3>2. \E n : states' = [states EXCEPT ![Lent].escalations = n]
      BY <2>8 DEF ModelAnswers
    <3> QED BY <1>1, <2>1, <3>1, <3>2
  <2> QED
    BY <1>1, <2>2, <2>3, <2>4, <2>5, <2>6, <2>7, <2>8
       DEF Next, Cancelled, CallbackFails, NoTrigger, Triggered, Capped,
           Admitted, Approved, Declined, PromptFails, Invoke, ModelFails,
           FailOpen
<1>2. StackInv /\ [Next]_vars => [A]_vars
  BY <1>1
<1> QED BY <1>2, StackCorrect, PTL DEF Spec, AgentChangesByOwnStepsOnly

-----------------------------------------------------------------------------
(***************************************************************************)
(* What the histories, the frames and the outcome hold.                    *)
(***************************************************************************)
OwnOutputs(a) == OutputsOf[a] \cup {None}

OwnStep(a) == {s \in StepRecord : s.output \in OwnOutputs(a)}

AgentState(a) ==
    {s \in [steps : Seq(OwnStep(a)), escalations : Nat] :
        Len(s.steps) <= MaxHistory}

DataInv ==
    /\ \A r \in Runs : states[r] = NewState
    /\ \A a \in Agents : states[a] # None => states[a] \in AgentState(a)
    /\ pending \in [tests : TestInputs \cup {None}, schema : BOOLEAN \cup {None}]
    /\ \A l \in 1 .. depth :
          /\ states[frames[l].agent] \in AgentState(frames[l].agent)
          /\ frames[l].output \in OwnOutputs(frames[l].agent)
    /\ outcome \in Outcome
    /\ outcome.value \in Outputs => outcome.value \in OutputsOf[outcome.agent]

\* The states may change, but each agent's is still one of its own.
StatesKept ==
    /\ \A r \in Runs : states'[r] = NewState
    /\ \A a \in Agents :
          /\ states'[a] # None => states'[a] \in AgentState(a)
          /\ states[a] \in AgentState(a) => states'[a] \in AgentState(a)

\* add_step returns a list over the same set, within the bound.
LEMMA AddStepWithin ==
    ASSUME NEW R, NEW s \in Seq(R), NEW r \in R, Len(s) <= MaxHistory
    PROVE  AddStep(s, r) \in Seq(R) /\ Len(AddStep(s, r)) <= MaxHistory
<1> DEFINE longer == Append(s, r)
<1>1. longer \in Seq(R) /\ Len(longer) = Len(s) + 1 /\ Len(s) \in Nat
  BY AppendProperties, LenProperties
<1>2. CASE Len(longer) > MaxHistory
  <2>1. Len(s) = MaxHistory
    BY <1>1, <1>2, HistoryAssumption
  <2>2. 2 \in 1 .. Len(longer) + 1 /\ Len(longer) - MaxHistory + 1 = 2
        /\ Len(longer) - 2 + 1 = MaxHistory /\ Len(longer) \in 2 - 1 .. Len(longer)
    BY <1>1, <2>1, HistoryAssumption
  <2>3. /\ SubSeq(longer, 2, Len(longer)) \in Seq(R)
        /\ Len(SubSeq(longer, 2, Len(longer))) = MaxHistory
    BY <1>1, <2>2, SubSeqProperties, HistoryAssumption
  <2> QED BY <1>2, <2>2, <2>3, HistoryAssumption DEF AddStep
<1>3. CASE ~ (Len(longer) > MaxHistory)
  BY <1>1, <1>3, HistoryAssumption DEF AddStep
<1> QED BY <1>2, <1>3

\* What is read off the last step of a history is the agent's own.
LEMMA LastIsOwn ==
    ASSUME NEW a \in Agents, NEW s \in Seq(OwnStep(a))
    PROVE  LastOutput(s) \in OwnOutputs(a) /\ LastError(s) \in Errors \cup {None}
<1>1. CASE s = <<>>
  BY <1>1 DEF LastOutput, LastError, OwnOutputs
<1>2. CASE s # <<>>
  <2>1. s[Len(s)] \in OwnStep(a)
    BY <1>2, EmptySeq, LenProperties, ElementOfSeq
  <2> QED BY <1>2, <2>1 DEF LastOutput, LastError, OwnStep, StepRecord
<1> QED BY <1>1, <1>2

\* The innermost step ends with something of its own, of the guard or of the
\* model.
LEMMA DataEnded ==
    ASSUME Shape, DataInv, depth > 0, StatesKept, UNCHANGED pending,
           NEW how \in {"returned", "raised", "cancelled"},
           NEW value \in OwnOutputs(top.agent) \cup Errors \cup {Advice, Sentinel},
           Ended(how, value)
    PROVE  DataInv'
<1>1. /\ depth \in Levels /\ depth - 1 \in 0 .. MaxDepth /\ top.agent \in Agents
      /\ depth' = depth - 1 /\ frames' = [frames EXCEPT ![depth] = NoFrame]
      /\ outcome' = [agent |-> top.agent, how |-> how, value |-> value]
  BY TopShape DEF Ended
<1>2. \A l \in 1 .. depth' : l \in 1 .. depth /\ frames'[l] = frames[l]
  BY <1>1 DEF Shape, Levels
<1>3. \A l \in 1 .. depth' :
         /\ states'[frames'[l].agent] \in AgentState(frames'[l].agent)
         /\ frames'[l].output \in OwnOutputs(frames'[l].agent)
  BY <1>2 DEF DataInv, StatesKept, Shape
<1>4. value \in Outputs => value \in OutputsOf[top.agent]
  BY CrewAssumption DEF OwnOutputs
<1>5. outcome' \in Outcome
  BY <1>1, CrewAssumption DEF Outcome, OwnOutputs
<1>6. outcome'.value \in Outputs => outcome'.value \in OutputsOf[outcome'.agent]
  BY <1>1, <1>4
<1> QED BY <1>3, <1>5, <1>6 DEF DataInv, StatesKept

\* The innermost step goes on, with an output of its own.
LEMMA DataTop ==
    ASSUME Shape, DataInv, depth > 0, StatesKept, UNCHANGED <<depth, outcome>>,
           pending' \in [tests : TestInputs \cup {None},
                         schema : BOOLEAN \cup {None}],
           NEW f, frames' = [frames EXCEPT ![depth] = f],
           f.agent = top.agent, f.output \in OwnOutputs(top.agent)
    PROVE  DataInv'
<1>1. depth \in Levels /\ depth \in 1 .. depth /\ top = frames[depth]
      /\ top.agent \in Agents
  BY TopShape
<1>2. \A l \in 1 .. depth :
         /\ l \in Levels /\ frames'[l].agent = frames[l].agent
         /\ l # depth => frames'[l] = frames[l]
         /\ l = depth => frames'[l] = f
  BY <1>1, CrewAssumption DEF Shape, Levels
<1>3. \A l \in 1 .. depth :
         /\ states'[frames'[l].agent] \in AgentState(frames'[l].agent)
         /\ frames'[l].output \in OwnOutputs(frames'[l].agent)
  BY <1>1, <1>2 DEF DataInv, StatesKept, Shape
<1> QED BY <1>3 DEF DataInv, StatesKept

\* The frame whose phase is set keeps agent and output.
LEMMA DataGoto ==
    ASSUME Shape, DataInv, depth > 0, StatesKept, UNCHANGED pending,
           NEW phase, Goto(phase)
    PROVE  DataInv'
<1> DEFINE f == [top EXCEPT !.phase = phase]
<1>1. /\ top = frames[depth] /\ depth \in Levels /\ top \in Frame
      /\ depth \in 1 .. depth
  BY TopShape
<1>2. f.agent = top.agent /\ f.output = top.output
  BY <1>1 DEF Frame
<1>3. frames' = [frames EXCEPT ![depth] = f] /\ UNCHANGED <<depth, outcome>>
  BY <1>1 DEF Goto
<1>4. top.output \in OwnOutputs(top.agent)
  BY <1>1 DEF DataInv
<1>5. pending' \in [tests : TestInputs \cup {None}, schema : BOOLEAN \cup {None}]
  BY DEF DataInv
<1> HIDE DEF f
<1> QED BY <1>2, <1>3, <1>4, <1>5, DataTop

-----------------------------------------------------------------------------
LEMMA DataInit == Init => DataInv
<1> SUFFICES ASSUME Init PROVE DataInv
  OBVIOUS
<1>1. /\ \A r \in Runs : states[r] = NewState
      /\ \A a \in Agents : states[a] = None
  BY CrewAssumption DEF Init, Owners
<1>2. 1 .. depth = {}
  BY DEF Init
<1>3. pending \in [tests : TestInputs \cup {None}, schema : BOOLEAN \cup {None}]
  BY DEF Init, NoPending
<1>4. outcome \in Outcome /\ outcome.value \notin Outputs
  BY CrewAssumption DEF Init, NoOutcome, Outcome
<1> QED BY <1>1, <1>2, <1>3, <1>4 DEF DataInv

\* The guard's own history stays empty, so there is nothing to patch.
LEMMA DataApplication ==
    ASSUME Shape, DataInv,
           \/ \E r \in TestInputs : RecordTestResults(r)
           \/ \E v \in SchemaInputs : RecordSchemaValid(v)
           \/ Reset
    PROVE  DataInv'
<1>1. /\ cur \in Runs /\ cur \in Owners /\ states = [o \in Owners |-> states[o]]
      /\ \A a \in Agents : a \notin Runs /\ a \in Owners
      /\ Runs \subseteq Owners
  BY CrewAssumption DEF Shape, Owners
<1>2. states[cur] = NewState /\ NewState.steps = <<>>
  BY <1>1 DEF DataInv, NewState
<1>3. /\ \A r \in Runs : states'[r] = NewState
      /\ \A a \in Agents : states'[a] = states[a]
      /\ pending' \in [tests : TestInputs \cup {None},
                       schema : BOOLEAN \cup {None}]
      /\ UNCHANGED <<depth, frames, outcome>>
  <2>1. CASE \E r \in TestInputs : RecordTestResults(r)
    <3>1. states' = [states EXCEPT ![cur].steps = <<>>]
      BY <1>1, <1>2, <2>1 DEF RecordTestResults, PatchTests
    <3>2. states'[cur] = NewState
      BY <1>1, <1>2, <3>1 DEF NewState
    <3> QED BY <1>1, <2>1, <3>1, <3>2 DEF RecordTestResults, DataInv
  <2>2. CASE \E v \in SchemaInputs : RecordSchemaValid(v)
    <3>1. states' = [states EXCEPT ![cur].steps = <<>>]
      BY <1>1, <1>2, <2>2 DEF RecordSchemaValid, PatchSchema
    <3>2. states'[cur] = NewState
      BY <1>1, <1>2, <3>1 DEF NewState
    <3> QED BY <1>1, <2>2, <3>1, <3>2, CrewAssumption DEF RecordSchemaValid, DataInv
  <2>3. CASE Reset
    <3>1. cur + 1 \in Runs /\ states' = [states EXCEPT ![cur + 1] = NewState]
      BY <1>1, <2>3, CrewAssumption DEF Reset, Runs
    <3> QED BY <1>1, <2>3, <3>1 DEF Reset, NoPending, DataInv
  <2> QED BY <2>1, <2>2, <2>3
<1>4. \A l \in 1 .. depth : frames[l].agent \in Agents
  BY DEF Shape
<1> QED BY <1>3, <1>4 DEF DataInv

\* A new agent starts with an empty history.
LEMMA DataBegin ==
    ASSUME Shape, DataInv, NEW a \in Agents, Begin(a)
    PROVE  DataInv'
<1> DEFINE f == [NoFrame EXCEPT !.phase = "body", !.agent = a]
<1>1. /\ depth \in Nat /\ depth' = depth + 1 /\ depth + 1 \in Levels
      /\ frames' = [frames EXCEPT ![depth + 1] = f] /\ pending' = pending
      /\ outcome' = NoOutcome
      /\ states' = [states EXCEPT ![a] = IF @ = None THEN NewState ELSE @]
  BY CrewAssumption DEF Begin, Shape, Levels
<1>2. f.agent = a /\ f.output = None
  BY DEF NoFrame
<1> HIDE DEF f
<1>3. /\ \A l \in 1 .. depth : frames'[l] = frames[l] /\ frames[l].agent \in Agents
      /\ frames'[depth + 1] = f
  BY <1>1 DEF Shape, Levels
<1>4. \A b \in Agents : b \in Owners /\ b \notin Runs
  BY CrewAssumption DEF Owners
<1>5. NewState \in AgentState(a)
  <2>1. <<>> \in Seq(OwnStep(a)) /\ Len(<<>>) = 0
    BY EmptySeq
  <2> QED BY <2>1, HistoryAssumption DEF NewState, AgentState
<1>6. states'[a] \in AgentState(a) /\ \A o \in Owners : o # a => states'[o] = states[o]
  BY <1>1, <1>4, <1>5 DEF DataInv, Shape
<1>7. \A l \in 1 .. depth + 1 : l \in 1 .. depth \/ l = depth + 1
  BY <1>1
<1>8. \A l \in 1 .. depth' :
         /\ states'[frames'[l].agent] \in AgentState(frames'[l].agent)
         /\ frames'[l].output \in OwnOutputs(frames'[l].agent)
  BY <1>1, <1>2, <1>3, <1>4, <1>6, <1>7 DEF DataInv, OwnOutputs
<1>9. outcome' \in Outcome /\ outcome'.value \notin Outputs
  BY <1>1, CrewAssumption DEF NoOutcome, Outcome
<1>10. \A r \in Runs : states'[r] = NewState
  BY <1>4, <1>6 DEF DataInv, Owners
<1>11. \A b \in Agents : states'[b] # None => states'[b] \in AgentState(b)
  BY <1>4, <1>6 DEF DataInv
<1> QED BY <1>1, <1>8, <1>9, <1>10, <1>11 DEF DataInv

\* The step goes to the history of its own agent.
LEMMA DataRecorded ==
    ASSUME Shape, DataInv, depth > 0, NEW output \in OwnOutputs(top.agent),
           NEW error \in Errors \cup {None}, Recorded(output, error)
    PROVE  DataInv'
<1> DEFINE a == top.agent
           record == [num |-> Len(states[a].steps), output |-> output,
                      error |-> error, tests |-> pending.tests,
                      schema |-> pending.schema]
           mgr == IF cached = NoRun THEN cur ELSE cached
           f == [top EXCEPT !.phase = "resolve", !.manager = mgr,
                            !.output = output, !.error = error]
<1>1. /\ top = frames[depth] /\ depth \in 1 .. depth /\ top \in Frame
      /\ a \in Agents /\ a \in Owners
      /\ \A b \in Agents : b \in Owners /\ b \notin Runs
      /\ Runs \subseteq Owners
  BY TopShape, CrewAssumption DEF Owners
<1>2. states[a] \in AgentState(a)
  BY <1>1 DEF DataInv
<1>3. /\ states[a].steps \in Seq(OwnStep(a)) /\ Len(states[a].steps) <= MaxHistory
      /\ Len(states[a].steps) \in Nat
  BY <1>2, LenProperties DEF AgentState
<1>4. record \in OwnStep(a)
  BY <1>1, <1>3, CrewAssumption DEF OwnStep, StepRecord, DataInv, OwnOutputs
<1>5. /\ states' = [states EXCEPT ![a].steps = AddStep(@, record)]
      /\ pending' = NoPending /\ UNCHANGED <<depth, outcome>>
      /\ frames' = [frames EXCEPT ![depth] = f]
  BY <1>1 DEF Recorded
<1>6. f.agent = a /\ f.output = output
  BY <1>1 DEF Frame
<1> HIDE DEF record, f
<1>7. /\ AddStep(states[a].steps, record) \in Seq(OwnStep(a))
      /\ Len(AddStep(states[a].steps, record)) <= MaxHistory
  BY <1>3, <1>4, AddStepWithin
<1>8. states'[a] \in AgentState(a)
  BY <1>1, <1>2, <1>5, <1>7 DEF AgentState, Shape
<1>9. \A o \in Owners : o # a => states'[o] = states[o]
  BY <1>5 DEF Shape
<1>10. StatesKept
  BY <1>1, <1>8, <1>9 DEF StatesKept, DataInv
<1>11. pending' \in [tests : TestInputs \cup {None}, schema : BOOLEAN \cup {None}]
  BY <1>5 DEF NoPending
<1> QED BY <1>5, <1>6, <1>10, <1>11, DataTop

\* The count goes to the state the manager works on, which is the agent's.
LEMMA DataAnswered ==
    ASSUME StackInv, DataInv, ModelAnswers
    PROVE  DataInv'
<1> DEFINE a == top.agent
<1>1. Shape /\ depth > 0 /\ Swapped(top) /\ Lent = a /\ UNCHANGED pending
      /\ states' = [states EXCEPT ![a].escalations = @ + 1]
  BY TopHasOwn DEF StackInv, ModelAnswers, In, Swapped, Lent
<1>2. /\ top = frames[depth] /\ depth \in 1 .. depth
      /\ a \in Agents /\ a \in Owners
      /\ \A b \in Agents : b \in Owners /\ b \notin Runs
      /\ Runs \subseteq Owners
  BY <1>1, TopShape, CrewAssumption DEF Owners
<1>3. states[a] \in AgentState(a)
  BY <1>2 DEF DataInv
<1>4. states'[a] \in AgentState(a)
  BY <1>1, <1>2, <1>3 DEF AgentState, Shape
<1>5. \A o \in Owners : o # a => states'[o] = states[o]
  BY <1>1 DEF Shape
<1>6. StatesKept
  BY <1>2, <1>4, <1>5 DEF StatesKept, DataInv
<1>7. CASE Ended("returned", Advice)
  BY <1>1, <1>6, <1>7, DataEnded
<1>8. CASE Goto("failopen")
  BY <1>1, <1>6, <1>8, DataGoto
<1> QED BY <1>7, <1>8 DEF ModelAnswers

LEMMA DataStep == StackInv /\ DataInv /\ [Next]_vars => DataInv'
<1> SUFFICES ASSUME StackInv, DataInv, [Next]_vars PROVE DataInv'
  OBVIOUS
<1>1. Shape
  BY DEF StackInv
<1>2. KeepGuard => StatesKept /\ UNCHANGED pending
  BY DEF KeepGuard, StatesKept, DataInv
<1>3. ASSUME depth > 0, KeepGuard,
             NEW value \in OwnOutputs(top.agent) \cup Errors \cup {Advice, Sentinel},
             \E how \in {"returned", "raised", "cancelled"} : Ended(how, value)
      PROVE  DataInv'
  BY <1>1, <1>2, <1>3, DataEnded
<1>4. ASSUME depth > 0, KeepGuard, \E phase : Goto(phase) PROVE DataInv'
  BY <1>1, <1>2, <1>4, DataGoto
<1>5. ASSUME depth > 0, Swapped(top)
      PROVE  /\ LastOutput(Managed.steps) \in OwnOutputs(top.agent)
             /\ OriginalError \in Errors
  <2>1. top.agent \in Agents /\ depth \in 1 .. depth /\ top = frames[depth]
    BY <1>1, <1>5, TopShape
  <2>2. Lent = top.agent
    BY <1>5, TopHasOwn DEF Lent
  <2>3. Managed.steps \in Seq(OwnStep(top.agent))
    BY <2>1, <2>2 DEF DataInv, AgentState, Managed
  <2> QED
    BY <2>1, <2>3, LastIsOwn, CrewAssumption DEF OriginalError, GuardErrors
<1>6. /\ "TriggerError" \in Errors /\ "HookError" \in Errors
      /\ "ContextError" \in Errors /\ "PromptError" \in Errors
      /\ None \in OwnOutputs(top.agent)
  BY CrewAssumption DEF GuardErrors, OwnOutputs
<1>7. CASE \/ \E r \in TestInputs : RecordTestResults(r)
           \/ \E v \in SchemaInputs : RecordSchemaValid(v)
           \/ Reset
  BY <1>1, <1>7, DataApplication
<1>8. CASE \E a \in Agents : Begin(a)
  BY <1>1, <1>8, DataBegin
<1>9. CASE OriginalReturns
  BY <1>1, <1>9, DataRecorded DEF OriginalReturns, In, OwnOutputs
<1>10. CASE OriginalRaises
  BY <1>1, <1>10, DataRecorded DEF OriginalRaises, In, OwnOutputs, AgentErrors
<1>11. CASE Cancelled
  BY <1>3, <1>6, <1>11 DEF Cancelled
<1>12. ASSUME NEW c \in CallbackResults, CallbackFails(c) PROVE DataInv'
  BY <1>3, <1>6, <1>12 DEF CallbackFails, In
<1>13. ASSUME NEW c \in CallbackResults, NoTrigger(c) PROVE DataInv'
  <2>1. /\ depth > 0 /\ top.output \in OwnOutputs(top.agent)
        /\ top.error \in Errors \cup {None}
    BY <1>1, <1>13, TopShape DEF NoTrigger, In, DataInv, Frame
  <2> QED BY <1>3, <1>13, <2>1 DEF NoTrigger
<1>14. ASSUME NEW c \in CallbackResults, Triggered(c) PROVE DataInv'
  <2> DEFINE f == [top EXCEPT !.phase = "escalate",
                              !.saved = target[top.manager],
                              !.output = None, !.error = None]
  <2>1. /\ depth > 0 /\ top = frames[depth] /\ top \in Frame
        /\ frames' = [frames EXCEPT ![depth] = f]
        /\ KeepGuard /\ UNCHANGED <<depth, outcome>>
    BY <1>1, <1>14, TopShape DEF Triggered, Swapping, In
  <2>2. f.agent = top.agent /\ f.output = None
    BY <2>1 DEF Frame
  <2>3. pending' \in [tests : TestInputs \cup {None}, schema : BOOLEAN \cup {None}]
    BY <1>2, <2>1 DEF DataInv
  <2> HIDE DEF f
  <2> QED BY <1>1, <1>2, <1>6, <2>1, <2>2, <2>3, DataTop
<1>15. CASE Capped
  BY <1>3, <1>5, <1>6, <1>15 DEF Capped, In, Swapped
<1>16. CASE Admitted
  BY <1>3, <1>4, <1>6, <1>16 DEF Admitted, In
<1>17. CASE Approved
  BY <1>4, <1>17 DEF Approved, In
<1>18. CASE Declined
  BY <1>3, <1>5, <1>18 DEF Declined, In, Swapped
<1>19. CASE PromptFails
  BY <1>3, <1>6, <1>19 DEF PromptFails, In
<1>20. CASE Invoke
  BY <1>4, <1>20 DEF Invoke, In
<1>21. CASE ModelAnswers
  BY <1>21, DataAnswered
<1>22. CASE ModelFails
  BY <1>4, <1>22 DEF ModelFails, In
<1>23. CASE FailOpen
  BY <1>3, <1>5, <1>6, <1>23 DEF FailOpen, In, Swapped
<1>24. CASE UNCHANGED vars
  BY <1>24 DEF vars, DataInv
<1> QED
  BY <1>7, <1>8, <1>9, <1>10, <1>11, <1>12, <1>13, <1>14, <1>15, <1>16, <1>17,
     <1>18, <1>19, <1>20, <1>21, <1>22, <1>23, <1>24 DEF Next

(***************************************************************************)
(* The histories of the agents, the frames in progress and the outcome     *)
(* hold what they should, for all time (crewai.py:161-190).                *)
(***************************************************************************)
THEOREM DataCorrect == Spec => [](StackInv /\ DataInv)
<1>1. Init => StackInv /\ DataInv
  BY StackInit, DataInit
<1>2. StackInv /\ DataInv /\ [Next]_vars => StackInv' /\ DataInv'
  BY StackStep, DataStep
<1> QED BY <1>1, <1>2, PTL DEF Spec

\* The state of an agent is a state object.
LEMMA AgentStateType ==
    ASSUME NEW a \in Agents
    PROVE  AgentState(a) \subseteq StateObject
<1>1. ASSUME NEW s \in Seq(OwnStep(a)) PROVE s \in Seq(StepRecord)
  <2>1. s \in [1 .. Len(s) -> OwnStep(a)] /\ Len(s) \in Nat
    BY LenProperties, ElementOfSeq
  <2>2. s \in [1 .. Len(s) -> StepRecord]
    BY <2>1 DEF OwnStep
  <2> QED BY <2>1, <2>2, SeqDef
<1> QED BY <1>1 DEF AgentState, StateObject

(***************************************************************************)
(* Every variable of the wrapper keeps its type, and every history its     *)
(* bound.                                                                  *)
(***************************************************************************)
THEOREM CrewTypeCorrect == Spec => []TypeOK
<1>1. ASSUME StackInv, DataInv PROVE TypeOK
  <2>2. NewState \in StateObject /\ Len(NewState.steps) <= MaxHistory
    BY EmptySeq, HistoryAssumption DEF NewState, StateObject
  <2>3. \A o \in Owners : /\ states[o] \in StateObject \cup {None}
                          /\ states[o] # None => Len(states[o].steps) <= MaxHistory
    BY <1>1, <2>2, AgentStateType DEF DataInv, AgentState, Owners
  <2>4. states \in [Owners -> StateObject \cup {None}]
    BY <1>1, <2>3 DEF StackInv, Shape
  <2> QED BY <1>1, <2>3, <2>4 DEF TypeOK, StackInv, Shape, DataInv
<1> QED BY <1>1, DataCorrect, PTL

(***************************************************************************)
(* Nothing crosses over between agents: the guard's own history is never   *)
(* used, and neither histories nor answers hold another agent's output,    *)
(* whichever way a step ends (crewai.py:78-84).                            *)
(***************************************************************************)
THEOREM NothingBleeds == Spec => []AgentsDontBleed
<1>1. ASSUME DataInv PROVE AgentsDontBleed
  <2>1. ASSUME NEW a \in Agents, states[a] # None, NEW i \in DOMAIN states[a].steps
        PROVE  states[a].steps[i].output \in OwnOutputs(a)
    <3>1. states[a].steps \in Seq(OwnStep(a))
      BY <1>1, <2>1 DEF DataInv, AgentState
    <3>2. states[a].steps[i] \in OwnStep(a)
      BY <2>1, <3>1, LenProperties, ElementOfSeq
    <3> QED BY <3>2 DEF OwnStep
  <2> QED BY <1>1, <2>1 DEF AgentsDontBleed, DataInv, OwnOutputs
<1> QED BY <1>1, DataCorrect, PTL

-----------------------------------------------------------------------------
(***************************************************************************)
(* The budget of an agent.  A level whose step has passed the check of the *)
(* cap and whose model has not answered may still add one to the count.    *)
(* The check leaves room for one, and there are no more levels than        *)
(* MaxDepth.                                                               *)
(***************************************************************************)
FlightPhases == {"prompt", "package", "invoke"}

LevelsOf(f, d, a) ==
    {l \in 1 .. d : f[l].agent = a /\ f[l].phase \in FlightPhases}

InFlight(a) == LevelsOf(frames, depth, a)

Ceiling == MaxEscalations + MaxDepth - 1

Covered(a) == states[a].escalations + Cardinality(InFlight(a)) <= Ceiling

CoverInv == \A a \in Agents : states[a] # None => Covered(a)

LEMMA FlightFinite ==
    ASSUME NEW f, NEW d \in 0 .. MaxDepth, NEW a
    PROVE  /\ IsFiniteSet(LevelsOf(f, d, a))
           /\ Cardinality(LevelsOf(f, d, a)) \in 0 .. MaxDepth
<1>1. d \in Nat /\ d <= MaxDepth /\ MaxDepth \in Nat
  BY CrewAssumption
<1>2. IsFiniteSet(1 .. d) /\ Cardinality(1 .. d) = d
  BY <1>1, FS_Interval
<1>3. LevelsOf(f, d, a) \subseteq 1 .. d
  BY DEF LevelsOf
<1>4. /\ IsFiniteSet(LevelsOf(f, d, a))
      /\ Cardinality(LevelsOf(f, d, a)) <= Cardinality(1 .. d)
  BY <1>2, <1>3, FS_Subset
<1> QED BY <1>1, <1>2, <1>4, FS_CardinalityType

\* Nothing is counted and no further level gets under way.
LEMMA CoveredKeeps ==
    ASSUME Shape, DataInv, NEW a \in Agents, states[a] # None, Covered(a),
           states'[a].escalations = states[a].escalations,
           InFlight(a)' \subseteq InFlight(a)
    PROVE  Covered(a)'
<1>1. /\ IsFiniteSet(InFlight(a))
      /\ Cardinality(InFlight(a)) \in Nat
  BY FlightFinite DEF Shape, InFlight
<1>2. /\ Cardinality(InFlight(a)') <= Cardinality(InFlight(a))
      /\ Cardinality(InFlight(a)') \in Nat
  BY <1>1, FS_Subset, FS_CardinalityType
<1>3. states[a].escalations \in Nat
  BY DEF DataInv, AgentState
<1>4. Ceiling \in Nat
  BY CrewAssumption DEF Ceiling
<1> QED BY <1>1, <1>2, <1>3, <1>4 DEF Covered, Ceiling

\* The levels under way after the innermost step has ended or gone on.
LEMMA FlightEnded ==
    ASSUME Shape, depth > 0, NEW how, NEW value, Ended(how, value), NEW a
    PROVE  InFlight(a)' \subseteq InFlight(a) \ {depth}
<1>1. /\ depth \in Levels /\ depth - 1 \in 0 .. MaxDepth /\ depth' = depth - 1
      /\ frames' = [frames EXCEPT ![depth] = NoFrame]
  BY TopShape DEF Ended
<1>2. \A k \in 1 .. depth - 1 : frames'[k] = frames[k] /\ k \in 1 .. depth
                                /\ k # depth
  BY <1>1 DEF Shape, Levels
<1> QED BY <1>1, <1>2 DEF InFlight, LevelsOf

LEMMA FlightTop ==
    ASSUME Shape, depth > 0, NEW f, frames' = [frames EXCEPT ![depth] = f],
           f.agent = top.agent, depth' = depth, NEW a
    PROVE  /\ f.phase \notin FlightPhases => InFlight(a)' \subseteq InFlight(a) \ {depth}
           /\ top.phase \in FlightPhases => InFlight(a)' \subseteq InFlight(a)
           /\ a # top.agent => InFlight(a)' = InFlight(a)
<1>1. depth \in Levels /\ depth \in 1 .. depth /\ top = frames[depth]
  BY TopShape
<1>2. \A k \in 1 .. depth : /\ k = depth => frames'[k] = f
                            /\ k # depth => frames'[k] = frames[k]
  BY <1>1, CrewAssumption DEF Shape, Levels
<1> QED BY <1>1, <1>2 DEF InFlight, LevelsOf

\* Wherever the innermost step goes to, its frame keeps the agent.
LEMMA FlightGoto ==
    ASSUME Shape, depth > 0, NEW phase, Goto(phase), NEW a
    PROVE  /\ phase \notin FlightPhases => InFlight(a)' \subseteq InFlight(a) \ {depth}
           /\ top.phase \in FlightPhases => InFlight(a)' \subseteq InFlight(a)
           /\ a # top.agent => InFlight(a)' = InFlight(a)
<1> DEFINE f == [top EXCEPT !.phase = phase]
<1>1. top = frames[depth] /\ depth \in Levels /\ top \in Frame
  BY TopShape
<1>2. f.agent = top.agent /\ f.phase = phase
  BY <1>1 DEF Frame
<1>3. frames' = [frames EXCEPT ![depth] = f] /\ depth' = depth
  BY <1>1 DEF Goto
<1> HIDE DEF f
<1> QED BY <1>2, <1>3, FlightTop

\* The check of the cap: an agent that has not reached it gets one more level
\* under way, and there are at most MaxDepth of them.
LEMMA CoverAdmitted ==
    ASSUME StackInv, DataInv, CoverInv, In("escalate"), ~ CapReached,
           NEW phase, Goto(phase), KeepGuard
    PROVE  CoverInv'
<1>1. Shape /\ depth > 0 /\ Swapped(top)
  BY DEF StackInv, In, Swapped
<1>2. Lent = top.agent
  BY <1>1, TopHasOwn DEF Lent
<1>3. /\ depth' = depth /\ depth \in 0 .. MaxDepth /\ states' = states
  BY <1>1 DEF Shape, Goto, KeepGuard
<1>4. SUFFICES ASSUME NEW a \in Agents, states[a] # None PROVE Covered(a)'
  BY <1>3 DEF CoverInv
<1>5. CASE a = top.agent
  <2>1. states[a].escalations \in Nat /\ states[a].escalations < MaxEscalations
    BY <1>2, <1>4, <1>5, CrewAssumption
    DEF CapReached, Managed, DataInv, AgentState
  <2>2. Cardinality(InFlight(a)') \in 0 .. MaxDepth
    BY <1>3, FlightFinite DEF InFlight
  <2> QED BY <1>3, <2>1, <2>2, CrewAssumption DEF Covered, Ceiling
<1>6. CASE a # top.agent
  <2>1. InFlight(a)' = InFlight(a)
    BY <1>1, <1>6, FlightGoto
  <2> QED BY <1>3, <1>4, <2>1 DEF CoverInv, Covered
<1> QED BY <1>5, <1>6

\* The model answers: what was under way is counted.
LEMMA CoverAnswered ==
    ASSUME StackInv, DataInv, CoverInv, ModelAnswers
    PROVE  CoverInv'
<1>a. PICK b : b = top.agent
  OBVIOUS
<1>1. /\ Shape /\ depth > 0 /\ Lent = b /\ top.phase = "invoke"
      /\ states' = [states EXCEPT ![b].escalations = @ + 1]
  BY <1>a, TopHasOwn DEF StackInv, ModelAnswers, In, Swapped, Lent
<1>2. /\ top = frames[depth] /\ depth \in 1 .. depth
      /\ depth \in 0 .. MaxDepth /\ b \in Agents /\ b \in Owners
  BY <1>a, <1>1, TopShape, CrewAssumption DEF Owners, Levels
<1>3. /\ states[b] \in AgentState(b)
      /\ states = [o \in Owners |-> states[o]]
  BY <1>a, <1>1, <1>2 DEF DataInv, Shape
<1>4. states[b] # None
  BY <1>2, <1>3, AgentStateType, CrewAssumption
<1>5. /\ states'[b].escalations = states[b].escalations + 1
      /\ states[b].escalations \in Nat
      /\ \A a \in Agents \ {b} : states'[a] = states[a]
  BY <1>1, <1>2, <1>3 DEF AgentState, Owners
<1>6. depth \in InFlight(b)
  BY <1>a, <1>1, <1>2 DEF InFlight, LevelsOf, FlightPhases
<1>7. \A a \in Agents : InFlight(a)' \subseteq InFlight(a) \ {depth}
  <2>1. "failopen" \notin FlightPhases
    BY DEF FlightPhases
  <2> QED BY <1>1, <2>1, FlightEnded, FlightGoto DEF ModelAnswers
<1>8. Covered(b)'
  <2>1. /\ IsFiniteSet(InFlight(b)) /\ Cardinality(InFlight(b)) \in Nat
    BY <1>2, FlightFinite DEF InFlight
  <2>2. Cardinality(InFlight(b) \ {depth}) = Cardinality(InFlight(b)) - 1
        /\ IsFiniteSet(InFlight(b) \ {depth})
    BY <1>6, <2>1, FS_RemoveElement
  <2>3. /\ Cardinality(InFlight(b)') <= Cardinality(InFlight(b)) - 1
        /\ Cardinality(InFlight(b)') \in Nat
    BY <1>2, <1>7, <2>2, FS_Subset, FS_CardinalityType
  <2>4. Covered(b) /\ Ceiling \in Nat
    BY <1>2, <1>4, CrewAssumption DEF CoverInv, Ceiling
  <2> QED BY <1>5, <2>1, <2>3, <2>4 DEF Covered, Ceiling
<1>9. ASSUME NEW a \in Agents, a # b, states[a] # None PROVE Covered(a)'
  <2>1. /\ Covered(a) /\ states'[a] = states[a]
        /\ InFlight(a)' \subseteq InFlight(a)
    BY <1>5, <1>7, <1>9 DEF CoverInv
  <2> QED BY <1>1, <1>9, <2>1, CoveredKeeps
<1> QED BY <1>5, <1>8, <1>9 DEF CoverInv

\* Every other step leaves the counts alone and no level more under way.
LEMMA CoverKept ==
    ASSUME Shape, DataInv, CoverInv,
           \A a \in Agents : InFlight(a)' \subseteq InFlight(a),
           \A a \in Agents : /\ states'[a] # None => states[a] # None
                             /\ states[a] # None =>
                                  states'[a].escalations = states[a].escalations
    PROVE  CoverInv'
BY CoveredKeeps DEF CoverInv

\* A new level is not under way; a new agent has all of its budget.
LEMMA CoverBegun ==
    ASSUME StackInv, DataInv, CoverInv, NEW b \in Agents, Begin(b)
    PROVE  CoverInv'
<1>1. /\ Shape /\ depth \in Nat /\ depth' = depth + 1 /\ depth + 1 \in Levels
      /\ depth' \in 0 .. MaxDepth
      /\ frames'[depth + 1].phase \notin FlightPhases
      /\ \A l \in 1 .. depth : frames'[l] = frames[l]
  BY CrewAssumption
  DEF StackInv, Begin, Shape, Levels, NoFrame, FlightPhases
<1>2. \A l \in 1 .. depth + 1 : l \in 1 .. depth \/ l = depth + 1
  BY <1>1
<1>3. \A a \in Agents : InFlight(a)' \subseteq InFlight(a)
  BY <1>1, <1>2 DEF InFlight, LevelsOf
<1>4. SUFFICES ASSUME NEW a \in Agents, states'[a] # None PROVE Covered(a)'
  BY DEF CoverInv
<1>5. a \in Owners /\ b \in Owners /\ states = [o \in Owners |-> states[o]]
  BY <1>1 DEF Owners, Shape
<1>6. CASE states[a] = None
  <2>1. states'[a] = NewState
    BY <1>4, <1>5, <1>6 DEF Begin
  <2>2. Cardinality(InFlight(a)') \in 0 .. MaxDepth
    BY <1>1, FlightFinite DEF InFlight
  <2> QED BY <2>1, <2>2, CrewAssumption DEF Covered, Ceiling, NewState
<1>7. CASE states[a] # None
  <2>1. states'[a] = states[a]
    BY <1>5, <1>7 DEF Begin
  <2> QED BY <1>1, <1>3, <1>7, <2>1, CoveredKeeps DEF CoverInv
<1> QED BY <1>6, <1>7

\* The guard's own methods do not reach the agents.
LEMMA AgentsUntouched ==
    ASSUME Shape,
           \/ \E r \in TestInputs : RecordTestResults(r)
           \/ \E v \in SchemaInputs : RecordSchemaValid(v)
           \/ Reset
    PROVE  /\ \A a \in Agents : states'[a] = states[a]
           /\ UNCHANGED <<depth, frames>>
<1>1. /\ cur \in Runs /\ states = [o \in Owners |-> states[o]]
      /\ \A a \in Agents : a \notin Runs /\ a \in Owners
  BY CrewAssumption DEF Shape, Owners
<1>2. cur < MaxRuns => cur + 1 \in Runs
  BY <1>1, CrewAssumption DEF Runs
<1> QED BY <1>1, <1>2 DEF RecordTestResults, RecordSchemaValid, Reset

\* A step that is recorded: the frame goes to resolve, the count stays.
LEMMA RecordedEffect ==
    ASSUME Shape, DataInv, depth > 0, NEW output \in OwnOutputs(top.agent),
           NEW error \in Errors \cup {None}, Recorded(output, error)
    PROVE  /\ \A a \in Agents : InFlight(a)' \subseteq InFlight(a)
           /\ \A a \in Agents \ {top.agent} : states'[a] = states[a]
           /\ top.agent \in Agents /\ states[top.agent] # None
           /\ states[top.agent].steps \in Seq(OwnStep(top.agent))
           /\ states'[top.agent].escalations = states[top.agent].escalations
           /\ \E record \in OwnStep(top.agent) :
                 /\ record.tests = pending.tests
                 /\ states'[top.agent].steps
                       = AddStep(states[top.agent].steps, record)
           /\ pending' = NoPending
<1> DEFINE a == top.agent
           record == [num |-> Len(states[a].steps), output |-> output,
                      error |-> error, tests |-> pending.tests,
                      schema |-> pending.schema]
           mgr == IF cached = NoRun THEN cur ELSE cached
           f == [top EXCEPT !.phase = "resolve", !.manager = mgr,
                            !.output = output, !.error = error]
<1>1. /\ top = frames[depth] /\ depth \in 1 .. depth /\ top \in Frame
      /\ a \in Agents /\ a \in Owners
      /\ \A b \in Agents : b \in Owners
  BY TopShape, CrewAssumption DEF Owners
<1>2. states[a] \in AgentState(a)
  BY <1>1 DEF DataInv
<1>3. states[a].steps \in Seq(OwnStep(a)) /\ Len(states[a].steps) \in Nat
  BY <1>2, LenProperties DEF AgentState
<1>4. record \in OwnStep(a)
  BY <1>1, <1>3, CrewAssumption DEF OwnStep, StepRecord, DataInv, OwnOutputs
<1>5. /\ states' = [states EXCEPT ![a].steps = AddStep(@, record)]
      /\ pending' = NoPending /\ UNCHANGED depth
      /\ frames' = [frames EXCEPT ![depth] = f]
  BY <1>1 DEF Recorded
<1>6. f.agent = a /\ f.phase = "resolve" /\ record.tests = pending.tests
  BY <1>1 DEF Frame
<1> HIDE DEF record, f
<1>7. /\ states'[a].steps = AddStep(states[a].steps, record)
      /\ states'[a].escalations = states[a].escalations
      /\ \A b \in Agents \ {a} : states'[b] = states[b]
  BY <1>1, <1>2, <1>5 DEF Shape, AgentState
<1>8. \A b \in Agents : InFlight(b)' \subseteq InFlight(b)
  <2>1. "resolve" \notin FlightPhases
    BY DEF FlightPhases
  <2> QED BY <1>5, <1>6, <2>1, FlightTop
<1>9. states[a] # None
  BY <1>1, <1>2, AgentStateType, CrewAssumption
<1> QED BY <1>1, <1>3, <1>4, <1>5, <1>6, <1>7, <1>8, <1>9

LEMMA RecordedAtBody ==
    ASSUME Shape, OriginalReturns \/ OriginalRaises
    PROVE  /\ depth > 0
           /\ \E o \in OwnOutputs(top.agent), e \in Errors \cup {None} :
                 Recorded(o, e)
BY TopShape, CrewAssumption
DEF OriginalReturns, OriginalRaises, In, OwnOutputs, AgentErrors

LEMMA CoverStep ==
    ASSUME StackInv, DataInv, CoverInv, [Next]_vars
    PROVE  CoverInv'
<1>1. Shape
  BY DEF StackInv
<1>2. ASSUME \A a \in Agents : states'[a] = states[a],
             \A a \in Agents : InFlight(a)' \subseteq InFlight(a)
      PROVE  CoverInv'
  BY <1>1, <1>2, CoverKept
<1>3. ASSUME depth > 0, KeepGuard, \E how, value : Ended(how, value)
      PROVE  CoverInv'
  BY <1>1, <1>2, <1>3, FlightEnded DEF KeepGuard
<1>4. ASSUME depth > 0, KeepGuard, NEW phase, Goto(phase),
             top.phase \in FlightPhases \/ phase \notin FlightPhases
      PROVE  CoverInv'
  BY <1>1, <1>2, <1>4, FlightGoto DEF KeepGuard
<1>5. CASE \/ \E r \in TestInputs : RecordTestResults(r)
           \/ \E v \in SchemaInputs : RecordSchemaValid(v)
           \/ Reset
  BY <1>1, <1>2, <1>5, AgentsUntouched DEF InFlight
<1>6. CASE \E a \in Agents : Begin(a)
  BY <1>6, CoverBegun
<1>7. CASE OriginalReturns \/ OriginalRaises
  BY <1>1, <1>7, RecordedAtBody, RecordedEffect, CoverKept
<1>8. CASE Cancelled
  BY <1>3, <1>8 DEF Cancelled
<1>9. ASSUME NEW c \in CallbackResults, CallbackFails(c) PROVE CoverInv'
  BY <1>3, <1>9 DEF CallbackFails, In
<1>10. ASSUME NEW c \in CallbackResults, NoTrigger(c) PROVE CoverInv'
  BY <1>3, <1>10 DEF NoTrigger, In
<1>11. ASSUME NEW c \in CallbackResults, Triggered(c) PROVE CoverInv'
  <2> DEFINE f == [top EXCEPT !.phase = "escalate",
                              !.saved = target[top.manager],
                              !.output = None, !.error = None]
  <2>1. /\ depth > 0 /\ top = frames[depth] /\ top \in Frame
        /\ frames' = [frames EXCEPT ![depth] = f]
        /\ states' = states /\ depth' = depth
    BY <1>1, <1>11, TopShape DEF Triggered, Swapping, In, KeepGuard
  <2>2. f.agent = top.agent /\ f.phase \notin FlightPhases
    BY <2>1 DEF Frame, FlightPhases
  <2> HIDE DEF f
  <2> QED BY <1>1, <1>2, <2>1, <2>2, FlightTop
<1>12. CASE Capped
  BY <1>3, <1>12 DEF Capped, In
<1>13. CASE Admitted
  BY <1>3, <1>13, CoverAdmitted DEF Admitted, In
<1>14. CASE Approved
  BY <1>4, <1>14 DEF Approved, In, FlightPhases
<1>15. CASE Declined
  BY <1>3, <1>15 DEF Declined, In
<1>16. CASE PromptFails
  BY <1>3, <1>16 DEF PromptFails, In
<1>17. CASE Invoke
  BY <1>4, <1>17 DEF Invoke, In, FlightPhases
<1>18. CASE ModelAnswers
  BY <1>18, CoverAnswered
<1>19. CASE ModelFails
  BY <1>4, <1>19 DEF ModelFails, In, FlightPhases
<1>20. CASE FailOpen
  BY <1>3, <1>20 DEF FailOpen, In
<1>21. CASE UNCHANGED vars
  BY <1>2, <1>21 DEF vars, InFlight
<1> QED
  BY <1>5, <1>6, <1>7, <1>8, <1>9, <1>10, <1>11, <1>12, <1>13, <1>14, <1>15,
     <1>16, <1>17, <1>18, <1>19, <1>20, <1>21 DEF Next

(***************************************************************************)
(* An agent exceeds its budget at most by one for each level of the stack  *)
(* beyond the first: the cap is checked before the prompt and the model    *)
(* call and the count is taken after them (escalation.py:256, 344), and    *)
(* steps of the same agent may nest in between.                            *)
(***************************************************************************)
THEOREM BudgetPerAgent == Spec => []AgentBudget
<1>1. Init => CoverInv
  BY CrewAssumption DEF Init, CoverInv, Owners
<1>2. StackInv /\ DataInv /\ CoverInv /\ [Next]_vars => CoverInv'
  BY CoverStep
<1>3. StackInv /\ DataInv /\ CoverInv => AgentBudget
  <2> SUFFICES ASSUME StackInv, DataInv, CoverInv,
                      NEW a \in Agents, states[a] # None
               PROVE  states[a].escalations <= MaxEscalations + MaxDepth - 1
    BY DEF AgentBudget
  <2>1. Cardinality(InFlight(a)) \in Nat
    BY FlightFinite DEF StackInv, Shape, InFlight
  <2>2. Covered(a) /\ states[a].escalations \in Nat
    BY DEF CoverInv, DataInv, AgentState
  <2> QED BY <2>1, <2>2, CrewAssumption DEF Covered, Ceiling
<1> QED BY <1>1, <1>2, <1>3, DataCorrect, PTL DEF Spec

-----------------------------------------------------------------------------
(***************************************************************************)
(* Where test results end up.  What is pending is in no step yet, and a    *)
(* step that takes it leaves nothing pending.                              *)
(***************************************************************************)
Bears(a, i, r) ==
    /\ states[a] # None /\ i \in DOMAIN states[a].steps
    /\ states[a].steps[i].tests = r

BornOnce ==
    \A a, b \in Agents : \A r : r # None =>
        \A i, j : Bears(a, i, r) /\ Bears(b, j, r) => a = b /\ i = j

PendingUnborn ==
    pending.tests # None => \A a \in Agents : \A i : ~ Bears(a, i, pending.tests)

ResultsInv == BornOnce /\ PendingUnborn

\* The list shifted by the number of steps dropped, then the record.
Shifted(old, new, r) ==
    \E n \in Nat \ {0}, k \in Nat :
        /\ DOMAIN new = 1 .. n
        /\ new[n] = r
        /\ \A i \in 1 .. n - 1 : i + k \in DOMAIN old /\ new[i] = old[i + k]

LEMMA AddStepShifts ==
    ASSUME NEW R, NEW s \in Seq(R), NEW r \in R
    PROVE  Shifted(s, AddStep(s, r), r)
<1> DEFINE a == Append(s, r)
<1> DEFINE m == Len(s)
<1>1. /\ a \in Seq(R) /\ m \in Nat /\ Len(a) = m + 1
      /\ \A k \in 1 .. m : a[k] = s[k]
      /\ a[m + 1] = r
      /\ DOMAIN a = 1 .. m + 1 /\ DOMAIN s = 1 .. m
  <2>1. a \in Seq(R) /\ Len(a) = m + 1
    BY AppendProperties
  <2> QED BY <2>1, AppendProperties, LenProperties
<1> HIDE DEF a, m
<1>2. CASE Len(a) > MaxHistory
  <2> DEFINE k == Len(a) - MaxHistory
  <2> DEFINE c == SubSeq(a, k + 1, Len(a))
  <2>1. k \in Nat \ {0} /\ k <= m /\ Len(a) \in Int /\ k + 1 \in Int
    BY <1>1, <1>2, HistoryAssumption
  <2>2. \A i \in k + 1 .. Len(a) : a[i] \in R
    BY <1>1, <2>1, ElementOfSeq
  <2>3. /\ c \in Seq(R) /\ Len(c) = m + 1 - k
        /\ \A i \in 1 .. m + 1 - k : c[i] = a[i + k]
    BY <1>1, <2>1, <2>2, SubSeqProperties
  <2>4. DOMAIN c = 1 .. m + 1 - k /\ AddStep(s, r) = c
    BY <1>2, <2>3, LenProperties DEF AddStep, a
  <2> HIDE DEF c, k
  <2>5. m + 1 - k \in Nat \ {0} /\ c[m + 1 - k] = r
    BY <1>1, <2>1, <2>3
  <2>6. \A i \in 1 .. (m + 1 - k) - 1 : i + k \in DOMAIN s /\ c[i] = s[i + k]
    BY <1>1, <2>1, <2>3
  <2> DEFINE n == m + 1 - k
  <2>7. /\ n \in Nat \ {0} /\ k \in Nat
        /\ DOMAIN c = 1 .. n /\ c[n] = r
        /\ \A i \in 1 .. n - 1 : i + k \in DOMAIN s /\ c[i] = s[i + k]
    BY <2>1, <2>4, <2>5, <2>6
  <2> HIDE DEF n
  <2> QED BY <2>4, <2>7 DEF Shifted
<1>3. CASE ~ (Len(a) > MaxHistory)
  <2>1. AddStep(s, r) = a
    BY <1>3 DEF AddStep, a
  <2> DEFINE n == m + 1
  <2>2. /\ n \in Nat \ {0} /\ 0 \in Nat
        /\ DOMAIN a = 1 .. n /\ a[n] = r
        /\ \A i \in 1 .. n - 1 : i + 0 \in DOMAIN s /\ a[i] = s[i + 0]
    BY <1>1
  <2> HIDE DEF n
  <2> QED BY <2>1, <2>2 DEF Shifted
<1> QED BY <1>2, <1>3

\* No step newly bears results, and nothing else becomes pending.
LEMMA ResultsKept ==
    ASSUME ResultsInv,
           \A a \in Agents : \A i, r : Bears(a, i, r)' => Bears(a, i, r),
           pending'.tests \in {pending.tests, None}
    PROVE  ResultsInv'
<1>1. BornOnce'
  BY DEF ResultsInv, BornOnce
<1>2. PendingUnborn'
  BY DEF ResultsInv, PendingUnborn
<1> QED BY <1>1, <1>2 DEF ResultsInv

\* The step that takes what is pending.
LEMMA ResultsRecorded ==
    ASSUME Shape, DataInv, ResultsInv, depth > 0,
           NEW output \in OwnOutputs(top.agent),
           NEW error \in Errors \cup {None}, Recorded(output, error)
    PROVE  ResultsInv'
<1>a. PICK t : t = top.agent
  OBVIOUS
<1>1. /\ t \in Agents /\ states[t] # None /\ pending' = NoPending
      /\ states[t].steps \in Seq(OwnStep(t))
      /\ \A a \in Agents \ {t} : states'[a] = states[a]
      /\ \E record \in OwnStep(t) :
            /\ record.tests = pending.tests
            /\ states'[t].steps = AddStep(states[t].steps, record)
  BY <1>a, RecordedEffect
<1>2. PICK record \in OwnStep(t) :
         /\ record.tests = pending.tests
         /\ states'[t].steps = AddStep(states[t].steps, record)
  BY <1>1
<1>3. PICK n \in Nat \ {0}, k \in Nat :
         /\ DOMAIN states'[t].steps = 1 .. n
         /\ states'[t].steps[n] = record
         /\ \A i \in 1 .. n - 1 :
               /\ i + k \in DOMAIN states[t].steps
               /\ states'[t].steps[i] = states[t].steps[i + k]
  <2>1. Shifted(states[t].steps, states'[t].steps, record)
    BY <1>1, <1>2, AddStepShifts
  <2> QED BY <2>1 DEF Shifted
<1>4. ASSUME NEW i, NEW r, Bears(t, i, r)'
      PROVE  \/ i = n /\ r = pending.tests
             \/ i \in 1 .. n - 1 /\ Bears(t, i + k, r)
  <2>1. i \in 1 .. n /\ states'[t].steps[i].tests = r
    BY <1>3, <1>4 DEF Bears
  <2> QED BY <1>1, <1>2, <1>3, <2>1 DEF Bears
<1>5. ASSUME NEW a \in Agents \ {t}, NEW i, NEW r, Bears(a, i, r)'
      PROVE  Bears(a, i, r)
  BY <1>1, <1>5 DEF Bears
<1>6. ASSUME NEW a \in Agents, NEW i
      PROVE  pending.tests # None => ~ Bears(a, i, pending.tests)
  BY DEF ResultsInv, PendingUnborn
<1>7. ASSUME NEW a \in Agents, NEW b \in Agents, NEW r, r # None, NEW i, NEW j,
             Bears(a, i, r), Bears(b, j, r)
      PROVE  a = b /\ i = j
  BY <1>7 DEF ResultsInv, BornOnce
<1>8. BornOnce'
  <2> SUFFICES ASSUME NEW a \in Agents, NEW b \in Agents, NEW r, r # None,
                      NEW i, NEW j, Bears(a, i, r)', Bears(b, j, r)'
               PROVE  a = b /\ i = j
    BY DEF BornOnce
  <2>1. CASE a = t /\ b = t
    <3>1. \/ i = n /\ r = pending.tests
          \/ i \in 1 .. n - 1 /\ Bears(t, i + k, r)
      BY <1>4, <2>1
    <3>2. \/ j = n /\ r = pending.tests
          \/ j \in 1 .. n - 1 /\ Bears(t, j + k, r)
      BY <1>4, <2>1
    <3>3. CASE r = pending.tests
      BY <1>1, <1>6, <2>1, <3>1, <3>2, <3>3
    <3>4. CASE r # pending.tests
      <4>1. i + k = j + k /\ i \in Int /\ j \in Int /\ k \in Int
        BY <1>1, <1>7, <3>1, <3>2, <3>4
      <4> QED BY <2>1, <4>1
    <3> QED BY <3>3, <3>4
  <2>2. CASE a = t /\ b # t
    <3>1. Bears(b, j, r)
      BY <1>5, <2>2
    <3>2. r # pending.tests
      BY <1>6, <3>1
    <3>3. Bears(t, i + k, r)
      BY <1>4, <2>2, <3>2
    <3> QED BY <1>1, <1>7, <2>2, <3>1, <3>3
  <2>3. CASE a # t /\ b = t
    <3>1. Bears(a, i, r)
      BY <1>5, <2>3
    <3>2. r # pending.tests
      BY <1>6, <3>1
    <3>3. Bears(t, j + k, r)
      BY <1>4, <2>3, <3>2
    <3> QED BY <1>1, <1>7, <2>3, <3>1, <3>3
  <2>4. CASE a # t /\ b # t
    <3>1. Bears(a, i, r) /\ Bears(b, j, r)
      BY <1>5, <2>4
    <3> QED BY <1>7, <3>1
  <2> QED BY <2>1, <2>2, <2>3, <2>4
<1>9. PendingUnborn'
  BY <1>1 DEF PendingUnborn, NoPending
<1> QED BY <1>8, <1>9 DEF ResultsInv

LEMMA ResultsStep ==
    ASSUME StackInv, DataInv, ResultsInv, [Next]_vars
    PROVE  ResultsInv'
<1>1. Shape
  BY DEF StackInv
<1>2. ASSUME \A a \in Agents : states'[a] = states[a],
             pending'.tests \in {pending.tests, None}
      PROVE  ResultsInv'
  BY <1>2, ResultsKept DEF Bears
<1>3. CASE \E r \in TestInputs : RecordTestResults(r)
  <2>1. PICK r \in TestInputs : RecordTestResults(r)
    BY <1>3
  <2>2. pending'.tests = r /\ \A a \in Agents : states'[a] = states[a]
    BY <1>1, <2>1, AgentsUntouched DEF RecordTestResults, DataInv
  <2>3. \A a \in Agents : \A i : ~ Bears(a, i, r)
    BY <2>1 DEF RecordTestResults, Fresh, Bears, Owners
  <2>4. BornOnce'
    BY <2>2 DEF ResultsInv, BornOnce, Bears
  <2>5. PendingUnborn'
    BY <2>2, <2>3 DEF PendingUnborn, Bears
  <2> QED BY <2>4, <2>5 DEF ResultsInv
<1>4. CASE \E v \in SchemaInputs : RecordSchemaValid(v)
  <2>1. pending'.tests = pending.tests
    BY <1>4 DEF RecordSchemaValid, DataInv
  <2> QED BY <1>1, <1>2, <1>4, <2>1, AgentsUntouched
<1>5. CASE Reset
  BY <1>1, <1>2, <1>5, AgentsUntouched DEF Reset, NoPending
<1>6. CASE \E a \in Agents : Begin(a)
  <2>1. PICK b \in Agents : Begin(b)
    BY <1>6
  <2>2. \A a \in Agents : \/ states'[a] = states[a]
                          \/ states'[a] = NewState
    BY <1>1, <2>1 DEF Begin, Shape, Owners
  <2>3. \A a \in Agents : \A i, r : Bears(a, i, r)' => Bears(a, i, r)
    BY <2>2 DEF Bears, NewState
  <2> QED BY <2>1, <2>3, ResultsKept DEF Begin
<1>7. CASE OriginalReturns \/ OriginalRaises
  BY <1>1, <1>7, RecordedAtBody, ResultsRecorded
<1>8. CASE ModelAnswers
  <2>1. /\ Shape /\ depth > 0 /\ Lent = top.agent /\ pending' = pending
        /\ states' = [states EXCEPT ![top.agent].escalations = @ + 1]
    BY <1>8, TopHasOwn DEF StackInv, ModelAnswers, In, Swapped, Lent
  <2>2. /\ top.agent \in Agents /\ top.agent \in Owners
        /\ states[top.agent] \in AgentState(top.agent)
    BY <2>1, TopShape DEF DataInv, Owners
  <2>3. /\ states'[top.agent].steps = states[top.agent].steps
        /\ states[top.agent] # None
        /\ \A a \in Agents \ {top.agent} : states'[a] = states[a]
    BY <2>1, <2>2, AgentStateType, CrewAssumption DEF Shape, AgentState
  <2>4. \A a \in Agents : \A i, r : Bears(a, i, r)' => Bears(a, i, r)
    BY <2>3 DEF Bears
  <2> QED BY <2>1, <2>4, ResultsKept
<1>9. CASE KeepGuard \/ UNCHANGED vars
  BY <1>2, <1>9 DEF KeepGuard, vars
<1> QED
  BY <1>3, <1>4, <1>5, <1>6, <1>7, <1>8, <1>9
     DEF Next, Cancelled, CallbackFails, NoTrigger, Triggered, Capped,
         Admitted, Approved, Declined, PromptFails, Invoke, ModelFails,
         FailOpen

(***************************************************************************)
(* However agents delegate and whatever is dropped from their histories,   *)
(* what one call of record_test_results delivers is in at most one step of *)
(* one agent (crewai.py:161-169).                                          *)
(***************************************************************************)
THEOREM ResultsOnce == Spec => []ResultsReachOneStep
<1>1. Init => ResultsInv
  BY CrewAssumption
  DEF Init, Owners, NoPending, ResultsInv, BornOnce, PendingUnborn, Bears
<1>2. StackInv /\ DataInv /\ ResultsInv /\ [Next]_vars => ResultsInv'
  BY ResultsStep
<1>3. ResultsInv => ResultsReachOneStep
  BY DEF ResultsInv, BornOnce, Bears, ResultsReachOneStep
<1> QED BY <1>1, <1>2, <1>3, DataCorrect, PTL DEF Spec

=============================================================================
