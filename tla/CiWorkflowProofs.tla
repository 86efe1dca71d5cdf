-------------------------- MODULE CiWorkflowProofs --------------------------
(***************************************************************************)
(* Proofs about CiPlan and CiWorkflow, for every plan, every number of     *)
(* attempts and replays, and however they interleave.                      *)
(*                                                                         *)
(* Of the plan: what topoSort returns is in the order of dependencies,     *)
(* what it refuses as a cycle is one, and planWaves puts a step in a later *)
(* wave than all it needs, and no later than that asks for; both come to   *)
(* an end.  Of the run: it leaves the planner to its steps, an instance    *)
(* has one run with a number of its own, and a run keeps the promise of    *)
(* Execution: a step starts only behind what it needs, and a green run has *)
(* no step that is not.                                                    *)
(***************************************************************************)
EXTENDS CiWorkflow, FiniteSetTheorems, SequenceTheorems, WellFoundedInduction, TLAPS

-----------------------------------------------------------------------------
(***************************************************************************)
(* The plan.                                                               *)
(***************************************************************************)

\* The marks say where a step is: on the trail of calls, in the result, or
\* nowhere yet; and it is in one place only.
MarkInv ==
  /\ \A n \in Names : mark[n] = "done" <=> \E i \in DOMAIN ordered : ordered[i] = n
  /\ \A n \in Names : mark[n] = "visiting" <=> \E f \in DOMAIN stack : stack[f].name = n
  /\ \A f, g \in DOMAIN stack : stack[f].name = stack[g].name => f = g
  /\ \A i, j \in DOMAIN ordered : ordered[i] = ordered[j] => i = j

\* Each call was made by the one below it, for a need of that step.
TrailInv ==
  \A f \in DOMAIN stack : f < Len(stack) =>
    stack[f + 1].name \in Elems(NeedsOf(stack[f].name))

\* A call has dealt with the needs it has passed, except the one whose call is
\* above it.
FrameInv ==
  verdict # "cycle" =>
    \A f \in DOMAIN stack : \A k \in DOMAIN NeedsOf(stack[f].name) :
      k < stack[f].next =>
        \/ mark[NeedsOf(stack[f].name)[k]] = "done"
        \/ f < Len(stack) /\ stack[f + 1].name = NeedsOf(stack[f].name)[k]

\* The outer loop leaves no declared step behind, and no other step comes in.
RootInv ==
  /\ verdict # "checking" /\ verdict # "unknown" =>
       \A n \in Declared : Elems(NeedsOf(n)) \subseteq Declared
  /\ \A n \in Names : mark[n] # "new" => n \in Declared
  /\ \A i \in 1 .. at : mark[Order[i]] # "new"
  /\ verdict \in {"placing", "waves"} => stack = <<>> /\ at = Len(Order)

\* planWaves has given the steps it has placed their levels, and its
\* accumulator is above the needs it has passed.
LevelInv ==
  /\ verdict \notin {"placing", "waves"} => placed = 0 /\ need = 1 /\ level = 0
  /\ verdict = "waves" => placed = Len(ordered)
  /\ \A i \in 1 .. placed : \A k \in DOMAIN NeedsOf(ordered[i]) :
       depth[NeedsOf(ordered[i])[k]] < depth[ordered[i]]
  /\ placed < Len(ordered) =>
       \A k \in DOMAIN NeedsOf(Current) : k < need => depth[NeedsOf(Current)[k]] < level

IInv ==
  /\ PlanTypeOK
  /\ MarkInv /\ TrailInv /\ FrameInv /\ RootInv
  /\ NeedsComeFirst /\ RefusedIsCyclic
  /\ LevelInv

-----------------------------------------------------------------------------
\* What a plan is made of.
LEMMA PlanShape ==
  ASSUME plan \in Plans
  PROVE  /\ Order \in Seq(Names) /\ Len(Order) \in Nat
         /\ \A n \in Names : NeedsOf(n) \in Seq(Names) /\ Len(NeedsOf(n)) \in Nat
         /\ Declared \subseteq Names
         /\ \A i, j \in DOMAIN Order : Order[i] = Order[j] => i = j
<1>1. plan \in [order : Seq(Names), needs : [Names -> Seq(Names)]]
  BY PlansAssumption
<1>2. Order \in Seq(Names) /\ Len(Order) \in Nat
  BY <1>1 DEF Order
<1>3. \A n \in Names : NeedsOf(n) \in Seq(Names) /\ Len(NeedsOf(n)) \in Nat
  BY <1>1 DEF NeedsOf
<1>4. Declared \subseteq Names
  BY <1>2 DEF Declared, Elems
<1>5. \A i, j \in DOMAIN Order : Order[i] = Order[j] => i = j
  BY PlansAssumption DEF Order
<1> QED BY <1>2, <1>3, <1>4, <1>5

\* What is on the trail or in the result is a name.
LEMMA TopShape ==
  ASSUME PlanTypeOK, stack # <<>>
  PROVE  /\ Len(stack) \in Nat \ {0} /\ Len(stack) \in DOMAIN stack
         /\ Top \in Frame /\ Top.name \in Names /\ Top.next \in Nat \ {0}
<1>1. stack \in Seq(Frame)
  BY DEF PlanTypeOK
<1>2. Len(stack) \in Nat \ {0} /\ Len(stack) \in DOMAIN stack
  BY <1>1
<1>3. Top \in Frame
  BY <1>1, <1>2 DEF Top
<1> QED BY <1>2, <1>3 DEF Frame

-----------------------------------------------------------------------------
(***************************************************************************)
(* The first state, and the check of needs.                                *)
(***************************************************************************)

LEMMA InitIInv == PlanInit => IInv
<1> SUFFICES ASSUME PlanInit PROVE IInv
  OBVIOUS
<1> USE DEF PlanInit
<1>1. PlanTypeOK
  BY PlanShape DEF PlanTypeOK
<1>2. MarkInv /\ TrailInv /\ FrameInv
  BY DEF MarkInv, TrailInv, FrameInv
<1>3. RootInv
  BY DEF RootInv
<1>4. NeedsComeFirst /\ RefusedIsCyclic
  BY DEF NeedsComeFirst, RefusedIsCyclic
<1>5. LevelInv
  BY PlanShape DEF LevelInv, Current
<1> QED BY <1>1, <1>2, <1>3, <1>4, <1>5 DEF IInv

LEMMA CheckKeepsIInv == IInv /\ CheckNeeds => IInv'
<1> SUFFICES ASSUME IInv, CheckNeeds PROVE IInv'
  OBVIOUS
<1> USE DEF IInv, CheckNeeds, sortVars, waveVars
<1>1. PlanTypeOK'
  BY DEF PlanTypeOK, Order
<1>2. MarkInv' /\ TrailInv' /\ FrameInv'
  BY DEF MarkInv, TrailInv, FrameInv, NeedsOf
<1>3. RootInv'
  BY DEF RootInv, NeedsOf, Declared, Order
<1>4. NeedsComeFirst' /\ RefusedIsCyclic'
  BY DEF NeedsComeFirst, RefusedIsCyclic, NeedsOf
<1>5. LevelInv'
  BY DEF LevelInv, Current, NeedsOf
<1> QED BY <1>1, <1>2, <1>3, <1>4, <1>5

-----------------------------------------------------------------------------
(***************************************************************************)
(* visit.                                                                  *)
(***************************************************************************)

\* What a visit leaves alone stays true: it touches the trail and the marks.
LEMMA VisitLeavesRest ==
  ASSUME IInv, verdict = "sorting", verdict' \in {"sorting", "cycle"},
         UNCHANGED <<plan, ordered, waveVars>>
  PROVE  NeedsComeFirst' /\ LevelInv'
<1>1. NeedsComeFirst'
  BY DEF IInv, NeedsComeFirst, NeedsOf
<1>2. LevelInv'
  BY DEF IInv, LevelInv, waveVars, Current, NeedsOf
<1> QED BY <1>1, <1>2

LEMMA RootKeepsIInv == IInv /\ VisitRoot => IInv'
<1> SUFFICES ASSUME IInv, VisitRoot PROVE IInv'
  OBVIOUS
<1> DEFINE n == Order[at + 1]
<1>1. /\ plan \in Plans /\ PlanTypeOK /\ at \in Nat /\ at + 1 \in DOMAIN Order
      /\ n \in Names /\ n \in Declared
  <2>1. plan \in Plans /\ PlanTypeOK /\ at \in Nat /\ at < Len(Order)
    BY DEF IInv, PlanTypeOK, VisitRoot
  <2>2. at + 1 \in DOMAIN Order /\ n \in Names
    BY <2>1, PlanShape
  <2> QED BY <2>1, <2>2 DEF Declared, Elems
<1>2. mark[n] # "visiting"
  BY <1>1 DEF IInv, MarkInv, VisitRoot
<1>3. verdict' = verdict /\ verdict = "sorting" /\ stack = <<>>
  BY <1>2 DEF VisitRoot, Visit, Entered, IsCycle
<1>6. plan' = plan /\ Order' = Order
  BY DEF VisitRoot, Order
<1>4. CASE mark[n] = "new"
  <2>1. /\ mark' = [mark EXCEPT ![n] = "visiting"]
        /\ stack' = <<[name |-> n, next |-> 1]>>
    BY <1>4 DEF VisitRoot, Visit, Entered
  <2>2. PlanTypeOK'
    BY <1>1, <1>3, <2>1, PlanShape DEF PlanTypeOK, VisitRoot, Frame, waveVars, Order
  <2>3. MarkInv'
    <3>1. \A m \in Names : mark'[m] = "done" <=> mark[m] = "done"
      BY <1>1, <1>4, <2>1 DEF PlanTypeOK
    <3>2. \A m \in Names : mark'[m] = "visiting" <=> m = n
      BY <1>1, <1>3, <2>1 DEF PlanTypeOK, IInv, MarkInv
    <3>3. DOMAIN stack' = {1} /\ stack'[1].name = n
      BY <2>1
    <3> QED BY <3>1, <3>2, <3>3 DEF IInv, MarkInv, VisitRoot
  <2>4. TrailInv' /\ FrameInv'
    <3>1. Len(stack') = 1 /\ DOMAIN stack' = {1} /\ stack'[1] = [name |-> n, next |-> 1]
      BY <2>1
    <3>2. DOMAIN NeedsOf(n) \subseteq Nat \ {0}
      BY <1>1, PlanShape
    <3>3. plan' = plan
      BY DEF VisitRoot
    <3> QED BY <3>1, <3>2, <3>3 DEF TrailInv, FrameInv, NeedsOf
  <2>5. RootInv'
    <3>1. \A m \in Names : mark'[m] # "new" <=> mark[m] # "new" \/ m = n
      BY <1>1, <2>1 DEF PlanTypeOK
    <3>2. \A i \in 1 .. at' : mark'[Order'[i]] # "new"
      <4> SUFFICES ASSUME NEW i \in 1 .. at + 1 PROVE mark'[Order[i]] # "new"
        BY <1>6 DEF VisitRoot
      <4>1. i \in DOMAIN Order /\ Order[i] \in Names
        BY <1>1, PlanShape
      <4>2. i \in 1 .. at \/ i = at + 1
        BY <1>1
      <4> QED BY <3>1, <4>1, <4>2 DEF IInv, RootInv
    <3> QED BY <1>1, <1>3, <3>1, <3>2
         DEF IInv, RootInv, VisitRoot, Declared, Order, NeedsOf
  <2>6. RefusedIsCyclic'
    BY <1>3 DEF RefusedIsCyclic
  <2> QED BY <1>3, <2>2, <2>3, <2>4, <2>5, <2>6, VisitLeavesRest DEF IInv, VisitRoot
<1>5. CASE mark[n] = "done"
  <2>1. mark' = mark /\ stack' = stack
    BY <1>3, <1>5 DEF VisitRoot, Visit, Entered
  <2>2. PlanTypeOK'
    BY <1>1, <1>3, <2>1, PlanShape DEF PlanTypeOK, VisitRoot, waveVars, Order
  <2>3. MarkInv' /\ TrailInv' /\ FrameInv'
    BY <1>3, <2>1 DEF IInv, MarkInv, TrailInv, FrameInv, VisitRoot
  <2>4. RootInv'
    <3>1. \A i \in 1 .. at' : mark'[Order'[i]] # "new"
      <4> SUFFICES ASSUME NEW i \in 1 .. at + 1 PROVE mark[Order[i]] # "new"
        BY <1>6, <2>1 DEF VisitRoot
      <4>1. i \in 1 .. at \/ i = at + 1
        BY <1>1
      <4> QED BY <1>5, <4>1 DEF IInv, RootInv
    <3> QED BY <1>3, <2>1, <3>1 DEF IInv, RootInv, VisitRoot, Declared, Order, NeedsOf
  <2>5. RefusedIsCyclic'
    BY <1>3 DEF RefusedIsCyclic
  <2> QED BY <1>3, <2>2, <2>3, <2>4, <2>5, VisitLeavesRest DEF IInv, VisitRoot
<1> QED BY <1>1, <1>2, <1>4, <1>5 DEF PlanTypeOK

\* The frames of the callers, when the last one goes on to its next need.
LEMMA CallersAre ==
  ASSUME PlanTypeOK, stack # <<>>,
         NEW callers, callers = [stack EXCEPT ![Len(stack)].next = @ + 1]
  PROVE  /\ callers \in Seq(Frame) /\ Len(callers) = Len(stack) /\ DOMAIN callers = DOMAIN stack
         /\ \A f \in DOMAIN stack : callers[f].name = stack[f].name
         /\ \A f \in DOMAIN stack : f < Len(stack) => callers[f] = stack[f]
         /\ callers[Len(stack)].next = Top.next + 1
<1> DEFINE len == Len(stack)
<1>1. len \in Nat \ {0} /\ len \in DOMAIN stack /\ Top = stack[len] /\ Top \in Frame
  BY TopShape DEF Top
<1>2. stack \in [1 .. len -> Frame] /\ stack \in Seq(Frame)
  BY DEF PlanTypeOK
<1>3. [stack[len] EXCEPT !.next = @ + 1] \in Frame
  BY <1>1 DEF Frame
<1>4. callers = [stack EXCEPT ![len] = [stack[len] EXCEPT !.next = @ + 1]]
  OBVIOUS
<1>5. callers \in [1 .. len -> Frame] /\ callers \in Seq(Frame) /\ Len(callers) = len
  BY <1>1, <1>2, <1>3, <1>4
<1>6. /\ \A f \in DOMAIN stack : f # len => callers[f] = stack[f]
      /\ callers[len].name = stack[len].name /\ callers[len].next = stack[len].next + 1
  BY <1>1, <1>2, <1>4 DEF Frame
<1> QED BY <1>1, <1>2, <1>5, <1>6

LEMMA NeedKeepsIInv == IInv /\ VisitNeed => IInv'
<1> SUFFICES ASSUME IInv, VisitNeed PROVE IInv'
  OBVIOUS
<1> DEFINE len == Len(stack)
           caller == Top.name
           n == NeedsOf(caller)[Top.next]
           callers == [stack EXCEPT ![len].next = @ + 1]
<1>1. /\ plan \in Plans /\ PlanTypeOK /\ verdict = "sorting" /\ stack # <<>>
      /\ Top.next <= Len(NeedsOf(caller))
  BY DEF IInv, PlanTypeOK, VisitNeed
<1>2. /\ len \in Nat \ {0} /\ len \in DOMAIN stack /\ Top = stack[len]
      /\ Top \in Frame /\ caller \in Names /\ Top.next \in Nat \ {0}
  BY <1>1, TopShape DEF Top
<1>3. /\ Top.next \in DOMAIN NeedsOf(caller) /\ n \in Names
      /\ n \in Elems(NeedsOf(caller))
  BY <1>1, <1>2, PlanShape DEF Elems
<1>4. caller \in Declared /\ n \in Declared
  <2>1. mark[caller] = "visiting"
    BY <1>1, <1>2 DEF IInv, MarkInv
  <2>2. caller \in Declared
    BY <1>2, <2>1 DEF IInv, RootInv
  <2> QED BY <1>1, <1>3, <2>2 DEF IInv, RootInv
<1>5. /\ callers \in Seq(Frame) /\ Len(callers) = len /\ DOMAIN callers = DOMAIN stack
      /\ \A f \in DOMAIN stack : callers[f].name = stack[f].name
      /\ \A f \in DOMAIN stack : f < len => callers[f] = stack[f]
      /\ callers[len].next = Top.next + 1
  BY <1>1, CallersAre
<1>6. \A f \in DOMAIN callers : f < len =>
        callers[f + 1].name \in Elems(NeedsOf(callers[f].name))
  BY <1>1, <1>2, <1>5 DEF IInv, TrailInv, PlanTypeOK
<1>7. UNCHANGED <<plan, at, ordered, waveVars>> /\ Visit(n, callers)
  BY DEF VisitNeed
<1>8. plan' = plan /\ Order' = Order
  BY <1>7 DEF Order
\* What a caller had dealt with, and the need it has just passed.
<1>9. \A f \in DOMAIN callers : \A k \in DOMAIN NeedsOf(callers[f].name) :
        k < callers[f].next =>
          \/ mark[NeedsOf(callers[f].name)[k]] = "done"
          \/ f < len /\ callers[f + 1].name = NeedsOf(callers[f].name)[k]
          \/ f = len /\ NeedsOf(callers[f].name)[k] = n
  <2> SUFFICES ASSUME NEW f \in DOMAIN callers, NEW k \in DOMAIN NeedsOf(callers[f].name),
                      k < callers[f].next
               PROVE  \/ mark[NeedsOf(callers[f].name)[k]] = "done"
                      \/ f < len /\ callers[f + 1].name = NeedsOf(callers[f].name)[k]
                      \/ f = len /\ NeedsOf(callers[f].name)[k] = n
    OBVIOUS
  <2>1. f \in 1 .. len /\ f \in DOMAIN stack /\ callers[f].name = stack[f].name
    BY <1>1, <1>5 DEF PlanTypeOK
  <2>2. \A j \in DOMAIN NeedsOf(stack[f].name) : j < stack[f].next =>
          \/ mark[NeedsOf(stack[f].name)[j]] = "done"
          \/ f < len /\ stack[f + 1].name = NeedsOf(stack[f].name)[j]
    BY <1>1, <2>1 DEF IInv, FrameInv
  <2>3. CASE f < len
    <3>1. callers[f] = stack[f] /\ callers[f + 1].name = stack[f + 1].name
      BY <1>1, <1>2, <1>5, <2>1, <2>3 DEF PlanTypeOK
    <3> QED BY <2>2, <2>3, <3>1
  <2>4. CASE f = len
    <3>1. k \in Nat /\ k < Top.next + 1
      BY <1>1, <1>2, <1>5, <2>1, <2>4, PlanShape
    <3>2. CASE k = Top.next
      BY <1>2, <2>1, <2>4, <3>2
    <3>3. CASE k < Top.next
      BY <1>2, <2>1, <2>2, <2>4, <3>3
    <3> QED BY <1>2, <3>1, <3>2, <3>3
  <2> QED BY <1>2, <2>1, <2>3, <2>4
<1> HIDE DEF n, callers
<1>10. CASE mark[n] = "new"
  <2> DEFINE frame == [name |-> n, next |-> 1]
  <2>1. /\ mark' = [mark EXCEPT ![n] = "visiting"]
        /\ stack' = Append(callers, frame)
        /\ verdict' = "sorting"
    BY <1>1, <1>7, <1>10 DEF Visit, Entered, IsCycle
  <2>2. /\ frame \in Frame /\ stack' \in Seq(Frame)
        /\ Len(stack') = len + 1 /\ DOMAIN stack' = 1 .. len + 1
        /\ \A f \in 1 .. len : stack'[f] = callers[f]
        /\ stack'[len + 1] = frame
        /\ DOMAIN callers = 1 .. len
    <3>1. frame \in Frame
      BY <1>3 DEF Frame
    <3> HIDE DEF frame
    <3> QED BY <1>2, <1>5, <2>1, <3>1
  <2>3. /\ \A m \in Names : mark'[m] = "done" <=> mark[m] = "done"
        /\ \A m \in Names : mark'[m] = "visiting" <=> (mark[m] = "visiting" \/ m = n)
        /\ \A m \in Names : mark'[m] # "new" <=> (mark[m] # "new" \/ m = n)
    BY <1>1, <1>3, <1>10, <2>1 DEF PlanTypeOK
  <2>4. PlanTypeOK'
    BY <1>1, <1>3, <1>7, <1>8, <2>1, <2>2 DEF PlanTypeOK, waveVars
  <2>5. MarkInv'
    <3>1. \A f \in 1 .. len : callers[f].name # n
      BY <1>3, <1>5, <1>10, <2>2 DEF IInv, MarkInv
    <3>2. \A m \in Names :
            mark'[m] = "visiting" <=> \E f \in DOMAIN stack' : stack'[f].name = m
      <4> SUFFICES ASSUME NEW m \in Names
                   PROVE  mark'[m] = "visiting" <=> \E f \in DOMAIN stack' : stack'[f].name = m
        OBVIOUS
      <4>1. (\E f \in DOMAIN stack' : stack'[f].name = m)
              <=> (m = n \/ \E f \in 1 .. len : callers[f].name = m)
        BY <1>2, <2>2
      <4>2. (\E f \in 1 .. len : callers[f].name = m) <=> mark[m] = "visiting"
        BY <1>5, <2>2, SMTT(30) DEF IInv, MarkInv
      <4> QED BY <2>3, <4>1, <4>2
    <3>3. \A f, g \in DOMAIN stack' : stack'[f].name = stack'[g].name => f = g
      <4>1. \A f, g \in 1 .. len : callers[f].name = callers[g].name => f = g
        BY <1>5, <2>2 DEF IInv, MarkInv
      <4> QED BY <1>2, <2>2, <3>1, <4>1
    <3> QED BY <1>7, <2>3, <3>2, <3>3 DEF IInv, MarkInv
  <2>6. TrailInv'
    <3> SUFFICES ASSUME NEW f \in 1 .. len
                 PROVE  stack'[f + 1].name \in Elems(NeedsOf(stack'[f].name))
      BY <1>2, <1>8, <2>2 DEF TrailInv, NeedsOf
    <3>1. CASE f < len
      BY <1>2, <1>6, <2>2, <3>1
    <3>2. CASE f = len
      BY <1>2, <1>3, <1>5, <2>2, <3>2
    <3> QED BY <1>2, <3>1, <3>2
  <2>7. FrameInv'
    <3> SUFFICES ASSUME NEW f \in DOMAIN stack', NEW k \in DOMAIN NeedsOf(stack'[f].name),
                        k < stack'[f].next
                 PROVE  \/ mark'[NeedsOf(stack'[f].name)[k]] = "done"
                        \/ /\ f < Len(stack')
                           /\ stack'[f + 1].name = NeedsOf(stack'[f].name)[k]
      BY <1>8 DEF FrameInv, NeedsOf
    <3>1. CASE f = len + 1
      <4>1. DOMAIN NeedsOf(n) \subseteq Nat \ {0}
        BY <1>1, <1>3, PlanShape
      <4> QED BY <2>2, <3>1, <4>1
    <3>2. CASE f < len
      <4>1. f \in DOMAIN callers /\ stack'[f] = callers[f] /\ stack'[f + 1] = callers[f + 1]
        BY <1>2, <2>2, <3>2
      <4>2. callers[f].name \in Names
        <5>1. callers[f] \in Frame
          BY <1>5, <4>1
        <5> QED BY <5>1 DEF Frame
      <4>3. NeedsOf(callers[f].name)[k] \in Names
        BY <1>1, <4>1, <4>2, PlanShape
      <4> QED BY <1>2, <1>9, <2>2, <2>3, <3>2, <4>1, <4>3
    <3>3. CASE f = len
      <4>1. f \in DOMAIN callers /\ stack'[f] = callers[f] /\ stack'[f + 1].name = n
        BY <1>2, <2>2, <3>3
      <4>2. callers[f].name \in Names
        <5>1. callers[f] \in Frame
          BY <1>5, <4>1
        <5> QED BY <5>1 DEF Frame
      <4>3. NeedsOf(callers[f].name)[k] \in Names
        BY <1>1, <4>1, <4>2, PlanShape
      <4> QED BY <1>2, <1>9, <2>2, <2>3, <3>3, <4>1, <4>3
    <3> QED BY <1>2, <2>2, <3>1, <3>2, <3>3
  <2>8. RootInv'
    <3>1. \A i \in 1 .. at : Order[i] \in Names
      BY <1>1, PlanShape DEF PlanTypeOK
    <3> QED BY <1>1, <1>4, <1>7, <1>8, <2>1, <2>3, <3>1
         DEF IInv, RootInv, Declared, NeedsOf
  <2>9. RefusedIsCyclic'
    BY <2>1 DEF RefusedIsCyclic
  <2> QED BY <1>1, <1>7, <2>1, <2>4, <2>5, <2>6, <2>7, <2>8, <2>9, VisitLeavesRest
       DEF IInv
\* Otherwise the trail keeps its names and the marks do not change.
<1>11. ASSUME mark' = mark, stack' = callers, verdict' \in {"sorting", "cycle"}
       PROVE  PlanTypeOK' /\ MarkInv' /\ TrailInv' /\ RootInv'
  <2>1. PlanTypeOK'
    BY <1>1, <1>5, <1>7, <1>8, <1>11 DEF PlanTypeOK, waveVars
  <2>2. MarkInv'
    BY <1>5, <1>7, <1>11 DEF IInv, MarkInv
  <2>3. TrailInv'
    BY <1>5, <1>6, <1>8, <1>11 DEF TrailInv, NeedsOf
  <2>4. RootInv'
    BY <1>1, <1>7, <1>8, <1>11 DEF IInv, RootInv, Declared, NeedsOf
  <2> QED BY <2>1, <2>2, <2>3, <2>4
<1>12. CASE mark[n] = "done"
  <2>1. mark' = mark /\ stack' = callers /\ verdict' = "sorting"
    BY <1>1, <1>7, <1>12 DEF Visit, Entered, IsCycle
  <2>2. FrameInv'
    BY <1>5, <1>8, <1>9, <1>12, <2>1 DEF FrameInv, NeedsOf
  <2>3. RefusedIsCyclic'
    BY <2>1 DEF RefusedIsCyclic
  <2> QED BY <1>1, <1>7, <1>11, <2>1, <2>2, <2>3, VisitLeavesRest DEF IInv
<1>13. CASE mark[n] = "visiting"
  <2>1. mark' = mark /\ stack' = callers /\ verdict' = "cycle"
    BY <1>1, <1>7, <1>13 DEF Visit, Entered, IsCycle
  <2>2. FrameInv'
    BY <2>1 DEF FrameInv
  <2>3. RefusedIsCyclic'
    <3>1. PICK f \in DOMAIN stack : stack[f].name = n
      BY <1>3, <1>13 DEF IInv, MarkInv
    <3>2. f \in DOMAIN stack' /\ stack'[f].name = n
      BY <1>5, <2>1, <3>1
    <3>3. Top'.name = caller /\ Len(stack') = len
      BY <1>2, <1>5, <2>1 DEF Top
    <3>4. \A g \in f .. len - 1 :
            stack'[g + 1].name \in Elems(NeedsOf(stack'[g].name))
      <4>1. DOMAIN callers = 1 .. len /\ f \in 1 .. len
        BY <1>2, <1>5, <3>1
      <4>2. \A g \in f .. len - 1 : g \in DOMAIN callers /\ g < len
        BY <1>2, <4>1
      <4> QED BY <1>6, <2>1, <4>2
    <3> QED BY <1>3, <1>8, <3>2, <3>3, <3>4 DEF RefusedIsCyclic, NeedsOf
  <2> QED BY <1>1, <1>7, <1>11, <2>1, <2>2, <2>3, VisitLeavesRest DEF IInv
<1> QED BY <1>1, <1>3, <1>10, <1>12, <1>13 DEF PlanTypeOK

\* The frames that are left when a call returns.
LEMMA PoppedIs ==
  ASSUME PlanTypeOK, stack # <<>>, NEW popped, popped = SubSeq(stack, 1, Len(stack) - 1)
  PROVE  /\ popped \in Seq(Frame) /\ DOMAIN stack = 1 .. Len(stack)
         /\ Len(popped) = Len(stack) - 1 /\ DOMAIN popped = 1 .. Len(stack) - 1
         /\ \A f \in 1 .. Len(stack) - 1 : popped[f] = stack[f] /\ f \in DOMAIN stack /\ f < Len(stack)
<1> DEFINE len == Len(stack)
           last == len - 1
<1>1. len \in Nat \ {0} /\ len \in DOMAIN stack
  BY TopShape
<1>2. stack \in Seq(Frame)
  BY DEF PlanTypeOK
<1>3. DOMAIN stack = 1 .. len /\ \A f \in 1 .. last : stack[f] \in Frame /\ f \in DOMAIN stack /\ f < len
  BY <1>1, <1>2
<1>4. 1 \in Int /\ last \in Int /\ last >= 0
  BY <1>1
<1>5. \A f \in 1 .. last : stack[f] \in Frame
  BY <1>3
<1>6. popped = SubSeq(stack, 1, last)
  OBVIOUS
<1> HIDE DEF last
<1>7. /\ SubSeq(stack, 1, last) \in Seq(Frame)
      /\ Len(SubSeq(stack, 1, last)) = IF 1 <= last THEN last - 1 + 1 ELSE 0
      /\ \A f \in 1 .. last - 1 + 1 : SubSeq(stack, 1, last)[f] = stack[1 + f - 1]
  BY <1>4, <1>5, SubSeqProperties
<1>8. Len(popped) = last
  <2>1. (IF 1 <= last THEN last - 1 + 1 ELSE 0) = last
    BY <1>4
  <2> QED BY <1>6, <1>7, <2>1
<1>9. popped \in Seq(Frame) /\ DOMAIN popped = 1 .. last
  BY <1>4, <1>6, <1>7, <1>8
<1>10. ASSUME NEW f \in 1 .. last PROVE popped[f] = stack[f]
  <2>1. f \in 1 .. last - 1 + 1 /\ 1 + f - 1 = f
    BY <1>4
  <2> QED BY <1>6, <1>7, <2>1
<1> QED BY <1>3, <1>8, <1>9, <1>10 DEF last

LEMMA ReturnKeepsIInv == IInv /\ Return => IInv'
<1> SUFFICES ASSUME IInv, Return PROVE IInv'
  OBVIOUS
<1> DEFINE len == Len(stack)
           n == Top.name
<1>1. /\ plan \in Plans /\ PlanTypeOK /\ verdict = "sorting" /\ stack # <<>>
      /\ Top.next > Len(NeedsOf(n))
      /\ mark' = [mark EXCEPT ![n] = "done"]
      /\ ordered' = Append(ordered, n)
      /\ stack' = SubSeq(stack, 1, len - 1)
      /\ plan' = plan /\ Order' = Order /\ at' = at /\ verdict' = verdict
      /\ UNCHANGED waveVars
  BY DEF IInv, PlanTypeOK, Return, Output, Order
<1>2. /\ len \in Nat \ {0} /\ len \in DOMAIN stack /\ Top = stack[len]
      /\ Top \in Frame /\ n \in Names /\ Top.next \in Nat \ {0}
  BY <1>1, TopShape DEF Top
<1>3. /\ stack' \in Seq(Frame) /\ DOMAIN stack = 1 .. len
      /\ Len(stack') = len - 1 /\ DOMAIN stack' = 1 .. len - 1
      /\ \A f \in 1 .. len - 1 : stack'[f] = stack[f] /\ f \in DOMAIN stack /\ f < len
  BY <1>1, PoppedIs
<1>4. /\ ordered' \in Seq(Names) /\ Len(ordered') = Len(ordered) + 1 /\ Len(ordered) \in Nat
      /\ DOMAIN ordered = 1 .. Len(ordered) /\ DOMAIN ordered' = 1 .. Len(ordered) + 1
      /\ \A i \in 1 .. Len(ordered) : ordered'[i] = ordered[i]
      /\ ordered'[Len(ordered) + 1] = n
  BY <1>1, <1>2 DEF PlanTypeOK
<1>5. /\ \A m \in Names : mark'[m] = "done" <=> mark[m] = "done" \/ m = n
      /\ \A m \in Names : mark'[m] = "visiting" <=> mark[m] = "visiting" /\ m # n
      /\ \A m \in Names : mark'[m] # "new" <=> mark[m] # "new" \/ m = n
      /\ mark[n] = "visiting"
  <2>1. mark[n] = "visiting"
    BY <1>2 DEF IInv, MarkInv
  <2> QED BY <1>1, <1>2, <2>1 DEF PlanTypeOK
<1>6. PlanTypeOK'
  BY <1>1, <1>2, <1>3, <1>4, SMTT(30) DEF PlanTypeOK, waveVars
<1> HIDE DEF n
<1>7. MarkInv'
  <2>1. \A i \in DOMAIN ordered : ordered[i] # n
    BY <1>2, <1>5 DEF IInv, MarkInv
  <2>2. \A m \in Names : mark'[m] = "done" <=> \E i \in DOMAIN ordered' : ordered'[i] = m
    <3>1. \A m \in Names : mark[m] = "done" <=> \E i \in 1 .. Len(ordered) : ordered[i] = m
      BY <1>4 DEF IInv, MarkInv
    <3>2. \A m \in Names : (\E i \in DOMAIN ordered' : ordered'[i] = m)
            <=> (\E i \in 1 .. Len(ordered) : ordered[i] = m) \/ m = n
      BY <1>4
    <3> QED BY <1>5, <3>1, <3>2
  <2>3. \A m \in Names : mark'[m] = "visiting" <=> \E f \in DOMAIN stack' : stack'[f].name = m
    <3> SUFFICES ASSUME NEW m \in Names
                 PROVE  mark'[m] = "visiting" <=> \E f \in DOMAIN stack' : stack'[f].name = m
      OBVIOUS
    <3>1. mark[m] = "visiting" <=> \E f \in 1 .. len : stack[f].name = m
      BY <1>3 DEF IInv, MarkInv
    <3>2. \A f \in 1 .. len - 1 : stack[f].name # n
      BY <1>2, <1>3 DEF IInv, MarkInv, n
    <3>3. stack[len].name = n
      BY <1>2 DEF n
    <3>4. \A f \in 1 .. len : f \in 1 .. len - 1 \/ f = len
      BY <1>2
    <3> QED BY <1>3, <1>5, <3>1, <3>2, <3>3, <3>4
  <2>4. \A f, g \in DOMAIN stack' : stack'[f].name = stack'[g].name => f = g
    BY <1>3 DEF IInv, MarkInv
  <2>5. \A i, j \in DOMAIN ordered' : ordered'[i] = ordered'[j] => i = j
    <3>1. \A i, j \in 1 .. Len(ordered) : ordered[i] = ordered[j] => i = j
      BY <1>4 DEF IInv, MarkInv
    <3> QED BY <1>4, <2>1, <3>1
  <2> QED BY <2>2, <2>3, <2>4, <2>5 DEF MarkInv
<1>8. TrailInv'
  BY <1>1, <1>2, <1>3 DEF IInv, TrailInv, NeedsOf
<1>9. FrameInv'
  <2> SUFFICES ASSUME NEW f \in 1 .. len - 1, NEW k \in DOMAIN NeedsOf(stack[f].name),
                      k < stack[f].next
               PROVE  \/ mark'[NeedsOf(stack[f].name)[k]] = "done"
                      \/ /\ f < len - 1
                         /\ stack'[f + 1].name = NeedsOf(stack[f].name)[k]
    <3>1. plan' = plan
      BY <1>1
    <3> SUFFICES ASSUME NEW f \in DOMAIN stack', NEW k \in DOMAIN plan.needs[stack'[f].name],
                        k < stack'[f].next
                 PROVE  \/ mark'[plan.needs[stack'[f].name][k]] = "done"
                        \/ /\ f < Len(stack')
                           /\ stack'[f + 1].name = plan.needs[stack'[f].name][k]
      BY <3>1 DEF FrameInv, NeedsOf
    <3>2. f \in 1 .. len - 1 /\ stack'[f] = stack[f] /\ Len(stack') = len - 1
      BY <1>3
    <3> QED BY <3>2 DEF NeedsOf
  <2>1. \/ mark[NeedsOf(stack[f].name)[k]] = "done"
        \/ stack[f + 1].name = NeedsOf(stack[f].name)[k]
    BY <1>1, <1>3 DEF IInv, FrameInv
  <2>2. stack[f].name \in Names
    BY <1>1, <1>3 DEF PlanTypeOK, Frame
  <2>3. NeedsOf(stack[f].name)[k] \in Names
    BY <1>1, <2>2, PlanShape
  <2>4. CASE f < len - 1
    <3>1. f + 1 \in 1 .. len - 1
      BY <1>2, <2>4
    <3> QED BY <1>3, <1>5, <2>1, <2>3, <2>4, <3>1
  <2>5. CASE f = len - 1
    <3>1. stack[f + 1].name = n
      BY <1>2, <2>5 DEF n
    <3> QED BY <1>5, <2>1, <2>3, <3>1
  <2> QED BY <1>2, <2>4, <2>5
<1>10. RootInv'
  <2>1. \A i \in 1 .. at : Order[i] \in Names
    BY <1>1, PlanShape DEF PlanTypeOK
  <2>2. \A i \in 1 .. at' : mark'[Order'[i]] # "new"
    BY <1>1, <1>5, <2>1 DEF IInv, RootInv
  <2>3. \A m \in Names : mark'[m] # "new" => m \in Declared
    BY <1>5 DEF IInv, RootInv
  <2> QED BY <1>1, <2>2, <2>3 DEF IInv, RootInv, Declared, NeedsOf
<1>11. NeedsComeFirst'
  <2> SUFFICES ASSUME NEW i \in 1 .. Len(ordered) + 1,
                      NEW k \in DOMAIN NeedsOf(ordered'[i])
               PROVE  \E j \in 1 .. i - 1 : ordered'[j] = NeedsOf(ordered'[i])[k]
    <3>1. plan' = plan
      BY <1>1
    <3> QED BY <1>4, <3>1 DEF NeedsComeFirst, NeedsOf
  <2>1. CASE i \in 1 .. Len(ordered)
    <3>1. PICK j \in 1 .. i - 1 : ordered[j] = NeedsOf(ordered[i])[k]
      BY <1>4, <2>1 DEF IInv, NeedsComeFirst
    <3>2. j \in 1 .. Len(ordered)
      BY <1>4, <2>1
    <3> QED BY <1>4, <2>1, <3>1, <3>2
  <2>2. CASE i = Len(ordered) + 1
    <3>1. ordered'[i] = n /\ k \in DOMAIN NeedsOf(n)
      BY <1>4, <2>2
    <3>2. k < Top.next
      BY <1>1, <1>2, <3>1, PlanShape DEF n
    <3>3. mark[NeedsOf(n)[k]] = "done"
      BY <1>1, <1>2, <3>1, <3>2 DEF IInv, FrameInv, n
    <3>4. NeedsOf(n)[k] \in Names
      BY <1>1, <1>2, <3>1, PlanShape
    <3>5. PICK j \in 1 .. Len(ordered) : ordered[j] = NeedsOf(n)[k]
      BY <1>4, <3>3, <3>4 DEF IInv, MarkInv
    <3> QED BY <1>4, <2>2, <3>1, <3>5
  <2> QED BY <1>4, <2>1, <2>2
<1>12. RefusedIsCyclic'
  BY <1>1 DEF RefusedIsCyclic
<1>13. LevelInv'
  <2>1. placed = 0 /\ need = 1 /\ level = 0
    BY <1>1 DEF IInv, LevelInv
  <2>2. placed' = 0 /\ need' = 1 /\ level' = 0 /\ verdict' = "sorting"
    BY <1>1, <2>1 DEF waveVars
  <2>3. ordered'[1] \in Names /\ Current' = ordered'[1]
    BY <1>4, <2>2 DEF Current
  <2>4. DOMAIN NeedsOf(ordered'[1]) \subseteq Nat \ {0}
    BY <1>1, <2>3, PlanShape
  <2>5. DOMAIN NeedsOf(Current)' = DOMAIN NeedsOf(ordered'[1])
    BY <1>1, <2>3 DEF NeedsOf
  <2>6. \A k \in DOMAIN NeedsOf(Current)' : ~(k < need')
    BY <2>2, <2>4, <2>5
  <2>7. 1 .. placed' = {}
    BY <2>2
  <2> QED BY <2>2, <2>6, <2>7 DEF LevelInv
<1> QED BY <1>6, <1>7, <1>8, <1>9, <1>10, <1>11, <1>12, <1>13 DEF IInv

LEMMA SortedKeepsIInv == IInv /\ Sorted => IInv'
<1> SUFFICES ASSUME IInv, Sorted PROVE IInv'
  OBVIOUS
<1> USE DEF IInv, Sorted, sortVars, waveVars
<1>1. PlanTypeOK'
  BY DEF PlanTypeOK, Order
<1>2. MarkInv' /\ TrailInv' /\ FrameInv'
  BY DEF MarkInv, TrailInv, FrameInv, NeedsOf
<1>3. RootInv'
  BY DEF RootInv, NeedsOf, Declared, Order
<1>4. NeedsComeFirst' /\ RefusedIsCyclic'
  BY DEF NeedsComeFirst, RefusedIsCyclic, NeedsOf
<1>5. LevelInv'
  BY DEF LevelInv, Current, NeedsOf
<1> QED BY <1>1, <1>2, <1>3, <1>4, <1>5

-----------------------------------------------------------------------------
(***************************************************************************)
(* planWaves.                                                              *)
(***************************************************************************)

\* What planWaves leaves alone stays true.
LEMMA PlacingLeavesRest ==
  ASSUME IInv, verdict = "placing", verdict' \in {"placing", "waves"},
         UNCHANGED <<plan, sortVars>>
  PROVE  MarkInv' /\ TrailInv' /\ FrameInv' /\ RootInv' /\ NeedsComeFirst' /\ RefusedIsCyclic'
<1> USE DEF IInv, sortVars
<1>1. MarkInv' /\ TrailInv' /\ FrameInv'
  BY DEF MarkInv, TrailInv, FrameInv, NeedsOf
<1>2. RootInv'
  BY DEF RootInv, NeedsOf, Declared, Order
<1>3. NeedsComeFirst' /\ RefusedIsCyclic'
  BY DEF NeedsComeFirst, RefusedIsCyclic, NeedsOf
<1> QED BY <1>1, <1>2, <1>3

\* The step being placed is one of the names.
LEMMA CurrentShape ==
  ASSUME PlanTypeOK, placed < Len(ordered)
  PROVE  /\ plan \in Plans /\ placed \in Nat /\ placed + 1 \in DOMAIN ordered
         /\ Current \in Names /\ Current = ordered[placed + 1]
         /\ DOMAIN NeedsOf(Current) = 1 .. Len(NeedsOf(Current))
         /\ Len(NeedsOf(Current)) \in Nat
         /\ \A k \in DOMAIN NeedsOf(Current) : NeedsOf(Current)[k] \in Names
<1>1. /\ plan \in Plans /\ placed \in Nat /\ placed + 1 \in DOMAIN ordered
      /\ Current \in Names /\ Current = ordered[placed + 1]
  BY DEF PlanTypeOK, Current
<1> QED BY <1>1, PlanShape

LEMMA ReduceKeepsIInv == IInv /\ Reduce => IInv'
<1> SUFFICES ASSUME IInv, Reduce PROVE IInv'
  OBVIOUS
<1> DEFINE m == NeedsOf(Current)[need]
<1>1. /\ PlanTypeOK /\ verdict = "placing" /\ placed < Len(ordered)
      /\ need \in Nat \ {0} /\ need <= Len(NeedsOf(Current)) /\ level \in Nat
      /\ depth \in [Names -> Nat]
      /\ need' = need + 1 /\ level' = Raised(m)
      /\ plan' = plan /\ ordered' = ordered /\ placed' = placed /\ depth' = depth
      /\ verdict' = verdict /\ Current' = Current
  BY DEF IInv, PlanTypeOK, Reduce, sortVars, Current
<1>2. need \in DOMAIN NeedsOf(Current) /\ m \in Names
  BY <1>1, CurrentShape
<1>3. level' \in Nat /\ level' >= level /\ level' > depth[m]
  BY <1>1, <1>2 DEF Raised
<1>4. PlanTypeOK'
  BY <1>1, <1>3 DEF PlanTypeOK, Reduce, sortVars, Order
<1>5. LevelInv'
  <2>1. \A k \in DOMAIN NeedsOf(Current) : k < need + 1 => depth[NeedsOf(Current)[k]] < level'
    <3> SUFFICES ASSUME NEW k \in DOMAIN NeedsOf(Current), k < need + 1
                 PROVE  depth[NeedsOf(Current)[k]] < level'
      OBVIOUS
    <3>1. k \in Nat /\ NeedsOf(Current)[k] \in Names
      BY <1>1, CurrentShape
    <3>2. CASE k = need
      BY <1>3, <3>2
    <3>3. CASE k < need
      <4>1. depth[NeedsOf(Current)[k]] < level
        BY <1>1, <3>3 DEF IInv, LevelInv
      <4> QED BY <1>1, <1>3, <3>1, <4>1
    <3> QED BY <1>1, <3>1, <3>2, <3>3
  <2>2. \A i \in 1 .. placed : \A k \in DOMAIN NeedsOf(ordered[i]) :
          depth[NeedsOf(ordered[i])[k]] < depth[ordered[i]]
    BY DEF IInv, LevelInv
  <2> QED BY <1>1, <2>1, <2>2 DEF LevelInv, NeedsOf
<1> QED BY <1>1, <1>4, <1>5, PlacingLeavesRest DEF IInv, Reduce

LEMMA PlaceKeepsIInv == IInv /\ Place => IInv'
<1> SUFFICES ASSUME IInv, Place PROVE IInv'
  OBVIOUS
<1>1. /\ PlanTypeOK /\ verdict = "placing" /\ placed < Len(ordered)
      /\ need \in Nat \ {0} /\ need > Len(NeedsOf(Current)) /\ level \in Nat
      /\ depth \in [Names -> Nat] /\ ordered \in Seq(Names)
      /\ placed' = placed + 1 /\ need' = 1 /\ level' = 0
      /\ depth' = [depth EXCEPT ![Current] = level]
      /\ plan' = plan /\ ordered' = ordered /\ verdict' = verdict
      /\ UNCHANGED sortVars
  BY DEF IInv, PlanTypeOK, Place, Fresh, sortVars
<1>2. /\ plan \in Plans /\ placed \in Nat /\ placed + 1 \in DOMAIN ordered
      /\ Current \in Names /\ Current = ordered[placed + 1]
      /\ Len(ordered) \in Nat /\ DOMAIN ordered = 1 .. Len(ordered)
  BY <1>1, CurrentShape
<1>3. PlanTypeOK'
  BY <1>1, <1>2 DEF PlanTypeOK, sortVars, Order
\* A step placed earlier, and what it needs, is not the one placed now.
<1>4. \A i \in 1 .. placed : \A k \in DOMAIN NeedsOf(ordered[i]) :
        /\ ordered[i] \in Names /\ NeedsOf(ordered[i])[k] \in Names
        /\ depth'[ordered[i]] = depth[ordered[i]]
        /\ depth'[NeedsOf(ordered[i])[k]] = depth[NeedsOf(ordered[i])[k]]
  <2> SUFFICES ASSUME NEW i \in 1 .. placed, NEW k \in DOMAIN NeedsOf(ordered[i])
               PROVE  /\ ordered[i] \in Names /\ NeedsOf(ordered[i])[k] \in Names
                      /\ depth'[ordered[i]] = depth[ordered[i]]
                      /\ depth'[NeedsOf(ordered[i])[k]] = depth[NeedsOf(ordered[i])[k]]
    OBVIOUS
  <2>1. i \in DOMAIN ordered /\ i # placed + 1 /\ ordered[i] \in Names
    BY <1>1, <1>2
  <2>2. PICK j \in 1 .. i - 1 : ordered[j] = NeedsOf(ordered[i])[k]
    BY <2>1 DEF IInv, NeedsComeFirst
  <2>3. j \in DOMAIN ordered /\ j # placed + 1
    BY <1>1, <1>2, <2>2
  <2>4. ordered[i] # Current /\ NeedsOf(ordered[i])[k] # Current
    BY <1>2, <2>1, <2>2, <2>3 DEF IInv, MarkInv
  <2>5. NeedsOf(ordered[i])[k] \in Names
    BY <1>2, <2>1, PlanShape
  <2> QED BY <1>1, <2>1, <2>4, <2>5
\* What it needs itself is placed earlier too.
<1>5. \A k \in DOMAIN NeedsOf(Current) :
        depth'[NeedsOf(Current)[k]] < depth'[Current]
  <2> SUFFICES ASSUME NEW k \in DOMAIN NeedsOf(Current)
               PROVE  depth'[NeedsOf(Current)[k]] < depth'[Current]
    OBVIOUS
  <2>1. k < need /\ NeedsOf(Current)[k] \in Names
    BY <1>1, CurrentShape
  <2>2. depth[NeedsOf(Current)[k]] < level
    BY <1>1, <2>1 DEF IInv, LevelInv
  <2>3. PICK j \in 1 .. placed : ordered[j] = NeedsOf(Current)[k]
    BY <1>2 DEF IInv, NeedsComeFirst
  <2>4. NeedsOf(Current)[k] # Current
    <3>1. j \in DOMAIN ordered /\ j # placed + 1
      BY <1>1, <1>2
    <3> QED BY <1>2, <2>3, <3>1 DEF IInv, MarkInv
  <2> QED BY <1>1, <1>2, <2>1, <2>2, <2>4
<1>6. LevelInv'
  <2>1. \A i \in 1 .. placed + 1 : \A k \in DOMAIN NeedsOf(ordered[i]) :
          depth'[NeedsOf(ordered[i])[k]] < depth'[ordered[i]]
    <3> SUFFICES ASSUME NEW i \in 1 .. placed + 1, NEW k \in DOMAIN NeedsOf(ordered[i])
                 PROVE  depth'[NeedsOf(ordered[i])[k]] < depth'[ordered[i]]
      OBVIOUS
    <3>1. CASE i \in 1 .. placed
      <4>1. depth[NeedsOf(ordered[i])[k]] < depth[ordered[i]]
        BY <3>1 DEF IInv, LevelInv
      <4> QED BY <1>4, <3>1, <4>1
    <3>2. CASE i = placed + 1
      BY <1>2, <1>5, <3>2
    <3> QED BY <1>2, <3>1, <3>2
  <2>2. placed' < Len(ordered') => \A k \in DOMAIN NeedsOf(Current)' : k < need' => FALSE
    <3>1. SUFFICES ASSUME placed' < Len(ordered')
                   PROVE  DOMAIN NeedsOf(Current)' \subseteq Nat \ {0}
      BY <1>1
    <3>2. Current' = ordered[placed + 2] /\ ordered[placed + 2] \in Names
      BY <1>1, <1>2, <3>1 DEF Current
    <3>3. DOMAIN NeedsOf(ordered[placed + 2]) \subseteq Nat \ {0}
      BY <1>2, <3>2, PlanShape
    <3> QED BY <1>1, <3>2, <3>3 DEF NeedsOf
  <2> QED BY <1>1, <2>1, <2>2 DEF LevelInv, NeedsOf
<1> QED BY <1>1, <1>3, <1>6, PlacingLeavesRest DEF IInv

LEMMA PlacedKeepsIInv == IInv /\ Placed => IInv'
<1> SUFFICES ASSUME IInv, Placed PROVE IInv'
  OBVIOUS
<1>1. /\ verdict = "placing" /\ verdict' = "waves" /\ placed = Len(ordered)
      /\ UNCHANGED <<plan, sortVars, waveVars>>
  BY DEF Placed
<1>2. PlanTypeOK'
  BY <1>1 DEF IInv, PlanTypeOK, sortVars, waveVars, Order
<1>3. LevelInv'
  BY <1>1 DEF IInv, LevelInv, sortVars, waveVars, Current, NeedsOf
<1> QED BY <1>1, <1>2, <1>3, PlacingLeavesRest DEF IInv

-----------------------------------------------------------------------------
(***************************************************************************)
(* The theorems.                                                           *)
(***************************************************************************)

LEMMA StepKeepsIInv == IInv /\ [PlanStep]_planVars => IInv'
<1> SUFFICES ASSUME IInv, [PlanStep]_planVars PROVE IInv'
  OBVIOUS
<1>1. CASE CheckNeeds BY <1>1, CheckKeepsIInv
<1>2. CASE VisitRoot BY <1>2, RootKeepsIInv
<1>3. CASE VisitNeed BY <1>3, NeedKeepsIInv
<1>4. CASE Return BY <1>4, ReturnKeepsIInv
<1>5. CASE Sorted BY <1>5, SortedKeepsIInv
<1>6. CASE Reduce BY <1>6, ReduceKeepsIInv
<1>7. CASE Place BY <1>7, PlaceKeepsIInv
<1>8. CASE Placed BY <1>8, PlacedKeepsIInv
<1>9. CASE UNCHANGED planVars
  <2> USE <1>9 DEF IInv, planVars, sortVars, waveVars
  <2>1. PlanTypeOK'
    BY DEF PlanTypeOK, Order
  <2>2. MarkInv' /\ TrailInv' /\ FrameInv'
    BY DEF MarkInv, TrailInv, FrameInv, NeedsOf
  <2>3. RootInv'
    BY DEF RootInv, NeedsOf, Declared, Order
  <2>4. NeedsComeFirst' /\ RefusedIsCyclic'
    BY DEF NeedsComeFirst, RefusedIsCyclic, NeedsOf, Top
  <2>5. LevelInv'
    BY DEF LevelInv, Current, NeedsOf
  <2> QED BY <2>1, <2>2, <2>3, <2>4, <2>5
<1> QED BY <1>1, <1>2, <1>3, <1>4, <1>5, <1>6, <1>7, <1>8, <1>9 DEF PlanStep

LEMMA PlanInvariant == PlanSpec => []IInv
BY InitIInv, StepKeepsIInv, PTL DEF PlanSpec

LEMMA IInvSorts == IInv => SortIsRight
<1> SUFFICES ASSUME IInv PROVE AcceptedIsComplete
  BY DEF IInv, SortIsRight
<1> SUFFICES ASSUME verdict \in {"placing", "waves"} PROVE Elems(ordered) = Declared
  BY DEF IInv, MarkInv, AcceptedIsComplete
<1>1. plan \in Plans /\ stack = <<>> /\ at = Len(Order) /\ mark \in [Names -> {"new", "visiting", "done"}]
      /\ ordered \in Seq(Names)
  BY DEF IInv, PlanTypeOK, RootInv
<1>2. \A n \in Names : mark[n] # "visiting"
  <2>1. DOMAIN stack = {}
    BY <1>1
  <2> QED BY <2>1 DEF IInv, MarkInv
<1>3. ASSUME NEW n \in Declared PROVE n \in Elems(ordered)
  <2>1. PICK i \in DOMAIN Order : Order[i] = n
    BY DEF Declared, Elems
  <2>2. i \in 1 .. at /\ n \in Names
    BY <1>1, <2>1, PlanShape
  <2>3. mark[n] = "done"
    BY <1>1, <1>2, <2>1, <2>2 DEF IInv, RootInv
  <2> QED BY <2>2, <2>3 DEF IInv, MarkInv, Elems
<1>4. ASSUME NEW n \in Elems(ordered) PROVE n \in Declared
  <2>1. PICK i \in DOMAIN ordered : ordered[i] = n
    BY DEF Elems
  <2>2. n \in Names
    BY <1>1, <2>1
  <2>3. mark[n] = "done"
    BY <2>1, <2>2 DEF IInv, MarkInv
  <2> QED BY <2>2, <2>3 DEF IInv, RootInv
<1> QED BY <1>3, <1>4

LEMMA IInvSeparates == IInv => WavesSeparate
<1> USE IInvSorts
<1> SUFFICES ASSUME IInv, SortIsRight, verdict = "waves",
                    NEW n \in Declared, NEW m \in Elems(NeedsOf(n))
             PROVE  depth[m] < depth[n]
  BY DEF WavesSeparate
<1>1. placed = Len(ordered) /\ ordered \in Seq(Names)
  BY DEF IInv, LevelInv, PlanTypeOK
<1>2. PICK i \in DOMAIN ordered : ordered[i] = n
  BY DEF SortIsRight, AcceptedIsComplete, Elems
<1>3. i \in 1 .. placed
  BY <1>1, <1>2
<1>4. PICK k \in DOMAIN NeedsOf(n) : NeedsOf(n)[k] = m
  BY DEF Elems
<1> QED BY <1>2, <1>3, <1>4 DEF IInv, LevelInv

\* topoSort is in the order of dependencies at every moment of the sort, refuses as
\* a cycle only what is one, and otherwise returns every declared step, once.
THEOREM SortIsSoundAndComplete == PlanSpec => []SortIsRight
BY IInvSorts, PlanInvariant, PTL

\* planWaves: steps that start together do not need each other, whatever the
\* plan; every need is in an earlier wave.
THEOREM WavesRespectNeeds == PlanSpec => []WavesSeparate
BY IInvSeparates, PlanInvariant, PTL

-----------------------------------------------------------------------------
(***************************************************************************)
(* The waves are tight.  Level is a recursive function, so what is shown   *)
(* of it rests on two facts: the depths solve its equation, and by         *)
(* induction on the depth nothing else does.                               *)
(***************************************************************************)

\* A step that is placed above the first wave is just above one of its needs, and
\* so is the accumulator.
TightInv ==
  /\ \A i \in 1 .. placed :
       \/ depth[ordered[i]] = 0
       \/ \E k \in DOMAIN NeedsOf(ordered[i]) : depth[ordered[i]] = depth[NeedsOf(ordered[i])[k]] + 1
  /\ \/ level = 0
     \/ /\ placed < Len(ordered)
        /\ \E k \in DOMAIN NeedsOf(Current) : level = depth[NeedsOf(Current)[k]] + 1

LEMMA InitIsTight == PlanInit => TightInv
BY DEF PlanInit, TightInv

LEMMA ReduceKeepsTight ==
  ASSUME IInv, TightInv, Reduce
  PROVE  TightInv'
<1>1. /\ PlanTypeOK /\ placed < Len(ordered)
      /\ need \in Nat \ {0} /\ need <= Len(NeedsOf(Current))
      /\ level' = Raised(NeedsOf(Current)[need])
      /\ UNCHANGED <<plan, ordered, placed, depth>>
  BY DEF IInv, PlanTypeOK, Reduce, sortVars
<1>2. need \in DOMAIN NeedsOf(Current)
  BY <1>1, CurrentShape
<1>3. level' = level \/ level' = depth[NeedsOf(Current)[need]] + 1
  BY <1>1 DEF Raised
<1> QED BY <1>1, <1>2, <1>3 DEF TightInv, Current, NeedsOf

LEMMA PlaceKeepsTight ==
  ASSUME IInv, TightInv, Place
  PROVE  TightInv'
<1>1. /\ PlanTypeOK /\ placed < Len(ordered) /\ depth \in [Names -> Nat]
      /\ placed' = placed + 1 /\ level' = 0 /\ depth' = [depth EXCEPT ![Current] = level]
      /\ UNCHANGED <<plan, ordered>>
  BY DEF IInv, PlanTypeOK, Place, Fresh, sortVars
<1>2. /\ plan \in Plans /\ placed \in Nat /\ placed + 1 \in DOMAIN ordered
      /\ Current \in Names /\ Current = ordered[placed + 1]
      /\ DOMAIN ordered = 1 .. Len(ordered) /\ Len(ordered) \in Nat /\ ordered \in Seq(Names)
  BY <1>1, CurrentShape DEF PlanTypeOK
\* What is placed before is another step, and so is what a placed step needs.
<1>3. ASSUME NEW i \in 1 .. placed + 1, NEW k \in DOMAIN NeedsOf(ordered[i])
      PROVE  NeedsOf(ordered[i])[k] \in Names /\ NeedsOf(ordered[i])[k] # Current
  <2>1. i \in DOMAIN ordered /\ ordered[i] \in Names
    BY <1>1, <1>2
  <2>2. PICK j \in 1 .. i - 1 : ordered[j] = NeedsOf(ordered[i])[k]
    BY <2>1 DEF IInv, NeedsComeFirst
  <2>3. j \in DOMAIN ordered /\ j # placed + 1
    BY <1>1, <1>2, <2>1, <2>2
  <2> QED BY <1>2, <2>1, <2>2, <2>3 DEF IInv, MarkInv
<1>4. ASSUME NEW i \in 1 .. placed
      PROVE  ordered[i] \in Names /\ ordered[i] # Current
  <2>1. i \in DOMAIN ordered /\ i # placed + 1
    BY <1>1, <1>2
  <2> QED BY <1>2, <2>1 DEF IInv, MarkInv
<1>5. ASSUME NEW i \in 1 .. placed + 1
      PROVE  \/ depth'[ordered[i]] = 0
             \/ \E k \in DOMAIN NeedsOf(ordered[i]) :
                  depth'[ordered[i]] = depth'[NeedsOf(ordered[i])[k]] + 1
  <2>1. CASE i \in 1 .. placed
    BY <1>1, <1>2, <1>3, <1>4, <2>1 DEF TightInv
  <2>2. CASE i = placed + 1
    <3>1. depth'[ordered[i]] = level
      BY <1>1, <1>2, <2>2
    <3>2. level = 0 \/ \E k \in DOMAIN NeedsOf(ordered[i]) : level = depth[NeedsOf(ordered[i])[k]] + 1
      BY <1>2, <2>2 DEF TightInv
    <3> QED BY <1>1, <1>3, <3>1, <3>2
  <2> QED BY <1>2, <2>1, <2>2
<1> QED BY <1>1, <1>5 DEF TightInv, NeedsOf

LEMMA StepKeepsTight == IInv /\ TightInv /\ [PlanStep]_planVars => TightInv'
<1> SUFFICES ASSUME IInv, TightInv, [PlanStep]_planVars PROVE TightInv'
  OBVIOUS
<1>1. CASE CheckNeeds \/ VisitRoot \/ VisitNeed \/ Return \/ Sorted
  <2>1. /\ placed = 0 /\ level = 0 /\ UNCHANGED waveVars
    BY <1>1 DEF IInv, LevelInv, CheckNeeds, VisitRoot, VisitNeed, Return, Sorted
  <2>2. placed' = 0 /\ level' = 0
    BY <2>1 DEF waveVars
  <2> QED BY <2>2 DEF TightInv
<1>2. CASE Placed \/ UNCHANGED planVars
  <2>1. UNCHANGED <<plan, sortVars, waveVars>>
    BY <1>2 DEF Placed, planVars
  <2> QED BY <2>1 DEF TightInv, sortVars, waveVars, Current, NeedsOf
<1>3. CASE Reduce
  BY <1>3, ReduceKeepsTight
<1>4. CASE Place
  BY <1>4, PlaceKeepsTight
<1> QED BY <1>1, <1>2, <1>3, <1>4 DEF PlanStep

LEMMA LeastNatural ==
  ASSUME NEW T \in SUBSET Nat, T # {}
  PROVE  \E x \in T : \A y \in T : ~(y < x)
<1>1. PICK x \in T : \A y \in T : <<y, x>> \notin OpToRel(<, Nat)
  BY NatLessThanWellFounded, WFMin
<1>2. ASSUME NEW y \in T, y < x PROVE FALSE
  <2>1. <<y, x>> \in OpToRel(<, Nat)
    BY <1>2 DEF OpToRel
  <2> QED BY <1>1, <2>1
<1> QED BY <1>2

\* The equation of CiWaves!Level.
Solves(f) ==
  f = [s \in Declared |->
         IF [n \in Declared |-> Elems(NeedsOf(n))][s] = {} THEN 0
         ELSE 1 + Reference!Max({f[n] : n \in [m \in Declared |-> Elems(NeedsOf(m))][s]})]

LEMMA LevelIsASolution ==
  ASSUME NEW f, Solves(f)
  PROVE  Solves(Reference!Level)
<1>1. Reference!Level = CHOOSE g : Solves(g)
  BY Zenon DEF Reference!Level, Solves
<1> QED BY <1>1

LEMMA SolutionAt ==
  ASSUME NEW f, Solves(f), NEW s \in Declared
  PROVE  f[s] = IF Elems(NeedsOf(s)) = {} THEN 0
                ELSE 1 + Reference!Max({f[n] : n \in Elems(NeedsOf(s))})
<1>1. [n \in Declared |-> Elems(NeedsOf(n))][s] = Elems(NeedsOf(s))
  OBVIOUS
<1>2. f[s] = IF [n \in Declared |-> Elems(NeedsOf(n))][s] = {} THEN 0
             ELSE 1 + Reference!Max({f[n] : n \in [m \in Declared |-> Elems(NeedsOf(m))][s]})
  BY Zenon DEF Solves
<1> QED BY <1>1, <1>2

LEMMA MaxIs ==
  ASSUME NEW S \in SUBSET Nat, NEW x \in S, \A y \in S : y <= x
  PROVE  Reference!Max(S) = x
<1>1. \A y \in S : x >= y
  OBVIOUS
<1>2. Reference!Max(S) \in S /\ \A y \in S : Reference!Max(S) >= y
  BY <1>1 DEF Reference!Max
<1> DEFINE m == Reference!Max(S)
<1>3. m \in S /\ m >= x /\ m <= x
  BY <1>2
<1> HIDE DEF m
<1>4. m \in Nat /\ x \in Nat
  BY <1>3
<1>5. m = x
  BY <1>3, <1>4
<1> QED BY <1>5 DEF m

LEMMA IInvIsTight == IInv /\ TightInv => WavesAreTight
<1> SUFFICES ASSUME IInv, TightInv, verdict = "waves"
             PROVE  \A n \in Declared : n \in Reference!Wave(depth[n])
  BY DEF WavesAreTight
<1>1. /\ placed = Len(ordered) /\ ordered \in Seq(Names) /\ depth \in [Names -> Nat]
      /\ Declared \subseteq Names /\ WavesSeparate
      /\ \A n \in Declared : Elems(NeedsOf(n)) \subseteq Declared
  BY PlanShape, IInvSeparates DEF IInv, LevelInv, PlanTypeOK, RootInv
<1>2. \A n \in Declared : \E i \in 1 .. placed : ordered[i] = n
  <2>1. Elems(ordered) = Declared
    BY IInvSorts DEF SortIsRight, AcceptedIsComplete
  <2> QED BY <1>1, <2>1 DEF Elems
<1>3. ASSUME NEW n \in Declared
      PROVE  /\ \A m \in Elems(NeedsOf(n)) : depth[m] < depth[n]
             /\ depth[n] = 0 \/ \E m \in Elems(NeedsOf(n)) : depth[n] = depth[m] + 1
  <2>1. PICK i \in 1 .. placed : ordered[i] = n
    BY <1>2
  <2>2. \A m \in Elems(NeedsOf(n)) : depth[m] < depth[n]
    BY <1>1 DEF WavesSeparate
  <2>3. depth[n] = 0 \/ \E k \in DOMAIN NeedsOf(n) : depth[n] = depth[NeedsOf(n)[k]] + 1
    BY <2>1 DEF TightInv
  <2> QED BY <2>2, <2>3 DEF Elems
<1> DEFINE d == [n \in Declared |-> depth[n]]
\* The longest of the chains below the needs.
<1>4. ASSUME NEW n \in Declared, Elems(NeedsOf(n)) # {}
      PROVE  Reference!Max({depth[m] : m \in Elems(NeedsOf(n))}) = depth[n] - 1
  <2> DEFINE S == {depth[m] : m \in Elems(NeedsOf(n))}
  <2>1. S \in SUBSET Nat /\ depth[n] \in Nat
    BY <1>1
  <2>2. depth[n] # 0
    BY <1>1, <1>3, <1>4
  <2>3. depth[n] - 1 \in S
    BY <1>1, <1>3, <2>2
  <2>4. \A y \in S : y <= depth[n] - 1
    BY <1>1, <1>3
  <2> HIDE DEF S
  <2>5. Reference!Max(S) = depth[n] - 1
    BY <2>1, <2>3, <2>4, MaxIs
  <2> QED BY <2>5 DEF S
<1>5. Solves(d)
  <2>1. ASSUME NEW s \in Declared
        PROVE  d[s] = IF Elems(NeedsOf(s)) = {} THEN 0
                      ELSE 1 + Reference!Max({d[n] : n \in Elems(NeedsOf(s))})
    <3>1. {d[n] : n \in Elems(NeedsOf(s))} = {depth[n] : n \in Elems(NeedsOf(s))}
      BY <1>1
    <3>2. CASE Elems(NeedsOf(s)) = {}
      BY <1>3, <3>2
    <3>3. CASE Elems(NeedsOf(s)) # {}
      <4>1. Reference!Max({d[n] : n \in Elems(NeedsOf(s))}) = depth[s] - 1
        BY <1>4, <3>1, <3>3
      <4>2. depth[s] \in Nat /\ d[s] = depth[s]
        BY <1>1
      <4>3. d[s] = 1 + Reference!Max({d[n] : n \in Elems(NeedsOf(s))})
        BY <4>1, <4>2
      <4> QED BY <3>3, <4>3
    <3> QED BY <3>2, <3>3
  <2>2. \A s \in Declared : [n \in Declared |-> Elems(NeedsOf(n))][s] = Elems(NeedsOf(s))
    OBVIOUS
  <2>3. d = [s \in Declared |-> d[s]]
    OBVIOUS
  <2> HIDE DEF d
  <2>4. ASSUME NEW s \in Declared
        PROVE  d[s] = IF [n \in Declared |-> Elems(NeedsOf(n))][s] = {} THEN 0
                      ELSE 1 + Reference!Max({d[n] : n \in [m \in Declared |-> Elems(NeedsOf(m))][s]})
    BY <2>1, <2>2, Zenon
  <2> QED BY <2>3, <2>4, Zenon DEF Solves
<1> DEFINE lev == Reference!Level
<1>6. Solves(lev)
  BY <1>5, LevelIsASolution
<1>7. ASSUME NEW n \in Declared, \A m \in Elems(NeedsOf(n)) : lev[m] = depth[m]
      PROVE  lev[n] = depth[n]
  <2> HIDE DEF lev
  <2>1. {lev[m] : m \in Elems(NeedsOf(n))} = {depth[m] : m \in Elems(NeedsOf(n))}
    BY <1>7
  <2>2. lev[n] = IF Elems(NeedsOf(n)) = {} THEN 0
                 ELSE 1 + Reference!Max({lev[m] : m \in Elems(NeedsOf(n))})
    BY <1>6, SolutionAt
  <2>3. depth[n] \in Nat
    BY <1>1
  <2>4. CASE Elems(NeedsOf(n)) = {}
    BY <1>3, <2>2, <2>4
  <2>5. CASE Elems(NeedsOf(n)) # {}
    <3>1. Reference!Max({lev[m] : m \in Elems(NeedsOf(n))}) = depth[n] - 1
      BY <1>4, <2>1, <2>5
    <3>2. lev[n] = 1 + (depth[n] - 1)
      BY <2>2, <2>5, <3>1
    <3> QED BY <2>3, <3>2
  <2> QED BY <2>4, <2>5
<1>8. \A n \in Declared : lev[n] = depth[n]
  <2> HIDE DEF lev
  <2> DEFINE T == {depth[n] : n \in {m \in Declared : lev[m] # depth[m]}}
  <2> SUFFICES ASSUME T # {} PROVE FALSE
    OBVIOUS
  <2>1. T \in SUBSET Nat
    BY <1>1
  <2>2. PICK x \in T : \A y \in T : ~(y < x)
    BY <2>1, LeastNatural
  <2>3. PICK n \in Declared : lev[n] # depth[n] /\ x = depth[n]
    BY <2>2
  <2>4. ASSUME NEW m \in Elems(NeedsOf(n)), lev[m] # depth[m] PROVE FALSE
    <3>1. m \in Declared /\ depth[m] < x
      BY <1>1, <1>3, <2>3
    <3>2. depth[m] \in T
      BY <2>4, <3>1
    <3> QED BY <2>2, <3>1, <3>2
  <2> QED BY <1>7, <2>3, <2>4
<1> QED BY <1>8 DEF Reference!Wave

\* planWaves: no step waits longer than what it needs asks for, or runs beside it; the
\* wave of a step is the length of the longest chain below it.
THEOREM WavesAreAsNeeded == PlanSpec => []WavesAreRight
<1>1. IInv /\ TightInv => WavesAreRight
  BY IInvSeparates, IInvIsTight DEF WavesAreRight
<1>2. PlanInit => IInv /\ TightInv
  BY InitIInv, InitIsTight
<1>3. IInv /\ TightInv /\ [PlanStep]_planVars => IInv' /\ TightInv'
  BY StepKeepsIInv, StepKeepsTight
<1> QED BY <1>1, <1>2, <1>3, PTL DEF PlanSpec

-----------------------------------------------------------------------------
(***************************************************************************)
(* The planner ends.  What is left are numbers only as long as no loop     *)
(* runs past its end; steps never visited can be counted, for the plan is  *)
(* a sequence, and one that is entered is not entered again.               *)
(***************************************************************************)

PaceInv ==
  /\ \A f \in DOMAIN stack : stack[f].next <= Len(NeedsOf(stack[f].name)) + 1
  /\ placed < Len(ordered) => need <= Len(NeedsOf(Current)) + 1

LEMMA InitKeepsPace == PlanInit => PaceInv
BY DEF PlanInit, PaceInv

\* A visit goes on from a call that has needs ahead, and starts at the first need.
LEMMA VisitKeepsPace ==
  ASSUME IInv, PaceInv, NEW n \in Names, NEW callers \in Seq(Frame),
         \A f \in DOMAIN callers : callers[f].next <= Len(NeedsOf(callers[f].name)) + 1,
         verdict = "sorting", Visit(n, callers), UNCHANGED <<plan, ordered, waveVars>>
  PROVE  PaceInv'
<1>1. plan \in Plans /\ Len(NeedsOf(n)) \in Nat
  BY PlanShape DEF IInv, PlanTypeOK
<1>2. (placed < Len(ordered) => need <= Len(NeedsOf(Current)) + 1)'
  BY DEF PaceInv, waveVars, Current, NeedsOf
<1>3. CASE stack' = callers
  BY <1>2, <1>3 DEF PaceInv, NeedsOf
<1>4. CASE stack' = Append(callers, [name |-> n, next |-> 1])
  <2>1. [name |-> n, next |-> 1] \in Frame
    BY DEF Frame
  <2>2. /\ DOMAIN stack' = 1 .. Len(callers) + 1 /\ Len(callers) \in Nat
        /\ \A f \in 1 .. Len(callers) : stack'[f] = callers[f] /\ f \in DOMAIN callers
        /\ stack'[Len(callers) + 1] = [name |-> n, next |-> 1]
    BY <1>4, <2>1
  <2>3. ASSUME NEW f \in DOMAIN stack'
        PROVE  stack'[f].next <= Len(NeedsOf(stack'[f].name)) + 1
    <3>1. CASE f = Len(callers) + 1
      BY <1>1, <2>2, <3>1
    <3>2. CASE f \in 1 .. Len(callers)
      BY <2>2, <3>2
    <3> QED BY <2>2, <2>3, <3>1, <3>2
  <2> QED BY <1>2, <2>3 DEF PaceInv, NeedsOf
<1> QED BY <1>3, <1>4 DEF Visit

LEMMA StepKeepsPace == IInv /\ PaceInv /\ [PlanStep]_planVars => PaceInv'
<1> SUFFICES ASSUME IInv, PaceInv, [PlanStep]_planVars PROVE PaceInv'
  OBVIOUS
<1>1. plan \in Plans /\ PlanTypeOK
  BY DEF IInv, PlanTypeOK
<1>2. CASE CheckNeeds \/ Sorted \/ Placed \/ UNCHANGED planVars
  <2>1. UNCHANGED <<plan, sortVars, waveVars>>
    BY <1>2 DEF CheckNeeds, Sorted, Placed, planVars
  <2> QED BY <2>1 DEF PaceInv, sortVars, waveVars, Current, NeedsOf
<1>3. CASE VisitRoot
  <2>1. Order[at + 1] \in Names
    BY <1>1, <1>3, PlanShape DEF VisitRoot, PlanTypeOK
  <2>2. Visit(Order[at + 1], <<>>) /\ verdict = "sorting" /\ UNCHANGED <<plan, ordered, waveVars>>
    BY <1>3 DEF VisitRoot
  <2>3. <<>> \in Seq(Frame) /\ DOMAIN <<>> = {}
    OBVIOUS
  <2> QED BY <2>1, <2>2, <2>3, VisitKeepsPace
<1>4. CASE VisitNeed
  <2> DEFINE n == NeedsOf(Top.name)[Top.next]
             callers == [stack EXCEPT ![Len(stack)].next = @ + 1]
  <2>1. /\ stack # <<>> /\ Top.next <= Len(NeedsOf(Top.name)) /\ Visit(n, callers)
        /\ verdict = "sorting" /\ UNCHANGED <<plan, ordered, waveVars>>
    BY <1>4 DEF VisitNeed
  <2>2. /\ Len(stack) \in DOMAIN stack /\ Top = stack[Len(stack)]
        /\ Top.name \in Names /\ Top.next \in Nat \ {0}
    BY <1>1, <2>1, TopShape DEF Top
  <2>3. n \in Names /\ Len(NeedsOf(Top.name)) \in Nat
    BY <1>1, <2>1, <2>2, PlanShape
  <2>4. /\ callers \in Seq(Frame) /\ DOMAIN callers = DOMAIN stack
        /\ \A f \in DOMAIN stack : callers[f].name = stack[f].name
        /\ \A f \in DOMAIN stack : f < Len(stack) => callers[f] = stack[f]
        /\ callers[Len(stack)].next = Top.next + 1
    BY <1>1, <2>1, CallersAre
  <2> HIDE DEF callers
  <2>5. ASSUME NEW f \in DOMAIN callers
        PROVE  callers[f].next <= Len(NeedsOf(callers[f].name)) + 1
    <3>1. CASE f = Len(stack)
      <4>1. callers[f].next = Top.next + 1 /\ callers[f].name = Top.name
        BY <2>2, <2>4, <3>1
      <4> QED BY <2>1, <2>2, <2>3, <4>1
    <3>2. CASE f < Len(stack)
      BY <2>4, <2>5, <3>2 DEF PaceInv
    <3>3. f = Len(stack) \/ f < Len(stack)
      BY <1>1, <2>4 DEF PlanTypeOK
    <3> QED BY <3>1, <3>2, <3>3
  <2> QED BY <2>1, <2>3, <2>4, <2>5, VisitKeepsPace
<1>5. CASE Return
  <2>1. /\ verdict = "sorting" /\ stack # <<>> /\ stack' = SubSeq(stack, 1, Len(stack) - 1)
        /\ UNCHANGED <<plan, waveVars>> /\ ordered' = Append(ordered, Top.name)
    BY <1>5 DEF Return, Output
  <2>2. Top.name \in Names
    BY <1>1, <2>1, TopShape
  <2>3. /\ DOMAIN stack' = 1 .. Len(stack) - 1
        /\ \A f \in 1 .. Len(stack) - 1 : stack'[f] = stack[f] /\ f \in DOMAIN stack
    BY <1>1, <2>1, PoppedIs
  <2>4. ordered' \in Seq(Names) /\ Len(ordered') \in Nat
    BY <1>1, <2>1, <2>2 DEF PlanTypeOK
  <2>5. placed' = 0 /\ need' = 1
    BY <2>1 DEF IInv, LevelInv, waveVars
  <2>6. (placed < Len(ordered) => need <= Len(NeedsOf(Current)) + 1)'
    <3> SUFFICES ASSUME 0 < Len(ordered') PROVE 1 <= Len(plan.needs[ordered'[1]]) + 1
      BY <2>1, <2>5 DEF Current, NeedsOf
    <3>1. ordered'[1] \in Names
      BY <2>4
    <3> QED BY <1>1, <3>1, PlanShape DEF NeedsOf
  <2> QED BY <2>1, <2>3, <2>6 DEF PaceInv, NeedsOf
<1>6. CASE Reduce
  <2>1. /\ placed < Len(ordered) /\ need <= Len(NeedsOf(Current)) /\ need' = need + 1
        /\ UNCHANGED <<plan, sortVars, placed>>
    BY <1>6 DEF Reduce
  <2>2. Len(NeedsOf(Current)) \in Nat /\ need \in Nat
    BY <1>1, <2>1, CurrentShape DEF PlanTypeOK
  <2>3. need' <= Len(NeedsOf(Current)) + 1
    BY <2>1, <2>2
  <2> QED BY <2>1, <2>3 DEF PaceInv, sortVars, Current, NeedsOf
<1>7. CASE Place
  <2>1. /\ placed' = placed + 1 /\ need' = 1 /\ UNCHANGED <<plan, sortVars>>
        /\ placed \in Nat /\ ordered \in Seq(Names)
    BY <1>1, <1>7 DEF Place, PlanTypeOK
  <2>2. ASSUME placed + 1 < Len(ordered)
        PROVE  1 <= Len(NeedsOf(ordered[placed + 1 + 1])) + 1
    <3>1. ordered[placed + 1 + 1] \in Names
      BY <2>1, <2>2
    <3> QED BY <1>1, <3>1, PlanShape
  <2> QED BY <2>1, <2>2 DEF PaceInv, sortVars, Current, NeedsOf
<1> QED BY <1>2, <1>3, <1>4, <1>5, <1>6, <1>7 DEF PlanStep

Unvisited == {n \in Declared : mark[n] = "new"}

\* The declared steps are as many as the sequence is long, at most.
LEMMA UnvisitedAreFinite ==
  ASSUME plan \in Plans
  PROVE  IsFiniteSet(Unvisited) /\ Cardinality(Unvisited) \in Nat
<1>1. Order \in Seq(Names) /\ Len(Order) \in Nat /\ DOMAIN Order = 1 .. Len(Order)
  BY PlanShape
<1>2. IsFiniteSet(1 .. Len(Order))
  BY <1>1, FS_Interval
<1>3. Order \in Surjection(1 .. Len(Order), Declared)
  <2>1. Order \in [1 .. Len(Order) -> Declared]
    BY <1>1 DEF Declared, Elems
  <2>2. \A n \in Declared : \E i \in 1 .. Len(Order) : Order[i] = n
    BY <1>1 DEF Declared, Elems
  <2> QED BY <2>1, <2>2 DEF Surjection
<1>4. IsFiniteSet(Declared)
  BY <1>2, <1>3, FS_Surjection
<1>5. Unvisited \in SUBSET Declared
  BY DEF Unvisited
<1> QED BY <1>4, <1>5, FS_Subset, FS_CardinalityType

\* A step that is entered is one fewer to enter.
LEMMA EnteringLeavesFewer ==
  ASSUME IInv, NEW n \in Declared, mark[n] = "new", mark' = Entered(n), plan' = plan
  PROVE  Cardinality(Unvisited') \in Nat /\ Cardinality(Unvisited') < Cardinality(Unvisited)
<1>1. plan \in Plans /\ mark \in [Names -> {"new", "visiting", "done"}]
  BY DEF IInv, PlanTypeOK
<1>2. Declared \subseteq Names /\ Declared' = Declared
  BY <1>1, PlanShape DEF Declared, Order
<1>3. n \in Unvisited
  BY DEF Unvisited
<1>4. Unvisited' = Unvisited \ {n}
  BY <1>1, <1>2 DEF Unvisited, Entered
<1>5. IsFiniteSet(Unvisited) /\ Cardinality(Unvisited) \in Nat
  BY <1>1, UnvisitedAreFinite
<1>6. /\ IsFiniteSet(Unvisited') /\ Cardinality(Unvisited') = Cardinality(Unvisited) - 1
  BY <1>3, <1>4, <1>5, FS_RemoveElement
<1>7. Cardinality(Unvisited') \in Nat
  BY <1>6, FS_CardinalityType
<1> QED BY <1>5, <1>6, <1>7

\* Going down in the order of a dictionary.
LEMMA GoesDown ==
  ASSUME NEW a \in Nat, NEW b \in Nat, NEW c \in Nat, NEW d \in Nat,
         NEW e \in Nat, NEW f \in Nat, NEW g \in Nat, NEW h \in Nat,
         \/ a < e
         \/ a = e /\ b < f
         \/ a = e /\ b = f /\ c < g
         \/ a = e /\ b = f /\ c = g /\ d < h
  PROVE  Below(<<a, b, c, d>>, <<e, f, g, h>>)
<1> DEFINE p == <<a, b, c, d>>
           q == <<e, f, g, h>>
<1>1. /\ p[1] = a /\ p[2] = b /\ p[3] = c /\ p[4] = d
      /\ q[1] = e /\ q[2] = f /\ q[3] = g /\ q[4] = h
  OBVIOUS
<1> HIDE DEF p, q
<1>2. SUFFICES \E i \in 1 .. 4 : p[i] < q[i] /\ \A j \in 1 .. i - 1 : p[j] = q[j]
  BY DEF Below, p, q
<1>3. CASE a < e
  <2> WITNESS 1 \in 1 .. 4
  <2> QED BY <1>1, <1>3
<1>4. CASE a = e /\ b < f
  <2> WITNESS 2 \in 1 .. 4
  <2>1. \A j \in 1 .. 2 - 1 : j = 1
    OBVIOUS
  <2> QED BY <1>1, <1>4, <2>1
<1>5. CASE a = e /\ b = f /\ c < g
  <2> WITNESS 3 \in 1 .. 4
  <2>1. \A j \in 1 .. 3 - 1 : j = 1 \/ j = 2
    OBVIOUS
  <2> QED BY <1>1, <1>5, <2>1
<1>6. CASE a = e /\ b = f /\ c = g /\ d < h
  <2> WITNESS 4 \in 1 .. 4
  <2>1. \A j \in 1 .. 4 - 1 : j = 1 \/ j = 2 \/ j = 3
    OBVIOUS
  <2> QED BY <1>1, <1>6, <2>1
<1> QED BY <1>3, <1>4, <1>5, <1>6

\* What is left are four numbers, whatever the state.
LEMMA LeftIsNumbers ==
  IInv /\ PaceInv => Left \in Nat \X Nat \X Nat \X Nat
<1> SUFFICES ASSUME IInv, PaceInv PROVE Left \in Nat \X Nat \X Nat \X Nat
  OBVIOUS
<1>1. plan \in Plans /\ PlanTypeOK
  BY DEF IInv, PlanTypeOK
<1>2. CASE verdict = "checking" \/ PlanEnded
  <2>1. Left = <<3, 0, 0, 0>> \/ Left = <<0, 0, 0, 0>>
    BY <1>2 DEF Left, PlanEnded
  <2> QED BY <2>1
<1>3. CASE verdict = "sorting"
  <2> DEFINE rest == IF stack = <<>> THEN Len(Order) - at ELSE Len(NeedsOf(Top.name)) + 1 - Top.next
  <2>1. Left = <<2, Cardinality(Unvisited), Len(stack), rest>>
    BY <1>3 DEF Left, PlanEnded, Unvisited
  <2>2. Cardinality(Unvisited) \in Nat
    BY <1>1, UnvisitedAreFinite
  <2>3. Len(stack) \in Nat
    BY <1>1 DEF PlanTypeOK
  <2>4. rest \in Nat
    <3>1. CASE stack = <<>>
      BY <1>1, <3>1, PlanShape DEF PlanTypeOK
    <3>2. CASE stack # <<>>
      <4>1. /\ Top.name \in Names /\ Top.next \in Nat
            /\ Top.next <= Len(NeedsOf(Top.name)) + 1
        BY <1>1, <3>2, TopShape DEF Top, PaceInv
      <4>2. Len(NeedsOf(Top.name)) \in Nat
        BY <1>1, <4>1, PlanShape
      <4> QED BY <3>2, <4>1, <4>2
    <3> QED BY <3>1, <3>2
  <2> HIDE DEF rest
  <2> QED BY <2>1, <2>2, <2>3, <2>4
<1>4. CASE verdict = "placing"
  <2> DEFINE rest == IF placed = Len(ordered) THEN 0 ELSE Len(NeedsOf(Current)) + 1 - need
  <2>1. Left = <<1, Len(ordered) - placed, 0, rest>>
    BY <1>4 DEF Left, PlanEnded
  <2>2. Len(ordered) - placed \in Nat
    BY <1>1 DEF PlanTypeOK
  <2>3. rest \in Nat
    <3>1. CASE placed < Len(ordered)
      BY <1>1, <3>1, CurrentShape DEF PaceInv, PlanTypeOK
    <3> QED BY <1>1, <3>1 DEF PlanTypeOK
  <2> HIDE DEF rest
  <2> QED BY <2>1, <2>2, <2>3
<1> QED BY <1>1, <1>2, <1>3, <1>4 DEF PlanTypeOK, PlanEnded

\* A step to a later loop leaves less, whatever else it does.
LEMMA NextLoopIsBelow ==
  ASSUME \/ verdict = "checking" /\ verdict' \in {"sorting", "unknown"}
         \/ verdict = "sorting" /\ verdict' \in {"placing", "cycle"}
         \/ verdict = "placing" /\ verdict' = "waves"
  PROVE  Below(Left', Left)
<1>1. /\ verdict = "checking" => Left[1] = 3
      /\ verdict = "sorting" => Left[1] = 2
      /\ verdict = "placing" => Left[1] = 1
  BY DEF Left, PlanEnded
<1>2. /\ verdict' = "sorting" => Left'[1] = 2
      /\ verdict' = "placing" => Left'[1] = 1
      /\ verdict' \in {"waves", "unknown", "cycle"} => Left'[1] = 0
  BY DEF Left, PlanEnded
<1>3. Left'[1] < Left[1]
  BY <1>1, <1>2
<1>4. 1 \in 1 .. 4 /\ \A j \in 1 .. 1 - 1 : Left'[j] = Left[j]
  OBVIOUS
<1> QED BY <1>3, <1>4 DEF Below

\* A visit enters a step, or comes back at once and leaves the caller with one need less.
LEMMA RootLeavesLess == IInv /\ VisitRoot => Below(Left', Left)
<1> SUFFICES ASSUME IInv, VisitRoot PROVE Below(Left', Left)
  OBVIOUS
<1> DEFINE n == Order[at + 1]
<1>1. /\ plan \in Plans /\ PlanTypeOK /\ verdict = "sorting" /\ stack = <<>>
      /\ at \in Nat /\ at < Len(Order) /\ at' = at + 1 /\ plan' = plan /\ Visit(n, <<>>)
  BY DEF IInv, PlanTypeOK, VisitRoot
<1>2. n \in Names /\ n \in Declared /\ Len(Order) \in Nat
  BY <1>1, PlanShape DEF Declared, Elems
<1>3. mark[n] # "visiting" /\ verdict' = "sorting"
  BY <1>1, <1>2 DEF IInv, MarkInv, Visit, IsCycle
<1>4. Left = <<2, Cardinality(Unvisited), 0, Len(Order) - at>> /\ Cardinality(Unvisited) \in Nat
  BY <1>1, UnvisitedAreFinite DEF Left, PlanEnded, Unvisited
<1>5. CASE mark[n] = "new"
  <2>1. /\ mark' = Entered(n) /\ stack' = <<[name |-> n, next |-> 1]>>
    BY <1>1, <1>5 DEF Visit
  <2>2. Cardinality(Unvisited') \in Nat /\ Cardinality(Unvisited') < Cardinality(Unvisited)
    BY <1>1, <1>2, <1>5, <2>1, EnteringLeavesFewer
  <2>3. stack' # <<>> /\ Len(stack') = 1 /\ Top'.name = n /\ Top'.next = 1
    BY <2>1 DEF Top
  <2>4. Left' = <<2, Cardinality(Unvisited'), 1, Len(NeedsOf(n)) + 1 - 1>>
    BY <1>1, <1>3, <2>3 DEF Left, PlanEnded, Unvisited, NeedsOf
  <2>5. Len(NeedsOf(n)) + 1 - 1 \in Nat /\ Len(Order) - at \in Nat
    BY <1>1, <1>2, PlanShape
  <2> QED BY <1>4, <2>2, <2>4, <2>5, GoesDown
<1>6. CASE mark[n] = "done"
  <2>1. mark' = mark /\ stack' = <<>> /\ Unvisited' = Unvisited
    BY <1>1, <1>6 DEF Visit, Unvisited, Declared, Order
  <2>2. Left' = <<2, Cardinality(Unvisited), 0, Len(Order) - (at + 1)>>
    BY <1>1, <1>3, <2>1 DEF Left, PlanEnded, Unvisited, Order
  <2>3. Len(Order) - (at + 1) \in Nat /\ Len(Order) - at \in Nat
        /\ Len(Order) - (at + 1) < Len(Order) - at
    BY <1>1, <1>2
  <2> QED BY <1>4, <2>2, <2>3, GoesDown
<1> QED BY <1>1, <1>2, <1>3, <1>5, <1>6 DEF PlanTypeOK

LEMMA NeedLeavesLess == IInv /\ PaceInv /\ VisitNeed => Below(Left', Left)
<1> SUFFICES ASSUME IInv, PaceInv, VisitNeed PROVE Below(Left', Left)
  OBVIOUS
<1> DEFINE caller == Top.name
           n == NeedsOf(caller)[Top.next]
           callers == [stack EXCEPT ![Len(stack)].next = @ + 1]
           ahead == Len(NeedsOf(caller)) + 1 - Top.next
<1>1. /\ plan \in Plans /\ PlanTypeOK /\ verdict = "sorting" /\ stack # <<>>
      /\ Top.next <= Len(NeedsOf(caller)) /\ plan' = plan /\ Visit(n, callers)
  BY DEF IInv, PlanTypeOK, VisitNeed
<1>2. /\ Len(stack) \in Nat \ {0} /\ Len(stack) \in DOMAIN stack /\ Top = stack[Len(stack)]
      /\ caller \in Names /\ Top.next \in Nat \ {0}
  BY <1>1, TopShape DEF Top
<1>3. Len(NeedsOf(caller)) \in Nat /\ n \in Names /\ n \in Elems(NeedsOf(caller))
  BY <1>1, <1>2, PlanShape DEF Elems
<1>4. n \in Declared
  <2>1. mark[caller] = "visiting"
    BY <1>2 DEF IInv, MarkInv
  <2> QED BY <1>1, <1>2, <1>3, <2>1 DEF IInv, RootInv
<1>5. /\ callers \in Seq(Frame) /\ Len(callers) = Len(stack)
      /\ callers[Len(stack)].name = caller /\ callers[Len(stack)].next = Top.next + 1
  BY <1>1, <1>2, CallersAre
<1> HIDE DEF callers
<1>6. /\ Left = <<2, Cardinality(Unvisited), Len(stack), ahead>>
      /\ Cardinality(Unvisited) \in Nat /\ ahead \in Nat
  BY <1>1, <1>2, <1>3, UnvisitedAreFinite DEF Left, PlanEnded, Unvisited
<1> HIDE DEF ahead
<1>7. CASE mark[n] = "visiting"
  <2>1. verdict' = "cycle"
    BY <1>1, <1>7 DEF Visit, IsCycle
  <2> QED BY <1>1, <2>1, NextLoopIsBelow
<1>8. CASE mark[n] = "new"
  <2>1. /\ mark' = Entered(n) /\ stack' = Append(callers, [name |-> n, next |-> 1])
        /\ verdict' = "sorting"
    BY <1>1, <1>8 DEF Visit, IsCycle
  <2>2. Cardinality(Unvisited') \in Nat /\ Cardinality(Unvisited') < Cardinality(Unvisited)
    BY <1>1, <1>4, <1>8, <2>1, EnteringLeavesFewer
  <2>3. [name |-> n, next |-> 1] \in Frame
    BY <1>3 DEF Frame
  <2>4. /\ Len(stack') = Len(stack) + 1 /\ stack' # <<>>
        /\ stack'[Len(stack')] = [name |-> n, next |-> 1]
    BY <1>2, <1>5, <2>1, <2>3
  <2>5. Top'.name = n /\ Top'.next = 1
    BY <2>4 DEF Top
  <2>6. Left' = <<2, Cardinality(Unvisited'), Len(stack) + 1, Len(NeedsOf(n)) + 1 - 1>>
    BY <1>1, <2>1, <2>4, <2>5 DEF Left, PlanEnded, Unvisited, NeedsOf
  <2>7. Len(NeedsOf(n)) + 1 - 1 \in Nat
    BY <1>1, <1>3, PlanShape
  <2>8. Len(stack) + 1 \in Nat /\ Len(stack) \in Nat /\ 2 \in Nat
    BY <1>2
  <2>9. Below(<<2, Cardinality(Unvisited'), Len(stack) + 1, Len(NeedsOf(n)) + 1 - 1>>,
              <<2, Cardinality(Unvisited), Len(stack), ahead>>)
    BY <1>6, <2>2, <2>7, <2>8, GoesDown
  <2> QED BY <1>6, <2>6, <2>9
<1>9. CASE mark[n] = "done"
  <2>1. mark' = mark /\ stack' = callers /\ verdict' = "sorting" /\ Unvisited' = Unvisited
    BY <1>1, <1>9 DEF Visit, IsCycle, Unvisited, Declared, Order
  <2>2. stack' # <<>> /\ Len(stack') = Len(stack)
    BY <1>2, <1>5, <2>1
  <2>3. Top'.name = caller /\ Top'.next = Top.next + 1
    BY <1>5, <2>1, <2>2 DEF Top
  <2>4. Left' = <<2, Cardinality(Unvisited), Len(stack),
                  Len(NeedsOf(caller)) + 1 - (Top.next + 1)>>
    BY <1>1, <2>1, <2>2, <2>3 DEF Left, PlanEnded, Unvisited, NeedsOf
  <2>5. /\ Len(NeedsOf(caller)) + 1 - (Top.next + 1) \in Nat
        /\ Len(NeedsOf(caller)) + 1 - (Top.next + 1) < ahead
    BY <1>1, <1>2, <1>3 DEF ahead
  <2> QED BY <1>2, <1>6, <2>4, <2>5, GoesDown
<1> QED BY <1>1, <1>3, <1>7, <1>8, <1>9 DEF PlanTypeOK

\* A call that returns is one fewer to return from, and its step was entered before.
LEMMA ReturnLeavesLess == IInv /\ Return => Below(Left', Left)
<1> SUFFICES ASSUME IInv, Return PROVE Below(Left', Left)
  OBVIOUS
<1>1. /\ plan \in Plans /\ PlanTypeOK /\ verdict = "sorting" /\ stack # <<>>
      /\ verdict' = "sorting" /\ plan' = plan /\ mark' = [mark EXCEPT ![Top.name] = "done"]
      /\ stack' = SubSeq(stack, 1, Len(stack) - 1)
  BY DEF IInv, PlanTypeOK, Return
<1>2. /\ Len(stack) \in Nat \ {0} /\ Len(stack) \in DOMAIN stack /\ Top = stack[Len(stack)]
      /\ Top.name \in Names
  BY <1>1, TopShape DEF Top
<1>3. Len(stack') = Len(stack) - 1
  BY <1>1, PoppedIs
<1>4. mark[Top.name] = "visiting"
  BY <1>2 DEF IInv, MarkInv
<1>5. Unvisited' = Unvisited
  <2>1. Declared' = Declared /\ Declared \subseteq Names
    BY <1>1, PlanShape DEF Declared, Order
  <2>2. \A n \in Names : mark'[n] = "new" <=> mark[n] = "new"
    BY <1>1, <1>2, <1>4 DEF PlanTypeOK
  <2> QED BY <2>1, <2>2 DEF Unvisited
<1>6. /\ Left[1] = 2 /\ Left[2] = Cardinality(Unvisited) /\ Left[3] = Len(stack)
  BY <1>1 DEF Left, PlanEnded, Unvisited
<1>7. /\ Left'[1] = 2 /\ Left'[2] = Cardinality(Unvisited) /\ Left'[3] = Len(stack')
  <2>1. Left'[1] = 2 /\ Left'[2] = Cardinality(Unvisited') /\ Left'[3] = Len(stack')
    BY <1>1 DEF Left, PlanEnded, Unvisited
  <2> QED BY <1>5, <2>1
<1>8. 3 \in 1 .. 4 /\ \A j \in 1 .. 3 - 1 : j = 1 \/ j = 2
  OBVIOUS
<1>9. Left'[3] < Left[3]
  BY <1>2, <1>3, <1>6, <1>7
<1> QED BY <1>6, <1>7, <1>8, <1>9 DEF Below

\* planWaves has one need less of the step at hand, or one step less.
LEMMA PlacingLeavesLess ==
  IInv /\ (Reduce \/ Place) => Below(Left', Left)
<1> SUFFICES ASSUME IInv, Reduce \/ Place PROVE Below(Left', Left)
  OBVIOUS
<1>1. /\ PlanTypeOK /\ verdict = "placing" /\ verdict' = "placing" /\ placed < Len(ordered)
      /\ UNCHANGED <<plan, ordered>> /\ placed \in Nat /\ Len(ordered) \in Nat
  BY DEF IInv, PlanTypeOK, Reduce, Place, sortVars
<1>2. Left[1] = 1 /\ Left[2] = Len(ordered) - placed /\ Left'[1] = 1
      /\ Left'[2] = Len(ordered) - placed'
  BY <1>1 DEF Left, PlanEnded
<1>3. CASE Reduce
  <2>1. /\ placed' = placed /\ need' = need + 1 /\ need <= Len(NeedsOf(Current))
        /\ need \in Nat /\ Len(NeedsOf(Current)) \in Nat
    BY <1>1, <1>3, CurrentShape DEF Reduce, PlanTypeOK
  <2>2. Left[3] = 0 /\ Left[4] = Len(NeedsOf(Current)) + 1 - need
    BY <1>1 DEF Left, PlanEnded
  <2>3. Left'[3] = 0 /\ Left'[4] = Len(NeedsOf(Current)) + 1 - (need + 1)
    <3>1. NeedsOf(Current)' = NeedsOf(Current) /\ placed' # Len(ordered')
      BY <1>1, <2>1 DEF NeedsOf, Current
    <3> QED BY <1>1, <2>1, <3>1 DEF Left, PlanEnded
  <2>4. 4 \in 1 .. 4 /\ \A j \in 1 .. 4 - 1 : j = 1 \/ j = 2 \/ j = 3
    OBVIOUS
  <2>5. Left'[4] < Left[4] /\ Left'[2] = Left[2]
    BY <1>2, <2>1, <2>2, <2>3
  <2> QED BY <1>2, <2>2, <2>3, <2>4, <2>5 DEF Below
<1>4. CASE Place
  <2>1. placed' = placed + 1
    BY <1>4 DEF Place
  <2>2. 2 \in 1 .. 4 /\ \A j \in 1 .. 2 - 1 : j = 1
    OBVIOUS
  <2>3. Left'[2] < Left[2]
    BY <1>1, <1>2, <2>1
  <2> QED BY <1>2, <2>2, <2>3 DEF Below
<1> QED BY <1>3, <1>4

LEMMA StepLeavesLess == IInv /\ PaceInv /\ PlanStep => Below(Left', Left)
<1> SUFFICES ASSUME IInv, PaceInv, PlanStep PROVE Below(Left', Left)
  OBVIOUS
<1>1. CASE CheckNeeds
  BY <1>1, NextLoopIsBelow DEF CheckNeeds
<1>2. CASE VisitRoot
  BY <1>2, RootLeavesLess
<1>3. CASE VisitNeed
  BY <1>3, NeedLeavesLess
<1>4. CASE Return
  BY <1>4, ReturnLeavesLess
<1>5. CASE Sorted
  BY <1>5, NextLoopIsBelow DEF Sorted
<1>6. CASE Reduce \/ Place
  BY <1>6, PlacingLeavesLess
<1>7. CASE Placed
  BY <1>7, NextLoopIsBelow DEF Placed
<1> QED BY <1>1, <1>2, <1>3, <1>4, <1>5, <1>6, <1>7 DEF PlanStep

\* Every call of visit and every turn of a loop of topoSort and planWaves leaves less to
\* do, in an order with no endless descent: both end for every plan, also for one with
\* cycles.
THEOREM PlannersEnd == PlanSpec => PlanningEnds
<1>1. PlanInit => IInv /\ PaceInv
  BY InitIInv, InitKeepsPace
<1>2. IInv /\ PaceInv /\ [PlanStep]_planVars => IInv' /\ PaceInv'
  BY StepKeepsIInv, StepKeepsPace
<1>3. IInv' /\ PaceInv' => (Left \in Nat \X Nat \X Nat \X Nat)'
  BY LeftIsNumbers, PTL
<1>4. IInv /\ PaceInv /\ IInv' /\ PaceInv' /\ [PlanStep]_planVars =>
        [Left' \in Nat \X Nat \X Nat \X Nat /\ Below(Left', Left)]_planVars
  BY <1>3, StepLeavesLess
<1> QED BY <1>1, <1>2, <1>4, PTL DEF PlanSpec, PlanningEnds

-----------------------------------------------------------------------------
(***************************************************************************)
(* The run.  The invariant of the plan is that of the first part; that of  *)
(* the rows says what each position of the pipeline has behind it.         *)
(***************************************************************************)

\* The number an attempt took, and that of the row, belong to no other run.
NumberInv ==
  /\ journal # Nil => run.id = journal
  /\ \A a \in Attempts : attempt[a] = "insert" => claimed[a] \notin others
  /\ run.id # Nil => run.number \notin others /\ run.number \in 0 .. nextRun - 1

Before == {"record-run", "skipped", "plan", "record-steps"}
AllGreen == \A n \in Declared : rows[n] = "success"

\* A step that started has all earlier waves behind it, in the rows; the pipeline is
\* in a wave, or past the last one, only with the earlier ones recorded.
StepInv ==
  /\ pos \in Before => wave = 0 /\ \A n \in Names : runner[n] = "idle"
  /\ pos \in {"record-steps", "wave"} => verdict = "waves"
  /\ pos = "wave" => \A n \in Declared : depth[n] < wave => runner[n] = "recorded"
  /\ \A n \in Names : runner[n] = "recorded" => rows[n] = "success"
  /\ \A n \in Names : runner[n] # "idle" =>
       /\ verdict = "waves" /\ n \in Declared
       /\ \A m \in Declared : depth[m] < depth[n] => rows[m] = "success"
  /\ run.status = "success" => pos \notin Before
  /\ run.status = "success" \/ pos \in {"record-no-pipeline", "record-success", "close-success"} =>
       AllGreen

WInv == WorkflowTypeOK /\ IInv /\ NumberInv /\ StepInv

-----------------------------------------------------------------------------
\* Rows that are green stay so, and a status other than green needs nothing.
LEMMA QuietSteps ==
  ASSUME WInv, UNCHANGED <<planVars, pos, wave, runner>>,
         \A n \in Names : rows[n] = "success" => rows'[n] = "success",
         run'.status = "success" => run.status = "success"
  PROVE  StepInv'
<1>1. Declared \subseteq Names /\ Declared' = Declared
  BY PlanShape DEF WInv, WorkflowTypeOK, PlanTypeOK, planVars, Declared, Order
<1> QED BY <1>1 DEF WInv, StepInv, AllGreen, planVars, waveVars

LEMMA InitHolds == WorkflowInit => WInv
<1> SUFFICES ASSUME WorkflowInit PROVE WInv
  OBVIOUS
<1>1. IInv
  BY InitIInv DEF WorkflowInit
<1>2. WorkflowTypeOK
  BY <1>1, WorkflowAssumption DEF WorkflowInit, WorkflowTypeOK, IInv, Positions, Terminal
<1>3. NumberInv
  BY DEF WorkflowInit, NumberInv
<1>4. StepInv
  BY DEF WorkflowInit, StepInv, Before, AllGreen
<1> QED BY <1>1, <1>2, <1>3, <1>4 DEF WInv

-----------------------------------------------------------------------------
(***************************************************************************)
(* record-run, and the repository around it.                               *)
(***************************************************************************)

LEMMA ReturningHolds ==
  ASSUME WInv, NEW a \in Attempts, NEW id \in {Nil, run.id}, attempt[a] \in {"find", "reread"}, Returns(a, id),
         UNCHANGED <<planVars, wave, runner, claimed, replays, rowVars, repoVars, cancel>>
  PROVE  WInv'
<1>1. IInv'
  BY StepKeepsIInv DEF WInv
<1>2. WorkflowTypeOK'
  <2>1. attempt' \in [Attempts -> {"idle", "find", "number", "insert", "reread", "returned", "lost"}]
    BY DEF WInv, WorkflowTypeOK, Returns
  <2>2. pos' \in Positions /\ journal' \in Attempts \cup {Nil}
    BY DEF WInv, WorkflowTypeOK, Returns, Positions
  <2> QED BY <1>1, <2>1, <2>2 DEF WInv, WorkflowTypeOK, IInv, rowVars, repoVars
<1>3. NumberInv'
  <2>1. \A b \in Attempts : attempt'[b] = "insert" => attempt[b] = "insert"
    BY DEF WInv, WorkflowTypeOK, Returns
  <2> QED BY <2>1 DEF WInv, NumberInv, Returns, rowVars, repoVars
<1>4. StepInv'
  <2>1. pos' = pos \/ (pos = "record-run" /\ pos' \in {"skipped", "plan"})
    BY DEF Returns
  <2>2. CASE pos' = pos
    BY <2>2, QuietSteps DEF rowVars
  <2>3. CASE pos = "record-run" /\ pos' \in {"skipped", "plan"}
    <3>1. Declared' = Declared
      BY DEF planVars, Declared, Order
    <3> QED BY <2>3, <3>1 DEF WInv, StepInv, Before, AllGreen, planVars, waveVars, rowVars
  <2> QED BY <2>1, <2>2, <2>3
<1> QED BY <1>1, <1>2, <1>3, <1>4 DEF WInv

LEMMA RecordRunHolds ==
  ASSUME WInv, NEW a \in Attempts,
         \/ AttemptStarts(a) \/ FindsRun(a) \/ TakesNumber(a) \/ InsertsRun(a)
         \/ RereadsRun(a) \/ AttemptLost(a)
  PROVE  WInv'
<1>a. UNCHANGED planVars /\ IInv'
  BY StepKeepsIInv
     DEF WInv, AttemptStarts, FindsRun, TakesNumber, InsertsRun, RereadsRun, AttemptLost
<1>b. nextRun \in Nat /\ claimed \in [Attempts -> 0 .. nextRun - 1] /\ others \subseteq 0 .. nextRun - 1
  BY DEF WInv, WorkflowTypeOK
<1>1. ASSUME NEW now \in {"find", "number", "lost"}, attempt' = [attempt EXCEPT ![a] = now],
             UNCHANGED <<planVars, pos, wave, runner, claimed, journal, replays, rowVars, repoVars, cancel>>
      PROVE  WInv'
  <2>1. WorkflowTypeOK'
    BY <1>a, <1>1 DEF WInv, WorkflowTypeOK, IInv, rowVars, repoVars
  <2>2. NumberInv'
    BY <1>1 DEF WInv, WorkflowTypeOK, NumberInv, rowVars, repoVars
  <2>3. StepInv'
    BY <1>1, QuietSteps DEF rowVars
  <2> QED BY <1>a, <2>1, <2>2, <2>3 DEF WInv
<1>2. CASE AttemptStarts(a)
  BY <1>1, <1>2 DEF AttemptStarts
<1>3. CASE FindsRun(a)
  <2>1. CASE ~enabled
    BY <1>3, <2>1, ReturningHolds DEF FindsRun
  <2>2. CASE enabled /\ run.id # Nil
    BY <1>3, <2>2, ReturningHolds DEF FindsRun
  <2>3. CASE enabled /\ run.id = Nil
    BY <1>1, <1>3, <2>3 DEF FindsRun
  <2> QED BY <2>1, <2>2, <2>3
<1>4. CASE TakesNumber(a)
  <2>1. /\ attempt' = [attempt EXCEPT ![a] = "insert"]
        /\ claimed' = [claimed EXCEPT ![a] = nextRun]
        /\ nextRun' = nextRun + 1
        /\ UNCHANGED <<planVars, pos, wave, runner, journal, replays, run, rows, repoVars, cancel>>
    BY <1>4 DEF TakesNumber, Number
  <2>2. nextRun' \in Nat \ {0} /\ nextRun' - 1 = nextRun /\ 0 .. nextRun - 1 \subseteq 0 .. nextRun
    BY <1>b, <2>1
  <2>3. claimed' \in [Attempts -> 0 .. nextRun' - 1] /\ others' \subseteq 0 .. nextRun' - 1
    BY <1>b, <2>1, <2>2 DEF repoVars
  <2>4. WorkflowTypeOK'
    BY <1>a, <2>1, <2>2, <2>3 DEF WInv, WorkflowTypeOK, IInv, repoVars
  <2>5. NumberInv'
    <3>1. nextRun \notin others
      BY <1>b
    <3>2. \A b \in Attempts : attempt'[b] = "insert" =>
            b = a \/ (attempt[b] = "insert" /\ claimed'[b] = claimed[b])
      BY <1>b, <2>1 DEF WInv, WorkflowTypeOK
    <3>3. claimed'[a] = nextRun
      BY <1>b, <2>1
    <3> QED BY <2>1, <2>2, <3>1, <3>2, <3>3 DEF WInv, NumberInv, repoVars
  <2>6. StepInv'
    BY <2>1, QuietSteps
  <2> QED BY <1>a, <2>4, <2>5, <2>6 DEF WInv
<1>5. CASE InsertsRun(a)
  <2>1. /\ attempt[a] = "insert" /\ attempt' = [attempt EXCEPT ![a] = "reread"]
        /\ UNCHANGED <<planVars, pos, wave, runner, claimed, journal, replays, rows, nextRun, repoVars, cancel>>
    BY <1>5 DEF InsertsRun
  <2>2. \/ run' = run
        \/ run.id = Nil /\ run' = [id |-> a, number |-> claimed[a], status |-> "running"]
    BY <1>5 DEF InsertsRun
  <2>3. run' \in [id : Attempts \cup {Nil}, number : Nat, status : {"none", "running"} \cup Terminal]
    BY <1>b, <2>2 DEF WInv, WorkflowTypeOK
  <2>4. attempt' \in [Attempts -> {"idle", "find", "number", "insert", "reread", "returned", "lost"}]
    BY <2>1 DEF WInv, WorkflowTypeOK
  <2>5. WorkflowTypeOK'
    BY <1>a, <2>1, <2>3, <2>4 DEF WInv, WorkflowTypeOK, IInv, repoVars
  <2>6. NumberInv'
    <3>1. \A b \in Attempts : attempt'[b] = "insert" => attempt[b] = "insert"
      BY <2>1 DEF WInv, WorkflowTypeOK
    <3>2. claimed[a] \in 0 .. nextRun - 1 /\ claimed[a] \notin others
      BY <1>b, <2>1 DEF WInv, NumberInv
    <3> QED BY <2>1, <2>2, <3>1, <3>2 DEF WInv, NumberInv, repoVars
  <2>7. StepInv'
    BY <2>1, <2>2, QuietSteps
  <2> QED BY <1>a, <2>5, <2>6, <2>7 DEF WInv
<1>6. CASE RereadsRun(a)
  BY <1>6, ReturningHolds DEF RereadsRun, StoredRun
<1>7. CASE AttemptLost(a)
  BY <1>1, <1>7 DEF AttemptLost
<1> QED BY <1>2, <1>3, <1>4, <1>5, <1>6, <1>7

LEMMA OthersHold ==
  ASSUME WInv, Others
  PROVE  WInv'
<1>a. UNCHANGED <<planVars, pos, wave, runner, startVars, replays>> /\ IInv'
  BY StepKeepsIInv DEF WInv, Others, OtherRun, TurnsCiOff, CancelCheck, CancelWrite
<1>b. nextRun \in Nat /\ claimed \in [Attempts -> 0 .. nextRun - 1] /\ others \subseteq 0 .. nextRun - 1
  BY DEF WInv, WorkflowTypeOK
<1>1. CASE OtherRun
  <2>1. others' = others \cup {nextRun} /\ nextRun' = nextRun + 1 /\ UNCHANGED <<run, rows, enabled, cancel>>
    BY <1>1 DEF OtherRun, Number
  <2>2. nextRun' \in Nat \ {0} /\ nextRun' - 1 = nextRun /\ 0 .. nextRun - 1 \subseteq 0 .. nextRun
    BY <1>b, <2>1
  <2>3. claimed' \in [Attempts -> 0 .. nextRun' - 1] /\ others' \subseteq 0 .. nextRun' - 1
    BY <1>a, <1>b, <2>1, <2>2 DEF startVars
  <2>4. WorkflowTypeOK'
    BY <1>a, <2>1, <2>2, <2>3 DEF WInv, WorkflowTypeOK, IInv, startVars
  <2>5. NumberInv'
    <3>1. \A b \in Attempts : claimed[b] # nextRun
      BY <1>b
    <3>0. run.id # Nil => run.number \in 0 .. nextRun - 1
      BY DEF WInv, NumberInv
    <3>2. run.id # Nil => run.number # nextRun /\ run.number \in 0 .. nextRun' - 1
      <4>1. \A x \in 0 .. nextRun - 1 : x # nextRun /\ x \in 0 .. nextRun' - 1
        <5>1. \A m \in Nat : \A x \in 0 .. m - 1 : x # m /\ x \in 0 .. m
          OBVIOUS
        <5> QED BY <1>b, <2>2, <5>1, Zenon
      <4> QED BY <3>0, <4>1, Zenon
    <3> QED BY <1>a, <2>1, <3>1, <3>2 DEF WInv, NumberInv, startVars
  <2>6. StepInv'
    BY <1>a, <2>1, QuietSteps
  <2> QED BY <1>a, <2>4, <2>5, <2>6 DEF WInv
<1>2. CASE TurnsCiOff \/ CancelCheck
  <2>1. UNCHANGED <<rowVars, others>> /\ enabled' \in BOOLEAN /\ cancel' \in {"idle", "allowed", "done"}
    BY <1>2 DEF TurnsCiOff, CancelCheck, repoVars, WInv, WorkflowTypeOK
  <2>2. WorkflowTypeOK'
    BY <1>a, <2>1 DEF WInv, WorkflowTypeOK, IInv, startVars, rowVars
  <2>3. NumberInv'
    BY <1>a, <2>1 DEF WInv, NumberInv, startVars, rowVars
  <2>4. StepInv'
    BY <1>a, <2>1, QuietSteps DEF rowVars
  <2> QED BY <1>a, <2>2, <2>3, <2>4 DEF WInv
<1>3. CASE CancelWrite
  <2>1. /\ run' = [run EXCEPT !.status = "cancelled"] /\ cancel' = "done" /\ rows' = Closed
        /\ UNCHANGED <<nextRun, repoVars>>
    BY <1>3 DEF CancelWrite
  <2>2. /\ run' \in [id : Attempts \cup {Nil}, number : Nat, status : {"none", "running"} \cup Terminal]
        /\ run'.id = run.id /\ run'.number = run.number /\ run'.status = "cancelled"
    BY <2>1 DEF WInv, WorkflowTypeOK, Terminal
  <2>3. /\ rows' \in [Names -> {"none", "queued", "success", "cancelled"}]
        /\ \A n \in Names : rows[n] = "success" => rows'[n] = "success"
    BY <2>1 DEF Closed, WInv, WorkflowTypeOK
  <2>4. WorkflowTypeOK'
    BY <1>a, <2>1, <2>2, <2>3 DEF WInv, WorkflowTypeOK, IInv, startVars, repoVars
  <2>5. NumberInv'
    BY <1>a, <2>1, <2>2 DEF WInv, NumberInv, startVars, repoVars
  <2>6. StepInv'
    BY <1>a, <2>2, <2>3, QuietSteps
  <2> QED BY <1>a, <2>4, <2>5, <2>6 DEF WInv
<1> QED BY <1>1, <1>2, <1>3 DEF Others

-----------------------------------------------------------------------------
(***************************************************************************)
(* The plan.                                                               *)
(***************************************************************************)

\* What is left alone by everything but record-run and the other instances.
LEMMA NumbersStay ==
  ASSUME WInv, UNCHANGED <<startVars, nextRun, repoVars>>,
         run'.id = run.id, run'.number = run.number
  PROVE  NumberInv'
BY DEF WInv, NumberInv, startVars, repoVars

LEMMA PlanningHolds ==
  ASSUME WInv, EvaluatesPlan \/ EmitsPlan \/ PlanThrows
  PROVE  WInv'
<1>a. /\ pos = "plan" /\ wave = 0 /\ \A n \in Names : runner[n] = "idle"
      /\ run.status # "success"
  BY DEF EvaluatesPlan, EmitsPlan, PlanThrows, WInv, StepInv, Before
<1>b. UNCHANGED <<wave, runner, startVars, replays, rowVars, repoVars, cancel>>
  BY DEF EvaluatesPlan, EmitsPlan, PlanThrows, wfVars
<1>c. IInv'
  BY StepKeepsIInv DEF WInv, EvaluatesPlan, EmitsPlan, PlanThrows
<1>d. NumberInv'
  BY <1>b, NumbersStay DEF rowVars
<1>1. pos' \in {"plan", "record-plan-failure", "record-no-pipeline", "record-steps"}
  BY <1>a DEF EvaluatesPlan, EmitsPlan, PlanThrows, wfVars, AfterPlan
<1>2. pos' = "record-steps" => verdict' = "waves"
  BY <1>a DEF EvaluatesPlan, EmitsPlan, PlanThrows, wfVars, AfterPlan, planVars
<1>3. pos' = "record-no-pipeline" => Declared' = {}
  <2>1. pos' = "record-no-pipeline" => Order = <<>> /\ plan' = plan
    BY <1>a DEF EvaluatesPlan, EmitsPlan, PlanThrows, wfVars, AfterPlan, planVars
  <2> QED BY <2>1 DEF Declared, Elems, Order
<1>4. WorkflowTypeOK'
  BY <1>b, <1>c, <1>1 DEF WInv, WorkflowTypeOK, IInv, Positions, startVars, rowVars, repoVars
<1>5. StepInv'
  BY <1>a, <1>b, <1>1, <1>2, <1>3 DEF StepInv, Before, AllGreen, rowVars
<1> QED BY <1>c, <1>d, <1>4, <1>5 DEF WInv

-----------------------------------------------------------------------------
(***************************************************************************)
(* The waves.                                                              *)
(***************************************************************************)

\* Where a wave begins, goes on and ends.
LEMMA WavesHold ==
  ASSUME WInv, DeclaresSteps \/ StartsWave \/ WaveEnds
  PROVE  WInv'
<1>a. /\ UNCHANGED <<planVars, startVars, run, nextRun, repoVars, cancel>>
      /\ IInv' /\ Declared \subseteq Names /\ Declared' = Declared
  BY StepKeepsIInv, PlanShape
     DEF DeclaresSteps, StartsWave, WaveEnds, rowVars, WInv, WorkflowTypeOK, PlanTypeOK, planVars, Declared, Order
<1>b. NumberInv'
  BY <1>a, NumbersStay
<1>c. wave \in Nat /\ depth \in [Names -> Nat] /\ verdict = "waves"
      /\ replays \in Nat /\ MaxReplays \in Nat
  BY WorkflowAssumption
     DEF WInv, WorkflowTypeOK, PlanTypeOK, StepInv, DeclaresSteps, StartsWave, WaveEnds
<1>1. CASE DeclaresSteps
  <2>1. /\ pos = "record-steps" /\ pos' \in {"record-steps", "wave"} /\ UNCHANGED <<wave, runner>>
        /\ replays' \in 0 .. MaxReplays
    BY <1>1, <1>c DEF DeclaresSteps, KeepOrReplay, Replay, WInv, WorkflowTypeOK
  <2>2. /\ rows' \in [Names -> {"none", "queued", "success", "cancelled"}]
        /\ \A n \in Names : rows[n] = "success" => rows'[n] = "success"
    BY <1>1 DEF DeclaresSteps, WInv, WorkflowTypeOK
  <2>3. WorkflowTypeOK'
    BY <1>a, <2>1, <2>2 DEF WInv, WorkflowTypeOK, IInv, Positions, startVars, repoVars
  <2>4. wave = 0 /\ run.status # "success" /\ \A n \in Names : runner[n] = "idle"
    BY <2>1 DEF WInv, StepInv, Before
  <2>5. \A n \in Declared : ~(depth[n] < wave)
    BY <1>a, <1>c, <2>4
  <2>6. StepInv'
    BY <1>a, <1>c, <2>1, <2>2, <2>4, <2>5 DEF StepInv, AllGreen, Before, planVars, waveVars
  <2> QED BY <1>a, <1>b, <2>3, <2>6 DEF WInv
<1>2. CASE StartsWave
  <2>1. /\ pos = "wave" /\ UNCHANGED <<pos, wave, replays, rows>>
        /\ runner' = [n \in Names |-> IF InWave(n) /\ runner[n] = "idle" THEN "running" ELSE runner[n]]
    BY <1>2 DEF StartsWave, rowVars
  <2>2. runner' \in [Names -> {"idle", "running", "ended", "recorded", "threw"}]
    BY <2>1 DEF WInv, WorkflowTypeOK
  <2>3. WorkflowTypeOK'
    BY <1>a, <2>1, <2>2 DEF WInv, WorkflowTypeOK, IInv, startVars, repoVars
  <2>4. \A n \in Names : runner[n] = "recorded" <=> runner'[n] = "recorded"
    BY <2>1
  <2>5. \A n \in Names : runner'[n] # "idle" => runner[n] # "idle" \/ InWave(n)
    BY <2>1
  <2>6. \A n \in Names : InWave(n) =>
          n \in Declared /\ \A m \in Declared : depth[m] < depth[n] => rows[m] = "success"
    BY <1>a, <2>1 DEF InWave, WInv, StepInv
  <2>7. StepInv'
    BY <1>a, <1>c, <2>1, <2>4, <2>5, <2>6 DEF WInv, StepInv, AllGreen, Before, planVars, waveVars
  <2> QED BY <1>a, <1>b, <2>3, <2>7 DEF WInv
<1>3. CASE WaveEnds
  <2>1. /\ pos = "wave" /\ UNCHANGED <<runner, replays, rows>>
        /\ \A n \in Names : InWave(n) => runner[n] = "recorded"
    BY <1>3 DEF WaveEnds, rowVars
  <2>2. \A n \in Declared : depth[n] <= wave => runner[n] = "recorded" /\ rows[n] = "success"
    <3>1. \A n \in Declared : depth[n] <= wave => depth[n] < wave \/ depth[n] = wave
      BY <1>a, <1>c
    <3> QED BY <1>a, <2>1, <3>1 DEF InWave, WInv, StepInv
  <2>3. CASE LastWave
    <3>1. pos' = "record-success" /\ wave' = wave
      BY <1>3, <2>3 DEF WaveEnds
    <3>2. AllGreen
      BY <2>2, <2>3 DEF AllGreen, LastWave
    <3>3. WorkflowTypeOK'
      BY <1>a, <2>1, <3>1 DEF WInv, WorkflowTypeOK, IInv, Positions, startVars, repoVars
    <3>4. StepInv'
      BY <1>a, <1>c, <2>1, <3>1, <3>2 DEF WInv, StepInv, AllGreen, Before, planVars, waveVars
    <3> QED BY <1>a, <1>b, <3>3, <3>4 DEF WInv
  <2>4. CASE ~LastWave
    <3>1. pos' = "wave" /\ wave' = wave + 1
      BY <1>3, <2>1, <2>4 DEF WaveEnds
    <3>2. \A n \in Declared : depth[n] < wave' => runner[n] = "recorded"
      BY <1>a, <1>c, <2>2, <3>1
    <3>3. WorkflowTypeOK'
      BY <1>a, <1>c, <2>1, <3>1 DEF WInv, WorkflowTypeOK, IInv, Positions, startVars, repoVars
    <3>4. StepInv'
      BY <1>a, <1>c, <2>1, <3>1, <3>2 DEF WInv, StepInv, AllGreen, Before, planVars, waveVars
    <3> QED BY <1>a, <1>b, <3>3, <3>4 DEF WInv
  <2> QED BY <2>3, <2>4
<1> QED BY <1>1, <1>2, <1>3

LEMMA RunnersHold ==
  ASSUME WInv, NEW n \in Names, RunnerEnds(n) \/ RunnerThrows(n) \/ RecordsStep(n)
  PROVE  WInv'
<1>a. /\ UNCHANGED <<planVars, wave, startVars, run, nextRun, repoVars, cancel>>
      /\ IInv' /\ Declared \subseteq Names /\ Declared' = Declared
  BY StepKeepsIInv, PlanShape
     DEF RunnerEnds, RunnerThrows, RecordsStep, rowVars, WInv, WorkflowTypeOK, PlanTypeOK, planVars, Declared, Order
<1>b. NumberInv'
  BY <1>a, NumbersStay
<1>c. /\ runner \in [Names -> {"idle", "running", "ended", "recorded", "threw"}]
      /\ runner[n] \in {"running", "ended"} /\ pos \notin Before
      /\ \A m \in Declared : depth[m] < depth[n] => rows[m] = "success"
      /\ verdict = "waves" /\ n \in Declared
  BY DEF RunnerEnds, RunnerThrows, RecordsStep, WInv, WorkflowTypeOK, StepInv
<1>1. \E now \in {"ended", "recorded", "threw"} :
        /\ runner' = [runner EXCEPT ![n] = now]
        /\ now = "recorded" => rows'[n] = "success"
  <2>1. CASE RunnerEnds(n)
    BY <2>1 DEF RunnerEnds
  <2>2. CASE RunnerThrows(n)
    BY <2>2 DEF RunnerThrows
  <2>3. CASE RecordsStep(n)
    <3>1. rows'[n] = "success" /\ runner[n] = "ended"
      BY <2>3 DEF RecordsStep, WInv, WorkflowTypeOK
    <3>2. runner' = [runner EXCEPT ![n] = "recorded"] \/ runner' = [runner EXCEPT ![n] = "ended"]
      BY <1>c, <2>3, <3>1 DEF RecordsStep
    <3> QED BY <3>1, <3>2
  <2> QED BY <2>1, <2>2, <2>3
<1>2. /\ rows' \in [Names -> {"none", "queued", "success", "cancelled"}]
      /\ \A m \in Names : rows[m] = "success" => rows'[m] = "success"
      /\ replays' \in 0 .. MaxReplays
  BY WorkflowAssumption DEF RunnerEnds, RunnerThrows, RecordsStep, Replay, rowVars, WInv, WorkflowTypeOK
<1>3. \/ pos' = pos
      \/ pos = "wave" /\ pos' = "record-failure"
  BY DEF RunnerEnds, RunnerThrows, RecordsStep
<1>4. /\ runner' \in [Names -> {"idle", "running", "ended", "recorded", "threw"}]
      /\ \A m \in Names : runner'[m] # "idle" => runner[m] # "idle"
      /\ \A m \in Names : runner'[m] = "recorded" => rows'[m] = "success"
      /\ \A m \in Names : runner[m] = "recorded" => runner'[m] = "recorded"
  BY <1>1, <1>2, <1>c DEF WInv, StepInv
<1>5. WorkflowTypeOK'
  BY <1>a, <1>2, <1>3, <1>4 DEF WInv, WorkflowTypeOK, IInv, Positions, startVars, repoVars
<1>6. pos' \notin Before
  BY <1>3, <1>c DEF Before
<1>7. StepInv'
  BY <1>a, <1>2, <1>3, <1>4, <1>6 DEF WInv, StepInv, AllGreen, planVars, waveVars
<1> QED BY <1>a, <1>b, <1>5, <1>7 DEF WInv

-----------------------------------------------------------------------------
(***************************************************************************)
(* The end.                                                                *)
(***************************************************************************)

LEMMA EndingHolds ==
  ASSUME WInv, FinishesRun \/ ClosesSteps \/ GivesUp
  PROVE  WInv'
<1>a. /\ UNCHANGED <<planVars, wave, runner, startVars, nextRun, repoVars, cancel>>
      /\ IInv' /\ Declared \subseteq Names /\ Declared' = Declared
  BY StepKeepsIInv, PlanShape
     DEF FinishesRun, ClosesSteps, GivesUp, rowVars, WInv, WorkflowTypeOK, PlanTypeOK, planVars, Declared, Order
<1>b. run \in [id : Attempts \cup {Nil}, number : Nat, status : {"none", "running"} \cup Terminal]
  BY DEF WInv, WorkflowTypeOK
<1>1. CASE FinishesRun
  <2>1. /\ pos \in Finishing /\ UNCHANGED <<replays, rows>>
        /\ run' = [run EXCEPT !.status = Outcome]
        /\ pos' = IF Outcome = "success" THEN "close-success" ELSE "close-failure"
    BY <1>1 DEF FinishesRun
  <2>2. /\ Outcome \in {"success", "failure"}
        /\ Outcome = "success" => pos \in {"record-no-pipeline", "record-success"}
    BY DEF Outcome
  <2>3. /\ run' \in [id : Attempts \cup {Nil}, number : Nat, status : {"none", "running"} \cup Terminal]
        /\ run'.id = run.id /\ run'.number = run.number /\ run'.status = Outcome
    BY <1>b, <2>1, <2>2 DEF Terminal
  <2>4. pos' \in {"close-success", "close-failure"} /\ (pos' = "close-success" => Outcome = "success")
    BY <2>1, <2>2
  <2>5. WorkflowTypeOK'
    BY <1>a, <2>1, <2>3, <2>4 DEF WInv, WorkflowTypeOK, IInv, Positions, startVars, repoVars
  <2>6. StepInv'
    BY <1>a, <2>1, <2>2, <2>3, <2>4 DEF WInv, StepInv, AllGreen, Before, planVars, waveVars
  <2>7. NumberInv'
    BY <1>a, <2>3, NumbersStay
  <2> QED BY <1>a, <2>5, <2>6, <2>7 DEF WInv
<1>2. CASE ClosesSteps
  <2>1. /\ pos \in {"close-success", "close-failure"} /\ run' = run /\ rows' = Closed
        /\ \/ pos' = "ended" /\ UNCHANGED replays
           \/ /\ pos' = IF pos = "close-success" THEN "record-success" ELSE "record-failure"
              /\ replays < MaxReplays /\ replays' = replays + 1
    BY <1>2 DEF ClosesSteps, KeepOrReplay, Replay
  <2>2. /\ rows' \in [Names -> {"none", "queued", "success", "cancelled"}]
        /\ \A n \in Names : rows[n] = "success" => rows'[n] = "success"
    BY <2>1 DEF Closed, WInv, WorkflowTypeOK
  <2>3. replays' \in 0 .. MaxReplays
    BY <2>1, WorkflowAssumption DEF WInv, WorkflowTypeOK
  <2>4. WorkflowTypeOK'
    BY <1>a, <2>1, <2>2, <2>3 DEF WInv, WorkflowTypeOK, IInv, Positions, startVars, repoVars
  <2>5. StepInv'
    BY <1>a, <2>1, <2>2 DEF WInv, StepInv, AllGreen, Before, planVars, waveVars
  <2>6. NumberInv'
    BY <1>a, <2>1, NumbersStay
  <2> QED BY <1>a, <2>4, <2>5, <2>6 DEF WInv
<1>3. CASE GivesUp
  <2>1. pos' = "gone" /\ UNCHANGED <<rowVars, replays>>
    BY <1>3 DEF GivesUp
  <2>2. WorkflowTypeOK'
    BY <1>a, <2>1 DEF WInv, WorkflowTypeOK, IInv, Positions, startVars, repoVars, rowVars
  <2>3. StepInv'
    BY <1>a, <2>1 DEF WInv, StepInv, AllGreen, Before, planVars, waveVars, rowVars
  <2>4. NumberInv'
    BY <1>a, <2>1, NumbersStay DEF rowVars
  <2> QED BY <1>a, <2>2, <2>3, <2>4 DEF WInv
<1> QED BY <1>1, <1>2, <1>3

LEMMA NextHolds == WInv /\ [Next]_vars => WInv'
<1> SUFFICES ASSUME WInv, [Next]_vars PROVE WInv'
  OBVIOUS
<1>1. CASE UNCHANGED vars
  <2>1. IInv' /\ UNCHANGED planVars
    BY <1>1, StepKeepsIInv DEF vars, WInv
  <2>2. WorkflowTypeOK'
    BY <1>1, <2>1 DEF vars, wfVars, WInv, WorkflowTypeOK, IInv, startVars, rowVars, repoVars
  <2>3. NumberInv'
    BY <1>1, NumbersStay DEF vars, wfVars, rowVars
  <2>4. StepInv'
    BY <1>1, QuietSteps DEF vars, wfVars, rowVars
  <2> QED BY <2>1, <2>2, <2>3, <2>4 DEF WInv
<1>2. CASE EngineStep
  BY <1>2, RecordRunHolds, PlanningHolds, WavesHold, RunnersHold, EndingHolds DEF EngineStep
<1>3. CASE Failure
  BY <1>3, RecordRunHolds, PlanningHolds, RunnersHold, EndingHolds DEF Failure
<1>4. CASE Others
  BY <1>4, OthersHold
<1> QED BY <1>1, <1>2, <1>3, <1>4 DEF Next

-----------------------------------------------------------------------------
(***************************************************************************)
(* The theorems.                                                           *)
(***************************************************************************)

LEMMA WInvHolds == Spec => []WInv
BY InitHolds, NextHolds, PTL DEF Spec

\* GitflareCI.pipeline and the rows of record.ts have their types, whatever is run
\* again, is lost or races.
THEOREM WorkflowIsTyped == Spec => []WorkflowTypeOK
<1>1. WInv => WorkflowTypeOK
  BY DEF WInv
<1> QED BY <1>1, WInvHolds, PTL

\* startRun (ci/record.ts): however many attempts interleave and whichever are lost, the
\* pipeline goes on with the one row of its instance, under a number of its own.
THEOREM InstancesHaveOneRun == Spec => []OneRunPerInstance
<1>1. WInv => OneRunPerInstance
  BY DEF WInv, NumberInv, OneRunPerInstance
<1> QED BY <1>1, WInvHolds, PTL

\* The pipeline of ci/index.ts starts a step only when all it needs is recorded green,
\* for every plan that topoSort and planWaves let through.
THEOREM StepsWaitForNeeds == Spec => []NeedsAreRecorded
<1>1. WInv => NeedsAreRecorded
  <2> SUFFICES ASSUME WInv, NEW n \in Declared, runner[n] # "idle", NEW m \in Elems(NeedsOf(n))
               PROVE  rows[m] = "success"
    BY DEF NeedsAreRecorded
  <2>1. n \in Names
    BY PlanShape DEF WInv, WorkflowTypeOK, PlanTypeOK
  <2>2. verdict = "waves" /\ \A k \in Declared : depth[k] < depth[n] => rows[k] = "success"
    BY <2>1 DEF WInv, StepInv
  <2>3. m \in Declared
    BY <2>2 DEF WInv, IInv, RootInv
  <2>4. depth[m] < depth[n]
    BY <2>2, IInvSeparates DEF WInv, WavesSeparate
  <2> QED BY <2>2, <2>3, <2>4
<1> QED BY <1>1, WInvHolds, PTL

\* finishRun says success of no run with a step that is not green, whoever cancels it
\* in between and whatever is replayed.
THEOREM GreenRunsAreComplete == Spec => []GreenIsComplete
<1>1. WInv => GreenIsComplete
  BY DEF WInv, StepInv, AllGreen, GreenIsComplete
<1> QED BY <1>1, WInvHolds, PTL

\* What a run shows of itself: of its steps, their rows and runners.
ShownNeeds == [n \in Declared |-> Elems(NeedsOf(n))]
ShownSteps == [n \in Names |-> Shown(n)]

LEMMA ShownStays ==
  ASSUME UNCHANGED <<plan, runner>>,
         \A n \in Names : rows'[n] = "success" <=> rows[n] = "success"
  PROVE  UNCHANGED <<ShownNeeds, ShownSteps>>
<1>1. \A n \in Names : Shown(n)' = Shown(n)
  BY DEF Shown
<1> QED BY <1>1 DEF ShownNeeds, ShownSteps, Declared, Order, NeedsOf

LEMMA OneMoveIsAStep ==
  ASSUME WInv, UNCHANGED <<plan, run>>,
         \A n \in Names : Shown(n)' # Shown(n) =>
           /\ n \in Declared
           /\ \/ /\ Shown(n) = "waiting" /\ Shown(n)' = "running"
                 /\ \A m \in Elems(NeedsOf(n)) : m \in Names /\ rows[m] = "success"
              \/ Shown(n) = "running" /\ Shown(n)' \in {"passed", "failed"}
  PROVE  Run0!Moves
<1>1. Declared \subseteq Names
  BY PlanShape DEF WInv, WorkflowTypeOK, PlanTypeOK
<1>2. ShownNeeds' = ShownNeeds
  BY DEF ShownNeeds, Declared, Order, NeedsOf
<1>3. DOMAIN ShownNeeds = Declared /\ DOMAIN ShownSteps = Names /\ DOMAIN ShownSteps' = Names
  BY DEF ShownNeeds, ShownSteps
<1>4. ASSUME NEW n \in Names
      PROVE  ShownSteps[n] = Shown(n) /\ ShownSteps'[n] = Shown(n)'
  BY DEF ShownSteps
<1>5. ASSUME NEW n \in Names, ShownSteps'[n] # ShownSteps[n]
      PROVE  /\ n \in Run0!Plan
             /\ Run0!Starts(n) \/ Run0!Ends(n)
  <2>1. n \in Declared /\ ShownNeeds[n] = Elems(NeedsOf(n))
    BY <1>4, <1>5 DEF ShownNeeds
  <2>2. CASE /\ Shown(n) = "waiting" /\ Shown(n)' = "running"
             /\ \A m \in Elems(NeedsOf(n)) : m \in Names /\ rows[m] = "success"
    <3>1. \A m \in ShownNeeds[n] : ShownSteps[m] = "passed"
      BY <2>1, <2>2 DEF ShownSteps, Shown
    <3> QED BY <1>3, <1>4, <2>1, <2>2, <3>1
          DEF Run0!Starts, Run0!Plan, Run0!Ended, ShownNeeds, ShownSteps
  <2>3. CASE Shown(n) = "running" /\ Shown(n)' \in {"passed", "failed"}
    BY <1>3, <1>4, <2>1, <2>3 DEF Run0!Ends, Run0!Plan, ShownNeeds, ShownSteps
  <2> QED BY <1>4, <1>5, <2>2, <2>3
<1> QED BY <1>2, <1>3, <1>5 DEF Run0!Moves, ShownNeeds, ShownSteps

LEMMA StartsWaveIsAStep ==
  ASSUME WInv, WInv', StartsWave
  PROVE  Run0!Moves
<1>1. /\ UNCHANGED <<plan, run, rows>>
      /\ runner' = [n \in Names |-> IF InWave(n) /\ runner[n] = "idle" THEN "running" ELSE runner[n]]
  BY DEF StartsWave, rowVars, planVars
<1>2. Declared \subseteq Names
  BY PlanShape DEF WInv, WorkflowTypeOK, PlanTypeOK
<1>3. ASSUME NEW n \in Names, Shown(n)' # Shown(n)
      PROVE  /\ n \in Declared /\ Shown(n) = "waiting" /\ Shown(n)' = "running"
             /\ \A m \in Elems(NeedsOf(n)) : m \in Names /\ rows[m] = "success"
  <2>1. InWave(n) /\ runner[n] = "idle" /\ runner'[n] = "running" /\ rows[n] # "success"
    BY <1>1, <1>3 DEF Shown
  <2>2. n \in Declared /\ Shown(n) = "waiting" /\ Shown(n)' = "running"
    BY <1>1, <2>1 DEF InWave, Shown
  <2>3. verdict = "waves" /\ \A m \in Declared : depth[m] < depth[n] => rows[m] = "success"
    <3>1. /\ verdict' = "waves"
          /\ \A m \in Declared' : depth'[m] < depth'[n] => rows'[m] = "success"
      BY <2>1 DEF WInv, StepInv
    <3> QED BY <3>1 DEF StartsWave, rowVars, planVars, waveVars, Declared, Order
  <2>4. ASSUME NEW m \in Elems(NeedsOf(n)) PROVE m \in Names /\ rows[m] = "success"
    <3>1. m \in Declared
      BY <2>2, <2>3, <2>4 DEF WInv, IInv, RootInv
    <3>2. depth[m] < depth[n]
      BY <2>2, <2>3, <2>4, IInvSeparates DEF WInv, WavesSeparate
    <3> QED BY <1>2, <2>3, <3>1, <3>2
  <2> QED BY <2>2, <2>4
<1> QED BY <1>1, <1>3, OneMoveIsAStep

LEMMA RunnersAreSteps ==
  ASSUME WInv, NEW n \in Names, RunnerEnds(n) \/ RunnerThrows(n) \/ RecordsStep(n)
  PROVE  Run0!Moves
<1>1. /\ UNCHANGED <<plan, run>> /\ n \in Declared
      /\ runner \in [Names -> {"idle", "running", "ended", "recorded", "threw"}]
      /\ rows \in [Names -> {"none", "queued", "success", "cancelled"}]
  BY DEF RunnerEnds, RunnerThrows, RecordsStep, rowVars, planVars, WInv, WorkflowTypeOK, StepInv
<1>2. runner[n] \in {"running", "ended"}
      /\ \A m \in Names \ {n} : runner'[m] = runner[m] /\ rows'[m] = rows[m]
  BY <1>1 DEF RunnerEnds, RunnerThrows, RecordsStep, rowVars
<1>3. \A m \in Names \ {n} : Shown(m)' = Shown(m)
  BY <1>2 DEF Shown
<1>4. Shown(n) \in {"running", "passed"}
  BY <1>2 DEF Shown
<1>5. Shown(n)' = Shown(n) \/ (Shown(n) = "running" /\ Shown(n)' \in {"passed", "failed"})
  <2>1. CASE RunnerEnds(n)
    BY <1>1, <1>2, <2>1 DEF RunnerEnds, rowVars, Shown
  <2>2. CASE RunnerThrows(n)
    BY <1>1, <1>2, <2>2 DEF RunnerThrows, rowVars, Shown
  <2>3. CASE RecordsStep(n)
    <3>1. rows'[n] = "success"
      BY <1>1, <2>3 DEF RecordsStep
    <3>2. Shown(n)' = "passed"
      BY <3>1 DEF Shown
    <3> QED BY <1>4, <3>2
  <2> QED BY <2>1, <2>2, <2>3
<1> QED BY <1>1, <1>3, <1>5, OneMoveIsAStep

\* Any other step shows nothing new of the steps, and says success only over green ones.
LEMMA OthersConclude ==
  ASSUME WInv, WInv', UNCHANGED <<plan, runner>>,
         \A n \in Names : rows'[n] = "success" <=> rows[n] = "success"
  PROVE  Run0!Concludes
<1>1. UNCHANGED <<ShownNeeds, ShownSteps>>
  BY ShownStays
<1>2. Declared' \subseteq Names
  BY PlanShape DEF WInv, WorkflowTypeOK, PlanTypeOK, Declared, Order
<1>3. Declared' = Declared /\ DOMAIN ShownNeeds = Declared
  BY DEF ShownNeeds, Declared, Order
<1>4. run'.status = "success" => \A n \in Declared : ShownSteps[n] = "passed"
  <2>1. run'.status = "success" => \A n \in Declared' : rows'[n] = "success"
    BY DEF WInv, StepInv, AllGreen
  <2> QED BY <1>2, <1>3, <2>1 DEF ShownSteps, Shown
<1> QED BY <1>1, <1>3, <1>4 DEF Run0!Concludes, Run0!Plan, ShownNeeds, ShownSteps

LEMMA ClosedKeepsGreen ==
  ASSUME WInv, rows' = Closed
  PROVE  \A n \in Names : rows'[n] = "success" <=> rows[n] = "success"
BY DEF Closed, WInv, WorkflowTypeOK

LEMMA NextIsExecution ==
  ASSUME WInv, WInv', [Next]_vars
  PROVE  [Run0!Next]_Run0!vars
<1>1. CASE UNCHANGED vars
  <2>1. UNCHANGED <<ShownNeeds, ShownSteps>> /\ run' = run
    BY <1>1, ShownStays DEF vars, wfVars, planVars, rowVars
  <2> QED BY <2>1 DEF Run0!vars, ShownNeeds, ShownSteps
<1>2. CASE StartsWave
  BY <1>2, StartsWaveIsAStep DEF Run0!Next
<1>3. ASSUME NEW n \in Names, RunnerEnds(n) \/ RunnerThrows(n) \/ RecordsStep(n)
      PROVE  Run0!Next
  BY <1>3, RunnersAreSteps DEF Run0!Next
<1>4. CASE DeclaresSteps
  <2>1. UNCHANGED <<plan, runner>> /\ \A n \in Names : rows'[n] = "success" <=> rows[n] = "success"
    BY <1>4 DEF DeclaresSteps, planVars, WInv, WorkflowTypeOK
  <2> QED BY <2>1, OthersConclude DEF Run0!Next
<1>5. CASE ClosesSteps \/ CancelWrite
  <2>1. UNCHANGED <<plan, runner>> /\ rows' = Closed
    BY <1>5 DEF ClosesSteps, CancelWrite, planVars
  <2> QED BY <2>1, ClosedKeepsGreen, OthersConclude DEF Run0!Next
<1>6. ASSUME UNCHANGED <<plan, runner, rows>> PROVE Run0!Next
  BY <1>6, OthersConclude DEF Run0!Next
<1>7. CASE EvaluatesPlan
  <2>1. plan' = plan
    BY <1>7 DEF EvaluatesPlan, PlanStep, CheckNeeds, VisitRoot, VisitNeed, Return, Sorted,
                Reduce, Place, Placed
  <2> QED BY <1>6, <1>7, <2>1 DEF EvaluatesPlan, wfVars, rowVars
<1>8. CASE \E a \in Attempts :
             \/ AttemptStarts(a) \/ FindsRun(a) \/ TakesNumber(a)
             \/ InsertsRun(a) \/ RereadsRun(a) \/ AttemptLost(a)
  BY <1>6, <1>8 DEF AttemptStarts, FindsRun, TakesNumber, InsertsRun, RereadsRun, AttemptLost,
                    planVars, rowVars
<1>9. CASE EmitsPlan \/ WaveEnds \/ FinishesRun \/ PlanThrows \/ GivesUp
  BY <1>6, <1>9 DEF EmitsPlan, WaveEnds, FinishesRun, PlanThrows, GivesUp, planVars, rowVars
<1>10. CASE OtherRun \/ TurnsCiOff \/ CancelCheck
  BY <1>6, <1>10 DEF OtherRun, TurnsCiOff, CancelCheck, planVars, rowVars
<1>11. CASE EngineStep
  BY <1>2, <1>3, <1>4, <1>5, <1>7, <1>8, <1>9, <1>11 DEF EngineStep
<1>12. CASE Failure
  BY <1>3, <1>8, <1>9, <1>12 DEF Failure
<1>13. CASE Others
  BY <1>5, <1>10, <1>13 DEF Others
<1> QED BY <1>1, <1>11, <1>12, <1>13 DEF Next

\* The Workflow path keeps the promise of a run: each step of the pipeline, of record.ts and
\* of cancelRun starts steps that may start, ends running ones, or says what the rows show.
THEOREM WorkflowsKeepThePromise == Spec => ExecutionSpec
<1>1. WorkflowInit => Run0!Init
  <2> SUFFICES ASSUME WorkflowInit PROVE Run0!Init
    OBVIOUS
  <2>1. \A n \in Names : Shown(n) = "waiting"
    BY DEF WorkflowInit, Shown
  <2>2. Declared \subseteq Names
    BY PlanShape DEF WorkflowInit, PlanInit
  <2>3. run.status # "success"
    BY DEF WorkflowInit
  <2> QED BY <2>1, <2>2, <2>3 DEF Run0!Init, Run0!Plan
<1>2. WInv /\ WInv' /\ [Next]_vars => [Run0!Next]_Run0!vars
  BY NextIsExecution
<1> QED BY <1>1, <1>2, WInvHolds, PTL DEF Spec, ExecutionSpec, Run0!Spec

\* GitflareCI.execute plans as topoSort and planWaves do and leaves the plan alone while
\* it runs: what is proved of the plan holds of every run.
THEOREM RunsFollowThePlan == Spec => PlanSpec
<1>1. WorkflowInit => PlanInit
  BY DEF WorkflowInit
<1>2. [Next]_vars => [PlanStep]_planVars
  <2>1. EvaluatesPlan => PlanStep
    BY DEF EvaluatesPlan
  <2>2. EngineStep => EvaluatesPlan \/ UNCHANGED planVars
    BY DEF EngineStep, AttemptStarts, FindsRun, TakesNumber, InsertsRun, RereadsRun, EmitsPlan,
           DeclaresSteps, StartsWave, WaveEnds, RunnerEnds, RecordsStep, FinishesRun, ClosesSteps
  <2>3. Failure \/ Others => UNCHANGED planVars
    BY DEF Failure, AttemptLost, PlanThrows, GivesUp, RunnerThrows, Others, OtherRun, TurnsCiOff,
           CancelCheck, CancelWrite
  <2> QED BY <2>1, <2>2, <2>3 DEF Next, vars
<1> QED BY <1>1, <1>2, PTL DEF Spec, PlanSpec
=============================================================================
