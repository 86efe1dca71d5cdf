------------------------------- MODULE CiPlan -------------------------------
(***************************************************************************)
(* topoSort and planWaves of @gitflare/ci-config, one call of visit and    *)
(* one turn of a loop at a time.  The recursion of visit is the stack of   *)
(* its calls, so that what holds half way can be said and proved.          *)
(***************************************************************************)
EXTENDS Naturals, Sequences, FiniteSets

CONSTANTS
  Names,   \* names a step may have or depend on
  Plans    \* the plans looked at: names as declared, and what each needs

Elems(s) == {s[i] : i \in DOMAIN s}

\* PlanBuilder.add refuses a second step of the same name.
ASSUME PlansAssumption ==
  \A p \in Plans :
    /\ p \in [order : Seq(Names), needs : [Names -> Seq(Names)]]
    /\ \A i, j \in DOMAIN p.order : p.order[i] = p.order[j] => i = j

VARIABLES
  plan,      \* the plan being sorted
  verdict,   \* the loop it is in, or how it ended
  at,        \* steps visited by the outer loop
  stack,     \* calls of visit: the step and the next of its needs
  mark,      \* what state holds for each step
  ordered,   \* the result of topoSort
  placed,    \* how many of those planWaves has placed
  need,      \* the next of the needs it reduces over
  level,     \* the accumulator of that reduce
  depth      \* the wave of each step; 0 where the map has no entry

sortVars == <<at, stack, mark, ordered>>
waveVars == <<placed, need, level, depth>>
planVars == <<plan, verdict, sortVars, waveVars>>

Order == plan.order
NeedsOf(n) == plan.needs[n]
Declared == Elems(Order)
Frame == [name : Names, next : Nat \ {0}]

PlanTypeOK ==
  /\ plan \in Plans
  /\ verdict \in {"checking", "sorting", "placing", "waves", "unknown", "cycle"}
  /\ at \in 0 .. Len(Order)
  /\ stack \in Seq(Frame)
  /\ mark \in [Names -> {"new", "visiting", "done"}]
  /\ ordered \in Seq(Names)
  /\ placed \in 0 .. Len(ordered)
  /\ need \in Nat \ {0}
  /\ level \in Nat
  /\ depth \in [Names -> Nat]

PlanInit ==
  /\ plan \in Plans
  /\ verdict = "checking"
  /\ at = 0
  /\ stack = <<>>
  /\ mark = [n \in Names |-> "new"]
  /\ ordered = <<>>
  /\ placed = 0
  /\ need = 1
  /\ level = 0
  /\ depth = [n \in Names |-> 0]

-----------------------------------------------------------------------------
(***************************************************************************)
(* topoSort.                                                               *)
(***************************************************************************)

CheckNeeds ==
  /\ verdict = "checking"
  /\ verdict' = IF \A n \in Declared : Elems(NeedsOf(n)) \subseteq Declared
                THEN "sorting" ELSE "unknown"
  /\ UNCHANGED <<plan, sortVars, waveVars>>

MutantIsCycle(n) == mark[n] # "new"

\* A step met again on its own trail.
IsCycle(n) == mark[n] = "visiting"

MutantEntered(n) == mark

\* state.set, before the needs are looked at.
Entered(n) == [mark EXCEPT ![n] = "visiting"]

\* visit(n), called from the last frame of callers.
Visit(n, callers) ==
  /\ verdict' = IF IsCycle(n) THEN "cycle" ELSE verdict
  /\ IF mark[n] = "new"
     THEN /\ mark' = Entered(n)
          /\ stack' = Append(callers, [name |-> n, next |-> 1])
     ELSE /\ mark' = mark
          /\ stack' = callers

Top == stack[Len(stack)]

VisitRoot ==
  /\ verdict = "sorting"
  /\ stack = <<>>
  /\ at < Len(Order)
  /\ at' = at + 1
  /\ Visit(Order[at + 1], <<>>)
  /\ UNCHANGED <<plan, ordered, waveVars>>

VisitNeed ==
  /\ verdict = "sorting"
  /\ stack # <<>>
  /\ Top.next <= Len(NeedsOf(Top.name))
  /\ Visit(NeedsOf(Top.name)[Top.next], [stack EXCEPT ![Len(stack)].next = @ + 1])
  /\ UNCHANGED <<plan, at, ordered, waveVars>>

\* A step is pushed after everything it needs.
Output == Append(ordered, Top.name)

Return ==
  /\ verdict = "sorting"
  /\ stack # <<>>
  /\ Top.next > Len(NeedsOf(Top.name))
  /\ mark' = [mark EXCEPT ![Top.name] = "done"]
  /\ ordered' = Output
  /\ stack' = SubSeq(stack, 1, Len(stack) - 1)
  /\ UNCHANGED <<plan, verdict, at, waveVars>>

Sorted ==
  /\ verdict = "sorting"
  /\ stack = <<>>
  /\ at = Len(Order)
  /\ verdict' = "placing"
  /\ UNCHANGED <<plan, sortVars, waveVars>>

-----------------------------------------------------------------------------
(***************************************************************************)
(* planWaves.                                                              *)
(***************************************************************************)

Current == ordered[placed + 1]

\* max, or depth.get(need) + 1 if that is more.
Raised(n) == IF depth[n] + 1 > level THEN depth[n] + 1 ELSE level

Reduce ==
  /\ verdict = "placing"
  /\ placed < Len(ordered)
  /\ need <= Len(NeedsOf(Current))
  /\ level' = Raised(NeedsOf(Current)[need])
  /\ need' = need + 1
  /\ UNCHANGED <<plan, verdict, sortVars, placed, depth>>

MutantFresh == level

Fresh == 0

Place ==
  /\ verdict = "placing"
  /\ placed < Len(ordered)
  /\ need > Len(NeedsOf(Current))
  /\ depth' = [depth EXCEPT ![Current] = level]
  /\ placed' = placed + 1
  /\ need' = 1
  /\ level' = Fresh
  /\ UNCHANGED <<plan, verdict, sortVars>>

Placed ==
  /\ verdict = "placing"
  /\ placed = Len(ordered)
  /\ verdict' = "waves"
  /\ UNCHANGED <<plan, sortVars, waveVars>>

PlanStep ==
  \/ CheckNeeds \/ VisitRoot \/ VisitNeed \/ Return \/ Sorted
  \/ Reduce \/ Place \/ Placed

PlanSpec == PlanInit /\ [][PlanStep]_planVars

PlanEnded == verdict \in {"waves", "unknown", "cycle"}

-----------------------------------------------------------------------------
(***************************************************************************)
(* What the runners of a plan rely on.                                     *)
(***************************************************************************)

\* At every moment of the sort, what a step of the result needs is before it.
NeedsComeFirst ==
  \A i \in DOMAIN ordered : \A k \in DOMAIN NeedsOf(ordered[i]) :
    \E j \in 1 .. i - 1 : ordered[j] = NeedsOf(ordered[i])[k]

\* A plan is refused as a cycle only with one at hand, on the trail of calls;
\* a plan that is not refused has each of its steps in the result, once.
RefusedIsCyclic ==
  verdict = "cycle" =>
    \E f \in DOMAIN stack :
      /\ stack[f].name \in Elems(NeedsOf(Top.name))
      /\ \A g \in f .. Len(stack) - 1 : stack[g + 1].name \in Elems(NeedsOf(stack[g].name))

AcceptedIsComplete ==
  verdict \in {"placing", "waves"} =>
    /\ Elems(ordered) = Declared
    /\ \A i, j \in DOMAIN ordered : ordered[i] = ordered[j] => i = j

\* The sort as a whole: in order, refusing only cycles, losing and doubling nothing.
SortIsRight == NeedsComeFirst /\ RefusedIsCyclic /\ AcceptedIsComplete

\* Steps of one wave may start together: what a step needs is in an earlier one.
WavesSeparate ==
  verdict = "waves" =>
    \A n \in Declared : \A m \in Elems(NeedsOf(n)) : depth[m] < depth[n]

\* And none waits longer than it has to: the wave of a step is the length of the
\* longest chain below it, the definition that the runs of CiPipeline follow.
Reference == INSTANCE CiWaves WITH
  Steps <- Declared, Needs <- [n \in Declared |-> Elems(NeedsOf(n))], Always <- {}

WavesAreTight ==
  verdict = "waves" => \A n \in Declared : n \in Reference!Wave(depth[n])

\* planWaves puts each step behind all it needs, and behind nothing else.
WavesAreRight == WavesSeparate /\ WavesAreTight

\* What is left to do, the weightier first: the loops ahead; in the sort, the steps never
\* visited, the calls to return from, and what the innermost loop has ahead of it; in
\* planWaves, the steps to place and the needs of the next one.
Left ==
  CASE verdict = "checking" -> <<3, 0, 0, 0>>
    [] verdict = "sorting" ->
         <<2, Cardinality({n \in Declared : mark[n] = "new"}), Len(stack),
           IF stack = <<>> THEN Len(Order) - at ELSE Len(NeedsOf(Top.name)) + 1 - Top.next>>
    [] verdict = "placing" ->
         <<1, Len(ordered) - placed, 0,
           IF placed = Len(ordered) THEN 0 ELSE Len(NeedsOf(Current)) + 1 - need>>
    [] PlanEnded -> <<0, 0, 0, 0>>

\* The order of a dictionary, in which no sequence of such tuples of numbers goes down
\* for ever.
Below(p, q) == \E i \in 1 .. 4 : p[i] < q[i] /\ \A j \in 1 .. i - 1 : p[j] = q[j]

\* topoSort and planWaves come to an end, also for plans with cycles, "a Workflow that
\* hangs" otherwise: each call and each turn of a loop leaves less to do.
PlanningEnds == [][Left' \in Nat \X Nat \X Nat \X Nat /\ Below(Left', Left)]_planVars
=============================================================================
