------------------------------ MODULE CiWaves ------------------------------
(***************************************************************************)
(* What a plan asks for: which steps may start together.  This is the      *)
(* definition planWaves is held to in CiPlan, and the one the runs of      *)
(* CiPipeline follow.                                                      *)
(***************************************************************************)
EXTENDS Naturals, FiniteSetsExt

CONSTANTS
  Steps,   \* names of the plan's steps
  Needs,   \* step -> the steps it depends on
  Always   \* steps that run although a dependency failed

ASSUME PlanAssumption ==
  /\ IsFiniteSet(Steps)
  /\ Needs \in [Steps -> SUBSET Steps]
  /\ Always \subseteq Steps

\* The longest chain of dependencies below a step, of a plan without cycles.
Level[s \in Steps] ==
  IF Needs[s] = {} THEN 0 ELSE 1 + Max({Level[n] : n \in Needs[s]})

\* planWaves: the steps of wave i depend only on steps of earlier waves.
Wave(i) == {s \in Steps : Level[s] = i}

Waves == Cardinality({Level[s] : s \in Steps})
=============================================================================
