---------------------------- MODULE MCCiPipeline ----------------------------
(* CiPipeline on small plans. *)
EXTENDS CiPipeline, TLC

CONSTANTS build, test, deploy, report

\* One wave of two steps.
TwoSteps == {build, test}
NoNeeds == [s \in TwoSteps |-> {}]
Symmetric == Permutations(TwoSteps)

\* A chain of three, and a report on its first step that always runs.
FourSteps == {build, test, deploy, report}
ChainNeeds == [s \in FourSteps |->
  CASE s = build -> {} [] s \in {test, report} -> {build} [] s = deploy -> {test}]
=============================================================================
