---------------------------- MODULE MCCiWorkflow ----------------------------
(* CiWorkflow on plans of up to three steps. *)
EXTENDS CiWorkflow, TLC

CONSTANTS build, test, lint

Three == {build, test, lint}
Plan(order, b, t, l) ==
  [order |-> order,
   needs |-> [n \in Three |-> CASE n = build -> b [] n = test -> t [] n = lint -> l]]

\* Nothing, two waves declared backwards, a chain that a third step joins,
\* a cycle two steps long with a step before it, and a name nobody declares.
SomePlans ==
  {Plan(<<>>, <<>>, <<>>, <<>>),
   Plan(<<test, build, lint>>, <<>>, <<build>>, <<>>),
   Plan(<<lint, test, build>>, <<>>, <<build>>, <<test, build>>),
   Plan(<<lint, test, build>>, <<test>>, <<build>>, <<build>>),
   Plan(<<build, test>>, <<>>, <<lint>>, <<>>)}
=============================================================================
