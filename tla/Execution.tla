------------------------------ MODULE Execution ------------------------------
(***************************************************************************)
(* What a run promises whoever looks at it, on either path, with no wave,  *)
(* sandbox, attempt, replay or row in sight: a step starts once all it     *)
(* needs has passed, ends once, and is then as it ended for good; and the  *)
(* run is called a success only when every step of its plan has passed.    *)
(***************************************************************************)
CONSTANT Always   \* steps that run whatever became of those they need

VARIABLES
  needs,     \* step of the plan -> the steps it needs; of none until it is known
  state,     \* step -> how far it is
  outcome    \* what the run is said to have come to

vars == <<needs, state, outcome>>

Plan == DOMAIN needs
Ended == {"passed", "failed", "skipped"}

Init ==
  /\ state = [s \in DOMAIN state |-> "waiting"]
  /\ Plan \subseteq DOMAIN state
  /\ outcome # "success"

\* The plan becomes known.
Announces ==
  /\ Plan = {}
  /\ outcome # "success"
  /\ DOMAIN needs' \subseteq DOMAIN state
  /\ UNCHANGED <<state, outcome>>

Starts(s) ==
  /\ state[s] = "waiting" /\ state'[s] = "running"
  /\ \A n \in needs[s] : state[n] \in Ended /\ (s \notin Always => state[n] = "passed")

Skips(s) ==
  /\ state[s] = "waiting" /\ state'[s] = "skipped"
  /\ s \notin Always
  /\ \E n \in needs[s] : state[n] \in Ended \ {"passed"}

Ends(s) == state[s] = "running" /\ state'[s] \in {"passed", "failed"}

\* Any number of steps at once.
Moves ==
  /\ DOMAIN state' = DOMAIN state
  /\ \A s \in DOMAIN state :
       state'[s] # state[s] => s \in Plan /\ (Starts(s) \/ Skips(s) \/ Ends(s))
  /\ UNCHANGED <<needs, outcome>>

\* The run is said to have come to something, and perhaps to something else later.
Concludes ==
  /\ outcome' = "success" => \A s \in Plan : state[s] = "passed"
  /\ UNCHANGED <<needs, state>>

Next == Announces \/ Moves \/ Concludes

Spec == Init /\ [][Next]_vars
=============================================================================
