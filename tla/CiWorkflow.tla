----------------------------- MODULE CiWorkflow -----------------------------
(***************************************************************************)
(* A run of a pipeline on the Workflow path: GitflareCI.pipeline and the   *)
(* rows that record.ts mirrors it into.                                    *)
(*                                                                         *)
(* The Workflow engine keeps the result of a step.do once it has one.      *)
(* Until then it may run the callback again: after a crash or a failure,   *)
(* and after a timeout while the first call is still under way.  So        *)
(* startRun, several statements long, runs in attempts that interleave,    *)
(* and the other steps may take effect more than once.  Instances share    *)
(* nothing but the counter of run numbers, so the other ones appear as the *)
(* numbers they take.                                                      *)
(***************************************************************************)
EXTENDS CiPlan

CONSTANTS
  Attempts,      \* bound: attempts at the record-run step
  MaxReplays,    \* bound: times other steps are run again
  MaxOthers,     \* bound: runs of other instances
  Cancels,       \* whether somebody cancels the run
  Nil

ASSUME WorkflowAssumption ==
  /\ MaxReplays \in Nat
  /\ MaxOthers \in Nat
  /\ Cancels \in BOOLEAN
  /\ Nil \notin Attempts

VARIABLES
  pos,       \* where the pipeline stands
  wave,      \* the wave it is in
  runner,    \* step -> where its runner stands
  attempt,   \* attempt -> where startRun stands
  claimed,   \* attempt -> the number it took
  journal,   \* run id kept as the result of record-run
  replays,   \* steps run again so far
  run,       \* its row of ci_runs: id, number and status
  rows,      \* its rows of ci_steps: step -> status
  nextRun,   \* repos.next_run_number
  enabled,   \* repos.ci_enabled
  others,    \* numbers of the runs of other instances
  cancel     \* where cancelRun stands

rowVars == <<run, rows, nextRun>>
startVars == <<attempt, claimed, journal>>
repoVars == <<enabled, others>>
wfVars == <<pos, wave, runner, startVars, replays, rowVars, repoVars, cancel>>
vars == <<planVars, wfVars>>

Terminal == {"success", "failure", "cancelled"}
Positions == {"record-run", "skipped", "plan", "record-plan-failure", "record-no-pipeline",
              "record-steps", "wave", "record-failure", "record-success",
              "close-failure", "close-success", "ended", "gone"}

WorkflowTypeOK ==
  /\ PlanTypeOK
  /\ pos \in Positions
  /\ wave \in Nat
  /\ runner \in [Names -> {"idle", "running", "ended", "recorded", "threw"}]
  /\ attempt \in [Attempts -> {"idle", "find", "number", "insert", "reread", "returned", "lost"}]
  /\ claimed \in [Attempts -> 0 .. nextRun - 1]
  /\ journal \in Attempts \cup {Nil}
  /\ replays \in 0 .. MaxReplays
  /\ run \in [id : Attempts \cup {Nil}, number : Nat, status : {"none", "running"} \cup Terminal]
  /\ rows \in [Names -> {"none", "queued", "success", "cancelled"}]
  /\ nextRun \in Nat \ {0}
  /\ enabled \in BOOLEAN
  /\ others \subseteq 0 .. nextRun - 1
  /\ cancel \in {"idle", "allowed", "done"}

WorkflowInit ==
  /\ PlanInit
  /\ pos = "record-run"
  /\ wave = 0
  /\ runner = [n \in Names |-> "idle"]
  /\ attempt = [a \in Attempts |-> "idle"]
  /\ claimed = [a \in Attempts |-> 0]
  /\ journal = Nil
  /\ replays = 0
  /\ run = [id |-> Nil, number |-> 0, status |-> "none"]
  /\ rows = [n \in Names |-> "none"]
  /\ nextRun = 1
  /\ enabled = TRUE
  /\ others = {}
  /\ cancel = "idle"

-----------------------------------------------------------------------------
(***************************************************************************)
(* record-run: startRun, one statement of an attempt at a time.            *)
(***************************************************************************)

\* A first attempt, or another because those before it are late or lost.
AttemptStarts(a) ==
  /\ pos = "record-run"
  /\ attempt[a] = "idle"
  /\ attempt' = [attempt EXCEPT ![a] = "find"]
  /\ UNCHANGED <<planVars, pos, wave, runner, claimed, journal, replays, rowVars, repoVars, cancel>>

\* The engine keeps the first result it gets and moves on; later ones find the
\* step done.  Without a run there is nothing to do.
Returns(a, id) ==
  /\ attempt' = [attempt EXCEPT ![a] = "returned"]
  /\ IF pos = "record-run"
     THEN /\ journal' = id
          /\ pos' = IF id = Nil THEN "skipped" ELSE "plan"
     ELSE UNCHANGED <<journal, pos>>

\* CI is off, or an earlier attempt got as far as the row.
FindsRun(a) ==
  /\ attempt[a] = "find"
  /\ CASE ~enabled -> Returns(a, Nil)
       [] enabled /\ run.id # Nil -> Returns(a, run.id)
       [] OTHER -> /\ attempt' = [attempt EXCEPT ![a] = "number"]
                   /\ UNCHANGED <<journal, pos>>
  /\ UNCHANGED <<planVars, wave, runner, claimed, replays, rowVars, repoVars, cancel>>

MutantNumber == Cardinality(others) + 1
MutantReturned == nextRun + 1

\* RETURNING next_run_number - 1.
Number == nextRun

TakesNumber(a) ==
  /\ attempt[a] = "number"
  /\ attempt' = [attempt EXCEPT ![a] = "insert"]
  /\ claimed' = [claimed EXCEPT ![a] = Number]
  /\ nextRun' = nextRun + 1
  /\ UNCHANGED <<planVars, pos, wave, runner, journal, replays, run, rows, repoVars, cancel>>

\* ON CONFLICT (workflow_instance_id) DO NOTHING.
InsertsRun(a) ==
  /\ attempt[a] = "insert"
  /\ attempt' = [attempt EXCEPT ![a] = "reread"]
  /\ run' = IF run.id # Nil THEN run
            ELSE [id |-> a, number |-> claimed[a], status |-> "running"]
  /\ UNCHANGED <<planVars, pos, wave, runner, claimed, journal, replays, rows, nextRun, repoVars, cancel>>

\* The row is read again, whoever inserted it.
StoredRun(a) == run.id

RereadsRun(a) ==
  /\ attempt[a] = "reread"
  /\ Returns(a, StoredRun(a))
  /\ UNCHANGED <<planVars, wave, runner, claimed, replays, rowVars, repoVars, cancel>>

\* The isolate goes, or D1 fails, at any statement.
AttemptLost(a) ==
  /\ attempt[a] \in {"find", "number", "insert", "reread"}
  /\ attempt' = [attempt EXCEPT ![a] = "lost"]
  /\ UNCHANGED <<planVars, pos, wave, runner, claimed, journal, replays, rowVars, repoVars, cancel>>

\* Another instance records its run.
OtherRun ==
  /\ Cardinality(others) < MaxOthers
  /\ enabled
  /\ others' = others \cup {Number}
  /\ nextRun' = nextRun + 1
  /\ UNCHANGED <<planVars, pos, wave, runner, startVars, replays, run, rows, enabled, cancel>>

\* updateRepo with ciEnabled false.
TurnsCiOff ==
  /\ enabled
  /\ enabled' = FALSE
  /\ UNCHANGED <<planVars, pos, wave, runner, startVars, replays, rowVars, others, cancel>>

-----------------------------------------------------------------------------
(***************************************************************************)
(* The plan: topoSort in the sandbox, planWaves in the Worker.             *)
(***************************************************************************)

EvaluatesPlan ==
  /\ pos = "plan"
  /\ PlanStep
  /\ UNCHANGED wfVars

MutantAfterPlan ==
  IF verdict # "waves" THEN "record-plan-failure"
  ELSE IF Order = <<>> THEN "ended" ELSE "record-steps"

AfterPlan ==
  IF verdict # "waves" THEN "record-plan-failure"
  ELSE IF Order = <<>> THEN "record-no-pipeline" ELSE "record-steps"

EmitsPlan ==
  /\ pos = "plan"
  /\ PlanEnded
  /\ pos' = AfterPlan
  /\ UNCHANGED <<planVars, wave, runner, startVars, replays, rowVars, repoVars, cancel>>

\* The plan's own runner fails.
PlanThrows ==
  /\ pos = "plan"
  /\ pos' = "record-plan-failure"
  /\ UNCHANGED <<planVars, wave, runner, startVars, replays, rowVars, repoVars, cancel>>

-----------------------------------------------------------------------------
(***************************************************************************)
(* The steps.                                                              *)
(***************************************************************************)

Replay == replays < MaxReplays /\ replays' = replays + 1

\* The engine keeps the step's result, or loses it and runs the step again.
KeepOrReplay(now, next) ==
  \/ pos' = next /\ UNCHANGED replays
  \/ pos' = now /\ Replay

\* recordStep.declare.  On a conflict only the description is updated.
DeclaresSteps ==
  /\ pos = "record-steps"
  /\ rows' = [n \in Names |->
       IF n \in Declared /\ rows[n] = "none" THEN "queued" ELSE rows[n]]
  /\ KeepOrReplay("record-steps", "wave")
  /\ UNCHANGED <<planVars, wave, runner, startVars, run, nextRun, repoVars, cancel>>

MutantInWave(n) == n \in Declared /\ depth[n] <= wave + 1

InWave(n) == n \in Declared /\ depth[n] = wave

StartsWave ==
  /\ pos = "wave"
  /\ \E n \in Names : InWave(n) /\ runner[n] = "idle"
  /\ runner' = [n \in Names |->
       IF InWave(n) /\ runner[n] = "idle" THEN "running" ELSE runner[n]]
  /\ UNCHANGED <<planVars, pos, wave, startVars, replays, rowVars, repoVars, cancel>>

Over == pos \in {"ended", "gone"}

RunnerEnds(n) ==
  /\ ~Over
  /\ runner[n] = "running"
  /\ runner' = [runner EXCEPT ![n] = "ended"]
  /\ UNCHANGED <<planVars, pos, wave, startVars, replays, rowVars, repoVars, cancel>>

\* A command that fails makes its runner throw, and so does a result that cannot
\* be recorded.  Promise.all gives the wave up at once; what else runs in it goes
\* on until the instance ends.
RunnerThrows(n) ==
  /\ ~Over
  /\ runner[n] \in {"running", "ended"}
  /\ runner' = [runner EXCEPT ![n] = "threw"]
  /\ pos' = IF pos = "wave" THEN "record-failure" ELSE pos
  /\ UNCHANGED <<planVars, wave, startVars, replays, rowVars, repoVars, cancel>>

\* recordStep.finish.  Success stands for cached too: the same, from a snapshot.
RecordsStep(n) ==
  /\ ~Over
  /\ runner[n] = "ended"
  /\ rows' = [rows EXCEPT ![n] = "success"]
  /\ \/ runner' = [runner EXCEPT ![n] = "recorded"] /\ UNCHANGED replays
     \/ Replay /\ UNCHANGED runner
  /\ UNCHANGED <<planVars, pos, wave, startVars, run, nextRun, repoVars, cancel>>

LastWave == \A n \in Declared : depth[n] <= wave

WaveEnds ==
  /\ pos = "wave"
  /\ \A n \in Names : InWave(n) => runner[n] = "recorded"
  /\ IF LastWave
     THEN pos' = "record-success" /\ UNCHANGED wave
     ELSE wave' = wave + 1 /\ UNCHANGED pos
  /\ UNCHANGED <<planVars, runner, startVars, replays, rowVars, repoVars, cancel>>

-----------------------------------------------------------------------------
(***************************************************************************)
(* finishRun and cancelRun.                                                *)
(***************************************************************************)

Finishing == {"record-plan-failure", "record-no-pipeline", "record-failure", "record-success"}
Outcome == IF pos \in {"record-success", "record-no-pipeline"} THEN "success" ELSE "failure"

\* The first statement, whatever the status is now.
FinishesRun ==
  /\ pos \in Finishing
  /\ run' = [run EXCEPT !.status = Outcome]
  /\ pos' = IF Outcome = "success" THEN "close-success" ELSE "close-failure"
  /\ UNCHANGED <<planVars, wave, runner, startVars, replays, rows, nextRun, repoVars, cancel>>

Closed == [n \in Names |-> IF rows[n] = "queued" THEN "cancelled" ELSE rows[n]]

\* The second.  A replay starts with the first again.
ClosesSteps ==
  /\ pos \in {"close-success", "close-failure"}
  /\ rows' = Closed
  /\ KeepOrReplay(IF pos = "close-success" THEN "record-success" ELSE "record-failure", "ended")
  /\ UNCHANGED <<planVars, wave, runner, startVars, run, nextRun, repoVars, cancel>>

\* A step that fails for good, where nothing catches that.
GivesUp ==
  /\ \/ /\ pos \in Finishing \cup {"record-steps", "close-success", "close-failure"}
        /\ replays = MaxReplays
     \/ /\ pos = "record-run"
        /\ \A a \in Attempts : attempt[a] = "lost"
  /\ pos' = "gone"
  /\ UNCHANGED <<planVars, wave, runner, startVars, replays, rowVars, repoVars, cancel>>

\* cancelRun: the check, and later the batch.
CancelCheck ==
  /\ Cancels
  /\ cancel = "idle"
  /\ run.id # Nil /\ run.status \notin Terminal
  /\ cancel' = "allowed"
  /\ UNCHANGED <<planVars, pos, wave, runner, startVars, replays, rowVars, repoVars>>

CancelWrite ==
  /\ cancel = "allowed"
  /\ cancel' = "done"
  /\ run' = [run EXCEPT !.status = "cancelled"]
  /\ rows' = Closed
  /\ UNCHANGED <<planVars, pos, wave, runner, startVars, replays, nextRun, repoVars>>

-----------------------------------------------------------------------------
EngineStep ==
  \/ \E a \in Attempts :
       \/ AttemptStarts(a) \/ FindsRun(a) \/ TakesNumber(a)
       \/ InsertsRun(a) \/ RereadsRun(a)
  \/ EvaluatesPlan \/ EmitsPlan \/ DeclaresSteps \/ StartsWave \/ WaveEnds
  \/ \E n \in Names : RunnerEnds(n) \/ RecordsStep(n)
  \/ FinishesRun \/ ClosesSteps

Failure ==
  \/ \E a \in Attempts : AttemptLost(a)
  \/ PlanThrows \/ GivesUp
  \/ \E n \in Names : RunnerThrows(n)

Others == OtherRun \/ TurnsCiOff \/ CancelCheck \/ CancelWrite

Next == EngineStep \/ Failure \/ Others

Spec == WorkflowInit /\ [][Next]_vars

\* The engine drives its instance, the sandboxes included, until it ends.
FairSpec == Spec /\ WF_vars(EngineStep)

-----------------------------------------------------------------------------
(***************************************************************************)
(* What the rows promise about the Workflow they mirror.                   *)
(***************************************************************************)

\* Whatever attempts at record-run race or are lost, the id the pipeline goes on
\* with is that of the one row, and its number is no other run's.
OneRunPerInstance ==
  /\ journal # Nil => run.id = journal
  /\ run.id # Nil => run.number \notin others

\* The rows, and the runners they mirror, implement the abstract run.  A step is shown
\* as passed by its row; nothing skips a step here, nor runs one whatever happened.
Shown(n) ==
  CASE rows[n] = "success" -> "passed"
    [] rows[n] # "success" /\ runner[n] = "idle" -> "waiting"
    [] rows[n] # "success" /\ runner[n] = "threw" -> "failed"
    [] OTHER -> "running"

Run0 == INSTANCE Execution WITH
          needs <- [n \in Declared |-> Elems(NeedsOf(n))],
          state <- [n \in Names |-> Shown(n)],
          outcome <- run.status,
          Always <- {}

\* However steps are replayed and a run is cancelled meanwhile, a step starts only when
\* the rows already show what it needs as done, its row is never taken back, and the
\* run is green only with all of them.
ExecutionSpec == Run0!Spec

\* A step starts only when the rows already show what it needs as done.
NeedsAreRecorded ==
  \A n \in Declared : runner[n] # "idle" =>
    \A m \in Elems(NeedsOf(n)) : rows[m] = "success"

\* A green run has no step that is not green, cancelled in between or not.
GreenIsComplete ==
  run.status = "success" => \A n \in Declared : rows[n] = "success"

\* Once record-run has returned the row, the run does not stay on running, unless
\* the engine gives the instance up: topoSort and planWaves come to an end for
\* every plan, and every way through the pipeline ends in finishRun.  (An attempt
\* that finds CI turned off after an earlier one has inserted the row leaves it on
\* running; journal is Nil then.)
RunsSettle ==
  journal # Nil ~> run.status \in Terminal \/ pos = "gone"
=============================================================================
