-------------------------- MODULE CiPipelineProofs --------------------------
(***************************************************************************)
(* Proofs about CiPipeline, for every plan whose waves are in order, every *)
(* log and every number of readers, whatever throws, is cancelled or is    *)
(* evicted: no step starts before what it needs has ended, a green run has *)
(* only green steps, and a failure is told of only when it is on record;   *)
(* what the Durable Object holds is in order and each piece once, and no   *)
(* reader is sent a piece twice or passes over one that is there.          *)
(***************************************************************************)
EXTENDS CiPipeline, SequenceTheorems, WellFoundedInduction, TLAPS

Ended == {"pass", "fail", "skipped"}
AfterWaves == {"record", "finish", "flush", "await", "mark", "notify", "done"}
AfterRows == {"finish", "flush", "await", "mark", "notify", "done"}
AfterStatus == {"flush", "await", "mark", "notify", "done"}

RunTypes ==
  /\ pc \in PCs
  /\ plan \in {"none", "steps", "empty", "refused"}
  /\ wave \in 0 .. Waves
  /\ exit \in [Steps -> Exits]
  /\ status \in {"queued", "running"} \cup Terminal
  /\ rows \in [Steps -> {"none", "success", "failure", "cancelled"}]
  /\ notified \in BOOLEAN

\* Earlier waves have ended and later ones have not begun; failed has what did not
\* pass in the earlier ones, and nothing is skipped but for a failure.
WaveInv ==
  /\ \A s \in Steps : Level[s] < wave => exit[s] \in Ended
  /\ \A s \in Steps : exit[s] # "none" => Level[s] <= wave /\ plan = "steps"
  /\ failed = {s \in Steps : Level[s] < wave /\ NotPassed(s)}
  /\ \A s \in Steps \ Always : exit[s] \in {"running", "pass", "fail"} =>
       \A n \in Needs[s] : exit[n] = "pass"
  /\ \A s \in Steps : exit[s] = "skipped" => \E t \in Steps : exit[t] = "fail"

\* Where runPipeline stands says how far the waves are, and a green status that
\* they are all behind.
PathInv ==
  /\ pc \in {"start", "prepare"} => plan = "none" /\ wave = 0
  /\ pc = "wave" => plan = "steps" /\ wave < Waves
  /\ pc \in AfterWaves => plan \in {"empty", "refused"} \/ (plan = "steps" /\ wave = Waves)
  /\ status = "success" => Ok /\ (plan = "steps" => wave = Waves)

\* What is on record behind each position, and before a notification.
RecordInv ==
  /\ pc \in AfterRows \/ notified => \A s \in Steps : exit[s] = "fail" => rows[s] = "failure"
  /\ pc \in AfterStatus \/ notified => status \in Terminal
  /\ pc = "notify" \/ notified => ~Ok
  /\ notified => pc \in {"done", "evicted"}

IInv == RunTypes /\ WaveInv /\ PathInv /\ RecordInv

coreVars == <<pc, plan, wave, exit, failed, status, rows, notified>>

-----------------------------------------------------------------------------
LEMMA InitHolds ==
  ASSUME Init
  PROVE  IInv
<1>1. RunTypes
  <2>1. 0 \in 0 .. Waves
    BY WavesAssumption
  <2>2. exit \in [Steps -> Exits]
    BY DEF Init, Exits
  <2>3. rows \in [Steps -> {"none", "success", "failure", "cancelled"}]
    BY DEF Init
  <2> QED BY <2>1, <2>2, <2>3 DEF Init, RunTypes, PCs
<1>2. wave = 0 /\ failed = {} /\ \A s \in Steps : exit[s] = "none" /\ Level[s] \in Nat
  BY WavesAssumption DEF Init
<1>3. WaveInv
  BY <1>2 DEF WaveInv
<1>4. PathInv /\ RecordInv
  BY DEF Init, PathInv, RecordInv, AfterWaves, AfterRows, AfterStatus
<1> QED BY <1>1, <1>3, <1>4 DEF IInv

LEMMA StillHolds ==
  ASSUME IInv, UNCHANGED coreVars
  PROVE  IInv'
BY DEF coreVars, IInv, RunTypes, WaveInv, PathInv, RecordInv, NotPassed, Ok

\* The waves do not change: only the position, the row and the rows of the steps.
LEMMA WavesStay ==
  ASSUME WaveInv, UNCHANGED <<plan, wave, exit, failed>>
  PROVE  WaveInv'
BY DEF WaveInv, NotPassed

LEMMA MarkRunningHolds ==
  ASSUME IInv, MarkRunning
  PROVE  IInv'
<1>1. WaveInv'
  BY WavesStay DEF MarkRunning, IInv
<1>2. RunTypes' /\ PathInv' /\ RecordInv'
  BY DEF MarkRunning, IInv, RunTypes, PathInv, RecordInv, PCs, Terminal,
         AfterWaves, AfterRows, AfterStatus
<1> QED BY <1>1, <1>2 DEF IInv

LEMMA PrepareHolds ==
  ASSUME IInv, Prepare
  PROVE  IInv'
<1>1. /\ wave = 0 /\ status # "success" /\ ~notified
      /\ \A s \in Steps : exit[s] = "none"
  BY DEF Prepare, IInv, PathInv, RecordInv, WaveInv, Ok
<1>2. RunTypes' /\ PathInv' /\ RecordInv'
  BY <1>1, WavesAssumption
     DEF Prepare, d1Vars, IInv, RunTypes, PathInv, RecordInv, PCs, AfterWaves, AfterRows, AfterStatus
<1>3. WaveInv'
  BY <1>1 DEF Prepare, IInv, WaveInv, NotPassed
<1> QED BY <1>2, <1>3 DEF IInv

\* Steps of the wave have their needs in earlier ones, which have ended; what is
\* not in failed has passed.
LEMMA StartWaveHolds ==
  ASSUME IInv, StartWave
  PROVE  IInv'
<1>1. /\ pc = "wave" /\ plan = "steps" /\ wave < Waves /\ wave \in Nat
      /\ status # "success" /\ ~notified
      /\ UNCHANGED <<pc, plan, wave, failed, status, rows, notified>>
      /\ exit \in [Steps -> Exits] /\ Waves \in Nat
  BY WavesAssumption DEF StartWave, d1Vars, IInv, RunTypes, PathInv, RecordInv, Ok
<1>2. \A s \in Steps : Level[s] # wave => exit'[s] = exit[s]
  BY DEF StartWave, Wave
<1>3. \A s \in Steps : Level[s] = wave =>
        exit[s] = "none" /\ exit'[s] = IF Blocked(s) THEN "skipped" ELSE "running"
  BY DEF StartWave, Wave
<1>4. \A s \in Steps : Level[s] \in Nat /\ \A n \in Needs[s] : n \in Steps /\ Level[n] < Level[s]
  BY WavesAssumption, PlanAssumption
<1>5. exit' \in [Steps -> Exits]
  BY <1>1 DEF StartWave, Exits
<1>6. \A s \in Steps : exit[s] # "none" => exit'[s] = exit[s]
  BY <1>2, <1>3
<1>7. WaveInv'
  <2>1. \A s \in Steps : Level[s] < wave => exit'[s] \in Ended
    BY <1>1, <1>2, <1>4 DEF IInv, WaveInv
  <2>2. \A s \in Steps : exit'[s] # "none" => Level[s] <= wave /\ plan = "steps"
    BY <1>1, <1>2, <1>4 DEF IInv, WaveInv
  <2>3. \A s \in Steps : Level[s] < wave => exit'[s] = exit[s]
    BY <1>1, <1>2, <1>4
  <2>4. failed = {s \in Steps : Level[s] < wave /\ exit[s] \in {"fail", "skipped"}}
    BY DEF IInv, WaveInv, NotPassed
  <2>5. failed = {s \in Steps : Level[s] < wave /\ exit'[s] \in {"fail", "skipped"}}
    BY <2>3, <2>4
  <2>6. ASSUME NEW s \in Steps \ Always, exit'[s] \in {"running", "pass", "fail"}, NEW n \in Needs[s]
        PROVE  exit'[n] = "pass"
    <3>1. CASE Level[s] = wave
      <4>1. ~Blocked(s)
        BY <1>3, <2>6, <3>1
      <4>2. n \notin failed /\ n \in Steps /\ Level[n] < wave
        BY <1>4, <3>1, <4>1 DEF Blocked
      <4>3. exit[n] \in Ended
        BY <4>2 DEF IInv, WaveInv
      <4> QED BY <2>3, <2>4, <4>2, <4>3 DEF Ended
    <3>2. CASE Level[s] # wave
      <4>1. exit[n] = "pass"
        BY <1>2, <2>6, <3>2 DEF IInv, WaveInv
      <4> QED BY <1>4, <1>6, <4>1
    <3> QED BY <3>1, <3>2
  <2>7. ASSUME NEW s \in Steps, exit'[s] = "skipped"
        PROVE  \E t \in Steps : exit'[t] = "fail"
    <3>1. \E r \in Steps : exit[r] \in {"fail", "skipped"}
      <4>1. CASE Level[s] = wave
        <5>1. Blocked(s)
          BY <1>3, <2>7, <4>1
        <5> QED BY <2>4, <5>1 DEF Blocked
      <4>2. CASE Level[s] # wave
        BY <1>2, <2>7, <4>2
      <4> QED BY <4>1, <4>2
    <3>2. \E t \in Steps : exit[t] = "fail"
      BY <3>1 DEF IInv, WaveInv
    <3> QED BY <1>6, <3>2
  <2> QED BY <1>1, <2>1, <2>2, <2>5, <2>6, <2>7 DEF WaveInv, NotPassed
<1>8. RunTypes' /\ PathInv' /\ RecordInv'
  BY <1>1, <1>5 DEF IInv, RunTypes, PathInv, RecordInv, AfterWaves, AfterRows, AfterStatus
<1> QED BY <1>7, <1>8 DEF IInv

\* A step that runs ends; no other changes, and a failure comes in a wave only.
LEMMA StepsEnd ==
  ASSUME IInv, NEW s \in Steps, exit[s] = "running",
         NEW e \in Exits \ {"none", "running", "skipped"}, exit' = [exit EXCEPT ![s] = e],
         pc = "wave" \/ e = "lost", pc' = pc \/ (pc' = "catch" /\ pc = "wave"),
         UNCHANGED <<plan, wave, failed, status, rows, notified>>
  PROVE  IInv'
<1>1. /\ exit \in [Steps -> Exits] /\ exit' \in [Steps -> Exits]
      /\ exit'[s] = e /\ \A t \in Steps : t # s => exit'[t] = exit[t]
  BY DEF IInv, RunTypes
<1>2. plan = "steps" /\ Level[s] <= wave /\ ~(Level[s] < wave)
  BY DEF IInv, WaveInv, Ended
<1>3. \A t \in Steps : Level[t] < wave => exit'[t] = exit[t]
  BY <1>1, <1>2
<1>4. \A t \in Steps : exit[t] \in Ended => exit'[t] = exit[t]
  BY <1>1 DEF Ended
<1>5. WaveInv'
  <2>1. \A t \in Steps : Level[t] < wave => exit'[t] \in Ended
    BY <1>3 DEF IInv, WaveInv
  <2>2. \A t \in Steps : exit'[t] # "none" => Level[t] <= wave /\ plan = "steps"
    BY <1>1, <1>2 DEF IInv, WaveInv
  <2>3. failed = {t \in Steps : Level[t] < wave /\ exit[t] \in {"fail", "skipped"}}
    BY DEF IInv, WaveInv, NotPassed
  <2>4. failed = {t \in Steps : Level[t] < wave /\ exit'[t] \in {"fail", "skipped"}}
    BY <1>3, <2>3
  <2>5. ASSUME NEW t \in Steps \ Always, exit'[t] \in {"running", "pass", "fail"}, NEW n \in Needs[t]
        PROVE  exit'[n] = "pass"
    <3>1. exit[t] \in {"running", "pass", "fail"}
      BY <1>1, <2>5
    <3>2. exit[n] = "pass" /\ n \in Steps
      BY <3>1, PlanAssumption DEF IInv, WaveInv
    <3> QED BY <1>4, <3>2 DEF Ended
  <2>6. ASSUME NEW t \in Steps, exit'[t] = "skipped"
        PROVE  \E r \in Steps : exit'[r] = "fail"
    <3>1. exit[t] = "skipped"
      BY <1>1, <2>6
    <3>2. PICK r \in Steps : exit[r] = "fail"
      BY <3>1 DEF IInv, WaveInv
    <3> QED BY <1>4, <3>2 DEF Ended
  <2> QED BY <2>1, <2>2, <2>4, <2>5, <2>6 DEF WaveInv, NotPassed
<1>6. status # "success"
  <2>1. status = "success" => wave = Waves
    BY <1>2 DEF IInv, PathInv
  <2>2. wave # Waves
    BY <1>2, WavesAssumption DEF IInv, RunTypes
  <2> QED BY <2>1, <2>2
<1>7. PathInv'
  BY <1>2, <1>6 DEF IInv, PathInv, AfterWaves
<1>8. \A t \in Steps : pc # "wave" /\ exit'[t] = "fail" => exit[t] = "fail"
  BY <1>1
<1>9. RecordInv'
  <2>1. pc = "wave" => pc' \in {"wave", "catch"} /\ ~notified
    BY DEF IInv, RecordInv
  <2>2. pc # "wave" => pc' = pc /\ (Ok' <=> Ok)
    BY <1>1 DEF Ok
  <2> QED BY <1>8, <2>1, <2>2 DEF IInv, RecordInv, AfterRows, AfterStatus
<1>10. RunTypes'
  BY <1>1 DEF IInv, RunTypes, PCs
<1> QED BY <1>5, <1>7, <1>9, <1>10 DEF IInv

LEMMA StepExitsHold ==
  ASSUME IInv, NEW s \in Steps, StepEnds(s) \/ StepFails(s) \/ StepThrows(s)
  PROVE  IInv'
<1>1. CASE StepEnds(s)
  <2>1. PICK e \in {"pass", "lost"} : exit' = [exit EXCEPT ![s] = e] /\ (pc = "wave" \/ e = "lost")
    BY <1>1 DEF StepEnds
  <2> QED BY <1>1, <2>1, StepsEnd DEF StepEnds, d1Vars, Exits
<1>2. CASE StepFails(s)
  <2>1. PICK e \in {"fail", "lost"} : exit' = [exit EXCEPT ![s] = e] /\ (pc = "wave" \/ e = "lost")
    BY <1>2 DEF StepFails
  <2> QED BY <1>2, <2>1, StepsEnd DEF StepFails, d1Vars, Exits
<1>3. CASE StepThrows(s)
  BY <1>3, StepsEnd DEF StepThrows, AfterThrow, d1Vars, Exits
<1> QED BY <1>1, <1>2, <1>3

-----------------------------------------------------------------------------
LEMMA WaveDoneHolds ==
  ASSUME IInv, WaveDone
  PROVE  IInv'
<1>1. /\ pc = "wave" /\ plan = "steps" /\ wave < Waves /\ wave \in Nat /\ Waves \in Nat
      /\ wave' = wave + 1 /\ status # "success" /\ ~notified
      /\ UNCHANGED <<plan, exit, status, rows, notified>>
      /\ \A s \in Steps : Level[s] \in Nat
  BY WavesAssumption DEF WaveDone, d1Vars, IInv, RunTypes, PathInv, RecordInv, Ok
<1>2. \A s \in Steps : Level[s] = wave => exit[s] \in Ended
  BY DEF WaveDone, Wave, Ended
<1>3. WaveInv'
  <2>1. \A s \in Steps : Level[s] < wave' => exit'[s] \in Ended
    BY <1>1, <1>2 DEF IInv, WaveInv
  <2>2. \A s \in Steps : exit'[s] # "none" => Level[s] <= wave' /\ plan' = "steps"
    BY <1>1 DEF IInv, WaveInv
  <2>3. failed' = {s \in Steps : Level[s] < wave /\ exit[s] \in {"fail", "skipped"}}
                    \cup {s \in Steps : Level[s] = wave /\ exit[s] \in {"fail", "skipped"}}
    BY DEF WaveDone, Wave, IInv, WaveInv, NotPassed
  <2>4. failed' = {s \in Steps : Level[s] < wave' /\ exit'[s] \in {"fail", "skipped"}}
    BY <1>1, <2>3
  <2> QED BY <1>1, <2>1, <2>2, <2>4 DEF IInv, WaveInv, NotPassed
<1>4. RunTypes'
  BY <1>1 DEF WaveDone, IInv, RunTypes, PCs
<1>5. PathInv' /\ RecordInv'
  BY <1>1 DEF WaveDone, IInv, PathInv, RecordInv, AfterWaves, AfterRows, AfterStatus
<1> QED BY <1>3, <1>4, <1>5 DEF IInv

\* The row of a step that failed says so.
LEMMA RecordStepsHolds ==
  ASSUME IInv, RecordSteps
  PROVE  IInv'
<1>1. WaveInv'
  BY WavesStay DEF RecordSteps, IInv
<1>2. \A s \in Steps : /\ exit[s] = "fail" => StepRow(s) = "failure"
                       /\ StepRow(s) \in {"none", "success", "failure", "cancelled"}
  BY DEF StepRow, IInv, RunTypes
<1>3. rows' \in [Steps -> {"none", "success", "failure", "cancelled"}]
      /\ \A s \in Steps : exit[s] = "fail" => rows'[s] = "failure"
  BY <1>2 DEF RecordSteps
<1>4. RunTypes' /\ PathInv' /\ RecordInv'
  BY <1>3 DEF RecordSteps, IInv, RunTypes, PathInv, RecordInv, Ok, PCs,
              AfterWaves, AfterRows, AfterStatus
<1> QED BY <1>1, <1>4 DEF IInv

LEMMA FinishRunHolds ==
  ASSUME IInv, FinishRun
  PROVE  IInv'
<1>1. WaveInv'
  BY WavesStay DEF FinishRun, IInv
<1>2. /\ pc = "finish" /\ pc' = "flush" /\ status' = Result /\ ~notified
      /\ UNCHANGED <<plan, wave, exit, failed, rows, notified>>
      /\ plan = "steps" => wave = Waves
  BY DEF FinishRun, IInv, PathInv, RecordInv, AfterWaves
<1>3. (Ok' <=> Ok) /\ status' \in Terminal /\ (status' = "success" => Ok)
  BY <1>2 DEF Result, Terminal, Ok
<1>4. RunTypes' /\ PathInv' /\ RecordInv'
  BY <1>2, <1>3 DEF IInv, RunTypes, PathInv, RecordInv, PCs, AfterWaves, AfterRows, AfterStatus
<1> QED BY <1>1, <1>4 DEF IInv

\* The position moves on behind the row.
LEMMA FinishingHolds ==
  ASSUME IInv, pc \in {"flush", "await", "mark"},
         pc' \in {"await", "mark", "done", "catch"} \/ (pc' = "notify" /\ ~Ok),
         UNCHANGED <<plan, wave, exit, failed, status, rows, notified>>
  PROVE  IInv'
<1>1. WaveInv'
  BY WavesStay DEF IInv
<1>2. (Ok' <=> Ok) /\ ~notified
  BY DEF Ok, IInv, RecordInv
<1>3. RunTypes' /\ PathInv' /\ RecordInv'
  BY <1>2 DEF IInv, RunTypes, PathInv, RecordInv, PCs, AfterWaves, AfterRows, AfterStatus
<1> QED BY <1>1, <1>3 DEF IInv

LEMMA NotifyHolds ==
  ASSUME IInv, Notify
  PROVE  IInv'
<1>1. WaveInv'
  BY WavesStay DEF Notify, IInv
<1>2. Ok' <=> Ok
  BY DEF Notify, Ok
<1>3. RunTypes' /\ PathInv' /\ RecordInv'
  BY <1>2 DEF Notify, d1Vars, IInv, RunTypes, PathInv, RecordInv, PCs,
              AfterWaves, AfterRows, AfterStatus
<1> QED BY <1>1, <1>3 DEF IInv

\* What is given up has an outcome or none; nobody hears of it.
LEMMA GivenUpHolds ==
  ASSUME IInv, Throws \/ Catch \/ CatchFails
  PROVE  IInv'
<1>1. WaveInv' /\ (Ok' <=> Ok)
  BY WavesStay DEF Throws, Catch, CatchFails, Ok, IInv
<1>2. ~notified /\ pc' \in {"catch", "caught", "stuck"}
      /\ (status' = status \/ status' = "failure")
      /\ UNCHANGED <<plan, wave, rows, exit, notified>>
  BY DEF Throws, Catch, CatchFails, AfterThrow, d1Vars, IInv, RecordInv
<1>3. RunTypes'
  BY <1>2 DEF IInv, RunTypes, PCs, Terminal
<1>4. PathInv' /\ RecordInv'
  BY <1>1, <1>2 DEF IInv, PathInv, RecordInv, AfterWaves, AfterRows, AfterStatus
<1> QED BY <1>1, <1>3, <1>4 DEF IInv

LEMMA EvictHolds ==
  ASSUME IInv, Evict
  PROVE  IInv'
<1>1. /\ exit' = [s \in Steps |-> IF exit[s] = "running" THEN "lost" ELSE exit[s]]
      /\ pc' = "evicted"
      /\ UNCHANGED <<plan, wave, failed, status, rows, notified>>
      /\ exit \in [Steps -> Exits]
  BY DEF Evict, d1Vars, IInv, RunTypes
<1>2. \A s \in Steps : /\ exit'[s] # exit[s] => exit[s] = "running" /\ exit'[s] = "lost"
                       /\ exit'[s] # "running"
  BY <1>1
<1>3. WaveInv'
  <2>1. \A s \in Steps : exit[s] \in Ended => exit'[s] = exit[s]
    BY <1>2 DEF Ended
  <2>2. \A s \in Steps : Level[s] < wave => exit'[s] \in Ended /\ exit'[s] = exit[s]
    BY <2>1 DEF IInv, WaveInv
  <2>3. failed = {s \in Steps : Level[s] < wave /\ exit[s] \in {"fail", "skipped"}}
    BY DEF IInv, WaveInv, NotPassed
  <2>4. failed = {s \in Steps : Level[s] < wave /\ exit'[s] \in {"fail", "skipped"}}
    BY <2>2, <2>3
  <2>5. \A s \in Steps : exit'[s] # "none" => Level[s] <= wave /\ plan = "steps"
    BY <1>2 DEF IInv, WaveInv
  <2>6. ASSUME NEW s \in Steps \ Always, exit'[s] \in {"running", "pass", "fail"}, NEW n \in Needs[s]
        PROVE  exit'[n] = "pass"
    <3>1. exit[s] \in {"pass", "fail"}
      BY <1>2, <2>6
    <3>2. exit[n] = "pass" /\ n \in Steps
      BY <3>1, PlanAssumption DEF IInv, WaveInv
    <3> QED BY <2>1, <3>2 DEF Ended
  <2>7. ASSUME NEW s \in Steps, exit'[s] = "skipped"
        PROVE  \E t \in Steps : exit'[t] = "fail"
    <3>1. exit[s] = "skipped"
      BY <1>2, <2>7
    <3>2. PICK t \in Steps : exit[t] = "fail"
      BY <3>1 DEF IInv, WaveInv
    <3> QED BY <2>1, <3>2 DEF Ended
  <2> QED BY <1>1, <2>2, <2>4, <2>5, <2>6, <2>7 DEF WaveInv, NotPassed
<1>4. Ok' <=> Ok
  BY <1>1, <1>2 DEF Ok
<1>5. RunTypes'
  BY <1>1 DEF IInv, RunTypes, PCs, Exits
<1>6. \A s \in Steps : exit'[s] = "fail" => exit[s] = "fail"
  BY <1>2
<1>7. PathInv' /\ RecordInv'
  BY <1>1, <1>4, <1>6 DEF IInv, PathInv, RecordInv, AfterWaves, AfterRows, AfterStatus
<1> QED BY <1>3, <1>5, <1>7 DEF IInv

\* A cancellation writes the row at any time, over any outcome.
LEMMA CancelWriteHolds ==
  ASSUME IInv, CancelWrite
  PROVE  IInv'
<1>1. WaveInv'
  BY WavesStay DEF CancelWrite, runVars, IInv
<1>2. RunTypes' /\ PathInv' /\ RecordInv'
  BY DEF CancelWrite, runVars, IInv, RunTypes, PathInv, RecordInv, Terminal, Ok,
         AfterWaves, AfterRows, AfterStatus
<1> QED BY <1>1, <1>2 DEF IInv

LEMMA NextHolds ==
  ASSUME IInv, [Next]_vars
  PROVE  IInv'
<1>1. CASE RunStep
  <2>1. CASE SinkFlush \/ SinkFlushed \/ MarkFinished
    BY <2>1, FinishingHolds DEF SinkFlush, SinkFlushed, MarkFinished, AfterThrow, d1Vars
  <2> QED
    BY <1>1, <2>1, MarkRunningHolds, PrepareHolds, StartWaveHolds, WaveDoneHolds,
       RecordStepsHolds, FinishRunHolds, NotifyHolds, GivenUpHolds, StepExitsHold
       DEF RunStep
<1>2. CASE Failures
  <2>1. CASE WriteFails /\ UNCHANGED <<runVars, d1Vars, notified, cancel, reader>>
    BY <2>1, StillHolds DEF runVars, d1Vars, coreVars
  <2> QED BY <1>2, <2>1, StepExitsHold, GivenUpHolds, EvictHolds DEF Failures
<1>3. CASE LogStep \/ \E s \in Steps : StepPrints(s)
  BY <1>3, StillHolds DEF LogStep, StepPrints, runVars, d1Vars, coreVars
<1>4. CASE People
  <2>1. CASE CancelWrite
    BY <2>1, CancelWriteHolds
  <2>2. CASE CancelCheck \/ \E r \in Readers : StreamOpens(r) \/ StreamAborts(r)
    BY <2>2, StillHolds DEF CancelCheck, StreamOpens, StreamAborts, runVars, d1Vars, coreVars
  <2> QED BY <1>4, <2>1, <2>2 DEF People
<1>5. CASE \E r \in Readers : StreamStep(r)
  BY <1>5, StillHolds
     DEF StreamStep, StreamReads, StreamWakes, StreamChecks, runVars, d1Vars, coreVars
<1>6. CASE UNCHANGED vars
  BY <1>6, StillHolds DEF vars, runVars, d1Vars, coreVars
<1> QED BY <1>1, <1>2, <1>3, <1>4, <1>5, <1>6 DEF Next

LEMMA Invariant == Spec => []IInv
BY InitHolds, NextHolds, PTL DEF Spec

-----------------------------------------------------------------------------
(***************************************************************************)
(* Numbers and sequences.  The natural numbers are well founded, so a set  *)
(* of them that has 0 and the successor of each of its members is all of   *)
(* them: this is the induction that tells what FlattenSeq computes.        *)
(***************************************************************************)

LEMMA LeastNatural ==
  ASSUME NEW T \in SUBSET Nat, T # {}
  PROVE  \E x \in T : \A y \in 0 .. x - 1 : y \notin T
<1>1. PICK x \in T : \A y \in T : <<y, x>> \notin OpToRel(<, Nat)
  BY NatLessThanWellFounded, WFMin
<1>2. ASSUME NEW y \in 0 .. x - 1, y \in T PROVE FALSE
  <2>1. y \in Nat /\ x \in Nat /\ y < x
    BY <1>2
  <2>2. <<y, x>> \in OpToRel(<, Nat)
    BY <2>1 DEF OpToRel
  <2> QED BY <1>1, <1>2, <2>2
<1> QED BY <1>2

LEMMA Induction ==
  ASSUME NEW T \in SUBSET Nat, 0 \in T, \A n \in T : n + 1 \in T
  PROVE  T = Nat
<1> SUFFICES ASSUME Nat \ T # {} PROVE FALSE
  OBVIOUS
<1>1. PICK x \in Nat \ T : \A y \in 0 .. x - 1 : y \notin Nat \ T
  BY LeastNatural
<1>2. x # 0 /\ x - 1 \in 0 .. x - 1
  BY <1>1
<1>3. x - 1 \in T
  BY <1>1, <1>2
<1> QED BY <1>1, <1>2, <1>3

\* Of numbers below a bound one is the largest.
LEMMA Greatest ==
  ASSUME NEW T \in SUBSET Nat, T # {}, NEW n \in Nat, \A x \in T : x <= n
  PROVE  Max(T) \in T /\ \A x \in T : x <= Max(T)
<1> DEFINE bounds == {k \in Nat : \A x \in T : x <= k}
<1>1. PICK k \in bounds : \A y \in 0 .. k - 1 : y \notin bounds
  BY LeastNatural
<1>2. k \in T
  <2> SUFFICES ASSUME k \notin T PROVE FALSE
    OBVIOUS
  <2>1. \A x \in T : x < k
    BY <1>1
  <2>2. k # 0 /\ k - 1 \in Nat
    <3>1. PICK x \in T : x < k
      BY <2>1
    <3>2. x \in Nat /\ k \in Nat
      OBVIOUS
    <3> QED BY <3>1, <3>2
  <2>3. k - 1 \in bounds
    BY <2>1, <2>2
  <2> QED BY <1>1, <2>2, <2>3
<1>3. \E x \in T : \A y \in T : x >= y
  BY <1>1, <1>2
<1> QED BY <1>3 DEF Max

Rising(s) == \A i, j \in DOMAIN s : i < j => s[i] < s[j]
Before(A, B) == \A a \in A, b \in B : a < b

\* f has the concatenations of the first elements of ss, of up to n.
FlatTo(ss, n, f) == f = [i \in 1 .. n |-> IF i = 1 THEN ss[i] ELSE f[i - 1] \o ss[i]]

LEMMA FlatExtends ==
  ASSUME NEW S, NEW ss \in Seq(Seq(S)), NEW n \in Nat, n + 1 <= Len(ss),
         NEW f, FlatTo(ss, n, f), \A i \in 1 .. n : f[i] \in Seq(S)
  PROVE  \E g : FlatTo(ss, n + 1, g) /\ \A i \in 1 .. n + 1 : g[i] \in Seq(S)
<1> DEFINE last == IF n = 0 THEN ss[1] ELSE f[n] \o ss[n + 1]
           g == [i \in 1 .. n + 1 |-> IF i = n + 1 THEN last ELSE f[i]]
<1>1. ss[n + 1] \in Seq(S)
  BY LenProperties, ElementOfSeq
<1>2. last \in Seq(S)
  BY <1>1
<1>3. \A i \in 1 .. n + 1 : g[i] \in Seq(S)
  BY <1>2
<1>4. \A i \in 1 .. n + 1 : g[i] = IF i = 1 THEN ss[i] ELSE g[i - 1] \o ss[i]
  <2> SUFFICES ASSUME NEW i \in 1 .. n + 1
               PROVE  g[i] = IF i = 1 THEN ss[i] ELSE g[i - 1] \o ss[i]
    OBVIOUS
  <2>1. CASE i = n + 1
    <3>1. i # 1 => n \in 1 .. n + 1 /\ i - 1 = n /\ n # 0 /\ n # n + 1
      BY <2>1
    <3>2. i # 1 => g[i - 1] = f[n]
      BY <3>1
    <3> QED BY <2>1, <3>1, <3>2
  <2>2. CASE i # n + 1
    <3>1. i \in 1 .. n /\ (i # 1 => i - 1 \in 1 .. n /\ i - 1 # n + 1)
      BY <2>2
    <3>2. f[i] = IF i = 1 THEN ss[i] ELSE f[i - 1] \o ss[i]
      BY <3>1 DEF FlatTo
    <3> QED BY <3>1, <3>2
  <2> QED BY <2>1, <2>2
<1>5. DOMAIN g = 1 .. n + 1 /\ g = [i \in 1 .. n + 1 |-> g[i]]
  OBVIOUS
<1> HIDE DEF g
<1>6. FlatTo(ss, n + 1, g)
  BY <1>4, <1>5 DEF FlatTo
<1> QED BY <1>3, <1>6

LEMMA FlatExists ==
  ASSUME NEW S, NEW ss \in Seq(Seq(S))
  PROVE  \E f : FlatTo(ss, Len(ss), f) /\ \A i \in 1 .. Len(ss) : f[i] \in Seq(S)
<1> DEFINE Solved(n) == \E f : FlatTo(ss, n, f) /\ \A i \in 1 .. n : f[i] \in Seq(S)
           T == {n \in Nat : n <= Len(ss) => Solved(n)}
<1>1. Solved(0)
  <2>1. FlatTo(ss, 0, [i \in 1 .. 0 |-> ss[i]])
    BY DEF FlatTo
  <2> QED BY <2>1
<1>2. ASSUME NEW n \in Nat, n + 1 <= Len(ss), Solved(n) PROVE Solved(n + 1)
  BY <1>2, FlatExtends
<1>3. Len(ss) \in Nat
  OBVIOUS
<1> HIDE DEF Solved
<1>4. T = Nat
  <2>1. 0 \in T
    BY <1>1
  <2>2. \A n \in T : n + 1 \in T
    BY <1>2, <1>3
  <2> QED BY <2>1, <2>2, Induction
<1>5. Solved(Len(ss))
  BY <1>3, <1>4
<1> QED BY <1>5 DEF Solved

\* FlattenSeq has the last of them.
LEMMA FlattenDef ==
  ASSUME NEW ss, Len(ss) # 0
  PROVE  FlattenSeq(ss) = (CHOOSE f : FlatTo(ss, Len(ss), f))[Len(ss)]
BY Zenon DEF FlattenSeq, FlatTo

LEMMA FlattenIs ==
  ASSUME NEW S, NEW ss \in Seq(Seq(S)), ss # <<>>
  PROVE  \E f : /\ FlattenSeq(ss) = f[Len(ss)]
                /\ f[1] = ss[1]
                /\ \A i \in 2 .. Len(ss) : f[i] = f[i - 1] \o ss[i]
<1>1. Len(ss) \in Nat \ {0}
  BY EmptySeq, LenProperties
<1> DEFINE f == CHOOSE g : FlatTo(ss, Len(ss), g)
<1>2. FlatTo(ss, Len(ss), f)
  BY FlatExists
<1>3. FlattenSeq(ss) = f[Len(ss)]
  BY <1>1, FlattenDef
<1> HIDE DEF f
<1>4. \A i \in 1 .. Len(ss) : f[i] = IF i = 1 THEN ss[i] ELSE f[i - 1] \o ss[i]
  BY <1>2 DEF FlatTo
<1>5. f[1] = ss[1]
  BY <1>1, <1>4
<1>6. ASSUME NEW i \in 2 .. Len(ss) PROVE f[i] = f[i - 1] \o ss[i]
  <2>1. i \in 1 .. Len(ss) /\ i # 1
    BY <1>1
  <2> QED BY <1>4, <2>1
<1> QED BY <1>3, <1>5, <1>6

LEMMA ConcatIs ==
  ASSUME NEW S, NEW s \in Seq(S), NEW t \in Seq(S)
  PROVE  LET u == s \o t IN
         /\ Len(s) \in Nat /\ Len(t) \in Nat
         /\ DOMAIN s = 1 .. Len(s) /\ DOMAIN t = 1 .. Len(t) /\ DOMAIN u = 1 .. Len(s) + Len(t)
         /\ \A i \in 1 .. Len(s) + Len(t) : u[i] = IF i <= Len(s) THEN s[i] ELSE t[i - Len(s)]
<1>1. /\ s \o t \in Seq(S) /\ Len(s \o t) = Len(s) + Len(t)
      /\ \A i \in 1 .. Len(s) + Len(t) :
           (s \o t)[i] = IF i <= Len(s) THEN s[i] ELSE t[i - Len(s)]
  BY ConcatProperties
<1> QED BY <1>1, LenProperties

LEMMA ConcatElements ==
  ASSUME NEW S, NEW s \in Seq(S), NEW t \in Seq(S)
  PROVE  ToSet(s \o t) = ToSet(s) \cup ToSet(t)
<1> DEFINE u == s \o t
<1>1. /\ Len(s) \in Nat /\ Len(t) \in Nat
      /\ DOMAIN s = 1 .. Len(s) /\ DOMAIN t = 1 .. Len(t) /\ DOMAIN u = 1 .. Len(s) + Len(t)
      /\ \A i \in 1 .. Len(s) + Len(t) : u[i] = IF i <= Len(s) THEN s[i] ELSE t[i - Len(s)]
  BY ConcatIs
<1> HIDE DEF u
<1>2. /\ \A i \in DOMAIN s : i \in DOMAIN u /\ u[i] = s[i]
      /\ \A i \in DOMAIN t : i + Len(s) \in DOMAIN u /\ u[i + Len(s)] = t[i]
      /\ \A i \in DOMAIN u : \/ i \in DOMAIN s /\ u[i] = s[i]
                             \/ i - Len(s) \in DOMAIN t /\ u[i] = t[i - Len(s)]
  BY <1>1
<1>3. ToSet(u) = ToSet(s) \cup ToSet(t)
  BY <1>2 DEF ToSet
<1> QED BY <1>3 DEF u

LEMMA ConcatRises ==
  ASSUME NEW S, NEW s \in Seq(S), NEW t \in Seq(S),
         Rising(s), Rising(t), Before(ToSet(s), ToSet(t))
  PROVE  Rising(s \o t)
<1> DEFINE u == s \o t
<1>1. /\ Len(s) \in Nat /\ Len(t) \in Nat
      /\ DOMAIN s = 1 .. Len(s) /\ DOMAIN t = 1 .. Len(t) /\ DOMAIN u = 1 .. Len(s) + Len(t)
      /\ \A i \in 1 .. Len(s) + Len(t) : u[i] = IF i <= Len(s) THEN s[i] ELSE t[i - Len(s)]
  BY ConcatIs
<1> HIDE DEF u
<1>2. ASSUME NEW i \in DOMAIN u, NEW j \in DOMAIN u, i < j
      PROVE  u[i] < u[j]
  <2>1. i \in Nat /\ j \in Nat
    BY <1>1
  <2>2. CASE j <= Len(s)
    <3>1. i \in DOMAIN s /\ j \in DOMAIN s /\ u[i] = s[i] /\ u[j] = s[j]
      BY <1>1, <1>2, <2>1, <2>2
    <3> QED BY <1>2, <3>1 DEF Rising
  <2>3. CASE i > Len(s)
    <3>1. i - Len(s) \in DOMAIN t /\ j - Len(s) \in DOMAIN t /\ i - Len(s) < j - Len(s)
      BY <1>1, <1>2, <2>1, <2>3
    <3>2. u[i] = t[i - Len(s)] /\ u[j] = t[j - Len(s)]
      BY <1>1, <1>2, <2>1, <2>3
    <3> QED BY <3>1, <3>2 DEF Rising
  <2>4. CASE i <= Len(s) /\ j > Len(s)
    <3>1. i \in DOMAIN s /\ j - Len(s) \in DOMAIN t
      BY <1>1, <2>1, <2>4
    <3>2. u[i] = s[i] /\ u[j] = t[j - Len(s)]
      BY <1>1, <2>1, <2>4
    <3> QED BY <3>1, <3>2 DEF Before, ToSet
  <2> QED BY <1>1, <2>1, <2>2, <2>3, <2>4
<1>3. Rising(u)
  BY <1>2 DEF Rising
<1> QED BY <1>3 DEF u

\* What is in line, rising and each part before the next, is rising when flattened.
LEMMA FlattenRises ==
  ASSUME NEW S \in SUBSET Nat, NEW ss \in Seq(Seq(S))
  PROVE  /\ FlattenSeq(ss) \in Seq(S)
         /\ ToSet(FlattenSeq(ss)) = UNION {ToSet(ss[i]) : i \in DOMAIN ss}
         /\ /\ \A i \in DOMAIN ss : Rising(ss[i])
            /\ \A i, j \in DOMAIN ss : i < j => Before(ToSet(ss[i]), ToSet(ss[j]))
            => Rising(FlattenSeq(ss))
<1>1. CASE ss = <<>>
  <2>1. FlattenSeq(ss) = <<>> /\ DOMAIN ss = {}
    BY <1>1 DEF FlattenSeq
  <2>2. ToSet(FlattenSeq(ss)) = {} /\ UNION {ToSet(ss[i]) : i \in DOMAIN ss} = {}
    BY <1>1, <2>1 DEF ToSet
  <2>3. Rising(FlattenSeq(ss)) /\ FlattenSeq(ss) \in Seq(S)
    BY <1>1, <2>1, EmptySeq DEF Rising
  <2> QED BY <2>2, <2>3
<1>2. CASE ss # <<>>
  <2> DEFINE Line == /\ \A i \in DOMAIN ss : Rising(ss[i])
                     /\ \A i, j \in DOMAIN ss : i < j => Before(ToSet(ss[i]), ToSet(ss[j]))
  <2>1. Len(ss) \in Nat \ {0} /\ DOMAIN ss = 1 .. Len(ss) /\ \A i \in 1 .. Len(ss) : ss[i] \in Seq(S)
    BY <1>2, EmptySeq, LenProperties, ElementOfSeq
  <2>2. PICK f : /\ FlattenSeq(ss) = f[Len(ss)]
                 /\ f[1] = ss[1]
                 /\ \A i \in 2 .. Len(ss) : f[i] = f[i - 1] \o ss[i]
    BY <1>2, FlattenIs
  <2> DEFINE Good(n) == /\ f[n] \in Seq(S)
                        /\ \A x : x \in ToSet(f[n]) <=> \E i \in 1 .. n : x \in ToSet(ss[i])
                        /\ Line => Rising(f[n])
             T == {n \in Nat : n + 1 <= Len(ss) => Good(n + 1)}
  <2>3. Good(1)
    <3>1. 1 \in 1 .. Len(ss) /\ 1 .. 1 = {1}
      BY <2>1
    <3> QED BY <2>1, <2>2, <3>1
  <2>4. ASSUME NEW n \in Nat \ {0}, n + 1 <= Len(ss), Good(n) PROVE Good(n + 1)
    <3>1. n + 1 \in 2 .. Len(ss) /\ n + 1 \in 1 .. Len(ss) /\ (n + 1) - 1 = n
      BY <2>1, <2>4
    <3>2. f[n + 1] = f[n] \o ss[n + 1] /\ ss[n + 1] \in Seq(S) /\ f[n] \in Seq(S)
      BY <2>1, <2>2, <2>4, <3>1
    <3>3. f[n + 1] \in Seq(S)
      BY <3>2, ConcatProperties
    <3>4. ToSet(f[n + 1]) = ToSet(f[n]) \cup ToSet(ss[n + 1])
      <4> DEFINE s == f[n]
                 t == ss[n + 1]
      <4>1. ToSet(s \o t) = ToSet(s) \cup ToSet(t)
        <5>1. s \in Seq(S) /\ t \in Seq(S)
          BY <3>2
        <5> HIDE DEF s, t
        <5> QED BY <5>1, ConcatElements
      <4>2. f[n + 1] = s \o t
        BY <3>2
      <4> QED BY <4>1, <4>2, Zenon
    <3>5. 1 .. n + 1 = (1 .. n) \cup {n + 1}
      OBVIOUS
    <3>6. \A x : x \in ToSet(f[n + 1]) <=> \E i \in 1 .. n + 1 : x \in ToSet(ss[i])
      BY <2>4, <3>4, <3>5
    <3>7. ASSUME Line PROVE Before(ToSet(f[n]), ToSet(ss[n + 1]))
      <4>1. ASSUME NEW i \in 1 .. n PROVE Before(ToSet(ss[i]), ToSet(ss[n + 1]))
        <5>1. i \in DOMAIN ss /\ n + 1 \in DOMAIN ss /\ i < n + 1
          BY <2>1, <3>1
        <5> QED BY <3>7, <5>1
      <4> QED BY <2>4, <4>1 DEF Before
    <3>8. Line => Rising(f[n + 1])
      <4>1. Line => Rising(f[n]) /\ Rising(ss[n + 1]) /\ Before(ToSet(f[n]), ToSet(ss[n + 1]))
        BY <2>1, <2>4, <3>1, <3>7
      <4> HIDE DEF Line
      <4> DEFINE s == f[n]
                 t == ss[n + 1]
      <4>2. s \in Seq(S) /\ t \in Seq(S) /\ f[n + 1] = s \o t
        BY <3>2
      <4>3. Line => Rising(s) /\ Rising(t) /\ Before(ToSet(s), ToSet(t))
        BY <4>1
      <4> HIDE DEF s, t
      <4>4. Line => Rising(s \o t)
        BY <4>2, <4>3, ConcatRises
      <4> QED BY <4>2, <4>4, Zenon
    <3> QED BY <3>3, <3>6, <3>8
  <2> HIDE DEF Good
  <2>5. T = Nat
    <3>1. 0 \in T
      BY <2>3
    <3>2. \A n \in T : n + 1 \in T
      BY <2>1, <2>4
    <3> QED BY <3>1, <3>2, Induction
  <2>6. Good(Len(ss))
    <3>1. Len(ss) - 1 \in Nat /\ (Len(ss) - 1) + 1 = Len(ss) /\ Len(ss) <= Len(ss)
      BY <2>1
    <3> QED BY <2>5, <3>1
  <2> QED BY <2>1, <2>2, <2>6 DEF Good
<1> QED BY <1>1, <1>2

LEMMA RisingIncreases ==
  ASSUME NEW s \in Seq(Output), Rising(s)
  PROVE  Increasing(s)
<1>1. Len(s) \in Nat /\ DOMAIN s = 1 .. Len(s)
  BY LenProperties
<1>2. ASSUME NEW i \in 1 .. Len(s) - 1 PROVE s[i] < s[i + 1]
  <2>1. i \in DOMAIN s /\ i + 1 \in DOMAIN s /\ i < i + 1
    BY <1>1
  <2> QED BY <2>1 DEF Rising
<1> QED BY <1>2 DEF Increasing

-----------------------------------------------------------------------------
(***************************************************************************)
(* The log: pieces are stored, and sent, in the order they were printed,   *)
(* because each place they pass through holds later ones than the next.    *)
(***************************************************************************)

\* What entries or chunks hold, and that they hold it in the order it was printed.
Pieces(entries) == UNION {ToSet(entries[i].outs) : i \in DOMAIN entries}
InLine(entries) ==
  /\ \A i \in DOMAIN entries : Rising(entries[i].outs)
  /\ \A i, j \in DOMAIN entries :
       i < j => Before(ToSet(entries[i].outs), ToSet(entries[j].outs))

\* What is printed and not written yet.
Waiting == Pieces(buffer) \cup UNION {Pieces(inFlight[b]) : b \in DOMAIN inFlight}

QueueInv ==
  /\ InLine(buffer)
  /\ \A b \in DOMAIN inFlight :
       /\ inFlight[b] # <<>>
       /\ InLine(inFlight[b])
       /\ Before(Pieces(inFlight[b]), Pieces(buffer))
  /\ \A b, c \in DOMAIN inFlight : b < c => Before(Pieces(inFlight[b]), Pieces(inFlight[c]))
  /\ Waiting \subseteq 1 .. produced

\* Chunks are numbered upwards, and what waits was printed after what they hold.
ChunkInv ==
  /\ InLine(chunks)
  /\ \A i, j \in DOMAIN chunks : i < j => chunks[i].sequence < chunks[j].sequence
  /\ Pieces(chunks) \subseteq 1 .. produced
  /\ Before(Pieces(chunks), Waiting)

\* A reader has all that is up to its cursor, and nothing of what is not.
ReaderInv ==
  \A r \in Readers :
    /\ Rising(reader[r].got)
    /\ ToSet(reader[r].got) \subseteq 1 .. produced
    /\ Before(ToSet(reader[r].got), Waiting)
    /\ IF chunks = <<>> THEN reader[r].cursor = 0
                        ELSE reader[r].cursor <= Last(chunks).sequence
    /\ \A i \in DOMAIN chunks :
         IF chunks[i].sequence <= reader[r].cursor
         THEN ToSet(chunks[i].outs) \subseteq ToSet(reader[r].got)
         ELSE Before(ToSet(reader[r].got), ToSet(chunks[i].outs))

LogTypes ==
  /\ LogTypeOK
  /\ ticket \in 0 .. flushes
  /\ cancel \in {"idle", "allowed", "done"}
  /\ reader \in [Readers -> Reader]

LogInv == LogTypes /\ QueueInv /\ ChunkInv /\ ReaderInv

LEMMA OutsRise ==
  ASSUME NEW entries, Len(entries) \in Nat, DOMAIN entries = 1 .. Len(entries),
         \A i \in DOMAIN entries : entries[i].outs \in Seq(Output)
  PROVE  /\ Outs(entries) \in Seq(Output)
         /\ ToSet(Outs(entries)) = Pieces(entries)
         /\ InLine(entries) => Rising(Outs(entries))
<1> DEFINE ss == [i \in DOMAIN entries |-> entries[i].outs]
<1>1. ss \in Seq(Seq(Output))
  <2>1. ss \in [1 .. Len(entries) -> Seq(Output)]
    OBVIOUS
  <2> QED BY <2>1, SeqDef
<1>2. DOMAIN ss = DOMAIN entries /\ \A i \in DOMAIN entries : ss[i] = entries[i].outs
  OBVIOUS
<1>3. Output \in SUBSET Nat
  BY LogAssumption DEF Output
<1>4. Outs(entries) = FlattenSeq(ss)
  BY DEF Outs
<1> HIDE DEF ss
<1>5. UNION {ToSet(ss[i]) : i \in DOMAIN ss} = Pieces(entries)
  BY <1>2 DEF Pieces
<1>6. InLine(entries) => /\ \A i \in DOMAIN ss : Rising(ss[i])
                         /\ \A i, j \in DOMAIN ss : i < j => Before(ToSet(ss[i]), ToSet(ss[j]))
  BY <1>2 DEF InLine
<1> QED BY <1>1, <1>3, <1>4, <1>5, <1>6, FlattenRises

\* What storing a chunk does: rows may go at the front, the new one is the last.
LEMMA StoredIs ==
  ASSUME NEW rs \in Seq(Chunk), NEW stream \in Streams \cup {FinishMarker}, NEW outs \in Seq(Output)
  PROVE  LET new == Stored(rs, stream, outs) IN
         /\ new \in Seq(Chunk)
         /\ new # <<>>
         /\ Last(new) = [sequence |-> NextSequence(rs), stream |-> stream, outs |-> outs]
         /\ \E d \in 0 .. Len(rs) :
              /\ Len(new) = Len(rs) + 1 - d
              /\ \A i \in 1 .. Len(rs) - d : new[i] = rs[i + d]
<1> DEFINE row == [sequence |-> NextSequence(rs), stream |-> stream, outs |-> outs]
           all == Append(rs, row)
           new == Stored(rs, stream, outs)
<1>1. Len(rs) \in Nat /\ \A i \in 1 .. Len(rs) : rs[i] \in Chunk
  BY LenProperties, ElementOfSeq
<1>2. NextSequence(rs) \in Nat \ {0}
  <2>1. CASE rs = <<>>
    BY <2>1 DEF NextSequence
  <2>2. CASE rs # <<>>
    <3>1. Len(rs) \in 1 .. Len(rs)
      BY <2>2, EmptySeq
    <3>2. rs[Len(rs)].sequence \in Nat \ {0}
      BY <1>1, <3>1 DEF Chunk
    <3> QED BY <2>2, <3>2 DEF NextSequence, Last
  <2> QED BY <2>1, <2>2
<1>3. row \in Chunk
  BY <1>2 DEF Chunk
<1>4. /\ all \in Seq(Chunk) /\ Len(all) = Len(rs) + 1
      /\ \A i \in 1 .. Len(rs) : all[i] = rs[i]
      /\ all[Len(rs) + 1] = row
  BY <1>3, AppendProperties
<1>5. new = Trimmed(all)
  BY DEF Stored
<1> HIDE DEF row, all, new
<1>6. CASE Len(all) <= MaxBuffered
  <2>1. new = all
    BY <1>5, <1>6 DEF Trimmed
  <2>2. new # <<>>
    BY <1>1, <1>4, <2>1, EmptySeq
  <2>3. 0 \in 0 .. Len(rs) /\ Len(new) = Len(rs) + 1 - 0 /\ \A i \in 1 .. Len(rs) - 0 : new[i] = rs[i + 0]
    BY <1>1, <1>4, <2>1
  <2> QED BY <1>4, <2>1, <2>2, <2>3 DEF Last, row, new
<1>7. CASE ~(Len(all) <= MaxBuffered)
  <2> DEFINE m == Len(all) - MaxBuffered + 2
  <2>1. new = SubSeq(all, m, Len(all))
    BY <1>5, <1>7 DEF Trimmed
  <2>2. MaxBuffered \in Nat /\ MaxBuffered >= 2
    BY LogAssumption
  <2>3. m \in 3 .. Len(all) /\ Len(all) \in Nat /\ m \in Int /\ Len(all) \in Int
    BY <1>1, <1>4, <1>7, <2>2
  <2> HIDE DEF m
  <2>4. \A i \in m .. Len(all) : all[i] \in Chunk
    BY <1>4, <2>3, ElementOfSeq
  <2>5. /\ new \in Seq(Chunk) /\ Len(new) = Len(all) - m + 1
        /\ \A i \in 1 .. Len(all) - m + 1 : new[i] = all[m + i - 1]
    BY <2>1, <2>3, <2>4, SubSeqProperties
  <2>6. Len(new) # 0 /\ new # <<>>
    BY <2>3, <2>5, EmptySeq
  <2>7. new[Len(new)] = row
    <3>1. Len(new) \in 1 .. Len(all) - m + 1 /\ m + Len(new) - 1 = Len(rs) + 1
      BY <1>1, <1>4, <2>3, <2>5
    <3> QED BY <1>4, <2>5, <3>1
  <2>8. m - 1 \in 0 .. Len(rs) /\ Len(new) = Len(rs) + 1 - (m - 1)
    BY <1>1, <1>4, <2>3, <2>5
  <2>9. ASSUME NEW i \in 1 .. Len(rs) - (m - 1) PROVE new[i] = rs[i + (m - 1)]
    <3>1. i \in 1 .. Len(all) - m + 1 /\ m + i - 1 = i + (m - 1) /\ m + i - 1 \in 1 .. Len(rs)
      BY <1>1, <1>4, <2>3
    <3> QED BY <1>4, <2>5, <3>1
  <2> QED BY <2>5, <2>6, <2>7, <2>8, <2>9 DEF Last, row, new
<1> QED BY <1>6, <1>7

\* Storing what follows all that is stored and sent keeps chunks and readers in order.
LEMMA StoredKeeps ==
  ASSUME LogInv, NEW stream \in Streams \cup {FinishMarker}, NEW outs \in Seq(Output),
         Rising(outs), ToSet(outs) \subseteq 1 .. produced,
         Before(Pieces(chunks), ToSet(outs)),
         \A r \in Readers : Before(ToSet(reader[r].got), ToSet(outs)),
         chunks' = Stored(chunks, stream, outs),
         Waiting' \subseteq Waiting, Before(ToSet(outs), Waiting'),
         UNCHANGED <<produced, reader>>
  PROVE  chunks' \in Seq(Chunk) /\ ChunkInv' /\ ReaderInv'
<1> DEFINE n == Len(chunks)
           k == Len(chunks')
<1>1. /\ chunks \in Seq(Chunk) /\ n \in Nat /\ DOMAIN chunks = 1 .. n
      /\ reader \in [Readers -> Reader] /\ produced \in Nat
  BY LenProperties, LogAssumption DEF LogInv, LogTypes, LogTypeOK
<1>2. /\ chunks' \in Seq(Chunk) /\ chunks' # <<>>
      /\ chunks'[k] = [sequence |-> NextSequence(chunks), stream |-> stream, outs |-> outs]
  BY <1>1, StoredIs DEF Last
<1>3. PICK d \in 0 .. n : k = n + 1 - d /\ \A i \in 1 .. n - d : chunks'[i] = chunks[i + d]
  BY <1>1, StoredIs
<1>4. k \in Nat /\ DOMAIN chunks' = 1 .. k
  BY <1>2, LenProperties
<1>5. chunks'[k].outs = outs /\ chunks'[k].sequence = NextSequence(chunks)
  <2> DEFINE row == [sequence |-> NextSequence(chunks), stream |-> stream, outs |-> outs]
  <2>1. row.outs = outs /\ row.sequence = NextSequence(chunks)
    OBVIOUS
  <2> QED BY Zenon, <1>2, <2>1
<1>6. \A i \in DOMAIN chunks : chunks[i].sequence \in Nat
  <2>1. \A i \in DOMAIN chunks : chunks[i] \in Chunk
    BY <1>1, ElementOfSeq
  <2> QED BY <2>1 DEF Chunk
<1>7. \A i \in DOMAIN chunks : chunks[i].sequence < NextSequence(chunks)
  <2> SUFFICES ASSUME NEW i \in DOMAIN chunks PROVE chunks[i].sequence < NextSequence(chunks)
    OBVIOUS
  <2>1. chunks # <<>> /\ n \in DOMAIN chunks
    BY <1>1, EmptySeq
  <2>2. i = n \/ i < n
    BY <1>1
  <2>3. chunks[i].sequence <= chunks[n].sequence
    BY <1>6, <2>1, <2>2 DEF LogInv, ChunkInv
  <2> QED BY <1>6, <2>1, <2>3 DEF NextSequence, Last
<1>8. \A r \in Readers : reader[r].cursor < NextSequence(chunks) /\ reader[r].cursor \in Nat
  <2> SUFFICES ASSUME NEW r \in Readers
               PROVE  reader[r].cursor < NextSequence(chunks) /\ reader[r].cursor \in Nat
    OBVIOUS
  <2>1. reader[r].cursor \in Nat
    BY <1>1 DEF Reader
  <2>2. CASE chunks = <<>>
    BY <2>1, <2>2 DEF NextSequence, LogInv, ReaderInv
  <2>3. CASE chunks # <<>>
    <3>1. n \in DOMAIN chunks
      BY <1>1, <2>3, EmptySeq
    <3> QED BY <1>6, <2>1, <2>3, <3>1 DEF NextSequence, Last, LogInv, ReaderInv
  <2> QED BY <2>2, <2>3
\* Each row was there before, or is the new one.
<1>9. ASSUME NEW i \in DOMAIN chunks'
      PROVE  \/ i = k
             \/ i < k /\ i + d \in DOMAIN chunks /\ chunks'[i] = chunks[i + d]
  <2> SUFFICES ASSUME i # k
               PROVE  i < k /\ i + d \in DOMAIN chunks /\ chunks'[i] = chunks[i + d]
    OBVIOUS
  <2>1. i \in 1 .. k /\ k = n + 1 - d
    BY <1>3, <1>4, <1>9
  <2>2. i < k /\ i \in 1 .. n - d /\ i + d \in 1 .. n
    BY <1>1, <1>4, <2>1
  <2> QED BY <1>1, <1>3, <2>2
<1>10. ASSUME NEW i \in DOMAIN chunks', NEW j \in DOMAIN chunks', i < j
       PROVE  i # k /\ i + d < j + d
  <2>1. i \in Nat /\ j \in Nat /\ j <= k /\ d \in Nat
    BY <1>3, <1>4
  <2> QED BY <1>4, <1>10, <2>1
<1> HIDE DEF n, k
<1>11. InLine(chunks')
  <2>1. \A i \in DOMAIN chunks' : Rising(chunks'[i].outs)
    BY <1>5, <1>9 DEF LogInv, ChunkInv, InLine
  <2>2. \A i \in DOMAIN chunks : ToSet(chunks[i].outs) \subseteq Pieces(chunks)
    BY DEF Pieces
  <2>3. \A i \in DOMAIN chunks : Before(ToSet(chunks[i].outs), ToSet(outs))
    BY <2>2 DEF Before
  <2>4. ASSUME NEW i \in DOMAIN chunks', NEW j \in DOMAIN chunks', i < j
        PROVE  Before(ToSet(chunks'[i].outs), ToSet(chunks'[j].outs))
    <3>1. i # k /\ i + d < j + d /\ i + d \in DOMAIN chunks /\ chunks'[i] = chunks[i + d]
      BY <1>9, <1>10, <2>4
    <3>2. CASE j = k
      BY <1>5, <2>3, <3>1, <3>2
    <3>3. CASE j # k
      BY <1>9, <3>1, <3>3 DEF LogInv, ChunkInv, InLine
    <3> QED BY <3>2, <3>3
  <2> QED BY <2>1, <2>4 DEF InLine
<1>12. ASSUME NEW i \in DOMAIN chunks', NEW j \in DOMAIN chunks', i < j
       PROVE  chunks'[i].sequence < chunks'[j].sequence
  <2>1. i # k /\ i + d < j + d /\ i + d \in DOMAIN chunks /\ chunks'[i] = chunks[i + d]
    BY <1>9, <1>10, <1>12
  <2>2. CASE j = k
    BY <1>5, <1>7, <2>1, <2>2
  <2>3. CASE j # k
    BY <1>9, <2>1, <2>3 DEF LogInv, ChunkInv
  <2> QED BY <2>2, <2>3
<1>13. Pieces(chunks') \subseteq Pieces(chunks) \cup ToSet(outs)
  BY <1>5, <1>9 DEF Pieces
<1>14. ChunkInv'
  <2>1. Pieces(chunks') \subseteq 1 .. produced
    BY <1>13 DEF LogInv, ChunkInv
  <2>2. Before(Pieces(chunks'), Waiting')
    BY <1>13 DEF LogInv, ChunkInv, Before
  <2> QED BY <1>11, <1>12, <2>1, <2>2 DEF ChunkInv
<1>15. ReaderInv'
  <2> SUFFICES ASSUME NEW r \in Readers
               PROVE  /\ reader[r].cursor <= chunks'[k].sequence
                      /\ \A i \in DOMAIN chunks' :
                           IF chunks'[i].sequence <= reader[r].cursor
                           THEN ToSet(chunks'[i].outs) \subseteq ToSet(reader[r].got)
                           ELSE Before(ToSet(reader[r].got), ToSet(chunks'[i].outs))
    BY <1>2 DEF LogInv, ReaderInv, Before, Last, k
  <2>1. NextSequence(chunks) \in Nat
    <3>1. CASE chunks = <<>>
      BY <3>1 DEF NextSequence
    <3>2. CASE chunks # <<>>
      <4>1. Len(chunks) \in DOMAIN chunks
        BY <1>1, <3>2, EmptySeq DEF n
      <4> QED BY <1>6, <3>2, <4>1 DEF NextSequence, Last
    <3> QED BY <3>1, <3>2
  <2>2. reader[r].cursor <= chunks'[k].sequence /\ ~(chunks'[k].sequence <= reader[r].cursor)
    BY <1>5, <1>8, <2>1
  <2>3. ASSUME NEW i \in DOMAIN chunks'
        PROVE  IF chunks'[i].sequence <= reader[r].cursor
               THEN ToSet(chunks'[i].outs) \subseteq ToSet(reader[r].got)
               ELSE Before(ToSet(reader[r].got), ToSet(chunks'[i].outs))
    <3>1. CASE i = k
      BY <1>5, <2>2, <3>1
    <3>2. CASE i # k
      BY <1>9, <3>2 DEF LogInv, ReaderInv
    <3> QED BY <3>1, <3>2
  <2> QED BY <2>2, <2>3
<1> QED BY <1>2, <1>14, <1>15

LEMMA AppendRises ==
  ASSUME NEW s \in Seq(Output), NEW p \in Output, Rising(s), \A x \in ToSet(s) : x < p
  PROVE  /\ Append(s, p) \in Seq(Output)
         /\ ToSet(Append(s, p)) = ToSet(s) \cup {p}
         /\ Rising(Append(s, p))
<1> DEFINE t == <<p>>
<1>2. t \in Seq(Output) /\ Append(s, p) = s \o t /\ Append(s, p) \in Seq(Output)
  BY AppendIsConcat, AppendProperties
<1>3. ToSet(t) = {p} /\ Rising(t)
  BY DEF ToSet, Rising
<1> HIDE DEF t
<1>4. Before(ToSet(s), ToSet(t))
  BY <1>3 DEF Before
<1>5. ToSet(s \o t) = ToSet(s) \cup ToSet(t)
  BY <1>2, ConcatElements
<1>6. Rising(s \o t)
  BY <1>2, <1>3, <1>4, ConcatRises
<1> QED BY <1>2, <1>3, <1>5, <1>6

\* The new piece is the last of the last entry.
LEMMA JoinedIs ==
  ASSUME NEW entries \in Seq(Entry), NEW stream \in Streams, NEW p \in Output,
         InLine(entries), \A x \in Pieces(entries) : x < p
  PROVE  LET joined == Joined(entries, stream, p) IN
         /\ joined \in Seq(Entry)
         /\ InLine(joined)
         /\ Pieces(joined) = Pieces(entries) \cup {p}
<1> DEFINE n == Len(entries)
           joined == Joined(entries, stream, p)
<1>1. n \in Nat /\ DOMAIN entries = 1 .. n
  BY LenProperties
<1>2. \A i \in 1 .. n : entries[i] \in Entry
  BY ElementOfSeq
<1>3. \A i \in 1 .. n : entries[i].outs \in Seq(Output)
  BY <1>2 DEF Entry
<1>4. \A i \in 1 .. n : ToSet(entries[i].outs) \subseteq Pieces(entries)
  BY <1>1 DEF Pieces
<1>5. CASE entries # <<>> /\ Last(entries).stream = stream
  <2> DEFINE outs == Append(entries[n].outs, p)
             last == [entries[n] EXCEPT !.outs = outs]
  <2>1. n \in 1 .. n
    BY <1>1, <1>5, EmptySeq
  <2>2. /\ outs \in Seq(Output) /\ ToSet(outs) = ToSet(entries[n].outs) \cup {p}
        /\ Rising(outs)
    <3>1. Rising(entries[n].outs) /\ \A x \in ToSet(entries[n].outs) : x < p
      BY <1>1, <1>4, <2>1 DEF InLine
    <3> QED BY <1>3, <2>1, <3>1, AppendRises
  <2> HIDE DEF outs
  <2>3. last \in Entry /\ last.outs = outs
    BY <1>2, <2>1, <2>2 DEF Entry
  <2>4. joined = [entries EXCEPT ![n] = last]
    BY <1>5 DEF Joined, outs
  <2> HIDE DEF last, joined
  <2>5. /\ joined \in Seq(Entry) /\ Len(joined) = n
        /\ \A i \in 1 .. n : joined[i] = IF i = n THEN last ELSE entries[i]
    BY <2>1, <2>3, <2>4, ExceptSeq
  <2>6. DOMAIN joined = 1 .. n
    BY <2>5, LenProperties
  <2>7. \A i \in 1 .. n : joined[i].outs = IF i = n THEN outs ELSE entries[i].outs
    BY <2>3, <2>5
  <2>8. Pieces(joined) = Pieces(entries) \cup {p}
    <3>1. \A x : x \in Pieces(joined) <=> \E i \in 1 .. n : x \in ToSet(joined[i].outs)
      BY <2>6 DEF Pieces
    <3>2. \A x : x \in Pieces(entries) <=> \E i \in 1 .. n : x \in ToSet(entries[i].outs)
      BY <1>1 DEF Pieces
    <3>3. \A i \in 1 .. n : ToSet(joined[i].outs) = ToSet(entries[i].outs) \cup (IF i = n THEN {p} ELSE {})
      BY <2>2, <2>7
    <3>4. \A x : (\E i \in 1 .. n : x \in ToSet(joined[i].outs))
                  <=> (\E i \in 1 .. n : x \in ToSet(entries[i].outs)) \/ x = p
      BY <2>1, <3>3
    <3> QED BY <3>1, <3>2, <3>4
  <2>9. InLine(joined)
    <3>1. \A i \in 1 .. n : Rising(joined[i].outs)
      BY <1>1, <2>2, <2>7 DEF InLine
    <3>2. ASSUME NEW i \in 1 .. n, NEW j \in 1 .. n, i < j
          PROVE  Before(ToSet(joined[i].outs), ToSet(joined[j].outs))
      <4>1. i # n
        <5> HIDE DEF n
        <5>1. i \in Nat /\ j \in Nat /\ j <= n
          BY <1>1
        <5> QED BY <1>1, <3>2, <5>1
      <4>2. Before(ToSet(entries[i].outs), ToSet(entries[j].outs))
        BY <1>1, <3>2 DEF InLine
      <4>3. Before(ToSet(entries[i].outs), {p})
        BY <1>4 DEF Before
      <4>4. ToSet(joined[j].outs) \subseteq ToSet(entries[j].outs) \cup {p}
        BY <2>2, <2>7
      <4>5. joined[i].outs = entries[i].outs
        BY <2>7, <4>1
      <4> QED BY <4>2, <4>3, <4>4, <4>5 DEF Before
    <3> QED BY <2>6, <3>1, <3>2 DEF InLine
  <2> QED BY <2>5, <2>8, <2>9 DEF joined
<1>6. CASE ~(entries # <<>> /\ Last(entries).stream = stream)
  <2> DEFINE new == [stream |-> stream, outs |-> <<p>>]
  <2>1. new \in Entry /\ new.outs = <<p>>
    BY DEF Entry
  <2>2. joined = Append(entries, new)
    BY <1>6 DEF Joined
  <2> HIDE DEF new, joined
  <2>3. /\ joined \in Seq(Entry) /\ Len(joined) = n + 1
        /\ \A i \in 1 .. n : joined[i] = entries[i]
        /\ joined[n + 1] = new
    BY <2>1, <2>2, AppendProperties
  <2>4. DOMAIN joined = 1 .. n + 1
    BY <2>3, LenProperties
  <2>5. ToSet(<<p>>) = {p} /\ Rising(<<p>>)
    BY DEF ToSet, Rising
  <2>6. \A i \in 1 .. n + 1 : i \in 1 .. n \/ i = n + 1
    BY <1>1
  <2>7. n + 1 \in 1 .. n + 1 /\ \A i \in 1 .. n : i \in 1 .. n + 1
    BY <1>1
  <2>8. Pieces(joined) = Pieces(entries) \cup {p}
    <3>1. \A x : x \in Pieces(joined) <=> \E i \in 1 .. n + 1 : x \in ToSet(joined[i].outs)
      BY <2>4 DEF Pieces
    <3>2. \A x : x \in Pieces(entries) <=> \E i \in 1 .. n : x \in ToSet(entries[i].outs)
      BY <1>1 DEF Pieces
    <3> QED BY <2>1, <2>3, <2>5, <2>6, <2>7, <3>1, <3>2
  <2>9. InLine(joined)
    <3>1. \A i \in 1 .. n + 1 : Rising(joined[i].outs)
      BY <1>1, <2>1, <2>3, <2>5, <2>6 DEF InLine
    <3>2. ASSUME NEW i \in 1 .. n + 1, NEW j \in 1 .. n + 1, i < j
          PROVE  Before(ToSet(joined[i].outs), ToSet(joined[j].outs))
      <4>1. i \in 1 .. n /\ joined[i] = entries[i]
        BY <1>1, <2>3, <3>2
      <4>2. CASE j \in 1 .. n
        BY <1>1, <2>3, <3>2, <4>1, <4>2 DEF InLine
      <4>3. CASE j = n + 1
        BY <1>4, <2>1, <2>3, <2>5, <4>1, <4>3 DEF Before
      <4> QED BY <2>6, <4>2, <4>3
    <3> QED BY <2>4, <3>1, <3>2 DEF InLine
  <2> QED BY <2>3, <2>8, <2>9 DEF joined
<1> QED BY <1>5, <1>6

\* What is printed, or given up, leaves the chunks and the readers where they are.
LEMMA WaitingKeeps ==
  ASSUME LogInv, produced' \in produced .. MaxOutput,
         Waiting' \subseteq Waiting \cup (produced + 1 .. produced'),
         UNCHANGED <<chunks, reader>>
  PROVE  ChunkInv' /\ ReaderInv'
<1>1. produced \in Nat /\ produced' \in Nat /\ produced <= produced'
  BY LogAssumption DEF LogInv, LogTypes, LogTypeOK
<1>2. 1 .. produced \subseteq 1 .. produced'
  BY <1>1
<1>3. ASSUME NEW A, A \subseteq 1 .. produced, Before(A, Waiting) PROVE Before(A, Waiting')
  <2>1. \A a \in A : \A x \in produced + 1 .. produced' : a < x
    BY <1>1, <1>3
  <2> QED BY <1>3, <2>1 DEF Before
<1>4. ChunkInv'
  BY <1>2, <1>3 DEF LogInv, ChunkInv
<1>5. ReaderInv'
  BY <1>2, <1>3 DEF LogInv, ReaderInv
<1> QED BY <1>4, <1>5

LEMMA FlushKeeps ==
  ASSUME LogInv, NEW entries \in Seq(Entry), InLine(entries),
         produced' \in produced .. MaxOutput,
         Pieces(entries) \subseteq Pieces(buffer) \cup (produced + 1 .. produced'),
         Flush(entries), UNCHANGED <<broken, chunks, reader>>
  PROVE  LogTypeOK' /\ QueueInv' /\ ChunkInv' /\ ReaderInv' /\ flushes' \in {flushes, flushes + 1}
<1>1. /\ inFlight \in Seq(Seq(Entry)) /\ flushes \in Nat /\ broken \in BOOLEAN /\ chunks \in Seq(Chunk)
      /\ produced \in Nat /\ produced' \in Nat /\ produced <= produced' /\ produced' \in 0 .. MaxOutput
  BY LogAssumption DEF LogInv, LogTypes, LogTypeOK
<1>2. buffer' = <<>> /\ timer' = FALSE
  BY DEF Flush
<1>3. Pieces(<<>>) = {} /\ InLine(<<>>)
  BY DEF Pieces, InLine
<1> DEFINE n == Len(inFlight)
<1>4. n \in Nat /\ DOMAIN inFlight = 1 .. n
  BY <1>1, LenProperties
<1>5. /\ inFlight' \in Seq(Seq(Entry))
      /\ \A b \in DOMAIN inFlight' :
           \/ b \in DOMAIN inFlight /\ inFlight'[b] = inFlight[b]
           \/ b = n + 1 /\ inFlight'[b] = entries /\ entries # <<>>
      /\ flushes' \in {flushes, flushes + 1}
  <2>1. CASE entries = <<>>
    BY <1>1, <2>1 DEF Flush
  <2>2. CASE entries # <<>> /\ broken
    BY <1>1, <2>2 DEF Flush
  <2>3. CASE entries # <<>> /\ ~broken
    <3>1. inFlight' = Append(inFlight, entries) /\ flushes' = flushes + 1
      BY <2>3 DEF Flush
    <3>2. /\ inFlight' \in Seq(Seq(Entry)) /\ Len(inFlight') = n + 1
          /\ \A b \in 1 .. n : inFlight'[b] = inFlight[b]
          /\ inFlight'[n + 1] = entries
      BY <1>1, <3>1, AppendProperties
    <3>3. DOMAIN inFlight' = 1 .. n + 1
      BY <3>2, LenProperties
    <3>4. \A b \in 1 .. n + 1 : b \in 1 .. n \/ b = n + 1
      BY <1>4
    <3> QED BY <1>4, <2>3, <3>1, <3>2, <3>3, <3>4
  <2> QED BY <1>1, <2>1, <2>2, <2>3
<1>6. LogTypeOK'
  <2>1. buffer' \in Seq(Entry) /\ timer' \in BOOLEAN
    BY <1>2, EmptySeq
  <2>2. flushes' \in Nat
    BY <1>1, <1>5
  <2> QED BY <1>1, <1>5, <2>1, <2>2 DEF LogTypeOK
<1>7. \A b \in DOMAIN inFlight : Pieces(inFlight[b]) \subseteq Waiting
  BY DEF Waiting
<1>8. Waiting \subseteq 1 .. produced /\ Pieces(buffer) \subseteq Waiting
  <2>1. Waiting \subseteq 1 .. produced
    BY DEF LogInv, QueueInv
  <2>2. Pieces(buffer) \subseteq Waiting
    BY DEF Waiting
  <2> QED BY <2>1, <2>2
<1>9. Waiting' \subseteq Waiting \cup (produced + 1 .. produced')
  BY <1>2, <1>3, <1>5, <1>7, <1>8 DEF Waiting
<1>10. \A b \in DOMAIN inFlight : Before(Pieces(inFlight[b]), Pieces(entries))
  <2> SUFFICES ASSUME NEW b \in DOMAIN inFlight, NEW x \in Pieces(inFlight[b]), NEW y \in Pieces(entries)
               PROVE  x < y
    BY DEF Before
  <2>1. x \in 1 .. produced
    BY <1>7, <1>8
  <2>2. CASE y \in Pieces(buffer)
    BY <2>2 DEF LogInv, QueueInv, Before
  <2>3. CASE y \in produced + 1 .. produced'
    BY <1>1, <2>1, <2>3
  <2> QED BY <2>2, <2>3
<1> HIDE DEF n
<1>11. QueueInv'
  <2>1. InLine(buffer') /\ \A b \in DOMAIN inFlight' :
          inFlight'[b] # <<>> /\ InLine(inFlight'[b]) /\ Before(Pieces(inFlight'[b]), Pieces(buffer'))
    BY <1>2, <1>3, <1>5 DEF LogInv, QueueInv, Before
  <2>2. ASSUME NEW b \in DOMAIN inFlight', NEW c \in DOMAIN inFlight', b < c
        PROVE  Before(Pieces(inFlight'[b]), Pieces(inFlight'[c]))
    <3>1. b \in DOMAIN inFlight /\ inFlight'[b] = inFlight[b]
      <4>1. DOMAIN inFlight' = 1 .. Len(inFlight')
        BY <1>5, LenProperties
      <4>2. b # n + 1
        BY <1>4, <1>5, <2>2, <4>1
      <4> QED BY <1>5, <4>2
    <3> QED BY <1>5, <1>10, <2>2, <3>1 DEF LogInv, QueueInv
  <2>3. Waiting' \subseteq 1 .. produced'
    <3>1. 1 .. produced \subseteq 1 .. produced' /\ produced + 1 .. produced' \subseteq 1 .. produced'
      BY <1>1
    <3> QED BY <1>8, <1>9, <3>1
  <2> QED BY <2>1, <2>2, <2>3 DEF QueueInv
<1>12. ChunkInv' /\ ReaderInv'
  BY <1>9, WaitingKeeps
<1> QED BY <1>5, <1>6, <1>11, <1>12

LEMMA TailInLine ==
  ASSUME NEW entries \in Seq(Entry), entries # <<>>, InLine(entries)
  PROVE  /\ Head(entries) \in Entry /\ Tail(entries) \in Seq(Entry)
         /\ Head(entries).outs \in Seq(Output) /\ Head(entries).stream \in Streams
         /\ Rising(Head(entries).outs)
         /\ ToSet(Head(entries).outs) \subseteq Pieces(entries)
         /\ InLine(Tail(entries))
         /\ Pieces(Tail(entries)) \subseteq Pieces(entries)
         /\ Before(ToSet(Head(entries).outs), Pieces(Tail(entries)))
<1> DEFINE n == Len(entries)
           left == Tail(entries)
<1>1. n \in Nat \ {0} /\ DOMAIN entries = 1 .. n
  BY LenProperties, EmptySeq
<1>2. /\ Head(entries) = entries[1] /\ left \in Seq(Entry) /\ Len(left) = n - 1
      /\ \A i \in 1 .. n - 1 : left[i] = entries[i + 1]
  BY HeadTailProperties
<1>3. 1 \in DOMAIN entries /\ entries[1] \in Entry
  BY <1>1, ElementOfSeq
<1>4. DOMAIN left = 1 .. n - 1
  BY <1>2, LenProperties
<1> HIDE DEF left, n
<1>5. \A i \in DOMAIN left : i \in Nat /\ 1 < i + 1 /\ i + 1 \in DOMAIN entries /\ left[i] = entries[i + 1]
  BY <1>1, <1>2, <1>4
<1>6. InLine(left)
  <2>1. \A i \in DOMAIN left : Rising(left[i].outs)
    BY <1>5 DEF InLine
  <2>2. ASSUME NEW i \in DOMAIN left, NEW j \in DOMAIN left, i < j
        PROVE  Before(ToSet(left[i].outs), ToSet(left[j].outs))
    <3>1. i + 1 < j + 1
      BY <1>5, <2>2
    <3> QED BY <1>5, <3>1 DEF InLine
  <2> QED BY <2>1, <2>2 DEF InLine
<1>7. Pieces(left) \subseteq Pieces(entries)
  BY <1>5 DEF Pieces
<1>8. Before(ToSet(entries[1].outs), Pieces(left))
  <2>1. \A i \in DOMAIN left : Before(ToSet(entries[1].outs), ToSet(left[i].outs))
    BY <1>3, <1>5 DEF InLine
  <2> QED BY <2>1 DEF Before, Pieces
<1>9. /\ entries[1].outs \in Seq(Output) /\ entries[1].stream \in Streams
      /\ Rising(entries[1].outs) /\ ToSet(entries[1].outs) \subseteq Pieces(entries)
  BY <1>3 DEF Entry, InLine, Pieces
<1> QED BY <1>2, <1>3, <1>6, <1>7, <1>8, <1>9 DEF left

\* What is left of the chain: without its first entry, and without a batch that is
\* empty then.
LEMMA RestIs ==
  ASSUME LogInv, inFlight # <<>>
  PROVE  /\ Rest(1) \in Seq(Seq(Entry))
         /\ \E d \in {0, 1} :
              \A b \in DOMAIN Rest(1) :
                /\ b \in Nat /\ b + d \in DOMAIN inFlight
                /\ \/ b + d # 1 /\ Rest(1)[b] = inFlight[b + d]
                   \/ /\ b + d = 1 /\ b = 1
                      /\ Tail(inFlight[1]) # <<>> /\ Rest(1)[b] = Tail(inFlight[1])
<1> DEFINE n == Len(inFlight)
           left == Tail(inFlight[1])
<1>1. inFlight \in Seq(Seq(Entry)) /\ n \in Nat \ {0} /\ DOMAIN inFlight = 1 .. n /\ 1 \in 1 .. n
  BY LenProperties, EmptySeq DEF LogInv, LogTypes, LogTypeOK
<1>2. inFlight[1] \in Seq(Entry) /\ inFlight[1] # <<>> /\ left \in Seq(Entry)
  BY <1>1, ElementOfSeq, HeadTailProperties DEF LogInv, QueueInv
<1>3. CASE left # <<>>
  <2>1. Rest(1) = [inFlight EXCEPT ![1] = left]
    BY <1>3 DEF Rest
  <2> HIDE DEF left
  <2>2. /\ Rest(1) \in Seq(Seq(Entry)) /\ Len(Rest(1)) = n
        /\ \A b \in 1 .. n : Rest(1)[b] = IF b = 1 THEN left ELSE inFlight[b]
    <3>1. /\ [inFlight EXCEPT ![1] = left] \in Seq(Seq(Entry))
          /\ Len([inFlight EXCEPT ![1] = left]) = n
          /\ \A b \in 1 .. n : [inFlight EXCEPT ![1] = left][b] = IF b = 1 THEN left ELSE inFlight[b]
      BY <1>1, <1>2, ExceptSeq
    <3> QED BY <2>1, <3>1
  <2>3. DOMAIN Rest(1) = 1 .. n
    BY <2>2, LenProperties
  <2>4. \A b \in 1 .. n : b \in Nat /\ b + 0 = b
    OBVIOUS
  <2> QED BY <1>1, <1>3, <2>2, <2>3, <2>4 DEF left
<1>4. CASE left = <<>>
  <2>1. Rest(1) = RemoveAt(inFlight, 1)
    BY <1>4 DEF Rest
  <2>2. SubSeq(inFlight, 1, 1 - 1) = <<>>
    <3>1. 1 - 1 < 1 /\ 1 \in Int /\ 1 - 1 \in Int
      OBVIOUS
    <3> QED BY <3>1, SubSeqEmpty
  <2>3. SubSeq(inFlight, 2, Len(inFlight)) = Tail(inFlight) /\ Tail(inFlight) \in Seq(Seq(Entry))
        /\ Len(Tail(inFlight)) = n - 1
        /\ \A b \in 1 .. n - 1 : Tail(inFlight)[b] = inFlight[b + 1]
    BY <1>1, TailIsSubSeq, HeadTailProperties
  <2>4. <<>> \o Tail(inFlight) = Tail(inFlight)
    BY <2>3, ConcatEmptySeq
  <2>5. Rest(1) = Tail(inFlight)
    BY <2>1, <2>2, <2>3, <2>4, SMTT(30) DEF RemoveAt
  <2>6. DOMAIN Rest(1) = 1 .. n - 1
    BY <2>3, <2>5, LenProperties
  <2>7. \A b \in 1 .. n - 1 : b \in Nat /\ b + 1 \in 1 .. n /\ b + 1 # 1
    BY <1>1
  <2> QED BY <1>1, <2>3, <2>5, <2>6, <2>7
<1> QED BY <1>3, <1>4

\* The first entry that waits was printed after all that is stored or sent.
LEMMA FirstEntry ==
  ASSUME LogInv, inFlight # <<>>
  PROVE  LET entry == Head(inFlight[1]) IN
         /\ inFlight[1] \in Seq(Entry) /\ inFlight[1] # <<>> /\ 1 \in DOMAIN inFlight
         /\ InLine(inFlight[1])
         /\ entry.outs \in Seq(Output) /\ entry.stream \in Streams
         /\ Rising(entry.outs) /\ ToSet(entry.outs) \subseteq 1 .. produced
         /\ Before(Pieces(chunks), ToSet(entry.outs))
         /\ \A r \in Readers : Before(ToSet(reader[r].got), ToSet(entry.outs))
         /\ Before(ToSet(entry.outs), Pieces(buffer))
<1>1. inFlight \in Seq(Seq(Entry)) /\ 1 \in DOMAIN inFlight
  BY LenProperties, EmptySeq DEF LogInv, LogTypes, LogTypeOK
<1>2. inFlight[1] \in Seq(Entry) /\ inFlight[1] # <<>> /\ InLine(inFlight[1])
  BY <1>1, LenProperties, ElementOfSeq DEF LogInv, QueueInv
<1> DEFINE outs == Head(inFlight[1]).outs
<1>3. ToSet(outs) \subseteq Pieces(inFlight[1])
  BY <1>2, TailInLine
<1>4. outs \in Seq(Output) /\ Head(inFlight[1]).stream \in Streams /\ Rising(outs)
  BY <1>2, TailInLine
<1> HIDE DEF outs
<1>5. Pieces(inFlight[1]) \subseteq Waiting
  BY <1>1 DEF Waiting
<1>6. Waiting \subseteq 1 .. produced /\ Before(Pieces(chunks), Waiting)
      /\ Before(Pieces(inFlight[1]), Pieces(buffer))
      /\ \A r \in Readers : Before(ToSet(reader[r].got), Waiting)
  BY <1>1 DEF LogInv, QueueInv, ChunkInv, ReaderInv
<1> QED BY <1>1, <1>2, <1>3, <1>4, <1>5, <1>6 DEF outs, Before

LEMMA WriteChunkKeeps ==
  ASSUME LogInv, WriteChunk, UNCHANGED reader
  PROVE  LogTypeOK' /\ QueueInv' /\ ChunkInv' /\ ReaderInv' /\ flushes' = flushes
<1>1. /\ inFlight # <<>> /\ inFlight' = Rest(1)
      /\ chunks' = Stored(chunks, Head(inFlight[1]).stream, Head(inFlight[1]).outs)
      /\ UNCHANGED <<produced, buffer, timer, flushes, broken>>
  <2>1. PICK b \in 1 .. 1 : /\ b <= Len(inFlight) /\ inFlight' = Rest(b)
                            /\ chunks' = Stored(chunks, Head(inFlight[b]).stream, Head(inFlight[b]).outs)
                            /\ UNCHANGED <<produced, buffer, timer, flushes, broken>>
    BY DEF WriteChunk, Writable
  <2>2. b = 1
    OBVIOUS
  <2>3. inFlight # <<>>
    BY <2>1, <2>2, EmptySeq
  <2> QED BY <2>1, <2>2, <2>3
<1> DEFINE first == inFlight[1]
           outs == Head(first).outs
<1>2. /\ first \in Seq(Entry) /\ first # <<>> /\ InLine(first) /\ 1 \in DOMAIN inFlight
      /\ outs \in Seq(Output) /\ Head(first).stream \in Streams
      /\ Rising(outs) /\ ToSet(outs) \subseteq 1 .. produced
      /\ Before(Pieces(chunks), ToSet(outs))
      /\ \A r \in Readers : Before(ToSet(reader[r].got), ToSet(outs))
      /\ Before(ToSet(outs), Pieces(buffer))
  BY <1>1, FirstEntry
<1>3. InLine(Tail(first)) /\ Pieces(Tail(first)) \subseteq Pieces(first)
      /\ Before(ToSet(outs), Pieces(Tail(first))) /\ ToSet(outs) \subseteq Pieces(first)
  BY <1>2, TailInLine
<1>4. inFlight' \in Seq(Seq(Entry))
  BY <1>1, RestIs
<1>5. PICK d \in {0, 1} :
        \A b \in DOMAIN inFlight' :
          /\ b \in Nat /\ b + d \in DOMAIN inFlight
          /\ \/ b + d # 1 /\ inFlight'[b] = inFlight[b + d]
             \/ b + d = 1 /\ b = 1 /\ Tail(first) # <<>> /\ inFlight'[b] = Tail(first)
  BY <1>1, RestIs
<1>6. inFlight \in Seq(Seq(Entry)) /\ DOMAIN inFlight = 1 .. Len(inFlight) /\ Len(inFlight) \in Nat
  BY LenProperties DEF LogInv, LogTypes, LogTypeOK
<1> HIDE DEF outs
<1>7. \A b \in DOMAIN inFlight' :
        /\ inFlight'[b] # <<>> /\ InLine(inFlight'[b])
        /\ Pieces(inFlight'[b]) \subseteq Pieces(inFlight[b + d])
        /\ Before(ToSet(outs), Pieces(inFlight'[b]))
  <2> SUFFICES ASSUME NEW b \in DOMAIN inFlight'
               PROVE  /\ inFlight'[b] # <<>> /\ InLine(inFlight'[b])
                      /\ Pieces(inFlight'[b]) \subseteq Pieces(inFlight[b + d])
                      /\ Before(ToSet(outs), Pieces(inFlight'[b]))
    OBVIOUS
  <2>1. CASE b + d # 1
    <3>1. b + d \in DOMAIN inFlight /\ inFlight'[b] = inFlight[b + d]
      BY <1>5, <2>1
    <3>2. 1 < b + d
      BY <1>6, <2>1, <3>1
    <3>3. inFlight[b + d] # <<>> /\ InLine(inFlight[b + d]) /\ Before(Pieces(first), Pieces(inFlight[b + d]))
      BY <1>2, <3>1, <3>2 DEF LogInv, QueueInv
    <3> QED BY <1>3, <3>1, <3>3 DEF Before
  <2>2. CASE b + d = 1
    BY <1>3, <1>5, <2>2
  <2> QED BY <2>1, <2>2
<1>8. Waiting' \subseteq Waiting /\ Before(ToSet(outs), Waiting')
  <2>1. ASSUME NEW x \in Waiting' PROVE x \in Waiting /\ \A y \in ToSet(outs) : y < x
    <3>1. CASE x \in Pieces(buffer)
      BY <1>2, <3>1 DEF Waiting, Before
    <3>2. CASE \E b \in DOMAIN inFlight' : x \in Pieces(inFlight'[b])
      BY <1>5, <1>7, <3>2 DEF Waiting, Before
    <3> QED BY <1>1, <3>1, <3>2 DEF Waiting
  <2> QED BY <2>1 DEF Before
<1>9. chunks' \in Seq(Chunk) /\ ChunkInv' /\ ReaderInv'
  BY <1>1, <1>2, <1>8, StoredKeeps DEF outs
<1>10. LogTypeOK'
  BY <1>1, <1>4, <1>9 DEF LogInv, LogTypes, LogTypeOK
<1>11. QueueInv'
  <2>1. InLine(buffer') /\ Waiting' \subseteq 1 .. produced'
    BY <1>1, <1>8 DEF LogInv, QueueInv
  <2>2. ASSUME NEW b \in DOMAIN inFlight' PROVE Before(Pieces(inFlight'[b]), Pieces(buffer'))
    BY <1>1, <1>5, <1>7 DEF LogInv, QueueInv, Before
  <2>3. ASSUME NEW b \in DOMAIN inFlight', NEW c \in DOMAIN inFlight', b < c
        PROVE  Before(Pieces(inFlight'[b]), Pieces(inFlight'[c]))
    <3>1. b + d < c + d /\ b + d \in DOMAIN inFlight /\ c + d \in DOMAIN inFlight
      BY <1>5, <2>3
    <3>2. Before(Pieces(inFlight[b + d]), Pieces(inFlight[c + d]))
      BY <3>1 DEF LogInv, QueueInv
    <3> QED BY <1>7, <3>2 DEF Before
  <2> QED BY <1>7, <2>1, <2>2, <2>3 DEF QueueInv
<1> QED BY <1>1, <1>9, <1>10, <1>11

LEMMA HistoryIs ==
  ASSUME NEW rs \in Seq(Chunk), NEW after \in Nat,
         \A i, j \in DOMAIN rs : i < j => rs[i].sequence < rs[j].sequence
  PROVE  /\ History(rs, after) \in Seq(Chunk)
         /\ \E k \in 0 .. Len(rs) :
              /\ Len(History(rs, after)) = Len(rs) - k
              /\ \A i \in 1 .. Len(rs) - k : History(rs, after)[i] = rs[i + k]
              /\ \A i \in DOMAIN rs : rs[i].sequence <= after <=> i <= k
<1> DEFINE n == Len(rs)
           sent == {i \in DOMAIN rs : rs[i].sequence <= after}
           k == Max({0} \cup sent)
           new == History(rs, after)
<1>1. n \in Nat /\ DOMAIN rs = 1 .. n /\ \A i \in 1 .. n : rs[i] \in Chunk
  BY LenProperties, ElementOfSeq
<1>2. \A i \in DOMAIN rs : rs[i].sequence \in Nat
  BY <1>1 DEF Chunk
<1>3. k \in {0} \cup sent /\ \A i \in sent : i <= k
  <2>1. {0} \cup sent \in SUBSET Nat /\ \A i \in {0} \cup sent : i <= n
    BY <1>1
  <2> HIDE DEF sent
  <2> QED BY <1>1, <2>1, Greatest
<1>4. new = SubSeq(rs, k + 1, n)
  BY DEF History
<1> HIDE DEF k, new
<1>5. k \in 0 .. n
  BY <1>1, <1>3
<1>6. /\ new \in Seq(Chunk) /\ Len(new) = n - k
      /\ \A i \in 1 .. n - k : new[i] = rs[i + k]
  <2>1. k + 1 \in Int /\ n \in Int /\ \A i \in k + 1 .. n : rs[i] \in Chunk
    BY <1>1, <1>5
  <2>2. /\ new \in Seq(Chunk)
        /\ Len(new) = IF k + 1 <= n THEN n - (k + 1) + 1 ELSE 0
        /\ \A i \in 1 .. n - (k + 1) + 1 : new[i] = rs[(k + 1) + i - 1]
    BY <1>4, <2>1, SubSeqProperties
  <2> HIDE DEF n
  <2>3. ASSUME NEW i \in 1 .. n - k PROVE new[i] = rs[i + k]
    <3>1. i \in 1 .. n - (k + 1) + 1 /\ (k + 1) + i - 1 = i + k
      BY <1>1, <1>5
    <3> QED BY <2>2, <3>1
  <2>4. Len(new) = n - k
    BY <1>1, <1>5, <2>2
  <2> QED BY <2>2, <2>3, <2>4
<1>7. ASSUME NEW i \in DOMAIN rs PROVE rs[i].sequence <= after <=> i <= k
  <2>1. rs[i].sequence <= after => i <= k
    BY <1>3, <1>7
  <2>2. ASSUME i <= k PROVE rs[i].sequence <= after
    <3>1. k \in DOMAIN rs /\ rs[k].sequence <= after
      BY <1>1, <1>3, <2>2
    <3>2. i = k \/ rs[i].sequence < rs[k].sequence
      BY <1>1, <2>2, <3>1
    <3> QED BY <1>2, <3>1, <3>2
  <2> QED BY <2>1, <2>2
<1> HIDE DEF n
<1> QED BY <1>5, <1>6, <1>7 DEF new, n

\* A reader that was sent something, at p with a new cursor.
Sent(q, got, cursor, p) == [[q EXCEPT !.got = got, !.cursor = cursor] EXCEPT !.pc = p]

LEMMA StreamReadsKeeps ==
  ASSUME LogInv, NEW r \in Readers, StreamReads(r)
  PROVE  /\ LogInv'
         /\ UNCHANGED chunks
         /\ \A q \in Readers : q # r => reader'[q] = reader[q]
         /\ ToSet(reader'[r].got) = ToSet(reader[r].got) \cup Pieces(chunks)
<1> DEFINE old == reader[r]
           n == Len(chunks)
           new == History(chunks, old.cursor)
           cursor == IF new = <<>> THEN old.cursor ELSE Last(new).sequence
           got == old.got \o Outs(new)
<1>1. /\ chunks \in Seq(Chunk) /\ n \in Nat /\ DOMAIN chunks = 1 .. n
      /\ reader \in [Readers -> Reader] /\ old \in Reader
  BY LenProperties DEF LogInv, LogTypes, LogTypeOK
<1>2. old.cursor \in Nat /\ old.got \in Seq(Output)
  BY <1>1 DEF Reader
<1>3. PICK k \in 0 .. n :
        /\ Len(new) = n - k
        /\ \A i \in 1 .. n - k : new[i] = chunks[i + k]
        /\ \A i \in DOMAIN chunks : chunks[i].sequence <= old.cursor <=> i <= k
  BY <1>1, <1>2, HistoryIs DEF LogInv, ChunkInv
<1>4. new \in Seq(Chunk) /\ DOMAIN new = 1 .. n - k
  BY <1>1, <1>2, <1>3, HistoryIs, LenProperties DEF LogInv, ChunkInv
<1>5. \E p \in {"status", "closed", "sleep"} :
        reader' = [reader EXCEPT ![r] = Sent(old, got, cursor, p)]
  <2> DEFINE p == IF old.pc = "poll" THEN "status" ELSE IF old.terminal THEN "closed" ELSE "sleep"
             q == [old EXCEPT !.got = got, !.cursor = cursor]
  <2>1. reader' = [reader EXCEPT ![r] =
          [q EXCEPT !.pc = IF q.pc = "poll" THEN "status" ELSE IF q.terminal THEN "closed" ELSE "sleep"]]
    BY Zenon DEF StreamReads
  <2>2. q.pc = old.pc /\ q.terminal = old.terminal
    BY <1>1 DEF Reader
  <2>3. reader' = [reader EXCEPT ![r] = Sent(old, got, cursor, p)]
    BY Zenon, <2>1, <2>2 DEF Sent
  <2>4. p \in {"status", "closed", "sleep"}
    OBVIOUS
  <2> QED BY Zenon, <2>3, <2>4
<1>6. UNCHANGED <<logVars, ticket, cancel, chunks, produced, inFlight, buffer, flushes, timer, broken>>
  BY DEF StreamReads, logVars, sinkVars, runVars
<1> HIDE DEF new, n, cursor, got
<1>7. \A i \in DOMAIN new : i \in Nat /\ i + k \in DOMAIN chunks /\ new[i] = chunks[i + k] /\ ~(i + k <= k)
  BY <1>1, <1>3, <1>4
<1>8. \A i \in DOMAIN chunks : chunks[i] \in Chunk
  BY <1>1, ElementOfSeq
<1>9. \A i \in DOMAIN chunks : chunks[i].sequence \in Nat /\ chunks[i].outs \in Seq(Output)
  BY <1>8 DEF Chunk
<1>10. /\ Outs(new) \in Seq(Output) /\ ToSet(Outs(new)) = Pieces(new)
       /\ InLine(new) => Rising(Outs(new))
  <2>1. Len(new) \in Nat /\ DOMAIN new = 1 .. Len(new)
    BY <1>4, LenProperties
  <2>2. \A i \in DOMAIN new : new[i].outs \in Seq(Output)
    BY <1>7, <1>9
  <2> QED BY <2>1, <2>2, OutsRise
<1>11. InLine(new)
  <2>1. \A i \in DOMAIN new : Rising(new[i].outs)
    BY <1>7 DEF LogInv, ChunkInv, InLine
  <2>2. ASSUME NEW i \in DOMAIN new, NEW j \in DOMAIN new, i < j
        PROVE  Before(ToSet(new[i].outs), ToSet(new[j].outs))
    <3>1. i + k < j + k
      BY <1>7, <2>2
    <3> QED BY <1>7, <3>1 DEF LogInv, ChunkInv, InLine
  <2> QED BY <2>1, <2>2 DEF InLine
<1>12. Before(ToSet(old.got), Pieces(new))
  <2>1. \A i \in DOMAIN new : Before(ToSet(old.got), ToSet(new[i].outs))
    BY <1>3, <1>7 DEF LogInv, ReaderInv
  <2> QED BY <2>1 DEF Before, Pieces
<1>13. Pieces(new) \subseteq Pieces(chunks)
  BY <1>7 DEF Pieces
<1>14. /\ got \in Seq(Output) /\ ToSet(got) = ToSet(old.got) \cup Pieces(new)
       /\ Rising(got)
  <2>2. Rising(old.got) /\ Rising(Outs(new)) /\ Before(ToSet(old.got), ToSet(Outs(new)))
    BY <1>10, <1>11, <1>12 DEF LogInv, ReaderInv
  <2>3. got \in Seq(Output)
    BY <1>2, <1>10, ConcatProperties DEF got
  <2>4. old.got \in Seq(Output) /\ Outs(new) \in Seq(Output)
    BY <1>2, <1>10
  <2>5. ToSet(got) = ToSet(old.got) \cup ToSet(Outs(new))
    BY <2>4, ConcatElements DEF got
  <2>6. Rising(got)
    BY <2>2, <2>4, ConcatRises DEF got
  <2> QED BY <1>10, <2>3, <2>5, <2>6
\* Everything that is still there has been sent now.
<1>15. /\ cursor \in Nat
       /\ \A i \in DOMAIN chunks : chunks[i].sequence <= cursor
       /\ IF chunks = <<>> THEN cursor = 0 ELSE cursor <= Last(chunks).sequence
  <2>1. CASE k = n
    <3>1. new = <<>> /\ cursor = old.cursor
      BY <1>1, <1>3, <1>4, <2>1, EmptySeq DEF cursor
    <3>2. \A i \in DOMAIN chunks : chunks[i].sequence <= cursor
      BY <1>1, <1>3, <2>1, <3>1
    <3> QED BY <1>2, <3>1, <3>2 DEF LogInv, ReaderInv
  <2>2. CASE k # n
    <3>1. k < n /\ n \in DOMAIN chunks /\ n - k \in 1 .. n - k /\ (n - k) + k = n
      BY <1>1, <2>2
    <3>2. new # <<>> /\ Last(new) = chunks[n]
      BY <1>3, <1>4, <3>1, EmptySeq DEF Last
    <3>3. cursor = chunks[n].sequence
      BY <3>2 DEF cursor
    <3>4. ASSUME NEW i \in DOMAIN chunks PROVE chunks[i].sequence <= cursor
      <4>1. i = n \/ i < n
        BY <1>1
      <4> QED BY <1>9, <3>1, <3>3, <4>1 DEF LogInv, ChunkInv
    <3>5. chunks # <<>> /\ Last(chunks) = chunks[n]
      BY <1>1, <3>1, EmptySeq DEF Last, n
    <3> QED BY <1>9, <3>1, <3>3, <3>4, <3>5
  <2> QED BY <2>1, <2>2
<1>16. \A i \in DOMAIN chunks : ToSet(chunks[i].outs) \subseteq ToSet(got)
  <2> SUFFICES ASSUME NEW i \in DOMAIN chunks PROVE ToSet(chunks[i].outs) \subseteq ToSet(got)
    OBVIOUS
  <2>1. CASE i <= k
    BY <1>3, <1>14, <2>1 DEF LogInv, ReaderInv
  <2>2. CASE ~(i <= k)
    <3>1. i - k \in DOMAIN new /\ (i - k) + k = i
      BY <1>1, <1>4, <2>2
    <3>2. new[i - k] = chunks[i]
      BY <1>7, <3>1
    <3>3. ToSet(chunks[i].outs) \subseteq Pieces(new)
      BY <3>1, <3>2 DEF Pieces
    <3> QED BY <1>14, <3>3
  <2> QED BY <2>1, <2>2
<1>17. /\ reader' \in [Readers -> Reader]
       /\ \A q \in Readers : q # r => reader'[q] = reader[q]
       /\ reader'[r].got = got /\ reader'[r].cursor = cursor
  <2>1. PICK p \in {"status", "closed", "sleep"} :
          reader' = [reader EXCEPT ![r] = Sent(old, got, cursor, p)]
    BY <1>5
  <2>2. old \in Reader /\ got \in Seq(Output) /\ cursor \in Nat
    BY <1>1, <1>14, <1>15
  <2> DEFINE sent == Sent(old, got, cursor, p)
  <2>3. sent \in Reader /\ sent.got = got /\ sent.cursor = cursor
    BY <2>2 DEF Sent, Reader
  <2>4. reader' = [reader EXCEPT ![r] = sent]
    BY <2>1
  <2>5. /\ reader' \in [Readers -> Reader]
        /\ \A q \in Readers : q # r => reader'[q] = reader[q]
        /\ reader'[r] = sent
    <3> HIDE DEF sent
    <3> QED BY <1>1, <2>3, <2>4
  <2> QED BY <2>3, <2>5
<1>18. Waiting' = Waiting
  BY <1>6 DEF Waiting
<1>19. QueueInv' /\ ChunkInv' /\ LogTypes'
  BY <1>6, <1>17, <1>18 DEF LogInv, QueueInv, ChunkInv, LogTypes, LogTypeOK
<1>20. ReaderInv'
  <2> SUFFICES ASSUME NEW q \in Readers
               PROVE  /\ Rising(reader'[q].got)
                      /\ ToSet(reader'[q].got) \subseteq 1 .. produced
                      /\ Before(ToSet(reader'[q].got), Waiting)
                      /\ IF chunks = <<>> THEN reader'[q].cursor = 0
                                          ELSE reader'[q].cursor <= Last(chunks).sequence
                      /\ \A i \in DOMAIN chunks :
                           IF chunks[i].sequence <= reader'[q].cursor
                           THEN ToSet(chunks[i].outs) \subseteq ToSet(reader'[q].got)
                           ELSE Before(ToSet(reader'[q].got), ToSet(chunks[i].outs))
    BY <1>6, <1>18 DEF ReaderInv
  <2>1. CASE q # r
    BY <1>17, <2>1 DEF LogInv, ReaderInv
  <2>2. CASE q = r
    <3>1. ToSet(got) \subseteq 1 .. produced /\ Before(ToSet(got), Waiting)
      BY <1>13, <1>14 DEF LogInv, ChunkInv, ReaderInv, Before
    <3> QED BY <1>14, <1>15, <1>16, <1>17, <2>2, <3>1
  <2> QED BY <2>1, <2>2
<1>21. ToSet(got) = ToSet(old.got) \cup Pieces(chunks)
  <2>1. Pieces(chunks) \subseteq ToSet(got)
    BY <1>16 DEF Pieces
  <2> QED BY <1>13, <1>14, <2>1
<1> QED BY <1>6, <1>17, <1>19, <1>20, <1>21 DEF LogInv

LEMMA LogInitHolds ==
  ASSUME Init
  PROVE  LogInv
<1>1. LogTypes
  <2>1. \A r \in Readers : reader[r] \in Reader
    BY PipelineAssumption DEF Init, Reader
  <2>2. LogTypeOK
    <3>1. 0 \in 0 .. MaxOutput /\ 0 \in Nat
      BY LogAssumption
    <3>2. <<>> \in Seq(Entry) /\ <<>> \in Seq(Seq(Entry)) /\ <<>> \in Seq(Chunk)
      BY EmptySeq
    <3> QED BY <3>1, <3>2 DEF Init, LogInit, LogTypeOK
  <2> QED BY <2>1, <2>2 DEF Init, LogInit, LogTypes
<1>2. Pieces(<<>>) = {} /\ InLine(<<>>)
  BY DEF Pieces, InLine
<1>3. Waiting = {}
  BY <1>2 DEF Init, LogInit, Waiting
<1>4. QueueInv
  BY <1>2, <1>3 DEF Init, LogInit, QueueInv
<1>5. ChunkInv
  BY <1>2, <1>3 DEF Init, LogInit, ChunkInv, Before
<1>6. ReaderInv
  BY <1>3 DEF Init, LogInit, ReaderInv, Rising, ToSet, Before
<1> QED BY <1>1, <1>4, <1>5, <1>6 DEF LogInv

LEMMA LogStillHolds ==
  ASSUME LogInv, UNCHANGED <<logVars, ticket, cancel, reader>>
  PROVE  LogInv'
BY DEF logVars, sinkVars, LogInv, LogTypes, LogTypeOK, QueueInv, ChunkInv, ReaderInv, Waiting

\* A log operation that keeps the log in order; the rest stays.
LEMMA LogStepHolds ==
  ASSUME LogInv, LogTypeOK', QueueInv', ChunkInv', ReaderInv', flushes' \in {flushes, flushes + 1},
         ticket' \in {ticket, flushes'}, UNCHANGED <<cancel, reader>>
  PROVE  LogInv'
<1>1. flushes \in Nat /\ ticket \in 0 .. flushes
  BY DEF LogInv, LogTypes, LogTypeOK
<1>2. ticket' \in 0 .. flushes'
  BY <1>1
<1> QED BY <1>2 DEF LogInv, LogTypes

\* Printing: the piece joins the buffer, which may be handed to the chain with it.
LEMMA SinkAppendHolds ==
  ASSUME LogInv, NEW s \in Streams, SinkAppend(s), UNCHANGED <<ticket, cancel, reader>>
  PROVE  LogInv'
<1> DEFINE joined == Joined(buffer, s, produced + 1)
<1>1. /\ produced \in Nat /\ produced + 1 \in Output /\ produced' = produced + 1
      /\ produced' \in produced .. MaxOutput /\ produced + 1 .. produced' = {produced + 1}
      /\ produced' \in 0 .. MaxOutput
  BY LogAssumption DEF SinkAppend, Output, LogInv, LogTypes, LogTypeOK
<1>2. buffer \in Seq(Entry) /\ InLine(buffer) /\ Pieces(buffer) \subseteq 1 .. produced
  BY DEF LogInv, LogTypes, LogTypeOK, QueueInv, Waiting
<1>3. \A x \in Pieces(buffer) : x < produced + 1
  BY <1>1, <1>2
<1>4. joined \in Seq(Entry) /\ InLine(joined) /\ Pieces(joined) = Pieces(buffer) \cup {produced + 1}
  BY <1>1, <1>2, <1>3, JoinedIs
<1> HIDE DEF joined
<1>5. CASE Flush(joined) /\ UNCHANGED <<broken, chunks>>
  BY <1>1, <1>4, <1>5, FlushKeeps, LogStepHolds
<1>6. CASE /\ buffer' = joined /\ timer' = (timer \/ Armed)
           /\ UNCHANGED <<inFlight, flushes, broken, chunks>>
  <2>1. LogTypeOK'
    BY <1>1, <1>4, <1>6 DEF LogInv, LogTypes, LogTypeOK, Armed
  <2>2. Waiting' = Waiting \cup {produced + 1}
    BY <1>4, <1>6 DEF Waiting
  <2>3. ChunkInv' /\ ReaderInv'
    BY <1>1, <1>6, <2>2, WaitingKeeps
  <2>4. Waiting' \subseteq 1 .. produced'
    <3>1. Waiting \subseteq 1 .. produced
      BY DEF LogInv, QueueInv
    <3>2. 1 .. produced \subseteq 1 .. produced' /\ produced + 1 \in 1 .. produced'
      BY <1>1
    <3> QED BY <2>2, <3>1, <3>2
  <2>5. ASSUME NEW b \in DOMAIN inFlight PROVE Before(Pieces(inFlight[b]), Pieces(joined))
    <3>1. Pieces(inFlight[b]) \subseteq 1 .. produced /\ Before(Pieces(inFlight[b]), Pieces(buffer))
      BY DEF LogInv, QueueInv, Waiting
    <3>2. \A x \in 1 .. produced : x < produced + 1
      BY <1>1
    <3> QED BY <1>4, <3>1, <3>2 DEF Before
  <2>6. QueueInv'
    BY <1>4, <1>6, <2>4, <2>5 DEF LogInv, QueueInv
  <2> QED BY <1>6, <2>1, <2>3, <2>6, LogStepHolds
<1> QED BY <1>5, <1>6 DEF SinkAppend, joined

LEMMA FlushHolds ==
  ASSUME LogInv, Flush(buffer), ticket' \in {ticket, flushes'},
         UNCHANGED <<produced, broken, chunks, cancel, reader>>
  PROVE  LogInv'
<1>1. produced' \in produced .. MaxOutput /\ buffer \in Seq(Entry) /\ InLine(buffer)
  BY LogAssumption DEF LogInv, LogTypes, LogTypeOK, QueueInv
<1>2. LogTypeOK' /\ QueueInv' /\ ChunkInv' /\ ReaderInv' /\ flushes' \in {flushes, flushes + 1}
  BY <1>1, FlushKeeps
<1> QED BY <1>2, LogStepHolds

\* A write that fails has stored its chunk or not; the chain is gone.
LEMMA WriteFailsHolds ==
  ASSUME LogInv, WriteFails, UNCHANGED <<ticket, cancel, reader>>
  PROVE  LogInv'
<1> DEFINE entry == Head(inFlight[1])
<1>1. /\ inFlight # <<>> /\ inFlight' = <<>> /\ broken' = TRUE
      /\ UNCHANGED <<produced, buffer, timer, flushes>>
      /\ chunks' = chunks \/ chunks' = Stored(chunks, entry.stream, entry.outs)
  BY DEF WriteFails
<1>2. Waiting' \subseteq Waiting /\ Waiting' = Pieces(buffer)
  BY <1>1 DEF Waiting
<1>3. QueueInv'
  <2>1. DOMAIN inFlight' = {}
    BY <1>1
  <2>2. InLine(buffer') /\ Waiting' \subseteq 1 .. produced'
    BY <1>1, <1>2 DEF LogInv, QueueInv
  <2> QED BY <2>1, <2>2 DEF QueueInv
<1>4. chunks' \in Seq(Chunk) /\ ChunkInv' /\ ReaderInv'
  <2>1. CASE chunks' = chunks
    <3>1. produced' \in produced .. MaxOutput /\ chunks \in Seq(Chunk)
      BY <1>1, LogAssumption DEF LogInv, LogTypes, LogTypeOK
    <3> QED BY <1>2, <2>1, <3>1, WaitingKeeps
  <2>2. CASE chunks' = Stored(chunks, entry.stream, entry.outs)
    BY <1>1, <1>2, <2>2, FirstEntry, StoredKeeps
  <2> QED BY <1>1, <2>1, <2>2
<1>5. LogTypeOK'
  BY <1>1, <1>4 DEF LogInv, LogTypes, LogTypeOK
<1> QED BY <1>1, <1>3, <1>4, <1>5, LogStepHolds

LEMMA SinkLostHolds ==
  ASSUME LogInv, SinkLost, UNCHANGED <<ticket, cancel, reader>>
  PROVE  LogInv'
<1>1. Waiting' = {} /\ InLine(buffer')
  BY DEF SinkLost, Waiting, Pieces, InLine
<1>2. produced' \in produced .. MaxOutput
  BY LogAssumption DEF SinkLost, LogInv, LogTypes, LogTypeOK
<1>3. ChunkInv' /\ ReaderInv'
  BY <1>1, <1>2, WaitingKeeps DEF SinkLost
<1>4. QueueInv'
  BY <1>1 DEF SinkLost, QueueInv
<1>5. LogTypeOK'
  <2>1. <<>> \in Seq(Entry) /\ <<>> \in Seq(Seq(Entry))
    BY EmptySeq
  <2> QED BY <2>1 DEF SinkLost, LogInv, LogTypes, LogTypeOK
<1> QED BY <1>3, <1>4, <1>5, LogStepHolds DEF SinkLost

\* The marker holds no output.
LEMMA MarkFinishedHolds ==
  ASSUME LogInv, MarkFinished
  PROVE  LogInv'
<1>1. /\ chunks' = Stored(chunks, FinishMarker, <<>>)
      /\ UNCHANGED <<produced, buffer, timer, inFlight, flushes, broken, ticket, cancel, reader>>
  BY DEF MarkFinished, sinkVars
<1>2. <<>> \in Seq(Output) /\ ToSet(<<>>) = {} /\ Rising(<<>>)
  BY DEF ToSet, Rising
<1>3. Waiting' = Waiting
  BY <1>1 DEF Waiting
<1>4. chunks' \in Seq(Chunk) /\ ChunkInv' /\ ReaderInv'
  BY <1>1, <1>2, <1>3, StoredKeeps DEF Before
<1>5. LogTypeOK' /\ QueueInv'
  BY <1>1, <1>3, <1>4 DEF LogInv, LogTypes, LogTypeOK, QueueInv
<1> QED BY <1>1, <1>4, <1>5, LogStepHolds

\* A stream that opens, wakes, looks at the row or is left neither reads nor forgets.
LEMMA StreamMovesHolds ==
  ASSUME LogInv, NEW r \in Readers,
         StreamOpens(r) \/ StreamWakes(r) \/ StreamChecks(r) \/ StreamAborts(r)
  PROVE  /\ LogInv'
         /\ UNCHANGED chunks
         /\ \A q \in Readers : reader'[q].got = reader[q].got
<1>1. reader \in [Readers -> Reader] /\ UNCHANGED <<logVars, ticket, cancel>>
  BY DEF LogInv, LogTypes, StreamOpens, StreamWakes, StreamChecks, StreamAborts, runVars
<1>2. /\ reader' \in [Readers -> Reader]
      /\ \A q \in Readers : reader'[q].got = reader[q].got /\ reader'[q].cursor = reader[q].cursor
  <2>1. PICK q \in Reader : /\ reader' = [reader EXCEPT ![r] = q]
                            /\ q.got = reader[r].got /\ q.cursor = reader[r].cursor
    <3>1. reader[r] \in Reader
      BY <1>1
    <3>2. CASE StreamOpens(r)
      <4> DEFINE n == IF reader[r].pc = "gone" THEN reader[r].reconnects + 1 ELSE reader[r].reconnects
                 q == [reader[r] EXCEPT !.pc = "history", !.terminal = IsTerminal(status), !.reconnects = n]
      <4>1. n \in 0 .. MaxReconnects
        BY <3>1, <3>2, PipelineAssumption DEF StreamOpens, Reader
      <4>2. reader' = [reader EXCEPT ![r] = q]
        <5>1. reader' = [reader EXCEPT
                ![r].pc = "history",
                ![r].terminal = IsTerminal(status),
                ![r].reconnects = IF reader[r].pc = "gone" THEN @ + 1 ELSE @]
          BY <3>2 DEF StreamOpens
        <5>2. reader'[r] = q
          BY <1>1, <5>1
        <5>3. DOMAIN reader' = Readers /\ \A x \in Readers : x # r => reader'[x] = reader[x]
          BY <1>1, <5>1
        <5>4. reader' = [x \in Readers |-> reader'[x]]
          BY <1>1, <5>1
        <5> HIDE DEF q
        <5>5. [reader EXCEPT ![r] = q] = [x \in Readers |-> IF x = r THEN q ELSE reader[x]]
          BY <1>1
        <5>6. \A x \in Readers : reader'[x] = IF x = r THEN q ELSE reader[x]
          BY <5>2, <5>3
        <5> QED BY <5>4, <5>5, <5>6
      <4> HIDE DEF n
      <4>3. IsTerminal(status) \in BOOLEAN
        BY DEF IsTerminal
      <4>4. q \in Reader /\ q.got = reader[r].got /\ q.cursor = reader[r].cursor
        BY <3>1, <4>1, <4>3 DEF Reader
      <4> QED BY <4>2, <4>4
    <3>3. CASE StreamWakes(r) \/ StreamChecks(r) \/ StreamAborts(r)
      <4>1. PICK p \in {"poll", "closed", "sleep", "gone"} : reader' = [reader EXCEPT ![r].pc = p]
        BY <3>3 DEF StreamWakes, StreamChecks, StreamAborts
      <4> DEFINE q == [reader[r] EXCEPT !.pc = p]
      <4>2. q \in Reader /\ q.got = reader[r].got /\ q.cursor = reader[r].cursor
        BY <3>1 DEF Reader
      <4> QED BY <4>1, <4>2
    <3> QED BY <3>2, <3>3
  <2> QED BY <1>1, <2>1
<1>3. UNCHANGED <<produced, buffer, timer, inFlight, flushes, broken, chunks>> /\ Waiting' = Waiting
  BY <1>1 DEF logVars, sinkVars, Waiting
<1>4. QueueInv' /\ ChunkInv' /\ LogTypes'
  BY <1>1, <1>2, <1>3 DEF LogInv, LogTypes, LogTypeOK, QueueInv, ChunkInv
<1>5. ReaderInv'
  BY <1>2, <1>3 DEF LogInv, ReaderInv
<1> QED BY <1>2, <1>3, <1>4, <1>5 DEF LogInv

LEMMA LogNextHolds ==
  ASSUME LogInv, [Next]_vars
  PROVE  LogInv'
<1>1. CASE RunStep
  <2>1. CASE SinkFlush
    BY <2>1, FlushHolds DEF SinkFlush
  <2>2. CASE MarkFinished
    BY <2>2, MarkFinishedHolds
  <2>3. CASE UNCHANGED <<logVars, ticket, cancel, reader>>
    BY <2>3, LogStillHolds
  <2> QED
    BY <1>1, <2>1, <2>2, <2>3
       DEF RunStep, MarkRunning, Prepare, StartWave, WaveDone, RecordSteps, FinishRun, SinkFlushed,
           Notify, Catch, StepEnds, StepFails
<1>2. CASE LogStep
  <2>1. CASE TimerFires
    BY <1>2, <2>1, FlushHolds DEF LogStep, TimerFires, runVars
  <2>2. CASE WriteChunk
    BY <1>2, <2>2, WriteChunkKeeps, LogStepHolds DEF LogStep, runVars
  <2> QED BY <1>2, <2>1, <2>2 DEF LogStep
<1>3. CASE Failures
  <2>1. CASE WriteFails /\ UNCHANGED <<runVars, d1Vars, notified, cancel, reader>>
    BY <2>1, WriteFailsHolds DEF runVars
  <2>2. CASE Evict
    BY <2>2, SinkLostHolds DEF Evict
  <2>3. CASE UNCHANGED <<logVars, ticket, cancel, reader>>
    BY <2>3, LogStillHolds
  <2> QED BY <1>3, <2>1, <2>2, <2>3 DEF Failures, StepThrows, Throws, CatchFails
<1>4. CASE People
  <2>1. CASE CancelCheck \/ CancelWrite
    <3>1. UNCHANGED <<logVars, ticket, reader>> /\ cancel' \in {"idle", "allowed", "done"}
      BY <2>1 DEF CancelCheck, CancelWrite, runVars
    <3> QED
      BY <3>1 DEF logVars, sinkVars, LogInv, LogTypes, LogTypeOK, QueueInv, ChunkInv, ReaderInv, Waiting
  <2> QED BY <1>4, <2>1, StreamMovesHolds DEF People
<1>5. CASE \E s \in Steps : StepPrints(s)
  BY <1>5, PipelineAssumption, SinkAppendHolds DEF StepPrints, runVars
<1>6. CASE \E r \in Readers : StreamStep(r)
  BY <1>6, StreamReadsKeeps, StreamMovesHolds DEF StreamStep
<1>7. CASE UNCHANGED vars
  BY <1>7, LogStillHolds DEF vars, runVars
<1> QED BY <1>1, <1>2, <1>3, <1>4, <1>5, <1>6, <1>7 DEF Next

LEMMA LogInvariant == Spec => []LogInv
BY LogInitHolds, LogNextHolds, PTL DEF Spec

-----------------------------------------------------------------------------
(***************************************************************************)
(* The abstract log: what a step of the run is in OutputLog.               *)
(***************************************************************************)

\* What a sequence of chunks in line is in the abstract log.
LEMMA KeptIs ==
  ASSUME NEW rs \in Seq(Chunk), InLine(rs)
  PROVE  Log0!Pieces(Outs(rs)) = Pieces(rs) /\ Log0!InOrder(Outs(rs))
<1>1. Len(rs) \in Nat /\ DOMAIN rs = 1 .. Len(rs) /\ \A i \in DOMAIN rs : rs[i] \in Chunk
  BY LenProperties, ElementOfSeq
<1>2. \A i \in DOMAIN rs : rs[i].outs \in Seq(Output)
  BY <1>1 DEF Chunk
<1>3. Outs(rs) \in Seq(Output) /\ ToSet(Outs(rs)) = Pieces(rs) /\ Rising(Outs(rs))
  BY <1>1, <1>2, OutsRise
<1>4. Increasing(Outs(rs))
  BY <1>3, RisingIncreases
<1> QED BY <1>3, <1>4 DEF Log0!Pieces, ToSet, Log0!InOrder, Increasing

\* What a reader was sent is in order.
LEMMA SentIs ==
  ASSUME NEW q \in Reader, Rising(q.got)
  PROVE  Log0!Pieces(q.got) = ToSet(q.got) /\ Log0!InOrder(q.got)
<1>1. q.got \in Seq(Output)
  BY DEF Reader
<1>2. Increasing(q.got)
  BY <1>1, RisingIncreases
<1> QED BY <1>2 DEF Log0!Pieces, ToSet, Log0!InOrder, Increasing

\* A chunk that is stored is output that arrives, and rows that go are the oldest.
LEMMA StoredIsStore ==
  ASSUME LogInv, LogInv', NEW stream \in Streams \cup {FinishMarker}, NEW outs \in Seq(Output),
         Before(Pieces(chunks), ToSet(outs)),
         \A r \in Readers : Before(ToSet(reader[r].got), ToSet(outs)),
         chunks' = Stored(chunks, stream, outs), UNCHANGED reader
  PROVE  Log0!Store
<1> DEFINE n == Len(chunks)
           k == Len(chunks')
<1>1. /\ chunks \in Seq(Chunk) /\ n \in Nat /\ DOMAIN chunks = 1 .. n /\ InLine(chunks)
      /\ chunks' \in Seq(Chunk) /\ k \in Nat /\ DOMAIN chunks' = 1 .. k /\ InLine(chunks')
  BY LenProperties DEF LogInv, LogTypes, LogTypeOK, ChunkInv
<1>2. chunks'[k] = [sequence |-> NextSequence(chunks), stream |-> stream, outs |-> outs]
  <2>1. Last(chunks') = [sequence |-> NextSequence(chunks), stream |-> stream, outs |-> outs]
    BY <1>1, StoredIs
  <2> QED BY <2>1 DEF Last
<1>3. PICK d \in 0 .. n : k = n + 1 - d /\ \A i \in 1 .. n - d : chunks'[i] = chunks[i + d]
  BY <1>1, StoredIs
<1>4. chunks'[k].outs = outs
  BY <1>2
<1>5. ASSUME NEW i \in DOMAIN chunks'
      PROVE  \/ i = k
             \/ i + d \in DOMAIN chunks /\ i + d > d /\ chunks'[i] = chunks[i + d]
  <2> SUFFICES ASSUME i # k
               PROVE  i + d \in DOMAIN chunks /\ i + d > d /\ chunks'[i] = chunks[i + d]
    OBVIOUS
  <2>1. i \in 1 .. n - d /\ i + d \in 1 .. n /\ i + d > d
    BY <1>1, <1>3
  <2> QED BY <1>1, <1>3, <2>1
<1>6. ASSUME NEW i \in DOMAIN chunks, i > d
      PROVE  ToSet(chunks[i].outs) \subseteq Pieces(chunks')
  <2>1. i - d \in 1 .. n - d /\ i - d \in DOMAIN chunks' /\ (i - d) + d = i
    BY <1>1, <1>3, <1>6
  <2>2. chunks'[i - d] = chunks[i]
    BY <1>3, <2>1
  <2> QED BY <2>1, <2>2 DEF Pieces
<1> HIDE DEF n, k
<1>7. Pieces(chunks') \ Pieces(chunks) \subseteq ToSet(outs)
  BY <1>4, <1>5 DEF Pieces
<1>8. ASSUME NEW x \in Pieces(chunks) \ Pieces(chunks'), NEW y \in Pieces(chunks') PROVE x < y
  <2>1. PICK i \in DOMAIN chunks : x \in ToSet(chunks[i].outs)
    BY DEF Pieces
  <2>2. ~(i > d)
    BY <1>6, <2>1
  <2>3. PICK j \in DOMAIN chunks' : y \in ToSet(chunks'[j].outs)
    BY DEF Pieces
  <2>4. CASE j = k
    BY <1>4, <2>3, <2>4 DEF Before
  <2>5. CASE j # k
    <3>1. j + d \in DOMAIN chunks /\ j + d > d /\ y \in ToSet(chunks[j + d].outs)
      BY <1>5, <2>3, <2>5
    <3>2. i < j + d
      BY <1>1, <1>3, <2>2, <3>1
    <3>3. Before(ToSet(chunks[i].outs), ToSet(chunks[j + d].outs))
      BY <1>1, <3>1, <3>2 DEF InLine
    <3> QED BY <2>1, <3>1, <3>3 DEF Before
  <2> QED BY <2>4, <2>5
<1>9. /\ Log0!Pieces(Outs(chunks)) = Pieces(chunks)
      /\ Log0!Pieces(Outs(chunks')) = Pieces(chunks') /\ Log0!InOrder(Outs(chunks'))
  BY <1>1, KeptIs
<1>10. \A r \in Readers : Log0!Pieces(reader[r].got) = ToSet(reader[r].got)
  BY SentIs DEF LogInv, LogTypes, ReaderInv
<1>11. Outs(chunks)' = Outs(chunks')
  BY DEF Outs
<1> QED BY <1>7, <1>8, <1>9, <1>10, <1>11 DEF Log0!Store, Log0!Before, Before

\* Serving a reader is one step of the abstract log.
LEMMA StreamReadsIsRead ==
  ASSUME LogInv, LogInv', NEW r \in Readers, StreamReads(r)
  PROVE  Log0!Read(r)
<1>1. /\ UNCHANGED chunks
      /\ \A q \in Readers : q # r => reader'[q] = reader[q]
      /\ ToSet(reader'[r].got) = ToSet(reader[r].got) \cup Pieces(chunks)
  BY StreamReadsKeeps
<1>2. chunks \in Seq(Chunk) /\ InLine(chunks)
  BY DEF LogInv, LogTypes, LogTypeOK, ChunkInv
<1>3. /\ Log0!Pieces(reader[r].got) = ToSet(reader[r].got)
      /\ Log0!Pieces(reader'[r].got) = ToSet(reader'[r].got)
      /\ Log0!InOrder(reader'[r].got)
  BY SentIs DEF LogInv, LogTypes, ReaderInv
<1>4. Log0!Pieces(Outs(chunks)) = Pieces(chunks)
  BY <1>2, KeptIs
<1>5. ASSUME NEW x \in ToSet(reader[r].got), NEW y \in Pieces(chunks) \ ToSet(reader[r].got)
      PROVE  x < y
  <2>1. PICK i \in DOMAIN chunks : y \in ToSet(chunks[i].outs)
    BY DEF Pieces
  <2>2. Before(ToSet(reader[r].got), ToSet(chunks[i].outs))
    BY <2>1 DEF LogInv, ReaderInv
  <2> QED BY <2>1, <2>2 DEF Before
<1>6. Outs(chunks)' = Outs(chunks)
  BY <1>1 DEF Outs
<1> QED BY <1>1, <1>3, <1>4, <1>5, <1>6 DEF Log0!Read, Log0!Before

\* Any other step leaves alone what is kept and sent.
LEMMA OthersStutter ==
  ASSUME UNCHANGED chunks, \A r \in Readers : reader'[r].got = reader[r].got
  PROVE  UNCHANGED Log0!vars
BY DEF Log0!vars, Outs

LEMMA NextIsLogStep ==
  ASSUME LogInv, LogInv', [Next]_vars
  PROVE  [Log0!Next]_Log0!vars
<1>1. CASE LogStep /\ WriteChunk
  <2>1. PICK b \in 1 .. 1 : b <= Len(inFlight) /\ UNCHANGED reader
          /\ chunks' = Stored(chunks, Head(inFlight[b]).stream, Head(inFlight[b]).outs)
    BY <1>1 DEF LogStep, WriteChunk, Writable
  <2>2. b = 1 /\ inFlight # <<>>
    BY <2>1, EmptySeq
  <2> QED BY <2>1, <2>2, FirstEntry, StoredIsStore DEF Log0!Next
<1>2. CASE WriteFails /\ UNCHANGED reader
  <2>1. /\ inFlight # <<>>
        /\ chunks' = chunks \/ chunks' = Stored(chunks, Head(inFlight[1]).stream, Head(inFlight[1]).outs)
    BY <1>2 DEF WriteFails
  <2>2. CASE chunks' = chunks
    BY <1>2, <2>2, OthersStutter
  <2>3. CASE chunks' = Stored(chunks, Head(inFlight[1]).stream, Head(inFlight[1]).outs)
    BY <1>2, <2>1, <2>3, FirstEntry, StoredIsStore DEF Log0!Next
  <2> QED BY <2>1, <2>2, <2>3
<1>3. CASE MarkFinished
  <2>1. chunks' = Stored(chunks, FinishMarker, <<>>) /\ UNCHANGED reader
    BY <1>3 DEF MarkFinished
  <2>2. <<>> \in Seq(Output) /\ ToSet(<<>>) = {}
    BY DEF ToSet
  <2> QED BY <2>1, <2>2, StoredIsStore DEF Before, Log0!Next
<1>4. ASSUME NEW r \in Readers, StreamReads(r) PROVE Log0!Next
  BY <1>4, StreamReadsIsRead DEF Log0!Next
<1>5. ASSUME NEW r \in Readers,
             StreamOpens(r) \/ StreamWakes(r) \/ StreamChecks(r) \/ StreamAborts(r)
      PROVE  UNCHANGED Log0!vars
  BY <1>5, StreamMovesHolds, OthersStutter
<1>6. CASE UNCHANGED <<chunks, reader>>
  BY <1>6, OthersStutter
<1>7. CASE RunStep
  BY <1>3, <1>6, <1>7
     DEF RunStep, MarkRunning, Prepare, StartWave, WaveDone, RecordSteps, FinishRun, SinkFlush,
         SinkFlushed, Notify, Catch, StepEnds, StepFails, logVars
<1>8. CASE LogStep
  BY <1>1, <1>6, <1>8 DEF LogStep, TimerFires
<1>9. CASE Failures
  BY <1>2, <1>6, <1>9 DEF Failures, StepThrows, Throws, CatchFails, Evict, SinkLost, logVars
<1>10. CASE People
  BY <1>5, <1>6, <1>10 DEF People, CancelCheck, CancelWrite, logVars
<1>11. CASE \E s \in Steps : StepPrints(s)
  BY <1>6, <1>11 DEF StepPrints, SinkAppend
<1>12. CASE \E r \in Readers : StreamStep(r)
  BY <1>4, <1>5, <1>12 DEF StreamStep
<1>13. CASE UNCHANGED vars
  BY <1>6, <1>13 DEF vars, logVars
<1> QED BY <1>7, <1>8, <1>9, <1>10, <1>11, <1>12, <1>13 DEF Next

-----------------------------------------------------------------------------
(***************************************************************************)
(* The abstract run.  What a step is shown as follows how it exits, so a   *)
(* step of the pipeline is one of the abstract run as soon as the exits it *)
(* changes are allowed to.                                                 *)
(***************************************************************************)

ShownSteps == [s \in Steps |-> Shown(s)]

LEMMA GreenIsGreen == IInv => SuccessMeansAllPassed
<1>1. ASSUME IInv, status = "success", plan = "steps", NEW s \in Steps PROVE exit[s] = "pass"
  <2>1. wave = Waves /\ Ok
    BY <1>1 DEF IInv, PathInv
  <2>2. \A t \in Steps : exit[t] # "fail"
    BY <1>1, <2>1 DEF Ok
  <2>3. exit[s] \in Ended
    BY <1>1, <2>1, WavesAssumption DEF IInv, WaveInv
  <2> QED BY <1>1, <2>2, <2>3 DEF Ended, IInv, WaveInv
<1> QED BY <1>1 DEF SuccessMeansAllPassed

LEMMA ShownIs ==
  ASSUME NEW s \in Steps
  PROVE  /\ exit[s] = "none" => Shown(s) = "waiting"
         /\ exit[s] = "running" => Shown(s) = "running"
         /\ exit[s] = "pass" => Shown(s) = "passed"
         /\ exit[s] \in {"fail", "lost"} => Shown(s) = "failed"
         /\ exit[s] = "skipped" => Shown(s) = "skipped"
BY DEF Shown

LEMMA KnownAre ==
  /\ DOMAIN KnownNeeds \subseteq Steps
  /\ plan = "steps" => DOMAIN KnownNeeds = Steps /\ \A s \in Steps : KnownNeeds[s] = Needs[s]
  /\ plan # "steps" => DOMAIN KnownNeeds = {}
BY PlanAssumption DEF KnownNeeds

LEMMA ExitsAreSteps ==
  ASSUME exit \in [Steps -> Exits], exit' \in [Steps -> Exits], UNCHANGED <<plan, status>>,
         \A s \in Steps : exit'[s] # exit[s] =>
           /\ plan = "steps"
           /\ \/ /\ exit[s] = "none" /\ exit'[s] = "running"
                 /\ \A n \in Needs[s] : exit[n] \in Ended /\ (s \notin Always => exit[n] = "pass")
              \/ /\ exit[s] = "none" /\ exit'[s] = "skipped" /\ s \notin Always
                 /\ \E n \in Needs[s] : exit[n] \in {"fail", "skipped"}
              \/ exit[s] = "running" /\ exit'[s] \in {"pass", "fail", "lost"}
  PROVE  Run0!Moves
<1>1. UNCHANGED <<KnownNeeds, status>>
  BY DEF KnownNeeds
<1>2. DOMAIN ShownSteps = Steps /\ DOMAIN ShownSteps' = Steps
  BY DEF ShownSteps
<1>3. ASSUME NEW s \in Steps
      PROVE  ShownSteps[s] = Shown(s) /\ ShownSteps'[s] = Shown(s)'
  BY DEF ShownSteps
<1>4. ASSUME NEW s \in Steps, Shown(s)' # Shown(s)
      PROVE  s \in Run0!Plan /\ (Run0!Starts(s) \/ Run0!Skips(s) \/ Run0!Ends(s))
  <2>1. exit'[s] # exit[s]
    BY <1>4 DEF Shown
  <2>2. plan = "steps" /\ s \in DOMAIN KnownNeeds /\ KnownNeeds[s] = Needs[s]
    BY <2>1, KnownAre
  <2>3. \A n \in Needs[s] : n \in Steps
    BY PlanAssumption
  <2>4. CASE /\ exit[s] = "none" /\ exit'[s] = "running"
             /\ \A n \in Needs[s] : exit[n] \in Ended /\ (s \notin Always => exit[n] = "pass")
    <3>1. Shown(s) = "waiting" /\ Shown(s)' = "running"
      BY <2>4 DEF Shown
    <3>2. ASSUME NEW n \in Needs[s]
          PROVE  /\ ShownSteps[n] \in {"passed", "failed", "skipped"}
                 /\ s \notin Always => ShownSteps[n] = "passed"
      <4>1. n \in Steps /\ exit[n] \in Ended /\ (s \notin Always => exit[n] = "pass")
        BY <2>3, <2>4
      <4> QED BY <1>3, <4>1, ShownIs DEF Ended
    <3> QED BY <1>3, <2>2, <3>1, <3>2 DEF Run0!Starts, Run0!Plan, Run0!Ended, ShownSteps
  <2>5. CASE /\ exit[s] = "none" /\ exit'[s] = "skipped" /\ s \notin Always
             /\ \E n \in Needs[s] : exit[n] \in {"fail", "skipped"}
    <3>1. Shown(s) = "waiting" /\ Shown(s)' = "skipped"
      BY <2>5 DEF Shown
    <3>2. PICK n \in Needs[s] : exit[n] \in {"fail", "skipped"}
      BY <2>5
    <3>3. ShownSteps[n] \in {"failed", "skipped"}
      BY <1>3, <2>3, <3>2, ShownIs
    <3> QED BY <1>3, <2>2, <2>5, <3>1, <3>2, <3>3
          DEF Run0!Skips, Run0!Plan, Run0!Ended, ShownSteps
  <2>6. CASE exit[s] = "running" /\ exit'[s] \in {"pass", "fail", "lost"}
    <3>1. Shown(s) = "running" /\ Shown(s)' \in {"passed", "failed"}
      BY <2>6 DEF Shown
    <3> QED BY <1>3, <2>2, <3>1 DEF Run0!Ends, Run0!Plan, ShownSteps
  <2> QED BY <2>1, <2>4, <2>5, <2>6
<1> QED BY <1>1, <1>2, <1>3, <1>4 DEF Run0!Moves, ShownSteps

LEMMA WavesAreSteps ==
  ASSUME IInv, IInv', StartWave
  PROVE  Run0!Moves
<1>1. plan = "steps" /\ wave \in Nat /\ UNCHANGED <<plan, status>>
      /\ exit \in [Steps -> Exits] /\ exit' \in [Steps -> Exits]
  BY WavesAssumption DEF StartWave, d1Vars, IInv, RunTypes, PathInv
<1>2. ASSUME NEW s \in Steps, exit'[s] # exit[s]
      PROVE  \/ /\ exit[s] = "none" /\ exit'[s] = "running"
                /\ \A n \in Needs[s] : exit[n] \in Ended /\ (s \notin Always => exit[n] = "pass")
             \/ /\ exit[s] = "none" /\ exit'[s] = "skipped" /\ s \notin Always
                /\ \E n \in Needs[s] : exit[n] \in {"fail", "skipped"}
  <2>1. Level[s] = wave /\ exit[s] = "none" /\ exit'[s] = IF Blocked(s) THEN "skipped" ELSE "running"
    BY <1>2 DEF StartWave, Wave
  <2>2. \A n \in Needs[s] : n \in Steps /\ Level[n] < wave
    BY <2>1, WavesAssumption, PlanAssumption
  <2>3. \A n \in Needs[s] : exit[n] \in Ended
    BY <2>2 DEF IInv, WaveInv
  <2>4. \A n \in Needs[s] : n \in failed <=> exit[n] \in {"fail", "skipped"}
    BY <2>2 DEF IInv, WaveInv, NotPassed
  <2>5. CASE Blocked(s)
    BY <2>1, <2>4, <2>5 DEF Blocked
  <2>6. CASE ~Blocked(s)
    BY <2>1, <2>3, <2>4, <2>6 DEF Blocked, Ended
  <2> QED BY <2>5, <2>6
<1> QED BY <1>1, <1>2, ExitsAreSteps

LEMMA EndsAreSteps ==
  ASSUME IInv, IInv', UNCHANGED <<plan, status>>,
         \A s \in Steps : exit'[s] # exit[s] => exit[s] = "running" /\ exit'[s] \in {"pass", "fail", "lost"}
  PROVE  Run0!Moves
<1>1. \A s \in Steps : exit'[s] # exit[s] => plan = "steps"
  BY DEF IInv, WaveInv
<1>2. exit \in [Steps -> Exits] /\ exit' \in [Steps -> Exits]
  BY DEF IInv, RunTypes
<1> QED BY <1>1, <1>2, ExitsAreSteps

\* Steps that change no exit, and so show nothing new but the status.
LEMMA StatusConcludes ==
  ASSUME IInv', UNCHANGED <<plan, exit>>
  PROVE  Run0!Concludes
<1>1. UNCHANGED <<KnownNeeds, ShownSteps>>
  BY DEF KnownNeeds, ShownSteps, Shown
<1>2. status' = "success" /\ plan = "steps" => \A s \in Steps : ShownSteps[s] = "passed"
  <2>1. status' = "success" /\ plan' = "steps" => \A s \in Steps : exit'[s] = "pass"
    <3>1. SuccessMeansAllPassed'
      BY GreenIsGreen, PTL
    <3> QED BY <3>1 DEF SuccessMeansAllPassed
  <2> QED BY <2>1, ShownIs DEF ShownSteps
<1>3. status' = "success" => \A s \in DOMAIN KnownNeeds : ShownSteps[s] = "passed"
  BY <1>2, KnownAre
<1> QED BY <1>1, <1>3 DEF Run0!Concludes, Run0!Plan, ShownSteps

LEMMA PrepareIsPlans ==
  ASSUME IInv, Prepare
  PROVE  Run0!Announces
<1>1. plan = "none" /\ status # "success" /\ UNCHANGED <<exit, status>>
  BY DEF Prepare, d1Vars, IInv, PathInv, Ok
<1>2. DOMAIN KnownNeeds = {} /\ DOMAIN KnownNeeds' \subseteq Steps
  BY <1>1, KnownAre, PlanAssumption DEF KnownNeeds
<1>3. ShownSteps' = ShownSteps /\ DOMAIN ShownSteps = Steps
  BY <1>1 DEF ShownSteps, Shown
<1> QED BY <1>1, <1>2, <1>3 DEF Run0!Announces, Run0!Plan, ShownSteps

LEMMA NextIsExecution ==
  ASSUME IInv, IInv', [Next]_vars
  PROVE  [Run0!Next]_Run0!vars
<1>1. ASSUME UNCHANGED <<plan, exit>> PROVE Run0!Next
  BY <1>1, StatusConcludes DEF Run0!Next
<1>2. ASSUME NEW s \in Steps, StepEnds(s) \/ StepFails(s) \/ StepThrows(s) PROVE Run0!Next
  <2>1. \A t \in Steps : exit'[t] # exit[t] => exit[t] = "running" /\ exit'[t] \in {"pass", "fail", "lost"}
    BY <1>2 DEF StepEnds, StepFails, StepThrows, IInv, RunTypes
  <2> QED BY <1>2, <2>1, EndsAreSteps DEF StepEnds, StepFails, StepThrows, d1Vars, Run0!Next
<1>3. CASE Evict
  <2>1. \A t \in Steps : exit'[t] # exit[t] => exit[t] = "running" /\ exit'[t] = "lost"
    BY <1>3 DEF Evict
  <2> QED BY <1>3, <2>1, EndsAreSteps DEF Evict, d1Vars, Run0!Next
<1>4. CASE RunStep
  <2>1. CASE StartWave
    BY <2>1, WavesAreSteps DEF Run0!Next
  <2>2. CASE Prepare
    BY <2>2, PrepareIsPlans DEF Run0!Next
  <2>3. CASE MarkRunning \/ WaveDone \/ RecordSteps \/ FinishRun \/ SinkFlush \/ SinkFlushed
             \/ MarkFinished \/ Notify \/ Catch
    BY <1>1, <2>3 DEF MarkRunning, WaveDone, RecordSteps, FinishRun, SinkFlush, SinkFlushed,
                      MarkFinished, Notify, Catch
  <2> QED BY <1>2, <1>4, <2>1, <2>2, <2>3 DEF RunStep
<1>5. CASE Failures
  <2>1. CASE Throws \/ CatchFails \/ (WriteFails /\ UNCHANGED <<runVars, d1Vars, notified, cancel, reader>>)
    BY <1>1, <2>1 DEF Throws, CatchFails, runVars
  <2> QED BY <1>2, <1>3, <1>5, <2>1 DEF Failures
<1>6. CASE LogStep \/ \E s \in Steps : StepPrints(s)
  BY <1>1, <1>6 DEF LogStep, StepPrints, runVars
<1>7. CASE People \/ \E r \in Readers : StreamStep(r)
  BY <1>1, <1>7 DEF People, CancelCheck, CancelWrite, StreamOpens, StreamAborts, StreamStep,
                    StreamReads, StreamWakes, StreamChecks, runVars
<1>8. CASE UNCHANGED vars
  BY <1>1, <1>8 DEF vars, runVars
<1> QED BY <1>4, <1>5, <1>6, <1>7, <1>8 DEF Next

-----------------------------------------------------------------------------
(***************************************************************************)
(* The results.                                                            *)
(***************************************************************************)

\* runPlanInSandbox starts a step only behind its wave: what it needs has ended, and
\* has passed unless the step always runs, whatever throws or is cancelled meanwhile.
THEOREM StepsRespectNeeds == Spec => []NeedsRespected
<1>1. ASSUME IInv PROVE NeedsRespected
  <2>1. ASSUME NEW s \in Steps, exit[s] \in {"running", "pass", "fail"}, NEW n \in Needs[s]
        PROVE  exit[n] \in {"pass", "fail", "skipped"} /\ (s \notin Always => exit[n] = "pass")
    <3>1. Level[s] <= wave /\ Level[n] < Level[s] /\ n \in Steps
          /\ Level[s] \in Nat /\ Level[n] \in Nat /\ wave \in Nat
      BY <1>1, <2>1, WavesAssumption, PlanAssumption DEF IInv, RunTypes, WaveInv
    <3>2. exit[n] \in Ended
      BY <1>1, <3>1 DEF IInv, WaveInv
    <3> QED BY <1>1, <2>1, <3>2 DEF Ended, IInv, WaveInv
  <2> QED BY <2>1 DEF NeedsRespected
<1> QED BY <1>1, Invariant, PTL

\* finishRun writes success only for a plan all of whose steps passed, and nothing
\* that happens after it, a late step of a wave that was given up included, makes it
\* untrue.
THEOREM GreenMeansAllPassed == Spec => []SuccessMeansAllPassed
BY GreenIsGreen, Invariant, PTL

\* The direct path keeps the promise of a run: each step of runPipeline, of its sandboxes
\* and of cancelRun starts steps that may start, skips or ends some, or says what came of
\* them, whatever throws or is evicted.
THEOREM PipelinesKeepThePromise == Spec => ExecutionSpec
<1>1. Init => Run0!Init
  <2> SUFFICES ASSUME Init PROVE Run0!Init
    OBVIOUS
  <2>1. \A s \in Steps : Shown(s) = "waiting"
    BY ShownIs DEF Init
  <2>2. DOMAIN KnownNeeds \subseteq Steps /\ status # "success"
    BY KnownAre DEF Init
  <2> QED BY <2>1, <2>2 DEF Run0!Init, Run0!Plan
<1>2. IInv /\ IInv' /\ [Next]_vars => [Run0!Next]_Run0!vars
  BY NextIsExecution
<1> QED BY <1>1, <1>2, Invariant, PTL DEF Spec, ExecutionSpec, Run0!Spec

\* notifyRunFailure comes behind recordSteps and finishRun, and only for a build that
\* failed.
THEOREM FailuresAreOnRecord == Spec => []NotifiedOnRecord
<1>1. IInv => NotifiedOnRecord
  BY DEF IInv, RecordInv, Ok, NotifiedOnRecord
<1> QED BY <1>1, Invariant, PTL

\* What CiLogStream holds is in the order it was printed, each piece once, whatever
\* write of the chain failed and whatever trim has taken away.
THEOREM StoredInOrder == Spec => []OutputInOrder
<1>1. ASSUME LogInv PROVE OutputInOrder
  <2>1. chunks \in Seq(Chunk) /\ InLine(chunks)
    BY <1>1 DEF LogInv, LogTypes, LogTypeOK, ChunkInv
  <2>2. Len(chunks) \in Nat /\ DOMAIN chunks = 1 .. Len(chunks)
    BY <2>1, LenProperties
  <2>3. \A i \in DOMAIN chunks : chunks[i] \in Chunk
    BY <2>1, <2>2, ElementOfSeq
  <2>4. Outs(chunks) \in Seq(Output) /\ Rising(Outs(chunks))
    BY <2>1, <2>2, <2>3, OutsRise DEF Chunk
  <2> QED BY <2>4, RisingIncreases DEF OutputInOrder
<1> QED BY <1>1, LogInvariant, PTL

\* streamRunLogs sends a reader nothing twice, nothing out of order, and passes over
\* nothing that trim has left, however often its stream is cut and resumed.
THEOREM ReadersMissNothing == Spec => []NoSilentGap
<1>1. ASSUME LogInv PROVE NoSilentGap
  <2>1. ASSUME NEW r \in Readers PROVE Increasing(reader[r].got)
    <3>1. reader[r] \in Reader
      BY <1>1 DEF LogInv, LogTypes
    <3>2. reader[r].got \in Seq(Output) /\ Rising(reader[r].got)
      BY <1>1, <3>1 DEF Reader, LogInv, ReaderInv
    <3> QED BY <3>2, RisingIncreases
  <2> QED BY <1>1, <2>1 DEF NoSilentGap, LogInv, ReaderInv
<1> QED BY <1>1, LogInvariant, PTL

\* The sink, the Durable Object and the streams implement the abstract log of a run:
\* each of their steps stores output behind all there was, brings one reader up to date,
\* or is not seen in it.
THEOREM RunsKeepTheLog == Spec => OutputLogSpec
<1>1. Init => Log0!Init
  <2>1. FlattenSeq([i \in DOMAIN <<>> |-> <<>>[i].outs]) = <<>>
    BY DEF FlattenSeq
  <2> QED BY <2>1 DEF Init, LogInit, Log0!Init, Outs
<1>2. LogInv /\ LogInv' /\ [Next]_vars => [Log0!Next]_Log0!vars
  BY NextIsLogStep
<1> QED BY <1>1, <1>2, LogInvariant, PTL DEF Spec, OutputLogSpec, Log0!Spec

\* Every variable of a run and of its log keeps its type: buffers hold entries of
\* pieces, chunks are numbered, cursors and tickets stay in range.
THEOREM TypesAreKept == Spec => []TypeOK
<1>1. ASSUME IInv, LogInv PROVE TypeOK
  <2>1. failed \subseteq Steps
    BY <1>1 DEF IInv, WaveInv
  <2> QED BY <1>1, <2>1 DEF IInv, RunTypes, LogInv, LogTypes, TypeOK
<1> QED BY <1>1, Invariant, LogInvariant, PTL
=============================================================================
