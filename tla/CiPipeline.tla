----------------------------- MODULE CiPipeline -----------------------------
(***************************************************************************)
(* One run of a pipeline on the direct path: runPipeline and               *)
(* runPlanInSandbox in the CI Worker, its log on its way to the Durable    *)
(* Object, a person cancelling it and readers following streamRunLogs.     *)
(*                                                                         *)
(* The run's row is the only thing the three share, and each reads it      *)
(* before it acts on it.  A call of the sandbox, of D1 or of the Durable   *)
(* Object may fail, and the isolate may be evicted at any await.           *)
(***************************************************************************)
EXTENDS CiLogs, CiWaves

CONSTANTS
  Readers,        \* people following the log
  MaxReconnects,  \* bound: times a reader drops and comes back
  Cancels         \* whether somebody cancels the run

\* One stream per step is enough to have output of several to tell apart.
ASSUME PipelineAssumption ==
  /\ Steps \subseteq Streams
  /\ MaxReconnects \in Nat
  /\ Cancels \in BOOLEAN

\* The plan has steps, and planWaves has put each behind all it needs.
ASSUME WavesAssumption ==
  /\ Waves \in Nat \ {0}
  /\ \A s \in Steps : Level[s] \in 0 .. Waves - 1
  /\ \A s \in Steps : \A n \in Needs[s] : Level[n] < Level[s]

VARIABLES
  pc,        \* where runPipeline stands
  plan,      \* what resolvePlan and the calls before it came to
  wave,      \* the wave being run
  exit,      \* step -> how it ended
  failed,    \* names collected by runPlanInSandbox after each wave
  ticket,    \* the flush that sink.finish waits for
  status,    \* ci_runs.status
  rows,      \* step -> ci_steps.status
  notified,  \* whether a failure notification was sent
  cancel,    \* where cancelRun stands
  reader     \* reader -> where its stream stands and what it was sent

runVars == <<pc, plan, wave, exit, failed, ticket>>
d1Vars == <<status, rows>>
vars == <<logVars, runVars, d1Vars, notified, cancel, reader>>

Terminal == {"success", "failure", "cancelled"}
Exits == {"none", "running", "pass", "fail", "skipped", "lost"}
PCs == {"start", "prepare", "wave", "record", "finish", "flush", "await", "mark",
        "notify", "done", "catch", "caught", "stuck", "evicted"}

Reader == [pc : {"idle", "history", "sleep", "poll", "status", "closed", "gone"},
           terminal : BOOLEAN,               \* the row it read was final
           cursor : Nat,                     \* last sequence number it was sent
           got : Seq(Output),                \* what it was sent
           reconnects : 0 .. MaxReconnects]

TypeOK ==
  /\ LogTypeOK
  /\ pc \in PCs
  /\ plan \in {"none", "steps", "empty", "refused"}
  /\ wave \in 0 .. Waves
  /\ exit \in [Steps -> Exits]
  /\ failed \subseteq Steps
  /\ ticket \in 0 .. flushes
  /\ status \in {"queued", "running"} \cup Terminal
  /\ rows \in [Steps -> {"none", "success", "failure", "cancelled"}]
  /\ notified \in BOOLEAN
  /\ cancel \in {"idle", "allowed", "done"}
  /\ reader \in [Readers -> Reader]

Init ==
  /\ LogInit
  /\ pc = "start"
  /\ plan = "none"
  /\ wave = 0
  /\ exit = [s \in Steps |-> "none"]
  /\ failed = {}
  /\ ticket = 0
  /\ status = "queued"
  /\ rows = [s \in Steps |-> "none"]
  /\ notified = FALSE
  /\ cancel = "idle"
  /\ reader = [r \in Readers |-> [pc |-> "idle", terminal |-> FALSE, cursor |-> 0,
                                  got |-> <<>>, reconnects |-> 0]]

-----------------------------------------------------------------------------
(***************************************************************************)
(* runPipeline up to the end of the sandbox's work.                        *)
(***************************************************************************)

\* markRunning: unconditional, like every write of the pipeline to the row.
MarkRunning ==
  /\ pc = "start"
  /\ status' = "running"
  /\ pc' = "prepare"
  /\ UNCHANGED <<logVars, plan, wave, exit, failed, ticket, rows, notified, cancel, reader>>

\* waitForReady, checkout and resolvePlan: a container that does not start, a
\* clone or a plan that fails is a result and not an exception.
Prepare ==
  /\ pc = "prepare"
  /\ plan' \in {"steps", "empty", "refused"}
  /\ pc' = IF plan' = "steps" THEN "wave" ELSE "record"
  /\ UNCHANGED <<logVars, wave, exit, failed, ticket, d1Vars, notified, cancel, reader>>

MutantAfterThrow == "caught"

\* A rejection anywhere in runPipeline ends in the handler that fetch attached.
AfterThrow == "catch"

Blocked(s) == Needs[s] \cap failed # {} /\ s \notin Always

\* Promise.all over the wave: its steps start together or are skipped.
StartWave ==
  /\ pc = "wave"
  /\ \A s \in Wave(wave) : exit[s] = "none"
  /\ exit' = [s \in Steps |->
       IF s \notin Wave(wave) THEN exit[s]
       ELSE IF Blocked(s) THEN "skipped" ELSE "running"]
  /\ UNCHANGED <<logVars, pc, plan, wave, failed, ticket, d1Vars, notified, cancel, reader>>

StepPrints(s) ==
  /\ exit[s] = "running"
  /\ SinkAppend(s)
  /\ UNCHANGED <<runVars, d1Vars, notified, cancel, reader>>

\* The stream of a step ends with its exit code; a transport error counts as one.
StepEnds(s) ==
  /\ exit[s] = "running"
  /\ exit' = [exit EXCEPT ![s] = IF pc = "wave" THEN "pass" ELSE "lost"]
  /\ UNCHANGED <<logVars, pc, plan, wave, failed, ticket, d1Vars, notified, cancel, reader>>

StepFails(s) ==
  /\ exit[s] = "running"
  /\ exit' = [exit EXCEPT ![s] = IF pc = "wave" THEN "fail" ELSE "lost"]
  /\ UNCHANGED <<logVars, pc, plan, wave, failed, ticket, d1Vars, notified, cancel, reader>>

\* execStream itself rejects.  The wave is given up at once; the other steps of
\* the wave keep running and printing, and nobody waits for them.
StepThrows(s) ==
  /\ exit[s] = "running"
  /\ exit' = [exit EXCEPT ![s] = "lost"]
  /\ pc' = IF pc = "wave" THEN AfterThrow ELSE pc
  /\ UNCHANGED <<logVars, plan, wave, failed, ticket, d1Vars, notified, cancel, reader>>

MutantNotPassed(s) == exit[s] = "fail"

\* A skipped step carries exit code -1, so what depends on it is skipped too.
NotPassed(s) == exit[s] \in {"fail", "skipped"}

WaveDone ==
  /\ pc = "wave"
  /\ \A s \in Wave(wave) : exit[s] \in {"pass", "fail", "skipped"}
  /\ failed' = failed \cup {s \in Wave(wave) : NotPassed(s)}
  /\ wave' = wave + 1
  /\ pc' = IF wave' = Waves THEN "record" ELSE "wave"
  /\ UNCHANGED <<logVars, plan, exit, ticket, d1Vars, notified, cancel, reader>>

MutantOk == plan = "empty" \/ (plan = "steps" /\ \A s \in Wave(Waves - 1) : exit[s] # "fail")

\* The result: no step that ran exited with anything but zero.
Ok == plan = "empty" \/ (plan = "steps" /\ \A s \in Steps : exit[s] # "fail")
Result == IF Ok THEN "success" ELSE "failure"

-----------------------------------------------------------------------------
(***************************************************************************)
(* runPipeline after the sandbox, in the order of its awaits.              *)
(***************************************************************************)

MutantStepRow(s) == IF exit[s] = "pass" THEN "success" ELSE "cancelled"

\* The row recordSteps writes for a step.
StepRow(s) ==
  CASE exit[s] = "pass" -> "success"
    [] exit[s] = "fail" -> "failure"
    [] exit[s] = "skipped" -> "cancelled"
    [] OTHER -> rows[s]

RecordSteps ==
  /\ pc = "record"
  /\ rows' = [s \in Steps |-> StepRow(s)]
  /\ pc' = "finish"
  /\ UNCHANGED <<logVars, plan, wave, exit, failed, ticket, status, notified, cancel, reader>>

FinishRun ==
  /\ pc = "finish"
  /\ status' = Result
  /\ pc' = "flush"
  /\ UNCHANGED <<logVars, plan, wave, exit, failed, ticket, rows, notified, cancel, reader>>

\* sink.finish.  With an empty buffer flush returns without waiting for the
\* batches that are still being written.
SinkFlush ==
  /\ pc = "flush"
  /\ Flush(buffer)
  /\ ticket' = flushes'
  /\ pc' = IF buffer = <<>> THEN "mark" ELSE "await"
  /\ UNCHANGED <<produced, broken, chunks, plan, wave, exit, failed, d1Vars, notified,
                 cancel, reader>>

\* await this.inFlight: a link of the chain is settled when it and those before
\* it are written; a broken chain rejects.
SinkFlushed ==
  /\ pc = "await"
  /\ \/ /\ ~broken
        /\ flushes - Len(inFlight) >= ticket
        /\ pc' = "mark"
     \/ /\ broken
        /\ pc' = AfterThrow
  /\ UNCHANGED <<logVars, plan, wave, exit, failed, ticket, d1Vars, notified, cancel, reader>>

\* The Durable Object's finish appends a chunk like any other.  Calls arrive in
\* the order they were made: the marker does not overtake the first write of a
\* log, but it can overtake one that waits for the answer to another.
MarkFinished ==
  /\ pc = "mark"
  /\ inFlight = <<>> \/ chunks # <<>>
  /\ chunks' = Stored(chunks, FinishMarker, <<>>)
  /\ pc' = IF Ok THEN "done" ELSE "notify"
  /\ UNCHANGED <<produced, sinkVars, plan, wave, exit, failed, ticket, d1Vars, notified,
                 cancel, reader>>

\* notifyRunFailure: best effort, whatever happens in it.
Notify ==
  /\ pc = "notify"
  /\ notified' \in BOOLEAN
  /\ pc' = "done"
  /\ UNCHANGED <<logVars, plan, wave, exit, failed, ticket, d1Vars, cancel, reader>>

\* Any other await of runPipeline may reject as well.
Throws ==
  /\ pc \in {"start", "prepare", "record", "finish", "mark"}
  /\ pc' = AfterThrow
  /\ UNCHANGED <<logVars, plan, wave, exit, failed, ticket, d1Vars, notified, cancel, reader>>

\* The handler in fetch: a run that has an outcome keeps it.
Catch ==
  /\ pc = "catch"
  /\ status' = IF status \in Terminal THEN status ELSE "failure"
  /\ pc' = "caught"
  /\ UNCHANGED <<logVars, plan, wave, exit, failed, ticket, rows, notified, cancel, reader>>

\* D1 is not there for the handler's own write: nothing tries again.
CatchFails ==
  /\ pc = "catch"
  /\ pc' = "stuck"
  /\ UNCHANGED <<logVars, plan, wave, exit, failed, ticket, d1Vars, notified, cancel, reader>>

\* The isolate is gone: steps that ran are not heard of any more.
Evict ==
  /\ pc # "evicted"
  /\ pc' = "evicted"
  /\ SinkLost
  /\ exit' = [s \in Steps |-> IF exit[s] = "running" THEN "lost" ELSE exit[s]]
  /\ UNCHANGED <<plan, wave, failed, ticket, d1Vars, notified, cancel, reader>>

-----------------------------------------------------------------------------
(***************************************************************************)
(* cancelRun: a check of the row, then a batch.  Step rows are only ever   *)
(* inserted in their final state, so the batch finds none to change.       *)
(***************************************************************************)

CancelCheck ==
  /\ Cancels /\ cancel = "idle"
  /\ status \notin Terminal
  /\ cancel' = "allowed"
  /\ UNCHANGED <<logVars, runVars, d1Vars, notified, reader>>

CancelWrite ==
  /\ cancel = "allowed"
  /\ status' = "cancelled"
  /\ cancel' = "done"
  /\ UNCHANGED <<logVars, runVars, rows, notified, reader>>

-----------------------------------------------------------------------------
(***************************************************************************)
(* streamRunLogs.                                                          *)
(***************************************************************************)

MutantIsTerminal(s) == s \in {"success", "failure"}

IsTerminal(s) == s \in Terminal

\* The row is read first; what it said decides later whether to stay.
StreamOpens(r) ==
  /\ \/ reader[r].pc = "idle"
     \/ reader[r].pc = "gone" /\ reader[r].reconnects < MaxReconnects
  /\ reader' = [reader EXCEPT
       ![r].pc = "history",
       ![r].terminal = IsTerminal(status),
       ![r].reconnects = IF reader[r].pc = "gone" THEN @ + 1 ELSE @]
  /\ UNCHANGED <<logVars, runVars, d1Vars, notified, cancel>>

\* Sends what is new and moves the cursor, at first and after each sleep.
StreamReads(r) ==
  LET new == History(chunks, reader[r].cursor)
      q == [reader[r] EXCEPT !.got = @ \o Outs(new),
                             !.cursor = IF new = <<>> THEN @ ELSE Last(new).sequence]
  IN
  /\ reader[r].pc \in {"history", "poll"}
  /\ reader' = [reader EXCEPT ![r] =
       [q EXCEPT !.pc = IF q.pc = "poll" THEN "status"
                        ELSE IF q.terminal THEN "closed" ELSE "sleep"]]
  /\ UNCHANGED <<logVars, runVars, d1Vars, notified, cancel>>

StreamWakes(r) ==
  /\ reader[r].pc = "sleep"
  /\ reader' = [reader EXCEPT ![r].pc = "poll"]
  /\ UNCHANGED <<logVars, runVars, d1Vars, notified, cancel>>

StreamChecks(r) ==
  /\ reader[r].pc = "status"
  /\ reader' = [reader EXCEPT ![r].pc = IF IsTerminal(status) THEN "closed" ELSE "sleep"]
  /\ UNCHANGED <<logVars, runVars, d1Vars, notified, cancel>>

\* The client goes away; the loop sees it at its next look at the signal.
StreamAborts(r) ==
  /\ reader[r].pc = "sleep"
  /\ reader[r].reconnects < MaxReconnects
  /\ reader' = [reader EXCEPT ![r].pc = "gone"]
  /\ UNCHANGED <<logVars, runVars, d1Vars, notified, cancel>>

-----------------------------------------------------------------------------
RunStep ==
  \/ MarkRunning \/ Prepare \/ StartWave \/ WaveDone
  \/ RecordSteps \/ FinishRun \/ SinkFlush \/ SinkFlushed \/ MarkFinished \/ Notify
  \/ Catch
  \/ \E s \in Steps : StepEnds(s) \/ StepFails(s)

LogStep ==
  /\ TimerFires \/ WriteChunk
  /\ UNCHANGED <<runVars, d1Vars, notified, cancel, reader>>

Failures ==
  \/ \E s \in Steps : StepThrows(s)
  \/ Throws \/ CatchFails \/ Evict
  \/ WriteFails /\ UNCHANGED <<runVars, d1Vars, notified, cancel, reader>>

StreamStep(r) == StreamReads(r) \/ StreamWakes(r) \/ StreamChecks(r)

People ==
  \/ CancelCheck \/ CancelWrite
  \/ \E r \in Readers : StreamOpens(r) \/ StreamAborts(r)

Next ==
  \/ RunStep \/ LogStep \/ Failures \/ People
  \/ \E s \in Steps : StepPrints(s)
  \/ \E r \in Readers : StreamStep(r)

Spec == Init /\ [][Next]_vars

\* The runtime resumes what is awaited and fires timers, a container's command
\* ends within its timeout, and a connected stream keeps polling.
FairSpec ==
  /\ Spec
  /\ WF_vars(RunStep) /\ WF_vars(LogStep)
  /\ \A r \in Readers : WF_vars(StreamStep(r))

-----------------------------------------------------------------------------
(***************************************************************************)
(* What a run and those who watch it rely on.                              *)
(***************************************************************************)

Increasing(s) == \A i \in 1 .. Len(s) - 1 : s[i] < s[i + 1]

\* The Durable Object holds output in the order it was printed, each piece
\* once, although batches pile up behind a slow write and a write may fail
\* half way.
OutputInOrder == Increasing(Outs(chunks))

\* A reader is never sent a piece twice or out of order, and never passes over
\* a chunk that is still there, however its stream is cut and resumed and
\* however the chunks are trimmed under it.
NoSilentGap ==
  \A r \in Readers :
    /\ Increasing(reader[r].got)
    /\ \A i \in DOMAIN chunks :
         chunks[i].sequence <= reader[r].cursor =>
           ToSet(chunks[i].outs) \subseteq ToSet(reader[r].got)

\* Buffer, batches, chunks and cursors together implement the abstract log: output
\* is kept in order, the oldest goes first, and a reader that is served has all that
\* is kept, although batches pile up behind a slow write, a write may fail half way,
\* streams are cut and resumed, and chunks are trimmed under them.
Log0 == INSTANCE OutputLog WITH
          kept <- Outs(chunks), sent <- [r \in Readers |-> reader[r].got]
OutputLogSpec == Log0!Spec

\* Waves, skipped steps, lost containers and rows implement the abstract run.
Shown(s) ==
  CASE exit[s] = "none" -> "waiting"
    [] exit[s] = "running" -> "running"
    [] exit[s] = "pass" -> "passed"
    [] exit[s] \in {"fail", "lost"} -> "failed"
    [] exit[s] = "skipped" -> "skipped"
KnownNeeds == IF plan = "steps" THEN Needs ELSE [s \in {} |-> {}]

Run0 == INSTANCE Execution WITH
          needs <- KnownNeeds, state <- [s \in Steps |-> Shown(s)], outcome <- status

\* No step starts on a half-built workspace, however waves end, throw and are given
\* up: all it needs has ended, and passed unless it is a step that always runs.  A
\* step ends once, and nothing is called a success before all of its steps passed.
ExecutionSpec == Run0!Spec

\* No step starts on a half-built workspace: everything it needs has ended, and
\* passed unless the step is one that always runs.
NeedsRespected ==
  \A s \in Steps : exit[s] \in {"running", "pass", "fail"} =>
    \A n \in Needs[s] :
      /\ exit[n] \in {"pass", "fail", "skipped"}
      /\ s \notin Always => exit[n] = "pass"

\* A green run is green throughout: success is never reported over a step that
\* failed, was skipped because another failed, or was lost track of.
SuccessMeansAllPassed ==
  status = "success" /\ plan = "steps" => \A s \in Steps : exit[s] = "pass"

\* Telling somebody that a build broke comes after its steps and its outcome are
\* on record, and is never about a build whose steps all passed.
NotifiedOnRecord ==
  notified =>
    /\ status \in Terminal
    /\ \A s \in Steps : exit[s] = "fail" => rows[s] = "failure"
    /\ plan = "steps" => \E s \in Steps : exit[s] = "fail"

\* A run that started does not stay on "running", whatever throws; only an
\* eviction, or D1 failing the handler's own write, can leave it there.
RunSettles ==
  pc = "prepare" ~> status \in Terminal \/ pc \in {"stuck", "evicted"}

\* A reader is let go once the run's status is final for good.  (It may not be
\* at first: a run that is cancelled while it is queued is marked running.)
StreamCloses ==
  \A r \in Readers :
    <>[](status \in Terminal) => []<>(reader[r].pc \in {"idle", "closed", "gone"})

\* What a step prints is stored, unless a write fails or the isolate goes: the
\* last lines of a quiet build do not sit in the buffer.
OutputIsStored ==
  \A k \in Output :
    produced = k ~> \/ broken \/ pc = "evicted"
                    \/ buffer = <<>> /\ inFlight = <<>>

(***************************************************************************)
(* What comments and tests say of it and the code does not keep.           *)
(***************************************************************************)

\* ci.ts: "A finished run has nothing more to send; returning here closes the
\* stream".
ClosedStreamIsComplete ==
  \A r \in Readers :
    reader[r].pc = "closed" /\ reader[r].terminal =>
      \A i \in DOMAIN chunks :
        chunks[i].sequence > reader[r].cursor => chunks[i].outs = <<>>
=============================================================================
