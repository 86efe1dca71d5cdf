------------------------------- MODULE CiLogs -------------------------------
(***************************************************************************)
(* The way of a build's output: DurableObjectLogSink gathers what the      *)
(* steps print and writes it, batch after batch, to the run's CiLogStream  *)
(* Durable Object, which numbers, keeps and trims it.                      *)
(*                                                                         *)
(* This module has the state and the operations.  CiPipeline composes them *)
(* with the run that prints and the readers that follow it.                *)
(***************************************************************************)
EXTENDS Naturals, SequencesExt

CONSTANTS
  Streams,      \* what output belongs to: a step's stdout or stderr
  MaxOutput,    \* bound: pieces of output a run prints
  FlushSize,    \* FLUSH_BYTES: buffered pieces that force a flush
  MaxBuffered   \* MAX_BUFFERED_CHUNKS: chunks the Durable Object keeps

ASSUME LogAssumption ==
  /\ MaxOutput \in Nat
  /\ FlushSize \in Nat \ {0}
  /\ MaxBuffered \in Nat \ {0, 1}

VARIABLES
  produced,   \* pieces printed so far; piece k is the k-th
  buffer,     \* the sink's buffer: entries not yet handed to a batch
  timer,      \* whether a flush is scheduled
  inFlight,   \* batches whose writes are chained, the first being written
  flushes,    \* batches ever chained
  broken,     \* a write of the chain failed, so no later link runs
  chunks      \* rows of the Durable Object, in sequence order

sinkVars == <<buffer, timer, inFlight, flushes, broken>>
logVars == <<produced, sinkVars, chunks>>

Output == 1 .. MaxOutput
FinishMarker == "finished"
Entry == [stream : Streams, outs : Seq(Output)]
Chunk == [sequence : Nat \ {0}, stream : Streams \cup {FinishMarker}, outs : Seq(Output)]

LogTypeOK ==
  /\ produced \in 0 .. MaxOutput
  /\ buffer \in Seq(Entry)
  /\ timer \in BOOLEAN
  /\ inFlight \in Seq(Seq(Entry))
  /\ flushes \in Nat
  /\ broken \in BOOLEAN
  /\ chunks \in Seq(Chunk)

LogInit ==
  /\ produced = 0
  /\ buffer = <<>>
  /\ timer = FALSE
  /\ inFlight = <<>>
  /\ flushes = 0
  /\ broken = FALSE
  /\ chunks = <<>>

\* All output of a sequence of entries or chunks.
Outs(entries) == FlattenSeq([i \in DOMAIN entries |-> entries[i].outs])

-----------------------------------------------------------------------------
(***************************************************************************)
(* The sink.                                                               *)
(***************************************************************************)

\* Hands the buffer to a new link of the chain.  A link behind a failed one
\* never runs, so after a failure the batch is lost at once.
Flush(entries) ==
  /\ timer' = FALSE
  /\ buffer' = <<>>
  /\ IF entries = <<>>
     THEN UNCHANGED <<inFlight, flushes>>
     ELSE /\ inFlight' = IF broken THEN <<>> ELSE Append(inFlight, entries)
          /\ flushes' = flushes + 1

\* A piece of output joins the last entry if that is of the same stream.
Joined(entries, stream, out) ==
  IF entries # <<>> /\ Last(entries).stream = stream
  THEN [entries EXCEPT ![Len(entries)].outs = Append(@, out)]
  ELSE Append(entries, [stream |-> stream, outs |-> <<out>>])

MutantArmed == FALSE

\* append schedules a flush unless it flushes itself.
Armed == TRUE

\* LogSink.append.
SinkAppend(stream) ==
  LET joined == Joined(buffer, stream, produced + 1) IN
  /\ produced < MaxOutput
  /\ produced' = produced + 1
  /\ IF Len(Outs(joined)) >= FlushSize
     THEN Flush(joined)
     ELSE /\ buffer' = joined
          /\ timer' = (timer \/ Armed)
          /\ UNCHANGED <<inFlight, flushes>>
  /\ UNCHANGED <<broken, chunks>>

TimerFires ==
  /\ timer
  /\ Flush(buffer)
  /\ UNCHANGED <<produced, broken, chunks>>

-----------------------------------------------------------------------------
(***************************************************************************)
(* The Durable Object.  Each of its methods runs to its end at once.       *)
(***************************************************************************)

MutantNextSequence(rows) == Len(rows) + 1

MutantFirst(rows) == IF rows = <<>> THEN 0 ELSE Last(rows).sequence + 1

\* nextSequence: MAX(sequence) + 1.
NextSequence(rows) == IF rows = <<>> THEN 1 ELSE Last(rows).sequence + 1

\* trim: beyond the limit, everything up to the MaxBuffered-th newest goes.
Trimmed(rows) ==
  IF Len(rows) <= MaxBuffered THEN rows
  ELSE SubSeq(rows, Len(rows) - MaxBuffered + 2, Len(rows))

\* CiLogStream.append.
Stored(rows, stream, outs) ==
  Trimmed(Append(rows,
    [sequence |-> NextSequence(rows), stream |-> stream, outs |-> outs]))

\* CiLogStream.history: in sequence order, what lies beyond the last row sent.
History(rows, after) ==
  LET sent == {i \in DOMAIN rows : rows[i].sequence <= after} IN
  SubSeq(rows, Max({0} \cup sent) + 1, Len(rows))

-----------------------------------------------------------------------------
(***************************************************************************)
(* The chain of writes.                                                    *)
(***************************************************************************)

MutantWritable == {b \in 1 .. 2 : b <= Len(inFlight)}

\* Links run one after the other, so only the first batch is being written.
Writable == {b \in 1 .. 1 : b <= Len(inFlight)}

\* The rest of the chain once the first entry of batch b is written.
Rest(b) ==
  LET left == Tail(inFlight[b]) IN
  IF left # <<>> THEN [inFlight EXCEPT ![b] = left]
  ELSE RemoveAt(inFlight, b)

WriteChunk ==
  \E b \in Writable :
    LET entry == Head(inFlight[b]) IN
    /\ chunks' = Stored(chunks, entry.stream, entry.outs)
    /\ inFlight' = Rest(b)
    /\ UNCHANGED <<produced, buffer, timer, flushes, broken>>

\* The RPC fails, before or after the Durable Object did its part; the batch
\* stops and every link behind it is skipped.
WriteFails ==
  /\ inFlight # <<>>
  /\ LET entry == Head(Head(inFlight)) IN
     chunks' \in {chunks, Stored(chunks, entry.stream, entry.outs)}
  /\ inFlight' = <<>>
  /\ broken' = TRUE
  /\ UNCHANGED <<produced, buffer, timer, flushes>>

\* The isolate goes, and with it everything that is only in its memory.
SinkLost ==
  /\ buffer' = <<>>
  /\ timer' = FALSE
  /\ inFlight' = <<>>
  /\ UNCHANGED <<produced, flushes, broken, chunks>>
=============================================================================
