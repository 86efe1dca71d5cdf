--------------------------- MODULE WebhooksProofs ---------------------------
(***************************************************************************)
(* Proofs about Webhooks, for any number of hooks, events, attempts and    *)
(* troubles: everything has its type, a job that was sent is not lost, a   *)
(* message that is let go has its delivery on record, and what is sent or  *)
(* delivered twice has a cause.                                            *)
(***************************************************************************)
EXTENDS Webhooks, TLAPS, FiniteSetTheorems, WellFoundedInduction

Shape == [tries : Nat, at : Stages, result : {"none", "ok", "failed", "off"}]

ShapeInv ==
  /\ hook \in [Hooks -> HookStates]
  /\ dispatch \in [Events -> {"idle", "sending", "done", "failed"}]
  /\ matching \in [Events -> SUBSET Hooks]
  /\ messages \in [DOMAIN messages -> Shape]

\* A message that is dealt with no longer carries its job.
Carried(j) == \E m \in DOMAIN messages : Job(m) = j /\ messages[m].at # "ack"

PendingInv == \A j \in Sent : hook[j[1]] # "deleted" => Settled(j) \/ Carried(j)

\* The row is there before the next attempt is sent.
RecordedInv ==
  \A m \in DOMAIN messages :
    /\ messages[m].at \in {"resend", "ack"}
    /\ messages[m].result # "off"
    /\ hook[m.hook] # "deleted"
    => Row(m) \in deliveries

IInv == ShapeInv /\ PendingInv /\ RecordedInv

-----------------------------------------------------------------------------
(***************************************************************************)
(* Lemmas.                                                                 *)
(***************************************************************************)

\* Adding messages keeps those that are there, except that a new one may take
\* the place of an old one, and each job is carried by a new one.
LEMMA WithKeeps ==
  ASSUME NEW f, f \in [DOMAIN f -> Shape], NEW jobs
  PROVE  /\ With(f, jobs) \in [DOMAIN With(f, jobs) -> Shape]
         /\ DOMAIN f \subseteq DOMAIN With(f, jobs)
         /\ \A m \in DOMAIN With(f, jobs) :
              \/ With(f, jobs)[m] = Waiting
              \/ m \in DOMAIN f /\ With(f, jobs)[m] = f[m]
         /\ \A j \in jobs : \E m \in DOMAIN With(f, jobs) :
              /\ m.hook = j.hook /\ m.event = j.event
              /\ With(f, jobs)[m] = Waiting
<1> DEFINE new == {Fresh(f, j) : j \in jobs}
<1>1. With(f, jobs) = [m \in DOMAIN f \cup new |-> IF m \in new THEN Waiting ELSE f[m]]
  BY DEF With
<1>2. Waiting \in Shape
  BY DEF Waiting, Shape, Stages
<1>3. \A j \in jobs : Fresh(f, j).hook = j.hook /\ Fresh(f, j).event = j.event
  BY DEF Fresh
<1> HIDE DEF new
<1>4. DOMAIN With(f, jobs) = DOMAIN f \cup new
  BY <1>1
<1>5. \A m \in DOMAIN f \cup new :
        With(f, jobs)[m] = IF m \in new THEN Waiting ELSE f[m]
  BY <1>1
<1>6. \A j \in jobs : Fresh(f, j) \in new
  BY DEF new
<1>7. With(f, jobs) \in [DOMAIN f \cup new -> Shape]
  <2>1. \A m \in DOMAIN f \cup new : (IF m \in new THEN Waiting ELSE f[m]) \in Shape
    BY <1>2
  <2> QED
    BY <2>1, <1>1
<1> QED
  BY <1>3, <1>4, <1>5, <1>6, <1>7

LEMMA WaitingStatus == Waiting.at = "queued" /\ Waiting \in Shape
  BY DEF Waiting, Shape, Stages

\* What a step owes PendingInv.
LEMMA PendingCarried ==
  ASSUME PendingInv,
         \A j \in Sent : hook'[j[1]] # "deleted" => hook[j[1]] # "deleted",
         \A j \in Sent : hook'[j[1]] # "deleted" /\ Settled(j) => Settled(j)',
         \A m \in DOMAIN messages :
           messages[m].at # "ack" /\ hook'[m.hook] # "deleted" =>
             Settled(Job(m))' \/ Carried(Job(m))',
         \A j \in Sent' : j \in Sent \/ Carried(j)'
  PROVE  PendingInv'
<1> SUFFICES ASSUME NEW j \in Sent', hook'[j[1]] # "deleted"
             PROVE  Settled(j)' \/ Carried(j)'
  BY DEF PendingInv
<1>1. CASE Carried(j)'
  BY <1>1
<1>2. CASE j \in Sent
  <2>1. Settled(j) \/ Carried(j)
    BY <1>2 DEF PendingInv
  <2>2. CASE Carried(j)
    <3>1. PICK m \in DOMAIN messages : Job(m) = j /\ messages[m].at # "ack"
      BY <2>2 DEF Carried
    <3>2. j[1] = m.hook
      BY <3>1 DEF Job
    <3> QED
      BY <3>1, <3>2
  <2> QED
    BY <2>1, <2>2, <1>2
<1> QED
  BY <1>1, <1>2

\* Where hooks stay and records only grow, it is enough that messages that carry
\* their job go on doing so.
LEMMA PendingKept ==
  ASSUME PendingInv,
         UNCHANGED <<hook, dispatch, matching>>,
         deliveries \subseteq deliveries', dropped \subseteq dropped',
         \A m \in DOMAIN messages : messages[m].at # "ack" =>
           hook[m.hook] = "deleted" \/ Settled(Job(m))' \/ Carried(Job(m))'
  PROVE  PendingInv'
<1>1. Sent' = Sent
  BY DEF Sent
<1>2. \A j \in Sent : Settled(j) => Settled(j)'
  BY DEF Settled, Job
<1> QED
  BY <1>1, <1>2, PendingCarried

\* What a step owes RecordedInv.
LEMMA RecordedKept ==
  ASSUME RecordedInv,
         \A m \in DOMAIN messages : hook'[m.hook] # "deleted" => hook[m.hook] # "deleted",
         \A d \in deliveries : hook'[d.hook] # "deleted" => d \in deliveries',
         \A m \in DOMAIN messages' :
           \/ messages'[m].at \notin {"resend", "ack"}
           \/ messages'[m].result = "off"
           \/ hook'[m.hook] = "deleted"
           \/ Row(m)' \in deliveries'
           \/ m \in DOMAIN messages /\ messages'[m] = messages[m]
  PROVE  RecordedInv'
<1> SUFFICES ASSUME NEW m \in DOMAIN messages', messages'[m].at \in {"resend", "ack"},
                    messages'[m].result # "off", hook'[m.hook] # "deleted"
             PROVE  Row(m)' \in deliveries'
  BY DEF RecordedInv
<1>1. CASE m \in DOMAIN messages /\ messages'[m] = messages[m]
  <2>1. hook[m.hook] # "deleted"
    BY <1>1
  <2>2. Row(m) \in deliveries
    BY <1>1, <2>1 DEF RecordedInv
  <2>3. Row(m)' = Row(m) /\ Row(m).hook = m.hook
    BY <1>1 DEF Row
  <2> QED
    BY <2>2, <2>3
<1> QED
  BY <1>1

\* Messages that are added, to those of before or to some that moved on.
LEMMA AddedMessages ==
  ASSUME NEW f, f \in [DOMAIN f -> Shape], NEW jobs, messages' = With(f, jobs),
         NEW m \in DOMAIN f, f[m].at # "ack"
  PROVE  Carried(Job(m))'
<1>1. /\ m \in DOMAIN messages'
      /\ messages'[m] = Waiting \/ messages'[m] = f[m]
  BY WithKeeps
<1>2. messages'[m].at # "ack"
  BY <1>1, WaitingStatus
<1> QED
  BY <1>1, <1>2 DEF Carried, Job

-----------------------------------------------------------------------------
(***************************************************************************)
(* The producers.                                                          *)
(***************************************************************************)

LEMMA HooksChange ==
  ASSUME IInv, NEW h \in Hooks, Create(h) \/ Update(h) \/ Delete(h)
  PROVE  IInv'
<1> USE DEF IInv
<1>1. /\ hook' \in [Hooks -> HookStates]
      /\ \A g : hook'[g] # "deleted" => hook[g] # "deleted"
      /\ UNCHANGED <<dispatch, matching, messages, dropped>>
      /\ \A d \in deliveries : hook'[d.hook] # "deleted" => d \in deliveries'
  <2>1. CASE Create(h)
    BY <2>1 DEF Create, ShapeInv, HookStates
  <2>2. CASE Update(h)
    BY <2>2 DEF Update, ShapeInv, HookStates, Exists
  <2>3. CASE Delete(h)
    BY <2>3 DEF Delete, ShapeInv, HookStates
  <2> QED
    BY <2>1, <2>2, <2>3
<1>2. ShapeInv'
  BY <1>1 DEF ShapeInv
<1>3. PendingInv'
  <2>1. \A j \in Sent : hook'[j[1]] # "deleted" /\ Settled(j) => Settled(j)'
    <3> SUFFICES ASSUME NEW j \in Sent, hook'[j[1]] # "deleted", Settled(j)
                 PROVE  Settled(j)'
      OBVIOUS
    <3>1. CASE j \in dropped
      BY <3>1, <1>1 DEF Settled
    <3>2. CASE \E d \in deliveries : Job(d) = j /\ (d.ok \/ d.attempt >= MaxAttempts)
      <4>1. PICK d \in deliveries : Job(d) = j /\ (d.ok \/ d.attempt >= MaxAttempts)
        BY <3>2
      <4>2. d.hook = j[1]
        BY <4>1 DEF Job
      <4>3. d \in deliveries'
        BY <4>2, <1>1
      <4> QED
        BY <4>1, <4>3 DEF Settled
    <3> QED
      BY <3>1, <3>2 DEF Settled
  <2>2. Sent' = Sent
    BY <1>1 DEF Sent
  <2>3. \A m \in DOMAIN messages : messages[m].at # "ack" => Carried(Job(m))'
    BY <1>1 DEF Carried, Job
  <2> QED
    BY <1>1, <2>1, <2>2, <2>3, PendingCarried
<1>4. RecordedInv'
  BY <1>1, RecordedKept
<1> QED
  BY <1>2, <1>3, <1>4

\* Sending jobs, or not, is safe for every event but those it calls sent.
LEMMA JobsAdded ==
  ASSUME IInv, NEW jobs,
         messages' = messages \/ messages' = With(messages, jobs),
         UNCHANGED <<hook, deliveries, dropped>>,
         dispatch' \in [Events -> {"idle", "sending", "done", "failed"}],
         matching' \in [Events -> SUBSET Hooks],
         \A j \in Sent' : j \in Sent \/ Carried(j)'
  PROVE  IInv'
<1> USE DEF IInv
<1>1. messages \in [DOMAIN messages -> Shape]
  BY DEF ShapeInv
<1>2. messages' \in [DOMAIN messages' -> Shape]
  BY <1>1, WithKeeps
<1>3. ShapeInv'
  BY <1>2 DEF ShapeInv
<1>4. \A m \in DOMAIN messages : messages[m].at # "ack" => Carried(Job(m))'
  <2>1. CASE messages' = messages
    BY <2>1 DEF Carried, Job
  <2>2. CASE messages' = With(messages, jobs)
    BY <2>2, <1>1, AddedMessages
  <2> QED
    BY <2>1, <2>2
<1>5. \A j \in Sent : Settled(j) => Settled(j)'
  BY DEF Settled, Job
<1>6. PendingInv'
  BY <1>4, <1>5, PendingCarried
<1>7. RecordedInv'
  <2>1. \A m \in DOMAIN messages' :
          messages'[m].at = "queued" \/ (m \in DOMAIN messages /\ messages'[m] = messages[m])
    BY <1>1, WithKeeps, WaitingStatus
  <2> QED
    BY <2>1, RecordedKept
<1> QED
  BY <1>3, <1>6, <1>7

\* The jobs of an event that is sent to some hooks are carried afterwards.
LEMMA SentIsCarried ==
  ASSUME IInv, NEW e \in Events, NEW hooks \in SUBSET Hooks,
         messages' = With(messages, Jobs(hooks, e, 1)),
         dispatch' = [dispatch EXCEPT ![e] = "done"],
         \A g \in Events : g # e => matching'[g] = matching[g],
         matching'[e] = hooks
  PROVE  \A j \in Sent' : j \in Sent \/ Carried(j)'
<1> SUFFICES ASSUME NEW j \in Sent'
             PROVE  j \in Sent \/ Carried(j)'
  OBVIOUS
<1>1. j \in Hooks \X Events /\ dispatch'[j[2]] = "done" /\ j[1] \in matching'[j[2]]
  BY DEF Sent
<1>2. CASE j[2] = e
  <2> DEFINE job == [hook |-> j[1], event |-> e, attempt |-> 1]
  <2>1. job \in Jobs(hooks, e, 1)
    BY <1>1, <1>2 DEF Jobs
  <2>2. messages \in [DOMAIN messages -> Shape]
    BY DEF IInv, ShapeInv
  <2>3. PICK m \in DOMAIN messages' :
          m.hook = job.hook /\ m.event = job.event /\ messages'[m] = Waiting
    BY <2>1, <2>2, WithKeeps
  <2>4. Job(m) = j
    BY <2>3, <1>1, <1>2 DEF Job
  <2> QED
    BY <2>3, <2>4, WaitingStatus DEF Carried, Job
<1>3. CASE j[2] # e
  <2>1. dispatch[j[2]] = "done" /\ j[1] \in matching[j[2]]
    BY <1>1, <1>3 DEF IInv, ShapeInv
  <2> QED
    BY <1>1, <2>1 DEF Sent
<1> QED
  BY <1>2, <1>3

LEMMA EventsSent ==
  ASSUME IInv, NEW e \in Events,
         \/ ReadsHooks(e) \/ SendsJobs(e) \/ DispatchFails(e)
         \/ \E h \in Hooks : Ping(h, e)
  PROVE  IInv'
<1> USE DEF IInv
<1>1. CASE ReadsHooks(e)
  <2>1. PICK found \in SUBSET Hooks :
          /\ matching' = [matching EXCEPT ![e] = found]
          /\ dispatch' = [dispatch EXCEPT ![e] = IF found = {} THEN "done" ELSE "sending"]
    BY <1>1 DEF ReadsHooks
  <2>2. \A j \in Sent' : j \in Sent
    BY <2>1 DEF Sent, ShapeInv
  <2> QED
    BY <1>1, <2>1, <2>2, JobsAdded DEF ReadsHooks, ShapeInv
<1>2. CASE SendsJobs(e)
  <2>1. matching[e] \in SUBSET Hooks
    BY DEF ShapeInv
  <2>2. \A j \in Sent' : j \in Sent \/ Carried(j)'
    BY <1>2, <2>1, SentIsCarried DEF SendsJobs
  <2> QED
    BY <1>2, <2>2, JobsAdded DEF SendsJobs, ShapeInv
<1>3. CASE DispatchFails(e)
  <2>1. \A j \in Sent' : j \in Sent
    BY <1>3 DEF DispatchFails, Sent, ShapeInv
  <2> QED
    BY <1>3, <2>1, JobsAdded DEF DispatchFails, ShapeInv
<1>4. CASE \E h \in Hooks : Ping(h, e)
  <2>1. PICK h \in Hooks : Ping(h, e)
    BY <1>4
  <2>2. /\ {h} \in SUBSET Hooks
        /\ messages' = With(messages, Jobs({h}, e, 1))
        /\ dispatch' = [dispatch EXCEPT ![e] = "done"]
        /\ \A g \in Events : g # e => matching'[g] = matching[g]
        /\ matching'[e] = {h}
    BY <2>1 DEF Ping, ShapeInv
  <2>3. \A j \in Sent' : j \in Sent \/ Carried(j)'
    BY <2>2, SentIsCarried
  <2> QED
    BY <2>1, <2>3, JobsAdded DEF Ping, ShapeInv
<1> QED
  BY <1>1, <1>2, <1>3, <1>4

LEMMA RedeliverStep ==
  ASSUME IInv, NEW d \in deliveries, Redeliver(d)
  PROVE  IInv'
<1>1. Sent' = Sent
  BY DEF Redeliver, Sent
<1> QED
  BY <1>1, JobsAdded DEF Redeliver, IInv, ShapeInv

-----------------------------------------------------------------------------
(***************************************************************************)
(* deliver.                                                                *)
(***************************************************************************)

LEMMA DeliversStep ==
  ASSUME IInv, NEW m \in DOMAIN messages, Delivers(m)
  PROVE  IInv'
<1> USE DEF IInv
<1>1. /\ UNCHANGED <<hook, dispatch, matching, deliveries>>
      /\ dropped \subseteq dropped'
      /\ messages[m].at = "deliver"
  BY DEF Delivers, At, producerVars
<1>2. /\ DOMAIN messages' = DOMAIN messages
      /\ messages' \in [DOMAIN messages -> Shape]
      /\ \A n \in DOMAIN messages : n # m => messages'[n] = messages[n]
      /\ \/ messages'[m].at = "record"
         \/ messages'[m].at = "ack" /\ messages'[m].result = "off" /\ Job(m) \in dropped'
  <2>1. CASE hook[m.hook] \in {"on", "other"}
    <3>1. PICK r \in {"ok", "failed"} :
            messages' = [messages EXCEPT ![m].at = "record", ![m].result = r]
      BY <2>1 DEF Delivers
    <3> QED
      BY <3>1 DEF ShapeInv, Shape, Stages
  <2>2. CASE hook[m.hook] \notin {"on", "other"}
    <3>1. /\ messages' = [messages EXCEPT ![m].at = "ack", ![m].result = "off"]
          /\ Job(m) \in dropped'
      BY <2>2 DEF Delivers
    <3> QED
      BY <3>1 DEF ShapeInv, Shape, Stages
  <2> QED
    BY <2>1, <2>2
<1>3. ShapeInv'
  BY <1>1, <1>2 DEF ShapeInv
<1>4. PendingInv'
  <2>1. \A n \in DOMAIN messages : messages[n].at # "ack" =>
          Settled(Job(n))' \/ Carried(Job(n))'
    BY <1>2 DEF Settled, Carried, Job
  <2> QED
    BY <1>1, <2>1, PendingKept
<1>5. RecordedInv'
  BY <1>1, <1>2, RecordedKept
<1> QED
  BY <1>3, <1>4, <1>5

LEMMA RecordsStep ==
  ASSUME IInv, NEW m \in DOMAIN messages, Records(m)
  PROVE  IInv'
<1> USE DEF IInv
<1>1. /\ UNCHANGED <<hook, dispatch, matching, dropped>>
      /\ deliveries \subseteq deliveries'
      /\ messages[m].at = "record"
  BY DEF Records, At, producerVars
<1>2. PICK s \in {"retry", "ack", "resend"} :
        /\ messages' = [messages EXCEPT ![m].at = s]
        /\ s = "retry" \/ Row(m) \in deliveries'
        /\ s = "ack" => messages[m].result = "ok" \/ Exhausted(m)
  BY DEF Records, Rejected
<1>3. /\ DOMAIN messages' = DOMAIN messages
      /\ messages' \in [DOMAIN messages' -> Shape]
      /\ messages'[m].at = s /\ messages'[m].result = messages[m].result
      /\ \A n \in DOMAIN messages : n # m => messages'[n] = messages[n]
  BY <1>2 DEF ShapeInv, Shape, Stages
<1>4. ShapeInv'
  BY <1>1, <1>3 DEF ShapeInv
<1>5. PendingInv'
  <2>1. CASE s = "ack"
    <3>1. Row(m) \in deliveries' /\ Job(Row(m)) = Job(m)
      BY <2>1, <1>2 DEF Row, Job
    <3>2. Row(m).ok \/ Row(m).attempt >= MaxAttempts
      BY <2>1, <1>2 DEF Row, Exhausted
    <3>3. Settled(Job(m))'
      BY <3>1, <3>2 DEF Settled, Job
    <3>4. \A n \in DOMAIN messages : n # m /\ messages[n].at # "ack" => Carried(Job(n))'
      BY <1>3 DEF Carried, Job
    <3> QED
      BY <1>1, <3>3, <3>4, PendingKept
  <2>2. CASE s # "ack"
    <3>1. \A n \in DOMAIN messages : messages[n].at # "ack" => Carried(Job(n))'
      BY <2>2, <1>3 DEF Carried, Job
    <3> QED
      BY <1>1, <3>1, PendingKept
  <2> QED
    BY <2>1, <2>2
<1>6. RecordedInv'
  <2>1. Row(m)' = Row(m)
    BY <1>3 DEF Row
  <2>2. s = "retry" \/ Row(m)' \in deliveries'
    BY <2>1, <1>2
  <2> QED
    BY <1>1, <1>3, <2>2, RecordedKept
<1> QED
  BY <1>4, <1>5, <1>6

LEMMA ResendsStep ==
  ASSUME IInv, NEW m \in DOMAIN messages, Resends(m)
  PROVE  IInv'
<1> USE DEF IInv
<1> DEFINE f == [messages EXCEPT ![m].at = "ack"]
           jobs == Jobs({m.hook}, m.event, NextAttempt(m))
<1>1. /\ UNCHANGED <<hook, dispatch, matching, deliveries, dropped>>
      /\ messages[m].at = "resend"
      /\ messages' = With(f, jobs)
  BY DEF Resends, At, producerVars, Resent
<1>2. /\ DOMAIN f = DOMAIN messages
      /\ f \in [DOMAIN f -> Shape]
      /\ f[m].at = "ack" /\ f[m].result = messages[m].result
      /\ \A n \in DOMAIN messages : n # m => f[n] = messages[n]
  BY DEF ShapeInv, Shape, Stages
<1>3. [hook |-> m.hook, event |-> m.event, attempt |-> NextAttempt(m)] \in jobs
  BY DEF Jobs
<1> HIDE DEF f, jobs
<1>4. ShapeInv'
  BY <1>1, <1>2, WithKeeps DEF ShapeInv
<1>5. PendingInv'
  <2>1. \E n \in DOMAIN messages' :
          n.hook = m.hook /\ n.event = m.event /\ messages'[n] = Waiting
    BY <1>1, <1>2, <1>3, WithKeeps
  <2>2. Carried(Job(m))'
    BY <2>1, WaitingStatus DEF Carried, Job
  <2>3. \A n \in DOMAIN messages : n # m /\ messages[n].at # "ack" => Carried(Job(n))'
    BY <1>1, <1>2, AddedMessages
  <2> QED
    BY <1>1, <2>2, <2>3, PendingKept
<1>6. RecordedInv'
  <2>1. \A n \in DOMAIN messages' :
          \/ messages'[n].at = "queued"
          \/ n \in DOMAIN messages /\ messages'[n] = f[n]
    BY <1>1, <1>2, WithKeeps, WaitingStatus
  <2>2. messages[m].result # "off" /\ hook[m.hook] # "deleted" => Row(m) \in deliveries
    BY <1>1 DEF RecordedInv
  <2>3. m \in DOMAIN messages' /\ messages'[m] = f[m] => Row(m)' = Row(m)
    BY <1>2 DEF Row
  <2> QED
    BY <1>1, <1>2, <2>1, <2>2, <2>3, RecordedKept
<1> QED
  BY <1>4, <1>5, <1>6

LEMMA CallFailsStep ==
  ASSUME IInv, NEW m \in DOMAIN messages, CallFails(m)
  PROVE  IInv'
<1> USE DEF IInv
<1> DEFINE f == [messages EXCEPT ![m].at = "retry"]
           jobs == Jobs({m.hook}, m.event, NextAttempt(m))
<1>1. /\ UNCHANGED <<hook, dispatch, matching, dropped>>
      /\ deliveries \subseteq deliveries'
      /\ messages' = f \/ messages' = With(f, jobs)
  BY DEF CallFails, producerVars, Rejected
<1>2. /\ DOMAIN f = DOMAIN messages
      /\ f \in [DOMAIN f -> Shape]
      /\ f[m].at = "retry"
      /\ \A n \in DOMAIN messages : n # m => f[n] = messages[n]
  BY DEF ShapeInv, Shape, Stages
<1> HIDE DEF f, jobs
<1>3. ShapeInv'
  BY <1>1, <1>2, WithKeeps DEF ShapeInv
<1>4. PendingInv'
  <2>1. \A n \in DOMAIN messages : messages[n].at # "ack" => f[n].at # "ack"
    BY <1>2
  <2>2. \A n \in DOMAIN messages : messages[n].at # "ack" => Carried(Job(n))'
    <3>1. CASE messages' = f
      BY <3>1, <1>2, <2>1 DEF Carried, Job
    <3>2. CASE messages' = With(f, jobs)
      BY <3>2, <1>2, <2>1, AddedMessages
    <3> QED
      BY <3>1, <3>2, <1>1
  <2> QED
    BY <1>1, <2>2, PendingKept
<1>5. RecordedInv'
  <2>1. \A n \in DOMAIN messages' :
          messages'[n].at = "queued" \/ (n \in DOMAIN messages /\ messages'[n] = f[n])
    BY <1>1, <1>2, WithKeeps, WaitingStatus
  <2> QED
    BY <1>1, <1>2, <2>1, RecordedKept
<1> QED
  BY <1>3, <1>4, <1>5

-----------------------------------------------------------------------------
(***************************************************************************)
(* The queue.                                                              *)
(***************************************************************************)

LEMMA TakesStep ==
  ASSUME IInv, NEW b, TakesBatch(b)
  PROVE  IInv'
<1> USE DEF IInv
<1>1. UNCHANGED <<hook, dispatch, matching, deliveries, dropped>>
  BY DEF TakesBatch, producerVars
<1>2. /\ DOMAIN messages' = DOMAIN messages
      /\ messages' \in [DOMAIN messages' -> Shape]
      /\ \A m \in DOMAIN messages :
           messages'[m] = messages[m] \/ messages'[m].at = "deliver"
  BY DEF TakesBatch, ShapeInv, Shape, Stages
<1>3. ShapeInv'
  BY <1>1, <1>2 DEF ShapeInv
<1>4. PendingInv'
  <2>1. \A m \in DOMAIN messages : messages[m].at # "ack" => Carried(Job(m))'
    BY <1>2 DEF Carried, Job
  <2> QED
    BY <1>1, <2>1, PendingKept
<1>5. RecordedInv'
  BY <1>1, <1>2, RecordedKept
<1> QED
  BY <1>3, <1>4, <1>5

\* A settlement that lets go only of messages that were dealt with.
LEMMA SettlementStep ==
  ASSUME IInv, NEW again, NEW acked, Settlement(again, acked),
         UNCHANGED <<hook, dispatch, matching, deliveries>>,
         \A m \in DOMAIN messages \cap acked : messages[m].at = "ack"
  PROVE  IInv'
<1> USE DEF IInv
<1> DEFINE dead == {m \in again : messages[m].tries = MaxRetries}
<1>1. /\ DOMAIN messages' = DOMAIN messages \ (acked \cup dead)
      /\ \A m \in DOMAIN messages' :
           \/ messages'[m] = messages[m]
           \/ messages'[m] = [tries |-> messages[m].tries + 1, at |-> "queued", result |-> "none"]
      /\ messages' = [m \in DOMAIN messages' |-> messages'[m]]
      /\ dropped' = dropped \cup {Job(m) : m \in dead}
  BY DEF Settlement
<1> HIDE DEF dead
<1>2. \A m \in DOMAIN messages' : messages'[m] \in Shape
  <2>1. \A m \in DOMAIN messages' : messages[m] \in Shape
    BY <1>1 DEF ShapeInv
  <2>2. \A r \in Shape : [tries |-> r.tries + 1, at |-> "queued", result |-> "none"] \in Shape
    BY DEF Shape, Stages
  <2> QED
    BY <1>1, <2>1, <2>2
<1>3. \A m \in DOMAIN messages' : messages'[m] = messages[m] \/ messages'[m].at = "queued"
  BY <1>1
<1>4. ShapeInv'
  BY <1>1, <1>2 DEF ShapeInv
<1>5. PendingInv'
  <2>1. \A m \in DOMAIN messages : messages[m].at # "ack" =>
          Settled(Job(m))' \/ Carried(Job(m))'
    <3> SUFFICES ASSUME NEW m \in DOMAIN messages, messages[m].at # "ack"
                 PROVE  Settled(Job(m))' \/ Carried(Job(m))'
      OBVIOUS
    <3>1. CASE m \in dead
      BY <3>1, <1>1 DEF Settled, Job
    <3>2. CASE m \notin dead
      <4>1. m \in DOMAIN messages'
        BY <3>2, <1>1
      <4> QED
        BY <4>1, <1>3 DEF Carried, Job
    <3> QED
      BY <3>1, <3>2
  <2> QED
    BY <1>1, <2>1, PendingKept
<1>6. RecordedInv'
  BY <1>1, <1>3, RecordedKept
<1> QED
  BY <1>4, <1>5, <1>6

LEMMA SettlesStep ==
  ASSUME IInv, NEW b, Settles(b) \/ BatchLost(b)
  PROVE  IInv'
<1>1. CASE Settles(b)
  <2>1. /\ Settlement(ToRetry(b), b \ ToRetry(b))
        /\ UNCHANGED <<hook, dispatch, matching, deliveries>>
    BY <1>1 DEF Settles, producerVars
  <2>2. \A m \in DOMAIN messages \cap (b \ ToRetry(b)) : messages[m].at = "ack"
    BY <1>1 DEF Settles, ToRetry
  <2> QED
    BY <2>1, <2>2, SettlementStep
<1>2. CASE BatchLost(b)
  <2>1. /\ Settlement(b, {})
        /\ UNCHANGED <<hook, dispatch, matching, deliveries>>
    BY <1>2 DEF BatchLost, producerVars
  <2>2. \A m \in DOMAIN messages \cap {} : messages[m].at = "ack"
    OBVIOUS
  <2> QED
    BY <2>1, <2>2, SettlementStep
<1> QED
  BY <1>1, <1>2

-----------------------------------------------------------------------------
LEMMA InitIInv ==
  ASSUME Init
  PROVE  IInv
<1>1. DOMAIN messages = {} /\ messages \in [DOMAIN messages -> Shape]
  BY DEF Init
<1>2. ShapeInv
  BY <1>1 DEF Init, ShapeInv, HookStates
<1>3. Sent = {}
  BY DEF Init, Sent
<1> QED
  BY <1>1, <1>2, <1>3 DEF IInv, PendingInv, RecordedInv

LEMMA NextIInv ==
  ASSUME IInv, [Next]_vars
  PROVE  IInv'
<1>1. CASE Produce
  <2>1. CASE \E h \in Hooks : Create(h) \/ Update(h) \/ Delete(h)
    BY <2>1, HooksChange
  <2>2. CASE \E e \in Events : ReadsHooks(e) \/ SendsJobs(e) \/ DispatchFails(e)
    BY <2>2, EventsSent
  <2>3. CASE \E h \in Hooks, e \in Events : Ping(h, e)
    BY <2>3, EventsSent
  <2>4. CASE \E d \in deliveries : Redeliver(d)
    BY <2>4, RedeliverStep
  <2> QED
    BY <1>1, <2>1, <2>2, <2>3, <2>4 DEF Produce
<1>2. CASE Consume
  BY <1>2, TakesStep, SettlesStep, DeliversStep, RecordsStep, ResendsStep
     DEF Consume, Take, Settle, Handle
<1>3. CASE \E m \in DOMAIN messages : CallFails(m)
  BY <1>3, CallFailsStep
<1>4. CASE \E b \in batches : BatchLost(b)
  BY <1>4, SettlesStep
<1>5. CASE UNCHANGED vars
  <2>1. ShapeInv'
    BY <1>5 DEF vars, producerVars, IInv, ShapeInv
  <2>2. PendingInv'
    BY <1>5 DEF vars, producerVars, IInv, PendingInv, Carried, Sent, Settled, Job
  <2>3. RecordedInv'
    BY <1>5 DEF vars, producerVars, IInv, RecordedInv, Row
  <2> QED
    BY <2>1, <2>2, <2>3 DEF IInv
<1> QED
  BY <1>1, <1>2, <1>3, <1>4, <1>5 DEF Next

LEMMA Invariant == Spec => []IInv
<1>1. Init => IInv
  BY InitIInv
<1>2. IInv /\ [Next]_vars => IInv'
  BY NextIInv
<1> QED
  BY <1>1, <1>2, PTL DEF Spec

-----------------------------------------------------------------------------
(***************************************************************************)
(* The copies of a message: the least number that is free.                 *)
(***************************************************************************)

LEMMA LeastNatural ==
  ASSUME NEW T \in SUBSET Nat, T # {}
  PROVE  \E x \in T : \A y \in 0 .. x - 1 : y \notin T
<1>1. \E x \in T : \A y \in T : <<y, x>> \notin OpToRel(<, Nat)
  BY NatLessThanWellFounded, WFMin
<1>2. PICK x \in T : \A y \in T : <<y, x>> \notin OpToRel(<, Nat)
  BY <1>1
<1>3. ASSUME NEW y \in 0 .. x - 1, y \in T PROVE FALSE
  <2>1. y \in Nat /\ x \in Nat /\ y < x
    BY <1>3
  <2>2. <<y, x>> \in OpToRel(<, Nat)
    BY <2>1 DEF OpToRel
  <2> QED BY <1>2, <1>3, <2>2
<1> QED BY <1>3

\* Fresh numbers a job so that no message of the queue has its name.
LEMMA FreshIsNew ==
  ASSUME NEW f, IsFiniteSet(DOMAIN f), NEW h, NEW e, NEW n
  PROVE  \E c \in Nat :
           /\ Fresh(f, [hook |-> h, event |-> e, attempt |-> n])
                = [hook |-> h, event |-> e, attempt |-> n, copy |-> c]
           /\ [hook |-> h, event |-> e, attempt |-> n, copy |-> c] \notin DOMAIN f
           /\ c = 0 \/ [hook |-> h, event |-> e, attempt |-> n, copy |-> 0] \in DOMAIN f
<1> DEFINE id(c) == [hook |-> h, event |-> e, attempt |-> n, copy |-> c]
           size == Cardinality(DOMAIN f)
           T == {c \in Nat : id(c) \notin DOMAIN f}
<1>1. size \in Nat
  BY FS_CardinalityType
<1>2. \E c \in 0 .. size : id(c) \notin DOMAIN f
  <2> SUFFICES ASSUME \A c \in 0 .. size : id(c) \in DOMAIN f PROVE FALSE
    OBVIOUS
  <2> DEFINE g == [c \in 0 .. size |-> id(c)]
  <2>1. g \in [0 .. size -> DOMAIN f]
    OBVIOUS
  <2>2. IsFiniteSet(0 .. size) /\ Cardinality(0 .. size) = size + 1
    BY <1>1, FS_Interval
  <2>3. Cardinality(DOMAIN f) < Cardinality(0 .. size)
    BY <1>1, <2>2
  <2> HIDE DEF g
  <2>4. \E x, y \in 0 .. size : x # y /\ g[x] = g[y]
    BY <2>1, <2>2, <2>3, FS_PigeonHole
  <2>5. PICK x, y \in 0 .. size : x # y /\ g[x] = g[y]
    BY <2>4
  <2>6. id(x).copy = id(y).copy
    BY <2>5 DEF g
  <2> QED BY <2>5, <2>6
<1>3. T \in SUBSET Nat /\ T # {}
  BY <1>1, <1>2
<1>4. PICK x \in T : \A d \in 0 .. x - 1 : d \notin T
  BY <1>3, LeastNatural
<1>5. x \in 0 .. size /\ \A d \in 0 .. x - 1 : id(d) \in DOMAIN f
  <2>1. PICK c \in 0 .. size : id(c) \notin DOMAIN f
    BY <1>2
  <2>2. c \in T /\ ~(c \in 0 .. x - 1)
    BY <1>1, <1>4, <2>1
  <2>3. x \in Nat /\ c \in Nat /\ ~(c < x)
    BY <1>4, <2>1, <1>1, <2>2
  <2> QED BY <1>1, <1>4, <2>1, <2>3
<1> DEFINE P(c) == id(c) \notin DOMAIN f /\ \A d \in 0 .. c - 1 : id(d) \in DOMAIN f
<1>6. Fresh(f, [hook |-> h, event |-> e, attempt |-> n])
        = id(CHOOSE c \in 0 .. size : P(c))
  BY DEF Fresh
<1>7. PICK c : c = CHOOSE k \in 0 .. size : P(k)
  OBVIOUS
<1>8. c \in 0 .. size /\ P(c)
  BY <1>4, <1>5, <1>7
<1>9. c = 0 \/ id(0) \in DOMAIN f
  BY <1>1, <1>8
<1>a. c \in Nat
  BY <1>1, <1>8
<1>b. Fresh(f, [hook |-> h, event |-> e, attempt |-> n]) = id(c)
  BY <1>6, <1>7
<1>c. id(c) \notin DOMAIN f
  BY <1>8
<1> QED BY <1>9, <1>a, <1>b, <1>c, Zenon

\* The queue w is the queue f and a new message for each of hooks.
Adds(f, w, hooks, e, n) ==
  /\ IsFiniteSet(DOMAIN w) /\ DOMAIN f \subseteq DOMAIN w
  /\ \A m \in DOMAIN f : w[m] = f[m]
  /\ \A m \in DOMAIN w \ DOMAIN f :
       /\ w[m] = Waiting
       /\ m \in [hook : hooks, event : {e}, attempt : {n}, copy : Nat]
       /\ m.copy = 0 \/ [hook |-> m.hook, event |-> e, attempt |-> n, copy |-> 0] \in DOMAIN f

LEMMA WithAdds ==
  ASSUME NEW f, IsFiniteSet(DOMAIN f), NEW hooks \in SUBSET Hooks, NEW e, NEW n
  PROVE  Adds(f, With(f, Jobs(hooks, e, n)), hooks, e, n)
<1> DEFINE job(h) == [hook |-> h, event |-> e, attempt |-> n]
           new == {Fresh(f, j) : j \in Jobs(hooks, e, n)}
           w == With(f, Jobs(hooks, e, n))
           F == [h \in hooks |-> Fresh(f, job(h))]
<1>1. w = [m \in DOMAIN f \cup new |-> IF m \in new THEN Waiting ELSE f[m]]
  BY DEF With
<1>2. \A j \in Jobs(hooks, e, n) : j.hook \in hooks /\ j = job(j.hook)
  BY DEF Jobs
<1>3. \A h \in hooks : job(h) \in Jobs(hooks, e, n)
  BY DEF Jobs
<1>4. IsFiniteSet(new)
  <2>1. F \in Surjection(hooks, new)
    <3>1. F \in [hooks -> new]
      BY <1>3
    <3>2. \A x \in new : \E h \in hooks : F[h] = x
      BY <1>2
    <3> QED BY <3>1, <3>2 DEF Surjection
  <2>2. IsFiniteSet(hooks)
    BY FS_Subset, WebhooksAssumption
  <2> QED BY <2>1, <2>2, FS_Surjection
<1>5. \A m \in new :
        /\ m \in [hook : hooks, event : {e}, attempt : {n}, copy : Nat]
        /\ m \notin DOMAIN f
        /\ m.copy = 0 \/ [hook |-> m.hook, event |-> e, attempt |-> n, copy |-> 0] \in DOMAIN f
  <2> SUFFICES ASSUME NEW h \in hooks, NEW m, m = Fresh(f, job(h))
               PROVE /\ m \in [hook : hooks, event : {e}, attempt : {n}, copy : Nat]
                     /\ m \notin DOMAIN f
                     /\ \/ m.copy = 0
                        \/ [hook |-> m.hook, event |-> e, attempt |-> n, copy |-> 0] \in DOMAIN f
    BY <1>2
  <2>1. PICK c \in Nat :
          /\ Fresh(f, job(h)) = [hook |-> h, event |-> e, attempt |-> n, copy |-> c]
          /\ [hook |-> h, event |-> e, attempt |-> n, copy |-> c] \notin DOMAIN f
          /\ c = 0 \/ [hook |-> h, event |-> e, attempt |-> n, copy |-> 0] \in DOMAIN f
    BY FreshIsNew
  <2>2. m = [hook |-> h, event |-> e, attempt |-> n, copy |-> c]
    BY <2>1
  <2> QED BY <2>1, <2>2
<1> HIDE DEF new, F
<1>6. DOMAIN w = DOMAIN f \cup new
  BY <1>1
<1>7. IsFiniteSet(DOMAIN w)
  BY <1>4, <1>6, FS_Union
<1>8. \A m \in DOMAIN f : w[m] = f[m]
  BY <1>1, <1>5
<1>9. \A m \in DOMAIN w \ DOMAIN f : m \in new /\ w[m] = Waiting
  BY <1>1, <1>6
<1> QED BY <1>5, <1>6, <1>7, <1>8, <1>9 DEF Adds

-----------------------------------------------------------------------------
(***************************************************************************)
(* The queue: its messages, its batches, and that nothing is there twice.  *)
(***************************************************************************)

\* Where messages may stand: a batch has messages of its own, and none that waits.
MsgInv ==
  /\ DOMAIN messages \subseteq Message /\ IsFiniteSet(DOMAIN messages)
  /\ messages \in [DOMAIN messages -> Status]
  /\ \A m \in DOMAIN messages : messages[m].at = "resend" => m.attempt < MaxAttempts
  /\ batches \subseteq SUBSET DOMAIN messages
  /\ \A b \in batches : \A m \in b : messages[m].at # "queued"
  /\ \A b, c \in batches : b = c \/ b \cap c = {}

RestInv ==
  /\ hook \in [Hooks -> HookStates]
  /\ dispatch \in [Events -> {"idle", "sending", "done", "failed"}]
  /\ matching \in [Events -> SUBSET Hooks]
  /\ deliveries \subseteq Delivery
  /\ dropped \subseteq Hooks \X Events
  /\ {faults, edits, redeliveries} \subseteq 0 .. MaxTrouble

\* While nothing fails and nobody redelivers, an attempt is one message, and the
\* attempts before it are dealt with.
Once ==
  /\ \A m \in DOMAIN messages :
       /\ m.copy = 0
       /\ messages[m].tries = 0 \/ hook[m.hook] = "deleted"
       /\ messages[m].at = "retry" => hook[m.hook] = "deleted"
       /\ dispatch[m.event] = "done"
  /\ \A m, k \in DOMAIN messages :
       Job(m) = Job(k) /\ m.attempt < k.attempt => messages[m].at = "ack"
OnceInv == faults = 0 /\ redeliveries = 0 => Once

QueueInv == RestInv /\ MsgInv /\ OnceInv

LEMMA WaitingIsAStatus == Waiting \in Status /\ Waiting.at = "queued" /\ Waiting.tries = 0
  BY WebhooksAssumption DEF Waiting, Status, Stages

\* Messages move on, or one attempt at some hooks is added to them.
LEMMA MessagesAdded ==
  ASSUME MsgInv, NEW f, DOMAIN f = DOMAIN messages, f \in [DOMAIN f -> Status],
         \A m \in DOMAIN f : f[m].at = "resend" => m.attempt < MaxAttempts,
         \A m \in DOMAIN f : f[m].at = "queued" => messages[m].at = "queued",
         NEW hooks \in SUBSET Hooks, NEW e \in Events, NEW n \in 1 .. MaxAttempts,
         messages' = f \/ messages' = With(f, Jobs(hooks, e, n)),
         batches' = batches
  PROVE  MsgInv'
<1>1. CASE messages' = f
  BY <1>1 DEF MsgInv
<1>2. CASE messages' = With(f, Jobs(hooks, e, n))
  <2>a. IsFiniteSet(DOMAIN f)
    BY DEF MsgInv
  <2>b. Adds(f, messages', hooks, e, n)
    BY <1>2, <2>a, WithAdds
  <2>1. /\ IsFiniteSet(DOMAIN messages') /\ DOMAIN f \subseteq DOMAIN messages'
        /\ \A m \in DOMAIN f : messages'[m] = f[m]
        /\ \A m \in DOMAIN messages' \ DOMAIN f :
             /\ messages'[m] = Waiting
             /\ m \in [hook : hooks, event : {e}, attempt : {n}, copy : Nat]
    BY <2>b DEF Adds
  <2>2. \A m \in DOMAIN messages' \ DOMAIN f : m \in Message
    BY <2>1 DEF Message
  <2>3. messages' = [m \in DOMAIN messages' |-> messages'[m]]
    BY <1>2 DEF With
  <2>4. \A m \in DOMAIN messages' : messages'[m] \in Status
    BY <2>1, WaitingIsAStatus
  <2>5. messages' \in [DOMAIN messages' -> Status]
    BY <2>3, <2>4
  <2>6. \A m \in DOMAIN messages' : messages'[m].at = "resend" => m.attempt < MaxAttempts
    BY <2>1, WaitingIsAStatus
  <2>7. \A b \in batches : b \subseteq DOMAIN f /\ \A m \in b : messages'[m].at # "queued"
    BY <2>1 DEF MsgInv
  <2> QED BY <2>1, <2>2, <2>5, <2>6, <2>7 DEF MsgInv
<1> QED BY <1>1, <1>2

\* Nothing is added.
LEMMA OnceKept ==
  ASSUME MsgInv, OnceInv, faults' = faults, redeliveries' = redeliveries,
         DOMAIN messages' \subseteq DOMAIN messages,
         \A m \in DOMAIN messages' :
           /\ messages'[m].tries = messages[m].tries \/ messages[m].at = "retry"
           /\ messages'[m].at = "retry" => messages[m].at = "retry" \/ hook[m.hook] = "deleted"
           /\ messages[m].at = "ack" => messages'[m].at = "ack",
         \A h \in Hooks : hook[h] = "deleted" => hook'[h] = "deleted",
         \A e \in Events : dispatch[e] = "done" => dispatch'[e] = "done"
  PROVE  OnceInv'
<1> SUFFICES ASSUME faults = 0, redeliveries = 0 PROVE Once'
  BY DEF OnceInv
<1>1. Once /\ \A m \in DOMAIN messages : m.hook \in Hooks /\ m.event \in Events
  BY DEF OnceInv, MsgInv, Message
<1> QED BY <1>1 DEF Once, Job

\* An attempt is added, to a job whose attempts so far are dealt with.
LEMMA OnceAdded ==
  ASSUME MsgInv, OnceInv, faults' = faults, redeliveries' = redeliveries, hook' = hook,
         NEW f, DOMAIN f = DOMAIN messages,
         \A m \in DOMAIN f : /\ f[m].tries = messages[m].tries
                             /\ f[m].at = messages[m].at \/ f[m].at = "ack",
         NEW hooks \in SUBSET Hooks, NEW e \in Events, NEW n \in 1 .. MaxAttempts,
         messages' = With(f, Jobs(hooks, e, n)),
         \A g \in Events : dispatch[g] = "done" => dispatch'[g] = "done",
         dispatch'[e] = "done",
         faults = 0 /\ redeliveries = 0 =>
           \A k \in DOMAIN messages : k.event = e /\ k.hook \in hooks =>
             k.attempt < n /\ f[k].at = "ack"
  PROVE  OnceInv'
<1> SUFFICES ASSUME faults = 0, redeliveries = 0 PROVE Once'
  BY DEF OnceInv
<1>a. Once /\ IsFiniteSet(DOMAIN f)
  BY DEF OnceInv, MsgInv
<1>b. Adds(f, messages', hooks, e, n)
  BY <1>a, WithAdds
<1>1. /\ \A m \in DOMAIN f : messages'[m] = f[m]
      /\ \A m \in DOMAIN messages' \ DOMAIN f :
           /\ messages'[m] = Waiting
           /\ m \in [hook : hooks, event : {e}, attempt : {n}, copy : Nat]
           /\ \/ m.copy = 0
              \/ [hook |-> m.hook, event |-> e, attempt |-> n, copy |-> 0] \in DOMAIN f
  BY <1>b DEF Adds
<1>2. \A h \in hooks : [hook |-> h, event |-> e, attempt |-> n, copy |-> 0] \notin DOMAIN f
  <2> SUFFICES ASSUME NEW h \in hooks,
                      [hook |-> h, event |-> e, attempt |-> n, copy |-> 0] \in DOMAIN messages
               PROVE  FALSE
    OBVIOUS
  <2> QED OBVIOUS
<1>3. \A m \in DOMAIN messages' \ DOMAIN f :
        m.copy = 0 /\ m.event = e /\ m.attempt = n /\ m.hook \in hooks
  BY <1>1, <1>2
<1>4. \A m \in DOMAIN messages' :
        /\ m.copy = 0
        /\ messages'[m].tries = 0 \/ hook'[m.hook] = "deleted"
        /\ messages'[m].at = "retry" => hook'[m.hook] = "deleted"
        /\ dispatch'[m.event] = "done"
  <2>1. \A m \in DOMAIN f :
        /\ m.copy = 0
        /\ messages'[m].tries = 0 \/ hook'[m.hook] = "deleted"
        /\ messages'[m].at = "retry" => hook'[m.hook] = "deleted"
        /\ dispatch'[m.event] = "done"
    BY <1>1, <1>a DEF Once, MsgInv, Message
  <2> QED BY <1>1, <1>3, <2>1, WaitingIsAStatus
<1>5. ASSUME NEW m \in DOMAIN messages', NEW k \in DOMAIN messages',
             Job(m) = Job(k), m.attempt < k.attempt
      PROVE  messages'[m].at = "ack"
  <2>1. CASE m \in DOMAIN f /\ k \in DOMAIN f
    <3>1. messages[m].at = "ack"
      BY <1>a, <1>5, <2>1 DEF Once
    <3> QED BY <1>1, <2>1, <3>1
  <2>2. CASE m \in DOMAIN f /\ k \notin DOMAIN f
    <3>1. m.event = e /\ m.hook \in hooks
      BY <1>3, <1>5, <2>2 DEF Job
    <3> QED BY <1>1, <2>2, <3>1
  <2>3. CASE m \notin DOMAIN f /\ k \in DOMAIN f
    <3>1. k.event = e /\ k.hook \in hooks /\ m.attempt = n
      BY <1>3, <1>5, <2>3 DEF Job
    <3>2. k.attempt < n /\ k.attempt \in Nat
      BY <2>3, <3>1 DEF MsgInv, Message
    <3> QED BY <1>5, <3>1, <3>2
  <2>4. CASE m \notin DOMAIN f /\ k \notin DOMAIN f
    BY <1>3, <1>5, <2>4
  <2> QED BY <2>1, <2>2, <2>3, <2>4
<1> QED BY <1>4, <1>5 DEF Once, Job

LEMMA HooksQueue ==
  ASSUME QueueInv, NEW h \in Hooks, Create(h) \/ Update(h) \/ Delete(h)
  PROVE  QueueInv'
<1>1. RestInv'
  <2>1. CASE Create(h)
    BY <2>1 DEF Create, QueueInv, RestInv, HookStates
  <2>2. CASE Update(h)
    BY <2>2, WebhooksAssumption DEF Update, Trouble, QueueInv, RestInv, HookStates
  <2>3. CASE Delete(h)
    BY <2>3, WebhooksAssumption DEF Delete, Trouble, QueueInv, RestInv, HookStates
  <2> QED BY <2>1, <2>2, <2>3
<1>2. UNCHANGED <<messages, batches, faults, redeliveries, dispatch>>
  BY DEF Create, Update, Delete
<1>3. MsgInv'
  BY <1>2 DEF QueueInv, MsgInv
<1>4. \A g \in Hooks : hook[g] = "deleted" => hook'[g] = "deleted"
  <2>1. \/ hook[h] = "none" \/ Exists(h) \/ hook'[h] = "deleted"
    BY DEF Create, Update, Delete
  <2>2. \A g \in Hooks \ {h} : hook'[g] = hook[g]
    BY DEF Create, Update, Delete, QueueInv, RestInv
  <2> QED BY <2>1, <2>2 DEF Create, Update, Delete, Exists, QueueInv, RestInv
<1>5. OnceInv'
  BY <1>2, <1>4, OnceKept DEF QueueInv
<1> QED BY <1>1, <1>3, <1>5 DEF QueueInv

\* A fault leaves nothing to say of messages that are there once.
LEMMA FaultsCount ==
  ASSUME RestInv, Fault
  PROVE  OnceInv' /\ faults' \in 0 .. MaxTrouble
BY WebhooksAssumption DEF RestInv, Fault, Trouble, OnceInv

\* No attempt at an event's jobs is in the queue before the event was sent.
LEMMA SentOnce ==
  ASSUME QueueInv, NEW e \in Events, dispatch[e] # "done", NEW hooks \in SUBSET Hooks,
         messages' = With(messages, Jobs(hooks, e, 1)),
         dispatch' = [dispatch EXCEPT ![e] = "done"],
         UNCHANGED <<hook, batches, faults, redeliveries>>
  PROVE  MsgInv' /\ OnceInv'
<1>1. 1 \in 1 .. MaxAttempts
  BY WebhooksAssumption
<1>2. messages \in [DOMAIN messages -> Status]
      /\ \A m \in DOMAIN messages : messages[m].at = "resend" => m.attempt < MaxAttempts
  BY DEF QueueInv, MsgInv
<1>3. MsgInv'
  BY <1>1, <1>2, MessagesAdded DEF QueueInv
<1>4. dispatch'[e] = "done" /\ \A g \in Events : dispatch[g] = "done" => dispatch'[g] = "done"
  BY DEF QueueInv, RestInv
<1>5. faults = 0 /\ redeliveries = 0 => \A k \in DOMAIN messages : k.event # e
  BY DEF QueueInv, OnceInv, Once
<1>6. OnceInv'
  BY <1>1, <1>4, <1>5, OnceAdded DEF QueueInv
<1> QED BY <1>3, <1>6

LEMMA EventsQueue ==
  ASSUME QueueInv, NEW e \in Events,
         \/ ReadsHooks(e) \/ SendsJobs(e) \/ DispatchFails(e)
         \/ \E h \in Hooks : Ping(h, e)
  PROVE  QueueInv'
<1>a. matching[e] \in SUBSET Hooks
  BY DEF QueueInv, RestInv
<1>1. CASE ReadsHooks(e)
  <2>1. PICK found \in SUBSET Hooks :
          /\ matching' = [matching EXCEPT ![e] = found]
          /\ dispatch' = [dispatch EXCEPT ![e] = IF found = {} THEN "done" ELSE "sending"]
    BY <1>1 DEF ReadsHooks
  <2>2. RestInv'
    BY <1>1, <2>1 DEF ReadsHooks, QueueInv, RestInv
  <2>3. MsgInv'
    BY <1>1 DEF ReadsHooks, QueueInv, MsgInv
  <2>4. \A g \in Events : dispatch[g] = "done" => dispatch'[g] = "done"
    BY <1>1, <2>1 DEF ReadsHooks, QueueInv, RestInv
  <2>5. OnceInv'
    BY <1>1, <2>4, OnceKept DEF ReadsHooks, QueueInv
  <2> QED BY <2>2, <2>3, <2>5 DEF QueueInv
<1>2. CASE SendsJobs(e)
  <2>1. RestInv'
    BY <1>2 DEF SendsJobs, QueueInv, RestInv
  <2>2. MsgInv' /\ OnceInv'
    BY <1>2, <1>a, SentOnce DEF SendsJobs
  <2> QED BY <2>1, <2>2 DEF QueueInv
<1>3. CASE DispatchFails(e)
  <2>1. OnceInv' /\ faults' \in 0 .. MaxTrouble
    BY <1>3, FaultsCount DEF DispatchFails, QueueInv
  <2>2. RestInv'
    BY <1>3, <2>1 DEF DispatchFails, QueueInv, RestInv
  <2>3. 1 \in 1 .. MaxAttempts
    BY WebhooksAssumption
  <2>4. messages \in [DOMAIN messages -> Status]
        /\ \A m \in DOMAIN messages : messages[m].at = "resend" => m.attempt < MaxAttempts
    BY DEF QueueInv, MsgInv
  <2>5. MsgInv'
    BY <1>3, <1>a, <2>3, <2>4, MessagesAdded DEF DispatchFails, QueueInv
  <2> QED BY <2>1, <2>2, <2>5 DEF QueueInv
<1>4. CASE \E h \in Hooks : Ping(h, e)
  <2>1. PICK h \in Hooks : Ping(h, e)
    BY <1>4
  <2>2. RestInv'
    BY <2>1 DEF Ping, QueueInv, RestInv
  <2>3. dispatch[e] # "done" /\ {h} \in SUBSET Hooks
    BY <2>1 DEF Ping
  <2>4. MsgInv' /\ OnceInv'
    BY <2>1, <2>3, SentOnce DEF Ping
  <2> QED BY <2>2, <2>4 DEF QueueInv
<1> QED BY <1>1, <1>2, <1>3, <1>4

LEMMA RedeliverQueue ==
  ASSUME QueueInv, NEW d \in deliveries, Redeliver(d)
  PROVE  QueueInv'
<1>1. d.event \in Events /\ {d.hook} \in SUBSET Hooks
  BY DEF QueueInv, RestInv, Delivery
<1>2. redeliveries' # 0 /\ redeliveries' \in 0 .. MaxTrouble
  BY WebhooksAssumption DEF Redeliver, Trouble, QueueInv, RestInv
<1>3. RestInv'
  BY <1>2 DEF Redeliver, QueueInv, RestInv
<1>4. 1 \in 1 .. MaxAttempts
  BY WebhooksAssumption
<1>5. messages \in [DOMAIN messages -> Status]
      /\ \A m \in DOMAIN messages : messages[m].at = "resend" => m.attempt < MaxAttempts
  BY DEF QueueInv, MsgInv
<1>6. MsgInv'
  BY <1>1, <1>4, <1>5, MessagesAdded DEF Redeliver, QueueInv
<1>7. OnceInv'
  BY <1>2 DEF OnceInv
<1> QED BY <1>3, <1>6, <1>7 DEF QueueInv

-----------------------------------------------------------------------------
\* One message moves on.
LEMMA MessageMoves ==
  ASSUME QueueInv, NEW m \in DOMAIN messages, NEW s \in Status,
         messages' = [messages EXCEPT ![m] = s], s.tries = messages[m].tries,
         messages[m].at \notin {"queued", "ack"}, s.at # "queued",
         s.at = "resend" => m.attempt < MaxAttempts,
         UNCHANGED <<batches>>
  PROVE  /\ MsgInv'
         /\ /\ s.at # "retry" \/ hook[m.hook] = "deleted"
            /\ UNCHANGED <<hook, dispatch, faults, redeliveries>>
            => OnceInv'
<1>1. MsgInv'
  BY DEF QueueInv, MsgInv
<1>2. ASSUME s.at # "retry" \/ hook[m.hook] = "deleted",
             UNCHANGED <<hook, dispatch, faults, redeliveries>>
      PROVE  OnceInv'
  <2>1. DOMAIN messages' = DOMAIN messages /\ messages'[m] = s
        /\ \A n \in DOMAIN messages : n # m => messages'[n] = messages[n]
    BY DEF QueueInv, MsgInv
  <2> QED BY <1>2, <2>1, OnceKept DEF QueueInv
<1> QED BY <1>1, <1>2

LEMMA DeliversQueue ==
  ASSUME QueueInv, NEW m \in DOMAIN messages, Delivers(m)
  PROVE  QueueInv'
<1>1. /\ m \in Message /\ messages[m] \in Status /\ messages[m].at = "deliver"
      /\ UNCHANGED <<producerVars, batches, deliveries, faults>>
  BY DEF Delivers, At, QueueInv, MsgInv
<1>2. Job(m) \in Hooks \X Events
  BY <1>1 DEF Job, Message
<1>3. RestInv'
  BY <1>1, <1>2 DEF Delivers, producerVars, QueueInv, RestInv
<1>4. PICK s \in {"record", "ack"}, r \in {"ok", "failed", "off"} :
        messages' = [messages EXCEPT ![m].at = s, ![m].result = r]
  BY DEF Delivers
<1>5. PICK t : t = [messages[m] EXCEPT !.at = s, !.result = r]
  OBVIOUS
<1>6. t \in Status /\ t.at = s /\ t.tries = messages[m].tries
  BY <1>1, <1>5 DEF Status, Stages
<1>7. messages' = [messages EXCEPT ![m] = t]
  BY <1>1, <1>4, <1>5 DEF QueueInv, MsgInv
<1>8. MsgInv' /\ OnceInv'
  BY <1>1, <1>6, <1>7, MessageMoves DEF producerVars
<1> QED BY <1>3, <1>8 DEF QueueInv

\* The row of a delivery.
LEMMA RowIsADelivery ==
  ASSUME NEW m \in Message
  PROVE  Row(m) \in Delivery
BY DEF Row, Message, Delivery

LEMMA RecordsQueue ==
  ASSUME QueueInv, NEW m \in DOMAIN messages, Records(m)
  PROVE  QueueInv'
<1>1. /\ m \in Message /\ messages[m] \in Status /\ messages[m].at = "record"
      /\ UNCHANGED <<producerVars, batches, dropped, faults>>
  BY DEF Records, At, QueueInv, MsgInv
<1>2. RestInv'
  BY <1>1, RowIsADelivery DEF Records, producerVars, QueueInv, RestInv
<1>3. PICK s \in {"retry", "ack", "resend"} :
        /\ messages' = [messages EXCEPT ![m].at = s]
        /\ s = "retry" => hook[m.hook] = "deleted"
        /\ s = "resend" => ~Exhausted(m)
  BY DEF Records, Rejected
<1>4. s = "resend" => m.attempt < MaxAttempts
  BY <1>1, <1>3, WebhooksAssumption DEF Exhausted, Message
<1>5. PICK t : t = [messages[m] EXCEPT !.at = s]
  OBVIOUS
<1>6. t \in Status /\ t.at = s /\ t.tries = messages[m].tries
  BY <1>1, <1>5 DEF Status, Stages
<1>7. messages' = [messages EXCEPT ![m] = t]
  BY <1>1, <1>3, <1>5 DEF QueueInv, MsgInv
<1>8. MsgInv' /\ OnceInv'
  BY <1>1, <1>3, <1>4, <1>6, <1>7, MessageMoves DEF producerVars
<1> QED BY <1>2, <1>8 DEF QueueInv

LEMMA ResendsQueue ==
  ASSUME QueueInv, NEW m \in DOMAIN messages, Resends(m)
  PROVE  QueueInv'
<1>1. /\ m \in Message /\ messages[m] \in Status /\ messages[m].at = "resend"
      /\ UNCHANGED <<producerVars, batches, deliveries, dropped, faults>>
      /\ m.attempt < MaxAttempts
  BY DEF Resends, At, QueueInv, MsgInv
<1>2. RestInv'
  BY <1>1 DEF producerVars, QueueInv, RestInv
<1>3. PICK f : f = [messages EXCEPT ![m].at = "ack"]
  OBVIOUS
<1>4. messages' = With(f, Jobs({m.hook}, m.event, m.attempt + 1))
  BY <1>3 DEF Resends, Resent, NextAttempt
<1>5. /\ DOMAIN f = DOMAIN messages /\ f \in [DOMAIN f -> Status]
      /\ f[m].at = "ack" /\ f[m].tries = messages[m].tries
      /\ \A n \in DOMAIN f : n # m => f[n] = messages[n]
  BY <1>1, <1>3 DEF QueueInv, MsgInv, Status, Stages
<1>6. m.attempt + 1 \in 1 .. MaxAttempts /\ {m.hook} \in SUBSET Hooks /\ m.event \in Events
  BY <1>1, WebhooksAssumption DEF Message
<1>7. MsgInv'
  <2>1. \A n \in DOMAIN f : f[n].at = "resend" => n.attempt < MaxAttempts
    BY <1>5 DEF QueueInv, MsgInv
  <2>2. \A n \in DOMAIN f : f[n].at = "queued" => messages[n].at = "queued"
    BY <1>5
  <2> QED BY <1>1, <1>4, <1>5, <1>6, <2>1, <2>2, MessagesAdded DEF QueueInv
<1>8. OnceInv'
  <2>1. \A n \in DOMAIN f : f[n].tries = messages[n].tries /\ (f[n].at = messages[n].at \/ f[n].at = "ack")
    BY <1>5
  <2>2. ASSUME faults = 0, redeliveries = 0, NEW k \in DOMAIN messages,
               k.event = m.event, k.hook = m.hook
        PROVE  k.attempt < m.attempt + 1 /\ f[k].at = "ack"
    <3>1. Once /\ k \in Message
      BY <2>2 DEF QueueInv, OnceInv, MsgInv
    <3>2. Job(k) = Job(m) /\ k.copy = 0 /\ m.copy = 0
      BY <2>2, <3>1 DEF Job, Once
    <3>3. ~(m.attempt < k.attempt)
      BY <1>1, <3>1, <3>2 DEF Once
    <3>4. CASE k.attempt = m.attempt
      <4>1. k = m
        BY <1>1, <2>2, <3>1, <3>2, <3>4 DEF Message
      <4> QED BY <1>1, <1>5, <4>1 DEF Message
    <3>5. CASE k.attempt < m.attempt
      <4>1. messages[k].at = "ack" /\ k # m
        BY <1>1, <3>1, <3>2, <3>5 DEF Once, Message
      <4> QED BY <1>1, <1>5, <3>1, <3>5, <4>1 DEF Message
    <3> QED BY <1>1, <3>1, <3>3, <3>4, <3>5 DEF Message
  <2>3. faults = 0 /\ redeliveries = 0 => dispatch[m.event] = "done"
    BY DEF QueueInv, OnceInv, Once
  <2>4. CASE faults = 0 /\ redeliveries = 0
    BY <1>1, <1>4, <1>5, <1>6, <2>1, <2>2, <2>3, <2>4, OnceAdded DEF QueueInv, producerVars
  <2>5. CASE ~(faults = 0 /\ redeliveries = 0)
    BY <1>1, <2>5 DEF OnceInv, producerVars
  <2> QED BY <2>4, <2>5
<1> QED BY <1>2, <1>7, <1>8 DEF QueueInv

LEMMA CallFailsQueue ==
  ASSUME QueueInv, NEW m \in DOMAIN messages, CallFails(m)
  PROVE  QueueInv'
<1>1. /\ m \in Message /\ messages[m] \in Status
      /\ messages[m].at \in {"deliver", "record", "resend"}
      /\ UNCHANGED <<producerVars, batches, dropped>>
      /\ Fault
      /\ deliveries' \subseteq deliveries \cup {Row(m)}
  BY DEF CallFails, At, QueueInv, MsgInv
<1>2. OnceInv' /\ faults' \in 0 .. MaxTrouble
  BY <1>1, FaultsCount DEF QueueInv
<1>3. RestInv'
  BY <1>1, <1>2, RowIsADelivery DEF producerVars, QueueInv, RestInv
<1>4. PICK f : f = [messages EXCEPT ![m].at = "retry"]
  OBVIOUS
<1>5. /\ DOMAIN f = DOMAIN messages /\ f \in [DOMAIN f -> Status]
      /\ f[m].at = "retry"
      /\ \A n \in DOMAIN f : n # m => f[n] = messages[n]
  BY <1>1, <1>4 DEF QueueInv, MsgInv, Status, Stages
<1>6. \/ messages' = f
      \/ /\ messages' = With(f, Jobs({m.hook}, m.event, m.attempt + 1))
         /\ messages[m].at = "resend"
  BY <1>4 DEF CallFails, Rejected, NextAttempt, At
<1>7. {m.hook} \in SUBSET Hooks /\ m.event \in Events
  BY <1>1 DEF Message
<1>8. \A n \in DOMAIN f : /\ f[n].at = "resend" => n.attempt < MaxAttempts
                          /\ f[n].at = "queued" => messages[n].at = "queued"
  BY <1>5 DEF QueueInv, MsgInv
<1>9. MsgInv'
  <2>1. CASE messages' = f
    <3>1. 1 \in 1 .. MaxAttempts
      BY WebhooksAssumption
    <3> QED BY <1>1, <1>5, <1>7, <1>8, <2>1, <3>1, MessagesAdded DEF QueueInv
  <2>2. CASE messages[m].at = "resend" /\ messages' = With(f, Jobs({m.hook}, m.event, m.attempt + 1))
    <3>1. m.attempt + 1 \in 1 .. MaxAttempts
      BY <1>1, <2>2, WebhooksAssumption DEF Message, QueueInv, MsgInv
    <3> QED BY <1>1, <1>5, <1>7, <1>8, <2>2, <3>1, MessagesAdded DEF QueueInv
  <2> QED BY <1>6, <2>1, <2>2
<1> QED BY <1>2, <1>3, <1>9 DEF QueueInv

-----------------------------------------------------------------------------
LEMMA TakesQueue ==
  ASSUME QueueInv, NEW b \in SUBSET {m \in DOMAIN messages : messages[m].at = "queued"},
         TakesBatch(b)
  PROVE  QueueInv'
<1>1. /\ UNCHANGED <<producerVars, deliveries, dropped, faults>>
      /\ batches' = batches \cup {b} /\ b \subseteq DOMAIN messages
  BY DEF TakesBatch
<1>2. /\ DOMAIN messages' = DOMAIN messages
      /\ \A m \in DOMAIN messages :
           /\ messages'[m] \in Status
           /\ m \notin b => messages'[m] = messages[m]
           /\ m \in b => messages'[m].at = "deliver" /\ messages'[m].tries = messages[m].tries
      /\ messages' \in [DOMAIN messages' -> Status]
  <2>1. \A s \in Status : LET t == [s EXCEPT !.at = "deliver", !.result = "none"] IN
          t \in Status /\ t.at = "deliver" /\ t.tries = s.tries
    BY DEF Status, Stages
  <2>2. \A m \in DOMAIN messages : messages[m] \in Status
    BY DEF QueueInv, MsgInv
  <2>3. messages' = [m \in DOMAIN messages |->
       IF m \in b THEN [messages[m] EXCEPT !.at = "deliver", !.result = "none"] ELSE messages[m]]
    BY DEF TakesBatch
  <2> QED BY <2>1, <2>2, <2>3
<1>3. RestInv'
  BY <1>1 DEF producerVars, QueueInv, RestInv
<1>4. MsgInv'
  BY <1>1, <1>2 DEF QueueInv, MsgInv
<1>5. OnceInv'
  BY <1>1, <1>2, OnceKept DEF producerVars, QueueInv
<1> QED BY <1>3, <1>4, <1>5 DEF QueueInv

\* A batch is settled: its messages are acknowledged or go back.
LEMMA SettledQueue ==
  ASSUME QueueInv, NEW b \in batches, NEW again \in SUBSET b, Settlement(again, b \ again),
         batches' = batches \ {b}, UNCHANGED <<producerVars, deliveries>>,
         faults' \in 0 .. MaxTrouble,
         \/ faults' = faults /\ \A m \in again : messages[m].at = "retry"
         \/ OnceInv'
  PROVE  QueueInv'
<1> DEFINE dead == {m \in again : messages[m].tries = MaxRetries}
           s(m) == [tries |-> messages[m].tries + 1, at |-> "queued", result |-> "none"]
<1>1. /\ messages' = [m \in DOMAIN messages \ ((b \ again) \cup dead) |->
                        IF m \in again THEN s(m) ELSE messages[m]]
      /\ dropped' = dropped \cup {Job(m) : m \in dead}
  BY DEF Settlement
<1>2. b \subseteq DOMAIN messages /\ dead \subseteq again
      /\ \A m \in DOMAIN messages : m \in Message /\ messages[m] \in Status
  BY DEF QueueInv, MsgInv
<1>3. \A m \in again \ dead : s(m) \in Status
  BY <1>2, WebhooksAssumption DEF Status, Stages
<1>4. \A m \in dead : Job(m) \in Hooks \X Events
  BY <1>2 DEF Job, Message
<1>5. RestInv'
  BY <1>1, <1>4 DEF producerVars, QueueInv, RestInv
<1> HIDE DEF dead
<1>6. /\ DOMAIN messages' = DOMAIN messages \ ((b \ again) \cup dead)
      /\ \A m \in DOMAIN messages' : m \in again => messages'[m] = s(m)
      /\ \A m \in DOMAIN messages' : m \notin again => messages'[m] = messages[m] /\ m \notin b
  BY <1>1
<1>7. \A m \in DOMAIN messages' : messages'[m] \in Status
  BY <1>2, <1>3, <1>6
<1>8. MsgInv'
  <2>1. messages' \in [DOMAIN messages' -> Status]
    BY <1>1, <1>6, <1>7
  <2>2. IsFiniteSet(DOMAIN messages')
    <3>1. DOMAIN messages' \in SUBSET DOMAIN messages /\ IsFiniteSet(DOMAIN messages)
      BY <1>6 DEF QueueInv, MsgInv
    <3> QED BY <3>1, FS_Subset
  <2>3. \A c \in batches' : c \cap b = {} /\ c \subseteq DOMAIN messages
    BY DEF QueueInv, MsgInv
  <2>4. \A c \in batches' : c \subseteq DOMAIN messages' /\ \A m \in c : messages'[m] = messages[m]
    BY <1>2, <1>6, <2>3
  <2>5. \A m \in DOMAIN messages' : messages'[m].at = "resend" => m.attempt < MaxAttempts
    BY <1>6 DEF QueueInv, MsgInv
  <2> QED BY <1>2, <1>6, <2>1, <2>2, <2>4, <2>5 DEF QueueInv, MsgInv
<1>9. OnceInv'
  <2>1. CASE faults' = faults /\ \A m \in again : messages[m].at = "retry"
    <3>1. \A m \in DOMAIN messages' :
           /\ messages'[m].tries = messages[m].tries \/ messages[m].at = "retry"
           /\ messages'[m].at = "retry" => messages[m].at = "retry" \/ hook[m.hook] = "deleted"
           /\ messages[m].at = "ack" => messages'[m].at = "ack"
      BY <1>6, <2>1
    <3> QED BY <1>6, <2>1, <3>1, OnceKept DEF QueueInv, producerVars
  <2> QED BY <2>1
<1> QED BY <1>5, <1>8, <1>9 DEF QueueInv

LEMMA BatchesQueue ==
  ASSUME QueueInv, NEW b \in batches, Settles(b) \/ BatchLost(b)
  PROVE  QueueInv'
<1>1. CASE Settles(b)
  <2>1. ToRetry(b) \in SUBSET b /\ \A m \in ToRetry(b) : messages[m].at = "retry"
    BY DEF ToRetry
  <2>2. faults' = faults /\ faults' \in 0 .. MaxTrouble
    BY <1>1 DEF Settles, QueueInv, RestInv
  <2> QED BY <1>1, <2>1, <2>2, SettledQueue DEF Settles
<1>2. CASE BatchLost(b)
  <2>1. OnceInv' /\ faults' \in 0 .. MaxTrouble
    BY <1>2, FaultsCount DEF BatchLost, QueueInv
  <2>2. b \in SUBSET b /\ b \ b = {}
    OBVIOUS
  <2>3. Settlement(b, b \ b)
    BY <1>2, <2>2 DEF BatchLost
  <2> QED BY <1>2, <2>1, <2>3, SettledQueue DEF BatchLost
<1> QED BY <1>1, <1>2

LEMMA InitQueue ==
  ASSUME Init
  PROVE  QueueInv
<1>1. DOMAIN messages = {} /\ messages \in [DOMAIN messages -> Status]
  BY DEF Init
<1>2. IsFiniteSet(DOMAIN messages)
  BY <1>1, FS_EmptySet
<1>3. RestInv
  BY WebhooksAssumption DEF Init, RestInv, HookStates
<1>4. MsgInv
  BY <1>1, <1>2 DEF Init, MsgInv
<1> QED BY <1>1, <1>3, <1>4 DEF QueueInv, OnceInv, Once

LEMMA NextQueue ==
  ASSUME QueueInv, [Next]_vars
  PROVE  QueueInv'
<1>1. CASE Produce
  <2>1. CASE \E h \in Hooks : Create(h) \/ Update(h) \/ Delete(h)
    BY <2>1, HooksQueue
  <2>2. CASE \E e \in Events : ReadsHooks(e) \/ SendsJobs(e) \/ DispatchFails(e)
    BY <2>2, EventsQueue
  <2>3. CASE \E h \in Hooks, e \in Events : Ping(h, e)
    BY <2>3, EventsQueue
  <2>4. CASE \E d \in deliveries : Redeliver(d)
    BY <2>4, RedeliverQueue
  <2> QED BY <1>1, <2>1, <2>2, <2>3, <2>4 DEF Produce
<1>2. CASE Consume
  BY <1>2, TakesQueue, BatchesQueue, DeliversQueue, RecordsQueue, ResendsQueue
     DEF Consume, Take, Settle, Handle
<1>3. CASE \E m \in DOMAIN messages : CallFails(m)
  BY <1>3, CallFailsQueue
<1>4. CASE \E b \in batches : BatchLost(b)
  BY <1>4, BatchesQueue
<1>5. CASE UNCHANGED vars
  BY <1>5 DEF vars, producerVars, QueueInv, RestInv, MsgInv, OnceInv, Once, Job
<1> QED BY <1>1, <1>2, <1>3, <1>4, <1>5 DEF Next

LEMMA QueueHolds == Spec => []QueueInv
BY InitQueue, NextQueue, PTL DEF Spec

\* Adding messages does not count for those that are there.
LEMMA AddedLeaves ==
  ASSUME MsgInv, NEW f, DOMAIN f = DOMAIN messages,
         \A m \in DOMAIN f : f[m].tries = messages[m].tries,
         NEW hooks \in SUBSET Hooks, NEW e, NEW n,
         messages' = f \/ messages' = With(f, Jobs(hooks, e, n))
  PROVE  OwnAccount
<1>1. CASE messages' = f
  BY <1>1 DEF OwnAccount
<1>2. CASE messages' = With(f, Jobs(hooks, e, n))
  <2>1. IsFiniteSet(DOMAIN f)
    BY DEF MsgInv
  <2>2. Adds(f, messages', hooks, e, n)
    BY <1>2, <2>1, WithAdds
  <2> QED BY <2>2 DEF Adds, OwnAccount
<1> QED BY <1>1, <1>2

\* One message moves on, and keeps its number of tries.
LEMMA MovesLeave ==
  ASSUME QueueInv, NEW m \in DOMAIN messages, Delivers(m) \/ Records(m)
  PROVE  OwnAccount
<1>1. PICK s, r : messages' = [messages EXCEPT ![m].at = s, ![m].result = r]
                  \/ messages' = [messages EXCEPT ![m].at = s]
  BY DEF Delivers, Records
<1>2. \A k \in DOMAIN messages : messages'[k].tries = messages[k].tries
  BY <1>1 DEF QueueInv, MsgInv, Status
<1> QED BY <1>2 DEF OwnAccount

LEMMA ProducersLeave ==
  ASSUME QueueInv, Produce
  PROVE  OwnAccount
<1>a. MsgInv
  BY DEF QueueInv
<1>1. CASE \E h \in Hooks : Create(h) \/ Update(h) \/ Delete(h)
  BY <1>1 DEF Create, Update, Delete, OwnAccount
<1>2. CASE \E e \in Events : ReadsHooks(e) \/ SendsJobs(e) \/ DispatchFails(e)
  <2>1. PICK e \in Events : ReadsHooks(e) \/ SendsJobs(e) \/ DispatchFails(e)
    BY <1>2
  <2>2. matching[e] \in SUBSET Hooks
    BY DEF QueueInv, RestInv
  <2>3. messages' = messages \/ messages' = With(messages, Jobs(matching[e], e, 1))
    BY <2>1 DEF ReadsHooks, SendsJobs, DispatchFails
  <2> QED BY <1>a, <2>2, <2>3, AddedLeaves
<1>3. CASE \E h \in Hooks, e \in Events : Ping(h, e)
  <2>1. PICK h \in Hooks, e \in Events : Ping(h, e)
    BY <1>3
  <2>2. {h} \in SUBSET Hooks /\ messages' = With(messages, Jobs({h}, e, 1))
    BY <2>1 DEF Ping
  <2> QED BY <1>a, <2>2, AddedLeaves
<1>4. CASE \E d \in deliveries : Redeliver(d)
  <2>1. PICK d \in deliveries : Redeliver(d)
    BY <1>4
  <2>2. {d.hook} \in SUBSET Hooks /\ messages' = With(messages, Jobs({d.hook}, d.event, 1))
    BY <2>1 DEF Redeliver, QueueInv, RestInv, Delivery
  <2> QED BY <1>a, <2>2, AddedLeaves
<1> QED BY <1>1, <1>2, <1>3, <1>4 DEF Produce

LEMMA ResendsLeave ==
  ASSUME QueueInv, NEW m \in DOMAIN messages, Resends(m) \/ CallFails(m)
  PROVE  OwnAccount
<1>1. CASE Resends(m)
  <2>1. PICK f : f = [messages EXCEPT ![m].at = Resent]
    OBVIOUS
  <2>2. DOMAIN f = DOMAIN messages /\ \A k \in DOMAIN f : f[k].tries = messages[k].tries
    BY <2>1 DEF QueueInv, MsgInv, Status
  <2>3. {m.hook} \in SUBSET Hooks
    BY DEF QueueInv, MsgInv, Message
  <2>4. messages' = With(f, Jobs({m.hook}, m.event, NextAttempt(m)))
    BY <1>1, <2>1 DEF Resends
  <2> QED BY <2>2, <2>3, <2>4, AddedLeaves DEF QueueInv
<1>2. CASE CallFails(m)
  <2>1. faults' = faults + 1
    BY <1>2 DEF CallFails, Fault
  <2>2. faults' # faults
    BY <2>1, WebhooksAssumption DEF QueueInv, RestInv
  <2> QED BY <2>2 DEF OwnAccount
<1> QED BY <1>1, <1>2

\* Only messages that asked for it, or whose batch was lost, are tried again.
LEMMA BatchesLeave ==
  ASSUME QueueInv, Take \/ Settle \/ \E b \in batches : BatchLost(b)
  PROVE  OwnAccount
<1>1. CASE Take
  <2>1. PICK b : TakesBatch(b)
    BY <1>1 DEF Take
  <2>2. \A k \in DOMAIN messages : messages[k] \in Status
    BY DEF QueueInv, MsgInv
  <2>3. \A k \in DOMAIN messages : messages'[k].tries = messages[k].tries
    BY <2>1, <2>2 DEF TakesBatch, Status
  <2> QED BY <2>3 DEF OwnAccount
<1>2. CASE Settle
  <2>1. PICK b \in batches : Settles(b)
    BY <1>2 DEF Settle
  <2>2. \A k \in DOMAIN messages \cap DOMAIN messages' :
          k \notin ToRetry(b) => messages'[k] = messages[k]
    BY <2>1 DEF Settles, Settlement
  <2> QED BY <2>2 DEF ToRetry, OwnAccount
<1>3. CASE \E b \in batches : BatchLost(b)
  <2>1. faults' = faults + 1
    BY <1>3 DEF BatchLost, Fault
  <2>2. faults' # faults
    BY <2>1, WebhooksAssumption DEF QueueInv, RestInv
  <2> QED BY <2>2 DEF OwnAccount
<1> QED BY <1>1, <1>2, <1>3

LEMMA StepKeepsAccount ==
  ASSUME QueueInv, [Next]_vars
  PROVE  [OwnAccount]_vars
<1>1. CASE Produce
  BY <1>1, ProducersLeave
<1>2. CASE Consume
  BY <1>2, MovesLeave, ResendsLeave, BatchesLeave DEF Consume, Handle
<1>3. CASE \E m \in DOMAIN messages : CallFails(m)
  BY <1>3, ResendsLeave
<1>4. CASE \E b \in batches : BatchLost(b)
  BY <1>4, BatchesLeave
<1> QED BY <1>1, <1>2, <1>3, <1>4 DEF Next

-----------------------------------------------------------------------------
(***************************************************************************)
(* The results.                                                            *)
(***************************************************************************)

\* A job that dispatchEvent or pingWebhook has sent is carried by a message until
\* it is settled or its hook is deleted, whatever fails in between; and deliver lets
\* a message go only once recordDelivery has stored what came of it.
THEOREM JobsAreNotLost == Spec => []NothingLost
<1>1. IInv => StillCarried
  BY DEF IInv, PendingInv, StillCarried, Carried
<1>2. IInv => AckedIsRecorded
  BY DEF IInv, RecordedInv, AckedIsRecorded
<1>3. IInv => NothingLost
  BY <1>1, <1>2 DEF NothingLost
<1> QED
  BY <1>3, Invariant, PTL

\* Everything has its type: a retry never goes past the queue's limit, nor an
\* attempt past MAX_ATTEMPTS, and a batch holds only messages that are there.
THEOREM WebhooksAreTyped == Spec => []TypeOK
<1>1. QueueInv => TypeOK
  BY DEF QueueInv, RestInv, MsgInv, TypeOK
<1> QED BY <1>1, QueueHolds, PTL

\* Without a fault or a redelivery each attempt of a job is one message, handled
\* once (deliver.ts sends the next attempt only after it has recorded this one),
\* and the queue handler has a message delivered again on its own account only.
THEOREM RepeatsAreCaused == Spec => RepeatsHaveACause
<1>1. QueueInv => OneMessagePerAttempt
  BY DEF QueueInv, OnceInv, Once, OneMessagePerAttempt
<1>2. QueueInv /\ [Next]_vars => [OwnAccount]_vars
  BY StepKeepsAccount
<1> QED BY <1>1, <1>2, QueueHolds, PTL DEF Spec, RepeatsHaveACause
=============================================================================
