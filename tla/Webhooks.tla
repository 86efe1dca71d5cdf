------------------------------ MODULE Webhooks ------------------------------
(***************************************************************************)
(* Webhook deliveries: emit and dispatchEvent put a job for each hook on a *)
(* queue, deliver makes a request, records it and sends the job again with *)
(* the next attempt, and the queue handler settles each message of its     *)
(* batch.                                                                  *)
(*                                                                         *)
(* The queue delivers at least once.  An isolate that goes takes the       *)
(* settlements of its batch with it, and a call to D1 or to the queue may  *)
(* fail before or after it took effect.  Payloads and signatures are left  *)
(* out.                                                                    *)
(***************************************************************************)
EXTENDS Naturals, FiniteSets

CONSTANTS
  Hooks,
  Events,        \* occasions for a delivery: what is emitted, and pings
  MaxAttempts,   \* MAX_ATTEMPTS
  MaxRetries,    \* max_retries of the consumer in wrangler.jsonc
  BatchSize,     \* max_batch_size of the consumer
  MaxBatches,    \* bound: calls of the handler at once
  MaxTrouble     \* bound: calls that fail, isolates that go, edits of hooks and
                 \* redeliveries, taken together

ASSUME WebhooksAssumption ==
  /\ IsFiniteSet(Hooks)
  /\ MaxAttempts \in Nat \ {0}
  /\ BatchSize \in Nat \ {0}
  /\ {MaxRetries, MaxBatches, MaxTrouble} \subseteq Nat

VARIABLES
  hook,         \* webhooks: active and subscribed, active for other events, disabled
  dispatch,     \* event -> where its dispatchEvent stands
  matching,     \* event -> the hooks it is for
  messages,     \* the queue: message -> retries so far, and where it stands
  batches,      \* sets of messages that one call of the handler settles
  deliveries,   \* webhook_deliveries
  dropped,      \* jobs found with their hook off, or given up by the queue
  faults, edits, redeliveries

producerVars == <<hook, dispatch, matching, edits, redeliveries>>
vars == <<producerVars, messages, batches, deliveries, dropped, faults>>

HookStates == {"none", "on", "other", "off", "deleted"}
Stages == {"queued", "deliver", "record", "resend", "ack", "retry"}

\* Messages for the same attempt of a job are told apart by a number.
Message == [hook : Hooks, event : Events, attempt : 1 .. MaxAttempts, copy : Nat]
Status == [tries : 0 .. MaxRetries, at : Stages, result : {"none", "ok", "failed", "off"}]
Delivery == [hook : Hooks, event : Events, attempt : 1 .. MaxAttempts, ok : BOOLEAN]

TypeOK ==
  /\ hook \in [Hooks -> HookStates]
  /\ dispatch \in [Events -> {"idle", "sending", "done", "failed"}]
  /\ matching \in [Events -> SUBSET Hooks]
  /\ DOMAIN messages \subseteq Message
  /\ \A m \in DOMAIN messages : messages[m] \in Status
  /\ batches \subseteq SUBSET DOMAIN messages
  /\ deliveries \subseteq Delivery
  /\ dropped \subseteq Hooks \X Events
  /\ {faults, edits, redeliveries} \subseteq 0 .. MaxTrouble

Waiting == [tries |-> 0, at |-> "queued", result |-> "none"]

Init ==
  /\ hook \in [Hooks -> {"none", "on"}]
  /\ dispatch = [e \in Events |-> "idle"]
  /\ matching = [e \in Events |-> {}]
  /\ messages = [m \in {} |-> Waiting]
  /\ batches = {}
  /\ deliveries = {}
  /\ dropped = {}
  /\ faults = 0
  /\ edits = 0
  /\ redeliveries = 0

Exists(h) == hook[h] \notin {"none", "deleted"}
Trouble == faults + edits + redeliveries
Fault == Trouble < MaxTrouble /\ faults' = faults + 1

-----------------------------------------------------------------------------
(***************************************************************************)
(* Messages and the producers.                                             *)
(***************************************************************************)

Jobs(hooks, e, n) == [hook : hooks, event : {e}, attempt : {n}]

\* f with a message more for each of jobs.
Fresh(f, j) ==
  LET id(c) == [hook |-> j.hook, event |-> j.event, attempt |-> j.attempt, copy |-> c]
  IN  id(CHOOSE c \in 0 .. Cardinality(DOMAIN f) :
           id(c) \notin DOMAIN f /\ \A d \in 0 .. c - 1 : id(d) \in DOMAIN f)
With(f, jobs) ==
  LET new == {Fresh(f, j) : j \in jobs}
  IN  [m \in DOMAIN f \cup new |-> IF m \in new THEN Waiting ELSE f[m]]

\* createWebhook.
Create(h) ==
  /\ hook[h] = "none"
  /\ \E s \in {"on", "other", "off"} : hook' = [hook EXCEPT ![h] = s]
  /\ UNCHANGED <<dispatch, matching, edits, redeliveries, messages, batches, deliveries, dropped, faults>>

\* updateWebhook: active, or the events it subscribes to.
Update(h) ==
  /\ Trouble < MaxTrouble
  /\ Exists(h)
  /\ \E s \in {"on", "other", "off"} \ {hook[h]} : hook' = [hook EXCEPT ![h] = s]
  /\ edits' = edits + 1
  /\ UNCHANGED <<dispatch, matching, redeliveries, messages, batches, deliveries, dropped, faults>>

\* deleteWebhook; its deliveries go with it.
Delete(h) ==
  /\ Trouble < MaxTrouble
  /\ Exists(h)
  /\ hook' = [hook EXCEPT ![h] = "deleted"]
  /\ deliveries' = {d \in deliveries : d.hook # h}
  /\ edits' = edits + 1
  /\ UNCHANGED <<dispatch, matching, redeliveries, messages, batches, dropped, faults>>

\* emit, whose end nobody waits for, has dispatchEvent look for hooks that are
\* active and subscribe to the event.
ReadsHooks(e) ==
  /\ dispatch[e] = "idle"
  /\ LET found == {h \in Hooks : hook[h] = "on"} IN
       /\ matching' = [matching EXCEPT ![e] = found]
       /\ dispatch' = [dispatch EXCEPT ![e] = IF found = {} THEN "done" ELSE "sending"]
  /\ UNCHANGED <<hook, edits, redeliveries, messages, batches, deliveries, dropped, faults>>

SendsJobs(e) ==
  /\ dispatch[e] = "sending"
  /\ messages' = With(messages, Jobs(matching[e], e, 1))
  /\ dispatch' = [dispatch EXCEPT ![e] = "done"]
  /\ UNCHANGED <<hook, matching, edits, redeliveries, batches, deliveries, dropped, faults>>

\* The query or sendBatch fails, or only its answer is lost: logged and forgotten.
DispatchFails(e) ==
  /\ dispatch[e] \in {"idle", "sending"}
  /\ Fault
  /\ dispatch' = [dispatch EXCEPT ![e] = "failed"]
  /\ \/ UNCHANGED messages
     \/ dispatch[e] = "sending" /\ messages' = With(messages, Jobs(matching[e], e, 1))
  /\ UNCHANGED <<hook, matching, edits, redeliveries, batches, deliveries, dropped>>

\* pingWebhook asks for no state but existence.
Ping(h, e) ==
  /\ dispatch[e] = "idle"
  /\ Exists(h)
  /\ matching' = [matching EXCEPT ![e] = {h}]
  /\ dispatch' = [dispatch EXCEPT ![e] = "done"]
  /\ messages' = With(messages, Jobs({h}, e, 1))
  /\ UNCHANGED <<hook, edits, redeliveries, batches, deliveries, dropped, faults>>

\* redeliver starts over with the job of a delivery.
Redeliver(d) ==
  /\ Trouble < MaxTrouble
  /\ redeliveries' = redeliveries + 1
  /\ messages' = With(messages, Jobs({d.hook}, d.event, 1))
  /\ UNCHANGED <<hook, dispatch, matching, edits, batches, deliveries, dropped, faults>>

-----------------------------------------------------------------------------
(***************************************************************************)
(* deliver, for message m of a batch.                                      *)
(***************************************************************************)

At(m, stage) == m \in DOMAIN messages /\ messages[m].at = stage
Job(m) == <<m.hook, m.event>>

\* The hook may have been deleted or disabled since.  If not, the endpoint answers
\* well, or it does not, or not in time.
Delivers(m) ==
  /\ At(m, "deliver")
  /\ IF hook[m.hook] \in {"on", "other"}
     THEN /\ \E r \in {"ok", "failed"} :
               messages' = [messages EXCEPT ![m].at = "record", ![m].result = r]
          /\ UNCHANGED dropped
     ELSE /\ messages' = [messages EXCEPT ![m].at = "ack", ![m].result = "off"]
          /\ dropped' = dropped \cup {Job(m)}
  /\ UNCHANGED <<producerVars, batches, deliveries, faults>>

Row(m) == [hook |-> m.hook, event |-> m.event, attempt |-> m.attempt,
           ok |-> messages[m].result = "ok"]

MutantExhausted(m) == m.attempt > MaxAttempts

Exhausted(m) == m.attempt >= MaxAttempts

MutantRejected == "ack"

\* What the queue handler does with an error of deliver.
Rejected == "retry"

\* recordDelivery.  The row refers to its hook, which must still be there.
Records(m) ==
  /\ At(m, "record")
  /\ IF hook[m.hook] = "deleted"
     THEN /\ messages' = [messages EXCEPT ![m].at = Rejected]
          /\ UNCHANGED deliveries
     ELSE /\ messages' = [messages EXCEPT ![m].at =
               IF messages[m].result = "ok" \/ Exhausted(m) THEN "ack" ELSE "resend"]
          /\ deliveries' = deliveries \cup {Row(m)}
  /\ UNCHANGED <<producerVars, batches, dropped, faults>>

MutantNextAttempt(m) == m.attempt

NextAttempt(m) == m.attempt + 1

\* The message was dealt with: the next attempt is a message of its own.
Resent == "ack"

Resends(m) ==
  /\ At(m, "resend")
  /\ messages' = With([messages EXCEPT ![m].at = Resent], Jobs({m.hook}, m.event, NextAttempt(m)))
  /\ UNCHANGED <<producerVars, batches, deliveries, dropped, faults>>

\* A query, the insertion or the send fails, and may have taken effect.
CallFails(m) ==
  /\ Fault
  /\ LET failed == [messages EXCEPT ![m].at = Rejected] IN
       \/ /\ At(m, "deliver") \/ At(m, "record") \/ At(m, "resend")
          /\ messages' = failed
          /\ UNCHANGED deliveries
       \/ /\ At(m, "record")
          /\ hook[m.hook] # "deleted"
          /\ messages' = failed
          /\ deliveries' = deliveries \cup {Row(m)}
       \/ /\ At(m, "resend")
          /\ messages' = With(failed, Jobs({m.hook}, m.event, NextAttempt(m)))
          /\ UNCHANGED deliveries
  /\ UNCHANGED <<producerVars, batches, dropped>>

-----------------------------------------------------------------------------
(***************************************************************************)
(* The queue.                                                              *)
(***************************************************************************)

\* A call of the handler with some of the messages that wait.
TakesBatch(b) ==
  /\ b # {}
  /\ Cardinality(b) <= BatchSize
  /\ Cardinality(batches) < MaxBatches
  /\ batches' = batches \cup {b}
  /\ messages' = [m \in DOMAIN messages |->
       IF m \in b THEN [messages[m] EXCEPT !.at = "deliver", !.result = "none"] ELSE messages[m]]
  /\ UNCHANGED <<producerVars, deliveries, dropped, faults>>

\* The messages of again go back to the queue, or, tried too often, to one nobody
\* reads; those of acked are done with.
Settlement(again, acked) ==
  LET dead == {m \in again : messages[m].tries = MaxRetries} IN
    /\ messages' = [m \in DOMAIN messages \ (acked \cup dead) |->
         IF m \in again
         THEN [tries |-> messages[m].tries + 1, at |-> "queued", result |-> "none"]
         ELSE messages[m]]
    /\ dropped' = dropped \cup {Job(m) : m \in dead}

MutantToRetry(b) == IF \E m \in b : messages[m].at = "retry" THEN b ELSE {}

\* Messages are settled one by one.
ToRetry(b) == {m \in b : messages[m].at = "retry"}

\* The handler returns, and its settlements reach the queue.
Settles(b) ==
  /\ \A m \in b : messages[m].at \in {"ack", "retry"}
  /\ batches' = batches \ {b}
  /\ Settlement(ToRetry(b), b \ ToRetry(b))
  /\ UNCHANGED <<producerVars, deliveries, faults>>

\* The isolate goes before that.
BatchLost(b) ==
  /\ Fault
  /\ batches' = batches \ {b}
  /\ Settlement(b, {})
  /\ UNCHANGED <<producerVars, deliveries>>

-----------------------------------------------------------------------------
Produce ==
  \/ \E h \in Hooks : Create(h) \/ Update(h) \/ Delete(h)
  \/ \E e \in Events : ReadsHooks(e) \/ SendsJobs(e) \/ DispatchFails(e)
  \/ \E h \in Hooks, e \in Events : Ping(h, e)
  \/ \E d \in deliveries : Redeliver(d)

Take == \E b \in SUBSET {m \in DOMAIN messages : messages[m].at = "queued"} : TakesBatch(b)
Handle(m) == Delivers(m) \/ Records(m) \/ Resends(m)
Settle == \E b \in batches : Settles(b)
Consume == Take \/ Settle \/ \E m \in DOMAIN messages : Handle(m)

Next ==
  \/ Produce
  \/ Consume
  \/ \E m \in DOMAIN messages : CallFails(m)
  \/ \E b \in batches : BatchLost(b)

Spec == Init /\ [][Next]_vars

\* The queue keeps delivering, and the handler's requests end: TIMEOUT_MS.
FairSpec == Spec /\ WF_vars(Consume)

-----------------------------------------------------------------------------
(***************************************************************************)
(* What a subscriber may rely on.                                          *)
(***************************************************************************)

\* A job that was sent is never lost.  Unless its hook is deleted, a message still
\* carries it, or it was delivered or tried for the last time and that is on
\* record, or its hook was found disabled, or the queue itself gave it up.
Sent == {j \in Hooks \X Events : dispatch[j[2]] = "done" /\ j[1] \in matching[j[2]]}
Settled(j) ==
  \/ \E d \in deliveries : Job(d) = j /\ (d.ok \/ d.attempt >= MaxAttempts)
  \/ j \in dropped
StillCarried ==
  \A j \in Sent : hook[j[1]] # "deleted" =>
    Settled(j) \/ \E m \in DOMAIN messages : Job(m) = j

\* No request goes unseen: a message is let go only with its delivery on record.
AckedIsRecorded ==
  \A m \in DOMAIN messages :
    messages[m].at = "ack" /\ messages[m].result # "off" /\ hook[m.hook] # "deleted" =>
      Row(m) \in deliveries

\* Neither a job nor the record of a request is lost.
NothingLost == StillCarried /\ AckedIsRecorded

\* Without a fault or somebody's redelivery, each attempt of a job is one message,
\* and it is handled once.  (A hook deleted while its endpoint answers costs a
\* retry: there is no row for the delivery to refer to.)
OneMessagePerAttempt ==
  faults = 0 /\ redeliveries = 0 =>
    \A m \in DOMAIN messages :
      m.copy = 0 /\ (messages[m].tries = 0 \/ hook[m.hook] = "deleted")

\* server.ts on its queue handler: "one dead endpoint in a batch must not force the
\* whole batch to be redelivered".  A message is delivered again on its own account,
\* or because the isolate went.
OwnAccount ==
  \A m \in DOMAIN messages \cap DOMAIN messages' :
    messages'[m].tries # messages[m].tries => messages[m].at = "retry" \/ faults' # faults

\* Nothing is sent or delivered twice without such a cause.
RepeatsHaveACause == []OneMessagePerAttempt /\ [][OwnAccount]_vars

\* However many attempts fail and whatever becomes of the hooks, the queue runs
\* empty: every message that is sent is done with in the end.
QueueDrains == <>[](DOMAIN messages = {})
=============================================================================
