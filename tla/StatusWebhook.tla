---------------------------- MODULE StatusWebhook ----------------------------
(***************************************************************************)
(* Status notifications (status_webhook.go, open_api_extended.go,          *)
(* recordSendAudit): audit events of the send queue and delivery events    *)
(* that providers call back with are stored together with a row of         *)
(* status_webhook_outbox, and a worker posts the rows to the subscriber.   *)
(*                                                                         *)
(* Each send has a mailbox of its own here.  Events name their send by     *)
(* queueId.  The URL of the subscriber is configured.                      *)
(***************************************************************************)
EXTENDS Naturals, FiniteSets, Sequences

CONSTANTS
    Audits,      \* calls of recordSendAudit
    Callbacks,   \* delivery events, by provider and external id
    Sends,       \* rows of send_queue
    SendOf,      \* the send an event is about
    MaxAttempts, \* statusWebhookMaxAttempts
    BatchLimit,  \* LIMIT 20 of the worker's SELECT
    NoEvent,
    MaxFaults    \* bound of the model: crashes, lost answers and failed updates

Events == Audits \cup Callbacks

ASSUME EventsAssumption  == Audits \cap Callbacks = {} /\ NoEvent \notin Events
ASSUME SendOfAssumption  == SendOf \in [Events -> Sends]
ASSUME NumbersAssumption == MaxAttempts \in Nat \ {0} /\ BatchLimit \in Nat \ {0} /\ MaxFaults \in Nat

VARIABLES
    sends,   \* rows of send_queue that exist
    boxes,   \* sends whose mailbox exists
    stored,  \* events in send_audit_events or delivery_events
    note,    \* per event its outbox row: none, waiting, or delivered (delivered_at is set)
    tries,   \* column attempt_count
    due,     \* waiting rows whose next_attempt_at has come, in that order
    batch,   \* rows the worker has read and not handled
    step,    \* what the worker does next
    held,    \* the row it is posting
    faults,
    times,   \* ghost: how often an outbox row was inserted for the event
    posts,   \* ghost: requests sent to the subscriber
    accepts, \* ghost: requests the subscriber accepted
    lost     \* ghost: how often the outcome of a request was lost

history == <<times, posts, accepts, lost>>
tables  == <<sends, boxes, stored, note, tries, due>>
worker  == <<batch, step, held>>
vars    == <<tables, worker, faults, history>>

Steps == {"idle", "select", "next", "post", "failed", "accepted"}
Zero  == [e \in Events |-> 0]
Inc(f, e) == [f EXCEPT ![e] = @ + 1]

Init ==
    /\ sends = Sends /\ boxes = Sends /\ stored = {}
    /\ note = [e \in Events |-> "none"] /\ tries = Zero /\ due = << >>
    /\ batch = {} /\ step = "idle" /\ held = NoEvent
    /\ faults = 0
    /\ times = Zero /\ posts = Zero /\ accepts = Zero /\ lost = Zero

Fault == faults < MaxFaults /\ faults' = faults + 1

At(s)   == step = s
GoTo(s) == step' = s
Without(q, S) == SelectSeq(q, LAMBDA e : e \notin S)

\* delivered_at IS NULL AND attempt_count < statusWebhookMaxAttempts.
Waiting(e) == note[e] = "waiting" /\ tries[e] < MaxAttempts

------------------------------------------------------------------------------
(* Events are stored. *)

\* enqueueStatusWebhook for each event of a sequence: INSERT OR IGNORE by event_key, due at once.
Enqueue(q) ==
    LET new == {q[i] : i \in DOMAIN q} IN
    /\ note'  = [e \in Events |-> IF e \in new /\ note[e] = "none" THEN "waiting" ELSE note[e]]
    /\ times' = [e \in Events |-> IF e \in new /\ note[e] = "none" THEN times[e] + 1 ELSE times[e]]
    /\ due'   = due \o SelectSeq(q, LAMBDA e : note[e] = "none")
    /\ stored' = stored \cup new
    /\ UNCHANGED <<sends, boxes, tries, worker, faults, posts, accepts, lost>>

\* recordSendAudit: audit row and outbox row in one transaction, also for a send whose
\* mailbox was deleted meanwhile.
Audit(e) == e \in Audits \ stored /\ Enqueue(<<e>>)

Orders(S) == {q \in [1..Cardinality(S) -> S] : \A e \in S : \E i \in DOMAIN q : q[i] = e}

\* Bug: every event of the request is passed on, a known one too.
CallbackAgain(events) ==
    /\ events # {} /\ \A e \in events : SendOf[e] \in sends
    /\ note' = [e \in Events |-> IF e \in events THEN "waiting" ELSE note[e]]
    /\ times' = [e \in Events |-> IF e \in events THEN times[e] + 1 ELSE times[e]]
    /\ \E q \in Orders(events) : due' = Without(due, events) \o q
    /\ stored' = stored \cup events
    /\ UNCHANGED <<sends, boxes, tries, worker, faults, posts, accepts, lost>>

\* handleOpenAPIDeliveryWebhook: all events of a request in one transaction.  A send that is
\* not found refuses the request; an event that is known is not passed on again.
Callback(events) ==
    /\ events # {} /\ \A e \in events : SendOf[e] \in sends
    /\ \E q \in Orders(events \ stored) : Enqueue(q)

\* An administrator deletes the queue row; a trigger deletes its delivery events.
DeleteSend(s) ==
    /\ s \in sends
    /\ sends' = sends \ {s}
    /\ stored' = {e \in stored : e \in Audits \/ SendOf[e] # s}
    /\ UNCHANGED <<boxes, note, tries, due, worker, faults, history>>

\* A mailbox is deleted, its queue rows with it; triggers delete their delivery events and
\* the mailbox's outbox rows.
DeleteMailbox(s) ==
    /\ s \in boxes
    /\ boxes' = boxes \ {s} /\ sends' = sends \ {s}
    /\ stored' = {e \in stored : e \in Audits \/ SendOf[e] # s}
    /\ note' = [e \in Events |-> IF SendOf[e] = s THEN "none" ELSE note[e]]
    /\ due' = Without(due, {e \in Events : SendOf[e] = s})
    /\ UNCHANGED <<tries, worker, faults, history>>

------------------------------------------------------------------------------
(* The worker: processDueStatusWebhooks. *)

\* Bug: what is old is deleted, whether it was delivered or not.
PurgeAll ==
    /\ At("idle") /\ GoTo("select")
    /\ \E old \in SUBSET {e \in Events : note[e] # "none"} :
         /\ note' = [e \in Events |-> IF e \in old THEN "none" ELSE note[e]]
         /\ due' = Without(due, old)
    /\ UNCHANGED <<sends, boxes, stored, tries, batch, held, faults, history>>

\* Rows that were delivered or exhausted, and are 30 days old, are deleted.
Purge ==
    /\ At("idle") /\ GoTo("select")
    /\ \E old \in SUBSET {e \in Events : note[e] = "delivered" \/ tries[e] = MaxAttempts} :
         note' = [e \in Events |-> IF e \in old THEN "none" ELSE note[e]]
    /\ UNCHANGED <<sends, boxes, stored, tries, due, batch, held, faults, history>>

\* The SELECT: rows that wait, the longest due first.
Select ==
    /\ At("select") /\ GoTo("next")
    /\ batch' = {e \in Events : Waiting(e) /\ \E i \in DOMAIN due : i <= BatchLimit /\ due[i] = e}
    /\ UNCHANGED <<tables, held, faults, history>>

Take(e) ==
    /\ At("next") /\ e \in batch
    /\ batch' = batch \ {e}
    /\ GoTo("post") /\ held' = e
    /\ UNCHANGED <<tables, faults, history>>

\* deliverStatusWebhook: the subscriber answers 2xx, ...
Accepted ==
    /\ At("post") /\ GoTo("accepted")
    /\ posts' = Inc(posts, held) /\ accepts' = Inc(accepts, held)
    /\ UNCHANGED <<tables, batch, held, faults, times, lost>>

\* ... it answers something else, or nothing, ...
Refused ==
    /\ At("post") /\ GoTo("failed")
    /\ posts' = Inc(posts, held)
    /\ UNCHANGED <<tables, batch, held, faults, times, accepts, lost>>

\* ... or it accepts and the answer does not arrive.
AnswerLost ==
    /\ At("post") /\ Fault /\ GoTo("failed")
    /\ posts' = Inc(posts, held) /\ accepts' = Inc(accepts, held) /\ lost' = Inc(lost, held)
    /\ UNCHANGED <<tables, batch, held, times>>

Handled == GoTo("next") /\ held' = NoEvent

\* Bug: the UPDATE after a success has no effect.
RecordSuccessNever ==
    /\ At("accepted") /\ Handled
    /\ UNCHANGED <<tables, batch, faults, history>>

\* Bug: a success is counted when it is posted and when it is recorded.
RecordSuccessTwice ==
    /\ At("accepted") /\ Handled
    /\ IF note[held] = "waiting"
       THEN /\ note' = [note EXCEPT ![held] = "delivered"]
            /\ tries' = [tries EXCEPT ![held] = @ + 2]
            /\ due' = Without(due, {held})
       ELSE UNCHANGED <<note, tries, due>>
    /\ UNCHANGED <<sends, boxes, stored, batch, faults, history>>

\* UPDATE ... SET delivered_at WHERE id=? AND delivered_at IS NULL.
RecordSuccess ==
    /\ At("accepted") /\ Handled
    /\ IF note[held] = "waiting"
       THEN /\ note' = [note EXCEPT ![held] = "delivered"]
            /\ tries' = Inc(tries, held)
            /\ due' = Without(due, {held})
       ELSE UNCHANGED <<note, tries, due>>
    /\ UNCHANGED <<sends, boxes, stored, batch, faults, history>>

\* Bug: a failed row keeps its place at the head, also when it is exhausted.
RecordFailureInPlace ==
    /\ At("failed") /\ Handled
    /\ tries' = IF note[held] = "waiting" THEN Inc(tries, held) ELSE tries
    /\ UNCHANGED <<sends, boxes, stored, note, due, batch, faults, history>>

\* UPDATE ... SET attempt_count=attempt_count+1, next_attempt_at=? WHERE delivered_at IS NULL.
RecordFailure ==
    /\ At("failed") /\ Handled
    /\ IF note[held] = "waiting"
       THEN tries' = Inc(tries, held) /\ due' = Without(due, {held})
       ELSE UNCHANGED <<tries, due>>
    /\ UNCHANGED <<sends, boxes, stored, note, batch, faults, history>>

\* The error of either UPDATE is ignored.
RecordFails ==
    /\ At("accepted") \/ At("failed")
    /\ Fault /\ Handled
    /\ lost' = Inc(lost, held)
    /\ UNCHANGED <<tables, batch, times, posts, accepts>>

EndPass ==
    /\ At("next") /\ batch = {}
    /\ GoTo("idle")
    /\ UNCHANGED <<tables, batch, held, faults, history>>

------------------------------------------------------------------------------

\* next_attempt_at comes.
RetryTime(e) ==
    /\ Waiting(e) /\ \A i \in DOMAIN due : due[i] # e
    /\ due' = Append(due, e)
    /\ UNCHANGED <<sends, boxes, stored, note, tries, worker, faults, history>>

Crash ==
    /\ Fault
    /\ GoTo("idle") /\ held' = NoEvent /\ batch' = {}
    /\ lost' = IF At("accepted") \/ At("failed") THEN Inc(lost, held) ELSE lost
    /\ UNCHANGED <<tables, times, posts, accepts>>

WorkerStep == \/ Purge \/ Select \/ EndPass \/ (\E e \in Events : Take(e))
              \/ Accepted \/ Refused \/ RecordSuccess \/ RecordFailure

Next ==
    \/ WorkerStep \/ AnswerLost \/ RecordFails \/ Crash
    \/ \E e \in Events : Audit(e) \/ RetryTime(e)
    \/ \E events \in SUBSET Callbacks : Callback(events)
    \/ \E s \in Sends : DeleteSend(s) \/ DeleteMailbox(s)

Spec == Init /\ [][Next]_vars

\* The ticker of the worker fires every ten seconds, a request ends after ten seconds at the
\* latest, and the time of a retry comes.
FairSpec == Spec /\ WF_vars(WorkerStep) /\ \A e \in Events : WF_vars(RetryTime(e))

------------------------------------------------------------------------------
(* Properties. *)

TypeOK ==
    /\ boxes \subseteq Sends /\ sends \subseteq boxes /\ stored \subseteq Events
    /\ note \in [Events -> {"none", "waiting", "delivered"}]
    /\ tries \in [Events -> 0..MaxAttempts]
    /\ batch \subseteq Events /\ step \in Steps /\ held \in Events \cup {NoEvent}
    /\ (held = NoEvent) <=> (step \in {"idle", "select", "next"})
    /\ faults \in Nat
    /\ times \in [Events -> Nat] /\ posts \in [Events -> Nat]
    /\ accepts \in [Events -> Nat] /\ lost \in [Events -> Nat]

\* An event gets one outbox row in its life, however often providers repeat their callbacks
\* and whatever was purged or deleted in between (docs/API.md: "idempotent").
NotifiedOnce == \A e \in Events : times[e] <= 1

\* The subscriber is asked MaxAttempts times at the most, once more for every outcome that
\* was lost (docs/API.md: "retried with backoff up to 10 attempts").
AttemptsBounded == \A e \in Events : posts[e] <= MaxAttempts + lost[e]

\* A subscriber that accepts an event sees it again only if the outcome was lost.
AcceptedOnce == \A e \in Events : accepts[e] <= 1 + lost[e]

\* An outbox row disappears only when the subscriber has it, when the attempts are used up,
\* or with the mailbox.
NothingDropped ==
    \A e \in Events : times[e] > 0 /\ note[e] = "none" =>
        accepts[e] > 0 \/ tries[e] = MaxAttempts \/ SendOf[e] \notin boxes

\* The subscriber hears of an event once: one row is made of it, posted anew after it was
\* accepted only when the outcome was lost, and not given up before its time.
HeardOnce == NotifiedOnce /\ AcceptedOnce /\ NothingDropped

\* A waiting row is delivered, exhausted or deleted in the end, however many others are due.
EveryNoteSettled == \A e \in Events : Waiting(e) ~> ~Waiting(e)
==============================================================================
