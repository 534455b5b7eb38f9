------------------------------ MODULE SendQueue ------------------------------
(***************************************************************************)
(* The outbound SMTP queue of the API (send_queue.go) together with every  *)
(* handler that changes a row of table send_queue.                         *)
(*                                                                         *)
(* Three kinds of actors interleave between the statements of one SQLite   *)
(* connection: the single sendQueueWorker loop, the goroutines it starts   *)
(* for one batch, and HTTP/submission handlers (Requests).  A marker file  *)
(* per row id records that the SMTP server took the mail; it is outside    *)
(* the database, so a crash can fall between the two.                      *)
(*                                                                         *)
(* Times are abstracted to what the code compares: "due" stands for        *)
(* next_attempt_at <= now and "stale" for updated_at older than            *)
(* sendQueueStaleAfter (15 minutes).  An item is one row id; ids are never *)
(* reused, so a deleted item stays deleted.                                *)
(***************************************************************************)
EXTENDS Naturals, FiniteSets

CONSTANTS
    Items,        \* row ids of send_queue
    Requests,     \* concurrently running handlers that have a step after their UPDATE
    MaxAttempts,  \* column max_attempts, 5 by default
    BatchLimit,   \* LIMIT 20 of the two SELECTs of a pass
    Concurrency,  \* sendQueueConcurrency
    MaxFaults     \* bound of the model: crashes and failed calls in one behaviour

ASSUME ItemsAssumption       == IsFiniteSet(Items)
ASSUME MaxAttemptsAssumption == MaxAttempts \in Nat \ {0}
ASSUME BatchLimitAssumption  == BatchLimit \in Nat \ {0}
ASSUME ConcurrencyAssumption == Concurrency \in Nat \ {0}
ASSUME MaxFaultsAssumption   == MaxFaults \in Nat

VARIABLES
    status,    \* column status; "none" before the INSERT, "deleted" after the DELETE
    attempts,  \* column attempt_count
    due,       \* rows with next_attempt_at <= now
    stale,     \* rows with updated_at <= now - sendQueueStaleAfter
    marker,    \* rows that have a file in send_queue_delivered/
    loop,      \* where the worker loop is: between ticks, recovering, waiting for a batch
    todo,      \* rows the recovery scan has read and not handled yet
    worker,    \* per row: the step its goroutine is about to take
    req,       \* per handler: the step it is about to take
    faults,    \* crashes and failed calls so far
    accepted,  \* ghost: copies the SMTP server took since the row was last put in the queue
    lost       \* ghost: rows whose proof of acceptance did not reach the disk, or left it

rows    == <<status, attempts, due, stale>>
control == <<loop, todo, worker, req, faults>>
ghosts  == <<accepted, lost>>
vars    == <<status, attempts, due, stale, marker, loop, todo, worker, req, faults, accepted, lost>>

Status == {"none", "queued", "sending", "delivered", "failed", "canceled", "deleted"}
Phase  == {"none", "picked", "sending", "rejected", "accepted", "marked", "delivered"}
Idle   == [pc |-> "idle"]
Handler == [pc : {"update"}, item : Items, saw : {"delivered", "canceled", "failed"}]
             \cup [pc : {"drop"}, item : Items] \cup {Idle}

Exists(i) == status[i] \notin {"none", "deleted"}

\* Bug: the claim forgets attempt_count < max_attempts.
ClaimableWithoutLimit(i) == status[i] \in {"queued", "failed"} /\ i \in due

\* Bug: a failed row is not picked up again.
ClaimableQueuedOnly(i) == status[i] = "queued" /\ i \in due

\* Rows claimSendQueueItem may take: the WHERE clause of its UPDATE.
Claimable(i) == /\ status[i] = "queued" \/ (status[i] = "failed" /\ attempts[i] < MaxAttempts)
                /\ i \in due

\* Bug: the scan takes a last attempt too.
AbandonedWithoutLimit(i) == status[i] = "sending" /\ i \in stale

\* Rows the recovery scan selects: an attempt that stopped 15 minutes ago and was not the last.
Abandoned(i) == status[i] = "sending" /\ i \in stale /\ attempts[i] < MaxAttempts

\* The rows a SELECT ... LIMIT BatchLimit may return out of S.
Limited(S) == {T \in SUBSET S : \/ Cardinality(T) = BatchLimit
                                \/ T = S /\ Cardinality(S) <= BatchLimit}

Running == {i \in Items : worker[i] \notin {"none", "picked"}}

\* A crash, an I/O error or a failed statement, of which a behaviour has at most MaxFaults.
Fault == faults < MaxFaults /\ faults' = faults + 1

Init ==
    /\ status = [i \in Items |-> "none"]
    /\ attempts = [i \in Items |-> 0]
    /\ due = {} /\ stale = {} /\ marker = {}
    /\ loop = "idle" /\ todo = {}
    /\ worker = [i \in Items |-> "none"]
    /\ req = [r \in Requests |-> Idle]
    /\ faults = 0
    /\ accepted = [i \in Items |-> 0]
    /\ lost = {}

------------------------------------------------------------------------------
(* What the handlers do to a row. *)

\* Every statement that puts a row back in the queue on request resets the counter and the
\* time of the next attempt.
Requeue(i) ==
    /\ status' = [status EXCEPT ![i] = "queued"]
    /\ attempts' = [attempts EXCEPT ![i] = 0]
    /\ due' = due \cup {i}
    /\ stale' = stale \ {i}
    /\ accepted' = [accepted EXCEPT ![i] = 0]
    /\ lost' = lost \ {i}

SetStatus(i, s) ==
    /\ status' = [status EXCEPT ![i] = s]
    /\ stale' = stale \ {i}
    /\ UNCHANGED <<attempts, due>>

\* enqueueSend when the (mailbox, source, message_id) is new: the row is inserted.
EnqueueNew(i) ==
    /\ status[i] = "none"
    /\ Requeue(i)
    /\ UNCHANGED <<marker, control>>

\* enqueueSend when INSERT OR IGNORE hit the unique index: the row found is remembered.
\* Rows in any other status are left alone and their id is returned.
EnqueueFound(r, i) ==
    /\ req[r] = Idle
    /\ \/ status[i] \in {"delivered", "canceled"}
       \/ status[i] = "failed" /\ attempts[i] >= MaxAttempts
    /\ req' = [req EXCEPT ![r] = [pc |-> "update", item |-> i, saw |-> status[i]]]
    /\ UNCHANGED <<rows, marker, loop, todo, worker, faults, ghosts>>

\* Its UPDATE ... WHERE id=? AND status=?.  A row that changed meanwhile is not updated, and
\* the handler goes on to drop the marker all the same.
EnqueueUpdate(r) ==
    /\ req[r].pc = "update"
    /\ req' = [req EXCEPT ![r] = [pc |-> "drop", item |-> req[r].item]]
    /\ IF status[req[r].item] = req[r].saw
       THEN Requeue(req[r].item)
       ELSE UNCHANGED <<rows, ghosts>>
    /\ UNCHANGED <<marker, loop, todo, worker, faults>>

\* handleRetrySendQueue: UPDATE ... WHERE status='failed', then the marker is dropped.
UserRetry(r, i) ==
    /\ req[r] = Idle
    /\ status[i] = "failed"
    /\ Requeue(i)
    /\ req' = [req EXCEPT ![r] = [pc |-> "drop", item |-> i]]
    /\ UNCHANGED <<marker, loop, todo, worker, faults>>

\* handleCancelSendQueue: UPDATE ... WHERE status IN ('queued','failed'), then the marker is dropped.
UserCancel(r, i) ==
    /\ req[r] = Idle
    /\ status[i] \in {"queued", "failed"}
    /\ SetStatus(i, "canceled")
    /\ req' = [req EXCEPT ![r] = [pc |-> "drop", item |-> i]]
    /\ UNCHANGED <<marker, loop, todo, worker, faults, ghosts>>

\* handleOpenAPIRetrySend (failed) and the admin batch "retry" (failed or canceled): one
\* statement, no marker is touched.
DirectRetry(i) ==
    /\ status[i] \in {"failed", "canceled"}
    /\ Requeue(i)
    /\ UNCHANGED <<marker, control>>

\* Bug: a row that is being sent can be canceled.
DirectCancelSending(i) ==
    /\ status[i] \in {"queued", "failed", "sending"}
    /\ SetStatus(i, "canceled")
    /\ UNCHANGED <<marker, control, ghosts>>

\* handleOpenAPICancelSend and the admin batch "cancel".
DirectCancel(i) ==
    /\ status[i] \in {"queued", "failed"}
    /\ SetStatus(i, "canceled")
    /\ UNCHANGED <<marker, control, ghosts>>

\* The admin batch "delete": DELETE ... WHERE status<>'sending', then the marker is dropped.
AdminDelete(r, i) ==
    /\ req[r] = Idle
    /\ Exists(i) /\ status[i] # "sending"
    /\ SetStatus(i, "deleted")
    /\ req' = [req EXCEPT ![r] = [pc |-> "drop", item |-> i]]
    /\ UNCHANGED <<marker, loop, todo, worker, faults, ghosts>>

\* Deleting the mailbox removes its rows by ON DELETE CASCADE, whatever their status; the
\* marker stays.
MailboxDeleted(i) ==
    /\ Exists(i)
    /\ SetStatus(i, "deleted")
    /\ UNCHANGED <<marker, control, ghosts>>

\* The trailing deleteSendQueueDeliveredMarker of a handler.  It may meet the marker of an
\* attempt made after the handler's UPDATE; the row then has no proof of that attempt left.
HandlerDropsMarker(r) ==
    /\ req[r].pc = "drop"
    /\ req' = [req EXCEPT ![r] = Idle]
    /\ LET i == req[r].item IN
         /\ marker' = marker \ {i}
         /\ lost' = IF i \in marker /\ accepted[i] > 0 THEN lost \cup {i} ELSE lost
    /\ UNCHANGED <<rows, loop, todo, worker, faults, accepted>>

HandlerDropFails(r) ==
    /\ req[r].pc = "drop"
    /\ Fault
    /\ req' = [req EXCEPT ![r] = Idle]
    /\ UNCHANGED <<rows, marker, loop, todo, worker, ghosts>>

------------------------------------------------------------------------------
(* The worker loop: processDueSendQueue. *)

\* A tick starts with the scan of recoverStaleSendQueueItems.
Tick ==
    /\ loop = "idle"
    /\ loop' = "recovering"
    /\ \E found \in Limited({i \in Items : Abandoned(i)}) : todo' = found
    /\ UNCHANGED <<rows, marker, worker, req, faults, ghosts>>

\* Bug: every interrupted row counts as delivered.
RecoverAllDelivered(i) ==
    /\ loop = "recovering" /\ Running = {}
    /\ i \in todo
    /\ todo' = todo \ {i}
    /\ IF Exists(i) THEN SetStatus(i, "delivered") ELSE UNCHANGED rows
    /\ worker' = [worker EXCEPT ![i] = "delivered"]
    /\ UNCHANGED <<marker, loop, req, faults, ghosts>>

\* One row of the scan: a marker says the mail went out, so the row is recorded as delivered
\* (RecoverDelivered, its marker dropped next by DropMarker); else it is queued again.
RecoverDelivered(i) ==
    /\ loop = "recovering" /\ Running = {}
    /\ i \in todo /\ i \in marker
    /\ todo' = todo \ {i}
    /\ IF Exists(i) THEN SetStatus(i, "delivered") ELSE UNCHANGED rows
    /\ worker' = [worker EXCEPT ![i] = "delivered"]
    /\ UNCHANGED <<marker, loop, req, faults, ghosts>>

\* Bug: the marker is not looked at.
RecoverIgnoringMarker(i) ==
    /\ loop = "recovering" /\ Running = {}
    /\ i \in todo
    /\ todo' = todo \ {i}
    /\ status' = [status EXCEPT ![i] = "queued"]
    /\ due' = due \cup {i}
    /\ UNCHANGED <<attempts, stale, marker, loop, worker, req, faults, ghosts>>

RecoverQueued(i) ==
    /\ loop = "recovering" /\ Running = {}
    /\ i \in todo /\ i \notin marker
    /\ todo' = todo \ {i}
    /\ IF status[i] = "sending"
       THEN /\ status' = [status EXCEPT ![i] = "queued"]
            /\ due' = due \cup {i}
            /\ stale' = stale \ {i}
            /\ UNCHANGED attempts
       ELSE UNCHANGED rows
    /\ UNCHANGED <<marker, loop, worker, req, faults, ghosts>>

\* An error anywhere in the recovery abandons the whole pass until the next tick.
RecoverFails ==
    /\ loop = "recovering" /\ Running = {}
    /\ Fault
    /\ loop' = "idle" /\ todo' = {}
    /\ UNCHANGED <<rows, marker, worker, req, ghosts>>

\* The SELECT of due ids; one goroutine per id follows.
SelectDue ==
    /\ loop = "recovering" /\ todo = {} /\ Running = {}
    /\ loop' = "sending"
    /\ \E batch \in Limited({i \in Items : Claimable(i)}) :
         worker' = [i \in Items |-> IF i \in batch THEN "picked" ELSE "none"]
    /\ UNCHANGED <<rows, marker, todo, req, faults, ghosts>>

\* The pass waits for every goroutine of the batch.
BatchDone ==
    /\ loop = "sending"
    /\ \A i \in Items : worker[i] = "none"
    /\ loop' = "idle"
    /\ UNCHANGED <<rows, marker, todo, worker, req, faults, ghosts>>

------------------------------------------------------------------------------
(* One goroutine: processSendQueueItem. *)

WorkerStep(i, from, to) ==
    /\ worker[i] = from
    /\ worker' = [worker EXCEPT ![i] = to]
    /\ UNCHANGED <<loop, todo, req>>

TakeRow(i) ==
    /\ status' = [status EXCEPT ![i] = "sending"]
    /\ attempts' = [attempts EXCEPT ![i] = @ + 1]
    /\ stale' = stale \ {i}
    /\ UNCHANGED due

\* Bug: no semaphore.
ClaimAtOnce(i) ==
    /\ Claimable(i)
    /\ WorkerStep(i, "picked", "sending")
    /\ TakeRow(i)
    /\ UNCHANGED <<marker, faults, ghosts>>

\* claimSendQueueItem, once a slot of the semaphore is free.
Claim(i) ==
    /\ Cardinality(Running) < Concurrency
    /\ Claimable(i)
    /\ WorkerStep(i, "picked", "sending")
    /\ TakeRow(i)
    /\ UNCHANGED <<marker, faults, ghosts>>

\* The row was canceled, deleted or postponed since the SELECT: sql.ErrNoRows.
ClaimNothing(i) ==
    /\ Cardinality(Running) < Concurrency
    /\ ~Claimable(i)
    /\ WorkerStep(i, "picked", "none")
    /\ UNCHANGED <<rows, marker, faults, ghosts>>

\* The UPDATE of the claim commits and its SELECT fails: no one sends the row.
ClaimFails(i) ==
    /\ Cardinality(Running) < Concurrency
    /\ Claimable(i)
    /\ Fault
    /\ WorkerStep(i, "picked", "none")
    /\ TakeRow(i)
    /\ UNCHANGED <<marker, ghosts>>

\* sendSMTP: the server takes the mail and says so.
SmtpAccepts(i) ==
    /\ WorkerStep(i, "sending", "accepted")
    /\ accepted' = [accepted EXCEPT ![i] = @ + 1]
    /\ UNCHANGED <<rows, marker, faults, lost>>

\* sendSMTP returns an error and the server has not taken the mail.
SmtpRejects(i) ==
    /\ WorkerStep(i, "sending", "rejected")
    /\ UNCHANGED <<rows, marker, faults, ghosts>>

\* sendSMTP returns an error after the server took the mail: the reply to DATA is lost, or the
\* final QUIT, whose error sendSMTPMessage returns, fails.
SmtpReplyLost(i) ==
    /\ Fault
    /\ WorkerStep(i, "sending", "rejected")
    /\ accepted' = [accepted EXCEPT ![i] = @ + 1]
    /\ lost' = lost \cup {i}
    /\ UNCHANGED <<rows, marker>>

\* writeSendQueueDeliveredMarker.
WriteMarker(i) ==
    /\ WorkerStep(i, "accepted", "marked")
    /\ marker' = marker \cup {i}
    /\ UNCHANGED <<rows, faults, ghosts>>

\* A marker that cannot be written is logged and the goroutine goes on.
WriteMarkerFails(i) ==
    /\ Fault
    /\ WorkerStep(i, "accepted", "marked")
    /\ lost' = lost \cup {i}
    /\ UNCHANGED <<rows, marker, accepted>>

\* markSendQueueDelivered: UPDATE ... WHERE id=?, whatever the status.
RecordDelivered(i) ==
    /\ WorkerStep(i, "marked", "delivered")
    /\ IF Exists(i) THEN SetStatus(i, "delivered") ELSE UNCHANGED rows
    /\ UNCHANGED <<marker, faults, ghosts>>

RecordDeliveredFails(i) ==
    /\ Fault
    /\ WorkerStep(i, "marked", "none")
    /\ UNCHANGED <<rows, marker, ghosts>>

\* The deleteSendQueueDeliveredMarker of markSendQueueDelivered.
DropMarker(i) ==
    /\ WorkerStep(i, "delivered", "none")
    /\ marker' = marker \ {i}
    /\ UNCHANGED <<rows, faults, ghosts>>

DropMarkerFails(i) ==
    /\ Fault
    /\ WorkerStep(i, "delivered", "none")
    /\ UNCHANGED <<rows, marker, ghosts>>

\* markSendQueueFailed: UPDATE ... WHERE id=?; the next attempt is later (or never).
RecordFailed(i) ==
    /\ WorkerStep(i, "rejected", "none")
    /\ IF Exists(i)
       THEN /\ status' = [status EXCEPT ![i] = "failed"]
            /\ due' = due \ {i}
            /\ stale' = stale \ {i}
            /\ UNCHANGED attempts
       ELSE UNCHANGED rows
    /\ UNCHANGED <<marker, faults, ghosts>>

RecordFailedFails(i) ==
    /\ Fault
    /\ WorkerStep(i, "rejected", "none")
    /\ UNCHANGED <<rows, marker, ghosts>>

------------------------------------------------------------------------------
(* Time and crashes. *)

\* The retry delay of a failed row runs out.
BecomesDue(i) ==
    /\ status[i] = "failed" /\ i \notin due
    /\ due' = due \cup {i}
    /\ UNCHANGED <<status, attempts, stale, marker, control, ghosts>>

\* A row has been in "sending" for sendQueueStaleAfter.  This may happen during an attempt
\* here, although its SMTP deadline is far shorter: nothing rests on that margin.
BecomesStale(i) ==
    /\ status[i] = "sending" /\ i \notin stale
    /\ stale' = stale \cup {i}
    /\ UNCHANGED <<status, attempts, due, marker, control, ghosts>>

\* The process stops and starts again: goroutines and handlers are gone, rows and markers stay.
Crash ==
    /\ Fault
    /\ loop' = "idle" /\ todo' = {}
    /\ worker' = [i \in Items |-> "none"]
    /\ req' = [r \in Requests |-> Idle]
    /\ lost' = lost \cup {i \in Items : worker[i] = "accepted"}
    /\ UNCHANGED <<rows, marker, accepted>>

------------------------------------------------------------------------------

\* Someone asks for a row to be queued (again).
QueuedOnRequest(i) ==
    EnqueueNew(i) \/ DirectRetry(i) \/ \E r \in Requests : UserRetry(r, i)

RequestStep ==
    \/ \E i \in Items : QueuedOnRequest(i) \/ DirectCancel(i) \/ MailboxDeleted(i)
    \/ \E r \in Requests, i \in Items : EnqueueFound(r, i) \/ UserCancel(r, i) \/ AdminDelete(r, i)
    \/ \E r \in Requests : EnqueueUpdate(r) \/ HandlerDropsMarker(r) \/ HandlerDropFails(r)

LoopStep ==
    \/ Tick \/ RecoverFails \/ SelectDue \/ BatchDone
    \/ \E i \in Items : RecoverDelivered(i) \/ RecoverQueued(i)

GoroutineStep(i) ==
    \/ Claim(i) \/ ClaimNothing(i) \/ ClaimFails(i)
    \/ SmtpAccepts(i) \/ SmtpRejects(i) \/ SmtpReplyLost(i)
    \/ WriteMarker(i) \/ WriteMarkerFails(i)
    \/ RecordDelivered(i) \/ RecordDeliveredFails(i)
    \/ DropMarker(i) \/ DropMarkerFails(i)
    \/ RecordFailed(i) \/ RecordFailedFails(i)

TimeStep == \E i \in Items : BecomesDue(i) \/ BecomesStale(i)

Next == RequestStep \/ LoopStep \/ (\E i \in Items : GoroutineStep(i)) \/ TimeStep \/ Crash

Spec == Init /\ [][Next]_vars

\* The Go scheduler runs every goroutine, sendSMTP has a deadline (smtpSessionTimeout), the
\* ticker fires and the clock advances.
LoopProgress == Tick \/ SelectDue \/ BatchDone
                  \/ \E i \in Items : RecoverDelivered(i) \/ RecoverQueued(i)
GoroutineProgress(i) ==
    \/ Claim(i) \/ ClaimNothing(i) \/ SmtpAccepts(i) \/ SmtpRejects(i)
    \/ WriteMarker(i) \/ RecordDelivered(i) \/ DropMarker(i) \/ RecordFailed(i)

FairSpec == /\ Spec
            /\ WF_vars(LoopProgress)
            /\ \A i \in Items : /\ WF_vars(GoroutineProgress(i))
                                /\ WF_vars(BecomesDue(i))
                                /\ WF_vars(BecomesStale(i))
            /\ \A r \in Requests : WF_vars(EnqueueUpdate(r) \/ HandlerDropsMarker(r))

------------------------------------------------------------------------------
(* Properties. *)

TypeOK ==
    /\ status \in [Items -> Status]
    /\ attempts \in [Items -> 0..MaxAttempts]
    /\ due \subseteq Items /\ stale \subseteq Items /\ marker \subseteq Items
    /\ loop \in {"idle", "recovering", "sending"}
    /\ todo \subseteq Items
    /\ worker \in [Items -> Phase]
    /\ req \in [Requests -> Handler]
    /\ faults \in 0..MaxFaults
    /\ accepted \in [Items -> 0..MaxAttempts]
    /\ lost \subseteq Items

\* The statements that record an outcome say WHERE id=? only.  They never overwrite somebody
\* else's decision: from the claim to the outcome the row stays "sending" (or its mailbox is
\* gone), no recovery runs, and no handler gets hold of it.
AttemptOwnsRow ==
    \A i \in Items : worker[i] \in {"sending", "rejected", "accepted", "marked"} =>
        /\ status[i] \in {"sending", "deleted"}
        /\ attempts[i] > 0
        /\ loop = "sending"

\* The marker file is there so that a mail the server has taken is not sent again after an
\* interruption: two copies of one request reach the server only if the proof of the first
\* was lost (reply lost, crash or I/O error before the marker, marker dropped by a late handler).
DuplicateNeedsLostProof ==
    \A i \in Items : accepted[i] > 1 => i \in lost

\* A row is shown as delivered without its mail having been taken only if a marker outlives a
\* requeue and the new attempt is interrupted as well: no single crash or error does it.
NoSilentLoss ==
    faults <= 1 => \A i \in Items : status[i] = "delivered" => accepted[i] > 0

\* No more than Concurrency SMTP sessions are open, although a batch starts a goroutine per row.
SessionsBounded == Cardinality(Running) <= Concurrency

\* The goroutines of a batch work side by side: each alone with its row until the outcome is
\* stored, and no more of them in a session than the semaphore admits (processDueSendQueue).
AttemptsDoNotCollide == AttemptOwnsRow /\ SessionsBounded

\* Rows the queue has finished with.  The last disjunct is a row whose final attempt was
\* interrupted: the recovery scan asks for attempt_count < max_attempts and never finds it.
Resting(i) ==
    \/ status[i] \in {"none", "delivered", "canceled", "deleted"}
    \/ status[i] = "failed" /\ attempts[i] = MaxAttempts
    \/ status[i] = "sending" /\ attempts[i] = MaxAttempts /\ worker[i] = "none"

\* Once nobody queues rows any more, every row comes to rest: none is forgotten over the
\* wait for a batch, the one session, a retry delay or an interrupted attempt.
QueueDrains ==
    <>[][\A i \in Items : ~QueuedOnRequest(i) /\ \A r \in Requests : ~EnqueueUpdate(r)]_vars
        => \A i \in Items : <>[]Resting(i)

\* The queue implements the life cycle it promises: what the interleavings, the crashes and the
\* statements without a status guard do to a row is always a legal move of SendLifecycle.
Lifecycle == INSTANCE SendLifecycle WITH state <- status, tries <- attempts
ImplementsLifecycle == Lifecycle!Spec

\* docs/API.md says of "sending": currently being delivered.  Every sending row then leaves
\* that status sooner or later.
SendingEnds ==
    \A i \in Items : status[i] = "sending" ~> status[i] # "sending"

------------------------------------------------------------------------------
(* The inductive invariant of the proofs in SendQueueProofs. *)

\* The loop is the only one that starts goroutines and it waits for all of them.
LoopOwnsWorkers ==
    /\ loop = "idle" => todo = {} /\ \A i \in Items : worker[i] = "none"
    /\ loop = "recovering" => \A i \in Items : worker[i] \in {"none", "delivered"}
    /\ loop = "sending" => todo = {}

\* What the recovery scan has read is still so when the row is handled.
ScanStaysTrue ==
    \A i \in todo : \/ status[i] = "sending" /\ attempts[i] < MaxAttempts
                    \/ status[i] = "deleted"

\* The worker drops a marker only of a row that is no longer being sent.
DropIsSafe == \A i \in Items : worker[i] = "delivered" => status[i] # "sending"

\* A queued row has an attempt left: queued on request it has all, after an interruption some.
QueuedHasAttempts == \A i \in Items : status[i] = "queued" => attempts[i] < MaxAttempts

\* Every copy the server took belongs to an attempt that was counted.
CopiesCounted ==
    \A i \in Items : /\ accepted[i] <= attempts[i]
                     /\ worker[i] = "sending" => accepted[i] < attempts[i]

\* A mail that was taken and whose proof is not lost will not be attempted again: the row is
\* finished, or still "sending" with its marker written or about to be.
ProofKept ==
    \A i \in Items : accepted[i] > 0 /\ i \notin lost =>
        /\ worker[i] \notin {"sending", "rejected"}
        /\ \/ status[i] \in {"delivered", "deleted"}
           \/ status[i] = "sending" /\ (i \in marker \/ worker[i] = "accepted")

IInv == /\ TypeOK /\ LoopOwnsWorkers /\ AttemptOwnsRow /\ ScanStaysTrue /\ DropIsSafe
        /\ QueuedHasAttempts /\ CopiesCounted /\ ProofKept /\ DuplicateNeedsLostProof
=============================================================================
