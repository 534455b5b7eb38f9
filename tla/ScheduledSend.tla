---------------------------- MODULE ScheduledSend ----------------------------
(***************************************************************************)
(* Mail scheduled for later (mail_handlers.go): rows of scheduled_sends,   *)
(* the worker that sends what is due, and the handler that cancels.        *)
(*                                                                         *)
(* The worker claims a row with UPDATE ... WHERE status='pending' and then *)
(* works on it in several statements; the cancel handler reads the status  *)
(* in one statement and writes it in another that does not look again.     *)
(* There is no recovery of rows found in "sending" after a crash. A row    *)
(* goes with its mailbox or its user (ON DELETE CASCADE), whoever is       *)
(* working on it.                                                          *)
(***************************************************************************)
EXTENDS Naturals, FiniteSets

CONSTANTS
    Items,      \* ids of scheduled_sends
    NoItem,     \* no row
    Requests,   \* concurrently running cancel requests
    BatchLimit, \* LIMIT 20 of the worker's SELECT
    MaxFaults   \* bound of the model: crashes and failed statements

ASSUME ItemsAssumption      == IsFiniteSet(Items) /\ NoItem \notin Items
ASSUME BatchLimitAssumption == BatchLimit \in Nat \ {0}
ASSUME MaxFaultsAssumption  == MaxFaults \in Nat

VARIABLES
    status,  \* column status, "none" before the INSERT, "deleted" after the DELETE
    due,     \* rows with send_at <= now
    drafts,  \* items whose draft (draft_id) is still in the Drafts folder
    batch,   \* rows the worker has read and not handled yet
    step,    \* what the worker does next
    held,    \* the row it is handling, if any
    req,     \* per cancel request: the row it has read, if any
    faults,
    mailed   \* ghost: how many times the mail was handed to the send queue

table == <<status, due, drafts>>
vars  == <<status, due, drafts, batch, step, held, req, faults, mailed>>

\* "deleted": the row is gone with its mailbox or its user.
Status == {"none", "pending", "sending", "sent", "failed", "cancelled", "deleted"}
Step   == {"idle", "next", "check", "fail", "draft", "done"}

Limited(S) == {T \in SUBSET S : \/ Cardinality(T) = BatchLimit
                                \/ T = S /\ Cardinality(S) <= BatchLimit}
Fault == faults < MaxFaults /\ faults' = faults + 1

\* UPDATE ... SET status=s WHERE id=i: a row that is gone is not matched.
WriteStatus(i, s) ==
    status' = [status EXCEPT ![i] = IF @ = "deleted" THEN "deleted" ELSE s]

Init ==
    /\ status = [i \in Items |-> "none"]
    /\ due = {} /\ drafts = {} /\ batch = {}
    /\ step = "idle" /\ held = NoItem
    /\ req = [r \in Requests |-> NoItem]
    /\ faults = 0
    /\ mailed = [i \in Items |-> 0]

------------------------------------------------------------------------------
(* Handlers. *)

\* handleScheduleSend: a row more than 30 seconds in the future, for a draft or without one.
Schedule(i) ==
    /\ status[i] = "none"
    /\ status' = [status EXCEPT ![i] = "pending"]
    /\ drafts' \in {drafts, drafts \cup {i}}
    /\ UNCHANGED <<due, batch, step, held, req, faults, mailed>>

\* handleCancelScheduledSend, first statement: SELECT status.
CancelRead(r, i) ==
    /\ req[r] = NoItem
    /\ status[i] \in {"pending", "failed"}
    /\ req' = [req EXCEPT ![r] = i]
    /\ UNCHANGED <<table, batch, step, held, faults, mailed>>

\* Bug: the spelling of the send queue's status.
CancelWriteMisspelt(r) ==
    /\ req[r] # NoItem
    /\ WriteStatus(req[r], "canceled")
    /\ req' = [req EXCEPT ![r] = NoItem]
    /\ UNCHANGED <<due, drafts, batch, step, held, faults, mailed>>

\* Second statement: UPDATE ... WHERE id=? AND user_id=?, whatever the status is by now.
CancelWrite(r) ==
    /\ req[r] # NoItem
    /\ WriteStatus(req[r], "cancelled")
    /\ req' = [req EXCEPT ![r] = NoItem]
    /\ UNCHANGED <<due, drafts, batch, step, held, faults, mailed>>

\* The row's mailbox or its user is deleted (admin_handlers.go:576, 949), and with it, by ON
\* DELETE CASCADE, the row and the draft.
Delete(i) ==
    /\ status[i] \notin {"none", "deleted"}
    /\ status' = [status EXCEPT ![i] = "deleted"]
    /\ drafts' = drafts \ {i}
    /\ UNCHANGED <<due, batch, step, held, req, faults, mailed>>

------------------------------------------------------------------------------
(* The worker: processDueScheduledSends and processScheduledSend. *)

At(s)   == step = s
GoTo(s) == step' = s

\* Bug: rows left in "sending" are selected again.
ScanInterruptedToo ==
    /\ At("idle") /\ GoTo("next")
    /\ \E found \in Limited({i \in due : status[i] \in {"pending", "sending"}}) :
         batch' = found /\ status' = [i \in Items |-> IF i \in found THEN "pending" ELSE status[i]]
    /\ UNCHANGED <<due, drafts, held, req, faults, mailed>>

Scan ==
    /\ At("idle") /\ GoTo("next")
    /\ \E found \in Limited({i \in due : status[i] = "pending"}) : batch' = found
    /\ UNCHANGED <<table, held, req, faults, mailed>>

\* Bug: the claim does not ask for status='pending'.
ClaimAnyway(i) ==
    /\ At("next") /\ i \in batch
    /\ batch' = batch \ {i}
    /\ status' = [status EXCEPT ![i] = "sending"]
    /\ GoTo("check") /\ held' = i
    /\ UNCHANGED <<due, drafts, req, faults, mailed>>

\* The claim; a row that is no longer pending is passed over.
Claim(i) ==
    /\ At("next") /\ i \in batch
    /\ batch' = batch \ {i}
    /\ IF status[i] = "pending"
       THEN /\ status' = [status EXCEPT ![i] = "sending"]
            /\ GoTo("check") /\ held' = i
       ELSE UNCHANGED <<status, step, held>>
    /\ UNCHANGED <<due, drafts, req, faults, mailed>>

\* The claim's UPDATE fails and is logged; the row stays as it is.
ClaimFails(i) ==
    /\ At("next") /\ i \in batch
    /\ Fault
    /\ batch' = batch \ {i}
    /\ UNCHANGED <<table, step, held, req, mailed>>

\* Bug: a refused mail is tried again.
RefuseForNow ==
    /\ At("check") /\ GoTo("next") /\ held' = NoItem
    /\ WriteStatus(held, "pending")
    /\ UNCHANGED <<due, drafts, batch, req, faults, mailed>>

\* The payload, the mailbox or the owner's permissions are no longer good, or sendMailNow
\* returns an error before it has queued anything; so it is for a mailbox that is gone.
Refuse ==
    /\ At("check") /\ GoTo("fail")
    /\ UNCHANGED <<table, batch, held, req, faults, mailed>>

\* sendMailNow succeeds. The queue's row refers to the mailbox and the user (foreign keys): there
\* is none for a mailbox or a user that is gone.
Mail ==
    /\ At("check") /\ GoTo("draft")
    /\ status[held] # "deleted"
    /\ mailed' = [mailed EXCEPT ![held] = @ + 1]
    /\ UNCHANGED <<table, batch, held, req, faults>>

\* sendMailNow reports an error although enqueueSend has inserted the queue row (its SELECT
\* after the INSERT failed).
MailReportedFailed ==
    /\ At("check") /\ GoTo("fail")
    /\ status[held] # "deleted"
    /\ Fault
    /\ mailed' = [mailed EXCEPT ![held] = @ + 1]
    /\ UNCHANGED <<table, batch, held, req>>

\* Bug: the draft is deleted before the mail is handed over.
DeleteDraftEarly ==
    /\ (At("check") /\ UNCHANGED step) \/ (At("draft") /\ GoTo("done"))
    /\ drafts' = drafts \ {held}
    /\ UNCHANGED <<status, due, batch, held, req, faults, mailed>>

\* The draft the mail was written in is deleted; a deletion that fails is not noticed.
DeleteDraft ==
    /\ At("draft") /\ GoTo("done")
    /\ drafts' \in {drafts, drafts \ {held}}
    /\ UNCHANGED <<status, due, batch, held, req, faults, mailed>>

\* UPDATE ... SET status='sent' WHERE id=?, and markScheduledSendFailed: no status guard.
Finish(s, outcome) ==
    /\ At(s) /\ GoTo("next") /\ held' = NoItem
    /\ WriteStatus(held, outcome)
    /\ UNCHANGED <<due, drafts, batch, req, faults, mailed>>

MarkSent   == Finish("done", "sent")
MarkFailed == Finish("fail", "failed")

\* Either statement fails and is logged.
MarkFails ==
    /\ At("done") \/ At("fail")
    /\ Fault
    /\ GoTo("next") /\ held' = NoItem
    /\ UNCHANGED <<table, batch, req, mailed>>

PassDone ==
    /\ At("next") /\ batch = {}
    /\ GoTo("idle")
    /\ UNCHANGED <<table, batch, held, req, faults, mailed>>

------------------------------------------------------------------------------

TimePasses(i) ==
    /\ status[i] # "none" /\ i \notin due
    /\ due' = due \cup {i}
    /\ UNCHANGED <<status, drafts, batch, step, held, req, faults, mailed>>

Crash ==
    /\ Fault
    /\ GoTo("idle") /\ held' = NoItem /\ batch' = {}
    /\ req' = [r \in Requests |-> NoItem]
    /\ UNCHANGED <<table, mailed>>

WorkerStep == \/ Scan \/ PassDone \/ (\E i \in Items : Claim(i))
              \/ Refuse \/ Mail \/ DeleteDraft \/ MarkSent \/ MarkFailed

Next ==
    \/ WorkerStep \/ MailReportedFailed \/ MarkFails \/ Crash
    \/ \E i \in Items : Schedule(i) \/ TimePasses(i) \/ ClaimFails(i) \/ Delete(i)
    \/ \E r \in Requests, i \in Items : CancelRead(r, i)
    \/ \E r \in Requests : CancelWrite(r)

Spec == Init /\ [][Next]_vars

\* The worker is a goroutine with a ticker, and the clock advances.
FairSpec == Spec /\ WF_vars(WorkerStep) /\ \A i \in Items : WF_vars(TimePasses(i))

------------------------------------------------------------------------------
(* Properties. *)

TypeOK ==
    /\ status \in [Items -> Status]
    /\ due \subseteq Items /\ drafts \subseteq Items /\ batch \subseteq Items
    /\ step \in Step /\ held \in Items \cup {NoItem}
    /\ req \in [Requests -> Items \cup {NoItem}]
    /\ faults \in 0..MaxFaults
    /\ mailed \in [Items -> Nat]

\* A scheduled mail is handed to the queue at most once, crashes and restarts included: the
\* claim is the only way in and nothing puts a row back to "pending".
MailedAtMostOnce == \A i \in Items : mailed[i] <= 1

\* The status tells the truth in the two cases a user relies on: "sent" was handed over, and
\* what is still pending was not.
StatusTellsTruth ==
    \A i \in Items : /\ status[i] = "sent" => mailed[i] > 0
                     /\ status[i] \in {"none", "pending"} => mailed[i] = 0

\* What the user is told of a scheduled mail is what became of it: it was handed over once if it
\* is shown as sent, at most once whatever is shown, and not at all while it is shown as pending.
HandedOverAsTold == MailedAtMostOnce /\ StatusTellsTruth

\* The draft is given up only for a mail that was handed over, or with its mailbox.
DraftLostOnlyWhenMailed ==
    [][\A i \in drafts : i \notin drafts' => mailed[i] > 0 \/ status'[i] = "deleted"]_vars

\* A mail cancelled while the worker does not hold it stays cancelled as long as its mailbox is
\* there, and is never taken up, although the worker may have read it into its batch while it
\* was pending.
CancelledStaysUnsent ==
    [][\A i \in Items :
         status[i] = "cancelled" /\ held # i
           => status'[i] \in {"cancelled", "deleted"} /\ held' # i /\ mailed'[i] = mailed[i]]_vars

\* A mail the user has taken back stays with the user: its draft is there until it was handed
\* over, and a cancellation the worker does not overlap is final.
WithdrawnStays == DraftLostOnlyWhenMailed /\ CancelledStaysUnsent

\* A due mail is decided: sent, failed or cancelled, or it went with its mailbox; or the worker
\* was interrupted over it and it stays "sending", which nothing in the code picks up again.
Abandoned(i) == status[i] = "sending" /\ held # i
DueIsDecided ==
    \A i \in Items :
      status[i] = "pending"
        ~> status[i] \in {"sent", "failed", "cancelled", "deleted"} \/ Abandoned(i)

\* The cancel handler refuses what is not pending ("scheduled send is not pending"): a mail
\* shown as cancelled has not been sent.
CancelledMeansUnsent == \A i \in Items : status[i] = "cancelled" => mailed[i] = 0

------------------------------------------------------------------------------
(* The inductive invariant of the proofs in ScheduledSendProofs. *)

\* The row the worker holds was claimed by it; it may have been cancelled or deleted since.
HeldRow ==
    IF At("idle") \/ At("next")
    THEN held = NoItem
    ELSE /\ held # NoItem
         /\ status[held] \in {"sending", "cancelled", "deleted"}
         /\ At("check") => mailed[held] = 0
         /\ At("draft") \/ At("done") => mailed[held] > 0

IInv == TypeOK /\ HeldRow /\ MailedAtMostOnce /\ StatusTellsTruth
          /\ \A r \in Requests : req[r] # NoItem => status[req[r]] # "none"
=============================================================================
