------------------------- MODULE ScheduledSendProofs -------------------------
(* Theorems about ScheduledSend for every set of rows and requests and every bound. *)
EXTENDS ScheduledSend, TLAPS

\* No row is scheduled and nothing has been mailed.
LEMMA InitIInv == Init => IInv
  BY MaxFaultsAssumption, ItemsAssumption
  DEF Init, IInv, TypeOK, HeldRow, MailedAtMostOnce, StatusTellsTruth, Status, Step, At

\* What the handlers do to a row never undoes what the worker has recorded about its mail.
LEMMA RequestKeepsIInv ==
  ASSUME IInv,
         \/ \E i \in Items : Schedule(i) \/ TimePasses(i) \/ Delete(i)
         \/ \E r \in Requests, i \in Items : CancelRead(r, i)
         \/ \E r \in Requests : CancelWrite(r)
  PROVE  IInv'
<1> USE ItemsAssumption
    DEF IInv, TypeOK, HeldRow, MailedAtMostOnce, StatusTellsTruth, Status, Step, At, table, WriteStatus
<1>1. ASSUME NEW i \in Items, Schedule(i) PROVE IInv'
  BY <1>1 DEF Schedule
<1>2. ASSUME NEW i \in Items, TimePasses(i) PROVE IInv'
  BY <1>2 DEF TimePasses
<1>3. ASSUME NEW r \in Requests, NEW i \in Items, CancelRead(r, i) PROVE IInv'
  BY <1>3 DEF CancelRead
<1>4. ASSUME NEW r \in Requests, CancelWrite(r) PROVE IInv'
  BY <1>4 DEF CancelWrite
<1>5. ASSUME NEW i \in Items, Delete(i) PROVE IInv'
  BY <1>5 DEF Delete
<1> QED
  BY <1>1, <1>2, <1>3, <1>4, <1>5

\* The worker counts a mail only between its claim and its last statement on the row.
LEMMA WorkerKeepsIInv ==
  ASSUME IInv,
         WorkerStep \/ MailReportedFailed \/ MarkFails \/ Crash \/ \E i \in Items : ClaimFails(i)
  PROVE  IInv'
<1> USE MaxFaultsAssumption, ItemsAssumption
    DEF IInv, TypeOK, HeldRow, MailedAtMostOnce, StatusTellsTruth, Status, table, Step, At, GoTo, Fault,
        WriteStatus
<1>1. CASE Scan
  BY <1>1 DEF Scan, Limited
<1>2. CASE PassDone
  BY <1>2 DEF PassDone
<1>3. ASSUME NEW i \in Items, Claim(i) PROVE IInv'
  BY <1>3 DEF Claim
<1>4. CASE Refuse
  BY <1>4 DEF Refuse
<1>5. CASE Mail
  BY <1>5 DEF Mail
<1>6. CASE MailReportedFailed
  BY <1>6 DEF MailReportedFailed
<1>7. CASE DeleteDraft
  BY <1>7 DEF DeleteDraft
<1>8. CASE MarkSent
  BY <1>8 DEF MarkSent, Finish
<1>9. CASE MarkFailed
  BY <1>9 DEF MarkFailed, Finish
<1>10. CASE MarkFails
  BY <1>10 DEF MarkFails
<1>11. CASE Crash
  BY <1>11 DEF Crash
<1>12. ASSUME NEW i \in Items, ClaimFails(i) PROVE IInv'
  BY <1>12 DEF ClaimFails
<1> QED
  BY <1>1, <1>2, <1>3, <1>4, <1>5, <1>6, <1>7, <1>8, <1>9, <1>10, <1>11, <1>12 DEF WorkerStep

\* Handlers, worker, failures and restarts together.
LEMMA StepKeepsIInv == IInv /\ [Next]_vars => IInv'
<1>1. IInv /\ Next => IInv'
  BY RequestKeepsIInv, WorkerKeepsIInv DEF Next
<1>2. IInv /\ UNCHANGED vars => IInv'
  BY DEF vars, table, IInv, TypeOK, HeldRow, MailedAtMostOnce, StatusTellsTruth, At
<1> QED
  BY <1>1, <1>2

\* In every state the worker counts a mail only on a row it has claimed, and a status that
\* speaks of a mail is true (processScheduledSend).
THEOREM InvariantHolds == Spec => []IInv
  BY InitIInv, StepKeepsIInv, PTL DEF Spec

\* Every variable keeps its type, for any rows and requests and any number of failures.
THEOREM TypeCorrect == Spec => []TypeOK
  BY InvariantHolds, PTL DEF IInv

\* A scheduled mail reaches the send queue at most once, whatever crashes, failed statements
\* and cancel requests come in between.
THEOREM AtMostOnce == Spec => []MailedAtMostOnce
  BY InvariantHolds, PTL DEF IInv

\* "sent" rows were handed over and "pending" rows were not.
THEOREM StatusIsTrue == Spec => []StatusTellsTruth
  BY InvariantHolds, PTL DEF IInv

\* A draft disappears only after its mail was handed over, or with its mailbox.
THEOREM DraftIsSafe == Spec => DraftLostOnlyWhenMailed
<1>1. IInv /\ [Next]_vars
        => [\A i \in drafts : i \notin drafts' => mailed[i] > 0 \/ status'[i] = "deleted"]_vars
  <2> SUFFICES ASSUME IInv, Next, NEW i \in drafts, i \notin drafts'
               PROVE  mailed[i] > 0 \/ status'[i] = "deleted"
    BY DEF vars
  <2>1. DeleteDraft \/ \E j \in Items : Delete(j)
    BY DEF Next, WorkerStep, Scan, PassDone, Claim, ClaimFails, Refuse, Mail, MarkSent, MarkFailed,
           Finish, MailReportedFailed, MarkFails, Crash, Schedule, TimePasses, CancelRead,
           CancelWrite, table
  <2>2. CASE DeleteDraft
    BY <2>2 DEF DeleteDraft, IInv, HeldRow, At
  <2>3. ASSUME NEW j \in Items, Delete(j) PROVE status'[i] = "deleted"
    BY <2>3 DEF Delete, IInv, TypeOK
  <2> QED
    BY <2>1, <2>2, <2>3
<1> QED
  BY <1>1, InvariantHolds, PTL DEF Spec, DraftLostOnlyWhenMailed

\* A cancellation outside the worker's hands is final while the row is there: the claim asks for
\* a pending row.
THEOREM CancellationHolds == Spec => CancelledStaysUnsent
<1>1. ASSUME IInv, [Next]_vars
      PROVE  [\A i \in Items : status[i] = "cancelled" /\ held # i
                => status'[i] \in {"cancelled", "deleted"} /\ held' # i
                     /\ mailed'[i] = mailed[i]]_vars
  <2> SUFFICES ASSUME Next, NEW i \in Items, status[i] = "cancelled", held # i
               PROVE  status'[i] \in {"cancelled", "deleted"} /\ held' # i
                        /\ mailed'[i] = mailed[i]
    BY <1>1 DEF vars
  <2> USE <1>1, ItemsAssumption DEF IInv, TypeOK, HeldRow, At, GoTo, Fault, table, WriteStatus
  <2> DEFINE Kept == status'[i] \in {"cancelled", "deleted"} /\ held' # i /\ mailed'[i] = mailed[i]
  <2>1. CASE Scan \/ PassDone \/ Refuse \/ DeleteDraft \/ MarkFails \/ Crash
    BY <2>1 DEF Scan, PassDone, Refuse, DeleteDraft, MarkFails, Crash
  <2>2. ASSUME NEW j \in Items, Claim(j) \/ ClaimFails(j) PROVE Kept
    BY <2>2 DEF Claim, ClaimFails
  <2>3. CASE Mail \/ MailReportedFailed
    BY <2>3 DEF Mail, MailReportedFailed
  <2>4. CASE MarkSent \/ MarkFailed
    BY <2>4 DEF MarkSent, MarkFailed, Finish
  <2>5. ASSUME NEW j \in Items, Schedule(j) \/ TimePasses(j) \/ Delete(j) PROVE Kept
    BY <2>5 DEF Schedule, TimePasses, Delete
  <2>6. ASSUME NEW r \in Requests, NEW j \in Items, CancelRead(r, j) PROVE Kept
    BY <2>6 DEF CancelRead
  <2>7. ASSUME NEW r \in Requests, CancelWrite(r) PROVE Kept
    BY <2>7 DEF CancelWrite
  <2> QED
    BY <2>1, <2>2, <2>3, <2>4, <2>5, <2>6, <2>7 DEF Next, WorkerStep
<1> QED
  BY <1>1, InvariantHolds, PTL DEF Spec, CancelledStaysUnsent

\* What the user is told of a scheduled mail is what became of it.
THEOREM StatusAndMailAgree == Spec => []HandedOverAsTold
<1>1. MailedAtMostOnce /\ StatusTellsTruth => HandedOverAsTold
  BY DEF HandedOverAsTold
<1> QED
  BY <1>1, AtMostOnce, StatusIsTrue, PTL

\* Neither the draft nor a cancellation is lost to the worker.
THEOREM WithdrawalHolds == Spec => WithdrawnStays
  BY DraftIsSafe, CancellationHolds, PTL DEF WithdrawnStays
=============================================================================
