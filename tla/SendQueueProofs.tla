--------------------------- MODULE SendQueueProofs ---------------------------
(* Theorems about SendQueue for every set of rows and handlers and every bound. *)
EXTENDS SendQueue, FiniteSetTheorems, TLAPS

(***************************************************************************)
(* IInv is inductive.  One lemma per group of actions, one step per        *)
(* action; the conjuncts an action cannot disturb are left to the prover.  *)
(***************************************************************************)
USE MaxAttemptsAssumption, MaxFaultsAssumption

\* The empty queue: no attempt, no scan, no marker.
LEMMA InitIInv == Init => IInv
  BY DEF Init, IInv, TypeOK, LoopOwnsWorkers, AttemptOwnsRow, ScanStaysTrue, DropIsSafe, QueuedHasAttempts,
         CopiesCounted, ProofKept, DuplicateNeedsLostProof, Status, Phase, Handler, Idle

\* Handlers never touch a row while an attempt owns it, except to delete it.
LEMMA RequestKeepsIInv == IInv /\ RequestStep => IInv'
<1> SUFFICES ASSUME IInv, RequestStep PROVE IInv'
  OBVIOUS
<1> USE DEF IInv, TypeOK, LoopOwnsWorkers, AttemptOwnsRow, ScanStaysTrue, DropIsSafe, QueuedHasAttempts,
            CopiesCounted, ProofKept, DuplicateNeedsLostProof, Status, Phase,
            rows, control, ghosts, Exists
<1>1. ASSUME NEW i \in Items, EnqueueNew(i) PROVE IInv'
  BY <1>1 DEF EnqueueNew, Requeue
<1>2. ASSUME NEW i \in Items, DirectRetry(i) PROVE IInv'
  BY <1>2 DEF DirectRetry, Requeue
<1>3. ASSUME NEW i \in Items, NEW r \in Requests, UserRetry(r, i) PROVE IInv'
  BY <1>3 DEF UserRetry, Requeue, Handler
<1>4. ASSUME NEW i \in Items, DirectCancel(i) PROVE IInv'
  BY <1>4 DEF DirectCancel, SetStatus
<1>5. ASSUME NEW i \in Items, MailboxDeleted(i) PROVE IInv'
  BY <1>5 DEF MailboxDeleted, SetStatus
<1>6. ASSUME NEW r \in Requests, NEW i \in Items, EnqueueFound(r, i) PROVE IInv'
  BY <1>6 DEF EnqueueFound, Handler
<1>7. ASSUME NEW r \in Requests, NEW i \in Items, UserCancel(r, i) PROVE IInv'
  BY <1>7 DEF UserCancel, SetStatus, Handler
<1>8. ASSUME NEW r \in Requests, NEW i \in Items, AdminDelete(r, i) PROVE IInv'
  BY <1>8 DEF AdminDelete, SetStatus, Handler
<1>9. ASSUME NEW r \in Requests, EnqueueUpdate(r) PROVE IInv'
  BY <1>9 DEF EnqueueUpdate, Requeue, Handler, Idle
<1>10. ASSUME NEW r \in Requests, HandlerDropsMarker(r) PROVE IInv'
  BY <1>10 DEF HandlerDropsMarker, Handler, Idle
<1>11. ASSUME NEW r \in Requests, HandlerDropFails(r) PROVE IInv'
  BY <1>11 DEF HandlerDropFails, Handler, Idle, Fault
<1> QED
  BY <1>1, <1>2, <1>3, <1>4, <1>5, <1>6, <1>7, <1>8, <1>9, <1>10, <1>11
  DEF RequestStep, QueuedOnRequest

\* The loop touches rows only while no goroutine runs.
LEMMA LoopKeepsIInv == IInv /\ LoopStep => IInv'
<1> SUFFICES ASSUME IInv, LoopStep PROVE IInv'
  OBVIOUS
<1> USE DEF IInv, TypeOK, LoopOwnsWorkers, AttemptOwnsRow, ScanStaysTrue, DropIsSafe, QueuedHasAttempts,
            CopiesCounted, ProofKept, DuplicateNeedsLostProof, Status, Phase,
            rows, control, ghosts, Exists, Running
<1>1. CASE Tick
  BY <1>1 DEF Tick, Limited, Abandoned
<1>2. CASE RecoverFails
  BY <1>2 DEF RecoverFails, Fault
<1>3. CASE SelectDue
  BY <1>3 DEF SelectDue, Limited
<1>4. CASE BatchDone
  BY <1>4 DEF BatchDone
<1>5. ASSUME NEW i \in Items, RecoverDelivered(i) PROVE IInv'
  BY <1>5 DEF RecoverDelivered, SetStatus
<1>6. ASSUME NEW i \in Items, RecoverQueued(i) PROVE IInv'
  BY <1>6 DEF RecoverQueued
<1> QED
  BY <1>1, <1>2, <1>3, <1>4, <1>5, <1>6 DEF LoopStep

\* The copy an open session may add still fits: it belongs to an attempt not yet accounted for.
LEMMA RoomForCopy ==
  ASSUME NEW i \in Items, TypeOK, CopiesCounted, worker[i] = "sending"
  PROVE  accepted[i] + 1 \in 0..MaxAttempts /\ accepted[i] + 1 <= attempts[i]
<1>1. accepted[i] \in Nat /\ attempts[i] \in Nat /\ attempts[i] <= MaxAttempts /\ MaxAttempts \in Nat
  BY DEF TypeOK
<1>2. accepted[i] < attempts[i]
  BY DEF CopiesCounted
<1> QED
  BY <1>1, <1>2

\* A row that may be claimed has an attempt left.
LEMMA RoomForAttempt ==
  ASSUME NEW i \in Items, TypeOK, CopiesCounted, QueuedHasAttempts, Claimable(i)
  PROVE  attempts[i] + 1 \in 0..MaxAttempts /\ accepted[i] < attempts[i] + 1
<1>1. accepted[i] \in Nat /\ attempts[i] \in Nat /\ attempts[i] < MaxAttempts /\ MaxAttempts \in Nat
  BY DEF TypeOK, QueuedHasAttempts, Claimable
<1>2. accepted[i] <= attempts[i]
  BY DEF CopiesCounted
<1> QED
  BY <1>1, <1>2

\* A goroutine touches the row it has claimed and no other.
LEMMA GoroutineKeepsIInv == ASSUME NEW i \in Items, IInv, GoroutineStep(i) PROVE IInv'
<1>a. worker[i] = "sending" =>
        accepted[i] + 1 \in 0..MaxAttempts /\ accepted[i] + 1 <= attempts[i]
  BY RoomForCopy DEF IInv
<1>b. Claimable(i) => attempts[i] + 1 \in 0..MaxAttempts /\ accepted[i] < attempts[i] + 1
  BY RoomForAttempt DEF IInv
<1> USE DEF IInv, TypeOK, LoopOwnsWorkers, AttemptOwnsRow, ScanStaysTrue, DropIsSafe, QueuedHasAttempts,
            CopiesCounted, ProofKept, DuplicateNeedsLostProof, Status, Phase,
            rows, control, ghosts, Exists, WorkerStep, Fault
<1>1. CASE Claim(i)
  <2> USE <1>1 DEF Claim, Claimable, TakeRow
  <2>1. TypeOK'
    BY <1>b
  <2>2. CopiesCounted'
    BY <1>b
  <2>3. ProofKept'
    OBVIOUS
  <2> QED
    BY <2>1, <2>2, <2>3
<1>2. CASE ClaimNothing(i)
  BY <1>2 DEF ClaimNothing
<1>3. CASE ClaimFails(i)
  BY <1>3 DEF ClaimFails, Claimable, TakeRow
<1>4. CASE SmtpAccepts(i)
  <2> USE <1>4 DEF SmtpAccepts
  <2>1. TypeOK'
    BY <1>a
  <2>2. CopiesCounted'
    OBVIOUS
  <2>3. (ProofKept /\ DuplicateNeedsLostProof)'
    OBVIOUS
  <2> QED
    BY <2>1, <2>2, <2>3
<1>5. CASE SmtpRejects(i)
  BY <1>5 DEF SmtpRejects
<1>6. CASE SmtpReplyLost(i)
  <2> USE <1>6 DEF SmtpReplyLost
  <2>1. TypeOK'
    BY <1>a
  <2>2. CopiesCounted'
    OBVIOUS
  <2> QED
    BY <2>1, <2>2
<1>7. CASE WriteMarker(i)
  BY <1>7 DEF WriteMarker
<1>8. CASE WriteMarkerFails(i)
  BY <1>8 DEF WriteMarkerFails
<1>9. CASE RecordDelivered(i)
  BY <1>9 DEF RecordDelivered, SetStatus
<1>10. CASE RecordDeliveredFails(i)
  BY <1>10 DEF RecordDeliveredFails
<1>11. CASE DropMarker(i)
  BY <1>11 DEF DropMarker
<1>12. CASE DropMarkerFails(i)
  BY <1>12 DEF DropMarkerFails
<1>13. CASE RecordFailed(i)
  BY <1>13 DEF RecordFailed
<1>14. CASE RecordFailedFails(i)
  BY <1>14 DEF RecordFailedFails
<1> QED
  BY <1>1, <1>2, <1>3, <1>4, <1>5, <1>6, <1>7, <1>8, <1>9, <1>10, <1>11, <1>12, <1>13, <1>14
  DEF GoroutineStep

\* Time changes no status; a crash forgets goroutines and handlers, and the proofs that were
\* in memory only become lost.
LEMMA TimeAndCrashKeepIInv == IInv /\ (TimeStep \/ Crash) => IInv'
<1> SUFFICES ASSUME IInv, TimeStep \/ Crash PROVE IInv'
  OBVIOUS
<1> USE DEF IInv, TypeOK, LoopOwnsWorkers, AttemptOwnsRow, ScanStaysTrue, DropIsSafe, QueuedHasAttempts,
            CopiesCounted, ProofKept, DuplicateNeedsLostProof, Status, Phase,
            rows, control, ghosts
<1>1. ASSUME NEW i \in Items, BecomesDue(i) \/ BecomesStale(i) PROVE IInv'
  BY <1>1 DEF BecomesDue, BecomesStale
<1>2. CASE Crash
  BY <1>2 DEF Crash, Fault, Handler, Idle
<1> QED
  BY <1>1, <1>2 DEF TimeStep

\* Handlers, loop, attempts, time and restarts together.
LEMMA StepKeepsIInv == IInv /\ [Next]_vars => IInv'
<1> SUFFICES ASSUME IInv, [Next]_vars PROVE IInv'
  OBVIOUS
<1>1. CASE Next
  BY <1>1, RequestKeepsIInv, LoopKeepsIInv, GoroutineKeepsIInv, TimeAndCrashKeepIInv DEF Next
<1>2. CASE UNCHANGED vars
  BY <1>2 DEF vars, IInv, TypeOK, LoopOwnsWorkers, AttemptOwnsRow, ScanStaysTrue, DropIsSafe, QueuedHasAttempts,
              CopiesCounted, ProofKept, DuplicateNeedsLostProof
<1> QED
  BY <1>1, <1>2

\* In every state an attempt owns its row, the loop's picture of its workers is right, and
\* every copy of a mail is accounted for by an attempt, a marker or a lost proof
\* (processDueSendQueue and the handlers of send_queue rows).
THEOREM InvariantHolds == Spec => []IInv
  BY InitIInv, StepKeepsIInv, PTL DEF Spec

\* Every variable keeps to its type for any number of rows, handlers, attempts and faults; in
\* particular no row is attempted more than MaxAttempts times between two requests.
THEOREM TypeCorrect == Spec => []TypeOK
  BY InvariantHolds, PTL DEF IInv

\* From its claim to its outcome an attempt is the only one that decides about its row.
THEOREM AttemptsOwnRows == Spec => []AttemptOwnsRow
  BY InvariantHolds, PTL DEF IInv

\* The SMTP server takes a mail twice for one request only if the proof that it took the
\* first copy never reached the disk, or was removed by a handler that came late.
THEOREM NoDuplicateWithProof == Spec => []DuplicateNeedsLostProof
  BY InvariantHolds, PTL DEF IInv

(***************************************************************************)
(* The semaphore: a step starts at most one session, and only when fewer   *)
(* than Concurrency are open.                                              *)
(***************************************************************************)
LEMMA RunningGrowsByClaim ==
  ASSUME IInv, [Next]_vars
  PROVE  \/ Running' \subseteq Running
         \/ Cardinality(Running) < Concurrency /\ \E i \in Items : Running' = Running \cup {i}
         \/ Running = {} /\ \E i \in Items : Running' = {i}
<1> USE DEF Running, IInv, TypeOK, control, ghosts, Fault
<1>1. ASSUME NEW i \in Items, GoroutineStep(i) PROVE
        \/ Running' \subseteq Running
        \/ Cardinality(Running) < Concurrency /\ Running' = Running \cup {i}
  <2> USE DEF WorkerStep
  <2>1. CASE Claim(i)
    <3>1. Cardinality(Running) < Concurrency
      BY <2>1 DEF Claim
    <3>2. Running' = Running \cup {i}
      BY <2>1 DEF Claim
    <3> QED
      BY <3>1, <3>2
  <2>2. ASSUME NEW p \in Phase, NEW q \in Phase, WorkerStep(i, p, q),
               p \notin {"none", "picked"} \/ q = "none"
        PROVE  Running' \subseteq Running
    BY <2>2 DEF Phase
  <2>3. CASE ~Claim(i)
    BY <1>1, <2>2, <2>3
    DEF GoroutineStep, ClaimNothing, ClaimFails, SmtpAccepts, SmtpRejects, SmtpReplyLost,
        WriteMarker, WriteMarkerFails, RecordDelivered, RecordDeliveredFails, DropMarker,
        DropMarkerFails, RecordFailed, RecordFailedFails, Phase
  <2> QED
    BY <2>1, <2>3
<1>2. ASSUME NEW i \in Items, RecoverDelivered(i) PROVE Running = {} /\ Running' = {i}
  BY <1>2 DEF RecoverDelivered
<1>3. ASSUME UNCHANGED worker PROVE Running' \subseteq Running
  BY <1>3
<1>4. CASE Crash \/ SelectDue
  BY <1>4 DEF Crash, SelectDue
<1>5. RequestStep \/ TimeStep \/ Tick \/ RecoverFails \/ BatchDone
        \/ (\E i \in Items : RecoverQueued(i)) => UNCHANGED worker
  BY DEF RequestStep, QueuedOnRequest, EnqueueNew, DirectRetry, UserRetry, DirectCancel,
         MailboxDeleted, EnqueueFound, UserCancel, AdminDelete, EnqueueUpdate,
         HandlerDropsMarker, HandlerDropFails, TimeStep, BecomesDue, BecomesStale,
         Tick, RecoverFails, BatchDone, RecoverQueued
<1> QED
  BY <1>1, <1>2, <1>3, <1>4, <1>5 DEF Next, LoopStep, vars

\* Only Claim opens a session, and its guard counts those that are open.
LEMMA StepKeepsSessionsBounded ==
  IInv /\ SessionsBounded /\ [Next]_vars => SessionsBounded'
<1> SUFFICES ASSUME IInv, SessionsBounded, [Next]_vars PROVE Cardinality(Running') <= Concurrency
  BY DEF SessionsBounded
<1>1. IsFiniteSet(Running) /\ Cardinality(Running) \in Nat
  BY ItemsAssumption, FS_Subset, FS_CardinalityType DEF Running
<1>2. Concurrency \in Nat /\ 1 <= Concurrency
  BY ConcurrencyAssumption
<1>3. CASE Running' \subseteq Running
  <2>1. Cardinality(Running') <= Cardinality(Running) /\ Cardinality(Running') \in Nat
    BY <1>1, <1>3, FS_Subset, FS_CardinalityType
  <2> QED
    BY <1>1, <1>2, <2>1 DEF SessionsBounded
<1>4. ASSUME NEW i \in Items, Cardinality(Running) < Concurrency, Running' = Running \cup {i}
      PROVE  Cardinality(Running') <= Concurrency
  <2>1. \/ Cardinality(Running') = Cardinality(Running)
        \/ Cardinality(Running') = Cardinality(Running) + 1
    BY <1>1, <1>4, FS_AddElement
  <2> QED
    BY <1>1, <1>2, <1>4, <2>1
<1>5. ASSUME NEW i \in Items, Running' = {i} PROVE Cardinality(Running') <= Concurrency
  BY <1>2, <1>5, FS_Singleton
<1> QED
  BY RunningGrowsByClaim, <1>3, <1>4, <1>5

\* However long a batch is, no more than Concurrency SMTP sessions are open at once.
THEOREM SessionsStayBounded == Spec => []SessionsBounded
<1>1. Init => SessionsBounded
  <2> SUFFICES ASSUME Init PROVE SessionsBounded
    OBVIOUS
  <2>1. Running = {}
    BY DEF Init, Running
  <2> QED
    BY <2>1, FS_EmptySet, ConcurrencyAssumption DEF SessionsBounded
<1> QED
  BY <1>1, InvariantHolds, StepKeepsSessionsBounded, PTL DEF Spec

(***************************************************************************)
(* Refinement: under the invariant every step of the queue is a legal move *)
(* of the life cycle, or leaves it unchanged.                              *)
(***************************************************************************)
LEMMA StepIsLegalMove == IInv /\ [Next]_vars => [Lifecycle!Next]_<<status, attempts>>
<1> SUFFICES ASSUME IInv, [Next]_vars, ~UNCHANGED <<status, attempts>>
             PROVE  Lifecycle!Next
  OBVIOUS
<1> USE DEF Lifecycle!Next, Lifecycle!Move, rows
<1>t. status \in [Items -> Status] /\ attempts \in [Items -> 0..MaxAttempts]
  BY DEF IInv, TypeOK
<1>1. ASSUME NEW i \in Items, Requeue(i), status[i] \in {"none", "failed", "canceled", "delivered"}
      PROVE  Lifecycle!Next
  BY <1>1, <1>t DEF Requeue, Lifecycle!Queue
<1>2. ASSUME NEW i \in Items, SetStatus(i, "canceled"), status[i] \in {"queued", "failed"}
      PROVE  Lifecycle!Next
  BY <1>2, <1>t DEF SetStatus, Lifecycle!Cancel
<1>3. ASSUME NEW i \in Items, SetStatus(i, "deleted"), Exists(i)
      PROVE  Lifecycle!Next
  BY <1>3, <1>t DEF SetStatus, Exists, Lifecycle!Remove
<1>4. ASSUME NEW i \in Items, SetStatus(i, "delivered"), status[i] = "sending"
      PROVE  Lifecycle!Next
  BY <1>4, <1>t DEF SetStatus, Lifecycle!Conclude
<1>5. CASE RequestStep
  BY <1>1, <1>2, <1>3, <1>5
  DEF RequestStep, QueuedOnRequest, EnqueueNew, DirectRetry, UserRetry, DirectCancel,
      MailboxDeleted, EnqueueFound, UserCancel, AdminDelete, EnqueueUpdate,
      HandlerDropsMarker, HandlerDropFails, IInv, TypeOK, Handler, Idle
<1>6. ASSUME NEW i \in Items, RecoverDelivered(i) PROVE Lifecycle!Next
  BY <1>4, <1>6 DEF RecoverDelivered, IInv, ScanStaysTrue, Exists
<1>7. ASSUME NEW i \in Items, RecoverQueued(i) PROVE Lifecycle!Next
  BY <1>7, <1>t DEF RecoverQueued, IInv, ScanStaysTrue, Lifecycle!Interrupt
<1>8. ASSUME NEW i \in Items, GoroutineStep(i) PROVE Lifecycle!Next
  <2>1. ASSUME TakeRow(i), Claimable(i) PROVE Lifecycle!Next
    BY <2>1, <1>t DEF TakeRow, Claimable, Lifecycle!Attempt
  <2>2. CASE RecordDelivered(i)
    BY <1>4, <2>2 DEF RecordDelivered, WorkerStep, IInv, AttemptOwnsRow, Exists
  <2>3. CASE RecordFailed(i)
    <3>1. status[i] = "sending" /\ status' = [status EXCEPT ![i] = "failed"] /\ attempts' = attempts
      BY <2>3 DEF RecordFailed, WorkerStep, IInv, AttemptOwnsRow, Exists
    <3> QED
      BY <3>1, <1>t DEF Lifecycle!Conclude
  <2> QED
    BY <1>8, <2>1, <2>2, <2>3
    DEF GoroutineStep, Claim, ClaimNothing, ClaimFails, SmtpAccepts, SmtpRejects,
        SmtpReplyLost, WriteMarker, WriteMarkerFails, RecordDeliveredFails, DropMarker,
        DropMarkerFails, RecordFailedFails
<1>9. CASE TimeStep \/ Crash \/ Tick \/ RecoverFails \/ SelectDue \/ BatchDone \/ UNCHANGED vars
  BY <1>9 DEF TimeStep, BecomesDue, BecomesStale, Crash, Tick, RecoverFails, SelectDue,
              BatchDone, vars
<1> QED
  BY <1>5, <1>6, <1>7, <1>8, <1>9 DEF Next, LoopStep

\* The queue implements SendLifecycle: whatever the interleaving of handlers, goroutines,
\* recoveries and crashes, a row only ever makes the moves the life cycle allows.
THEOREM Refinement == Spec => ImplementsLifecycle
<1>1. Init => Lifecycle!Init
  BY DEF Init, Lifecycle!Init
<1> QED
  BY <1>1, InvariantHolds, StepIsLegalMove, PTL DEF Spec, ImplementsLifecycle, Lifecycle!Spec

\* Attempts that run side by side do not collide: each owns its row, within the semaphore.
THEOREM AttemptsStayApart == Spec => []AttemptsDoNotCollide
<1>1. AttemptOwnsRow /\ SessionsBounded => AttemptsDoNotCollide
  BY DEF AttemptsDoNotCollide
<1> QED
  BY <1>1, AttemptsOwnRows, SessionsStayBounded, PTL

------------------------------------------------------------------------------
(***************************************************************************)
(* Silent loss needs two faults.  Before the first one a marker is there   *)
(* only while its goroutine is about to drop it; after one fault a row     *)
(* that was left in "sending" and has a marker owes it to its own attempt. *)
(***************************************************************************)
Interrupted(i) == status[i] = "sending" /\ worker[i] \in {"none", "picked"}
MarkersAreTrue ==
    /\ \A i \in Items : worker[i] \in {"accepted", "marked"} => accepted[i] > 0
    /\ faults = 0 => \A i \in marker : worker[i] \in {"marked", "delivered"}
    /\ faults <= 1 => \A i \in marker : Interrupted(i) => accepted[i] > 0
LossInv == MarkersAreTrue /\ NoSilentLoss

LEMMA RequestKeepsLossInv == IInv /\ LossInv /\ RequestStep => LossInv'
<1> SUFFICES ASSUME IInv, LossInv, RequestStep PROVE LossInv'
  OBVIOUS
<1>t. /\ status \in [Items -> Status] /\ worker \in [Items -> Phase] /\ accepted \in [Items -> 0..MaxAttempts]
      /\ marker \subseteq Items /\ faults \in Nat /\ req \in [Requests -> Handler]
  BY DEF IInv, TypeOK
<1> USE <1>t DEF LossInv, MarkersAreTrue, NoSilentLoss, Interrupted, rows, control, ghosts, Exists
<1>1. ASSUME NEW i \in Items, EnqueueNew(i) \/ DirectRetry(i) PROVE LossInv'
  BY <1>1 DEF EnqueueNew, DirectRetry, Requeue, IInv, AttemptOwnsRow
<1>2. ASSUME NEW i \in Items, NEW r \in Requests, UserRetry(r, i) PROVE LossInv'
  BY <1>2 DEF UserRetry, Requeue, IInv, AttemptOwnsRow
<1>3. ASSUME NEW i \in Items, DirectCancel(i) \/ MailboxDeleted(i) PROVE LossInv'
  BY <1>3 DEF DirectCancel, MailboxDeleted, SetStatus
<1>4. ASSUME NEW r \in Requests, NEW i \in Items, UserCancel(r, i) \/ AdminDelete(r, i) PROVE LossInv'
  BY <1>4 DEF UserCancel, AdminDelete, SetStatus
<1>5. ASSUME NEW r \in Requests, NEW i \in Items, EnqueueFound(r, i) PROVE LossInv'
  BY <1>5 DEF EnqueueFound
<1>6. ASSUME NEW r \in Requests, EnqueueUpdate(r) PROVE LossInv'
  <2>1. req[r].item \in Items /\ req[r].saw \in {"delivered", "canceled", "failed"}
    BY <1>6 DEF EnqueueUpdate, Handler, Idle
  <2> QED
    BY <1>6, <2>1 DEF EnqueueUpdate, Requeue, IInv, AttemptOwnsRow
<1>7. ASSUME NEW r \in Requests, HandlerDropsMarker(r) \/ HandlerDropFails(r) PROVE LossInv'
  BY <1>7 DEF HandlerDropsMarker, HandlerDropFails, Fault
<1> QED
  BY <1>1, <1>2, <1>3, <1>4, <1>5, <1>6, <1>7 DEF RequestStep, QueuedOnRequest

LEMMA LoopKeepsLossInv == IInv /\ LossInv /\ (LoopStep \/ TimeStep \/ Crash) => LossInv'
<1> SUFFICES ASSUME IInv, LossInv, LoopStep \/ TimeStep \/ Crash PROVE LossInv'
  OBVIOUS
<1>t. /\ status \in [Items -> Status] /\ worker \in [Items -> Phase] /\ accepted \in [Items -> 0..MaxAttempts]
      /\ marker \subseteq Items /\ faults \in Nat
  BY DEF IInv, TypeOK
<1> USE <1>t DEF LossInv, MarkersAreTrue, NoSilentLoss, Interrupted, rows, control, ghosts, Exists
<1>1. CASE Tick \/ RecoverFails \/ BatchDone \/ TimeStep
  BY <1>1 DEF Tick, RecoverFails, BatchDone, TimeStep, BecomesDue, BecomesStale, Fault
<1>2. CASE SelectDue
  BY <1>2 DEF SelectDue, Running
<1>3. ASSUME NEW i \in Items, RecoverDelivered(i) PROVE LossInv'
  <2>1. worker[i] \in {"none", "picked"} /\ (status[i] = "sending" \/ status[i] = "deleted")
    BY <1>3 DEF RecoverDelivered, Running, IInv, ScanStaysTrue
  <2> QED
    BY <1>3, <2>1 DEF RecoverDelivered, SetStatus
<1>4. ASSUME NEW i \in Items, RecoverQueued(i) PROVE LossInv'
  BY <1>4 DEF RecoverQueued
<1>5. CASE Crash
  <2>1. faults' = faults + 1 /\ UNCHANGED <<status, marker, accepted>> /\ \A i \in Items : worker'[i] = "none"
    BY <1>5 DEF Crash, Fault
  <2> QED
    BY <2>1 DEF IInv, DropIsSafe
<1> QED
  BY <1>1, <1>2, <1>3, <1>4, <1>5 DEF LoopStep

LEMMA GoroutineKeepsLossInv == ASSUME NEW i \in Items, IInv, LossInv, GoroutineStep(i) PROVE LossInv'
<1>t. /\ status \in [Items -> Status] /\ worker \in [Items -> Phase] /\ accepted \in [Items -> 0..MaxAttempts]
      /\ marker \subseteq Items /\ faults \in Nat
  BY DEF IInv, TypeOK
<1> USE <1>t DEF LossInv, MarkersAreTrue, NoSilentLoss, Interrupted, rows, control, ghosts, Exists, WorkerStep, Fault
<1>1. CASE Claim(i) \/ ClaimNothing(i)
  BY <1>1 DEF Claim, ClaimNothing, TakeRow
<1>2. CASE ClaimFails(i)
  BY <1>2 DEF ClaimFails, TakeRow
<1>3. CASE SmtpAccepts(i) \/ SmtpReplyLost(i)
  BY <1>3 DEF SmtpAccepts, SmtpReplyLost
<1>4. CASE SmtpRejects(i) \/ WriteMarker(i) \/ WriteMarkerFails(i)
  BY <1>4 DEF SmtpRejects, WriteMarker, WriteMarkerFails
<1>5. CASE RecordDelivered(i) \/ RecordDeliveredFails(i)
  BY <1>5 DEF RecordDelivered, RecordDeliveredFails, SetStatus
<1>6. CASE DropMarker(i) \/ DropMarkerFails(i)
  BY <1>6 DEF DropMarker, DropMarkerFails, IInv, DropIsSafe
<1>7. CASE RecordFailed(i) \/ RecordFailedFails(i)
  BY <1>7 DEF RecordFailed, RecordFailedFails
<1> QED
  BY <1>1, <1>2, <1>3, <1>4, <1>5, <1>6, <1>7 DEF GoroutineStep

\* With one crash or one failed call at most, a row is shown as delivered only if the SMTP server
\* took its mail (recoverStaleSendQueueItems and the markers of markSendQueueDelivered), for any
\* number of rows and handlers.
THEOREM NothingLostSilently == Spec => []NoSilentLoss
<1>1. Init => LossInv
  BY DEF Init, LossInv, MarkersAreTrue, NoSilentLoss, Interrupted
<1>2. IInv /\ LossInv /\ [Next]_vars => LossInv'
  <2>1. UNCHANGED vars /\ LossInv => LossInv'
    BY DEF vars, LossInv, MarkersAreTrue, NoSilentLoss, Interrupted
  <2> QED
    BY <2>1, RequestKeepsLossInv, LoopKeepsLossInv, GoroutineKeepsLossInv DEF Next
<1>3. LossInv => NoSilentLoss
  BY DEF LossInv
<1> QED
  BY <1>1, <1>2, <1>3, InvariantHolds, PTL DEF Spec
=============================================================================
