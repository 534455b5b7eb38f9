------------------------- MODULE StatusWebhookProofs -------------------------
(***************************************************************************)
(* Proofs about StatusWebhook: an event is notified once, the attempts are *)
(* bounded, the subscriber does not see an accepted event again, and no    *)
(* row is dropped, for any events, limits and number of faults.            *)
(***************************************************************************)
EXTENDS StatusWebhook, TLAPS

\* The worker has the row in memory and has not posted it, or has posted it and not recorded it.
Pending(e)  == e \in batch \/ (held = e /\ step = "post")
InFlight(e) == held = e /\ step \in {"failed", "accepted"}

\* What is true of an event that has no outbox row yet.
Untouched(e) ==
    /\ note[e] = "none" /\ tries[e] = 0
    /\ posts[e] = 0 /\ accepts[e] = 0 /\ lost[e] = 0
    /\ e \notin batch /\ held # e

\* Once an event was notified it stays stored, or its send is gone and refuses callbacks.
OnceNotified(e) ==
    /\ times[e] = 0 => Untouched(e)
    /\ times[e] > 0 => e \in stored \/ (e \in Callbacks /\ SendOf[e] \notin sends)
    /\ times[e] <= 1

\* Requests are counted in attempt_count, or their outcome was lost or is still to be recorded.
Counted(e) ==
    /\ held = e => e \notin batch
    /\ Pending(e) => tries[e] < MaxAttempts /\ posts[e] <= tries[e] + lost[e] /\ accepts[e] <= lost[e]
    /\ InFlight(e) => tries[e] < MaxAttempts /\ posts[e] <= tries[e] + lost[e] + 1
    /\ held = e /\ step = "failed" => accepts[e] <= lost[e]
    /\ held = e /\ step = "accepted" => accepts[e] > 0 /\ accepts[e] <= lost[e] + 1
    /\ note[e] = "waiting" /\ ~InFlight(e) => posts[e] <= tries[e] + lost[e] /\ accepts[e] <= lost[e]
    /\ posts[e] <= MaxAttempts + lost[e]
    /\ accepts[e] <= 1 + lost[e]

Kept(e) ==
    /\ note[e] = "delivered" => accepts[e] > 0
    /\ times[e] > 0 /\ note[e] = "none" =>
         accepts[e] > 0 \/ tries[e] = MaxAttempts \/ SendOf[e] \notin boxes

\* The inductive invariant.
IInv == TypeOK /\ \A e \in Events : OnceNotified(e) /\ Counted(e) /\ Kept(e)

\* The state of the first instant satisfies the invariant.
LEMMA InitIInv == Init => IInv
BY EventsAssumption, NumbersAssumption
   DEF Init, IInv, TypeOK, Zero, Steps, OnceNotified, Untouched, Counted, Kept

\* Events that are not stored, and whose sends exist, are stored and their rows inserted.
LEMMA EnqueueStep ==
    ASSUME IInv, NEW q, NEW new \in SUBSET (Events \ stored), {q[i] : i \in DOMAIN q} = new,
           \A e \in new : e \in Audits \/ SendOf[e] \in sends,
           Enqueue(q)
    PROVE  IInv'
<1>1. /\ note'  = [e \in Events |-> IF e \in new /\ note[e] = "none" THEN "waiting" ELSE note[e]]
      /\ times' = [e \in Events |-> IF e \in new /\ note[e] = "none" THEN times[e] + 1 ELSE times[e]]
      /\ stored' = stored \cup new
      /\ UNCHANGED <<sends, boxes, tries, batch, step, held, faults, posts, accepts, lost>>
  BY DEF Enqueue, worker
<1>2. \A e \in new : times[e] = 0
  BY EventsAssumption DEF IInv, TypeOK, OnceNotified
<1>3. TypeOK'
  <2>1. note' \in [Events -> {"none", "waiting", "delivered"}]
    BY <1>1 DEF IInv, TypeOK
  <2>2. times' \in [Events -> Nat]
    BY <1>1 DEF IInv, TypeOK
  <2> QED BY <1>1, <2>1, <2>2 DEF IInv, TypeOK
<1>4. ASSUME NEW e \in Events PROVE OnceNotified(e)'
  <2>1. CASE e \in new
    BY <1>1, <1>2, <2>1 DEF IInv, OnceNotified, Untouched
  <2>2. CASE e \notin new
    BY <1>1, <2>2 DEF IInv, OnceNotified, Untouched
  <2> QED BY <2>1, <2>2
<1>5. ASSUME NEW e \in Events PROVE Counted(e)'
  <2>1. CASE e \in new
    BY <1>1, <1>2, <2>1 DEF IInv, OnceNotified, Untouched, Counted, Pending, InFlight
  <2>2. CASE e \notin new
    BY <1>1, <2>2 DEF IInv, Counted, Pending, InFlight
  <2> QED BY <2>1, <2>2
<1>6. ASSUME NEW e \in Events PROVE Kept(e)'
  <2>1. CASE e \in new
    BY <1>1, <1>2, <2>1 DEF IInv, Kept
  <2>2. CASE e \notin new
    BY <1>1, <2>2 DEF IInv, Kept
  <2> QED BY <2>1, <2>2
<1> QED BY <1>3, <1>4, <1>5, <1>6 DEF IInv

\* An audit event is stored and its row inserted.
LEMMA AuditStep == ASSUME IInv, NEW x \in Events, Audit(x) PROVE IInv'
<1>1. x \in Audits /\ x \notin stored /\ Enqueue(<<x>>)
  BY DEF Audit
<1>2. {<<x>>[i] : i \in DOMAIN <<x>>} = {x}
  OBVIOUS
<1> QED BY <1>1, <1>2, EnqueueStep

\* A request of a provider.
LEMMA CallbackStep == ASSUME IInv, NEW events \in SUBSET Callbacks, Callback(events) PROVE IInv'
<1> DEFINE new == events \ stored
<1>1. /\ \A e \in events : SendOf[e] \in sends
      /\ \E q \in Orders(new) : Enqueue(q)
  BY DEF Callback
<1>2. PICK q \in Orders(new) : Enqueue(q)
  BY <1>1
<1>3. {q[i] : i \in DOMAIN q} = new
  BY <1>2 DEF Orders
<1>4. new \in SUBSET (Events \ stored)
  BY DEF Events
<1> HIDE DEF new
<1>5. \A e \in new : e \in Audits \/ SendOf[e] \in sends
  BY <1>1 DEF new
<1> QED BY <1>2, <1>3, <1>4, <1>5, EnqueueStep

\* An administrator deletes a queue row.
LEMMA DeleteSendStep == ASSUME IInv, NEW s \in Sends, DeleteSend(s) PROVE IInv'
<1>1. TypeOK'
  BY DEF IInv, TypeOK, DeleteSend, worker, history
<1>2. ASSUME NEW e \in Events PROVE OnceNotified(e)'
  BY DEF IInv, TypeOK, Events, OnceNotified, Untouched, DeleteSend, worker, history
<1>3. ASSUME NEW e \in Events PROVE Counted(e)'
  BY DEF IInv, Counted, Pending, InFlight, DeleteSend, worker, history
<1>4. ASSUME NEW e \in Events PROVE Kept(e)'
  BY DEF IInv, Kept, DeleteSend, history
<1> QED BY <1>1, <1>2, <1>3, <1>4 DEF IInv

\* A mailbox is deleted.
LEMMA DeleteMailboxStep == ASSUME IInv, NEW s \in Sends, DeleteMailbox(s) PROVE IInv'
<1>1. TypeOK'
  BY DEF IInv, TypeOK, DeleteMailbox, worker, history
<1>2. ASSUME NEW e \in Events PROVE OnceNotified(e)'
  BY DEF IInv, TypeOK, Events, OnceNotified, Untouched, DeleteMailbox, worker, history
<1>3. ASSUME NEW e \in Events PROVE Counted(e)'
  BY DEF IInv, Counted, Pending, InFlight, DeleteMailbox, worker, history
<1>4. ASSUME NEW e \in Events PROVE Kept(e)'
  BY DEF IInv, Kept, DeleteMailbox, history
<1> QED BY <1>1, <1>2, <1>3, <1>4 DEF IInv

\* Old rows are deleted.
LEMMA PurgeStep == ASSUME IInv, Purge PROVE IInv'
<1>1. TypeOK'
  BY DEF IInv, TypeOK, Steps, Purge, history, At, GoTo
<1>2. ASSUME NEW e \in Events PROVE OnceNotified(e)'
  BY DEF IInv, TypeOK, OnceNotified, Untouched, Purge, history, At, GoTo
<1>3. ASSUME NEW e \in Events PROVE Counted(e)'
  BY DEF IInv, Counted, Pending, InFlight, Purge, history, At, GoTo
<1>4. ASSUME NEW e \in Events PROVE Kept(e)'
  BY DEF IInv, Kept, Purge, history, At, GoTo
<1> QED BY <1>1, <1>2, <1>3, <1>4 DEF IInv

\* The worker reads what is due.
LEMMA SelectStep == ASSUME IInv, Select PROVE IInv'
<1>1. TypeOK'
  BY DEF IInv, TypeOK, Steps, Select, tables, history, At, GoTo
<1>2. ASSUME NEW e \in Events PROVE OnceNotified(e)'
  BY DEF IInv, TypeOK, OnceNotified, Untouched, Select, tables, history, At, GoTo, Waiting
<1>3. ASSUME NEW e \in Events PROVE Counted(e)'
  BY EventsAssumption
     DEF IInv, TypeOK, Counted, Pending, InFlight, Select, tables, history, At, Waiting
<1>4. ASSUME NEW e \in Events PROVE Kept(e)'
  BY DEF IInv, TypeOK, Kept, Select, tables, history, At
<1> QED BY <1>1, <1>2, <1>3, <1>4 DEF IInv

\* The worker turns to a row.
LEMMA TakeStep == ASSUME IInv, NEW x \in Events, Take(x) PROVE IInv'
<1>1. TypeOK'
  BY EventsAssumption DEF IInv, TypeOK, Steps, Take, tables, history, GoTo
<1>2. ASSUME NEW e \in Events PROVE OnceNotified(e)'
  BY EventsAssumption DEF IInv, TypeOK, OnceNotified, Untouched, Take, tables, history, GoTo
<1>3. ASSUME NEW e \in Events PROVE Counted(e)'
  BY DEF IInv, Counted, Pending, InFlight, Take, tables, history, At, GoTo
<1>4. ASSUME NEW e \in Events PROVE Kept(e)'
  BY DEF IInv, Kept, Take, tables, history, At, GoTo
<1> QED BY <1>1, <1>2, <1>3, <1>4 DEF IInv

\* The subscriber accepts.
LEMMA AcceptedStep == ASSUME IInv, Accepted PROVE IInv'
<1>1. TypeOK'
  BY DEF IInv, TypeOK, Steps, Accepted, tables, At, GoTo, Inc
<1>2. ASSUME NEW e \in Events PROVE OnceNotified(e)'
  BY DEF IInv, TypeOK, OnceNotified, Untouched, Accepted, tables, At, GoTo, Inc
<1>3. ASSUME NEW e \in Events PROVE Counted(e)'
  BY NumbersAssumption DEF IInv, TypeOK, Counted, Pending, InFlight, Accepted, tables, At, GoTo, Inc
<1>4. ASSUME NEW e \in Events PROVE Kept(e)'
  BY NumbersAssumption DEF IInv, TypeOK, Kept, Accepted, tables, At, GoTo, Inc
<1> QED BY <1>1, <1>2, <1>3, <1>4 DEF IInv

\* The subscriber refuses.
LEMMA RefusedStep == ASSUME IInv, Refused PROVE IInv'
<1>1. TypeOK'
  BY DEF IInv, TypeOK, Steps, Refused, tables, At, GoTo, Inc
<1>2. ASSUME NEW e \in Events PROVE OnceNotified(e)'
  BY DEF IInv, TypeOK, OnceNotified, Untouched, Refused, tables, At, GoTo, Inc
<1>3. ASSUME NEW e \in Events PROVE Counted(e)'
  BY NumbersAssumption DEF IInv, TypeOK, Counted, Pending, InFlight, Refused, tables, At, GoTo, Inc
<1>4. ASSUME NEW e \in Events PROVE Kept(e)'
  BY NumbersAssumption DEF IInv, TypeOK, Kept, Refused, tables, At, GoTo
<1> QED BY <1>1, <1>2, <1>3, <1>4 DEF IInv

\* The answer is lost.
LEMMA AnswerLostStep == ASSUME IInv, AnswerLost PROVE IInv'
<1>1. TypeOK'
  BY DEF IInv, TypeOK, Steps, AnswerLost, tables, Fault, At, GoTo, Inc
<1>2. ASSUME NEW e \in Events PROVE OnceNotified(e)'
  BY DEF IInv, TypeOK, OnceNotified, Untouched, AnswerLost, tables, At, GoTo, Inc
<1>3. ASSUME NEW e \in Events PROVE Counted(e)'
  BY NumbersAssumption DEF IInv, TypeOK, Counted, Pending, InFlight, AnswerLost, tables, At, Inc
<1>4. ASSUME NEW e \in Events PROVE Kept(e)'
  BY NumbersAssumption DEF IInv, TypeOK, Kept, AnswerLost, tables, At, Inc
<1> QED BY <1>1, <1>2, <1>3, <1>4 DEF IInv

\* A success is recorded.
LEMMA RecordSuccessStep == ASSUME IInv, RecordSuccess PROVE IInv'
<1>1. TypeOK'
  BY NumbersAssumption
     DEF IInv, TypeOK, Steps, RecordSuccess, history, At, GoTo, Inc, Handled, Counted, InFlight
<1>2. ASSUME NEW e \in Events PROVE OnceNotified(e)'
  BY EventsAssumption, NumbersAssumption
     DEF IInv, TypeOK, OnceNotified, Untouched, RecordSuccess, history, Inc, Handled
<1>3. ASSUME NEW e \in Events PROVE Counted(e)'
  BY EventsAssumption
     DEF IInv, TypeOK, Counted, Pending, InFlight, RecordSuccess, history, Inc, Handled
<1>4. ASSUME NEW e \in Events PROVE Kept(e)'
  BY DEF IInv, TypeOK, Counted, Kept, RecordSuccess, history, At, Inc
<1> QED BY <1>1, <1>2, <1>3, <1>4 DEF IInv

\* A failure is recorded.
LEMMA RecordFailureStep == ASSUME IInv, RecordFailure PROVE IInv'
<1>1. TypeOK'
  BY NumbersAssumption
     DEF IInv, TypeOK, Steps, RecordFailure, history, At, GoTo, Inc, Handled, Counted, InFlight
<1>2. ASSUME NEW e \in Events PROVE OnceNotified(e)'
  BY EventsAssumption, NumbersAssumption
     DEF IInv, TypeOK, OnceNotified, Untouched, RecordFailure, history, Inc, Handled
<1>3. ASSUME NEW e \in Events PROVE Counted(e)'
  BY EventsAssumption
     DEF IInv, TypeOK, Counted, Pending, InFlight, RecordFailure, history, At, Inc, Handled
<1>4. ASSUME NEW e \in Events PROVE Kept(e)'
  BY DEF IInv, TypeOK, Kept, RecordFailure, history, Inc
<1> QED BY <1>1, <1>2, <1>3, <1>4 DEF IInv

\* An outcome is not recorded.
LEMMA RecordFailsStep == ASSUME IInv, RecordFails PROVE IInv'
<1>1. TypeOK'
  BY DEF IInv, TypeOK, Steps, RecordFails, tables, Fault, At, GoTo, Inc, Handled
<1>2. ASSUME NEW e \in Events PROVE OnceNotified(e)'
  BY EventsAssumption
     DEF IInv, TypeOK, OnceNotified, Untouched, RecordFails, tables, At, GoTo, Inc, Handled
<1>3. ASSUME NEW e \in Events PROVE Counted(e)'
  BY EventsAssumption, NumbersAssumption
     DEF IInv, TypeOK, Counted, Pending, InFlight, RecordFails, tables, Inc, Handled
<1>4. ASSUME NEW e \in Events PROVE Kept(e)'
  BY DEF IInv, Kept, RecordFails, tables
<1> QED BY <1>1, <1>2, <1>3, <1>4 DEF IInv

\* The process stops.
LEMMA CrashStep == ASSUME IInv, Crash PROVE IInv'
<1>1. TypeOK'
  BY DEF IInv, TypeOK, Steps, Crash, tables, Fault, At, GoTo, Inc
<1>2. ASSUME NEW e \in Events PROVE OnceNotified(e)'
  BY EventsAssumption DEF IInv, TypeOK, OnceNotified, Untouched, Crash, tables, At, GoTo, Inc
<1>3. ASSUME NEW e \in Events PROVE Counted(e)'
  BY NumbersAssumption DEF IInv, TypeOK, Counted, Pending, InFlight, Crash, tables, At, GoTo, Inc
<1>4. ASSUME NEW e \in Events PROVE Kept(e)'
  BY NumbersAssumption DEF IInv, TypeOK, Kept, Crash, tables, At, GoTo
<1> QED BY <1>1, <1>2, <1>3, <1>4 DEF IInv

\* What the worker's end of a pass, the time of a retry and a stutter leave alone.
LEMMA OtherSteps ==
    ASSUME IInv, EndPass \/ (\E e \in Events : RetryTime(e)) \/ UNCHANGED vars
    PROVE  IInv'
<1>1. /\ UNCHANGED <<sends, boxes, stored, note, tries, batch, held, faults, history>>
      /\ step' = step \/ (step = "next" /\ step' = "idle")
  BY DEF EndPass, RetryTime, vars, tables, worker, At, GoTo
<1>2. TypeOK'
  BY <1>1 DEF IInv, TypeOK, Steps, history
<1>3. ASSUME NEW e \in Events PROVE OnceNotified(e)' /\ Counted(e)' /\ Kept(e)'
  BY <1>1 DEF IInv, OnceNotified, Untouched, Counted, Kept, Pending, InFlight, history
<1> QED BY <1>2, <1>3 DEF IInv

\* The inductive step, one case per action.
LEMMA NextIInv == IInv /\ [Next]_vars => IInv'
<1> SUFFICES ASSUME IInv, [Next]_vars PROVE IInv'
  OBVIOUS
<1>1. CASE WorkerStep
  BY <1>1, PurgeStep, SelectStep, TakeStep, AcceptedStep, RefusedStep, RecordSuccessStep,
     RecordFailureStep, OtherSteps DEF WorkerStep
<1>2. CASE AnswerLost \/ RecordFails \/ Crash
  BY <1>2, AnswerLostStep, RecordFailsStep, CrashStep
<1>3. CASE \E e \in Events : Audit(e) \/ RetryTime(e)
  BY <1>3, AuditStep, OtherSteps
<1>4. CASE \E events \in SUBSET Callbacks : Callback(events)
  BY <1>4, CallbackStep
<1>5. CASE \E s \in Sends : DeleteSend(s) \/ DeleteMailbox(s)
  BY <1>5, DeleteSendStep, DeleteMailboxStep
<1>6. CASE UNCHANGED vars
  BY <1>6, OtherSteps
<1> QED BY <1>1, <1>2, <1>3, <1>4, <1>5, <1>6 DEF Next

\* The inductive invariant holds in every state.
THEOREM InvariantHolds == Spec => []IInv
BY InitIInv, NextIInv, PTL DEF Spec

\* Every variable keeps its type.
THEOREM TypeCorrect == Spec => []TypeOK
<1>1. IInv => TypeOK BY DEF IInv
<1> QED BY <1>1, InvariantHolds, PTL

\* An event gets one outbox row in its life.
THEOREM NotifiesOnce == Spec => []NotifiedOnce
<1>1. IInv => NotifiedOnce BY DEF IInv, NotifiedOnce, OnceNotified
<1> QED BY <1>1, InvariantHolds, PTL

\* The subscriber is asked MaxAttempts times at the most, once more for every lost outcome.
THEOREM AttemptsAreBounded == Spec => []AttemptsBounded
<1>1. IInv => AttemptsBounded BY DEF IInv, AttemptsBounded, Counted
<1> QED BY <1>1, InvariantHolds, PTL

\* A subscriber that accepted an event sees it again only if the outcome was lost.
THEOREM AcceptsOnce == Spec => []AcceptedOnce
<1>1. IInv => AcceptedOnce BY DEF IInv, AcceptedOnce, Counted
<1> QED BY <1>1, InvariantHolds, PTL

\* No outbox row disappears before its time.
THEOREM DropsNothing == Spec => []NothingDropped
<1>1. IInv => NothingDropped BY DEF IInv, NothingDropped, Kept
<1> QED BY <1>1, InvariantHolds, PTL

\* The subscriber hears of an event once.
THEOREM HearsOnce == Spec => []HeardOnce
<1>1. NotifiedOnce /\ AcceptedOnce /\ NothingDropped => HeardOnce
  BY DEF HeardOnce
<1> QED
  BY <1>1, NotifiesOnce, AcceptsOnce, DropsNothing, PTL
=============================================================================
