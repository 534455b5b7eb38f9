---------------------------- MODULE SendLifecycle ----------------------------
(***************************************************************************)
(* What the send queue promises about one row, without goroutines, files,  *)
(* batches or crashes: a mail is attempted at most MaxAttempts times per   *)
(* request, only from a waiting status; only a running attempt decides     *)
(* that it was delivered or failed; canceled and delivered rows move only  *)
(* when somebody queues them again.                                        *)
(***************************************************************************)
EXTENDS Naturals

CONSTANTS Items, MaxAttempts

VARIABLES state, tries

Init == state = [i \in Items |-> "none"] /\ tries = [i \in Items |-> 0]

Move(i, s, n) == /\ state' = [state EXCEPT ![i] = s]
                 /\ tries' = [tries EXCEPT ![i] = n]

\* A new row, or a row somebody asks to be sent again.
Queue(i) == /\ state[i] \in {"none", "failed", "canceled", "delivered"}
            /\ Move(i, "queued", 0)

Attempt(i) == /\ \/ state[i] = "queued"
                 \/ state[i] = "failed" /\ tries[i] < MaxAttempts
              /\ Move(i, "sending", tries[i] + 1)

\* The attempt that is running ends.
Conclude(i) == /\ state[i] = "sending"
               /\ \E s \in {"delivered", "failed"} : Move(i, s, tries[i])

\* An attempt that was cut short is tried again while attempts are left.
Interrupt(i) == /\ state[i] = "sending" /\ tries[i] < MaxAttempts
                /\ Move(i, "queued", tries[i])

Cancel(i) == /\ state[i] \in {"queued", "failed"}
             /\ Move(i, "canceled", tries[i])

Remove(i) == /\ state[i] \notin {"none", "deleted"}
             /\ Move(i, "deleted", tries[i])

Next == \E i \in Items : \/ Queue(i) \/ Attempt(i) \/ Conclude(i)
                         \/ Interrupt(i) \/ Cancel(i) \/ Remove(i)

Spec == Init /\ [][Next]_<<state, tries>>
=============================================================================
