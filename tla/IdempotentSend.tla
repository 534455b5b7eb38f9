---------------------------- MODULE IdempotentSend ----------------------------
(***************************************************************************)
(* POST /api/open/v1/send with an Idempotency-Key (open_api_handlers.go,   *)
(* handleOpenAPISendMail and reserveOpenAPISendIdempotency), of one user.  *)
(*                                                                         *)
(* A request reserves the key's row, sends the mail with sendMailWithSource*)
(* and records the mail in the row, each in statements of its own.  A      *)
(* request may break off between any two of them: the client hangs up,     *)
(* which cancels the context of every later statement, the handler panics, *)
(* or the server stops.                                                    *)
(***************************************************************************)
EXTENDS Naturals

CONSTANTS
    Keys, Bodies,     \* Idempotency-Keys and request bodies (their hashes)
    Requests,         \* requests in progress at the same time
    SmtpConfigured,   \* IMYEMAIL_SMTP_HOST is set: a mail gets a row in send_queue
    MaxMails,         \* bounds of the model: mails,
    MaxFaults         \* failed statements

ASSUME SmtpAssumption   == SmtpConfigured \in BOOLEAN
ASSUME BoundsAssumption == MaxMails \in Nat /\ MaxFaults \in Nat

Mails == 1..MaxMails

VARIABLES
    (* table send_idempotency_keys *)
    present,  \* the keys that have a row
    hash,     \* request_hash of a key's row
    sentId,   \* sent_message_id of a key's row, 0 for ''
    old,      \* keys whose row was created more than 24 hours ago
    (* table send_queue *)
    queued,   \* mails that have a queue row
    (* requests *)
    step, key, body, mail,
    (* the model's own *)
    faults,
    last,     \* the last mail made
    madeOf,   \* the body a mail was made of
    sends,    \* per key, how many mails were made since its row was inserted
    excused,  \* per key, how many of them the handler took for failures
    told,     \* per key, the mails reported to clients since then
    cut       \* keys for which a request broke off while it held the row

keyRows == <<present, hash, sentId, old>>
input   == <<key, body>>
ghosts  == <<last, madeOf, sends, excused, told>>
vars    == <<keyRows, queued, step, input, mail, faults, ghosts, cut>>

Step == {"idle", "purge", "reserve", "look", "replay", "send", "enqueued", "record", "release"}
Holders == {"send", "enqueued", "record", "release"}

Go(r, s) == step' = [step EXCEPT ![r] = s]
Fault    == faults < MaxFaults /\ faults' = faults + 1

Init ==
    /\ present = {} /\ old = {} /\ queued = {} /\ cut = {}
    /\ hash \in [Keys -> Bodies]
    /\ sentId = [k \in Keys |-> 0]
    /\ step = [r \in Requests |-> "idle"]
    /\ key \in [Requests -> Keys]
    /\ body \in [Requests -> Bodies]
    /\ mail = [r \in Requests |-> 0]
    /\ faults = 0
    /\ last = 0 /\ sends = [k \in Keys |-> 0] /\ told = [k \in Keys |-> {}]
    /\ madeOf = [m \in Mails |-> {}]
    /\ excused = [k \in Keys |-> 0]

------------------------------------------------------------------------------
(* Reserving the key. *)

Receive(r, k, b) ==
    /\ step[r] = "idle" /\ Go(r, "purge")
    /\ key' = [key EXCEPT ![r] = k] /\ body' = [body EXCEPT ![r] = b]
    /\ UNCHANGED <<keyRows, queued, mail, faults, ghosts, cut>>

\* Bug: the age of a deleted row is kept for the key's next row.
PurgeKeepsAge(r) ==
    /\ step[r] = "purge" /\ Go(r, "reserve")
    /\ present' = present \ old
    /\ UNCHANGED <<hash, sentId, old, queued, input, mail, faults, ghosts, cut>>

\* DELETE ... WHERE created_at < now - 24 hours, whoever owns the rows.
Purge(r) ==
    /\ step[r] = "purge" /\ Go(r, "reserve")
    /\ present' = present \ old /\ old' = {}
    /\ sends' = [k \in Keys |-> IF k \in old THEN 0 ELSE sends[k]]
    /\ told' = [k \in Keys |-> IF k \in old THEN {} ELSE told[k]]
    /\ excused' = [k \in Keys |-> IF k \in old THEN 0 ELSE excused[k]]
    /\ cut' = cut \ old
    /\ UNCHANGED <<hash, sentId, queued, input, mail, faults, last, madeOf>>

\* Bug: INSERT OR REPLACE.
ReserveReplacing(r) ==
    /\ step[r] = "reserve" /\ Go(r, "send")
    /\ present' = present \cup {key[r]}
    /\ hash' = [hash EXCEPT ![key[r]] = body[r]]
    /\ sentId' = [sentId EXCEPT ![key[r]] = 0]
    /\ UNCHANGED <<old, queued, input, mail, faults, ghosts, cut>>

\* INSERT OR IGNORE: the request that inserts the row sends the mail.
Reserve(r) ==
    /\ step[r] = "reserve"
    /\ IF key[r] \in present
       THEN Go(r, "look") /\ UNCHANGED keyRows
       ELSE /\ Go(r, "send")
            /\ present' = present \cup {key[r]}
            /\ hash' = [hash EXCEPT ![key[r]] = body[r]]
            /\ sentId' = [sentId EXCEPT ![key[r]] = 0]
            /\ UNCHANGED old
    /\ UNCHANGED <<queued, input, mail, faults, ghosts, cut>>

\* Bug: the stored hash is not compared.
LookAtMailOnly(r) ==
    /\ step[r] = "look"
    /\ IF key[r] \in present /\ sentId[key[r]] # 0
       THEN Go(r, "replay") /\ mail' = [mail EXCEPT ![r] = sentId[key[r]]]
       ELSE Go(r, "idle") /\ UNCHANGED mail
    /\ UNCHANGED <<keyRows, queued, input, faults, ghosts, cut>>

\* SELECT of the row: gone, of another body, or still processing is answered with 409.
Look(r) ==
    /\ step[r] = "look"
    /\ IF key[r] \in present /\ hash[key[r]] = body[r] /\ sentId[key[r]] # 0
       THEN Go(r, "replay") /\ mail' = [mail EXCEPT ![r] = sentId[key[r]]]
       ELSE Go(r, "idle") /\ UNCHANGED mail
    /\ UNCHANGED <<keyRows, queued, input, faults, ghosts, cut>>

TellIf(yes, r) == told' = [told EXCEPT ![key[r]] = IF yes THEN @ \cup {mail[r]} ELSE @]

\* loadSendQueueEntryForUser(queue_id): 200 with the mail's queue row, 409 if it has none.
Replay(r) ==
    /\ step[r] = "replay" /\ Go(r, "idle")
    /\ TellIf(mail[r] \in queued, r)
    /\ UNCHANGED <<keyRows, queued, input, mail, faults, last, madeOf, sends, excused, cut>>

------------------------------------------------------------------------------
(* Sending. *)

\* sendMailWithSource returns an error before anything is enqueued: 4xx or 5xx.
SendFails(r) ==
    /\ step[r] = "send" /\ Go(r, "release")
    /\ UNCHANGED <<keyRows, queued, input, mail, faults, ghosts, cut>>

\* The Sent copy is stored and enqueueSend inserts the queue row, if there is an SMTP host.
Enqueue(r) ==
    /\ step[r] = "send" /\ Go(r, "enqueued")
    /\ last < MaxMails /\ last' = last + 1
    /\ mail' = [mail EXCEPT ![r] = last']
    /\ madeOf' = [madeOf EXCEPT ![last'] = {body[r]}]
    /\ sends' = [sends EXCEPT ![key[r]] = @ + 1]
    /\ queued' = IF SmtpConfigured THEN queued \cup {last'} ELSE queued
    /\ UNCHANGED <<keyRows, input, faults, excused, told, cut>>

SendReturns(r) ==
    /\ step[r] = "enqueued" /\ Go(r, "record")
    /\ UNCHANGED <<keyRows, queued, input, mail, faults, ghosts, cut>>

\* The SELECT that follows the INSERT in enqueueSend fails: the Sent copy is deleted and an
\* error is returned, the queue row stays.
SendMisreports(r) ==
    /\ step[r] = "enqueued" /\ SmtpConfigured /\ Fault /\ Go(r, "release")
    /\ excused' = [excused EXCEPT ![key[r]] = @ + 1]
    /\ UNCHANGED <<keyRows, queued, input, mail, last, madeOf, sends, told, cut>>

\* Bug: the reservation is left behind when the send fails.
ReleaseForgotten(r) ==
    /\ step[r] = "release" /\ Go(r, "idle")
    /\ UNCHANGED <<keyRows, queued, input, mail, faults, ghosts, cut>>

\* DELETE ... WHERE sent_message_id='': the key can be used again.
Release(r) ==
    /\ step[r] = "release" /\ Go(r, "idle")
    /\ present' = IF sentId[key[r]] = 0 THEN present \ {key[r]} ELSE present
    /\ UNCHANGED <<hash, sentId, old, queued, input, mail, faults, ghosts, cut>>

\* UPDATE ... SET sent_message_id=?,queue_id=?, and the answer 201.
Record(r) ==
    /\ step[r] = "record" /\ Go(r, "idle")
    /\ sentId' = IF key[r] \in present THEN [sentId EXCEPT ![key[r]] = mail[r]] ELSE sentId
    /\ TellIf(TRUE, r)
    /\ UNCHANGED <<present, hash, old, queued, input, mail, faults, last, madeOf, sends, excused, cut>>

\* The UPDATE or the DELETE fails, which the handler ignores.
WriteFails(r) ==
    /\ step[r] \in {"record", "release"} /\ Fault /\ Go(r, "idle")
    /\ TellIf(step[r] = "record", r)
    /\ cut' = cut \cup {key[r]}
    /\ UNCHANGED <<keyRows, queued, input, mail, last, madeOf, sends, excused>>

------------------------------------------------------------------------------
(* Around the handlers. *)

\* The request breaks off: nothing more of it is executed and its client learns nothing.
BreakOff(r) ==
    /\ step[r] # "idle" /\ Go(r, "idle")
    /\ cut' = IF step[r] \in Holders THEN cut \cup {key[r]} ELSE cut
    /\ UNCHANGED <<keyRows, queued, input, mail, faults, ghosts>>

\* A queue row is deleted: by an administrator, or with its mailbox.
QueueRowDeleted(m) ==
    /\ m \in queued /\ queued' = queued \ {m}
    /\ UNCHANGED <<keyRows, step, input, mail, faults, ghosts, cut>>

\* A day passes over the row.  No request takes that long.
GrowsOld(k) ==
    /\ k \in present \ old
    /\ \A r \in Requests : step[r] = "idle"
    /\ old' = old \cup {k}
    /\ UNCHANGED <<present, hash, sentId, queued, step, input, mail, faults, ghosts, cut>>

Handle(r) ==
    \/ Purge(r) \/ Reserve(r) \/ Look(r) \/ Replay(r)
    \/ SendFails(r) \/ Enqueue(r) \/ SendReturns(r) \/ SendMisreports(r)
    \/ Release(r) \/ Record(r) \/ WriteFails(r) \/ BreakOff(r)

Next ==
    \/ \E r \in Requests, k \in Keys, b \in Bodies : Receive(r, k, b)
    \/ \E r \in Requests : Handle(r)
    \/ \E m \in Mails : QueueRowDeleted(m)
    \/ \E k \in Keys : GrowsOld(k)

Spec == Init /\ [][Next]_vars

------------------------------------------------------------------------------
(* Properties. *)

TypeOK ==
    /\ present \subseteq Keys /\ old \subseteq present /\ cut \subseteq Keys
    /\ hash \in [Keys -> Bodies] /\ sentId \in [Keys -> 0..MaxMails]
    /\ queued \subseteq Mails
    /\ step \in [Requests -> Step]
    /\ key \in [Requests -> Keys] /\ body \in [Requests -> Bodies]
    /\ mail \in [Requests -> 0..MaxMails]
    /\ faults \in 0..MaxFaults
    /\ last \in 0..MaxMails /\ sends \in [Keys -> Nat] /\ told \in [Keys -> SUBSET Mails]
    /\ madeOf \in [Mails -> SUBSET Bodies]
    /\ excused \in [Keys -> Nat]

\* As long as the key's row is kept, repeated requests make one mail, however they are
\* interleaved, cut off and repeated; a further one only if a send was misreported as failed.
OneMailPerKey == \A k \in Keys : sends[k] <= 1 + excused[k]

\* Clients that use one key are all told of the same mail.
SameAnswer == \A k \in Keys : \A m, n \in told[k] : m = n

\* A replay is about a mail made of the body the client has sent.
RepliesMatchBody ==
    \A r \in Requests : step[r] = "replay" => madeOf[mail[r]] = {body[r]}

\* A key stays "still processing" without a request working on it only if one broke off.
Held(k) == \E r \in Requests : step[r] \in Holders /\ key[r] = k
ProcessingIsHeld == \A k \in present : sentId[k] = 0 => Held(k) \/ k \in cut

\* Whoever repeats a request is answered the same: one mail for all, of the body that was sent,
\* and "still processing" for no longer than somebody works on it, unless that one broke off.
AnswersAgree == SameAnswer /\ RepliesMatchBody /\ ProcessingIsHeld

------------------------------------------------------------------------------
(* The inductive invariant of the proofs in IdempotentSendProofs. *)

\* Rows are old only while no request has got past the DELETE of old rows.
OldRowsWait == old # {} => \A r \in Requests : step[r] \in {"idle", "purge"}

\* The request that inserted the row is alone with it until it records or releases it.
HolderOwnsRow ==
    \A r \in Requests : step[r] \in Holders =>
        /\ key[r] \in present /\ hash[key[r]] = body[r]
        /\ sentId[key[r]] = 0 /\ told[key[r]] = {}
        /\ step[r] \in {"send", "release"} => sends[key[r]] <= excused[key[r]]
        /\ step[r] \in {"enqueued", "record"} => mail[r] \in 1..last /\ madeOf[mail[r]] = {body[r]}
        /\ \A s \in Requests : step[s] \in Holders /\ key[s] = key[r] => s = r

\* What a row says about its mail, and what follows for a replay under way.
RowIsTrue ==
    \A k \in Keys :
        /\ k \notin present => told[k] = {} /\ sends[k] <= excused[k]
        /\ sentId[k] # 0 /\ k \in present =>
               /\ sentId[k] \in 1..last /\ madeOf[sentId[k]] = {hash[k]}
               /\ told[k] \subseteq {sentId[k]}
ReplayIsCurrent ==
    \A r \in Requests : step[r] = "replay" =>
        key[r] \in present /\ mail[r] # 0 /\ mail[r] = sentId[key[r]] /\ hash[key[r]] = body[r]

IInv == /\ TypeOK /\ OldRowsWait /\ HolderOwnsRow /\ RowIsTrue /\ ReplayIsCurrent
        /\ OneMailPerKey /\ SameAnswer
=============================================================================
