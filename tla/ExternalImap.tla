---------------------------- MODULE ExternalImap ----------------------------
(***************************************************************************)
(* External IMAP accounts with local storage (external_imap.go): one       *)
(* account, one folder of its server, and the local folder that receives   *)
(* its mail.                                                               *)
(*                                                                         *)
(* A synchronisation is asked for by hand or started by the background     *)
(* worker.  It reads a cursor, lists what lies above it, fetches and files *)
(* the mails one at a time and stores the cursor at its end; several can   *)
(* be under way at once, and the server changes meanwhile.  The database   *)
(* has one connection: a statement is atomic, and it waits while somebody  *)
(* keeps rows open.  That a filed mail gets its file is MaildirSync; the   *)
(* texts, the run records and the read flags are left out.                 *)
(***************************************************************************)
EXTENDS Naturals, FiniteSets

CONSTANTS
    Mails,       \* the mails of the server
    Unnamed,     \* those whose header has no Message-ID
    Runs,        \* synchronisations by hand that can be under way
    Worker,      \* externalIMAPWorker
    NoMail, Nobody,
    Limit,       \* mails a run takes from the server
    MaxUid,      \* bound of the model: UIDs under one UIDVALIDITY
    MaxValidity, \* bound of the model: UIDVALIDITYs
    MaxAccounts, \* bound of the model: times the account is set up
    MaxEvents    \* bound of the model: errors, crashes, hang-ups, changes but new mail

ASSUME UnnamedAssumption == Unnamed \subseteq Mails
ASSUME WorkerAssumption == Worker \notin Runs
ASSUME LimitAssumption  == Limit \in Nat \ {0}
ASSUME BoundsAssumption == {MaxUid, MaxValidity, MaxAccounts} \subseteq Nat \ {0} /\ MaxEvents \in Nat

Actors     == Runs \cup {Worker}
Uids       == 1..MaxUid
Validities == 1..MaxValidity
Accounts   == 1..MaxAccounts
Origins    == Accounts \X Validities \X Uids

VARIABLES
    remote,    \* the mail under each UID of the server's folder
    uidNext,   \* the server's next UID
    validity,  \* its UIDVALIDITY
    account,   \* id of the account
    lastUid,   \* external_imap_folder_states.last_uid
    seen,      \* rows of external_imap_messages
    filed,     \* mails in the local folder, with the UID each came from
    run,       \* locals of the synchronisations
    conn,      \* who keeps the connection of the pool
    events,
    imported,  \* ghost: what has ever been filed
    gaveUp,    \* ghost: UIDs a finished run has passed over
    renumbered \* ghost: the cursor belongs to UIDs the server no longer uses

server == <<remote, uidNext, validity>>
tables == <<account, lastUid, seen, filed>>
ghosts == <<imported, gaveUp, renumbered>>
vars   == <<server, tables, run, conn, events, ghosts>>

Stage == {"idle", "lookup", "state", "fetch", "item", "raw", "file"}
Rest  == [at |-> "idle", id |-> 0, todo |-> {}, max |-> 0, uid |-> 0, listed |-> 0, raw |-> 0,
          mail |-> NoMail, passed |-> {}]

Init ==
    /\ remote = [u \in Uids |-> NoMail] /\ uidNext = 1 /\ validity = 1
    /\ account = 1 /\ lastUid = 0 /\ seen = {} /\ filed = {}
    /\ run = [a \in Actors |-> Rest]
    /\ conn = Nobody /\ events = 0
    /\ imported = {} /\ gaveUp = {} /\ renumbered = FALSE

------------------------------------------------------------------------------
(* The server and the user. *)

Event == events < MaxEvents /\ events' = events + 1

Present == {u \in Uids : remote[u] # NoMail}

\* A mail arrives, perhaps one that the folder has already.
Deliver(m) ==
    /\ uidNext <= MaxUid
    /\ remote' = [remote EXCEPT ![uidNext] = m] /\ uidNext' = uidNext + 1
    /\ UNCHANGED <<validity, tables, run, conn, events, ghosts>>

Expunge(u) ==
    /\ u \in Present /\ Event
    /\ remote' = [remote EXCEPT ![u] = NoMail]
    /\ UNCHANGED <<uidNext, validity, tables, run, conn, ghosts>>

\* The server begins to count anew, or the user points the account to another server
\* (handleUpdateExternalIMAPAccount keeps the cursor).
Renumber ==
    /\ validity < MaxValidity /\ Event
    /\ validity' = validity + 1 /\ uidNext' = 1 /\ remote' = [u \in Uids |-> NoMail]
    /\ renumbered' = TRUE
    /\ UNCHANGED <<tables, run, conn, imported, gaveUp>>

\* A statement gets the connection.
CanQuery == conn = Nobody

\* The user moves a filed mail to another folder or deletes it.
UserRemoves(r) ==
    /\ CanQuery /\ r \in filed /\ Event
    /\ filed' = filed \ {r}
    /\ UNCHANGED <<server, account, lastUid, seen, run, conn, ghosts>>

\* handleDeleteExternalIMAPAccount, whose cascade takes the cursor and the rows, and
\* handleCreateExternalIMAPAccount.
SetUpAgain ==
    /\ CanQuery /\ account < MaxAccounts /\ Event
    /\ account' = account + 1 /\ lastUid' = 0 /\ seen' = {}
    /\ gaveUp' = {} /\ renumbered' = FALSE
    /\ UNCHANGED <<server, filed, run, conn, imported>>

------------------------------------------------------------------------------
(* One synchronisation: syncExternalIMAPAccount, syncExternalIMAPFolder. *)

At(a, s)          == run[a].at = s
Become(a, locals) == run' = [run EXCEPT ![a] = locals]

\* The synchronisation ends.  The worker has no further row and closes them.
Leave(a) == Become(a, Rest) /\ conn' = IF a = Worker THEN Nobody ELSE conn

\* externalIMAPAccountByID.
Begin(a) ==
    /\ At(a, IF a = Worker THEN "lookup" ELSE "idle") /\ CanQuery
    /\ Become(a, [Rest EXCEPT !.at = "state", !.id = account])
    /\ UNCHANGED <<server, tables, conn, events, ghosts>>

\* loadExternalIMAPFolderState.
LoadState(a) ==
    /\ At(a, "state") /\ CanQuery
    /\ Become(a, [run[a] EXCEPT !.at = "fetch", !.max = IF run[a].id = account THEN lastUid ELSE 0])
    /\ UNCHANGED <<server, tables, conn, events, ghosts>>

\* The error of that statement is ignored: the run begins at the first mail.
LoadStateFails(a) ==
    /\ At(a, "state") /\ CanQuery /\ Event
    /\ Become(a, [run[a] EXCEPT !.at = "fetch"])
    /\ UNCHANGED <<server, tables, conn, ghosts>>

\* goExternalIMAPClient.FetchNew: the first Limit mails above the cursor, in the order in
\* which the server sends them.  What is left out below one of them is passed over.
FetchNew(a) ==
    LET above == {u \in Present : u > run[a].max} IN
    /\ At(a, "fetch")
    /\ \E list \in SUBSET above :
         /\ Cardinality(list) = IF Cardinality(above) < Limit THEN Cardinality(above) ELSE Limit
         /\ Become(a, [run[a] EXCEPT !.at = "item", !.listed = validity, !.todo = list,
                           !.passed = {u \in above \ list : \E w \in list : u < w}])
    /\ UNCHANGED <<server, tables, conn, events, ghosts>>

FetchNewFails(a) ==
    /\ At(a, "fetch") /\ Event
    /\ Leave(a)
    /\ UNCHANGED <<server, tables, ghosts>>

\* A run turns to a mail of its list; max moves on before the mail is looked at.
TurnTo(a, u, place) ==
    Become(a, [run[a] EXCEPT !.todo = @ \ {u}, !.max = IF u > @ THEN u ELSE @,
                             !.at = place, !.uid = IF place = "raw" THEN u ELSE 0])

\* externalIMAPRemoteMessageExists.
NextItem(a) ==
    /\ At(a, "item") /\ CanQuery
    /\ \E u \in run[a].todo :
         TurnTo(a, u, IF run[a].id = account /\ <<account, run[a].listed, u>> \in seen THEN "item" ELSE "raw")
    /\ UNCHANGED <<server, tables, conn, events, ghosts>>

\* Its error is ignored: the mail is fetched although it may be known.
LookupFails(a) ==
    /\ At(a, "item") /\ CanQuery /\ Event
    /\ \E u \in run[a].todo : TurnTo(a, u, "raw")
    /\ UNCHANGED <<server, tables, conn, ghosts>>

\* failed++ and continue.  What failed is remembered while the server still has the mail.
Skip(a, lost) ==
    Become(a, [run[a] EXCEPT !.at = "item", !.uid = 0, !.raw = 0, !.mail = NoMail, !.passed = @ \cup lost])

\* FetchRaw selects the folder again: what it returns is the mail that has the UID now.
FetchRaw(a) ==
    LET m == remote[run[a].uid] IN
    /\ At(a, "raw")
    /\ IF m = NoMail THEN Skip(a, {})
       ELSE Become(a, [run[a] EXCEPT !.at = "file", !.mail = m, !.raw = validity])
    /\ UNCHANGED <<server, tables, conn, events, ghosts>>

\* The fetch fails, or the mail cannot be parsed.
FetchRawFails(a) ==
    /\ At(a, "raw") /\ Event
    /\ Skip(a, {run[a].uid})
    /\ UNCHANGED <<server, tables, conn, ghosts>>

Origin(a) == <<run[a].id, run[a].raw, run[a].uid>>

\* The next mail of the list.
GoOn(a) == Become(a, [run[a] EXCEPT !.at = "item", !.uid = 0, !.raw = 0, !.mail = NoMail])

\* The folder has the mail: messages is searched only for a Message-ID that is not empty.
HasCopy(m) == m \notin Unnamed /\ \E r \in filed : r.mail = m

\* Bug: an existing row is replaced and not respected.
FileMailReplacing(a) ==
    LET row == [mail |-> run[a].mail, from |-> Origin(a)] IN
    /\ At(a, "file") /\ CanQuery /\ run[a].id = account
    /\ seen' = seen \cup {Origin(a)}
    /\ IF HasCopy(run[a].mail)
       THEN UNCHANGED <<filed, imported>>
       ELSE filed' = filed \cup {row} /\ imported' = imported \cup {Origin(a)}
    /\ GoOn(a)
    /\ UNCHANGED <<server, account, lastUid, conn, events, gaveUp, renumbered>>

\* Bug: the Message-ID is not looked for.
FileMailUnchecked(a) ==
    LET row == [mail |-> run[a].mail, from |-> Origin(a)] IN
    /\ At(a, "file") /\ CanQuery /\ run[a].id = account
    /\ seen' = seen \cup {Origin(a)}
    /\ IF Origin(a) \in seen
       THEN UNCHANGED <<filed, imported>>
       ELSE filed' = filed \cup {row} /\ imported' = imported \cup {Origin(a)}
    /\ GoOn(a)
    /\ UNCHANGED <<server, account, lastUid, conn, events, gaveUp, renumbered>>

\* insertExternalIMAPMessageOnce, a transaction: the row of the UID decides who files the
\* mail, and a mail the folder has already is not filed again.  The row of an account that
\* was deleted violates its foreign key.  When the look for a copy fails, so is the rest of
\* the transaction taken to do.
FileMail(a) ==
    LET row == [mail |-> run[a].mail, from |-> Origin(a)] IN
    /\ At(a, "file") /\ CanQuery
    /\ IF run[a].id # account
       THEN Skip(a, {}) /\ UNCHANGED <<seen, filed, imported>>
       ELSE /\ seen' = seen \cup {Origin(a)}
            /\ IF Origin(a) \in seen \/ HasCopy(run[a].mail)
               THEN UNCHANGED <<filed, imported>>
               ELSE filed' = filed \cup {row} /\ imported' = imported \cup {Origin(a)}
            /\ GoOn(a)
    /\ UNCHANGED <<server, account, lastUid, conn, events, gaveUp, renumbered>>

\* The mailbox has no room left, or a statement fails; the transaction is rolled back.
FileMailFails(a) ==
    /\ At(a, "file") /\ CanQuery /\ Event
    /\ Skip(a, {run[a].uid})
    /\ UNCHANGED <<server, tables, conn, ghosts>>

\* Bug: the cursor is the next UID and not the last one.
SaveStateNext(a) ==
    /\ At(a, "item") /\ run[a].todo = {} /\ CanQuery
    /\ IF run[a].id = account
       THEN /\ lastUid' = IF run[a].max >= lastUid THEN run[a].max + 1 ELSE lastUid
            /\ gaveUp'  = gaveUp \cup run[a].passed
       ELSE UNCHANGED <<lastUid, gaveUp>>
    /\ Leave(a)
    /\ UNCHANGED <<server, account, seen, filed, events, imported, renumbered>>

\* Bug: the cursor is moved to what the server has by now.
SaveStateNewest(a) ==
    /\ At(a, "item") /\ run[a].todo = {} /\ CanQuery
    /\ IF run[a].id = account
       THEN /\ lastUid' = IF uidNext - 1 > lastUid THEN uidNext - 1 ELSE lastUid
            /\ gaveUp'  = gaveUp \cup run[a].passed
       ELSE UNCHANGED <<lastUid, gaveUp>>
    /\ Leave(a)
    /\ UNCHANGED <<server, account, seen, filed, events, imported, renumbered>>

\* The cursor is stored at the end of the folder; it never moves back.
SaveState(a) ==
    /\ At(a, "item") /\ run[a].todo = {} /\ CanQuery
    /\ IF run[a].id = account
       THEN /\ lastUid' = IF run[a].max > lastUid THEN run[a].max ELSE lastUid
            /\ gaveUp'  = gaveUp \cup run[a].passed
       ELSE UNCHANGED <<lastUid, gaveUp>>
    /\ Leave(a)
    /\ UNCHANGED <<server, account, seen, filed, events, imported, renumbered>>

\* The error of that statement is ignored.
SaveStateFails(a) ==
    /\ At(a, "item") /\ run[a].todo = {} /\ CanQuery /\ Event
    /\ Leave(a)
    /\ UNCHANGED <<server, tables, ghosts>>

\* The client of a run by hand goes away: the request's context fails each of the run's
\* further statements, so that nothing it still does is stored.
HangUp(a) ==
    /\ a \in Runs /\ ~At(a, "idle") /\ Event
    /\ Become(a, Rest)
    /\ UNCHANGED <<server, tables, conn, ghosts>>

------------------------------------------------------------------------------
(* syncDueExternalIMAPAccounts: the rows of the due accounts stay open while each of them *)
(* is synchronised, and they keep the only connection.                                    *)

Tick ==
    /\ At(Worker, "idle") /\ CanQuery
    /\ conn' = Worker
    /\ Become(Worker, [Rest EXCEPT !.at = "lookup"])
    /\ UNCHANGED <<server, tables, events, ghosts>>

\* The two minutes of the account's context are over.
TimesOut ==
    /\ ~At(Worker, "idle")
    /\ Leave(Worker)
    /\ UNCHANGED <<server, tables, events, ghosts>>

\* The process stops and starts again.
Crash ==
    /\ Event
    /\ run' = [a \in Actors |-> Rest] /\ conn' = Nobody
    /\ UNCHANGED <<server, tables, ghosts>>

------------------------------------------------------------------------------

Outside == \/ \E m \in Mails : Deliver(m)
           \/ \E u \in Uids : Expunge(u)
           \/ Renumber
           \/ \E r \in filed : UserRemoves(r)
           \/ SetUpAgain

\* What a run under way does next.
Proceed(a) == LoadState(a) \/ FetchNew(a) \/ NextItem(a) \/ FetchRaw(a) \/ FileMail(a) \/ SaveState(a)

Fails(a) == \/ LoadStateFails(a) \/ FetchNewFails(a) \/ LookupFails(a) \/ FetchRawFails(a)
            \/ FileMailFails(a) \/ SaveStateFails(a) \/ HangUp(a)

WorkerStep == Tick \/ TimesOut

Next ==
    \/ Outside \/ WorkerStep \/ Crash
    \/ \E a \in Actors : Begin(a) \/ Proceed(a) \/ Fails(a)

Spec == Init /\ [][Next]_vars

\* The worker's ticker fires and its timer runs out; a run goes on, and database/sql gives a
\* free connection to the statement that has waited longest, so that no statement waits for
\* ever while the connection keeps coming free.
FairSpec ==
    /\ Spec
    /\ WF_vars(Tick) /\ WF_vars(TimesOut)
    /\ SF_vars(Begin(Worker))
    /\ \A a \in Actors : SF_vars(Proceed(a))

------------------------------------------------------------------------------
(* Properties. *)

Local == [at : Stage, id : 0..MaxAccounts, todo : SUBSET Uids, max : 0..MaxUid, uid : 0..MaxUid,
          listed : 0..MaxValidity, raw : 0..MaxValidity, mail : Mails \cup {NoMail}, passed : SUBSET Uids]

TypeOK ==
    /\ remote \in [Uids -> Mails \cup {NoMail}]
    /\ uidNext \in 1..(MaxUid + 1) /\ validity \in Validities
    /\ account \in Accounts /\ lastUid \in 0..MaxUid
    /\ seen \subseteq Origins
    /\ filed \subseteq [mail : Mails, from : Origins]
    /\ run \in [Actors -> Local]
    /\ conn \in {Nobody, Worker} /\ events \in 0..MaxEvents
    /\ imported \subseteq Origins /\ gaveUp \subseteq Uids /\ renumbered \in BOOLEAN

\* A mail of the server is filed once, however many runs fetch it at the same time, are cut
\* off and repeated, and also when the user has moved or deleted the filed mail since.
ImportedOnce == [][\A r \in filed' \ filed : r.from \notin imported]_vars

\* The folder never has a mail with a Message-ID twice, although the server may show it under
\* several UIDs, count anew, or be set up again as a new account.
OneCopy == \A r, q \in filed : r.mail = q.mail /\ r.mail \notin Unnamed => r = q

\* Synchronising twice is as good as once: overlapping and repeated runs file no UID again,
\* and another UID or numbering files no mail again but one without a Message-ID, of which
\* insertExternalIMAPMessageOnce cannot tell that the folder has it.
FiledOnce == [][OneCopy' /\ \A r \in filed' \ filed : r.from \notin imported]_vars

\* The cursor leaves no mail behind: what lies below it was filed, was filed before as
\* another copy, was counted as failed by the run that passed over it, or was left out of
\* that run's list, which Limit cut off and the server had not sent in the order of the UIDs;
\* until the server counts anew.
NothingSkipped ==
    ~renumbered => \A u \in Present : u <= lastUid => <<account, validity, u>> \in seen \/ u \in gaveUp

\* The background synchronisation files what arrives (deploy/.env.example:191 gives its
\* interval for the accounts with local storage), if the server keeps it.
BackgroundImports ==
    \A u \in Uids : u \in Present ~> u \notin Present \/ <<account, validity, u>> \in seen
------------------------------------------------------------------------------
(* The inductive invariant of the proofs in ExternalImapProofs. *)

\* The rows of the account know everything that was ever filed for it.
RowsKnowFiled == \A o \in imported : o[1] <= account /\ (o[1] = account => o \in seen)

Known(u) == <<account, validity, u>> \in seen \/ u \in gaveUp

\* UIDs are given out in order.
UidsInOrder == \A u \in Present : u < uidNext

\* What lies below the place of a run, or below a mail of its list, is known, was passed
\* over by this run, is still on its list, or is the mail in its hands.
BelowIsDone(a) ==
    \A u \in Present : (u <= run[a].max \/ \E w \in run[a].todo : u <= w) =>
        Known(u) \/ u \in run[a].passed \/ u \in run[a].todo \/ u = run[a].uid

Current(a) == ~renumbered /\ run[a].id = account /\ run[a].at \in {"fetch", "item", "raw", "file"}
RunIsTrue(a) ==
    /\ run[a].max < uidNext
    /\ run[a].at # "fetch" => run[a].listed = validity
    /\ run[a].at = "file" => run[a].raw = validity
    /\ \A w \in run[a].todo : w < uidNext
    /\ BelowIsDone(a)

LocalsFit(a) ==
    /\ run[a].at # "idle" => run[a].id <= account
    /\ run[a].at \notin {"idle", "lookup"} => run[a].id # 0
    /\ run[a].at \in {"state", "fetch"} => run[a].todo = {} /\ run[a].passed = {}
    /\ run[a].at = "state" => run[a].max = 0
    /\ run[a].at \in {"raw", "file"} <=> run[a].uid # 0
    /\ run[a].at = "file" => run[a].mail # NoMail /\ run[a].raw # 0

IInv == /\ TypeOK /\ RowsKnowFiled /\ OneCopy /\ UidsInOrder
        /\ ~renumbered => lastUid < uidNext /\ NothingSkipped
        /\ \A a \in Actors : LocalsFit(a) /\ (Current(a) => RunIsTrue(a))
==============================================================================
