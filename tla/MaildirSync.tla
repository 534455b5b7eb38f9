----------------------------- MODULE MaildirSync -----------------------------
(***************************************************************************)
(* The index of a Maildir (maildir_sync.go, maildir_write.go): the files   *)
(* of one mailbox that carry one Message-ID, and the rows of messages that *)
(* stand for them.                                                         *)
(*                                                                         *)
(* Three parties change the files and nobody locks them: the worker that   *)
(* scans the folders and cleans the index, the HTTP handlers that move,    *)
(* flag, rewrite and delete a mail, and Dovecot with its clients.  A step  *)
(* is a statement or a call of the file system: between two of them the    *)
(* other parties take steps.  The database has one connection; where the   *)
(* worker looks for files while its rows are open, statements wait.        *)
(*                                                                         *)
(* A path is a name in the "new" or "cur" directory of a folder; "cur"     *)
(* stands for a name with flags, "Inbox" for the folder a mail begins in.  *)
(* Attachments, UIDs and texts are left out.                               *)
(***************************************************************************)
EXTENDS Naturals, FiniteSets, Sequences

CONSTANTS
    Names,      \* file names; each is given out once
    Rows,       \* ids of messages
    Requests,   \* concurrently running HTTP requests
    Worker, NoRow, NoPath, NoFolder,
    MaxOps,     \* bound of the model: client operations and HTTP requests
    MaxCrashes  \* bound of the model: restarts of the process

ASSUME RequestsAssumption == Worker \notin Requests /\ NoRow # Worker
ASSUME BoundsAssumption   == MaxOps \in Nat /\ MaxCrashes \in Nat

Folders == {"Inbox", "Trash"}
Path    == [name : Names, folder : Folders, sub : {"new", "cur"}]
ASSUME PathAssumption == NoPath \notin Path
Dirs    == << <<"Inbox", "new">>, <<"Inbox", "cur">>, <<"Trash", "new">>, <<"Trash", "cur">> >>
Actors  == Requests \cup {Worker}

VARIABLES
    files,    \* the files there are
    used,     \* names given out
    rows,     \* rows of the index
    folder,   \* their folder_id
    path,     \* their raw_path, NoPath for ''
    fresh,    \* rows whose updated_at is less than five minutes old
    act,      \* locals of the worker and of the requests
    dir,      \* which of Dirs the worker is reading
    listing,  \* what ReadDir returned and has not been handled
    known,    \* result of maildirMessageExists
    batch,    \* rows a SELECT of the worker has returned and that are not handled yet
    missing,  \* those of them the clean-up has found without a file
    ops, crashes,
    asked,    \* ghost: a copy was deleted for good, or the user was told it was not saved
    stirred,  \* ghost: somebody removed or renamed a file since the worker's stat
    raced     \* ghost: the worker removed a duplicate while that went on

index  == <<rows, folder, path, fresh>>
disk   == <<files, used>>
scan   == <<dir, listing, known, batch, missing>>
bounds == <<ops, crashes>>
ghosts == <<asked, stirred, raced>>
vars   == <<disk, index, act, scan, bounds, ghosts>>

Rest == [kind |-> "none", at |-> "idle", row |-> NoRow, old |-> NoPath, new |-> NoPath,
         to |-> NoFolder]

\* A file in directory sub of folder f, under a name never used before.
NewPath(f, s) == [name |-> CHOOSE n \in Names \ used : TRUE, folder |-> f, sub |-> s]

Init ==
    /\ files = {} /\ used = {}
    /\ rows = {} /\ fresh = {}
    /\ folder = [r \in Rows |-> NoFolder] /\ path = [r \in Rows |-> NoPath]
    /\ act = [a \in Actors |-> Rest]
    /\ dir = 0 /\ listing = {} /\ known = FALSE /\ batch = {} /\ missing = {}
    /\ ops = 0 /\ crashes = 0
    /\ asked = FALSE /\ stirred = FALSE /\ raced = FALSE

------------------------------------------------------------------------------
(* Statements and system calls. *)

At(a, s)   == act[a].at = s
GoTo(a, s) == act' = [act EXCEPT ![a].at = s]
Become(a, locals) == act' = [act EXCEPT ![a] = locals]

\* SetMaxOpenConns(1): nobody else has the connection while the worker's rows are open.
DbFree == ~At(Worker, "probe") /\ ~At(Worker, "verify")

\* idx_messages_mailbox_raw_path: one row to a path.
Taken(p, r) == \E q \in rows \ {r} : path[q] = p

\* Bug: a row that is gone is taken for updated.
UpdateUnchecked(r, f, p) ==
    /\ folder' = [folder EXCEPT ![r] = f] /\ path' = [path EXCEPT ![r] = p]
    /\ fresh' = fresh \cup {r} /\ UNCHANGED rows

\* UPDATE messages SET folder_id=?, raw_path=?, updated_at=? WHERE id=?
Update(r, f, p) ==
    IF r \in rows
    THEN /\ folder' = [folder EXCEPT ![r] = f]
         /\ path'   = [path EXCEPT ![r] = p]
         /\ fresh'  = fresh \cup {r}
         /\ UNCHANGED rows
    ELSE UNCHANGED index

\* newID: ids are random; any id that no row and no actor has will do.
FreeRows == {r \in Rows \ (rows \cup batch) : \A a \in Actors : act[a].row # r}
NewRow   == CHOOSE r \in FreeRows : TRUE

\* INSERT INTO messages; the quota of the mailbox is as many rows as the model has.
Insert(r, f, p) ==
    /\ rows'   = rows \cup {r}
    /\ folder' = [folder EXCEPT ![r] = f]
    /\ path'   = [path EXCEPT ![r] = p]
    /\ fresh'  = fresh \cup {r}

\* DELETE FROM messages WHERE id=?
Forget(r) ==
    /\ rows'   = rows \ {r}
    /\ folder' = [folder EXCEPT ![r] = NoFolder]
    /\ path'   = [path EXCEPT ![r] = NoPath]
    /\ fresh'  = fresh \ {r}

\* A file of the mail goes away or changes its name, behind the back of a worker that is
\* about to remove a duplicate.
Stir(a) == stirred' = (stirred \/ (a # Worker /\ act[Worker].at \in {"probe", "dup", "unlink"}))

Rename(a, p, q) == files' = (files \ {p}) \cup {q} /\ Stir(a) /\ UNCHANGED <<used, asked, raced>>

Create(p)     == used # Names /\ files' = files \cup {p} /\ used' = used \cup {p.name}

Operation == ops < MaxOps /\ ops' = ops + 1 /\ UNCHANGED crashes

------------------------------------------------------------------------------
(* Dovecot: deliveries and IMAP clients. *)

\* A delivery to the Inbox, or an IMAP client's APPEND or COPY to any folder.
Deliver ==
    /\ Operation
    /\ \E f \in Folders : Create(NewPath(f, "new"))
    /\ UNCHANGED <<index, act, scan, ghosts>>

\* Flags set or cleared, or a mail moved to another folder.
ClientRenames ==
    /\ Operation
    /\ \E p \in files, q \in Path : q.name = p.name /\ q # p /\ Rename(NoRow, p, q)
    /\ UNCHANGED <<index, act, scan>>

ClientExpunges ==
    /\ Operation
    /\ asked' = TRUE
    /\ \E p \in files : files' = files \ {p}
    /\ Stir(NoRow)
    /\ UNCHANGED <<used, index, act, scan, raced>>

------------------------------------------------------------------------------
(* writeRawMessageToMaildirFolder, for requests and for the backfill. *)

Is(a, kinds) == act[a].kind \in kinds

\* Where the writer goes on: the backfill to its next row, a request to its answer.
Answer(a) == Become(a, IF a = Worker THEN [Rest EXCEPT !.at = "backfill"] ELSE Rest)

\* An error ends the request, or the worker's pass; a sent mail or a new draft whose file
\* could not be written is deleted again.
Fail(a) == IF Is(a, {"compose"}) THEN GoTo(a, "erase") ELSE Become(a, Rest)

\* maildirMessageState.
WriteState(a) ==
    LET r == act[a].row IN
    /\ At(a, "state")
    /\ IF r \notin rows THEN Fail(a)
       ELSE Become(a, [act[a] EXCEPT !.old = path[r], !.to = IF Is(a, {"move"}) THEN @ ELSE folder[r],
                           !.at = IF Is(a, {"compose", "copy"}) THEN "stat" ELSE "write"])
    /\ UNCHANGED <<disk, index, scan, bounds, ghosts>>

\* The first write of a mail (replace = FALSE) looks for the file the backfill may have written.
StatForWrite(a) ==
    /\ At(a, "stat") /\ Is(a, {"compose", "copy"})
    /\ IF act[a].old \in files THEN Answer(a) ELSE GoTo(a, "write")
    /\ UNCHANGED <<disk, index, scan, bounds, ghosts>>

\* Unread mail of the Inbox lies in "new", everything else in "cur".
SubOf(f) == IF f = "Inbox" THEN {"new", "cur"} ELSE {"cur"}

\* Bug: a name without the time in it, so that the new file replaces the old one.
WriteFileInPlace(a) ==
    LET p == IF act[a].old = NoPath THEN NewPath(act[a].to, "cur") ELSE act[a].old IN
    /\ At(a, "write")
    /\ IF used = Names THEN Fail(a) /\ UNCHANGED disk
       ELSE /\ files' = files \cup {p} /\ used' = used \cup {p.name}
            /\ Become(a, [act[a] EXCEPT !.at = "remove", !.new = p])
    /\ UNCHANGED <<index, scan, bounds, ghosts>>

\* The raw mail is written to tmp and renamed; the name has the time in it and is new.  The
\* disk is full when the model has no names left.
WriteFile(a) ==
    /\ At(a, "write")
    /\ \/ \E s \in SubOf(act[a].to) :
            LET p == NewPath(act[a].to, s) IN
            Create(p) /\ Become(a, [act[a] EXCEPT !.at = "remove", !.new = p])
       \/ used = Names /\ Fail(a) /\ UNCHANGED disk
    /\ UNCHANGED <<index, scan, bounds, ghosts>>

RemoveOld(a) ==
    /\ At(a, "remove")
    /\ files' = files \ {act[a].old}
    /\ Stir(a)
    /\ GoTo(a, "record")
    /\ UNCHANGED <<used, index, scan, bounds, asked, raced>>

\* The UPDATE that ends a write, a move or a change of flags; a move sets folder_id as well.
Record(a) ==
    LET r == act[a].row IN
    /\ At(a, "record")
    /\ IF r \in rows /\ Taken(act[a].new, r)
       THEN Fail(a) /\ UNCHANGED index
       ELSE /\ Answer(a)
            /\ Update(r, IF Is(a, {"move"}) THEN act[a].to ELSE folder[r], act[a].new)
    /\ UNCHANGED <<disk, scan, bounds, ghosts>>

------------------------------------------------------------------------------
(* Requests. *)

Starts(a, kind, stage, r, f) ==
    /\ a \in Requests /\ At(a, "idle")
    /\ Operation
    /\ Become(a, [Rest EXCEPT !.kind = kind, !.at = stage, !.row = r, !.to = f])

\* insertMessage of a sent mail, a new draft, or the Inbox copy of a local recipient, to be
\* followed by its file.
Compose(a) ==
    /\ FreeRows # {}
    /\ Insert(NewRow, "Inbox", NoPath)
    /\ \E kind \in {"compose", "copy"} : Starts(a, kind, "state", NewRow, NoFolder)
    /\ UNCHANGED <<disk, scan, ghosts>>

\* handleUpdateDraft: the UPDATE of the texts, then rewriteMessageMaildir.
SaveDraft(a) ==
    /\ \E r \in rows : Starts(a, "save", "state", r, NoFolder) /\ Update(r, folder[r], path[r])
    /\ UNCHANGED <<disk, scan, ghosts>>

\* handleMove, and handleDeleteMessage outside the Trash.
StartMove(a) ==
    /\ \E r \in rows, f \in Folders : Starts(a, "move", "lookup", r, f)
    /\ UNCHANGED <<disk, index, scan, ghosts>>

\* handleMarkRead and handleStar.
StartFlags(a) ==
    /\ \E r \in rows : Starts(a, "flags", "lookup", r, NoFolder)
    /\ UNCHANGED <<disk, index, scan, ghosts>>

\* handleDeleteMessage in the Trash.
StartDelete(a) ==
    /\ \E r \in rows : folder[r] = "Trash" /\ Starts(a, "delete", "erase", r, NoFolder)
    /\ UNCHANGED <<disk, index, scan, ghosts>>

RenameTo(a, f, s) ==
    Become(a, [act[a] EXCEPT !.at = "rename", !.new = [act[a].old EXCEPT !.folder = f, !.sub = s]])

\* moveMessageMaildir and updateMessageMaildirFlags: maildirMessageState.
Lookup(a) ==
    /\ At(a, "lookup") /\ Is(a, {"move", "flags"})
    /\ IF act[a].row \notin rows THEN Fail(a)
       ELSE Become(a, [act[a] EXCEPT !.at = "stat", !.old = path[act[a].row]])
    /\ UNCHANGED <<disk, index, scan, bounds, ghosts>>

\* os.Stat of the file; when there is none, the mail is written anew.
StatForMove(a) ==
    /\ At(a, "stat") /\ Is(a, {"move"})
    /\ IF act[a].old \in files
       THEN \E s \in SubOf(act[a].to) : RenameTo(a, act[a].to, s)
       ELSE GoTo(a, "state")
    /\ UNCHANGED <<disk, index, scan, bounds, ghosts>>

\* Without a file, or with the flags it has, only the row changes.
StatForFlags(a) ==
    /\ At(a, "stat") /\ Is(a, {"flags"})
    /\ \/ GoTo(a, "touch")
       \/ act[a].old \in files
          /\ \E s \in {"new", "cur"} \ {act[a].old.sub} : RenameTo(a, act[a].old.folder, s)
    /\ UNCHANGED <<disk, index, scan, bounds, ghosts>>

\* handleMarkRead, handleStar: UPDATE messages SET is_read=?, updated_at=?
Touch(a) ==
    /\ At(a, "touch")
    /\ Update(act[a].row, folder[act[a].row], path[act[a].row])
    /\ Become(a, Rest)
    /\ UNCHANGED <<disk, scan, bounds, ghosts>>

\* os.Rename; an error ends the request.
RenameFile(a) ==
    /\ At(a, "rename")
    /\ IF act[a].old = act[a].new THEN GoTo(a, "record") /\ UNCHANGED <<disk, ghosts>>
       ELSE IF act[a].old \in files
       THEN GoTo(a, "record") /\ Rename(a, act[a].old, act[a].new)
       ELSE Fail(a) /\ UNCHANGED <<disk, ghosts>>
    /\ UNCHANGED <<index, scan, bounds>>

\* deleteMessageMaildirFile: SELECT raw_path, and os.Remove.
Erase(a) ==
    /\ At(a, "erase")
    /\ IF act[a].row \notin rows THEN GoTo(a, "drop")
       ELSE Become(a, [act[a] EXCEPT !.at = "delete", !.old = path[act[a].row]])
    /\ UNCHANGED <<disk, index, scan, bounds, ghosts>>

Delete(a) ==
    /\ At(a, "delete")
    /\ files' = files \ {act[a].old}
    /\ Stir(a) /\ asked' = TRUE
    /\ GoTo(a, "drop")
    /\ UNCHANGED <<used, index, scan, bounds, raced>>

Drop(a) ==
    /\ At(a, "drop")
    /\ Forget(act[a].row)
    /\ Become(a, Rest)
    /\ UNCHANGED <<disk, scan, bounds, ghosts>>

------------------------------------------------------------------------------
(* The worker: one pass of syncMaildirOnceDetailed. *)

W    == act[Worker]
WGoTo(s) == GoTo(Worker, s)

StartPass ==
    /\ At(Worker, "idle")
    /\ dir' = 0 /\ WGoTo("list")
    /\ UNCHANGED <<disk, index, listing, known, batch, missing, bounds, ghosts>>

\* Bug: the last directory is left out.
ReadDirButLast ==
    /\ At(Worker, "list") /\ listing = {}
    /\ IF dir < Len(Dirs) - 1
       THEN /\ dir' = dir + 1
            /\ listing' = {p \in files : <<p.folder, p.sub>> = Dirs[dir + 1]}
            /\ UNCHANGED <<act, batch>>
       ELSE /\ batch' = {r \in rows : path[r] = NoPath}
            /\ WGoTo("backfill") /\ dir' = 0
            /\ UNCHANGED listing
    /\ UNCHANGED <<disk, index, known, missing, bounds, ghosts>>

\* os.ReadDir of the next directory; after the last one, the rows without a file.
ReadDir ==
    /\ At(Worker, "list") /\ listing = {}
    /\ IF dir < Len(Dirs)
       THEN /\ dir' = dir + 1
            /\ listing' = {p \in files : <<p.folder, p.sub>> = Dirs[dir + 1]}
            /\ UNCHANGED <<act, batch>>
       ELSE /\ batch' = {r \in rows : path[r] = NoPath}
            /\ WGoTo("backfill") /\ dir' = 0
            /\ UNCHANGED listing
    /\ UNCHANGED <<disk, index, known, missing, bounds, ghosts>>

\* syncMaildirFile: os.ReadFile.  A file that is gone is a file error and passed over.
ReadFile ==
    /\ At(Worker, "list")
    /\ \E p \in listing :
         /\ listing' = listing \ {p}
         /\ IF p \in files THEN Become(Worker, [Rest EXCEPT !.at = "exists", !.new = p])
            ELSE UNCHANGED act
    /\ UNCHANGED <<disk, index, dir, known, batch, missing, bounds, ghosts>>

NextFile == Become(Worker, [Rest EXCEPT !.at = "list"]) /\ known' = FALSE

\* maildirMessageExists.
Exists ==
    /\ At(Worker, "exists")
    /\ known' = (\E r \in rows : path[r] = W.new \/ folder[r] = W.new.folder)
    /\ WGoTo("same")
    /\ UNCHANGED <<disk, index, dir, listing, batch, missing, bounds, ghosts>>

\* syncExistingMaildirMessageState: the row that has this path. Where it has the file's folder as
\* well (old = new), folder_id is left alone.
SamePath ==
    /\ At(Worker, "same")
    /\ \/ \E r \in rows :
            /\ path[r] = W.new
            /\ Become(Worker, [W EXCEPT !.at = "attach", !.row = r,
                                !.old = IF folder[r] = W.new.folder THEN W.new ELSE NoPath])
       \/ (\A r \in rows : path[r] # W.new) /\ WGoTo("choose")
    /\ UNCHANGED <<disk, index, scan, bounds, ghosts>>

\* The rows of this Message-ID are opened.
Choose ==
    /\ At(Worker, "choose")
    /\ batch' = rows /\ WGoTo("probe")
    /\ stirred' = FALSE
    /\ UNCHANGED <<disk, index, dir, listing, known, missing, bounds, asked, raced>>

\* The rows in their order: those of the file's folder first.
FirstRows == LET here == {r \in batch : folder[r] = W.new.folder} IN
             IF here # {} THEN here ELSE batch

\* One row after the other, until one has lost its file (os.Stat) or never had one.
Probe ==
    /\ At(Worker, "probe")
    /\ \/ \E r \in FirstRows :
            IF path[r] \in files \ {W.new}
            THEN batch' = batch \ {r} /\ UNCHANGED act
            ELSE /\ batch' = {}
                 /\ Become(Worker, [W EXCEPT !.at = "attach", !.row = r])
       \/ batch = {} /\ WGoTo("dup") /\ UNCHANGED batch
    /\ UNCHANGED <<disk, index, dir, listing, known, missing, bounds, ghosts>>

\* The UPDATE that gives a row the file; an error of the unique index is a file error.
Attach ==
    /\ At(Worker, "attach")
    /\ IF W.row \in rows /\ Taken(W.new, W.row) THEN UNCHANGED index
       ELSE Update(W.row, IF W.old = W.new THEN folder[W.row] ELSE W.new.folder, W.new)
    /\ NextFile
    /\ UNCHANGED <<disk, dir, listing, batch, missing, bounds, ghosts>>

AfterDuplicate == /\ IF known THEN NextFile ELSE WGoTo("insert") /\ UNCHANGED known
                  /\ stirred' = FALSE

\* removeDuplicateMaildirMessage: another file of the mail in this folder (LIMIT 1).
Duplicate ==
    /\ At(Worker, "dup")
    /\ LET filed == {r \in rows : folder[r] = W.new.folder /\ path[r] # NoPath} IN
       \/ \E r \in filed : path[r] # W.new /\ WGoTo("unlink") /\ UNCHANGED <<known, stirred>>
       \/ (filed = {} \/ \E r \in filed : path[r] = W.new) /\ AfterDuplicate
    /\ UNCHANGED <<disk, index, dir, listing, batch, missing, bounds, asked, raced>>

RemoveDuplicate ==
    /\ At(Worker, "unlink")
    /\ files' = files \ {W.new}
    /\ raced' = (raced \/ stirred \/ \E a \in Requests : At(a, "remove"))
    /\ AfterDuplicate
    /\ UNCHANGED <<used, index, dir, listing, batch, missing, bounds, asked>>

\* insertMessage.
Import ==
    /\ At(Worker, "insert")
    /\ IF FreeRows = {} \/ \E r \in rows : path[r] = W.new THEN UNCHANGED index
       ELSE Insert(NewRow, W.new.folder, W.new)
    /\ NextFile
    /\ UNCHANGED <<disk, dir, listing, batch, missing, bounds, ghosts>>

\* backfillSQLiteMessagesToMaildir: rewriteMessageMaildir for each row selected.
Backfill ==
    /\ At(Worker, "backfill")
    /\ \E r \in batch :
         /\ batch' = batch \ {r}
         /\ Become(Worker, [Rest EXCEPT !.kind = "save", !.at = "state", !.row = r])
    /\ UNCHANGED <<disk, index, dir, listing, known, missing, bounds, ghosts>>

\* cleanupMissingMaildirMessages: the rows that were not updated for five minutes are opened.
FindMissing ==
    /\ At(Worker, "backfill") /\ batch = {}
    /\ batch' = {r \in rows \ fresh : path[r] # NoPath}
    /\ WGoTo("verify")
    /\ UNCHANGED <<disk, index, dir, listing, known, missing, bounds, ghosts>>

\* os.Stat of each; then the rows whose file is missing are deleted.
Verify ==
    /\ At(Worker, "verify")
    /\ \/ \E r \in batch :
            /\ batch' = batch \ {r}
            /\ missing' = IF path[r] \in files THEN missing ELSE missing \cup {r}
            /\ UNCHANGED act
       \/ batch = {} /\ batch' = missing /\ missing' = {} /\ WGoTo("clean")
    /\ UNCHANGED <<disk, index, dir, listing, known, bounds, ghosts>>

CleanRow ==
    /\ At(Worker, "clean")
    /\ \E r \in batch : batch' = batch \ {r} /\ Forget(r)
    /\ UNCHANGED <<disk, act, dir, listing, known, missing, bounds, ghosts>>

EndPass ==
    /\ At(Worker, "clean") /\ batch = {}
    /\ Become(Worker, Rest)
    /\ UNCHANGED <<disk, index, scan, bounds, ghosts>>

------------------------------------------------------------------------------

\* Five minutes without an update of the row, no request being at work on it.
Age(r) ==
    /\ r \in fresh /\ \A a \in Actors : act[a].row # r
    /\ fresh' = fresh \ {r}
    /\ UNCHANGED <<disk, rows, folder, path, act, scan, bounds, ghosts>>

Crash ==
    /\ crashes < MaxCrashes /\ crashes' = crashes + 1
    /\ act' = [a \in Actors |-> Rest]
    /\ listing' = {} /\ batch' = {} /\ missing' = {} /\ known' = FALSE /\ dir' = 0
    /\ stirred' = FALSE
    /\ UNCHANGED <<disk, index, ops, asked, raced>>

Client == Deliver \/ ClientRenames \/ ClientExpunges

Request(a) == Compose(a) \/ SaveDraft(a) \/ StartMove(a) \/ StartFlags(a) \/ StartDelete(a)

WriteStep(a) == WriteState(a) \/ StatForWrite(a) \/ WriteFile(a) \/ RemoveOld(a) \/ Record(a)

Statement(a)  == WriteState(a) \/ Record(a) \/ Lookup(a) \/ Touch(a) \/ Erase(a) \/ Drop(a)
SystemCall(a) == \/ StatForWrite(a) \/ StatForMove(a) \/ StatForFlags(a) \/ WriteFile(a)
                 \/ RemoveOld(a) \/ RenameFile(a) \/ Delete(a)
RequestStep(a) == SystemCall(a) \/ (DbFree /\ Statement(a))

ScanStep == \/ ReadDir \/ ReadFile \/ Exists \/ SamePath \/ Choose \/ Probe \/ Attach
            \/ Duplicate \/ RemoveDuplicate \/ Import

WorkerStep == \/ StartPass \/ ScanStep \/ WriteStep(Worker)
              \/ Backfill \/ FindMissing \/ Verify \/ CleanRow \/ EndPass

Next ==
    \/ Client \/ WorkerStep \/ Crash
    \/ \E a \in Requests : (DbFree /\ Request(a)) \/ RequestStep(a)
    \/ \E r \in Rows : Age(r)

Spec == Init /\ [][Next]_vars

\* The worker's ticker keeps firing, and time passes. A handler runs to its end: where it waits
\* for the connection, it gets it in its turn, however often the worker takes it.
FairSpec ==
    /\ Spec
    /\ WF_vars(WorkerStep)
    /\ \A a \in Requests : SF_vars(RequestStep(a))
    /\ \A r \in Rows : WF_vars(Age(r))

------------------------------------------------------------------------------
(* Properties. *)

TypeOK ==
    /\ files \subseteq Path /\ used \subseteq Names
    /\ rows \subseteq Rows /\ fresh \subseteq rows
    /\ folder \in [Rows -> Folders \cup {NoFolder}]
    /\ path \in [Rows -> Path \cup {NoPath}]
    /\ dir \in 0..Len(Dirs) /\ listing \subseteq Path
    /\ known \in BOOLEAN /\ batch \subseteq Rows /\ missing \subseteq Rows
    /\ ops \in 0..MaxOps /\ crashes \in 0..MaxCrashes
    /\ asked \in BOOLEAN /\ stirred \in BOOLEAN /\ raced \in BOOLEAN

\* A mail that was filed and that nobody deleted has a file at every moment, whatever renames,
\* moves, rewrites, scans, clean-ups and restarts it went through; unless the worker removed a
\* duplicate just while the other copy was being replaced.
MailSurvives == used # {} /\ ~asked /\ ~raced => files # {}

\* Every file has its row and every row its file, in the folder where the file is; rows wait
\* for a file only while the disk is full.
Indexed ==
    LET filed == {r \in rows : path[r] # NoPath} IN
    /\ {path[r] : r \in filed} = files
    /\ \A r \in filed : folder[r] = path[r].folder
    /\ \A r, q \in filed : path[r] = path[q] => r = q
    /\ filed # rows => used = Names

\* Once nobody touches the mailbox any more, the index comes to agree with the files, and
\* stays so.
IndexConverges == <>[]Indexed

\* When a request has deleted the one copy of a mail from the Trash, its file is gone
\* (app_test.go, TestMoveAndDeleteMessageUpdateMaildir).
DeletedIsGone ==
    [][\A a \in Requests : Drop(a) /\ Is(a, {"delete"}) /\ Cardinality(used) = 1 => files' = {}]_vars
==============================================================================
