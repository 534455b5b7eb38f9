# imyemail in TLA+

A verification project for imyemail, the self-hosted mail system under `src/`:
TLA+ modules that model the parts of the program whose order of steps matters,
TLC configurations that check them on small instances, and theorems with proofs
checked by TLAPS for every value of the constants. Paths below are relative to
the repository; `app/` stands for `apps/api/internal/app/`.

## 1. The system

A browser, a mail client or a program talks through Nginx to one Go process,
the API. The API keeps its state in one SQLite file and reads and writes
Maildir folders that Dovecot serves over IMAP at the same time. Postfix
receives and delivers, Rspamd filters. A Rust manager installs and updates the
containers; its operator does the same for the administration page
(`docs/ARCHITECTURE.md`).

Three facts shape every model:

- **One connection.** `db.SetMaxOpenConns(1)` (`app/app.go:84`). A statement or
  a transaction is atomic; two statements of one function may have any other
  statement between them; whoever keeps rows open keeps everybody waiting.
- **Workers started once** (`app/app.go:118-131`): send queue, scheduled sends,
  status webhook, Maildir scan, external accounts, certificates, a clean-up. Each is one
  goroutine with a ticker, so a pass does not overlap with itself. They overlap
  with the HTTP handlers and with each other.
- **Stopping** cancels the context and waits (`Close`), but a container is
  killed too. Locals are gone; rows and files stay.

### Components

| Component | State it keeps | Operations | Hard part | Correct means |
|---|---|---|---|---|
| Send queue (`send_queue.go`, `mime.go`) | rows of `send_queue`, marker files | enqueue, claim, SMTP session, marker, outcome, recovery, retry, cancel, delete | crash between the SMTP server's 250 and the row; statements without a status guard; a batch of goroutines | no second copy without a lost proof, no silent loss, every row comes to rest |
| Scheduled sends (`mail_handlers.go`) | rows of `scheduled_sends`, drafts | schedule, cancel, claim, check, enqueue, drop the draft | cancel reads and writes in two statements beside the worker | mailed at most once, the status is true |
| Idempotent send (`open_api_extended.go`) | rows of `send_idempotency_keys` | reserve, send, record, release, replay, purge | retries that overlap; a client that hangs up | one mail for one key |
| Delivery events and webhook (`open_api_extended.go`, `status_webhook.go`) | events, outbox rows | callbacks, audit events, posts, retries, purge | repeated callbacks, lost answers, deletions between reading and writing | one notification, no row dropped |
| Maildir index (`maildir_sync.go`, `maildir_write.go`) | files, rows of `messages` | scan, backfill, cleanup, duplicate removal, move, flag, rewrite, delete | Dovecot renames files while both worker and handlers use stored paths | no mail is lost, index and files agree |
| External IMAP accounts (`external_imap.go`) | accounts, cursors, seen UIDs | runs by hand and by a worker | overlapping runs, a server that changes meanwhile, nested queries on one connection | each mail once, none skipped |
| Manager and operator (`apps/manager`) | containers, image tags, compose file, rollback point | update, roll back, delete the point | killed between two files; two processes; Watchtower acting late | a failed update is undone, the point stays usable |
| Submission (`submission.go`) | sessions, sent copies, queue rows | AUTH, DATA | duplicate check by Message-ID beside another submission | a sent copy is not deleted under its owner |
| Login and 2FA (`auth_handlers.go`, `two_factor.go`, `session.go`) | sessions, challenges, recovery codes, application passwords | login, verify, disable, reset | five attempts, single use, disable beside create | a code is used once, revoked means revoked |
| Forwarding (`forwarding_*.go`, `profile.tsx`) | targets, verification tokens, choices of account, mailboxes and rules | list, resend, open the link, choose, delete, deliver | two pages at once; a link replaced while it is opened; an address deleted while it is chosen | only addresses whose owner confirmed receive mail |
| Certificates (`certificate_manager.go`) | key and certificate files | issue, publish, reload | two renames, then reloads | services end with a matching pair |
| IMAP metadata (`imap_metadata.go`) | UIDs, modification sequences | allocate on delivery and move | read and write of `uid_next` | UIDs unique and growing |
| AI assistance, permissions, feedback, administration, settings, tokens, import and export | rows | one statement each, or pure functions | little order | |
| Front end: composing (`web/src/pages/mail.tsx`, `ComposeDialog`) | the dialog, its timer, drafts on the server | type, autosave, open a draft, send, schedule, close | a dialog that stays mounted, so that every answer meets whatever it shows by then | no mail is saved over another one's draft; a draft goes only when its mail was sent; what is typed is saved |
| Front end: lists (`mail.tsx`) | one list per view in the query cache | read, star, label, move, delete, bulk, refresh | changes shown before the server answers, and invalidations that answers under way outrun | a list at rest tells the truth, and the list on screen catches up |
| Front end: folders (`mail.tsx`) | order numbers of folders | drag, move up and down, create, delete | numbers spread over gaps between fixed items; two browsers | a folder stays where it was dropped |
| Front end: pages and permissions (`mail.tsx`, `profile.tsx`, `admin.tsx`, `lib/api.ts`, against `router_auth.go`) | the cache of queries | everything a page asks or offers | some hundred and fifty requests, each guarded in the page and again on the server, and keys that must be invalidated | what is offered is not refused; what a press changed is asked again |
| Front end: mail body and assistant (`mail.tsx`, `ai-mail-assistant.tsx`) | translation, result of the assistant | translate, generate, switch mail and language | answers after the reader has moved on | what is shown is about the mail that is open |
| Front end: session and routes (`use-me.ts`, guards, login, logout) | the query of the user, what is cached | log in and out, second factor, register, expire | redirects that wait for a query, another user in the same browser | no user sees another's data; redirects end |
| Front end: language (`lib/language.tsx`) | texts of the document, their sources | render, observe, rewrite, choose | two writers of one text node | at rest every text is in the chosen language, the user's own untouched |
| API proxy, deploy files | none | | | |

`web/` stands for `apps/web/`. `PROJECT.json` lists all parts with their files, and 40
hazards at the lines where they bite, each with the properties that would notice,
or why none does yet.

### How the parts meet

- Submission, HTTP, open API, scheduled sends and forwarding all end in
  `enqueueSend`. `SendQueue` models that function with any number of callers;
  `ScheduledSend` and `IdempotentSend` model their side and see the queue
  through the outcomes of the call.
- Providers' callbacks and changes of queue rows become events of the webhook;
  deletions of mailboxes cascade into queue, index and outbox. Each module has
  these deletions as actions of its own environment.
- Imported and received mail becomes a row and then a file; `MaildirSync`
  models both halves (row without path, backfill), so `ExternalImap` ends at the row.
- All share the connection. Only `ExternalImap` lets somebody keep it.

## 2. The modules

Each module opens with what it abstracts. Variables carry the code's column and
field names; ghosts, which the code does not have, are marked `ghost` where they
are declared. Operators headed `\* Bug:` are wrong variants of the definition below
them, used only to show that the properties notice.

### SendQueue, SendLifecycle

`rows` is a row of `send_queue` (status, attempt count, due, stale), `marker` the
files in `send_queue_delivered/`. `loop` is `processDueSendQueue`, `worker[i]`
the goroutine of row `i`, `req[r]` a handler between its UPDATE and the removal
of the marker. `Claim` is the UPDATE of `claimSendQueueItem` with its WHERE
clause; `SmtpAccepts`, `SmtpReplyLost` and `SmtpRejects` are the three ends of
`sendSMTP` (a lost reply is a copy taken and an error returned); `WriteMarker`,
`RecordDelivered` and `DropMarker` follow in the order of
`processSendQueueItem`, each with its failure. `Crash` drops the locals between
any two of them. `SendLifecycle` is the promise: a row moves only along the
arrows of its status, and attempts only grow until a request resets them.

### ScheduledSend

One action per statement of `processScheduledSend` and two for the cancel
handler, whose SELECT and UPDATE are separate. `held` is the row the worker
works on; `mailed` counts hand-overs to the queue. A row goes with its mailbox or user
(`Delete`, the cascades of `app/app.go:515`) at any moment; a statement of the worker or the
cancel then finds nothing, and the worker's hand-over, which needs the mailbox, fails. A failing
deletion of the draft leaves it; the user's own deletion of a draft is not an action, since
no property is about it.

### IdempotentSend

`handleOpenAPISendMail` and `reserveOpenAPISendIdempotency`, statement by
statement: purge of old rows, INSERT, look-up of the row that is there, the
send, then `Record` or `Release`. `cut` marks keys whose request broke off,
`excused` counts sends that were made and reported as failed
(`send_queue.go:91`). `SmtpConfigured = FALSE` gives an instance that queues
nothing.

### StatusWebhook

Events are audit entries of the queue or entries of providers' callbacks;
`stored` is `delivery_events`, `note`, `tries` and `due` a row of
`status_webhook_outbox`, `batch`/`held`/`step` the worker's pass. A callback
brings any set of events, again and again. Ids of sends are never used twice.

### MaildirSync

The files and rows of one mailbox that carry one Message-ID; two folders with
`new` and `cur`, because a name with flags is what makes a stored path stale. The
worker reads one directory after the other, imports, attaches, removes
duplicates, then backfills and cleans up; handlers save, move, flag, rewrite and
delete; Dovecot delivers, renames, moves and expunges. Each system call and each
statement of the worker and of a request is a step (`StatForMove`, `Lookup`, `Erase`, `Delete`, ...);
two statements that only count up a modification sequence go with the UPDATE before them. Where the worker
keeps rows open while it stats files (`Probe` in the backfill, `Verify` in the clean-up) it holds the only
connection, and a request's statement waits (`DbFree`).

### ExternalImap

One account, one folder of its server. A run reads the cursor, lists what lies
above it (at most `Limit`, 100 in the code, in the order the server sends them), and fetches and
files one mail at a time; the cursor is stored at the end. An existing copy is looked for by Message-ID
(`HasCopy`), so not for the mails of `Unnamed`, which have none. The SELECTs whose errors the code
ignores fail as it takes them: no cursor, not seen. `conn` is the connection: `Tick` opens the rows of
the background worker and keeps it until its pass ends (`Leave`). The user only takes mails
out of the folder; a mail moved back by hand is not modelled. A failing look for a copy inside the
transaction (`external_imap.go:1228`) is taken to fail the whole transaction.

### SystemUpdate

The manager and the operator. The lock file admits one operation, so its locals
(`doing`, `step`, `hasPoint`, `target`) are those of the holder. A rollback
point is two files written one after the other (`pointImage`, `pointCompose`) and an
image tag; deleting it stages both files first, each rename, its way back and each removal a step that may
fail (`DeletionFails`). `late` is a Watchtower update
that finishes after the operator has given up on it.

### Forwarding

`listed` is the list of addresses with the id of the listing (a new one each time
an address is listed again) and whether it is verified; `forwardingRequest[t]` is the
request of page `t`, whose handler reads in one statement and writes in the next;
`openingLink` a link between look-up and UPDATE; `delivery` what
`forwarding_delivery.go` does for one mail: it reads the targets (`MailComes`, `RuleApplies`), looks each up in
a query of its own (`FindTarget`, and `CleanTarget` for a request that stores them), and puts the mail
in the queue afterwards (`Forward`), with any step of a page between two of these. `confirmed` is the ghost: the listings
whose link was opened.

### The web front end

A browser is concurrent in its own way: one thread, and answers that come late,
fail, or come in another order, to components that have changed meanwhile. Each
module takes one kind of state.

- `ComposeDraft`: `form` is `ComposeDialog`, one component that is never unmounted;
  `saves` and `press` the requests under way, `drafts` the server's. Documents are
  numbered and a text is a version of one, so that a draft can be asked whose text it holds.
- `MailList`: `mails` is the server's truth, `lists[v]` the cached list of a view
  with its marks (known, stale, fetching); `requests` are the mutations. react-query's
  functions (`invalidateQueries`, `cancelQueries`, `setQueriesData`) are modelled by what
  they do to these marks.
- `FolderOrder`: the menu as a sorted sequence, the algorithm that spreads new numbers
  over a gap (`AssignCustomFolderOrders`), the server's transaction, another browser.
- `Panels` gives the words for what a component puts before the user: a query with its
  key, or a press with the keys it invalidates. `MailPanels`, `ProfilePanels` and
  `AdminPanels` describe each component of the three pages in those words;
  `WebRoutes` gives for each request the permissions `router_auth.go` asks for, and
  what it shows or changes. `WebOffers` lets an administrator change the permissions between the
  reading of `["me"]`, the press and the server's answer; `WebCache` takes any query
  and any press that changes what it shows, with late, lost and overtaken answers. They
  are tables with one line for each request of the page, and two small state machines. A
  table (`Table`) is a set of rows and not a chain of cases, so that TLC reads it
  and a proof can take it row by row. What a request shows or changes is the model's reading of
  its handler, by data the pages display; `lib/api.ts` only names the requests.
- `MailBody`, `Session` and `DomLanguage`: as in the table above.

### How the modules compose

`SendQueue` instantiates `SendLifecycle` (refinement). `WebApp` extends the nine parts
of the browser and of forwarding: they share no variable, so that the interleavings of
two of them add nothing, and a variable `page` picks the part that moves. One
specification, one configuration and one invariant so cover them all.
The other modules meet at interfaces they share by name rather than by INSTANCE: the
product of two of them is far beyond what TLC can visit, and each keeps the other's
visible actions in its own environment.

## 3. The runs

| Run | Instance | Shows |
|---|---|---|
| `sendqueue_safety` | 2 rows, 1 handler, 2 attempts, 1 session, 1 fault | types, ownership of a row by its attempt, duplicates only with a lost proof, no silent loss, the semaphore, the life cycle, and under fairness that rows come to rest |
| `sendqueue_stuck_sending` | 1 row, 1 fault | finding: a last attempt that is interrupted stays `sending` |
| `scheduled_safety` | 2 mails, 2 cancels, 2 faults, deletions | at most one hand-over, true statuses, drafts kept, cancelled stays cancelled, due mails are decided |
| `scheduled_cancel` | 1 mail, 1 cancel | finding: a sent mail is shown as cancelled |
| `idempotent_safety` | 1 key, 2 bodies, 2 requests, 1 fault | one mail for one key, one answer, of the right body, and no key blocked without a reason |
| `update_safety` | 2 releases, the newer broken, 3 tags, 1 fault | the rollback point stays usable, a failed update is undone, operations end |
| `maildir_index` | 3 names, 2 rows, 1 request, 2 operations, 1 restart | a mail has a file at every moment, index and files agree in the end |
| `maildir_delete` | 1 name, 2 rows, 4 operations | finding: a deleted mail comes back |
| `status_webhook` | 3 events, 2 sends, batch of 1, 2 attempts, 1 fault | one notification, one acceptance, nothing dropped, every row settles |
| `external_imap` | 2 mails, one without Message-ID, 2 runs, 2 UIDs, 2 UIDVALIDITYs, 2 accounts, 2 events | a UID is filed once, one copy in the folder of a mail that has a Message-ID, none skipped |
| `external_imap_background` | 1 mail, the worker alone | finding: the worker imports nothing |
| `web_app` | 2 documents, 2 edits, 1 save; 1 mail; 2 folders among 2 fixed items; every offer of the three pages with 1 change of permissions, every pair of press and query with 2 changes; 2 mails in 2 languages; 2 users, one with a second factor; 2 texts of the interface and one of a user; 2 pages, 2 addresses, 2 links | drafts keep their mails and go when they were sent, what is typed is saved; lists tell the truth and catch up; a folder stays where it was dropped; no offer is refused; the cache knows what is old; late answers fit the mail; one user's data, redirects end; texts settle; a delivery finds only confirmed addresses |

Some properties state an exception by a ghost that marks what the code does
not defend against: `raced` and `overlap` (`ComposeDraft`), `misled` (`MailList`), `foreign`
(`FolderOrder`), `overlaid` (`Session`), `mixed` (`DomLanguage`), `raced` (`MaildirSync`), `lost`
(`SendQueue`), `excused` (`IdempotentSend`, `WebCache`); and two name what the code gets wrong:
`Unguarded` in `WebOffers`, `Untold` in `WebCache`. Section 5 says what each stands for. Each was
added when TLC found a counterexample without it. `Untold` names a press by what it tells, so that the same
request pressed elsewhere, and telling more, is not excused. Some are wider than their counterexample, and
the comments of the properties say how far: `raced` of the composer exempts a late answer
to another mail, `form.started` everything typed after a sending was started, failed or not, and `Unguarded` a
request on every page.

### Bounds

Every bound is a constant with `Max` or `Limit` in its name and is commented
where it is declared. `MaxAttempts`, `BatchLimit`, `Concurrency` and `Limit`
stand for numbers of the code (5 or 10, 20, the configured sessions, 100) and
are small. The LIMIT of a batch is met in `status_webhook`, a batch of one with two events waiting, and
`Limit` in `external_imap`, one mail of two; in the queue and the scheduled sends the batch takes both rows, so
that two goroutines share the one session, and that LIMIT starves no row there is not claimed. Two
attempts give a first and a last.
Two rows or requests suffice for a race between statements that name one row or
key; a third would only repeat one of the two. Faults are one or two: what a
second crash adds to the queue is said by `NoSilentLoss` (the marker of an
attempt can outlive a requeue, and a second fault then loses a mail), and the
proofs have no bound. In `ExternalImap` one budget covers errors, restarts and all
changes but arriving mail, so that any two of them are combined. The two folders
of `MaildirSync` are the source and the target of a move. `MaxTags` is at least
three, so that an image runs while the rollback point names another and a third is built.

In `WebApp`, `MaxDocs` = 2 is the mail that is written and the one that an answer finds
instead; `MaxEdits` and `MaxSaves` let a save be overtaken by a later change. `MaxHappens`
counts changes of one mail: a request, and what overtakes it. `MaxArranged` and the fixed
items give each kind of gap (before, between and after them). `MaxGrants` is one, for a
permission given and taken back is as good as a fresh start; `MaxChanges` two, the press's own
change and one that is invisible to it. `MaxAsked` is a question and the one after it, `MaxLogins`
a user and the next, `MaxTrouble` failed and lost requests, `MaxRenders` a text, its
translation and two returns, `MaxLinks` a link and the one that replaces it; with two addresses a
delivery has a target looked up and one still to look up. `MaxSaves` = 1 keeps two saves from overlapping
in the run; `overlap` exempts them in any case, and the theorems about drafts cover them.

### Fairness

Used where liveness is checked, and only for what the program itself schedules:

- worker tickers and their passes are weakly fair: one goroutine each, no lock held
  across ticks, and each remote call ends (`smtpSessionTimeout`, ten seconds of the
  webhook's client, two minutes of an external account);
- a goroutine of a batch is weakly fair one by one: the semaphore of the code is a
  channel and only guards progress, so that a goroutine that waits for a slot is
  served when the others of its batch end;
- the clock advances: `BecomesDue`, `BecomesStale`, `TimePasses`, `RetryTime`, `Age`;
- handlers past their UPDATE finish; nobody has to call one, and no user, provider,
  mail client, crash or error is fair;
- in the browser, `ComposeFairness`, `MailListFairness` and `SessionFairness`: timers fire,
  redirects are rendered, and requests end, at the latest with the time limit of `lib/api.ts`;
  of the requests a refreshed list sends again and again some are answered before
  they are replaced. No user does anything, and no answer need be a success;
- in `ExternalImap` the steps that wait for the connection, and in `MaildirSync` those of a request
  under way, are strongly fair, since `database/sql` hands a free connection to the longest waiter.
  The finding holds in spite of it.

`CHECK_DEADLOCK` is on in every run but `web_app`, whose parts really rest when the user has
done all that the bounds allow.

## 4. The proofs

Each `*Proofs` module extends its component and shows that an invariant `IInv` holds by
the usual three facts (`InitIInv`, one lemma per action or group of actions joined in
`StepKeepsIInv`, PTL), and derives the rest. The only assumptions are the named
ones on constants in the component's module: sets of any size, positive limits,
bounds that are natural numbers, and model values that differ from what they stand
beside (`TagsAssumption`, `PathAssumption`, `PeopleAssumption`, `CacheAssumption`). What the runs show on an
instance the theorems show for every number of rows, requests, attempts and faults, of
mails, users, pages and answers under way.

| Module | Theorems | Why the invariant is needed |
|---|---|---|
| `SendQueueProofs` | `TypeCorrect`, `AttemptsOwnRows`, `NoDuplicateWithProof`, `SessionsStayBounded`, `AttemptsStayApart`, `NothingLostSilently`, `Refinement` | That copies need a lost proof is not inductive: it needs `ProofKept` (a mail taken, with its proof kept, is not attempted again), `CopiesCounted` (copies are at most the attempts), and `LoopOwnsWorkers` with `ScanStaysTrue` (recovery and goroutines never overlap, so what the scan read is still so). `Refinement` needs `QueuedHasAttempts` besides. `NothingLostSilently` counts faults: before the first a marker is there only beside its goroutine, after one an interrupted row owes its marker to its own attempt (`MarkersAreTrue`). |
| `ScheduledSendProofs` | `TypeCorrect`, `AtMostOnce`, `StatusIsTrue`, `StatusAndMailAgree`, `DraftIsSafe`, `CancellationHolds`, `WithdrawalHolds` | `HeldRow`: the worker's row was claimed by it, and its mail counted only after the check; a handler may have cancelled it since. |
| `IdempotentSendProofs` | `TypeCorrect`, `SentOnce`, `OneAnswer`, `RepliesMatch`, `ProcessingHasHolder`, `AnswersStayTheSame` | `HolderOwnsRow`: the request that inserted the row is alone with it; `RowIsTrue` and `ReplayIsCurrent` carry what is recorded to the replay; `OldRowsWait`: rows are purged only before a holder exists. |
| `StatusWebhookProofs` | `TypeCorrect`, `NotifiesOnce`, `AttemptsAreBounded`, `AcceptsOnce`, `DropsNothing`, `HearsOnce` | Per event: posts are the counted attempts plus lost outcomes plus the one in flight; a notified event stays stored or its send is gone. `AttemptsAreBounded` is proved and has no run. |
| `ExternalImapProofs` | `TypeCorrect`, `NoSecondCopy`, `CursorSkipsNothing`, `MailsImportedOnce`, `RunsFileOnce` | The cursor is stored long after the mails were listed, so the runs under way must be described: `BelowIsDone` (what lies below a run's place is known, failed, or in its hands) and `ListIsDense` (its list has no gap). `RowsKnowFiled` ties the ghost of `ImportedOnce` to the rows. That no mail is there twice holds of those with a Message-ID, and of one without only under one UID of one account. |
| `SystemUpdateProofs` | `TypeCorrect`, `PointKept`, `FailedUpdateRestores` | The point names an image only if whoever holds the lock keeps it: `HolderOK` (whose step the locals belong to), `PointOK` (which of the two files is old, new or set aside at each step of writing and deleting), `UpdateOK` (what a running update has changed so far and what it can still put back). |
| `MaildirSyncProofs` | `TypeCorrect`, `MailsSurvive` | That a file is left is not inductive: a writer is about to remove the file it replaced, and the worker one it takes for a duplicate. `Safe` asks for a file whose name no writer is about to remove (names, since clients rename files and keep their names); `DuplicateOK` says, per step of the duplicate's probe, that the worker has seen another file, or no row with a file. |
| `WebAppProofs` | `DraftsKeepTheirMails`, `SentDraftsGo`, `ListsTellTruth`, `LateAnswersAreFitting`, `OneUserAtATime`, `OnlyConfirmedReceive`, `ListingsStayApart`, `TextsSettle`, `DropsAreKept`, `OffersAreServed`, `CachesKnow`, `WebTypes` | One invariant per part, joined in `PartsIInv`, and a lemma (`PartsStep`) that a step of `WebApp` is a step or a stutter of every part. The parts' invariants describe what is under way: each save and each opening is of one document, and names a draft that was made; a list is coherent with the server or has a mark that says why not; a translation that is awaited fits; an answer about a user was asked under that user's cookie; the node's source belongs to the text last written; an address counts as verified, and a target as found, only if its listing then was confirmed; what the server will store or send agrees with what was dropped. |

Three of the last row's results rest on more than an invariant:

- `DropsAreKept` is about an algorithm. The menu is a sequence sorted by order
  numbers; a sort is known by the ranks of its elements, so that no induction over
  sequences is needed. A moved folder stands between the neighbours it was dropped
  between, folders in one gap get numbers of equal steps that stay inside it,
  and all others keep theirs. The hypothesis is fewer than 1000 folders: the gap between two
  fixed items is 1000 wide and a step at least one (section 5).
- `OffersAreServed` is about the pages. `Covered(offers, guard)` says that the conditions a
  component is shown under, with the guard around it, suffice for the permissions its requests
  are asked for, and is proved for every component of the three pages; the state machine then only needs that what
  was shown was read from permissions the server had.
- `CachesKnow` likewise: each pair of a press and a query it changes is told,
  given the answer, or named in `Untold` (`Heeded` for a component's keys, `PairsNoted` for the pages); the
  dynamic part, `CacheFresh`, says that what is cached is current or marked as old, and
  that an answer under way carries the present data, unless a press is under way as well.

Every one of these invariants was first checked by TLC as an invariant of the
module's instance. Two proofs found what TLC's instance was too small for. `OneUserAtATime`:
an answer about the former user that arrives after the next one has logged in; `overlaid`
names it. `DropsAreKept`: a folder that is dropped, deleted and created again under its name
comes back at the end of the menu, and `DropIsKept` still counted it as dropped. It takes three
changes, one more than `MaxArranged` allowed; `DeleteFolder` now forgets the place.

Outside TLAPS's reach, and left to TLC, are the liveness properties (`QueueDrains`,
`DueIsDecided`, `OperationEnds`, `IndexConverges`, `EveryNoteSettled`, `TypedIsSaved`,
`ListCatchesUp`, `RedirectsEnd`) and the four counterexamples. Every safety property that a
passing run checks is a theorem.

## 5. What the work has found

Findings, each with a run whose counterexample shows it:

1. A row whose last attempt is interrupted stays `sending` for ever: recovery asks
   for `attempt_count<max_attempts` (`send_queue.go:202`), and no handler accepts
   that status.
2. Cancelling a scheduled mail checks the status in a SELECT and not in the UPDATE
   (`mail_handlers.go:1854`): a mail that was sent is shown as cancelled.
3. A permanent delete uses the stored path; if a client has flagged the mail
   since the last scan, the file stays and the next scan imports it again
   (`maildir_write.go:283`).
4. The background worker of external accounts queries while its own rows keep the
   only connection (`external_imap.go:166`): every account runs into its timeout, the
   API waits meanwhile, and nothing is imported.

Seen while modelling, without a run of their own:

- A repeated request with an idempotency key is answered 409 when the queue row of
  its mail is gone or never was (no SMTP host), where `docs/API.md:593` says 200.
- The list of sends (`open_api_extended.go:213`) nests a query like finding 4.
- After an operator's update, a stop and a command line update of the stopped
  service, only the compose half of the rollback point is new; a rollback
  then mixes two updates, against `main.rs:58`. `RollbackRestoresOneUpdate`
  in `SystemUpdate` states it, and TLC refutes it with `MCSystemUpdate.cfg`.
- The operator's rollback waits for health on its own loopback address (`main.rs:653`,
  `operator.rs:344`), so that a rollback that has switched the service ends as failed;
  `SwitchedRollbackCompletes` states it, and TLC refutes it likewise.
- The webhook's worker ignores errors of its UPDATEs (`status_webhook.go:92`), which
  repeats a post; posts of one send may overtake each other.
- The duplicate removal of the Maildir scan looks at a file, and removes the other;
  a rename between the two can lose both. `MailSurvives` excludes it by `raced`.
- Two faults can show an unsent mail as delivered: a marker that outlives a requeue,
  then an interruption (`NoSilentLoss` is stated for one).
- `enqueueSend` may insert its row and report an error; the caller then repeats the
  mail (`excused` in `IdempotentSend`).
- The cursor of an external folder ignores UIDVALIDITY and passes over mails that
  failed once, and over those a server sends behind the first hundred out of the order of their UIDs; a mail without
  Message-ID is filed again after the server has counted anew (`external_imap.go:1228`). `NothingSkipped` and
  `FiledOnce` say so in their exceptions. Editing the host of an
  account keeps the cursor.

In the front end, where the exceptions of the properties come from:

- *Composing.* The success of a send deletes the draft of, and closes, whatever the dialog
  shows by then; the answer of a save gives its id to the next mail, which then overwrites
  that draft (`raced`). Overlapping saves make two drafts or keep the older text
  (`overlap`). After a failed send nothing is saved any more (`sendStartedRef` is reset only by the next
  opening), which `TypedIsSaved` exempts; a timer armed before the send leaves a draft behind; closing within five seconds loses the
  last change; a default signature that comes late resets what was typed. Repeating a
  partly failed separate send mails some recipients twice. A user who may schedule but not
  send is offered scheduling and refused.
- *Lists.* An optimistic change (`setQueriesData`) takes the mark of being old from every list, and an
  answer under way to a hidden list outlives the invalidation (`misled`). A failed read, star or move
  leaves what was shown until the next refresh; a bulk action that fails half-way refreshes
  nothing; a mail shown outside the Trash and deleted twice is erased.
- *Offers.* Labels, signatures, messages and attachments of the administration and scheduling
  are offered without the permission their routes ask for (`Unguarded`). Marks and stars put on many
  mails, and labels, leave the mail that is open as it was; disabling 2FA, applying
  and creating rules, cleaning up mails and the administration's batches change what other keys show
  without telling (`Untold`).
- *Folders.* Arranging is offered in "all mailboxes", where the server refuses; a folder
  dropped last ties with the send queue's item; with 1000 folders or more in one gap the
  last of them are numbered past the fixed item that follows.
- *Mail body.* A translation asked for one mail is shown for the next when it comes in
  late: `reset()` of a mutation only detaches it.
- *Session.* A known user whose re-check fails is sent to and fro between `/` and `/login`
  (`KnownButRefused`); a failed logout keeps the cookie and logs in again; the login form can be
  used while the query of the user is under way and then mixes two users' data (`overlaid`).
- *Language.* A node that first showed a text of the user stays untranslated later (`mixed`);
  greedy templates may translate what the user wrote.
- *Requests.* `return res.json()` in `lib/api.ts` is not awaited, so that the time limit ends
  with the headers and a stalled body never does.
- *Forwarding.* An address removed after a delivery has looked it up, while the raw file is read, still gets
  that mail (`forwarding_delivery.go:148`, `:54`). Choosing beside deleting stores a target that is not listed
  (the delivery checks again); resending may undo a verification that came in between; a rule with one unverified
  target forwards nothing.

## 6. What is not modelled, and why

- **Data**: texts of mails, MIME, HTML cleaning, templates, search, charts, settings:
  no order of steps.
- **Third-party programs** (Postfix, Dovecot, Rspamd, Nginx, Docker, Watchtower) and
  SQLite itself: their effects on shared state are actions of the modules.
- **API proxy**: it keeps no state.
- **Rest of the front end**: notifications and server events (what they do to the lists is
  `AutoRefresh`), the fields of the settings form and the polling of the version dialog,
  editor, widgets, themes, tables of texts and types. In the modelled pages: layout,
  wording, validation of fields, attachments' contents.
- **In parts of modelled components**: UIDs and modification sequences, attachments,
  the store of unknown recipients, what an import sets off (`applyInboundControls`: rules and blocked
  senders; `processInboundForwarding`) and the backfill's LIMIT 100 (two rows never reach it) in `MaildirSync`; records of runs, read flags,
  OAuth tokens and remote browsing in `ExternalImap`; prompts, uninstall, doctor,
  logs and the way a manager that has replaced itself goes on without its lock (section 7) in `SystemUpdate`; signatures and URL checks in `StatusWebhook`.
- **Single-statement administration**: nothing can come between, except the cascades,
  which are actions.
- In `Forwarding`: the expiry of a link and ids of a page that are out of date, for which
  a request can only be refused; own addresses as targets and the header against loops, for which a
  mail is only not forwarded.
- Submission, the server's side of login and 2FA, certificates, IMAP metadata: planned below.

## 7. Plan

The order was: the queue, since all mail passes through it, then what feeds it
(`ScheduledSend`, `IdempotentSend`), then what follows from it (`StatusWebhook`), the
two parts where foreign programs change the state under the code
(`MaildirSync`, `SystemUpdate`), then `ExternalImap`; after them the browser, which is half of
the code and where answers race with the user, with `Forwarding`; and the proofs of what
was only model-checked. What remains, in order:

1. `TwoFactor`: challenges of a login, five attempts counted after they were read
   (`two_factor.go:170`), recovery codes, an application password created while 2FA is disabled
   (`:415`). Abstract specification: a code is accepted once. To prove: single use of recovery codes.
2. `Submission`: the duplicate check by Message-ID, the sent copy, its queue row
   (`submission.go:303`, `:437`); two submissions and a crash. Meets `SendQueue` at
   `enqueueSend`. To prove: an accepted submission has a queue row.
3. `ImapMetadata`: UIDs unique and growing within a folder (`imap_metadata.go:189`),
   modification sequences that never hide a change. To prove: both.
4. `Certificates`: two renames and the reloads that follow (`certificate_manager.go:466`), with crashes.
5. `Connection`: the list of sends (`open_api_extended.go:213`) and other nested queries; a
   recovery pass that one bad row ends (`send_queue.go:215`).
6. In modelled parts: the replay of a send without a queue row (`open_api_handlers.go:687`), a
   rollback point of two updates (`main.rs:627`), the lock of a manager that has replaced
   itself (`main.rs:124`), Watchtower's timeout (`operator.rs:360`), UIDVALIDITY of a cursor
   (`external_imap.go:1193`).
7. Notifications, the settings form and the version dialog of the front end.
8. Algorithms checked against a reference definition: comparison of versions
   (`system_update_handlers.go:430`), the migration of Message-IDs (`app.go:1012`),
   permissions, retry delays, Maildir flags there and back.

## 8. Running it

    tlc -workers 2 -config MCSendQueue.cfg MCSendQueue
    tlapm SendQueueProofs.tla

The MC modules name the instance; `PROJECT.json` lists which configuration belongs to
which, and for every property one wrong variant of the code that breaks it.
