------------------------------- MODULE MailList -------------------------------
(***************************************************************************)
(* The lists of mails in the browser (apps/web/src/pages/mail.tsx) and the *)
(* mails on the server, which the lists only learn of by asking again.     *)
(*                                                                         *)
(* Each view has its list in the query cache.  An answer of the server     *)
(* invalidates all lists: the one on the screen asks again, the others     *)
(* when they are shown.  Reading, starring and labelling change the lists  *)
(* before the server answers; moving and deleting wait for its answer.     *)
(* "mark" stands for what they change (isRead, isStarred, one label).  The *)
(* cache (@tanstack/react-query 5) is modelled by what its functions do to *)
(* a list.                                                                 *)
(***************************************************************************)
EXTENDS Naturals, FiniteSets

CONSTANTS
    Mails,
    MaxHappens \* bound of the model: requests the user makes, requests that fail, changes by other programs

ASSUME MailListAssumption == IsFiniteSet(Mails) /\ MaxHappens \in Nat

Views == {"Inbox", "Trash"}

VARIABLES
    mails,    \* the server's mails: folder ("gone" once erased), mark
    lists,    \* the query cache: one list for each view
    shownMails,    \* the view on the screen
    requests, \* the user's requests; "heard" until the browser has given up on them
    confirming,   \* the mails the confirmation dialog is open for
    misled,   \* ghost: some change was not told of, or its mark taken from a list
    happened

mailList == <<mails, lists, shownMails, requests, confirming, misled, happened>>

NoRows     == [m \in {} |-> FALSE]
Rows(v)    == [m \in {n \in Mails : mails[n].folder = v} |-> mails[m].mark]
EmptyList  == [known |-> FALSE, rows |-> NoRows, stale |-> FALSE,
               fetching |-> FALSE, snap |-> NoRows]
\* The answer holds the mails as they are when asked for: a later answer is one asked for later.
\* It takes the mark "stale" away, so that only a list nothing is asked for has it.
ListAsked(v, L) == [L EXCEPT !.fetching = TRUE, !.snap = Rows(v), !.stale = FALSE]
Dropped(L)  == [L EXCEPT !.fetching = FALSE, !.snap = NoRows]

MailListInit ==
    /\ mails = [m \in Mails |-> [folder |-> "Inbox", mark |-> FALSE]]
    /\ lists = [v \in Views |-> IF v = "Inbox" THEN ListAsked(v, EmptyList) ELSE EmptyList]
    /\ shownMails = "Inbox" /\ requests = {} /\ confirming = {}
    /\ misled = FALSE /\ happened = 0

------------------------------------------------------------------------------
Happens == happened < MaxHappens /\ happened' = happened + 1

(* What the functions of the cache do. *)

\* invalidateQueries(["messages"]): a running request of the list on the screen is replaced; that
\* of another list goes on, and its answer will take the mark away again.
Invalidated == [v \in Views |->
    IF v = shownMails THEN ListAsked(v, lists[v]) ELSE [lists[v] EXCEPT !.stale = ~lists[v].fetching]]

\* setQueriesData(["messages"]) marks every list it finds fresh, with or without the mail in it.
Patched(L, m, value) == [v \in Views |->
    IF ~L[v].known THEN L[v]
    ELSE [L[v] EXCEPT !.stale = FALSE,
                      !.rows = [n \in DOMAIN L[v].rows |-> IF n = m THEN value ELSE L[v].rows[n]]]]

\* cancelQueries(["messages"]): no answer to come is used.
Cancelled == [v \in Views |-> Dropped(lists[v])]

\* How a list is misled: it loses its mark, an answer to come, or gets an answer from before.
Wiped  == \E v \in Views : lists[v].stale
Lost   == \E v \in Views : lists[v].stale \/ lists[v].fetching
Outrun == \E v \in Views \ {shownMails} : lists[v].fetching /\ lists[v].snap # Rows(v)

------------------------------------------------------------------------------
(* The queries. *)

\* openFolder and the other views: a list never loaded, stale or older than ten seconds is asked
\* for when it is shown, unless it already is.
ShowView(v) ==
    /\ v # shownMails /\ shownMails' = v /\ confirming = {}
    /\ \/ /\ ~lists[v].fetching
          /\ lists' = [lists EXCEPT ![v] = ListAsked(v, lists[v])]
       \/ /\ lists[v].fetching \/ (lists[v].known /\ ~lists[v].stale)
          /\ lists' = lists
    /\ UNCHANGED <<mails, requests, confirming, misled, happened>>

FetchAnswered(v) ==
    /\ lists[v].fetching
    /\ lists' = [lists EXCEPT ![v] = [EmptyList EXCEPT !.known = TRUE, !.rows = lists[v].snap]]
    /\ UNCHANGED <<mails, shownMails, requests, confirming, misled, happened>>

\* The last of its retries has failed.
FetchFails(v) ==
    /\ lists[v].fetching /\ Happens
    /\ lists' = [lists EXCEPT ![v] = [Dropped(lists[v]) EXCEPT !.stale = TRUE]]
    /\ UNCHANGED <<mails, shownMails, requests, confirming, misled>>

\* Bug: the lists are not among what the interval asks for again.
RefreshedElse == lists
Refreshed == Invalidated
\* The interval of mailAutoRefresh, the button, and the event the server sends on connecting.
AutoRefresh ==
    /\ lists' = Refreshed /\ misled' = (misled \/ Outrun)
    /\ UNCHANGED <<mails, shownMails, requests, confirming, happened>>

------------------------------------------------------------------------------
(* The user's requests. *)

Act(r) ==
    /\ Happens
    /\ requests' = requests \cup {[r EXCEPT !.n = happened]}
    /\ UNCHANGED <<mails, shownMails>>
Request(op, ids, target, bulk) ==
    [op |-> op, ids |-> ids, todo |-> ids, target |-> target, bulk |-> bulk,
     from |-> IF op = "delete" THEN shownMails ELSE "Inbox", heard |-> TRUE, n |-> 0]
OnScreen == DOMAIN lists[shownMails].rows

\* star and markRead, also from openMessage.
SetRead(m) ==
    /\ m \in OnScreen /\ confirming = {}
    /\ Act(Request("read", {m}, ~lists[shownMails].rows[m], FALSE))
    /\ lists' = Patched(lists, m, ~lists[shownMails].rows[m])
    /\ misled' = (misled \/ Wiped)
    /\ UNCHANGED <<confirming>>

\* addLabel and removeLabel.
SetLabel(m) ==
    /\ m \in OnScreen /\ confirming = {}
    /\ Act(Request("label", {m}, ~lists[shownMails].rows[m], FALSE))
    /\ lists' = Patched(Cancelled, m, ~lists[shownMails].rows[m])
    /\ misled' = (misled \/ Lost)
    /\ UNCHANGED <<confirming>>

\* move, from a row, its menu or the mail shown: no list changes before the answer.
Moved(ids, target, bulk) ==
    /\ ids # {} /\ ids \subseteq OnScreen /\ confirming = {} /\ target # shownMails
    /\ Act(Request("move", ids, target, bulk))
    /\ UNCHANGED <<lists, confirming, misled>>
MoveMail(m, target) == Moved({m}, target, FALSE)

\* runBulkMoveToFolder and the actions of the toolbar that move: disabled while one of them runs.
Bulk == \E r \in requests : r.heard /\ r.bulk
BulkMove(ids, target) == ~Bulk /\ Moved(ids, target, TRUE)

\* confirmDeleteMessage: the dialog keeps the mail it asks about.
AskDelete(m) ==
    /\ m \in OnScreen /\ confirming = {}
    /\ confirming' = {m}
    /\ UNCHANGED <<mails, lists, shownMails, requests, misled, happened>>

Deleting == \E r \in requests : r.heard /\ r.op = "delete"
Deleted ==
    /\ confirming # {}
    /\ Act(Request("delete", confirming, "Trash", FALSE))
    /\ UNCHANGED <<lists, confirming, misled>>
ConfirmDelete == ~Deleting /\ ~Bulk /\ Deleted

DeclineDelete ==
    /\ confirming # {} /\ confirming' = {}
    /\ UNCHANGED <<mails, lists, shownMails, requests, misled, happened>>

------------------------------------------------------------------------------
(* The server's part, and the answers. *)

\* handleDeleteMessage: a mail of the trash is erased, another one moved there.
Done(mail, r) ==
    CASE r.op \in {"read", "label"} -> [mail EXCEPT !.mark = r.target]
      [] r.op = "move"   -> [mail EXCEPT !.folder = r.target]
      [] r.op = "delete" -> [mail EXCEPT !.folder = IF mail.folder = "Trash" THEN "gone" ELSE "Trash"]

Serve(r, m) ==
    /\ m \in r.todo /\ mails[m].folder # "gone"
    /\ mails' = [mails EXCEPT ![m] = Done(mails[m], r)]
    /\ requests' = (requests \ {r}) \cup {[r EXCEPT !.todo = @ \ {m}]}
    /\ misled' = (misled \/ ~r.heard)
    /\ UNCHANGED <<lists, shownMails, confirming, happened>>

\* Bug: the answer to a move does not invalidate the lists.
MoveUntold(r) == IF r.op = "move" THEN lists ELSE Invalidated
Told(r) == Invalidated

\* onSuccess, of a bulk action after the last answer.
RequestAnswered(r) ==
    /\ r.heard /\ r.todo = {}
    /\ requests' = requests \ {r}
    /\ lists' = Told(r) /\ misled' = (misled \/ Outrun)
    /\ confirming' = IF r.op = "delete" THEN {} ELSE confirming
    /\ UNCHANGED <<mails, shownMails, happened>>

\* Refused, aborted after its timeout or lost; what was asked may still happen.  Of a bulk action
\* the first failure ends the waiting.  Only the labels then ask for the lists again.
RequestFails(r) ==
    /\ r.heard
    /\ \/ Happens
       \/ (\E m \in r.todo : mails[m].folder = "gone") /\ happened' = happened
    /\ requests' = (requests \ {r}) \cup
                   (IF r.todo = {} THEN {} ELSE {[r EXCEPT !.heard = FALSE, !.bulk = FALSE]})
    /\ IF r.op = "label" THEN lists' = Invalidated /\ misled' = (misled \/ Outrun)
       ELSE lists' = lists /\ misled' = TRUE
    /\ UNCHANGED <<mails, shownMails, confirming>>

RequestGone(r) ==
    /\ ~r.heard
    /\ requests' = requests \ {r}
    /\ UNCHANGED <<mails, lists, shownMails, confirming, misled, happened>>

\* Another browser, a mail program, a rule.
ChangedElsewhere(m, folder) ==
    /\ Happens
    /\ mails[m].folder \in Views \ {folder}
    /\ mails' = [mails EXCEPT ![m].folder = folder]
    /\ misled' = TRUE
    /\ UNCHANGED <<lists, shownMails, requests, confirming>>

------------------------------------------------------------------------------
Requests ==
    \/ \E m \in Mails : SetRead(m) \/ SetLabel(m) \/ AskDelete(m)
    \/ \E target \in Views : (\E m \in Mails : MoveMail(m, target))
                            \/ (\E ids \in SUBSET Mails : BulkMove(ids, target))
    \/ ConfirmDelete \/ DeclineDelete
RequestSteps(r) ==
    RequestAnswered(r) \/ RequestFails(r) \/ RequestGone(r) \/ (\E m \in Mails : Serve(r, m))
MailListNext ==
    \/ Requests \/ AutoRefresh \/ (\E r \in requests : RequestSteps(r))
    \/ \E v \in Views : ShowView(v) \/ FetchAnswered(v) \/ FetchFails(v)
    \/ \E m \in Mails, folder \in Views : ChangedElsewhere(m, folder)

------------------------------------------------------------------------------
MailListTypeOK ==
    /\ mails \in [Mails -> [folder : Views \cup {"gone"}, mark : BOOLEAN]]
    /\ \A v \in Views : /\ lists[v].fetching \in BOOLEAN
                        /\ \A m \in DOMAIN lists[v].rows : lists[v].rows[m] \in BOOLEAN
    /\ confirming \subseteq Mails /\ misled \in BOOLEAN
    /\ \A r \in requests : r.todo \subseteq r.ids

\* A list at rest tells the truth: with no request under way, a list on the screen that is fresh
\* and was not misled shows exactly the server's mails of its view, as they are.
ListTellsTruth ==
    LET list == lists[shownMails] IN
    requests = {} /\ list.known /\ ~list.stale /\ ~list.fetching /\ ~misled
    => list.rows = Rows(shownMails)

\* The list on the screen is what the server has.
ListIsCurrent == lists[shownMails].rows = Rows(shownMails)
=============================================================================
