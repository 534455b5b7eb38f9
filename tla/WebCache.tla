-------------------------------- MODULE WebCache --------------------------------
(***************************************************************************)
(* One query of a page and one press that changes what it shows: what the  *)
(* browser's cache (react-query, as apps/web/src/main.tsx sets it up)      *)
(* holds while answers come late, fail or overtake each other.             *)
(***************************************************************************)
EXTENDS WebOffers, Integers

CONSTANT MaxChanges    \* how often the server's data changes
ASSUME CacheAssumption == MaxChanges \in Nat

\* The presses and the queries they change, of the same page.
CachePairs == UNION {{c \in P \X P : c[2].key # <<>> /\ Affects(c[1], c[2])} : P \in WebPages}

VARIABLES pair,       \* the press and the query
          world,      \* the server's data, by the number of changes
          entry,      \* the cached answer: [data, invalid]
          mounted,    \* the query is on screen
          fetch,      \* none, asked, or the data on its way
          sent,       \* the press: idle, asked, or the data it left behind
          excused     \* the cache could not know
cacheVars == <<pair, world, entry, mounted, fetch, sent, excused>>

None == -2
Asked == -1
Data == 0..MaxChanges
pressTells == Tells(pair[1], pair[2].key)
pressGives == Gives(pair[1], pair[2].key)

WebCacheTypeOK ==
    /\ pair \in CachePairs
    /\ world \in Data
    /\ entry \in [data : Data, invalid : BOOLEAN]
    /\ mounted \in BOOLEAN /\ excused \in BOOLEAN
    /\ fetch \in {None, Asked} \cup Data
    /\ sent \in {None, Asked} \cup Data

WebCacheStart(p) ==
    /\ pair = p
    /\ world = 0 /\ entry = [data |-> 0, invalid |-> FALSE]
    /\ mounted = TRUE /\ fetch = None /\ sent = None /\ excused = FALSE
WebCacheInit == \E p \in CachePairs : WebCacheStart(p)

\* A component with the query appears: data told to be out of date is fetched, and data older than
\* staleTime, ten seconds.
Mount ==
    /\ ~mounted /\ mounted' = TRUE
    /\ fetch' \in IF fetch # None THEN {fetch} ELSE IF entry.invalid THEN {Asked} ELSE {None, Asked}
    /\ UNCHANGED <<pair, world, entry, sent, excused>>
Unmount ==
    /\ mounted /\ mounted' = FALSE
    /\ UNCHANGED <<pair, world, entry, fetch, sent, excused>>

ServeFetch ==
    /\ fetch = Asked /\ fetch' = world
    /\ UNCHANGED <<pair, world, entry, mounted, sent, excused>>
AnswerFetch ==
    /\ fetch \in Data
    /\ entry' = [data |-> fetch, invalid |-> FALSE]
    /\ excused' = (excused /\ fetch # world)
    /\ fetch' = None
    /\ UNCHANGED <<pair, world, mounted, sent>>
FailFetch ==
    /\ fetch # None /\ fetch' = None
    /\ UNCHANGED <<pair, world, entry, mounted, sent, excused>>

SendPress ==
    /\ mounted /\ sent = None
    /\ sent' = Asked
    /\ UNCHANGED <<pair, world, entry, mounted, fetch, excused>>
ServePress ==
    /\ sent = Asked /\ world < MaxChanges
    /\ world' = world + 1 /\ sent' = world + 1
    /\ UNCHANGED <<pair, entry, mounted, fetch, excused>>

\* onSuccess: setQueryData leaves a fetch alone, and so does invalidateQueries for a query off
\* screen; on screen the fetch is given up for a new one.
AnswerPress ==
    LET refetch == pressTells /\ mounted
        given   == IF pressGives THEN [data |-> sent, invalid |-> FALSE] ELSE entry IN
    /\ sent \in Data
    /\ sent' = None
    /\ entry' = IF pressTells THEN [given EXCEPT !.invalid = TRUE] ELSE given
    /\ fetch' = IF refetch THEN Asked ELSE fetch
    /\ excused' = (excused \/ (~refetch /\ fetch \in Data /\ fetch < world) \/ (pressGives /\ sent < world))
    /\ UNCHANGED <<pair, world, mounted>>

\* The answer is lost, or the request times out in the browser after the server acted.
LosePress ==
    /\ sent # None /\ sent' = None
    /\ excused' = (excused \/ sent # Asked)
    /\ UNCHANGED <<pair, world, entry, mounted, fetch>>

\* Another browser, a worker of the server.
Elsewhere ==
    /\ world < MaxChanges
    /\ world' = world + 1 /\ excused' = TRUE
    /\ UNCHANGED <<pair, entry, mounted, fetch, sent>>

WebCacheNext ==
    \/ Mount \/ Unmount \/ ServeFetch \/ AnswerFetch \/ FailFetch
    \/ SendPress \/ ServePress \/ AnswerPress \/ LosePress \/ Elsewhere

\* The presses, by what they tell, that leave a query of their page as it was.  A mark or a star put
\* on many mails tells of the page's lists and figures, and a label of the lists, but not of the
\* mail that is open, filed under <<"message">> (the mark or star of one mail does); the rest
\* forget a figure, a mailbox's password or another list.
Untold ==
    {<<r, RefreshMailData, MessageDetail>> : r \in {"markRead", "star"}}
    \cup {<<r, {<<"messages">>, <<"labels">>}, MessageDetail>> :
            r \in {"addMessageLabel", "removeMessageLabel", "deleteLabel"}}
    \cup {<<"disableTwoFactor", {}, <<"mailboxes", "mine">>>>,
          <<"applyRule", {<<"messages">>, <<"folders">>, <<"mail-stats">>, <<"labels">>}, <<"mailboxes", "mine">>>>,
          <<"createRule", {<<"rules">>, <<"messages">>, <<"mail-stats">>, <<"labels">>}, <<"mailboxes", "mine">>>>,
          <<"adminMessagesBatch", {<<"admin", "messages">>}, <<"admin", "overview">>>>,
          <<"adminMessagesBatch", {<<"admin", "messages">>}, <<"admin", "message", "id">>>>,
          <<"adminSendQueueBatch", {<<"admin", "send-queue">>}, <<"admin", "overview">>>>,
          <<"cleanupMail", {<<"mail-stats">>, <<"folders">>, <<"messages">>}, <<"labels", "mailbox">>>>}

(***************************************************************************)
(* A page that is at rest shows what the user's own presses did: but for   *)
(* the named presses and queries, a query on screen holds the server's     *)
(* data, or knows that it does not, unless an answer was lost, another     *)
(* actor changed the data, or an answer already under way outran the       *)
(* invalidation.                                                           *)
(***************************************************************************)
CacheKnows ==
    mounted /\ fetch = None /\ sent = None /\ ~excused /\ ~entry.invalid
    /\ <<pair[1].what, pair[1].told, pair[2].key>> \notin Untold
    => entry.data = world
=============================================================================
