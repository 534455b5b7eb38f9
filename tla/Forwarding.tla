------------------------------- MODULE Forwarding -------------------------------
(***************************************************************************)
(* Forwarding a user's mail to other addresses: the settings page          *)
(* (MailboxManagement in apps/web/src/pages/profile.tsx), the handlers     *)
(* behind it (forwarding_handlers.go) and the delivery that forwards       *)
(* (forwarding_delivery.go).  An address is listed unverified and its      *)
(* owner sent a link; once the link was opened it may be chosen as a       *)
(* target, of the account, of a mailbox or of a rule.                      *)
(*                                                                         *)
(* A handler reads in one statement and writes in another, with no         *)
(* transaction around them (the deletion writes in one).  A page has one   *)
(* request under way (forwardingBusy); the same user may have two pages    *)
(* open.  A handler that stores targets and a delivery look each of them   *)
(* up in a query of its own.  Left out: the expiry of a link after a day   *)
(* and an id of the page that is out of date, for which a request can only *)
(* be refused, and a link with an older token, which finds nothing.        *)
(***************************************************************************)
EXTENDS Integers, FiniteSets

CONSTANTS Tabs, Addresses,
          MaxLinks      \* bound: links sent out, which number the listings

ASSUME LinksAssumption == MaxLinks \in Nat

VARIABLES listed,       \* forwarding_verified_emails: [id, verified] by address
          accountTargets, mailboxTargets,   \* the targets stored
          forwardingRequest,   \* a page's request: [op, email, id, to, checked]
          links,        \* the links sent out so far
          openingLink,      \* a link being opened: the id that was found
          delivery,     \* a mail that came in: [at, left, to], the targets to look up and those found
          confirmed     \* the model's own: listings whose address opened a link
forwarding == <<listed, accountTargets, mailboxTargets, forwardingRequest, links,
                openingLink, delivery, confirmed>>
targets == <<accountTargets, mailboxTargets>>

\* A rule that forwards to every address: saved when all were verified, and never changed by a deletion.
RuleTargets == Addresses

Unlisted == [id |-> 0, verified |-> FALSE]
NoRequest == [op |-> "none", email |-> {}, id |-> 0, to |-> {}, checked |-> {}]
NoDelivery == [at |-> "none", left |-> {}, to |-> {}]
ListingIds == 0..MaxLinks
ListedRows == [id : ListingIds, verified : BOOLEAN]

\* A target that was found verified; the model remembers under which listing.
FoundTargets == [email : Addresses, id : ListingIds]

\* Whose targets a page saves, and what else its request may be about.
Settings == {"account", "mailbox"}
ForwardingOps == {"none", "issue", "remove"} \cup Settings
ForwardingRequests ==
    [op : ForwardingOps, email : SUBSET Addresses, id : ListingIds,
     to : SUBSET Addresses, checked : SUBSET Addresses]

ForwardingTypeOK ==
    /\ listed \in [Addresses -> ListedRows]
    /\ {accountTargets, mailboxTargets} \subseteq SUBSET Addresses
    /\ forwardingRequest \in [Tabs -> ForwardingRequests]
    /\ links \in ListingIds /\ openingLink \in ListingIds /\ confirmed \subseteq ListingIds
    /\ delivery \in [at : {"none", "settings", "rule"},
                    left : SUBSET Addresses, to : SUBSET FoundTargets]

ForwardingInit ==
    /\ listed = [a \in Addresses |-> Unlisted]
    /\ accountTargets = {} /\ mailboxTargets = {}
    /\ forwardingRequest = [t \in Tabs |-> NoRequest]
    /\ links = 0 /\ openingLink = 0 /\ delivery = NoDelivery /\ confirmed = {}

IsListed(a) == listed[a].id # 0
\* forwardingEmailVerified
EmailVerified(a) == listed[a].verified

Answered(t) == forwardingRequest' = [forwardingRequest EXCEPT ![t] = NoRequest]
Email(t) == CHOOSE a \in forwardingRequest[t].email : TRUE

\* A button of the page, which waits for the page's request (forwardingBusy), and the first
\* statement of its handler: until then the request has read nothing.
Ask(t, request) ==
    /\ forwardingRequest[t].op = "none"
    /\ forwardingRequest' = [forwardingRequest EXCEPT ![t] = request]
    /\ UNCHANGED <<listed, targets, links, openingLink, delivery, confirmed>>
AskAbout(t, op, a) == Ask(t, [NoRequest EXCEPT !.op = op, !.email = {a}, !.id = listed[a].id])

\* An address is looked up: one verified already needs no other link, and a second link or a
\* deletion needs a listing.
AddEmail(t, a)    == ~EmailVerified(a) /\ AskAbout(t, "issue", a)
ResendEmail(t, a) == IsListed(a) /\ ~EmailVerified(a) /\ AskAbout(t, "issue", a)
RemoveEmail(t, a) == IsListed(a) /\ AskAbout(t, "remove", a)
\* The targets of a setting are looked up one after the other, a first.
SaveTargets(t, op, to, a) ==
    /\ a \in to /\ EmailVerified(a)
    /\ Ask(t, [NoRequest EXCEPT !.op = op, !.to = to, !.checked = {a}])

UseForwardingPage(t) ==
    \/ \E a \in Addresses : AddEmail(t, a) \/ ResendEmail(t, a) \/ RemoveEmail(t, a)
    \/ \E op \in Settings, to \in SUBSET Addresses, a \in Addresses : SaveTargets(t, op, to, a)

------------------------------------------------------------------------------
\* The rest of the handlers.

\* issueForwardingVerification: an address not listed is inserted (UNIQUE with the user: another
\* page may have done it); a listing gets a new token and is unverified again, whatever has
\* happened to it meanwhile.
Issue(t) ==
    LET a == Email(t)  found == forwardingRequest[t].id  new == links + 1
        id == IF found = 0 THEN new ELSE found IN
    /\ forwardingRequest[t].op = "issue" /\ links < MaxLinks
    /\ IF listed[a].id = found
       THEN /\ links' = new
            /\ listed' = [listed EXCEPT ![a] = [id |-> id, verified |-> FALSE]]
       ELSE UNCHANGED <<links, listed>>
    /\ Answered(t)
    /\ UNCHANGED <<targets, openingLink, delivery, confirmed>>

\* The deletion, with the targets, in one transaction; rules keep theirs.
Remove(t) ==
    LET a == Email(t) IN
    /\ forwardingRequest[t].op = "remove"
    /\ listed' = [listed EXCEPT ![a] = IF @.id = forwardingRequest[t].id THEN Unlisted ELSE @]
    /\ accountTargets' = accountTargets \ {a} /\ mailboxTargets' = mailboxTargets \ {a}
    /\ Answered(t)
    /\ UNCHANGED <<links, openingLink, delivery, confirmed>>

\* cleanForwardingTargets goes on; an address that is not verified refuses the request.
CleanTarget(t, a) ==
    /\ forwardingRequest[t].op \in Settings
    /\ a \in forwardingRequest[t].to \ forwardingRequest[t].checked
    /\ IF EmailVerified(a)
       THEN forwardingRequest' = [forwardingRequest EXCEPT ![t].checked = @ \cup {a}]
       ELSE Answered(t)
    /\ UNCHANGED <<listed, targets, links, openingLink, delivery, confirmed>>

Store(setting, to) ==
    /\ accountTargets' = IF setting = "account" THEN to ELSE accountTargets
    /\ mailboxTargets' = IF setting = "mailbox" THEN to ELSE mailboxTargets
    /\ UNCHANGED <<listed, links, openingLink, delivery, confirmed>>

StoreTargets(t) ==
    /\ forwardingRequest[t].op \in Settings
    /\ forwardingRequest[t].to = forwardingRequest[t].checked
    /\ Store(forwardingRequest[t].op, forwardingRequest[t].to) /\ Answered(t)

\* With no target there is nothing to look up.
ClearTargets(t, setting) ==
    /\ forwardingRequest[t].op = "none"
    /\ Store(setting, {}) /\ UNCHANGED forwardingRequest

\* handleVerifyForwardingEmail: the owner of the address opens the link sent last, whose token finds
\* the listing; one used already only says so.
OpenLink(a) ==
    /\ openingLink = 0 /\ IsListed(a) /\ ~EmailVerified(a)
    /\ openingLink' = listed[a].id /\ confirmed' = confirmed \cup {listed[a].id}
    /\ UNCHANGED <<listed, targets, forwardingRequest, links, delivery>>

\* The update names the id that was found, not the token.
VerifyEmail ==
    /\ openingLink # 0 /\ openingLink' = 0
    /\ listed' = [a \in Addresses |->
                    IF listed[a].id = openingLink THEN [listed[a] EXCEPT !.verified = TRUE] ELSE listed[a]]
    /\ UNCHANGED <<targets, forwardingRequest, links, delivery, confirmed>>

------------------------------------------------------------------------------
\* Delivery.

elsewhere == <<listed, targets, forwardingRequest, links, openingLink, confirmed>>

\* inboundForwardingTargets: those of the mailbox, or else of the account, are read.
MailComes ==
    LET to == IF mailboxTargets # {} THEN mailboxTargets ELSE accountTargets IN
    /\ delivery.at = "none" /\ to # {}
    /\ delivery' = [at |-> "settings", left |-> to, to |-> {}]
    /\ UNCHANGED elsewhere

\* processRuleForwarding.
RuleApplies ==
    /\ delivery.at = "none" /\ RuleTargets # {}
    /\ delivery' = [at |-> "rule", left |-> RuleTargets, to |-> {}]
    /\ UNCHANGED elsewhere

\* Bug: what was verified when it was stored is not looked up again.
TakeTarget(a) ==
    /\ a \in delivery.left
    /\ delivery' = [delivery EXCEPT !.left = @ \ {a}, !.to = @ \cup {[email |-> a, id |-> listed[a].id]}]
    /\ UNCHANGED elsewhere

\* Each target is looked up in its own query (forwardingEmailVerified): what is not verified is left
\* out of the settings' targets, and stops a rule (cleanForwardingTargets).
FindTarget(a) ==
    /\ a \in delivery.left
    /\ delivery' =
         IF EmailVerified(a)
         THEN [delivery EXCEPT !.left = @ \ {a}, !.to = @ \cup {[email |-> a, id |-> listed[a].id]}]
         ELSE IF delivery.at = "rule" THEN NoDelivery ELSE [delivery EXCEPT !.left = @ \ {a}]
    /\ UNCHANGED elsewhere

\* When all were looked up and the raw file was read, one row of the send queue for those found.
Forward ==
    /\ delivery.at # "none" /\ delivery.left = {}
    /\ delivery' = NoDelivery
    /\ UNCHANGED elsewhere

\* A query, the raw file or the queue fails, or the mail was forwarded before: nothing is.
ForwardFails ==
    /\ delivery.at # "none" /\ delivery' = NoDelivery
    /\ UNCHANGED elsewhere

ForwardingNext ==
    \/ \E t \in Tabs : UseForwardingPage(t) \/ Issue(t) \/ Remove(t) \/ StoreTargets(t)
    \/ \E t \in Tabs, a \in Addresses : CleanTarget(t, a)
    \/ \E t \in Tabs, setting \in Settings : ClearTargets(t, setting)
    \/ \E a \in Addresses : OpenLink(a) \/ FindTarget(a)
    \/ VerifyEmail \/ MailComes \/ RuleApplies \/ Forward \/ ForwardFails

------------------------------------------------------------------------------
(***************************************************************************)
(* Each address a delivery will forward its mail to was on the list when   *)
(* the delivery looked it up, and its owner had opened a link sent since   *)
(* it was put there (forwarding_delivery.go); although a page may store a  *)
(* target that another page is deleting, a link may be replaced while it   *)
(* is opened, and an address removed and listed again.  An address removed *)
(* after it was looked up still gets the mail that is under way: nobody    *)
(* looks again before the mail is put in the queue.                        *)
(***************************************************************************)
ForwardsAsConfirmed == \A target \in delivery.to : target.id \in confirmed
=============================================================================
