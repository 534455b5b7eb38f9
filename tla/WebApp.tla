-------------------------------- MODULE WebApp --------------------------------
(***************************************************************************)
(* The web front end, one part of it at a time: the parts share no state,  *)
(* so that "page" chooses the one that moves and the others stay as they   *)
(* were when the browser loaded the application.                           *)
(***************************************************************************)
EXTENDS ComposeDraft, MailList, FolderOrder, WebCache, MailBody, Session, DomLanguage, Forwarding

VARIABLE page

WebParts == {"compose", "list", "folders", "offers", "cache", "body", "session", "language", "forwarding"}
webApp == <<page, compose, mailList, folderOrder, rightsVars, cacheVars, mailBody, session, domLanguage, forwarding>>

SomeOf(S) == CHOOSE x \in S : TRUE
WebInit ==
    /\ page \in WebParts
    /\ ComposeInit /\ MailListInit /\ FolderOrderInit /\ ForwardingInit
    /\ IF page = "offers" THEN WebOffersInit ELSE WebOffersStart(SomeOf(WebOffers), {})
    /\ IF page = "cache" THEN WebCacheInit ELSE WebCacheStart(SomeOf(CachePairs))
    /\ IF page = "body" THEN MailBodyInit ELSE MailBodyStart(SomeOf(Readings))
    /\ IF page = "session" THEN SessionInit ELSE SessionStart(Nobody, "/login")
    /\ IF page = "language" THEN DomLanguageInit ELSE DomLanguageStart(SomeOf(UiTexts), Original)

\* The parts other than p rest.
Others(p) ==
    /\ UNCHANGED page
    /\ IF p = "compose" THEN TRUE ELSE UNCHANGED compose
    /\ IF p = "list" THEN TRUE ELSE UNCHANGED mailList
    /\ IF p = "folders" THEN TRUE ELSE UNCHANGED folderOrder
    /\ IF p = "offers" THEN TRUE ELSE UNCHANGED rightsVars
    /\ IF p = "cache" THEN TRUE ELSE UNCHANGED cacheVars
    /\ IF p = "body" THEN TRUE ELSE UNCHANGED mailBody
    /\ IF p = "session" THEN TRUE ELSE UNCHANGED session
    /\ IF p = "language" THEN TRUE ELSE UNCHANGED domLanguage
    /\ IF p = "forwarding" THEN TRUE ELSE UNCHANGED forwarding

WebNext ==
    \/ page = "compose" /\ ComposeNext /\ Others("compose")
    \/ page = "list" /\ MailListNext /\ Others("list")
    \/ page = "folders" /\ FolderOrderNext /\ Others("folders")
    \/ page = "offers" /\ WebOffersNext /\ Others("offers")
    \/ page = "cache" /\ WebCacheNext /\ Others("cache")
    \/ page = "body" /\ MailBodyNext /\ Others("body")
    \/ page = "session" /\ SessionNext /\ Others("session")
    \/ page = "language" /\ DomLanguageNext /\ Others("language")
    \/ page = "forwarding" /\ ForwardingNext /\ Others("forwarding")

\* The timer of the dialog fires, and a request ends: within 60 seconds, or it is aborted.
ComposeFairness ==
    /\ WF_compose(page = "compose" /\ ~raced /\ SaveBegins)
    /\ WF_compose(page = "compose" /\ ~raced /\ ComposeRequestEnds)

\* Requests end (15 seconds at most), the interval fires, and of the many requests of a list, each
\* replaced by the next interval, some are answered before that.
MailListFairness ==
    /\ WF_mailList(page = "list" /\ \E r \in requests : RequestSteps(r))
    /\ WF_mailList(page = "list" /\ AutoRefresh)
    /\ \A v \in Views : WF_mailList(page = "list" /\ FetchAnswered(v))

\* The browser renders a redirect, and requests end (at the latest with the browser's timeout).
SessionFairness ==
    /\ WF_session(page = "session" /\ Redirects)
    /\ WF_session(page = "session" /\ (ServeMe \/ AnswerMe))

WebSpec ==
    /\ WebInit /\ [][WebNext]_webApp
    /\ ComposeFairness /\ MailListFairness /\ SessionFairness

\* Every variable of every part has its type.
WebTypeOK ==
    /\ page \in WebParts
    /\ ComposeTypeOK /\ MailListTypeOK /\ FolderOrderTypeOK /\ WebOffersTypeOK /\ WebCacheTypeOK
    /\ MailBodyTypeOK /\ SessionTypeOK /\ DomLanguageTypeOK /\ ForwardingTypeOK

\* Whatever failed, was lost or happened elsewhere, the list on the screen catches up (MailList).
ListCatchesUp == []<>(page = "list" => ListIsCurrent)
=============================================================================
