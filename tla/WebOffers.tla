------------------------------- MODULE WebOffers -------------------------------
(***************************************************************************)
(* One offer of a page while the permissions of the user change: a button  *)
(* shown under the permissions the browser has read, pressed, and judged   *)
(* by the server under those the user has by then.                         *)
(***************************************************************************)
EXTENDS MailPanels, ProfilePanels, AdminPanels, WebRoutes, FiniteSets

CONSTANT MaxGrants    \* how often the administrator changes the user's permissions

WebPages  == {MailPage, ProfilePage, AdminPage}
WebOffers == UNION WebPages

VARIABLES offered,    \* the offer looked at
          rights,     \* the permissions of the user
          known,      \* those the browser read, and renders with
          pressed,    \* the permissions under which the request under way left, as {} or a singleton
          refusal     \* none, stale (the permissions had changed) or plain
rightsVars == <<offered, rights, known, pressed, refusal>>

\* The permissions that decide about the offer.
Permissions(o) == UNION ((o.needs \cup Needs[o.what]) \ {AdminPermissions})

\* As few permissions as show the offer.
Sees(o) == {S \in SUBSET UNION o.needs : Cardinality(S) <= Cardinality(o.needs) /\ Can(S, o.needs)}

WebOffersTypeOK ==
    /\ offered \in WebOffers
    /\ offered.what \in DOMAIN Needs
    /\ rights \subseteq Permissions(offered) \cup UNION offered.needs
    /\ known \subseteq Permissions(offered) \cup UNION offered.needs
    /\ \A S \in pressed : S \subseteq Permissions(offered) \cup UNION offered.needs
    /\ refusal \in {"none", "stale", "plain"}

WebOffersStart(o, S) ==
    /\ offered = o
    /\ known = S /\ rights = S
    /\ pressed = {} /\ refusal = "none"
WebOffersInit == \E o \in WebOffers : \E S \in Sees(o) : WebOffersStart(o, S)

\* Another administrator changes a group of the user's; a session is not asked again for a request.
Distance == Cardinality((rights \ known) \cup (known \ rights))
Grant ==
    /\ Distance < MaxGrants
    /\ \E p \in Permissions(offered) :
        rights' = IF p \in rights THEN rights \ {p} ELSE rights \cup {p}
    /\ UNCHANGED <<offered, known, pressed, refusal>>

\* The query of the user is answered anew.
ReadMe ==
    /\ known # rights
    /\ known' = rights
    /\ UNCHANGED <<offered, rights, pressed, refusal>>

PressOffer ==
    /\ pressed = {} /\ Can(known, offered.needs)
    /\ pressed' = {known}
    /\ refusal' = "none"
    /\ UNCHANGED <<offered, rights, known>>

\* requireAuth reads the user and requirePermission compares.
ServeOffer ==
    /\ pressed # {}
    /\ pressed' = {}
    /\ refusal' = IF Can(rights, Needs[offered.what]) THEN "none"
                  ELSE IF pressed = {rights} THEN "plain" ELSE "stale"
    /\ UNCHANGED <<offered, rights, known>>

WebOffersNext == Grant \/ ReadMe \/ PressOffer \/ ServeOffer

\* Offers whose guard is weaker than the server's, by the requests they make: labels for who may
\* only manage rules; a mail's text and attachments for who may only list all mails; the forms
\* for labels and signatures among the settings; scheduling out of a draft.
Unguarded == {"labels", "adminMessage", "adminAttachment", "createLabel", "deleteLabel",
              "createSignature", "scheduleSend"}

(***************************************************************************)
(* What a page offers, the server does: but for the named gaps, a request  *)
(* is refused only when the user's permissions have changed since they     *)
(* were read (the guards in the pages against router_auth.go).             *)
(***************************************************************************)
NoOfferRefused == refusal = "plain" => offered.what \in Unguarded
=============================================================================
