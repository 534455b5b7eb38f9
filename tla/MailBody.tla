-------------------------------- MODULE MailBody --------------------------------
(***************************************************************************)
(* The body of the mail that is open (TranslatableMailBody of pages/       *)
(* mail.tsx) and the AI assistant beside it (components/ai-mail-           *)
(* assistant.tsx), while answers come after the reader has moved on to     *)
(* another mail or another language.                                       *)
(***************************************************************************)
EXTENDS Naturals, FiniteSets

CONSTANTS BodyMails,         \* the mails of the list
          BodyLanguages,     \* the languages of the page
          WrittenIn,         \* the language of a mail
          MaxAsked           \* bound: requests under way at once

ASSUME BodyAssumption == BodyMails # {} /\ BodyLanguages # {}

VARIABLES reading,        \* the mail whose detail is shown, and the language of the page
          detailsRead,    \* the mails whose detail the browser still holds
          translation,    \* what TranslatableMailBody holds: [of, shown]; of = {} or {[mail, language]}
          translating,    \* its requests: [mail, language, late, gone]
          assistant,      \* what the assistant's dialog holds: [open, pending, result]
          generating      \* its requests: [mail, language, aborted]
mailBody == <<reading, detailsRead, translation, translating, assistant, generating>>

Readings == [mail : BodyMails, language : BodyLanguages]
NoTranslation == [of |-> {}, shown |-> FALSE]
ClosedAssistant == [open |-> FALSE, pending |-> FALSE, result |-> {}]

AtMostOne == {{}} \cup {{r} : r \in Readings}
MailBodyTypeOK ==
    /\ reading \in Readings
    /\ detailsRead \subseteq BodyMails
    /\ translation \in [of : AtMostOne, shown : BOOLEAN]
    /\ translating \subseteq [of : Readings, late : BOOLEAN, gone : BOOLEAN]
    /\ assistant \in [open : BOOLEAN, pending : BOOLEAN, result : AtMostOne]
    /\ generating \subseteq [of : Readings, aborted : BOOLEAN]

MailBodyStart(r) ==
    /\ reading = r
    /\ detailsRead = {reading.mail}
    /\ translation = NoTranslation /\ translating = {}
    /\ assistant = ClosedAssistant /\ generating = {}
MailBodyInit == \E r \in Readings : MailBodyStart(r)

------------------------------------------------------------------------------
\* Moving on.

\* As if nothing were aborted.
AbortForgotten == UNCHANGED generating

\* controller.current.abort(): the answer will be ignored.
AbortGeneration == generating' = {[r EXCEPT !.aborted = TRUE] : r \in generating}

\* As if the effect did not look at the mail.
TranslationKept == translation

TranslationForgotten == NoTranslation

\* The effect on [message.id, language] empties the translation; reset() lets go of the request
\* without ending it, so that its answer will still be taken.
LeftBehind(awaited) == {[r EXCEPT !.late = TRUE] : r \in awaited}

\* A detail the browser holds is shown in the component that is there; for another, the
\* component makes way for the wait, and its requests have nobody to answer to.
ReadMail(m) ==
    /\ m # reading.mail
    /\ reading' = [reading EXCEPT !.mail = m]
    /\ detailsRead' = detailsRead \cup {m}
    /\ translation' = TranslationForgotten
    /\ translating' = IF m \in detailsRead THEN LeftBehind(translating)
                      ELSE {[r EXCEPT !.gone = TRUE] : r \in translating}
    /\ assistant' = ClosedAssistant     \* keyed by the mail: unmounted, which aborts
    /\ AbortGeneration

SwitchLanguage(l) ==
    /\ l # reading.language
    /\ reading' = [reading EXCEPT !.language = l]
    /\ translation' = TranslationForgotten
    /\ translating' = LeftBehind(translating)
    /\ assistant' = [assistant EXCEPT !.pending = FALSE, !.result = {}]
    /\ AbortGeneration
    /\ UNCHANGED detailsRead

\* gcTime: a detail nobody shows is dropped in the end.
DropDetail(m) ==
    /\ m \in detailsRead \ {reading.mail}
    /\ detailsRead' = detailsRead \ {m}
    /\ UNCHANGED <<reading, translation, translating, assistant, generating>>

------------------------------------------------------------------------------
\* The translation.

\* shouldOfferMessageTranslation, by the letters of the text.
TranslationOffered == WrittenIn[reading.mail] # reading.language

\* translate.isPending is about the request the component still holds.
Translate ==
    /\ TranslationOffered \/ translation.of # {}
    /\ \A r \in translating : r.late \/ r.gone
    /\ Cardinality(translating) + Cardinality(generating) < MaxAsked
    /\ translating' = translating \cup {[of |-> reading, late |-> FALSE, gone |-> FALSE]}
    /\ UNCHANGED <<reading, detailsRead, translation, assistant, generating>>

TranslationAnswered(r) ==
    /\ translating' = translating \ {r}
    /\ translation' = IF r.gone THEN translation ELSE [of |-> {r.of}, shown |-> TRUE]
    /\ UNCHANGED <<reading, detailsRead, assistant, generating>>

TranslationFailed(r) ==
    /\ translating' = translating \ {r}
    /\ UNCHANGED <<reading, detailsRead, translation, assistant, generating>>

ToggleTranslation ==
    /\ translation.of # {}
    /\ translation' = [translation EXCEPT !.shown = ~@]
    /\ UNCHANGED <<reading, detailsRead, translating, assistant, generating>>

------------------------------------------------------------------------------
\* The assistant.

ChangeOpen ==
    /\ AbortGeneration
    /\ assistant' = [ClosedAssistant EXCEPT !.open = ~assistant.open]
    /\ UNCHANGED <<reading, detailsRead, translation, translating>>

\* The button is disabled while a request is pending.
Generate ==
    /\ assistant.open /\ ~assistant.pending
    /\ Cardinality(translating) + Cardinality(generating) < MaxAsked
    /\ assistant' = [assistant EXCEPT !.pending = TRUE, !.result = {}]
    /\ generating' = {[r EXCEPT !.aborted = TRUE] : r \in generating}
                     \cup {[of |-> reading, aborted |-> FALSE]}
    /\ UNCHANGED <<reading, detailsRead, translation, translating>>

\* A result, or for a failure none; "pending" ends with either.
Generated(r) ==
    /\ generating' = generating \ {r}
    /\ \E result \in {{r.of}, {}} :
        assistant' = IF r.aborted THEN assistant ELSE [assistant EXCEPT !.pending = FALSE, !.result = result]
    /\ UNCHANGED <<reading, detailsRead, translation, translating>>

MailBodyNext ==
    \/ \E m \in BodyMails : ReadMail(m) \/ DropDetail(m)
    \/ \E l \in BodyLanguages : SwitchLanguage(l)
    \/ Translate \/ ToggleTranslation
    \/ \E r \in translating : TranslationAnswered(r) \/ TranslationFailed(r)
    \/ ChangeOpen \/ Generate
    \/ \E r \in generating : Generated(r)

------------------------------------------------------------------------------
\* A translation of another mail or into another language was asked for before the reader moved
\* on, and came in since.
TranslationFits ==
    \/ translation'.of \subseteq {reading'}
    \/ /\ reading' = reading
       /\ \/ translation'.of = translation.of
          \/ \E r \in translating : r.late /\ translation'.of = {r.of}

\* The assistant waits exactly while there is a request whose answer it will take.
AssistantFits ==
    LET awaited == {r \in generating : ~r.aborted} IN
    /\ assistant.result \subseteq {reading}
    /\ assistant.pending <=> awaited # {}
    /\ \A r \in awaited : r.of = reading

(***************************************************************************)
(* What the reader sees of answers that come late: the assistant's result  *)
(* is always about the open mail, in the language of the page, however     *)
(* often the reader moves on, switches the language or asks again; the     *)
(* translation shown belongs to another mail only if it was asked for      *)
(* before the reader moved on and came in since.                           *)
(***************************************************************************)
LateAnswersFit == [][TranslationFits /\ AssistantFits']_mailBody
=============================================================================
