----------------------------- MODULE ComposeDraft -----------------------------
(***************************************************************************)
(* Writing a mail in the browser (apps/web/src/pages/mail.tsx,             *)
(* ComposeDialog): what is typed is saved as a draft five seconds after    *)
(* the last change, by requests that answer late, and sending, scheduling  *)
(* and loading a draft for editing answer late as well.                    *)
(*                                                                         *)
(* The dialog is one component that stays mounted: closing it keeps its    *)
(* state, opening it again resets that state, and an answer is applied to  *)
(* whatever the dialog shows by then.  A mail being written is a document; *)
(* a draft opened again continues the document it was made of.             *)
(***************************************************************************)
EXTENDS Naturals, Sequences, FiniteSets

CONSTANTS
    MaxDocs,   \* bounds of the model: documents begun,
    MaxEdits,  \* changes of the text,
    MaxSaves   \* drafts being saved at a time

ASSUME ComposeAssumption == {MaxDocs, MaxEdits, MaxSaves} \subseteq Nat

NoDraft == 0
NoText  == [doc |-> 0, v |-> 0]
Nothing == [phase |-> "none", kind |-> "send", doc |-> 0, mails |-> 0]

VARIABLES
    form,      \* the dialog's state; "from" is the id of the draft it was opened with
    saves,     \* requests that save a draft
    press,     \* what became of "send" or "schedule", and for which document it was pressed
    openingDraft,   \* a draft asked for whose answer has not come
    signature, \* the default signature has been loaded
    nextDoc,   \* the next document,
    edits,     \* and how often a text was changed: its version
    drafts,    \* the server's drafts: their text, NoText once deleted
    owner,     \* ghost: the document each draft was made of
    raced,     \* ghost: an answer met the dialog showing another document
    overlap    \* ghost: a save began, or the dialog was reset, before a save was answered

compose == <<form, saves, press, openingDraft, signature, nextDoc, edits,
             drafts, owner, raced, overlap>>
counts  == <<nextDoc, edits>>
server  == <<drafts, owner>>

\* What a closed dialog keeps and is looked at before the next opening resets it.
Closed(doc, d) == [open |-> FALSE, doc |-> doc, text |-> NoText, draftId |-> d, from |-> NoDraft,
    last |-> <<NoText, NoDraft>>, status |-> "idle", timer |-> FALSE, started |-> FALSE]

ComposeInit ==
    /\ form = Closed(0, NoDraft)
    /\ saves = {} /\ openingDraft = {} /\ press = Nothing
    /\ signature = FALSE /\ nextDoc = 1 /\ edits = 0
    /\ drafts = <<>> /\ owner = <<>> /\ raced = FALSE /\ overlap = FALSE

------------------------------------------------------------------------------
(* Rendering: the effect that arms the timer runs again when the text, the draft's id or
   "open" has changed, and only then. *)

\* The text is not empty and differs from what was saved last.
Unsaved(f) == f.open /\ (f.text.v > 0 \/ signature) /\ <<f.text, f.draftId>> # f.last

\* Bug: a change of the text alone does not arm the timer.
RenderedForIdOnly(f) == [f EXCEPT !.timer = Unsaved(f) /\ ~f.started /\ f.draftId # form.draftId]
Rendered(f) == [f EXCEPT !.timer = Unsaved(f) /\ ~f.started]

\* Bug: the draft's id is not among what opening resets.
OpenedKeepingId(doc, text, d) ==
    [open |-> TRUE, doc |-> doc, text |-> text, draftId |-> form.draftId, from |-> d,
     last |-> <<text, d>>, status |-> "idle", timer |-> FALSE, started |-> FALSE]
\* The effect of opening takes everything from the draft; a new mail holds the signature at most.
Opened(doc, text, d) ==
    [open |-> TRUE, doc |-> doc, text |-> text, draftId |-> d, from |-> d,
     last |-> <<text, d>>, status |-> "idle", timer |-> FALSE, started |-> FALSE]
OpenedNew(doc) == Opened(doc, [doc |-> doc, v |-> 0], NoDraft)

\* onOpenChange(false) and onSent: the id stays for the answers to come, and the timer goes.
Shut(f) == Closed(f.doc, f.draftId)

------------------------------------------------------------------------------
(* Opening, typing, closing. *)

\* openCompose, openReply, openForward: the dialog covers the buttons behind it.
Compose ==
    /\ ~form.open /\ nextDoc <= MaxDocs
    /\ nextDoc' = nextDoc + 1
    /\ form' = OpenedNew(nextDoc)
    /\ overlap' = (overlap \/ saves # {})
    /\ UNCHANGED <<saves, press, openingDraft, signature, edits, server, raced>>

\* openDraft asks for the mail.  It refuses drafts of the list of scheduled mails, which may be
\* stale, so that no draft is out of reach here.
LoadDraft(d) ==
    /\ ~form.open /\ openingDraft = {} /\ drafts[d] # NoText
    /\ openingDraft' = {[id |-> d, text |-> drafts[d]]}
    /\ UNCHANGED <<form, saves, press, signature, counts, server, raced, overlap>>

\* Its answer, whatever is open by now: composeDraft is replaced and the effect of opening runs.
DraftLoaded(o) ==
    /\ openingDraft' = {}
    /\ form' \in {Opened(o.text.doc, o.text, o.id), form}
    /\ overlap' = (overlap \/ saves # {})
    /\ UNCHANGED <<saves, press, signature, counts, server, raced>>

\* The inputs of the form, each with its setter.
Type ==
    /\ form.open /\ edits < MaxEdits
    /\ edits' = edits + 1
    /\ form' = Rendered([form EXCEPT !.text = [doc |-> form.doc, v |-> edits']])
    /\ UNCHANGED <<saves, press, openingDraft, signature, nextDoc, server, raced, overlap>>

\* The default signature is part of composerText, on which the effect of opening depends as
\* well: a mail that is neither a draft nor a reply starts over.
SignatureLoaded ==
    /\ form.open /\ ~signature
    /\ signature' = TRUE
    /\ form' = IF form.from = NoDraft THEN OpenedNew(form.doc) ELSE form
    /\ overlap' = (overlap \/ saves # {})
    /\ UNCHANGED <<saves, press, openingDraft, counts, server, raced>>

Close ==
    /\ form.open
    /\ form' = Shut(form)
    /\ UNCHANGED <<saves, press, openingDraft, signature, counts, server, raced, overlap>>

------------------------------------------------------------------------------
(* Saving the draft. *)

\* The timer's callback, up to api.saveDraft.
SaveBegins ==
    /\ form.timer /\ Cardinality(saves) < MaxSaves
    /\ form' = [form EXCEPT !.timer = FALSE, !.status = "saving"]
    /\ saves' = saves \cup {[doc |-> form.doc, text |-> form.text, id |-> form.draftId, answer |-> "none"]}
    /\ overlap' = (overlap \/ saves # {})
    /\ UNCHANGED <<press, openingDraft, signature, counts, server, raced>>

\* The server: a new draft, the draft overwritten, or no such draft.
SaveServed(s) ==
    /\ s.answer = "none"
    /\ \/ /\ s.id = NoDraft
          /\ drafts' = Append(drafts, s.text) /\ owner' = Append(owner, s.doc)
          /\ saves' = (saves \ {s}) \cup {[s EXCEPT !.id = Len(drafts) + 1, !.answer = "saved"]}
       \/ /\ s.id # NoDraft /\ drafts[s.id] # NoText
          /\ drafts' = [drafts EXCEPT ![s.id] = s.text] /\ owner' = owner
          /\ saves' = (saves \ {s}) \cup {[s EXCEPT !.answer = "saved"]}
       \/ /\ s.id # NoDraft /\ drafts[s.id] = NoText
          /\ saves' = (saves \ {s}) \cup {[s EXCEPT !.answer = "refused"]}
          /\ UNCHANGED server
    /\ UNCHANGED <<form, press, openingDraft, signature, counts, raced, overlap>>

\* setDraftId and lastSavedPayloadRef, with the text the request was made of.
Noted(s, f) == IF f.open THEN [f EXCEPT !.draftId = s.id, !.last = <<s.text, s.id>>, !.status = "saved"]
               ELSE [f EXCEPT !.draftId = s.id]

\* The answer.  Without a change of the draft's id the timer's effect does not run again.
SaveAnswered(s) ==
    /\ s.answer = "saved"
    /\ form' = IF s.id = form.draftId THEN Noted(s, form) ELSE Rendered(Noted(s, form))
    /\ saves' = saves \ {s}
    /\ raced' = (raced \/ s.doc # form.doc)
    /\ UNCHANGED <<press, openingDraft, signature, counts, server, overlap>>

\* Refused, aborted after 60 seconds or lost, before or after the server did its part.
SaveFails(s) ==
    /\ form' = IF form.open THEN [form EXCEPT !.status = "error"] ELSE form
    /\ saves' = saves \ {s}
    /\ UNCHANGED <<press, openingDraft, signature, counts, server, raced, overlap>>

------------------------------------------------------------------------------
(* Sending and scheduling: one press of a button at a time, a bound of the model (nothing stops
   a second press while the attachments are read). *)

\* submit/prepareSend and scheduleAt, up to the attachments being read; a mail sent separately
\* makes several requests.
PressSend(kind, parts) ==
    /\ form.open /\ press = Nothing /\ (kind = "schedule" => parts = 1)
    /\ press' = [phase |-> "reading", kind |-> kind, doc |-> form.doc, mails |-> parts]
    /\ UNCHANGED <<form, saves, openingDraft, signature, counts, server, raced, overlap>>

\* mutate, whatever the dialog shows by now; the ref is reset by the next opening.
Mutate ==
    /\ press' = [press EXCEPT !.phase = "sending"]
    /\ form' = [form EXCEPT !.started = form.open]

\* confirmOrRun: a warning asks first.
Prepared ==
    /\ press.phase = "reading"
    /\ \/ Mutate
       \/ press' = [press EXCEPT !.phase = "asking"] /\ form' = form
    /\ UNCHANGED <<saves, openingDraft, signature, counts, server, raced, overlap>>
Confirm ==
    /\ form.open /\ press.phase = "asking"
    /\ Mutate
    /\ UNCHANGED <<saves, openingDraft, signature, counts, server, raced, overlap>>
Decline ==
    /\ form.open /\ press.phase = "asking"
    /\ press' = Nothing
    /\ UNCHANGED <<form, saves, openingDraft, signature, counts, server, raced, overlap>>

\* The request is accepted; of a mail sent separately the next one is made.
MailAccepted ==
    /\ press.phase = "sending" /\ press.mails > 0
    /\ press' = [press EXCEPT !.mails = @ - 1]
    /\ UNCHANGED <<form, saves, openingDraft, signature, counts, server, raced, overlap>>

\* onError: the dialog stays, and a timer with it; sendStartedRef is not reset.
SendFails ==
    /\ press.phase = "sending" /\ press.mails > 0
    /\ press' = Nothing
    /\ UNCHANGED <<form, saves, openingDraft, signature, counts, server, raced, overlap>>

\* Bug: the draft goes as soon as the first mail of a separate sending is accepted.
FirstAccepted == press.kind = "send" /\ press.phase = "sending" /\ press.mails < 2
AllAccepted == press.kind = "send" /\ press.phase = "sending" /\ press.mails = 0

\* onSuccess of send, up to the answer of api.deleteDraft, whose failure is ignored.  The id is
\* that of the latest rendering: a mutation's callbacks follow the component.
DeleteDraft ==
    /\ AllAccepted
    /\ press' = [press EXCEPT !.phase = "deleting"]
    /\ drafts' \in {drafts} \cup {[drafts EXCEPT ![d] = NoText] : d \in {form.draftId} \ {NoDraft}}
    /\ raced' = (raced \/ press.doc # form.doc)
    /\ UNCHANGED <<form, saves, openingDraft, signature, counts, owner, overlap>>

\* The rest of it, setDraftId("") and onSent; of scheduleSend, all of it.
SendEnds ==
    /\ \/ press.phase = "deleting"
       \/ press.kind = "schedule" /\ press.phase = "sending" /\ press.mails = 0
    /\ press' = Nothing
    /\ form' = Closed(form.doc, IF press.kind = "send" THEN NoDraft ELSE form.draftId)
    /\ UNCHANGED <<saves, openingDraft, signature, counts, server, raced, overlap>>

------------------------------------------------------------------------------
ComposeAnswers ==
    \/ \E s \in saves : SaveServed(s) \/ SaveAnswered(s) \/ SaveFails(s)
    \/ Prepared \/ MailAccepted \/ SendFails \/ DeleteDraft \/ SendEnds
\* Behaviours are followed up to the first answer that meets another mail: nothing is promised
\* afterwards (the README says what then happens).
ComposeNext == ~raced /\
   (\/ Compose \/ (\E d \in DOMAIN drafts : LoadDraft(d)) \/ (\E o \in openingDraft : DraftLoaded(o))
    \/ Type \/ SignatureLoaded \/ Close \/ SaveBegins \/ ComposeAnswers
    \/ (\E k \in {"send", "schedule"}, n \in 1..2 : PressSend(k, n)) \/ Confirm \/ Decline)

ComposeRequestEnds == \E s \in saves : SaveServed(s) \/ SaveAnswered(s) \/ SaveFails(s)

------------------------------------------------------------------------------
Texts == [doc : 0..MaxDocs, v : 0..MaxEdits]
DraftIds   == 0..Len(drafts)
ComposeTypeOK ==
    /\ form \in [open : BOOLEAN, doc : 0..MaxDocs, text : Texts, draftId : DraftIds, from : DraftIds,
                 last : Texts \X DraftIds, status : {"idle", "saving", "saved", "error"},
                 timer : BOOLEAN, started : BOOLEAN]
    /\ saves \subseteq [doc : 1..MaxDocs, text : Texts, id : DraftIds, answer : {"none", "saved", "refused"}]
    /\ press \in [phase : {"none", "reading", "asking", "sending", "deleting"},
                 kind : {"send", "schedule"}, doc : 0..MaxDocs, mails : 0..2]
    /\ Cardinality(openingDraft) <= 1
    /\ drafts \in Seq(Texts) /\ Len(owner) = Len(drafts)
    /\ signature \in BOOLEAN /\ raced \in BOOLEAN /\ overlap \in BOOLEAN

\* A draft holds the text of the mail it was made of: unless an answer came when the dialog
\* already showed another mail, no mail is saved over the draft of another one.
DraftKeepsItsMail ==
    ~raced => \A d \in DOMAIN drafts : drafts[d] = NoText \/ drafts[d].doc = owner[d]

\* A draft disappears only for a mail whose every part was accepted, the one it was made of.
DraftDeletedWhenSent ==
    [][\A d \in DOMAIN drafts : drafts[d] # NoText /\ drafts'[d] = NoText /\ ~raced'
         => press.mails = 0 /\ press.doc = owner[d]]_compose

\* What is typed reaches the server, unless the dialog is closed, saving failed and the dialog
\* says so, saves overlapped, an answer met another mail, or a sending was started in this
\* dialog: also after it failed, because sendStartedRef is reset only by the next opening, so
\* that whatever is typed after a failed sending is never saved and nothing says so.  With
\* MaxSaves = 1 no two saves overlap to begin with.
TypedIsSaved ==
    []<>(\/ ~form.open \/ form.text.v = 0 \/ (form.status = "idle" /\ ~Unsaved(form))
         \/ (\E d \in DOMAIN drafts : drafts[d] = form.text)
         \/ form.started \/ form.status = "error" \/ press # Nothing \/ raced \/ overlap)
=============================================================================
