------------------------------ MODULE WebAppProofs ------------------------------
(***************************************************************************)
(* Proofs about the parts of the web front end, for every instance of      *)
(* them: all sets of mails, texts, languages, pages and addresses, and all *)
(* bounds.  Each part has an inductive invariant of its own (Init, one     *)
(* lemma for each group of actions, Step); that each part starts and moves *)
(* by its own rules (PartsStart, PartsStep) carries them to WebSpec.  What *)
(* the pages' tables must say for the offers and for the cache is shown    *)
(* component by component, page by page, before the parts move.            *)
(***************************************************************************)
EXTENDS WebApp, FiniteSetTheorems, SequenceTheorems, TLAPS

------------------------------------------------------------------------------
(* ComposeDraft *)

DraftTexts == [doc : Nat, v : Nat]
Forms == [open : BOOLEAN, doc : Nat, text : DraftTexts, draftId : Nat, from : Nat,
          last : DraftTexts \X Nat, status : {"idle", "saving", "saved", "error"},
          timer : BOOLEAN, started : BOOLEAN]
Saves == [doc : Nat, text : DraftTexts, id : Nat, answer : {"none", "saved", "refused"}]

ComposeTyped ==
    /\ form \in Forms /\ saves \subseteq Saves
    /\ press \in [phase : {"none", "reading", "asking", "sending", "deleting"},
                  kind : {"send", "schedule"}, doc : Nat, mails : Nat]
    /\ nextDoc \in Nat \ {0} /\ edits \in Nat /\ signature \in BOOLEAN
    /\ drafts \in Seq(DraftTexts) /\ owner \in Seq(Nat \ {0}) /\ Len(owner) = Len(drafts)

\* An id is that of a draft made of the document.
DraftOf(id, doc) == id \in DOMAIN drafts /\ owner[id] = doc

\* What the dialog shows is one document: its text, and its draft if it has one.
FormIsOneDocument ==
    /\ form.open => form.doc # 0 /\ form.text.doc = form.doc
    /\ form.timer => form.open
    /\ form.draftId # NoDraft => DraftOf(form.draftId, form.doc)

\* So is what a request saves, and its answer names a draft.
SavesAreOfOneDocument ==
    \A s \in saves :
        /\ s.doc # 0 /\ s.text.doc = s.doc
        /\ s.id # NoDraft => DraftOf(s.id, s.doc)
        /\ s.answer = "saved" => s.id # NoDraft

\* And what is being opened.
OpeningIsOneDocument ==
    \A o \in openingDraft :
        o \in [id : Nat, text : DraftTexts] /\ o.text.doc # 0 /\ DraftOf(o.id, o.text.doc)

ComposeIInv ==
    /\ ComposeTyped
    /\ ~raced => /\ FormIsOneDocument /\ SavesAreOfOneDocument /\ OpeningIsOneDocument
                 /\ DraftKeepsItsMail

\* What a draft may become: it keeps its text, gets one of its document, or is deleted once all
\* mails of its document were accepted.
DraftsMove ==
    \A d \in DOMAIN drafts :
        drafts[d] # NoText /\ drafts'[d] = NoText => press.mails = 0 /\ press.doc = owner[d]

LEMMA TextsTyped == NoText \in DraftTexts /\ NoText.doc = 0 /\ NoDraft = 0
  BY DEF NoText, NoDraft, DraftTexts

LEMMA ClosedTyped ==
  ASSUME NEW doc \in Nat, NEW d \in Nat
  PROVE  /\ Closed(doc, d) \in Forms
         /\ ~Closed(doc, d).open /\ ~Closed(doc, d).timer
         /\ Closed(doc, d).doc = doc /\ Closed(doc, d).draftId = d
  BY TextsTyped DEF Closed, Forms

LEMMA OpenedTyped ==
  ASSUME NEW doc \in Nat, NEW text \in DraftTexts, NEW d \in Nat
  PROVE  /\ Opened(doc, text, d) \in Forms
         /\ Opened(doc, text, d).open /\ ~Opened(doc, text, d).timer
         /\ Opened(doc, text, d).doc = doc /\ Opened(doc, text, d).text = text
         /\ Opened(doc, text, d).draftId = d
  BY DEF Opened, Forms

\* A dialog that begins a document has no draft yet.
LEMMA NewDialog ==
  ASSUME NEW doc \in Nat \ {0}, form' = Opened(doc, [doc |-> doc, v |-> 0], 0)
  PROVE  form' \in Forms /\ FormIsOneDocument'
<1> DEFINE text == [doc |-> doc, v |-> 0]
<1>1. text \in DraftTexts /\ text.doc = doc
  BY DEF DraftTexts
<1>2. form' = Opened(doc, text, 0)
  OBVIOUS
<1> HIDE DEF text
<1>3. form' \in Forms /\ form'.open /\ ~form'.timer /\ form'.doc = doc /\ form'.text = text /\ form'.draftId = 0
  BY <1>1, <1>2, OpenedTyped
<1> QED
  BY <1>1, <1>3, TextsTyped DEF FormIsOneDocument

\* Rendering arms the timer of an open dialog only.
LEMMA RenderedTyped ==
  ASSUME NEW f \in Forms
  PROVE  /\ Rendered(f) \in Forms
         /\ Rendered(f).timer => f.open
         /\ Rendered(f).open = f.open /\ Rendered(f).doc = f.doc
         /\ Rendered(f).text = f.text /\ Rendered(f).draftId = f.draftId
<1>1. (Unsaved(f) /\ ~f.started) \in BOOLEAN
  OBVIOUS
<1> QED
  BY <1>1 DEF Rendered, Unsaved, Forms

LEMMA InitComposeIInv == ComposeInit => ComposeIInv
<1> SUFFICES ASSUME ComposeInit PROVE ComposeIInv
  OBVIOUS
<1>1. ComposeTyped
  <2>1. form = Closed(0, NoDraft)
    BY DEF ComposeInit
  <2>2. Closed(0, NoDraft) \in Forms
    BY ClosedTyped, TextsTyped
  <2>3. press \in [phase : {"none", "reading", "asking", "sending", "deleting"},
                  kind : {"send", "schedule"}, doc : Nat, mails : Nat]
    BY DEF ComposeInit, Nothing
  <2>4. drafts \in Seq(DraftTexts) /\ owner \in Seq(Nat \ {0}) /\ Len(owner) = Len(drafts)
    BY DEF ComposeInit
  <2>5. saves \subseteq Saves /\ nextDoc \in Nat \ {0} /\ edits \in Nat
    BY DEF ComposeInit
  <2>6. form \in Forms /\ signature \in BOOLEAN
    BY <2>1, <2>2 DEF ComposeInit
  <2> QED
    BY <2>3, <2>4, <2>5, <2>6 DEF ComposeTyped
<1>2. FormIsOneDocument
  <2>1. form = Closed(0, NoDraft)
    BY DEF ComposeInit
  <2> QED
    BY <2>1, ClosedTyped, TextsTyped DEF FormIsOneDocument
<1>3. SavesAreOfOneDocument /\ OpeningIsOneDocument /\ DraftKeepsItsMail
  BY DEF ComposeInit, SavesAreOfOneDocument, OpeningIsOneDocument, DraftKeepsItsMail
<1> QED
  BY <1>1, <1>2, <1>3 DEF ComposeIInv

\* An action that leaves the server, the requests and the counts alone has to keep the dialog.
LEMMA FormStepKeepsComposeIInv ==
  ASSUME ComposeIInv, ~raced, UNCHANGED <<saves, drafts, owner, raced>>,
         form' \in Forms, FormIsOneDocument',
         press' \in [phase : {"none", "reading", "asking", "sending", "deleting"},
                     kind : {"send", "schedule"}, doc : Nat, mails : Nat],
         nextDoc' \in Nat \ {0}, edits' \in Nat, signature' \in BOOLEAN,
         openingDraft' \subseteq openingDraft
  PROVE  ComposeIInv' /\ DraftsMove
<1>1. ComposeTyped' /\ DraftsMove
  BY DEF ComposeIInv, ComposeTyped, DraftsMove
<1>2. SavesAreOfOneDocument' /\ OpeningIsOneDocument' /\ DraftKeepsItsMail'
  BY DEF ComposeIInv, SavesAreOfOneDocument, OpeningIsOneDocument, DraftKeepsItsMail, DraftOf
<1> QED
  BY <1>1, <1>2 DEF ComposeIInv

\* Opening, typing and closing.
LEMMA DialogKeepsComposeIInv ==
  ASSUME ComposeIInv, ~raced,
         Compose \/ (\E o \in openingDraft : DraftLoaded(o)) \/ Type \/ SignatureLoaded \/ Close
  PROVE  ComposeIInv' /\ DraftsMove
<1> USE TextsTyped
<1>1. CASE Compose
  <2>1. [doc |-> nextDoc, v |-> 0] \in DraftTexts /\ nextDoc \in Nat \ {0}
    BY DEF ComposeIInv, ComposeTyped, DraftTexts
  <2>2. form' = Opened(nextDoc, [doc |-> nextDoc, v |-> 0], 0)
    BY <1>1 DEF Compose, OpenedNew, NoDraft
  <2>3. form' \in Forms /\ FormIsOneDocument'
    BY <2>1, <2>2, NewDialog
  <2> QED
    BY <1>1, <2>1, <2>3, FormStepKeepsComposeIInv DEF Compose, server, ComposeIInv, ComposeTyped
<1>2. ASSUME NEW o \in openingDraft, DraftLoaded(o) PROVE ComposeIInv' /\ DraftsMove
  <2>1. o \in [id : Nat, text : DraftTexts] /\ o.text.doc # 0 /\ DraftOf(o.id, o.text.doc)
    BY DEF ComposeIInv, OpeningIsOneDocument
  <2>2. form' = form \/ form' = Opened(o.text.doc, o.text, o.id)
    BY <1>2 DEF DraftLoaded
  <2>3. o.text \in DraftTexts /\ o.text.doc \in Nat /\ o.id \in Nat
    BY <2>1 DEF DraftTexts
  <2>4. UNCHANGED <<saves, press, signature, nextDoc, edits, drafts, owner, raced>> /\ openingDraft' = {}
    BY <1>2 DEF DraftLoaded, server, counts
  <2>5. form' \in Forms /\ FormIsOneDocument'
    <3>1. CASE form' = form
      BY <2>4, <3>1 DEF ComposeIInv, ComposeTyped, FormIsOneDocument, DraftOf
    <3>2. CASE form' = Opened(o.text.doc, o.text, o.id)
      <4> DEFINE f == Opened(o.text.doc, o.text, o.id)
      <4>1. f \in Forms /\ ~f.timer /\ f.doc = o.text.doc /\ f.text = o.text /\ f.draftId = o.id
        BY <2>3, OpenedTyped
      <4> HIDE DEF f
      <4>2. form' = f
        BY <3>2 DEF f
      <4> QED
        BY <2>1, <2>4, <4>1, <4>2 DEF FormIsOneDocument, DraftOf
    <3> QED
      BY <2>2, <3>1, <3>2
  <2> QED
    BY <2>4, <2>5, FormStepKeepsComposeIInv DEF ComposeIInv, ComposeTyped
<1>3. CASE Type
  <2> DEFINE f == [form EXCEPT !.text = [doc |-> form.doc, v |-> edits']]
  <2>1. edits' \in Nat /\ form \in Forms /\ form.doc \in Nat
    BY <1>3 DEF Type, ComposeIInv, ComposeTyped, Forms
  <2>2. f \in Forms /\ f.open = form.open /\ f.doc = form.doc /\ f.draftId = form.draftId
        /\ f.text.doc = form.doc
    BY <2>1 DEF Forms, DraftTexts
  <2>3. form' = Rendered(f)
    BY <1>3 DEF Type
  <2>4. UNCHANGED <<saves, press, openingDraft, signature, nextDoc, drafts, owner, raced>>
    BY <1>3 DEF Type, server
  <2> HIDE DEF f
  <2>5. form' \in Forms /\ FormIsOneDocument'
    BY <2>2, <2>3, <2>4, RenderedTyped DEF ComposeIInv, FormIsOneDocument, DraftOf
  <2> QED
    BY <2>1, <2>4, <2>5, FormStepKeepsComposeIInv DEF ComposeIInv, ComposeTyped
<1>4. CASE SignatureLoaded
  <2>1. [doc |-> form.doc, v |-> 0] \in DraftTexts /\ form.doc \in Nat /\ form \in Forms /\ form.open
    BY <1>4 DEF SignatureLoaded, ComposeIInv, ComposeTyped, Forms, DraftTexts
  <2>2. form' = form \/ form' = Opened(form.doc, [doc |-> form.doc, v |-> 0], 0)
    BY <1>4 DEF SignatureLoaded, OpenedNew, NoDraft
  <2>3. UNCHANGED <<saves, press, openingDraft, nextDoc, edits, drafts, owner, raced>> /\ signature' = TRUE
    BY <1>4 DEF SignatureLoaded, server, counts
  <2>4. form' \in Forms /\ FormIsOneDocument'
    <3>1. CASE form' = form
      BY <2>1, <2>3, <3>1 DEF ComposeIInv, FormIsOneDocument, DraftOf
    <3>2. CASE form' = Opened(form.doc, [doc |-> form.doc, v |-> 0], 0)
      <4>1. form.doc \in Nat \ {0}
        BY <2>1 DEF ComposeIInv, FormIsOneDocument
      <4> QED
        BY <3>2, <4>1, NewDialog
    <3> QED
      BY <2>2, <3>1, <3>2
  <2> QED
    BY <2>3, <2>4, FormStepKeepsComposeIInv DEF ComposeIInv, ComposeTyped
<1>5. CASE Close
  <2>1. form \in Forms /\ form.doc \in Nat /\ form.draftId \in Nat
    BY DEF ComposeIInv, ComposeTyped, Forms
  <2>2. form' = Closed(form.doc, form.draftId)
    BY <1>5 DEF Close, Shut
  <2>3. UNCHANGED <<saves, press, openingDraft, signature, nextDoc, edits, drafts, owner, raced>>
    BY <1>5 DEF Close, server, counts
  <2>4. form' \in Forms /\ FormIsOneDocument'
    BY <2>1, <2>2, <2>3, ClosedTyped DEF ComposeIInv, FormIsOneDocument, DraftOf
  <2> QED
    BY <2>3, <2>4, FormStepKeepsComposeIInv DEF ComposeIInv, ComposeTyped
<1> QED
  BY <1>1, <1>2, <1>3, <1>4, <1>5

LEMMA LoadKeepsComposeIInv ==
  ASSUME ComposeIInv, ~raced, NEW d \in DOMAIN drafts, LoadDraft(d)
  PROVE  ComposeIInv' /\ DraftsMove
<1> DEFINE o == [id |-> d, text |-> drafts[d]]
<1>1. d \in Nat /\ drafts[d] \in DraftTexts /\ drafts[d] # NoText
  BY DEF LoadDraft, ComposeIInv, ComposeTyped
<1>2. drafts[d].doc = owner[d] /\ owner[d] # 0
  BY <1>1 DEF ComposeIInv, ComposeTyped, DraftKeepsItsMail
<1>3. openingDraft' = {o} /\ UNCHANGED <<form, saves, press, signature, nextDoc, edits, drafts, owner, raced>>
  BY DEF LoadDraft, counts, server
<1>4. o \in [id : Nat, text : DraftTexts] /\ o.text.doc = owner[d] /\ o.id = d
  BY <1>1, <1>2
<1> HIDE DEF o
<1>5. ComposeTyped' /\ DraftsMove
  BY <1>3 DEF ComposeIInv, ComposeTyped, DraftsMove
<1>6. OpeningIsOneDocument'
  BY <1>2, <1>3, <1>4 DEF OpeningIsOneDocument, DraftOf
<1>7. FormIsOneDocument' /\ SavesAreOfOneDocument' /\ DraftKeepsItsMail'
  BY <1>3 DEF ComposeIInv, FormIsOneDocument, SavesAreOfOneDocument, DraftKeepsItsMail, DraftOf
<1> QED
  BY <1>5, <1>6, <1>7 DEF ComposeIInv

\* The requests that save.
LEMMA SaveBeginsKeepsComposeIInv ==
  ASSUME ComposeIInv, ~raced, SaveBegins
  PROVE  ComposeIInv' /\ DraftsMove
<1> DEFINE s == [doc |-> form.doc, text |-> form.text, id |-> form.draftId, answer |-> "none"]
           f == [form EXCEPT !.timer = FALSE, !.status = "saving"]
<1>1. form \in Forms /\ form.open /\ form.doc # 0 /\ form.text.doc = form.doc
      /\ (form.draftId # NoDraft => DraftOf(form.draftId, form.doc))
  BY DEF SaveBegins, ComposeIInv, ComposeTyped, FormIsOneDocument
<1>2. s \in Saves /\ s.doc = form.doc /\ s.text = form.text /\ s.id = form.draftId /\ s.answer = "none"
  BY <1>1 DEF Forms, Saves
<1>3. f \in Forms /\ ~f.timer /\ f.open /\ f.doc = form.doc /\ f.text = form.text /\ f.draftId = form.draftId
  BY <1>1 DEF Forms
<1>4. form' = f /\ saves' = saves \cup {s}
      /\ UNCHANGED <<press, openingDraft, signature, nextDoc, edits, drafts, owner, raced>>
  BY DEF SaveBegins, counts, server
<1> HIDE DEF s, f
<1>5. ComposeTyped' /\ DraftsMove
  BY <1>2, <1>3, <1>4 DEF ComposeIInv, ComposeTyped, DraftsMove
<1>6. FormIsOneDocument'
  BY <1>1, <1>3, <1>4 DEF FormIsOneDocument, DraftOf
<1>7. SavesAreOfOneDocument'
  BY <1>1, <1>2, <1>4 DEF ComposeIInv, SavesAreOfOneDocument, DraftOf
<1>8. OpeningIsOneDocument' /\ DraftKeepsItsMail'
  BY <1>4 DEF ComposeIInv, OpeningIsOneDocument, DraftKeepsItsMail, DraftOf
<1> QED
  BY <1>5, <1>6, <1>7, <1>8 DEF ComposeIInv

\* Drafts are only ever added: an id names the same document for ever.
LEMMA SaveServedKeepsComposeIInv ==
  ASSUME ComposeIInv, ~raced, NEW s \in saves, SaveServed(s)
  PROVE  ComposeIInv' /\ DraftsMove
<1>1. s \in Saves /\ s.doc # 0 /\ s.text.doc = s.doc /\ s.text # NoText /\ s.doc \in Nat
      /\ s.text \in DraftTexts
      /\ (s.id # NoDraft => DraftOf(s.id, s.doc))
  BY TextsTyped DEF ComposeIInv, ComposeTyped, SavesAreOfOneDocument, Saves
<1>2. UNCHANGED <<form, press, openingDraft, signature, nextDoc, edits, raced>>
  BY DEF SaveServed, counts
<1>3. /\ drafts \in Seq(DraftTexts) /\ owner \in Seq(Nat \ {0}) /\ Len(owner) = Len(drafts)
  BY DEF ComposeIInv, ComposeTyped
<1>4. CASE s.id = NoDraft
  <2>1. PICK n \in Nat \ {0} : n = Len(drafts) + 1 /\ Len(drafts) \in Nat
    BY <1>3
  <2> DEFINE t == [s EXCEPT !.id = n, !.answer = "saved"]
  <2>2. drafts' = Append(drafts, s.text) /\ owner' = Append(owner, s.doc) /\ saves' = (saves \ {s}) \cup {t}
    BY <1>4, <2>1 DEF SaveServed
  <2>3. t \in Saves /\ t.doc = s.doc /\ t.text = s.text /\ t.id = n /\ t.answer = "saved"
    BY <1>1, <2>1 DEF Saves
  <2> HIDE DEF t
  <2>4. /\ drafts' \in Seq(DraftTexts) /\ owner' \in Seq(Nat \ {0})
        /\ Len(owner') = n /\ Len(drafts') = n
        /\ owner'[n] = s.doc /\ drafts'[n] = s.text
        /\ \A d \in 1..Len(drafts) : drafts'[d] = drafts[d] /\ owner'[d] = owner[d]
    BY <1>1, <1>3, <2>1, <2>2
  <2>5. /\ DOMAIN drafts = 1..Len(drafts) /\ DOMAIN drafts' = 1..n
        /\ \A d \in 1..n : d = n \/ d \in 1..Len(drafts)
        /\ \A d \in 1..Len(drafts) : d \in 1..n
        /\ n \in 1..n
    BY <1>3, <2>1, <2>4
  <2>6. ComposeTyped' /\ DraftsMove
    BY <1>2, <1>3, <2>1, <2>2, <2>3, <2>4 DEF ComposeIInv, ComposeTyped, DraftsMove
  <2>7. \A id, doc : DraftOf(id, doc) => DraftOf(id, doc)'
    BY <2>4, <2>5 DEF DraftOf
  <2>8. DraftOf(n, s.doc)'
    BY <2>4, <2>5 DEF DraftOf
  <2>9. FormIsOneDocument' /\ OpeningIsOneDocument'
    BY <1>2, <2>7 DEF ComposeIInv, FormIsOneDocument, OpeningIsOneDocument
  <2>10. SavesAreOfOneDocument'
    <3>1. ASSUME NEW q \in saves', q # t
          PROVE  /\ q.doc # 0 /\ q.text.doc = q.doc
                 /\ q.id # NoDraft => DraftOf(q.id, q.doc)'
                 /\ q.answer = "saved" => q.id # NoDraft
      BY <2>2, <2>7, <3>1 DEF ComposeIInv, SavesAreOfOneDocument
    <3>2. /\ t.doc # 0 /\ t.text.doc = t.doc /\ t.id # NoDraft /\ DraftOf(t.id, t.doc)'
      BY <1>1, <2>1, <2>3, <2>8 DEF NoDraft
    <3> QED
      BY <3>1, <3>2 DEF SavesAreOfOneDocument
  <2>11. DraftKeepsItsMail'
    <3>1. \A d \in 1..Len(drafts) : drafts[d] = NoText \/ drafts[d].doc = owner[d]
      BY <2>5 DEF ComposeIInv, DraftKeepsItsMail
    <3> QED
      BY <1>1, <2>4, <2>5, <3>1 DEF DraftKeepsItsMail
  <2> QED
    BY <2>6, <2>9, <2>10, <2>11 DEF ComposeIInv
<1>5. CASE s.id # NoDraft /\ drafts[s.id] # NoText
  <2> DEFINE t == [s EXCEPT !.answer = "saved"]
  <2>1. t \in Saves /\ t.doc = s.doc /\ t.text = s.text /\ t.id = s.id
    BY <1>1 DEF Saves
  <2>2. drafts' = [drafts EXCEPT ![s.id] = s.text] /\ owner' = owner /\ saves' = (saves \ {s}) \cup {t}
    BY <1>5 DEF SaveServed
  <2> HIDE DEF t
  <2>3. /\ drafts' \in Seq(DraftTexts) /\ Len(drafts') = Len(drafts)
        /\ s.id \in 1..Len(drafts) /\ owner[s.id] = s.doc
        /\ \A d \in 1..Len(drafts) : drafts'[d] = IF d = s.id THEN s.text ELSE drafts[d]
    BY <1>1, <1>3, <1>5, <2>2 DEF DraftOf
  <2>4. ComposeTyped' /\ DraftsMove
    BY <1>1, <1>2, <1>3, <2>1, <2>2, <2>3 DEF ComposeIInv, ComposeTyped, DraftsMove
  <2>5. \A id, doc : DraftOf(id, doc) => DraftOf(id, doc)'
    BY <1>3, <2>2, <2>3 DEF DraftOf
  <2>6. FormIsOneDocument' /\ OpeningIsOneDocument'
    BY <1>2, <2>5 DEF ComposeIInv, FormIsOneDocument, OpeningIsOneDocument
  <2>7. SavesAreOfOneDocument'
    BY <1>1, <1>5, <2>1, <2>2, <2>5 DEF ComposeIInv, SavesAreOfOneDocument
  <2>8. DraftKeepsItsMail'
    BY <1>1, <1>3, <2>2, <2>3 DEF ComposeIInv, DraftKeepsItsMail
  <2> QED
    BY <2>4, <2>6, <2>7, <2>8 DEF ComposeIInv
<1>6. CASE s.id # NoDraft /\ drafts[s.id] = NoText
  <2> DEFINE t == [s EXCEPT !.answer = "refused"]
  <2>1. t \in Saves /\ t.doc = s.doc /\ t.text = s.text /\ t.id = s.id /\ t.answer = "refused"
    BY <1>1 DEF Saves
  <2>2. drafts' = drafts /\ owner' = owner /\ saves' = (saves \ {s}) \cup {t}
    BY <1>6 DEF SaveServed, server
  <2> HIDE DEF t
  <2>3. ComposeTyped' /\ DraftsMove
    BY <1>2, <2>1, <2>2 DEF ComposeIInv, ComposeTyped, DraftsMove
  <2>4. FormIsOneDocument' /\ OpeningIsOneDocument' /\ DraftKeepsItsMail'
    BY <1>2, <2>2 DEF ComposeIInv, FormIsOneDocument, OpeningIsOneDocument, DraftKeepsItsMail, DraftOf
  <2>5. SavesAreOfOneDocument'
    BY <1>1, <2>1, <2>2 DEF ComposeIInv, SavesAreOfOneDocument, DraftOf
  <2> QED
    BY <2>3, <2>4, <2>5 DEF ComposeIInv
<1> QED
  BY <1>4, <1>5, <1>6

LEMMA SaveEndsKeepsComposeIInv ==
  ASSUME ComposeIInv, ~raced, NEW s \in saves, SaveAnswered(s) \/ SaveFails(s)
  PROVE  ComposeIInv' /\ DraftsMove
<1>1. form \in Forms /\ s \in Saves /\ s.id \in Nat /\ s.text \in DraftTexts
  BY DEF ComposeIInv, ComposeTyped, Saves
<1>2. saves' = saves \ {s} /\ UNCHANGED <<press, openingDraft, signature, nextDoc, edits, drafts, owner>>
  BY DEF SaveAnswered, SaveFails, counts, server
<1>3. DraftsMove /\ SavesAreOfOneDocument' /\ OpeningIsOneDocument' /\ (~raced' => DraftKeepsItsMail')
  BY <1>2 DEF ComposeIInv, DraftsMove, SavesAreOfOneDocument, OpeningIsOneDocument, DraftKeepsItsMail, DraftOf
<1> SUFFICES form' \in Forms /\ (~raced' => FormIsOneDocument')
  BY <1>2, <1>3 DEF ComposeIInv, ComposeTyped
<1>4. CASE SaveAnswered(s)
  <2> DEFINE f == Noted(s, form)
  <2>1. f \in Forms /\ f.open = form.open /\ f.doc = form.doc /\ f.text = form.text
        /\ f.draftId = s.id /\ f.timer = form.timer
    BY <1>1 DEF Noted, Forms
  <2>2. form' = f \/ form' = Rendered(f)
    BY <1>4 DEF SaveAnswered
  <2>3. raced' = (raced \/ s.doc # form.doc) /\ (s.id # NoDraft => DraftOf(s.id, s.doc))
    BY <1>4 DEF SaveAnswered, ComposeIInv, SavesAreOfOneDocument
  <2> HIDE DEF f
  <2>4. form' \in Forms /\ form'.open = form.open /\ form'.doc = form.doc /\ form'.text = form.text
        /\ form'.draftId = s.id /\ (form'.timer => form.open)
    BY <2>1, <2>2, RenderedTyped DEF ComposeIInv, FormIsOneDocument
  <2> QED
    BY <1>2, <2>3, <2>4 DEF ComposeIInv, FormIsOneDocument, DraftOf
<1>5. CASE SaveFails(s)
  <2>1. form' \in Forms /\ form'.open = form.open /\ form'.doc = form.doc /\ form'.text = form.text
        /\ form'.draftId = form.draftId /\ form'.timer = form.timer
    BY <1>1, <1>5 DEF SaveFails, Forms
  <2> QED
    BY <1>2, <2>1 DEF ComposeIInv, FormIsOneDocument, DraftOf
<1> QED
  BY <1>4, <1>5

\* Sending: until the draft is deleted only the button's state changes.
LEMMA SendKeepsComposeIInv ==
  ASSUME ComposeIInv, ~raced,
         \/ \E k \in {"send", "schedule"}, n \in 1..2 : PressSend(k, n)
         \/ Prepared \/ Confirm \/ Decline \/ MailAccepted \/ SendFails
  PROVE  ComposeIInv' /\ DraftsMove
<1> DEFINE P == [phase : {"none", "reading", "asking", "sending", "deleting"},
                 kind : {"send", "schedule"}, doc : Nat, mails : Nat]
<1>1. UNCHANGED <<saves, openingDraft, signature, nextDoc, edits, drafts, owner, raced>>
  BY DEF PressSend, Prepared, Confirm, Decline, MailAccepted, SendFails, counts, server
<1>2. press \in P /\ form \in Forms /\ form.doc \in Nat /\ form.open \in BOOLEAN
  BY DEF ComposeIInv, ComposeTyped, Forms
<1>3. press' \in P
  <2>1. ASSUME NEW k \in {"send", "schedule"}, NEW n \in 1..2, PressSend(k, n) PROVE press' \in P
    BY <1>2, <2>1 DEF PressSend
  <2>2. CASE Prepared \/ Confirm
    BY <1>2, <2>2 DEF Prepared, Confirm, Mutate
  <2>3. CASE Decline \/ SendFails
    BY <2>3 DEF Decline, SendFails, Nothing
  <2>4. CASE MailAccepted
    BY <1>2, <2>4 DEF MailAccepted
  <2> QED
    BY <2>1, <2>2, <2>3, <2>4
<1> HIDE DEF P
<1>4. form' = form \/ form' = [form EXCEPT !.started = form.open]
  BY DEF PressSend, Prepared, Confirm, Decline, MailAccepted, SendFails, Mutate
<1>5. form' \in Forms /\ form'.open = form.open /\ form'.doc = form.doc /\ form'.text = form.text
      /\ form'.draftId = form.draftId /\ form'.timer = form.timer
  BY <1>2, <1>4 DEF Forms
<1>6. FormIsOneDocument'
  BY <1>1, <1>5 DEF ComposeIInv, FormIsOneDocument, DraftOf
<1> QED
  BY <1>1, <1>3, <1>5, <1>6, FormStepKeepsComposeIInv DEF P, ComposeIInv, ComposeTyped

\* The draft deleted is the dialog's, which is the one of the mail that was sent unless raced.
LEMMA DeleteDraftKeepsComposeIInv ==
  ASSUME ComposeIInv, ~raced, DeleteDraft
  PROVE  ComposeIInv' /\ (~raced' => DraftsMove)
<1>1. UNCHANGED <<form, saves, openingDraft, signature, nextDoc, edits, owner>>
      /\ raced' = (raced \/ press.doc # form.doc) /\ press.mails = 0
      /\ press' = [press EXCEPT !.phase = "deleting"]
  BY DEF DeleteDraft, AllAccepted, counts
<1>2. drafts \in Seq(DraftTexts) /\ owner \in Seq(Nat \ {0}) /\ Len(owner) = Len(drafts)
      /\ (form.draftId # NoDraft => form.draftId \in DOMAIN drafts /\ owner[form.draftId] = form.doc)
  BY DEF ComposeIInv, ComposeTyped, FormIsOneDocument, DraftOf
<1>3. drafts' = drafts \/ (form.draftId # NoDraft /\ drafts' = [drafts EXCEPT ![form.draftId] = NoText])
  BY DEF DeleteDraft
<1>4. /\ drafts' \in Seq(DraftTexts) /\ DOMAIN drafts' = DOMAIN drafts /\ Len(drafts') = Len(drafts)
      /\ \A d \in DOMAIN drafts : drafts'[d] = drafts[d] \/ (d = form.draftId /\ d # NoDraft /\ drafts'[d] = NoText)
  <2>1. CASE drafts' = drafts
    BY <1>2, <2>1
  <2>2. CASE form.draftId # NoDraft /\ drafts' = [drafts EXCEPT ![form.draftId] = NoText]
    <3>1. NoText \in DraftTexts /\ form.draftId \in DOMAIN drafts
      BY <1>2, <2>2, TextsTyped
    <3>2. drafts' \in Seq(DraftTexts) /\ Len(drafts') = Len(drafts)
      BY <1>2, <2>2, <3>1
    <3> QED
      BY <1>2, <2>2, <3>1, <3>2
  <2> QED
    BY <1>3, <2>1, <2>2
<1>5. press' \in [phase : {"none", "reading", "asking", "sending", "deleting"},
                  kind : {"send", "schedule"}, doc : Nat, mails : Nat]
  BY <1>1 DEF ComposeIInv, ComposeTyped
<1>6. ComposeTyped'
  BY <1>1, <1>4, <1>5 DEF ComposeIInv, ComposeTyped
<1>7. FormIsOneDocument' /\ SavesAreOfOneDocument' /\ OpeningIsOneDocument'
  BY <1>1, <1>4 DEF ComposeIInv, FormIsOneDocument, SavesAreOfOneDocument, OpeningIsOneDocument, DraftOf
<1>8. DraftKeepsItsMail'
  BY <1>1, <1>4 DEF ComposeIInv, DraftKeepsItsMail
<1>9. ~raced' => DraftsMove
  BY <1>1, <1>2, <1>4 DEF DraftsMove
<1> QED
  BY <1>6, <1>7, <1>8, <1>9 DEF ComposeIInv

LEMMA SendEndsKeepsComposeIInv ==
  ASSUME ComposeIInv, ~raced, SendEnds
  PROVE  ComposeIInv' /\ DraftsMove
<1>1. form \in Forms /\ form.doc \in Nat /\ form.draftId \in Nat
  BY DEF ComposeIInv, ComposeTyped, Forms
<1>2. PICK d \in {form.draftId, 0} : form' = Closed(form.doc, d)
  BY TextsTyped DEF SendEnds
<1>3. UNCHANGED <<saves, openingDraft, signature, nextDoc, edits, drafts, owner, raced>> /\ press' = Nothing
  BY DEF SendEnds, counts, server
<1>4. form' \in Forms /\ ~form'.open /\ ~form'.timer /\ form'.doc = form.doc /\ form'.draftId = d
  BY <1>1, <1>2, ClosedTyped
<1>5. FormIsOneDocument'
  BY <1>2, <1>3, <1>4, TextsTyped DEF ComposeIInv, FormIsOneDocument, DraftOf
<1>6. press' \in [phase : {"none", "reading", "asking", "sending", "deleting"},
                  kind : {"send", "schedule"}, doc : Nat, mails : Nat]
  BY <1>3 DEF Nothing
<1> QED
  BY <1>3, <1>4, <1>5, <1>6, FormStepKeepsComposeIInv DEF ComposeIInv, ComposeTyped

LEMMA StepKeepsComposeIInv ==
  ComposeIInv /\ [ComposeNext]_compose =>
    ComposeIInv' /\ [\A d \in DOMAIN drafts : drafts[d] # NoText /\ drafts'[d] = NoText /\ ~raced'
                        => press.mails = 0 /\ press.doc = owner[d]]_compose
<1> SUFFICES ASSUME ComposeIInv, [ComposeNext]_compose
             PROVE  ComposeIInv' /\ [~raced' => DraftsMove]_compose
  BY DEF DraftsMove
<1>1. CASE ComposeNext
  BY <1>1, DialogKeepsComposeIInv, LoadKeepsComposeIInv, SaveBeginsKeepsComposeIInv,
     SaveServedKeepsComposeIInv, SaveEndsKeepsComposeIInv, SendKeepsComposeIInv,
     DeleteDraftKeepsComposeIInv, SendEndsKeepsComposeIInv
  DEF ComposeNext, ComposeAnswers
<1>2. CASE UNCHANGED compose
  BY <1>2
  DEF compose, ComposeIInv, ComposeTyped, FormIsOneDocument, SavesAreOfOneDocument,
      OpeningIsOneDocument, DraftKeepsItsMail, DraftOf
<1> QED
  BY <1>1, <1>2

------------------------------------------------------------------------------
(* MailList *)

\* What the proof needs of the shape of lists and requests.
AnyRows == UNION {[S -> BOOLEAN] : S \in SUBSET Mails}
CachedLists == [known : BOOLEAN, rows : AnyRows, stale : BOOLEAN, fetching : BOOLEAN, snap : AnyRows]
RequestOf(ops, goals) == [op : ops, ids : SUBSET Mails, todo : SUBSET Mails, target : goals,
                          bulk : BOOLEAN, from : Views, heard : BOOLEAN, n : Nat]
AnyRequests == RequestOf({"read", "label"}, BOOLEAN) \cup RequestOf({"move", "delete"}, Views)

\* What a list must be for the screen to be right in the end.
Coherent(L, rows) ==
    /\ L.fetching => L.snap = rows
    /\ L.known /\ ~L.stale /\ ~L.fetching => L.rows = rows

\* With no request whose answer will invalidate the lists, each of them is right, knows that it is
\* not, or is about to be.
ListsAreCoherent ==
    (\A r \in requests : ~r.heard) /\ ~misled => \A v \in Views : Coherent(lists[v], Rows(v))

ListIInv ==
    /\ mails \in [Mails -> [folder : Views \cup {"gone"}, mark : BOOLEAN]]
    /\ lists \in [Views -> CachedLists] /\ requests \subseteq AnyRequests
    /\ shownMails \in Views /\ misled \in BOOLEAN /\ confirming \subseteq Mails /\ happened \in Nat
    /\ ListsAreCoherent

LEMMA RowsType ==
  ASSUME mails \in [Mails -> [folder : Views \cup {"gone"}, mark : BOOLEAN]], NEW v
  PROVE  Rows(v) \in AnyRows /\ NoRows \in AnyRows
<1>1. \A n \in Mails : mails[n].mark \in BOOLEAN
  OBVIOUS
<1> DEFINE S == {n \in Mails : mails[n].folder = v}
<1>2. Rows(v) \in [S -> BOOLEAN] /\ S \in SUBSET Mails
  BY <1>1 DEF Rows
<1>3. NoRows \in [{} -> BOOLEAN] /\ {} \in SUBSET Mails
  BY DEF NoRows
<1> HIDE DEF S
<1> QED
  BY <1>2, <1>3 DEF AnyRows

LEMMA PatchedRowsType ==
  ASSUME NEW rows \in AnyRows, NEW m, NEW value \in BOOLEAN
  PROVE  [n \in DOMAIN rows |-> IF n = m THEN value ELSE rows[n]] \in AnyRows
<1> PICK S \in SUBSET Mails : rows \in [S -> BOOLEAN]
  BY DEF AnyRows
<1>1. [n \in DOMAIN rows |-> IF n = m THEN value ELSE rows[n]] \in [S -> BOOLEAN]
  OBVIOUS
<1> QED
  BY <1>1 DEF AnyRows

\* A list just asked for waits for the mails as they are.
LEMMA ListAskedIsCoherent ==
  ASSUME mails \in [Mails -> [folder : Views \cup {"gone"}, mark : BOOLEAN]], NEW v \in Views,
         NEW L \in CachedLists
  PROVE  ListAsked(v, L) \in CachedLists /\ Coherent(ListAsked(v, L), Rows(v))
<1> DEFINE R == Rows(v)
<1>1. R \in AnyRows
  BY RowsType
<1> HIDE DEF R
<1>2. ListAsked(v, L) = [L EXCEPT !.fetching = TRUE, !.snap = R, !.stale = FALSE]
  BY DEF R, ListAsked
<1>3. [L EXCEPT !.fetching = TRUE, !.snap = R, !.stale = FALSE] \in CachedLists
  BY <1>1 DEF CachedLists
<1>4. Coherent([L EXCEPT !.fetching = TRUE, !.snap = R, !.stale = FALSE], R)
  BY <1>1 DEF Coherent, CachedLists
<1> QED
  BY <1>2, <1>3, <1>4 DEF R

LEMMA InitListIInv == MailListInit => ListIInv
<1> SUFFICES ASSUME MailListInit PROVE ListIInv
  OBVIOUS
<1>1. mails \in [Mails -> [folder : Views \cup {"gone"}, mark : BOOLEAN]]
  BY DEF MailListInit, Views
<1>2. EmptyList \in CachedLists
  BY <1>1, RowsType DEF EmptyList, CachedLists
<1>3. \A v \in Views : ListAsked(v, EmptyList) \in CachedLists /\ Coherent(ListAsked(v, EmptyList), Rows(v))
  BY <1>1, <1>2, ListAskedIsCoherent
<1>4. \A R : Coherent(EmptyList, R)
  BY DEF Coherent, EmptyList
<1>5. lists \in [Views -> CachedLists] /\ \A v \in Views : Coherent(lists[v], Rows(v))
  BY <1>2, <1>3, <1>4 DEF MailListInit
<1> QED
  BY <1>1, <1>5 DEF MailListInit, ListIInv, ListsAreCoherent, Views

\* Invalidating makes every list right, stale or asked for, but for an answer to come that is
\* outrun.
LEMMA InvalidatedIsCoherent ==
  ASSUME ListIInv
  PROVE  /\ Invalidated \in [Views -> CachedLists]
         /\ ~Outrun => \A v \in Views : Coherent(Invalidated[v], Rows(v))
<1>1. \A v \in Views : lists[v] \in CachedLists
  BY DEF ListIInv
<1>2. ASSUME NEW v \in Views, v = shownMails
      PROVE  Invalidated[v] \in CachedLists /\ Coherent(Invalidated[v], Rows(v))
  <2>1. Invalidated[v] = ListAsked(v, lists[v])
    BY <1>2 DEF Invalidated
  <2> QED
    BY <1>1, <2>1, ListAskedIsCoherent DEF ListIInv
<1>3. ASSUME NEW v \in Views, v # shownMails
      PROVE  /\ Invalidated[v] \in CachedLists
             /\ ~(lists[v].fetching /\ lists[v].snap # Rows(v)) => Coherent(Invalidated[v], Rows(v))
  <2> DEFINE L == lists[v]
             R == Rows(v)
  <2>1. Invalidated[v] = [L EXCEPT !.stale = ~L.fetching]
    BY <1>3 DEF Invalidated
  <2>2. L \in CachedLists
    BY <1>1
  <2> HIDE DEF L, R
  <2>3. [L EXCEPT !.stale = ~L.fetching] \in CachedLists
    BY <2>2 DEF CachedLists
  <2>4. ~(L.fetching /\ L.snap # R) => Coherent([L EXCEPT !.stale = ~L.fetching], R)
    BY <2>2 DEF CachedLists, Coherent
  <2> QED
    BY <2>1, <2>3, <2>4 DEF L, R
<1>4. ~Outrun => \A v \in Views \ {shownMails} : ~(lists[v].fetching /\ lists[v].snap # Rows(v))
  BY DEF Outrun
<1>5. Invalidated = [v \in Views |-> Invalidated[v]]
  BY DEF Invalidated
<1> QED
  BY <1>2, <1>3, <1>4, <1>5

\* Where every list comes from the functions of the cache, only what is misled is not coherent.
LEMMA InvalidatingKeepsListIInv ==
  ASSUME ListIInv, UNCHANGED <<mails, shownMails>>, lists' = Invalidated, misled' = (misled \/ Outrun),
         requests' \subseteq AnyRequests, confirming' \subseteq Mails, happened' \in Nat
  PROVE  ListIInv'
<1>1. lists' \in [Views -> CachedLists] /\ misled' \in BOOLEAN
  BY InvalidatedIsCoherent DEF ListIInv, Outrun
<1>2. \A v : Rows(v)' = Rows(v)
  BY DEF Rows
<1>3. ~misled' => \A v \in Views : Coherent(lists'[v], Rows(v))
  BY InvalidatedIsCoherent
<1>4. ListsAreCoherent'
  BY <1>2, <1>3 DEF ListsAreCoherent, Coherent
<1> QED
  BY <1>1, <1>4 DEF ListIInv

\* One list changes, and stays coherent if it was.
LEMMA OneListKeepsListIInv ==
  ASSUME ListIInv, UNCHANGED <<mails, requests, confirming, misled>>, NEW v \in Views, NEW L \in CachedLists,
         lists' = [lists EXCEPT ![v] = L], Coherent(lists[v], Rows(v)) => Coherent(L, Rows(v)),
         shownMails' \in Views, happened' \in Nat
  PROVE  ListIInv'
<1>1. lists' \in [Views -> CachedLists]
  BY DEF ListIInv
<1>2. \A w : Rows(w)' = Rows(w)
  BY DEF Rows
<1>3. ListsAreCoherent'
  <2> SUFFICES ASSUME (\A r \in requests : ~r.heard) /\ ~misled, NEW w \in Views
               PROVE  Coherent(lists'[w], Rows(w))
    BY <1>2 DEF ListsAreCoherent, Coherent
  <2>1. Coherent(lists[w], Rows(w)) /\ Coherent(lists[v], Rows(v))
    BY DEF ListIInv, ListsAreCoherent
  <2>2. lists'[w] = IF w = v THEN L ELSE lists[w]
    BY DEF ListIInv
  <2> QED
    BY <2>1, <2>2
<1> QED
  BY <1>1, <1>3 DEF ListIInv

LEMMA QueriesKeepListIInv ==
  ASSUME ListIInv, NEW v \in Views, ShowView(v) \/ FetchAnswered(v) \/ FetchFails(v)
  PROVE  ListIInv'
<1> DEFINE L == lists[v]
           R == Rows(v)
<1>1. L \in CachedLists /\ NoRows \in AnyRows
  BY RowsType DEF ListIInv
<1>2. CASE ShowView(v)
  <2>1. ListAsked(v, L) \in CachedLists /\ Coherent(ListAsked(v, L), R)
    BY <1>1, ListAskedIsCoherent DEF ListIInv
  <2>2. CASE lists' = [lists EXCEPT ![v] = ListAsked(v, lists[v])]
    BY <1>2, <2>1, <2>2, OneListKeepsListIInv DEF ShowView, ListIInv
  <2>3. CASE lists' = lists
    <3>1. lists' = [lists EXCEPT ![v] = L]
      BY <2>3 DEF ListIInv
    <3> QED
      BY <1>1, <1>2, <3>1, OneListKeepsListIInv DEF ShowView, ListIInv
  <2> QED
    BY <1>2, <2>2, <2>3 DEF ShowView
<1>3. CASE FetchAnswered(v)
  <2> DEFINE M == [EmptyList EXCEPT !.known = TRUE, !.rows = L.snap]
  <2>1. M \in CachedLists
    BY <1>1 DEF EmptyList, CachedLists
  <2>2. L.fetching /\ Coherent(L, R) => Coherent(M, R)
    BY DEF Coherent, EmptyList
  <2>3. /\ L.fetching /\ lists' = [lists EXCEPT ![v] = M]
        /\ UNCHANGED <<mails, shownMails, requests, confirming, misled, happened>>
    BY <1>3 DEF FetchAnswered
  <2> HIDE DEF M
  <2> QED
    BY <2>1, <2>2, <2>3, OneListKeepsListIInv DEF ListIInv
<1>4. CASE FetchFails(v)
  <2> DEFINE M == [Dropped(L) EXCEPT !.stale = TRUE]
  <2> HIDE DEF L
  <2>1. M \in CachedLists
    BY <1>1 DEF Dropped, CachedLists
  <2>2. Coherent(M, R)
    BY <1>1 DEF Coherent, Dropped, CachedLists
  <2>3. /\ lists' = [lists EXCEPT ![v] = M]
        /\ UNCHANGED <<mails, shownMails, requests, confirming, misled>> /\ happened' \in Nat
    BY <1>4 DEF FetchFails, Happens, L, ListIInv
  <2> HIDE DEF M
  <2> QED
    BY <2>1, <2>2, <2>3, OneListKeepsListIInv DEF ListIInv
<1> QED
  BY <1>2, <1>3, <1>4

\* The user's requests: each one will invalidate the lists with its answer.
LEMMA ActKeepsListIInv ==
  ASSUME ListIInv, NEW r \in AnyRequests, r.heard, Act(r), lists' \in [Views -> CachedLists],
         misled' \in BOOLEAN, confirming' \subseteq Mails
  PROVE  ListIInv'
<1> DEFINE q == [r EXCEPT !.n = happened]
<1>1. q \in AnyRequests /\ q.heard
  BY DEF AnyRequests, RequestOf, ListIInv
<1>2. requests' = requests \cup {q} /\ happened' \in Nat /\ UNCHANGED <<mails, shownMails>>
  BY DEF Act, Happens, ListIInv
<1> HIDE DEF q
<1>3. ~(\A p \in requests' : ~p.heard)
  BY <1>1, <1>2
<1> QED
  BY <1>1, <1>2, <1>3 DEF ListIInv, ListsAreCoherent

LEMMA RequestType ==
  ASSUME ListIInv, NEW op, NEW ids \in SUBSET Mails, NEW target, NEW bulk \in BOOLEAN,
         \/ op \in {"read", "label"} /\ target \in BOOLEAN
         \/ op \in {"move", "delete"} /\ target \in Views
  PROVE  Request(op, ids, target, bulk) \in AnyRequests /\ Request(op, ids, target, bulk).heard
<1>1. (IF op = "delete" THEN shownMails ELSE "Inbox") \in Views
  BY DEF ListIInv, Views
<1>2. [op |-> op, ids |-> ids, todo |-> ids, target |-> target, bulk |-> bulk,
       from |-> IF op = "delete" THEN shownMails ELSE "Inbox", heard |-> TRUE, n |-> 0] \in AnyRequests
  BY <1>1 DEF AnyRequests, RequestOf
<1> QED
  BY <1>2 DEF Request

LEMMA PatchedType ==
  ASSUME NEW C \in [Views -> CachedLists], NEW m, NEW value \in BOOLEAN
  PROVE  Patched(C, m, value) \in [Views -> CachedLists]
<1> SUFFICES ASSUME NEW v \in Views PROVE Patched(C, m, value)[v] \in CachedLists
  BY DEF Patched
<1> DEFINE L == C[v]
           rows == [n \in DOMAIN L.rows |-> IF n = m THEN value ELSE L.rows[n]]
<1>1. L \in CachedLists
  OBVIOUS
<1>2. L.rows \in AnyRows
  BY <1>1 DEF CachedLists
<1>3. rows \in AnyRows
  BY <1>2, PatchedRowsType
<1>4. Patched(C, m, value)[v] = IF ~L.known THEN L ELSE [L EXCEPT !.stale = FALSE, !.rows = rows]
  BY DEF Patched
<1> HIDE DEF L, rows
<1>5. [L EXCEPT !.stale = FALSE, !.rows = rows] \in CachedLists
  BY <1>1, <1>3 DEF CachedLists
<1> QED
  BY <1>1, <1>4, <1>5

LEMMA CancelledType == ListIInv => Cancelled \in [Views -> CachedLists]
<1> SUFFICES ASSUME ListIInv, NEW v \in Views PROVE Dropped(lists[v]) \in CachedLists
  BY DEF Cancelled
<1>1. lists[v] \in CachedLists /\ NoRows \in AnyRows
  BY RowsType DEF ListIInv
<1> QED
  BY <1>1 DEF Dropped, CachedLists

LEMMA OnScreenType ==
  ASSUME ListIInv, NEW m \in OnScreen
  PROVE  m \in Mails /\ lists[shownMails].rows[m] \in BOOLEAN
<1>1. lists[shownMails].rows \in AnyRows
  BY DEF ListIInv, CachedLists
<1> QED
  BY <1>1 DEF AnyRows, OnScreen

LEMMA RequestsKeepListIInv == ListIInv /\ Requests => ListIInv'
<1> SUFFICES ASSUME ListIInv, Requests PROVE ListIInv'
  OBVIOUS
<1>1. ASSUME NEW m \in Mails, SetRead(m) PROVE ListIInv'
  <2> DEFINE value == ~lists[shownMails].rows[m]
  <2>1. value \in BOOLEAN /\ {m} \in SUBSET Mails
    OBVIOUS
  <2>2. Patched(lists, m, value) \in [Views -> CachedLists]
    BY <2>1, PatchedType DEF ListIInv
  <2>3. Act(Request("read", {m}, value, FALSE)) /\ lists' = Patched(lists, m, value)
        /\ misled' = (misled \/ Wiped) /\ confirming' = confirming
    BY <1>1 DEF SetRead
  <2> HIDE DEF value
  <2>4. Request("read", {m}, value, FALSE) \in AnyRequests /\ Request("read", {m}, value, FALSE).heard
    BY <2>1, RequestType
  <2> QED
    BY <2>2, <2>3, <2>4, ActKeepsListIInv DEF ListIInv, Wiped
<1>2. ASSUME NEW m \in Mails, SetLabel(m) PROVE ListIInv'
  <2> DEFINE value == ~lists[shownMails].rows[m]
  <2>1. value \in BOOLEAN /\ {m} \in SUBSET Mails
    OBVIOUS
  <2>2. Patched(Cancelled, m, value) \in [Views -> CachedLists]
    BY <2>1, PatchedType, CancelledType
  <2>3. Act(Request("label", {m}, value, FALSE)) /\ lists' = Patched(Cancelled, m, value)
        /\ misled' = (misled \/ Lost) /\ confirming' = confirming
    BY <1>2 DEF SetLabel
  <2> HIDE DEF value
  <2>4. Request("label", {m}, value, FALSE) \in AnyRequests /\ Request("label", {m}, value, FALSE).heard
    BY <2>1, RequestType
  <2> QED
    BY <2>2, <2>3, <2>4, ActKeepsListIInv DEF ListIInv, Lost
<1>3. ASSUME NEW ids, NEW target \in Views, NEW bulk \in BOOLEAN, Moved(ids, target, bulk) PROVE ListIInv'
  <2>1. ids \in SUBSET Mails
    BY <1>3, OnScreenType DEF Moved
  <2>2. Request("move", ids, target, bulk) \in AnyRequests /\ Request("move", ids, target, bulk).heard
    BY <2>1, RequestType
  <2> QED
    BY <1>3, <2>2, ActKeepsListIInv DEF Moved, ListIInv
<1>4. CASE Deleted
  <2>1. /\ Request("delete", confirming, "Trash", FALSE) \in AnyRequests
        /\ Request("delete", confirming, "Trash", FALSE).heard
    BY RequestType DEF ListIInv, Views
  <2> QED
    BY <1>4, <2>1, ActKeepsListIInv DEF Deleted, ListIInv
<1>5. ASSUME UNCHANGED <<mails, lists, shownMails, requests, misled, happened>>, confirming' \subseteq Mails
      PROVE  ListIInv'
  <2>1. \A v : Rows(v)' = Rows(v)
    BY <1>5 DEF Rows
  <2> QED
    BY <1>5, <2>1 DEF ListIInv, ListsAreCoherent, Coherent
<1>6. ASSUME NEW m \in Mails, AskDelete(m) PROVE ListIInv'
  BY <1>6, <1>5 DEF AskDelete
<1>7. CASE DeclineDelete
  BY <1>7, <1>5 DEF DeclineDelete
<1> QED
  BY <1>1, <1>2, <1>3, <1>4, <1>6, <1>7 DEF Requests, MoveMail, BulkMove, ConfirmDelete

LEMMA DoneType ==
  ASSUME NEW mail \in [folder : Views \cup {"gone"}, mark : BOOLEAN], NEW r \in AnyRequests
  PROVE  Done(mail, r) \in [folder : Views \cup {"gone"}, mark : BOOLEAN]
  BY DEF Done, AnyRequests, RequestOf, Views

\* The server's part, and the answers.
LEMMA RequestStepsKeepListIInv ==
  ASSUME ListIInv, NEW r \in requests, RequestSteps(r)
  PROVE  ListIInv'
<1>1. r \in AnyRequests /\ requests \ {r} \subseteq AnyRequests
  BY DEF ListIInv
<1>2. ASSUME NEW m \in Mails, Serve(r, m) PROVE ListIInv'
  <2> DEFINE q == [r EXCEPT !.todo = @ \ {m}]
  <2>1. q \in AnyRequests /\ q.heard = r.heard
    BY <1>1 DEF AnyRequests, RequestOf
  <2>2. requests' = (requests \ {r}) \cup {q} /\ misled' = (misled \/ ~r.heard)
        /\ UNCHANGED <<lists, shownMails, confirming, happened>>
    BY <1>2 DEF Serve
  <2>3. mails' \in [Mails -> [folder : Views \cup {"gone"}, mark : BOOLEAN]]
    <3>1. mails[m] \in [folder : Views \cup {"gone"}, mark : BOOLEAN]
      BY DEF ListIInv
    <3>2. mails' = [mails EXCEPT ![m] = Done(mails[m], r)]
      BY <1>2 DEF Serve
    <3>3. Done(mails[m], r) \in [folder : Views \cup {"gone"}, mark : BOOLEAN]
      BY <3>1, <1>1, DoneType
    <3> QED
      BY <3>2, <3>3 DEF ListIInv
  <2> HIDE DEF q
  <2>4. (\A p \in requests' : ~p.heard) => misled'
    BY <2>1, <2>2
  <2>5. ListsAreCoherent'
    BY <2>4 DEF ListsAreCoherent
  <2> QED
    BY <1>1, <2>1, <2>2, <2>3, <2>5 DEF ListIInv
<1>3. CASE RequestAnswered(r)
  <2>1. lists' = Invalidated /\ misled' = (misled \/ Outrun) /\ UNCHANGED <<mails, shownMails, happened>>
        /\ requests' = requests \ {r} /\ confirming' \subseteq Mails
    BY <1>3 DEF RequestAnswered, Told, ListIInv
  <2> QED
    BY <1>1, <2>1, InvalidatingKeepsListIInv DEF ListIInv
<1>4. CASE RequestFails(r)
  <2> DEFINE q == [r EXCEPT !.heard = FALSE, !.bulk = FALSE]
  <2>1. q \in AnyRequests
    BY <1>1 DEF AnyRequests, RequestOf
  <2>2. requests' = (requests \ {r}) \cup (IF r.todo = {} THEN {} ELSE {q})
        /\ UNCHANGED <<mails, shownMails, confirming>>
    BY <1>4 DEF RequestFails
  <2>3. happened' \in Nat
    BY <1>4 DEF RequestFails, Happens, ListIInv
  <2> HIDE DEF q
  <2>4. requests' \subseteq AnyRequests
    BY <1>1, <2>1, <2>2
  <2>5. CASE lists' = Invalidated /\ misled' = (misled \/ Outrun)
    BY <2>2, <2>3, <2>4, <2>5, InvalidatingKeepsListIInv DEF ListIInv
  <2>6. CASE lists' = lists /\ misled' = TRUE
    BY <2>2, <2>3, <2>4, <2>6 DEF ListIInv, ListsAreCoherent
  <2> QED
    BY <1>4, <2>5, <2>6 DEF RequestFails
<1>5. CASE RequestGone(r)
  <2>1. ~r.heard /\ requests' = requests \ {r}
        /\ UNCHANGED <<mails, lists, shownMails, confirming, misled, happened>>
    BY <1>5 DEF RequestGone
  <2>2. \A v : Rows(v)' = Rows(v)
    BY <2>1 DEF Rows
  <2>3. ListsAreCoherent'
    BY <2>1, <2>2 DEF ListIInv, ListsAreCoherent, Coherent
  <2> QED
    BY <1>1, <2>1, <2>3 DEF ListIInv
<1> QED
  BY <1>2, <1>3, <1>4, <1>5 DEF RequestSteps

LEMMA StepKeepsListIInv == ListIInv /\ [MailListNext]_mailList => ListIInv'
<1> SUFFICES ASSUME ListIInv, [MailListNext]_mailList PROVE ListIInv'
  OBVIOUS
<1>1. CASE Requests
  BY <1>1, RequestsKeepListIInv
<1>2. CASE AutoRefresh
  <2>1. UNCHANGED <<mails, shownMails, requests, confirming, happened>>
        /\ lists' = Invalidated /\ misled' = (misled \/ Outrun)
    BY <1>2 DEF AutoRefresh, Refreshed
  <2> QED
    BY <2>1, InvalidatingKeepsListIInv DEF ListIInv
<1>3. ASSUME NEW r \in requests, RequestSteps(r) PROVE ListIInv'
  BY <1>3, RequestStepsKeepListIInv
<1>4. ASSUME NEW v \in Views, ShowView(v) \/ FetchAnswered(v) \/ FetchFails(v) PROVE ListIInv'
  BY <1>4, QueriesKeepListIInv
<1>5. ASSUME NEW m \in Mails, NEW folder \in Views, ChangedElsewhere(m, folder) PROVE ListIInv'
  <2>1. mails' \in [Mails -> [folder : Views \cup {"gone"}, mark : BOOLEAN]]
    BY <1>5 DEF ChangedElsewhere, ListIInv
  <2>2. UNCHANGED <<lists, shownMails, requests, confirming>> /\ misled' = TRUE /\ happened' \in Nat
    BY <1>5 DEF ChangedElsewhere, Happens, ListIInv
  <2> QED
    BY <2>1, <2>2 DEF ListIInv, ListsAreCoherent
<1>6. CASE UNCHANGED mailList
  <2>1. UNCHANGED <<mails, lists, shownMails, requests, confirming, misled, happened>>
    BY <1>6 DEF mailList
  <2>2. \A v : Rows(v)' = Rows(v)
    BY <2>1 DEF Rows
  <2> QED
    BY <2>1, <2>2 DEF ListIInv, ListsAreCoherent, Coherent
<1> QED
  BY <1>1, <1>2, <1>3, <1>4, <1>5, <1>6 DEF MailListNext

\* Where no request is under way none is heard, so that the list on the screen is right.
LEMMA ListsAreTrue == ListIInv => ListTellsTruth
  BY DEF ListIInv, ListsAreCoherent, Coherent, ListTellsTruth

------------------------------------------------------------------------------
(* MailBody *)

\* A translation that is neither late nor without its component is one of the open mail.
AwaitedTranslationFits ==
    \A r \in translating : ~r.late /\ ~r.gone => r.of = reading

BodyIInv == MailBodyTypeOK /\ AwaitedTranslationFits /\ AssistantFits

LEMMA InitBodyIInv == MailBodyInit => BodyIInv
<1> SUFFICES ASSUME NEW r \in Readings, MailBodyStart(r) PROVE BodyIInv
  BY DEF MailBodyInit
<1>1. MailBodyTypeOK
  BY DEF MailBodyStart, MailBodyTypeOK, Readings, AtMostOne, NoTranslation, ClosedAssistant
<1>2. AwaitedTranslationFits /\ AssistantFits
  BY DEF MailBodyStart, AwaitedTranslationFits, AssistantFits, ClosedAssistant
<1> QED
  BY <1>1, <1>2 DEF BodyIInv

\* What is awaited is forgotten by an abort, and the dialog waits no longer.
LEMMA AbortedFits ==
  ASSUME BodyIInv, AbortGeneration, assistant'.pending = FALSE, assistant'.result = {}
  PROVE  AssistantFits' /\ generating' \subseteq [of : Readings, aborted : BOOLEAN]
<1>1. \A r \in [of : Readings, aborted : BOOLEAN] :
        /\ [r EXCEPT !.aborted = TRUE].aborted
        /\ [r EXCEPT !.aborted = TRUE] \in [of : Readings, aborted : BOOLEAN]
  OBVIOUS
<1>2. \A r \in generating' : r.aborted /\ r \in [of : Readings, aborted : BOOLEAN]
  BY <1>1 DEF BodyIInv, MailBodyTypeOK, AbortGeneration
<1> QED
  BY <1>2 DEF AssistantFits

\* Requests that were left behind, with or without their component, are awaited no more.
LEMMA LeftBehindFits ==
  ASSUME BodyIInv, \/ translating' = LeftBehind(translating)
                   \/ translating' = {[r EXCEPT !.gone = TRUE] : r \in translating}
  PROVE  AwaitedTranslationFits' /\ translating' \subseteq [of : Readings, late : BOOLEAN, gone : BOOLEAN]
<1> DEFINE T == [of : Readings, late : BOOLEAN, gone : BOOLEAN]
<1>1. \A r \in T : /\ [r EXCEPT !.late = TRUE].late /\ [r EXCEPT !.late = TRUE] \in T
                  /\ [r EXCEPT !.gone = TRUE].gone /\ [r EXCEPT !.gone = TRUE] \in T
  OBVIOUS
<1>2. translating \subseteq T
  BY DEF BodyIInv, MailBodyTypeOK
<1> HIDE DEF T
<1>3. \A r \in translating' : (r.late \/ r.gone) /\ r \in T
  <2>1. CASE translating' = LeftBehind(translating)
    BY <1>1, <1>2, <2>1, Zenon DEF LeftBehind
  <2>2. CASE translating' = {[r EXCEPT !.gone = TRUE] : r \in translating}
    BY <1>1, <1>2, <2>2, Zenon
  <2> QED
    BY <2>1, <2>2
<1> QED
  BY <1>3 DEF AwaitedTranslationFits, T

LEMMA MovingOnKeepsBodyIInv ==
  ASSUME BodyIInv,
         (\E m \in BodyMails : ReadMail(m) \/ DropDetail(m)) \/ \E l \in BodyLanguages : SwitchLanguage(l)
  PROVE  BodyIInv' /\ TranslationFits
<1>1. ASSUME NEW m \in BodyMails, ReadMail(m) PROVE BodyIInv' /\ TranslationFits
  <2>1. AssistantFits' /\ generating' \subseteq [of : Readings, aborted : BOOLEAN]
    BY <1>1, AbortedFits DEF ReadMail, ClosedAssistant
  <2>2. AwaitedTranslationFits' /\ translating' \subseteq [of : Readings, late : BOOLEAN, gone : BOOLEAN]
    BY <1>1, LeftBehindFits DEF ReadMail
  <2>3. reading' \in Readings /\ detailsRead' \subseteq BodyMails
        /\ translation' = NoTranslation /\ assistant' = ClosedAssistant
    BY <1>1 DEF ReadMail, TranslationForgotten, BodyIInv, MailBodyTypeOK, Readings
  <2>4. NoTranslation \in [of : AtMostOne, shown : BOOLEAN]
        /\ ClosedAssistant \in [open : BOOLEAN, pending : BOOLEAN, result : AtMostOne]
    BY DEF NoTranslation, ClosedAssistant, AtMostOne
  <2> QED
    BY <2>1, <2>2, <2>3, <2>4 DEF BodyIInv, MailBodyTypeOK, TranslationFits, NoTranslation
<1>2. ASSUME NEW m \in BodyMails, DropDetail(m) PROVE BodyIInv' /\ TranslationFits
  BY <1>2 DEF DropDetail, BodyIInv, MailBodyTypeOK, AwaitedTranslationFits, AssistantFits, TranslationFits
<1>3. ASSUME NEW l \in BodyLanguages, SwitchLanguage(l) PROVE BodyIInv' /\ TranslationFits
  <2>1. assistant' = [assistant EXCEPT !.pending = FALSE, !.result = {}]
        /\ assistant' \in [open : BOOLEAN, pending : BOOLEAN, result : AtMostOne]
        /\ assistant'.pending = FALSE /\ assistant'.result = {}
    BY <1>3 DEF SwitchLanguage, BodyIInv, MailBodyTypeOK, AtMostOne
  <2>2. AssistantFits' /\ generating' \subseteq [of : Readings, aborted : BOOLEAN]
    BY <1>3, <2>1, AbortedFits DEF SwitchLanguage
  <2>3. AwaitedTranslationFits' /\ translating' \subseteq [of : Readings, late : BOOLEAN, gone : BOOLEAN]
    BY <1>3, LeftBehindFits DEF SwitchLanguage
  <2>4. reading' \in Readings /\ detailsRead' \subseteq BodyMails /\ translation' = NoTranslation
    BY <1>3 DEF SwitchLanguage, TranslationForgotten, BodyIInv, MailBodyTypeOK, Readings
  <2>5. NoTranslation \in [of : AtMostOne, shown : BOOLEAN]
    BY DEF NoTranslation, AtMostOne
  <2> QED
    BY <2>1, <2>2, <2>3, <2>4, <2>5 DEF BodyIInv, MailBodyTypeOK, TranslationFits, NoTranslation
<1> QED
  BY <1>1, <1>2, <1>3

LEMMA TranslatingKeepsBodyIInv ==
  ASSUME BodyIInv,
         \/ Translate \/ ToggleTranslation
         \/ \E r \in translating : TranslationAnswered(r) \/ TranslationFailed(r)
  PROVE  BodyIInv' /\ TranslationFits
<1>1. UNCHANGED <<reading, detailsRead, assistant, generating>>
  BY DEF Translate, ToggleTranslation, TranslationAnswered, TranslationFailed
<1>2. AssistantFits'
  BY <1>1 DEF BodyIInv, AssistantFits
<1>3. CASE Translate
  <2> DEFINE new == [of |-> reading, late |-> FALSE, gone |-> FALSE]
  <2>1. new \in [of : Readings, late : BOOLEAN, gone : BOOLEAN] /\ new.of = reading
        /\ translating' = translating \cup {new}
    BY <1>3 DEF Translate, BodyIInv, MailBodyTypeOK
  <2> HIDE DEF new
  <2>2. translating' \subseteq [of : Readings, late : BOOLEAN, gone : BOOLEAN] /\ AwaitedTranslationFits'
    BY <1>1, <2>1 DEF BodyIInv, MailBodyTypeOK, AwaitedTranslationFits
  <2> QED
    BY <1>1, <1>2, <1>3, <2>2 DEF Translate, BodyIInv, MailBodyTypeOK, TranslationFits
<1>4. CASE ToggleTranslation
  BY <1>1, <1>2, <1>4
  DEF ToggleTranslation, BodyIInv, MailBodyTypeOK, AwaitedTranslationFits, TranslationFits
<1>5. ASSUME NEW r \in translating, TranslationAnswered(r) PROVE BodyIInv' /\ TranslationFits
  <2>1. r \in [of : Readings, late : BOOLEAN, gone : BOOLEAN] /\ (r.late \/ r.gone \/ r.of = reading)
    BY DEF BodyIInv, MailBodyTypeOK, AwaitedTranslationFits
  <2>2. translation' \in [of : AtMostOne, shown : BOOLEAN]
    BY <1>5, <2>1 DEF TranslationAnswered, BodyIInv, MailBodyTypeOK, AtMostOne
  <2>3. TranslationFits
    BY <1>1, <1>5, <2>1 DEF TranslationAnswered, TranslationFits
  <2>4. translating' \subseteq translating
    BY <1>5 DEF TranslationAnswered
  <2> QED
    BY <1>1, <1>2, <2>2, <2>3, <2>4 DEF BodyIInv, MailBodyTypeOK, AwaitedTranslationFits
<1>6. ASSUME NEW r \in translating, TranslationFailed(r) PROVE BodyIInv' /\ TranslationFits
  BY <1>1, <1>2, <1>6
  DEF TranslationFailed, BodyIInv, MailBodyTypeOK, AwaitedTranslationFits, TranslationFits
<1> QED
  BY <1>3, <1>4, <1>5, <1>6

LEMMA AssistantKeepsBodyIInv ==
  ASSUME BodyIInv, ChangeOpen \/ Generate \/ \E r \in generating : Generated(r)
  PROVE  BodyIInv' /\ TranslationFits
<1>1. UNCHANGED <<reading, detailsRead, translation, translating>>
  BY DEF ChangeOpen, Generate, Generated
<1>2. TranslationFits /\ AwaitedTranslationFits'
  BY <1>1 DEF TranslationFits, BodyIInv, AwaitedTranslationFits
<1> SUFFICES /\ AssistantFits'
             /\ assistant' \in [open : BOOLEAN, pending : BOOLEAN, result : AtMostOne]
             /\ generating' \subseteq [of : Readings, aborted : BOOLEAN]
  BY <1>1, <1>2 DEF BodyIInv, MailBodyTypeOK
<1>3. CASE ChangeOpen
  <2>1. assistant' \in [open : BOOLEAN, pending : BOOLEAN, result : AtMostOne]
        /\ assistant'.pending = FALSE /\ assistant'.result = {}
    BY <1>3 DEF ChangeOpen, ClosedAssistant, BodyIInv, MailBodyTypeOK, AtMostOne
  <2> QED
    BY <1>3, <2>1, AbortedFits DEF ChangeOpen
<1>4. CASE Generate
  <2> DEFINE new == [of |-> reading, aborted |-> FALSE]
  <2>1. assistant' \in [open : BOOLEAN, pending : BOOLEAN, result : AtMostOne]
        /\ assistant'.pending = TRUE /\ assistant'.result = {}
    BY <1>4 DEF Generate, BodyIInv, MailBodyTypeOK, AtMostOne
  <2>2. \A r \in generating' : r \in [of : Readings, aborted : BOOLEAN] /\ (r.aborted \/ r = new)
    <3>1. \A r \in [of : Readings, aborted : BOOLEAN] :
            /\ [r EXCEPT !.aborted = TRUE].aborted
            /\ [r EXCEPT !.aborted = TRUE] \in [of : Readings, aborted : BOOLEAN]
      OBVIOUS
    <3>2. new \in [of : Readings, aborted : BOOLEAN]
      BY DEF BodyIInv, MailBodyTypeOK
    <3> QED
      BY <1>4, <3>1, <3>2 DEF Generate, BodyIInv, MailBodyTypeOK
  <2>3. new \in generating' /\ ~new.aborted /\ new.of = reading
    BY <1>4 DEF Generate
  <2> QED
    BY <1>1, <2>1, <2>2, <2>3 DEF AssistantFits
<1>5. ASSUME NEW r \in generating, Generated(r)
      PROVE  /\ AssistantFits'
             /\ assistant' \in [open : BOOLEAN, pending : BOOLEAN, result : AtMostOne]
             /\ generating' \subseteq [of : Readings, aborted : BOOLEAN]
  <2>1. generating' = generating \ {r} /\ r \in [of : Readings, aborted : BOOLEAN]
        /\ generating' \subseteq [of : Readings, aborted : BOOLEAN]
    BY <1>5 DEF Generated, BodyIInv, MailBodyTypeOK
  <2>2. CASE r.aborted
    <3>1. assistant' = assistant
      BY <1>5, <2>2 DEF Generated
    <3> QED
      BY <1>1, <2>1, <2>2, <3>1 DEF BodyIInv, MailBodyTypeOK, AssistantFits
  <2>3. CASE ~r.aborted
    <3>1. \A q \in generating : ~q.aborted => q = r
      BY <2>1, <2>3 DEF BodyIInv, MailBodyTypeOK, AssistantFits
    <3>2. r.of = reading
      BY <2>3 DEF BodyIInv, AssistantFits
    <3>3. PICK result \in {{r.of}, {}} : assistant' = [assistant EXCEPT !.pending = FALSE, !.result = result]
      BY <1>5, <2>3 DEF Generated
    <3>4. result \in AtMostOne /\ result \subseteq {reading}
      BY <2>1, <3>2, <3>3 DEF AtMostOne
    <3>5. assistant' \in [open : BOOLEAN, pending : BOOLEAN, result : AtMostOne]
          /\ assistant'.pending = FALSE /\ assistant'.result = result
      BY <3>3, <3>4 DEF BodyIInv, MailBodyTypeOK
    <3> QED
      BY <1>1, <2>1, <3>1, <3>4, <3>5 DEF AssistantFits
  <2> QED
    BY <2>2, <2>3
<1> QED
  BY <1>3, <1>4, <1>5

LEMMA StepKeepsBodyIInv ==
  BodyIInv /\ [MailBodyNext]_mailBody => BodyIInv' /\ [TranslationFits /\ AssistantFits']_mailBody
<1> SUFFICES ASSUME BodyIInv, [MailBodyNext]_mailBody
             PROVE  BodyIInv' /\ [TranslationFits /\ AssistantFits']_mailBody
  OBVIOUS
<1>1. CASE MailBodyNext
  <2>1. BodyIInv' /\ TranslationFits
    BY <1>1, MovingOnKeepsBodyIInv, TranslatingKeepsBodyIInv, AssistantKeepsBodyIInv DEF MailBodyNext
  <2> QED
    BY <2>1 DEF BodyIInv
<1>2. CASE UNCHANGED mailBody
  BY <1>2 DEF mailBody, BodyIInv, MailBodyTypeOK, AwaitedTranslationFits, AssistantFits
<1> QED
  BY <1>1, <1>2

------------------------------------------------------------------------------
(* Session *)

\* Unless a form took effect while another user had a session: whoever the browser knows, the
\* server sees, an answer names and a form is about is one user, and only his data is held.
OneUserInPlay ==
    /\ cached \subseteq {me.user}
    /\ cookie # Nobody /\ me.user # Nobody => cookie = me.user
    /\ asking.user # Nobody /\ me.user # Nobody => asking.user = me.user
    /\ login.at # "idle" /\ me.user # Nobody => login.user = me.user
    /\ asking.user # Nobody /\ cookie # Nobody => asking.user = cookie

SessionTyped ==
    /\ cookie \in SomebodyOrNot
    /\ me \in [user : SomebodyOrNot, error : {"none", "timeout", "other"}]
    /\ asking \in [at : {"none", "asked", "answered"}, user : SomebodyOrNot]
    /\ cached \subseteq Users
    /\ login \in [at : {"idle", "login", "code", "register", "in", "registered", "challenged", "entering"},
                  user : SomebodyOrNot]

SessionIInv == SessionTyped /\ (~overlaid => OneUserInPlay)

LEMMA InitSessionIInv == SessionInit => SessionIInv
  BY PeopleAssumption
  DEF SessionInit, SessionStart, SessionIInv, SessionTyped, OneUserInPlay, SomebodyOrNot, NobodyKnown,
      AskMe, NoLogin

\* Asking again keeps the user that is known.
LEMMA AskingAgain ==
  ASSUME SessionTyped, AsksAgain, OnAsking
  PROVE  /\ me'.user = me.user
         /\ me' \in [user : SomebodyOrNot, error : {"none", "timeout", "other"}]
         /\ asking' \in [at : {"none", "asked", "answered"}, user : SomebodyOrNot]
         /\ asking'.user \in {Nobody, asking.user}
<1>1. me'.user = me.user /\ me' \in [user : SomebodyOrNot, error : {"none", "timeout", "other"}]
  BY DEF SessionTyped, OnAsking, NobodyKnown, SomebodyOrNot
<1>2. asking' \in {asking, AskMe, NotAsking}
  BY DEF AsksAgain
<1> QED
  BY <1>1, <1>2 DEF SessionTyped, AskMe, NotAsking, SomebodyOrNot

\* Going from page to page, whoever it is that sends the user there.
LEMMA RoutesKeepSessionIInv ==
  ASSUME SessionIInv, RedirectToLogin \/ RedirectInside \/ RedirectFromAdmin \/ Navigate
  PROVE  SessionIInv'
<1>1. AsksAgain /\ OnAsking /\ UNCHANGED <<cookie, cached, login, overlaid>>
  BY DEF RedirectToLogin, RedirectInside, RedirectFromAdmin, Navigate, GoTo
<1>2. /\ me'.user = me.user
      /\ me' \in [user : SomebodyOrNot, error : {"none", "timeout", "other"}]
      /\ asking' \in [at : {"none", "asked", "answered"}, user : SomebodyOrNot]
      /\ asking'.user \in {Nobody, asking.user}
  BY <1>1, AskingAgain DEF SessionIInv
<1> QED
  BY <1>1, <1>2 DEF SessionIInv, SessionTyped, OneUserInPlay

\* The query and its answers.
LEMMA QueryKeepsSessionIInv ==
  ASSUME SessionIInv, ServeMe \/ AnswerMe \/ FailMe \/ Retry
  PROVE  SessionIInv'
<1> USE PeopleAssumption
<1>1. CASE ServeMe
  BY <1>1 DEF ServeMe, SessionIInv, SessionTyped, OneUserInPlay
<1>2. CASE AnswerMe
  <2>1. asking' = NotAsking /\ UNCHANGED <<cookie, cached, login>>
        /\ overlaid' = (overlaid \/ (login.at # "idle" /\ asking.user \notin {Nobody, login.user}))
    BY <1>2 DEF AnswerMe
  <2>2. CASE asking.user = Nobody
    <3>1. me'.user = me.user /\ me' \in [user : SomebodyOrNot, error : {"none", "timeout", "other"}]
      BY <1>2, <2>2 DEF AnswerMe, SessionIInv, SessionTyped
    <3> QED
      BY <2>1, <2>2, <3>1 DEF SessionIInv, SessionTyped, OneUserInPlay, NotAsking, SomebodyOrNot
  <2>3. CASE asking.user # Nobody
    <3>1. me' = [user |-> asking.user, error |-> "none"]
      BY <1>2, <2>3 DEF AnswerMe
    <3> QED
      BY <2>1, <2>3, <3>1 DEF SessionIInv, SessionTyped, OneUserInPlay, NotAsking, SomebodyOrNot
  <2> QED
    BY <2>2, <2>3
<1>3. CASE FailMe
  <2>1. me'.user = me.user /\ me' \in [user : SomebodyOrNot, error : {"none", "timeout", "other"}]
        /\ asking' = NotAsking /\ UNCHANGED <<cookie, cached, login, overlaid>>
    BY <1>3 DEF FailMe, SessionIInv, SessionTyped
  <2> QED
    BY <2>1 DEF SessionIInv, SessionTyped, OneUserInPlay, NotAsking, SomebodyOrNot
<1>4. CASE Retry
  <2>1. me'.user = me.user /\ me' \in [user : SomebodyOrNot, error : {"none", "timeout", "other"}]
        /\ asking' = AskMe /\ UNCHANGED <<cookie, cached, login, overlaid>>
    BY <1>4 DEF Retry, OnAsking, NobodyKnown, SessionIInv, SessionTyped, SomebodyOrNot
  <2> QED
    BY <2>1 DEF SessionIInv, SessionTyped, OneUserInPlay, AskMe, SomebodyOrNot
<1> QED
  BY <1>1, <1>2, <1>3, <1>4

\* A page is shown to a user who is known, and under his session.
LEMMA ShowPageKeepsSessionIInv ==
  ASSUME SessionIInv, ShowPage
  PROVE  SessionIInv'
<1>1. me.user # Nobody
  BY DEF ShowPage, Redirecting, GuardSendsAway, GuardWaits
<1>2. UNCHANGED <<cookie, me, asking, login, overlaid>> /\ cached' = cached \cup {cookie} /\ cookie # Nobody
  BY DEF ShowPage
<1> QED
  BY <1>1, <1>2 DEF SessionIInv, SessionTyped, OneUserInPlay, SomebodyOrNot

\* A form is sent off only where nobody is known.
LEMMA SubmitKeepsSessionIInv ==
  ASSUME SessionIInv, \E u \in Users : SubmitLogin(u) \/ SubmitRegistration(u)
  PROVE  SessionIInv'
<1>1. PICK u \in Users : SubmitLogin(u) \/ SubmitRegistration(u)
  OBVIOUS
<1>2. me.user = Nobody
  BY <1>1 DEF SubmitLogin, SubmitRegistration, Redirecting, LeadsInside, Public
<1>3. UNCHANGED <<cookie, me, asking, cached, overlaid>>
      /\ login' \in [at : {"idle", "login", "code", "register", "in", "registered", "challenged", "entering"},
                     user : SomebodyOrNot]
  BY <1>1 DEF SubmitLogin, SubmitRegistration, SomebodyOrNot
<1> QED
  BY <1>2, <1>3 DEF SessionIInv, SessionTyped, OneUserInPlay

LEMMA LoginKeepsSessionIInv ==
  ASSUME SessionIInv, ServeLogin \/ LoseLogin \/ AnswerLogin \/ EnterProfile \/ BackToLogin
  PROVE  SessionIInv'
<1> DEFINE L == [at : {"idle", "login", "code", "register", "in", "registered", "challenged", "entering"},
                 user : SomebodyOrNot]
<1>1. NoLogin \in L /\ NoLogin.at = "idle"
  BY DEF NoLogin, SomebodyOrNot
<1>2. CASE ServeLogin
  <2>1. UNCHANGED <<me, asking, cached>> /\ login.at # "idle"
        /\ overlaid' = (overlaid \/ (cookie' # cookie /\ ~({cookie, asking.user} \subseteq {Nobody, cookie'})))
        /\ cookie' \in {cookie, login.user}
    BY <1>2 DEF ServeLogin
  <2>2. login' \in L /\ (login'.user = login.user \/ login'.at = "idle")
    BY <1>1, <1>2 DEF ServeLogin, SessionIInv, SessionTyped
  <2>3. SessionTyped'
    BY <2>1, <2>2 DEF SessionIInv, SessionTyped
  <2>4. ~overlaid' => OneUserInPlay'
    BY <2>1, <2>2 DEF SessionIInv, SessionTyped, OneUserInPlay
  <2> QED
    BY <2>3, <2>4 DEF SessionIInv
<1>3. CASE LoseLogin
  BY <1>1, <1>3 DEF LoseLogin, SessionIInv, SessionTyped, OneUserInPlay
<1>4. CASE AnswerLogin
  <2>1. UNCHANGED <<cookie, cached, overlaid>> /\ login.at # "idle"
    BY <1>4 DEF AnswerLogin
  <2>2. me'.user = me.user /\ me' \in [user : SomebodyOrNot, error : {"none", "timeout", "other"}]
    BY <1>4 DEF AnswerLogin, OnAsking, NobodyKnown, SessionIInv, SessionTyped, SomebodyOrNot
  <2>3. asking' = asking \/ asking' = AskMe
    BY <1>4 DEF AnswerLogin
  <2>4. login' \in L /\ (login'.user = login.user \/ login'.at = "idle")
    BY <1>1, <1>4 DEF AnswerLogin, SessionIInv, SessionTyped
  <2> QED
    BY <2>1, <2>2, <2>3, <2>4 DEF SessionIInv, SessionTyped, OneUserInPlay, AskMe, SomebodyOrNot
<1>6. CASE EnterProfile
  <2>1. AsksAgain /\ OnAsking /\ UNCHANGED <<cookie, cached, overlaid>> /\ login' = NoLogin
    BY <1>6 DEF EnterProfile, GoTo
  <2>2. /\ me'.user = me.user
        /\ me' \in [user : SomebodyOrNot, error : {"none", "timeout", "other"}]
        /\ asking' \in [at : {"none", "asked", "answered"}, user : SomebodyOrNot]
        /\ asking'.user \in {Nobody, asking.user}
    BY <2>1, AskingAgain DEF SessionIInv
  <2> QED
    BY <1>1, <2>1, <2>2 DEF SessionIInv, SessionTyped, OneUserInPlay
<1>5. CASE BackToLogin
  BY <1>5 DEF BackToLogin, SessionIInv, SessionTyped, OneUserInPlay
<1> QED
  BY <1>2, <1>3, <1>4, <1>5, <1>6

\* A logout forgets the user and his data, even if the session lives on.
LEMMA LeavingKeepsSessionIInv ==
  ASSUME SessionIInv, PressLogout \/ ServeLogout \/ Logout \/ Expire
  PROVE  SessionIInv'
<1>1. CASE Logout
  <2>1. me' = NobodyKnown /\ cached' = {} /\ asking' = AskMe /\ UNCHANGED <<cookie, login, overlaid>>
    BY <1>1 DEF Logout, ClearCache
  <2> QED
    BY <2>1 DEF SessionIInv, SessionTyped, OneUserInPlay, NobodyKnown, AskMe, SomebodyOrNot
<1>2. CASE ServeLogout \/ Expire
  <2>1. cookie' = Nobody /\ UNCHANGED <<me, asking, cached, login, overlaid>>
    BY <1>2 DEF ServeLogout, Expire
  <2> QED
    BY <2>1 DEF SessionIInv, SessionTyped, OneUserInPlay, SomebodyOrNot
<1>3. CASE PressLogout
  BY <1>3 DEF PressLogout, SessionIInv, SessionTyped, OneUserInPlay
<1> QED
  BY <1>1, <1>2, <1>3

LEMMA StepKeepsSessionIInv == SessionIInv /\ [SessionNext]_session => SessionIInv'
<1> SUFFICES ASSUME SessionIInv, [SessionNext]_session PROVE SessionIInv'
  OBVIOUS
<1>1. CASE SessionNext
  BY <1>1, RoutesKeepSessionIInv, QueryKeepsSessionIInv, ShowPageKeepsSessionIInv,
     SubmitKeepsSessionIInv, LoginKeepsSessionIInv, LeavingKeepsSessionIInv
  DEF SessionNext
<1>2. CASE UNCHANGED session
  BY <1>2 DEF session, SessionIInv, SessionTyped, OneUserInPlay
<1> QED
  BY <1>1, <1>2

LEMMA OneUserHeld == SessionIInv => OneUsersData
  BY DEF SessionIInv, OneUserInPlay, OneUsersData

------------------------------------------------------------------------------
(* DomLanguage *)

\* The language of this tab is the one chosen last, unless the event about it is still to come.
LanguageIsHeard == heard \/ uiLanguage = InitialLanguage

\* Localizing never brings back another text: a source with a translation is that of the text
\* written last, and is looked at again when the node shows something else.
SourceIsOfLastApplied ==
    textSource # Unset =>
        textSource.text \in OwnTexts \/ (lastApplied # Unset /\ lastApplied.text = textSource.text)

\* A node that has shown texts of the program only: what was written last is a translation of the
\* source, and a text or a language it has not been brought to yet has its timer or report to come.
NodeIsFollowed ==
    ~mixed =>
        /\ rendered \in UiTexts
        /\ textSource = Unset <=> lastApplied = Unset
        /\ textSource # Unset => textSource = Written(lastApplied.text)
        /\ nodeText = lastApplied \/ (nodeText = Written(rendered) /\ (timer \/ observed))
        /\ timer \/ observed \/ nodeText.language = uiLanguage

DomIInv ==
    /\ DomLanguageTypeOK
    /\ nodeText.text = rendered
    /\ LanguageIsHeard /\ SourceIsOfLastApplied /\ NodeIsFollowed

\* What Localize makes of a text.
LEMMA LocalizedText ==
  ASSUME NEW t \in ShownTexts, NEW l \in Languages
  PROVE  /\ Localized(t, l) \in ShownTexts /\ Localized(t, l).text = t.text
         /\ Localizable(t) => Localized(t, l) = [text |-> t.text, language |-> l]
  BY DEF Localized, Localizable, ShownTexts

LEMMA WrittenText ==
  ASSUME NEW t \in ReactTexts
  PROVE  Written(t) \in ShownTexts /\ Written(t).text = t /\ Written(t).language = Original
  BY LanguageAssumption DEF Written, ShownTexts

LEMMA InitDomIInv == DomLanguageInit => DomIInv
<1> SUFFICES ASSUME NEW t \in ReactTexts, NEW l \in Languages \cup {Unset}, DomLanguageStart(t, l)
             PROVE  DomIInv
  BY DEF DomLanguageInit
<1>1. DomLanguageTypeOK /\ nodeText.text = rendered
  <2>1. renders \in 0..MaxRenders
    BY LanguageAssumption DEF DomLanguageStart
  <2>2. uiLanguage \in Languages /\ stored \in Languages \cup {Unset} /\ configured \in Languages
    BY LanguageAssumption DEF DomLanguageStart, InitialLanguage
  <2>3. mixed \in BOOLEAN
    BY DEF DomLanguageStart
  <2> QED
    BY <2>1, <2>2, <2>3, WrittenText DEF DomLanguageStart, DomLanguageTypeOK
<1>2. LanguageIsHeard /\ SourceIsOfLastApplied
  BY DEF DomLanguageStart, LanguageIsHeard, SourceIsOfLastApplied
<1>3. NodeIsFollowed
  BY LanguageAssumption DEF DomLanguageStart, NodeIsFollowed, ReactTexts
<1> QED
  BY <1>1, <1>2, <1>3 DEF DomIInv

\* A new text of React's is reported; a report sets the timer.
LEMMA RenderKeepsDomIInv ==
  ASSUME DomIInv, Observe \/ \E t \in ReactTexts : Render(t)
  PROVE  DomIInv'
<1>1. CASE Observe
  BY <1>1
  DEF Observe, DomIInv, DomLanguageTypeOK, LanguageIsHeard, InitialLanguage, SourceIsOfLastApplied, NodeIsFollowed
<1>2. ASSUME NEW t \in ReactTexts, Render(t) PROVE DomIInv'
  <2>1. DomLanguageTypeOK' /\ nodeText'.text = rendered'
    BY <1>2, WrittenText, LanguageAssumption DEF Render, DomIInv, DomLanguageTypeOK
  <2>2. LanguageIsHeard' /\ SourceIsOfLastApplied'
    BY <1>2 DEF Render, DomIInv, LanguageIsHeard, InitialLanguage, SourceIsOfLastApplied
  <2>3. NodeIsFollowed'
    BY <1>2, LanguageAssumption DEF Render, DomIInv, DomLanguageTypeOK, NodeIsFollowed, ReactTexts
  <2> QED
    BY <2>1, <2>2, <2>3 DEF DomIInv
<1> QED
  BY <1>1, <1>2

\* The source Localize goes by is of the text the node shows, if it has a translation.
LEMMA SourceNowFits ==
  ASSUME DomIInv
  PROVE  /\ SourceNow \in ShownTexts
         /\ Localizable(SourceNow) => SourceNow.text = rendered
         /\ ~mixed => SourceNow = Written(rendered)
<1>1. SourceNow \in ShownTexts
  BY DEF SourceNow, DomIInv, DomLanguageTypeOK
<1>2. Localizable(SourceNow) => SourceNow.text = rendered
  BY LanguageAssumption DEF SourceNow, Localizable, DomIInv, SourceIsOfLastApplied
<1>3. ~mixed => SourceNow = Written(rendered)
  BY LanguageAssumption DEF SourceNow, DomIInv, DomLanguageTypeOK, NodeIsFollowed
<1> QED
  BY <1>1, <1>2, <1>3

LEMMA LocalizeKeepsDomIInv ==
  ASSUME DomIInv, Localize
  PROVE  DomIInv'
<1>1. SourceNow \in ShownTexts /\ (Localizable(SourceNow) => SourceNow.text = rendered)
  BY SourceNowFits
<1>2. UNCHANGED <<rendered, uiLanguage, stored, configured, heard, mixed, renders>>
      /\ textSource' = SourceNow /\ timer' = FALSE /\ uiLanguage \in Languages
  BY DEF Localize, DomIInv, DomLanguageTypeOK
<1>3. LanguageIsHeard'
  BY <1>2 DEF DomIInv, LanguageIsHeard, InitialLanguage
<1>4. CASE Localizable(SourceNow)
  <2>1. nodeText' = [text |-> rendered, language |-> uiLanguage] /\ lastApplied' = nodeText'
        /\ nodeText' \in ShownTexts /\ observed' \in BOOLEAN
    BY <1>1, <1>2, <1>4, LocalizedText DEF Localize, DomIInv, DomLanguageTypeOK
  <2>2. DomLanguageTypeOK' /\ nodeText'.text = rendered'
    BY <1>1, <1>2, <2>1 DEF DomIInv, DomLanguageTypeOK
  <2>3. SourceIsOfLastApplied'
    BY <1>1, <1>2, <1>4, <2>1, LanguageAssumption DEF SourceIsOfLastApplied
  <2>4. NodeIsFollowed'
    BY <1>1, <1>2, <2>1, SourceNowFits, LanguageAssumption DEF DomIInv, NodeIsFollowed
  <2> QED
    BY <1>3, <2>2, <2>3, <2>4 DEF DomIInv
<1>5. CASE ~Localizable(SourceNow)
  <2>1. UNCHANGED <<nodeText, lastApplied, observed>>
    BY <1>5 DEF Localize
  <2>2. DomLanguageTypeOK' /\ nodeText'.text = rendered'
    BY <1>1, <1>2, <2>1 DEF DomIInv, DomLanguageTypeOK
  <2>3. SourceIsOfLastApplied'
    BY <1>1, <1>2, <1>5 DEF SourceIsOfLastApplied, Localizable, ShownTexts, ReactTexts
  <2>4. mixed
    BY <1>5, SourceNowFits, WrittenText
    DEF DomIInv, DomLanguageTypeOK, NodeIsFollowed, Localizable, ReactTexts
  <2> QED
    BY <1>2, <1>3, <2>2, <2>3, <2>4 DEF DomIInv, NodeIsFollowed
<1> QED
  BY <1>4, <1>5

\* A choice of a language sets the timer of the tabs that have heard of it.
LEMMA ChoiceKeepsDomIInv ==
  ASSUME DomIInv,
         HearStorage \/ \E l \in Languages : SetLanguage(l) \/ SetLanguageElsewhere(l) \/ SetDefaultLanguage(l)
  PROVE  DomIInv'
<1>1. UNCHANGED <<rendered, nodeText, textSource, lastApplied, mixed>>
  BY DEF HearStorage, SetLanguage, SetLanguageElsewhere, SetDefaultLanguage
<1>2. DomLanguageTypeOK'
  <2>1. CASE HearStorage
    BY <2>1 DEF HearStorage, Speak, InitialLanguage, DomIInv, DomLanguageTypeOK
  <2>2. ASSUME NEW l \in Languages, SetLanguage(l) PROVE DomLanguageTypeOK'
    <3>1. renders' \in 0..MaxRenders
      BY <2>2, LanguageAssumption DEF SetLanguage, DomIInv, DomLanguageTypeOK
    <3> QED
      BY <2>2, <3>1 DEF SetLanguage, Speak, DomIInv, DomLanguageTypeOK
  <2>3. ASSUME NEW l \in Languages, SetLanguageElsewhere(l) PROVE DomLanguageTypeOK'
    BY <2>3, LanguageAssumption DEF SetLanguageElsewhere, DomIInv, DomLanguageTypeOK
  <2>4. ASSUME NEW l \in Languages, SetDefaultLanguage(l) PROVE DomLanguageTypeOK'
    <3>1. renders' \in 0..MaxRenders
      BY <2>4, LanguageAssumption DEF SetDefaultLanguage, DomIInv, DomLanguageTypeOK
    <3> QED
      BY <2>4, <3>1 DEF SetDefaultLanguage, Speak, DomIInv, DomLanguageTypeOK
  <2> QED
    BY <2>1, <2>2, <2>3, <2>4
<1>3. LanguageIsHeard'
  BY LanguageAssumption
  DEF HearStorage, SetLanguage, SetLanguageElsewhere, SetDefaultLanguage, Speak, InitialLanguage,
      DomIInv, DomLanguageTypeOK, LanguageIsHeard
<1>4. timer' \/ (observed' = observed /\ timer' = timer /\ uiLanguage' = uiLanguage)
  BY DEF HearStorage, SetLanguage, SetLanguageElsewhere, SetDefaultLanguage, Speak
<1>5. SourceIsOfLastApplied' /\ NodeIsFollowed'
  BY <1>1, <1>4 DEF DomIInv, SourceIsOfLastApplied, NodeIsFollowed
<1> QED
  BY <1>1, <1>2, <1>3, <1>5 DEF DomIInv

LEMMA StepKeepsDomIInv == DomIInv /\ [DomLanguageNext]_domLanguage => DomIInv'
<1> SUFFICES ASSUME DomIInv, [DomLanguageNext]_domLanguage PROVE DomIInv'
  OBVIOUS
<1>1. CASE DomLanguageNext
  BY <1>1, RenderKeepsDomIInv, LocalizeKeepsDomIInv, ChoiceKeepsDomIInv DEF DomLanguageNext
<1>2. CASE UNCHANGED domLanguage
  BY <1>2
  DEF domLanguage, DomIInv, DomLanguageTypeOK, LanguageIsHeard, InitialLanguage, SourceIsOfLastApplied,
      NodeIsFollowed
<1> QED
  BY <1>1, <1>2

LEMMA RestShowsLanguage == DomIInv => TextSettles
<1> SUFFICES ASSUME DomIInv, DomAtRest PROVE TextSettles
  BY DEF TextSettles
<1>1. uiLanguage = InitialLanguage /\ nodeText.text = rendered
  BY DEF DomIInv, DomAtRest, LanguageIsHeard
<1>2. ASSUME ~mixed PROVE nodeText = Localized(Written(rendered), InitialLanguage)
  <2>1. rendered \in UiTexts /\ nodeText.language = uiLanguage /\ nodeText \in ShownTexts
        /\ uiLanguage \in Languages
    BY <1>2 DEF DomIInv, DomAtRest, NodeIsFollowed, DomLanguageTypeOK
  <2>2. nodeText = [text |-> rendered, language |-> uiLanguage]
    BY <1>1, <2>1 DEF ShownTexts
  <2>3. Localizable(Written(rendered)) /\ Written(rendered) \in ShownTexts /\ Written(rendered).text = rendered
    BY <2>1, WrittenText DEF Localizable, ReactTexts
  <2> QED
    BY <1>1, <2>1, <2>2, <2>3, LocalizedText
<1> QED
  BY <1>1, <1>2 DEF TextSettles

------------------------------------------------------------------------------
(* Forwarding *)

\* What is marked verified is listed, and its address has opened a link of this listing.
VerifiedIsConfirmed ==
    \A a \in Addresses : EmailVerified(a) => IsListed(a) /\ listed[a].id \in confirmed

\* A link that is being opened was found, and its address is counted as one that opened it.
OpeningIsConfirmed == openingLink # 0 => openingLink \in confirmed

\* Listings are numbered by the links sent, so that an address listed again is a new listing.
ListingsAreIssued ==
    /\ \A a \in Addresses : listed[a].id <= links
    /\ confirmed \subseteq 1..links /\ openingLink <= links

\* No two addresses share a listing.
ListingsAreApart ==
    \A a, b \in Addresses : a # b /\ IsListed(a) => listed[a].id # listed[b].id

\* Where a handler names an address, the request has one.
EmailIsGiven ==
    \A t \in Tabs : forwardingRequest[t].op \in {"issue", "remove"} => forwardingRequest[t].email # {}

ForwardingIInv ==
    /\ ForwardingTypeOK /\ EmailIsGiven
    /\ VerifiedIsConfirmed /\ OpeningIsConfirmed /\ ListingsAreIssued /\ ListingsAreApart
    /\ ForwardsAsConfirmed

LEMMA NoRequestIsTyped == NoRequest \in ForwardingRequests
  BY LinksAssumption DEF NoRequest, ForwardingRequests, ForwardingOps, ListingIds

LEMMA InitForwardingIInv == ForwardingInit => ForwardingIInv
<1> SUFFICES ASSUME ForwardingInit PROVE ForwardingIInv
  OBVIOUS
<1>1. ForwardingTypeOK /\ ForwardsAsConfirmed
  BY NoRequestIsTyped, LinksAssumption
  DEF ForwardingInit, ForwardingTypeOK, ForwardsAsConfirmed, NoDelivery, Unlisted, ListedRows, ListingIds
<1>2. EmailIsGiven
  BY DEF ForwardingInit, EmailIsGiven, NoRequest
<1>3. \A a \in Addresses : listed[a].id = 0 /\ listed[a].verified = FALSE
  BY DEF ForwardingInit, Unlisted
<1>4. VerifiedIsConfirmed /\ OpeningIsConfirmed /\ ListingsAreIssued /\ ListingsAreApart
  BY <1>3
  DEF ForwardingInit, VerifiedIsConfirmed, OpeningIsConfirmed, ListingsAreIssued, ListingsAreApart,
      IsListed, EmailVerified
<1> QED
  BY <1>1, <1>2, <1>4 DEF ForwardingIInv

LEMMA EmailIsAnAddress ==
  ASSUME ForwardingTypeOK, EmailIsGiven, NEW t \in Tabs, forwardingRequest[t].op \in {"issue", "remove"}
  PROVE  Email(t) \in Addresses
<1>1. forwardingRequest[t].email \in SUBSET Addresses /\ forwardingRequest[t].email # {}
  BY DEF ForwardingTypeOK, EmailIsGiven, ForwardingRequests
<1> QED
  BY <1>1 DEF Email

\* What a handler or a button may leave in a page's request.
RequestsAreTyped ==
    /\ forwardingRequest \in [Tabs -> ForwardingRequests]
    /\ EmailIsGiven

\* A page's request is replaced by one that is typed and names the address it needs.
LEMMA ReplacedKeepsRequests ==
  ASSUME ForwardingIInv, NEW t \in Tabs, NEW r \in ForwardingRequests,
         forwardingRequest' = [forwardingRequest EXCEPT ![t] = r],
         r.op \in {"issue", "remove"} => r.email # {}
  PROVE  RequestsAreTyped'
  BY DEF ForwardingIInv, ForwardingTypeOK, RequestsAreTyped, EmailIsGiven

LEMMA AnsweredKeepsRequests ==
  ASSUME ForwardingIInv, NEW t \in Tabs, Answered(t)
  PROVE  RequestsAreTyped'
<1>1. NoRequest.op = "none"
  BY DEF NoRequest
<1> QED
  BY <1>1, NoRequestIsTyped, ReplacedKeepsRequests DEF Answered

\* A button writes to the page's request only, and names the address its handler needs.
LEMMA PageKeepsForwardingIInv ==
  ASSUME ForwardingIInv, NEW t \in Tabs, UseForwardingPage(t)
  PROVE  ForwardingIInv'
<1>1. PICK r \in ForwardingRequests : Ask(t, r) /\ (r.op \in {"issue", "remove"} => r.email # {})
  <2>1. ASSUME NEW a \in Addresses, AddEmail(t, a) \/ ResendEmail(t, a) \/ RemoveEmail(t, a)
        PROVE  \E r \in ForwardingRequests : Ask(t, r) /\ r.email # {}
    <3>1. PICK op \in {"issue", "remove"} : AskAbout(t, op, a)
      BY <2>1 DEF AddEmail, ResendEmail, RemoveEmail
    <3> DEFINE r == [NoRequest EXCEPT !.op = op, !.email = {a}, !.id = listed[a].id]
    <3>2. listed[a].id \in ListingIds
      BY DEF ForwardingIInv, ForwardingTypeOK, ListedRows
    <3>3. r \in ForwardingRequests /\ r.email # {}
      BY <3>2 DEF NoRequest, ForwardingRequests, ForwardingOps
    <3> QED
      BY <3>1, <3>3 DEF AskAbout
  <2>2. ASSUME NEW op \in Settings, NEW to \in SUBSET Addresses, NEW a \in Addresses,
               SaveTargets(t, op, to, a)
        PROVE  \E r \in ForwardingRequests : Ask(t, r) /\ r.op \notin {"issue", "remove"}
    <3> DEFINE r == [NoRequest EXCEPT !.op = op, !.to = to, !.checked = {a}]
    <3>1. r \in ForwardingRequests /\ r.op \notin {"issue", "remove"}
      BY NoRequestIsTyped DEF ForwardingRequests, ForwardingOps, Settings
    <3> QED
      BY <2>2, <3>1 DEF SaveTargets
  <2> QED
    BY <2>1, <2>2 DEF UseForwardingPage
<1>2. RequestsAreTyped'
  BY <1>1, ReplacedKeepsRequests DEF Ask
<1>3. UNCHANGED <<listed, accountTargets, mailboxTargets, links, openingLink, delivery, confirmed>>
  BY <1>1 DEF Ask, targets
<1> QED
  BY <1>2, <1>3
  DEF RequestsAreTyped, ForwardingIInv, ForwardingTypeOK, VerifiedIsConfirmed, OpeningIsConfirmed,
      ListingsAreIssued, ListingsAreApart, ForwardsAsConfirmed, IsListed, EmailVerified

\* A target more was checked, or the request is refused.
LEMMA CleanTargetKeepsForwardingIInv ==
  ASSUME ForwardingIInv, NEW t \in Tabs, NEW a \in Addresses, CleanTarget(t, a)
  PROVE  ForwardingIInv'
<1>1. RequestsAreTyped'
  <2>1. CASE EmailVerified(a)
    <3> DEFINE r == [forwardingRequest[t] EXCEPT !.checked = @ \cup {a}]
    <3>1. forwardingRequest[t] \in ForwardingRequests
      BY DEF ForwardingIInv, ForwardingTypeOK
    <3>2. r \in ForwardingRequests /\ r.op \notin {"issue", "remove"}
      BY <3>1 DEF CleanTarget, Settings, ForwardingRequests
    <3>3. forwardingRequest' = [forwardingRequest EXCEPT ![t] = r]
      BY <2>1 DEF CleanTarget, ForwardingIInv, ForwardingTypeOK
    <3> HIDE DEF r
    <3> QED
      BY <3>2, <3>3, ReplacedKeepsRequests
  <2> QED
    BY <2>1, AnsweredKeepsRequests DEF CleanTarget
<1>2. UNCHANGED <<listed, accountTargets, mailboxTargets, links, openingLink, delivery, confirmed>>
  BY DEF CleanTarget, targets
<1> QED
  BY <1>1, <1>2
  DEF RequestsAreTyped, ForwardingIInv, ForwardingTypeOK, VerifiedIsConfirmed, OpeningIsConfirmed,
      ListingsAreIssued, ListingsAreApart, ForwardsAsConfirmed, IsListed, EmailVerified

\* A new link makes its listing unverified; a new listing has a number nobody has seen.
LEMMA IssueKeepsForwardingIInv ==
  ASSUME ForwardingIInv, NEW t \in Tabs, Issue(t)
  PROVE  ForwardingIInv'
<1> DEFINE a == Email(t)
           new == links + 1
           found == forwardingRequest[t].id
           id == IF found = 0 THEN new ELSE found
<1>1. a \in Addresses /\ found \in ListingIds
  BY EmailIsAnAddress DEF Issue, ForwardingIInv, ForwardingTypeOK, ForwardingRequests
<1>2. RequestsAreTyped'
  BY AnsweredKeepsRequests DEF Issue
<1>3. UNCHANGED <<accountTargets, mailboxTargets, openingLink, delivery, confirmed>>
  BY DEF Issue, targets
<1>4. CASE UNCHANGED <<links, listed>>
  BY <1>2, <1>3, <1>4
  DEF RequestsAreTyped, ForwardingIInv, ForwardingTypeOK, VerifiedIsConfirmed, OpeningIsConfirmed,
      ListingsAreIssued, ListingsAreApart, ForwardsAsConfirmed, IsListed, EmailVerified
<1>5. CASE /\ listed[a].id = found /\ links' = new /\ links < MaxLinks
           /\ listed' = [listed EXCEPT ![a] = [id |-> id, verified |-> FALSE]]
  <2>1. links' \in ListingIds /\ links \in Nat /\ links < links' /\ links' \in Nat
    BY <1>5, LinksAssumption DEF ForwardingIInv, ForwardingTypeOK, ListingIds
  <2>2. id \in ListingIds /\ id <= links' /\ id # 0 /\ (IsListed(a) => id = listed[a].id)
        /\ (~IsListed(a) => id = links')
    BY <1>1, <1>5, <2>1, LinksAssumption
    DEF ForwardingIInv, ForwardingTypeOK, ListingsAreIssued, ListingIds, ListedRows, IsListed
  <2>3. listed' \in [Addresses -> ListedRows] /\ listed'[a] = [id |-> id, verified |-> FALSE]
        /\ \A b \in Addresses : b # a => listed'[b] = listed[b]
    BY <1>1, <1>5, <2>2 DEF ForwardingIInv, ForwardingTypeOK, ListedRows
  <2> HIDE DEF id, a, new, found
  <2>4. ForwardingTypeOK' /\ EmailIsGiven' /\ ForwardsAsConfirmed'
    BY <1>2, <1>3, <2>1, <2>3
    DEF RequestsAreTyped, ForwardingIInv, ForwardingTypeOK, ForwardsAsConfirmed
  <2>5. VerifiedIsConfirmed' /\ OpeningIsConfirmed'
    BY <1>1, <1>3, <2>3 DEF ForwardingIInv, VerifiedIsConfirmed, OpeningIsConfirmed, EmailVerified, IsListed
  <2>6. ListingsAreIssued'
    <3>1. \A b \in Addresses : listed'[b].id <= links'
      BY <1>1, <2>1, <2>2, <2>3
      DEF ForwardingIInv, ForwardingTypeOK, ListingsAreIssued, ListedRows, ListingIds
    <3>2. confirmed' \subseteq 1..links' /\ openingLink' <= links'
      BY <1>3, <2>1, LinksAssumption DEF ForwardingIInv, ForwardingTypeOK, ListingsAreIssued, ListingIds
    <3> QED
      BY <3>1, <3>2 DEF ListingsAreIssued
  <2>7. ListingsAreApart'
    <3>1. \A b \in Addresses : listed[b].id \in Nat /\ listed[b].id <= links
      BY LinksAssumption DEF ForwardingIInv, ForwardingTypeOK, ListingsAreIssued, ListedRows, ListingIds
    <3>2. \A b \in Addresses : b # a => listed'[b].id # id
      BY <1>1, <2>1, <2>2, <2>3, <3>1 DEF ForwardingIInv, ListingsAreApart, IsListed
    <3> QED
      BY <1>1, <2>3, <3>2 DEF ForwardingIInv, ListingsAreApart, IsListed
  <2> QED
    BY <2>4, <2>5, <2>6, <2>7 DEF ForwardingIInv
<1> QED
  BY <1>4, <1>5 DEF Issue

\* The deletion forgets a listing, whether it was verified or not.
LEMMA RemoveKeepsForwardingIInv ==
  ASSUME ForwardingIInv, NEW t \in Tabs, Remove(t)
  PROVE  ForwardingIInv'
<1>1. RequestsAreTyped'
  BY AnsweredKeepsRequests DEF Remove
<1>2. listed' \in [Addresses -> ListedRows]
      /\ \A b \in Addresses : listed'[b] = listed[b] \/ listed'[b] = Unlisted
  <2>1. Unlisted \in ListedRows
    BY LinksAssumption DEF Unlisted, ListedRows, ListingIds
  <2> QED
    BY <2>1 DEF Remove, ForwardingIInv, ForwardingTypeOK
<1>3. ForwardingTypeOK' /\ EmailIsGiven' /\ ForwardsAsConfirmed'
  BY <1>1, <1>2 DEF Remove, RequestsAreTyped, ForwardingIInv, ForwardingTypeOK, ForwardsAsConfirmed
<1> QED
  BY <1>2, <1>3, LinksAssumption
  DEF Remove, ForwardingIInv, VerifiedIsConfirmed, OpeningIsConfirmed, ListingsAreIssued,
      ListingsAreApart, IsListed, EmailVerified, Unlisted, ForwardingTypeOK, ListedRows, ListingIds

LEMMA StoreKeepsForwardingIInv ==
  ASSUME ForwardingIInv, NEW t \in Tabs, NEW setting \in Settings,
         StoreTargets(t) \/ ClearTargets(t, setting)
  PROVE  ForwardingIInv'
<1>1. /\ accountTargets' \in SUBSET Addresses /\ mailboxTargets' \in SUBSET Addresses
      /\ UNCHANGED <<listed, links, openingLink, delivery, confirmed>>
  <2>1. forwardingRequest[t].to \in SUBSET Addresses
    BY DEF ForwardingIInv, ForwardingTypeOK, ForwardingRequests
  <2>2. ASSUME NEW op, NEW to \in SUBSET Addresses, Store(op, to)
        PROVE  /\ accountTargets' \in SUBSET Addresses /\ mailboxTargets' \in SUBSET Addresses
               /\ UNCHANGED <<listed, links, openingLink, delivery, confirmed>>
    BY <2>2 DEF Store, ForwardingIInv, ForwardingTypeOK
  <2> QED
    BY <2>1, <2>2 DEF StoreTargets, ClearTargets
<1>2. RequestsAreTyped'
  <2>1. CASE StoreTargets(t)
    BY <2>1, AnsweredKeepsRequests DEF StoreTargets
  <2>2. CASE ClearTargets(t, setting)
    BY <2>2 DEF ClearTargets, RequestsAreTyped, EmailIsGiven, ForwardingIInv, ForwardingTypeOK
  <2> QED
    BY <2>1, <2>2
<1> QED
  BY <1>1, <1>2
  DEF RequestsAreTyped, ForwardingIInv, ForwardingTypeOK, VerifiedIsConfirmed, OpeningIsConfirmed,
      ListingsAreIssued, ListingsAreApart, ForwardsAsConfirmed, IsListed, EmailVerified

\* The update goes by the id that was found, which only its own address can have by now.
LEMMA LinkKeepsForwardingIInv ==
  ASSUME ForwardingIInv, VerifyEmail \/ \E a \in Addresses : OpenLink(a)
  PROVE  ForwardingIInv'
<1>1. CASE VerifyEmail
  <2>1. openingLink # 0 /\ openingLink' = 0
        /\ UNCHANGED <<accountTargets, mailboxTargets, forwardingRequest, links, delivery, confirmed>>
    BY <1>1 DEF VerifyEmail, targets
  <2>2. listed' \in [Addresses -> ListedRows]
        /\ \A b \in Addresses : /\ listed'[b].id = listed[b].id
                                /\ listed'[b].verified => listed[b].verified \/ listed[b].id = openingLink
    BY <1>1 DEF VerifyEmail, ForwardingIInv, ForwardingTypeOK, ListedRows
  <2>3. ForwardingTypeOK' /\ EmailIsGiven' /\ ForwardsAsConfirmed'
    BY <2>1, <2>2, LinksAssumption
    DEF ForwardingIInv, ForwardingTypeOK, EmailIsGiven, ForwardsAsConfirmed, ListingIds
  <2> QED
    BY <2>1, <2>2, <2>3, LinksAssumption
    DEF ForwardingIInv, ForwardingTypeOK, VerifiedIsConfirmed, OpeningIsConfirmed, ListingsAreIssued,
        ListingsAreApart, IsListed, EmailVerified, ListingIds
<1>2. ASSUME NEW a \in Addresses, OpenLink(a) PROVE ForwardingIInv'
  <2>1. listed[a].id \in ListingIds /\ listed[a].id # 0 /\ listed[a].id <= links
    BY <1>2 DEF OpenLink, IsListed, ForwardingIInv, ForwardingTypeOK, ListedRows, ListingsAreIssued
  <2>2. ForwardingTypeOK' /\ EmailIsGiven' /\ ForwardsAsConfirmed'
    BY <1>2, <2>1
    DEF OpenLink, targets, ForwardingIInv, ForwardingTypeOK, EmailIsGiven, ForwardsAsConfirmed
  <2> QED
    BY <1>2, <2>1, <2>2, LinksAssumption
    DEF OpenLink, ForwardingIInv, ForwardingTypeOK, VerifiedIsConfirmed, OpeningIsConfirmed,
        ListingsAreIssued, ListingsAreApart, IsListed, EmailVerified, ListingIds
<1> QED
  BY <1>1, <1>2

\* A delivery writes nothing but its own state.
LEMMA DeliveryKeepsForwardingIInv ==
  ASSUME ForwardingIInv, UNCHANGED elsewhere,
         delivery' \in [at : {"none", "settings", "rule"}, left : SUBSET Addresses, to : SUBSET FoundTargets],
         \A target \in delivery'.to : target.id \in confirmed
  PROVE  ForwardingIInv'
<1>1. UNCHANGED <<listed, accountTargets, mailboxTargets, forwardingRequest, links, openingLink, confirmed>>
  BY DEF elsewhere, targets
<1> QED
  BY <1>1
  DEF ForwardingIInv, ForwardingTypeOK, EmailIsGiven, VerifiedIsConfirmed, OpeningIsConfirmed,
      ListingsAreIssued, ListingsAreApart, ForwardsAsConfirmed, IsListed, EmailVerified

LEMMA MailKeepsForwardingIInv ==
  ASSUME ForwardingIInv, MailComes \/ RuleApplies \/ Forward \/ ForwardFails
  PROVE  ForwardingIInv'
<1>1. UNCHANGED elsewhere
  BY DEF MailComes, RuleApplies, Forward, ForwardFails
<1>2. /\ delivery' \in [at : {"none", "settings", "rule"}, left : SUBSET Addresses, to : SUBSET FoundTargets]
      /\ delivery'.to = {}
  BY DEF MailComes, RuleApplies, Forward, ForwardFails, NoDelivery, RuleTargets, ForwardingIInv,
         ForwardingTypeOK
<1> QED
  BY <1>1, <1>2, DeliveryKeepsForwardingIInv

\* What was found verified is confirmed, and no listing is ever unconfirmed again.
LEMMA FindKeepsForwardingIInv ==
  ASSUME ForwardingIInv, NEW a \in Addresses, FindTarget(a)
  PROVE  ForwardingIInv'
<1> DEFINE target == [email |-> a, id |-> listed[a].id]
<1>1. target \in FoundTargets
  BY DEF ForwardingIInv, ForwardingTypeOK, ListedRows, FoundTargets
<1>2. EmailVerified(a) => target.id \in confirmed
  BY DEF ForwardingIInv, VerifiedIsConfirmed
<1>3. delivery \in [at : {"none", "settings", "rule"}, left : SUBSET Addresses, to : SUBSET FoundTargets]
  BY DEF ForwardingIInv, ForwardingTypeOK
<1> HIDE DEF target
<1>4. \/ EmailVerified(a) /\ delivery' = [delivery EXCEPT !.left = @ \ {a}, !.to = @ \cup {target}]
      \/ delivery' = NoDelivery
      \/ delivery' = [delivery EXCEPT !.left = @ \ {a}]
  BY DEF FindTarget, target
<1>5. UNCHANGED elsewhere
  BY DEF FindTarget
<1>6. CASE EmailVerified(a) /\ delivery' = [delivery EXCEPT !.left = @ \ {a}, !.to = @ \cup {target}]
  <2>1. delivery'.at = delivery.at /\ delivery'.left = delivery.left \ {a}
        /\ delivery'.to = delivery.to \cup {target}
    BY <1>3, <1>6
  <2>2. delivery' \in [at : {"none", "settings", "rule"}, left : SUBSET Addresses, to : SUBSET FoundTargets]
    BY <1>1, <1>3, <1>6
  <2>3. \A found \in delivery'.to : found.id \in confirmed
    BY <1>2, <1>6, <2>1 DEF ForwardingIInv, ForwardsAsConfirmed
  <2> QED
    BY <1>5, <2>2, <2>3, DeliveryKeepsForwardingIInv
<1>7. CASE delivery' = NoDelivery
  BY <1>5, <1>7, DeliveryKeepsForwardingIInv DEF NoDelivery
<1>8. CASE delivery' = [delivery EXCEPT !.left = @ \ {a}]
  <2>1. delivery' \in [at : {"none", "settings", "rule"}, left : SUBSET Addresses, to : SUBSET FoundTargets]
        /\ delivery'.to = delivery.to
    BY <1>3, <1>8
  <2> QED
    BY <1>5, <2>1, DeliveryKeepsForwardingIInv DEF ForwardingIInv, ForwardsAsConfirmed
<1> QED
  BY <1>4, <1>6, <1>7, <1>8

LEMMA StepKeepsForwardingIInv == ForwardingIInv /\ [ForwardingNext]_forwarding => ForwardingIInv'
<1> SUFFICES ASSUME ForwardingIInv, [ForwardingNext]_forwarding PROVE ForwardingIInv'
  OBVIOUS
<1>1. CASE ForwardingNext
  BY <1>1, PageKeepsForwardingIInv, CleanTargetKeepsForwardingIInv, IssueKeepsForwardingIInv,
     RemoveKeepsForwardingIInv, StoreKeepsForwardingIInv, LinkKeepsForwardingIInv,
     MailKeepsForwardingIInv, FindKeepsForwardingIInv
  DEF ForwardingNext, Settings
<1>2. CASE UNCHANGED forwarding
  BY <1>2
  DEF forwarding, targets, ForwardingIInv, ForwardingTypeOK, EmailIsGiven, VerifiedIsConfirmed,
      OpeningIsConfirmed, ListingsAreIssued, ListingsAreApart, ForwardsAsConfirmed, IsListed, EmailVerified
<1> QED
  BY <1>1, <1>2

------------------------------------------------------------------------------
(* FolderOrder *)

\* Numbers the server or the browser holds of folders, and the items one may compare by them.
Orders == UNION {[D -> Nat \ {0}] : D \in SUBSET CustomFolders}
Known(orders) == DOMAIN orders \cup AllAnchors

LEMMA OrdersTyped ==
  ASSUME NEW orders \in Orders
  PROVE  /\ DOMAIN orders \subseteq CustomFolders
         /\ \A f \in DOMAIN orders : orders[f] \in Nat /\ orders[f] > 0
         /\ orders \in [DOMAIN orders -> Nat \ {0}]
  BY DEF Orders

\* The place of an element of a sequence without repetitions.
LEMMA PlaceIs ==
  ASSUME NEW s, Distinct(s), NEW i \in DOMAIN s
  PROVE  Place(s, s[i]) = i
<1>1. \A j \in DOMAIN s : s[j] = s[i] => j = i
  BY DEF Distinct
<1> QED
  BY <1>1 DEF Place

LEMMA PlaceOfElement ==
  ASSUME NEW s, NEW x \in Elements(s)
  PROVE  Place(s, x) \in DOMAIN s /\ s[Place(s, x)] = x
<1>1. \E i \in DOMAIN s : s[i] = x
  BY DEF Elements
<1> QED
  BY <1>1 DEF Place

LEMMA LabelPlaces ==
  /\ \A x \in CustomFolders \cup AllAnchors : Place(ByLabel, x) \in Nat
  /\ \A x, y \in CustomFolders \cup AllAnchors : Place(ByLabel, x) = Place(ByLabel, y) => x = y
<1>1. \A x \in CustomFolders \cup AllAnchors : Place(ByLabel, x) \in DOMAIN ByLabel /\ ByLabel[Place(ByLabel, x)] = x
  BY FolderOrderAssumption, PlaceOfElement
<1>2. DOMAIN ByLabel \subseteq Nat
  BY FolderOrderAssumption
<1> QED
  BY <1>1, <1>2

LEMMA AnchorOrders ==
  /\ \A x \in AllAnchors : MenuAnchorOrder[x] \in Nat
  /\ \A x \in AllAnchors : 1000 <= MenuAnchorOrder[x] /\ MenuAnchorOrder[x] <= 10000
  /\ \A x, y \in AllAnchors :
        MenuAnchorOrder[x] < MenuAnchorOrder[y] => MenuAnchorOrder[x] + 1000 <= MenuAnchorOrder[y]
  /\ \A x, y \in AllAnchors : MenuAnchorOrder[x] = MenuAnchorOrder[y] => x = y
<1>1. DOMAIN MenuAnchorOrder = {"Inbox", "Drafts", "Sent", "Archive", "Trash", "starred",
                                "scheduled", "unknown", "Spam", "sendQueue"}
  BY DEF MenuAnchorOrder
<1>2. /\ MenuAnchorOrder["Inbox"] = 1000 /\ MenuAnchorOrder["Drafts"] = 2000
      /\ MenuAnchorOrder["Sent"] = 3000 /\ MenuAnchorOrder["Archive"] = 4000
      /\ MenuAnchorOrder["Trash"] = 5000 /\ MenuAnchorOrder["starred"] = 6000
      /\ MenuAnchorOrder["scheduled"] = 7000 /\ MenuAnchorOrder["unknown"] = 8000
      /\ MenuAnchorOrder["Spam"] = 9000 /\ MenuAnchorOrder["sendQueue"] = 10000
  BY DEF MenuAnchorOrder
<1>3. AllAnchors \subseteq DOMAIN MenuAnchorOrder
  BY FolderOrderAssumption
<1> HIDE DEF MenuAnchorOrder
<1>4. \A x \in AllAnchors : \E k \in 1..10 : MenuAnchorOrder[x] = 1000 * k
  BY <1>1, <1>2, <1>3
<1>5. \A x, y \in AllAnchors : MenuAnchorOrder[x] = MenuAnchorOrder[y] => x = y
  BY <1>1, <1>2, <1>3
<1> QED
  BY <1>4, <1>5

LEMMA OrderOfKnown ==
  ASSUME NEW orders \in Orders, NEW x \in Known(orders)
  PROVE  OrderOf(orders, x) \in Nat /\ x \in CustomFolders \cup AllAnchors
  BY OrdersTyped, AnchorOrders DEF OrderOf, Known

\* Before is a strict total order of the items whose order is known.
LEMMA BeforeOrders ==
  ASSUME NEW orders \in Orders
  PROVE  /\ \A x \in Known(orders) : ~Before(orders, x, x)
         /\ \A x, y, z \in Known(orders) : Before(orders, x, y) /\ Before(orders, y, z) => Before(orders, x, z)
         /\ \A x, y \in Known(orders) : x # y => Before(orders, x, y) \/ Before(orders, y, x)
<1>1. \A x \in Known(orders) : OrderOf(orders, x) \in Nat /\ x \in CustomFolders \cup AllAnchors
  BY OrderOfKnown
<1>2. \A x \in Known(orders) : Place(ByLabel, x) \in Nat
  BY <1>1, LabelPlaces
<1>3. \A x, y \in Known(orders) : Place(ByLabel, x) = Place(ByLabel, y) => x = y
  BY <1>1, LabelPlaces
<1>4. \A x \in Known(orders) : ~Before(orders, x, x)
  BY <1>1, <1>2 DEF Before
<1>5. ASSUME NEW x \in Known(orders), NEW y \in Known(orders), NEW z \in Known(orders),
             Before(orders, x, y), Before(orders, y, z)
      PROVE  Before(orders, x, z)
  BY <1>1, <1>2, <1>5 DEF Before
<1>6. ASSUME NEW x \in Known(orders), NEW y \in Known(orders), x # y
      PROVE  Before(orders, x, y) \/ Before(orders, y, x)
  BY <1>1, <1>2, <1>3, <1>6 DEF Before
<1> QED
  BY <1>4, <1>5, <1>6

LEMMA ItemsAreFinite ==
  ASSUME NEW orders \in Orders
  PROVE  IsFiniteSet(Items(orders)) /\ Items(orders) \subseteq Known(orders)
<1>0. PICK most \in Nat : \A x \in AllAnchors : MenuAnchorOrder[x] <= most
  <2>1. 10000 \in Nat
    OBVIOUS
  <2> QED
    BY <2>1, AnchorOrders
<1> DEFINE g == [x \in AllAnchors |-> MenuAnchorOrder[x]]
<1>1. \A x \in AllAnchors : MenuAnchorOrder[x] \in 0..most
  <2> TAKE x \in AllAnchors
  <2>1. MenuAnchorOrder[x] \in Nat /\ MenuAnchorOrder[x] <= most
    BY <1>0, AnchorOrders
  <2> QED
    BY <2>1
<1>2. g \in [AllAnchors -> 0..most] /\ \A x, y \in AllAnchors : g[x] = g[y] => x = y
  BY <1>1, AnchorOrders
<1> HIDE DEF g
<1>3. g \in Injection(AllAnchors, 0..most)
  BY <1>2 DEF Injection, IsInjective
<1>a. IsFiniteSet(0..most)
  BY FS_Interval
<1>4. IsFiniteSet(AllAnchors)
  BY <1>3, <1>a, FS_Injection
<1>5. Anchors \subseteq AllAnchors
  BY DEF Anchors, AllAnchors
<1>6. IsFiniteSet(Anchors) /\ IsFiniteSet(DOMAIN orders)
  BY <1>4, <1>5, FS_Subset, OrdersTyped, FolderOrderAssumption
<1> QED
  BY <1>5, <1>6, FS_Union DEF Items, Known

\* mailMenuItems sorts: it has every item once, and each before those that are to come after it.
LEMMA MenuIsSorted ==
  ASSUME NEW orders \in Orders, NEW menu, menu = MailMenuItems(orders)
  PROVE  /\ menu \in Seq(Items(orders)) /\ Elements(menu) = Items(orders) /\ Distinct(menu)
         /\ \A i, j \in DOMAIN menu : i < j => Before(orders, menu[i], menu[j])
<1> DEFINE T == Items(orders)
           n == Cardinality(T)
           Pred(x) == {y \in T : Before(orders, y, x)}
           Rank(x) == 1 + Cardinality(Pred(x))
           rank == [x \in T |-> Rank(x)]
<1>1. IsFiniteSet(T) /\ n \in Nat /\ T \subseteq Known(orders)
  BY ItemsAreFinite, FS_CardinalityType
<1>2. \A x \in T : IsFiniteSet(Pred(x)) /\ Cardinality(Pred(x)) \in Nat
  BY <1>1, FS_Subset, FS_CardinalityType
<1>3. ASSUME NEW x \in T, NEW y \in T, Before(orders, x, y)
      PROVE  Rank(x) < Rank(y)
  <2>1. Pred(x) \in SUBSET Pred(y)
    BY <1>1, <1>3, BeforeOrders
  <2>2. x \in Pred(y) /\ x \notin Pred(x)
    BY <1>1, <1>3, BeforeOrders
  <2>3. Cardinality(Pred(x)) <= Cardinality(Pred(y)) /\ Cardinality(Pred(x)) # Cardinality(Pred(y))
    BY <1>2, <2>1, <2>2, FS_Subset
  <2> QED
    BY <1>2, <2>3
<1>4. ASSUME NEW x \in T
      PROVE  Rank(x) \in 1..n
  <2>1. Pred(x) \in SUBSET T /\ x \notin Pred(x)
    BY <1>1, BeforeOrders
  <2>2. Cardinality(Pred(x)) <= n /\ Cardinality(Pred(x)) # n
    BY <1>1, <2>1, FS_Subset
  <2> QED
    BY <1>1, <1>2, <2>2
<1>5. \A x, y \in T : Rank(x) = Rank(y) => x = y
  <2> SUFFICES ASSUME NEW x \in T, NEW y \in T, x # y PROVE Rank(x) # Rank(y)
    OBVIOUS
  <2>1. Before(orders, x, y) \/ Before(orders, y, x)
    BY <1>1, BeforeOrders
  <2>2. Rank(x) < Rank(y) \/ Rank(y) < Rank(x)
    BY <1>3, <2>1
  <2>3. Rank(x) \in 1..n /\ Rank(y) \in 1..n
    BY <1>4
  <2> HIDE DEF Rank
  <2> QED
    BY <2>2, <2>3
<1> HIDE DEF Rank
<1>6. rank \in [T -> 1..n] /\ \A x, y \in T : rank[x] = rank[y] => x = y
  BY <1>4, <1>5
<1>7. \A i \in 1..n : \E x \in T : Rank(x) = i
  <2>1. rank \in Injection(T, 1..n)
    BY <1>6 DEF Injection, IsInjective
  <2>2. IsFiniteSet(1..n) /\ Cardinality(1..n) = n
    BY <1>1, FS_Interval
  <2>3. rank \in Surjection(T, 1..n)
    BY <2>1, <2>2, FS_Injection
  <2> QED
    BY <2>3 DEF Surjection
<1>8. menu = [i \in 1..n |-> CHOOSE x \in T : Rank(x) = i]
  BY DEF MailMenuItems, Rank
<1> HIDE DEF T, n
<1>9. \A i \in 1..n : menu[i] \in T /\ Rank(menu[i]) = i
  BY <1>7, <1>8
<1>10. menu \in Seq(T) /\ DOMAIN menu = 1..n
  BY <1>1, <1>8, <1>9
<1>11. Elements(menu) = T
  <2>1. ASSUME NEW x \in T PROVE menu[Rank(x)] = x
    BY <1>4, <1>5, <1>9, <2>1
  <2> QED
    BY <1>4, <1>9, <1>10, <2>1 DEF Elements
<1>12. Distinct(menu)
  BY <1>9, <1>10 DEF Distinct
<1>13. ASSUME NEW i \in DOMAIN menu, NEW j \in DOMAIN menu, i < j
       PROVE  Before(orders, menu[i], menu[j])
  <2>1. menu[i] \in T /\ menu[j] \in T /\ Rank(menu[i]) = i /\ Rank(menu[j]) = j /\ i \in Nat /\ j \in Nat
    BY <1>1, <1>9, <1>10
  <2>2. menu[i] # menu[j]
    BY <1>13, <2>1
  <2>3. ~Before(orders, menu[j], menu[i])
    BY <1>3, <1>13, <2>1
  <2> QED
    BY <1>1, <2>1, <2>2, <2>3, BeforeOrders DEF T
<1> QED
  BY <1>10, <1>11, <1>12, <1>13 DEF T

LEMMA Least ==
  ASSUME NEW T \in SUBSET Nat, T # {}
  PROVE  \E x \in T : \A y \in T : x <= y
<1>1. PICK x \in T : \A y \in T : <<y, x>> \notin OpToRel(<, Nat)
  BY WFMin, NatLessThanWellFounded
<1>2. \A y \in T : ~(y < x)
  BY <1>1 DEF OpToRel
<1> QED
  BY <1>2

LEMMA Greatest ==
  ASSUME NEW n \in Nat, NEW T \in SUBSET (0..n), T # {}
  PROVE  \E x \in T : \A y \in T : y <= x
<1> DEFINE D == {d \in 0..n : n - d \in T}
<1>1. \A x \in T : n - x \in D
  OBVIOUS
<1>2. D \in SUBSET Nat /\ D # {}
  <2>1. \E x \in T : n - x \in D
    BY <1>1
  <2>2. D \in SUBSET Nat
    OBVIOUS
  <2> HIDE DEF D
  <2> QED
    BY <2>1, <2>2
<1>3. PICK d \in D : \A c \in D : d <= c
  BY <1>2, Least
<1>4. \A y \in T : y <= n - d
  BY <1>1, <1>3
<1> QED
  BY <1>3, <1>4

\* Menus: items that are there once each, with the fixed ones in their order.
Menus == {menu \in Seq(CustomFolders \cup AllAnchors) : Distinct(menu)}
AnchorsInOrder(menu) ==
    \A i, j \in DOMAIN menu : i < j /\ menu[i] \in AllAnchors /\ menu[j] \in AllAnchors
                              => MenuAnchorOrder[menu[i]] < MenuAnchorOrder[menu[j]]

LEMMA GroupBounds ==
  ASSUME NEW menu \in Menus, NEW i \in DOMAIN menu, menu[i] \in CustomFolders
  PROVE  /\ GroupStart(menu, i) \in 1..i /\ GroupEnd(menu, i) \in i..Len(menu)
         /\ \A j \in GroupStart(menu, i)..GroupEnd(menu, i) : menu[j] \in CustomFolders
         /\ GroupStart(menu, i) = 1 \/ menu[GroupStart(menu, i) - 1] \notin CustomFolders
         /\ GroupEnd(menu, i) = Len(menu) \/ menu[GroupEnd(menu, i) + 1] \notin CustomFolders
<1>0. Len(menu) \in Nat /\ i \in 1..Len(menu) /\ DOMAIN menu = 1..Len(menu)
  BY DEF Menus
<1>1. \E s \in 1..i : /\ \A j \in s..i : menu[j] \in CustomFolders
                      /\ s = 1 \/ menu[s - 1] \notin CustomFolders
  <2> DEFINE T == {j \in 1..i : menu[j] \notin CustomFolders}
  <2>1. CASE T = {}
    BY <1>0, <2>1
  <2>2. CASE T # {}
    <3>1. i \in Nat /\ T \in SUBSET (0..i)
      BY <1>0
    <3>2. PICK t \in T : \A y \in T : y <= t
      BY <2>2, <3>1, Greatest
    <3>3. t + 1 \in 1..i
      BY <1>0, <3>2
    <3>4. \A j \in (t + 1)..i : menu[j] \in CustomFolders
      BY <1>0, <3>2
    <3>5. (t + 1) - 1 = t /\ menu[t] \notin CustomFolders
      BY <3>2
    <3> QED
      BY <3>3, <3>4, <3>5
  <2> QED
    BY <2>1, <2>2
<1>2. \E e \in i..Len(menu) : /\ \A j \in i..e : menu[j] \in CustomFolders
                              /\ e = Len(menu) \/ menu[e + 1] \notin CustomFolders
  <2> DEFINE T == {j \in i..Len(menu) : menu[j] \notin CustomFolders}
  <2>1. CASE T = {}
    <3>1. Len(menu) \in i..Len(menu) /\ \A j \in i..Len(menu) : menu[j] \in CustomFolders
      BY <1>0, <2>1
    <3> QED
      BY <3>1
  <2>2. CASE T # {}
    <3>1. T \in SUBSET Nat
      BY <1>0
    <3>2. PICK t \in T : \A y \in T : t <= y
      BY <2>2, <3>1, Least
    <3>3. t - 1 \in i..Len(menu)
      BY <1>0, <3>2
    <3>4. \A j \in i..(t - 1) : menu[j] \in CustomFolders
      BY <1>0, <3>2
    <3>5. (t - 1) + 1 = t /\ menu[t] \notin CustomFolders
      BY <1>0, <3>2
    <3> QED
      BY <3>3, <3>4, <3>5
  <2> QED
    BY <2>1, <2>2
<1>3. /\ GroupStart(menu, i) \in 1..i
      /\ \A j \in GroupStart(menu, i)..i : menu[j] \in CustomFolders
      /\ GroupStart(menu, i) = 1 \/ menu[GroupStart(menu, i) - 1] \notin CustomFolders
  BY <1>1 DEF GroupStart
<1>4. /\ GroupEnd(menu, i) \in i..Len(menu)
      /\ \A j \in i..GroupEnd(menu, i) : menu[j] \in CustomFolders
      /\ GroupEnd(menu, i) = Len(menu) \/ menu[GroupEnd(menu, i) + 1] \notin CustomFolders
  BY <1>2 DEF GroupEnd
<1> QED
  BY <1>0, <1>3, <1>4

LEMMA GroupIsSmall ==
  ASSUME NEW menu \in Menus, NEW i \in DOMAIN menu, menu[i] \in CustomFolders
  PROVE  /\ GroupSize(menu, i) \in Nat \ {0}
         /\ GroupSize(menu, i) <= Cardinality(CustomFolders)
<1> DEFINE s == GroupStart(menu, i)
           e == GroupEnd(menu, i)
           g == [j \in s..e |-> menu[j]]
<1>1. s \in Int /\ e \in Int /\ s <= e /\ s >= 1 /\ e <= Len(menu) /\ \A j \in s..e : menu[j] \in CustomFolders
  BY GroupBounds DEF Menus
<1> HIDE DEF s, e
<1>2. g \in [s..e -> CustomFolders]
  BY <1>1
<1>3. \A j, k \in s..e : g[j] = g[k] => j = k
  BY <1>1 DEF Menus, Distinct
<1> HIDE DEF g
<1>4. g \in Injection(s..e, CustomFolders)
  BY <1>2, <1>3 DEF Injection, IsInjective
<1>5. Cardinality(s..e) <= Cardinality(CustomFolders)
  BY <1>4, FS_Injection, FolderOrderAssumption
<1>6. Cardinality(s..e) = e - s + 1
  BY <1>1, FS_Interval
<1> QED
  BY <1>1, <1>5, <1>6 DEF GroupSize, s, e

\* Steps into a gap of at least a thousand that holds fewer folders stay inside it.
LEMMA StepsStayInside ==
  ASSUME NEW start \in Nat, NEW end \in Nat, start + 1000 <= end,
         NEW n \in Nat \ {0}, n < 1000,
         NEW step, step = StepOf(start, end, n)
  PROVE  /\ step \in Nat \ {0}
         /\ \A k \in 1..n : start < start + step * k /\ start + step * k < end
         /\ \A k, l \in 1..n : k < l => step * k < step * l
<1> DEFINE d == end - start
           q == d \div (n + 1)
<1>1. d \in Nat /\ d >= 1000 /\ n + 1 \in Nat /\ n + 1 > 0 /\ n + 1 <= 1000
  OBVIOUS
<1> HIDE DEF d
<1>2. q \in Nat /\ (n + 1) * q <= d /\ d < (n + 1) * q + (n + 1)
  BY <1>1
<1> HIDE DEF q
<1>3. q # 0
  BY <1>1, <1>2
<1>4. step = q
  BY <1>2, <1>3 DEF StepOf, Larger, q, d
<1>5. step \in Nat \ {0} /\ step >= 1
  BY <1>2, <1>3, <1>4
<1>6. step * n < d
  <2>1. (n + 1) * step = step * n + step
    BY <1>5
  <2> QED
    BY <1>1, <1>2, <1>4, <1>5, <2>1
<1>7. ASSUME NEW k \in 1..n, NEW l \in 1..n, k < l
      PROVE  step * k < step * l
  <2>1. PICK m \in Nat \ {0} : l = k + m
    <3>1. l - k \in Nat \ {0} /\ l = k + (l - k)
      BY <1>7
    <3> QED
      BY <3>1
  <2>2. step * l = step * k + step * m
    BY <1>5, <2>1
  <2>3. step * m > 0
    BY <1>5, <2>1
  <2>4. step * k \in Nat /\ step * m \in Nat
    BY <1>5, <2>1
  <2> QED
    BY <2>2, <2>3, <2>4
<1>8. ASSUME NEW k \in 1..n
      PROVE  0 < step * k /\ step * k <= step * n
  <2>1. step * k \in Nat /\ step * n \in Nat /\ step * k > 0
    BY <1>5
  <2>2. k = n \/ k < n
    OBVIOUS
  <2>3. n \in 1..n
    OBVIOUS
  <2> QED
    BY <1>7, <2>1, <2>2, <2>3
<1>9. ASSUME NEW k \in 1..n
      PROVE  start < start + step * k /\ start + step * k < end
  <2>1. step * k \in Nat /\ step * n \in Nat
    BY <1>5
  <2> QED
    BY <1>6, <1>8, <2>1 DEF d
<1> QED
  BY <1>5, <1>7, <1>9

\* Whatever the fixed items, a gap has a thousand numbers, and an end.
LEMMA GapIsWide ==
  ASSUME NEW menu \in Menus, AnchorsInOrder(menu), NEW i \in DOMAIN menu, menu[i] \in CustomFolders
  PROVE  /\ GapStart(menu, i) \in Nat /\ GapEnd(menu, i) \in Nat
         /\ GapStart(menu, i) + 1000 <= GapEnd(menu, i)
<1> DEFINE s == GroupStart(menu, i)
           e == GroupEnd(menu, i)
<1>0. Len(menu) \in Nat /\ DOMAIN menu = 1..Len(menu) /\ i \in 1..Len(menu)
  BY DEF Menus
<1>a. s \in Nat /\ e \in Nat /\ 1 <= s /\ s <= i /\ i <= e /\ e <= Len(menu)
  BY <1>0, GroupBounds
<1>1. /\ DOMAIN menu = 1..Len(menu)
      /\ \A j \in DOMAIN menu : menu[j] \notin CustomFolders => menu[j] \in AllAnchors
      /\ s = 1 \/ menu[s - 1] \notin CustomFolders
      /\ e = Len(menu) \/ menu[e + 1] \notin CustomFolders
  BY GroupBounds DEF Menus
<1> HIDE DEF s, e
<1>2. ASSUME s # 1 PROVE s - 1 \in DOMAIN menu /\ menu[s - 1] \in AllAnchors
  <2>1. s - 1 \in 1..Len(menu)
    BY <1>0, <1>2, <1>a
  <2> QED
    BY <1>1, <1>2, <2>1
<1>3. ASSUME e # Len(menu) PROVE e + 1 \in DOMAIN menu /\ menu[e + 1] \in AllAnchors
  <2> DEFINE n == Len(menu)
  <2>0. n \in Nat /\ e \in Nat /\ e <= n /\ e # n
    BY <1>0, <1>3, <1>a
  <2>1. e + 1 \in 1..Len(menu)
    <3> HIDE DEF n
    <3>1. e + 1 <= n
      BY <2>0
    <3> QED
      BY <2>0, <3>1 DEF n
  <2> QED
    BY <1>1, <1>3, <2>1
<1>4. GapStart(menu, i) = IF s = 1 THEN 0 ELSE MenuAnchorOrder[menu[s - 1]]
  BY DEF GapStart, s
<1>5. GapStart(menu, i) \in Nat
  BY <1>2, <1>4, AnchorOrders
<1>6. GroupSize(menu, i) \in Nat \ {0}
  BY GroupIsSmall
<1>7. CASE e = Len(menu)
  <2>1. GapEnd(menu, i) = GapStart(menu, i) + (GroupSize(menu, i) + 1) * 1000
    BY <1>7 DEF GapEnd, e
  <2> QED
    BY <1>5, <1>6, <2>1
<1>8. CASE e # Len(menu)
  <2>1. GapEnd(menu, i) = MenuAnchorOrder[menu[e + 1]]
    BY <1>8 DEF GapEnd, e
  <2>2. GapEnd(menu, i) \in Nat /\ GapEnd(menu, i) >= 1000
    BY <1>3, <1>8, <2>1, AnchorOrders
  <2>3. ASSUME s # 1 PROVE GapStart(menu, i) + 1000 <= GapEnd(menu, i)
    <3>1. s - 1 < e + 1
      BY <1>0, <1>a
    <3>2. MenuAnchorOrder[menu[s - 1]] < MenuAnchorOrder[menu[e + 1]]
      BY <1>2, <1>3, <1>8, <2>3, <3>1 DEF AnchorsInOrder
    <3> QED
      BY <1>2, <1>3, <1>4, <1>8, <2>1, <2>3, <3>2, AnchorOrders
  <2> QED
    BY <1>4, <1>5, <2>2, <2>3
<1> QED
  BY <1>5, <1>7, <1>8

LEMMA AssignedNumber ==
  ASSUME NEW menu \in Menus, NEW i \in DOMAIN menu, menu[i] \in CustomFolders
  PROVE  /\ menu[i] \in DOMAIN AssignCustomFolderOrders(menu)
         /\ AssignCustomFolderOrders(menu)[menu[i]] =
               GapStart(menu, i) + StepOf(GapStart(menu, i), GapEnd(menu, i), GroupSize(menu, i))
                                   * (i - GroupStart(menu, i) + 1)
<1>1. Place(menu, menu[i]) = i
  BY PlaceIs DEF Menus
<1>2. menu[i] \in Elements(menu) \cap CustomFolders
  BY DEF Elements
<1> QED
  BY <1>1, <1>2 DEF AssignCustomFolderOrders

\* The numbers the folders of a menu get are positive, as the server demands.
LEMMA AssignedTyped ==
  ASSUME NEW menu \in Menus
  PROVE  /\ AssignCustomFolderOrders(menu) \in Orders
         /\ DOMAIN AssignCustomFolderOrders(menu) = Elements(menu) \cap CustomFolders
<1> DEFINE o == AssignCustomFolderOrders(menu)
<1>1. DOMAIN o = Elements(menu) \cap CustomFolders /\ o = [f \in DOMAIN o |-> o[f]]
  BY DEF AssignCustomFolderOrders
<1>2. ASSUME NEW f \in Elements(menu) \cap CustomFolders
      PROVE  o[f] \in Nat \ {0}
  <2>1. PICK i \in DOMAIN menu : menu[i] = f
    BY DEF Elements
  <2>2. o[f] = GapStart(menu, i) + StepOf(GapStart(menu, i), GapEnd(menu, i), GroupSize(menu, i))
                                   * (i - GroupStart(menu, i) + 1)
    BY <2>1, AssignedNumber
  <2>3. i - GroupStart(menu, i) + 1 \in Nat \ {0}
    <3>1. GroupStart(menu, i) \in 1..i
      BY <2>1, GroupBounds
    <3> QED
      BY <3>1 DEF Menus
  <2>4. GapStart(menu, i) \in Nat /\ GapEnd(menu, i) \in Nat
    <3>1. /\ GroupStart(menu, i) \in 1..i /\ GroupEnd(menu, i) \in i..Len(menu) /\ i \in 1..Len(menu)
          /\ Len(menu) \in Nat /\ DOMAIN menu = 1..Len(menu)
          /\ \A j \in DOMAIN menu : menu[j] \notin CustomFolders => menu[j] \in AllAnchors
          /\ GroupStart(menu, i) = 1 \/ menu[GroupStart(menu, i) - 1] \notin CustomFolders
          /\ GroupEnd(menu, i) = Len(menu) \/ menu[GroupEnd(menu, i) + 1] \notin CustomFolders
      BY <2>1, GroupBounds DEF Menus
    <3>2. GroupSize(menu, i) \in Nat
      BY <2>1, GroupIsSmall
    <3>3. GapStart(menu, i) \in Nat
      BY <3>1, AnchorOrders DEF GapStart
    <3> QED
      BY <3>1, <3>2, <3>3, AnchorOrders DEF GapEnd
  <2>5. GroupSize(menu, i) \in Nat \ {0}
    BY <2>1, GroupIsSmall
  <2> DEFINE step == StepOf(GapStart(menu, i), GapEnd(menu, i), GroupSize(menu, i))
             k == i - GroupStart(menu, i) + 1
  <2>6. step \in Nat \ {0}
    BY <2>4, <2>5 DEF StepOf, Larger
  <2>7. o[f] = GapStart(menu, i) + step * k /\ k \in Nat \ {0}
    BY <2>2, <2>3
  <2> HIDE DEF step, k, o
  <2>8. step * k \in Nat \ {0}
    BY <2>6, <2>7
  <2> QED
    BY <2>4, <2>7, <2>8
<1> QED
  BY <1>1, <1>2 DEF Orders

\* The order of an item of a menu once its folders have theirs.
LEMMA AssignedOrder ==
  ASSUME NEW menu \in Menus, AnchorsInOrder(menu), Cardinality(CustomFolders) < 1000,
         NEW i \in DOMAIN menu,
         NEW order, order = OrderOf(AssignCustomFolderOrders(menu), menu[i])
  PROVE  /\ order \in Nat
         /\ menu[i] \notin CustomFolders => menu[i] \in AllAnchors /\ order = MenuAnchorOrder[menu[i]]
         /\ menu[i] \in CustomFolders =>
              /\ order = GapStart(menu, i) + StepOf(GapStart(menu, i), GapEnd(menu, i), GroupSize(menu, i))
                                             * (i - GroupStart(menu, i) + 1)
              /\ GapStart(menu, i) < order /\ order < GapEnd(menu, i)
<1>1. CASE menu[i] \notin CustomFolders
  <2>0. menu[i] \in CustomFolders \cup AllAnchors
    BY DEF Menus
  <2>1. menu[i] \in AllAnchors /\ menu[i] \notin DOMAIN AssignCustomFolderOrders(menu)
    BY <1>1, <2>0, AssignedTyped
  <2> QED
    BY <1>1, <2>1, AnchorOrders DEF OrderOf
<1>2. CASE menu[i] \in CustomFolders
  <2> DEFINE start == GapStart(menu, i)
             end == GapEnd(menu, i)
             n == GroupSize(menu, i)
             k == i - GroupStart(menu, i) + 1
             step == StepOf(start, end, n)
  <2>1. order = start + step * k
    BY <1>2, AssignedNumber DEF OrderOf
  <2>2. start \in Nat /\ end \in Nat /\ start + 1000 <= end
    BY <1>2, GapIsWide
  <2>3. n \in Nat \ {0} /\ n < 1000
    <3>1. n \in Nat \ {0} /\ n <= Cardinality(CustomFolders)
      BY <1>2, GroupIsSmall
    <3>2. Cardinality(CustomFolders) \in Nat
      BY FolderOrderAssumption, FS_CardinalityType
    <3> QED
      BY <3>1, <3>2
  <2>4. k \in 1..n
    <3>1. GroupStart(menu, i) \in 1..i /\ GroupEnd(menu, i) \in i..Len(menu) /\ i \in Nat /\ Len(menu) \in Nat
      BY <1>2, GroupBounds DEF Menus
    <3> QED
      BY <3>1 DEF GroupSize
  <2>5. step \in Nat \ {0} /\ start < start + step * k /\ start + step * k < end
    BY <2>2, <2>3, <2>4, StepsStayInside
  <2> HIDE DEF k
  <2>6. k \in Nat /\ step * k \in Nat
    BY <2>4, <2>5
  <2> QED
    BY <1>2, <2>1, <2>2, <2>5, <2>6 DEF k
<1> QED
  BY <1>1, <1>2

\* The folders between two fixed items get orders between theirs, growing with their places.
LEMMA AssignedInOrder ==
  ASSUME Cardinality(CustomFolders) < 1000, NEW menu \in Menus, AnchorsInOrder(menu),
         NEW i \in DOMAIN menu, NEW j \in DOMAIN menu, i < j
  PROVE  LET orders == AssignCustomFolderOrders(menu) IN OrderOf(orders, menu[i]) < OrderOf(orders, menu[j])
<1> DEFINE order(p) == OrderOf(AssignCustomFolderOrders(menu), menu[p])
           custom(p) == menu[p] \in CustomFolders
<1>1. /\ Len(menu) \in Nat /\ DOMAIN menu = 1..Len(menu)
      /\ \A p \in DOMAIN menu : p \in Nat /\ order(p) \in Nat
      /\ \A p \in DOMAIN menu : ~custom(p) => menu[p] \in AllAnchors /\ order(p) = MenuAnchorOrder[menu[p]]
  BY AssignedOrder DEF Menus
<1>2. \A p \in DOMAIN menu : custom(p) => GapStart(menu, p) < order(p) /\ order(p) < GapEnd(menu, p)
  BY AssignedOrder
<1>3. \A p \in DOMAIN menu : custom(p) =>
         /\ GroupStart(menu, p) \in 1..p /\ GroupEnd(menu, p) \in p..Len(menu)
         /\ \A q \in GroupStart(menu, p)..GroupEnd(menu, p) : custom(q)
         /\ GroupStart(menu, p) = 1 \/ ~custom(GroupStart(menu, p) - 1)
         /\ GroupEnd(menu, p) = Len(menu) \/ ~custom(GroupEnd(menu, p) + 1)
  BY GroupBounds
<1>4. \A p, q \in DOMAIN menu : p < q /\ ~custom(p) /\ ~custom(q) => order(p) < order(q)
  BY <1>1 DEF AnchorsInOrder
<1> HIDE DEF order
<1>5. ASSUME NEW p \in DOMAIN menu, NEW q \in DOMAIN menu, p < q, ~custom(p), custom(q)
      PROVE  order(p) < order(q)
  <2> DEFINE s == GroupStart(menu, q)
  <2>1. s \in 1..q /\ p \in Nat /\ q \in Nat /\ GroupEnd(menu, q) \in q..Len(menu)
    BY <1>1, <1>3, <1>5
  <2>2. p < s
    BY <1>3, <1>5, <2>1
  <2>3. s # 1 /\ s - 1 \in DOMAIN menu /\ p <= s - 1 /\ ~custom(s - 1)
    BY <1>1, <1>3, <1>5, <2>1, <2>2
  <2>4. GapStart(menu, q) = order(s - 1)
    BY <1>1, <2>3 DEF GapStart
  <2>5. order(p) <= order(s - 1)
    BY <1>1, <1>4, <1>5, <2>1, <2>3
  <2> HIDE DEF s, custom
  <2> QED
    BY <1>1, <1>2, <1>5, <2>3, <2>4, <2>5
<1>6. ASSUME NEW p \in DOMAIN menu, NEW q \in DOMAIN menu, p < q, custom(p), ~custom(q)
      PROVE  order(p) < order(q)
  <2> DEFINE e == GroupEnd(menu, p)
  <2>1. e \in p..Len(menu) /\ p \in Nat /\ q \in Nat /\ GroupStart(menu, p) \in 1..p
    BY <1>1, <1>3, <1>6
  <2>2. e < q
    BY <1>3, <1>6, <2>1
  <2>3. e # Len(menu) /\ e + 1 \in DOMAIN menu /\ e + 1 <= q /\ ~custom(e + 1)
    BY <1>1, <1>3, <1>6, <2>1, <2>2
  <2>4. GapEnd(menu, p) = order(e + 1)
    BY <1>1, <2>3 DEF GapEnd
  <2>5. order(e + 1) <= order(q)
    BY <1>1, <1>4, <1>6, <2>1, <2>3
  <2> HIDE DEF e, custom
  <2> QED
    BY <1>1, <1>2, <1>6, <2>3, <2>4, <2>5
<1>7. CASE custom(i) /\ custom(j) /\ \A p \in i..j : custom(p)
  <2>1. GroupStart(menu, i) = GroupStart(menu, j) /\ GroupEnd(menu, i) = GroupEnd(menu, j)
    <3> DEFINE si == GroupStart(menu, i)
               sj == GroupStart(menu, j)
               ei == GroupEnd(menu, i)
               ej == GroupEnd(menu, j)
    <3>1. si \in 1..i /\ sj \in 1..j /\ ei \in i..Len(menu) /\ ej \in j..Len(menu) /\ i \in Nat /\ j \in Nat
      BY <1>1, <1>3, <1>7
    <3>2. (\A p \in si..ei : custom(p)) /\ (\A p \in sj..ej : custom(p))
      BY <1>3, <1>7
    <3>3. (si = 1 \/ ~custom(si - 1)) /\ (sj = 1 \/ ~custom(sj - 1))
      BY <1>3, <1>7
    <3>4. (ei = Len(menu) \/ ~custom(ei + 1)) /\ (ej = Len(menu) \/ ~custom(ej + 1))
      BY <1>3, <1>7
    <3> HIDE DEF si, sj, ei, ej, custom
    <3>5. \A p \in si..ej : custom(p)
      BY <1>1, <1>7, <3>1, <3>2
    <3>6. ~(si < sj)
      BY <3>1, <3>3, <3>5
    <3>7. ~(sj < si)
      BY <1>1, <3>1, <3>2, <3>3
    <3> DEFINE m == Len(menu)
    <3>a. /\ si \in Nat /\ sj \in Nat /\ ei \in Nat /\ ej \in Nat /\ m \in Nat /\ i < j
          /\ si <= i /\ i <= ei /\ ei <= m /\ sj <= j /\ j <= ej /\ ej <= m
          /\ (ei = m \/ ~custom(ei + 1)) /\ (ej = m \/ ~custom(ej + 1))
      <4>1. si \in Nat /\ si <= i /\ sj \in Nat /\ sj <= j
        BY <3>1
      <4>2. ei \in Nat /\ i <= ei /\ ei <= Len(menu)
        BY <1>1, <3>1
      <4>3. ej \in Nat /\ j <= ej /\ ej <= Len(menu)
        BY <1>1, <3>1
      <4>4. m \in Nat
        BY <1>1
      <4>5. (ei = m \/ ~custom(ei + 1)) /\ (ej = m \/ ~custom(ej + 1))
        BY <3>4
      <4> HIDE DEF m
      <4> QED
        BY <4>1, <4>2, <4>3, <4>4, <4>5 DEF m
    <3> HIDE DEF m
    <3>8. ~(ei < ej)
      <4> SUFFICES ASSUME ei < ej PROVE FALSE
        OBVIOUS
      <4>1. ei + 1 \in si..ej /\ ei # m
        BY <3>1, <3>a
      <4> QED
        BY <3>5, <3>a, <4>1
    <3>9. ~(ej < ei)
      <4> SUFFICES ASSUME ej < ei PROVE FALSE
        OBVIOUS
      <4>1. ej + 1 \in si..ei /\ ej # m
        BY <3>1, <3>a
      <4> QED
        BY <3>2, <3>a, <4>1
    <3> QED
      BY <1>1, <3>1, <3>6, <3>7, <3>8, <3>9 DEF si, sj, ei, ej
  <2> DEFINE start == GapStart(menu, i)
             end == GapEnd(menu, i)
             n == GroupSize(menu, i)
             step == StepOf(start, end, n)
             s == GroupStart(menu, i)
  <2>2. start = GapStart(menu, j) /\ n = GroupSize(menu, j) /\ end = GapEnd(menu, j)
    BY <2>1 DEF GapStart, GapEnd, GroupSize
  <2>3. order(i) = start + step * (i - s + 1) /\ order(j) = start + step * (j - s + 1)
    BY <1>7, <2>1, <2>2, AssignedOrder DEF order
  <2>4. start \in Nat /\ end \in Nat /\ start + 1000 <= end
    BY <1>7, GapIsWide
  <2>5. n \in Nat \ {0} /\ n < 1000
    <3>1. n \in Nat \ {0} /\ n <= Cardinality(CustomFolders)
      BY <1>7, GroupIsSmall
    <3>2. Cardinality(CustomFolders) \in Nat
      BY FolderOrderAssumption, FS_CardinalityType
    <3> QED
      BY <3>1, <3>2
  <2>6. i - s + 1 \in 1..n /\ j - s + 1 \in 1..n /\ i - s + 1 < j - s + 1
    <3>1. s \in 1..i /\ i \in Nat /\ j \in Nat /\ GroupEnd(menu, i) \in j..Len(menu)
      BY <1>1, <1>3, <1>7, <2>1
    <3> QED
      BY <1>1, <3>1 DEF GroupSize
  <2> HIDE DEF start, end, n, s, step
  <2>7. step \in Nat \ {0} /\ step * (i - s + 1) < step * (j - s + 1)
    BY <2>4, <2>5, <2>6, StepsStayInside DEF step
  <2>8. \A a, b \in Nat : start + a \in Nat /\ (a < b => start + a < start + b)
    BY <2>4
  <2>9. step * (i - s + 1) \in Nat /\ step * (j - s + 1) \in Nat
    BY <2>6, <2>7
  <2> QED
    BY <2>3, <2>7, <2>8, <2>9 DEF order
<1>8. CASE custom(i) /\ custom(j) /\ \E p \in i..j : ~custom(p)
  <2>1. PICK p \in i..j : ~custom(p)
    BY <1>8
  <2>2. p \in DOMAIN menu /\ i < p /\ p < j
    BY <1>1, <1>8, <2>1
  <2>3. order(i) < order(p) /\ order(p) < order(j)
    BY <1>5, <1>6, <1>8, <2>1, <2>2
  <2> QED
    BY <1>1, <2>2, <2>3 DEF order
<1> QED
  BY <1>4, <1>5, <1>6, <1>7, <1>8 DEF order

\* The sequence without one of its elements.
LEMMA TakenOut ==
  ASSUME NEW T, NEW s \in Seq(T), Distinct(s), NEW x \in Elements(s),
         NEW t, t = Without(s, x)
  PROVE  /\ t \in Seq(T) /\ Distinct(t) /\ Elements(t) = Elements(s) \ {x}
         /\ Len(t) = Len(s) - 1
         /\ \A i, j \in DOMAIN t : i < j =>
               \E k, l \in DOMAIN s : k < l /\ s[k] = t[i] /\ s[l] = t[j]
<1> DEFINE n == Len(s)
           p == Place(s, x)
           old(i) == IF i < p THEN i ELSE i + 1
<1>1. p \in DOMAIN s /\ s[p] = x /\ DOMAIN s = 1..n /\ n \in Nat
  BY PlaceOfElement
<1>a. p \in Nat /\ n \in Nat /\ 1 <= p /\ p <= n
  BY <1>1
<1>2. t = [i \in 1..n - 1 |-> s[old(i)]]
  <2>1. \A i : s[old(i)] = IF i < p THEN s[i] ELSE s[i + 1]
    OBVIOUS
  <2> QED
    BY <2>1 DEF Without
<1>3. \A i \in 1..n - 1 : old(i) \in 1..n /\ old(i) # p
  <2> TAKE i \in 1..n - 1
  <2>1. i \in Nat /\ 1 <= i /\ i + 1 <= n
    BY <1>a
  <2> HIDE DEF n, p
  <2> QED
    BY <1>a, <2>1
<1>4. \A i, j \in 1..n - 1 : i < j => old(i) < old(j)
  <2> HIDE DEF n, p
  <2> QED
    BY <1>a
<1>5. \A k \in 1..n : k # p => \E i \in 1..n - 1 : old(i) = k
  <2> TAKE k \in 1..n
  <2> HIDE DEF n, p
  <2>1. CASE k < p
    <3>1. k \in 1..n - 1 /\ old(k) = k
      BY <1>a, <2>1
    <3> QED
      BY <3>1
  <2>2. CASE k > p
    <3>1. k - 1 \in 1..n - 1 /\ old(k - 1) = k
      BY <1>a, <2>2
    <3> QED
      BY <3>1
  <2> QED
    BY <1>a, <2>1, <2>2
<1> HIDE DEF n, p, old
<1>6. n - 1 \in Nat
  BY <1>a
<1>7. t \in Seq(T) /\ Len(t) = n - 1 /\ DOMAIN t = 1..n - 1
  <2>1. \A i \in 1..n - 1 : s[old(i)] \in T
    BY <1>1, <1>3, ElementOfSeq DEF n
  <2>2. t \in [1..n - 1 -> T]
    BY <1>2, <2>1
  <2> QED
    BY <1>6, <2>2, SeqDef, LenProperties
<1>8. \A i \in 1..n - 1 : t[i] = s[old(i)] /\ old(i) \in DOMAIN s
  BY <1>1, <1>2, <1>3
<1>9. Elements(t) = Elements(s) \ {x}
  <2>1. ASSUME NEW i \in DOMAIN t PROVE t[i] \in Elements(s) \ {x}
    <3>1. t[i] = s[old(i)] /\ old(i) \in DOMAIN s /\ old(i) # p
      BY <1>3, <1>7, <1>8
    <3> QED
      BY <1>1, <3>1 DEF Elements, Distinct
  <2>2. ASSUME NEW k \in DOMAIN s, s[k] # x PROVE s[k] \in Elements(t)
    <3>1. PICK i \in 1..n - 1 : old(i) = k
      BY <1>1, <1>5, <2>2
    <3> QED
      BY <1>7, <1>8, <3>1 DEF Elements
  <2> QED
    BY <2>1, <2>2 DEF Elements
<1>10. ASSUME NEW i \in DOMAIN t, NEW j \in DOMAIN t, i < j
       PROVE  \E k, l \in DOMAIN s : k < l /\ s[k] = t[i] /\ s[l] = t[j]
  BY <1>4, <1>7, <1>8, <1>10
<1>11. Distinct(t)
  <2> SUFFICES ASSUME NEW i \in DOMAIN t, NEW j \in DOMAIN t, i < j PROVE t[i] # t[j]
    <3>1. \A i, j \in DOMAIN t : i < j \/ j < i \/ i = j
      BY <1>7
    <3> QED
      BY <3>1 DEF Distinct
  <2>1. old(i) < old(j) /\ old(i) \in DOMAIN s /\ old(j) \in DOMAIN s /\ t[i] = s[old(i)] /\ t[j] = s[old(j)]
    BY <1>4, <1>7, <1>8
  <2> QED
    BY <1>1, <2>1 DEF Distinct
<1> QED
  BY <1>7, <1>9, <1>10, <1>11 DEF n

\* The sequence with an element put in: the others keep their order.
LEMMA PutInside ==
  ASSUME NEW T, NEW s \in Seq(T), Distinct(s), NEW x \in T, x \notin Elements(s),
         NEW p \in 1..Len(s) + 1, NEW t, t = PutIn(s, p, x)
  PROVE  /\ t \in Seq(T) /\ Distinct(t) /\ Elements(t) = Elements(s) \cup {x}
         /\ \A i, j \in DOMAIN t : i < j /\ t[i] # x /\ t[j] # x =>
               \E k, l \in DOMAIN s : k < l /\ s[k] = t[i] /\ s[l] = t[j]
<1> DEFINE n == Len(s)
           old(i) == IF i < p THEN i ELSE i - 1
<1>1. n \in Nat /\ DOMAIN s = 1..n
  OBVIOUS
<1>a. p \in Nat /\ 1 <= p /\ p <= n + 1
  BY <1>1
<1>2. t = [i \in 1..n + 1 |-> IF i = p THEN x ELSE s[old(i)]]
  <2>1. \A i \in 1..n + 1 : (IF i < p THEN s[i] ELSE IF i = p THEN x ELSE s[i - 1])
                             = IF i = p THEN x ELSE s[old(i)]
    <3> HIDE DEF n
    <3> QED
      BY <1>1, <1>a
  <2> QED
    BY <2>1 DEF PutIn
<1> HIDE DEF n
<1>3. \A i \in 1..n + 1 : i # p => old(i) \in 1..n
  BY <1>1, <1>a
<1>4. \A i, j \in 1..n + 1 : i < j /\ i # p /\ j # p => old(i) < old(j)
  BY <1>1, <1>a
<1>5. \A k \in 1..n : \E i \in 1..n + 1 : i # p /\ old(i) = k
  <2> TAKE k \in 1..n
  <2>1. CASE k < p
    <3>1. k \in 1..n + 1 /\ k # p /\ old(k) = k
      BY <1>1, <1>a, <2>1
    <3> QED
      BY <3>1
  <2>2. CASE k >= p
    <3>1. k + 1 \in 1..n + 1 /\ k + 1 # p /\ old(k + 1) = k
      BY <1>1, <1>a, <2>2
    <3> QED
      BY <3>1
  <2> QED
    BY <1>a, <2>1, <2>2
<1> HIDE DEF old
<1>6. n + 1 \in Nat /\ p \in 1..n + 1
  BY <1>1, <1>a
<1>7. t \in Seq(T) /\ Len(t) = n + 1 /\ DOMAIN t = 1..n + 1
  <2>1. \A i \in 1..n : s[i] \in T
    BY <1>1, ElementOfSeq DEF n
  <2>2. t \in [1..n + 1 -> T]
    BY <1>2, <1>3, <2>1
  <2> QED
    BY <1>6, <2>2, SeqDef, LenProperties
<1>8. t[p] = x /\ \A i \in 1..n + 1 : i # p => t[i] = s[old(i)] /\ old(i) \in DOMAIN s /\ s[old(i)] # x
  <2>1. \A i \in 1..n + 1 : i # p => t[i] = s[old(i)] /\ old(i) \in DOMAIN s
    BY <1>1, <1>2, <1>3
  <2>2. t[p] = x
    BY <1>2, <1>6
  <2> QED
    BY <2>1, <2>2 DEF Elements
<1>9. Elements(t) = Elements(s) \cup {x}
  <2>1. ASSUME NEW i \in DOMAIN t PROVE t[i] \in Elements(s) \cup {x}
    BY <1>7, <1>8 DEF Elements
  <2>2. ASSUME NEW k \in DOMAIN s PROVE s[k] \in Elements(t)
    <3>1. PICK i \in 1..n + 1 : i # p /\ old(i) = k
      BY <1>1, <1>5, <2>2
    <3> QED
      BY <1>7, <1>8, <3>1 DEF Elements
  <2>3. x \in Elements(t)
    BY <1>6, <1>7, <1>8 DEF Elements
  <2> QED
    BY <2>1, <2>2, <2>3 DEF Elements
<1>10. ASSUME NEW i \in DOMAIN t, NEW j \in DOMAIN t, i < j, t[i] # x, t[j] # x
       PROVE  \E k, l \in DOMAIN s : k < l /\ s[k] = t[i] /\ s[l] = t[j]
  BY <1>4, <1>7, <1>8, <1>10
<1>11. Distinct(t)
  <2> SUFFICES ASSUME NEW i \in DOMAIN t, NEW j \in DOMAIN t, i < j PROVE t[i] # t[j]
    <3>1. \A i, j \in DOMAIN t : i < j \/ j < i \/ i = j
      BY <1>7
    <3> QED
      BY <3>1 DEF Distinct
  <2>1. CASE i = p \/ j = p
    <3>1. i # j
      BY <1>7
    <3> QED
      BY <1>7, <1>8, <2>1, <3>1
  <2>2. CASE i # p /\ j # p
    <3>1. old(i) < old(j) /\ old(i) \in DOMAIN s /\ old(j) \in DOMAIN s /\ t[i] = s[old(i)] /\ t[j] = s[old(j)]
      BY <1>4, <1>7, <1>8, <2>2
    <3> QED
      BY <1>1, <3>1 DEF Distinct
  <2> QED
    BY <2>1, <2>2
<1> QED
  BY <1>7, <1>9, <1>10, <1>11

\* The orders agree with a menu on every two items of it that they know.
Agrees(orders, menu) ==
    \A i, j \in DOMAIN menu : i < j /\ menu[i] \in Known(orders) /\ menu[j] \in Known(orders)
                              => Before(orders, menu[i], menu[j])

LEMMA SortedMenu ==
  ASSUME NEW orders \in Orders, NEW menu, menu = MailMenuItems(orders)
  PROVE  /\ menu \in Menus /\ AnchorsInOrder(menu)
         /\ Elements(menu) \cap CustomFolders = DOMAIN orders
         /\ Elements(menu) = Items(orders)
<1>1. /\ menu \in Seq(Items(orders)) /\ Elements(menu) = Items(orders) /\ Distinct(menu)
      /\ \A i, j \in DOMAIN menu : i < j => Before(orders, menu[i], menu[j])
  BY MenuIsSorted
<1>2. Items(orders) = DOMAIN orders \cup Anchors /\ DOMAIN orders \subseteq CustomFolders
  BY OrdersTyped DEF Items
<1>3. Anchors \subseteq AllAnchors /\ CustomFolders \cap AllAnchors = {}
  BY FolderOrderAssumption DEF Anchors, AllAnchors
<1>4. menu \in Menus
  <2>1. Seq(Items(orders)) \subseteq Seq(CustomFolders \cup AllAnchors)
    BY <1>2, <1>3
  <2> QED
    BY <1>1, <2>1 DEF Menus
<1>5. Elements(menu) \cap CustomFolders = DOMAIN orders
  BY <1>1, <1>2, <1>3
<1>6. ASSUME NEW i \in DOMAIN menu, NEW j \in DOMAIN menu, i < j, menu[i] \in AllAnchors, menu[j] \in AllAnchors
      PROVE  MenuAnchorOrder[menu[i]] < MenuAnchorOrder[menu[j]]
  <2>1. Before(orders, menu[i], menu[j])
    BY <1>1, <1>6
  <2>2. OrderOf(orders, menu[i]) = MenuAnchorOrder[menu[i]] /\ OrderOf(orders, menu[j]) = MenuAnchorOrder[menu[j]]
    BY <1>2, <1>3, <1>6 DEF OrderOf
  <2>3. menu[i] # menu[j]
    <3>1. i # j
      BY <1>4, <1>6 DEF Menus
    <3> QED
      BY <1>1, <3>1 DEF Distinct
  <2> QED
    BY <1>6, <2>1, <2>2, <2>3, AnchorOrders DEF Before
<1> QED
  BY <1>1, <1>4, <1>5, <1>6 DEF AnchorsInOrder

\* A folder taken out of the sorted menu and put in somewhere.
LEMMA Rearranged ==
  ASSUME NEW orders \in Orders, NEW f \in DOMAIN orders,
         NEW rest, rest = Without(MailMenuItems(orders), f), NEW p \in 1..Len(rest) + 1,
         NEW menu, menu = PutIn(rest, p, f)
  PROVE  /\ menu \in Menus /\ AnchorsInOrder(menu)
         /\ Elements(menu) \cap CustomFolders = DOMAIN orders
<1> DEFINE old == MailMenuItems(orders)
           T == CustomFolders \cup AllAnchors
<1>1. /\ old \in Seq(T) /\ Distinct(old) /\ AnchorsInOrder(old)
      /\ Elements(old) \cap CustomFolders = DOMAIN orders
  BY SortedMenu DEF Menus
<1> HIDE DEF old
<1>2. f \in Elements(old) /\ f \in CustomFolders /\ f \in T /\ f \notin AllAnchors
  BY <1>1, FolderOrderAssumption
<1>3. rest = Without(old, f)
  BY DEF old
<1> HIDE DEF T
<1>4. /\ rest \in Seq(T) /\ Distinct(rest) /\ Elements(rest) = Elements(old) \ {f}
      /\ \A i, j \in DOMAIN rest : i < j =>
            \E k, l \in DOMAIN old : k < l /\ old[k] = rest[i] /\ old[l] = rest[j]
  BY <1>1, <1>2, <1>3, TakenOut
<1>5. f \notin Elements(rest)
  BY <1>4
<1>6. /\ menu \in Seq(T) /\ Distinct(menu) /\ Elements(menu) = Elements(rest) \cup {f}
      /\ \A i, j \in DOMAIN menu : i < j /\ menu[i] # f /\ menu[j] # f =>
            \E k, l \in DOMAIN rest : k < l /\ rest[k] = menu[i] /\ rest[l] = menu[j]
  BY <1>2, <1>4, <1>5, PutInside
<1>7. ASSUME NEW i \in DOMAIN menu, NEW j \in DOMAIN menu, i < j, menu[i] \in AllAnchors, menu[j] \in AllAnchors
      PROVE  MenuAnchorOrder[menu[i]] < MenuAnchorOrder[menu[j]]
  <2>1. PICK k, l \in DOMAIN rest : k < l /\ rest[k] = menu[i] /\ rest[l] = menu[j]
    BY <1>2, <1>6, <1>7
  <2>2. PICK a, b \in DOMAIN old : a < b /\ old[a] = rest[k] /\ old[b] = rest[l]
    BY <1>4, <2>1
  <2> QED
    BY <1>1, <1>7, <2>1, <2>2 DEF AnchorsInOrder
<1>8. Elements(menu) \cap CustomFolders = DOMAIN orders
  BY <1>1, <1>2, <1>4, <1>6
<1> QED
  BY <1>6, <1>7, <1>8 DEF Menus, AnchorsInOrder, T

\* The orders given to a menu's folders keep the menu.
LEMMA AssignedAgrees ==
  ASSUME Cardinality(CustomFolders) < 1000, NEW menu \in Menus, AnchorsInOrder(menu)
  PROVE  Agrees(AssignCustomFolderOrders(menu), menu)
<1> SUFFICES ASSUME NEW i \in DOMAIN menu, NEW j \in DOMAIN menu, i < j
             PROVE  Before(AssignCustomFolderOrders(menu), menu[i], menu[j])
  BY DEF Agrees
<1>1. OrderOf(AssignCustomFolderOrders(menu), menu[i]) < OrderOf(AssignCustomFolderOrders(menu), menu[j])
  BY AssignedInOrder
<1> QED
  BY <1>1 DEF Before

\* Agreement only speaks of orders the menu's items have.
LEMMA AgreesOnTheRest ==
  ASSUME NEW orders, NEW menu \in Menus, NEW x, NEW rest, rest = IF x \in Elements(menu) THEN Without(menu, x) ELSE menu
  PROVE  /\ rest \in Menus /\ Elements(rest) = Elements(menu) \ {x}
         /\ Agrees(orders, menu) => Agrees(orders, rest)
<1>1. CASE x \in Elements(menu)
  <2>1. /\ rest \in Menus /\ Elements(rest) = Elements(menu) \ {x}
        /\ \A i, j \in DOMAIN rest : i < j =>
              \E k, l \in DOMAIN menu : k < l /\ menu[k] = rest[i] /\ menu[l] = rest[j]
    BY <1>1, TakenOut DEF Menus
  <2>2. ASSUME Agrees(orders, menu), NEW i \in DOMAIN rest, NEW j \in DOMAIN rest, i < j,
               rest[i] \in Known(orders), rest[j] \in Known(orders)
        PROVE  Before(orders, rest[i], rest[j])
    <3>1. PICK k, l \in DOMAIN menu : k < l /\ menu[k] = rest[i] /\ menu[l] = rest[j]
      BY <2>1, <2>2
    <3> QED
      BY <2>2, <3>1 DEF Agrees
  <2> QED
    BY <2>1, <2>2 DEF Agrees
<1>2. CASE x \notin Elements(menu)
  BY <1>2
<1> QED
  BY <1>1, <1>2

LEMMA AgreesWithSame ==
  ASSUME NEW orders, NEW new, NEW menu, Agrees(orders, menu),
         \A x \in Elements(menu) : x \in DOMAIN new => x \in DOMAIN orders /\ new[x] = orders[x],
         Elements(menu) \cap DOMAIN orders \cap AllAnchors = {}
  PROVE  Agrees(new, menu)
<1> SUFFICES ASSUME NEW i \in DOMAIN menu, NEW j \in DOMAIN menu, i < j, menu[i] \in Known(new), menu[j] \in Known(new)
             PROVE  Before(new, menu[i], menu[j])
  BY DEF Agrees
<1>1. \A x \in Elements(menu) : x \in Known(new) => x \in Known(orders) /\ OrderOf(new, x) = OrderOf(orders, x)
  BY DEF Known, OrderOf
<1>2. menu[i] \in Elements(menu) /\ menu[j] \in Elements(menu)
  BY DEF Elements
<1>3. Before(orders, menu[i], menu[j])
  BY <1>1, <1>2 DEF Agrees
<1> QED
  BY <1>1, <1>2, <1>3 DEF Before

Reorders ==
    {NoReorder} \cup [items : Orders, previous : Orders, phase : {"asked", "served"}]
OrdersTypes ==
    /\ sortOrder \in Orders /\ folderCache \in Orders /\ folderFetch \subseteq Orders
    /\ reorder \in Reorders /\ dropped \in Menus

\* The orders know the folders of the last drop, and agree with it.
Keeps(orders) ==
    /\ Agrees(orders, dropped)
    /\ Elements(dropped) \cap CustomFolders \subseteq DOMAIN orders

\* The last drop is in the request until the server has served it, then with the server and in
\* every answer to come; once there is none, in the cache.
DropIsRemembered ==
    ~foreign =>
      /\ reorder.phase = "asked" => Keeps(reorder.items)
      /\ reorder.phase # "asked" => Keeps(sortOrder)
      /\ reorder = NoReorder => /\ \A answer \in folderFetch : Agrees(answer, dropped)
                                /\ folderFetch = {} => Agrees(folderCache, dropped)

\* With 1000 folders between two fixed items, steps of at least 1 would lead past the next of them.
Few == Cardinality(CustomFolders) < 1000
DropInv == OrdersTypes /\ (Few => DropIsRemembered)

LEMMA ReorderPhases ==
  ASSUME OrdersTypes
  PROVE  /\ reorder = NoReorder <=> reorder.phase = "none"
         /\ reorder # NoReorder => /\ reorder \in [items : Orders, previous : Orders, phase : {"asked", "served"}]
                                   /\ reorder.items \in Orders /\ reorder.previous \in Orders
                                   /\ reorder.phase \in {"asked", "served"}
  BY DEF OrdersTypes, Reorders, NoReorder

LEMMA NothingDropped ==
  /\ <<>> \in Menus /\ Elements(<<>>) = {}
  /\ \A orders : Agrees(orders, <<>>)
  BY DEF Menus, Distinct, Elements, Agrees

LEMMA DropInvInit == FolderOrderInit => DropInv
<1> SUFFICES ASSUME FolderOrderInit PROVE DropInv
  OBVIOUS
<1> USE DEF FolderOrderInit
<1>1. \A f \in CustomFolders : BaseOrder + Place(ByLabel, f) \in Nat \ {0}
  BY LabelPlaces DEF BaseOrder
<1>2. sortOrder \in Orders
  BY <1>1 DEF Orders
<1>3. Keeps(sortOrder)
  BY NothingDropped DEF Keeps
<1> QED
  BY <1>2, <1>3, NothingDropped DEF DropInv, OrdersTypes, DropIsRemembered, Reorders, Keeps, NoReorder

LEMMA DropBeforeKeeps ==
  ASSUME DropInv, NEW f, NEW p, DropBefore(f, p)
  PROVE  DropInv'
<1> DEFINE rest == Without(MailMenuItems(folderCache), f)
           menu == PutIn(rest, p, f)
           items == AssignCustomFolderOrders(menu)
<1>1. /\ f \in DOMAIN folderCache /\ p \in 1..Len(rest) + 1
      /\ reorder' = [items |-> items, previous |-> folderCache, phase |-> "asked"]
      /\ folderCache' = [g \in DOMAIN folderCache |-> reorder'.items[g]]
      /\ folderFetch' = {} /\ dropped' = menu /\ sortOrder' = sortOrder
  BY DEF DropBefore
<1>2. folderCache \in Orders /\ sortOrder \in Orders
  BY DEF DropInv, OrdersTypes
<1>3. menu \in Menus /\ AnchorsInOrder(menu) /\ Elements(menu) \cap CustomFolders = DOMAIN folderCache
  <2> HIDE DEF rest, menu
  <2> QED
    BY <1>1, <1>2, Rearranged DEF rest, menu
<1> HIDE DEF menu, rest
<1>4. items \in Orders /\ DOMAIN items = DOMAIN folderCache /\ (Few => Agrees(items, menu))
  BY <1>3, AssignedTyped, AssignedAgrees DEF Few
<1> HIDE DEF items
<1>5. reorder'.items = items /\ reorder'.phase = "asked"
  BY <1>1
<1>6. folderCache' \in Orders
  BY <1>1, <1>2, <1>4, <1>5, OrdersTyped DEF Orders
<1>7. OrdersTypes'
  BY <1>1, <1>2, <1>3, <1>4, <1>6 DEF OrdersTypes, Reorders
<1>8. (Few => Agrees(reorder'.items, dropped')) /\ Elements(dropped') \cap CustomFolders = DOMAIN reorder'.items
  BY <1>1, <1>3, <1>4, <1>5
<1>9. Few => Keeps(reorder.items)'
  BY <1>8 DEF Keeps
<1> QED
  BY <1>5, <1>7, <1>9 DEF DropInv, DropIsRemembered, NoReorder


LEMMA LargestOf ==
  ASSUME NEW T \in SUBSET Nat, IsFiniteSet(T), T # {}
  PROVE  \E x \in T : \A y \in T : y <= x
<1> DEFINE Above(x) == {y \in T : y > x}
           sizes == {Cardinality(Above(x)) : x \in T}
<1>1. \A x \in T : IsFiniteSet(Above(x)) /\ Cardinality(Above(x)) \in Nat
  BY FS_Subset, FS_CardinalityType
<1>2. sizes \in SUBSET Nat /\ sizes # {}
  BY <1>1
<1>3. PICK c \in sizes : \A d \in sizes : c <= d
  <2> HIDE DEF sizes
  <2> QED
    BY <1>2, Least
<1>4. PICK x \in T : c = Cardinality(Above(x))
  OBVIOUS
<1>5. ASSUME NEW z \in T, z > x PROVE FALSE
  <2>0. x \in Nat /\ z \in Nat /\ \A y \in T : y \in Nat
    OBVIOUS
  <2>a. \A y \in Nat : y > z => y > x
    BY <1>5, <2>0
  <2>b. z \in Above(x)
    BY <1>5
  <2>c. z \notin Above(z)
    BY <2>0
  <2>1. Above(z) \in SUBSET Above(x) /\ z \in Above(x) /\ z \notin Above(z)
    <3>1. \A y \in T : y > z => y > x
      BY <2>0, <2>a
    <3>2. Above(z) \in SUBSET Above(x)
      BY <3>1
    <3> HIDE DEF Above
    <3> QED
      BY <2>b, <2>c, <3>2
  <2>2. Cardinality(Above(z)) <= Cardinality(Above(x)) /\ Cardinality(Above(z)) # Cardinality(Above(x))
    <3> HIDE DEF Above
    <3> QED
      BY <1>1, <2>1, FS_Subset
  <2> DEFINE a == Cardinality(Above(x))
             b == Cardinality(Above(z))
  <2>3. a <= b /\ b <= a /\ b # a
    BY <1>3, <1>4, <2>2
  <2>4. a \in Nat /\ b \in Nat
    BY <1>1
  <2> HIDE DEF a, b
  <2> QED
    BY <2>3, <2>4
<1> QED
  BY <1>4, <1>5

LEMMA NewOrderTyped ==
  ASSUME OrdersTypes, NEW f \in CustomFolders, CreateFolder(f)
  PROVE  /\ sortOrder' \in Orders /\ DOMAIN sortOrder' = DOMAIN sortOrder \cup {f}
         /\ f \notin DOMAIN sortOrder
         /\ \A g \in DOMAIN sortOrder : sortOrder'[g] = sortOrder[g]
<1> DEFINE held == {sortOrder[g] : g \in DOMAIN sortOrder}
           last == held \cup {BaseOrder}
           most == CHOOSE n \in last : \A k \in last : k <= n
           place == [g \in DOMAIN sortOrder |-> sortOrder[g]]
<1>0. /\ sortOrder \in Orders /\ DOMAIN sortOrder \subseteq CustomFolders
      /\ \A g \in DOMAIN sortOrder : sortOrder[g] \in Nat \ {0}
  BY OrdersTyped DEF OrdersTypes
<1>1. IsFiniteSet(held)
  <2>1. IsFiniteSet(DOMAIN sortOrder)
    BY <1>0, FolderOrderAssumption, FS_Subset
  <2>2. place \in Surjection(DOMAIN sortOrder, held)
    BY DEF Surjection
  <2> HIDE DEF place
  <2> QED
    BY <2>1, <2>2, FS_Surjection
<1>2. last \in SUBSET Nat /\ IsFiniteSet(last) /\ last # {}
  <2>1. held \in SUBSET Nat
    BY <1>0
  <2> HIDE DEF held
  <2> QED
    BY <1>1, <2>1, FS_AddElement DEF BaseOrder
<1>3. most \in Nat
  <2> HIDE DEF held
  <2> QED
    BY <1>2, LargestOf
<1>4. /\ f \notin DOMAIN sortOrder
      /\ sortOrder' = [g \in DOMAIN sortOrder \cup {f} |-> IF g = f THEN 1 + most ELSE sortOrder[g]]
  BY DEF CreateFolder
<1> HIDE DEF most
<1>5. sortOrder' \in [DOMAIN sortOrder \cup {f} -> Nat \ {0}]
  BY <1>0, <1>3, <1>4
<1> QED
  BY <1>0, <1>4, <1>5 DEF Orders

LEMMA CreateFolderKeeps ==
  ASSUME DropInv, NEW f \in CustomFolders, CreateFolder(f)
  PROVE  DropInv'
<1>1. /\ folderFetch' \in {folderFetch, {sortOrder'}}
      /\ UNCHANGED <<folderCache, reorder, dropped, foreign>>
  BY DEF CreateFolder
<1>2. /\ sortOrder' \in Orders /\ DOMAIN sortOrder' = DOMAIN sortOrder \cup {f} /\ f \notin DOMAIN sortOrder
      /\ \A g \in DOMAIN sortOrder : sortOrder'[g] = sortOrder[g]
  BY NewOrderTyped DEF DropInv
<1>3. OrdersTypes'
  BY <1>1, <1>2 DEF DropInv, OrdersTypes
<1>4. sortOrder \in Orders /\ DOMAIN sortOrder \subseteq CustomFolders /\ CustomFolders \cap AllAnchors = {}
  BY OrdersTyped, FolderOrderAssumption DEF DropInv, OrdersTypes
<1>5. ASSUME Keeps(sortOrder) PROVE Keeps(sortOrder')
  <2>1. \A x \in Elements(dropped) : x \in DOMAIN sortOrder' => x \in DOMAIN sortOrder /\ sortOrder'[x] = sortOrder[x]
    BY <1>2, <1>5 DEF Keeps
  <2>2. Agrees(sortOrder', dropped)
    BY <1>4, <1>5, <2>1, AgreesWithSame DEF Keeps
  <2> QED
    BY <1>2, <1>5, <2>2 DEF Keeps
<1>6. ASSUME Few, ~foreign PROVE reorder.phase # "asked" => Keeps(sortOrder)'
  <2>1. reorder.phase # "asked" => Keeps(sortOrder')
    BY <1>5, <1>6 DEF DropInv, DropIsRemembered
  <2> QED
    BY <1>1, <2>1 DEF Keeps
<1>7. ASSUME Few, ~foreign PROVE reorder.phase = "asked" => Keeps(reorder.items)'
  BY <1>1, <1>7 DEF DropInv, DropIsRemembered, Keeps
<1>8. ASSUME Few, ~foreign, reorder = NoReorder
      PROVE  /\ \A answer \in folderFetch' : Agrees(answer, dropped)
             /\ folderFetch' = {} => Agrees(folderCache, dropped)
  BY <1>1, <1>5, <1>8 DEF DropInv, DropIsRemembered, Keeps, NoReorder
<1> QED
  BY <1>1, <1>3, <1>6, <1>7, <1>8 DEF DropInv, DropIsRemembered, NoReorder

LEMMA DeleteFolderKeeps ==
  ASSUME DropInv, NEW f \in CustomFolders, DeleteFolder(f)
  PROVE  DropInv'
<1>1. /\ folderFetch' \in {folderFetch, {sortOrder'}}
      /\ sortOrder' = [g \in DOMAIN sortOrder \ {f} |-> sortOrder[g]]
      /\ dropped' = IF f \in Elements(dropped) THEN Without(dropped, f) ELSE dropped
      /\ UNCHANGED <<folderCache, reorder, foreign>>
  BY DEF DeleteFolder
<1>2. sortOrder \in Orders /\ DOMAIN sortOrder \subseteq CustomFolders /\ CustomFolders \cap AllAnchors = {}
  BY OrdersTyped, FolderOrderAssumption DEF DropInv, OrdersTypes
<1>3. sortOrder' \in Orders /\ DOMAIN sortOrder' = DOMAIN sortOrder \ {f}
  BY <1>1, <1>2, OrdersTyped DEF Orders
<1>4. /\ dropped' \in Menus /\ Elements(dropped') = Elements(dropped) \ {f}
      /\ \A orders : Agrees(orders, dropped) => Agrees(orders, dropped')
  BY <1>1, AgreesOnTheRest DEF DropInv, OrdersTypes
<1>5. OrdersTypes'
  BY <1>1, <1>3, <1>4 DEF DropInv, OrdersTypes
<1>6. ASSUME Keeps(sortOrder)
      PROVE  Agrees(sortOrder', dropped') /\ Elements(dropped') \cap CustomFolders \subseteq DOMAIN sortOrder'
  <2>1. Agrees(sortOrder, dropped')
    BY <1>4, <1>6 DEF Keeps
  <2>2. Agrees(sortOrder', dropped')
    BY <1>1, <1>2, <1>3, <2>1, AgreesWithSame
  <2> QED
    BY <1>3, <1>4, <1>6, <2>2 DEF Keeps
<1>7. ASSUME Few, ~foreign PROVE reorder.phase # "asked" => Keeps(sortOrder)'
  BY <1>6, <1>7 DEF DropInv, DropIsRemembered, Keeps
<1>8. ASSUME Few, ~foreign PROVE reorder.phase = "asked" => Keeps(reorder.items)'
  BY <1>1, <1>4, <1>8 DEF DropInv, DropIsRemembered, Keeps
<1>9. ASSUME Few, ~foreign, reorder = NoReorder
      PROVE  /\ \A answer \in folderFetch' : Agrees(answer, dropped')
             /\ folderFetch' = {} => Agrees(folderCache, dropped')
  BY <1>1, <1>4, <1>6, <1>9 DEF DropInv, DropIsRemembered, NoReorder
<1> QED
  BY <1>1, <1>5, <1>7, <1>8, <1>9 DEF DropInv, DropIsRemembered, NoReorder

LEMMA ArrangedElsewhereKeeps ==
  ASSUME DropInv, ArrangedElsewhere
  PROVE  DropInv'
<1>1. PICK f \in DOMAIN sortOrder :
         sortOrder' = AssignCustomFolderOrders(PutIn(Without(MailMenuItems(sortOrder), f), 1, f))
  BY DEF ArrangedElsewhere
<1> DEFINE rest == Without(MailMenuItems(sortOrder), f)
           menu == PutIn(rest, 1, f)
<1>2. sortOrder \in Orders
  BY DEF DropInv, OrdersTypes
<1>3. 1 \in 1..Len(rest) + 1
  <2>1. MailMenuItems(sortOrder) \in Menus /\ f \in Elements(MailMenuItems(sortOrder))
    BY <1>2, SortedMenu
  <2>2. rest \in Seq(CustomFolders \cup AllAnchors)
    BY <2>1, TakenOut DEF Menus
  <2> HIDE DEF rest
  <2>3. Len(rest) \in Nat
    BY <2>2
  <2> QED
    BY <2>3
<1>4. menu \in Menus
  <2> HIDE DEF rest, menu
  <2> QED
    BY <1>2, <1>3, Rearranged DEF rest, menu
<1>5. sortOrder' \in Orders
  <2>1. sortOrder' = AssignCustomFolderOrders(menu)
    BY <1>1
  <2> HIDE DEF menu
  <2> QED
    BY <1>4, <2>1, AssignedTyped
<1>6. foreign' = TRUE /\ UNCHANGED <<folderCache, folderFetch, reorder, dropped>>
  BY DEF ArrangedElsewhere
<1> HIDE DEF menu, rest
<1> QED
  BY <1>5, <1>6 DEF DropInv, OrdersTypes, DropIsRemembered

LEMMA ReorderServedKeeps ==
  ASSUME DropInv, ReorderServed
  PROVE  DropInv'
<1>1. /\ reorder.phase = "asked" /\ sortOrder' = reorder.items
      /\ reorder' = [reorder EXCEPT !.phase = "served"]
      /\ UNCHANGED <<folderCache, folderFetch, dropped, foreign>>
  BY DEF ReorderServed
<1>2. reorder \in [items : Orders, previous : Orders, phase : {"asked", "served"}] /\ reorder.items \in Orders
  BY <1>1, ReorderPhases DEF DropInv, NoReorder
<1>3. /\ reorder' \in [items : Orders, previous : Orders, phase : {"asked", "served"}]
      /\ reorder'.phase = "served" /\ reorder' # NoReorder
  BY <1>1, <1>2 DEF NoReorder
<1>4. OrdersTypes'
  BY <1>1, <1>2, <1>3 DEF DropInv, OrdersTypes, Reorders
<1>5. ASSUME Few, ~foreign PROVE Keeps(sortOrder)'
  BY <1>1, <1>5 DEF DropInv, DropIsRemembered, Keeps
<1> QED
  BY <1>1, <1>3, <1>4, <1>5 DEF DropInv, DropIsRemembered

LEMMA ReorderAnsweredKeeps ==
  ASSUME DropInv, ReorderAnswered
  PROVE  DropInv'
<1>1. /\ reorder.phase = "served" /\ reorder' = NoReorder /\ folderFetch' = {sortOrder}
      /\ UNCHANGED <<sortOrder, folderCache, dropped, foreign>>
  BY DEF ReorderAnswered
<1>2. OrdersTypes'
  BY <1>1 DEF DropInv, OrdersTypes, Reorders
<1>3. ASSUME Few, ~foreign PROVE Keeps(sortOrder) /\ Keeps(sortOrder)'
  BY <1>1, <1>3 DEF DropInv, DropIsRemembered, Keeps
<1> QED
  BY <1>1, <1>2, <1>3 DEF DropInv, DropIsRemembered, Keeps, NoReorder

LEMMA ReorderFailsKeeps ==
  ASSUME DropInv, ReorderFails
  PROVE  DropInv'
<1>1. /\ reorder # NoReorder /\ folderCache' = reorder.previous
      /\ reorder' = NoReorder /\ folderFetch' = {sortOrder} /\ dropped' = <<>>
      /\ UNCHANGED <<sortOrder, foreign>>
  BY DEF ReorderFails
<1>2. reorder.previous \in Orders
  BY <1>1, ReorderPhases DEF DropInv
<1>3. OrdersTypes'
  BY <1>1, <1>2, NothingDropped DEF DropInv, OrdersTypes, Reorders
<1>4. Keeps(sortOrder)'
  BY <1>1, NothingDropped DEF Keeps
<1>5. Agrees(sortOrder, dropped')
  BY <1>1, NothingDropped
<1> QED
  BY <1>1, <1>3, <1>4, <1>5 DEF DropInv, DropIsRemembered, NoReorder

LEMMA FoldersAskedKeeps ==
  ASSUME DropInv, FoldersAsked
  PROVE  DropInv'
<1>1. folderFetch' = {sortOrder} /\ UNCHANGED <<sortOrder, folderCache, reorder, dropped, foreign>>
  BY DEF FoldersAsked
<1>2. OrdersTypes'
  BY <1>1 DEF DropInv, OrdersTypes
<1> QED
  BY <1>1, <1>2 DEF DropInv, DropIsRemembered, Keeps, NoReorder

LEMMA FoldersAnsweredKeeps ==
  ASSUME DropInv, FoldersAnswered
  PROVE  DropInv'
<1>1. /\ folderCache' \in folderFetch /\ folderFetch' = {}
      /\ UNCHANGED <<sortOrder, reorder, dropped, foreign>>
  BY DEF FoldersAnswered
<1>2. OrdersTypes'
  BY <1>1 DEF DropInv, OrdersTypes
<1> QED
  BY <1>1, <1>2 DEF DropInv, DropIsRemembered, Keeps, NoReorder

LEMMA SameOrdersKeep ==
  ASSUME DropInv, UNCHANGED <<sortOrder, folderCache, folderFetch, reorder, dropped, foreign>>
  PROVE  DropInv'
BY DEF DropInv, OrdersTypes, DropIsRemembered, Keeps, NoReorder

LEMMA StepKeepsDropInv ==
  ASSUME DropInv, FolderOrderNext \/ UNCHANGED folderOrder
  PROVE  DropInv'
<1>1. CASE \E f \in CustomFolders : MoveSidebarFolder(f)
  BY <1>1, DropBeforeKeeps DEF MoveSidebarFolder
<1>2. CASE \E f \in CustomFolders : HandleFolderDrop(f)
  BY <1>2, DropBeforeKeeps, SameOrdersKeep DEF HandleFolderDrop
<1>3. CASE \E f \in CustomFolders : HandleFolderDragStart(f)
  BY <1>3, SameOrdersKeep DEF HandleFolderDragStart
<1>4. CASE \E f \in CustomFolders : CreateFolder(f) \/ DeleteFolder(f)
  BY <1>4, CreateFolderKeeps, DeleteFolderKeeps
<1>5. CASE ReorderServed \/ ReorderAnswered \/ ReorderFails
  BY <1>5, ReorderServedKeeps, ReorderAnsweredKeeps, ReorderFailsKeeps
<1>6. CASE FoldersAsked \/ FoldersAnswered \/ ArrangedElsewhere
  BY <1>6, FoldersAskedKeeps, FoldersAnsweredKeeps, ArrangedElsewhereKeeps
<1>7. CASE SendQueueCounted
  BY <1>7, SameOrdersKeep DEF SendQueueCounted
<1>8. CASE UNCHANGED folderOrder
  BY <1>8, SameOrdersKeep DEF folderOrder
<1> QED
  BY <1>1, <1>2, <1>3, <1>4, <1>5, <1>6, <1>7, <1>8 DEF FolderOrderNext

LEMMA AgreementKeepsDrop == DropInv /\ Few => DropIsKept
<1> SUFFICES ASSUME DropInv, Few, reorder = NoReorder, folderFetch = {}, ~foreign,
                    NEW x \in Elements(dropped), NEW y \in Elements(dropped),
                    {x, y} \subseteq Elements(MailMenuItems(folderCache)),
                    Place(dropped, x) < Place(dropped, y)
             PROVE  Place(MailMenuItems(folderCache), x) < Place(MailMenuItems(folderCache), y)
  BY DEF DropIsKept
<1> DEFINE menu == MailMenuItems(folderCache)
<1>1. folderCache \in Orders /\ Agrees(folderCache, dropped)
  BY DEF DropInv, OrdersTypes, DropIsRemembered
<1>2. /\ menu \in Seq(Items(folderCache)) /\ Elements(menu) = Items(folderCache)
      /\ \A i, j \in DOMAIN menu : i < j => Before(folderCache, menu[i], menu[j])
      /\ Items(folderCache) \subseteq Known(folderCache)
  BY <1>1, MenuIsSorted, ItemsAreFinite
<1> HIDE DEF menu
<1>3. x \in Known(folderCache) /\ y \in Known(folderCache) /\ x \in Elements(menu) /\ y \in Elements(menu)
  BY <1>2 DEF menu
<1>4. Before(folderCache, x, y)
  BY <1>1, <1>3, PlaceOfElement DEF Agrees
<1>5. /\ Place(menu, x) \in DOMAIN menu /\ menu[Place(menu, x)] = x
      /\ Place(menu, y) \in DOMAIN menu /\ menu[Place(menu, y)] = y
  BY <1>3, PlaceOfElement
<1>6. ~(Place(menu, y) < Place(menu, x)) /\ Place(menu, y) # Place(menu, x)
  BY <1>1, <1>2, <1>3, <1>4, <1>5, BeforeOrders
<1>7. Place(menu, x) \in Nat /\ Place(menu, y) \in Nat
  BY <1>2, <1>5
<1> QED
  BY <1>6, <1>7 DEF menu

\* One answer to come at most, and one folder dragged.
One(S) == S = {} \/ \E x \in S : S = {x}
OneEach == One(folderFetch) /\ One(dragging)

LEMMA InitOneEach == FolderOrderInit => OneEach
  BY DEF FolderOrderInit, OneEach, One

LEMMA StepKeepsOneEach ==
  ASSUME OneEach, FolderOrderNext \/ UNCHANGED folderOrder
  PROVE  OneEach'
<1> USE DEF OneEach, One
<1>1. ASSUME NEW f, NEW p, DropBefore(f, p) PROVE folderFetch' = {}
  BY <1>1 DEF DropBefore
<1>2. CASE \E f \in CustomFolders : MoveSidebarFolder(f)
  BY <1>1, <1>2 DEF MoveSidebarFolder
<1>3. CASE \E f \in CustomFolders : HandleFolderDrop(f) \/ HandleFolderDragStart(f)
  BY <1>1, <1>3 DEF HandleFolderDrop, HandleFolderDragStart
<1>4. CASE \E f \in CustomFolders : CreateFolder(f) \/ DeleteFolder(f)
  BY <1>4 DEF CreateFolder, DeleteFolder
<1>5. CASE ReorderServed \/ ReorderAnswered \/ ReorderFails
  BY <1>5 DEF ReorderServed, ReorderAnswered, ReorderFails
<1>6. CASE FoldersAsked \/ FoldersAnswered \/ ArrangedElsewhere \/ SendQueueCounted
  BY <1>6 DEF FoldersAsked, FoldersAnswered, ArrangedElsewhere, SendQueueCounted
<1>7. CASE UNCHANGED folderOrder
  BY <1>7 DEF folderOrder
<1> QED
  BY <1>2, <1>3, <1>4, <1>5, <1>6, <1>7 DEF FolderOrderNext

LEMMA OrdersAreTyped == DropInv /\ OneEach => FolderOrderTypeOK
<1> SUFFICES ASSUME DropInv, OneEach PROVE FolderOrderTypeOK
  OBVIOUS
<1>1. /\ DOMAIN sortOrder \subseteq CustomFolders /\ DOMAIN folderCache \subseteq CustomFolders
      /\ \A f \in DOMAIN sortOrder : sortOrder[f] > 0
  BY OrdersTyped DEF DropInv, OrdersTypes
<1>2. reorder.phase \in {"none", "asked", "served"}
  BY ReorderPhases DEF DropInv
<1>3. ASSUME NEW S, One(S) PROVE Cardinality(S) <= 1
  <2>1. Cardinality(S) = 0 \/ Cardinality(S) = 1
    BY <1>3, FS_EmptySet, FS_Singleton, Zenon DEF One
  <2> QED
    BY <2>1
<1>4. Cardinality(folderFetch) <= 1 /\ Cardinality(dragging) <= 1
  BY <1>3 DEF OneEach
<1> QED
  BY <1>1, <1>2, <1>4 DEF FolderOrderTypeOK

------------------------------------------------------------------------------
(* The types of the parts *)

\* The rest of the session: where it is, and what is counted.
SessionPlaced ==
    /\ route \in Guarded \cup Public /\ challenge \in SomebodyOrNot
    /\ leaving \in {"none", "asked", "done"}
    /\ overlaid \in BOOLEAN /\ logins \in 0..MaxLogins /\ trouble \in 0..MaxTrouble

LEMMA InitSessionPlaced == SessionInit => SessionPlaced
<1> SUFFICES ASSUME NEW c \in SomebodyOrNot, NEW r \in Guarded \cup Public, SessionStart(c, r)
             PROVE  SessionPlaced
  BY DEF SessionInit
<1>1. 0 \in 0..MaxLogins /\ 0 \in 0..MaxTrouble
  BY PeopleAssumption
<1> QED
  BY <1>1 DEF SessionStart, SessionPlaced, SomebodyOrNot

LEMMA StepKeepsSessionPlaced ==
  ASSUME SessionIInv, SessionPlaced, [SessionNext]_session
  PROVE  SessionPlaced'
<1>1. login.user \in SomebodyOrNot
  BY DEF SessionIInv, SessionTyped
<1>2. route' \in Guarded \cup Public
  <2>1. CASE UNCHANGED route
    BY <2>1 DEF SessionPlaced
  <2>2. CASE \E r \in Guarded \cup Public : route' = r
    BY <2>2
  <2>3. (\E r \in Guarded \cup Public : route' = r) \/ UNCHANGED route
    BY DEF SessionNext, session, ServeMe, AnswerMe, FailMe, RedirectToLogin, RedirectInside,
       RedirectFromAdmin, Navigate, Retry, ShowPage, SubmitLogin, SubmitRegistration, ServeLogin,
       LoseLogin, AnswerLogin, EnterProfile, BackToLogin, PressLogout,
       ServeLogout, Logout, Expire, GoTo, Guarded, Public
  <2> QED
    BY <2>1, <2>2, <2>3
<1>3. challenge' \in SomebodyOrNot
  <2>1. challenge' \in {challenge, Nobody, login.user}
    BY DEF SessionNext, session, ServeMe, AnswerMe, FailMe, RedirectToLogin, RedirectInside,
       RedirectFromAdmin, Navigate, Retry, ShowPage, SubmitLogin, SubmitRegistration, ServeLogin,
       LoseLogin, AnswerLogin, EnterProfile, BackToLogin, PressLogout,
       ServeLogout, Logout, Expire
  <2> QED
    BY <1>1, <2>1 DEF SessionPlaced, SomebodyOrNot
<1>4. overlaid' \in BOOLEAN
  BY DEF SessionPlaced, SessionNext, session, ServeMe, AnswerMe, FailMe, RedirectToLogin,
     RedirectInside, RedirectFromAdmin, Navigate, Retry, ShowPage, SubmitLogin, SubmitRegistration,
     ServeLogin, LoseLogin, AnswerLogin, EnterProfile, BackToLogin, PressLogout,
       ServeLogout, Logout, Expire
<1>5. logins' \in 0..MaxLogins
  <2>1. logins' = logins \/ (logins < MaxLogins /\ logins' = logins + 1)
    BY DEF SessionNext, session, ServeMe, AnswerMe, FailMe, RedirectToLogin, RedirectInside,
       RedirectFromAdmin, Navigate, Retry, ShowPage, SubmitLogin, SubmitRegistration, ServeLogin,
       LoseLogin, AnswerLogin, EnterProfile, BackToLogin, PressLogout,
       ServeLogout, Logout, Expire
  <2> QED
    BY <2>1, PeopleAssumption DEF SessionPlaced
<1>6. trouble' \in 0..MaxTrouble
  <2>1. trouble' = trouble \/ Trouble
    BY DEF SessionNext, session, ServeMe, AnswerMe, FailMe, RedirectToLogin, RedirectInside,
       RedirectFromAdmin, Navigate, Retry, ShowPage, SubmitLogin, SubmitRegistration, ServeLogin,
       LoseLogin, AnswerLogin, EnterProfile, BackToLogin, PressLogout,
       ServeLogout, Logout, Expire
  <2> QED
    BY <2>1, PeopleAssumption DEF Trouble, SessionPlaced
<1>7. leaving' \in {"none", "asked", "done"}
  BY DEF SessionPlaced, SessionNext, session, ServeMe, AnswerMe, FailMe, RedirectToLogin,
     RedirectInside, RedirectFromAdmin, Navigate, Retry, ShowPage, SubmitLogin, SubmitRegistration,
     ServeLogin, LoseLogin, AnswerLogin, EnterProfile, BackToLogin, PressLogout, ServeLogout, Logout,
     Expire
<1> QED
  BY <1>2, <1>3, <1>4, <1>5, <1>6, <1>7 DEF SessionPlaced

LEMMA SessionTypes == SessionIInv /\ SessionPlaced => SessionTypeOK
  BY DEF SessionIInv, SessionTyped, SessionPlaced, SessionTypeOK

\* A request has still to do some of what it was made for.
TodoWithin == \A r \in requests : r.todo \subseteq r.ids

LEMMA StepKeepsTodoWithin ==
  ASSUME ListIInv, TodoWithin, [MailListNext]_mailList
  PROVE  TodoWithin'
<1>1. ASSUME NEW op, NEW ids, NEW target, NEW bulk, Act(Request(op, ids, target, bulk))
      PROVE  TodoWithin'
  <2> DEFINE q == [Request(op, ids, target, bulk) EXCEPT !.n = happened]
  <2>1. q.todo = q.ids
    BY DEF Request
  <2>2. requests' = requests \cup {q}
    BY <1>1 DEF Act
  <2> HIDE DEF q
  <2> QED
    BY <2>1, <2>2 DEF TodoWithin
<1>2. ASSUME requests' \subseteq requests PROVE TodoWithin'
  BY <1>2 DEF TodoWithin
<1>3. CASE Requests
  <2>1. ASSUME NEW m \in Mails, SetRead(m) \/ SetLabel(m) \/ AskDelete(m) PROVE TodoWithin'
    BY <1>1, <1>2, <2>1 DEF SetRead, SetLabel, AskDelete
  <2>2. ASSUME NEW m \in Mails, NEW target \in Views, MoveMail(m, target) PROVE TodoWithin'
    BY <1>1, <2>2 DEF MoveMail, Moved
  <2>3. ASSUME NEW ids \in SUBSET Mails, NEW target \in Views, BulkMove(ids, target) PROVE TodoWithin'
    BY <1>1, <2>3 DEF BulkMove, Moved
  <2>4. ASSUME ConfirmDelete \/ DeclineDelete PROVE TodoWithin'
    BY <1>1, <1>2, <2>4 DEF ConfirmDelete, Deleted, DeclineDelete
  <2> QED
    BY <1>3, <2>1, <2>2, <2>3, <2>4 DEF Requests
<1>4. ASSUME NEW r \in requests, RequestSteps(r) PROVE TodoWithin'
  <2>0. r \in AnyRequests /\ r.todo \subseteq r.ids
    BY DEF ListIInv, TodoWithin
  <2>1. ASSUME NEW m \in Mails, Serve(r, m) PROVE TodoWithin'
    <3> DEFINE q == [r EXCEPT !.todo = @ \ {m}]
    <3>1. q.todo \subseteq q.ids
      BY <2>0 DEF AnyRequests, RequestOf
    <3>2. requests' = (requests \ {r}) \cup {q}
      BY <2>1 DEF Serve
    <3> HIDE DEF q
    <3> QED
      BY <3>1, <3>2 DEF TodoWithin
  <2>2. CASE RequestFails(r)
    <3> DEFINE q == [r EXCEPT !.heard = FALSE, !.bulk = FALSE]
    <3>1. q.todo \subseteq q.ids
      BY <2>0 DEF AnyRequests, RequestOf
    <3>2. requests' \subseteq requests \cup {q}
      BY <2>2 DEF RequestFails
    <3> HIDE DEF q
    <3> QED
      BY <3>1, <3>2 DEF TodoWithin
  <2>3. CASE RequestAnswered(r) \/ RequestGone(r)
    BY <1>2, <2>3 DEF RequestAnswered, RequestGone
  <2> QED
    BY <1>4, <2>1, <2>2, <2>3 DEF RequestSteps
<1>5. ASSUME UNCHANGED requests PROVE TodoWithin'
  BY <1>5 DEF TodoWithin
<1>6. ASSUME NEW v \in Views, ShowView(v) \/ FetchAnswered(v) \/ FetchFails(v) PROVE TodoWithin'
  BY <1>5, <1>6 DEF ShowView, FetchAnswered, FetchFails
<1>7. ASSUME NEW m \in Mails, NEW folder \in Views, ChangedElsewhere(m, folder) PROVE TodoWithin'
  BY <1>5, <1>7 DEF ChangedElsewhere
<1>8. CASE AutoRefresh \/ UNCHANGED mailList
  BY <1>5, <1>8 DEF AutoRefresh, mailList
<1> QED
  BY <1>3, <1>4, <1>6, <1>7, <1>8 DEF MailListNext

LEMMA ListTypes == ListIInv /\ TodoWithin => MailListTypeOK
<1> SUFFICES ASSUME ListIInv, TodoWithin PROVE MailListTypeOK
  OBVIOUS
<1>1. ASSUME NEW v \in Views
      PROVE  lists[v].fetching \in BOOLEAN /\ \A m \in DOMAIN lists[v].rows : lists[v].rows[m] \in BOOLEAN
  <2>1. lists[v] \in CachedLists
    BY DEF ListIInv
  <2>2. lists[v].fetching \in BOOLEAN /\ lists[v].rows \in AnyRows
    BY <2>1 DEF CachedLists
  <2>3. PICK S \in SUBSET Mails : lists[v].rows \in [S -> BOOLEAN]
    BY <2>2 DEF AnyRows
  <2> QED
    BY <2>2, <2>3
<1> QED
  BY <1>1 DEF ListIInv, TodoWithin, MailListTypeOK

\* The dialog and the saves with at most n drafts to name, within the bounds of the model.
FormsUpTo(n) == [open : BOOLEAN, doc : 0..MaxDocs, text : Texts, draftId : 0..n, from : 0..n,
                 last : Texts \X (0..n), status : {"idle", "saving", "saved", "error"},
                 timer : BOOLEAN, started : BOOLEAN]
SavesUpTo(n) == [doc : 1..MaxDocs, text : Texts, id : 0..n, answer : {"none", "saved", "refused"}]
Presses == [phase : {"none", "reading", "asking", "sending", "deleting"},
            kind : {"send", "schedule"}, doc : 0..MaxDocs, mails : 0..2]
OpeningUpTo(n) == {{}} \cup {{o} : o \in [id : 0..n, text : Texts]}

ComposeBounded ==
    /\ form \in FormsUpTo(Len(drafts)) /\ saves \subseteq SavesUpTo(Len(drafts))
    /\ press \in Presses /\ openingDraft \in OpeningUpTo(Len(drafts))
    /\ drafts \in Seq(Texts)
    /\ nextDoc \in 1..(MaxDocs + 1) /\ edits \in 0..MaxEdits
    /\ raced \in BOOLEAN /\ overlap \in BOOLEAN

LEMMA ComposeNumbers ==
  /\ MaxDocs \in Nat /\ MaxEdits \in Nat
  /\ NoText \in Texts /\ NoDraft = 0
  /\ \A doc \in 0..MaxDocs, v \in 0..MaxEdits : [doc |-> doc, v |-> v] \in Texts
  BY ComposeAssumption DEF NoText, NoDraft, Texts

\* With more drafts there is more to name.
LEMMA MoreToName ==
  ASSUME NEW m \in Nat, NEW n \in Nat, m <= n
  PROVE  /\ FormsUpTo(m) \subseteq FormsUpTo(n) /\ SavesUpTo(m) \subseteq SavesUpTo(n)
         /\ OpeningUpTo(m) \subseteq OpeningUpTo(n)
<1>1. 0..m \subseteq 0..n
  OBVIOUS
<1>2. FormsUpTo(m) \subseteq FormsUpTo(n)
  <2> SUFFICES ASSUME NEW f \in FormsUpTo(m) PROVE f \in FormsUpTo(n)
    OBVIOUS
  <2>1. f.draftId \in 0..n /\ f.from \in 0..n /\ f.last \in Texts \X (0..n)
    BY <1>1 DEF FormsUpTo
  <2> QED
    BY <2>1 DEF FormsUpTo
<1>3. SavesUpTo(m) \subseteq SavesUpTo(n)
  BY <1>1 DEF SavesUpTo
<1>4. [id : 0..m, text : Texts] \subseteq [id : 0..n, text : Texts]
  BY <1>1
<1>5. OpeningUpTo(m) \subseteq OpeningUpTo(n)
  BY <1>4 DEF OpeningUpTo
<1> QED
  BY <1>2, <1>3, <1>5

\* A dialog closed, opened, rendered stays within the bounds.
LEMMA ClosedUpTo ==
  ASSUME NEW n \in Nat, NEW doc \in 0..MaxDocs, NEW d \in 0..n
  PROVE  Closed(doc, d) \in FormsUpTo(n)
  BY ComposeNumbers DEF Closed, FormsUpTo

LEMMA OpenedUpTo ==
  ASSUME NEW n \in Nat, NEW doc \in 0..MaxDocs, NEW text \in Texts, NEW d \in 0..n
  PROVE  Opened(doc, text, d) \in FormsUpTo(n)
  BY DEF Opened, FormsUpTo

LEMMA OpenedNewUpTo ==
  ASSUME NEW n \in Nat, NEW doc \in 0..MaxDocs
  PROVE  OpenedNew(doc) \in FormsUpTo(n)
<1>1. [doc |-> doc, v |-> 0] \in Texts /\ NoDraft \in 0..n
  BY ComposeNumbers
<1> QED
  BY <1>1, OpenedUpTo DEF OpenedNew

LEMMA RenderedUpTo ==
  ASSUME NEW n \in Nat, NEW f \in FormsUpTo(n)
  PROVE  Rendered(f) \in FormsUpTo(n)
<1>1. (Unsaved(f) /\ ~f.started) \in BOOLEAN
  OBVIOUS
<1> QED
  BY <1>1 DEF Rendered, FormsUpTo

LEMMA InitComposeBounded == ComposeInit => ComposeBounded
<1> SUFFICES ASSUME ComposeInit PROVE ComposeBounded
  OBVIOUS
<1>1. drafts = <<>> /\ Len(drafts) = 0 /\ drafts \in Seq(Texts)
  BY DEF ComposeInit
<1>2. form \in FormsUpTo(0)
  BY ComposeNumbers, ClosedUpTo DEF ComposeInit
<1>3. press \in Presses
  BY ComposeNumbers DEF ComposeInit, Nothing, Presses
<1>4. nextDoc \in 1..(MaxDocs + 1) /\ edits \in 0..MaxEdits
  BY ComposeNumbers DEF ComposeInit
<1>5. saves = {} /\ openingDraft = {} /\ raced = FALSE /\ overlap = FALSE
  BY DEF ComposeInit
<1> QED
  BY <1>1, <1>2, <1>3, <1>4, <1>5 DEF ComposeBounded, OpeningUpTo

\* An action that only changes the dialog, a count or the press.
LEMMA FormStepKeepsBounded ==
  ASSUME ComposeBounded, UNCHANGED <<drafts, saves>>,
         form' \in FormsUpTo(Len(drafts)), press' \in Presses, openingDraft' \in {openingDraft, {}},
         nextDoc' \in 1..(MaxDocs + 1), edits' \in 0..MaxEdits,
         raced' \in BOOLEAN, overlap' \in BOOLEAN
  PROVE  ComposeBounded'
  BY DEF ComposeBounded, OpeningUpTo

\* Ids name drafts, which are never taken away; texts and documents are counted.
LEMMA StepKeepsComposeBounded ==
  ASSUME ComposeIInv, ComposeBounded, [ComposeNext]_compose
  PROVE  ComposeBounded'
<1> DEFINE n == Len(drafts)
<1>0. n \in Nat /\ form \in FormsUpTo(n) /\ form.doc \in 0..MaxDocs /\ form.draftId \in 0..n
  BY DEF ComposeBounded, FormsUpTo
<1> HIDE DEF n
<1>u. n = Len(drafts)
  BY DEF n
<1> USE <1>0, <1>u, ComposeNumbers
<1>1. CASE UNCHANGED compose
  BY <1>1 DEF compose, ComposeBounded
<1>2. CASE ~raced /\ Compose
  <2>1. form' = OpenedNew(nextDoc) /\ nextDoc \in 0..MaxDocs /\ nextDoc' \in 1..(MaxDocs + 1)
        /\ UNCHANGED <<saves, press, openingDraft, edits, drafts, raced>> /\ overlap' \in BOOLEAN
    BY <1>2 DEF Compose, ComposeBounded, server
  <2> QED
    BY <2>1, OpenedNewUpTo, FormStepKeepsBounded DEF ComposeBounded
<1>3. ASSUME NEW d \in DOMAIN drafts, LoadDraft(d) PROVE ComposeBounded'
  <2> DEFINE o == [id |-> d, text |-> drafts[d]]
  <2>1. o \in [id : 0..n, text : Texts]
    BY DEF ComposeBounded
  <2>2. openingDraft' = {o} /\ UNCHANGED <<form, saves, press, nextDoc, edits, drafts, raced, overlap>>
    BY <1>3 DEF LoadDraft, counts, server
  <2> HIDE DEF o
  <2>3. openingDraft' \in OpeningUpTo(n)
    BY <2>1, <2>2 DEF OpeningUpTo
  <2> QED
    BY <2>2, <2>3 DEF ComposeBounded
<1>4. ASSUME NEW o \in openingDraft, DraftLoaded(o) PROVE ComposeBounded'
  <2>1. o \in [id : 0..n, text : Texts]
    BY DEF ComposeBounded, OpeningUpTo
  <2>2. o.text.doc \in 0..MaxDocs /\ o.text \in Texts /\ o.id \in 0..n
    BY <2>1 DEF Texts
  <2>3. form' \in FormsUpTo(n)
    BY <1>4, <2>2, OpenedUpTo DEF DraftLoaded
  <2>4. UNCHANGED <<saves, press, nextDoc, edits, drafts, raced>> /\ openingDraft' = {}
        /\ overlap' \in BOOLEAN
    BY <1>4 DEF DraftLoaded, counts, server, ComposeBounded
  <2> QED
    BY <2>3, <2>4, FormStepKeepsBounded DEF ComposeBounded
<1>5. CASE Type
  <2> DEFINE text == [doc |-> form.doc, v |-> edits']
             f == [form EXCEPT !.text = text]
  <2>1. edits' \in 0..MaxEdits
    BY <1>5 DEF Type, ComposeBounded
  <2>2. text \in Texts
    BY <2>1
  <2>3. form' = Rendered(f)
        /\ UNCHANGED <<saves, press, openingDraft, nextDoc, drafts, raced, overlap>>
    BY <1>5 DEF Type, server
  <2> HIDE DEF text
  <2>4. f \in FormsUpTo(n)
    BY <2>2 DEF FormsUpTo
  <2> HIDE DEF f
  <2>5. form' \in FormsUpTo(n)
    BY <2>3, <2>4, RenderedUpTo
  <2> QED
    BY <2>1, <2>3, <2>5, FormStepKeepsBounded DEF ComposeBounded
<1>6. CASE SignatureLoaded
  <2>1. form' \in FormsUpTo(n)
    BY <1>6, OpenedNewUpTo DEF SignatureLoaded
  <2>2. UNCHANGED <<saves, press, openingDraft, nextDoc, edits, drafts, raced>> /\ overlap' \in BOOLEAN
    BY <1>6 DEF SignatureLoaded, counts, server, ComposeBounded
  <2> QED
    BY <2>1, <2>2, FormStepKeepsBounded DEF ComposeBounded
<1>7. CASE Close
  <2>1. form' \in FormsUpTo(n)
    BY <1>7, ClosedUpTo DEF Close, Shut
  <2>2. UNCHANGED <<saves, press, openingDraft, nextDoc, edits, drafts, raced, overlap>>
    BY <1>7 DEF Close, counts, server
  <2> QED
    BY <2>1, <2>2, FormStepKeepsBounded DEF ComposeBounded
<1>8. CASE ~raced /\ SaveBegins
  <2> DEFINE s == [doc |-> form.doc, text |-> form.text, id |-> form.draftId, answer |-> "none"]
  <2>1. form.doc \in 1..MaxDocs
    BY <1>8 DEF SaveBegins, ComposeIInv, FormIsOneDocument
  <2>2. s \in SavesUpTo(n)
    BY <2>1 DEF FormsUpTo, SavesUpTo
  <2>3. form' \in FormsUpTo(n)
    BY <1>8 DEF SaveBegins, FormsUpTo
  <2>4. saves' = saves \cup {s} /\ overlap' \in BOOLEAN
        /\ UNCHANGED <<press, openingDraft, nextDoc, edits, drafts, raced>>
    BY <1>8 DEF SaveBegins, counts, server, ComposeBounded
  <2> HIDE DEF s
  <2> QED
    BY <2>2, <2>3, <2>4 DEF ComposeBounded
<1>9. ASSUME NEW s \in saves, SaveServed(s) PROVE ComposeBounded'
  <2>1. s \in SavesUpTo(n) /\ s.text \in Texts
    BY DEF ComposeBounded, SavesUpTo
  <2>2. UNCHANGED <<form, press, openingDraft, nextDoc, edits, raced, overlap>>
    BY <1>9 DEF SaveServed, counts
  <2>3. drafts' \in Seq(Texts) /\ Len(drafts') \in {n, n + 1}
    <3>1. drafts \in Seq(Texts)
      BY DEF ComposeBounded
    <3>2. CASE drafts' = Append(drafts, s.text)
      BY <2>1, <3>1, <3>2
    <3>3. CASE s.id \in 1..n /\ drafts' = [drafts EXCEPT ![s.id] = s.text]
      BY <2>1, <3>1, <3>3
    <3>4. CASE drafts' = drafts
      BY <3>1, <3>4
    <3> QED
      BY <1>9, <2>1, <3>2, <3>3, <3>4 DEF SaveServed, server, SavesUpTo
  <2> DEFINE k == Len(drafts')
  <2>4. k \in Nat /\ n <= k
    BY <2>3
  <2>5. \E q \in SavesUpTo(k) : saves' \subseteq saves \cup {q}
    <3>1. CASE s.id = NoDraft
      <4> DEFINE q == [s EXCEPT !.id = n + 1, !.answer = "saved"]
      <4>1. k = n + 1
        BY <1>9, <3>1 DEF SaveServed, ComposeBounded
      <4>2. q \in SavesUpTo(n + 1)
        <5>1. n + 1 \in 0..(n + 1)
          OBVIOUS
        <5> QED
          BY <2>1, <5>1 DEF SavesUpTo
      <4>3. saves' \subseteq saves \cup {q}
        BY <1>9, <3>1 DEF SaveServed
      <4> QED
        BY <4>1, <4>2, <4>3
    <3>2. CASE s.id # NoDraft
      <4>1. PICK a \in {"saved", "refused"} : saves' \subseteq saves \cup {[s EXCEPT !.answer = a]}
        BY <1>9, <3>2 DEF SaveServed
      <4>2. [s EXCEPT !.answer = a] \in SavesUpTo(n)
        BY <2>1 DEF SavesUpTo
      <4> QED
        BY <2>4, <4>1, <4>2, MoreToName
    <3> QED
      BY <3>1, <3>2
  <2> HIDE DEF k
  <2>6. saves' \subseteq SavesUpTo(k)
    BY <2>4, <2>5, MoreToName DEF ComposeBounded
  <2>7. form' \in FormsUpTo(k) /\ openingDraft' \in OpeningUpTo(k)
    BY <2>2, <2>4, MoreToName DEF ComposeBounded
  <2> QED
    BY <2>2, <2>3, <2>6, <2>7 DEF ComposeBounded, k
<1>10. ASSUME NEW s \in saves, SaveAnswered(s) PROVE ComposeBounded'
  <2>1. s \in SavesUpTo(n) /\ s.text \in Texts /\ s.id \in 0..n
    BY DEF ComposeBounded, SavesUpTo
  <2>2. Noted(s, form) \in FormsUpTo(n)
    BY <2>1 DEF Noted, FormsUpTo
  <2>3. form' \in FormsUpTo(n)
    BY <1>10, <2>2, RenderedUpTo DEF SaveAnswered
  <2>4. saves' \subseteq saves /\ raced' \in BOOLEAN
        /\ UNCHANGED <<press, openingDraft, nextDoc, edits, drafts, overlap>>
    BY <1>10 DEF SaveAnswered, counts, server, ComposeBounded
  <2> QED
    BY <2>3, <2>4 DEF ComposeBounded
<1>11. ASSUME NEW s \in saves, SaveFails(s) PROVE ComposeBounded'
  <2>1. form' \in FormsUpTo(n)
    BY <1>11 DEF SaveFails, FormsUpTo
  <2>2. saves' \subseteq saves /\ UNCHANGED <<press, openingDraft, nextDoc, edits, drafts, raced, overlap>>
    BY <1>11 DEF SaveFails, counts, server
  <2> QED
    BY <2>1, <2>2 DEF ComposeBounded
<1>12. ASSUME Prepared \/ Confirm \/ Decline \/ MailAccepted \/ SendFails
              \/ (\E k \in {"send", "schedule"}, m \in 1..2 : PressSend(k, m))
       PROVE  ComposeBounded'
  <2>1. press' \in Presses
    <3>1. press \in Presses /\ Nothing \in Presses
      BY DEF ComposeBounded, Presses, Nothing
    <3> QED
      BY <1>12, <3>1 DEF Prepared, Confirm, Decline, MailAccepted, SendFails, PressSend, Mutate, Presses
  <2>2. form' \in FormsUpTo(n)
    BY <1>12 DEF Prepared, Confirm, Decline, MailAccepted, SendFails, PressSend, Mutate, FormsUpTo
  <2>3. UNCHANGED <<saves, openingDraft, nextDoc, edits, drafts, raced, overlap>>
    BY <1>12 DEF Prepared, Confirm, Decline, MailAccepted, SendFails, PressSend, counts, server
  <2> QED
    BY <2>1, <2>2, <2>3, FormStepKeepsBounded DEF ComposeBounded
<1>13. CASE DeleteDraft
  <2>1. drafts' \in Seq(Texts) /\ Len(drafts') = n
    BY <1>13 DEF DeleteDraft, ComposeBounded
  <2>2. press' \in Presses
    BY <1>13 DEF DeleteDraft, ComposeBounded, Presses
  <2>3. raced' \in BOOLEAN /\ UNCHANGED <<form, saves, openingDraft, nextDoc, edits, overlap>>
    BY <1>13 DEF DeleteDraft, counts, ComposeBounded
  <2> QED
    BY <2>1, <2>2, <2>3 DEF ComposeBounded
<1>14. CASE SendEnds
  <2>1. form' \in FormsUpTo(n)
    BY <1>14, ClosedUpTo DEF SendEnds
  <2>2. press' \in Presses
    BY <1>14 DEF SendEnds, Nothing, Presses
  <2>3. UNCHANGED <<saves, openingDraft, nextDoc, edits, drafts, raced, overlap>>
    BY <1>14 DEF SendEnds, counts, server
  <2> QED
    BY <2>1, <2>2, <2>3, FormStepKeepsBounded DEF ComposeBounded
<1> QED
  BY <1>1, <1>2, <1>3, <1>4, <1>5, <1>6, <1>7, <1>8, <1>9, <1>10, <1>11, <1>12, <1>13, <1>14
  DEF ComposeNext, ComposeAnswers

LEMMA ComposeTypes == ComposeIInv /\ ComposeBounded => ComposeTypeOK
<1> SUFFICES ASSUME ComposeIInv, ComposeBounded PROVE ComposeTypeOK
  OBVIOUS
<1>1. Cardinality(openingDraft) <= 1
  <2>1. openingDraft = {} \/ \E o : openingDraft = {o}
    BY DEF ComposeBounded, OpeningUpTo
  <2>2. Cardinality({}) = 0 /\ \A o : Cardinality({o}) = 1
    BY FS_EmptySet, FS_Singleton
  <2>3. ASSUME NEW o, openingDraft = {o} PROVE Cardinality(openingDraft) = 1
    BY <2>2, <2>3
  <2>4. Cardinality(openingDraft) \in {0, 1}
    BY <2>1, <2>2, <2>3
  <2> QED
    BY <2>4
<1>2. Len(owner) = Len(drafts) /\ signature \in BOOLEAN
  BY DEF ComposeIInv, ComposeTyped
<1> QED
  BY <1>1, <1>2 DEF ComposeBounded, ComposeTypeOK, DraftIds, FormsUpTo, SavesUpTo, Presses

------------------------------------------------------------------------------
(* WebOffers *)

\* Every row of a table that names an entry gives this answer, and one does.
Says(rows, r, answer) ==
    /\ \A row \in rows : r \in row.of => row.is = answer
    /\ \E row \in rows : r \in row.of

\* What the rows of AccountNeeds say.
LEMMA AccountRows ==
  /\ \A r \in {"publicSettings", "version", "me", "announcement", "changePassword",
         "setupTwoFactor", "enableTwoFactor", "disableTwoFactor", "feedbackTickets",
         "feedbackTicket", "createFeedbackTicket", "replyFeedbackTicket", "closeFeedbackTicket",
         "deleteFeedbackTicket", "apiTokens", "createApiToken", "updateApiToken", "deleteApiToken"}
         : Says(AccountNeeds, r, {})
  /\ \A r \in {"clientAccessEvents", "deleteClientAccessEvents", "forwardingSettings",
         "addForwardingVerifiedEmail", "resendForwardingVerifiedEmail",
         "deleteForwardingVerifiedEmail", "updateAccountForwarding", "updateMailboxForwarding",
         "createMailboxAppPassword", "deleteMailboxAppPassword", "externalImapAccounts",
         "externalImapSyncRuns"} : Says(AccountNeeds, r, HasPermission("mail.access"))
  /\ \A r \in {"mailboxApplyOptions", "applyMailbox"} : Says(AccountNeeds, r,
         HasPermission("mail.mailboxes.apply"))
  /\ \A r \in {"contacts", "createContact", "deleteContact"} : Says(AccountNeeds, r,
         HasPermission("mail.contacts.manage"))
  /\ \A r \in {"signatures", "createSignature", "updateSignature", "setDefaultSignature",
         "deleteSignature", "defaultSignature"} : Says(AccountNeeds, r,
         HasPermission("mail.signatures.manage"))
  /\ \A r \in {"rules", "createRule", "updateRule", "moveRule", "applyRule", "deleteRule"} :
         Says(AccountNeeds, r, HasPermission("mail.rules.manage"))
  /\ \A r \in {"blockedSenders", "createBlockedSender", "deleteBlockedSender"} : Says(AccountNeeds,
         r, HasPermission("mail.blocked_senders.manage"))
  /\ \A r \in {"mailStats"} : Says(AccountNeeds, r, HasPermission("mail.stats.view"))
  /\ \A r \in {"cleanupMail"} : Says(AccountNeeds, r, HasPermission("mail.messages.organize"))
<1> USE DEF AccountNeeds, For, Says
<1>1. \A r \in {"publicSettings", "version", "me", "announcement", "changePassword",
        "setupTwoFactor", "enableTwoFactor", "disableTwoFactor", "feedbackTickets",
        "feedbackTicket", "createFeedbackTicket", "replyFeedbackTicket", "closeFeedbackTicket",
        "deleteFeedbackTicket", "apiTokens", "createApiToken", "updateApiToken", "deleteApiToken"} :
        Says(AccountNeeds, r, {})
  OBVIOUS
<1>2. \A r \in {"clientAccessEvents", "deleteClientAccessEvents", "forwardingSettings",
        "addForwardingVerifiedEmail", "resendForwardingVerifiedEmail",
        "deleteForwardingVerifiedEmail", "updateAccountForwarding", "updateMailboxForwarding",
        "createMailboxAppPassword", "deleteMailboxAppPassword", "externalImapAccounts",
        "externalImapSyncRuns"} : Says(AccountNeeds, r, HasPermission("mail.access"))
  OBVIOUS
<1>3. \A r \in {"mailboxApplyOptions", "applyMailbox"} : Says(AccountNeeds, r,
        HasPermission("mail.mailboxes.apply"))
  OBVIOUS
<1>4. \A r \in {"contacts", "createContact", "deleteContact"} : Says(AccountNeeds, r,
        HasPermission("mail.contacts.manage"))
  OBVIOUS
<1>5. \A r \in {"signatures", "createSignature", "updateSignature", "setDefaultSignature",
        "deleteSignature", "defaultSignature"} : Says(AccountNeeds, r,
        HasPermission("mail.signatures.manage"))
  OBVIOUS
<1>6. \A r \in {"rules", "createRule", "updateRule", "moveRule", "applyRule", "deleteRule"} :
        Says(AccountNeeds, r, HasPermission("mail.rules.manage"))
  OBVIOUS
<1>7. \A r \in {"blockedSenders", "createBlockedSender", "deleteBlockedSender"} : Says(AccountNeeds,
        r, HasPermission("mail.blocked_senders.manage"))
  OBVIOUS
<1>8. \A r \in {"mailStats"} : Says(AccountNeeds, r, HasPermission("mail.stats.view"))
  OBVIOUS
<1>9. \A r \in {"cleanupMail"} : Says(AccountNeeds, r, HasPermission("mail.messages.organize"))
  OBVIOUS
<1> HIDE DEF AccountNeeds, For, Says
<1> QED
  BY <1>1, <1>2, <1>3, <1>4, <1>5, <1>6, <1>7, <1>8, <1>9

\* And these are all the requests the rows name.
LEMMA AccountEntries ==
  Entries(AccountNeeds) = {"publicSettings", "version", "me", "announcement", "changePassword",
    "setupTwoFactor", "enableTwoFactor", "disableTwoFactor", "feedbackTickets", "feedbackTicket",
    "createFeedbackTicket", "replyFeedbackTicket", "closeFeedbackTicket", "deleteFeedbackTicket",
    "apiTokens", "createApiToken", "updateApiToken", "deleteApiToken", "clientAccessEvents",
    "deleteClientAccessEvents", "forwardingSettings", "addForwardingVerifiedEmail",
    "resendForwardingVerifiedEmail", "deleteForwardingVerifiedEmail", "updateAccountForwarding",
    "updateMailboxForwarding", "createMailboxAppPassword", "deleteMailboxAppPassword",
    "externalImapAccounts", "externalImapSyncRuns", "mailboxApplyOptions", "applyMailbox",
    "contacts", "createContact", "deleteContact", "signatures", "createSignature",
    "updateSignature", "setDefaultSignature", "deleteSignature", "defaultSignature", "rules",
    "createRule", "updateRule", "moveRule", "applyRule", "deleteRule", "blockedSenders",
    "createBlockedSender", "deleteBlockedSender", "mailStats", "cleanupMail"}
  BY DEF AccountNeeds, For, Entries

\* What the rows of MailNeeds say.
LEMMA MailRows ==
  /\ \A r \in {"myMailboxes", "aiStatus"} : Says(MailNeeds, r, HasPermission("mail.access"))
  /\ \A r \in {"folders", "messages", "starredMessages", "labelMessages", "message", "exportMail",
         "translateMessage", "externalMailAccounts", "externalFolders", "externalMessages",
         "externalMessage", "translateExternalMessage", "aiMessage", "sendQueue", "sendQueueAudit"}
         : Says(MailNeeds, r, HasPermission("mail.messages.read"))
  /\ \A r \in {"createFolder", "reorderFolders", "deleteFolder", "importMail", "markRead", "star",
         "move", "deleteMessage", "markExternalRead"} : Says(MailNeeds, r,
         HasPermission("mail.messages.organize"))
  /\ \A r \in {"labels"} : Says(MailNeeds, r, HasAnyPermission({"mail.messages.read",
         "mail.labels.manage"}))
  /\ \A r \in {"createLabel", "deleteLabel", "addMessageLabel", "removeMessageLabel"} :
         Says(MailNeeds, r, HasPermission("mail.labels.manage"))
  /\ \A r \in {"attachment", "externalAttachment"} : Says(MailNeeds, r,
         HasPermission("mail.attachments.download"))
  /\ \A r \in {"send", "aiCompose", "retrySendQueue", "cancelSendQueue"} : Says(MailNeeds, r,
         HasPermission("mail.messages.send"))
  /\ \A r \in {"scheduledSends", "cancelScheduledSend"} : Says(MailNeeds, r,
         HasPermission("mail.messages.schedule"))
  /\ \A r \in {"scheduleSend"} : Says(MailNeeds, r, HasPermission("mail.messages.schedule") \cup
         HasPermission("mail.messages.send"))
  /\ \A r \in {"saveDraft", "deleteDraft"} : Says(MailNeeds, r,
         HasPermission("mail.messages.drafts"))
<1> USE DEF MailNeeds, For, Says
<1>1. \A r \in {"myMailboxes", "aiStatus"} : Says(MailNeeds, r, HasPermission("mail.access"))
  OBVIOUS
<1>2. \A r \in {"folders", "messages", "starredMessages", "labelMessages", "message", "exportMail",
        "translateMessage", "externalMailAccounts", "externalFolders", "externalMessages",
        "externalMessage", "translateExternalMessage", "aiMessage", "sendQueue", "sendQueueAudit"} :
        Says(MailNeeds, r, HasPermission("mail.messages.read"))
  OBVIOUS
<1>3. \A r \in {"createFolder", "reorderFolders", "deleteFolder", "importMail", "markRead", "star",
        "move", "deleteMessage", "markExternalRead"} : Says(MailNeeds, r,
        HasPermission("mail.messages.organize"))
  OBVIOUS
<1>4. \A r \in {"labels"} : Says(MailNeeds, r, HasAnyPermission({"mail.messages.read",
        "mail.labels.manage"}))
  OBVIOUS
<1>5. \A r \in {"createLabel", "deleteLabel", "addMessageLabel", "removeMessageLabel"} :
        Says(MailNeeds, r, HasPermission("mail.labels.manage"))
  OBVIOUS
<1>6. \A r \in {"attachment", "externalAttachment"} : Says(MailNeeds, r,
        HasPermission("mail.attachments.download"))
  OBVIOUS
<1>7. \A r \in {"send", "aiCompose", "retrySendQueue", "cancelSendQueue"} : Says(MailNeeds, r,
        HasPermission("mail.messages.send"))
  OBVIOUS
<1>8. \A r \in {"scheduledSends", "cancelScheduledSend"} : Says(MailNeeds, r,
        HasPermission("mail.messages.schedule"))
  OBVIOUS
<1>9. \A r \in {"scheduleSend"} : Says(MailNeeds, r, HasPermission("mail.messages.schedule") \cup
        HasPermission("mail.messages.send"))
  OBVIOUS
<1>10. \A r \in {"saveDraft", "deleteDraft"} : Says(MailNeeds, r,
        HasPermission("mail.messages.drafts"))
  OBVIOUS
<1> HIDE DEF MailNeeds, For, Says
<1> QED
  BY <1>1, <1>2, <1>3, <1>4, <1>5, <1>6, <1>7, <1>8, <1>9, <1>10

\* And these are all the requests the rows name.
LEMMA MailEntries ==
  Entries(MailNeeds) = {"myMailboxes", "aiStatus", "folders", "messages", "starredMessages",
    "labelMessages", "message", "exportMail", "translateMessage", "externalMailAccounts",
    "externalFolders", "externalMessages", "externalMessage", "translateExternalMessage",
    "aiMessage", "sendQueue", "sendQueueAudit", "createFolder", "reorderFolders", "deleteFolder",
    "importMail", "markRead", "star", "move", "deleteMessage", "markExternalRead", "labels",
    "createLabel", "deleteLabel", "addMessageLabel", "removeMessageLabel", "attachment",
    "externalAttachment", "send", "aiCompose", "retrySendQueue", "cancelSendQueue",
    "scheduledSends", "cancelScheduledSend", "scheduleSend", "saveDraft", "deleteDraft"}
  BY DEF MailNeeds, For, Entries

\* What the rows of PeopleNeeds say.
LEMMA PeopleRows ==
  /\ \A r \in {"adminOverview"} : Says(PeopleNeeds, r, HasPermission("admin.overview.view"))
  /\ \A r \in {"users"} : Says(PeopleNeeds, r, HasAnyPermission({"admin.users.view",
         "admin.mailboxes.view"}))
  /\ \A r \in {"createUser"} : Says(PeopleNeeds, r, HasPermission("admin.users.create"))
  /\ \A r \in {"updateUser"} : Says(PeopleNeeds, r, HasPermission("admin.users.update"))
  /\ \A r \in {"resetUserPassword", "resetUserTwoFactor"} : Says(PeopleNeeds, r,
         HasPermission("admin.users.reset_password"))
  /\ \A r \in {"deleteUser"} : Says(PeopleNeeds, r, HasPermission("admin.users.delete"))
  /\ \A r \in {"permissionGroups", "defaultPermissionLimits"} : Says(PeopleNeeds, r,
         HasAnyPermission({"admin.permission_groups.view", "admin.users.view"}))
  /\ \A r \in {"createPermissionGroup"} : Says(PeopleNeeds, r,
         HasPermission("admin.permission_groups.create"))
  /\ \A r \in {"updatePermissionGroup"} : Says(PeopleNeeds, r,
         HasPermission("admin.permission_groups.update"))
  /\ \A r \in {"deletePermissionGroup"} : Says(PeopleNeeds, r,
         HasPermission("admin.permission_groups.delete"))
  /\ \A r \in {"domains"} : Says(PeopleNeeds, r, HasAnyPermission({"admin.domains.view",
         "admin.dns.view", "admin.mailboxes.view", "admin.aliases.view", "admin.settings.view",
         "admin.templates.view"}))
  /\ \A r \in {"createDomain"} : Says(PeopleNeeds, r, HasPermission("admin.domains.create"))
  /\ \A r \in {"updateDomain"} : Says(PeopleNeeds, r, HasPermission("admin.domains.update"))
  /\ \A r \in {"deleteDomain"} : Says(PeopleNeeds, r, HasPermission("admin.domains.delete"))
  /\ \A r \in {"mailboxes"} : Says(PeopleNeeds, r, HasAnyPermission({"admin.mailboxes.view",
         "admin.messages.view"}))
  /\ \A r \in {"createMailbox"} : Says(PeopleNeeds, r, HasPermission("admin.mailboxes.create"))
  /\ \A r \in {"updateMailbox"} : Says(PeopleNeeds, r, HasPermission("admin.mailboxes.update"))
  /\ \A r \in {"deleteMailbox"} : Says(PeopleNeeds, r, HasPermission("admin.mailboxes.delete"))
  /\ \A r \in {"aliases"} : Says(PeopleNeeds, r, HasPermission("admin.aliases.view"))
  /\ \A r \in {"createAlias"} : Says(PeopleNeeds, r, HasPermission("admin.aliases.create"))
  /\ \A r \in {"updateAlias"} : Says(PeopleNeeds, r, HasPermission("admin.aliases.update"))
  /\ \A r \in {"deleteAlias"} : Says(PeopleNeeds, r, HasPermission("admin.aliases.delete"))
<1> USE DEF PeopleNeeds, For, Says
<1>1. \A r \in {"adminOverview"} : Says(PeopleNeeds, r, HasPermission("admin.overview.view"))
  OBVIOUS
<1>2. \A r \in {"users"} : Says(PeopleNeeds, r, HasAnyPermission({"admin.users.view",
        "admin.mailboxes.view"}))
  OBVIOUS
<1>3. \A r \in {"createUser"} : Says(PeopleNeeds, r, HasPermission("admin.users.create"))
  OBVIOUS
<1>4. \A r \in {"updateUser"} : Says(PeopleNeeds, r, HasPermission("admin.users.update"))
  OBVIOUS
<1>5. \A r \in {"resetUserPassword", "resetUserTwoFactor"} : Says(PeopleNeeds, r,
        HasPermission("admin.users.reset_password"))
  OBVIOUS
<1>6. \A r \in {"deleteUser"} : Says(PeopleNeeds, r, HasPermission("admin.users.delete"))
  OBVIOUS
<1>7. \A r \in {"permissionGroups", "defaultPermissionLimits"} : Says(PeopleNeeds, r,
        HasAnyPermission({"admin.permission_groups.view", "admin.users.view"}))
  OBVIOUS
<1>8. \A r \in {"createPermissionGroup"} : Says(PeopleNeeds, r,
        HasPermission("admin.permission_groups.create"))
  OBVIOUS
<1>9. \A r \in {"updatePermissionGroup"} : Says(PeopleNeeds, r,
        HasPermission("admin.permission_groups.update"))
  OBVIOUS
<1>10. \A r \in {"deletePermissionGroup"} : Says(PeopleNeeds, r,
        HasPermission("admin.permission_groups.delete"))
  OBVIOUS
<1>11. \A r \in {"domains"} : Says(PeopleNeeds, r, HasAnyPermission({"admin.domains.view",
        "admin.dns.view", "admin.mailboxes.view", "admin.aliases.view", "admin.settings.view",
        "admin.templates.view"}))
  OBVIOUS
<1>12. \A r \in {"createDomain"} : Says(PeopleNeeds, r, HasPermission("admin.domains.create"))
  OBVIOUS
<1>13. \A r \in {"updateDomain"} : Says(PeopleNeeds, r, HasPermission("admin.domains.update"))
  OBVIOUS
<1>14. \A r \in {"deleteDomain"} : Says(PeopleNeeds, r, HasPermission("admin.domains.delete"))
  OBVIOUS
<1>15. \A r \in {"mailboxes"} : Says(PeopleNeeds, r, HasAnyPermission({"admin.mailboxes.view",
        "admin.messages.view"}))
  OBVIOUS
<1>16. \A r \in {"createMailbox"} : Says(PeopleNeeds, r, HasPermission("admin.mailboxes.create"))
  OBVIOUS
<1>17. \A r \in {"updateMailbox"} : Says(PeopleNeeds, r, HasPermission("admin.mailboxes.update"))
  OBVIOUS
<1>18. \A r \in {"deleteMailbox"} : Says(PeopleNeeds, r, HasPermission("admin.mailboxes.delete"))
  OBVIOUS
<1>19. \A r \in {"aliases"} : Says(PeopleNeeds, r, HasPermission("admin.aliases.view"))
  OBVIOUS
<1>20. \A r \in {"createAlias"} : Says(PeopleNeeds, r, HasPermission("admin.aliases.create"))
  OBVIOUS
<1>21. \A r \in {"updateAlias"} : Says(PeopleNeeds, r, HasPermission("admin.aliases.update"))
  OBVIOUS
<1>22. \A r \in {"deleteAlias"} : Says(PeopleNeeds, r, HasPermission("admin.aliases.delete"))
  OBVIOUS
<1> HIDE DEF PeopleNeeds, For, Says
<1> QED
  BY <1>1, <1>2, <1>3, <1>4, <1>5, <1>6, <1>7, <1>8, <1>9, <1>10, <1>11, <1>12, <1>13, <1>14, <1>15,
     <1>16, <1>17, <1>18, <1>19, <1>20, <1>21, <1>22

\* And these are all the requests the rows name.
LEMMA PeopleEntries ==
  Entries(PeopleNeeds) = {"adminOverview", "users", "createUser", "updateUser", "resetUserPassword",
    "resetUserTwoFactor", "deleteUser", "permissionGroups", "defaultPermissionLimits",
    "createPermissionGroup", "updatePermissionGroup", "deletePermissionGroup", "domains",
    "createDomain", "updateDomain", "deleteDomain", "mailboxes", "createMailbox", "updateMailbox",
    "deleteMailbox", "aliases", "createAlias", "updateAlias", "deleteAlias"}
  BY DEF PeopleNeeds, For, Entries

\* What the rows of SystemNeeds say.
LEMMA SystemRows ==
  /\ \A r \in {"systemVersion"} : Says(SystemNeeds, r, {})
  /\ \A r \in {"systemOperation", "updateSystem", "rollbackSystem", "deleteSystemRollback"} :
         Says(SystemNeeds, r, HasPermission("role.admin"))
  /\ \A r \in {"adminMessages", "adminSendQueue"} : Says(SystemNeeds, r,
         HasPermission("admin.messages.view"))
  /\ \A r \in {"adminMessagesBatch", "adminSendQueueBatch"} : Says(SystemNeeds, r,
         HasPermission("admin.messages.manage"))
  /\ \A r \in {"adminMessage"} : Says(SystemNeeds, r, HasPermission("admin.messages.read"))
  /\ \A r \in {"adminAttachment"} : Says(SystemNeeds, r,
         HasPermission("admin.messages.attachments"))
  /\ \A r \in {"adminFeedbackTickets", "adminFeedbackTicket"} : Says(SystemNeeds, r,
         HasPermission("admin.feedback.view"))
  /\ \A r \in {"replyAdminFeedbackTicket", "updateAdminFeedbackStatus", "deleteAdminFeedbackTicket"}
         : Says(SystemNeeds, r, HasPermission("admin.feedback.view") \cup
         HasPermission("admin.feedback.manage"))
  /\ \A r \in {"systemSettings", "aiSettings", "adminAnnouncements", "certificateStatus",
         "maildirSyncHealth"} : Says(SystemNeeds, r, HasPermission("admin.settings.view"))
  /\ \A r \in {"updateSystemSettings", "updateAISettings", "testAISettings", "aiModels",
         "publishAnnouncement", "clearAnnouncement", "issueCertificate"} : Says(SystemNeeds, r,
         HasPermission("admin.settings.update"))
  /\ \A r \in {"testSmtp"} : Says(SystemNeeds, r, HasPermission("admin.settings.test_smtp"))
  /\ \A r \in {"mailTemplates"} : Says(SystemNeeds, r, HasPermission("admin.templates.view"))
  /\ \A r \in {"updateMailTemplate"} : Says(SystemNeeds, r, HasPermission("admin.templates.update"))
  /\ \A r \in {"resetMailTemplate"} : Says(SystemNeeds, r, HasPermission("admin.templates.reset"))
  /\ \A r \in {"dnsRecords"} : Says(SystemNeeds, r, HasPermission("admin.dns.view"))
  /\ \A r \in {"checkDns", "mailScore"} : Says(SystemNeeds, r, HasPermission("admin.dns.check"))
<1> USE DEF SystemNeeds, For, Says
<1>1. \A r \in {"systemVersion"} : Says(SystemNeeds, r, {})
  OBVIOUS
<1>2. \A r \in {"systemOperation", "updateSystem", "rollbackSystem", "deleteSystemRollback"} :
        Says(SystemNeeds, r, HasPermission("role.admin"))
  OBVIOUS
<1>3. \A r \in {"adminMessages", "adminSendQueue"} : Says(SystemNeeds, r,
        HasPermission("admin.messages.view"))
  OBVIOUS
<1>4. \A r \in {"adminMessagesBatch", "adminSendQueueBatch"} : Says(SystemNeeds, r,
        HasPermission("admin.messages.manage"))
  OBVIOUS
<1>5. \A r \in {"adminMessage"} : Says(SystemNeeds, r, HasPermission("admin.messages.read"))
  OBVIOUS
<1>6. \A r \in {"adminAttachment"} : Says(SystemNeeds, r,
        HasPermission("admin.messages.attachments"))
  OBVIOUS
<1>7. \A r \in {"adminFeedbackTickets", "adminFeedbackTicket"} : Says(SystemNeeds, r,
        HasPermission("admin.feedback.view"))
  OBVIOUS
<1>8. \A r \in {"replyAdminFeedbackTicket", "updateAdminFeedbackStatus",
        "deleteAdminFeedbackTicket"} : Says(SystemNeeds, r, HasPermission("admin.feedback.view")
        \cup HasPermission("admin.feedback.manage"))
  OBVIOUS
<1>9. \A r \in {"systemSettings", "aiSettings", "adminAnnouncements", "certificateStatus",
        "maildirSyncHealth"} : Says(SystemNeeds, r, HasPermission("admin.settings.view"))
  OBVIOUS
<1>10. \A r \in {"updateSystemSettings", "updateAISettings", "testAISettings", "aiModels",
        "publishAnnouncement", "clearAnnouncement", "issueCertificate"} : Says(SystemNeeds, r,
        HasPermission("admin.settings.update"))
  OBVIOUS
<1>11. \A r \in {"testSmtp"} : Says(SystemNeeds, r, HasPermission("admin.settings.test_smtp"))
  OBVIOUS
<1>12. \A r \in {"mailTemplates"} : Says(SystemNeeds, r, HasPermission("admin.templates.view"))
  OBVIOUS
<1>13. \A r \in {"updateMailTemplate"} : Says(SystemNeeds, r,
        HasPermission("admin.templates.update"))
  OBVIOUS
<1>14. \A r \in {"resetMailTemplate"} : Says(SystemNeeds, r, HasPermission("admin.templates.reset"))
  OBVIOUS
<1>15. \A r \in {"dnsRecords"} : Says(SystemNeeds, r, HasPermission("admin.dns.view"))
  OBVIOUS
<1>16. \A r \in {"checkDns", "mailScore"} : Says(SystemNeeds, r, HasPermission("admin.dns.check"))
  OBVIOUS
<1> HIDE DEF SystemNeeds, For, Says
<1> QED
  BY <1>1, <1>2, <1>3, <1>4, <1>5, <1>6, <1>7, <1>8, <1>9, <1>10, <1>11, <1>12, <1>13, <1>14, <1>15,
     <1>16

\* And these are all the requests the rows name.
LEMMA SystemEntries ==
  Entries(SystemNeeds) = {"systemVersion", "systemOperation", "updateSystem", "rollbackSystem",
    "deleteSystemRollback", "adminMessages", "adminSendQueue", "adminMessagesBatch",
    "adminSendQueueBatch", "adminMessage", "adminAttachment", "adminFeedbackTickets",
    "adminFeedbackTicket", "replyAdminFeedbackTicket", "updateAdminFeedbackStatus",
    "deleteAdminFeedbackTicket", "systemSettings", "aiSettings", "adminAnnouncements",
    "certificateStatus", "maildirSyncHealth", "updateSystemSettings", "updateAISettings",
    "testAISettings", "aiModels", "publishAnnouncement", "clearAnnouncement", "issueCertificate",
    "testSmtp", "mailTemplates", "updateMailTemplate", "resetMailTemplate", "dnsRecords",
    "checkDns", "mailScore"}
  BY DEF SystemNeeds, For, Entries

\* A guard lets only those through whom the server serves, but for the named gaps: each alternative
\* the server asks for contains one the guard asks for.
Allowed(r, guard) ==
    /\ r \in DOMAIN Needs
    /\ r \in Unguarded \/ \A any \in Needs[r] : \E n \in guard : n \subseteq any \cup {"role.admin"}

\* An offer, shown under its own guard and the one of its surroundings, keeps to that.
Fits(o, guard) ==
    /\ o = [what |-> o.what, key |-> o.key, needs |-> o.needs, told |-> o.told, given |-> o.given]
    /\ Allowed(o.what, o.needs \cup guard)
Covered(offers, guard) == \A o \in offers : Fits(o, guard)

\* No request is named by two of the tables.
LEMMA TablesApart ==
  /\ Entries(AccountNeeds) \cap Entries(MailNeeds) = {}
  /\ Entries(AccountNeeds \cup MailNeeds) \cap Entries(AdminNeeds) = {}
  /\ Entries(PeopleNeeds) \cap Entries(SystemNeeds) = {}
<1>1. /\ Entries(AccountNeeds \cup MailNeeds) = Entries(AccountNeeds) \cup Entries(MailNeeds)
      /\ Entries(AdminNeeds) = Entries(PeopleNeeds) \cup Entries(SystemNeeds)
  BY DEF Entries, AdminNeeds
<1>2. Entries(AccountNeeds) \cap Entries(MailNeeds) = {}
  BY AccountEntries, MailEntries
<1>3. Entries(AccountNeeds) \cap Entries(PeopleNeeds) = {}
  BY AccountEntries, PeopleEntries
<1>4. Entries(AccountNeeds) \cap Entries(SystemNeeds) = {}
  BY AccountEntries, SystemEntries
<1>5. Entries(MailNeeds) \cap Entries(PeopleNeeds) = {}
  BY MailEntries, PeopleEntries
<1>6. Entries(MailNeeds) \cap Entries(SystemNeeds) = {}
  BY MailEntries, SystemEntries
<1>7. Entries(PeopleNeeds) \cap Entries(SystemNeeds) = {}
  BY PeopleEntries, SystemEntries
<1> QED
  BY <1>1, <1>2, <1>3, <1>4, <1>5, <1>6, <1>7

\* The answer of a row among rows that do not name the entry.
LEMMA TableAnswer ==
  ASSUME NEW rows, NEW others, NEW r, NEW answer, Says(rows, r, answer), r \notin Entries(others)
  PROVE  r \in Entries(rows \cup others) /\ Table(rows \cup others)[r] = answer
<1>1. r \in Entries(rows \cup others)
  BY DEF Says, Entries
<1>2. {row \in rows \cup others : r \in row.of} = {row \in rows : r \in row.of}
  BY DEF Entries
<1>3. UNION {row.is : row \in {t \in rows : r \in t.of}} = answer
  BY DEF Says
<1> QED
  BY <1>1, <1>2, <1>3 DEF Table

\* The routes outside administration ask for what their row says.
LEMMA PlainServed ==
  ASSUME NEW r, NEW answer, Says(AccountNeeds, r, answer) \/ Says(MailNeeds, r, answer)
  PROVE  Allowed(r, answer)
<1> DEFINE admin == AdminNeeds \cup For(Entries(AdminNeeds), HasAnyPermission(AdminPermissions))
<1>1. Entries(admin) = Entries(AdminNeeds)
  BY DEF Entries, For
<1>2. Needs = Table((AccountNeeds \cup MailNeeds) \cup admin)
  BY DEF Needs
<1> HIDE DEF admin
<1>3. Entries(AccountNeeds \cup MailNeeds) = Entries(AccountNeeds) \cup Entries(MailNeeds)
  BY DEF Entries
<1>4. Says(AccountNeeds \cup MailNeeds, r, answer) /\ r \in Entries(AccountNeeds \cup MailNeeds)
  <2>1. r \in Entries(AccountNeeds) \/ r \in Entries(MailNeeds)
    BY DEF Entries, Says
  <2>2. (\A row \in AccountNeeds : r \notin row.of) \/ (\A row \in MailNeeds : r \notin row.of)
    BY <2>1, TablesApart DEF Entries
  <2> QED
    BY <1>3, <2>1, <2>2, TablesApart DEF Says, Entries
<1>5. r \notin Entries(admin)
  BY <1>1, <1>4, TablesApart
<1>6. r \in DOMAIN Needs /\ Needs[r] = answer
  BY <1>2, <1>4, <1>5, TableAnswer DEF Table
<1> QED
  BY <1>6 DEF Allowed

\* The permissions of the administration, taken together.
LEMMA AdminAnswer ==
  ASSUME NEW r, NEW answer, Says(PeopleNeeds, r, answer) \/ Says(SystemNeeds, r, answer)
  PROVE  r \in DOMAIN Needs /\ Needs[r] = answer \cup HasAnyPermission(AdminPermissions)
<1> DEFINE own == For(Entries(AdminNeeds), HasAnyPermission(AdminPermissions))
           rows == AdminNeeds \cup own
           plain == AccountNeeds \cup MailNeeds
           both == answer \cup HasAnyPermission(AdminPermissions)
<1>1. Needs = Table(rows \cup plain)
  <2>1. AccountNeeds \cup MailNeeds \cup AdminNeeds \cup own = rows \cup plain
    OBVIOUS
  <2> QED
    BY <2>1 DEF Needs
<1>2. Says(AdminNeeds, r, answer) /\ r \in Entries(AdminNeeds)
  <2>1. r \in Entries(PeopleNeeds) \/ r \in Entries(SystemNeeds)
    BY DEF Entries, Says
  <2>2. (\A row \in PeopleNeeds : r \notin row.of) \/ (\A row \in SystemNeeds : r \notin row.of)
    BY <2>1, TablesApart DEF Entries
  <2> QED
    BY <2>1, <2>2 DEF Says, Entries, AdminNeeds
<1>3. UNION {row.is : row \in {t \in rows \cup plain : r \in t.of}} = both
  <2>1. \A row \in plain : r \notin row.of
    BY <1>2, TablesApart DEF Entries
  <2>2. \A row \in rows : r \in row.of => row.is = answer \/ row.is = HasAnyPermission(AdminPermissions)
    BY <1>2 DEF Says, For
  <2>3. \E row \in rows : r \in row.of /\ row.is = answer
    BY <1>2 DEF Says
  <2>4. \E row \in rows : r \in row.of /\ row.is = HasAnyPermission(AdminPermissions)
    <3> DEFINE row == [of |-> Entries(AdminNeeds), is |-> HasAnyPermission(AdminPermissions)]
    <3>1. row \in rows /\ row.of = Entries(AdminNeeds) /\ row.is = HasAnyPermission(AdminPermissions)
      BY DEF For
    <3> QED
      BY <1>2, <3>1
  <2> HIDE DEF rows, plain
  <2> QED
    BY <2>1, <2>2, <2>3, <2>4
<1>4. r \in Entries(rows \cup plain)
  BY <1>2 DEF Entries
<1> HIDE DEF rows, plain, both
<1> QED
  BY <1>1, <1>3, <1>4 DEF Table, both

\* Those of administration ask for what their row says, which is a permission of administration,
LEMMA AdminServed ==
  ASSUME NEW r, NEW answer, answer # {}, Says(PeopleNeeds, r, answer) \/ Says(SystemNeeds, r, answer)
  PROVE  Allowed(r, answer)
<1>1. PICK n \in answer : TRUE
  OBVIOUS
<1>2. \A p \in n : p \in AdminPermissions \cup {"role.admin"}
  <2>1. PICK row \in AdminNeeds : row.is = answer
    BY DEF Says, AdminNeeds
  <2> DEFINE all == UNION {t.is : t \in AdminNeeds}
  <2>2. n \in all
    BY <1>1, <2>1
  <2>3. AdminPermissions = (UNION all) \ {"role.admin"}
    BY DEF AdminPermissions
  <2> HIDE DEF all
  <2> QED
    BY <2>2, <2>3
<1>3. r \in DOMAIN Needs /\ Needs[r] = answer \cup HasAnyPermission(AdminPermissions)
  BY AdminAnswer
<1>4. \A any \in HasAnyPermission(AdminPermissions) : n \subseteq any \cup {"role.admin"}
  BY <1>2 DEF HasAnyPermission
<1> QED
  BY <1>1, <1>3, <1>4 DEF Allowed

\* or for any of those, where it says nothing.
LEMMA AnyAdminServed ==
  ASSUME NEW r, Says(SystemNeeds, r, {}),
         NEW served, NEW p, Says(SystemNeeds, served, HasPermission(p)), p # "role.admin"
  PROVE  Allowed(r, HasPermission(p))
<1>1. p \in AdminPermissions
  <2>1. PICK row \in AdminNeeds : row.is = {{p}}
    BY DEF Says, AdminNeeds, HasPermission
  <2> DEFINE all == UNION {t.is : t \in AdminNeeds}
  <2>2. {p} \in all
    BY <2>1
  <2>3. AdminPermissions = (UNION all) \ {"role.admin"}
    BY DEF AdminPermissions
  <2> HIDE DEF all
  <2> QED
    BY <2>2, <2>3
<1>2. r \in DOMAIN Needs /\ Needs[r] = {} \cup HasAnyPermission(AdminPermissions)
  BY AdminAnswer
<1> QED
  BY <1>1, <1>2 DEF Allowed, HasPermission, HasAnyPermission

\* The role of an administrator is served everywhere, a gap has no guard, and one permission does
\* where one of several is asked for.
LEMMA RoleServed ==
  ASSUME NEW r, NEW g, Allowed(r, g)
  PROVE  Allowed(r, HasPermission("role.admin"))
BY DEF Allowed, HasPermission

\* A request of a named gap is served under any guard.
LEMMA GapServed ==
  ASSUME NEW r \in Unguarded, NEW g, Allowed(r, g)
  PROVE  Allowed(r, {})
BY DEF Allowed

\* A guard of one permission, the server's or a stronger one.
LEMMA OneServed ==
  ASSUME NEW r, NEW ps, NEW p \in ps, Allowed(r, HasAnyPermission(ps))
  PROVE  Allowed(r, HasPermission(p))
BY DEF Allowed, HasPermission, HasAnyPermission

\* What Press, Show and Under make of a request the server serves.
LEMMA GuardedPressGiving ==
  ASSUME NEW r, NEW told, NEW given, NEW needs, NEW g, Allowed(r, needs), needs \subseteq g
  PROVE  Covered(PressGiving(r, told, given), g)
<1> DEFINE o == [what |-> r, key |-> <<>>, needs |-> {}, told |-> told, given |-> given]
<1>1. Allowed(r, g)
  BY DEF Allowed
<1>2. o.what = r /\ o.needs \cup g = g
  OBVIOUS
<1>3. Fits(o, g)
  BY <1>1, <1>2 DEF Fits
<1>4. PressGiving(r, told, given) = {o}
  BY DEF PressGiving
<1> QED
  BY <1>3, <1>4 DEF Covered

LEMMA GuardedPress ==
  ASSUME NEW r, NEW told, NEW needs, NEW g, Allowed(r, needs), needs \subseteq g
  PROVE  Covered(Press(r, told), g)
BY GuardedPressGiving DEF Press

LEMMA GuardedShow ==
  ASSUME NEW r, NEW key, NEW needs, NEW g, Allowed(r, needs), needs \subseteq g
  PROVE  Covered(Show(key, r), g)
<1> DEFINE o == [what |-> r, key |-> key, needs |-> {}, told |-> {}, given |-> {}]
<1>1. Allowed(r, g)
  BY DEF Allowed
<1>2. o.what = r /\ o.needs \cup g = g
  OBVIOUS
<1>3. Fits(o, g)
  BY <1>1, <1>2 DEF Fits
<1>4. Show(key, r) = {o}
  BY DEF Show
<1> QED
  BY <1>3, <1>4 DEF Covered

\* A part of what is guarded is.
LEMMA GuardedWithin ==
  ASSUME NEW A, NEW g, NEW h, Covered(A, g \cup h)
  PROVE  Covered(Under(h, A), g)
<1> SUFFICES ASSUME NEW o \in A
             PROVE  Fits([o EXCEPT !.needs = @ \cup h], g)
  BY DEF Covered, Under
<1> DEFINE w == o.what
           n == o.needs
           u == [what |-> w, key |-> o.key, needs |-> n \cup h, told |-> o.told, given |-> o.given]
<1>1. Fits(o, g \cup h)
  BY DEF Covered
<1>2. [o EXCEPT !.needs = @ \cup h] = u
  BY <1>1 DEF Fits
<1>3. n \cup (g \cup h) = (n \cup h) \cup g
  OBVIOUS
<1>4. u.what = w /\ u.needs = n \cup h /\ Allowed(w, (n \cup h) \cup g)
  BY <1>1, <1>3 DEF Fits
<1>5. u = [what |-> u.what, key |-> u.key, needs |-> u.needs, told |-> u.told, given |-> u.given]
  OBVIOUS
<1> HIDE DEF u, w, n
<1> QED
  BY <1>2, <1>4, <1>5 DEF Fits

\* A stronger guard serves too.
LEMMA GuardedMore ==
  ASSUME NEW A, NEW g, NEW h, g \subseteq h, Covered(A, g)
  PROVE  Covered(A, h)
BY DEF Covered, Fits, Allowed

\* Under adds to the guard what the offers are shown with.
LEMMA GuardedUnder ==
  ASSUME NEW A, NEW g, NEW h, Covered(A, h)
  PROVE  Covered(Under(h, A), g)
<1>1. Covered(A, g \cup h)
  BY GuardedMore
<1> QED
  BY <1>1, GuardedWithin

\* What the server does for whoever the mail page lets ask.
LEMMA MailServed ==
  /\ \A r \in {"publicSettings", "announcement", "me"} : Allowed(r, {})
  /\ Allowed("mailStats", HasPermission("mail.stats.view"))
  /\ Allowed("defaultSignature", HasPermission("mail.signatures.manage"))
  /\ \A r \in {"myMailboxes", "aiStatus"} : Allowed(r, CanAccessMail)
  /\ \A r \in {"folders", "messages", "starredMessages", "labelMessages", "message", "exportMail",
         "translateMessage", "externalMailAccounts", "externalFolders", "externalMessages",
         "externalMessage", "translateExternalMessage", "aiMessage", "sendQueue", "sendQueueAudit"}
         : Allowed(r, CanReadMail)
  /\ \A r \in {"createFolder", "reorderFolders", "deleteFolder", "importMail", "markRead", "star",
         "move", "deleteMessage", "markExternalRead"} : Allowed(r, CanOrganizeMail)
  /\ \A r \in {"createLabel", "deleteLabel", "addMessageLabel", "removeMessageLabel"} : Allowed(r,
         CanManageLabels)
  /\ \A r \in {"attachment", "externalAttachment"} : Allowed(r,
         HasPermission("mail.attachments.download"))
  /\ \A r \in {"send", "aiCompose", "retrySendQueue", "cancelSendQueue"} : Allowed(r, CanSendMail)
  /\ \A r \in {"scheduledSends", "cancelScheduledSend"} : Allowed(r, CanScheduleMail)
  /\ \A r \in {"saveDraft", "deleteDraft"} : Allowed(r, HasPermission("mail.messages.drafts"))
  /\ \A r \in {"labels", "scheduleSend"} : Allowed(r, {})
  /\ \A r \in {"adminMessage", "adminAttachment"} : Allowed(r, {})
  /\ Allowed("adminMessages", CanViewUnknownMail)
<1>1. \A r \in {"publicSettings", "announcement", "me"} : Allowed(r, {})
  BY AccountRows, PlainServed
<1>2. Allowed("mailStats", HasPermission("mail.stats.view"))
  BY AccountRows, PlainServed
<1>3. Allowed("defaultSignature", HasPermission("mail.signatures.manage"))
  BY AccountRows, PlainServed
<1>4. \A r \in {"myMailboxes", "aiStatus"} : Allowed(r, CanAccessMail)
  BY MailRows, PlainServed DEF CanAccessMail
<1>5. \A r \in {"folders", "messages", "starredMessages", "labelMessages", "message", "exportMail",
        "translateMessage", "externalMailAccounts", "externalFolders", "externalMessages",
        "externalMessage", "translateExternalMessage", "aiMessage", "sendQueue", "sendQueueAudit"} :
        Allowed(r, CanReadMail)
  BY MailRows, PlainServed DEF CanReadMail
<1>6. \A r \in {"createFolder", "reorderFolders", "deleteFolder", "importMail", "markRead", "star",
        "move", "deleteMessage", "markExternalRead"} : Allowed(r, CanOrganizeMail)
  BY MailRows, PlainServed DEF CanOrganizeMail
<1>7. \A r \in {"createLabel", "deleteLabel", "addMessageLabel", "removeMessageLabel"} : Allowed(r,
        CanManageLabels)
  BY MailRows, PlainServed DEF CanManageLabels
<1>8. \A r \in {"attachment", "externalAttachment"} : Allowed(r,
        HasPermission("mail.attachments.download"))
  BY MailRows, PlainServed
<1>9. \A r \in {"send", "aiCompose", "retrySendQueue", "cancelSendQueue"} : Allowed(r, CanSendMail)
  BY MailRows, PlainServed DEF CanSendMail
<1>10. \A r \in {"scheduledSends", "cancelScheduledSend"} : Allowed(r, CanScheduleMail)
  BY MailRows, PlainServed DEF CanScheduleMail
<1>11. \A r \in {"saveDraft", "deleteDraft"} : Allowed(r, HasPermission("mail.messages.drafts"))
  BY MailRows, PlainServed
<1>12. \A r \in {"labels", "scheduleSend"} : Allowed(r, {})
  BY MailRows, PlainServed, GapServed DEF Unguarded
<1>13. \A r \in {"adminMessage", "adminAttachment"} : Allowed(r, {})
  BY SystemRows, AdminServed, GapServed DEF Unguarded, HasPermission
<1>14. Allowed("adminMessages", CanViewUnknownMail)
  BY SystemRows, AdminServed, RoleServed DEF CanViewUnknownMail, HasPermission
<1> QED
  BY <1>1, <1>2, <1>3, <1>4, <1>5, <1>6, <1>7, <1>8, <1>9, <1>10, <1>11, <1>12, <1>13, <1>14

\* The queries of the mail page.
LEMMA MailQueriesGuarded ==
  /\ Covered(UseMe, {})
  /\ Covered(PublicSettings, {})
  /\ Covered(AnnouncementBanner, {})
  /\ Covered(MailboxList, {})
  /\ Covered(ExternalAccounts, {})
  /\ Covered(FolderList, {})
  /\ Covered(LabelItems, {})
  /\ Covered(MailStats, {})
  /\ Covered(ScheduledList, {})
  /\ Covered(SendQueueList, {})
  /\ Covered(SendQueueAudit, {})
  /\ Covered(InboxProbe, {})
  /\ Covered(MessageList, {})
  /\ Covered(UnknownMessages, {})
  /\ Covered(ExternalMessages, {})
  /\ Covered(OpenDetail, {})
<1> USE MailServed, GuardedShow, GuardedPress, GuardedPressGiving, GuardedUnder DEF Covered
<1>1. Covered(UseMe, {})
  BY DEF UseMe
<1>2. Covered(PublicSettings, {})
  BY DEF PublicSettings
<1>3. Covered(AnnouncementBanner, {})
  BY DEF AnnouncementBanner
<1>4. Covered(MailboxList, {})
  BY DEF MailboxList
<1>5. Covered(ExternalAccounts, {})
  BY DEF ExternalAccounts
<1>6. Covered(FolderList, {})
  BY DEF FolderList
<1>7. Covered(LabelItems, {})
  BY DEF LabelItems
<1>8. Covered(MailStats, {})
  BY DEF MailStats
<1>9. Covered(ScheduledList, {})
  BY DEF ScheduledList
<1>10. Covered(SendQueueList, {})
  BY DEF SendQueueList
<1>11. Covered(SendQueueAudit, {})
  BY DEF SendQueueAudit
<1>12. Covered(InboxProbe, {})
  BY DEF InboxProbe
<1>13. Covered(MessageList, {})
  BY DEF MessageList
<1>14. Covered(UnknownMessages, {})
  BY DEF UnknownMessages
<1>15. Covered(ExternalMessages, {})
  BY DEF ExternalMessages
<1>16. Covered(OpenDetail, {})
  <2>1. Covered(Show(<<"message", "id", "external">>, "externalMessage"), CanReadMail \cup CanAccessMail)
    OBVIOUS
  <2>2. Covered(Under(CanAccessMail, Show(<<"message", "id", "external">>, "externalMessage")), CanReadMail)
    BY <2>1, GuardedWithin
  <2> QED
    BY <2>2 DEF OpenDetail
<1> HIDE DEF Covered
<1> QED
  BY <1>1, <1>2, <1>3, <1>4, <1>5, <1>6, <1>7, <1>8, <1>9, <1>10, <1>11, <1>12, <1>13, <1>14, <1>15,
     <1>16

\* What the mail page offers for a mail, for many, for folders, labels and mails that wait.
LEMMA MailPressesGuarded ==
  /\ Covered(MessageRow, {})
  /\ Covered(CompactMessageRow, {})
  /\ Covered(OpenMessage, {})
  /\ Covered(MessageContextMenu, {})
  /\ Covered(MessageMetaPanel, {})
  /\ Covered(BulkActionToolbar, {})
  /\ Covered(MailTransferTools, {})
  /\ Covered(CreateFolderDialog, {})
  /\ Covered(SidebarContextMenu, {})
  /\ Covered(NewLabelButton, {})
  /\ Covered(FolderDragging, {})
  /\ Covered(ScheduledSendRow, {})
  /\ Covered(SendQueueRow, {})
  /\ Covered(AttachmentHref, {})
  /\ Covered(Under(MailShown \cup CanOrganizeMail, Move \cup Del), {})
<1> USE MailServed, GuardedShow, GuardedPress, GuardedPressGiving, GuardedUnder DEF Covered
<1>1. Covered(MessageRow, {})
  BY DEF MessageRow, Star, Move, Del, MarkRead
<1>2. Covered(CompactMessageRow, {})
  BY DEF CompactMessageRow, Star
<1>3. Covered(OpenMessage, {})
  BY DEF OpenMessage, MarkRead, MarkExternalRead
<1>4. Covered(MessageContextMenu, {})
  BY DEF MessageContextMenu, MarkRead, Star, Move, Del, AddLabel, RemoveLabel
<1>5. Covered(MessageMetaPanel, {})
  BY DEF MessageMetaPanel, AddLabel, RemoveLabel
<1>6. Covered(BulkActionToolbar, {})
  BY DEF BulkActionToolbar
<1>7. Covered(MailTransferTools, {})
  BY DEF MailTransferTools, MailShown
<1>8. Covered(CreateFolderDialog, {})
  BY DEF CreateFolderDialog
<1>9. Covered(SidebarContextMenu, {})
  BY DEF SidebarContextMenu, ReorderFolders
<1>10. Covered(NewLabelButton, {})
  BY DEF NewLabelButton
<1>11. Covered(FolderDragging, {})
  BY DEF FolderDragging, ReorderFolders
<1>12. Covered(ScheduledSendRow, {})
  BY DEF ScheduledSendRow
<1>13. Covered(SendQueueRow, {})
  BY DEF SendQueueRow
<1>14. Covered(AttachmentHref, {})
  BY DEF AttachmentHref
<1>15. Covered(Under(MailShown \cup CanOrganizeMail, Move \cup Del), {})
  BY DEF Move, Del
<1> HIDE DEF Covered
<1> QED
  BY <1>1, <1>2, <1>3, <1>4, <1>5, <1>6, <1>7, <1>8, <1>9, <1>10, <1>11, <1>12, <1>13, <1>14, <1>15

\* The assistant.
LEMMA AssistantGuarded ==
  /\ Covered(AIMailAssistant("summary"), {})
  /\ Covered(AIMailAssistant("reply"), {})
  /\ Covered(AIMailAssistant("compose"), {})
<1> USE MailServed, GuardedShow, GuardedPress, GuardedPressGiving, GuardedUnder DEF Covered
<1>1. Covered(AIMailAssistant("summary"), {})
  BY DEF AIMailAssistant
<1>2. Covered(AIMailAssistant("reply"), {})
  BY DEF AIMailAssistant
<1>3. Covered(AIMailAssistant("compose"), {})
  BY DEF AIMailAssistant
<1> HIDE DEF Covered
<1> QED
  BY <1>1, <1>2, <1>3

\* What the server does for whoever the user's own page lets ask.
LEMMA ProfileServed ==
  /\ \A r \in {"publicSettings", "version", "me", "changePassword", "setupTwoFactor",
         "enableTwoFactor", "disableTwoFactor", "feedbackTickets", "feedbackTicket",
         "createFeedbackTicket", "replyFeedbackTicket", "closeFeedbackTicket",
         "deleteFeedbackTicket", "apiTokens", "createApiToken", "updateApiToken", "deleteApiToken"}
         : Allowed(r, {})
  /\ Allowed("createSignature", {})
  /\ \A r \in {"labels", "createLabel", "deleteLabel"} : Allowed(r, {})
  /\ Allowed("myMailboxes", SelectedMailbox)
  /\ \A r \in {"clientAccessEvents", "deleteClientAccessEvents", "forwardingSettings",
         "addForwardingVerifiedEmail", "resendForwardingVerifiedEmail",
         "deleteForwardingVerifiedEmail", "updateAccountForwarding", "updateMailboxForwarding",
         "createMailboxAppPassword", "deleteMailboxAppPassword", "externalImapAccounts"} :
         Allowed(r, SelectedMailbox)
  /\ \A r \in {"mailboxApplyOptions", "applyMailbox"} : Allowed(r,
         HasPermission("mail.mailboxes.apply"))
  /\ \A r \in {"contacts", "createContact", "deleteContact"} : Allowed(r,
         HasPermission("mail.contacts.manage"))
  /\ \A r \in {"signatures", "updateSignature", "setDefaultSignature", "deleteSignature"} :
         Allowed(r, HasPermission("mail.signatures.manage"))
  /\ \A r \in {"rules", "createRule", "updateRule", "moveRule", "applyRule", "deleteRule"} :
         Allowed(r, HasPermission("mail.rules.manage"))
  /\ \A r \in {"blockedSenders", "createBlockedSender", "deleteBlockedSender"} : Allowed(r,
         HasPermission("mail.blocked_senders.manage"))
  /\ Allowed("mailStats", HasPermission("mail.stats.view"))
  /\ Allowed("cleanupMail", HasPermission("mail.messages.organize"))
<1>1. \A r \in {"publicSettings", "version", "me", "changePassword", "setupTwoFactor",
        "enableTwoFactor", "disableTwoFactor", "feedbackTickets", "feedbackTicket",
        "createFeedbackTicket", "replyFeedbackTicket", "closeFeedbackTicket",
        "deleteFeedbackTicket", "apiTokens", "createApiToken", "updateApiToken", "deleteApiToken"} :
        Allowed(r, {})
  BY AccountRows, PlainServed
<1>2. Allowed("createSignature", {})
  BY AccountRows, PlainServed, GapServed DEF Unguarded
<1>3. \A r \in {"labels", "createLabel", "deleteLabel"} : Allowed(r, {})
  BY MailRows, PlainServed, GapServed DEF Unguarded
<1>4. Allowed("myMailboxes", SelectedMailbox)
  BY MailRows, PlainServed DEF SelectedMailbox
<1>5. \A r \in {"clientAccessEvents", "deleteClientAccessEvents", "forwardingSettings",
        "addForwardingVerifiedEmail", "resendForwardingVerifiedEmail",
        "deleteForwardingVerifiedEmail", "updateAccountForwarding", "updateMailboxForwarding",
        "createMailboxAppPassword", "deleteMailboxAppPassword", "externalImapAccounts"} : Allowed(r,
        SelectedMailbox)
  BY AccountRows, PlainServed DEF SelectedMailbox
<1>6. \A r \in {"mailboxApplyOptions", "applyMailbox"} : Allowed(r,
        HasPermission("mail.mailboxes.apply"))
  BY AccountRows, PlainServed
<1>7. \A r \in {"contacts", "createContact", "deleteContact"} : Allowed(r,
        HasPermission("mail.contacts.manage"))
  BY AccountRows, PlainServed
<1>8. \A r \in {"signatures", "updateSignature", "setDefaultSignature", "deleteSignature"} :
        Allowed(r, HasPermission("mail.signatures.manage"))
  BY AccountRows, PlainServed
<1>9. \A r \in {"rules", "createRule", "updateRule", "moveRule", "applyRule", "deleteRule"} :
        Allowed(r, HasPermission("mail.rules.manage"))
  BY AccountRows, PlainServed
<1>10. \A r \in {"blockedSenders", "createBlockedSender", "deleteBlockedSender"} : Allowed(r,
        HasPermission("mail.blocked_senders.manage"))
  BY AccountRows, PlainServed
<1>11. Allowed("mailStats", HasPermission("mail.stats.view"))
  BY AccountRows, PlainServed
<1>12. Allowed("cleanupMail", HasPermission("mail.messages.organize"))
  BY AccountRows, PlainServed
<1> QED
  BY <1>1, <1>2, <1>3, <1>4, <1>5, <1>6, <1>7, <1>8, <1>9, <1>10, <1>11, <1>12

\* What the server does for whoever the page of administration lets ask.
LEMMA AdminServedAll ==
  /\ Allowed("adminOverview", HasPermission("admin.overview.view"))
  /\ Allowed("users", HasAnyPermission({"admin.users.view", "admin.mailboxes.view"}))
  /\ Allowed("createUser", HasPermission("admin.users.create"))
  /\ Allowed("updateUser", HasPermission("admin.users.update"))
  /\ \A r \in {"resetUserPassword", "resetUserTwoFactor"} : Allowed(r,
         HasPermission("admin.users.reset_password"))
  /\ Allowed("deleteUser", HasPermission("admin.users.delete"))
  /\ \A r \in {"permissionGroups", "defaultPermissionLimits"} : Allowed(r,
         HasAnyPermission({"admin.permission_groups.view", "admin.users.view"}))
  /\ Allowed("createPermissionGroup", HasPermission("admin.permission_groups.create"))
  /\ Allowed("updatePermissionGroup", HasPermission("admin.permission_groups.update"))
  /\ Allowed("deletePermissionGroup", HasPermission("admin.permission_groups.delete"))
  /\ Allowed("domains", HasAnyPermission({"admin.domains.view", "admin.dns.view",
         "admin.mailboxes.view", "admin.aliases.view", "admin.settings.view",
         "admin.templates.view"}))
  /\ Allowed("createDomain", HasPermission("admin.domains.create"))
  /\ Allowed("updateDomain", HasPermission("admin.domains.update"))
  /\ Allowed("deleteDomain", HasPermission("admin.domains.delete"))
  /\ Allowed("mailboxes", HasAnyPermission({"admin.mailboxes.view", "admin.messages.view"}))
  /\ Allowed("createMailbox", HasPermission("admin.mailboxes.create"))
  /\ Allowed("updateMailbox", HasPermission("admin.mailboxes.update"))
  /\ Allowed("deleteMailbox", HasPermission("admin.mailboxes.delete"))
  /\ Allowed("aliases", HasPermission("admin.aliases.view"))
  /\ Allowed("createAlias", HasPermission("admin.aliases.create"))
  /\ Allowed("updateAlias", HasPermission("admin.aliases.update"))
  /\ Allowed("deleteAlias", HasPermission("admin.aliases.delete"))
  /\ \A r \in {"systemOperation", "updateSystem", "rollbackSystem", "deleteSystemRollback"} :
         Allowed(r, HasPermission("role.admin"))
  /\ \A r \in {"adminMessages", "adminSendQueue"} : Allowed(r, HasPermission("admin.messages.view"))
  /\ \A r \in {"adminMessagesBatch", "adminSendQueueBatch"} : Allowed(r,
         HasPermission("admin.messages.manage"))
  /\ Allowed("adminMessage", {})
  /\ Allowed("adminAttachment", {})
  /\ \A r \in {"adminFeedbackTickets", "adminFeedbackTicket"} : Allowed(r,
         HasPermission("admin.feedback.view"))
  /\ \A r \in {"replyAdminFeedbackTicket", "updateAdminFeedbackStatus", "deleteAdminFeedbackTicket"}
         : Allowed(r, HasPermission("admin.feedback.view") \cup
         HasPermission("admin.feedback.manage"))
  /\ \A r \in {"systemSettings", "aiSettings", "adminAnnouncements", "certificateStatus",
         "maildirSyncHealth"} : Allowed(r, HasPermission("admin.settings.view"))
  /\ \A r \in {"updateSystemSettings", "updateAISettings", "testAISettings", "aiModels",
         "publishAnnouncement", "clearAnnouncement", "issueCertificate"} : Allowed(r,
         HasPermission("admin.settings.update"))
  /\ Allowed("testSmtp", HasPermission("admin.settings.test_smtp"))
  /\ Allowed("mailTemplates", HasPermission("admin.templates.view"))
  /\ Allowed("updateMailTemplate", HasPermission("admin.templates.update"))
  /\ Allowed("resetMailTemplate", HasPermission("admin.templates.reset"))
  /\ Allowed("dnsRecords", HasPermission("admin.dns.view"))
  /\ \A r \in {"checkDns", "mailScore"} : Allowed(r, HasPermission("admin.dns.check"))
  /\ Allowed("systemVersion", HasPermission("admin.settings.view"))
  /\ Allowed("defaultPermissionLimits", HasPermission("admin.permission_groups.view"))
  /\ Allowed("me", {})
<1>1. Allowed("adminOverview", HasPermission("admin.overview.view"))
  BY PeopleRows, AdminServed DEF HasPermission
<1>2. Allowed("users", HasAnyPermission({"admin.users.view", "admin.mailboxes.view"}))
  BY PeopleRows, AdminServed DEF HasAnyPermission
<1>3. Allowed("createUser", HasPermission("admin.users.create"))
  BY PeopleRows, AdminServed DEF HasPermission
<1>4. Allowed("updateUser", HasPermission("admin.users.update"))
  BY PeopleRows, AdminServed DEF HasPermission
<1>5. \A r \in {"resetUserPassword", "resetUserTwoFactor"} : Allowed(r,
        HasPermission("admin.users.reset_password"))
  BY PeopleRows, AdminServed DEF HasPermission
<1>6. Allowed("deleteUser", HasPermission("admin.users.delete"))
  BY PeopleRows, AdminServed DEF HasPermission
<1>7. \A r \in {"permissionGroups", "defaultPermissionLimits"} : Allowed(r,
        HasAnyPermission({"admin.permission_groups.view", "admin.users.view"}))
  BY PeopleRows, AdminServed DEF HasAnyPermission
<1>8. Allowed("createPermissionGroup", HasPermission("admin.permission_groups.create"))
  BY PeopleRows, AdminServed DEF HasPermission
<1>9. Allowed("updatePermissionGroup", HasPermission("admin.permission_groups.update"))
  BY PeopleRows, AdminServed DEF HasPermission
<1>10. Allowed("deletePermissionGroup", HasPermission("admin.permission_groups.delete"))
  BY PeopleRows, AdminServed DEF HasPermission
<1>11. Allowed("domains", HasAnyPermission({"admin.domains.view", "admin.dns.view",
        "admin.mailboxes.view", "admin.aliases.view", "admin.settings.view",
        "admin.templates.view"}))
  BY PeopleRows, AdminServed DEF HasAnyPermission
<1>12. Allowed("createDomain", HasPermission("admin.domains.create"))
  BY PeopleRows, AdminServed DEF HasPermission
<1>13. Allowed("updateDomain", HasPermission("admin.domains.update"))
  BY PeopleRows, AdminServed DEF HasPermission
<1>14. Allowed("deleteDomain", HasPermission("admin.domains.delete"))
  BY PeopleRows, AdminServed DEF HasPermission
<1>15. Allowed("mailboxes", HasAnyPermission({"admin.mailboxes.view", "admin.messages.view"}))
  BY PeopleRows, AdminServed DEF HasAnyPermission
<1>16. Allowed("createMailbox", HasPermission("admin.mailboxes.create"))
  BY PeopleRows, AdminServed DEF HasPermission
<1>17. Allowed("updateMailbox", HasPermission("admin.mailboxes.update"))
  BY PeopleRows, AdminServed DEF HasPermission
<1>18. Allowed("deleteMailbox", HasPermission("admin.mailboxes.delete"))
  BY PeopleRows, AdminServed DEF HasPermission
<1>19. Allowed("aliases", HasPermission("admin.aliases.view"))
  BY PeopleRows, AdminServed DEF HasPermission
<1>20. Allowed("createAlias", HasPermission("admin.aliases.create"))
  BY PeopleRows, AdminServed DEF HasPermission
<1>21. Allowed("updateAlias", HasPermission("admin.aliases.update"))
  BY PeopleRows, AdminServed DEF HasPermission
<1>22. Allowed("deleteAlias", HasPermission("admin.aliases.delete"))
  BY PeopleRows, AdminServed DEF HasPermission
<1>23. \A r \in {"systemOperation", "updateSystem", "rollbackSystem", "deleteSystemRollback"} :
        Allowed(r, HasPermission("role.admin"))
  BY SystemRows, AdminServed DEF HasPermission
<1>24. \A r \in {"adminMessages", "adminSendQueue"} : Allowed(r,
        HasPermission("admin.messages.view"))
  BY SystemRows, AdminServed DEF HasPermission
<1>25. \A r \in {"adminMessagesBatch", "adminSendQueueBatch"} : Allowed(r,
        HasPermission("admin.messages.manage"))
  BY SystemRows, AdminServed DEF HasPermission
<1>26. Allowed("adminMessage", {})
  BY SystemRows, AdminServed, GapServed DEF Unguarded, HasPermission
<1>27. Allowed("adminAttachment", {})
  BY SystemRows, AdminServed, GapServed DEF Unguarded, HasPermission
<1>28. \A r \in {"adminFeedbackTickets", "adminFeedbackTicket"} : Allowed(r,
        HasPermission("admin.feedback.view"))
  BY SystemRows, AdminServed DEF HasPermission
<1>29. \A r \in {"replyAdminFeedbackTicket", "updateAdminFeedbackStatus",
        "deleteAdminFeedbackTicket"} : Allowed(r, HasPermission("admin.feedback.view") \cup
        HasPermission("admin.feedback.manage"))
  BY SystemRows, AdminServed DEF HasPermission
<1>30. \A r \in {"systemSettings", "aiSettings", "adminAnnouncements", "certificateStatus",
        "maildirSyncHealth"} : Allowed(r, HasPermission("admin.settings.view"))
  BY SystemRows, AdminServed DEF HasPermission
<1>31. \A r \in {"updateSystemSettings", "updateAISettings", "testAISettings", "aiModels",
        "publishAnnouncement", "clearAnnouncement", "issueCertificate"} : Allowed(r,
        HasPermission("admin.settings.update"))
  BY SystemRows, AdminServed DEF HasPermission
<1>32. Allowed("testSmtp", HasPermission("admin.settings.test_smtp"))
  BY SystemRows, AdminServed DEF HasPermission
<1>33. Allowed("mailTemplates", HasPermission("admin.templates.view"))
  BY SystemRows, AdminServed DEF HasPermission
<1>34. Allowed("updateMailTemplate", HasPermission("admin.templates.update"))
  BY SystemRows, AdminServed DEF HasPermission
<1>35. Allowed("resetMailTemplate", HasPermission("admin.templates.reset"))
  BY SystemRows, AdminServed DEF HasPermission
<1>36. Allowed("dnsRecords", HasPermission("admin.dns.view"))
  BY SystemRows, AdminServed DEF HasPermission
<1>37. \A r \in {"checkDns", "mailScore"} : Allowed(r, HasPermission("admin.dns.check"))
  BY SystemRows, AdminServed DEF HasPermission
<1>38. Allowed("systemVersion", HasPermission("admin.settings.view"))
  BY SystemRows, AnyAdminServed
<1>39. Allowed("defaultPermissionLimits", HasPermission("admin.permission_groups.view"))
  BY <1>7, OneServed
<1>40. Allowed("me", {})
  BY AccountRows, PlainServed
<1> QED
  BY <1>1, <1>2, <1>3, <1>4, <1>5, <1>6, <1>7, <1>8, <1>9, <1>10, <1>11, <1>12, <1>13, <1>14, <1>15,
     <1>16, <1>17, <1>18, <1>19, <1>20, <1>21, <1>22, <1>23, <1>24, <1>25, <1>26, <1>27, <1>28,
     <1>29, <1>30, <1>31, <1>32, <1>33, <1>34, <1>35, <1>36, <1>37, <1>38, <1>39, <1>40

\* The parts of the mail page that hold others.
LEMMA MailPartsGuarded ==
  /\ Covered(TranslatableMailBody, {})
  /\ Covered(CompactMessageDetail, {})
  /\ Covered(LabelList, {})
  /\ Covered(Composer, {})
  /\ Covered(CustomMailMenu, {})
<1> USE MailServed, MailQueriesGuarded, MailPressesGuarded, GuardedPress, GuardedUnder DEF Covered
<1>1. Covered(TranslatableMailBody, {})
  BY AssistantGuarded, GuardedMore DEF TranslatableMailBody, MailShown
<1>2. Covered(CompactMessageDetail, {})
  BY <1>1 DEF CompactMessageDetail, Star, Move, Del, MarkRead
<1>3. Covered(LabelList, {})
  BY DEF LabelList
<1>4. Covered(Composer, {})
  <2> DEFINE mayDraft == HasPermission("mail.messages.drafts")
  <2>1. Covered(Under(mayDraft, Press("deleteDraft", ComposerSent)), ComposerOpen \cup CanSendMail)
    OBVIOUS
  <2>2. Covered(Press("send", ComposerSent), ComposerOpen \cup CanSendMail)
    OBVIOUS
  <2>3. Covered(Under(ComposerOpen, AIMailAssistant("compose")), {})
    BY AssistantGuarded, GuardedMore
  <2>4. Covered(Under(ComposerOpen \cup HasPermission("mail.signatures.manage"),
                     Show(<<"signature", "default", "mailbox">>, "defaultSignature")), {})
    BY GuardedShow
  <2>5. Covered(Under(ComposerOpen \cup mayDraft,
                     Press("saveDraft", {<<"messages">>, <<"folders">>, <<"mail-stats">>})), {})
    OBVIOUS
  <2>6. Covered(Under(ComposerOpen \cup CanScheduleMail, Press("scheduleSend", ComposerSent)), {})
    OBVIOUS
  <2>7. Covered(Under(ComposerOpen \cup CanSendMail,
                     Press("send", ComposerSent) \cup Under(mayDraft, Press("deleteDraft", ComposerSent))), {})
    BY <2>1, <2>2
  <2> QED
    BY <2>3, <2>4, <2>5, <2>6, <2>7 DEF Composer
<1>5. Covered(CustomMailMenu, {})
  BY GuardedMore DEF CustomMailMenu
<1> HIDE DEF Covered
<1> QED
  BY <1>1, <1>2, <1>3, <1>4, <1>5

\* The mail page asks for nothing it does not guard.
LEMMA MailPageGuarded == Covered(MailPage, {})
<1> USE MailQueriesGuarded, MailPressesGuarded, MailPartsGuarded DEF Covered
<1>1. Covered(Sidebar, {})
  BY DEF Sidebar, AccountHeader, MailboxSwitcher, PrimaryMailMenu, ExternalAccountMenu
<1>2. Covered(TwoPaneMailView, {})
  BY DEF TwoPaneMailView, AdvancedSearchPanel
<1>3. Covered(CompactMailView, {})
  BY DEF CompactMailView
<1>4. Covered(ContentView, {})
  BY <1>2, <1>3 DEF ContentView, ScheduledSendView, SendQueueView
<1> QED
  BY <1>1, <1>4 DEF MailPage, SendQueueAuditDialog

\* The sections of the user's own page, under what the page shows them with.
LEMMA ProfileSectionsGuarded ==
  /\ Covered(UseMe, {})
  /\ Covered(ProfileQueries, {})
  /\ Covered(AccountSettingsSection, {})
  /\ Covered(MailboxManagement, {})
  /\ Covered(ContactsSection, HasPermission("mail.contacts.manage"))
  /\ Covered(CleanupSection, HasPermission("mail.messages.organize"))
  /\ Covered(RulesSection, HasPermission("mail.rules.manage"))
  /\ Covered(BlockedSection, HasPermission("mail.blocked_senders.manage"))
  /\ Covered(FeedbackSection, {})
  /\ Covered(ApiTokensSection, {})
<1> USE ProfileServed, GuardedShow, GuardedPress, GuardedPressGiving, GuardedUnder DEF Covered
<1>1. Covered(UseMe, {})
  BY DEF UseMe
<1>2. Covered(ProfileQueries, {})
  BY DEF ProfileQueries, ForwardingRules, SelectedMailbox
<1>3. Covered(AccountSettingsSection, {})
  BY DEF AccountSettingsSection, AccountTabSection, MailPreferencesSection, EditSignatureForm,
         ClientSettingsSection, SecuritySettingsSection
<1>4. Covered(MailboxManagement, {})
  BY DEF MailboxManagement
<1>5. Covered(ContactsSection, HasPermission("mail.contacts.manage"))
  BY DEF ContactsSection
<1>6. Covered(CleanupSection, HasPermission("mail.messages.organize"))
  <2> DEFINE told == {<<"mail-stats">>, <<"folders">>, <<"messages">>}
  <2>1. Covered(Press("cleanupMail", told), HasPermission("mail.messages.organize") \cup SelectedMailbox)
    OBVIOUS
  <2> QED
    BY <2>1, GuardedWithin DEF CleanupSection
<1>7. Covered(RulesSection, HasPermission("mail.rules.manage"))
  BY DEF RulesSection, RuleListItem, RuleDialog
<1>8. Covered(BlockedSection, HasPermission("mail.blocked_senders.manage"))
  BY DEF BlockedSection
<1>9. Covered(FeedbackSection, {})
  BY DEF FeedbackSection
<1>10. Covered(ApiTokensSection, {})
  BY DEF ApiTokensSection
<1> HIDE DEF Covered
<1> QED
  BY <1>1, <1>2, <1>3, <1>4, <1>5, <1>6, <1>7, <1>8, <1>9, <1>10

\* Nor does the user's own page,
LEMMA ProfilePageGuarded == Covered(ProfilePage, {})
BY ProfileSectionsGuarded, GuardedUnder, GuardedMore DEF ProfilePage, Covered

\* The sections of the page of administration.
LEMMA AccountsGuarded ==
  /\ Covered(UseMe, {})
  /\ Covered(AdminQueries, {})
  /\ Covered(UsersSection, {})
  /\ Covered(PermissionGroupsSection, HasPermission("admin.permission_groups.view"))
  /\ Covered(DomainsSection, {})
  /\ Covered(MailboxesSection, {})
  /\ Covered(AliasesSection, {})
<1> USE AdminServedAll, GuardedShow, GuardedPress, GuardedUnder DEF Covered
<1>1. Covered(UseMe, {})
  BY DEF UseMe
<1>2. Covered(AdminQueries, {})
  BY DEF AdminQueries
<1>3. Covered(UsersSection, {})
  BY DEF UsersSection, CreateUserDialog, UserActions, EditUserDialog, ResetPasswordDialog
<1>4. Covered(PermissionGroupsSection, HasPermission("admin.permission_groups.view"))
  <2> DEFINE view == HasPermission("admin.permission_groups.view")
             create == HasPermission("admin.permission_groups.create")
             update == HasPermission("admin.permission_groups.update")
  <2>1. Covered(DefaultLimits, view)
    BY DEF DefaultLimits
  <2>2. Covered(PermissionGroupDialog("createPermissionGroup"), view \cup create)
    BY <2>1, GuardedMore DEF PermissionGroupDialog
  <2>3. Covered(PermissionGroupDialog("updatePermissionGroup"), view \cup update)
    BY <2>1, GuardedMore DEF PermissionGroupDialog
  <2>4. Covered(Under(create, PermissionGroupDialog("createPermissionGroup")), view)
    BY <2>2, GuardedWithin
  <2>5. Covered(Under(update, PermissionGroupDialog("updatePermissionGroup")), view)
    BY <2>3, GuardedWithin
  <2> QED
    BY <2>1, <2>4, <2>5 DEF PermissionGroupsSection, PermissionLimitBadges
<1>5. Covered(DomainsSection, {})
  BY DEF DomainsSection, CreateDomainDialog, DomainDNSDialog, DNSPanel
<1>6. Covered(MailboxesSection, {})
  BY DEF MailboxesSection, CreateMailboxDialog, EditMailboxDialog
<1>7. Covered(AliasesSection, {})
  BY DEF AliasesSection, CreateAliasDialog
<1> HIDE DEF Covered
<1> QED
  BY <1>1, <1>2, <1>3, <1>4, <1>5, <1>6, <1>7

\* nor the settings of the system,
LEMMA SystemGuarded ==
  /\ Covered(AdminMessagesSection, HasPermission("admin.messages.view"))
  /\ Covered(AdminSendAuditSection, HasPermission("admin.messages.view"))
  /\ Covered(AdminFeedbackSection, HasPermission("admin.feedback.view"))
  /\ Covered(SystemSettingsSection, {})
<1> USE AdminServedAll, GuardedShow, GuardedPress, GuardedPressGiving, GuardedUnder DEF Covered
<1>1. Covered(AdminMessagesSection, HasPermission("admin.messages.view"))
  BY DEF AdminMessagesSection, AdminMessageDialog
<1>2. Covered(AdminSendAuditSection, HasPermission("admin.messages.view"))
  BY DEF AdminSendAuditSection
<1>3. Covered(AdminFeedbackSection, HasPermission("admin.feedback.view"))
  <2> DEFINE told == {<<"admin", "feedback-tickets">>, <<"feedback-tickets">>}
             presses == Press("replyAdminFeedbackTicket", told) \cup Press("updateAdminFeedbackStatus", told)
                        \cup Press("deleteAdminFeedbackTicket", told)
  <2>1. Covered(presses, HasPermission("admin.feedback.view") \cup HasPermission("admin.feedback.manage"))
    OBVIOUS
  <2>2. Covered(Under(HasPermission("admin.feedback.manage"), presses), HasPermission("admin.feedback.view"))
    BY <2>1, GuardedWithin
  <2> QED
    BY <2>2 DEF AdminFeedbackSection
<1>4. Covered(SystemSettingsSection, {})
  <2>1. Covered(AISettingsCard, HasPermission("admin.settings.view"))
    BY DEF AISettingsCard, AISettingsFields
  <2>2. Covered(AnnouncementSettingsCard, HasPermission("admin.settings.view"))
    BY DEF AnnouncementSettingsCard
  <2>3. Covered(MaildirSyncHealthCard \cup CertificateSettingsCard, HasPermission("admin.settings.view"))
    BY DEF MaildirSyncHealthCard, CertificateSettingsCard
  <2>4. Covered(AboutProjectCard, HasPermission("admin.settings.view"))
    BY DEF AboutProjectCard, SystemVersionDialog
  <2>5. Covered(MailTemplatesPanel, HasPermission("admin.templates.view"))
    BY DEF MailTemplatesPanel
  <2>6. Covered(SettingsForm, HasPermission("admin.settings.update"))
    BY DEF SettingsForm
  <2>7. Covered(TestSMTPDialog, HasPermission("admin.settings.test_smtp"))
    BY DEF TestSMTPDialog
  <2> QED
    BY <2>1, <2>2, <2>3, <2>4, <2>5, <2>6, <2>7 DEF SystemSettingsSection
<1> HIDE DEF Covered
<1> QED
  BY <1>1, <1>2, <1>3, <1>4

\* nor the administration.
LEMMA AdminPageGuarded == Covered(AdminPage, {})
<1> USE AccountsGuarded, SystemGuarded, GuardedUnder DEF Covered
<1>1. Covered(Under(HasPermission("admin.users.view"), UsersSection), {})
  BY GuardedMore
<1>2. Covered(Under(HasPermission("admin.permission_groups.view"), PermissionGroupsSection), {})
  OBVIOUS
<1>3. Covered(Under(HasAnyPermission({"admin.domains.view", "admin.dns.view"}), DomainsSection), {})
  BY GuardedMore
<1>4. Covered(Under(HasPermission("admin.mailboxes.view"), MailboxesSection), {})
  BY GuardedMore
<1>5. Covered(Under(HasPermission("admin.aliases.view"), AliasesSection), {})
  BY GuardedMore
<1>6. Covered(Under(HasPermission("admin.messages.view"), AdminMessagesSection \cup AdminSendAuditSection), {})
  OBVIOUS
<1>7. Covered(Under(HasPermission("admin.feedback.view"), AdminFeedbackSection), {})
  OBVIOUS
<1>8. Covered(Under(HasAnyPermission({"admin.settings.view", "admin.templates.view"}), SystemSettingsSection), {})
  BY GuardedMore
<1> QED
  BY <1>1, <1>2, <1>3, <1>4, <1>5, <1>6, <1>7, <1>8 DEF AdminPage

\* So what is offered anywhere is guarded as the server guards it, but for the named gaps.
LEMMA PagesGuarded == Covered(WebOffers, {})
BY MailPageGuarded, ProfilePageGuarded, AdminPageGuarded DEF WebOffers, WebPages, Covered

\* Whoever is shown an offer may make its request, but for the named gaps.
LEMMA GuardServes ==
  ASSUME NEW o \in WebOffers, NEW S, Can(S, o.needs)
  PROVE  o.what \in DOMAIN Needs /\ (o.what \in Unguarded \/ Can(S, Needs[o.what]))
<1>1. Fits(o, {})
  BY PagesGuarded DEF Covered
<1>2. o.needs \cup {} = o.needs
  OBVIOUS
<1>3. Allowed(o.what, o.needs)
  BY <1>1, <1>2 DEF Fits
<1> QED
  BY <1>3 DEF Allowed, Can

\* A request under way left under permissions that showed the offer.
PressedShown == \A S \in pressed : Can(S, offered.needs)
OffersIInv == WebOffersTypeOK /\ PressedShown /\ NoOfferRefused

\* The server asks something definite of each request.
LEMMA OfferKnown == \A o \in WebOffers : o.what \in DOMAIN Needs
<1> SUFFICES ASSUME NEW o \in WebOffers PROVE o.what \in DOMAIN Needs
  OBVIOUS
<1> QED
  BY PagesGuarded DEF Covered, Fits, Allowed

LEMMA OffersStart ==
  ASSUME NEW o \in WebOffers, NEW S \in SUBSET UNION o.needs, WebOffersStart(o, S)
  PROVE  OffersIInv
BY OfferKnown DEF WebOffersStart, OffersIInv, WebOffersTypeOK, PressedShown, NoOfferRefused

LEMMA OffersInit ==
  ASSUME WebOffersInit
  PROVE  OffersIInv
<1>0. PICK o \in WebOffers : \E S \in Sees(o) : WebOffersStart(o, S)
  BY DEF WebOffersInit
<1>1. PICK S \in Sees(o) : WebOffersStart(o, S)
  BY <1>0
<1>2. S \in SUBSET UNION o.needs
  BY DEF Sees
<1> QED
  BY <1>1, <1>2, OffersStart

\* A request refused under the permissions it left under would be one the guard shows and the
\* server refuses.
LEMMA OffersNext ==
  ASSUME OffersIInv, WebOffersNext
  PROVE  OffersIInv'
<1> USE DEF OffersIInv, WebOffersTypeOK, PressedShown, NoOfferRefused
<1>1. CASE Grant
  BY <1>1 DEF Grant
<1>2. CASE ReadMe
  BY <1>2 DEF ReadMe
<1>3. CASE PressOffer
  BY <1>3 DEF PressOffer
<1>4. CASE ServeOffer
  <2>1. refusal' = "plain" => rights \in pressed
    BY <1>4 DEF ServeOffer
  <2>2. refusal' = "plain" => ~Can(rights, Needs[offered.what])
    BY <1>4 DEF ServeOffer
  <2>3. refusal' = "plain" => offered.what \in Unguarded
    BY <2>1, <2>2, GuardServes
  <2> QED
    BY <1>4, <2>3 DEF ServeOffer
<1> QED
  BY <1>1, <1>2, <1>3, <1>4 DEF WebOffersNext

LEMMA OffersRest ==
  ASSUME OffersIInv, UNCHANGED rightsVars
  PROVE  OffersIInv'
BY DEF OffersIInv, WebOffersTypeOK, PressedShown, NoOfferRefused, rightsVars

\* There is an offer, for the part to rest in while another one moves.
LEMMA SomeOffer == SomeOf(WebOffers) \in WebOffers
BY DEF SomeOf, WebOffers, WebPages, MailPage, UseMe, Show

------------------------------------------------------------------------------
(* WebCache *)

\* A set of prefixes tells a key, as an offer with them does.
Informs(told, k) == Tells([told |-> told], k)

\* A press tells the keys among K it changes, gives them, or is one of the named pairs.
Notified(r, told, given, K) ==
    \A k \in K :
        r \in DOMAIN Changes /\ k \in DOMAIN Shows /\ Changes[r] \cap Shows[k] # {}
        => <<r, told, k>> \in Untold \/ Informs(told, k) \/ k \in given

\* The offers among others whose queries file under K: they do so too, and each press is noted.
Heeds(o, K) ==
    /\ o = [what |-> o.what, key |-> o.key, needs |-> o.needs, told |-> o.told, given |-> o.given]
    /\ o.key # <<>> /\ o.key \in DOMAIN Shows => o.key \in K
    /\ Notified(o.what, o.told, o.given, K)
Heeded(offers, K) == \A o \in offers : Heeds(o, K)

\* What PressGiving, Press, Show and Under make of a press that notifies and a query filed under K.
LEMMA HeededPressGiving ==
  ASSUME NEW r, NEW told, NEW given, NEW K, Notified(r, told, given, K)
  PROVE  Heeded(PressGiving(r, told, given), K)
<1> DEFINE o == [what |-> r, key |-> <<>>, needs |-> {}, told |-> told, given |-> given]
<1>1. o.what = r /\ o.key = <<>> /\ o.told = told /\ o.given = given
  OBVIOUS
<1>2. o = [what |-> o.what, key |-> o.key, needs |-> o.needs, told |-> o.told, given |-> o.given]
  OBVIOUS
<1>3. PressGiving(r, told, given) = {o}
  BY DEF PressGiving
<1> HIDE DEF o
<1> QED
  BY <1>1, <1>2, <1>3 DEF Heeded, Heeds

LEMMA HeededPress ==
  ASSUME NEW r, NEW told, NEW K, Notified(r, told, {}, K)
  PROVE  Heeded(Press(r, told), K)
BY HeededPressGiving DEF Press

LEMMA HeededShow ==
  ASSUME NEW r, NEW key, NEW K, key \in DOMAIN Shows => key \in K, r \notin DOMAIN Changes
  PROVE  Heeded(Show(key, r), K)
<1> DEFINE o == [what |-> r, key |-> key, needs |-> {}, told |-> {}, given |-> {}]
<1>1. o.what = r /\ o.key = key
  OBVIOUS
<1>2. o = [what |-> o.what, key |-> o.key, needs |-> o.needs, told |-> o.told, given |-> o.given]
  OBVIOUS
<1>3. Show(key, r) = {o}
  BY DEF Show
<1> HIDE DEF o
<1> QED
  BY <1>1, <1>2, <1>3 DEF Heeded, Heeds, Notified

LEMMA HeededUnder ==
  ASSUME NEW A, NEW h, NEW K, Heeded(A, K)
  PROVE  Heeded(Under(h, A), K)
<1> SUFFICES ASSUME NEW o \in A
             PROVE  Heeds([o EXCEPT !.needs = @ \cup h], K)
  BY DEF Heeded, Under
<1> DEFINE w == o.what
           k == o.key
           t == o.told
           v == o.given
           u == [what |-> w, key |-> k, needs |-> o.needs \cup h, told |-> t, given |-> v]
<1>1. Heeds(o, K)
  BY DEF Heeded
<1>0. o = [what |-> w, key |-> k, needs |-> o.needs, told |-> t, given |-> v]
  BY <1>1 DEF Heeds
<1>2. [o EXCEPT !.needs = @ \cup h] = u
  BY <1>0
<1>3. u.what = w /\ u.key = k /\ u.told = t /\ u.given = v
  OBVIOUS
<1>4. u = [what |-> u.what, key |-> u.key, needs |-> u.needs, told |-> u.told, given |-> u.given]
  OBVIOUS
<1>5. (k # <<>> /\ k \in DOMAIN Shows => k \in K) /\ Notified(w, t, v, K)
  BY <1>1 DEF Heeds
<1> HIDE DEF u, w, k, t, v
<1> QED
  BY <1>2, <1>3, <1>4, <1>5 DEF Heeds

\* A request that changes nothing has nobody to notify.
LEMMA HeededQuiet ==
  ASSUME NEW r, NEW told, NEW K, r \notin DOMAIN Changes
  PROVE  Heeded(Press(r, told), K)
BY HeededPress DEF Notified

\* A key is told of by its first element, its first two, its first three.
LEMMA ToldByRoot ==
  ASSUME NEW told, NEW k, Len(k) \in Nat \ {0}, <<k[1]>> \in told
  PROVE  Informs(told, k)
<1> DEFINE p == SubSeq(k, 1, 1)
<1>1. p \in Seq({k[1]}) /\ Len(p) = 1 /\ p[1] = k[1]
  <2>1. /\ p \in Seq({k[1]})
        /\ Len(p) = IF 1 <= 1 THEN 1 - 1 + 1 ELSE 0
        /\ \A i \in 1 .. 1 - 1 + 1 : p[i] = k[1 + i - 1]
    BY SubSeqProperties
  <2> HIDE DEF p
  <2> QED
    BY <2>1
<1>2. p = <<k[1]>>
  <2> HIDE DEF p
  <2> QED
    BY <1>1
<1>3. Len(<<k[1]>>) = 1 /\ 1 <= Len(k)
  OBVIOUS
<1> QED
  BY <1>2, <1>3 DEF Informs, Tells

LEMMA ToldByTwo ==
  ASSUME NEW told, NEW k, Len(k) \in Nat \ {0, 1}, <<k[1], k[2]>> \in told
  PROVE  Informs(told, k)
<1> DEFINE p == SubSeq(k, 1, 2)
<1>1. p \in Seq({k[1], k[2]}) /\ Len(p) = 2 /\ p[1] = k[1] /\ p[2] = k[2]
  <2>1. /\ p \in Seq({k[1], k[2]})
        /\ Len(p) = IF 1 <= 2 THEN 2 - 1 + 1 ELSE 0
        /\ \A i \in 1 .. 2 - 1 + 1 : p[i] = k[1 + i - 1]
    <3>1. \A i \in 1 .. 2 : k[i] \in {k[1], k[2]}
      OBVIOUS
    <3> QED
      BY <3>1, SubSeqProperties
  <2> HIDE DEF p
  <2> QED
    BY <2>1
<1>2. p = <<k[1], k[2]>>
  <2> HIDE DEF p
  <2> QED
    BY <1>1
<1>3. Len(<<k[1], k[2]>>) = 2 /\ 2 <= Len(k)
  OBVIOUS
<1> QED
  BY <1>2, <1>3 DEF Informs, Tells

LEMMA ToldByThree ==
  ASSUME NEW told, NEW k, Len(k) \in Nat \ {0, 1, 2}, <<k[1], k[2], k[3]>> \in told
  PROVE  Informs(told, k)
<1> DEFINE p == SubSeq(k, 1, 3)
<1>1. p \in Seq({k[1], k[2], k[3]}) /\ Len(p) = 3 /\ p[1] = k[1] /\ p[2] = k[2] /\ p[3] = k[3]
  <2>1. /\ p \in Seq({k[1], k[2], k[3]})
        /\ Len(p) = IF 1 <= 3 THEN 3 - 1 + 1 ELSE 0
        /\ \A i \in 1 .. 3 - 1 + 1 : p[i] = k[1 + i - 1]
    <3>1. \A i \in 1 .. 3 : k[i] \in {k[1], k[2], k[3]}
      OBVIOUS
    <3> QED
      BY <3>1, SubSeqProperties
  <2> HIDE DEF p
  <2> QED
    BY <2>1
<1>2. p = <<k[1], k[2], k[3]>>
  <2> HIDE DEF p
  <2> QED
    BY <1>1
<1>3. Len(<<k[1], k[2], k[3]>>) = 3
  OBVIOUS
<1>4. 3 <= Len(k)
  <2> DEFINE n == Len(k)
  <2>1. n \in Nat \ {0, 1, 2}
    OBVIOUS
  <2> HIDE DEF n
  <2>2. 3 <= n
    BY <2>1
  <2> QED
    BY <2>2 DEF n
<1> QED
  BY <1>2, <1>3, <1>4 DEF Informs, Tells

\* What the rows of MailChanges say.
LEMMA MailChangesRows ==
  /\ \A r \in {"markRead"} : Says(MailChanges, r, {"seen", "inbox"})
  /\ \A r \in {"star"} : Says(MailChanges, r, {"starred"})
  /\ \A r \in {"move", "importMail"} : Says(MailChanges, r, {"filed", "inbox"})
  /\ \A r \in {"deleteMessage"} : Says(MailChanges, r, {"filed", "erased", "inbox"})
  /\ \A r \in {"cleanupMail"} : Says(MailChanges, r, {"filed", "erased"})
  /\ \A r \in {"markExternalRead"} : Says(MailChanges, r, {"remote.seen"})
  /\ \A r \in {"addMessageLabel"} : Says(MailChanges, r, {"labels", "labelled"})
  /\ \A r \in {"removeMessageLabel"} : Says(MailChanges, r, {"labelled"})
  /\ \A r \in {"createLabel"} : Says(MailChanges, r, {"labels"})
  /\ \A r \in {"deleteLabel"} : Says(MailChanges, r, {"labels", "labelled"})
  /\ \A r \in {"createFolder", "reorderFolders"} : Says(MailChanges, r, {"folders"})
  /\ \A r \in {"deleteFolder"} : Says(MailChanges, r, {"folders", "filed", "inbox"})
  /\ \A r \in {"saveDraft"} : Says(MailChanges, r, {"filed"})
  /\ \A r \in {"deleteDraft"} : Says(MailChanges, r, {"erased"})
  /\ \A r \in {"send"} : Says(MailChanges, r, {"filed", "queue"})
  /\ \A r \in {"scheduleSend", "cancelScheduledSend"} : Says(MailChanges, r, {"scheduled"})
  /\ \A r \in {"retrySendQueue", "cancelSendQueue"} : Says(MailChanges, r, {"queue", "audit"})
<1> USE DEF MailChanges, For, Says
<1>1. \A r \in {"markRead"} : Says(MailChanges, r, {"seen", "inbox"})
  OBVIOUS
<1>2. \A r \in {"star"} : Says(MailChanges, r, {"starred"})
  OBVIOUS
<1>3. \A r \in {"move", "importMail"} : Says(MailChanges, r, {"filed", "inbox"})
  OBVIOUS
<1>4. \A r \in {"deleteMessage"} : Says(MailChanges, r, {"filed", "erased", "inbox"})
  OBVIOUS
<1>5. \A r \in {"cleanupMail"} : Says(MailChanges, r, {"filed", "erased"})
  OBVIOUS
<1>6. \A r \in {"markExternalRead"} : Says(MailChanges, r, {"remote.seen"})
  OBVIOUS
<1>7. \A r \in {"addMessageLabel"} : Says(MailChanges, r, {"labels", "labelled"})
  OBVIOUS
<1>8. \A r \in {"removeMessageLabel"} : Says(MailChanges, r, {"labelled"})
  OBVIOUS
<1>9. \A r \in {"createLabel"} : Says(MailChanges, r, {"labels"})
  OBVIOUS
<1>10. \A r \in {"deleteLabel"} : Says(MailChanges, r, {"labels", "labelled"})
  OBVIOUS
<1>11. \A r \in {"createFolder", "reorderFolders"} : Says(MailChanges, r, {"folders"})
  OBVIOUS
<1>12. \A r \in {"deleteFolder"} : Says(MailChanges, r, {"folders", "filed", "inbox"})
  OBVIOUS
<1>13. \A r \in {"saveDraft"} : Says(MailChanges, r, {"filed"})
  OBVIOUS
<1>14. \A r \in {"deleteDraft"} : Says(MailChanges, r, {"erased"})
  OBVIOUS
<1>15. \A r \in {"send"} : Says(MailChanges, r, {"filed", "queue"})
  OBVIOUS
<1>16. \A r \in {"scheduleSend", "cancelScheduledSend"} : Says(MailChanges, r, {"scheduled"})
  OBVIOUS
<1>17. \A r \in {"retrySendQueue", "cancelSendQueue"} : Says(MailChanges, r, {"queue", "audit"})
  OBVIOUS
<1> HIDE DEF MailChanges, For, Says
<1> QED
  BY <1>1, <1>2, <1>3, <1>4, <1>5, <1>6, <1>7, <1>8, <1>9, <1>10, <1>11, <1>12, <1>13, <1>14, <1>15,
     <1>16, <1>17

\* And these are all the requests the rows name.
LEMMA MailChangesEntries ==
  Entries(MailChanges) = {"markRead", "star", "move", "importMail", "deleteMessage", "cleanupMail",
    "markExternalRead", "addMessageLabel", "removeMessageLabel", "createLabel", "deleteLabel",
    "createFolder", "reorderFolders", "deleteFolder", "saveDraft", "deleteDraft", "send",
    "scheduleSend", "cancelScheduledSend", "retrySendQueue", "cancelSendQueue"}
  BY DEF MailChanges, For, Entries

\* What the rows of AccountChanges say.
LEMMA AccountChangesRows ==
  /\ \A r \in {"enableTwoFactor"} : Says(AccountChanges, r, {"accounts"})
  /\ \A r \in {"disableTwoFactor"} : Says(AccountChanges, r, {"accounts", "app.password"})
  /\ \A r \in {"createMailboxAppPassword", "deleteMailboxAppPassword"} : Says(AccountChanges, r,
         {"app.password"})
  /\ \A r \in {"applyMailbox"} : Says(AccountChanges, r, {"mailboxes"})
  /\ \A r \in {"createApiToken", "updateApiToken", "deleteApiToken"} : Says(AccountChanges, r,
         {"tokens"})
  /\ \A r \in {"createContact", "deleteContact"} : Says(AccountChanges, r, {"contacts"})
  /\ \A r \in {"createSignature", "updateSignature", "setDefaultSignature", "deleteSignature"} :
         Says(AccountChanges, r, {"signatures"})
  /\ \A r \in {"updateRule", "moveRule", "deleteRule"} : Says(AccountChanges, r, {"rules"})
  /\ \A r \in {"createRule"} : Says(AccountChanges, r, {"rules", "filed", "seen", "starred",
         "labelled", "inbox"})
  /\ \A r \in {"applyRule"} : Says(AccountChanges, r, {"filed", "seen", "starred", "labelled",
         "inbox"})
  /\ \A r \in {"createBlockedSender", "deleteBlockedSender"} : Says(AccountChanges, r, {"blocked"})
  /\ \A r \in {"addForwardingVerifiedEmail", "resendForwardingVerifiedEmail"} : Says(AccountChanges,
         r, {"verified"})
  /\ \A r \in {"deleteForwardingVerifiedEmail"} : Says(AccountChanges, r, {"verified",
         "forwarding"})
  /\ \A r \in {"updateAccountForwarding", "updateMailboxForwarding"} : Says(AccountChanges, r,
         {"forwarding"})
  /\ \A r \in {"deleteClientAccessEvents"} : Says(AccountChanges, r, {"events"})
  /\ \A r \in {"createFeedbackTicket", "replyFeedbackTicket", "closeFeedbackTicket",
         "deleteFeedbackTicket"} : Says(AccountChanges, r, {"feedback"})
<1> USE DEF AccountChanges, For, Says
<1>1. \A r \in {"enableTwoFactor"} : Says(AccountChanges, r, {"accounts"})
  OBVIOUS
<1>2. \A r \in {"disableTwoFactor"} : Says(AccountChanges, r, {"accounts", "app.password"})
  OBVIOUS
<1>3. \A r \in {"createMailboxAppPassword", "deleteMailboxAppPassword"} : Says(AccountChanges, r,
        {"app.password"})
  OBVIOUS
<1>4. \A r \in {"applyMailbox"} : Says(AccountChanges, r, {"mailboxes"})
  OBVIOUS
<1>5. \A r \in {"createApiToken", "updateApiToken", "deleteApiToken"} : Says(AccountChanges, r,
        {"tokens"})
  OBVIOUS
<1>6. \A r \in {"createContact", "deleteContact"} : Says(AccountChanges, r, {"contacts"})
  OBVIOUS
<1>7. \A r \in {"createSignature", "updateSignature", "setDefaultSignature", "deleteSignature"} :
        Says(AccountChanges, r, {"signatures"})
  OBVIOUS
<1>8. \A r \in {"updateRule", "moveRule", "deleteRule"} : Says(AccountChanges, r, {"rules"})
  OBVIOUS
<1>9. \A r \in {"createRule"} : Says(AccountChanges, r, {"rules", "filed", "seen", "starred",
        "labelled", "inbox"})
  OBVIOUS
<1>10. \A r \in {"applyRule"} : Says(AccountChanges, r, {"filed", "seen", "starred", "labelled",
        "inbox"})
  OBVIOUS
<1>11. \A r \in {"createBlockedSender", "deleteBlockedSender"} : Says(AccountChanges, r,
        {"blocked"})
  OBVIOUS
<1>12. \A r \in {"addForwardingVerifiedEmail", "resendForwardingVerifiedEmail"} :
        Says(AccountChanges, r, {"verified"})
  OBVIOUS
<1>13. \A r \in {"deleteForwardingVerifiedEmail"} : Says(AccountChanges, r, {"verified",
        "forwarding"})
  OBVIOUS
<1>14. \A r \in {"updateAccountForwarding", "updateMailboxForwarding"} : Says(AccountChanges, r,
        {"forwarding"})
  OBVIOUS
<1>15. \A r \in {"deleteClientAccessEvents"} : Says(AccountChanges, r, {"events"})
  OBVIOUS
<1>16. \A r \in {"createFeedbackTicket", "replyFeedbackTicket", "closeFeedbackTicket",
        "deleteFeedbackTicket"} : Says(AccountChanges, r, {"feedback"})
  OBVIOUS
<1> HIDE DEF AccountChanges, For, Says
<1> QED
  BY <1>1, <1>2, <1>3, <1>4, <1>5, <1>6, <1>7, <1>8, <1>9, <1>10, <1>11, <1>12, <1>13, <1>14, <1>15,
     <1>16

\* And these are all the requests the rows name.
LEMMA AccountChangesEntries ==
  Entries(AccountChanges) = {"enableTwoFactor", "disableTwoFactor", "createMailboxAppPassword",
    "deleteMailboxAppPassword", "applyMailbox", "createApiToken", "updateApiToken",
    "deleteApiToken", "createContact", "deleteContact", "createSignature", "updateSignature",
    "setDefaultSignature", "deleteSignature", "updateRule", "moveRule", "deleteRule", "createRule",
    "applyRule", "createBlockedSender", "deleteBlockedSender", "addForwardingVerifiedEmail",
    "resendForwardingVerifiedEmail", "deleteForwardingVerifiedEmail", "updateAccountForwarding",
    "updateMailboxForwarding", "deleteClientAccessEvents", "createFeedbackTicket",
    "replyFeedbackTicket", "closeFeedbackTicket", "deleteFeedbackTicket"}
  BY DEF AccountChanges, For, Entries

\* What the rows of AdminChanges say.
LEMMA AdminChangesRows ==
  /\ \A r \in {"createUser", "updateUser"} : Says(AdminChanges, r, {"accounts", "groups"})
  /\ \A r \in {"resetUserTwoFactor"} : Says(AdminChanges, r, {"accounts", "app.password"})
  /\ \A r \in {"deleteUser"} : Says(AdminChanges, r, {"accounts", "mailboxes", "erased"})
  /\ \A r \in {"createPermissionGroup", "updatePermissionGroup", "deletePermissionGroup"} :
         Says(AdminChanges, r, {"groups"})
  /\ \A r \in {"createDomain", "updateDomain", "deleteDomain"} : Says(AdminChanges, r, {"domains"})
  /\ \A r \in {"checkDns"} : Says(AdminChanges, r, {"dns"})
  /\ \A r \in {"createMailbox"} : Says(AdminChanges, r, {"mailboxes", "accounts"})
  /\ \A r \in {"updateMailbox"} : Says(AdminChanges, r, {"mailboxes"})
  /\ \A r \in {"deleteMailbox"} : Says(AdminChanges, r, {"mailboxes", "erased"})
  /\ \A r \in {"createAlias", "updateAlias", "deleteAlias"} : Says(AdminChanges, r, {"aliases"})
  /\ \A r \in {"adminMessagesBatch"} : Says(AdminChanges, r, {"filed", "erased", "seen", "starred"})
  /\ \A r \in {"adminSendQueueBatch"} : Says(AdminChanges, r, {"queue"})
  /\ \A r \in {"replyAdminFeedbackTicket", "updateAdminFeedbackStatus", "deleteAdminFeedbackTicket"}
         : Says(AdminChanges, r, {"feedback"})
  /\ \A r \in {"updateSystemSettings"} : Says(AdminChanges, r, {"settings"})
  /\ \A r \in {"updateAISettings"} : Says(AdminChanges, r, {"ai"})
  /\ \A r \in {"publishAnnouncement", "clearAnnouncement"} : Says(AdminChanges, r,
         {"announcements"})
  /\ \A r \in {"issueCertificate"} : Says(AdminChanges, r, {"certificates"})
  /\ \A r \in {"updateMailTemplate", "resetMailTemplate"} : Says(AdminChanges, r, {"templates"})
  /\ \A r \in {"deleteSystemRollback"} : Says(AdminChanges, r, {"operation"})
<1> USE DEF AdminChanges, For, Says
<1>1. \A r \in {"createUser", "updateUser"} : Says(AdminChanges, r, {"accounts", "groups"})
  OBVIOUS
<1>2. \A r \in {"resetUserTwoFactor"} : Says(AdminChanges, r, {"accounts", "app.password"})
  OBVIOUS
<1>3. \A r \in {"deleteUser"} : Says(AdminChanges, r, {"accounts", "mailboxes", "erased"})
  OBVIOUS
<1>4. \A r \in {"createPermissionGroup", "updatePermissionGroup", "deletePermissionGroup"} :
        Says(AdminChanges, r, {"groups"})
  OBVIOUS
<1>5. \A r \in {"createDomain", "updateDomain", "deleteDomain"} : Says(AdminChanges, r, {"domains"})
  OBVIOUS
<1>6. \A r \in {"checkDns"} : Says(AdminChanges, r, {"dns"})
  OBVIOUS
<1>7. \A r \in {"createMailbox"} : Says(AdminChanges, r, {"mailboxes", "accounts"})
  OBVIOUS
<1>8. \A r \in {"updateMailbox"} : Says(AdminChanges, r, {"mailboxes"})
  OBVIOUS
<1>9. \A r \in {"deleteMailbox"} : Says(AdminChanges, r, {"mailboxes", "erased"})
  OBVIOUS
<1>10. \A r \in {"createAlias", "updateAlias", "deleteAlias"} : Says(AdminChanges, r, {"aliases"})
  OBVIOUS
<1>11. \A r \in {"adminMessagesBatch"} : Says(AdminChanges, r, {"filed", "erased", "seen",
        "starred"})
  OBVIOUS
<1>12. \A r \in {"adminSendQueueBatch"} : Says(AdminChanges, r, {"queue"})
  OBVIOUS
<1>13. \A r \in {"replyAdminFeedbackTicket", "updateAdminFeedbackStatus",
        "deleteAdminFeedbackTicket"} : Says(AdminChanges, r, {"feedback"})
  OBVIOUS
<1>14. \A r \in {"updateSystemSettings"} : Says(AdminChanges, r, {"settings"})
  OBVIOUS
<1>15. \A r \in {"updateAISettings"} : Says(AdminChanges, r, {"ai"})
  OBVIOUS
<1>16. \A r \in {"publishAnnouncement", "clearAnnouncement"} : Says(AdminChanges, r,
        {"announcements"})
  OBVIOUS
<1>17. \A r \in {"issueCertificate"} : Says(AdminChanges, r, {"certificates"})
  OBVIOUS
<1>18. \A r \in {"updateMailTemplate", "resetMailTemplate"} : Says(AdminChanges, r, {"templates"})
  OBVIOUS
<1>19. \A r \in {"deleteSystemRollback"} : Says(AdminChanges, r, {"operation"})
  OBVIOUS
<1> HIDE DEF AdminChanges, For, Says
<1> QED
  BY <1>1, <1>2, <1>3, <1>4, <1>5, <1>6, <1>7, <1>8, <1>9, <1>10, <1>11, <1>12, <1>13, <1>14, <1>15,
     <1>16, <1>17, <1>18, <1>19

\* And these are all the requests the rows name.
LEMMA AdminChangesEntries ==
  Entries(AdminChanges) = {"createUser", "updateUser", "resetUserTwoFactor", "deleteUser",
    "createPermissionGroup", "updatePermissionGroup", "deletePermissionGroup", "createDomain",
    "updateDomain", "deleteDomain", "checkDns", "createMailbox", "updateMailbox", "deleteMailbox",
    "createAlias", "updateAlias", "deleteAlias", "adminMessagesBatch", "adminSendQueueBatch",
    "replyAdminFeedbackTicket", "updateAdminFeedbackStatus", "deleteAdminFeedbackTicket",
    "updateSystemSettings", "updateAISettings", "publishAnnouncement", "clearAnnouncement",
    "issueCertificate", "updateMailTemplate", "resetMailTemplate", "deleteSystemRollback"}
  BY DEF AdminChanges, For, Entries


\* No request is named by two of the tables.
LEMMA ChangesApart ==
  /\ Entries(MailChanges) \cap Entries(AccountChanges \cup AdminChanges) = {}
  /\ Entries(AccountChanges) \cap Entries(MailChanges \cup AdminChanges) = {}
  /\ Entries(AdminChanges) \cap Entries(MailChanges \cup AccountChanges) = {}
<1>1. Entries(MailChanges) \cap Entries(AccountChanges) = {}
  BY MailChangesEntries, AccountChangesEntries
<1>2. Entries(MailChanges) \cap Entries(AdminChanges) = {}
  BY MailChangesEntries, AdminChangesEntries
<1>3. Entries(AccountChanges) \cap Entries(AdminChanges) = {}
  BY AccountChangesEntries, AdminChangesEntries
<1>4. \A rows, others : Entries(rows \cup others) = Entries(rows) \cup Entries(others)
  BY DEF Entries
<1> QED
  BY <1>1, <1>2, <1>3, <1>4

\* What a row says of a request is what it changes.
LEMMA ChangesAnswer ==
  ASSUME NEW r, NEW answer,
         Says(MailChanges, r, answer) \/ Says(AccountChanges, r, answer) \/ Says(AdminChanges, r, answer)
  PROVE  r \in DOMAIN Changes /\ Changes[r] = answer
<1>1. Changes = Table(MailChanges \cup (AccountChanges \cup AdminChanges))
      /\ Changes = Table(AccountChanges \cup (MailChanges \cup AdminChanges))
      /\ Changes = Table(AdminChanges \cup (MailChanges \cup AccountChanges))
  <2>1. MailChanges \cup AccountChanges \cup AdminChanges = MailChanges \cup (AccountChanges \cup AdminChanges)
        /\ MailChanges \cup AccountChanges \cup AdminChanges = AccountChanges \cup (MailChanges \cup AdminChanges)
        /\ MailChanges \cup AccountChanges \cup AdminChanges = AdminChanges \cup (MailChanges \cup AccountChanges)
    OBVIOUS
  <2> QED
    BY <2>1 DEF Changes
<1>2. \A rows : Says(rows, r, answer) => r \in Entries(rows)
  BY DEF Says, Entries
<1>3. \A rows : DOMAIN Table(rows) = Entries(rows)
  BY DEF Table
<1>4. CASE Says(MailChanges, r, answer)
  BY <1>1, <1>2, <1>3, <1>4, TableAnswer, ChangesApart
<1>5. CASE Says(AccountChanges, r, answer)
  BY <1>1, <1>2, <1>3, <1>5, TableAnswer, ChangesApart
<1>6. CASE Says(AdminChanges, r, answer)
  BY <1>1, <1>2, <1>3, <1>6, TableAnswer, ChangesApart
<1> QED
  BY <1>4, <1>5, <1>6

LEMMA ChangesDomain ==
  DOMAIN Changes = Entries(MailChanges) \cup Entries(AccountChanges) \cup Entries(AdminChanges)
BY DEF Changes, Table, Entries

\* What a query shows, some row says.
LEMMA ShownByRow ==
  ASSUME NEW k \in DOMAIN Shows, NEW a \in Shows[k]
  PROVE  \E row \in MailShows \cup AccountShows \cup AdminShows : k \in row.of /\ a \in row.is
<1> DEFINE all == MailShows \cup AccountShows \cup AdminShows
<1>1. Shows = Table(all)
  BY DEF Shows
<1> HIDE DEF all
<1>2. a \in UNION {row.is : row \in {r \in all : k \in r.of}}
  BY <1>1 DEF Table
<1>3. \E row \in all : k \in row.of /\ a \in row.is
  BY <1>2
<1> QED
  BY <1>3 DEF all

\* The queries that show each kind of data.
LEMMA ShownIn ==
  /\ \A k \in DOMAIN Shows : "filed" \in Shows[k] => k \in {<<"messages", "view">>, <<"messages",
         "starred">>, <<"messages", "label">>, <<"folders", "mailbox">>, <<"mail-stats", "mailbox",
         "days">>, <<"admin", "overview">>, <<"admin", "messages", "filter">>}
  /\ \A k \in DOMAIN Shows : "erased" \in Shows[k] => k \in {<<"messages", "view">>, <<"messages",
         "starred">>, <<"messages", "label">>, <<"folders", "mailbox">>, <<"labels", "mailbox">>,
         <<"mail-stats", "mailbox">>, <<"mail-stats", "mailbox", "days">>, <<"admin", "overview">>,
         <<"admin", "messages", "filter">>}
  /\ \A k \in DOMAIN Shows : "seen" \in Shows[k] => k \in {<<"messages", "view">>, <<"messages",
         "starred">>, <<"messages", "label">>, <<"message", "id", "view">>, <<"folders",
         "mailbox">>, <<"mail-stats", "mailbox", "days">>, <<"admin", "overview">>, <<"admin",
         "messages", "filter">>, <<"admin", "message", "id">>}
  /\ \A k \in DOMAIN Shows : "starred" \in Shows[k] => k \in {<<"messages", "view">>, <<"messages",
         "starred">>, <<"messages", "label">>, <<"message", "id", "view">>, <<"mail-stats",
         "mailbox">>, <<"mail-stats", "mailbox", "days">>, <<"admin", "messages", "filter">>,
         <<"admin", "message", "id">>}
  /\ \A k \in DOMAIN Shows : "labelled" \in Shows[k] => k \in {<<"messages", "view">>, <<"messages",
         "starred">>, <<"messages", "label">>, <<"message", "id", "view">>, <<"labels", "mailbox">>}
  /\ \A k \in DOMAIN Shows : "folders" \in Shows[k] => k \in {<<"folders", "mailbox">>}
  /\ \A k \in DOMAIN Shows : "labels" \in Shows[k] => k \in {<<"labels", "mailbox">>, <<"labels",
         "rule-dialog", "mailbox">>}
  /\ \A k \in DOMAIN Shows : "mailboxes" \in Shows[k] => k \in {<<"mailboxes", "mine">>, <<"admin",
         "overview">>, <<"admin", "users">>, <<"admin", "mailboxes">>}
  /\ \A k \in DOMAIN Shows : "app.password" \in Shows[k] => k \in {<<"mailboxes", "mine">>,
         <<"admin", "mailboxes">>}
  /\ \A k \in DOMAIN Shows : "inbox" \in Shows[k] => k \in {<<"mailboxes", "mine">>}
  /\ \A k \in DOMAIN Shows : "queue" \in Shows[k] => k \in {<<"send-queue", "mailbox">>, <<"admin",
         "overview">>, <<"admin", "send-queue", "filter">>}
  /\ \A k \in DOMAIN Shows : "audit" \in Shows[k] => k \in {<<"send-queue-audit", "id">>}
  /\ \A k \in DOMAIN Shows : "scheduled" \in Shows[k] => k \in {<<"scheduled-sends", "mailbox">>}
  /\ \A k \in DOMAIN Shows : "remote.seen" \in Shows[k] => k \in {<<"external-messages",
         "account">>, <<"message", "id", "external">>, <<"mail-external-folders", "account">>}
  /\ \A k \in DOMAIN Shows : "accounts" \in Shows[k] => k \in {<<"me">>, <<"admin", "overview">>,
         <<"admin", "users">>, <<"admin", "permission-groups">>, <<"admin", "mailboxes">>}
  /\ \A k \in DOMAIN Shows : "groups" \in Shows[k] => k \in {<<"me">>, <<"admin", "users">>,
         <<"admin", "permission-groups">>}
  /\ \A k \in DOMAIN Shows : "tokens" \in Shows[k] => k \in {<<"api-tokens">>}
  /\ \A k \in DOMAIN Shows : "contacts" \in Shows[k] => k \in {<<"contacts">>}
  /\ \A k \in DOMAIN Shows : "signatures" \in Shows[k] => k \in {<<"signatures">>}
  /\ \A k \in DOMAIN Shows : "rules" \in Shows[k] => k \in {<<"rules">>}
  /\ \A k \in DOMAIN Shows : "blocked" \in Shows[k] => k \in {<<"blocked-senders">>}
  /\ \A k \in DOMAIN Shows : "forwarding" \in Shows[k] => k \in {<<"forwarding-settings">>}
  /\ \A k \in DOMAIN Shows : "verified" \in Shows[k] => k \in {<<"forwarding-settings">>}
  /\ \A k \in DOMAIN Shows : "events" \in Shows[k] => k \in {<<"client-access-events", "mailbox">>}
  /\ \A k \in DOMAIN Shows : "feedback" \in Shows[k] => k \in {<<"feedback-tickets">>,
         <<"feedback-tickets", "id">>, <<"admin", "feedback-tickets", "status">>, <<"admin",
         "feedback-tickets", "detail", "id">>}
  /\ \A k \in DOMAIN Shows : "domains" \in Shows[k] => k \in {<<"admin", "overview">>, <<"admin",
         "domains">>}
  /\ \A k \in DOMAIN Shows : "aliases" \in Shows[k] => k \in {<<"admin", "overview">>, <<"admin",
         "aliases">>}
  /\ \A k \in DOMAIN Shows : "dns" \in Shows[k] => k \in {<<"admin", "domains">>}
  /\ \A k \in DOMAIN Shows : "settings" \in Shows[k] => k \in {<<"admin", "settings">>,
         <<"dns-records", "id">>, <<"admin", "maildir-sync", "health">>, <<"admin", "certificates",
         "status">>}
  /\ \A k \in DOMAIN Shows : "certificates" \in Shows[k] => k \in {<<"admin", "certificates",
         "status">>}
  /\ \A k \in DOMAIN Shows : "ai" \in Shows[k] => k \in {<<"admin", "ai-settings">>}
  /\ \A k \in DOMAIN Shows : "announcements" \in Shows[k] => k \in {<<"admin", "announcements">>}
  /\ \A k \in DOMAIN Shows : "templates" \in Shows[k] => k \in {<<"admin", "mail-templates">>}
  /\ \A k \in DOMAIN Shows : "operation" \in Shows[k] => k \in {<<"admin", "system-operation">>}
<1>1. \A k \in DOMAIN Shows : "filed" \in Shows[k] => k \in {<<"messages", "view">>, <<"messages",
        "starred">>, <<"messages", "label">>, <<"folders", "mailbox">>, <<"mail-stats", "mailbox",
        "days">>, <<"admin", "overview">>, <<"admin", "messages", "filter">>}
  BY ShownByRow DEF MailShows, AccountShows, AdminShows, For
<1>2. \A k \in DOMAIN Shows : "erased" \in Shows[k] => k \in {<<"messages", "view">>, <<"messages",
        "starred">>, <<"messages", "label">>, <<"folders", "mailbox">>, <<"labels", "mailbox">>,
        <<"mail-stats", "mailbox">>, <<"mail-stats", "mailbox", "days">>, <<"admin", "overview">>,
        <<"admin", "messages", "filter">>}
  BY ShownByRow DEF MailShows, AccountShows, AdminShows, For
<1>3. \A k \in DOMAIN Shows : "seen" \in Shows[k] => k \in {<<"messages", "view">>, <<"messages",
        "starred">>, <<"messages", "label">>, <<"message", "id", "view">>, <<"folders", "mailbox">>,
        <<"mail-stats", "mailbox", "days">>, <<"admin", "overview">>, <<"admin", "messages",
        "filter">>, <<"admin", "message", "id">>}
  BY ShownByRow DEF MailShows, AccountShows, AdminShows, For
<1>4. \A k \in DOMAIN Shows : "starred" \in Shows[k] => k \in {<<"messages", "view">>, <<"messages",
        "starred">>, <<"messages", "label">>, <<"message", "id", "view">>, <<"mail-stats",
        "mailbox">>, <<"mail-stats", "mailbox", "days">>, <<"admin", "messages", "filter">>,
        <<"admin", "message", "id">>}
  BY ShownByRow DEF MailShows, AccountShows, AdminShows, For
<1>5. \A k \in DOMAIN Shows : "labelled" \in Shows[k] => k \in {<<"messages", "view">>,
        <<"messages", "starred">>, <<"messages", "label">>, <<"message", "id", "view">>, <<"labels",
        "mailbox">>}
  BY ShownByRow DEF MailShows, AccountShows, AdminShows, For
<1>6. \A k \in DOMAIN Shows : "folders" \in Shows[k] => k \in {<<"folders", "mailbox">>}
  BY ShownByRow DEF MailShows, AccountShows, AdminShows, For
<1>7. \A k \in DOMAIN Shows : "labels" \in Shows[k] => k \in {<<"labels", "mailbox">>, <<"labels",
        "rule-dialog", "mailbox">>}
  BY ShownByRow DEF MailShows, AccountShows, AdminShows, For
<1>8. \A k \in DOMAIN Shows : "mailboxes" \in Shows[k] => k \in {<<"mailboxes", "mine">>, <<"admin",
        "overview">>, <<"admin", "users">>, <<"admin", "mailboxes">>}
  BY ShownByRow DEF MailShows, AccountShows, AdminShows, For
<1>9. \A k \in DOMAIN Shows : "app.password" \in Shows[k] => k \in {<<"mailboxes", "mine">>,
        <<"admin", "mailboxes">>}
  BY ShownByRow DEF MailShows, AccountShows, AdminShows, For
<1>10. \A k \in DOMAIN Shows : "inbox" \in Shows[k] => k \in {<<"mailboxes", "mine">>}
  BY ShownByRow DEF MailShows, AccountShows, AdminShows, For
<1>11. \A k \in DOMAIN Shows : "queue" \in Shows[k] => k \in {<<"send-queue", "mailbox">>,
        <<"admin", "overview">>, <<"admin", "send-queue", "filter">>}
  BY ShownByRow DEF MailShows, AccountShows, AdminShows, For
<1>12. \A k \in DOMAIN Shows : "audit" \in Shows[k] => k \in {<<"send-queue-audit", "id">>}
  BY ShownByRow DEF MailShows, AccountShows, AdminShows, For
<1>13. \A k \in DOMAIN Shows : "scheduled" \in Shows[k] => k \in {<<"scheduled-sends", "mailbox">>}
  BY ShownByRow DEF MailShows, AccountShows, AdminShows, For
<1>14. \A k \in DOMAIN Shows : "remote.seen" \in Shows[k] => k \in {<<"external-messages",
        "account">>, <<"message", "id", "external">>, <<"mail-external-folders", "account">>}
  BY ShownByRow DEF MailShows, AccountShows, AdminShows, For
<1>15. \A k \in DOMAIN Shows : "accounts" \in Shows[k] => k \in {<<"me">>, <<"admin", "overview">>,
        <<"admin", "users">>, <<"admin", "permission-groups">>, <<"admin", "mailboxes">>}
  BY ShownByRow DEF MailShows, AccountShows, AdminShows, For
<1>16. \A k \in DOMAIN Shows : "groups" \in Shows[k] => k \in {<<"me">>, <<"admin", "users">>,
        <<"admin", "permission-groups">>}
  BY ShownByRow DEF MailShows, AccountShows, AdminShows, For
<1>17. \A k \in DOMAIN Shows : "tokens" \in Shows[k] => k \in {<<"api-tokens">>}
  BY ShownByRow DEF MailShows, AccountShows, AdminShows, For
<1>18. \A k \in DOMAIN Shows : "contacts" \in Shows[k] => k \in {<<"contacts">>}
  BY ShownByRow DEF MailShows, AccountShows, AdminShows, For
<1>19. \A k \in DOMAIN Shows : "signatures" \in Shows[k] => k \in {<<"signatures">>}
  BY ShownByRow DEF MailShows, AccountShows, AdminShows, For
<1>20. \A k \in DOMAIN Shows : "rules" \in Shows[k] => k \in {<<"rules">>}
  BY ShownByRow DEF MailShows, AccountShows, AdminShows, For
<1>21. \A k \in DOMAIN Shows : "blocked" \in Shows[k] => k \in {<<"blocked-senders">>}
  BY ShownByRow DEF MailShows, AccountShows, AdminShows, For
<1>22. \A k \in DOMAIN Shows : "forwarding" \in Shows[k] => k \in {<<"forwarding-settings">>}
  BY ShownByRow DEF MailShows, AccountShows, AdminShows, For
<1>23. \A k \in DOMAIN Shows : "verified" \in Shows[k] => k \in {<<"forwarding-settings">>}
  BY ShownByRow DEF MailShows, AccountShows, AdminShows, For
<1>24. \A k \in DOMAIN Shows : "events" \in Shows[k] => k \in {<<"client-access-events",
        "mailbox">>}
  BY ShownByRow DEF MailShows, AccountShows, AdminShows, For
<1>25. \A k \in DOMAIN Shows : "feedback" \in Shows[k] => k \in {<<"feedback-tickets">>,
        <<"feedback-tickets", "id">>, <<"admin", "feedback-tickets", "status">>, <<"admin",
        "feedback-tickets", "detail", "id">>}
  BY ShownByRow DEF MailShows, AccountShows, AdminShows, For
<1>26. \A k \in DOMAIN Shows : "domains" \in Shows[k] => k \in {<<"admin", "overview">>, <<"admin",
        "domains">>}
  BY ShownByRow DEF MailShows, AccountShows, AdminShows, For
<1>27. \A k \in DOMAIN Shows : "aliases" \in Shows[k] => k \in {<<"admin", "overview">>, <<"admin",
        "aliases">>}
  BY ShownByRow DEF MailShows, AccountShows, AdminShows, For
<1>28. \A k \in DOMAIN Shows : "dns" \in Shows[k] => k \in {<<"admin", "domains">>}
  BY ShownByRow DEF MailShows, AccountShows, AdminShows, For
<1>29. \A k \in DOMAIN Shows : "settings" \in Shows[k] => k \in {<<"admin", "settings">>,
        <<"dns-records", "id">>, <<"admin", "maildir-sync", "health">>, <<"admin", "certificates",
        "status">>}
  BY ShownByRow DEF MailShows, AccountShows, AdminShows, For
<1>30. \A k \in DOMAIN Shows : "certificates" \in Shows[k] => k \in {<<"admin", "certificates",
        "status">>}
  BY ShownByRow DEF MailShows, AccountShows, AdminShows, For
<1>31. \A k \in DOMAIN Shows : "ai" \in Shows[k] => k \in {<<"admin", "ai-settings">>}
  BY ShownByRow DEF MailShows, AccountShows, AdminShows, For
<1>32. \A k \in DOMAIN Shows : "announcements" \in Shows[k] => k \in {<<"admin", "announcements">>}
  BY ShownByRow DEF MailShows, AccountShows, AdminShows, For
<1>33. \A k \in DOMAIN Shows : "templates" \in Shows[k] => k \in {<<"admin", "mail-templates">>}
  BY ShownByRow DEF MailShows, AccountShows, AdminShows, For
<1>34. \A k \in DOMAIN Shows : "operation" \in Shows[k] => k \in {<<"admin", "system-operation">>}
  BY ShownByRow DEF MailShows, AccountShows, AdminShows, For
<1> QED
  BY <1>1, <1>2, <1>3, <1>4, <1>5, <1>6, <1>7, <1>8, <1>9, <1>10, <1>11, <1>12, <1>13, <1>14, <1>15,
     <1>16, <1>17, <1>18, <1>19, <1>20, <1>21, <1>22, <1>23, <1>24, <1>25, <1>26, <1>27, <1>28,
     <1>29, <1>30, <1>31, <1>32, <1>33, <1>34

MailKeys == {k \in DOMAIN Shows : k[1] # "admin" \/ k[2] = "unknown-messages"}

\* The same among the keys of the mail page, by the elements they begin with.
LEMMA MailWatched ==
  /\ \A k \in MailKeys : "filed" \in Shows[k] => k[1] \in {"messages", "folders", "mail-stats"}
  /\ \A k \in MailKeys : "erased" \in Shows[k] => k[1] \in {"messages", "folders", "labels",
         "mail-stats"}
  /\ \A k \in MailKeys : "seen" \in Shows[k] => k[1] \in {"messages", "folders", "mail-stats"} \/ k
         = <<"message", "id", "view">>
  /\ \A k \in MailKeys : "starred" \in Shows[k] => k[1] \in {"messages", "mail-stats"} \/ k =
         <<"message", "id", "view">>
  /\ \A k \in MailKeys : "labelled" \in Shows[k] => k[1] \in {"messages", "labels"} \/ k =
         <<"message", "id", "view">>
  /\ \A k \in MailKeys : "folders" \in Shows[k] => k = <<"folders", "mailbox">>
  /\ \A k \in MailKeys : "labels" \in Shows[k] => k[1] \in {"labels"}
  /\ \A k \in MailKeys : "inbox" \in Shows[k] => k[1] \in {"mailboxes"}
  /\ \A k \in MailKeys : "queue" \in Shows[k] => k[1] \in {"send-queue"}
  /\ \A k \in MailKeys : "audit" \in Shows[k] => k[1] \in {"send-queue-audit"}
  /\ \A k \in MailKeys : "scheduled" \in Shows[k] => k[1] \in {"scheduled-sends"}
  /\ \A k \in MailKeys : "remote.seen" \in Shows[k] => k[1] \in {"external-messages", "message",
         "mail-external-folders"}
<1>0. \A k \in MailKeys : k \in DOMAIN Shows
  BY DEF MailKeys
<1>1. \A k \in MailKeys : "filed" \in Shows[k] => k[1] \in {"messages", "folders", "mail-stats"}
  BY <1>0, ShownIn DEF MailKeys
<1>2. \A k \in MailKeys : "erased" \in Shows[k] => k[1] \in {"messages", "folders", "labels",
        "mail-stats"}
  BY <1>0, ShownIn DEF MailKeys
<1>3. \A k \in MailKeys : "seen" \in Shows[k] => k[1] \in {"messages", "folders", "mail-stats"} \/ k
        = <<"message", "id", "view">>
  BY <1>0, ShownIn DEF MailKeys
<1>4. \A k \in MailKeys : "starred" \in Shows[k] => k[1] \in {"messages", "mail-stats"} \/ k =
        <<"message", "id", "view">>
  BY <1>0, ShownIn DEF MailKeys
<1>5. \A k \in MailKeys : "labelled" \in Shows[k] => k[1] \in {"messages", "labels"} \/ k =
        <<"message", "id", "view">>
  BY <1>0, ShownIn DEF MailKeys
<1>6. \A k \in MailKeys : "folders" \in Shows[k] => k = <<"folders", "mailbox">>
  BY <1>0, ShownIn DEF MailKeys
<1>7. \A k \in MailKeys : "labels" \in Shows[k] => k[1] \in {"labels"}
  BY <1>0, ShownIn DEF MailKeys
<1>8. \A k \in MailKeys : "inbox" \in Shows[k] => k[1] \in {"mailboxes"}
  BY <1>0, ShownIn DEF MailKeys
<1>9. \A k \in MailKeys : "queue" \in Shows[k] => k[1] \in {"send-queue"}
  BY <1>0, ShownIn DEF MailKeys
<1>10. \A k \in MailKeys : "audit" \in Shows[k] => k[1] \in {"send-queue-audit"}
  BY <1>0, ShownIn DEF MailKeys
<1>11. \A k \in MailKeys : "scheduled" \in Shows[k] => k[1] \in {"scheduled-sends"}
  BY <1>0, ShownIn DEF MailKeys
<1>12. \A k \in MailKeys : "remote.seen" \in Shows[k] => k[1] \in {"external-messages", "message",
        "mail-external-folders"}
  BY <1>0, ShownIn DEF MailKeys
<1> QED
  BY <1>1, <1>2, <1>3, <1>4, <1>5, <1>6, <1>7, <1>8, <1>9, <1>10, <1>11, <1>12

\* A query is filed under a key that is not empty.
LEMMA ShownKeys == \A k \in DOMAIN Shows : Len(k) \in Nat \ {0}
<1>1. \A row \in MailShows : \A k \in row.of : Len(k) \in Nat \ {0}
  BY DEF MailShows, For
<1>2. \A row \in AccountShows : \A k \in row.of : Len(k) \in Nat \ {0}
  BY SMTT(30) DEF AccountShows, For
<1>3. \A row \in AdminShows : \A k \in row.of : Len(k) \in Nat \ {0}
  BY DEF AdminShows, For
<1>4. \A k \in DOMAIN Shows : \E row \in MailShows \cup AccountShows \cup AdminShows : k \in row.of
  BY DEF Shows, Table, Entries
<1> QED
  BY <1>1, <1>2, <1>3, <1>4

\* A press notifies of a change if each query that shows what it changes is told by one of the
\* beginnings of its key, given, or named.
LEMMA NotedIf ==
  ASSUME NEW r, NEW told, NEW given, NEW K \in SUBSET DOMAIN Shows,
         r \in DOMAIN Changes =>
             \A a \in Changes[r] : \A k \in K :
                 a \in Shows[k] => \/ <<k[1]>> \in told
                                   \/ <<r, told, k>> \in Untold
                                   \/ k \in given
                                   \/ Len(k) \in Nat \ {0, 1} /\ <<k[1], k[2]>> \in told
                                   \/ Len(k) \in Nat \ {0, 1, 2} /\ <<k[1], k[2], k[3]>> \in told
  PROVE  Notified(r, told, given, K)
<1> SUFFICES ASSUME NEW k \in K, r \in DOMAIN Changes, NEW a \in Changes[r], a \in Shows[k]
             PROVE  <<r, told, k>> \in Untold \/ Informs(told, k) \/ k \in given
  BY DEF Notified
<1>1. Len(k) \in Nat \ {0}
  BY ShownKeys
<1> QED
  BY <1>1, ToldByRoot, ToldByTwo, ToldByThree

\* The mail that is open does not learn of a mark or a star put on many, nor of a label.
LEMMA DetailIsUntold ==
  /\ \A r \in {"markRead", "star"} : <<r, RefreshMailData, <<"message", "id", "view">>>> \in Untold
  /\ \A r \in {"addMessageLabel", "removeMessageLabel", "deleteLabel"} :
        <<r, {<<"messages">>, <<"labels">>}, <<"message", "id", "view">>>> \in Untold
  BY DEF Untold, MessageDetail

\* What the presses of the mail page tell covers what they change.
LEMMA MailNoted ==
  /\ \A r \in {"publicSettings", "announcement", "me", "labels", "mailStats", "defaultSignature",
         "myMailboxes", "aiStatus", "folders", "messages", "starredMessages", "labelMessages",
         "message", "exportMail", "translateMessage", "externalMailAccounts", "externalFolders",
         "externalMessages", "externalMessage", "translateExternalMessage", "aiMessage",
         "aiCompose", "sendQueue", "sendQueueAudit", "scheduledSends", "attachment",
         "externalAttachment", "adminMessage", "adminAttachment", "adminMessages"} : r \notin DOMAIN
         Changes
  /\ Notified("star", {<<"messages">>, <<"message", "id">>, <<"mail-stats">>, <<"labels">>}, {},
         MailKeys)
  /\ Notified("markRead", Counts \cup {<<"message", "id">>}, {}, MailKeys)
  /\ \A r \in {"move", "deleteMessage"} : Notified(r, Counts \cup {<<"labels">>}, {}, MailKeys)
  /\ \A r \in {"markRead", "star", "move", "deleteMessage", "importMail", "deleteFolder"} : Notified(r,
         RefreshMailData, {}, MailKeys)
  /\ Notified("markExternalRead", {<<"external-messages">>, <<"message">>,
         <<"mail-external-folders">>}, {}, MailKeys)
  /\ \A r \in {"addMessageLabel", "removeMessageLabel"} : Notified(r, {<<"messages">>, <<"labels">>},
         {}, MailKeys)
  /\ Notified("deleteLabel", {<<"messages">>, <<"labels">>}, {}, MailKeys)
  /\ Notified("createLabel", {<<"labels">>}, {}, MailKeys)
  /\ Notified("createFolder", {<<"folders">>}, {}, MailKeys)
  /\ Notified("reorderFolders", {Folders}, {}, MailKeys)
  /\ Notified("cancelScheduledSend", {<<"scheduled-sends">>}, {}, MailKeys)
  /\ \A r \in {"retrySendQueue", "cancelSendQueue"} : Notified(r, {<<"send-queue">>,
         <<"send-queue-audit">>}, {}, MailKeys)
  /\ \A r \in {"send", "deleteDraft", "scheduleSend"} : Notified(r, ComposerSent, {}, MailKeys)
  /\ Notified("saveDraft", {<<"messages">>, <<"folders">>, <<"mail-stats">>}, {}, MailKeys)
<1>0. MailKeys \subseteq DOMAIN Shows
  BY DEF MailKeys
<1> USE <1>0
<1>1. \A r \in {"publicSettings", "announcement", "me", "labels", "mailStats", "defaultSignature",
        "myMailboxes", "aiStatus", "folders", "messages", "starredMessages", "labelMessages",
        "message", "exportMail", "translateMessage", "externalMailAccounts", "externalFolders",
        "externalMessages", "externalMessage", "translateExternalMessage", "aiMessage", "aiCompose",
        "sendQueue", "sendQueueAudit", "scheduledSends", "attachment", "externalAttachment",
        "adminMessage", "adminAttachment", "adminMessages"} : r \notin DOMAIN Changes
  BY ChangesDomain, MailChangesEntries, AccountChangesEntries, AdminChangesEntries
<1>2. Notified("star", {<<"messages">>, <<"message", "id">>, <<"mail-stats">>, <<"labels">>}, {},
        MailKeys)
  BY MailChangesRows, ChangesAnswer, MailWatched, NotedIf DEF Untold
<1>3. Notified("markRead", Counts \cup {<<"message", "id">>}, {}, MailKeys)
  BY MailChangesRows, ChangesAnswer, MailWatched, NotedIf DEF Untold, Counts
<1>4. \A r \in {"move", "deleteMessage"} : Notified(r, Counts \cup {<<"labels">>}, {}, MailKeys)
  BY MailChangesRows, ChangesAnswer, MailWatched, NotedIf DEF Untold, Counts
<1>5. \A r \in {"markRead", "star", "move", "deleteMessage", "importMail", "deleteFolder"} :
        Notified(r, RefreshMailData, {}, MailKeys)
  <2>1. \A root \in {"messages", "folders", "mailboxes", "mail-stats", "labels"} :
          <<root>> \in RefreshMailData
    BY DEF RefreshMailData, Counts
  <2> QED
    BY <2>1, MailChangesRows, ChangesAnswer, MailWatched, NotedIf, DetailIsUntold
<1>6. Notified("markExternalRead", {<<"external-messages">>, <<"message">>,
        <<"mail-external-folders">>}, {}, MailKeys)
  BY MailChangesRows, ChangesAnswer, MailWatched, NotedIf DEF Untold
<1>7. \A r \in {"addMessageLabel", "removeMessageLabel", "deleteLabel"} :
        Notified(r, {<<"messages">>, <<"labels">>}, {}, MailKeys)
  <2> DEFINE told == {<<"messages">>, <<"labels">>}
  <2>1. <<"messages">> \in told /\ <<"labels">> \in told
    OBVIOUS
  <2>2. \A r \in {"addMessageLabel", "removeMessageLabel", "deleteLabel"} :
          <<r, told, <<"message", "id", "view">>>> \in Untold
    BY DetailIsUntold
  <2> HIDE DEF told
  <2>3. \A r \in {"addMessageLabel", "removeMessageLabel", "deleteLabel"} : Notified(r, told, {}, MailKeys)
    BY <2>1, <2>2, MailChangesRows, ChangesAnswer, MailWatched, NotedIf
  <2> QED
    BY <2>3 DEF told
<1>8. Notified("deleteLabel", {<<"messages">>, <<"labels">>}, {}, MailKeys)
  BY <1>7
<1>9. Notified("createLabel", {<<"labels">>}, {}, MailKeys)
  BY MailChangesRows, ChangesAnswer, MailWatched, NotedIf DEF Untold
<1>10. Notified("createFolder", {<<"folders">>}, {}, MailKeys)
  BY MailChangesRows, ChangesAnswer, MailWatched, NotedIf DEF Untold
<1>11. Notified("reorderFolders", {Folders}, {}, MailKeys)
  BY MailChangesRows, ChangesAnswer, MailWatched, NotedIf DEF Untold, Folders
<1>12. Notified("cancelScheduledSend", {<<"scheduled-sends">>}, {}, MailKeys)
  BY MailChangesRows, ChangesAnswer, MailWatched, NotedIf DEF Untold
<1>13. \A r \in {"retrySendQueue", "cancelSendQueue"} : Notified(r, {<<"send-queue">>,
        <<"send-queue-audit">>}, {}, MailKeys)
  BY MailChangesRows, ChangesAnswer, MailWatched, NotedIf DEF Untold
<1>14. \A r \in {"send", "deleteDraft", "scheduleSend"} : Notified(r, ComposerSent, {}, MailKeys)
  BY MailChangesRows, ChangesAnswer, MailWatched, NotedIf DEF Untold, ComposerSent
<1>15. Notified("saveDraft", {<<"messages">>, <<"folders">>, <<"mail-stats">>}, {}, MailKeys)
  BY MailChangesRows, ChangesAnswer, MailWatched, NotedIf DEF Untold
<1> QED
  BY <1>1, <1>2, <1>3, <1>4, <1>5, <1>6, <1>7, <1>8, <1>9, <1>10, <1>11, <1>12, <1>13, <1>14, <1>15

\* The queries of the mail page file under its keys.
LEMMA MailFiled ==
  \A k \in {<<"announcement">>, <<"public-settings">>, <<"me">>, <<"mailboxes", "mine">>,
             <<"mail-external-accounts">>, <<"mail-external-folders", "account">>,
             Folders, Labels, Stats, <<"scheduled-sends", "mailbox">>, <<"send-queue", "mailbox">>,
             <<"send-queue-audit", "id">>, <<"mail-notifications", "mailbox">>,
             Messages, <<"messages", "starred">>, <<"messages", "label">>,
             <<"admin", "unknown-messages">>, <<"external-messages", "account">>, MessageDetail,
             <<"message", "id", "external">>, <<"message", "id", "unknown">>, <<"ai-status">>,
             <<"signature", "default", "mailbox">>} :
      k \in DOMAIN Shows => k \in MailKeys
BY DEF MailKeys, Folders, Labels, Stats, Messages, MessageDetail

\* The queries of the mail page.
LEMMA MailQueriesHeeded ==
  /\ Heeded(UseMe, MailKeys)
  /\ Heeded(PublicSettings, MailKeys)
  /\ Heeded(AnnouncementBanner, MailKeys)
  /\ Heeded(MailboxList, MailKeys)
  /\ Heeded(ExternalAccounts, MailKeys)
  /\ Heeded(FolderList, MailKeys)
  /\ Heeded(LabelItems, MailKeys)
  /\ Heeded(MailStats, MailKeys)
  /\ Heeded(ScheduledList, MailKeys)
  /\ Heeded(SendQueueList, MailKeys)
  /\ Heeded(SendQueueAudit, MailKeys)
  /\ Heeded(InboxProbe, MailKeys)
  /\ Heeded(MessageList, MailKeys)
  /\ Heeded(UnknownMessages, MailKeys)
  /\ Heeded(ExternalMessages, MailKeys)
  /\ Heeded(OpenDetail, MailKeys)
<1> USE MailFiled, MailNoted, HeededShow, HeededQuiet, HeededPress, HeededPressGiving, HeededUnder
        DEF Heeded
<1>1. Heeded(UseMe, MailKeys)
  BY DEF UseMe
<1>2. Heeded(PublicSettings, MailKeys)
  BY DEF PublicSettings
<1>3. Heeded(AnnouncementBanner, MailKeys)
  BY DEF AnnouncementBanner
<1>4. Heeded(MailboxList, MailKeys)
  BY DEF MailboxList
<1>5. Heeded(ExternalAccounts, MailKeys)
  BY DEF ExternalAccounts
<1>6. Heeded(FolderList, MailKeys)
  BY DEF FolderList
<1>7. Heeded(LabelItems, MailKeys)
  BY DEF LabelItems
<1>8. Heeded(MailStats, MailKeys)
  BY DEF MailStats
<1>9. Heeded(ScheduledList, MailKeys)
  BY DEF ScheduledList
<1>10. Heeded(SendQueueList, MailKeys)
  BY DEF SendQueueList
<1>11. Heeded(SendQueueAudit, MailKeys)
  BY DEF SendQueueAudit
<1>12. Heeded(InboxProbe, MailKeys)
  BY DEF InboxProbe
<1>13. Heeded(MessageList, MailKeys)
  BY DEF MessageList
<1>14. Heeded(UnknownMessages, MailKeys)
  BY DEF UnknownMessages
<1>15. Heeded(ExternalMessages, MailKeys)
  BY DEF ExternalMessages
<1>16. Heeded(OpenDetail, MailKeys)
  BY DEF OpenDetail
<1> HIDE DEF Heeded
<1> QED
  BY <1>1, <1>2, <1>3, <1>4, <1>5, <1>6, <1>7, <1>8, <1>9, <1>10, <1>11, <1>12, <1>13, <1>14, <1>15,
     <1>16

\* What the mail page offers.
LEMMA MailPressesHeeded ==
  /\ Heeded(MessageRow, MailKeys)
  /\ Heeded(CompactMessageRow, MailKeys)
  /\ Heeded(OpenMessage, MailKeys)
  /\ Heeded(MessageContextMenu, MailKeys)
  /\ Heeded(MessageMetaPanel, MailKeys)
  /\ Heeded(BulkActionToolbar, MailKeys)
  /\ Heeded(MailTransferTools, MailKeys)
  /\ Heeded(CreateFolderDialog, MailKeys)
  /\ Heeded(SidebarContextMenu, MailKeys)
  /\ Heeded(NewLabelButton, MailKeys)
  /\ Heeded(FolderDragging, MailKeys)
  /\ Heeded(ScheduledSendRow, MailKeys)
  /\ Heeded(SendQueueRow, MailKeys)
  /\ Heeded(AttachmentHref, MailKeys)
  /\ Heeded(Under(MailShown \cup CanOrganizeMail, Move \cup Del), MailKeys)
  /\ Heeded(AIMailAssistant("summary"), MailKeys)
  /\ Heeded(AIMailAssistant("reply"), MailKeys)
  /\ Heeded(AIMailAssistant("compose"), MailKeys)
  /\ Heeded(TranslatableMailBody, MailKeys)
  /\ Heeded(CompactMessageDetail, MailKeys)
  /\ Heeded(LabelList, MailKeys)
  /\ Heeded(Composer, MailKeys)
  /\ Heeded(CustomMailMenu, MailKeys)
<1> USE MailFiled, MailNoted, HeededShow, HeededQuiet, HeededPress, HeededPressGiving, HeededUnder
        DEF Heeded
<1>1. Heeded(MessageRow, MailKeys)
  BY DEF MessageRow, Star, Move, Del, MarkRead
<1>2. Heeded(CompactMessageRow, MailKeys)
  BY DEF CompactMessageRow, Star
<1>3. Heeded(OpenMessage, MailKeys)
  BY DEF OpenMessage, MarkRead, MarkExternalRead
<1>4. Heeded(MessageContextMenu, MailKeys)
  BY DEF MessageContextMenu, MarkRead, Star, Move, Del, AddLabel, RemoveLabel
<1>5. Heeded(MessageMetaPanel, MailKeys)
  BY DEF MessageMetaPanel, AddLabel, RemoveLabel
<1>6. Heeded(BulkActionToolbar, MailKeys)
  BY DEF BulkActionToolbar
<1>7. Heeded(MailTransferTools, MailKeys)
  BY DEF MailTransferTools
<1>8. Heeded(CreateFolderDialog, MailKeys)
  BY DEF CreateFolderDialog
<1>9. Heeded(SidebarContextMenu, MailKeys)
  BY DEF SidebarContextMenu, ReorderFolders
<1>10. Heeded(NewLabelButton, MailKeys)
  BY DEF NewLabelButton
<1>11. Heeded(FolderDragging, MailKeys)
  BY DEF FolderDragging, ReorderFolders
<1>12. Heeded(ScheduledSendRow, MailKeys)
  BY DEF ScheduledSendRow
<1>13. Heeded(SendQueueRow, MailKeys)
  BY DEF SendQueueRow
<1>14. Heeded(AttachmentHref, MailKeys)
  BY DEF AttachmentHref
<1>15. Heeded(Under(MailShown \cup CanOrganizeMail, Move \cup Del), MailKeys)
  BY DEF Move, Del
<1>16. Heeded(AIMailAssistant("summary"), MailKeys)
  BY DEF AIMailAssistant
<1>17. Heeded(AIMailAssistant("reply"), MailKeys)
  BY DEF AIMailAssistant
<1>18. Heeded(AIMailAssistant("compose"), MailKeys)
  BY DEF AIMailAssistant
<1>19. Heeded(TranslatableMailBody, MailKeys)
  BY <1>16, <1>17 DEF TranslatableMailBody
<1>20. Heeded(CompactMessageDetail, MailKeys)
  BY <1>5, <1>14, <1>19 DEF CompactMessageDetail, Star, Move, Del, MarkRead
<1>21. Heeded(LabelList, MailKeys)
  BY <1>10, MailQueriesHeeded DEF LabelList
<1>22. Heeded(Composer, MailKeys)
  BY <1>18 DEF Composer
<1>23. Heeded(CustomMailMenu, MailKeys)
  BY <1>8, <1>11, MailQueriesHeeded DEF CustomMailMenu
<1> HIDE DEF Heeded
<1> QED
  BY <1>1, <1>2, <1>3, <1>4, <1>5, <1>6, <1>7, <1>8, <1>9, <1>10, <1>11, <1>12, <1>13, <1>14, <1>15,
     <1>16, <1>17, <1>18, <1>19, <1>20, <1>21, <1>22, <1>23

\* On the mail page every press notifies every query it changes.
LEMMA MailPageHeeded == Heeded(MailPage, MailKeys)
<1> USE MailQueriesHeeded, MailPressesHeeded DEF Heeded
<1>1. Heeded(Sidebar, MailKeys)
  BY DEF Sidebar, AccountHeader, MailboxSwitcher, PrimaryMailMenu, ExternalAccountMenu
<1>2. Heeded(TwoPaneMailView, MailKeys)
  BY DEF TwoPaneMailView, AdvancedSearchPanel
<1>3. Heeded(CompactMailView, MailKeys)
  BY DEF CompactMailView
<1>4. Heeded(ContentView, MailKeys)
  BY <1>2, <1>3 DEF ContentView, ScheduledSendView, SendQueueView
<1> QED
  BY <1>1, <1>4 DEF MailPage, SendQueueAuditDialog

ProfileKeys == {k \in DOMAIN Shows : k[1] \notin {"admin", "folders", "message", "messages"}}

\* The same for the user's own page: its keys, by the elements they begin with;
LEMMA ProfileWatched ==
  /\ \A k \in ProfileKeys : "filed" \in Shows[k] => k[1] \in {"mail-stats"}
  /\ \A k \in ProfileKeys : "erased" \in Shows[k] => k[1] \in {"mail-stats"} \/ k = <<"labels",
         "mailbox">>
  /\ \A k \in ProfileKeys : "seen" \in Shows[k] => k[1] \in {"mail-stats"}
  /\ \A k \in ProfileKeys : "starred" \in Shows[k] => k[1] \in {"mail-stats"}
  /\ \A k \in ProfileKeys : "labelled" \in Shows[k] => k[1] \in {"labels"}
  /\ \A k \in ProfileKeys : "labels" \in Shows[k] => k[1] \in {"labels"}
  /\ \A k \in ProfileKeys : "inbox" \in Shows[k] => k = <<"mailboxes", "mine">>
  /\ \A k \in ProfileKeys : "accounts" \in Shows[k] => k = <<"me">>
  /\ \A k \in ProfileKeys : "app.password" \in Shows[k] => k = <<"mailboxes", "mine">>
  /\ \A k \in ProfileKeys : "mailboxes" \in Shows[k] => k = <<"mailboxes", "mine">>
  /\ \A k \in ProfileKeys : "tokens" \in Shows[k] => k[1] \in {"api-tokens"}
  /\ \A k \in ProfileKeys : "contacts" \in Shows[k] => k[1] \in {"contacts"}
  /\ \A k \in ProfileKeys : "signatures" \in Shows[k] => k[1] \in {"signatures"}
  /\ \A k \in ProfileKeys : "rules" \in Shows[k] => k[1] \in {"rules"}
  /\ \A k \in ProfileKeys : "blocked" \in Shows[k] => k[1] \in {"blocked-senders"}
  /\ \A k \in ProfileKeys : "forwarding" \in Shows[k] => k = <<"forwarding-settings">>
  /\ \A k \in ProfileKeys : "verified" \in Shows[k] => k = <<"forwarding-settings">>
  /\ \A k \in ProfileKeys : "events" \in Shows[k] => k[1] \in {"client-access-events"}
  /\ \A k \in ProfileKeys : "feedback" \in Shows[k] => k[1] \in {"feedback-tickets"}
<1>0. \A k \in ProfileKeys : k \in DOMAIN Shows
  BY DEF ProfileKeys
<1>1. \A k \in ProfileKeys : "filed" \in Shows[k] => k[1] \in {"mail-stats"}
  BY <1>0, ShownIn DEF ProfileKeys
<1>2. \A k \in ProfileKeys : "erased" \in Shows[k] => k[1] \in {"mail-stats"} \/ k = <<"labels",
        "mailbox">>
  BY <1>0, ShownIn DEF ProfileKeys
<1>3. \A k \in ProfileKeys : "seen" \in Shows[k] => k[1] \in {"mail-stats"}
  BY <1>0, ShownIn DEF ProfileKeys
<1>4. \A k \in ProfileKeys : "starred" \in Shows[k] => k[1] \in {"mail-stats"}
  BY <1>0, ShownIn DEF ProfileKeys
<1>5. \A k \in ProfileKeys : "labelled" \in Shows[k] => k[1] \in {"labels"}
  BY <1>0, ShownIn DEF ProfileKeys
<1>6. \A k \in ProfileKeys : "labels" \in Shows[k] => k[1] \in {"labels"}
  BY <1>0, ShownIn DEF ProfileKeys
<1>7. \A k \in ProfileKeys : "inbox" \in Shows[k] => k = <<"mailboxes", "mine">>
  BY <1>0, ShownIn DEF ProfileKeys
<1>8. \A k \in ProfileKeys : "accounts" \in Shows[k] => k = <<"me">>
  BY <1>0, ShownIn DEF ProfileKeys
<1>9. \A k \in ProfileKeys : "app.password" \in Shows[k] => k = <<"mailboxes", "mine">>
  BY <1>0, ShownIn DEF ProfileKeys
<1>10. \A k \in ProfileKeys : "mailboxes" \in Shows[k] => k = <<"mailboxes", "mine">>
  BY <1>0, ShownIn DEF ProfileKeys
<1>11. \A k \in ProfileKeys : "tokens" \in Shows[k] => k[1] \in {"api-tokens"}
  BY <1>0, ShownIn DEF ProfileKeys
<1>12. \A k \in ProfileKeys : "contacts" \in Shows[k] => k[1] \in {"contacts"}
  BY <1>0, ShownIn DEF ProfileKeys
<1>13. \A k \in ProfileKeys : "signatures" \in Shows[k] => k[1] \in {"signatures"}
  BY <1>0, ShownIn DEF ProfileKeys
<1>14. \A k \in ProfileKeys : "rules" \in Shows[k] => k[1] \in {"rules"}
  BY <1>0, ShownIn DEF ProfileKeys
<1>15. \A k \in ProfileKeys : "blocked" \in Shows[k] => k[1] \in {"blocked-senders"}
  BY <1>0, ShownIn DEF ProfileKeys
<1>16. \A k \in ProfileKeys : "forwarding" \in Shows[k] => k = <<"forwarding-settings">>
  BY <1>0, ShownIn DEF ProfileKeys
<1>17. \A k \in ProfileKeys : "verified" \in Shows[k] => k = <<"forwarding-settings">>
  BY <1>0, ShownIn DEF ProfileKeys
<1>18. \A k \in ProfileKeys : "events" \in Shows[k] => k[1] \in {"client-access-events"}
  BY <1>0, ShownIn DEF ProfileKeys
<1>19. \A k \in ProfileKeys : "feedback" \in Shows[k] => k[1] \in {"feedback-tickets"}
  BY <1>0, ShownIn DEF ProfileKeys
<1> QED
  BY <1>1, <1>2, <1>3, <1>4, <1>5, <1>6, <1>7, <1>8, <1>9, <1>10, <1>11, <1>12, <1>13, <1>14, <1>15,
     <1>16, <1>17, <1>18, <1>19

\* its presses;
LEMMA ProfileNoted ==
  /\ \A r \in {"myMailboxes", "mailboxApplyOptions", "publicSettings", "apiTokens", "contacts",
         "signatures", "rules", "forwardingSettings", "blockedSenders", "clientAccessEvents",
         "externalImapAccounts", "labels", "mailStats", "version", "feedbackTickets",
         "feedbackTicket", "me", "changePassword", "setupTwoFactor"} : r \notin DOMAIN Changes
  /\ \A r \in {"createLabel", "deleteLabel"} : Notified(r, {<<"labels">>}, {}, ProfileKeys)
  /\ \A r \in {"createSignature", "updateSignature", "setDefaultSignature", "deleteSignature"} :
         Notified(r, {<<"signatures">>, <<"signature">>}, {}, ProfileKeys)
  /\ Notified("deleteClientAccessEvents", {<<"client-access-events">>}, {}, ProfileKeys)
  /\ \A r \in {"enableTwoFactor", "disableTwoFactor"} : Notified(r, {}, {<<"me">>}, ProfileKeys)
  /\ \A r \in {"createMailboxAppPassword", "deleteMailboxAppPassword"} : Notified(r, {<<"mailboxes">>},
         {}, ProfileKeys)
  /\ Notified("applyMailbox", {<<"mailboxes", "mine">>, <<"mailbox-apply-options">>}, {}, ProfileKeys)
  /\ \A r \in {"addForwardingVerifiedEmail", "resendForwardingVerifiedEmail"} : Notified(r,
         {ForwardingCache}, {ForwardingCache}, ProfileKeys)
  /\ \A r \in {"deleteForwardingVerifiedEmail", "updateAccountForwarding",
         "updateMailboxForwarding"} : Notified(r, {}, {ForwardingCache}, ProfileKeys)
  /\ \A r \in {"createContact", "deleteContact"} : Notified(r, {<<"contacts">>}, {}, ProfileKeys)
  /\ Notified("cleanupMail", {<<"mail-stats">>, <<"folders">>, <<"messages">>}, {}, ProfileKeys)
  /\ \A r \in {"updateRule", "moveRule", "deleteRule"} : Notified(r, {<<"rules">>}, {}, ProfileKeys)
  /\ Notified("applyRule", {<<"messages">>, <<"folders">>, <<"mail-stats">>, <<"labels">>}, {},
         ProfileKeys)
  /\ Notified("createRule", {<<"rules">>, <<"messages">>, <<"mail-stats">>, <<"labels">>}, {},
         ProfileKeys)
  /\ \A r \in {"createBlockedSender", "deleteBlockedSender"} : Notified(r, {<<"blocked-senders">>}, {},
         ProfileKeys)
  /\ \A r \in {"createFeedbackTicket", "replyFeedbackTicket", "closeFeedbackTicket",
         "deleteFeedbackTicket"} : Notified(r, {<<"feedback-tickets">>}, {}, ProfileKeys)
  /\ \A r \in {"createApiToken", "updateApiToken", "deleteApiToken"} : Notified(r, {<<"api-tokens">>},
         {}, ProfileKeys)
<1>0. ProfileKeys \subseteq DOMAIN Shows
  BY DEF ProfileKeys
<1> USE <1>0
<1>1. \A r \in {"myMailboxes", "mailboxApplyOptions", "publicSettings", "apiTokens", "contacts",
        "signatures", "rules", "forwardingSettings", "blockedSenders", "clientAccessEvents",
        "externalImapAccounts", "labels", "mailStats", "version", "feedbackTickets",
        "feedbackTicket", "me", "changePassword", "setupTwoFactor"} : r \notin DOMAIN Changes
  BY ChangesDomain, MailChangesEntries, AccountChangesEntries, AdminChangesEntries
<1>2. \A r \in {"createLabel", "deleteLabel"} : Notified(r, {<<"labels">>}, {}, ProfileKeys)
  BY MailChangesRows, AccountChangesRows, ChangesAnswer, ProfileWatched, NotedIf DEF Untold
<1>3. \A r \in {"createSignature", "updateSignature", "setDefaultSignature", "deleteSignature"} :
        Notified(r, {<<"signatures">>, <<"signature">>}, {}, ProfileKeys)
  BY MailChangesRows, AccountChangesRows, ChangesAnswer, ProfileWatched, NotedIf DEF Untold
<1>4. Notified("deleteClientAccessEvents", {<<"client-access-events">>}, {}, ProfileKeys)
  BY MailChangesRows, AccountChangesRows, ChangesAnswer, ProfileWatched, NotedIf DEF Untold
<1>5. \A r \in {"enableTwoFactor", "disableTwoFactor"} : Notified(r, {}, {<<"me">>}, ProfileKeys)
  BY MailChangesRows, AccountChangesRows, ChangesAnswer, ProfileWatched, NotedIf DEF Untold
<1>6. \A r \in {"createMailboxAppPassword", "deleteMailboxAppPassword"} : Notified(r,
        {<<"mailboxes">>}, {}, ProfileKeys)
  BY MailChangesRows, AccountChangesRows, ChangesAnswer, ProfileWatched, NotedIf DEF Untold
<1>7. Notified("applyMailbox", {<<"mailboxes", "mine">>, <<"mailbox-apply-options">>}, {}, ProfileKeys)
  BY MailChangesRows, AccountChangesRows, ChangesAnswer, ProfileWatched, NotedIf DEF Untold
<1>8. \A r \in {"addForwardingVerifiedEmail", "resendForwardingVerifiedEmail"} : Notified(r,
        {ForwardingCache}, {ForwardingCache}, ProfileKeys)
  BY MailChangesRows, AccountChangesRows, ChangesAnswer, ProfileWatched, NotedIf DEF Untold, ForwardingCache
<1>9. \A r \in {"deleteForwardingVerifiedEmail", "updateAccountForwarding",
        "updateMailboxForwarding"} : Notified(r, {}, {ForwardingCache}, ProfileKeys)
  BY MailChangesRows, AccountChangesRows, ChangesAnswer, ProfileWatched, NotedIf DEF Untold, ForwardingCache
<1>10. \A r \in {"createContact", "deleteContact"} : Notified(r, {<<"contacts">>}, {}, ProfileKeys)
  BY MailChangesRows, AccountChangesRows, ChangesAnswer, ProfileWatched, NotedIf DEF Untold
<1>11. Notified("cleanupMail", {<<"mail-stats">>, <<"folders">>, <<"messages">>}, {}, ProfileKeys)
  BY MailChangesRows, AccountChangesRows, ChangesAnswer, ProfileWatched, NotedIf DEF Untold
<1>12. \A r \in {"updateRule", "moveRule", "deleteRule"} : Notified(r, {<<"rules">>}, {}, ProfileKeys)
  BY MailChangesRows, AccountChangesRows, ChangesAnswer, ProfileWatched, NotedIf DEF Untold
<1>13. Notified("applyRule", {<<"messages">>, <<"folders">>, <<"mail-stats">>, <<"labels">>}, {},
        ProfileKeys)
  BY MailChangesRows, AccountChangesRows, ChangesAnswer, ProfileWatched, NotedIf DEF Untold
<1>14. Notified("createRule", {<<"rules">>, <<"messages">>, <<"mail-stats">>, <<"labels">>}, {},
        ProfileKeys)
  BY MailChangesRows, AccountChangesRows, ChangesAnswer, ProfileWatched, NotedIf DEF Untold
<1>15. \A r \in {"createBlockedSender", "deleteBlockedSender"} : Notified(r, {<<"blocked-senders">>},
        {}, ProfileKeys)
  BY MailChangesRows, AccountChangesRows, ChangesAnswer, ProfileWatched, NotedIf DEF Untold
<1>16. \A r \in {"createFeedbackTicket", "replyFeedbackTicket", "closeFeedbackTicket",
        "deleteFeedbackTicket"} : Notified(r, {<<"feedback-tickets">>}, {}, ProfileKeys)
  BY MailChangesRows, AccountChangesRows, ChangesAnswer, ProfileWatched, NotedIf DEF Untold
<1>17. \A r \in {"createApiToken", "updateApiToken", "deleteApiToken"} : Notified(r,
        {<<"api-tokens">>}, {}, ProfileKeys)
  BY MailChangesRows, AccountChangesRows, ChangesAnswer, ProfileWatched, NotedIf DEF Untold
<1> QED
  BY <1>1, <1>2, <1>3, <1>4, <1>5, <1>6, <1>7, <1>8, <1>9, <1>10, <1>11, <1>12, <1>13, <1>14, <1>15,
     <1>16, <1>17

\* its queries.
LEMMA ProfileFiled ==
  \A k \in {<<"me">>, <<"mailboxes", "mine">>, <<"mailbox-apply-options">>, <<"public-settings">>,
             <<"api-tokens">>, <<"contacts">>, <<"signatures">>, <<"rules">>,
             <<"forwarding-settings">>, ForwardingCache, <<"blocked-senders">>,
             <<"client-access-events", "mailbox">>, <<"external-imap-accounts", "mailbox">>,
             <<"labels", "mailbox">>, <<"mail-stats", "mailbox", "days">>, <<"system-version">>,
             <<"labels", "rule-dialog", "mailbox">>, <<"feedback-tickets">>,
             <<"feedback-tickets", "id">>} :
      k \in DOMAIN Shows => k \in ProfileKeys
BY DEF ProfileKeys, ForwardingCache

\* The sections of the user's own page.
LEMMA ProfileSectionsHeeded ==
  /\ Heeded(UseMe, ProfileKeys)
  /\ Heeded(ProfileQueries, ProfileKeys)
  /\ Heeded(AccountSettingsSection, ProfileKeys)
  /\ Heeded(MailboxManagement, ProfileKeys)
  /\ Heeded(ContactsSection, ProfileKeys)
  /\ Heeded(CleanupSection, ProfileKeys)
  /\ Heeded(RulesSection, ProfileKeys)
  /\ Heeded(BlockedSection, ProfileKeys)
  /\ Heeded(FeedbackSection, ProfileKeys)
  /\ Heeded(ApiTokensSection, ProfileKeys)
<1> USE ProfileFiled, ProfileNoted, HeededShow, HeededQuiet, HeededPress, HeededPressGiving,
        HeededUnder DEF Heeded
<1>1. Heeded(UseMe, ProfileKeys)
  BY DEF UseMe
<1>2. Heeded(ProfileQueries, ProfileKeys)
  BY DEF ProfileQueries
<1>3. Heeded(AccountSettingsSection, ProfileKeys)
  BY DEF AccountSettingsSection, AccountTabSection, MailPreferencesSection, EditSignatureForm,
     ClientSettingsSection, SecuritySettingsSection
<1>4. Heeded(MailboxManagement, ProfileKeys)
  BY DEF MailboxManagement
<1>5. Heeded(ContactsSection, ProfileKeys)
  BY DEF ContactsSection
<1>6. Heeded(CleanupSection, ProfileKeys)
  BY DEF CleanupSection
<1>7. Heeded(RulesSection, ProfileKeys)
  BY DEF RulesSection, RuleListItem, RuleDialog
<1>8. Heeded(BlockedSection, ProfileKeys)
  BY DEF BlockedSection
<1>9. Heeded(FeedbackSection, ProfileKeys)
  BY DEF FeedbackSection
<1>10. Heeded(ApiTokensSection, ProfileKeys)
  BY DEF ApiTokensSection
<1> HIDE DEF Heeded
<1> QED
  BY <1>1, <1>2, <1>3, <1>4, <1>5, <1>6, <1>7, <1>8, <1>9, <1>10

\* On the user's own page every press notifies every query it changes.
LEMMA ProfilePageHeeded == Heeded(ProfilePage, ProfileKeys)
BY ProfileSectionsHeeded, HeededUnder DEF ProfilePage, Heeded

AdminKeys == {k \in DOMAIN Shows : k[1] \in {"admin", "me", "dns-records"}}

\* The same for the administration: its keys, by the elements they begin with;
LEMMA AdminWatched ==
  /\ \A k \in AdminKeys : "filed" \in Shows[k] => k = <<"admin", "overview">> \/ k = <<"admin",
         "messages", "filter">>
  /\ \A k \in AdminKeys : "erased" \in Shows[k] => k = <<"admin", "overview">> \/ k = <<"admin",
         "messages", "filter">>
  /\ \A k \in AdminKeys : "seen" \in Shows[k] => k = <<"admin", "overview">> \/ k = <<"admin",
         "messages", "filter">> \/ k = <<"admin", "message", "id">>
  /\ \A k \in AdminKeys : "starred" \in Shows[k] => k = <<"admin", "messages", "filter">> \/ k =
         <<"admin", "message", "id">>
  /\ \A k \in AdminKeys : "queue" \in Shows[k] => k = <<"admin", "overview">> \/ k = <<"admin",
         "send-queue", "filter">>
  /\ \A k \in AdminKeys : "accounts" \in Shows[k] => k[1] \in {"me", "admin"}
  /\ \A k \in AdminKeys : "groups" \in Shows[k] => k[1] \in {"me", "admin"}
  /\ \A k \in AdminKeys : "mailboxes" \in Shows[k] => k[1] \in {"admin"}
  /\ \A k \in AdminKeys : "app.password" \in Shows[k] => k[1] \in {"admin"}
  /\ \A k \in AdminKeys : "domains" \in Shows[k] => k[1] \in {"admin"}
  /\ \A k \in AdminKeys : "dns" \in Shows[k] => k = <<"admin", "domains">>
  /\ \A k \in AdminKeys : "aliases" \in Shows[k] => k[1] \in {"admin"}
  /\ \A k \in AdminKeys : "feedback" \in Shows[k] => k = <<"admin", "feedback-tickets", "status">>
         \/ k = <<"admin", "feedback-tickets", "detail", "id">>
  /\ \A k \in AdminKeys : "settings" \in Shows[k] => k[1] \in {"dns-records"} \/ k = <<"admin",
         "settings">> \/ k = <<"admin", "maildir-sync", "health">> \/ k = <<"admin", "certificates",
         "status">>
  /\ \A k \in AdminKeys : "certificates" \in Shows[k] => k = <<"admin", "certificates", "status">>
  /\ \A k \in AdminKeys : "ai" \in Shows[k] => k = <<"admin", "ai-settings">>
  /\ \A k \in AdminKeys : "announcements" \in Shows[k] => k = <<"admin", "announcements">>
  /\ \A k \in AdminKeys : "templates" \in Shows[k] => k = <<"admin", "mail-templates">>
  /\ \A k \in AdminKeys : "operation" \in Shows[k] => k = <<"admin", "system-operation">>
<1>0. \A k \in AdminKeys : k \in DOMAIN Shows
  BY DEF AdminKeys
<1>1. \A k \in AdminKeys : "filed" \in Shows[k] => k = <<"admin", "overview">> \/ k = <<"admin",
        "messages", "filter">>
  BY <1>0, ShownIn DEF AdminKeys
<1>2. \A k \in AdminKeys : "erased" \in Shows[k] => k = <<"admin", "overview">> \/ k = <<"admin",
        "messages", "filter">>
  BY <1>0, ShownIn DEF AdminKeys
<1>3. \A k \in AdminKeys : "seen" \in Shows[k] => k = <<"admin", "overview">> \/ k = <<"admin",
        "messages", "filter">> \/ k = <<"admin", "message", "id">>
  BY <1>0, ShownIn DEF AdminKeys
<1>4. \A k \in AdminKeys : "starred" \in Shows[k] => k = <<"admin", "messages", "filter">> \/ k =
        <<"admin", "message", "id">>
  BY <1>0, ShownIn DEF AdminKeys
<1>5. \A k \in AdminKeys : "queue" \in Shows[k] => k = <<"admin", "overview">> \/ k = <<"admin",
        "send-queue", "filter">>
  BY <1>0, ShownIn DEF AdminKeys
<1>6. \A k \in AdminKeys : "accounts" \in Shows[k] => k[1] \in {"me", "admin"}
  BY <1>0, ShownIn DEF AdminKeys
<1>7. \A k \in AdminKeys : "groups" \in Shows[k] => k[1] \in {"me", "admin"}
  BY <1>0, ShownIn DEF AdminKeys
<1>8. \A k \in AdminKeys : "mailboxes" \in Shows[k] => k[1] \in {"admin"}
  BY <1>0, ShownIn DEF AdminKeys
<1>9. \A k \in AdminKeys : "app.password" \in Shows[k] => k[1] \in {"admin"}
  BY <1>0, ShownIn DEF AdminKeys
<1>10. \A k \in AdminKeys : "domains" \in Shows[k] => k[1] \in {"admin"}
  BY <1>0, ShownIn DEF AdminKeys
<1>11. \A k \in AdminKeys : "dns" \in Shows[k] => k = <<"admin", "domains">>
  BY <1>0, ShownIn DEF AdminKeys
<1>12. \A k \in AdminKeys : "aliases" \in Shows[k] => k[1] \in {"admin"}
  BY <1>0, ShownIn DEF AdminKeys
<1>13. \A k \in AdminKeys : "feedback" \in Shows[k] => k = <<"admin", "feedback-tickets", "status">>
        \/ k = <<"admin", "feedback-tickets", "detail", "id">>
  BY <1>0, ShownIn DEF AdminKeys
<1>14. \A k \in AdminKeys : "settings" \in Shows[k] => k[1] \in {"dns-records"} \/ k = <<"admin",
        "settings">> \/ k = <<"admin", "maildir-sync", "health">> \/ k = <<"admin", "certificates",
        "status">>
  BY <1>0, ShownIn DEF AdminKeys
<1>15. \A k \in AdminKeys : "certificates" \in Shows[k] => k = <<"admin", "certificates", "status">>
  BY <1>0, ShownIn DEF AdminKeys
<1>16. \A k \in AdminKeys : "ai" \in Shows[k] => k = <<"admin", "ai-settings">>
  BY <1>0, ShownIn DEF AdminKeys
<1>17. \A k \in AdminKeys : "announcements" \in Shows[k] => k = <<"admin", "announcements">>
  BY <1>0, ShownIn DEF AdminKeys
<1>18. \A k \in AdminKeys : "templates" \in Shows[k] => k = <<"admin", "mail-templates">>
  BY <1>0, ShownIn DEF AdminKeys
<1>19. \A k \in AdminKeys : "operation" \in Shows[k] => k = <<"admin", "system-operation">>
  BY <1>0, ShownIn DEF AdminKeys
<1> QED
  BY <1>1, <1>2, <1>3, <1>4, <1>5, <1>6, <1>7, <1>8, <1>9, <1>10, <1>11, <1>12, <1>13, <1>14, <1>15,
     <1>16, <1>17, <1>18, <1>19

\* its presses;
LEMMA AdminNoted ==
  /\ \A r \in {"me", "adminOverview", "users", "permissionGroups", "domains", "mailboxes",
         "aliases", "systemSettings", "resetUserPassword", "defaultPermissionLimits", "dnsRecords",
         "mailScore", "adminMessages", "adminMessage", "adminAttachment", "adminSendQueue",
         "adminFeedbackTickets", "adminFeedbackTicket", "testAISettings", "aiModels", "aiSettings",
         "adminAnnouncements", "maildirSyncHealth", "certificateStatus", "testSmtp",
         "mailTemplates", "systemVersion", "systemOperation", "updateSystem", "rollbackSystem"} : r
         \notin DOMAIN Changes
  /\ \A r \in {"createUser", "updateUser", "resetUserTwoFactor", "deleteUser",
         "createPermissionGroup", "updatePermissionGroup", "deletePermissionGroup", "createDomain",
         "updateDomain", "deleteDomain", "createMailbox", "updateMailbox", "deleteMailbox",
         "createAlias", "updateAlias", "deleteAlias"} : Notified(r, InvalidateAdmin, {}, AdminKeys)
  /\ Notified("checkDns", {<<"admin", "domains">>}, {}, AdminKeys)
  /\ Notified("adminMessagesBatch", {<<"admin", "messages">>}, {}, AdminKeys)
  /\ Notified("adminSendQueueBatch", {<<"admin", "send-queue">>}, {}, AdminKeys)
  /\ \A r \in {"replyAdminFeedbackTicket", "updateAdminFeedbackStatus", "deleteAdminFeedbackTicket"}
         : Notified(r, {<<"admin", "feedback-tickets">>, <<"feedback-tickets">>}, {}, AdminKeys)
  /\ Notified("updateAISettings", {<<"ai-status">>}, {<<"admin", "ai-settings">>}, AdminKeys)
  /\ \A r \in {"publishAnnouncement", "clearAnnouncement"} : Notified(r, {<<"admin", "announcements">>,
         <<"announcement">>}, {}, AdminKeys)
  /\ Notified("issueCertificate", {<<"admin", "certificates", "status">>}, {}, AdminKeys)
  /\ \A r \in {"updateMailTemplate", "resetMailTemplate"} : Notified(r, {<<"admin",
         "mail-templates">>}, {}, AdminKeys)
  /\ Notified("deleteSystemRollback", {<<"admin", "system-operation">>}, {}, AdminKeys)
  /\ Notified("updateSystemSettings", {<<"admin", "maildir-sync", "health">>, <<"dns-records">>,
         <<"public-settings">>, <<"admin", "certificates", "status">>}, {<<"admin", "settings">>,
         <<"public-settings">>}, AdminKeys)
<1>0. AdminKeys \subseteq DOMAIN Shows
  BY DEF AdminKeys
<1> USE <1>0
<1>1. \A r \in {"me", "adminOverview", "users", "permissionGroups", "domains", "mailboxes",
        "aliases", "systemSettings", "resetUserPassword", "defaultPermissionLimits", "dnsRecords",
        "mailScore", "adminMessages", "adminMessage", "adminAttachment", "adminSendQueue",
        "adminFeedbackTickets", "adminFeedbackTicket", "testAISettings", "aiModels", "aiSettings",
        "adminAnnouncements", "maildirSyncHealth", "certificateStatus", "testSmtp", "mailTemplates",
        "systemVersion", "systemOperation", "updateSystem", "rollbackSystem"} : r \notin DOMAIN
        Changes
  BY ChangesDomain, MailChangesEntries, AccountChangesEntries, AdminChangesEntries
<1>2. \A r \in {"createUser", "updateUser", "resetUserTwoFactor", "deleteUser",
        "createPermissionGroup", "updatePermissionGroup", "deletePermissionGroup", "createDomain",
        "updateDomain", "deleteDomain", "createMailbox", "updateMailbox", "deleteMailbox",
        "createAlias", "updateAlias", "deleteAlias"} : Notified(r, InvalidateAdmin, {}, AdminKeys)
  BY AdminChangesRows, ChangesAnswer, AdminWatched, NotedIf DEF Untold, InvalidateAdmin
<1>3. Notified("checkDns", {<<"admin", "domains">>}, {}, AdminKeys)
  BY AdminChangesRows, ChangesAnswer, AdminWatched, NotedIf DEF Untold
<1>4. Notified("adminMessagesBatch", {<<"admin", "messages">>}, {}, AdminKeys)
  BY AdminChangesRows, ChangesAnswer, AdminWatched, NotedIf DEF Untold
<1>5. Notified("adminSendQueueBatch", {<<"admin", "send-queue">>}, {}, AdminKeys)
  BY AdminChangesRows, ChangesAnswer, AdminWatched, NotedIf DEF Untold
<1>6. \A r \in {"replyAdminFeedbackTicket", "updateAdminFeedbackStatus",
        "deleteAdminFeedbackTicket"} : Notified(r, {<<"admin", "feedback-tickets">>,
        <<"feedback-tickets">>}, {}, AdminKeys)
  BY AdminChangesRows, ChangesAnswer, AdminWatched, NotedIf DEF Untold
<1>7. Notified("updateAISettings", {<<"ai-status">>}, {<<"admin", "ai-settings">>}, AdminKeys)
  BY AdminChangesRows, ChangesAnswer, AdminWatched, NotedIf DEF Untold
<1>8. \A r \in {"publishAnnouncement", "clearAnnouncement"} : Notified(r, {<<"admin",
        "announcements">>, <<"announcement">>}, {}, AdminKeys)
  BY AdminChangesRows, ChangesAnswer, AdminWatched, NotedIf DEF Untold
<1>9. Notified("issueCertificate", {<<"admin", "certificates", "status">>}, {}, AdminKeys)
  <2> DEFINE status == <<"admin", "certificates", "status">>
  <2>1. Changes["issueCertificate"] = {"certificates"}
    BY AdminChangesRows, ChangesAnswer
  <2>2. \A k \in AdminKeys : "certificates" \in Shows[k] => k = status
    BY AdminWatched
  <2>3. Len(status) \in Nat \ {0, 1, 2} /\ <<status[1], status[2], status[3]>> = status
    OBVIOUS
  <2> HIDE DEF status
  <2>4. Notified("issueCertificate", {status}, {}, AdminKeys)
    BY <2>1, <2>2, <2>3, NotedIf
  <2> QED
    BY <2>4 DEF status
<1>10. \A r \in {"updateMailTemplate", "resetMailTemplate"} : Notified(r, {<<"admin",
        "mail-templates">>}, {}, AdminKeys)
  BY AdminChangesRows, ChangesAnswer, AdminWatched, NotedIf DEF Untold
<1>11. Notified("deleteSystemRollback", {<<"admin", "system-operation">>}, {}, AdminKeys)
  BY AdminChangesRows, ChangesAnswer, AdminWatched, NotedIf DEF Untold
<1>12. Notified("updateSystemSettings", {<<"admin", "maildir-sync", "health">>, <<"dns-records">>,
        <<"public-settings">>, <<"admin", "certificates", "status">>}, {<<"admin", "settings">>,
        <<"public-settings">>}, AdminKeys)
  BY AdminChangesRows, ChangesAnswer, AdminWatched, NotedIf DEF Untold
<1> QED
  BY <1>1, <1>2, <1>3, <1>4, <1>5, <1>6, <1>7, <1>8, <1>9, <1>10, <1>11, <1>12

\* its queries.
LEMMA AdminFiled ==
  \A k \in {<<"admin", "ai-settings">>, <<"admin", "aliases">>, <<"admin", "announcements">>,
        <<"admin", "certificates", "status">>, <<"admin", "domains">>, <<"admin",
        "feedback-tickets", "detail", "id">>, <<"admin", "feedback-tickets", "status">>, <<"admin",
        "mail-templates">>, <<"admin", "mailboxes">>, <<"admin", "maildir-sync", "health">>,
        <<"admin", "message", "id">>, <<"admin", "messages", "filter">>, <<"admin", "overview">>,
        <<"admin", "permission-groups">>, <<"admin", "permission-limits", "defaults">>, <<"admin",
        "send-queue", "filter">>, <<"admin", "settings">>, <<"admin", "system-operation">>,
        <<"admin", "system-version">>, <<"admin", "users">>, <<"dns-records", "id">>, <<"me">>} : k
        \in DOMAIN Shows => k \in AdminKeys
BY DEF AdminKeys

\* The sections of the page of administration.
LEMMA AdminSectionsHeeded ==
  /\ Heeded(UseMe, AdminKeys)
  /\ Heeded(AdminQueries, AdminKeys)
  /\ Heeded(UsersSection, AdminKeys)
  /\ Heeded(PermissionGroupsSection, AdminKeys)
  /\ Heeded(DomainsSection, AdminKeys)
  /\ Heeded(MailboxesSection, AdminKeys)
  /\ Heeded(AliasesSection, AdminKeys)
  /\ Heeded(AdminMessagesSection, AdminKeys)
  /\ Heeded(AdminSendAuditSection, AdminKeys)
  /\ Heeded(AdminFeedbackSection, AdminKeys)
  /\ Heeded(AISettingsCard, AdminKeys)
  /\ Heeded(AnnouncementSettingsCard, AdminKeys)
  /\ Heeded(CertificateSettingsCard, AdminKeys)
  /\ Heeded(MailTemplatesPanel, AdminKeys)
  /\ Heeded(AboutProjectCard, AdminKeys)
  /\ Heeded(SystemSettingsSection, AdminKeys)
<1> USE AdminFiled, AdminNoted, HeededShow, HeededQuiet, HeededPress, HeededPressGiving, HeededUnder
        DEF Heeded
<1>1. Heeded(UseMe, AdminKeys)
  BY DEF UseMe
<1>2. Heeded(AdminQueries, AdminKeys)
  BY DEF AdminQueries
<1>3. Heeded(UsersSection, AdminKeys)
  BY DEF UsersSection, CreateUserDialog, UserActions, EditUserDialog, ResetPasswordDialog
<1>4. Heeded(PermissionGroupsSection, AdminKeys)
  BY DEF PermissionGroupsSection, PermissionLimitBadges, PermissionGroupDialog, DefaultLimits
<1>5. Heeded(DomainsSection, AdminKeys)
  BY DEF DomainsSection, CreateDomainDialog, DomainDNSDialog, DNSPanel
<1>6. Heeded(MailboxesSection, AdminKeys)
  BY DEF MailboxesSection, CreateMailboxDialog, EditMailboxDialog
<1>7. Heeded(AliasesSection, AdminKeys)
  BY DEF AliasesSection, CreateAliasDialog
<1>8. Heeded(AdminMessagesSection, AdminKeys)
  BY DEF AdminMessagesSection, AdminMessageDialog
<1>9. Heeded(AdminSendAuditSection, AdminKeys)
  BY DEF AdminSendAuditSection
<1>10. Heeded(AdminFeedbackSection, AdminKeys)
  BY DEF AdminFeedbackSection
<1>11. Heeded(AISettingsCard, AdminKeys)
  BY DEF AISettingsCard, AISettingsFields
<1>12. Heeded(AnnouncementSettingsCard, AdminKeys)
  BY DEF AnnouncementSettingsCard
<1>13. Heeded(CertificateSettingsCard, AdminKeys)
  BY DEF CertificateSettingsCard
<1>14. Heeded(MailTemplatesPanel, AdminKeys)
  BY DEF MailTemplatesPanel
<1>15. Heeded(AboutProjectCard, AdminKeys)
  BY DEF AboutProjectCard, SystemVersionDialog
<1>16. Heeded(SystemSettingsSection, AdminKeys)
  BY <1>11, <1>12, <1>13, <1>14, <1>15 DEF SystemSettingsSection, SettingsForm, TestSMTPDialog,
     MaildirSyncHealthCard
<1> HIDE DEF Heeded
<1> QED
  BY <1>1, <1>2, <1>3, <1>4, <1>5, <1>6, <1>7, <1>8, <1>9, <1>10, <1>11, <1>12, <1>13, <1>14, <1>15,
     <1>16

\* In the administration every press notifies every query it changes.
LEMMA AdminPageHeeded == Heeded(AdminPage, AdminKeys)
BY AdminSectionsHeeded, HeededUnder DEF AdminPage, Heeded

\* Of the same page, a press notes the queries it changes.
LEMMA PairsNoted ==
  ASSUME NEW c \in CachePairs
  PROVE  <<c[1].what, c[1].told, c[2].key>> \in Untold \/ Tells(c[1], c[2].key) \/ Gives(c[1], c[2].key)
<1>1. PICK P \in WebPages : /\ c[1] \in P /\ c[2] \in P
                            /\ c[2].key # <<>> /\ Affects(c[1], c[2])
  BY DEF CachePairs
<1>2. \E K : Heeded(P, K)
  BY MailPageHeeded, ProfilePageHeeded, AdminPageHeeded DEF WebPages
<1>3. PICK K : Heeded(P, K)
  BY <1>2
<1>4. c[2].key \in K
  BY <1>1, <1>3 DEF Heeded, Heeds, Affects
<1>5. \/ <<c[1].what, c[1].told, c[2].key>> \in Untold \/ Informs(c[1].told, c[2].key) \/ c[2].key \in c[1].given
  BY <1>1, <1>3, <1>4 DEF Heeded, Heeds, Notified, Affects
<1>6. Informs(c[1].told, c[2].key) => Tells(c[1], c[2].key)
  BY DEF Informs, Tells
<1> QED
  BY <1>5, <1>6 DEF Gives

\* There is such a pair, for the part to rest in while another one moves.
LEMMA SomePair == SomeOf(CachePairs) \in CachePairs
<1> DEFINE button == [what |-> "enableTwoFactor", key |-> <<>>, needs |-> {}, told |-> {}, given |-> {<<"me">>}]
           query == [what |-> "me", key |-> <<"me">>, needs |-> {}, told |-> {}, given |-> {}]
<1>1. button \in ProfilePage
  <2>1. button \in SecuritySettingsSection
    BY DEF SecuritySettingsSection, PressGiving
  <2> HIDE DEF button
  <2> QED
    BY <2>1 DEF ProfilePage, AccountSettingsSection
<1>2. query \in ProfilePage
  <2>1. query \in UseMe
    BY DEF UseMe, Show
  <2> HIDE DEF query
  <2> QED
    BY <2>1 DEF ProfilePage
<1>3. "enableTwoFactor" \in DOMAIN Changes /\ Changes["enableTwoFactor"] = {"accounts"}
  BY AccountChangesRows, ChangesAnswer
<1>4. <<"me">> \in DOMAIN Shows /\ "accounts" \in Shows[<<"me">>]
  <2> DEFINE row == [of |-> {<<"me">>}, is |-> {"accounts", "groups"}]
             all == MailShows \cup AccountShows \cup AdminShows
  <2>1. row \in AccountShows /\ <<"me">> \in row.of /\ "accounts" \in row.is
    BY DEF AccountShows, For
  <2>2. row \in all /\ <<"me">> \in row.of /\ "accounts" \in row.is
    BY <2>1
  <2>3. Shows = Table(all)
    BY DEF Shows
  <2> HIDE DEF row, all
  <2> QED
    BY <2>2, <2>3 DEF Table, Entries
<1>5. button.what = "enableTwoFactor" /\ query.key = <<"me">> /\ query.key # <<>>
  OBVIOUS
<1> HIDE DEF button, query
<1>6. Affects(button, query)
  BY <1>3, <1>4, <1>5 DEF Affects
<1>7. <<button, query>> \in CachePairs
  BY <1>1, <1>2, <1>5, <1>6 DEF CachePairs, WebPages
<1> QED
  BY <1>7 DEF SomeOf

\* The press and the query are one of the named pairs.
PairUntold == <<pair[1].what, pair[1].told, pair[2].key>> \in Untold

\* With no answer to a press on its way, the cached answer is the server's or known not to be, and
\* so is the answer that is coming.
CacheFresh ==
    ~PairUntold /\ ~excused /\ sent \notin Data
    => (entry.data = world \/ entry.invalid) /\ (fetch \in Data => fetch = world)
CacheIInv ==
    /\ WebCacheTypeOK
    /\ sent \in Data => sent <= world
    /\ fetch \in Data => fetch <= world
    /\ CacheFresh

\* The server's data by its number is none of the states of a request.
LEMMA DataIsNumbers ==
  /\ MaxChanges \in Nat /\ None \notin Data /\ Asked \notin Data /\ None # Asked
  /\ \A n \in Data : n \in Int /\ (n < MaxChanges => n + 1 \in Data)
  /\ 0 \in Data
BY CacheAssumption DEF Data, None, Asked

LEMMA CacheStart ==
  ASSUME NEW p \in CachePairs, WebCacheStart(p)
  PROVE  CacheIInv
<1>1. pair = p /\ world = 0 /\ entry = [data |-> 0, invalid |-> FALSE] /\ mounted = TRUE
      /\ fetch = None /\ sent = None /\ excused = FALSE
  BY DEF WebCacheStart
<1> QED
  BY <1>1, DataIsNumbers DEF CacheIInv, WebCacheTypeOK, CacheFresh

\* An answer is the server's unless it was outrun; a press that changes the query tells it, gives
\* it the new data, or is one of the named pairs.
LEMMA CacheNext ==
  ASSUME CacheIInv, WebCacheNext
  PROVE  CacheIInv'
<1> USE DataIsNumbers DEF CacheIInv, WebCacheTypeOK, CacheFresh, PairUntold
<1>1. CASE Mount
  BY <1>1 DEF Mount
<1>2. CASE Unmount
  BY <1>2 DEF Unmount
<1>3. CASE ServeFetch
  <2>1. fetch' = world /\ UNCHANGED <<pair, world, entry, mounted, sent, excused>> /\ world \in Int
    BY <1>3 DEF ServeFetch
  <2>2. WebCacheTypeOK' /\ (PairUntold' = PairUntold)
    BY <2>1
  <2> HIDE DEF PairUntold, WebCacheTypeOK
  <2>3. ~PairUntold /\ ~excused /\ sent \notin Data => entry.data = world \/ entry.invalid
    OBVIOUS
  <2> QED
    BY <2>1, <2>2, <2>3
<1>4. CASE AnswerFetch
  BY <1>4 DEF AnswerFetch
<1>5. CASE FailFetch
  BY <1>5 DEF FailFetch
<1>6. CASE SendPress
  BY <1>6 DEF SendPress
<1>7. CASE ServePress
  BY <1>7 DEF ServePress
<1>8. CASE AnswerPress
  <2> DEFINE tells == pressTells
             gives == pressGives
             given == IF gives THEN [data |-> sent, invalid |-> FALSE] ELSE entry
  <2>1. /\ sent \in Data /\ sent' = None
        /\ entry' = IF tells THEN [given EXCEPT !.invalid = TRUE] ELSE given
        /\ fetch' = IF tells /\ mounted THEN Asked ELSE fetch
        /\ excused' = (\/ excused \/ (~(tells /\ mounted) /\ fetch \in Data /\ fetch < world)
                       \/ (gives /\ sent < world))
        /\ pair' = pair /\ world' = world /\ mounted' = mounted
    BY <1>8 DEF AnswerPress
  <2>2. tells \/ gives \/ PairUntold
    BY PairsNoted DEF pressTells, pressGives
  <2>3. PairUntold' = PairUntold
    BY <2>1
  <2>4. given \in [data : Data, invalid : BOOLEAN] /\ (gives => given.data = sent)
    BY <2>1
  <2> HIDE DEF PairUntold, tells, gives, given
  <2>5. entry' \in [data : Data, invalid : BOOLEAN]
    BY <2>1, <2>4
  <2>6. (tells => entry'.invalid) /\ (gives => entry'.data = sent)
    BY <2>1, <2>4
  <2>7. WebCacheTypeOK'
    BY <2>1, <2>5
  <2>8. fetch' \in Data => fetch' <= world'
    BY <2>1
  <2>9. ASSUME ~PairUntold', ~excused'
        PROVE  (entry'.data = world' \/ entry'.invalid) /\ (fetch' \in Data => fetch' = world')
    <3>1. ASSUME fetch' \in Data
          PROVE  fetch' = world'
      <4>1. ~(tells /\ mounted) /\ fetch' = fetch /\ fetch \in Data
        BY <2>1, <3>1
      <4>2. ~(fetch < world)
        BY <2>1, <2>9, <4>1
      <4>3. fetch \in Int /\ world \in Int /\ fetch <= world
        BY <4>1
      <4> QED
        BY <2>1, <4>1, <4>2, <4>3
    <3>2. gives => sent = world
      BY <2>1, <2>9
    <3> QED
      BY <2>1, <2>2, <2>3, <2>6, <2>9, <3>1, <3>2
  <2> QED
    BY <2>1, <2>7, <2>8, <2>9
<1>9. CASE LosePress
  BY <1>9 DEF LosePress
<1>10. CASE Elsewhere
  <2>1. /\ world' = world + 1 /\ excused' = TRUE /\ world < MaxChanges
        /\ UNCHANGED <<pair, entry, mounted, fetch, sent>>
    BY <1>10 DEF Elsewhere
  <2>2. world \in Int /\ world' \in Data
    BY <2>1
  <2>3. WebCacheTypeOK'
    BY <2>1, <2>2
  <2> HIDE DEF PairUntold, WebCacheTypeOK
  <2>4. (sent \in Data => sent \in Int) /\ (fetch \in Data => fetch \in Int)
    OBVIOUS
  <2> QED
    BY <2>1, <2>2, <2>3, <2>4
<1> QED
  BY <1>1, <1>2, <1>3, <1>4, <1>5, <1>6, <1>7, <1>8, <1>9, <1>10 DEF WebCacheNext

LEMMA CacheRest ==
  ASSUME CacheIInv, UNCHANGED cacheVars
  PROVE  CacheIInv'
BY DEF CacheIInv, WebCacheTypeOK, CacheFresh, PairUntold, cacheVars

LEMMA CacheKnowing == CacheIInv => CacheKnows
BY DataIsNumbers DEF CacheIInv, WebCacheTypeOK, CacheFresh, PairUntold, CacheKnows

------------------------------------------------------------------------------
(* The web front end *)

PartsInit == /\ ComposeInit /\ MailListInit /\ MailBodyInit /\ SessionInit /\ DomLanguageInit
             /\ ForwardingInit /\ FolderOrderInit /\ OffersIInv /\ CacheIInv
PartsMove == /\ [ComposeNext]_compose /\ [MailListNext]_mailList /\ [MailBodyNext]_mailBody
             /\ [SessionNext]_session /\ [DomLanguageNext]_domLanguage /\ [ForwardingNext]_forwarding
             /\ [FolderOrderNext]_folderOrder /\ [WebOffersNext]_rightsVars /\ [WebCacheNext]_cacheVars
PartsIInv == /\ ComposeIInv /\ ListIInv /\ BodyIInv /\ SessionIInv /\ DomIInv /\ ForwardingIInv
             /\ DropInv /\ OneEach /\ OffersIInv /\ CacheIInv
             /\ ComposeBounded /\ TodoWithin /\ SessionPlaced /\ page \in WebParts

\* Whatever part the user works with, each part starts in a state of its own.
LEMMA PartsStart == WebInit => PartsInit
<1> SUFFICES ASSUME WebInit PROVE PartsInit
  OBVIOUS
<1>1. ComposeInit /\ MailListInit /\ ForwardingInit /\ FolderOrderInit
  BY DEF WebInit
<1>2. MailBodyInit
  <2>1. Readings # {}
    <3>1. PICK m \in BodyMails, l \in BodyLanguages : TRUE
      BY BodyAssumption
    <3>2. [mail |-> m, language |-> l] \in Readings
      BY DEF Readings
    <3> QED
      BY <3>2
  <2>2. SomeOf(Readings) \in Readings
    BY <2>1 DEF SomeOf
  <2> QED
    BY <2>2 DEF WebInit, MailBodyInit
<1>3. SessionInit
  <2>1. Nobody \in SomebodyOrNot /\ "/login" \in Guarded \cup Public
    BY DEF SomebodyOrNot, Public
  <2> QED
    BY <2>1 DEF WebInit, SessionInit
<1>4. DomLanguageInit
  <2>1. SomeOf(UiTexts) \in ReactTexts /\ Original \in Languages \cup {Unset}
    BY LanguageAssumption DEF SomeOf, ReactTexts
  <2> QED
    BY <2>1 DEF WebInit, DomLanguageInit
<1>5. OffersIInv
  <2>1. CASE page = "offers"
    BY <2>1, OffersInit DEF WebInit
  <2>2. CASE page # "offers"
    <3>1. WebOffersStart(SomeOf(WebOffers), {})
      BY <2>2 DEF WebInit
    <3> QED
      BY <3>1, SomeOffer, OffersStart
  <2> QED
    BY <2>1, <2>2
<1>6. CacheIInv
  <2>1. \E p \in CachePairs : WebCacheStart(p)
    BY SomePair DEF WebInit, WebCacheInit
  <2> QED
    BY <2>1, CacheStart
<1> QED
  BY <1>1, <1>2, <1>3, <1>4, <1>5, <1>6 DEF PartsInit

\* Each part moves by its own rules or rests.
LEMMA PartsStep == [WebNext]_webApp => PartsMove
<1> SUFFICES ASSUME [WebNext]_webApp PROVE PartsMove
  OBVIOUS
<1>1. CASE UNCHANGED webApp
  BY <1>1 DEF webApp, PartsMove
<1>2. CASE WebNext
  <2>1. ComposeNext \/ UNCHANGED compose
    BY <1>2 DEF WebNext, Others
  <2>2. MailListNext \/ UNCHANGED mailList
    BY <1>2 DEF WebNext, Others
  <2>3. MailBodyNext \/ UNCHANGED mailBody
    BY <1>2 DEF WebNext, Others
  <2>4. SessionNext \/ UNCHANGED session
    BY <1>2 DEF WebNext, Others
  <2>5. DomLanguageNext \/ UNCHANGED domLanguage
    BY <1>2 DEF WebNext, Others
  <2>6. ForwardingNext \/ UNCHANGED forwarding
    BY <1>2 DEF WebNext, Others
  <2>7. FolderOrderNext \/ UNCHANGED folderOrder
    BY <1>2 DEF WebNext, Others
  <2>8. WebOffersNext \/ UNCHANGED rightsVars
    BY <1>2 DEF WebNext, Others
  <2>9. WebCacheNext \/ UNCHANGED cacheVars
    BY <1>2 DEF WebNext, Others
  <2> QED
    BY <2>1, <2>2, <2>3, <2>4, <2>5, <2>6, <2>7, <2>8, <2>9 DEF PartsMove
<1> QED
  BY <1>1, <1>2

LEMMA WebInvariant == WebSpec => []PartsIInv
<1>1. WebInit => PartsIInv
  <2>1. WebInit => page \in WebParts /\ requests = {}
    BY DEF WebInit, MailListInit
  <2> QED
    BY <2>1, PartsStart, InitComposeIInv, InitListIInv, InitBodyIInv, InitSessionIInv, InitDomIInv,
       InitForwardingIInv, DropInvInit, InitOneEach, InitComposeBounded, InitSessionPlaced
    DEF PartsInit, PartsIInv, TodoWithin
<1>2. PartsIInv /\ [WebNext]_webApp => PartsIInv'
  <2> SUFFICES ASSUME PartsIInv, PartsMove, UNCHANGED page PROVE PartsIInv'
    BY PartsStep DEF WebNext, Others, webApp
  <2>1. ComposeIInv' /\ ListIInv' /\ BodyIInv'
    BY StepKeepsComposeIInv, StepKeepsListIInv, StepKeepsBodyIInv DEF PartsMove, PartsIInv
  <2>2. SessionIInv' /\ DomIInv' /\ ForwardingIInv'
    BY StepKeepsSessionIInv, StepKeepsDomIInv, StepKeepsForwardingIInv DEF PartsMove, PartsIInv
  <2>3. DropInv' /\ OneEach'
    BY StepKeepsDropInv, StepKeepsOneEach DEF PartsMove, PartsIInv
  <2>4. OffersIInv' /\ CacheIInv'
    BY OffersNext, OffersRest, CacheNext, CacheRest DEF PartsMove, PartsIInv
  <2>5. ComposeBounded' /\ TodoWithin' /\ SessionPlaced'
    BY StepKeepsComposeBounded, StepKeepsTodoWithin, StepKeepsSessionPlaced DEF PartsMove, PartsIInv
  <2> QED
    BY <2>1, <2>2, <2>3, <2>4, <2>5 DEF PartsIInv
<1> QED
  BY <1>1, <1>2, PTL DEF WebSpec

(***************************************************************************)
(* Whatever is opened, saved, sent and closed while answers are under way, *)
(* a draft holds the text of the mail it was made of, unless an answer met *)
(* the dialog showing another mail (ComposeDialog in pages/mail.tsx), for  *)
(* any number of mails, drafts, changes and saves under way.               *)
(***************************************************************************)
THEOREM DraftsKeepTheirMails == WebSpec => []DraftKeepsItsMail
<1>1. ComposeIInv => DraftKeepsItsMail
  BY DEF ComposeIInv, DraftKeepsItsMail
<1> QED
  BY <1>1, WebInvariant, PTL DEF PartsIInv

(***************************************************************************)
(* A draft disappears only for a mail whose every part was accepted, the   *)
(* one it was made of, unless an answer met another mail (what sending and *)
(* scheduling do in ComposeDialog when they succeed).                      *)
(***************************************************************************)
THEOREM SentDraftsGo == WebSpec => DraftDeletedWhenSent
<1>1. PartsIInv /\ [WebNext]_webApp =>
        [\A d \in DOMAIN drafts : drafts[d] # NoText /\ drafts'[d] = NoText /\ ~raced'
            => press.mails = 0 /\ press.doc = owner[d]]_compose
  BY PartsStep, StepKeepsComposeIInv DEF PartsMove, PartsIInv
<1> QED
  BY <1>1, WebInvariant, PTL DEF WebSpec, DraftDeletedWhenSent

(***************************************************************************)
(* With no request under way, a fresh list on the screen shows exactly the *)
(* server's mails of its view, whatever the order of the answers, unless a *)
(* change was never told of or a list lost its mark (the queries and the   *)
(* mutations of pages/mail.tsx), for any mails and any number of requests. *)
(***************************************************************************)
THEOREM ListsTellTruth == WebSpec => []ListTellsTruth
  BY WebInvariant, ListsAreTrue, PTL DEF PartsIInv

(***************************************************************************)
(* The assistant's result is always about the mail and the language on the *)
(* screen, and a translation of another mail is held only when it was      *)
(* asked for before the reader moved on and came in since                  *)
(* (TranslatableMailBody and the assistant's dialog).                      *)
(***************************************************************************)
THEOREM LateAnswersAreFitting == WebSpec => LateAnswersFit
<1>1. PartsIInv /\ [WebNext]_webApp => [TranslationFits /\ AssistantFits']_mailBody
  BY PartsStep, StepKeepsBodyIInv DEF PartsMove, PartsIInv
<1> QED
  BY <1>1, WebInvariant, PTL DEF WebSpec, LateAnswersFit

(***************************************************************************)
(* The browser never holds the data of two users, unless somebody logged   *)
(* in before it found out about an earlier session (the guards, the login  *)
(* and hooks/use-logout.ts), for any set of users, any number of logins    *)
(* and of failures.                                                        *)
(***************************************************************************)
THEOREM OneUserAtATime == WebSpec => []OneUsersData
  BY WebInvariant, OneUserHeld, PTL DEF PartsIInv

(***************************************************************************)
(* The addresses a delivery will forward to were listed when it looked     *)
(* them up, and had opened a link since they were listed, for any number   *)
(* of pages, addresses and links, although each is looked up in a query of *)
(* its own (forwarding_handlers.go, forwarding_delivery.go).  What is      *)
(* removed between its look-up and the queue still gets the mail.          *)
(***************************************************************************)
THEOREM OnlyConfirmedReceive == WebSpec => []ForwardsAsConfirmed
<1>1. ForwardingIInv => ForwardsAsConfirmed
  BY DEF ForwardingIInv
<1> QED
  BY <1>1, WebInvariant, PTL DEF PartsIInv

(***************************************************************************)
(* An address removed and listed again is a new listing, which nobody has  *)
(* confirmed, and no two addresses share one (the id by which the handler  *)
(* of the link writes).                                                    *)
(***************************************************************************)
THEOREM ListingsStayApart == WebSpec => [](ListingsAreApart /\ ListingsAreIssued)
<1>1. ForwardingIInv => ListingsAreApart /\ ListingsAreIssued
  BY DEF ForwardingIInv
<1> QED
  BY <1>1, WebInvariant, PTL DEF PartsIInv

(***************************************************************************)
(* At rest a text node shows React's latest text in the language chosen    *)
(* last, whatever was rendered and chosen in between (lib/language.tsx).   *)
(***************************************************************************)
THEOREM TextsSettle == WebSpec => []TextSettles
  BY WebInvariant, RestShowsLanguage, PTL DEF PartsIInv

(***************************************************************************)
(* A folder stays where it was dropped, whatever is created, deleted,      *)
(* fetched late or overtaken in between, unless the reordering failed or   *)
(* another browser made one (reorderCustomFolder and mailMenuItems in      *)
(* pages/mail.tsx), for any menu, any labels and any number of drops, with *)
(* fewer than 1000 folders: that many between two fixed items would be     *)
(* numbered past the second of them.                                       *)
(***************************************************************************)
THEOREM DropsAreKept == ASSUME Cardinality(CustomFolders) < 1000 PROVE WebSpec => []DropIsKept
<1>1. PartsIInv => DropIsKept
  BY AgreementKeepsDrop DEF PartsIInv, Few
<1> QED
  BY <1>1, WebInvariant, PTL

(***************************************************************************)
(* Every variable of every part keeps its type and stays within the bounds *)
(* of the model, the ids of the dialog and of its requests among them: an  *)
(* answer never names a draft the server has not made.                     *)
(***************************************************************************)
THEOREM WebTypes == WebSpec => []WebTypeOK
<1>1. PartsIInv => WebTypeOK
  <2> SUFFICES ASSUME PartsIInv PROVE WebTypeOK
    OBVIOUS
  <2>1. ComposeTypeOK /\ MailListTypeOK /\ SessionTypeOK /\ FolderOrderTypeOK
    BY ComposeTypes, ListTypes, SessionTypes, OrdersAreTyped DEF PartsIInv
  <2>2. MailBodyTypeOK /\ DomLanguageTypeOK /\ ForwardingTypeOK
    BY DEF PartsIInv, BodyIInv, DomIInv, ForwardingIInv
  <2>3. WebOffersTypeOK /\ WebCacheTypeOK
    BY DEF PartsIInv, OffersIInv, CacheIInv
  <2> QED
    BY <2>1, <2>2, <2>3 DEF WebTypeOK, PartsIInv
<1> QED
  BY <1>1, WebInvariant, PTL

(***************************************************************************)
(* What a page offers, the server does: but for the requests named by      *)
(* Unguarded, one is refused only when the user's permissions have changed *)
(* since the browser read them (the guards of the pages against            *)
(* requirePermission in router_auth.go), for all the offers of all pages   *)
(* and any number of changes.                                              *)
(***************************************************************************)
THEOREM OffersAreServed == WebSpec => []NoOfferRefused
<1>1. PartsIInv => NoOfferRefused
  BY DEF PartsIInv, OffersIInv
<1> QED
  BY <1>1, WebInvariant, PTL

(***************************************************************************)
(* A query at rest on the screen holds the server's data or knows that it  *)
(* does not, whatever the order of the answers: every press of every page  *)
(* tells or gives each query it changes the news, but for the pairs named  *)
(* by Untold (the invalidations and updates of the pages' mutations), for  *)
(* any number of changes.                                                  *)
(***************************************************************************)
THEOREM CachesKnow == WebSpec => []CacheKnows
<1>1. PartsIInv => CacheKnows
  BY CacheKnowing DEF PartsIInv
<1> QED
  BY <1>1, WebInvariant, PTL
===============================================================================
