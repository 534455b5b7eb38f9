------------------------------ MODULE DomLanguage ------------------------------
(***************************************************************************)
(* The language of the web front end (apps/web/src/lib/language.tsx).      *)
(* React renders every text in simplified Chinese; LanguageDomSync         *)
(* rewrites the texts of the document behind React's back, whenever the    *)
(* document or the language changes, from a timer that each change sets    *)
(* anew.  What a text node originally said it keeps in a WeakMap, and with *)
(* it what it wrote itself, to know its own text from a newer one of       *)
(* React's.  One text node is modelled (an attribute has the same rules),  *)
(* the language the user has chosen, which other tabs share through        *)
(* localStorage, and the default that the settings of the service name.    *)
(***************************************************************************)
EXTENDS Naturals

CONSTANTS UiTexts,     \* texts with a translation
          OwnTexts,    \* names, subjects and other texts of users, without one
          Languages,
          Original,    \* the language React renders, zh-CN
          Unset,       \* a key that the map or localStorage does not hold
          MaxRenders   \* bound: texts React writes and choices of a language

ReactTexts == UiTexts \cup OwnTexts
ShownTexts == [text : ReactTexts, language : Languages]

ASSUME LanguageAssumption ==
    /\ Original \in Languages /\ UiTexts \cap OwnTexts = {} /\ UiTexts # {}
    /\ Unset \notin ShownTexts /\ Unset \notin Languages
    /\ MaxRenders \in Nat

VARIABLES rendered,      \* the text React last gave the node
          nodeText,         \* what the node shows, [text, language]
          textSource,    \* textSources of the node
          lastApplied,   \* textLastApplied of the node
          timer,         \* a localization is due
          observed,      \* the observer has yet to report a change of the document
          uiLanguage,    \* the state of LanguageDomSync
          stored,        \* localStorage
          configured,    \* configuredDefaultLanguage
          heard,         \* the event about localStorage is still to come
          mixed,         \* the model's own: the node has shown text of a user
          renders
domLanguage == <<rendered, nodeText, textSource, lastApplied, timer, observed, uiLanguage, stored,
                 configured, heard, mixed, renders>>

\* A text as React renders it, and translateUiText: a text with no translation is left as it is.
Written(t) == [text |-> t, language |-> Original]
Localizable(shownText) == shownText.text \in UiTexts
Localized(shownText, l) == IF Localizable(shownText) THEN [shownText EXCEPT !.language = l] ELSE shownText

DomLanguageTypeOK ==
    /\ rendered \in ReactTexts
    /\ nodeText \in ShownTexts
    /\ textSource \in ShownTexts \cup {Unset} /\ lastApplied \in ShownTexts \cup {Unset}
    /\ timer \in BOOLEAN /\ observed \in BOOLEAN /\ heard \in BOOLEAN /\ mixed \in BOOLEAN
    /\ uiLanguage \in Languages /\ stored \in Languages \cup {Unset} /\ configured \in Languages
    /\ renders \in 0..MaxRenders

\* As if there were no default.
StoredLanguage == stored
\* getInitialLanguage
InitialLanguage == IF stored # Unset THEN stored ELSE configured

DomLanguageStart(t, l) ==
    /\ rendered = t /\ nodeText = Written(t)
    /\ textSource = Unset /\ lastApplied = Unset
    /\ stored = l /\ configured = Original
    /\ uiLanguage = InitialLanguage
    /\ timer = TRUE /\ observed = FALSE /\ heard = FALSE
    /\ mixed = (rendered \in OwnTexts) /\ renders = 0
DomLanguageInit == \E t \in ReactTexts, l \in Languages \cup {Unset} : DomLanguageStart(t, l)

\* React writes the node only when the text differs from the one it wrote before.
Render(t) ==
    /\ t # rendered /\ renders < MaxRenders /\ renders' = renders + 1
    /\ rendered' = t /\ nodeText' = Written(t) /\ observed' = TRUE
    /\ mixed' = (mixed \/ t \in OwnTexts)
    /\ UNCHANGED <<textSource, lastApplied, timer, uiLanguage, stored, configured, heard>>

\* The observer reports: the timer is set, in place of one that has not fired.
Observe ==
    /\ observed /\ observed' = FALSE /\ timer' = TRUE
    /\ UNCHANGED <<rendered, nodeText, textSource, lastApplied, uiLanguage, stored, configured, heard,
                   mixed, renders>>

\* Bug: the text first seen stays the node's source.
SourceFirstSeen == IF textSource = Unset THEN nodeText ELSE textSource
\* A text other than the one written last is React's.
SourceNow ==
    IF textSource = Unset \/ (lastApplied # Unset /\ nodeText # lastApplied) THEN nodeText ELSE textSource

\* localizeTextNode, when the timer fires; its own writing is observed too.
Localize ==
    /\ timer /\ timer' = FALSE
    /\ textSource' = SourceNow
    /\ IF Localizable(SourceNow)
       THEN /\ nodeText' = Localized(SourceNow, uiLanguage) /\ lastApplied' = nodeText'
            /\ observed' = (observed \/ nodeText' # nodeText)
       ELSE UNCHANGED <<nodeText, lastApplied, observed>>
    /\ UNCHANGED <<rendered, uiLanguage, stored, configured, heard, mixed, renders>>

\* The state of LanguageDomSync changes: its effect drops the old observer with what it had to
\* report, and sets the timer.
Speak(l) ==
    /\ uiLanguage' = l
    /\ IF l = uiLanguage THEN UNCHANGED <<timer, observed>> ELSE timer' = TRUE /\ observed' = FALSE

\* setLanguage: stored, and told to the components of this tab.
SetLanguage(l) ==
    /\ renders < MaxRenders /\ renders' = renders + 1
    /\ stored' = l /\ Speak(l)
    /\ UNCHANGED <<rendered, nodeText, textSource, lastApplied, configured, heard, mixed>>

\* Another tab does it: localStorage changes at once, the event comes later.
SetLanguageElsewhere(l) ==
    /\ l # stored /\ renders < MaxRenders /\ renders' = renders + 1
    /\ stored' = l /\ heard' = TRUE
    /\ UNCHANGED <<rendered, nodeText, textSource, lastApplied, timer, observed, uiLanguage, configured, mixed>>

HearStorage ==
    /\ heard /\ heard' = FALSE /\ Speak(InitialLanguage)
    /\ UNCHANGED <<rendered, nodeText, textSource, lastApplied, stored, configured, mixed, renders>>

\* setDefaultLanguage, when the settings arrive or have been saved.
SetDefaultLanguage(l) ==
    /\ l # configured /\ renders < MaxRenders /\ renders' = renders + 1
    /\ configured' = l
    /\ IF stored = Unset THEN Speak(l) ELSE UNCHANGED <<uiLanguage, timer, observed>>
    /\ UNCHANGED <<rendered, nodeText, textSource, lastApplied, stored, heard, mixed>>

DomLanguageNext ==
    \/ \E t \in ReactTexts : Render(t)
    \/ Observe \/ Localize \/ HearStorage
    \/ \E l \in Languages : SetLanguage(l) \/ SetLanguageElsewhere(l) \/ SetDefaultLanguage(l)

------------------------------------------------------------------------------
DomAtRest == ~timer /\ ~observed /\ ~heard

(***************************************************************************)
(* When the timer has fired and nothing is left to report, the node shows  *)
(* React's latest text in the language the user has chosen last, here or   *)
(* in another tab, and the user's own texts untouched, whatever React      *)
(* rendered and the user chose in between.  A node that has shown a user's *)
(* text is excepted: its later texts may stay untranslated, because        *)
(* without a translation nothing is remembered as written.                 *)
(***************************************************************************)
TextSettles ==
    DomAtRest =>
        /\ uiLanguage = InitialLanguage
        /\ nodeText.text = rendered
        /\ ~mixed => nodeText = Localized(Written(rendered), InitialLanguage)
=============================================================================
