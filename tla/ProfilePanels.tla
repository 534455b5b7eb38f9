---------------------------- MODULE ProfilePanels ----------------------------
(***************************************************************************)
(* The offers of the user's own page (apps/web/src/pages/profile.tsx).     *)
(* Its queries run whatever tab is open; a section offers the mutations    *)
(* the page hands to it.  What stands on a row needs the query of the row. *)
(* The dialogs for external accounts and the form for the user's name are  *)
(* in the file, but no section renders them: they are not offered.         *)
(***************************************************************************)
EXTENDS Panels

\* A mailbox is selected out of the user's mailboxes.
SelectedMailbox == HasPermission("mail.access")
Labelled == SelectedMailbox
            \cup HasAnyPermission({"mail.messages.read", "mail.labels.manage", "mail.rules.manage"})
ForwardingRules == HasPermission("mail.rules.manage") \cup HasPermission("mail.access")

------------------------------------------------------------------------------
\* The queries of the page.

ProfileQueries ==
    Under(HasPermission("mail.access"), Show(<<"mailboxes", "mine">>, "myMailboxes"))
    \cup Under(HasPermission("mail.mailboxes.apply"), Show(<<"mailbox-apply-options">>, "mailboxApplyOptions"))
    \cup Show(<<"public-settings">>, "publicSettings")
    \cup Show(<<"api-tokens">>, "apiTokens")
    \cup Under(HasPermission("mail.contacts.manage"), Show(<<"contacts">>, "contacts"))
    \cup Under(HasPermission("mail.signatures.manage"), Show(<<"signatures">>, "signatures"))
    \cup Under(HasPermission("mail.rules.manage"), Show(<<"rules">>, "rules"))
    \cup Under(ForwardingRules, Show(<<"forwarding-settings">>, "forwardingSettings"))
    \cup Under(HasPermission("mail.blocked_senders.manage"), Show(<<"blocked-senders">>, "blockedSenders"))
    \cup Under(SelectedMailbox, Show(<<"client-access-events", "mailbox">>, "clientAccessEvents"))
    \cup Under(SelectedMailbox, Show(<<"external-imap-accounts", "mailbox">>, "externalImapAccounts"))
    \cup Under(Labelled, Show(<<"labels", "mailbox">>, "labels"))
    \cup Under(SelectedMailbox \cup HasPermission("mail.stats.view"),
               Show(<<"mail-stats", "mailbox", "days">>, "mailStats"))

\* Of the account whose runs are looked at; selecting one is in the file as well, and unused.
ExternalRuns ==
    Under(SelectedMailbox, Show(<<"external-imap-run-folders", "account">>, "externalFolders")
                           \cup Show(<<"external-imap-sync-runs", "account">>, "externalImapSyncRuns"))

------------------------------------------------------------------------------
\* The tab "profile": account, mail, clients, security.

AccountTabSection == Show(<<"system-version">>, "version")

EditSignatureForm == Press("updateSignature", {<<"signatures">>, <<"signature">>})
MailPreferencesSection ==
    LET signed == {<<"signatures">>, <<"signature">>} IN
    Under(SelectedMailbox, Press("createLabel", {<<"labels">>}))
    \cup Under(Labelled, Press("deleteLabel", {<<"labels">>}))
    \cup Press("createSignature", signed)
    \cup Under(HasPermission("mail.signatures.manage"),
               EditSignatureForm \cup Press("setDefaultSignature", signed) \cup Press("deleteSignature", signed))

ClientSettingsSection ==
    Under(SelectedMailbox, Press("deleteClientAccessEvents", {<<"client-access-events">>}))

SecuritySettingsSection ==
    Press("changePassword", {}) \cup Press("setupTwoFactor", {})
    \cup PressGiving("enableTwoFactor", {}, {<<"me">>})
    \cup PressGiving("disableTwoFactor", {}, {<<"me">>})
    \cup Under(SelectedMailbox, Press("createMailboxAppPassword", {<<"mailboxes">>})
                                \cup Press("deleteMailboxAppPassword", {<<"mailboxes">>}))

AccountSettingsSection ==
    AccountTabSection \cup MailPreferencesSection \cup ClientSettingsSection \cup SecuritySettingsSection

------------------------------------------------------------------------------
\* The tab "mailboxes": another mailbox, and forwarding.

ForwardingCache == <<"forwarding-settings">>
MailboxManagement ==
    Under(HasPermission("mail.mailboxes.apply"),
          Press("applyMailbox", {<<"mailboxes", "mine">>, <<"mailbox-apply-options">>}))
    \cup Under(SelectedMailbox,
               Show(ForwardingCache, "forwardingSettings")
               \cup PressGiving("addForwardingVerifiedEmail", {ForwardingCache}, {ForwardingCache})
               \cup PressGiving("resendForwardingVerifiedEmail", {ForwardingCache}, {ForwardingCache})
               \cup PressGiving("deleteForwardingVerifiedEmail", {}, {ForwardingCache})
               \cup PressGiving("updateAccountForwarding", {}, {ForwardingCache})
               \cup PressGiving("updateMailboxForwarding", {}, {ForwardingCache}))

------------------------------------------------------------------------------
\* The other tabs.

ContactsSection == Press("createContact", {<<"contacts">>}) \cup Press("deleteContact", {<<"contacts">>})

CleanupSection ==
    Under(SelectedMailbox, Press("cleanupMail", {<<"mail-stats">>, <<"folders">>, <<"messages">>}))

\* The dialog asks for the labels of the mailbox the rule is for.
RuleDialog == Under(SelectedMailbox, Show(<<"labels", "rule-dialog", "mailbox">>, "labels"))
RuleListItem ==
    Press("updateRule", {<<"rules">>}) \cup Press("moveRule", {<<"rules">>}) \cup Press("deleteRule", {<<"rules">>})
    \cup Press("applyRule", {<<"messages">>, <<"folders">>, <<"mail-stats">>, <<"labels">>})
RulesSection ==
    RuleListItem \cup RuleDialog
    \cup Press("createRule", {<<"rules">>, <<"messages">>, <<"mail-stats">>, <<"labels">>})

BlockedSection ==
    Press("createBlockedSender", {<<"blocked-senders">>}) \cup Press("deleteBlockedSender", {<<"blocked-senders">>})

FeedbackSection ==
    LET told == {<<"feedback-tickets">>} IN
    Show(<<"feedback-tickets">>, "feedbackTickets")
    \cup Show(<<"feedback-tickets", "id">>, "feedbackTicket")
    \cup Press("createFeedbackTicket", told) \cup Press("replyFeedbackTicket", told)
    \cup Press("closeFeedbackTicket", told) \cup Press("deleteFeedbackTicket", told)

ApiTokensSection ==
    Press("createApiToken", {<<"api-tokens">>}) \cup Press("updateApiToken", {<<"api-tokens">>})
    \cup Press("deleteApiToken", {<<"api-tokens">>})

\* visibleTabKeys and renderTab.
ProfilePage ==
    UseMe \cup ProfileQueries
    \cup AccountSettingsSection
    \cup Under(HasAnyPermission({"mail.access", "mail.mailboxes.apply"}), MailboxManagement)
    \cup Under(HasPermission("mail.contacts.manage"), ContactsSection)
    \cup Under(HasPermission("mail.messages.organize"), CleanupSection)
    \cup Under(HasPermission("mail.rules.manage"), RulesSection)
    \cup Under(HasPermission("mail.blocked_senders.manage"), BlockedSection)
    \cup FeedbackSection \cup ApiTokensSection
=============================================================================
