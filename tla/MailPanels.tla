------------------------------ MODULE MailPanels ------------------------------
(***************************************************************************)
(* The offers of the mail page (apps/web/src/pages/mail.tsx) and of the AI *)
(* assistant it embeds (components/ai-mail-assistant.tsx).  The page asks  *)
(* for "all" mailboxes until one is chosen, so its queries of folders,     *)
(* labels and figures do not wait for the list of mailboxes.               *)
(***************************************************************************)
EXTENDS Panels

CanAccessMail     == HasPermission("mail.access")
CanReadMail       == HasPermission("mail.messages.read")
CanSendMail       == HasPermission("mail.messages.send")
CanOrganizeMail   == HasPermission("mail.messages.organize")
CanManageLabels   == HasPermission("mail.labels.manage")
CanScheduleMail   == HasPermission("mail.messages.schedule")
CanViewUnknownMail == HasPermission("role.admin")

\* A mail is on screen, and so its row, its menu and its detail.
MailShown == CanAccessMail \cup CanReadMail
\* One mailbox is selected: not "all".
MailboxSelected == CanAccessMail

Folders == <<"folders", "mailbox">>
Labels  == <<"labels", "mailbox">>
Stats   == <<"mail-stats", "mailbox">>
Messages == <<"messages", "view">>
MessageDetail == <<"message", "id", "view">>

\* The figures that follow a mail; a change of folders or of many mails refreshes the page.
Counts == {<<"messages">>, <<"folders">>, <<"mailboxes">>, <<"mail-stats">>}
RefreshMailData ==
    Counts \cup {<<"admin", "unknown-messages">>, <<"external-messages">>, <<"mail-external-folders">>,
                 <<"mail-external-accounts">>, <<"labels">>, <<"scheduled-sends">>, <<"send-queue">>}

------------------------------------------------------------------------------
\* Queries, each under what enables it.

AnnouncementBanner == Show(<<"announcement">>, "announcement")
PublicSettings     == Show(<<"public-settings">>, "publicSettings")
MailboxList        == Under(CanAccessMail, Show(<<"mailboxes", "mine">>, "myMailboxes"))
ExternalAccounts   ==
    Under(CanAccessMail \cup CanReadMail, Show(<<"mail-external-accounts">>, "externalMailAccounts")
                                          \cup Show(<<"mail-external-folders", "account">>, "externalFolders"))
FolderList    == Under(CanReadMail, Show(Folders, "folders"))
LabelItems    == Under(HasAnyPermission({"mail.messages.read", "mail.labels.manage"}), Show(Labels, "labels"))
MailStats     == Under(HasPermission("mail.stats.view"), Show(Stats, "mailStats"))
ScheduledList == Under(CanScheduleMail, Show(<<"scheduled-sends", "mailbox">>, "scheduledSends"))
SendQueueList == Under(CanReadMail, Show(<<"send-queue", "mailbox">>, "sendQueue"))
SendQueueAudit == Under(CanReadMail, Show(<<"send-queue-audit", "id">>, "sendQueueAudit"))
InboxProbe    == Under(CanReadMail, Show(<<"mail-notifications", "mailbox">>, "messages"))

\* The list of the view, and the mail that is open.
MessageList ==
    Under(CanReadMail, Show(Messages, "messages")
                       \cup Show(<<"messages", "starred">>, "starredMessages")
                       \cup Show(<<"messages", "label">>, "labelMessages"))
UnknownMessages  == Under(CanViewUnknownMail, Show(<<"admin", "unknown-messages">>, "adminMessages"))
ExternalMessages ==
    Under(CanAccessMail \cup CanReadMail, Show(<<"external-messages", "account">>, "externalMessages"))
OpenDetail ==
    Under(CanReadMail, Show(MessageDetail, "message")
                       \cup Under(CanAccessMail, Show(<<"message", "id", "external">>, "externalMessage"))
                       \cup Under(CanViewUnknownMail, Show(<<"message", "id", "unknown">>, "adminMessage")))

------------------------------------------------------------------------------
\* What is offered for one mail, in the row, its menu and its detail.

\* As if the mail that is open did not follow.
MarkReadInLists == Press("markRead", Counts)
MarkRead == Press("markRead", Counts \cup {<<"message", "id">>})
Star     == Press("star", {<<"messages">>, <<"message", "id">>, <<"mail-stats">>, <<"labels">>})
Move     == Press("move", Counts \cup {<<"labels">>})
Del      == Press("deleteMessage", Counts \cup {<<"labels">>})
MarkExternalRead ==
    Press("markExternalRead", {<<"external-messages">>, <<"message">>, <<"mail-external-folders">>})
AddLabel    == Press("addMessageLabel", {<<"messages">>, <<"labels">>})
RemoveLabel == Press("removeMessageLabel", {<<"messages">>, <<"labels">>})

\* The row of either layout; opening it marks the mail read for those who may organise.
MessageRow == Under(MailShown \cup CanOrganizeMail, Star \cup Move \cup Del \cup MarkRead)
CompactMessageRow == Under(MailShown \cup CanOrganizeMail, Star)
OpenMessage == Under(MailShown \cup CanOrganizeMail, MarkRead \cup MarkExternalRead)

\* The context menu also files the mail under a label.
MessageContextMenu ==
    Under(MailShown \cup CanOrganizeMail, MarkRead \cup Star \cup Move \cup Del)
    \cup Under(MailShown \cup CanManageLabels, AddLabel \cup RemoveLabel)

MessageMetaPanel == Under(MailShown \cup CanManageLabels, AddLabel \cup RemoveLabel)

\* The assistant: a summary for those who read, a reply or a draft for those who send; what it
\* reads is the mail shown, or the draft typed.
AIMailAssistant(action) ==
    LET allowed == IF action = "summary" THEN CanAccessMail \cup CanReadMail ELSE CanAccessMail \cup CanSendMail
        source  == IF action = "compose" THEN {} ELSE CanReadMail
        request == IF action = "compose" THEN "aiCompose" ELSE "aiMessage"
    IN Under(allowed \cup source, Show(<<"ai-status">>, "aiStatus") \cup Press(request, {}))

TranslatableMailBody ==
    Under(MailShown, AIMailAssistant("summary") \cup AIMailAssistant("reply")
                     \cup Press("translateMessage", {}) \cup Press("translateExternalMessage", {}))

AttachmentHref ==
    Under(MailShown \cup HasPermission("mail.attachments.download"),
          Press("attachment", {}) \cup Press("externalAttachment", {})
          \cup Under(CanViewUnknownMail, Press("adminAttachment", {})))

CompactMessageDetail ==
    Under(MailShown \cup CanOrganizeMail, Star \cup Move \cup Del \cup MarkRead)
    \cup MessageMetaPanel \cup TranslatableMailBody \cup AttachmentHref

------------------------------------------------------------------------------
\* What is offered for many mails, for the folders and for the labels.

BulkActionToolbar ==
    LET bulk(request) == Press(request, RefreshMailData) IN
    Under(MailShown \cup CanOrganizeMail, bulk("markRead") \cup bulk("star") \cup bulk("move") \cup bulk("deleteMessage"))

MailTransferTools ==
    Under(MailShown, Press("exportMail", {}))
    \cup Under(MailShown \cup MailboxSelected \cup CanOrganizeMail, Press("importMail", RefreshMailData))

CreateFolderDialog == Under(CanOrganizeMail, Press("createFolder", {<<"folders">>}))
ReorderFolders     == Press("reorderFolders", {Folders})
SidebarContextMenu ==
    Under(CanOrganizeMail \cup CanReadMail, ReorderFolders \cup Press("deleteFolder", RefreshMailData))

NewLabelButton == Under(MailboxSelected \cup CanManageLabels, Press("createLabel", {<<"labels">>}))
LabelList ==
    LabelItems \cup NewLabelButton
    \cup Under(MailboxSelected \cup CanManageLabels \cup CanReadMail, Press("deleteLabel", {<<"messages">>, <<"labels">>}))

\* The two groups of the menu, between which folders are dragged.
FolderDragging  == Under(MailboxSelected \cup CanOrganizeMail \cup CanReadMail, ReorderFolders)
PrimaryMailMenu == FolderList \cup MailStats \cup ScheduledList \cup SendQueueList \cup FolderDragging
CustomMailMenu  == FolderList \cup FolderDragging \cup Under(MailboxSelected, CreateFolderDialog)

ExternalAccountMenu == ExternalAccounts \cup ExternalMessages
MailboxSwitcher     == MailboxList
AccountHeader       == UseMe
Sidebar ==
    AccountHeader \cup MailboxSwitcher \cup PrimaryMailMenu \cup ExternalAccountMenu \cup CustomMailMenu
    \cup LabelList \cup SidebarContextMenu

------------------------------------------------------------------------------
\* Mails that wait: the scheduled ones and the send queue.

ScheduledSendRow == Under(MailShown \cup CanScheduleMail, Press("cancelScheduledSend", {<<"scheduled-sends">>}))
\* As if the buttons did not ask for the permission to send.
SendQueueRowForAll ==
    LET told == {<<"send-queue">>, <<"send-queue-audit">>} IN
    Under(MailShown, Press("retrySendQueue", told) \cup Press("cancelSendQueue", told))
SendQueueRow ==
    LET told == {<<"send-queue">>, <<"send-queue-audit">>} IN
    Under(MailShown \cup CanSendMail, Press("retrySendQueue", told) \cup Press("cancelSendQueue", told))
SendQueueAuditDialog == SendQueueAudit

ScheduledSendView == ScheduledList \cup ScheduledSendRow
SendQueueView     == SendQueueList \cup SendQueueRow

\* The composer, with what the page does when it reports that the mail is sent.
ComposerSent ==
    {<<"messages">>, <<"folders">>, <<"mail-stats">>, <<"labels">>, <<"scheduled-sends">>, <<"send-queue">>}
\* Open for a new mail (who may send) or for a draft out of the list (who may read and keep drafts).
ComposerOpen ==
    CanAccessMail \cup HasAnyPermission({"mail.messages.send", "mail.messages.drafts"})
    \cup HasAnyPermission({"mail.messages.send", "mail.messages.read"})
Composer ==
    LET mayDraft == HasPermission("mail.messages.drafts") IN
    Under(ComposerOpen \cup CanSendMail, Press("send", ComposerSent)
                                         \cup Under(mayDraft, Press("deleteDraft", ComposerSent)))
    \cup Under(ComposerOpen \cup CanScheduleMail, Press("scheduleSend", ComposerSent))
    \cup Under(ComposerOpen \cup mayDraft,
               Press("saveDraft", {<<"messages">>, <<"folders">>, <<"mail-stats">>}))
    \cup Under(ComposerOpen, AIMailAssistant("compose"))
    \cup Under(ComposerOpen \cup HasPermission("mail.signatures.manage"),
               Show(<<"signature", "default", "mailbox">>, "defaultSignature"))

------------------------------------------------------------------------------
\* The page, in its two layouts.

AdvancedSearchPanel == MessageList
TwoPaneMailView ==
    MessageList \cup UnknownMessages \cup ExternalMessages \cup OpenDetail \cup MailTransferTools
    \cup AdvancedSearchPanel \cup MessageRow \cup BulkActionToolbar
    \cup Under(MailShown \cup CanOrganizeMail, Move \cup Del)
    \cup MessageMetaPanel \cup TranslatableMailBody \cup AttachmentHref
CompactMailView ==
    MessageList \cup UnknownMessages \cup ExternalMessages \cup CompactMessageDetail
    \cup BulkActionToolbar \cup CompactMessageRow \cup MailTransferTools

ContentView == ScheduledSendView \cup SendQueueView \cup TwoPaneMailView \cup CompactMailView
MailPage ==
    UseMe \cup PublicSettings \cup AnnouncementBanner \cup InboxProbe \cup Sidebar \cup ContentView
    \cup OpenMessage \cup MessageContextMenu \cup CreateFolderDialog \cup SendQueueAuditDialog \cup Composer
=============================================================================
