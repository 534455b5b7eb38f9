------------------------------- MODULE WebRoutes -------------------------------
(***************************************************************************)
(* The other side of an offer: the requests the front end can make (the    *)
(* object api of apps/web/src/lib/api.ts), the permissions the routes of   *)
(* the server ask for (router_auth.go), and what of the server's data a    *)
(* request shows or changes, as far as a page displays it.                 *)
(***************************************************************************)
EXTENDS Panels

\* A table is a set of rows, each of entries that share an answer; a function has what all the rows
\* of an entry say.
For(entries, answer) == {[of |-> entries, is |-> answer]}
Entries(rows) == UNION {row.of : row \in rows}
Table(rows)   == [e \in Entries(rows) |-> UNION {row.is : row \in {r \in rows : e \in r.of}}]

------------------------------------------------------------------------------
\* Permissions.

AccountNeeds ==
    For({"publicSettings", "version", "me", "announcement", "changePassword", "setupTwoFactor",
         "enableTwoFactor", "disableTwoFactor", "feedbackTickets", "feedbackTicket",
         "createFeedbackTicket", "replyFeedbackTicket", "closeFeedbackTicket", "deleteFeedbackTicket",
         "apiTokens", "createApiToken", "updateApiToken", "deleteApiToken"}, {})
    \cup For({"clientAccessEvents", "deleteClientAccessEvents", "forwardingSettings",
              "addForwardingVerifiedEmail", "resendForwardingVerifiedEmail", "deleteForwardingVerifiedEmail",
              "updateAccountForwarding", "updateMailboxForwarding", "createMailboxAppPassword",
              "deleteMailboxAppPassword", "externalImapAccounts", "externalImapSyncRuns"},
             HasPermission("mail.access"))
    \cup For({"mailboxApplyOptions", "applyMailbox"}, HasPermission("mail.mailboxes.apply"))
    \cup For({"contacts", "createContact", "deleteContact"}, HasPermission("mail.contacts.manage"))
    \cup For({"signatures", "createSignature", "updateSignature", "setDefaultSignature", "deleteSignature",
              "defaultSignature"}, HasPermission("mail.signatures.manage"))
    \cup For({"rules", "createRule", "updateRule", "moveRule", "applyRule", "deleteRule"},
             HasPermission("mail.rules.manage"))
    \cup For({"blockedSenders", "createBlockedSender", "deleteBlockedSender"},
             HasPermission("mail.blocked_senders.manage"))
    \cup For({"mailStats"}, HasPermission("mail.stats.view"))
    \cup For({"cleanupMail"}, HasPermission("mail.messages.organize"))

MailNeeds ==
    For({"myMailboxes", "aiStatus"}, HasPermission("mail.access"))
    \cup For({"folders", "messages", "starredMessages", "labelMessages", "message", "exportMail",
              "translateMessage", "externalMailAccounts", "externalFolders", "externalMessages",
              "externalMessage", "translateExternalMessage", "aiMessage", "sendQueue", "sendQueueAudit"},
             HasPermission("mail.messages.read"))
    \cup For({"createFolder", "reorderFolders", "deleteFolder", "importMail", "markRead", "star", "move",
              "deleteMessage", "markExternalRead"}, HasPermission("mail.messages.organize"))
    \cup For({"labels"}, HasAnyPermission({"mail.messages.read", "mail.labels.manage"}))
    \cup For({"createLabel", "deleteLabel", "addMessageLabel", "removeMessageLabel"},
             HasPermission("mail.labels.manage"))
    \cup For({"attachment", "externalAttachment"}, HasPermission("mail.attachments.download"))
    \cup For({"send", "aiCompose", "retrySendQueue", "cancelSendQueue"}, HasPermission("mail.messages.send"))
    \cup For({"scheduledSends", "cancelScheduledSend"}, HasPermission("mail.messages.schedule"))
    \cup For({"scheduleSend"}, HasPermission("mail.messages.schedule") \cup HasPermission("mail.messages.send"))
    \cup For({"saveDraft", "deleteDraft"}, HasPermission("mail.messages.drafts"))

PeopleNeeds ==
    For({"adminOverview"}, HasPermission("admin.overview.view"))
    \cup For({"users"}, HasAnyPermission({"admin.users.view", "admin.mailboxes.view"}))
    \cup For({"createUser"}, HasPermission("admin.users.create"))
    \cup For({"updateUser"}, HasPermission("admin.users.update"))
    \cup For({"resetUserPassword", "resetUserTwoFactor"}, HasPermission("admin.users.reset_password"))
    \cup For({"deleteUser"}, HasPermission("admin.users.delete"))
    \cup For({"permissionGroups", "defaultPermissionLimits"},
             HasAnyPermission({"admin.permission_groups.view", "admin.users.view"}))
    \cup For({"createPermissionGroup"}, HasPermission("admin.permission_groups.create"))
    \cup For({"updatePermissionGroup"}, HasPermission("admin.permission_groups.update"))
    \cup For({"deletePermissionGroup"}, HasPermission("admin.permission_groups.delete"))
    \cup For({"domains"}, HasAnyPermission({"admin.domains.view", "admin.dns.view", "admin.mailboxes.view",
                                            "admin.aliases.view", "admin.settings.view",
                                            "admin.templates.view"}))
    \cup For({"createDomain"}, HasPermission("admin.domains.create"))
    \cup For({"updateDomain"}, HasPermission("admin.domains.update"))
    \cup For({"deleteDomain"}, HasPermission("admin.domains.delete"))
    \cup For({"mailboxes"}, HasAnyPermission({"admin.mailboxes.view", "admin.messages.view"}))
    \cup For({"createMailbox"}, HasPermission("admin.mailboxes.create"))
    \cup For({"updateMailbox"}, HasPermission("admin.mailboxes.update"))
    \cup For({"deleteMailbox"}, HasPermission("admin.mailboxes.delete"))
    \cup For({"aliases"}, HasPermission("admin.aliases.view"))
    \cup For({"createAlias"}, HasPermission("admin.aliases.create"))
    \cup For({"updateAlias"}, HasPermission("admin.aliases.update"))
    \cup For({"deleteAlias"}, HasPermission("admin.aliases.delete"))

SystemNeeds ==
    For({"systemVersion"}, {})
    \cup For({"systemOperation", "updateSystem", "rollbackSystem", "deleteSystemRollback"},
             HasPermission("role.admin"))
    \cup For({"adminMessages", "adminSendQueue"}, HasPermission("admin.messages.view"))
    \cup For({"adminMessagesBatch", "adminSendQueueBatch"}, HasPermission("admin.messages.manage"))
    \cup For({"adminMessage"}, HasPermission("admin.messages.read"))
    \cup For({"adminAttachment"}, HasPermission("admin.messages.attachments"))
    \cup For({"adminFeedbackTickets", "adminFeedbackTicket"}, HasPermission("admin.feedback.view"))
    \cup For({"replyAdminFeedbackTicket", "updateAdminFeedbackStatus", "deleteAdminFeedbackTicket"},
             HasPermission("admin.feedback.view") \cup HasPermission("admin.feedback.manage"))
    \cup For({"systemSettings", "aiSettings", "adminAnnouncements", "certificateStatus", "maildirSyncHealth"},
             HasPermission("admin.settings.view"))
    \cup For({"updateSystemSettings", "updateAISettings", "testAISettings", "aiModels", "publishAnnouncement",
              "clearAnnouncement", "issueCertificate"}, HasPermission("admin.settings.update"))
    \cup For({"testSmtp"}, HasPermission("admin.settings.test_smtp"))
    \cup For({"mailTemplates"}, HasPermission("admin.templates.view"))
    \cup For({"updateMailTemplate"}, HasPermission("admin.templates.update"))
    \cup For({"resetMailTemplate"}, HasPermission("admin.templates.reset"))
    \cup For({"dnsRecords"}, HasPermission("admin.dns.view"))
    \cup For({"checkDns", "mailScore"}, HasPermission("admin.dns.check"))

\* Every route below /admin also asks for some permission of administration.
AdminNeeds == PeopleNeeds \cup SystemNeeds
AdminPermissions == (UNION UNION {row.is : row \in AdminNeeds}) \ {"role.admin"}
Needs == Table(AccountNeeds \cup MailNeeds \cup AdminNeeds
               \cup For(Entries(AdminNeeds), HasAnyPermission(AdminPermissions)))

------------------------------------------------------------------------------
\* Data.  Of a mail: "filed" (in a folder), "erased", "seen", "starred", "labelled"; "inbox" is
\* the number of unread mails there.  A detail does not show where its mail is: moving or
\* erasing the mail closes it.

MailShows ==
    For({<<"messages", "view">>, <<"messages", "starred">>, <<"messages", "label">>},
        {"filed", "erased", "seen", "starred", "labelled"})
    \cup For({<<"message", "id", "view">>}, {"seen", "starred", "labelled"})
    \cup For({<<"folders", "mailbox">>}, {"folders", "filed", "erased", "seen"})
    \cup For({<<"labels", "mailbox">>}, {"labels", "labelled", "erased"})
    \cup For({<<"labels", "rule-dialog", "mailbox">>}, {"labels"})
    \cup For({<<"mail-stats", "mailbox">>}, {"starred", "erased"})
    \cup For({<<"mail-stats", "mailbox", "days">>}, {"filed", "erased", "seen", "starred"})
    \cup For({<<"mailboxes", "mine">>}, {"mailboxes", "app.password", "inbox"})
    \cup For({<<"send-queue", "mailbox">>}, {"queue"})
    \cup For({<<"send-queue-audit", "id">>}, {"audit"})
    \cup For({<<"scheduled-sends", "mailbox">>}, {"scheduled"})
    \cup For({<<"external-messages", "account">>, <<"message", "id", "external">>,
              <<"mail-external-folders", "account">>}, {"remote.seen"})

AccountShows ==
    For({<<"me">>}, {"accounts", "groups"})
    \cup For({<<"api-tokens">>}, {"tokens"})
    \cup For({<<"contacts">>}, {"contacts"})
    \cup For({<<"signatures">>}, {"signatures"})
    \cup For({<<"rules">>}, {"rules"})
    \cup For({<<"blocked-senders">>}, {"blocked"})
    \cup For({<<"forwarding-settings">>}, {"forwarding", "verified"})
    \cup For({<<"client-access-events", "mailbox">>}, {"events"})
    \cup For({<<"feedback-tickets">>, <<"feedback-tickets", "id">>}, {"feedback"})

AdminShows ==
    For({<<"admin", "overview">>},
        {"accounts", "mailboxes", "domains", "aliases", "filed", "erased", "seen", "queue"})
    \cup For({<<"admin", "users">>}, {"accounts", "groups", "mailboxes"})
    \cup For({<<"admin", "permission-groups">>}, {"groups", "accounts"})
    \cup For({<<"admin", "domains">>}, {"domains", "dns"})
    \cup For({<<"admin", "mailboxes">>}, {"mailboxes", "app.password", "accounts"})
    \cup For({<<"admin", "aliases">>}, {"aliases"})
    \cup For({<<"admin", "messages", "filter">>}, {"filed", "erased", "seen", "starred"})
    \cup For({<<"admin", "message", "id">>}, {"seen", "starred"})
    \cup For({<<"admin", "send-queue", "filter">>}, {"queue"})
    \cup For({<<"admin", "feedback-tickets", "status">>, <<"admin", "feedback-tickets", "detail", "id">>},
             {"feedback"})
    \cup For({<<"admin", "settings">>}, {"settings"}) \cup For({<<"dns-records", "id">>}, {"settings"})
    \cup For({<<"admin", "maildir-sync", "health">>}, {"settings"})
    \cup For({<<"admin", "certificates", "status">>}, {"settings", "certificates"})
    \cup For({<<"admin", "ai-settings">>}, {"ai"}) \cup For({<<"admin", "announcements">>}, {"announcements"})
    \cup For({<<"admin", "mail-templates">>}, {"templates"})
    \cup For({<<"admin", "system-operation">>}, {"operation"})

MailChanges ==
    For({"markRead"}, {"seen", "inbox"}) \cup For({"star"}, {"starred"})
    \cup For({"move", "importMail"}, {"filed", "inbox"})
    \cup For({"deleteMessage"}, {"filed", "erased", "inbox"}) \cup For({"cleanupMail"}, {"filed", "erased"})
    \cup For({"markExternalRead"}, {"remote.seen"})
    \cup For({"addMessageLabel"}, {"labels", "labelled"}) \cup For({"removeMessageLabel"}, {"labelled"})
    \cup For({"createLabel"}, {"labels"}) \cup For({"deleteLabel"}, {"labels", "labelled"})
    \cup For({"createFolder", "reorderFolders"}, {"folders"})
    \cup For({"deleteFolder"}, {"folders", "filed", "inbox"})
    \cup For({"saveDraft"}, {"filed"}) \cup For({"deleteDraft"}, {"erased"}) \cup For({"send"}, {"filed", "queue"})
    \cup For({"scheduleSend", "cancelScheduledSend"}, {"scheduled"})
    \cup For({"retrySendQueue", "cancelSendQueue"}, {"queue", "audit"})

AccountChanges ==
    For({"enableTwoFactor"}, {"accounts"}) \cup For({"disableTwoFactor"}, {"accounts", "app.password"})
    \cup For({"createMailboxAppPassword", "deleteMailboxAppPassword"}, {"app.password"})
    \cup For({"applyMailbox"}, {"mailboxes"})
    \cup For({"createApiToken", "updateApiToken", "deleteApiToken"}, {"tokens"})
    \cup For({"createContact", "deleteContact"}, {"contacts"})
    \cup For({"createSignature", "updateSignature", "setDefaultSignature", "deleteSignature"}, {"signatures"})
    \cup For({"updateRule", "moveRule", "deleteRule"}, {"rules"})
    \cup For({"createRule"}, {"rules", "filed", "seen", "starred", "labelled", "inbox"})
    \cup For({"applyRule"}, {"filed", "seen", "starred", "labelled", "inbox"})
    \cup For({"createBlockedSender", "deleteBlockedSender"}, {"blocked"})
    \cup For({"addForwardingVerifiedEmail", "resendForwardingVerifiedEmail"}, {"verified"})
    \cup For({"deleteForwardingVerifiedEmail"}, {"verified", "forwarding"})
    \cup For({"updateAccountForwarding", "updateMailboxForwarding"}, {"forwarding"})
    \cup For({"deleteClientAccessEvents"}, {"events"})
    \cup For({"createFeedbackTicket", "replyFeedbackTicket", "closeFeedbackTicket", "deleteFeedbackTicket"},
             {"feedback"})

AdminChanges ==
    For({"createUser", "updateUser"}, {"accounts", "groups"})
    \cup For({"resetUserTwoFactor"}, {"accounts", "app.password"})
    \cup For({"deleteUser"}, {"accounts", "mailboxes", "erased"})
    \cup For({"createPermissionGroup", "updatePermissionGroup", "deletePermissionGroup"}, {"groups"})
    \cup For({"createDomain", "updateDomain", "deleteDomain"}, {"domains"}) \cup For({"checkDns"}, {"dns"})
    \cup For({"createMailbox"}, {"mailboxes", "accounts"}) \cup For({"updateMailbox"}, {"mailboxes"})
    \cup For({"deleteMailbox"}, {"mailboxes", "erased"})
    \cup For({"createAlias", "updateAlias", "deleteAlias"}, {"aliases"})
    \cup For({"adminMessagesBatch"}, {"filed", "erased", "seen", "starred"})
    \cup For({"adminSendQueueBatch"}, {"queue"})
    \cup For({"replyAdminFeedbackTicket", "updateAdminFeedbackStatus", "deleteAdminFeedbackTicket"}, {"feedback"})
    \cup For({"updateSystemSettings"}, {"settings"}) \cup For({"updateAISettings"}, {"ai"})
    \cup For({"publishAnnouncement", "clearAnnouncement"}, {"announcements"})
    \cup For({"issueCertificate"}, {"certificates"})
    \cup For({"updateMailTemplate", "resetMailTemplate"}, {"templates"})
    \cup For({"deleteSystemRollback"}, {"operation"})

Shows   == Table(MailShows \cup AccountShows \cup AdminShows)
Changes == Table(MailChanges \cup AccountChanges \cup AdminChanges)
Affects(pressing, query) ==
    /\ pressing.what \in DOMAIN Changes
    /\ query.key \in DOMAIN Shows
    /\ Changes[pressing.what] \cap Shows[query.key] # {}
=============================================================================
