----------------------------- MODULE AdminPanels -----------------------------
(***************************************************************************)
(* The offers of the administration page (apps/web/src/pages/admin.tsx,    *)
(* components/ai-settings-card.tsx and system-version-dialog.tsx).         *)
(***************************************************************************)
EXTENDS Panels

InvalidateAdmin == {<<"admin">>, <<"mailboxes">>, <<"me">>}

------------------------------------------------------------------------------
\* Accounts and permission groups.

EditUserDialog      == Press("updateUser", InvalidateAdmin)
ResetPasswordDialog == Press("resetUserPassword", {})
CreateUserDialog    == Press("createUser", InvalidateAdmin)

\* The menu of an account, with its dialogs; quickPatch asks for the same as the dialog.
UserActions ==
    Under(HasPermission("admin.users.update"), EditUserDialog)
    \cup Under(HasPermission("admin.users.reset_password"),
               ResetPasswordDialog \cup Press("resetUserTwoFactor", InvalidateAdmin))

UsersSection ==
    Under(HasPermission("admin.users.create"), CreateUserDialog)
    \cup UserActions
    \cup Under(HasPermission("admin.users.delete"), Press("deleteUser", InvalidateAdmin))

\* The permissions and the limits of a group; both ask for the limits groups have by default.
DefaultLimits == Show(<<"admin", "permission-limits", "defaults">>, "defaultPermissionLimits")
PermissionLimitBadges == DefaultLimits
PermissionGroupDialog(request) == DefaultLimits \cup Press(request, InvalidateAdmin)

PermissionGroupsSection ==
    PermissionLimitBadges
    \cup Under(HasPermission("admin.permission_groups.create"), PermissionGroupDialog("createPermissionGroup"))
    \cup Under(HasPermission("admin.permission_groups.update"), PermissionGroupDialog("updatePermissionGroup"))
    \cup Under(HasPermission("admin.permission_groups.delete"), Press("deletePermissionGroup", InvalidateAdmin))

------------------------------------------------------------------------------
\* Domains, mailboxes, aliases.

DNSPanel ==
    Show(<<"dns-records", "id">>, "dnsRecords")
    \cup Under(HasPermission("admin.dns.check"),
               Press("checkDns", {<<"admin", "domains">>}) \cup Press("mailScore", {}))

DomainDNSDialog    == DNSPanel
CreateDomainDialog == Press("createDomain", InvalidateAdmin)

DomainsSection ==
    Under(HasPermission("admin.domains.create"), CreateDomainDialog)
    \cup Under(HasPermission("admin.domains.update"), Press("updateDomain", InvalidateAdmin))
    \cup Under(HasPermission("admin.domains.delete"), Press("deleteDomain", InvalidateAdmin))
    \cup Under(HasPermission("admin.dns.view"), DomainDNSDialog)

CreateMailboxDialog == Press("createMailbox", InvalidateAdmin)
EditMailboxDialog   == Press("updateMailbox", InvalidateAdmin)
MailboxesSection ==
    Under(HasPermission("admin.mailboxes.create"), CreateMailboxDialog)
    \cup Under(HasPermission("admin.mailboxes.update"), EditMailboxDialog)
    \cup Under(HasPermission("admin.mailboxes.delete"), Press("deleteMailbox", InvalidateAdmin))

CreateAliasDialog == Press("createAlias", InvalidateAdmin)
AliasesSection ==
    Under(HasPermission("admin.aliases.create"), CreateAliasDialog)
    \cup Under(HasPermission("admin.aliases.update"), Press("updateAlias", InvalidateAdmin))
    \cup Under(HasPermission("admin.aliases.delete"), Press("deleteAlias", InvalidateAdmin))

------------------------------------------------------------------------------
\* Mails and the sends of all mailboxes; the batches act on the selected rows.

\* The attachments of the mail shown are links.
AdminMessageDialog == Press("adminAttachment", {})

\* The button that shows a mail asks for no permission of its own.
AdminMessagesSection ==
    Show(<<"admin", "messages", "filter">>, "adminMessages")
    \cup Show(<<"admin", "message", "id">>, "adminMessage")
    \cup AdminMessageDialog
    \cup Under(HasPermission("admin.messages.manage"),
               Press("adminMessagesBatch", {<<"admin", "messages">>}))

AdminSendAuditSection ==
    Show(<<"admin", "send-queue", "filter">>, "adminSendQueue")
    \cup Under(HasPermission("admin.messages.manage"),
               Press("adminSendQueueBatch", {<<"admin", "send-queue">>}))

------------------------------------------------------------------------------
\* Feedback.

AdminFeedbackSection ==
    LET told == {<<"admin", "feedback-tickets">>, <<"feedback-tickets">>} IN
    Show(<<"admin", "feedback-tickets", "status">>, "adminFeedbackTickets")
    \cup Show(<<"admin", "feedback-tickets", "detail", "id">>, "adminFeedbackTicket")
    \cup Under(HasPermission("admin.feedback.manage"),
               Press("replyAdminFeedbackTicket", told)
               \cup Press("updateAdminFeedbackStatus", told)
               \cup Press("deleteAdminFeedbackTicket", told))

------------------------------------------------------------------------------
\* Settings.

AISettingsFields ==
    Under(HasPermission("admin.settings.update"),
          Press("testAISettings", {}) \cup Press("aiModels", {})
          \cup PressGiving("updateAISettings", {<<"ai-status">>}, {<<"admin", "ai-settings">>}))
AISettingsCard == Show(<<"admin", "ai-settings">>, "aiSettings") \cup AISettingsFields

AnnouncementSettingsCard ==
    LET told == {<<"admin", "announcements">>, <<"announcement">>} IN
    Show(<<"admin", "announcements">>, "adminAnnouncements")
    \cup Under(HasPermission("admin.settings.update"),
               Press("publishAnnouncement", told) \cup Press("clearAnnouncement", told))

MaildirSyncHealthCard == Show(<<"admin", "maildir-sync", "health">>, "maildirSyncHealth")

CertificateSettingsCard ==
    Show(<<"admin", "certificates", "status">>, "certificateStatus")
    \cup Under(HasPermission("admin.settings.update"),
               Press("issueCertificate", {<<"admin", "certificates", "status">>}))

TestSMTPDialog == Press("testSmtp", {})

MailTemplatesPanel ==
    Show(<<"admin", "mail-templates">>, "mailTemplates")
    \cup Under(HasPermission("admin.templates.update"),
               Press("updateMailTemplate", {<<"admin", "mail-templates">>}))
    \cup Under(HasPermission("admin.templates.reset"),
               Press("resetMailTemplate", {<<"admin", "mail-templates">>}))

\* The dialog of the version: anyone may look, the role decides who may act.
SystemVersionDialog ==
    Show(<<"admin", "system-version">>, "systemVersion")
    \cup Under(HasPermission("role.admin"),
               Show(<<"admin", "system-operation">>, "systemOperation")
               \cup Press("updateSystem", {}) \cup Press("rollbackSystem", {})
               \cup Press("deleteSystemRollback", {<<"admin", "system-operation">>}))
AboutProjectCard == SystemVersionDialog

\* What saving the settings invalidates and sets.
SettingsForm ==
    PressGiving("updateSystemSettings",
                {<<"admin", "maildir-sync", "health">>, <<"dns-records">>, <<"public-settings">>,
                 <<"admin", "certificates", "status">>},
                {<<"admin", "settings">>, <<"public-settings">>})

SystemSettingsSection ==
    Under(HasPermission("admin.settings.view"),
          MaildirSyncHealthCard \cup CertificateSettingsCard \cup AnnouncementSettingsCard
          \cup AISettingsCard \cup AboutProjectCard)
    \cup Under(HasPermission("admin.settings.update"), SettingsForm)
    \cup Under(HasPermission("admin.settings.test_smtp"), TestSMTPDialog)
    \cup Under(HasPermission("admin.templates.view"), MailTemplatesPanel)

------------------------------------------------------------------------------
\* The page: its own queries, kept in every section, and the section shown.

AdminQueries ==
    Under(HasPermission("admin.overview.view"), Show(<<"admin", "overview">>, "adminOverview"))
    \cup Under(HasAnyPermission({"admin.users.view", "admin.mailboxes.view"}),
               Show(<<"admin", "users">>, "users"))
    \cup Under(HasAnyPermission({"admin.permission_groups.view", "admin.users.view"}),
               Show(<<"admin", "permission-groups">>, "permissionGroups"))
    \cup Under(HasAnyPermission({"admin.domains.view", "admin.dns.view", "admin.mailboxes.view",
                                 "admin.aliases.view", "admin.settings.view", "admin.templates.view"}),
               Show(<<"admin", "domains">>, "domains"))
    \cup Under(HasAnyPermission({"admin.mailboxes.view", "admin.messages.view"}),
               Show(<<"admin", "mailboxes">>, "mailboxes"))
    \cup Under(HasPermission("admin.aliases.view"), Show(<<"admin", "aliases">>, "aliases"))
    \cup Under(HasPermission("admin.settings.view"), Show(<<"admin", "settings">>, "systemSettings"))

AdminPage ==
    UseMe \cup AdminQueries
    \cup Under(HasPermission("admin.users.view"), UsersSection)
    \cup Under(HasPermission("admin.permission_groups.view"), PermissionGroupsSection)
    \cup Under(HasAnyPermission({"admin.domains.view", "admin.dns.view"}), DomainsSection)
    \cup Under(HasPermission("admin.mailboxes.view"), MailboxesSection)
    \cup Under(HasPermission("admin.aliases.view"), AliasesSection)
    \cup Under(HasPermission("admin.messages.view"), AdminMessagesSection \cup AdminSendAuditSection)
    \cup Under(HasPermission("admin.feedback.view"), AdminFeedbackSection)
    \cup Under(HasAnyPermission({"admin.settings.view", "admin.templates.view"}), SystemSettingsSection)
=============================================================================
