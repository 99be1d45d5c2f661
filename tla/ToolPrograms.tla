----------------------------- MODULE ToolPrograms -----------------------------
(***************************************************************************)
(* What each tool of src/src/tools does, with the services it calls        *)
(* (imap.service.ts, smtp.service.ts, label-strategy.ts,                   *)
(* local-calendar.service.ts, reminders.service.ts, sieve.service.ts): the *)
(* list of its steps, one per await.  MailTools runs them.                 *)
(*                                                                         *)
(* A step that throws ends its call, or the try it stands in: skip is how  *)
(* many steps the catch passes over.  Every lock is held in a try whose    *)
(* finally releases it, so that a throw releases it too.                   *)
(***************************************************************************)
EXTENDS MailServer

VARIABLE
  site  \* kind: what detectLabelStrategy finds; readOnly: settings.readOnly;
        \* mac: is the platform darwin?

----------------------------------------------------------------------------
(* Steps                                                                   *)

S(op, f) == [do |-> op, in |-> f, to |-> None, skip |-> 0]
To(op, f, g) == [S(op, f) EXCEPT !.to = g]
Do(op) == <<S(op, None)>>

\* A step in a try of its own keeps it.
Try(steps) == [i \in DOMAIN steps |->
                 [steps[i] EXCEPT !.skip = IF @ > 0 THEN @ ELSE Len(steps) - i + 1]]

\* Mutant of Under: the lock is released before the commands run.
UnderTooShort(f, steps) == <<S("lock", f)>> \o Do("release") \o steps

Under(f, steps) == <<S("lock", f)>> \o steps \o Do("release")
Client == Do("client")
List == Do("list")

\* A FETCH iterator is open until its loop ends; no command starts in between.
Loop == Do("open") \o Do("close")

----------------------------------------------------------------------------
(* imap.service.ts: what each method awaits                                *)

\* STATUS of each folder, whatever some answer.
ListMailboxes == Client \o List \o Try(Do("look"))

OrderUidsByDate == Loop
FetchPreviews == Try(Do("look"))

\* Mutant of FetchPage: the previews are fetched while the loop reads.
FetchPageAtOnce == Do("open") \o FetchPreviews \o Do("close")

FetchPage == Loop \o FetchPreviews

\* A listing filters by attachments in a loop, orders by date and fetches one page.
Listing(f, filtered) ==
  Client
  \o Under(f, Do("scan") \o (IF filtered THEN Loop ELSE <<>>) \o OrderUidsByDate \o FetchPage)
ListEmails(r) == Listing(r.in, r.attach)
SearchEmails(r) == Listing(r.in, r.attach)

\* A part of a body that cannot be read is left out; a download of one throws.
DownloadPart == Do("look")
DownloadMimePart == Try(DownloadPart)
MessageToEmail == DownloadMimePart
WriteAttachmentParts == Try(DownloadPart)

GetEmail(f) == Client \o Under(f, Do("fetch") \o MessageToEmail)
GetEmailFlags(f) == Client \o Under(f, Do("fetch"))
GetEmailSecurity(f) == Client \o Under(f, Do("fetch"))
PeekText(f) == Client \o Under(f, Do("look") \o DownloadMimePart)
PeekAttachments(f) == Client \o Under(f, Do("look"))
DownloadAttachment(f) == Client \o Under(f, Do("fetch") \o DownloadPart)
ExportEmail(f) == Client \o Under(f, Do("fetch") \o Do("fetch"))
SaveEmailAttachments(f) == Client \o Under(f, Do("look") \o WriteAttachmentParts)

\* findThreadUids searches header by header and reads the headers of what it found.
SearchThreadHeaders == Try(Do("look"))
CollectThreadIds == Do("look")
FindThreadUids == SearchThreadHeaders \o CollectThreadIds
GetThread(f) == Client \o Under(f, FindThreadUids \o Do("look") \o MessageToEmail)

ExtractContacts(f) == Client \o Under(f, Do("scan") \o Loop)
GetEmailStats(f) == Client \o Under(f, Do("scan") \o Loop)
GetCalendarParts(f) == Client \o Under(f, Do("look") \o DownloadPart)
GetQuota == Client \o Try(Do("look"))
GetCapabilities == Client

FindEmailFolder(f) == Client \o Under(f, Do("fetch")) \o Do("spread")

\* Mutant of SearchEach: a folder that cannot be searched ends the search.
SearchEachOrFail(folders) ==
  LET order == SetToSeq(folders)
  IN FlattenSeq([i \in DOMAIN order |-> Under(order[i], <<S("search", order[i])>>)])

\* searchMailbox: each folder in a try of its own.
SearchEach(folders) ==
  LET order == SetToSeq(folders)
  IN FlattenSeq([i \in DOMAIN order |-> Try(Under(order[i], <<S("search", order[i])>>))])

\* Mutant of MoveEmail: nobody looks at the server's answer.
MoveEmailUnchecked(f, g) ==
  Client \o <<S("real", f)>> \o Under(f, Try(<<To("move", f, g)>>))

MoveEmail(f, g) ==
  Client \o <<S("real", f)>> \o Under(f, <<To("move", f, g)>>)

DeleteEmail(f, permanent) ==
  IF permanent THEN Client \o Under(f, Do("delete"))
  ELSE Client \o <<S("real", f)>> \o List \o Under(f, <<To("move", f, "Trash")>>)

SetFlags(f) == Client \o Under(f, Do("mark"))

\* The bulk methods catch a refusal and report it in their result.
BulkSetFlags(f) == Client \o Under(f, Try(Do("mark")))
BulkMove(f, g) ==
  Client \o <<S("real", f)>> \o Under(f, Try(<<To("move", f, g)>>))
BulkDelete(f) ==
  Client \o <<S("real", f)>> \o List \o Under(f, Try(<<To("move", f, "Trash")>>))

SaveDraft == Client \o List \o <<S("createMissing", "Drafts"), S("append", "Drafts")>>
AppendSentMessage == Client \o List \o <<S("createMissing", "Sent"), S("append", "Sent")>>
FetchDraft(f) == Client \o List \o GetEmail(f)
DeleteDraft(f) == Client \o Under(f, Do("discard"))

CreateMailbox(f) == Client \o <<S("create", f)>>
RenameMailbox(f, g) == Client \o <<S("removable", f), To("rename", f, g)>>
DeleteMailbox(f) == Client \o <<S("removable", f), S("remove", f)>>

----------------------------------------------------------------------------
(* label-strategy.ts                                                       *)

DetectLabelStrategy ==
  Client \o List
  \o (IF site.kind = "keyword" THEN Under("INBOX", <<>>) ELSE <<>>) \o Do("detected")

GetLabelStrategy == Do("strategy")

ListLabels ==
  GetLabelStrategy \o Client \o (IF site.kind = "keyword" THEN Under("INBOX", <<>>) ELSE List)

AddLabel(f) ==
  GetLabelStrategy \o Client
  \o Under(f, IF site.kind = "protonmail" THEN <<To("copy", f, Label)>> ELSE Do("mark"))

\* Proton: the copy in the label's folder, found by its Message-ID.
RemoveLabel(f) ==
  GetLabelStrategy \o Client
  \o (IF site.kind = "protonmail"
      THEN Under(f, Do("fetch")) \o Under(Label, Do("deleteCopies"))
      ELSE Under(f, Do("mark")))

CreateLabel ==
  GetLabelStrategy \o Client \o (IF site.kind = "keyword" THEN <<>> ELSE <<S("create", Label)>>)

DeleteLabel(f) ==
  GetLabelStrategy \o Client
  \o CASE site.kind = "protonmail" -> <<S("remove", Label)>>
       [] site.kind = "gmail" -> <<S("removable", f), S("remove", f)>>
       [] site.kind = "keyword" -> Do("refuse")

----------------------------------------------------------------------------
(* smtp.service.ts                                                         *)

ResolveAttachments(r) == IF r.attach THEN DownloadAttachment(r.in) ELSE <<>>
SendAndAppend == Do("smtp") \o Try(AppendSentMessage)
SendEmail(r) == Do("rate") \o ResolveAttachments(r) \o SendAndAppend
ReplyToEmail(r) == Do("rate") \o GetEmail(r.in) \o SendAndAppend
ForwardEmail(r) == Do("rate") \o ResolveAttachments(r) \o GetEmail(r.in) \o SendAndAppend

\* Mutant of SendDraft: the draft is removed before it is sent.
SendDraftLast(r) ==
  Do("rate") \o FetchDraft(r.in) \o ResolveAttachments(r) \o Try(DeleteDraft(r.in)) \o SendAndAppend

SendDraft(r) ==
  Do("rate") \o FetchDraft(r.in) \o ResolveAttachments(r) \o SendAndAppend
  \o Try(DeleteDraft(r.in))

----------------------------------------------------------------------------
(* Calendar.app and Reminders.app (osascript, one run per step), files and *)
(* ManageSieve.  Only macOS has the two apps.                              *)

OnMac(steps) == IF site.mac THEN steps ELSE <<>>

CheckPermissions == OnMac(Try(Do("ask")))
CheckRemindersPermission == OnMac(Try(Do("ask")))
ListCalendars == OnMac(Do("ask"))
ListEvents == OnMac(Do("ask"))
ListReminders == OnMac(Do("ask"))

AddEvent == IF site.mac THEN Do("findEvent") \o Do("addEvent") ELSE Do("openIcs")
AddReminder == Do(IF site.mac THEN "addReminder" ELSE "noApp")

\* isCalendarProcessed reads the state file, which throws if it is damaged.
IsCalendarProcessed == Do("readState")

\* writeAttachmentFile: lstat, then an exclusive open, then the content.
WriteAttachmentFile == Do("lstat") \o Do("openNew") \o Do("writeFile")

LoadTemplates == Try(Do("readFile"))
GetTemplate == LoadTemplates \o Do("template")

\* withConnection: openConn, which logs in over TLS, then the command.
WithConnection(command) == Do("sieveOpen") \o command
SieveStatus == Try(WithConnection(Do("listScripts")))
ListScripts == WithConnection(Do("listScripts"))
GetScript(name) == WithConnection(<<S("getScript", name)>>)
PutScript(name) == WithConnection(<<S("putScript", name)>>)
DeleteScript(name) == WithConnection(<<S("deleteScript", name)>>)
ActivateScript(name) == WithConnection(<<S("setActive", name)>>)

----------------------------------------------------------------------------
(* The handlers in src/src/tools.  Invalid arguments throw before anything *)
(* is done, and a dry run does nothing.                                    *)

Tool(r, steps) == IF ~r.valid THEN Do("refuse") ELSE IF r.dry THEN <<>> ELSE steps

GetEmailTool(r) ==
  Tool(r, GetEmail(r.in) \o (IF r.mark /\ ~site.readOnly THEN SetFlags(r.in) ELSE <<>>))
GetEmailsTool(r) == Tool(r, Try(GetEmail(r.in)) \o Try(GetEmail(r.in)))
GetEmailStatusTool(r) == Tool(r, GetEmailFlags(r.in))
ListEmailsTool(r) == ListEmails(r)
SearchEmailsTool(r) == SearchEmails(r)
ListMailboxesTool(r) == ListMailboxes
GetThreadTool(r) == GetThread(r.in)
FindEmailFolderTool(r) == Tool(r, FindEmailFolder(r.in))
GetEmailSecurityTool(r) == Tool(r, GetEmailSecurity(r.in))

\* A savePath is refused by a read-only server.
Saving(r, steps) ==
  IF r.save /\ site.readOnly THEN Do("refuse")
  ELSE steps \o (IF r.save THEN WriteAttachmentFile ELSE <<>>)
DownloadAttachmentTool(r) == Tool(r, Saving(r, DownloadAttachment(r.in)))
ExportEmailTool(r) == Tool(r, Saving(r, ExportEmail(r.in)))
ExtractContactsTool(r) == ExtractContacts(r.in)
GetEmailStatsTool(r) == GetEmailStats(r.in)
ListLabelsTool(r) == ListLabels
ExtractCalendarTool(r) == Tool(r, GetEmail(r.in) \o GetCalendarParts(r.in))
AnalyzeSchedulingTool(r) == Tool(r, GetEmail(r.in) \o GetCalendarParts(r.in) \o IsCalendarProcessed)
CheckPermissionsTool(r) == CheckPermissions \o CheckRemindersPermission
ListCalendarsTool(r) == ListCalendars
ListEventsTool(r) == ListEvents
ListRemindersTool(r) == ListReminders
ListTemplatesTool(r) == LoadTemplates
SieveStatusTool(r) == SieveStatus
ListScriptsTool(r) == ListScripts
GetScriptTool(r) == Tool(r, GetScript(r.to))
CheckHealthTool(r) == Try(Client \o GetCapabilities \o GetQuota)

\* What mail arrival and the hooks read of a message.
ReadArrival(r) ==
  Try(PeekText(r.in)) \o Try(PeekAttachments(r.in))
  \o Try(GetCalendarParts(r.in)) \o Try(SaveEmailAttachments(r.in))

MoveEmailTool(r) == Tool(r, MoveEmail(r.in, r.to))
DeleteEmailTool(r) == Tool(r, DeleteEmail(r.in, r.permanent))
MarkEmailTool(r) == Tool(r, SetFlags(r.in))
BulkActionTool(r) ==
  Tool(r, CASE r.action = "move" -> BulkMove(r.in, r.to)
            [] r.action = "delete" -> BulkDelete(r.in)
            [] OTHER -> BulkSetFlags(r.in))
SaveDraftTool(r) == SaveDraft
SendDraftTool(r) == Tool(r, SendDraft(r))
SendEmailTool(r) == Tool(r, SendEmail(r))
ApplyTemplateTool(r) ==
  GetTemplate \o CASE r.action = "preview" -> <<>>
                   [] r.action = "draft" -> SaveDraft
                   [] OTHER -> Tool(r, SendEmail(r))
ReplyEmailTool(r) == Tool(r, ReplyToEmail(r))
ForwardEmailTool(r) == Tool(r, ForwardEmail(r))
AddLabelTool(r) == Tool(r, AddLabel(r.in))
RemoveLabelTool(r) == Tool(r, RemoveLabel(r.in))
CreateLabelTool(r) == Tool(r, CreateLabel)
DeleteLabelTool(r) == DeleteLabel(r.in)
CreateMailboxTool(r) == CreateMailbox(r.to)
RenameMailboxTool(r) == RenameMailbox(r.in, r.to)
DeleteMailboxTool(r) == Tool(r, DeleteMailbox(r.in))

\* The attachments are saved before the dialog, which names them.
AddToCalendarTool(r) ==
  Tool(r, GetEmail(r.in) \o GetCalendarParts(r.in)
          \o (IF r.attach THEN SaveEmailAttachments(r.in) ELSE <<>>) \o AddEvent)
CreateReminderTool(r) == Tool(r, GetEmail(r.in) \o AddReminder)
PutScriptTool(r) == Tool(r, PutScript(r.to))
DeleteScriptTool(r) == Tool(r, DeleteScript(r.to))
ActivateScriptTool(r) == Tool(r, ActivateScript(r.to))

ReadTool(r) ==
  CASE r.tool = "get_email" -> GetEmailTool(r)
    [] r.tool = "get_emails" -> GetEmailsTool(r)
    [] r.tool = "get_email_status" -> GetEmailStatusTool(r)
    [] r.tool = "list_emails" -> ListEmailsTool(r)
    [] r.tool = "search_emails" -> SearchEmailsTool(r)
    [] r.tool = "list_mailboxes" -> ListMailboxesTool(r)
    [] r.tool = "get_thread" -> GetThreadTool(r)
    [] r.tool = "find_email_folder" -> FindEmailFolderTool(r)
    [] r.tool = "get_email_security" -> GetEmailSecurityTool(r)
    [] r.tool = "download_attachment" -> DownloadAttachmentTool(r)
    [] r.tool = "export_email" -> ExportEmailTool(r)
    [] r.tool = "extract_contacts" -> ExtractContactsTool(r)
    [] r.tool = "get_email_stats" -> GetEmailStatsTool(r)
    [] r.tool = "list_labels" -> ListLabelsTool(r)
    [] r.tool = "extract_calendar" -> ExtractCalendarTool(r)
    [] r.tool = "check_health" -> CheckHealthTool(r)
    [] r.tool = "arrival" -> ReadArrival(r)
    [] r.tool = "analyze_email_for_scheduling" -> AnalyzeSchedulingTool(r)
    [] r.tool = "check_calendar_permissions" -> CheckPermissionsTool(r)
    [] r.tool = "list_calendars" -> ListCalendarsTool(r)
    [] r.tool = "list_events" -> ListEventsTool(r)
    [] r.tool = "list_reminders" -> ListRemindersTool(r)
    [] r.tool = "list_templates" -> ListTemplatesTool(r)
    [] r.tool = "sieve_status" -> SieveStatusTool(r)
    [] r.tool = "sieve_list_scripts" -> ListScriptsTool(r)
    [] r.tool = "sieve_get_script" -> GetScriptTool(r)

WriteTool(r) ==
  CASE r.tool = "move_email" -> MoveEmailTool(r)
    [] r.tool = "delete_email" -> DeleteEmailTool(r)
    [] r.tool = "mark_email" -> MarkEmailTool(r)
    [] r.tool = "bulk_action" -> BulkActionTool(r)
    [] r.tool = "save_draft" -> SaveDraftTool(r)
    [] r.tool = "send_draft" -> SendDraftTool(r)
    [] r.tool = "send_email" -> SendEmailTool(r)
    [] r.tool = "apply_template" -> ApplyTemplateTool(r)
    [] r.tool = "reply_email" -> ReplyEmailTool(r)
    [] r.tool = "forward_email" -> ForwardEmailTool(r)
    [] r.tool = "add_label" -> AddLabelTool(r)
    [] r.tool = "remove_label" -> RemoveLabelTool(r)
    [] r.tool = "create_label" -> CreateLabelTool(r)
    [] r.tool = "delete_label" -> DeleteLabelTool(r)
    [] r.tool = "create_mailbox" -> CreateMailboxTool(r)
    [] r.tool = "rename_mailbox" -> RenameMailboxTool(r)
    [] r.tool = "delete_mailbox" -> DeleteMailboxTool(r)
    [] r.tool = "add_to_calendar" -> AddToCalendarTool(r)
    [] r.tool = "create_reminder" -> CreateReminderTool(r)
    [] r.tool = "sieve_put_script" -> PutScriptTool(r)
    [] r.tool = "sieve_delete_script" -> DeleteScriptTool(r)
    [] r.tool = "sieve_activate_script" -> ActivateScriptTool(r)

ReadTools == {"get_email", "get_emails", "get_email_status", "list_emails", "search_emails",
              "list_mailboxes", "get_thread", "find_email_folder", "get_email_security",
              "download_attachment", "export_email", "extract_contacts", "get_email_stats",
              "list_labels", "extract_calendar", "check_health", "arrival",
              "analyze_email_for_scheduling", "check_calendar_permissions", "list_calendars",
              "list_events", "list_reminders", "list_templates", "sieve_status",
              "sieve_list_scripts", "sieve_get_script"}
WriteTools == {"move_email", "delete_email", "mark_email", "bulk_action", "save_draft",
               "send_draft", "send_email", "apply_template", "reply_email", "forward_email",
               "add_label", "remove_label", "create_label", "delete_label", "create_mailbox",
               "rename_mailbox", "delete_mailbox", "add_to_calendar", "create_reminder",
               "sieve_put_script", "sieve_delete_script", "sieve_activate_script"}
Scheduling == {"add_to_calendar", "create_reminder"}

\* registerAllTools
Registered(tool) == tool \in ReadTools \/ ~site.readOnly
Program(r) == IF r.tool \in ReadTools THEN ReadTool(r) ELSE WriteTool(r)
=============================================================================
