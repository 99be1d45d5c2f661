------------------------------- MODULE MCMail -------------------------------
(***************************************************************************)
(* Instances of MailTools: one call of any tool, and a rival.              *)
(***************************************************************************)
EXTENDS MailTools

CONSTANTS c1, c2

MCCalls == {c1, c2}
MCMessages == {"a", "b", "d", "e"}
MCUnopenable == {"Shared"}
Site(kind, readOnly) == [kind |-> kind, readOnly |-> readOnly, mac |-> TRUE]

Msg(u, m) == [uid |-> u, msg |-> m, mark |-> FALSE]
Boxes == [f \in Folders |->
            CASE f \in {"INBOX", "All"} -> {Msg(1, "a"), Msg(2, "b")}
              [] f = Label -> {Msg(1, "a")}
              [] f = "Work" -> {Msg(1, "e")}
              [] OTHER -> {}]
Plain == Folders \ {"New", "Sent"}

\* With a draft in Drafts, or with no Drafts folder.
Drafts == [mail |-> [Boxes EXCEPT !["Drafts"] = {Msg(1, "d")}], exists |-> Plain]
NoDrafts == [mail |-> [Boxes EXCEPT !["Work"] = {Msg(1, "d")}, !["Trash"] = {Msg(1, "e")}],
             exists |-> Plain \ {"Drafts"}]

Ask(tool, in) == [tool |-> tool, in |-> in, to |-> "Work", ids |-> {1}, valid |-> TRUE,
                  dry |-> FALSE, permanent |-> FALSE, action |-> "none", attach |-> FALSE,
                  mark |-> FALSE, save |-> FALSE]

Marking == [Ask("get_email", "INBOX") EXCEPT !.mark = TRUE]

Asked == {Ask(tool, "INBOX") : tool \in
            ReadTools \cup {"delete_email", "mark_email", "send_email", "reply_email",
                            "forward_email"}} \cup
         {Marking,
          [Ask("get_email", "INBOX") EXCEPT !.valid = FALSE],
          [Ask("list_emails", "Trash") EXCEPT !.attach = TRUE, !.ids = {}],
          Ask("find_email_folder", "All"),
          Ask("move_email", "All"),
          [Ask("move_email", "INBOX") EXCEPT !.to = "New"],
          [Ask("delete_email", "INBOX") EXCEPT !.permanent = TRUE],
          [Ask("delete_email", "INBOX") EXCEPT !.dry = TRUE],
          [Ask("bulk_action", "INBOX") EXCEPT !.action = "move", !.ids = {1, 2}],
          [Ask("bulk_action", "INBOX") EXCEPT !.action = "delete", !.ids = {1, 2}],
          [Ask("bulk_action", "INBOX") EXCEPT !.action = "read", !.ids = {1, 2}],
          [Ask("send_email", "INBOX") EXCEPT !.attach = TRUE],
          [Ask("apply_template", "INBOX") EXCEPT !.action = "preview"],
          [Ask("apply_template", "INBOX") EXCEPT !.action = "draft"],
          [Ask("apply_template", "INBOX") EXCEPT !.action = "send"],
          [Ask("create_mailbox", "INBOX") EXCEPT !.to = "New"],
          [Ask("rename_mailbox", "Work") EXCEPT !.to = "New"],
          Ask("delete_mailbox", "INBOX"),
          Ask("delete_mailbox", "Work")}
Saving1 == {[Ask(tool, "INBOX") EXCEPT !.save = TRUE] : tool \in
              {"download_attachment", "export_email"}}
Scheduled == {[Ask(tool, "INBOX") EXCEPT !.attach = TRUE] : tool \in Scheduling}
Filtering == {[Ask(tool, "INBOX") EXCEPT !.to = "new"] : tool \in
                {"sieve_get_script", "sieve_put_script", "sieve_delete_script",
                 "sieve_activate_script"}} \cup
             {[Ask("sieve_delete_script", "INBOX") EXCEPT !.to = "old"],
              [Ask("sieve_activate_script", "INBOX") EXCEPT !.to = None]}
Drafting == {Ask("save_draft", "INBOX"), Ask("send_draft", "Drafts")}
Labelling == {Ask("list_labels", "INBOX"), Ask("add_label", "INBOX"), Ask("remove_label", "INBOX"),
              Ask("create_label", "INBOX"), Ask("delete_label", "Work")}

Case(sites, starts, firsts, rivals, n) ==
  {[site |-> s, mail |-> b.mail, exists |-> b.exists, request |-> (c1 :> q @@ c2 :> r),
    others |-> n] : s \in sites, b \in starts, q \in firsts, r \in rivals}

MCCases ==
  LET keyword == {Site("keyword", FALSE)}
      mover == Ask("move_email", "INBOX")
  IN Case(keyword, {Drafts}, Asked, {mover, Ask("mark_email", "Work")}, 0)
     \cup Case(keyword, {Drafts, NoDrafts}, Drafting, Drafting \cup {mover}, 1)
     \cup Case({Site(kind, FALSE) : kind \in {"protonmail", "gmail", "keyword"}}, {NoDrafts},
               Labelling, {Ask("add_label", "INBOX"), mover}, 0)
     \cup Case({Site("keyword", TRUE)}, {Drafts}, Asked \cup Saving1, {Marking}, 0)
     \cup Case(keyword, {Drafts}, Saving1, Saving1, 0)
     \cup Case(keyword, {Drafts}, Filtering, Filtering, 0)
     \cup Case(keyword \cup {[Site("keyword", FALSE) EXCEPT !.mac = FALSE]}, {Drafts},
               Scheduled, Scheduled, 0)
=============================================================================
