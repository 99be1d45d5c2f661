------------------------------- MODULE MailTools -------------------------------
(***************************************************************************)
(* The tool calls of one server, run at once over one IMAP connection.  A  *)
(* call is the list of the steps left of it, from its program in           *)
(* ToolPrograms.  Besides the mail account they work on the apps of the    *)
(* desktop, on the file a savePath names and on the Sieve scripts.         *)
(***************************************************************************)
EXTENDS ToolPrograms

CONSTANT
  Cases  \* the accounts, mail, folders and requests there may be

\* The tools that have a dry run, and those with a savePath.
DryRuns == {"delete_email", "bulk_action", "send_draft", "send_email", "reply_email",
            "forward_email", "delete_mailbox", "sieve_put_script", "sieve_delete_script"}
Savers == {"download_attachment", "export_email"}

\* What the schemas of the tools accept.  A script is named by to, and so is the folder
\* that is made or given a new name.
Requests ==
  [tool : ReadTools \cup WriteTools, in : Folders, to : Folders \cup {"old", "new", None},
   ids : SUBSET Nat, valid : BOOLEAN, dry : BOOLEAN, permanent : BOOLEAN, action : STRING,
   attach : BOOLEAN, mark : BOOLEAN, save : BOOLEAN]
Accepted(r) ==
  /\ r \in Requests
  /\ r.dry => r.tool \in DryRuns
  /\ r.save => r.tool \in Savers
  /\ r.tool \in {"create_mailbox", "rename_mailbox"} => r.to \in Folders
  /\ r.tool \in {"sieve_put_script", "sieve_activate_script"} => r.to \in {"old", "new", None}

\* The folders that show messages of other folders.
Views == Virtual \cup {Label}

\* Every message is in a folder at first, every folder has UIDs from 1 on, and a caller
\* names UIDs it has seen.
ASSUME CasesOK ==
  \A case \in Cases :
    /\ case.site \in [kind : {"protonmail", "gmail", "keyword"}, readOnly : BOOLEAN, mac : BOOLEAN]
    /\ case.mail \in [Folders -> SUBSET [uid : Nat, msg : Messages, mark : BOOLEAN]]
    /\ \A f \in Folders : IsFiniteSet(case.mail[f])
    /\ case.exists \subseteq Folders
    /\ \A m \in Messages : \E f \in case.exists \ Views : m \in {x.msg : x \in case.mail[f]}
    /\ DOMAIN case.request = Calls
    /\ \A c \in Calls : LET r == case.request[c]
                       IN  /\ Accepted(r)
                           /\ r.in \in case.exists =>
                                \A id \in r.ids : id <= Cardinality(case.mail[r.in])
    /\ case.others \in Nat

ASSUME NoneIsNothing ==
  None \notin Calls \cup Messages \cup Folders \cup {"ok", "error", "added", "old", "new"}

VARIABLES
  request,   \* request[c]: the tool and its arguments
  todo,      \* todo[c]: the steps left
  reply,     \* reply[c]: None, ok or error
  mine,      \* mine[c]: the connection of c's client object
  strategy,  \* labelStrategies: is the account's strategy known?
  detecting, \* the call whose detection labelStrategyPending holds
  knows,     \* knows[c]: the folders its last LIST gave, the message it read and, for
             \* find_email_folder, the folders it found
  side,      \* added: the calls whose event or reminder an app has; status: what they
             \* were told; file: who created the one at savePath, and whether it is
             \* whole; scripts, active: the Sieve scripts
  \* History.
  meant,     \* meant[c]: the messages the caller was shown under the ids it names
  touched,   \* touched[c]: the messages c read or changed by id
  audited,   \* the calls that wrote an audit entry
  fate       \* fate[c]: what befell it, of Fates

Fates == {"delivered", "unheard", "changed", "removed", "refused", "lost", "hung", "busy"}

callVars == <<todo, reply, audited, detecting>>
fixedVars == <<site, request, mine, strategy, meant>>
keptVars == <<fixedVars, side>>
worldVars == <<mail, exists, next, others, reborn, taken>>
vars == <<serverVars, callVars, keptVars, knows, touched, fate>>

----------------------------------------------------------------------------
(* How a call goes on                                                      *)

At(c, ops) == todo[c] # <<>> /\ Head(todo[c]).do \in ops
Step(c) == Head(todo[c])
Live(c) == up /\ mine[c] = gen
Writes(c) == request[c].tool \notin ReadTools

\* Whether c, at its present step, is audited when it ends: a scheduling tool once it
\* gets to its write, a read tool that saves a file, and any other write tool, but
\* apply_template only when it neither fails nor previews.
Audits(c) ==
  CASE request[c].tool \in Scheduling ->
         todo[c] = <<>> \/ At(c, {"findEvent", "addEvent", "openIcs", "addReminder"})
    [] request[c].tool = "apply_template" -> todo[c] = <<>> /\ request[c].action # "preview"
    [] request[c].tool \in ReadTools -> request[c].save /\ ~site.readOnly
    [] OTHER -> Writes(c)

GoesOn(c) == todo' = [todo EXCEPT ![c] = Tail(@)] /\ UNCHANGED <<reply, audited, detecting>>

\* What a throw at c's step leaves to do, and whether a finally releases the lock.
Left(c) == IF Step(c).skip = 0 THEN <<>> ELSE SubSeq(todo[c], Step(c).skip + 1, Len(todo[c]))
Released(c) == \E i \in 1 .. Len(todo[c]) - Len(Left(c)) : todo[c][i].do = "release"

\* Those who wait for a detection fail with it.
Sharing(c) == IF detecting = c THEN {d \in Calls : At(d, {"sharing"})} ELSE {}
Over(c) == Sharing(c) \cup (IF Step(c).skip = 0 THEN {c} ELSE {})

Propagates(c) ==
  /\ todo' = [d \in Calls |-> IF d = c THEN Left(c)
                              ELSE IF d \in Sharing(c) THEN <<>> ELSE todo[d]]
  /\ reply' = [d \in Calls |-> IF d \in Over(c) THEN "error" ELSE reply[d]]

\* Mutant of Throws: the failure is not audited.
ThrowsUnaudited(c) ==
  /\ Propagates(c)
  /\ detecting' = IF detecting = c THEN None ELSE detecting
  /\ UNCHANGED audited

\* The catch of the handler answers with the error and, in a write tool, audits it;
\* labelStrategyPending is cleared.
Throws(c) ==
  /\ Propagates(c)
  /\ audited' = audited \cup {d \in Over(c) : Audits(d)}
  /\ detecting' = IF detecting = c THEN None ELSE detecting

\* Over a connection that lives, the finally releases the lock, and a FETCH loop ends.
Fails(c) ==
  /\ Throws(c)
  /\ holder' = IF holder = c /\ Released(c) THEN None ELSE holder
  /\ fetching' = IF fetching = c THEN None ELSE fetching
  /\ UNCHANGED <<up, gen, box, hung>>

\* The handler's last part: audit, then reply.
Answer(c) ==
  /\ todo[c] = <<>> /\ reply[c] = None
  /\ reply' = [reply EXCEPT ![c] = "ok"]
  /\ audited' = IF Audits(c) /\ ~request[c].dry THEN audited \cup {c} ELSE audited
  /\ UNCHANGED <<serverVars, keptVars, todo, detecting, knows, touched, fate>>

\* A step that throws by itself: an invalid argument, a used-up send rate, a label
\* strategy that has no such operation.
Refuse(c) ==
  /\ At(c, {"refuse", "rate"})
  /\ Fails(c)
  /\ UNCHANGED <<worldVars, waiting, faults, keptVars, knows, touched, fate>>

CheckRateLimit(c) ==
  /\ At(c, {"rate"})
  /\ GoesOn(c)
  /\ UNCHANGED <<serverVars, keptVars, knows, touched, fate>>

\* getImapClient: the connection there is, or a new one.
GetImapClient(c) ==
  /\ At(c, {"client"})
  /\ GoesOn(c)
  /\ up' = TRUE
  /\ gen' = IF up THEN gen ELSE gen + 1
  /\ mine' = [mine EXCEPT ![c] = gen']
  /\ UNCHANGED <<worldVars, holder, box, waiting, fetching, hung, faults, site, request, strategy,
                 meant, side, knows, touched, fate>>

ConnectFails(c) ==
  /\ At(c, {"client"}) /\ ~up /\ faults < MaxFaults
  /\ faults' = faults + 1
  /\ Fails(c)
  /\ UNCHANGED <<worldVars, waiting, keptVars, knows, touched, fate>>

\* getLabelStrategy: the one that is known, the detection under way, or a new one.
GetStrategy(c) ==
  /\ \/ At(c, {"strategy", "sharing"}) /\ strategy /\ GoesOn(c)
     \/ /\ At(c, {"strategy"}) /\ ~strategy
        /\ detecting' = IF detecting = None THEN c ELSE detecting
        /\ todo' = [todo EXCEPT ![c] =
                      (IF detecting = None THEN DetectLabelStrategy ELSE Do("sharing")) \o Tail(@)]
        /\ UNCHANGED <<reply, audited>>
  /\ UNCHANGED <<serverVars, keptVars, knows, touched, fate>>

Detected(c) ==
  /\ At(c, {"detected"})
  /\ strategy' = TRUE
  /\ detecting' = None
  /\ todo' = [todo EXCEPT ![c] = Tail(@)]
  /\ UNCHANGED <<serverVars, site, request, mine, meant, side, reply, audited, knows, touched,
                 fate>>

----------------------------------------------------------------------------
(* lockMailbox                                                             *)

AskForLock(c) ==
  /\ At(c, {"lock"}) /\ Live(c) /\ c \notin Range(waiting)
  /\ waiting' = Append(waiting, c)
  /\ UNCHANGED <<worldVars, up, gen, holder, box, fetching, hung, faults, callVars, keptVars,
                 knows, touched, fate>>

\* The first in line gets it, and its mailbox is opened.
GetLock(c) ==
  /\ waiting # <<>> /\ Head(waiting) = c /\ holder = None /\ hung = None
  /\ waiting' = Tail(waiting)
  /\ IF Step(c).in \in exists \ Unopenable
     THEN holder' = c /\ box' = Step(c).in /\ GoesOn(c) /\ UNCHANGED <<up, gen, fetching, hung>>
     ELSE Fails(c)
  /\ UNCHANGED <<worldVars, faults, keptVars, knows, touched, fate>>

\* The holder makes no progress: its command is not answered, it issued one in its own
\* FETCH loop, or it ended without a release.
Stuck ==
  \/ hung # None
  \/ holder # None /\ (todo[holder] = <<>> \/ (fetching = holder /\ ~At(holder, {"close"})))

\* acquireTimeout: the caller gets the error that the mailbox stayed busy.
LockTimeout(c) ==
  /\ Stuck
  /\ \E i \in DOMAIN waiting : waiting[i] = c /\ waiting' = RemoveAt(waiting, i)
  /\ Fails(c)
  /\ fate' = [fate EXCEPT ![c] = @ \cup {"busy"}]
  /\ UNCHANGED <<worldVars, faults, keptVars, knows, touched>>

Release(c) ==
  /\ At(c, {"release"})
  /\ holder' = IF holder = c THEN None ELSE holder
  /\ GoesOn(c)
  /\ UNCHANGED <<worldVars, up, gen, box, waiting, fetching, hung, faults, keptVars, knows,
                 touched, fate>>

----------------------------------------------------------------------------
(* Commands.  One runs at a time, and none while a FETCH iterator is open. *)

Reads == {"look", "scan", "fetch", "search", "list", "real", "removable", "spread", "open"}
Changes == {"move", "delete", "discard", "mark", "copy", "deleteCopies", "createMissing",
            "append", "create", "rename", "remove"}
Commands == Reads \cup Changes

Runs(c, ops) == At(c, ops) /\ Live(c) /\ hung = None /\ fetching = None

\* The messages that the ids of c name in the mailbox that is open.
Here(c) == {m \in mail[box] : m.uid \in request[c].ids}
Copies(c) == {m \in mail[box] : m.msg = knows[c].read}
Of(msgs) == {m.msg : m \in msgs}
Touches(c, msgs) == touched' = [touched EXCEPT ![c] = @ \cup Of(msgs)]

Ends(c) == GoesOn(c) /\ UNCHANGED <<linkVars, faults, others, taken, keptVars>>
ReadOk(c) == Ends(c) /\ NoChange /\ UNCHANGED fate

Look(c) ==
  /\ Runs(c, {"look"})
  /\ ReadOk(c) /\ UNCHANGED <<knows, touched>>

\* A SEARCH for a listing: what is refused reads like an empty folder.
ScanFinds(c) ==
  /\ Runs(c, {"scan"}) /\ mail[box] # {}
  /\ ReadOk(c) /\ UNCHANGED <<knows, touched>>

ScanEmpty(c) ==
  /\ Runs(c, {"scan"})
  /\ \/ mail[box] = {} /\ UNCHANGED faults
     \/ faults < MaxFaults /\ faults' = faults + 1
  /\ todo' = [todo EXCEPT ![c] = Do("release")]
  /\ NoChange
  /\ UNCHANGED <<linkVars, others, taken, reply, audited, detecting, keptVars, knows, touched,
                 fate>>

\* A FETCH by id, of the message or of its Message-ID.
Fetch(c) ==
  /\ Runs(c, {"fetch"}) /\ Here(c) # {}
  /\ knows' = [knows EXCEPT ![c].read = (CHOOSE m \in Here(c) : TRUE).msg]
  /\ Touches(c, Here(c))
  /\ ReadOk(c)

OpenFetch(c) ==
  /\ Runs(c, {"open"})
  /\ fetching' = c
  /\ GoesOn(c) /\ NoChange
  /\ UNCHANGED <<up, gen, holder, box, waiting, hung, faults, others, taken, keptVars, knows,
                 touched, fate>>

CloseFetch(c) ==
  /\ At(c, {"close"}) /\ fetching = c
  /\ fetching' = None
  /\ GoesOn(c) /\ NoChange
  /\ UNCHANGED <<up, gen, holder, box, waiting, hung, faults, others, taken, keptVars, knows,
                 touched, fate>>

ListFolders(c) ==
  /\ Runs(c, {"list"})
  /\ knows' = [knows EXCEPT ![c].listed = exists]
  /\ ReadOk(c) /\ UNCHANGED touched

\* assertRealMailbox, assertMailboxRemovable
FolderAllowed(c) ==
  /\ \/ Runs(c, {"real"}) /\ Step(c).in \notin exists \cap Virtual
     \/ Runs(c, {"removable"}) /\ Step(c).in \notin SpecialUse \cup {"INBOX"}
  /\ ReadOk(c) /\ UNCHANGED <<knows, touched>>

\* findEmailFolder lists the folders and searches the real ones in turn.
SpreadSearch(c) ==
  /\ Runs(c, {"spread"})
  /\ todo' = [todo EXCEPT ![c] = SearchEach(exists \ Virtual) \o Tail(@)]
  /\ NoChange
  /\ UNCHANGED <<linkVars, faults, others, taken, reply, audited, detecting, keptVars, knows,
                 touched, fate>>

SearchFolder(c) ==
  /\ Runs(c, {"search"})
  /\ knows' = [knows EXCEPT ![c].found = IF Copies(c) # {} THEN @ \cup {box} ELSE @]
  /\ ReadOk(c) /\ UNCHANGED touched

----------------------------------------------------------------------------
(* Commands that change something: done, and answered or cut off           *)

Done(c, marks) ==
  /\ \/ /\ GoesOn(c)
        /\ fate' = [fate EXCEPT ![c] = @ \cup marks]
        /\ UNCHANGED <<linkVars, faults>>
     \/ /\ faults < MaxFaults /\ faults' = faults + 1
        /\ LinkDown /\ Throws(c)
        /\ fate' = [fate EXCEPT ![c] = @ \cup (marks \ {"removed"}) \cup {"lost"}]
  /\ UNCHANGED <<others, taken, keptVars, knows>>

DoneBy(c, msgs) == Touches(c, msgs) /\ Done(c, IF msgs = {} THEN {} ELSE {"changed"})

MoveMessages(c) ==
  /\ Runs(c, {"move"}) /\ Step(c).to \in exists
  /\ Move(Here(c), box, Step(c).to)
  /\ DoneBy(c, Here(c))

DeleteMessages(c) ==
  /\ Runs(c, {"delete", "discard"})
  /\ Expunge(Here(c), box)
  /\ Touches(c, Here(c))
  /\ Done(c, {"changed"} \cup (IF At(c, {"discard"}) THEN {"removed"} ELSE {}))

\* A store of flags, keywords or Gmail labels.
MarkMessages(c) ==
  /\ Runs(c, {"mark"})
  /\ Mark(Here(c), box)
  /\ DoneBy(c, Here(c))

CopyMessages(c) ==
  /\ Runs(c, {"copy"}) /\ Step(c).to \in exists
  /\ Copy(Here(c), Step(c).to)
  /\ DoneBy(c, Here(c))

DeleteCopies(c) ==
  /\ Runs(c, {"deleteCopies"}) /\ Copies(c) # {}
  /\ Expunge(Copies(c), box)
  /\ DoneBy(c, Copies(c))

\* The LIST showed the folder; or creating it fails and a new LIST shows it.
Present(c) == Step(c).in \in knows[c].listed \cup exists

CreateMissingMailbox(c) ==
  /\ Runs(c, {"createMissing"})
  /\ IF Present(c) THEN NoChange ELSE Step(c).in \notin exists /\ CreateFolder(Step(c).in)
  /\ UNCHANGED touched
  /\ Done(c, {})

AppendMessage(c) ==
  /\ Runs(c, {"append"}) /\ Step(c).in \in exists
  /\ Append1(c, Step(c).in)
  /\ UNCHANGED touched
  /\ Done(c, {"changed"})

MailboxCreate(c) ==
  /\ Runs(c, {"create"})
  /\ IF Step(c).in \in exists THEN NoChange ELSE CreateFolder(Step(c).in)
  /\ UNCHANGED touched
  /\ Done(c, {"changed"})

MailboxRename(c) ==
  /\ Runs(c, {"rename"}) /\ Step(c).in \in exists /\ Step(c).to \notin exists
  /\ RenameFolder(Step(c).in, Step(c).to)
  /\ UNCHANGED touched
  /\ Done(c, {"changed"})

MailboxDelete(c) ==
  /\ Runs(c, {"remove"}) /\ Step(c).in \in exists
  /\ DeleteFolder(Step(c).in)
  /\ UNCHANGED touched
  /\ Done(c, {"changed"})

----------------------------------------------------------------------------
(* What fails                                                              *)

\* What the server, or a check of the code, must refuse as things stand.
Impossible(c) ==
  CASE Step(c).do = "fetch" -> Here(c) = {}
    [] Step(c).do = "deleteCopies" -> Copies(c) = {}
    [] Step(c).do = "real" -> Step(c).in \in exists \cap Virtual
    [] Step(c).do = "removable" -> Step(c).in \in SpecialUse \cup {"INBOX"}
    [] Step(c).do \in {"move", "copy"} -> Step(c).to \notin exists
    [] Step(c).do \in {"append", "remove"} -> Step(c).in \notin exists
    [] Step(c).do = "createMissing" -> Step(c).in \in exists /\ ~Present(c)
    [] Step(c).do = "rename" -> Step(c).in \notin exists \/ Step(c).to \in exists
    [] OTHER -> FALSE

\* A refused command throws, or gives a false that the code turns into a throw.
Rejected(c) ==
  /\ Runs(c, Commands \ {"scan", "discard"})
  /\ \/ Impossible(c) /\ UNCHANGED faults
     \/ faults < MaxFaults /\ faults' = faults + 1
  /\ ~(At(c, {"createMissing"}) /\ Present(c))
  /\ Fails(c)
  /\ fate' = [fate EXCEPT ![c] = @ \cup {"refused"}]
  /\ UNCHANGED <<worldVars, waiting, keptVars, knows, touched>>

\* deleteDraft does not look at the answer.
DraftKept(c) ==
  /\ Runs(c, {"discard"}) /\ faults < MaxFaults
  /\ faults' = faults + 1
  /\ fate' = [fate EXCEPT ![c] = @ \cup {"removed"}]
  /\ GoesOn(c) /\ NoChange
  /\ UNCHANGED <<linkVars, others, taken, keptVars, knows, touched>>

\* The server never answers.
Hangs(c) ==
  /\ Runs(c, Commands) /\ faults < MaxFaults
  /\ faults' = faults + 1
  /\ hung' = c
  /\ fate' = [fate EXCEPT ![c] = @ \cup {"hung"}]
  /\ UNCHANGED <<worldVars, up, gen, holder, box, waiting, fetching, callVars, keptVars, knows,
                 touched>>

\* A command of a connection that is gone.
NoConnection(c) ==
  /\ At(c, Commands \cup {"lock", "close"}) /\ ~Live(c)
  /\ Fails(c)
  /\ UNCHANGED <<worldVars, waiting, faults, keptVars, knows, touched, fate>>

----------------------------------------------------------------------------
(* SMTP, over a connection of its own                                      *)

Deliver(c) ==
  /\ At(c, {"smtp"})
  /\ fate' = [fate EXCEPT ![c] = @ \cup {"delivered"}]
  /\ GoesOn(c)
  /\ UNCHANGED <<serverVars, keptVars, knows, touched>>

\* The server refuses the mail, or takes it and the answer is lost.
SendFails(c) ==
  /\ At(c, {"smtp"}) /\ faults < MaxFaults
  /\ faults' = faults + 1
  /\ \E marks \in {{}, {"delivered", "unheard"}} : fate' = [fate EXCEPT ![c] = @ \cup marks]
  /\ Fails(c)
  /\ UNCHANGED <<worldVars, waiting, keptVars, knows, touched>>

----------------------------------------------------------------------------
(* Beside the mail account: the desktop, a file, the Sieve server          *)

Elsewhere == {"ask", "readState", "readFile", "template", "sieveOpen", "listScripts", "getScript",
              "lstat", "openNew", "writeFile", "putScript", "deleteScript", "setActive"}
Aside(c) == UNCHANGED <<serverVars, fixedVars, knows, touched>>
Script(c) == Step(c).in

\* What must fail: a path that is taken (also by a save that came first), a script that
\* is not there, the deletion of the active one.
Barred(c) ==
  CASE At(c, {"lstat", "openNew"}) -> side.file.by # None
    [] At(c, {"getScript"}) -> Script(c) \notin side.scripts
    [] At(c, {"deleteScript"}) -> Script(c) \notin side.scripts \/ Script(c) = side.active
    [] At(c, {"setActive"}) -> Script(c) \notin side.scripts \cup {None}
    [] OTHER -> FALSE

ReadElsewhere(c) ==
  /\ At(c, {"ask", "readState", "readFile", "template", "sieveOpen", "listScripts", "getScript",
            "lstat"})
  /\ ~Barred(c)
  /\ GoesOn(c) /\ Aside(c)
  /\ UNCHANGED <<side, fate>>

\* An osascript run, a file operation, a login or a Sieve command fails.
FailsElsewhere(c) ==
  /\ At(c, Elsewhere)
  /\ \/ Barred(c) /\ UNCHANGED faults
     \/ faults < MaxFaults /\ faults' = faults + 1
  /\ Fails(c)
  /\ fate' = [fate EXCEPT ![c] = @ \cup {"refused"}]
  /\ UNCHANGED <<worldVars, waiting, keptVars, knows, touched>>

SaveFile(c) ==
  /\ \/ At(c, {"openNew"}) /\ ~Barred(c) /\ side' = [side EXCEPT !.file.by = c]
     \/ At(c, {"writeFile"}) /\ side' = [side EXCEPT !.file.whole = TRUE]
  /\ fate' = [fate EXCEPT ![c] = @ \cup {"changed"}]
  /\ GoesOn(c) /\ Aside(c)

\* The server does the command, and its answer comes, or the connection or the deadline
\* of the answer ends first.
ChangeScripts(c) ==
  /\ At(c, {"putScript", "deleteScript", "setActive"}) /\ ~Barred(c)
  /\ side' = CASE At(c, {"putScript"}) -> [side EXCEPT !.scripts = @ \cup {Script(c)}]
               [] At(c, {"deleteScript"}) -> [side EXCEPT !.scripts = @ \ {Script(c)}]
               [] At(c, {"setActive"}) -> [side EXCEPT !.active = Script(c)]
  /\ \/ GoesOn(c) /\ fate' = [fate EXCEPT ![c] = @ \cup {"changed"}] /\ UNCHANGED faults
     \/ /\ faults < MaxFaults /\ faults' = faults + 1
        /\ Throws(c)
        /\ fate' = [fate EXCEPT ![c] = @ \cup {"changed", "lost"}]
  /\ UNCHANGED <<worldVars, linkVars, fixedVars, knows, touched>>

\* The write of a scheduling tool ends with a status, and so does the tool.
Ended(c, status) ==
  /\ side' = [side EXCEPT !.status[c] = status,
                          !.added = IF status = "added" THEN @ \cup {c} ELSE @]
  /\ fate' = [fate EXCEPT ![c] = IF status = "added" THEN @ \cup {"changed"} ELSE @]
  /\ UNCHANGED faults

\* osascript or xdg-open fails or is killed at its timeout, perhaps after it wrote.
EndedUnheard(c, wrote) ==
  /\ faults < MaxFaults /\ faults' = faults + 1
  /\ side' = [side EXCEPT !.status[c] = "no_display",
                          !.added = IF wrote THEN @ \cup {c} ELSE @]
  /\ fate' = [fate EXCEPT ![c] = IF wrote THEN @ \cup {"changed", "lost"} ELSE @]

Closes(c) == todo' = [todo EXCEPT ![c] = <<>>] /\ UNCHANGED <<reply, audited, detecting>>
Apart(c) == UNCHANGED <<worldVars, linkVars, fixedVars, knows, touched>>

\* The same event: another call put it there.
Existing(c) == {d \in side.added : request[d].tool = "add_to_calendar" /\ meant[d] = meant[c]}

FindExistingEvent(c) ==
  /\ At(c, {"findEvent"})
  /\ \/ Existing(c) = {} /\ GoesOn(c) /\ UNCHANGED <<side, fate, faults>>
     \/ Existing(c) # {} /\ Closes(c) /\ Ended(c, "duplicate")
     \/ Closes(c) /\ EndedUnheard(c, FALSE)
  /\ Apart(c)

\* The user answers the dialog, or lets it time out; then the app writes.
WriteToApp(c) ==
  /\ At(c, {"addEvent", "addReminder"})
  /\ \/ \E status \in {"added", "cancelled", "timed_out"} : Ended(c, status)
     \/ \E wrote \in BOOLEAN : EndedUnheard(c, wrote)
  /\ Closes(c) /\ Apart(c)

\* addEventLinux hands a file to the desktop; there is no Reminders.app.
WriteOffMac(c) ==
  /\ \/ /\ At(c, {"openIcs"})
        /\ \/ Closes(c) /\ Ended(c, "added")
           \/ \E wrote \in BOOLEAN : Closes(c) /\ EndedUnheard(c, wrote)
           \/ /\ faults < MaxFaults /\ faults' = faults + 1
              /\ Throws(c) /\ UNCHANGED <<side, fate>>
     \/ At(c, {"noApp"}) /\ Closes(c) /\ Ended(c, "no_display")
  /\ Apart(c)

----------------------------------------------------------------------------

Nothing == [listed |-> {}, read |-> None, found |-> {}]

\* The tools that are registered are called, with folders that are there.
Init ==
  /\ \E case \in Cases :
       /\ site = case.site /\ mail = case.mail /\ exists = case.exists /\ request = case.request
       /\ others = case.others
  /\ \A c \in Calls : Registered(request[c].tool) /\ request[c].in \in exists
  /\ next = [f \in Folders |-> 1 + Cardinality(mail[f])]
  /\ up = FALSE /\ gen = 0 /\ holder = None /\ box = None
  /\ waiting = <<>> /\ fetching = None /\ hung = None
  /\ faults = 0 /\ reborn = {} /\ taken = {}
  /\ todo = [c \in Calls |-> Program(request[c])]
  /\ reply = [c \in Calls |-> None]
  /\ mine = [c \in Calls |-> 0]
  /\ strategy = FALSE /\ detecting = None
  /\ knows = [c \in Calls |-> Nothing]
  /\ side = [added |-> {}, status |-> [c \in Calls |-> None],
             file |-> [by |-> None, whole |-> FALSE],
             scripts |-> {"old"}, active |-> "old"]
  /\ meant = [c \in Calls |-> Of({m \in mail[request[c].in] : m.uid \in request[c].ids})]
  /\ touched = [c \in Calls |-> {}]
  /\ audited = {}
  /\ fate = [c \in Calls |-> {}]

Goes(c) ==
  \/ Answer(c) \/ Refuse(c) \/ CheckRateLimit(c) \/ GetImapClient(c) \/ ConnectFails(c)
  \/ GetStrategy(c) \/ Detected(c)
  \/ AskForLock(c) \/ GetLock(c) \/ LockTimeout(c) \/ Release(c)
  \/ Look(c) \/ ScanFinds(c) \/ ScanEmpty(c) \/ Fetch(c) \/ OpenFetch(c) \/ CloseFetch(c)
  \/ ListFolders(c) \/ FolderAllowed(c) \/ SpreadSearch(c) \/ SearchFolder(c)
  \/ MoveMessages(c) \/ DeleteMessages(c) \/ MarkMessages(c) \/ CopyMessages(c) \/ DeleteCopies(c)
  \/ CreateMissingMailbox(c) \/ AppendMessage(c) \/ MailboxCreate(c) \/ MailboxRename(c)
  \/ MailboxDelete(c) \/ Rejected(c) \/ DraftKept(c) \/ Hangs(c) \/ NoConnection(c)
  \/ Deliver(c) \/ SendFails(c)
  \/ ReadElsewhere(c) \/ FailsElsewhere(c) \/ SaveFile(c) \/ ChangeScripts(c)
  \/ FindExistingEvent(c) \/ WriteToApp(c) \/ WriteOffMac(c)

Outside == (OtherClient \/ Drop) /\ UNCHANGED <<callVars, keptVars, knows, touched, fate>>

Next == Outside \/ \E c \in Calls : Goes(c)

Spec == Init /\ [][Next]_vars

----------------------------------------------------------------------------
(* Properties                                                              *)

\* The variables hold what the actions mean them to hold.
MailTypeOK ==
  /\ \A f \in Folders : mail[f] \subseteq [uid : Nat, msg : Messages \cup Calls, mark : BOOLEAN]
  /\ exists \subseteq Folders /\ reborn \subseteq Folders /\ taken \subseteq Messages \cup Calls
  /\ next \in [Folders -> Nat]
  /\ up \in BOOLEAN /\ gen \in Nat /\ mine \in [Calls -> Nat]
  /\ {holder, fetching, hung, detecting} \subseteq Calls \cup {None}
  /\ box \in Folders \cup {None}
  /\ IsInjective(waiting) /\ holder \notin Range(waiting)
  /\ fetching \in {None, holder}
  /\ reply \in [Calls -> {None, "ok", "error"}]
  /\ fate \in [Calls -> SUBSET Fates]
  /\ side.added \subseteq Calls /\ side.active \in {None, "old", "new"}
  /\ side.active \in side.scripts \cup {None}
  /\ side.file.whole => side.file.by # None

\* What c was asked to do may take m away: a permanent delete, a draft that has been sent,
\* the removal of a folder or a label, and the filing of messages in a view.
AskedFor(c, m) ==
  /\ "changed" \in fate[c]
  /\ LET r == request[c]
     IN  \/ r.tool = "delete_email" /\ r.permanent /\ m \in touched[c]
         \/ r.tool = "send_draft" /\ "delivered" \in fate[c] /\ m \in touched[c]
         \/ r.tool \in {"delete_mailbox", "delete_label"}
         \/ r.tool \in {"move_email", "bulk_action", "rename_mailbox"} /\ r.to \in Views

\* A message leaves the folders of the account only by a call that was asked for it or by
\* another client, whatever fails, hangs or runs at the same time: no move, copy or clean-up
\* of a label loses one, and no draft goes that was not sent.
LostOnlyAsAsked ==
  \A m \in Messages :
    \/ m \in taken \cup UNION {Of(mail[f]) : f \in exists \ Views}
    \/ \E c \in Calls : AskedFor(c, m)

\* A call acts on the messages that its caller was shown under the UIDs it names: no other
\* call opens another mailbox between its lock and its command.  Only a folder that was
\* deleted or made anew in between (the code checks no UIDVALIDITY) can break that.
ActsOnMeant ==
  \A c \in Calls : touched[c] \subseteq meant[c] \/ request[c].in \in reborn

\* A tool that does one thing says ok only if the server took it, and an error only if
\* nothing was changed, unless the answer was lost.
OneThing == {"move_email", "delete_email", "mark_email", "add_label", "create_label",
             "delete_label", "create_mailbox", "rename_mailbox", "delete_mailbox",
             "sieve_put_script", "sieve_delete_script", "sieve_activate_script"}
OneThingIsTrue ==
  \A c \in Calls : request[c].tool \in OneThing =>
    /\ reply[c] = "ok" => "refused" \notin fate[c]
    /\ reply[c] = "error" /\ "changed" \in fate[c] => "lost" \in fate[c]

\* An error of a send means that the mail did not go out, unless the SMTP server's own
\* answer was lost: what fails after a delivery is reported in an answer that says "sent"
\* (SendResult: savedToSent, draftDeleted), or the caller would send it again.
SentIsOk ==
  \A c \in Calls : reply[c] = "error" /\ "delivered" \in fate[c] => "unheard" \in fate[c]

\* docs/tools.md:204-206: a missing Drafts folder is created, and one that another writer
\* created in the meantime is no error.
DraftSaved ==
  \A c \in Calls :
    request[c].tool = "save_draft" /\ faults = 0 /\ reborn = {} => reply[c] # "error"

\* A scheduling tool that says added has added, and one that says anything else, or fails,
\* has not, unless the app's answer was lost.  (Two calls that both found no event before
\* either added one do add it twice.)
SchedulingIsTrue ==
  \A c \in Calls : request[c].tool \in Scheduling /\ reply[c] # None =>
    IF side.status[c] = "added" THEN reply[c] = "ok" /\ c \in side.added
    ELSE c \in side.added => "lost" \in fate[c] /\ side.status[c] = "no_display"

\* docs/tools.md: savePath names a file that is not there yet; who is told that it saved
\* has written the whole file, also when another call saves to the same path.
SavedIsWhole ==
  \A c \in Calls :
    request[c].save /\ reply[c] = "ok" => side.file = [by |-> c, whole |-> TRUE]

\* What a caller is told is true, whatever fails, hangs or runs at the same time.
AnswerIsTrue == OneThingIsTrue /\ SentIsOk /\ DraftSaved /\ SchedulingIsTrue /\ SavedIsWhole

\* While nothing changes and nothing fails, find_email_folder names the folders that hold
\* the message, all of them and no other, even with a folder that cannot be opened.
FindsWhatStays ==
  \A c \in Calls :
    /\ request[c].tool = "find_email_folder" /\ reply[c] # None /\ knows[c].read # None
    /\ faults = 0 /\ \E case \in Cases : mail = case.mail /\ exists = case.exists
    => /\ reply[c] = "ok"
       /\ knows[c].found = {f \in exists \ (Virtual \cup Unopenable) :
                              knows[c].read \in Of(mail[f])}

\* A tool that changed the account, an app, a file or a script, or sent mail, left an audit
\* entry, also when it failed half-way.  Not so the flag of get_email with markRead, nor an
\* apply_template that fails: see EveryChangeAudited.
ChangesAreAudited ==
  \A c \in Calls :
    /\ reply[c] # None /\ fate[c] \cap {"changed", "delivered"} # {}
    /\ request[c].tool # "get_email" /\ ~(request[c].tool = "apply_template" /\ reply[c] = "error")
    => c \in audited

\* src/src/safety/audit.ts:2: the audit log is kept for all write operations.
EveryChangeAudited ==
  \A c \in Calls :
    reply[c] # None /\ fate[c] \cap {"changed", "delivered"} # {} => c \in audited

\* With settings.readOnly nothing reaches the account, the desktop or the disk.
ReadOnlyServer ==
  site.readOnly => \A c \in Calls : fate[c] \cap {"changed", "delivered"} = {}

\* Nothing is changed unseen: not at all where the server is read-only, and otherwise not
\* by a write tool without an audit entry.
AuditCoversChanges == ReadOnlyServer /\ ChangesAreAudited

\* docs/tools.md:209: when the removal of a sent draft fails, the result says that the
\* draft is still in Drafts.
RemovedDraftIsGone ==
  \A c \in Calls :
    reply[c] = "ok" /\ "removed" \in fate[c] =>
      \A m \in mail[request[c].in] : m.uid \notin request[c].ids

\* Never is everyone stuck: while a call is unanswered some call can go on, and the callers
\* behind a command that hangs still get out of the line for the lock (mailbox-lock.ts).  A
\* call has finitely many steps, so each call is answered unless a command hangs for ever.
SomeGoesOn ==
  (\E c \in Calls : reply[c] = None) /\ (hung # None => waiting # <<>>)
  => \E c \in Calls : ENABLED Goes(c)

\* A caller is told that the mailbox stayed busy only when some command went unanswered:
\* no path through a lock leaves it held, and no method starts a command in its own FETCH.
BusyOnlyIfHung ==
  \A c \in Calls : "busy" \in fate[c] => \E d \in Calls : "hung" \in fate[d]

\* Callers get through: everyone as long as the server answers, and no one waits for ever
\* behind a command that it does not.
NoneStuck == SomeGoesOn /\ BusyOnlyIfHung
=============================================================================
