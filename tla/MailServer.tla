------------------------------ MODULE MailServer ------------------------------
(***************************************************************************)
(* One account's mail server and the connection to it, as the code under   *)
(* src uses them (imapflow and the server are external), with the bounded  *)
(* lock of src/src/services/mailbox-lock.ts.                               *)
(*                                                                         *)
(* imapflow runs one command at a time, hands out mailbox locks in the     *)
(* order they were asked for, and runs a command in the mailbox that is    *)
(* open, whoever opened it.                                                *)
(***************************************************************************)
EXTENDS Integers, Sequences, FiniteSets, SequencesExt

CONSTANTS
  Calls,      \* tool calls
  Messages,   \* messages, told apart by their Message-ID
  None,
  Unopenable, \* folders that LIST shows and the server will not open
  MaxFaults   \* bound on refused, unanswered or lost commands and connections

ASSUME ServerConstants == MaxFaults \in Nat

VARIABLES
  mail,     \* mail[f]: the messages of folder f
  exists,   \* the folders there are
  next,     \* next[f]: UIDNEXT
  up,       \* is the current connection usable?
  gen,      \* how many connections there were
  holder,   \* the call that holds the mailbox lock
  box,      \* the mailbox that is open
  waiting,  \* the calls in line for the lock
  fetching, \* the call whose FETCH iterator is open
  hung,     \* the call whose command the server never answers
  faults,
  others,   \* how much other mail clients may still do
  reborn,   \* history: folders that were deleted or made anew
  taken     \* history: messages that another client removed

serverVars == <<mail, exists, next, up, gen, holder, box, waiting, fetching, hung,
                faults, others, reborn, taken>>
linkVars == <<up, gen, holder, box, waiting, fetching, hung>>

\* Folders by the names the code falls back to; a special use goes with the name.
Virtual == {"All"}
SpecialUse == {"Trash", "Drafts", "Sent"} \cup Virtual
Label == "Labels/x"
Folders == {"INBOX", "Work", "New", "Shared", Label} \cup SpecialUse

Filed(msgs, f) ==
  LET s == SetToSeq(msgs) IN {[s[i] EXCEPT !.uid = next[f] + i - 1] : i \in DOMAIN s}

\* How a command changes the folders.  A MOVE or COPY gives new UIDs.
Move(msgs, f, g) ==
  /\ mail' = [mail EXCEPT ![f] = @ \ msgs, ![g] = @ \cup Filed(msgs, g)]
  /\ next' = [next EXCEPT ![g] = @ + Cardinality(msgs)]
  /\ UNCHANGED <<exists, reborn>>

Copy(msgs, g) ==
  /\ mail' = [mail EXCEPT ![g] = @ \cup Filed(msgs, g)]
  /\ next' = [next EXCEPT ![g] = @ + Cardinality(msgs)]
  /\ UNCHANGED <<exists, reborn>>

Expunge(msgs, f) ==
  /\ mail' = [mail EXCEPT ![f] = @ \ msgs]
  /\ UNCHANGED <<exists, next, reborn>>

Mark(msgs, f) ==
  /\ mail' = [mail EXCEPT ![f] = (@ \ msgs) \cup {[m EXCEPT !.mark = TRUE] : m \in msgs}]
  /\ UNCHANGED <<exists, next, reborn>>

Append1(msg, f) == Copy({[uid |-> 0, msg |-> msg, mark |-> FALSE]}, f)

CreateFolder(f) ==
  /\ exists' = exists \cup {f}
  /\ next' = [next EXCEPT ![f] = 1]
  /\ UNCHANGED <<mail, reborn>>

DeleteFolder(f) ==
  /\ exists' = exists \ {f}
  /\ mail' = [mail EXCEPT ![f] = {}]
  /\ reborn' = reborn \cup {f}
  /\ UNCHANGED next

RenameFolder(f, g) ==
  /\ exists' = (exists \ {f}) \cup {g}
  /\ mail' = [mail EXCEPT ![f] = {}, ![g] = mail[f]]
  /\ next' = [next EXCEPT ![g] = next[f]]
  /\ reborn' = reborn \cup {f, g}

NoChange == UNCHANGED <<mail, exists, next, reborn>>

\* Another mail client of the account: it files or deletes a message, or makes a
\* folder, perhaps one that was there before.
OtherClient ==
  /\ others > 0
  /\ others' = others - 1
  /\ \/ \E f, g \in {"INBOX", "Work"} \cap exists : \E m \in mail[f] :
          f # g /\ Move({m}, f, g) /\ UNCHANGED taken
     \/ \E f \in {"INBOX", "Drafts"} : \E m \in mail[f] :
          Expunge({m}, f) /\ taken' = taken \cup {m.msg}
     \/ \E f \in {"Drafts", "Sent", "Work", "New"} \ exists :
          CreateFolder(f) /\ UNCHANGED taken
  /\ UNCHANGED <<linkVars, faults>>

\* The socket closes: every lock of the client goes with it.
LinkDown ==
  /\ up' = FALSE
  /\ holder' = None /\ waiting' = <<>> /\ fetching' = None /\ hung' = None /\ box' = None
  /\ UNCHANGED gen

\* The link drops; or imapflow gives up on a command after its socket timeout.
Drop ==
  /\ up
  /\ \/ faults < MaxFaults /\ faults' = faults + 1
     \/ hung # None /\ UNCHANGED faults
  /\ LinkDown
  /\ UNCHANGED <<mail, exists, next, reborn, others, taken>>
=============================================================================
