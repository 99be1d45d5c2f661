------------------------------ MODULE Watcher ------------------------------
(***************************************************************************)
(* The IMAP IDLE watcher of one folder: src/src/services/watcher.service.ts*)
(* (folders share no state; the retry delays are backoff.ts).              *)
(*                                                                         *)
(* start() makes a new IdleState under the folder's key and stop() clears  *)
(* the map, but calls that were running keep the IdleState they captured   *)
(* and write to the one under the key.  So every IdleState has a number,   *)
(* its run, and current is the one in the map.  A client is an ImapFlow    *)
(* object together with the connectIdle call that makes it.                *)
(*                                                                         *)
(* Assumed of the surroundings: a call whose connection is closed, and the *)
(* log line it then awaits, end within a reconnect delay (FailsInTime).    *)
(***************************************************************************)
EXTENDS Naturals, FiniteSets, FiniteSetsExt

CONSTANTS
  Clients,     \* connectIdle calls that may run at a time
  Fetches,     \* handleNewEmails calls that may run at a time
  NoClient,    \* client: null
  MaxUid,      \* bound on the UIDs the server assigns
  MaxEpoch,    \* bound on the UIDVALIDITY values
  MaxRuns,     \* bound on calls of start()
  MaxDrops     \* bound on failed connects, lost connections and refused fetches

ASSUME WatcherConstants ==
  /\ NoClient \notin Clients
  /\ {MaxUid, MaxEpoch} \subseteq Nat \ {0} /\ {MaxRuns, MaxDrops} \subseteq Nat

VARIABLES
  \* The server.
  mail,      \* the UIDs in the folder
  uidNext,   \* the UID of the next message
  epoch,     \* UIDVALIDITY
  \* The watcher.
  idle,      \* idle[r]: the IdleState of run r
  current,   \* the run whose IdleState is in the map; 0 if none
  stopping,  \* is a stop() waiting for its logout?
  call,      \* call[c]: where the connectIdle of c is, and for which run
  conn,      \* conn[c]: the connection of c
  notice,    \* notice[c]: has an EXISTS arrived that c has not emitted yet?
  fetch,     \* fetch[f]: a handleNewEmails call
  drops,     \* how often a connection failed
  \* History.
  reported,  \* reported[e][u]: how often message u of epoch e was emitted
  missed,    \* was a fetch refused on an open connection since the last began?
  base       \* lastSeenUid after the first select of the current run in its epoch

serverVars == <<mail, uidNext, epoch>>
watcherVars == <<serverVars, idle, current, stopping, call, conn, notice, fetch, drops,
                 reported, missed, base>>

Uids == 1..MaxUid
Runs == 1..MaxRuns
IdleState == [client : Clients \cup {NoClient}, lastSeenUid : 0..MaxUid,
              uidValidity : 0..MaxEpoch, timer : BOOLEAN, stopped : BOOLEAN]
NewIdle == [client |-> NoClient, lastSeenUid |-> 0, uidValidity |-> 0,
            timer |-> FALSE, stopped |-> FALSE]
CallSteps == {"none", "auth", "connect", "open", "logged", "logfail"}
NoFetch == [step |-> "none", run |-> 0, client |-> NoClient, found |-> {}]

WatcherInit ==
  /\ uidNext \in {1, 2} /\ mail = 1..(uidNext - 1)
  /\ epoch = 1
  /\ idle = [r \in Runs |-> NewIdle]
  /\ current = 0
  /\ stopping = FALSE
  /\ call = [c \in Clients |-> [step |-> "none", run |-> 0, behind |-> FALSE]]
  /\ conn = [c \in Clients |-> "closed"]
  /\ notice = [c \in Clients |-> FALSE]
  /\ fetch = [f \in Fetches |-> NoFetch]
  /\ drops = 0
  /\ reported = [e \in 1..MaxEpoch |-> [u \in Uids |-> 0]]
  /\ missed = FALSE
  /\ base = 0

\* idleStates.get(key) is there; what updateState and the timer act on.
Watching == current # 0
CallAt(c, step) == call' = [call EXCEPT ![c].step = step]

\* scheduleReconnect on the IdleState s: at most one timer.
WithRetry(s) == IF s.stopped THEN s ELSE [s EXCEPT !.timer = TRUE]

\* forgetClient: a close event of a client that is still the state's own.
Forget(c, s) == IF s.client = c THEN WithRetry([s EXCEPT !.client = NoClient]) ELSE s

\* Close the connection of c; its close event reaches forgetClient at once.
Close(c) ==
  /\ conn' = [conn EXCEPT ![c] = "closed"]
  /\ notice' = [notice EXCEPT ![c] = FALSE]
  /\ idle' = [r \in Runs |-> IF r = current THEN Forget(c, idle[r]) ELSE idle[r]]

----------------------------------------------------------------------------
(* The server and the network (external)                                   *)

Selected(c) == conn[c] = "idling"

Deliver ==
  /\ uidNext <= MaxUid
  /\ mail' = mail \cup {uidNext}
  /\ uidNext' = uidNext + 1
  /\ notice' = [c \in Clients |-> notice[c] \/ Selected(c)]
  /\ UNCHANGED <<epoch, idle, current, stopping, call, conn, fetch, drops, reported, base, missed>>

Expunge(u) ==
  /\ u \in mail
  /\ mail' = mail \ {u}
  /\ UNCHANGED <<uidNext, epoch, idle, current, stopping, call, conn, notice, fetch, drops,
                 reported, base, missed>>

\* The server renumbers the folder, which nobody has open then.
Renumber ==
  /\ epoch < MaxEpoch
  /\ \A c \in Clients : ~Selected(c)
  /\ epoch' = epoch + 1
  /\ mail' = 1..Cardinality(mail)
  /\ uidNext' = Cardinality(mail) + 1
  /\ UNCHANGED <<idle, current, stopping, call, conn, notice, fetch, drops, reported, base,
                 missed>>

\* The socket fails or the server closes it.
Drop(c) ==
  /\ drops < MaxDrops
  /\ conn[c] # "closed"
  /\ drops' = drops + 1
  /\ Close(c)
  /\ UNCHANGED <<serverVars, current, stopping, call, fetch, reported, base, missed>>

----------------------------------------------------------------------------
(* connectIdle()                                                           *)

Unreferenced(c) ==
  /\ call[c].step = "none" /\ conn[c] = "closed"
  /\ \A f \in Fetches : fetch[f].client # c
  /\ \A r \in Runs : idle[r].client # c

\* A call whose connection is closed ends before a reconnect delay has passed:
\* imapflow rejects at once, and the log line is out in time.
Failing(c) ==
  \/ call[c].step = "logfail"
  \/ call[c].step \in {"connect", "open"} /\ conn[c] = "closed"
FailsInTime == \A c \in Clients : ~Failing(c)

\* The writer lease is not taken again within WRITER_LEASE_RENEW_MS, which is
\* longer than a token refresh may take.
CallsEnded == \A c \in Clients : call[c].step = "none"

Start(c) ==
  /\ ~Watching /\ CallsEnded
  /\ Unreferenced(c)
  /\ \E r \in Runs :
       /\ \A q \in 1..(r - 1) : idle[q].stopped
       /\ ~idle[r].stopped
       /\ current' = r
       /\ call' = [call EXCEPT ![c] = [step |-> "auth", run |-> r, behind |-> FALSE]]
  /\ UNCHANGED <<serverVars, idle, stopping, conn, notice, fetch, drops, reported, base, missed>>

\* The reconnect timer: connectIdle for the IdleState that is in the map now.
Retry(c) ==
  /\ Watching /\ idle[current].timer /\ FailsInTime
  /\ Unreferenced(c)
  /\ idle' = [idle EXCEPT ![current].timer = FALSE]
  /\ call' = [call EXCEPT ![c] = [step |-> "auth", run |-> current, behind |-> FALSE]]
  /\ UNCHANGED <<serverVars, current, stopping, conn, notice, fetch, drops, reported, base, missed>>

\* Mutant of Authenticated: stop() is not noticed after the token refresh.
AuthenticatedAnyway(c) ==
  /\ call[c].step = "auth"
  /\ CallAt(c, "connect")
  /\ conn' = [conn EXCEPT ![c] = "login"]
  /\ idle' = [r \in Runs |-> IF r = current THEN [idle[r] EXCEPT !.client = c] ELSE idle[r]]
  /\ UNCHANGED <<serverVars, current, stopping, notice, fetch, drops, reported, base, missed>>

\* buildImapAuth has its credentials.
Authenticated(c) ==
  /\ call[c].step = "auth"
  /\ IF idle[call[c].run].stopped
     THEN CallAt(c, "none") /\ UNCHANGED <<conn, idle>>
     ELSE /\ CallAt(c, "connect")
          /\ conn' = [conn EXCEPT ![c] = "login"]
          /\ idle' = [idle EXCEPT ![current].client = c]
  /\ UNCHANGED <<serverVars, current, stopping, notice, fetch, drops, reported, base, missed>>

AuthFails(c) ==
  /\ call[c].step = "auth"
  /\ drops < MaxDrops
  /\ drops' = drops + 1
  /\ CallAt(c, "logfail")
  /\ UNCHANGED <<serverVars, idle, current, stopping, conn, notice, fetch, reported, base, missed>>

LoggedIn(c) ==
  /\ call[c].step = "connect"
  /\ conn[c] = "login"
  /\ CallAt(c, "open")
  /\ conn' = [conn EXCEPT ![c] = "usable"]
  /\ UNCHANGED <<serverVars, idle, current, stopping, notice, fetch, drops, reported, base, missed>>

\* Mutant of ResumeAfter: start over at each reconnect.
ResumeAtNext(s) == uidNext - 1

\* A reconnect carries on after the last UID it reported, unless the server
\* renumbered.
ResumeAfter(s) == IF s.uidValidity = epoch THEN s.lastSeenUid ELSE uidNext - 1

\* mailboxOpen has resolved.  Later deliveries raise EXISTS on c.
Opened(c) ==
  LET r == call[c].run
      resume == ResumeAfter(idle[r])
  IN /\ call[c].step = "open"
     /\ conn[c] = "usable"
     /\ conn' = [conn EXCEPT ![c] = "idling"]
     /\ call' = [call EXCEPT ![c].step = "logged", ![c].behind = uidNext - 1 > resume]
     /\ idle' = [q \in Runs |->
                   IF q = current
                   THEN [idle[q] EXCEPT !.lastSeenUid = resume, !.uidValidity = epoch]
                   ELSE idle[q]]
     /\ base' = IF idle[r].uidValidity = epoch THEN base ELSE resume
     /\ UNCHANGED <<serverVars, current, stopping, notice, fetch, drops, reported, missed>>

\* connect() or mailboxOpen() rejects, also because the client was closed.
ConnectFails(c) ==
  /\ call[c].step \in {"connect", "open"}
  /\ IF conn[c] = "closed" THEN UNCHANGED drops ELSE drops < MaxDrops /\ drops' = drops + 1
  /\ CallAt(c, "logfail")
  /\ Close(c)
  /\ UNCHANGED <<serverVars, current, stopping, fetch, reported, base, missed>>

\* After its log line a failed connectIdle asks for a retry of whatever run is
\* in the map.
AskRetry(c) ==
  /\ call[c].step = "logfail"
  /\ CallAt(c, "none")
  /\ idle' = [r \in Runs |-> IF r = current THEN WithRetry(idle[r]) ELSE idle[r]]
  /\ UNCHANGED <<serverVars, current, stopping, conn, notice, fetch, drops, reported, base, missed>>

----------------------------------------------------------------------------
(* handleNewEmails()                                                       *)

\* It captures the IdleState in the map and that state's client.
Handle ==
  IF Watching /\ idle[current].client # NoClient
  THEN \E f \in Fetches :
         /\ fetch[f].step = "none"
         /\ fetch' = [fetch EXCEPT ![f] = [NoFetch EXCEPT !.step = "lock", !.run = current,
                                                          !.client = idle[current].client]]
         /\ missed' = FALSE
  ELSE UNCHANGED <<fetch, missed>>

\* Mutant of CatchUp: mail that came while the connection was down waits for
\* the next EXISTS.
CatchUpNever(c) ==
  /\ call[c].step = "logged"
  /\ CallAt(c, "none")
  /\ UNCHANGED <<fetch, missed>>
  /\ UNCHANGED <<serverVars, idle, current, stopping, conn, notice, drops, reported, base>>

\* Mail delivered while the connection was down raises no EXISTS on the new one.
CatchUp(c) ==
  /\ call[c].step = "logged"
  /\ CallAt(c, "none")
  /\ IF call[c].behind THEN Handle ELSE UNCHANGED <<fetch, missed>>
  /\ UNCHANGED <<serverVars, idle, current, stopping, conn, notice, drops, reported, base>>

Exists(c) ==
  /\ notice[c]
  /\ notice' = [notice EXCEPT ![c] = FALSE]
  /\ Handle
  /\ UNCHANGED <<serverVars, idle, current, stopping, call, conn, drops, reported, base>>

\* getMailboxLock is granted to one call at a time on a connection; only then
\* is lastSeenUid read, and the server answers UID FETCH lastSeenUid+1:*, which
\* always matches the newest message.  Nothing that happens between the two
\* changes the answer, so they are one step.
Lock(f) ==
  LET from == idle[fetch[f].run].lastSeenUid + 1
  IN /\ fetch[f].step = "lock"
     /\ Selected(fetch[f].client)
     /\ \A g \in Fetches : fetch[g].step = "emit" => fetch[g].client # fetch[f].client
     /\ fetch' = [fetch EXCEPT ![f].step = "emit",
                               ![f].found = {u \in mail : u >= from \/ u = Max(mail)}]
     /\ UNCHANGED <<serverVars, idle, current, stopping, call, conn, notice, drops,
                    reported, base, missed>>

\* Without the newest message, which the server always sends.
NewOf(f) == {u \in fetch[f].found : u > idle[fetch[f].run].lastSeenUid}

\* What is new moves lastSeenUid on and goes out in one event.
Emit(f) ==
  /\ fetch[f].step = "emit"
  /\ Selected(fetch[f].client)
  /\ reported' = [reported EXCEPT ![epoch] =
                    [u \in Uids |-> IF u \in NewOf(f) THEN @[u] + 1 ELSE @[u]]]
  /\ idle' = [r \in Runs |->
                IF r = current /\ NewOf(f) # {}
                THEN [idle[r] EXCEPT !.lastSeenUid = Max(NewOf(f))] ELSE idle[r]]
  /\ fetch' = [fetch EXCEPT ![f] = NoFetch]
  /\ UNCHANGED <<serverVars, current, stopping, call, conn, notice, drops, base, missed>>

\* The lock or the fetch is refused: what was found so far is dropped.
FetchFails(f) ==
  /\ fetch[f].step # "none"
  /\ IF Selected(fetch[f].client)
     THEN drops < MaxDrops /\ drops' = drops + 1 /\ missed' = TRUE
     ELSE UNCHANGED <<drops, missed>>
  /\ fetch' = [fetch EXCEPT ![f] = NoFetch]
  /\ UNCHANGED <<serverVars, idle, current, stopping, call, conn, notice, reported, base>>

----------------------------------------------------------------------------
(* stop()                                                                  *)

\* Mutant of Stop: the reconnect timer is not cleared.
StopKeepsTimer ==
  LET c == idle[current].client
      s == [idle[current] EXCEPT !.stopped = TRUE]
  IN /\ Watching /\ ~stopping
     /\ stopping' = TRUE
     /\ IF c # NoClient /\ conn[c] = "login"
        THEN /\ conn' = [conn EXCEPT ![c] = "closed"]
             /\ idle' = [idle EXCEPT ![current] = Forget(c, s)]
        ELSE /\ idle' = [idle EXCEPT ![current] = s]
             /\ UNCHANGED conn
     /\ UNCHANGED <<serverVars, current, call, notice, fetch, drops, reported, base, missed>>

\* A usable client is logged out, one that is logging in is closed.
Stop ==
  LET c == idle[current].client
      s == [idle[current] EXCEPT !.stopped = TRUE, !.timer = FALSE]
  IN /\ Watching /\ ~stopping
     /\ stopping' = TRUE
     /\ IF c # NoClient /\ conn[c] = "login"
        THEN /\ conn' = [conn EXCEPT ![c] = "closed"]
             /\ idle' = [idle EXCEPT ![current] = Forget(c, s)]
        ELSE /\ idle' = [idle EXCEPT ![current] = s]
             /\ UNCHANGED conn
     /\ UNCHANGED <<serverVars, current, call, notice, fetch, drops, reported, base, missed>>

\* Its logout has ended the connection: the map is cleared.  Of the IdleState
\* that was in it, the calls still running read nothing but stopped.
Stopped ==
  LET c == idle[current].client
  IN /\ stopping
     /\ stopping' = FALSE
     /\ current' = 0
     /\ idle' = [idle EXCEPT ![current] = [NewIdle EXCEPT !.stopped = TRUE]]
     /\ conn' = [d \in Clients |-> IF d = c THEN "closed" ELSE conn[d]]
     /\ notice' = [d \in Clients |-> notice[d] /\ d # c]
     /\ base' = 0
     /\ UNCHANGED <<serverVars, call, fetch, drops, reported, missed>>

----------------------------------------------------------------------------

ConnectStep(c) ==
  \/ Authenticated(c) \/ LoggedIn(c) \/ Opened(c) \/ AskRetry(c) \/ CatchUp(c) \/ Exists(c)
  \/ conn[c] = "closed" /\ ConnectFails(c)

FetchStep(f) == Lock(f) \/ Emit(f) \/ FetchFails(f)

WatcherNext ==
  \/ Deliver \/ Renumber \/ \E u \in mail : Expunge(u)
  \/ \E c \in Clients :
       \/ Start(c) \/ Retry(c) \/ ConnectStep(c)
       \/ AuthFails(c) \/ ConnectFails(c) \/ Drop(c)
  \/ \E f \in Fetches : FetchStep(f)
  \/ Stop \/ Stopped

(***************************************************************************)
(* Fairness.  Every wait of the watcher and of imapflow has a timeout, so  *)
(* a call that runs goes on, a timer fires, and stop() ends.  Nobody has   *)
(* to start or to stop the watcher, and no connection has to fail.         *)
(***************************************************************************)
WatcherFairness ==
  /\ \A c \in Clients : WF_watcherVars(ConnectStep(c))
  /\ WF_watcherVars(\E c \in Clients : Retry(c))
  /\ \A f \in Fetches : WF_watcherVars(FetchStep(f))
  /\ WF_watcherVars(Stopped)

WatcherSpec == WatcherInit /\ [][WatcherNext]_watcherVars /\ WatcherFairness

----------------------------------------------------------------------------
(* Properties *)

WatcherTypeOK ==
  /\ mail \subseteq Uids /\ uidNext \in 1..(MaxUid + 1) /\ epoch \in 1..MaxEpoch
  /\ \A u \in mail : u < uidNext
  /\ idle \in [Runs -> IdleState]
  /\ current \in 0..MaxRuns
  /\ stopping => Watching /\ idle[current].stopped
  /\ call \in [Clients -> [step : CallSteps, run : 0..MaxRuns, behind : BOOLEAN]]
  /\ conn \in [Clients -> {"closed", "login", "usable", "idling"}]
  /\ notice \in [Clients -> BOOLEAN]
  /\ drops \in 0..MaxDrops
  /\ \A f \in Fetches : fetch[f].step \in {"none", "lock", "emit"}
  \* A stopped watcher has no timer, and a client is in the state only while open.
  /\ \A r \in Runs : idle[r].stopped => ~idle[r].timer
  /\ \A r \in Runs : idle[r].client # NoClient => conn[idle[r].client] # "closed"

\* No message is reported twice, whatever overlaps: notices, fetches that fail,
\* reconnects that catch up, restarts.
ReportedOnce == \A e \in 1..MaxEpoch, u \in Uids : reported[e][u] <= 1

\* lastSeenUid never passes a message that was not reported: what arrived after
\* the first select and is still there is reported or above lastSeenUid.
NoneSkipped ==
  Watching /\ idle[current].uidValidity = epoch =>
    \A u \in mail : u \in base + 1 .. idle[current].lastSeenUid
                    => reported[epoch][u] > 0

\* Nothing is passed over and nothing comes twice.
ReportedInTurn == ReportedOnce /\ NoneSkipped

\* No connection is left behind: every open one is the state's own, where
\* stop() finds it.
NoStrayClient ==
  \A c \in Clients : conn[c] # "closed" => Watching /\ idle[current].client = c

\* Mail that arrives while a folder is watched is reported, although
\* connections drop, unless it is deleted first, the folder is renumbered, the
\* watcher stops, or its fetch was refused and there was no EXISTS and no
\* reconnect after that.
Missing(e, u) ==
  /\ epoch = e /\ u \in mail
  /\ Watching /\ idle[current].uidValidity = e /\ u > base
ArrivalsAreReported ==
  \A e \in 1..MaxEpoch, u \in Uids :
    Missing(e, u) ~> (reported[e][u] > 0 \/ ~Missing(e, u) \/ idle[current].stopped \/ missed)
============================================================================
