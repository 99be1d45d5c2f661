----------------------------- MODULE Connections -----------------------------
(***************************************************************************)
(* src/src/connections/manager.ts, backoff.ts and auth.ts with the access  *)
(* tokens of src/src/services/oauth.service.ts: for each account and       *)
(* protocol one kept connection, at most one connect in flight that every  *)
(* caller shares, a backoff window after a failure, and one token refresh  *)
(* for all who wait for it.                                                *)
(*                                                                         *)
(* A connection is an imapflow client or a nodemailer transport; servers   *)
(* and libraries are the environment.  Times are counted down in ticks, so *)
(* there is no clock to bound.                                             *)
(***************************************************************************)
EXTENDS Integers, FiniteSets, FiniteSetsExt

CONSTANTS
  None,
  Accounts,       \* records: name and email, in lower case, and exact spelling
  DefaultAccount, \* settings' default account, or None
  Callers,        \* tool calls that may run at once
  Keys,           \* the account names a caller may pass
  Connections,    \* identities of connections, reused once closed
  InitialBackoff, \* INITIAL_BACKOFF_MS
  MaxBackoff,     \* MAX_BACKOFF_MS
  ExpiryBuffer,   \* TOKEN_EXPIRY_BUFFER_MS
  Lifetimes,      \* the expires_in values a provider may answer
  MayClose        \* may the process shut down?

ASSUME ConnectionsConstants ==
  /\ None \notin Connections
  /\ {InitialBackoff, MaxBackoff} \subseteq Nat \ {0} /\ ExpiryBuffer \in Nat
  /\ InitialBackoff <= MaxBackoff
  /\ Lifetimes \subseteq Nat \ {0}
  /\ MayClose \in BOOLEAN

Protocols == {"IMAP", "SMTP"}
Slots == Accounts \X Protocols

VARIABLES
  held,     \* imapClients and smtpTransports: slot -> connection or None
  attempt,  \* imapConnecting and smtpConnecting: slot -> stage and connection
  up,       \* connections that are open
  failure,  \* ConnectBackoff.failures: slot -> delay and remaining wait; 0 for none
  token,    \* oauth2: account -> remaining life of its access token; 0 for none
  posting,  \* account -> token requests in flight for its refresh token
  caller,   \* each call: what it waits for, on which slot and connection
  closing,  \* closeAll: "no", "logging", "settling", "logout", "closed"
  awaited,  \* the connects closeAll waits for
  leaving,  \* the IMAP logouts closeAll waits for
  early,    \* open connections that were connecting or kept when closeAll looked
  since,    \* history: slot -> ticks since its last failed connect
  streak    \* history: slot -> failed connects since the last success, until they
            \* no longer lengthen the window

mapVars == <<held, attempt, up>>
tokenVars == <<token, posting>>
closeVars == <<closing, awaited, leaving>>
history == <<since, streak>>
vars == <<mapVars, failure, tokenVars, caller, closeVars, early, history>>

Idle == [at |-> "idle", slot |-> None, conn |-> None]
NoAttempt == [stage |-> "none", conn |-> None]

Init ==
  /\ held = [s \in Slots |-> None]
  /\ attempt = [s \in Slots |-> NoAttempt]
  /\ up = {}
  /\ failure = [s \in Slots |-> [delay |-> 0, wait |-> 0]]
  /\ token = [a \in Accounts |-> 0]
  /\ posting = [a \in Accounts |-> 0]
  /\ caller = [k \in Callers |-> Idle]
  /\ closing = "no" /\ awaited = {} /\ leaving = {} /\ early = {}
  /\ since = [s \in Slots |-> 0]
  /\ streak = [s \in Slots |-> 0]

-----------------------------------------------------------------------------
(* Account lookup: a set of one account, or what makes getAccount throw.   *)

FindAccountByKey(key) ==
  LET exact == {a \in Accounts : a.exact = key.text}
      byName == {a \in Accounts : a.name = key.lower}
      byEmail == {a \in Accounts : a.email = key.lower}
  IN CASE exact # {}  -> exact
       [] byName # {} -> byName
       [] OTHER       -> byEmail

GetAccount(key) ==
  LET direct == IF key = None THEN {} ELSE FindAccountByKey(key)
  IN CASE direct # {} -> direct
       [] key # None /\ key.lower # "default" -> {}
       [] DefaultAccount # None -> FindAccountByKey(DefaultAccount)
       [] OTHER -> Accounts

-----------------------------------------------------------------------------
(* Backoff                                                                 *)

\* Mutant: the window does not grow.
SameBackoff(delay) == delay

NextBackoff(delay) == IF delay * 2 < MaxBackoff THEN delay * 2 ELSE MaxBackoff

\* Up to a quarter shorter; the random number is below 1.
WithJitter(delay) == {delay - j : j \in 0..((delay - 1) \div 4)}

Ready(s) == failure[s].wait = 0

\* The first delay, doubled n times.
Doubled[n \in Nat] == IF n = 0 THEN InitialBackoff ELSE 2 * Doubled[n - 1]

RecordFailure(S) ==
  /\ \E jitter \in [S -> 0..MaxBackoff] :
       /\ \A s \in S :
            LET delay == IF failure[s].delay = 0 THEN InitialBackoff
                         ELSE NextBackoff(failure[s].delay)
            IN delay - jitter[s] \in WithJitter(delay)
       /\ failure' = [s \in Slots |->
            IF s \notin S THEN failure[s]
            ELSE LET delay == IF failure[s].delay = 0 THEN InitialBackoff
                              ELSE NextBackoff(failure[s].delay)
                 IN [delay |-> delay, wait |-> delay - jitter[s]]]
  /\ since' = [s \in Slots |-> IF s \in S THEN 0 ELSE since[s]]
  /\ streak' = [s \in Slots |-> IF s \in S /\ Doubled[streak[s]] < 2 * MaxBackoff
                                THEN streak[s] + 1 ELSE streak[s]]

RecordSuccess(s) ==
  /\ failure' = [failure EXCEPT ![s] = [delay |-> 0, wait |-> 0]]
  /\ since' = [since EXCEPT ![s] = 0]
  /\ streak' = [streak EXCEPT ![s] = 0]

-----------------------------------------------------------------------------
(* Connects                                                                *)

\* A connection no one refers to.
Fresh == {c \in Connections \ up :
            /\ \A s \in Slots : held[s] # c /\ attempt[s].conn # c
            /\ \A k \in Callers : caller[k].conn # c}

IsTokenExpired(a) == token[a] <= ExpiryBuffer

\* Mutant: each connect asks for a token of its own.
StartConnectAlone(s) ==
  /\ attempt' = [attempt EXCEPT ![s] = [stage |-> "token", conn |-> None]]
  /\ posting' = [posting EXCEPT ![s[1]] = @ + 1]

\* connectImap and connectSmtp up to their first await: the login starts, or
\* the token is asked for first (buildImapAuth, the provision callback).
\* Concurrent callers of one refresh token share a request.
StartConnect(s) ==
  LET a == s[1]
  IN IF IsTokenExpired(a)
       THEN /\ attempt' = [attempt EXCEPT ![s] = [stage |-> "token", conn |-> None]]
            /\ posting' = [posting EXCEPT ![a] = IF @ = 0 THEN 1 ELSE @]
       ELSE /\ attempt' = [attempt EXCEPT ![s] = [stage |-> "dial", conn |-> None]]
            /\ UNCHANGED posting

\* Mutant: a concurrent first call connects for itself.
ConnectAlone(k, s) ==
  /\ Ready(s)
  /\ caller' = [caller EXCEPT ![k] = [at |-> "waiting", slot |-> s, conn |-> None]]
  /\ StartConnect(s)

\* The caller joins the connect in flight, starts one, or fails in the window.
Connect(k, s) ==
  \/ /\ attempt[s].stage # "none" \/ Ready(s)
     /\ caller' = [caller EXCEPT ![k] = [at |-> "waiting", slot |-> s, conn |-> None]]
     /\ IF attempt[s].stage # "none" THEN UNCHANGED <<attempt, posting>> ELSE StartConnect(s)
  \/ /\ attempt[s].stage = "none" /\ ~Ready(s)
     /\ caller' = [caller EXCEPT ![k] = Idle]
     /\ UNCHANGED <<attempt, posting>>

\* getImapClient: a usable client is handed out, a dead one is dropped first.
GetImapClient(k) ==
  /\ caller[k].at = "idle" /\ closing # "closed"
  /\ \E key \in Keys :
       LET found == GetAccount(key) IN
       /\ Cardinality(found) = 1
       /\ \E a \in found : LET s == <<a, "IMAP">> IN
            /\ held[s] \notin up
            /\ held' = [held EXCEPT ![s] = None]
            /\ Connect(k, s)
  /\ UNCHANGED <<up, failure, token, closeVars, early, history>>

\* getSmtpTransport: a kept transport is handed out as it is; a caller that
\* asks for verification has it tried.
GetSmtpTransport(k) ==
  /\ caller[k].at = "idle" /\ closing # "closed"
  /\ \E key \in Keys, verify \in BOOLEAN :
       LET found == GetAccount(key) IN
       /\ Cardinality(found) = 1
       /\ \E a \in found : LET s == <<a, "SMTP">> IN
            \/ held[s] = None /\ Connect(k, s)
            \/ /\ held[s] # None /\ verify
               /\ caller' =
                    [caller EXCEPT ![k] = [at |-> "verifying", slot |-> s, conn |-> held[s]]]
               /\ UNCHANGED <<attempt, posting>>
  /\ UNCHANGED <<held, up, failure, token, closeVars, early, history>>

Verified(k) ==
  /\ caller[k].at = "verifying" /\ caller[k].conn \in up
  /\ caller' = [caller EXCEPT ![k] = Idle]
  /\ UNCHANGED <<mapVars, failure, tokenVars, closeVars, early, history>>

\* The transport is closed and replaced, unless another caller has done so.
VerifyFails(k) ==
  /\ caller[k].at = "verifying"
  /\ LET s == caller[k].slot
         existing == caller[k].conn
     IN /\ held' = [held EXCEPT ![s] = IF @ = existing THEN None ELSE @]
        /\ up' = up \ {existing}
        /\ early' = early \ {existing}
        /\ IF held'[s] # None
             THEN caller' = [caller EXCEPT ![k] = Idle] /\ UNCHANGED <<attempt, posting>>
             ELSE Connect(k, s)
  /\ UNCHANGED <<failure, token, closeVars, history>>

Waiters(S) == {k \in Callers : caller[k].at = "waiting" /\ caller[k].slot \in S}
Told(S) == [k \in Callers |-> IF k \in Waiters(S) THEN Idle ELSE caller[k]]

\* The connects of S fail, and with them every call that shares one.
Fail(S) ==
  /\ attempt' = [s \in Slots |-> IF s \in S THEN NoAttempt ELSE attempt[s]]
  /\ caller' = Told(S)
  /\ awaited' = awaited \ S
  /\ RecordFailure(S)

\* Mutant: only the connect that asked goes on.
AskingFirst(a) ==
  {s \in {a} \X Protocols : /\ attempt[s].stage = "token"
                            /\ s[2] = "SMTP" => attempt[<<a, "IMAP">>].stage # "token"}

Asking(a) == {s \in {a} \X Protocols : attempt[s].stage = "token"}

\* refreshAccessToken has answered: all who waited go on with the new token.
TokenAnswers(a) ==
  /\ posting[a] > 0
  /\ posting' = [posting EXCEPT ![a] = @ - 1]
  /\ \E life \in Lifetimes : token' = [token EXCEPT ![a] = life]
  /\ attempt' = [s \in Slots |-> IF s \in Asking(a) THEN [attempt[s] EXCEPT !.stage = "dial"]
                                 ELSE attempt[s]]
  /\ UNCHANGED <<held, up, failure, caller, closeVars, early, history>>

\* Refused, timed out, unreachable, or no JSON.
TokenFails(a) ==
  /\ posting[a] > 0
  /\ posting' = [posting EXCEPT ![a] = @ - 1]
  /\ Fail(Asking(a))
  /\ UNCHANGED <<held, up, token, closing, leaving, early>>

\* Logged in; a log line is awaited before the connection is kept.
LoggedIn(s) ==
  /\ attempt[s].stage = "dial"
  /\ \E c \in Fresh :
       /\ c = CHOOSE d \in Fresh : TRUE
       /\ attempt' = [attempt EXCEPT ![s] = [stage |-> "log", conn |-> c]]
       /\ up' = up \cup {c}
       /\ early' = IF s \in awaited THEN early \cup {c} ELSE early
  /\ RecordSuccess(s)
  /\ UNCHANGED <<held, tokenVars, caller, closeVars>>

LoginFails(s) ==
  /\ attempt[s].stage = "dial"
  /\ Fail({s})
  /\ UNCHANGED <<held, up, tokenVars, closing, leaving, early>>

Kept(s) ==
  /\ attempt[s].stage = "log"
  /\ held' = [held EXCEPT ![s] = attempt[s].conn]
  /\ attempt' = [attempt EXCEPT ![s] = NoAttempt]
  /\ caller' = Told({s})
  /\ awaited' = awaited \ {s}
  /\ UNCHANGED <<up, failure, tokenVars, closing, leaving, early, history>>

\* The server or the network ends an IMAP connection: 'close' or 'error'
\* (bindImapLifecycle).  A transport notices only when it is used.
Drops(c) ==
  /\ c \in up
  /\ \A s \in Accounts \X {"SMTP"} : held[s] # c /\ attempt[s].conn # c
  /\ \A k \in Callers : caller[k].conn # c
  /\ up' = up \ {c} /\ early' = early \ {c}
  /\ held' = [s \in Slots |-> IF held[s] = c THEN None ELSE held[s]]
  /\ UNCHANGED <<attempt, failure, tokenVars, caller, closeVars, history>>

Tick ==
  /\ failure' = [s \in Slots |-> [failure[s] EXCEPT !.wait = IF @ = 0 THEN 0 ELSE @ - 1]]
  /\ token' = [a \in Accounts |-> IF token[a] = 0 THEN 0 ELSE token[a] - 1]
  /\ since' = [s \in Slots |-> IF streak[s] > 0 /\ since[s] < MaxBackoff
                             THEN since[s] + 1 ELSE since[s]]
  /\ UNCHANGED <<mapVars, posting, caller, closeVars, early, streak>>

-----------------------------------------------------------------------------
(* closeAll                                                                *)

CloseAll ==
  /\ MayClose /\ closing = "no" /\ closing' = "logging"
  /\ UNCHANGED <<mapVars, failure, tokenVars, caller, awaited, leaving, early, history>>

\* The log line is out: the connects that run now are waited for.
AwaitConnects ==
  /\ closing = "logging" /\ closing' = "settling"
  /\ awaited' = {s \in Slots : attempt[s].stage # "none"}
  /\ early' = up
  /\ UNCHANGED <<mapVars, failure, tokenVars, caller, leaving, history>>

\* Transports close at once; logouts are under way.
CloseHeld ==
  /\ closing = "settling" /\ awaited = {} /\ closing' = "logout"
  /\ LET transports == {held[s] : s \in Accounts \X {"SMTP"}}
     IN up' = up \ transports /\ early' = early \ transports
  /\ held' = [s \in Slots |-> IF s[2] = "SMTP" THEN None ELSE held[s]]
  /\ leaving' = {s \in Accounts \X {"IMAP"} : held[s] # None}
  /\ UNCHANGED <<attempt, awaited, failure, tokenVars, caller, history>>

\* The connection that was kept then is gone; the entry of the account is
\* deleted, whatever it holds by now.
LoggedOut(s) ==
  /\ closing = "logout" /\ s \in leaving
  /\ leaving' = leaving \ {s}
  /\ up' = up \ ({held[s]} \cap early) /\ early' = early \ {held[s]}
  /\ held' = [held EXCEPT ![s] = None]
  /\ UNCHANGED <<attempt, failure, tokenVars, caller, closing, awaited, history>>

Closed ==
  /\ closing = "logout" /\ leaving = {} /\ closing' = "closed"
  /\ UNCHANGED <<mapVars, failure, tokenVars, caller, awaited, leaving, early, history>>

Next ==
  \/ \E k \in Callers : GetImapClient(k) \/ GetSmtpTransport(k) \/ Verified(k) \/ VerifyFails(k)
  \/ \E a \in Accounts : TokenAnswers(a) \/ TokenFails(a)
  \/ \E s \in Slots : LoggedIn(s) \/ LoginFails(s) \/ Kept(s) \/ LoggedOut(s)
  \/ \E c \in Connections : Drops(c)
  \/ Tick \/ CloseAll \/ AwaitConnects \/ CloseHeld \/ Closed

\* Requests have timeouts: 15 s for a token, and the libraries' own for logins.
Fairness ==
  /\ \A a \in Accounts : WF_vars(TokenAnswers(a) \/ TokenFails(a))
  /\ \A s \in Slots : WF_vars(LoggedIn(s) \/ LoginFails(s)) /\ WF_vars(Kept(s))
  /\ \A k \in Callers : WF_vars(Verified(k) \/ VerifyFails(k))

Spec == Init /\ [][Next]_vars /\ Fairness

-----------------------------------------------------------------------------
(* Properties                                                              *)

\* Types; one token request at a time is in flight for a refresh token, and a
\* login is only under way with a token that was asked for when it had to be.
ConnTypeOK ==
  /\ held \in [Slots -> Connections \cup {None}]
  /\ \A s \in Slots : /\ attempt[s].stage \in {"none", "token", "dial", "log"}
                      /\ attempt[s].conn # None <=> attempt[s].stage = "log"
                      /\ attempt[s].stage = "token" => posting[s[1]] > 0
  /\ up \subseteq Connections /\ early \subseteq up
  /\ \A a \in Accounts : token[a] \in Nat /\ posting[a] \in 0..1
  /\ \A k \in Callers : caller[k].at \in {"idle", "waiting", "verifying"}

\* No call leaves a login behind: every open connection is the one kept for its
\* account, or on its way there (manager.ts: "or every loser stays logged in
\* outside the map and closeAll never reaches it"); and closeAll leaves none open
\* that was kept or connecting when it looked ("wait so it is closed too").
NoStrayLogin ==
  /\ closing = "closed" => early = {}
  /\ closing \notin {"logout", "closed"} =>
       up \subseteq {held[s] : s \in Slots} \cup {attempt[s].conn : s \in Slots}

\* The shortest window after n failures in a row.
Window(n) ==
  LET delay == IF Doubled[n - 1] < MaxBackoff THEN Doubled[n - 1] ELSE MaxBackoff
  IN delay - (delay - 1) \div 4

\* However many calls come and whichever of them fail, a connect that follows n
\* failures in a row starts no sooner than the n-th window after the last.
BackoffKept ==
  [][\A s \in Slots :
       attempt[s].stage = "none" /\ attempt'[s].stage # "none" /\ streak[s] > 0
       => since[s] >= Window(streak[s])]_vars

\* Every call is told: it gets a connection or an error.
EveryCallAnswered == \A k \in Callers : caller[k].at # "idle" ~> caller[k].at = "idle"

\* A call whose transport failed its verification does not dial the server again
\* at once: it waits only for a connect that was under way (docs/configuration.md:
\* "After an IMAP login or SMTP verify for an account fails, Mailoo does not dial
\* that server again").
VerifyBacksOff ==
  [][\A k \in Callers :
       caller[k].at = "verifying" /\ caller'[k].at = "waiting"
       => attempt[caller[k].slot].stage # "none"]_vars
=============================================================================
