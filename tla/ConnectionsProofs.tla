------------------------- MODULE ConnectionsProofs -------------------------
(***************************************************************************)
(* Proofs about Connections, for every set of accounts, calls, keys and    *)
(* connections and every length of the backoff windows.                    *)
(***************************************************************************)
EXTENDS Connections, WellFoundedInduction, TLAPS

Stages == {"none", "token", "dial", "log"}
Attempts == [stage : Stages, conn : Connections \cup {None}]
Calls == [at : {"idle", "waiting", "verifying"}, slot : Slots \cup {None},
          conn : Connections \cup {None}]

ConnTypes ==
  /\ held \in [Slots -> Connections \cup {None}]
  /\ attempt \in [Slots -> Attempts]
  /\ up \subseteq Connections
  /\ token \in [Accounts -> Nat]
  /\ posting \in [Accounts -> 0..1]
  /\ caller \in [Callers -> Calls]
  /\ closing \in {"no", "logging", "settling", "logout", "closed"}
  /\ awaited \subseteq Slots
  /\ leaving \subseteq Accounts \X {"IMAP"}
  /\ early \subseteq up

\* A connect has a connection only between login and map, runs only while
\* nothing is kept for its slot, and waits for a token only while one is asked
\* for; a call verifies a transport of a slot.
AttemptOK(s) ==
  /\ attempt[s].conn # None <=> attempt[s].stage = "log"
  /\ attempt[s].stage = "token" => posting[s[1]] > 0
  /\ attempt[s].stage # "none" => held[s] = None
Sharing ==
  /\ \A s \in Slots : AttemptOK(s)
  /\ \A k \in Callers : caller[k].at = "verifying" => caller[k].slot \in Slots

KeptFor(S) == {held[s] : s \in S}
LoggingFor(S) == {attempt[s].conn : s \in S}

\* Every open connection is kept or on its way there; those that closeAll must
\* close are so at each of its stages: it waits for their connects, then for
\* their logouts.
Reached ==
  /\ closing \in {"no", "logging", "settling"} => up \subseteq KeptFor(Slots) \cup LoggingFor(Slots)
  /\ closing = "settling" => early \subseteq KeptFor(Slots) \cup LoggingFor(awaited)
  /\ closing = "logout" => awaited = {} /\ early \subseteq KeptFor(leaving)
  /\ closing = "closed" => awaited = {} /\ early = {}

ConnInv == ConnTypes /\ Sharing /\ Reached

\* It implies what the runs check.
LEMMA ConnParts == ConnInv => ConnTypeOK /\ NoStrayLogin
<1> SUFFICES ASSUME ConnInv PROVE ConnTypeOK /\ NoStrayLogin
  OBVIOUS
<1>1. ConnTypeOK
  BY DEF ConnInv, ConnTypes, Sharing, AttemptOK, ConnTypeOK, Attempts, Stages, Calls
<1>2. NoStrayLogin
  BY DEF ConnInv, ConnTypes, Reached, NoStrayLogin, KeptFor, LoggingFor
<1>3. QED
  BY <1>1, <1>2

\* Before the first call nothing is kept, connecting or open.
LEMMA ConnInit == Init => ConnInv
BY ConnectionsConstants
   DEF Init, ConnInv, ConnTypes, Sharing, AttemptOK, Reached, KeptFor, LoggingFor, Attempts, Stages,
       Calls, Idle, NoAttempt

\* A step of Connect(k, s), which a call takes when nothing is kept for its slot,
\* starts at most one connect and touches no other.
LEMMA ConnectStarts ==
  ASSUME ConnTypes, Sharing, NEW k \in Callers, NEW s \in Slots, Connect(k, s)
  PROVE  /\ attempt' \in [Slots -> Attempts] /\ posting' \in [Accounts -> 0..1]
         /\ \A t \in Slots :
              \/ attempt'[t] = attempt[t]
              \/ /\ t = s /\ attempt[s].stage = "none" /\ attempt'[s].conn = None
                 /\ attempt'[s].stage \in {"token", "dial"}
                 /\ attempt'[s].stage = "token" => posting'[s[1]] > 0
         /\ \A a \in Accounts : posting'[a] >= posting[a]
         /\ caller' \in [Callers -> Calls]
         /\ \A j \in Callers : caller'[j] = caller[j] \/ caller'[j].at # "verifying"
<1> USE ConnectionsConstants DEF ConnTypes, Attempts, Stages, Calls
<1>1. s \in Slots /\ s[1] \in Accounts
  BY DEF Slots
<1>2. /\ caller' \in [Callers -> Calls]
      /\ \A j \in Callers : caller'[j] = caller[j] \/ caller'[j].at # "verifying"
  BY DEF Connect, Idle
<1>3. CASE UNCHANGED <<attempt, posting>>
  BY <1>2, <1>3
<1>4. CASE attempt[s].stage = "none" /\ StartConnect(s)
  <2>1. posting' \in [Accounts -> 0..1] /\ \A a \in Accounts : posting'[a] >= posting[a]
    BY <1>1, <1>4 DEF StartConnect
  <2>2. attempt' \in [Slots -> Attempts]
    BY <1>1, <1>4 DEF StartConnect
  <2>3. \A t \in Slots \ {s} : attempt'[t] = attempt[t]
    BY <1>1, <1>4 DEF StartConnect
  <2>4. /\ attempt'[s].conn = None /\ attempt'[s].stage \in {"token", "dial"}
        /\ attempt'[s].stage = "token" => posting'[s[1]] > 0
    BY <1>1, <1>4 DEF StartConnect
  <2>5. QED
    BY <1>2, <1>4, <2>1, <2>2, <2>3, <2>4
<1>5. QED
  BY <1>3, <1>4 DEF Connect

\* A call that drops what is no longer open, and joins or starts a connect.
LEMMA CallConnects ==
  ASSUME ConnInv, NEW k \in Callers, NEW s \in Slots, Connect(k, s),
         held' = [held EXCEPT ![s] = None], held[s] \notin up', up' \subseteq up,
         early' = early \cap up', UNCHANGED <<token, closeVars>>
  PROVE  ConnInv'
<1> USE DEF ConnInv
<1>0. None \notin Connections
  BY ConnectionsConstants
<1>1. /\ attempt' \in [Slots -> Attempts] /\ posting' \in [Accounts -> 0..1]
      /\ \A t \in Slots :
           \/ attempt'[t] = attempt[t]
           \/ /\ t = s /\ attempt[s].stage = "none" /\ attempt'[s].conn = None
              /\ attempt'[s].stage \in {"token", "dial"}
              /\ attempt'[s].stage = "token" => posting'[s[1]] > 0
      /\ \A a \in Accounts : posting'[a] >= posting[a]
      /\ caller' \in [Callers -> Calls]
      /\ \A j \in Callers : caller'[j] = caller[j] \/ caller'[j].at # "verifying"
  BY ConnectStarts
<1>2. ConnTypes'
  BY <1>1 DEF ConnTypes, closeVars
<1>3. Sharing'
  <2>1. ASSUME NEW t \in Slots PROVE AttemptOK(t)'
    <3>1. t[1] \in Accounts
      BY DEF Slots
    <3>2. posting[t[1]] \in 0..1 /\ posting'[t[1]] \in 0..1 /\ posting'[t[1]] >= posting[t[1]]
      BY <1>1, <3>1 DEF ConnTypes
    <3>3. CASE attempt'[t] = attempt[t]
      BY <3>2, <3>3 DEF Sharing, AttemptOK, ConnTypes
    <3>4. CASE attempt'[t] # attempt[t]
      <4>1. t = s /\ held'[s] = None
        BY <1>1, <3>4 DEF ConnTypes
      <4>2. /\ attempt'[s].conn = None /\ attempt'[s].stage \in {"token", "dial"}
            /\ attempt'[s].stage = "token" => posting'[s[1]] > 0
        BY <1>1, <3>4, <4>1
      <4>3. QED
        BY <4>1, <4>2 DEF AttemptOK
    <3>5. QED
      BY <3>3, <3>4
  <2>2. QED
    BY <1>1, <2>1 DEF Sharing
<1>4. \A t \in Slots : attempt[t].conn # None => attempt'[t].conn = attempt[t].conn
  <2>1. \A t \in Slots : attempt[t].conn # None => attempt[t].stage # "none"
    BY DEF Sharing, AttemptOK
  <2>2. QED
    BY <1>1, <2>1
<1>5. \A t \in Slots : held[t] \in up' => held'[t] = held[t]
  BY DEF ConnTypes
<1>6. None \notin up'
  BY <1>0, <1>2 DEF ConnTypes
<1>8. \A S, T \in SUBSET Slots :
        up' \cap (KeptFor(S) \cup LoggingFor(T)) \subseteq KeptFor(S)' \cup LoggingFor(T)'
  BY <1>4, <1>5, <1>6 DEF KeptFor, LoggingFor
<1>9. Reached'
  <2>1. awaited \in SUBSET Slots /\ leaving \in SUBSET Slots /\ {} \in SUBSET Slots
    BY DEF ConnTypes, Slots, Protocols
  <2>2. closing' = closing /\ awaited' = awaited /\ leaving' = leaving
    BY DEF closeVars
  <2>3. KeptFor(leaving) \cap up' \subseteq KeptFor(leaving)'
    BY <1>5, <2>1, <2>2 DEF KeptFor
  <2>4. QED
    BY <1>8, <2>1, <2>2, <2>3 DEF Reached
<1>10. QED
  BY <1>2, <1>3, <1>9

\* Connects that fail before they have a connection take nothing with them.
LEMMA ConnectsFail ==
  ASSUME ConnInv, NEW S \in SUBSET Slots, \A s \in S : attempt[s].stage \in {"token", "dial"},
         Fail(S), UNCHANGED <<held, up, token, closing, leaving, early>>,
         posting' \in [Accounts -> 0..1],
         \A s \in Slots \ S : attempt[s].stage = "token" => posting'[s[1]] > 0
  PROVE  ConnInv'
<1> USE DEF ConnInv
<1>0. None \notin Connections
  BY ConnectionsConstants
<1>1. /\ attempt' \in [Slots -> Attempts]
      /\ \A s \in Slots : IF s \in S THEN attempt'[s].conn = None /\ attempt'[s].stage = "none"
                          ELSE attempt'[s] = attempt[s]
  BY DEF Fail, NoAttempt, ConnTypes, Attempts, Stages
<1>2. /\ caller' \in [Callers -> Calls]
      /\ \A j \in Callers : caller'[j] = caller[j] \/ caller'[j].at # "verifying"
  BY DEF Fail, Told, Waiters, Idle, ConnTypes, Calls
<1>3. awaited' = awaited \ S
  BY DEF Fail
<1>4. ConnTypes'
  BY <1>1, <1>2, <1>3 DEF ConnTypes
<1>5. Sharing'
  BY <1>1, <1>2 DEF Sharing, AttemptOK
<1>6. \A s \in S : attempt[s].conn = None
  BY DEF Sharing, AttemptOK
<1>7. None \notin up
  BY <1>0 DEF ConnTypes
<1>8. \A T \in SUBSET Slots, c \in up : c \in LoggingFor(T) => c \in {attempt'[s].conn : s \in T \ S}
  BY <1>1, <1>6, <1>7 DEF LoggingFor
<1>9. Reached'
  BY <1>3, <1>8 DEF Reached, KeptFor, LoggingFor, ConnTypes
<1>10. QED
  BY <1>4, <1>5, <1>9

\* An answer to a token request: its connects go on, or fail.
LEMMA TokenStep ==
  ASSUME ConnInv, NEW a \in Accounts, TokenAnswers(a) \/ TokenFails(a)
  PROVE  ConnInv'
<1> USE DEF ConnInv
<1>1. /\ posting' = [posting EXCEPT ![a] = @ - 1] /\ posting[a] = 1
      /\ posting' \in [Accounts -> 0..1]
  BY DEF TokenAnswers, TokenFails, ConnTypes
<1>2. /\ Asking(a) \in SUBSET Slots
      /\ \A s \in Asking(a) : attempt[s].stage = "token"
      /\ \A s \in Slots \ Asking(a) : attempt[s].stage = "token" => posting'[s[1]] > 0
  <2>1. \A s \in Slots : s[1] \in Accounts /\ s = <<s[1], s[2]>> /\ s[2] \in Protocols
    BY DEF Slots
  <2>2. \A s \in Slots : s[1] = a => s \in {a} \X Protocols
    BY <2>1
  <2>3. \A s \in {a} \X Protocols : s \in Slots
    BY DEF Slots
  <2>4. \A s \in Slots \ Asking(a) : attempt[s].stage = "token" => s[1] # a
    BY <2>2 DEF Asking
  <2>5. \A s \in Slots : s[1] # a => posting'[s[1]] = posting[s[1]]
    BY <1>1, <2>1 DEF ConnTypes
  <2>6. QED
    BY <2>3, <2>4, <2>5 DEF Asking, Sharing, AttemptOK
<1>3. CASE TokenFails(a)
  BY <1>1, <1>2, <1>3, ConnectsFail DEF TokenFails
<1>4. CASE TokenAnswers(a)
  <2>1. token' \in [Accounts -> Nat]
    BY <1>4, ConnectionsConstants DEF TokenAnswers, ConnTypes
  <2>2. /\ attempt' \in [Slots -> Attempts]
        /\ \A s \in Slots : /\ attempt'[s].conn = attempt[s].conn
                            /\ attempt'[s].stage = IF s \in Asking(a) THEN "dial" ELSE attempt[s].stage
    BY <1>4 DEF TokenAnswers, ConnTypes, Attempts, Stages
  <2>3. ConnTypes'
    BY <1>1, <1>4, <2>1, <2>2 DEF TokenAnswers, ConnTypes, closeVars
  <2>4. Sharing'
    BY <1>2, <1>4, <2>2 DEF TokenAnswers, Sharing, AttemptOK
  <2>5. Reached'
    <3>1. \A T \in SUBSET Slots : {attempt'[s].conn : s \in T} = LoggingFor(T)
      BY <2>2 DEF LoggingFor
    <3>2. awaited \in SUBSET Slots /\ Slots \in SUBSET Slots
      BY DEF ConnTypes
    <3>3. UNCHANGED <<held, up, early, closing, awaited, leaving>>
      BY <1>4 DEF TokenAnswers, closeVars
    <3>4. LoggingFor(Slots)' = LoggingFor(Slots) /\ LoggingFor(awaited)' = LoggingFor(awaited)
      BY <3>1, <3>2, <3>3 DEF LoggingFor
    <3>5. QED
      BY <3>3, <3>4 DEF Reached, KeptFor
  <2>6. QED
    BY <2>3, <2>4, <2>5
<1>5. QED
  BY <1>3, <1>4

\* A login, and the connection's way into the map.
LEMMA LoginStep ==
  ASSUME ConnInv, NEW s \in Slots, LoggedIn(s) \/ LoginFails(s) \/ Kept(s)
  PROVE  ConnInv'
<1> USE DEF ConnInv
<1>0. None \notin Connections
  BY ConnectionsConstants
<1>1. CASE LoginFails(s)
  <2>1. posting' \in [Accounts -> 0..1]
    BY <1>1 DEF LoginFails, ConnTypes, tokenVars
  <2>2. \A t \in Slots : attempt[t].stage = "token" => posting'[t[1]] > 0
    BY <1>1 DEF LoginFails, Sharing, AttemptOK, tokenVars
  <2>3. QED
    BY <1>1, <2>1, <2>2, ConnectsFail DEF LoginFails, tokenVars
<1>2. CASE LoggedIn(s)
  <2>1. PICK c \in Fresh :
          /\ attempt' = [attempt EXCEPT ![s] = [stage |-> "log", conn |-> c]]
          /\ up' = up \cup {c}
          /\ early' = IF s \in awaited THEN early \cup {c} ELSE early
    BY <1>2 DEF LoggedIn
  <2>2. attempt[s].stage = "dial" /\ UNCHANGED <<held, tokenVars, caller, closeVars>>
    BY <1>2 DEF LoggedIn
  <2>3. c \in Connections \ up
    BY DEF Fresh
  <2>4. attempt' \in [Slots -> Attempts]
    BY <2>1, <2>3 DEF ConnTypes, Attempts, Stages
  <2>5. ConnTypes'
    BY <2>1, <2>2, <2>3, <2>4 DEF ConnTypes, tokenVars, closeVars
  <2>6. attempt'[s].conn = c /\ attempt'[s].stage = "log"
    BY <2>1 DEF ConnTypes
  <2>7. \A t \in Slots \ {s} : attempt'[t] = attempt[t]
    BY <2>1 DEF ConnTypes
  <2>8. Sharing'
    BY <1>0, <2>2, <2>3, <2>6, <2>7 DEF Sharing, AttemptOK, tokenVars
  <2>9. attempt[s].conn = None /\ None \notin up
    BY <1>0, <2>2 DEF Sharing, AttemptOK, ConnTypes
  <2>10. Reached'
    BY <2>1, <2>2, <2>6, <2>7, <2>9 DEF Reached, KeptFor, LoggingFor, ConnTypes, closeVars
  <2>11. QED
    BY <2>5, <2>8, <2>10
<1>3. CASE Kept(s)
  <2>1. /\ attempt[s].stage = "log"
        /\ held' = [held EXCEPT ![s] = attempt[s].conn]
        /\ attempt' = [attempt EXCEPT ![s] = NoAttempt]
        /\ caller' = Told({s}) /\ awaited' = awaited \ {s}
        /\ UNCHANGED <<up, tokenVars, closing, leaving, early>>
    BY <1>3 DEF Kept
  <2>2. /\ caller' \in [Callers -> Calls]
        /\ \A j \in Callers : caller'[j] = caller[j] \/ caller'[j].at # "verifying"
    BY <2>1 DEF Told, Waiters, Idle, ConnTypes, Calls
  <2>3. attempt' \in [Slots -> Attempts] /\ attempt[s].conn \in Connections \cup {None}
    <3>1. NoAttempt \in Attempts /\ attempt[s] \in Attempts
      BY DEF ConnTypes, Attempts, Stages, NoAttempt
    <3>2. attempt[s].conn \in Connections \cup {None}
      BY <3>1 DEF Attempts
    <3>3. QED
      BY <2>1, <3>1, <3>2 DEF ConnTypes
  <2>4. ConnTypes'
    BY <2>1, <2>2, <2>3 DEF ConnTypes, tokenVars
  <2>5. /\ attempt'[s].conn = None /\ attempt'[s].stage = "none" /\ held'[s] = attempt[s].conn
        /\ \A t \in Slots \ {s} : attempt'[t] = attempt[t] /\ held'[t] = held[t]
    BY <2>1 DEF ConnTypes, NoAttempt
  <2>6. Sharing'
    <3>1. AttemptOK(s)'
      BY <2>5 DEF AttemptOK
    <3>2. ASSUME NEW t \in Slots \ {s} PROVE AttemptOK(t)'
      BY <2>1, <2>5 DEF Sharing, AttemptOK, tokenVars
    <3>3. ASSUME NEW j \in Callers, caller'[j].at = "verifying" PROVE caller'[j].slot \in Slots
      BY <2>2, <3>3 DEF Sharing
    <3>4. QED
      BY <3>1, <3>2, <3>3 DEF Sharing
  <2>7. held[s] = None /\ None \notin up
    BY <1>0, <2>1 DEF Sharing, AttemptOK, ConnTypes
  <2>8. Reached'
    BY <2>1, <2>5, <2>7 DEF Reached, KeptFor, LoggingFor, ConnTypes
  <2>9. QED
    BY <2>4, <2>6, <2>8
<1>4. QED
  BY <1>1, <1>2, <1>3

\* A call, up to its first wait.
LEMMA CallStep ==
  ASSUME ConnInv, NEW k \in Callers,
         GetImapClient(k) \/ GetSmtpTransport(k) \/ Verified(k) \/ VerifyFails(k)
  PROVE  ConnInv'
<1> USE DEF ConnInv
<1>0. None \notin Connections /\ None \notin up
  BY ConnectionsConstants DEF ConnTypes
<1>1. ASSUME caller' \in [Callers -> Calls],
             \A j \in Callers : caller'[j].at = "verifying" => caller'[j].slot \in Slots,
             up' \subseteq up, early' = early \cap up',
             UNCHANGED <<held, attempt, tokenVars, closeVars>>
      PROVE  ConnInv'
  <2>1. ConnTypes'
    BY <1>1 DEF ConnTypes, tokenVars, closeVars
  <2>2. Sharing'
    BY <1>1 DEF Sharing, AttemptOK, tokenVars
  <2>3. Reached'
    BY <1>1 DEF Reached, KeptFor, LoggingFor, closeVars
  <2>4. QED
    BY <2>1, <2>2, <2>3
<1>2. CASE GetImapClient(k)
  <2>1. PICK a \in Accounts : /\ held[<<a, "IMAP">>] \notin up
                              /\ held' = [held EXCEPT ![<<a, "IMAP">>] = None]
                              /\ Connect(k, <<a, "IMAP">>)
    <3>1. \A key \in Keys : GetAccount(key) \subseteq Accounts
      BY DEF GetAccount, FindAccountByKey
    <3>2. QED
      BY <1>2, <3>1 DEF GetImapClient
  <2>2. <<a, "IMAP">> \in Slots
    BY DEF Slots, Protocols
  <2>3. up' = up /\ early' = early \cap up' /\ UNCHANGED <<token, closeVars>>
    BY <1>2 DEF GetImapClient, ConnTypes
  <2>4. QED
    BY <2>1, <2>2, <2>3, CallConnects
<1>3. CASE GetSmtpTransport(k)
  <2>1. PICK a \in Accounts :
          \/ held[<<a, "SMTP">>] = None /\ Connect(k, <<a, "SMTP">>)
          \/ /\ held[<<a, "SMTP">>] # None
             /\ caller' = [caller EXCEPT ![k] = [at |-> "verifying", slot |-> <<a, "SMTP">>,
                                                 conn |-> held[<<a, "SMTP">>]]]
             /\ UNCHANGED <<attempt, posting>>
    <3>1. \A key \in Keys : GetAccount(key) \subseteq Accounts
      BY DEF GetAccount, FindAccountByKey
    <3>2. QED
      BY <1>3, <3>1 DEF GetSmtpTransport
  <2>2. <<a, "SMTP">> \in Slots
    BY DEF Slots, Protocols
  <2>3. up' = up /\ early' = early \cap up' /\ UNCHANGED <<held, token, closeVars>>
    BY <1>3 DEF GetSmtpTransport, ConnTypes
  <2>4. CASE held[<<a, "SMTP">>] = None /\ Connect(k, <<a, "SMTP">>)
    <3>1. held' = [held EXCEPT ![<<a, "SMTP">>] = None]
      BY <2>2, <2>3, <2>4 DEF ConnTypes
    <3>2. QED
      BY <1>0, <2>2, <2>3, <2>4, <3>1, CallConnects
  <2>5. CASE /\ caller' = [caller EXCEPT ![k] = [at |-> "verifying", slot |-> <<a, "SMTP">>,
                                                 conn |-> held[<<a, "SMTP">>]]]
             /\ UNCHANGED <<attempt, posting>>
    <3>1. held[<<a, "SMTP">>] \in Connections \cup {None}
      BY <2>2 DEF ConnTypes
    <3>2. caller' \in [Callers -> Calls]
      BY <2>2, <2>5, <3>1 DEF ConnTypes, Calls
    <3>3. \A j \in Callers : caller'[j].at = "verifying" => caller'[j].slot \in Slots
      BY <2>2, <2>5 DEF ConnTypes, Sharing
    <3>4. QED
      BY <1>1, <2>3, <2>5, <3>2, <3>3 DEF tokenVars
  <2>6. QED
    BY <2>1, <2>4, <2>5
<1>4. ASSUME caller' = [caller EXCEPT ![k] = Idle]
      PROVE  /\ caller' \in [Callers -> Calls]
             /\ \A j \in Callers : caller'[j].at = "verifying" => caller'[j].slot \in Slots
  BY <1>4 DEF ConnTypes, Calls, Idle, Sharing
<1>5. CASE Verified(k)
  BY <1>1, <1>4, <1>5 DEF Verified, mapVars, ConnTypes
<1>6. CASE VerifyFails(k)
  <2>1. PICK s \in Slots, c \in Connections \cup {None} :
          /\ s = caller[k].slot /\ c = caller[k].conn
          /\ held' = [held EXCEPT ![s] = IF @ = c THEN None ELSE @]
          /\ up' = up \ {c} /\ early' = early \ {c}
          /\ IF held'[s] # None
             THEN caller' = [caller EXCEPT ![k] = Idle] /\ UNCHANGED <<attempt, posting>>
             ELSE Connect(k, s)
          /\ UNCHANGED <<token, closeVars>>
    <3>1. caller[k].slot \in Slots /\ caller[k].conn \in Connections \cup {None}
      BY <1>6 DEF VerifyFails, Sharing, ConnTypes, Calls
    <3>2. QED
      BY <1>6, <3>1 DEF VerifyFails, tokenVars
  <2>2. up' \subseteq up /\ early' = early \cap up'
    BY <2>1 DEF ConnTypes
  <2>3. CASE held'[s] # None
    <3>1. held' = held
      BY <2>1, <2>3 DEF ConnTypes
    <3>2. QED
      BY <1>1, <1>4, <2>1, <2>2, <2>3, <3>1 DEF tokenVars
  <2>4. CASE held'[s] = None
    <3>1. held' = [held EXCEPT ![s] = None] /\ held[s] \notin up'
      BY <1>0, <2>1, <2>4 DEF ConnTypes
    <3>2. QED
      BY <2>1, <2>2, <2>4, <3>1, CallConnects
  <2>5. QED
    BY <2>3, <2>4
<1>7. QED
  BY <1>2, <1>3, <1>5, <1>6

\* The end of a connection, and the steps of closeAll.
LEMMA CloseStep ==
  ASSUME ConnInv,
         \/ \E c \in Connections : Drops(c)
         \/ \E s \in Slots : LoggedOut(s)
         \/ CloseAll \/ AwaitConnects \/ CloseHeld \/ Closed
  PROVE  ConnInv'
<1> USE DEF ConnInv
<1>0. None \notin Connections /\ None \notin up
  BY ConnectionsConstants DEF ConnTypes
<1>1. ASSUME NEW c \in Connections, Drops(c) PROVE ConnInv'
  <2>1. /\ UNCHANGED <<attempt, posting, token, caller, closing, awaited, leaving>>
        /\ up' = up \ {c} /\ early' = early \ {c}
        /\ held' = [s \in Slots |-> IF held[s] = c THEN None ELSE held[s]]
    BY <1>1 DEF Drops, tokenVars, closeVars
  <2>2. ConnTypes'
    BY <2>1 DEF ConnTypes
  <2>3. Sharing'
    BY <2>1 DEF Sharing, AttemptOK
  <2>4. leaving \subseteq Slots /\ \A s \in Slots : held[s] # c => held'[s] = held[s]
    BY <2>1 DEF ConnTypes, Slots, Protocols
  <2>5. Reached'
    BY <1>0, <2>1, <2>4 DEF Reached, KeptFor, LoggingFor, ConnTypes
  <2>6. QED
    BY <2>2, <2>3, <2>5
<1>2. ASSUME NEW s \in Slots, LoggedOut(s) PROVE ConnInv'
  <2>1. /\ closing = "logout" /\ s \in leaving
        /\ UNCHANGED <<attempt, posting, token, caller, closing, awaited>>
        /\ leaving' = leaving \ {s} /\ held' = [held EXCEPT ![s] = None]
        /\ up' = up \ ({held[s]} \cap early) /\ early' = early \ {held[s]}
    BY <1>2 DEF LoggedOut, tokenVars
  <2>2. ConnTypes'
    BY <2>1 DEF ConnTypes
  <2>3. \A t \in Slots : held'[t] = IF t = s THEN None ELSE held[t]
    BY <2>1 DEF ConnTypes
  <2>4. Sharing'
    BY <2>1, <2>3 DEF Sharing, AttemptOK
  <2>5. leaving \subseteq Slots
    BY DEF ConnTypes, Slots, Protocols
  <2>6. Reached'
    BY <1>0, <2>1, <2>3, <2>5 DEF Reached, KeptFor, ConnTypes
  <2>7. QED
    BY <2>2, <2>4, <2>6
<1>3. CASE CloseAll \/ Closed
  <2>1. /\ UNCHANGED <<held, attempt, up, token, posting, caller, awaited, leaving, early>>
        /\ \/ closing = "no" /\ closing' = "logging"
           \/ closing = "logout" /\ leaving = {} /\ closing' = "closed"
    BY <1>3 DEF CloseAll, Closed, mapVars, tokenVars
  <2>2. ConnTypes' /\ Sharing'
    BY <2>1 DEF ConnTypes, Sharing, AttemptOK
  <2>3. Reached'
    BY <2>1 DEF Reached, KeptFor, LoggingFor
  <2>4. QED
    BY <2>2, <2>3
<1>4. CASE AwaitConnects
  <2>1. /\ UNCHANGED <<held, attempt, up, token, posting, caller, leaving>>
        /\ closing = "logging" /\ closing' = "settling" /\ early' = up
        /\ awaited' = {s \in Slots : attempt[s].stage # "none"}
    BY <1>4 DEF AwaitConnects, mapVars, tokenVars
  <2>2. ConnTypes' /\ Sharing'
    BY <2>1 DEF ConnTypes, Sharing, AttemptOK
  <2>3. up \subseteq KeptFor(Slots) \cup LoggingFor(Slots)
    BY <2>1 DEF Reached
  <2>4. \A c \in up : c \in LoggingFor(Slots) => c \in {attempt[s].conn : s \in awaited'}
    BY <1>0, <2>1 DEF LoggingFor, Sharing, AttemptOK
  <2>5. Reached'
    BY <2>1, <2>3, <2>4 DEF Reached, KeptFor, LoggingFor
  <2>6. QED
    BY <2>2, <2>5
<1>5. CASE CloseHeld
  <2> DEFINE gone == {held[s] : s \in Accounts \X {"SMTP"}}
  <2>1. /\ UNCHANGED <<attempt, token, posting, caller, awaited>>
        /\ closing = "settling" /\ awaited = {} /\ closing' = "logout"
        /\ up' = up \ gone /\ early' = early \ gone
        /\ held' = [s \in Slots |-> IF s[2] = "SMTP" THEN None ELSE held[s]]
        /\ leaving' = {s \in Accounts \X {"IMAP"} : held[s] # None}
    BY <1>5 DEF CloseHeld, tokenVars
  <2>2. \A s \in Slots : s \in Accounts \X {"SMTP"} \/ (s \in Accounts \X {"IMAP"} /\ s[2] # "SMTP")
    BY DEF Slots, Protocols
  <2>3. ConnTypes' /\ Sharing'
    BY <2>1 DEF ConnTypes, Sharing, AttemptOK
  <2>4. early \subseteq KeptFor(Slots)
    BY <2>1 DEF Reached, LoggingFor
  <2>5. \A c \in early \ gone : \E s \in Slots : held[s] = c /\ s \in leaving' /\ held'[s] = c
    BY <1>0, <2>1, <2>2, <2>4 DEF KeptFor, ConnTypes
  <2>6. early' \subseteq {held'[s] : s \in leaving'}
    BY <2>1, <2>5
  <2>7. Reached'
    BY <2>1, <2>6 DEF Reached, KeptFor
  <2>8. QED
    BY <2>3, <2>7
<1>6. QED
  BY <1>1, <1>2, <1>3, <1>4, <1>5

\* Every step of the calls, the servers, time and closeAll keeps the invariant.
LEMMA ConnStep == ConnInv /\ [Next]_vars => ConnInv'
<1> SUFFICES ASSUME ConnInv, [Next]_vars PROVE ConnInv'
  OBVIOUS
<1>1. ASSUME UNCHANGED <<mapVars, posting, caller, closeVars, early>>, token' \in [Accounts -> Nat]
      PROVE  ConnInv'
  BY <1>1 DEF ConnInv, ConnTypes, Sharing, AttemptOK, Reached, KeptFor, LoggingFor, mapVars, closeVars
<1>2. CASE Tick
  <2>0. token' = [a \in Accounts |-> IF token[a] = 0 THEN 0 ELSE token[a] - 1]
    BY <1>2 DEF Tick
  <2>1. token' \in [Accounts -> Nat]
    BY <2>0 DEF ConnInv, ConnTypes
  <2>2. QED
    BY <1>1, <1>2, <2>1 DEF Tick
<1>3. CASE UNCHANGED vars
  BY <1>1, <1>3 DEF vars, mapVars, tokenVars, closeVars, ConnInv, ConnTypes
<1>4. QED
  BY <1>2, <1>3, CallStep, TokenStep, LoginStep, CloseStep DEF Next

\* Whatever overlaps, what is kept and what connects is well typed, one token
\* request is in flight for a refresh token, and a login waits for a token only
\* while one has been asked for.
THEOREM ConnTypeCorrect == Spec => []ConnTypeOK
  BY ConnInit, ConnStep, ConnParts, PTL DEF Spec

\* No caller and no failure leaves a login outside the map, where closeAll would
\* not find it, and after closeAll none is open that it had to close.
THEOREM NoLoginLost == Spec => []NoStrayLogin
  BY ConnInit, ConnStep, ConnParts, PTL DEF Spec

(***************************************************************************)
(* Backoff.                                                                *)
(***************************************************************************)

\* The first n doublings.
UpTo(n) == {g \in [0..n -> Nat] : /\ g[0] = InitialBackoff
                                  /\ \A i \in 1..n : g[i] = 2 * g[i - 1]}

\* They exist, for any n.
LEMMA DoublingsExist == \A n \in Nat : UpTo(n) # {}
<1> DEFINE T == {n \in Nat : UpTo(n) = {}}
<1> SUFFICES ASSUME T # {} PROVE FALSE
  OBVIOUS
<1>1. PICK m \in T : \A k \in T : ~(<<k, m>> \in OpToRel(<, Nat))
  BY NatLessThanWellFounded, WFMin
<1>2. m \in Nat
  OBVIOUS
<1>3. CASE m = 0
  <2>1. [i \in 0..0 |-> InitialBackoff] \in UpTo(0)
    BY ConnectionsConstants DEF UpTo
  <2>2. QED
    BY <1>3, <2>1
<1>4. CASE m # 0
  <2>1. m - 1 \in Nat /\ m - 1 < m
    BY <1>2, <1>4
  <2>2. <<m - 1, m>> \in OpToRel(<, Nat)
    BY <1>2, <2>1 DEF OpToRel
  <2>3. PICK g \in UpTo(m - 1) : TRUE
    BY <1>1, <2>1, <2>2
  <2> DEFINE h == [i \in 0..m |-> IF i = m THEN 2 * g[m - 1] ELSE g[i]]
  <2>4. g \in [0..(m - 1) -> Nat] /\ g[0] = InitialBackoff
        /\ \A i \in 1..(m - 1) : g[i] = 2 * g[i - 1]
    BY <2>3 DEF UpTo
  <2>5. h \in [0..m -> Nat] /\ h[0] = InitialBackoff
    BY <1>2, <1>4, <2>1, <2>4
  <2>6. ASSUME NEW i \in 1..m PROVE h[i] = 2 * h[i - 1]
    BY <1>2, <2>1, <2>4
  <2>7. h \in UpTo(m)
    BY <2>5, <2>6 DEF UpTo
  <2>8. QED
    BY <2>7
<1>5. QED
  BY <1>3, <1>4

\* They go on as they began.
LEMMA DoublingsAgree ==
  ASSUME NEW n \in Nat, NEW g \in UpTo(n), NEW h \in UpTo(n + 1)
  PROVE  \A i \in 0..n : g[i] = h[i]
<1> DEFINE T == {i \in 0..n : g[i] # h[i]}
<1> SUFFICES ASSUME T # {} PROVE FALSE
  OBVIOUS
<1>1. T \subseteq Nat
  OBVIOUS
<1>2. PICK m \in T : \A k \in T : ~(<<k, m>> \in OpToRel(<, Nat))
  BY <1>1, NatLessThanWellFounded, WFMin
<1>3. m \in 0..n /\ g[m] # h[m]
  BY <1>2
<1>4. m # 0
  BY <1>3 DEF UpTo
<1>5. m - 1 \in 0..n /\ <<m - 1, m>> \in OpToRel(<, Nat)
  BY <1>3, <1>4 DEF OpToRel
<1>6. g[m - 1] = h[m - 1]
  BY <1>2, <1>5
<1>7. QED
  BY <1>3, <1>4, <1>6 DEF UpTo

\* So the delays are what their definition says.
LEMMA Doublings ==
  /\ Doubled \in [Nat -> Nat \ {0}]
  /\ Doubled[0] = InitialBackoff
  /\ \A n \in Nat : Doubled[n + 1] = 2 * Doubled[n]
<1> DEFINE G == [n \in Nat |-> (CHOOSE g \in UpTo(n) : TRUE)[n]]
<1>1. ASSUME NEW n \in Nat PROVE G[n + 1] = 2 * G[n] /\ G[n] \in Nat
  <2> DEFINE g == CHOOSE g \in UpTo(n) : TRUE
             h == CHOOSE h \in UpTo(n + 1) : TRUE
  <2>1. g \in UpTo(n) /\ h \in UpTo(n + 1)
    BY DoublingsExist
  <2>2. G[n] = g[n] /\ G[n + 1] = h[n + 1]
    OBVIOUS
  <2> HIDE DEF g, h, G
  <2>3. g[n] = h[n]
    BY <2>1, DoublingsAgree
  <2>4. h[n + 1] = 2 * h[n] /\ g[n] \in Nat
    BY <2>1 DEF UpTo
  <2>5. QED
    BY <2>2, <2>3, <2>4
<1>2. G[0] = InitialBackoff
  BY DoublingsExist DEF UpTo
<1> HIDE DEF G
<1>3. G = [n \in Nat |-> IF n = 0 THEN InitialBackoff ELSE 2 * G[n - 1]]
  <2>1. G = [n \in Nat |-> G[n]]
    BY DEF G
  <2>2. ASSUME NEW n \in Nat PROVE G[n] = IF n = 0 THEN InitialBackoff ELSE 2 * G[n - 1]
    <3>1. n # 0 => n - 1 \in Nat /\ n = (n - 1) + 1
      OBVIOUS
    <3>2. QED
      BY <1>1, <1>2, <3>1
  <2>3. QED
    BY <2>1, <2>2
<1>4. Doubled = [n \in Nat |-> IF n = 0 THEN InitialBackoff ELSE 2 * Doubled[n - 1]]
  BY <1>3 DEF Doubled
<1>5. Doubled[0] = InitialBackoff /\ \A n \in Nat : Doubled[n + 1] = 2 * Doubled[n]
  BY <1>4
<1> DEFINE T == {n \in Nat : Doubled[n] \notin Nat \ {0}}
<1>6. T = {}
  <2> SUFFICES ASSUME T # {} PROVE FALSE
    OBVIOUS
  <2>1. PICK m \in T : \A k \in T : ~(<<k, m>> \in OpToRel(<, Nat))
    BY NatLessThanWellFounded, WFMin
  <2>2. m # 0
    BY <1>5, ConnectionsConstants
  <2>3. m - 1 \in Nat /\ <<m - 1, m>> \in OpToRel(<, Nat) /\ m = (m - 1) + 1
    BY <2>2 DEF OpToRel
  <2>4. Doubled[m - 1] \in Nat \ {0}
    BY <2>1, <2>3
  <2>5. Doubled[m] = 2 * Doubled[m - 1]
    <3>1. Doubled[(m - 1) + 1] = 2 * Doubled[m - 1]
      BY <1>5, <2>3
    <3>2. QED
      BY <2>3, <3>1
  <2>6. Doubled[m] \in Nat \ {0}
    BY <2>4, <2>5
  <2>7. QED
    BY <2>1, <2>6
<1>7. QED
  BY <1>4, <1>5, <1>6

Least(delay) == delay - (delay - 1) \div 4

\* The delay that n failures in a row have come to.
DelayAfter(n) ==
  IF n = 0 THEN 0 ELSE IF Doubled[n - 1] < MaxBackoff THEN Doubled[n - 1] ELSE MaxBackoff

\* What is left of a window, with the time since the failure that opened it, is
\* no less than the shortest window for its delay, and the delay has grown with
\* each failure.
InWindow(s) ==
  failure[s].delay > 0 => since[s] + failure[s].wait >= Least(failure[s].delay)
WindowInv ==
  /\ failure \in [Slots -> [delay : 0..MaxBackoff, wait : 0..MaxBackoff]]
  /\ since \in [Slots -> 0..MaxBackoff]
  /\ streak \in [Slots -> Nat]
  /\ \A s \in Slots : failure[s].delay = DelayAfter(streak[s]) /\ InWindow(s)

\* The delay is positive from the first failure on, and the next is twice as long.
LEMMA DelayGrows ==
  ASSUME NEW n \in Nat
  PROVE  /\ DelayAfter(n) \in 0..MaxBackoff
         /\ DelayAfter(n) = 0 <=> n = 0
         /\ (IF DelayAfter(n) = 0 THEN InitialBackoff ELSE NextBackoff(DelayAfter(n)))
              = DelayAfter(IF Doubled[n] < 2 * MaxBackoff THEN n + 1 ELSE n)
<1>1. Doubled[n] \in Nat \ {0}
  BY Doublings
<1>2. CASE n = 0
  <2>1. Doubled[0] = InitialBackoff
    BY Doublings
  <2>2. QED
    BY <1>2, <2>1, ConnectionsConstants DEF DelayAfter
<1>3. CASE n # 0
  <2>1. n - 1 \in Nat /\ n = (n - 1) + 1
    BY <1>3
  <2>2. Doubled[n - 1] \in Nat \ {0} /\ Doubled[(n - 1) + 1] = 2 * Doubled[n - 1]
    BY <2>1, Doublings
  <2>3. Doubled[n] = 2 * Doubled[n - 1]
    BY <2>1, <2>2
  <2>4. QED
    BY <1>1, <1>3, <2>2, <2>3, ConnectionsConstants DEF DelayAfter, NextBackoff
<1>4. QED
  BY <1>2, <1>3

\* The shortest window is a positive part of the delay.
LEMMA LeastPart == \A delay \in 1..MaxBackoff : Least(delay) \in 1..delay
BY ConnectionsConstants DEF Least

\* A failure opens a window for the first delay, or for twice the last.
LEMMA FailureOpensWindow ==
  ASSUME WindowInv, NEW S \in SUBSET Slots, RecordFailure(S)
  PROVE  WindowInv'
<1> DEFINE Delay(s) == IF failure[s].delay = 0 THEN InitialBackoff ELSE NextBackoff(failure[s].delay)
<1>1. \A s \in S : Delay(s) \in 1..MaxBackoff
  BY ConnectionsConstants DEF WindowInv, NextBackoff
<1>2. PICK jitter \in [S -> 0..MaxBackoff] :
        /\ \A s \in S : Delay(s) - jitter[s] \in WithJitter(Delay(s))
        /\ failure' = [s \in Slots |->
             IF s \notin S THEN failure[s]
             ELSE [delay |-> Delay(s), wait |-> Delay(s) - jitter[s]]]
  BY DEF RecordFailure
<1>3. /\ since' = [s \in Slots |-> IF s \in S THEN 0 ELSE since[s]]
      /\ streak' = [s \in Slots |-> IF s \in S /\ Doubled[streak[s]] < 2 * MaxBackoff
                                    THEN streak[s] + 1 ELSE streak[s]]
  BY DEF RecordFailure
<1>9. \A s \in Slots :
        /\ streak[s] \in Nat
        /\ Delay(s) = DelayAfter(IF Doubled[streak[s]] < 2 * MaxBackoff THEN streak[s] + 1 ELSE streak[s])
  BY DelayGrows DEF WindowInv
<1> HIDE DEF Delay
<1>4. \A s \in S : /\ Delay(s) - jitter[s] \in 0..MaxBackoff
                   /\ Delay(s) - jitter[s] >= Least(Delay(s))
  <2> SUFFICES ASSUME NEW s \in S
               PROVE  /\ Delay(s) - jitter[s] \in 0..MaxBackoff
                      /\ Delay(s) - jitter[s] >= Least(Delay(s))
    OBVIOUS
  <2>1. PICK j \in 0..((Delay(s) - 1) \div 4) : Delay(s) - jitter[s] = Delay(s) - j
    BY <1>2 DEF WithJitter
  <2>2. (Delay(s) - 1) \div 4 \in 0..(Delay(s) - 1)
    BY <1>1
  <2>3. QED
    BY <1>1, <2>1, <2>2, ConnectionsConstants DEF Least
<1>5. failure' \in [Slots -> [delay : 0..MaxBackoff, wait : 0..MaxBackoff]]
  BY <1>1, <1>2, <1>4 DEF WindowInv
<1>6. since' \in [Slots -> 0..MaxBackoff] /\ streak' \in [Slots -> Nat]
  BY <1>3, ConnectionsConstants DEF WindowInv
<1>7. ASSUME NEW s \in Slots PROVE failure'[s].delay = DelayAfter(streak'[s]) /\ InWindow(s)'
  <2>1. CASE s \in S
    <3>1. failure'[s].delay = Delay(s) /\ failure'[s].wait = Delay(s) - jitter[s] /\ since'[s] = 0
      BY <1>2, <1>3, <2>1
    <3>2. InWindow(s)'
      BY <1>1, <1>4, <2>1, <3>1, ConnectionsConstants DEF InWindow, Least
    <3>3. failure'[s].delay = DelayAfter(streak'[s])
      BY <1>3, <1>9, <2>1, <3>1
    <3>4. QED
      BY <3>2, <3>3
  <2>2. CASE s \notin S
    <3>1. failure'[s] = failure[s] /\ since'[s] = since[s] /\ streak'[s] = streak[s]
      BY <1>2, <1>3, <2>2
    <3>2. QED
      BY <3>1 DEF InWindow, WindowInv
  <2>3. QED
    BY <2>1, <2>2
<1>8. QED
  BY <1>5, <1>6, <1>7 DEF WindowInv

\* Time shortens the wait by what it adds since the failure.
LEMMA WindowPasses == WindowInv /\ Tick => WindowInv'
<1> SUFFICES ASSUME WindowInv, Tick PROVE WindowInv'
  OBVIOUS
<1>1. \A s \in Slots :
        /\ failure[s].delay \in 0..MaxBackoff /\ failure[s].wait \in 0..MaxBackoff
        /\ since[s] \in 0..MaxBackoff
        /\ failure[s].delay > 0 <=> streak[s] > 0
  BY DelayGrows DEF WindowInv
<1>2. \A s \in Slots :
        /\ failure'[s].delay = failure[s].delay
        /\ failure'[s].wait = IF failure[s].wait = 0 THEN 0 ELSE failure[s].wait - 1
        /\ streak'[s] = streak[s]
        /\ since'[s] = IF streak[s] > 0 /\ since[s] < MaxBackoff
                       THEN since[s] + 1 ELSE since[s]
  BY DEF Tick, WindowInv
<1>3. failure' \in [Slots -> [delay : 0..MaxBackoff, wait : 0..MaxBackoff]]
  <2>1. failure' = [s \in Slots |->
                     [failure[s] EXCEPT !.wait = IF @ = 0 THEN 0 ELSE @ - 1]]
    BY DEF Tick
  <2>2. failure \in [Slots -> [delay : 0..MaxBackoff, wait : 0..MaxBackoff]]
    BY DEF WindowInv
  <2>3. QED
    BY <2>1, <2>2, ConnectionsConstants
<1>4. since' \in [Slots -> 0..MaxBackoff] /\ streak' \in [Slots -> Nat]
  BY ConnectionsConstants DEF Tick, WindowInv
<1>5. ASSUME NEW s \in Slots PROVE failure'[s].delay = DelayAfter(streak'[s]) /\ InWindow(s)'
  <2>1. failure[s].delay > 0 => Least(failure[s].delay) \in 1..MaxBackoff
    BY <1>1, LeastPart, ConnectionsConstants
  <2>2. InWindow(s) /\ failure[s].delay = DelayAfter(streak[s])
    BY DEF WindowInv
  <2> HIDE DEF Least
  <2>3. QED
    BY <1>1, <1>2, <2>1, <2>2, ConnectionsConstants DEF InWindow
<1>6. QED
  BY <1>3, <1>4, <1>5 DEF WindowInv

\* Every step keeps the windows.
LEMMA WindowStep == WindowInv /\ [Next]_vars => WindowInv'
<1> SUFFICES ASSUME WindowInv, [Next]_vars PROVE WindowInv'
  OBVIOUS
<1>1. ASSUME UNCHANGED <<failure, history>> PROVE WindowInv'
  BY <1>1 DEF WindowInv, InWindow, history
<1>2. ASSUME NEW s \in Slots, RecordSuccess(s) PROVE WindowInv'
  <2>1. DelayAfter(0) = 0
    BY DEF DelayAfter
  <2>2. QED
    BY <1>2, <2>1, ConnectionsConstants DEF RecordSuccess, WindowInv, InWindow
<1>3. ASSUME NEW a \in Accounts, TokenFails(a) PROVE WindowInv'
  <2>1. Asking(a) \in SUBSET Slots
    BY DEF Asking, Slots
  <2>2. QED
    BY <1>3, <2>1, FailureOpensWindow DEF TokenFails, Fail
<1>4. ASSUME NEW s \in Slots, LoginFails(s) PROVE WindowInv'
  BY <1>4, FailureOpensWindow DEF LoginFails, Fail
<1>5. ASSUME NEW s \in Slots, LoggedIn(s) \/ Kept(s) \/ LoggedOut(s) PROVE WindowInv'
  BY <1>1, <1>2, <1>5 DEF LoggedIn, Kept, LoggedOut, history
<1>6. ASSUME NEW k \in Callers,
             GetImapClient(k) \/ GetSmtpTransport(k) \/ Verified(k) \/ VerifyFails(k)
      PROVE  WindowInv'
  BY <1>1, <1>6 DEF GetImapClient, GetSmtpTransport, Verified, VerifyFails, history
<1>7. ASSUME NEW a \in Accounts, TokenAnswers(a) PROVE WindowInv'
  BY <1>1, <1>7 DEF TokenAnswers, history
<1>8. ASSUME NEW c \in Connections, Drops(c) PROVE WindowInv'
  BY <1>1, <1>8 DEF Drops, history
<1>9. CASE CloseAll \/ AwaitConnects \/ CloseHeld \/ Closed \/ UNCHANGED vars
  BY <1>1, <1>9 DEF CloseAll, AwaitConnects, CloseHeld, Closed, vars, history
<1>10. QED
  BY <1>3, <1>4, <1>5, <1>6, <1>7, <1>8, <1>9, WindowPasses DEF Next

\* A connect starts only when its window is over.
LEMMA ConnectsWhenReady ==
  ASSUME ConnInv, [Next]_vars, NEW s \in Slots,
         attempt[s].stage = "none", attempt'[s].stage # "none"
  PROVE  Ready(s)
<1> USE DEF ConnInv, ConnTypes
<1>1. ASSUME NEW k \in Callers, NEW t \in Slots, Connect(k, t) PROVE Ready(s)
  <2>1. attempt' = attempt \/ (Ready(t) /\ StartConnect(t))
    BY <1>1 DEF Connect
  <2>2. StartConnect(t) => t = s
    BY DEF StartConnect
  <2>3. QED
    BY <2>1, <2>2
<1>2. ASSUME NEW k \in Callers,
             GetImapClient(k) \/ GetSmtpTransport(k) \/ Verified(k) \/ VerifyFails(k)
      PROVE  Ready(s)
  <2>1. \A key \in Keys : GetAccount(key) \subseteq Accounts
    BY DEF GetAccount, FindAccountByKey
  <2>2. \A a \in Accounts : <<a, "IMAP">> \in Slots /\ <<a, "SMTP">> \in Slots
    BY DEF Slots, Protocols
  <2>3. CASE GetImapClient(k)
    BY <1>1, <2>1, <2>2, <2>3 DEF GetImapClient
  <2>4. CASE GetSmtpTransport(k)
    BY <1>1, <2>1, <2>2, <2>4 DEF GetSmtpTransport
  <2>5. CASE Verified(k)
    BY <2>5 DEF Verified, mapVars
  <2>6. CASE VerifyFails(k)
    BY <1>1, <2>6 DEF VerifyFails, Sharing
  <2>7. QED
    BY <1>2, <2>3, <2>4, <2>5, <2>6
<1>3. ASSUME NEW a \in Accounts, TokenAnswers(a) \/ TokenFails(a) PROVE FALSE
  <2>1. s \notin Asking(a)
    BY DEF Asking
  <2>2. QED
    BY <1>3, <2>1 DEF TokenAnswers, TokenFails, Fail, NoAttempt
<1>4. ASSUME NEW t \in Slots, LoggedIn(t) \/ LoginFails(t) \/ Kept(t) \/ LoggedOut(t) PROVE FALSE
  BY <1>4 DEF LoggedIn, LoginFails, Fail, Kept, LoggedOut, NoAttempt
<1>5. CASE Tick \/ CloseAll \/ AwaitConnects \/ CloseHeld \/ Closed \/ UNCHANGED vars
  BY <1>5 DEF Tick, CloseAll, AwaitConnects, CloseHeld, Closed, vars, mapVars
<1>6. ASSUME NEW c \in Connections, Drops(c) PROVE FALSE
  BY <1>6 DEF Drops
<1>7. QED
  BY <1>2, <1>3, <1>4, <1>5, <1>6 DEF Next

\* However many calls come, and whichever of them fail, no connect starts sooner
\* after n failures in a row than the shortest of the n-th windows.
THEOREM ConnectsAfterWindow == Spec => BackoffKept
<1>1. Init => WindowInv
  <2>1. DelayAfter(0) = 0
    BY DEF DelayAfter
  <2>2. QED
    BY <2>1, ConnectionsConstants DEF Init, WindowInv, InWindow
<1>2. ASSUME ConnInv, WindowInv, [Next]_vars, NEW s \in Slots,
             attempt[s].stage = "none", attempt'[s].stage # "none", streak[s] > 0
      PROVE  since[s] >= Window(streak[s])
  <2>1. failure[s].wait = 0
    BY <1>2, ConnectsWhenReady DEF Ready
  <2>2. failure[s].delay = DelayAfter(streak[s]) /\ InWindow(s) /\ streak[s] \in Nat
    BY <1>2 DEF WindowInv
  <2>3. failure[s].delay > 0 /\ since[s] \in 0..MaxBackoff
    BY <1>2, <2>2, DelayGrows DEF WindowInv
  <2>4. since[s] >= Least(failure[s].delay)
    BY <2>1, <2>2, <2>3, ConnectionsConstants DEF InWindow
  <2>5. Window(streak[s]) = Least(failure[s].delay)
    BY <1>2, <2>2 DEF Window, Least, DelayAfter
  <2>6. QED
    BY <2>4, <2>5
<1>3. ConnInv /\ WindowInv /\ [Next]_vars =>
        [\A s \in Slots :
           attempt[s].stage = "none" /\ attempt'[s].stage # "none" /\ streak[s] > 0
           => since[s] >= Window(streak[s])]_vars
  BY <1>2
<1>4. QED
  BY <1>1, <1>3, ConnInit, ConnStep, WindowStep, PTL DEF Spec, BackoffKept
=============================================================================
