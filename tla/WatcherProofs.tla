--------------------------- MODULE WatcherProofs ---------------------------
(***************************************************************************)
(* Proofs about Watcher, for any number of connects, fetches, runs, UIDs,  *)
(* renumberings and failures.                                              *)
(***************************************************************************)
EXTENDS Watcher, FiniteSetTheorems, WellFoundedInduction, TLAPS

(***************************************************************************)
(* The inductive invariant.                                                *)
(***************************************************************************)

FetchCalls == [step : {"none", "lock", "emit"}, run : 0..MaxRuns,
              client : Clients \cup {NoClient}, found : SUBSET Uids]

WatcherTypes ==
  /\ uidNext \in 1..(MaxUid + 1) /\ mail \subseteq 1..(uidNext - 1)
  /\ epoch \in 1..MaxEpoch
  /\ idle \in [Runs -> IdleState]
  /\ current \in 0..MaxRuns
  /\ stopping \in BOOLEAN
  /\ call \in [Clients -> [step : CallSteps, run : 0..MaxRuns, behind : BOOLEAN]]
  /\ conn \in [Clients -> {"closed", "login", "usable", "idling"}]
  /\ notice \in [Clients -> BOOLEAN]
  /\ fetch \in [Fetches -> FetchCalls]
  /\ drops \in 0..MaxDrops
  /\ reported \in [1..MaxEpoch -> [Uids -> Nat]]
  /\ base \in 0..MaxUid

\* Of a run that is not in the map nothing is left but whether it was stopped.
RunOK(r) ==
  /\ r # current => idle[r].client = NoClient /\ ~idle[r].timer /\ idle[r].uidValidity = 0
  /\ r = current => (idle[r].stopped <=> stopping)
  /\ idle[r].stopped => ~idle[r].timer
StopOK == stopping => Watching

\* A call belongs to the run in the map, or to one that was stopped while it ran;
\* an open connection is that run's client and is where its call has brought it.
CallOK(c) ==
  /\ call[c].step # "none" =>
       /\ call[c].run \in Runs
       /\ call[c].run = current \/ (current = 0 /\ idle[call[c].run].stopped)
  /\ conn[c] = "login" => call[c].step = "connect"
  /\ conn[c] = "usable" => call[c].step = "open"
  /\ conn[c] = "idling" => call[c].step \in {"logged", "none"}
  /\ notice[c] => Selected(c)
  /\ conn[c] # "closed" <=> Watching /\ idle[current].client = c

\* A watcher that runs has one thing under way: a retry it waits for, a call that
\* gets its credentials, or a client.  A call that is failing is none of them,
\* and stands in the way of the last two.
OneUnderWay ==
  Watching /\ ~idle[current].stopped =>
    /\ idle[current].timer => idle[current].client = NoClient
    /\ \A c \in Clients :
         /\ Failing(c) => idle[current].client = NoClient
         /\ call[c].step = "auth" =>
              /\ idle[current].client = NoClient
              /\ ~idle[current].timer
              /\ \A d \in Clients : ~Failing(d) /\ (call[d].step = "auth" => d = c)

ConnInv == (\A r \in Runs : RunOK(r)) /\ StopOK /\ (\A c \in Clients : CallOK(c)) /\ OneUnderWay

FetchOK(f) ==
  LET c == fetch[f].client
  IN fetch[f].step # "none" =>
       /\ c \in Clients /\ call[c].step # "auth"
       /\ conn[c] # "closed" => fetch[f].run = current
       /\ fetch[f].step = "emit" => conn[c] \in {"closed", "idling"}
       /\ fetch[f].step = "emit" /\ Selected(c) =>
            /\ fetch[f].found \subseteq 1..(uidNext - 1)
            /\ \A u \in mail \ fetch[f].found :
                 u > idle[current].lastSeenUid => \A v \in fetch[f].found : v < u

SeenOK ==
  /\ \A c \in Clients : Selected(c) => idle[current].uidValidity = epoch
  /\ Watching => idle[current].uidValidity <= epoch
  /\ Watching /\ idle[current].uidValidity = epoch =>
       /\ idle[current].lastSeenUid < uidNext
       /\ \A u \in Uids : reported[epoch][u] > 0 => u <= idle[current].lastSeenUid
  /\ \A e \in 1..MaxEpoch, u \in Uids :
       reported[e][u] > 0 => e < epoch \/ (e = epoch /\ u < uidNext)

ReportInv == (\A f \in Fetches : FetchOK(f)) /\ SeenOK /\ ReportedOnce /\ NoneSkipped

WatcherInv == WatcherTypes /\ ConnInv /\ ReportInv

(***************************************************************************)
(* Lemmas about the model's operators.                                     *)
(***************************************************************************)

\* A set of UIDs that is not empty has a largest one.
LEMMA MaxOf ==
  ASSUME NEW S \in SUBSET Uids, S # {}
  PROVE  Max(S) \in S /\ \A u \in S : u <= Max(S)
<1> DEFINE R == {p \in Uids \X Uids : p[1] > p[2]}
<1>0. MaxUid \in Nat /\ \A u \in Uids : u \in Nat /\ u <= MaxUid
  BY WatcherConstants DEF Uids
<1> HIDE DEF Uids
<1>1. IsWellFoundedOn(R, Uids)
  <2> SUFFICES ASSUME NEW f \in [Nat -> Uids], \A n \in Nat : <<f[n+1], f[n]>> \in R PROVE FALSE
    BY DEF IsWellFoundedOn
  <2>1. \A n \in Nat : f[n] \in Nat /\ f[n] <= MaxUid /\ n + 1 \in Nat
    <3>1. \A n \in Nat : f[n] \in Uids /\ n + 1 \in Nat
      OBVIOUS
    <3> HIDE DEF R
    <3>2. QED
      BY <1>0, <3>1
  <2>2. ASSUME NEW n \in Nat PROVE f[n+1] > f[n]
    <3>1. <<f[n+1], f[n]>> \in R
      OBVIOUS
    <3>2. QED
      BY <3>1
  <2> DEFINE g == [n \in Nat |-> MaxUid - f[n]]
  <2>3. \A n \in Nat : g[n] \in Nat /\ g[n+1] = MaxUid - f[n+1] /\ g[n] = MaxUid - f[n]
    BY <1>0, <2>1
  <2>4. g \in [Nat -> Nat]
    BY <2>3
  <2> HIDE DEF g
  <2>5. \A n \in Nat : <<g[n+1], g[n]>> \in OpToRel(<, Nat)
    BY <1>0, <2>1, <2>2, <2>3 DEF OpToRel
  <2>6. QED
    BY <2>4, <2>5, NatLessThanWellFounded DEF IsWellFoundedOn
<1>2. PICK m \in S : \A u \in S : ~(<<u, m>> \in R)
  BY <1>1, WFMin
<1>3. ASSUME NEW u \in S PROVE u \in Nat /\ m >= u
  <2>1. u \in Uids /\ m \in Uids /\ u \in Nat /\ m \in Nat
    BY <1>0
  <2>2. ~(<<u, m>> \in R)
    BY <1>2
  <2>3. QED
    BY <2>1, <2>2
<1>4. Max(S) \in S /\ \A u \in S : Max(S) >= u
  BY <1>3 DEF Max
<1>5. QED
  BY <1>3, <1>4

\* The least value of each counter is in its range.
LEMMA Zeros ==
  /\ 0 \in 0..MaxUid /\ 0 \in 0..MaxEpoch /\ 0 \in 0..MaxRuns
  /\ \A n \in 1..MaxRuns : n # 0
BY WatcherConstants

\* What asking for a retry does to an IdleState, field by field.
LEMMA RetryFields ==
  ASSUME NEW s \in IdleState
  PROVE  /\ WithRetry(s) \in IdleState
         /\ WithRetry(s).client = s.client /\ WithRetry(s).stopped = s.stopped
         /\ WithRetry(s).lastSeenUid = s.lastSeenUid /\ WithRetry(s).uidValidity = s.uidValidity
         /\ WithRetry(s).timer <=> s.timer \/ ~s.stopped
BY DEF WithRetry, IdleState

\* What the close event of c does.
LEMMA ForgetFields ==
  ASSUME NEW s \in IdleState, NEW c \in Clients
  PROVE  /\ Forget(c, s) \in IdleState
         /\ Forget(c, s).stopped = s.stopped
         /\ Forget(c, s).lastSeenUid = s.lastSeenUid /\ Forget(c, s).uidValidity = s.uidValidity
         /\ s.client # c => Forget(c, s) = s
         /\ s.client = c => /\ Forget(c, s).client = NoClient
                            /\ Forget(c, s).timer <=> s.timer \/ ~s.stopped
<1>1. CASE s.client # c
  BY <1>1 DEF Forget
<1>2. CASE s.client = c
  <2> DEFINE t == [s EXCEPT !.client = NoClient]
  <2>1. /\ t \in IdleState /\ t.client = NoClient /\ t.stopped = s.stopped /\ t.timer = s.timer
        /\ t.lastSeenUid = s.lastSeenUid /\ t.uidValidity = s.uidValidity
    BY DEF IdleState
  <2>2. Forget(c, s) = WithRetry(t)
    BY <1>2 DEF Forget
  <2> HIDE DEF t
  <2>3. QED
    BY <1>2, <2>1, <2>2, RetryFields
<1>3. QED
  BY <1>1, <1>2

\* A connection that closes touches the state of the run in the map, if it is
\* that state's client, and nothing of it but client and timer.
LEMMA CloseFields ==
  ASSUME WatcherTypes, NEW c \in Clients, Close(c)
  PROVE  /\ conn' = [conn EXCEPT ![c] = "closed"] /\ notice' = [notice EXCEPT ![c] = FALSE]
         /\ conn' \in [Clients -> {"closed", "login", "usable", "idling"}]
         /\ notice' \in [Clients -> BOOLEAN]
         /\ idle' \in [Runs -> IdleState]
         /\ \A r \in Runs :
              /\ idle'[r].stopped = idle[r].stopped
              /\ idle'[r].lastSeenUid = idle[r].lastSeenUid
              /\ idle'[r].uidValidity = idle[r].uidValidity
              /\ r # current \/ idle[r].client # c => idle'[r] = idle[r]
              /\ r = current /\ idle[r].client = c =>
                   /\ idle'[r].client = NoClient
                   /\ idle'[r].timer <=> idle[r].timer \/ ~idle[r].stopped
<1>1. \A r \in Runs : idle[r] \in IdleState
  BY DEF WatcherTypes
<1>2. \A r \in Runs : idle'[r] = IF r = current THEN Forget(c, idle[r]) ELSE idle[r]
  BY DEF Close
<1>3. \A r \in Runs : idle'[r] \in IdleState
  BY <1>1, <1>2, ForgetFields
<1>4. idle' \in [Runs -> IdleState]
  BY <1>3 DEF Close
<1>5. QED
  BY <1>1, <1>2, <1>4, ForgetFields DEF Close, WatcherTypes

\* Renumbering leaves no more UIDs than there were.
LEMMA FewerUids ==
  ASSUME WatcherTypes
  PROVE  Cardinality(mail) \in 0..(uidNext - 1)
<1>1. uidNext \in Nat /\ uidNext - 1 \in Nat
  BY WatcherConstants DEF WatcherTypes
<1>2. IsFiniteSet(1..(uidNext - 1)) /\ Cardinality(1..(uidNext - 1)) = uidNext - 1
  BY <1>1, FS_Interval
<1>3. IsFiniteSet(mail) /\ Cardinality(mail) <= Cardinality(1..(uidNext - 1))
  BY <1>2, FS_Subset DEF WatcherTypes
<1>4. Cardinality(mail) \in Nat
  BY <1>3, FS_CardinalityType
<1>5. QED
  BY <1>1, <1>2, <1>3, <1>4

(***************************************************************************)
(* Types.                                                                  *)
(***************************************************************************)

\* handleNewEmails captures the run in the map and its client.
LEMMA HandleTyped ==
  ASSUME WatcherTypes, Handle
  PROVE  /\ fetch' \in [Fetches -> FetchCalls]
         /\ \A f \in Fetches :
              \/ fetch'[f] = fetch[f]
              \/ /\ Watching /\ idle[current].client \in Clients
                 /\ fetch'[f].step = "lock" /\ fetch'[f].run = current
                 /\ fetch'[f].client = idle[current].client
<1>1. CASE fetch' = fetch
  BY <1>1 DEF WatcherTypes
<1>2. CASE fetch' # fetch
  <2>1. Watching /\ idle[current].client # NoClient
    BY <1>2 DEF Handle
  <2>2. current \in Runs /\ idle[current].client \in Clients
    BY <2>1, WatcherConstants DEF WatcherTypes, Watching, Runs, IdleState
  <2>3. PICK f \in Fetches :
          fetch' = [fetch EXCEPT ![f] = [NoFetch EXCEPT !.step = "lock", !.run = current,
                                                        !.client = idle[current].client]]
    BY <1>2 DEF Handle
  <2>4. PICK t : t = [NoFetch EXCEPT !.step = "lock", !.run = current,
                                     !.client = idle[current].client]
    OBVIOUS
  <2>5. /\ t \in FetchCalls /\ t.step = "lock" /\ t.run = current
        /\ t.client = idle[current].client
    BY <2>2, <2>4 DEF FetchCalls, NoFetch, WatcherTypes
  <2>6. fetch' = [fetch EXCEPT ![f] = t]
    BY <2>3, <2>4
  <2>7. QED
    BY <2>1, <2>2, <2>5, <2>6 DEF WatcherTypes
<1>3. QED
  BY <1>1, <1>2

\* Mail, folder and connections: what is not the watcher's own doing.
LEMMA ServerTypes ==
  ASSUME WatcherTypes,
         Deliver \/ Renumber \/ (\E u \in mail : Expunge(u)) \/ \E c \in Clients : Drop(c)
  PROVE  WatcherTypes'
<1> USE WatcherConstants
<1>1. CASE Deliver
  <2>1. uidNext' = uidNext + 1 /\ uidNext' \in 1..(MaxUid + 1)
    BY <1>1 DEF Deliver, WatcherTypes
  <2>2. mail' \subseteq 1..(uidNext' - 1)
    BY <1>1, <2>1 DEF Deliver, WatcherTypes
  <2>3. notice' \in [Clients -> BOOLEAN]
    BY <1>1 DEF Deliver, WatcherTypes
  <2>4. QED
    BY <1>1, <2>1, <2>2, <2>3 DEF Deliver, WatcherTypes
<1>2. CASE Renumber
  <2>1. epoch' \in 1..MaxEpoch
    BY <1>2 DEF Renumber, WatcherTypes
  <2>2. uidNext \in 1..(MaxUid + 1)
    BY DEF WatcherTypes
  <2>3. uidNext' \in 1..(MaxUid + 1) /\ mail' = 1..(uidNext' - 1)
    BY <1>2, <2>2, FewerUids DEF Renumber
  <2>4. QED
    BY <1>2, <2>1, <2>3 DEF Renumber, WatcherTypes
<1>3. ASSUME NEW u \in mail, Expunge(u) PROVE WatcherTypes'
  BY <1>3 DEF Expunge, WatcherTypes
<1>4. ASSUME NEW c \in Clients, Drop(c) PROVE WatcherTypes'
  <2>1. Close(c) /\ drops' \in 0..MaxDrops
    BY <1>4 DEF Drop, WatcherTypes
  <2>2. QED
    BY <1>4, <2>1, CloseFields DEF Drop, WatcherTypes, serverVars
<1>5. QED
  BY <1>1, <1>2, <1>3, <1>4

\* A call that gets its credentials for a run that was not stopped goes on as the
\* client of the run in the map, which is its own.
LEMMA AuthFields ==
  ASSUME WatcherTypes, NEW c \in Clients, CallOK(c), Authenticated(c)
  PROVE  /\ call' = [call EXCEPT ![c].step = call'[c].step]
         /\ call'[c].step \in {"none", "connect"}
         /\ IF idle[call[c].run].stopped
            THEN call'[c].step = "none" /\ UNCHANGED <<conn, idle>>
            ELSE /\ current \in Runs /\ ~idle[current].stopped
                 /\ call'[c].step = "connect"
                 /\ conn' = [conn EXCEPT ![c] = "login"]
                 /\ idle' \in [Runs -> IdleState]
                 /\ \A r \in Runs \ {current} : idle'[r] = idle[r]
                 /\ idle'[current].client = c
                 /\ idle'[current].timer = idle[current].timer
                 /\ idle'[current].stopped = idle[current].stopped
                 /\ idle'[current].lastSeenUid = idle[current].lastSeenUid
                 /\ idle'[current].uidValidity = idle[current].uidValidity
<1> USE DEF WatcherTypes
<1>0. ASSUME NEW step \in CallSteps, CallAt(c, step)
      PROVE  call'[c].step = step /\ call' = [call EXCEPT ![c].step = call'[c].step]
  <2>1. call' = [call EXCEPT ![c].step = step]
    BY <1>0 DEF CallAt
  <2>2. call'[c].step = step
    BY <2>1
  <2>3. QED
    BY <2>1, <2>2
<1>1. CASE idle[call[c].run].stopped
  <2>1. CallAt(c, "none") /\ UNCHANGED <<conn, idle>>
    BY <1>1 DEF Authenticated
  <2>2. QED
    BY <1>0, <1>1, <2>1 DEF CallSteps
<1>2. CASE ~idle[call[c].run].stopped
  <2>1. call[c].run \in Runs /\ call[c].run = current
    BY <1>2 DEF CallOK, Authenticated
  <2>2. CallAt(c, "connect") /\ conn' = [conn EXCEPT ![c] = "login"]
    BY <1>2 DEF Authenticated
  <2>3. idle' = [idle EXCEPT ![current] = [idle[current] EXCEPT !.client = c]]
    BY <1>2 DEF Authenticated
  <2>4. PICK t : t = [idle[current] EXCEPT !.client = c]
    OBVIOUS
  <2>5. /\ t \in IdleState /\ t.client = c /\ t.timer = idle[current].timer
        /\ t.stopped = idle[current].stopped /\ t.lastSeenUid = idle[current].lastSeenUid
        /\ t.uidValidity = idle[current].uidValidity
    <3>1. idle[current] \in IdleState
      BY <2>1
    <3>2. QED
      BY <2>4, <3>1 DEF IdleState
  <2>6. idle' = [idle EXCEPT ![current] = t]
    BY <2>3, <2>4
  <2>7. /\ idle' \in [Runs -> IdleState] /\ idle'[current] = t
        /\ \A r \in Runs \ {current} : idle'[r] = idle[r]
    BY <2>1, <2>5, <2>6
  <2>8. call'[c].step = "connect" /\ call' = [call EXCEPT ![c].step = call'[c].step]
    BY <1>0, <2>2 DEF CallSteps
  <2>9. ~idle[current].stopped
    BY <1>2, <2>1
  <2>10. QED
    BY <1>2, <2>1, <2>2, <2>5, <2>7, <2>8, <2>9
<1>3. QED
  BY <1>1, <1>2

\* An opened folder belongs to the run in the map, which carries on after the
\* last UID it saw or starts at the newest.
LEMMA OpenedFields ==
  ASSUME WatcherTypes, NEW c \in Clients, CallOK(c), Opened(c)
  PROVE  /\ current \in Runs /\ idle[current].client = c
         /\ call[c].step = "open" /\ conn[c] = "usable"
         /\ conn' = [conn EXCEPT ![c] = "idling"]
         /\ call' \in [Clients -> [step : CallSteps, run : 0..MaxRuns, behind : BOOLEAN]]
         /\ call'[c].step = "logged" /\ call'[c].run = call[c].run
         /\ \A d \in Clients \ {c} : call'[d] = call[d]
         /\ idle' \in [Runs -> IdleState]
         /\ \A r \in Runs \ {current} : idle'[r] = idle[r]
         /\ idle'[current].client = idle[current].client
         /\ idle'[current].timer = idle[current].timer
         /\ idle'[current].stopped = idle[current].stopped
         /\ idle'[current].uidValidity = epoch
         /\ idle'[current].lastSeenUid \in 0..MaxUid
         /\ IF idle[current].uidValidity = epoch
            THEN idle'[current].lastSeenUid = idle[current].lastSeenUid /\ base' = base
            ELSE idle'[current].lastSeenUid = uidNext - 1 /\ base' = uidNext - 1
         /\ UNCHANGED <<mail, uidNext, epoch, current, stopping, notice, fetch, drops, reported>>
<1> USE WatcherConstants DEF WatcherTypes
<1>1. call[c].step = "open" /\ conn[c] = "usable"
  BY DEF Opened
<1>2. current \in Runs /\ idle[current].client = c /\ call[c].run = current
  <2>1. call[c].step # "none" /\ conn[c] # "closed"
    BY <1>1
  <2>2. Watching /\ idle[current].client = c /\ call[c].run = current
    BY <2>1 DEF CallOK, Watching
  <2>3. QED
    BY <2>2 DEF Watching, Runs
<1>3. PICK resume \in 0..MaxUid :
        resume = IF idle[current].uidValidity = epoch THEN idle[current].lastSeenUid ELSE uidNext - 1
  <2>1. idle[current].lastSeenUid \in 0..MaxUid
    BY <1>2 DEF IdleState
  <2>2. uidNext - 1 \in 0..MaxUid
    OBVIOUS
  <2>3. QED
    BY <2>1, <2>2
<1>4. resume = ResumeAfter(idle[call[c].run])
  BY <1>2, <1>3 DEF ResumeAfter
<1>5. PICK behind \in BOOLEAN : behind = (uidNext - 1 > resume)
  <2>1. CASE uidNext - 1 > resume
    <3>1. (uidNext - 1 > resume) = TRUE
      BY <2>1
    <3>2. WITNESS TRUE \in BOOLEAN
    <3>3. QED
      BY <3>1
  <2>2. CASE ~(uidNext - 1 > resume)
    <3>1. (uidNext - 1 > resume) = FALSE
      BY <2>2
    <3>2. WITNESS FALSE \in BOOLEAN
    <3>3. QED
      BY <3>1
  <2>3. QED
    BY <2>1, <2>2
<1>6. call' = [call EXCEPT ![c].step = "logged", ![c].behind = behind]
  BY <1>4, <1>5 DEF Opened
<1>7. PICK t : t = [idle[current] EXCEPT !.lastSeenUid = resume, !.uidValidity = epoch]
  OBVIOUS
<1>8. /\ t \in IdleState /\ t.client = idle[current].client /\ t.timer = idle[current].timer
      /\ t.stopped = idle[current].stopped /\ t.lastSeenUid = resume /\ t.uidValidity = epoch
  <2>1. idle[current] \in IdleState /\ epoch \in 0..MaxEpoch
    BY <1>2
  <2>2. QED
    BY <1>7, <2>1 DEF IdleState
<1>9. idle' = [q \in Runs |-> IF q = current THEN t ELSE idle[q]]
  BY <1>4, <1>7 DEF Opened
<1>10. base' = IF idle[current].uidValidity = epoch THEN base ELSE resume
  BY <1>2, <1>4 DEF Opened
<1>11. UNCHANGED <<mail, uidNext, epoch, current, stopping, notice, fetch, drops, reported>>
       /\ conn' = [conn EXCEPT ![c] = "idling"]
  BY DEF Opened, serverVars
<1>12. /\ call' \in [Clients -> [step : CallSteps, run : 0..MaxRuns, behind : BOOLEAN]]
       /\ call'[c].step = "logged" /\ call'[c].run = call[c].run
       /\ \A d \in Clients \ {c} : call'[d] = call[d]
  BY <1>6 DEF CallSteps
<1>13. QED
  BY <1>1, <1>2, <1>3, <1>8, <1>9, <1>10, <1>11, <1>12

\* connectIdle.
LEMMA ConnectTypes ==
  ASSUME WatcherTypes, NEW c \in Clients, CallOK(c),
         \/ Start(c) \/ Retry(c) \/ Authenticated(c) \/ AuthFails(c) \/ LoggedIn(c) \/ Opened(c)
         \/ ConnectFails(c) \/ AskRetry(c)
  PROVE  WatcherTypes'
<1> USE WatcherConstants DEF WatcherTypes, serverVars
<1> DEFINE CallTypes == [step : CallSteps, run : 0..MaxRuns, behind : BOOLEAN]
<1>1. ASSUME NEW step \in CallSteps, CallAt(c, step) PROVE call' \in [Clients -> CallTypes]
  BY <1>1 DEF CallAt
<1>2. CASE Start(c)
  <2>1. call' \in [Clients -> CallTypes] /\ current' \in 0..MaxRuns
    BY <1>2 DEF Start, CallSteps, Runs
  <2>2. QED
    BY <1>2, <2>1 DEF Start
<1>3. CASE Retry(c)
  <2>1. call' \in [Clients -> CallTypes]
    BY <1>3 DEF Retry, CallSteps
  <2>2. idle' \in [Runs -> IdleState]
    <3>1. idle' = [idle EXCEPT ![current].timer = FALSE] /\ idle \in [Runs -> IdleState]
      BY <1>3 DEF Retry
    <3>2. ASSUME NEW s \in IdleState PROVE [s EXCEPT !.timer = FALSE] \in IdleState
      BY ONLY <3>2 DEF IdleState
    <3>3. QED
      BY ONLY <3>1, <3>2
  <2>3. QED
    BY <1>3, <2>1, <2>2 DEF Retry
<1>4. CASE Authenticated(c)
  <2>1. call' \in [Clients -> CallTypes]
    BY <1>1, <1>4 DEF Authenticated, CallSteps
  <2>2. CASE idle[call[c].run].stopped
    <3>1. UNCHANGED <<conn, idle>>
      BY <1>4, <2>2, AuthFields
    <3>2. QED
      BY <1>4, <2>1, <3>1 DEF Authenticated
  <2>4. CASE ~idle[call[c].run].stopped
    <3>1. idle' \in [Runs -> IdleState] /\ conn' = [conn EXCEPT ![c] = "login"]
      BY <1>4, <2>4, AuthFields
    <3>2. QED
      BY <1>4, <2>1, <3>1 DEF Authenticated
  <2>5. QED
    BY <2>2, <2>4
<1>5. CASE AuthFails(c)
  <2>1. call' \in [Clients -> CallTypes] /\ drops' \in 0..MaxDrops
    BY <1>1, <1>5 DEF AuthFails, CallSteps
  <2>2. QED
    BY <1>5, <2>1 DEF AuthFails
<1>6. CASE LoggedIn(c)
  <2>1. call' \in [Clients -> CallTypes]
    BY <1>1, <1>6 DEF LoggedIn, CallSteps
  <2>2. QED
    BY <1>6, <2>1 DEF LoggedIn
<1>7. CASE Opened(c)
  <2>1. /\ base' = base \/ base' = uidNext - 1
        /\ conn' = [conn EXCEPT ![c] = "idling"]
        /\ UNCHANGED <<mail, uidNext, epoch, current, stopping, notice, fetch, drops, reported>>
        /\ idle' \in [Runs -> IdleState]
        /\ call' \in [Clients -> CallTypes]
    BY <1>7, OpenedFields
  <2>2. base' \in 0..MaxUid
    BY <2>1
  <2>3. conn' \in [Clients -> {"closed", "login", "usable", "idling"}]
    BY <2>1
  <2>4. QED
    BY <2>1, <2>2, <2>3
<1>8. CASE ConnectFails(c)
  <2>1. call' \in [Clients -> CallTypes] /\ drops' \in 0..MaxDrops /\ Close(c)
    BY <1>1, <1>8 DEF ConnectFails, CallSteps
  <2>2. QED
    BY <1>8, <2>1, CloseFields DEF ConnectFails
<1>9. CASE AskRetry(c)
  <2>1. call' \in [Clients -> CallTypes]
    BY <1>1, <1>9 DEF AskRetry, CallSteps
  <2>2. \A r \in Runs : WithRetry(idle[r]) \in IdleState
    BY RetryFields
  <2>3. idle' \in [Runs -> IdleState]
    BY <1>9, <2>2 DEF AskRetry
  <2>4. QED
    BY <1>9, <2>1, <2>3 DEF AskRetry
<1>10. QED
  BY <1>2, <1>3, <1>4, <1>5, <1>6, <1>7, <1>8, <1>9

\* The fetch that is answered: what is above lastSeenUid goes out and moves it on.
LEMMA EmitFields ==
  ASSUME WatcherTypes, NEW f \in Fetches, Emit(f)
  PROVE  /\ fetch[f].step = "emit" /\ Selected(fetch[f].client)
         /\ NewOf(f) \subseteq fetch[f].found /\ fetch[f].found \subseteq Uids
         /\ fetch' = [fetch EXCEPT ![f] = NoFetch]
         /\ reported' \in [1..MaxEpoch -> [Uids -> Nat]]
         /\ \A e \in 1..MaxEpoch \ {epoch} : reported'[e] = reported[e]
         /\ \A u \in NewOf(f) : reported'[epoch][u] = reported[epoch][u] + 1
         /\ \A u \in Uids \ NewOf(f) : reported'[epoch][u] = reported[epoch][u]
         /\ idle' \in [Runs -> IdleState]
         /\ \A r \in Runs :
              /\ r # current \/ NewOf(f) = {} => idle'[r] = idle[r]
              /\ r = current /\ NewOf(f) # {} =>
                   /\ idle'[r].client = idle[r].client /\ idle'[r].timer = idle[r].timer
                   /\ idle'[r].stopped = idle[r].stopped
                   /\ idle'[r].uidValidity = idle[r].uidValidity
                   /\ idle'[r].lastSeenUid \in NewOf(f)
                   /\ \A u \in NewOf(f) : u <= idle'[r].lastSeenUid
         /\ UNCHANGED <<mail, uidNext, epoch, current, stopping, call, conn, notice, drops, base>>
<1>1. fetch[f].found \subseteq Uids /\ NewOf(f) \subseteq fetch[f].found
  BY DEF WatcherTypes, FetchCalls, NewOf
<1>2. PICK new \in SUBSET Uids : new = NewOf(f)
  BY <1>1
<1>3. PICK row : row = [u \in Uids |-> IF u \in new THEN reported[epoch][u] + 1
                                               ELSE reported[epoch][u]]
  OBVIOUS
<1>4. reported' = [reported EXCEPT ![epoch] = row]
  BY <1>2, <1>3 DEF Emit
<1>5. row \in [Uids -> Nat]
  BY <1>3 DEF WatcherTypes
<1>6. /\ reported' \in [1..MaxEpoch -> [Uids -> Nat]] /\ reported'[epoch] = row
      /\ \A e \in 1..MaxEpoch \ {epoch} : reported'[e] = reported[e]
  BY <1>4, <1>5 DEF WatcherTypes
<1>7. \A r \in Runs : idle'[r] = IF r = current /\ new # {}
                                 THEN [idle[r] EXCEPT !.lastSeenUid = Max(new)] ELSE idle[r]
  BY <1>2 DEF Emit
<1>8. DOMAIN idle' = Runs /\ idle' = [r \in Runs |-> idle'[r]]
  BY DEF Emit
<1>9. ASSUME NEW r \in Runs
      PROVE  /\ idle'[r] \in IdleState
             /\ r # current \/ new = {} => idle'[r] = idle[r]
             /\ r = current /\ new # {} =>
                  /\ idle'[r].client = idle[r].client /\ idle'[r].timer = idle[r].timer
                  /\ idle'[r].stopped = idle[r].stopped
                  /\ idle'[r].uidValidity = idle[r].uidValidity
                  /\ idle'[r].lastSeenUid \in new
                  /\ \A u \in new : u <= idle'[r].lastSeenUid
  <2>1. idle[r] \in IdleState
    BY DEF WatcherTypes
  <2>2. CASE r # current \/ new = {}
    BY <1>7, <2>1, <2>2
  <2>3. CASE r = current /\ new # {}
    <3>1. PICK top \in new : top = Max(new) /\ \A u \in new : u <= top
      BY <2>3, MaxOf
    <3>2. top \in 0..MaxUid
      BY WatcherConstants DEF Uids
    <3>3. idle'[r] = [idle[r] EXCEPT !.lastSeenUid = top]
      BY <1>7, <2>3, <3>1
    <3>4. QED
      BY <2>1, <2>3, <3>1, <3>2, <3>3 DEF IdleState
  <2>4. QED
    BY <2>2, <2>3
<1>10. idle' \in [Runs -> IdleState]
  BY <1>8, <1>9
<1>11. /\ fetch[f].step = "emit" /\ Selected(fetch[f].client)
       /\ fetch' = [fetch EXCEPT ![f] = NoFetch]
       /\ UNCHANGED <<mail, uidNext, epoch, current, stopping, call, conn, notice, drops, base>>
  BY DEF Emit, serverVars
<1>12. /\ \A u \in new : reported'[epoch][u] = reported[epoch][u] + 1
       /\ \A u \in Uids \ new : reported'[epoch][u] = reported[epoch][u]
  BY <1>3, <1>6
<1>13. QED
  BY <1>1, <1>2, <1>6, <1>9, <1>10, <1>11, <1>12

\* The fetch that is granted the lock and answered.
LEMMA LockFields ==
  ASSUME WatcherTypes, NEW f \in Fetches, Lock(f)
  PROVE  /\ fetch[f].step = "lock" /\ Selected(fetch[f].client)
         /\ \A g \in Fetches : fetch[g].step = "emit" => fetch[g].client # fetch[f].client
         /\ fetch' \in [Fetches -> FetchCalls]
         /\ \A g \in Fetches \ {f} : fetch'[g] = fetch[g]
         /\ fetch'[f].step = "emit" /\ fetch'[f].run = fetch[f].run
         /\ fetch'[f].client = fetch[f].client
         /\ fetch'[f].found \subseteq mail
         /\ \A u \in mail : u >= idle[fetch[f].run].lastSeenUid + 1 => u \in fetch'[f].found
         /\ UNCHANGED <<mail, uidNext, epoch, idle, current, stopping, call, conn, notice, drops,
                        reported, base>>
<1>1. PICK all : all = {u \in mail : u >= idle[fetch[f].run].lastSeenUid + 1 \/ u = Max(mail)}
  OBVIOUS
<1>2. /\ all \subseteq mail
      /\ \A u \in mail : u >= idle[fetch[f].run].lastSeenUid + 1 => u \in all
  BY <1>1
<1>3. all \in SUBSET Uids
  BY <1>2, WatcherConstants DEF WatcherTypes, Uids
<1>4. fetch' = [fetch EXCEPT ![f].step = "emit", ![f].found = all]
  BY <1>1 DEF Lock
<1>5. /\ fetch' \in [Fetches -> FetchCalls]
      /\ \A g \in Fetches \ {f} : fetch'[g] = fetch[g]
      /\ fetch'[f].step = "emit" /\ fetch'[f].run = fetch[f].run
      /\ fetch'[f].client = fetch[f].client /\ fetch'[f].found = all
  BY <1>3, <1>4 DEF WatcherTypes, FetchCalls
<1>6. QED
  BY <1>2, <1>5 DEF Lock, serverVars

\* handleNewEmails.
LEMMA FetchTypes ==
  ASSUME WatcherTypes,
         \/ \E f \in Fetches : FetchStep(f)
         \/ \E c \in Clients : CatchUp(c) \/ Exists(c)
  PROVE  WatcherTypes'
<1>1. NoFetch \in FetchCalls
  BY Zeros DEF NoFetch, FetchCalls
<1>2. ASSUME NEW f \in Fetches, Lock(f) PROVE WatcherTypes'
  BY <1>2, LockFields DEF WatcherTypes
<1>3. ASSUME NEW f \in Fetches, Emit(f) PROVE WatcherTypes'
  <2>1. fetch' \in [Fetches -> FetchCalls]
    BY <1>1, <1>3 DEF Emit, WatcherTypes
  <2>2. QED
    BY <1>3, <2>1, EmitFields DEF WatcherTypes
<1>4. ASSUME NEW f \in Fetches, FetchFails(f) PROVE WatcherTypes'
  <2>1. fetch' \in [Fetches -> FetchCalls]
    BY <1>1, <1>4 DEF FetchFails, WatcherTypes
  <2>2. drops' \in 0..MaxDrops
    BY <1>4, WatcherConstants DEF FetchFails, WatcherTypes
  <2>3. QED
    BY <1>4, <2>1, <2>2 DEF FetchFails, WatcherTypes, serverVars
<1>5. ASSUME NEW c \in Clients, CatchUp(c) PROVE WatcherTypes'
  <2>1. fetch' \in [Fetches -> FetchCalls]
    <3>1. CASE Handle
      BY <3>1, HandleTyped
    <3>2. CASE UNCHANGED fetch
      BY <3>2 DEF WatcherTypes
    <3>3. QED
      BY <1>5, <3>1, <3>2 DEF CatchUp
  <2>2. call' \in [Clients -> [step : CallSteps, run : 0..MaxRuns, behind : BOOLEAN]]
    BY <1>5 DEF CatchUp, CallAt, WatcherTypes, CallSteps
  <2>3. QED
    BY <1>5, <2>1, <2>2 DEF CatchUp, WatcherTypes, serverVars
<1>6. ASSUME NEW c \in Clients, Exists(c) PROVE WatcherTypes'
  <2>1. fetch' \in [Fetches -> FetchCalls] /\ notice' \in [Clients -> BOOLEAN]
    BY <1>6, HandleTyped DEF Exists, WatcherTypes
  <2>2. QED
    BY <1>6, <2>1 DEF Exists, WatcherTypes, serverVars
<1>7. QED
  BY <1>2, <1>3, <1>4, <1>5, <1>6 DEF FetchStep

\* stop() marks the run, clears its timer, and closes a client that is logging in.
LEMMA StopFields ==
  ASSUME WatcherTypes, Stop
  PROVE  /\ current \in Runs /\ ~stopping /\ stopping'
         /\ idle' \in [Runs -> IdleState]
         /\ \A r \in Runs \ {current} : idle'[r] = idle[r]
         /\ idle'[current].stopped /\ ~idle'[current].timer
         /\ idle'[current].lastSeenUid = idle[current].lastSeenUid
         /\ idle'[current].uidValidity = idle[current].uidValidity
         /\ \/ /\ idle[current].client \in Clients /\ conn[idle[current].client] = "login"
               /\ conn' = [conn EXCEPT ![idle[current].client] = "closed"]
               /\ idle'[current].client = NoClient
            \/ conn' = conn /\ idle'[current].client = idle[current].client
         /\ UNCHANGED <<mail, uidNext, epoch, current, call, notice, fetch, drops, reported, base>>
<1>1. current \in Runs /\ idle[current] \in IdleState
  BY WatcherConstants DEF Stop, Watching, WatcherTypes, Runs
<1>2. PICK s : s = [idle[current] EXCEPT !.stopped = TRUE, !.timer = FALSE]
  OBVIOUS
<1>3. /\ s \in IdleState /\ s.stopped /\ ~s.timer /\ s.client = idle[current].client
      /\ s.lastSeenUid = idle[current].lastSeenUid /\ s.uidValidity = idle[current].uidValidity
  BY <1>1, <1>2 DEF IdleState
<1>4. PICK c : c = idle[current].client
  OBVIOUS
<1>5. c \in Clients \cup {NoClient}
  BY <1>1, <1>4 DEF IdleState
<1>6. /\ ~stopping /\ stopping'
      /\ UNCHANGED <<mail, uidNext, epoch, current, call, notice, fetch, drops, reported, base>>
  BY DEF Stop, serverVars
<1>7. CASE c # NoClient /\ conn[c] = "login"
  <2>1. PICK t : t = Forget(c, s)
    OBVIOUS
  <2>2. /\ t \in IdleState /\ t.client = NoClient /\ t.stopped /\ ~t.timer
        /\ t.lastSeenUid = s.lastSeenUid /\ t.uidValidity = s.uidValidity
    BY <1>3, <1>4, <1>5, <1>7, <2>1, ForgetFields
  <2>3. idle' = [idle EXCEPT ![current] = t] /\ conn' = [conn EXCEPT ![c] = "closed"]
    BY <1>2, <1>4, <1>7, <2>1 DEF Stop
  <2>4. /\ idle' \in [Runs -> IdleState] /\ idle'[current] = t
        /\ \A r \in Runs \ {current} : idle'[r] = idle[r]
    BY <1>1, <2>2, <2>3 DEF WatcherTypes
  <2>5. QED
    BY <1>1, <1>3, <1>4, <1>5, <1>6, <1>7, <2>2, <2>3, <2>4
<1>8. CASE ~(c # NoClient /\ conn[c] = "login")
  <2>1. idle' = [idle EXCEPT ![current] = s] /\ conn' = conn
    BY <1>2, <1>4, <1>8 DEF Stop
  <2>2. /\ idle' \in [Runs -> IdleState] /\ idle'[current] = s
        /\ \A r \in Runs \ {current} : idle'[r] = idle[r]
    BY <1>1, <1>3, <2>1 DEF WatcherTypes
  <2>3. QED
    BY <1>1, <1>3, <1>6, <2>1, <2>2
<1>9. QED
  BY <1>7, <1>8

\* The map is cleared: of the run that was in it only that it was stopped is left.
LEMMA StoppedFields ==
  ASSUME WatcherTypes, StopOK, Stopped
  PROVE  /\ current \in Runs /\ stopping /\ ~stopping' /\ current' = 0 /\ base' = 0
         /\ idle' \in [Runs -> IdleState]
         /\ \A r \in Runs \ {current} : idle'[r] = idle[r]
         /\ idle'[current].stopped /\ ~idle'[current].timer
         /\ idle'[current].client = NoClient /\ idle'[current].uidValidity = 0
         /\ conn' \in [Clients -> {"closed", "login", "usable", "idling"}]
         /\ notice' \in [Clients -> BOOLEAN]
         /\ \A d \in Clients :
              /\ conn'[d] = IF d = idle[current].client THEN "closed" ELSE conn[d]
              /\ notice'[d] <=> notice[d] /\ d # idle[current].client
         /\ UNCHANGED <<mail, uidNext, epoch, call, fetch, drops, reported>>
<1>1. stopping /\ current \in Runs
  BY WatcherConstants DEF Stopped, StopOK, Watching, WatcherTypes, Runs
<1>2. PICK s : s = [NewIdle EXCEPT !.stopped = TRUE]
  OBVIOUS
<1>3. s \in IdleState /\ s.stopped /\ ~s.timer /\ s.client = NoClient /\ s.uidValidity = 0
  BY <1>2, Zeros DEF NewIdle, IdleState
<1>4. idle' = [idle EXCEPT ![current] = s]
  BY <1>2 DEF Stopped
<1>5. /\ idle' \in [Runs -> IdleState] /\ idle'[current] = s
      /\ \A r \in Runs \ {current} : idle'[r] = idle[r]
  BY <1>1, <1>3, <1>4 DEF WatcherTypes
<1>6. /\ conn' \in [Clients -> {"closed", "login", "usable", "idling"}]
      /\ \A d \in Clients : conn'[d] = IF d = idle[current].client THEN "closed" ELSE conn[d]
  BY DEF Stopped, WatcherTypes
<1>7. /\ notice' \in [Clients -> BOOLEAN]
      /\ \A d \in Clients : notice'[d] <=> notice[d] /\ d # idle[current].client
  BY DEF Stopped, WatcherTypes
<1>8. QED
  BY <1>1, <1>3, <1>5, <1>6, <1>7 DEF Stopped, serverVars

LEMMA TypesStep ==
  ASSUME WatcherTypes, ConnInv, [WatcherNext]_watcherVars
  PROVE  WatcherTypes'
<1>1. ASSUME NEW c \in Clients PROVE CallOK(c)
  BY DEF ConnInv
<1>2. CASE Deliver \/ Renumber \/ (\E u \in mail : Expunge(u)) \/ \E c \in Clients : Drop(c)
  BY <1>2, ServerTypes
<1>3. ASSUME NEW c \in Clients,
             \/ Start(c) \/ Retry(c) \/ Authenticated(c) \/ AuthFails(c) \/ LoggedIn(c)
             \/ Opened(c) \/ ConnectFails(c) \/ AskRetry(c)
      PROVE  WatcherTypes'
  BY <1>1, <1>3, ConnectTypes
<1>4. CASE \/ \E f \in Fetches : FetchStep(f)
           \/ \E c \in Clients : CatchUp(c) \/ Exists(c)
  BY <1>4, FetchTypes
<1>5. CASE Stop
  BY <1>5, StopFields DEF WatcherTypes
<1>6. CASE Stopped
  <2>1. current' \in 0..MaxRuns /\ base' \in 0..MaxUid /\ stopping' \in BOOLEAN
    BY <1>6, Zeros DEF Stopped
  <2>2. StopOK
    BY DEF ConnInv
  <2>3. /\ idle' \in [Runs -> IdleState]
        /\ conn' \in [Clients -> {"closed", "login", "usable", "idling"}]
        /\ notice' \in [Clients -> BOOLEAN]
        /\ UNCHANGED <<mail, uidNext, epoch, call, fetch, drops, reported>>
    BY <1>6, <2>2, StoppedFields
  <2>4. QED
    BY <2>1, <2>3 DEF WatcherTypes
<1>7. CASE UNCHANGED watcherVars
  BY <1>7 DEF watcherVars, serverVars, WatcherTypes
<1>8. QED
  BY <1>2, <1>3, <1>4, <1>5, <1>6, <1>7 DEF WatcherNext, ConnectStep

(***************************************************************************)
(* Connections.                                                            *)
(***************************************************************************)

\* What the steps may do that neither start, end nor move a connection.
LEMMA QuietKeepsConn ==
  ASSUME ConnInv, UNCHANGED <<current, stopping, conn>>,
         \A r \in Runs :
           /\ idle'[r].client = idle[r].client /\ idle'[r].timer = idle[r].timer
           /\ idle'[r].stopped = idle[r].stopped
           /\ r # current => idle'[r].uidValidity = idle[r].uidValidity,
         \A c \in Clients :
           /\ call'[c].run = call[c].run
           /\ \/ call'[c].step = call[c].step
              \/ call[c].step = "logged" /\ call'[c].step = "none"
           /\ notice'[c] => notice[c] \/ Selected(c),
         current \in 0..MaxRuns
  PROVE  ConnInv'
<1>1. ASSUME NEW r \in Runs PROVE RunOK(r)'
  BY DEF ConnInv, RunOK
<1>2. StopOK'
  BY DEF ConnInv, StopOK, Watching
<1>3. Watching => current \in Runs
  BY WatcherConstants DEF Watching, Runs
<1>4. ASSUME NEW c \in Clients PROVE CallOK(c)'
  <2>1. CallOK(c)
    BY DEF ConnInv
  <2>2. QED
    BY <1>3, <2>1 DEF CallOK, Selected, Watching
<1>5. \A c \in Clients : Failing(c)' => Failing(c)
  BY DEF Failing
<1>6. OneUnderWay'
  <2>1. OneUnderWay
    BY DEF ConnInv
  <2>2. QED
    BY <1>3, <1>5, <2>1 DEF OneUnderWay, Watching
<1>7. QED
  BY <1>1, <1>2, <1>4, <1>6 DEF ConnInv

LEMMA QuietSteps ==
  ASSUME WatcherTypes, ConnInv,
         \/ Deliver \/ Renumber \/ \E u \in mail : Expunge(u)
         \/ \E c \in Clients : CatchUp(c) \/ Exists(c)
         \/ \E f \in Fetches : FetchStep(f)
         \/ UNCHANGED watcherVars
  PROVE  ConnInv'
<1>1. current \in 0..MaxRuns
  BY DEF WatcherTypes
<1>2. CASE Deliver
  BY <1>1, <1>2, QuietKeepsConn DEF Deliver
<1>3. CASE Renumber
  BY <1>1, <1>3, QuietKeepsConn DEF Renumber
<1>4. ASSUME NEW u \in mail, Expunge(u) PROVE ConnInv'
  BY <1>1, <1>4, QuietKeepsConn DEF Expunge
<1>5. ASSUME NEW c \in Clients, CatchUp(c) PROVE ConnInv'
  <2>1. call[c].step = "logged" /\ UNCHANGED <<idle, current, stopping, conn, notice>>
    BY <1>5 DEF CatchUp
  <2>2. call' = [call EXCEPT ![c].step = "none"]
    BY <1>5 DEF CatchUp, CallAt
  <2>3. \A d \in Clients : /\ call'[d].run = call[d].run
                           /\ call'[d].step = IF d = c THEN "none" ELSE call[d].step
    BY <2>2 DEF WatcherTypes
  <2>4. QED
    BY <1>1, <2>1, <2>3, QuietKeepsConn
<1>6. ASSUME NEW c \in Clients, Exists(c) PROVE ConnInv'
  <2>1. UNCHANGED <<idle, current, stopping, conn, call>> /\ notice' = [notice EXCEPT ![c] = FALSE]
    BY <1>6 DEF Exists
  <2>2. \A d \in Clients : notice'[d] => notice[d]
    BY <2>1 DEF WatcherTypes
  <2>3. QED
    BY <1>1, <2>1, <2>2, QuietKeepsConn
<1>7. ASSUME NEW f \in Fetches, Lock(f) \/ FetchFails(f) PROVE ConnInv'
  <2>1. UNCHANGED <<idle, current, stopping, conn, call, notice>>
    BY <1>7 DEF Lock, FetchFails
  <2>2. QED
    BY <1>1, <2>1, QuietKeepsConn
<1>8. ASSUME NEW f \in Fetches, Emit(f) PROVE ConnInv'
  <2>1. UNCHANGED <<current, stopping, conn, call, notice>>
    BY <1>8, EmitFields
  <2>2. \A r \in Runs :
          /\ idle'[r].client = idle[r].client /\ idle'[r].timer = idle[r].timer
          /\ idle'[r].stopped = idle[r].stopped
          /\ r # current => idle'[r].uidValidity = idle[r].uidValidity
    BY <1>8, EmitFields
  <2>3. QED
    BY <1>1, <2>1, <2>2, QuietKeepsConn
<1>9. CASE UNCHANGED watcherVars
  BY <1>1, <1>9, QuietKeepsConn DEF watcherVars
<1>10. QED
  BY <1>2, <1>3, <1>4, <1>5, <1>6, <1>7, <1>8, <1>9 DEF FetchStep

\* A connection that closes was the client of the run in the map, which waits for
\* a retry then unless it was stopped.
LEMMA ClosingSteps ==
  ASSUME WatcherTypes, ConnInv, NEW c \in Clients, Drop(c) \/ ConnectFails(c)
  PROVE  ConnInv'
<1>1. Close(c) /\ UNCHANGED <<current, stopping>> /\ current \in 0..MaxRuns
  BY DEF Drop, ConnectFails, WatcherTypes
<1>2. /\ conn' = [conn EXCEPT ![c] = "closed"] /\ notice' = [notice EXCEPT ![c] = FALSE]
      /\ \A r \in Runs :
           /\ idle'[r].stopped = idle[r].stopped /\ idle'[r].uidValidity = idle[r].uidValidity
           /\ r # current \/ idle[r].client # c => idle'[r] = idle[r]
           /\ r = current /\ idle[r].client = c =>
                /\ idle'[r].client = NoClient
                /\ idle'[r].timer <=> idle[r].timer \/ ~idle[r].stopped
  BY <1>1, CloseFields
<1>3. \A d \in Clients : /\ conn'[d] = IF d = c THEN "closed" ELSE conn[d]
                         /\ notice'[d] <=> notice[d] /\ d # c
  BY <1>2 DEF WatcherTypes
<1>4. \A d \in Clients :
        /\ call'[d].run = call[d].run
        /\ d # c => call'[d].step = call[d].step
        /\ \/ call'[c].step = call[c].step /\ conn[c] # "closed"
           \/ call[c].step \in {"connect", "open"} /\ call'[c].step = "logfail"
  <2>1. CASE Drop(c)
    BY <2>1 DEF Drop
  <2>2. CASE ConnectFails(c)
    <3>1. call' = [call EXCEPT ![c].step = "logfail"] /\ call[c].step \in {"connect", "open"}
      BY <2>2 DEF ConnectFails, CallAt
    <3>2. QED
      BY <3>1 DEF WatcherTypes
  <2>3. QED
    BY <2>1, <2>2
<1>5. Watching => current \in Runs
  BY <1>1, WatcherConstants DEF Watching, Runs
<1>6. ASSUME NEW r \in Runs PROVE RunOK(r)'
  <2>1. RunOK(r)
    BY DEF ConnInv
  <2>2. QED
    BY <1>1, <1>2, <2>1 DEF RunOK
<1>7. StopOK'
  BY <1>1 DEF ConnInv, StopOK, Watching
<1>8. ASSUME NEW d \in Clients PROVE CallOK(d)'
  <2>1. CallOK(d) /\ CallOK(c)
    BY DEF ConnInv
  <2>2. /\ call'[d].step # "none" => call[d].step # "none"
        /\ \A r \in Runs : idle'[r].stopped = idle[r].stopped
    BY <1>2, <1>4, <2>1 DEF CallOK
  <2>3. conn'[d] # "closed" <=> Watching' /\ idle'[current'].client = d
    BY <1>1, <1>2, <1>3, <1>5, <2>1, WatcherConstants DEF CallOK, Watching
  <2>4. QED
    BY <1>1, <1>3, <1>4, <2>1, <2>2, <2>3 DEF CallOK, Selected
<1>9. OneUnderWay'
  <2>1. OneUnderWay /\ CallOK(c)
    BY DEF ConnInv
  <2>2. CASE conn[c] = "closed"
    <3>1. /\ \A d \in Clients : Failing(d)' => Failing(d)
          /\ \A d \in Clients : call'[d].step = "auth" => call[d].step = "auth"
      BY <1>3, <1>4, <2>2 DEF Failing
    <3>2. Watching => idle'[current] = idle[current]
      BY <1>2, <1>5, <2>1, <2>2 DEF CallOK
    <3>3. QED
      BY <1>1, <2>1, <3>1, <3>2 DEF OneUnderWay, Watching
  <2>3. CASE conn[c] # "closed"
    <3>1. Watching /\ current \in Runs /\ idle[current].client = c /\ idle'[current].client = NoClient
      BY <1>2, <1>5, <2>1, <2>3 DEF CallOK
    <3>2. \A d \in Clients : call'[d].step = "auth" => call[d].step = "auth"
      BY <1>4
    <3>3. QED
      BY <1>1, <1>2, <2>1, <3>1, <3>2, WatcherConstants DEF OneUnderWay, Watching
  <2>4. QED
    BY <2>2, <2>3
<1>10. QED
  BY <1>6, <1>7, <1>8, <1>9 DEF ConnInv

\* A run starts with nothing under way.
LEMMA StartKeepsConn ==
  ASSUME WatcherTypes, ConnInv, NEW c \in Clients, Start(c)
  PROVE  ConnInv'
<1>1. /\ current = 0 /\ ~Watching /\ \A d \in Clients : call[d].step = "none"
      /\ UNCHANGED <<idle, stopping, conn, notice>>
  BY DEF Start, CallsEnded, Watching
<1>2. PICK r \in Runs :
        /\ ~idle[r].stopped /\ current' = r
        /\ call' = [call EXCEPT ![c] = [step |-> "auth", run |-> r, behind |-> FALSE]]
  BY DEF Start
<1>3. r # 0 /\ Watching'
  BY <1>2, Zeros DEF Runs, Watching
<1>4. /\ \A d \in Clients : conn[d] = "closed" /\ ~notice[d]
      /\ \A q \in Runs : idle[q].client = NoClient /\ ~idle[q].timer /\ idle[q].uidValidity = 0
      /\ ~stopping
  <2>1. 0 \notin Runs
    BY Zeros DEF Runs
  <2>2. \A d \in Clients : conn[d] = "closed"
    BY <1>1 DEF ConnInv, CallOK
  <2>3. QED
    BY <1>1, <2>1, <2>2 DEF ConnInv, CallOK, RunOK, StopOK, Selected
<1>5. /\ call'[c].step = "auth" /\ call'[c].run = r
      /\ \A d \in Clients \ {c} : call'[d] = call[d]
  BY <1>2 DEF WatcherTypes
<1>6. ASSUME NEW q \in Runs PROVE RunOK(q)'
  BY <1>1, <1>2, <1>4 DEF RunOK
<1>7. StopOK'
  BY <1>1, <1>4 DEF StopOK
<1>8. ASSUME NEW d \in Clients PROVE CallOK(d)'
  BY <1>1, <1>2, <1>4, <1>5, WatcherConstants DEF CallOK
<1>9. OneUnderWay'
  BY <1>1, <1>2, <1>4, <1>5 DEF OneUnderWay, Failing
<1>10. QED
  BY <1>6, <1>7, <1>8, <1>9 DEF ConnInv

\* A retry is the only thing under way.
LEMMA RetryKeepsConn ==
  ASSUME WatcherTypes, ConnInv, NEW c \in Clients, Retry(c)
  PROVE  ConnInv'
<1>1. /\ Watching /\ idle[current].timer /\ current \in Runs
      /\ call[c].step = "none" /\ conn[c] = "closed" /\ \A d \in Clients : ~Failing(d)
      /\ UNCHANGED <<current, stopping, conn, notice>>
  BY WatcherConstants DEF Retry, Unreferenced, FailsInTime, Watching, Runs, WatcherTypes
<1>2. ~idle[current].stopped /\ idle[current].client = NoClient
  BY <1>1 DEF ConnInv, RunOK, OneUnderWay
<1>3. \A d \in Clients : call[d].step # "auth"
  BY <1>1, <1>2 DEF ConnInv, OneUnderWay
<1>4. /\ call' = [call EXCEPT ![c] = [step |-> "auth", run |-> current, behind |-> FALSE]]
      /\ idle' = [idle EXCEPT ![current] = [idle[current] EXCEPT !.timer = FALSE]]
  BY DEF Retry
<1>5. /\ call'[c].step = "auth" /\ call'[c].run = current
      /\ \A d \in Clients \ {c} : call'[d] = call[d]
  BY <1>4 DEF WatcherTypes
<1>6. /\ idle'[current].client = NoClient /\ ~idle'[current].timer /\ ~idle'[current].stopped
      /\ \A r \in Runs \ {current} : idle'[r] = idle[r]
  <2>1. idle[current] \in IdleState
    BY <1>1 DEF WatcherTypes
  <2>2. PICK s : s = [idle[current] EXCEPT !.timer = FALSE]
    OBVIOUS
  <2>3. s.client = NoClient /\ ~s.timer /\ ~s.stopped
    BY <1>2, <2>1, <2>2 DEF IdleState
  <2>4. QED
    BY <1>1, <1>4, <2>2, <2>3 DEF WatcherTypes
<1>7. ASSUME NEW r \in Runs PROVE RunOK(r)'
  BY <1>1, <1>2, <1>6 DEF ConnInv, RunOK
<1>8. StopOK'
  BY <1>1 DEF ConnInv, StopOK, Watching
<1>9. ASSUME NEW d \in Clients PROVE CallOK(d)'
  <2>1. CallOK(d)
    BY DEF ConnInv
  <2>2. QED
    BY <1>1, <1>2, <1>5, <1>6, <2>1 DEF CallOK, Selected, Watching
<1>10. OneUnderWay'
  <2>1. \A d \in Clients : ~Failing(d)'
    BY <1>1, <1>5 DEF Failing
  <2>2. \A d \in Clients : call'[d].step = "auth" => d = c
    BY <1>3, <1>5
  <2>3. QED
    BY <1>1, <1>6, <2>1, <2>2 DEF OneUnderWay
<1>11. QED
  BY <1>7, <1>8, <1>9, <1>10 DEF ConnInv

\* Credentials make the call the client of its run, or end it if that was stopped.
LEMMA AuthenticatedKeepsConn ==
  ASSUME WatcherTypes, ConnInv, NEW c \in Clients, Authenticated(c)
  PROVE  ConnInv'
<1>1. call[c].step = "auth" /\ UNCHANGED <<current, stopping, notice>>
  BY DEF Authenticated
<1>2. CallOK(c) /\ conn[c] = "closed"
  BY <1>1 DEF ConnInv, CallOK, WatcherTypes
<1>3. call' = [call EXCEPT ![c].step = call'[c].step]
  BY <1>2, AuthFields
<1>4. \A d \in Clients : call'[d].run = call[d].run /\ (d # c => call'[d].step = call[d].step)
  BY <1>3 DEF WatcherTypes
<1>5. CASE idle[call[c].run].stopped
  <2>1. call'[c].step = "none" /\ UNCHANGED <<conn, idle>>
    BY <1>2, <1>5, AuthFields
  <2>2. \A r \in Runs : RunOK(r)'
    BY <1>1, <2>1 DEF ConnInv, RunOK
  <2>3. StopOK'
    BY <1>1 DEF ConnInv, StopOK, Watching
  <2>4. ASSUME NEW d \in Clients PROVE CallOK(d)'
    <3>1. CallOK(d)
      BY DEF ConnInv
    <3>2. QED
      BY <1>1, <1>2, <1>4, <2>1, <3>1 DEF CallOK, Selected, Watching
  <2>5. OneUnderWay'
    <3>1. \A d \in Clients : Failing(d)' => Failing(d)
      BY <1>4, <2>1 DEF Failing
    <3>2. QED
      BY <1>1, <1>4, <2>1, <3>1 DEF ConnInv, OneUnderWay, Watching
  <2>6. QED
    BY <2>2, <2>3, <2>4, <2>5 DEF ConnInv
<1>6. CASE ~idle[call[c].run].stopped
  <2>1. /\ current \in Runs /\ ~idle[current].stopped /\ call'[c].step = "connect"
        /\ conn' = [conn EXCEPT ![c] = "login"]
        /\ \A r \in Runs \ {current} : idle'[r] = idle[r]
        /\ idle'[current].client = c /\ idle'[current].timer = idle[current].timer
        /\ idle'[current].stopped = idle[current].stopped
    BY <1>2, <1>6, AuthFields
  <2>2. /\ Watching /\ idle[current].client = NoClient /\ ~idle[current].timer
        /\ \A d \in Clients : ~Failing(d) /\ (call[d].step = "auth" => d = c)
    <3>1. Watching
      BY <2>1, Zeros DEF Runs, Watching
    <3>2. QED
      BY <1>1, <2>1, <3>1 DEF ConnInv, OneUnderWay
  <2>3. conn'[c] = "login" /\ \A d \in Clients \ {c} : conn'[d] = conn[d]
    BY <2>1 DEF WatcherTypes
  <2>4. \A r \in Runs : RunOK(r)'
    BY <1>1, <2>1, <2>2 DEF ConnInv, RunOK
  <2>5. StopOK'
    BY <1>1 DEF ConnInv, StopOK, Watching
  <2>6. ASSUME NEW d \in Clients PROVE CallOK(d)'
    <3>1. CallOK(d)
      BY DEF ConnInv
    <3>2. call[d].step # "none" =>
            call[d].run \in Runs /\ call[d].run = current
      BY <2>2, <3>1 DEF CallOK, Watching
    <3>3. CASE d = c
      BY <1>1, <1>2, <1>4, <2>1, <2>2, <2>3, <3>2, <3>3 DEF CallOK, Selected, Watching
    <3>4. CASE d # c
      <4>1. conn[d] = "closed" /\ conn'[d] = "closed" /\ ~notice[d] /\ call'[d].step = call[d].step
        BY <1>4, <2>2, <2>3, <3>1, <3>4, WatcherConstants DEF CallOK, Selected
      <4>2. QED
        BY <1>1, <1>4, <2>1, <3>2, <3>4, <4>1 DEF CallOK
    <3>5. QED
      BY <3>3, <3>4
  <2>7. OneUnderWay'
    <3>1. \A d \in Clients : ~Failing(d)' /\ call'[d].step # "auth"
      BY <1>4, <2>1, <2>2, <2>3 DEF Failing
    <3>2. QED
      BY <1>1, <2>1, <2>2, <3>1 DEF OneUnderWay
  <2>8. QED
    BY <2>4, <2>5, <2>6, <2>7 DEF ConnInv
<1>7. QED
  BY <1>5, <1>6

LEMMA AuthFailsKeepsConn ==
  ASSUME WatcherTypes, ConnInv, NEW c \in Clients, AuthFails(c)
  PROVE  ConnInv'
<1>1. /\ call[c].step = "auth" /\ UNCHANGED <<idle, current, stopping, conn, notice>>
      /\ call' = [call EXCEPT ![c].step = "logfail"]
  BY DEF AuthFails, CallAt
<1>2. \A d \in Clients : /\ call'[d].run = call[d].run
                         /\ call'[d].step = IF d = c THEN "logfail" ELSE call[d].step
  BY <1>1 DEF WatcherTypes
<1>3. \A r \in Runs : RunOK(r)'
  BY <1>1 DEF ConnInv, RunOK
<1>4. StopOK'
  BY <1>1 DEF ConnInv, StopOK, Watching
<1>5. ASSUME NEW d \in Clients PROVE CallOK(d)'
  <2>1. CallOK(d)
    BY DEF ConnInv
  <2>2. QED
    BY <1>1, <1>2, <2>1 DEF CallOK, Selected, Watching
<1>6. OneUnderWay'
  <2>1. \A d \in Clients : d # c => (Failing(d)' => Failing(d))
    BY <1>1, <1>2 DEF Failing
  <2>2. QED
    BY <1>1, <1>2, <2>1 DEF ConnInv, OneUnderWay, Watching
<1>7. QED
  BY <1>3, <1>4, <1>5, <1>6 DEF ConnInv

LEMMA LoggedInKeepsConn ==
  ASSUME WatcherTypes, ConnInv, NEW c \in Clients, LoggedIn(c)
  PROVE  ConnInv'
<1>1. /\ call[c].step = "connect" /\ conn[c] = "login"
      /\ UNCHANGED <<idle, current, stopping, notice>>
      /\ call' = [call EXCEPT ![c].step = "open"] /\ conn' = [conn EXCEPT ![c] = "usable"]
  BY DEF LoggedIn, CallAt
<1>2. \A d \in Clients : /\ call'[d].run = call[d].run
                         /\ call'[d].step = IF d = c THEN "open" ELSE call[d].step
                         /\ conn'[d] = IF d = c THEN "usable" ELSE conn[d]
  BY <1>1 DEF WatcherTypes
<1>3. \A r \in Runs : RunOK(r)'
  BY <1>1 DEF ConnInv, RunOK
<1>4. StopOK'
  BY <1>1 DEF ConnInv, StopOK, Watching
<1>5. ASSUME NEW d \in Clients PROVE CallOK(d)'
  <2>1. CallOK(d)
    BY DEF ConnInv
  <2>2. QED
    BY <1>1, <1>2, <2>1 DEF CallOK, Selected, Watching
<1>6. OneUnderWay'
  <2>1. \A d \in Clients : Failing(d)' => Failing(d)
    BY <1>1, <1>2 DEF Failing
  <2>2. QED
    BY <1>1, <1>2, <2>1 DEF ConnInv, OneUnderWay, Watching
<1>7. QED
  BY <1>3, <1>4, <1>5, <1>6 DEF ConnInv

LEMMA OpenedKeepsConn ==
  ASSUME WatcherTypes, ConnInv, NEW c \in Clients, Opened(c)
  PROVE  ConnInv'
<1>0. CallOK(c)
  BY DEF ConnInv
<1>1. /\ current \in Runs /\ call[c].step = "open" /\ conn[c] = "usable"
      /\ UNCHANGED <<current, stopping, notice>>
      /\ conn' = [conn EXCEPT ![c] = "idling"]
      /\ call'[c].step = "logged" /\ call'[c].run = call[c].run
      /\ \A d \in Clients \ {c} : call'[d] = call[d]
      /\ \A r \in Runs \ {current} : idle'[r] = idle[r]
      /\ idle'[current].client = idle[current].client
      /\ idle'[current].timer = idle[current].timer
      /\ idle'[current].stopped = idle[current].stopped
  BY <1>0, OpenedFields
<1>2. \A d \in Clients : conn'[d] = IF d = c THEN "idling" ELSE conn[d]
  BY <1>1 DEF WatcherTypes
<1>3. \A r \in Runs : RunOK(r)'
  BY <1>1 DEF ConnInv, RunOK
<1>4. StopOK'
  BY <1>1 DEF ConnInv, StopOK, Watching
<1>5. ASSUME NEW d \in Clients PROVE CallOK(d)'
  <2>1. CallOK(d)
    BY DEF ConnInv
  <2>2. \A r \in Runs : idle'[r].stopped = idle[r].stopped
    BY <1>1
  <2>3. CASE d = c
    BY <1>1, <1>2, <2>1, <2>2, <2>3 DEF CallOK, Selected, Watching
  <2>4. CASE d # c
    BY <1>1, <1>2, <2>1, <2>2, <2>4 DEF CallOK, Selected, Watching
  <2>5. QED
    BY <2>3, <2>4
<1>6. OneUnderWay'
  <2>1. \A d \in Clients : /\ Failing(d)' => Failing(d)
                           /\ call'[d].step = "auth" => call[d].step = "auth"
    BY <1>1, <1>2 DEF Failing
  <2>2. QED
    BY <1>1, <2>1 DEF ConnInv, OneUnderWay, Watching
<1>7. QED
  BY <1>3, <1>4, <1>5, <1>6 DEF ConnInv

\* A call that has failed leaves a retry behind it and nothing else.
LEMMA AskRetryKeepsConn ==
  ASSUME WatcherTypes, ConnInv, NEW c \in Clients, AskRetry(c)
  PROVE  ConnInv'
<1>1. /\ call[c].step = "logfail" /\ UNCHANGED <<current, stopping, conn, notice>>
      /\ call' = [call EXCEPT ![c].step = "none"] /\ Failing(c)
  BY DEF AskRetry, CallAt, Failing
<1>2. \A d \in Clients : /\ call'[d].run = call[d].run
                         /\ call'[d].step = IF d = c THEN "none" ELSE call[d].step
  BY <1>1 DEF WatcherTypes
<1>3. \A r \in Runs :
        /\ idle'[r].client = idle[r].client /\ idle'[r].stopped = idle[r].stopped
        /\ idle'[r].uidValidity = idle[r].uidValidity
        /\ r # current => idle'[r] = idle[r]
        /\ r = current => (idle'[r].timer <=> idle[r].timer \/ ~idle[r].stopped)
  <2>1. \A r \in Runs : idle[r] \in IdleState
    BY DEF WatcherTypes
  <2>2. \A r \in Runs : idle'[r] = IF r = current THEN WithRetry(idle[r]) ELSE idle[r]
    BY DEF AskRetry
  <2>3. QED
    BY <2>1, <2>2, RetryFields
<1>4. Watching => current \in Runs
  BY WatcherConstants DEF Watching, Runs, WatcherTypes
<1>5. \A r \in Runs : RunOK(r)'
  BY <1>1, <1>3 DEF ConnInv, RunOK
<1>6. StopOK'
  BY <1>1 DEF ConnInv, StopOK, Watching
<1>7. ASSUME NEW d \in Clients PROVE CallOK(d)'
  <2>1. CallOK(d)
    BY DEF ConnInv
  <2>2. QED
    BY <1>1, <1>2, <1>3, <1>4, <2>1 DEF CallOK, Selected, Watching
<1>8. OneUnderWay'
  <2>1. \A d \in Clients : Failing(d)' => Failing(d)
    BY <1>1, <1>2 DEF Failing
  <2>2. ASSUME Watching, ~idle[current].stopped
        PROVE  idle[current].client = NoClient /\ \A d \in Clients : call[d].step # "auth"
    BY <1>1, <2>2 DEF ConnInv, OneUnderWay
  <2>3. QED
    BY <1>1, <1>2, <1>3, <1>4, <2>1, <2>2 DEF OneUnderWay, Watching
<1>9. QED
  BY <1>5, <1>6, <1>7, <1>8 DEF ConnInv

LEMMA StopKeepsConn ==
  ASSUME WatcherTypes, ConnInv, Stop
  PROVE  ConnInv'
<1>1. /\ current \in Runs /\ stopping' /\ UNCHANGED <<current, call, notice>>
      /\ \A r \in Runs \ {current} : idle'[r] = idle[r]
      /\ idle'[current].stopped /\ ~idle'[current].timer
      /\ \/ /\ idle[current].client \in Clients /\ conn[idle[current].client] = "login"
            /\ conn' = [conn EXCEPT ![idle[current].client] = "closed"]
            /\ idle'[current].client = NoClient
         \/ conn' = conn /\ idle'[current].client = idle[current].client
  BY StopFields
<1>2. Watching /\ Watching'
  BY <1>1, Zeros DEF Runs, Watching
<1>3. ASSUME NEW r \in Runs PROVE RunOK(r)'
  BY <1>1 DEF ConnInv, RunOK
<1>4. StopOK' /\ OneUnderWay'
  BY <1>1, <1>2 DEF StopOK, OneUnderWay
<1>5. ASSUME NEW c \in Clients PROVE CallOK(c)'
  <2>1. CallOK(c)
    BY DEF ConnInv
  <2>2. CASE conn' = conn /\ idle'[current].client = idle[current].client
    BY <1>1, <1>2, <2>1, <2>2 DEF CallOK, Selected, Watching
  <2>3. CASE /\ idle[current].client \in Clients /\ conn[idle[current].client] = "login"
             /\ conn' = [conn EXCEPT ![idle[current].client] = "closed"]
             /\ idle'[current].client = NoClient
    <3>1. conn'[c] = "closed" /\ ~notice[c]
      BY <2>1, <2>3 DEF CallOK, Selected, WatcherTypes
    <3>2. QED
      BY <1>1, <1>2, <2>1, <2>3, <3>1, WatcherConstants DEF CallOK, Watching
  <2>4. QED
    BY <1>1, <2>2, <2>3
<1>6. QED
  BY <1>3, <1>4, <1>5 DEF ConnInv

LEMMA StoppedKeepsConn ==
  ASSUME WatcherTypes, ConnInv, Stopped
  PROVE  ConnInv'
<1>1. /\ current \in Runs /\ ~stopping' /\ current' = 0 /\ call' = call
      /\ \A r \in Runs \ {current} : idle'[r] = idle[r]
      /\ idle'[current].stopped /\ ~idle'[current].timer
      /\ idle'[current].client = NoClient /\ idle'[current].uidValidity = 0
      /\ \A d \in Clients :
           /\ conn'[d] = IF d = idle[current].client THEN "closed" ELSE conn[d]
           /\ notice'[d] <=> notice[d] /\ d # idle[current].client
  BY StoppedFields DEF ConnInv
<1>2. ~Watching' /\ Watching
  BY <1>1, Zeros DEF Runs, Watching
<1>3. ASSUME NEW r \in Runs PROVE RunOK(r)'
  <2>1. r # 0
    BY Zeros DEF Runs
  <2>2. QED
    BY <1>1, <2>1 DEF ConnInv, RunOK
<1>4. StopOK' /\ OneUnderWay'
  BY <1>1, <1>2 DEF StopOK, OneUnderWay
<1>5. ASSUME NEW c \in Clients PROVE CallOK(c)'
  <2>1. CallOK(c)
    BY DEF ConnInv
  <2>2. conn'[c] = "closed" /\ ~notice'[c]
    BY <1>1, <2>1 DEF CallOK, Selected
  <2>3. call[c].step # "none" => call[c].run = current
    BY <1>2, <2>1 DEF CallOK, Watching
  <2>4. QED
    BY <1>1, <1>2, <2>1, <2>2, <2>3 DEF CallOK
<1>6. QED
  BY <1>3, <1>4, <1>5 DEF ConnInv

LEMMA ConnStep ==
  ASSUME WatcherTypes, ConnInv, [WatcherNext]_watcherVars
  PROVE  ConnInv'
<1>1. CASE \/ Deliver \/ Renumber \/ \E u \in mail : Expunge(u)
           \/ \E c \in Clients : CatchUp(c) \/ Exists(c)
           \/ \E f \in Fetches : FetchStep(f)
           \/ UNCHANGED watcherVars
  BY <1>1, QuietSteps
<1>2. ASSUME NEW c \in Clients, Drop(c) \/ ConnectFails(c) PROVE ConnInv'
  BY <1>2, ClosingSteps
<1>3. ASSUME NEW c \in Clients,
             \/ Start(c) \/ Retry(c) \/ Authenticated(c) \/ AuthFails(c)
             \/ LoggedIn(c) \/ Opened(c) \/ AskRetry(c)
      PROVE  ConnInv'
  BY <1>3, StartKeepsConn, RetryKeepsConn, AuthenticatedKeepsConn, AuthFailsKeepsConn,
     LoggedInKeepsConn, OpenedKeepsConn, AskRetryKeepsConn
<1>4. CASE Stop \/ Stopped
  BY <1>4, StopKeepsConn, StoppedKeepsConn
<1>5. QED
  BY <1>1, <1>2, <1>3, <1>4 DEF WatcherNext, ConnectStep

(***************************************************************************)
(* Reports.                                                                *)
(***************************************************************************)

\* Steps that leave what was reported and lastSeenUid alone.
LEMMA QuietKeepsSeen ==
  ASSUME WatcherTypes, ConnInv, ReportInv,
         UNCHANGED <<uidNext, epoch, current, reported, base>>, mail' \subseteq mail,
         current \in Runs => /\ idle'[current].lastSeenUid = idle[current].lastSeenUid
                             /\ idle'[current].uidValidity = idle[current].uidValidity,
         \A c \in Clients : conn'[c] = "idling" => conn[c] = "idling"
  PROVE  SeenOK' /\ ReportedOnce' /\ NoneSkipped'
<1>1. Watching => current \in Runs
  BY WatcherConstants DEF Watching, Runs, WatcherTypes
<1>2. \A c \in Clients : Selected(c)' => Selected(c) /\ Watching
  BY DEF Selected, ConnInv, CallOK
<1>3. SeenOK'
  BY <1>1, <1>2 DEF ReportInv, SeenOK, Watching
<1>4. ReportedOnce'
  BY DEF ReportInv, ReportedOnce
<1>5. NoneSkipped'
  BY <1>1 DEF ReportInv, NoneSkipped, Watching
<1>6. QED
  BY <1>3, <1>4, <1>5

\* Steps that leave a fetch alone: a connection in use opens, moves on or closes
\* only as its own call brings it along.
LEMMA QuietKeepsFetch ==
  ASSUME WatcherTypes, ConnInv, NEW f \in Fetches, FetchOK(f), fetch'[f] = fetch[f],
         UNCHANGED <<uidNext, current>>, mail' \subseteq mail,
         current \in Runs => idle'[current].lastSeenUid = idle[current].lastSeenUid,
         \A c \in Clients :
           /\ conn'[c] # "closed" => conn[c] # "closed" \/ call[c].step = "auth"
           /\ conn'[c] = "idling" => conn[c] = "idling"
           /\ conn[c] = "idling" => conn'[c] \in {"closed", "idling"}
           /\ call'[c].step = "auth" => call[c].step = "auth" \/ Unreferenced(c)
  PROVE  FetchOK(f)'
<1>1. Watching => current \in Runs
  BY WatcherConstants DEF Watching, Runs, WatcherTypes
<1>2. SUFFICES ASSUME fetch[f].step # "none" PROVE FetchOK(f)'
  BY DEF FetchOK
<1>3. PICK c \in Clients : c = fetch[f].client
  BY <1>2 DEF FetchOK
<1>4. /\ call[c].step # "auth" /\ ~Unreferenced(c) /\ call'[c].step # "auth"
      /\ conn'[c] # "closed" => conn[c] # "closed"
  BY <1>2, <1>3 DEF FetchOK, Unreferenced
<1>5. Selected(c)' => Selected(c) /\ current \in Runs
  BY <1>1 DEF Selected, ConnInv, CallOK
<1>6. fetch[f].step = "emit" => conn'[c] \in {"closed", "idling"}
  BY <1>2, <1>3, <1>4 DEF FetchOK
<1>7. QED
  BY <1>2, <1>3, <1>4, <1>5, <1>6 DEF FetchOK

\* Steps that leave both alone.
LEMMA QuietKeepsReports ==
  ASSUME WatcherTypes, ConnInv, ReportInv,
         UNCHANGED <<uidNext, epoch, current, reported, base>>, mail' \subseteq mail,
         \A f \in Fetches : fetch'[f] = fetch[f] \/ fetch'[f].step = "none",
         current \in Runs => /\ idle'[current].lastSeenUid = idle[current].lastSeenUid
                             /\ idle'[current].uidValidity = idle[current].uidValidity,
         \A c \in Clients :
           /\ conn'[c] # "closed" => conn[c] # "closed" \/ call[c].step = "auth"
           /\ conn'[c] = "idling" => conn[c] = "idling"
           /\ conn[c] = "idling" => conn'[c] \in {"closed", "idling"}
           /\ call'[c].step = "auth" => call[c].step = "auth" \/ Unreferenced(c)
  PROVE  ReportInv'
<1>1. SeenOK' /\ ReportedOnce' /\ NoneSkipped'
  BY QuietKeepsSeen
<1>2. ASSUME NEW f \in Fetches PROVE FetchOK(f)'
  <2>1. CASE fetch'[f] = fetch[f]
    BY <2>1, QuietKeepsFetch DEF ReportInv
  <2>2. CASE fetch'[f].step = "none"
    BY <2>2 DEF FetchOK
  <2>3. QED
    BY <2>1, <2>2
<1>3. QED
  BY <1>1, <1>2 DEF ReportInv

\* A message that is delivered is above everything seen or found so far.
LEMMA DeliverKeepsReports ==
  ASSUME WatcherTypes, ConnInv, ReportInv, Deliver
  PROVE  ReportInv'
<1>1. /\ mail' = mail \cup {uidNext} /\ uidNext' = uidNext + 1 /\ uidNext \in Nat
      /\ UNCHANGED <<epoch, idle, current, call, conn, fetch, reported, base>>
  BY WatcherConstants DEF Deliver, WatcherTypes
<1>2. current \in Runs => idle[current].lastSeenUid \in Nat
  BY WatcherConstants DEF WatcherTypes, IdleState
<1>3. Watching => current \in Runs
  BY WatcherConstants DEF Watching, Runs, WatcherTypes
<1>4. ASSUME NEW f \in Fetches PROVE FetchOK(f)'
  <2>1. FetchOK(f)
    BY DEF ReportInv
  <2>2. QED
    BY <1>1, <2>1 DEF FetchOK, Selected
<1>5. SeenOK'
  <2>1. \A u \in Uids : u \in Nat
    BY DEF Uids
  <2>2. QED
    BY <1>1, <1>2, <1>3, <2>1 DEF ReportInv, SeenOK, Watching, Selected
<1>6. ReportedOnce'
  BY <1>1 DEF ReportInv, ReportedOnce
<1>7. NoneSkipped'
  BY <1>1, <1>2, <1>3 DEF ReportInv, NoneSkipped, SeenOK, Watching
<1>8. QED
  BY <1>4, <1>5, <1>6, <1>7 DEF ReportInv

\* Nobody has the folder open when it is renumbered.
LEMMA RenumberKeepsReports ==
  ASSUME WatcherTypes, ConnInv, ReportInv, Renumber
  PROVE  ReportInv'
<1>1. /\ epoch' = epoch + 1 /\ epoch \in Nat /\ \A c \in Clients : ~Selected(c)
      /\ UNCHANGED <<idle, current, call, conn, fetch, reported, base>>
  BY DEF Renumber, WatcherTypes
<1>2. Watching => idle[current].uidValidity <= epoch /\ idle[current].uidValidity \in Nat
  BY WatcherConstants DEF ReportInv, SeenOK, Watching, WatcherTypes, Runs, IdleState
<1>3. ASSUME NEW f \in Fetches PROVE FetchOK(f)'
  <2>1. FetchOK(f)
    BY DEF ReportInv
  <2>2. QED
    BY <1>1, <2>1 DEF FetchOK, Selected
<1>4. SeenOK'
  <2>1. \A e \in 1..MaxEpoch : e \in Nat
    OBVIOUS
  <2>2. QED
    BY <1>1, <1>2, <2>1 DEF ReportInv, SeenOK, Watching, Selected
<1>5. ReportedOnce'
  BY <1>1 DEF ReportInv, ReportedOnce
<1>6. NoneSkipped'
  BY <1>1, <1>2 DEF NoneSkipped, Watching
<1>7. QED
  BY <1>3, <1>4, <1>5, <1>6 DEF ReportInv

\* A run starts with nothing seen.
LEMMA StartKeepsReports ==
  ASSUME WatcherTypes, ConnInv, ReportInv, NEW c \in Clients, Start(c)
  PROVE  ReportInv'
<1>1. /\ ~Watching /\ current \notin Runs /\ Unreferenced(c)
      /\ UNCHANGED <<mail, uidNext, epoch, idle, conn, fetch, reported, base>>
  BY Zeros DEF Start, Watching, serverVars, Runs
<1>2. PICK r \in Runs :
        /\ current' = r
        /\ call' = [call EXCEPT ![c] = [step |-> "auth", run |-> r, behind |-> FALSE]]
  BY DEF Start
<1>3. idle[r].uidValidity = 0 /\ epoch \in Nat \ {0}
  BY <1>1, <1>2 DEF ConnInv, RunOK, WatcherTypes
<1>4. \A d \in Clients : conn[d] = "closed" /\ (d # c => call'[d] = call[d])
  BY <1>1, <1>2 DEF ConnInv, CallOK, WatcherTypes
<1>5. ASSUME NEW f \in Fetches PROVE FetchOK(f)'
  <2>1. FetchOK(f)
    BY DEF ReportInv
  <2>2. fetch[f].client # c
    BY <1>1 DEF Unreferenced
  <2>3. QED
    BY <1>1, <1>4, <2>1, <2>2 DEF FetchOK, Selected
<1>6. SeenOK'
  BY <1>1, <1>2, <1>3, <1>4 DEF ReportInv, SeenOK, Selected
<1>7. ReportedOnce' /\ NoneSkipped'
  BY <1>1, <1>2, <1>3 DEF ReportInv, ReportedOnce, NoneSkipped
<1>8. QED
  BY <1>5, <1>6, <1>7 DEF ReportInv

\* A folder is opened on the only connection there is, which no fetch has used yet.
LEMMA OpenedKeepsReports ==
  ASSUME WatcherTypes, ConnInv, ReportInv, NEW c \in Clients, Opened(c)
  PROVE  ReportInv'
<1>0. CallOK(c)
  BY DEF ConnInv
<1>1. /\ current \in Runs /\ idle[current].client = c /\ conn[c] = "usable"
      /\ conn' = [conn EXCEPT ![c] = "idling"]
      /\ call'[c].step = "logged" /\ \A d \in Clients \ {c} : call'[d] = call[d]
      /\ idle'[current].uidValidity = epoch
      /\ IF idle[current].uidValidity = epoch
         THEN idle'[current].lastSeenUid = idle[current].lastSeenUid /\ base' = base
         ELSE idle'[current].lastSeenUid = uidNext - 1 /\ base' = uidNext - 1
      /\ UNCHANGED <<mail, uidNext, epoch, current, fetch, reported>>
  BY <1>0, OpenedFields
<1>2. Watching /\ uidNext \in Nat \ {0} /\ epoch \in 1..MaxEpoch
  BY <1>1, Zeros DEF Watching, Runs, WatcherTypes
<1>3. \A d \in Clients : d # c => conn[d] = "closed" /\ conn'[d] = "closed"
  BY <1>1 DEF ConnInv, CallOK, WatcherTypes
<1>4. ASSUME NEW f \in Fetches PROVE FetchOK(f)'
  <2>1. FetchOK(f)
    BY DEF ReportInv
  <2>2. fetch[f].client = c => fetch[f].step # "emit"
    BY <1>1, <2>1 DEF FetchOK
  <2>3. QED
    BY <1>1, <1>3, <2>1, <2>2 DEF FetchOK, Selected
<1>5. SeenOK'
  <2>1. \A u \in Uids : u \in Nat
    BY DEF Uids
  <2>2. \A u \in Uids : reported[epoch][u] > 0 => u < uidNext
    BY <1>2 DEF ReportInv, SeenOK
  <2>3. /\ idle'[current].lastSeenUid < uidNext
        /\ \A u \in Uids : reported[epoch][u] > 0 => u <= idle'[current].lastSeenUid
    BY <1>1, <1>2, <2>1, <2>2 DEF ReportInv, SeenOK
  <2>4. QED
    BY <1>1, <1>2, <2>3 DEF ReportInv, SeenOK, Watching
<1>6. ReportedOnce'
  BY <1>1 DEF ReportInv, ReportedOnce
<1>7. NoneSkipped'
  <2>1. CASE idle[current].uidValidity = epoch
    BY <1>1, <1>2, <2>1 DEF ReportInv, NoneSkipped, Watching
  <2>2. CASE idle[current].uidValidity # epoch
    BY <1>1, <1>2, <2>2 DEF NoneSkipped
  <2>3. QED
    BY <2>1, <2>2
<1>8. QED
  BY <1>4, <1>5, <1>6, <1>7 DEF ReportInv

\* Of the run that ends no connection is left.
LEMMA StoppedKeepsReports ==
  ASSUME WatcherTypes, ConnInv, ReportInv, Stopped
  PROVE  ReportInv'
<1>1. ConnInv'
  BY StoppedKeepsConn
<1>2. /\ current' = 0 /\ ~Watching'
      /\ UNCHANGED <<mail, uidNext, epoch, call, fetch, reported>>
  BY DEF Stopped, Watching, serverVars
<1>3. \A c \in Clients : conn'[c] = "closed"
  BY <1>1, <1>2 DEF ConnInv, CallOK
<1>4. ASSUME NEW f \in Fetches PROVE FetchOK(f)'
  <2>1. FetchOK(f)
    BY DEF ReportInv
  <2>2. QED
    BY <1>2, <1>3, <2>1 DEF FetchOK, Selected
<1>5. SeenOK' /\ ReportedOnce' /\ NoneSkipped'
  BY <1>2, <1>3 DEF ReportInv, SeenOK, ReportedOnce, NoneSkipped, Selected
<1>6. QED
  BY <1>4, <1>5 DEF ReportInv

\* A fetch starts on the client in the map, whose call has its credentials.
LEMMA HandleKeepsReports ==
  ASSUME WatcherTypes, ConnInv, ReportInv, NEW c \in Clients, CatchUp(c) \/ Exists(c)
  PROVE  ReportInv'
<1>1. /\ UNCHANGED <<mail, uidNext, epoch, idle, current, conn, reported, base>>
      /\ Handle \/ UNCHANGED fetch
  BY DEF CatchUp, Exists, serverVars
<1>2. \A d \in Clients : call'[d].step = "auth" => call[d].step = "auth"
  <2>1. call' = call \/ call' = [call EXCEPT ![c].step = "none"]
    BY DEF CatchUp, Exists, CallAt
  <2>2. QED
    BY <2>1 DEF WatcherTypes
<1>3. SeenOK' /\ ReportedOnce' /\ NoneSkipped'
  BY <1>1, QuietKeepsSeen
<1>4. ASSUME NEW f \in Fetches PROVE FetchOK(f)'
  <2>1. CASE fetch'[f] = fetch[f]
    BY <1>1, <1>2, <2>1, QuietKeepsFetch DEF ReportInv
  <2>2. CASE fetch'[f] # fetch[f]
    <3>1. /\ Watching /\ idle[current].client \in Clients
          /\ fetch'[f].step = "lock" /\ fetch'[f].run = current
          /\ fetch'[f].client = idle[current].client
      BY <1>1, <2>2, HandleTyped
    <3>2. call[idle[current].client].step # "auth"
      BY <3>1 DEF ConnInv, CallOK, WatcherTypes
    <3>3. QED
      BY <1>1, <1>2, <3>1, <3>2 DEF FetchOK
  <2>3. QED
    BY <2>1, <2>2
<1>5. QED
  BY <1>3, <1>4 DEF ReportInv

\* The answer holds all mail above lastSeenUid.
LEMMA LockKeepsReports ==
  ASSUME WatcherTypes, ConnInv, ReportInv, NEW f \in Fetches, Lock(f)
  PROVE  ReportInv'
<1>1. /\ fetch[f].step = "lock" /\ Selected(fetch[f].client)
      /\ \A g \in Fetches \ {f} : fetch'[g] = fetch[g]
      /\ fetch'[f].step = "emit" /\ fetch'[f].run = fetch[f].run
      /\ fetch'[f].client = fetch[f].client
      /\ fetch'[f].found \subseteq mail
      /\ \A u \in mail : u >= idle[fetch[f].run].lastSeenUid + 1 => u \in fetch'[f].found
      /\ UNCHANGED <<mail, uidNext, epoch, idle, current, call, conn, reported, base>>
  BY LockFields
<1>2. SeenOK' /\ ReportedOnce' /\ NoneSkipped'
  BY <1>1, QuietKeepsSeen
<1>3. ASSUME NEW g \in Fetches, g # f PROVE FetchOK(g)'
  BY <1>1, <1>3, QuietKeepsFetch DEF ReportInv
<1>4. FetchOK(f)'
  <2>1. FetchOK(f)
    BY DEF ReportInv
  <2>2. PICK c \in Clients : c = fetch[f].client
    BY <1>1, <2>1 DEF FetchOK
  <2>3. call[c].step # "auth" /\ conn[c] = "idling" /\ fetch[f].run = current /\ current \in Runs
    BY <1>1, <2>1, <2>2, WatcherConstants
    DEF FetchOK, Selected, ConnInv, CallOK, Watching, Runs, WatcherTypes
  <2>4. fetch'[f].found \subseteq 1..(uidNext - 1)
    BY <1>1 DEF WatcherTypes
  <2>5. ASSUME NEW u \in mail \ fetch'[f].found PROVE ~(u > idle[current].lastSeenUid)
    <3>1. idle[current].lastSeenUid \in Nat /\ u \in Nat
      BY <2>3, WatcherConstants DEF WatcherTypes, IdleState
    <3>2. QED
      BY <1>1, <2>3, <3>1
  <2>6. QED
    BY <1>1, <2>2, <2>3, <2>4, <2>5 DEF FetchOK
<1>5. QED
  BY <1>2, <1>3, <1>4 DEF ReportInv

\* What goes out was not reported before, and nothing below its last UID is left.
LEMMA EmitKeepsReports ==
  ASSUME WatcherTypes, ConnInv, ReportInv, NEW f \in Fetches, Emit(f)
  PROVE  ReportInv'
<1>1. PICK new : new = NewOf(f)
  OBVIOUS
<1>2. /\ fetch[f].step = "emit" /\ Selected(fetch[f].client)
      /\ new \subseteq fetch[f].found /\ fetch[f].found \subseteq Uids
      /\ fetch' = [fetch EXCEPT ![f] = NoFetch]
      /\ \A e \in 1..MaxEpoch \ {epoch} : reported'[e] = reported[e]
      /\ \A u \in new : reported'[epoch][u] = reported[epoch][u] + 1
      /\ \A u \in Uids \ new : reported'[epoch][u] = reported[epoch][u]
      /\ UNCHANGED <<mail, uidNext, epoch, current, call, conn, base>>
  BY <1>1, EmitFields
<1>3. \A r \in Runs :
        /\ r # current \/ new = {} => idle'[r] = idle[r]
        /\ r = current /\ new # {} =>
             /\ idle'[r].uidValidity = idle[r].uidValidity
             /\ idle'[r].lastSeenUid \in new
             /\ \A u \in new : u <= idle'[r].lastSeenUid
  BY <1>1, EmitFields
<1>4. FetchOK(f) /\ epoch \in 1..MaxEpoch
  BY DEF ReportInv, WatcherTypes
<1>5. PICK c \in Clients : c = fetch[f].client
  BY <1>2, <1>4 DEF FetchOK
<1>6. /\ Selected(c) /\ Watching /\ current \in Runs /\ fetch[f].run = current
      /\ fetch[f].found \subseteq 1..(uidNext - 1)
      /\ \A u \in mail \ fetch[f].found :
           u > idle[current].lastSeenUid => \A v \in fetch[f].found : v < u
  BY <1>2, <1>4, <1>5, WatcherConstants
  DEF FetchOK, Selected, ConnInv, CallOK, Watching, Runs, WatcherTypes
<1>7. PICK seen \in Nat : seen = idle[current].lastSeenUid
  BY <1>6, WatcherConstants DEF WatcherTypes, IdleState
<1>8. new = {u \in fetch[f].found : u > seen}
  BY <1>1, <1>6, <1>7 DEF NewOf
<1>9. /\ \A u \in Uids : u \in Nat
      /\ \A u \in Uids : reported[epoch][u] \in Nat /\ (reported[epoch][u] > 0 => u <= seen)
      /\ seen < uidNext /\ uidNext \in Nat
  BY <1>4, <1>6, <1>7, WatcherConstants DEF Uids, ReportInv, SeenOK, WatcherTypes
<1>10. PICK top \in Nat : top = idle'[current].lastSeenUid
  BY <1>2, <1>3, <1>6, <1>7, <1>9
<1>11. /\ idle'[current].uidValidity = epoch /\ idle[current].uidValidity = epoch
       /\ seen <= top /\ top < uidNext /\ \A u \in new : u <= top
       /\ new # {} => top \in new
       /\ new = {} => top = seen
  <2>1. idle[current].uidValidity = epoch
    BY <1>6 DEF ReportInv, SeenOK
  <2>2. CASE new = {}
    BY <1>3, <1>6, <1>7, <1>9, <1>10, <2>1, <2>2
  <2>3. CASE new # {}
    <3>1. top \in new /\ \A u \in new : u <= top
      BY <1>3, <1>6, <1>10, <2>3
    <3>2. top > seen /\ top \in 1..(uidNext - 1)
      BY <1>6, <1>8, <3>1
    <3>3. QED
      BY <1>3, <1>6, <1>9, <2>1, <2>3, <3>1, <3>2
  <2>4. QED
    BY <2>2, <2>3
<1>12. \A u \in Uids :
         /\ u \in new => reported[epoch][u] = 0 /\ reported'[epoch][u] = 1
         /\ u \notin new => reported'[epoch][u] = reported[epoch][u]
  BY <1>2, <1>8, <1>9
<1>13. ASSUME NEW g \in Fetches PROVE FetchOK(g)'
  <2>1. FetchOK(g)
    BY DEF ReportInv
  <2>2. CASE g = f
    BY <1>2, <2>2 DEF FetchOK, NoFetch, WatcherTypes
  <2>3. CASE g # f
    <3>1. fetch'[g] = fetch[g]
      BY <1>2, <2>3 DEF WatcherTypes
    <3>2. \A u \in mail : u \in Nat /\ (u > top => u > seen)
      BY <1>9, <1>11 DEF WatcherTypes
    <3>3. QED
      BY <1>2, <1>7, <1>10, <2>1, <3>1, <3>2 DEF FetchOK, Selected
  <2>4. QED
    BY <2>2, <2>3
<1>14. SeenOK'
  <2>1. \A d \in Clients : Selected(d)' => idle'[current].uidValidity = epoch
    BY <1>11
  <2>2. \A u \in Uids : reported'[epoch][u] > 0 => u <= top /\ u < uidNext
    BY <1>9, <1>11, <1>12
  <2>3. \A e \in 1..MaxEpoch, u \in Uids :
          reported'[e][u] > 0 => e < epoch \/ (e = epoch /\ u < uidNext)
    BY <1>2, <2>2 DEF ReportInv, SeenOK
  <2>4. QED
    BY <1>2, <1>4, <1>10, <1>11, <2>1, <2>2, <2>3 DEF SeenOK
<1>15. ReportedOnce'
  <2>1. \A u \in Uids : reported'[epoch][u] <= 1
    BY <1>4, <1>12 DEF ReportInv, ReportedOnce
  <2>2. QED
    BY <1>2, <2>1 DEF ReportInv, ReportedOnce
<1>16. NoneSkipped'
  <2>1. ASSUME NEW u \in mail, u \in base + 1 .. top PROVE reported'[epoch][u] > 0
    <3>1. u \in Uids /\ u \in Nat /\ base \in Nat
      BY WatcherConstants DEF WatcherTypes, Uids
    <3>2. CASE u <= seen
      <4>1. reported[epoch][u] > 0
        BY <1>6, <1>7, <1>11, <2>1, <3>1, <3>2 DEF ReportInv, NoneSkipped
      <4>2. QED
        BY <1>12, <3>1, <4>1
    <3>3. CASE u > seen
      <4>1. new # {} /\ top \in fetch[f].found
        BY <1>2, <1>11, <2>1, <3>1, <3>3
      <4>2. u \in fetch[f].found
        BY <1>6, <1>7, <2>1, <3>1, <3>3, <4>1
      <4>3. QED
        BY <1>8, <1>12, <3>1, <3>3, <4>2
    <3>4. QED
      BY <1>7, <3>1, <3>2, <3>3
  <2>2. QED
    BY <1>2, <1>10, <2>1 DEF NoneSkipped
<1>17. QED
  BY <1>13, <1>14, <1>15, <1>16 DEF ReportInv

\* The other steps neither report nor see anything.
LEMMA OtherStepsKeepReports ==
  ASSUME WatcherTypes, ConnInv, ReportInv,
         \/ \E u \in mail : Expunge(u)
         \/ \E c \in Clients :
              \/ Retry(c) \/ Authenticated(c) \/ AuthFails(c) \/ LoggedIn(c) \/ AskRetry(c)
              \/ ConnectFails(c) \/ Drop(c)
         \/ \E f \in Fetches : FetchFails(f)
         \/ Stop
         \/ UNCHANGED watcherVars
  PROVE  ReportInv'
<1>1. ASSUME NEW c \in Clients, NEW step \in CallSteps \ {"auth"}, CallAt(c, step)
      PROVE  \A d \in Clients : call'[d].step = "auth" => call[d].step = "auth"
  BY <1>1 DEF CallAt, WatcherTypes
<1>2. ASSUME NEW u \in mail, Expunge(u) PROVE ReportInv'
  <2>1. /\ mail' \subseteq mail
        /\ UNCHANGED <<uidNext, epoch, idle, current, call, conn, fetch, reported, base>>
    BY <1>2 DEF Expunge
  <2>2. QED
    BY <2>1, QuietKeepsReports
<1>3. ASSUME NEW c \in Clients, Retry(c) PROVE ReportInv'
  <2>1. /\ UNCHANGED <<mail, uidNext, epoch, current, conn, fetch, reported, base>>
        /\ Unreferenced(c)
        /\ call' = [call EXCEPT ![c] = [step |-> "auth", run |-> current, behind |-> FALSE]]
        /\ idle' = [idle EXCEPT ![current] = [idle[current] EXCEPT !.timer = FALSE]]
    BY <1>3 DEF Retry, serverVars
  <2>2. \A d \in Clients : call'[d].step = "auth" => call[d].step = "auth" \/ Unreferenced(d)
    BY <2>1 DEF WatcherTypes
  <2>3. current \in Runs => /\ idle'[current].lastSeenUid = idle[current].lastSeenUid
                            /\ idle'[current].uidValidity = idle[current].uidValidity
    BY <2>1 DEF WatcherTypes, IdleState
  <2>4. QED
    BY <2>1, <2>2, <2>3, QuietKeepsReports
<1>4. ASSUME NEW c \in Clients, Authenticated(c) PROVE ReportInv'
  <2>1. /\ UNCHANGED <<mail, uidNext, epoch, current, fetch, reported, base>>
        /\ call[c].step = "auth" /\ CallOK(c)
    BY <1>4 DEF Authenticated, serverVars, ConnInv
  <2>2. \A d \in Clients : call'[d].step = "auth" => call[d].step = "auth"
    BY <1>1, <1>4 DEF Authenticated, CallSteps
  <2>3. \/ UNCHANGED <<conn, idle>>
        \/ /\ conn' = [conn EXCEPT ![c] = "login"]
           /\ idle'[current].lastSeenUid = idle[current].lastSeenUid
           /\ idle'[current].uidValidity = idle[current].uidValidity
    BY <1>4, <2>1, AuthFields
  <2>4. \A d \in Clients : conn'[d] = conn[d] \/ (d = c /\ conn'[d] = "login")
    BY <2>3 DEF WatcherTypes
  <2>5. conn[c] = "closed"
    BY <2>1 DEF CallOK, WatcherTypes
  <2>6. QED
    BY <2>1, <2>2, <2>3, <2>4, <2>5, QuietKeepsReports
<1>5. ASSUME NEW c \in Clients, AuthFails(c) PROVE ReportInv'
  <2>1. UNCHANGED <<mail, uidNext, epoch, idle, current, conn, fetch, reported, base>>
    BY <1>5 DEF AuthFails, serverVars
  <2>2. \A d \in Clients : call'[d].step = "auth" => call[d].step = "auth"
    BY <1>1, <1>5 DEF AuthFails, CallSteps
  <2>3. QED
    BY <2>1, <2>2, QuietKeepsReports
<1>6. ASSUME NEW c \in Clients, LoggedIn(c) PROVE ReportInv'
  <2>1. /\ UNCHANGED <<mail, uidNext, epoch, idle, current, fetch, reported, base>>
        /\ conn[c] = "login" /\ conn' = [conn EXCEPT ![c] = "usable"]
    BY <1>6 DEF LoggedIn, serverVars
  <2>2. \A d \in Clients : call'[d].step = "auth" => call[d].step = "auth"
    BY <1>1, <1>6 DEF LoggedIn, CallSteps
  <2>3. \A d \in Clients : conn'[d] = IF d = c THEN "usable" ELSE conn[d]
    BY <2>1 DEF WatcherTypes
  <2>4. QED
    BY <2>1, <2>2, <2>3, QuietKeepsReports
<1>7. ASSUME NEW c \in Clients, AskRetry(c) PROVE ReportInv'
  <2>1. UNCHANGED <<mail, uidNext, epoch, current, conn, fetch, reported, base>>
    BY <1>7 DEF AskRetry, serverVars
  <2>2. \A d \in Clients : call'[d].step = "auth" => call[d].step = "auth"
    BY <1>1, <1>7 DEF AskRetry, CallSteps
  <2>3. current \in Runs => /\ idle'[current].lastSeenUid = idle[current].lastSeenUid
                            /\ idle'[current].uidValidity = idle[current].uidValidity
    <3>1. current \in Runs => idle[current] \in IdleState
      BY DEF WatcherTypes
    <3>2. current \in Runs => idle'[current] = WithRetry(idle[current])
      BY <1>7 DEF AskRetry
    <3>3. QED
      BY <3>1, <3>2, RetryFields
  <2>4. QED
    BY <2>1, <2>2, <2>3, QuietKeepsReports
<1>8. ASSUME NEW c \in Clients, ConnectFails(c) \/ Drop(c) PROVE ReportInv'
  <2>1. UNCHANGED <<mail, uidNext, epoch, current, fetch, reported, base>> /\ Close(c)
    BY <1>8 DEF ConnectFails, Drop, serverVars
  <2>2. \A d \in Clients : call'[d].step = "auth" => call[d].step = "auth"
    BY <1>1, <1>8 DEF ConnectFails, Drop, CallSteps
  <2>3. conn' = [conn EXCEPT ![c] = "closed"]
    BY <2>1, CloseFields
  <2>4. \A d \in Clients : conn'[d] = IF d = c THEN "closed" ELSE conn[d]
    BY <2>3 DEF WatcherTypes
  <2>5. current \in Runs => /\ idle'[current].lastSeenUid = idle[current].lastSeenUid
                            /\ idle'[current].uidValidity = idle[current].uidValidity
    BY <2>1, CloseFields
  <2>6. QED
    BY <2>1, <2>2, <2>4, <2>5, QuietKeepsReports
<1>9. ASSUME NEW f \in Fetches, FetchFails(f) PROVE ReportInv'
  <2>1. /\ UNCHANGED <<mail, uidNext, epoch, idle, current, call, conn, reported, base>>
        /\ fetch' = [fetch EXCEPT ![f] = NoFetch]
    BY <1>9 DEF FetchFails, serverVars
  <2>2. \A g \in Fetches : fetch'[g] = fetch[g] \/ fetch'[g].step = "none"
    BY <2>1 DEF WatcherTypes, NoFetch
  <2>3. QED
    BY <2>1, <2>2, QuietKeepsReports
<1>10. CASE Stop
  <2>1. /\ UNCHANGED <<mail, uidNext, epoch, current, call, fetch, reported, base>>
        /\ idle'[current].lastSeenUid = idle[current].lastSeenUid
        /\ idle'[current].uidValidity = idle[current].uidValidity
        /\ \/ \E c \in Clients : conn' = [conn EXCEPT ![c] = "closed"]
           \/ conn' = conn
    BY <1>10, StopFields
  <2>2. \A d \in Clients : conn'[d] = conn[d] \/ conn'[d] = "closed"
    BY <2>1 DEF WatcherTypes
  <2>3. QED
    BY <2>1, <2>2, QuietKeepsReports
<1>11. CASE UNCHANGED watcherVars
  <2>1. UNCHANGED <<mail, uidNext, epoch, idle, current, call, conn, fetch, reported, base>>
    BY <1>11 DEF watcherVars, serverVars
  <2>2. QED
    BY <2>1, QuietKeepsReports
<1>12. QED
  BY <1>2, <1>3, <1>4, <1>5, <1>6, <1>7, <1>8, <1>9, <1>10, <1>11

LEMMA ReportStep ==
  ASSUME WatcherTypes, ConnInv, ReportInv, [WatcherNext]_watcherVars
  PROVE  ReportInv'
<1>1. CASE Deliver \/ Renumber
  BY <1>1, DeliverKeepsReports, RenumberKeepsReports
<1>2. ASSUME NEW c \in Clients, Start(c) \/ Opened(c) \/ CatchUp(c) \/ Exists(c) PROVE ReportInv'
  BY <1>2, StartKeepsReports, OpenedKeepsReports, HandleKeepsReports
<1>3. ASSUME NEW f \in Fetches, Lock(f) \/ Emit(f) PROVE ReportInv'
  BY <1>3, LockKeepsReports, EmitKeepsReports
<1>4. CASE Stopped
  BY <1>4, StoppedKeepsReports
<1>5. CASE \/ \E u \in mail : Expunge(u)
           \/ \E c \in Clients :
                \/ Retry(c) \/ Authenticated(c) \/ AuthFails(c) \/ LoggedIn(c) \/ AskRetry(c)
                \/ ConnectFails(c) \/ Drop(c)
           \/ \E f \in Fetches : FetchFails(f)
           \/ Stop
           \/ UNCHANGED watcherVars
  BY <1>5, OtherStepsKeepReports
<1>6. QED
  BY <1>1, <1>2, <1>3, <1>4, <1>5 DEF WatcherNext, ConnectStep, FetchStep

(***************************************************************************)
(* Theorems.                                                               *)
(***************************************************************************)

LEMMA InvInit ==
  ASSUME WatcherInit
  PROVE  WatcherInv
<1>1. WatcherTypes
  <2>1. NewIdle \in IdleState /\ NoFetch \in FetchCalls
    BY Zeros DEF NewIdle, NoFetch, IdleState, FetchCalls
  <2>2. uidNext \in 1..(MaxUid + 1) /\ epoch \in 1..MaxEpoch /\ drops \in 0..MaxDrops
    BY WatcherConstants DEF WatcherInit
  <2>3. QED
    BY <2>1, <2>2, Zeros DEF WatcherInit, WatcherTypes, CallSteps
<1>2. ~Watching /\ current \notin Runs
  BY Zeros DEF WatcherInit, Watching, Runs
<1>3. ConnInv
  BY <1>2 DEF WatcherInit, ConnInv, RunOK, StopOK, CallOK, OneUnderWay, NewIdle, Watching
<1>4. ReportInv
  <2>1. \A e \in 1..MaxEpoch, u \in Uids : reported[e][u] = 0
    BY DEF WatcherInit
  <2>2. \A c \in Clients : ~Selected(c)
    BY DEF WatcherInit, Selected
  <2>3. epoch \in 1..MaxEpoch
    BY <1>1 DEF WatcherTypes
  <2>4. \A f \in Fetches : FetchOK(f)
    BY DEF WatcherInit, FetchOK, NoFetch
  <2>5. QED
    BY <1>2, <2>1, <2>2, <2>3, <2>4 DEF ReportInv, SeenOK, ReportedOnce, NoneSkipped
<1>5. QED
  BY <1>1, <1>3, <1>4 DEF WatcherInv

\* Every step keeps the invariant.
LEMMA InvStep ==
  WatcherInv /\ [WatcherNext]_watcherVars => WatcherInv'
BY TypesStep, ConnStep, ReportStep DEF WatcherInv

LEMMA WatcherInvariant == WatcherSpec => []WatcherInv
BY InvInit, InvStep, PTL DEF WatcherSpec

\* In every reachable state each part of the watcher has its type; a watcher that
\* stop() has marked has no reconnect timer, and the client in the map is open.
THEOREM WatcherTypeCorrect == WatcherSpec => []WatcherTypeOK
<1>1. WatcherInv => WatcherTypeOK
  <2> SUFFICES ASSUME WatcherInv PROVE WatcherTypeOK
    OBVIOUS
  <2>1. WatcherTypes /\ ConnInv
    BY DEF WatcherInv
  <2>2. /\ mail \subseteq Uids /\ uidNext \in 1..(MaxUid + 1) /\ epoch \in 1..MaxEpoch
        /\ \A u \in mail : u < uidNext
    BY <2>1, WatcherConstants DEF WatcherTypes, Uids
  <2>3. Watching => current \in Runs
    BY <2>1, WatcherConstants DEF Watching, Runs, WatcherTypes
  <2>4. stopping => Watching /\ idle[current].stopped
    BY <2>1, <2>3 DEF ConnInv, StopOK, RunOK
  <2>5. \A f \in Fetches : fetch[f].step \in {"none", "lock", "emit"}
    BY <2>1 DEF WatcherTypes, FetchCalls
  <2>6. ASSUME NEW r \in Runs, idle[r].client # NoClient PROVE conn[idle[r].client] # "closed"
    <3>1. idle[r].client \in Clients /\ r = current
      BY <2>1, <2>6 DEF WatcherTypes, IdleState, ConnInv, RunOK
    <3>2. Watching
      BY <3>1, Zeros DEF Watching, Runs
    <3>3. QED
      BY <2>1, <3>1, <3>2 DEF ConnInv, CallOK
  <2>7. \A r \in Runs : idle[r].stopped => ~idle[r].timer
    BY <2>1 DEF ConnInv, RunOK
  <2>8. QED
    BY <2>1, <2>2, <2>4, <2>5, <2>6, <2>7 DEF WatcherTypeOK, WatcherTypes
<1>2. QED
  BY <1>1, WatcherInvariant, PTL

\* No connection is left behind: an open one is the client of the run in the map,
\* where stop() finds it, whatever timers, failures and restarts overlap.
THEOREM NoClientLost == WatcherSpec => []NoStrayClient
<1>1. WatcherInv => NoStrayClient
  BY DEF WatcherInv, ConnInv, CallOK, NoStrayClient
<1>2. QED
  BY <1>1, WatcherInvariant, PTL

\* No message is reported twice and lastSeenUid passes none over, for any number
\* of overlapping notices, fetches, reconnects, restarts and renumberings.
THEOREM ReportsInTurn == WatcherSpec => []ReportedInTurn
<1>1. WatcherInv => ReportedInTurn
  BY DEF WatcherInv, ReportInv, ReportedInTurn
<1>2. QED
  BY <1>1, WatcherInvariant, PTL
=============================================================================
