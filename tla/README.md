# Verification of mailoo

TLA+ models of mailoo (an MCP server and command line for email), the TLC runs
that check them and the TLAPS proofs about them. Paths below are relative to the
repository.

## The system

Mailoo runs as a stdio MCP server (one process per client), as an HTTP MCP
server (one process, many sessions) or as a command line. Several stdio servers
and command-line calls may run on one machine, over the same state directory,
with no daemon between them. The file system is all they share.

| Part | State | Operations | Hard behaviour |
|---|---|---|---|
| File claims (`src/utils/file-claim.ts`) | a lock file per claim: a random token and an mtime | acquire, steal a stale claim, renew, release | every file-system call can interleave with another process; a holder may die; a claim may be parked under another name |
| Scheduled sends (`src/services/scheduler.service.ts`) | one JSON record per email in `scheduled/`, moved to `sent/` | schedule, check and send, cancel, list | at most so many SMTP acceptances whatever fails; retries; the record read before and after the claim; a death between SMTP and the record |
| Atomic replacement (`src/utils/atomic-write.ts`) | temp files | write whole or not at all | failing writes |
| Writer lease (`src/safety/writer-lease.ts`) | `mailbox-writers.lock`, a token, one running step | start, tick, step, halt, release | take-over, a halt during a step, a step that outlasts the stale window |
| Writer wiring and shutdown (`stdio-writers.ts`, `write-side-effects.ts`, `shutdown.ts`, `stdio-lifecycle.ts` in `src/safety/`) | what is running; where shutdown is | onLead, onLose, ordered shutdown steps with a deadline | the deadline cuts a step off |
| IMAP IDLE watcher (`src/services/watcher.service.ts`) | per account and folder: client, last seen UID, UIDVALIDITY, retry timer | start, stop, connect, reconnect, EXISTS, fetch | stop and restart with a connect or a fetch in flight; reconnects that resume; a fetch that fails on a live connection |
| Event bus (`src/services/event-bus.ts`) | listeners | emit | synchronous |
| Hooks (`src/services/hooks.service.ts`) | queue, batch timer, flush chain, sampling budget | on event, flush, rules, triage, calendar step | bounded queue, flushes one after the other, stop with a flush running, one failing step among several |
| Mail arrival (`src/services/mail-arrival/`) | keys of the messages already claimed | classify, flag, move | copies of one message; a failed classification keeps its next chance |
| Notifier (`src/services/notifier.service.ts`) | alert settings, desktop counter and its reset timer | alert, update, test, stop | overlapping tests, the cap after a restart |
| IMAP operations (`imap.service.ts`, `label-strategy.ts`, `mailbox-lock.ts`, `protected-mailboxes.ts` in `src/services/`) | the mailbox that is open, the lock queue, label strategies | every read and change of the account | calls interleave on one connection; lost answers; hung commands; folders that another client moves or makes anew |
| SMTP and rate limit (`smtp.service.ts`, `rate-limiter.ts`) | a token bucket per account | send, reply, forward, send a draft | what fails after the mail went out |
| Sieve, templates, calendars, reminders (services of these names) | scripts, files, the two apps | get, put, add, list | an answer lost after the effect; two calls of one kind |
| Tools (`src/tools/`), audit log (`src/safety/audit.ts`) | the log | one handler per tool | what a failing handler reports and records |
| Connections (`src/connections/`) | kept clients and transports, connects in flight, backoff | get, verify, closeAll | shared connects, a drop or a close during a connect |
| OAuth (`src/services/oauth.service.ts`) | cached tokens, refreshes in flight | token, refresh | one refresh per refresh token |
| HTTP guard (`src/safety/http-transport.ts`) | listen policy, sockets | resolve, listen, judge a request | launch options against headers, port 0, a second socket that cannot open |
| HTTP session host (`http-mcp-host.ts`, `http-sessions.ts`, `http-session-*.ts` in `src/safety/`) | session table, requests in flight, sampling candidates | open, serve, evict, dispose, start the writers, close | eviction against requests in flight, disposal against late messages |
| Calendar state (`src/utils/calendar-state.ts`) | processed-event file with a claim | is processed, mark processed | check then act |
| Install count (`src/services/install-count.ts`) | a marker created exclusively | report once | one create decides |
| Validation, redaction, configuration, command line, prompts, resources | none, or read at start | pure, or interactive I/O | nothing concurrent of their own |

How they interact: a stdio server wins the writer lease and then starts hooks,
scheduler loop and watcher, and stops them when it loses the lease or shuts
down (direct calls, in the order of `stdio-writers.ts`); an HTTP server starts them
once its first client finished its handshake. The watcher emits new
mail on the event bus; hooks queue it, ask the client or System One to classify it, apply
rules and notify. The scheduler loop and `mailoo scheduler check` call
`checkAndSend`, which takes one file claim per email and calls the SMTP service,
whose rate limiter may reject. Cancel takes the same claim. The writer lease,
the scheduler and the calendar state are three clients of the
one file-claim protocol. All tool calls of a process share one IMAP connection per
account, which the connection manager keeps.

What makes each correct:

- *File claims*: one holder at a time, a dead holder's claim is taken in the
  end, a live one is never lost for good.
- *Scheduled sends*: no email is accepted more often than its record admits, no
  record is lost or doubled or comes back, sent and failed are true when they
  are said, a due email is settled in the end, the cap holds.
- *Writer lease and wiring*: one process writes; one that lost its lease stops;
  somebody writes while somebody tries.
- *Watcher*: every message that arrives is reported once per UIDVALIDITY, in
  order; nothing of a stopped run touches the next one.
- *Hooks, mail arrival, notifier*: an accepted email is announced once and gets
  every step asked for it, whatever fails, or is dropped by a stop; a message is
  classified once; a test leaves the alert settings alone.
- *Mail tools*: a call acts on the messages it was given and loses none it was not
  told to; what it answers is true; changes are audited; nobody waits for ever on a
  call that ended.
- *Connections and OAuth*: no login left outside the maps or open after
  `closeAll`, backoff windows kept, one refresh at a time, every call answered.
- *HTTP*: no request past the guard that the launch options do not allow; no session
  with a request in flight evicted; hooks sample on the newest client that can.

`PROJECT.json` lists these parts with their sources under `components` and, under
`hazards`, each thing that can go wrong in them at its line.

## Modules

| Module | What it is |
|---|---|
| `FileClaim` | `file-claim.ts`, one action per file-system call |
| `ExclusiveClaim` | what a claim promises its callers; `FileClaim` implements it |
| `Scheduler` | `scheduler.service.ts`, EXTENDS `FileClaim` |
| `MailLifecycle` | what scheduling an email promises its sender; `Scheduler` implements it |
| `WriterLease` | `writer-lease.ts`, the wiring and shutdown order, EXTENDS `FileClaim` |
| `Watcher` | `watcher.service.ts` for one folder, with the IMAP server it talks to |
| `MailPolicy` | the pure decisions about new mail: rules, classification, triage replies |
| `Notifier` | `notifier.service.ts` |
| `Hooks` | `hooks.service.ts` and mail arrival, EXTENDS `Notifier` and `MailPolicy` |
| `MailServer` | one account's IMAP server and the connection to it (external), the mailbox lock |
| `ToolPrograms` | what each tool awaits, step by step, EXTENDS `MailServer` |
| `MailTools` | the tool calls that run at once, EXTENDS `ToolPrograms` |
| `HttpGuard` | the listen policy, the sockets, the judgement of a request |
| `HttpHost` | the session host and its table, EXTENDS `HttpGuard` |
| `Connections` | `connections/manager.ts`, `backoff.ts`, `auth.ts` and the token cache |
| `MCFileClaim`, `MCScheduler`, `MCSchedulerFaults`, `MCWriterLease`, `MCWatcher`, `MCHooks`, `MCMail`, `MCHttp`, `MCConnections` | the constants of the TLC runs, and what the surroundings do in them |
| `FileClaimProofs`, `WriterLeaseProofs`, `WatcherProofs`, `HooksProofs`, `HttpHostProofs`, `ConnectionsProofs`, `MailToolsProofs` | theorems and proofs about the module each is named after |
| `QueueProofs` | the same for `Scheduler`: what needs no claims, and what the claims of `FileClaimProofs` do for it |

### FileClaim

An *actor* is one flow of control that claims: a check, a cancel or a lease
step, in any process; it works on one claim at a time. `cpc[a]` is the call it
makes next:

| Step | Code |
|---|---|
| `create`, `recreate` | `createClaim` (`writeFile` with `wx`), the first and second time |
| `stat` | `claimAge` in `acquireClaim` |
| `park` | the rename in `stealStaleClaim`, and the second stat of what was renamed |
| `restore` | link the live claim back unless the path is taken, unlink the parked name |
| `take` | create over a parked stale claim, unlink the parked name |
| `denied`, `threw` | `acquireClaim` returned undefined, or rejected |
| `held` | the caller has a token |
| `release`, `unlink` | the read and the unlink of `releaseClaim` |

`lock[p]` is the file at a path, `parked[a]` the one an actor has renamed aside.
Abstractions, each chosen so that it allows at least what the code does:

- A token is the name of its writer. When the claim of an actor is over, what it
  left on disk is relabelled `Dead`: the random token will never be matched again.
- Age is one bit, `old`, as a contender that reads the clock now would see it.
  `GoStale` sets it at any time for a claim nobody renews; a renewal clears it.
  `acquireClaim` reads its clock once, and `checkAndSend` once per pass, before
  the stat: an older `now` makes a claim look younger, so the code steals later
  than the model may.
- The rename and the second stat are one step, because nobody else knows the new
  name; so are the link and the unlink of the restore.
- An actor may die (`crash`) or a call fail (`ioerror`) anywhere. While it has
  another actor's live claim parked this is a fault of its own, `parkloss`,
  because it is the one moment at which the protocol cannot keep its promise. A
  create that fails after opening its file (a full disk) leaves a lock with
  nobody's token.

### Scheduler

A path of `FileClaim` is an email (its lock). `rec` and `done` are the records in
the queue directory and in `sent/`, reduced to status and attempts; `due` says
that the send time has come. `op[a]` is where an actor is in `checkAndSend` or
`cancel`:

| `op` | Code |
|---|---|
| `settle` | `settleDelivered` |
| `send`, then `markfailed` or `marksending` | `sendIfStillDue` (second read, attempts) |
| `smtp` | `sendEmail` in `sendClaimedEmail` |
| `restore` | the record put back after a `RateLimitError` |
| `recordsent`, `move` | `recordSent`, `moveToSent` |
| `failread`, `failwrite` | `writeSendFailure` |
| `cancel`, `deletedraft` | `cancel` before and after its second read |

One action is one read or one atomic replacement, so that anything can happen
between the read of a record and the write that follows from it. `schedule` is a
count (`CountLive`) and a write (`WriteNew`) per process, one at a time in a
process because of `scheduleChain`. Faults: `recordfail` (a write or a move of a
record fails), `ambiguous` (SMTP accepts, the caller sees an error), `slow` (the
IMAP deletion of a cancel outlasts the stale window). `accepted`, `planned` and
`cancelled` are history, for the properties.

Left out: `list`, input validation, the result counts, the draft mirror (best
effort; its only effects kept are that `cancel` waits for it and that it comes
before the record's removal), and queue files that cannot be parsed. The
deletion of the draft after a successful send is part of `MoveSent`; the claim is
renewed throughout.

### WriterLease

An actor is a stdio server process, the one path is `mailbox-writers.lock`.
`step[a]` is where the running `step()` is (`acquire`, `giveback` when it was halted meanwhile,
`start` in `onLead`, `check` in `stillHeld`, `touch`, `logout` in `onLose`),
`life[a]` where the shutdown is: `halt` (waiting for the running step), `stop`
(writers), `logout`, `release`, `close`, `gone`. A step runs beside a shutdown,
but only one step runs, because `tick` coalesces. `Start` is possible after a
halt, as in the code. `Deadline` is the forced exit out of a shutdown step that
waits. A renewal that touches the path does so whoever's file is there. The fault
`slowstart` lets the lease go stale while `onLead` waits for the watcher's logins.
`stalled[a]` is history: a lease went stale under its leader.

Left out: an `onLead` that throws; the work in flight of a writer that is
stopped. The stops in `onLose` follow `stillHeld` in the same turn of the event
loop, so they are one step.

### Watcher

One folder; folders share nothing but the loop in `start`. `idle[r]` is the
`IdleState` of the r-th start, and `current` the one in the map, because calls that
outlive a `stop` keep the object they captured and update the one under the key.
A client is an `ImapFlow` with the `connectIdle` call that makes it: `call[c]` is where that
call waits and `conn[c]` how far the connection is.

| Step of `call` | Code |
|---|---|
| `auth` | `buildImapAuth` |
| `connect`, `open` | `client.connect`, `client.mailboxOpen` |
| `logged` | the log line after the select, then the catch-up |
| `logfail` | the log line in the `catch`, then `scheduleReconnect` |

`fetch[f]` is a run of `handleNewEmails`: it captures state and client, waits for the
mailbox lock (`lock`), has read and fetched (`emit`). The read of `lastSeenUid`
and the server's answer are one step: a new message or another
call in between changes nothing the answer says, since the lock is held. A closed
client reaches `forgetClient` in the step that closes it. `Stopped` clears what the
map held; of a cleared state the calls that still run read only `stopped`.

External, from how the service uses it: a server that delivers, expunges, renumbers
while nobody has the folder open, and drops connections; `imapflow`, which rejects
calls on a closed connection and serialises its lock. Two assumptions are guards:

- `FailsInTime`: when the connection of a call is closed, the rejection and the log
  line that follows are through before a reconnect delay (at least 0.75 s) is. Without it the
  close event's retry could already have made a new client when the `catch` asks
  for another, whose client would replace a live one.
- `CallsEnded`: a lease is not lost and won again within a token refresh. Renewals
  are 30 s apart, a refresh times out after 15 s.

Left out: the content of an event; the order of the folders.
A fetch that is refused on an open connection is not repeated by the code until the next
EXISTS or reconnect; `missed` is history that says so, and `ArrivalsAreReported` excepts
exactly that.

### MailPolicy, Notifier and Hooks

`MailPolicy` has the pure decisions: the first static rule that matches, what becomes
of a classified message, what the i-th email gets of a triage reply. Patterns
are the sets of values they match; numbers between 0 and 1 are percents.

`Hooks` has the queue (`queue`), the batch timer and the flushes. `handle` is the
variable `batchTimer`, `stray` counts timers that wait although it does not hold them:
a flush that a stop and a start overtook drops the handle of the next run's timer. `chain` is `flushChain`, `stage` where the
flush that runs is:

| `stage` | Code |
|---|---|
| `rules` | the emails with a rule, all at once (`applyStaticRules`) |
| `arrival` | System One takes the rest one by one (`MailArrival.handle`) |
| `sampling` | the triage request to the client, within the budget per minute |
| `batch` | the alerts, labels, flags and events of the rest, all at once |

`work[e]` lists the steps left for an email, one per await: label, flag, read mark,
move, alert, event, and `add` and `mark` of `addToCalendarOnce`. So the
emails of a batch interleave, and a step that fails leaves the next ones to do. `stop()`
clears the queue and the timers and does not end a flush that runs. `seen` are
the message keys `MailArrival` has claimed, oldest first.

`Notifier` has the alert settings, the desktop counter and its reset timer. A test
notification overwrites the settings, waits for the OS, and puts back what it found.
`wanted` and `mixed` are history: the settings last asked for, and whether
anything changed them during a test.

The watcher's end of the event bus is `Watcher!Emit`, the other `Hooks!OnNewEmail`: the bus is
synchronous and has no state, so the two are not composed; each email
is one that the watcher reported once.

Left out: prompts, payloads, log lines, the commands behind an alert, System One's
HTTP client.

### MailServer, ToolPrograms and MailTools

A tool call is a list of steps. `ToolPrograms` builds it the way the code is
built: an operator per method and per handler, the steps of a call being one per
await. `Try(steps)` is a try whose catch goes on after it, `Under(f, steps)` a
mailbox lock with the `finally` that releases it, `Loop` a FETCH iterator. A step that throws ends the
call or the `Try` it stands in. `MailTools` runs the lists: one action per kind of step,
with the answers the server may give.

| Variable | What it stands for |
|---|---|
| `mail`, `exists`, `next` | the folders, with UIDs; a MOVE or COPY gives new ones |
| `up`, `gen`, `mine` | the connection there is, and the one a call has a client of |
| `holder`, `waiting`, `box`, `fetching` | the mailbox lock, its line, the mailbox that is open, the open FETCH |
| `hung` | the call whose command is not answered |
| `strategy`, `detecting` | `labelStrategies` and `labelStrategyPending` |
| `side` | beside the account: what the apps hold and said, the file at a `savePath`, the Sieve scripts |
| `reply`, `audited` | what the caller is told, and the audit log |
| `meant`, `touched`, `fate`, `reborn`, `taken` | history, for the properties |

`MailServer` is external, as the code uses it: imapflow runs one command at a time,
hands out locks in the order they were asked for, and runs a command in the
mailbox that is open, whoever opened it; the server may refuse, do a command and
lose the answer, never answer, or drop the link; another mail client files, deletes
and makes folders. `LockTimeout` is the bounded wait of `mailbox-lock.ts`. It is possible when the holder
makes no progress: a holder whose commands are answered is taken to end within the bound,
so a timeout that a merely slow holder causes (the caller gets the same error) is left out.

Choices: every tool is registered (the full tool set); the settings ask for a copy in
Sent, in an account that does not file sent mail by itself; a special use goes with a
folder's name. `ImapService.getEmails` has no caller (the tool loops over `getEmail`) and is
left out. So are what is made of a message (headers, previews,
statistics) and the wording of replies. The scheduler and watcher tools only call what
`Scheduler`, `Hooks` and `Notifier` model.

### HttpGuard and HttpHost

`HttpGuard` turns launch options into a policy (`ResolveHttpListen`, or a refusal),
opens the sockets one after the other (`ListenOn`, `ListenFails`), and judges the
headers of a request (`EvaluateHttpAccess`). Host names are written forms; parsing is modelled by its
result on the forms that are explored.

In `HttpHost` a request is at `body` (its body is read), `flight` (in the transport), or `refused`
(the transport took the set-up but did not accept it). Nothing else runs between two awaits, so a
request goes from its body to the transport in one step: `SessionNotFound`,
`BadRequest`, `OpenSession`, `OpenFails` or `HandleRequest`. `table` is `HttpSessionStore`,
`scopes` and `bound` the host's and the log's sessions, `disposing` those whose `onDispose`
is a microtask away, `candidates` and `target` the sampling clients. `boot` is
`bootWriters`, `stop` the close of the host and the shutdown steps of `main.ts`. The SDK's transport and server are
external (`Transport`). `made` and `greeted` are history.

### Connections

A *slot* is an account and a protocol. `held` is the connection kept for it,
`attempt` the connect in flight that all callers share (`token`, `dial`, then `log`: the log
line that is awaited before the connection is kept), `failure` the backoff. `token` and
`posting` are the access token's remaining life and the refreshes in flight. Times are
counted down in ticks. `closing` is where `closeAll` is: its log line, the wait for the
connects that run, the logouts. `early` are the connections it has to close. History for the backoff: `since`, the ticks since the last
failure of a slot, and `streak`, its failures in a row. Token calls, logins and verifications end one way or
another, by the timeouts of the code and the libraries.

Left out: the options passed to the libraries; the dialogs by which a user grants access.

## What TLC checks

Runs named *pass* finish with no error. All bounds are named constants in the `.cfg`.

| Run | Instance | Shows |
|---|---|---|
| `ClaimTwo` | 2 actors, 2 paths, `crash`, `ioerror` | `ClaimTypeOK` (no parked file outlives its call); `Exclusive`; the refinement of `ExclusiveClaim`; `ParkedClaimReturns` (a live claim that was renamed aside comes back, unless its holder lets go first) |
| `SchedSafety` | 2 checks, one also cancels, 1 email, 2 attempts, deaths, failing writes, lost answers, fairness | `RecordTellsAll` (acceptances are on record, and there is one record until the email is cancelled); the refinement of `MailLifecycle`; `DueIsSettled` |
| `SchedFaults` | every fault while two actors race for one email; or two processes schedule three at a cap of one, while two actors check and cancel | `SchedTypeOK`; `ExclusiveUntilStale`; `OutcomeIsTrue`, even when two actors believe they hold one claim; `LiveWithinCap`: the cap is exceeded by at most one email per further process |
| `Lease` | 2 servers, slow starts, I/O errors, deaths | `LeaseTypeOK`, `OneWriterUnlessStalled`, `DisplacedStops`, `SomeoneWrites` |
| `Watch` | 2 calls, 2 fetches, 2 messages; a restart and a failure, or a renumbering and two failures | `WatcherTypeOK`; `ReportedInTurn` (no message twice, and none passed over); `NoStrayClient`; `ArrivalsAreReported` |
| `Hooks` | 3 emails, one with a rule and two copies of one message; with a stop, with a failure, or with changing settings | `HooksTypeOK`; `HandledInFull`; `ClassifiedOnce`; `AlertsKept`; `AcceptedIsHandled`; `DesktopRecovers`. The classification policy is compared with a reference over its answers (`PolicyMatchesReference`) |
| `Mail` | a call of any tool beside a rival, one fault, another mail client | `MailTypeOK`; `LostOnlyAsAsked`; `ActsOnMeant`; `AnswerIsTrue`; `FindsWhatStays`; `AuditCoversChanges`; `NoneStuck` |
| `Http` | every header against every launch, and the requests of 3 sessions at a limit of 1 | `HttpTypeOK` (table, scopes and requests in flight agree, and the limit is exceeded only by busy sessions); `NewestClientSamples`; `AdmittedAsAllowed`; `NeverDroppedBusy` |
| `Connections` | 2 callers, 1 account, IMAP and SMTP, 3 connections | `ConnTypeOK` (one refresh at a time); `NoStrayLogin`; `BackoffKept` (no connect before the window of the last failure has passed, and windows that double); `EveryCallAnswered` |

Three runs are expected to find a *violation*: the code does something other than
what it, or a document beside it, says. `PROJECT.json` quotes the lines.

| Run | What happens |
|---|---|
| `ClaimThree` | three contenders for one stale claim: the second thief renames the first thief's fresh claim aside; while the path looks free the third creates a claim: two holders |
| `SchedClaimError` | `acquireClaim` rejects for one check; its `catch` reads and rewrites the record without a claim, over the `sent` another check has just written, and the email is sent again |
| `LeaseSlowStart` | the leader awaits its watcher's logins inside the step and renews nothing meanwhile; another server takes the lease and both write |

The positive properties are stated for what is left: `SchedSafety` and the theorem
`ClaimExclusive` show that two contenders are safe, `SchedFaults` that even after such
a double claim the outcome written is true, `OneWriterUnlessStalled` that a stalled leader is
the only way to two writers.

Six more configurations show smaller disagreements of the same kind. Each checks one property,
which TLC finds violated:

| Configuration, module | Property | What happens |
|---|---|---|
| `SchedSlowCancel`, `MCScheduler` | `CancelledNotSent` | a cancel waits for IMAP past `STALE_LOCK_MS` without renewing its claim; a check takes the claim and sends; the cancel unlinks the record and reports that the email is cancelled (`scheduler.service.ts:30` against `:440`) |
| `MailDraft`, `MCMail` | `RemovedDraftIsGone` | `deleteDraft` ignores imapflow's `false`; the reply says that the draft was removed, and it is still there (`docs/tools.md:209` against `imap.service.ts:1742`) |
| `MailAudit`, `MCMail` | `EveryChangeAudited` | `get_email` with `markRead` sets a flag, and an `apply_template` that fails has sent, with no audit entry (`audit.ts:2` says all write operations) |
| `HttpIdle`, `MCHttp` | `DroppedAfterIdle` | a request that lasted longer than the idle limit ends, and its session is dropped at once: `lastUsed` is when it began (`docs/configuration.md:197`) |
| `ConnVerify`, `MCConnections` | `VerifyBacksOff` | a kept transport fails its verification, and the server is dialled again at once: no failure is recorded (`docs/configuration.md:205`) |
| `HooksMove`, `MCHooks` | `RuleAddsEvent` | a rule that moves an email and adds its event looks for the message in the folder it has just left (`hooks.service.ts:418`) |

Each property of a passing run has a mutant in `PROJECT.json`: a plausible error in one mapped
definition (kept beside it in its module, commented `Mutant of`) that makes the
property fail under the same configuration.

### Bounds, and why they are enough

- *Two or three actors.* A steal involves a victim and a thief; a third contender
  makes the one difference `ClaimThree` shows. Two actors are enough for the
  scheduler because an actor that finishes or dies starts again.
- *One email, one lock.* Emails share nothing but the cap; the second scenario of
  `SchedFaults` has three, one more than cap and processes allow at once, and actors that make room. `ClaimTwo` has two paths, so that an actor moves between them.
- `MaxAttempts` 2 (the code has 3) or 1: the first attempt, a retry and the
  limit are all reached. `MaxPending` 1 in the scheduler (the code has 100): the cap is reached.
- `MaxCrashes`: deaths of actors in a behaviour; each actor starts again after it. In `SchedFaults` the
  count also tells the scenarios apart (`Scenario`): one death in the race, none where the cap is at stake,
  because a check that dies leaves a record as live as it was.
- `MaxSends`: acceptances of one email, above `MaxAttempts`, so the code stops
  before the bound does except where two actors send under one claim.
- `MaxFailures` 2 in `Lease`: failures of file-system calls in a behaviour. Liveness
  needs them to be finite; two hit both an acquire and a release.
- `MaxUid` and `MaxEpoch` 2, `MaxRuns` 2, `MaxDrops` 2, two calls and two fetches: a
  message before and one after each select, a renumbering, a restart over calls in flight,
  and a reconnect that fails in its turn. Restarts and renumberings do not meet in one
  behaviour of `Watch`; a restart forgets the UIDVALIDITY.
- `Hooks`: a queue of 2 (the code has 500) for 3 emails, a sampling budget, a desktop cap and a failure
  of 1 each, `SeenLimit` 2 for two messages: every limit is reached, and passed by the
  third email. One stop, so that a flush of the first run meets the second run's timer.
- `Mail`: two calls, because what one call can do to another it does through the mail,
  the connection or the lock. `MaxFaults` 1, at any step of either call: a second fault meets a call that
  is already on its way out. One action of another client, in the cases in which the code
  creates a folder or works on a draft. Four messages, folders of two at most: bulk calls have more than one.
- `Http`: a limit of 1 and 3 sessions: the third finds both an idle and a busy one before it. The clock moves only in
  behaviours without handshakes and shutdown; there, sessions are dropped for the limit and by their clients. Launches and
  headers are explored without sessions, sessions with good headers, because the guard reads no session.
- `Connections`: two callers share a connect or verify one transport at once; three connections are an
  IMAP client, a transport and its replacement. `InitialBackoff` 2, `MaxBackoff` 5: the second window doubles and the third is cut.
- Symmetry is declared only in runs with no liveness property.
- Deadlock is not checked where the system may stop: a queue in which every email
  is settled, servers that have all exited, calls that are all answered. `ClaimTwo` and
  `ClaimThree` have the check on.

### Fairness

Strong or weak fairness is assumed only of what the runtime does by itself:

- A call that has begun finishes (`WF` on the steps of an actor that is running);
  no fairness on deaths, faults, schedules, cancels, starts or halts.
- A lock nobody renews gets old (`WF` on `GoStale` or its counterpart): time passes.
- A check reads every queue file in every pass, and passes start every
  `SCHEDULER_INTERVAL_MS` (`startSchedulerLoop`), so a file that is due again and
  again is read (`SF` on `ReadQueueFile`).
- The rate limit's bucket refills, so an email held back again and again is sent
  (`SF` on `SendEmail`, which `HeldBack` may interrupt for ever otherwise). Writes of records do not
  fail for ever (`SF` on the writing steps of a check).
- A watcher call goes on, a retry timer fires and a `stop` ends (`WF`): each wait
  in it has a timeout. Nothing makes the server deliver or drop.
- Shutdown continues once the step it waits for ends (`SF` on `ShutdownStep`:
  another tick may start a step in between).
- Batch timers fire and what a flush awaits ends (`WF` on `Handle`, one condition for all
  steps); the reset timer of the desktop counter fires (`WF` on `DesktopReset`).
- Token requests end after 15 s, logins and verifications by the libraries' timeouts, the log line
  of a connect is written (`WF` in `Connections`).
- `MailTools` and `HttpHost` state no fairness: `NoneStuck` says as an invariant that
  some call can go on, and a call has finitely many steps.

## What is proved

TLAPS checks the theorems for every value of the constants that the assumptions in the
modules allow: any number of actors, emails, messages, connections, sessions. Where
a theorem assumes more, it says so, and the reason is below. TLC checked each inductive
invariant on the instance of a run before it was proved.

The invariants that the runs check are seldom inductive, always for the same reason: they say
what is true, and not what a call in flight knows. So each inductive
invariant here has a part about the state on disk, in the map or in the table,
and a part about every actor, call or request in the middle of something.

### Claims (`FileClaimProofs`)

- `ClaimTypeCorrect`: `ClaimTypeOK`, for any actors, paths and faults.
- `ClaimExclusiveUntilStale`: any number of contenders and any faults, on a path where
  no claim has ever gone stale. The inductive invariant says that until then
  a holder's token is at its path (`UHolder`), the file there is young
  (`UYoung`) and nobody is in the middle of a steal there (`USteal`); exclusion alone is not
  inductive, because it does not say what is on disk.
- `ClaimExclusive`: exclusion through deaths and steals, from the assumptions
  `TwoContenders` (at most two actors) and `SafeFaults` (no `parkloss`). The
  run `ClaimThree` shows that the first is needed. The
  inductive invariant `OwnedInv` allows for the moments at which a holder's file
  is not at its path: it is there, or the *other* contender has it parked and
  will put it back, and the path is empty (`Owned`); only a dead claim is old
  (`Young`); a thief restores what is young and replaces what is dead
  (`Parking`). Two holders would each have the other's claim parked, while holding.
- `ClaimRefinement`: under the same assumptions the protocol implements
  `ExclusiveClaim` (steps that change who holds what are its `Acquire` and
  `GiveBack`, all others stutter).

### Scheduled sends (`QueueProofs`)

- `OutcomesAreTrue`: `OutcomeIsTrue` for any number of actors, emails, processes
  and any faults. The argument does not use the claims: `HonestInv` says
  that every record on disk is honest (`sent` only after an acceptance, `failed` only
  at `MaxAttempts`, never more attempts than that) and that every actor about to write
  carries an honest copy with an attempt left (`Informed`). Acceptances are
  never taken back, so a stale copy is still honest, which is why exclusion is not needed.
- `QueueTypeCorrect`: `SchedTypeOK`, for any faults. `Placed` relates the
  step of a check or cancel to the step of its claim.
- `QueueExclusiveUntilStale` and `QueueExclusive`: the queue uses claims only as `FileClaim`
  allows (`ClaimUse`), so what is proved of claims holds in it; the second from
  `TwoContenders`, `SafeFaults` and `NoSlowCancel`.
- `RecordsTellAllIfExclusive`: `RecordTellsAll`, for any number of actors, in every behaviour in which
  claims are exclusive. The invariant is `QueueInv`: types, `HonestInv`, `InCharge`
  (whoever works on a record holds its claim) and `RecordInv` (each record accounts for the
  acceptances of its email, and the record an actor works on is as that
  actor left it: `AsLeft`). The last part is what the claims buy: a step of one actor leaves
  alone every record that another is in charge of.
- `QueueRefinementIfExclusive`: from the same invariant, every step is a step of `MailLifecycle` or stutters.
- `NeverResentIfExclusive` and `CancelledNotSentIfExclusive`: the two promises that
  `SchedClaimError` and `SchedSlowCancel` refute hold under the premises these theorems
  name, so the two runs show the only ways to break them.
- `CapHoldsIfExclusive`: `LiveWithinCap`, for finitely many processes. `RoomForPlans` counts
  those that have counted and not yet written; a check or a cancel never makes a settled
  email live again (`NoRevival`), which rests on `AsLeft`.
- `RecordsTellAll` and `QueueRefinement`: without the premise, for two actors and no slow cancel, by `QueueExclusive`.

The theorems *IfExclusive* assume two things. `[]Exclusive` is left as a premise because
three contenders can break it (`ClaimThree`); what remains to be said is what the queue makes of exclusive claims.
`NoClaimErrors` says that no call of `acquireClaim` fails: the `catch` of
`sendIfDue` writes without a claim, as `SchedClaimError` shows. The proof of the cap found one
more effect of it: the record of an email that was cancelled meanwhile is written again, so the
email is live once more and the cap is passed. That is why the second scenario of `SchedFaults`
leaves out I/O errors on claims.

### Writer lease (`WriterLeaseProofs`)

- `LeaseTypeCorrect`: `LeaseTypeOK` for any number of servers. `Knows` says for
  each step and each stage of the shutdown what it implies of the claim, the writers and the ticks.
- `OneWriterOfTwo`: `OneWriterUnlessStalled`, from `TwoContenders` and `SafeFaults`. `ClaimExclusive` is of no
  use here: a leader lets its lease go stale, and the other takes it. `OfficeInv` says of what is left: the
  lock of a holder whose lease did not go stale is at its path, or parked by the other server, or was unlinked
  by a retired server that gave back what it no longer had (`InOffice`); only what past
  leaders left is old (`OnlyPastIsOld`); a thief takes that and restores the rest (`Thieves`).

### Watcher (`WatcherProofs`)

- `WatcherTypeCorrect`, `NoClientLost` (`NoStrayClient`) and `ReportsInTurn` (`ReportedInTurn`), for any number
  of calls, fetches, restarts, messages, renumberings and drops. `WatcherInv` has a part about
  connections: a call belongs to the run in the map or to one that was stopped (`CallOK`), and a watcher that
  runs has one thing under way, a retry, a call that gets its credentials, or a client (`OneUnderWay`). The
  part about reports says that what a fetch carries is a prefix, in UID order, of what is
  new (`FetchOK`), and that `lastSeenUid` is at least every UID that was reported under the present UIDVALIDITY
  (`SeenOK`). `OneUnderWay` rests on the guards `FailsInTime` and `CallsEnded` of the model.

### Hooks, mail arrival, notifier (`HooksProofs`)

- `HooksTypes` (`HooksTypeOK`), `TakenIsHandled` (`HandledInFull`), `AskedOnce` (`ClassifiedOnce`) and `TestRestores`
  (`AlertsKept`), for any emails, rules, replies, configurations and failures. `HandledInFull` speaks of the moments between
  flushes; `HandledInv` says what holds during one: what was asked for an email is done or still in its work, it has had its
  alert exactly if none is before it, and an email in the rest that the flush has not decided about has had nothing (`EmailOK`).
  Its other half is the form of the work (`Shape`): no step twice, the calendar steps last, so that an event that is
  skipped or fails takes no step along.
- `AskedOnce` rests on the order of `MailArrival.handle`: the key is remembered before the message is sent, and
  forgotten only by a failure, whose message was not classified (`ClassInv`). The theorem needs the memory to be as large as
  the number of messages, as the property says; that is where finitely many emails are assumed.
- `SettingsInv` says that a test that is alone holds what it has to put back, and that the fields it does not hold are untouched.
- `Kept`, by which the model filters a sequence, is a recursive function: `KeptFields` has what the proofs need of it (what
  it keeps, in which order, no element twice), by the least length at which it would fail.

### HTTP server (`HttpHostProofs`)

- `HttpTypeCorrect`, `NewestSamples`, `BusyNeverDropped`, from `HostInv`: the table counts exactly the requests in
  flight and is over its limit only with busy sessions (`Books`); who is bound to the log (`Servers`); the order of a
  candidate is the place of its last handshake (`Greetings`). The limit needs a lemma about the
  eviction, that as many idle sessions go as are too many or all of them (`ExcessLeavesBusy`).
- `Admission`: `AdmittedAsAllowed` for any launch options. `GuardInv` says that a policy that was not
  refused has a token unless every host is a loopback host, and allows every host it binds (`SoundPolicy`),
  and that all sockets share the port of the policy (`Listeners`).

### Connections (`ConnectionsProofs`)

- `ConnTypeCorrect` and `NoLoginLost` (`NoStrayLogin`): every open connection is kept or is the one a connect is about to
  keep, and at each stage of `closeAll` those it has to close are among what it still waits for (`Reached`).
- `ConnectsAfterWindow` (`BackoffKept`): the delay is the first one, doubled with each failure in a row up to its limit,
  and what is left of a window and the time since the failure that opened it add up to no less than three quarters of
  the delay, the shortest that jitter makes it (`WindowInv`). `Doubled` is a recursive function; that there is one
  is shown by taking the least number at which there would be none (`Doublings`).

### Tools (`MailToolsProofs`)

For any number of calls, any requests the schemas accept, any messages, faults and other clients. A program is a list
that the handlers build, so the argument starts from its form: a path is a list of steps, each with a `skip` that lands
inside it, whose steps the mode of the call allows (under a lock, in a FETCH, outside); what a step leaves to do is again
such a path, also when it throws and when an answer splices further steps in. The operators of `ToolPrograms` are shown to build such paths, tool by tool.

- `LocksHeld` (`LockInv`): the lock has one holder, its line names each call once and never the holder, and a call
  holds the lock exactly between its `lock` and its `release`, however a step ends. Every other proof here uses it.
- `OnlyHungCommandsBlock` (`BusyOnlyIfHung`, the part of `NoneStuck` that ENABLED is not in).
- `ChangesAreSeen` (`AuditCoversChanges`): only a call whose program has a step that changes something has changed
  anything, which none has on a read-only server (`AuditInv`), and the handlers of the others audit every way out.
- `ActsOnWhatWasMeant` (`ActsOnMeant`): a call that is about to name UIDs has its own folder open (`TouchInv`), and what is
  filed under a UID that a caller has seen is what it was shown, in a folder that stays (`MailInv`): new UIDs are never below `next`.
- `NothingIsLost` (`LostOnlyAsAsked`): a MOVE, COPY or RENAME puts every message somewhere (`FiledAll`), and in a view only for a
  call that names one (`AimInv`: a delete moves to Trash); clean-up removes copies only from the label's own folder (`Fits`); and
  while the delivery of a draft is ahead, nothing before it removes the draft and a throw ends the call (`UnsentInv`).
- `TypesHold` (`MailTypeOK`).
- `AnswersAreTrue` (`AnswerIsTrue`), each part from an invariant about calls in flight: a tool of `OneThing` has its one change ahead, and after it only
  steps that cannot throw (`OnceInv`); whatever follows an SMTP delivery is caught (`SentInv`); every folder that a
  `save_draft` works on exists, or its error is caught by the step that makes the folder (`DraftInv`); the status of a scheduling call is what its last
  step told (`ToldInv`); the file at a path belongs to the call that created it (`FileInv`).

### Assumptions on constants

TLC evaluates them in the runs: `TokensDistinct` (tokens of nobody and of dead claims
are not actors'), `SchedulerConstants`, `FailuresCounted`, `WatcherConstants`, `NotifierConstants`, `HooksConstants`,
`ConnectionsConstants`, `HostConstants`, `GuardConstants`, `ServerConstants`, `NoneIsNothing` (limits are naturals, positive where the code has them positive; no
value stands for both a thing and its absence; the emails, sessions and requests of a behaviour are finitely many), `OneLeaseFile` (there is one `mailbox-writers.lock`) and `LaunchOptions` (ports are
naturals, and a URL is not one of the marks for a missing or unreadable header), `CasesOK` (requests are such as the schemas
accept, every message starts in a folder that is no view, folders start with finitely many, and a caller names UIDs it has seen).

### Only model-checked

- All liveness: `ParkedClaimReturns`, `DueIsSettled`, `DisplacedStops`,
  `SomeoneWrites`, `ArrivalsAreReported`, `AcceptedIsHandled`, `DesktopRecovers`,
  `EveryCallAnswered`; and `NoneStuck`, which uses ENABLED. Both are out of the prover's reach.
- The decisions of `MailPolicy` against their reference, over the answers of the run.
- `FindsWhatStays`: what `find_email_folder` collects over all folders is an induction over the list it walks, and its
  premise is that the account stays as the instance has it.
- `RecordTellsAll`, `ImplementsLifecycle` and `LiveWithinCap` with I/O errors on claims are false in
  general, and `SchedSafety` has none. `OneWriterUnlessStalled` for three servers is not claimed.

## Observations

Met while modelling, beside the disagreements above; the models follow the code:

- `add_to_calendar` looks for the event and then adds it: two calls at once add it twice. Two
  `send_draft` calls at once send the draft twice; two `move_email` calls both say ok.
- `bulk_action` is audited as ok when the server refused all of it. A SEARCH that is refused reads
  like an empty folder.
- No call checks UIDVALIDITY: an id that outlives its folder names another message
  (`ActsOnMeant` excepts a folder that was deleted or made anew).
- A message that is moved to a view ("All Mail", the folder of a label) is in no other folder as far as the model goes; the code
  lets `move_email`, `bulk_action` and `rename_mailbox` name one (`LostOnlyAsAsked` excepts it).
- The lock's bound covers the wait for the lock, not a command that needs none (LIST, APPEND).
- `getSmtpTransport` with verification may hand out a transport that was closed meanwhile. `closeAll` does not wait for a
  connect that starts after it looked, and deletes by account name after a logout
  (`NoStrayLogin` speaks of those it saw).
- An HTTP server that is closed while `MailArrival.tryCreate` runs starts its writers after the close.
- `notifier.stop()` clears the reset timer of the desktop counter and no start sets it again
  (`DesktopRecovers` excepts a stop).
- The key in the calendar state has neither folder nor UIDVALIDITY.
- A write to a `savePath` that fails leaves a part of the file behind.
- The rate limiter's bucket lets up to 2·max − 1 sends through in a window.
- A token answer without `expires_in` gives an expiry of NaN.

## Plan

Done: `FileClaim` with `ExclusiveClaim`, its clients `Scheduler` with
`MailLifecycle` and `WriterLease`, since every other process-level guarantee
rests on them; `Watcher`; then the rest of the mail path (`Hooks`, `Notifier`,
`MailPolicy`), the tools over one connection (`MailServer`, `ToolPrograms`,
`MailTools`), the HTTP server (`HttpGuard`, `HttpHost`) and `Connections`.

Next, in this order:

1. The rate limiter's bucket as functions, against the number of sends in any window.
2. The calendar state over `FileClaim`, in several processes.

## Not modelled, and why

- *Validation, redaction, configuration*: pure functions on strings, or read once at
  start. The models have their refusals as outcomes and the settings as constants.
- *Prompts and resources*: texts, and the read methods that the read tools call.
- *Install count*: one exclusive create decides, then one request without effect.
- *Command line*: interactive I/O, except `scheduler check`, which is one more checker
  of `Scheduler`, and the shutdown steps, which are in `HttpHost` and `WriterLease`.
- *Partly*: `list` and the draft mirror of the scheduler, the life of a temp file, the content of
  an event or an audit entry, the ManageSieve syntax, the AppleScript texts and the parsing of
  calendars, the OAuth dialogs, the arithmetic of the rate limiter. `PROJECT.json` says so per part.
