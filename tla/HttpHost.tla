------------------------------ MODULE HttpHost ------------------------------
(***************************************************************************)
(* src/src/safety/http-mcp-host.ts with its session table                  *)
(* (http-sessions.ts), the set-up of a session (http-session-setup.ts,     *)
(* http-session-scope.ts) and the shutdown of src/src/main.ts: requests    *)
(* pass the guard, open a session or use one, and the first session whose  *)
(* client finished its handshake starts hooks, scheduler and watcher.      *)
(*                                                                         *)
(* Between two awaits nothing else runs, so a request is taken from its    *)
(* body to the transport in one step.  The transport and the MCP server    *)
(* are the SDK's: Transport says what the host relies on.                  *)
(***************************************************************************)
EXTENDS HttpGuard, FiniteSets

CONSTANTS
  Requests,     \* the requests that may run at once
  Asked(_),     \* what a request to a process with these launch options may be
  Ids,          \* 1..n: session ids in the order openSession makes them
  SamplingIds,  \* the sessions whose client supports sampling
  CanWrite,     \* ~settings.readOnly
  MaxSessions,  \* DEFAULT_HTTP_MAX_SESSIONS
  Ttl,          \* DEFAULT_HTTP_SESSION_TTL_MS, in ticks
  MaxClock,     \* bound on the clock
  MaxGreetings, \* bound on the handshakes
  MayStop       \* may the process be told to stop?

ASSUME HostConstants ==
  /\ IsFiniteSet(Requests)
  /\ IsFiniteSet(Ids) /\ Ids = 1..Cardinality(Ids) /\ SamplingIds \subseteq Ids
  /\ None \notin Ids
  /\ MaxSessions \in Nat \ {0} /\ {Ttl, MaxClock, MaxGreetings} \subseteq Nat
  /\ {CanWrite, MayStop} \subseteq BOOLEAN

VARIABLES
  req,        \* each request: where it is, what it asks, its session
  now,
  table,      \* HttpSessionStore.sessions: id -> lastUsed, activeRequests
  scopes,     \* scopes: ids the host holds a scope for
  bound,      \* logging's servers: sessions that get log messages
  disposing,  \* scopes whose onDispose is still to run
  candidates, \* candidates: id -> order
  samplingOrder,
  boot,       \* bootWriters: "no", "creating", "watcher", "done", "failed"
  target,     \* hooks.lowLevelServer, None when it cannot sample
  running,    \* which of hooks, scheduler and watcher run
  stop,       \* where host.close() and the shutdown steps are
  made,       \* history: the sessions openSession made
  greeted     \* history: sessions in the order of their handshakes

tableVars == <<table, scopes, disposing>>
targetVars == <<candidates, samplingOrder, target>>
hostVars == <<req, now, tableVars, bound, targetVars, boot, running, stop, made, greeted>>
vars == <<guardVars, hostVars>>

-----------------------------------------------------------------------------
InFlight(i) == {r \in Requests : req[r].at = "flight" /\ req[r].sid = i}
Open == DOMAIN table
NoRequest == [at |-> "none", ask |-> None, sid |-> None]
With(f, i, v) == [x \in DOMAIN f \cup {i} |-> IF x = i THEN v ELSE f[x]]
Without(f, S) == [x \in DOMAIN f \ S |-> f[x]]

HostInit ==
  /\ req = [r \in Requests |-> NoRequest]
  /\ now = 0
  /\ table = <<>> /\ candidates = <<>>
  /\ scopes = {} /\ bound = {} /\ disposing = {} /\ running = {} /\ made = {}
  /\ samplingOrder = 0
  /\ boot = "no" /\ stop = "no"
  /\ target = None
  /\ greeted = <<>>

-----------------------------------------------------------------------------
(* HttpSessionStore                                                        *)

\* Mutant: age alone.
ExpiredThoughBusy(t) == {i \in DOMAIN t : now - t[i].lastUsed > Ttl}

Expired(t) == {i \in DOMAIN t : t[i].active = 0 /\ now - t[i].lastUsed > Ttl}

\* Is i evicted before j?
Older(t, i, j) ==
  \/ t[i].lastUsed < t[j].lastUsed
  \/ t[i].lastUsed = t[j].lastUsed /\ i < j

\* The least recently used idle sessions beyond MaxSessions, keepId apart.
Excess(t, keep) ==
  LET idle == {i \in DOMAIN t : t[i].active = 0} \ keep
  IN {i \in idle : Cardinality({j \in idle : Older(t, j, i)}) < Cardinality(DOMAIN t) - MaxSessions}

Evicted(t, keep) ==
  LET fresh == Without(t, Expired(t)) IN Without(fresh, Excess(fresh, keep))

BeginRequest(t, i) == [t EXCEPT ![i].active = @ + 1, ![i].lastUsed = now]

\* Mutant: a request that failed is not ended.
EndRequestLost(t, i) == t

EndRequest(t, i) ==
  IF i \in DOMAIN t /\ t[i].active > 0 THEN [t EXCEPT ![i].active = @ - 1] ELSE t

SessionSet(t, i) ==
  Evicted(With(Evicted(t, {}), i, [lastUsed |-> now, active |-> 0]), {i})

-----------------------------------------------------------------------------
(* The host's own bookkeeping.                                             *)

\* The table becomes t: closing a transport calls onclose, which releases the
\* session (closeAndDelete, release, trackDispose).  A scope is disposed once.
Release(t) ==
  /\ table' = t
  /\ scopes' = scopes \cap DOMAIN t
  /\ disposing' = disposing \cup (bound \cap (Open \ DOMAIN t))

\* Mutant: the newest client, whether it samples or not.
PickNewest(c) ==
  LET newest == {i \in DOMAIN c : \A j \in DOMAIN c : c[j] <= c[i]} \cap SamplingIds
  IN IF newest = {} THEN None ELSE CHOOSE i \in newest : TRUE

PickSamplingTarget(c) ==
  LET sampling == DOMAIN c \cap SamplingIds
  IN IF sampling = {} THEN None
     ELSE CHOOSE i \in sampling : \A j \in sampling : c[j] <= c[i]

\* hooksListening: startHooks has run (it stays so after hooks.stop()).
HooksListening == boot \in {"watcher", "done"} /\ CanWrite

ApplySamplingTarget(c) ==
  target' = IF HooksListening THEN PickSamplingTarget(c) ELSE target

\* lifecycle.initialized
Initialized(i) ==
  LET c == With(candidates, i, samplingOrder)
  IN /\ candidates' = c
     /\ samplingOrder' = samplingOrder + 1
     /\ ApplySamplingTarget(c)
     /\ boot' = IF boot = "no" THEN "creating" ELSE boot
     /\ greeted' = Append(greeted, i)

\* onDispose: a microtask after dispose() is called.
Dispose ==
  \E i \in disposing :
    LET c == Without(candidates, {i})
    IN /\ disposing' = disposing \ {i}
       /\ bound' = bound \ {i}
       /\ candidates' = c
       /\ ApplySamplingTarget(c)
       /\ UNCHANGED <<guardVars, req, now, table, scopes, samplingOrder, boot, running, stop,
                      made, greeted>>

-----------------------------------------------------------------------------
(* handle()                                                                *)

Put(r, at, i) == req' = [req EXCEPT ![r].at = at, ![r].sid = i]
Answered(r, status) == status \in Nat /\ req' = [req EXCEPT ![r] = NoRequest]

\* A client only names a session it was given.
Arrive(r) ==
  /\ sockets # <<>> /\ stop # "exited" /\ req[r].at = "none"
  /\ \E ask \in Asked(launch), sid \in made \cup {None} :
       LET status == EvaluateHttpAccess(ask.head)
           route == ResolveHttpRoute(ask.head)
           handler == [at |-> "body", ask |-> ask, sid |-> sid]
       IN CASE status # 0 -> Answered(r, status)
            [] route = "method" -> Answered(r, 405)
            [] route = "missing" -> Answered(r, 404)
            [] route = "health" -> Answered(r, 200)
            [] OTHER -> req' = [req EXCEPT ![r] = handler]
  /\ UNCHANGED <<guardVars, now, tableVars, bound, targetVars, boot, running, stop, made, greeted>>

\* readLimitedBody and the parse: too many chunks, a client that goes away, or
\* no JSON.  Otherwise one of the steps below takes the request at once.
BodyFails(r) ==
  /\ req[r].at = "body" /\ req[r].ask.head.method = "POST"
  /\ \/ \E n \in 0..(BodyLimit + 1) : n > BodyLimit /\ Answered(r, 413)
     \/ Answered(r, 500)
     \/ req[r].ask.kind = "garbage" /\ Answered(r, 400)
  /\ UNCHANGED <<guardVars, now, tableVars, bound, targetVars, boot, running, stop, made, greeted>>

Ready(r) == req[r].at = "body" /\ req[r].ask.kind # "garbage"

SessionNotFound(r) ==
  /\ Ready(r) /\ req[r].sid # None /\ req[r].sid \notin Open
  /\ Answered(r, 404)
  /\ UNCHANGED <<guardVars, now, tableVars, bound, targetVars, boot, running, stop, made, greeted>>

BadRequest(r) ==
  /\ Ready(r) /\ req[r].sid = None /\ req[r].ask.kind # "initialize"
  /\ Answered(r, 400)
  /\ UNCHANGED <<guardVars, now, tableVars, bound, targetVars, boot, running, stop, made, greeted>>

\* openSession, then the transport takes the request: it registers the session
\* (lifecycle.registered), or refuses the request and registers nothing.
OpenSession(r) ==
  /\ Ready(r) /\ req[r].sid = None /\ req[r].ask.kind = "initialize"
  /\ \E i \in Ids \ made :
       /\ i = Cardinality(made) + 1
       /\ made' = made \cup {i}
       /\ bound' = bound \cup {i}
       /\ IF req[r].ask.accepts
            THEN LET t == SessionSet(table, i)
                 IN /\ table' = BeginRequest(t, i)
                    /\ scopes' = (scopes \cap DOMAIN t) \cup {i}
                    /\ disposing' = disposing \cup (bound \cap (Open \ DOMAIN t))
                    /\ Put(r, "flight", i)
            ELSE Put(r, "refused", i) /\ UNCHANGED tableVars
  /\ UNCHANGED <<guardVars, now, targetVars, boot, running, stop, greeted>>

\* The session's tools cannot be registered (lifecycle.abandoned).
OpenFails(r) ==
  /\ Ready(r) /\ req[r].sid = None /\ req[r].ask.kind = "initialize"
  /\ \E i \in Ids \ made :
       /\ i = Cardinality(made) + 1
       /\ made' = made \cup {i}
       /\ bound' = bound \cup {i}
       /\ disposing' = disposing \cup {i}
  /\ Answered(r, 500)
  /\ UNCHANGED <<guardVars, now, table, scopes, targetVars, boot, running, stop, greeted>>

\* What the transport of session i does with a request.
Transport(i, kind) ==
  CASE kind = "initialized" -> /\ Initialized(i)
                               /\ table' = BeginRequest(table, i)
                               /\ UNCHANGED <<scopes, disposing>>
    [] kind = "delete"      -> /\ Release(Without(table, {i}))
                               /\ UNCHANGED <<targetVars, boot, greeted>>
    [] OTHER                -> /\ table' = BeginRequest(table, i)
                               /\ UNCHANGED <<scopes, disposing, targetVars, boot, greeted>>

HandleRequest(r) ==
  /\ Ready(r) /\ req[r].sid \in Open
  /\ req[r].ask.kind = "initialized" => Len(greeted) < MaxGreetings
  /\ Transport(req[r].sid, req[r].ask.kind)
  /\ Put(r, "flight", req[r].sid)
  /\ UNCHANGED <<guardVars, now, bound, running, stop, made>>

\* The response is over, or its client went away: handle's finally.
Ends(r) ==
  /\ req[r].at \in {"flight", "refused"}
  /\ LET i == req[r].sid
         t == Evicted(EndRequest(table, i), {})
     IN IF req[r].at = "refused"
          THEN /\ table' = Evicted(table, {})
               /\ scopes' = scopes \cap DOMAIN table'
               /\ disposing' = disposing \cup {i} \cup (bound \cap (Open \ DOMAIN table'))
          ELSE Release(t)
  /\ Answered(r, 200)
  /\ UNCHANGED <<guardVars, now, bound, targetVars, boot, running, stop, made, greeted>>

Tick ==
  /\ now < MaxClock /\ now' = now + 1
  /\ UNCHANGED <<guardVars, req, tableVars, bound, targetVars, boot, running, stop, made, greeted>>

-----------------------------------------------------------------------------
(* bootWriters                                                             *)

\* MailArrival.tryCreate has settled; hooks and scheduler start at once, and
\* the watcher is still connecting when they run.
StartMailboxWriters ==
  /\ boot = "creating"
  /\ IF CanWrite
       THEN /\ target' = PickSamplingTarget(candidates)
            /\ running' = {"hooks", "scheduler", "watcher"}
            /\ boot' = "watcher"
       ELSE boot' = "done" /\ UNCHANGED <<target, running>>
  /\ UNCHANGED <<guardVars, req, now, tableVars, bound, candidates, samplingOrder, stop, made,
                 greeted>>

TryCreateFails ==
  /\ boot = "creating" /\ boot' = "failed"
  /\ UNCHANGED <<guardVars, req, now, tableVars, bound, targetVars, running, stop, made, greeted>>

WatcherStarted ==
  /\ boot = "watcher" /\ boot' = "done"
  /\ UNCHANGED <<guardVars, req, now, tableVars, bound, targetVars, running, stop, made, greeted>>

-----------------------------------------------------------------------------
(* Shutdown: host.close(), then the connections, then the listener.        *)

CloseSessions ==
  /\ MayStop /\ listening = "up" /\ stop = "no" /\ stop' = "closing"
  /\ Release(<<>>)
  /\ UNCHANGED <<guardVars, req, now, bound, targetVars, boot, running, made, greeted>>

StopWriters ==
  /\ stop = "closing" /\ stop' = "settling"
  /\ running' = {}
  /\ UNCHANGED <<guardVars, req, now, tableVars, bound, targetVars, boot, made, greeted>>

DisposeScopes ==
  /\ stop = "settling" /\ disposing = {} /\ stop' = "closed"
  /\ disposing' = scopes \cap bound
  /\ UNCHANGED <<guardVars, req, now, table, scopes, bound, targetVars, boot, running, made,
                 greeted>>

CloseListener ==
  /\ stop = "closed" /\ disposing = {} /\ stop' = "exited"
  /\ sockets' = <<>>
  /\ UNCHANGED <<launch, policy, unbound, listening, req, now, tableVars, bound, targetVars,
                 boot, running, made, greeted>>

Next ==
  \/ GuardNext /\ UNCHANGED hostVars
  \/ \E r \in Requests :
       \/ Arrive(r) \/ BodyFails(r) \/ SessionNotFound(r) \/ BadRequest(r)
       \/ OpenSession(r) \/ OpenFails(r) \/ HandleRequest(r) \/ Ends(r)
  \/ Dispose \/ Tick
  \/ StartMailboxWriters \/ TryCreateFails \/ WatcherStarted
  \/ CloseSessions \/ StopWriters \/ DisposeScopes \/ CloseListener

Spec == GuardInit /\ HostInit /\ [][Next]_vars
-----------------------------------------------------------------------------
(* Properties                                                              *)

\* Types, and the books agree: the table counts the requests in flight on each
\* session, the host holds a scope for exactly the sessions of the table, and
\* log messages go to no server whose session is gone.  The table outgrows its limit
\* only while every session has a request in flight: there is then no one to evict.
HttpTypeOK ==
  /\ Cardinality(Open) > MaxSessions => \A i \in Open : InFlight(i) # {}
  /\ Open \subseteq made /\ made \subseteq Ids
  /\ scopes = Open
  /\ \A i \in Open : table[i] = [lastUsed |-> table[i].lastUsed,
                                 active |-> Cardinality(InFlight(i))]
  /\ bound \subseteq Open \cup disposing
                      \cup {req[r].sid : r \in {r \in Requests : req[r].at = "refused"}}
  /\ stop = "no" => DOMAIN candidates \subseteq bound
  /\ target \in SamplingIds \cup {None}
  /\ running \subseteq {"hooks", "scheduler", "watcher"}
  /\ listening \in {"no", "refused", "binding", "failing", "failed", "up"}

Deletes(i) == \E r \in Requests : /\ req[r].at = "body" /\ req'[r].at = "flight"
                                  /\ req[r].sid = i /\ req[r].ask.kind = "delete"

Dropped == {i \in Open \ DOMAIN table' : ~Deletes(i) /\ stop' = stop}

\* A session with a request in flight is dropped neither for its age nor for
\* the limit, whichever request of whichever session runs the eviction
\* (docs/configuration.md: "A session with a request in flight is never dropped").
NeverDroppedBusy == [][\A i \in Dropped : InFlight(i)' = {}]_vars

\* What hooks sample on is the client that finished its handshake last, of
\* those that support sampling and still have a session; none only if there
\* is none (http-mcp-host.ts: "The newest sampling client wins").
NewestClientSamples ==
  LET live == {n \in DOMAIN greeted : greeted[n] \in SamplingIds \cap bound}
  IN "hooks" \in running /\ stop = "no" =>
       target = IF live = {} THEN None ELSE greeted[CHOOSE n \in live : \A m \in live : m <= n]

\* Whatever the launch options: a process reachable from other machines takes
\* no request without its token, all its sockets share one port, and a client
\* that uses an address the server listens on, as itself, passes the guard.
AdmittedAsAllowed ==
  /\ \A r \in Requests :
       /\ req[r].at \in {"body", "flight", "refused"}
       /\ policy.hosts # LoopbackBindHosts /\ ~IsLoopbackBindHost(policy.hosts[1])
       => req[r].ask.head.bearer = launch.token
  /\ \A m, n \in DOMAIN sockets : sockets[m].port = sockets[n].port
  /\ listening = "failed" => sockets = <<>>
  /\ \A n \in DOMAIN sockets : ~IsWildcardBind(sockets[n].host) =>
       EvaluateHttpAccess(
         [method |-> "POST", path |-> "/mcp", origin |-> None, site |-> "none", length |-> "fits",
          type |-> "json", bearer |-> policy.token,
          host |-> [scheme |-> "http", name |-> HostnameKey(sockets[n].host),
                    port |-> IF sockets[n].port = 80 THEN None ELSE sockets[n].port]]) = 0

\* A session that had a request in flight until now is not dropped for its age
\* (docs/configuration.md: "A session idle for more than 30 minutes is dropped").
DroppedAfterIdle ==
  [][\A i \in Dropped : InFlight(i) = {} \/ Cardinality(Open) > MaxSessions]_vars
=============================================================================
