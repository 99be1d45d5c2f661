------------------------------ MODULE HttpGuard ------------------------------
(***************************************************************************)
(* src/src/safety/http-transport.ts: the listen policy made from the       *)
(* launch options, the sockets opened from it, and what a request's        *)
(* headers must say before the handler sees it.                            *)
(*                                                                         *)
(* Host names are strings in their written forms; a Host or an Origin is   *)
(* None, Twice (sent more than once), Bad (it does not parse) or its URL.  *)
(***************************************************************************)
EXTENDS Integers, Sequences

CONSTANTS
  None, Twice, Bad,
  Launches,      \* launch options to explore: host, port, token, allowed
  BodyLimit,     \* bodyLimitBytes, in chunks
  EphemeralPort  \* what the kernel gives for port 0

ASSUME GuardConstants == {BodyLimit, EphemeralPort} \subseteq Nat \ {0}

VARIABLES
  launch,     \* the options of this process
  policy,     \* `active`: the policy the listener runs by
  sockets,    \* addresses: the listening sockets, in the order they opened
  unbound,    \* hosts still to listen on
  listening   \* "no", "binding", "up", or how the launch failed

guardVars == <<launch, policy, sockets, unbound, listening>>

-----------------------------------------------------------------------------
LoopbackBindHosts == <<"127.0.0.1", "::1">>
LoopbackHostHeaders == {"127.0.0.1", "localhost", "[::1]"}

RouteMethods ==
  [path \in {"/mcp", "/health"} |-> IF path = "/mcp" THEN {"GET", "POST", "DELETE"} ELSE {"GET"}]
Methods == UNION {RouteMethods[path] : path \in DOMAIN RouteMethods}

\* The hostname of the URL made from what an operator wrote.
HostnameKey(host) ==
  CASE host \in {"::1", "[::1]"}    -> "[::1]"
    [] host \in {"::", "[::]"}      -> "[::]"
    [] host = "mail.example:18080"  -> "mail.example"
    [] OTHER                        -> host

BindHost(host) ==
  CASE HostnameKey(host) = "[::]"  -> "::"
    [] HostnameKey(host) = "[::1]" -> "::1"
    [] OTHER                       -> HostnameKey(host)

IsWildcardBind(host) == host \in {"0.0.0.0", "::"}

IsLoopbackBindHost(host) ==
  host \in {"localhost", "app.localhost", "::1", "[::1]", "127.0.0.1", "127.0.0.2"}

\* The hosts these launches may listen on, and the names they may answer to.
BindHosts ==
  {LoopbackBindHosts[1], LoopbackBindHosts[2]} \cup {BindHost(options.host) : options \in Launches}
Hostnames ==
  LoopbackHostHeaders
    \cup {HostnameKey(h) :
            h \in BindHosts \cup UNION {options.allowed : options \in Launches}}

ASSUME LaunchOptions ==
  /\ \A options \in Launches : options.port \in Nat
  /\ None \notin Nat
  /\ \A x \in {None, Twice, Bad} :
       x \notin [scheme : {"http"}, name : Hostnames, port : Nat \cup {None}]

NormalizeToken(token) == IF token = "blank" THEN None ELSE token

\* resolveHttpListen: a policy, or None for a launch that is refused.
ResolveHttpListen(in) ==
  LET hosts == IF in.host = None THEN LoopbackBindHosts ELSE <<BindHost(in.host)>>
      bound == {hosts[i] : i \in DOMAIN hosts}
      token == NormalizeToken(in.token)
      exposed == {h \in bound : ~IsLoopbackBindHost(h)}
      listed == {HostnameKey(h) : h \in in.allowed}
      public == {h \in listed : ~IsLoopbackBindHost(h)}
      specific == {HostnameKey(h) : h \in {h \in exposed : ~IsWildcardBind(h)}}
      allowed == (IF exposed = {} THEN LoopbackHostHeaders ELSE {})
                   \cup {HostnameKey(h) : h \in bound \ {h \in bound : IsWildcardBind(h)}}
                   \cup listed
  IN IF \/ token = "spaced"
        \/ exposed \cup public # {} /\ token = None
        \/ allowed = {}
       THEN None
       ELSE [hosts |-> hosts, port |-> in.port, token |-> token,
             allowedHostnames |-> allowed,
             portAgnosticHostnames |-> specific \cup listed]

-----------------------------------------------------------------------------
(* The guard.                                                              *)

HeaderPort(url) ==
  CASE url.port # None        -> url.port
    [] url.scheme = "https"   -> 443
    [] OTHER                  -> 80

\* Mutant: the port of the launch options, not the one the socket got.
RequestHostAtLaunchPort(url) ==
  /\ url.name \in policy.allowedHostnames
  /\ url.name \in policy.portAgnosticHostnames \/ HeaderPort(url) = launch.port

RequestHostAllowed(url) ==
  /\ url.name \in policy.allowedHostnames
  /\ url.name \in policy.portAgnosticHostnames \/ HeaderPort(url) = policy.port

HostDecision(host) == host \notin {None, Twice, Bad} /\ RequestHostAllowed(host)

\* An Origin that writes its scheme's default port is not the URL's origin.
OriginDecision(origin) ==
  \/ origin = None
  \/ /\ origin \notin {Twice, Bad}
     /\ origin.scheme \in {"http", "https"}
     /\ origin.port # HeaderPort([origin EXCEPT !.port = None])
     /\ RequestHostAllowed(origin)

SecFetchDecision(site) == site \notin {"twice", "cross-site"}

BearerAuthorizationMatches(bearer) == policy.token = None \/ bearer = policy.token

\* evaluateHttpAccess: 0 admits, anything else is the status of the refusal.
EvaluateHttpAccess(head) ==
  CASE head.method \notin Methods -> IF head.path \in DOMAIN RouteMethods THEN 405 ELSE 404
    [] ~HostDecision(head.host) -> 403
    [] ~OriginDecision(head.origin) -> 403
    [] ~SecFetchDecision(head.site) -> 403
    [] head.length \in {"twice", "bad"} -> 400
    [] head.length = "over" -> 413
    [] head.method = "POST" /\ head.type # "json" -> 415
    [] ~BearerAuthorizationMatches(head.bearer) -> 401
    [] OTHER -> 0

ResolveHttpRoute(head) ==
  CASE head.path \notin DOMAIN RouteMethods -> "missing"
    [] head.method \notin RouteMethods[head.path] -> "method"
    [] head.path = "/health" -> "health"
    [] OTHER -> "mcp"

-----------------------------------------------------------------------------
(* startGuardedHttpServers: one socket after the other.                    *)

GuardInit ==
  /\ launch \in Launches
  /\ policy = None
  /\ sockets = <<>>
  /\ unbound = <<>>
  /\ listening = "no"

ReadHttpLaunchOptions ==
  /\ listening = "no"
  /\ policy' = ResolveHttpListen(launch)
  /\ IF policy' = None
       THEN listening' = "refused" /\ UNCHANGED unbound
       ELSE listening' = "binding" /\ unbound' = policy'.hosts
  /\ UNCHANGED <<launch, sockets>>

\* Port 0 is chosen by the first socket; the next address reuses that port.
ListenOn ==
  /\ listening = "binding" /\ unbound # <<>>
  /\ LET port == IF policy.port = 0 THEN EphemeralPort ELSE policy.port
     IN /\ policy' = [policy EXCEPT !.port = port]
        /\ sockets' = Append(sockets, [host |-> Head(unbound), port |-> port])
  /\ unbound' = Tail(unbound)
  /\ UNCHANGED <<launch, listening>>

SkippableV6(host, code) == host = "::1" /\ code = "no IPv6"

\* A host without IPv6 is passed over; any other failure ends the launch.
ListenFails ==
  /\ listening = "binding" /\ unbound # <<>>
  /\ \E code \in {"no IPv6", "in use"} :
       IF sockets # <<>> /\ SkippableV6(Head(unbound), code)
         THEN unbound' = Tail(unbound) /\ UNCHANGED listening
         ELSE listening' = "failing" /\ UNCHANGED unbound
  /\ UNCHANGED <<launch, policy, sockets>>

CloseServers ==
  /\ listening = "failing"
  /\ sockets' = <<>>
  /\ listening' = "failed"
  /\ UNCHANGED <<launch, policy, unbound>>

Up ==
  /\ listening = "binding" /\ unbound = <<>>
  /\ listening' = "up"
  /\ UNCHANGED <<launch, policy, sockets, unbound>>

GuardNext == ReadHttpLaunchOptions \/ ListenOn \/ ListenFails \/ CloseServers \/ Up
=============================================================================
