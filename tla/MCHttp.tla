------------------------------- MODULE MCHttp -------------------------------
(***************************************************************************)
(* Instances of HttpHost: every header against every launch (no session),  *)
(* or well-formed requests of several sessions (one launch).               *)
(***************************************************************************)
EXTENDS HttpHost, TLC

CONSTANTS Scenarios, r1, r2

MCRequests == {r1, r2}
RequestSymmetry == Permutations(MCRequests)

Url(scheme, name, port) == [scheme |-> scheme, name |-> name, port |-> port]
Headers(host) == [method |-> "POST", path |-> "/mcp", host |-> host, origin |-> None,
               site |-> "none", length |-> "fits", type |-> "json", bearer |-> "secret"]

Good == Headers(Url("http", "127.0.0.1", 8080))
Default == [host |-> None, port |-> 8080, token |-> None, allowed |-> {}]

MCLaunches ==
  [host : {None, "::1", "127.0.0.2", "0.0.0.0", "mail.lan"}, port : {0, 8080},
   token : {None, "blank", "spaced", "secret"},
   allowed : {{}, {"localhost"}, {"mail.example:18080"}}]
    \cup {Default}

Hosts == {None, Twice, Bad} \cup
         {Url("http", name, 8080) : name \in {"127.0.0.1", "[::1]", "mail.lan", "mail.example"}} \cup
         {Url("http", "mail.example", None), Url("http", "127.0.0.1", None)}
Origins == {None, Twice, Url("https", "mail.example", None), Url("http", "mail.example", 80),
            Url("ftp", "mail.example", None)}

Heads ==
  {[Headers(h) EXCEPT !.origin = o, !.bearer = b] :
     h \in Hosts, o \in Origins, b \in {None, "wrong", "secret"}} \cup
  {[Good EXCEPT !.site = "cross-site"], [Good EXCEPT !.length = "bad"],
   [Good EXCEPT !.length = "over"], [Good EXCEPT !.type = "text"],
   [Good EXCEPT !.method = "PUT"], [Good EXCEPT !.method = "PUT", !.path = "/"],
   [Good EXCEPT !.method = "GET"], [Good EXCEPT !.path = "/"], [Good EXCEPT !.path = "/health"],
   [Good EXCEPT !.method = "GET", !.path = "/health"]}

Request(kind) == [head |-> Good, kind |-> kind, accepts |-> TRUE]

HeaderAsks == {[Request(k) EXCEPT !.head = h] : k \in {"garbage", "call"}, h \in Heads}
SessionAsks ==
  {Request("initialize"), [Request("initialize") EXCEPT !.accepts = FALSE],
   Request("initialized"), Request("call"),
   [Request("delete") EXCEPT !.head.method = "DELETE"]}
MCAsked(options) == IF options = Default THEN SessionAsks ELSE HeaderAsks

\* The requests of a scenario; what the host does with them is not restricted.
MCInit == GuardInit /\ HostInit /\ (launch = Default \/ "headers" \in Scenarios)
Coming(r) == req[r].at = "none" /\ req'[r].at # "none"
MCNext ==
  /\ Next
  /\ \A r \in {r \in Requests : Coming(r)} :
       IF launch = Default
         THEN listening = "up" /\ (req'[r].sid = None <=> req'[r].ask.kind = "initialize")
         ELSE \A q \in Requests \ {r} : req[q].at = "none"
  /\ IF launch = Default
       THEN listening' # "failing" /\ (now' = 0 \/ (stop' = "no" /\ greeted' = <<>>))
       ELSE now' = 0 /\ stop' = "no"
MCSpec == MCInit /\ [][MCNext]_vars
=============================================================================
