--------------------------- MODULE HttpHostProofs ---------------------------
(***************************************************************************)
(* Proofs about HttpHost, for any number of requests and sessions, any     *)
(* limits and any launch options.                                          *)
(***************************************************************************)
EXTENDS HttpHost, FiniteSetTheorems, SequenceTheorems, WellFoundedInduction, TLAPS

(***************************************************************************)
(* The inductive invariant.                                                *)
(***************************************************************************)

RequestTypes == [at : {"none", "body", "flight", "refused"}, ask : Asked(launch) \cup {None},
                 sid : Ids \cup {None}]
Slots == [lastUsed : Nat, active : Nat]

HostTypes ==
  /\ req \in [Requests -> RequestTypes]
  /\ now \in Nat
  /\ Open \subseteq made /\ made \subseteq Ids
  /\ table \in [Open -> Slots]
  /\ scopes = Open
  /\ bound \subseteq made /\ disposing \subseteq made
  /\ boot \in {"no", "creating", "watcher", "done", "failed"}
  /\ running \subseteq {"hooks", "scheduler", "watcher"}
  /\ listening \in {"no", "refused", "binding", "failing", "failed", "up"}

\* The table counts the requests in flight, each for a session that was made, and
\* holds too many sessions only while all of them are in use.
Books ==
  /\ \A r \in Requests : req[r].sid \in made \cup {None}
  /\ \A i \in Open : table[i].lastUsed <= now /\ table[i].active = Cardinality(InFlight(i))
  /\ Cardinality(Open) > MaxSessions => \A i \in Open : table[i].active > 0

\* Which servers get log messages.
Servers ==
  /\ bound \subseteq Open \cup disposing
                     \cup {req[r].sid : r \in {r \in Requests : req[r].at = "refused"}}
  /\ \A r \in Requests : req[r].at = "refused" => req[r].sid \in made \ Open
  /\ stop = "no" => /\ Open \subseteq bound /\ disposing \cap Open = {}
                    /\ DOMAIN candidates \subseteq bound

\* A candidate's order is the place of its last handshake.
Greetings ==
  /\ greeted \in Seq(Ids) /\ samplingOrder = Len(greeted)
  /\ \A n \in DOMAIN greeted : greeted[n] \in made
  /\ \A n \in DOMAIN greeted : greeted[n] \in bound => greeted[n] \in DOMAIN candidates
  /\ \A i \in DOMAIN candidates :
       /\ candidates[i] \in Nat /\ candidates[i] + 1 \in DOMAIN greeted
       /\ greeted[candidates[i] + 1] = i
       /\ \A n \in DOMAIN greeted : greeted[n] = i => n <= candidates[i] + 1
  /\ target = IF HooksListening THEN PickSamplingTarget(candidates) ELSE None
  /\ "hooks" \in running => HooksListening

HostInv == HostTypes /\ Books /\ Servers /\ Greetings

(***************************************************************************)
(* Lemmas about the model's operators.                                     *)
(***************************************************************************)

\* A set of numbers that is not empty and has a bound has a largest.
LEMMA Largest ==
  ASSUME NEW N \in Nat, NEW S, S # {}, \A x \in S : x \in Nat /\ x <= N
  PROVE  \E m \in S : \A x \in S : x <= m
<1> DEFINE T == {N - x : x \in S}
<1>1. T \subseteq Nat /\ T # {}
  OBVIOUS
<1> HIDE DEF T
<1>2. PICK t \in T : \A s \in T : ~(<<s, t>> \in OpToRel(<, Nat))
  BY <1>1, NatLessThanWellFounded, WFMin
<1>3. \A s \in T : s \in Nat /\ t \in Nat /\ ~(s < t)
  BY <1>1, <1>2 DEF OpToRel
<1>4. PICK m \in S : t = N - m
  BY DEF T
<1>5. ASSUME NEW x \in S PROVE x <= m
  <2>1. N - x \in T
    BY DEF T
  <2>2. QED
    BY <1>3, <1>4, <2>1
<1>6. QED
  BY <1>5

\* ... and a smallest.
LEMMA Smallest ==
  ASSUME NEW S, S # {}, S \subseteq Nat
  PROVE  \E m \in S : \A x \in S : m <= x
<1>1. PICK m \in S : \A s \in S : ~(<<s, m>> \in OpToRel(<, Nat))
  BY NatLessThanWellFounded, WFMin
<1>2. ASSUME NEW x \in S PROVE m <= x
  <2>1. x \in Nat /\ m \in Nat
    OBVIOUS
  <2>2. ~(x < m)
    BY <1>1, <2>1 DEF OpToRel
  <2>3. QED
    BY <2>1, <2>2
<1>3. QED
  BY <1>2

LEMMA Sessions ==
  ASSUME NEW S \in SUBSET Ids
  PROVE  /\ IsFiniteSet(S) /\ Cardinality(S) \in Nat /\ S \subseteq Nat
         /\ Cardinality(S) = 0 <=> S = {}
<1>1. IsFiniteSet(S)
  BY HostConstants, FS_Subset
<1>2. Cardinality(Ids) \in Nat /\ Ids = 1..Cardinality(Ids)
  BY HostConstants, FS_CardinalityType
<1>3. S \subseteq Nat
  BY <1>2
<1>4. QED
  BY <1>1, <1>3, FS_CardinalityType, FS_EmptySet

LEMMA Flights ==
  ASSUME NEW i
  PROVE  /\ IsFiniteSet(InFlight(i)) /\ Cardinality(InFlight(i)) \in Nat
         /\ Cardinality(InFlight(i)) = 0 <=> InFlight(i) = {}
<1>1. InFlight(i) \in SUBSET Requests
  BY DEF InFlight
<1>2. IsFiniteSet(InFlight(i))
  BY <1>1, HostConstants, FS_Subset
<1>3. QED
  BY <1>2, FS_CardinalityType, FS_EmptySet

\* What the eviction of the least recently used leaves over the limit is in use.
LEMMA ExcessLeavesBusy ==
  ASSUME NEW D \in SUBSET Ids, NEW t \in [D -> Slots], NEW keep,
         Cardinality(D \ Excess(t, keep)) > MaxSessions,
         NEW i \in D, i \notin Excess(t, keep), i \notin keep
  PROVE  t[i].active > 0
<1> DEFINE idle == {j \in D : t[j].active = 0} \ keep
           before(j) == {k \in idle : Older(t, k, j)}
           limit == Cardinality(D) - MaxSessions
<1>1. PICK X : X = Excess(t, keep)
  OBVIOUS
<1>2. X = {j \in idle : Cardinality(before(j)) < limit} /\ X \subseteq D
  BY <1>1 DEF Excess
<1>3. \A j \in D : t[j].lastUsed \in Nat /\ t[j].active \in Nat /\ j \in Nat
  BY Sessions DEF Slots
<1>4. Cardinality(X) < limit
  <2>1. D \cap X = X
    BY <1>2
  <2>2. Cardinality(D \ X) = Cardinality(D) - Cardinality(X)
    BY <2>1, Sessions, FS_Difference
  <2>3. Cardinality(D) \in Nat /\ Cardinality(X) \in Nat /\ MaxSessions \in Nat
    BY <1>2, Sessions, HostConstants
  <2>4. QED
    BY <1>1, <2>2, <2>3
<1>5. SUFFICES ASSUME idle \ X # {} PROVE FALSE
  BY <1>1, <1>3
<1>6. idle \subseteq D /\ \A j, k : k \in before(j) <=> k \in idle /\ Older(t, k, j)
  OBVIOUS
<1> HIDE DEF idle, before
<1>7. \A j : before(j) \subseteq idle /\ Cardinality(before(j)) \in Nat
  BY <1>6, Sessions
<1>8. PICK j \in idle \ X : \A k \in idle \ X : Cardinality(before(j)) <= Cardinality(before(k))
  <2> DEFINE ranks == {Cardinality(before(k)) : k \in idle \ X}
  <2>1. ranks \subseteq Nat
    BY <1>7
  <2>2. ranks # {}
    BY <1>5
  <2>3. PICK m \in ranks : \A x \in ranks : m <= x
    <3> HIDE DEF ranks
    <3>1. QED
      BY <2>1, <2>2, Smallest
  <2>4. PICK j \in idle \ X : m = Cardinality(before(j))
    OBVIOUS
  <2>5. ASSUME NEW k \in idle \ X PROVE m <= Cardinality(before(k))
    <3>1. Cardinality(before(k)) \in ranks
      OBVIOUS
    <3>2. QED
      BY <2>3, <3>1
  <2>6. QED
    BY <2>4, <2>5
<1>9. before(j) \subseteq X
  <2>1. SUFFICES ASSUME NEW k \in before(j), k \notin X PROVE FALSE
    OBVIOUS
  <2>2. k \in D /\ j \in D /\ k \in idle /\ Older(t, k, j)
    BY <1>6
  <2>3. \A l \in D : Older(t, l, k) => Older(t, l, j)
    BY <1>3, <2>2 DEF Older
  <2>4. ~Older(t, k, k)
    BY <1>3, <2>2 DEF Older
  <2>5. before(k) \subseteq before(j) /\ before(k) # before(j)
    BY <1>6, <2>2, <2>3, <2>4
  <2>6. IsFiniteSet(before(j))
    BY <1>6, <1>7, Sessions
  <2>7. /\ Cardinality(before(k)) <= Cardinality(before(j))
        /\ Cardinality(before(k)) # Cardinality(before(j))
    BY <2>5, <2>6, FS_Subset
  <2>8. Cardinality(before(j)) <= Cardinality(before(k))
    BY <1>8, <2>1, <2>2
  <2>9. QED
    BY <1>7, <2>7, <2>8
<1>10. Cardinality(before(j)) <= Cardinality(X)
  BY <1>2, <1>9, Sessions, FS_Subset
<1>11. limit \in Int /\ Cardinality(X) \in Nat
  BY <1>2, Sessions, HostConstants
<1>12. QED
  BY <1>2, <1>4, <1>7, <1>8, <1>10, <1>11

\* Eviction drops idle sessions only, keeps the others as they are, and leaves
\* more than MaxSessions only if all but keep are in use.
LEMMA EvictedFields ==
  ASSUME NEW D \in SUBSET Ids, NEW t \in [D -> Slots], now \in Nat, NEW keep,
         NEW e, e = Evicted(t, keep)
  PROVE  /\ DOMAIN e \subseteq D /\ e \in [DOMAIN e -> Slots]
         /\ \A i \in DOMAIN e : e[i] = t[i]
         /\ \A i \in D \ DOMAIN e : t[i].active = 0
         /\ \A i \in D \cap keep : t[i].lastUsed = now => i \in DOMAIN e
         /\ Cardinality(DOMAIN e) > MaxSessions => \A i \in DOMAIN e \ keep : e[i].active > 0
<1>1. PICK fresh : fresh = Without(t, Expired(t))
  OBVIOUS
<1>2. fresh = [i \in D \ Expired(t) |-> t[i]] /\ DOMAIN fresh = D \ Expired(t)
  BY <1>1 DEF Without
<1>3. /\ DOMAIN fresh \in SUBSET Ids /\ fresh \in [DOMAIN fresh -> Slots]
      /\ \A i \in DOMAIN fresh : fresh[i] = t[i]
  BY <1>2
<1>4. \A i \in D \ DOMAIN fresh : t[i].active = 0 /\ t[i].lastUsed # now
  BY <1>2, HostConstants DEF Expired, Slots
<1>5. PICK X : X = Excess(fresh, keep)
  OBVIOUS
<1>6. e = [i \in DOMAIN fresh \ X |-> fresh[i]] /\ DOMAIN e = DOMAIN fresh \ X
  BY <1>1, <1>5 DEF Evicted, Without
<1>7. X \subseteq {i \in DOMAIN fresh : fresh[i].active = 0} \ keep
  BY <1>5 DEF Excess
<1>8. Cardinality(DOMAIN e) > MaxSessions => \A i \in DOMAIN e \ keep : e[i].active > 0
  BY <1>3, <1>5, <1>6, ExcessLeavesBusy
<1>9. QED
  BY <1>2, <1>3, <1>4, <1>6, <1>7, <1>8

\* Requests in flight when one request moves.
LEMMA FlightsSame ==
  ASSUME NEW r \in Requests, \A q \in Requests \ {r} : req'[q] = req[q],
         req[r].at # "flight", req'[r].at # "flight"
  PROVE  \A i : InFlight(i)' = InFlight(i)
BY DEF InFlight

LEMMA FlightBegins ==
  ASSUME NEW r \in Requests, \A q \in Requests \ {r} : req'[q] = req[q],
         req[r].at # "flight", req'[r].at = "flight", NEW i, i = req'[r].sid
  PROVE  /\ InFlight(i)' = InFlight(i) \cup {r}
         /\ Cardinality(InFlight(i)') = Cardinality(InFlight(i)) + 1
         /\ \A j : j # i => InFlight(j)' = InFlight(j)
<1>1. InFlight(i)' = InFlight(i) \cup {r} /\ r \notin InFlight(i)
  BY DEF InFlight
<1>2. \A j : j # i => InFlight(j)' = InFlight(j)
  BY DEF InFlight
<1>3. Cardinality(InFlight(i) \cup {r}) = Cardinality(InFlight(i)) + 1
  <2>1. IsFiniteSet(InFlight(i))
    BY Flights
  <2>2. QED
    BY <1>1, <2>1, FS_AddElement
<1>4. QED
  BY <1>1, <1>2, <1>3

LEMMA FlightEnds ==
  ASSUME NEW r \in Requests, \A q \in Requests \ {r} : req'[q] = req[q],
         req[r].at = "flight", req'[r].at # "flight", NEW i, i = req[r].sid
  PROVE  /\ InFlight(i)' = InFlight(i) \ {r}
         /\ Cardinality(InFlight(i)) > 0
         /\ Cardinality(InFlight(i)') = Cardinality(InFlight(i)) - 1
         /\ \A j : j # i => InFlight(j)' = InFlight(j)
<1>1. InFlight(i)' = InFlight(i) \ {r} /\ r \in InFlight(i)
  BY DEF InFlight
<1>2. \A j : j # i => InFlight(j)' = InFlight(j)
  BY DEF InFlight
<1>3. Cardinality(InFlight(i)) \in Nat /\ Cardinality(InFlight(i)) # 0
  BY <1>1, Flights
<1>4. IsFiniteSet(InFlight(i))
  BY Flights
<1>5. Cardinality(InFlight(i) \ {r}) = Cardinality(InFlight(i)) - 1
  BY <1>1, <1>4, FS_RemoveElement
<1>6. QED
  BY <1>1, <1>2, <1>3, <1>5

(***************************************************************************)
(* Steps that only take a request along its way, or move the host on.      *)
(***************************************************************************)

\* What a request becomes that is answered or handed on.
LEMMA AnsweredFields ==
  ASSUME HostTypes, NEW r \in Requests, NEW status, Answered(r, status)
  PROVE  /\ req' \in [Requests -> RequestTypes] /\ req'[r].at = "none" /\ req'[r].sid = None
         /\ \A q \in Requests \ {r} : req'[q] = req[q]
<1>1. NoRequest \in RequestTypes
  BY DEF NoRequest, RequestTypes
<1>2. QED
  BY <1>1 DEF HostTypes, Answered, NoRequest

LEMMA PutFields ==
  ASSUME HostTypes, NEW r \in Requests, NEW at \in {"flight", "refused"}, NEW i \in Ids,
         Put(r, at, i)
  PROVE  /\ req' \in [Requests -> RequestTypes] /\ req'[r].at = at /\ req'[r].sid = i
         /\ \A q \in Requests \ {r} : req'[q] = req[q]
BY DEF HostTypes, Put, RequestTypes

LEMMA QuietKeepsHost ==
  ASSUME HostInv, UNCHANGED <<tableVars, bound, candidates, samplingOrder, target, made, greeted>>,
         now' \in Nat, now' >= now, stop' = stop \/ stop' # "no",
         HooksListening' <=> HooksListening, running' \subseteq running,
         \A i : InFlight(i)' = InFlight(i),
         \A r \in Requests :
           /\ req'[r].sid \in made \cup {None}
           /\ req[r].at = "refused" \/ req'[r].at = "refused" => req'[r] = req[r]
  PROVE  Books' /\ Servers' /\ Greetings'
<1> USE DEF HostInv, tableVars, Open
<1>1. Books'
  <2>1. \A i \in Open : table[i].lastUsed \in Nat /\ now \in Nat
    BY DEF HostTypes, Slots
  <2>2. \A i \in Open : table'[i].lastUsed <= now' /\ table'[i].active = Cardinality(InFlight(i)')
    BY <2>1 DEF Books
  <2>3. QED
    BY <2>2 DEF Books
<1>2. Servers'
  BY DEF Servers
<1>3. Greetings'
  BY DEF Greetings
<1>4. QED
  BY <1>1, <1>2, <1>3

\* A request that is answered, arrives or is refused is not in flight.
LEMMA RequestSteps ==
  ASSUME HostInv, NEW r \in Requests,
         Arrive(r) \/ BodyFails(r) \/ SessionNotFound(r) \/ BadRequest(r)
  PROVE  HostInv'
<1> USE DEF guardVars, tableVars, targetVars
<1>1. /\ UNCHANGED <<launch, policy, sockets, unbound, listening, now, table, scopes, disposing,
                     bound, candidates, samplingOrder, target, boot, running, stop, made, greeted>>
      /\ req[r].at \in {"none", "body"}
  BY DEF Arrive, BodyFails, SessionNotFound, BadRequest, Ready
<1>2. /\ req' \in [Requests -> RequestTypes] /\ req'[r].at \in {"none", "body"}
      /\ req'[r].sid \in made \cup {None}
      /\ \A q \in Requests \ {r} : req'[q] = req[q]
  <2>1. HostTypes
    BY DEF HostInv
  <2>2. CASE \E status : Answered(r, status)
    BY <2>1, <2>2, AnsweredFields
  <2>3. CASE /\ Arrive(r)
             /\ \E ask \in Asked(launch), sid \in made \cup {None} :
                  req' = [req EXCEPT ![r] = [at |-> "body", ask |-> ask, sid |-> sid]]
    <3>1. PICK ask \in Asked(launch), sid \in made \cup {None} :
            req' = [req EXCEPT ![r] = [at |-> "body", ask |-> ask, sid |-> sid]]
      BY <2>3
    <3>2. [at |-> "body", ask |-> ask, sid |-> sid] \in RequestTypes
      BY <2>1 DEF HostTypes, RequestTypes
    <3>3. QED
      BY <2>1, <3>1, <3>2 DEF HostTypes
  <2>4. Arrive(r) =>
          \/ \E status : Answered(r, status)
          \/ \E ask \in Asked(launch), sid \in made \cup {None} :
               req' = [req EXCEPT ![r] = [at |-> "body", ask |-> ask, sid |-> sid]]
    <3>1. SUFFICES ASSUME Arrive(r), \A status : ~Answered(r, status)
                   PROVE  \E ask \in Asked(launch), sid \in made \cup {None} :
                            req' = [req EXCEPT ![r] = [at |-> "body", ask |-> ask, sid |-> sid]]
      OBVIOUS
    <3>2. PICK ask \in Asked(launch), sid \in made \cup {None} :
            LET status == EvaluateHttpAccess(ask.head)
                route == ResolveHttpRoute(ask.head)
                handler == [at |-> "body", ask |-> ask, sid |-> sid]
            IN CASE status # 0 -> Answered(r, status)
                 [] route = "method" -> Answered(r, 405)
                 [] route = "missing" -> Answered(r, 404)
                 [] route = "health" -> Answered(r, 200)
                 [] OTHER -> req' = [req EXCEPT ![r] = handler]
      BY <3>1 DEF Arrive
    <3>3. req' = [req EXCEPT ![r] = [at |-> "body", ask |-> ask, sid |-> sid]]
      BY <3>1, <3>2
    <3>4. QED
      BY <3>3
  <2>5. BodyFails(r) \/ SessionNotFound(r) \/ BadRequest(r) => \E status : Answered(r, status)
    BY DEF BodyFails, SessionNotFound, BadRequest
  <2>6. QED
    BY <2>2, <2>3, <2>4, <2>5
<1>3. req[r].at # "flight" /\ req[r].at # "refused" /\ req'[r].at # "flight"
  BY <1>1, <1>2
<1>4. \A i : InFlight(i)' = InFlight(i)
  BY <1>2, <1>3, FlightsSame
<1>5. HostTypes'
  BY <1>1, <1>2 DEF HostInv, HostTypes, Open, RequestTypes
<1>6. \A q \in Requests :
        /\ req'[q].sid \in made \cup {None}
        /\ req[q].at = "refused" \/ req'[q].at = "refused" => req'[q] = req[q]
  BY <1>2, <1>3 DEF HostInv, Books
<1>7. HooksListening' <=> HooksListening
  BY <1>1 DEF HooksListening
<1>8. now' \in Nat /\ now' >= now
  BY <1>1 DEF HostInv, HostTypes
<1>9. Books' /\ Servers' /\ Greetings'
  BY <1>1, <1>4, <1>6, <1>7, <1>8, QuietKeepsHost
<1>10. QED
  BY <1>5, <1>9 DEF HostInv

\* The listener, the clock, the start of the writers and the shutdown.
LEMMA HostSteps ==
  ASSUME HostInv,
         \/ GuardNext /\ UNCHANGED hostVars
         \/ Tick \/ TryCreateFails \/ WatcherStarted \/ StopWriters \/ CloseListener
         \/ UNCHANGED vars
  PROVE  HostInv'
<1> USE DEF guardVars, hostVars, tableVars, targetVars, vars
<1>1. /\ UNCHANGED <<launch, req, table, scopes, disposing, bound, candidates, samplingOrder,
                     target, made, greeted>>
      /\ now' = now \/ now' = now + 1
      /\ stop' = stop \/ stop' # "no"
      /\ running' \subseteq running
      /\ \/ boot' = boot
         \/ boot = "creating" /\ boot' = "failed"
         \/ boot = "watcher" /\ boot' = "done"
      /\ listening' \in {"no", "refused", "binding", "failing", "failed", "up"}
  <2>1. listening \in {"no", "refused", "binding", "failing", "failed", "up"}
    BY DEF HostInv, HostTypes
  <2>2. CASE GuardNext /\ UNCHANGED hostVars
    <3>1. launch' = launch
      BY <2>2 DEF GuardNext, ReadHttpLaunchOptions, ListenOn, ListenFails, CloseServers, Up
    <3>2. listening' \in {listening, "refused", "binding", "failing", "failed", "up"}
      BY <2>2 DEF GuardNext, ReadHttpLaunchOptions, ListenOn, ListenFails, CloseServers, Up
    <3>3. QED
      BY <2>1, <2>2, <3>1, <3>2
  <2>3. CASE Tick \/ TryCreateFails \/ WatcherStarted
    BY <2>1, <2>3 DEF Tick, TryCreateFails, WatcherStarted
  <2>4. CASE StopWriters
    BY <2>1, <2>4 DEF StopWriters
  <2>5. CASE CloseListener
    BY <2>1, <2>5 DEF CloseListener
  <2>6. CASE UNCHANGED vars
    BY <2>1, <2>6
  <2>7. QED
    BY <2>2, <2>3, <2>4, <2>5, <2>6
<1>2. now' \in Nat /\ now' >= now
  BY <1>1 DEF HostInv, HostTypes
<1>3. HostTypes'
  BY <1>1, <1>2 DEF HostInv, HostTypes, Open, RequestTypes
<1>4. \A i : InFlight(i)' = InFlight(i)
  BY <1>1 DEF InFlight
<1>5. HooksListening' <=> HooksListening
  BY <1>1 DEF HooksListening
<1>6. \A q \in Requests :
        /\ req'[q].sid \in made \cup {None}
        /\ req[q].at = "refused" \/ req'[q].at = "refused" => req'[q] = req[q]
  BY <1>1 DEF HostInv, Books
<1>7. Books' /\ Servers' /\ Greetings'
  BY <1>1, <1>2, <1>4, <1>5, <1>6, QuietKeepsHost
<1>8. QED
  BY <1>3, <1>7 DEF HostInv

(***************************************************************************)
(* Sessions.                                                               *)
(***************************************************************************)

\* A session that is set is there and idle; only idle ones gave way to it.
LEMMA SessionSetFields ==
  ASSUME HostTypes, NEW i \in Ids \ made, NEW t, t = SessionSet(table, i)
  PROVE  /\ DOMAIN t \subseteq Open \cup {i} /\ i \in DOMAIN t /\ t \in [DOMAIN t -> Slots]
         /\ t[i].lastUsed = now /\ t[i].active = 0
         /\ \A j \in DOMAIN t \ {i} : t[j] = table[j]
         /\ \A j \in Open \ DOMAIN t : table[j].active = 0
         /\ Cardinality(DOMAIN t) > MaxSessions => \A j \in DOMAIN t \ {i} : t[j].active > 0
<1>1. PICK e : e = Evicted(table, {})
  OBVIOUS
<1> PICK s : s = [lastUsed |-> now, active |-> 0]
  OBVIOUS
<1>2. PICK w : w = With(e, i, s)
  OBVIOUS
<1>3. t = Evicted(w, {i})
  BY <1>1, <1>2 DEF SessionSet
<1>4. /\ Open \in SUBSET Ids /\ table \in [Open -> Slots] /\ now \in Nat /\ i \notin Open
      /\ s \in Slots /\ s.lastUsed = now /\ s.active = 0
  BY DEF HostTypes, Slots
<1>5. /\ DOMAIN e \subseteq Open /\ e \in [DOMAIN e -> Slots] /\ \A j \in DOMAIN e : e[j] = table[j]
      /\ \A j \in Open \ DOMAIN e : table[j].active = 0
  BY <1>1, <1>4, EvictedFields
<1>6. /\ DOMAIN w = DOMAIN e \cup {i} /\ w[i] = s
      /\ \A j \in DOMAIN e : w[j] = table[j]
      /\ w \in [DOMAIN w -> Slots] /\ DOMAIN w \in SUBSET Ids
  <2>1. w = [x \in DOMAIN e \cup {i} |-> IF x = i THEN s ELSE e[x]]
    BY <1>2 DEF With
  <2>2. DOMAIN w = DOMAIN e \cup {i} /\ w[i] = s /\ \A j \in DOMAIN e : w[j] = table[j]
    BY <1>4, <1>5, <2>1
  <2>3. w \in [DOMAIN w -> Slots]
    BY <1>4, <1>5, <2>1
  <2>4. QED
    BY <1>4, <1>5, <2>2, <2>3
<1>7. /\ DOMAIN t \subseteq DOMAIN w /\ t \in [DOMAIN t -> Slots]
      /\ \A j \in DOMAIN t : t[j] = w[j]
      /\ \A j \in DOMAIN w \ DOMAIN t : w[j].active = 0
      /\ \A j \in DOMAIN w \cap {i} : w[j].lastUsed = now => j \in DOMAIN t
      /\ Cardinality(DOMAIN t) > MaxSessions => \A j \in DOMAIN t \ {i} : t[j].active > 0
  <2>1. PICK D : D = DOMAIN w
    OBVIOUS
  <2>2. PICK K : K = {i}
    OBVIOUS
  <2>3. D \in SUBSET Ids /\ w \in [D -> Slots] /\ t = Evicted(w, K)
    BY <1>3, <1>6, <2>1, <2>2
  <2>4. /\ DOMAIN t \subseteq D /\ t \in [DOMAIN t -> Slots]
        /\ \A j \in DOMAIN t : t[j] = w[j]
        /\ \A j \in D \ DOMAIN t : w[j].active = 0
        /\ \A j \in D \cap K : w[j].lastUsed = now => j \in DOMAIN t
        /\ Cardinality(DOMAIN t) > MaxSessions => \A j \in DOMAIN t \ K : t[j].active > 0
    BY <1>4, <2>3, EvictedFields
  <2>5. QED
    BY <2>1, <2>2, <2>4
<1>8. i \in DOMAIN t /\ t[i].lastUsed = now /\ t[i].active = 0
  BY <1>4, <1>6, <1>7
<1>9. QED
  BY <1>5, <1>6, <1>7, <1>8

LEMMA BeginFields ==
  ASSUME now \in Nat, NEW t, t \in [DOMAIN t -> Slots], NEW i \in DOMAIN t,
         NEW b, b = BeginRequest(t, i)
  PROVE  /\ DOMAIN b = DOMAIN t /\ b \in [DOMAIN t -> Slots]
         /\ b[i].lastUsed = now /\ b[i].active = t[i].active + 1
         /\ \A j \in DOMAIN t \ {i} : b[j] = t[j]
<1>1. PICK u : u = t[i]
  OBVIOUS
<1>2. PICK s : s = [[u EXCEPT !.active = u.active + 1] EXCEPT !.lastUsed = now]
  OBVIOUS
<1>3. u \in Slots
  BY <1>1
<1>4. s \in Slots /\ s.lastUsed = now /\ s.active = t[i].active + 1
  <2>1. s = [lastUsed |-> now, active |-> u.active + 1] /\ u.active \in Nat
    BY <1>2, <1>3 DEF Slots
  <2>2. QED
    BY <1>1, <2>1 DEF Slots
<1>5. b = [t EXCEPT ![i] = s]
  BY <1>1, <1>2 DEF BeginRequest
<1>6. QED
  BY <1>4, <1>5

\* The books after a step that changes the table.
LEMMA TableKeepsBooks ==
  ASSUME HostInv, HostTypes', now' = now,
         \A r \in Requests : req'[r].sid \in made' \cup {None},
         \A i \in Open' : table'[i].lastUsed <= now /\ table'[i].active = Cardinality(InFlight(i)'),
         Cardinality(Open') > MaxSessions => \A i \in Open' : table'[i].active > 0
  PROVE  Books'
BY DEF Books, Open

LEMMA OpenSteps ==
  ASSUME HostInv, NEW r \in Requests, OpenSession(r) \/ OpenFails(r)
  PROVE  HostInv' /\ \A j \in Open \ Open' : Cardinality(InFlight(j)') = 0
<1> USE DEF guardVars, tableVars, targetVars
<1>1. HostTypes /\ Books /\ Servers /\ Greetings
  BY DEF HostInv
<1>2. /\ req[r].at = "body" /\ req[r].sid = None
      /\ UNCHANGED <<launch, policy, sockets, unbound, listening, now, candidates, samplingOrder,
                     target, boot, running, stop, greeted>>
  BY DEF OpenSession, OpenFails, Ready
<1>3. PICK i \in Ids \ made :
        /\ made' = made \cup {i} /\ bound' = bound \cup {i}
        /\ \/ /\ OpenFails(r) /\ disposing' = disposing \cup {i} /\ Answered(r, 500)
              /\ UNCHANGED <<table, scopes>>
           \/ Put(r, "refused", i) /\ UNCHANGED <<table, scopes, disposing>>
           \/ LET t == SessionSet(table, i)
              IN /\ table' = BeginRequest(t, i)
                 /\ scopes' = (scopes \cap DOMAIN t) \cup {i}
                 /\ disposing' = disposing \cup (bound \cap (Open \ DOMAIN t))
                 /\ Put(r, "flight", i)
  BY DEF OpenSession, OpenFails
<1>4. /\ i # None /\ i \notin Open /\ i \notin bound /\ i \notin disposing
      /\ \A n \in DOMAIN greeted : greeted[n] # i
      /\ \A q \in Requests : req[q].sid # i
  BY <1>1, HostConstants DEF HostTypes, Greetings, Books
<1>5. Greetings'
  BY <1>1, <1>2, <1>3, <1>4 DEF Greetings, HooksListening
<1>6. CASE OpenFails(r) /\ disposing' = disposing \cup {i} /\ Answered(r, 500)
           /\ UNCHANGED <<table, scopes>>
  <2>1. /\ req' \in [Requests -> RequestTypes] /\ req'[r].at = "none" /\ req'[r].sid = None
        /\ \A q \in Requests \ {r} : req'[q] = req[q]
    BY <1>1, <1>6, AnsweredFields
  <2>2. \A j : InFlight(j)' = InFlight(j)
    BY <1>2, <2>1, FlightsSame
  <2>3. HostTypes'
    BY <1>1, <1>2, <1>3, <1>6, <2>1 DEF HostTypes, Open, RequestTypes
  <2>4. Books'
    BY <1>1, <1>2, <1>3, <1>6, <2>1, <2>2 DEF Books, Open
  <2>5. Servers'
    BY <1>1, <1>2, <1>3, <1>4, <1>6, <2>1 DEF Servers, Open
  <2>6. QED
    BY <1>5, <1>6, <2>3, <2>4, <2>5 DEF HostInv, Open
<1>7. CASE Put(r, "refused", i) /\ UNCHANGED <<table, scopes, disposing>>
  <2>1. /\ req' \in [Requests -> RequestTypes] /\ req'[r].at = "refused" /\ req'[r].sid = i
        /\ \A q \in Requests \ {r} : req'[q] = req[q]
    BY <1>1, <1>7, PutFields
  <2>2. \A j : InFlight(j)' = InFlight(j)
    BY <1>2, <2>1, FlightsSame
  <2>3. HostTypes'
    BY <1>1, <1>2, <1>3, <1>7, <2>1 DEF HostTypes, Open, RequestTypes
  <2>4. Books'
    BY <1>1, <1>2, <1>3, <1>7, <2>1, <2>2 DEF Books, Open
  <2>5. Servers'
    BY <1>1, <1>2, <1>3, <1>4, <1>7, <2>1 DEF Servers, Open
  <2>6. QED
    BY <1>5, <1>7, <2>3, <2>4, <2>5 DEF HostInv, Open
<1>8. CASE LET t == SessionSet(table, i)
           IN /\ table' = BeginRequest(t, i)
              /\ scopes' = (scopes \cap DOMAIN t) \cup {i}
              /\ disposing' = disposing \cup (bound \cap (Open \ DOMAIN t))
              /\ Put(r, "flight", i)
  <2>1. PICK t : t = SessionSet(table, i)
    OBVIOUS
  <2>2. /\ DOMAIN t \subseteq Open \cup {i} /\ i \in DOMAIN t /\ t \in [DOMAIN t -> Slots]
        /\ t[i].lastUsed = now /\ t[i].active = 0
        /\ \A j \in DOMAIN t \ {i} : t[j] = table[j]
        /\ \A j \in Open \ DOMAIN t : table[j].active = 0
        /\ Cardinality(DOMAIN t) > MaxSessions => \A j \in DOMAIN t \ {i} : t[j].active > 0
    BY <1>1, <2>1, SessionSetFields
  <2>3. now \in Nat
    BY <1>1 DEF HostTypes
  <2>4. table' = BeginRequest(t, i)
    BY <1>8, <2>1
  <2>5. /\ DOMAIN table' = DOMAIN t /\ table' \in [DOMAIN t -> Slots]
        /\ table'[i].lastUsed = now /\ table'[i].active = 1
        /\ \A j \in DOMAIN t \ {i} : table'[j] = table[j]
    BY <2>2, <2>3, <2>4, BeginFields
  <2>6. /\ req' \in [Requests -> RequestTypes] /\ req'[r].at = "flight" /\ req'[r].sid = i
        /\ \A q \in Requests \ {r} : req'[q] = req[q]
    BY <1>1, <1>8, PutFields
  <2>7. InFlight(i) = {}
    BY <1>4 DEF InFlight
  <2>8. Cardinality(InFlight(i)') = 1 /\ \A j : j # i => InFlight(j)' = InFlight(j)
    <3>1. /\ Cardinality(InFlight(i)') = Cardinality(InFlight(i)) + 1
          /\ \A j : j # i => InFlight(j)' = InFlight(j)
      BY <1>2, <2>6, FlightBegins
    <3>2. Cardinality(InFlight(i)) = 0
      BY <2>7, FS_EmptySet
    <3>3. QED
      BY <3>1, <3>2
  <2>9. /\ scopes' = (scopes \cap DOMAIN t) \cup {i}
        /\ disposing' = disposing \cup (bound \cap (Open \ DOMAIN t))
    BY <1>8, <2>1
  <2>10. HostTypes'
    <3>1. made' = made \cup {i} /\ bound' = bound \cup {i}
      BY <1>3
    <3>2. scopes' = DOMAIN t
      BY <1>1, <2>2, <2>9 DEF HostTypes
    <3>3. disposing' \subseteq made /\ made' \subseteq Ids /\ bound' \subseteq made'
      BY <1>1, <2>9, <3>1 DEF HostTypes
    <3>4. DOMAIN table' \subseteq made' /\ table' \in [DOMAIN table' -> Slots]
      BY <1>1, <2>2, <2>5, <3>1 DEF HostTypes
    <3>5. req' \in [Requests -> RequestTypes]'
      BY <1>2, <2>6 DEF RequestTypes
    <3>6. QED
      BY <1>1, <1>2, <2>5, <3>1, <3>2, <3>3, <3>4, <3>5 DEF HostTypes, Open
  <2>11. ASSUME NEW j \in DOMAIN table'
         PROVE  table'[j].lastUsed <= now /\ table'[j].active = Cardinality(InFlight(j)')
    <3>1. CASE j = i
      BY <2>3, <2>5, <2>8, <3>1
    <3>2. CASE j # i
      BY <1>1, <2>2, <2>5, <2>8, <3>2 DEF Books
    <3>3. QED
      BY <3>1, <3>2
  <2>12. Cardinality(DOMAIN table') > MaxSessions => \A j \in DOMAIN table' : table'[j].active > 0
    BY <2>2, <2>5
  <2>13. \A q \in Requests : req'[q].sid \in made' \cup {None}
    BY <1>1, <1>3, <2>6 DEF Books
  <2>14. Books'
    BY <1>2, <2>10, <2>11, <2>12, <2>13, TableKeepsBooks DEF Open
  <2>15. Servers'
    BY <1>1, <1>2, <1>3, <1>4, <2>2, <2>5, <2>6, <2>9 DEF Servers, Open, HostTypes
  <2>16. ASSUME NEW j \in Open \ Open' PROVE Cardinality(InFlight(j)') = 0
    BY <1>1, <1>4, <2>2, <2>5, <2>8, <2>16 DEF Books, Open
  <2>17. QED
    BY <1>5, <2>10, <2>14, <2>15, <2>16 DEF HostInv
<1>9. QED
  BY <1>3, <1>6, <1>7, <1>8

\* The host after a step that drops sessions, X the refused one if it ends.
LEMMA DropsKeepHost ==
  ASSUME HostInv, NEW X \in SUBSET made, X \cap Open = {},
         table' \in [Open' -> Slots], Open' \subseteq Open, scopes' = scopes \cap Open',
         disposing' = disposing \cup X \cup (bound \cap (Open \ Open')),
         req' \in [Requests -> RequestTypes],
         \A q \in Requests :
           \/ req'[q] = req[q]
           \/ req'[q].at # "refused" /\ (req[q].at = "refused" => req[q].sid \in X),
         stop' = stop \/ stop' # "no",
         UNCHANGED <<launch, listening, now, bound, targetVars, boot, running, made, greeted>>
  PROVE  HostTypes' /\ Servers' /\ Greetings'
<1> USE DEF targetVars
<1>1. HostTypes /\ Servers /\ Greetings
  BY DEF HostInv
<1>2. HostTypes'
  <2>1. disposing' \subseteq made
    BY <1>1 DEF HostTypes
  <2>2. scopes' = Open'
    BY <1>1 DEF HostTypes
  <2>3. req' \in [Requests -> RequestTypes']
    BY DEF RequestTypes
  <2>4. QED
    BY <1>1, <2>1, <2>2, <2>3 DEF HostTypes
<1>3. Servers'
  <2>1. \A q \in Requests : req'[q].at = "refused" => req'[q].sid \in made \ Open'
    BY <1>1 DEF Servers
  <2>2. ASSUME NEW i \in bound, i \notin Open', i \notin disposing'
        PROVE  \E q \in Requests : req'[q].at = "refused" /\ i = req'[q].sid
    <3>1. i \notin Open /\ i \notin disposing /\ i \notin X
      BY <2>2
    <3>2. PICK q \in Requests : req[q].at = "refused" /\ i = req[q].sid
      BY <1>1, <2>2, <3>1 DEF Servers
    <3>3. QED
      BY <3>1, <3>2
  <2>3. stop' = "no" => /\ Open' \subseteq bound /\ disposing' \cap Open' = {}
                        /\ DOMAIN candidates \subseteq bound
    BY <1>1 DEF Servers
  <2>4. QED
    BY <2>1, <2>2, <2>3 DEF Servers
<1>4. Greetings'
  BY <1>1 DEF Greetings, HooksListening
<1>5. QED
  BY <1>2, <1>3, <1>4

\* A smaller table that was not too large before is not too large now.
LEMMA FewerSessions ==
  ASSUME NEW S \in SUBSET Ids, NEW T \in SUBSET S, Cardinality(T) > MaxSessions
  PROVE  Cardinality(S) > MaxSessions
<1>1. Cardinality(T) <= Cardinality(S)
  BY Sessions, FS_Subset
<1>2. Cardinality(S) \in Nat /\ Cardinality(T) \in Nat /\ MaxSessions \in Nat
  BY Sessions, HostConstants
<1>3. QED
  BY <1>1, <1>2

\* A handshake puts its session last.
LEMMA HandshakeKeepsGreetings ==
  ASSUME HostTypes, Greetings, NEW i \in Open, Initialized(i), bound' = bound, made' = made,
         running' = running
  PROVE  Greetings' /\ boot' \in {"no", "creating", "watcher", "done", "failed"}
<1>1. /\ greeted' = Append(greeted, i) /\ samplingOrder' = samplingOrder + 1
      /\ candidates' = With(candidates, i, samplingOrder)
      /\ ApplySamplingTarget(candidates')
      /\ boot' = IF boot = "no" THEN "creating" ELSE boot
  BY DEF Initialized
<1>2. i \in Ids /\ i \in made
  BY DEF HostTypes
<1>3. greeted \in Seq(Ids) /\ samplingOrder = Len(greeted) /\ Len(greeted) \in Nat
  BY DEF Greetings
<1>4. /\ greeted' \in Seq(Ids) /\ Len(greeted') = Len(greeted) + 1
      /\ DOMAIN greeted' = 1..(Len(greeted) + 1) /\ DOMAIN greeted = 1..Len(greeted)
      /\ greeted'[Len(greeted) + 1] = i
      /\ \A n \in DOMAIN greeted : greeted'[n] = greeted[n]
  BY <1>1, <1>2, <1>3
<1>5. /\ DOMAIN candidates' = DOMAIN candidates \cup {i}
      /\ candidates'[i] = Len(greeted)
      /\ \A j \in DOMAIN candidates \ {i} : candidates'[j] = candidates[j]
  <2>1. candidates' = [x \in DOMAIN candidates \cup {i} |->
                         IF x = i THEN samplingOrder ELSE candidates[x]]
    BY <1>1 DEF With
  <2>2. QED
    BY <1>3, <2>1
<1>6. HooksListening' <=> HooksListening
  BY <1>1 DEF HooksListening
<1>7. target' = IF HooksListening' THEN PickSamplingTarget(candidates)' ELSE None
  <2>1. PickSamplingTarget(candidates)' = PickSamplingTarget(candidates')
    BY DEF PickSamplingTarget
  <2>2. QED
    BY <1>1, <1>6, <2>1 DEF ApplySamplingTarget, Greetings
<1>8. \A n \in DOMAIN greeted' :
        greeted'[n] \in made /\ (greeted'[n] \in bound => greeted'[n] \in DOMAIN candidates')
  BY <1>2, <1>3, <1>4, <1>5 DEF Greetings
<1>9. ASSUME NEW j \in DOMAIN candidates'
      PROVE  /\ candidates'[j] \in Nat /\ candidates'[j] + 1 \in DOMAIN greeted'
             /\ greeted'[candidates'[j] + 1] = j
             /\ \A n \in DOMAIN greeted' : greeted'[n] = j => n <= candidates'[j] + 1
  <2>1. CASE j = i
    BY <1>3, <1>4, <1>5, <2>1
  <2>2. CASE j # i
    <3>1. j \in DOMAIN candidates /\ candidates'[j] = candidates[j]
      BY <1>5, <2>2
    <3>2. /\ candidates[j] \in Nat /\ candidates[j] + 1 \in DOMAIN greeted
          /\ greeted[candidates[j] + 1] = j
          /\ \A n \in DOMAIN greeted : greeted[n] = j => n <= candidates[j] + 1
      BY <3>1 DEF Greetings
    <3>3. QED
      BY <1>3, <1>4, <2>2, <3>1, <3>2
  <2>3. QED
    BY <2>1, <2>2
<1>10. "hooks" \in running' => HooksListening'
  BY <1>6 DEF Greetings
<1>11. QED
  BY <1>1, <1>3, <1>4, <1>7, <1>8, <1>9, <1>10 DEF Greetings, HostTypes

LEMMA HandleSteps ==
  ASSUME HostInv, NEW r \in Requests, HandleRequest(r)
  PROVE  HostInv'
<1> USE DEF guardVars, tableVars, targetVars
<1>1. HostTypes /\ Books /\ Servers /\ Greetings
  BY DEF HostInv
<1>2. PICK i : i = req[r].sid
  OBVIOUS
<1>3. /\ req[r].at = "body" /\ i \in Open /\ i \in Ids /\ i \in made
      /\ Put(r, "flight", i) /\ Transport(i, req[r].ask.kind)
      /\ UNCHANGED <<launch, policy, sockets, unbound, listening, now, bound, running, stop, made>>
  BY <1>1, <1>2 DEF HandleRequest, Ready, HostTypes
<1>4. /\ req' \in [Requests -> RequestTypes] /\ req'[r].at = "flight" /\ req'[r].sid = i
      /\ \A q \in Requests \ {r} : req'[q] = req[q]
  BY <1>1, <1>3, PutFields
<1>5. /\ Cardinality(InFlight(i)') = Cardinality(InFlight(i)) + 1
      /\ \A j : j # i => InFlight(j)' = InFlight(j)
  BY <1>3, <1>4, FlightBegins
<1>6. \A q \in Requests : req'[q].sid \in made' \cup {None}
  BY <1>1, <1>3, <1>4 DEF Books
<1>7. now \in Nat /\ table \in [Open -> Slots]
  BY <1>1 DEF HostTypes
<1>8. CASE Release(Without(table, {i})) /\ UNCHANGED <<targetVars, boot, greeted>>
  <2>1. table' = [j \in Open \ {i} |-> table[j]] /\ Open' = Open \ {i}
    BY <1>8 DEF Release, Without, Open
  <2>2. table' \in [Open' -> Slots] /\ \A j \in Open' : table'[j] = table[j]
    BY <1>7, <2>1
  <2>3. PICK X : X = {}
    OBVIOUS
  <2>4. /\ scopes' = scopes \cap Open'
        /\ disposing' = disposing \cup X \cup (bound \cap (Open \ Open'))
        /\ X \in SUBSET made /\ X \cap Open = {}
    BY <1>8, <2>1, <2>3 DEF Release, Without, Open
  <2>5. HostTypes' /\ Servers' /\ Greetings'
    BY <1>3, <1>4, <1>8, <2>1, <2>2, <2>4, DropsKeepHost
  <2>6. \A j \in Open' : table'[j].lastUsed <= now /\ table'[j].active = Cardinality(InFlight(j)')
    BY <1>1, <1>5, <2>1, <2>2 DEF Books
  <2>7. ASSUME Cardinality(Open') > MaxSessions, NEW j \in Open' PROVE table'[j].active > 0
    <3>1. Open \in SUBSET Ids /\ Open' \in SUBSET Open
      BY <1>1, <2>1 DEF HostTypes
    <3>2. Cardinality(Open) > MaxSessions
      BY <2>7, <3>1, FewerSessions
    <3>3. QED
      BY <1>1, <2>1, <2>2, <3>2 DEF Books
  <2>8. Books'
    BY <1>3, <1>6, <2>5, <2>6, <2>7, TableKeepsBooks
  <2>9. QED
    BY <2>5, <2>8 DEF HostInv
<1>9. CASE /\ table' = BeginRequest(table, i) /\ UNCHANGED <<scopes, disposing>>
           /\ Initialized(i) \/ UNCHANGED <<targetVars, boot, greeted>>
  <2>1. Greetings' /\ boot' \in {"no", "creating", "watcher", "done", "failed"}
    <3>1. CASE Initialized(i)
      BY <1>1, <1>3, <3>1, HandshakeKeepsGreetings
    <3>2. CASE UNCHANGED <<targetVars, boot, greeted>>
      BY <1>1, <1>3, <3>2 DEF Greetings, HooksListening, HostTypes
    <3>3. QED
      BY <1>9, <3>1, <3>2
  <2>2. /\ Open' = Open /\ table' \in [Open -> Slots]
        /\ table'[i].lastUsed = now /\ table'[i].active = table[i].active + 1
        /\ \A j \in Open \ {i} : table'[j] = table[j]
    BY <1>3, <1>7, <1>9, BeginFields DEF Open
  <2>3. HostTypes'
    BY <1>1, <1>3, <1>4, <1>9, <2>1, <2>2 DEF HostTypes, RequestTypes
  <2>4. \A j \in Open : table[j].active \in Nat
    BY <1>7 DEF Slots
  <2>5. ASSUME NEW j \in Open'
        PROVE  table'[j].lastUsed <= now /\ table'[j].active = Cardinality(InFlight(j)')
    <3>1. CASE j = i
      BY <1>1, <1>3, <1>5, <1>7, <2>2, <3>1 DEF Books
    <3>2. CASE j # i
      BY <1>1, <1>5, <2>2, <2>5, <3>2 DEF Books
    <3>3. QED
      BY <3>1, <3>2
  <2>6. Cardinality(Open') > MaxSessions => \A j \in Open' : table'[j].active > 0
    <3>1. \A j \in Open : table[j].active > 0 => table'[j].active > 0
      BY <1>3, <2>2, <2>4
    <3>2. QED
      BY <1>1, <2>2, <3>1 DEF Books
  <2>7. Books'
    BY <1>3, <1>6, <2>3, <2>5, <2>6, TableKeepsBooks
  <2>8. Servers'
    <3>1. DOMAIN candidates' \subseteq DOMAIN candidates \cup {i}
      <4>1. CASE Initialized(i)
        <5>1. candidates' = With(candidates, i, samplingOrder)
          BY <4>1 DEF Initialized
        <5>2. QED
          BY <5>1 DEF With
      <4>2. QED
        BY <1>9, <4>1
    <3>2. \A q \in Requests : req'[q].at = "refused" => req'[q] = req[q]
      BY <1>4
    <3>3. \A q \in Requests : req[q].at = "refused" => req'[q] = req[q]
      BY <1>3, <1>4
    <3>4. Open' = Open /\ bound' = bound /\ disposing' = disposing /\ stop' = stop /\ made' = made
      BY <1>3, <1>9, <2>2
    <3>5. {req'[q].sid : q \in {q \in Requests : req'[q].at = "refused"}}
            = {req[q].sid : q \in {q \in Requests : req[q].at = "refused"}}
      BY <3>2, <3>3
    <3>6. \A q \in Requests : req'[q].at = "refused" => req'[q].sid \in made \ Open
      BY <1>1, <3>2 DEF Servers
    <3>7. stop = "no" => DOMAIN candidates' \subseteq bound
      BY <1>1, <1>3, <3>1 DEF Servers
    <3>8. QED
      BY <1>1, <3>4, <3>5, <3>6, <3>7 DEF Servers
  <2>9. QED
    BY <2>1, <2>3, <2>7, <2>8 DEF HostInv
<1>10. QED
  BY <1>3, <1>8, <1>9 DEF Transport

LEMMA EndFields ==
  ASSUME HostTypes, NEW i, NEW b, b = EndRequest(table, i)
  PROVE  /\ DOMAIN b = Open /\ b \in [Open -> Slots]
         /\ \A j \in Open : b[j].lastUsed = table[j].lastUsed
         /\ \A j \in Open \ {i} : b[j] = table[j]
         /\ i \in Open /\ table[i].active > 0 => b[i].active = table[i].active - 1
<1>1. table \in [Open -> Slots]
  BY DEF HostTypes
<1>2. CASE i \in Open /\ table[i].active > 0
  <2>1. PICK u : u = table[i]
    OBVIOUS
  <2>2. PICK s : s = [u EXCEPT !.active = u.active - 1]
    OBVIOUS
  <2>3. u \in Slots /\ u.active > 0
    BY <1>1, <1>2, <2>1
  <2>4. s = [lastUsed |-> u.lastUsed, active |-> u.active - 1] /\ u.active \in Nat
    BY <2>2, <2>3 DEF Slots
  <2>5. s \in Slots /\ s.lastUsed = u.lastUsed /\ s.active = u.active - 1
    BY <2>3, <2>4 DEF Slots
  <2>6. b = [table EXCEPT ![i] = s]
    BY <1>2, <2>1, <2>2 DEF EndRequest, Open
  <2>7. QED
    BY <1>1, <1>2, <2>1, <2>5, <2>6
<1>3. CASE ~(i \in Open /\ table[i].active > 0)
  <2>1. b = table
    BY <1>3 DEF EndRequest, Open
  <2>2. QED
    BY <1>1, <1>3, <2>1
<1>4. QED
  BY <1>2, <1>3

LEMMA EndSteps ==
  ASSUME HostInv, NEW r \in Requests, Ends(r)
  PROVE  HostInv' /\ \A j \in Open \ Open' : Cardinality(InFlight(j)') = 0
<1> USE DEF guardVars, tableVars, targetVars
<1>1. HostTypes /\ Books /\ Servers /\ Greetings
  BY DEF HostInv
<1>2. PICK i : i = req[r].sid
  OBVIOUS
<1>3. /\ UNCHANGED <<launch, listening, now, bound, targetVars, boot, running, stop, made, greeted>>
      /\ Answered(r, 200) /\ req[r].at \in {"flight", "refused"}
  BY DEF Ends
<1>4. /\ req' \in [Requests -> RequestTypes] /\ req'[r].at = "none" /\ req'[r].sid = None
      /\ \A q \in Requests \ {r} : req'[q] = req[q]
  BY <1>1, <1>3, AnsweredFields
<1>5. now \in Nat /\ table \in [Open -> Slots] /\ Open \in SUBSET Ids /\ i \in made \cup {None}
  BY <1>1, <1>2 DEF HostTypes, Books
<1>6. \A q \in Requests : req'[q].sid \in made' \cup {None}
  BY <1>1, <1>3, <1>4 DEF Books
<1>7. PICK X : X = IF req[r].at = "refused" THEN {i} ELSE {}
  OBVIOUS
<1>8. PICK t : t = IF req[r].at = "refused" THEN table ELSE EndRequest(table, i)
  OBVIOUS
<1>9. /\ table' = Evicted(t, {}) /\ scopes' = scopes \cap Open'
      /\ disposing' = disposing \cup X \cup (bound \cap (Open \ Open'))
  <2>1. CASE req[r].at = "refused"
    BY <1>2, <1>7, <1>8, <2>1 DEF Ends, Open
  <2>2. CASE req[r].at # "refused"
    BY <1>2, <1>7, <1>8, <2>2 DEF Ends, Open, Release
  <2>3. QED
    BY <2>1, <2>2
<1>10. X \in SUBSET made /\ X \cap Open = {} /\ (req[r].at = "refused" => req[r].sid \in X)
  BY <1>1, <1>2, <1>7 DEF Servers
<1>11. /\ DOMAIN t = Open /\ t \in [Open -> Slots]
       /\ \A j \in Open : t[j].lastUsed <= now /\ t[j].active = Cardinality(InFlight(j)')
  <2>1. CASE req[r].at = "refused"
    <3>1. \A j : InFlight(j)' = InFlight(j)
      BY <1>4, <2>1, FlightsSame
    <3>2. QED
      BY <1>1, <1>5, <1>8, <2>1, <3>1 DEF Books, Open
  <2>2. CASE req[r].at # "refused"
    <3>1. /\ Cardinality(InFlight(i)) > 0
          /\ Cardinality(InFlight(i)') = Cardinality(InFlight(i)) - 1
          /\ \A j : j # i => InFlight(j)' = InFlight(j)
      BY <1>2, <1>3, <1>4, <2>2, FlightEnds
    <3>2. t = EndRequest(table, i)
      BY <1>8, <2>2
    <3>3. /\ DOMAIN t = Open /\ t \in [Open -> Slots]
          /\ \A j \in Open : t[j].lastUsed = table[j].lastUsed
          /\ \A j \in Open \ {i} : t[j] = table[j]
          /\ i \in Open /\ table[i].active > 0 => t[i].active = table[i].active - 1
      BY <1>1, <3>2, EndFields
    <3>4. QED
      BY <1>1, <3>1, <3>3 DEF Books
  <2>3. QED
    BY <2>1, <2>2
<1>12. PICK K : K = {}
  OBVIOUS
<1>13. /\ Open' \subseteq Open /\ table' \in [Open' -> Slots]
       /\ \A j \in Open' : table'[j] = t[j]
       /\ \A j \in Open \ Open' : t[j].active = 0
       /\ Cardinality(Open') > MaxSessions => \A j \in Open' \ K : table'[j].active > 0
  <2>1. PICK e : e = Evicted(t, K)
    OBVIOUS
  <2>2. /\ DOMAIN e \subseteq Open /\ e \in [DOMAIN e -> Slots]
        /\ \A j \in DOMAIN e : e[j] = t[j]
        /\ \A j \in Open \ DOMAIN e : t[j].active = 0
        /\ Cardinality(DOMAIN e) > MaxSessions => \A j \in DOMAIN e \ K : e[j].active > 0
    BY <1>5, <1>11, <2>1, EvictedFields
  <2>3. table' = e
    BY <1>9, <1>12, <2>1
  <2>4. QED
    BY <2>2, <2>3 DEF Open
<1>14. HostTypes' /\ Servers' /\ Greetings'
  BY <1>3, <1>4, <1>9, <1>10, <1>13, DropsKeepHost
<1>15. \A j \in Open' : table'[j].lastUsed <= now /\ table'[j].active = Cardinality(InFlight(j)')
  BY <1>11, <1>13
<1>16. Books'
  BY <1>3, <1>6, <1>12, <1>13, <1>14, <1>15, TableKeepsBooks
<1>17. QED
  BY <1>11, <1>13, <1>14, <1>16 DEF HostInv

\* A scope that is disposed of takes its candidate with it.
LEMMA DisposeSteps ==
  ASSUME HostInv, Dispose
  PROVE  HostInv'
<1> USE DEF guardVars, tableVars, targetVars
<1>1. HostTypes /\ Books /\ Servers /\ Greetings
  BY DEF HostInv
<1>2. PICK i \in disposing :
        /\ disposing' = disposing \ {i} /\ bound' = bound \ {i}
        /\ candidates' = Without(candidates, {i})
        /\ ApplySamplingTarget(candidates')
        /\ UNCHANGED <<launch, listening, req, now, table, scopes, samplingOrder, boot, running,
                       stop, made, greeted>>
  BY DEF Dispose
<1>3. /\ DOMAIN candidates' = DOMAIN candidates \ {i}
      /\ \A j \in DOMAIN candidates' : candidates'[j] = candidates[j]
  BY <1>2 DEF Without
<1>4. Open' = Open /\ \A j : InFlight(j)' = InFlight(j)
  BY <1>2 DEF Open, InFlight
<1>5. HostTypes'
  BY <1>1, <1>2, <1>4 DEF HostTypes, RequestTypes
<1>6. Books'
  BY <1>1, <1>2, <1>4 DEF Books
<1>7. Servers'
  BY <1>1, <1>2, <1>3, <1>4 DEF Servers
<1>8. target' = IF HooksListening' THEN PickSamplingTarget(candidates)' ELSE None
  <2>1. PickSamplingTarget(candidates)' = PickSamplingTarget(candidates')
    BY DEF PickSamplingTarget
  <2>2. HooksListening' <=> HooksListening
    BY <1>2 DEF HooksListening
  <2>3. QED
    BY <1>1, <1>2, <2>1, <2>2 DEF ApplySamplingTarget, Greetings
<1>9. "hooks" \in running' => HooksListening'
  BY <1>1, <1>2 DEF Greetings, HooksListening
<1>10. Greetings'
  BY <1>1, <1>2, <1>3, <1>8, <1>9 DEF Greetings
<1>11. QED
  BY <1>5, <1>6, <1>7, <1>10 DEF HostInv

LEMMA StartSteps ==
  ASSUME HostInv, StartMailboxWriters
  PROVE  HostInv'
<1> USE DEF guardVars, tableVars, targetVars
<1>1. HostTypes /\ Books /\ Servers /\ Greetings
  BY DEF HostInv
<1>2. /\ boot = "creating"
      /\ UNCHANGED <<launch, listening, req, now, table, scopes, disposing, bound, candidates,
                     samplingOrder, stop, made, greeted>>
      /\ \/ /\ CanWrite /\ target' = PickSamplingTarget(candidates) /\ boot' = "watcher"
            /\ running' = {"hooks", "scheduler", "watcher"}
         \/ ~CanWrite /\ boot' = "done" /\ UNCHANGED <<target, running>>
  BY DEF StartMailboxWriters
<1>3. Open' = Open /\ \A j : InFlight(j)' = InFlight(j)
  BY <1>2 DEF Open, InFlight
<1>4. HostTypes'
  BY <1>1, <1>2, <1>3 DEF HostTypes, RequestTypes
<1>5. Books' /\ Servers'
  BY <1>1, <1>2, <1>3 DEF Books, Servers
<1>6. PickSamplingTarget(candidates)' = PickSamplingTarget(candidates)
  BY <1>2 DEF PickSamplingTarget
<1>7. ~HooksListening
  BY <1>2 DEF HooksListening
<1>8. /\ target' = IF HooksListening' THEN PickSamplingTarget(candidates)' ELSE None
      /\ "hooks" \in running' => HooksListening'
  BY <1>1, <1>2, <1>6, <1>7 DEF HooksListening, Greetings
<1>9. Greetings'
  BY <1>1, <1>2, <1>8 DEF Greetings
<1>10. QED
  BY <1>4, <1>5, <1>9 DEF HostInv

LEMMA CloseSteps ==
  ASSUME HostInv, CloseSessions \/ DisposeScopes
  PROVE  HostInv'
<1> USE DEF guardVars, tableVars, targetVars
<1>1. HostTypes /\ Books /\ Servers /\ Greetings
  BY DEF HostInv
<1>2. /\ UNCHANGED <<launch, listening, req, now, bound, candidates, samplingOrder, target, boot,
                     running, made, greeted>>
      /\ stop' # "no"
  BY DEF CloseSessions, DisposeScopes
<1>3. \A j : InFlight(j)' = InFlight(j)
  BY <1>2 DEF InFlight
<1>4. CASE CloseSessions
  <2>1. table' = <<>> /\ Open' = {}
    BY <1>4 DEF CloseSessions, Release, Open
  <2>2. table' \in [Open' -> Slots] /\ Open' \subseteq Open
    BY <2>1
  <2>3. PICK X : X = {}
    OBVIOUS
  <2>4. /\ scopes' = scopes \cap Open'
        /\ disposing' = disposing \cup X \cup (bound \cap (Open \ Open'))
        /\ X \in SUBSET made /\ X \cap Open = {}
    BY <1>4, <2>1, <2>3 DEF CloseSessions, Release, Open
  <2>5. req' \in [Requests -> RequestTypes]
    BY <1>1, <1>2 DEF HostTypes
  <2>6. HostTypes' /\ Servers' /\ Greetings'
    BY <1>2, <2>2, <2>4, <2>5, DropsKeepHost
  <2>7. Books'
    BY <1>1, <1>2, <2>1 DEF Books
  <2>8. QED
    BY <2>6, <2>7 DEF HostInv
<1>5. CASE DisposeScopes
  <2>1. table' = table /\ scopes' = scopes /\ disposing = {} /\ disposing' = scopes \cap bound
    BY <1>5 DEF DisposeScopes
  <2>2. Open' = Open
    BY <2>1 DEF Open
  <2>3. HostTypes'
    BY <1>1, <1>2, <2>1, <2>2 DEF HostTypes, RequestTypes
  <2>4. Books'
    BY <1>1, <1>2, <1>3, <2>1, <2>2 DEF Books
  <2>5. Servers'
    BY <1>1, <1>2, <2>1, <2>2 DEF Servers
  <2>6. Greetings'
    BY <1>1, <1>2 DEF Greetings, HooksListening
  <2>7. QED
    BY <2>3, <2>4, <2>5, <2>6 DEF HostInv
<1>6. QED
  BY <1>4, <1>5

(***************************************************************************)
(* The theorems.                                                           *)
(***************************************************************************)

LEMMA InvInit ==
  ASSUME GuardInit, HostInit
  PROVE  HostInv
<1> USE DEF HostInit
<1>1. Open = {} /\ table \in [Open -> Slots]
  BY DEF Open
<1>2. NoRequest \in RequestTypes
  BY DEF NoRequest, RequestTypes
<1>3. HostTypes
  BY <1>1, <1>2 DEF HostTypes, GuardInit
<1>4. Books
  BY <1>1 DEF Books, NoRequest
<1>5. DOMAIN candidates = {}
  OBVIOUS
<1>6. Servers
  BY <1>1, <1>5 DEF Servers, NoRequest
<1>7. Greetings
  BY <1>5 DEF Greetings, HooksListening
<1>8. QED
  BY <1>3, <1>4, <1>6, <1>7 DEF HostInv

LEMMA InvStep ==
  ASSUME HostInv, [Next]_vars
  PROVE  HostInv'
<1>1. ASSUME NEW r \in Requests,
             Arrive(r) \/ BodyFails(r) \/ SessionNotFound(r) \/ BadRequest(r)
      PROVE  HostInv'
  BY <1>1, RequestSteps
<1>2. ASSUME NEW r \in Requests, OpenSession(r) \/ OpenFails(r) PROVE HostInv'
  BY <1>2, OpenSteps
<1>3. ASSUME NEW r \in Requests, HandleRequest(r) PROVE HostInv'
  BY <1>3, HandleSteps
<1>4. ASSUME NEW r \in Requests, Ends(r) PROVE HostInv'
  BY <1>4, EndSteps
<1>5. CASE Dispose
  BY <1>5, DisposeSteps
<1>6. CASE StartMailboxWriters
  BY <1>6, StartSteps
<1>7. CASE CloseSessions \/ DisposeScopes
  BY <1>7, CloseSteps
<1>8. CASE \/ GuardNext /\ UNCHANGED hostVars
           \/ Tick \/ TryCreateFails \/ WatcherStarted \/ StopWriters \/ CloseListener
           \/ UNCHANGED vars
  BY <1>8, HostSteps
<1>9. QED
  BY <1>1, <1>2, <1>3, <1>4, <1>5, <1>6, <1>7, <1>8 DEF Next

LEMMA SpecInv == Spec => []HostInv
<1>1. GuardInit /\ HostInit => HostInv
  BY InvInit
<1>2. HostInv /\ [Next]_vars => HostInv'
  BY InvStep
<1>3. QED
  BY <1>1, <1>2, PTL DEF Spec

\* The newest of the candidates that sample.
LEMMA NewestCandidate ==
  ASSUME HostInv, NEW S, S = DOMAIN candidates \cap SamplingIds, S # {}
  PROVE  /\ PickSamplingTarget(candidates) \in S
         /\ \A j \in S : candidates[j] <= candidates[PickSamplingTarget(candidates)]
<1>1. Greetings
  BY DEF HostInv
<1>2. \A j \in S : candidates[j] \in Nat /\ candidates[j] <= Len(greeted)
  BY <1>1 DEF Greetings
<1>3. PICK orders : orders = {candidates[j] : j \in S}
  OBVIOUS
<1>4. orders # {} /\ \A x \in orders : x \in Nat /\ x <= Len(greeted)
  BY <1>2, <1>3
<1>5. Len(greeted) \in Nat
  BY <1>1 DEF Greetings
<1>6. PICK m \in orders : \A x \in orders : x <= m
  BY <1>4, <1>5, Largest
<1>7. \E i \in S : \A j \in S : candidates[j] <= candidates[i]
  BY <1>3, <1>6
<1>8. PickSamplingTarget(candidates) = CHOOSE i \in S : \A j \in S : candidates[j] <= candidates[i]
  BY DEF PickSamplingTarget
<1>9. QED
  BY <1>7, <1>8

\* HttpTypeOK holds for every number of requests and sessions, whatever the limit
\* and the idle time: the table counts exactly the requests in flight, scopes and
\* table agree, and a table over its limit holds busy sessions only
\* (http-sessions.ts, evictExpired and evictLru).
THEOREM HttpTypeCorrect == Spec => []HttpTypeOK
<1>1. ASSUME HostInv PROVE HttpTypeOK
  <2>1. HostTypes /\ Books /\ Servers /\ Greetings
    BY <1>1 DEF HostInv
  <2>2. Cardinality(Open) > MaxSessions => \A i \in Open : InFlight(i) # {}
    <3>1. ASSUME Cardinality(Open) > MaxSessions, NEW i \in Open PROVE InFlight(i) # {}
      <4>1. Cardinality(InFlight(i)) > 0
        BY <2>1, <3>1 DEF Books
      <4>2. QED
        BY <4>1, Flights
    <3>2. QED
      BY <3>1
  <2>3. \A i \in Open : table[i] = [lastUsed |-> table[i].lastUsed,
                                    active |-> Cardinality(InFlight(i))]
    BY <2>1 DEF HostTypes, Books, Slots
  <2>4. target \in SamplingIds \cup {None}
    <3>1. PICK S : S = DOMAIN candidates \cap SamplingIds
      OBVIOUS
    <3>2. CASE S = {}
      BY <2>1, <3>1, <3>2 DEF Greetings, PickSamplingTarget
    <3>3. CASE S # {}
      BY <1>1, <2>1, <3>1, <3>3, NewestCandidate DEF Greetings
    <3>4. QED
      BY <3>2, <3>3
  <2>5. QED
    BY <2>1, <2>2, <2>3, <2>4 DEF HttpTypeOK, HostTypes, Servers
<1>2. QED
  BY <1>1, SpecInv, PTL

\* Whatever clients come, sample or go, and in whatever order their scopes are
\* disposed of: hooks sample on the client that finished its handshake last, of
\* those that can and still have a session (http-mcp-host.ts, pickSamplingTarget).
THEOREM NewestSamples == Spec => []NewestClientSamples
<1>1. ASSUME HostInv PROVE NewestClientSamples
  <2> PICK live : live = {n \in DOMAIN greeted : greeted[n] \in SamplingIds \cap bound}
    OBVIOUS
  <2> PICK S : S = DOMAIN candidates \cap SamplingIds
    OBVIOUS
  <2>1. SUFFICES ASSUME "hooks" \in running, stop = "no"
                 PROVE  target = IF live = {} THEN None
                                 ELSE greeted[CHOOSE n \in live : \A m \in live : m <= n]
    BY DEF NewestClientSamples
  <2>2. HostTypes /\ Servers /\ Greetings
    BY <1>1 DEF HostInv
  <2>3. target = PickSamplingTarget(candidates)
    BY <2>1, <2>2 DEF Greetings
  <2>4. /\ greeted \in Seq(Ids) /\ DOMAIN greeted \subseteq Nat
        /\ \A i \in DOMAIN candidates :
             /\ candidates[i] \in Nat /\ candidates[i] + 1 \in DOMAIN greeted
             /\ greeted[candidates[i] + 1] = i
             /\ \A n \in DOMAIN greeted : greeted[n] = i => n <= candidates[i] + 1
    BY <2>2 DEF Greetings
  <2>5. \A i \in S : candidates[i] + 1 \in live
    BY <2>1, <2>2, <2>4 DEF Servers
  <2>6. \A n \in live : greeted[n] \in S
    BY <2>2 DEF Greetings
  <2>7. CASE live = {}
    BY <2>3, <2>5, <2>7 DEF PickSamplingTarget
  <2>8. CASE live # {}
    <3>1. S # {}
      BY <2>6, <2>8
    <3>2. target \in S /\ \A j \in S : candidates[j] <= candidates[target]
      BY <1>1, <2>3, <3>1, NewestCandidate
    <3>3. PICK last : last = candidates[target] + 1
      OBVIOUS
    <3>4. last \in live /\ greeted[last] = target
      BY <2>4, <2>5, <3>2, <3>3
    <3>5. ASSUME NEW m \in live PROVE m <= last
      <4>1. PICK j : j = greeted[m]
        OBVIOUS
      <4>2. /\ j \in S /\ m <= candidates[j] + 1 /\ candidates[j] <= candidates[target]
            /\ m \in Nat /\ candidates[j] \in Nat /\ candidates[target] \in Nat
        BY <2>4, <2>6, <3>2, <4>1
      <4>3. QED
        BY <3>3, <4>2
    <3>6. PICK n : n = CHOOSE x \in live : \A y \in live : y <= x
      OBVIOUS
    <3>7. n \in live /\ \A m \in live : m <= n
      BY <3>4, <3>5, <3>6
    <3>8. n = last
      BY <2>4, <3>4, <3>5, <3>7
    <3>9. QED
      BY <2>8, <3>4, <3>6, <3>8
  <2>9. QED
    BY <2>7, <2>8
<1>2. QED
  BY <1>1, SpecInv, PTL

\* Neither the idle time nor the limit ever drops a session that has a request in
\* flight, whichever session's request runs the eviction: only a client's own
\* DELETE or the shutdown does (http-sessions.ts, evictExpired and evictLru).
THEOREM BusyNeverDropped == Spec => NeverDroppedBusy
<1>1. ASSUME HostInv, [Next]_vars, NEW i \in Dropped PROVE InFlight(i)' = {}
  <2> USE DEF tableVars, hostVars, vars
  <2>1. i \in Open \ Open' /\ ~Deletes(i) /\ stop' = stop
    BY <1>1 DEF Dropped, Open
  <2>2. SUFFICES Cardinality(InFlight(i)') = 0
    <3>1. PICK F : F = InFlight(i)'
      OBVIOUS
    <3>2. F \in SUBSET Requests
      BY <3>1 DEF InFlight
    <3>3. IsFiniteSet(F)
      BY <3>2, HostConstants, FS_Subset
    <3>4. QED
      BY <2>2, <3>1, <3>3, FS_EmptySet
  <2>3. table' # table
    BY <2>1 DEF Open
  <2>4. ~CloseSessions
    BY <2>1 DEF CloseSessions
  <2>5. PICK r \in Requests : OpenSession(r) \/ HandleRequest(r) \/ Ends(r)
    BY <1>1, <2>3, <2>4 DEF Next, Arrive, BodyFails, SessionNotFound, BadRequest, OpenFails,
       Dispose, Tick, StartMailboxWriters, TryCreateFails, WatcherStarted, StopWriters,
       DisposeScopes, CloseListener
  <2>6. CASE OpenSession(r)
    BY <1>1, <2>1, <2>6, OpenSteps
  <2>7. CASE Ends(r)
    BY <1>1, <2>1, <2>7, EndSteps
  <2>8. CASE HandleRequest(r)
    <3>1. req[r].at = "body" /\ req[r].sid \in Open /\ Put(r, "flight", req[r].sid)
      BY <2>8 DEF HandleRequest, Ready
    <3>2. HostTypes
      BY <1>1 DEF HostInv
    <3>3. req'[r].at = "flight"
      BY <3>1, <3>2, PutFields DEF HostTypes
    <3>4. CASE req[r].ask.kind = "delete"
      <4>1. Open' = Open \ {req[r].sid}
        BY <2>8, <3>4 DEF HandleRequest, Transport, Release, Without, Open
      <4>2. QED
        BY <2>1, <3>1, <3>3, <3>4, <4>1 DEF Deletes
    <3>5. CASE req[r].ask.kind # "delete"
      <4>1. table' = BeginRequest(table, req[r].sid)
        BY <2>8, <3>5 DEF HandleRequest, Transport
      <4>2. QED
        BY <2>1, <4>1 DEF BeginRequest, Open
    <3>6. QED
      BY <3>4, <3>5
  <2>9. QED
    BY <2>5, <2>6, <2>7, <2>8
<1>2. ASSUME HostInv, [Next]_vars PROVE [\A i \in Dropped : InFlight(i)' = {}]_vars
  BY <1>1, <1>2
<1>3. QED
  BY <1>2, SpecInv, PTL DEF Spec, NeverDroppedBusy

(***************************************************************************)
(* The guard and the listener.                                             *)
(***************************************************************************)

\* A policy the launch was not refused for.
SoundPolicy ==
  /\ policy \in [hosts : Seq(BindHosts), port : Nat, token : {None, launch.token},
                 allowedHostnames : SUBSET Hostnames, portAgnosticHostnames : SUBSET Hostnames]
  /\ policy.hosts # <<>>
  /\ \A n \in DOMAIN policy.hosts :
       /\ \/ IsWildcardBind(policy.hosts[n])
          \/ HostnameKey(policy.hosts[n]) \in policy.allowedHostnames
       /\ IsLoopbackBindHost(policy.hosts[n]) \/ policy.token # None

Sockets == [host : BindHosts, port : Nat \ {0}]
BoundTo(h) == \E n \in DOMAIN policy.hosts : policy.hosts[n] = h

Listeners ==
  /\ unbound \in Seq(BindHosts) /\ \A n \in DOMAIN unbound : BoundTo(unbound[n])
  /\ sockets \in Seq(Sockets)
  /\ \A n \in DOMAIN sockets : BoundTo(sockets[n].host) /\ sockets[n].port = policy.port

GuardInv ==
  /\ launch \in Launches
  /\ IF listening \in {"no", "refused"}
       THEN sockets = <<>> /\ \A r \in Requests : req[r].at = "none"
       ELSE SoundPolicy /\ Listeners
  /\ listening = "failed" => sockets = <<>>
  /\ \A r \in Requests : req[r].at # "none" => BearerAuthorizationMatches(req[r].ask.head.bearer)

\* resolveHttpListen: what a launch that is not refused listens by.
LEMMA Resolved ==
  ASSUME launch \in Launches, NEW p, p = ResolveHttpListen(launch), p # None
  PROVE  /\ p \in [hosts : Seq(BindHosts), port : Nat, token : {None, launch.token},
                   allowedHostnames : SUBSET Hostnames, portAgnosticHostnames : SUBSET Hostnames]
         /\ p.hosts # <<>>
         /\ \A n \in DOMAIN p.hosts :
              /\ \/ IsWildcardBind(p.hosts[n])
                 \/ HostnameKey(p.hosts[n]) \in p.allowedHostnames
              /\ IsLoopbackBindHost(p.hosts[n]) \/ p.token # None
<1> DEFINE hosts == IF launch.host = None THEN LoopbackBindHosts ELSE <<BindHost(launch.host)>>
           served == {hosts[i] : i \in DOMAIN hosts}
           token == NormalizeToken(launch.token)
           exposed == {h \in served : ~IsLoopbackBindHost(h)}
           listed == {HostnameKey(h) : h \in launch.allowed}
           public == {h \in listed : ~IsLoopbackBindHost(h)}
           specific == {HostnameKey(h) : h \in {h \in exposed : ~IsWildcardBind(h)}}
           allowed == (IF exposed = {} THEN LoopbackHostHeaders ELSE {})
                        \cup {HostnameKey(h) : h \in served \ {h \in served : IsWildcardBind(h)}}
                        \cup listed
<1>1. launch.port \in Nat
  BY LaunchOptions
<1>2. hosts \in Seq(BindHosts) /\ hosts # <<>>
  <2>1. CASE launch.host = None
    <3>1. hosts = <<"127.0.0.1", "::1">>
      BY <2>1 DEF LoopbackBindHosts
    <3>2. "127.0.0.1" \in BindHosts /\ "::1" \in BindHosts
      BY DEF BindHosts, LoopbackBindHosts
    <3>3. \A a, b \in BindHosts : <<a, b>> \in Seq(BindHosts) /\ <<a, b>> # <<>>
      OBVIOUS
    <3>4. QED
      BY <3>1, <3>2, <3>3
  <2>2. CASE launch.host # None
    <3>1. BindHost(launch.host) \in BindHosts
      BY DEF BindHosts
    <3>2. QED
      BY <2>2, <3>1
  <2>3. QED
    BY <2>1, <2>2
<1>3. /\ p = [hosts |-> hosts, port |-> launch.port, token |-> token,
              allowedHostnames |-> allowed, portAgnosticHostnames |-> specific \cup listed]
      /\ ~(exposed \cup public # {} /\ token = None)
  BY DEF ResolveHttpListen
<1>4. token \in {None, launch.token}
  BY DEF NormalizeToken
<1> HIDE DEF hosts, token
<1>5. served \subseteq BindHosts
  BY <1>2
<1>6. \A n \in DOMAIN hosts : hosts[n] \in served
  OBVIOUS
<1> HIDE DEF served
<1>7. listed \subseteq Hostnames /\ specific \subseteq Hostnames /\ allowed \subseteq Hostnames
  <2>1. launch.allowed \subseteq UNION {options.allowed : options \in Launches}
    OBVIOUS
  <2>2. \A h \in BindHosts \cup launch.allowed : HostnameKey(h) \in Hostnames
    BY <2>1 DEF Hostnames
  <2>3. LoopbackHostHeaders \subseteq Hostnames
    BY DEF Hostnames
  <2>4. QED
    BY <1>5, <2>2, <2>3
<1>8. \A h \in served : /\ IsWildcardBind(h) \/ HostnameKey(h) \in allowed
                        /\ IsLoopbackBindHost(h) \/ token # None
  BY <1>3
<1> HIDE DEF listed, specific, allowed, exposed, public
<1>9. QED
  BY <1>1, <1>2, <1>3, <1>4, <1>6, <1>7, <1>8

LEMMA GuardStart ==
  ASSUME GuardInit, HostInit
  PROVE  GuardInv
BY DEF GuardInit, HostInit, GuardInv, NoRequest

\* The listener opens and closes its sockets.
LEMMA ListenerSteps ==
  ASSUME GuardInv, GuardNext, UNCHANGED hostVars
  PROVE  GuardInv'
<1> USE DEF hostVars
<1>1. launch' = launch /\ req' = req /\ launch \in Launches
  BY DEF GuardNext, ReadHttpLaunchOptions, ListenOn, ListenFails, CloseServers, Up, GuardInv
<1>2. CASE ReadHttpLaunchOptions
  <2>1. /\ listening = "no" /\ sockets = <<>> /\ sockets' = <<>>
        /\ \A r \in Requests : req[r].at = "none"
        /\ policy' = ResolveHttpListen(launch)
    BY <1>2 DEF ReadHttpLaunchOptions, GuardInv
  <2>2. CASE policy' = None
    <3>1. listening' = "refused"
      BY <1>2, <2>2 DEF ReadHttpLaunchOptions
    <3>2. QED
      BY <1>1, <2>1, <3>1 DEF GuardInv
  <2>3. CASE policy' # None
    <3>1. listening' = "binding" /\ unbound' = policy'.hosts
      BY <1>2, <2>3 DEF ReadHttpLaunchOptions
    <3>2. SoundPolicy'
      BY <1>1, <2>1, <2>3, Resolved DEF SoundPolicy
    <3>3. Listeners'
      BY <2>1, <3>1, <3>2 DEF Listeners, SoundPolicy, BoundTo
    <3>4. QED
      BY <1>1, <2>1, <3>1, <3>2, <3>3 DEF GuardInv
  <2>4. QED
    BY <2>2, <2>3
<1>3. CASE ListenOn
  <2>1. listening = "binding" /\ listening' = "binding" /\ SoundPolicy /\ Listeners
    BY <1>3 DEF ListenOn, GuardInv
  <2>2. PICK port : port = IF policy.port = 0 THEN EphemeralPort ELSE policy.port
    OBVIOUS
  <2>3. port \in Nat \ {0} /\ (policy.port # 0 => port = policy.port)
    <3>1. policy.port \in Nat
      BY <2>1 DEF SoundPolicy
    <3>2. EphemeralPort \in Nat \ {0}
      BY ONLY GuardConstants
    <3>3. QED
      BY <2>2, <3>1, <3>2
  <2>4. /\ policy' = [policy EXCEPT !.port = port]
        /\ sockets' = Append(sockets, [host |-> Head(unbound), port |-> port])
        /\ unbound' = Tail(unbound) /\ unbound # <<>>
    BY <1>3, <2>2 DEF ListenOn
  <2>5. /\ policy'.hosts = policy.hosts /\ policy'.token = policy.token /\ policy'.port = port
        /\ policy'.allowedHostnames = policy.allowedHostnames
    BY <2>1, <2>4 DEF SoundPolicy
  <2>6. SoundPolicy'
    BY <1>1, <2>1, <2>3, <2>4, <2>5 DEF SoundPolicy
  <2>7. Listeners'
    <3>1. \A h : BoundTo(h)' <=> BoundTo(h)
      BY <2>5 DEF BoundTo
    <3>2. unbound' \in Seq(BindHosts) /\ \A n \in DOMAIN unbound' : BoundTo(unbound'[n])
      BY <2>1, <2>4 DEF Listeners
    <3>3. PICK s : s = [host |-> Head(unbound), port |-> port]
      OBVIOUS
    <3>4. s \in Sockets /\ s.port = port /\ BoundTo(s.host)
      <4>1. Head(unbound) \in BindHosts /\ BoundTo(Head(unbound))
        BY <2>1, <2>4 DEF Listeners
      <4>2. QED
        BY <2>3, <3>3, <4>1 DEF Sockets
    <3>5. /\ sockets' = Append(sockets, s) /\ sockets' \in Seq(Sockets)
          /\ \A n \in DOMAIN sockets' : \/ n \in DOMAIN sockets /\ sockets'[n] = sockets[n]
                                        \/ sockets'[n] = s
      BY <2>1, <2>4, <3>3, <3>4 DEF Listeners
    <3>6. \A n \in DOMAIN sockets : BoundTo(sockets[n].host) /\ sockets[n].port = port
      <4>1. ASSUME NEW n \in DOMAIN sockets PROVE BoundTo(sockets[n].host) /\ sockets[n].port = port
        <5>1. /\ sockets[n] \in Sockets
              /\ BoundTo(sockets[n].host) /\ sockets[n].port = policy.port
          BY <2>1 DEF Listeners
        <5>2. sockets[n].port # 0
          BY <5>1 DEF Sockets
        <5>3. QED
          BY <2>3, <5>1, <5>2
      <4>2. QED
        BY <4>1
    <3>7. \A n \in DOMAIN sockets' : BoundTo(sockets'[n].host) /\ sockets'[n].port = port
      BY <3>4, <3>5, <3>6
    <3>8. QED
      BY <2>5, <3>1, <3>2, <3>5, <3>7 DEF Listeners
  <2>8. QED
    BY <1>1, <2>1, <2>5, <2>6, <2>7 DEF GuardInv, BearerAuthorizationMatches
<1>4. CASE ListenFails \/ Up
  <2>1. /\ listening = "binding" /\ listening' \in {"binding", "failing", "up"}
        /\ UNCHANGED <<policy, sockets>>
        /\ \/ unbound' = unbound
           \/ unbound' = Tail(unbound) /\ unbound # <<>>
    <3>1. CASE ListenFails
      <4>1. \/ unbound' = Tail(unbound) /\ unbound # <<>> /\ listening' = listening
            \/ unbound' = unbound /\ listening' = "failing"
        BY <3>1, Zenon DEF ListenFails
      <4>2. listening = "binding" /\ UNCHANGED <<policy, sockets>>
        BY <3>1 DEF ListenFails
      <4>3. QED
        BY <4>1, <4>2
    <3>2. CASE Up
      BY <3>2 DEF Up
    <3>3. QED
      BY <1>4, <3>1, <3>2
  <2>2. SoundPolicy /\ Listeners
    BY <2>1 DEF GuardInv
  <2>3. SoundPolicy'
    BY <1>1, <2>1, <2>2 DEF SoundPolicy
  <2>4. unbound' \in Seq(BindHosts) /\ \A n \in DOMAIN unbound' : BoundTo(unbound'[n])
    <3>1. unbound \in Seq(BindHosts) /\ \A n \in DOMAIN unbound : BoundTo(unbound[n])
      BY <2>2 DEF Listeners
    <3>2. CASE unbound' = unbound
      BY <3>1, <3>2
    <3>3. CASE unbound' = Tail(unbound) /\ unbound # <<>>
      <4>1. PICK u : u = Tail(unbound)
        OBVIOUS
      <4>2. u \in Seq(BindHosts) /\ \A n \in DOMAIN u : n + 1 \in DOMAIN unbound /\ u[n] = unbound[n + 1]
        BY <3>1, <3>3, <4>1
      <4>3. QED
        BY <3>1, <3>3, <4>1, <4>2
    <3>4. QED
      BY <2>1, <3>2, <3>3
  <2>5. Listeners'
    BY <2>1, <2>2, <2>4 DEF Listeners, BoundTo
  <2>6. QED
    BY <1>1, <2>1, <2>3, <2>5 DEF GuardInv, BearerAuthorizationMatches
<1>5. CASE CloseServers
  <2>1. /\ listening = "failing" /\ listening' = "failed" /\ sockets' = <<>>
        /\ UNCHANGED <<policy, unbound>>
    BY <1>5 DEF CloseServers
  <2>2. SoundPolicy /\ Listeners
    BY <2>1 DEF GuardInv
  <2>3. SoundPolicy' /\ Listeners'
    BY <1>1, <2>1, <2>2 DEF SoundPolicy, Listeners, BoundTo
  <2>4. QED
    BY <1>1, <2>1, <2>3 DEF GuardInv, BearerAuthorizationMatches
<1>6. QED
  BY <1>2, <1>3, <1>4, <1>5 DEF GuardNext

\* The guard admits nobody without the token of the policy.
LEMMA AdmittedHasToken ==
  ASSUME NEW head, EvaluateHttpAccess(head) = 0
  PROVE  BearerAuthorizationMatches(head.bearer)
BY DEF EvaluateHttpAccess

LEMMA RequestsKeepGuard ==
  ASSUME GuardInv, UNCHANGED guardVars,
         \A q \in Requests :
           \/ req'[q] = req[q]
           \/ req'[q].at = "none"
           \/ /\ listening \notin {"no", "refused"}
              /\ BearerAuthorizationMatches(req'[q].ask.head.bearer)
  PROVE  GuardInv'
<1> USE DEF guardVars
<1>1. SoundPolicy' <=> SoundPolicy
  BY DEF SoundPolicy
<1>2. Listeners' <=> Listeners
  BY DEF Listeners, BoundTo
<1>3. \A bearer : BearerAuthorizationMatches(bearer)' <=> BearerAuthorizationMatches(bearer)
  BY DEF BearerAuthorizationMatches
<1>4. \A q \in Requests :
        req'[q].at # "none" => BearerAuthorizationMatches(req'[q].ask.head.bearer)
  BY DEF GuardInv
<1>5. QED
  BY <1>1, <1>2, <1>4 DEF GuardInv, BearerAuthorizationMatches

LEMMA GuardStep ==
  ASSUME HostTypes, GuardInv, [Next]_vars
  PROVE  GuardInv'
<1>1. CASE GuardNext /\ UNCHANGED hostVars
  BY <1>1, ListenerSteps
<1>2. CASE CloseListener
  <2>1. UNCHANGED <<launch, policy, unbound, listening, req>> /\ sockets' = <<>>
    BY <1>2 DEF CloseListener
  <2>2. Listeners => Listeners'
    BY <2>1 DEF Listeners, BoundTo
  <2>3. QED
    BY <2>1, <2>2 DEF GuardInv, SoundPolicy, BearerAuthorizationMatches
<1>3. ASSUME NEW r \in Requests, Arrive(r) PROVE GuardInv'
  <2>1. UNCHANGED guardVars /\ sockets # <<>>
    BY <1>3 DEF Arrive
  <2>2. listening \notin {"no", "refused"}
    BY <2>1 DEF GuardInv
  <2>3. PICK ask \in Asked(launch), sid \in made \cup {None} :
          LET status == EvaluateHttpAccess(ask.head)
              route == ResolveHttpRoute(ask.head)
              handler == [at |-> "body", ask |-> ask, sid |-> sid]
          IN CASE status # 0 -> Answered(r, status)
               [] route = "method" -> Answered(r, 405)
               [] route = "missing" -> Answered(r, 404)
               [] route = "health" -> Answered(r, 200)
               [] OTHER -> req' = [req EXCEPT ![r] = handler]
    BY <1>3 DEF Arrive
  <2>4. CASE \E status : Answered(r, status)
    <3>1. \A q \in Requests : req'[q] = req[q] \/ req'[q].at = "none"
      BY <2>4, AnsweredFields
    <3>2. QED
      BY <2>1, <3>1, RequestsKeepGuard
  <2>5. CASE \A status : ~Answered(r, status)
    <3>1. /\ EvaluateHttpAccess(ask.head) = 0
          /\ req' = [req EXCEPT ![r] = [at |-> "body", ask |-> ask, sid |-> sid]]
      BY <2>3, <2>5
    <3>2. BearerAuthorizationMatches(ask.head.bearer)
      BY <3>1, AdmittedHasToken
    <3>3. \A q \in Requests : \/ req'[q] = req[q]
                              \/ BearerAuthorizationMatches(req'[q].ask.head.bearer)
      BY <3>1, <3>2 DEF HostTypes
    <3>4. QED
      BY <2>1, <2>2, <3>3, RequestsKeepGuard
  <2>6. QED
    BY <2>4, <2>5
<1>4. ASSUME NEW r \in Requests,
             \/ BodyFails(r) \/ SessionNotFound(r) \/ BadRequest(r)
             \/ OpenSession(r) \/ OpenFails(r) \/ HandleRequest(r) \/ Ends(r)
      PROVE  GuardInv'
  <2>1. UNCHANGED guardVars /\ req[r].at # "none"
    BY <1>4 DEF BodyFails, SessionNotFound, BadRequest, OpenSession, OpenFails, HandleRequest,
       Ends, Ready
  <2>2. CASE \E status : Answered(r, status)
    <3>1. \A q \in Requests : req'[q] = req[q] \/ req'[q].at = "none"
      BY <2>2, AnsweredFields
    <3>2. QED
      BY <2>1, <3>1, RequestsKeepGuard
  <2>3. CASE \E at, i : Put(r, at, i)
    <3>1. \A q \in Requests : req'[q] = req[q] \/ (q = r /\ req'[q].ask = req[q].ask)
      BY <2>3 DEF Put, HostTypes, RequestTypes
    <3>2. BearerAuthorizationMatches(req[r].ask.head.bearer) /\ listening \notin {"no", "refused"}
      BY <2>1 DEF GuardInv
    <3>3. QED
      BY <2>1, <3>1, <3>2, RequestsKeepGuard
  <2>4. (\E status : Answered(r, status)) \/ (\E at, i : Put(r, at, i))
    <3>1. BodyFails(r) \/ SessionNotFound(r) \/ BadRequest(r) \/ OpenFails(r) \/ Ends(r)
            => \E status : Answered(r, status)
      BY DEF BodyFails, SessionNotFound, BadRequest, OpenFails, Ends
    <3>2. HandleRequest(r) => \E at, i : Put(r, at, i)
      BY DEF HandleRequest
    <3>3. OpenSession(r) => \E at, i : Put(r, at, i)
      BY DEF OpenSession
    <3>4. QED
      BY <1>4, <3>1, <3>2, <3>3
  <2>5. QED
    BY <2>2, <2>3, <2>4
<1>5. CASE \/ Dispose \/ Tick \/ StartMailboxWriters \/ TryCreateFails \/ WatcherStarted
           \/ CloseSessions \/ StopWriters \/ DisposeScopes \/ UNCHANGED vars
  <2>1. UNCHANGED guardVars /\ req' = req
    BY <1>5 DEF Dispose, Tick, StartMailboxWriters, TryCreateFails, WatcherStarted, CloseSessions,
       StopWriters, DisposeScopes, vars, hostVars
  <2>2. QED
    BY <2>1, RequestsKeepGuard
<1>6. QED
  BY <1>1, <1>2, <1>3, <1>4, <1>5 DEF Next

\* Whatever the launch options: a process reachable from other machines takes no
\* request without its token, all sockets share one port whichever of them chose it,
\* and an address the server listens on passes its own guard (http-transport.ts,
\* resolveHttpListen, startGuardedHttpServers and evaluateHttpAccess).
THEOREM Admission == Spec => []AdmittedAsAllowed
<1>1. ASSUME GuardInv PROVE AdmittedAsAllowed
  <2>1. ASSUME NEW r \in Requests, req[r].at \in {"body", "flight", "refused"},
               policy.hosts # LoopbackBindHosts, ~IsLoopbackBindHost(policy.hosts[1])
        PROVE  req[r].ask.head.bearer = launch.token
    <3>1. SoundPolicy /\ BearerAuthorizationMatches(req[r].ask.head.bearer)
      BY <1>1, <2>1 DEF GuardInv
    <3>2. 1 \in DOMAIN policy.hosts
      BY <3>1 DEF SoundPolicy
    <3>3. policy.token # None /\ policy.token \in {None, launch.token}
      BY <2>1, <3>1, <3>2 DEF SoundPolicy
    <3>4. QED
      BY <3>1, <3>3 DEF BearerAuthorizationMatches
  <2>2. \A n \in DOMAIN sockets : SoundPolicy /\ Listeners
    BY <1>1 DEF GuardInv
  <2>3. \A m, n \in DOMAIN sockets : sockets[m].port = sockets[n].port
    BY <2>2 DEF Listeners
  <2>4. ASSUME NEW n \in DOMAIN sockets, ~IsWildcardBind(sockets[n].host)
        PROVE  EvaluateHttpAccess(
                 [method |-> "POST", path |-> "/mcp", origin |-> None, site |-> "none",
                  length |-> "fits", type |-> "json", bearer |-> policy.token,
                  host |-> [scheme |-> "http", name |-> HostnameKey(sockets[n].host),
                            port |-> IF sockets[n].port = 80 THEN None ELSE sockets[n].port]]) = 0
    <3>1. PICK port : port = IF sockets[n].port = 80 THEN None ELSE sockets[n].port
      OBVIOUS
    <3>2. PICK name : name = HostnameKey(sockets[n].host)
      OBVIOUS
    <3>3. PICK url : url = [scheme |-> "http", name |-> name, port |-> port]
      OBVIOUS
    <3>4. SoundPolicy /\ Listeners
      BY <2>2
    <3>5. PICK h \in DOMAIN policy.hosts : policy.hosts[h] = sockets[n].host
      BY <3>4 DEF Listeners, BoundTo
    <3>6. name \in policy.allowedHostnames /\ policy.allowedHostnames \subseteq Hostnames
      BY <2>4, <3>2, <3>4, <3>5 DEF SoundPolicy
    <3>7. sockets[n].port \in Nat /\ sockets[n].port = policy.port
      <4>1. sockets[n] \in Sockets
        BY <3>4 DEF Listeners
      <4>2. QED
        BY <3>4, <4>1 DEF Listeners, Sockets
    <3>8. url \notin {None, Twice, Bad}
      BY <3>1, <3>3, <3>6, <3>7, LaunchOptions
    <3>9. HeaderPort(url) = policy.port
      BY <3>1, <3>3, <3>7, LaunchOptions DEF HeaderPort
    <3>10. HostDecision(url)
      BY <3>3, <3>6, <3>8, <3>9 DEF HostDecision, RequestHostAllowed
    <3>11. "POST" \in Methods /\ "/mcp" \in DOMAIN RouteMethods
      BY DEF Methods, RouteMethods
    <3>12. PICK head : head = [method |-> "POST", path |-> "/mcp", origin |-> None,
                               site |-> "none", length |-> "fits", type |-> "json",
                               bearer |-> policy.token, host |-> url]
      OBVIOUS
    <3>13. EvaluateHttpAccess(head) = 0
      <4>1. head.method \in Methods /\ head.method = "POST"
        BY <3>11, <3>12
      <4>2. HostDecision(head.host) /\ OriginDecision(head.origin)
        BY <3>10, <3>12 DEF OriginDecision
      <4>3. SecFetchDecision(head.site) /\ head.length = "fits" /\ head.type = "json"
        BY <3>12 DEF SecFetchDecision
      <4>4. BearerAuthorizationMatches(head.bearer)
        BY <3>12 DEF BearerAuthorizationMatches
      <4>5. QED
        BY <4>1, <4>2, <4>3, <4>4 DEF EvaluateHttpAccess
    <3>14. QED
      BY <3>1, <3>2, <3>3, <3>12, <3>13
  <2>5. listening = "failed" => sockets = <<>>
    BY <1>1 DEF GuardInv
  <2>6. QED
    BY <2>1, <2>3, <2>4, <2>5 DEF AdmittedAsAllowed
<1>2. GuardInit /\ HostInit => GuardInv
  BY GuardStart
<1>3. HostInv /\ GuardInv /\ [Next]_vars => GuardInv'
  BY GuardStep DEF HostInv
<1>4. QED
  BY <1>1, <1>2, <1>3, SpecInv, PTL DEF Spec
=============================================================================
