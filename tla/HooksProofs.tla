----------------------------- MODULE HooksProofs -----------------------------
(***************************************************************************)
(* The handling of new mail, for any emails, rules and limits: what is     *)
(* taken from the queue is handled in full, a message is classified once,  *)
(* and a test notification puts the alert settings back.                   *)
(***************************************************************************)
EXTENDS Hooks, FiniteSetTheorems, WellFoundedInduction, TLAPS

(***************************************************************************)
(* The invariant, in parts.                                                *)
(***************************************************************************)

Fates == {"new", "queued", "skipped", "dropped", "taken"}
Stages == {"idle", "rules", "arrival", "sampling", "batch"}
AllSteps == Range(Steps) \cup {"classify", "add", "mark"}

HookTypes ==
  /\ queue \in Seq(Emails) /\ IsInjective(queue) /\ Len(queue) <= MaxPending
  /\ handle \in {"none", "pending", "fired"} /\ stage \in Stages
  /\ rate \in 0..MaxSampling
  /\ seen \in Seq(Keys) /\ IsInjective(seen) /\ Len(seen) <= SeenLimit
  /\ rest \in Seq(Emails) /\ IsInjective(rest)
  /\ work \in [Emails -> Seq(AllSteps)]
  /\ fate \in [Emails -> Fates]
  /\ asked \in [Emails -> SUBSET Range(Steps)] /\ did \in [Emails -> SUBSET AllSteps]
  /\ alerted \in [Emails -> Nat] /\ classified \in [Keys -> Nat]
  /\ \A e \in Emails : fate[e] = "queued" <=> e \in Range(queue)

\* A classification is followed by the alert; the calendar steps come last.
Shape(w) ==
  /\ IsInjective(w)
  /\ \A i \in DOMAIN w : /\ w[i] \in {"event", "add", "mark"} => i = Len(w)
                         /\ w[i] = "classify" => w = <<"classify", "alert">>

\* The flush has e, and has not decided what to do with it.
Awaits(e) == e \in Range(rest) /\ stage \in {"rules", "arrival", "sampling"}

\* What was asked for e is done or is in its work; no alert is lost or doubled.
EmailOK(e) ==
  /\ Shape(work[e])
  /\ fate[e] # "taken" => work[e] = <<>> /\ alerted[e] = 0 /\ e \notin Range(rest)
  /\ Awaits(e) => work[e] = <<>> /\ alerted[e] = 0 /\ asked[e] = {"alert"}
  /\ fate[e] = "taken" /\ ~Awaits(e) =>
       /\ asked[e] \subseteq did[e] \cup Range(work[e])
       /\ alerted[e] = IF "alert" \in Range(work[e]) THEN 0 ELSE 1

\* A flush ends, and asks the client, only when no step is left.
StageOK ==
  /\ stage = "idle" => rest = <<>>
  /\ stage \in {"idle", "sampling"} => Quiet

HandledInv == StageOK /\ \A e \in Emails : EmailOK(e)

\* The key of a message is remembered from before its one classification on.
Asks(e) == "classify" \in Range(work[e])
ClassInv ==
  /\ \A e \in Emails : Asks(e) =>
       /\ stage = "arrival"
       /\ MessageKey[e] \in Range(seen) /\ classified[MessageKey[e]] = 0
  /\ stage = "arrival" => \A e, f \in Emails : work[e] # <<>> /\ work[f] # <<>> => e = f
  /\ \A k \in Keys : classified[k] <= 1 /\ (classified[k] = 1 => k \in Range(seen))

\* While one test runs, it holds what it has to put back.
SettingsInv ==
  /\ alerts \in AlertsConfig /\ wanted \in AlertsConfig /\ shown \in 0..MaxDesktop
  /\ mixed \in BOOLEAN
  /\ test \in [Tests -> [running : BOOLEAN, desktop : BOOLEAN, sound : BOOLEAN]]
  /\ ~mixed =>
       IF Testing
       THEN \E t \in Tests :
              /\ \A u \in Tests : test[u].running <=> u = t
              /\ test[t].desktop = wanted.desktop /\ test[t].sound = wanted.sound
              /\ \A f \in {"threshold", "webhook", "events"} : alerts[f] = wanted[f]
       ELSE alerts = wanted

(***************************************************************************)
(* Sequences of steps.                                                     *)
(***************************************************************************)

\* What Kept keeps of the first n elements.
KeptUpTo(s, S, X, n) ==
  {g \in [0..n -> Seq(X)] :
     /\ g[0] = <<>>
     /\ \A i \in 1..n : g[i] = IF s[i] \in S THEN Append(g[i - 1], s[i]) ELSE g[i - 1]}

\* A function that computes Kept step by step exists.
LEMMA KeptExists ==
  ASSUME NEW X, NEW s \in Seq(X), NEW S
  PROVE  \A n \in 0..Len(s) : KeptUpTo(s, S, X, n) # {}
<1> DEFINE T == {n \in 0..Len(s) : KeptUpTo(s, S, X, n) = {}}
<1> SUFFICES ASSUME T # {} PROVE FALSE
  OBVIOUS
<1>0. Len(s) \in Nat /\ T \subseteq Nat
  OBVIOUS
<1>1. PICK m \in T : \A k \in T : ~(<<k, m>> \in OpToRel(<, Nat))
  BY <1>0, NatLessThanWellFounded, WFMin
<1>2. m \in 0..Len(s) /\ m \in Nat
  BY <1>0
<1>3. CASE m = 0
  <2>1. [i \in 0..0 |-> <<>>] \in KeptUpTo(s, S, X, 0)
    BY DEF KeptUpTo
  <2>2. QED
    BY <1>3, <2>1
<1>4. CASE m # 0
  <2>1. m - 1 \in Nat /\ m - 1 < m /\ m - 1 \in 0..Len(s) /\ m \in 1..Len(s)
    BY <1>0, <1>2, <1>4
  <2>2. <<m - 1, m>> \in OpToRel(<, Nat)
    BY <1>2, <2>1 DEF OpToRel
  <2>3. PICK g \in KeptUpTo(s, S, X, m - 1) : TRUE
    BY <1>1, <2>1, <2>2
  <2>4. g \in [0..(m - 1) -> Seq(X)] /\ g[0] = <<>>
        /\ \A i \in 1..(m - 1) : g[i] = IF s[i] \in S THEN Append(g[i - 1], s[i]) ELSE g[i - 1]
    BY <2>3 DEF KeptUpTo
  <2> DEFINE last == IF s[m] \in S THEN Append(g[m - 1], s[m]) ELSE g[m - 1]
             h == [i \in 0..m |-> IF i = m THEN last ELSE g[i]]
  <2>5. last \in Seq(X)
    <3>1. g[m - 1] \in Seq(X) /\ s[m] \in X
      BY <2>1, <2>4
    <3>2. QED
      BY <3>1
  <2> HIDE DEF last
  <2>6. h \in [0..m -> Seq(X)] /\ h[0] = <<>>
    BY <1>2, <1>4, <2>1, <2>4, <2>5
  <2>7. ASSUME NEW i \in 1..m
        PROVE  h[i] = IF s[i] \in S THEN Append(h[i - 1], s[i]) ELSE h[i - 1]
    <3>1. h[i - 1] = g[i - 1]
      BY <1>2, <2>1
    <3>2. CASE i = m
      BY <1>2, <3>1, <3>2 DEF last
    <3>3. CASE i # m
      <4>1. i \in 1..(m - 1) /\ h[i] = g[i]
        BY <1>2, <2>1, <3>3
      <4>2. QED
        BY <2>4, <3>1, <4>1
    <3>4. QED
      BY <3>2, <3>3
  <2>8. h \in KeptUpTo(s, S, X, m)
    BY <2>6, <2>7 DEF KeptUpTo
  <2>9. QED
    BY <2>8
<1>5. QED
  BY <1>3, <1>4

\* Kept is what such a function gives at the end.
LEMMA KeptIs ==
  ASSUME NEW X, NEW s \in Seq(X), NEW S
  PROVE  \E g \in KeptUpTo(s, S, X, Len(s)) : Kept(s, S) = g[Len(s)]
<1> DEFINE N == Len(s)
           step(f) == [n \in 0..N |-> IF n = 0 THEN <<>>
                        ELSE IF s[n] \in S THEN Append(f[n - 1], s[n]) ELSE f[n - 1]]
           f0 == CHOOSE f : f = step(f)
<1>1. N \in Nat
  OBVIOUS
<1>2. PICK g \in KeptUpTo(s, S, X, N) : TRUE
  BY KeptExists, <1>1
<1>3. g \in [0..N -> Seq(X)] /\ g[0] = <<>>
        /\ \A i \in 1..N : g[i] = IF s[i] \in S THEN Append(g[i - 1], s[i]) ELSE g[i - 1]
  BY <1>2 DEF KeptUpTo
<1>4. g = step(g)
  <2>1. ASSUME NEW n \in 0..N PROVE g[n] = step(g)[n]
    <3>1. CASE n = 0
      BY <1>1, <1>3, <3>1
    <3>2. CASE n # 0
      <4>1. n \in 1..N
        BY <1>1, <3>2
      <4>2. QED
        BY <1>3, <3>2, <4>1
    <3>3. QED
      BY <3>1, <3>2
  <2>2. QED
    BY <1>3, <2>1
<1>5. f0 = step(f0)
  BY <1>4
<1>6. Kept(s, S) = f0[N]
  BY DEF Kept
<1> HIDE DEF f0
<1>7. /\ f0 = [n \in 0..N |-> f0[n]] /\ f0[0] = <<>>
      /\ \A n \in 1..N : f0[n] = IF s[n] \in S THEN Append(f0[n - 1], s[n]) ELSE f0[n - 1]
  <2>1. \A n \in 0..N : f0[n] = IF n = 0 THEN <<>>
                               ELSE IF s[n] \in S THEN Append(f0[n - 1], s[n]) ELSE f0[n - 1]
    BY <1>5
  <2>2. f0 = [n \in 0..N |-> f0[n]]
    BY <1>5
  <2>3. QED
    BY <1>1, <2>1, <2>2
<1>8. \A n \in 0..N : f0[n] = g[n]
  <2> DEFINE T == {n \in 0..N : f0[n] # g[n]}
  <2> SUFFICES ASSUME T # {} PROVE FALSE
    OBVIOUS
  <2>1. T \subseteq Nat
    OBVIOUS
  <2>2. PICK m \in T : \A k \in T : ~(<<k, m>> \in OpToRel(<, Nat))
    BY <2>1, NatLessThanWellFounded, WFMin
  <2>3. m \in 0..N /\ f0[m] # g[m] /\ m # 0
    BY <1>3, <1>7, <2>2
  <2>4. m - 1 \in 0..N /\ m \in 1..N /\ <<m - 1, m>> \in OpToRel(<, Nat)
    BY <1>1, <2>3 DEF OpToRel
  <2>5. f0[m - 1] = g[m - 1]
    BY <2>2, <2>4
  <2>6. QED
    BY <1>3, <1>7, <2>3, <2>4, <2>5
<1>9. QED
  BY <1>1, <1>6, <1>8

\* The elements that Kept keeps are those at the places of at, in their order.
KeptOver(s, S, t, D, n) ==
  \E at \in [D -> 1..n] :
    /\ \A i, j \in D : i < j => at[i] < at[j]
    /\ \A i \in D : t[i] = s[at[i]]
    /\ \A j \in 1..n : s[j] \in S <=> \E i \in D : at[i] = j
KeptAt(s, S, t, n) == KeptOver(s, S, t, 1..Len(t), n)

\* Kept goes through the places of what is in S, in order.
LEMMA KeptPlaces ==
  ASSUME NEW X, NEW s \in Seq(X), NEW S
  PROVE  /\ Kept(s, S) \in Seq(X)
         /\ KeptAt(s, S, Kept(s, S), Len(s))
<1>1. PICK g \in KeptUpTo(s, S, X, Len(s)) : Kept(s, S) = g[Len(s)]
  BY KeptIs
<1>2. /\ Len(s) \in Nat /\ g \in [0..Len(s) -> Seq(X)] /\ g[0] = <<>>
      /\ \A i \in 1..Len(s) : g[i] = IF s[i] \in S THEN Append(g[i - 1], s[i]) ELSE g[i - 1]
  BY DEF KeptUpTo
<1>3. KeptAt(s, S, <<>>, 0)
  <2>1. Len(<<>>) = 0 /\ 1..0 = {}
    OBVIOUS
  <2>2. [i \in {} |-> 0] \in [{} -> {}]
    OBVIOUS
  <2>3. QED
    BY <2>1, <2>2 DEF KeptAt, KeptOver
<1>4. ASSUME NEW n \in 1..Len(s), NEW t \in Seq(X), KeptAt(s, S, t, n - 1), s[n] \notin S
      PROVE  KeptAt(s, S, t, n)
  <2>1. PICK at \in [1..Len(t) -> 1..(n - 1)] :
        /\ \A i, j \in 1..Len(t) : i < j => at[i] < at[j]
        /\ \A i \in 1..Len(t) : t[i] = s[at[i]]
        /\ \A j \in 1..(n - 1) : s[j] \in S <=> \E i \in 1..Len(t) : at[i] = j
    BY <1>4 DEF KeptAt, KeptOver
  <2>2. at \in [1..Len(t) -> 1..n]
    OBVIOUS
  <2>3. ASSUME NEW j \in 1..n PROVE s[j] \in S <=> \E i \in 1..Len(t) : at[i] = j
    <3>1. CASE j = n
      <4>1. \A i \in 1..Len(t) : at[i] \in 1..(n - 1)
        OBVIOUS
      <4>2. QED
        BY <1>4, <3>1, <4>1
    <3>2. CASE j # n
      BY <2>1, <3>2
    <3>3. QED
      BY <3>1, <3>2
  <2>4. QED
    BY <2>1, <2>2, <2>3 DEF KeptAt, KeptOver
<1>5. ASSUME NEW n \in 1..Len(s), NEW t \in Seq(X), KeptAt(s, S, t, n - 1), s[n] \in S
      PROVE  KeptAt(s, S, Append(t, s[n]), n)
  <2>1. PICK at \in [1..Len(t) -> 1..(n - 1)] :
        /\ \A i, j \in 1..Len(t) : i < j => at[i] < at[j]
        /\ \A i \in 1..Len(t) : t[i] = s[at[i]]
        /\ \A j \in 1..(n - 1) : s[j] \in S <=> \E i \in 1..Len(t) : at[i] = j
    BY <1>5 DEF KeptAt, KeptOver
  <2> DEFINE m == Len(t)
             u == Append(t, s[n])
             bt == [i \in 1..(m + 1) |-> IF i = m + 1 THEN n ELSE at[i]]
  <2>2. m \in Nat /\ Len(u) = m + 1 /\ \A i \in 1..(m + 1) : u[i] = IF i = m + 1 THEN s[n] ELSE t[i]
    BY s[n] \in X
  <2>3. \A i \in 1..m : at[i] \in 1..(n - 1) /\ i \in 1..(m + 1) /\ i # m + 1
    BY <2>2
  <2> HIDE DEF m, u
  <2>4. \A i \in 1..(m + 1) : i = m + 1 \/ i \in 1..m
    BY <2>2
  <2>5. bt \in [1..(m + 1) -> 1..n]
    BY <2>2, <2>3, <2>4
  <2>6. ASSUME NEW i \in 1..(m + 1), NEW j \in 1..(m + 1), i < j PROVE bt[i] < bt[j]
    <3>1. i \in 1..m
      BY <2>2, <2>6
    <3>2. CASE j = m + 1
      BY <2>2, <2>3, <3>1, <3>2
    <3>3. CASE j \in 1..m
      BY <2>1, <2>2, <2>3, <2>6, <3>1, <3>3 DEF m
    <3>4. QED
      BY <2>4, <3>2, <3>3
  <2>7. ASSUME NEW i \in 1..(m + 1) PROVE u[i] = s[bt[i]]
    <3>1. CASE i = m + 1
      BY <2>2, <3>1
    <3>2. CASE i \in 1..m
      BY <2>1, <2>2, <2>3, <3>2 DEF m
    <3>3. QED
      BY <2>4, <3>1, <3>2
  <2>8. ASSUME NEW j \in 1..n PROVE s[j] \in S <=> \E i \in 1..(m + 1) : bt[i] = j
    <3>1. CASE j = n
      <4>1. m + 1 \in 1..(m + 1) /\ bt[m + 1] = n
        BY <2>2
      <4>2. QED
        BY <1>5, <3>1, <4>1
    <3>2. CASE j # n
      <4>1. j \in 1..(n - 1)
        BY <3>2
      <4>2. s[j] \in S <=> \E i \in 1..m : at[i] = j
        BY <2>1, <4>1 DEF m
      <4>3. (\E i \in 1..m : at[i] = j) <=> \E i \in 1..(m + 1) : bt[i] = j
        BY <2>2, <2>3, <2>4, <3>2
      <4>4. QED
        BY <4>2, <4>3
    <3>3. QED
      BY <3>1, <3>2
  <2> HIDE DEF bt
  <2>9. KeptOver(s, S, u, 1..(m + 1), n)
    BY <2>5, <2>6, <2>7, <2>8 DEF KeptOver
  <2>10. 1..Len(u) = 1..(m + 1)
    BY <2>2
  <2>11. KeptAt(s, S, u, n)
    BY <2>9, <2>10 DEF KeptAt
  <2>12. QED
    BY <2>11 DEF u
<1>6. \A n \in 0..Len(s) : KeptAt(s, S, g[n], n)
  <2> DEFINE T == {n \in 0..Len(s) : ~KeptAt(s, S, g[n], n)}
  <2> SUFFICES ASSUME T # {} PROVE FALSE
    OBVIOUS
  <2>1. T \subseteq Nat
    OBVIOUS
  <2>2. PICK m \in T : \A k \in T : ~(<<k, m>> \in OpToRel(<, Nat))
    BY <2>1, NatLessThanWellFounded, WFMin
  <2>3. m \in 0..Len(s) /\ ~KeptAt(s, S, g[m], m) /\ m # 0
    BY <1>2, <1>3, <2>2
  <2>4. m - 1 \in 0..Len(s) /\ m \in 1..Len(s) /\ <<m - 1, m>> \in OpToRel(<, Nat)
    BY <1>2, <2>3 DEF OpToRel
  <2>5. KeptAt(s, S, g[m - 1], m - 1) /\ g[m - 1] \in Seq(X)
    BY <1>2, <2>2, <2>4
  <2>6. g[m] = IF s[m] \in S THEN Append(g[m - 1], s[m]) ELSE g[m - 1]
    BY <1>2, <2>4
  <2>7. QED
    BY <1>4, <1>5, <2>3, <2>4, <2>5, <2>6
<1>7. KeptAt(s, S, Kept(s, S), Len(s)) /\ Kept(s, S) \in Seq(X)
  BY <1>1, <1>2, <1>6
<1>8. QED
  BY <1>7

\* Kept of a sequence without duplicates has none, its elements are those in S, and
\* it ends with the last element if that is kept.
LEMMA KeptFields ==
  ASSUME NEW X, NEW s \in Seq(X), NEW S, IsInjective(s)
  PROVE  /\ Kept(s, S) \in Seq(X) /\ Len(Kept(s, S)) <= Len(s)
         /\ IsInjective(Kept(s, S))
         /\ Range(Kept(s, S)) = Range(s) \cap S
         /\ \A i \in DOMAIN Kept(s, S) : Kept(s, S)[i] = s[Len(s)] => i = Len(Kept(s, S))
<1> DEFINE t == Kept(s, S)
<1>1. /\ t \in Seq(X)
      /\ KeptAt(s, S, t, Len(s))
  BY KeptPlaces
<1> HIDE DEF t
<1>2. PICK at \in [1..Len(t) -> 1..Len(s)] :
           /\ \A i, j \in 1..Len(t) : i < j => at[i] < at[j]
           /\ \A i \in 1..Len(t) : t[i] = s[at[i]]
           /\ \A j \in 1..Len(s) : s[j] \in S <=> \E i \in 1..Len(t) : at[i] = j
  BY <1>1 DEF KeptAt, KeptOver
<1>3. /\ Len(t) \in Nat /\ DOMAIN t = 1..Len(t) /\ Len(s) \in Nat /\ DOMAIN s = 1..Len(s)
      /\ \A i, j \in 1..Len(s) : s[i] = s[j] => i = j
  BY <1>1 DEF IsInjective
<1>4. \A i, j \in 1..Len(t) : at[i] = at[j] => i = j
  BY <1>2, <1>3
<1>5. IsInjective(t)
  BY <1>2, <1>3, <1>4 DEF IsInjective
<1>6. Range(t) = Range(s) \cap S
  BY <1>2, <1>3 DEF Range
<1>7. ASSUME NEW i \in 1..Len(t), t[i] = s[Len(s)] PROVE i = Len(t)
  <2>1. at[i] = Len(s)
    BY <1>2, <1>3, <1>7
  <2>2. Len(t) \in 1..Len(t) /\ at[Len(t)] \in 1..Len(s)
    BY <1>3
  <2>3. ~(i < Len(t))
    BY <1>2, <1>3, <2>1, <2>2
  <2>4. Len(t) \in Nat
    BY <1>3
  <2>5. QED
    BY <2>3, <2>4
<1>8. Len(t) <= Len(s)
  <2> DEFINE T == {i \in 1..Len(t) : at[i] < i}
  <2>1. T = {}
    <3> SUFFICES ASSUME T # {} PROVE FALSE
      OBVIOUS
    <3>1. T \subseteq Nat
      OBVIOUS
    <3>2. PICK m \in T : \A k \in T : ~(<<k, m>> \in OpToRel(<, Nat))
      BY <3>1, NatLessThanWellFounded, WFMin
    <3>0. \A i \in 1..Len(t) : i \in Nat /\ at[i] \in Nat /\ at[i] >= 1
      BY <1>3
    <3>3. m \in 1..Len(t) /\ at[m] < m /\ at[m] \in 1..Len(s)
      BY <3>2
    <3>4. m - 1 \in 1..Len(t) /\ <<m - 1, m>> \in OpToRel(<, Nat)
      BY <1>3, <3>3 DEF OpToRel
    <3>5. m - 1 \notin T
      BY <3>2, <3>4
    <3>6. at[m - 1] < at[m] /\ at[m - 1] >= m - 1
      <4>1. at[m - 1] \in 1..Len(s)
        BY <3>4
      <4>2. m - 1 < m
        BY <3>3
      <4>3. at[m - 1] < at[m]
        BY <1>2, <3>3, <3>4, <4>2
      <4>4. ~(at[m - 1] < m - 1)
        BY <3>4, <3>5
      <4>5. QED
        <5>1. at[m - 1] \in Nat
          BY <3>0, <3>4
        <5>2. m - 1 \in Nat
          BY <3>0, <3>4
        <5>3. QED
          BY <4>3, <4>4, <5>1, <5>2
    <3>7. m \in Nat /\ at[m] \in Nat /\ at[m - 1] \in Nat
      BY <3>0, <3>3, <3>4
    <3>8. QED
      BY <3>3, <3>6, <3>7
  <2>2. CASE Len(t) = 0
    BY <1>3, <2>2
  <2>3. CASE Len(t) # 0
    <3>1. Len(t) \in 1..Len(t) /\ at[Len(t)] \in 1..Len(s)
      BY <1>3, <2>3
    <3>2. QED
      BY <1>3, <2>1, <3>1
  <2>4. QED
    BY <2>2, <2>3
<1>9. QED
  BY <1>1, <1>3, <1>5, <1>6, <1>7, <1>8 DEF t

\* The steps, and which is the last.
LEMMA StepNames ==
  /\ Steps \in Seq(AllSteps) /\ Len(Steps) = 6 /\ Steps[6] = "event" /\ IsInjective(Steps)
  /\ Range(Steps) = {"label", "flag", "read", "move", "alert", "event"}
<1>1. DOMAIN Steps = 1..6 /\ Len(Steps) = 6
  BY DEF Steps
<1>2. Range(Steps) = {"label", "flag", "read", "move", "alert", "event"}
  <2>1. \A i \in 1..6 : i = 1 \/ i = 2 \/ i = 3 \/ i = 4 \/ i = 5 \/ i = 6
    OBVIOUS
  <2>2. 1 \in 1..6 /\ 2 \in 1..6 /\ 3 \in 1..6 /\ 4 \in 1..6 /\ 5 \in 1..6 /\ 6 \in 1..6
    OBVIOUS
  <2>3. QED
    BY <1>1, <2>1, <2>2 DEF Range, Steps
<1>3. IsInjective(Steps)
  BY <1>1 DEF IsInjective, Steps
<1>4. Steps \in Seq(AllSteps) /\ Steps[6] = "event"
  <2>1. {"label", "flag", "read", "move", "alert", "event"} \subseteq AllSteps
    BY <1>2 DEF AllSteps
  <2>2. QED
    BY <2>1 DEF Steps
<1>5. QED
  BY <1>1, <1>2, <1>3, <1>4

\* The steps asked for, in the order in which the flush takes them.
LEMMA StepsShape ==
  ASSUME NEW S
  PROVE  /\ StepsOf(S) \in Seq(AllSteps) /\ Shape(StepsOf(S))
         /\ Range(StepsOf(S)) = S \cap {"label", "flag", "read", "move", "alert", "event"}
<1> DEFINE w == StepsOf(S)
<1>1. /\ w \in Seq(AllSteps) /\ IsInjective(w)
      /\ Range(w) = S \cap {"label", "flag", "read", "move", "alert", "event"}
      /\ \A i \in DOMAIN w : w[i] = "event" => i = Len(w)
  <2>1. /\ w \in Seq(AllSteps) /\ IsInjective(w) /\ Range(w) = Range(Steps) \cap S
        /\ \A i \in DOMAIN w : w[i] = Steps[Len(Steps)] => i = Len(w)
    BY StepNames, KeptFields DEF StepsOf
  <2> HIDE DEF w
  <2>2. QED
    BY <2>1, StepNames
<1> HIDE DEF w
<1>2. \A i \in DOMAIN w : w[i] \notin {"classify", "add", "mark"}
  BY <1>1 DEF Range
<1>3. Shape(w)
  BY <1>1, <1>2 DEF Shape
<1>4. QED
  BY <1>1, <1>3 DEF w

\* What is left of a sequence without duplicates.
LEMMA TailFields ==
  ASSUME NEW X, NEW w \in Seq(X), w # <<>>, IsInjective(w)
  PROVE  /\ Head(w) \in X /\ Tail(w) \in Seq(X) /\ IsInjective(Tail(w))
         /\ Range(w) = {Head(w)} \cup Range(Tail(w)) /\ Head(w) \notin Range(Tail(w))
         /\ Len(w) \in Nat /\ Len(Tail(w)) = Len(w) - 1 /\ Head(w) = w[1] /\ 1 \in DOMAIN w
         /\ \A i \in DOMAIN Tail(w) : Tail(w)[i] = w[i + 1] /\ i + 1 \in DOMAIN w
<1> DEFINE t == Tail(w)
<1>1. /\ Len(w) \in Nat /\ Len(w) >= 1 /\ Len(t) = Len(w) - 1 /\ t \in Seq(X)
      /\ DOMAIN w = 1..Len(w) /\ DOMAIN t = 1..Len(t)
      /\ \A i \in 1..Len(t) : t[i] = w[i + 1] /\ i + 1 \in 1..Len(w)
      /\ Head(w) = w[1] /\ 1 \in 1..Len(w) /\ w[1] \in X
  OBVIOUS
<1> HIDE DEF t
<1>2. \A i, j \in 1..Len(w) : w[i] = w[j] => i = j
  BY <1>1 DEF IsInjective
<1>3. Range(w) = {w[1]} \cup Range(t)
  <2>1. \A j \in 1..Len(w) : j = 1 \/ (j - 1 \in 1..Len(t) /\ t[j - 1] = w[j])
    <3>1. \A j \in 1..Len(w) : j # 1 => j - 1 \in 1..Len(t) /\ (j - 1) + 1 = j
      BY <1>1
    <3>2. QED
      BY <1>1, <3>1
  <2>2. Range(w) = {w[j] : j \in 1..Len(w)} /\ Range(t) = {t[j] : j \in 1..Len(t)}
    BY <1>1 DEF Range
  <2>3. QED
    BY <1>1, <2>1, <2>2
<1>4. w[1] \notin Range(t)
  <2>1. ASSUME NEW i \in 1..Len(t), t[i] = w[1] PROVE FALSE
    BY <1>1, <1>2, <2>1
  <2>2. QED
    BY <1>1, <2>1 DEF Range
<1>5. IsInjective(t)
  BY <1>1, <1>2 DEF IsInjective
<1>6. QED
  BY <1>1, <1>3, <1>4, <1>5 DEF t

\* One step: the others keep their shape.
LEMMA TailShape ==
  ASSUME NEW w \in Seq(AllSteps), w # <<>>, Shape(w)
  PROVE  /\ Head(w) \in AllSteps /\ Tail(w) \in Seq(AllSteps) /\ Shape(Tail(w))
         /\ Range(w) = {Head(w)} \cup Range(Tail(w)) /\ Head(w) \notin Range(Tail(w))
         /\ "classify" \notin Range(Tail(w))
         /\ Head(w) \in {"event", "add", "mark"} => Tail(w) = <<>>
         /\ Head(w) = "classify" => w = <<"classify", "alert">>
<1> DEFINE t == Tail(w)
<1>1. /\ Head(w) \in AllSteps /\ t \in Seq(AllSteps) /\ IsInjective(t)
      /\ Range(w) = {Head(w)} \cup Range(t) /\ Head(w) \notin Range(t)
      /\ Len(w) \in Nat /\ Len(t) = Len(w) - 1 /\ Head(w) = w[1] /\ 1 \in DOMAIN w
      /\ \A i \in DOMAIN t : t[i] = w[i + 1] /\ i + 1 \in DOMAIN w
  BY TailFields DEF Shape
<1> HIDE DEF t
<1>2. \A i \in DOMAIN t : i \in 1..Len(t)
  BY <1>1
<1>3. Len(t) = 0 => t = <<>>
  BY <1>1
<1>4. Head(w) = "classify" => w = <<"classify", "alert">>
  BY <1>1 DEF Shape
<1>5. ASSUME NEW i \in DOMAIN t, t[i] = "classify" PROVE FALSE
  <2>1. w = <<"classify", "alert">>
    BY <1>1, <1>5 DEF Shape
  <2>2. w[1] = "classify"
    BY <2>1
  <2>3. QED
    BY <1>1, <1>5, <2>2 DEF Range
<1>6. "classify" \notin Range(t)
  BY <1>5 DEF Range
<1>7. ASSUME NEW i \in DOMAIN t, t[i] \in {"event", "add", "mark"} PROVE i = Len(t)
  BY <1>1, <1>2, <1>7 DEF Shape
<1>8. Shape(t)
  BY <1>1, <1>5, <1>7 DEF Shape
<1>9. Head(w) \in {"event", "add", "mark"} => t = <<>>
  BY <1>1, <1>3 DEF Shape
<1>10. QED
  BY <1>1, <1>4, <1>6, <1>8, <1>9 DEF t

\* Short sequences of steps.
LEMMA OneStep ==
  /\ \A s \in AllSteps : <<s>> \in Seq(AllSteps) /\ Range(<<s>>) = {s} /\ <<s>> # <<>>
  /\ \A s \in AllSteps \ {"classify"} : Shape(<<s>>)
  /\ <<"classify", "alert">> \in Seq(AllSteps) /\ Shape(<<"classify", "alert">>)
  /\ Range(<<"classify", "alert">>) = {"classify", "alert"}
  /\ <<>> \in Seq(AllSteps) /\ Shape(<<>>) /\ Range(<<>>) = {}
<1>1. ASSUME NEW s \in AllSteps
      PROVE  /\ <<s>> \in Seq(AllSteps) /\ Range(<<s>>) = {s} /\ <<s>> # <<>>
             /\ s # "classify" => Shape(<<s>>)
  <2>1. DOMAIN <<s>> = {1} /\ <<s>>[1] = s /\ Len(<<s>>) = 1
    OBVIOUS
  <2>2. QED
    BY <2>1 DEF Range, Shape, IsInjective
<1>2. /\ <<"classify", "alert">> \in Seq(AllSteps) /\ Shape(<<"classify", "alert">>)
      /\ Range(<<"classify", "alert">>) = {"classify", "alert"}
  <2> DEFINE w == <<"classify", "alert">>
  <2>1. DOMAIN w = {1, 2} /\ w[1] = "classify" /\ w[2] = "alert"
    OBVIOUS
  <2>2. w \in Seq(AllSteps)
    BY StepNames DEF AllSteps
  <2> HIDE DEF w
  <2>3. Range(w) = {"classify", "alert"} /\ IsInjective(w)
    BY <2>1 DEF Range, IsInjective
  <2>4. Shape(w)
    BY <2>1, <2>3 DEF Shape, w
  <2>5. QED
    BY <2>2, <2>3, <2>4 DEF w
<1>3. <<>> \in Seq(AllSteps) /\ Shape(<<>>) /\ Range(<<>>) = {}
  <2>1. DOMAIN <<>> = {}
    OBVIOUS
  <2>2. QED
    BY <2>1 DEF Range, Shape, IsInjective
<1>4. QED
  BY <1>1, <1>2, <1>3

\* What System One decided comes before the alert.
LEMMA DecidedShape ==
  ASSUME NEW S \in SUBSET {"flag", "move"}
  PROVE  /\ StepsOf(S) \o <<"alert">> \in Seq(AllSteps) /\ Shape(StepsOf(S) \o <<"alert">>)
         /\ Range(StepsOf(S) \o <<"alert">>) = S \cup {"alert"}
         /\ StepsOf(S) \o <<"alert">> # <<>>
<1> DEFINE d == StepsOf(S)
           w == d \o <<"alert">>
<1>1. d \in Seq(AllSteps) /\ IsInjective(d) /\ Range(d) = S
  BY StepsShape DEF Shape
<1> HIDE DEF d
<1>2. "alert" \in AllSteps
  BY StepNames DEF AllSteps
<1>3. /\ Len(d) \in Nat /\ DOMAIN d = 1..Len(d) /\ Len(w) = Len(d) + 1 /\ w \in Seq(AllSteps)
      /\ DOMAIN w = 1..(Len(d) + 1)
      /\ \A i \in 1..Len(d) : w[i] = d[i] /\ i \in 1..(Len(d) + 1)
      /\ w[Len(d) + 1] = "alert" /\ Len(d) + 1 \in 1..(Len(d) + 1)
      /\ \A i \in 1..(Len(d) + 1) : i \in 1..Len(d) \/ i = Len(d) + 1
      /\ w # <<>>
  BY <1>1, <1>2
<1> HIDE DEF w
<1>4. \A i \in 1..Len(d) : w[i] \in {"flag", "move"}
  BY <1>1, <1>3 DEF Range
<1>5. IsInjective(w)
  <2>1. \A i, j \in 1..Len(d) : d[i] = d[j] => i = j
    BY <1>1, <1>3 DEF IsInjective
  <2>2. ASSUME NEW i \in DOMAIN w, NEW j \in DOMAIN w, w[i] = w[j] PROVE i = j
    BY <1>3, <1>4, <2>1, <2>2
  <2>3. QED
    BY <2>2 DEF IsInjective
<1>6. \A i \in DOMAIN w : w[i] \in {"flag", "move", "alert"}
  BY <1>3, <1>4
<1>7. Shape(w)
  BY <1>5, <1>6 DEF Shape
<1>8. Range(w) = S \cup {"alert"}
  BY <1>1, <1>3 DEF Range
<1>9. QED
  BY <1>3, <1>7, <1>8 DEF d, w

\* Two sequences without duplicates that share nothing.
LEMMA JoinInjective ==
  ASSUME NEW X, NEW s \in Seq(X), NEW t \in Seq(X), IsInjective(s), IsInjective(t),
         Range(s) \cap Range(t) = {}
  PROVE  IsInjective(s \o t) /\ Range(s \o t) = Range(s) \cup Range(t)
<1> DEFINE w == s \o t
<1>1. /\ Len(s) \in Nat /\ Len(t) \in Nat /\ DOMAIN s = 1..Len(s) /\ DOMAIN t = 1..Len(t)
      /\ DOMAIN w = 1..(Len(s) + Len(t))
      /\ \A i \in 1..Len(s) : i \in DOMAIN w /\ w[i] = s[i]
      /\ \A i \in 1..Len(t) : Len(s) + i \in DOMAIN w /\ w[Len(s) + i] = t[i]
  OBVIOUS
<1>2. \A i \in DOMAIN w : i \in 1..Len(s) \/ \E j \in 1..Len(t) : i = Len(s) + j
  <2>1. \A i \in DOMAIN w :
          i \in 1..Len(s) \/ (i - Len(s) \in 1..Len(t) /\ i = Len(s) + (i - Len(s)))
    BY <1>1
  <2>2. QED
    BY <2>1
<1> HIDE DEF w
<1>3. Range(s) = {s[i] : i \in 1..Len(s)} /\ Range(t) = {t[i] : i \in 1..Len(t)}
      /\ Range(w) = {w[i] : i \in DOMAIN w}
  BY <1>1 DEF Range
<1>4. Range(w) = Range(s) \cup Range(t)
  <2>1. ASSUME NEW x \in Range(w) PROVE x \in Range(s) \cup Range(t)
    <3>1. PICK i \in DOMAIN w : x = w[i]
      BY <1>3
    <3>2. QED
      BY <1>1, <1>2, <1>3, <3>1
  <2>2. ASSUME NEW x \in Range(s) PROVE x \in Range(w)
    BY <1>1, <1>3
  <2>3. ASSUME NEW x \in Range(t) PROVE x \in Range(w)
    BY <1>1, <1>3
  <2>4. QED
    BY <2>1, <2>2, <2>3
<1>5. ASSUME NEW a \in DOMAIN w, NEW b \in DOMAIN w, w[a] = w[b] PROVE a = b
  <2>1. \A i \in 1..Len(s), j \in 1..Len(t) : s[i] # t[j]
    BY <1>3
  <2>2. \A i, j \in 1..Len(s) : s[i] = s[j] => i = j
    BY <1>1 DEF IsInjective
  <2>3. \A i, j \in 1..Len(t) : t[i] = t[j] => i = j
    BY <1>1 DEF IsInjective
  <2>4. CASE a \in 1..Len(s)
    BY <1>1, <1>2, <1>5, <2>1, <2>2, <2>4
  <2>5. CASE \E j \in 1..Len(t) : a = Len(s) + j
    BY <1>1, <1>2, <1>5, <2>1, <2>3, <2>5
  <2>6. QED
    BY <1>2, <2>4, <2>5
<1>6. QED
  BY <1>4, <1>5 DEF w, IsInjective

\* One element more.
LEMMA GrownInjective ==
  ASSUME NEW X, NEW s \in Seq(X), NEW k \in X, IsInjective(s), k \notin Range(s)
  PROVE  IsInjective(Append(s, k)) /\ Range(Append(s, k)) = Range(s) \cup {k}
<1> DEFINE t == Append(s, k)
           one == <<k>>
<1>1. t = s \o one /\ one \in Seq(X) /\ DOMAIN one = {1} /\ one[1] = k
  OBVIOUS
<1> HIDE DEF t, one
<1>2. IsInjective(one) /\ Range(one) = {k}
  BY <1>1 DEF IsInjective, Range
<1>3. IsInjective(s \o one) /\ Range(s \o one) = Range(s) \cup {k}
  BY <1>1, <1>2, JoinInjective
<1>4. IsInjective(t) /\ Range(t) = Range(s) \cup {k}
  BY <1>1, <1>3
<1>5. QED
  BY <1>4 DEF t

(***************************************************************************)
(* Types.                                                                  *)
(***************************************************************************)

\* The types hold at first.
LEMMA TypesInit == Init => HookTypes
<1> SUFFICES ASSUME Init PROVE HookTypes
  OBVIOUS
<1>1. IsInjective(queue) /\ IsInjective(rest) /\ IsInjective(seen) /\ Range(queue) = {}
  BY DEF Init, IsInjective, Range
<1>2. MaxPending \in Nat /\ MaxSampling \in Nat /\ SeenLimit \in Nat
  BY HooksConstants
<1>3. QED
  BY <1>1, <1>2, OneStep DEF Init, HookTypes, Fates, Stages

\* The new messages that fit.
LEMMA AcceptedFields ==
  ASSUME HookTypes, NEW emails \in Events
  PROVE  LET accepted == SubSeq(emails, 1, Min({Room, Len(emails)}))
         IN /\ accepted \in Seq(Emails) /\ IsInjective(accepted)
            /\ Range(accepted) \subseteq Range(emails)
            /\ Len(queue) + Len(accepted) <= MaxPending
<1> DEFINE m == Min({Room, Len(emails)})
           accepted == SubSeq(emails, 1, m)
<1>1. emails \in Seq(Emails) /\ IsInjective(emails) /\ Len(emails) \in Nat
  <2>1. PICK n \in 1..2 : emails \in [1..n -> Emails]
    BY DEF Events
  <2>2. emails \in Seq(Emails)
    BY <2>1
  <2>3. QED
    BY <2>2 DEF Events
<1>2. Room \in Nat /\ Len(queue) + Room = MaxPending /\ Len(queue) \in Nat
  BY HooksConstants DEF HookTypes, Room
<1>3. m \in Nat /\ m <= Room /\ m <= Len(emails)
  <2> DEFINE low == IF Room <= Len(emails) THEN Room ELSE Len(emails)
  <2>1. low \in {Room, Len(emails)} /\ \A y \in {Room, Len(emails)} : low <= y
    BY <1>1, <1>2
  <2>2. m \in {Room, Len(emails)} /\ \A y \in {Room, Len(emails)} : m <= y
    BY <2>1 DEF Min
  <2>3. QED
    BY <1>1, <1>2, <2>2
<1> HIDE DEF m
<1>4. /\ accepted \in Seq(Emails) /\ Len(accepted) = m
      /\ DOMAIN accepted = 1..m /\ DOMAIN emails = 1..Len(emails)
      /\ \A i \in 1..m : accepted[i] = emails[i] /\ i \in 1..Len(emails)
  BY <1>1, <1>3
<1> HIDE DEF accepted
<1>5. IsInjective(accepted) /\ Range(accepted) \subseteq Range(emails)
  BY <1>1, <1>4 DEF IsInjective, Range
<1>6. Len(queue) + Len(accepted) <= MaxPending
  BY <1>2, <1>3, <1>4
<1>7. QED
  BY <1>4, <1>5, <1>6 DEF accepted, m

\* The queue with the new messages that fit.
LEMMA TypesNew == HookTypes /\ NewEmail => HookTypes'
<1> SUFFICES ASSUME HookTypes, NEW emails \in Events, \A e \in Range(emails) : fate[e] = "new",
                    OnNewEmail(emails)
             PROVE  HookTypes'
  BY DEF NewEmail
<1> DEFINE accepted == SubSeq(emails, 1, Min({Room, Len(emails)}))
<1>1. /\ accepted \in Seq(Emails) /\ IsInjective(accepted)
      /\ Range(accepted) \subseteq Range(emails) /\ Len(queue) + Len(accepted) <= MaxPending
  BY AcceptedFields
<1>2. /\ queue' = queue \o accepted
      /\ UNCHANGED <<stage, rate, seen, rest, work, asked, did, alerted, classified>>
      /\ handle' = IF handle = "none" THEN "pending" ELSE handle
      /\ fate' = [e \in Emails |-> IF e \in Range(accepted) THEN "queued"
                   ELSE IF e \in Range(emails) THEN "skipped" ELSE fate[e]]
  BY DEF OnNewEmail, historyVars
<1> HIDE DEF accepted
<1>3. Range(queue) \cap Range(accepted) = {}
  <2>1. \A e \in Range(queue) : e \in Emails /\ fate[e] = "queued"
    BY DEF HookTypes, Range
  <2>2. QED
    BY <1>1, <2>1
<1>4. IsInjective(queue') /\ Range(queue') = Range(queue) \cup Range(accepted)
  BY <1>1, <1>2, <1>3, JoinInjective DEF HookTypes
<1>5. queue' \in Seq(Emails) /\ Len(queue') <= MaxPending
  BY <1>1, <1>2 DEF HookTypes
<1>6. fate' \in [Emails -> Fates] /\ \A e \in Emails : fate'[e] = "queued" <=> e \in Range(queue')
  BY <1>1, <1>2, <1>4 DEF HookTypes, Fates
<1>7. handle' \in {"none", "pending", "fired"}
  BY <1>2 DEF HookTypes
<1>8. QED
  BY <1>2, <1>4, <1>5, <1>6, <1>7 DEF HookTypes

\* A flush takes the whole queue.
LEMMA TypesBegin == HookTypes /\ FlushBegins => HookTypes'
<1> SUFFICES ASSUME HookTypes, FlushBegins PROVE HookTypes'
  OBVIOUS
<1> DEFINE batch == Range(queue)
           ruled == {e \in batch : RuleFor[e] # NoRule}
<1>1. rest' \in Seq(Emails) /\ IsInjective(rest')
  BY KeptFields DEF HookTypes, FlushBegins
<1>2. asked' \in [Emails -> SUBSET Range(Steps)]
  <2>1. "alert" \in Range(Steps) /\ "event" \in Range(Steps)
    BY StepNames
  <2> DEFINE new(e) == IF e \in ruled
                    THEN (RuleFor[e] \cap Range(Steps)) \cup {"alert"}
                         \cup {s \in {"event"} : config.autoCalendar /\ "noevent" \notin RuleFor[e]}
                    ELSE IF e \in batch THEN {"alert"} ELSE asked[e]
  <2>2. \A e \in Emails : new(e) \subseteq Range(Steps)
    BY <2>1 DEF HookTypes
  <2>3. asked' = [e \in Emails |-> new(e)]
    BY DEF FlushBegins
  <2> HIDE DEF new
  <2>4. QED
    BY <2>2, <2>3
<1>3. work' \in [Emails -> Seq(AllSteps)]
  <2>1. work' = [e \in Emails |-> IF e \in ruled THEN StepsOf(asked'[e]) ELSE work[e]]
    BY DEF FlushBegins
  <2>2. QED
    BY <2>1, StepsShape DEF HookTypes
<1>4. queue' = <<>> /\ IsInjective(queue') /\ Range(queue') = {}
  BY DEF FlushBegins, IsInjective, Range
<1>5. fate' \in [Emails -> Fates] /\ \A e \in Emails : fate'[e] # "queued"
  BY DEF FlushBegins, HookTypes, Fates
<1>6. handle' = "none" /\ stage' \in Stages /\ UNCHANGED <<rate, seen, did, alerted, classified>>
  BY DEF FlushBegins, Stages
<1>7. Len(queue') <= MaxPending
  BY <1>4, HooksConstants
<1>8. QED
  BY <1>1, <1>2, <1>3, <1>4, <1>5, <1>6, <1>7 DEF HookTypes

\* The client's reply asks for steps that a rule may ask for, and for the alert.
LEMMA TriageSteps ==
  ASSUME TriageAnswered
  PROVE  \E S \in [Emails -> SUBSET {"alert", "label", "flag", "event"}] :
           /\ \A e \in Emails : "alert" \in S[e]
           /\ asked' = [e \in Emails |-> IF e \in Range(rest) THEN S[e] ELSE asked[e]]
           /\ work' = [e \in Emails |-> IF e \in Range(rest) THEN StepsOf(S[e]) ELSE work[e]]
<1>1. PICK reply \in UNION {[1..n -> Replies] : n \in 0 .. Len(rest)} :
       LET triage == TriageOf(reply, Len(rest))
           steps(e) ==
             LET t == triage[CHOOSE i \in DOMAIN rest : rest[i] = e]
             IN {"alert"} \cup {s \in {"label"} : t.labels # Unset}
                \cup {s \in {"flag"} : t.flag = TRUE}
                \cup {s \in {"event"} :
                        IF t.event = Unset THEN config.autoCalendar ELSE t.event}
       IN /\ asked' = [e \in Emails |-> IF e \in Range(rest) THEN steps(e) ELSE asked[e]]
          /\ work' = [e \in Emails |-> IF e \in Range(rest) THEN StepsOf(steps(e)) ELSE work[e]]
  BY DEF TriageAnswered
<1> DEFINE t(e) == TriageOf(reply, Len(rest))[CHOOSE i \in DOMAIN rest : rest[i] = e]
           steps(e) == {"alert"} \cup {s \in {"label"} : t(e).labels # Unset}
                       \cup {s \in {"flag"} : t(e).flag = TRUE}
                       \cup {s \in {"event"} :
                               IF t(e).event = Unset THEN config.autoCalendar ELSE t(e).event}
           S == [e \in Emails |-> steps(e)]
<1>2. /\ asked' = [e \in Emails |-> IF e \in Range(rest) THEN steps(e) ELSE asked[e]]
      /\ work' = [e \in Emails |-> IF e \in Range(rest) THEN StepsOf(steps(e)) ELSE work[e]]
  BY <1>1
<1> HIDE DEF t
<1>3. \A e \in Emails : /\ steps(e) \in SUBSET {"alert", "label", "flag", "event"}
                        /\ "alert" \in steps(e)
  OBVIOUS
<1> HIDE DEF steps
<1>4. /\ S \in [Emails -> SUBSET {"alert", "label", "flag", "event"}]
      /\ \A e \in Emails : S[e] = steps(e)
  BY <1>3
<1>5. /\ asked' = [e \in Emails |-> IF e \in Range(rest) THEN S[e] ELSE asked[e]]
      /\ work' = [e \in Emails |-> IF e \in Range(rest) THEN StepsOf(S[e]) ELSE work[e]]
  BY <1>2
<1>6. QED
  BY <1>3, <1>4, <1>5

\* The steps of a flush: how the rest is handled.
LEMMA TypesFlush ==
  HookTypes /\ (Residue \/ TriageAnswered \/ SamplingFails \/ BatchDone) => HookTypes'
<1> SUFFICES ASSUME HookTypes, Residue \/ TriageAnswered \/ SamplingFails \/ BatchDone
             PROVE  HookTypes'
  OBVIOUS
<1>1. AlertAll(Range(rest)) \in [Emails -> Seq(AllSteps)]
  BY OneStep, StepNames DEF HookTypes, AlertAll, AllSteps
<1>2. CASE Residue
  <2>1. /\ UNCHANGED <<queue, handle, rest, seen, fate, asked, did, alerted, classified>>
        /\ stage' \in Stages /\ (UNCHANGED work \/ work' = AlertAll(Range(rest)))
        /\ UNCHANGED rate \/ (rate < MaxSampling /\ rate' = rate + 1)
    BY <1>2 DEF Residue, Stages, historyVars
  <2>2. rate' \in 0..MaxSampling
    BY <2>1, HooksConstants DEF HookTypes
  <2>3. work' \in [Emails -> Seq(AllSteps)]
    BY <1>1, <2>1 DEF HookTypes
  <2>4. QED
    BY <2>1, <2>2, <2>3 DEF HookTypes
<1>3. CASE TriageAnswered
  <2>1. PICK S \in [Emails -> SUBSET {"alert", "label", "flag", "event"}] :
          /\ asked' = [e \in Emails |-> IF e \in Range(rest) THEN S[e] ELSE asked[e]]
          /\ work' = [e \in Emails |-> IF e \in Range(rest) THEN StepsOf(S[e]) ELSE work[e]]
    BY <1>3, TriageSteps
  <2>2. asked' \in [Emails -> SUBSET Range(Steps)]
    BY <2>1, StepNames DEF HookTypes
  <2>3. work' \in [Emails -> Seq(AllSteps)]
    BY <2>1, StepsShape DEF HookTypes
  <2>4. /\ UNCHANGED <<queue, handle, rest, seen, rate, fate, did, alerted, classified>>
        /\ stage' \in Stages
    BY <1>3 DEF TriageAnswered, Stages
  <2>5. QED
    BY <2>2, <2>3, <2>4 DEF HookTypes
<1>4. CASE SamplingFails
  <2>1. /\ UNCHANGED <<queue, handle, rest, seen, rate, fate, asked, did, alerted, classified>>
        /\ stage' \in Stages /\ work' = AlertAll(Range(rest))
    BY <1>4 DEF SamplingFails, Stages, historyVars
  <2>2. QED
    BY <1>1, <2>1 DEF HookTypes
<1>5. CASE BatchDone
  <2>1. /\ UNCHANGED <<queue, handle, work, seen, rate, fate, asked, did, alerted, classified>>
        /\ stage' \in Stages /\ rest' = <<>>
    BY <1>5 DEF BatchDone, Stages, historyVars
  <2>2. rest' \in Seq(Emails) /\ IsInjective(rest')
    BY <2>1 DEF IsInjective
  <2>3. QED
    BY <2>1, <2>2 DEF HookTypes
<1>6. QED
  BY <1>2, <1>3, <1>4, <1>5

\* System One takes the next email.
LEMMA TypesArrival == HookTypes /\ ArrivalNext => HookTypes'
<1> SUFFICES ASSUME HookTypes, ArrivalNext PROVE HookTypes'
  OBVIOUS
<1>1. /\ UNCHANGED <<queue, handle, rate, fate, asked, did, alerted, classified>>
      /\ stage' \in Stages
  BY DEF ArrivalNext, Stages, historyVars, HookTypes
<1>2. CASE rest = <<>>
  <2>1. UNCHANGED <<rest, work, seen>>
    BY <1>2 DEF ArrivalNext
  <2>2. QED
    BY <1>1, <2>1 DEF HookTypes
<1>3. CASE rest # <<>>
  <2>1. /\ Head(rest) \in Emails /\ rest' = Tail(rest)
        /\ \E w \in {<<"classify", "alert">>, <<"alert">>} : work' = [work EXCEPT ![Head(rest)] = w]
    BY <1>3 DEF ArrivalNext, HookTypes
  <2>2. rest' \in Seq(Emails) /\ IsInjective(rest')
    BY <1>3, <2>1, TailFields DEF HookTypes
  <2>3. work' \in [Emails -> Seq(AllSteps)]
    <3>1. PICK w \in {<<"classify", "alert">>, <<"alert">>} :
            work' = [work EXCEPT ![Head(rest)] = w]
      BY <2>1
    <3>2. w \in Seq(AllSteps)
      BY OneStep, StepNames DEF AllSteps
    <3>3. QED
      BY <3>1, <3>2 DEF HookTypes
  <2>4. seen' \in Seq(Keys) /\ IsInjective(seen') /\ Len(seen') <= SeenLimit
    <3>1. MessageKey[Head(rest)] \in Keys
      BY <2>1 DEF Keys
    <3>2. /\ SeenLimit \in Nat \ {0} /\ seen \in Seq(Keys) /\ IsInjective(seen)
          /\ Len(seen) <= SeenLimit
      BY HooksConstants DEF HookTypes
    <3> DEFINE grown == Append(seen, MessageKey[Head(rest)])
    <3>3. \/ seen' = seen
          \/ /\ MessageKey[Head(rest)] \notin Range(seen)
             /\ seen' = IF Len(grown) > SeenLimit THEN Tail(grown) ELSE grown
      BY <1>3 DEF ArrivalNext
    <3>4. ASSUME MessageKey[Head(rest)] \notin Range(seen)
          PROVE  /\ grown \in Seq(Keys) /\ IsInjective(grown) /\ Len(grown) = Len(seen) + 1
                 /\ Tail(grown) \in Seq(Keys) /\ IsInjective(Tail(grown))
                 /\ Len(Tail(grown)) = Len(seen)
      <4>1. IsInjective(grown) /\ grown \in Seq(Keys) /\ Len(grown) = Len(seen) + 1
        <5>1. IsInjective(grown)
          BY <3>1, <3>2, <3>4, GrownInjective DEF grown
        <5>2. QED
          BY <3>1, <3>2, <5>1
      <4>2. Len(seen) \in Nat
        BY <3>2
      <4> HIDE DEF grown
      <4>3. grown # <<>>
        BY <4>1, <4>2
      <4>4. /\ Tail(grown) \in Seq(Keys) /\ IsInjective(Tail(grown))
            /\ Len(Tail(grown)) = Len(grown) - 1
        BY <4>1, <4>3, TailFields
      <4>5. QED
        BY <4>1, <4>2, <4>4
    <3> HIDE DEF grown
    <3>5. Len(seen) \in Nat
      BY <3>2
    <3>6. CASE seen' = seen
      BY <3>2, <3>6
    <3>7. CASE /\ MessageKey[Head(rest)] \notin Range(seen)
               /\ Len(grown) > SeenLimit /\ seen' = Tail(grown)
      BY <3>2, <3>4, <3>5, <3>7
    <3>8. CASE /\ MessageKey[Head(rest)] \notin Range(seen)
               /\ ~(Len(grown) > SeenLimit) /\ seen' = grown
      <4>1. grown \in Seq(Keys) /\ IsInjective(grown) /\ Len(grown) = Len(seen) + 1
        BY <3>4, <3>8
      <4>2. QED
        BY <3>2, <3>5, <3>8, <4>1
    <3>9. QED
      BY <3>3, <3>6, <3>7, <3>8
  <2>5. QED
    BY <1>1, <2>2, <2>3, <2>4 DEF HookTypes
<1>4. QED
  BY <1>2, <1>3

(***************************************************************************)
(* The steps of an email, in three kinds.                                  *)
(***************************************************************************)

PlainStep(e) ==
  LET step == Head(work[e])
  IN /\ step \in {"label", "flag", "read", "move", "alert"}
     /\ work' = [work EXCEPT ![e] = Tail(work[e])]
     /\ did' = [did EXCEPT ![e] = did[e] \cup {step}]
     /\ alerted' = IF step = "alert" THEN [alerted EXCEPT ![e] = alerted[e] + 1] ELSE alerted
     /\ UNCHANGED <<seen, classified>>

CalendarStep(e) ==
  LET step == Head(work[e])
  IN /\ step \in {"event", "add", "mark"}
     /\ \E w \in {<<>>, <<"add">>, <<"mark">>} : work' = [work EXCEPT ![e] = w]
     /\ did' = IF step = "event" THEN [did EXCEPT ![e] = did[e] \cup {step}] ELSE did
     /\ UNCHANGED <<alerted, seen, classified>>

ClassifyStep(e) ==
  /\ Head(work[e]) = "classify"
  /\ UNCHANGED <<did, alerted>>
  /\ \/ /\ \E S \in SUBSET {"flag", "move"} :
             work' = [work EXCEPT ![e] = StepsOf(S) \o Tail(work[e])]
        /\ classified' = [classified EXCEPT ![MessageKey[e]] = classified[MessageKey[e]] + 1]
        /\ UNCHANGED seen
     \/ /\ work' = [work EXCEPT ![e] = Tail(work[e])]
        /\ seen' = Kept(seen, Keys \ {MessageKey[e]})
        /\ UNCHANGED classified

\* Every step of an email is of one of the kinds, and leaves the flush alone.
LEMMA StepKinds ==
  ASSUME NEW e \in Emails, EmailStep(e)
  PROVE  /\ UNCHANGED <<queue, handle, stage, rate, rest, fate, asked>>
         /\ work[e] # <<>>
         /\ PlainStep(e) \/ CalendarStep(e) \/ ClassifyStep(e)
<1>1. ASSUME NEW step \in {"label", "flag", "read", "move"}, ImapStep(e, step)
      PROVE  /\ UNCHANGED <<queue, handle, stage, rate, rest, fate, asked>>
             /\ work[e] # <<>> /\ PlainStep(e)
  BY <1>1 DEF ImapStep, Turn, Done, flushVars, PlainStep
<1>2. ASSUME Alert(e)
      PROVE  /\ UNCHANGED <<queue, handle, stage, rate, rest, fate, asked>>
             /\ work[e] # <<>> /\ PlainStep(e)
  BY <1>2 DEF Alert, Turn, Done, flushVars, PlainStep
<1>3. ASSUME EventCheck(e) \/ EventAdd(e) \/ EventMark(e)
      PROVE  /\ UNCHANGED <<queue, handle, stage, rate, rest, fate, asked>>
             /\ work[e] # <<>> /\ CalendarStep(e)
  BY <1>3 DEF EventCheck, EventAdd, EventMark, Turn, flushVars, CalendarStep
<1>4. ASSUME Classify(e)
      PROVE  /\ UNCHANGED <<queue, handle, stage, rate, rest, fate, asked>>
             /\ work[e] # <<>> /\ ClassifyStep(e)
  <2>1. /\ UNCHANGED <<queue, handle, stage, rate, rest, fate, asked, did, alerted>>
        /\ work[e] # <<>> /\ Head(work[e]) = "classify"
    BY <1>4 DEF Classify, Classified, ClassifyFails
  <2>2. CASE Classified(e)
    <3>1. PICK d \in Decisions :
            work' = [work EXCEPT ![e] = StepsOf({s \in {"flag"} : d.kind = "apply" /\ d.flag}
                 \cup {s \in {"move"} : d.kind = "apply" /\ d.destination # Unset}) \o Tail(work[e])]
      BY <2>2 DEF Classified
    <3> DEFINE S == {s \in {"flag"} : d.kind = "apply" /\ d.flag}
                    \cup {s \in {"move"} : d.kind = "apply" /\ d.destination # Unset}
    <3>2. S \in SUBSET {"flag", "move"}
      OBVIOUS
    <3>3. work' = [work EXCEPT ![e] = StepsOf(S) \o Tail(work[e])]
      BY <3>1
    <3> HIDE DEF S
    <3>4. \E T \in SUBSET {"flag", "move"} :
            work' = [work EXCEPT ![e] = StepsOf(T) \o Tail(work[e])]
      BY <3>2, <3>3
    <3>5. QED
      BY <2>1, <2>2, <3>4 DEF Classified, ClassifyStep
  <2>3. CASE ClassifyFails(e)
    BY <2>1, <2>3 DEF ClassifyFails, ClassifyStep
  <2>4. QED
    BY <1>4, <2>2, <2>3 DEF Classify
<1>5. QED
  BY <1>1, <1>2, <1>3, <1>4 DEF EmailStep

\* Every email has a key.
LEMMA KeyOf == \A e \in Emails : MessageKey[e] \in Keys
BY DEF Keys

\* A step of an email keeps the types.
LEMMA TypesEmail ==
  ASSUME HookTypes, NEW e \in Emails, Shape(work[e]), EmailStep(e)
  PROVE  HookTypes'
<1>1. /\ UNCHANGED <<queue, handle, stage, rate, rest, fate, asked>>
      /\ work[e] # <<>> /\ work[e] \in Seq(AllSteps)
  BY StepKinds DEF HookTypes
<1>2. Head(work[e]) \in AllSteps /\ Tail(work[e]) \in Seq(AllSteps)
  BY <1>1, TailShape
<1>3. CASE PlainStep(e)
  BY <1>1, <1>2, <1>3 DEF PlainStep, HookTypes
<1>4. CASE CalendarStep(e)
  <2>1. \A w \in {<<>>, <<"add">>, <<"mark">>} : w \in Seq(AllSteps)
    BY OneStep DEF AllSteps
  <2>2. QED
    BY <1>1, <1>2, <1>4, <2>1 DEF CalendarStep, HookTypes
<1>5. CASE ClassifyStep(e)
  <2>1. work' \in [Emails -> Seq(AllSteps)]
    <3>1. ASSUME NEW S PROVE StepsOf(S) \o Tail(work[e]) \in Seq(AllSteps)
      <4>1. StepsOf(S) \in Seq(AllSteps)
        BY StepsShape
      <4>2. QED
        BY <1>2, <4>1
    <3>2. PICK w \in Seq(AllSteps) : work' = [work EXCEPT ![e] = w]
      BY <1>2, <1>5, <3>1 DEF ClassifyStep
    <3>3. QED
      BY <3>2 DEF HookTypes
  <2>2. classified' \in [Keys -> Nat]
    <3>1. classified \in [Keys -> Nat] /\ classified[MessageKey[e]] + 1 \in Nat
      BY KeyOf DEF HookTypes
    <3>2. QED
      BY <1>5, <3>1 DEF ClassifyStep
  <2>3. seen' \in Seq(Keys) /\ IsInjective(seen') /\ Len(seen') <= SeenLimit
    <3> DEFINE left == Kept(seen, Keys \ {MessageKey[e]})
    <3>1. left \in Seq(Keys) /\ IsInjective(left) /\ Len(left) <= Len(seen)
      BY KeptFields DEF HookTypes
    <3> HIDE DEF left
    <3>2. seen' = seen \/ seen' = left
      BY <1>5 DEF ClassifyStep, left
    <3>3. QED
      BY <3>1, <3>2, HooksConstants DEF HookTypes
  <2>4. QED
    BY <1>1, <1>5, <2>1, <2>2, <2>3 DEF ClassifyStep, HookTypes
<1>6. QED
  BY <1>3, <1>4, <1>5, StepKinds

\* Every step keeps the types.
LEMMA TypesStep == HookTypes /\ (\A e \in Emails : Shape(work[e])) /\ [Next]_vars => HookTypes'
<1> SUFFICES ASSUME HookTypes, \A e \in Emails : Shape(work[e]), [Next]_vars PROVE HookTypes'
  OBVIOUS
<1>1. CASE Start \/ SetSamplingTarget \/ TimerFires
  BY <1>1 DEF Start, SetSamplingTarget, TimerFires, historyVars, HookTypes
<1>2. CASE Stop
  <2>1. /\ UNCHANGED <<stage, rest, work, rate, seen, asked, did, alerted, classified>>
        /\ queue' = <<>> /\ handle' = "none"
        /\ fate' = [e \in Emails |-> IF fate[e] = "queued" THEN "dropped" ELSE fate[e]]
    BY <1>2 DEF Stop, historyVars
  <2>2. /\ Range(queue') = {} /\ IsInjective(queue') /\ queue' \in Seq(Emails)
        /\ Len(queue') <= MaxPending
    BY <2>1, HooksConstants DEF Range, IsInjective
  <2>3. fate' \in [Emails -> Fates] /\ \A e \in Emails : fate'[e] # "queued"
    BY <2>1 DEF HookTypes, Fates
  <2>4. QED
    BY <2>1, <2>2, <2>3 DEF HookTypes
<1>3. CASE RateReset
  BY <1>3, HooksConstants DEF RateReset, historyVars, HookTypes
<1>4. CASE FlushStep
  BY <1>4, TypesBegin, TypesFlush, TypesArrival DEF FlushStep
<1>5. CASE (NotifierNext /\ UNCHANGED hookVars) \/ UNCHANGED vars
  BY <1>5 DEF hookVars, vars, HookTypes
<1>6. QED
  BY <1>1, <1>2, <1>3, <1>4, <1>5, TypesNew, TypesEmail DEF Next

(***************************************************************************)
(* What is taken from the queue is handled in full.                        *)
(***************************************************************************)

\* At first nothing is taken, and nothing is to be done.
LEMMA HandledInit == Init => HandledInv
<1> SUFFICES ASSUME Init PROVE HandledInv
  OBVIOUS
<1>1. /\ stage = "idle" /\ rest = <<>> /\ work = [e \in Emails |-> <<>>]
      /\ fate = [e \in Emails |-> "new"] /\ alerted = [e \in Emails |-> 0]
  BY DEF Init
<1>2. Range(rest) = {}
  BY <1>1, OneStep
<1>3. QED
  BY <1>1, <1>2, OneStep DEF HandledInv, StageOK, Quiet, EmailOK, Awaits

\* An email that a step does not touch.
LEMMA EmailKept ==
  ASSUME NEW f \in Emails, EmailOK(f),
         work'[f] = work[f], alerted'[f] = alerted[f], asked'[f] = asked[f], did'[f] = did[f],
         fate'[f] = "taken" <=> fate[f] = "taken", Awaits(f)' <=> Awaits(f),
         f \in Range(rest') => f \in Range(rest)
  PROVE  EmailOK(f)'
BY DEF EmailOK

\* Steps that change nothing of what is handled.
LEMMA HandledKept ==
  ASSUME HandledInv, UNCHANGED <<stage, rest, work, asked, did, alerted>>,
         \A e \in Emails : fate'[e] = "taken" <=> fate[e] = "taken"
  PROVE  HandledInv'
<1>1. \A e \in Emails : Awaits(e)' <=> Awaits(e)
  BY DEF Awaits
<1>2. \A e \in Emails : EmailOK(e)'
  BY <1>1, EmailKept DEF HandledInv
<1>3. StageOK'
  BY DEF HandledInv, StageOK, Quiet
<1>4. QED
  BY <1>2, <1>3 DEF HandledInv

\* What a flush takes is ruled, with its steps before it, or waits in the rest.
LEMMA HandledBegin == HookTypes /\ HandledInv /\ FlushBegins => HandledInv'
<1> SUFFICES ASSUME HookTypes, HandledInv, FlushBegins PROVE HandledInv'
  OBVIOUS
<1> DEFINE batch == Range(queue)
           ruled == {e \in batch : RuleFor[e] # NoRule}
<1>1. /\ stage = "idle" /\ stage' = (IF batch = {} THEN "idle" ELSE "rules")
      /\ rest' = Kept(queue, batch \ ruled) /\ UNCHANGED <<did, alerted>>
      /\ fate' = [e \in Emails |-> IF e \in batch THEN "taken" ELSE fate[e]]
      /\ work' = [e \in Emails |-> IF e \in ruled THEN StepsOf(asked'[e]) ELSE work[e]]
  BY DEF FlushBegins
<1>2. Range(rest') = batch \ ruled /\ (batch = {} => rest' = <<>>)
  <2>1. rest' \in Seq(Emails) /\ Range(rest') = batch \cap (batch \ ruled)
    BY <1>1, KeptFields DEF HookTypes
  <2>2. batch = {} => rest' = <<>>
    <3>1. rest' # <<>> => rest'[1] \in Range(rest')
      BY <2>1 DEF Range
    <3>2. QED
      BY <2>1, <3>1
  <2>3. QED
    BY <2>1, <2>2
<1>3. \A e \in Emails : /\ e \in ruled => asked'[e] \subseteq Range(Steps) /\ "alert" \in asked'[e]
                        /\ e \in batch \ ruled => asked'[e] = {"alert"}
                        /\ e \notin batch => asked'[e] = asked[e]
  <2> DEFINE new(e) == IF e \in ruled
                    THEN (RuleFor[e] \cap Range(Steps)) \cup {"alert"}
                         \cup {s \in {"event"} : config.autoCalendar /\ "noevent" \notin RuleFor[e]}
                    ELSE IF e \in batch THEN {"alert"} ELSE asked[e]
  <2>1. \A e \in Emails : /\ e \in ruled => new(e) \subseteq Range(Steps) /\ "alert" \in new(e)
                          /\ e \in batch \ ruled => new(e) = {"alert"}
                          /\ e \notin batch => new(e) = asked[e]
    BY StepNames
  <2>2. asked' = [e \in Emails |-> new(e)]
    BY DEF FlushBegins
  <2> HIDE DEF new
  <2>3. \A e \in Emails : asked'[e] = new(e)
    BY <2>2
  <2>4. QED
    BY <2>1, <2>3
<1>4. rest = <<>> /\ Range(rest) = {} /\ \A e \in Emails : work[e] = <<>>
  BY <1>1, OneStep DEF HandledInv, StageOK, Quiet
<1>5. \A e \in Emails : ~Awaits(e)
  BY <1>1 DEF Awaits
<1>6. StageOK'
  <2>1. CASE batch = {}
    BY <1>1, <1>2, <1>4, <2>1 DEF StageOK, Quiet
  <2>2. CASE batch # {}
    BY <1>1, <2>2 DEF StageOK
  <2>3. QED
    BY <2>1, <2>2
<1>7. ASSUME NEW e \in Emails PROVE EmailOK(e)'
  <2>1. EmailOK(e) /\ alerted \in [Emails -> Nat]
    BY DEF HandledInv, HookTypes
  <2>2. CASE e \notin batch
    <3>1. e \notin Range(rest') /\ ~Awaits(e)'
      BY <1>2, <2>2 DEF Awaits
    <3>2. QED
      BY <1>1, <1>3, <1>5, <2>1, <2>2, <3>1, EmailKept
  <2>3. ASSUME e \in batch PROVE fate[e] # "taken" /\ alerted'[e] = 0 /\ fate'[e] = "taken"
    BY <1>1, <2>1, <2>3 DEF EmailOK, HookTypes
  <2>4. CASE e \in ruled
    <3>1. Shape(work'[e]) /\ Range(work'[e]) = asked'[e] /\ "alert" \in asked'[e]
      <4>1. work'[e] = StepsOf(asked'[e]) /\ asked'[e] \subseteq Range(Steps) /\ "alert" \in asked'[e]
        BY <1>1, <1>3, <2>4
      <4> DEFINE S == asked'[e]
      <4>2. Shape(StepsOf(S)) /\ Range(StepsOf(S)) = S \cap Range(Steps)
        BY StepsShape, StepNames
      <4>3. QED
        BY <4>1, <4>2
    <3>2. ~Awaits(e)'
      BY <1>2, <2>4 DEF Awaits
    <3>3. QED
      BY <2>3, <2>4, <3>1, <3>2 DEF EmailOK
  <2>5. CASE e \in batch \ ruled
    <3>1. Awaits(e)' /\ work'[e] = <<>> /\ asked'[e] = {"alert"}
      BY <1>1, <1>2, <1>3, <1>4, <2>5 DEF Awaits
    <3>2. QED
      BY <2>3, <2>5, <3>1, OneStep DEF EmailOK
  <2>6. QED
    BY <2>2, <2>4, <2>5
<1>8. QED
  BY <1>6, <1>7 DEF HandledInv

\* The rest is announced, in one way or the other.
LEMMA RestTold ==
  ASSUME HookTypes, HandledInv, stage \in {"rules", "sampling"}, stage' = "batch",
         UNCHANGED <<rest, fate, did, alerted>>,
         \A e \in Emails :
           IF e \in Range(rest)
           THEN /\ Shape(work'[e]) /\ "alert" \in Range(work'[e])
                /\ asked'[e] \subseteq Range(work'[e])
           ELSE work'[e] = work[e] /\ asked'[e] = asked[e]
  PROVE  HandledInv'
<1>1. StageOK'
  BY DEF StageOK
<1>2. ASSUME NEW e \in Emails PROVE EmailOK(e)'
  <2>1. EmailOK(e) /\ ~Awaits(e)'
    BY DEF HandledInv, Awaits
  <2>2. CASE e \in Range(rest)
    <3>1. Awaits(e)
      BY <2>2 DEF Awaits
    <3>2. fate[e] = "taken" /\ alerted[e] = 0
      BY <2>1, <2>2, <3>1 DEF EmailOK
    <3>3. QED
      BY <2>1, <2>2, <3>2 DEF EmailOK
  <2>3. CASE e \notin Range(rest)
    <3>1. ~Awaits(e)
      BY <2>3 DEF Awaits
    <3>2. QED
      BY <2>1, <2>3, <3>1, EmailKept
  <2>4. QED
    BY <2>2, <2>3
<1>3. QED
  BY <1>1, <1>2 DEF HandledInv

\* The flush decides about the rest, and ends when no step is left.
LEMMA HandledFlush ==
  HookTypes /\ HandledInv /\ (Residue \/ TriageAnswered \/ SamplingFails \/ BatchDone)
  => HandledInv'
<1> SUFFICES ASSUME HookTypes, HandledInv, Residue \/ TriageAnswered \/ SamplingFails \/ BatchDone
             PROVE  HandledInv'
  OBVIOUS
<1>1. ASSUME work' = AlertAll(Range(rest)), UNCHANGED asked, stage \in {"rules", "sampling"}
      PROVE  \A e \in Emails :
               IF e \in Range(rest)
               THEN /\ Shape(work'[e]) /\ "alert" \in Range(work'[e])
                    /\ asked'[e] \subseteq Range(work'[e])
               ELSE work'[e] = work[e] /\ asked'[e] = asked[e]
  <2>1. "alert" \in AllSteps \ {"classify"}
    BY StepNames DEF AllSteps
  <2>2. Shape(<<"alert">>) /\ Range(<<"alert">>) = {"alert"}
    BY <2>1, OneStep
  <2>3. \A e \in Emails : e \in Range(rest) => asked[e] = {"alert"}
    BY <1>1 DEF HandledInv, EmailOK, Awaits
  <2>4. \A e \in Emails : work'[e] = IF e \in Range(rest) THEN <<"alert">> ELSE work[e]
    BY <1>1 DEF AlertAll
  <2>5. QED
    BY <1>1, <2>2, <2>3, <2>4
<1>2. CASE Residue
  <2>1. /\ stage = "rules" /\ Quiet
        /\ UNCHANGED <<rest, fate, asked, did, alerted>>
    BY <1>2 DEF Residue, historyVars
  <2>2. CASE UNCHANGED work /\ (stage' = "idle" => rest = <<>>) /\ stage' \in {"idle", "arrival", "sampling"}
    <3>1. \A e \in Emails : Awaits(e)' <=> Awaits(e)
      BY <2>1, <2>2, OneStep DEF Awaits
    <3>2. StageOK'
      BY <2>1, <2>2 DEF StageOK, Quiet
    <3>3. \A e \in Emails : EmailOK(e)'
      BY <2>1, <2>2, <3>1, EmailKept DEF HandledInv
    <3>4. QED
      BY <3>2, <3>3 DEF HandledInv
  <2>3. CASE stage' = "batch" /\ work' = AlertAll(Range(rest))
    BY <1>1, <2>1, <2>3, RestTold
  <2>4. QED
    BY <1>2, <2>2, <2>3 DEF Residue
<1>3. CASE TriageAnswered
  <2>1. PICK S \in [Emails -> SUBSET {"alert", "label", "flag", "event"}] :
          /\ \A e \in Emails : "alert" \in S[e]
          /\ asked' = [e \in Emails |-> IF e \in Range(rest) THEN S[e] ELSE asked[e]]
          /\ work' = [e \in Emails |-> IF e \in Range(rest) THEN StepsOf(S[e]) ELSE work[e]]
    BY <1>3, TriageSteps
  <2>2. \A e \in Emails : Shape(StepsOf(S[e])) /\ Range(StepsOf(S[e])) = S[e]
    BY StepsShape
  <2>3. stage = "sampling" /\ stage' = "batch" /\ UNCHANGED <<rest, fate, did, alerted>>
    BY <1>3 DEF TriageAnswered
  <2>4. QED
    BY <2>1, <2>2, <2>3, RestTold
<1>4. CASE SamplingFails
  <2>1. /\ stage = "sampling" /\ stage' = "batch" /\ work' = AlertAll(Range(rest))
        /\ UNCHANGED <<rest, fate, asked, did, alerted>>
    BY <1>4 DEF SamplingFails, historyVars
  <2>2. QED
    BY <1>1, <2>1, RestTold
<1>5. CASE BatchDone
  <2>1. /\ stage = "batch" /\ Quiet /\ stage' = "idle" /\ rest' = <<>>
        /\ UNCHANGED <<work, fate, asked, did, alerted>>
    BY <1>5 DEF BatchDone, historyVars
  <2>2. StageOK'
    BY <2>1 DEF StageOK, Quiet
  <2>3. \A e \in Emails : ~Awaits(e) /\ ~Awaits(e)' /\ e \notin Range(rest')
    BY <2>1, OneStep DEF Awaits
  <2>4. \A e \in Emails : EmailOK(e)'
    BY <2>1, <2>3, EmailKept DEF HandledInv
  <2>5. QED
    BY <2>2, <2>4 DEF HandledInv
<1>6. QED
  BY <1>2, <1>3, <1>4, <1>5

\* System One takes an email from the rest and leaves it with its alert.
LEMMA HandledArrival == HookTypes /\ HandledInv /\ ArrivalNext => HandledInv'
<1> SUFFICES ASSUME HookTypes, HandledInv, ArrivalNext PROVE HandledInv'
  OBVIOUS
<1>1. stage = "arrival" /\ Quiet /\ UNCHANGED <<fate, asked, did, alerted>>
  BY DEF ArrivalNext, historyVars
<1>2. CASE rest = <<>>
  <2>1. stage' = "idle" /\ UNCHANGED <<rest, work>>
    BY <1>2 DEF ArrivalNext
  <2>2. \A e \in Emails : ~Awaits(e) /\ ~Awaits(e)'
    BY <1>2, <2>1, OneStep DEF Awaits
  <2>3. StageOK'
    BY <1>1, <1>2, <2>1 DEF StageOK, Quiet
  <2>4. \A e \in Emails : EmailOK(e)'
    BY <1>1, <2>1, <2>2, EmailKept DEF HandledInv
  <2>5. QED
    BY <2>3, <2>4 DEF HandledInv
<1>3. CASE rest # <<>>
  <2>0. PICK e : e = Head(rest)
    OBVIOUS
  <2>1. /\ stage' = "arrival" /\ rest' = Tail(rest)
        /\ \E w \in {<<"classify", "alert">>, <<"alert">>} : work' = [work EXCEPT ![e] = w]
    BY <1>1, <1>3, <2>0 DEF ArrivalNext
  <2>2. e \in Emails /\ Range(rest) = {e} \cup Range(rest') /\ e \notin Range(rest')
    BY <1>3, <2>0, <2>1, TailFields DEF HookTypes
  <2>3. PICK w \in {<<"classify", "alert">>, <<"alert">>} : work' = [work EXCEPT ![e] = w]
    BY <2>1
  <2>4. Shape(w) /\ "alert" \in Range(w)
    <3>1. "alert" \in AllSteps \ {"classify"}
      BY StepNames DEF AllSteps
    <3>2. QED
      BY <3>1, OneStep
  <2>5. StageOK'
    BY <2>1 DEF StageOK
  <2>6. EmailOK(e)'
    <3>1. Awaits(e) /\ ~Awaits(e)'
      BY <1>1, <2>2 DEF Awaits
    <3>2. fate[e] = "taken" /\ alerted[e] = 0 /\ asked[e] = {"alert"}
      BY <2>2, <3>1 DEF HandledInv, EmailOK
    <3>3. work'[e] = w
      BY <2>2, <2>3 DEF HookTypes
    <3>4. QED
      BY <1>1, <2>4, <3>1, <3>2, <3>3 DEF EmailOK
  <2>7. ASSUME NEW f \in Emails, f # e PROVE EmailOK(f)'
    <3>1. Awaits(f)' <=> Awaits(f)
      BY <1>1, <2>1, <2>2, <2>7 DEF Awaits
    <3>2. work'[f] = work[f]
      BY <2>3, <2>7 DEF HookTypes
    <3>3. QED
      BY <1>1, <2>2, <3>1, <3>2, EmailKept DEF HandledInv
  <2>8. QED
    BY <2>5, <2>6, <2>7 DEF HandledInv
<1>4. QED
  BY <1>2, <1>3

\* A step of an email is done, or what was asked is still before it.
LEMMA HandledEmail ==
  ASSUME HookTypes, HandledInv, NEW e \in Emails, EmailStep(e)
  PROVE  HandledInv'
<1> DEFINE w == work[e]
           t == Tail(w)
           step == Head(w)
<1>1. UNCHANGED <<stage, rest, fate, asked>> /\ w # <<>>
  BY StepKinds
<1>2. /\ w \in Seq(AllSteps) /\ Shape(w) /\ EmailOK(e)
      /\ did \in [Emails -> SUBSET AllSteps] /\ alerted \in [Emails -> Nat]
      /\ work \in [Emails -> Seq(AllSteps)] /\ asked[e] \subseteq Range(Steps)
  BY DEF HookTypes, HandledInv, EmailOK
<1>3. /\ fate[e] = "taken" /\ ~Awaits(e) /\ asked[e] \subseteq did[e] \cup Range(w)
      /\ alerted[e] = IF "alert" \in Range(w) THEN 0 ELSE 1
  BY <1>1, <1>2 DEF EmailOK
<1>4. /\ Shape(t) /\ Range(w) = {step} \cup Range(t) /\ step \notin Range(t)
      /\ step \in {"event", "add", "mark"} => t = <<>>
      /\ step = "classify" => w = <<"classify", "alert">>
  BY <1>1, <1>2, TailShape
<1>5. StageOK'
  <2>1. stage \notin {"idle", "sampling"}
    BY <1>1 DEF HandledInv, StageOK, Quiet
  <2>2. QED
    BY <1>1, <2>1 DEF StageOK
<1>6. \A f \in Emails : Awaits(f)' <=> Awaits(f)
  BY <1>1 DEF Awaits
<1>7. \A f \in Emails \ {e} : work'[f] = work[f] /\ did'[f] = did[f] /\ alerted'[f] = alerted[f]
  <2>1. \A f \in Emails \ {e} : work'[f] = work[f]
    BY <1>2, StepKinds DEF PlainStep, CalendarStep, ClassifyStep
  <2>2. \A f \in Emails \ {e} : did'[f] = did[f]
    BY <1>2, StepKinds DEF PlainStep, CalendarStep, ClassifyStep
  <2>3. \A f \in Emails \ {e} : alerted'[f] = alerted[f]
    BY <1>2, StepKinds DEF PlainStep, CalendarStep, ClassifyStep
  <2>4. QED
    BY <2>1, <2>2, <2>3
<1>8. \A f \in Emails \ {e} : EmailOK(f)'
  BY <1>1, <1>6, <1>7, EmailKept DEF HandledInv
<1>9. ASSUME NEW u, work'[e] = u, Shape(u), asked[e] \subseteq did'[e] \cup Range(u),
             alerted'[e] = IF "alert" \in Range(u) THEN 0 ELSE 1
      PROVE  EmailOK(e)'
  BY <1>1, <1>3, <1>6, <1>9 DEF EmailOK
<1> HIDE DEF t
<1>10. CASE PlainStep(e)
  <2>1. work'[e] = t /\ did'[e] = did[e] \cup {step}
    BY <1>2, <1>10 DEF PlainStep, t
  <2>2. alerted'[e] = IF "alert" \in Range(t) THEN 0 ELSE 1
    <3>1. CASE step = "alert"
      <4>1. alerted'[e] = alerted[e] + 1 /\ alerted[e] = 0
        BY <1>2, <1>3, <1>4, <1>10, <3>1 DEF PlainStep
      <4>2. QED
        BY <1>4, <3>1, <4>1
    <3>2. CASE step # "alert"
      BY <1>3, <1>4, <1>10, <3>2 DEF PlainStep
    <3>3. QED
      BY <3>1, <3>2
  <2>3. EmailOK(e)'
    BY <1>3, <1>4, <1>9, <2>1, <2>2
  <2>4. QED
    BY <1>5, <1>8, <2>3 DEF HandledInv
<1>11. CASE CalendarStep(e)
  <2>1. step \in {"event", "add", "mark"} /\ Range(w) = {step} /\ "alert" \notin Range(w)
    BY <1>4, <1>11, OneStep DEF CalendarStep
  <2>2. alerted'[e] = 1
    BY <1>3, <1>11, <2>1 DEF CalendarStep
  <2>3. PICK u \in {<<>>, <<"add">>, <<"mark">>} : work' = [work EXCEPT ![e] = u]
    BY <1>11 DEF CalendarStep
  <2>4. Shape(u) /\ "alert" \notin Range(u)
    BY OneStep DEF AllSteps
  <2>5. asked[e] \subseteq did'[e]
    <3>1. asked[e] \subseteq did[e] \cup {step} /\ {"add", "mark"} \cap asked[e] = {}
      BY <1>2, <1>3, <2>1, StepNames
    <3>2. did'[e] = IF step = "event" THEN did[e] \cup {step} ELSE did[e]
      BY <1>2, <1>11 DEF CalendarStep
    <3>3. QED
      BY <2>1, <3>1, <3>2
  <2>6. work'[e] = u
    BY <1>2, <2>3
  <2>7. EmailOK(e)'
    BY <1>9, <2>2, <2>4, <2>5, <2>6
  <2>8. QED
    BY <1>5, <1>8, <2>7 DEF HandledInv
<1>12. CASE ClassifyStep(e)
  <2>1. w = <<"classify", "alert">> /\ UNCHANGED <<did, alerted>>
    BY <1>4, <1>12 DEF ClassifyStep
  <2>2. t = <<"alert">> /\ Range(t) = {"alert"} /\ "classify" \notin asked[e]
    <3>1. "alert" \in AllSteps /\ "classify" \notin asked[e]
      BY <1>2, StepNames DEF AllSteps
    <3>2. t = <<"alert">>
      BY <2>1 DEF t
    <3>3. QED
      BY <3>1, <3>2, OneStep
  <2>3. alerted'[e] = 0 /\ asked[e] \subseteq did'[e] \cup {"alert"}
    BY <1>3, <1>4, <2>1, <2>2, OneStep
  <2>4. CASE work' = [work EXCEPT ![e] = t]
    BY <1>2, <1>4, <1>5, <1>8, <1>9, <2>2, <2>3, <2>4 DEF HandledInv
  <2>5. ASSUME NEW S \in SUBSET {"flag", "move"}, work' = [work EXCEPT ![e] = StepsOf(S) \o t]
        PROVE  HandledInv'
    <3> DEFINE u == StepsOf(S) \o <<"alert">>
    <3>1. Shape(u) /\ Range(u) = S \cup {"alert"}
      BY DecidedShape
    <3>2. work'[e] = u
      BY <1>2, <2>2, <2>5
    <3> HIDE DEF u
    <3>3. EmailOK(e)'
      BY <1>9, <2>3, <3>1, <3>2
    <3>4. QED
      BY <1>5, <1>8, <3>3 DEF HandledInv
  <2>6. QED
    BY <1>12, <2>4, <2>5 DEF ClassifyStep, t
<1>13. QED
  BY <1>10, <1>11, <1>12, StepKinds

\* Every step keeps what is handled.
LEMMA HandledStep == HookTypes /\ HandledInv /\ [Next]_vars => HandledInv'
<1> SUFFICES ASSUME HookTypes, HandledInv, [Next]_vars PROVE HandledInv'
  OBVIOUS
<1>1. CASE Start \/ SetSamplingTarget \/ RateReset \/ TimerFires
           \/ (NotifierNext /\ UNCHANGED hookVars) \/ UNCHANGED vars
  BY <1>1, HandledKept
     DEF Start, SetSamplingTarget, RateReset, TimerFires, historyVars, hookVars, vars
<1>2. CASE Stop
  <2>1. UNCHANGED <<stage, rest, work, asked, did, alerted>>
    BY <1>2 DEF Stop, historyVars
  <2>2. \A e \in Emails : fate'[e] = "taken" <=> fate[e] = "taken"
    BY <1>2 DEF Stop
  <2>3. QED
    BY <2>1, <2>2, HandledKept
<1>3. CASE NewEmail
  <2>1. PICK emails \in Events : (\A e \in Range(emails) : fate[e] = "new") /\ OnNewEmail(emails)
    BY <1>3 DEF NewEmail
  <2> DEFINE accepted == SubSeq(emails, 1, Min({Room, Len(emails)}))
  <2>2. /\ UNCHANGED <<stage, rest, work, asked, did, alerted>>
        /\ fate' = [e \in Emails |->
                      IF e \in Range(accepted) THEN "queued"
                      ELSE IF e \in Range(emails) THEN "skipped" ELSE fate[e]]
    BY <2>1 DEF OnNewEmail, historyVars
  <2>3. Range(accepted) \subseteq Range(emails)
    BY <2>1, AcceptedFields
  <2> HIDE DEF accepted
  <2>4. \A e \in Emails : fate'[e] = "taken" <=> fate[e] = "taken"
    BY <2>1, <2>2, <2>3
  <2>5. QED
    BY <2>2, <2>4, HandledKept
<1>4. CASE FlushStep
  BY <1>4, HandledBegin, HandledFlush, HandledArrival DEF FlushStep
<1>5. QED
  BY <1>1, <1>2, <1>3, <1>4, HandledEmail DEF Next

(***************************************************************************)
(* A message is classified once.                                           *)
(***************************************************************************)

\* As many different keys fit into the memory as there are messages.
LEMMA KeysFit ==
  ASSUME NEW s \in Seq(Keys), IsInjective(s)
  PROVE  Len(s) <= Cardinality(Keys) /\ Cardinality(Keys) \in Nat
<1> DEFINE f == [e \in Emails |-> MessageKey[e]]
<1>1. f \in Surjection(Emails, Keys)
  BY DEF Surjection, Keys
<1>2. IsFiniteSet(Keys)
  BY <1>1, HooksConstants, FS_Surjection
<1>3. Len(s) \in Nat /\ s \in [1..Len(s) -> Keys] /\ s \in Injection(1..Len(s), Keys)
  BY DEF Injection
<1>4. Cardinality(1..Len(s)) = Len(s)
  BY <1>3, FS_Interval
<1>5. Cardinality(1..Len(s)) <= Cardinality(Keys)
  BY <1>2, <1>3, FS_Injection
<1>6. QED
  BY <1>2, <1>4, <1>5, FS_CardinalityType

\* At first nothing is classified.
LEMMA ClassInit == Init => ClassInv
<1> SUFFICES ASSUME Init PROVE ClassInv
  OBVIOUS
<1>1. /\ stage = "idle" /\ work = [e \in Emails |-> <<>>]
      /\ classified = [k \in Keys |-> 0]
  BY DEF Init
<1>2. QED
  BY <1>1, OneStep DEF ClassInv, Asks

\* Steps that neither ask System One nor answer.
LEMMA ClassKept ==
  ASSUME ClassInv, UNCHANGED <<stage, work, seen, classified>>
  PROVE  ClassInv'
BY DEF ClassInv, Asks

\* Where no email is left to be classified.
LEMMA ClassUnasked ==
  ASSUME ClassInv, stage' # "arrival", \A e \in Emails : "classify" \notin Range(work'[e]),
         UNCHANGED <<seen, classified>>
  PROVE  ClassInv'
BY DEF ClassInv, Asks

\* No flush but that of System One has an email classified.
LEMMA ClassFlush ==
  HookTypes /\ ClassInv /\ (FlushBegins \/ Residue \/ TriageAnswered \/ SamplingFails \/ BatchDone)
  => ClassInv'
<1> SUFFICES ASSUME HookTypes, ClassInv,
                    FlushBegins \/ Residue \/ TriageAnswered \/ SamplingFails \/ BatchDone
             PROVE  ClassInv'
  OBVIOUS
<1>1. UNCHANGED <<seen, classified>> /\ stage # "arrival"
  BY DEF FlushBegins, Residue, TriageAnswered, SamplingFails, BatchDone, historyVars
<1>2. \A e \in Emails : "classify" \notin Range(work[e])
  BY <1>1 DEF ClassInv, Asks
<1>3. ASSUME NEW S PROVE "classify" \notin Range(StepsOf(S))
  BY StepsShape
<1>4. "classify" \notin Range(<<"alert">>)
  BY OneStep, StepNames DEF AllSteps
<1>5. CASE FlushBegins
  <2>1. stage' \in {"idle", "rules"}
    BY <1>5 DEF FlushBegins
  <2>2. \A e \in Emails : work'[e] = work[e] \/ work'[e] = StepsOf(asked'[e])
    BY <1>5 DEF FlushBegins
  <2>3. QED
    BY <1>1, <1>2, <1>3, <2>1, <2>2, ClassUnasked
<1>6. CASE Residue
  <2>1. Quiet
    BY <1>6 DEF Residue
  <2>2. CASE UNCHANGED work
    <3>1. \A e \in Emails : work'[e] = <<>> /\ ~Asks(e)'
      BY <1>2, <2>1, <2>2 DEF Quiet, Asks
    <3>2. QED
      BY <1>1, <3>1 DEF ClassInv
  <2>3. CASE stage' = "batch" /\ work' = AlertAll(Range(rest))
    BY <1>1, <1>2, <1>4, <2>3, ClassUnasked DEF AlertAll
  <2>4. QED
    BY <1>6, <2>2, <2>3 DEF Residue
<1>7. CASE TriageAnswered
  <2>1. PICK S \in [Emails -> SUBSET {"alert", "label", "flag", "event"}] :
          work' = [e \in Emails |-> IF e \in Range(rest) THEN StepsOf(S[e]) ELSE work[e]]
    BY <1>7, TriageSteps
  <2>2. stage' = "batch"
    BY <1>7 DEF TriageAnswered
  <2>3. QED
    BY <1>1, <1>2, <1>3, <2>1, <2>2, ClassUnasked
<1>8. CASE SamplingFails
  BY <1>1, <1>2, <1>4, <1>8, ClassUnasked DEF SamplingFails, AlertAll
<1>9. CASE BatchDone
  BY <1>1, <1>2, <1>9, ClassUnasked DEF BatchDone
<1>10. QED
  BY <1>5, <1>6, <1>7, <1>8, <1>9

\* The key is remembered before the message is sent to System One.
LEMMA ClassArrival ==
  HookTypes /\ HookTypes' /\ ClassInv /\ Cardinality(Keys) <= SeenLimit /\ ArrivalNext => ClassInv'
<1> SUFFICES ASSUME HookTypes, HookTypes', ClassInv, Cardinality(Keys) <= SeenLimit, ArrivalNext
             PROVE  ClassInv'
  OBVIOUS
<1>1. /\ stage = "arrival" /\ UNCHANGED classified /\ \A e \in Emails : work[e] = <<>>
  BY DEF ArrivalNext, Quiet, historyVars
<1>2. CASE rest = <<>>
  <2>1. stage' = "idle" /\ UNCHANGED <<work, seen>>
    BY <1>2 DEF ArrivalNext
  <2>2. QED
    BY <1>1, <2>1, OneStep, ClassUnasked
<1>3. CASE rest # <<>>
  <2>0. PICK e : e = Head(rest)
    OBVIOUS
  <2>1. e \in Emails /\ stage' = "arrival"
    BY <1>1, <1>3, <2>0 DEF ArrivalNext, HookTypes
  <2> DEFINE key == MessageKey[e]
             claims == InSource[e] /\ key \notin Range(seen)
             grown == Append(seen, key)
  <2>2. /\ work' = [work EXCEPT ![e] = IF claims THEN <<"classify", "alert">> ELSE <<"alert">>]
        /\ seen' = IF ~claims THEN seen
                   ELSE IF Len(grown) > SeenLimit THEN Tail(grown) ELSE grown
    BY <1>3, <2>0 DEF ArrivalNext
  <2>3. key \in Keys
    BY <2>1, KeyOf
  <2>4. claims => /\ seen' = grown /\ Range(seen') = Range(seen) \cup {key}
                  /\ classified[key] = 0
    <3> SUFFICES ASSUME claims PROVE seen' = grown /\ Range(seen') = Range(seen) \cup {key}
                                     /\ classified[key] = 0
      OBVIOUS
    <3>1. seen \in Seq(Keys) /\ IsInjective(seen)
      BY DEF HookTypes
    <3>2. grown \in Seq(Keys) /\ IsInjective(grown) /\ Range(grown) = Range(seen) \cup {key}
      <4>1. IsInjective(grown) /\ Range(grown) = Range(seen) \cup {key}
        BY <2>3, <3>1, GrownInjective
      <4>2. QED
        BY <2>3, <3>1, <4>1
    <3>3. Len(grown) <= SeenLimit
      <4> HIDE DEF grown
      <4>1. Len(grown) <= Cardinality(Keys) /\ Cardinality(Keys) \in Nat /\ Len(grown) \in Nat
        BY <3>2, KeysFit
      <4>2. QED
        BY <4>1, HooksConstants
    <3>4. ~(Len(grown) > SeenLimit)
      <4> HIDE DEF grown
      <4>1. Len(grown) \in Nat /\ SeenLimit \in Nat
        BY <3>2, HooksConstants
      <4>2. QED
        BY <3>3, <4>1
    <3>5. seen' = grown
      BY <2>2, <3>4
    <3>6. classified[key] \in Nat /\ classified[key] <= 1 /\ classified[key] # 1
      BY <2>3 DEF ClassInv, HookTypes
    <3> HIDE DEF grown
    <3>7. Range(seen') = Range(seen) \cup {key}
      BY <3>2, <3>5
    <3>8. classified[key] = 0
      BY <3>6
    <3>9. QED
      BY <3>5, <3>7, <3>8 DEF grown
  <2> HIDE DEF claims, grown
  <2>5. Range(seen) \subseteq Range(seen')
    BY <2>2, <2>4
  <2>6. \A f \in Emails \ {e} : work'[f] = <<>> /\ ~Asks(f)'
    BY <1>1, <2>2, OneStep DEF HookTypes, Asks
  <2>7. ~claims => ~Asks(e)'
    <3>1. "alert" \in AllSteps
      BY StepNames DEF AllSteps
    <3>2. ~claims => work'[e] = <<"alert">>
      BY <2>1, <2>2 DEF HookTypes
    <3>3. QED
      BY <3>1, <3>2, OneStep DEF Asks
  <2>8. QED
    BY <1>1, <2>1, <2>4, <2>5, <2>6, <2>7 DEF ClassInv
<1>4. QED
  BY <1>2, <1>3

\* The answer counts; a failure forgets a key that was never classified.
LEMMA ClassEmail ==
  ASSUME HookTypes, HandledInv, ClassInv, NEW e \in Emails, EmailStep(e)
  PROVE  ClassInv'
<1> DEFINE w == work[e]
           t == Tail(w)
<1>1. UNCHANGED stage /\ w # <<>>
  BY StepKinds
<1>2. /\ w \in Seq(AllSteps) /\ Shape(w)
      /\ work \in [Emails -> Seq(AllSteps)] /\ classified \in [Keys -> Nat]
      /\ seen \in Seq(Keys) /\ IsInjective(seen)
  BY DEF HookTypes, HandledInv, EmailOK
<1>3. "classify" \notin Range(t) /\ (Head(w) = "classify" => w = <<"classify", "alert">>)
  BY <1>1, <1>2, TailShape
<1>4. \A f \in Emails \ {e} : work'[f] = work[f] /\ (Asks(f)' <=> Asks(f))
  BY <1>2, StepKinds DEF PlainStep, CalendarStep, ClassifyStep, Asks
<1>5. stage = "arrival" => \A f \in Emails \ {e} : work[f] = <<>> /\ work'[f] = <<>> /\ ~Asks(f)'
  <2>1. stage = "arrival" => \A f \in Emails \ {e} : work[f] = <<>>
    BY <1>1 DEF ClassInv
  <2>2. QED
    BY <1>4, <2>1, OneStep DEF Asks
<1>6. ~Asks(e)'
  <2>1. CASE PlainStep(e)
    <3>1. work'[e] = t
      BY <1>2, <2>1 DEF PlainStep
    <3>2. QED
      BY <1>3, <3>1 DEF Asks
  <2>2. CASE CalendarStep(e)
    <3>1. PICK u \in {<<>>, <<"add">>, <<"mark">>} : work' = [work EXCEPT ![e] = u]
      BY <2>2 DEF CalendarStep
    <3>2. "classify" \notin Range(u) /\ work'[e] = u
      BY <1>2, <3>1, OneStep DEF AllSteps
    <3>3. QED
      BY <3>2 DEF Asks
  <2>3. CASE ClassifyStep(e)
    <3>1. t = <<"alert">>
      <4>1. w = <<"classify", "alert">>
        BY <1>3, <2>3 DEF ClassifyStep
      <4>2. QED
        BY <4>1
    <3>2. CASE work' = [work EXCEPT ![e] = t]
      BY <1>2, <1>3, <3>2 DEF Asks
    <3>3. ASSUME NEW S \in SUBSET {"flag", "move"}, work' = [work EXCEPT ![e] = StepsOf(S) \o t]
          PROVE  ~Asks(e)'
      <4>1. work'[e] = StepsOf(S) \o <<"alert">>
        BY <1>2, <3>1, <3>3
      <4>2. "classify" \notin Range(StepsOf(S) \o <<"alert">>)
        BY DecidedShape
      <4>3. QED
        BY <4>1, <4>2 DEF Asks
    <3>4. QED
      BY <2>3, <3>2, <3>3 DEF ClassifyStep
  <2>4. QED
    BY <2>1, <2>2, <2>3, StepKinds
<1>7. CASE PlainStep(e) \/ CalendarStep(e)
  <2>1. UNCHANGED <<seen, classified>>
    BY <1>7 DEF PlainStep, CalendarStep
  <2>2. QED
    BY <1>1, <1>4, <1>5, <1>6, <2>1 DEF ClassInv
<1>8. CASE ClassifyStep(e)
  <2> DEFINE key == MessageKey[e]
  <2>1. key \in Keys /\ Asks(e)
    BY <1>2, <1>3, <1>8, OneStep, KeyOf DEF ClassifyStep, Asks
  <2>2. stage = "arrival" /\ key \in Range(seen) /\ classified[key] = 0
    BY <2>1 DEF ClassInv
  <2>3. CASE classified' = [classified EXCEPT ![key] = classified[key] + 1] /\ UNCHANGED seen
    <3>1. classified'[key] = 1 /\ \A k \in Keys \ {key} : classified'[k] = classified[k]
      BY <1>2, <2>1, <2>2, <2>3
    <3>2. QED
      BY <1>1, <1>5, <1>6, <2>2, <2>3, <3>1 DEF ClassInv
  <2>4. CASE UNCHANGED classified /\ seen' = Kept(seen, Keys \ {key})
    <3>1. Range(seen') = Range(seen) \cap (Keys \ {key})
      <4> DEFINE left == Kept(seen, Keys \ {key})
      <4>1. Range(left) = Range(seen) \cap (Keys \ {key})
        BY <1>2, KeptFields
      <4>2. seen' = left
        BY <2>4
      <4> HIDE DEF left
      <4>3. QED
        BY <4>1, <4>2
    <3>2. ASSUME NEW k \in Keys
          PROVE  classified'[k] <= 1 /\ (classified'[k] = 1 => k \in Range(seen'))
      <4>1. classified'[k] <= 1 /\ (classified'[k] = 1 => k \in Range(seen))
        BY <2>4 DEF ClassInv
      <4>2. classified'[key] # 1
        BY <2>2, <2>4
      <4>3. CASE k = key
        BY <4>1, <4>2, <4>3
      <4>4. CASE k # key
        BY <3>1, <4>1, <4>4
      <4>5. QED
        BY <4>3, <4>4
    <3>3. QED
      BY <1>1, <1>5, <1>6, <2>2, <3>2 DEF ClassInv
  <2>5. QED
    BY <1>8, <2>3, <2>4 DEF ClassifyStep
<1>9. QED
  BY <1>7, <1>8, StepKinds

\* Every step keeps a message at one classification, if the memory is large enough.
LEMMA ClassStep ==
  /\ Cardinality(Keys) <= SeenLimit /\ HookTypes /\ HookTypes' /\ HandledInv /\ ClassInv
  /\ [Next]_vars
  => ClassInv'
<1> SUFFICES ASSUME Cardinality(Keys) <= SeenLimit, HookTypes, HookTypes', HandledInv, ClassInv,
                    [Next]_vars
             PROVE  ClassInv'
  OBVIOUS
<1>1. CASE Start \/ SetSamplingTarget \/ RateReset \/ TimerFires \/ Stop \/ NewEmail
           \/ (NotifierNext /\ UNCHANGED hookVars) \/ UNCHANGED vars
  BY <1>1, ClassKept
     DEF Start, SetSamplingTarget, RateReset, TimerFires, Stop, NewEmail, OnNewEmail,
         historyVars, hookVars, vars
<1>2. CASE FlushStep
  BY <1>2, ClassFlush, ClassArrival DEF FlushStep
<1>3. QED
  BY <1>1, <1>2, ClassEmail DEF Next

(***************************************************************************)
(* The alert settings.                                                     *)
(***************************************************************************)

\* The settings are what was loaded.
LEMMA SettingsInit == Init => SettingsInv
<1> SUFFICES ASSUME Init PROVE SettingsInv
  OBVIOUS
<1>1. PICK d \in BOOLEAN : alerts = [desktop |-> d, sound |-> FALSE, threshold |-> High,
                                     webhook |-> FALSE, events |-> {Urgent, High}]
  BY DEF Init, NotifierInit
<1>2. alerts \in AlertsConfig
  BY <1>1 DEF AlertsConfig, Urgency, Urgent, High
<1>3. shown = 0 /\ wanted = alerts /\ mixed = FALSE /\ test = [t \in Tests |-> NoTest]
  BY DEF Init, NotifierInit
<1>4. ~Testing /\ test \in [Tests -> [running : BOOLEAN, desktop : BOOLEAN, sound : BOOLEAN]]
  BY <1>3 DEF Testing, NoTest
<1>5. shown \in 0..MaxDesktop
  BY <1>3, NotifierConstants
<1>6. QED
  BY <1>2, <1>3, <1>4, <1>5 DEF SettingsInv

\* A patch keeps the fields it does not name.
LEMMA PatchedFields ==
  ASSUME NEW c \in AlertsConfig, NEW p, DOMAIN p \subseteq {"desktop", "sound"},
         \A f \in DOMAIN p : p[f] \in BOOLEAN
  PROVE  /\ Patched(c, p) \in AlertsConfig
         /\ \A f \in {"desktop", "sound", "threshold", "webhook", "events"} :
              Patched(c, p)[f] = IF f \in DOMAIN p THEN p[f] ELSE c[f]
<1>1. /\ DOMAIN c = {"desktop", "sound", "threshold", "webhook", "events"}
      /\ c.desktop \in BOOLEAN /\ c.sound \in BOOLEAN /\ c.threshold \in Urgency
      /\ c.webhook \in BOOLEAN /\ c.events \in SUBSET Urgency
  BY DEF AlertsConfig
<1> DEFINE q == Patched(c, p)
<1>2. q = [f \in {"desktop", "sound", "threshold", "webhook", "events"} |->
             IF f \in DOMAIN p THEN p[f] ELSE c[f]]
  BY <1>1 DEF Patched
<1> HIDE DEF q
<1>3. \A f \in {"desktop", "sound", "threshold", "webhook", "events"} :
         q[f] = IF f \in DOMAIN p THEN p[f] ELSE c[f]
  BY <1>2
<1>4. /\ q.desktop \in BOOLEAN /\ q.sound \in BOOLEAN /\ q.threshold \in Urgency
      /\ q.webhook \in BOOLEAN /\ q.events \in SUBSET Urgency
  BY <1>1, <1>3
<1>5. q = [desktop |-> q.desktop, sound |-> q.sound, threshold |-> q.threshold,
           webhook |-> q.webhook, events |-> q.events]
  BY <1>2
<1>6. q \in AlertsConfig
  BY <1>4, <1>5 DEF AlertsConfig
<1>7. QED
  BY <1>3, <1>6 DEF q

\* Settings with the same fields are the same.
LEMMA SameSettings ==
  ASSUME NEW c \in AlertsConfig, NEW d \in AlertsConfig,
         \A f \in {"desktop", "sound", "threshold", "webhook", "events"} : c[f] = d[f]
  PROVE  c = d
<1>1. /\ c = [f \in {"desktop", "sound", "threshold", "webhook", "events"} |-> c[f]]
      /\ d = [f \in {"desktop", "sound", "threshold", "webhook", "events"} |-> d[f]]
  BY DEF AlertsConfig
<1>2. QED
  BY <1>1

\* The desktop cap.
LEMMA ShowFits == shown \in 0..MaxDesktop /\ Show => shown' \in 0..MaxDesktop
BY NotifierConstants DEF Show

\* Steps that leave the settings and the tests alone.
LEMMA SettingsKept ==
  ASSUME SettingsInv, UNCHANGED <<alerts, wanted, mixed, test>>, shown' \in 0..MaxDesktop
  PROVE  SettingsInv'
BY DEF SettingsInv, Testing

\* An update changes the settings and what is wanted alike, or a test runs.
LEMMA SettingsUpdate == SettingsInv /\ UpdateConfig => SettingsInv'
<1> SUFFICES ASSUME SettingsInv, UpdateConfig PROVE SettingsInv'
  OBVIOUS
<1>1. PICK d \in BOOLEAN : /\ alerts' = Patched(alerts, [desktop |-> d])
                           /\ wanted' = Patched(wanted, [desktop |-> d])
  BY DEF UpdateConfig
<1>2. mixed' = (mixed \/ Testing) /\ UNCHANGED <<shown, test>>
  BY DEF UpdateConfig
<1> DEFINE p == [desktop |-> d]
<1>3. DOMAIN p = {"desktop"} /\ p["desktop"] \in BOOLEAN
  OBVIOUS
<1> HIDE DEF p
<1>4. Patched(alerts, p) \in AlertsConfig /\ Patched(wanted, p) \in AlertsConfig
  BY <1>3, PatchedFields DEF SettingsInv
<1>5. alerts' \in AlertsConfig /\ wanted' \in AlertsConfig
  BY <1>1, <1>4 DEF p
<1>6. mixed' \in BOOLEAN
  BY <1>2 DEF SettingsInv, Testing
<1>7. ~mixed' => ~Testing' /\ alerts' = wanted'
  <2> SUFFICES ASSUME ~mixed' PROVE ~Testing' /\ alerts' = wanted'
    OBVIOUS
  <2>1. ~mixed /\ ~Testing
    BY <1>2
  <2>2. alerts = wanted
    BY <2>1 DEF SettingsInv
  <2>3. ~Testing'
    BY <1>2, <2>1 DEF Testing
  <2>4. QED
    BY <1>1, <2>2, <2>3
<1>8. QED
  BY <1>2, <1>5, <1>6, <1>7 DEF SettingsInv

\* A test that is alone holds the settings that are wanted.
LEMMA SettingsBegin ==
  ASSUME SettingsInv, NEW t \in Tests, TestBegins(t)
  PROVE  SettingsInv'
<1>1. PICK s \in BOOLEAN : alerts' = Patched(alerts, [desktop |-> TRUE, sound |-> s])
  BY DEF TestBegins
<1>2. /\ test' = [test EXCEPT ![t] = [running |-> TRUE, desktop |-> alerts.desktop,
                                      sound |-> alerts.sound]]
      /\ mixed' = (mixed \/ Testing) /\ UNCHANGED wanted /\ Show
  BY DEF TestBegins
<1>3. /\ alerts \in AlertsConfig /\ wanted \in AlertsConfig /\ shown \in 0..MaxDesktop
      /\ test \in [Tests -> [running : BOOLEAN, desktop : BOOLEAN, sound : BOOLEAN]]
  BY DEF SettingsInv
<1> DEFINE p == [desktop |-> TRUE, sound |-> s]
           q == Patched(alerts, p)
<1>4. DOMAIN p = {"desktop", "sound"} /\ p["desktop"] \in BOOLEAN /\ p["sound"] \in BOOLEAN
  OBVIOUS
<1> HIDE DEF p
<1>5. /\ q \in AlertsConfig
      /\ \A f \in {"threshold", "webhook", "events"} : q[f] = alerts[f]
  BY <1>3, <1>4, PatchedFields
<1>6. alerts' = q
  BY <1>1 DEF p
<1> HIDE DEF q
<1>7. alerts' \in AlertsConfig /\ \A f \in {"threshold", "webhook", "events"} : alerts'[f] = alerts[f]
  BY <1>5, <1>6
<1>8. alerts.desktop \in BOOLEAN /\ alerts.sound \in BOOLEAN
  BY <1>3 DEF AlertsConfig
<1>9. /\ test' \in [Tests -> [running : BOOLEAN, desktop : BOOLEAN, sound : BOOLEAN]]
      /\ test'[t].running = TRUE /\ test'[t].desktop = alerts.desktop
      /\ test'[t].sound = alerts.sound
      /\ \A u \in Tests \ {t} : test'[u].running = test[u].running
  BY <1>2, <1>3, <1>8
<1>10. mixed' \in BOOLEAN /\ shown' \in 0..MaxDesktop
  BY <1>2, <1>3, ShowFits DEF SettingsInv, Testing
<1>11. Testing'
  BY <1>9 DEF Testing
<1>12. ASSUME ~mixed'
       PROVE  /\ \A u \in Tests : test'[u].running <=> u = t
              /\ test'[t].desktop = wanted'.desktop /\ test'[t].sound = wanted'.sound
              /\ \A f \in {"threshold", "webhook", "events"} : alerts'[f] = wanted'[f]
  <2>1. ~mixed /\ ~Testing
    BY <1>2, <1>12
  <2>2. alerts = wanted /\ \A u \in Tests : ~test[u].running
    BY <2>1 DEF SettingsInv, Testing
  <2>3. QED
    BY <1>2, <1>7, <1>9, <2>2
<1>13. wanted' \in AlertsConfig
  BY <1>2, <1>3
<1>14. QED
  BY <1>7, <1>9, <1>10, <1>11, <1>12, <1>13 DEF SettingsInv

\* A test that was alone puts back what is wanted.
LEMMA SettingsEnd ==
  ASSUME SettingsInv, NEW t \in Tests, TestEnds(t)
  PROVE  SettingsInv'
<1>1. /\ test[t].running /\ UNCHANGED <<shown, wanted, mixed>>
      /\ alerts' = Patched(alerts, [desktop |-> test[t].desktop, sound |-> test[t].sound])
      /\ test' = [test EXCEPT ![t] = NoTest]
  BY DEF TestEnds
<1>2. /\ alerts \in AlertsConfig /\ wanted \in AlertsConfig /\ shown \in 0..MaxDesktop
      /\ test \in [Tests -> [running : BOOLEAN, desktop : BOOLEAN, sound : BOOLEAN]]
      /\ mixed \in BOOLEAN
  BY DEF SettingsInv
<1> DEFINE p == [desktop |-> test[t].desktop, sound |-> test[t].sound]
           q == Patched(alerts, p)
<1>3. /\ DOMAIN p = {"desktop", "sound"}
      /\ p["desktop"] = test[t].desktop /\ p["sound"] = test[t].sound
      /\ p["desktop"] \in BOOLEAN /\ p["sound"] \in BOOLEAN
  BY <1>2
<1> HIDE DEF p
<1>4. /\ q \in AlertsConfig
      /\ q["desktop"] = test[t].desktop /\ q["sound"] = test[t].sound
      /\ \A f \in {"threshold", "webhook", "events"} : q[f] = alerts[f]
  BY <1>2, <1>3, PatchedFields
<1>5. alerts' = q
  BY <1>1 DEF p
<1> HIDE DEF q
<1>6. /\ test' \in [Tests -> [running : BOOLEAN, desktop : BOOLEAN, sound : BOOLEAN]]
      /\ test'[t].running = FALSE
      /\ \A u \in Tests \ {t} : test'[u].running = test[u].running
  BY <1>1, <1>2 DEF NoTest
<1>7. ASSUME ~mixed' PROVE ~Testing' /\ alerts' = wanted'
  <2>1. ~mixed /\ Testing
    BY <1>1, <1>7 DEF Testing
  <2>2. PICK s \in Tests :
              /\ \A u \in Tests : test[u].running <=> u = s
              /\ test[s].desktop = wanted.desktop /\ test[s].sound = wanted.sound
              /\ \A f \in {"threshold", "webhook", "events"} : alerts[f] = wanted[f]
    BY <2>1 DEF SettingsInv
  <2>3. s = t
    BY <1>1, <2>2
  <2>4. ~Testing'
    BY <1>6, <2>2, <2>3 DEF Testing
  <2>5. \A f \in {"desktop", "sound", "threshold", "webhook", "events"} : q[f] = wanted[f]
    BY <1>4, <2>2, <2>3
  <2>6. q = wanted
    BY <1>2, <1>4, <2>5, SameSettings
  <2>7. QED
    BY <1>1, <1>5, <2>4, <2>6
<1>8. QED
  BY <1>1, <1>2, <1>4, <1>5, <1>6, <1>7 DEF SettingsInv

\* Every step keeps the settings as they are wanted, as long as tests do not mix.
LEMMA SettingsStep == SettingsInv /\ [Next]_vars => SettingsInv'
<1> SUFFICES ASSUME SettingsInv, [Next]_vars PROVE SettingsInv'
  OBVIOUS
<1>0. shown \in 0..MaxDesktop
  BY DEF SettingsInv
<1>1. ASSUME UNCHANGED notifierVars PROVE SettingsInv'
  BY <1>0, <1>1, SettingsKept DEF notifierVars
<1>2. CASE Start \/ SetSamplingTarget \/ RateReset \/ NewEmail \/ TimerFires \/ FlushStep
  BY <1>1, <1>2
     DEF Start, SetSamplingTarget, RateReset, NewEmail, OnNewEmail, TimerFires, FlushStep,
         FlushBegins, Residue, TriageAnswered, SamplingFails, BatchDone, ArrivalNext
<1>3. CASE Stop
  BY <1>0, <1>3, SettingsKept DEF Stop, NotifierStop
<1>4. ASSUME NEW e \in Emails, EmailStep(e) PROVE SettingsInv'
  <2>1. CASE Alert(e)
    <3>1. PICK priority, force : SendAlert(priority, force)
      BY <2>1 DEF Alert
    <3>2. shown' \in 0..MaxDesktop /\ UNCHANGED <<alerts, wanted, mixed, test>>
      BY <1>0, <3>1, ShowFits DEF SendAlert
    <3>3. QED
      BY <3>2, SettingsKept
  <2>2. CASE ~Alert(e)
    BY <1>1, <1>4, <2>2 DEF EmailStep, ImapStep, Classify, EventCheck, EventAdd, EventMark
  <2>3. QED
    BY <2>1, <2>2
<1>5. CASE NotifierNext
  <2>1. CASE DesktopReset
    BY <2>1, SettingsKept, NotifierConstants DEF DesktopReset
  <2>2. QED
    BY <1>5, <2>1, SettingsUpdate, SettingsBegin, SettingsEnd DEF NotifierNext
<1>6. CASE UNCHANGED vars
  BY <1>1, <1>6 DEF vars
<1>7. QED
  BY <1>2, <1>3, <1>4, <1>5, <1>6 DEF Next

(***************************************************************************)
(* The theorems.                                                           *)
(***************************************************************************)

\* What every reachable state satisfies.
HooksInv == HookTypes /\ HandledInv /\ SettingsInv

\* The invariant holds of every reachable state.
LEMMA HooksInvariant == Spec => []HooksInv
<1>1. Init => HooksInv
  BY TypesInit, HandledInit, SettingsInit DEF HooksInv
<1>2. HooksInv /\ [Next]_vars => HooksInv'
  <2> SUFFICES ASSUME HooksInv, [Next]_vars PROVE HooksInv'
    OBVIOUS
  <2>1. \A e \in Emails : Shape(work[e])
    BY DEF HooksInv, HandledInv, EmailOK
  <2>2. QED
    BY <2>1, TypesStep, HandledStep, SettingsStep DEF HooksInv
<1>3. QED
  BY <1>1, <1>2, PTL DEF Spec

\* The types, for any emails, rules and limits: the queue, the memory of classified
\* messages and the number of desktop alerts keep their bounds (hooks.service.ts:231,
\* mail-arrival/index.ts, notifier.service.ts).
THEOREM HooksTypes == Spec => []HooksTypeOK
<1>1. HooksInv => HooksTypeOK
  <2> SUFFICES ASSUME HooksInv PROVE HooksTypeOK
    OBVIOUS
  <2>1. HookTypes /\ alerts \in AlertsConfig /\ shown \in 0..MaxDesktop
    BY DEF HooksInv, SettingsInv
  <2>2. \A e \in Emails : work[e] \in Seq(Range(Steps) \cup {"classify", "add", "mark"})
    BY <2>1 DEF HookTypes, AllSteps
  <2>3. QED
    BY <2>1, <2>2 DEF HooksTypeOK, HookTypes, Stages
<1>2. QED
  BY <1>1, HooksInvariant, PTL

\* Whatever fails and however flushes, timers and a stop() meet: an email is alerted at
\* most once, and when no flush runs, each email that was taken from the queue was
\* alerted once and each step that was asked for it had its turn (flushBatch).
THEOREM TakenIsHandled == Spec => []HandledInFull
<1>1. HooksInv => HandledInFull
  <2> SUFFICES ASSUME HooksInv, NEW e \in Emails
               PROVE  /\ alerted[e] <= 1
                      /\ stage = "idle" /\ fate[e] = "taken" => alerted[e] = 1 /\ asked[e] \subseteq did[e]
    BY DEF HandledInFull
  <2>1. EmailOK(e) /\ StageOK
    BY DEF HooksInv, HandledInv
  <2>2. alerted[e] \in {0, 1}
    BY <2>1 DEF EmailOK
  <2>3. ASSUME stage = "idle", fate[e] = "taken" PROVE alerted[e] = 1 /\ asked[e] \subseteq did[e]
    <3>1. work[e] = <<>> /\ ~Awaits(e)
      BY <2>1, <2>3 DEF StageOK, Quiet, Awaits
    <3>2. QED
      BY <2>1, <2>3, <3>1, OneStep DEF EmailOK
  <2>4. QED
    BY <2>2, <2>3
<1>2. QED
  BY <1>1, HooksInvariant, PTL

\* System One is asked once about a message, however many copies of it are reported and
\* whatever fails, as long as the memory is large enough for the keys there are
\* (mail-arrival/index.ts, handle).
THEOREM AskedOnce == Spec => []ClassifiedOnce
<1>1. ASSUME Cardinality(Keys) <= SeenLimit PROVE Spec => []ClassInv
  <2>1. HooksInv /\ HooksInv' /\ ClassInv /\ [Next]_vars => ClassInv'
    BY <1>1, ClassStep DEF HooksInv
  <2>2. QED
    BY <2>1, ClassInit, HooksInvariant, PTL DEF Spec
<1>2. ClassInv => ClassifiedOnce
  BY DEF ClassInv, ClassifiedOnce
<1>3. CASE Cardinality(Keys) <= SeenLimit
  BY <1>1, <1>2, <1>3, PTL
<1>4. CASE ~(Cardinality(Keys) <= SeenLimit)
  <2>1. ClassifiedOnce
    BY <1>4 DEF ClassifiedOnce
  <2>2. QED
    BY <2>1, PTL
<1>5. QED
  BY <1>3, <1>4

\* A test notification leaves the alert settings as it found them, unless they were
\* changed or another test began meanwhile (notifier.service.ts, sendTestNotification).
THEOREM TestRestores == Spec => []AlertsKept
<1>1. HooksInv => AlertsKept
  BY DEF HooksInv, SettingsInv, AlertsKept
<1>2. QED
  BY <1>1, HooksInvariant, PTL
==============================================================================
