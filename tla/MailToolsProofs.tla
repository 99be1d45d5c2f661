--------------------------- MODULE MailToolsProofs ---------------------------
(***************************************************************************)
(* The tool calls over one connection, for any number of calls, messages,  *)
(* requests and faults.                                                    *)
(***************************************************************************)
EXTENDS MailTools, FiniteSetTheorems, SequenceTheorems, WellFoundedInduction, TLAPS

(***************************************************************************)
(* The form of a program.                                                  *)
(***************************************************************************)

\* The steps that change nothing, and those that may.
Quiet == {"look", "scan", "fetch", "search", "list", "real", "removable", "spread", "open", "close",
          "lock", "release", "client", "strategy", "sharing", "detected", "refuse", "rate", "ask",
          "readState", "readFile", "template", "sieveOpen", "listScripts", "getScript", "lstat",
          "findEvent", "noApp"}
Changing == {"move", "delete", "discard", "mark", "copy", "deleteCopies", "createMissing",
             "append", "create", "rename", "remove", "smtp", "openNew", "writeFile", "putScript",
             "deleteScript", "setActive", "addEvent", "addReminder", "openIcs"}
Ops == Quiet \cup Changing

Names == Folders \cup {"old", "new", None}
StepType == [do : Ops, in : Names, to : Names, skip : Nat]
Modes == Folders \cup {None}

\* Steps by where they may stand: those that name messages by UID, in the folder that the
\* call names; those that work in the mailbox that is open; those that hold no lock.
ByUid == {"fetch", "move", "delete", "discard", "mark", "copy"}
InBox == {"scan", "search", "deleteCopies", "open", "close", "release"}
Unlocked == {"lock", "client", "strategy", "sharing", "detected", "spread", "smtp", "findEvent",
             "addEvent", "addReminder", "openIcs", "noApp", "putScript", "deleteScript",
             "setActive"}

\* A step of a call on folder f, at a place where the lock of x is held (of none: None).
Fits(s, x, f) ==
  /\ s.do \in ByUid => x = f
  /\ s.do \in InBox => x # None
  /\ s.do = "deleteCopies" => x = Label
  /\ s.do \in Unlocked => x = None
  /\ s.do \in {"lock", "create", "createMissing", "rename"} => s.in \in Folders
  /\ s.do = "rename" => s.to \in Folders
  /\ s.do \in {"putScript", "setActive"} => s.in \in {"old", "new", None}

After(s, x) == IF s.do = "lock" THEN s.in ELSE IF s.do = "release" THEN None ELSE x

Releases(p, i, j) == \E k \in i .. j : p[k].do = "release"

\* m tells the lock that is held before each step.  A FETCH ends right after it began; a
\* catch finds the lock as its try did, or released; what is locked is released.
Course(p, a, b, f, O, m) ==
  /\ m \in [1 .. Len(p) + 1 -> Modes]
  /\ m[1] = a /\ m[Len(p) + 1] = b
  /\ \A i \in 1 .. Len(p) :
       /\ p[i].do \in O /\ Fits(p[i], m[i], f) /\ m[i + 1] = After(p[i], m[i])
       /\ p[i].do = "open" => i < Len(p) /\ p[i + 1].do = "close"
       /\ i + p[i].skip <= Len(p) + 1
       /\ p[i].skip > 0 =>
            m[i + p[i].skip] = IF Releases(p, i, i + p[i].skip - 1) THEN None ELSE m[i]
       /\ m[i] # None => b = m[i] \/ Releases(p, i, Len(p))

\* Steps of O that a call on folder f takes from where the lock of a is held to where that
\* of b is.
Shape(p, a, b, f, O) == p \in Seq(StepType) /\ \E m : Course(p, a, b, f, O, m)

LEMMA ShapeEmpty ==
  ASSUME NEW f, NEW O, NEW a \in Modes
  PROVE  Shape(<<>>, a, a, f, O)
<1>1. Course(<<>>, a, a, f, O, [i \in 1 .. 1 |-> a])
  BY DEF Course
<1>2. QED
  BY <1>1 DEF Shape

LEMMA ShapeOne ==
  ASSUME NEW f, NEW O, NEW a \in Modes, NEW s \in StepType, s.skip = 0, s.do \in O,
         s.do # "open", Fits(s, a, f)
  PROVE  Shape(<<s>>, a, After(s, a), f, O)
<1> DEFINE m == [i \in 1 .. 2 |-> IF i = 1 THEN a ELSE After(s, a)]
<1>0. <<s>> \in Seq(StepType) /\ Len(<<s>>) = 1 /\ <<s>>[1] = s
  OBVIOUS
<1>1. After(s, a) \in Modes
  BY DEF After, Fits, Modes
<1>2. m \in [1 .. Len(<<s>>) + 1 -> Modes] /\ m[1] = a /\ m[Len(<<s>>) + 1] = After(s, a)
  BY <1>0, <1>1
<1>3. a # None => After(s, a) = a \/ s.do = "release"
  BY DEF After, Fits, Unlocked
<1>4. Course(<<s>>, a, After(s, a), f, O, m)
  BY <1>0, <1>2, <1>3 DEF Course, Releases
<1>5. QED
  BY <1>0, <1>4 DEF Shape

LEMMA ShapeLoop ==
  ASSUME NEW f, NEW O, NEW a \in Folders, None \notin Folders, {"open", "close"} \subseteq O
  PROVE  Shape(Loop, a, a, f, O)
<1> DEFINE s == S("open", None)
           t == S("close", None)
           p == <<s>> \o <<t>>
           m == [i \in 1 .. 3 |-> a]
<1>0. Loop = p
  BY DEF Loop, Do
<1>1. s \in StepType /\ t \in StepType
  <2>1. "open" \in Ops /\ "close" \in Ops /\ None \in Names
    BY DEF Ops, Quiet, Names
  <2>2. QED
    BY <2>1 DEF S, StepType
<1>2. p \in Seq(StepType) /\ Len(p) = 2 /\ p[1] = s /\ p[2] = t
  BY <1>1
<1>3. s.do = "open" /\ t.do = "close" /\ s.skip = 0 /\ t.skip = 0
  BY DEF S
<1>4. After(s, a) = a /\ After(t, a) = a /\ Fits(s, a, f) /\ Fits(t, a, f) /\ a \in Modes
  BY <1>3 DEF After, Fits, ByUid, InBox, Unlocked, Modes
<1> HIDE DEF s, t
<1>5. m \in [1 .. Len(p) + 1 -> Modes] /\ m[1] = a /\ m[Len(p) + 1] = a /\ m[2] = a
  BY <1>2, <1>4
<1> HIDE DEF p, m
<1>6. ASSUME NEW i \in 1 .. Len(p)
      PROVE  /\ p[i].do \in O /\ Fits(p[i], m[i], f) /\ m[i + 1] = After(p[i], m[i])
             /\ p[i].do = "open" => i < Len(p) /\ p[i + 1].do = "close"
             /\ i + p[i].skip <= Len(p) + 1 /\ p[i].skip = 0 /\ m[i] = a
  <2>1. i = 1 \/ i = 2
    BY <1>2
  <2>2. QED
    BY <2>1, <1>2, <1>3, <1>4, <1>5
<1>7. Course(p, a, a, f, O, m)
  BY <1>2, <1>5, <1>6 DEF Course
<1>8. QED
  BY <1>0, <1>2, <1>7 DEF Shape, p

LEMMA ShapeJoin ==
  ASSUME NEW f, NEW O, NEW a, NEW b, NEW c, NEW p, NEW q,
         Shape(p, a, b, f, O), Shape(q, b, c, f, O)
  PROVE  Shape(p \o q, a, c, f, O)
<1>1. PICK m : Course(p, a, b, f, O, m)
  BY DEF Shape
<1>2. PICK n : Course(q, b, c, f, O, n)
  BY DEF Shape
<1> DEFINE w == p \o q
           k == [i \in 1 .. Len(w) + 1 |-> IF i <= Len(p) THEN m[i] ELSE n[i - Len(p)]]
<1>3. p \in Seq(StepType) /\ q \in Seq(StepType) /\ Len(p) \in Nat /\ Len(q) \in Nat
  BY DEF Shape
<1>4. /\ w \in Seq(StepType) /\ Len(w) = Len(p) + Len(q)
      /\ \A i \in 1 .. Len(p) : w[i] = p[i]
      /\ \A i \in 1 .. Len(q) : w[Len(p) + i] = q[i]
  BY <1>3
<1>5. m \in [1 .. Len(p) + 1 -> Modes] /\ n \in [1 .. Len(q) + 1 -> Modes] /\ m[1] = a
      /\ m[Len(p) + 1] = b /\ n[1] = b /\ n[Len(q) + 1] = c
  BY <1>1, <1>2 DEF Course
<1> HIDE DEF w
<1>6. \A i \in 1 .. Len(p) + 1 : i \in 1 .. Len(w) + 1 /\ k[i] = m[i]
  <2>1. \A i \in 1 .. Len(p) : i \in 1 .. Len(w) + 1 /\ k[i] = m[i]
    BY <1>3, <1>4
  <2>2. Len(p) + 1 \in 1 .. Len(w) + 1 /\ k[Len(p) + 1] = n[1]
    <3>1. Len(p) + 1 \in 1 .. Len(w) + 1 /\ ~(Len(p) + 1 <= Len(p)) /\ Len(p) + 1 - Len(p) = 1
      BY <1>3, <1>4
    <3>2. QED
      BY <3>1
  <2>3. QED
    BY <1>3, <1>5, <2>1, <2>2
<1>7. \A i \in 1 .. Len(q) + 1 : Len(p) + i \in 1 .. Len(w) + 1 /\ k[Len(p) + i] = n[i]
  BY <1>3, <1>4
<1>8. k \in [1 .. Len(w) + 1 -> Modes] /\ k[1] = a /\ k[Len(w) + 1] = c
  <2>1. ASSUME NEW i \in 1 .. Len(w) + 1
        PROVE  k[i] \in Modes
    <3>1. i <= Len(p) => i \in 1 .. Len(p) + 1
      BY <1>3, <1>4
    <3>2. ~(i <= Len(p)) => i - Len(p) \in 1 .. Len(q) + 1
      BY <1>3, <1>4
    <3>3. QED
      BY <1>5, <3>1, <3>2
  <2>2. k[1] = a
    BY <1>3, <1>5, <1>6
  <2>3. k[Len(w) + 1] = c
    <3>1. Len(q) + 1 \in 1 .. Len(q) + 1 /\ Len(p) + (Len(q) + 1) = Len(w) + 1
      BY <1>3, <1>4
    <3>2. QED
      BY <1>5, <1>7, <3>1
  <2>4. QED
    BY <2>1, <2>2, <2>3
<1> HIDE DEF k
<1>9. ASSUME NEW i, NEW j, i \in 1 .. Len(p), j \in 0 .. Len(p)
      PROVE  Releases(w, i, j) <=> Releases(p, i, j)
  <2>1. \A x \in i .. j : x \in 1 .. Len(p) /\ w[x] = p[x]
    BY <1>3, <1>4, <1>9
  <2>2. QED
    BY <2>1 DEF Releases
<1>10. ASSUME NEW i, NEW j, i \in 1 .. Len(q), j \in 0 .. Len(q)
       PROVE  Releases(w, Len(p) + i, Len(p) + j) <=> Releases(q, i, j)
  <2>1. ASSUME NEW x \in i .. j, q[x].do = "release"
        PROVE  Releases(w, Len(p) + i, Len(p) + j)
    <3>1. x \in 1 .. Len(q) /\ Len(p) + x \in (Len(p) + i) .. (Len(p) + j)
      BY <1>3, <1>10
    <3>2. QED
      BY <1>4, <2>1, <3>1 DEF Releases
  <2>2. ASSUME NEW x \in (Len(p) + i) .. (Len(p) + j), w[x].do = "release"
        PROVE  Releases(q, i, j)
    <3>1. x - Len(p) \in 1 .. Len(q) /\ x - Len(p) \in i .. j /\ Len(p) + (x - Len(p)) = x
      BY <1>3, <1>10
    <3>2. QED
      BY <1>4, <2>2, <3>1 DEF Releases
  <2>3. QED
    BY <2>1, <2>2 DEF Releases
<1>11. ASSUME NEW i \in 1 .. Len(p)
       PROVE  /\ w[i].do \in O /\ Fits(w[i], k[i], f) /\ k[i + 1] = After(w[i], k[i])
              /\ w[i].do = "open" => i < Len(w) /\ w[i + 1].do = "close"
              /\ i + w[i].skip <= Len(w) + 1
              /\ w[i].skip > 0 =>
                   k[i + w[i].skip] = IF Releases(w, i, i + w[i].skip - 1) THEN None ELSE k[i]
              /\ k[i] # None => c = k[i] \/ Releases(w, i, Len(w))
  <2>0. i \in 1 .. Len(p) + 1 /\ i + 1 \in 1 .. Len(p) + 1 /\ i \in 1 .. Len(w)
        /\ p[i].skip \in Nat
    <3>1. p[i] \in StepType
      BY <1>3
    <3>2. QED
      BY <1>3, <1>4, <3>1 DEF StepType
  <2>1. w[i] = p[i] /\ k[i] = m[i] /\ k[i + 1] = m[i + 1]
    BY <1>4, <1>6, <2>0
  <2>2. /\ p[i].do \in O /\ Fits(p[i], m[i], f) /\ m[i + 1] = After(p[i], m[i])
        /\ p[i].do = "open" => i < Len(p) /\ p[i + 1].do = "close"
        /\ i + p[i].skip <= Len(p) + 1
        /\ p[i].skip > 0 =>
             m[i + p[i].skip] = IF Releases(p, i, i + p[i].skip - 1) THEN None ELSE m[i]
        /\ m[i] # None => b = m[i] \/ Releases(p, i, Len(p))
    BY <1>1 DEF Course
  <2>3. w[i].do = "open" => i < Len(w) /\ w[i + 1].do = "close"
    <3>1. i < Len(p) => i + 1 \in 1 .. Len(p)
      BY <1>3
    <3>2. QED
      BY <1>3, <1>4, <2>0, <2>1, <2>2, <3>1
  <2>4. w[i].skip > 0 =>
          k[i + w[i].skip] = IF Releases(w, i, i + w[i].skip - 1) THEN None ELSE k[i]
    <3>1. SUFFICES ASSUME p[i].skip > 0
                   PROVE  k[i + p[i].skip] =
                            IF Releases(w, i, i + p[i].skip - 1) THEN None ELSE k[i]
      BY <2>1
    <3>2. i + p[i].skip \in 1 .. Len(p) + 1 /\ i + p[i].skip - 1 \in 0 .. Len(p)
      BY <1>3, <2>0, <2>2, <3>1
    <3>3. Releases(w, i, i + p[i].skip - 1) <=> Releases(p, i, i + p[i].skip - 1)
      BY <1>9, <3>2
    <3>4. QED
      BY <1>6, <2>1, <2>2, <3>1, <3>2, <3>3
  <2>5. k[i] # None => c = k[i] \/ Releases(w, i, Len(w))
    <3>1. SUFFICES ASSUME m[i] # None, c # m[i]
                   PROVE  Releases(w, i, Len(w))
      BY <2>1
    <3>2. CASE Releases(p, i, Len(p))
      BY <1>3, <1>4, <3>2 DEF Releases
    <3>3. CASE b = m[i]
      <4>1. Len(q) # 0
        BY <1>5, <3>1, <3>3
      <4>2. 1 \in 1 .. Len(q) /\ Len(q) \in 0 .. Len(q)
        BY <1>3, <4>1
      <4>3. Releases(q, 1, Len(q))
        <5>1. n[1] # None => c = n[1] \/ Releases(q, 1, Len(q))
          BY <1>2, <4>2 DEF Course
        <5>2. QED
          BY <1>5, <3>1, <3>3, <5>1
      <4>4. Releases(w, Len(p) + 1, Len(p) + Len(q))
        BY <1>10, <4>2, <4>3
      <4>5. QED
        BY <1>3, <1>4, <4>4 DEF Releases
    <3>4. QED
      BY <2>2, <3>1, <3>2, <3>3
  <2>6. i + w[i].skip <= Len(w) + 1
    BY <1>3, <1>4, <2>0, <2>1, <2>2
  <2>7. QED
    BY <2>1, <2>2, <2>3, <2>4, <2>5, <2>6
<1>12. ASSUME NEW j \in 1 .. Len(q)
       PROVE  LET i == Len(p) + j IN
              /\ w[i].do \in O /\ Fits(w[i], k[i], f) /\ k[i + 1] = After(w[i], k[i])
              /\ w[i].do = "open" => i < Len(w) /\ w[i + 1].do = "close"
              /\ i + w[i].skip <= Len(w) + 1
              /\ w[i].skip > 0 =>
                   k[i + w[i].skip] = IF Releases(w, i, i + w[i].skip - 1) THEN None ELSE k[i]
              /\ k[i] # None => c = k[i] \/ Releases(w, i, Len(w))
  <2> DEFINE i == Len(p) + j
  <2>0. j \in 1 .. Len(q) + 1 /\ j + 1 \in 1 .. Len(q) + 1 /\ i + 1 = Len(p) + (j + 1)
        /\ q[j].skip \in Nat
    <3>1. q[j] \in StepType
      BY <1>3
    <3>2. QED
      BY <1>3, <3>1 DEF StepType
  <2>1. w[i] = q[j] /\ k[i] = n[j] /\ k[i + 1] = n[j + 1]
    BY <1>4, <1>7, <2>0
  <2>2. /\ q[j].do \in O /\ Fits(q[j], n[j], f) /\ n[j + 1] = After(q[j], n[j])
        /\ q[j].do = "open" => j < Len(q) /\ q[j + 1].do = "close"
        /\ j + q[j].skip <= Len(q) + 1
        /\ q[j].skip > 0 =>
             n[j + q[j].skip] = IF Releases(q, j, j + q[j].skip - 1) THEN None ELSE n[j]
        /\ n[j] # None => c = n[j] \/ Releases(q, j, Len(q))
    BY <1>2 DEF Course
  <2>3. w[i].do = "open" => i < Len(w) /\ w[i + 1].do = "close"
    <3>1. j < Len(q) => j + 1 \in 1 .. Len(q)
      BY <1>3
    <3>2. QED
      BY <1>3, <1>4, <2>0, <2>1, <2>2, <3>1
  <2>4. w[i].skip > 0 =>
          k[i + w[i].skip] = IF Releases(w, i, i + w[i].skip - 1) THEN None ELSE k[i]
    <3>1. SUFFICES ASSUME q[j].skip > 0
                   PROVE  k[i + q[j].skip] =
                            IF Releases(w, i, i + q[j].skip - 1) THEN None ELSE k[i]
      BY <2>1
    <3>2. j + q[j].skip \in 1 .. Len(q) + 1 /\ j + q[j].skip - 1 \in 0 .. Len(q)
          /\ i + q[j].skip = Len(p) + (j + q[j].skip)
          /\ i + q[j].skip - 1 = Len(p) + (j + q[j].skip - 1)
      <4>1. PICK x \in Nat : x = q[j].skip
        BY <2>0
      <4>2. j + x <= Len(q) + 1 /\ x > 0
        BY <2>2, <3>1, <4>1
      <4>3. /\ j + x \in 1 .. Len(q) + 1 /\ j + x - 1 \in 0 .. Len(q)
            /\ Len(p) + j + x = Len(p) + (j + x) /\ Len(p) + j + x - 1 = Len(p) + (j + x - 1)
        BY <1>3, <4>2
      <4>4. QED
        BY <4>1, <4>3
    <3>3. Releases(w, i, i + q[j].skip - 1) <=> Releases(q, j, j + q[j].skip - 1)
      BY <1>10, <3>2
    <3>4. QED
      BY <1>7, <2>1, <2>2, <3>1, <3>2, <3>3
  <2>5. k[i] # None => c = k[i] \/ Releases(w, i, Len(w))
    <3>1. Len(q) \in 0 .. Len(q) /\ Len(w) = Len(p) + Len(q)
      BY <1>3, <1>4
    <3>2. Releases(w, i, Len(w)) <=> Releases(q, j, Len(q))
      BY <1>10, <3>1
    <3>3. QED
      BY <2>1, <2>2, <3>2
  <2>6. i + w[i].skip <= Len(w) + 1
    <3>1. PICK x \in Nat : x = q[j].skip
      BY <2>0
    <3>2. j + x <= Len(q) + 1
      BY <2>2, <3>1
    <3>3. Len(p) + j + x <= Len(p) + Len(q) + 1
      BY <1>3, <3>2
    <3>4. QED
      BY <1>4, <2>1, <3>1, <3>3
  <2>7. QED
    BY <2>1, <2>2, <2>3, <2>4, <2>5, <2>6
<1>13. ASSUME NEW i \in 1 .. Len(w)
       PROVE  /\ w[i].do \in O /\ Fits(w[i], k[i], f) /\ k[i + 1] = After(w[i], k[i])
              /\ w[i].do = "open" => i < Len(w) /\ w[i + 1].do = "close"
              /\ i + w[i].skip <= Len(w) + 1
              /\ w[i].skip > 0 =>
                   k[i + w[i].skip] = IF Releases(w, i, i + w[i].skip - 1) THEN None ELSE k[i]
              /\ k[i] # None => c = k[i] \/ Releases(w, i, Len(w))
  <2>1. CASE i <= Len(p)
    <3>1. i \in 1 .. Len(p)
      BY <1>3, <2>1
    <3>2. QED
      BY <1>11, <3>1
  <2>2. CASE ~(i <= Len(p))
    <3>1. i - Len(p) \in 1 .. Len(q) /\ Len(p) + (i - Len(p)) = i
      BY <1>3, <1>4, <2>2
    <3>2. QED
      BY <1>12, <3>1
  <2>3. QED
    BY <2>1, <2>2
<1>14. Course(w, a, c, f, O, k)
  BY <1>8, <1>13 DEF Course
<1>15. QED
  BY <1>4, <1>14 DEF Shape, w

\* A lock with its release.
LEMMA ShapeUnder ==
  ASSUME NEW f, NEW O, NEW g \in Folders, None \notin Folders, {"lock", "release"} \subseteq O,
         NEW p, Shape(p, g, g, f, O)
  PROVE  Shape(Under(g, p), None, None, f, O)
<1> DEFINE s == S("lock", g)
           t == S("release", None)
<1>1. s.do = "lock" /\ s.in = g /\ s.skip = 0 /\ t.do = "release" /\ t.skip = 0
  BY DEF S
<1>2. s \in StepType /\ t \in StepType
  <2>1. "lock" \in Ops /\ "release" \in Ops /\ None \in Names /\ g \in Names
    BY DEF Ops, Quiet, Names
  <2>2. QED
    BY <2>1 DEF S, StepType
<1>3. Fits(s, None, f) /\ Fits(t, g, f)
  BY <1>1 DEF Fits, ByUid, InBox, Unlocked
<1>4. None \in Modes /\ g \in Modes
  BY DEF Modes
<1>5. After(s, None) = g /\ After(t, g) = None
  BY <1>1 DEF After
<1> HIDE DEF s, t
<1>6. Shape(<<s>>, None, g, f, O)
  <2>1. Shape(<<s>>, None, After(s, None), f, O)
    BY <1>1, <1>2, <1>3, <1>4, ShapeOne
  <2>2. QED
    BY <1>5, <2>1
<1>7. Shape(<<t>>, g, None, f, O)
  <2>1. Shape(<<t>>, g, After(t, g), f, O)
    BY <1>1, <1>2, <1>3, <1>4, ShapeOne
  <2>2. QED
    BY <1>5, <2>1
<1>8. Shape(<<s>> \o p, None, g, f, O)
  BY <1>6, ShapeJoin
<1>9. Shape((<<s>> \o p) \o <<t>>, None, None, f, O)
  BY <1>7, <1>8, ShapeJoin
<1>10. QED
  BY <1>9 DEF Under, Do, s, t

\* What Try makes of a list of steps.
LEMMA TryFields ==
  ASSUME NEW p \in Seq(StepType)
  PROVE  /\ Try(p) \in Seq(StepType) /\ Len(Try(p)) = Len(p)
         /\ \A i \in 1 .. Len(p) :
              /\ Try(p)[i] \in StepType /\ p[i] \in StepType
              /\ Try(p)[i].do = p[i].do /\ Try(p)[i].in = p[i].in /\ Try(p)[i].to = p[i].to
              /\ Try(p)[i].skip = IF p[i].skip > 0 THEN p[i].skip ELSE Len(p) - i + 1
<1> DEFINE e(i) == [p[i] EXCEPT !.skip = IF @ > 0 THEN @ ELSE Len(p) - i + 1]
<1>1. Len(p) \in Nat /\ DOMAIN p = 1 .. Len(p) /\ \A i \in 1 .. Len(p) : p[i] \in StepType
  OBVIOUS
<1>2. ASSUME NEW i \in 1 .. Len(p)
      PROVE  /\ e(i) \in StepType /\ e(i).do = p[i].do /\ e(i).in = p[i].in /\ e(i).to = p[i].to
             /\ e(i).skip = IF p[i].skip > 0 THEN p[i].skip ELSE Len(p) - i + 1
  <2>1. p[i] \in StepType
    BY <1>1
  <2>2. p[i].skip \in Nat
    BY <2>1 DEF StepType
  <2>3. PICK x \in Nat : x = IF p[i].skip > 0 THEN p[i].skip ELSE Len(p) - i + 1
    <3>1. PICK y \in Nat, n \in Nat : y = p[i].skip /\ n = Len(p)
      BY <1>1, <2>2
    <3>2. n - i + 1 \in Nat /\ y \in Nat
      BY <3>1
    <3>3. QED
      BY <3>1, <3>2
  <2>4. e(i) = [p[i] EXCEPT !.skip = x]
    BY <2>3
  <2>5. QED
    BY <2>1, <2>3, <2>4 DEF StepType
<1>3. Try(p) = [i \in 1 .. Len(p) |-> e(i)]
  BY <1>1 DEF Try
<1> HIDE DEF e
<1>4. [i \in 1 .. Len(p) |-> e(i)] \in Seq(StepType)
  BY <1>1, <1>2
<1>5. QED
  BY <1>1, <1>2, <1>3, <1>4

\* A try outside of any lock.
LEMMA ShapeTry ==
  ASSUME NEW f, NEW O, NEW p, Shape(p, None, None, f, O)
  PROVE  Shape(Try(p), None, None, f, O)
<1>1. PICK m : Course(p, None, None, f, O, m)
  BY DEF Shape
<1>2. p \in Seq(StepType) /\ Len(p) \in Nat
  BY DEF Shape
<1> DEFINE t == Try(p)
<1>3. /\ t \in Seq(StepType) /\ Len(t) = Len(p)
      /\ \A i \in 1 .. Len(p) :
           /\ t[i].do = p[i].do /\ t[i].in = p[i].in /\ t[i].to = p[i].to
           /\ t[i].skip = IF p[i].skip > 0 THEN p[i].skip ELSE Len(p) - i + 1
           /\ p[i] \in StepType
  BY <1>2, TryFields
<1> HIDE DEF t
<1>4. ASSUME NEW i, i \in 1 .. Len(p), NEW j, j \in 0 .. Len(p)
      PROVE  Releases(t, i, j) <=> Releases(p, i, j)
  <2>1. \A x \in i .. j : x \in 1 .. Len(p) /\ t[x].do = p[x].do
    BY <1>2, <1>3, <1>4
  <2>2. QED
    BY <2>1 DEF Releases
<1>5. m \in [1 .. Len(t) + 1 -> Modes] /\ m[1] = None /\ m[Len(t) + 1] = None
  BY <1>1, <1>3 DEF Course
<1>6. ASSUME NEW i \in 1 .. Len(t)
      PROVE  /\ t[i].do \in O /\ Fits(t[i], m[i], f) /\ m[i + 1] = After(t[i], m[i])
             /\ t[i].do = "open" => i < Len(t) /\ t[i + 1].do = "close"
             /\ i + t[i].skip <= Len(t) + 1
             /\ t[i].skip > 0 =>
                  m[i + t[i].skip] = IF Releases(t, i, i + t[i].skip - 1) THEN None ELSE m[i]
             /\ m[i] # None => None = m[i] \/ Releases(t, i, Len(t))
  <2>1. i \in 1 .. Len(p) /\ p[i].skip \in Nat
    <3>1. i \in 1 .. Len(p) /\ p[i] \in StepType
      BY <1>3
    <3>2. QED
      BY <3>1 DEF StepType
  <2>2. /\ p[i].do \in O /\ Fits(p[i], m[i], f) /\ m[i + 1] = After(p[i], m[i])
        /\ p[i].do = "open" => i < Len(p) /\ p[i + 1].do = "close"
        /\ i + p[i].skip <= Len(p) + 1
        /\ p[i].skip > 0 =>
             m[i + p[i].skip] = IF Releases(p, i, i + p[i].skip - 1) THEN None ELSE m[i]
        /\ m[i] # None => None = m[i] \/ Releases(p, i, Len(p))
    BY <1>1, <2>1 DEF Course
  <2>3. t[i].do \in O /\ Fits(t[i], m[i], f) /\ m[i + 1] = After(t[i], m[i])
    BY <1>3, <2>1, <2>2 DEF Fits, After
  <2>4. t[i].do = "open" => i < Len(t) /\ t[i + 1].do = "close"
    <3>1. i < Len(p) => i + 1 \in 1 .. Len(p)
      BY <1>2, <2>1
    <3>2. QED
      BY <1>3, <2>1, <2>2, <3>1
  <2>5. m[i] # None => Releases(t, i, Len(t))
    <3>1. Len(p) \in 0 .. Len(p)
      BY <1>2
    <3>2. QED
      BY <1>3, <1>4, <2>1, <2>2, <3>1
  <2>6. CASE p[i].skip > 0
    <3>1. t[i].skip = p[i].skip
      BY <1>3, <2>1, <2>6
    <3>2. i + p[i].skip - 1 \in 0 .. Len(p)
      <4>1. PICK x \in Nat : x = p[i].skip
        BY <2>1
      <4>2. i + x <= Len(p) + 1 /\ x > 0
        BY <2>2, <2>6, <4>1
      <4>3. i + x - 1 \in 0 .. Len(p)
        BY <1>2, <2>1, <4>2
      <4>4. QED
        BY <4>1, <4>3
    <3>3. Releases(t, i, i + p[i].skip - 1) <=> Releases(p, i, i + p[i].skip - 1)
      BY <1>4, <2>1, <3>2
    <3>4. QED
      BY <1>3, <2>2, <2>3, <2>4, <2>5, <2>6, <3>1, <3>3
  <2>7. CASE ~(p[i].skip > 0)
    <3>1. t[i].skip = Len(p) - i + 1
      BY <1>3, <2>1, <2>7
    <3>2. i + t[i].skip = Len(t) + 1 /\ i + t[i].skip - 1 = Len(t)
      BY <1>2, <1>3, <2>1, <3>1
    <3>3. m[i + t[i].skip] = None
      BY <1>5, <3>2
    <3>4. QED
      BY <1>2, <1>3, <2>3, <2>4, <2>5, <3>2, <3>3
  <2>8. QED
    BY <2>6, <2>7
<1>7. Course(t, None, None, f, O, m)
  BY <1>5, <1>6 DEF Course
<1>8. QED
  BY <1>3, <1>7 DEF Shape, t

\* A try around one step.
LEMMA ShapeTryOne ==
  ASSUME NEW f, NEW O, NEW a \in Modes, NEW s \in StepType, s.skip = 0, s.do \in O,
         s.do \notin {"open", "lock", "release"}, Fits(s, a, f)
  PROVE  Shape(Try(<<s>>), a, a, f, O)
<1> DEFINE t == Try(<<s>>)
           m == [i \in 1 .. 2 |-> a]
<1>0. <<s>> \in Seq(StepType) /\ Len(<<s>>) = 1 /\ <<s>>[1] = s
  OBVIOUS
<1>1. /\ t \in Seq(StepType) /\ Len(t) = 1
      /\ t[1].do = s.do /\ t[1].in = s.in /\ t[1].to = s.to /\ t[1].skip = 1
  <2>1. 1 \in 1 .. Len(<<s>>)
    BY <1>0
  <2>2. t \in Seq(StepType) /\ Len(t) = 1
    BY <1>0, TryFields
  <2>3. t[1].do = s.do /\ t[1].in = s.in /\ t[1].to = s.to
    BY <1>0, <2>1, TryFields
  <2>4. t[1].skip = IF s.skip > 0 THEN s.skip ELSE 1 - 1 + 1
    BY <1>0, <2>1, TryFields
  <2>5. QED
    BY <2>2, <2>3, <2>4
<1> HIDE DEF t
<1>2. m \in [1 .. Len(t) + 1 -> Modes] /\ m[1] = a /\ m[2] = a /\ m[Len(t) + 1] = a
  BY <1>1
<1> HIDE DEF m
<1>3. /\ t[1].do \in O /\ Fits(t[1], a, f) /\ After(t[1], a) = a /\ t[1].do # "open"
      /\ ~Releases(t, 1, 1)
  BY <1>1 DEF Fits, After, Releases
<1>4. Course(t, a, a, f, O, m)
  BY <1>1, <1>2, <1>3 DEF Course
<1>5. QED
  BY <1>1, <1>4 DEF Shape, t

\* What is left after the first step.
LEMMA ShapeTail ==
  ASSUME NEW f, NEW O, NEW a, NEW b, NEW p, Shape(p, a, b, f, O), p # <<>>
  PROVE  /\ Head(p) \in StepType /\ Head(p).do \in O /\ Fits(Head(p), a, f)
         /\ After(Head(p), a) \in Modes /\ a \in Modes /\ b \in Modes
         /\ Shape(Tail(p), After(Head(p), a), b, f, O)
         /\ Head(p).do = "open" => Tail(p) # <<>> /\ Head(Tail(p)).do = "close"
<1>1. PICK m : Course(p, a, b, f, O, m)
  BY DEF Shape
<1>2. p \in Seq(StepType) /\ Len(p) \in Nat
  BY DEF Shape
<1> DEFINE t == Tail(p)
           k == [i \in 1 .. Len(t) + 1 |-> m[i + 1]]
<1>3. /\ t \in Seq(StepType) /\ Len(t) = Len(p) - 1 /\ 1 \in 1 .. Len(p) /\ Len(t) \in Nat
      /\ \A i \in 1 .. Len(t) : i + 1 \in 1 .. Len(p) /\ t[i] = p[i + 1]
      /\ Head(p) = p[1] /\ p[1] \in StepType
  BY <1>2
<1> HIDE DEF t
<1>4. m \in [1 .. Len(p) + 1 -> Modes] /\ m[1] = a /\ m[Len(p) + 1] = b
  BY <1>1 DEF Course
<1>5. \A i \in 1 .. Len(t) + 1 : i + 1 \in 1 .. Len(p) + 1 /\ k[i] = m[i + 1]
  BY <1>2, <1>3
<1>6. k \in [1 .. Len(t) + 1 -> Modes] /\ k[1] = m[2] /\ k[Len(t) + 1] = b
  <2>1. 1 \in 1 .. Len(t) + 1 /\ Len(t) + 1 \in 1 .. Len(t) + 1 /\ Len(t) + 1 + 1 = Len(p) + 1
        /\ 1 + 1 = 2
    BY <1>2, <1>3
  <2>2. \A i \in 1 .. Len(t) + 1 : m[i + 1] \in Modes
    BY <1>4, <1>5
  <2>3. QED
    BY <1>4, <1>5, <2>1, <2>2
<1> HIDE DEF k
<1>7. /\ p[1].do \in O /\ Fits(p[1], a, f) /\ m[2] = After(p[1], a)
      /\ p[1].do = "open" => 1 < Len(p) /\ p[2].do = "close"
  <2>1. /\ p[1].do \in O /\ Fits(p[1], m[1], f) /\ m[1 + 1] = After(p[1], m[1])
        /\ p[1].do = "open" => 1 < Len(p) /\ p[1 + 1].do = "close"
    BY <1>1, <1>3 DEF Course
  <2>2. 1 + 1 = 2
    OBVIOUS
  <2>3. QED
    BY <1>4, <2>1, <2>2
<1>8. ASSUME NEW i, NEW j, i \in 1 .. Len(t), j \in 0 .. Len(t)
      PROVE  Releases(t, i, j) <=> Releases(p, i + 1, j + 1)
  <2>1. ASSUME NEW x \in i .. j, t[x].do = "release"
        PROVE  Releases(p, i + 1, j + 1)
    <3>1. x \in 1 .. Len(t) /\ x + 1 \in (i + 1) .. (j + 1)
      BY <1>3, <1>8
    <3>2. QED
      BY <1>3, <2>1, <3>1 DEF Releases
  <2>2. ASSUME NEW x \in (i + 1) .. (j + 1), p[x].do = "release"
        PROVE  Releases(t, i, j)
    <3>1. x - 1 \in 1 .. Len(t) /\ x - 1 \in i .. j /\ (x - 1) + 1 = x
      BY <1>3, <1>8
    <3>2. QED
      BY <1>3, <2>2, <3>1 DEF Releases
  <2>3. QED
    BY <2>1, <2>2 DEF Releases
<1>9. ASSUME NEW i \in 1 .. Len(t)
      PROVE  /\ t[i].do \in O /\ Fits(t[i], k[i], f) /\ k[i + 1] = After(t[i], k[i])
             /\ t[i].do = "open" => i < Len(t) /\ t[i + 1].do = "close"
             /\ i + t[i].skip <= Len(t) + 1
             /\ t[i].skip > 0 =>
                  k[i + t[i].skip] = IF Releases(t, i, i + t[i].skip - 1) THEN None ELSE k[i]
             /\ k[i] # None => b = k[i] \/ Releases(t, i, Len(t))
  <2> DEFINE j == i + 1
  <2>1. j \in 1 .. Len(p) /\ t[i] = p[j] /\ k[i] = m[j] /\ k[i + 1] = m[j + 1]
    <3>1. i \in 1 .. Len(t) + 1 /\ i + 1 \in 1 .. Len(t) + 1
      BY <1>3
    <3>2. QED
      BY <1>3, <1>5, <3>1
  <2>2. p[j].skip \in Nat
    <3>1. p[j] \in StepType
      BY <1>2, <2>1
    <3>2. QED
      BY <3>1 DEF StepType
  <2>3. /\ p[j].do \in O /\ Fits(p[j], m[j], f) /\ m[j + 1] = After(p[j], m[j])
        /\ p[j].do = "open" => j < Len(p) /\ p[j + 1].do = "close"
        /\ j + p[j].skip <= Len(p) + 1
        /\ p[j].skip > 0 =>
             m[j + p[j].skip] = IF Releases(p, j, j + p[j].skip - 1) THEN None ELSE m[j]
        /\ m[j] # None => b = m[j] \/ Releases(p, j, Len(p))
    BY <1>1, <2>1 DEF Course
  <2>4. t[i].do = "open" => i < Len(t) /\ t[i + 1].do = "close"
    <3>1. j < Len(p) => i + 1 \in 1 .. Len(t) /\ i < Len(t)
      BY <1>2, <1>3
    <3>2. QED
      BY <1>3, <2>1, <2>3, <3>1
  <2>5. k[i] # None => b = k[i] \/ Releases(t, i, Len(t))
    <3>1. Len(t) \in 0 .. Len(t) /\ Len(t) + 1 = Len(p)
      BY <1>2, <1>3
    <3>2. QED
      BY <1>8, <2>1, <2>3, <3>1
  <2>6. PICK x \in Nat : x = p[j].skip
    BY <2>2
  <2>7. i + x <= Len(t) + 1
    BY <1>2, <1>3, <2>3, <2>6
  <2>8. x > 0 => k[i + x] = IF Releases(t, i, i + x - 1) THEN None ELSE k[i]
    <3>1. SUFFICES ASSUME x > 0 PROVE k[i + x] = IF Releases(t, i, i + x - 1) THEN None ELSE k[i]
      OBVIOUS
    <3>2. /\ i + x \in 1 .. Len(t) + 1 /\ i + x - 1 \in 0 .. Len(t) /\ (i + x) + 1 = j + x
          /\ (i + x - 1) + 1 = j + x - 1
      BY <1>3, <2>7, <3>1
    <3>3. m[j + x] = IF Releases(p, j, j + x - 1) THEN None ELSE m[j]
      BY <2>3, <2>6, <3>1
    <3>4. k[i + x] = m[j + x]
      BY <1>5, <3>2
    <3>5. Releases(t, i, i + x - 1) <=> Releases(p, j, j + x - 1)
      BY <1>8, <3>2
    <3>6. QED
      BY <2>1, <3>3, <3>4, <3>5
  <2>9. QED
    BY <2>1, <2>3, <2>4, <2>5, <2>6, <2>7, <2>8
<1>10. Course(t, k[1], b, f, O, k)
  BY <1>6, <1>9 DEF Course
<1>11. Shape(t, After(Head(p), a), b, f, O)
  BY <1>3, <1>6, <1>7, <1>10 DEF Shape
<1>12. Head(p).do = "open" => t # <<>> /\ Head(t).do = "close"
  <2>1. SUFFICES ASSUME Head(p).do = "open" PROVE t # <<>> /\ Head(t).do = "close"
    OBVIOUS
  <2>2. 1 \in 1 .. Len(t) /\ p[2].do = "close" /\ 1 + 1 = 2
    BY <1>2, <1>3, <1>7, <2>1
  <2>3. t[1] = p[2]
    BY <1>3, <2>2
  <2>4. QED
    BY <1>3, <2>2, <2>3
<1>13. /\ Head(p) \in StepType /\ Head(p).do \in O /\ Fits(Head(p), a, f)
       /\ After(Head(p), a) \in Modes /\ a \in Modes /\ b \in Modes
  <2>1. 1 \in 1 .. Len(p) + 1 /\ 2 \in 1 .. Len(p) + 1 /\ Len(p) + 1 \in 1 .. Len(p) + 1
    BY <1>2, <1>3
  <2>2. QED
    BY <1>3, <1>4, <1>7, <2>1
<1>14. QED
  BY <1>11, <1>12, <1>13 DEF t

\* What is left when the first step throws: nothing, or what is behind its try.
Rest(p) == IF Head(p).skip = 0 THEN <<>> ELSE SubSeq(p, Head(p).skip + 1, Len(p))
Frees(p) == \E i \in 1 .. Len(p) - Len(Rest(p)) : p[i].do = "release"

LEMMA ShapeRest ==
  ASSUME NEW f, NEW O, NEW a, NEW p, Shape(p, a, None, f, O), p # <<>>
  PROVE  /\ Shape(Rest(p), IF Frees(p) THEN None ELSE a, None, f, O)
         /\ Frees(p) => a # None \/ Head(p).do \notin InBox
         /\ a # None => Frees(p) \/ Rest(p) # <<>>
<1>1. PICK m : Course(p, a, None, f, O, m)
  BY DEF Shape
<1>2. p \in Seq(StepType) /\ Len(p) \in Nat /\ 1 \in 1 .. Len(p)
  BY DEF Shape
<1>3. m \in [1 .. Len(p) + 1 -> Modes] /\ m[1] = a /\ m[Len(p) + 1] = None
  BY <1>1 DEF Course
<1>4. Head(p) = p[1] /\ Head(p) \in StepType
  BY <1>2
<1>5. /\ 1 + p[1].skip <= Len(p) + 1
      /\ p[1].skip > 0 =>
           m[1 + p[1].skip] = IF Releases(p, 1, 1 + p[1].skip - 1) THEN None ELSE m[1]
      /\ m[1] # None => None = m[1] \/ Releases(p, 1, Len(p))
      /\ Fits(p[1], m[1], f)
  BY <1>1, <1>2 DEF Course
<1>6. PICK x \in Nat : x = Head(p).skip
  BY <1>4 DEF StepType
<1>7. Frees(p) => a # None \/ Head(p).do \notin InBox
  BY <1>3, <1>4, <1>5 DEF Fits
<1>8. a \in Modes
  BY <1>2, <1>3
<1>9. CASE x = 0
  <2>1. Rest(p) = <<>>
    BY <1>6, <1>9 DEF Rest
  <2>2. Frees(p) <=> Releases(p, 1, Len(p))
    <3>1. Len(p) - Len(Rest(p)) = Len(p)
      BY <1>2, <2>1
    <3>2. QED
      BY <3>1 DEF Frees, Releases
  <2>3. a # None => Frees(p)
    BY <1>3, <1>5, <2>2
  <2>4. (IF Frees(p) THEN None ELSE a) = None
    BY <2>3
  <2>5. Shape(<<>>, None, None, f, O)
    BY ShapeEmpty DEF Modes
  <2>6. QED
    BY <1>7, <2>1, <2>3, <2>4, <2>5
<1>10. CASE x # 0
  <2> DEFINE t == SubSeq(p, x + 1, Len(p))
             k == [i \in 1 .. Len(t) + 1 |-> m[x + i]]
  <2>1. x > 0 /\ x <= Len(p)
    BY <1>2, <1>4, <1>5, <1>6, <1>10
  <2>2. /\ t \in Seq(StepType) /\ Len(t) = Len(p) - x /\ Len(t) \in Nat
        /\ \A i \in 1 .. Len(t) : x + i \in 1 .. Len(p) /\ t[i] = p[x + i]
    <3>1. \A i \in (x + 1) .. Len(p) : p[i] \in StepType
      BY <1>2, <2>1
    <3>2. /\ t \in Seq(StepType) /\ Len(t) = IF x + 1 <= Len(p) THEN Len(p) - (x + 1) + 1 ELSE 0
          /\ \A i \in 1 .. (Len(p) - (x + 1) + 1) : t[i] = p[(x + 1) + i - 1]
      BY <1>2, <2>1, <3>1, SubSeqProperties
    <3>3. Len(t) = Len(p) - x
      BY <1>2, <2>1, <3>2
    <3>4. QED
      BY <1>2, <2>1, <3>2, <3>3
  <2>3. Rest(p) = t
    BY <1>6, <1>10 DEF Rest
  <2> HIDE DEF t
  <2>4. Frees(p) <=> Releases(p, 1, x)
    <3>1. Len(p) - Len(Rest(p)) = x
      BY <1>2, <2>1, <2>2, <2>3
    <3>2. QED
      BY <3>1 DEF Frees, Releases
  <2>5. m[x + 1] = IF Frees(p) THEN None ELSE a
    <3>1. 1 + x = x + 1 /\ 1 + x - 1 = x
      OBVIOUS
    <3>2. x = p[1].skip
      BY <1>4, <1>6
    <3>3. m[1 + x] = IF Releases(p, 1, 1 + x - 1) THEN None ELSE m[1]
      BY <1>5, <2>1, <3>2
    <3>4. QED
      BY <1>3, <2>4, <3>1, <3>3
  <2>6. \A i \in 1 .. Len(t) + 1 : x + i \in 1 .. Len(p) + 1 /\ k[i] = m[x + i]
    BY <1>2, <2>1, <2>2
  <2>7. k \in [1 .. Len(t) + 1 -> Modes] /\ k[1] = m[x + 1] /\ k[Len(t) + 1] = None
    <3>1. 1 \in 1 .. Len(t) + 1 /\ Len(t) + 1 \in 1 .. Len(t) + 1 /\ x + (Len(t) + 1) = Len(p) + 1
      BY <1>2, <2>1, <2>2
    <3>2. \A i \in 1 .. Len(t) + 1 : m[x + i] \in Modes
      BY <1>3, <2>6
    <3>3. QED
      BY <1>3, <2>6, <3>1, <3>2
  <2> HIDE DEF k
  <2>8. ASSUME NEW i, NEW j, i \in 1 .. Len(t), j \in 0 .. Len(t)
        PROVE  Releases(t, i, j) <=> Releases(p, x + i, x + j)
    <3>1. ASSUME NEW y \in i .. j, t[y].do = "release"
          PROVE  Releases(p, x + i, x + j)
      <4>1. y \in 1 .. Len(t) /\ x + y \in (x + i) .. (x + j)
        BY <2>2, <2>8
      <4>2. QED
        BY <2>2, <3>1, <4>1 DEF Releases
    <3>2. ASSUME NEW y \in (x + i) .. (x + j), p[y].do = "release"
          PROVE  Releases(t, i, j)
      <4>1. y - x \in 1 .. Len(t) /\ y - x \in i .. j /\ x + (y - x) = y
        BY <2>2, <2>8
      <4>2. QED
        BY <2>2, <3>2, <4>1 DEF Releases
    <3>3. QED
      BY <3>1, <3>2 DEF Releases
  <2>9. ASSUME NEW i \in 1 .. Len(t)
        PROVE  /\ t[i].do \in O /\ Fits(t[i], k[i], f) /\ k[i + 1] = After(t[i], k[i])
               /\ t[i].do = "open" => i < Len(t) /\ t[i + 1].do = "close"
               /\ i + t[i].skip <= Len(t) + 1
               /\ t[i].skip > 0 =>
                    k[i + t[i].skip] = IF Releases(t, i, i + t[i].skip - 1) THEN None ELSE k[i]
               /\ k[i] # None => None = k[i] \/ Releases(t, i, Len(t))
    <3>0. PICK j : j = x + i
      OBVIOUS
    <3>1. j \in 1 .. Len(p) /\ t[i] = p[j] /\ k[i] = m[j] /\ k[i + 1] = m[j + 1]
      <4>1. i \in 1 .. Len(t) + 1 /\ i + 1 \in 1 .. Len(t) + 1 /\ x + (i + 1) = j + 1
        BY <2>2, <3>0
      <4>2. QED
        BY <2>2, <2>6, <3>0, <4>1
    <3>2. p[j].skip \in Nat
      <4>1. p[j] \in StepType
        BY <1>2, <3>1
      <4>2. QED
        BY <4>1 DEF StepType
    <3>3. /\ p[j].do \in O /\ Fits(p[j], m[j], f) /\ m[j + 1] = After(p[j], m[j])
          /\ p[j].do = "open" => j < Len(p) /\ p[j + 1].do = "close"
          /\ j + p[j].skip <= Len(p) + 1
          /\ p[j].skip > 0 =>
               m[j + p[j].skip] = IF Releases(p, j, j + p[j].skip - 1) THEN None ELSE m[j]
          /\ m[j] # None => None = m[j] \/ Releases(p, j, Len(p))
      BY <1>1, <3>1 DEF Course
    <3>4. t[i].do = "open" => i < Len(t) /\ t[i + 1].do = "close"
      <4>1. j < Len(p) => i + 1 \in 1 .. Len(t) /\ i < Len(t) /\ x + (i + 1) = j + 1
        BY <1>2, <2>2, <3>0
      <4>2. QED
        BY <2>2, <3>1, <3>3, <4>1
    <3>5. k[i] # None => None = k[i] \/ Releases(t, i, Len(t))
      <4>1. Len(t) \in 0 .. Len(t) /\ x + Len(t) = Len(p)
        BY <1>2, <2>2
      <4>2. Releases(t, i, Len(t)) <=> Releases(p, j, Len(p))
        BY <2>8, <3>0, <4>1
      <4>3. QED
        BY <3>1, <3>3, <4>2
    <3>6. PICK y \in Nat : y = p[j].skip
      BY <3>2
    <3>7. i + y <= Len(t) + 1
      <4>1. j + y <= Len(p) + 1
        BY <3>3, <3>6
      <4>2. Len(p) \in Nat
        BY <1>2
      <4>3. QED
        BY <2>2, <3>0, <4>1, <4>2
    <3>8. y > 0 => k[i + y] = IF Releases(t, i, i + y - 1) THEN None ELSE k[i]
      <4>1. SUFFICES ASSUME y > 0 PROVE k[i + y] = IF Releases(t, i, i + y - 1) THEN None ELSE k[i]
        OBVIOUS
      <4>2. /\ i + y \in 1 .. Len(t) + 1 /\ i + y - 1 \in 0 .. Len(t) /\ x + (i + y) = j + y
            /\ x + (i + y - 1) = j + y - 1
        BY <2>2, <3>0, <3>7, <4>1
      <4>3. m[j + y] = IF Releases(p, j, j + y - 1) THEN None ELSE m[j]
        BY <3>3, <3>6, <4>1
      <4>4. k[i + y] = m[j + y]
        BY <2>6, <4>2
      <4>5. Releases(t, i, i + y - 1) <=> Releases(p, j, j + y - 1)
        BY <2>8, <3>0, <4>2
      <4>6. QED
        BY <3>1, <4>3, <4>4, <4>5
    <3>9. QED
      BY <3>1, <3>3, <3>4, <3>5, <3>6, <3>7, <3>8
  <2>10. Course(t, k[1], None, f, O, k)
    BY <2>7, <2>9 DEF Course
  <2>11. Shape(t, IF Frees(p) THEN None ELSE a, None, f, O)
    BY <2>2, <2>5, <2>7, <2>10 DEF Shape
  <2>12. a # None => Frees(p) \/ t # <<>>
    <3>1. SUFFICES ASSUME a # None, ~Frees(p), t = <<>> PROVE FALSE
      OBVIOUS
    <3>2. Len(t) + 1 = 1
      BY <3>1
    <3>3. QED
      BY <2>5, <2>7, <3>1, <3>2
  <2>13. QED
    BY <1>7, <2>3, <2>11, <2>12
<1>11. QED
  BY <1>9, <1>10

(***************************************************************************)
(* The programs of the tools have this form.                               *)
(***************************************************************************)

\* Steps that end under the lock they began under.
Keeps(p, g, f, O) == Shape(p, g, g, f, O)

\* What a call may do besides what changes nothing.
Sending == {"smtp", "createMissing", "append"}
WriteOps(r) ==
  CASE r.tool = "move_email" -> {"move"}
    [] r.tool = "delete_email" -> IF r.permanent THEN {"delete"} ELSE {"move"}
    [] r.tool = "mark_email" -> {"mark"}
    [] r.tool = "bulk_action" -> {"move", "mark"}
    [] r.tool = "save_draft" -> {"createMissing", "append"}
    [] r.tool = "send_draft" -> Sending \cup {"discard"}
    [] r.tool \in {"send_email", "reply_email", "forward_email"} -> Sending
    [] r.tool = "apply_template" -> IF r.action = "preview" THEN {} ELSE Sending
    [] r.tool = "add_label" -> {"copy", "mark"}
    [] r.tool = "remove_label" -> {"deleteCopies", "mark"}
    [] r.tool \in {"create_label", "create_mailbox"} -> {"create"}
    [] r.tool = "rename_mailbox" -> {"rename"}
    [] r.tool \in {"delete_label", "delete_mailbox"} -> {"remove"}
    [] r.tool = "add_to_calendar" -> {"addEvent", "openIcs"}
    [] r.tool = "create_reminder" -> {"addReminder"}
    [] r.tool = "sieve_put_script" -> {"putScript"}
    [] r.tool = "sieve_delete_script" -> {"deleteScript"}
    [] r.tool = "sieve_activate_script" -> {"setActive"}
ReadOps(r) ==
  IF site.readOnly THEN {}
  ELSE IF r.tool = "get_email" THEN {"mark"}
  ELSE IF r.save THEN {"openNew", "writeFile"} ELSE {}
MayUse(r) ==
  Quiet \cup (IF r.tool \in ReadTools THEN ReadOps(r) ELSE IF r.dry THEN {} ELSE WriteOps(r))

LEMMA FolderNames ==
  /\ None \notin Folders /\ Folders \subseteq Names /\ Folders \subseteq Modes
  /\ {None, "old", "new"} \subseteq Names /\ None \in Modes
  /\ {"INBOX", "Drafts", "Sent", "Trash", Label} \subseteq Folders
  BY NoneIsNothing DEF Names, Modes, Folders, SpecialUse, Label

LEMMA StepFields ==
  ASSUME NEW op \in Ops, NEW g \in Names, NEW h \in Names
  PROVE  /\ S(op, g) \in StepType /\ S(op, g).do = op /\ S(op, g).in = g /\ S(op, g).skip = 0
         /\ To(op, g, h) \in StepType /\ To(op, g, h).do = op /\ To(op, g, h).in = g
         /\ To(op, g, h).to = h /\ To(op, g, h).skip = 0
  BY FolderNames DEF S, To, StepType

LEMMA KeepsStep ==
  ASSUME NEW f, NEW O, NEW g \in Modes, NEW s \in StepType, s.skip = 0, s.do \in O,
         s.do \notin {"open", "lock", "release"}, Fits(s, g, f)
  PROVE  Keeps(<<s>>, g, f, O) /\ Keeps(Try(<<s>>), g, f, O)
<1>1. After(s, g) = g
  BY DEF After
<1>2. Shape(<<s>>, g, After(s, g), f, O)
  BY ShapeOne
<1>3. Shape(Try(<<s>>), g, g, f, O)
  BY ShapeTryOne
<1>4. QED
  BY <1>1, <1>2, <1>3 DEF Keeps

\* Steps that may stand anywhere.
Loose == {"look", "list", "real", "removable", "refuse", "rate", "ask", "readState", "readFile",
          "template", "sieveOpen", "listScripts", "getScript", "lstat", "append", "openNew",
          "writeFile", "remove"}
LEMMA KeepsLoose ==
  ASSUME NEW f, NEW O, NEW g \in Modes, NEW op \in Loose, op \in O, NEW h \in Names
  PROVE  Keeps(<<S(op, h)>>, g, f, O) /\ Keeps(Try(<<S(op, h)>>), g, f, O)
<1>1. op \in Ops /\ op \notin {"open", "lock", "release"}
  BY DEF Loose, Ops, Quiet, Changing
<1>2. op \notin ByUid \cup InBox \cup Unlocked
      /\ op \notin {"create", "createMissing", "rename", "putScript", "setActive", "deleteCopies"}
  BY DEF Loose, ByUid, InBox, Unlocked
<1>3. PICK s \in StepType : s = S(op, h) /\ s.do = op /\ s.skip = 0
  BY <1>1, StepFields
<1>4. Fits(s, g, f)
  BY <1>1, <1>2, <1>3 DEF Fits
<1>5. QED
  BY <1>1, <1>3, <1>4, KeepsStep

LEMMA KeepsByUid ==
  ASSUME NEW O, NEW f \in Folders, NEW op \in ByUid, op \in O, NEW h \in Names
  PROVE  /\ Keeps(Do(op), f, f, O) /\ Keeps(Try(Do(op)), f, f, O)
         /\ Keeps(<<To(op, f, h)>>, f, f, O) /\ Keeps(Try(<<To(op, f, h)>>), f, f, O)
<1>1. op \in Ops /\ op \notin {"open", "lock", "release"} /\ f \in Names /\ None \in Names
      /\ f \in Modes
  BY FolderNames DEF ByUid, Ops, Quiet, Changing
<1>2. op \notin InBox \cup Unlocked
      /\ op \notin {"create", "createMissing", "rename", "putScript", "setActive", "deleteCopies"}
  BY DEF ByUid, InBox, Unlocked
<1>3. PICK s \in StepType : s = S(op, None) /\ s.do = op /\ s.skip = 0
  BY <1>1, StepFields
<1>4. PICK t \in StepType : t = To(op, f, h) /\ t.do = op /\ t.skip = 0
  BY <1>1, StepFields
<1>5. Fits(s, f, f) /\ Fits(t, f, f)
  BY <1>1, <1>2, <1>3, <1>4 DEF Fits
<1>6. QED
  BY <1>1, <1>3, <1>4, <1>5, KeepsStep DEF Do

LEMMA KeepsInBox ==
  ASSUME NEW O, NEW f, NEW g \in Folders, NEW op \in {"scan", "search", "deleteCopies"}, op \in O,
         op = "deleteCopies" => g = Label, NEW h \in Names
  PROVE  Keeps(<<S(op, h)>>, g, f, O)
<1>1. op \in Ops /\ op \notin {"open", "lock", "release"} /\ g \in Modes /\ g # None
  BY FolderNames DEF Ops, Quiet, Changing
<1>2. op \notin ByUid \cup Unlocked
      /\ op \notin {"create", "createMissing", "rename", "putScript", "setActive"}
  BY DEF ByUid, Unlocked
<1>3. PICK s \in StepType : s = S(op, h) /\ s.do = op /\ s.skip = 0
  BY <1>1, StepFields
<1>4. Fits(s, g, f)
  BY <1>1, <1>2, <1>3 DEF Fits
<1>5. QED
  BY <1>1, <1>3, <1>4, KeepsStep

LEMMA KeepsUnlocked ==
  ASSUME NEW O, NEW f, NEW op \in Unlocked, op \in O, op # "lock", NEW h \in Names,
         op \in {"putScript", "setActive"} => h \in {"old", "new", None}
  PROVE  Keeps(<<S(op, h)>>, None, f, O)
<1>1. op \in Ops /\ op \notin {"open", "lock", "release"} /\ None \in Modes
  BY FolderNames DEF Unlocked, Ops, Quiet, Changing
<1>2. op \notin ByUid \cup InBox /\ op \notin {"create", "createMissing", "rename", "deleteCopies"}
  BY DEF ByUid, InBox, Unlocked
<1>3. PICK s \in StepType : s = S(op, h) /\ s.do = op /\ s.in = h /\ s.skip = 0
  BY <1>1, StepFields
<1>4. Fits(s, None, f)
  BY <1>1, <1>2, <1>3 DEF Fits
<1>5. QED
  BY <1>1, <1>3, <1>4, KeepsStep

LEMMA KeepsMaking ==
  ASSUME NEW O, NEW f, NEW op \in {"create", "createMissing", "rename"}, op \in O,
         NEW g \in Modes, NEW h \in Folders, NEW k \in Folders
  PROVE  /\ op # "rename" => Keeps(<<S(op, h)>>, g, f, O)
         /\ Keeps(<<To(op, h, k)>>, g, f, O)
<1>1. op \in Ops /\ op \notin {"open", "lock", "release"} /\ h \in Names /\ k \in Names
  BY FolderNames DEF Ops, Quiet, Changing
<1>2. op \notin ByUid \cup InBox \cup Unlocked /\ op \notin {"putScript", "setActive"}
  BY DEF ByUid, InBox, Unlocked
<1>3. PICK s \in StepType : s = S(op, h) /\ s.do = op /\ s.in = h /\ s.skip = 0
  BY <1>1, StepFields
<1>4. PICK t \in StepType : t = To(op, h, k) /\ t.do = op /\ t.in = h /\ t.to = k /\ t.skip = 0
  BY <1>1, StepFields
<1>5. Fits(t, g, f) /\ (op # "rename" => Fits(s, g, f))
  BY <1>1, <1>2, <1>3, <1>4 DEF Fits
<1>6. QED
  BY <1>1, <1>3, <1>4, <1>5, KeepsStep

LEMMA KeepsJoin ==
  ASSUME NEW f, NEW O, NEW g, NEW p, NEW q, Keeps(p, g, f, O), Keeps(q, g, f, O)
  PROVE  Keeps(p \o q, g, f, O)
  BY ShapeJoin DEF Keeps

LEMMA KeepsEmpty ==
  ASSUME NEW f, NEW O, NEW g \in Modes
  PROVE  Keeps(<<>>, g, f, O)
  BY ShapeEmpty DEF Keeps

LEMMA KeepsUnder ==
  ASSUME NEW f, NEW O, Quiet \subseteq O, NEW g \in Folders, NEW p, Keeps(p, g, f, O)
  PROVE  Keeps(Under(g, p), None, f, O)
<1>1. {"lock", "release"} \subseteq O
  BY DEF Quiet
<1>2. QED
  BY <1>1, FolderNames, ShapeUnder DEF Keeps

LEMMA KeepsLoop ==
  ASSUME NEW f, NEW O, Quiet \subseteq O, NEW g \in Folders
  PROVE  Keeps(Loop, g, f, O)
<1>1. {"open", "close"} \subseteq O
  BY DEF Quiet
<1>2. QED
  BY <1>1, FolderNames, ShapeLoop DEF Keeps

LEMMA KeepsTry ==
  ASSUME NEW f, NEW O, NEW p, Keeps(p, None, f, O)
  PROVE  Keeps(Try(p), None, f, O)
  BY ShapeTry DEF Keeps

LEMMA JoinOfTwo ==
  ASSUME NEW s, NEW t
  PROVE  <<s>> \o <<t>> = <<s, t>>
<1> DEFINE p == <<s>> \o <<t>>
           q == <<s, t>>
<1>1. /\ <<s>> \in Seq({s, t}) /\ <<t>> \in Seq({s, t}) /\ q \in Seq({s, t})
      /\ Len(<<s>>) = 1 /\ Len(<<t>>) = 1 /\ Len(q) = 2
      /\ <<s>>[1] = s /\ <<t>>[1] = t /\ q[1] = s /\ q[2] = t
  OBVIOUS
<1>2. p \in Seq({s, t}) /\ Len(p) = 2 /\ p[1] = s /\ p[2] = t
  BY <1>1
<1> HIDE DEF p, q
<1>3. \A i \in 1 .. Len(p) : p[i] = q[i]
  <2>1. \A i \in 1 .. Len(p) : i = 1 \/ i = 2
    BY <1>2
  <2>2. QED
    BY <1>1, <1>2, <2>1
<1>4. p = q
  BY <1>1, <1>2, <1>3, SeqEqual
<1>5. QED
  BY <1>4 DEF p, q

\* What a method reads.
LEMMA ReadingKeeps ==
  ASSUME NEW f \in Folders, NEW O, Quiet \subseteq O
  PROVE  /\ Keeps(Client, None, f, O) /\ Keeps(List, None, f, O)
         /\ Keeps(ListMailboxes, None, f, O)
         /\ \A filtered \in BOOLEAN : Keeps(Listing(f, filtered), None, f, O)
         /\ Keeps(GetEmail(f), None, f, O) /\ Keeps(GetEmailFlags(f), None, f, O)
         /\ Keeps(GetEmailSecurity(f), None, f, O) /\ Keeps(PeekText(f), None, f, O)
         /\ Keeps(PeekAttachments(f), None, f, O) /\ Keeps(DownloadAttachment(f), None, f, O)
         /\ Keeps(ExportEmail(f), None, f, O) /\ Keeps(SaveEmailAttachments(f), None, f, O)
         /\ Keeps(GetThread(f), None, f, O) /\ Keeps(ExtractContacts(f), None, f, O)
         /\ Keeps(GetEmailStats(f), None, f, O) /\ Keeps(GetCalendarParts(f), None, f, O)
         /\ Keeps(GetQuota, None, f, O) /\ Keeps(FindEmailFolder(f), None, f, O)
         /\ Keeps(FetchDraft(f), None, f, O)
<1>1. Keeps(Client, None, f, O) /\ Keeps(Do("spread"), None, f, O)
  <2>1. "client" \in Unlocked /\ "client" \in O /\ "spread" \in Unlocked /\ "spread" \in O
    BY DEF Unlocked, Quiet
  <2>2. QED
    BY <2>1, KeepsUnlocked, FolderNames DEF Client, Do
<1>2. ASSUME NEW g \in Modes
      PROVE  /\ Keeps(Do("look"), g, f, O) /\ Keeps(Try(Do("look")), g, f, O)
             /\ Keeps(Do("list"), g, f, O)
  <2>1. "look" \in Loose /\ "look" \in O /\ "list" \in Loose /\ "list" \in O
    BY DEF Loose, Quiet
  <2>2. QED
    BY <2>1, KeepsLoose, FolderNames DEF Do
<1>3. Keeps(Do("fetch"), f, f, O)
  <2>1. "fetch" \in ByUid /\ "fetch" \in O
    BY DEF ByUid, Quiet
  <2>2. QED
    BY <2>1, KeepsByUid, FolderNames
<1>4. Keeps(Do("scan"), f, f, O)
  <2>1. "scan" \in O
    BY DEF Quiet
  <2>2. QED
    BY <2>1, KeepsInBox, FolderNames DEF Do
<1>5. Keeps(Loop, f, f, O)
  BY KeepsLoop
<1>6. f \in Modes /\ None \in Modes
  BY FolderNames
<1>7. Keeps(<<>>, f, f, O)
  BY <1>6, KeepsEmpty
<1>8. /\ Keeps(Do("look"), f, f, O) /\ Keeps(Try(Do("look")), f, f, O)
      /\ Keeps(Try(Do("look")), None, f, O) /\ Keeps(List, None, f, O)
  BY <1>2, <1>6 DEF List
<1>9. ASSUME NEW p, Keeps(p, f, f, O)
      PROVE  Keeps(Client \o Under(f, p), None, f, O)
  BY <1>1, <1>9, KeepsUnder, KeepsJoin
<1> DEFINE look == Do("look")
           attempt == Try(Do("look"))
           fetch == Do("fetch")
           scan == Do("scan")
<1>10. /\ MessageToEmail = attempt /\ DownloadMimePart = attempt /\ WriteAttachmentParts = attempt
       /\ FetchPreviews = attempt /\ SearchThreadHeaders = attempt /\ DownloadPart = look
       /\ CollectThreadIds = look /\ FetchPage = Loop \o attempt /\ OrderUidsByDate = Loop
       /\ FindThreadUids = attempt \o look
  BY DEF MessageToEmail, DownloadMimePart, WriteAttachmentParts, FetchPreviews,
         SearchThreadHeaders, DownloadPart, CollectThreadIds, FetchPage, OrderUidsByDate,
         FindThreadUids
<1> HIDE DEF look, attempt, fetch, scan
<1>11. /\ Keeps(look, f, f, O) /\ Keeps(attempt, f, f, O) /\ Keeps(attempt, None, f, O)
       /\ Keeps(fetch, f, f, O) /\ Keeps(scan, f, f, O)
  BY <1>3, <1>4, <1>8 DEF look, attempt, fetch, scan
<1>12. Keeps(ListMailboxes, None, f, O) /\ Keeps(GetQuota, None, f, O)
  <2>1. Keeps(Client \o List, None, f, O)
    BY <1>1, <1>8, KeepsJoin
  <2>2. Keeps((Client \o List) \o attempt, None, f, O) /\ Keeps(Client \o attempt, None, f, O)
    BY <1>1, <1>11, <2>1, KeepsJoin
  <2>3. QED
    BY <2>2 DEF ListMailboxes, GetQuota, attempt
<1>13. ASSUME NEW filtered \in BOOLEAN
       PROVE  Keeps(Listing(f, filtered), None, f, O)
  <2>1. PICK q : q = IF filtered THEN Loop ELSE <<>>
    OBVIOUS
  <2>2. Keeps(q, f, f, O)
    BY <1>5, <1>7, <2>1
  <2>3. Keeps(scan \o q, f, f, O)
    BY <1>11, <2>2, KeepsJoin
  <2>4. Keeps((scan \o q) \o Loop, f, f, O)
    BY <1>5, <2>3, KeepsJoin
  <2>5. Keeps(Loop \o attempt, f, f, O)
    BY <1>5, <1>11, KeepsJoin
  <2>6. Keeps(((scan \o q) \o Loop) \o (Loop \o attempt), f, f, O)
    BY <2>4, <2>5, KeepsJoin
  <2>7. Keeps(Client \o Under(f, ((scan \o q) \o Loop) \o (Loop \o attempt)), None, f, O)
    BY <1>9, <2>6
  <2>8. QED
    BY <1>10, <2>1, <2>7 DEF Listing, scan
<1>14. Keeps(GetEmail(f), None, f, O) /\ Keeps(GetEmailFlags(f), None, f, O)
       /\ Keeps(GetEmailSecurity(f), None, f, O)
  <2>1. Keeps(fetch \o attempt, f, f, O)
    BY <1>11, KeepsJoin
  <2>2. QED
    BY <1>9, <1>10, <1>11, <2>1 DEF GetEmail, GetEmailFlags, GetEmailSecurity, fetch
<1>15. Keeps(PeekText(f), None, f, O) /\ Keeps(PeekAttachments(f), None, f, O)
       /\ Keeps(SaveEmailAttachments(f), None, f, O) /\ Keeps(GetCalendarParts(f), None, f, O)
  <2>1. Keeps(look \o attempt, f, f, O) /\ Keeps(look \o look, f, f, O)
    BY <1>11, KeepsJoin
  <2>2. QED
    BY <1>9, <1>10, <1>11, <2>1
       DEF PeekText, PeekAttachments, SaveEmailAttachments, GetCalendarParts, look
<1>16. Keeps(DownloadAttachment(f), None, f, O) /\ Keeps(ExportEmail(f), None, f, O)
  <2>1. Keeps(fetch \o look, f, f, O) /\ Keeps(fetch \o fetch, f, f, O)
    BY <1>11, KeepsJoin
  <2>2. QED
    BY <1>9, <1>10, <2>1 DEF DownloadAttachment, ExportEmail, fetch
<1>17. Keeps(GetThread(f), None, f, O)
  <2>1. Keeps(attempt \o look, f, f, O)
    BY <1>11, KeepsJoin
  <2>2. Keeps((attempt \o look) \o look, f, f, O)
    BY <1>11, <2>1, KeepsJoin
  <2>3. Keeps(((attempt \o look) \o look) \o attempt, f, f, O)
    BY <1>11, <2>2, KeepsJoin
  <2>4. QED
    BY <1>9, <1>10, <2>3 DEF GetThread, look
<1>18. Keeps(ExtractContacts(f), None, f, O) /\ Keeps(GetEmailStats(f), None, f, O)
  <2>1. Keeps(scan \o Loop, f, f, O)
    BY <1>5, <1>11, KeepsJoin
  <2>2. QED
    BY <1>9, <2>1 DEF ExtractContacts, GetEmailStats, scan
<1>19. Keeps(FindEmailFolder(f), None, f, O)
  <2>1. Keeps(Client \o Under(f, fetch), None, f, O)
    BY <1>9, <1>11
  <2>2. QED
    BY <1>1, <2>1, KeepsJoin DEF FindEmailFolder, fetch
<1>20. Keeps(FetchDraft(f), None, f, O)
  <2>1. Keeps(Client \o List, None, f, O)
    BY <1>1, <1>8, KeepsJoin
  <2>2. QED
    BY <1>14, <2>1, KeepsJoin DEF FetchDraft
<1>21. QED
  BY <1>1, <1>8, <1>12, <1>13, <1>14, <1>15, <1>16, <1>17, <1>18, <1>19, <1>20

\* What a method changes.
LEMMA WritingKeeps ==
  ASSUME NEW f \in Folders, NEW O, Quiet \subseteq O
  PROVE  /\ \A g \in Names : "move" \in O =>
              Keeps(MoveEmail(f, g), None, f, O) /\ Keeps(BulkMove(f, g), None, f, O)
         /\ "move" \in O => Keeps(DeleteEmail(f, FALSE), None, f, O)
                            /\ Keeps(BulkDelete(f), None, f, O)
         /\ "delete" \in O => Keeps(DeleteEmail(f, TRUE), None, f, O)
         /\ "mark" \in O => Keeps(SetFlags(f), None, f, O) /\ Keeps(BulkSetFlags(f), None, f, O)
         /\ {"createMissing", "append"} \subseteq O =>
              Keeps(SaveDraft, None, f, O) /\ Keeps(AppendSentMessage, None, f, O)
         /\ "discard" \in O => Keeps(DeleteDraft(f), None, f, O)
         /\ \A g \in Folders :
              /\ "create" \in O => Keeps(CreateMailbox(g), None, f, O)
              /\ "rename" \in O => Keeps(RenameMailbox(f, g), None, f, O)
         /\ "remove" \in O => Keeps(DeleteMailbox(f), None, f, O)
<1>1. Keeps(Client, None, f, O) /\ Keeps(List, None, f, O)
  BY ReadingKeeps
<1>2. f \in Modes /\ None \in Modes /\ f \in Names /\ "Trash" \in Names /\ "Drafts" \in Names
      /\ "Sent" \in Names /\ "Drafts" \in Folders /\ "Sent" \in Folders
  BY FolderNames
<1>3. Keeps(<<S("real", f)>>, None, f, O) /\ Keeps(<<S("removable", f)>>, None, f, O)
  <2>1. {"real", "removable"} \subseteq Loose \cap O
    BY DEF Loose, Quiet
  <2>2. QED
    BY <1>2, <2>1, KeepsLoose
<1>4. ASSUME NEW p, Keeps(p, f, f, O)
      PROVE  /\ Keeps(Client \o Under(f, p), None, f, O)
             /\ Keeps((Client \o <<S("real", f)>>) \o Under(f, p), None, f, O)
             /\ Keeps(((Client \o <<S("real", f)>>) \o List) \o Under(f, p), None, f, O)
  <2>1. Keeps(Under(f, p), None, f, O)
    BY <1>4, KeepsUnder
  <2>2. Keeps(Client \o <<S("real", f)>>, None, f, O)
    BY <1>1, <1>3, KeepsJoin
  <2>3. Keeps((Client \o <<S("real", f)>>) \o List, None, f, O)
    BY <1>1, <2>2, KeepsJoin
  <2>4. QED
    BY <1>1, <2>1, <2>2, <2>3, KeepsJoin
<1>5. ASSUME "move" \in O, NEW g \in Names
      PROVE  Keeps(<<To("move", f, g)>>, f, f, O) /\ Keeps(Try(<<To("move", f, g)>>), f, f, O)
  <2>1. "move" \in ByUid
    BY DEF ByUid
  <2>2. QED
    BY <1>5, <2>1, KeepsByUid
<1>6. ASSUME NEW op \in {"delete", "mark", "discard"}, op \in O
      PROVE  Keeps(Do(op), f, f, O) /\ Keeps(Try(Do(op)), f, f, O)
  <2>1. op \in ByUid
    BY DEF ByUid
  <2>2. QED
    BY <1>2, <1>6, <2>1, KeepsByUid
<1>7. ASSUME NEW g \in Names, "move" \in O
      PROVE  Keeps(MoveEmail(f, g), None, f, O) /\ Keeps(BulkMove(f, g), None, f, O)
  BY <1>4, <1>5, <1>7 DEF MoveEmail, BulkMove
<1>8. ASSUME "move" \in O
      PROVE  Keeps(DeleteEmail(f, FALSE), None, f, O) /\ Keeps(BulkDelete(f), None, f, O)
  BY <1>2, <1>4, <1>5, <1>8 DEF DeleteEmail, BulkDelete
<1>9. "delete" \in O => Keeps(DeleteEmail(f, TRUE), None, f, O)
  BY <1>4, <1>6 DEF DeleteEmail
<1>10. "mark" \in O => Keeps(SetFlags(f), None, f, O) /\ Keeps(BulkSetFlags(f), None, f, O)
  BY <1>4, <1>6 DEF SetFlags, BulkSetFlags
<1>11. "discard" \in O => Keeps(DeleteDraft(f), None, f, O)
  BY <1>4, <1>6 DEF DeleteDraft
<1>12. ASSUME {"createMissing", "append"} \subseteq O
       PROVE  Keeps(SaveDraft, None, f, O) /\ Keeps(AppendSentMessage, None, f, O)
  <2>1. ASSUME NEW g \in Folders
        PROVE  Keeps((Client \o List) \o <<S("createMissing", g), S("append", g)>>, None, f, O)
    <3>1. Keeps(<<S("createMissing", g)>>, None, f, O)
      BY <1>2, <1>12, KeepsMaking
    <3>2. Keeps(<<S("append", g)>>, None, f, O)
      <4>1. "append" \in Loose /\ g \in Names
        BY FolderNames DEF Loose
      <4>2. QED
        BY <1>2, <1>12, <4>1, KeepsLoose
    <3>3. PICK s, t : s = S("createMissing", g) /\ t = S("append", g)
      OBVIOUS
    <3>4. <<s>> \o <<t>> = <<s, t>>
      BY JoinOfTwo
    <3>5. Keeps(<<s, t>>, None, f, O)
      BY <3>1, <3>2, <3>3, <3>4, KeepsJoin
    <3>6. Keeps(Client \o List, None, f, O)
      BY <1>1, KeepsJoin
    <3>7. QED
      BY <3>3, <3>5, <3>6, KeepsJoin
  <2>2. QED
    BY <1>2, <2>1 DEF SaveDraft, AppendSentMessage
<1>13. ASSUME NEW g \in Folders, "create" \in O
       PROVE  Keeps(CreateMailbox(g), None, f, O)
  <2>1. Keeps(<<S("create", g)>>, None, f, O)
    BY <1>2, <1>13, KeepsMaking
  <2>2. QED
    BY <1>1, <2>1, KeepsJoin DEF CreateMailbox
<1>14. ASSUME NEW s, Keeps(<<s>>, None, f, O)
       PROVE  Keeps(Client \o <<S("removable", f), s>>, None, f, O)
  <2>1. PICK t : t = S("removable", f)
    OBVIOUS
  <2>2. <<t>> \o <<s>> = <<t, s>>
    BY JoinOfTwo
  <2>3. Keeps(<<t, s>>, None, f, O)
    BY <1>3, <1>14, <2>1, <2>2, KeepsJoin
  <2>4. QED
    BY <1>1, <2>1, <2>3, KeepsJoin
<1>15. ASSUME NEW g \in Folders, "rename" \in O
       PROVE  Keeps(RenameMailbox(f, g), None, f, O)
  <2>1. Keeps(<<To("rename", f, g)>>, None, f, O)
    BY <1>2, <1>15, KeepsMaking
  <2>2. QED
    BY <1>14, <2>1 DEF RenameMailbox
<1>16. ASSUME "remove" \in O
       PROVE  Keeps(DeleteMailbox(f), None, f, O)
  <2>1. Keeps(<<S("remove", f)>>, None, f, O)
    <3>1. "remove" \in Loose
      BY DEF Loose
    <3>2. QED
      BY <1>2, <1>16, <3>1, KeepsLoose
  <2>2. QED
    BY <1>14, <2>1 DEF DeleteMailbox
<1>17. QED
  BY <1>7, <1>8, <1>9, <1>10, <1>11, <1>12, <1>13, <1>15, <1>16

Kinds == {"protonmail", "gmail", "keyword"}

\* Labels.
LEMMA LabelsKeep ==
  ASSUME NEW f \in Folders, NEW O, Quiet \subseteq O, site.kind \in Kinds
  PROVE  /\ Keeps(DetectLabelStrategy, None, f, O) /\ Keeps(Do("sharing"), None, f, O)
         /\ Keeps(ListLabels, None, f, O)
         /\ {"copy", "mark"} \subseteq O => Keeps(AddLabel(f), None, f, O)
         /\ {"deleteCopies", "mark"} \subseteq O => Keeps(RemoveLabel(f), None, f, O)
         /\ "create" \in O => Keeps(CreateLabel, None, f, O)
         /\ "remove" \in O => Keeps(DeleteLabel(f), None, f, O)
<1>1. Keeps(Client, None, f, O) /\ Keeps(List, None, f, O)
  BY ReadingKeeps
<1>2. f \in Modes /\ None \in Modes /\ f \in Names /\ Label \in Folders /\ Label \in Names
      /\ None \in Names /\ "INBOX" \in Folders /\ "INBOX" \in Modes
  BY FolderNames
<1>3. ASSUME NEW op \in {"strategy", "sharing", "detected"}
      PROVE  Keeps(Do(op), None, f, O)
  <2>1. op \in Unlocked /\ op \in O /\ op \notin {"lock", "putScript", "setActive"}
    BY DEF Unlocked, Quiet
  <2>2. QED
    BY <1>2, <2>1, KeepsUnlocked DEF Do
<1>4. Keeps(<<>>, None, f, O) /\ Keeps(Under("INBOX", <<>>), None, f, O)
  BY <1>2, KeepsEmpty, KeepsUnder
<1>5. Keeps(GetLabelStrategy \o Client, None, f, O)
  BY <1>1, <1>3, KeepsJoin DEF GetLabelStrategy
<1>6. Keeps(DetectLabelStrategy, None, f, O)
  <2>1. PICK q : q = IF site.kind = "keyword" THEN Under("INBOX", <<>>) ELSE <<>>
    OBVIOUS
  <2>2. Keeps(q, None, f, O)
    BY <1>4, <2>1
  <2>3. Keeps(Client \o List, None, f, O)
    BY <1>1, KeepsJoin
  <2>4. Keeps((Client \o List) \o q, None, f, O)
    BY <2>2, <2>3, KeepsJoin
  <2>5. Keeps(((Client \o List) \o q) \o Do("detected"), None, f, O)
    BY <1>3, <2>4, KeepsJoin
  <2>6. QED
    BY <2>1, <2>5 DEF DetectLabelStrategy
<1>7. Keeps(ListLabels, None, f, O)
  <2>1. PICK q : q = IF site.kind = "keyword" THEN Under("INBOX", <<>>) ELSE List
    OBVIOUS
  <2>2. Keeps(q, None, f, O)
    BY <1>1, <1>4, <2>1
  <2>3. Keeps((GetLabelStrategy \o Client) \o q, None, f, O)
    BY <1>5, <2>2, KeepsJoin
  <2>4. QED
    BY <2>1, <2>3 DEF ListLabels
<1>8. ASSUME NEW op \in ByUid, op \in O
      PROVE  Keeps(Under(f, Do(op)), None, f, O)
  BY <1>2, <1>8, KeepsByUid, KeepsUnder
<1>9. "mark" \in ByUid /\ "fetch" \in ByUid /\ "fetch" \in O /\ "copy" \in ByUid
  BY DEF ByUid, Quiet
<1>10. ASSUME {"copy", "mark"} \subseteq O
       PROVE  Keeps(AddLabel(f), None, f, O)
  <2>1. PICK q : q = IF site.kind = "protonmail" THEN <<To("copy", f, Label)>> ELSE Do("mark")
    OBVIOUS
  <2>2. Keeps(q, f, f, O)
    BY <1>2, <1>9, <1>10, <2>1, KeepsByUid
  <2>3. Keeps((GetLabelStrategy \o Client) \o Under(f, q), None, f, O)
    BY <1>5, <2>2, KeepsUnder, KeepsJoin
  <2>4. QED
    BY <2>1, <2>3 DEF AddLabel
<1>11. ASSUME {"deleteCopies", "mark"} \subseteq O
       PROVE  Keeps(RemoveLabel(f), None, f, O)
  <2>1. PICK q : q = IF site.kind = "protonmail"
                     THEN Under(f, Do("fetch")) \o Under(Label, Do("deleteCopies"))
                     ELSE Under(f, Do("mark"))
    OBVIOUS
  <2>2. Keeps(Under(Label, Do("deleteCopies")), None, f, O)
    <3>1. Keeps(Do("deleteCopies"), Label, f, O)
      BY <1>2, <1>11, KeepsInBox DEF Do
    <3>2. QED
      BY <1>2, <3>1, KeepsUnder
  <2>3. Keeps(q, None, f, O)
    BY <1>8, <1>9, <1>11, <2>1, <2>2, KeepsJoin
  <2>4. Keeps((GetLabelStrategy \o Client) \o q, None, f, O)
    BY <1>5, <2>3, KeepsJoin
  <2>5. QED
    BY <2>1, <2>4 DEF RemoveLabel
<1>12. ASSUME "create" \in O
       PROVE  Keeps(CreateLabel, None, f, O)
  <2>1. PICK q : q = IF site.kind = "keyword" THEN <<>> ELSE <<S("create", Label)>>
    OBVIOUS
  <2>2. Keeps(q, None, f, O)
    BY <1>2, <1>4, <1>12, <2>1, KeepsMaking
  <2>3. Keeps((GetLabelStrategy \o Client) \o q, None, f, O)
    BY <1>5, <2>2, KeepsJoin
  <2>4. QED
    BY <2>1, <2>3 DEF CreateLabel
<1>13. ASSUME "remove" \in O
       PROVE  Keeps(DeleteLabel(f), None, f, O)
  <2>1. {"remove", "removable", "refuse"} \subseteq Loose \cap O
    BY <1>13 DEF Loose, Quiet
  <2>2. /\ Keeps(<<S("remove", Label)>>, None, f, O) /\ Keeps(<<S("remove", f)>>, None, f, O)
        /\ Keeps(<<S("removable", f)>>, None, f, O) /\ Keeps(Do("refuse"), None, f, O)
    BY <1>2, <2>1, KeepsLoose DEF Do
  <2>3. PICK s, t : s = S("removable", f) /\ t = S("remove", f)
    OBVIOUS
  <2>4. Keeps(<<s, t>>, None, f, O)
    BY <2>2, <2>3, JoinOfTwo, KeepsJoin
  <2>5. PICK q : q = CASE site.kind = "protonmail" -> <<S("remove", Label)>>
                       [] site.kind = "gmail" -> <<S("removable", f), S("remove", f)>>
                       [] site.kind = "keyword" -> Do("refuse")
    OBVIOUS
  <2>6. Keeps(q, None, f, O)
    BY <2>2, <2>3, <2>4, <2>5 DEF Kinds
  <2>7. Keeps((GetLabelStrategy \o Client) \o q, None, f, O)
    BY <1>5, <2>6, KeepsJoin
  <2>8. QED
    BY <2>5, <2>7 DEF DeleteLabel
<1>14. QED
  BY <1>3, <1>6, <1>7, <1>10, <1>11, <1>12, <1>13

\* Mail that is sent.
LEMMA SendingKeeps ==
  ASSUME NEW r, r.in \in Folders, NEW O, Quiet \cup Sending \subseteq O
  PROVE  /\ Keeps(SendEmail(r), None, r.in, O) /\ Keeps(ReplyToEmail(r), None, r.in, O)
         /\ Keeps(ForwardEmail(r), None, r.in, O)
         /\ "discard" \in O => Keeps(SendDraft(r), None, r.in, O)
<1> DEFINE f == r.in
           K(p) == Keeps(p, None, r.in, O)
<1>1. f \in Folders /\ Quiet \subseteq O /\ {"createMissing", "append"} \subseteq O /\ "smtp" \in O
      /\ None \in Modes /\ None \in Names
  BY FolderNames DEF Sending
<1>2. /\ K(DownloadAttachment(f)) /\ K(GetEmail(f)) /\ K(FetchDraft(f)) /\ K(AppendSentMessage)
      /\ "discard" \in O => K(DeleteDraft(f))
  BY <1>1, ReadingKeeps, WritingKeeps
<1>3. K(Do("rate"))
  <2>1. "rate" \in Loose /\ "rate" \in O
    BY <1>1 DEF Loose, Quiet
  <2>2. QED
    BY <1>1, <2>1, KeepsLoose DEF Do
<1>4. K(Do("smtp"))
  <2>1. "smtp" \in Unlocked
    BY DEF Unlocked
  <2>2. QED
    BY <1>1, <2>1, KeepsUnlocked DEF Do
<1>5. K(ResolveAttachments(r))
  <2>1. K(<<>>)
    BY <1>1, KeepsEmpty
  <2>2. QED
    BY <1>2, <2>1 DEF ResolveAttachments
<1>6. K(SendAndAppend)
  BY <1>2, <1>4, KeepsTry, KeepsJoin DEF SendAndAppend
<1>7. K(Do("rate") \o ResolveAttachments(r)) /\ K(Do("rate") \o GetEmail(f))
      /\ K(Do("rate") \o FetchDraft(f))
  BY <1>2, <1>3, <1>5, KeepsJoin
<1>8. K((Do("rate") \o ResolveAttachments(r)) \o GetEmail(f))
      /\ K((Do("rate") \o FetchDraft(f)) \o ResolveAttachments(r))
  BY <1>2, <1>5, <1>7, KeepsJoin
<1>9. K(SendEmail(r)) /\ K(ReplyToEmail(r)) /\ K(ForwardEmail(r))
  BY <1>6, <1>7, <1>8, KeepsJoin DEF SendEmail, ReplyToEmail, ForwardEmail
<1>10. ASSUME "discard" \in O
       PROVE  K(SendDraft(r))
  <2>1. K(((Do("rate") \o FetchDraft(f)) \o ResolveAttachments(r)) \o SendAndAppend)
    BY <1>6, <1>8, KeepsJoin
  <2>2. K(Try(DeleteDraft(f)))
    BY <1>2, <1>10, KeepsTry
  <2>3. QED
    BY <2>1, <2>2, KeepsJoin DEF SendDraft
<1>11. QED
  BY <1>9, <1>10

\* What is beside the mail account.
LEMMA AsideKeeps ==
  ASSUME NEW f, NEW O, Quiet \subseteq O
  PROVE  /\ Keeps(CheckPermissions \o CheckRemindersPermission, None, f, O)
         /\ Keeps(ListCalendars, None, f, O) /\ Keeps(ListEvents, None, f, O)
         /\ Keeps(ListReminders, None, f, O)
         /\ {"addEvent", "openIcs"} \subseteq O => Keeps(AddEvent, None, f, O)
         /\ "addReminder" \in O => Keeps(AddReminder, None, f, O)
         /\ Keeps(IsCalendarProcessed, None, f, O)
         /\ {"openNew", "writeFile"} \subseteq O => Keeps(WriteAttachmentFile, None, f, O)
         /\ Keeps(LoadTemplates, None, f, O) /\ Keeps(GetTemplate, None, f, O)
         /\ Keeps(SieveStatus, None, f, O) /\ Keeps(ListScripts, None, f, O)
         /\ \A g \in Names : Keeps(GetScript(g), None, f, O)
         /\ \A g \in {"old", "new", None} :
              /\ "putScript" \in O => Keeps(PutScript(g), None, f, O)
              /\ "setActive" \in O => Keeps(ActivateScript(g), None, f, O)
         /\ \A g \in Names : "deleteScript" \in O => Keeps(DeleteScript(g), None, f, O)
<1>1. None \in Modes /\ None \in Names /\ {"old", "new", None} \subseteq Names
  BY FolderNames
<1>2. ASSUME NEW op \in Loose, op \in O
      PROVE  /\ Keeps(Do(op), None, f, O) /\ Keeps(Try(Do(op)), None, f, O)
             /\ \A g \in Names : Keeps(<<S(op, g)>>, None, f, O)
  BY <1>1, <1>2, KeepsLoose DEF Do
<1>3. {"ask", "readState", "lstat", "readFile", "template", "sieveOpen", "listScripts", "getScript"}
        \subseteq Loose \cap O
  BY DEF Loose, Quiet
<1>4. Keeps(<<>>, None, f, O)
  BY <1>1, KeepsEmpty
<1>5. /\ Keeps(OnMac(Do("ask")), None, f, O) /\ Keeps(OnMac(Try(Do("ask"))), None, f, O)
  BY <1>2, <1>3, <1>4 DEF OnMac
<1>6. ASSUME NEW op \in Unlocked, op \in O, op # "lock", NEW g \in Names,
             op \in {"putScript", "setActive"} => g \in {"old", "new", None}
      PROVE  Keeps(<<S(op, g)>>, None, f, O)
  BY <1>6, KeepsUnlocked
<1>7. ASSUME {"addEvent", "openIcs"} \subseteq O PROVE Keeps(AddEvent, None, f, O)
  <2>1. {"findEvent", "addEvent", "openIcs"} \subseteq Unlocked \cap O
    BY <1>7 DEF Unlocked, Quiet
  <2>2. Keeps(Do("findEvent"), None, f, O) /\ Keeps(Do("addEvent"), None, f, O)
        /\ Keeps(Do("openIcs"), None, f, O)
    BY <1>1, <1>6, <2>1 DEF Do
  <2>3. QED
    BY <2>2, KeepsJoin DEF AddEvent
<1>8. ASSUME "addReminder" \in O PROVE Keeps(AddReminder, None, f, O)
  <2>1. {"addReminder", "noApp"} \subseteq Unlocked \cap O
    BY <1>8 DEF Unlocked, Quiet
  <2>2. Keeps(Do("addReminder"), None, f, O) /\ Keeps(Do("noApp"), None, f, O)
    BY <1>1, <1>6, <2>1 DEF Do
  <2>3. QED
    BY <2>2 DEF AddReminder
<1>9. ASSUME {"openNew", "writeFile"} \subseteq O PROVE Keeps(WriteAttachmentFile, None, f, O)
  <2>1. {"lstat", "openNew", "writeFile"} \subseteq Loose \cap O
    BY <1>9 DEF Loose, Quiet
  <2>2. Keeps(Do("lstat"), None, f, O) /\ Keeps(Do("openNew"), None, f, O)
        /\ Keeps(Do("writeFile"), None, f, O)
    BY <1>2, <2>1
  <2>3. QED
    BY <2>2, KeepsJoin DEF WriteAttachmentFile
<1>10. Keeps(LoadTemplates, None, f, O) /\ Keeps(GetTemplate, None, f, O)
  BY <1>2, <1>3, KeepsJoin DEF LoadTemplates, GetTemplate
<1>11. ASSUME NEW p, Keeps(p, None, f, O) PROVE Keeps(WithConnection(p), None, f, O)
  BY <1>2, <1>3, <1>11, KeepsJoin DEF WithConnection
<1>12. Keeps(SieveStatus, None, f, O) /\ Keeps(ListScripts, None, f, O)
  BY <1>2, <1>3, <1>11, KeepsTry DEF SieveStatus, ListScripts
<1>13. \A g \in Names : Keeps(GetScript(g), None, f, O)
  BY <1>2, <1>3, <1>11 DEF GetScript
<1>14. ASSUME NEW g \in {"old", "new", None}
       PROVE  /\ "putScript" \in O => Keeps(PutScript(g), None, f, O)
              /\ "setActive" \in O => Keeps(ActivateScript(g), None, f, O)
  <2>1. {"putScript", "setActive"} \subseteq Unlocked /\ g \in Names
    BY <1>1 DEF Unlocked
  <2>2. QED
    BY <1>6, <1>11, <2>1 DEF PutScript, ActivateScript
<1>15. \A g \in Names : "deleteScript" \in O => Keeps(DeleteScript(g), None, f, O)
  <2>1. "deleteScript" \in Unlocked
    BY DEF Unlocked
  <2>2. QED
    BY <1>6, <1>11, <2>1 DEF DeleteScript
<1>16. Keeps(CheckPermissions \o CheckRemindersPermission, None, f, O)
  BY <1>5, KeepsJoin DEF CheckPermissions, CheckRemindersPermission
<1>17. Keeps(IsCalendarProcessed, None, f, O)
  BY <1>2, <1>3 DEF IsCalendarProcessed
<1>18. QED
  BY <1>5, <1>7, <1>8, <1>9, <1>10, <1>12, <1>13, <1>14, <1>15, <1>16, <1>17
     DEF ListCalendars, ListEvents, ListReminders

SiteOK == site \in [kind : Kinds, readOnly : BOOLEAN, mac : BOOLEAN]

LEMMA RequestFields ==
  ASSUME NEW r, Accepted(r)
  PROVE  /\ r.tool \in ReadTools \cup WriteTools /\ r.in \in Folders /\ r.to \in Names
         /\ r.ids \in SUBSET Nat /\ r.dry \in BOOLEAN /\ r.permanent \in BOOLEAN
         /\ r.attach \in BOOLEAN /\ r.valid \in BOOLEAN /\ r.save \in BOOLEAN
         /\ r.dry => r.tool \in DryRuns
         /\ r.save => r.tool \in Savers
         /\ r.tool \in {"create_mailbox", "rename_mailbox"} => r.to \in Folders
         /\ r.tool \in {"sieve_put_script", "sieve_activate_script"} => r.to \in {"old", "new", None}
  BY DEF Accepted, Requests, Names

LEMMA ToolKeeps ==
  ASSUME NEW f, NEW O, Quiet \subseteq O, NEW r, NEW p,
         r.valid /\ ~r.dry => Keeps(p, None, f, O)
  PROVE  Keeps(Tool(r, p), None, f, O)
<1>1. Keeps(Do("refuse"), None, f, O)
  <2>1. "refuse" \in Loose /\ "refuse" \in O
    BY DEF Loose, Quiet
  <2>2. QED
    BY <2>1, KeepsLoose, FolderNames DEF Do
<1>2. Keeps(<<>>, None, f, O)
  BY KeepsEmpty, FolderNames
<1>3. QED
  BY <1>1, <1>2 DEF Tool

\* The tools that read.
LEMMA ReadToolKeeps ==
  ASSUME NEW r, Accepted(r), r.tool \in ReadTools, SiteOK
  PROVE  Keeps(ReadTool(r), None, r.in, MayUse(r))
<1> DEFINE f == r.in
           O == MayUse(r)
           K(p) == Keeps(p, None, f, O)
<1>1. Quiet \subseteq O /\ f \in Folders /\ site.kind \in Kinds /\ site.readOnly \in BOOLEAN
      /\ r.to \in Names /\ r.attach \in BOOLEAN
  BY RequestFields DEF MayUse, SiteOK
<1>2. /\ K(ListMailboxes) /\ (\A filtered \in BOOLEAN : K(Listing(f, filtered)))
      /\ K(GetEmail(f)) /\ K(GetEmailFlags(f))
      /\ K(GetEmailSecurity(f)) /\ K(PeekText(f))
      /\ K(PeekAttachments(f)) /\ K(DownloadAttachment(f))
      /\ K(ExportEmail(f)) /\ K(SaveEmailAttachments(f))
      /\ K(GetThread(f)) /\ K(ExtractContacts(f))
      /\ K(GetEmailStats(f)) /\ K(GetCalendarParts(f))
      /\ K(GetQuota) /\ K(FindEmailFolder(f)) /\ K(Client)
  BY <1>1, ReadingKeeps
<1>3. K(ListLabels)
  BY <1>1, LabelsKeep
<1>4. /\ K(CheckPermissions \o CheckRemindersPermission)
      /\ K(ListCalendars) /\ K(ListEvents) /\ K(ListReminders) /\ K(IsCalendarProcessed)
      /\ K(LoadTemplates) /\ K(SieveStatus) /\ K(ListScripts) /\ K(GetScript(r.to))
  BY <1>1, AsideKeeps
<1> HIDE DEF O
<1>5. ASSUME NEW p, NEW q, K(p), K(q) PROVE K(p \o q) /\ K(Try(p))
  BY <1>5, KeepsJoin, KeepsTry
<1>6. ASSUME NEW p, r.valid /\ ~r.dry => K(p) PROVE K(Tool(r, p))
  BY <1>1, <1>6, ToolKeeps
<1>7. K(<<>>) /\ K(Do("refuse"))
  <2>1. "refuse" \in Loose /\ "refuse" \in O
    BY <1>1 DEF Loose, Quiet
  <2>2. QED
    BY <2>1, KeepsLoose, KeepsEmpty, FolderNames DEF Do
<1>8. K(GetEmail(f) \o GetCalendarParts(f))
  BY <1>2, <1>5
<1>9. ASSUME r.tool = "get_email" PROVE K(GetEmailTool(r))
  <2>1. PICK q : q = IF r.mark /\ ~site.readOnly THEN SetFlags(r.in) ELSE <<>>
    OBVIOUS
  <2>2. ~site.readOnly => "mark" \in O
    BY <1>9 DEF O, MayUse, ReadOps
  <2>3. K(q)
    BY <1>1, <1>7, <2>1, <2>2, WritingKeeps
  <2>4. K(GetEmail(f) \o q)
    BY <1>2, <1>5, <2>3
  <2>5. QED
    BY <1>6, <2>1, <2>4 DEF GetEmailTool
<1>10. ASSUME r.tool \in Savers, NEW p, K(p) PROVE K(Saving(r, p))
  <2>1. PICK q : q = IF r.save THEN WriteAttachmentFile ELSE <<>>
    OBVIOUS
  <2>2. CASE r.save /\ site.readOnly
    BY <1>7, <2>2 DEF Saving
  <2>3. CASE ~(r.save /\ site.readOnly)
    <3>1. r.save => {"openNew", "writeFile"} \subseteq O
      BY <1>10, <2>3 DEF O, MayUse, ReadOps, Savers
    <3>2. K(q)
      BY <1>1, <1>7, <2>1, <3>1, AsideKeeps
    <3>3. K(p \o q)
      BY <1>5, <1>10, <3>2
    <3>4. QED
      BY <2>1, <2>3, <3>3 DEF Saving
  <2>4. QED
    BY <2>2, <2>3
<1>11. r.tool \in Savers => K(DownloadAttachmentTool(r)) /\ K(ExportEmailTool(r))
  BY <1>2, <1>6, <1>10 DEF DownloadAttachmentTool, ExportEmailTool
<1>12. /\ K(GetEmailsTool(r)) /\ K(GetEmailStatusTool(r)) /\ K(GetThreadTool(r))
       /\ K(FindEmailFolderTool(r)) /\ K(GetEmailSecurityTool(r)) /\ K(ListMailboxesTool(r))
  <2>1. K(Try(GetEmail(f)))
    BY <1>2, <1>5
  <2>2. K(Try(GetEmail(f)) \o Try(GetEmail(f)))
    BY <1>5, <2>1
  <2>3. QED
    BY <1>2, <1>6, <2>2 DEF GetEmailsTool, GetEmailStatusTool, GetThreadTool,
       FindEmailFolderTool, GetEmailSecurityTool, ListMailboxesTool
<1>13. K(ListEmailsTool(r)) /\ K(SearchEmailsTool(r))
  BY <1>1, <1>2 DEF ListEmailsTool, SearchEmailsTool, ListEmails, SearchEmails
<1>14. /\ K(ExtractContactsTool(r)) /\ K(GetEmailStatsTool(r)) /\ K(ListLabelsTool(r))
       /\ K(ExtractCalendarTool(r)) /\ K(AnalyzeSchedulingTool(r))
  <2>1. K((GetEmail(f) \o GetCalendarParts(f)) \o IsCalendarProcessed)
    BY <1>4, <1>5, <1>8
  <2>2. QED
    BY <1>2, <1>3, <1>6, <1>8, <2>1 DEF ExtractContactsTool, GetEmailStatsTool, ListLabelsTool,
       ExtractCalendarTool, AnalyzeSchedulingTool
<1>15. /\ K(CheckPermissionsTool(r)) /\ K(ListCalendarsTool(r)) /\ K(ListEventsTool(r))
       /\ K(ListRemindersTool(r)) /\ K(ListTemplatesTool(r)) /\ K(SieveStatusTool(r))
       /\ K(ListScriptsTool(r)) /\ K(GetScriptTool(r))
  BY <1>4, <1>6 DEF CheckPermissionsTool, ListCalendarsTool, ListEventsTool, ListRemindersTool,
     ListTemplatesTool, SieveStatusTool, ListScriptsTool, GetScriptTool
<1>16. K(CheckHealthTool(r))
  <2>1. K(Client \o GetCapabilities)
    BY <1>2, <1>5 DEF GetCapabilities
  <2>2. K((Client \o GetCapabilities) \o GetQuota)
    BY <1>2, <1>5, <2>1
  <2>3. QED
    BY <1>5, <2>2 DEF CheckHealthTool
<1>17. K(ReadArrival(r))
  <2>1. /\ K(Try(PeekText(f))) /\ K(Try(PeekAttachments(f))) /\ K(Try(GetCalendarParts(f)))
        /\ K(Try(SaveEmailAttachments(f)))
    BY <1>2, <1>5
  <2>2. K(Try(PeekText(f)) \o Try(PeekAttachments(f)))
    BY <1>5, <2>1
  <2>3. K((Try(PeekText(f)) \o Try(PeekAttachments(f))) \o Try(GetCalendarParts(f)))
    BY <1>5, <2>1, <2>2
  <2>4. QED
    BY <1>5, <2>1, <2>3 DEF ReadArrival
<1> HIDE DEF K
<1>18. /\ r.tool = "get_email" => ReadTool(r) = GetEmailTool(r)
       /\ r.tool = "get_emails" => ReadTool(r) = GetEmailsTool(r)
       /\ r.tool = "get_email_status" => ReadTool(r) = GetEmailStatusTool(r)
       /\ r.tool = "list_emails" => ReadTool(r) = ListEmailsTool(r)
       /\ r.tool = "search_emails" => ReadTool(r) = SearchEmailsTool(r)
       /\ r.tool = "list_mailboxes" => ReadTool(r) = ListMailboxesTool(r)
       /\ r.tool = "get_thread" => ReadTool(r) = GetThreadTool(r)
       /\ r.tool = "find_email_folder" => ReadTool(r) = FindEmailFolderTool(r)
       /\ r.tool = "get_email_security" => ReadTool(r) = GetEmailSecurityTool(r)
       /\ r.tool = "download_attachment" => ReadTool(r) = DownloadAttachmentTool(r)
       /\ r.tool = "export_email" => ReadTool(r) = ExportEmailTool(r)
       /\ r.tool = "extract_contacts" => ReadTool(r) = ExtractContactsTool(r)
       /\ r.tool = "get_email_stats" => ReadTool(r) = GetEmailStatsTool(r)
  BY DEF ReadTool
<1>19. /\ r.tool = "list_labels" => ReadTool(r) = ListLabelsTool(r)
       /\ r.tool = "extract_calendar" => ReadTool(r) = ExtractCalendarTool(r)
       /\ r.tool = "check_health" => ReadTool(r) = CheckHealthTool(r)
       /\ r.tool = "arrival" => ReadTool(r) = ReadArrival(r)
       /\ r.tool = "analyze_email_for_scheduling" => ReadTool(r) = AnalyzeSchedulingTool(r)
       /\ r.tool = "check_calendar_permissions" => ReadTool(r) = CheckPermissionsTool(r)
       /\ r.tool = "list_calendars" => ReadTool(r) = ListCalendarsTool(r)
       /\ r.tool = "list_events" => ReadTool(r) = ListEventsTool(r)
       /\ r.tool = "list_reminders" => ReadTool(r) = ListRemindersTool(r)
       /\ r.tool = "list_templates" => ReadTool(r) = ListTemplatesTool(r)
       /\ r.tool = "sieve_status" => ReadTool(r) = SieveStatusTool(r)
       /\ r.tool = "sieve_list_scripts" => ReadTool(r) = ListScriptsTool(r)
       /\ r.tool = "sieve_get_script" => ReadTool(r) = GetScriptTool(r)
  BY DEF ReadTool
<1>20. K(ReadTool(r))
  BY <1>9, <1>11, <1>12, <1>13, <1>14, <1>15, <1>16, <1>17, <1>18, <1>19 DEF ReadTools, Savers
<1>21. QED
  BY <1>20 DEF K, O

\* The tools that write.
LEMMA WriteToolKeeps ==
  ASSUME NEW r, Accepted(r), r.tool \in WriteTools, r.tool \notin ReadTools, SiteOK
  PROVE  Keeps(WriteTool(r), None, r.in, MayUse(r))
<1> DEFINE f == r.in
           O == MayUse(r)
           K(p) == Keeps(p, None, f, O)
<1>1. Quiet \subseteq O /\ f \in Folders /\ site.kind \in Kinds
      /\ r.to \in Names /\ r.attach \in BOOLEAN /\ r.permanent \in BOOLEAN
  BY RequestFields DEF MayUse, SiteOK
<1>2. K(GetEmail(f)) /\ K(GetCalendarParts(f)) /\ K(SaveEmailAttachments(f))
  BY <1>1, ReadingKeeps
<1>3. /\ "move" \in O => /\ K(MoveEmail(f, r.to)) /\ K(BulkMove(f, r.to))
                         /\ K(DeleteEmail(f, FALSE)) /\ K(BulkDelete(f))
      /\ "delete" \in O => K(DeleteEmail(f, TRUE))
      /\ "mark" \in O => K(SetFlags(f)) /\ K(BulkSetFlags(f))
      /\ {"createMissing", "append"} \subseteq O => K(SaveDraft)
      /\ "create" \in O /\ r.to \in Folders => K(CreateMailbox(r.to))
      /\ "rename" \in O /\ r.to \in Folders => K(RenameMailbox(f, r.to))
      /\ "remove" \in O => K(DeleteMailbox(f))
  BY <1>1, WritingKeeps
<1>4. /\ {"copy", "mark"} \subseteq O => K(AddLabel(f))
      /\ {"deleteCopies", "mark"} \subseteq O => K(RemoveLabel(f))
      /\ "create" \in O => K(CreateLabel)
      /\ "remove" \in O => K(DeleteLabel(f))
  BY <1>1, LabelsKeep
<1>5. Sending \subseteq O =>
        /\ K(SendEmail(r)) /\ K(ReplyToEmail(r)) /\ K(ForwardEmail(r))
        /\ "discard" \in O => K(SendDraft(r))
  BY <1>1, SendingKeeps
<1>6. /\ {"addEvent", "openIcs"} \subseteq O => K(AddEvent)
      /\ "addReminder" \in O => K(AddReminder)
      /\ K(GetTemplate)
      /\ r.to \in {"old", "new", None} =>
           /\ "putScript" \in O => K(PutScript(r.to))
           /\ "setActive" \in O => K(ActivateScript(r.to))
      /\ "deleteScript" \in O => K(DeleteScript(r.to))
  BY <1>1, AsideKeeps
<1>7. O = Quiet \cup (IF r.dry THEN {} ELSE WriteOps(r))
  BY DEF MayUse
<1> HIDE DEF O
<1>8. ASSUME NEW p, NEW q, K(p), K(q) PROVE K(p \o q)
  BY <1>8, KeepsJoin
<1>9. ASSUME NEW p, r.valid /\ ~r.dry => K(p) PROVE K(Tool(r, p))
  BY <1>1, <1>9, ToolKeeps
<1>10. K(<<>>)
  BY KeepsEmpty, FolderNames
<1> HIDE DEF K
<1>11. r.tool = "move_email" => K(MoveEmailTool(r))
  BY <1>3, <1>7, <1>9 DEF MoveEmailTool, WriteOps
<1>12. r.tool = "delete_email" => K(DeleteEmailTool(r))
  <2>1. SUFFICES ASSUME r.tool = "delete_email" PROVE K(DeleteEmailTool(r))
    OBVIOUS
  <2>2. ~r.dry => (IF r.permanent THEN "delete" \in O ELSE "move" \in O)
    BY <1>7, <2>1 DEF WriteOps
  <2>3. ~r.dry => K(DeleteEmail(f, r.permanent))
    BY <1>1, <1>3, <2>2
  <2>4. QED
    BY <1>9, <2>3 DEF DeleteEmailTool
<1>13. r.tool = "mark_email" => K(MarkEmailTool(r))
  BY <1>3, <1>7, <1>9 DEF MarkEmailTool, WriteOps
<1>14. r.tool = "bulk_action" => K(BulkActionTool(r))
  <2>1. SUFFICES ASSUME r.tool = "bulk_action" PROVE K(BulkActionTool(r))
    OBVIOUS
  <2>2. PICK q : q = CASE r.action = "move" -> BulkMove(r.in, r.to)
                       [] r.action = "delete" -> BulkDelete(r.in)
                       [] OTHER -> BulkSetFlags(r.in)
    OBVIOUS
  <2>3. ~r.dry => {"move", "mark"} \subseteq O
    BY <1>7, <2>1 DEF WriteOps
  <2>4. ~r.dry => K(q)
    BY <1>3, <2>2, <2>3
  <2>5. QED
    BY <1>9, <2>2, <2>4 DEF BulkActionTool
<1>15. r.tool = "save_draft" => K(SaveDraftTool(r))
  <2>1. r.tool = "save_draft" => ~r.dry
    BY RequestFields DEF DryRuns
  <2>2. QED
    BY <1>3, <1>7, <2>1 DEF SaveDraftTool, WriteOps
<1>16. r.tool = "send_draft" => K(SendDraftTool(r))
  BY <1>5, <1>7, <1>9 DEF SendDraftTool, WriteOps
<1>17. r.tool \in {"send_email", "reply_email", "forward_email"} =>
         K(SendEmailTool(r)) /\ K(ReplyEmailTool(r)) /\ K(ForwardEmailTool(r))
  <2>1. SUFFICES ASSUME r.tool \in {"send_email", "reply_email", "forward_email"}
                 PROVE  K(SendEmailTool(r)) /\ K(ReplyEmailTool(r)) /\ K(ForwardEmailTool(r))
    OBVIOUS
  <2>2. ~r.dry => Sending \subseteq O
    BY <1>7, <2>1 DEF WriteOps
  <2>3. QED
    BY <1>5, <1>9, <2>2 DEF SendEmailTool, ReplyEmailTool, ForwardEmailTool
<1>18. r.tool = "apply_template" => K(ApplyTemplateTool(r))
  <2>1. SUFFICES ASSUME r.tool = "apply_template" PROVE K(ApplyTemplateTool(r))
    OBVIOUS
  <2>2. PICK q : q = CASE r.action = "preview" -> <<>>
                       [] r.action = "draft" -> SaveDraft
                       [] OTHER -> Tool(r, SendEmail(r))
    OBVIOUS
  <2>3. ~r.dry
    BY <2>1, RequestFields DEF DryRuns
  <2>4. r.action # "preview" => Sending \subseteq O
    BY <1>7, <2>1, <2>3 DEF WriteOps
  <2>5. r.action # "preview" => K(SaveDraft) /\ K(Tool(r, SendEmail(r)))
    BY <1>3, <1>5, <1>9, <2>4 DEF Sending
  <2>6. K(q)
    BY <1>10, <2>2, <2>5
  <2>7. QED
    BY <1>6, <1>8, <2>2, <2>6 DEF ApplyTemplateTool
<1>19. /\ r.tool = "add_label" => K(AddLabelTool(r))
       /\ r.tool = "remove_label" => K(RemoveLabelTool(r))
       /\ r.tool = "create_label" => K(CreateLabelTool(r))
  BY <1>4, <1>7, <1>9 DEF AddLabelTool, RemoveLabelTool, CreateLabelTool, WriteOps
<1>20. r.tool \in {"delete_label", "create_mailbox", "rename_mailbox"} => ~r.dry
  BY RequestFields DEF DryRuns
<1>21. r.tool = "delete_label" => K(DeleteLabelTool(r))
  BY <1>4, <1>7, <1>20 DEF DeleteLabelTool, WriteOps
<1>22. /\ r.tool = "create_mailbox" => K(CreateMailboxTool(r))
       /\ r.tool = "rename_mailbox" => K(RenameMailboxTool(r))
  BY <1>3, <1>7, <1>20, RequestFields DEF CreateMailboxTool, RenameMailboxTool, WriteOps
<1>23. r.tool = "delete_mailbox" => K(DeleteMailboxTool(r))
  BY <1>3, <1>7, <1>9 DEF DeleteMailboxTool, WriteOps
<1>24. r.tool = "add_to_calendar" => K(AddToCalendarTool(r))
  <2>1. SUFFICES ASSUME r.tool = "add_to_calendar" PROVE K(AddToCalendarTool(r))
    OBVIOUS
  <2>2. PICK q : q = IF r.attach THEN SaveEmailAttachments(r.in) ELSE <<>>
    OBVIOUS
  <2>3. K(q)
    BY <1>2, <1>10, <2>2
  <2>4. ~r.dry => {"addEvent", "openIcs"} \subseteq O
    BY <1>7, <2>1 DEF WriteOps
  <2>5. K(GetEmail(f) \o GetCalendarParts(f))
    BY <1>2, <1>8
  <2>6. K((GetEmail(f) \o GetCalendarParts(f)) \o q)
    BY <1>8, <2>3, <2>5
  <2>7. ~r.dry => K(((GetEmail(f) \o GetCalendarParts(f)) \o q) \o AddEvent)
    BY <1>6, <1>8, <2>4, <2>6
  <2>8. QED
    BY <1>9, <2>2, <2>7 DEF AddToCalendarTool
<1>25. r.tool = "create_reminder" => K(CreateReminderTool(r))
  <2>1. SUFFICES ASSUME r.tool = "create_reminder" PROVE K(CreateReminderTool(r))
    OBVIOUS
  <2>2. ~r.dry => "addReminder" \in O
    BY <1>7, <2>1 DEF WriteOps
  <2>3. ~r.dry => K(GetEmail(f) \o AddReminder)
    BY <1>2, <1>6, <1>8, <2>2
  <2>4. QED
    BY <1>9, <2>3 DEF CreateReminderTool
<1>26. /\ r.tool = "sieve_put_script" => K(PutScriptTool(r))
       /\ r.tool = "sieve_delete_script" => K(DeleteScriptTool(r))
       /\ r.tool = "sieve_activate_script" => K(ActivateScriptTool(r))
  BY <1>6, <1>7, <1>9, RequestFields DEF PutScriptTool, DeleteScriptTool, ActivateScriptTool,
     WriteOps
<1>27. /\ r.tool = "move_email" => WriteTool(r) = MoveEmailTool(r)
       /\ r.tool = "delete_email" => WriteTool(r) = DeleteEmailTool(r)
       /\ r.tool = "mark_email" => WriteTool(r) = MarkEmailTool(r)
       /\ r.tool = "bulk_action" => WriteTool(r) = BulkActionTool(r)
       /\ r.tool = "save_draft" => WriteTool(r) = SaveDraftTool(r)
       /\ r.tool = "send_draft" => WriteTool(r) = SendDraftTool(r)
       /\ r.tool = "send_email" => WriteTool(r) = SendEmailTool(r)
       /\ r.tool = "apply_template" => WriteTool(r) = ApplyTemplateTool(r)
       /\ r.tool = "reply_email" => WriteTool(r) = ReplyEmailTool(r)
       /\ r.tool = "forward_email" => WriteTool(r) = ForwardEmailTool(r)
       /\ r.tool = "add_label" => WriteTool(r) = AddLabelTool(r)
  BY DEF WriteTool
<1>28. /\ r.tool = "remove_label" => WriteTool(r) = RemoveLabelTool(r)
       /\ r.tool = "create_label" => WriteTool(r) = CreateLabelTool(r)
       /\ r.tool = "delete_label" => WriteTool(r) = DeleteLabelTool(r)
       /\ r.tool = "create_mailbox" => WriteTool(r) = CreateMailboxTool(r)
       /\ r.tool = "rename_mailbox" => WriteTool(r) = RenameMailboxTool(r)
       /\ r.tool = "delete_mailbox" => WriteTool(r) = DeleteMailboxTool(r)
       /\ r.tool = "add_to_calendar" => WriteTool(r) = AddToCalendarTool(r)
       /\ r.tool = "create_reminder" => WriteTool(r) = CreateReminderTool(r)
       /\ r.tool = "sieve_put_script" => WriteTool(r) = PutScriptTool(r)
       /\ r.tool = "sieve_delete_script" => WriteTool(r) = DeleteScriptTool(r)
       /\ r.tool = "sieve_activate_script" => WriteTool(r) = ActivateScriptTool(r)
  BY DEF WriteTool
<1>29. K(WriteTool(r))
  BY <1>11, <1>12, <1>13, <1>14, <1>15, <1>16, <1>17, <1>18, <1>19, <1>21, <1>22, <1>23, <1>24,
     <1>25, <1>26, <1>27, <1>28 DEF WriteTools
<1>30. QED
  BY <1>29 DEF K, O

\* Every program begins and ends with no lock held, and does what its tool is there for.
LEMMA ProgramKeeps ==
  ASSUME NEW r, Accepted(r), SiteOK
  PROVE  Keeps(Program(r), None, r.in, MayUse(r))
<1>1. r.tool \in ReadTools \cup WriteTools
  BY RequestFields
<1>2. QED
  BY <1>1, ReadToolKeeps, WriteToolKeeps DEF Program

(***************************************************************************)
(* The search through the folders.                                         *)
(***************************************************************************)

LEMMA FoldersFinite == IsFiniteSet(Folders)
<1>1. /\ IsFiniteSet({"INBOX", "Work"}) /\ IsFiniteSet({"New", "Shared"})
      /\ IsFiniteSet({Label, "Trash"}) /\ IsFiniteSet({"Drafts", "Sent"}) /\ IsFiniteSet({"All"})
  <2>1. ASSUME NEW x, NEW y
        PROVE  IsFiniteSet({x, y})
    <3>1. IsFiniteSet({x})
      BY FS_Singleton
    <3>2. IsFiniteSet({x} \cup {y})
      BY <3>1, FS_AddElement
    <3>3. {x, y} = {x} \cup {y}
      OBVIOUS
    <3>4. QED
      BY <3>2, <3>3
  <2>2. QED
    BY <2>1, FS_Singleton
<1> DEFINE A == {"INBOX", "Work"} \cup {"New", "Shared"}
           B == {Label, "Trash"} \cup {"Drafts", "Sent"}
<1>2. IsFiniteSet(A) /\ IsFiniteSet(B)
  BY <1>1, FS_Union
<1>3. IsFiniteSet((A \cup B) \cup {"All"})
  BY <1>1, <1>2, FS_Union
<1>4. Folders = (A \cup B) \cup {"All"}
  BY DEF Folders, SpecialUse, Virtual
<1>5. QED
  BY <1>3, <1>4

\* SetToSeq lists the members, each once.
LEMMA SetToSeqLists ==
  ASSUME NEW X, IsFiniteSet(X)
  PROVE  /\ Cardinality(X) \in Nat
         /\ SetToSeq(X) \in [1 .. Cardinality(X) -> X]
         /\ IsInjective(SetToSeq(X))
<1>1. Cardinality(X) \in Nat /\ ExistsBijection(1 .. Cardinality(X), X)
  BY FS_CardinalityType
<1>2. PICK g \in Bijection(1 .. Cardinality(X), X) : TRUE
  BY <1>1 DEF ExistsBijection
<1>3. g \in [1 .. Cardinality(X) -> X] /\ IsInjective(g)
  BY <1>2 DEF Bijection, Injection, IsInjective
<1>4. QED
  BY <1>1, <1>3 DEF SetToSeq

\* What FlattenSeq makes of the first n sequences.
Joins(s, X, n) ==
  {g \in [1 .. n -> Seq(X)] : \A i \in 1 .. n : g[i] = IF i = 1 THEN s[i] ELSE g[i - 1] \o s[i]}

LEMMA JoinsExist ==
  ASSUME NEW X, NEW s \in Seq(Seq(X))
  PROVE  \A n \in 0 .. Len(s) : Joins(s, X, n) # {}
<1> DEFINE T == {n \in 0 .. Len(s) : Joins(s, X, n) = {}}
<1> SUFFICES ASSUME T # {} PROVE FALSE
  OBVIOUS
<1>0. Len(s) \in Nat /\ T \subseteq Nat
  OBVIOUS
<1>1. PICK n \in T : \A k \in T : ~(<<k, n>> \in OpToRel(<, Nat))
  BY <1>0, NatLessThanWellFounded, WFMin
<1>2. n \in 0 .. Len(s) /\ n \in Nat
  BY <1>0
<1>3. CASE n = 0
  <2>1. 1 .. n = {}
    BY <1>3
  <2>2. [i \in {} |-> s] \in [{} -> Seq(X)]
    OBVIOUS
  <2>3. [i \in {} |-> s] \in Joins(s, X, n)
    BY <2>1, <2>2 DEF Joins
  <2>4. QED
    BY <1>1, <2>3
<1>4. CASE n # 0
  <2>1. n - 1 \in Nat /\ n - 1 \in 0 .. Len(s) /\ n \in 1 .. Len(s)
        /\ <<n - 1, n>> \in OpToRel(<, Nat)
    BY <1>0, <1>2, <1>4 DEF OpToRel
  <2>2. PICK g \in Joins(s, X, n - 1) : TRUE
    BY <1>1, <2>1
  <2>3. g \in [1 .. n - 1 -> Seq(X)]
        /\ \A i \in 1 .. n - 1 : g[i] = IF i = 1 THEN s[i] ELSE g[i - 1] \o s[i]
    BY <2>2 DEF Joins
  <2> DEFINE last == IF n = 1 THEN s[n] ELSE g[n - 1] \o s[n]
             h == [i \in 1 .. n |-> IF i = n THEN last ELSE g[i]]
  <2>4. last \in Seq(X)
    <3>1. s[n] \in Seq(X)
      BY <2>1, ElementOfSeq
    <3>2. n # 1 => n - 1 \in 1 .. n - 1
      <4>1. n \in Nat /\ n # 0
        BY <1>2, <1>4
      <4>2. QED
        BY <4>1
    <3>3. n # 1 => g[n - 1] \in Seq(X)
      BY <2>3, <3>2
    <3>4. QED
      BY <3>1, <3>3
  <2>5. \A i \in 1 .. n : i # n => i \in 1 .. n - 1
    BY <1>2
  <2> HIDE DEF last
  <2>6. h \in [1 .. n -> Seq(X)]
    BY <2>3, <2>4, <2>5
  <2>7. ASSUME NEW i \in 1 .. n
        PROVE  h[i] = IF i = 1 THEN s[i] ELSE h[i - 1] \o s[i]
    <3>1. i # 1 => i - 1 \in 1 .. n - 1 /\ i - 1 \in 1 .. n /\ i - 1 # n
      BY <1>2
    <3>2. i # 1 => h[i - 1] = g[i - 1]
      BY <3>1
    <3>3. CASE i = n
      BY <3>2, <3>3 DEF last
    <3>4. CASE i # n
      BY <2>3, <2>5, <3>2, <3>4
    <3>5. QED
      BY <3>3, <3>4
  <2> HIDE DEF h
  <2>8. h \in Joins(s, X, n)
    BY <2>6, <2>7 DEF Joins
  <2>9. QED
    BY <1>1, <2>8
<1>5. QED
  BY <1>3, <1>4

\* FlattenSeq puts together what it is given.
LEMMA KeepsFlatten ==
  ASSUME NEW f, NEW O, NEW s \in Seq(Seq(StepType)),
         \A i \in 1 .. Len(s) : Keeps(s[i], None, f, O)
  PROVE  Keeps(FlattenSeq(s), None, f, O)
<1> DEFINE N == Len(s)
           step(g) == [i \in 1 .. N |-> IF i = 1 THEN s[i] ELSE g[i - 1] \o s[i]]
           g0 == CHOOSE g : g = step(g)
<1>0. N \in Nat /\ None \in Modes
  BY FolderNames
<1>1. CASE N = 0
  <2>1. s = <<>>
    BY <1>1
  <2>2. FlattenSeq(s) = <<>>
    BY <1>1, <2>1 DEF FlattenSeq
  <2>3. QED
    BY <1>0, <2>2, KeepsEmpty
<1>2. CASE N # 0
  <2>1. PICK g \in Joins(s, StepType, N) : TRUE
    BY <1>0, JoinsExist
  <2>2. g = step(g)
    BY <2>1 DEF Joins
  <2>3. g0 = step(g0)
    BY <2>2
  <2>4. FlattenSeq(s) = g0[N]
    BY <1>2 DEF FlattenSeq
  <2> HIDE DEF g0
  <2>5. \A i \in 1 .. N : g0[i] = IF i = 1 THEN s[i] ELSE g0[i - 1] \o s[i]
    BY <2>3
  <2> DEFINE T == {i \in 1 .. N : ~Keeps(g0[i], None, f, O)}
  <2>6. T = {}
    <3> SUFFICES ASSUME T # {} PROVE FALSE
      OBVIOUS
    <3>1. T \subseteq Nat
      OBVIOUS
    <3>2. PICK n \in T : \A k \in T : ~(<<k, n>> \in OpToRel(<, Nat))
      BY <3>1, NatLessThanWellFounded, WFMin
    <3>3. n \in 1 .. N /\ ~Keeps(g0[n], None, f, O)
      BY <3>2
    <3>4. n # 1
      BY <2>5, <3>3
    <3>5. n - 1 \in 1 .. N /\ <<n - 1, n>> \in OpToRel(<, Nat)
      BY <1>0, <3>3, <3>4 DEF OpToRel
    <3>6. Keeps(g0[n - 1], None, f, O)
      BY <3>2, <3>5
    <3>7. Keeps(g0[n - 1] \o s[n], None, f, O)
      BY <3>3, <3>6, KeepsJoin
    <3>8. QED
      BY <2>5, <3>3, <3>4, <3>7
  <2>7. N \in 1 .. N
    BY <1>0, <1>2
  <2>8. QED
    BY <2>4, <2>6, <2>7
<1>3. QED
  BY <1>1, <1>2

LEMMA SearchEachKeeps ==
  ASSUME NEW f, NEW O, Quiet \subseteq O, NEW X \in SUBSET Folders
  PROVE  Keeps(SearchEach(X), None, f, O)
<1> DEFINE order == SetToSeq(X)
           part(i) == Try(Under(order[i], <<S("search", order[i])>>))
           parts == [i \in DOMAIN order |-> part(i)]
<1>1. IsFiniteSet(X)
  BY FoldersFinite, FS_Subset
<1>2. PICK n \in Nat : order \in [1 .. n -> X]
  BY <1>1, SetToSeqLists
<1>3. DOMAIN order = 1 .. n /\ \A i \in 1 .. n : order[i] \in Folders
  BY <1>2
<1> HIDE DEF order
<1>4. ASSUME NEW i \in 1 .. n
      PROVE  Keeps(part(i), None, f, O)
  <2>1. PICK g \in Folders : g = order[i]
    BY <1>3
  <2>2. "search" \in O /\ g \in Names
    BY FolderNames DEF Quiet
  <2>3. Keeps(<<S("search", g)>>, g, f, O)
    BY <2>2, KeepsInBox
  <2>4. Keeps(Under(g, <<S("search", g)>>), None, f, O)
    BY <2>3, KeepsUnder
  <2>5. Keeps(Try(Under(g, <<S("search", g)>>)), None, f, O)
    BY <2>4, KeepsTry
  <2>6. QED
    BY <2>1, <2>5
<1>5. \A i \in 1 .. n : part(i) \in Seq(StepType)
  BY <1>4 DEF Keeps, Shape
<1> HIDE DEF part
<1>6. parts \in [1 .. n -> Seq(StepType)]
  BY <1>3, <1>5
<1>7. parts \in Seq(Seq(StepType)) /\ Len(parts) = n
  BY <1>6
<1>8. \A i \in 1 .. Len(parts) : Keeps(parts[i], None, f, O)
  BY <1>3, <1>4, <1>7
<1> HIDE DEF parts
<1>9. Keeps(FlattenSeq(parts), None, f, O)
  BY <1>7, <1>8, KeepsFlatten
<1>10. SearchEach(X) = FlattenSeq(parts)
  BY DEF SearchEach, parts, part, order
<1>11. QED
  BY <1>9, <1>10

(***************************************************************************)
(* Who holds the lock.                                                     *)
(***************************************************************************)

Path(c, f) == Shape(todo[c], f, None, request[c].in, MayUse(request[c]))

\* A call is between a lock and its release exactly where it holds the lock of the mailbox
\* that is open, or lost it with the connection.
Holds(c, f) ==
  /\ f = None => holder # c
  /\ f # None => (Live(c) <=> holder = c) /\ (holder = c => box = f)

CoreInv ==
  /\ SiteOK /\ \A c \in Calls : Accepted(request[c]) /\ Registered(request[c].tool)
  /\ todo \in [Calls -> Seq(StepType)]
  /\ reply \in [Calls -> {None, "ok", "error"}]
  /\ \A c \in Calls : reply[c] # None => todo[c] = <<>>
  /\ fate \in [Calls -> SUBSET Fates]
  /\ up \in BOOLEAN /\ gen \in Nat /\ mine \in [Calls -> Nat] /\ faults \in Nat
  /\ \A c \in Calls : mine[c] <= gen
  /\ {holder, fetching, hung, detecting} \subseteq Calls \cup {None} /\ box \in Modes
  /\ exists \subseteq Folders

LineInv ==
  /\ waiting \in Seq(Calls) /\ IsInjective(waiting)
  /\ ~up => holder = None /\ waiting = <<>>
  /\ \A c \in Range(waiting) : Live(c) /\ At(c, {"lock"})
  /\ fetching \in {None, holder} /\ (fetching # None => At(fetching, {"close"}))

PlaceInv == \A c \in Calls : \E f \in Modes : Path(c, f) /\ Holds(c, f)

LockInv == CoreInv /\ LineInv /\ PlaceInv

(***************************************************************************)
(* What a step does to the call that takes it, and to the connection.      *)
(***************************************************************************)

\* Where a scheduling tool ends with a status.
Final == {"findEvent", "addEvent", "addReminder", "openIcs", "noApp"}

\* What is left to do when c's step does not throw.
Onward(c, q) ==
  \/ q = Tail(todo[c])
  \/ At(c, {"scan"}) /\ q = Do("release")
  \/ At(c, {"strategy"})
     /\ q \in {DetectLabelStrategy \o Tail(todo[c]), Do("sharing") \o Tail(todo[c])}
  \/ At(c, {"spread"}) /\ \E X \in SUBSET Folders : q = SearchEach(X) \o Tail(todo[c])
  \/ At(c, Final) /\ q = <<>>

Passes(c, marks) ==
  /\ \E q : Onward(c, q) /\ todo' = [todo EXCEPT ![c] = q]
            /\ (At(c, Final) /\ "changed" \in marks => q = <<>>)
  /\ UNCHANGED <<reply, audited>>
  /\ marks \cap {"refused", "hung", "busy"} = {}

Breaks(c, marks) ==
  /\ Throws(c) /\ ~At(c, {"sharing"})
  /\ "changed" \in marks => "lost" \in marks /\ ~At(c, Final)
  /\ "delivered" \in marks => "unheard" \in marks
  /\ "hung" \notin marks /\ ("busy" \in marks => Stuck)

\* Only a step that may change something leaves the mark of a change, and only a step of
\* SMTP that of a delivery.
CallStep(c) ==
  /\ todo[c] # <<>>
  /\ \E marks \in SUBSET Fates :
       /\ fate' = [fate EXCEPT ![c] = @ \cup marks]
       /\ "changed" \in marks => At(c, Changing \ {"smtp"})
       /\ "delivered" \in marks => At(c, {"smtp"})
       /\ \/ Passes(c, marks)
          \/ Breaks(c, marks)
          \/ UNCHANGED callVars /\ marks \subseteq {"hung"}

\* The connection, when it stays, when a try gives its lock back, and when it goes down.
Stays(c) ==
  /\ UNCHANGED <<linkVars, mine>>
  /\ \/ todo' = todo
     \/ /\ ~At(c, {"lock", "release", "open", "close", "client"})
        /\ \E q : Onward(c, q) /\ todo' = [todo EXCEPT ![c] = q]
     \/ Throws(c) /\ At(c, Unlocked \ {"lock", "sharing"})
GivesBack(c) ==
  /\ Fails(c) /\ ~At(c, {"sharing"}) /\ mine' = mine
  /\ waiting' \in Seq(Calls) /\ IsInjective(waiting') /\ Range(waiting') = Range(waiting) \ {c}
GoesDown(c) == LinkDown /\ Throws(c) /\ ~At(c, {"sharing"}) /\ mine' = mine
Locks(c) ==
  \/ GetImapClient(c) \/ AskForLock(c) \/ Release(c) \/ OpenFetch(c) \/ CloseFetch(c) \/ Hangs(c)
  \/ GetLock(c) /\ GoesOn(c) /\ holder' = c /\ box' = Step(c).in /\ Step(c).in \in exists
     /\ UNCHANGED <<up, gen, fetching, hung>>
LinkStep(c) == Stays(c) \/ GivesBack(c) \/ GoesDown(c) \/ Locks(c)

StepKind(c) ==
  /\ UNCHANGED <<site, request>>
  /\ Answer(c) \/ CallStep(c)
  /\ LinkStep(c)

\* How a step that is no throw, or is one, is of these kinds.
LEMMA PassKind ==
  ASSUME LockInv, NEW c \in Calls, NEW marks \in SUBSET Fates, todo[c] # <<>>,
         UNCHANGED <<site, request, linkVars, mine, reply, audited>>,
         fate' = [fate EXCEPT ![c] = @ \cup marks],
         "changed" \in marks => At(c, Changing \ {"smtp"}),
         "delivered" \in marks => At(c, {"smtp"}),
         marks \cap {"refused", "hung", "busy"} = {},
         NEW q, Onward(c, q), todo' = [todo EXCEPT ![c] = q],
         At(c, Final) /\ "changed" \in marks => q = <<>>,
         ~At(c, {"lock", "release", "open", "close", "client"})
  PROVE  StepKind(c)
<1>1. Passes(c, marks)
  BY DEF Passes
<1>2. CallStep(c)
  BY <1>1 DEF CallStep
<1>3. Stays(c)
  BY DEF Stays
<1>4. QED
  BY <1>2, <1>3 DEF StepKind, LinkStep

LEMMA BreakKind ==
  ASSUME LockInv, NEW c \in Calls, NEW marks \in SUBSET Fates, todo[c] # <<>>,
         UNCHANGED <<site, request, mine>>,
         fate' = [fate EXCEPT ![c] = @ \cup marks],
         "changed" \in marks => At(c, Changing \ {"smtp"}) /\ "lost" \in marks /\ ~At(c, Final),
         "delivered" \in marks => At(c, {"smtp"}) /\ "unheard" \in marks,
         "hung" \notin marks /\ ("busy" \in marks => Stuck),
         Throws(c), ~At(c, {"sharing"}),
         LinkStep(c)
  PROVE  StepKind(c)
<1>1. Breaks(c, marks)
  BY DEF Breaks
<1>2. CallStep(c)
  BY <1>1 DEF CallStep
<1>3. QED
  BY <1>2 DEF StepKind

LEMMA NoMarks ==
  ASSUME LockInv, NEW c \in Calls
  PROVE  [fate EXCEPT ![c] = @ \cup {}] = fate
  BY DEF LockInv, CoreInv

\* A call that is not at a lock is not in line for one.
LEMMA NotInLine ==
  ASSUME LockInv, NEW c \in Calls, ~At(c, {"lock"}) \/ ~Live(c)
  PROVE  Range(waiting) = Range(waiting) \ {c}
  BY DEF LockInv, LineInv

LEMMA FailKind ==
  ASSUME LockInv, NEW c \in Calls, NEW marks \in SUBSET Fates, todo[c] # <<>>,
         UNCHANGED <<site, request, mine, waiting>>,
         fate' = [fate EXCEPT ![c] = @ \cup marks],
         "changed" \notin marks,
         "delivered" \in marks => At(c, {"smtp"}) /\ "unheard" \in marks,
         "hung" \notin marks, "busy" \notin marks,
         Fails(c), ~At(c, {"sharing"}),
         ~At(c, {"lock"}) \/ ~Live(c)
  PROVE  StepKind(c)
<1>1. waiting \in Seq(Calls) /\ IsInjective(waiting)
  BY DEF LockInv, LineInv
<1>2. GivesBack(c)
  BY <1>1, NotInLine DEF GivesBack
<1>3. Throws(c) /\ LinkStep(c)
  BY <1>2 DEF Fails, LinkStep
<1>4. QED
  BY <1>3, BreakKind

\* The steps that change something.
LEMMA DoneKind ==
  ASSUME LockInv, NEW c \in Calls, NEW marks \in SUBSET {"changed", "removed"}, Done(c, marks),
         At(c, Changes), UNCHANGED <<site, request, mine>>
  PROVE  StepKind(c)
<1>1. At(c, Changing \ {"smtp"}) /\ ~At(c, Final) /\ todo[c] # <<>> /\ ~At(c, {"sharing"})
      /\ ~At(c, {"lock", "release", "open", "close", "client"})
  BY DEF At, Changes, Changing, Final
<1>2. CASE /\ GoesOn(c)
           /\ fate' = [fate EXCEPT ![c] = @ \cup marks]
           /\ UNCHANGED <<linkVars, faults>>
  <2>1. Onward(c, Tail(todo[c])) /\ todo' = [todo EXCEPT ![c] = Tail(todo[c])]
        /\ UNCHANGED <<reply, audited>>
    BY <1>2 DEF Onward, GoesOn
  <2>2. marks \in SUBSET Fates /\ marks \cap {"refused", "hung", "busy"} = {}
        /\ "delivered" \notin marks
    BY DEF Fates
  <2>3. QED
    BY <1>1, <1>2, <2>1, <2>2, PassKind
<1>3. CASE /\ LinkDown /\ Throws(c)
           /\ fate' = [fate EXCEPT ![c] = @ \cup (marks \ {"removed"}) \cup {"lost"}]
  <2> DEFINE more == (marks \ {"removed"}) \cup {"lost"}
  <2>1. /\ more \in SUBSET Fates /\ "lost" \in more /\ more \cap {"delivered", "hung", "busy"} = {}
        /\ fate' = [fate EXCEPT ![c] = @ \cup more]
    BY <1>3 DEF Fates
  <2>2. LinkStep(c)
    BY <1>1, <1>3 DEF LinkStep, GoesDown
  <2> HIDE DEF more
  <2>3. QED
    BY <1>1, <1>3, <2>1, <2>2, BreakKind
<1>4. QED
  BY <1>2, <1>3 DEF Done

LEMMA StepKinds ==
  ASSUME LockInv, NEW c \in Calls, Goes(c)
  PROVE  StepKind(c)
<1> USE DEF keptVars, fixedVars, worldVars, serverVars, linkVars, callVars
<1>0. [fate EXCEPT ![c] = @ \cup {}] = fate /\ {} \in SUBSET Fates /\ {} \cap {"refused", "hung", "busy"} = {}
  BY NoMarks
<1>a. ASSUME At(c, Ops \ {"lock", "release", "open", "close", "client"}), GoesOn(c),
             UNCHANGED <<site, request, linkVars, mine>>,
             NEW marks \in SUBSET {"changed", "removed", "delivered"},
             "changed" \in marks => At(c, Changing \ ({"smtp"} \cup Final)),
             "delivered" \in marks => At(c, {"smtp"}),
             fate' = [fate EXCEPT ![c] = @ \cup marks]
      PROVE  StepKind(c)
  <2>1. Onward(c, Tail(todo[c])) /\ todo' = [todo EXCEPT ![c] = Tail(todo[c])] /\ todo[c] # <<>>
        /\ UNCHANGED <<reply, audited>>
    BY <1>a DEF Onward, GoesOn, At
  <2>2. marks \in SUBSET Fates /\ marks \cap {"refused", "hung", "busy"} = {}
    BY DEF Fates
  <2>3. ~At(c, {"lock", "release", "open", "close", "client"})
        /\ ("changed" \in marks => At(c, Changing \ {"smtp"}) /\ ~At(c, Final))
    BY <1>a DEF At
  <2>4. QED
    BY <1>a, <2>1, <2>2, <2>3, PassKind
<1>b. ASSUME At(c, Ops \ {"lock", "release", "open", "close", "client"}), GoesOn(c),
             UNCHANGED <<site, request, linkVars, mine, fate>>
      PROVE  StepKind(c)
  BY <1>0, <1>a, <1>b
<1>c. ASSUME Locks(c), At(c, {"client", "lock", "release", "open", "close"}), GoesOn(c),
             UNCHANGED <<site, request, fate>>
      PROVE  StepKind(c)
  <2>1. Onward(c, Tail(todo[c])) /\ todo' = [todo EXCEPT ![c] = Tail(todo[c])] /\ todo[c] # <<>>
        /\ UNCHANGED <<reply, audited>>
    BY <1>c DEF Onward, GoesOn, At
  <2>2. Passes(c, {})
    BY <1>0, <2>1 DEF Passes
  <2>3. CallStep(c)
    BY <1>0, <1>c, <2>1, <2>2 DEF CallStep
  <2>4. QED
    BY <1>c, <2>3 DEF StepKind, LinkStep
<1>1. Answer(c) => StepKind(c)
  BY DEF Answer, StepKind, LinkStep, Stays
<1>2. Refuse(c) => StepKind(c)
  <2>1. SUFFICES ASSUME Refuse(c) PROVE StepKind(c)
    OBVIOUS
  <2>2. At(c, {"refuse", "rate"}) /\ Fails(c) /\ UNCHANGED <<site, request, mine, waiting, fate>>
    BY <2>1 DEF Refuse
  <2>3. todo[c] # <<>> /\ ~At(c, {"sharing"}) /\ ~At(c, {"lock"})
    BY <2>2 DEF At
  <2>4. QED
    BY <1>0, <2>2, <2>3, FailKind
<1>3. CheckRateLimit(c) => StepKind(c)
  <2>1. SUFFICES ASSUME CheckRateLimit(c) PROVE StepKind(c)
    OBVIOUS
  <2>2. At(c, Ops \ {"lock", "release", "open", "close", "client"})
    BY <2>1 DEF CheckRateLimit, At, Ops, Quiet
  <2>3. QED
    BY <1>b, <2>1, <2>2 DEF CheckRateLimit
<1>4. GetImapClient(c) => StepKind(c)
  <2>1. SUFFICES ASSUME GetImapClient(c) PROVE StepKind(c)
    OBVIOUS
  <2>2. /\ At(c, {"client", "lock", "release", "open", "close"}) /\ GoesOn(c)
        /\ UNCHANGED <<site, request, fate>>
    BY <2>1 DEF GetImapClient, At
  <2>3. QED
    BY <1>c, <2>1, <2>2 DEF Locks
<1>5. ConnectFails(c) => StepKind(c)
  <2>1. SUFFICES ASSUME ConnectFails(c) PROVE StepKind(c)
    OBVIOUS
  <2>2. At(c, {"client"}) /\ Fails(c) /\ UNCHANGED <<site, request, mine, waiting, fate>>
    BY <2>1 DEF ConnectFails
  <2>3. todo[c] # <<>> /\ ~At(c, {"sharing"}) /\ ~At(c, {"lock"})
    BY <2>2 DEF At
  <2>4. QED
    BY <1>0, <2>2, <2>3, FailKind
<1>6. GetStrategy(c) => StepKind(c)
  <2>1. SUFFICES ASSUME GetStrategy(c) PROVE StepKind(c)
    OBVIOUS
  <2>2. At(c, {"strategy", "sharing"}) /\ UNCHANGED <<site, request, linkVars, mine, fate>>
    BY <2>1 DEF GetStrategy, At
  <2>3. At(c, Ops \ {"lock", "release", "open", "close", "client"}) /\ todo[c] # <<>>
        /\ ~At(c, {"lock", "release", "open", "close", "client"}) /\ ~At(c, Final)
    BY <2>2 DEF At, Ops, Quiet, Final
  <2>4. CASE GoesOn(c)
    BY <1>b, <2>2, <2>3, <2>4
  <2>5. CASE ~GoesOn(c)
    <3>1. PICK q : q = (IF detecting = None THEN DetectLabelStrategy ELSE Do("sharing"))
                       \o Tail(todo[c])
      OBVIOUS
    <3>2. At(c, {"strategy"}) /\ todo' = [todo EXCEPT ![c] = q] /\ UNCHANGED <<reply, audited>>
      BY <2>1, <2>5, <3>1 DEF GetStrategy
    <3>3. Onward(c, q)
      BY <3>1, <3>2 DEF Onward
    <3>4. QED
      BY <1>0, <2>2, <2>3, <3>2, <3>3, PassKind
  <2>6. QED
    BY <2>4, <2>5
<1>7. Detected(c) => StepKind(c)
  <2>1. SUFFICES ASSUME Detected(c) PROVE StepKind(c)
    OBVIOUS
  <2>2. /\ At(c, {"detected"}) /\ UNCHANGED <<site, request, linkVars, mine, fate, reply, audited>>
        /\ todo' = [todo EXCEPT ![c] = Tail(todo[c])]
    BY <2>1 DEF Detected
  <2>3. todo[c] # <<>>
        /\ ~At(c, {"lock", "release", "open", "close", "client"}) /\ ~At(c, Final)
    BY <2>2 DEF At, Final
  <2>4. Onward(c, Tail(todo[c]))
    BY DEF Onward
  <2>5. QED
    BY <1>0, <2>2, <2>3, <2>4, PassKind
<1>8. AskForLock(c) => StepKind(c)
  <2>1. SUFFICES ASSUME AskForLock(c) PROVE StepKind(c)
    OBVIOUS
  <2>2. UNCHANGED <<site, request, fate, todo, reply, audited, detecting>> /\ todo[c] # <<>>
    BY <2>1 DEF AskForLock, At
  <2>3. CallStep(c)
    BY <1>0, <2>2 DEF CallStep
  <2>4. QED
    BY <2>1, <2>2, <2>3 DEF StepKind, LinkStep, Locks
<1>9. GetLock(c) => StepKind(c)
  <2>1. SUFFICES ASSUME GetLock(c) PROVE StepKind(c)
    OBVIOUS
  <2>2. waiting \in Seq(Calls) /\ waiting # <<>> /\ Head(waiting) = c /\ waiting' = Tail(waiting)
        /\ IsInjective(waiting) /\ UNCHANGED <<site, request, fate, mine>>
    BY <2>1 DEF GetLock, LockInv, LineInv
  <2>3. c \in Range(waiting)
    <3>1. 1 \in DOMAIN waiting /\ waiting[1] = c
      BY <2>2
    <3>2. QED
      BY <3>1 DEF Range
  <2>4. At(c, {"lock"}) /\ Live(c) /\ todo[c] # <<>>
    BY <2>3 DEF LockInv, LineInv, At
  <2>5. CASE Step(c).in \in exists \ Unopenable
    <3>1. Locks(c) /\ GoesOn(c)
      BY <2>1, <2>5 DEF GetLock, Locks
    <3>2. At(c, {"client", "lock", "release", "open", "close"})
      BY <2>4 DEF At
    <3>3. QED
      BY <1>c, <2>2, <3>1, <3>2
  <2>6. CASE ~(Step(c).in \in exists \ Unopenable)
    <3>1. Fails(c) /\ Throws(c)
      BY <2>1, <2>6 DEF GetLock, Fails
    <3>2. ~At(c, {"sharing"})
      BY <2>4 DEF At
    <3>3. waiting' \in Seq(Calls) /\ IsInjective(waiting') /\ Range(waiting') = Range(waiting) \ {c}
      <4>1. /\ waiting' \in Seq(Calls) /\ Len(waiting') = Len(waiting) - 1 /\ Len(waiting) \in Nat
            /\ Len(waiting) # 0 /\ \A i \in 1 .. Len(waiting') : waiting'[i] = waiting[i + 1]
            /\ waiting[1] = c
        BY <2>2
      <4>2. DOMAIN waiting = 1 .. Len(waiting) /\ DOMAIN waiting' = 1 .. Len(waiting')
        BY <2>2, <4>1
      <4>3. \A i \in DOMAIN waiting' : i + 1 \in DOMAIN waiting /\ waiting[i + 1] # c
        BY <2>2, <4>1, <4>2 DEF IsInjective
      <4>4. \A i \in DOMAIN waiting : i # 1 => i - 1 \in DOMAIN waiting' /\ waiting'[i - 1] = waiting[i]
        BY <2>2, <4>1, <4>2
      <4>5. IsInjective(waiting')
        BY <2>2, <4>1, <4>2, <4>3 DEF IsInjective
      <4>6. Range(waiting') = Range(waiting) \ {c}
        <5>1. \A x \in Range(waiting') : x \in Range(waiting) \ {c}
          BY <4>1, <4>2, <4>3 DEF Range
        <5>2. \A x \in Range(waiting) \ {c} : x \in Range(waiting')
          BY <4>1, <4>4 DEF Range
        <5>3. QED
          BY <5>1, <5>2
      <4>7. QED
        BY <4>1, <4>5, <4>6
    <3>4. GivesBack(c)
      BY <2>2, <3>1, <3>2, <3>3 DEF GivesBack
    <3>5. QED
      BY <1>0, <2>2, <2>4, <3>1, <3>2, <3>4, BreakKind DEF LinkStep
  <2>7. QED
    BY <2>5, <2>6
<1>10. LockTimeout(c) => StepKind(c)
  <2>1. SUFFICES ASSUME LockTimeout(c) PROVE StepKind(c)
    OBVIOUS
  <2>2. PICK i \in DOMAIN waiting : waiting[i] = c /\ waiting' = RemoveAt(waiting, i)
    BY <2>1 DEF LockTimeout
  <2>3. waiting \in Seq(Calls) /\ IsInjective(waiting)
    BY DEF LockInv, LineInv
  <2>4. At(c, {"lock"}) /\ Live(c) /\ todo[c] # <<>> /\ ~At(c, {"sharing"})
    <3>1. c \in Range(waiting)
      BY <2>2 DEF Range
    <3>2. QED
      BY <3>1 DEF LockInv, LineInv, At
  <2>5. waiting' \in Seq(Calls) /\ IsInjective(waiting') /\ Range(waiting') = Range(waiting) \ {c}
    <3>1. PICK n \in Nat : n = Len(waiting) /\ i \in 1 .. n /\ DOMAIN waiting = 1 .. n
      BY <2>2, <2>3
    <3>2. waiting' = SubSeq(waiting, 1, i - 1) \o SubSeq(waiting, i + 1, n)
      BY <2>2, <3>1 DEF RemoveAt
    <3>3. /\ SubSeq(waiting, 1, i - 1) \in Seq(Calls) /\ Len(SubSeq(waiting, 1, i - 1)) = i - 1
          /\ \A j \in 1 .. i - 1 : SubSeq(waiting, 1, i - 1)[j] = waiting[j]
      BY <2>3, <3>1
    <3>4. /\ SubSeq(waiting, i + 1, n) \in Seq(Calls) /\ Len(SubSeq(waiting, i + 1, n)) = n - i
          /\ \A j \in 1 .. n - i : SubSeq(waiting, i + 1, n)[j] = waiting[i + j]
      BY <2>3, <3>1
    <3>5. /\ waiting' \in Seq(Calls) /\ Len(waiting') = n - 1
          /\ \A j \in 1 .. n - 1 : waiting'[j] = IF j < i THEN waiting[j] ELSE waiting[j + 1]
      <4> DEFINE p == SubSeq(waiting, 1, i - 1)
                 q == SubSeq(waiting, i + 1, n)
      <4> HIDE DEF p, q
      <4>1. p \in Seq(Calls) /\ q \in Seq(Calls) /\ Len(p) = i - 1 /\ Len(q) = n - i
        BY <3>3, <3>4 DEF p, q
      <4>2. /\ p \o q \in Seq(Calls) /\ Len(p \o q) = n - 1
            /\ \A j \in 1 .. n - 1 : (p \o q)[j] = IF j < i THEN p[j] ELSE q[j - (i - 1)]
        <5>1. /\ p \o q \in Seq(Calls) /\ Len(p \o q) = Len(p) + Len(q)
              /\ \A j \in 1 .. Len(p) + Len(q) :
                   (p \o q)[j] = IF j <= Len(p) THEN p[j] ELSE q[j - Len(p)]
          BY <4>1, ConcatProperties
        <5>2. i - 1 \in Int /\ n - i \in Int /\ i - 1 + (n - i) = n - 1
              /\ \A j \in 1 .. n - 1 : j <= i - 1 <=> j < i
          BY <3>1
        <5>3. QED
          BY <4>1, <5>1, <5>2
      <4>3. \A j \in 1 .. n - 1 : j < i => p[j] = waiting[j]
        BY <3>1, <3>3 DEF p
      <4>4. \A j \in 1 .. n - 1 : ~(j < i) => q[j - (i - 1)] = waiting[j + 1]
        <5>1. \A j \in 1 .. n - 1 : ~(j < i) => j - (i - 1) \in 1 .. n - i /\ i + (j - (i - 1)) = j + 1
          BY <3>1
        <5>2. QED
          BY <3>4, <5>1 DEF q
      <4>5. waiting' = p \o q
        BY <3>2 DEF p, q
      <4>6. QED
        BY <4>2, <4>3, <4>4, <4>5
    <3>6. DOMAIN waiting' = 1 .. n - 1
      BY <3>1, <3>5
    <3>7. \A j \in 1 .. n : j # i => (IF j < i THEN j ELSE j - 1) \in 1 .. n - 1
                               /\ waiting'[IF j < i THEN j ELSE j - 1] = waiting[j]
      BY <3>1, <3>5
    <3>8. \A j \in 1 .. n - 1 : (IF j < i THEN j ELSE j + 1) \in 1 .. n
                               /\ (IF j < i THEN j ELSE j + 1) # i
                               /\ waiting'[j] = waiting[IF j < i THEN j ELSE j + 1]
      BY <3>1, <3>5
    <3>9. \A j \in 1 .. n : j # i => waiting[j] # c
      BY <2>2, <2>3, <3>1 DEF IsInjective
    <3>10. Range(waiting') = Range(waiting) \ {c}
      <4>1. \A x \in Range(waiting') : x \in Range(waiting) \ {c}
        BY <3>1, <3>6, <3>8, <3>9 DEF Range
      <4>2. \A x \in Range(waiting) \ {c} : x \in Range(waiting')
        BY <2>2, <3>1, <3>6, <3>7 DEF Range
      <4>3. QED
        BY <4>1, <4>2
    <3>11. IsInjective(waiting')
      <4>1. SUFFICES ASSUME NEW j \in 1 .. n - 1, NEW k \in 1 .. n - 1, waiting'[j] = waiting'[k]
                     PROVE  j = k
        BY <3>6 DEF IsInjective
      <4>2. PICK x \in 1 .. n : x = IF j < i THEN j ELSE j + 1
        BY <3>8
      <4>3. PICK y \in 1 .. n : y = IF k < i THEN k ELSE k + 1
        BY <3>8
      <4>4. waiting[x] = waiting[y]
        BY <3>8, <4>1, <4>2, <4>3
      <4>5. x = y
        BY <2>3, <3>1, <4>4 DEF IsInjective
      <4>6. QED
        BY <3>1, <4>2, <4>3, <4>5
    <3>12. QED
      BY <3>5, <3>10, <3>11
  <2>6. Fails(c) /\ Throws(c) /\ UNCHANGED <<site, request, mine>> /\ Stuck
        /\ fate' = [fate EXCEPT ![c] = @ \cup {"busy"}]
    BY <2>1 DEF LockTimeout, Fails
  <2>7. GivesBack(c)
    BY <2>4, <2>5, <2>6 DEF GivesBack
  <2>8. {"busy"} \in SUBSET Fates
    BY DEF Fates
  <2>9. QED
    BY <2>4, <2>6, <2>7, <2>8, BreakKind DEF LinkStep
<1>11. Release(c) => StepKind(c)
  <2>1. SUFFICES ASSUME Release(c) PROVE StepKind(c)
    OBVIOUS
  <2>2. /\ At(c, {"client", "lock", "release", "open", "close"}) /\ GoesOn(c)
        /\ UNCHANGED <<site, request, fate>>
    BY <2>1 DEF Release, At
  <2>3. QED
    BY <1>c, <2>1, <2>2 DEF Locks
<1>12. Look(c) => StepKind(c)
  <2>1. SUFFICES ASSUME Look(c) PROVE StepKind(c)
    OBVIOUS
  <2>2. At(c, {"look"}) /\ GoesOn(c) /\ UNCHANGED <<site, request, linkVars, mine, fate>>
    BY <2>1 DEF Look, Runs, ReadOk, Ends, Aside, At
  <2>3. At(c, Ops \ {"lock", "release", "open", "close", "client"})
    BY <2>2 DEF At, Ops, Quiet
  <2>4. QED
    BY <1>b, <2>2, <2>3
<1>13. ScanFinds(c) => StepKind(c)
  <2>1. SUFFICES ASSUME ScanFinds(c) PROVE StepKind(c)
    OBVIOUS
  <2>2. At(c, {"scan"}) /\ GoesOn(c) /\ UNCHANGED <<site, request, linkVars, mine, fate>>
    BY <2>1 DEF ScanFinds, Runs, ReadOk, Ends, Aside, At
  <2>3. At(c, Ops \ {"lock", "release", "open", "close", "client"})
    BY <2>2 DEF At, Ops, Quiet
  <2>4. QED
    BY <1>b, <2>2, <2>3
<1>14. ScanEmpty(c) => StepKind(c)
  <2>1. SUFFICES ASSUME ScanEmpty(c) PROVE StepKind(c)
    OBVIOUS
  <2>2. PICK q : /\ todo' = [todo EXCEPT ![c] = q] /\ q = Do("release")
                 /\ At(c, {"scan"})
                 /\ UNCHANGED <<site, request, linkVars, mine, fate, reply, audited>>
    BY <2>1 DEF ScanEmpty, Runs
  <2>3. todo[c] # <<>>
        /\ ~At(c, {"lock", "release", "open", "close", "client"}) /\ ~At(c, Final)
    BY <2>2 DEF At, Final
  <2>4. Onward(c, q)
    BY <2>2 DEF Onward
  <2>5. QED
    BY <1>0, <2>2, <2>3, <2>4, PassKind
<1>15. Fetch(c) => StepKind(c)
  <2>1. SUFFICES ASSUME Fetch(c) PROVE StepKind(c)
    OBVIOUS
  <2>2. At(c, {"fetch"}) /\ GoesOn(c) /\ UNCHANGED <<site, request, linkVars, mine, fate>>
    BY <2>1 DEF Fetch, Runs, ReadOk, Ends, Aside, At
  <2>3. At(c, Ops \ {"lock", "release", "open", "close", "client"})
    BY <2>2 DEF At, Ops, Quiet
  <2>4. QED
    BY <1>b, <2>2, <2>3
<1>16. OpenFetch(c) => StepKind(c)
  <2>1. SUFFICES ASSUME OpenFetch(c) PROVE StepKind(c)
    OBVIOUS
  <2>2. /\ At(c, {"client", "lock", "release", "open", "close"}) /\ GoesOn(c)
        /\ UNCHANGED <<site, request, fate>>
    BY <2>1 DEF OpenFetch, Runs, At
  <2>3. QED
    BY <1>c, <2>1, <2>2 DEF Locks
<1>17. CloseFetch(c) => StepKind(c)
  <2>1. SUFFICES ASSUME CloseFetch(c) PROVE StepKind(c)
    OBVIOUS
  <2>2. /\ At(c, {"client", "lock", "release", "open", "close"}) /\ GoesOn(c)
        /\ UNCHANGED <<site, request, fate>>
    BY <2>1 DEF CloseFetch, Runs, At
  <2>3. QED
    BY <1>c, <2>1, <2>2 DEF Locks
<1>18. ListFolders(c) => StepKind(c)
  <2>1. SUFFICES ASSUME ListFolders(c) PROVE StepKind(c)
    OBVIOUS
  <2>2. At(c, {"list"}) /\ GoesOn(c) /\ UNCHANGED <<site, request, linkVars, mine, fate>>
    BY <2>1 DEF ListFolders, Runs, ReadOk, Ends, Aside, At
  <2>3. At(c, Ops \ {"lock", "release", "open", "close", "client"})
    BY <2>2 DEF At, Ops, Quiet
  <2>4. QED
    BY <1>b, <2>2, <2>3
<1>19. FolderAllowed(c) => StepKind(c)
  <2>1. SUFFICES ASSUME FolderAllowed(c) PROVE StepKind(c)
    OBVIOUS
  <2>2. At(c, {"real", "removable"}) /\ GoesOn(c) /\ UNCHANGED <<site, request, linkVars, mine, fate>>
    BY <2>1 DEF FolderAllowed, Runs, ReadOk, Ends, Aside, At
  <2>3. At(c, Ops \ {"lock", "release", "open", "close", "client"})
    BY <2>2 DEF At, Ops, Quiet
  <2>4. QED
    BY <1>b, <2>2, <2>3
<1>20. SpreadSearch(c) => StepKind(c)
  <2>1. SUFFICES ASSUME SpreadSearch(c) PROVE StepKind(c)
    OBVIOUS
  <2>2. exists \ Virtual \in SUBSET Folders
    BY DEF LockInv, CoreInv
  <2>3. PICK q : /\ todo' = [todo EXCEPT ![c] = q] /\ q = SearchEach(exists \ Virtual) \o Tail(todo[c])
                 /\ At(c, {"spread"})
                 /\ UNCHANGED <<site, request, linkVars, mine, fate, reply, audited>>
    BY <2>1 DEF SpreadSearch, Runs
  <2>4. todo[c] # <<>>
        /\ ~At(c, {"lock", "release", "open", "close", "client"}) /\ ~At(c, Final)
    BY <2>3 DEF At, Final
  <2>5. Onward(c, q)
    BY <2>2, <2>3 DEF Onward
  <2>6. QED
    BY <1>0, <2>3, <2>4, <2>5, PassKind
<1>21. SearchFolder(c) => StepKind(c)
  <2>1. SUFFICES ASSUME SearchFolder(c) PROVE StepKind(c)
    OBVIOUS
  <2>2. At(c, {"search"}) /\ GoesOn(c) /\ UNCHANGED <<site, request, linkVars, mine, fate>>
    BY <2>1 DEF SearchFolder, Runs, ReadOk, Ends, Aside, At
  <2>3. At(c, Ops \ {"lock", "release", "open", "close", "client"})
    BY <2>2 DEF At, Ops, Quiet
  <2>4. QED
    BY <1>b, <2>2, <2>3
<1>22. MoveMessages(c) => StepKind(c)
  <2>1. SUFFICES ASSUME MoveMessages(c) PROVE StepKind(c)
    OBVIOUS
  <2>2. PICK marks \in SUBSET {"changed", "removed"} : Done(c, marks)
    BY <2>1 DEF MoveMessages, DoneBy
  <2>3. At(c, Changes)
    BY <2>1 DEF MoveMessages, Runs, At, Changes
  <2>4. UNCHANGED <<site, request, mine>>
    BY <2>2 DEF Done
  <2>5. QED
    BY <2>2, <2>3, <2>4, DoneKind
<1>23. DeleteMessages(c) => StepKind(c)
  <2>1. SUFFICES ASSUME DeleteMessages(c) PROVE StepKind(c)
    OBVIOUS
  <2>2. PICK marks \in SUBSET {"changed", "removed"} : Done(c, marks)
    BY <2>1 DEF DeleteMessages, DoneBy
  <2>3. At(c, Changes)
    BY <2>1 DEF DeleteMessages, Runs, At, Changes
  <2>4. UNCHANGED <<site, request, mine>>
    BY <2>2 DEF Done
  <2>5. QED
    BY <2>2, <2>3, <2>4, DoneKind
<1>24. MarkMessages(c) => StepKind(c)
  <2>1. SUFFICES ASSUME MarkMessages(c) PROVE StepKind(c)
    OBVIOUS
  <2>2. PICK marks \in SUBSET {"changed", "removed"} : Done(c, marks)
    BY <2>1 DEF MarkMessages, DoneBy
  <2>3. At(c, Changes)
    BY <2>1 DEF MarkMessages, Runs, At, Changes
  <2>4. UNCHANGED <<site, request, mine>>
    BY <2>2 DEF Done
  <2>5. QED
    BY <2>2, <2>3, <2>4, DoneKind
<1>25. CopyMessages(c) => StepKind(c)
  <2>1. SUFFICES ASSUME CopyMessages(c) PROVE StepKind(c)
    OBVIOUS
  <2>2. PICK marks \in SUBSET {"changed", "removed"} : Done(c, marks)
    BY <2>1 DEF CopyMessages, DoneBy
  <2>3. At(c, Changes)
    BY <2>1 DEF CopyMessages, Runs, At, Changes
  <2>4. UNCHANGED <<site, request, mine>>
    BY <2>2 DEF Done
  <2>5. QED
    BY <2>2, <2>3, <2>4, DoneKind
<1>26. DeleteCopies(c) => StepKind(c)
  <2>1. SUFFICES ASSUME DeleteCopies(c) PROVE StepKind(c)
    OBVIOUS
  <2>2. PICK marks \in SUBSET {"changed", "removed"} : Done(c, marks)
    BY <2>1 DEF DeleteCopies, DoneBy
  <2>3. At(c, Changes)
    BY <2>1 DEF DeleteCopies, Runs, At, Changes
  <2>4. UNCHANGED <<site, request, mine>>
    BY <2>2 DEF Done
  <2>5. QED
    BY <2>2, <2>3, <2>4, DoneKind
<1>27. CreateMissingMailbox(c) => StepKind(c)
  <2>1. SUFFICES ASSUME CreateMissingMailbox(c) PROVE StepKind(c)
    OBVIOUS
  <2>2. PICK marks \in SUBSET {"changed", "removed"} : Done(c, marks)
    BY <2>1 DEF CreateMissingMailbox, DoneBy
  <2>3. At(c, Changes)
    BY <2>1 DEF CreateMissingMailbox, Runs, At, Changes
  <2>4. UNCHANGED <<site, request, mine>>
    BY <2>2 DEF Done
  <2>5. QED
    BY <2>2, <2>3, <2>4, DoneKind
<1>28. AppendMessage(c) => StepKind(c)
  <2>1. SUFFICES ASSUME AppendMessage(c) PROVE StepKind(c)
    OBVIOUS
  <2>2. PICK marks \in SUBSET {"changed", "removed"} : Done(c, marks)
    BY <2>1 DEF AppendMessage, DoneBy
  <2>3. At(c, Changes)
    BY <2>1 DEF AppendMessage, Runs, At, Changes
  <2>4. UNCHANGED <<site, request, mine>>
    BY <2>2 DEF Done
  <2>5. QED
    BY <2>2, <2>3, <2>4, DoneKind
<1>29. MailboxCreate(c) => StepKind(c)
  <2>1. SUFFICES ASSUME MailboxCreate(c) PROVE StepKind(c)
    OBVIOUS
  <2>2. PICK marks \in SUBSET {"changed", "removed"} : Done(c, marks)
    BY <2>1 DEF MailboxCreate, DoneBy
  <2>3. At(c, Changes)
    BY <2>1 DEF MailboxCreate, Runs, At, Changes
  <2>4. UNCHANGED <<site, request, mine>>
    BY <2>2 DEF Done
  <2>5. QED
    BY <2>2, <2>3, <2>4, DoneKind
<1>30. MailboxRename(c) => StepKind(c)
  <2>1. SUFFICES ASSUME MailboxRename(c) PROVE StepKind(c)
    OBVIOUS
  <2>2. PICK marks \in SUBSET {"changed", "removed"} : Done(c, marks)
    BY <2>1 DEF MailboxRename, DoneBy
  <2>3. At(c, Changes)
    BY <2>1 DEF MailboxRename, Runs, At, Changes
  <2>4. UNCHANGED <<site, request, mine>>
    BY <2>2 DEF Done
  <2>5. QED
    BY <2>2, <2>3, <2>4, DoneKind
<1>31. MailboxDelete(c) => StepKind(c)
  <2>1. SUFFICES ASSUME MailboxDelete(c) PROVE StepKind(c)
    OBVIOUS
  <2>2. PICK marks \in SUBSET {"changed", "removed"} : Done(c, marks)
    BY <2>1 DEF MailboxDelete, DoneBy
  <2>3. At(c, Changes)
    BY <2>1 DEF MailboxDelete, Runs, At, Changes
  <2>4. UNCHANGED <<site, request, mine>>
    BY <2>2 DEF Done
  <2>5. QED
    BY <2>2, <2>3, <2>4, DoneKind
<1>32. Rejected(c) => StepKind(c)
  <2>1. SUFFICES ASSUME Rejected(c) PROVE StepKind(c)
    OBVIOUS
  <2>2. At(c, Commands) /\ Fails(c) /\ UNCHANGED <<site, request, mine, waiting>>
    BY <2>1 DEF Rejected, Runs, At
  <2>3. todo[c] # <<>> /\ ~At(c, {"sharing"}) /\ ~At(c, {"lock"})
    BY <2>2 DEF At, Commands, Reads, Changes, Elsewhere
  <2>4. fate' = [fate EXCEPT ![c] = @ \cup {"refused"}]
    BY <1>0, <2>1 DEF Rejected
  <2>5. {"refused"} \in SUBSET Fates
    BY DEF Fates
  <2>6. QED
    BY <2>2, <2>3, <2>4, <2>5, FailKind
<1>33. DraftKept(c) => StepKind(c)
  <2>1. SUFFICES ASSUME DraftKept(c) PROVE StepKind(c)
    OBVIOUS
  <2>2. At(c, {"discard"}) /\ GoesOn(c) /\ UNCHANGED <<site, request, linkVars, mine>>
        /\ fate' = [fate EXCEPT ![c] = @ \cup {"removed"}]
    BY <2>1 DEF DraftKept, Runs
  <2>3. At(c, Ops \ {"lock", "release", "open", "close", "client"})
    BY <2>2 DEF At, Ops, Changing
  <2>4. QED
    BY <1>a, <2>2, <2>3
<1>34. Hangs(c) => StepKind(c)
  <2>1. SUFFICES ASSUME Hangs(c) PROVE StepKind(c)
    OBVIOUS
  <2>2. /\ fate' = [fate EXCEPT ![c] = @ \cup {"hung"}] /\ UNCHANGED callVars
        /\ todo[c] # <<>> /\ UNCHANGED <<site, request>>
    BY <2>1 DEF Hangs, Runs, At
  <2>3. {"hung"} \in SUBSET Fates
    BY DEF Fates
  <2>4. CallStep(c)
    BY <2>2, <2>3 DEF CallStep
  <2>5. QED
    BY <2>1, <2>2, <2>4 DEF StepKind, LinkStep, Locks
<1>35. NoConnection(c) => StepKind(c)
  <2>1. SUFFICES ASSUME NoConnection(c) PROVE StepKind(c)
    OBVIOUS
  <2>2. At(c, Commands \cup {"lock", "close"}) /\ Fails(c) /\ UNCHANGED <<site, request, mine, waiting>> /\ ~Live(c)
    BY <2>1 DEF NoConnection, Runs, At
  <2>3. todo[c] # <<>> /\ ~At(c, {"sharing"})
    BY <2>2 DEF At, Commands, Reads, Changes, Elsewhere
  <2>4. fate' = [fate EXCEPT ![c] = @ \cup {}]
    BY <1>0, <2>1 DEF NoConnection
  <2>5. {} \in SUBSET Fates
    BY DEF Fates
  <2>6. QED
    BY <2>2, <2>3, <2>4, <2>5, FailKind
<1>36. Deliver(c) => StepKind(c)
  <2>1. SUFFICES ASSUME Deliver(c) PROVE StepKind(c)
    OBVIOUS
  <2>2. At(c, {"smtp"}) /\ GoesOn(c) /\ UNCHANGED <<site, request, linkVars, mine>>
        /\ fate' = [fate EXCEPT ![c] = @ \cup {"delivered"}]
    BY <2>1 DEF Deliver
  <2>3. At(c, Ops \ {"lock", "release", "open", "close", "client"})
    BY <2>2 DEF At, Ops, Changing
  <2>4. QED
    BY <1>a, <2>2, <2>3
<1>37. SendFails(c) => StepKind(c)
  <2>1. SUFFICES ASSUME SendFails(c) PROVE StepKind(c)
    OBVIOUS
  <2>2. At(c, {"smtp"}) /\ Fails(c) /\ UNCHANGED <<site, request, mine, waiting>>
    BY <2>1 DEF SendFails
  <2>3. PICK marks \in {{}, {"delivered", "unheard"}} : fate' = [fate EXCEPT ![c] = @ \cup marks]
    BY <2>1 DEF SendFails
  <2>4. todo[c] # <<>> /\ ~At(c, {"sharing"}) /\ ~At(c, {"lock"})
    BY <2>2 DEF At
  <2>5. marks \in SUBSET Fates /\ marks \cap {"changed", "hung", "busy"} = {}
        /\ ("delivered" \in marks => "unheard" \in marks)
    BY <2>3 DEF Fates
  <2>6. QED
    BY <2>2, <2>3, <2>4, <2>5, FailKind
<1>38. ReadElsewhere(c) => StepKind(c)
  <2>1. SUFFICES ASSUME ReadElsewhere(c) PROVE StepKind(c)
    OBVIOUS
  <2>2. At(c, Ops \ {"lock", "release", "open", "close", "client"}) /\ GoesOn(c)
        /\ UNCHANGED <<site, request, linkVars, mine, fate>>
    BY <2>1 DEF ReadElsewhere, Aside, At, Ops, Quiet
  <2>3. QED
    BY <1>b, <2>2
<1>39. FailsElsewhere(c) => StepKind(c)
  <2>1. SUFFICES ASSUME FailsElsewhere(c) PROVE StepKind(c)
    OBVIOUS
  <2>2. At(c, Elsewhere) /\ Fails(c) /\ UNCHANGED <<site, request, mine, waiting>>
    BY <2>1 DEF FailsElsewhere, Runs, At
  <2>3. todo[c] # <<>> /\ ~At(c, {"sharing"}) /\ ~At(c, {"lock"})
    BY <2>2 DEF At, Commands, Reads, Changes, Elsewhere
  <2>4. fate' = [fate EXCEPT ![c] = @ \cup {"refused"}]
    BY <1>0, <2>1 DEF FailsElsewhere
  <2>5. {"refused"} \in SUBSET Fates
    BY DEF Fates
  <2>6. QED
    BY <2>2, <2>3, <2>4, <2>5, FailKind
<1>40. SaveFile(c) => StepKind(c)
  <2>1. SUFFICES ASSUME SaveFile(c) PROVE StepKind(c)
    OBVIOUS
  <2>2. At(c, {"openNew", "writeFile"}) /\ GoesOn(c) /\ UNCHANGED <<site, request, linkVars, mine>>
        /\ fate' = [fate EXCEPT ![c] = @ \cup {"changed"}]
    BY <2>1 DEF SaveFile, Aside, At
  <2>3. /\ At(c, Ops \ {"lock", "release", "open", "close", "client"})
        /\ At(c, Changing \ ({"smtp"} \cup Final))
    BY <2>2 DEF At, Ops, Changing, Final
  <2>4. QED
    BY <1>a, <2>2, <2>3
<1>41. ChangeScripts(c) => StepKind(c)
  <2>1. SUFFICES ASSUME ChangeScripts(c) PROVE StepKind(c)
    OBVIOUS
  <2>2. /\ At(c, {"putScript", "deleteScript", "setActive"})
        /\ UNCHANGED <<site, request, linkVars, mine>>
        /\ \/ GoesOn(c) /\ fate' = [fate EXCEPT ![c] = @ \cup {"changed"}]
           \/ Throws(c) /\ fate' = [fate EXCEPT ![c] = @ \cup {"changed", "lost"}]
    BY <2>1 DEF ChangeScripts
  <2>3. /\ At(c, Ops \ {"lock", "release", "open", "close", "client"}) /\ todo[c] # <<>>
        /\ At(c, Changing \ ({"smtp"} \cup Final)) /\ ~At(c, {"sharing"})
        /\ At(c, Changing \ {"smtp"}) /\ ~At(c, Final) /\ At(c, Unlocked \ {"lock", "sharing"})
    BY <2>2 DEF At, Ops, Changing, Final, Unlocked
  <2>4. CASE GoesOn(c) /\ fate' = [fate EXCEPT ![c] = @ \cup {"changed"}]
    BY <1>a, <2>2, <2>3, <2>4
  <2>5. CASE Throws(c) /\ fate' = [fate EXCEPT ![c] = @ \cup {"changed", "lost"}]
    <3>1. {"changed", "lost"} \in SUBSET Fates
      BY DEF Fates
    <3>2. LinkStep(c)
      BY <2>2, <2>3, <2>5 DEF LinkStep, Stays
    <3>3. QED
      BY <2>2, <2>3, <2>5, <3>1, <3>2, BreakKind
  <2>6. QED
    BY <2>2, <2>4, <2>5
<1>42. ASSUME At(c, Final), Closes(c), UNCHANGED <<site, request, linkVars, mine>>,
             (\E status : Ended(c, status)) \/ (\E wrote : EndedUnheard(c, wrote)),
             ~At(c, Changing) => fate' = fate
      PROVE  StepKind(c)
  <2>1. PICK marks \in {{}, {"changed"}, {"changed", "lost"}} :
               /\ fate' = [fate EXCEPT ![c] = @ \cup marks]
               /\ marks # {} => At(c, Changing)
    <3>1. \E marks \in {{}, {"changed"}, {"changed", "lost"}} : fate' = [fate EXCEPT ![c] = @ \cup marks]
      <4>1. CASE fate' = fate
        BY <1>0, <4>1
      <4>2. CASE \E status : Ended(c, status)
        <5>1. PICK status : Ended(c, status)
          BY <4>2
        <5>2. fate' = [fate EXCEPT ![c] = IF status = "added" THEN @ \cup {"changed"} ELSE @]
          BY <5>1 DEF Ended
        <5>3. status # "added" => fate' = fate
          BY <5>2 DEF LockInv, CoreInv
        <5>4. QED
          BY <4>1, <5>2, <5>3
      <4>3. CASE \E wrote : EndedUnheard(c, wrote)
        <5>1. PICK wrote : EndedUnheard(c, wrote)
          BY <4>3
        <5>2. fate' = [fate EXCEPT ![c] = IF wrote THEN @ \cup {"changed", "lost"} ELSE @]
          BY <5>1 DEF EndedUnheard
        <5>3. ~wrote => fate' = fate
          BY <5>2 DEF LockInv, CoreInv
        <5>4. QED
          BY <4>1, <5>2, <5>3
      <4>4. QED
        BY <1>42, <4>2, <4>3
    <3>2. QED
      BY <1>0, <3>1, <1>42
  <2>2. marks \in SUBSET Fates /\ marks \cap {"refused", "hung", "busy", "delivered"} = {}
    BY DEF Fates
  <2>3. /\ todo[c] # <<>> /\ ~At(c, {"lock", "release", "open", "close", "client"})
        /\ (At(c, Changing) => At(c, Changing \ {"smtp"}))
    BY <1>42 DEF At, Final
  <2>4. Onward(c, <<>>) /\ todo' = [todo EXCEPT ![c] = <<>>] /\ UNCHANGED <<reply, audited>>
    BY <1>42 DEF Onward, Closes
  <2>5. "changed" \in marks => At(c, Changing \ {"smtp"})
    BY <2>1, <2>3
  <2>6. QED
    BY <1>42, <2>1, <2>2, <2>3, <2>4, <2>5, PassKind
<1>43. FindExistingEvent(c) => StepKind(c)
  <2>1. SUFFICES ASSUME FindExistingEvent(c) PROVE StepKind(c)
    OBVIOUS
  <2>2. At(c, {"findEvent"}) /\ UNCHANGED <<site, request, linkVars, mine>>
    BY <2>1 DEF FindExistingEvent, Apart
  <2>3. At(c, Ops \ {"lock", "release", "open", "close", "client"}) /\ At(c, Final)
    BY <2>2 DEF At, Ops, Quiet, Final
  <2>4. CASE GoesOn(c) /\ UNCHANGED fate
    BY <1>b, <2>2, <2>3, <2>4
  <2>5. CASE Closes(c) /\ Ended(c, "duplicate")
    <3>1. fate' = fate
      BY <2>5 DEF Ended, LockInv, CoreInv
    <3>2. QED
      BY <1>42, <2>2, <2>3, <2>5, <3>1
  <2>6. CASE Closes(c) /\ EndedUnheard(c, FALSE)
    <3>1. fate' = fate
      BY <2>6 DEF EndedUnheard, LockInv, CoreInv
    <3>2. QED
      BY <1>42, <2>2, <2>3, <2>6, <3>1
  <2>7. QED
    BY <2>1, <2>4, <2>5, <2>6 DEF FindExistingEvent
<1>44. WriteToApp(c) => StepKind(c)
  <2>1. SUFFICES ASSUME WriteToApp(c) PROVE StepKind(c)
    OBVIOUS
  <2>2. At(c, {"addEvent", "addReminder"}) /\ UNCHANGED <<site, request, linkVars, mine>> /\ Closes(c)
        /\ ((\E status : Ended(c, status)) \/ (\E wrote : EndedUnheard(c, wrote)))
    BY <2>1 DEF WriteToApp, Apart
  <2>3. At(c, Final) /\ At(c, Changing)
    BY <2>2 DEF At, Final, Changing
  <2>4. QED
    BY <1>42, <2>2, <2>3
<1>45. WriteOffMac(c) => StepKind(c)
  <2>1. SUFFICES ASSUME WriteOffMac(c) PROVE StepKind(c)
    OBVIOUS
  <2>2. At(c, {"openIcs", "noApp"}) /\ UNCHANGED <<site, request, linkVars, mine>>
    BY <2>1 DEF WriteOffMac, Apart, At
  <2>3. At(c, Final) /\ todo[c] # <<>> /\ ~At(c, {"sharing"})
    BY <2>2 DEF At, Final
  <2>4. CASE At(c, {"openIcs"}) /\ Closes(c)
    <3>1. At(c, Changing)
      BY <2>4 DEF At, Changing
    <3>2. (\E status : Ended(c, status)) \/ (\E wrote : EndedUnheard(c, wrote)) \/ Throws(c)
      BY <2>1, <2>4 DEF WriteOffMac, At
    <3>3. CASE (\E status : Ended(c, status)) \/ (\E wrote : EndedUnheard(c, wrote))
      BY <1>42, <2>2, <2>3, <2>4, <3>1, <3>3
    <3>4. CASE Throws(c) /\ fate' = fate
      <4>1. At(c, Unlocked \ {"lock", "sharing"})
        BY <2>4 DEF At, Unlocked
      <4>2. LinkStep(c)
        BY <2>2, <3>4, <4>1 DEF LinkStep, Stays
      <4>3. QED
        BY <1>0, <2>2, <2>3, <3>4, <4>2, BreakKind
    <3>5. Throws(c) => (\E status : Ended(c, status)) \/ (\E wrote : EndedUnheard(c, wrote)) \/ fate' = fate
      BY <2>1, <2>4 DEF WriteOffMac, At
    <3>6. QED
      BY <3>2, <3>3, <3>4, <3>5
  <2>5. CASE At(c, {"openIcs"}) /\ Throws(c) /\ fate' = fate
    <3>1. At(c, Unlocked \ {"lock", "sharing"})
      BY <2>5 DEF At, Unlocked
    <3>2. LinkStep(c)
      BY <2>2, <2>5, <3>1 DEF LinkStep, Stays
    <3>3. QED
      BY <1>0, <2>2, <2>3, <2>5, <3>2, BreakKind
  <2>6. CASE At(c, {"noApp"}) /\ Closes(c) /\ Ended(c, "no_display")
    <3>1. fate' = fate
      BY <2>6 DEF Ended, LockInv, CoreInv
    <3>2. QED
      BY <1>42, <2>2, <2>3, <2>6, <3>1
  <2>7. QED
    BY <2>1, <2>4, <2>5, <2>6 DEF WriteOffMac
<1>46. QED
  BY <1>1, <1>2, <1>3, <1>4, <1>5, <1>6, <1>7, <1>8, <1>9, <1>10, <1>11, <1>12, <1>13,
     <1>14, <1>15, <1>16, <1>17, <1>18, <1>19, <1>20, <1>21, <1>22, <1>23, <1>24, <1>25,
     <1>26, <1>27, <1>28, <1>29, <1>30, <1>31, <1>32, <1>33, <1>34, <1>35, <1>36, <1>37,
     <1>38, <1>39, <1>40, <1>41, <1>42, <1>43, <1>44, <1>45 DEF Goes

(***************************************************************************)
(* The lock is where the programs say it is.                               *)
(***************************************************************************)

LEMMA ModeFacts ==
  None \in Modes /\ None \notin Calls /\ Folders \subseteq Modes /\ None \notin Folders
  BY NoneIsNothing, FolderNames

LEMMA SamePath ==
  ASSUME UNCHANGED <<site, request>>, NEW d \in Calls, NEW f
  PROVE  Path(d, f)' <=> Shape(todo'[d], f, None, request[d].in, MayUse(request[d]))
<1>1. MayUse(request[d])' = MayUse(request[d])
  BY DEF MayUse, WriteOps, ReadOps
<1>2. QED
  BY <1>1 DEF Path

\* The list of steps after one that does not throw.
LEMMA OnwardShape ==
  ASSUME LockInv, NEW c \in Calls, todo[c] # <<>>, NEW f, Path(c, f), NEW q, Onward(c, q)
  PROVE  Shape(q, After(Step(c), f), None, request[c].in, MayUse(request[c]))
<1> DEFINE O == MayUse(request[c])
           x == request[c].in
<1>1. /\ Step(c) \in StepType /\ Fits(Step(c), f, x) /\ After(Step(c), f) \in Modes /\ f \in Modes
      /\ Shape(Tail(todo[c]), After(Step(c), f), None, x, O)
  BY ShapeTail DEF Path, Step
<1>2. Quiet \subseteq O /\ site.kind \in Kinds /\ x \in Folders
  BY RequestFields DEF LockInv, CoreInv, SiteOK, MayUse
<1> HIDE DEF O, x
<1>3. CASE At(c, {"scan"}) /\ q = Do("release")
  <2>1. Step(c).do = "scan"
    BY <1>3 DEF At, Step
  <2>2. f # None /\ After(Step(c), f) = f
    BY <1>1, <2>1 DEF Fits, InBox, After
  <2>3. PICK s \in StepType : s = S("release", None) /\ s.do = "release" /\ s.skip = 0
    BY FolderNames, StepFields DEF Ops, Quiet
  <2>4. s.do \in O /\ s.do # "open" /\ Fits(s, f, x) /\ After(s, f) = None
    BY <1>2, <2>2, <2>3 DEF Quiet, Fits, ByUid, InBox, Unlocked, After
  <2>5. Shape(<<s>>, f, None, x, O)
    BY <1>1, <2>3, <2>4, ShapeOne
  <2>6. QED
    BY <1>3, <2>2, <2>3, <2>5 DEF Do, O, x
<1>4. CASE At(c, {"strategy"})
           /\ q \in {DetectLabelStrategy \o Tail(todo[c]), Do("sharing") \o Tail(todo[c])}
  <2>1. f = None /\ After(Step(c), f) = None
    <3>1. Step(c).do = "strategy"
      BY <1>4 DEF At, Step
    <3>2. QED
      BY <1>1, <3>1 DEF Fits, Unlocked, After
  <2>2. Shape(DetectLabelStrategy, None, None, x, O) /\ Shape(Do("sharing"), None, None, x, O)
    BY <1>2, LabelsKeep DEF Keeps
  <2>3. QED
    BY <1>1, <1>4, <2>1, <2>2, ShapeJoin DEF O, x
<1>5. CASE At(c, {"spread"}) /\ \E X \in SUBSET Folders : q = SearchEach(X) \o Tail(todo[c])
  <2>1. f = None /\ After(Step(c), f) = None
    <3>1. Step(c).do = "spread"
      BY <1>5 DEF At, Step
    <3>2. QED
      BY <1>1, <3>1 DEF Fits, Unlocked, After
  <2>2. PICK X \in SUBSET Folders : q = SearchEach(X) \o Tail(todo[c])
    BY <1>5
  <2>3. Shape(SearchEach(X), None, None, x, O)
    BY <1>2, SearchEachKeeps DEF Keeps
  <2>4. QED
    BY <1>1, <2>1, <2>2, <2>3, ShapeJoin DEF O, x
<1>6. CASE At(c, Final) /\ q = <<>>
  <2>1. After(Step(c), f) = None
    <3>1. Step(c).do \in Final
      BY <1>6 DEF At, Step
    <3>2. QED
      BY <1>1, <3>1 DEF Fits, Unlocked, After, Final
  <2>2. QED
    BY <1>6, <2>1, ShapeEmpty, ModeFacts DEF O, x
<1>7. QED
  BY <1>1, <1>3, <1>4, <1>5, <1>6 DEF Onward, O, x

\* What a throw leaves to do.
LEMMA ThrownShape ==
  ASSUME LockInv, NEW c \in Calls, todo[c] # <<>>, NEW f, Path(c, f)
  PROVE  /\ Shape(Left(c), IF Released(c) THEN None ELSE f, None, request[c].in, MayUse(request[c]))
         /\ Left(c) \in Seq(StepType) /\ f \in Modes
         /\ Fits(Step(c), f, request[c].in) /\ Step(c) \in StepType
<1>1. Left(c) = Rest(todo[c]) /\ Released(c) = Frees(todo[c])
  BY DEF Left, Released, Rest, Frees, Step
<1>2. Shape(Left(c), IF Released(c) THEN None ELSE f, None, request[c].in, MayUse(request[c]))
  BY <1>1, ShapeRest DEF Path
<1>3. f \in Modes /\ Fits(Step(c), f, request[c].in) /\ Step(c) \in StepType
  BY ShapeTail DEF Path, Step
<1>4. QED
  BY <1>2, <1>3 DEF Shape

\* How a step leaves the steps of the calls.
LEMMA StepsLeft ==
  ASSUME LockInv, NEW c \in Calls, StepKind(c)
  PROVE  \/ todo' = todo
         \/ todo[c] # <<>> /\ \E q : Onward(c, q) /\ todo' = [todo EXCEPT ![c] = q]
         \/ todo[c] # <<>> /\ Throws(c) /\ ~At(c, {"sharing"})
  BY DEF StepKind, Answer, CallStep, Passes, Breaks, callVars

LEMMA OthersLeft ==
  ASSUME LockInv, NEW c \in Calls, StepKind(c), NEW d \in Calls, d # c
  PROVE  todo'[d] = todo[d] \/ (At(d, {"sharing"}) /\ todo'[d] = <<>>)
<1>1. CASE Throws(c)
  BY <1>1 DEF Throws, Propagates, Sharing
<1>2. CASE todo' = todo \/ \E q : todo' = [todo EXCEPT ![c] = q]
  BY <1>2 DEF LockInv, CoreInv
<1>3. QED
  BY <1>1, <1>2, StepsLeft

LEMMA OthersPlace ==
  ASSUME LockInv, NEW c \in Calls, StepKind(c), NEW d \in Calls, d # c
  PROVE  \E f \in Modes : Path(d, f)' /\ Holds(d, f)'
<1>1. PICK f \in Modes : Path(d, f) /\ Holds(d, f)
  BY DEF LockInv, PlaceInv
<1>2. Path(d, f)'
  <2>1. Path(d, f)' <=> Shape(todo'[d], f, None, request[d].in, MayUse(request[d]))
    BY SamePath DEF StepKind
  <2>2. CASE todo'[d] = todo[d]
    BY <1>1, <2>1, <2>2 DEF Path
  <2>3. CASE At(d, {"sharing"}) /\ todo'[d] = <<>>
    <3>1. Fits(Step(d), f, request[d].in) /\ Step(d).do = "sharing"
      BY <1>1, <2>3, ShapeTail DEF Path, Step, At
    <3>2. f = None
      BY <3>1 DEF Fits, Unlocked
    <3>3. QED
      BY <2>1, <2>3, <3>2, ShapeEmpty, ModeFacts
  <2>4. QED
    BY <2>2, <2>3, OthersLeft
<1>3. Holds(d, f)'
  <2> USE ModeFacts DEF linkVars
  <2>1. CASE Stays(c)
    BY <1>1, <2>1 DEF Stays, Holds, Live
  <2>2. CASE GivesBack(c)
    BY <1>1, <2>2 DEF GivesBack, Fails, Holds, Live
  <2>3. CASE GoesDown(c)
    BY <2>3 DEF GoesDown, LinkDown, Holds, Live
  <2>4. CASE GetImapClient(c)
    <3>1. mine'[d] = mine[d] /\ mine[d] \in Nat /\ gen \in Nat /\ mine[d] <= gen
      BY <2>4 DEF GetImapClient, LockInv, CoreInv
    <3>2. holder' = holder /\ box' = box /\ up' /\ gen' = (IF up THEN gen ELSE gen + 1)
      BY <2>4 DEF GetImapClient
    <3>3. CASE up
      BY <1>1, <3>1, <3>2, <3>3 DEF Holds, Live
    <3>4. CASE ~up
      <4>1. holder = None /\ mine[d] # gen'
        BY <3>1, <3>2, <3>4 DEF LockInv, LineInv
      <4>2. QED
        BY <3>1, <3>2, <4>1 DEF Holds, Live
    <3>5. QED
      BY <3>3, <3>4
  <2>5. CASE AskForLock(c) \/ Hangs(c) \/ OpenFetch(c) \/ CloseFetch(c)
    BY <1>1, <2>5 DEF AskForLock, Hangs, OpenFetch, CloseFetch, Holds, Live, keptVars, fixedVars
  <2>6. CASE Release(c)
    BY <1>1, <2>6 DEF Release, Holds, Live, keptVars, fixedVars
  <2>7. CASE GetLock(c) /\ holder' = c /\ UNCHANGED <<up, gen>>
    <3>1. holder = None /\ mine' = mine
      BY <2>7 DEF GetLock, keptVars, fixedVars
    <3>2. QED
      BY <1>1, <2>7, <3>1 DEF Holds, Live
  <2>8. QED
    BY <2>1, <2>2, <2>3, <2>4, <2>5, <2>6, <2>7 DEF StepKind, LinkStep, Locks
<1>4. QED
  BY <1>2, <1>3

LEMMA OwnPlace ==
  ASSUME LockInv, NEW c \in Calls, StepKind(c)
  PROVE  \E f \in Modes : Path(c, f)' /\ Holds(c, f)'
<1>1. PICK f \in Modes : Path(c, f) /\ Holds(c, f)
  BY DEF LockInv, PlaceInv
<1> DEFINE x == request[c].in
           O == MayUse(request[c])
<1>2. \A g : Path(c, g)' <=> Shape(todo'[c], g, None, x, O)
  BY SamePath DEF StepKind
<1>3. todo \in [Calls -> Seq(StepType)]
  BY DEF LockInv, CoreInv
<1>4. ASSUME todo[c] # <<>>
      PROVE  /\ Fits(Step(c), f, x) /\ Step(c) \in StepType /\ After(Step(c), f) \in Modes
             /\ Shape(Tail(todo[c]), After(Step(c), f), None, x, O)
             /\ Shape(Left(c), IF Released(c) THEN None ELSE f, None, x, O)
             /\ \A q : Onward(c, q) => Shape(q, After(Step(c), f), None, x, O)
  <2>1. /\ Fits(Step(c), f, x) /\ Step(c) \in StepType /\ After(Step(c), f) \in Modes
        /\ Shape(Tail(todo[c]), After(Step(c), f), None, x, O)
    BY <1>1, <1>4, ShapeTail DEF Path, Step
  <2>2. Shape(Left(c), IF Released(c) THEN None ELSE f, None, x, O)
    BY <1>1, <1>4, ThrownShape
  <2>3. \A q : Onward(c, q) => Shape(q, After(Step(c), f), None, x, O)
    BY <1>1, <1>4, OnwardShape
  <2>4. QED
    BY <2>1, <2>2, <2>3
<1> HIDE DEF x, O
<1>5. Throws(c) => todo'[c] = Left(c)
  BY DEF Throws, Propagates
<1>6. GoesOn(c) => todo'[c] = Tail(todo[c])
  BY <1>3 DEF GoesOn
<1> USE ModeFacts DEF linkVars
<1>7. CASE Stays(c)
  <2>1. Holds(c, f)'
    BY <1>1, <1>7 DEF Stays, Holds, Live
  <2>2. CASE todo' = todo
    <3>1. Shape(todo[c], f, None, x, O)
      BY <1>1 DEF Path, x, O
    <3>2. QED
      BY <1>2, <2>1, <2>2, <3>1
  <2>3. ASSUME ~At(c, {"lock", "release", "open", "close", "client"}), NEW q, Onward(c, q),
               todo' = [todo EXCEPT ![c] = q], todo[c] # <<>>
        PROVE  Path(c, f)'
    <3>1. After(Step(c), f) = f
      BY <2>3 DEF At, Step, After
    <3>2. todo'[c] = q
      BY <1>3, <2>3
    <3>3. QED
      BY <1>2, <1>4, <2>3, <3>1, <3>2
  <2>4. CASE Throws(c) /\ At(c, Unlocked \ {"lock", "sharing"})
    <3>1. f = None
      BY <1>4, <2>4 DEF At, Step, Fits, Unlocked
    <3>2. Shape(Left(c), None, None, x, O)
      BY <1>4, <2>4, <3>1 DEF At
    <3>3. QED
      BY <1>2, <1>5, <2>1, <2>4, <3>1, <3>2
  <2>5. todo' = todo \/ todo[c] # <<>>
    BY StepsLeft
  <2>6. QED
    BY <1>7, <2>1, <2>2, <2>3, <2>4, <2>5 DEF Stays
<1>8. CASE GivesBack(c) /\ todo[c] # <<>>
  <2>1. PICK g \in Modes : g = IF Released(c) THEN None ELSE f
    BY <1>1
  <2>2. Path(c, g)'
    BY <1>2, <1>4, <1>5, <1>8, <2>1 DEF GivesBack, Fails
  <2>3. UNCHANGED <<up, gen, box, mine>>
        /\ holder' = IF holder = c /\ Released(c) THEN None ELSE holder
    BY <1>8 DEF GivesBack, Fails
  <2>4. Holds(c, g)'
    BY <1>1, <2>1, <2>3 DEF Holds, Live
  <2>5. QED
    BY <2>2, <2>4
<1>9. CASE GoesDown(c) /\ todo[c] # <<>>
  <2>1. PICK g \in Modes : g = IF Released(c) THEN None ELSE f
    BY <1>1
  <2>2. Path(c, g)'
    BY <1>2, <1>4, <1>5, <1>9, <2>1 DEF GoesDown
  <2>3. Holds(c, g)'
    BY <1>9 DEF GoesDown, LinkDown, Holds, Live
  <2>4. QED
    BY <2>2, <2>3
<1>10. CASE GetImapClient(c)
  <2>1. todo[c] # <<>> /\ Step(c).do = "client"
    BY <1>10 DEF GetImapClient, At, Step
  <2>2. f = None /\ After(Step(c), f) = None
    BY <1>4, <2>1 DEF Fits, Unlocked, After
  <2>3. Path(c, None)'
    BY <1>2, <1>4, <1>6, <1>10, <2>1, <2>2 DEF GetImapClient
  <2>4. Holds(c, None)'
    BY <1>1, <1>10, <2>2 DEF Holds, GetImapClient
  <2>5. QED
    BY <2>3, <2>4
<1>11. CASE AskForLock(c) \/ Hangs(c)
  <2>1. todo' = todo /\ UNCHANGED <<up, gen, mine, holder, box>>
    BY <1>11 DEF AskForLock, Hangs, callVars, keptVars, fixedVars
  <2>2. Shape(todo[c], f, None, x, O)
    BY <1>1 DEF Path, x, O
  <2>3. Holds(c, f)'
    BY <1>1, <2>1 DEF Holds, Live
  <2>4. QED
    BY <1>2, <2>1, <2>2, <2>3
<1>12. CASE OpenFetch(c) \/ CloseFetch(c)
  <2>1. todo[c] # <<>> /\ Step(c).do \in {"open", "close"} /\ GoesOn(c)
        /\ UNCHANGED <<up, gen, mine, holder, box>>
    BY <1>12 DEF OpenFetch, CloseFetch, Runs, At, Step, keptVars, fixedVars
  <2>2. After(Step(c), f) = f
    BY <2>1 DEF After
  <2>3. Holds(c, f)'
    BY <1>1, <2>1 DEF Holds, Live
  <2>4. QED
    BY <1>2, <1>4, <1>6, <2>1, <2>2, <2>3
<1>13. CASE Release(c)
  <2>1. todo[c] # <<>> /\ Step(c).do = "release" /\ GoesOn(c) /\ holder' # c
    BY <1>13 DEF Release, At, Step
  <2>2. After(Step(c), f) = None
    BY <2>1 DEF After
  <2>3. Holds(c, None)'
    BY <2>1 DEF Holds
  <2>4. QED
    BY <1>2, <1>4, <1>6, <2>1, <2>2, <2>3
<1>14. CASE GetLock(c) /\ GoesOn(c) /\ holder' = c /\ box' = Step(c).in /\ UNCHANGED <<up, gen>>
  <2>1. c \in Range(waiting)
    <3>1. waiting \in Seq(Calls) /\ waiting # <<>> /\ Head(waiting) = c
      BY <1>14 DEF GetLock, LockInv, LineInv
    <3>2. 1 \in DOMAIN waiting /\ waiting[1] = c
      BY <3>1
    <3>3. QED
      BY <3>2 DEF Range
  <2>2. Live(c) /\ todo[c] # <<>> /\ Step(c).do = "lock"
    BY <2>1 DEF LockInv, LineInv, At, Step
  <2>3. Live(c)'
    BY <1>14, <2>2 DEF GetLock, Live, keptVars, fixedVars
  <2>4. PICK g \in Folders : g = Step(c).in /\ After(Step(c), f) = g
    BY <1>4, <2>2 DEF After, Fits
  <2>5. Path(c, g)'
    BY <1>2, <1>4, <1>6, <1>14, <2>2, <2>4
  <2>6. g # None /\ holder' = c /\ box' = g
    BY <1>14, <2>4
  <2>7. Holds(c, g)'
    BY <2>3, <2>6 DEF Holds
  <2>8. QED
    BY <2>4, <2>5, <2>7
<1>15. Answer(c) => Stays(c)
  BY DEF Answer, Stays, serverVars, keptVars, fixedVars
<1>16. ~Answer(c) => todo[c] # <<>>
  BY DEF StepKind, CallStep
<1>17. QED
  BY <1>7, <1>8, <1>9, <1>10, <1>11, <1>12, <1>13, <1>14, <1>15, <1>16 DEF StepKind, LinkStep, Locks

\* The first of the line is not in the rest of it, and a new one is at its end.
LEMMA LineFacts ==
  ASSUME NEW s \in Seq(Calls), IsInjective(s)
  PROVE  /\ s # <<>> => /\ Head(s) \in Range(s) /\ Tail(s) \in Seq(Calls) /\ IsInjective(Tail(s))
                        /\ Range(Tail(s)) \subseteq Range(s) \ {Head(s)}
         /\ \A c \in Calls \ Range(s) : /\ Append(s, c) \in Seq(Calls) /\ IsInjective(Append(s, c))
                                        /\ Range(Append(s, c)) \subseteq Range(s) \cup {c}
<1>1. PICK n \in Nat : n = Len(s) /\ DOMAIN s = 1 .. n
  OBVIOUS
<1>2. ASSUME s # <<>>
      PROVE  /\ Head(s) \in Range(s) /\ Tail(s) \in Seq(Calls) /\ IsInjective(Tail(s))
             /\ Range(Tail(s)) \subseteq Range(s) \ {Head(s)}
  <2>1. Head(s) = s[1] /\ 1 \in DOMAIN s /\ n # 0
    BY <1>1, <1>2
  <2>2. Tail(s) \in Seq(Calls) /\ DOMAIN Tail(s) = 1 .. n - 1
        /\ \A i \in 1 .. n - 1 : i + 1 \in 1 .. n /\ i + 1 # 1 /\ Tail(s)[i] = s[i + 1]
    BY <1>1, <1>2
  <2>3. IsInjective(Tail(s))
    BY <1>1, <2>2 DEF IsInjective
  <2>4. \A i \in 1 .. n - 1 : Tail(s)[i] \in Range(s) /\ Tail(s)[i] # s[1]
    BY <1>1, <2>1, <2>2 DEF IsInjective, Range
  <2>5. Range(Tail(s)) \subseteq Range(s) \ {Head(s)}
    BY <2>1, <2>2, <2>4 DEF Range
  <2>6. QED
    BY <2>1, <2>2, <2>3, <2>5 DEF Range
<1>3. ASSUME NEW c \in Calls \ Range(s)
      PROVE  /\ Append(s, c) \in Seq(Calls) /\ IsInjective(Append(s, c))
             /\ Range(Append(s, c)) \subseteq Range(s) \cup {c}
  <2>1. /\ Append(s, c) \in Seq(Calls) /\ DOMAIN Append(s, c) = 1 .. n + 1
        /\ \A i \in 1 .. n : Append(s, c)[i] = s[i]
        /\ Append(s, c)[n + 1] = c
    BY <1>1
  <2>2. \A i \in 1 .. n : s[i] # c
    BY <1>1, <1>3 DEF Range
  <2>3. IsInjective(Append(s, c))
    <3>1. SUFFICES ASSUME NEW i \in 1 .. n + 1, NEW j \in 1 .. n + 1,
                          Append(s, c)[i] = Append(s, c)[j]
                   PROVE  i = j
      BY <2>1 DEF IsInjective
    <3>2. (i \in 1 .. n \/ i = n + 1) /\ (j \in 1 .. n \/ j = n + 1)
      OBVIOUS
    <3>3. QED
      BY <1>1, <2>1, <2>2, <3>1, <3>2 DEF IsInjective
  <2>4. \A i \in 1 .. n + 1 : i \in 1 .. n \/ i = n + 1
    OBVIOUS
  <2>5. QED
    BY <1>1, <2>1, <2>3, <2>4 DEF Range
<1>4. QED
  BY <1>2, <1>3

\* Where c stands when it holds the lock, or waits for it.
LEMMA WhereItStands ==
  ASSUME LockInv, NEW c \in Calls
  PROVE  /\ At(c, {"open"}) /\ Live(c) => holder = c /\ At(c, {"open"})
                                          /\ Tail(todo[c]) # <<>> /\ Head(Tail(todo[c])).do = "close"
         /\ c \in Range(waiting) => At(c, {"lock"}) /\ Live(c) /\ ~At(c, {"sharing"})
<1>1. PICK f \in Modes : Path(c, f) /\ Holds(c, f)
  BY DEF LockInv, PlaceInv
<1>2. ASSUME At(c, {"open"}), Live(c)
      PROVE  holder = c /\ Tail(todo[c]) # <<>> /\ Head(Tail(todo[c])).do = "close"
  <2>1. todo[c] # <<>> /\ Head(todo[c]).do = "open"
    BY <1>2 DEF At
  <2>2. Fits(Head(todo[c]), f, request[c].in) /\ Tail(todo[c]) # <<>> /\ Head(Tail(todo[c])).do = "close"
    BY <1>1, <2>1, ShapeTail DEF Path
  <2>3. f # None
    BY <2>1, <2>2 DEF Fits, InBox
  <2>4. QED
    BY <1>1, <1>2, <2>2, <2>3 DEF Holds
<1>3. c \in Range(waiting) => At(c, {"lock"}) /\ Live(c) /\ ~At(c, {"sharing"})
  BY DEF LockInv, LineInv, At
<1>4. QED
  BY <1>2, <1>3

LEMMA LineKept ==
  ASSUME LockInv, NEW c \in Calls, StepKind(c)
  PROVE  LineInv'
<1> USE ModeFacts DEF linkVars
<1>0. /\ waiting \in Seq(Calls) /\ IsInjective(waiting)
      /\ ~up => holder = None /\ waiting = <<>>
      /\ \A d \in Range(waiting) : d \in Calls /\ Live(d) /\ At(d, {"lock"})
      /\ fetching \in {None, holder} /\ (fetching # None => At(fetching, {"close"}))
      /\ fetching \in Calls \cup {None} /\ holder \in Calls \cup {None}
      /\ todo \in [Calls -> Seq(StepType)] /\ mine \in [Calls -> Nat]
  <2>1. \A d \in Range(waiting) : d \in Calls
    BY DEF LockInv, LineInv, Range
  <2>2. QED
    BY <2>1 DEF LockInv, CoreInv, LineInv
<1>1. \A d \in Calls : d # c /\ At(d, {"lock", "close"}) => todo'[d] = todo[d]
  BY OthersLeft DEF At
<1>2. \A d \in Calls : todo'[d] = todo[d] =>
        /\ At(d, {"lock"}) => At(d, {"lock"})'
        /\ At(d, {"close"}) => At(d, {"close"})'
  BY DEF At
<1>3. ASSUME todo'[c] = todo[c] \/ ~At(c, {"lock", "close"})
      PROVE  \A d \in Calls : /\ At(d, {"lock"}) => At(d, {"lock"})'
                              /\ At(d, {"close"}) => At(d, {"close"})'
  BY <1>1, <1>2, <1>3 DEF At
<1>4. CASE Stays(c)
  <2>1. todo'[c] = todo[c] \/ ~At(c, {"lock", "close"})
    BY <1>4 DEF Stays, At, Unlocked
  <2>2. \A d \in Calls : Live(d)' <=> Live(d)
    BY <1>4 DEF Stays, Live
  <2>3. UNCHANGED linkVars
    BY <1>4 DEF Stays
  <2>4. QED
    BY <1>0, <1>3, <2>1, <2>2, <2>3 DEF LineInv
<1>5. CASE GivesBack(c)
  <2>1. /\ UNCHANGED <<up, gen, mine>>
        /\ holder' = (IF holder = c /\ Released(c) THEN None ELSE holder)
        /\ fetching' = IF fetching = c THEN None ELSE fetching
        /\ waiting' \in Seq(Calls) /\ IsInjective(waiting') /\ Range(waiting') = Range(waiting) \ {c}
    BY <1>5 DEF GivesBack, Fails
  <2>2. \A d \in Range(waiting') : Live(d)' /\ At(d, {"lock"})'
    <3>1. SUFFICES ASSUME NEW d \in Range(waiting) \ {c} PROVE Live(d)' /\ At(d, {"lock"})'
      BY <2>1
    <3>2. d \in Calls /\ Live(d) /\ At(d, {"lock"}) /\ At(d, {"lock", "close"})
      BY <1>0 DEF At
    <3>3. QED
      BY <1>1, <1>2, <2>1, <3>2 DEF Live
  <2>3. ~up' => waiting' = <<>>
    <3>1. SUFFICES ASSUME ~up PROVE waiting' = <<>>
      BY <2>1
    <3>2. Range(waiting) = {}
      BY <1>0, <3>1 DEF Range
    <3>3. DOMAIN waiting' = {}
      BY <2>1, <3>2 DEF Range
    <3>4. QED
      BY <2>1, <3>3
  <2>4. fetching' \in {None, holder'} /\ (fetching' # None => At(fetching, {"close"})')
    <3>1. CASE fetching = c \/ fetching = None
      BY <2>1, <3>1
    <3>2. CASE fetching # c /\ fetching # None
      <4>1. fetching' = fetching /\ holder' = fetching /\ fetching \in Calls /\ At(fetching, {"close"})
        BY <1>0, <2>1, <3>2
      <4>2. PICK d \in Calls : d = fetching
        BY <4>1
      <4>3. At(d, {"close"})'
        BY <1>1, <1>2, <3>2, <4>1, <4>2 DEF At
      <4>4. fetching' = d /\ holder' = d
        BY <4>1, <4>2
      <4>5. QED
        BY <4>3, <4>4 DEF At
    <3>3. QED
      BY <3>1, <3>2
  <2>5. ~up' => holder' = None
    BY <1>0, <2>1
  <2>6. fetching' # None => At(fetching, {"close"})'
    BY <2>4
  <2>7. QED
    BY <2>1, <2>2, <2>3, <2>4, <2>5, <2>6 DEF LineInv
<1>6. CASE GoesDown(c)
  <2>1. up' = FALSE /\ holder' = None /\ waiting' = <<>> /\ fetching' = None
    BY <1>6 DEF GoesDown, LinkDown
  <2>2. <<>> \in Seq(Calls) /\ IsInjective(<<>>) /\ Range(<<>>) = {}
    BY DEF IsInjective, Range
  <2>3. QED
    BY <2>1, <2>2 DEF LineInv
<1>7. CASE GetImapClient(c)
  <2>1. /\ ~At(c, {"lock", "close"}) /\ UNCHANGED <<holder, waiting, fetching>> /\ up' = TRUE
        /\ gen' = (IF up THEN gen ELSE gen + 1) /\ mine' = [mine EXCEPT ![c] = gen']
    BY <1>7 DEF GetImapClient, At
  <2>2. \A d \in Range(waiting) : Live(d)'
    <3>1. SUFFICES ASSUME NEW d \in Range(waiting) PROVE Live(d)'
      OBVIOUS
    <3>2. d \in Calls /\ Live(d) /\ At(d, {"lock"}) /\ up
      BY <1>0 DEF Live
    <3>3. d # c
      BY <2>1, <3>2 DEF At
    <3>4. QED
      BY <1>0, <2>1, <3>2, <3>3 DEF Live
  <2>3. QED
    BY <1>0, <1>3, <2>1, <2>2 DEF LineInv
<1>8. CASE AskForLock(c)
  <2>1. /\ todo' = todo /\ UNCHANGED <<up, gen, mine, holder, fetching>> /\ Live(c) /\ At(c, {"lock"})
        /\ c \notin Range(waiting) /\ waiting' = Append(waiting, c)
    BY <1>8 DEF AskForLock, callVars, keptVars, fixedVars
  <2>2. /\ waiting' \in Seq(Calls) /\ IsInjective(waiting') /\ Range(waiting') \subseteq Range(waiting) \cup {c}
    BY <1>0, <2>1, LineFacts
  <2>3. \A d \in Calls : Live(d)' <=> Live(d)
    BY <2>1 DEF Live
  <2>4. up
    BY <2>1 DEF Live
  <2>5. QED
    BY <1>0, <1>3, <2>1, <2>2, <2>3, <2>4 DEF LineInv
<1>9. CASE Release(c)
  <2>1. /\ ~At(c, {"lock", "close"}) /\ UNCHANGED <<up, gen, mine, fetching, waiting>>
        /\ holder' = IF holder = c THEN None ELSE holder
    BY <1>9 DEF Release, At, keptVars, fixedVars
  <2>2. \A d \in Calls : Live(d)' <=> Live(d)
    BY <2>1 DEF Live
  <2>3. fetching # c
    BY <1>0, <2>1 DEF At
  <2>4. QED
    BY <1>0, <1>3, <2>1, <2>2, <2>3 DEF LineInv
<1>10. CASE OpenFetch(c)
  <2>1. /\ UNCHANGED <<up, gen, mine, holder, waiting>> /\ fetching' = c /\ GoesOn(c)
        /\ At(c, {"open"}) /\ Live(c)
    BY <1>10 DEF OpenFetch, Runs, keptVars, fixedVars
  <2>2. holder = c /\ todo'[c] = Tail(todo[c]) /\ Tail(todo[c]) # <<>> /\ Head(Tail(todo[c])).do = "close"
    BY <1>0, <2>1, WhereItStands DEF GoesOn
  <2>3. At(c, {"close"})'
    BY <2>2 DEF At
  <2>4. \A d \in Calls : Live(d)' <=> Live(d)
    BY <2>1 DEF Live
  <2>5. ~At(c, {"lock", "close"})
    BY <2>1 DEF At
  <2>6. At(fetching, {"close"})'
    BY <2>1, <2>3 DEF At
  <2>7. QED
    BY <1>0, <1>3, <2>1, <2>2, <2>4, <2>5, <2>6 DEF LineInv
<1>11. CASE CloseFetch(c)
  <2>1. /\ UNCHANGED <<up, gen, mine, holder, waiting>> /\ fetching' = None /\ At(c, {"close"})
    BY <1>11 DEF CloseFetch, keptVars, fixedVars
  <2>2. \A d \in Calls : Live(d)' <=> Live(d)
    BY <2>1 DEF Live
  <2>3. \A d \in Range(waiting) : At(d, {"lock"})'
    BY <1>0, <1>1, <1>2, <2>1 DEF At
  <2>4. QED
    BY <1>0, <2>1, <2>2, <2>3 DEF LineInv
<1>12. CASE Hangs(c)
  <2>1. todo' = todo /\ UNCHANGED <<up, gen, mine, holder, fetching, waiting>>
    BY <1>12 DEF Hangs, callVars, keptVars, fixedVars
  <2>2. \A d \in Calls : Live(d)' <=> Live(d)
    BY <2>1 DEF Live
  <2>3. QED
    BY <1>0, <1>3, <2>1, <2>2 DEF LineInv
<1>13. CASE GetLock(c) /\ holder' = c /\ UNCHANGED <<up, gen, fetching>>
  <2>1. /\ waiting # <<>> /\ Head(waiting) = c /\ waiting' = Tail(waiting) /\ mine' = mine
        /\ holder = None /\ UNCHANGED <<up, gen, fetching>> /\ holder' = c
    BY <1>13 DEF GetLock, keptVars, fixedVars
  <2>2. /\ waiting' \in Seq(Calls) /\ IsInjective(waiting') /\ Range(waiting') \subseteq Range(waiting) \ {c}
    BY <1>0, <2>1, LineFacts
  <2>3. \A d \in Calls : Live(d)' <=> Live(d)
    BY <2>1 DEF Live
  <2>4. fetching' = None /\ up'
    BY <1>0, <2>1
  <2>5. \A d \in Range(waiting') : Live(d)' /\ At(d, {"lock"})'
    BY <1>0, <1>1, <1>2, <2>2, <2>3 DEF At
  <2>6. QED
    BY <2>1, <2>2, <2>4, <2>5 DEF LineInv
<1>14. QED
  BY <1>4, <1>5, <1>6, <1>7, <1>8, <1>9, <1>10, <1>11, <1>12, <1>13 DEF StepKind, LinkStep, Locks

\* The folder that a step makes, or gives a new name.
LEMMA MadeFolder ==
  ASSUME LockInv, NEW c \in Calls
  PROVE  /\ At(c, {"create", "createMissing", "rename"}) => Step(c).in \in Folders
         /\ At(c, {"rename"}) => Step(c).to \in Folders
<1>1. PICK f \in Modes : Path(c, f)
  BY DEF LockInv, PlaceInv
<1>2. todo[c] # <<>> => Fits(Step(c), f, request[c].in)
  BY <1>1, ShapeTail DEF Path, Step
<1>3. QED
  BY <1>2 DEF At, Step, Fits

\* What no action leaves out of bounds.
LEMMA BoundsKept ==
  ASSUME LockInv, NEW c \in Calls, Goes(c)
  PROVE  /\ faults' \in Nat /\ detecting' \in Calls \cup {None} /\ exists' \subseteq Folders
<1> USE DEF keptVars, fixedVars, worldVars, serverVars, linkVars, callVars
<1>1. faults \in Nat /\ detecting \in Calls \cup {None} /\ exists \subseteq Folders
  BY DEF LockInv, CoreInv
<1>2. faults' \in {faults, faults + 1} /\ detecting' \in {detecting, None, c}
  <2>1. /\ GoesOn(c) => detecting' = detecting
        /\ Fails(c) => detecting' \in {detecting, None}
        /\ Throws(c) => detecting' \in {detecting, None}
        /\ Closes(c) => detecting' = detecting
    BY DEF GoesOn, Fails, Throws, Closes
  <2>2. CASE Answer(c) \/ Refuse(c) \/ CheckRateLimit(c) \/ GetImapClient(c) \/ ConnectFails(c)
             \/ GetStrategy(c) \/ Detected(c) \/ AskForLock(c) \/ GetLock(c) \/ LockTimeout(c)
             \/ Release(c)
    BY <2>1, <2>2 DEF Answer, Refuse, CheckRateLimit, GetImapClient, ConnectFails, GetStrategy,
                      Detected, AskForLock, GetLock, LockTimeout, Release
  <2>3. CASE Look(c) \/ ScanFinds(c) \/ ScanEmpty(c) \/ Fetch(c) \/ OpenFetch(c) \/ CloseFetch(c)
             \/ ListFolders(c) \/ FolderAllowed(c) \/ SpreadSearch(c) \/ SearchFolder(c)
    BY <2>1, <2>3 DEF Look, ScanFinds, ScanEmpty, Fetch, OpenFetch, CloseFetch, ListFolders,
                      FolderAllowed, SpreadSearch, SearchFolder, ReadOk, Ends
  <2>4. ASSUME NEW marks, Done(c, marks) PROVE faults' \in {faults, faults + 1} /\ detecting' \in {detecting, None, c}
    BY <2>1, <2>4 DEF Done
  <2>5. CASE MoveMessages(c) \/ DeleteMessages(c) \/ MarkMessages(c) \/ CopyMessages(c) \/ DeleteCopies(c)
             \/ CreateMissingMailbox(c) \/ AppendMessage(c) \/ MailboxCreate(c) \/ MailboxRename(c)
             \/ MailboxDelete(c)
    BY <2>4, <2>5 DEF MoveMessages, DeleteMessages, MarkMessages, CopyMessages, DeleteCopies,
                      CreateMissingMailbox, AppendMessage, MailboxCreate, MailboxRename, MailboxDelete, DoneBy
  <2>6. CASE Rejected(c) \/ DraftKept(c) \/ Hangs(c) \/ NoConnection(c) \/ Deliver(c) \/ SendFails(c)
    BY <2>1, <2>6 DEF Rejected, DraftKept, Hangs, NoConnection, Deliver, SendFails
  <2>7. CASE ReadElsewhere(c) \/ FailsElsewhere(c) \/ SaveFile(c) \/ ChangeScripts(c)
    BY <2>1, <2>7 DEF ReadElsewhere, FailsElsewhere, SaveFile, ChangeScripts, Aside
  <2>8. CASE FindExistingEvent(c) \/ WriteToApp(c) \/ WriteOffMac(c)
    BY <2>1, <2>8 DEF FindExistingEvent, WriteToApp, WriteOffMac, Ended, EndedUnheard
  <2>9. QED
    BY <2>2, <2>3, <2>5, <2>6, <2>7, <2>8 DEF Goes
<1>3. exists' \subseteq Folders
  <2>1. CASE exists' = exists
    BY <1>1, <2>1
  <2>2. CASE exists' = exists \cup {Step(c).in} /\ Step(c).in \in Folders
    BY <1>1, <2>2
  <2>3. CASE exists' \subseteq exists \cup {Step(c).to} /\ Step(c).to \in Folders
    BY <1>1, <2>3
  <2>4. CASE Answer(c) \/ Refuse(c) \/ CheckRateLimit(c) \/ GetImapClient(c) \/ ConnectFails(c)
             \/ GetStrategy(c) \/ Detected(c) \/ AskForLock(c) \/ GetLock(c) \/ LockTimeout(c)
             \/ Release(c)
    BY <2>1, <2>4 DEF Answer, Refuse, CheckRateLimit, GetImapClient, ConnectFails, GetStrategy,
                      Detected, AskForLock, GetLock, LockTimeout, Release
  <2>5. CASE Look(c) \/ ScanFinds(c) \/ ScanEmpty(c) \/ Fetch(c) \/ OpenFetch(c) \/ CloseFetch(c)
             \/ ListFolders(c) \/ FolderAllowed(c) \/ SpreadSearch(c) \/ SearchFolder(c)
    BY <2>1, <2>5 DEF Look, ScanFinds, ScanEmpty, Fetch, OpenFetch, CloseFetch, ListFolders,
                      FolderAllowed, SpreadSearch, SearchFolder, ReadOk, Ends, NoChange
  <2>6. CASE MoveMessages(c) \/ DeleteMessages(c) \/ MarkMessages(c) \/ CopyMessages(c) \/ DeleteCopies(c)
             \/ AppendMessage(c)
    BY <2>1, <2>6 DEF MoveMessages, DeleteMessages, MarkMessages, CopyMessages, DeleteCopies,
                      AppendMessage, Move, Expunge, Mark, Copy, Append1
  <2>7. CASE CreateMissingMailbox(c) \/ MailboxCreate(c)
    <3>1. Step(c).in \in Folders
      BY <2>7, MadeFolder DEF CreateMissingMailbox, MailboxCreate, Runs, At
    <3>2. exists' = exists \/ exists' = exists \cup {Step(c).in}
      BY <2>7 DEF CreateMissingMailbox, MailboxCreate, NoChange, CreateFolder
    <3>3. QED
      BY <2>1, <2>2, <3>1, <3>2
  <2>8. CASE MailboxRename(c)
    <3>1. Step(c).to \in Folders
      BY <2>8, MadeFolder DEF MailboxRename, Runs
    <3>2. exists' = (exists \ {Step(c).in}) \cup {Step(c).to}
      BY <2>8 DEF MailboxRename, RenameFolder
    <3>3. QED
      BY <2>3, <3>1, <3>2
  <2>9. CASE MailboxDelete(c)
    <3>1. exists' = exists \ {Step(c).in}
      BY <2>9 DEF MailboxDelete, DeleteFolder
    <3>2. QED
      BY <1>1, <3>1
  <2>10. CASE Rejected(c) \/ DraftKept(c) \/ Hangs(c) \/ NoConnection(c) \/ Deliver(c) \/ SendFails(c)
    BY <2>1, <2>10 DEF Rejected, DraftKept, Hangs, NoConnection, Deliver, SendFails, NoChange
  <2>11. CASE ReadElsewhere(c) \/ FailsElsewhere(c) \/ SaveFile(c) \/ ChangeScripts(c)
    BY <2>1, <2>11 DEF ReadElsewhere, FailsElsewhere, SaveFile, ChangeScripts, Aside
  <2>12. CASE FindExistingEvent(c) \/ WriteToApp(c) \/ WriteOffMac(c)
    BY <2>1, <2>12 DEF FindExistingEvent, WriteToApp, WriteOffMac, Apart
  <2>13. QED
    BY <2>4, <2>5, <2>6, <2>7, <2>8, <2>9, <2>10, <2>11, <2>12 DEF Goes
<1>4. QED
  BY <1>1, <1>2, <1>3

LEMMA CoreKept ==
  ASSUME LockInv, NEW c \in Calls, Goes(c)
  PROVE  CoreInv'
<1> USE ModeFacts DEF linkVars
<1>0. StepKind(c)
  BY StepKinds
<1>1. CoreInv
  BY DEF LockInv
<1>2. PICK f \in Modes : Path(c, f)
  BY DEF LockInv, PlaceInv
<1>3. SiteOK' /\ \A d \in Calls : Accepted(request[d])' /\ Registered(request[d].tool)'
  BY <1>0, <1>1 DEF StepKind, CoreInv, SiteOK, Registered
<1>4. \A d \in Calls : todo'[d] \in Seq(StepType)
  <2>1. \A d \in Calls : \E g \in Modes : Path(d, g)'
    BY <1>0, OwnPlace, OthersPlace
  <2>2. QED
    BY <2>1 DEF Path, Shape
<1>5. todo' \in [Calls -> Seq(StepType)]
  <2>1. todo' = todo \/ (\E q : todo' = [todo EXCEPT ![c] = q]) \/ Throws(c)
    BY <1>0, StepsLeft
  <2>2. todo' = [d \in Calls |-> todo'[d]]
    BY <1>1, <2>1 DEF CoreInv, Throws, Propagates
  <2>3. QED
    BY <1>4, <2>2
<1>6. reply' \in [Calls -> {None, "ok", "error"}]
  BY <1>0, <1>1 DEF StepKind, CallStep, Passes, Breaks, Answer, Throws, Propagates, callVars, CoreInv
<1>7. \A d \in Calls : reply'[d] # None => todo'[d] = <<>>
  <2>1. CASE Answer(c)
    BY <1>1, <2>1 DEF Answer, CoreInv
  <2>2. CASE todo[c] # <<>> /\ Throws(c) /\ ~At(c, {"sharing"})
    <3>1. SUFFICES ASSUME NEW d \in Calls, reply'[d] # None PROVE todo'[d] = <<>>
      OBVIOUS
    <3>2. /\ todo'[d] = (IF d = c THEN Left(c) ELSE IF d \in Sharing(c) THEN <<>> ELSE todo[d])
          /\ reply'[d] = (IF d \in Over(c) THEN "error" ELSE reply[d])
          /\ todo[c] # <<>> /\ (reply[d] # None => todo[d] = <<>>)
      BY <1>1, <2>2 DEF Throws, Propagates, CoreInv
    <3>3. CASE d = c
      <4>1. c \notin Sharing(c)
        BY <2>2 DEF Sharing
      <4>2. Step(c).skip = 0
        BY <3>1, <3>2, <3>3, <4>1 DEF Over
      <4>3. QED
        BY <3>2, <3>3, <4>2 DEF Left
    <3>4. CASE d # c
      BY <3>1, <3>2, <3>4 DEF Over
    <3>5. QED
      BY <3>3, <3>4
  <2>3. CASE reply' = reply /\ todo[c] # <<>>
    <3>2. \A d \in Calls : d # c => (todo'[d] = todo[d] \/ todo'[d] = <<>>)
      BY <1>0, OthersLeft
    <3>3. QED
      BY <1>1, <2>3, <3>2 DEF CoreInv
  <2>4. CASE CallStep(c)
    <3>1. todo[c] # <<>>
      BY <2>4 DEF CallStep
    <3>2. reply' = reply \/ (Throws(c) /\ ~At(c, {"sharing"}))
      BY <2>4 DEF CallStep, Passes, Breaks, callVars
    <3>3. QED
      BY <2>2, <2>3, <3>1, <3>2
  <2>5. QED
    BY <1>0, <2>1, <2>4 DEF StepKind
<1>8. fate' \in [Calls -> SUBSET Fates]
  <2>1. fate \in [Calls -> SUBSET Fates]
    BY <1>1 DEF CoreInv
  <2>2. CASE Answer(c)
    BY <2>1, <2>2 DEF Answer
  <2>3. CASE CallStep(c)
    <3>1. PICK marks \in SUBSET Fates : fate' = [fate EXCEPT ![c] = @ \cup marks]
      BY <2>3 DEF CallStep
    <3>2. QED
      BY <2>1, <3>1
  <2>4. QED
    BY <1>0, <2>2, <2>3 DEF StepKind
<1>9. /\ up' \in BOOLEAN /\ gen' \in Nat /\ mine' \in [Calls -> Nat] /\ \A d \in Calls : mine'[d] <= gen'
      /\ {holder', fetching', hung'} \subseteq Calls \cup {None} /\ box' \in Modes
  <2>1. CASE Stays(c)
    BY <1>1, <2>1 DEF Stays, CoreInv
  <2>2. CASE GivesBack(c)
    BY <1>1, <2>2 DEF GivesBack, Fails, CoreInv
  <2>3. CASE GoesDown(c)
    BY <1>1, <2>3 DEF GoesDown, LinkDown, CoreInv
  <2>4. CASE GetImapClient(c)
    <3>1. gen' \in Nat /\ gen <= gen'
      BY <1>1, <2>4 DEF GetImapClient, CoreInv
    <3>2. up' \in BOOLEAN /\ mine' = [mine EXCEPT ![c] = gen'] /\ UNCHANGED <<holder, fetching, hung, box>>
      BY <2>4 DEF GetImapClient
    <3>3. \A d \in Calls : mine[d] \in Nat /\ mine[d] <= gen /\ gen \in Nat
      BY <1>1 DEF CoreInv
    <3>4. mine' \in [Calls -> Nat] /\ \A d \in Calls : mine'[d] <= gen'
      BY <1>1, <3>1, <3>2, <3>3 DEF CoreInv
    <3>5. QED
      BY <1>1, <3>1, <3>2, <3>4 DEF CoreInv
  <2>5. CASE AskForLock(c) \/ Release(c) \/ OpenFetch(c) \/ CloseFetch(c) \/ Hangs(c)
    <3>1. UNCHANGED <<up, gen, mine, box>> /\ holder' \in {holder, None} /\ fetching' \in {fetching, c, None}
          /\ hung' \in {hung, c}
      BY <2>5 DEF AskForLock, Release, OpenFetch, CloseFetch, Hangs, keptVars, fixedVars
    <3>2. QED
      BY <1>1, <3>1 DEF CoreInv
  <2>6. CASE /\ GetLock(c) /\ holder' = c /\ box' = Step(c).in /\ Step(c).in \in exists
             /\ UNCHANGED <<up, gen, fetching, hung>>
    BY <1>1, <2>6 DEF GetLock, keptVars, fixedVars, CoreInv
  <2>7. QED
    BY <1>0, <2>1, <2>2, <2>3, <2>4, <2>5, <2>6 DEF StepKind, LinkStep, Locks
<1>10. faults' \in Nat /\ detecting' \in Calls \cup {None} /\ exists' \subseteq Folders
  BY BoundsKept
<1>11. QED
  BY <1>3, <1>5, <1>6, <1>7, <1>8, <1>9, <1>10 DEF CoreInv

\* Another mail client, and a connection that is lost.
LEMMA OutsideKept ==
  ASSUME LockInv, Outside
  PROVE  LockInv' /\ UNCHANGED <<site, request, todo, reply, fate, mine, audited>>
<1> USE ModeFacts DEF linkVars, callVars, keptVars, fixedVars
<1>1. UNCHANGED <<site, request, todo, reply, fate, mine, detecting, audited>>
  BY DEF Outside
<1>2. UNCHANGED linkVars \/ LinkDown
  BY DEF Outside, OtherClient, Drop
<1>3. faults' \in Nat /\ exists' \subseteq Folders
  <2>1. faults \in Nat /\ exists \subseteq Folders
    BY DEF LockInv, CoreInv
  <2>2. CASE Drop
    BY <2>1, <2>2 DEF Drop
  <2>3. CASE OtherClient
    <3>1. faults' = faults
      BY <2>3 DEF OtherClient
    <3>2. exists' = exists \/ \E f \in {"Drafts", "Sent", "Work", "New"} : exists' = exists \cup {f}
      BY <2>3 DEF OtherClient, Move, Expunge, CreateFolder
    <3>3. QED
      BY <2>1, <3>1, <3>2 DEF Folders, SpecialUse
  <2>4. QED
    BY <2>2, <2>3 DEF Outside
<1>4. CoreInv'
  <2>1. /\ up' \in BOOLEAN /\ gen' \in Nat /\ \A d \in Calls : mine'[d] <= gen'
        /\ {holder', fetching', hung'} \subseteq Calls \cup {None} /\ box' \in Modes
    BY <1>1, <1>2 DEF LockInv, CoreInv, LinkDown
  <2>2. SiteOK' /\ \A d \in Calls : Accepted(request[d])' /\ Registered(request[d].tool)'
    BY <1>1 DEF LockInv, CoreInv, SiteOK, Registered
  <2>3. QED
    BY <1>1, <1>3, <2>1, <2>2 DEF LockInv, CoreInv
<1>5. LineInv'
  <2>1. CASE UNCHANGED linkVars
    <3>1. \A d : /\ Live(d)' <=> Live(d)
                 /\ At(d, {"lock"})' <=> At(d, {"lock"})
      BY <1>1, <2>1 DEF Live, At
    <3>2. At(fetching, {"close"})' <=> At(fetching, {"close"})
      BY <1>1, <2>1 DEF At
    <3>3. QED
      BY <2>1, <3>1, <3>2 DEF LockInv, LineInv
  <2>2. CASE LinkDown
    <3>1. up' = FALSE /\ holder' = None /\ waiting' = <<>> /\ fetching' = None
      BY <2>2 DEF LinkDown
    <3>2. <<>> \in Seq(Calls) /\ IsInjective(<<>>) /\ Range(<<>>) = {}
      BY DEF IsInjective, Range
    <3>3. QED
      BY <3>1, <3>2 DEF LineInv
  <2>3. QED
    BY <1>2, <2>1, <2>2
<1>6. PlaceInv'
  <2>1. SUFFICES ASSUME NEW d \in Calls PROVE \E f \in Modes : Path(d, f)' /\ Holds(d, f)'
    BY DEF PlaceInv
  <2>2. PICK f \in Modes : Path(d, f) /\ Holds(d, f)
    BY DEF LockInv, PlaceInv
  <2>3. Path(d, f)'
    BY <1>1, <2>2, SamePath DEF Path
  <2>4. Holds(d, f)'
    <3>1. CASE UNCHANGED linkVars
      BY <1>1, <2>2, <3>1 DEF Holds, Live
    <3>2. CASE LinkDown
      BY <3>2 DEF LinkDown, Holds, Live
    <3>3. QED
      BY <1>2, <3>1, <3>2
  <2>5. QED
    BY <2>3, <2>4
<1>7. QED
  BY <1>1, <1>4, <1>5, <1>6 DEF LockInv

LEMMA LockInit ==
  ASSUME Init
  PROVE  LockInv
<1> USE ModeFacts
<1>1. PICK case \in Cases : /\ site = case.site /\ mail = case.mail /\ exists = case.exists
                            /\ request = case.request /\ others = case.others
  BY DEF Init
<1>2. SiteOK /\ exists \subseteq Folders /\ \A c \in Calls : Accepted(request[c])
  BY <1>1, CasesOK DEF SiteOK, Kinds
<1>3. \A c \in Calls : Shape(Program(request[c]), None, None, request[c].in, MayUse(request[c]))
  BY <1>2, ProgramKeeps DEF Keeps
<1>4. todo = [c \in Calls |-> Program(request[c])]
  BY DEF Init
<1>5. todo \in [Calls -> Seq(StepType)]
  BY <1>3, <1>4 DEF Shape
<1>6. PlaceInv
  <2>1. \A c \in Calls : Path(c, None)
    BY <1>3, <1>4 DEF Path
  <2>2. \A c \in Calls : Holds(c, None)
    BY DEF Init, Holds
  <2>3. QED
    BY <2>1, <2>2 DEF PlaceInv
<1>7. LineInv
  <2>1. waiting = <<>> /\ holder = None /\ fetching = None
    BY DEF Init
  <2>2. <<>> \in Seq(Calls) /\ IsInjective(<<>>) /\ Range(<<>>) = {}
    BY DEF IsInjective, Range
  <2>3. QED
    BY <2>1, <2>2 DEF LineInv
<1>8. CoreInv
  <2>1. /\ reply = [c \in Calls |-> None] /\ fate = [c \in Calls |-> {}] /\ mine = [c \in Calls |-> 0]
        /\ up = FALSE /\ gen = 0 /\ faults = 0 /\ box = None
        /\ holder = None /\ fetching = None /\ hung = None /\ detecting = None
        /\ \A c \in Calls : Registered(request[c].tool)
    BY DEF Init
  <2>2. \A c \in Calls : Accepted(request[c]) /\ Registered(request[c].tool)
    BY <1>2, <2>1
  <2>3. /\ reply \in [Calls -> {None, "ok", "error"}] /\ (\A c \in Calls : reply[c] # None => todo[c] = <<>>)
        /\ fate \in [Calls -> SUBSET Fates] /\ mine \in [Calls -> Nat]
        /\ \A c \in Calls : mine[c] <= gen
    BY <2>1
  <2>4. /\ up \in BOOLEAN /\ gen \in Nat /\ faults \in Nat /\ box \in Modes
        /\ {holder, fetching, hung, detecting} \subseteq Calls \cup {None}
    BY <2>1
  <2>5. QED
    BY <1>2, <1>5, <2>2, <2>3, <2>4 DEF CoreInv
<1>9. QED
  BY <1>6, <1>7, <1>8 DEF LockInv

LEMMA LockStep ==
  ASSUME LockInv, [Next]_vars
  PROVE  LockInv'
<1>1. CASE Outside
  BY <1>1, OutsideKept
<1>2. ASSUME NEW c \in Calls, Goes(c)
      PROVE  LockInv'
  <2>1. StepKind(c)
    BY <1>2, StepKinds
  <2>2. PlaceInv'
    BY <2>1, OwnPlace, OthersPlace DEF PlaceInv
  <2>3. QED
    BY <1>2, <2>1, <2>2, CoreKept, LineKept DEF LockInv
<1>3. CASE UNCHANGED vars
  <2>1. UNCHANGED <<site, request, todo, reply, fate, mine, detecting, linkVars, faults, exists>>
    BY <1>3 DEF vars, serverVars, callVars, keptVars, fixedVars, linkVars
  <2>2. PlaceInv'
    <3>1. SUFFICES ASSUME NEW d \in Calls PROVE \E f \in Modes : Path(d, f)' /\ Holds(d, f)'
      BY DEF PlaceInv
    <3>2. PICK f \in Modes : Path(d, f) /\ Holds(d, f)
      BY DEF LockInv, PlaceInv
    <3>3. Path(d, f)' /\ Holds(d, f)'
      BY <2>1, <3>2, SamePath DEF Path, Holds, Live, linkVars
    <3>4. QED
      BY <3>3
  <2>3. LineInv'
    BY <2>1 DEF LockInv, LineInv, Live, At, linkVars
  <2>4. CoreInv'
    BY <2>1 DEF LockInv, CoreInv, SiteOK, Registered, linkVars
  <2>5. QED
    BY <2>2, <2>3, <2>4 DEF LockInv
<1>4. QED
  BY <1>1, <1>2, <1>3 DEF Next

\* The place of every call: a lock is held exactly between its lock and its release, also
\* when a step throws, and no call starts a command in its own FETCH.
THEOREM LocksHeld == Spec => []LockInv
BY LockInit, LockStep, PTL DEF Spec

(***************************************************************************)
(* Nobody is told that a mailbox stayed busy while the server answers.     *)
(***************************************************************************)

HungInv == hung # None => "hung" \in fate[hung]

\* The holder of the lock has its release to come, and no command in its FETCH.
LEMMA StuckMeansHung ==
  ASSUME LockInv, Stuck
  PROVE  hung # None
<1>1. SUFFICES ASSUME holder # None, todo[holder] = <<>> \/ (fetching = holder /\ ~At(holder, {"close"}))
               PROVE  FALSE
  BY DEF Stuck
<1>2. PICK h \in Calls : h = holder
  BY <1>1 DEF LockInv, CoreInv
<1>3. PICK f \in Modes : Path(h, f) /\ Holds(h, f)
  BY DEF LockInv, PlaceInv
<1>4. f # None
  BY <1>2, <1>3 DEF Holds
<1>5. todo[h] # <<>>
  <2>1. SUFFICES ASSUME todo[h] = <<>> PROVE FALSE
    OBVIOUS
  <2>2. PICK m : Course(<<>>, f, None, request[h].in, MayUse(request[h]), m)
    BY <1>3, <2>1 DEF Path, Shape
  <2>3. m[1] = f /\ m[Len(<<>>) + 1] = None /\ Len(<<>>) + 1 = 1
    BY <2>2 DEF Course
  <2>4. QED
    BY <1>4, <2>3
<1>6. QED
  BY <1>1, <1>2, <1>5 DEF LockInv, LineInv

LEMMA MarksStay ==
  ASSUME LockInv, NEW c \in Calls, StepKind(c), NEW d \in Calls
  PROVE  fate[d] \subseteq fate'[d] /\ (d # c => fate'[d] = fate[d])
  BY DEF StepKind, CallStep, Answer, LockInv, CoreInv

LEMMA HungStep ==
  ASSUME LockInv, HungInv, BusyOnlyIfHung, NEW c \in Calls, Goes(c)
  PROVE  HungInv' /\ BusyOnlyIfHung'
<1> USE ModeFacts DEF linkVars
<1>1. StepKind(c)
  BY StepKinds
<1>2. hung \in Calls \cup {None} /\ \A d \in Calls : fate[d] \subseteq fate'[d]
  BY <1>1, MarksStay DEF LockInv, CoreInv
<1>3. HungInv'
  <2>1. hung' \in {hung, None} \/ Hangs(c)
    BY <1>1 DEF StepKind, LinkStep, Locks, Stays, GivesBack, Fails, GoesDown, LinkDown, GetImapClient,
                AskForLock, Release, OpenFetch, CloseFetch
  <2>2. CASE Hangs(c)
    <3>1. hung' = c /\ fate' = [fate EXCEPT ![c] = @ \cup {"hung"}] /\ fate \in [Calls -> SUBSET Fates]
      BY <2>2 DEF Hangs, LockInv, CoreInv
    <3>2. "hung" \in fate'[c]
      BY <3>1
    <3>3. QED
      BY <3>1, <3>2 DEF HungInv
  <2>3. CASE hung' \in {hung, None}
    <3>1. CASE hung' = None
      BY <3>1 DEF HungInv
    <3>2. CASE hung' = hung /\ hung # None
      <4>1. PICK d \in Calls : d = hung /\ d = hung'
        BY <1>2, <3>2
      <4>2. "hung" \in fate'[d]
        BY <1>2, <3>2, <4>1 DEF HungInv
      <4>3. QED
        BY <4>1, <4>2 DEF HungInv
    <3>3. QED
      BY <2>3, <3>1, <3>2
  <2>4. QED
    BY <2>1, <2>2, <2>3
<1>4. BusyOnlyIfHung'
  <2>1. SUFFICES ASSUME NEW b \in Calls, "busy" \in fate'[b]
                 PROVE  \E d \in Calls : "hung" \in fate'[d]
    BY DEF BusyOnlyIfHung
  <2>2. CASE "busy" \in fate[b]
    BY <1>2, <2>2 DEF BusyOnlyIfHung
  <2>3. CASE "busy" \notin fate[b]
    <3>1. b = c
      BY <1>1, <2>1, <2>3, MarksStay
    <3>2. PICK marks \in SUBSET Fates :
               /\ fate' = [fate EXCEPT ![c] = @ \cup marks]
               /\ Passes(c, marks) \/ Breaks(c, marks) \/ marks \subseteq {"hung"}
      BY <1>1, <2>1, <2>3, <3>1 DEF StepKind, Answer, CallStep, keptVars
    <3>3. "busy" \in marks
      BY <2>1, <2>3, <3>1, <3>2 DEF LockInv, CoreInv
    <3>4. Stuck
      BY <3>2, <3>3 DEF Passes, Breaks
    <3>5. hung \in Calls /\ "hung" \in fate[hung]
      BY <1>2, <3>4, StuckMeansHung DEF HungInv
    <3>6. QED
      BY <1>2, <3>5
  <2>4. QED
    BY <2>2, <2>3
<1>5. QED
  BY <1>3, <1>4

\* A caller is told that the mailbox stayed busy only when some command went unanswered:
\* no program leaves the lock held, also where a step throws, and none starts a command in
\* its own FETCH (lockMailbox of mailbox-lock.ts and its callers).
THEOREM OnlyHungCommandsBlock == Spec => []BusyOnlyIfHung
<1>1. Init => HungInv /\ BusyOnlyIfHung
  BY DEF Init, HungInv, BusyOnlyIfHung
<1>2. LockInv /\ HungInv /\ BusyOnlyIfHung /\ [Next]_vars => (HungInv /\ BusyOnlyIfHung)'
  <2> SUFFICES ASSUME LockInv, HungInv, BusyOnlyIfHung, [Next]_vars PROVE (HungInv /\ BusyOnlyIfHung)'
    OBVIOUS
  <2>1. CASE Outside
    <3>1. fate' = fate /\ hung' \in {hung, None}
      BY <2>1, OutsideKept DEF Outside, OtherClient, Drop, LinkDown, linkVars
    <3>2. QED
      BY <3>1 DEF HungInv, BusyOnlyIfHung
  <2>2. CASE UNCHANGED vars
    BY <2>2 DEF vars, serverVars, HungInv, BusyOnlyIfHung
  <2>3. QED
    BY <2>1, <2>2, HungStep DEF Next
<1>3. QED
  BY <1>1, <1>2, LocksHeld, PTL DEF Spec

(***************************************************************************)
(* The audit log.                                                          *)
(***************************************************************************)

Changed(c) == fate[c] \cap {"changed", "delivered"} # {}
CanChange(r) == MayUse(r) \cap Changing # {}

AuditInv ==
  \A c \in Calls :
    /\ Changed(c) => CanChange(request[c])
    /\ Changed(c) /\ request[c].tool \in Scheduling => todo[c] = <<>>

\* What is known of a request whose call may change something.
LEMMA WhoCanChange ==
  ASSUME SiteOK, NEW r, Accepted(r), Registered(r.tool), CanChange(r)
  PROVE  /\ ~site.readOnly /\ ~r.dry
         /\ r.tool \in ReadTools /\ r.tool # "get_email" => r.save
         /\ r.tool = "apply_template" => r.action # "preview"
         /\ r.tool \in Scheduling \cup {"apply_template"} => r.tool \notin ReadTools
<1>1. Quiet \cap Changing = {}
  BY DEF Quiet, Changing
<1>2. r.tool \in ReadTools \cup WriteTools /\ (r.dry => r.tool \in DryRuns) /\ r.dry \in BOOLEAN
  BY RequestFields
<1>3. CASE r.tool \in ReadTools
  <2>1. ReadOps(r) # {}
    BY <1>1, <1>3 DEF CanChange, MayUse
  <2>2. ~site.readOnly /\ (r.tool # "get_email" => r.save)
    BY <2>1 DEF ReadOps
  <2>3. r.tool \notin DryRuns \cup Scheduling \cup {"apply_template"}
    BY <1>3 DEF ReadTools, DryRuns, Scheduling
  <2>4. QED
    BY <1>2, <1>3, <2>2, <2>3
<1>4. CASE r.tool \notin ReadTools
  <2>1. ~site.readOnly
    BY <1>4 DEF Registered
  <2>2. ~r.dry /\ WriteOps(r) # {}
    BY <1>1, <1>2, <1>4 DEF CanChange, MayUse
  <2>3. r.tool = "apply_template" => r.action # "preview"
    <3>1. SUFFICES ASSUME r.tool = "apply_template", r.action = "preview" PROVE WriteOps(r) = {}
      BY <2>2
    <3>2. QED
      BY <3>1 DEF WriteOps
  <2>4. QED
    BY <1>4, <2>1, <2>2, <2>3
<1>5. QED
  BY <1>3, <1>4

\* A scheduling tool changes something only where it ends.
LEMMA SchedulingChanges ==
  ASSUME NEW r, r.tool \in Scheduling
  PROVE  MayUse(r) \cap Changing \subseteq Final
<1>1. r.tool \notin ReadTools
  BY DEF Scheduling, ReadTools
<1>2. WriteOps(r) \subseteq {"addEvent", "openIcs", "addReminder"}
  <2>1. CASE r.tool = "add_to_calendar"
    BY <2>1 DEF WriteOps
  <2>2. CASE r.tool = "create_reminder"
    BY <2>2 DEF WriteOps
  <2>3. QED
    BY <2>1, <2>2 DEF Scheduling
<1>3. Quiet \cap Changing = {}
  BY DEF Quiet, Changing
<1>4. QED
  BY <1>1, <1>2, <1>3 DEF MayUse, Final

\* A step that leaves the mark of a change is one that the program may contain.
LEMMA MarkOfChange ==
  ASSUME LockInv, NEW c \in Calls, StepKind(c), NEW d \in Calls, Changed(d)', ~Changed(d)
  PROVE  /\ d = c /\ todo[c] # <<>> /\ At(c, Changing) /\ CanChange(request[c])
         /\ \E marks \in SUBSET Fates :
              /\ marks \cap {"changed", "delivered"} # {}
              /\ fate' = [fate EXCEPT ![c] = @ \cup marks]
              /\ "changed" \in marks => At(c, Changing \ {"smtp"})
              /\ "delivered" \in marks => At(c, {"smtp"})
              /\ Passes(c, marks) \/ Breaks(c, marks)
<1>1. d = c
  BY MarksStay DEF Changed
<1>2. fate' # fate /\ fate' \in [Calls -> SUBSET Fates] /\ fate \in [Calls -> SUBSET Fates]
  <2>1. fate'[c] # fate[c] /\ fate \in [Calls -> SUBSET Fates]
    BY <1>1 DEF Changed, LockInv, CoreInv
  <2>2. QED
    BY <2>1 DEF StepKind, CallStep, Answer
<1>3. CallStep(c)
  BY <1>2 DEF StepKind, Answer
<1>4. PICK marks \in SUBSET Fates :
        /\ fate' = [fate EXCEPT ![c] = @ \cup marks]
        /\ "changed" \in marks => At(c, Changing \ {"smtp"})
        /\ "delivered" \in marks => At(c, {"smtp"})
        /\ Passes(c, marks) \/ Breaks(c, marks) \/ (UNCHANGED callVars /\ marks \subseteq {"hung"})
  BY <1>3 DEF CallStep
<1>5. marks \cap {"changed", "delivered"} # {}
  <2>1. fate'[c] = fate[c] \cup marks
    BY <1>2, <1>4
  <2>2. QED
    BY <1>1, <2>1 DEF Changed
<1>6. At(c, Changing) /\ todo[c] # <<>>
  BY <1>4, <1>5 DEF At, Changing
<1>7. Step(c).do \in MayUse(request[c])
  <2>1. PICK f \in Modes : Path(c, f)
    BY DEF LockInv, PlaceInv
  <2>2. QED
    BY <1>6, <2>1, ShapeTail DEF Path, Step
<1>8. CanChange(request[c])
  BY <1>6, <1>7 DEF CanChange, At, Step
<1>9. QED
  BY <1>1, <1>4, <1>5, <1>6, <1>8

LEMMA CanStillChange ==
  ASSUME UNCHANGED <<site, request>>, NEW d \in Calls
  PROVE  CanChange(request[d])' <=> CanChange(request[d])
  BY DEF CanChange, MayUse, WriteOps, ReadOps

LEMMA AuditStep ==
  ASSUME LockInv, AuditInv, ChangesAreAudited, NEW c \in Calls, Goes(c)
  PROVE  AuditInv' /\ ChangesAreAudited'
<1>1. StepKind(c)
  BY StepKinds
<1>2. UNCHANGED <<site, request>>
  BY <1>1 DEF StepKind
<1>3. AuditInv'
  <2>1. SUFFICES ASSUME NEW d \in Calls, Changed(d)'
                 PROVE  /\ CanChange(request[d])'
                        /\ request'[d].tool \in Scheduling => todo'[d] = <<>>
    BY DEF AuditInv
  <2>2. CASE Changed(d)
    <3>1. CanChange(request[d]) /\ (request[d].tool \in Scheduling => todo[d] = <<>>)
      BY <2>2 DEF AuditInv
    <3>2. todo[d] = <<>> => todo'[d] = <<>>
      <4>1. CASE d # c
        BY <1>1, <4>1, OthersLeft DEF At
      <4>2. CASE d = c
        BY <1>1, <4>2 DEF StepKind, Answer, CallStep
      <4>3. QED
        BY <4>1, <4>2
    <3>3. QED
      BY <1>2, <3>1, <3>2, CanStillChange
  <2>3. CASE ~Changed(d)
    <3>1. PICK marks \in SUBSET Fates :
            /\ d = c /\ At(c, Changing) /\ CanChange(request[c])
            /\ marks \cap {"changed", "delivered"} # {}
            /\ "changed" \in marks => At(c, Changing \ {"smtp"})
            /\ "delivered" \in marks => At(c, {"smtp"})
            /\ Passes(c, marks) \/ Breaks(c, marks)
      BY <1>1, <2>1, <2>3, MarkOfChange
    <3>2. ASSUME request[c].tool \in Scheduling PROVE todo'[c] = <<>>
      <4>1. At(c, Final)
        <5>1. PICK f \in Modes : Path(c, f)
          BY DEF LockInv, PlaceInv
        <5>2. Step(c).do \in MayUse(request[c])
          BY <3>1, <5>1, ShapeTail DEF Path, Step, At
        <5>3. Step(c).do \in Final
          BY <3>1, <3>2, <5>2, SchedulingChanges DEF At, Step
        <5>4. QED
          BY <3>1, <5>3 DEF At, Step
      <4>2. "changed" \in marks
        <5>1. ~At(c, {"smtp"})
          BY <4>1 DEF At, Final
        <5>2. QED
          BY <3>1, <5>1
      <4>3. Passes(c, marks)
        BY <3>1, <4>1, <4>2 DEF Breaks
      <4>4. PICK q : todo' = [todo EXCEPT ![c] = q] /\ q = <<>>
        BY <4>1, <4>2, <4>3 DEF Passes
      <4>5. QED
        BY <4>4 DEF LockInv, CoreInv
    <3>3. QED
      BY <1>2, <3>1, <3>2, CanStillChange
  <2>4. QED
    BY <2>2, <2>3
<1>4. ChangesAreAudited'
  <2>1. SUFFICES ASSUME NEW d \in Calls, reply'[d] # None, Changed(d)', request[d].tool # "get_email",
                        ~(request[d].tool = "apply_template" /\ reply'[d] = "error")
                 PROVE  d \in audited'
    BY <1>2 DEF ChangesAreAudited, Changed
  <2>2. audited \subseteq audited'
    BY <1>1 DEF StepKind, Answer, CallStep, Passes, Breaks, Throws, callVars
  <2>3. CASE reply[d] # None
    <3>1. todo[d] = <<>> /\ ~At(d, {"sharing"})
      BY <2>3 DEF LockInv, CoreInv, At
    <3>2. Changed(d)
      BY <1>1, <2>1, <3>1, MarkOfChange
    <3>3. reply'[d] = reply[d]
      <4>1. CASE Answer(c)
        BY <2>3, <4>1 DEF Answer, LockInv, CoreInv
      <4>2. CASE reply' = reply
        BY <4>2
      <4>3. CASE Throws(c) /\ todo[c] # <<>>
        BY <3>1, <4>3 DEF Throws, Propagates, Over, Sharing, At
      <4>4. QED
        BY <1>1, <4>1, <4>2, <4>3 DEF StepKind, CallStep, Passes, Breaks, callVars
    <3>4. QED
      BY <2>1, <2>2, <2>3, <3>2, <3>3 DEF ChangesAreAudited, Changed
  <2>4. CASE reply[d] = None
    <3>1. Accepted(request[d]) /\ Registered(request[d].tool) /\ SiteOK
      BY DEF LockInv, CoreInv
    <3>2. CanChange(request[d])
      BY <1>1, <1>3, <2>1, CanStillChange DEF AuditInv, StepKind
    <3>3. /\ ~site.readOnly /\ ~request[d].dry
          /\ request[d].tool \in ReadTools => request[d].save
          /\ request[d].tool = "apply_template" => request[d].action # "preview"
          /\ request[d].tool \in Scheduling \cup {"apply_template"} => request[d].tool \notin ReadTools
      BY <2>1, <3>1, <3>2, WhoCanChange
    <3>4. CASE Answer(c)
      <4>1. d = c /\ todo[c] = <<>>
        BY <2>1, <2>4, <3>4 DEF Answer, LockInv, CoreInv
      <4>2. Audits(c)
        BY <3>3, <4>1 DEF Audits, Writes
      <4>3. QED
        BY <3>3, <3>4, <4>1, <4>2 DEF Answer
    <3>5. CASE Throws(c) /\ todo[c] # <<>> /\ d \in Over(c)
      <4>1. reply'[d] = "error" /\ todo[d] # <<>>
        BY <3>5 DEF Throws, Propagates, Over, Sharing, At
      <4>2. request[d].tool # "apply_template"
        BY <2>1, <4>1
      <4>3. request[d].tool \notin Scheduling
        <5>1. CASE Changed(d)
          BY <4>1, <5>1 DEF AuditInv
        <5>2. CASE ~Changed(d)
          <6>1. SUFFICES ASSUME request[d].tool \in Scheduling PROVE FALSE
            OBVIOUS
          <6>2. PICK marks \in SUBSET Fates :
                  /\ d = c /\ At(c, Changing) /\ marks \cap {"changed", "delivered"} # {}
                  /\ "changed" \in marks => At(c, Changing \ {"smtp"})
                  /\ "delivered" \in marks => At(c, {"smtp"})
                  /\ Passes(c, marks) \/ Breaks(c, marks)
            BY <1>1, <2>1, <5>2, MarkOfChange
          <6>3. ~Passes(c, marks)
            BY <2>4, <4>1, NoneIsNothing DEF Passes
          <6>4. PICK f \in Modes : Path(c, f)
            BY DEF LockInv, PlaceInv
          <6>5. Step(c).do \in MayUse(request[c]) /\ Step(c).do \in Changing
            BY <6>2, <6>4, ShapeTail DEF Path, Step, At
          <6>6. At(c, Final)
            BY <6>1, <6>2, <6>5, SchedulingChanges DEF At, Step
          <6>7. "changed" \in marks
            BY <6>2, <6>6 DEF At, Final
          <6>8. QED
            BY <6>2, <6>3, <6>6, <6>7 DEF Breaks
        <5>3. QED
          BY <5>1, <5>2
      <4>4. Audits(d)
        BY <3>3, <4>2, <4>3 DEF Audits, Writes
      <4>5. QED
        BY <3>5, <4>4 DEF Throws
    <3>6. Throws(c) => reply'[d] = IF d \in Over(c) THEN "error" ELSE reply[d]
      BY DEF Throws, Propagates
    <3>7. QED
      BY <1>1, <2>1, <2>4, <3>4, <3>5, <3>6
         DEF StepKind, CallStep, Passes, Breaks, callVars
  <2>5. QED
    BY <2>3, <2>4
<1>5. QED
  BY <1>3, <1>4

\* Nothing is changed unseen: on a read-only server no call changes anything, and elsewhere
\* every write tool that changed something, also half-way through, is in the audit log
\* (registerAllTools; the catch and the last lines of the handlers of src/src/tools).
THEOREM ChangesAreSeen == Spec => []AuditCoversChanges
<1>1. Init => AuditInv /\ ChangesAreAudited
  BY DEF Init, AuditInv, ChangesAreAudited, Changed
<1>2. LockInv /\ AuditInv /\ ChangesAreAudited /\ [Next]_vars => (AuditInv /\ ChangesAreAudited)'
  <2> SUFFICES ASSUME LockInv, AuditInv, ChangesAreAudited, [Next]_vars
               PROVE  (AuditInv /\ ChangesAreAudited)'
    OBVIOUS
  <2>1. ASSUME UNCHANGED <<site, request, todo, reply, fate, audited>>
        PROVE  (AuditInv /\ ChangesAreAudited)'
    <3>1. AuditInv'
      BY <2>1, CanStillChange DEF AuditInv, Changed
    <3>2. ChangesAreAudited'
      BY <2>1 DEF ChangesAreAudited
    <3>3. QED
      BY <3>1, <3>2
  <2>2. CASE Outside
    BY <2>1, <2>2, OutsideKept
  <2>3. CASE UNCHANGED vars
    BY <2>1, <2>3 DEF vars, callVars, keptVars, fixedVars
  <2>4. QED
    BY <2>2, <2>3, AuditStep DEF Next
<1>3. LockInv /\ AuditInv => ReadOnlyServer
  <2>1. SUFFICES ASSUME LockInv, AuditInv, site.readOnly, NEW c \in Calls PROVE ~Changed(c)
    BY DEF ReadOnlyServer, Changed
  <2>2. Changed(c) => CanChange(request[c])
    BY <2>1 DEF AuditInv
  <2>3. QED
    BY <2>1, <2>2, WhoCanChange DEF LockInv, CoreInv
<1>4. QED
  BY <1>1, <1>2, <1>3, LocksHeld, PTL DEF Spec, AuditCoversChanges

(***************************************************************************)
(* The mail.                                                               *)
(***************************************************************************)

Mails == [uid : Nat, msg : Messages \cup Calls, mark : BOOLEAN]

MailInv ==
  /\ mail \in [Folders -> SUBSET Mails] /\ \A f \in Folders : IsFiniteSet(mail[f])
  /\ next \in [Folders -> Nat]
  /\ exists \subseteq Folders /\ reborn \subseteq Folders

\* What the ids of a call name is what its caller was shown, while the folder is the one it
\* was: a UID is not given twice.
Shown(c) ==
  LET f == request[c].in
  IN  f \notin reborn =>
        /\ f \in exists
        /\ \A id \in request[c].ids : id < next[f]
        /\ \A m \in mail[f] : m.uid \in request[c].ids => m.msg \in meant[c]

\* The messages of a folder, in a list, with UIDs from the next one on.
LEMMA FiledMails ==
  ASSUME MailInv, NEW X \in SUBSET Mails, IsFiniteSet(X), NEW g \in Folders
  PROVE  /\ Filed(X, g) \in SUBSET Mails /\ IsFiniteSet(Filed(X, g)) /\ Cardinality(X) \in Nat
         /\ \A m \in Filed(X, g) : m.uid >= next[g]
<1> DEFINE s == SetToSeq(X)
           n == Cardinality(X)
           new(i) == [s[i] EXCEPT !.uid = next[g] + i - 1]
<1>1. n \in Nat /\ s \in [1 .. n -> X]
  BY SetToSeqLists
<1>2. DOMAIN s = 1 .. n /\ \A i \in 1 .. n : s[i] \in Mails
  BY <1>1
<1>3. Filed(X, g) = {new(i) : i \in 1 .. n}
  BY <1>2 DEF Filed
<1> HIDE DEF s, n
<1>4. \A i \in 1 .. n : new(i) \in Mails /\ new(i).uid >= next[g]
  <2>1. SUFFICES ASSUME NEW i \in 1 .. n PROVE new(i) \in Mails /\ new(i).uid >= next[g]
    OBVIOUS
  <2>2. next[g] \in Nat
    BY DEF MailInv
  <2>3. PICK k \in Nat : k = next[g] + i - 1 /\ k >= next[g]
    BY <1>1, <2>1, <2>2
  <2>4. s[i] \in Mails
    BY <1>2
  <2>5. new(i) = [s[i] EXCEPT !.uid = k]
    BY <2>3
  <2>6. [s[i] EXCEPT !.uid = k] \in Mails /\ [s[i] EXCEPT !.uid = k].uid = k
    BY <2>4 DEF Mails
  <2>7. QED
    BY <2>3, <2>5, <2>6
<1> HIDE DEF new
<1>5. IsFiniteSet(1 .. n)
  BY <1>1, FS_Interval
<1>6. IsFiniteSet({new(i) : i \in 1 .. n})
  <2> DEFINE T == {new(i) : i \in 1 .. n}
             h == [i \in 1 .. n |-> new(i)]
  <2>1. h \in Surjection(1 .. n, T)
    BY DEF Surjection
  <2> HIDE DEF h, T
  <2>2. IsFiniteSet(T)
    BY <1>5, <2>1, FS_Surjection
  <2>3. QED
    BY <2>2 DEF T
<1>7. QED
  BY <1>1, <1>3, <1>4, <1>6 DEF n

\* What may happen to the mail.
Edits ==
  \/ NoChange
  \/ \E f \in Folders : \E X \in SUBSET mail[f] :
       \/ \E g \in Folders : Move(X, f, g) \/ Copy(X, g)
       \/ Expunge(X, f)
       \/ Mark(X, f)
  \/ \E d \in Calls, g \in Folders : Append1(d, g)
  \/ \E g \in Folders \ exists : CreateFolder(g)
  \/ \E f \in Folders : DeleteFolder(f)
  \/ \E f \in Folders, g \in Folders : RenameFolder(f, g)

\* A folder gets new messages, each under a new UID, and may lose some.
Gains(f, g) ==
  \E X \in SUBSET Mails, Y \in SUBSET mail[f], n \in Nat :
    /\ IsFiniteSet(X) /\ \A m \in X : m.uid >= next[g]
    /\ mail' = [mail EXCEPT ![f] = @ \ Y, ![g] = @ \cup X]
    /\ next' = [next EXCEPT ![g] = @ + n]
    /\ UNCHANGED <<exists, reborn>>

LEMMA GainsKeep ==
  ASSUME MailInv, NEW f \in Folders, NEW g \in Folders, Gains(f, g)
  PROVE  /\ MailInv'
         /\ \A c \in Calls : /\ Shown(c) /\ request'[c] = request[c] /\ meant' = meant
                             /\ request[c].in \in Folders /\ request[c].ids \in SUBSET Nat
                             => Shown(c)'
<1>1. PICK X \in SUBSET Mails, Y \in SUBSET mail[f], n \in Nat :
        /\ IsFiniteSet(X) /\ \A m \in X : m.uid >= next[g]
        /\ mail' = [mail EXCEPT ![f] = @ \ Y, ![g] = @ \cup X]
        /\ next' = [next EXCEPT ![g] = @ + n]
        /\ UNCHANGED <<exists, reborn>>
  BY DEF Gains
<1>2. \A h \in Folders : mail'[h] \subseteq mail[h] \cup (IF h = g THEN X ELSE {})
  BY <1>1 DEF MailInv
<1>3. \A h \in Folders : mail'[h] \in SUBSET Mails /\ IsFiniteSet(mail'[h])
  <2>1. SUFFICES ASSUME NEW h \in Folders PROVE mail'[h] \in SUBSET Mails /\ IsFiniteSet(mail'[h])
    OBVIOUS
  <2>2. mail[h] \in SUBSET Mails /\ IsFiniteSet(mail[h])
    BY DEF MailInv
  <2>3. IsFiniteSet(mail[h] \cup X)
    BY <1>1, <2>2, FS_Union
  <2>4. mail'[h] \subseteq mail[h] \cup X
    BY <1>2
  <2>5. QED
    BY <2>2, <2>3, <2>4, FS_Subset
<1>4. mail' \in [Folders -> SUBSET Mails]
  <2>1. mail' = [h \in Folders |-> mail'[h]]
    BY <1>1 DEF MailInv
  <2>2. QED
    BY <1>3, <2>1
<1>5. next' \in [Folders -> Nat] /\ \A h \in Folders : next'[h] >= next[h]
  BY <1>1 DEF MailInv
<1>6. MailInv'
  BY <1>1, <1>3, <1>4, <1>5 DEF MailInv
<1>7. ASSUME NEW c \in Calls, Shown(c), request'[c] = request[c], meant' = meant,
             request[c].in \in Folders, request[c].ids \in SUBSET Nat
      PROVE  Shown(c)'
  <2> DEFINE h == request[c].in
             ids == request[c].ids
  <2>1. SUFFICES ASSUME h \notin reborn
                 PROVE  /\ h \in exists'
                        /\ \A id \in ids : id < next'[h]
                        /\ \A m \in mail'[h] : m.uid \in ids => m.msg \in meant'[c]
    BY <1>1, <1>7 DEF Shown
  <2>2. /\ h \in exists
        /\ \A id \in ids : id < next[h]
        /\ \A m \in mail[h] : m.uid \in ids => m.msg \in meant[c]
    BY <1>7, <2>1 DEF Shown
  <2>3. next[h] \in Nat /\ next'[h] \in Nat /\ next'[h] >= next[h] /\ ids \in SUBSET Nat
    BY <1>5, <1>7 DEF MailInv
  <2>4. \A id \in ids : id < next'[h]
    BY <2>2, <2>3
  <2>5. \A m \in mail'[h] : m.uid \in ids => m.msg \in meant'[c]
    <3>1. SUFFICES ASSUME NEW m \in mail'[h], m.uid \in ids PROVE m.msg \in meant[c]
      BY <1>7
    <3>2. CASE m \in mail[h]
      BY <2>2, <3>1, <3>2
    <3>3. CASE h = g /\ m \in X
      <4>1. m.uid >= next[h] /\ m.uid \in Nat /\ m.uid < next[h]
        BY <1>1, <2>2, <2>3, <3>1, <3>3 DEF Mails
      <4>2. QED
        BY <2>3, <4>1
    <3>4. QED
      BY <1>2, <1>7, <3>2, <3>3
  <2>6. QED
    BY <1>1, <2>2, <2>4, <2>5
<1>8. QED
  BY <1>6, <1>7

Steady(c) ==
  /\ request'[c] = request[c] /\ meant' = meant
  /\ request[c].in \in Folders /\ request[c].ids \in SUBSET Nat

\* No call can give an id of another call a new meaning, but for a folder made anew.
LEMMA EditsKeep ==
  ASSUME MailInv, Edits
  PROVE  MailInv' /\ \A c \in Calls : Shown(c) /\ Steady(c) => Shown(c)'
<1>0. /\ \A f \in Folders : mail[f] \in SUBSET Mails /\ IsFiniteSet(mail[f]) /\ next[f] \in Nat
      /\ DOMAIN mail = Folders /\ DOMAIN next = Folders
  BY DEF MailInv
<1>1. CASE NoChange
  BY <1>1 DEF NoChange, MailInv, Shown, Steady
<1>2. ASSUME NEW f \in Folders, NEW g \in Folders, Gains(f, g)
      PROVE  MailInv' /\ \A c \in Calls : Shown(c) /\ Steady(c) => Shown(c)'
  BY <1>2, GainsKeep DEF Steady
<1>3. ASSUME NEW f \in Folders, NEW X \in SUBSET mail[f], NEW g \in Folders, Move(X, f, g)
      PROVE  Gains(f, g)
  <2>1. X \in SUBSET Mails /\ IsFiniteSet(X)
    BY <1>0, FS_Subset
  <2>2. /\ Filed(X, g) \in SUBSET Mails /\ IsFiniteSet(Filed(X, g)) /\ Cardinality(X) \in Nat
        /\ \A m \in Filed(X, g) : m.uid >= next[g]
    BY <2>1, FiledMails
  <2>3. QED
    BY <1>3, <2>2 DEF Move, Gains
<1>4. ASSUME NEW f \in Folders, NEW X \in SUBSET Mails, IsFiniteSet(X), Copy(X, f)
      PROVE  Gains(f, f)
  <2>1. /\ Filed(X, f) \in SUBSET Mails /\ IsFiniteSet(Filed(X, f)) /\ Cardinality(X) \in Nat
        /\ \A m \in Filed(X, f) : m.uid >= next[f]
    BY <1>4, FiledMails
  <2>2. mail' = [mail EXCEPT ![f] = @ \ {}, ![f] = @ \cup Filed(X, f)]
    BY <1>0, <1>4 DEF Copy
  <2>3. next' = [next EXCEPT ![f] = @ + Cardinality(X)] /\ UNCHANGED <<exists, reborn>>
    BY <1>4 DEF Copy
  <2>4. QED
    BY <2>1, <2>2, <2>3 DEF Gains
<1>5. ASSUME NEW f \in Folders, NEW X \in SUBSET mail[f], Expunge(X, f) \/ Mark(X, f)
      PROVE  MailInv' /\ \A c \in Calls : Shown(c) /\ Steady(c) => Shown(c)'
  <2>1. UNCHANGED <<exists, next, reborn>>
    BY <1>5 DEF Expunge, Mark
  <2> DEFINE Y == {[m EXCEPT !.mark = TRUE] : m \in X}
  <2>2. Y \in SUBSET Mails /\ \A y \in Y : \E m \in mail[f] : y.uid = m.uid /\ y.msg = m.msg
    <3>1. ASSUME NEW m \in X
          PROVE  LET y == [m EXCEPT !.mark = TRUE]
                 IN  y \in Mails /\ y.uid = m.uid /\ y.msg = m.msg
      <4>1. m \in Mails
        BY <1>0
      <4>2. QED
        BY <4>1 DEF Mails
    <3> HIDE DEF Mails
    <3>2. ASSUME NEW y \in Y
          PROVE  y \in Mails /\ \E m \in mail[f] : y.uid = m.uid /\ y.msg = m.msg
      <4>1. PICK m \in X : y = [m EXCEPT !.mark = TRUE]
        OBVIOUS
      <4>2. y \in Mails /\ y.uid = m.uid /\ y.msg = m.msg
        BY <3>1, <4>1
      <4>3. QED
        BY <4>2
    <3> HIDE DEF Y
    <3>3. QED
      BY <3>2
  <2>3. IsFiniteSet(Y)
    <3> DEFINE T == Y
               h == [m \in X |-> [m EXCEPT !.mark = TRUE]]
    <3>1. h \in Surjection(X, T)
      BY DEF Surjection
    <3>2. IsFiniteSet(X)
      BY <1>0, FS_Subset
    <3> HIDE DEF h, T
    <3>3. IsFiniteSet(T)
      BY <3>1, <3>2, FS_Surjection
    <3>4. QED
      BY <3>3 DEF T
  <2>4. mail' = [mail EXCEPT ![f] = @ \ X] \/ mail' = [mail EXCEPT ![f] = (@ \ X) \cup Y]
    BY <1>5 DEF Expunge, Mark
  <2> HIDE DEF Y
  <2>5. DOMAIN mail' = Folders /\ \A h \in Folders : h # f => mail'[h] = mail[h]
    BY <1>0, <2>4
  <2>6. mail'[f] \subseteq mail[f] \cup Y
    BY <1>0, <2>4
  <2>7. mail'[f] \in SUBSET Mails /\ IsFiniteSet(mail'[f])
    <3>1. IsFiniteSet(mail[f] \cup Y)
      BY <1>0, <2>3, FS_Union
    <3>2. QED
      BY <1>0, <2>2, <2>6, <3>1, FS_Subset
  <2>8. mail' \in [Folders -> SUBSET Mails]
    <3>1. mail' = [h \in Folders |-> mail'[h]]
      BY <1>0, <2>4
    <3>2. \A h \in Folders : mail'[h] \in SUBSET Mails
      BY <1>0, <2>5, <2>7
    <3>3. QED
      BY <3>1, <3>2
  <2>9. MailInv'
    BY <1>0, <2>1, <2>5, <2>7, <2>8 DEF MailInv
  <2>10. ASSUME NEW c \in Calls, Shown(c), Steady(c) PROVE Shown(c)'
    <3>1. \A y \in mail'[request[c].in] : \E m \in mail[request[c].in] : y.uid = m.uid /\ y.msg = m.msg
      BY <2>2, <2>5, <2>6, <2>10 DEF Steady
    <3>2. QED
      BY <2>1, <2>10, <3>1 DEF Shown, Steady
  <2>11. QED
    BY <2>9, <2>10
<1>6. ASSUME NEW d \in Calls, NEW g \in Folders, Append1(d, g)
      PROVE  Gains(g, g)
  <2> DEFINE X == {[uid |-> 0, msg |-> d, mark |-> FALSE]}
  <2>0. [uid |-> 0, msg |-> d, mark |-> FALSE] \in Mails
    BY DEF Mails
  <2>1. X \in SUBSET Mails /\ IsFiniteSet(X)
    <3>1. IsFiniteSet(X)
      BY FS_Singleton
    <3>2. QED
      BY <2>0, <3>1
  <2>2. Copy(X, g)
    BY <1>6 DEF Append1
  <2> HIDE DEF X
  <2>3. QED
    BY <1>4, <2>1, <2>2
<1>7. ASSUME NEW g \in Folders \ exists, CreateFolder(g)
      PROVE  MailInv' /\ \A c \in Calls : Shown(c) /\ Steady(c) => Shown(c)'
  <2>1. /\ exists' = exists \cup {g} /\ next' = [next EXCEPT ![g] = 1] /\ UNCHANGED <<mail, reborn>>
    BY <1>7 DEF CreateFolder
  <2>2. MailInv'
    BY <2>1 DEF MailInv
  <2>3. \A h \in Folders : h # g => next'[h] = next[h]
    BY <1>0, <2>1
  <2>4. QED
    BY <2>1, <2>2, <2>3 DEF Shown, Steady
<1>8. ASSUME NEW f \in Folders, DeleteFolder(f)
      PROVE  MailInv' /\ \A c \in Calls : Shown(c) /\ Steady(c) => Shown(c)'
  <2>1. /\ exists' = exists \ {f} /\ mail' = [mail EXCEPT ![f] = {}] /\ reborn' = reborn \cup {f}
        /\ next' = next
    BY <1>8 DEF DeleteFolder
  <2>2. \A h \in Folders : mail'[h] = (IF h = f THEN {} ELSE mail[h])
    BY <1>0, <2>1
  <2>3. MailInv'
    <3>1. IsFiniteSet({})
      BY FS_EmptySet
    <3>2. mail' \in [Folders -> SUBSET Mails]
      BY <2>1 DEF MailInv
    <3>3. \A h \in Folders : IsFiniteSet(mail'[h])
      BY <1>0, <2>2, <3>1
    <3>4. QED
      BY <2>1, <3>2, <3>3 DEF MailInv
  <2>4. QED
    BY <2>1, <2>2, <2>3 DEF Shown, Steady
<1>9. ASSUME NEW f \in Folders, NEW g \in Folders, RenameFolder(f, g)
      PROVE  MailInv' /\ \A c \in Calls : Shown(c) /\ Steady(c) => Shown(c)'
  <2>1. /\ exists' = (exists \ {f}) \cup {g} /\ mail' = [mail EXCEPT ![f] = {}, ![g] = mail[f]]
        /\ reborn' = reborn \cup {f, g} /\ next' = [next EXCEPT ![g] = next[f]]
    BY <1>9 DEF RenameFolder
  <2>2. \A h \in Folders : /\ mail'[h] = (IF h = g THEN mail[f] ELSE IF h = f THEN {} ELSE mail[h])
                           /\ h # g => next'[h] = next[h]
    BY <1>0, <2>1
  <2>3. MailInv'
    <3>1. IsFiniteSet({})
      BY FS_EmptySet
    <3>2. mail' \in [Folders -> SUBSET Mails] /\ next' \in [Folders -> Nat]
      BY <1>0, <2>1 DEF MailInv
    <3>3. \A h \in Folders : IsFiniteSet(mail'[h])
      BY <1>0, <2>2, <3>1
    <3>4. exists' \subseteq Folders /\ reborn' \subseteq Folders
      BY <2>1 DEF MailInv
    <3>5. QED
      BY <3>2, <3>3, <3>4 DEF MailInv
  <2>4. ASSUME NEW c \in Calls, Shown(c), Steady(c) PROVE Shown(c)'
    <3>1. PICK h \in Folders : h = request[c].in
      BY <2>4 DEF Steady
    <3>2. request'[c] = request[c] /\ meant'[c] = meant[c]
      BY <2>4 DEF Steady
    <3>3. SUFFICES ASSUME h \notin reborn'
                   PROVE  /\ h \in exists'
                          /\ \A id \in request[c].ids : id < next'[h]
                          /\ \A m \in mail'[h] : m.uid \in request[c].ids => m.msg \in meant[c]
      BY <3>1, <3>2 DEF Shown
    <3>4. h \notin reborn /\ h # f /\ h # g
      BY <2>1, <3>3
    <3>5. mail'[h] = mail[h] /\ next'[h] = next[h] /\ (h \in exists => h \in exists')
      BY <2>1, <2>2, <3>4
    <3>6. /\ h \in exists
          /\ \A id \in request[c].ids : id < next[h]
          /\ \A m \in mail[h] : m.uid \in request[c].ids => m.msg \in meant[c]
      BY <2>4, <3>1, <3>4 DEF Shown
    <3>7. QED
      BY <3>5, <3>6
  <2>5. QED
    BY <2>3, <2>4
<1>10. ASSUME NEW f \in Folders, NEW X \in SUBSET mail[f], NEW g \in Folders, Copy(X, g)
       PROVE  Gains(g, g)
  <2>1. X \in SUBSET Mails /\ IsFiniteSet(X)
    BY <1>0, FS_Subset
  <2>2. QED
    BY <1>4, <1>10, <2>1
<1>11. QED
  BY <1>1, <1>2, <1>3, <1>5, <1>6, <1>7, <1>8, <1>9, <1>10 DEF Edits

\* What a call sees and touches of the mail.
Sees(c, X) ==
  /\ touched' = [touched EXCEPT ![c] = @ \cup Of(X)]
  /\ \/ knows' = knows
     \/ knows' = [knows EXCEPT ![c].listed = exists]
     \/ knows' = [knows EXCEPT ![c].found = @ \cup {box}] /\ box \in Folders
     \/ \E m \in X : knows' = [knows EXCEPT ![c].read = m.msg]

WorldStep(c) ==
  /\ Edits /\ UNCHANGED <<meant, taken>>
  /\ \E X : /\ Sees(c, X)
            /\ \/ X = {}
               \/ X = Here(c) /\ box = request[c].in
               \/ X = Copies(c) /\ box \in Folders

Sights ==
  [listed : SUBSET Folders, read : Messages \cup Calls \cup {None}, found : SUBSET Folders]
TouchInv ==
  /\ knows \in [Calls -> Sights] /\ touched \in [Calls -> SUBSET (Messages \cup Calls)]
  /\ \A c \in Calls : /\ Shown(c)
                      /\ knows[c].read \in touched[c] \cup {None}
  /\ ActsOnMeant

\* Whoever names a message by UID, or works in the mailbox that is open, has it open.
LEMMA InOwnBox ==
  ASSUME LockInv, NEW c \in Calls, Live(c)
  PROVE  /\ At(c, ByUid) => box = request[c].in /\ box \in Folders
         /\ At(c, InBox) => box \in Folders
<1>1. PICK f \in Modes : Path(c, f) /\ Holds(c, f)
  BY DEF LockInv, PlaceInv
<1>2. todo[c] # <<>> => Fits(Head(todo[c]), f, request[c].in)
  BY <1>1, ShapeTail DEF Path
<1>3. request[c].in \in Folders /\ request[c].in # None
  BY RequestFields, FolderNames DEF LockInv, CoreInv
<1>4. f # None => box = f /\ f \in Folders
  BY <1>1 DEF Holds, Modes
<1>5. QED
  BY <1>2, <1>3, <1>4 DEF At, Fits

LEMMA StepTo ==
  ASSUME LockInv, NEW c \in Calls, todo[c] # <<>>
  PROVE  Step(c).in \in Names /\ Step(c).to \in Names
<1>1. PICK f \in Modes : Path(c, f)
  BY DEF LockInv, PlaceInv
<1>2. Step(c) \in StepType
  BY <1>1, ShapeTail DEF Path, Step
<1>3. QED
  BY <1>2 DEF StepType

LEMMA WorldSteps ==
  ASSUME LockInv, MailInv, TouchInv, NEW c \in Calls, Goes(c)
  PROVE  WorldStep(c)
<1> USE DEF keptVars, fixedVars, worldVars, serverVars
<1>a. ASSUME NoChange, UNCHANGED <<meant, taken, knows, touched>>
      PROVE  WorldStep(c)
  <2>1. touched' = [touched EXCEPT ![c] = @ \cup Of({})]
    BY <1>a DEF TouchInv, Of
  <2>2. Sees(c, {})
    BY <1>a, <2>1 DEF Sees
  <2>3. QED
    BY <1>a, <2>2 DEF WorldStep, Edits
<1>b. ASSUME Edits, NEW X,
             (X = Here(c) /\ box = request[c].in) \/ (X = Copies(c) /\ box \in Folders),
             Touches(c, X), UNCHANGED <<meant, taken>>,
             UNCHANGED knows \/ \E m \in X : knows' = [knows EXCEPT ![c].read = m.msg]
      PROVE  WorldStep(c)
  BY <1>b DEF Touches, Sees, WorldStep
<1>c. ASSUME Edits, UNCHANGED <<meant, taken, knows, touched>>
      PROVE  WorldStep(c)
  <2>1. touched' = [touched EXCEPT ![c] = @ \cup Of({})]
    BY <1>c DEF TouchInv, Of
  <2>2. Sees(c, {})
    BY <1>c, <2>1 DEF Sees
  <2>3. QED
    BY <1>c, <2>2 DEF WorldStep
<1>1. CASE Answer(c) \/ Refuse(c) \/ CheckRateLimit(c) \/ GetImapClient(c) \/ ConnectFails(c)
           \/ GetStrategy(c) \/ Detected(c) \/ AskForLock(c) \/ GetLock(c) \/ LockTimeout(c)
           \/ Release(c)
  BY <1>a, <1>1 DEF Answer, Refuse, CheckRateLimit, GetImapClient, ConnectFails, GetStrategy,
                    Detected, AskForLock, GetLock, LockTimeout, Release, NoChange
<1>2. CASE Look(c) \/ ScanFinds(c) \/ ScanEmpty(c) \/ OpenFetch(c) \/ CloseFetch(c)
           \/ FolderAllowed(c) \/ SpreadSearch(c)
  BY <1>a, <1>2 DEF Look, ScanFinds, ScanEmpty, OpenFetch, CloseFetch, FolderAllowed, SpreadSearch,
                    ReadOk, Ends
<1>3. CASE Rejected(c) \/ DraftKept(c) \/ Hangs(c) \/ NoConnection(c) \/ Deliver(c) \/ SendFails(c)
  BY <1>a, <1>3 DEF Rejected, DraftKept, Hangs, NoConnection, Deliver, SendFails, NoChange
<1>4. CASE ReadElsewhere(c) \/ FailsElsewhere(c) \/ SaveFile(c) \/ ChangeScripts(c)
           \/ FindExistingEvent(c) \/ WriteToApp(c) \/ WriteOffMac(c)
  BY <1>a, <1>4 DEF ReadElsewhere, FailsElsewhere, SaveFile, ChangeScripts, Aside,
                    FindExistingEvent, WriteToApp, WriteOffMac, Apart, NoChange
<1>5. CASE ListFolders(c)
  <2>1. touched' = [touched EXCEPT ![c] = @ \cup Of({})]
    BY <1>5 DEF ListFolders, TouchInv, Of
  <2>2. Sees(c, {})
    BY <1>5, <2>1 DEF Sees, ListFolders
  <2>3. Edits /\ UNCHANGED <<meant, taken>>
    BY <1>5 DEF ListFolders, ReadOk, Ends, Edits
  <2>4. QED
    BY <2>2, <2>3 DEF WorldStep
<1>6. CASE SearchFolder(c)
  <2>1. touched' = [touched EXCEPT ![c] = @ \cup Of({})]
    BY <1>6 DEF SearchFolder, TouchInv, Of
  <2>2. box \in Folders
    BY <1>6, InOwnBox DEF SearchFolder, Runs, At, InBox
  <2>3. knows' = knows \/ knows' = [knows EXCEPT ![c].found = @ \cup {box}]
    BY <1>6 DEF SearchFolder, TouchInv, Sights
  <2>4. Sees(c, {})
    BY <2>1, <2>2, <2>3 DEF Sees
  <2>5. Edits /\ UNCHANGED <<meant, taken>>
    BY <1>6 DEF SearchFolder, ReadOk, Ends, Edits
  <2>6. QED
    BY <2>4, <2>5 DEF WorldStep
<1>7. CASE Fetch(c)
  <2>1. box = request[c].in
    BY <1>7, InOwnBox DEF Fetch, Runs, At, ByUid
  <2>2. \E m \in Here(c) : knows' = [knows EXCEPT ![c].read = m.msg]
    BY <1>7 DEF Fetch
  <2>3. Edits /\ UNCHANGED <<meant, taken>> /\ Touches(c, Here(c))
    BY <1>7 DEF Fetch, ReadOk, Ends, Edits
  <2>4. Sees(c, Here(c))
    BY <2>2, <2>3 DEF Sees, Touches
  <2>5. QED
    BY <2>1, <2>3, <2>4 DEF WorldStep
<1>8. CASE MoveMessages(c) \/ DeleteMessages(c) \/ MarkMessages(c) \/ CopyMessages(c)
  <2>1. box = request[c].in /\ box \in Folders /\ Here(c) \in SUBSET mail[box]
    BY <1>8, InOwnBox DEF MoveMessages, DeleteMessages, MarkMessages, CopyMessages, Runs, At, ByUid, Here
  <2>2. Touches(c, Here(c)) /\ UNCHANGED <<meant, taken, knows>>
    BY <1>8 DEF MoveMessages, DeleteMessages, MarkMessages, CopyMessages, DoneBy, Done
  <2>3. Edits
    <3>1. \/ Step(c).to \in exists /\ (Move(Here(c), box, Step(c).to) \/ Copy(Here(c), Step(c).to))
          \/ Expunge(Here(c), box) \/ Mark(Here(c), box)
      BY <1>8 DEF MoveMessages, DeleteMessages, MarkMessages, CopyMessages
    <3>2. exists \subseteq Folders
      BY DEF MailInv
    <3>3. QED
      BY <2>1, <3>1, <3>2 DEF Edits
  <2>4. QED
    BY <1>b, <2>1, <2>2, <2>3
<1>9. CASE DeleteCopies(c)
  <2>1. box \in Folders /\ Copies(c) \in SUBSET mail[box]
    BY <1>9, InOwnBox DEF DeleteCopies, Runs, At, InBox, Copies
  <2>2. Touches(c, Copies(c)) /\ UNCHANGED <<meant, taken, knows>> /\ Expunge(Copies(c), box)
    BY <1>9 DEF DeleteCopies, DoneBy, Done
  <2>3. Edits
    BY <2>1, <2>2 DEF Edits
  <2>4. QED
    BY <1>b, <2>1, <2>2, <2>3
<1>10. CASE CreateMissingMailbox(c) \/ MailboxCreate(c)
  <2>1. Step(c).in \in Folders
    BY <1>10, MadeFolder DEF CreateMissingMailbox, MailboxCreate, Runs, At
  <2>2. NoChange \/ (Step(c).in \notin exists /\ CreateFolder(Step(c).in))
    BY <1>10 DEF CreateMissingMailbox, MailboxCreate
  <2>3. Edits
    BY <2>1, <2>2 DEF Edits
  <2>4. UNCHANGED <<meant, taken, knows, touched>>
    BY <1>10 DEF CreateMissingMailbox, MailboxCreate, Done
  <2>5. QED
    BY <1>c, <2>3, <2>4
<1>11. CASE AppendMessage(c)
  <2>1. Edits
    BY <1>11 DEF AppendMessage, Edits, MailInv
  <2>2. UNCHANGED <<meant, taken, knows, touched>>
    BY <1>11 DEF AppendMessage, Done
  <2>3. QED
    BY <1>c, <2>1, <2>2
<1>12. CASE MailboxRename(c)
  <2>1. Edits
    BY <1>12, MadeFolder DEF MailboxRename, Runs, At, Edits, MailInv
  <2>2. UNCHANGED <<meant, taken, knows, touched>>
    BY <1>12 DEF MailboxRename, Done
  <2>3. QED
    BY <1>c, <2>1, <2>2
<1>13. CASE MailboxDelete(c)
  <2>1. Edits
    BY <1>13 DEF MailboxDelete, Edits, MailInv
  <2>2. UNCHANGED <<meant, taken, knows, touched>>
    BY <1>13 DEF MailboxDelete, Done
  <2>3. QED
    BY <1>c, <2>1, <2>2
<1>14. QED
  BY <1>1, <1>2, <1>3, <1>4, <1>5, <1>6, <1>7, <1>8, <1>9, <1>10, <1>11, <1>12, <1>13 DEF Goes

LEMMA EditsGrow ==
  ASSUME Edits
  PROVE  reborn \subseteq reborn'
BY DEF Edits, NoChange, Move, Copy, Append1, Expunge, Mark, CreateFolder, DeleteFolder, RenameFolder

LEMMA ShownSteady ==
  ASSUME LockInv, NEW d \in Calls, UNCHANGED <<request, meant>>
  PROVE  Steady(d)
  BY RequestFields DEF LockInv, CoreInv, Steady

\* A call touches only what its caller was shown under the ids it names.
LEMMA TouchKept ==
  ASSUME LockInv, MailInv, TouchInv, NEW c \in Calls, WorldStep(c), request' = request
  PROVE  MailInv' /\ TouchInv'
<1>1. Edits /\ UNCHANGED <<meant, taken>>
  BY DEF WorldStep
<1>2. PICK X : /\ Sees(c, X)
               /\ \/ X = {}
                  \/ X = Here(c) /\ box = request[c].in
                  \/ X = Copies(c) /\ box \in Folders
  BY DEF WorldStep
<1>3. MailInv' /\ \A d \in Calls : Shown(d)'
  BY <1>1, EditsKeep, ShownSteady DEF TouchInv
<1>4. \A d \in Calls : request[d].in \in Folders
  BY RequestFields DEF LockInv, CoreInv
<1>5. X \in SUBSET Mails
  <2>1. Here(c) \subseteq mail[box] /\ Copies(c) \subseteq mail[box]
    BY DEF Here, Copies
  <2>2. box \in Folders => mail[box] \in SUBSET Mails
    BY DEF MailInv
  <2>3. QED
    BY <1>2, <1>4, <2>1, <2>2
<1>6. Of(X) \in SUBSET (Messages \cup Calls) /\ \A m \in X : m.msg \in Of(X)
  BY <1>5 DEF Of, Mails
<1>7. touched' = [touched EXCEPT ![c] = @ \cup Of(X)]
  BY <1>2 DEF Sees
<1>8. touched' \in [Calls -> SUBSET (Messages \cup Calls)]
  BY <1>6, <1>7 DEF TouchInv
<1>9. \/ knows' = knows
      \/ knows' = [knows EXCEPT ![c].listed = exists]
      \/ knows' = [knows EXCEPT ![c].found = @ \cup {box}] /\ box \in Folders
      \/ \E m \in X : knows' = [knows EXCEPT ![c].read = m.msg]
  BY <1>2 DEF Sees
<1>10. knows' \in [Calls -> Sights]
       /\ \A d \in Calls : knows'[d].read \in {knows[d].read} \cup (IF d = c THEN Of(X) ELSE {})
  <2>0. knows \in [Calls -> Sights] /\ exists \in SUBSET Folders
    BY DEF TouchInv, MailInv
  <2>1. CASE knows' = knows
    BY <2>0, <2>1
  <2>2. CASE knows' = [knows EXCEPT ![c].listed = exists]
    BY <2>0, <2>2 DEF Sights
  <2>3. CASE knows' = [knows EXCEPT ![c].found = @ \cup {box}] /\ box \in Folders
    BY <2>0, <2>3 DEF Sights
  <2>4. CASE \E m \in X : knows' = [knows EXCEPT ![c].read = m.msg]
    <3>1. PICK x : x \in Of(X) /\ knows' = [knows EXCEPT ![c].read = x]
      BY <1>6, <2>4
    <3>2. x \in Messages \cup Calls \cup {None}
      BY <1>6, <3>1
    <3>3. QED
      BY <2>0, <3>1, <3>2 DEF Sights
  <2>5. QED
    BY <1>9, <2>1, <2>2, <2>3, <2>4
<1>11. \A d \in Calls : knows'[d].read \in touched'[d] \cup {None}
  BY <1>7, <1>10 DEF TouchInv
<1>12. ActsOnMeant'
  <2>1. SUFFICES ASSUME NEW d \in Calls, request[d].in \notin reborn'
                 PROVE  touched'[d] \subseteq meant[d]
    BY <1>1 DEF ActsOnMeant
  <2>2. request[d].in \notin reborn /\ touched[d] \subseteq meant[d]
    BY <1>1, <2>1, EditsGrow DEF TouchInv, ActsOnMeant
  <2>3. CASE d # c
    BY <1>7, <2>2, <2>3 DEF TouchInv
  <2>4. CASE d = c /\ X = {}
    BY <1>7, <2>2, <2>4 DEF TouchInv, Of
  <2>5. CASE d = c /\ X = Here(c) /\ box = request[c].in
    <3>1. \A m \in X : m.msg \in meant[c]
      BY <2>2, <2>5 DEF TouchInv, Shown, Here
    <3>2. QED
      BY <1>7, <2>2, <2>5, <3>1 DEF TouchInv, Of
  <2>6. CASE d = c /\ X = Copies(c)
    <3>1. \A m \in X : m.msg = knows[c].read
      BY <2>6 DEF Copies
    <3>2. Of(X) \subseteq touched[c]
      BY <1>6, <3>1, NoneIsNothing DEF TouchInv, Of
    <3>3. QED
      BY <1>7, <2>2, <2>6, <3>2 DEF TouchInv
  <2>7. QED
    BY <1>2, <2>3, <2>4, <2>5, <2>6
<1>13. QED
  BY <1>3, <1>8, <1>10, <1>11, <1>12 DEF TouchInv

LEMMA MailInit ==
  ASSUME Init
  PROVE  MailInv /\ TouchInv /\ taken = {}
<1>1. PICK case \in Cases : /\ site = case.site /\ mail = case.mail /\ exists = case.exists
                            /\ request = case.request /\ others = case.others
  BY DEF Init
<1>2. /\ next = [f \in Folders |-> 1 + Cardinality(mail[f])] /\ reborn = {} /\ taken = {}
      /\ knows = [c \in Calls |-> Nothing] /\ touched = [c \in Calls |-> {}]
      /\ \A c \in Calls : request[c].in \in exists
      /\ meant = [c \in Calls |-> Of({m \in mail[request[c].in] : m.uid \in request[c].ids})]
  BY DEF Init
<1>3. /\ mail \in [Folders -> SUBSET [uid : Nat, msg : Messages, mark : BOOLEAN]]
      /\ \A f \in Folders : IsFiniteSet(mail[f])
      /\ exists \subseteq Folders
  BY <1>1, CasesOK
<1>4. \A c \in Calls : Accepted(request[c]) /\ \A id \in request[c].ids : id <= Cardinality(mail[request[c].in])
  <2>1. \A c \in Calls : LET r == case.request[c]
                         IN  /\ Accepted(r)
                             /\ r.in \in case.exists => \A id \in r.ids : id <= Cardinality(case.mail[r.in])
    BY CasesOK
  <2>2. QED
    BY <1>1, <1>2, <2>1
<1>5. \A f \in Folders : Cardinality(mail[f]) \in Nat
  BY <1>3, FS_CardinalityType
<1>6. MailInv
  <2>1. mail \in [Folders -> SUBSET Mails]
    BY <1>3 DEF Mails
  <2>2. QED
    BY <1>2, <1>3, <1>5, <2>1 DEF MailInv
<1>7. \A c \in Calls : Shown(c)
  <2>1. SUFFICES ASSUME NEW c \in Calls
                 PROVE  /\ \A id \in request[c].ids : id < next[request[c].in]
                        /\ \A m \in mail[request[c].in] : m.uid \in request[c].ids => m.msg \in meant[c]
    BY <1>2 DEF Shown
  <2>2. request[c].in \in Folders /\ request[c].ids \in SUBSET Nat
    BY <1>4, RequestFields
  <2>3. next[request[c].in] = 1 + Cardinality(mail[request[c].in])
    BY <1>2, <2>2
  <2>4. \A id \in request[c].ids : id < next[request[c].in]
    BY <1>4, <1>5, <2>2, <2>3
  <2>5. QED
    BY <1>2, <2>4 DEF Of
<1>8. knows \in [Calls -> Sights] /\ \A c \in Calls : knows[c].read = None
  <2>1. Nothing \in Sights /\ Nothing.read = None
    BY DEF Nothing, Sights
  <2>2. QED
    BY <1>2, <2>1
<1>9. TouchInv
  BY <1>2, <1>7, <1>8 DEF TouchInv, ActsOnMeant
<1>10. QED
  BY <1>2, <1>6, <1>9

LEMMA MailStep ==
  ASSUME LockInv, MailInv, TouchInv, [Next]_vars
  PROVE  MailInv' /\ TouchInv'
<1>1. ASSUME Edits, UNCHANGED <<request, meant, knows, touched>>
      PROVE  MailInv' /\ TouchInv'
  <2>1. MailInv' /\ \A d \in Calls : Shown(d)'
    BY <1>1, EditsKeep, ShownSteady DEF TouchInv
  <2>2. ActsOnMeant'
    BY <1>1, EditsGrow DEF TouchInv, ActsOnMeant
  <2>3. QED
    BY <1>1, <2>1, <2>2 DEF TouchInv
<1>2. CASE Outside
  <2>1. Edits
    <3>1. CASE Drop
      BY <3>1 DEF Drop, Edits, NoChange
    <3>2. CASE OtherClient
      <4>1. {"INBOX", "Work", "Drafts", "Sent", "New"} \subseteq Folders
        BY DEF Folders, SpecialUse
      <4>2. ASSUME NEW f \in Folders, NEW m \in mail[f], NEW g \in Folders, Move({m}, f, g)
            PROVE  Edits
        BY <4>2 DEF Edits
      <4>3. ASSUME NEW f \in Folders, NEW m \in mail[f], Expunge({m}, f)
            PROVE  Edits
        BY <4>3 DEF Edits
      <4>4. ASSUME NEW g \in Folders \ exists, CreateFolder(g)
            PROVE  Edits
        BY <4>4 DEF Edits
      <4>5. \/ \E f, g \in {"INBOX", "Work"} \cap exists : \E m \in mail[f] : Move({m}, f, g)
            \/ \E f \in {"INBOX", "Drafts"} : \E m \in mail[f] : Expunge({m}, f)
            \/ \E f \in {"Drafts", "Sent", "Work", "New"} \ exists : CreateFolder(f)
        BY <3>2 DEF OtherClient
      <4>6. QED
        BY <4>1, <4>2, <4>3, <4>4, <4>5
    <3>3. QED
      BY <1>2, <3>1, <3>2 DEF Outside
  <2>2. UNCHANGED <<request, meant, knows, touched>>
    BY <1>2 DEF Outside, keptVars, fixedVars
  <2>3. QED
    BY <1>1, <2>1, <2>2
<1>3. CASE UNCHANGED vars
  <2>1. NoChange /\ UNCHANGED <<request, meant, knows, touched>>
    BY <1>3 DEF vars, serverVars, keptVars, fixedVars, NoChange
  <2>2. QED
    BY <1>1, <2>1 DEF Edits
<1>4. ASSUME NEW c \in Calls, Goes(c)
      PROVE  MailInv' /\ TouchInv'
  <2>1. WorldStep(c) /\ request' = request
    BY <1>4, WorldSteps, StepKinds DEF StepKind
  <2>2. QED
    BY <2>1, TouchKept
<1>5. QED
  BY <1>2, <1>3, <1>4 DEF Next

\* Whatever other calls and other clients do meanwhile, a call acts on the messages that its
\* caller was shown under the UIDs it names: it has its own folder open when it names them
\* (withMailbox of imap.service.ts), and a UID is not given twice in a folder that stays.
THEOREM ActsOnWhatWasMeant == Spec => []ActsOnMeant
<1>1. TouchInv => ActsOnMeant
  BY DEF TouchInv
<1>2. QED
  BY <1>1, MailInit, MailStep, LocksHeld, PTL DEF Spec

(***************************************************************************)
(* The desktop, the file at savePath and the Sieve scripts.                *)
(***************************************************************************)

Asides == {"openNew", "writeFile", "putScript", "deleteScript", "setActive"} \cup Final

\* Who changes them: a step of their own, and every other one leaves them.
SideKind(c) ==
  \/ Answer(c) /\ side' = side
  \/ /\ todo[c] # <<>>
     /\ \/ Throws(c) /\ side' = side
        \/ side' = side /\ ~At(c, {"refuse"} \cup Asides)
        \/ SaveFile(c) \/ ChangeScripts(c)
        \/ FindExistingEvent(c) \/ WriteToApp(c) \/ WriteOffMac(c)

LEMMA SideKinds ==
  ASSUME LockInv, NEW c \in Calls, Goes(c)
  PROVE  SideKind(c)
<1> USE DEF keptVars
<1>a. ASSUME NEW D, At(c, D), D \cap ({"refuse"} \cup Asides) = {}, side' = side
      PROVE  SideKind(c)
  BY <1>a DEF SideKind, At
<1>b. ASSUME NEW D, At(c, D), Throws(c), side' = side
      PROVE  SideKind(c)
  BY <1>b DEF SideKind, At
<1>c. c \in Range(waiting) => At(c, {"lock"})
  BY DEF LockInv, LineInv
<1>1. CASE Answer(c)
  BY <1>1 DEF Answer, SideKind
<1>2. CASE Refuse(c) \/ ConnectFails(c) \/ Rejected(c) \/ NoConnection(c) \/ SendFails(c)
  BY <1>2, <1>b DEF Refuse, ConnectFails, Rejected, NoConnection, SendFails, Fails, Runs
<1>3. CASE FailsElsewhere(c)
  BY <1>3, <1>b DEF FailsElsewhere, Fails
<1>4. CASE CheckRateLimit(c) \/ GetImapClient(c) \/ GetStrategy(c) \/ Detected(c) \/ AskForLock(c)
           \/ Release(c)
  <2>1. At(c, {"rate", "client", "strategy", "sharing", "detected", "lock", "release"})
    BY <1>4 DEF CheckRateLimit, GetImapClient, GetStrategy, Detected, AskForLock, Release, At
  <2>2. side' = side
    BY <1>4 DEF CheckRateLimit, GetImapClient, GetStrategy, Detected, AskForLock, Release
  <2>3. QED
    BY <1>a, <2>1, <2>2 DEF Asides, Final
<1>5. CASE GetLock(c) \/ LockTimeout(c)
  <2>1. side' = side
    BY <1>5 DEF GetLock, LockTimeout
  <2>2. c \in Range(waiting)
    <3>1. waiting \in Seq(Calls)
      BY DEF LockInv, LineInv
    <3>2. CASE GetLock(c)
      <4>1. 1 \in DOMAIN waiting /\ waiting[1] = c
        BY <3>1, <3>2 DEF GetLock
      <4>2. QED
        BY <4>1 DEF Range
    <3>3. CASE LockTimeout(c)
      BY <3>3 DEF LockTimeout, Range
    <3>4. QED
      BY <1>5, <3>2, <3>3
  <2>3. At(c, {"lock"})
    BY <1>c, <2>2
  <2>4. QED
    BY <1>a, <2>1, <2>3 DEF Asides, Final
<1>6. CASE Look(c) \/ ScanFinds(c) \/ ScanEmpty(c) \/ Fetch(c) \/ OpenFetch(c) \/ CloseFetch(c)
           \/ ListFolders(c) \/ FolderAllowed(c) \/ SpreadSearch(c) \/ SearchFolder(c)
  <2>1. At(c, {"look", "scan", "fetch", "open", "close", "list", "real", "removable", "spread", "search"})
    BY <1>6 DEF Look, ScanFinds, ScanEmpty, Fetch, OpenFetch, CloseFetch, ListFolders, FolderAllowed,
                SpreadSearch, SearchFolder, Runs, At
  <2>2. side' = side
    BY <1>6 DEF Look, ScanFinds, ScanEmpty, Fetch, OpenFetch, CloseFetch, ListFolders, FolderAllowed,
                SpreadSearch, SearchFolder, ReadOk, Ends
  <2>3. QED
    BY <1>a, <2>1, <2>2 DEF Asides, Final
<1>7. CASE MoveMessages(c) \/ DeleteMessages(c) \/ MarkMessages(c) \/ CopyMessages(c)
           \/ DeleteCopies(c) \/ CreateMissingMailbox(c) \/ AppendMessage(c) \/ MailboxCreate(c)
           \/ MailboxRename(c) \/ MailboxDelete(c)
  <2>1. At(c, Changes)
    BY <1>7 DEF MoveMessages, DeleteMessages, MarkMessages, CopyMessages, DeleteCopies, Changes,
                CreateMissingMailbox, AppendMessage, MailboxCreate, MailboxRename, MailboxDelete, Runs, At
  <2>2. side' = side
    BY <1>7 DEF MoveMessages, DeleteMessages, MarkMessages, CopyMessages, DeleteCopies, Done, DoneBy,
                CreateMissingMailbox, AppendMessage, MailboxCreate, MailboxRename, MailboxDelete
  <2>3. QED
    BY <1>a, <2>1, <2>2 DEF Asides, Final, Changes
<1>8. CASE DraftKept(c) \/ Hangs(c)
  BY <1>8, <1>a DEF DraftKept, Hangs, Runs, Commands, Reads, Changes, Asides, Final
<1>9. CASE Deliver(c) \/ ReadElsewhere(c)
  <2>1. At(c, {"smtp", "ask", "readState", "readFile", "template", "sieveOpen", "listScripts",
               "getScript", "lstat"})
    BY <1>9 DEF Deliver, ReadElsewhere, At
  <2>2. side' = side
    BY <1>9 DEF Deliver, ReadElsewhere
  <2>3. QED
    BY <1>a, <2>1, <2>2 DEF Asides, Final
<1>10. CASE SaveFile(c) \/ ChangeScripts(c) \/ FindExistingEvent(c) \/ WriteToApp(c) \/ WriteOffMac(c)
  BY <1>10 DEF SaveFile, ChangeScripts, FindExistingEvent, WriteToApp, WriteOffMac, SideKind, At
<1>11. QED
  BY <1>1, <1>2, <1>3, <1>4, <1>5, <1>6, <1>7, <1>8, <1>9, <1>10 DEF Goes

(***************************************************************************)
(* Programs whose steps stand in no try.                                   *)
(***************************************************************************)

Straight(p, D) ==
  p \in Seq(StepType) /\ \A i \in 1 .. Len(p) : p[i].skip = 0 /\ p[i].do \in D

LEMMA StraightStep ==
  ASSUME NEW D, NEW op \in Ops, op \in D, NEW g \in Names, NEW h \in Names
  PROVE  /\ Straight(<<S(op, g)>>, D) /\ Straight(Do(op), D) /\ Straight(<<To(op, g, h)>>, D)
         /\ Len(<<S(op, g)>>) = 1 /\ <<S(op, g)>>[1].do = op
<1>1. PICK s \in StepType : s = S(op, g) /\ s.do = op /\ s.skip = 0
  BY StepFields
<1>2. PICK t \in StepType : t = To(op, g, h) /\ t.do = op /\ t.skip = 0
  BY StepFields
<1>3. PICK u \in StepType : u = S(op, None) /\ u.do = op /\ u.skip = 0
  BY StepFields, FolderNames
<1>4. \A x \in StepType : x.skip = 0 /\ x.do = op => Straight(<<x>>, D)
  BY DEF Straight
<1>5. QED
  BY <1>1, <1>2, <1>3, <1>4 DEF Do

LEMMA JoinFields ==
  ASSUME NEW p \in Seq(StepType), NEW q \in Seq(StepType)
  PROVE  /\ p \o q \in Seq(StepType) /\ Len(p \o q) = Len(p) + Len(q)
         /\ Len(p) \in Nat /\ Len(q) \in Nat
         /\ \A i \in 1 .. Len(p) : (p \o q)[i] = p[i]
         /\ \A i \in 1 .. Len(q) : (p \o q)[Len(p) + i] = q[i]
  OBVIOUS

LEMMA StraightJoin ==
  ASSUME NEW D, NEW p, NEW q, Straight(p, D), Straight(q, D)
  PROVE  Straight(p \o q, D)
<1>1. p \in Seq(StepType) /\ q \in Seq(StepType) /\ Len(p) \in Nat /\ Len(q) \in Nat
  BY DEF Straight
<1> DEFINE w == p \o q
<1>2. /\ w \in Seq(StepType) /\ Len(w) = Len(p) + Len(q)
      /\ \A i \in 1 .. Len(p) : w[i] = p[i]
      /\ \A i \in 1 .. Len(q) : w[Len(p) + i] = q[i]
  BY <1>1
<1> HIDE DEF w
<1>3. ASSUME NEW i \in 1 .. Len(w) PROVE w[i].skip = 0 /\ w[i].do \in D
  <2>1. CASE i <= Len(p)
    BY <1>1, <1>2, <2>1 DEF Straight
  <2>2. CASE ~(i <= Len(p))
    <3>1. i - Len(p) \in 1 .. Len(q) /\ Len(p) + (i - Len(p)) = i
      BY <1>1, <1>2, <2>2
    <3>2. w[i] = q[i - Len(p)]
      BY <1>2, <3>1
    <3>3. QED
      BY <3>1, <3>2 DEF Straight
  <2>3. QED
    BY <2>1, <2>2
<1>4. QED
  BY <1>2, <1>3 DEF Straight, w

LEMMA StraightUnder ==
  ASSUME NEW D, {"lock", "release"} \subseteq D, NEW f \in Folders, NEW p, Straight(p, D)
  PROVE  Straight(Under(f, p), D)
<1>1. {"lock", "release"} \subseteq Ops /\ f \in Names /\ None \in Names
  BY FolderNames DEF Ops, Quiet
<1>2. Straight(<<S("lock", f)>>, D) /\ Straight(Do("release"), D)
  BY <1>1, StraightStep
<1>3. QED
  BY <1>2, StraightJoin DEF Under

LEMMA StraightEmpty == \A D : Straight(<<>>, D)
  BY DEF Straight

(***************************************************************************)
(* savePath.                                                               *)
(***************************************************************************)

SaveOps == {"client", "lock", "fetch", "look", "release", "lstat"}

\* The file is made and written in the last two steps.
SavePath(p) ==
  /\ p \in Seq(StepType) /\ p # <<>>
  /\ \A i \in 1 .. Len(p) :
       /\ p[i].skip = 0
       /\ i = Len(p) => p[i].do = "writeFile"
       /\ i = Len(p) - 1 => p[i].do = "openNew"
       /\ i < Len(p) - 1 => p[i].do \in SaveOps

LEMMA SavePathTail ==
  ASSUME NEW p, SavePath(p)
  PROVE  /\ p # <<>> /\ Head(p).skip = 0 /\ Head(p).do \in SaveOps \cup {"openNew", "writeFile"}
         /\ Head(p).do = "writeFile" => Tail(p) = <<>>
         /\ Head(p).do = "openNew" => SavePath(Tail(p)) /\ Head(Tail(p)).do = "writeFile"
         /\ Head(p).do \in SaveOps => SavePath(Tail(p)) /\ Head(Tail(p)).do # "writeFile"
<1> DEFINE t == Tail(p)
<1>1. PICK n \in Nat : n = Len(p) /\ n >= 1
  BY EmptySeq DEF SavePath
<1>2. /\ p # <<>> /\ Head(p) = p[1]
      /\ t \in Seq(StepType) /\ Len(t) = n - 1 /\ \A i \in 1 .. n - 1 : t[i] = p[i + 1]
      /\ n > 1 => t # <<>> /\ Head(t) = p[2]
      /\ n = 1 => t = <<>>
  <2>1. p \in Seq(StepType) /\ p # <<>>
    BY DEF SavePath
  <2>2. t \in Seq(StepType) /\ Len(t) = n - 1 /\ Head(p) = p[1]
    BY <1>1, <2>1
  <2>3. \A i \in 1 .. n - 1 : t[i] = p[i + 1]
    BY <1>1, <2>1
  <2> HIDE DEF t
  <2>4. ASSUME n > 1 PROVE t # <<>> /\ Head(t) = p[2]
    <3>1. t # <<>> /\ Head(t) = t[1]
      BY <1>1, <2>2, <2>4
    <3>2. 1 \in 1 .. n - 1 /\ 1 + 1 = 2
      BY <1>1, <2>4
    <3>3. t[1] = p[2]
      BY <2>3, <3>2
    <3>4. QED
      BY <3>1, <3>3
  <2>5. n = 1 => t = <<>>
    BY <1>1, <2>2, EmptySeq
  <2>6. QED
    BY <2>1, <2>2, <2>3, <2>4, <2>5
<1>3. ASSUME NEW i \in 1 .. n
      PROVE  /\ p[i].skip = 0
             /\ i = n => p[i].do = "writeFile"
             /\ i = n - 1 => p[i].do = "openNew"
             /\ i < n - 1 => p[i].do \in SaveOps
  BY <1>1 DEF SavePath
<1> HIDE DEF t
<1>4. ASSUME n > 1 PROVE SavePath(t)
  <2>1. ASSUME NEW i \in 1 .. n - 1
        PROVE  /\ t[i].skip = 0
               /\ i = n - 1 => t[i].do = "writeFile"
               /\ i = (n - 1) - 1 => t[i].do = "openNew"
               /\ i < (n - 1) - 1 => t[i].do \in SaveOps
    <3>1. PICK j \in 1 .. n : j = i + 1 /\ j - 1 = i
      BY <1>1
    <3>2. t[i] = p[j]
      BY <1>2, <3>1
    <3>3. /\ i = n - 1 => j = n
          /\ i = (n - 1) - 1 => j = n - 1
          /\ i < (n - 1) - 1 => j < n - 1
      BY <1>1, <3>1
    <3>4. QED
      BY <1>3, <3>2, <3>3
  <2>2. QED
    BY <1>2, <1>4, <2>1 DEF SavePath
<1>5. CASE n = 1
  <2>1. Head(p).skip = 0 /\ Head(p).do = "writeFile" /\ t = <<>>
    BY <1>2, <1>3, <1>5
  <2>2. QED
    BY <1>2, <2>1 DEF SaveOps, t
<1>6. CASE n = 2
  <2>1. 1 \in 1 .. n /\ 1 = n - 1 /\ 2 \in 1 .. n /\ 2 = n
    BY <1>6
  <2>2. Head(p).skip = 0 /\ Head(p).do = "openNew" /\ p[2].do = "writeFile"
    BY <1>2, <1>3, <2>1
  <2>3. SavePath(t) /\ Head(t).do = "writeFile"
    BY <1>2, <1>4, <1>6, <2>2
  <2>4. QED
    BY <1>2, <2>2, <2>3 DEF SaveOps, t
<1>7. CASE n > 2
  <2>1. 1 \in 1 .. n /\ 1 < n - 1 /\ 2 \in 1 .. n /\ (2 = n - 1 \/ 2 < n - 1)
    BY <1>1, <1>7
  <2>2. Head(p).skip = 0 /\ Head(p).do \in SaveOps
    BY <1>2, <1>3, <2>1
  <2>3. p[2].do = "openNew" \/ p[2].do \in SaveOps
    BY <1>3, <2>1
  <2>4. n > 1
    BY <1>7
  <2>5. SavePath(t) /\ Head(t).do # "writeFile"
    BY <1>2, <1>4, <2>3, <2>4 DEF SaveOps
  <2>6. QED
    BY <1>2, <2>2, <2>5 DEF SaveOps, t
<1>8. n = 1 \/ n = 2 \/ n > 2
  BY <1>1
<1>9. QED
  BY <1>5, <1>6, <1>7, <1>8

\* A download and an export to a file.
LEMMA SaveProgram ==
  ASSUME NEW r, Accepted(r), r.save
  PROVE  \/ Program(r) = Do("refuse")
         \/ SavePath(Program(r)) /\ Head(Program(r)).do \in SaveOps
<1>1. r.tool \in Savers /\ r.in \in Folders /\ r.dry = FALSE /\ r.tool \in ReadTools
  BY RequestFields DEF Savers, DryRuns, ReadTools
<1> DEFINE X == IF r.tool = "export_email" THEN ExportEmail(r.in) ELSE DownloadAttachment(r.in)
<1>2. Program(r) \in {Do("refuse"), X \o WriteAttachmentFile}
  <2>1. CASE r.tool = "download_attachment"
    BY <1>1, <2>1 DEF Program, ReadTool, DownloadAttachmentTool, Tool, Saving
  <2>2. CASE r.tool = "export_email"
    BY <1>1, <2>2 DEF Program, ReadTool, ExportEmailTool, Tool, Saving
  <2>3. QED
    BY <1>1, <2>1, <2>2 DEF Savers
<1>3. /\ {"client", "lock", "fetch", "look", "release", "lstat", "openNew", "writeFile"} \subseteq Ops
      /\ None \in Names
  BY FolderNames DEF Ops, Quiet, Changing
<1>4. Straight(X, SaveOps)
  <2>1. Straight(Client, SaveOps) /\ Straight(Do("fetch"), SaveOps) /\ Straight(DownloadPart, SaveOps)
    BY <1>3, StraightStep DEF Client, DownloadPart, SaveOps
  <2>2. Straight(Do("fetch") \o DownloadPart, SaveOps) /\ Straight(Do("fetch") \o Do("fetch"), SaveOps)
    BY <2>1, StraightJoin
  <2>3. {"lock", "release"} \subseteq SaveOps
    BY DEF SaveOps
  <2>4. /\ Straight(Under(r.in, Do("fetch") \o DownloadPart), SaveOps)
        /\ Straight(Under(r.in, Do("fetch") \o Do("fetch")), SaveOps)
    BY <1>1, <2>2, <2>3, StraightUnder
  <2>5. QED
    BY <2>1, <2>4, StraightJoin DEF ExportEmail, DownloadAttachment
<1> HIDE DEF X
<1> DEFINE W == WriteAttachmentFile
           p == X \o W
<1>5. /\ W \in Seq(StepType) /\ Len(W) = 3 /\ \A i \in 1 .. 3 : W[i].skip = 0
      /\ W[1].do = "lstat" /\ W[2].do = "openNew" /\ W[3].do = "writeFile"
  <2>1. PICK a \in StepType : a = S("lstat", None) /\ a.do = "lstat" /\ a.skip = 0
    BY <1>3, StepFields
  <2>2. PICK b \in StepType : b = S("openNew", None) /\ b.do = "openNew" /\ b.skip = 0
    BY <1>3, StepFields
  <2>3. PICK d \in StepType : d = S("writeFile", None) /\ d.do = "writeFile" /\ d.skip = 0
    BY <1>3, StepFields
  <2>4. W = (<<a>> \o <<b>>) \o <<d>>
    BY <2>1, <2>2, <2>3 DEF WriteAttachmentFile, Do
  <2>5. W = <<a, b>> \o <<d>>
    BY <2>4, JoinOfTwo
  <2>6. W \in Seq(StepType) /\ Len(W) = 3 /\ W[1] = a /\ W[2] = b /\ W[3] = d
    BY <2>5
  <2>7. \A i \in 1 .. 3 : i = 1 \/ i = 2 \/ i = 3
    OBVIOUS
  <2>8. QED
    BY <2>1, <2>2, <2>3, <2>6, <2>7
<1> HIDE DEF W
<1>6. X \in Seq(StepType) /\ Len(X) \in Nat
  BY <1>4 DEF Straight
<1>7. /\ p \in Seq(StepType) /\ Len(p) = Len(X) + 3
      /\ \A i \in 1 .. Len(X) : p[i] = X[i]
      /\ \A i \in 1 .. 3 : p[Len(X) + i] = W[i]
  <2>1. W \in Seq(StepType) /\ Len(W) = 3
    BY <1>5
  <2> HIDE DEF p
  <2>2. /\ p \in Seq(StepType) /\ Len(p) = Len(X) + Len(W)
        /\ \A i \in 1 .. Len(X) : p[i] = X[i]
        /\ \A i \in 1 .. Len(W) : p[Len(X) + i] = W[i]
    BY <1>6, <2>1, JoinFields DEF p
  <2>3. QED
    BY <2>1, <2>2
<1> HIDE DEF p
<1>8. SavePath(p) /\ Head(p).do \in SaveOps
  <2>1. p # <<>>
    BY <1>6, <1>7
  <2>2. ASSUME NEW i \in 1 .. Len(p)
        PROVE  /\ p[i].skip = 0
               /\ i = Len(p) => p[i].do = "writeFile"
               /\ i = Len(p) - 1 => p[i].do = "openNew"
               /\ i < Len(p) - 1 => p[i].do \in SaveOps
    <3>1. CASE i \in 1 .. Len(X)
      <4>1. p[i].skip = 0 /\ p[i].do \in SaveOps
        BY <1>4, <1>7, <3>1 DEF Straight
      <4>2. i # Len(p) /\ i # Len(p) - 1
        BY <1>6, <1>7, <3>1
      <4>3. QED
        BY <4>1, <4>2
    <3>2. CASE i = Len(X) + 1
      <4>1. p[i] = W[1] /\ i # Len(p) /\ i # Len(p) - 1
        BY <1>6, <1>7, <3>2
      <4>2. QED
        BY <1>5, <4>1 DEF SaveOps
    <3>3. CASE i = Len(X) + 2
      <4>1. p[i] = W[2] /\ i # Len(p) /\ i = Len(p) - 1
        BY <1>6, <1>7, <3>3
      <4>2. QED
        BY <1>5, <4>1
    <3>4. CASE i = Len(X) + 3
      <4>1. p[i] = W[3] /\ i = Len(p)
        BY <1>6, <1>7, <3>4
      <4>2. QED
        BY <1>5, <1>6, <1>7, <4>1
    <3>5. QED
      BY <1>6, <1>7, <3>1, <3>2, <3>3, <3>4
  <2>3. SavePath(p)
    BY <1>7, <2>1, <2>2 DEF SavePath
  <2>4. 1 \in 1 .. Len(p) /\ 1 < Len(p) - 1 /\ Head(p) = p[1]
    BY <1>6, <1>7
  <2>5. QED
    BY <2>2, <2>3, <2>4
<1>9. QED
  BY <1>2, <1>8 DEF p, W

(***************************************************************************)
(* How a step of one call leaves another, and what a throw without a try   *)
(* leaves of its own.                                                      *)
(***************************************************************************)

LEMMA OthersReply ==
  ASSUME LockInv, NEW c \in Calls, StepKind(c), NEW d \in Calls, d # c
  PROVE  \/ todo'[d] = todo[d] /\ reply'[d] = reply[d]
         \/ At(d, {"sharing"}) /\ todo'[d] = <<>> /\ reply'[d] = "error"
<1>1. CASE todo[c] # <<>> /\ Throws(c)
  BY <1>1 DEF Throws, Propagates, Sharing, Over
<1>2. CASE Answer(c)
  BY <1>2 DEF Answer, LockInv, CoreInv
<1>3. CASE reply' = reply /\ (todo' = todo \/ \E q : todo' = [todo EXCEPT ![c] = q])
  BY <1>3 DEF LockInv, CoreInv
<1>4. QED
  BY <1>1, <1>2, <1>3 DEF StepKind, CallStep, Passes, Breaks, callVars

LEMMA ThrowEnds ==
  ASSUME LockInv, NEW c \in Calls, todo[c] # <<>>, Throws(c), Step(c).skip = 0
  PROVE  todo'[c] = <<>> /\ reply'[c] = "error"
  BY DEF Throws, Propagates, Left, Over

\* The steps that are not replaced by others.
Lasting == Ops \ ({"scan", "strategy", "spread"} \cup Final)

LEMMA LastingTail ==
  ASSUME LockInv, NEW c \in Calls, StepKind(c), At(c, Lasting)
  PROVE  \/ todo'[c] = todo[c] /\ reply'[c] = reply[c]
         \/ todo'[c] = Tail(todo[c]) /\ reply'[c] = reply[c]
         \/ Throws(c) /\ ~At(c, {"sharing"})
<1>1. CallStep(c)
  BY DEF StepKind, At, Answer
<1>2. ASSUME NEW q, Onward(c, q) PROVE q = Tail(todo[c])
  BY <1>2 DEF Onward, At, Lasting
<1>3. \/ UNCHANGED callVars
      \/ Throws(c) /\ ~At(c, {"sharing"})
      \/ todo' = [todo EXCEPT ![c] = Tail(todo[c])] /\ reply' = reply
  BY <1>1, <1>2 DEF CallStep, Passes, Breaks
<1>4. QED
  BY <1>3 DEF callVars, LockInv, CoreInv

LEMMA NoStepsLeft ==
  ASSUME LockInv, NEW c \in Calls, StepKind(c), todo[c] = <<>>
  PROVE  Answer(c)
  BY DEF StepKind, CallStep

\* What a call is at is a step its program may contain.
LEMMA StandsAt ==
  ASSUME LockInv, NEW c \in Calls, todo[c] # <<>>
  PROVE  /\ Step(c).do \in MayUse(request[c]) /\ Step(c) \in StepType /\ Tail(todo[c]) \in Seq(StepType)
         /\ Step(c).do \in {"putScript", "setActive"} => Step(c).in \in {"old", "new", None}
<1>1. PICK f \in Modes : Path(c, f)
  BY DEF LockInv, PlaceInv
<1>2. Fits(Step(c), f, request[c].in) /\ Step(c) \in StepType /\ Step(c).do \in MayUse(request[c])
  BY <1>1, ShapeTail DEF Path, Step
<1>3. todo[c] \in Seq(StepType)
  BY DEF LockInv, CoreInv
<1>4. QED
  BY <1>2, <1>3 DEF Fits

(***************************************************************************)
(* What the apps, the file and the scripts hold.                           *)
(***************************************************************************)

Statuses == {None, "added", "duplicate", "cancelled", "timed_out", "no_display"}
Scripts == {"old", "new", None}

SideInv ==
  /\ side \in [added : SUBSET Calls, status : [Calls -> Statuses],
               file : [by : Calls \cup {None}, whole : BOOLEAN],
               scripts : SUBSET Scripts, active : Scripts]
  /\ side.active \in side.scripts \cup {None}
  /\ side.file.whole => side.file.by # None

\* A call that saves a file: the one it made is its own until it is whole.
FileInv ==
  \A c \in Calls : request[c].save =>
    /\ todo[c] = <<>> \/ todo[c] = Do("refuse") \/ SavePath(todo[c])
    /\ At(c, {"writeFile"}) => side.file = [by |-> c, whole |-> FALSE]
    /\ todo[c] = <<>> /\ reply[c] # "error" => side.file = [by |-> c, whole |-> TRUE]

LEMMA OnlySaversSave ==
  ASSUME LockInv, NEW c \in Calls, At(c, {"openNew", "writeFile"})
  PROVE  request[c].save
<1>1. Step(c).do \in MayUse(request[c]) /\ Step(c).do \in {"openNew", "writeFile"}
  BY StandsAt DEF At, Step
<1>2. Step(c).do \notin Quiet
  BY <1>1 DEF Quiet
<1>3. Accepted(request[c])
  BY DEF LockInv, CoreInv
<1>4. request[c].tool \in ReadTools \/ request[c].tool \in WriteTools
  BY <1>3, RequestFields
<1>5. WriteOps(request[c]) \cap {"openNew", "writeFile"} = {} \/ request[c].tool \in ReadTools
  <2>1. CASE request[c].tool \in {"move_email", "delete_email", "mark_email", "bulk_action", "save_draft",
               "send_draft", "send_email", "apply_template", "reply_email", "forward_email", "add_label"}
    BY <2>1 DEF WriteOps, Sending
  <2>2. CASE request[c].tool \in {"remove_label", "create_label", "delete_label", "create_mailbox",
               "rename_mailbox", "delete_mailbox", "add_to_calendar", "create_reminder",
               "sieve_put_script", "sieve_delete_script", "sieve_activate_script"}
    BY <2>2 DEF WriteOps
  <2>3. QED
    BY <1>4, <2>1, <2>2 DEF WriteTools
<1>6. Step(c).do \in ReadOps(request[c])
  BY <1>1, <1>2, <1>5 DEF MayUse
<1>7. QED
  BY <1>1, <1>6 DEF ReadOps

LEMMA SideKept ==
  ASSUME LockInv, SideInv, FileInv, NEW c \in Calls, SideKind(c)
  PROVE  SideInv'
<1> USE NoneIsNothing
<1>1. CASE side' = side
  BY <1>1 DEF SideInv
<1>2. CASE SaveFile(c)
  <2>1. CASE At(c, {"openNew"}) /\ side' = [side EXCEPT !.file.by = c]
    BY <2>1 DEF SideInv
  <2>2. CASE At(c, {"writeFile"}) /\ side' = [side EXCEPT !.file.whole = TRUE]
    <3>0. request[c].save
      BY <2>2, OnlySaversSave DEF At
    <3>1. side.file = [by |-> c, whole |-> FALSE]
      BY <2>2, <3>0 DEF FileInv
    <3>2. side.file.by = c
      BY <3>1
    <3>3. side' = [side EXCEPT !.file = [side.file EXCEPT !.whole = TRUE]]
      BY <2>2
    <3>4. side'.file.by = c
      BY <3>2, <3>3 DEF SideInv
    <3>5. c # None
      OBVIOUS
    <3>6. QED
      BY <3>3, <3>4, <3>5 DEF SideInv
  <2>3. QED
    BY <1>2, <2>1, <2>2 DEF SaveFile
<1>3. CASE ChangeScripts(c)
  <2>1. todo[c] # <<>>
    BY <1>3 DEF ChangeScripts, At
  <2>2. CASE At(c, {"putScript"})
    <3>1. Script(c) \in Scripts /\ side' = [side EXCEPT !.scripts = @ \cup {Script(c)}]
      BY <1>3, <2>1, <2>2, StandsAt DEF ChangeScripts, At, Step, Script, Scripts
    <3>2. QED
      BY <3>1 DEF SideInv
  <2>3. CASE At(c, {"deleteScript"})
    <3>1. Script(c) # side.active /\ side' = [side EXCEPT !.scripts = @ \ {Script(c)}]
      BY <1>3, <2>3 DEF ChangeScripts, At, Barred
    <3>2. QED
      BY <3>1 DEF SideInv
  <2>4. CASE At(c, {"setActive"})
    <3>1. Script(c) \in Scripts /\ side' = [side EXCEPT !.active = Script(c)]
      BY <1>3, <2>1, <2>4, StandsAt DEF ChangeScripts, At, Step, Script, Scripts
    <3>2. Script(c) \in side.scripts \cup {None}
      BY <1>3, <2>4 DEF ChangeScripts, At, Barred
    <3>3. QED
      BY <3>1, <3>2 DEF SideInv
  <2>5. QED
    BY <1>3, <2>2, <2>3, <2>4 DEF ChangeScripts, At
<1>4. ASSUME NEW status \in Statuses, Ended(c, status) PROVE SideInv'
  BY <1>4 DEF Ended, SideInv
<1>5. ASSUME NEW wrote \in BOOLEAN, EndedUnheard(c, wrote) PROVE SideInv'
  BY <1>5 DEF EndedUnheard, SideInv, Statuses
<1>6. CASE FindExistingEvent(c) \/ WriteToApp(c) \/ WriteOffMac(c)
  <2>1. \/ side' = side \/ (\E status \in Statuses : Ended(c, status))
        \/ \E wrote \in BOOLEAN : EndedUnheard(c, wrote)
    BY <1>6 DEF FindExistingEvent, WriteToApp, WriteOffMac, Statuses
  <2>2. QED
    BY <1>1, <1>4, <1>5, <2>1
<1>7. QED
  BY <1>1, <1>2, <1>3, <1>6 DEF SideKind

LEMMA FileKept ==
  ASSUME LockInv, SideInv, FileInv, NEW c \in Calls, SideKind(c), StepKind(c)
  PROVE  FileInv'
<1> USE NoneIsNothing
<1>0. request' = request /\ Do("refuse")' = Do("refuse")
  BY DEF StepKind
<1>1. SUFFICES ASSUME NEW d \in Calls, request[d].save
               PROVE  /\ todo'[d] = <<>> \/ todo'[d] = Do("refuse") \/ SavePath(todo'[d])
                      /\ At(d, {"writeFile"})' => side'.file = [by |-> d, whole |-> FALSE]
                      /\ todo'[d] = <<>> /\ reply'[d] # "error" => side'.file = [by |-> d, whole |-> TRUE]
  BY <1>0 DEF FileInv
<1>2. /\ todo[d] = <<>> \/ todo[d] = Do("refuse") \/ SavePath(todo[d])
      /\ At(d, {"writeFile"}) => side.file = [by |-> d, whole |-> FALSE]
      /\ todo[d] = <<>> /\ reply[d] # "error" => side.file = [by |-> d, whole |-> TRUE]
  BY <1>1 DEF FileInv
<1>3. Head(Do("refuse")).do = "refuse" /\ Head(Do("refuse")).skip = 0 /\ Do("refuse") # <<>>
  BY DEF Do, S
<1>4. \/ /\ Head(todo[d]).skip = 0
         /\ Head(todo[d]).do \in SaveOps \cup {"openNew", "writeFile", "refuse"}
      \/ todo[d] = <<>>
  BY <1>2, <1>3, SavePathTail
<1>5. ASSUME side'.file = side.file, todo'[d] = todo[d], reply'[d] = reply[d]
      PROVE  /\ todo'[d] = <<>> \/ todo'[d] = Do("refuse") \/ SavePath(todo'[d])
             /\ At(d, {"writeFile"})' => side'.file = [by |-> d, whole |-> FALSE]
             /\ todo'[d] = <<>> /\ reply'[d] # "error" => side'.file = [by |-> d, whole |-> TRUE]
  BY <1>2, <1>5 DEF At
<1>6. CASE d = c
  <2>1. CASE Answer(c)
    <3>1. todo[d] = <<>> /\ reply[d] = None /\ todo' = todo /\ side' = side
      BY <1>6, <2>1 DEF Answer, keptVars
    <3>2. QED
      BY <1>2, <3>1 DEF At
  <2>2. CASE todo[c] # <<>> /\ Throws(c)
    <3>1. todo'[d] = <<>> /\ reply'[d] = "error"
      BY <1>4, <1>6, <2>2, ThrowEnds DEF Step
    <3>2. QED
      BY <3>1 DEF At
  <2>3. CASE todo[c] # <<>> /\ ~Throws(c) /\ side' = side /\ ~At(c, {"refuse"} \cup Asides)
    <3>1. At(c, Lasting) /\ Head(todo[d]).do \in SaveOps /\ SavePath(todo[d])
      <4>1. Head(todo[d]).do \notin {"refuse", "openNew", "writeFile"}
        BY <1>6, <2>3 DEF At, Asides
      <4>2. Head(todo[d]).do \in SaveOps
        BY <1>4, <1>6, <2>3, <4>1
      <4>3. SaveOps \subseteq Lasting
        BY DEF SaveOps, Lasting, Ops, Quiet, Final
      <4>4. QED
        BY <1>2, <1>3, <1>6, <2>3, <4>1, <4>2, <4>3 DEF At
    <3>2. reply'[d] = reply[d] /\ (todo'[d] = todo[d] \/ todo'[d] = Tail(todo[d]))
      BY <1>6, <2>3, <3>1, LastingTail
    <3>3. CASE todo'[d] = todo[d]
      BY <1>5, <2>3, <3>2, <3>3
    <3>4. CASE todo'[d] = Tail(todo[d])
      <4>1. SavePath(todo'[d]) /\ Head(todo'[d]).do # "writeFile" /\ todo'[d] # <<>>
        BY <3>1, <3>4, SavePathTail
      <4>2. QED
        BY <4>1 DEF At
    <3>5. QED
      BY <3>2, <3>3, <3>4
  <2>4. CASE SaveFile(c)
    <3>1. todo' = [todo EXCEPT ![c] = Tail(@)] /\ reply' = reply /\ todo[d] # <<>>
      BY <1>6, <2>4 DEF SaveFile, GoesOn, At
    <3>2. todo'[d] = Tail(todo[d])
      BY <1>6, <3>1 DEF LockInv, CoreInv
    <3>3. CASE At(c, {"openNew"}) /\ ~Barred(c) /\ side' = [side EXCEPT !.file.by = c]
      <4>1. side.file.by = None /\ side.file.whole = FALSE
        BY <3>3 DEF Barred, At, SideInv
      <4>2. side'.file = [by |-> d, whole |-> FALSE]
        BY <1>6, <3>3, <4>1 DEF SideInv
      <4>3. SavePath(todo[d]) /\ Head(todo[d]).do = "openNew"
        BY <1>2, <1>3, <1>6, <3>3 DEF At
      <4>4. SavePath(todo'[d]) /\ todo'[d] # <<>>
        BY <3>2, <4>3, SavePathTail
      <4>5. QED
        BY <4>2, <4>4
    <3>4. CASE At(c, {"writeFile"}) /\ side' = [side EXCEPT !.file.whole = TRUE]
      <4>1. side.file = [by |-> d, whole |-> FALSE]
        BY <1>2, <1>6, <3>4
      <4>2. side'.file \in [by : Calls \cup {None}, whole : BOOLEAN]
            /\ side'.file.by = side.file.by /\ side'.file.whole = TRUE
        BY <3>4 DEF SideInv
      <4>5. side.file.by = d
        BY <4>1
      <4>6. side'.file = [by |-> d, whole |-> TRUE]
        BY <4>2, <4>5
      <4>3. SavePath(todo[d]) /\ Head(todo[d]).do = "writeFile"
        BY <1>2, <1>3, <1>6, <3>4 DEF At
      <4>4. todo'[d] = <<>>
        BY <3>2, <4>3, SavePathTail
      <4>7. QED
        BY <4>4, <4>6 DEF At
    <3>5. QED
      BY <2>4, <3>3, <3>4 DEF SaveFile
  <2>5. CASE ChangeScripts(c) \/ FindExistingEvent(c) \/ WriteToApp(c) \/ WriteOffMac(c)
    <3>1. At(c, {"putScript", "deleteScript", "setActive"} \cup Final)
      BY <2>5 DEF ChangeScripts, FindExistingEvent, WriteToApp, WriteOffMac, At, Final
    <3>2. QED
      BY <1>4, <1>6, <3>1 DEF At, SaveOps, Final
  <2>6. QED
    BY <2>1, <2>2, <2>3, <2>4, <2>5 DEF SideKind
<1>7. CASE d # c
  <2>1. todo'[d] = todo[d] /\ reply'[d] = reply[d]
    BY <1>4, <1>7, OthersReply DEF At, SaveOps
  <2>2. CASE SaveFile(c)
    <3>1. side.file.by \in {None, c}
      <4>1. CASE At(c, {"openNew"})
        BY <2>2, <4>1 DEF SaveFile, Barred, At
      <4>2. CASE At(c, {"writeFile"})
        <5>1. request[c].save
          BY <4>2, OnlySaversSave DEF At
        <5>2. side.file = [by |-> c, whole |-> FALSE]
          BY <4>2, <5>1 DEF FileInv
        <5>3. QED
          BY <5>2
      <4>3. QED
        BY <2>2, <4>1, <4>2 DEF SaveFile
    <3>2. side.file # [by |-> d, whole |-> FALSE] /\ side.file # [by |-> d, whole |-> TRUE]
      BY <1>7, <3>1
    <3>3. QED
      BY <1>2, <2>1, <3>2 DEF At
  <2>3. CASE ~SaveFile(c)
    <3>1. side'.file = side.file
      <4>1. CASE ChangeScripts(c)
        BY <4>1 DEF ChangeScripts, SideInv, At
      <4>2. CASE FindExistingEvent(c) \/ WriteToApp(c) \/ WriteOffMac(c)
        BY <4>2 DEF FindExistingEvent, WriteToApp, WriteOffMac, Ended, EndedUnheard, SideInv
      <4>3. QED
        BY <2>3, <4>1, <4>2 DEF SideKind
    <3>2. QED
      BY <1>5, <2>1, <3>1
  <2>4. QED
    BY <2>2, <2>3
<1>8. QED
  BY <1>6, <1>7

LEMMA SideInit ==
  ASSUME Init, LockInv
  PROVE  SideInv /\ FileInv
<1> USE NoneIsNothing
<1>1. /\ todo = [c \in Calls |-> Program(request[c])]
      /\ side = [added |-> {}, status |-> [c \in Calls |-> None],
                 file |-> [by |-> None, whole |-> FALSE], scripts |-> {"old"}, active |-> "old"]
  BY DEF Init
<1>2. SideInv
  BY <1>1 DEF SideInv, Statuses, Scripts
<1>3. FileInv
  <2>1. SUFFICES ASSUME NEW c \in Calls, request[c].save
                 PROVE  todo[c] # <<>> /\ ~At(c, {"writeFile"})
                        /\ (todo[c] = Do("refuse") \/ SavePath(todo[c]))
    BY DEF FileInv
  <2>2. Accepted(request[c])
    BY DEF LockInv, CoreInv
  <2>3. todo[c] = Do("refuse") \/ (SavePath(todo[c]) /\ Head(todo[c]).do \in SaveOps)
    BY <1>1, <2>1, <2>2, SaveProgram
  <2>4. Head(Do("refuse")).do = "refuse" /\ Do("refuse") # <<>>
    BY DEF Do, S
  <2>5. QED
    BY <2>3, <2>4 DEF At, SavePath, SaveOps
<1>4. QED
  BY <1>2, <1>3

(***************************************************************************)
(* Type correctness.                                                       *)
(***************************************************************************)

TakenInv == taken \subseteq Messages \cup Calls

LEMMA SideStep ==
  ASSUME LockInv, SideInv, FileInv, [Next]_vars
  PROVE  SideInv' /\ FileInv'
<1>1. ASSUME UNCHANGED <<request, todo, reply, side>> PROVE SideInv' /\ FileInv'
  <2>1. Do("refuse")' = Do("refuse")
    OBVIOUS
  <2>2. SideInv'
    BY <1>1 DEF SideInv
  <2>3. FileInv'
    BY <1>1, <2>1 DEF FileInv, At
  <2>4. QED
    BY <2>2, <2>3
<1>2. CASE Outside
  BY <1>1, <1>2, OutsideKept DEF Outside, keptVars
<1>3. CASE UNCHANGED vars
  BY <1>1, <1>3 DEF vars, callVars, keptVars, fixedVars
<1>4. ASSUME NEW c \in Calls, Goes(c) PROVE SideInv' /\ FileInv'
  BY <1>4, SideKinds, StepKinds, SideKept, FileKept
<1>5. QED
  BY <1>2, <1>3, <1>4 DEF Next

LEMMA TakenStep ==
  ASSUME LockInv, MailInv, TouchInv, TakenInv, [Next]_vars
  PROVE  TakenInv'
<1>1. CASE taken' = taken
  BY <1>1 DEF TakenInv
<1>2. ASSUME NEW f \in Folders, NEW m \in mail[f], taken' = taken \cup {m.msg} PROVE TakenInv'
  <2>1. m \in Mails
    BY DEF MailInv
  <2>2. QED
    BY <1>2, <2>1 DEF Mails, TakenInv
<1>3. CASE Outside
  <2>1. CASE Drop
    BY <1>1, <2>1 DEF Drop
  <2>2. CASE OtherClient
    <3>1. taken' = taken \/ \E f \in {"INBOX", "Drafts"} : \E m \in mail[f] : taken' = taken \cup {m.msg}
      BY <2>2 DEF OtherClient
    <3>2. QED
      BY <1>1, <1>2, <3>1, FolderNames
  <2>3. QED
    BY <1>3, <2>1, <2>2 DEF Outside
<1>4. CASE UNCHANGED vars
  BY <1>1, <1>4 DEF vars, serverVars
<1>5. ASSUME NEW c \in Calls, Goes(c) PROVE TakenInv'
  BY <1>1, <1>5, WorldSteps DEF WorldStep
<1>6. QED
  BY <1>3, <1>4, <1>5 DEF Next

\* Nobody who holds the lock is in line for it.
LEMMA HolderNotInLine ==
  ASSUME LockInv
  PROVE  holder \notin Range(waiting)
<1>1. SUFFICES ASSUME NEW c \in Range(waiting) PROVE holder # c
  OBVIOUS
<1>2. c \in Calls /\ At(c, {"lock"})
  BY <1>1 DEF LockInv, LineInv, Range
<1>3. PICK f \in Modes : Path(c, f) /\ Holds(c, f)
  BY <1>2 DEF LockInv, PlaceInv
<1>4. Fits(Head(todo[c]), f, request[c].in)
  BY <1>2, <1>3, ShapeTail DEF Path, At
<1>5. f = None
  BY <1>2, <1>4 DEF Fits, Unlocked, At
<1>6. QED
  BY <1>3, <1>5 DEF Holds

LEMMA TypesFollow ==
  ASSUME LockInv, MailInv, TakenInv, SideInv
  PROVE  MailTypeOK
<1>1. \A f \in Folders : mail[f] \subseteq [uid : Nat, msg : Messages \cup Calls, mark : BOOLEAN]
  BY DEF MailInv, Mails
<1>2. exists \subseteq Folders /\ reborn \subseteq Folders /\ next \in [Folders -> Nat]
  BY DEF MailInv
<1>3. /\ side.added \subseteq Calls /\ side.active \in {None, "old", "new"}
      /\ side.active \in side.scripts \cup {None}
      /\ side.file.whole => side.file.by # None
  BY DEF SideInv, Scripts
<1>4. QED
  BY <1>1, <1>2, <1>3, HolderNotInLine DEF MailTypeOK, LockInv, CoreInv, LineInv, TakenInv, Modes

\* The variables hold what the actions mean them to hold: the line for the lock names each
\* call once and never its holder, the active Sieve script is one of those there are
\* (sieve.service.ts), and a file that is whole has been made by somebody.
THEOREM TypesHold == Spec => []MailTypeOK
<1>1. Init => TakenInv
  BY MailInit DEF TakenInv
<1>2. QED
  BY <1>1, LocksHeld, MailInit, MailStep, SideInit, SideStep, TakenStep, TypesFollow, PTL DEF Spec

(***************************************************************************)
(* What a scheduling tool says it did.                                     *)
(***************************************************************************)

ToldInv ==
  \A c \in Calls :
    /\ side.status[c] # None \/ c \in side.added => todo[c] = <<>> /\ reply[c] # "error"
    /\ side.status[c] = "added" => c \in side.added
    /\ c \in side.added /\ side.status[c] # "added" => "lost" \in fate[c] /\ side.status[c] = "no_display"

LEMMA ToldKept ==
  ASSUME LockInv, SideInv, ToldInv, NEW c \in Calls, SideKind(c), StepKind(c)
  PROVE  ToldInv'
<1> USE NoneIsNothing
<1>1. SUFFICES ASSUME NEW d \in Calls
               PROVE  /\ side'.status[d] # None \/ d \in side'.added => todo'[d] = <<>> /\ reply'[d] # "error"
                      /\ side'.status[d] = "added" => d \in side'.added
                      /\ d \in side'.added /\ side'.status[d] # "added" =>
                           "lost" \in fate'[d] /\ side'.status[d] = "no_display"
  BY DEF ToldInv
<1>2. /\ side.status[d] # None \/ d \in side.added => todo[d] = <<>> /\ reply[d] # "error"
      /\ side.status[d] = "added" => d \in side.added
      /\ d \in side.added /\ side.status[d] # "added" => "lost" \in fate[d] /\ side.status[d] = "no_display"
      /\ fate[d] \subseteq fate'[d]
  BY MarksStay DEF ToldInv
<1>3. ASSUME side'.status[d] = side.status[d], d \in side'.added <=> d \in side.added,
             side.status[d] # None \/ d \in side.added => todo'[d] = <<>> /\ reply'[d] # "error"
      PROVE  /\ side'.status[d] # None \/ d \in side'.added => todo'[d] = <<>> /\ reply'[d] # "error"
             /\ side'.status[d] = "added" => d \in side'.added
             /\ d \in side'.added /\ side'.status[d] # "added" =>
                  "lost" \in fate'[d] /\ side'.status[d] = "no_display"
  BY <1>2, <1>3
<1>4. \/ side'.status = side.status /\ side'.added = side.added
      \/ (FindExistingEvent(c) \/ WriteToApp(c) \/ WriteOffMac(c)) /\ side' # side
  BY DEF SideKind, SaveFile, ChangeScripts, SideInv, At
<1>5. ASSUME (FindExistingEvent(c) \/ WriteToApp(c) \/ WriteOffMac(c)) /\ side' # side
      PROVE  /\ todo[c] # <<>> /\ Closes(c)
             /\ (\E status \in Statuses : Ended(c, status)) \/ \E wrote \in BOOLEAN : EndedUnheard(c, wrote)
  <2>1. CASE FindExistingEvent(c)
    BY <1>5, <2>1 DEF FindExistingEvent, Statuses, At
  <2>2. CASE WriteToApp(c)
    BY <1>5, <2>2 DEF WriteToApp, Statuses, At
  <2>3. CASE WriteOffMac(c)
    <3>1. \/ Closes(c) /\ Ended(c, "added")
          \/ \E wrote \in BOOLEAN : Closes(c) /\ EndedUnheard(c, wrote)
          \/ Closes(c) /\ Ended(c, "no_display")
      BY <1>5, <2>3 DEF WriteOffMac
    <3>2. todo[c] # <<>>
      BY <2>3 DEF WriteOffMac, At
    <3>3. QED
      BY <3>1, <3>2 DEF Statuses
  <2>4. QED
    BY <1>5, <2>1, <2>2, <2>3
<1>6. CASE d # c
  <2>1. side'.status[d] = side.status[d] /\ (d \in side'.added <=> d \in side.added)
    <3>1. CASE side'.status = side.status /\ side'.added = side.added
      BY <3>1
    <3>2. ASSUME NEW status, Ended(c, status)
          PROVE  side'.status[d] = side.status[d] /\ (d \in side'.added <=> d \in side.added)
      BY <1>6, <3>2 DEF Ended, SideInv
    <3>3. ASSUME NEW wrote, EndedUnheard(c, wrote)
          PROVE  side'.status[d] = side.status[d] /\ (d \in side'.added <=> d \in side.added)
      BY <1>6, <3>3 DEF EndedUnheard, SideInv
    <3>4. QED
      BY <1>4, <1>5, <3>1, <3>2, <3>3
  <2>2. side.status[d] # None \/ d \in side.added => todo'[d] = <<>> /\ reply'[d] # "error"
    BY <1>2, <1>6, OthersReply DEF At
  <2>3. QED
    BY <1>3, <2>1, <2>2
<1>7. CASE d = c /\ side'.status = side.status /\ side'.added = side.added
  <2>1. side.status[d] # None \/ d \in side.added => todo'[d] = <<>> /\ reply'[d] # "error"
    <3>1. SUFFICES ASSUME todo[c] = <<>>, reply[c] # "error"
                   PROVE  todo'[c] = <<>> /\ reply'[c] # "error"
      BY <1>2, <1>7
    <3>2. Answer(c)
      BY <3>1, NoStepsLeft
    <3>3. QED
      BY <3>1, <3>2 DEF Answer, LockInv, CoreInv
  <2>2. QED
    BY <1>3, <1>7, <2>1
<1>8. CASE d = c /\ (FindExistingEvent(c) \/ WriteToApp(c) \/ WriteOffMac(c)) /\ side' # side
  <2>1. todo'[c] = <<>> /\ reply'[c] = None
    BY <1>5, <1>8 DEF Closes, LockInv, CoreInv
  <2>2. side.status[c] = None /\ c \notin side.added
    BY <1>2, <1>5, <1>8
  <2>3. CASE \E status \in Statuses : Ended(c, status)
    <3>1. PICK status \in Statuses : Ended(c, status)
      BY <2>3
    <3>2. side'.status[c] = status /\ (c \in side'.added <=> status = "added")
      BY <2>2, <3>1 DEF Ended, SideInv
    <3>3. QED
      BY <1>8, <2>1, <3>2
  <2>4. CASE \E wrote \in BOOLEAN : EndedUnheard(c, wrote)
    <3>1. PICK wrote \in BOOLEAN : EndedUnheard(c, wrote)
      BY <2>4
    <3>2. side'.status[c] = "no_display" /\ (c \in side'.added <=> wrote)
      BY <2>2, <3>1 DEF EndedUnheard, SideInv
    <3>3. wrote => "lost" \in fate'[c]
      BY <3>1 DEF EndedUnheard, LockInv, CoreInv
    <3>4. QED
      BY <1>8, <2>1, <3>2, <3>3
  <2>5. QED
    BY <1>5, <1>8, <2>3, <2>4
<1>9. QED
  BY <1>4, <1>6, <1>7, <1>8

LEMMA ToldStep ==
  ASSUME LockInv, SideInv, ToldInv, [Next]_vars
  PROVE  ToldInv'
<1>1. ASSUME UNCHANGED <<todo, reply, side, fate>> PROVE ToldInv'
  BY <1>1 DEF ToldInv
<1>2. CASE Outside
  BY <1>1, <1>2, OutsideKept DEF Outside, keptVars
<1>3. CASE UNCHANGED vars
  BY <1>1, <1>3 DEF vars, callVars, keptVars, fixedVars
<1>4. ASSUME NEW c \in Calls, Goes(c) PROVE ToldInv'
  BY <1>4, SideKinds, StepKinds, ToldKept
<1>5. QED
  BY <1>2, <1>3, <1>4 DEF Next

LEMMA ToldInit ==
  ASSUME Init
  PROVE  ToldInv
<1>1. \A c \in Calls : side.status[c] = None /\ side.added = {}
  BY DEF Init
<1>2. QED
  BY <1>1, NoneIsNothing DEF ToldInv

LEMMA SchedulingTold ==
  ASSUME LockInv, ToldInv
  PROVE  SchedulingIsTrue
<1> USE NoneIsNothing
<1>1. \A c \in Calls : reply[c] \in {None, "ok", "error"}
  BY DEF LockInv, CoreInv
<1>2. QED
  BY <1>1 DEF ToldInv, SchedulingIsTrue

LEMMA SavesAreWhole ==
  ASSUME LockInv, FileInv
  PROVE  SavedIsWhole
<1>1. SUFFICES ASSUME NEW c \in Calls, request[c].save, reply[c] = "ok"
               PROVE  side.file = [by |-> c, whole |-> TRUE]
  BY DEF SavedIsWhole
<1>2. todo[c] = <<>>
  BY <1>1, NoneIsNothing DEF LockInv, CoreInv
<1>3. QED
  BY <1>1, <1>2 DEF FileInv

(***************************************************************************)
(* The tools that do one thing.                                            *)
(***************************************************************************)

Calm == Quiet \ ({"scan", "spread"} \cup Final)
OnceOps == Ops \ ({"scan", "spread"} \cup Final)
AllReleases(p) == \A i \in 1 .. Len(p) : p[i].do = "release"

\* No step stands in a try, and after the one that changes something there are releases.
Once(p) ==
  /\ Straight(p, OnceOps)
  /\ \A i, j \in 1 .. Len(p) : i < j /\ p[i].do \in Changing => p[j].do = "release"

LEMMA OnceStep ==
  ASSUME NEW s \in StepType, s.skip = 0, s.do \in OnceOps
  PROVE  Once(<<s>>)
  BY DEF Once, Straight

LEMMA OnceCalm ==
  ASSUME NEW p, Straight(p, Calm)
  PROVE  Once(p)
<1>1. Calm \subseteq OnceOps /\ Calm \cap Changing = {}
  BY DEF Calm, OnceOps, Ops, Quiet, Changing
<1>2. QED
  BY <1>1 DEF Once, Straight

LEMMA OnceAfter ==
  ASSUME NEW q, Straight(q, Calm), NEW p, Once(p)
  PROVE  Once(q \o p)
<1> DEFINE w == q \o p
<1>1. Calm \subseteq OnceOps /\ Calm \cap Changing = {}
  BY DEF Calm, OnceOps, Ops, Quiet, Changing
<1>2. q \in Seq(StepType) /\ p \in Seq(StepType) /\ Len(q) \in Nat /\ Len(p) \in Nat
  BY DEF Once, Straight
<1>3. Straight(q, OnceOps) /\ Straight(p, OnceOps)
  BY <1>1 DEF Once, Straight
<1>4. Straight(w, OnceOps)
  BY <1>3, StraightJoin
<1>5. /\ Len(w) = Len(q) + Len(p)
      /\ \A i \in 1 .. Len(q) : w[i] = q[i]
      /\ \A i \in 1 .. Len(p) : w[Len(q) + i] = p[i]
  BY <1>2, JoinFields
<1> HIDE DEF w
<1>6. ASSUME NEW i \in 1 .. Len(w), w[i].do \in Changing
      PROVE  i - Len(q) \in 1 .. Len(p) /\ w[i] = p[i - Len(q)]
  <2>1. CASE i \in 1 .. Len(q)
    <3>1. w[i].do \in Calm
      BY <1>5, <2>1 DEF Straight
    <3>2. QED
      BY <1>1, <1>6, <3>1
  <2>2. CASE i \notin 1 .. Len(q)
    <3>1. i - Len(q) \in 1 .. Len(p) /\ Len(q) + (i - Len(q)) = i
      BY <1>2, <1>5, <2>2
    <3>2. QED
      BY <1>5, <3>1
  <2>3. QED
    BY <2>1, <2>2
<1>7. ASSUME NEW i \in 1 .. Len(w), NEW j \in 1 .. Len(w), i < j, w[i].do \in Changing
      PROVE  w[j].do = "release"
  <2>1. i - Len(q) \in 1 .. Len(p) /\ w[i] = p[i - Len(q)]
    BY <1>6, <1>7
  <2>2. j - Len(q) \in 1 .. Len(p) /\ Len(q) + (j - Len(q)) = j /\ i - Len(q) < j - Len(q)
    BY <1>2, <1>5, <1>7, <2>1
  <2>3. w[j] = p[j - Len(q)]
    BY <1>5, <2>2
  <2>4. QED
    BY <1>7, <2>1, <2>2, <2>3 DEF Once
<1>8. QED
  BY <1>4, <1>7 DEF Once, w

LEMMA OnceUnder ==
  ASSUME NEW f \in Folders, NEW s \in StepType, s.skip = 0, s.do \in OnceOps
  PROVE  Once(Under(f, <<s>>))
<1>1. {"lock", "release"} \subseteq Ops /\ f \in Names /\ None \in Names
  BY FolderNames DEF Ops, Quiet
<1>2. PICK a \in StepType : a = S("lock", f) /\ a.do = "lock" /\ a.skip = 0
  BY <1>1, StepFields
<1>3. PICK b \in StepType : b = S("release", None) /\ b.do = "release" /\ b.skip = 0
  BY <1>1, StepFields
<1> DEFINE p == <<a, s>> \o <<b>>
<1>4. Under(f, <<s>>) = p
  BY <1>2, <1>3, JoinOfTwo DEF Under, Do
<1>5. p \in Seq(StepType) /\ Len(p) = 3 /\ p[1] = a /\ p[2] = s /\ p[3] = b
  OBVIOUS
<1> HIDE DEF p
<1>6. \A i \in 1 .. Len(p) : i = 1 \/ i = 2 \/ i = 3
  BY <1>5
<1>7. "lock" \in OnceOps /\ "release" \in OnceOps /\ "lock" \notin Changing
  BY DEF OnceOps, Ops, Quiet, Final, Changing
<1>8. \A i \in 1 .. Len(p) : p[i].skip = 0 /\ p[i].do \in OnceOps
  BY <1>2, <1>3, <1>5, <1>6, <1>7
<1>9. \A i, j \in 1 .. Len(p) : i < j /\ p[i].do \in Changing => p[j].do = "release"
  <2>1. SUFFICES ASSUME NEW i \in 1 .. Len(p), NEW j \in 1 .. Len(p), i < j, p[i].do \in Changing
                 PROVE  p[j].do = "release"
    OBVIOUS
  <2>2. i # 1
    BY <1>2, <1>5, <1>7, <2>1
  <2>3. j = 3
    BY <1>6, <2>1, <2>2
  <2>4. QED
    BY <1>3, <1>5, <2>3
<1>10. QED
  BY <1>4, <1>5, <1>8, <1>9 DEF Once, Straight

LEMMA OnceTail ==
  ASSUME NEW p, Once(p), p # <<>>
  PROVE  /\ Once(Tail(p)) /\ Head(p).skip = 0 /\ Head(p).do \in OnceOps
         /\ Head(p).do \in Changing \/ AllReleases(p) => AllReleases(Tail(p))
         /\ AllReleases(p) => Head(p).do = "release"
<1> DEFINE t == Tail(p)
<1>1. p \in Seq(StepType) /\ p # <<>>
  BY DEF Once, Straight
<1>2. PICK n \in Nat : n = Len(p) /\ n >= 1
  BY <1>1, EmptySeq
<1>3. t \in Seq(StepType) /\ Len(t) = n - 1 /\ Head(p) = p[1]
  BY <1>1, <1>2
<1>4. \A i \in 1 .. n - 1 : t[i] = p[i + 1]
  BY <1>1, <1>2
<1> HIDE DEF t
<1>5. \A i \in 1 .. n : p[i].skip = 0 /\ p[i].do \in OnceOps
  BY <1>2 DEF Once, Straight
<1>6. \A i, j \in 1 .. n : i < j /\ p[i].do \in Changing => p[j].do = "release"
  BY <1>2 DEF Once
<1>7. \A i \in 1 .. n - 1 : i + 1 \in 1 .. n /\ 1 < i + 1
  BY <1>2
<1>8. 1 \in 1 .. n
  BY <1>2
<1>9. Straight(t, OnceOps)
  BY <1>3, <1>4, <1>5, <1>7 DEF Straight
<1>10. ASSUME NEW i \in 1 .. n - 1, NEW j \in 1 .. n - 1, i < j, t[i].do \in Changing
       PROVE  t[j].do = "release"
  <2>1. PICK k \in 1 .. n, l \in 1 .. n : k = i + 1 /\ l = j + 1 /\ k < l
    BY <1>2, <1>10
  <2>2. t[i] = p[k] /\ t[j] = p[l]
    BY <1>4, <2>1
  <2>3. QED
    BY <1>6, <1>10, <2>1, <2>2
<1>11. Once(t)
  BY <1>3, <1>9, <1>10 DEF Once
<1>12. Head(p).do \in Changing => AllReleases(t)
  <2>1. SUFFICES ASSUME p[1].do \in Changing, NEW i \in 1 .. n - 1 PROVE t[i].do = "release"
    BY <1>3 DEF AllReleases
  <2>2. PICK k \in 1 .. n : k = i + 1 /\ 1 < k
    BY <1>7
  <2>3. QED
    BY <1>4, <1>6, <1>8, <2>1, <2>2
<1>13. AllReleases(p) => AllReleases(t)
  BY <1>2, <1>3, <1>4, <1>7 DEF AllReleases
<1>14. AllReleases(p) => Head(p).do = "release"
  BY <1>2, <1>3, <1>8 DEF AllReleases
<1>15. QED
  BY <1>3, <1>5, <1>8, <1>11, <1>12, <1>13, <1>14 DEF t

LEMMA DetectionIsCalm ==
  /\ Straight(DetectLabelStrategy, Calm) /\ Straight(Do("sharing"), Calm)
  /\ Straight(GetLabelStrategy \o Client, Calm)
<1>1. /\ {"client", "list", "lock", "release", "detected", "sharing", "strategy"} \subseteq Calm \cap Ops
      /\ None \in Names /\ "INBOX" \in Folders
  BY FolderNames DEF Calm, Ops, Quiet, Final
<1>2. /\ Straight(Client, Calm) /\ Straight(List, Calm) /\ Straight(Do("detected"), Calm)
      /\ Straight(Do("sharing"), Calm) /\ Straight(GetLabelStrategy, Calm)
  BY <1>1, StraightStep DEF Client, List, GetLabelStrategy
<1>3. Straight(<<>>, Calm) /\ Straight(Under("INBOX", <<>>), Calm)
  BY <1>1, StraightEmpty, StraightUnder
<1>4. Straight(Client \o List, Calm) /\ Straight(GetLabelStrategy \o Client, Calm)
  BY <1>2, StraightJoin
<1>5. PICK u : u = (IF site.kind = "keyword" THEN Under("INBOX", <<>>) ELSE <<>>) /\ Straight(u, Calm)
  BY <1>3
<1>6. Straight((Client \o List) \o u, Calm)
  BY <1>4, <1>5, StraightJoin
<1>7. Straight(((Client \o List) \o u) \o Do("detected"), Calm)
  BY <1>2, <1>6, StraightJoin
<1>8. QED
  BY <1>2, <1>4, <1>5, <1>7 DEF DetectLabelStrategy

LEMMA OnceTool ==
  ASSUME NEW r, NEW p, Once(p)
  PROVE  Once(Tool(r, p)) /\ Once(<<>>)
<1>1. "refuse" \in Calm \cap Ops /\ None \in Names
  BY FolderNames DEF Calm, Ops, Quiet, Final
<1>2. Once(Do("refuse")) /\ Once(<<>>)
  BY <1>1, StraightStep, StraightEmpty, OnceCalm
<1>3. QED
  BY <1>2 DEF Tool

\* The programs of these tools.
LEMMA OnceMail ==
  ASSUME NEW r, Accepted(r), r.tool \in {"move_email", "delete_email", "mark_email", "add_label"}
  PROVE  Once(WriteTool(r))
<1>1. r.in \in Folders /\ r.in \in Names /\ r.to \in Names /\ "Trash" \in Names /\ Label \in Names
      /\ None \in Names
  BY RequestFields, FolderNames
<1>2. /\ {"client", "list", "real"} \subseteq Calm \cap Ops
      /\ {"move", "delete", "mark", "copy"} \subseteq OnceOps \cap Ops
  BY DEF Calm, OnceOps, Ops, Quiet, Changing, Final
<1>3. Straight(Client, Calm) /\ Straight(List, Calm) /\ Straight(<<S("real", r.in)>>, Calm)
  BY <1>1, <1>2, StraightStep DEF Client, List
<1>4. /\ Straight(Client \o <<S("real", r.in)>>, Calm)
      /\ Straight((Client \o <<S("real", r.in)>>) \o List, Calm)
  BY <1>3, StraightJoin
<1>5. ASSUME NEW op \in {"delete", "mark"} PROVE Once(Under(r.in, Do(op)))
  <2>1. PICK s \in StepType : s = S(op, None) /\ s.do = op /\ s.skip = 0
    BY <1>1, <1>2, StepFields
  <2>2. QED
    BY <1>1, <1>2, <2>1, OnceUnder DEF Do
<1>6. ASSUME NEW op \in {"move", "copy"}, NEW g \in Names PROVE Once(Under(r.in, <<To(op, r.in, g)>>))
  <2>1. PICK s \in StepType : s = To(op, r.in, g) /\ s.do = op /\ s.skip = 0
    BY <1>1, <1>2, StepFields
  <2>2. QED
    BY <1>1, <1>2, <2>1, OnceUnder
<1>7. CASE r.tool = "move_email"
  <2>1. Once((Client \o <<S("real", r.in)>>) \o Under(r.in, <<To("move", r.in, r.to)>>))
    BY <1>1, <1>4, <1>6, OnceAfter
  <2>2. Once(MoveEmailTool(r))
    BY <2>1, OnceTool DEF MoveEmailTool, MoveEmail
  <2>3. QED
    BY <1>7, <2>2 DEF WriteTool
<1>8. CASE r.tool = "delete_email"
  <2>1. Once(Client \o Under(r.in, Do("delete")))
    BY <1>3, <1>5, OnceAfter
  <2>2. Once(((Client \o <<S("real", r.in)>>) \o List) \o Under(r.in, <<To("move", r.in, "Trash")>>))
    BY <1>1, <1>4, <1>6, OnceAfter
  <2>3. Once(DeleteEmailTool(r))
    BY <2>1, <2>2, OnceTool DEF DeleteEmailTool, DeleteEmail
  <2>4. QED
    BY <1>8, <2>3 DEF WriteTool
<1>9. CASE r.tool = "mark_email"
  <2>1. Once(Client \o Under(r.in, Do("mark")))
    BY <1>3, <1>5, OnceAfter
  <2>2. Once(MarkEmailTool(r))
    BY <2>1, OnceTool DEF MarkEmailTool, SetFlags
  <2>3. QED
    BY <1>9, <2>2 DEF WriteTool
<1>10. CASE r.tool = "add_label"
  <2>1. PICK u : /\ u = Under(r.in, IF site.kind = "protonmail" THEN <<To("copy", r.in, Label)>> ELSE Do("mark"))
                 /\ Once(u)
    BY <1>1, <1>5, <1>6
  <2>2. Once((GetLabelStrategy \o Client) \o u)
    BY <2>1, DetectionIsCalm, OnceAfter
  <2>3. Once(AddLabelTool(r))
    BY <2>1, <2>2, OnceTool DEF AddLabelTool, AddLabel
  <2>4. QED
    BY <1>10, <2>3 DEF WriteTool
<1>11. QED
  BY <1>7, <1>8, <1>9, <1>10

LEMMA OnceFolder ==
  ASSUME NEW r, Accepted(r),
         r.tool \in {"create_label", "delete_label", "create_mailbox", "rename_mailbox", "delete_mailbox"},
         site.kind \in {"protonmail", "gmail", "keyword"}
  PROVE  Once(WriteTool(r))
<1>1. r.in \in Names /\ r.to \in Names /\ Label \in Names /\ None \in Names
  BY RequestFields, FolderNames
<1>2. /\ {"client", "removable", "refuse"} \subseteq Calm \cap Ops
      /\ {"create", "rename", "remove"} \subseteq OnceOps \cap Ops
  BY DEF Calm, OnceOps, Ops, Quiet, Changing, Final
<1>3. Straight(Client, Calm) /\ Straight(<<S("removable", r.in)>>, Calm) /\ Straight(Do("refuse"), Calm)
  BY <1>1, <1>2, StraightStep DEF Client
<1>4. ASSUME NEW op \in {"create", "remove"}, NEW g \in Names PROVE Once(<<S(op, g)>>)
  <2>1. PICK s \in StepType : s = S(op, g) /\ s.do = op /\ s.skip = 0
    BY <1>1, <1>2, StepFields
  <2>2. QED
    BY <1>2, <2>1, OnceStep
<1>5. Once(<<To("rename", r.in, r.to)>>)
  <2>1. PICK s \in StepType : s = To("rename", r.in, r.to) /\ s.do = "rename" /\ s.skip = 0
    BY <1>1, <1>2, StepFields
  <2>2. QED
    BY <1>2, <2>1, OnceStep
<1>6. Once(<<S("removable", r.in), S("remove", r.in)>>)
  <2>1. Once(<<S("removable", r.in)>> \o <<S("remove", r.in)>>)
    BY <1>1, <1>3, <1>4, OnceAfter
  <2>2. QED
    BY <2>1, JoinOfTwo
<1>7. Once(<<S("removable", r.in), To("rename", r.in, r.to)>>)
  <2>1. Once(<<S("removable", r.in)>> \o <<To("rename", r.in, r.to)>>)
    BY <1>3, <1>5, OnceAfter
  <2>2. QED
    BY <2>1, JoinOfTwo
<1>8. CASE r.tool = "create_label"
  <2>1. PICK u : u = (IF site.kind = "keyword" THEN <<>> ELSE <<S("create", Label)>>) /\ Once(u)
    BY <1>1, <1>4, StraightEmpty, OnceCalm
  <2>2. Once((GetLabelStrategy \o Client) \o u)
    BY <2>1, DetectionIsCalm, OnceAfter
  <2>3. Once(CreateLabelTool(r))
    BY <2>1, <2>2, OnceTool DEF CreateLabelTool, CreateLabel
  <2>4. QED
    BY <1>8, <2>3 DEF WriteTool
<1>9. CASE r.tool = "delete_label"
  <2>1. PICK u : /\ u = CASE site.kind = "protonmail" -> <<S("remove", Label)>>
                          [] site.kind = "gmail" -> <<S("removable", r.in), S("remove", r.in)>>
                          [] site.kind = "keyword" -> Do("refuse")
                 /\ Once(u)
    BY <1>1, <1>3, <1>4, <1>6, OnceCalm
  <2>2. Once((GetLabelStrategy \o Client) \o u)
    BY <2>1, DetectionIsCalm, OnceAfter
  <2>3. Once(DeleteLabelTool(r))
    BY <2>1, <2>2 DEF DeleteLabelTool, DeleteLabel
  <2>4. QED
    BY <1>9, <2>3 DEF WriteTool
<1>10. CASE r.tool = "create_mailbox"
  <2>1. Once(Client \o <<S("create", r.to)>>)
    BY <1>1, <1>3, <1>4, OnceAfter
  <2>2. QED
    BY <1>10, <2>1 DEF WriteTool, CreateMailboxTool, CreateMailbox
<1>11. CASE r.tool = "rename_mailbox"
  <2>1. Once(Client \o <<S("removable", r.in), To("rename", r.in, r.to)>>)
    BY <1>3, <1>7, OnceAfter
  <2>2. QED
    BY <1>11, <2>1 DEF WriteTool, RenameMailboxTool, RenameMailbox
<1>12. CASE r.tool = "delete_mailbox"
  <2>1. Once(Client \o <<S("removable", r.in), S("remove", r.in)>>)
    BY <1>3, <1>6, OnceAfter
  <2>2. Once(DeleteMailboxTool(r))
    BY <2>1, OnceTool DEF DeleteMailboxTool, DeleteMailbox
  <2>3. QED
    BY <1>12, <2>2 DEF WriteTool
<1>13. QED
  BY <1>8, <1>9, <1>10, <1>11, <1>12

LEMMA OnceScript ==
  ASSUME NEW r, Accepted(r),
         r.tool \in {"sieve_put_script", "sieve_delete_script", "sieve_activate_script"}
  PROVE  Once(WriteTool(r))
<1>1. r.to \in Names /\ None \in Names
  BY RequestFields, FolderNames
<1>2. /\ "sieveOpen" \in Calm \cap Ops
      /\ {"putScript", "deleteScript", "setActive"} \subseteq OnceOps \cap Ops
  BY DEF Calm, OnceOps, Ops, Quiet, Changing, Final
<1>3. Straight(Do("sieveOpen"), Calm)
  BY <1>1, <1>2, StraightStep
<1>4. ASSUME NEW op \in {"putScript", "deleteScript", "setActive"}
      PROVE  Once(Tool(r, WithConnection(<<S(op, r.to)>>)))
  <2>1. PICK s \in StepType : s = S(op, r.to) /\ s.do = op /\ s.skip = 0
    BY <1>1, <1>2, StepFields
  <2>2. Once(<<s>>)
    BY <1>2, <2>1, OnceStep
  <2>3. Once(Do("sieveOpen") \o <<s>>)
    BY <1>3, <2>2, OnceAfter
  <2>4. QED
    BY <2>1, <2>3, OnceTool DEF WithConnection
<1>5. CASE r.tool = "sieve_put_script"
  BY <1>4, <1>5 DEF WriteTool, PutScriptTool, PutScript
<1>6. CASE r.tool = "sieve_delete_script"
  BY <1>4, <1>6 DEF WriteTool, DeleteScriptTool, DeleteScript
<1>7. CASE r.tool = "sieve_activate_script"
  BY <1>4, <1>7 DEF WriteTool, ActivateScriptTool, ActivateScript
<1>8. QED
  BY <1>5, <1>6, <1>7

LEMMA OnceProgram ==
  ASSUME SiteOK, NEW r, Accepted(r), r.tool \in OneThing
  PROVE  Once(Program(r))
<1>1. r.tool \notin ReadTools
  BY DEF OneThing, ReadTools
<1>2. site.kind \in {"protonmail", "gmail", "keyword"}
  BY DEF SiteOK, Kinds
<1>3. QED
  BY <1>1, <1>2, OnceMail, OnceFolder, OnceScript DEF Program, OneThing

\* No step throws at a release.
LEMMA ReleaseGoes ==
  ASSUME LockInv, NEW c \in Calls, Goes(c), At(c, {"release"})
  PROVE  Release(c)
<1>1. ASSUME NEW D, At(c, D), "release" \notin D PROVE FALSE
  BY <1>1 DEF At
<1>2. c \notin Range(waiting)
  BY DEF LockInv, LineInv, At
<1>3. ~GetLock(c) /\ ~LockTimeout(c)
  <2>1. waiting \in Seq(Calls)
    BY DEF LockInv, LineInv
  <2>2. ASSUME GetLock(c) PROVE FALSE
    <3>1. 1 \in DOMAIN waiting /\ waiting[1] = c
      BY <2>1, <2>2 DEF GetLock
    <3>2. QED
      BY <1>2, <3>1 DEF Range
  <2>3. ASSUME LockTimeout(c) PROVE FALSE
    BY <1>2, <2>3 DEF LockTimeout, Range
  <2>4. QED
    BY <2>2, <2>3
<1>4. todo[c] # <<>> /\ ~Answer(c)
  BY DEF At, Answer
<1>5. ~(Refuse(c) \/ CheckRateLimit(c) \/ GetImapClient(c) \/ ConnectFails(c) \/ GetStrategy(c)
        \/ Detected(c) \/ AskForLock(c))
  BY <1>1 DEF Refuse, CheckRateLimit, GetImapClient, ConnectFails, GetStrategy, Detected, AskForLock, At
<1>6. ~(Look(c) \/ ScanFinds(c) \/ ScanEmpty(c) \/ Fetch(c) \/ OpenFetch(c) \/ CloseFetch(c)
        \/ ListFolders(c) \/ FolderAllowed(c) \/ SpreadSearch(c) \/ SearchFolder(c))
  BY <1>1 DEF Look, ScanFinds, ScanEmpty, Fetch, OpenFetch, CloseFetch, ListFolders, FolderAllowed,
              SpreadSearch, SearchFolder, Runs
<1>7. ~(MoveMessages(c) \/ DeleteMessages(c) \/ MarkMessages(c) \/ CopyMessages(c) \/ DeleteCopies(c)
        \/ CreateMissingMailbox(c) \/ AppendMessage(c) \/ MailboxCreate(c) \/ MailboxRename(c)
        \/ MailboxDelete(c))
  BY <1>1 DEF MoveMessages, DeleteMessages, MarkMessages, CopyMessages, DeleteCopies,
              CreateMissingMailbox, AppendMessage, MailboxCreate, MailboxRename, MailboxDelete, Runs
<1>8. "release" \notin Commands \cup {"lock", "close"} \cup Elsewhere
  BY DEF Commands, Reads, Changes, Elsewhere
<1>9. ~(Rejected(c) \/ DraftKept(c) \/ Hangs(c) \/ NoConnection(c) \/ Deliver(c) \/ SendFails(c)
        \/ ReadElsewhere(c) \/ FailsElsewhere(c))
  BY <1>8 DEF Rejected, DraftKept, Hangs, NoConnection, Deliver, SendFails, ReadElsewhere,
              FailsElsewhere, Runs, At
<1>10. ~(SaveFile(c) \/ ChangeScripts(c) \/ FindExistingEvent(c) \/ WriteToApp(c) \/ WriteOffMac(c))
  BY DEF SaveFile, ChangeScripts, FindExistingEvent, WriteToApp, WriteOffMac, At
<1>11. QED
  BY <1>3, <1>4, <1>5, <1>6, <1>7, <1>9, <1>10 DEF Goes

\* A refusal is answered with an error; after a change that was heard of no error comes.
OnceInv ==
  \A c \in Calls : request[c].tool \in OneThing =>
    /\ Once(todo[c])
    /\ "refused" \in fate[c] => reply[c] = "error"
    /\ "changed" \in fate[c] /\ "lost" \notin fate[c] => AllReleases(todo[c]) /\ reply[c] # "error"

LEMMA OnceOnward ==
  ASSUME NEW c \in Calls, todo[c] # <<>>, Once(todo[c]), NEW q, Onward(c, q)
  PROVE  /\ Once(q)
         /\ At(c, Changing) \/ AllReleases(todo[c]) => AllReleases(q)
<1>1. /\ Once(Tail(todo[c])) /\ Head(todo[c]).do \in OnceOps
      /\ Head(todo[c]).do \in Changing \/ AllReleases(todo[c]) => AllReleases(Tail(todo[c]))
      /\ AllReleases(todo[c]) => Head(todo[c]).do = "release"
  BY OnceTail
<1>2. CASE q = Tail(todo[c])
  BY <1>1, <1>2 DEF At
<1>3. CASE At(c, {"scan", "spread"} \cup Final)
  BY <1>1, <1>3 DEF At, OnceOps
<1>4. CASE At(c, {"strategy"})
           /\ q \in {DetectLabelStrategy \o Tail(todo[c]), Do("sharing") \o Tail(todo[c])}
  <2>1. Once(q)
    BY <1>1, <1>4, DetectionIsCalm, OnceAfter
  <2>2. ~At(c, Changing) /\ ~AllReleases(todo[c])
    BY <1>1, <1>4 DEF At, Changing
  <2>3. QED
    BY <2>1, <2>2
<1>5. QED
  BY <1>2, <1>3, <1>4 DEF Onward, At

LEMMA OnceKept ==
  ASSUME LockInv, OnceInv, NEW c \in Calls, Goes(c), StepKind(c)
  PROVE  OnceInv'
<1> USE NoneIsNothing
<1>1. request' = request
  BY DEF StepKind
<1>2. SUFFICES ASSUME NEW d \in Calls, request[d].tool \in OneThing
               PROVE  /\ Once(todo'[d])
                      /\ "refused" \in fate'[d] => reply'[d] = "error"
                      /\ "changed" \in fate'[d] /\ "lost" \notin fate'[d] =>
                           AllReleases(todo'[d]) /\ reply'[d] # "error"
  BY <1>1 DEF OnceInv
<1>3. /\ Once(todo[d])
      /\ "refused" \in fate[d] => reply[d] = "error"
      /\ "changed" \in fate[d] /\ "lost" \notin fate[d] => AllReleases(todo[d]) /\ reply[d] # "error"
      /\ fate[d] \subseteq fate'[d] /\ (d # c => fate'[d] = fate[d])
      /\ reply[d] # None => todo[d] = <<>>
  BY <1>2, MarksStay DEF OnceInv, LockInv, CoreInv
<1>4. Once(<<>>)
  BY StraightEmpty, OnceCalm
<1>5. CASE d # c
  <2>1. CASE todo'[d] = todo[d] /\ reply'[d] = reply[d]
    BY <1>3, <1>5, <2>1
  <2>2. CASE At(d, {"sharing"}) /\ todo'[d] = <<>> /\ reply'[d] = "error"
    <3>1. ~AllReleases(todo[d])
      BY <1>3, <2>2, OnceTail DEF At
    <3>2. QED
      BY <1>3, <1>4, <1>5, <2>2, <3>1
  <2>3. QED
    BY <1>5, <2>1, <2>2, OthersReply
<1>6. CASE d = c /\ Answer(c)
  <2>1. todo' = todo /\ fate' = fate /\ reply'[c] = "ok" /\ reply[c] = None
    BY <1>6 DEF Answer, LockInv, CoreInv
  <2>2. QED
    BY <1>3, <1>6, <2>1
<1>7. CASE d = c /\ ~Answer(c)
  <2>1. PICK marks \in SUBSET Fates :
          /\ fate' = [fate EXCEPT ![c] = @ \cup marks]
          /\ "changed" \in marks => At(c, Changing \ {"smtp"})
          /\ Passes(c, marks) \/ Breaks(c, marks) \/ (UNCHANGED callVars /\ marks \subseteq {"hung"})
    BY <1>7 DEF StepKind, CallStep
  <2>2. todo[c] # <<>> /\ reply[c] = None
    BY <1>3, <1>7 DEF StepKind, CallStep
  <2>3. fate'[c] = fate[c] \cup marks /\ "refused" \notin fate[c]
    BY <1>3, <1>7, <2>1, <2>2 DEF LockInv, CoreInv
  <2>4. CASE Passes(c, marks)
    <3>1. PICK q : Onward(c, q) /\ todo' = [todo EXCEPT ![c] = q]
      BY <2>4 DEF Passes
    <3>2. todo'[c] = q /\ reply'[c] = None /\ "refused" \notin marks
      BY <2>2, <2>4, <3>1 DEF Passes, LockInv, CoreInv
    <3>3. Once(q) /\ (At(c, Changing) \/ AllReleases(todo[c]) => AllReleases(q))
      BY <1>3, <1>7, <2>2, <3>1, OnceOnward
    <3>4. "changed" \in marks => At(c, Changing)
      BY <2>1 DEF At
    <3>5. QED
      BY <1>3, <1>7, <2>3, <3>2, <3>3, <3>4
  <2>5. CASE Breaks(c, marks)
    <3>1. Step(c).skip = 0
      BY <1>3, <1>7, <2>2, OnceTail DEF Step
    <3>2. todo'[c] = <<>> /\ reply'[c] = "error"
      BY <2>2, <2>5, <3>1, ThrowEnds DEF Breaks
    <3>3. ~AllReleases(todo[c])
      <4>1. SUFFICES ASSUME AllReleases(todo[c]) PROVE FALSE
        OBVIOUS
      <4>2. At(c, {"release"})
        BY <1>3, <1>7, <2>2, <4>1, OnceTail DEF At
      <4>3. reply' = reply
        BY <4>2, ReleaseGoes DEF Release, GoesOn
      <4>4. QED
        BY <2>2, <3>2, <4>3
    <3>4. "changed" \in marks => "lost" \in marks
      BY <2>5 DEF Breaks
    <3>5. QED
      BY <1>3, <1>4, <1>7, <2>3, <3>2, <3>3, <3>4
  <2>6. CASE UNCHANGED callVars /\ marks \subseteq {"hung"}
    BY <1>3, <1>7, <2>3, <2>6 DEF callVars
  <2>7. QED
    BY <2>1, <2>4, <2>5, <2>6
<1>8. QED
  BY <1>5, <1>6, <1>7

LEMMA OneThingStep ==
  ASSUME LockInv, OnceInv, [Next]_vars
  PROVE  OnceInv'
<1>1. ASSUME UNCHANGED <<request, todo, reply, fate>> PROVE OnceInv'
  BY <1>1 DEF OnceInv
<1>2. CASE Outside
  BY <1>1, <1>2, OutsideKept DEF Outside, keptVars, fixedVars, callVars
<1>3. CASE UNCHANGED vars
  BY <1>1, <1>3 DEF vars, callVars, keptVars, fixedVars
<1>4. ASSUME NEW c \in Calls, Goes(c) PROVE OnceInv'
  BY <1>4, StepKinds, OnceKept
<1>5. QED
  BY <1>2, <1>3, <1>4 DEF Next

LEMMA OneThingInit ==
  ASSUME Init, LockInv
  PROVE  OnceInv
<1>1. todo = [c \in Calls |-> Program(request[c])] /\ fate = [c \in Calls |-> {}]
  BY DEF Init
<1>2. QED
  BY <1>1, OnceProgram DEF OnceInv, LockInv, CoreInv

LEMMA OneThingTold ==
  ASSUME OnceInv
  PROVE  OneThingIsTrue
  BY DEF OnceInv, OneThingIsTrue

(***************************************************************************)
(* The sends.                                                              *)
(***************************************************************************)

Within(p, D) == p \in Seq(StepType) /\ \A i \in 1 .. Len(p) : p[i].do \in D
Caught(p) == p \in Seq(StepType) /\ \A i \in 1 .. Len(p) : p[i].skip > 0

\* There is one delivery, and what comes after it stands in a try.
SendOps == Ops \ ({"scan", "spread", "strategy", "sharing"} \cup Final)
SendPath(p) ==
  /\ Within(p, SendOps)
  /\ \A i, j \in 1 .. Len(p) : i < j /\ p[i].do = "smtp" => p[j].skip > 0

\* The steps but the delivery.
Around == SendOps \ {"smtp"}

LEMMA WithinStep ==
  ASSUME NEW op \in Ops, NEW D, op \in D, NEW g \in Names
  PROVE  Within(<<S(op, g)>>, D) /\ Within(Do(op), D)
  BY StraightStep DEF Within, Straight

LEMMA WithinJoin ==
  ASSUME NEW D, NEW p, NEW q, Within(p, D), Within(q, D)
  PROVE  Within(p \o q, D)
<1> DEFINE w == p \o q
<1>1. p \in Seq(StepType) /\ q \in Seq(StepType) /\ Len(p) \in Nat /\ Len(q) \in Nat
  BY DEF Within
<1>2. /\ w \in Seq(StepType) /\ Len(w) = Len(p) + Len(q)
      /\ \A i \in 1 .. Len(p) : w[i] = p[i]
      /\ \A i \in 1 .. Len(q) : w[Len(p) + i] = q[i]
  BY <1>1, JoinFields
<1> HIDE DEF w
<1>3. ASSUME NEW i \in 1 .. Len(w) PROVE w[i].do \in D
  <2>1. CASE i <= Len(p)
    BY <1>1, <1>2, <2>1 DEF Within
  <2>2. CASE ~(i <= Len(p))
    <3>1. i - Len(p) \in 1 .. Len(q) /\ Len(p) + (i - Len(p)) = i
      BY <1>1, <1>2, <2>2
    <3>2. w[i] = q[i - Len(p)]
      BY <1>2, <3>1
    <3>3. QED
      BY <3>1, <3>2 DEF Within
  <2>3. QED
    BY <2>1, <2>2
<1>4. QED
  BY <1>2, <1>3 DEF Within, w

LEMMA WithinUnder ==
  ASSUME NEW D, {"lock", "release"} \subseteq D, NEW f \in Folders, NEW p, Within(p, D)
  PROVE  Within(Under(f, p), D)
<1>1. {"lock", "release"} \subseteq Ops /\ f \in Names /\ None \in Names
  BY FolderNames DEF Ops, Quiet
<1>2. Within(<<S("lock", f)>>, D) /\ Within(Do("release"), D)
  BY <1>1, WithinStep
<1>3. QED
  BY <1>2, WithinJoin DEF Under

LEMMA WithinTry ==
  ASSUME NEW D, NEW p, Within(p, D)
  PROVE  Within(Try(p), D) /\ Caught(Try(p))
<1>1. /\ p \in Seq(StepType) /\ Len(p) \in Nat
  BY DEF Within
<1>2. /\ Try(p) \in Seq(StepType) /\ Len(Try(p)) = Len(p)
      /\ \A i \in 1 .. Len(p) :
           /\ p[i] \in StepType /\ Try(p)[i].do = p[i].do
           /\ Try(p)[i].skip = IF p[i].skip > 0 THEN p[i].skip ELSE Len(p) - i + 1
  BY <1>1, TryFields
<1>3. ASSUME NEW i \in 1 .. Len(p) PROVE Try(p)[i].skip > 0
  <2>1. Len(p) - i + 1 > 0
    BY <1>1
  <2>2. QED
    BY <1>2, <2>1
<1>4. QED
  BY <1>2, <1>3 DEF Within, Caught

\* A send is made of what comes before, the delivery, and what comes after in a try.
LEMMA SendBefore ==
  ASSUME NEW q, Within(q, Around), NEW p, SendPath(p)
  PROVE  SendPath(q \o p)
<1> DEFINE w == q \o p
<1>1. Around \subseteq SendOps /\ "smtp" \notin Around
  BY DEF Around
<1>2. q \in Seq(StepType) /\ p \in Seq(StepType) /\ Len(q) \in Nat /\ Len(p) \in Nat
  BY DEF SendPath, Within
<1>3. Within(w, SendOps)
  BY <1>1, WithinJoin DEF SendPath, Within
<1>4. /\ Len(w) = Len(q) + Len(p)
      /\ \A i \in 1 .. Len(q) : w[i] = q[i]
      /\ \A i \in 1 .. Len(p) : w[Len(q) + i] = p[i]
  BY <1>2, JoinFields
<1> HIDE DEF w
<1>5. ASSUME NEW i \in 1 .. Len(w), NEW j \in 1 .. Len(w), i < j, w[i].do = "smtp"
      PROVE  w[j].skip > 0
  <2>1. i \notin 1 .. Len(q)
    BY <1>1, <1>4, <1>5 DEF Within
  <2>2. PICK k \in 1 .. Len(p), l \in 1 .. Len(p) : i = Len(q) + k /\ j = Len(q) + l /\ k < l
    <3>1. /\ i - Len(q) \in 1 .. Len(p) /\ j - Len(q) \in 1 .. Len(p) /\ i - Len(q) < j - Len(q)
          /\ i = Len(q) + (i - Len(q)) /\ j = Len(q) + (j - Len(q))
      BY <1>2, <1>4, <1>5, <2>1
    <3>2. QED
      BY <3>1
  <2>3. w[i] = p[k] /\ w[j] = p[l]
    BY <1>4, <2>2
  <2>4. QED
    BY <1>5, <2>2, <2>3 DEF SendPath
<1>6. QED
  BY <1>3, <1>5 DEF SendPath, w

LEMMA SendAfter ==
  ASSUME NEW p, SendPath(p), NEW q, Within(q, SendOps), Caught(q), Within(q, Around)
  PROVE  SendPath(p \o q)
<1> DEFINE w == p \o q
<1>1. "smtp" \notin Around
  BY DEF Around
<1>2. q \in Seq(StepType) /\ p \in Seq(StepType) /\ Len(q) \in Nat /\ Len(p) \in Nat
  BY DEF SendPath, Within
<1>3. Within(w, SendOps)
  BY WithinJoin DEF SendPath
<1>4. /\ Len(w) = Len(p) + Len(q)
      /\ \A i \in 1 .. Len(p) : w[i] = p[i]
      /\ \A i \in 1 .. Len(q) : w[Len(p) + i] = q[i]
  BY <1>2, JoinFields
<1> HIDE DEF w
<1>5. ASSUME NEW i \in 1 .. Len(w), NEW j \in 1 .. Len(w), i < j, w[i].do = "smtp"
      PROVE  w[j].skip > 0
  <2>1. CASE j \in 1 .. Len(p)
    <3>1. i \in 1 .. Len(p)
      BY <1>2, <1>4, <1>5, <2>1
    <3>2. QED
      BY <1>4, <1>5, <2>1, <3>1 DEF SendPath
  <2>2. CASE j \notin 1 .. Len(p)
    <3>1. PICK l \in 1 .. Len(q) : j = Len(p) + l
      <4>1. j - Len(p) \in 1 .. Len(q) /\ j = Len(p) + (j - Len(p))
        BY <1>2, <1>4, <1>5, <2>2
      <4>2. QED
        BY <4>1
    <3>2. w[j] = q[l]
      BY <1>4, <3>1
    <3>3. QED
      BY <3>1, <3>2 DEF Caught
  <2>3. QED
    BY <2>1, <2>2
<1>6. QED
  BY <1>3, <1>5 DEF SendPath, w

LEMMA SendSuffix ==
  ASSUME NEW p, SendPath(p), NEW q \in Seq(StepType), NEW x \in 1 .. Len(p), Len(q) = Len(p) - x,
         \A i \in 1 .. Len(q) : q[i] = p[x + i]
  PROVE  /\ SendPath(q)
         /\ Caught(p) \/ p[1].do = "smtp" => Caught(q)
<1>1. p \in Seq(StepType) /\ Len(p) \in Nat /\ Len(q) \in Nat
  BY DEF SendPath, Within
<1>2. \A i \in 1 .. Len(q) : x + i \in 1 .. Len(p) /\ 1 < x + i /\ 1 \in 1 .. Len(p)
  BY <1>1
<1>3. Within(q, SendOps)
  BY <1>2 DEF SendPath, Within
<1>4. ASSUME NEW i \in 1 .. Len(q), NEW j \in 1 .. Len(q), i < j, q[i].do = "smtp"
      PROVE  q[j].skip > 0
  <2>1. PICK k \in 1 .. Len(p), l \in 1 .. Len(p) : k = x + i /\ l = x + j /\ k < l
    <3>1. x + i \in 1 .. Len(p) /\ x + j \in 1 .. Len(p) /\ x + i < x + j
      BY <1>2, <1>4
    <3>2. QED
      BY <3>1
  <2>2. q[i] = p[k] /\ q[j] = p[l]
    BY <2>1
  <2>3. QED
    BY <1>4, <2>1, <2>2 DEF SendPath
<1>5. ASSUME Caught(p) \/ p[1].do = "smtp", NEW i \in 1 .. Len(q)
      PROVE  q[i].skip > 0
  <2>1. PICK k \in 1 .. Len(p) : k = x + i /\ 1 < k /\ 1 \in 1 .. Len(p)
    BY <1>2
  <2>2. q[i] = p[k]
    BY <2>1
  <2>3. QED
    BY <1>5, <2>1, <2>2 DEF SendPath, Caught
<1>6. QED
  BY <1>3, <1>4, <1>5 DEF SendPath, Caught

LEMMA SendTail ==
  ASSUME NEW p, SendPath(p), p # <<>>
  PROVE  /\ Head(p).do \in SendOps
         /\ SendPath(Tail(p))
         /\ Caught(p) \/ Head(p).do = "smtp" => Caught(Tail(p))
         /\ Caught(p) => Head(p).skip > 0
<1> DEFINE q == Tail(p)
<1>1. p \in Seq(StepType) /\ Len(p) \in Nat /\ 1 \in 1 .. Len(p)
  BY DEF SendPath, Within
<1>2. /\ q \in Seq(StepType) /\ Len(q) = Len(p) - 1 /\ \A i \in 1 .. Len(q) : q[i] = p[1 + i]
      /\ Head(p) = p[1]
  BY <1>1
<1> HIDE DEF q
<1>3. SendPath(q) /\ (Caught(p) \/ p[1].do = "smtp" => Caught(q))
  BY <1>1, <1>2, SendSuffix
<1>4. p[1].do \in SendOps /\ (Caught(p) => p[1].skip > 0)
  BY <1>1 DEF SendPath, Within, Caught
<1>5. QED
  BY <1>2, <1>3, <1>4 DEF q

\* What a throw leaves is the end of what there was to do.
LEMMA LeftFields ==
  ASSUME LockInv, NEW c \in Calls, todo[c] # <<>>
  PROVE  /\ Step(c).skip \in 0 .. Len(todo[c]) /\ Len(todo[c]) \in Nat
         /\ Step(c).skip = 0 => Left(c) = <<>>
         /\ Step(c).skip # 0 =>
              /\ Left(c) \in Seq(StepType) /\ Len(Left(c)) = Len(todo[c]) - Step(c).skip
              /\ \A i \in 1 .. Len(Left(c)) : Left(c)[i] = todo[c][Step(c).skip + i]
<1> DEFINE p == todo[c]
           q == Left(c)
<1>1. p \in Seq(StepType) /\ Len(p) \in Nat /\ 1 \in 1 .. Len(p) /\ Head(p) = p[1] /\ p[1] \in StepType
  BY DEF LockInv, CoreInv
<1>2. PICK x \in Nat : x = Step(c).skip /\ x <= Len(p)
  <2>1. PICK f, m : Course(p, f, None, request[c].in, MayUse(request[c]), m)
    BY DEF LockInv, PlaceInv, Path, Shape
  <2>2. 1 + p[1].skip <= Len(p) + 1
    BY <1>1, <2>1 DEF Course
  <2>3. p[1].skip \in Nat
    BY <1>1 DEF StepType
  <2>4. QED
    BY <1>1, <2>2, <2>3 DEF Step
<1>3. CASE x = 0
  BY <1>1, <1>2, <1>3 DEF Left
<1>4. CASE x # 0
  <2>1. x \in 1 .. Len(p)
    BY <1>1, <1>2, <1>4
  <2> DEFINE t == SubSeq(p, x + 1, Len(p))
  <2>2. q = t
    BY <1>2, <1>4 DEF Left
  <2> HIDE DEF p, q
  <2>3. t \in Seq(StepType) /\ Len(t) = Len(p) - x /\ \A i \in 1 .. Len(t) : t[i] = p[x + i]
    <3>1. \A i \in (x + 1) .. Len(p) : p[i] \in StepType
      BY <1>1, <2>1
    <3>2. /\ t \in Seq(StepType) /\ Len(t) = IF x + 1 <= Len(p) THEN Len(p) - (x + 1) + 1 ELSE 0
          /\ \A i \in 1 .. (Len(p) - (x + 1) + 1) : t[i] = p[(x + 1) + i - 1]
      BY <1>1, <2>1, <3>1, SubSeqProperties
    <3>3. Len(t) = Len(p) - x
      BY <1>1, <2>1, <3>2
    <3>4. QED
      BY <1>1, <2>1, <3>2, <3>3
  <2> HIDE DEF t
  <2>4. x \in 0 .. Len(p) /\ Len(p) \in Nat
    BY <1>1, <2>1
  <2>5. q \in Seq(StepType) /\ Len(q) = Len(p) - x /\ \A i \in 1 .. Len(q) : q[i] = p[x + i]
    BY <2>2, <2>3
  <2>6. QED
    BY <1>2, <1>4, <2>4, <2>5 DEF p, q
<1>5. QED
  BY <1>3, <1>4

LEMMA SendRest ==
  ASSUME LockInv, NEW c \in Calls, todo[c] # <<>>, SendPath(todo[c])
  PROVE  SendPath(Left(c)) /\ (Caught(todo[c]) => Caught(Left(c)))
<1>1. CASE Step(c).skip = 0
  <2>1. Left(c) = <<>>
    BY <1>1, LeftFields
  <2>2. QED
    BY <2>1 DEF SendPath, Within, Caught
<1>2. CASE Step(c).skip # 0
  <2>1. Step(c).skip \in 1 .. Len(todo[c])
    BY <1>2, LeftFields
  <2>2. QED
    BY <1>2, <2>1, LeftFields, SendSuffix
<1>3. QED
  BY <1>1, <1>2

\* The programs of the sends.
LEMMA SendParts ==
  ASSUME NEW r, Accepted(r)
  PROVE  /\ Within(Do("rate"), Around) /\ Within(ResolveAttachments(r), Around)
         /\ Within(GetEmail(r.in), Around) /\ Within(FetchDraft(r.in), Around)
         /\ Within(GetTemplate, Around)
         /\ SendPath(SendAndAppend)
         /\ Within(Try(DeleteDraft(r.in)), Around) /\ Caught(Try(DeleteDraft(r.in)))
         /\ SendPath(<<>>) /\ SendPath(Do("refuse"))
<1>1. /\ {"rate", "client", "list", "lock", "release", "fetch", "look", "readFile", "template",
          "createMissing", "append", "discard", "refuse"} \subseteq Around \cap Ops
      /\ "smtp" \in Ops \cap SendOps /\ Around \subseteq SendOps
      /\ r.in \in Folders /\ None \in Names /\ {"Sent", "Drafts"} \subseteq Names
  BY RequestFields, FolderNames DEF Around, SendOps, Ops, Quiet, Changing, Final
<1>2. /\ Within(Do("rate"), Around) /\ Within(Client, Around) /\ Within(List, Around)
      /\ Within(Do("fetch"), Around) /\ Within(DownloadPart, Around) /\ Within(Do("readFile"), Around)
      /\ Within(Do("template"), Around) /\ Within(Do("discard"), Around) /\ Within(Do("refuse"), Around)
      /\ Within(<<S("createMissing", "Sent")>>, Around) /\ Within(<<S("append", "Sent")>>, Around)
  BY <1>1, WithinStep DEF Client, List, DownloadPart
<1>3. Within(<<>>, Around) /\ Within(<<>>, SendOps)
  BY DEF Within
<1>4. Within(MessageToEmail, Around) /\ Within(LoadTemplates, Around)
  BY <1>2, WithinTry DEF MessageToEmail, DownloadMimePart, LoadTemplates
<1>5. Within(GetEmail(r.in), Around)
  <2>1. Within(Do("fetch") \o MessageToEmail, Around)
    BY <1>2, <1>4, WithinJoin
  <2>2. Within(Under(r.in, Do("fetch") \o MessageToEmail), Around)
    BY <1>1, <2>1, WithinUnder
  <2>3. QED
    BY <1>2, <2>2, WithinJoin DEF GetEmail
<1>6. Within(ResolveAttachments(r), Around)
  <2>1. Within(Do("fetch") \o DownloadPart, Around)
    BY <1>2, WithinJoin
  <2>2. Within(Under(r.in, Do("fetch") \o DownloadPart), Around)
    BY <1>1, <2>1, WithinUnder
  <2>3. Within(DownloadAttachment(r.in), Around)
    BY <1>2, <2>2, WithinJoin DEF DownloadAttachment
  <2>4. QED
    BY <1>3, <2>3 DEF ResolveAttachments
<1>7. Within(FetchDraft(r.in), Around)
  <2>1. Within(Client \o List, Around)
    BY <1>2, WithinJoin
  <2>2. QED
    BY <1>5, <2>1, WithinJoin DEF FetchDraft
<1>8. Within(GetTemplate, Around)
  BY <1>2, <1>4, WithinJoin DEF GetTemplate
<1>9. Within(Try(DeleteDraft(r.in)), Around) /\ Caught(Try(DeleteDraft(r.in)))
  <2>1. Within(Under(r.in, Do("discard")), Around)
    BY <1>1, <1>2, WithinUnder
  <2>2. Within(DeleteDraft(r.in), Around)
    BY <1>2, <2>1, WithinJoin DEF DeleteDraft
  <2>3. QED
    BY <2>2, WithinTry
<1>10. SendPath(<<>>) /\ SendPath(Do("refuse"))
  <2>1. SendPath(<<>>)
    BY <1>3 DEF SendPath
  <2>2. Do("refuse") \o <<>> = Do("refuse")
    BY <1>2, ConcatEmptySeq DEF Within
  <2>3. SendPath(Do("refuse") \o <<>>)
    BY <1>2, <2>1, SendBefore
  <2>4. QED
    BY <2>1, <2>2, <2>3
<1>11. SendPath(SendAndAppend)
  <2>1. Within(AppendSentMessage, Around)
    <3>1. PICK a \in StepType : a = S("createMissing", "Sent")
      BY <1>1, StepFields
    <3>2. PICK b \in StepType : b = S("append", "Sent")
      BY <1>1, StepFields
    <3>3. Within(Client \o List, Around) /\ Within(<<a>> \o <<b>>, Around)
      BY <1>2, <3>1, <3>2, WithinJoin
    <3>4. Within((Client \o List) \o (<<a>> \o <<b>>), Around)
      BY <3>3, WithinJoin
    <3>5. QED
      BY <3>1, <3>2, <3>4, JoinOfTwo DEF AppendSentMessage
  <2>2. Within(Try(AppendSentMessage), Around) /\ Caught(Try(AppendSentMessage))
    BY <2>1, WithinTry
  <2>3. Within(Try(AppendSentMessage), SendOps)
    BY <1>1, <2>2 DEF Within
  <2>4. SendPath(Do("smtp"))
    <3>1. PICK s \in StepType : s = S("smtp", None)
      BY <1>1, StepFields
    <3>2. Len(<<s>>) = 1 /\ <<s>> \in Seq(StepType)
      OBVIOUS
    <3>3. Within(Do("smtp"), SendOps) /\ Do("smtp") = <<s>>
      BY <1>1, <3>1, WithinStep DEF Do
    <3>4. \A i, j \in 1 .. Len(<<s>>) : ~(i < j)
      BY <3>2
    <3>5. QED
      BY <3>3, <3>4 DEF SendPath
  <2>5. QED
    BY <2>2, <2>3, <2>4, SendAfter DEF SendAndAppend
<1>12. QED
  BY <1>2, <1>5, <1>6, <1>7, <1>8, <1>9, <1>10, <1>11

LEMMA SendProgram ==
  ASSUME NEW r, Accepted(r), "smtp" \in MayUse(r)
  PROVE  SendPath(Program(r))
<1>1. r.tool \notin ReadTools /\ ~r.dry /\ "smtp" \in WriteOps(r)
  BY DEF MayUse, ReadOps, Quiet
<1>2. \/ r.tool \in {"send_draft", "send_email", "reply_email", "forward_email"}
      \/ r.tool = "apply_template" /\ r.action # "preview"
  <2>1. r.tool \in WriteTools
    BY <1>1, RequestFields
  <2>2. CASE r.tool \in {"move_email", "delete_email", "mark_email", "bulk_action", "save_draft",
               "send_draft", "send_email", "apply_template", "reply_email", "forward_email", "add_label"}
    BY <1>1, <2>2 DEF WriteOps, Sending
  <2>3. CASE r.tool \in {"remove_label", "create_label", "delete_label", "create_mailbox",
               "rename_mailbox", "delete_mailbox", "add_to_calendar", "create_reminder",
               "sieve_put_script", "sieve_delete_script", "sieve_activate_script"}
    BY <1>1, <2>3 DEF WriteOps
  <2>4. QED
    BY <2>1, <2>2, <2>3 DEF WriteTools
<1>3. Around \subseteq SendOps /\ \A p : Within(p, Around) => Within(p, SendOps)
  BY DEF Around, Within
<1>4. \A p : SendPath(p) => SendPath(Tool(r, p))
  BY SendParts DEF Tool
<1>5. SendPath(SendEmail(r))
  <2>1. Within(Do("rate") \o ResolveAttachments(r), Around)
    BY SendParts, WithinJoin
  <2>2. QED
    BY <2>1, SendParts, SendBefore DEF SendEmail
<1>6. SendPath(ReplyToEmail(r))
  <2>1. Within(Do("rate") \o GetEmail(r.in), Around)
    BY SendParts, WithinJoin
  <2>2. QED
    BY <2>1, SendParts, SendBefore DEF ReplyToEmail
<1>7. SendPath(ForwardEmail(r))
  <2>1. Within(Do("rate") \o ResolveAttachments(r), Around)
    BY SendParts, WithinJoin
  <2>2. Within((Do("rate") \o ResolveAttachments(r)) \o GetEmail(r.in), Around)
    BY <2>1, SendParts, WithinJoin
  <2>3. QED
    BY <2>2, SendParts, SendBefore DEF ForwardEmail
<1>8. SendPath(SendDraft(r))
  <2>1. Within(Do("rate") \o FetchDraft(r.in), Around)
    BY SendParts, WithinJoin
  <2>2. Within((Do("rate") \o FetchDraft(r.in)) \o ResolveAttachments(r), Around)
    BY <2>1, SendParts, WithinJoin
  <2>3. SendPath(((Do("rate") \o FetchDraft(r.in)) \o ResolveAttachments(r)) \o SendAndAppend)
    BY <2>2, SendParts, SendBefore
  <2>4. QED
    BY <1>3, <2>3, SendParts, SendAfter DEF SendDraft
<1>9. SendPath(GetTemplate \o SaveDraft) /\ SendPath(GetTemplate \o Tool(r, SendEmail(r)))
  <2>1. Within(SaveDraft, Around)
    <3>1. /\ {"client", "list", "createMissing", "append"} \subseteq Around \cap Ops
          /\ {None, "Drafts"} \subseteq Names
      BY FolderNames DEF Around, SendOps, Ops, Quiet, Changing, Final
    <3>2. PICK a \in StepType : a = S("createMissing", "Drafts")
      BY <3>1, StepFields
    <3>3. PICK b \in StepType : b = S("append", "Drafts")
      BY <3>1, StepFields
    <3>4. /\ Within(Client, Around) /\ Within(List, Around)
          /\ Within(<<a>>, Around) /\ Within(<<b>>, Around)
      BY <3>1, <3>2, <3>3, WithinStep DEF Client, List
    <3>5. Within(Client \o List, Around) /\ Within(<<a>> \o <<b>>, Around)
      BY <3>4, WithinJoin
    <3>6. Within((Client \o List) \o (<<a>> \o <<b>>), Around)
      BY <3>5, WithinJoin
    <3>7. QED
      BY <3>2, <3>3, <3>6, JoinOfTwo DEF SaveDraft
  <2>2. SendPath(SaveDraft)
    <3>1. "smtp" \notin Around
      BY DEF Around
    <3>2. QED
      BY <1>3, <2>1, <3>1 DEF SendPath, Within
  <2>3. QED
    BY <1>4, <1>5, <2>2, SendParts, SendBefore
<1>10. CASE r.tool \in {"send_draft", "send_email", "reply_email", "forward_email"}
  BY <1>1, <1>4, <1>5, <1>6, <1>7, <1>8, <1>10 DEF Program, WriteTool, SendDraftTool, SendEmailTool,
     ReplyEmailTool, ForwardEmailTool
<1>11. CASE r.tool = "apply_template" /\ r.action # "preview"
  <2>1. ApplyTemplateTool(r) = GetTemplate \o SaveDraft
        \/ ApplyTemplateTool(r) = GetTemplate \o Tool(r, SendEmail(r))
    BY <1>11 DEF ApplyTemplateTool
  <2>2. QED
    BY <1>1, <1>9, <1>11, <2>1 DEF Program, WriteTool
<1>12. QED
  BY <1>2, <1>10, <1>11

\* Once the delivery was heard of, a throw is caught.
SentInv ==
  \A c \in Calls :
    /\ "delivered" \in fate[c] => "smtp" \in MayUse(request[c])
    /\ "smtp" \in MayUse(request[c]) =>
         /\ SendPath(todo[c])
         /\ "delivered" \in fate[c] /\ "unheard" \notin fate[c] => Caught(todo[c]) /\ reply[c] # "error"

LEMMA SentKept ==
  ASSUME LockInv, SentInv, NEW c \in Calls, StepKind(c)
  PROVE  SentInv'
<1> USE NoneIsNothing
<1>1. request' = request /\ \A d \in Calls : MayUse(request[d])' = MayUse(request[d])
  BY DEF StepKind, MayUse, ReadOps, WriteOps
<1>2. SUFFICES ASSUME NEW d \in Calls
               PROVE  /\ "delivered" \in fate'[d] => "smtp" \in MayUse(request[d])
                      /\ "smtp" \in MayUse(request[d]) =>
                           /\ SendPath(todo'[d])
                           /\ "delivered" \in fate'[d] /\ "unheard" \notin fate'[d] =>
                                Caught(todo'[d]) /\ reply'[d] # "error"
  BY <1>1 DEF SentInv
<1>3. /\ "delivered" \in fate[d] => "smtp" \in MayUse(request[d])
      /\ "smtp" \in MayUse(request[d]) =>
           /\ SendPath(todo[d])
           /\ "delivered" \in fate[d] /\ "unheard" \notin fate[d] => Caught(todo[d]) /\ reply[d] # "error"
      /\ fate[d] \subseteq fate'[d] /\ (d # c => fate'[d] = fate[d])
      /\ reply[d] # None => todo[d] = <<>>
  BY MarksStay DEF SentInv, LockInv, CoreInv
<1>4. ASSUME SendPath(todo[d]) PROVE ~At(d, {"scan", "spread", "strategy", "sharing"} \cup Final)
  <2>1. todo[d] # <<>> => Head(todo[d]).do \in SendOps
    BY <1>4, SendTail
  <2>2. QED
    BY <2>1 DEF At, SendOps
<1>5. CASE d # c
  <2>1. "smtp" \in MayUse(request[d]) => todo'[d] = todo[d] /\ reply'[d] = reply[d]
    BY <1>3, <1>4, <1>5, OthersReply DEF At
  <2>2. QED
    BY <1>3, <1>5, <2>1
<1>6. CASE d = c /\ Answer(c)
  <2>1. todo' = todo /\ fate' = fate /\ reply'[c] = "ok"
    BY <1>6 DEF Answer, LockInv, CoreInv
  <2>2. QED
    BY <1>3, <1>6, <2>1
<1>7. CASE d = c /\ ~Answer(c)
  <2>1. PICK marks \in SUBSET Fates :
          /\ fate' = [fate EXCEPT ![c] = @ \cup marks]
          /\ "delivered" \in marks => At(c, {"smtp"})
          /\ Passes(c, marks) \/ Breaks(c, marks) \/ (UNCHANGED callVars /\ marks \subseteq {"hung"})
    BY <1>7 DEF StepKind, CallStep
  <2>2. todo[c] # <<>> /\ reply[c] = None
    BY <1>3, <1>7 DEF StepKind, CallStep
  <2>3. fate'[c] = fate[c] \cup marks
    BY <2>1 DEF LockInv, CoreInv
  <2>4. "delivered" \in marks => "smtp" \in MayUse(request[c])
    BY <2>1, <2>2, StandsAt DEF At, Step
  <2>5. SUFFICES ASSUME "smtp" \in MayUse(request[c])
                 PROVE  /\ SendPath(todo'[c])
                        /\ "delivered" \in fate'[c] /\ "unheard" \notin fate'[c] =>
                             Caught(todo'[c]) /\ reply'[c] # "error"
    BY <1>3, <1>7, <2>3, <2>4
  <2>6. /\ SendPath(todo[c])
        /\ "delivered" \in fate[c] /\ "unheard" \notin fate[c] => Caught(todo[c])
        /\ ~At(c, {"scan", "spread", "strategy", "sharing"} \cup Final)
    BY <1>3, <1>4, <1>7, <2>5
  <2>7. CASE Passes(c, marks)
    <3>1. todo' = [todo EXCEPT ![c] = Tail(todo[c])] /\ reply' = reply
      BY <2>6, <2>7 DEF Passes, Onward, At
    <3>2. todo'[c] = Tail(todo[c])
      BY <3>1 DEF LockInv, CoreInv
    <3>3. /\ SendPath(Tail(todo[c]))
          /\ Caught(todo[c]) \/ Head(todo[c]).do = "smtp" => Caught(Tail(todo[c]))
      BY <2>2, <2>6, SendTail
    <3>4. "delivered" \in marks => Head(todo[c]).do = "smtp"
      BY <2>1 DEF At
    <3>5. QED
      BY <2>2, <2>3, <2>6, <3>1, <3>2, <3>3, <3>4
  <2>8. CASE Breaks(c, marks)
    <3>1. todo'[c] = Left(c) /\ (Step(c).skip # 0 => reply'[c] = reply[c])
      <4>1. c \notin Sharing(c)
        BY <2>6 DEF Sharing, At
      <4>2. Propagates(c)
        BY <2>8 DEF Breaks, Throws
      <4>3. QED
        BY <4>1, <4>2 DEF Propagates, Over
    <3>2. SendPath(Left(c)) /\ (Caught(todo[c]) => Caught(Left(c)))
      BY <2>2, <2>6, SendRest
    <3>3. Caught(todo[c]) => Step(c).skip # 0
      BY <2>2, <2>6, SendTail DEF Step
    <3>4. "delivered" \in marks => "unheard" \in marks
      BY <2>8 DEF Breaks
    <3>5. QED
      BY <2>2, <2>3, <2>6, <3>1, <3>2, <3>3, <3>4
  <2>9. CASE UNCHANGED callVars /\ marks \subseteq {"hung"}
    BY <2>2, <2>3, <2>6, <2>9 DEF callVars
  <2>10. QED
    BY <2>1, <2>7, <2>8, <2>9
<1>8. QED
  BY <1>5, <1>6, <1>7

LEMMA SentStep ==
  ASSUME LockInv, SentInv, [Next]_vars
  PROVE  SentInv'
<1>1. ASSUME UNCHANGED <<site, request, todo, reply, fate>> PROVE SentInv'
  <2>1. \A d \in Calls : MayUse(request[d])' = MayUse(request[d])
    BY <1>1 DEF MayUse, ReadOps, WriteOps
  <2>2. QED
    BY <1>1, <2>1 DEF SentInv
<1>2. CASE Outside
  BY <1>1, <1>2, OutsideKept DEF Outside, keptVars, fixedVars, callVars
<1>3. CASE UNCHANGED vars
  BY <1>1, <1>3 DEF vars, callVars, keptVars, fixedVars
<1>4. ASSUME NEW c \in Calls, Goes(c) PROVE SentInv'
  BY <1>4, StepKinds, SentKept
<1>5. QED
  BY <1>2, <1>3, <1>4 DEF Next

LEMMA SentInit ==
  ASSUME Init, LockInv
  PROVE  SentInv
<1>1. todo = [c \in Calls |-> Program(request[c])] /\ fate = [c \in Calls |-> {}]
  BY DEF Init
<1>2. QED
  BY <1>1, SendProgram DEF SentInv, LockInv, CoreInv

LEMMA SentTold ==
  ASSUME SentInv
  PROVE  SentIsOk
  BY DEF SentInv, SentIsOk

(***************************************************************************)
(* Where nothing fails.                                                    *)
(***************************************************************************)

\* Without a new fault the connection stays, and so does what is hung.
Sound(c) ==
  /\ faults' \in {faults, faults + 1}
  /\ faults' = faults =>
       /\ up => (up' /\ gen' = gen)
       /\ hung' \in {hung, None}
       /\ \/ mine' = mine
          \/ At(c, {"client"}) /\ \E g : mine' = [mine EXCEPT ![c] = g]

LEMMA GoesSound ==
  ASSUME LockInv, NEW c \in Calls, Goes(c)
  PROVE  Sound(c)
<1> USE DEF keptVars, fixedVars, worldVars, serverVars, linkVars, Sound
<1>1. faults \in Nat /\ faults # faults + 1
  BY DEF LockInv, CoreInv
<1>2. CASE Answer(c) \/ Refuse(c) \/ CheckRateLimit(c) \/ ConnectFails(c) \/ GetStrategy(c)
           \/ Detected(c) \/ AskForLock(c) \/ GetLock(c) \/ LockTimeout(c) \/ Release(c)
  <2>1. Fails(c) => UNCHANGED <<up, gen, hung>>
    BY DEF Fails
  <2>2. GetLock(c) => UNCHANGED <<up, gen, hung, mine, faults>>
    BY <2>1 DEF GetLock
  <2>3. ASSUME ~GetLock(c)
        PROVE  UNCHANGED <<up, gen, hung, mine>> /\ faults' \in {faults, faults + 1}
    BY <1>2, <2>1, <2>3 DEF Answer, Refuse, CheckRateLimit, ConnectFails, GetStrategy, Detected,
                            AskForLock, LockTimeout, Release
  <2>4. QED
    BY <1>1, <2>2, <2>3
<1>1a. CASE GetImapClient(c)
  <2>1. /\ At(c, {"client"}) /\ up' /\ mine' = [mine EXCEPT ![c] = gen'] /\ (up => gen' = gen)
        /\ UNCHANGED <<hung, faults>>
    BY <1>1a DEF GetImapClient
  <2>2. QED
    BY <1>1, <2>1
<1>3. CASE Look(c) \/ ScanFinds(c) \/ ScanEmpty(c) \/ Fetch(c) \/ OpenFetch(c) \/ CloseFetch(c)
           \/ ListFolders(c) \/ FolderAllowed(c) \/ SpreadSearch(c) \/ SearchFolder(c)
  BY <1>1, <1>3 DEF Look, ScanFinds, ScanEmpty, Fetch, OpenFetch, CloseFetch, ListFolders,
                    FolderAllowed, SpreadSearch, SearchFolder, ReadOk, Ends
<1>4. ASSUME NEW marks, Done(c, marks) PROVE Sound(c)
  BY <1>1, <1>4 DEF Done
<1>5. CASE MoveMessages(c) \/ DeleteMessages(c) \/ MarkMessages(c) \/ CopyMessages(c) \/ DeleteCopies(c)
           \/ CreateMissingMailbox(c) \/ AppendMessage(c) \/ MailboxCreate(c) \/ MailboxRename(c)
           \/ MailboxDelete(c)
  BY <1>4, <1>5 DEF MoveMessages, DeleteMessages, MarkMessages, CopyMessages, DeleteCopies,
                    CreateMissingMailbox, AppendMessage, MailboxCreate, MailboxRename, MailboxDelete, DoneBy
<1>6. CASE Rejected(c) \/ DraftKept(c) \/ Hangs(c) \/ NoConnection(c) \/ Deliver(c) \/ SendFails(c)
  BY <1>1, <1>6 DEF Rejected, DraftKept, Hangs, NoConnection, Deliver, SendFails, Fails
<1>7. CASE ReadElsewhere(c) \/ FailsElsewhere(c) \/ SaveFile(c) \/ ChangeScripts(c)
  BY <1>1, <1>7 DEF ReadElsewhere, FailsElsewhere, SaveFile, ChangeScripts, Aside, Fails
<1>8. CASE FindExistingEvent(c) \/ WriteToApp(c) \/ WriteOffMac(c)
  <2>1. UNCHANGED <<up, gen, hung, mine>>
    BY <1>8 DEF FindExistingEvent, WriteToApp, WriteOffMac, Apart
  <2>2. ASSUME NEW status, Ended(c, status) PROVE faults' = faults
    BY <2>2 DEF Ended
  <2>3. ASSUME NEW wrote, EndedUnheard(c, wrote) PROVE faults' = faults + 1
    BY <2>3 DEF EndedUnheard
  <2>4. faults' \in {faults, faults + 1}
    BY <1>8, <2>2, <2>3 DEF FindExistingEvent, WriteToApp, WriteOffMac
  <2>5. QED
    BY <2>1, <2>4
<1>9. QED
  BY <1>2, <1>3, <1>5, <1>6, <1>7, <1>8, <1>1a DEF Goes

LEMMA EditsAdd ==
  ASSUME Edits, reborn' = {}
  PROVE  reborn = {} /\ exists \subseteq exists'
<1>1. CASE \E f \in Folders : DeleteFolder(f)
  BY <1>1 DEF DeleteFolder
<1>2. CASE \E f \in Folders, g \in Folders : RenameFolder(f, g)
  BY <1>2 DEF RenameFolder
<1>3. reborn \subseteq reborn'
  BY EditsGrow
<1>4. QED
  BY <1>1, <1>2, <1>3 DEF Edits, NoChange, Move, Copy, Append1, Expunge, Mark, CreateFolder

(***************************************************************************)
(* save_draft.                                                             *)
(***************************************************************************)

ToAppend == <<S("append", "Drafts")>>
ToCreate == <<S("createMissing", "Drafts")>> \o ToAppend
ToList == List \o ToCreate
ToConnect == Client \o ToList
DraftPaths == {ToConnect, ToList, ToCreate, ToAppend, <<>>}

LEMMA FrontOf ==
  ASSUME NEW s \in StepType, NEW q \in Seq(StepType)
  PROVE  /\ <<s>> \o q \in Seq(StepType) /\ <<s>> \o q # <<>>
         /\ Head(<<s>> \o q) = s /\ Tail(<<s>> \o q) = q
<1> DEFINE w == <<s>> \o q
           t == Tail(w)
<1>1. /\ w \in Seq(StepType) /\ Len(w) = 1 + Len(q) /\ w[1] = s /\ Len(q) \in Nat
      /\ \A i \in 1 .. Len(q) : w[1 + i] = q[i]
  OBVIOUS
<1> HIDE DEF w
<1>2. w # <<>> /\ Head(w) = s
  BY <1>1
<1>3. t \in Seq(StepType) /\ Len(t) = Len(q) /\ \A i \in 1 .. Len(q) : t[i] = w[i + 1]
  BY <1>1, <1>2
<1> HIDE DEF t
<1>4. \A i \in 1 .. Len(q) : t[i] = q[i]
  <2>1. \A i \in 1 .. Len(q) : i + 1 = 1 + i
    BY <1>1
  <2>2. QED
    BY <1>1, <1>3, <2>1
<1>5. t = q
  BY <1>3, <1>4, SeqEqual
<1>6. QED
  BY <1>1, <1>2, <1>5 DEF w, t

LEMMA DraftParts ==
  /\ SaveDraft = ToConnect
  /\ DraftPaths \subseteq Seq(StepType) /\ <<>> \notin {ToConnect, ToList, ToCreate, ToAppend}
  /\ Head(ToConnect).do = "client" /\ Head(ToConnect).skip = 0 /\ Tail(ToConnect) = ToList
  /\ Head(ToList).do = "list" /\ Head(ToList).skip = 0 /\ Tail(ToList) = ToCreate
  /\ Head(ToCreate).do = "createMissing" /\ Head(ToCreate).skip = 0 /\ Head(ToCreate).in = "Drafts"
  /\ Tail(ToCreate) = ToAppend
  /\ Head(ToAppend).do = "append" /\ Head(ToAppend).skip = 0 /\ Head(ToAppend).in = "Drafts"
  /\ Tail(ToAppend) = <<>>
<1>1. {"client", "list", "createMissing", "append"} \subseteq Ops /\ {None, "Drafts"} \subseteq Names
  BY FolderNames DEF Ops, Quiet, Changing
<1>2. PICK a \in StepType : a = S("client", None) /\ a.do = "client" /\ a.skip = 0
  BY <1>1, StepFields
<1>3. PICK b \in StepType : b = S("list", None) /\ b.do = "list" /\ b.skip = 0
  BY <1>1, StepFields
<1>4. PICK d \in StepType :
        d = S("createMissing", "Drafts") /\ d.do = "createMissing" /\ d.skip = 0 /\ d.in = "Drafts"
  BY <1>1, StepFields
<1>5. PICK e \in StepType : e = S("append", "Drafts") /\ e.do = "append" /\ e.skip = 0 /\ e.in = "Drafts"
  BY <1>1, StepFields
<1>6. Client = <<a>> /\ List = <<b>> /\ ToAppend = <<e>> /\ ToCreate = <<d>> \o <<e>>
  BY <1>2, <1>3, <1>4, <1>5 DEF Client, List, Do, ToAppend, ToCreate
<1>7. <<a>> \in Seq(StepType) /\ <<b>> \in Seq(StepType) /\ <<e>> \in Seq(StepType)
      /\ Head(<<e>>) = e /\ Tail(<<e>>) = <<>> /\ <<e>> # <<>>
  OBVIOUS
<1>8. /\ ToCreate \in Seq(StepType) /\ ToCreate # <<>> /\ Head(ToCreate) = d /\ Tail(ToCreate) = ToAppend
  BY <1>6, <1>7, FrontOf
<1>9. /\ ToList \in Seq(StepType) /\ ToList # <<>> /\ Head(ToList) = b /\ Tail(ToList) = ToCreate
  BY <1>6, <1>8, FrontOf DEF ToList
<1>10. /\ ToConnect \in Seq(StepType) /\ ToConnect # <<>> /\ Head(ToConnect) = a /\ Tail(ToConnect) = ToList
  BY <1>6, <1>9, FrontOf DEF ToConnect
<1>11. SaveDraft = ToConnect
  <2>1. SaveDraft = (Client \o List) \o ToCreate
    BY <1>4, <1>5, <1>6, JoinOfTwo DEF SaveDraft
  <2>2. QED
    BY <1>6, <1>7, <1>8, <2>1, ConcatAssociative DEF ToConnect, ToList
<1>12. <<>> \in Seq(StepType)
  OBVIOUS
<1>13. QED
  BY <1>2, <1>3, <1>4, <1>5, <1>6, <1>7, <1>8, <1>9, <1>10, <1>11, <1>12 DEF DraftPaths

\* Where nothing failed and no folder was removed or renamed, the draft has its connection,
\* has listed folders that are there, and appends to one that is there.
DraftInv ==
  /\ hung # None => faults > 0
  /\ \A c \in Calls : request[c].tool = "save_draft" =>
       /\ todo[c] \in DraftPaths
       /\ faults = 0 /\ reborn = {} =>
            /\ reply[c] # "error"
            /\ At(c, {"list", "createMissing", "append"}) => Live(c)
            /\ At(c, {"createMissing"}) => knows[c].listed \subseteq exists
            /\ At(c, {"append"}) => "Drafts" \in exists

LEMMA DraftAt ==
  ASSUME NEW c \in Calls, todo[c] \in DraftPaths
  PROVE  /\ ~At(c, {"sharing"})
         /\ todo[c] # <<>> => /\ Step(c).skip = 0 /\ Tail(todo[c]) \in DraftPaths
                              /\ At(c, {"client", "list", "createMissing", "append"})
         /\ At(c, {"client"}) => todo[c] = ToConnect
         /\ At(c, {"list"}) => todo[c] = ToList
         /\ At(c, {"createMissing"}) => todo[c] = ToCreate /\ Step(c).in = "Drafts"
         /\ At(c, {"append"}) => todo[c] = ToAppend /\ Step(c).in = "Drafts"
<1>1. CASE todo[c] = <<>>
  BY <1>1 DEF At
<1>2. CASE todo[c] = ToConnect
  BY <1>2, DraftParts DEF At, Step, DraftPaths
<1>3. CASE todo[c] = ToList
  BY <1>3, DraftParts DEF At, Step, DraftPaths
<1>4. CASE todo[c] = ToCreate
  BY <1>4, DraftParts DEF At, Step, DraftPaths
<1>5. CASE todo[c] = ToAppend
  BY <1>5, DraftParts DEF At, Step, DraftPaths
<1>6. QED
  BY <1>1, <1>2, <1>3, <1>4, <1>5 DEF DraftPaths

\* What a draft does where nothing fails.
LEMMA DraftGoes ==
  ASSUME LockInv, NEW c \in Calls, Goes(c), faults' = faults,
         At(c, {"client", "list", "createMissing", "append"})
  PROVE  \/ GetImapClient(c)
         \/ ListFolders(c)
         \/ CreateMissingMailbox(c) /\ GoesOn(c) /\ UNCHANGED linkVars
         \/ AppendMessage(c) /\ GoesOn(c) /\ UNCHANGED linkVars
         \/ Rejected(c) /\ Impossible(c)
         \/ NoConnection(c)
<1> DEFINE D == {"client", "list", "createMissing", "append"}
<1>1. ASSUME NEW X, At(c, X), X \cap D = {} PROVE FALSE
  BY <1>1 DEF At
<1>2. faults # faults + 1
  BY DEF LockInv, CoreInv
<1>3. ~GetLock(c) /\ ~LockTimeout(c)
  <2>1. c \notin Range(waiting)
    BY <1>1 DEF LockInv, LineInv
  <2>2. waiting \in Seq(Calls)
    BY DEF LockInv, LineInv
  <2>3. ASSUME GetLock(c) PROVE FALSE
    <3>1. 1 \in DOMAIN waiting /\ waiting[1] = c
      BY <2>2, <2>3 DEF GetLock
    <3>2. QED
      BY <2>1, <3>1 DEF Range
  <2>4. ASSUME LockTimeout(c) PROVE FALSE
    BY <2>1, <2>4 DEF LockTimeout, Range
  <2>5. QED
    BY <2>3, <2>4
<1>4. todo[c] # <<>> /\ ~Answer(c)
  BY DEF At, Answer
<1> HIDE DEF D
<1>5. /\ D \cap {"refuse", "rate", "strategy", "sharing", "detected", "lock", "release", "look", "scan",
                 "fetch", "open", "close", "real", "removable", "spread", "search"} = {}
      /\ D \cap {"move", "delete", "discard", "mark", "copy", "deleteCopies", "create", "rename",
                 "remove", "smtp"} = {}
      /\ D \cap Elsewhere = {} /\ D \cap Final = {}
  BY DEF D, Elsewhere, Final
<1>6. ~(Refuse(c) \/ CheckRateLimit(c) \/ GetStrategy(c) \/ Detected(c) \/ AskForLock(c) \/ Release(c))
  BY <1>1, <1>5 DEF Refuse, CheckRateLimit, GetStrategy, Detected, AskForLock, Release
<1>7. ~(Look(c) \/ ScanFinds(c) \/ ScanEmpty(c) \/ Fetch(c) \/ OpenFetch(c) \/ CloseFetch(c)
        \/ FolderAllowed(c) \/ SpreadSearch(c) \/ SearchFolder(c))
  BY <1>1, <1>5 DEF Look, ScanFinds, ScanEmpty, Fetch, OpenFetch, CloseFetch, FolderAllowed,
                    SpreadSearch, SearchFolder, Runs
<1>8. ~(MoveMessages(c) \/ DeleteMessages(c) \/ MarkMessages(c) \/ CopyMessages(c) \/ DeleteCopies(c)
        \/ MailboxCreate(c) \/ MailboxRename(c) \/ MailboxDelete(c))
  BY <1>1, <1>5 DEF MoveMessages, DeleteMessages, MarkMessages, CopyMessages, DeleteCopies,
              MailboxCreate, MailboxRename, MailboxDelete, Runs
<1>9. ~(ConnectFails(c) \/ DraftKept(c) \/ Hangs(c) \/ Deliver(c) \/ SendFails(c))
  BY <1>2 , <1>1, <1>5 DEF ConnectFails, DraftKept, Hangs, Deliver, SendFails
<1>10. ~(ReadElsewhere(c) \/ FailsElsewhere(c) \/ SaveFile(c) \/ ChangeScripts(c) \/ FindExistingEvent(c)
         \/ WriteToApp(c) \/ WriteOffMac(c))
  <2>1. \A X \in SUBSET (Elsewhere \cup Final) : ~At(c, X)
    BY <1>1, <1>5
  <2>2. /\ {"ask", "readState", "readFile", "template", "sieveOpen", "listScripts", "getScript",
            "lstat"} \subseteq Elsewhere
        /\ {"openNew"} \subseteq Elsewhere /\ {"writeFile"} \subseteq Elsewhere
        /\ {"putScript", "deleteScript", "setActive"} \subseteq Elsewhere
        /\ {"findEvent"} \subseteq Final /\ {"addEvent", "addReminder"} \subseteq Final
        /\ {"openIcs"} \subseteq Final /\ {"noApp"} \subseteq Final
    BY DEF Elsewhere, Final
  <2>3. QED
    BY <2>1, <2>2 DEF ReadElsewhere, FailsElsewhere, SaveFile, ChangeScripts, FindExistingEvent,
                      WriteToApp, WriteOffMac
<1>11. ASSUME NEW marks, Done(c, marks) PROVE GoesOn(c) /\ UNCHANGED linkVars
  BY <1>2, <1>11 DEF Done
<1>12. Rejected(c) => Impossible(c)
  BY <1>2 DEF Rejected
<1>13. /\ CreateMissingMailbox(c) => GoesOn(c) /\ UNCHANGED linkVars
       /\ AppendMessage(c) => GoesOn(c) /\ UNCHANGED linkVars
  BY <1>11 DEF CreateMissingMailbox, AppendMessage
<1>14. QED
  BY <1>3, <1>4, <1>6, <1>7, <1>8, <1>9, <1>10, <1>12, <1>13 DEF Goes

LEMMA DraftStep ==
  ASSUME LockInv, MailInv, TouchInv, DraftInv, NEW c \in Calls, Goes(c),
         request[c].tool = "save_draft", faults' = 0, reborn' = {}
  PROVE  /\ reply'[c] # "error"
         /\ At(c, {"list", "createMissing", "append"})' => Live(c)'
         /\ At(c, {"createMissing"})' => knows'[c].listed \subseteq exists'
         /\ At(c, {"append"})' => "Drafts" \in exists'
<1> USE NoneIsNothing
<1>1. StepKind(c) /\ WorldStep(c) /\ Sound(c)
  BY StepKinds, WorldSteps, GoesSound
<1>2. faults = 0 /\ faults' = faults
  <2>1. faults \in Nat
    BY DEF LockInv, CoreInv
  <2>2. QED
    BY <1>1, <2>1 DEF Sound
<1>3. reborn = {} /\ exists \subseteq exists'
  BY <1>1, EditsAdd DEF WorldStep
<1>4. /\ todo[c] \in DraftPaths /\ reply[c] # "error"
      /\ At(c, {"list", "createMissing", "append"}) => Live(c)
      /\ At(c, {"createMissing"}) => knows[c].listed \subseteq exists
      /\ At(c, {"append"}) => "Drafts" \in exists
  BY <1>2, <1>3 DEF DraftInv
<1>5. /\ todo[c] # <<>> => At(c, {"client", "list", "createMissing", "append"})
      /\ At(c, {"client"}) => todo[c] = ToConnect
      /\ At(c, {"list"}) => todo[c] = ToList
      /\ At(c, {"createMissing"}) => todo[c] = ToCreate /\ Step(c).in = "Drafts"
      /\ At(c, {"append"}) => todo[c] = ToAppend /\ Step(c).in = "Drafts"
  BY <1>4, DraftAt
<1>6. CASE Answer(c)
  <2>1. todo'[c] = <<>> /\ reply'[c] = "ok"
    BY <1>6 DEF Answer, LockInv, CoreInv
  <2>2. QED
    BY <2>1 DEF At
<1>7. CASE todo[c] # <<>>
  <2>0. ASSUME GoesOn(c) PROVE todo'[c] = Tail(todo[c]) /\ reply'[c] = reply[c]
    BY <2>0 DEF GoesOn, LockInv, CoreInv
  <2>1. CASE GetImapClient(c)
    <3>1. /\ At(c, {"client"}) /\ GoesOn(c) /\ up' /\ mine'[c] = gen'
      BY <2>1 DEF GetImapClient, LockInv, CoreInv
    <3>2. todo'[c] = ToList /\ reply'[c] = reply[c]
      BY <1>5, <2>0, <3>1, DraftParts
    <3>3. ~At(c, {"createMissing", "append"})'
      BY <3>2, DraftParts DEF At
    <3>4. QED
      BY <1>4, <3>1, <3>2, <3>3 DEF Live, At
  <2>2. CASE ListFolders(c)
    <3>1. /\ At(c, {"list"}) /\ GoesOn(c) /\ UNCHANGED <<up, gen, mine>>
          /\ exists' = exists /\ knows' = [knows EXCEPT ![c].listed = exists]
      BY <2>2 DEF ListFolders, ReadOk, Ends, Runs, NoChange, linkVars, keptVars, fixedVars
    <3>2. todo'[c] = ToCreate /\ reply'[c] = reply[c]
      BY <1>5, <2>0, <3>1, DraftParts
    <3>3. ~At(c, {"append"})'
      BY <3>2, DraftParts DEF At
    <3>4. knows'[c].listed = exists
      BY <3>1 DEF TouchInv, Sights
    <3>5. Live(c)
      BY <1>4, <3>1 DEF At
    <3>6. QED
      BY <1>4, <3>1, <3>2, <3>3, <3>4, <3>5 DEF Live
  <2>3. CASE CreateMissingMailbox(c) /\ GoesOn(c) /\ UNCHANGED linkVars
    <3>1. At(c, {"createMissing"}) /\ UNCHANGED <<up, gen, mine>>
      BY <2>3 DEF CreateMissingMailbox, Runs, Done, linkVars, keptVars, fixedVars
    <3>2. todo'[c] = ToAppend /\ reply'[c] = reply[c] /\ Step(c).in = "Drafts"
      BY <1>5, <2>0, <2>3, <3>1, DraftParts
    <3>3. ~At(c, {"createMissing"})'
      BY <3>2, DraftParts DEF At
    <3>4. "Drafts" \in exists'
      BY <1>3, <1>4, <2>3, <3>1, <3>2 DEF CreateMissingMailbox, Present, CreateFolder
    <3>5. Live(c)
      BY <1>4, <3>1 DEF At
    <3>6. QED
      BY <1>4, <3>1, <3>2, <3>3, <3>4, <3>5 DEF Live
  <2>4. CASE AppendMessage(c) /\ GoesOn(c) /\ UNCHANGED linkVars
    <3>1. At(c, {"append"})
      BY <2>4 DEF AppendMessage, Runs
    <3>2. todo'[c] = <<>> /\ reply'[c] = reply[c]
      BY <1>5, <2>0, <2>4, <3>1, DraftParts
    <3>3. QED
      BY <1>4, <3>2 DEF At
  <2>5. CASE Rejected(c) /\ Impossible(c)
    <3>1. At(c, {"list", "createMissing", "append"})
      <4>1. ~At(c, {"client"})
        BY <2>5 DEF Rejected, Runs, At, Commands, Reads, Changes
      <4>2. QED
        BY <1>5, <1>7, <4>1 DEF At
    <3>2. CASE At(c, {"list"})
      BY <2>5, <3>2 DEF Impossible, At, Step
    <3>3. CASE At(c, {"createMissing"})
      BY <2>5, <3>3 DEF Impossible, At, Step, Present
    <3>4. CASE At(c, {"append"})
      BY <1>4, <1>5, <2>5, <3>4 DEF Impossible, At, Step
    <3>5. QED
      BY <3>1, <3>2, <3>3, <3>4 DEF At
  <2>6. CASE NoConnection(c)
    <3>1. ~At(c, {"client"})
      BY <2>6 DEF NoConnection, At, Commands, Reads, Changes
    <3>2. Live(c)
      BY <1>4, <1>5, <1>7, <3>1 DEF At
    <3>3. QED
      BY <2>6, <3>2 DEF NoConnection
  <2>7. QED
    BY <1>2, <1>5, <1>7, <2>1, <2>2, <2>3, <2>4, <2>5, <2>6, DraftGoes
<1>8. QED
  BY <1>1, <1>6, <1>7 DEF StepKind, CallStep

LEMMA DraftKeptByAll ==
  ASSUME LockInv, MailInv, TouchInv, DraftInv, NEW c \in Calls, Goes(c)
  PROVE  DraftInv'
<1> USE NoneIsNothing
<1>1. StepKind(c) /\ WorldStep(c) /\ Sound(c)
  BY StepKinds, WorldSteps, GoesSound
<1>2. faults \in Nat /\ hung \in Calls \cup {None}
  BY DEF LockInv, CoreInv
<1>3. hung' # None => faults' > 0
  BY <1>1, <1>2 DEF Sound, DraftInv
<1>4. SUFFICES ASSUME NEW d \in Calls, request[d].tool = "save_draft"
               PROVE  /\ todo'[d] \in DraftPaths
                      /\ faults' = 0 /\ reborn' = {} =>
                           /\ reply'[d] # "error"
                           /\ At(d, {"list", "createMissing", "append"})' => Live(d)'
                           /\ At(d, {"createMissing"})' => knows'[d].listed \subseteq exists'
                           /\ At(d, {"append"})' => "Drafts" \in exists'
  <2>1. request' = request /\ DraftPaths' = DraftPaths
    BY <1>1 DEF StepKind
  <2>2. QED
    BY <1>3, <1>4, <2>1 DEF DraftInv
<1>5. /\ todo[d] \in DraftPaths /\ ~At(d, {"sharing"}) /\ <<>> \in DraftPaths
      /\ todo[d] # <<>> => /\ Step(d).skip = 0 /\ Tail(todo[d]) \in DraftPaths
                           /\ At(d, {"client", "list", "createMissing", "append"})
  BY <1>4, DraftAt DEF DraftInv, DraftPaths
<1>6. CASE d = c
  <2>1. CASE todo[c] = <<>>
    <3>1. todo' = todo
      BY <1>1, <2>1, NoStepsLeft DEF Answer
    <3>2. QED
      BY <1>4, <1>5, <1>6, <3>1, DraftStep
  <2>2. CASE todo[c] # <<>>
    <3>1. At(c, Lasting)
      BY <1>5, <1>6, <2>2 DEF At, Lasting, Ops, Quiet, Changing, Final
    <3>2. todo'[c] \in {todo[c], Tail(todo[c]), <<>>}
      BY <1>1, <1>5, <1>6, <2>2, <3>1, LastingTail, ThrowEnds
    <3>3. QED
      BY <1>4, <1>5, <1>6, <2>2, <3>2, DraftStep
  <2>3. QED
    BY <2>1, <2>2
<1>7. CASE d # c
  <2>1. todo'[d] = todo[d] /\ reply'[d] = reply[d]
    BY <1>1, <1>5, <1>7, OthersReply
  <2>2. SUFFICES ASSUME faults' = 0, reborn' = {}
                 PROVE  /\ reply'[d] # "error"
                        /\ At(d, {"list", "createMissing", "append"})' => Live(d)'
                        /\ At(d, {"createMissing"})' => knows'[d].listed \subseteq exists'
                        /\ At(d, {"append"})' => "Drafts" \in exists'
    BY <1>5, <2>1
  <2>3. faults = 0 /\ faults' = faults
    BY <1>1, <1>2, <2>2 DEF Sound
  <2>4. reborn = {} /\ exists \subseteq exists'
    BY <1>1, <2>2, EditsAdd DEF WorldStep
  <2>5. knows'[d] = knows[d]
    BY <1>1, <1>7 DEF WorldStep, Sees, TouchInv
  <2>6. mine'[d] = mine[d]
    BY <1>1, <1>7, <2>3 DEF Sound, LockInv, CoreInv
  <2>7. Live(d) => Live(d)'
    BY <1>1, <2>3, <2>6 DEF Sound, Live
  <2>8. /\ reply[d] # "error"
        /\ At(d, {"list", "createMissing", "append"}) => Live(d)
        /\ At(d, {"createMissing"}) => knows[d].listed \subseteq exists
        /\ At(d, {"append"}) => "Drafts" \in exists
    BY <1>4, <2>3, <2>4 DEF DraftInv
  <2>9. \A D : At(d, D)' <=> todo[d] # <<>> /\ Head(todo[d]).do \in D
    BY <2>1 DEF At
  <2>10. QED
    BY <2>1, <2>4, <2>5, <2>7, <2>8 DEF At
<1>8. QED
  BY <1>6, <1>7

LEMMA DraftsStep ==
  ASSUME LockInv, MailInv, TouchInv, DraftInv, [Next]_vars
  PROVE  DraftInv'
<1>0. faults \in Nat /\ DraftPaths' = DraftPaths
  BY DEF LockInv, CoreInv
<1>1. ASSUME UNCHANGED <<request, todo, reply, knows, faults, linkVars, mine>>, Edits PROVE DraftInv'
  <2>1. reborn' = {} => reborn = {} /\ exists \subseteq exists'
    BY <1>1, EditsAdd
  <2>2. SUFFICES ASSUME NEW d \in Calls, request[d].tool = "save_draft", faults = 0, reborn' = {}
                 PROVE  /\ reply[d] # "error"
                        /\ At(d, {"list", "createMissing", "append"}) => Live(d)
                        /\ At(d, {"createMissing"}) => knows[d].listed \subseteq exists'
                        /\ At(d, {"append"}) => "Drafts" \in exists'
    BY <1>0, <1>1 DEF DraftInv, At, Live, linkVars
  <2>3. QED
    BY <2>1, <2>2 DEF DraftInv
<1>2. CASE Outside
  <2>1. UNCHANGED <<request, todo, reply, knows, mine>>
    BY <1>2 DEF Outside, callVars, keptVars, fixedVars
  <2>2. CASE OtherClient
    <3>1. Edits
      <4>1. {"INBOX", "Work", "Drafts", "Sent", "New"} \subseteq Folders
        BY DEF Folders, SpecialUse
      <4>2. ASSUME NEW f \in Folders, NEW m \in mail[f], NEW g \in Folders, Move({m}, f, g)
            PROVE  Edits
        BY <4>2 DEF Edits
      <4>3. ASSUME NEW f \in Folders, NEW m \in mail[f], Expunge({m}, f)
            PROVE  Edits
        BY <4>3 DEF Edits
      <4>4. ASSUME NEW g \in Folders \ exists, CreateFolder(g)
            PROVE  Edits
        BY <4>4 DEF Edits
      <4>5. \/ \E f, g \in {"INBOX", "Work"} \cap exists : \E m \in mail[f] : Move({m}, f, g)
            \/ \E f \in {"INBOX", "Drafts"} : \E m \in mail[f] : Expunge({m}, f)
            \/ \E f \in {"Drafts", "Sent", "Work", "New"} \ exists : CreateFolder(f)
        BY <2>2 DEF OtherClient
      <4>6. QED
        BY <4>1, <4>2, <4>3, <4>4, <4>5
    <3>2. UNCHANGED <<faults, linkVars>>
      BY <2>2 DEF OtherClient
    <3>3. QED
      BY <1>1, <2>1, <3>1, <3>2
  <2>3. CASE Drop
    <3>1. faults' > 0 /\ hung' = None
      BY <1>0, <2>3 DEF Drop, LinkDown, DraftInv
    <3>2. QED
      BY <1>0, <2>1, <3>1 DEF DraftInv
  <2>4. QED
    BY <1>2, <2>2, <2>3 DEF Outside
<1>3. CASE UNCHANGED vars
  <2>1. NoChange
    BY <1>3 DEF vars, serverVars, NoChange
  <2>2. UNCHANGED <<request, todo, reply, knows, faults, linkVars, mine>>
    BY <1>3 DEF vars, callVars, keptVars, fixedVars, serverVars, linkVars
  <2>3. QED
    BY <1>1, <2>1, <2>2 DEF Edits
<1>4. ASSUME NEW c \in Calls, Goes(c) PROVE DraftInv'
  BY <1>4, DraftKeptByAll
<1>5. QED
  BY <1>2, <1>3, <1>4 DEF Next

LEMMA DraftInit ==
  ASSUME Init, LockInv
  PROVE  DraftInv
<1> USE NoneIsNothing
<1>1. /\ todo = [c \in Calls |-> Program(request[c])] /\ reply = [c \in Calls |-> None]
      /\ hung = None
  BY DEF Init
<1>2. ASSUME NEW c \in Calls, request[c].tool = "save_draft" PROVE todo[c] = ToConnect
  <2>1. Program(request[c]) = SaveDraft
    BY <1>2 DEF Program, ReadTools, WriteTool, SaveDraftTool
  <2>2. QED
    BY <1>1, <2>1, DraftParts
<1>3. ASSUME NEW c \in Calls, request[c].tool = "save_draft"
      PROVE  todo[c] \in DraftPaths /\ ~At(c, {"list", "createMissing", "append"}) /\ reply[c] # "error"
  BY <1>1, <1>2, <1>3, DraftParts DEF At, DraftPaths
<1>4. QED
  BY <1>1, <1>3 DEF DraftInv, At

LEMMA DraftTold ==
  ASSUME DraftInv
  PROVE  DraftSaved
  BY DEF DraftInv, DraftSaved

\* What a caller is told is true, for every tool, whatever fails, hangs or runs at the same
\* time: the five parts of AnswerIsTrue (the handlers of src/src/tools, smtp.service.ts,
\* imap.service.ts, local-calendar.service.ts, reminders.service.ts, sieve.service.ts).
THEOREM AnswersAreTrue == Spec => []AnswerIsTrue
<1> DEFINE AnswerInv == SideInv /\ FileInv /\ ToldInv /\ OnceInv /\ SentInv /\ DraftInv
<1>1. Init /\ LockInv => AnswerInv
  BY SideInit, ToldInit, OneThingInit, SentInit, DraftInit
<1>2. LockInv /\ MailInv /\ TouchInv /\ AnswerInv /\ [Next]_vars => AnswerInv'
  BY SideStep, ToldStep, OneThingStep, SentStep, DraftsStep
<1>3. LockInv /\ AnswerInv => AnswerIsTrue
  BY SchedulingTold, SavesAreWhole, OneThingTold, SentTold, DraftTold DEF AnswerIsTrue
<1> HIDE DEF AnswerInv
<1>4. QED
  BY <1>1, <1>2, <1>3, LocksHeld, MailInit, MailStep, PTL DEF Spec

(***************************************************************************)
(* Where the messages are.                                                 *)
(***************************************************************************)

InFolder(m) == \E f \in exists \ Views : m \in Of(mail[f])
Safe(m) == m \in taken \/ InFolder(m)

\* Filing gives every message a UID, and loses none.
LEMMA FiledAll ==
  ASSUME MailInv, NEW X \in SUBSET Mails, IsFiniteSet(X), NEW g
  PROVE  Of(X) \subseteq Of(Filed(X, g))
<1> DEFINE s == SetToSeq(X)
           n == Cardinality(X)
<1>1. n \in Nat /\ s \in [1 .. n -> X] /\ IsInjective(s)
  BY SetToSeqLists
<1> HIDE DEF s
<1>2. SUFFICES ASSUME NEW x \in X PROVE x.msg \in Of(Filed(X, g))
  BY DEF Of
<1>3. \E i \in 1 .. n : s[i] = x
  <2>1. SUFFICES ASSUME \A i \in 1 .. n : s[i] # x PROVE FALSE
    OBVIOUS
  <2>2. s \in [1 .. n -> X \ {x}]
    BY <1>1, <2>1
  <2> DEFINE T == X \ {x}
  <2>3. IsFiniteSet(T) /\ Cardinality(T) = n - 1
    BY FS_RemoveElement
  <2>4. IsFiniteSet(1 .. n) /\ Cardinality(1 .. n) = n
    BY <1>1, FS_Interval
  <2>5. Cardinality(T) < Cardinality(1 .. n)
    BY <1>1, <2>3, <2>4
  <2> HIDE DEF T
  <2>6. \E i, j \in 1 .. n : i # j /\ s[i] = s[j]
    <3>1. s \in [1 .. n -> T]
      BY <2>2 DEF T
    <3> HIDE DEF n
    <3>2. QED
      BY <2>3, <2>4, <2>5, <3>1, FS_PigeonHole
  <2>7. QED
    BY <1>1, <2>6 DEF IsInjective
<1>4. PICK i \in 1 .. n : s[i] = x
  BY <1>3
<1> DEFINE y == [s[i] EXCEPT !.uid = next[g] + i - 1]
<1>5. y \in Filed(X, g)
  <2>1. DOMAIN s = 1 .. n
    BY <1>1
  <2>2. QED
    BY <2>1, <1>4 DEF Filed, s
<1>6. y.msg = x.msg
  BY <1>4 DEF Mails
<1>7. QED
  BY <1>5, <1>6 DEF Of

\* A folder that is not emptied, and whose messages stay or go to a folder that is there.
LEMMA MoveLoses ==
  ASSUME MailInv, NEW f \in Folders, NEW g \in exists, NEW X \in SUBSET mail[f], Move(X, f, g),
         taken' = taken, NEW m, Safe(m)
  PROVE  Safe(m)' \/ (m \in Of(X) /\ g \in Views)
<1>1. mail' = [mail EXCEPT ![f] = @ \ X, ![g] = @ \cup Filed(X, g)] /\ exists' = exists
  BY DEF Move
<1>2. g \in Folders /\ exists \subseteq Folders /\ mail \in [Folders -> SUBSET Mails]
      /\ X \in SUBSET Mails /\ IsFiniteSet(X)
  BY FS_Subset DEF MailInv
<1>3. /\ \A h \in Folders \ {f} : mail[h] \subseteq mail'[h]
      /\ mail[f] \ X \subseteq mail'[f] /\ Filed(X, g) \subseteq mail'[g]
  BY <1>1, <1>2
<1>4. Of(X) \subseteq Of(mail'[g])
  BY <1>2, <1>3, FiledAll DEF Of
<1>5. CASE m \in taken
  BY <1>5 DEF Safe
<1>6. ASSUME NEW h \in exists \ Views, m \in Of(mail[h])
      PROVE  Safe(m)' \/ (m \in Of(X) /\ g \in Views)
  <2>1. m \in Of(mail'[h]) \/ m \in Of(X)
    BY <1>2, <1>3, <1>6 DEF Of
  <2>2. CASE m \in Of(mail'[h])
    BY <1>1, <1>6, <2>2 DEF Safe, InFolder, Of, Views
  <2>3. CASE m \in Of(X) /\ g \notin Views
    BY <1>1, <1>4, <2>3 DEF Safe, InFolder, Of, Views
  <2>4. QED
    BY <2>1, <2>2, <2>3
<1>7. QED
  BY <1>5, <1>6 DEF Safe, InFolder

LEMMA ExpungeLoses ==
  ASSUME MailInv, NEW f \in Folders, NEW X, Expunge(X, f), taken \subseteq taken', NEW m, Safe(m)
  PROVE  Safe(m)' \/ (m \in Of(X) /\ f \notin Views)
<1>1. mail' = [mail EXCEPT ![f] = @ \ X] /\ exists' = exists
  BY DEF Expunge
<1>2. exists \subseteq Folders /\ mail \in [Folders -> SUBSET Mails]
  BY DEF MailInv
<1>3. \A h \in Folders : mail[h] \subseteq mail'[h] \cup (IF h = f THEN X ELSE {})
  BY <1>1, <1>2
<1>4. CASE m \in taken
  BY <1>4 DEF Safe
<1>5. ASSUME NEW h \in exists \ Views, m \in Of(mail[h])
      PROVE  Safe(m)' \/ (m \in Of(X) /\ f \notin Views)
  <2>1. m \in Of(mail'[h]) \/ (h = f /\ m \in Of(X))
    BY <1>2, <1>3, <1>5 DEF Of
  <2>2. QED
    BY <1>1, <1>5, <2>1 DEF Safe, InFolder, Of, Views
<1>6. QED
  BY <1>4, <1>5 DEF Safe, InFolder

\* Nothing goes where every folder keeps its messages.
LEMMA NoneLost ==
  ASSUME \A f \in exists : Of(mail[f]) \subseteq Of(mail'[f]), exists \subseteq exists', taken' = taken,
         NEW m, Safe(m)
  PROVE  Safe(m)'
  BY DEF Safe, InFolder, Of, Views

LEMMA AddingLosesNone ==
  ASSUME MailInv, taken' = taken, NEW m, Safe(m),
         \/ NoChange
         \/ \E f \in Folders : \E X \in SUBSET mail[f] : Mark(X, f) \/ (\E g \in Folders : Copy(X, g))
         \/ \E d \in Calls, g \in Folders : Append1(d, g)
         \/ \E g : CreateFolder(g)
  PROVE  Safe(m)'
<1>1. exists \subseteq Folders /\ mail \in [Folders -> SUBSET Mails]
  BY DEF MailInv
<1>2. CASE NoChange \/ (\E g : CreateFolder(g))
  BY <1>2, NoneLost DEF NoChange, CreateFolder
<1>3. ASSUME NEW X, NEW g \in Folders, Copy(X, g)
      PROVE  Safe(m)'
  <2>1. mail' = [mail EXCEPT ![g] = @ \cup Filed(X, g)] /\ exists' = exists
    BY <1>3 DEF Copy
  <2>2. \A f \in Folders : mail[f] \subseteq mail'[f]
    BY <1>1, <2>1
  <2>3. \A f \in exists : Of(mail[f]) \subseteq Of(mail'[f])
    BY <1>1, <2>2 DEF Of
  <2>4. QED
    BY <2>1, <2>3, NoneLost
<1>4. ASSUME NEW f \in Folders, NEW X \in SUBSET mail[f], Mark(X, f)
      PROVE  Safe(m)'
  <2>1. mail' = [mail EXCEPT ![f] = (@ \ X) \cup {[x EXCEPT !.mark = TRUE] : x \in X}] /\ exists' = exists
    BY <1>4 DEF Mark
  <2>2. \A h \in Folders \ {f} : mail'[h] = mail[h]
    BY <1>1, <2>1
  <2>3. mail'[f] = (mail[f] \ X) \cup {[x EXCEPT !.mark = TRUE] : x \in X}
    BY <1>1, <2>1
  <2>4. \A x \in X : x \in Mails /\ [x EXCEPT !.mark = TRUE].msg = x.msg
    BY <1>1 DEF Mails
  <2>5. Of(mail[f]) \subseteq Of(mail'[f])
    <3>1. SUFFICES ASSUME NEW x \in mail[f] PROVE \E y \in mail'[f] : y.msg = x.msg
      BY DEF Of
    <3>2. CASE x \in X
      BY <2>3, <2>4, <3>2
    <3>3. CASE x \notin X
      BY <2>3, <3>3
    <3>4. QED
      BY <3>2, <3>3
  <2>6. QED
    BY <1>1, <2>1, <2>2, <2>5, NoneLost
<1>5. QED
  BY <1>2, <1>3, <1>4 DEF Append1

LEMMA RenameLoses ==
  ASSUME MailInv, NEW f \in exists, NEW g \in Folders \ exists, RenameFolder(f, g), taken' = taken,
         NEW m, Safe(m)
  PROVE  Safe(m)' \/ g \in Views
<1>1. mail' = [mail EXCEPT ![f] = {}, ![g] = mail[f]] /\ exists' = (exists \ {f}) \cup {g}
  BY DEF RenameFolder
<1>2. exists \subseteq Folders /\ mail \in [Folders -> SUBSET Mails]
  BY DEF MailInv
<1>3. mail'[g] = mail[f] /\ \A h \in exists \ {f} : mail'[h] = mail[h]
  BY <1>1, <1>2
<1>4. ASSUME NEW h \in exists \ Views, m \in Of(mail[h]), g \notin Views
      PROVE  InFolder(m)'
  <2>1. CASE h = f
    BY <1>1, <1>3, <1>4, <2>1 DEF InFolder, Of, Views
  <2>2. CASE h # f
    BY <1>1, <1>3, <1>4, <2>2 DEF InFolder, Of, Views
  <2>3. QED
    BY <2>1, <2>2
<1>5. QED
  BY <1>4 DEF Safe, InFolder

(***************************************************************************)
(* Where what is filed goes.                                               *)
(***************************************************************************)

\* The tools that file messages; what they file goes in a view only if they are told to.
Filers == {"move_email", "bulk_action", "rename_mailbox"}
FilingOps == {"client", "list", "real", "removable", "lock", "release", "refuse", "move", "delete",
              "mark", "rename"}
Aims(r) ==
  {s \in StepType : /\ s.do \in FilingOps
                    /\ s.do \in {"move", "rename"} /\ s.to \in Views => r.tool \in Filers /\ r.to \in Views}
Files(r) == MayUse(r) \cap {"move", "rename"} # {}
AimInv == \A c \in Calls : Files(request[c]) => todo[c] \in Seq(Aims(request[c]))

LEMMA ViewNames == None \notin Views /\ "Trash" \notin Views /\ "INBOX" \notin Views /\ "Work" \notin Views
<1>1. Views = {"All", "Labels/x"}
  BY DEF Views, Virtual, Label
<1>2. Views \subseteq Folders
  BY <1>1 DEF Folders, SpecialUse, Virtual, Label
<1>3. QED
  BY <1>1, <1>2, FolderNames

LEMMA AimStep ==
  ASSUME NEW r, NEW op \in FilingOps, NEW g \in Names, NEW h \in Names
  PROVE  /\ op \notin {"move", "rename"} => <<S(op, g)>> \in Seq(Aims(r)) /\ Do(op) \in Seq(Aims(r))
         /\ (h \in Views => r.tool \in Filers /\ r.to \in Views) => <<To(op, g, h)>> \in Seq(Aims(r))
<1>1. op \in Ops /\ None \in Names
  BY FolderNames DEF FilingOps, Ops, Quiet, Changing
<1>2. PICK s \in StepType : s = S(op, g) /\ s.do = op
  BY <1>1, StepFields
<1>3. PICK t \in StepType : t = To(op, g, h) /\ t.do = op /\ t.to = h
  BY <1>1, StepFields
<1>4. PICK u \in StepType : u = S(op, None) /\ u.do = op
  BY <1>1, StepFields
<1>5. op \notin {"move", "rename"} => s \in Aims(r) /\ u \in Aims(r)
  BY <1>2, <1>4 DEF Aims
<1>6. (h \in Views => r.tool \in Filers /\ r.to \in Views) => t \in Aims(r)
  BY <1>3 DEF Aims
<1>7. QED
  BY <1>2, <1>3, <1>4, <1>5, <1>6 DEF Do

LEMMA AimTry ==
  ASSUME NEW r, NEW p \in Seq(Aims(r))
  PROVE  Try(p) \in Seq(Aims(r))
<1>1. p \in Seq(StepType) /\ Len(p) \in Nat /\ \A i \in 1 .. Len(p) : p[i] \in Aims(r)
  BY DEF Aims
<1>2. /\ Try(p) \in Seq(StepType) /\ Len(Try(p)) = Len(p)
      /\ \A i \in 1 .. Len(p) : /\ Try(p)[i] \in StepType
                                /\ Try(p)[i].do = p[i].do /\ Try(p)[i].to = p[i].to
  BY <1>1, TryFields
<1>3. \A i \in 1 .. Len(Try(p)) : Try(p)[i] \in Aims(r)
  BY <1>1, <1>2 DEF Aims
<1>4. QED
  BY <1>2, <1>3

LEMMA AimJoin ==
  ASSUME NEW r, NEW p \in Seq(Aims(r)), NEW q \in Seq(Aims(r))
  PROVE  p \o q \in Seq(Aims(r))
  OBVIOUS

LEMMA AimUnder ==
  ASSUME NEW r, NEW f \in Folders, NEW p \in Seq(Aims(r))
  PROVE  Under(f, p) \in Seq(Aims(r))
<1>1. f \in Names /\ None \in Names /\ {"lock", "release"} \subseteq FilingOps
  BY FolderNames DEF FilingOps
<1>2. <<S("lock", f)>> \in Seq(Aims(r)) /\ Do("release") \in Seq(Aims(r))
  BY <1>1, AimStep
<1>3. QED
  BY <1>2, AimJoin DEF Under

LEMMA AimProgram ==
  ASSUME NEW r, Accepted(r), Files(r)
  PROVE  Program(r) \in Seq(Aims(r))
<1>1. /\ r.in \in Folders /\ r.in \in Names /\ r.to \in Names /\ None \in Names /\ "Trash" \in Names
  BY RequestFields, FolderNames
<1>2. r.tool \notin ReadTools /\ ~r.dry /\ WriteOps(r) \cap {"move", "rename"} # {}
  BY DEF Files, MayUse, ReadOps, Quiet
<1>3. \/ r.tool \in {"move_email", "bulk_action", "rename_mailbox"}
      \/ r.tool = "delete_email" /\ ~r.permanent
  <2>1. r.tool \in WriteTools
    BY <1>2, RequestFields
  <2>2. CASE r.tool \in {"move_email", "delete_email", "mark_email", "bulk_action", "save_draft",
               "send_draft", "send_email", "apply_template", "reply_email", "forward_email", "add_label"}
    BY <1>2, <2>2 DEF WriteOps, Sending
  <2>3. CASE r.tool \in {"remove_label", "create_label", "delete_label", "create_mailbox",
               "rename_mailbox", "delete_mailbox", "add_to_calendar", "create_reminder",
               "sieve_put_script", "sieve_delete_script", "sieve_activate_script"}
    BY <1>2, <2>3 DEF WriteOps
  <2>4. QED
    BY <2>1, <2>2, <2>3 DEF WriteTools
<1> DEFINE A == Seq(Aims(r))
<1>4. /\ {"client", "list", "real", "removable", "refuse", "mark", "delete"} \subseteq FilingOps \ {"move", "rename"}
      /\ {"move", "rename"} \subseteq FilingOps
  BY DEF FilingOps
<1>5. /\ Client \in A /\ List \in A /\ Do("refuse") \in A /\ Do("mark") \in A
      /\ <<S("real", r.in)>> \in A /\ <<S("removable", r.in)>> \in A /\ <<>> \in A
      /\ <<To("move", r.in, "Trash")>> \in A
      /\ r.tool \in Filers =>
           <<To("move", r.in, r.to)>> \in A /\ <<To("rename", r.in, r.to)>> \in A
  <2>1. \A op \in FilingOps \ {"move", "rename"} :
          \A g \in Names : <<S(op, g)>> \in A /\ Do(op) \in A
    BY <1>1, AimStep
  <2>2. \A op \in FilingOps, h \in Names :
          (h \in Views => r.tool \in Filers /\ r.to \in Views) => <<To(op, r.in, h)>> \in A
    BY <1>1, AimStep
  <2>3. <<To("move", r.in, "Trash")>> \in A
    BY <1>1, <1>4, <2>2, ViewNames
  <2>4. r.tool \in Filers => <<To("move", r.in, r.to)>> \in A /\ <<To("rename", r.in, r.to)>> \in A
    BY <1>1, <1>4, <2>2
  <2>5. <<>> \in A
    OBVIOUS
  <2>6. QED
    BY <1>1, <1>4, <2>1, <2>3, <2>4, <2>5 DEF Client, List
<1>6. \A p \in A : Tool(r, p) \in A
  BY <1>5 DEF Tool
<1>7. Client \o <<S("real", r.in)>> \in A /\ (Client \o <<S("real", r.in)>>) \o List \in A
  BY <1>5, AimJoin
<1>8. CASE r.tool = "move_email"
  <2>1. Under(r.in, <<To("move", r.in, r.to)>>) \in A
    BY <1>1, <1>5, <1>8, AimUnder DEF Filers
  <2>2. MoveEmail(r.in, r.to) \in A
    BY <1>7, <2>1, AimJoin DEF MoveEmail
  <2>3. QED
    BY <1>2, <1>6, <1>8, <2>2 DEF Program, WriteTool, MoveEmailTool
<1>9. CASE r.tool = "bulk_action"
  <2>1. Try(<<To("move", r.in, r.to)>>) \in A /\ Try(<<To("move", r.in, "Trash")>>) \in A
        /\ Try(Do("mark")) \in A
    BY <1>5, <1>9, AimTry DEF Filers
  <2>2. /\ Under(r.in, Try(<<To("move", r.in, r.to)>>)) \in A
        /\ Under(r.in, Try(<<To("move", r.in, "Trash")>>)) \in A
        /\ Under(r.in, Try(Do("mark"))) \in A
    BY <1>1, <2>1, AimUnder
  <2>3. BulkMove(r.in, r.to) \in A /\ BulkDelete(r.in) \in A /\ BulkSetFlags(r.in) \in A
    BY <1>5, <1>7, <2>2, AimJoin DEF BulkMove, BulkDelete, BulkSetFlags
  <2>4. BulkActionTool(r) \in A
    BY <1>6, <2>3 DEF BulkActionTool
  <2>5. QED
    BY <1>2, <1>9, <2>4 DEF Program, WriteTool
<1>10. CASE r.tool = "rename_mailbox"
  <2>1. RenameMailbox(r.in, r.to) \in A
    <3>1. PICK s \in Aims(r) : s = S("removable", r.in)
      <4>1. S("removable", r.in) \in StepType /\ S("removable", r.in).do = "removable"
        BY <1>1, StepFields DEF Ops, Quiet
      <4>2. QED
        BY <1>4, <4>1 DEF Aims
    <3>2. PICK t \in StepType : t = To("rename", r.in, r.to)
      BY <1>1, StepFields DEF Ops, Changing
    <3>3. <<s>> \o <<t>> = <<s, t>>
      BY JoinOfTwo
    <3>4. <<s>> \in A /\ <<t>> \in A
      BY <1>5, <1>10, <3>1, <3>2 DEF Filers
    <3>5. Client \o (<<s>> \o <<t>>) \in A
      BY <1>5, <3>4, AimJoin
    <3>6. QED
      BY <3>1, <3>2, <3>3, <3>5 DEF RenameMailbox
  <2>2. QED
    BY <1>2, <1>10, <2>1 DEF Program, WriteTool, RenameMailboxTool
<1>11. CASE r.tool = "delete_email" /\ ~r.permanent
  <2>1. Under(r.in, <<To("move", r.in, "Trash")>>) \in A
    BY <1>1, <1>5, AimUnder
  <2>2. DeleteEmail(r.in, r.permanent) \in A
    BY <1>7, <1>11, <2>1, AimJoin DEF DeleteEmail
  <2>3. QED
    BY <1>2, <1>6, <1>11, <2>2 DEF Program, WriteTool, DeleteEmailTool
<1>12. QED
  BY <1>3, <1>8, <1>9, <1>10, <1>11

\* The steps that are followed by the next one, or by what a throw leaves.
Plain(d) == ~At(d, {"scan", "spread", "strategy", "sharing"} \cup Final)

LEMMA PlainNext ==
  ASSUME LockInv, NEW c \in Calls, StepKind(c), NEW d \in Calls, Plain(d)
  PROVE  \/ todo'[d] = todo[d]
         \/ d = c /\ todo[c] # <<>> /\ (todo'[c] = Tail(todo[c]) \/ todo'[c] = Left(c))
<1>1. todo \in [Calls -> Seq(StepType)]
  BY DEF LockInv, CoreInv
<1>2. CASE d # c
  BY <1>2, OthersReply DEF Plain, At
<1>3. CASE d = c
  <2>1. \A q : Onward(c, q) => q = Tail(todo[c])
    BY <1>3 DEF Onward, Plain, At
  <2>2. CASE todo[c] # <<>> /\ \E q : Onward(c, q) /\ todo' = [todo EXCEPT ![c] = q]
    BY <1>1, <1>3, <2>1, <2>2
  <2>3. CASE todo[c] # <<>> /\ Throws(c)
    BY <1>3, <2>3 DEF Throws, Propagates
  <2>4. QED
    BY <2>2, <2>3, StepsLeft
<1>4. QED
  BY <1>2, <1>3

LEMMA AimKept ==
  ASSUME LockInv, AimInv, NEW c \in Calls, StepKind(c)
  PROVE  AimInv'
<1>1. request' = request /\ \A d \in Calls : Files(request[d])' = Files(request[d])
                                             /\ Aims(request[d])' = Aims(request[d])
  BY DEF StepKind, Files, Aims, MayUse, ReadOps, WriteOps
<1>2. SUFFICES ASSUME NEW d \in Calls, Files(request[d]) PROVE todo'[d] \in Seq(Aims(request[d]))
  BY <1>1 DEF AimInv
<1> DEFINE A == Aims(request[d])
<1>3. todo[d] \in Seq(A)
  BY <1>2 DEF AimInv
<1> HIDE DEF A
<1>4. /\ \A p \in Seq(A) : p # <<>> => Head(p) \in A /\ Tail(p) \in Seq(A)
      /\ <<>> \in Seq(A)
  OBVIOUS
<1>5. Plain(d)
  <2>1. todo[d] # <<>> => Head(todo[d]) \in A
    BY <1>3, <1>4
  <2>2. QED
    BY <2>1 DEF Plain, At, A, Aims, FilingOps, Final
<1>6. CASE d = c /\ todo[c] # <<>> /\ todo'[c] = Left(c)
  <2>1. CASE Step(c).skip = 0
    <3>1. Left(c) = <<>>
      BY <1>6, <2>1, LeftFields
    <3>2. QED
      BY <1>4, <1>6, <3>1 DEF A
  <2>2. CASE Step(c).skip # 0
    <3>1. PICK x, n \in Nat : x = Step(c).skip /\ n = Len(todo[c])
      BY <1>6, LeftFields
    <3>2. /\ x \in 1 .. n /\ Left(c) \in Seq(StepType) /\ Len(Left(c)) = n - x
          /\ \A i \in 1 .. Len(Left(c)) : Left(c)[i] = todo[c][x + i]
      BY <1>6, <2>2, <3>1, LeftFields
    <3>3. \A i \in 1 .. n : todo[c][i] \in A
      BY <1>3, <1>6, <3>1
    <3>4. \A i \in 1 .. Len(Left(c)) : x + i \in 1 .. n
      BY <3>2
    <3>5. \A i \in 1 .. Len(Left(c)) : Left(c)[i] \in A
      BY <3>2, <3>3, <3>4
    <3>6. Left(c) \in Seq(A)
      BY <3>2, <3>5
    <3>7. QED
      BY <1>6, <3>6 DEF A
  <2>3. QED
    BY <2>1, <2>2
<1>7. CASE todo'[d] = todo[d]
  BY <1>3, <1>7 DEF A
<1>8. CASE d = c /\ todo[c] # <<>> /\ todo'[c] = Tail(todo[c])
  <2>1. todo'[d] \in Seq(A)
    BY <1>3, <1>4, <1>8
  <2>2. QED
    BY <2>1 DEF A
<1>9. QED
  BY <1>5, <1>6, <1>7, <1>8, PlainNext

LEMMA AimStays ==
  ASSUME LockInv, AimInv, [Next]_vars
  PROVE  AimInv'
<1>1. ASSUME UNCHANGED <<site, request, todo>> PROVE AimInv'
  <2>1. \A d \in Calls : Files(request[d])' = Files(request[d]) /\ Aims(request[d])' = Aims(request[d])
    BY <1>1 DEF Files, Aims, MayUse, ReadOps, WriteOps
  <2>2. QED
    BY <1>1, <2>1 DEF AimInv
<1>2. CASE Outside
  BY <1>1, <1>2, OutsideKept DEF Outside, keptVars, fixedVars, callVars
<1>3. CASE UNCHANGED vars
  BY <1>1, <1>3 DEF vars, callVars, keptVars, fixedVars
<1>4. ASSUME NEW c \in Calls, Goes(c) PROVE AimInv'
  BY <1>4, StepKinds, AimKept
<1>5. QED
  BY <1>2, <1>3, <1>4 DEF Next

LEMMA AimInit ==
  ASSUME Init, LockInv
  PROVE  AimInv
<1>1. todo = [c \in Calls |-> Program(request[c])]
  BY DEF Init
<1>2. QED
  BY <1>1, AimProgram DEF AimInv, LockInv, CoreInv

(***************************************************************************)
(* No draft goes that was not sent.                                        *)
(***************************************************************************)

\* The delivery is still to come: no step before it removes the draft, what throws there ends
\* the call or is caught there, and if the delivery throws nothing comes after it.
Unsent(p) ==
  \E i \in 1 .. Len(p) :
    /\ p[i].do = "smtp" /\ p[i].skip = 0
    /\ \A k \in 1 .. i - 1 : k + p[k].skip <= i /\ p[k].do \notin {"smtp", "discard"}
Keeper == Ops \ {"discard"}
UnsentInv ==
  \A c \in Calls : "discard" \in MayUse(request[c]) =>
    "delivered" \in fate[c] \/ Unsent(todo[c]) \/ Within(todo[c], Keeper)

LEMMA UnsentStart ==
  ASSUME NEW t \in Seq(StepType)
  PROVE  Unsent(Do("smtp") \o t)
<1>0. "smtp" \in Ops /\ None \in Names
  BY FolderNames DEF Ops, Changing
<1>1. PICK s \in StepType : s = S("smtp", None) /\ s.do = "smtp" /\ s.skip = 0
  BY <1>0, StepFields
<1>2. Do("smtp") = <<s>>
  BY <1>1 DEF Do
<1> DEFINE w == <<s>> \o t
<1>3. Len(w) \in Nat /\ 1 \in 1 .. Len(w) /\ w[1] = s
  OBVIOUS
<1> HIDE DEF w
<1>4. \A k \in 1 .. 1 - 1 : FALSE
  OBVIOUS
<1>5. Unsent(w)
  BY <1>1, <1>3, <1>4 DEF Unsent
<1>6. QED
  BY <1>2, <1>5 DEF w

LEMMA UnsentAfter ==
  ASSUME NEW p \in Seq(StepType), Unsent(p), NEW t \in Seq(StepType)
  PROVE  Unsent(p \o t)
<1> DEFINE w == p \o t
<1>1. PICK i \in 1 .. Len(p) :
        /\ p[i].do = "smtp" /\ p[i].skip = 0
        /\ \A k \in 1 .. i - 1 : k + p[k].skip <= i /\ p[k].do \notin {"smtp", "discard"}
  BY DEF Unsent
<1>2. /\ Len(w) = Len(p) + Len(t) /\ Len(p) \in Nat /\ Len(t) \in Nat
      /\ \A k \in 1 .. Len(p) : w[k] = p[k]
  BY JoinFields
<1> HIDE DEF w
<1>3. i \in 1 .. Len(w) /\ \A k \in 1 .. i - 1 : k \in 1 .. Len(p)
  BY <1>2
<1>4. w[i] = p[i] /\ \A k \in 1 .. i - 1 : w[k] = p[k]
  BY <1>2, <1>3
<1>5. /\ w[i].do = "smtp" /\ w[i].skip = 0
      /\ \A k \in 1 .. i - 1 : k + w[k].skip <= i /\ w[k].do \notin {"smtp", "discard"}
  BY <1>1, <1>4
<1>6. Unsent(w)
  BY <1>3, <1>5 DEF Unsent
<1>7. QED
  BY <1>6 DEF w

LEMMA UnsentBefore ==
  ASSUME NEW f, NEW q, Keeps(q, None, f, Quiet), NEW p \in Seq(StepType), Unsent(p)
  PROVE  Unsent(q \o p) /\ q \o p \in Seq(StepType)
<1> DEFINE w == q \o p
<1>1. PICK i \in 1 .. Len(p) :
        /\ p[i].do = "smtp" /\ p[i].skip = 0
        /\ \A k \in 1 .. i - 1 : k + p[k].skip <= i /\ p[k].do \notin {"smtp", "discard"}
  BY DEF Unsent
<1>2. PICK m : Course(q, None, None, f, Quiet, m)
  BY DEF Keeps, Shape
<1>3. q \in Seq(StepType)
  BY DEF Keeps, Shape
<1>4. /\ w \in Seq(StepType) /\ Len(w) = Len(q) + Len(p) /\ Len(q) \in Nat /\ Len(p) \in Nat
      /\ \A k \in 1 .. Len(q) : w[k] = q[k]
      /\ \A k \in 1 .. Len(p) : w[Len(q) + k] = p[k]
  BY <1>3, JoinFields
<1> HIDE DEF w
<1> DEFINE j == Len(q) + i
<1>5. j \in 1 .. Len(w) /\ w[j] = p[i]
  BY <1>4
<1>6. ASSUME NEW k \in 1 .. j - 1
      PROVE  k + w[k].skip <= j /\ w[k].do \notin {"smtp", "discard"}
  <2>1. CASE k \in 1 .. Len(q)
    <3>1. k + q[k].skip <= Len(q) + 1 /\ q[k].do \in Quiet /\ q[k] \in StepType
      BY <1>2, <1>3, <2>1 DEF Course
    <3>2. PICK x \in Nat : x = q[k].skip
      BY <3>1 DEF StepType
    <3>3. k + x <= j
      BY <1>4, <2>1, <3>1, <3>2
    <3>4. QED
      BY <1>4, <2>1, <3>1, <3>2, <3>3 DEF Quiet
  <2>2. CASE k \notin 1 .. Len(q)
    <3>1. PICK l \in 1 .. i - 1 : k = Len(q) + l /\ l \in 1 .. Len(p)
      <4>1. k - Len(q) \in 1 .. i - 1 /\ k = Len(q) + (k - Len(q)) /\ k - Len(q) \in 1 .. Len(p)
        BY <1>4, <2>2
      <4>2. QED
        BY <4>1
    <3>2. w[k] = p[l] /\ p[l] \in StepType
      BY <1>4, <3>1
    <3>3. l + p[l].skip <= i /\ p[l].do \notin {"smtp", "discard"}
      BY <1>1, <3>1
    <3>4. PICK x \in Nat : x = p[l].skip
      BY <3>2 DEF StepType
    <3>5. k + x <= j
      BY <1>4, <3>1, <3>3, <3>4
    <3>6. QED
      BY <3>2, <3>3, <3>4, <3>5
  <2>3. QED
    BY <2>1, <2>2
<1>7. Unsent(w)
  BY <1>1, <1>5, <1>6 DEF Unsent
<1>8. QED
  BY <1>4, <1>7 DEF w

LEMMA UnsentProgram ==
  ASSUME NEW r, Accepted(r), "discard" \in MayUse(r)
  PROVE  /\ r.tool = "send_draft" /\ "smtp" \in MayUse(r)
         /\ Unsent(Program(r)) \/ Within(Program(r), Keeper)
<1>1. r.tool \notin ReadTools /\ ~r.dry /\ "discard" \in WriteOps(r)
  BY DEF MayUse, ReadOps, Quiet
<1>2. r.tool = "send_draft"
  <2>1. r.tool \in WriteTools
    BY <1>1, RequestFields
  <2>2. CASE r.tool \in {"move_email", "delete_email", "mark_email", "bulk_action", "save_draft",
               "send_draft", "send_email", "apply_template", "reply_email", "forward_email", "add_label"}
    BY <1>1, <2>2 DEF WriteOps, Sending
  <2>3. CASE r.tool \in {"remove_label", "create_label", "delete_label", "create_mailbox",
               "rename_mailbox", "delete_mailbox", "add_to_calendar", "create_reminder",
               "sieve_put_script", "sieve_delete_script", "sieve_activate_script"}
    BY <1>1, <2>3 DEF WriteOps
  <2>4. QED
    BY <2>1, <2>2, <2>3 DEF WriteTools
<1>3. "smtp" \in MayUse(r)
  BY <1>1, <1>2 DEF MayUse, WriteOps, Sending
<1> DEFINE f == r.in
           end == Try(DeleteDraft(f))
<1>4. f \in Folders
  BY RequestFields
<1>5. /\ Keeps(Do("rate"), None, f, Quiet) /\ Keeps(FetchDraft(f), None, f, Quiet)
      /\ Keeps(ResolveAttachments(r), None, f, Quiet)
  <2>1. Keeps(Do("rate"), None, f, Quiet)
    BY FolderNames, KeepsLoose DEF Loose, Do, Quiet
  <2>2. Keeps(FetchDraft(f), None, f, Quiet)
    BY <1>4, ReadingKeeps, KeepsJoin DEF FetchDraft
  <2>3. Keeps(ResolveAttachments(r), None, f, Quiet)
    BY <1>4, FolderNames, ReadingKeeps, KeepsEmpty DEF ResolveAttachments
  <2>4. QED
    BY <2>1, <2>2, <2>3
<1>6. end \in Seq(StepType) /\ Try(AppendSentMessage) \in Seq(StepType) /\ SendAndAppend \in Seq(StepType)
  <2>1. end \in Seq(StepType) /\ SendAndAppend \in Seq(StepType)
    BY SendParts DEF SendPath, Within
  <2>2. Try(AppendSentMessage) \in Seq(StepType)
    <3>1. "createMissing" \in Ops /\ "append" \in Ops /\ "client" \in Ops /\ "list" \in Ops
          /\ "Sent" \in Names /\ None \in Names
      BY FolderNames DEF Ops, Quiet, Changing
    <3>2. PICK a \in StepType : a = S("createMissing", "Sent")
      BY <3>1, StepFields
    <3>3. PICK b \in StepType : b = S("append", "Sent")
      BY <3>1, StepFields
    <3>4. Client \in Seq(StepType) /\ List \in Seq(StepType)
      BY <3>1, WithinStep DEF Within, Client, List
    <3>5. AppendSentMessage \in Seq(StepType)
      BY <3>2, <3>3, <3>4 DEF AppendSentMessage
    <3>6. QED
      BY <3>5, TryFields
  <2>3. QED
    BY <2>1, <2>2
<1>7. Unsent(SendDraft(r))
  <2>1. Unsent(SendAndAppend)
    BY <1>6, UnsentStart DEF SendAndAppend
  <2> HIDE DEF end, f
  <2> DEFINE p == SendAndAppend
             q == Do("rate") \o FetchDraft(f)
             t == q \o ResolveAttachments(r)
  <2>3. Keeps(q, None, f, Quiet)
    BY <1>5, KeepsJoin
  <2>4. Keeps(t, None, f, Quiet)
    BY <1>5, <2>3, KeepsJoin
  <2> HIDE DEF t, p
  <2>5. Unsent(t \o p) /\ t \o p \in Seq(StepType)
    BY <1>6, <2>1, <2>4, UnsentBefore DEF p
  <2>6. Unsent((t \o p) \o end)
    BY <1>6, <2>5, UnsentAfter
  <2>7. QED
    BY <2>6 DEF SendDraft, t, p, end, f
<1>8. Within(Do("refuse"), Keeper)
  BY FolderNames, WithinStep DEF Keeper, Ops, Quiet, Changing
<1>9. Program(r) = SendDraft(r) \/ Program(r) = Do("refuse")
  BY <1>1, <1>2 DEF Program, WriteTool, SendDraftTool, Tool
<1>10. QED
  BY <1>2, <1>3, <1>7, <1>8, <1>9

LEMMA UnsentSuffix ==
  ASSUME NEW p \in Seq(StepType), NEW q \in Seq(StepType), NEW x \in 1 .. Len(p),
         Len(q) = Len(p) - x, \A i \in 1 .. Len(q) : q[i] = p[x + i],
         p[1].do # "smtp", x = 1 \/ x = p[1].skip
  PROVE  /\ Unsent(p) => Unsent(q)
         /\ Within(p, Keeper) => Within(q, Keeper)
<1>1. Len(p) \in Nat /\ Len(q) \in Nat
  OBVIOUS
<1>2. ASSUME Unsent(p) PROVE Unsent(q)
  <2>1. PICK i \in 1 .. Len(p) :
          /\ p[i].do = "smtp" /\ p[i].skip = 0
          /\ \A k \in 1 .. i - 1 : k + p[k].skip <= i /\ p[k].do \notin {"smtp", "discard"}
    BY <1>2 DEF Unsent
  <2>2. i # 1
    BY <2>1
  <2>3. 1 \in 1 .. i - 1
    BY <1>1, <2>2
  <2>4. 1 + p[1].skip <= i
    BY <2>1, <2>3
  <2>5. x + 1 <= i
    BY <1>1, <2>3, <2>4
  <2> DEFINE j == i - x
  <2>6. j \in 1 .. Len(q) /\ x + j = i
    BY <1>1, <2>5
  <2>7. q[j] = p[i]
    BY <2>6
  <2>8. ASSUME NEW k \in 1 .. j - 1
        PROVE  k + q[k].skip <= j /\ q[k].do \notin {"smtp", "discard"}
    <3>1. k \in 1 .. Len(q) /\ x + k \in 1 .. i - 1 /\ x + k \in 1 .. Len(p)
      BY <1>1, <2>6
    <3>2. q[k] = p[x + k] /\ p[x + k] \in StepType
      BY <3>1
    <3>3. PICK y \in Nat : y = q[k].skip
      BY <3>2 DEF StepType
    <3>4. (x + k) + y <= i
      BY <2>1, <3>1, <3>2, <3>3
    <3>5. k + y <= j
      BY <3>1, <3>4
    <3>6. QED
      BY <2>1, <3>1, <3>2, <3>3, <3>5
  <2>9. QED
    BY <2>1, <2>6, <2>7, <2>8 DEF Unsent
<1>3. ASSUME Within(p, Keeper) PROVE Within(q, Keeper)
  <2>1. \A i \in 1 .. Len(q) : x + i \in 1 .. Len(p)
    BY <1>1
  <2>2. QED
    BY <1>3, <2>1 DEF Within
<1>4. QED
  BY <1>2, <1>3

\* The delivery either comes about or throws.
LEMMA AtDelivery ==
  ASSUME LockInv, NEW c \in Calls, Goes(c), At(c, {"smtp"})
  PROVE  Deliver(c) \/ SendFails(c)
<1>1. c \notin Range(waiting)
  BY DEF LockInv, LineInv, At
<1>2. ~(Answer(c) \/ Refuse(c) \/ CheckRateLimit(c) \/ GetImapClient(c) \/ ConnectFails(c)
        \/ GetStrategy(c) \/ Detected(c) \/ AskForLock(c) \/ Release(c))
  BY DEF At, Answer, Refuse, CheckRateLimit, GetImapClient, ConnectFails, GetStrategy, Detected,
         AskForLock, Release
<1>3. ~GetLock(c) /\ ~LockTimeout(c)
  <2>1. waiting \in Seq(Calls)
    BY DEF LockInv, LineInv
  <2>2. waiting # <<>> => Head(waiting) = waiting[1] /\ 1 \in DOMAIN waiting
    BY <2>1
  <2>3. QED
    BY <1>1, <2>2 DEF GetLock, LockTimeout, Range
<1>4. ~(Look(c) \/ ScanFinds(c) \/ ScanEmpty(c) \/ Fetch(c) \/ OpenFetch(c) \/ CloseFetch(c)
        \/ ListFolders(c) \/ FolderAllowed(c) \/ SpreadSearch(c) \/ SearchFolder(c))
  BY DEF At, Runs, Look, ScanFinds, ScanEmpty, Fetch, OpenFetch, CloseFetch, ListFolders,
         FolderAllowed, SpreadSearch, SearchFolder
<1>5. ~(MoveMessages(c) \/ DeleteMessages(c) \/ MarkMessages(c) \/ CopyMessages(c) \/ DeleteCopies(c)
        \/ CreateMissingMailbox(c) \/ AppendMessage(c) \/ MailboxCreate(c) \/ MailboxRename(c)
        \/ MailboxDelete(c))
  BY DEF At, Runs, MoveMessages, DeleteMessages, MarkMessages, CopyMessages, DeleteCopies,
         CreateMissingMailbox, AppendMessage, MailboxCreate, MailboxRename, MailboxDelete
<1>6. ~(Rejected(c) \/ DraftKept(c) \/ Hangs(c) \/ NoConnection(c))
  BY DEF At, Runs, Rejected, DraftKept, Hangs, NoConnection, Commands, Reads, Changes
<1>7. ~(ReadElsewhere(c) \/ FailsElsewhere(c) \/ SaveFile(c) \/ ChangeScripts(c)
        \/ FindExistingEvent(c) \/ WriteToApp(c) \/ WriteOffMac(c))
  BY DEF At, ReadElsewhere, FailsElsewhere, SaveFile, ChangeScripts, FindExistingEvent, WriteToApp,
         WriteOffMac, Elsewhere
<1>8. QED
  BY <1>2, <1>3, <1>4, <1>5, <1>6, <1>7 DEF Goes

LEMMA UnsentKept ==
  ASSUME LockInv, SentInv, UnsentInv, NEW c \in Calls, Goes(c)
  PROVE  UnsentInv'
<1>1. StepKind(c)
  BY StepKinds
<1>2. request' = request /\ \A d \in Calls : MayUse(request[d])' = MayUse(request[d])
  BY <1>1 DEF StepKind, MayUse, ReadOps, WriteOps
<1>3. SUFFICES ASSUME NEW d \in Calls, "discard" \in MayUse(request[d])
               PROVE  "delivered" \in fate'[d] \/ Unsent(todo'[d]) \/ Within(todo'[d], Keeper)
  BY <1>2 DEF UnsentInv
<1>4. SendPath(todo[d])
  BY <1>3, UnsentProgram DEF SentInv, LockInv, CoreInv
<1>5. Plain(d)
  <2>1. todo[d] # <<>> => Head(todo[d]).do \in SendOps
    BY <1>4, SendTail
  <2>2. QED
    BY <2>1 DEF Plain, At, SendOps
<1>6. /\ "delivered" \in fate[d] \/ Unsent(todo[d]) \/ Within(todo[d], Keeper)
      /\ fate[d] \subseteq fate'[d]
  BY <1>1, <1>3, MarksStay DEF UnsentInv
<1>7. todo \in [Calls -> Seq(StepType)]
  BY DEF LockInv, CoreInv
<1>8. Within(<<>>, Keeper)
  BY DEF Within
<1>9. CASE todo'[d] = todo[d]
  BY <1>6, <1>9
<1>10. CASE d = c /\ At(c, {"smtp"})
  <2>1. CASE Deliver(c)
    <3>1. "delivered" \in fate'[c]
      BY <2>1 DEF Deliver, LockInv, CoreInv
    <3>2. QED
      BY <1>10, <3>1
  <2>2. CASE SendFails(c) /\ Unsent(todo[c])
    <3>1. Head(todo[c]) = todo[c][1] /\ 1 \in 1 .. Len(todo[c]) /\ Len(todo[c]) \in Nat
      BY <1>7, <1>10 DEF At
    <3>2. Step(c).skip = 0
      <4>1. PICK i \in 1 .. Len(todo[c]) :
              /\ todo[c][i].do = "smtp" /\ todo[c][i].skip = 0
              /\ \A k \in 1 .. i - 1 : todo[c][k].do \notin {"smtp", "discard"}
        BY <2>2 DEF Unsent
      <4>2. i # 1 => 1 \in 1 .. i - 1
        BY <3>1
      <4>3. i = 1
        BY <1>10, <3>1, <4>1, <4>2 DEF At
      <4>4. QED
        BY <3>1, <4>1, <4>3 DEF Step
    <3>3. Throws(c) /\ todo[c] # <<>>
      BY <1>10, <2>2 DEF SendFails, Fails, At
    <3>4. todo'[c] = <<>>
      BY <3>2, <3>3, ThrowEnds
    <3>5. QED
      BY <1>8, <1>10, <3>4
  <2>3. CASE SendFails(c) /\ Within(todo[c], Keeper)
    <3>1. todo'[c] = Left(c) /\ todo[c] # <<>>
      BY <1>10, <2>3 DEF SendFails, Fails, Throws, Propagates, At
    <3>2. CASE Step(c).skip = 0
      BY <1>8, <1>10, <3>1, <3>2, LeftFields
    <3>3. CASE Step(c).skip # 0
      <4>1. PICK x, n \in Nat : x = Step(c).skip /\ n = Len(todo[c])
        BY <3>1, LeftFields
      <4>2. /\ x \in 1 .. n /\ Left(c) \in Seq(StepType) /\ Len(Left(c)) = n - x
            /\ \A i \in 1 .. Len(Left(c)) : Left(c)[i] = todo[c][x + i]
        BY <3>1, <3>3, <4>1, LeftFields
      <4>3. \A i \in 1 .. Len(Left(c)) : x + i \in 1 .. n
        BY <4>2
      <4>4. Within(Left(c), Keeper)
        BY <2>3, <4>1, <4>2, <4>3 DEF Within
      <4>5. QED
        BY <1>10, <3>1, <4>4
    <3>4. QED
      BY <3>2, <3>3
  <2>4. CASE "delivered" \in fate[c]
    BY <1>6, <1>10, <2>4
  <2>5. QED
    BY <1>6, <1>10, <2>1, <2>2, <2>3, <2>4, AtDelivery
<1>11. ASSUME d = c, ~At(c, {"smtp"}), todo[c] # <<>>, NEW x \in Nat, x = 1 \/ x = Step(c).skip,
              x \in 1 .. Len(todo[c]), todo'[c] \in Seq(StepType), Len(todo'[c]) = Len(todo[c]) - x,
              \A i \in 1 .. Len(todo'[c]) : todo'[c][i] = todo[c][x + i]
       PROVE  "delivered" \in fate'[d] \/ Unsent(todo'[d]) \/ Within(todo'[d], Keeper)
  <2>1. todo[c] \in Seq(StepType) /\ Head(todo[c]) = todo[c][1]
    BY <1>7, <1>11
  <2>2. todo[c][1].do # "smtp" /\ (x = 1 \/ x = todo[c][1].skip)
    BY <1>11, <2>1 DEF At, Step
  <2>3. /\ Unsent(todo[c]) => Unsent(todo'[c])
        /\ Within(todo[c], Keeper) => Within(todo'[c], Keeper)
    BY <1>11, <2>1, <2>2, UnsentSuffix
  <2>4. QED
    BY <1>6, <1>11, <2>3
<1>12. CASE d = c /\ ~At(c, {"smtp"}) /\ todo[c] # <<>> /\ todo'[c] = Tail(todo[c])
  <2>1. \A p \in Seq(StepType) : p # <<>> =>
          /\ Tail(p) \in Seq(StepType) /\ Len(Tail(p)) = Len(p) - 1 /\ 1 \in 1 .. Len(p)
          /\ \A i \in 1 .. Len(Tail(p)) : Tail(p)[i] = p[1 + i]
    OBVIOUS
  <2>2. QED
    BY <1>7, <1>11, <1>12, <2>1
<1>13. CASE d = c /\ ~At(c, {"smtp"}) /\ todo[c] # <<>> /\ todo'[c] = Left(c)
  <2>1. CASE Step(c).skip = 0
    BY <1>8, <1>13, <2>1, LeftFields
  <2>2. CASE Step(c).skip # 0
    <3>1. Step(c).skip \in 1 .. Len(todo[c]) /\ Step(c).skip \in Nat
      BY <1>13, <2>2, LeftFields
    <3>2. QED
      BY <1>11, <1>13, <2>2, <3>1, LeftFields
  <2>3. QED
    BY <2>1, <2>2
<1>14. QED
  BY <1>1, <1>5, <1>9, <1>10, <1>12, <1>13, PlainNext

LEMMA UnsentStays ==
  ASSUME LockInv, SentInv, UnsentInv, [Next]_vars
  PROVE  UnsentInv'
<1>1. ASSUME UNCHANGED <<site, request, todo, fate>> PROVE UnsentInv'
  <2>1. \A d \in Calls : MayUse(request[d])' = MayUse(request[d])
    BY <1>1 DEF MayUse, ReadOps, WriteOps
  <2>2. QED
    BY <1>1, <2>1 DEF UnsentInv
<1>2. CASE Outside
  BY <1>1, <1>2, OutsideKept DEF Outside, keptVars, fixedVars, callVars
<1>3. CASE UNCHANGED vars
  BY <1>1, <1>3 DEF vars, callVars, keptVars, fixedVars
<1>4. QED
  BY <1>2, <1>3, UnsentKept DEF Next

LEMMA UnsentInit ==
  ASSUME Init, LockInv
  PROVE  UnsentInv
<1>1. todo = [c \in Calls |-> Program(request[c])]
  BY DEF Init
<1>2. QED
  BY <1>1, UnsentProgram DEF UnsentInv, LockInv, CoreInv

LEMMA FilerHead ==
  ASSUME NEW A, NEW c, todo[c] \in Seq(A), todo[c] # <<>>
  PROVE  Step(c) \in A
<1>1. \A p \in Seq(A) : p # <<>> => Head(p) \in A
  OBVIOUS
<1>2. QED
  BY <1>1 DEF Step

LEMMA WhoDeletes ==
  ASSUME NEW r, Accepted(r), MayUse(r) \cap {"delete", "remove"} # {}
  PROVE  /\ "delete" \in MayUse(r) => r.tool = "delete_email" /\ r.permanent
         /\ "remove" \in MayUse(r) => r.tool \in {"delete_label", "delete_mailbox"}
<1>1. r.tool \notin ReadTools /\ MayUse(r) = Quiet \cup WriteOps(r) /\ Quiet \cap {"delete", "remove"} = {}
  BY DEF MayUse, ReadOps, Quiet
<1>2. r.tool \in WriteTools
  BY <1>1, RequestFields
<1>3. CASE r.tool \in {"move_email", "delete_email", "mark_email", "bulk_action", "save_draft",
             "send_draft", "send_email", "apply_template", "reply_email", "forward_email", "add_label"}
  BY <1>1, <1>3 DEF WriteOps, Sending
<1>4. CASE r.tool \in {"remove_label", "create_label", "delete_label", "create_mailbox",
             "rename_mailbox", "delete_mailbox", "add_to_calendar", "create_reminder",
             "sieve_put_script", "sieve_delete_script", "sieve_activate_script"}
  BY <1>1, <1>4 DEF WriteOps
<1>5. QED
  BY <1>2, <1>3, <1>4 DEF WriteTools

(***************************************************************************)
(* Nothing is lost.                                                        *)
(***************************************************************************)

LEMMA LostIs ==
  LostOnlyAsAsked <=> \A m \in Messages : Safe(m) \/ \E c \in Calls : AskedFor(c, m)
<1>1. \A m : m \in taken \cup UNION {Of(mail[f]) : f \in exists \ Views} <=> Safe(m)
  BY DEF Safe, InFolder
<1>2. QED
  BY <1>1 DEF LostOnlyAsAsked

LEMMA LostIsNext ==
  LostOnlyAsAsked' <=> \A m \in Messages : Safe(m)' \/ \E c \in Calls : AskedFor(c, m)'
<1>1. \A m : (m \in taken \cup UNION {Of(mail[f]) : f \in exists \ Views})' <=> Safe(m)'
  BY DEF Safe, InFolder
<1>2. QED
  BY <1>1 DEF LostOnlyAsAsked

\* What was asked for stays so.
LEMMA AskedStays ==
  ASSUME LockInv, NEW c \in Calls, StepKind(c), WorldStep(c), TouchInv, NEW d \in Calls, NEW m,
         AskedFor(d, m)
  PROVE  AskedFor(d, m)'
<1>1. request' = request /\ fate[d] \subseteq fate'[d]
  BY MarksStay DEF StepKind
<1>2. touched[d] \subseteq touched'[d]
  <2>1. PICK X : touched' = [touched EXCEPT ![c] = @ \cup Of(X)]
    BY DEF WorldStep, Sees
  <2>2. QED
    BY <2>1 DEF TouchInv
<1>3. Views' = Views
  BY DEF Views
<1>4. QED
  BY <1>1, <1>2, <1>3 DEF AskedFor

\* The copies that are deleted are those in the folder of the label.
LEMMA InLabel ==
  ASSUME LockInv, NEW c \in Calls, Runs(c, {"deleteCopies"})
  PROVE  box = Label
<1>1. PICK f \in Modes : Path(c, f) /\ Holds(c, f)
  BY DEF LockInv, PlaceInv
<1>2. todo[c] # <<>> /\ Head(todo[c]).do = "deleteCopies" /\ Live(c)
  BY DEF Runs, At
<1>3. f = Label
  BY <1>1, <1>2, ShapeTail DEF Path, Fits
<1>4. QED
  BY <1>1, <1>2, <1>3, FolderNames DEF Holds

\* Marks of a command that was done.
LEMMA DoneMarks ==
  ASSUME LockInv, NEW c \in Calls, NEW marks, Done(c, marks), "changed" \in marks
  PROVE  "changed" \in fate'[c]
<1>1. fate \in [Calls -> SUBSET Fates]
  BY DEF LockInv, CoreInv
<1>2. fate' = [fate EXCEPT ![c] = @ \cup marks]
      \/ fate' = [fate EXCEPT ![c] = @ \cup (marks \ {"removed"}) \cup {"lost"}]
  BY DEF Done
<1>3. QED
  BY <1>1, <1>2

LEMMA MoveAsked ==
  ASSUME LockInv, MailInv, AimInv, NEW c \in Calls, MoveMessages(c), request' = request,
         NEW m, Safe(m)
  PROVE  Safe(m)' \/ AskedFor(c, m)'
<1> DEFINE X == Here(c)
<1>1. Runs(c, {"move"}) /\ Step(c).to \in exists /\ Move(X, box, Step(c).to) /\ taken' = taken
  BY DEF MoveMessages, DoneBy, Done
<1>2. box \in Folders /\ X \in SUBSET mail[box]
  BY <1>1, InOwnBox DEF Runs, At, ByUid, Here
<1>3. Safe(m)' \/ (m \in Of(X) /\ Step(c).to \in Views)
  BY <1>1, <1>2, MoveLoses
<1>4. ASSUME m \in Of(X), Step(c).to \in Views
      PROVE  AskedFor(c, m)'
  <2>1. todo[c] # <<>> /\ Step(c).do = "move" /\ Step(c).do \in MayUse(request[c])
    BY <1>1, StandsAt DEF Runs, At, Step
  <2>2. todo[c] \in Seq(Aims(request[c]))
    BY <2>1 DEF AimInv, Files
  <2>3. Step(c) \in Aims(request[c])
    BY <2>1, <2>2, FilerHead
  <2>4. request[c].tool \in Filers /\ request[c].to \in Views
    BY <1>4, <2>1, <2>3 DEF Aims
  <2>5. X # {}
    BY <1>4 DEF Of
  <2>6. "changed" \in fate'[c]
    BY <2>5, DoneMarks DEF MoveMessages, DoneBy
  <2>7. QED
    BY <2>4, <2>6 DEF AskedFor, Filers, Views
<1>5. QED
  BY <1>3, <1>4

LEMMA RenameAsked ==
  ASSUME LockInv, MailInv, AimInv, NEW c \in Calls, MailboxRename(c), request' = request,
         NEW m, Safe(m)
  PROVE  Safe(m)' \/ AskedFor(c, m)'
<1>1. /\ Runs(c, {"rename"}) /\ Step(c).in \in exists /\ Step(c).to \notin exists
      /\ RenameFolder(Step(c).in, Step(c).to) /\ taken' = taken /\ "changed" \in fate'[c]
  BY DoneMarks DEF MailboxRename, Done
<1>2. Step(c).to \in Folders \ exists
  BY <1>1, MadeFolder DEF Runs
<1>3. Safe(m)' \/ Step(c).to \in Views
  BY <1>1, <1>2, RenameLoses
<1>4. ASSUME Step(c).to \in Views
      PROVE  AskedFor(c, m)'
  <2>1. todo[c] # <<>> /\ Step(c).do = "rename" /\ Step(c).do \in MayUse(request[c])
    BY <1>1, StandsAt DEF Runs, At, Step
  <2>2. todo[c] \in Seq(Aims(request[c]))
    BY <2>1 DEF AimInv, Files
  <2>3. Step(c) \in Aims(request[c])
    BY <2>1, <2>2, FilerHead
  <2>4. request[c].tool \in Filers /\ request[c].to \in Views
    BY <1>4, <2>1, <2>3 DEF Aims
  <2>5. QED
    BY <1>1, <2>4 DEF AskedFor, Filers, Views
<1>5. QED
  BY <1>3, <1>4

\* Who deletes by UID was asked for it, or had its mail delivered.
LEMMA DeleteAsked ==
  ASSUME LockInv, MailInv, TouchInv, UnsentInv, NEW c \in Calls, DeleteMessages(c), request' = request,
         NEW m, Safe(m)
  PROVE  Safe(m)' \/ AskedFor(c, m)'
<1> DEFINE X == Here(c)
<1>1. Runs(c, {"delete", "discard"}) /\ Expunge(X, box) /\ Touches(c, X) /\ taken' = taken
  BY DEF DeleteMessages, Done
<1>2. "changed" \in fate'[c] /\ fate[c] \subseteq fate'[c]
  <2>1. "changed" \in fate'[c]
    BY DoneMarks DEF DeleteMessages
  <2>2. fate \in [Calls -> SUBSET Fates]
    BY DEF LockInv, CoreInv
  <2>3. QED
    BY <2>1, <2>2 DEF DeleteMessages, Done
<1>3. box \in Folders
  BY <1>1, InOwnBox DEF Runs, At, ByUid
<1>4. Safe(m)' \/ m \in Of(X)
  BY <1>1, <1>3, ExpungeLoses
<1>5. ASSUME m \in Of(X)
      PROVE  AskedFor(c, m)'
  <2>1. m \in touched'[c]
    BY <1>1, <1>5 DEF Touches, TouchInv
  <2>2. /\ todo[c] # <<>> /\ Step(c).do \in MayUse(request[c]) /\ Accepted(request[c])
        /\ todo[c] \in Seq(StepType)
    BY <1>1, StandsAt DEF Runs, At, LockInv, CoreInv
  <2>3. CASE Step(c).do = "delete"
    <3>1. request[c].tool = "delete_email" /\ request[c].permanent
      BY <2>2, <2>3, WhoDeletes
    <3>2. QED
      BY <1>2, <2>1, <3>1 DEF AskedFor
  <2>4. CASE Step(c).do = "discard"
    <3>1. request[c].tool = "send_draft"
      BY <2>2, <2>4, UnsentProgram
    <3>2. Head(todo[c]) = todo[c][1] /\ 1 \in 1 .. Len(todo[c]) /\ Len(todo[c]) \in Nat
      BY <2>2
    <3>3. todo[c][1].do = "discard"
      BY <2>4, <3>2 DEF Step
    <3>4. ~Within(todo[c], Keeper)
      BY <3>2, <3>3 DEF Within, Keeper
    <3>5. ~Unsent(todo[c])
      <4>1. SUFFICES ASSUME NEW i \in 1 .. Len(todo[c]), todo[c][i].do = "smtp",
                            \A k \in 1 .. i - 1 : todo[c][k].do \notin {"smtp", "discard"}
                     PROVE  FALSE
        BY DEF Unsent
      <4>2. i # 1
        BY <3>3, <4>1
      <4>3. 1 \in 1 .. i - 1
        BY <3>2, <4>2
      <4>4. QED
        BY <3>3, <4>1, <4>3
    <3>6. "delivered" \in fate[c]
      BY <2>2, <2>4, <3>4, <3>5 DEF UnsentInv
    <3>7. QED
      BY <1>2, <2>1, <3>1, <3>6 DEF AskedFor
  <2>5. QED
    BY <1>1, <2>3, <2>4 DEF Runs, At, Step
<1>6. QED
  BY <1>4, <1>5

LEMMA LostKept ==
  ASSUME LockInv, MailInv, TouchInv, AimInv, UnsentInv, LostOnlyAsAsked, NEW c \in Calls, Goes(c)
  PROVE  LostOnlyAsAsked'
<1> USE DEF keptVars, fixedVars, worldVars, serverVars
<1>0. StepKind(c) /\ WorldStep(c) /\ request' = request /\ taken' = taken
  BY StepKinds, WorldSteps DEF StepKind, WorldStep
<1>a. ASSUME NEW m, Safe(m) PROVE Safe(m)' \/ AskedFor(c, m)'
  <2>a. ASSUME NoChange PROVE Safe(m)'
    BY <1>0, <1>a, <2>a, AddingLosesNone
  <2>1. CASE Answer(c) \/ Refuse(c) \/ CheckRateLimit(c) \/ GetImapClient(c) \/ ConnectFails(c)
             \/ GetStrategy(c) \/ Detected(c) \/ AskForLock(c) \/ GetLock(c) \/ LockTimeout(c)
             \/ Release(c)
    BY <2>a, <2>1 DEF Answer, Refuse, CheckRateLimit, GetImapClient, ConnectFails, GetStrategy,
                      Detected, AskForLock, GetLock, LockTimeout, Release, NoChange
  <2>2. CASE Look(c) \/ ScanFinds(c) \/ ScanEmpty(c) \/ Fetch(c) \/ OpenFetch(c) \/ CloseFetch(c)
             \/ ListFolders(c) \/ FolderAllowed(c) \/ SpreadSearch(c) \/ SearchFolder(c)
    BY <2>a, <2>2 DEF Look, ScanFinds, ScanEmpty, Fetch, OpenFetch, CloseFetch, ListFolders,
                      FolderAllowed, SpreadSearch, SearchFolder, ReadOk, Ends
  <2>3. CASE Rejected(c) \/ DraftKept(c) \/ Hangs(c) \/ NoConnection(c) \/ Deliver(c) \/ SendFails(c)
    BY <2>a, <2>3 DEF Rejected, DraftKept, Hangs, NoConnection, Deliver, SendFails, NoChange
  <2>4. CASE ReadElsewhere(c) \/ FailsElsewhere(c) \/ SaveFile(c) \/ ChangeScripts(c)
             \/ FindExistingEvent(c) \/ WriteToApp(c) \/ WriteOffMac(c)
    BY <2>a, <2>4 DEF ReadElsewhere, FailsElsewhere, SaveFile, ChangeScripts, Aside,
                      FindExistingEvent, WriteToApp, WriteOffMac, Apart, NoChange
  <2>5. CASE MarkMessages(c) \/ CopyMessages(c)
    <3>1. box \in Folders /\ Here(c) \in SUBSET mail[box]
      BY <2>5, InOwnBox DEF MarkMessages, CopyMessages, Runs, At, ByUid, Here
    <3>2. Mark(Here(c), box) \/ (Step(c).to \in Folders /\ Copy(Here(c), Step(c).to))
      BY <2>5 DEF MarkMessages, CopyMessages, MailInv
    <3>3. QED
      BY <1>0, <1>a, <3>1, <3>2, AddingLosesNone
  <2>6. CASE CreateMissingMailbox(c) \/ MailboxCreate(c)
    <3>1. NoChange \/ \E g : CreateFolder(g)
      BY <2>6 DEF CreateMissingMailbox, MailboxCreate
    <3>2. QED
      BY <1>0, <1>a, <3>1, AddingLosesNone
  <2>7. CASE AppendMessage(c)
    <3>1. \E d \in Calls, g \in Folders : Append1(d, g)
      BY <2>7 DEF AppendMessage, MailInv
    <3>2. QED
      BY <1>0, <1>a, <3>1, AddingLosesNone
  <2>8. CASE DeleteCopies(c)
    <3>1. Runs(c, {"deleteCopies"}) /\ Expunge(Copies(c), box)
      BY <2>8 DEF DeleteCopies
    <3>2. box = Label /\ box \in Folders /\ box \in Views
      BY <3>1, InLabel, FolderNames DEF Views
    <3>3. QED
      BY <1>0, <1>a, <3>1, <3>2, ExpungeLoses
  <2>9. CASE MailboxDelete(c)
    <3>1. Runs(c, {"remove"}) /\ "changed" \in fate'[c]
      BY <2>9, DoneMarks DEF MailboxDelete
    <3>2. "remove" \in MayUse(request[c]) /\ Accepted(request[c])
      BY <3>1, StandsAt DEF Runs, At, Step, LockInv, CoreInv
    <3>3. request[c].tool \in {"delete_label", "delete_mailbox"}
      BY <3>2, WhoDeletes
    <3>4. QED
      BY <1>0, <3>1, <3>3 DEF AskedFor
  <2>10. CASE MoveMessages(c)
    BY <1>0, <1>a, <2>10, MoveAsked
  <2>11. CASE DeleteMessages(c)
    BY <1>0, <1>a, <2>11, DeleteAsked
  <2>12. CASE MailboxRename(c)
    BY <1>0, <1>a, <2>12, RenameAsked
  <2>13. QED
    BY <2>1, <2>2, <2>3, <2>4, <2>5, <2>6, <2>7, <2>8, <2>9, <2>10, <2>11, <2>12 DEF Goes
<1>1. \A d \in Calls, m \in Messages : AskedFor(d, m) => AskedFor(d, m)'
  BY <1>0, AskedStays
<1>2. LostOnlyAsAsked' <=> \A m \in Messages : Safe(m)' \/ \E d \in Calls : AskedFor(d, m)'
  BY LostIsNext
<1>3. QED
  BY <1>a, <1>1, <1>2, LostIs

LEMMA LostStays ==
  ASSUME LockInv, MailInv, TouchInv, AimInv, UnsentInv, LostOnlyAsAsked, [Next]_vars
  PROVE  LostOnlyAsAsked'
<1>1. ASSUME UNCHANGED <<request, fate, touched>>, \A m \in Messages : Safe(m) => Safe(m)'
      PROVE  LostOnlyAsAsked'
  <2>1. \A d \in Calls, m \in Messages : AskedFor(d, m) => AskedFor(d, m)'
    BY <1>1 DEF AskedFor, Views
  <2>2. LostOnlyAsAsked' <=> \A m \in Messages : Safe(m)' \/ \E d \in Calls : AskedFor(d, m)'
    BY LostIsNext
  <2>3. QED
    BY <1>1, <2>1, <2>2, LostIs
<1>2. CASE UNCHANGED vars
  <2>1. \A m \in Messages : Safe(m) => Safe(m)'
    BY <1>2 DEF vars, serverVars, Safe, InFolder, Of, Views
  <2>2. QED
    BY <1>1, <1>2, <2>1 DEF vars, keptVars, fixedVars
<1>3. CASE Outside
  <2>1. UNCHANGED <<request, fate, touched>>
    BY <1>3 DEF Outside, keptVars, fixedVars
  <2>2. ASSUME NEW m \in Messages, Safe(m) PROVE Safe(m)'
    <3>1. CASE Drop
      BY <2>2, <3>1 DEF Drop, Safe, InFolder, Of, Views
    <3>2. ASSUME NEW f \in {"INBOX", "Work"} \cap exists, NEW g \in {"INBOX", "Work"} \cap exists,
                 NEW x \in mail[f], Move({x}, f, g), taken' = taken
          PROVE  Safe(m)'
      <4>1. f \in Folders /\ g \in exists /\ g \notin Views /\ {x} \in SUBSET mail[f]
        BY <3>2, ViewNames DEF MailInv
      <4>2. QED
        BY <2>2, <3>2, <4>1, MoveLoses
    <3>3. ASSUME NEW f \in {"INBOX", "Drafts"}, NEW x \in mail[f], Expunge({x}, f),
                 taken' = taken \cup {x.msg}
          PROVE  Safe(m)'
      <4>1. f \in Folders
        BY FolderNames
      <4>2. Safe(m)' \/ m \in Of({x})
        BY <2>2, <3>3, <4>1, ExpungeLoses
      <4>3. m \in Of({x}) => m \in taken'
        BY <3>3 DEF Of
      <4>4. QED
        BY <4>2, <4>3 DEF Safe
    <3>4. ASSUME NEW f, CreateFolder(f), taken' = taken
          PROVE  Safe(m)'
      BY <2>2, <3>4, AddingLosesNone
    <3>5. QED
      BY <1>3, <3>1, <3>2, <3>3, <3>4 DEF Outside, OtherClient
  <2>3. QED
    BY <1>1, <2>1, <2>2
<1>4. QED
  BY <1>2, <1>3, LostKept DEF Next

LEMMA LostInit ==
  ASSUME Init
  PROVE  LostOnlyAsAsked
<1>1. PICK case \in Cases : mail = case.mail /\ exists = case.exists
  BY DEF Init
<1>2. ASSUME NEW m \in Messages PROVE Safe(m)
  <2>1. \E f \in case.exists \ Views : m \in {x.msg : x \in case.mail[f]}
    BY CasesOK
  <2>2. QED
    BY <1>1, <2>1 DEF Safe, InFolder, Of
<1>3. QED
  BY <1>2, LostIs

\* A message leaves the folders of the account only by a call that was asked for it, or by
\* another client, whatever fails or hangs: imap.service.ts and label-strategy.ts for any
\* number of calls at a time.
THEOREM NothingIsLost == Spec => []LostOnlyAsAsked
<1>1. Init /\ LockInv => SentInv /\ AimInv /\ UnsentInv
  BY SentInit, AimInit, UnsentInit
<1>2. QED
  BY <1>1, LocksHeld, MailInit, MailStep, SentStep, AimStays, UnsentStays, LostInit, LostStays,
     PTL DEF Spec
=============================================================================
