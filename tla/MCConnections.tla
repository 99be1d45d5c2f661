--------------------------- MODULE MCConnections ---------------------------
(* Instances of Connections for TLC. *)
EXTENDS Connections

CONSTANTS c1, c2, c3, k1, k2

Account(exact, name, email) == [exact |-> exact, name |-> name, email |-> email]
Key(text, lower) == [text |-> text, lower |-> lower]

MCAccounts == {Account("Work", "work", "me@work")}
MCKeys == {None, Key("Work", "work"), Key("WORK", "work"), Key("me@work", "me@work"),
           Key("default", "default"), Key("gone", "gone")}
MCConnections == {c1, c2, c3}
MCCallers == {k1, k2}

MCSpec == Init /\ [][Next]_vars
=============================================================================
