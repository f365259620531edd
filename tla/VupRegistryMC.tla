--------------------------- MODULE VupRegistryMC ---------------------------
(* Small instances of VupRegistry for TLC. *)
EXTENDS VupRegistry

CONSTANTS s1, s2, c1, p1, p2, p3, f1, f2

TwoSockets == {s1, s2}
NoConsoleVups == {}
OneConsoleVup == {c1}
ThreePassports == {p1, p2, p3}
TwoFields == {f1, f2}

\* One message of each kind, the later ones with another view key.
EachKind == {[type |-> "ClientRegister", field |-> f1],
             [type |-> "ReportClientStatus", field |-> f2],
             [type |-> "ReachRDVPoint", field |-> f2]}

\* The first client sends two messages, the second only registers.
SecondRegisters == [s \in Sockets |-> IF s = s2 THEN 1 ELSE 2]

OnlyRegister == {[type |-> "ClientRegister", field |-> f1]}

\* Every object has a passport of its own; removevup names only c1's.
OwnPassports == [v \in Vups |-> CASE v = s1 -> p1 [] v = s2 -> p2 [] v = c1 -> p3]

\* Both connections claim the same passport.
SharedPassports == [v \in Vups |-> IF v = c1 THEN p3 ELSE p1]
=============================================================================
