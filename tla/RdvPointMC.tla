---------------------------- MODULE RdvPointMC ----------------------------
(* Small instances of RdvPoint for TLC. *)
EXTENDS RdvPoint, TLC

CONSTANTS v1, v2, v3, r1, r2, m1

TwoClients == {v1, v2}
ThreeClients == {v1, v2, v3}
OnePoint == {r1}
TwoPoints == {r1, r2}
OneMajor == [r \in Points |-> m1]

P(gn, vn, en, to) == [groupNum |-> gn, vupNum |-> vn, expected |-> en, timeout |-> to]

\* Two groups of one that start when complete; one group of two that waits for
\* a third; what setrdvp makes without options.
MixedChoices == {P(2, 1, 2, 1), P(1, 2, 3, 1), P(1, 0, 0, 0)}
\* One or two groups, small or large, that only the time-out fires.
Resized == {P(2, 1, 9, 1), P(1, 2, 9, 1)}
NoChoice == {}

Symmetric == Permutations(Passports) \cup Permutations(Points)
=============================================================================
