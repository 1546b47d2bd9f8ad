---------------------------- MODULE MCCredentials ----------------------------
(***************************************************************************)
(* Small instances of Credentials for TLC: two callers, of whom each may   *)
(* be at any step while the other takes all of its own.                    *)
(***************************************************************************)
EXTENDS Credentials, TLC

CONSTANTS c1, c2, m1, m2, s1, s2, n1, n2

TwoCallers == {c1, c2}
TwoMaterials == {m1, m2}
TwoSecrets == {s1, s2}
OneSecret == {s1}
TwoNames == {n1, n2}

OfEach == [k \in Kind |-> 1]
Undisturbed == [k \in Kind |-> 0]

Symmetric == Permutations({c1, c2}) \cup Permutations({m1, m2})
               \cup Permutations({s1, s2}) \cup Permutations({n1, n2})
=============================================================================
