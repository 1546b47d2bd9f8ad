------------------------------- MODULE MCMcpHub -------------------------------
(***************************************************************************)
(* A small instance of McpHub for TLC: two threads, one principal, one     *)
(* upstream with one tool and two choices of arguments, one local tool.    *)
(***************************************************************************)
EXTENDS McpHub, TLC

CONSTANTS r1, r2, p1, u1, l1, n1, t1, t2

TwoThreads == {r1, r2}
OnePrincipal == {p1}
OneUpstream == {u1}
OneLocal == {l1}
TwoRemote == {t1, t2}
OneName == {n1}
NamedIsOne == [t \in {t1, t2} |-> n1]
HomeIsOne == [n \in {n1} |-> u1]
SomeGrants == {{l1}, {l1, t1, t2}}
Alike == Permutations(TwoThreads) \cup Permutations(TwoRemote)

\* When the last handle has been issued, requests no longer overlap.
Meetings ==
  issued = MaxHandle => Cardinality({r \in Thread : pc[r] \notin {"idle", "close"}}) <= 1
=============================================================================
