---------------------------- MODULE MCKanbanAgent ----------------------------
(***************************************************************************)
(* Small instances of KanbanAgent for TLC: two tickers race for one Card,  *)
(* or one ticker and a client, whose task belongs to no Card, for a claim. *)
(***************************************************************************)
EXTENDS KanbanAgent, TLC, Functions

CONSTANTS t1, t2, c1

OneTicker == {t1}
TwoTickers == {t1, t2}
OneClient == {c1}
NoClients == {}
FirstCard == {1}

\* A Limit that allows n of each kind listed and none of the others.
Allow(n, kinds) == [k \in Kind |-> IF k \in kinds THEN n ELSE 0]
Upset == Allow(1, Kind)
Interference == Allow(1, {"moves", "submits"})
Killed == Allow(1, {"moves", "submits", "deaths"})

\* A CONSTRAINT: at most two disturbances in a behaviour, of whatever kind.
UpsetTwice == FoldFunction(LAMBDA n, m : n + m, 0, used) <= 2

TickerSymmetry == Permutations({t1, t2})
=============================================================================
