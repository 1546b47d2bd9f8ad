------------------------------- MODULE MCEdge -------------------------------
(***************************************************************************)
(* A small instance of Edge for TLC: two commands, two API credentials,    *)
(* two hostnames.                                                          *)
(***************************************************************************)
EXTENDS Edge

CONSTANTS c1, c2, a1, a2, h1, h2

TwoCallers == {c1, c2}
TwoApis == {a1, a2}
TwoHosts == {h1, h2}
=============================================================================
