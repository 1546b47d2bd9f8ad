---------------------------- MODULE MCDriveBinding ----------------------------
(***************************************************************************)
(* Small instances of DriveBinding for TLC: a thread of the API server and *)
(* the worker.                                                             *)
(***************************************************************************)
EXTENDS DriveBinding

CONSTANTS s1, s2, r1, p1, p2, api

OneSecret == {s1}
TwoSecrets == {s1, s2}
OneRoot == {r1}
TwoPrints == {p1, p2}
OneOwner == {api}
=============================================================================
