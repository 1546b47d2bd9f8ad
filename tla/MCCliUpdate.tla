----------------------------- MODULE MCCliUpdate -----------------------------
(***************************************************************************)
(* Small instances of CliUpdate for TLC: versions 1 and 4 are good, 2 does *)
(* not pass --help, 3 passes that but no model probe.                      *)
(***************************************************************************)
EXTENDS CliUpdate, TLC

CONSTANT u1

SoundVersions == {1, 3, 4} \cap Version
UsableVersions == {1, 4} \cap Version
OneUpdater == {u1}

Allow(n, kinds) == [k \in Kind |-> IF k \in kinds THEN n ELSE 0]
Disturbed == [Allow(1, Kind) EXCEPT !["releases"] = 2]
=============================================================================
