----------------------------- MODULE MCLifecycle -----------------------------
(***************************************************************************)
(* A small instance of Lifecycle for TLC: two releases.                    *)
(***************************************************************************)
EXTENDS Lifecycle, TLC

CONSTANTS r1, r2

TwoReleases == {r1, r2}

\* The two releases are told apart by nothing but their names.
Alike == Permutations(TwoReleases)

\* A host that a command has left half-way is not followed further, nor one whose
\* files a failed restore has left to root (LifecycleOwners shows that one).
Followed == ~torn /\ (At("idle") => owned)
=============================================================================
