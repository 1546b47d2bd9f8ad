----------------------------- MODULE DriveReplica -----------------------------
(***************************************************************************)
(* What Drive collaboration promises (drive_collab.py, the docstring of    *)
(* DriveCollaborationService): Cards and artifacts here are authoritative, *)
(* Drive is a replica of them. Whatever happens there or on the way there, *)
(* nothing that was committed here is lost or rolled back, and the replica *)
(* shows nothing that was not here first.                                  *)
(***************************************************************************)
EXTENDS Naturals

CONSTANTS
  Card,      \* ids of Cards
  Artifact   \* ids of attachments

VARIABLES
  truth, kept,     \* of a Card: its version (0: there is none), its artifacts
  shown, copied    \* and what the replica shows of both

vars == <<truth, kept, shown, copied>>

Init ==
  /\ truth = [k \in Card |-> 0] /\ kept = [k \in Card |-> {}]
  /\ shown = [k \in Card |-> 0] /\ copied = [k \in Card |-> {}]

\* A Card is created or changed: one version more.
Commit(k) ==
  /\ truth' = [truth EXCEPT ![k] = @ + 1]
  /\ UNCHANGED <<kept, shown, copied>>

Keep(k, a) ==
  /\ truth[k] > 0
  /\ kept' = [kept EXCEPT ![k] = @ \cup {a}]
  /\ UNCHANGED <<truth, shown, copied>>

\* Projections may overtake each other: an older version can return.
Show(k) ==
  /\ \E v \in 1 .. truth[k] : shown' = [shown EXCEPT ![k] = v]
  /\ UNCHANGED <<truth, kept, copied>>

Copy(k) ==
  /\ \E a \in kept[k] : copied' = [copied EXCEPT ![k] = @ \cup {a}]
  /\ UNCHANGED <<truth, kept, shown>>

Next == \E k \in Card :
  \/ Commit(k)
  \/ \E a \in Artifact : Keep(k, a)
  \/ Show(k)
  \/ Copy(k)

Spec == Init /\ [][Next]_vars
=============================================================================
