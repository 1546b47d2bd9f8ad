---------------------------- MODULE MCDriveCollab ----------------------------
(***************************************************************************)
(* A small instance of DriveCollab for TLC: two callers, one request with  *)
(* an attachment that is accepted and one that is not, two Cards.          *)
(***************************************************************************)
EXTENDS DriveCollab

CONSTANTS c1, c2, k1, k2, f1, a1, a2

TwoCallers == {c1, c2}
TwoCards == {k1, k2}
OneFolder == {f1}
TwoAttachments == {a1, a2}
OneAllowed == {a1}
=============================================================================
