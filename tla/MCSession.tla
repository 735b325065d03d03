----------------------------- MODULE MCSession ------------------------------
(***************************************************************************)
(* Small instances of Session.                                             *)
(***************************************************************************)
EXTENDS Session

CONSTANTS a1, a2, c1

OneApp == {a1}
TwoApps == {a1, a2}
OneChannel == {c1}
=============================================================================
