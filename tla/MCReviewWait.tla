---------------------------- MODULE MCReviewWait ----------------------------
(***************************************************************************)
(* Small instances of ReviewWait for TLC: the awaited reviewer and one     *)
(* other person.                                                           *)
(***************************************************************************)
EXTENDS ReviewWait

CONSTANTS lead, peer

=============================================================================
