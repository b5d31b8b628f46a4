----------------------------- MODULE MCClaimQueue -----------------------------
(* Values of the constants of ClaimQueue for TLC. *)
EXTENDS ClaimQueueProps, TLC

CONSTANTS Ann, a

AnnsClaim == a :> Ann

=============================================================================
