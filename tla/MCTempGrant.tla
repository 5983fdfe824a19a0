---------------------------- MODULE MCTempGrant ----------------------------
(***************************************************************************)
(* Instances of TempGrant for TLC: two restores, each connected to the     *)
(* staging database it created.                                            *)
(***************************************************************************)
EXTENDS TempGrant, TLC

CONSTANTS r1, r2, s1, s2

OwnStaging == (r1 :> s1) @@ (r2 :> s2)
=============================================================================
