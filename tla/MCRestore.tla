----------------------------- MODULE MCRestore -----------------------------
(***************************************************************************)
(* Instances of Restore for TLC.                                           *)
(***************************************************************************)
EXTENDS Restore, TLC

CONSTANTS p1, p2, core, aux

\* The two processes are interchangeable.
Symmetry == Permutations({p1, p2})
=============================================================================
