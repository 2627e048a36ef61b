---------------------------- MODULE MCLifecycle ----------------------------
(***************************************************************************)
(* An instance of Lifecycle for TLC.                                       *)
(***************************************************************************)
EXTENDS Lifecycle, TLC

CONSTANTS claude, cline

\* All harnesses, or one of them.
MCSelections == {{claude, cline}, {cline}}

\* Profiles behave alike.
Symmetry == Permutations(Profiles)
=============================================================================
