------------------------------ MODULE MCOutbox ------------------------------
(***************************************************************************)
(* Instances of Outbox for TLC.                                            *)
(***************************************************************************)
EXTENDS Outbox, TLC

\* Processes of one kind behave alike and no safety property names one.
Symmetry == Permutations(Hooks)
=============================================================================
