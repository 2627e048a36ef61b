--------------------------- MODULE MCTranscripts ---------------------------
(***************************************************************************)
(* Instances of Transcripts for TLC.                                       *)
(***************************************************************************)
EXTENDS Transcripts, TLC

\* Hooks behave alike.
Symmetry == Permutations(Hooks)
=============================================================================
