------------------------- MODULE MCOpenCodePlugin -------------------------
\* Three of two nested calls, a call of its own and a prompt with an attachment; one loss.
EXTENDS OpenCodePlugin, TLC

Permuted == Permutations(Nested)
=============================================================================
