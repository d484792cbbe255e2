---------------------------- MODULE MCResponses -----------------------------
\* Responses on small instances.
EXTENDS Responses, TLC

Symmetry == Permutations(Ids)

=============================================================================
