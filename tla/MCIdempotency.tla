--------------------------- MODULE MCIdempotency ----------------------------
\* Idempotency on small instances.
EXTENDS Idempotency, TLC

Symmetry == Permutations(Calls) \cup Permutations(Clients) \cup Permutations(Credentials)
              \cup Permutations(Bodies)

=============================================================================
