----------------------------- MODULE MCTargets ------------------------------
\* Targets on small instances.
EXTENDS Targets, TLC

\* Versions, and verifications, are only compared with each other.
Symmetry == Permutations(Versions) \cup Permutations(Verifiers)

=============================================================================
