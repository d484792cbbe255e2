---------------------------- MODULE MCLifecycle -----------------------------
\* Lifecycle on a small instance.
EXTENDS Lifecycle

CONSTANTS p1, p2, p3

\* A process spawned by the second one is one of the others.
Typed ==
  [p \in Procs |->
     CASE p = p1 -> {"serve"}
       [] p = p2 -> {"serve", "launch"}
       [] p = p3 -> {"stop", "status"}]

=============================================================================
