---------------------------- MODULE MCWorkspaces ----------------------------
\* Workspaces on small instances.
EXTENDS Workspaces, TLC

CONSTANT s1

OneSlot == <<s1>>

\* Directories are only told apart.
Symmetry == Permutations(Dirs) \cup Permutations(Runs)

=============================================================================
