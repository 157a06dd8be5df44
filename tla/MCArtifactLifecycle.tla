------------------------- MODULE MCArtifactLifecycle -------------------------
EXTENDS ArtifactLifecycle, TLC

CONSTANTS p1, p2, f1, f2, wts, cnf, d1, d2

Symmetries == Permutations(Procs) \cup Permutations(Files) \cup Permutations(Paths)
              \cup Permutations(Digests)
=============================================================================
