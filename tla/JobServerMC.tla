----------------------------- MODULE JobServerMC -----------------------------
EXTENDS JobServerProperties, TLC

\* No step looks at the identity of a worker, a connection or a URI.
Symmetry == Permutations(Workers) \cup Permutations(Conns) \cup Permutations(Uris)
=============================================================================
