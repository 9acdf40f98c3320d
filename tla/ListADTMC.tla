------------------------------ MODULE ListADTMC ------------------------------
EXTENDS ListADTProperties, TLC

\* No step looks at the identity of a node, a list or a value.
Symmetry == Permutations(Nodes) \cup Permutations(Lists) \cup Permutations(Values)
=============================================================================
