-------------------------- MODULE MCComplexPqueue ----------------------------
EXTENDS ComplexPqueue, TLC
NodeSymmetry == Permutations(Nodes)
================================================================================
