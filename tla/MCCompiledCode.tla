-------------------------- MODULE MCCompiledCode ---------------------------
EXTENDS CompiledCode, TLC

Symmetry == Permutations(Addr)
=============================================================================
