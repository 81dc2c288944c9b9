-------------------------- MODULE MCClawVaultPool --------------------------
EXTENDS ClawVaultPool

\* Connections are interchangeable: no definition tells two of them apart.
Symmetry == Permutations(Conns)
=============================================================================
