------------------------------ MODULE MCSetup ------------------------------
EXTENDS SetupProps, TLC

Symmetric == Permutations(Pids)
=============================================================================
