------------------------------ MODULE MCKeyFile ------------------------------
EXTENDS KeyFile, TLC

CONSTANTS u1, a1

OneAgent == a1 :> u1

Symmetries == Permutations(Inodes) \union Permutations(Keys)
=============================================================================
