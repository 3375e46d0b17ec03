------------------------------ MODULE MCAtRest ------------------------------
EXTENDS AtRest, TLC

Symmetry == Permutations(Openers) \cup Permutations(Mails) \cup Permutations(Passwords)
=============================================================================
