------------------------------- MODULE MCImap -------------------------------
EXTENDS ImapSession, TLC

Symmetry == Permutations(Sessions) \cup Permutations(Msgs)
=============================================================================
