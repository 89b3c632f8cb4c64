----------------------------- MODULE MCInstance -----------------------------
EXTENDS Instance, TLC

MCSymmetry == Permutations(Configs) \cup Permutations(Passwords)
============================================================================
