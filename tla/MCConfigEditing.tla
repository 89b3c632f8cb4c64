-------------------------- MODULE MCConfigEditing --------------------------
EXTENDS ConfigEditing, TLC

MCSymmetry == Permutations(Ports) \cup Permutations(Entries) \cup Permutations(FrpFiles)
============================================================================
