---- MODULE MCFreezer ----
EXTENDS FreezerRows, TLC

MCSymmetry == Permutations(Tables) \cup Permutations(Values)
====
