----------------------------- MODULE MCTreeSync -----------------------------
EXTENDS TreeSync, TLC
Symmetry == Permutations(StartFolders) \cup Permutations(StartFiles) \cup Permutations(Folders \cap Elsewhere)
            \cup Permutations(Names) \cup Permutations(Admins) \cup Permutations(People)
=============================================================================
