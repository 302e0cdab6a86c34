-------------------------- MODULE MCPlatformAssets --------------------------
EXTENDS PlatformAssets, TLC
Symmetry == Permutations(Processes) \cup Permutations(Projects)
            \cup Permutations(Welds) \cup Permutations(Admins)
=============================================================================
