------------------------ MODULE MCSystemConfigsCache ------------------------
\* Two requests for two keys, over three lifetimes of an entry, for TLC.
EXTENDS SystemConfigsCache, TLC

CONSTANTS r1, r2, k1, k2

Symmetry == Permutations({r1, r2}) \cup Permutations({k1, k2})
=============================================================================
