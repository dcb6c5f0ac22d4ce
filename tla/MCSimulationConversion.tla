----------------------- MODULE MCSimulationConversion -----------------------
\* Three concurrent requests for one simulation and one CPF, for TLC.
EXTENDS SimulationConversion, TLC

CONSTANTS r1, r2, r3

MCRequests == {r1, r2, r3}
Symmetry == Permutations(MCRequests)
=============================================================================
