--------------------------- MODULE MCActivityQueue ---------------------------
\* Two requests of one partner on a visit and a contact of different segments, for TLC.
EXTENDS ActivityQueue, TLC

CONSTANTS r1, r2, visit, contact, partner

MCOwner == [t \in {visit, contact} |-> partner]
MCPriority == (visit :> 1) @@ (contact :> 2)
=============================================================================
