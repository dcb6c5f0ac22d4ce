---------------------------- MODULE MCTodayQueue ----------------------------
EXTENDS TodayQueue, TLC

CONSTANTS ana, bia, t1, t2, t3

MCManager == (ana :> None) @@ (bia :> ana)
Partner == {"ROLE_CONSULTANT", "QUOTE_ACTIVITY_GATES"}
MCSessions == {[user |-> ana, permissions |-> Partner],
               [user |-> bia, permissions |-> Partner],
               [user |-> bia, permissions |-> Partner \cup {Support}]}
MCAssigned == [t \in Tasks |-> bia]
MCSegment == (t1 :> "recent") @@ (t2 :> "recent") @@ (t3 :> "mid")
MCRank == (t1 :> 1) @@ (t2 :> 1) @@ (t3 :> 2)
\* t1 and t2 differ in nothing.
Ties == Permutations({t1, t2})
=============================================================================
