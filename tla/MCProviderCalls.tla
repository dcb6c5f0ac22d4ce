-------------------------- MODULE MCProviderCalls ---------------------------
EXTENDS ProviderCalls, TLC

MCLives == [p \in Providers |-> IF p = "celcoin" THEN {2} ELSE {1, 2}]
MCMargin == [p \in Providers |-> 1]
=============================================================================
