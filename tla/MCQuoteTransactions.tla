------------------------ MODULE MCQuoteTransactions -------------------------
\* Two concurrent requests on one proposal, for TLC.
EXTENDS QuoteTransactions, TLC

CONSTANTS r1, r2, id1, inc1

MCRequests == {r1, r2}
Symmetry == Permutations(MCRequests)

MCAttachments == {id1, inc1}
MCKind == (id1 :> "identification_document") @@ (inc1 :> "proof_of_income")

\* "low" needs no income proof below limit 2 and a smaller instalment than "high".
MCTerms == {"low", "high"}
MCAmount == [t \in MCTerms |-> IF t = "low" THEN 1 ELSE 3]
MCInstallment == [t \in MCTerms |-> IF t = "low" THEN 1 ELSE 2]
=============================================================================
