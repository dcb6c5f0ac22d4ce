SPECIFICATION FairSpec
CONSTANTS
  r1 = r1
  r2 = r2
  r3 = r3
  None = None
  Requests = {r1, r2}
  Terms = {"t1", "t2"}
  BirthDates = {"b1", "b2"}
INVARIANTS
  TypeOK
  OneProposal
  PartyExists
PROPERTIES
  CanonicalBirthKept
  RequestsEnd
