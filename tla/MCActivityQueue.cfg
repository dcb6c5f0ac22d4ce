SPECIFICATION FairSpec
CONSTANTS
  r1 = r1
  r2 = r2
  visit = visit
  contact = contact
  partner = partner
  None = None
  Tasks = {visit, contact}
  Visits = {visit}
  Agents = {partner}
  Owner <- MCOwner
  Priority <- MCPriority
  Requests = {r1, r2}
  RescheduleMaxDays = 1
INVARIANTS
  TypeOK
  RecordedOnce
  DeferralsCounted
PROPERTIES
  ClosedForGood
  SegmentLock
  DeferringEnds
