SPECIFICATION FairSpec
CONSTANTS
  a1 = a1
  m1 = m1
  m2 = m2
  None = None
  Attachments = {a1}
  Removals = {m1, m2}
  MaxAttempts = 2
INVARIANTS
  TypeOK
  ListedFilesStoredIfAnswered
  OrphansHaveACause
PROPERTY
  UploadsAndRemovalsEnd
CHECK_DEADLOCK FALSE
