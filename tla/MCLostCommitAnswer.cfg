SPECIFICATION Spec
CONSTANTS
  a1 = a1
  m1 = m1
  m2 = m2
  None = None
  Attachments = {a1}
  Removals = {m1, m2}
  MaxAttempts = 2
SYMMETRY Symmetry
INVARIANT ListedFilesStored
CHECK_DEADLOCK FALSE
