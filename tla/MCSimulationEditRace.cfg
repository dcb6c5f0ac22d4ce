SPECIFICATION Spec
CONSTANTS
  r1 = r1
  r2 = r2
  r3 = r3
  None = None
  Requests <- MCRequests
  Terms = {"t1", "t2"}
  BirthDates = {"b1"}
PROPERTIES
  ConvertedSimulationImmutable
