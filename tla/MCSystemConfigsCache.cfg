SPECIFICATION Spec
CONSTANTS
  r1 = r1
  r2 = r2
  k1 = k1
  k2 = k2
  None = None
  Keys = {k1, k2}
  Requests = {r1, r2}
  TTL = 2
  MaxLatency = 1
  Instants = {0, 1, 2, 3}
SYMMETRY Symmetry
INVARIANTS
  TypeOK
  AnswersFresh
