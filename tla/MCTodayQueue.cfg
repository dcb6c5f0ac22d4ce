SPECIFICATION Spec
CONSTANTS
  ana = ana
  bia = bia
  t1 = t1
  t2 = t2
  t3 = t3
  None = None
  Users = {ana, bia}
  Tasks = {t1, t2, t3}
  Manager <- MCManager
  Partners = {bia}
  Sessions <- MCSessions
  Assigned <- MCAssigned
  Segment <- MCSegment
  Rank <- MCRank
  SimulationBlocking = {"recent"}
  CreationBlocking = {"recent", "mid"}
  MaxCommits = 3
SYMMETRY Ties
INVARIANTS
  TypeOK
  NothingMissed
  QuietAnswerExact
  GateExplained
