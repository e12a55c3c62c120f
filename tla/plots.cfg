SPECIFICATION WatchedSpec
CONSTANTS
  Plots = {p1, p2}
  Sessions = {s1, s2}
  MaxChecks = 2
  MaxStatements = 1
  None = None
SYMMETRY Symmetry
INVARIANTS TypeOK FlagHasEvidence RiskIsMitigated LossBlocks NegligibleIsCompliant
PROPERTIES GateHolds
