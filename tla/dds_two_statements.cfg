SPECIFICATION Spec
CONSTANTS
  Dds = {d1, d2}
  Lots = {l1}
  Tasks = {t1, t2, t3}
  Workers = {w1, w2}
  Refs = {r1, r2, r3}
  None = None
  MaxAttempts = 1
  MaxRetries = 1
  MaxSubmits = 2
  MaxDisruptions = 0
  Faults = {"token", "5xx", "garbled", "database"}
SYMMETRY Symmetry
INVARIANTS LotFollowsEvidence NothingOrphaned
PROPERTIES VerdictsKept FollowsLifecycle
