SPECIFICATION Spec
CONSTANTS
  Dds = {d1}
  Lots = {l1}
  Tasks = {t1, t2}
  Workers = {w1, w2}
  Refs = {r1, r2}
  None = None
  MaxAttempts = 2
  MaxRetries = 1
  MaxSubmits = 2
  MaxDisruptions = 0
  Faults = {"token"}
INVARIANTS RejectedOnlyByTracesNT
