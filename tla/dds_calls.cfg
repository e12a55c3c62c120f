SPECIFICATION FairSpec
CONSTANTS
  Dds = {d1}
  Lots = {l1}
  Tasks = {t1}
  Workers = {w1, w2}
  Refs = {r1, r2, r3, r4, r5}
  None = None
  MaxAttempts = 2
  MaxRetries = 1
  MaxSubmits = 1
  MaxDisruptions = 1
  Faults = {"token", "transport", "5xx", "lost", "garbled", "database"}
INVARIANTS TypeOK ReceiptsAreReal OneCallOneVerdict FilingBudget
PROPERTIES TasksTerminate SubmissionDecided
