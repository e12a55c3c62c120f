SPECIFICATION Spec
CONSTANTS
  Lots = {l1}
  Orgs = {o1}
  Bodies <- Inspections
  MaxTime = 2
  Contents = {c1}
  Styles <- InOtherZone
  Sessions = {s1, s2}
  MaxEvents = 2
  None = None
SYMMETRY Symmetry
INVARIANTS RecordedVerifies
