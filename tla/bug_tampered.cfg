SPECIFICATION Spec
CONSTANTS
  Lots = {l1}
  Orgs = {o1}
  Bodies <- Inspections
  MaxTime = 2
  Contents = {c1}
  Styles <- AsStored
  Sessions = {s1, s2}
  MaxEvents = 3
  None = None
SYMMETRY Symmetry
INVARIANTS TamperEvident
