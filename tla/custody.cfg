SPECIFICATION Spec
CONSTANTS
  Lots = {l1}
  Orgs = {o1, o2}
  Bodies <- MCBodies
  MaxTime = 2
  Contents = {c1}
  Styles <- MCStyles
  Sessions = {s1, s2}
  MaxEvents = 3
  None = None
SYMMETRY Symmetry
INVARIANTS TypeOK AuditHolds OrderlyVerifies VerifiedIsOrderly
PROPERTIES HolderFollows
