SPECIFICATION Spec
CONSTANTS
  Harvests = {h1,h2}
  Codes = {c1,c2,c3}
  Commodities = {coffee}
  Fine = 4
  Yields = {4,8}
  Amounts = {1,2,6,8}
  Sessions = {s1, s2}
  None = None
SYMMETRY Symmetry
INVARIANTS TypeOK OverdrawBounded TotalNearParts
PROPERTIES FollowsStock
