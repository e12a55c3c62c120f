SPECIFICATION Spec
CONSTANTS
  Harvests = {h1}
  Codes = {c1, c2}
  Commodities = {coffee}
  Fine = 1
  Yields = {2}
  Amounts = {1, 2}
  Sessions = {s1, s2}
  None = None
SYMMETRY Symmetry
INVARIANTS NoOverdraw
