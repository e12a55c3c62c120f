SPECIFICATION Spec
CONSTANTS
  Users = {u1}
  Orgs = {o1, o2}
  Roles = {"producer", "admin"}
  Routes = {"build_dds", "create_plot"}
  Sessions = {s1}
  Second = 2
  AccessTtl = 1
  RefreshTtl = 2
  MaxHold = 1
  MaxTime = 6
  MaxChanges = 2
  MaxTokens = 4
  None = None
SYMMETRY Symmetry
INVARIANTS TypeOK StaleRightsEnd LookedUpIsFresh IssuedFromRows AdvertisedLife
