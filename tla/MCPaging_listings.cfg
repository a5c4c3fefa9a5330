SPECIFICATION Spec
CONSTANTS
  Ids = {i1, i2, i3}
  Limit = 1
  MaxTime = 3
  Listings = {"forms", "logs"}
SYMMETRY RowsAlike
INVARIANTS
  TypeOK
  MissesHaveCause
  RepeatsHaveCause
  CountCoversPage
