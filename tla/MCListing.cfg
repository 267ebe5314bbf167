SPECIFICATION ListingSpec
CONSTANTS
  p1 = p1
  p2 = p2
  i1 = i1
  i2 = i2
  Nothing = Nothing
  Malformed = Malformed
  Procs = {p1, p2}
  Ids = {i1, i2}
  TitleRank <- MCTitleRank
  RawLimits <- MCRawLimits
  Timeout = 1
  DefaultLimit = 1
  MaxLimit = 2
  FeedDefault = 1
  FeedMax = 2
  RecentLimit = 1
  MaxTime = 3
  MaxOrphans = 1
SYMMETRY Symmetry
INVARIANTS
  NewerFirst
  FeedFollowsList
  MoreIsNeverLess
