SPECIFICATION ReadsSpec
CONSTANTS
  ann = ann
  bob = bob
  i1 = i1
  i2 = i2
  p1 = p1
  r1 = r1
  BadId = BadId
  NoItem = NoItem
  NoCall = NoCall
  NoQuery = NoQuery
  Users = {ann, bob}
  Ids = {i1, i2}
  Procs = {p1}
  Readers = {r1}
  Texts <- MCTexts
  Slugs <- MCSlugs
  SlugOf <- MCSlugOf
  RelTypes = {"cites"}
  Requests <- WriteRequests
  Queries <- ReadQueries
  Backend = "postgres"
VIEW ViewWithoutAnswers
INVARIANTS ShownWasVisible EdgesAreAnchored StatsMatchPage
