SPECIFICATION Spec
CONSTANTS
  ann = ann
  bob = bob
  i1 = i1
  i2 = i2
  p1 = p1
  p2 = p2
  BadId = BadId
  NoItem = NoItem
  NoCall = NoCall
  Users = {ann, bob}
  Ids = {i1, i2}
  Procs = {p1, p2}
  Texts <- MCTexts
  Slugs <- MCSlugs
  SlugOf <- MCSlugOf
  RelTypes = {"cites"}
  Requests <- EditRequests
  Backend = "postgres"
SYMMETRY Symmetry
VIEW ViewWithoutAnswers
INVARIANTS UniqueKeys NeverSharedUnasked NothingLostUnasked
PROPERTIES DeletedIsFinal OwnerOnly AnswersAreTruthful
