\* Three runners that race, die and are started again over three migrations.
CONSTANTS
  r1 = r1
  r2 = r2
  r3 = r3
  Runners <- ThreeRunners
  N = 3
  MaxFaults = 3
SPECIFICATION FairMigrateSpec
INVARIANTS
  TableTellsTruth
  DoneMeansAll
  WaitsCanEnd
  RaceLeavesOne
PROPERTIES
  ImplementsHistory
  RunsEnd
  RaceCompletes
