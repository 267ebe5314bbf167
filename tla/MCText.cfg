SPECIFICATION TextSpec
CONSTANT MaxLength = 6
INVARIANTS
  SlugsHaveLetters
  SlugIsStable
  RelationTypeIsStable
