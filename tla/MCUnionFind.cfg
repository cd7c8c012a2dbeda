SPECIFICATION UFSpec
CONSTANT Size = 5
INVARIANTS
  RootDominates
  FindCorrect
PROPERTIES
  CompressionPreservesRoots
  RefinesEquivalence
  CallShortens
  CallReturns
