CONSTANTS
  TPID_MAX = 5
  VERSATILE = TRUE
  Triples <- MCTriplesShared
  MaxTriples = 3
  Headers = {}
  ASSOCIATIVITY = 3
SPECIFICATION Spec
INVARIANT GroupsMatchInput
INVARIANT EntriesTileAllocation
INVARIANT PredicateListsCorrect
INVARIANT IndexMatchesTriples
INVARIANT IndexAbortsOnSharedIds
