CONSTANTS
  TPID_MAX = 5
  VERSATILE = TRUE
  Triples <- MCTriples
  MaxTriples = 2
  Headers = {}
  ASSOCIATIVITY = 3
SPECIFICATION Spec
INVARIANT SpecIndexInvariant
