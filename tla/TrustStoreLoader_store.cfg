CONSTANTS
  PathStates <- MCPathStates
  Entries <- MCEntries
  MaxFiles = 2

SPECIFICATION Spec

INVARIANTS
  StoreInvariant
