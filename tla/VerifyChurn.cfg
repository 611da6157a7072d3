\* Verify while other clients push and delete signatures without end, under
\* both kinds of paging, page sizes 1 and 2, MaxSignatureAttempts 1 and 2,
\* with a weakly fair verifier.
CONSTANTS
  Sigs <- MCSigs
  Kind <- MCKind
  PagingModes = {"offset", "cursor"}
  PageSizes = {1, 2}
  AttemptLimits = {1, 2}
  MaxReferrers = 3
SPECIFICATION FairSpec
INVARIANT TypeOK
INVARIANT NothingUnexamined
INVARIANT CursorWalkIsExact
PROPERTY Termination
