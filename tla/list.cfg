CONSTANTS
  Keys = {1, 2, 3, 4, 5}
  Limit = 2
  MaxChanges = 3
  MarkerRead <- MCMarkerRead
SPECIFICATION FairSpec
INVARIANTS
  TypeOK
  ListedOnce
  StableListed
PROPERTIES
  SortMovesNothing
  ListReturns
