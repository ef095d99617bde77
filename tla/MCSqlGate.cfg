SPECIFICATION Spec
CONSTANTS
  MaxRows = 2
  Queries <- MCQueries
  Allowed <- MCAllowed
  Unlisted <- MCUnlisted
  Virtual <- MCVirtual
  None = None
INVARIANT MostSpecificCode
 
INVARIANT ReplayIsSame
