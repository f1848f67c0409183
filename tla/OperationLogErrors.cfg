CONSTANTS
  Levels = {0, 87}
  Ids <- MCIds
  LongIds <- MCLongIds
  Codes <- MCCodes
  BadCodes <- MCBadCodes
  Days <- MCDays
  Stamps <- MCStamps
  Versions <- MCVersions
  Types <- MCTypes
  Suffixes <- MCSuffixes
SPECIFICATION Spec
INVARIANT OnlyTTLockErrors
CHECK_DEADLOCK FALSE
