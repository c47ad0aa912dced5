CONSTANTS
  PageUnits = 2
  MaxPages = 3
  CallerPages = 4
  MaxSessions = 3
  ShortWrites = TRUE
  Hole = Hole
  Junk = Junk
SPECIFICATION DiskSpec
INVARIANTS
  TypeOK
  CachedOrSaved
  UnusedIsNew
  OldOrNew
  CacheIsFaithful
PROPERTY ImplementsStore
CHECK_DEADLOCK FALSE
