CONSTANTS
  Requests = {r1, r2, r3}
  MaxFailed = 2
  LockTicks = 2
  MaxLinks = 2
  NoLock = NoLock
  NoCount = NoCount
SPECIFICATION AccountSpec
INVARIANT LinksUsedOnce
