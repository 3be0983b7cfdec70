SPECIFICATION Spec
CONSTANTS
  Kids = {v1, v2, v3}
  FirstKid = v1
  Agents = {a1}
  Bootstraps <- NoneOrAllSeeded
  TTL = 2
  CallTime = 1
  Overlap = 2
  MaxTime = 6
INVARIANTS
  TypeOK
  NoBundleRefused
  CacheIsRecent
