SPECIFICATION Spec
CONSTANTS
  SessionIds = {s1, s2}
  Identities = {i1, i2}
  NoIdentity = none
  TTL = 1
  MaxTime = 3
SYMMETRY Ids
INVARIANTS
  TypeOK
  MemoryAheadOfDisk
  TokensOfLiveSessions
  RedeemedOnce
  RedeemedStaysApproved
  AnswersAreDurable
PROPERTIES
  NoProgressAfterDeadline
  InstalledIdentityIsFixed
