SPECIFICATION Spec
CONSTANTS
  SessionIds = {s1}
  Identities = {i1}
  NoIdentity = none
  TTL = 1
  MaxTime = 3
INVARIANT PolledInstalledIsFinal
