SPECIFICATION InstallerSpec
CONSTANTS
  mac = mac
  linux = linux
  ids1 = ids1
  ids2 = ids2
  SessionIds = {s1}
  Identities = {ids1, ids2}
  NoIdentity = none
  TTL = 1
  MaxTime = 3
  Installers = {mac, linux}
  Override <- Environments
  Host <- HostNames
  Manager <- Managers
  OldServices <- OldOnLinux
  NoService = NoService
INVARIANTS
  InstalledMeansRunning
