SPECIFICATION FlowSpec
CONSTANTS
  RequestIds = {r1}
  TTL = 1
  MaxTime = 3
  Agents = {a1}
  MacAgents = {a1}
  Serves <- OneDevice
  Published = {r1}
INVARIANT NoKeyWithoutConfirmation
