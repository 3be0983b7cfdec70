SPECIFICATION FlowSpec
CONSTANTS
  RequestIds = {r1, r2}
  TTL = 1
  MaxTime = 3
  Agents = {a1}
  MacAgents = {}
  Serves <- OneDevice
  Published = {r1}
INVARIANT OutcomeMatchesDevice
PROPERTY SignedOnlyWhileApproved
