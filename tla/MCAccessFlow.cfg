SPECIFICATION LiveFlowSpec
CONSTANTS
  RequestIds = {r1}
  TTL = 1
  MaxTime = 3
  Agents = {a1, a2}
  MacAgents = {}
  Serves <- OneDevice
  Published = {r1}
INVARIANTS
  FlowTypeOK
  NoKeyWithoutConfirmation
  OneAgentPerRequest
  OutcomeMatchesDevice
PROPERTIES
  SignedOnlyWhileApproved
  UsesTheStore
  ImplementsContract
  EveryRequestSettlesInFlow
