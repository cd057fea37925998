CONSTANTS
  a = a
  b = b
  c = c
  g = g
  h = h
  Nodes = {a, b}
  Games = {g}
  Wishes <- OneGame
  None = None
  ADVERTISE_TIMEOUT = 0
  SERVING_REBROADCAST_TIMEOUT = 0
  CLAIM_ACK_TIMEOUT = 0
  CallbackOutcomes = {"returns", "throws"}
  MaxCopies = 2
  Budget <- LossyBudget
SPECIFICATION MCSpec
SYMMETRY Clients
CHECK_DEADLOCK FALSE
INVARIANTS TypeOK AgentConsistent NoAckedGame HostAnswersClaims
PROPERTY ImplementsPairing
