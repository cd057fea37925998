CONSTANTS
  a = a
  b = b
  c = c
  g = g
  h = h
  Nodes = {a, b, c}
  Games = {g}
  Wishes <- OneGame
  None = None
  ADVERTISE_TIMEOUT = 0
  SERVING_REBROADCAST_TIMEOUT = 0
  CLAIM_ACK_TIMEOUT = 0
  CallbackOutcomes = {"returns"}
  MaxCopies = 1
  Budget <- CrowdBudget
SPECIFICATION MCSpec
SYMMETRY Clients
CHECK_DEADLOCK FALSE
INVARIANTS AcceptsOnlyClaimants JoinedOnlyIfAccepted OneMatchPerSearch
