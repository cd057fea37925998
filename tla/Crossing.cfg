CONSTANTS
  a = a
  b = b
  c = c
  g = g
  h = h
  Nodes = {a, b}
  Games = {g}
  Wishes <- OneGame
  None = None
  ADVERTISE_TIMEOUT = 3
  SERVING_REBROADCAST_TIMEOUT = 2
  CLAIM_ACK_TIMEOUT = 1
  CallbackOutcomes = {"returns"}
  MaxCopies = 1
  Budget <- TwoSearchesBudget
SPECIFICATION MCPromptFairSpec
PROPERTY SearchersMeet
