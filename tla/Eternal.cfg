CONSTANTS
  a = a
  b = b
  c = c
  g = g
  h = h
  Nodes = {a, b}
  Games = {g}
  Wishes <- OneGame
  None = None
  ADVERTISE_TIMEOUT = 0
  SERVING_REBROADCAST_TIMEOUT = 0
  CLAIM_ACK_TIMEOUT = 0
  CallbackOutcomes = {"returns"}
  MaxCopies = 1
  Budget <- EternalBudget
SPECIFICATION MCFairSpec
PROPERTIES AbandonedGamesDrain NeverHangs
