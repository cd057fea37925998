CONSTANTS
  me = me
  peer = peer
  g = g
  h = h
  Nodes = {me, peer}
  Games = {g, h}
  Wishes <- TwoGames
  None = None
  ADVERTISE_TIMEOUT = 0
  SERVING_REBROADCAST_TIMEOUT = 0
  CLAIM_ACK_TIMEOUT = 0
  CallbackOutcomes = {"returns", "throws"}
  MaxCopies = 2
  Me = me
  CallbackDoes = {"throw", "find", "stop"}
  ListenerDoes = {"find", "stop"}
  MaxSearches = 3
  MaxInner = 2
  Budget <- CallsBudget
SPECIFICATION MCSpec
CHECK_DEADLOCK FALSE
INVARIANTS EverySearchIsTold ToldTwiceOnlyByCallback CallbacksSearchInVain ToldOfOwnMatch
PROPERTY FoldsToMatcher
SYMMETRY GameSymmetry
