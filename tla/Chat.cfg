\* Three listeners, messages up to four deep, a log of two.
CONSTANTS
  entries = 2
  MaxMessages = 4
  MaxListeners = 3
SPECIFICATION Spec
CHECK_DEADLOCK FALSE
INVARIANTS MissedOnlyByThrow OutOfOrderOnlyByReply HeardIsLogged
