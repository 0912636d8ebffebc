CONSTANTS
  Messages = {1, 2, 3, 4, 5, 6}
  PlatformOf <- MCPlatformOf
  Keys = {"t", "s1", "s2", "d1", "d2"}
  KeyOf <- MCKeyOf
  Skipped = {3}
  Terminating = {"t", "s1", "s2", "d2"}
  Reachable = {"t", "s1", "d1", "d2"}
  MaxCrashes = 1
SPECIFICATION Spec
INVARIANTS AnsweredInOrder OneTurnPerMessage
PROPERTY EveryoneAnswered
CHECK_DEADLOCK FALSE
