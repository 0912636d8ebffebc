CONSTANTS
  c1 = c1
  c2 = c2
  c3 = c3
  c4 = c4
  c5 = c5
  s1 = s1
  s2 = s2
  None = None
  NoKey = NoKey
  Calls = {c1, c2, c3, c4, c5}
  Keys = {s1, s2}
  KeyOf <- MCKeyOf
  jobBufferSize = 1
  Terminating = {s1}
SPECIFICATION FairSpec
INVARIANTS OneTurnPerSession TurnTakenOnce
PROPERTIES ImplementsServer EveryTurnAnswered
CHECK_DEADLOCK FALSE
