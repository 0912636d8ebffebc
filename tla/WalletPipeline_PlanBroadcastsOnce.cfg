CONSTANTS
  t1 = t1
  t2 = t2
  t3 = t3
  u1 = u1
  u2 = u2
  Nil = Nil
  Turns = {t1, t2, t3}
  Sessions = {u1, u2}
  SessionOf <- MCSessionOf
  PolicyConfig <- MCPolicyConfig
  Requests <- MCRequests
  GasPrices = {1}
  MaxValue = 1
  MaxApprovals = 1
  MaxOps = 1
  TTL = 0
  MaxTime = 0
  MaxMined = 0
SYMMETRY Symmetry
SPECIFICATION PlanSpec
INVARIANT PlanBroadcastsOnce
CHECK_DEADLOCK FALSE
