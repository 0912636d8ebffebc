CONSTANTS
  t1 = t1
  t2 = t2
  t3 = t3
  t4 = t4
  u1 = u1
  u2 = u2
  Nil = Nil
  Turns = {t1, t2, t3, t4}
  Sessions = {u1, u2}
  SessionOf <- MCSessionOf
  PolicyConfig <- MCPolicyConfig
  Requests <- MCRequests
  GasPrices = {1, 2}
  MaxValue = 1
  MaxApprovals = 2
  MaxOps = 1
  TTL = 0
  MaxTime = 1
  MaxMined = 1
SYMMETRY Symmetry
SPECIFICATION Spec
INVARIANTS ApprovedOnce Authorised NoSelfReplacement HistoryTruthful
