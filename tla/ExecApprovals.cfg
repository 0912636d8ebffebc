CONSTANTS
  s1 = s1
  s2 = s2
  s3 = s3
  build = build
  test = test
  ls = ls
  rmrf = rmrf
  curl = curl
  Nil = Nil
  Sessions = {s1, s2, s3}
  Commands = {build, test, ls, rmrf, curl}
  Gated = {build, test, rmrf}
  Blocked = {rmrf}
  Unlisted = {curl}
  Lists <- MCLists
  MaxTurns = 5
SYMMETRY Symmetry
SPECIFICATION Spec
INVARIANTS RunsOnlyApproved NoDuplicates LostOnlyWhenDisturbed
