SPECIFICATION Spec
CONSTANTS
  ReqIds = {r1}
  Usernames = {u1}
  Ops = {o1, o2}
  Handlers = {h1, h2}
  Admin = Admin
  Nobody = Nobody
  Targets = 2
  Quorum = 1
  MaxCommits = 3
  MaxFaults = 0
SYMMETRY Symmetry
INVARIANT FirstDecisionResolves
