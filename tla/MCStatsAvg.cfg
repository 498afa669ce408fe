SPECIFICATION Spec
CONSTANTS
  r1 = r1
  r2 = r2
  ReqIds = {r1, r2}
  Gender <- MCGender
  Age <- MCAge
  Handlers = {h1, h2}
  MaxTasks = 4
  MaxFaults = 1
SYMMETRY Symmetry
INVARIANT StatsCanBeSent
