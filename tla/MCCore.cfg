SPECIFICATION Spec
CONSTANTS
  ReqIds = {r1, r2}
  Usernames = {u1}
  Ops = {o1}
  Handlers = {h1, h2}
  Admin = Admin
  Nobody = Nobody
  Targets = 1
  Quorum = 1
  MaxCommits = 3
  MaxFaults = 1
SYMMETRY Symmetry
INVARIANTS TypeOK WhitelistJustified DecidersWereMailed AckedWasDone NotifiedWhenDone GameServerAgrees
PROPERTY DecisionsAreKept
