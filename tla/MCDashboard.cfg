SPECIFICATION Spec
CONSTANTS
  ReqIds = {r1}
  Usernames = {u1}
  Ops = {o1}
  Admin = Admin
  Nobody = Nobody
  MaxCalls = 2
  MaxOthers = 1
  MaxDecisions = 2
INVARIANTS TypeOK RowsAgree RowsWereStored LoadingHasCall SourcesMatch
PROPERTY ExpiredEnds
