SPECIFICATION Spec
CONSTANTS
  ReqIds = {r1, r2}
  Usernames = {u1}
  Ops = {o1}
  Admin = Admin
  Nobody = Nobody
  MaxCalls = 2
  Linked = {r1}
  MaxElsewhere = 1
INVARIANTS
  TypeOK
  OnlyVerifiedSubmitted
  AnswersAreTrue
  OneOpenRequest
  FormForAssignees
  CompletedWasStored
  ShownWasStored
PROPERTY VerificationEnds
