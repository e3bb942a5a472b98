SPECIFICATION Spec
CONSTANTS
  NULL = NULL
  Users = {u1}
  Tokens = {1, 2, 3}
  Requests = {r1, r2}
INVARIANTS TypeOK OneLiveToken DetectedTokensRevoked DeadlocksAreReplays
PROPERTIES ImplementsSessions LogoutEndsSession EveryRequestEnds
