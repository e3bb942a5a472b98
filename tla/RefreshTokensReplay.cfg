SPECIFICATION SafeSpec
CONSTANTS
  NULL = NULL
  Users = {u1}
  Tokens = {1, 2, 3}
  Requests = {r1, r2}
SYMMETRY Symmetry
INVARIANTS AllSessionsRevoked
