SPECIFICATION Spec
CONSTANTS
  NULL = NULL
  Users = {u1, u2, u3}
  Households = {h1}
  Invitations = {i1, i2}
  Requests = {r1, r2}
  MemberLimit = 2
  InviteRate = 2
  MaxResends = 0
  Operations = {"create", "invite", "accept"}
SYMMETRY Symmetry
CHECK_DEADLOCK FALSE
INVARIANTS WithinMemberLimit
