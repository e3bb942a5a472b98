SPECIFICATION Spec
CONSTANTS
  NULL = NULL
  Users = {u1, u2, u3}
  Households = {h1}
  Invitations = {i1}
  Requests = {r1, r2}
  MemberLimit = 3
  InviteRate = 1
  MaxResends = 1
  Operations = {"create", "accept", "invite", "revoke"}
SYMMETRY Symmetry
CHECK_DEADLOCK FALSE
PROPERTIES AcceptedIsFinal
