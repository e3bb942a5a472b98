SPECIFICATION Spec
CONSTANTS
  NULL = NULL
  Users = {u1, u2, u3}
  Households = {h1, h2, h3}
  Invitations = {i1}
  Requests = {r1}
  MemberLimit = 3
  InviteRate = 1
  MaxResends = 1
  Operations = {"create", "invite", "accept", "switch", "remove"}
SYMMETRY Symmetry
CHECK_DEADLOCK FALSE
PROPERTIES ActiveKeptWhileAccessible
