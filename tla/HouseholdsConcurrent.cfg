SPECIFICATION Spec
CONSTANTS
  NULL = NULL
  Users = {u1, u2, u3}
  Households = {h1}
  Invitations = {i1}
  Requests = {r1, r2}
  MemberLimit = 2
  InviteRate = 1
  MaxResends = 1
  Operations = {"create", "list", "switch", "accept", "invite", "revoke", "resend", "remove", "set_role", "delete", "time"}
SYMMETRY Symmetry
CHECK_DEADLOCK FALSE
INVARIANTS AdmissionsBounded NoDanglingReference
PROPERTIES JoinedByInvitation ImplementsMembership
